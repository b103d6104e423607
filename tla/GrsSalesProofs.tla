---------------------------- MODULE GrsSalesProofs ----------------------------
(***************************************************************************)
(* GrsSales for any number of spokes, lots, purchases and messages.  The   *)
(* heart of the argument is that the tokens of a lot are in one place      *)
(* only: on sale at home, in one message, or on sale at one spoke.         *)
(* Without it a delivery could overwrite a lot that still holds tokens,    *)
(* which neither the supply nor the list price would survive.              *)
(***************************************************************************)
EXTENDS MCGrsSales, TotalsProofs

Rows == [known : BOOLEAN, grs : Nat, asset : Nat]

SaleMessages ==
    [kind : {"sale"}, src : {Home}, dst : Spokes, nonce : Nat, id : Ids, asset : Nat, sd : Nat]
OftMessages == [kind : {"oft"}, src : Chains, dst : Chains, nonce : Nat, sd : Nat]

\* What is on the wire: publications go to spokes, and a nonce is used once.
WireOK ==
    /\ IsFiniteSet(inflight)
    /\ inflight \subseteq SaleMessages \cup OftMessages
    /\ \A m \in inflight : m.nonce < nonce

Open(c, i) == sale[c][i].grs > 0
Travelling(m, i) == m \in SaleMessages /\ m.id = i /\ m.sd > 0

\* Ids the registry has not given out are unused everywhere, and the tokens of a lot are in
\* one place.
LotsInOnePlace ==
    /\ \A c \in Chains, i \in Ids : i > saleCount[Home] => ~Open(c, i) /\ ~sale[c][i].known
    /\ \A m \in inflight \cap SaleMessages : m.id <= saleCount[Home]
    /\ \A i \in Ids :
         /\ \A c, d \in Chains : Open(c, i) /\ Open(d, i) => c = d
         /\ \A m, n \in inflight : Travelling(m, i) /\ Travelling(n, i) => m = n
         /\ \A m \in inflight, c \in Chains : ~(Travelling(m, i) /\ Open(c, i))

\* The gates concern links and rows of the instance.
GatesOK == wired \subseteq Links /\ short \subseteq Links /\ funded \subseteq Chains \X Ids

SalesInv == EarmarksBacked /\ WireOK /\ LotsInOnePlace /\ SupplyConserved

-------------------------------------------------------------------------------
(* Operators. *)

LEMMA Constants ==
    /\ Home \notin Spokes /\ IsFiniteSet(Chains) /\ Home \in Chains /\ Spokes \subseteq Chains
    /\ MAX_SUPPLY \in Nat /\ LD2SD_RATE \in Nat \ {0}
    /\ ONE_IN_BASIS_POINTS \in Nat \ {0} /\ FeeBps \in 0..ONE_IN_BASIS_POINTS
    /\ LotSizes \subseteq Nat /\ Quotes \subseteq Nat /\ Amounts \subseteq Nat
    /\ MaxSales \in Nat /\ MaxMessages \in Nat
    /\ IsFiniteSet(Ids) /\ Ids \subseteq Nat
<1>1. IsFiniteSet(Chains)
    BY GrsAssumption, FS_AddElement DEF Chains
<1>2. MaxSales \in Nat
    BY GrsAssumption
<1>3. IsFiniteSet(Ids) /\ Ids \subseteq Nat
    BY <1>2, FS_Interval DEF Ids
<1> QED BY <1>1, <1>2, <1>3, GrsAssumption DEF Chains

\* Removing dust leaves the whole shared units.
LEMMA DustFacts ==
    ASSUME NEW n \in Nat
    PROVE  RemoveDust(n) \in 0..n /\ \E k \in Nat : RemoveDust(n) = Sd2Ld(k)
<1>1. PICK r \in Nat \ {0} : r = LD2SD_RATE
    BY Constants
<1>2. PICK q \in Nat : q = n \div r
    BY DivFacts
<1>3. n % r \in 0..n /\ n - (n % r) = q * r
    BY <1>2
<1>4. RemoveDust(n) = q * r /\ RemoveDust(n) \in 0..n
    BY <1>1, <1>3 DEF RemoveDust
<1> QED BY <1>1, <1>4 DEF Sd2Ld

\* Whole shared units survive the way over the wire.
LEMMA SharedExact ==
    ASSUME NEW k \in Nat
    PROVE  /\ Sd2Ld(k) \in Nat /\ Ld2Sd(Sd2Ld(k)) = k
           /\ k = 0 <=> Sd2Ld(k) = 0
<1>1. PICK r \in Nat \ {0} : r = LD2SD_RATE
    BY Constants
<1>2. k * r \in Nat /\ (k * r) \div r = k /\ (k = 0 <=> k * r = 0)
  <2>1. k * r \in Nat /\ k * r = r * k
      OBVIOUS
  <2>2. (k * r) \div r <= k /\ k <= (k * r) \div r /\ (k * r) \div r \in Nat
      BY <2>1, DivUpper, DivLower, DivFacts
  <2>3. k = 0 <=> k * r = 0
      OBVIOUS
  <2> QED BY <2>1, <2>2, <2>3
<1> QED BY <1>1, <1>2 DEF Sd2Ld, Ld2Sd

\* An amount without dust is a whole number of shared units.
LEMMA NoDust ==
    ASSUME NEW n \in Nat, n % LD2SD_RATE = 0
    PROVE  Ld2Sd(n) \in Nat /\ Sd2Ld(Ld2Sd(n)) = n
<1>1. PICK k \in Nat : RemoveDust(n) = Sd2Ld(k)
    BY DustFacts
<1>2. n = Sd2Ld(k)
    BY <1>1 DEF RemoveDust
<1> QED BY <1>2, SharedExact

\* What a transfer takes, keeps as a fee and announces.
LEMMA SendFacts ==
    ASSUME NEW amount \in Nat
    PROVE  LET sent == RemoveDust(amount)
               received == sent - OftFee(sent)
           IN  /\ sent \in Nat /\ OftFee(sent) \in Nat /\ received \in Nat
               /\ Ld2Sd(received) \in Nat
               /\ Sd2Ld(Ld2Sd(received)) = received
<1> DEFINE sent == RemoveDust(amount)
<1>1. PICK j \in Nat : sent = Sd2Ld(j)
    BY DustFacts
<1>2. sent \in Nat
    BY <1>1, SharedExact
<1> HIDE DEF sent
<1>3. PICK f \in Nat, o \in Nat \ {0} : f = FeeBps /\ o = ONE_IN_BASIS_POINTS /\ f <= o
    BY Constants
<1>4. sent * f \in Nat /\ sent * f <= o * sent
  <2>1. f * sent \in Nat /\ o * sent \in Nat /\ f * sent <= o * sent
      BY <1>2, <1>3, MulMono
  <2> QED BY <1>2, <1>3, <2>1
<1>5. PICK q \in Nat : q = (sent * f) \div o /\ q <= sent
    BY <1>2, <1>4, DivFacts, DivUpper
<1>6. PICK k \in Nat : RemoveDust(q) = Sd2Ld(k) /\ Sd2Ld(k) \in 0..q
    BY DustFacts
<1>7. OftFee(sent) = Sd2Ld(k)
    BY <1>3, <1>5, <1>6 DEF OftFee
<1>8. PICK r \in Nat \ {0} : r = LD2SD_RATE
    BY Constants
<1>9. sent = j * r /\ Sd2Ld(k) = k * r /\ k * r <= j * r
    BY <1>1, <1>2, <1>5, <1>6, <1>8 DEF Sd2Ld
<1>10. k <= j
    BY <1>9
<1>11. PICK d \in Nat : d = j - k
    BY <1>10
<1>12. sent - OftFee(sent) = Sd2Ld(d)
    BY <1>7, <1>8, <1>9, <1>11 DEF Sd2Ld
<1>13. /\ sent - OftFee(sent) \in Nat /\ Ld2Sd(sent - OftFee(sent)) \in Nat
       /\ Sd2Ld(Ld2Sd(sent - OftFee(sent))) = sent - OftFee(sent)
    BY <1>12, SharedExact
<1>14. OftFee(sent) \in Nat
    BY <1>7, SharedExact
<1> QED BY <1>2, <1>13, <1>14 DEF sent

\* A purchase costs at most what is asked for the rest, at most its share of it, and all of
\* it when it takes all.
LEMMA CostFacts ==
    ASSUME NEW n \in Nat, NEW g \in Nat \ {0}, NEW a \in Nat, n <= g
    PROVE  /\ CostOf(n, g, a) \in 0..a
           /\ g * CostOf(n, g, a) <= n * a
           /\ n = g => CostOf(n, g, a) = a
<1>1. CASE n = g
    BY <1>1 DEF CostOf
<1>2. CASE n # g
  <2>1. n * a \in Nat /\ n * a <= g * a
      BY MulMono
  <2>2. PICK q \in Nat : q = (n * a) \div g /\ q <= a /\ g * q <= n * a
      BY <2>1, DivFacts, DivUpper
  <2> QED BY <1>2, <2>2 DEF CostOf
<1> QED BY <1>1, <1>2

-------------------------------------------------------------------------------
(* Parts of the invariant, for the steps that touch them. *)

\* The types the steps work with.
LEMMA Types ==
    ASSUME TypeOK
    PROVE  /\ wallet \in [Chains -> Nat] /\ fees \in [Chains -> Nat] /\ escrow \in [Chains -> Nat]
           /\ reserved \in [Chains -> Nat] /\ spent \in [Chains -> Nat] /\ gone \in Nat
           /\ sale \in [Chains -> [Ids -> Rows]]
           /\ saleCount \in [Chains -> 0..MaxSales] /\ nonce \in 0..MaxMessages
BY DEF TypeOK, Rows

\* What changes in one row changes the earmarks of its chain by the same amount.
LEMMA RowUpdate ==
    ASSUME EarmarksBacked, NEW c \in Chains, NEW i \in Ids, NEW g \in Nat, NEW a \in Nat,
           NEW n, n = reserved[c] - sale[c][i].grs + g,
           sale' = [sale EXCEPT ![c][i] = SaleRow(g, a)],
           reserved' = [reserved EXCEPT ![c] = n]
    PROVE  /\ sale' \in [Chains -> [Ids -> Rows]]
           /\ sale'[c][i] = SaleRow(g, a)
           /\ \A d \in Chains, j \in Ids : d # c \/ j # i => sale'[d][j] = sale[d][j]
           /\ sale[c][i].grs <= reserved[c]
           /\ reserved' \in [Chains -> Nat]
           /\ \A d \in Chains : reserved'[d] = Earmarked(d)'
<1>1. sale \in [Chains -> [Ids -> Rows]] /\ reserved \in [Chains -> Nat]
    BY Types DEF EarmarksBacked
<1>2. SaleRow(g, a) \in Rows /\ SaleRow(g, a).grs = g
    BY DEF SaleRow, Rows
<1>3. /\ sale' \in [Chains -> [Ids -> Rows]]
      /\ sale'[c][i] = SaleRow(g, a)
      /\ \A d \in Chains, j \in Ids : d # c \/ j # i => sale'[d][j] = sale[d][j]
    BY <1>1, <1>2
<1> DEFINE f == [j \in Ids |-> sale[c][j].grs]
<1>4. f \in [Ids -> Nat] /\ f[i] = sale[c][i].grs
    BY <1>1 DEF Rows
<1>5. [j \in Ids |-> sale'[c][j].grs] = [f EXCEPT ![i] = g]
    BY <1>2, <1>3
<1>6. reserved[c] = Total(f) /\ reserved[c] \in Nat
    BY <1>1 DEF EarmarksBacked, Earmarked
<1> HIDE DEF f
<1>7. f[i] <= Total(f) /\ Total([f EXCEPT ![i] = g]) = Total(f) - f[i] + g
  <2>1. IsFiniteSet(Ids)
      BY Constants
  <2> QED BY <1>4, <2>1, TotalUpdate
<1>8. f[i] \in Nat
    BY <1>4
<1>9. n \in Nat /\ Earmarked(c)' = n /\ sale[c][i].grs <= reserved[c]
    BY <1>4, <1>5, <1>6, <1>7, <1>8 DEF Earmarked
<1>10. reserved' \in [Chains -> Nat] /\ reserved'[c] = n
       /\ \A d \in Chains : d # c => reserved'[d] = reserved[d]
    BY <1>1, <1>9
<1>11. ASSUME NEW d \in Chains, d # c PROVE reserved'[d] = Earmarked(d)'
  <2>1. [j \in Ids |-> sale'[d][j].grs] = [j \in Ids |-> sale[d][j].grs]
      BY <1>3, <1>11
  <2> QED BY <1>10, <1>11, <2>1 DEF EarmarksBacked, Earmarked
<1> QED BY <1>3, <1>9, <1>10, <1>11

Circulating == Total([c \in Chains |-> Supply(c)])

LEMMA SupplyFacts ==
    ASSUME wallet \in [Chains -> Nat], fees \in [Chains -> Nat], escrow \in [Chains -> Nat]
    PROVE  [c \in Chains |-> Supply(c)] \in [Chains -> Nat] /\ Circulating \in Nat
<1>1. [c \in Chains |-> Supply(c)] \in [Chains -> Nat]
    BY DEF Supply
<1> QED BY <1>1, Constants, TotalFinite DEF Circulating

\* Tokens that move on one chain.
LEMMA SupplyChange ==
    ASSUME wallet \in [Chains -> Nat], fees \in [Chains -> Nat], escrow \in [Chains -> Nat],
           wallet' \in [Chains -> Nat], fees' \in [Chains -> Nat], escrow' \in [Chains -> Nat],
           NEW c \in Chains,
           \A d \in Chains : d # c =>
             wallet'[d] = wallet[d] /\ fees'[d] = fees[d] /\ escrow'[d] = escrow[d]
    PROVE  /\ Circulating \in Nat /\ Supply(c) \in Nat /\ Supply(c)' \in Nat
           /\ Supply(c) <= Circulating
           /\ Circulating' = Circulating - Supply(c) + Supply(c)'
<1> DEFINE s == [d \in Chains |-> Supply(d)]
           t == [d \in Chains |-> Supply(d)']
           n == Supply(c)'
<1>1. s \in [Chains -> Nat] /\ Circulating \in Nat /\ n \in Nat /\ s[c] = Supply(c)
    BY SupplyFacts DEF Supply
<1>2. \A d \in Chains : d # c => Supply(d)' = Supply(d)
    BY DEF Supply
<1>3. t = [s EXCEPT ![c] = n]
    BY <1>2
<1>4. Total(s) = Circulating /\ Total(t) = Circulating'
    BY DEF Circulating
<1> HIDE DEF s, t, n
<1>5. s[c] <= Total(s) /\ Total([s EXCEPT ![c] = n]) = Total(s) - s[c] + n
  <2>1. IsFiniteSet(Chains)
      BY Constants
  <2> QED BY <1>1, <2>1, TotalUpdate
<1> QED BY <1>1, <1>3, <1>4, <1>5 DEF n, s

\* What a message carries.
LEMMA CarriedFacts ==
    ASSUME WireOK
    PROVE  /\ [m \in inflight |-> Sd2Ld(m.sd)] \in [inflight -> Nat] /\ Carried \in Nat
           /\ \A m \in inflight : m.sd \in Nat /\ Sd2Ld(m.sd) \in Nat /\ Sd2Ld(m.sd) <= Carried
<1> DEFINE f == [m \in inflight |-> Sd2Ld(m.sd)]
<1>1. \A m \in inflight : m.sd \in Nat
    BY DEF WireOK, SaleMessages, OftMessages
<1>2. f \in [inflight -> Nat]
    BY <1>1, SharedExact
<1>3. Carried = Total(f) /\ IsFiniteSet(inflight)
    BY DEF Carried, WireOK
<1>4. \A m \in inflight : f[m] = Sd2Ld(m.sd)
    OBVIOUS
<1> HIDE DEF f
<1>5. Total(f) \in Nat
    BY <1>2, <1>3, TotalFinite
<1>6. ASSUME NEW m \in inflight PROVE f[m] <= Total(f)
    BY <1>2, <1>3, TotalUpdate
<1> QED BY <1>1, <1>2, <1>3, <1>4, <1>5, <1>6 DEF f

LEMMA CarriedPost ==
    ASSUME WireOK, NEW m, m.sd \in Nat, m \notin inflight, inflight' = inflight \cup {m}
    PROVE  Carried' = Carried + Sd2Ld(m.sd)
<1> DEFINE f == [x \in inflight |-> Sd2Ld(x.sd)]
           g == [x \in inflight' |-> Sd2Ld(x.sd)]
<1>1. f \in [inflight -> Nat] /\ IsFiniteSet(inflight)
    BY CarriedFacts DEF WireOK
<1>2. g \in [inflight \cup {m} -> Nat]
  <2>1. \A x \in inflight : Sd2Ld(x.sd) \in Nat
      BY CarriedFacts
  <2>2. Sd2Ld(m.sd) \in Nat
      BY SharedExact
  <2> QED BY <2>1, <2>2
<1>3. (\A x \in inflight : g[x] = f[x]) /\ g[m] = Sd2Ld(m.sd)
    OBVIOUS
<1>4. Carried = Total(f) /\ Carried' = Total(g)
    BY DEF Carried
<1> HIDE DEF f, g
<1>5. Total(g) = Total(f) + g[m]
    BY <1>1, <1>2, <1>3, TotalJoin
<1> QED BY <1>3, <1>4, <1>5

LEMMA CarriedReceive ==
    ASSUME WireOK, NEW m \in inflight, inflight' = inflight \ {m}
    PROVE  Carried' = Carried - Sd2Ld(m.sd)
<1> DEFINE f == [x \in inflight |-> Sd2Ld(x.sd)]
           g == [x \in inflight' |-> Sd2Ld(x.sd)]
<1>1. f \in [inflight -> Nat] /\ IsFiniteSet(inflight)
    BY CarriedFacts DEF WireOK
<1>2. g \in [inflight \ {m} -> Nat]
  <2>1. \A x \in inflight : Sd2Ld(x.sd) \in Nat
      BY CarriedFacts
  <2> QED BY <2>1
<1>3. (\A x \in inflight \ {m} : g[x] = f[x]) /\ f[m] = Sd2Ld(m.sd)
    OBVIOUS
<1>4. Carried = Total(f) /\ Carried' = Total(g)
    BY DEF Carried
<1> HIDE DEF f, g
<1>5. Total(g) = Total(f) - f[m]
    BY <1>1, <1>2, <1>3, TotalLeave
<1> QED BY <1>3, <1>4, <1>5

-------------------------------------------------------------------------------
(* One place for a lot. *)

\* One row is written and no message is added: allowed when the row ends up empty or the
\* lot is nowhere else.
LEMMA LotsRow ==
    ASSUME LotsInOnePlace, NEW c \in Chains, NEW i \in Ids, NEW g \in Nat, NEW a \in Nat,
           sale'[c][i] = SaleRow(g, a),
           \A d \in Chains, j \in Ids : d # c \/ j # i => sale'[d][j] = sale[d][j],
           saleCount[Home] \in Nat, saleCount'[Home] \in Nat,
           saleCount[Home] <= saleCount'[Home], i <= saleCount'[Home],
           inflight' \subseteq inflight,
           g > 0 => /\ \A d \in Chains : d # c => ~Open(d, i)
                    /\ \A m \in inflight' : ~Travelling(m, i)
    PROVE  LotsInOnePlace'
<1>1. \A d \in Chains, j \in Ids : d # c \/ j # i => (Open(d, j)' <=> Open(d, j))
    BY DEF Open
<1>2. Open(c, i)' <=> g > 0
    BY DEF Open, SaleRow
<1>3. \A d \in Chains, j \in Ids : j > saleCount'[Home] => ~Open(d, j)' /\ ~sale'[d][j].known
  <2> SUFFICES ASSUME NEW d \in Chains, NEW j \in Ids, j > saleCount'[Home]
               PROVE  ~Open(d, j)' /\ ~sale'[d][j].known
      OBVIOUS
  <2>1. j # i /\ j > saleCount[Home]
      BY Constants
  <2> QED BY <1>1, <2>1 DEF LotsInOnePlace
<1>4. \A m \in inflight' \cap SaleMessages : m.id <= saleCount'[Home]
  <2>1. \A m \in SaleMessages : m.id \in Nat
      BY Constants DEF SaleMessages
  <2>2. \A m \in inflight' \cap SaleMessages : m.id <= saleCount[Home]
      BY DEF LotsInOnePlace
  <2> QED BY <2>1, <2>2
<1> HIDE DEF Open
<1>5. ASSUME NEW j \in Ids
      PROVE  /\ \A d, e \in Chains : Open(d, j)' /\ Open(e, j)' => d = e
             /\ \A m, n \in inflight' : Travelling(m, j) /\ Travelling(n, j) => m = n
             /\ \A m \in inflight', d \in Chains : ~(Travelling(m, j) /\ Open(d, j)')
    BY <1>1, <1>2 DEF LotsInOnePlace
<1> QED BY <1>3, <1>4, <1>5 DEF LotsInOnePlace

\* The row at home is emptied into a message; a closed row sends none of its tokens.
LEMMA LotsPost ==
    ASSUME LotsInOnePlace, NEW i \in Ids, NEW m \in SaleMessages,
           m.id = i, m.sd > 0 => Open(Home, i), i <= saleCount[Home],
           sale'[Home][i] = SaleRow(0, 0),
           \A d \in Chains, j \in Ids : d # Home \/ j # i => sale'[d][j] = sale[d][j],
           saleCount[Home] \in Nat, saleCount' = saleCount,
           inflight' = inflight \cup {m}
    PROVE  LotsInOnePlace'
<1>1. \A d \in Chains, j \in Ids : d # Home \/ j # i => (Open(d, j)' <=> Open(d, j))
    BY DEF Open
<1>2. ~Open(Home, i)' /\ Home \in Chains
    BY Constants DEF Open, SaleRow
<1>3. \A d \in Chains, j \in Ids : j > saleCount'[Home] => ~Open(d, j)' /\ ~sale'[d][j].known
  <2> SUFFICES ASSUME NEW d \in Chains, NEW j \in Ids, j > saleCount'[Home]
               PROVE  ~Open(d, j)' /\ ~sale'[d][j].known
      OBVIOUS
  <2>1. j # i /\ j > saleCount[Home]
      BY Constants
  <2> QED BY <1>1, <2>1 DEF LotsInOnePlace
<1>4. \A n \in inflight' \cap SaleMessages : n.id <= saleCount'[Home]
    BY DEF LotsInOnePlace
<1>5. \A j \in Ids : Travelling(m, j) => j = i /\ Open(Home, i)
    BY DEF Travelling
<1>6. ASSUME NEW j \in Ids
      PROVE  /\ \A d, e \in Chains : Open(d, j)' /\ Open(e, j)' => d = e
             /\ \A x, y \in inflight' : Travelling(x, j) /\ Travelling(y, j) => x = y
             /\ \A x \in inflight', d \in Chains : ~(Travelling(x, j) /\ Open(d, j)')
    BY <1>1, <1>2, <1>5 DEF LotsInOnePlace
<1> QED BY <1>3, <1>4, <1>6 DEF LotsInOnePlace

\* The book is untouched and no publication is sent.
LEMMA LotsSame ==
    ASSUME LotsInOnePlace, sale' = sale, saleCount' = saleCount,
           inflight' \cap SaleMessages \subseteq inflight
    PROVE  LotsInOnePlace'
<1>1. \A m \in inflight', i \in Ids : Travelling(m, i) => m \in inflight
    BY DEF Travelling
<1> QED BY <1>1 DEF LotsInOnePlace, Open

-------------------------------------------------------------------------------
(* The invariant. *)

\* The parts of EarmarksBacked, put together after a step.
LEMMA Assembled ==
    ASSUME WireOK', GatesOK', genesisMinted' \in BOOLEAN, paused' \in [Chains -> BOOLEAN],
           wallet' \in [Chains -> Nat], fees' \in [Chains -> Nat], escrow' \in [Chains -> Nat],
           reserved' \in [Chains -> Nat], spent' \in [Chains -> Nat],
           sale' \in [Chains -> [Ids -> Rows]], saleCount' \in [Chains -> 0..MaxSales],
           nonce' \in 0..MaxMessages, gone' \in Nat,
           \A c \in Chains : reserved'[c] = Earmarked(c)' /\ reserved'[c] <= escrow'[c]
    PROVE  EarmarksBacked'
<1>1. \A m \in inflight' :
         m.src \in Chains /\ m.dst \in Chains /\ m.nonce \in 0..(nonce' - 1) /\ m.sd \in Nat
  <2> SUFFICES ASSUME NEW m \in inflight'
               PROVE  /\ m.src \in Chains /\ m.dst \in Chains
                      /\ m.nonce \in 0..(nonce' - 1) /\ m.sd \in Nat
      OBVIOUS
  <2>1. m.nonce < nonce' /\ m \in SaleMessages \cup OftMessages
      BY DEF WireOK
  <2>2. m.src \in Chains /\ m.dst \in Chains /\ m.nonce \in Nat /\ m.sd \in Nat
      BY <2>1, Constants DEF SaleMessages, OftMessages
  <2>3. nonce' \in Int
      BY Constants
  <2> QED BY <2>1, <2>2, <2>3
<1>2. TypeOK'
    BY <1>1 DEF TypeOK, Rows, GatesOK
<1> QED BY <1>2 DEF EarmarksBacked

\* Steps that write neither the book nor the wire.
LEMMA QuietBook ==
    ASSUME SalesInv, GatesOK', UNCHANGED <<reserved, spent, sale, saleCount, inflight, nonce>>,
           genesisMinted' \in BOOLEAN, paused' \in [Chains -> BOOLEAN],
           wallet' \in [Chains -> Nat], fees' \in [Chains -> Nat], escrow' \in [Chains -> Nat],
           \A c \in Chains : escrow'[c] >= escrow[c], gone' \in Nat
    PROVE  EarmarksBacked' /\ WireOK' /\ LotsInOnePlace' /\ Carried' = Carried
<1>1. WireOK'
    BY DEF SalesInv, WireOK
<1>2. LotsInOnePlace'
    BY LotsSame DEF SalesInv
<1>3. /\ reserved \in [Chains -> Nat] /\ spent \in [Chains -> Nat] /\ escrow \in [Chains -> Nat]
      /\ sale \in [Chains -> [Ids -> Rows]] /\ saleCount \in [Chains -> 0..MaxSales]
      /\ nonce \in 0..MaxMessages
    BY Types DEF SalesInv, EarmarksBacked
<1>4. \A c \in Chains : reserved'[c] = Earmarked(c)' /\ reserved'[c] <= escrow'[c]
  <2> SUFFICES ASSUME NEW c \in Chains
               PROVE  reserved'[c] = Earmarked(c)' /\ reserved'[c] <= escrow'[c]
      OBVIOUS
  <2>1. Earmarked(c)' = Earmarked(c)
      BY DEF Earmarked
  <2>2. reserved[c] = Earmarked(c) /\ reserved[c] <= escrow[c]
      BY DEF SalesInv, EarmarksBacked
  <2>3. reserved[c] \in Nat /\ escrow[c] \in Nat /\ escrow'[c] \in Nat /\ escrow'[c] >= escrow[c]
      BY <1>3
  <2> QED BY <2>1, <2>2, <2>3
<1>5. EarmarksBacked'
    BY <1>1, <1>3, <1>4, Assembled
<1>6. Carried' = Carried
    BY DEF Carried
<1> QED BY <1>1, <1>2, <1>5, <1>6

LEMMA Conserved ==
    ASSUME SupplyConserved, genesisMinted' = genesisMinted,
           Circulating' + Carried' + gone' = Circulating + Carried + gone
    PROVE  SupplyConserved'
BY DEF SupplyConserved, Circulating

\* The types of a state of the invariant, and the totals.
LEMMA InvFacts ==
    ASSUME SalesInv
    PROVE  /\ genesisMinted \in BOOLEAN /\ paused \in [Chains -> BOOLEAN]
           /\ wallet \in [Chains -> Nat] /\ fees \in [Chains -> Nat] /\ escrow \in [Chains -> Nat]
           /\ reserved \in [Chains -> Nat] /\ spent \in [Chains -> Nat] /\ gone \in Nat
           /\ sale \in [Chains -> [Ids -> Rows]]
           /\ saleCount \in [Chains -> 0..MaxSales] /\ nonce \in 0..MaxMessages
           /\ \A c \in Chains : reserved[c] <= escrow[c]
           /\ Circulating \in Nat /\ Carried \in Nat
           /\ Circulating + Carried + gone <= MAX_SUPPLY
           /\ GatesOK
<1>1. TypeOK /\ WireOK /\ \A c \in Chains : reserved[c] <= escrow[c]
    BY DEF SalesInv, EarmarksBacked
<1>2. genesisMinted \in BOOLEAN /\ paused \in [Chains -> BOOLEAN] /\ GatesOK
    BY <1>1 DEF TypeOK, GatesOK
<1>3. Circulating \in Nat /\ Carried \in Nat
    BY <1>1, Types, SupplyFacts, CarriedFacts
<1>4. Circulating + Carried + gone <= MAX_SUPPLY
  <2>1. MAX_SUPPLY \in Nat
      BY Constants
  <2>2. Circulating + Carried + gone = IF genesisMinted THEN MAX_SUPPLY ELSE 0
      BY DEF SalesInv, SupplyConserved, Circulating
  <2> QED BY <2>1, <2>2
<1> QED BY <1>1, <1>2, <1>3, <1>4, Types

LEMMA SalesInvInit == Init => SalesInv
<1> SUFFICES ASSUME Init PROVE SalesInv
    OBVIOUS
<1>1. NoSale \in Rows /\ NoSale.grs = 0 /\ ~NoSale.known
    BY DEF NoSale, Rows
<1>2. \A c \in Chains, i \in Ids : sale[c][i] = NoSale
    BY DEF Init
<1>3. TypeOK
  <2>1. genesisMinted \in BOOLEAN
      BY Zenon DEF Init
  <2>2. paused \in [Chains -> BOOLEAN]
      BY Zenon DEF Init
  <2>3. sale \in [Chains -> [Ids -> Rows]]
      BY <1>1 DEF Init
  <2>4. GatesOK
      BY DEF Init, GatesOK
  <2> QED BY <2>1, <2>2, <2>3, <2>4, Constants DEF Init, TypeOK, Rows, GatesOK
<1>4. \A c \in Chains : reserved[c] = Earmarked(c) /\ reserved[c] <= escrow[c]
  <2> SUFFICES ASSUME NEW c \in Chains PROVE reserved[c] = Earmarked(c) /\ reserved[c] <= escrow[c]
      OBVIOUS
  <2>1. [i \in Ids |-> sale[c][i].grs] = [i \in Ids |-> 0]
      BY <1>1, <1>2
  <2>2. Earmarked(c) = 0
      BY <2>1, TotalZero DEF Earmarked
  <2> QED BY <2>2 DEF Init
<1>5. WireOK
    BY FS_EmptySet DEF Init, WireOK
<1>6. LotsInOnePlace
    BY <1>1, <1>2 DEF Init, LotsInOnePlace, Open
<1>7. SupplyConserved
  <2>1. [c \in Chains |-> Supply(c)] = [c \in Chains |-> 0]
      BY DEF Init, Supply
  <2>2. Total([c \in Chains |-> Supply(c)]) = 0
      BY <2>1, TotalZero
  <2>3. Carried = 0
      BY TotalEmpty DEF Init, Carried
  <2> QED BY <2>2, <2>3 DEF Init, SupplyConserved
<1> QED BY <1>3, <1>4, <1>5, <1>6, <1>7 DEF SalesInv, EarmarksBacked

LEMMA MintGenesisStep ==
    ASSUME SalesInv, GatesOK', MintGenesis
    PROVE  SalesInv'
<1>1. /\ ~genesisMinted /\ Supply(Home) = 0 /\ genesisMinted' = TRUE
      /\ wallet' = [wallet EXCEPT ![Home] = @ + MAX_SUPPLY]
      /\ paused' = paused /\ fees' = fees /\ escrow' = escrow /\ gone' = gone
      /\ UNCHANGED <<reserved, spent, sale, saleCount, inflight, nonce>>
    BY DEF MintGenesis, bookVars, wireVars
<1>2. /\ wallet \in [Chains -> Nat] /\ fees \in [Chains -> Nat] /\ escrow \in [Chains -> Nat]
      /\ Circulating \in Nat /\ Carried \in Nat /\ gone \in Nat
      /\ MAX_SUPPLY \in Nat /\ Home \in Chains
    BY InvFacts, Constants
<1>3. wallet' \in [Chains -> Nat] /\ wallet'[Home] = wallet[Home] + MAX_SUPPLY
      /\ \A d \in Chains : d # Home => wallet'[d] = wallet[d]
    BY <1>1, <1>2
<1>4. EarmarksBacked' /\ WireOK' /\ LotsInOnePlace' /\ Carried' = Carried
  <2>1. genesisMinted' \in BOOLEAN
      BY <1>1, Zenon
  <2>2. paused' \in [Chains -> BOOLEAN] /\ fees' \in [Chains -> Nat] /\ escrow' \in [Chains -> Nat]
        /\ gone' \in Nat /\ \A c \in Chains : escrow'[c] >= escrow[c]
      BY <1>1, <1>2, InvFacts
  <2> QED BY <1>1, <1>3, <2>1, <2>2, QuietBook
<1>5. Circulating' = Circulating + MAX_SUPPLY
  <2>1. /\ Supply(Home)' = Supply(Home) + MAX_SUPPLY
      BY <1>1, <1>2, <1>3 DEF Supply
  <2>2. Circulating' = Circulating - Supply(Home) + Supply(Home)' /\ Supply(Home) \in Nat
      BY <1>1, <1>2, <1>3, SupplyChange
  <2> QED BY <1>2, <2>1, <2>2
<1>6. Circulating + Carried + gone = 0
    BY <1>1 DEF SalesInv, SupplyConserved, Circulating
<1>7. Circulating' + Carried' + gone' = MAX_SUPPLY
    BY <1>1, <1>2, <1>4, <1>5, <1>6
<1>8. SupplyConserved'
    BY <1>1, <1>7 DEF SupplyConserved, Circulating
<1> QED BY <1>4, <1>8 DEF SalesInv

\* Tokens that move between accounts of a chain, or are burned by their holder.
LEMMA TokenStep ==
    ASSUME SalesInv, GatesOK', NEW c \in Chains,
           UNCHANGED <<genesisMinted, paused, reserved, spent, sale, saleCount, inflight, nonce>>,
           wallet' \in [Chains -> Nat], fees' \in [Chains -> Nat], escrow' \in [Chains -> Nat],
           \A d \in Chains : d # c =>
             wallet'[d] = wallet[d] /\ fees'[d] = fees[d] /\ escrow'[d] = escrow[d],
           escrow'[c] >= escrow[c], gone' \in Nat,
           Supply(c)' + gone' = Supply(c) + gone
    PROVE  SalesInv'
<1>1. /\ wallet \in [Chains -> Nat] /\ fees \in [Chains -> Nat] /\ escrow \in [Chains -> Nat]
      /\ Circulating \in Nat /\ Carried \in Nat /\ gone \in Nat
    BY InvFacts
<1>2. \A d \in Chains : escrow'[d] >= escrow[d]
    BY <1>1
<1>3. EarmarksBacked' /\ WireOK' /\ LotsInOnePlace' /\ Carried' = Carried
  <2>1. genesisMinted' \in BOOLEAN /\ paused' \in [Chains -> BOOLEAN]
      BY InvFacts
  <2> QED BY <1>2, <2>1, QuietBook
<1>4. Circulating' = Circulating - Supply(c) + Supply(c)' /\ Supply(c) \in Nat /\ Supply(c)' \in Nat
    BY <1>1, SupplyChange
<1>5. Circulating' + Carried' + gone' = Circulating + Carried + gone
    BY <1>1, <1>3, <1>4
<1>6. SupplyConserved'
    BY <1>5, Conserved DEF SalesInv
<1> QED BY <1>3, <1>6 DEF SalesInv

LEMMA WithdrawFeeStep ==
    ASSUME SalesInv, GatesOK', NEW c \in Chains, NEW n \in Amounts, WithdrawFee(c, n)
    PROVE  SalesInv'
<1>1. /\ wallet \in [Chains -> Nat] /\ fees \in [Chains -> Nat] /\ escrow \in [Chains -> Nat]
      /\ gone \in Nat /\ n \in Nat
    BY InvFacts, Constants
<1>2. /\ fees[c] >= n /\ fees' = [fees EXCEPT ![c] = @ - n] /\ wallet' = [wallet EXCEPT ![c] = @ + n]
      /\ escrow' = escrow /\ gone' = gone
      /\ UNCHANGED <<genesisMinted, paused, reserved, spent, sale, saleCount, inflight, nonce>>
    BY DEF WithdrawFee, bookVars, wireVars
<1>3. /\ wallet' \in [Chains -> Nat] /\ fees' \in [Chains -> Nat] /\ escrow' \in [Chains -> Nat]
      /\ wallet'[c] = wallet[c] + n /\ fees'[c] = fees[c] - n
      /\ \A d \in Chains : d # c => wallet'[d] = wallet[d] /\ fees'[d] = fees[d] /\ escrow'[d] = escrow[d]
    BY <1>1, <1>2
<1>4. Supply(c)' + gone' = Supply(c) + gone /\ escrow'[c] >= escrow[c] /\ gone' \in Nat
    BY <1>1, <1>2, <1>3 DEF Supply
<1> QED BY <1>2, <1>3, <1>4, TokenStep

LEMMA DonateStep ==
    ASSUME SalesInv, GatesOK', NEW c \in Chains, NEW n \in Amounts, Donate(c, n)
    PROVE  SalesInv'
<1>1. /\ wallet \in [Chains -> Nat] /\ fees \in [Chains -> Nat] /\ escrow \in [Chains -> Nat]
      /\ gone \in Nat /\ n \in Nat
    BY InvFacts, Constants
<1>2. /\ n <= wallet[c] /\ wallet' = [wallet EXCEPT ![c] = @ - n] /\ escrow' = [escrow EXCEPT ![c] = @ + n]
      /\ fees' = fees /\ gone' = gone
      /\ UNCHANGED <<genesisMinted, paused, reserved, spent, sale, saleCount, inflight, nonce>>
    BY DEF Donate, bookVars, wireVars
<1>3. /\ wallet' \in [Chains -> Nat] /\ fees' \in [Chains -> Nat] /\ escrow' \in [Chains -> Nat]
      /\ wallet'[c] = wallet[c] - n /\ escrow'[c] = escrow[c] + n
      /\ \A d \in Chains : d # c => wallet'[d] = wallet[d] /\ fees'[d] = fees[d] /\ escrow'[d] = escrow[d]
    BY <1>1, <1>2
<1>4. Supply(c)' + gone' = Supply(c) + gone /\ escrow'[c] >= escrow[c] /\ gone' \in Nat
    BY <1>1, <1>2, <1>3 DEF Supply
<1> QED BY <1>2, <1>3, <1>4, TokenStep

LEMMA BurnGrsStep ==
    ASSUME SalesInv, GatesOK', NEW c \in Chains, NEW n \in Amounts, BurnGrs(c, n)
    PROVE  SalesInv'
<1>1. /\ wallet \in [Chains -> Nat] /\ fees \in [Chains -> Nat] /\ escrow \in [Chains -> Nat]
      /\ gone \in Nat /\ n \in Nat
    BY InvFacts, Constants
<1>2. /\ n <= wallet[c] /\ wallet' = [wallet EXCEPT ![c] = @ - n] /\ escrow' = escrow
      /\ fees' = fees /\ gone' = gone + n
      /\ UNCHANGED <<genesisMinted, paused, reserved, spent, sale, saleCount, inflight, nonce>>
    BY DEF BurnGrs, bookVars, wireVars
<1>3. /\ wallet' \in [Chains -> Nat] /\ fees' \in [Chains -> Nat] /\ escrow' \in [Chains -> Nat]
      /\ wallet'[c] = wallet[c] - n
      /\ \A d \in Chains : d # c => wallet'[d] = wallet[d] /\ fees'[d] = fees[d] /\ escrow'[d] = escrow[d]
    BY <1>1, <1>2
<1>4. Supply(c)' + gone' = Supply(c) + gone /\ escrow'[c] >= escrow[c] /\ gone' \in Nat
    BY <1>1, <1>2, <1>3 DEF Supply
<1> QED BY <1>2, <1>3, <1>4, TokenStep

\* Steps that change nothing but the pause flags and the gates.
LEMMA SetPauseStep ==
    ASSUME SalesInv, GatesOK', paused' \in [Chains -> BOOLEAN],
           UNCHANGED <<genesisMinted, tokenVars, bookVars, wireVars, gone>>
    PROVE  SalesInv'
<1>1. /\ UNCHANGED <<reserved, spent, sale, saleCount, inflight, nonce>>
      /\ wallet' = wallet /\ fees' = fees /\ escrow' = escrow /\ gone' = gone
      /\ genesisMinted' = genesisMinted
    BY DEF tokenVars, bookVars, wireVars
<1>2. EarmarksBacked' /\ WireOK' /\ LotsInOnePlace' /\ Carried' = Carried
  <2>1. /\ wallet \in [Chains -> Nat] /\ fees \in [Chains -> Nat] /\ escrow \in [Chains -> Nat]
        /\ gone \in Nat
      BY InvFacts
  <2>2. \A c \in Chains : escrow'[c] >= escrow[c]
      BY <1>1, <2>1
  <2>3. genesisMinted' \in BOOLEAN
      BY <1>1, InvFacts
  <2> QED BY <1>1, <2>1, <2>2, <2>3, QuietBook
<1>3. Circulating' = Circulating
    BY <1>1 DEF Circulating, Supply
<1>4. SupplyConserved'
    BY <1>1, <1>2, <1>3, Conserved DEF SalesInv
<1> QED BY <1>2, <1>4 DEF SalesInv

-------------------------------------------------------------------------------
(* The sale book. *)

\* A row of one chain is written, its earmark follows, and escrow keeps covering it.
LEMMA BookStep ==
    ASSUME SalesInv, GatesOK', NEW c \in Chains, NEW i \in Ids, NEW g \in Nat, NEW a \in Nat,
           NEW n, n = reserved[c] - sale[c][i].grs + g,
           sale' = [sale EXCEPT ![c][i] = SaleRow(g, a)],
           reserved' = [reserved EXCEPT ![c] = n],
           WireOK', genesisMinted' \in BOOLEAN, paused' \in [Chains -> BOOLEAN],
           wallet' \in [Chains -> Nat], fees' \in [Chains -> Nat], escrow' \in [Chains -> Nat],
           \A d \in Chains : d # c => escrow'[d] = escrow[d],
           n <= escrow'[c],
           spent' \in [Chains -> Nat], saleCount' \in [Chains -> 0..MaxSales],
           nonce' \in 0..MaxMessages, gone' \in Nat
    PROVE  EarmarksBacked'
<1>1. /\ sale' \in [Chains -> [Ids -> Rows]] /\ reserved' \in [Chains -> Nat]
      /\ \A d \in Chains : reserved'[d] = Earmarked(d)'
    BY RowUpdate DEF SalesInv
<1>2. \A d \in Chains : reserved'[d] <= escrow'[d]
  <2>1. reserved \in [Chains -> Nat] /\ \A d \in Chains : reserved[d] <= escrow[d]
      BY InvFacts
  <2> QED BY <2>1
<1> QED BY <1>1, <1>2, Assembled

\* The top-up of a listing is what the earmarks do not leave free.
LEMMA TopUpFacts ==
    ASSUME SalesInv, NEW g \in Nat
    PROVE  TopUp(g) \in Nat /\ reserved[Home] + g <= escrow[Home] + TopUp(g)
<1>1. PICK r \in Nat, e \in Nat : r = reserved[Home] /\ e = escrow[Home] /\ r <= e
    BY InvFacts, Constants
<1>2. FreeSaleInventory(Home) = e - r
    BY <1>1 DEF FreeSaleInventory
<1> QED BY <1>1, <1>2 DEF TopUp

LEMMA AppendSaleStep ==
    ASSUME SalesInv, GatesOK', NEW a \in Quotes, NEW g \in LotSizes, AppendSale(a, g)
    PROVE  SalesInv'
<1>1. PICK i : i = saleCount[Home] + 1
    OBVIOUS
<1>2. PICK t \in Nat : t = TopUp(g) /\ reserved[Home] + g <= escrow[Home] + t
    BY TopUpFacts, Constants
<1>3. /\ i \in Ids /\ t <= wallet[Home]
      /\ wallet' = [wallet EXCEPT ![Home] = @ - t]
      /\ escrow' = [escrow EXCEPT ![Home] = @ + t]
      /\ reserved' = [reserved EXCEPT ![Home] = @ + g]
      /\ sale' = [sale EXCEPT ![Home][i] = SaleRow(g, a)]
      /\ saleCount' = [saleCount EXCEPT ![Home] = i]
      /\ genesisMinted' = genesisMinted /\ paused' = paused /\ fees' = fees /\ spent' = spent
      /\ inflight' = inflight /\ nonce' = nonce /\ gone' = gone
    BY <1>1, <1>2 DEF AppendSale, wireVars
<1>4. /\ wallet \in [Chains -> Nat] /\ fees \in [Chains -> Nat] /\ escrow \in [Chains -> Nat]
      /\ reserved \in [Chains -> Nat] /\ spent \in [Chains -> Nat]
      /\ sale \in [Chains -> [Ids -> Rows]] /\ saleCount \in [Chains -> 0..MaxSales]
      /\ Home \in Chains /\ g \in Nat /\ a \in Nat /\ MaxSales \in Nat
      /\ Circulating \in Nat /\ Carried \in Nat /\ gone \in Nat
    BY InvFacts, Constants
<1>5. /\ wallet' \in [Chains -> Nat] /\ fees' \in [Chains -> Nat] /\ escrow' \in [Chains -> Nat]
      /\ wallet'[Home] = wallet[Home] - t /\ escrow'[Home] = escrow[Home] + t
      /\ \A d \in Chains : d # Home => wallet'[d] = wallet[d] /\ fees'[d] = fees[d] /\ escrow'[d] = escrow[d]
    BY <1>3, <1>4
<1>6. sale[Home][i].grs = 0
  <2>1. i > saleCount[Home]
      BY <1>1, <1>4
  <2>2. ~Open(Home, i)
      BY <1>3, <1>4, <2>1 DEF SalesInv, LotsInOnePlace
  <2>3. sale[Home][i] \in Rows
      BY <1>3, <1>4
  <2> QED BY <2>2, <2>3 DEF Open, Rows
<1>7. WireOK'
    BY <1>3 DEF SalesInv, WireOK
<1>8. PICK n \in Nat : n = reserved[Home] + g
    BY <1>4
<1>9. n = reserved[Home] - sale[Home][i].grs + g /\ reserved' = [reserved EXCEPT ![Home] = n]
    BY <1>3, <1>4, <1>6, <1>8
<1>10. EarmarksBacked'
  <2>1. n <= escrow'[Home]
      BY <1>2, <1>4, <1>5, <1>8
  <2>2. saleCount' \in [Chains -> 0..MaxSales]
      BY <1>3, <1>4 DEF Ids
  <2>3. genesisMinted' \in BOOLEAN /\ paused' \in [Chains -> BOOLEAN] /\ nonce' \in 0..MaxMessages
      BY <1>3, InvFacts
  <2>4. spent' \in [Chains -> Nat] /\ gone' \in Nat
      BY <1>3, <1>4
  <2>5. \A d \in Chains : d # Home => escrow'[d] = escrow[d]
      BY <1>5
  <2> QED BY <1>3, <1>4, <1>5, <1>7, <1>9, <2>1, <2>2, <2>3, <2>4, <2>5, BookStep
<1>11. LotsInOnePlace'
  <2>1. /\ sale'[Home][i] = SaleRow(g, a)
        /\ \A d \in Chains, j \in Ids : d # Home \/ j # i => sale'[d][j] = sale[d][j]
      BY <1>3, <1>4
  <2>2. /\ saleCount[Home] \in Nat /\ saleCount'[Home] \in Nat
        /\ saleCount[Home] <= saleCount'[Home] /\ i <= saleCount'[Home] /\ i > saleCount[Home]
      BY <1>1, <1>3, <1>4
  <2>3. \A d \in Chains : ~Open(d, i)
      BY <1>3, <2>2 DEF SalesInv, LotsInOnePlace
  <2>4. \A m \in inflight' : ~Travelling(m, i)
    <3>1. \A m \in inflight \cap SaleMessages : m.id <= saleCount[Home]
        BY DEF SalesInv, LotsInOnePlace
    <3>2. \A m \in inflight \cap SaleMessages : m.id # i
        BY <1>1, <2>2, <3>1
    <3> QED BY <1>3, <3>2 DEF Travelling
  <2>5. LotsInOnePlace /\ i \in Ids /\ Home \in Chains /\ g \in Nat /\ a \in Nat
        /\ inflight' \subseteq inflight
      BY <1>3, <1>4 DEF SalesInv
  <2> QED BY <2>1, <2>2, <2>3, <2>4, <2>5, LotsRow
<1>12. SupplyConserved'
  <2>1. Supply(Home)' = Supply(Home) /\ Supply(Home) \in Nat
      BY <1>3, <1>4, <1>5 DEF Supply
  <2>2. Circulating' = Circulating - Supply(Home) + Supply(Home)'
      BY <1>4, <1>5, SupplyChange
  <2>3. Circulating' = Circulating /\ Carried' = Carried
      BY <1>3, <1>4, <2>1, <2>2 DEF Carried
  <2> QED BY <1>3, <2>3, Conserved DEF SalesInv
<1> QED BY <1>7, <1>10, <1>11, <1>12 DEF SalesInv

LEMMA CloseSaleStep ==
    ASSUME SalesInv, GatesOK', NEW i \in Ids, CloseSale(i)
    PROVE  SalesInv'
<1>1. /\ i \in 1..saleCount[Home] /\ reserved[Home] >= sale[Home][i].grs
      /\ reserved' = [reserved EXCEPT ![Home] = @ - sale[Home][i].grs]
      /\ sale' = [sale EXCEPT ![Home][i] = SaleRow(0, 0)]
      /\ genesisMinted' = genesisMinted /\ paused' = paused /\ wallet' = wallet /\ fees' = fees
      /\ escrow' = escrow /\ spent' = spent /\ saleCount' = saleCount
      /\ inflight' = inflight /\ nonce' = nonce /\ gone' = gone
    BY DEF CloseSale, tokenVars, wireVars
<1>2. /\ wallet \in [Chains -> Nat] /\ fees \in [Chains -> Nat] /\ escrow \in [Chains -> Nat]
      /\ reserved \in [Chains -> Nat] /\ spent \in [Chains -> Nat]
      /\ sale \in [Chains -> [Ids -> Rows]] /\ saleCount \in [Chains -> 0..MaxSales]
      /\ Home \in Chains /\ gone \in Nat /\ reserved[Home] <= escrow[Home]
    BY InvFacts, Constants
<1>3. sale[Home][i].grs \in Nat
    BY <1>2 DEF Rows
<1>4. PICK n \in Nat : n = reserved[Home] - sale[Home][i].grs
    BY <1>1, <1>2, <1>3
<1>5. PICK z \in Nat : z = 0
    OBVIOUS
<1>6. /\ n = reserved[Home] - sale[Home][i].grs + z /\ reserved' = [reserved EXCEPT ![Home] = n]
      /\ sale' = [sale EXCEPT ![Home][i] = SaleRow(z, z)] /\ n <= escrow'[Home]
    BY <1>1, <1>2, <1>3, <1>4, <1>5
<1>7. WireOK'
    BY <1>1 DEF SalesInv, WireOK
<1>8. EarmarksBacked'
  <2>1. genesisMinted' \in BOOLEAN /\ paused' \in [Chains -> BOOLEAN] /\ nonce' \in 0..MaxMessages
      BY <1>1, InvFacts
  <2>2. /\ wallet' \in [Chains -> Nat] /\ fees' \in [Chains -> Nat] /\ escrow' \in [Chains -> Nat]
        /\ spent' \in [Chains -> Nat] /\ saleCount' \in [Chains -> 0..MaxSales] /\ gone' \in Nat
        /\ \A d \in Chains : d # Home => escrow'[d] = escrow[d]
      BY <1>1, <1>2
  <2>3. Home \in Chains
      BY Constants
  <2> QED BY <1>6, <1>7, <2>1, <2>2, <2>3, BookStep
<1>9. LotsInOnePlace'
  <2>1. /\ sale'[Home][i] = SaleRow(z, z)
        /\ \A d \in Chains, j \in Ids : d # Home \/ j # i => sale'[d][j] = sale[d][j]
      BY <1>2, <1>6
  <2>2. /\ saleCount[Home] \in Nat /\ saleCount'[Home] \in Nat
        /\ saleCount[Home] <= saleCount'[Home] /\ i <= saleCount'[Home]
      BY <1>1, <1>2, Constants
  <2>3. ~(z > 0)
      BY <1>5
  <2> QED BY <1>1, <1>2, <2>1, <2>2, <2>3, LotsRow DEF SalesInv
<1>10. SupplyConserved'
  <2>1. Circulating' = Circulating /\ Carried' = Carried
      BY <1>1 DEF Circulating, Carried, Supply
  <2> QED BY <1>1, <2>1, Conserved DEF SalesInv
<1> QED BY <1>7, <1>8, <1>9, <1>10 DEF SalesInv

\* A purchase, in naturals: the row it takes from was open, and pays what it asked for.
LEMMA BuyFacts ==
    ASSUME SalesInv, NEW c \in Chains, NEW i \in Ids, NEW n \in Amounts, Buy(c, i, n)
    PROVE  \E g \in Nat \ {0}, a \in Nat, q \in Nat :
             /\ g = sale[c][i].grs /\ a = sale[c][i].asset /\ q = CostOf(n, g, a)
             /\ n \in 1..g /\ q <= a /\ g * q <= n * a /\ (n = g => q = a)
             /\ g - n \in Nat /\ a - q \in Nat
             /\ sale' = [sale EXCEPT ![c][i] = SaleRow(g - n, a - q)]
             /\ sale[c][i].known
<1>1. sale[c][i] \in Rows /\ n \in Nat
    BY InvFacts, Constants
<1>2. PICK g \in Nat, a \in Nat : g = sale[c][i].grs /\ a = sale[c][i].asset
    BY <1>1 DEF Rows
<1>3. g > 0 /\ n \in 1..g /\ sale[c][i].known
    BY <1>2 DEF Buy, Quotable
<1>4. PICK q \in Nat : q = CostOf(n, g, a) /\ q <= a /\ g * q <= n * a /\ (n = g => q = a)
  <2>1. n <= g /\ g \in Nat \ {0}
      BY <1>1, <1>3
  <2>2. /\ CostOf(n, g, a) \in 0..a /\ g * CostOf(n, g, a) <= n * a
        /\ n = g => CostOf(n, g, a) = a
      BY <1>1, <2>1, CostFacts
  <2> QED BY <2>2
<1>5. sale' = [sale EXCEPT ![c][i] = SaleRow(g - n, a - q)]
    BY <1>2, <1>4 DEF Buy
<1>6. g \in Nat \ {0} /\ g - n \in Nat /\ a - q \in Nat
    BY <1>1, <1>3, <1>4
<1> QED BY <1>2, <1>3, <1>4, <1>5, <1>6

LEMMA PurchaseStep ==
    ASSUME SalesInv, GatesOK', NEW c \in Chains, NEW i \in Ids, NEW n \in Amounts, Buy(c, i, n)
    PROVE  SalesInv'
<1>1. PICK g \in Nat \ {0}, a \in Nat, q \in Nat :
             /\ g = sale[c][i].grs /\ n \in 1..g /\ g - n \in Nat /\ a - q \in Nat
             /\ sale' = [sale EXCEPT ![c][i] = SaleRow(g - n, a - q)]
             /\ sale[c][i].known
    BY BuyFacts
<1>2. /\ reserved[c] >= n /\ escrow[c] >= n
      /\ spent' = [spent EXCEPT ![c] = @ + n]
      /\ reserved' = [reserved EXCEPT ![c] = @ - n]
      /\ escrow' = [escrow EXCEPT ![c] = @ - n]
      /\ wallet' = [wallet EXCEPT ![c] = @ + n]
      /\ genesisMinted' = genesisMinted /\ paused' = paused /\ fees' = fees
      /\ saleCount' = saleCount /\ inflight' = inflight /\ nonce' = nonce /\ gone' = gone
    BY DEF Buy, wireVars
<1>3. /\ wallet \in [Chains -> Nat] /\ fees \in [Chains -> Nat] /\ escrow \in [Chains -> Nat]
      /\ reserved \in [Chains -> Nat] /\ spent \in [Chains -> Nat]
      /\ sale \in [Chains -> [Ids -> Rows]] /\ saleCount \in [Chains -> 0..MaxSales]
      /\ n \in Nat /\ Circulating \in Nat /\ gone \in Nat /\ reserved[c] <= escrow[c]
    BY InvFacts, Constants
<1>4. /\ wallet' \in [Chains -> Nat] /\ fees' \in [Chains -> Nat] /\ escrow' \in [Chains -> Nat]
      /\ wallet'[c] = wallet[c] + n /\ escrow'[c] = escrow[c] - n /\ spent' \in [Chains -> Nat]
      /\ \A d \in Chains : d # c => wallet'[d] = wallet[d] /\ fees'[d] = fees[d] /\ escrow'[d] = escrow[d]
    BY <1>2, <1>3
<1>5. PICK h \in Nat, b \in Nat : h = g - n /\ b = a - q
    BY <1>1
<1> PICK k \in Nat : k = reserved[c] - n
    BY <1>2, <1>3
<1>6. /\ k = reserved[c] - sale[c][i].grs + h /\ reserved' = [reserved EXCEPT ![c] = k]
      /\ sale' = [sale EXCEPT ![c][i] = SaleRow(h, b)] /\ k <= escrow'[c]
    BY <1>1, <1>2, <1>3, <1>4, <1>5
<1>7. WireOK'
    BY <1>2 DEF SalesInv, WireOK
<1>8. EarmarksBacked'
  <2>1. genesisMinted' \in BOOLEAN /\ paused' \in [Chains -> BOOLEAN] /\ nonce' \in 0..MaxMessages
      BY <1>2, InvFacts
  <2>2. \A d \in Chains : d # c => escrow'[d] = escrow[d]
      BY <1>4
  <2> QED BY <1>2, <1>3, <1>4, <1>6, <1>7, <2>1, <2>2, BookStep
<1>9. LotsInOnePlace'
  <2>1. /\ sale'[c][i] = SaleRow(h, b)
        /\ \A d \in Chains, j \in Ids : d # c \/ j # i => sale'[d][j] = sale[d][j]
      BY <1>3, <1>6
  <2>2. /\ saleCount[Home] \in Nat /\ saleCount'[Home] \in Nat
        /\ saleCount[Home] <= saleCount'[Home]
      BY <1>2, <1>3, Constants
  <2>3. Open(c, i)
      BY <1>1 DEF Open
  <2>4. i <= saleCount'[Home]
    <3>1. ~(i > saleCount[Home])
        BY <2>3 DEF SalesInv, LotsInOnePlace
    <3> QED BY <1>2, <2>2, <3>1, Constants
  <2>5. /\ \A d \in Chains : d # c => ~Open(d, i)
        /\ \A m \in inflight' : ~Travelling(m, i)
      BY <1>2, <2>3 DEF SalesInv, LotsInOnePlace
  <2> QED BY <1>2, <2>1, <2>2, <2>4, <2>5, LotsRow DEF SalesInv
<1>10. SupplyConserved'
  <2>1. Supply(c)' = Supply(c) /\ Supply(c) \in Nat
      BY <1>2, <1>3, <1>4 DEF Supply
  <2>2. Circulating' = Circulating - Supply(c) + Supply(c)'
      BY <1>3, <1>4, SupplyChange
  <2>3. Circulating' = Circulating /\ Carried' = Carried
      BY <1>2, <1>3, <2>1, <2>2 DEF Carried
  <2> QED BY <1>2, <2>3, Conserved DEF SalesInv
<1> QED BY <1>7, <1>8, <1>9, <1>10 DEF SalesInv

-------------------------------------------------------------------------------
(* Messages. *)

\* A message gets a nonce that no message in flight has.
LEMMA PostFacts ==
    ASSUME SalesInv, NEW m \in SaleMessages \cup OftMessages, m.nonce = nonce, Post(m)
    PROVE  /\ m \notin inflight /\ inflight' = inflight \cup {m} /\ WireOK'
           /\ nonce' \in 0..MaxMessages /\ m.sd \in Nat
           /\ Carried' = Carried + Sd2Ld(m.sd)
<1>1. /\ IsFiniteSet(inflight) /\ inflight \subseteq SaleMessages \cup OftMessages
      /\ \A x \in inflight : x.nonce < nonce
    BY DEF SalesInv, WireOK
<1>2. nonce \in 0..MaxMessages /\ MaxMessages \in Nat
    BY InvFacts, Constants
<1>3. nonce < MaxMessages /\ nonce' = nonce + 1 /\ inflight' = inflight \cup {m}
    BY DEF Post
<1>4. m \notin inflight
    BY <1>1, <1>2
<1>5. \A x \in SaleMessages \cup OftMessages : x.nonce \in Nat /\ x.sd \in Nat
    BY DEF SaleMessages, OftMessages
<1>6. \A x \in inflight' : x.nonce < nonce'
  <2> SUFFICES ASSUME NEW x \in inflight' PROVE x.nonce < nonce'
      OBVIOUS
  <2>1. x.nonce \in Nat /\ x.nonce <= nonce
      BY <1>1, <1>2, <1>3, <1>5
  <2> QED BY <1>2, <1>3, <2>1
<1>7. WireOK'
    BY <1>1, <1>3, <1>6, FS_AddElement DEF WireOK
<1>8. Carried' = Carried + Sd2Ld(m.sd)
    BY <1>3, <1>4, <1>5, CarriedPost DEF SalesInv
<1> QED BY <1>2, <1>3, <1>4, <1>5, <1>7, <1>8

\* A message leaves the wire.
LEMMA ClearFacts ==
    ASSUME SalesInv, NEW m \in inflight, inflight' = inflight \ {m}, nonce' = nonce
    PROVE  /\ WireOK' /\ m.sd \in Nat /\ Sd2Ld(m.sd) \in Nat /\ Sd2Ld(m.sd) <= Carried
           /\ Carried' = Carried - Sd2Ld(m.sd)
<1>1. WireOK
    BY DEF SalesInv
<1>2. WireOK'
    BY <1>1, FS_RemoveElement DEF WireOK
<1>3. Carried' = Carried - Sd2Ld(m.sd)
    BY <1>1, CarriedReceive
<1> QED BY <1>1, <1>2, <1>3, CarriedFacts

\* What publish_sale puts on the wire is what it burns.
LEMMA PublishFacts ==
    ASSUME SalesInv, NEW d \in Spokes, NEW i \in Ids, PublishSale(d, i)
    PROVE  LET m == SaleMessage(d, i, sale[Home][i]) IN
           /\ m \in SaleMessages /\ m.id = i /\ m.nonce = nonce
           /\ m.asset = sale[Home][i].asset /\ m.sd \in Nat
           /\ Sd2Ld(m.sd) = sale[Home][i].grs
           /\ m.sd > 0 => Open(Home, i)
           /\ sale[Home][i].known
<1> DEFINE m == SaleMessage(d, i, sale[Home][i])
<1>1. PICK g \in Nat, a \in Nat : g = sale[Home][i].grs /\ a = sale[Home][i].asset
  <2>1. sale[Home][i] \in Rows
      BY InvFacts, Constants
  <2> QED BY <2>1 DEF Rows
<1>2. sale[Home][i].known /\ (g = 0 \/ g % LD2SD_RATE = 0)
    BY <1>1 DEF PublishSale
<1>3. Ld2Sd(g) \in Nat /\ Sd2Ld(Ld2Sd(g)) = g
  <2>1. CASE g = 0
    <3>1. PICK z \in Nat : z = 0
        OBVIOUS
    <3>2. Sd2Ld(z) = 0 /\ Ld2Sd(Sd2Ld(z)) = z
        BY <3>1, SharedExact
    <3> QED BY <2>1, <3>1, <3>2
  <2>2. CASE g % LD2SD_RATE = 0
      BY <2>2, NoDust
  <2> QED BY <1>2, <2>1, <2>2
<1>4. /\ m.kind = "sale" /\ m.dst = d /\ m.nonce = nonce /\ m.id = i /\ m.asset = a
      /\ m.sd = Ld2Sd(g)
      /\ m \in SaleMessages
  <2>1. nonce \in Nat
      BY InvFacts, Constants
  <2> QED BY <1>1, <1>3, <2>1 DEF SaleMessage, SaleMessages
<1>5. m.sd > 0 => Open(Home, i)
  <2> SUFFICES ASSUME m.sd > 0 PROVE g > 0
      BY <1>1 DEF Open
  <2>1. PICK k \in Nat : k = m.sd /\ k # 0
      BY <1>3, <1>4
  <2>2. Sd2Ld(k) # 0 /\ Sd2Ld(k) = g
      BY <1>3, <1>4, <2>1, SharedExact
  <2> QED BY <2>2
<1> QED BY <1>1, <1>2, <1>3, <1>4, <1>5

LEMMA PublishSaleStep ==
    ASSUME SalesInv, GatesOK', NEW d \in Spokes, NEW i \in Ids, PublishSale(d, i)
    PROVE  SalesInv'
<1>1. PICK m \in SaleMessages :
        /\ m = SaleMessage(d, i, sale[Home][i]) /\ m.id = i /\ m.nonce = nonce
        /\ m.sd \in Nat /\ Sd2Ld(m.sd) = sale[Home][i].grs
        /\ m.sd > 0 => Open(Home, i)
        /\ sale[Home][i].known
    BY PublishFacts
<1>2. PICK g : g = sale[Home][i].grs
    OBVIOUS
<1>3. /\ reserved[Home] >= g /\ escrow[Home] >= g
      /\ spent' = [spent EXCEPT ![Home] = @ + g]
      /\ reserved' = [reserved EXCEPT ![Home] = @ - g]
      /\ escrow' = [escrow EXCEPT ![Home] = @ - g]
      /\ Post(m)
      /\ sale' = [sale EXCEPT ![Home][i] = SaleRow(0, 0)]
      /\ genesisMinted' = genesisMinted /\ paused' = paused /\ wallet' = wallet /\ fees' = fees
      /\ saleCount' = saleCount /\ gone' = gone
    BY <1>1, <1>2 DEF PublishSale
<1>4. /\ m \notin inflight /\ inflight' = inflight \cup {m} /\ WireOK'
      /\ nonce' \in 0..MaxMessages /\ Carried' = Carried + g
    BY <1>1, <1>2, <1>3, PostFacts
<1>5. /\ wallet \in [Chains -> Nat] /\ fees \in [Chains -> Nat] /\ escrow \in [Chains -> Nat]
      /\ reserved \in [Chains -> Nat] /\ spent \in [Chains -> Nat]
      /\ sale \in [Chains -> [Ids -> Rows]] /\ saleCount \in [Chains -> 0..MaxSales]
      /\ Home \in Chains /\ Circulating \in Nat /\ Carried \in Nat /\ gone \in Nat
      /\ reserved[Home] <= escrow[Home]
    BY InvFacts, Constants
<1>6. g \in Nat
    BY <1>2, <1>5 DEF Rows
<1>7. /\ wallet' \in [Chains -> Nat] /\ fees' \in [Chains -> Nat] /\ escrow' \in [Chains -> Nat]
      /\ escrow'[Home] = escrow[Home] - g /\ spent' \in [Chains -> Nat]
      /\ \A c \in Chains : c # Home => wallet'[c] = wallet[c] /\ fees'[c] = fees[c] /\ escrow'[c] = escrow[c]
    BY <1>3, <1>5, <1>6
<1>8. EarmarksBacked'
  <2>1. PICK n \in Nat : n = reserved[Home] - g
      BY <1>3, <1>5, <1>6
  <2> PICK z \in Nat : z = 0
      OBVIOUS
  <2>2. /\ n = reserved[Home] - sale[Home][i].grs + z /\ reserved' = [reserved EXCEPT ![Home] = n]
        /\ sale' = [sale EXCEPT ![Home][i] = SaleRow(z, z)] /\ n <= escrow'[Home]
      BY <1>2, <1>3, <1>5, <1>6, <1>7, <2>1
  <2>3. genesisMinted' \in BOOLEAN /\ paused' \in [Chains -> BOOLEAN]
      BY <1>3, InvFacts
  <2>4. \A c \in Chains : c # Home => escrow'[c] = escrow[c]
      BY <1>7
  <2>5. Home \in Chains /\ saleCount' \in [Chains -> 0..MaxSales] /\ gone' \in Nat
      BY <1>3, <1>5
  <2> QED BY <1>4, <1>7, <2>2, <2>3, <2>4, <2>5, BookStep
<1>9. LotsInOnePlace'
  <2>1. /\ sale'[Home][i] = SaleRow(0, 0)
        /\ \A c \in Chains, j \in Ids : c # Home \/ j # i => sale'[c][j] = sale[c][j]
      BY <1>3, <1>5
  <2>2. saleCount[Home] \in Nat
      BY <1>5, Constants
  <2>3. i <= saleCount[Home]
    <3>1. ~(i > saleCount[Home])
        BY <1>1, <1>5 DEF SalesInv, LotsInOnePlace
    <3> QED BY <2>2, <3>1, Constants
  <2>4. LotsInOnePlace
      BY DEF SalesInv
  <2> QED BY <1>1, <1>3, <1>4, <2>1, <2>2, <2>3, <2>4, LotsPost
<1>10. SupplyConserved'
  <2>1. Supply(Home)' = Supply(Home) - g
      BY <1>3, <1>5, <1>6, <1>7 DEF Supply
  <2>2. Circulating' = Circulating - Supply(Home) + Supply(Home)' /\ Supply(Home) \in Nat
      BY <1>5, <1>7, SupplyChange
  <2>3. Circulating' + Carried' + gone' = Circulating + Carried + gone
      BY <1>3, <1>4, <1>5, <1>6, <2>1, <2>2
  <2> QED BY <1>3, <2>3, Conserved DEF SalesInv
<1> QED BY <1>4, <1>8, <1>9, <1>10 DEF SalesInv

\* A publication that is applied: its lot is nowhere else, so the row it writes was empty
\* or the message is a close.
LEMMA AcceptSaleStep ==
    ASSUME SalesInv, GatesOK', NEW m \in inflight, LzReceiveSale(m), AcceptSale(m)
    PROVE  SalesInv'
<1>1. m \in SaleMessages
  <2>1. m \in SaleMessages \cup OftMessages /\ m.kind = "sale"
      BY DEF SalesInv, WireOK, LzReceiveSale
  <2> QED BY <2>1 DEF OftMessages
<1>2. PICK c \in Spokes, i \in Ids, a \in Nat, k \in Nat :
        c = m.dst /\ i = m.id /\ a = m.asset /\ k = m.sd
    BY <1>1 DEF SaleMessages
<1>3. PICK g \in Nat : g = Sd2Ld(k) /\ (k = 0 <=> g = 0)
    BY SharedExact
<1>4. PICK o : o = sale[c][i].grs
    OBVIOUS
<1>5. /\ inflight' = inflight \ {m} /\ nonce' = nonce
      /\ genesisMinted' = genesisMinted /\ paused' = paused /\ wallet' = wallet /\ fees' = fees
      /\ spent' = spent
    BY DEF LzReceiveSale
<1>6. /\ ~Revoked(sale[c][i], g)
      /\ reserved[c] + g >= o /\ escrow[c] + g >= o
      /\ reserved' = [reserved EXCEPT ![c] = @ + g - o]
      /\ escrow' = [escrow EXCEPT ![c] = @ + g - o]
      /\ gone' = gone + (IF g < o THEN o - g ELSE 0)
      /\ sale' = [sale EXCEPT ![c][i] = SaleRow(g, a)]
      /\ saleCount' = [saleCount EXCEPT ![c] = IF i > @ THEN i ELSE @]
    BY <1>2, <1>3, <1>4 DEF AcceptSale
<1>7. /\ wallet \in [Chains -> Nat] /\ fees \in [Chains -> Nat] /\ escrow \in [Chains -> Nat]
      /\ reserved \in [Chains -> Nat] /\ spent \in [Chains -> Nat]
      /\ sale \in [Chains -> [Ids -> Rows]] /\ saleCount \in [Chains -> 0..MaxSales]
      /\ c \in Chains /\ c # Home /\ Circulating \in Nat /\ Carried \in Nat /\ gone \in Nat
      /\ reserved[c] <= escrow[c] /\ Home \in Chains /\ MaxSales \in Nat
    BY InvFacts, Constants
<1>8. o \in Nat
    BY <1>4, <1>7 DEF Rows
<1>9. /\ WireOK' /\ g <= Carried /\ Carried' = Carried - g
    BY <1>2, <1>3, <1>5, ClearFacts
<1>10. g > 0 => Travelling(m, i)
    BY <1>1, <1>2, <1>3 DEF Travelling
<1>11. g > 0 => /\ o = 0
                /\ \A d \in Chains : ~Open(d, i)
                /\ \A x \in inflight' : ~Travelling(x, i)
  <2>1. LotsInOnePlace
      BY DEF SalesInv
  <2>2. g > 0 => \A d \in Chains : ~Open(d, i)
      BY <1>2, <1>10, <2>1 DEF LotsInOnePlace
  <2>3. g > 0 => \A x \in inflight' : ~Travelling(x, i)
      BY <1>2, <1>5, <1>10, <2>1 DEF LotsInOnePlace
  <2>4. g > 0 => o = 0
      BY <1>4, <1>7, <1>8, <2>2 DEF Open
  <2> QED BY <2>2, <2>3, <2>4
<1>12. PICK n \in Nat : n = reserved[c] + g - o
    BY <1>6, <1>7, <1>8
<1>13. /\ wallet' \in [Chains -> Nat] /\ fees' \in [Chains -> Nat] /\ escrow' \in [Chains -> Nat]
       /\ escrow'[c] = escrow[c] + g - o
       /\ \A d \in Chains : d # c => wallet'[d] = wallet[d] /\ fees'[d] = fees[d] /\ escrow'[d] = escrow[d]
    BY <1>5, <1>6, <1>7, <1>8
<1>14. gone' \in Nat /\ gone' = gone + o
  <2>1. CASE g = 0
      BY <1>6, <1>7, <1>8, <2>1
  <2>2. CASE g > 0
      BY <1>6, <1>7, <1>8, <1>11, <2>2
  <2> QED BY <2>1, <2>2
<1>15. saleCount' \in [Chains -> 0..MaxSales] /\ saleCount'[Home] = saleCount[Home]
    BY <1>6, <1>7 DEF Ids
<1>16. EarmarksBacked'
  <2>1. /\ n = reserved[c] - sale[c][i].grs + g /\ reserved' = [reserved EXCEPT ![c] = n]
        /\ n <= escrow'[c]
      BY <1>4, <1>6, <1>7, <1>8, <1>12, <1>13
  <2>2. genesisMinted' \in BOOLEAN /\ paused' \in [Chains -> BOOLEAN] /\ nonce' \in 0..MaxMessages
      BY <1>5, InvFacts
  <2>3. \A d \in Chains : d # c => escrow'[d] = escrow[d]
      BY <1>13
  <2>4. spent' \in [Chains -> Nat] /\ c \in Chains
      BY <1>5, <1>7
  <2> QED BY <1>6, <1>9, <1>13, <1>14, <1>15, <2>1, <2>2, <2>3, <2>4, BookStep
<1>17. LotsInOnePlace'
  <2>1. /\ sale'[c][i] = SaleRow(g, a)
        /\ \A d \in Chains, j \in Ids : d # c \/ j # i => sale'[d][j] = sale[d][j]
      BY <1>6, <1>7
  <2>2. saleCount[Home] \in Nat /\ saleCount'[Home] \in Nat /\ saleCount[Home] <= saleCount'[Home]
      BY <1>7, <1>15
  <2>3. i <= saleCount'[Home]
      BY <1>1, <1>2, <1>15 DEF SalesInv, LotsInOnePlace
  <2>4. LotsInOnePlace /\ c \in Chains /\ inflight' \subseteq inflight
      BY <1>5, <1>7 DEF SalesInv
  <2> QED BY <1>11, <2>1, <2>2, <2>3, <2>4, LotsRow
<1>18. SupplyConserved'
  <2>1. Supply(c)' = Supply(c) + g - o
      BY <1>5, <1>7, <1>8, <1>13 DEF Supply
  <2>2. Circulating' = Circulating - Supply(c) + Supply(c)' /\ Supply(c) \in Nat
      BY <1>7, <1>13, SupplyChange
  <2>3. Circulating' + Carried' + gone' = Circulating + Carried + gone
      BY <1>7, <1>8, <1>9, <1>14, <2>1, <2>2
  <2> QED BY <1>5, <2>3, Conserved DEF SalesInv
<1> QED BY <1>9, <1>16, <1>17, <1>18 DEF SalesInv

\* A publication that is dropped: its tokens are gone.
LEMMA DropSaleStep ==
    ASSUME SalesInv, GatesOK', NEW m \in inflight, LzReceiveSale(m), DropSale(m)
    PROVE  SalesInv'
<1>1. /\ inflight' = inflight \ {m} /\ nonce' = nonce
      /\ genesisMinted' = genesisMinted /\ paused' = paused /\ wallet' = wallet /\ fees' = fees
      /\ spent' = spent /\ escrow' = escrow /\ reserved' = reserved /\ sale' = sale
      /\ saleCount' = saleCount /\ gone' = gone + Sd2Ld(m.sd)
    BY DEF LzReceiveSale, DropSale
<1>2. PICK g \in Nat : g = Sd2Ld(m.sd) /\ g <= Carried /\ Carried' = Carried - g /\ WireOK'
    BY <1>1, ClearFacts
<1>3. /\ wallet \in [Chains -> Nat] /\ fees \in [Chains -> Nat] /\ escrow \in [Chains -> Nat]
      /\ reserved \in [Chains -> Nat] /\ spent \in [Chains -> Nat]
      /\ sale \in [Chains -> [Ids -> Rows]] /\ saleCount \in [Chains -> 0..MaxSales]
      /\ Circulating \in Nat /\ Carried \in Nat /\ gone \in Nat
      /\ genesisMinted \in BOOLEAN /\ paused \in [Chains -> BOOLEAN] /\ nonce \in 0..MaxMessages
    BY InvFacts
<1>4. \A c \in Chains : reserved'[c] = Earmarked(c)' /\ reserved'[c] <= escrow'[c]
    BY <1>1 DEF SalesInv, EarmarksBacked, Earmarked
<1>5. gone' \in Nat
    BY <1>1, <1>2, <1>3
<1>6. EarmarksBacked'
    BY <1>1, <1>2, <1>3, <1>4, <1>5, Assembled
<1>7. LotsInOnePlace'
    BY <1>1, LotsSame DEF SalesInv
<1>8. SupplyConserved'
  <2>1. Circulating' = Circulating
      BY <1>1 DEF Circulating, Supply
  <2>2. Circulating' + Carried' + gone' = Circulating + Carried + gone
      BY <1>1, <1>2, <1>3, <2>1
  <2> QED BY <1>1, <2>2, Conserved DEF SalesInv
<1> QED BY <1>2, <1>6, <1>7, <1>8 DEF SalesInv

LEMMA SendStep ==
    ASSUME SalesInv, GatesOK', NEW c \in Chains, NEW d \in Chains, NEW n \in Amounts, Send(c, d, n)
    PROVE  SalesInv'
<1>1. PICK t \in Nat, f \in Nat, v \in Nat :
        /\ t = RemoveDust(n) /\ f = OftFee(t) /\ v = t - f
        /\ Ld2Sd(v) \in Nat /\ Sd2Ld(Ld2Sd(v)) = v
    BY SendFacts, Constants
<1>2. PICK m : m = OftMessage(c, d, v)
    OBVIOUS
<1>3. m \in OftMessages /\ m.nonce = nonce /\ m.sd = Ld2Sd(v) /\ m \notin SaleMessages
  <2>1. nonce \in Nat
      BY InvFacts, Constants
  <2> QED BY <1>1, <1>2, <2>1 DEF OftMessage, OftMessages, SaleMessages
<1>4. /\ t <= wallet[c]
      /\ wallet' = [wallet EXCEPT ![c] = @ - t]
      /\ fees' = [fees EXCEPT ![c] = @ + f]
      /\ Post(m)
      /\ genesisMinted' = genesisMinted /\ paused' = paused /\ escrow' = escrow
      /\ reserved' = reserved /\ spent' = spent /\ sale' = sale /\ saleCount' = saleCount
      /\ gone' = gone
    BY <1>1, <1>2 DEF Send, bookVars
<1>5. /\ inflight' = inflight \cup {m} /\ WireOK' /\ nonce' \in 0..MaxMessages
      /\ Carried' = Carried + v
    BY <1>1, <1>3, <1>4, PostFacts
<1>6. /\ wallet \in [Chains -> Nat] /\ fees \in [Chains -> Nat] /\ escrow \in [Chains -> Nat]
      /\ reserved \in [Chains -> Nat] /\ spent \in [Chains -> Nat]
      /\ sale \in [Chains -> [Ids -> Rows]] /\ saleCount \in [Chains -> 0..MaxSales]
      /\ Circulating \in Nat /\ Carried \in Nat /\ gone \in Nat
      /\ genesisMinted \in BOOLEAN /\ paused \in [Chains -> BOOLEAN]
    BY InvFacts
<1>7. /\ wallet' \in [Chains -> Nat] /\ fees' \in [Chains -> Nat] /\ escrow' \in [Chains -> Nat]
      /\ wallet'[c] = wallet[c] - t /\ fees'[c] = fees[c] + f
      /\ \A e \in Chains : e # c => wallet'[e] = wallet[e] /\ fees'[e] = fees[e] /\ escrow'[e] = escrow[e]
    BY <1>4, <1>6
<1>8. EarmarksBacked'
  <2>1. \A e \in Chains : reserved'[e] = Earmarked(e)' /\ reserved'[e] <= escrow'[e]
      BY <1>4 DEF SalesInv, EarmarksBacked, Earmarked
  <2> QED BY <1>4, <1>5, <1>6, <1>7, <2>1, Assembled
<1>9. LotsInOnePlace'
  <2>1. inflight' \cap SaleMessages \subseteq inflight
      BY <1>3, <1>5
  <2> QED BY <1>4, <2>1, LotsSame DEF SalesInv
<1>10. SupplyConserved'
  <2>1. Supply(c)' = Supply(c) - t + f
      BY <1>4, <1>6, <1>7 DEF Supply
  <2>2. Circulating' = Circulating - Supply(c) + Supply(c)' /\ Supply(c) \in Nat
      BY <1>6, <1>7, SupplyChange
  <2>3. Circulating' + Carried' + gone' = Circulating + Carried + gone
      BY <1>1, <1>4, <1>5, <1>6, <2>1, <2>2
  <2> QED BY <1>4, <2>3, Conserved DEF SalesInv
<1> QED BY <1>5, <1>8, <1>9, <1>10 DEF SalesInv

LEMMA LzReceiveOftStep ==
    ASSUME SalesInv, GatesOK', NEW m \in inflight, LzReceiveOft(m)
    PROVE  SalesInv'
<1>1. PICK c \in Chains : c = m.dst
  <2>1. m \in SaleMessages \cup OftMessages
      BY DEF SalesInv, WireOK
  <2> QED BY <2>1, Constants DEF SaleMessages, OftMessages
<1>2. /\ inflight' = inflight \ {m} /\ nonce' = nonce
      /\ wallet' = [wallet EXCEPT ![c] = @ + Sd2Ld(m.sd)]
      /\ genesisMinted' = genesisMinted /\ paused' = paused /\ escrow' = escrow /\ fees' = fees
      /\ reserved' = reserved /\ spent' = spent /\ sale' = sale /\ saleCount' = saleCount
      /\ gone' = gone
    BY <1>1 DEF LzReceiveOft, bookVars
<1>3. PICK g \in Nat : g = Sd2Ld(m.sd) /\ g <= Carried /\ Carried' = Carried - g /\ WireOK'
    BY <1>2, ClearFacts
<1>4. /\ wallet \in [Chains -> Nat] /\ fees \in [Chains -> Nat] /\ escrow \in [Chains -> Nat]
      /\ reserved \in [Chains -> Nat] /\ spent \in [Chains -> Nat]
      /\ sale \in [Chains -> [Ids -> Rows]] /\ saleCount \in [Chains -> 0..MaxSales]
      /\ Circulating \in Nat /\ Carried \in Nat /\ gone \in Nat
      /\ genesisMinted \in BOOLEAN /\ paused \in [Chains -> BOOLEAN] /\ nonce \in 0..MaxMessages
    BY InvFacts
<1>5. /\ wallet' \in [Chains -> Nat] /\ fees' \in [Chains -> Nat] /\ escrow' \in [Chains -> Nat]
      /\ wallet'[c] = wallet[c] + g
      /\ \A e \in Chains : e # c => wallet'[e] = wallet[e] /\ fees'[e] = fees[e] /\ escrow'[e] = escrow[e]
    BY <1>2, <1>3, <1>4
<1>6. EarmarksBacked'
  <2>1. \A e \in Chains : reserved'[e] = Earmarked(e)' /\ reserved'[e] <= escrow'[e]
      BY <1>2 DEF SalesInv, EarmarksBacked, Earmarked
  <2> QED BY <1>2, <1>3, <1>4, <1>5, <2>1, Assembled
<1>7. LotsInOnePlace'
    BY <1>2, LotsSame DEF SalesInv
<1>8. SupplyConserved'
  <2>1. Supply(c)' = Supply(c) + g
      BY <1>2, <1>4, <1>5 DEF Supply
  <2>2. Circulating' = Circulating - Supply(c) + Supply(c)' /\ Supply(c) \in Nat
      BY <1>4, <1>5, SupplyChange
  <2>3. Circulating' + Carried' + gone' = Circulating + Carried + gone
      BY <1>2, <1>3, <1>4, <2>1, <2>2
  <2> QED BY <1>2, <2>3, Conserved DEF SalesInv
<1> QED BY <1>3, <1>6, <1>7, <1>8 DEF SalesInv

GateStep ==
    \/ \E l \in Rewirable : SetPeerAddress(l)
    \/ \E l \in Crowded : BucketTurns(l)
    \/ \E c \in Chains, i \in Ids : <<c, i>> \in Exposed /\ FundRow(c, i)

LEMMA OtherNextStep ==
    ASSUME SalesInv, GatesOK', OtherNext
    PROVE  SalesInv'
<1>1. CASE MintGenesis
    BY <1>1, MintGenesisStep
<1>2. CASE \E i \in Ids : CloseSale(i)
    BY <1>2, CloseSaleStep
<1>3. CASE \E d \in Spokes, i \in Ids : PublishSale(d, i)
    BY <1>3, PublishSaleStep
<1>4. CASE \E c, d \in Chains, n \in Amounts : Send(c, d, n)
    BY <1>4, SendStep
<1>5. CASE \E m \in inflight : LzReceive(m)
  <2>1. PICK m \in inflight : LzReceive(m)
      BY <1>5
  <2>2. CASE LzReceiveSale(m)
    <3>1. AcceptSale(m) \/ DropSale(m)
        BY <2>2 DEF LzReceiveSale
    <3> QED BY <2>2, <3>1, AcceptSaleStep, DropSaleStep
  <2>3. CASE LzReceiveOft(m)
      BY <2>3, LzReceiveOftStep
  <2> QED BY <2>1, <2>2, <2>3 DEF LzReceive
<1>6. CASE \E c \in Chains, n \in Amounts : WithdrawFee(c, n)
    BY <1>6, WithdrawFeeStep
<1>7. CASE \E c \in Chains, f \in BOOLEAN : SetPause(c, f)
  <2>1. PICK c \in Chains, f \in BOOLEAN : SetPause(c, f)
      BY <1>7
  <2>2. paused \in [Chains -> BOOLEAN]
      BY InvFacts
  <2>3. paused' \in [Chains -> BOOLEAN]
      BY <2>1, <2>2 DEF SetPause
  <2> QED BY <2>1, <2>3, SetPauseStep DEF SetPause
<1>8. CASE \E c \in Chains, n \in Amounts : Donate(c, n) \/ BurnGrs(c, n)
    BY <1>8, DonateStep, BurnGrsStep
<1>9. CASE GateStep
  <2>1. paused' = paused /\ UNCHANGED <<genesisMinted, tokenVars, bookVars, wireVars, gone>>
      BY <1>9 DEF GateStep, SetPeerAddress, BucketTurns, FundRow
  <2> QED BY <2>1, InvFacts, SetPauseStep
<1> QED BY <1>1, <1>2, <1>3, <1>4, <1>5, <1>6, <1>7, <1>8, <1>9 DEF OtherNext, GateStep

\* No step invents a link or a row.
LEMMA GatesNext ==
    ASSUME SalesInv, [Next]_vars
    PROVE  GatesOK'
<1>1. GatesOK
    BY InvFacts
<1>2. CASE GateStep
    BY <1>1, <1>2, GrsAssumption DEF GateStep, GatesOK, SetPeerAddress, BucketTurns, FundRow, Toggle
<1>3. CASE gateVars' = gateVars
    BY <1>1, <1>3 DEF GatesOK, gateVars
<1>4. CASE \E c \in Chains, i \in Ids, n \in Amounts : Buy(c, i, n)
    BY <1>3, <1>4 DEF Buy
<1>5. CASE \E a \in Quotes, g \in LotSizes : AppendSale(a, g)
    BY <1>3, <1>5 DEF AppendSale
<1>6. CASE OtherNext /\ ~GateStep
    BY <1>3, <1>6 DEF OtherNext, GateStep, MintGenesis, CloseSale, PublishSale, Send, LzReceive,
       LzReceiveSale, LzReceiveOft, WithdrawFee, SetPause, Donate, BurnGrs
<1>7. CASE UNCHANGED vars
    BY <1>3, <1>7 DEF vars
<1> QED BY <1>2, <1>4, <1>5, <1>6, <1>7 DEF Next

LEMMA SalesInvNext == SalesInv /\ [Next]_vars => SalesInv'
<1> SUFFICES ASSUME SalesInv, [Next]_vars PROVE SalesInv'
    OBVIOUS
<1>0. GatesOK'
    BY GatesNext
<1>1. CASE \E a \in Quotes, g \in LotSizes : AppendSale(a, g)
    BY <1>0, <1>1, AppendSaleStep
<1>2. CASE \E c \in Chains, i \in Ids, n \in Amounts : Buy(c, i, n)
    BY <1>0, <1>2, PurchaseStep
<1>3. CASE OtherNext
    BY <1>0, <1>3, OtherNextStep
<1>4. CASE UNCHANGED vars
  <2>1. paused' = paused /\ UNCHANGED <<genesisMinted, tokenVars, bookVars, wireVars, gone>>
      BY <1>4 DEF vars
  <2>2. paused' \in [Chains -> BOOLEAN]
      BY <2>1, InvFacts
  <2> QED BY <1>0, <2>1, <2>2, SetPauseStep
<1> QED BY <1>1, <1>2, <1>3, <1>4 DEF Next

LEMMA SalesInvHolds == Spec => []SalesInv
<1> QED BY SalesInvInit, SalesInvNext, PTL DEF Spec

-------------------------------------------------------------------------------
(* Theorems. *)

\* On every chain sales_reserved is always exactly what its open lots have left, and
\* sale_escrow holds it.
THEOREM EarmarksAlwaysBacked == Spec => []EarmarksBacked
<1>1. SalesInv => EarmarksBacked
    BY DEF SalesInv
<1> QED BY <1>1, SalesInvHolds, PTL

\* Over any number of chains and deliveries in any order, GRS is neither created nor lost:
\* the mints, the wire and what was destroyed add up to the genesis mint.
THEOREM SupplyAlwaysConserved == Spec => []SupplyConserved
<1>1. SalesInv => SupplyConserved
    BY DEF SalesInv
<1> QED BY <1>1, SalesInvHolds, PTL

\* What lz_receive asks of the destination besides the gates of OnlyGatesRefuse: room under
\* the cap, and for a publication a book that can give up what the row holds.
Deliverable(m) ==
    /\ UnderCap(m.dst, Sd2Ld(m.sd))
    /\ m \in SaleMessages =>
         /\ m.dst # Home
         /\ sale[m.dst][m.id].grs <= reserved[m.dst]
         /\ sale[m.dst][m.id].grs <= escrow[m.dst]

\* No message is ever refused for the supply cap or the inventory of its destination: of
\* the guards whose conjunction OnlyGatesRefuse finds enabled, those that are not gates.
THEOREM DeliveryAlwaysAdmitted == Spec => [](\A m \in inflight : Deliverable(m))
<1>1. ASSUME SalesInv, NEW m \in inflight PROVE Deliverable(m)
  <2>1. PICK c \in Chains : c = m.dst
    <3>1. m \in SaleMessages \cup OftMessages
        BY <1>1 DEF SalesInv, WireOK
    <3> QED BY <3>1, Constants DEF SaleMessages, OftMessages
  <2>2. /\ wallet \in [Chains -> Nat] /\ fees \in [Chains -> Nat] /\ escrow \in [Chains -> Nat]
        /\ reserved \in [Chains -> Nat] /\ sale \in [Chains -> [Ids -> Rows]]
        /\ Circulating \in Nat /\ Carried \in Nat /\ gone \in Nat
        /\ Circulating + Carried + gone <= MAX_SUPPLY /\ MAX_SUPPLY \in Nat
        /\ reserved[c] <= escrow[c]
      BY <1>1, InvFacts, Constants
  <2>3. PICK g \in Nat : g = Sd2Ld(m.sd) /\ g <= Carried
      BY <1>1, CarriedFacts DEF SalesInv
  <2>4. Supply(c) \in Nat /\ Supply(c) <= Circulating
    <3> DEFINE s == [d \in Chains |-> Supply(d)]
    <3>1. s \in [Chains -> Nat] /\ s[c] = Supply(c) /\ Total(s) = Circulating
        BY <2>2, SupplyFacts DEF Circulating
    <3>2. IsFiniteSet(Chains)
        BY Constants
    <3> HIDE DEF s
    <3>3. s[c] \in Nat /\ s[c] <= Total(s)
        BY <3>1, <3>2, TotalUpdate
    <3> QED BY <3>1, <3>3
  <2>5. UnderCap(m.dst, Sd2Ld(m.sd))
      BY <2>1, <2>2, <2>3, <2>4 DEF UnderCap
  <2>6. ASSUME m \in SaleMessages
        PROVE  /\ m.dst # Home
               /\ sale[m.dst][m.id].grs <= reserved[m.dst]
               /\ sale[m.dst][m.id].grs <= escrow[m.dst]
    <3>1. PICK i \in Ids : i = m.id
        BY <2>6 DEF SaleMessages
    <3>2. c # Home
        BY <2>1, <2>6, Constants DEF SaleMessages
    <3> DEFINE f == [j \in Ids |-> sale[c][j].grs]
    <3>3. f \in [Ids -> Nat] /\ f[i] = sale[c][i].grs /\ Total(f) = reserved[c]
        BY <1>1, <2>2 DEF SalesInv, EarmarksBacked, Earmarked, Rows
    <3>4. IsFiniteSet(Ids)
        BY Constants
    <3> HIDE DEF f
    <3>5. f[i] \in Nat /\ f[i] <= Total(f)
        BY <3>3, <3>4, TotalUpdate
    <3>6. sale[c][i].grs <= reserved[c] /\ sale[c][i].grs <= escrow[c]
        BY <2>2, <3>3, <3>5
    <3> QED BY <2>1, <3>1, <3>2, <3>6
  <2> QED BY <2>5, <2>6 DEF Deliverable
<1>2. SalesInv => \A m \in inflight : Deliverable(m)
    BY <1>1
<1> QED BY <1>2, SalesInvHolds, PTL

\* Even when the close overtakes the publication, a spoke never remints a lot that it has
\* closed or sold out.
THEOREM RevokedAlwaysClosed == Spec => RevokedLotsStayClosed
<1> DEFINE Shut == \A c \in Spokes, i \in Ids :
                     sale[c][i].known /\ sale[c][i].grs = 0 => sale'[c][i].grs = 0
<1>1. SalesInv /\ [Next]_vars => [Shut]_vars
  <2> SUFFICES ASSUME SalesInv, Next, NEW c \in Spokes, NEW i \in Ids,
                      sale[c][i].known, sale[c][i].grs = 0
               PROVE  sale'[c][i].grs = 0
      OBVIOUS
  <2>1. sale \in [Chains -> [Ids -> Rows]] /\ c \in Chains /\ c # Home
      BY InvFacts, Constants
  <2>2. ASSUME NEW r, NEW j \in Ids, sale' = [sale EXCEPT ![Home][j] = r]
        PROVE  sale'[c][i].grs = 0
      BY <2>1, <2>2
  <2>3. ASSUME NEW d \in Chains, NEW j \in Ids, NEW n \in Amounts, Buy(d, j, n)
        PROVE  sale'[c][i].grs = 0
    <3>1. PICK r : sale' = [sale EXCEPT ![d][j] = r]
        BY <2>3 DEF Buy
    <3>2. sale[d][j].grs > 0
        BY <2>3 DEF Buy, Quotable
    <3>3. d # c \/ j # i
        BY <3>2
    <3> QED BY <2>1, <3>1, <3>3
  <2>4. ASSUME NEW m \in inflight, LzReceiveSale(m), AcceptSale(m)
        PROVE  sale'[c][i].grs = 0
    <3>1. m \in SaleMessages
      <4>1. m \in SaleMessages \cup OftMessages /\ m.kind = "sale"
          BY <2>4 DEF SalesInv, WireOK, LzReceiveSale
      <4> QED BY <4>1 DEF OftMessages
    <3>2. m.dst \in Chains /\ m.id \in Ids
        BY <3>1, Constants DEF SaleMessages
    <3>3. /\ ~Revoked(sale[m.dst][m.id], Sd2Ld(m.sd))
          /\ sale' = [sale EXCEPT ![m.dst][m.id] = SaleRow(Sd2Ld(m.sd), m.asset)]
        BY <2>4 DEF AcceptSale
    <3>4. CASE m.dst = c /\ m.id = i
        BY <2>1, <3>3, <3>4 DEF Revoked, SaleRow
    <3>5. CASE m.dst # c \/ m.id # i
        BY <2>1, <3>2, <3>3, <3>5
    <3> QED BY <3>4, <3>5
  <2>5. CASE \E a \in Quotes, g \in LotSizes : AppendSale(a, g)
    <3>1. PICK a \in Quotes, g \in LotSizes : AppendSale(a, g)
        BY <2>5
    <3> QED BY <2>2, <3>1 DEF AppendSale
  <2>6. CASE \E d \in Chains, j \in Ids, n \in Amounts : Buy(d, j, n)
      BY <2>3, <2>6
  <2>7. CASE \E j \in Ids : CloseSale(j)
      BY <2>2, <2>7 DEF CloseSale
  <2>8. CASE \E d \in Spokes, j \in Ids : PublishSale(d, j)
      BY <2>2, <2>8 DEF PublishSale
  <2>9. CASE \E m \in inflight : LzReceive(m)
    <3>1. PICK m \in inflight : LzReceive(m)
        BY <2>9
    <3>2. CASE LzReceiveSale(m)
      <4>1. AcceptSale(m) \/ sale' = sale
          BY <3>2 DEF LzReceiveSale, DropSale
      <4> QED BY <2>4, <3>2, <4>1
    <3>3. CASE LzReceiveOft(m)
        BY <3>3 DEF LzReceiveOft, bookVars
    <3> QED BY <3>1, <3>2, <3>3 DEF LzReceive
  <2>10. CASE \/ MintGenesis
              \/ \E d, e \in Chains, n \in Amounts : Send(d, e, n)
              \/ \E d \in Chains, n \in Amounts : WithdrawFee(d, n)
              \/ \E d \in Chains, f \in BOOLEAN : SetPause(d, f)
              \/ GateStep
              \/ \E d \in Chains, n \in Amounts : Donate(d, n) \/ BurnGrs(d, n)
    <3>1. sale' = sale
        BY <2>10 DEF MintGenesis, Send, WithdrawFee, SetPause, Donate, BurnGrs, bookVars,
           GateStep, SetPeerAddress, BucketTurns, FundRow
    <3> QED BY <3>1
  <2> QED BY <2>5, <2>6, <2>7, <2>8, <2>9, <2>10 DEF Next, OtherNext, GateStep
<1> QED BY <1>1, SalesInvHolds, PTL DEF Spec, RevokedLotsStayClosed

-------------------------------------------------------------------------------
(* List prices.  Wherever the rest of a lot is, what was sold and paid so far and the     *)
(* rest add up to what was listed.                                                        *)

Accounted(i, grs, asset) ==
    grs + sold[i] = listed[i].grs /\ asset + paid[i] = listed[i].asset

PriceInv ==
    /\ listed \in [Ids -> Rows] /\ sold \in [Ids -> Nat] /\ paid \in [Ids -> Nat]
    /\ \A i \in Ids : i > saleCount[Home] => sold[i] = 0 /\ paid[i] = 0
    /\ \A i \in Ids, c \in Chains : Open(c, i) => Accounted(i, sale[c][i].grs, sale[c][i].asset)
    /\ \A i \in Ids, m \in inflight : Travelling(m, i) => Accounted(i, Sd2Ld(m.sd), m.asset)
    /\ SoldAtListPrice

\* A purchase at the rounded-down share of what is left keeps the price of everything sold
\* so far at or below the list price.
LEMMA FairShare ==
    ASSUME NEW g \in Nat \ {0}, NEW a \in Nat, NEW s \in Nat, NEW p \in Nat,
           NEW n \in 0..g, NEW q \in 0..a,
           p * (g + s) <= (a + p) * s, g * q <= n * a
    PROVE  (p + q) * (g + s) <= (a + p) * (s + n)
<1>1. PICK h \in Nat, b \in Nat : h = g - n /\ b = a - q
    OBVIOUS
<1>2. p * g <= a * s
    OBVIOUS
<1>3. a * h <= g * b
    BY <1>1
<1>4. (p * g) * h <= (a * s) * h
    BY <1>2, MulMono
<1>5. (a * h) * s <= (g * b) * s
    BY <1>3, MulMono
<1>6. g * (p * h) <= g * (s * b)
    BY <1>4, <1>5
<1>7. PICK x \in Nat, y \in Nat : x = p * h /\ y = s * b
    OBVIOUS
<1>8. x <= y
  <2>1. g * x <= g * y
      BY <1>6, <1>7
  <2>2. ASSUME y + 1 <= x PROVE FALSE
    <3>1. (y + 1) * g <= x * g
        BY <2>2, MulMono
    <3> QED BY <2>1, <3>1
  <2> QED BY <2>2
<1>9. p * g - p * n <= s * a - s * q
    BY <1>1, <1>7, <1>8
<1> QED BY <1>9

LEMMA PriceInit == HistoryInit => PriceInv
<1> SUFFICES ASSUME HistoryInit PROVE PriceInv
    OBVIOUS
<1>1. NoSale \in Rows /\ NoSale.grs = 0
    BY DEF NoSale, Rows
<1>2. \A c \in Chains, i \in Ids : ~Open(c, i)
    BY <1>1 DEF HistoryInit, Init, Open
<1>3. inflight = {}
    BY DEF HistoryInit, Init
<1>4. listed \in [Ids -> Rows] /\ sold \in [Ids -> Nat] /\ paid \in [Ids -> Nat]
      /\ \A i \in Ids : sold[i] = 0 /\ paid[i] = 0 /\ listed[i] = NoSale
    BY <1>1 DEF HistoryInit
<1>5. SoldAtListPrice
    BY <1>1, <1>4 DEF SoldAtListPrice, Rows
<1> QED BY <1>2, <1>3, <1>4, <1>5 DEF PriceInv

\* Steps without a listing and a purchase move a lot without changing it, or close it.
LEMMA OtherMoves ==
    ASSUME SalesInv, OtherNext
    PROVE  /\ saleCount'[Home] = saleCount[Home]
           /\ \A c \in Chains, i \in Ids : Open(c, i)' =>
                \/ sale'[c][i] = sale[c][i]
                \/ \E m \in inflight : /\ Travelling(m, i)
                                       /\ sale'[c][i] = SaleRow(Sd2Ld(m.sd), m.asset)
           /\ \A m \in inflight', i \in Ids : Travelling(m, i) =>
                \/ m \in inflight
                \/ Open(Home, i) /\ Sd2Ld(m.sd) = sale[Home][i].grs /\ m.asset = sale[Home][i].asset
<1>1. sale \in [Chains -> [Ids -> Rows]] /\ saleCount \in [Chains -> 0..MaxSales] /\ Home \in Chains
    BY InvFacts, Constants
<1>2. ASSUME NEW j \in Ids, sale' = [sale EXCEPT ![Home][j] = SaleRow(0, 0)]
      PROVE  \A c \in Chains, i \in Ids : Open(c, i)' => sale'[c][i] = sale[c][i]
  <2> SUFFICES ASSUME NEW c \in Chains, NEW i \in Ids, Open(c, i)' PROVE sale'[c][i] = sale[c][i]
      OBVIOUS
  <2>1. CASE c = Home /\ i = j
      BY <1>1, <1>2, <2>1 DEF Open, SaleRow
  <2>2. CASE c # Home \/ i # j
      BY <1>1, <1>2, <2>2
  <2> QED BY <2>1, <2>2
<1>3. CASE \E j \in Ids : CloseSale(j)
  <2>1. PICK j \in Ids : CloseSale(j)
      BY <1>3
  <2>2. sale' = [sale EXCEPT ![Home][j] = SaleRow(0, 0)] /\ saleCount' = saleCount /\ inflight' = inflight
      BY <2>1 DEF CloseSale, wireVars
  <2>3. \A c \in Chains, i \in Ids : Open(c, i)' => sale'[c][i] = sale[c][i]
      BY <1>2, <2>2
  <2> QED BY <2>2, <2>3
<1>4. CASE \E d \in Spokes, j \in Ids : PublishSale(d, j)
  <2>1. PICK d \in Spokes, j \in Ids : PublishSale(d, j)
      BY <1>4
  <2>2. PICK m \in SaleMessages :
          /\ m = SaleMessage(d, j, sale[Home][j]) /\ m.id = j /\ m.asset = sale[Home][j].asset
          /\ Sd2Ld(m.sd) = sale[Home][j].grs /\ (m.sd > 0 => Open(Home, j))
      BY <2>1, PublishFacts
  <2>3. /\ sale' = [sale EXCEPT ![Home][j] = SaleRow(0, 0)] /\ saleCount' = saleCount
        /\ inflight' = inflight \cup {m}
      BY <2>1, <2>2 DEF PublishSale, Post
  <2>4. \A c \in Chains, i \in Ids : Open(c, i)' => sale'[c][i] = sale[c][i]
      BY <1>2, <2>3
  <2>5. \A i \in Ids : Travelling(m, i) =>
          Open(Home, i) /\ Sd2Ld(m.sd) = sale[Home][i].grs /\ m.asset = sale[Home][i].asset
      BY <2>2 DEF Travelling
  <2> QED BY <2>3, <2>4, <2>5
<1>5. CASE \E m \in inflight : LzReceiveSale(m) /\ AcceptSale(m)
  <2>1. PICK m \in inflight : LzReceiveSale(m) /\ AcceptSale(m)
      BY <1>5
  <2>2. m \in SaleMessages
    <3>1. m \in SaleMessages \cup OftMessages /\ m.kind = "sale"
        BY <2>1 DEF SalesInv, WireOK, LzReceiveSale
    <3> QED BY <3>1 DEF OftMessages
  <2>3. PICK d \in Spokes, j \in Ids, k \in Nat : d = m.dst /\ j = m.id /\ k = m.sd
      BY <2>2 DEF SaleMessages
  <2>4. d \in Chains /\ d # Home
      BY Constants
  <2>5. /\ sale' = [sale EXCEPT ![d][j] = SaleRow(Sd2Ld(m.sd), m.asset)]
        /\ saleCount'[Home] = saleCount[Home]
        /\ inflight' = inflight \ {m}
      BY <1>1, <2>1, <2>3, <2>4 DEF AcceptSale, LzReceiveSale
  <2>6. ASSUME NEW c \in Chains, NEW i \in Ids, Open(c, i)'
        PROVE  \/ sale'[c][i] = sale[c][i]
               \/ \E x \in inflight : Travelling(x, i) /\ sale'[c][i] = SaleRow(Sd2Ld(x.sd), x.asset)
    <3>1. CASE c # d \/ i # j
        BY <1>1, <2>5, <3>1
    <3>2. CASE c = d /\ i = j
      <4>1. sale'[c][i] = SaleRow(Sd2Ld(m.sd), m.asset)
          BY <1>1, <2>4, <2>5, <3>2
      <4>2. Sd2Ld(k) > 0
          BY <2>3, <2>6, <4>1 DEF Open, SaleRow
      <4>3. k # 0
          BY <4>2, SharedExact
      <4>4. Travelling(m, i)
          BY <2>2, <2>3, <3>2, <4>3 DEF Travelling
      <4> QED BY <4>1, <4>4
    <3> QED BY <3>1, <3>2
  <2> QED BY <2>5, <2>6
<1>6. CASE \/ \E m \in inflight : LzReceiveSale(m) /\ DropSale(m)
           \/ \E m \in inflight : LzReceiveOft(m)
  <2>1. sale' = sale /\ saleCount' = saleCount /\ inflight' \subseteq inflight
      BY <1>6 DEF LzReceiveSale, DropSale, LzReceiveOft, bookVars
  <2> QED BY <2>1
<1>7. CASE \E c, d \in Chains, n \in Amounts : Send(c, d, n)
  <2>1. PICK c, d, v : sale' = sale /\ saleCount' = saleCount /\ inflight' = inflight \cup {OftMessage(c, d, v)}
      BY <1>7 DEF Send, bookVars, Post
  <2>2. OftMessage(c, d, v) \notin SaleMessages
      BY DEF OftMessage, SaleMessages
  <2> QED BY <2>1, <2>2 DEF Travelling
<1>8. CASE \/ MintGenesis
           \/ \E c \in Chains, n \in Amounts : WithdrawFee(c, n)
           \/ \E c \in Chains, f \in BOOLEAN : SetPause(c, f)
           \/ GateStep
           \/ \E c \in Chains, n \in Amounts : Donate(c, n) \/ BurnGrs(c, n)
  <2>1. sale' = sale /\ saleCount' = saleCount /\ inflight' = inflight
      BY <1>8 DEF MintGenesis, WithdrawFee, SetPause, Donate, BurnGrs, bookVars, wireVars,
         GateStep, SetPeerAddress, BucketTurns, FundRow
  <2> QED BY <2>1
<1>9. CASE \E m \in inflight : LzReceive(m)
  <2>1. PICK m \in inflight : LzReceiveSale(m) \/ LzReceiveOft(m)
      BY <1>9 DEF LzReceive
  <2>2. LzReceiveSale(m) => AcceptSale(m) \/ DropSale(m)
      BY DEF LzReceiveSale
  <2> QED BY <1>5, <1>6, <2>1, <2>2
<1> QED BY <1>3, <1>4, <1>7, <1>8, <1>9 DEF OtherNext, GateStep

LEMMA OtherPrices ==
    ASSUME SalesInv, PriceInv, OtherNext, UNCHANGED <<listed, sold, paid>>
    PROVE  PriceInv'
<1>1. \A i \in Ids, c \in Chains : Open(c, i) => Accounted(i, sale[c][i].grs, sale[c][i].asset)
    BY DEF PriceInv
<1>2. \A i \in Ids, m \in inflight : Travelling(m, i) => Accounted(i, Sd2Ld(m.sd), m.asset)
    BY DEF PriceInv
<1>3. \A i \in Ids : \A g, a : Accounted(i, g, a)' <=> Accounted(i, g, a)
    BY DEF Accounted
<1>4. \A i \in Ids, c \in Chains : Open(c, i)' => Accounted(i, sale'[c][i].grs, sale'[c][i].asset)
  <2> SUFFICES ASSUME NEW i \in Ids, NEW c \in Chains, Open(c, i)'
               PROVE  Accounted(i, sale'[c][i].grs, sale'[c][i].asset)
      OBVIOUS
  <2>1. CASE sale'[c][i] = sale[c][i]
      BY <1>1, <2>1 DEF Open
  <2>2. CASE \E m \in inflight : Travelling(m, i) /\ sale'[c][i] = SaleRow(Sd2Ld(m.sd), m.asset)
      BY <1>2, <2>2 DEF SaleRow
  <2> QED BY <2>1, <2>2, OtherMoves
<1>5. \A i \in Ids, m \in inflight' : Travelling(m, i) => Accounted(i, Sd2Ld(m.sd), m.asset)
  <2> SUFFICES ASSUME NEW i \in Ids, NEW m \in inflight', Travelling(m, i)
               PROVE  Accounted(i, Sd2Ld(m.sd), m.asset)
      OBVIOUS
  <2>1. \/ m \in inflight
        \/ Open(Home, i) /\ Sd2Ld(m.sd) = sale[Home][i].grs /\ m.asset = sale[Home][i].asset
      BY OtherMoves
  <2>2. Home \in Chains
      BY Constants
  <2> QED BY <1>1, <1>2, <2>1, <2>2
<1>6. saleCount'[Home] = saleCount[Home]
    BY OtherMoves
<1>7. /\ listed' \in [Ids -> Rows] /\ sold' \in [Ids -> Nat] /\ paid' \in [Ids -> Nat]
      /\ \A i \in Ids : i > saleCount'[Home] => sold'[i] = 0 /\ paid'[i] = 0
    BY <1>6 DEF PriceInv
<1>8. SoldAtListPrice'
    BY DEF PriceInv, SoldAtListPrice
<1> QED BY <1>3, <1>4, <1>5, <1>7, <1>8 DEF PriceInv

LEMMA ListPrices ==
    ASSUME SalesInv, PriceInv, ListStep
    PROVE  PriceInv'
<1>1. PICK a \in Quotes, g \in LotSizes :
        /\ AppendSale(a, g)
        /\ listed' = [listed EXCEPT ![saleCount'[Home]] = SaleRow(g, a)]
        /\ UNCHANGED <<sold, paid>>
    BY DEF ListStep
<1>2. PICK i : i = saleCount[Home] + 1
    OBVIOUS
<1>3. /\ i \in Ids /\ sale' = [sale EXCEPT ![Home][i] = SaleRow(g, a)]
      /\ saleCount' = [saleCount EXCEPT ![Home] = i] /\ inflight' = inflight
    BY <1>1, <1>2 DEF AppendSale, wireVars
<1>4. /\ sale \in [Chains -> [Ids -> Rows]] /\ saleCount \in [Chains -> 0..MaxSales]
      /\ Home \in Chains /\ a \in Nat /\ g \in Nat /\ Ids \subseteq Nat
    BY InvFacts, Constants
<1>5. saleCount'[Home] = i /\ i > saleCount[Home] /\ saleCount[Home] \in Nat
    BY <1>2, <1>3, <1>4
<1>6. /\ listed \in [Ids -> Rows] /\ sold \in [Ids -> Nat] /\ paid \in [Ids -> Nat]
      /\ \A j \in Ids : j > saleCount[Home] => sold[j] = 0 /\ paid[j] = 0
    BY DEF PriceInv
<1>7. SaleRow(g, a) \in Rows /\ SaleRow(g, a).grs = g /\ SaleRow(g, a).asset = a
    BY <1>4 DEF SaleRow, Rows
<1>8. /\ listed' \in [Ids -> Rows] /\ listed'[i] = SaleRow(g, a)
      /\ \A j \in Ids : j # i => listed'[j] = listed[j]
      /\ sold' = sold /\ paid' = paid /\ sold[i] = 0 /\ paid[i] = 0
    BY <1>1, <1>3, <1>5, <1>6, <1>7
<1>9. \A j \in Ids : j > saleCount'[Home] => sold'[j] = 0 /\ paid'[j] = 0
  <2> SUFFICES ASSUME NEW j \in Ids, j > i PROVE sold[j] = 0 /\ paid[j] = 0
      BY <1>5, <1>8
  <2>1. j > saleCount[Home]
      BY <1>3, <1>4, <1>5
  <2> QED BY <1>6, <2>1
<1>10. \A c \in Chains, j \in Ids :
         Open(c, j)' => Accounted(j, sale[c][j].grs, sale[c][j].asset)'
  <2> SUFFICES ASSUME NEW c \in Chains, NEW j \in Ids, Open(c, j)'
               PROVE  Accounted(j, sale[c][j].grs, sale[c][j].asset)'
      OBVIOUS
  <2>1. CASE j = i /\ c = Home
    <3>1. sale'[c][j] = SaleRow(g, a)
        BY <1>3, <1>4, <2>1
    <3> QED BY <1>4, <1>7, <1>8, <2>1, <3>1 DEF Accounted
  <2>2. CASE j = i /\ c # Home
    <3>1. sale'[c][j] = sale[c][j]
        BY <1>3, <1>4, <2>2
    <3>2. Open(c, j)
        BY <3>1 DEF Open
    <3>3. ~Open(c, j)
        BY <1>3, <1>5, <2>2 DEF SalesInv, LotsInOnePlace
    <3> QED BY <3>2, <3>3
  <2>3. CASE j # i
    <3>1. sale'[c][j] = sale[c][j]
        BY <1>3, <1>4, <2>3
    <3>2. Accounted(j, sale[c][j].grs, sale[c][j].asset)
        BY <3>1 DEF PriceInv, Open
    <3> QED BY <1>8, <2>3, <3>1, <3>2 DEF Accounted
  <2> QED BY <2>1, <2>2, <2>3
<1>11. \A j \in Ids, m \in inflight' : Travelling(m, j) => Accounted(j, Sd2Ld(m.sd), m.asset)'
  <2> SUFFICES ASSUME NEW j \in Ids, NEW m \in inflight, Travelling(m, j)
               PROVE  Accounted(j, Sd2Ld(m.sd), m.asset)'
      BY <1>3
  <2>1. j # i
    <3>1. m \in SaleMessages /\ m.id = j
        BY DEF Travelling
    <3>2. j <= saleCount[Home]
        BY <3>1 DEF SalesInv, LotsInOnePlace
    <3> QED BY <1>4, <1>5, <3>2
  <2>2. Accounted(j, Sd2Ld(m.sd), m.asset)
      BY DEF PriceInv
  <2> QED BY <1>8, <2>1, <2>2 DEF Accounted
<1>12. SoldAtListPrice'
  <2> SUFFICES ASSUME NEW j \in Ids
               PROVE  /\ sold'[j] <= listed'[j].grs
                      /\ paid'[j] * listed'[j].grs <= listed'[j].asset * sold'[j]
                      /\ sold'[j] > 0 /\ sold'[j] = listed'[j].grs => paid'[j] = listed'[j].asset
      BY DEF SoldAtListPrice
  <2>1. CASE j = i
      BY <1>4, <1>7, <1>8, <2>1
  <2>2. CASE j # i
      BY <1>8, <2>2 DEF PriceInv, SoldAtListPrice
  <2> QED BY <2>1, <2>2
<1> QED BY <1>6, <1>8, <1>9, <1>10, <1>11, <1>12 DEF PriceInv

LEMMA BuyPrices ==
    ASSUME SalesInv, PriceInv, BuyStep
    PROVE  PriceInv'
<1>1. PICK c \in Chains, i \in Ids, n \in Amounts :
        /\ Buy(c, i, n)
        /\ sold' = [sold EXCEPT ![i] = @ + n]
        /\ paid' = [paid EXCEPT ![i] = @ + sale[c][i].asset - sale'[c][i].asset]
        /\ listed' = listed
    BY DEF BuyStep
<1>2. PICK g \in Nat \ {0}, a \in Nat, q \in Nat :
        /\ g = sale[c][i].grs /\ a = sale[c][i].asset
        /\ n \in 1..g /\ q <= a /\ g * q <= n * a /\ (n = g => q = a)
        /\ g - n \in Nat /\ a - q \in Nat
        /\ sale' = [sale EXCEPT ![c][i] = SaleRow(g - n, a - q)]
    BY <1>1, BuyFacts
<1>3. /\ sale \in [Chains -> [Ids -> Rows]] /\ n \in Nat
    BY InvFacts, Constants
<1>4. saleCount' = saleCount /\ inflight' = inflight
    BY <1>1 DEF Buy, wireVars
<1>5. /\ listed \in [Ids -> Rows] /\ sold \in [Ids -> Nat] /\ paid \in [Ids -> Nat]
      /\ \A j \in Ids : j > saleCount[Home] => sold[j] = 0 /\ paid[j] = 0
    BY DEF PriceInv
<1>6. sale'[c][i].grs = g - n /\ sale'[c][i].asset = a - q
      /\ \A d \in Chains, j \in Ids : d # c \/ j # i => sale'[d][j] = sale[d][j]
    BY <1>2, <1>3 DEF SaleRow
<1>7. PICK s \in Nat, p \in Nat, G \in Nat, A \in Nat :
        s = sold[i] /\ p = paid[i] /\ G = listed[i].grs /\ A = listed[i].asset
    BY <1>5 DEF Rows
<1>8. Open(c, i)
    BY <1>2 DEF Open
<1>9. g + s = G /\ a + p = A
    BY <1>2, <1>7, <1>8 DEF PriceInv, Accounted
<1>10. /\ sold' \in [Ids -> Nat] /\ paid' \in [Ids -> Nat]
       /\ sold'[i] = s + n /\ paid'[i] = p + q
       /\ \A j \in Ids : j # i => sold'[j] = sold[j] /\ paid'[j] = paid[j]
  <2>1. p + a - (a - q) = p + q
      OBVIOUS
  <2>2. paid' = [paid EXCEPT ![i] = p + q]
      BY <1>1, <1>2, <1>6, <1>7, <2>1
  <2>3. sold' = [sold EXCEPT ![i] = s + n]
      BY <1>1, <1>7
  <2> QED BY <1>3, <1>5, <1>7, <2>2, <2>3
<1>11. ~(i > saleCount[Home])
    BY <1>8 DEF SalesInv, LotsInOnePlace
<1>12. \A j \in Ids : j > saleCount'[Home] => sold'[j] = 0 /\ paid'[j] = 0
    BY <1>4, <1>5, <1>10, <1>11
<1>13. \A d \in Chains : d # c => ~Open(d, i)
    BY <1>8 DEF SalesInv, LotsInOnePlace
<1>14. \A m \in inflight : ~Travelling(m, i)
    BY <1>8 DEF SalesInv, LotsInOnePlace
<1>15. \A j \in Ids, d \in Chains :
         Open(d, j)' => Accounted(j, sale[d][j].grs, sale[d][j].asset)'
  <2> SUFFICES ASSUME NEW j \in Ids, NEW d \in Chains, Open(d, j)'
               PROVE  Accounted(j, sale[d][j].grs, sale[d][j].asset)'
      OBVIOUS
  <2>1. CASE j = i /\ d = c
    <3>1. g - n + (s + n) = G /\ a - q + (p + q) = A
        BY <1>2, <1>3, <1>9
    <3> QED BY <1>1, <1>6, <1>7, <1>10, <2>1, <3>1 DEF Accounted
  <2>2. CASE j = i /\ d # c
      BY <1>6, <1>13, <2>2 DEF Open
  <2>3. CASE j # i
    <3>1. sale'[d][j] = sale[d][j]
        BY <1>6, <2>3
    <3>2. Accounted(j, sale[d][j].grs, sale[d][j].asset)
        BY <3>1 DEF PriceInv, Open
    <3> QED BY <1>1, <1>10, <2>3, <3>1, <3>2 DEF Accounted
  <2> QED BY <2>1, <2>2, <2>3
<1>16. \A j \in Ids, m \in inflight' : Travelling(m, j) => Accounted(j, Sd2Ld(m.sd), m.asset)'
  <2> SUFFICES ASSUME NEW j \in Ids, NEW m \in inflight, Travelling(m, j)
               PROVE  Accounted(j, Sd2Ld(m.sd), m.asset)'
      BY <1>4
  <2>1. j # i
      BY <1>14
  <2>2. Accounted(j, Sd2Ld(m.sd), m.asset)
      BY DEF PriceInv
  <2> QED BY <1>1, <1>10, <2>1, <2>2 DEF Accounted
<1>17. SoldAtListPrice'
  <2> SUFFICES ASSUME NEW j \in Ids
               PROVE  /\ sold'[j] <= listed'[j].grs
                      /\ paid'[j] * listed'[j].grs <= listed'[j].asset * sold'[j]
                      /\ sold'[j] > 0 /\ sold'[j] = listed'[j].grs => paid'[j] = listed'[j].asset
      BY DEF SoldAtListPrice
  <2>1. CASE j = i
    <3>1. p * G <= A * s
        BY <1>7 DEF PriceInv, SoldAtListPrice
    <3>2. p * (g + s) <= (a + p) * s
        BY <1>9, <3>1
    <3>3. n \in 0..g /\ q \in 0..a
        BY <1>2
    <3>4. (p + q) * (g + s) <= (a + p) * (s + n)
        BY <1>2, <3>2, <3>3, FairShare
    <3>5. (p + q) * G <= A * (s + n)
        BY <1>9, <3>4
    <3>6. s + n <= G /\ (s + n = G => p + q = A)
      <4>1. n <= g /\ (n = g => q = a)
          BY <1>2, <1>3
      <4> QED BY <1>3, <1>9, <4>1
    <3> QED BY <1>1, <1>7, <1>10, <2>1, <3>5, <3>6
  <2>2. CASE j # i
      BY <1>1, <1>10, <2>2 DEF PriceInv, SoldAtListPrice
  <2> QED BY <2>1, <2>2
<1> QED BY <1>1, <1>5, <1>10, <1>12, <1>15, <1>16, <1>17 DEF PriceInv

\* Buyers never pay more than the list price of what they take, on whichever chain and in
\* whatever pieces; a lot that is sold out has brought exactly what was asked, and no lot
\* is sold twice.
THEOREM ListPriceAlwaysKept == HistorySpec => []SoldAtListPrice
<1>1. HistoryInit => SalesInv /\ PriceInv
    BY PriceInit, SalesInvInit DEF HistoryInit
<1>2. SalesInv /\ PriceInv /\ [ListStep \/ BuyStep \/ OtherStep]_historyVars => (SalesInv /\ PriceInv)'
  <2> SUFFICES ASSUME SalesInv, PriceInv, [ListStep \/ BuyStep \/ OtherStep]_historyVars
               PROVE  SalesInv' /\ PriceInv'
      OBVIOUS
  <2>1. CASE ListStep
    <3>1. Next
        BY <2>1 DEF ListStep, Next
    <3> QED BY <2>1, <3>1, SalesInvNext, ListPrices
  <2>2. CASE BuyStep
    <3>1. Next
        BY <2>2 DEF BuyStep, Next
    <3> QED BY <2>2, <3>1, SalesInvNext, BuyPrices
  <2>3. CASE OtherStep
    <3>1. OtherNext /\ Next /\ UNCHANGED <<listed, sold, paid>>
        BY <2>3 DEF OtherStep, Next
    <3> QED BY <3>1, SalesInvNext, OtherPrices
  <2>4. CASE UNCHANGED historyVars
    <3>1. UNCHANGED vars /\ UNCHANGED <<listed, sold, paid>>
        BY <2>4 DEF historyVars
    <3>2. sale' = sale /\ saleCount' = saleCount /\ inflight' = inflight
        BY <3>1 DEF vars, bookVars, wireVars
    <3>3. PriceInv'
        BY <3>1, <3>2 DEF PriceInv, SoldAtListPrice, Accounted, Open
    <3> QED BY <3>1, <3>3, SalesInvNext
  <2> QED BY <2>1, <2>2, <2>3, <2>4
<1>3. PriceInv => SoldAtListPrice
    BY DEF PriceInv
<1> QED BY <1>1, <1>2, <1>3, PTL DEF HistorySpec

===============================================================================
