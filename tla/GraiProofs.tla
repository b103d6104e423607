------------------------------ MODULE GraiProofs ------------------------------
(***************************************************************************)
(* Grai for every set of users and assets, every configuration that        *)
(* validate_protocol_config accepts, every price and every scale.  First   *)
(* what the arithmetic of Tokenomics returns and how it rounds, and the    *)
(* types.  Then the ledger: every share is somewhere, the totals of        *)
(* GraiState are the sums over the Escrow accounts, the registries list    *)
(* exactly the open locks and votes, and the vault covers every lock.      *)
(* Then solvency: every claim reserve is in its vault, shares keep a book  *)
(* and a basket, settling cannot overflow for a lock that exists, accrued  *)
(* dividends are never lost, and what rounding gives away is bounded.      *)
(***************************************************************************)
EXTENDS MCOverhang, TotalsProofs


\* The two ways of saturating a difference.
LEMMA SaturatingFacts ==
    ASSUME NEW x \in Nat, NEW y \in Nat
    PROVE  /\ SaturatingSub(x, y) \in Nat
           /\ SaturatingSub(x, y) <= x
           /\ MinOf(x, y) \in Nat /\ MinOf(x, y) <= x /\ MinOf(x, y) <= y
BY DEF SaturatingSub, MinOf

-------------------------------------------------------------------------------

\* A cut of at most BPS basis points never exceeds the amount it is taken from.
LEMMA BpsOfFacts ==
    ASSUME NEW amount \in Nat, NEW bps \in Nat
    PROVE  /\ BpsOf(amount, bps) \in Nat
           /\ bps <= BPS => BpsOf(amount, bps) <= amount
<1>1. amount * bps \in Nat
    OBVIOUS
<1>2. (amount * bps) \div BPS \in Nat
    BY <1>1, DivFacts, ScaleAssumption
<1>3. ASSUME bps <= BPS PROVE (amount * bps) \div BPS <= amount
    <2>1. bps * amount <= BPS * amount
        BY <1>3, MulMono, ScaleAssumption
    <2> QED BY <2>1, <1>1, DivUpper, ScaleAssumption
<1> QED BY <1>2, <1>3 DEF BpsOf

\* Two complementary cuts, each rounded down, together never exceed the amount.
LEMMA SplitFacts ==
    ASSUME NEW amount \in Nat, NEW p \in Nat, NEW q \in Nat, p + q = BPS
    PROVE  BpsOf(amount, p) + BpsOf(amount, q) <= amount
<1> DEFINE f == (amount * p) \div BPS
           g == (amount * q) \div BPS
<1>1. amount * p \in Nat /\ amount * q \in Nat
    OBVIOUS
<1>2. f \in Nat /\ g \in Nat /\ BPS * f <= amount * p /\ BPS * g <= amount * q
    BY <1>1, DivFacts, ScaleAssumption
<1> HIDE DEF f, g
<1>3. amount * p + amount * q = amount * BPS
    BY ScaleAssumption
<1>4. BPS * (f + g) <= BPS * amount
    BY <1>1, <1>2, <1>3, ScaleAssumption
<1>5. f + g <= amount
    BY <1>4, <1>2, ScaleAssumption
<1> QED BY <1>5 DEF BpsOf, f, g

\* A fee of at most BPS basis points, rounded up, is still at most the amount.
LEMMA BpsCeilFacts ==
    ASSUME NEW amount \in Nat, NEW bps \in Nat, bps <= BPS
    PROVE  BpsCeil(amount, bps) \in Nat /\ BpsCeil(amount, bps) <= amount
<1> DEFINE n == amount * bps + BPS - 1
<1>1. n \in Nat /\ amount * bps <= amount * BPS
    BY MulMono, ScaleAssumption
<1>2. n \div BPS \in Nat /\ BPS * (n \div BPS) <= n
    BY <1>1, DivFacts, ScaleAssumption
<1>3. BPS * (n \div BPS) < BPS * (amount + 1)
    BY <1>1, <1>2, ScaleAssumption
<1>4. n \div BPS < amount + 1
    BY <1>2, <1>3, ScaleAssumption
<1> QED BY <1>2, <1>4 DEF BpsCeil

\* The unlock penalty never exceeds the amount unlocked.
LEMMA UnlockPenaltyFacts ==
    ASSUME NEW amount \in Nat, NEW bps \in Nat, bps <= BPS
    PROVE  UnlockPenalty(amount, bps) \in Nat /\ UnlockPenalty(amount, bps) <= amount
BY BpsCeilFacts DEF UnlockPenalty

-------------------------------------------------------------------------------

\* The mint premium never asks less than par, however many years are compounded.
LEMMA MintPriceAtLeastPar ==
    ASSUME NEW r \in PremiumRates, NEW n \in 0..MAX_MINT_PREMIUM_YEARS
    PROVE  MintPrice[r][n] \in Nat /\ MintPrice[r][n] >= BPS
<1> DEFINE T == {k \in 0..MAX_MINT_PREMIUM_YEARS : MintPrice[r][k] < BPS}
<1>1. \A k \in 0..MAX_MINT_PREMIUM_YEARS : MintPrice[r][k] \in Nat
    BY MintPriceAssumption
<1>2. SUFFICES ASSUME T # {} PROVE FALSE
    BY <1>1, ScaleAssumption
<1>3. T \in SUBSET Nat
    BY MintPriceAssumption
<1>4. PICK m \in T : \A k \in T : ~(k < m)
    BY <1>2, <1>3, LeastNatural
<1>5. m \in 1..MAX_MINT_PREMIUM_YEARS /\ MintPrice[r][m] < BPS
    BY MintPriceAssumption, ScaleAssumption
<1>6. m - 1 \in 0..MAX_MINT_PREMIUM_YEARS /\ ~(m - 1 \in T)
    BY <1>4, <1>5, MintPriceAssumption
<1>7. MintPrice[r][m - 1] \in Nat /\ MintPrice[r][m - 1] >= BPS
    BY <1>1, <1>6, ScaleAssumption
<1>8. r \in Nat /\ MintPrice[r][m] = (MintPrice[r][m - 1] * (BPS + r)) \div BPS
    BY <1>5, MintPriceAssumption
<1>9. BPS * BPS <= MintPrice[r][m - 1] * (BPS + r)
    BY <1>7, <1>8, ScaleAssumption
<1>10. MintPrice[r][m - 1] * (BPS + r) \in Nat
    BY <1>7, <1>8, ScaleAssumption
<1>11. BPS <= MintPrice[r][m]
    BY <1>8, <1>9, <1>10, DivLower, ScaleAssumption
<1> QED BY <1>5, <1>11, <1>1, ScaleAssumption

\* The mint premium only ever lowers the shares minted.
LEMMA ApplyMintPremiumFacts ==
    ASSUME NEW raw \in Nat, NEW rate \in PremiumRates,
           NEW start \in Nat, NEW t \in Nat, start <= t
    PROVE  /\ ApplyMintPremium(raw, rate, start, t) \in Nat
           /\ ApplyMintPremium(raw, rate, start, t) <= raw
<1> DEFINE y == PremiumYears(start, t)
           ask == MintPrice[rate][y]
<1>1. (t - start) \div MINT_PREMIUM_YEAR_SECONDS \in Nat
    BY DivFacts, MintPriceAssumption
<1>2. y \in 0..MAX_MINT_PREMIUM_YEARS
    BY <1>1, MintPriceAssumption DEF PremiumYears, MinOf
<1>3. ask \in Nat /\ ask >= BPS
    BY <1>2, MintPriceAtLeastPar
<1> HIDE DEF y, ask
<1>4. raw * BPS \in Nat /\ raw * BPS <= ask * raw /\ ask \in Nat \ {0}
    BY <1>3, MulMono, ScaleAssumption
<1>5. (raw * BPS) \div ask \in Nat /\ (raw * BPS) \div ask <= raw
    BY <1>4, DivFacts, DivUpper
<1> QED BY <1>5 DEF ApplyMintPremium, ask, y

\* Shares are minted at or above book: shares minted times the book never exceed the
\* value paid times the supply.
LEMMA PreviewDepositFacts ==
    ASSUME NEW value \in Nat, NEW sup \in Nat, NEW book0 \in Nat,
           NEW rate \in PremiumRates, NEW start \in Nat, NEW t \in Nat, start <= t
    PROVE  LET out == PreviewDeposit(value, sup, book0, rate, start, t)
           IN  /\ out \in Nat
               /\ book0 > 0 => out * book0 <= value * sup
               /\ book0 = 0 => out <= value
<1> DEFINE raw == PreviewDepositBook(value, sup, book0)
           out    == ApplyMintPremium(raw, rate, start, t)
<1>0. value * sup \in Nat
    OBVIOUS
<1>1. CASE book0 > 0
    <2>1. raw \in Nat /\ book0 * raw <= value * sup
        BY <1>0, <1>1, DivFacts DEF PreviewDepositBook
    <2>2. out \in Nat /\ out <= raw
        BY <2>1, ApplyMintPremiumFacts
    <2> HIDE DEF raw, out
    <2>3. out * book0 <= raw * book0
        BY <2>1, <2>2, MulMono
    <2>4. out * book0 <= value * sup
        BY <1>0, <2>1, <2>2, <2>3
    <2> QED BY <1>1, <2>2, <2>4 DEF PreviewDeposit, out, raw
<1>2. CASE book0 = 0
    <2>1. raw = value
        BY <1>2 DEF PreviewDepositBook
    <2>2. out \in Nat /\ out <= value
        BY <2>1, ApplyMintPremiumFacts
    <2> QED BY <1>2, <2>2 DEF PreviewDeposit
<1> QED BY <1>1, <1>2

\* The book removed with x shares is at most their exact part of the book.
LEMMA LiquidateValueFacts ==
    ASSUME NEW x \in Nat, NEW sup \in Nat, NEW book0 \in Nat
    PROVE  LET value == LiquidateValue(x, sup, book0)
           IN  /\ value \in Nat
               /\ value * sup <= x * book0
               /\ x <= sup => value <= book0
<1> DEFINE n == x * book0
           q == n \div sup
<1>1. CASE sup = 0
    BY <1>1 DEF LiquidateValue
<1>2. CASE sup > 0
    <2>1. n \in Nat
        OBVIOUS
    <2>2. q \in Nat /\ sup * q <= n
        BY <1>2, <2>1, DivFacts
    <2>3. ASSUME x <= sup PROVE q <= book0
        <3>1. n <= sup * book0
            BY <2>3, MulMono
        <3> QED BY <1>2, <2>1, <3>1, DivUpper
    <2> QED BY <1>2, <2>2, <2>3 DEF LiquidateValue
<1> QED BY <1>1, <1>2

\* A pro-rata part of a balance never exceeds the balance.
LEMMA LiquidateShareFacts ==
    ASSUME NEW balance \in Nat, NEW x \in Nat, NEW sup \in Nat, x <= sup
    PROVE  /\ LiquidateShare(balance, x, sup) \in Nat
           /\ LiquidateShare(balance, x, sup) <= balance
<1>1. CASE sup = 0
    BY <1>1 DEF LiquidateShare
<1>2. CASE sup > 0
    <2>1. balance * x \in Nat /\ balance * x <= sup * balance
        BY MulMono
    <2> QED BY <1>2, <2>1, DivFacts, DivUpper DEF LiquidateShare
<1> QED BY <1>1, <1>2

-------------------------------------------------------------------------------

\* The dividend index: it never falls, never reserves more than the cut, and what is
\* not reserved is exactly the dust that goes to the treasury.
LEMMA DistributeFacts ==
    ASSUME NEW acc \in Nat, NEW amount \in Nat, NEW eligible \in Nat
    PROVE  LET d == DistributeDividend(acc, amount, eligible)
           IN  /\ d.acc \in Nat /\ d.acc >= acc
               /\ d.reserved \in Nat /\ d.reserved <= amount
               /\ d.dust = amount - d.reserved
               /\ DistributeFits(acc, amount, eligible) /\ d.acc # acc
                    => d.acc * eligible <= MAX_U128
<1> DEFINE P   == DIVIDEND_PRECISION
           inc == IF eligible > 0 THEN (amount * P) \div eligible ELSE 0
           old == (eligible * acc) \div P
           new == (eligible * (acc + inc)) \div P
           res == SaturatingSub(new, old)
           d   == DistributeDividend(acc, amount, eligible)
<1>1. P \in Nat \ {0} /\ amount * P \in Nat
    BY ScaleAssumption
<1>2. inc \in Nat /\ eligible * inc <= amount * P
    BY <1>1, DivFacts
<1>3. d = IF inc = 0 \/ res = 0
          THEN [acc |-> acc, reserved |-> 0, dust |-> amount]
          ELSE [acc |-> acc + inc, reserved |-> res, dust |-> SaturatingSub(amount, res)]
    BY DEF DistributeDividend, Accumulated
<1>4. DistributeFits(acc, amount, eligible) => (inc > 0 => (acc + inc) * eligible <= MAX_U128)
    BY DEF DistributeFits
<1> HIDE DEF P, inc, d
<1>5. eligible * acc \in Nat /\ eligible * (acc + inc) \in Nat
    BY <1>2
<1>6. old \in Nat /\ new \in Nat /\ eligible * acc < P * old + P
    BY <1>1, <1>5, DivFacts
<1>7. eligible * (acc + inc) = eligible * acc + eligible * inc
    BY <1>2
<1>8. P * new <= eligible * (acc + inc)
    BY <1>1, <1>5, DivFacts
<1>9. P * new < P * (old + 1 + amount)
    BY <1>1, <1>2, <1>5, <1>6, <1>7, <1>8
<1>10. new < old + 1 + amount
    BY <1>1, <1>6, <1>9
<1> HIDE DEF old, new
<1>11. res \in Nat /\ res <= amount
    BY <1>6, <1>10 DEF SaturatingSub
<1>12. SaturatingSub(amount, res) = amount - res
    BY <1>11 DEF SaturatingSub
<1> HIDE DEF res
<1>13. CASE inc = 0 \/ res = 0
    BY <1>3, <1>13 DEF d
<1>14. CASE ~(inc = 0 \/ res = 0)
    BY <1>2, <1>3, <1>4, <1>11, <1>12, <1>14 DEF d
<1> QED BY <1>13, <1>14 DEF d

\* What a position accrues is a natural number.
LEMMA AccumulatedType ==
    ASSUME NEW amount \in Nat, NEW acc \in Nat
    PROVE  Accumulated(amount, acc) \in Nat
<1>1. amount * acc \in Nat
    OBVIOUS
<1> QED BY <1>1, DivFacts, ScaleAssumption DEF Accumulated

-------------------------------------------------------------------------------

\* The quote of a bribe: natural, with premium and discount inside the ask.
LEMMA PreviewBribeFacts ==
    ASSUME NEW x \in Nat, NEW sup \in Nat, NEW book0 \in Nat, NEW votes \in Nat,
           NEW cfg, cfg.quorum_bps \in Nat, cfg.bribe_premium_bps \in Nat,
           NEW p \in Nat \ {0}
    PROVE  LET q == PreviewBribe(x, sup, book0, votes, cfg, p)
           IN  /\ q.ask \in Nat /\ q.premium \in Nat /\ q.discount \in Nat
               /\ q.premium <= q.ask /\ q.discount <= q.ask
<1> DEFINE book     == SettlementAmount(LiquidateValue(x, sup, book0), p)
           half     == cfg.quorum_bps \div 2
           voteBps  == IF sup = 0 THEN 0 ELSE (votes * BPS) \div sup
           span     == IF half > 0 THEN half ELSE 1
           up       == (cfg.bribe_premium_bps * (half - voteBps)) \div span
           down     == (cfg.bribe_premium_bps * (voteBps - half)) \div span
           raised   == (book * (BPS + up)) \div BPS
           fullAsk  == IF down >= BPS THEN 0 ELSE (book * (BPS - down)) \div BPS
           discount == (book - fullAsk) \div 2
           q        == PreviewBribe(x, sup, book0, votes, cfg, p)
<1>0. q = IF voteBps < half
          THEN [ask |-> raised, premium |-> raised - book, discount |-> 0]
          ELSE [ask |-> book - discount, premium |-> 0, discount |-> discount]
    BY DEF PreviewBribe
<1>1. book \in Nat
    <2>1. LiquidateValue(x, sup, book0) \in Nat
        BY LiquidateValueFacts
    <2>2. LiquidateValue(x, sup, book0) * PRICE_UNIT \in Nat
        BY <2>1, ScaleAssumption
    <2> QED BY <2>2, DivFacts DEF SettlementAmount
<1>2. half \in Nat /\ span \in Nat \ {0}
    BY DivFacts
<1>3. voteBps \in Nat
    <2>1. votes * BPS \in Nat
        BY ScaleAssumption
    <2> QED BY <2>1, DivFacts
<1> HIDE DEF book, half, span, voteBps, q
<1>4. CASE voteBps < half
    <2>1. up \in Nat
        <3>1. cfg.bribe_premium_bps * (half - voteBps) \in Nat
            BY <1>2, <1>3, <1>4
        <3> QED BY <3>1, <1>2, DivFacts
    <2> HIDE DEF up
    <2>2. book * (BPS + up) \in Nat /\ BPS * book <= book * (BPS + up)
        BY <1>1, <2>1, ScaleAssumption
    <2>3. raised \in Nat /\ book <= raised
        BY <1>1, <2>2, DivFacts, DivLower, ScaleAssumption
    <2> HIDE DEF raised
    <2> QED BY <1>0, <1>1, <1>4, <2>3 DEF q
<1>5. CASE ~(voteBps < half)
    <2>1. down \in Nat
        <3>1. cfg.bribe_premium_bps * (voteBps - half) \in Nat
            BY <1>2, <1>3, <1>5
        <3> QED BY <3>1, <1>2, DivFacts
    <2> HIDE DEF down
    <2>2. fullAsk \in Nat /\ fullAsk <= book
        <3>1. CASE down >= BPS
            BY <1>1, <3>1
        <3>2. CASE ~(down >= BPS)
            <4>1. book * (BPS - down) \in Nat /\ book * (BPS - down) <= BPS * book
                BY <1>1, <2>1, <3>2, ScaleAssumption
            <4> QED BY <1>1, <3>2, <4>1, DivFacts, DivUpper, ScaleAssumption
        <3> QED BY <3>1, <3>2
    <2> HIDE DEF fullAsk
    <2>3. discount \in Nat /\ 2 * discount <= book
        BY <1>1, <2>2, DivFacts
    <2> HIDE DEF discount
    <2> QED BY <1>0, <1>1, <1>5, <2>3 DEF q
<1> QED BY <1>4, <1>5

\* The cut pool of a bribe is a part of the ask, so the voter's part is never negative.
LEMMA BribeCutPoolFacts ==
    ASSUME NEW q, q.ask \in Nat \ {0}, q.premium \in Nat, q.discount \in Nat,
           q.premium <= q.ask, q.discount <= q.ask
    PROVE  BribeCutPool(q) \in Nat /\ BribeCutPool(q) <= q.ask
<1> DEFINE ask  == q.ask
           body == (ask * (ask - q.premium)) \div ask
           cut  == (ask * q.discount) \div ask
<1>1. ask * (ask - q.premium) \in Nat /\ ask * q.discount \in Nat
    OBVIOUS
<1>2. body \in Nat /\ body <= ask
    <2>1. ask * (ask - q.premium) <= ask * ask
        OBVIOUS
    <2> QED BY <1>1, <2>1, DivFacts, DivUpper
<1>3. cut \in Nat /\ cut <= ask
    BY <1>1, DivFacts, DivUpper
<1>4. (ask - body) \div 2 \in Nat /\ (ask - body) \div 2 <= ask
    BY <1>2
<1> QED BY <1>3, <1>4 DEF BribeCutPool

\* The treasury share behind a claim covers the affiliates' slice of it.
LEMMA ClaimShareFacts ==
    ASSUME NEW claimed \in Nat, NEW cfg,
           cfg.dividend_cut_bps \in Nat \ {0}, cfg.treasury_cut_bps \in Nat,
           cfg.revenue_share_bps \in Nat, cfg.revenue_share_bps <= cfg.treasury_cut_bps
    PROVE  /\ GrossProfitShare(claimed, cfg) \in Nat
           /\ RevenueShare(claimed, cfg) \in Nat
           /\ RevenueShare(claimed, cfg) <= GrossProfitShare(claimed, cfg)
<1>1. claimed * cfg.treasury_cut_bps \in Nat /\ claimed * cfg.revenue_share_bps \in Nat
    OBVIOUS
<1>2. claimed * cfg.revenue_share_bps <= claimed * cfg.treasury_cut_bps
    OBVIOUS
<1> QED BY <1>1, <1>2, DivFacts, DivMono DEF GrossProfitShare, RevenueShare

-------------------------------------------------------------------------------
(* Sums over the users. *)

LEMMA UserTotals ==
    ASSUME NEW f \in [Users -> Nat], NEW u \in Users, NEW n \in Nat
    PROVE  /\ Total(f) \in Nat
           /\ f[u] <= Total(f)
           /\ Total([f EXCEPT ![u] = n]) = Total(f) - f[u] + n
<1>1. IsFiniteSet(Users)
    BY ParameterAssumption
<1> QED BY <1>1, TotalUpdate

-------------------------------------------------------------------------------
(* Facts about the parts of the state. *)

\* What validate_protocol_config guarantees of the configuration in force.
LEMMA ConfigFacts ==
    ASSUME OwnerType
    PROVE  /\ config.dividend_cut_bps \in Nat \ {0} /\ config.dividend_cut_bps <= BPS
           /\ config.treasury_cut_bps \in Nat
           /\ config.revenue_share_bps \in Nat
           /\ config.revenue_share_bps <= config.treasury_cut_bps
           /\ config.quorum_bps \in Nat /\ config.bribe_premium_bps \in Nat
           /\ config.unlock_penalty_bps \in Nat /\ config.unlock_penalty_bps <= BPS
           /\ config.poach_fee_bps \in Nat /\ config.poach_fee_bps <= BPS
           /\ config.liquidation_period \in Nat /\ config.redeem_period \in Nat
           /\ config.mint_premium_bps_per_year \in PremiumRates
           /\ shares[1] \in Nat /\ shares[2] \in Nat /\ shares[1] + shares[2] = BPS
<1>1. config \in Config /\ config.mint_premium_bps_per_year \in PremiumRates
    BY ConfigAssumption DEF OwnerType
<1>2. /\ config.dividend_cut_bps \in Nat /\ config.treasury_cut_bps \in Nat
      /\ config.revenue_share_bps \in Nat
      /\ config.quorum_bps \in Nat /\ config.bribe_premium_bps \in Nat
      /\ config.unlock_penalty_bps \in Nat /\ config.poach_fee_bps \in Nat
      /\ config.liquidation_period \in Nat /\ config.redeem_period \in Nat
    BY <1>1 DEF Config
<1>3. shares[1] \in Nat /\ shares[2] \in Nat /\ shares[1] + shares[2] = BPS
    BY ParameterAssumption DEF OwnerType
<1> QED BY <1>1, <1>2, <1>3, ConfigAssumption, ScaleAssumption DEF OwnerType, ValidConfig

\* Inputs and prices are natural numbers.
LEMMA InputFacts ==
    /\ DepositAmounts \subseteq Nat /\ GraiAmounts \subseteq Nat /\ YieldAmounts \subseteq Nat
    /\ ClaimAmounts \subseteq Nat /\ SweepAmounts \subseteq Nat /\ SendAmounts \subseteq Nat
    /\ BurnAmounts \subseteq Nat /\ Prices \subseteq Nat
BY ParameterAssumption

\* The fields of an asset and of a position.
LEMMA FieldFacts ==
    ASSUME AssetType, PositionType
    PROVE  /\ \A a \in Assets : /\ asset[a] \in AssetConfig
                                /\ asset[a].listed \in BOOLEAN
                                /\ asset[a].acc_share \in Nat
                                /\ asset[a].total_claimable \in Nat
                                /\ vault[a] \in Nat /\ treasury[a] \in Nat
           /\ \A u \in Users, a \in Assets : position[u][a] \in Position
BY DEF AssetType, PositionType, AssetConfig

\* settle returns a position.
LEMMA SettleType ==
    ASSUME NEW pos \in Position, NEW acc \in Nat, NEW old \in Nat, NEW new \in Nat
    PROVE  Settle(pos, acc, old, new) \in Position
<1> DEFINE base == IF pos.exists THEN old ELSE 0
<1>1. base \in Nat /\ pos.debt \in Nat /\ pos.claimable \in Nat
    BY DEF Position
<1>2. Accumulated(new, acc) \in Nat /\ Accumulated(base, acc) \in Nat
    BY <1>1, AccumulatedType
<1>3. SaturatingSub(Accumulated(base, acc), pos.debt) \in Nat
    BY <1>1, <1>2, SaturatingFacts
<1> QED BY <1>1, <1>2, <1>3 DEF Settle, Position

\* Settling all assets of a user keeps positions well formed.
LEMMA SettleAllType ==
    ASSUME AssetType, PositionType, NEW u \in Users, NEW old \in Nat, NEW new \in Nat,
           SettleAll(u, old, new)
    PROVE  PositionType'
<1> DEFINE settled == [a \in Assets |-> IF asset[a].listed
                                        THEN Settle(position[u][a], asset[a].acc_share, old, new)
                                        ELSE position[u][a]]
<1>1. \A a \in Assets : settled[a] \in Position
    BY FieldFacts, SettleType
<1>2. settled \in [Assets -> Position]
    BY <1>1
<1>3. position' = [position EXCEPT ![u] = settled]
    BY DEF SettleAll
<1> HIDE DEF settled
<1> QED BY <1>2, <1>3 DEF PositionType

\* The effect of perform_lock, as far as types and totals go.
LEMMA PerformLockFacts ==
    ASSUME TypeOK, NEW u \in Users, NEW x \in Nat, PerformLock(u, x)
    PROVE  /\ PositionType'
           /\ lockers' \in [Users -> Nat]
           /\ totalLocked' = totalLocked + x
           /\ locked' = [locked EXCEPT ![u] = @ + x]
           /\ graiVault' = graiVault + x
<1>1. locked[u] \in Nat /\ locked[u] + x \in Nat
    BY DEF TypeOK, EscrowType
<1>2. PositionType'
    BY <1>1, SettleAllType DEF PerformLock, TypeOK
<1> QED BY <1>2 DEF PerformLock, Push, TypeOK, EscrowType

\* The effect of shrinking a lock.
LEMMA ShrinkLockFacts ==
    ASSUME TypeOK, NEW u \in Users, NEW x \in Nat, x <= locked[u], ShrinkLock(u, x)
    PROVE  /\ PositionType'
           /\ lockers' \in [Users -> Nat] /\ voters' \in [Users -> Nat]
           /\ totalLocked' = totalLocked - x /\ totalLocked' \in Nat
           /\ locked' = [locked EXCEPT ![u] = @ - x] /\ locked' \in [Users -> Nat]
           /\ \E kept \in Nat : /\ kept <= voted[u] /\ kept <= locked[u] - x
                               /\ totalVoted' = totalVoted - (voted[u] - kept)
                               /\ totalVoted' \in Nat
                               /\ voted' = [voted EXCEPT ![u] = kept]
                               /\ voted' \in [Users -> Nat]
<1>1. locked[u] \in Nat /\ locked[u] - x \in Nat /\ voted[u] \in Nat
    BY DEF TypeOK, EscrowType
<1>2. PositionType'
    BY <1>1, SettleAllType DEF ShrinkLock, TypeOK
<1>3. totalLocked' = totalLocked - x /\ totalLocked' \in Nat
    BY DEF ShrinkLock, TypeOK, EscrowType
<1>4. locked' = [locked EXCEPT ![u] = @ - x] /\ locked' \in [Users -> Nat]
    BY <1>1 DEF ShrinkLock, TypeOK, EscrowType
<1>5. \A list \in [Users -> Nat] : RemoveFromList(list, u) \in [Users -> Nat]
    BY SaturatingFacts DEF RemoveFromList
<1>6. lockers' \in [Users -> Nat] /\ voters' \in [Users -> Nat]
    BY <1>5 DEF ShrinkLock, ClampVote, TypeOK, EscrowType
<1>7. \E kept \in Nat : /\ kept <= voted[u] /\ kept <= locked[u] - x
                        /\ totalVoted' = totalVoted - (voted[u] - kept)
                        /\ totalVoted' \in Nat
                        /\ voted' = [voted EXCEPT ![u] = kept]
                        /\ voted' \in [Users -> Nat]
    <2> DEFINE kept == MinOf(voted[u], locked[u] - x)
    <2>1. kept \in Nat /\ kept <= voted[u] /\ kept <= locked[u] - x
        BY <1>1, SaturatingFacts
    <2>2. /\ totalVoted >= voted[u] - kept
          /\ totalVoted' = totalVoted - (voted[u] - kept)
          /\ voted' = [voted EXCEPT ![u] = kept]
        BY DEF ShrinkLock, ClampVote
    <2> HIDE DEF kept
    <2>3. totalVoted' \in Nat
        BY <1>1, <2>1, <2>2 DEF TypeOK, EscrowType
    <2>4. voted' \in [Users -> Nat]
        BY <2>1, <2>2 DEF TypeOK, EscrowType
    <2> QED BY <2>1, <2>2, <2>3, <2>4
<1> QED BY <1>2, <1>3, <1>4, <1>6, <1>7

-------------------------------------------------------------------------------
(* Type correctness. *)

\* What a dividend cut does to the asset's record.
LEMMA CreditedType ==
    ASSUME AssetType, NEW a \in Assets, NEW d, d.acc \in Nat, d.reserved \in Nat
    PROVE  Credited(a, d) \in [Assets -> AssetConfig]
<1>1. asset[a].total_claimable + d.reserved \in Nat
    BY DEF AssetType, AssetConfig
<1> QED BY <1>1 DEF Credited, AssetType, AssetConfig

\* What is paid out of a treasury vault behind a claim is in the vault.
LEMMA PayoutFacts ==
    ASSUME OwnerType, AssetType, NEW a \in Assets, NEW claimed \in Nat,
           NEW paid \in TreasuryPayouts(a, claimed)
    PROVE  paid \in Nat /\ paid <= treasury[a]
<1> DEFINE gross   == GrossProfitShare(claimed, config)
           revenue == RevenueShare(claimed, config)
           s1      == BpsOf(revenue, shares[1])
           s2      == BpsOf(revenue, shares[2])
<1>1. gross \in Nat /\ revenue \in Nat /\ revenue <= gross
    BY ConfigFacts, ClaimShareFacts
<1> HIDE DEF gross, revenue
<1>2. s1 \in Nat /\ s2 \in Nat
    BY <1>1, ConfigFacts, BpsOfFacts
<1>3. s1 + s2 <= revenue
    BY <1>1, ConfigFacts, SplitFacts
<1>4. treasury[a] \in Nat
    BY DEF AssetType
<1>5. paid \in IF treasury[a] < gross THEN {0}
               ELSE {0, s1, s2, s1 + s2} \cup {gross - r : r \in {0, s1, s2, s1 + s2}}
    BY DEF TreasuryPayouts, gross, revenue
<1> HIDE DEF s1, s2
<1> QED BY <1>1, <1>2, <1>3, <1>4, <1>5

\* What a claim finds and may pay.
LEMMA ClaimedFacts ==
    ASSUME TypeOK, NEW u \in Users, NEW a \in Assets, NEW x \in Nat
    PROVE  /\ ClaimPosition(u, a) \in Position
           /\ Claimed(u, a, x) \in Nat
           /\ Claimed(u, a, x) <= ClaimPosition(u, a).claimable
           /\ Claimed(u, a, x) <= vault[a]
           /\ Claimed(u, a, x) <= asset[a].total_claimable
<1>1. /\ position[u][a] \in Position /\ asset[a].acc_share \in Nat
      /\ vault[a] \in Nat /\ asset[a].total_claimable \in Nat
    BY FieldFacts DEF TypeOK
<1>2. locked[u] \in Nat
    BY DEF TypeOK, EscrowType
<1>3. ClaimPosition(u, a) \in Position
    BY <1>1, <1>2, SettleType DEF ClaimPosition
<1>4. ClaimPosition(u, a).claimable \in Nat
    BY <1>3 DEF Position
<1> QED BY <1>1, <1>3, <1>4 DEF Claimed, MinOf

\* Actions that change only one part of the state.
LEMMA UnchangedTypes ==
    /\ OwnerType /\ UNCHANGED ownerVars => OwnerType'
    /\ EnvType /\ UNCHANGED envVars => EnvType'
    /\ GraiType /\ UNCHANGED graiVars => GraiType'
    /\ EscrowType /\ UNCHANGED escrowVars => EscrowType'
    /\ BookType /\ UNCHANGED <<totalValue, liqVars>> => BookType'
    /\ AssetType /\ UNCHANGED assetVars => AssetType'
    /\ PositionType /\ UNCHANGED position => PositionType'
BY DEF OwnerType, EnvType, GraiType, EscrowType, BookType, AssetType, PositionType,
       ownerVars, envVars, graiVars, escrowVars, liqVars, assetVars, ValidConfig

\* deposit keeps every account field in its type.
LEMMA DepositType ==
    ASSUME TypeOK, NEW u \in Users, NEW a \in Assets, NEW x \in DepositAmounts,
           NEW lock \in BOOLEAN, Deposit(u, a, x, lock)
    PROVE  TypeOK'
<1> DEFINE value == UsdValue(x, price[a])
           out   == PreviewDeposit(value, supply, totalValue,
                                   config.mint_premium_bps_per_year, Genesis, now)
<1>1. x \in Nat /\ price[a] \in Nat
    BY InputFacts DEF TypeOK, EnvType
<1>2. value \in Nat
    <2>1. x * price[a] \in Nat
        BY <1>1
    <2> QED BY <2>1, DivFacts, ScaleAssumption DEF UsdValue
<1> HIDE DEF value
<1>3. out \in Nat
    BY <1>2, ConfigFacts, PreviewDepositFacts DEF TypeOK, GraiType, BookType, EnvType, Genesis
<1>4. /\ supply' = supply + out /\ totalValue' = totalValue + value
      /\ opened' = [opened EXCEPT ![u] = TRUE]
      /\ UNCHANGED <<ownerVars, envVars, grindersGrai, voted, voters, totalVoted, liqVars, assetVars>>
      /\ \/ PerformLock(u, out) /\ UNCHANGED wallet
         \/ /\ wallet' = [wallet EXCEPT ![u] = @ + out]
            /\ UNCHANGED <<position, lockers, totalLocked, locked, graiVault>>
    BY DEF Deposit, value
<1> HIDE DEF out
<1>5. OwnerType' /\ EnvType' /\ AssetType'
    BY <1>4, UnchangedTypes DEF TypeOK
<1>6. BookType'
    BY <1>2, <1>4 DEF TypeOK, BookType, liqVars
<1>7. CASE PerformLock(u, out) /\ UNCHANGED wallet
    <2>1. /\ PositionType' /\ lockers' \in [Users -> Nat] /\ totalLocked' = totalLocked + out
          /\ locked' = [locked EXCEPT ![u] = @ + out] /\ graiVault' = graiVault + out
        BY <1>3, <1>7, PerformLockFacts
    <2>2. GraiType'
        BY <1>3, <1>4, <1>7, <2>1 DEF TypeOK, GraiType
    <2>3. EscrowType'
        BY <1>3, <1>4, <2>1 DEF TypeOK, EscrowType
    <2> QED BY <1>5, <1>6, <2>1, <2>2, <2>3 DEF TypeOK
<1>8. CASE /\ wallet' = [wallet EXCEPT ![u] = @ + out]
           /\ UNCHANGED <<position, lockers, totalLocked, locked, graiVault>>
    <2>1. GraiType'
        BY <1>3, <1>4, <1>8 DEF TypeOK, GraiType
    <2>2. EscrowType'
        BY <1>4, <1>8 DEF TypeOK, EscrowType
    <2>3. PositionType'
        BY <1>8, UnchangedTypes DEF TypeOK
    <2> QED BY <1>5, <1>6, <2>1, <2>2, <2>3 DEF TypeOK
<1> QED BY <1>4, <1>7, <1>8

\* lock keeps every account field in its type.
LEMMA LockType ==
    ASSUME TypeOK, NEW u \in Users, NEW x \in GraiAmounts, Lock(u, x)
    PROVE  TypeOK'
<1>1. x \in Nat /\ wallet[u] \in Nat /\ wallet[u] >= x
    BY InputFacts DEF TypeOK, GraiType, Lock
<1>2. /\ PositionType' /\ lockers' \in [Users -> Nat] /\ totalLocked' = totalLocked + x
      /\ locked' = [locked EXCEPT ![u] = @ + x] /\ graiVault' = graiVault + x
    BY <1>1, PerformLockFacts DEF Lock
<1>3. OwnerType' /\ EnvType' /\ AssetType' /\ BookType'
    BY UnchangedTypes DEF TypeOK, Lock
<1>4. GraiType'
    BY <1>1, <1>2 DEF TypeOK, GraiType, Lock
<1>5. EscrowType'
    BY <1>1, <1>2 DEF TypeOK, EscrowType, Lock
<1> QED BY <1>2, <1>3, <1>4, <1>5 DEF TypeOK

\* unlock keeps every account field in its type.
LEMMA UnlockType ==
    ASSUME TypeOK, NEW u \in Users, NEW x \in GraiAmounts, Unlock(u, x)
    PROVE  TypeOK'
<1> DEFINE penalty == UnlockPenalty(x, config.unlock_penalty_bps)
<1>1. x \in Nat /\ x <= locked[u]
    BY InputFacts DEF Unlock
<1>2. penalty \in Nat /\ penalty <= x
    BY <1>1, ConfigFacts, UnlockPenaltyFacts DEF TypeOK
<1>3. /\ ShrinkLock(u, x) /\ graiVault >= x /\ graiVault' = graiVault - x
      /\ wallet' = [wallet EXCEPT ![u] = @ + (x - penalty)]
      /\ grindersGrai' = grindersGrai + penalty
      /\ UNCHANGED <<ownerVars, envVars, supply, opened, totalValue, liqVars, assetVars>>
    BY DEF Unlock
<1> HIDE DEF penalty
<1>4. /\ PositionType' /\ lockers' \in [Users -> Nat] /\ voters' \in [Users -> Nat]
      /\ totalLocked' \in Nat /\ locked' \in [Users -> Nat]
      /\ totalVoted' \in Nat /\ voted' \in [Users -> Nat]
    BY <1>1, <1>3, ShrinkLockFacts
<1>5. OwnerType' /\ EnvType' /\ AssetType' /\ BookType'
    BY <1>3, UnchangedTypes DEF TypeOK
<1>6. GraiType'
    BY <1>1, <1>2, <1>3 DEF TypeOK, GraiType
<1>7. EscrowType'
    BY <1>3, <1>4 DEF TypeOK, EscrowType
<1> QED BY <1>4, <1>5, <1>6, <1>7 DEF TypeOK

\* vote keeps every account field in its type.
LEMMA VoteType ==
    ASSUME TypeOK, NEW u \in Users, NEW x \in GraiAmounts, Vote(u, x)
    PROVE  TypeOK'
<1> DEFINE shortfall == SaturatingSub(voted[u] + x, locked[u])
<1>1. x \in Nat /\ voted[u] \in Nat /\ locked[u] \in Nat /\ wallet[u] \in Nat
    BY InputFacts DEF TypeOK, EscrowType, GraiType
<1>2. shortfall \in Nat
    BY <1>1 DEF SaturatingSub
<1>3. /\ \/ /\ wallet[u] >= shortfall
            /\ PerformLock(u, shortfall)
            /\ wallet' = [wallet EXCEPT ![u] = @ - shortfall]
         \/ /\ SettleAll(u, locked[u], locked[u])
            /\ UNCHANGED <<lockers, totalLocked, locked, graiVault, wallet>>
      /\ opened' = [opened EXCEPT ![u] = TRUE]
      /\ voters' = IF voted[u] = 0 THEN Push(voters, u) ELSE voters
      /\ totalVoted' = totalVoted + x
      /\ voted' = [voted EXCEPT ![u] = @ + x]
      /\ UNCHANGED <<ownerVars, envVars, supply, grindersGrai, totalValue, liqVars, assetVars>>
    BY DEF Vote
<1> HIDE DEF shortfall
<1>4. OwnerType' /\ EnvType' /\ AssetType' /\ BookType'
    BY <1>3, UnchangedTypes DEF TypeOK
<1>5. PositionType' /\ GraiType' /\ lockers' \in [Users -> Nat] /\ totalLocked' \in Nat
      /\ locked' \in [Users -> Nat]
    <2>1. CASE /\ wallet[u] >= shortfall
               /\ PerformLock(u, shortfall)
               /\ wallet' = [wallet EXCEPT ![u] = @ - shortfall]
        <3>1. /\ PositionType' /\ lockers' \in [Users -> Nat]
              /\ totalLocked' = totalLocked + shortfall
              /\ locked' = [locked EXCEPT ![u] = @ + shortfall]
              /\ graiVault' = graiVault + shortfall
            BY <1>2, <2>1, PerformLockFacts
        <3> QED BY <1>1, <1>2, <1>3, <2>1, <3>1 DEF TypeOK, GraiType, EscrowType
    <2>2. CASE /\ SettleAll(u, locked[u], locked[u])
               /\ UNCHANGED <<lockers, totalLocked, locked, graiVault, wallet>>
        <3>1. PositionType'
            BY <1>1, <2>2, SettleAllType DEF TypeOK
        <3> QED BY <1>3, <2>2, <3>1 DEF TypeOK, GraiType, EscrowType
    <2> QED BY <1>3, <2>1, <2>2
<1>6. voters' \in [Users -> Nat] /\ voted' \in [Users -> Nat] /\ totalVoted' \in Nat
    BY <1>1, <1>3 DEF TypeOK, EscrowType, Push
<1>7. opened' \in [Users -> BOOLEAN]
    BY <1>3, Zenon DEF TypeOK, EscrowType
<1>8. EscrowType'
    BY <1>5, <1>6, <1>7 DEF EscrowType
<1> QED BY <1>4, <1>5, <1>8 DEF TypeOK

\* A bribe: the vault keeps what the cut reserves, the treasury takes the rest of the pool.
LEMMA BribeFacts ==
    ASSUME TypeOK, NEW b \in Users, NEW u \in Users, NEW a \in Assets, NEW x \in GraiAmounts,
           Bribe(b, u, a, x)
    PROVE  \E pool, cut \in Nat :
             LET d == DistributeDividend(asset[a].acc_share, cut, totalLocked - x)
             IN  /\ cut <= pool
                 /\ DistributeFits(asset[a].acc_share, cut, totalLocked - x)
                 /\ asset' = Credited(a, d)
                 /\ vault' = [vault EXCEPT ![a] = @ + d.reserved]
                 /\ treasury' = [treasury EXCEPT ![a] = @ + (pool - d.reserved)]
<1> DEFINE quote == PreviewBribe(x, supply, totalValue, totalVoted, config, price[a])
           pool  == BribeCutPool(quote)
           cut   == DividendCut(pool, config)
           d     == DistributeDividend(asset[a].acc_share, cut, totalLocked - x)
           out   == (pool - cut) + d.dust + (quote.ask - pool)
<1>1. price[a] > 0 /\ totalLocked >= x
    BY DEF Bribe
<1>2. quote.ask > 0
    BY DEF Bribe
<1>3. /\ DistributeFits(asset[a].acc_share, cut, totalLocked - x)
      /\ asset' = Credited(a, d)
      /\ vault' = [vault EXCEPT ![a] = @ + quote.ask - out]
      /\ treasury' = [treasury EXCEPT ![a] = @ + (pool - cut) + d.dust]
    BY DEF Bribe
<1>4. x \in Nat /\ price[a] \in Nat \ {0}
    <2>1. x \in Nat /\ price[a] \in Nat
        BY InputFacts DEF TypeOK, EnvType
    <2> QED BY <1>1, <2>1
<1>5. asset[a].acc_share \in Nat /\ vault[a] \in Nat /\ treasury[a] \in Nat
    BY FieldFacts DEF TypeOK
<1>6. totalLocked - x \in Nat
    BY <1>1, <1>4 DEF TypeOK, EscrowType
<1>7. /\ quote.ask \in Nat /\ quote.premium \in Nat /\ quote.discount \in Nat
      /\ quote.premium <= quote.ask /\ quote.discount <= quote.ask
    <2>1. supply \in Nat /\ totalValue \in Nat /\ totalVoted \in Nat
        BY DEF TypeOK, GraiType, BookType, EscrowType
    <2>2. config.quorum_bps \in Nat /\ config.bribe_premium_bps \in Nat
        BY ConfigFacts DEF TypeOK
    <2> QED BY <1>4, <2>1, <2>2, PreviewBribeFacts
<1> HIDE DEF quote
<1>8. pool \in Nat /\ pool <= quote.ask
    BY <1>2, <1>7, BribeCutPoolFacts
<1> HIDE DEF pool
<1>9. cut \in Nat /\ cut <= pool
    BY <1>8, ConfigFacts, BpsOfFacts DEF DividendCut, TypeOK
<1> HIDE DEF cut
<1>10. d.reserved \in Nat /\ d.reserved <= cut /\ d.dust = cut - d.reserved
    BY <1>5, <1>6, <1>9, DistributeFacts
<1> HIDE DEF d
<1>11. vault[a] + quote.ask - out = vault[a] + d.reserved
    BY <1>5, <1>7, <1>8, <1>9, <1>10
<1>12. treasury[a] + (pool - cut) + d.dust = treasury[a] + (pool - d.reserved)
    BY <1>5, <1>8, <1>9, <1>10
<1>13. vault' = [vault EXCEPT ![a] = @ + d.reserved]
    BY <1>3, <1>11
<1>14. treasury' = [treasury EXCEPT ![a] = @ + (pool - d.reserved)]
    BY <1>3, <1>12
<1> QED BY <1>3, <1>8, <1>9, <1>13, <1>14 DEF d

\* bribe keeps every account field in its type.
LEMMA BribeType ==
    ASSUME TypeOK, NEW b \in Users, NEW u \in Users, NEW a \in Assets, NEW x \in GraiAmounts,
           Bribe(b, u, a, x)
    PROVE  TypeOK'
<1>1. /\ x <= voted[u] /\ x <= locked[u] /\ totalVoted >= x /\ totalLocked >= x /\ graiVault >= x
      /\ SettleAll(u, locked[u], locked[u] - x)
      /\ voted' = [voted EXCEPT ![u] = @ - x]
      /\ locked' = [locked EXCEPT ![u] = @ - x]
      /\ totalVoted' = totalVoted - x /\ totalLocked' = totalLocked - x
      /\ graiVault' = graiVault - x
      /\ wallet' = [wallet EXCEPT ![b] = @ + x]
      /\ voters' = IF voted[u] = x THEN RemoveFromList(voters, u) ELSE voters
      /\ lockers' = IF locked[u] = x THEN RemoveFromList(lockers, u) ELSE lockers
      /\ UNCHANGED <<ownerVars, envVars, supply, grindersGrai, opened, totalValue, liqVars>>
    BY DEF Bribe
<1>2. x \in Nat /\ locked[u] \in Nat /\ voted[u] \in Nat /\ wallet[b] \in Nat
    BY InputFacts DEF TypeOK, EscrowType, GraiType
<1>3. OwnerType' /\ EnvType' /\ BookType'
    BY <1>1, UnchangedTypes DEF TypeOK
<1>4. PositionType'
    BY <1>1, <1>2, SettleAllType DEF TypeOK
<1>5. GraiType'
    BY <1>1, <1>2 DEF TypeOK, GraiType
<1>6. \A list \in [Users -> Nat] : RemoveFromList(list, u) \in [Users -> Nat]
    BY SaturatingFacts DEF RemoveFromList
<1>7. EscrowType'
    <2>1. voters' \in [Users -> Nat] /\ lockers' \in [Users -> Nat]
        BY <1>1, <1>6 DEF TypeOK, EscrowType
    <2>2. voted' \in [Users -> Nat] /\ locked' \in [Users -> Nat]
        BY <1>1, <1>2 DEF TypeOK, EscrowType
    <2> QED BY <1>1, <1>2, <2>1, <2>2 DEF TypeOK, EscrowType
<1>8. AssetType'
    <2>1. PICK pool, cut \in Nat :
             LET d == DistributeDividend(asset[a].acc_share, cut, totalLocked - x)
             IN  /\ cut <= pool
                 /\ DistributeFits(asset[a].acc_share, cut, totalLocked - x)
                 /\ asset' = Credited(a, d)
                 /\ vault' = [vault EXCEPT ![a] = @ + d.reserved]
                 /\ treasury' = [treasury EXCEPT ![a] = @ + (pool - d.reserved)]
        BY BribeFacts
    <2> DEFINE d == DistributeDividend(asset[a].acc_share, cut, totalLocked - x)
    <2>2. totalLocked - x \in Nat /\ asset[a].acc_share \in Nat
        BY <1>1, <1>2, FieldFacts DEF TypeOK, EscrowType
    <2>3. d.acc \in Nat /\ d.reserved \in Nat /\ d.reserved <= cut
        BY <2>2, DistributeFacts
    <2>4. /\ asset' = Credited(a, d)
          /\ vault' = [vault EXCEPT ![a] = @ + d.reserved]
          /\ treasury' = [treasury EXCEPT ![a] = @ + (pool - d.reserved)]
        BY <2>1
    <2> HIDE DEF d
    <2>5. asset' \in [Assets -> AssetConfig]
        BY <2>3, <2>4, CreditedType DEF TypeOK
    <2>6. vault' \in [Assets -> Nat] /\ treasury' \in [Assets -> Nat]
        BY <2>1, <2>3, <2>4 DEF TypeOK, AssetType
    <2> QED BY <2>5, <2>6 DEF AssetType
<1> QED BY <1>3, <1>4, <1>5, <1>7, <1>8 DEF TypeOK

\* poach's payment keeps every account field in its type.
LEMMA PoachPaymentType ==
    ASSUME TypeOK, NEW b \in Users, NEW s \in Users, NEW x \in SendAmounts, PoachPayment(b, s, x)
    PROVE  TypeOK'
<1> DEFINE fee == BpsCeil(x, config.poach_fee_bps)
<1>1. x \in Nat
    BY InputFacts
<1>2. fee \in Nat /\ fee <= x
    BY <1>1, ConfigFacts, BpsCeilFacts DEF TypeOK
<1>3. /\ b # s /\ x <= wallet[b]
      /\ wallet' = [wallet EXCEPT ![b] = @ - x, ![s] = @ + (x - fee)]
      /\ grindersGrai' = grindersGrai + fee
      /\ UNCHANGED <<ownerVars, envVars, supply, graiVault, escrowVars, totalValue, liqVars,
                     assetVars, position>>
    BY DEF PoachPayment
<1> HIDE DEF fee
<1>4. GraiType'
    BY <1>1, <1>2, <1>3 DEF TypeOK, GraiType
<1> QED BY <1>3, <1>4, UnchangedTypes DEF TypeOK

\* A distribution: the vault keeps what the cut reserves, the treasury takes the rest.
LEMMA DistributeActionFacts ==
    ASSUME TypeOK, NEW c \in Users \cup {Outsider}, NEW a \in Assets, NEW y \in YieldAmounts, Distribute(c, a, y)
    PROVE  \E cut \in Nat :
             LET d == DistributeDividend(asset[a].acc_share, cut, totalLocked)
             IN  /\ y \in Nat /\ cut <= y
                 /\ DistributeFits(asset[a].acc_share, cut, totalLocked)
                 /\ asset' = Credited(a, d)
                 /\ vault' = [vault EXCEPT ![a] = @ + d.reserved]
                 /\ treasury' = [treasury EXCEPT ![a] = @ + (y - d.reserved)]
<1> DEFINE cut == DividendCut(y, config)
           d   == DistributeDividend(asset[a].acc_share, cut, totalLocked)
<1>1. /\ DistributeFits(asset[a].acc_share, cut, totalLocked)
      /\ asset' = Credited(a, d)
      /\ vault' = [vault EXCEPT ![a] = @ + cut - d.dust]
      /\ treasury' = [treasury EXCEPT ![a] = @ + (y - cut) + d.dust]
    BY DEF Distribute
<1>2. y \in Nat
    BY InputFacts
<1>3. cut \in Nat /\ cut <= y
    BY <1>2, ConfigFacts, BpsOfFacts DEF DividendCut, TypeOK
<1> HIDE DEF cut
<1>4. totalLocked \in Nat
    BY DEF TypeOK, EscrowType
<1>5. asset[a].acc_share \in Nat /\ vault[a] \in Nat /\ treasury[a] \in Nat
    BY FieldFacts DEF TypeOK
<1>6. d.reserved \in Nat /\ d.reserved <= cut /\ d.dust = cut - d.reserved
    BY <1>3, <1>4, <1>5, DistributeFacts
<1> HIDE DEF d
<1>7. vault[a] + cut - d.dust = vault[a] + d.reserved
    BY <1>3, <1>5, <1>6
<1>8. treasury[a] + (y - cut) + d.dust = treasury[a] + (y - d.reserved)
    BY <1>2, <1>3, <1>5, <1>6
<1>9. vault' = [vault EXCEPT ![a] = @ + d.reserved]
    BY <1>1, <1>7
<1>10. treasury' = [treasury EXCEPT ![a] = @ + (y - d.reserved)]
    BY <1>1, <1>8
<1> QED BY <1>1, <1>2, <1>3, <1>9, <1>10 DEF d

\* distribute keeps every account field in its type.
LEMMA DistributeType ==
    ASSUME TypeOK, NEW c \in Users \cup {Outsider}, NEW a \in Assets, NEW y \in YieldAmounts, Distribute(c, a, y)
    PROVE  TypeOK'
<1>1. UNCHANGED <<ownerVars, envVars, graiVars, escrowVars, totalValue, liqVars>>
    BY DEF Distribute
<1>2. PositionType'
    <2>1. position' = IF c \in Users THEN [position EXCEPT ![c][a].exists = TRUE] ELSE position
        BY DEF Distribute
    <2>2. ASSUME c \in Users PROVE [position[c][a] EXCEPT !.exists = TRUE] \in Position
        <3>1. position[c][a] \in Position
            BY <2>2, FieldFacts DEF TypeOK
        <3> QED BY <3>1 DEF Position
    <2> QED BY <2>1, <2>2 DEF TypeOK, PositionType
<1>3. PICK cut \in Nat :
         LET d == DistributeDividend(asset[a].acc_share, cut, totalLocked)
         IN  /\ y \in Nat /\ cut <= y
             /\ DistributeFits(asset[a].acc_share, cut, totalLocked)
             /\ asset' = Credited(a, d)
             /\ vault' = [vault EXCEPT ![a] = @ + d.reserved]
             /\ treasury' = [treasury EXCEPT ![a] = @ + (y - d.reserved)]
    BY DistributeActionFacts
<1> DEFINE d == DistributeDividend(asset[a].acc_share, cut, totalLocked)
<1>4. totalLocked \in Nat /\ asset[a].acc_share \in Nat
    BY FieldFacts DEF TypeOK, EscrowType
<1>5. d.acc \in Nat /\ d.reserved \in Nat /\ d.reserved <= cut
    BY <1>4, DistributeFacts
<1>6. /\ asset' = Credited(a, d)
      /\ vault' = [vault EXCEPT ![a] = @ + d.reserved]
      /\ treasury' = [treasury EXCEPT ![a] = @ + (y - d.reserved)]
    BY <1>3
<1> HIDE DEF d
<1>7. asset' \in [Assets -> AssetConfig]
    BY <1>5, <1>6, CreditedType DEF TypeOK
<1>8. vault' \in [Assets -> Nat] /\ treasury' \in [Assets -> Nat]
    BY <1>3, <1>5, <1>6 DEF TypeOK, AssetType
<1>9. AssetType'
    BY <1>7, <1>8 DEF AssetType
<1> QED BY <1>1, <1>2, <1>9, UnchangedTypes DEF TypeOK

\* claim keeps every account field in its type.
LEMMA ClaimType ==
    ASSUME TypeOK, NEW u \in Users, NEW a \in Assets, NEW x \in ClaimAmounts, Claim(u, a, x)
    PROVE  TypeOK'
<1> DEFINE pos     == ClaimPosition(u, a)
           claimed == Claimed(u, a, x)
<1>1. /\ pos \in Position /\ claimed \in Nat /\ claimed <= pos.claimable
      /\ claimed <= vault[a] /\ claimed <= asset[a].total_claimable
    BY InputFacts, ClaimedFacts
<1>2. /\ position' = [position EXCEPT ![u][a] = [pos EXCEPT !.claimable = @ - claimed]]
      /\ vault' = [vault EXCEPT ![a] = @ - claimed]
      /\ asset' = [asset EXCEPT ![a].total_claimable = SaturatingSub(@, claimed)]
      /\ UNCHANGED <<ownerVars, envVars, graiVars, escrowVars, totalValue, liqVars>>
    BY DEF Claim
<1>3. PICK paid \in TreasuryPayouts(a, claimed) : treasury' = [treasury EXCEPT ![a] = @ - paid]
    BY DEF Claim
<1> HIDE DEF pos, claimed
<1>4. paid \in Nat /\ paid <= treasury[a]
    BY <1>1, PayoutFacts DEF TypeOK
<1>5. PositionType'
    <2>1. [pos EXCEPT !.claimable = @ - claimed] \in Position
        BY <1>1 DEF Position
    <2> QED BY <1>2, <2>1 DEF TypeOK, PositionType
<1>6. AssetType'
    <2>1. SaturatingSub(asset[a].total_claimable, claimed) \in Nat
        BY <1>1, FieldFacts, SaturatingFacts DEF TypeOK
    <2>2. asset' \in [Assets -> AssetConfig]
        BY <1>2, <2>1 DEF TypeOK, AssetType, AssetConfig
    <2>3. vault' \in [Assets -> Nat] /\ treasury' \in [Assets -> Nat]
        BY <1>1, <1>2, <1>3, <1>4 DEF TypeOK, AssetType
    <2> QED BY <2>2, <2>3 DEF AssetType
<1> QED BY <1>2, <1>5, <1>6, UnchangedTypes DEF TypeOK

\* claim_all keeps every account field in its type.
LEMMA ClaimAllType ==
    ASSUME TypeOK, NEW u \in Users, ClaimAll(u)
    PROVE  TypeOK'
<1> DEFINE claimed == [a \in Assets |->
                         IF asset[a].listed THEN Claimed(u, a, ClaimPosition(u, a).claimable) ELSE 0]
           settled == [a \in Assets |->
                         IF asset[a].listed
                         THEN [ClaimPosition(u, a) EXCEPT !.claimable = @ - claimed[a]]
                         ELSE position[u][a]]
<1>1. ASSUME NEW a \in Assets
      PROVE  /\ claimed[a] \in Nat /\ claimed[a] <= vault[a] /\ settled[a] \in Position
    <2>1. ClaimPosition(u, a) \in Position
        <3>1. 0 \in Nat
            OBVIOUS
        <3> QED BY <3>1, ClaimedFacts
    <2>2. ClaimPosition(u, a).claimable \in Nat
        BY <2>1 DEF Position
    <2>3. /\ Claimed(u, a, ClaimPosition(u, a).claimable) \in Nat
          /\ Claimed(u, a, ClaimPosition(u, a).claimable) <= ClaimPosition(u, a).claimable
          /\ Claimed(u, a, ClaimPosition(u, a).claimable) <= vault[a]
        BY <2>2, ClaimedFacts
    <2>4. vault[a] \in Nat /\ position[u][a] \in Position
        BY FieldFacts DEF TypeOK
    <2>5. claimed[a] \in Nat /\ claimed[a] <= vault[a]
        BY <2>3, <2>4
    <2>6. CASE asset[a].listed
        <3>1. claimed[a] <= ClaimPosition(u, a).claimable
            BY <2>3, <2>6
        <3> HIDE DEF claimed
        <3>2. [ClaimPosition(u, a) EXCEPT !.claimable = @ - claimed[a]] \in Position
            BY <2>1, <2>5, <3>1 DEF Position
        <3> QED BY <2>5, <2>6, <3>2
    <2>7. CASE ~asset[a].listed
        BY <2>4, <2>5, <2>7
    <2> QED BY <2>6, <2>7
<1>2. /\ position' = [position EXCEPT ![u] = settled]
      /\ vault' = [a \in Assets |-> vault[a] - claimed[a]]
      /\ asset' = [a \in Assets |->
                     [asset[a] EXCEPT !.total_claimable = SaturatingSub(@, claimed[a])]]
      /\ UNCHANGED <<ownerVars, envVars, graiVars, escrowVars, totalValue, liqVars>>
    BY DEF ClaimAll
<1>3. \E paid : /\ \A a \in Assets : paid[a] \in TreasuryPayouts(a, claimed[a])
                /\ treasury' = [a \in Assets |-> treasury[a] - paid[a]]
    BY DEF ClaimAll
<1>4. settled \in [Assets -> Position]
    BY <1>1
<1> HIDE DEF claimed, settled
<1>5. PICK paid : /\ \A a \in Assets : paid[a] \in TreasuryPayouts(a, claimed[a])
                  /\ treasury' = [a \in Assets |-> treasury[a] - paid[a]]
    BY <1>3
<1>6. \A a \in Assets : paid[a] \in Nat /\ paid[a] <= treasury[a]
    BY <1>1, <1>5, PayoutFacts DEF TypeOK
<1>7. PositionType'
    BY <1>2, <1>4 DEF TypeOK, PositionType
<1>8. AssetType'
    <2>1. \A a \in Assets : SaturatingSub(asset[a].total_claimable, claimed[a]) \in Nat
        BY <1>1, FieldFacts, SaturatingFacts DEF TypeOK
    <2>2. asset' \in [Assets -> AssetConfig]
        BY <1>2, <2>1 DEF TypeOK, AssetType, AssetConfig
    <2>3. vault' \in [Assets -> Nat]
        BY <1>1, <1>2 DEF TypeOK, AssetType
    <2>4. treasury' \in [Assets -> Nat]
        BY <1>5, <1>6 DEF TypeOK, AssetType
    <2> QED BY <2>2, <2>3, <2>4 DEF AssetType
<1> QED BY <1>2, <1>7, <1>8, UnchangedTypes DEF TypeOK

\* liquidate keeps every account field in its type.
LEMMA LiquidateType ==
    ASSUME TypeOK, NEW u \in Users, Liquidate(u)
    PROVE  TypeOK'
<1> DEFINE dead == DeadGrai(graiVault, totalLocked)
<1>1. graiVault \in Nat /\ totalLocked \in Nat /\ now \in Nat
    BY DEF TypeOK, GraiType, EscrowType, EnvType
<1>2. dead \in Nat /\ dead <= graiVault
    BY <1>1, SaturatingFacts DEF DeadGrai
<1>3. /\ graiVault' = graiVault - dead /\ wallet' = [wallet EXCEPT ![u] = @ + dead]
      /\ liquidation' = TRUE /\ liquidationAt' = now
      /\ UNCHANGED <<ownerVars, envVars, supply, grindersGrai, escrowVars, totalValue,
                     assetVars, position>>
    BY DEF Liquidate
<1> HIDE DEF dead
<1>4. GraiType'
    BY <1>2, <1>3 DEF TypeOK, GraiType
<1>5. BookType'
    BY <1>1, <1>3 DEF TypeOK, BookType
<1> QED BY <1>3, <1>4, <1>5, UnchangedTypes DEF TypeOK

\* What a redeem may burn: supply, wallets and the vault cover it.
LEMMA RedeemFacts ==
    ASSUME TypeOK, SupplyConserved, NEW u \in Users, NEW x \in GraiAmounts, Redeem(u, x)
    PROVE  /\ x \in Nat \ {0} /\ x <= supply
           /\ MinOf(x, wallet[u]) \in Nat /\ MinOf(x, wallet[u]) <= wallet[u]
           /\ x - MinOf(x, wallet[u]) \in Nat /\ x - MinOf(x, wallet[u]) <= locked[u]
<1> DEFINE burn == MinOf(x, wallet[u])
<1>1. x > 0 /\ x <= wallet[u] + locked[u] /\ graiVault >= x - burn
    BY DEF Redeem
<1>2. x \in Nat /\ wallet[u] \in Nat /\ locked[u] \in Nat
    BY InputFacts DEF TypeOK, GraiType, EscrowType
<1>3. burn \in Nat /\ burn <= wallet[u] /\ x - burn \in Nat /\ x - burn <= locked[u]
    BY <1>1, <1>2 DEF MinOf
<1> HIDE DEF burn
<1>4. Total(wallet) \in Nat /\ wallet[u] <= Total(wallet)
    BY UserTotals DEF TypeOK, GraiType
<1>5. x <= supply
    BY <1>1, <1>2, <1>3, <1>4 DEF SupplyConserved, TypeOK, GraiType
<1> QED BY <1>1, <1>2, <1>3, <1>5 DEF burn

\* redeem keeps every account field in its type.
LEMMA RedeemType ==
    ASSUME TypeOK, SupplyConserved, NEW u \in Users, NEW x \in GraiAmounts, Redeem(u, x)
    PROVE  TypeOK'
<1> DEFINE walletBurn == MinOf(x, wallet[u])
           escrowBurn == x - walletBurn
           value      == LiquidateValue(x, supply, totalValue)
<1>1. /\ x \in Nat \ {0} /\ x <= supply
      /\ walletBurn \in Nat /\ walletBurn <= wallet[u]
      /\ escrowBurn \in Nat /\ escrowBurn <= locked[u]
    BY RedeemFacts
<1>2. supply \in Nat /\ totalValue \in Nat /\ locked[u] \in Nat
    BY DEF TypeOK, GraiType, BookType, EscrowType
<1>3. value \in Nat
    BY <1>1, <1>2, LiquidateValueFacts
<1>4. /\ totalValue >= value
      /\ \/ ShrinkLock(u, escrowBurn)
         \/ SettleAll(u, locked[u], locked[u]) /\ UNCHANGED lockVars
      /\ opened' = [opened EXCEPT ![u] = TRUE]
      /\ wallet' = [wallet EXCEPT ![u] = @ - walletBurn]
      /\ graiVault >= escrowBurn /\ graiVault' = graiVault - escrowBurn
      /\ supply' = supply - x /\ totalValue' = totalValue - value
      /\ UNCHANGED <<ownerVars, envVars, grindersGrai, liqVars, asset, treasury>>
    BY DEF Redeem
<1>5. vault' = [a \in Assets |->
                 IF asset[a].listed
                 THEN vault[a] - LiquidateShare(
                        RedeemableBalance(vault[a], asset[a].total_claimable), x, supply)
                 ELSE vault[a]]
    BY DEF Redeem
<1> HIDE DEF walletBurn, escrowBurn, value
<1>6. OwnerType' /\ EnvType'
    BY <1>4, UnchangedTypes DEF TypeOK
<1>7. GraiType'
    BY <1>1, <1>2, <1>4 DEF TypeOK, GraiType
<1>8. BookType'
    BY <1>2, <1>3, <1>4 DEF TypeOK, BookType, liqVars
<1>9. AssetType'
    <2>1. ASSUME NEW a \in Assets
          PROVE  LiquidateShare(RedeemableBalance(vault[a], asset[a].total_claimable), x, supply)
                   \in 0..vault[a]
        <3>1. vault[a] \in Nat /\ asset[a].total_claimable \in Nat
            BY FieldFacts DEF TypeOK
        <3>2. /\ RedeemableBalance(vault[a], asset[a].total_claimable) \in Nat
              /\ RedeemableBalance(vault[a], asset[a].total_claimable) <= vault[a]
            BY <3>1, SaturatingFacts DEF RedeemableBalance
        <3> DEFINE bal == RedeemableBalance(vault[a], asset[a].total_claimable)
        <3> HIDE DEF bal
        <3>3. LiquidateShare(bal, x, supply) \in Nat /\ LiquidateShare(bal, x, supply) <= bal
            BY <1>1, <1>2, <3>2, LiquidateShareFacts DEF bal
        <3> QED BY <3>1, <3>2, <3>3 DEF bal
    <2>2. vault' \in [Assets -> Nat]
        BY <1>5, <2>1 DEF TypeOK, AssetType
    <2> QED BY <1>4, <2>2 DEF TypeOK, AssetType
<1>10. EscrowType' /\ PositionType'
    <2>0. opened' \in [Users -> BOOLEAN]
        BY <1>4 DEF TypeOK, EscrowType
    <2>1. CASE ShrinkLock(u, escrowBurn)
        <3>1. /\ PositionType' /\ lockers' \in [Users -> Nat] /\ voters' \in [Users -> Nat]
              /\ totalLocked' \in Nat /\ locked' \in [Users -> Nat]
              /\ totalVoted' \in Nat /\ voted' \in [Users -> Nat]
            BY <1>1, <2>1, ShrinkLockFacts
        <3> QED BY <2>0, <3>1 DEF EscrowType
    <2>2. CASE SettleAll(u, locked[u], locked[u]) /\ UNCHANGED lockVars
        <3>1. PositionType'
            BY <1>2, <2>2, SettleAllType DEF TypeOK
        <3> QED BY <2>0, <2>2, <3>1 DEF TypeOK, EscrowType, lockVars
    <2> QED BY <1>4, <2>1, <2>2
<1> QED BY <1>6, <1>7, <1>8, <1>9, <1>10 DEF TypeOK

\* revive keeps every account field in its type.
LEMMA ReviveType ==
    ASSUME TypeOK, Revive
    PROVE  TypeOK'
<1>1. /\ totalValue' = IF supply = 0 THEN 0 ELSE totalValue
      /\ liquidation' = FALSE /\ liquidationAt' = 0 /\ heartbeatAt' = now
      /\ vault' = [a \in Assets |->
                     IF asset[a].listed
                     THEN vault[a] - RedeemableBalance(vault[a], asset[a].total_claimable)
                     ELSE vault[a]]
      /\ UNCHANGED <<ownerVars, now, price, graiVars, escrowVars, asset, treasury, position>>
    BY DEF Revive
<1>2. BookType' /\ EnvType'
    BY <1>1 DEF TypeOK, BookType, EnvType
<1>3. \A a \in Assets : RedeemableBalance(vault[a], asset[a].total_claimable) \in 0..vault[a]
    BY FieldFacts, SaturatingFacts DEF RedeemableBalance, TypeOK
<1>4. AssetType'
    BY <1>1, <1>3 DEF TypeOK, AssetType
<1> QED BY <1>1, <1>2, <1>4, UnchangedTypes DEF TypeOK

\* The owner's calls and the environment.
LEMMA OwnerStepType ==
    ASSUME TypeOK,
           \/ \E c \in Configs : SetConfig(c)
           \/ \E split \in ShareSplits : SetRevenueShareBps(split)
           \/ \E a \in Assets, paused \in PauseFlags : ListAsset(a, paused)
           \/ \E a \in Assets, paused \in PauseFlags : ReplaceFeed(a, paused)
           \/ \E a \in Assets : DelistAsset(a)
           \/ \E a \in Assets, flag \in BribeFlags : SetBribeable(a, flag)
    PROVE  TypeOK'
<1>1. ASSUME NEW c \in Configs, SetConfig(c) PROVE TypeOK'
    <2>1. OwnerType'
        BY <1>1 DEF SetConfig, TypeOK, OwnerType
    <2> QED BY <1>1, <2>1, UnchangedTypes DEF TypeOK, SetConfig
<1>2. ASSUME NEW split \in ShareSplits, SetRevenueShareBps(split) PROVE TypeOK'
    <2>1. OwnerType'
        BY <1>2 DEF SetRevenueShareBps, TypeOK, OwnerType
    <2> QED BY <1>2, <2>1, UnchangedTypes DEF TypeOK, SetRevenueShareBps
<1>3. ASSUME NEW a \in Assets, NEW rec \in AssetConfig, asset' = [asset EXCEPT ![a] = rec],
             UNCHANGED <<ownerVars, envVars, graiVars, escrowVars, totalValue, liqVars, vault,
                         treasury, position>>
      PROVE  TypeOK'
    <2>1. AssetType'
        BY <1>3 DEF TypeOK, AssetType
    <2> QED BY <1>3, <2>1, UnchangedTypes DEF TypeOK
<1>4. ASSUME NEW a \in Assets, NEW paused \in PauseFlags, ListAsset(a, paused) PROVE TypeOK'
    <2> DEFINE rec == [Unlisted EXCEPT !.listed = TRUE, !.paused = paused]
    <2>1. rec \in AssetConfig
        BY ParameterAssumption DEF Unlisted, AssetConfig
    <2> QED BY <1>3, <1>4, <2>1 DEF ListAsset
<1>5. ASSUME NEW a \in Assets, NEW paused \in PauseFlags, ReplaceFeed(a, paused) PROVE TypeOK'
    <2> DEFINE rec == [asset[a] EXCEPT !.paused = paused]
    <2>1. rec \in AssetConfig
        BY ParameterAssumption, FieldFacts DEF TypeOK, AssetConfig
    <2> QED BY <1>3, <1>5, <2>1 DEF ReplaceFeed
<1>6. ASSUME NEW a \in Assets, DelistAsset(a) PROVE TypeOK'
    <2>1. Unlisted \in AssetConfig
        BY DEF Unlisted, AssetConfig
    <2> QED BY <1>3, <1>6, <2>1 DEF DelistAsset
<1>7. ASSUME NEW a \in Assets, NEW flag \in BribeFlags, SetBribeable(a, flag) PROVE TypeOK'
    <2> DEFINE rec == [asset[a] EXCEPT !.bribeable = flag]
    <2>1. rec \in AssetConfig
        BY ParameterAssumption, FieldFacts DEF TypeOK, AssetConfig
    <2> QED BY <1>3, <1>7, <2>1 DEF SetBribeable
<1> QED BY <1>1, <1>2, <1>4, <1>5, <1>6, <1>7

\* The token program, the feeds, the clock and Grinders keep the types.
LEMMA EnvironmentStepType ==
    ASSUME TypeOK, SupplyConserved,
           \/ \E u \in Users, v \in Users, x \in SendAmounts : TransferGrai(u, v, x)
           \/ \E u \in Users, x \in SendAmounts : StrayGrai(u, x)
           \/ \E u \in Users, x \in BurnAmounts : BurnGrai(u, x)
           \/ \E u \in Users, x \in GraiAmounts : WithdrawGrai(u, x)
           \/ \E a \in Assets, x \in SweepAmounts : SweepIn(a, x)
           \/ GrindersHeartbeat
           \/ \E a \in Assets, p \in Prices : FeedReport(a, p)
           \/ Tick
    PROVE  TypeOK'
<1>1. ASSUME NEW u \in Users, NEW v \in Users, NEW x \in SendAmounts, TransferGrai(u, v, x)
      PROVE  TypeOK'
    <2>1. GraiType'
        BY <1>1, InputFacts DEF TransferGrai, TypeOK, GraiType
    <2> QED BY <1>1, <2>1, UnchangedTypes DEF TypeOK, TransferGrai
<1>2. ASSUME NEW u \in Users, NEW x \in SendAmounts, StrayGrai(u, x) PROVE TypeOK'
    <2>1. GraiType'
        BY <1>2, InputFacts DEF StrayGrai, TypeOK, GraiType
    <2> QED BY <1>2, <2>1, UnchangedTypes DEF TypeOK, StrayGrai
<1>3. ASSUME NEW u \in Users, NEW x \in BurnAmounts, BurnGrai(u, x) PROVE TypeOK'
    <2>1. Total(wallet) \in Nat /\ wallet[u] <= Total(wallet)
        BY UserTotals DEF TypeOK, GraiType
    <2>2. x \in Nat /\ x <= wallet[u] /\ x <= supply
        BY <1>3, <2>1, InputFacts DEF BurnGrai, SupplyConserved, TypeOK, GraiType
    <2>3. GraiType'
        BY <1>3, <2>2 DEF BurnGrai, TypeOK, GraiType
    <2> QED BY <1>3, <2>3, UnchangedTypes DEF TypeOK, BurnGrai
<1>4. ASSUME NEW u \in Users, NEW x \in GraiAmounts, WithdrawGrai(u, x) PROVE TypeOK'
    <2>1. GraiType'
        BY <1>4, InputFacts DEF WithdrawGrai, TypeOK, GraiType
    <2> QED BY <1>4, <2>1, UnchangedTypes DEF TypeOK, WithdrawGrai
<1>5. ASSUME NEW a \in Assets, NEW x \in SweepAmounts, SweepIn(a, x) PROVE TypeOK'
    <2>1. AssetType'
        BY <1>5, InputFacts DEF SweepIn, TypeOK, AssetType
    <2> QED BY <1>5, <2>1, UnchangedTypes DEF TypeOK, SweepIn
<1>6. ASSUME GrindersHeartbeat PROVE TypeOK'
    <2>1. EnvType'
        BY <1>6 DEF GrindersHeartbeat, TypeOK, EnvType
    <2> QED BY <1>6, <2>1, UnchangedTypes DEF TypeOK, GrindersHeartbeat
<1>7. ASSUME NEW a \in Assets, NEW p \in Prices, FeedReport(a, p) PROVE TypeOK'
    <2>1. EnvType'
        BY <1>7 DEF FeedReport, TypeOK, EnvType
    <2> QED BY <1>7, <2>1, UnchangedTypes DEF TypeOK, FeedReport
<1>8. ASSUME Tick PROVE TypeOK'
    <2>1. EnvType'
        BY <1>8 DEF Tick, TypeOK, EnvType, Genesis
    <2> QED BY <1>8, <2>1, UnchangedTypes DEF TypeOK, Tick
<1> QED BY <1>1, <1>2, <1>3, <1>4, <1>5, <1>6, <1>7, <1>8

\* Every step keeps the types, given that the supply is accounted for.
LEMMA TypeStep ==
    ASSUME TypeOK, SupplyConserved, [Next]_vars
    PROVE  TypeOK'
<1>1. CASE UNCHANGED vars
    BY <1>1, UnchangedTypes DEF TypeOK, vars
<1>2. CASE Next
    BY <1>2, DepositType, LockType, UnlockType, VoteType, BribeType, PoachPaymentType,
       DistributeType, ClaimType, ClaimAllType, LiquidateType, RedeemType, ReviveType,
       OwnerStepType, EnvironmentStepType DEF Next
<1> QED BY <1>1, <1>2

-------------------------------------------------------------------------------
(* The ledger. *)

LocksExact ==
    /\ totalLocked = Total(locked)
    /\ \A u \in Users : lockers[u] = IF locked[u] > 0 THEN 1 ELSE 0

VotesExact ==
    /\ totalVoted = Total(voted)
    /\ \A u \in Users : voters[u] = IF voted[u] > 0 THEN 1 ELSE 0

VotesLocked == \A u \in Users : voted[u] <= locked[u]

\* The inductive invariant of the ledger.
LedgerInv ==
    /\ TypeOK
    /\ SupplyConserved
    /\ LocksExact
    /\ VotesExact
    /\ VotesLocked
    /\ VaultCoversLocks

-------------------------------------------------------------------------------
(* Locks and votes, one helper of the code at a time. *)

\* perform_lock keeps total and registry exact.
LEMMA PerformLockExact ==
    ASSUME TypeOK, LocksExact, NEW u \in Users, NEW x \in Nat, PerformLock(u, x)
    PROVE  LocksExact'
<1>1. /\ x > 0 /\ totalLocked' = totalLocked + x
      /\ locked' = [locked EXCEPT ![u] = @ + x]
      /\ lockers' = IF locked[u] = 0 THEN Push(lockers, u) ELSE lockers
    BY DEF PerformLock
<1>2. locked \in [Users -> Nat] /\ lockers \in [Users -> Nat] /\ locked[u] \in Nat
    BY DEF TypeOK, EscrowType
<1>3. locked[u] + x \in Nat
    BY <1>2
<1>4. Total(locked) \in Nat /\ Total(locked') = Total(locked) - locked[u] + (locked[u] + x)
    BY <1>1, <1>2, <1>3, UserTotals
<1>5. totalLocked' = Total(locked')
    BY <1>1, <1>2, <1>4 DEF LocksExact
<1>6. \A v \in Users : lockers'[v] = IF locked'[v] > 0 THEN 1 ELSE 0
    BY <1>1, <1>2 DEF LocksExact, Push
<1> QED BY <1>5, <1>6 DEF LocksExact

\* Shrinking a lock, the vote clamped with it, keeps both totals and both registries exact.
LEMMA ShrinkLockExact ==
    ASSUME TypeOK, LocksExact, VotesExact, VotesLocked, NEW u \in Users, NEW x \in Nat,
           0 < x, x <= locked[u], ShrinkLock(u, x)
    PROVE  LocksExact' /\ VotesExact' /\ VotesLocked'
<1> DEFINE kept == MinOf(voted[u], locked[u] - x)
<1>1. /\ totalLocked' = totalLocked - x
      /\ locked' = [locked EXCEPT ![u] = @ - x]
      /\ lockers' = IF locked[u] = x THEN RemoveFromList(lockers, u) ELSE lockers
    BY DEF ShrinkLock
<1>2. /\ totalVoted' = totalVoted - (voted[u] - kept)
      /\ voted' = [voted EXCEPT ![u] = kept]
      /\ voters' = IF voted[u] > locked[u] - x /\ kept = 0
                   THEN RemoveFromList(voters, u) ELSE voters
    BY DEF ShrinkLock, ClampVote
<1>3. /\ locked \in [Users -> Nat] /\ lockers \in [Users -> Nat] /\ locked[u] \in Nat
      /\ voted \in [Users -> Nat] /\ voters \in [Users -> Nat] /\ voted[u] \in Nat
      /\ locked[u] - x \in Nat
    BY DEF TypeOK, EscrowType
<1>4. /\ kept \in Nat /\ kept <= voted[u] /\ kept <= locked[u] - x
      /\ kept = voted[u] \/ kept = locked[u] - x
    BY <1>3 DEF MinOf
<1> HIDE DEF kept
<1>5. Total(locked) \in Nat /\ Total(locked') = Total(locked) - locked[u] + (locked[u] - x)
    BY <1>1, <1>3, UserTotals
<1>6. Total(voted) \in Nat /\ Total(voted') = Total(voted) - voted[u] + kept
    BY <1>2, <1>3, <1>4, UserTotals
<1>7. totalLocked' = Total(locked') /\ totalVoted' = Total(voted')
    BY <1>1, <1>2, <1>3, <1>4, <1>5, <1>6 DEF LocksExact, VotesExact
<1>8. \A v \in Users : lockers'[v] = IF locked'[v] > 0 THEN 1 ELSE 0
    BY <1>1, <1>3 DEF LocksExact, RemoveFromList, SaturatingSub
<1>9. \A v \in Users : voters'[v] = IF voted'[v] > 0 THEN 1 ELSE 0
    BY <1>2, <1>3, <1>4 DEF VotesExact, RemoveFromList, SaturatingSub
<1>10. \A v \in Users : voted'[v] <= locked'[v]
    BY <1>1, <1>2, <1>3, <1>4 DEF VotesLocked
<1> QED BY <1>7, <1>8, <1>9, <1>10 DEF LocksExact, VotesExact, VotesLocked

\* Steps that touch neither escrows nor the ledger.
LEMMA UnchangedLedger ==
    /\ SupplyConserved /\ UNCHANGED graiVars => SupplyConserved'
    /\ LocksExact /\ UNCHANGED <<locked, lockers, totalLocked>> => LocksExact'
    /\ VotesExact /\ UNCHANGED <<voted, voters, totalVoted>> => VotesExact'
    /\ VotesLocked /\ UNCHANGED <<voted, locked>> => VotesLocked'
    /\ VaultCoversLocks /\ UNCHANGED <<totalLocked, graiVault>> => VaultCoversLocks'
BY DEF SupplyConserved, LocksExact, VotesExact, VotesLocked, VaultCoversLocks, graiVars

\* One wallet changes by what supply, vault and Grinders leave over.
LEMMA SupplyUpdate ==
    ASSUME TypeOK, TypeOK', SupplyConserved, NEW u \in Users, NEW n \in Nat,
           wallet' = [wallet EXCEPT ![u] = n],
           supply' + wallet[u] + graiVault + grindersGrai
             = supply + n + graiVault' + grindersGrai'
    PROVE  SupplyConserved'
<1>1. wallet \in [Users -> Nat] /\ wallet[u] \in Nat
    BY DEF TypeOK, GraiType
<1>2. Total(wallet) \in Nat /\ Total(wallet') = Total(wallet) - wallet[u] + n
    BY <1>1, UserTotals
<1> QED BY <1>1, <1>2 DEF SupplyConserved, TypeOK, GraiType

\* GRAI moves between two wallets, a fee going to Grinders.
LEMMA SupplyMove ==
    ASSUME TypeOK, SupplyConserved, NEW u \in Users, NEW v \in Users, u # v,
           NEW x \in Nat, NEW fee \in Nat, x <= wallet[u], fee <= x,
           wallet' = [wallet EXCEPT ![u] = @ - x, ![v] = @ + (x - fee)],
           supply' = supply, graiVault' = graiVault, grindersGrai' = grindersGrai + fee
    PROVE  SupplyConserved'
<1> DEFINE mid == [wallet EXCEPT ![u] = wallet[u] - x]
<1>1. wallet \in [Users -> Nat] /\ wallet[u] \in Nat /\ wallet[v] \in Nat
    BY DEF TypeOK, GraiType
<1>2. wallet[u] - x \in Nat /\ wallet[v] + (x - fee) \in Nat
    BY <1>1
<1>3. mid \in [Users -> Nat] /\ mid[v] = wallet[v]
    BY <1>1, <1>2
<1>4. wallet' = [mid EXCEPT ![v] = wallet[v] + (x - fee)]
    BY <1>1
<1>0. mid = [wallet EXCEPT ![u] = wallet[u] - x]
    OBVIOUS
<1> HIDE DEF mid
<1>5. Total(mid) = Total(wallet) - wallet[u] + (wallet[u] - x) /\ Total(wallet) \in Nat
    BY <1>0, <1>1, <1>2, UserTotals
<1>6. Total(wallet') = Total(mid) - mid[v] + (wallet[v] + (x - fee)) /\ Total(mid) \in Nat
    <2> DEFINE n == wallet[v] + (x - fee)
    <2>1. n \in Nat /\ wallet' = [mid EXCEPT ![v] = n]
        BY <1>2, <1>4
    <2> HIDE DEF n
    <2>2. Total([mid EXCEPT ![v] = n]) = Total(mid) - mid[v] + n /\ Total(mid) \in Nat
        BY ONLY <1>3, <2>1, UserTotals
    <2> QED BY <2>1, <2>2 DEF n
<1> QED BY <1>1, <1>3, <1>5, <1>6 DEF SupplyConserved, TypeOK, GraiType

-------------------------------------------------------------------------------
(* One lemma per action that moves shares. *)

\* deposit keeps the ledger invariant.
LEMMA DepositLedger ==
    ASSUME LedgerInv, TypeOK', NEW u \in Users, NEW a \in Assets, NEW x \in DepositAmounts,
           NEW lock \in BOOLEAN, Deposit(u, a, x, lock)
    PROVE  LedgerInv'
<1> DEFINE out == PreviewDeposit(UsdValue(x, price[a]), supply, totalValue,
                                 config.mint_premium_bps_per_year, Genesis, now)
<1>1. /\ out > 0 /\ supply' = supply + out
      /\ UNCHANGED <<grindersGrai, voted, voters, totalVoted>>
      /\ \/ PerformLock(u, out) /\ UNCHANGED wallet
         \/ /\ wallet' = [wallet EXCEPT ![u] = @ + out]
            /\ UNCHANGED <<lockers, totalLocked, locked, graiVault>>
    BY DEF Deposit
<1> HIDE DEF out
<1>2. /\ wallet \in [Users -> Nat] /\ wallet[u] \in Nat /\ supply \in Nat /\ supply' \in Nat
      /\ graiVault \in Nat /\ graiVault' \in Nat /\ grindersGrai \in Nat
      /\ locked \in [Users -> Nat] /\ totalLocked \in Nat
    BY DEF LedgerInv, TypeOK, GraiType, EscrowType
<1>3. out \in Nat
    <2>1. x \in Nat /\ price[a] \in Nat /\ totalValue \in Nat /\ now \in Nat /\ now >= 1
        BY InputFacts DEF LedgerInv, TypeOK, EnvType, BookType, Genesis
    <2>2. x * price[a] \in Nat
        BY <2>1
    <2>3. UsdValue(x, price[a]) \in Nat
        BY <2>2, DivFacts, ScaleAssumption DEF UsdValue
    <2> QED BY <1>2, <2>1, <2>3, ConfigFacts, PreviewDepositFacts DEF LedgerInv, TypeOK, Genesis, out
<1>4. VotesExact'
    BY <1>1, UnchangedLedger DEF LedgerInv
<1>5. CASE PerformLock(u, out) /\ UNCHANGED wallet
    <2>1. LocksExact'
        BY <1>3, <1>5, PerformLockExact DEF LedgerInv
    <2>2. /\ locked' = [locked EXCEPT ![u] = @ + out]
          /\ totalLocked' = totalLocked + out /\ graiVault' = graiVault + out
        BY <1>5 DEF PerformLock
    <2>3. VotesLocked'
        BY <1>1, <1>2, <1>3, <2>2 DEF LedgerInv, VotesLocked, TypeOK, EscrowType
    <2>4. VaultCoversLocks'
        BY <1>2, <1>3, <2>2 DEF LedgerInv, VaultCoversLocks
    <2>5. Total(wallet) \in Nat
        BY <1>2, UserTotals
    <2>6. SupplyConserved'
        BY <1>1, <1>2, <1>3, <1>5, <2>2, <2>5 DEF LedgerInv, SupplyConserved
    <2> QED BY <1>4, <2>1, <2>3, <2>4, <2>6 DEF LedgerInv
<1>6. CASE /\ wallet' = [wallet EXCEPT ![u] = @ + out]
           /\ UNCHANGED <<lockers, totalLocked, locked, graiVault>>
    <2> DEFINE n == wallet[u] + out
    <2>1. /\ n \in Nat /\ wallet' = [wallet EXCEPT ![u] = n]
          /\ supply' + wallet[u] + graiVault + grindersGrai
               = supply + n + graiVault' + grindersGrai'
        BY <1>1, <1>2, <1>3, <1>6
    <2> HIDE DEF n
    <2>2. SupplyConserved'
        BY <2>1, SupplyUpdate DEF LedgerInv
    <2>3. LocksExact' /\ VotesLocked' /\ VaultCoversLocks'
        BY <1>1, <1>6, UnchangedLedger DEF LedgerInv
    <2> QED BY <1>4, <2>2, <2>3 DEF LedgerInv
<1> QED BY <1>1, <1>5, <1>6

\* lock keeps the ledger invariant.
LEMMA LockLedger ==
    ASSUME LedgerInv, TypeOK', NEW u \in Users, NEW x \in GraiAmounts, Lock(u, x)
    PROVE  LedgerInv'
<1>1. /\ wallet[u] >= x /\ PerformLock(u, x) /\ wallet' = [wallet EXCEPT ![u] = @ - x]
      /\ UNCHANGED <<supply, grindersGrai, voted, voters, totalVoted>>
    BY DEF Lock
<1>2. /\ x \in Nat /\ wallet[u] \in Nat /\ supply \in Nat /\ graiVault \in Nat
      /\ graiVault' \in Nat /\ grindersGrai \in Nat /\ totalLocked \in Nat
      /\ locked \in [Users -> Nat] /\ voted \in [Users -> Nat]
    BY InputFacts DEF LedgerInv, TypeOK, GraiType, EscrowType
<1>3. /\ locked' = [locked EXCEPT ![u] = @ + x]
      /\ totalLocked' = totalLocked + x /\ graiVault' = graiVault + x
    BY <1>1 DEF PerformLock
<1>4. VotesExact' /\ LocksExact'
    BY <1>1, <1>2, UnchangedLedger, PerformLockExact DEF LedgerInv
<1>5. VotesLocked' /\ VaultCoversLocks'
    BY <1>1, <1>2, <1>3 DEF LedgerInv, VotesLocked, VaultCoversLocks
<1>6. SupplyConserved'
    <2> DEFINE n == wallet[u] - x
    <2>1. /\ n \in Nat /\ wallet' = [wallet EXCEPT ![u] = n]
          /\ supply' + wallet[u] + graiVault + grindersGrai
               = supply + n + graiVault' + grindersGrai'
        BY <1>1, <1>2, <1>3
    <2> HIDE DEF n
    <2> QED BY <2>1, SupplyUpdate DEF LedgerInv
<1> QED BY <1>4, <1>5, <1>6 DEF LedgerInv

\* unlock keeps the ledger invariant.
LEMMA UnlockLedger ==
    ASSUME LedgerInv, TypeOK', NEW u \in Users, NEW x \in GraiAmounts, Unlock(u, x)
    PROVE  LedgerInv'
<1> DEFINE penalty == UnlockPenalty(x, config.unlock_penalty_bps)
<1>1. /\ x > 0 /\ x <= locked[u] /\ ShrinkLock(u, x)
      /\ graiVault' = graiVault - x
      /\ wallet' = [wallet EXCEPT ![u] = @ + (x - penalty)]
      /\ grindersGrai' = grindersGrai + penalty
      /\ supply' = supply
    BY DEF Unlock
<1>2. x \in Nat
    BY InputFacts
<1>3. penalty \in Nat /\ penalty <= x
    BY <1>2, ConfigFacts, UnlockPenaltyFacts DEF LedgerInv, TypeOK
<1> HIDE DEF penalty
<1>4. /\ wallet[u] \in Nat /\ supply \in Nat /\ graiVault \in Nat /\ totalLocked \in Nat
      /\ graiVault' \in Nat /\ grindersGrai \in Nat /\ grindersGrai' \in Nat
    BY DEF LedgerInv, TypeOK, GraiType, EscrowType
<1>5. LocksExact' /\ VotesExact' /\ VotesLocked'
    BY <1>1, <1>2, ShrinkLockExact DEF LedgerInv
<1>6. VaultCoversLocks'
    <2>1. totalLocked' = totalLocked - x
        BY <1>1 DEF ShrinkLock
    <2> QED BY <1>1, <1>2, <1>4, <2>1 DEF LedgerInv, VaultCoversLocks
<1>7. SupplyConserved'
    <2> DEFINE n == wallet[u] + (x - penalty)
    <2>1. /\ n \in Nat /\ wallet' = [wallet EXCEPT ![u] = n]
          /\ supply' + wallet[u] + graiVault + grindersGrai
               = supply + n + graiVault' + grindersGrai'
        BY <1>1, <1>2, <1>3, <1>4
    <2> HIDE DEF n
    <2> QED BY <2>1, SupplyUpdate DEF LedgerInv
<1> QED BY <1>5, <1>6, <1>7 DEF LedgerInv

\* vote keeps the ledger invariant.
LEMMA VoteLedger ==
    ASSUME LedgerInv, TypeOK', NEW u \in Users, NEW x \in GraiAmounts, Vote(u, x)
    PROVE  LedgerInv'
<1> DEFINE shortfall == SaturatingSub(voted[u] + x, locked[u])
<1>1. /\ x > 0
      /\ IF shortfall > 0
         THEN /\ wallet[u] >= shortfall
              /\ PerformLock(u, shortfall)
              /\ wallet' = [wallet EXCEPT ![u] = @ - shortfall]
         ELSE UNCHANGED <<lockers, totalLocked, locked, graiVault, wallet>>
      /\ voters' = IF voted[u] = 0 THEN Push(voters, u) ELSE voters
      /\ totalVoted' = totalVoted + x
      /\ voted' = [voted EXCEPT ![u] = @ + x]
      /\ UNCHANGED <<supply, grindersGrai>>
    BY DEF Vote
<1>2. /\ x \in Nat /\ voted[u] \in Nat /\ locked[u] \in Nat /\ wallet[u] \in Nat
      /\ voted \in [Users -> Nat] /\ voters \in [Users -> Nat] /\ locked \in [Users -> Nat]
      /\ totalVoted \in Nat /\ totalLocked \in Nat
      /\ supply \in Nat /\ graiVault \in Nat /\ graiVault' \in Nat /\ grindersGrai \in Nat
    BY InputFacts DEF LedgerInv, TypeOK, EscrowType, GraiType
<1>3. shortfall \in Nat /\ voted[u] + x <= locked[u] + shortfall
    BY <1>2 DEF SaturatingSub
<1> HIDE DEF shortfall
<1>4. VotesExact'
    <2>1. voted[u] + x \in Nat
        BY <1>2
    <2>2. Total(voted) \in Nat /\ Total(voted') = Total(voted) - voted[u] + (voted[u] + x)
        BY <1>1, <1>2, <2>1, UserTotals
    <2>3. totalVoted' = Total(voted')
        BY <1>1, <1>2, <2>2 DEF LedgerInv, VotesExact
    <2>4. \A v \in Users : voters'[v] = IF voted'[v] > 0 THEN 1 ELSE 0
        BY <1>1, <1>2 DEF LedgerInv, VotesExact, Push
    <2> QED BY <2>3, <2>4 DEF VotesExact
<1>5. CASE shortfall > 0
    <2>0. /\ wallet[u] >= shortfall /\ PerformLock(u, shortfall)
          /\ wallet' = [wallet EXCEPT ![u] = @ - shortfall]
        BY <1>1, <1>5
    <2>1. /\ locked' = [locked EXCEPT ![u] = @ + shortfall]
          /\ totalLocked' = totalLocked + shortfall /\ graiVault' = graiVault + shortfall
        BY <2>0 DEF PerformLock
    <2>2. LocksExact'
        BY <1>3, <2>0, PerformLockExact DEF LedgerInv
    <2>3. VotesLocked' /\ VaultCoversLocks'
        BY <1>1, <1>2, <1>3, <2>1 DEF LedgerInv, VotesLocked, VaultCoversLocks
    <2>4. SupplyConserved'
        <3> DEFINE n == wallet[u] - shortfall
        <3>1. /\ n \in Nat /\ wallet' = [wallet EXCEPT ![u] = n]
              /\ supply' + wallet[u] + graiVault + grindersGrai
                   = supply + n + graiVault' + grindersGrai'
            BY <1>1, <1>2, <1>3, <2>0, <2>1
        <3> HIDE DEF n
        <3> QED BY <3>1, SupplyUpdate DEF LedgerInv
    <2> QED BY <1>4, <2>2, <2>3, <2>4 DEF LedgerInv
<1>6. CASE ~(shortfall > 0)
    <2>0. shortfall = 0 /\ UNCHANGED <<lockers, totalLocked, locked, graiVault, wallet>>
        BY <1>1, <1>3, <1>6
    <2>1. LocksExact' /\ VaultCoversLocks' /\ SupplyConserved'
        BY <1>1, <2>0, UnchangedLedger DEF LedgerInv, graiVars
    <2>2. VotesLocked'
        BY <1>1, <1>2, <1>3, <2>0 DEF LedgerInv, VotesLocked
    <2> QED BY <1>4, <2>1, <2>2 DEF LedgerInv
<1> QED BY <1>5, <1>6

\* bribe keeps the ledger invariant.
LEMMA BribeLedger ==
    ASSUME LedgerInv, TypeOK', NEW b \in Users, NEW u \in Users, NEW a \in Assets,
           NEW x \in GraiAmounts, Bribe(b, u, a, x)
    PROVE  LedgerInv'
<1>1. /\ x > 0 /\ x <= voted[u] /\ x <= locked[u]
      /\ voted' = [voted EXCEPT ![u] = @ - x]
      /\ locked' = [locked EXCEPT ![u] = @ - x]
      /\ totalVoted' = totalVoted - x /\ totalLocked' = totalLocked - x
      /\ graiVault' = graiVault - x
      /\ wallet' = [wallet EXCEPT ![b] = @ + x]
      /\ voters' = IF voted[u] = x THEN RemoveFromList(voters, u) ELSE voters
      /\ lockers' = IF locked[u] = x THEN RemoveFromList(lockers, u) ELSE lockers
      /\ UNCHANGED <<supply, grindersGrai>>
    BY DEF Bribe
<1>2. /\ x \in Nat /\ voted[u] \in Nat /\ locked[u] \in Nat /\ wallet[b] \in Nat
      /\ voted \in [Users -> Nat] /\ voters \in [Users -> Nat]
      /\ locked \in [Users -> Nat] /\ lockers \in [Users -> Nat]
      /\ totalVoted \in Nat /\ totalLocked \in Nat
      /\ supply \in Nat /\ graiVault \in Nat /\ graiVault' \in Nat /\ grindersGrai \in Nat
    BY InputFacts DEF LedgerInv, TypeOK, EscrowType, GraiType
<1>3. voted[u] - x \in Nat /\ locked[u] - x \in Nat /\ wallet[b] + x \in Nat
    BY <1>1, <1>2
<1>4. LocksExact'
    <2>1. Total(locked) \in Nat /\ Total(locked') = Total(locked) - locked[u] + (locked[u] - x)
        BY <1>1, <1>2, <1>3, UserTotals
    <2>2. totalLocked' = Total(locked')
        BY <1>1, <1>2, <2>1 DEF LedgerInv, LocksExact
    <2>3. \A v \in Users : lockers'[v] = IF locked'[v] > 0 THEN 1 ELSE 0
        BY <1>1, <1>2 DEF LedgerInv, LocksExact, RemoveFromList, SaturatingSub
    <2> QED BY <2>2, <2>3 DEF LocksExact
<1>5. VotesExact'
    <2>1. Total(voted) \in Nat /\ Total(voted') = Total(voted) - voted[u] + (voted[u] - x)
        BY <1>1, <1>2, <1>3, UserTotals
    <2>2. totalVoted' = Total(voted')
        BY <1>1, <1>2, <2>1 DEF LedgerInv, VotesExact
    <2>3. \A v \in Users : voters'[v] = IF voted'[v] > 0 THEN 1 ELSE 0
        BY <1>1, <1>2 DEF LedgerInv, VotesExact, RemoveFromList, SaturatingSub
    <2> QED BY <2>2, <2>3 DEF VotesExact
<1>6. VotesLocked' /\ VaultCoversLocks'
    BY <1>1, <1>2 DEF LedgerInv, VotesLocked, VaultCoversLocks
<1>7. SupplyConserved'
    <2> DEFINE n == wallet[b] + x
    <2>1. /\ n \in Nat /\ wallet' = [wallet EXCEPT ![b] = n]
          /\ supply' + wallet[b] + graiVault + grindersGrai
               = supply + n + graiVault' + grindersGrai'
        BY <1>1, <1>2, <1>3
    <2> HIDE DEF n
    <2> QED BY <2>1, SupplyUpdate DEF LedgerInv
<1> QED BY <1>4, <1>5, <1>6, <1>7 DEF LedgerInv

\* poach's payment keeps the ledger invariant.
LEMMA PoachPaymentLedger ==
    ASSUME LedgerInv, TypeOK', NEW b \in Users, NEW s \in Users, NEW x \in SendAmounts,
           PoachPayment(b, s, x)
    PROVE  LedgerInv'
<1> DEFINE fee == BpsCeil(x, config.poach_fee_bps)
<1>1. /\ b # s /\ x <= wallet[b]
      /\ wallet' = [wallet EXCEPT ![b] = @ - x, ![s] = @ + (x - fee)]
      /\ grindersGrai' = grindersGrai + fee
      /\ UNCHANGED <<supply, graiVault, escrowVars>>
    BY DEF PoachPayment
<1>2. x \in Nat
    BY InputFacts
<1>3. fee \in Nat /\ fee <= x
    BY <1>2, ConfigFacts, BpsCeilFacts DEF LedgerInv, TypeOK
<1> HIDE DEF fee
<1>4. SupplyConserved'
    BY <1>1, <1>2, <1>3, SupplyMove DEF LedgerInv
<1>5. LocksExact' /\ VotesExact' /\ VotesLocked' /\ VaultCoversLocks'
    BY <1>1, UnchangedLedger DEF LedgerInv, escrowVars
<1> QED BY <1>4, <1>5 DEF LedgerInv

\* What liquidate scoops is exactly what no lock owns.
LEMMA LiquidateLedger ==
    ASSUME LedgerInv, TypeOK', NEW u \in Users, Liquidate(u)
    PROVE  LedgerInv'
<1> DEFINE dead == DeadGrai(graiVault, totalLocked)
<1>1. /\ graiVault' = graiVault - dead /\ wallet' = [wallet EXCEPT ![u] = @ + dead]
      /\ UNCHANGED <<supply, grindersGrai, escrowVars>>
    BY DEF Liquidate
<1>2. /\ graiVault \in Nat /\ totalLocked \in Nat /\ wallet[u] \in Nat /\ supply \in Nat
      /\ grindersGrai \in Nat
    BY DEF LedgerInv, TypeOK, GraiType, EscrowType
<1>3. dead \in Nat /\ dead = graiVault - totalLocked
    BY <1>2 DEF LedgerInv, VaultCoversLocks, DeadGrai, SaturatingSub
<1> HIDE DEF dead
<1>4. VaultCoversLocks'
    BY <1>1, <1>2, <1>3 DEF VaultCoversLocks, escrowVars
<1>5. SupplyConserved'
    <2> DEFINE n == wallet[u] + dead
    <2>1. /\ n \in Nat /\ wallet' = [wallet EXCEPT ![u] = n]
          /\ supply' + wallet[u] + graiVault + grindersGrai
               = supply + n + graiVault' + grindersGrai'
        BY <1>1, <1>2, <1>3
    <2> HIDE DEF n
    <2> QED BY <2>1, SupplyUpdate DEF LedgerInv
<1>6. LocksExact' /\ VotesExact' /\ VotesLocked'
    BY <1>1, UnchangedLedger DEF LedgerInv, escrowVars
<1> QED BY <1>4, <1>5, <1>6 DEF LedgerInv

\* redeem keeps the ledger invariant.
LEMMA RedeemLedger ==
    ASSUME LedgerInv, TypeOK', NEW u \in Users, NEW x \in GraiAmounts, Redeem(u, x)
    PROVE  LedgerInv'
<1> DEFINE walletBurn == MinOf(x, wallet[u])
           escrowBurn == x - walletBurn
<1>1. /\ x \in Nat /\ x <= supply
      /\ walletBurn \in Nat /\ walletBurn <= wallet[u]
      /\ escrowBurn \in Nat /\ escrowBurn <= locked[u]
    BY RedeemFacts DEF LedgerInv
<1>2. /\ IF escrowBurn > 0 THEN ShrinkLock(u, escrowBurn) ELSE UNCHANGED lockVars
      /\ wallet' = [wallet EXCEPT ![u] = @ - walletBurn]
      /\ graiVault' = graiVault - escrowBurn
      /\ supply' = supply - x
      /\ grindersGrai' = grindersGrai
    BY DEF Redeem
<1>3. x = walletBurn + escrowBurn
    BY <1>1
<1> HIDE DEF walletBurn, escrowBurn
<1>4. /\ graiVault \in Nat /\ totalLocked \in Nat /\ wallet[u] \in Nat /\ supply \in Nat
      /\ grindersGrai \in Nat
    BY DEF LedgerInv, TypeOK, GraiType, EscrowType
<1>5. SupplyConserved'
    <2> DEFINE n == wallet[u] - walletBurn
    <2>1. /\ n \in Nat /\ wallet' = [wallet EXCEPT ![u] = n]
          /\ supply' + wallet[u] + graiVault + grindersGrai
               = supply + n + graiVault' + grindersGrai'
        BY <1>1, <1>2, <1>3, <1>4
    <2> HIDE DEF n
    <2> QED BY <2>1, SupplyUpdate DEF LedgerInv
<1>6. CASE escrowBurn > 0
    <2>1. ShrinkLock(u, escrowBurn)
        BY <1>2, <1>6
    <2>2. LocksExact' /\ VotesExact' /\ VotesLocked'
        BY <1>1, <1>6, <2>1, ShrinkLockExact DEF LedgerInv
    <2>3. totalLocked' = totalLocked - escrowBurn
        BY <2>1 DEF ShrinkLock
    <2>4. VaultCoversLocks'
        BY <1>1, <1>2, <1>4, <2>3 DEF LedgerInv, VaultCoversLocks
    <2> QED BY <1>5, <2>2, <2>4 DEF LedgerInv
<1>7. CASE ~(escrowBurn > 0)
    <2>1. UNCHANGED lockVars /\ graiVault' = graiVault
        BY <1>1, <1>2, <1>4, <1>7
    <2>2. LocksExact' /\ VotesExact' /\ VotesLocked' /\ VaultCoversLocks'
        BY <2>1, UnchangedLedger DEF LedgerInv, lockVars
    <2> QED BY <1>5, <2>2 DEF LedgerInv
<1> QED BY <1>6, <1>7

\* The holders' own moves through the token program.
LEMMA TokenLedger ==
    ASSUME LedgerInv, TypeOK',
           \/ \E u \in Users, v \in Users, x \in SendAmounts : TransferGrai(u, v, x)
           \/ \E u \in Users, x \in SendAmounts : StrayGrai(u, x)
           \/ \E u \in Users, x \in BurnAmounts : BurnGrai(u, x)
           \/ \E u \in Users, x \in GraiAmounts : WithdrawGrai(u, x)
    PROVE  LedgerInv'
<1>1. UNCHANGED escrowVars
    BY DEF TransferGrai, StrayGrai, BurnGrai, WithdrawGrai
<1>2. LocksExact' /\ VotesExact' /\ VotesLocked'
    BY <1>1, UnchangedLedger DEF LedgerInv, escrowVars
<1>3. ASSUME NEW u \in Users, NEW v \in Users, NEW x \in SendAmounts, TransferGrai(u, v, x)
      PROVE  SupplyConserved' /\ VaultCoversLocks'
    <2>1. /\ u # v /\ x <= wallet[u] /\ supply' = supply /\ graiVault' = graiVault
          /\ wallet' = [wallet EXCEPT ![u] = @ - x, ![v] = @ + x]
          /\ grindersGrai' = grindersGrai
        BY <1>3 DEF TransferGrai
    <2>2. x \in Nat /\ wallet \in [Users -> Nat] /\ grindersGrai \in Nat
        BY InputFacts DEF LedgerInv, TypeOK, GraiType
    <2>3. x - 0 = x /\ grindersGrai' = grindersGrai + 0
        BY <2>1, <2>2
    <2>4. wallet' = [wallet EXCEPT ![u] = @ - x, ![v] = @ + (x - 0)]
        BY <2>1, <2>3
    <2>5. 0 \in Nat /\ 0 <= x
        BY <2>2
    <2>6. SupplyConserved'
        BY <2>1, <2>2, <2>3, <2>4, <2>5, SupplyMove DEF LedgerInv
    <2> QED BY <1>1, <2>1, <2>6, UnchangedLedger DEF LedgerInv, escrowVars
<1>4. ASSUME NEW u \in Users, NEW x \in SendAmounts, StrayGrai(u, x)
      PROVE  SupplyConserved' /\ VaultCoversLocks'
    <2> DEFINE n == wallet[u] - x
    <2>1. /\ x \in Nat /\ wallet[u] \in Nat /\ supply \in Nat /\ graiVault \in Nat
          /\ grindersGrai \in Nat /\ totalLocked \in Nat
        BY InputFacts DEF LedgerInv, TypeOK, GraiType, EscrowType
    <2>2. /\ n \in Nat /\ wallet' = [wallet EXCEPT ![u] = n] /\ graiVault' = graiVault + x
          /\ supply' + wallet[u] + graiVault + grindersGrai
               = supply + n + graiVault' + grindersGrai'
        BY <1>4, <2>1 DEF StrayGrai
    <2> HIDE DEF n
    <2>3. SupplyConserved'
        BY <2>2, SupplyUpdate DEF LedgerInv
    <2> QED BY <1>1, <2>1, <2>2, <2>3 DEF LedgerInv, VaultCoversLocks, escrowVars
<1>5. ASSUME NEW u \in Users, NEW x \in BurnAmounts, BurnGrai(u, x)
      PROVE  SupplyConserved' /\ VaultCoversLocks'
    <2> DEFINE n == wallet[u] - x
    <2>1. /\ x \in Nat /\ wallet[u] \in Nat /\ supply \in Nat /\ graiVault \in Nat
          /\ grindersGrai \in Nat
        BY InputFacts DEF LedgerInv, TypeOK, GraiType
    <2>2. /\ n \in Nat /\ wallet' = [wallet EXCEPT ![u] = n] /\ graiVault' = graiVault
          /\ supply' + wallet[u] + graiVault + grindersGrai
               = supply + n + graiVault' + grindersGrai'
        BY <1>5, <2>1 DEF BurnGrai
    <2> HIDE DEF n
    <2>3. SupplyConserved'
        BY <2>2, SupplyUpdate DEF LedgerInv
    <2> QED BY <1>1, <2>2, <2>3, UnchangedLedger DEF LedgerInv, escrowVars
<1>6. ASSUME NEW u \in Users, NEW x \in GraiAmounts, WithdrawGrai(u, x)
      PROVE  SupplyConserved' /\ VaultCoversLocks'
    <2> DEFINE n == wallet[u] + x
    <2>1. /\ x \in Nat /\ wallet[u] \in Nat /\ supply \in Nat /\ graiVault \in Nat
          /\ grindersGrai \in Nat
        BY InputFacts DEF LedgerInv, TypeOK, GraiType
    <2>2. /\ n \in Nat /\ wallet' = [wallet EXCEPT ![u] = n] /\ graiVault' = graiVault
          /\ supply' + wallet[u] + graiVault + grindersGrai
               = supply + n + graiVault' + grindersGrai'
        BY <1>6, <2>1 DEF WithdrawGrai
    <2> HIDE DEF n
    <2>3. SupplyConserved'
        BY <2>2, SupplyUpdate DEF LedgerInv
    <2> QED BY <1>1, <2>2, <2>3, UnchangedLedger DEF LedgerInv, escrowVars
<1> QED BY <1>2, <1>3, <1>4, <1>5, <1>6 DEF LedgerInv

\* Steps that leave the whole ledger alone.
LEMMA OtherLedger ==
    ASSUME LedgerInv, TypeOK', UNCHANGED <<graiVars, escrowVars>>
    PROVE  LedgerInv'
BY UnchangedLedger DEF LedgerInv, graiVars, escrowVars

-------------------------------------------------------------------------------
(* The invariant. *)

\* The ledger invariant holds after initialize, when every account is empty.
LEMMA LedgerInit == Init => LedgerInv
<1> SUFFICES ASSUME Init PROVE LedgerInv
    OBVIOUS
<1>1. wallet = [u \in Users |-> 0] /\ locked = [u \in Users |-> 0] /\ voted = [u \in Users |-> 0]
    BY DEF Init
<1>2. Total(wallet) = 0 /\ Total(locked) = 0 /\ Total(voted) = 0
    BY <1>1, TotalZero
<1>3. OwnerType
    BY ConfigAssumption, ParameterAssumption DEF Init, OwnerType
<1>4. EnvType /\ BookType
    <2>1. now = 1 /\ heartbeatAt = 1 /\ price \in [Assets -> Prices]
        BY DEF Init, Genesis
    <2>2. totalValue = 0 /\ liquidation = FALSE /\ liquidationAt = 0
        BY DEF Init
    <2>3. EnvType
        BY <2>1 DEF EnvType, Genesis
    <2>4. BookType
        BY <2>2 DEF BookType
    <2> QED BY <2>3, <2>4
<1>5. GraiType
    BY DEF Init, GraiType
<1>6. EscrowType
    BY DEF Init, EscrowType
<1>7. AssetType
    <2>1. Unlisted \in AssetConfig
        BY DEF Unlisted, AssetConfig
    <2> QED BY <2>1 DEF Init, AssetType
<1>8. PositionType
    <2>1. NoPosition \in Position
        BY DEF NoPosition, Position
    <2> QED BY <2>1 DEF Init, PositionType
<1>9. SupplyConserved /\ VaultCoversLocks
    BY <1>2 DEF Init, SupplyConserved, VaultCoversLocks
<1>10. \A u \in Users : /\ locked[u] = 0 /\ voted[u] = 0 /\ lockers[u] = 0 /\ voters[u] = 0
    BY DEF Init
<1>11. totalLocked = 0 /\ totalVoted = 0
    BY DEF Init
<1>12. LocksExact /\ VotesExact /\ VotesLocked
    BY <1>2, <1>10, <1>11 DEF LocksExact, VotesExact, VotesLocked
<1> QED BY <1>3, <1>4, <1>5, <1>6, <1>7, <1>8, <1>9, <1>12 DEF LedgerInv, TypeOK

\* Every instruction, and every step of the environment, keeps the ledger invariant.
LEMMA LedgerStep == LedgerInv /\ [Next]_vars => LedgerInv'
<1> SUFFICES ASSUME LedgerInv, [Next]_vars PROVE LedgerInv'
    OBVIOUS
<1>1. TypeOK'
    BY TypeStep DEF LedgerInv
<1>2. CASE UNCHANGED vars
    BY <1>1, <1>2, OtherLedger DEF vars
<1>3. ASSUME NEW c \in Users \cup {Outsider}, NEW a \in Assets, NEW y \in YieldAmounts,
             Distribute(c, a, y)
      PROVE  LedgerInv'
    BY <1>1, <1>3, OtherLedger DEF Distribute
<1>4. ASSUME NEW u \in Users, NEW a \in Assets, NEW x \in ClaimAmounts, Claim(u, a, x)
      PROVE  LedgerInv'
    BY <1>1, <1>4, OtherLedger DEF Claim
<1>5. ASSUME NEW u \in Users, ClaimAll(u) PROVE LedgerInv'
    BY <1>1, <1>5, OtherLedger DEF ClaimAll
<1>6. CASE Revive
    BY <1>1, <1>6, OtherLedger DEF Revive
<1>7. CASE \/ \E c \in Configs : SetConfig(c)
           \/ \E split \in ShareSplits : SetRevenueShareBps(split)
           \/ \E a \in Assets, paused \in PauseFlags : ListAsset(a, paused)
           \/ \E a \in Assets, paused \in PauseFlags : ReplaceFeed(a, paused)
           \/ \E a \in Assets : DelistAsset(a)
           \/ \E a \in Assets, flag \in BribeFlags : SetBribeable(a, flag)
    BY <1>1, <1>7, OtherLedger DEF SetConfig, SetRevenueShareBps, ListAsset, ReplaceFeed,
       DelistAsset, SetBribeable
<1>8. CASE \/ \E a \in Assets, x \in SweepAmounts : SweepIn(a, x)
           \/ GrindersHeartbeat
           \/ \E a \in Assets, p \in Prices : FeedReport(a, p)
           \/ Tick
    BY <1>1, <1>8, OtherLedger DEF SweepIn, GrindersHeartbeat, FeedReport, Tick
<1> QED BY <1>1, <1>2, <1>3, <1>4, <1>5, <1>6, <1>7, <1>8, DepositLedger, LockLedger, UnlockLedger,
           VoteLedger, BribeLedger, PoachPaymentLedger, LiquidateLedger, RedeemLedger, TokenLedger
        DEF Next

\* The ledger invariant holds in every reachable state.
LEMMA LedgerAlways == Spec => []LedgerInv
BY LedgerInit, LedgerStep, PTL DEF Spec

\* No account field ever leaves its range, for every instance of the program: no checked
\* subtraction that the model writes as a plain one goes below zero.
THEOREM TypeCorrect == Spec => []TypeOK
<1>1. LedgerInv => TypeOK
    BY DEF LedgerInv
<1> QED BY <1>1, LedgerAlways, PTL

\* Shares are neither created nor lost outside mint and burn, whatever locks, bribes,
\* penalties, poaches, strays and scoops happen.
THEOREM SupplyAlwaysConserved == Spec => []SupplyConserved
<1>1. LedgerInv => SupplyConserved
    BY DEF LedgerInv
<1> QED BY <1>1, LedgerAlways, PTL

\* GraiState's totals stay the sums over the Escrow accounts, and no vote exceeds its lock.
THEOREM EscrowsAlwaysAccounted == Spec => []EscrowsAccounted
<1>1. LedgerInv => EscrowsAccounted
    BY DEF LedgerInv, LocksExact, VotesExact, VotesLocked, EscrowsAccounted
<1> QED BY <1>1, LedgerAlways, PTL

\* The registries of lockers and voters stay exact and free of duplicates.
THEOREM RegistriesAlwaysExact == Spec => []RegistriesExact
<1>1. LedgerInv => RegistriesExact
    BY DEF LedgerInv, LocksExact, VotesExact, RegistriesExact
<1> QED BY <1>1, LedgerAlways, PTL

\* The GRAI vault covers every lock, also after liquidate has scooped the stray shares.
THEOREM VaultAlwaysCoversLocks == Spec => []VaultCoversLocks
<1>1. LedgerInv => VaultCoversLocks
    BY DEF LedgerInv
<1> QED BY <1>1, LedgerAlways, PTL

-------------------------------------------------------------------------------
(* Solvency. *)

\* The inductive invariant of solvency, on top of the ledger's.
SolvencyInv ==
    /\ LedgerInv
    /\ ReserveBacked
    /\ SharesBacked
    /\ NoLockerTrapped

-------------------------------------------------------------------------------
(* Claim reserves. *)

\* A dividend cut reserves exactly what it leaves in the vault.
LEMMA CreditedReserve ==
    ASSUME TypeOK, ReserveBacked, NEW a \in Assets, NEW d, d.acc \in Nat, d.reserved \in Nat,
           asset' = Credited(a, d), vault' = [vault EXCEPT ![a] = @ + d.reserved]
    PROVE  ReserveBacked'
<1>1. ASSUME NEW k \in Assets, asset'[k].listed
      PROVE  asset'[k].total_claimable <= vault'[k]
    <2>1. asset[k] \in AssetConfig /\ vault[k] \in Nat
        BY FieldFacts DEF TypeOK
    <2>2. CASE k = a
        <3>1. /\ asset'[a].listed = asset[a].listed
              /\ asset'[a].total_claimable = asset[a].total_claimable + d.reserved
              /\ vault'[a] = vault[a] + d.reserved
            BY DEF Credited, TypeOK, AssetType, AssetConfig
        <3>2. asset[a].total_claimable <= vault[a]
            BY <1>1, <2>2, <3>1 DEF ReserveBacked, Listed
        <3> QED BY <2>1, <2>2, <3>1, <3>2 DEF AssetConfig
    <2>3. CASE k # a
        <3>1. asset'[k] = asset[k] /\ vault'[k] = vault[k]
            BY <2>3 DEF Credited, TypeOK, AssetType
        <3> QED BY <1>1, <3>1 DEF ReserveBacked, Listed
    <2> QED BY <2>2, <2>3
<1> QED BY <1>1 DEF ReserveBacked, Listed

\* distribute leaves every claim reserve backed by its vault.
LEMMA DistributeReserve ==
    ASSUME TypeOK, ReserveBacked, NEW c \in Users \cup {Outsider}, NEW a \in Assets,
           NEW y \in YieldAmounts, Distribute(c, a, y)
    PROVE  ReserveBacked'
<1>1. PICK cut \in Nat :
         LET d == DistributeDividend(asset[a].acc_share, cut, totalLocked)
         IN  /\ y \in Nat /\ cut <= y
             /\ DistributeFits(asset[a].acc_share, cut, totalLocked)
             /\ asset' = Credited(a, d)
             /\ vault' = [vault EXCEPT ![a] = @ + d.reserved]
             /\ treasury' = [treasury EXCEPT ![a] = @ + (y - d.reserved)]
    BY DistributeActionFacts
<1> DEFINE d == DistributeDividend(asset[a].acc_share, cut, totalLocked)
<1>2. totalLocked \in Nat /\ asset[a].acc_share \in Nat
    BY FieldFacts DEF TypeOK, EscrowType
<1>3. d.acc \in Nat /\ d.reserved \in Nat
    BY <1>2, DistributeFacts
<1>4. asset' = Credited(a, d) /\ vault' = [vault EXCEPT ![a] = @ + d.reserved]
    BY <1>1
<1> HIDE DEF d
<1> QED BY <1>3, <1>4, CreditedReserve

\* bribe leaves every claim reserve backed by its vault.
LEMMA BribeReserve ==
    ASSUME TypeOK, ReserveBacked, NEW b \in Users, NEW u \in Users, NEW a \in Assets,
           NEW x \in GraiAmounts, Bribe(b, u, a, x)
    PROVE  ReserveBacked'
<1>1. PICK pool, cut \in Nat :
         LET d == DistributeDividend(asset[a].acc_share, cut, totalLocked - x)
         IN  /\ cut <= pool
             /\ DistributeFits(asset[a].acc_share, cut, totalLocked - x)
             /\ asset' = Credited(a, d)
             /\ vault' = [vault EXCEPT ![a] = @ + d.reserved]
             /\ treasury' = [treasury EXCEPT ![a] = @ + (pool - d.reserved)]
    BY BribeFacts
<1> DEFINE d == DistributeDividend(asset[a].acc_share, cut, totalLocked - x)
<1>2. totalLocked >= x
    BY DEF Bribe
<1>3. x \in Nat /\ totalLocked - x \in Nat /\ asset[a].acc_share \in Nat
    BY <1>2, InputFacts, FieldFacts DEF TypeOK, EscrowType
<1>4. d.acc \in Nat /\ d.reserved \in Nat
    BY <1>3, DistributeFacts
<1>5. asset' = Credited(a, d) /\ vault' = [vault EXCEPT ![a] = @ + d.reserved]
    BY <1>1
<1> HIDE DEF d
<1> QED BY <1>4, <1>5, CreditedReserve

\* claim leaves every claim reserve backed by its vault.
LEMMA ClaimReserve ==
    ASSUME TypeOK, ReserveBacked, NEW u \in Users, NEW a \in Assets, NEW x \in ClaimAmounts,
           Claim(u, a, x)
    PROVE  ReserveBacked'
<1> DEFINE claimed == Claimed(u, a, x)
<1>1. claimed \in Nat /\ claimed <= vault[a] /\ claimed <= asset[a].total_claimable
    BY InputFacts, ClaimedFacts
<1>2. /\ vault' = [vault EXCEPT ![a] = @ - claimed]
      /\ asset' = [asset EXCEPT ![a].total_claimable = SaturatingSub(@, claimed)]
    BY DEF Claim
<1> HIDE DEF claimed
<1>3. ASSUME NEW k \in Assets, asset'[k].listed
      PROVE  asset'[k].total_claimable <= vault'[k]
    <2>1. /\ asset[k] \in AssetConfig /\ asset[k].total_claimable \in Nat /\ vault[k] \in Nat
        BY FieldFacts DEF TypeOK
    <2>2. asset[k].listed
        BY <1>2, <1>3 DEF TypeOK, AssetType, AssetConfig
    <2>3. asset[k].total_claimable <= vault[k]
        BY <2>2 DEF ReserveBacked, Listed
    <2>4. CASE k = a
        <3>1. /\ asset'[a].total_claimable = SaturatingSub(asset[a].total_claimable, claimed)
              /\ vault'[a] = vault[a] - claimed
            BY <1>2 DEF TypeOK, AssetType, AssetConfig
        <3> QED BY <1>1, <2>1, <2>3, <2>4, <3>1 DEF SaturatingSub
    <2>5. CASE k # a
        <3>1. asset'[k] = asset[k] /\ vault'[k] = vault[k]
            BY <1>2, <2>5 DEF TypeOK, AssetType
        <3> QED BY <2>3, <3>1
    <2> QED BY <2>4, <2>5
<1> QED BY <1>3 DEF ReserveBacked, Listed

\* claim_all leaves every claim reserve backed by its vault.
LEMMA ClaimAllReserve ==
    ASSUME TypeOK, ReserveBacked, NEW u \in Users, ClaimAll(u)
    PROVE  ReserveBacked'
<1> DEFINE claimed == [a \in Assets |->
                         IF asset[a].listed THEN Claimed(u, a, ClaimPosition(u, a).claimable) ELSE 0]
<1>1. /\ vault' = [a \in Assets |-> vault[a] - claimed[a]]
      /\ asset' = [a \in Assets |->
                     [asset[a] EXCEPT !.total_claimable = SaturatingSub(@, claimed[a])]]
    BY DEF ClaimAll
<1>2. ASSUME NEW k \in Assets, asset'[k].listed
      PROVE  asset'[k].total_claimable <= vault'[k]
    <2>1. /\ asset[k] \in AssetConfig /\ asset[k].total_claimable \in Nat /\ vault[k] \in Nat
        BY FieldFacts DEF TypeOK
    <2>2. ClaimPosition(u, k) \in Position
        <3>1. 0 \in Nat
            OBVIOUS
        <3> QED BY <3>1, ClaimedFacts
    <2>3. ClaimPosition(u, k).claimable \in Nat
        BY <2>2 DEF Position
    <2>4. /\ claimed[k] \in Nat /\ claimed[k] <= vault[k]
          /\ claimed[k] <= asset[k].total_claimable
        BY <2>1, <2>3, ClaimedFacts
    <2> HIDE DEF claimed
    <2>5. /\ asset'[k].listed = asset[k].listed
          /\ asset'[k].total_claimable = SaturatingSub(asset[k].total_claimable, claimed[k])
          /\ vault'[k] = vault[k] - claimed[k]
        BY <1>1, <2>1 DEF AssetConfig
    <2>6. asset[k].total_claimable <= vault[k]
        BY <1>2, <2>5 DEF ReserveBacked, Listed
    <2> QED BY <2>1, <2>4, <2>5, <2>6 DEF SaturatingSub
<1> QED BY <1>2 DEF ReserveBacked, Listed

\* redeem leaves every claim reserve backed by its vault.
LEMMA RedeemReserve ==
    ASSUME TypeOK, SupplyConserved, ReserveBacked, NEW u \in Users, NEW x \in GraiAmounts,
           Redeem(u, x)
    PROVE  ReserveBacked'
<1>1. x \in Nat /\ x <= supply /\ supply \in Nat
    BY RedeemFacts DEF TypeOK, GraiType
<1>2. /\ asset' = asset
      /\ vault' = [a \in Assets |->
                     IF asset[a].listed
                     THEN vault[a] - LiquidateShare(
                            RedeemableBalance(vault[a], asset[a].total_claimable), x, supply)
                     ELSE vault[a]]
    BY DEF Redeem
<1>3. ASSUME NEW k \in Assets, asset[k].listed
      PROVE  asset[k].total_claimable <= vault'[k]
    <2> DEFINE bal == RedeemableBalance(vault[k], asset[k].total_claimable)
    <2>1. asset[k].total_claimable \in Nat /\ vault[k] \in Nat
        BY FieldFacts DEF TypeOK
    <2>2. asset[k].total_claimable <= vault[k]
        BY <1>3 DEF ReserveBacked, Listed
    <2>3. bal \in Nat /\ bal = vault[k] - asset[k].total_claimable
        BY <2>1, <2>2 DEF RedeemableBalance, SaturatingSub
    <2>4. vault'[k] = vault[k] - LiquidateShare(bal, x, supply)
        BY <1>2, <1>3
    <2> HIDE DEF bal
    <2>5. LiquidateShare(bal, x, supply) \in Nat /\ LiquidateShare(bal, x, supply) <= bal
        BY <1>1, <2>3, LiquidateShareFacts
    <2> QED BY <2>1, <2>3, <2>4, <2>5
<1> QED BY <1>2, <1>3 DEF ReserveBacked, Listed

\* revive leaves every claim reserve backed by its vault.
LEMMA ReviveReserve ==
    ASSUME TypeOK, ReserveBacked, Revive
    PROVE  ReserveBacked'
<1>1. /\ asset' = asset
      /\ vault' = [a \in Assets |->
                     IF asset[a].listed
                     THEN vault[a] - RedeemableBalance(vault[a], asset[a].total_claimable)
                     ELSE vault[a]]
    BY DEF Revive
<1>2. ASSUME NEW k \in Assets, asset[k].listed
      PROVE  asset[k].total_claimable <= vault'[k]
    <2>1. asset[k].total_claimable \in Nat /\ vault[k] \in Nat
        BY FieldFacts DEF TypeOK
    <2>2. asset[k].total_claimable <= vault[k]
        BY <1>2 DEF ReserveBacked, Listed
    <2>3. vault'[k] = vault[k] - RedeemableBalance(vault[k], asset[k].total_claimable)
        BY <1>1, <1>2
    <2> QED BY <2>1, <2>2, <2>3 DEF RedeemableBalance, SaturatingSub
<1> QED BY <1>1, <1>2 DEF ReserveBacked, Listed

\* Calls that leave reserves and vaults as they are, or only bring tokens in.
LEMMA QuietReserve ==
    ASSUME TypeOK, TypeOK', ReserveBacked,
           \A k \in Assets : asset'[k].listed =>
             /\ asset[k].listed /\ asset'[k].total_claimable = asset[k].total_claimable
             /\ vault'[k] >= vault[k]
    PROVE  ReserveBacked'
<1>1. ASSUME NEW k \in Assets, asset'[k].listed
      PROVE  asset'[k].total_claimable <= vault'[k]
    <2>1. /\ asset[k].total_claimable \in Nat /\ vault[k] \in Nat /\ vault'[k] \in Nat
        BY FieldFacts DEF TypeOK, AssetType
    <2>2. asset[k].total_claimable <= vault[k]
        BY <1>1 DEF ReserveBacked, Listed
    <2> QED BY <1>1, <2>1, <2>2
<1> QED BY <1>1 DEF ReserveBacked, Listed

\* Every instruction leaves each claim reserve backed by its vault.
LEMMA ReserveStep ==
    ASSUME TypeOK, TypeOK', SupplyConserved, ReserveBacked, [Next]_vars
    PROVE  ReserveBacked'
<1>0. \A k \in Assets : vault[k] \in Nat /\ asset[k] \in AssetConfig
    BY FieldFacts DEF TypeOK
<1>1. CASE UNCHANGED assetVars
    BY <1>1 DEF ReserveBacked, Listed, assetVars
<1>2. ASSUME NEW a \in Assets, NEW paused \in PauseFlags, ListAsset(a, paused)
      PROVE  ReserveBacked'
    <2>1. /\ asset' = [asset EXCEPT ![a] = [Unlisted EXCEPT !.listed = TRUE, !.paused = paused]]
          /\ vault' = vault
        BY <1>2 DEF ListAsset
    <2>2. asset'[a].total_claimable = 0 /\ \A k \in Assets \ {a} : asset'[k] = asset[k]
        BY <2>1 DEF Unlisted, TypeOK, AssetType
    <2> QED BY <1>0, <2>1, <2>2 DEF ReserveBacked, Listed
<1>3. ASSUME NEW a \in Assets, NEW paused \in PauseFlags, ReplaceFeed(a, paused)
      PROVE  ReserveBacked'
    <2>1. asset' = [asset EXCEPT ![a].paused = paused] /\ vault' = vault
        BY <1>3 DEF ReplaceFeed
    <2>2. \A k \in Assets : /\ asset'[k].listed = asset[k].listed
                            /\ asset'[k].total_claimable = asset[k].total_claimable
        BY <2>1 DEF TypeOK, AssetType, AssetConfig
    <2> QED BY <2>1, <2>2 DEF ReserveBacked, Listed
<1>4. ASSUME NEW a \in Assets, DelistAsset(a) PROVE ReserveBacked'
    <2>1. asset' = [asset EXCEPT ![a] = Unlisted] /\ vault' = vault
        BY <1>4 DEF DelistAsset
    <2>2. asset'[a].listed = FALSE /\ \A k \in Assets \ {a} : asset'[k] = asset[k]
        BY <2>1 DEF Unlisted, TypeOK, AssetType
    <2> QED BY <2>1, <2>2 DEF ReserveBacked, Listed
<1>5. ASSUME NEW a \in Assets, NEW flag \in BribeFlags, SetBribeable(a, flag)
      PROVE  ReserveBacked'
    <2>1. asset' = [asset EXCEPT ![a].bribeable = flag] /\ vault' = vault
        BY <1>5 DEF SetBribeable
    <2>2. \A k \in Assets : /\ asset'[k].listed = asset[k].listed
                            /\ asset'[k].total_claimable = asset[k].total_claimable
        BY <2>1 DEF TypeOK, AssetType, AssetConfig
    <2> QED BY <2>1, <2>2 DEF ReserveBacked, Listed
<1>6. ASSUME NEW a \in Assets, NEW x \in SweepAmounts, SweepIn(a, x) PROVE ReserveBacked'
    <2>1. x \in Nat /\ asset' = asset /\ vault' = [vault EXCEPT ![a] = @ + x]
        BY <1>6, InputFacts DEF SweepIn
    <2>2. \A k \in Assets : vault'[k] >= vault[k]
        BY <1>0, <2>1 DEF TypeOK, AssetType
    <2> QED BY <2>1, <2>2, QuietReserve
<1>7. CASE UNCHANGED vars
    BY <1>1, <1>7 DEF vars
<1>8. CASE \/ \E u \in Users, a \in Assets, x \in DepositAmounts, lock \in BOOLEAN :
                Deposit(u, a, x, lock)
           \/ \E u \in Users, x \in GraiAmounts : Lock(u, x)
           \/ \E u \in Users, x \in GraiAmounts : Unlock(u, x)
           \/ \E u \in Users, x \in GraiAmounts : Vote(u, x)
           \/ \E b \in Users, s \in Users, x \in SendAmounts : PoachPayment(b, s, x)
           \/ \E u \in Users : Liquidate(u)
           \/ \E c \in Configs : SetConfig(c)
           \/ \E split \in ShareSplits : SetRevenueShareBps(split)
    BY <1>1, <1>8 DEF Deposit, Lock, Unlock, Vote, PoachPayment, Liquidate, SetConfig,
       SetRevenueShareBps
<1>9. CASE \/ \E u \in Users, v \in Users, x \in SendAmounts : TransferGrai(u, v, x)
           \/ \E u \in Users, x \in SendAmounts : StrayGrai(u, x)
           \/ \E u \in Users, x \in BurnAmounts : BurnGrai(u, x)
           \/ \E u \in Users, x \in GraiAmounts : WithdrawGrai(u, x)
           \/ GrindersHeartbeat
           \/ \E a \in Assets, p \in Prices : FeedReport(a, p)
           \/ Tick
    BY <1>1, <1>9 DEF TransferGrai, StrayGrai, BurnGrai, WithdrawGrai, GrindersHeartbeat,
       FeedReport, Tick
<1> QED BY <1>2, <1>3, <1>4, <1>5, <1>6, <1>7, <1>8, <1>9, DistributeReserve, BribeReserve,
           ClaimReserve, ClaimAllReserve, RedeemReserve, ReviveReserve DEF Next

-------------------------------------------------------------------------------
(* The book. *)

\* What a deposit and a redeem do to the book.
LEMMA DepositBook ==
    ASSUME TypeOK, NEW u \in Users, NEW a \in Assets, NEW x \in DepositAmounts,
           NEW lock \in BOOLEAN, Deposit(u, a, x, lock)
    PROVE  \E value, out \in Nat \ {0} :
             /\ supply' = supply + out /\ totalValue' = totalValue + value
             /\ totalValue > 0 => out * totalValue <= value * supply
<1> DEFINE value == UsdValue(x, price[a])
           out   == PreviewDeposit(value, supply, totalValue,
                                   config.mint_premium_bps_per_year, Genesis, now)
<1>1. /\ value > 0 /\ out > 0 /\ supply' = supply + out /\ totalValue' = totalValue + value
    BY DEF Deposit
<1>2. /\ x \in Nat /\ price[a] \in Nat /\ totalValue \in Nat /\ supply \in Nat
      /\ now \in Nat /\ now >= 1
    BY InputFacts DEF TypeOK, EnvType, BookType, GraiType, Genesis
<1>3. x * price[a] \in Nat
    BY <1>2
<1>4. value \in Nat
    BY <1>3, DivFacts, ScaleAssumption DEF UsdValue
<1> HIDE DEF value
<1>5. out \in Nat /\ (totalValue > 0 => out * totalValue <= value * supply)
    BY <1>2, <1>4, ConfigFacts, PreviewDepositFacts DEF TypeOK, Genesis
<1> HIDE DEF out
<1> QED BY <1>1, <1>4, <1>5

\* redeem leaves a book behind every remaining share.
LEMMA RedeemBook ==
    ASSUME TypeOK, SupplyConserved, NEW u \in Users, NEW x \in GraiAmounts, Redeem(u, x)
    PROVE  \E value \in Nat :
             /\ x \in Nat /\ x <= supply /\ value <= totalValue
             /\ supply' = supply - x /\ totalValue' = totalValue - value
             /\ value * supply <= x * totalValue
<1> DEFINE value == LiquidateValue(x, supply, totalValue)
<1>1. supply' = supply - x /\ totalValue' = totalValue - value /\ totalValue >= value
    BY DEF Redeem
<1>2. x \in Nat /\ x <= supply /\ supply \in Nat /\ totalValue \in Nat
    BY RedeemFacts DEF TypeOK, GraiType, BookType
<1>3. value \in Nat /\ value * supply <= x * totalValue
    BY <1>2, LiquidateValueFacts
<1> HIDE DEF value
<1> QED BY <1>1, <1>2, <1>3

\* The supply and the book move only in deposit, redeem, revive and a holder's burn.
LEMMA BookSteps ==
    ASSUME TypeOK, SupplyConserved, [Next]_vars
    PROVE  \/ UNCHANGED <<supply, totalValue>>
           \/ \E value, out \in Nat \ {0} :
                /\ supply' = supply + out /\ totalValue' = totalValue + value
                /\ totalValue > 0 => out * totalValue <= value * supply
           \/ \E value, x \in Nat :
                /\ x <= supply /\ value <= totalValue
                /\ supply' = supply - x /\ totalValue' = totalValue - value
                /\ value * supply <= x * totalValue
           \/ supply = 0 /\ supply' = 0
<1> DEFINE Goal == \/ UNCHANGED <<supply, totalValue>>
                   \/ \E value, out \in Nat \ {0} :
                        /\ supply' = supply + out /\ totalValue' = totalValue + value
                        /\ totalValue > 0 => out * totalValue <= value * supply
                   \/ \E value, x \in Nat :
                        /\ x <= supply /\ value <= totalValue
                        /\ supply' = supply - x /\ totalValue' = totalValue - value
                        /\ value * supply <= x * totalValue
                   \/ supply = 0 /\ supply' = 0
<1>1. ASSUME NEW u \in Users, NEW a \in Assets, NEW x \in DepositAmounts, NEW lock \in BOOLEAN,
             Deposit(u, a, x, lock)
      PROVE  Goal
    BY <1>1, DepositBook
<1>2. ASSUME NEW u \in Users, NEW x \in GraiAmounts, Redeem(u, x)
      PROVE  Goal
    BY <1>2, RedeemBook
<1>3. CASE Revive
    <2>1. supply' = supply /\ totalValue' = IF supply = 0 THEN 0 ELSE totalValue
        BY <1>3 DEF Revive, graiVars
    <2> QED BY <2>1
<1>4. ASSUME NEW u \in Users, NEW x \in BurnAmounts, BurnGrai(u, x)
      PROVE  Goal
    <2>1. x <= wallet[u] /\ supply' = supply - x /\ totalValue' = totalValue
        BY <1>4 DEF BurnGrai
    <2>2. Total(wallet) \in Nat /\ wallet[u] <= Total(wallet)
        BY UserTotals DEF TypeOK, GraiType
    <2>3. /\ x \in Nat /\ wallet[u] \in Nat /\ supply \in Nat /\ graiVault \in Nat
          /\ grindersGrai \in Nat /\ totalValue \in Nat
        BY InputFacts DEF TypeOK, GraiType, BookType
    <2>4. x <= supply
        BY <2>1, <2>2, <2>3 DEF SupplyConserved
    <2>5. 0 \in Nat /\ totalValue' = totalValue - 0 /\ 0 <= totalValue /\ 0 * supply <= x * totalValue
        BY <2>1, <2>3
    <2> QED BY <2>1, <2>3, <2>4, <2>5
<1>5. CASE UNCHANGED vars
    BY <1>5 DEF vars, graiVars
<1>6. CASE \/ \E u \in Users, x \in GraiAmounts : Lock(u, x)
           \/ \E u \in Users, x \in GraiAmounts : Unlock(u, x)
           \/ \E u \in Users, x \in GraiAmounts : Vote(u, x)
           \/ \E b \in Users, u \in Users, a \in Assets, x \in GraiAmounts : Bribe(b, u, a, x)
           \/ \E b \in Users, s \in Users, x \in SendAmounts : PoachPayment(b, s, x)
           \/ \E c \in Users \cup {Outsider}, a \in Assets, y \in YieldAmounts : Distribute(c, a, y)
           \/ \E u \in Users, a \in Assets, x \in ClaimAmounts : Claim(u, a, x)
           \/ \E u \in Users : ClaimAll(u)
           \/ \E u \in Users : Liquidate(u)
    BY <1>6 DEF Lock, Unlock, Vote, Bribe, PoachPayment, Distribute, Claim, ClaimAll, Liquidate,
       graiVars
<1>7. CASE \/ \E c \in Configs : SetConfig(c)
           \/ \E split \in ShareSplits : SetRevenueShareBps(split)
           \/ \E a \in Assets, paused \in PauseFlags : ListAsset(a, paused)
           \/ \E a \in Assets, paused \in PauseFlags : ReplaceFeed(a, paused)
           \/ \E a \in Assets : DelistAsset(a)
           \/ \E a \in Assets, flag \in BribeFlags : SetBribeable(a, flag)
    BY <1>7 DEF SetConfig, SetRevenueShareBps, ListAsset, ReplaceFeed, DelistAsset, SetBribeable,
       graiVars
<1>8. CASE \/ \E u \in Users, v \in Users, x \in SendAmounts : TransferGrai(u, v, x)
           \/ \E u \in Users, x \in SendAmounts : StrayGrai(u, x)
           \/ \E u \in Users, x \in GraiAmounts : WithdrawGrai(u, x)
           \/ \E a \in Assets, x \in SweepAmounts : SweepIn(a, x)
           \/ GrindersHeartbeat
           \/ \E a \in Assets, p \in Prices : FeedReport(a, p)
           \/ Tick
    BY <1>8 DEF TransferGrai, StrayGrai, WithdrawGrai, SweepIn, GrindersHeartbeat, FeedReport,
       Tick, graiVars
<1> QED BY <1>1, <1>2, <1>3, <1>4, <1>5, <1>6, <1>7, <1>8 DEF Next

\* Redeeming fewer shares than there are leaves some book.
LEMMA SharesBackedStep ==
    ASSUME TypeOK, TypeOK', SupplyConserved, SharesBacked, [Next]_vars
    PROVE  SharesBacked'
<1>0. supply \in Nat /\ totalValue \in Nat
    BY DEF TypeOK, GraiType, BookType
<1>1. ASSUME NEW value \in Nat \ {0}, NEW out \in Nat \ {0},
             supply' = supply + out, totalValue' = totalValue + value
      PROVE  SharesBacked'
    BY <1>0, <1>1 DEF SharesBacked
<1>2. ASSUME NEW value \in Nat, NEW x \in Nat, x <= supply, value <= totalValue,
             supply' = supply - x, totalValue' = totalValue - value,
             value * supply <= x * totalValue, supply' > 0
      PROVE  totalValue' > 0
    <2>1. x < supply /\ totalValue > 0
        BY <1>0, <1>2 DEF SharesBacked
    <2>2. x * totalValue < supply * totalValue
        BY <1>0, <2>1
    <2>3. value * supply < totalValue * supply
        BY <1>0, <1>2, <2>2
    <2>4. value < totalValue
        BY <1>0, <1>2, <2>3
    <2> QED BY <1>0, <1>2, <2>4
<1> QED BY <1>0, <1>1, <1>2, BookSteps DEF SharesBacked

\* No step lowers the book value of a share.
LEMMA BookPerShareStep ==
    ASSUME TypeOK, SupplyConserved, SharesBacked, [Next]_vars, supply > 0, supply' > 0
    PROVE  totalValue' * supply >= totalValue * supply'
<1>0. supply \in Nat /\ totalValue \in Nat /\ totalValue > 0
    BY DEF TypeOK, GraiType, BookType, SharesBacked
<1>1. ASSUME NEW value \in Nat \ {0}, NEW out \in Nat \ {0},
             supply' = supply + out, totalValue' = totalValue + value,
             out * totalValue <= value * supply
      PROVE  totalValue' * supply >= totalValue * supply'
    <2>1. totalValue' * supply = totalValue * supply + value * supply
        BY <1>0, <1>1
    <2>2. totalValue * supply' = totalValue * supply + out * totalValue
        BY <1>0, <1>1
    <2>3. totalValue * supply \in Nat /\ value * supply \in Nat /\ out * totalValue \in Nat
        BY <1>0
    <2> QED BY <1>1, <2>1, <2>2, <2>3
<1>2. ASSUME NEW value \in Nat, NEW x \in Nat, x <= supply, value <= totalValue,
             supply' = supply - x, totalValue' = totalValue - value,
             value * supply <= x * totalValue
      PROVE  totalValue' * supply >= totalValue * supply'
    <2>1. totalValue' * supply = totalValue * supply - value * supply
        BY <1>0, <1>2
    <2>2. totalValue * supply' = totalValue * supply - x * totalValue
        BY <1>0, <1>2
    <2>3. totalValue * supply \in Nat /\ value * supply \in Nat /\ x * totalValue \in Nat
        BY <1>0
    <2> QED BY <1>2, <2>1, <2>2, <2>3
<1>3. CASE UNCHANGED <<supply, totalValue>>
    <2>1. totalValue * supply \in Nat
        BY <1>0
    <2> QED BY <1>3, <2>1
<1> QED BY <1>0, <1>1, <1>2, <1>3, BookSteps

-------------------------------------------------------------------------------
(* Settling never overflows for an open lock. *)

\* Locks that shrink and indices that stay keep every product in range.
LEMMA QuietTrap ==
    ASSUME TypeOK, TypeOK', NoLockerTrapped,
           \A v \in Users : locked'[v] <= locked[v],
           \A k \in Assets : asset'[k].listed =>
             asset[k].listed /\ asset'[k].acc_share = asset[k].acc_share
    PROVE  NoLockerTrapped'
<1>1. ASSUME NEW v \in Users, NEW k \in Assets, asset'[k].listed
      PROVE  locked'[v] * asset'[k].acc_share <= MAX_U128
    <2>1. locked[v] \in Nat /\ locked'[v] \in Nat /\ asset[k].acc_share \in Nat
        BY FieldFacts DEF TypeOK, EscrowType
    <2>2. locked[v] * asset[k].acc_share <= MAX_U128
        BY <1>1 DEF NoLockerTrapped, Listed
    <2>3. /\ locked'[v] * asset[k].acc_share <= locked[v] * asset[k].acc_share
          /\ locked'[v] * asset[k].acc_share \in Nat /\ locked[v] * asset[k].acc_share \in Nat
        BY <2>1, MulMono
    <2> QED BY <1>1, <2>2, <2>3, ScaleAssumption
<1> QED BY <1>1 DEF NoLockerTrapped, Listed

\* perform_lock settles at the new lock, so it refuses a lock that could not be settled.
LEMMA PerformLockTrap ==
    ASSUME TypeOK, NoLockerTrapped, NEW u \in Users, NEW x \in Nat, PerformLock(u, x), asset' = asset
    PROVE  NoLockerTrapped'
<1>1. locked' = [locked EXCEPT ![u] = @ + x] /\ SettleFits(locked[u], locked[u] + x)
    BY DEF PerformLock
<1>2. locked \in [Users -> Nat]
    BY DEF TypeOK, EscrowType
<1>3. ASSUME NEW v \in Users, NEW k \in Assets, asset[k].listed
      PROVE  locked'[v] * asset[k].acc_share <= MAX_U128
    <2>1. CASE v = u
        <3>1. locked'[u] = locked[u] + x
            BY <1>1, <1>2
        <3>2. (locked[u] + x) * asset[k].acc_share <= MAX_U128
            BY <1>1, <1>3 DEF SettleFits, Listed
        <3> QED BY <2>1, <3>1, <3>2
    <2>2. CASE v # u
        <3>1. locked'[v] = locked[v]
            BY <1>1, <1>2, <2>2
        <3> QED BY <1>3, <3>1 DEF NoLockerTrapped, Listed
    <2> QED BY <2>1, <2>2
<1> QED BY <1>3 DEF NoLockerTrapped, Listed

\* A raised index is checked against the sum of the locks, hence against each of them.
LEMMA CreditedTrap ==
    ASSUME TypeOK, LedgerInv', NoLockerTrapped, NEW a \in Assets, NEW cut \in Nat,
           \A v \in Users : locked'[v] <= locked[v],
           DistributeFits(asset[a].acc_share, cut, totalLocked'),
           asset' = Credited(a, DistributeDividend(asset[a].acc_share, cut, totalLocked'))
    PROVE  NoLockerTrapped'
<1> DEFINE d == DistributeDividend(asset[a].acc_share, cut, totalLocked')
<1>1. totalLocked' \in Nat /\ asset[a].acc_share \in Nat
    BY FieldFacts DEF LedgerInv, TypeOK, EscrowType
<1>2. /\ d.acc \in Nat /\ d.reserved \in Nat
      /\ DistributeFits(asset[a].acc_share, cut, totalLocked') /\ d.acc # asset[a].acc_share
           => d.acc * totalLocked' <= MAX_U128
    BY <1>1, DistributeFacts
<1>3. asset' = Credited(a, d)
    OBVIOUS
<1> HIDE DEF d
<1>4. ASSUME NEW v \in Users, NEW k \in Assets, asset'[k].listed
      PROVE  locked'[v] * asset'[k].acc_share <= MAX_U128
    <2>1. locked[v] \in Nat /\ locked'[v] \in Nat /\ asset[k].acc_share \in Nat
        BY FieldFacts DEF LedgerInv, TypeOK, EscrowType
    <2>2. /\ asset'[k].listed = asset[k].listed
          /\ asset'[k].acc_share = IF k = a THEN d.acc ELSE asset[k].acc_share
        BY <1>3 DEF Credited, TypeOK, AssetType, AssetConfig
    <2>3. CASE asset'[k].acc_share = asset[k].acc_share
        <3>1. locked[v] * asset[k].acc_share <= MAX_U128
            BY <1>4, <2>2 DEF NoLockerTrapped, Listed
        <3>2. /\ locked'[v] * asset[k].acc_share <= locked[v] * asset[k].acc_share
              /\ locked'[v] * asset[k].acc_share \in Nat /\ locked[v] * asset[k].acc_share \in Nat
            BY <2>1, MulMono
        <3> QED BY <2>3, <3>1, <3>2, ScaleAssumption
    <2>4. CASE asset'[k].acc_share # asset[k].acc_share
        <3>1. k = a /\ asset'[k].acc_share = d.acc /\ d.acc # asset[a].acc_share
            BY <2>2, <2>4
        <3>2. d.acc * totalLocked' <= MAX_U128
            BY <1>2, <3>1
        <3>3. locked'[v] <= totalLocked'
            <4>1. locked' \in [Users -> Nat] /\ totalLocked' = Total(locked')
                BY DEF LedgerInv, TypeOK, EscrowType, LocksExact
            <4>2. locked'[v] <= Total(locked')
                BY <4>1, UserTotals
            <4> QED BY <4>1, <4>2
        <3>4. /\ locked'[v] * d.acc <= totalLocked' * d.acc
              /\ locked'[v] * d.acc \in Nat /\ totalLocked' * d.acc \in Nat
            BY <1>1, <1>2, <2>1, <3>3, MulMono
        <3>5. totalLocked' * d.acc = d.acc * totalLocked'
            BY <1>1, <1>2
        <3> QED BY <3>1, <3>2, <3>4, <3>5, ScaleAssumption
    <2> QED BY <2>3, <2>4
<1> QED BY <1>4 DEF NoLockerTrapped, Listed

\* No instruction lets the index of a listed asset outgrow a lock that exists.
LEMMA TrapStep ==
    ASSUME LedgerInv, LedgerInv', NoLockerTrapped, [Next]_vars
    PROVE  NoLockerTrapped'
<1>0. /\ TypeOK /\ TypeOK' /\ SupplyConserved /\ locked \in [Users -> Nat]
      /\ asset \in [Assets -> AssetConfig]
    BY DEF LedgerInv, TypeOK, EscrowType, AssetType
<1>1. CASE UNCHANGED <<locked, asset>>
    BY <1>1 DEF NoLockerTrapped, Listed
<1>2. ASSUME NEW u \in Users, NEW a \in Assets, NEW x \in DepositAmounts, NEW lock \in BOOLEAN,
             Deposit(u, a, x, lock)
      PROVE  NoLockerTrapped'
    <2> DEFINE out == PreviewDeposit(UsdValue(x, price[a]), supply, totalValue,
                                     config.mint_premium_bps_per_year, Genesis, now)
    <2>1. /\ asset' = asset /\ supply' = supply + out
          /\ PerformLock(u, out) \/ UNCHANGED locked
        BY <1>2 DEF Deposit, assetVars
    <2> HIDE DEF out
    <2>2. CASE UNCHANGED locked
        BY <1>1, <2>1, <2>2
    <2>3. CASE PerformLock(u, out)
        <3>1. PICK minted \in Nat : supply' = supply + minted
            BY <1>0, <1>2, DepositBook
        <3>2. out > 0 /\ locked' = [locked EXCEPT ![u] = @ + out]
            BY <2>3 DEF PerformLock
        <3>3. out \in Nat
            <4>1. /\ x \in Nat /\ price[a] \in Nat /\ totalValue \in Nat /\ now \in Nat /\ now >= 1
                  /\ supply \in Nat
                BY <1>0, InputFacts DEF TypeOK, EnvType, BookType, GraiType, Genesis
            <4>2. x * price[a] \in Nat
                BY <4>1
            <4>3. UsdValue(x, price[a]) \in Nat
                BY <4>2, DivFacts, ScaleAssumption DEF UsdValue
            <4> QED BY <1>0, <4>1, <4>3, ConfigFacts, PreviewDepositFacts DEF TypeOK, Genesis, out
        <3> QED BY <1>0, <2>1, <2>3, <3>3, PerformLockTrap
    <2> QED BY <2>1, <2>2, <2>3
<1>3. ASSUME NEW u \in Users, NEW x \in GraiAmounts, Lock(u, x) PROVE NoLockerTrapped'
    <2>1. PerformLock(u, x) /\ asset' = asset /\ x \in Nat
        BY <1>3, InputFacts DEF Lock, assetVars
    <2> QED BY <1>0, <2>1, PerformLockTrap
<1>4. ASSUME NEW u \in Users, NEW x \in GraiAmounts, Vote(u, x) PROVE NoLockerTrapped'
    <2> DEFINE shortfall == SaturatingSub(voted[u] + x, locked[u])
    <2>1. asset' = asset /\ (PerformLock(u, shortfall) \/ UNCHANGED locked)
        BY <1>4 DEF Vote, assetVars
    <2>2. x \in Nat /\ voted[u] \in Nat /\ locked[u] \in Nat
        BY <1>0, InputFacts DEF TypeOK, EscrowType
    <2>3. shortfall \in Nat
        BY <2>2 DEF SaturatingSub
    <2> HIDE DEF shortfall
    <2> QED BY <1>0, <1>1, <2>1, <2>3, PerformLockTrap
<1>5. ASSUME NEW u \in Users, NEW x \in Nat, locked' = [locked EXCEPT ![u] = @ - x]
      PROVE  \A v \in Users : locked'[v] <= locked[v]
    BY <1>0, <1>5
<1>6. ASSUME NEW u \in Users, NEW x \in GraiAmounts, Unlock(u, x) PROVE NoLockerTrapped'
    <2>1. locked' = [locked EXCEPT ![u] = @ - x] /\ asset' = asset /\ x \in Nat
        BY <1>6, InputFacts DEF Unlock, ShrinkLock, assetVars
    <2>2. \A v \in Users : locked'[v] <= locked[v]
        BY <1>5, <2>1
    <2> QED BY <1>0, <2>1, <2>2, QuietTrap
<1>7. ASSUME NEW u \in Users, NEW x \in GraiAmounts, Redeem(u, x) PROVE NoLockerTrapped'
    <2> DEFINE burn == x - MinOf(x, wallet[u])
    <2>1. burn \in Nat
        BY <1>0, <1>7, RedeemFacts
    <2>2. asset' = asset /\ (locked' = [locked EXCEPT ![u] = @ - burn] \/ locked' = locked)
        <3>1. asset' = asset /\ (ShrinkLock(u, burn) \/ UNCHANGED lockVars)
            BY <1>7 DEF Redeem
        <3> QED BY <3>1 DEF ShrinkLock, lockVars
    <2> HIDE DEF burn
    <2>3. \A v \in Users : locked[v] <= locked[v]
        BY <1>0
    <2>4. \A v \in Users : locked'[v] <= locked[v]
        BY <1>5, <2>1, <2>2, <2>3
    <2> QED BY <1>0, <2>2, <2>4, QuietTrap
<1>8. ASSUME NEW b \in Users, NEW u \in Users, NEW a \in Assets, NEW x \in GraiAmounts,
             Bribe(b, u, a, x)
      PROVE  NoLockerTrapped'
    <2>1. /\ locked' = [locked EXCEPT ![u] = @ - x] /\ totalLocked' = totalLocked - x /\ x \in Nat
        BY <1>8, InputFacts DEF Bribe
    <2>2. \A v \in Users : locked'[v] <= locked[v]
        BY <1>5, <2>1
    <2>3. PICK pool, cut \in Nat :
             LET d == DistributeDividend(asset[a].acc_share, cut, totalLocked - x)
             IN  /\ cut <= pool
                 /\ DistributeFits(asset[a].acc_share, cut, totalLocked - x)
                 /\ asset' = Credited(a, d)
                 /\ vault' = [vault EXCEPT ![a] = @ + d.reserved]
                 /\ treasury' = [treasury EXCEPT ![a] = @ + (pool - d.reserved)]
        BY <1>0, <1>8, BribeFacts
    <2>4. /\ DistributeFits(asset[a].acc_share, cut, totalLocked')
          /\ asset' = Credited(a, DistributeDividend(asset[a].acc_share, cut, totalLocked'))
        BY <2>1, <2>3
    <2> QED BY <1>0, <2>2, <2>4, CreditedTrap
<1>9. ASSUME NEW c \in Users \cup {Outsider}, NEW a \in Assets, NEW y \in YieldAmounts,
             Distribute(c, a, y)
      PROVE  NoLockerTrapped'
    <2>1. locked' = locked /\ totalLocked' = totalLocked
        BY <1>9 DEF Distribute, escrowVars
    <2>2. \A v \in Users : locked'[v] <= locked[v]
        BY <1>0, <2>1
    <2>3. PICK cut \in Nat :
             LET d == DistributeDividend(asset[a].acc_share, cut, totalLocked)
             IN  /\ y \in Nat /\ cut <= y
                 /\ DistributeFits(asset[a].acc_share, cut, totalLocked)
                 /\ asset' = Credited(a, d)
                 /\ vault' = [vault EXCEPT ![a] = @ + d.reserved]
                 /\ treasury' = [treasury EXCEPT ![a] = @ + (y - d.reserved)]
        BY <1>0, <1>9, DistributeActionFacts
    <2>4. /\ DistributeFits(asset[a].acc_share, cut, totalLocked')
          /\ asset' = Credited(a, DistributeDividend(asset[a].acc_share, cut, totalLocked'))
        BY <2>1, <2>3
    <2> QED BY <1>0, <2>2, <2>4, CreditedTrap
<1>10. ASSUME locked' = locked,
              \A k \in Assets : asset'[k].listed =>
                asset[k].listed /\ asset'[k].acc_share = asset[k].acc_share
       PROVE  NoLockerTrapped'
    <2>1. \A v \in Users : locked'[v] <= locked[v]
        BY <1>0, <1>10
    <2> QED BY <1>0, <1>10, <2>1, QuietTrap
<1>11. ASSUME NEW u \in Users, NEW a \in Assets, NEW x \in ClaimAmounts, Claim(u, a, x)
       PROVE  NoLockerTrapped'
    <2>1. /\ locked' = locked
          /\ asset' = [asset EXCEPT ![a].total_claimable = SaturatingSub(@, Claimed(u, a, x))]
        BY <1>11 DEF Claim, escrowVars
    <2>2. \A k \in Assets : /\ asset'[k].listed = asset[k].listed
                            /\ asset'[k].acc_share = asset[k].acc_share
        BY <1>0, <2>1 DEF AssetConfig
    <2> QED BY <1>10, <2>1, <2>2
<1>12. ASSUME NEW u \in Users, ClaimAll(u) PROVE NoLockerTrapped'
    <2> DEFINE claimed == [a \in Assets |-> IF asset[a].listed
                                            THEN Claimed(u, a, ClaimPosition(u, a).claimable) ELSE 0]
    <2>1. /\ locked' = locked
          /\ asset' = [a \in Assets |->
                         [asset[a] EXCEPT !.total_claimable = SaturatingSub(@, claimed[a])]]
        BY <1>12 DEF ClaimAll, escrowVars
    <2> HIDE DEF claimed
    <2>2. \A k \in Assets : /\ asset'[k].listed = asset[k].listed
                            /\ asset'[k].acc_share = asset[k].acc_share
        BY <1>0, <2>1 DEF AssetConfig
    <2> QED BY <1>10, <2>1, <2>2
<1>13. ASSUME NEW a \in Assets, NEW paused \in PauseFlags, ListAsset(a, paused)
       PROVE  NoLockerTrapped'
    <2>1. /\ asset' = [asset EXCEPT ![a] = [Unlisted EXCEPT !.listed = TRUE, !.paused = paused]]
          /\ locked' = locked
        BY <1>13 DEF ListAsset, escrowVars
    <2>2. asset'[a].acc_share = 0 /\ \A k \in Assets \ {a} : asset'[k] = asset[k]
        BY <1>0, <2>1 DEF Unlisted
    <2>3. ASSUME NEW v \in Users, NEW k \in Assets, asset'[k].listed
          PROVE  locked'[v] * asset'[k].acc_share <= MAX_U128
        <3>1. CASE k = a
            <4>1. locked'[v] * asset'[k].acc_share = 0
                BY <1>0, <2>1, <2>2, <3>1
            <4> QED BY <4>1, ScaleAssumption
        <3>2. CASE k # a
            BY <2>1, <2>2, <2>3, <3>2 DEF NoLockerTrapped, Listed
        <3> QED BY <3>1, <3>2
    <2> QED BY <2>3 DEF NoLockerTrapped, Listed
<1>14. ASSUME NEW a \in Assets, NEW paused \in PauseFlags, ReplaceFeed(a, paused)
       PROVE  NoLockerTrapped'
    <2>1. asset' = [asset EXCEPT ![a].paused = paused] /\ locked' = locked
        BY <1>14 DEF ReplaceFeed, escrowVars
    <2>2. \A k \in Assets : /\ asset'[k].listed = asset[k].listed
                            /\ asset'[k].acc_share = asset[k].acc_share
        BY <1>0, <2>1 DEF AssetConfig
    <2> QED BY <1>10, <2>1, <2>2
<1>15. ASSUME NEW a \in Assets, DelistAsset(a) PROVE NoLockerTrapped'
    <2>1. asset' = [asset EXCEPT ![a] = Unlisted] /\ locked' = locked
        BY <1>15 DEF DelistAsset, escrowVars
    <2>2. asset'[a].listed = FALSE /\ \A k \in Assets \ {a} : asset'[k] = asset[k]
        BY <1>0, <2>1 DEF Unlisted
    <2> QED BY <1>10, <2>1, <2>2
<1>16. ASSUME NEW a \in Assets, NEW flag \in BribeFlags, SetBribeable(a, flag)
       PROVE  NoLockerTrapped'
    <2>1. asset' = [asset EXCEPT ![a].bribeable = flag] /\ locked' = locked
        BY <1>16 DEF SetBribeable, escrowVars
    <2>2. \A k \in Assets : /\ asset'[k].listed = asset[k].listed
                            /\ asset'[k].acc_share = asset[k].acc_share
        BY <1>0, <2>1 DEF AssetConfig
    <2> QED BY <1>10, <2>1, <2>2
<1>17. CASE UNCHANGED vars
    BY <1>1, <1>17 DEF vars, escrowVars, assetVars
<1>18. CASE \/ \E b \in Users, s \in Users, x \in SendAmounts : PoachPayment(b, s, x)
            \/ \E u \in Users : Liquidate(u)
            \/ Revive
            \/ \E c \in Configs : SetConfig(c)
            \/ \E split \in ShareSplits : SetRevenueShareBps(split)
    BY <1>1, <1>18 DEF PoachPayment, Liquidate, Revive, SetConfig, SetRevenueShareBps,
       escrowVars, assetVars
<1>19. CASE \/ \E u \in Users, v \in Users, x \in SendAmounts : TransferGrai(u, v, x)
            \/ \E u \in Users, x \in SendAmounts : StrayGrai(u, x)
            \/ \E u \in Users, x \in BurnAmounts : BurnGrai(u, x)
            \/ \E u \in Users, x \in GraiAmounts : WithdrawGrai(u, x)
            \/ \E a \in Assets, x \in SweepAmounts : SweepIn(a, x)
            \/ GrindersHeartbeat
            \/ \E a \in Assets, p \in Prices : FeedReport(a, p)
            \/ Tick
    BY <1>1, <1>19 DEF TransferGrai, StrayGrai, BurnGrai, WithdrawGrai, SweepIn,
       GrindersHeartbeat, FeedReport, Tick, escrowVars, assetVars
<1> QED BY <1>2, <1>3, <1>4, <1>6, <1>7, <1>8, <1>9, <1>11, <1>12, <1>13, <1>14, <1>15, <1>16,
           <1>17, <1>18, <1>19 DEF Next

-------------------------------------------------------------------------------
(* The invariant and the theorems. *)

\* The solvency invariant holds after initialize.
LEMMA SolvencyInit == Init => SolvencyInv
<1> SUFFICES ASSUME Init PROVE SolvencyInv
    OBVIOUS
<1>1. LedgerInv
    BY LedgerInit
<1>2. \A a \in Assets : asset[a].listed = FALSE
    BY DEF Init, Unlisted
<1>3. ReserveBacked /\ NoLockerTrapped
    BY <1>2 DEF ReserveBacked, NoLockerTrapped, Listed
<1>4. SharesBacked
    BY DEF Init, SharesBacked
<1> QED BY <1>1, <1>3, <1>4 DEF SolvencyInv

\* Every instruction, and every step of the environment, keeps the solvency invariant.
LEMMA SolvencyStep == SolvencyInv /\ [Next]_vars => SolvencyInv'
<1> SUFFICES ASSUME SolvencyInv, [Next]_vars PROVE SolvencyInv'
    OBVIOUS
<1>1. LedgerInv'
    BY LedgerStep DEF SolvencyInv
<1>2. TypeOK /\ TypeOK' /\ SupplyConserved
    BY <1>1 DEF SolvencyInv, LedgerInv
<1>3. ReserveBacked'
    BY <1>2, ReserveStep DEF SolvencyInv
<1>4. SharesBacked'
    BY <1>2, SharesBackedStep DEF SolvencyInv
<1>5. NoLockerTrapped'
    BY <1>1, TrapStep DEF SolvencyInv
<1> QED BY <1>1, <1>3, <1>4, <1>5 DEF SolvencyInv

\* The solvency invariant holds in every reachable state.
LEMMA SolvencyAlways == Spec => []SolvencyInv
BY SolvencyInit, SolvencyStep, PTL DEF Spec

\* Every listed vault holds its claim reserve at all times: distribute and bribe reserve
\* what they leave there, and claim, redeem and revive never pay out of it twice.
THEOREM ReserveAlwaysBacked == Spec => []ReserveBacked
<1>1. SolvencyInv => ReserveBacked
    BY DEF SolvencyInv
<1> QED BY <1>1, SolvencyAlways, PTL

\* Shares never outlive their book, so deposit's InsolventBook error is unreachable.
THEOREM SharesAlwaysBacked == Spec => []SharesBacked
<1>1. SolvencyInv => SharesBacked
    BY DEF SolvencyInv
<1> QED BY <1>1, SolvencyAlways, PTL

\* The u128 products of settle fit for every open lock, so no index can trap a locker.
THEOREM LockersNeverTrapped == Spec => []NoLockerTrapped
<1>1. SolvencyInv => NoLockerTrapped
    BY DEF SolvencyInv
<1> QED BY <1>1, SolvencyAlways, PTL

\* What unlock and redeem ask of the accounts when a lock shrinks by x: the products of settle,
\* the totals and the votes can be written, and the vault can pay.
ShrinkAdmitted(u, x) ==
    /\ SettleFits(locked[u], locked[u] - x)
    /\ totalLocked >= x
    /\ totalVoted >= voted[u] - MinOf(voted[u], locked[u] - x)
    /\ graiVault >= x

\* What the accounts must allow so that u can unlock any part of its lock, claim of any listed
\* asset, and redeem whatever it holds (at most the supply, at most the book).
ExitsAdmitted ==
    \A u \in Users :
      /\ \A x \in 1..locked[u] : ShrinkAdmitted(u, x)
      /\ \A a \in Listed : locked[u] * asset[a].acc_share <= MAX_U128
      /\ \A x \in 1..(wallet[u] + locked[u]) :
           LET burn == x - MinOf(x, wallet[u])
           IN  /\ x <= supply /\ LiquidateValue(x, supply, totalValue) <= totalValue
               /\ IF burn > 0 THEN ShrinkAdmitted(u, burn) ELSE SettleFits(locked[u], locked[u])

LEMMA LockShrinks ==
    ASSUME SolvencyInv, NEW u \in Users, NEW x \in 0..locked[u]
    PROVE  ShrinkAdmitted(u, x)
<1>1. /\ locked \in [Users -> Nat] /\ voted \in [Users -> Nat]
      /\ graiVault \in Nat /\ locked[u] \in Nat /\ voted[u] \in Nat
    BY DEF SolvencyInv, LedgerInv, TypeOK, EscrowType, GraiType
<1>2. x \in Nat /\ x <= locked[u] /\ locked[u] - x \in Nat /\ locked[u] - x <= locked[u]
    BY <1>1
<1>3. /\ Total(locked) \in Nat /\ locked[u] <= Total(locked)
      /\ Total(voted) \in Nat /\ voted[u] <= Total(voted)
    BY <1>1, UserTotals
<1>4. totalLocked = Total(locked) /\ totalVoted = Total(voted) /\ totalLocked <= graiVault
    BY DEF SolvencyInv, LedgerInv, LocksExact, VotesExact, VaultCoversLocks
<1>5. ASSUME NEW a \in Listed
      PROVE  /\ locked[u] * asset[a].acc_share <= MAX_U128
             /\ (locked[u] - x) * asset[a].acc_share <= MAX_U128
  <2>1. asset[a].acc_share \in Nat
    BY FieldFacts DEF SolvencyInv, LedgerInv, TypeOK, Listed
  <2>2. locked[u] * asset[a].acc_share <= MAX_U128
    BY DEF SolvencyInv, NoLockerTrapped
  <2>3. /\ (locked[u] - x) * asset[a].acc_share \in Nat /\ locked[u] * asset[a].acc_share \in Nat
        /\ (locked[u] - x) * asset[a].acc_share <= locked[u] * asset[a].acc_share
    BY <1>1, <1>2, <2>1, MulMono
  <2> QED BY <2>2, <2>3, ScaleAssumption
<1>6. SettleFits(locked[u], locked[u] - x)
    BY <1>5 DEF SettleFits
<1>7. totalLocked >= x /\ graiVault >= x
    BY <1>1, <1>2, <1>3, <1>4
<1>8. totalVoted >= voted[u] - MinOf(voted[u], locked[u] - x)
    BY <1>1, <1>2, <1>3, <1>4 DEF MinOf
<1> QED BY <1>6, <1>7, <1>8 DEF ShrinkAdmitted

\* Whatever the history, for any number of wallets and assets and any amount, no counter, vault
\* balance or u128 product refuses an unlock, a claim or a redeem: the guards of which
\* ExitsNeverBlocked asks whether the instructions are enabled.
THEOREM ExitsAlwaysAdmitted == Spec => []ExitsAdmitted
<1>1. ASSUME SolvencyInv, NEW u \in Users, NEW x \in 1..locked[u] PROVE ShrinkAdmitted(u, x)
  <2>1. locked[u] \in Nat
    BY <1>1 DEF SolvencyInv, LedgerInv, TypeOK, EscrowType
  <2>2. x \in 0..locked[u]
    BY <2>1
  <2> QED BY <1>1, <2>2, LockShrinks
<1>2. ASSUME SolvencyInv, NEW u \in Users, NEW x \in 1..(wallet[u] + locked[u])
      PROVE  LET burn == x - MinOf(x, wallet[u])
             IN  /\ x <= supply /\ LiquidateValue(x, supply, totalValue) <= totalValue
                 /\ IF burn > 0 THEN ShrinkAdmitted(u, burn)
                                ELSE SettleFits(locked[u], locked[u])
  <2> DEFINE burn == x - MinOf(x, wallet[u])
  <2>1. /\ locked \in [Users -> Nat] /\ wallet \in [Users -> Nat]
        /\ supply \in Nat /\ graiVault \in Nat /\ grindersGrai \in Nat /\ totalValue \in Nat
    BY <1>2 DEF SolvencyInv, LedgerInv, TypeOK, EscrowType, GraiType, BookType
  <2>2. wallet[u] \in Nat /\ locked[u] \in Nat
    BY <2>1
  <2>3. x \in Nat /\ x <= wallet[u] + locked[u]
    BY <2>2
  <2>4. burn \in 0..locked[u]
    BY <2>2, <2>3 DEF MinOf
  <2>5. /\ Total(wallet) \in Nat /\ wallet[u] <= Total(wallet)
        /\ Total(locked) \in Nat /\ locked[u] <= Total(locked)
    BY <2>1, UserTotals
  <2>6. /\ totalLocked = Total(locked) /\ totalLocked <= graiVault
        /\ supply = Total(wallet) + graiVault + grindersGrai
    BY <1>2 DEF SolvencyInv, LedgerInv, LocksExact, VaultCoversLocks, SupplyConserved
  <2>7. x <= supply
    BY <2>1, <2>2, <2>3, <2>5, <2>6
  <2>8. LiquidateValue(x, supply, totalValue) <= totalValue
    BY <2>1, <2>3, <2>7, LiquidateValueFacts
  <2> HIDE DEF burn
  <2>9. ShrinkAdmitted(u, burn)
    BY <1>2, <2>4, LockShrinks
  <2>10. SettleFits(locked[u], locked[u])
    BY <2>9 DEF ShrinkAdmitted, SettleFits
  <2> QED BY <2>7, <2>8, <2>9, <2>10 DEF burn
<1>3. SolvencyInv => ExitsAdmitted
  <2> SUFFICES ASSUME SolvencyInv PROVE ExitsAdmitted
    OBVIOUS
  <2>1. \A u \in Users, a \in Listed : locked[u] * asset[a].acc_share <= MAX_U128
    BY DEF SolvencyInv, NoLockerTrapped
  <2> QED BY <1>1, <1>2, <2>1 DEF ExitsAdmitted
<1> QED BY <1>3, SolvencyAlways, PTL

\* No deposit, redeem, burn or revive lowers the book value of the shares that remain.
THEOREM BookPerShareHolds == Spec => BookPerShareNeverFalls
<1>1. SolvencyInv /\ [Next]_vars
        => [supply > 0 /\ supply' > 0 => totalValue' * supply >= totalValue * supply']_vars
    <2> SUFFICES ASSUME SolvencyInv, [Next]_vars, supply > 0, supply' > 0
                 PROVE  totalValue' * supply >= totalValue * supply'
        OBVIOUS
    <2> QED BY BookPerShareStep DEF SolvencyInv, LedgerInv
<1> QED BY <1>1, SolvencyAlways, PTL DEF Spec, BookPerShareNeverFalls

\* Minting and redeeming at once never gains book value, in every reachable state.
THEOREM NoRoundTripEverGains == Spec => []NoRoundTripGain
<1>1. TypeOK => NoRoundTripGain
    <2> SUFFICES ASSUME TypeOK, NEW a \in Assets, NEW x \in DepositAmounts,
                        totalValue > 0 \/ supply = 0
                 PROVE  LET value == UsdValue(x, price[a])
                            out   == PreviewDeposit(value, supply, totalValue,
                                            config.mint_premium_bps_per_year, Genesis, now)
                        IN  LiquidateValue(out, supply + out, totalValue + value) <= value
        BY DEF NoRoundTripGain
    <2> DEFINE value == UsdValue(x, price[a])
               out   == PreviewDeposit(value, supply, totalValue,
                                       config.mint_premium_bps_per_year, Genesis, now)
               back  == LiquidateValue(out, supply + out, totalValue + value)
    <2>1. /\ x \in Nat /\ price[a] \in Nat /\ totalValue \in Nat /\ supply \in Nat
          /\ now \in Nat /\ now >= 1
        BY InputFacts DEF TypeOK, EnvType, BookType, GraiType, Genesis
    <2>2. x * price[a] \in Nat
        BY <2>1
    <2>3. value \in Nat
        BY <2>2, DivFacts, ScaleAssumption DEF UsdValue
    <2> HIDE DEF value
    <2>4. /\ out \in Nat
          /\ totalValue > 0 => out * totalValue <= value * supply
          /\ totalValue = 0 => out <= value
        BY <2>1, <2>3, ConfigFacts, PreviewDepositFacts DEF TypeOK, Genesis
    <2> HIDE DEF out
    <2>5. supply + out \in Nat /\ totalValue + value \in Nat
        BY <2>1, <2>3, <2>4
    <2>6. back \in Nat /\ back * (supply + out) <= out * (totalValue + value)
        BY <2>4, <2>5, LiquidateValueFacts
    <2>7. CASE supply + out = 0
        BY <2>3, <2>7 DEF LiquidateValue, out, value
    <2>8. CASE supply + out > 0
        <3> HIDE DEF back
        <3>1. out * totalValue <= value * supply
            <4>1. CASE totalValue > 0
                BY <2>4, <4>1
            <4>2. CASE ~(totalValue > 0)
                <5>1. totalValue = 0 /\ supply = 0
                    BY <2>1, <4>2
                <5> QED BY <2>3, <2>4, <5>1
            <4> QED BY <4>1, <4>2
        <3>2. out * (totalValue + value) = out * totalValue + out * value
            BY <2>1, <2>3, <2>4
        <3>3. value * (supply + out) = value * supply + out * value
            BY <2>1, <2>3, <2>4
        <3>4. back * (supply + out) <= value * (supply + out)
            <4>1. /\ out * totalValue \in Nat /\ out * value \in Nat /\ value * supply \in Nat
                  /\ back * (supply + out) \in Nat
                BY <2>1, <2>3, <2>4, <2>6
            <4> QED BY <2>6, <3>1, <3>2, <3>3, <4>1
        <3>5. back <= value
            BY <2>3, <2>5, <2>6, <2>8, <3>4
        <3> QED BY <3>5 DEF back, out, value
    <2> QED BY <2>5, <2>7, <2>8
<1> QED BY <1>1, TypeCorrect, PTL

\* The dates of an open liquidation never move, and it closes only after they have passed.
THEOREM WindowAlwaysHonoured == Spec => WindowHonoured
<1> DEFINE A == liquidation => IF liquidation'
                               THEN RedeemOpensAt' = RedeemOpensAt /\ ReviveOpensAt' = ReviveOpensAt
                               ELSE now >= ReviveOpensAt
<1>1. ASSUME Next
      PROVE  \/ Revive
             \/ UNCHANGED <<config, liquidation, liquidationAt>>
             \/ ~liquidation
    <2>1. CASE \/ \E u \in Users, a \in Assets, x \in ClaimAmounts : Claim(u, a, x)
               \/ \E u \in Users : ClaimAll(u)
               \/ \E u \in Users, x \in GraiAmounts : Redeem(u, x)
        BY <2>1 DEF Claim, ClaimAll, Redeem, ownerVars, liqVars
    <2>2. CASE \/ \E a \in Assets, paused \in PauseFlags : ListAsset(a, paused)
               \/ \E a \in Assets, paused \in PauseFlags : ReplaceFeed(a, paused)
        BY <2>2 DEF ListAsset, ReplaceFeed, ownerVars, liqVars
    <2>3. CASE \/ \E u \in Users, v \in Users, x \in SendAmounts : TransferGrai(u, v, x)
               \/ \E u \in Users, x \in SendAmounts : StrayGrai(u, x)
               \/ \E u \in Users, x \in BurnAmounts : BurnGrai(u, x)
               \/ \E u \in Users, x \in GraiAmounts : WithdrawGrai(u, x)
               \/ \E a \in Assets, x \in SweepAmounts : SweepIn(a, x)
        BY <2>3 DEF TransferGrai, StrayGrai, BurnGrai, WithdrawGrai, SweepIn, ownerVars, liqVars
    <2>4. CASE \/ GrindersHeartbeat
               \/ \E a \in Assets, p \in Prices : FeedReport(a, p)
               \/ Tick
        BY <2>4 DEF GrindersHeartbeat, FeedReport, Tick, ownerVars, liqVars
    <2>5. CASE \/ \E u \in Users, a \in Assets, x \in DepositAmounts, lock \in BOOLEAN : Deposit(u, a, x, lock)
               \/ \E u \in Users, x \in GraiAmounts : Lock(u, x)
               \/ \E u \in Users, x \in GraiAmounts : Unlock(u, x)
               \/ \E u \in Users, x \in GraiAmounts : Vote(u, x)
        BY <2>5 DEF Deposit, Lock, Unlock, Vote, ownerVars, liqVars
    <2>6. CASE \/ \E b \in Users, u \in Users, a \in Assets, x \in GraiAmounts : Bribe(b, u, a, x)
               \/ \E b \in Users, s \in Users, x \in SendAmounts : PoachPayment(b, s, x)
               \/ \E c \in Users \cup {Outsider}, a \in Assets, y \in YieldAmounts : Distribute(c, a, y)
        BY <2>6 DEF Bribe, PoachPayment, Distribute, ownerVars, liqVars
    <2>7. CASE \/ \E u \in Users : Liquidate(u)
               \/ \E c \in Configs : SetConfig(c)
               \/ \E split \in ShareSplits : SetRevenueShareBps(split)
               \/ \E a \in Assets : DelistAsset(a)
               \/ \E a \in Assets, flag \in BribeFlags : SetBribeable(a, flag)
        BY <2>7 DEF Liquidate, SetConfig, SetRevenueShareBps, DelistAsset, SetBribeable, ownerVars, liqVars
    <2> QED BY <1>1, <2>1, <2>2, <2>3, <2>4, <2>5, <2>6, <2>7 DEF Next
<1>2. Revive => A
    BY DEF Revive
<1>3. UNCHANGED <<config, liquidation, liquidationAt>> => A
    BY DEF RedeemOpensAt, ReviveOpensAt
<1>4. [Next]_vars => [A]_vars
    BY <1>1, <1>2, <1>3
<1> QED BY <1>4, PTL DEF Spec, WindowHonoured

-------------------------------------------------------------------------------
(* What a share can redeem. *)

\* What redeem may touch is a natural number, before and after a step.
LEMMA RedeemableType ==
    ASSUME TypeOK, TypeOK', NEW a \in Assets
    PROVE  /\ Redeemable(a) \in Nat /\ Redeemable(a)' \in Nat
           /\ supply \in Nat /\ supply' \in Nat
<1>1. vault[a] \in Nat /\ asset[a].total_claimable \in Nat
    BY FieldFacts DEF TypeOK
<1>2. vault'[a] \in Nat /\ asset'[a].total_claimable \in Nat
    BY DEF TypeOK, AssetType, AssetConfig
<1>3. supply \in Nat /\ supply' \in Nat
    BY DEF TypeOK, GraiType
<1> QED BY <1>1, <1>2, <1>3 DEF Redeemable, RedeemableBalance, SaturatingSub

\* More basket or fewer shares never hurt the shares that remain.
LEMMA BasketKept ==
    ASSUME TypeOK, TypeOK', NEW a \in Assets, Redeemable(a)' >= Redeemable(a), supply' <= supply
    PROVE  Redeemable(a)' * supply >= Redeemable(a) * supply'
<1> DEFINE r == Redeemable(a)
           q == Redeemable(a)'
<1>1. r \in Nat /\ q \in Nat /\ supply \in Nat /\ supply' \in Nat /\ q >= r
    BY RedeemableType
<1>2. ASSUME NEW m \in Nat, NEW n \in Nat, NEW s \in Nat, NEW t \in Nat, n >= m, t <= s
      PROVE  n * s >= m * t
    <2>1. m * t <= m * s /\ m * s <= n * s /\ m * t \in Nat /\ m * s \in Nat /\ n * s \in Nat
        BY <1>2
    <2> QED BY <2>1
<1> HIDE DEF r, q
<1>3. q * supply >= r * supply'
    BY <1>1, <1>2
<1> QED BY <1>3 DEF r, q

\* redeem pays the floor of a pro-rata part.
LEMMA BasketRedeem ==
    ASSUME TypeOK, TypeOK', SupplyConserved, ReserveBacked, NEW u \in Users,
           NEW x \in GraiAmounts, Redeem(u, x), NEW a \in Listed
    PROVE  Redeemable(a)' * supply >= Redeemable(a) * supply'
<1> DEFINE r == Redeemable(a)
           s == LiquidateShare(r, x, supply)
<1>1. /\ x \in Nat \ {0} /\ x <= supply /\ supply \in Nat /\ a \in Assets /\ asset[a].listed
    BY RedeemFacts DEF TypeOK, GraiType, Listed
<1>2. asset[a].total_claimable \in Nat /\ vault[a] \in Nat /\ asset[a].total_claimable <= vault[a]
    BY <1>1, FieldFacts DEF TypeOK, ReserveBacked
<1>3. r \in Nat /\ r = vault[a] - asset[a].total_claimable
    BY <1>2 DEF Redeemable, RedeemableBalance, SaturatingSub
<1>4. asset' = asset /\ supply' = supply - x /\ vault'[a] = vault[a] - s
    BY <1>1 DEF Redeem, Redeemable
<1>5. s \in Nat /\ s <= r
    BY <1>1, <1>3, LiquidateShareFacts
<1>6. supply * s <= r * x
    <2>1. s = (r * x) \div supply /\ r * x \in Nat /\ supply \in Nat \ {0}
        BY <1>1, <1>3 DEF LiquidateShare
    <2> QED BY <2>1, DivFacts
<1> HIDE DEF s
<1>7. Redeemable(a)' = r - s
    BY <1>2, <1>3, <1>4, <1>5 DEF Redeemable, RedeemableBalance, SaturatingSub
<1> HIDE DEF r
<1>8. (r - s) * supply = r * supply - supply * s /\ r * (supply - x) = r * supply - r * x
    BY <1>1, <1>3, <1>5
<1>9. r * supply \in Nat /\ supply * s \in Nat /\ r * x \in Nat
    BY <1>1, <1>3, <1>5
<1>10. (r - s) * supply >= r * (supply - x)
    BY <1>6, <1>8, <1>9
<1> QED BY <1>4, <1>7, <1>10 DEF r

\* A claim takes the same amount from the vault and from the reserve.
LEMMA BasketClaim ==
    ASSUME TypeOK, NEW u \in Users, NEW a \in Assets,
           \/ \E k \in Assets, x \in ClaimAmounts : Claim(u, k, x)
           \/ ClaimAll(u)
    PROVE  supply' = supply /\ Redeemable(a)' = Redeemable(a)
<1>1. /\ asset[a] \in AssetConfig /\ asset[a].total_claimable \in Nat /\ vault[a] \in Nat
    BY FieldFacts DEF TypeOK
<1>2. ASSUME NEW c \in Nat, c <= vault[a], c <= asset[a].total_claimable,
             vault'[a] = vault[a] - c,
             asset'[a].total_claimable = SaturatingSub(asset[a].total_claimable, c)
      PROVE  Redeemable(a)' = Redeemable(a)
    BY <1>1, <1>2 DEF Redeemable, RedeemableBalance, SaturatingSub
<1>3. ASSUME NEW k \in Assets, NEW x \in ClaimAmounts, Claim(u, k, x)
      PROVE  supply' = supply /\ Redeemable(a)' = Redeemable(a)
    <2> DEFINE c == Claimed(u, k, x)
    <2>1. c \in Nat /\ c <= vault[k] /\ c <= asset[k].total_claimable
        BY InputFacts, ClaimedFacts
    <2>2. /\ supply' = supply
          /\ vault' = [vault EXCEPT ![k] = @ - c]
          /\ asset' = [asset EXCEPT ![k].total_claimable = SaturatingSub(@, c)]
        BY <1>3 DEF Claim, graiVars
    <2> HIDE DEF c
    <2>3. CASE k = a
        <3>1. /\ vault'[a] = vault[a] - c
              /\ asset'[a].total_claimable = SaturatingSub(asset[a].total_claimable, c)
            BY <2>2, <2>3 DEF TypeOK, AssetType, AssetConfig
        <3> QED BY <1>2, <2>1, <2>2, <2>3, <3>1
    <2>4. CASE k # a
        <3>1. vault'[a] = vault[a] /\ asset'[a] = asset[a]
            BY <2>2, <2>4 DEF TypeOK, AssetType
        <3> QED BY <2>2, <3>1 DEF Redeemable
    <2> QED BY <2>3, <2>4
<1>4. ASSUME ClaimAll(u) PROVE supply' = supply /\ Redeemable(a)' = Redeemable(a)
    <2> DEFINE claimed == [k \in Assets |->
                             IF asset[k].listed THEN Claimed(u, k, ClaimPosition(u, k).claimable) ELSE 0]
    <2>1. ClaimPosition(u, a) \in Position
        <3>1. 0 \in Nat
            OBVIOUS
        <3> QED BY <3>1, ClaimedFacts
    <2>2. ClaimPosition(u, a).claimable \in Nat
        BY <2>1 DEF Position
    <2>3. claimed[a] \in Nat /\ claimed[a] <= vault[a] /\ claimed[a] <= asset[a].total_claimable
        BY <1>1, <2>2, ClaimedFacts
    <2>4. /\ supply' = supply
          /\ vault' = [k \in Assets |-> vault[k] - claimed[k]]
          /\ asset' = [k \in Assets |->
                         [asset[k] EXCEPT !.total_claimable = SaturatingSub(@, claimed[k])]]
        BY <1>4 DEF ClaimAll, graiVars
    <2> HIDE DEF claimed
    <2>5. /\ vault'[a] = vault[a] - claimed[a]
          /\ asset'[a].total_claimable = SaturatingSub(asset[a].total_claimable, claimed[a])
        BY <1>1, <2>4 DEF AssetConfig
    <2> QED BY <1>2, <2>3, <2>4, <2>5
<1> QED BY <1>3, <1>4

\* While a liquidation stays open, every step keeps each remaining share's basket.
LEMMA BasketStep ==
    ASSUME SolvencyInv, TypeOK', Next, liquidation, liquidation', NEW a \in Listed
    PROVE  Redeemable(a)' * supply >= Redeemable(a) * supply'
<1>0. TypeOK /\ SupplyConserved /\ ReserveBacked
    BY DEF SolvencyInv, LedgerInv
<1>1. a \in Assets /\ asset[a].listed
    BY DEF Listed
<1>2. Redeemable(a) \in Nat /\ supply \in Nat
    BY <1>0, <1>1, RedeemableType
<1>3. CASE asset'[a].total_claimable = asset[a].total_claimable /\ vault'[a] = vault[a] /\ supply' = supply
    <2>1. Redeemable(a)' = Redeemable(a)
        BY <1>3 DEF Redeemable
    <2> QED BY <1>3, <2>1, <1>0, <1>1, <1>2, BasketKept
<1>4. CASE \E u \in Users, x \in GraiAmounts : Redeem(u, x)
    BY <1>0, <1>4, BasketRedeem
<1>5. CASE \/ \E u \in Users, k \in Assets, x \in ClaimAmounts : Claim(u, k, x)
           \/ \E u \in Users : ClaimAll(u)
    <2>1. supply' = supply /\ Redeemable(a)' = Redeemable(a)
        BY <1>0, <1>1, <1>5, BasketClaim
    <2> QED BY <1>0, <1>1, <1>2, <2>1, BasketKept
<1>6. ASSUME NEW k \in Assets, NEW paused \in PauseFlags, ListAsset(k, paused) \/ ReplaceFeed(k, paused)
      PROVE  /\ asset'[a].total_claimable = asset[a].total_claimable
             /\ vault'[a] = vault[a] /\ supply' = supply
    <2>1. CASE ListAsset(k, paused)
        BY <1>0, <1>1, <2>1 DEF ListAsset, graiVars, TypeOK, AssetType
    <2>2. CASE ReplaceFeed(k, paused)
        BY <1>0, <1>1, <2>2 DEF ReplaceFeed, graiVars, TypeOK, AssetType, AssetConfig
    <2> QED BY <1>6, <2>1, <2>2
<1>7. ASSUME NEW u \in Users, NEW x \in BurnAmounts, BurnGrai(u, x)
      PROVE  Redeemable(a)' * supply >= Redeemable(a) * supply'
    <2>1. x \in Nat /\ supply' = supply - x /\ vault' = vault /\ asset' = asset
        BY <1>7, InputFacts DEF BurnGrai, assetVars
    <2>2. Redeemable(a)' = Redeemable(a) /\ supply' <= supply
        BY <1>2, <2>1 DEF Redeemable
    <2> QED BY <1>0, <1>1, <1>2, <2>2, BasketKept
<1>8. ASSUME NEW k \in Assets, NEW x \in SweepAmounts, SweepIn(k, x)
      PROVE  Redeemable(a)' * supply >= Redeemable(a) * supply'
    <2>1. x \in Nat /\ supply' = supply /\ vault' = [vault EXCEPT ![k] = @ + x] /\ asset' = asset
        BY <1>8, InputFacts DEF SweepIn, graiVars
    <2>2. vault[a] \in Nat /\ vault'[a] \in Nat /\ vault'[a] >= vault[a] /\ asset[a].total_claimable \in Nat
        BY <1>0, <1>1, <2>1, FieldFacts DEF TypeOK, AssetType
    <2>3. Redeemable(a)' >= Redeemable(a) /\ supply' <= supply
        BY <1>2, <2>1, <2>2 DEF Redeemable, RedeemableBalance, SaturatingSub
    <2> QED BY <1>0, <1>1, <2>3, BasketKept
<1>9. CASE \/ \E u \in Users, v \in Users, x \in SendAmounts : TransferGrai(u, v, x)
           \/ \E u \in Users, x \in SendAmounts : StrayGrai(u, x)
           \/ \E u \in Users, x \in GraiAmounts : WithdrawGrai(u, x)
           \/ GrindersHeartbeat
           \/ \E k \in Assets, p \in Prices : FeedReport(k, p)
           \/ Tick
    BY <1>3, <1>9 DEF TransferGrai, StrayGrai, WithdrawGrai, GrindersHeartbeat, FeedReport, Tick,
       graiVars, assetVars
<1>10. ASSUME \/ \E u \in Users, k \in Assets, x \in DepositAmounts, lock \in BOOLEAN : Deposit(u, k, x, lock)
              \/ \E u \in Users, x \in GraiAmounts : Lock(u, x)
              \/ \E u \in Users, x \in GraiAmounts : Unlock(u, x)
              \/ \E u \in Users, x \in GraiAmounts : Vote(u, x)
              \/ \E b \in Users, u \in Users, k \in Assets, x \in GraiAmounts : Bribe(b, u, k, x)
              \/ \E b \in Users, s \in Users, x \in SendAmounts : PoachPayment(b, s, x)
       PROVE  FALSE
    BY <1>10 DEF Deposit, Lock, Unlock, Vote, Bribe, PoachPayment
<1>11. ASSUME \/ \E c \in Users \cup {Outsider}, k \in Assets, y \in YieldAmounts : Distribute(c, k, y)
              \/ \E u \in Users : Liquidate(u)
              \/ Revive
              \/ \E c \in Configs : SetConfig(c)
              \/ \E split \in ShareSplits : SetRevenueShareBps(split)
              \/ \E k \in Assets : DelistAsset(k)
              \/ \E k \in Assets, flag \in BribeFlags : SetBribeable(k, flag)
       PROVE  FALSE
    BY <1>11 DEF Distribute, Liquidate, Revive, SetConfig, SetRevenueShareBps, DelistAsset,
       SetBribeable
<1> QED BY <1>3, <1>4, <1>5, <1>6, <1>7, <1>8, <1>9, <1>10, <1>11 DEF Next

\* While a liquidation stays open, redeem, claim, sweeps, listings and burns never lower what
\* a remaining share can redeem of any listed vault.
THEOREM BasketPerShareHolds == Spec => BasketPerShareNeverFalls
<1>1. SolvencyInv /\ SolvencyInv' /\ [Next]_vars
        => [liquidation /\ liquidation' =>
              \A a \in Listed : Redeemable(a)' * supply >= Redeemable(a) * supply']_vars
    BY BasketStep DEF SolvencyInv, LedgerInv
<1> QED BY <1>1, SolvencyAlways, PTL DEF Spec, BasketPerShareNeverFalls

-------------------------------------------------------------------------------
(* What a position is due. *)

\* What position pos of `amount` locked shares is due at index acc.
Due(pos, amount, acc) ==
    IF pos.exists THEN pos.claimable + SaturatingSub(Accumulated(amount, acc), pos.debt) ELSE 0

\* The pending dividend is what the position is due, before and after a step.
LEMMA PendingIsDue ==
    ASSUME NEW u, NEW a
    PROVE  /\ Pending(u, a) = Due(position[u][a], locked[u], asset[a].acc_share)
           /\ Pending(u, a)' = Due(position'[u][a], locked'[u], asset'[a].acc_share)
BY DEF Pending, Settle, Due

\* The fields of a position, and what it is due, are natural numbers.
LEMMA DueType ==
    ASSUME NEW pos \in Position, NEW amount \in Nat, NEW acc \in Nat
    PROVE  /\ pos.claimable \in Nat /\ pos.debt \in Nat /\ pos.exists \in BOOLEAN
           /\ Accumulated(amount, acc) \in Nat
           /\ Due(pos, amount, acc) \in Nat
<1>1. pos.claimable \in Nat /\ pos.debt \in Nat /\ pos.exists \in BOOLEAN
    BY DEF Position
<1>2. Accumulated(amount, acc) \in Nat
    BY AccumulatedType
<1> QED BY <1>1, <1>2 DEF Due, SaturatingSub

\* A higher index is never worth less to a position.
LEMMA DueMono ==
    ASSUME NEW pos \in Position, NEW amount \in Nat, NEW acc \in Nat, NEW acc2 \in Nat, acc <= acc2
    PROVE  Due(pos, amount, acc) <= Due(pos, amount, acc2)
<1>1. Accumulated(amount, acc) <= Accumulated(amount, acc2)
    <2>1. acc * amount \in Nat /\ acc2 * amount \in Nat /\ acc * amount <= acc2 * amount
        BY MulMono
    <2>2. amount * acc = acc * amount /\ amount * acc2 = acc2 * amount
        OBVIOUS
    <2>3. DIVIDEND_PRECISION \in Nat \ {0}
        BY ScaleAssumption
    <2> QED BY <2>1, <2>2, <2>3, DivMono DEF Accumulated
<1>2. /\ pos.claimable \in Nat /\ pos.debt \in Nat
      /\ Accumulated(amount, acc) \in Nat /\ Accumulated(amount, acc2) \in Nat
    BY DueType
<1> QED BY <1>1, <1>2 DEF Due, SaturatingSub

\* Settling at the current index keeps what the position is due, whatever the new lock,
\* and adds nothing to a position that existed.
LEMMA DueSettle ==
    ASSUME NEW pos \in Position, NEW acc \in Nat, NEW old \in Nat, NEW new \in Nat
    PROVE  LET settled == Settle(pos, acc, old, new)
           IN  /\ settled \in Position /\ settled.exists
               /\ Due(settled, new, acc) = settled.claimable
               /\ Due(pos, old, acc) <= settled.claimable
               /\ pos.exists => Due(pos, old, acc) = settled.claimable
<1> DEFINE settled == Settle(pos, acc, old, new)
           base    == IF pos.exists THEN old ELSE 0
<1>1. /\ settled.exists = TRUE
      /\ settled.debt = Accumulated(new, acc)
      /\ settled.claimable = pos.claimable + SaturatingSub(Accumulated(base, acc), pos.debt)
    BY DEF Settle
<1>2. settled \in Position
    BY SettleType
<1>3. settled.claimable \in Nat /\ Accumulated(new, acc) \in Nat /\ Due(pos, old, acc) \in Nat
    BY <1>2, DueType
<1> HIDE DEF settled
<1>4. Due(settled, new, acc) = settled.claimable
    BY <1>1, <1>3 DEF Due, SaturatingSub
<1>5. pos.exists => Due(pos, old, acc) = settled.claimable
    BY <1>1 DEF Due
<1>6. Due(pos, old, acc) <= settled.claimable
    <2>1. CASE pos.exists
        BY <1>3, <1>5, <2>1
    <2>2. CASE ~pos.exists
        BY <1>3, <2>2 DEF Due
    <2> QED BY <2>1, <2>2
<1> QED BY <1>1, <1>2, <1>4, <1>5, <1>6 DEF settled

\* u's position in a is left alone, opened, or settled at the index before the step.
Carried(u, a) ==
    \/ position'[u][a] = position[u][a] /\ locked'[u] = locked[u]
    \/ position'[u][a] = [position[u][a] EXCEPT !.exists = TRUE] /\ locked'[u] = locked[u]
    \/ position'[u][a] = Settle(position[u][a], asset[a].acc_share, locked[u], locked'[u])

\* A position so treated loses nothing as long as the index does not fall.
LEMMA CarriedKeepsPending ==
    ASSUME TypeOK, TypeOK', NEW u \in Users, NEW a \in Assets, Carried(u, a),
           asset'[a].acc_share >= asset[a].acc_share
    PROVE  Pending(u, a)' >= Pending(u, a)
<1>1. PICK pos, pos2 \in Position : pos = position[u][a] /\ pos2 = position'[u][a]
    BY DEF TypeOK, PositionType
<1>2. PICK old, new \in Nat : old = locked[u] /\ new = locked'[u]
    BY DEF TypeOK, EscrowType
<1>3. PICK acc, acc2 \in Nat : acc = asset[a].acc_share /\ acc2 = asset'[a].acc_share
    BY DEF TypeOK, AssetType, AssetConfig
<1>4. acc <= acc2
    BY <1>3
<1>5. Due(pos2, new, acc) <= Due(pos2, new, acc2)
    BY <1>4, DueMono
<1>6. /\ Due(pos, old, acc) \in Nat /\ Due(pos2, new, acc) \in Nat /\ Due(pos2, new, acc2) \in Nat
      /\ pos.claimable \in Nat /\ pos.debt \in Nat /\ Accumulated(old, acc) \in Nat
    BY DueType
<1>7. Due(pos, old, acc) <= Due(pos2, new, acc)
    <2>1. CASE pos2 = pos /\ new = old
        BY <1>6, <2>1
    <2>2. CASE pos2 = [pos EXCEPT !.exists = TRUE] /\ new = old
        <3>1. pos2.exists = TRUE /\ pos2.claimable = pos.claimable /\ pos2.debt = pos.debt
            BY <2>2 DEF Position
        <3> QED BY <1>6, <2>2, <3>1 DEF Due, SaturatingSub
    <2>3. CASE pos2 = Settle(pos, acc, old, new)
        <3>1. /\ Due(Settle(pos, acc, old, new), new, acc) = Settle(pos, acc, old, new).claimable
              /\ Due(pos, old, acc) <= Settle(pos, acc, old, new).claimable
            BY DueSettle
        <3> QED BY <2>3, <3>1
    <2> QED BY <1>1, <1>2, <1>3, <2>1, <2>2, <2>3 DEF Carried
<1> QED BY <1>1, <1>2, <1>3, <1>5, <1>6, <1>7, PendingIsDue

\* settle_all for one user carries every position of a listed asset.
LEMMA SettleAllCarries ==
    ASSUME TypeOK, NEW w \in Users, NEW old, NEW new, old = locked[w], SettleAll(w, old, new),
           locked'[w] = new, \A u \in Users \ {w} : locked'[u] = locked[u],
           NEW u \in Users, NEW a \in Listed
    PROVE  Carried(u, a)
<1> DEFINE settled == [k \in Assets |-> IF asset[k].listed
                                        THEN Settle(position[w][k], asset[k].acc_share, old, new)
                                        ELSE position[w][k]]
<1>1. position' = [position EXCEPT ![w] = settled]
    BY DEF SettleAll
<1>2. a \in Assets /\ asset[a].listed
    BY DEF Listed
<1>3. CASE u = w
    <2>1. position'[u] = settled
        BY <1>1, <1>3 DEF TypeOK, PositionType
    <2>2. position'[u][a] = Settle(position[u][a], asset[a].acc_share, locked[u], locked'[u])
        BY <1>2, <1>3, <2>1
    <2> QED BY <2>2 DEF Carried
<1>4. CASE u # w
    <2> HIDE DEF settled
    <2>1. position'[u] = position[u] /\ locked'[u] = locked[u]
        BY <1>1, <1>4 DEF TypeOK, PositionType
    <2> QED BY <2>1 DEF Carried
<1> QED BY <1>3, <1>4

\* No step lowers the index of an asset that stays listed.
LEMMA IndexNeverFalls ==
    ASSUME TypeOK, TypeOK', Next, NEW a \in Assets, asset[a].listed, asset'[a].listed
    PROVE  asset'[a].acc_share >= asset[a].acc_share
<1>0. asset \in [Assets -> AssetConfig] /\ asset[a].acc_share \in Nat
    BY DEF TypeOK, AssetType, AssetConfig
<1>1. CASE asset'[a].acc_share = asset[a].acc_share
    BY <1>0, <1>1
<1>2. ASSUME NEW k \in Assets, NEW d, asset' = Credited(k, d), d.acc >= asset[k].acc_share
      PROVE  asset'[a].acc_share >= asset[a].acc_share
    <2>1. CASE a = k
        BY <1>0, <1>2, <2>1 DEF Credited, AssetConfig
    <2>2. CASE a # k
        BY <1>0, <1>1, <1>2, <2>2 DEF Credited
    <2> QED BY <2>1, <2>2
<1>3. ASSUME NEW c \in Users \cup {Outsider}, NEW k \in Assets, NEW y \in YieldAmounts,
             Distribute(c, k, y)
      PROVE  asset'[a].acc_share >= asset[a].acc_share
    <2>1. PICK cut \in Nat :
            asset' = Credited(k, DistributeDividend(asset[k].acc_share, cut, totalLocked))
        BY <1>3, DistributeActionFacts
    <2>2. totalLocked \in Nat /\ asset[k].acc_share \in Nat
        BY FieldFacts DEF TypeOK, EscrowType
    <2>3. DistributeDividend(asset[k].acc_share, cut, totalLocked).acc >= asset[k].acc_share
        BY <2>2, DistributeFacts
    <2> QED BY <1>2, <2>1, <2>3
<1>4. ASSUME NEW b \in Users, NEW u \in Users, NEW k \in Assets, NEW x \in GraiAmounts,
             Bribe(b, u, k, x)
      PROVE  asset'[a].acc_share >= asset[a].acc_share
    <2>1. PICK pool, cut \in Nat :
            asset' = Credited(k, DistributeDividend(asset[k].acc_share, cut, totalLocked - x))
        BY <1>4, BribeFacts
    <2>2. totalLocked >= x
        BY <1>4 DEF Bribe
    <2>3. totalLocked - x \in Nat /\ asset[k].acc_share \in Nat
        BY <2>2, InputFacts, FieldFacts DEF TypeOK, EscrowType
    <2>4. DistributeDividend(asset[k].acc_share, cut, totalLocked - x).acc >= asset[k].acc_share
        BY <2>3, DistributeFacts
    <2> QED BY <1>2, <2>1, <2>4
<1>5. CASE \/ \E u \in Users, k \in Assets, x \in ClaimAmounts : Claim(u, k, x)
           \/ \E u \in Users : ClaimAll(u)
    <2>1. asset'[a].acc_share = asset[a].acc_share
        BY <1>0, <1>5 DEF Claim, ClaimAll, AssetConfig
    <2> QED BY <1>1, <2>1
<1>6. CASE \/ \E k \in Assets, paused \in PauseFlags : ListAsset(k, paused)
           \/ \E k \in Assets, paused \in PauseFlags : ReplaceFeed(k, paused)
           \/ \E k \in Assets : DelistAsset(k)
           \/ \E k \in Assets, flag \in BribeFlags : SetBribeable(k, flag)
    <2>1. ASSUME NEW k \in Assets, NEW paused \in PauseFlags, ListAsset(k, paused)
          PROVE  asset'[a].acc_share = asset[a].acc_share
        BY <1>0, <2>1 DEF ListAsset
    <2>2. ASSUME NEW k \in Assets, NEW paused \in PauseFlags, ReplaceFeed(k, paused)
          PROVE  asset'[a].acc_share = asset[a].acc_share
        BY <1>0, <2>2 DEF ReplaceFeed, AssetConfig
    <2>3. ASSUME NEW k \in Assets, DelistAsset(k)
          PROVE  asset'[a].acc_share = asset[a].acc_share
        BY <1>0, <2>3 DEF DelistAsset, Unlisted
    <2>4. ASSUME NEW k \in Assets, NEW flag \in BribeFlags, SetBribeable(k, flag)
          PROVE  asset'[a].acc_share = asset[a].acc_share
        BY <1>0, <2>4 DEF SetBribeable, AssetConfig
    <2> QED BY <1>1, <1>6, <2>1, <2>2, <2>3, <2>4
<1>7. CASE \/ \E u \in Users, k \in Assets, x \in DepositAmounts, lock \in BOOLEAN : Deposit(u, k, x, lock)
           \/ \E u \in Users, x \in GraiAmounts : Lock(u, x)
           \/ \E u \in Users, x \in GraiAmounts : Unlock(u, x)
           \/ \E u \in Users, x \in GraiAmounts : Vote(u, x)
           \/ \E b \in Users, s \in Users, x \in SendAmounts : PoachPayment(b, s, x)
           \/ \E u \in Users : Liquidate(u)
           \/ \E u \in Users, x \in GraiAmounts : Redeem(u, x)
           \/ Revive
    BY <1>1, <1>7 DEF Deposit, Lock, Unlock, Vote, PoachPayment, Liquidate, Redeem, Revive, assetVars
<1>8. CASE \/ \E c \in Configs : SetConfig(c)
           \/ \E split \in ShareSplits : SetRevenueShareBps(split)
           \/ \E u \in Users, v \in Users, x \in SendAmounts : TransferGrai(u, v, x)
           \/ \E u \in Users, x \in SendAmounts : StrayGrai(u, x)
           \/ \E u \in Users, x \in BurnAmounts : BurnGrai(u, x)
           \/ \E u \in Users, x \in GraiAmounts : WithdrawGrai(u, x)
           \/ \E k \in Assets, x \in SweepAmounts : SweepIn(k, x)
           \/ GrindersHeartbeat
           \/ \E k \in Assets, p \in Prices : FeedReport(k, p)
           \/ Tick
    BY <1>1, <1>8 DEF SetConfig, SetRevenueShareBps, TransferGrai, StrayGrai, BurnGrai, WithdrawGrai,
       SweepIn, GrindersHeartbeat, FeedReport, Tick, assetVars
<1> QED BY <1>3, <1>4, <1>5, <1>6, <1>7, <1>8 DEF Next

\* Every step but a claim carries every position of a listed asset.
LEMMA StepCarries ==
    ASSUME TypeOK, TypeOK', SupplyConserved, Next, NEW u \in Users, NEW a \in Listed
    PROVE  \/ Carried(u, a)
           \/ \E k \in Assets, x \in ClaimAmounts : Claim(u, k, x)
           \/ ClaimAll(u)
<1>0. /\ locked \in [Users -> Nat] /\ position \in [Users -> [Assets -> Position]]
      /\ a \in Assets
    BY DEF TypeOK, EscrowType, PositionType, Listed
<1>1. CASE UNCHANGED <<position, locked>>
    BY <1>1 DEF Carried
<1>2. ASSUME NEW w \in Users, NEW new, SettleAll(w, locked[w], new), locked' = [locked EXCEPT ![w] = new]
      PROVE  Carried(u, a)
    BY <1>0, <1>2, SettleAllCarries
<1>3. ASSUME NEW w \in Users, SettleAll(w, locked[w], locked[w]), locked' = locked
      PROVE  Carried(u, a)
    BY <1>0, <1>3, SettleAllCarries
<1>4. ASSUME NEW w \in Users, NEW x, PerformLock(w, x) PROVE Carried(u, a)
    BY <1>0, <1>2, <1>4 DEF PerformLock
<1>5. ASSUME NEW w \in Users, NEW x, ShrinkLock(w, x) PROVE Carried(u, a)
    BY <1>0, <1>2, <1>5 DEF ShrinkLock
<1>6. ASSUME NEW w \in Users, NEW k \in Assets, NEW x \in DepositAmounts, NEW lock \in BOOLEAN,
             Deposit(w, k, x, lock)
      PROVE  Carried(u, a)
    <2>1. CASE lock
        <3>1. \E y : PerformLock(w, y)
            BY <1>6, <2>1 DEF Deposit
        <3> QED BY <1>4, <3>1
    <2>2. CASE ~lock
        <3>1. UNCHANGED <<position, locked>>
            BY <1>6, <2>2 DEF Deposit
        <3> QED BY <3>1 DEF Carried
    <2> QED BY <2>1, <2>2
<1>7. ASSUME NEW w \in Users, NEW x \in GraiAmounts, Lock(w, x) \/ Unlock(w, x)
      PROVE  Carried(u, a)
    BY <1>4, <1>5, <1>7 DEF Lock, Unlock
<1>8. ASSUME NEW w \in Users, NEW x \in GraiAmounts, Vote(w, x) PROVE Carried(u, a)
    BY <1>3, <1>4, <1>8 DEF Vote
<1>9. ASSUME NEW w \in Users, NEW x \in GraiAmounts, Redeem(w, x) PROVE Carried(u, a)
    BY <1>3, <1>5, <1>9 DEF Redeem, lockVars
<1>10. ASSUME NEW b \in Users, NEW w \in Users, NEW k \in Assets, NEW x \in GraiAmounts,
              Bribe(b, w, k, x)
       PROVE  Carried(u, a)
    BY <1>0, <1>2, <1>10 DEF Bribe
<1>11. ASSUME NEW c \in Users \cup {Outsider}, NEW k \in Assets, NEW y \in YieldAmounts,
              Distribute(c, k, y)
       PROVE  Carried(u, a)
    <2>1. /\ locked' = locked
          /\ position' = IF c \in Users THEN [position EXCEPT ![c][k].exists = TRUE] ELSE position
        BY <1>11 DEF Distribute, escrowVars
    <2>2. CASE c = u /\ k = a
        BY <1>0, <2>1, <2>2 DEF Carried
    <2>3. CASE ~(c = u /\ k = a)
        BY <1>0, <2>1, <2>3 DEF Carried
    <2> QED BY <2>2, <2>3
<1>12. ASSUME NEW w \in Users, w # u,
              \/ \E k \in Assets, x \in ClaimAmounts : Claim(w, k, x)
              \/ ClaimAll(w)
       PROVE  Carried(u, a)
    <2>1. locked' = locked /\ position'[u] = position[u]
        <3>1. CASE \E k \in Assets, x \in ClaimAmounts : Claim(w, k, x)
            BY <1>0, <1>12, <3>1 DEF Claim, escrowVars
        <3>2. CASE ClaimAll(w)
            BY <1>0, <1>12, <3>2 DEF ClaimAll, escrowVars
        <3> QED BY <1>12, <3>1, <3>2
    <2> QED BY <2>1 DEF Carried
<1>13. CASE \/ \E b \in Users, s \in Users, x \in SendAmounts : PoachPayment(b, s, x)
            \/ \E w \in Users : Liquidate(w)
            \/ Revive
            \/ \E c \in Configs : SetConfig(c)
            \/ \E split \in ShareSplits : SetRevenueShareBps(split)
            \/ \E k \in Assets, paused \in PauseFlags : ListAsset(k, paused)
            \/ \E k \in Assets, paused \in PauseFlags : ReplaceFeed(k, paused)
            \/ \E k \in Assets : DelistAsset(k)
            \/ \E k \in Assets, flag \in BribeFlags : SetBribeable(k, flag)
    BY <1>1, <1>13 DEF PoachPayment, Liquidate, Revive, SetConfig, SetRevenueShareBps, ListAsset,
       ReplaceFeed, DelistAsset, SetBribeable, escrowVars
<1>14. CASE \/ \E w \in Users, v \in Users, x \in SendAmounts : TransferGrai(w, v, x)
            \/ \E w \in Users, x \in SendAmounts : StrayGrai(w, x)
            \/ \E w \in Users, x \in BurnAmounts : BurnGrai(w, x)
            \/ \E w \in Users, x \in GraiAmounts : WithdrawGrai(w, x)
            \/ \E k \in Assets, x \in SweepAmounts : SweepIn(k, x)
            \/ GrindersHeartbeat
            \/ \E k \in Assets, p \in Prices : FeedReport(k, p)
            \/ Tick
    BY <1>1, <1>14 DEF TransferGrai, StrayGrai, BurnGrai, WithdrawGrai, SweepIn, GrindersHeartbeat,
       FeedReport, Tick, escrowVars
<1> QED BY <1>6, <1>7, <1>8, <1>9, <1>10, <1>11, <1>12, <1>13, <1>14 DEF Next

\* A claim of c from a settled position lowers what the position is due by exactly c.
LEMMA ClaimLowersPending ==
    ASSUME TypeOK, TypeOK', NEW u \in Users, NEW a \in Assets, NEW c \in Nat,
           c <= ClaimPosition(u, a).claimable, c <= asset[a].total_claimable,
           position'[u][a] = [ClaimPosition(u, a) EXCEPT !.claimable = @ - c],
           locked'[u] = locked[u], asset'[a].acc_share = asset[a].acc_share,
           vault'[a] = vault[a] - c,
           asset'[a].total_claimable = SaturatingSub(asset[a].total_claimable, c),
           Pending(u, a)' < Pending(u, a)
    PROVE  LET paid == Pending(u, a) - Pending(u, a)'
           IN  /\ vault'[a] = vault[a] - paid
               /\ asset'[a].total_claimable = asset[a].total_claimable - paid
<1>1. PICK pos \in Position : pos = position[u][a]
    BY DEF TypeOK, PositionType
<1>2. PICK lock \in Nat : lock = locked[u]
    BY DEF TypeOK, EscrowType
<1>3. PICK acc \in Nat : acc = asset[a].acc_share
    BY DEF TypeOK, AssetType, AssetConfig
<1>4. PICK settled : settled = Settle(pos, acc, lock, lock)
    OBVIOUS
<1>5. /\ settled \in Position /\ settled.exists
      /\ Due(settled, lock, acc) = settled.claimable
      /\ Due(pos, lock, acc) <= settled.claimable
      /\ pos.exists => Due(pos, lock, acc) = settled.claimable
    BY <1>4, DueSettle
<1>6. ClaimPosition(u, a) = settled
    BY <1>1, <1>2, <1>3, <1>4 DEF ClaimPosition
<1>7. /\ settled.claimable \in Nat /\ settled.debt \in Nat /\ Accumulated(lock, acc) \in Nat
      /\ Due(pos, lock, acc) \in Nat
    BY <1>5, DueType
<1>8. PICK pos2 : pos2 = [settled EXCEPT !.claimable = @ - c]
    OBVIOUS
<1>9. pos2.exists /\ pos2.debt = settled.debt /\ pos2.claimable = settled.claimable - c
    BY <1>5, <1>8 DEF Position
<1>10. Due(pos2, lock, acc) = settled.claimable - c
    <2>1. SaturatingSub(Accumulated(lock, acc), settled.debt) \in Nat
        BY <1>7 DEF SaturatingSub
    <2>2. settled.claimable + SaturatingSub(Accumulated(lock, acc), settled.debt) = settled.claimable
        BY <1>5 DEF Due
    <2>3. SaturatingSub(Accumulated(lock, acc), settled.debt) = 0
        BY <1>7, <2>1, <2>2
    <2> QED BY <1>7, <1>9, <2>3 DEF Due
<1>11. Pending(u, a) = Due(pos, lock, acc) /\ Pending(u, a)' = Due(pos2, lock, acc)
    BY <1>1, <1>2, <1>3, <1>6, <1>8, PendingIsDue
<1>12. settled.claimable - c \in Nat
    BY <1>6, <1>7
<1>13. pos.exists
    <2>1. ASSUME ~pos.exists PROVE FALSE
        <3>1. Due(pos, lock, acc) = 0
            BY <2>1 DEF Due
        <3> QED BY <1>10, <1>11, <1>12, <3>1
    <2> QED BY <2>1
<1>14. Pending(u, a) - Pending(u, a)' = c
    BY <1>5, <1>7, <1>10, <1>11, <1>13
<1>15. asset[a].total_claimable \in Nat
    BY FieldFacts DEF TypeOK
<1> QED BY <1>14, <1>15 DEF SaturatingSub

\* What a claim or a claim_all takes from a pending dividend left the vault and the reserve.
LEMMA ClaimPaysPending ==
    ASSUME TypeOK, TypeOK', NEW u \in Users, NEW a \in Listed, Pending(u, a)' < Pending(u, a),
           \/ \E k \in Assets, x \in ClaimAmounts : Claim(u, k, x)
           \/ ClaimAll(u)
    PROVE  LET paid == Pending(u, a) - Pending(u, a)'
           IN  /\ vault'[a] = vault[a] - paid
               /\ asset'[a].total_claimable = asset[a].total_claimable - paid
<1>0. /\ a \in Assets /\ asset[a].listed /\ asset[a] \in AssetConfig
      /\ position \in [Users -> [Assets -> Position]]
      /\ asset \in [Assets -> AssetConfig] /\ vault \in [Assets -> Nat]
    BY DEF TypeOK, AssetType, PositionType, Listed
<1>1. ASSUME NEW k \in Assets, NEW x \in ClaimAmounts, Claim(u, k, x), k = a
      PROVE  LET paid == Pending(u, a) - Pending(u, a)'
             IN  /\ vault'[a] = vault[a] - paid
                 /\ asset'[a].total_claimable = asset[a].total_claimable - paid
    <2> DEFINE c == Claimed(u, a, x)
    <2>1. c \in Nat /\ c <= ClaimPosition(u, a).claimable /\ c <= asset[a].total_claimable
        BY <1>0, InputFacts, ClaimedFacts
    <2>2. /\ position' = [position EXCEPT ![u][a] = [ClaimPosition(u, a) EXCEPT !.claimable = @ - c]]
          /\ vault' = [vault EXCEPT ![a] = @ - c]
          /\ asset' = [asset EXCEPT ![a].total_claimable = SaturatingSub(@, c)]
          /\ locked' = locked
        BY <1>1 DEF Claim, escrowVars
    <2> HIDE DEF c
    <2>3. /\ position'[u][a] = [ClaimPosition(u, a) EXCEPT !.claimable = @ - c]
          /\ vault'[a] = vault[a] - c
          /\ asset'[a].total_claimable = SaturatingSub(asset[a].total_claimable, c)
          /\ asset'[a].acc_share = asset[a].acc_share
        BY <1>0, <2>2 DEF AssetConfig
    <2> QED BY <1>0, <2>1, <2>2, <2>3, ClaimLowersPending
<1>2. ASSUME NEW k \in Assets, NEW x \in ClaimAmounts, Claim(u, k, x), k # a PROVE FALSE
    <2>1. locked' = locked /\ position'[u][a] = position[u][a] /\ asset'[a] = asset[a]
        BY <1>0, <1>2 DEF Claim, escrowVars
    <2>2. Pending(u, a)' = Pending(u, a) /\ Pending(u, a) \in Nat
        <3>1. Pending(u, a)' = Pending(u, a)
            BY <2>1, PendingIsDue
        <3>2. position[u][a] \in Position /\ locked[u] \in Nat /\ asset[a].acc_share \in Nat
            BY <1>0 DEF AssetConfig, TypeOK, EscrowType
        <3> QED BY <3>1, <3>2, DueType, PendingIsDue
    <2> QED BY <2>2
<1>3. ASSUME ClaimAll(u)
      PROVE  LET paid == Pending(u, a) - Pending(u, a)'
             IN  /\ vault'[a] = vault[a] - paid
                 /\ asset'[a].total_claimable = asset[a].total_claimable - paid
    <2> DEFINE claimed == [k \in Assets |->
                             IF asset[k].listed THEN Claimed(u, k, ClaimPosition(u, k).claimable) ELSE 0]
    <2>1. ClaimPosition(u, a) \in Position
        <3>1. 0 \in Nat
            OBVIOUS
        <3> QED BY <1>0, <3>1, ClaimedFacts
    <2>2. ClaimPosition(u, a).claimable \in Nat
        BY <2>1 DEF Position
    <2>3. PICK c \in Nat : /\ c = claimed[a]
                           /\ c <= ClaimPosition(u, a).claimable /\ c <= asset[a].total_claimable
        BY <1>0, <2>2, ClaimedFacts
    <2>4. /\ vault' = [k \in Assets |-> vault[k] - claimed[k]]
          /\ asset' = [k \in Assets |->
                         [asset[k] EXCEPT !.total_claimable = SaturatingSub(@, claimed[k])]]
          /\ position' = [position EXCEPT ![u] =
                            [k \in Assets |->
                               IF asset[k].listed
                               THEN [ClaimPosition(u, k) EXCEPT !.claimable = @ - claimed[k]]
                               ELSE @[k]]]
          /\ locked' = locked
        BY <1>3 DEF ClaimAll, escrowVars
    <2> HIDE DEF claimed
    <2>5. /\ position'[u][a] = [ClaimPosition(u, a) EXCEPT !.claimable = @ - c]
          /\ vault'[a] = vault[a] - c
        BY <1>0, <2>3, <2>4
    <2>6. /\ asset'[a].total_claimable = SaturatingSub(asset[a].total_claimable, c)
          /\ asset'[a].acc_share = asset[a].acc_share
        BY <1>0, <2>3, <2>4 DEF AssetConfig
    <2>7. locked'[u] = locked[u]
        BY <2>4
    <2> QED BY <1>0, <2>3, <2>5, <2>6, <2>7, ClaimLowersPending
<1> QED BY <1>1, <1>2, <1>3

\* No lock, unlock, vote, bribe, redeem, liquidation or revive loses an accrued dividend: a
\* pending amount falls only by what a claim paid out of the vault and of the reserve.
THEOREM DividendsAreNeverLost == Spec => DividendsNeverLost
<1> DEFINE Kept == \A u \in Users, a \in Assets :
                     asset[a].listed /\ asset'[a].listed /\ Pending(u, a)' < Pending(u, a) =>
                       LET paid == Pending(u, a) - Pending(u, a)'
                       IN  /\ vault'[a] = vault[a] - paid
                           /\ asset'[a].total_claimable = asset[a].total_claimable - paid
<1>1. LedgerInv /\ LedgerInv' /\ [Next]_vars => [Kept]_vars
    <2> SUFFICES ASSUME LedgerInv, LedgerInv', Next, NEW u \in Users, NEW a \in Assets,
                        asset[a].listed, asset'[a].listed, Pending(u, a)' < Pending(u, a)
                 PROVE  LET paid == Pending(u, a) - Pending(u, a)'
                        IN  /\ vault'[a] = vault[a] - paid
                            /\ asset'[a].total_claimable = asset[a].total_claimable - paid
        OBVIOUS
    <2>1. TypeOK /\ TypeOK' /\ SupplyConserved /\ a \in Listed
        BY DEF LedgerInv, Listed
    <2>2. Pending(u, a) \in Nat /\ Pending(u, a)' \in Nat
        <3>1. /\ position[u][a] \in Position /\ locked[u] \in Nat /\ asset[a].acc_share \in Nat
              /\ position'[u][a] \in Position /\ locked'[u] \in Nat /\ asset'[a].acc_share \in Nat
            BY <2>1 DEF TypeOK, PositionType, EscrowType, AssetType, AssetConfig
        <3>2. /\ Due(position[u][a], locked[u], asset[a].acc_share) \in Nat
              /\ Due(position'[u][a], locked'[u], asset'[a].acc_share) \in Nat
            BY <3>1, DueType
        <3> QED BY <3>2, PendingIsDue
    <2>3. ~Carried(u, a)
        <3>1. ASSUME Carried(u, a) PROVE FALSE
            <4>1. Pending(u, a)' >= Pending(u, a)
                BY <2>1, <3>1, IndexNeverFalls, CarriedKeepsPending
            <4> QED BY <2>2, <4>1
        <3> QED BY <3>1
    <2>4. \/ \E k \in Assets, x \in ClaimAmounts : Claim(u, k, x)
          \/ ClaimAll(u)
        BY <2>1, <2>3, StepCarries
    <2> QED BY <2>1, <2>4, ClaimPaysPending
<1> QED BY <1>1, LedgerAlways, PTL DEF Spec, DividendsNeverLost

-------------------------------------------------------------------------------
(* The floor overhang. *)

\* What a position of `amount` locked shares has accrued at index acc, counted also while
\* the account does not exist.
Accrued(pos, amount, acc) == pos.claimable + SaturatingSub(Accumulated(amount, acc), pos.debt)

\* The accrued amounts of all users in asset a, valued at index acc.
AccruedAt(a, acc) == [u \in Users |-> Accrued(position[u][a], locked[u], acc)]

\* The overhang bound of one asset.
Covered(a) == Total(AccruedAt(a, asset[a].acc_share))
                <= asset[a].total_claimable + Cardinality(Users) * raises[a]

\* The inductive form of OverhangBounded: it counts positions that do not exist yet, whose
\* first distribute makes the whole accrual since the listing claimable, and it follows an
\* asset through its delisting.
OverhangInv ==
    /\ LedgerInv
    /\ raises \in [Assets -> Nat]
    /\ \A a \in Assets : ~asset[a].listed => asset[a].acc_share = 0 /\ asset[a].total_claimable = 0
    /\ \A a \in Assets : Covered(a)

\* Accrued amounts are natural numbers, rise with the index by at most what the lock
\* accumulates, and bound what is due.
LEMMA AccruedFacts ==
    ASSUME NEW pos \in Position, NEW amount \in Nat, NEW acc \in Nat, NEW acc2 \in Nat, acc <= acc2
    PROVE  /\ Accrued(pos, amount, acc) \in Nat
           /\ Accrued(pos, amount, acc) <= Accrued(pos, amount, acc2)
           /\ Accrued(pos, amount, acc2) + Accumulated(amount, acc)
                <= Accrued(pos, amount, acc) + Accumulated(amount, acc2)
           /\ Due(pos, amount, acc) <= Accrued(pos, amount, acc)
<1>1. Accumulated(amount, acc) <= Accumulated(amount, acc2)
    <2>1. acc * amount \in Nat /\ acc2 * amount \in Nat /\ acc * amount <= acc2 * amount
        BY MulMono
    <2>2. amount * acc = acc * amount /\ amount * acc2 = acc2 * amount
        OBVIOUS
    <2>3. DIVIDEND_PRECISION \in Nat \ {0}
        BY ScaleAssumption
    <2> QED BY <2>1, <2>2, <2>3, DivMono DEF Accumulated
<1>2. /\ pos.claimable \in Nat /\ pos.debt \in Nat
      /\ Accumulated(amount, acc) \in Nat /\ Accumulated(amount, acc2) \in Nat
    BY DueType
<1> QED BY <1>1, <1>2 DEF Accrued, Due, SaturatingSub

\* Settling never adds to what a position has accrued.
LEMMA AccruedSettle ==
    ASSUME NEW pos \in Position, NEW acc \in Nat, NEW old \in Nat, NEW new \in Nat
    PROVE  LET settled == Settle(pos, acc, old, new)
           IN  /\ Accrued(settled, new, acc) = settled.claimable
               /\ settled.claimable <= Accrued(pos, old, acc)
<1> DEFINE settled == Settle(pos, acc, old, new)
           base    == IF pos.exists THEN old ELSE 0
<1>1. /\ settled.debt = Accumulated(new, acc)
      /\ settled.claimable = pos.claimable + SaturatingSub(Accumulated(base, acc), pos.debt)
    BY DEF Settle
<1>2. settled \in Position
    BY SettleType
<1>3. /\ settled.claimable \in Nat /\ Accumulated(new, acc) \in Nat /\ Accumulated(old, acc) \in Nat
      /\ pos.claimable \in Nat /\ pos.debt \in Nat
    BY <1>2, DueType
<1> HIDE DEF settled
<1>4. Accrued(settled, new, acc) = settled.claimable
    BY <1>1, <1>3 DEF Accrued, SaturatingSub
<1>5. base \in Nat /\ Accumulated(base, acc) \in Nat /\ Accumulated(base, acc) <= Accumulated(old, acc)
    <2>1. CASE pos.exists
        BY <1>3, <2>1
    <2>2. CASE ~pos.exists
        <3>1. base = 0 /\ 0 * acc = 0
            BY <2>2
        <3>2. Accumulated(0, acc) = 0
            BY <3>1, ScaleAssumption DEF Accumulated
        <3> QED BY <1>3, <3>1, <3>2
    <2> QED BY <2>1, <2>2
<1> HIDE DEF base
<1>6. settled.claimable <= Accrued(pos, old, acc)
    BY <1>1, <1>3, <1>5 DEF Accrued, SaturatingSub
<1> QED BY <1>4, <1>6 DEF settled

\* A position carried by a step gains nothing at the old index.
LEMMA CarriedGainsNothing ==
    ASSUME TypeOK, TypeOK', NEW u \in Users, NEW a \in Assets, Carried(u, a)
    PROVE  Accrued(position'[u][a], locked'[u], asset[a].acc_share)
             <= Accrued(position[u][a], locked[u], asset[a].acc_share)
<1>1. PICK pos, pos2 \in Position : pos = position[u][a] /\ pos2 = position'[u][a]
    BY DEF TypeOK, PositionType
<1>2. PICK old, new \in Nat : old = locked[u] /\ new = locked'[u]
    BY DEF TypeOK, EscrowType
<1>3. PICK acc \in Nat : acc = asset[a].acc_share
    BY DEF TypeOK, AssetType, AssetConfig
<1>4. Accrued(pos, old, acc) \in Nat
    BY AccruedFacts
<1>5. Accrued(pos2, new, acc) <= Accrued(pos, old, acc)
    <2>1. CASE pos2 = pos /\ new = old
        BY <1>4, <2>1
    <2>2. CASE pos2 = [pos EXCEPT !.exists = TRUE] /\ new = old
        <3>1. pos2.claimable = pos.claimable /\ pos2.debt = pos.debt
            BY <2>2 DEF Position
        <3> QED BY <1>4, <2>2, <3>1 DEF Accrued
    <2>3. CASE pos2 = Settle(pos, acc, old, new)
        <3>1. /\ Accrued(Settle(pos, acc, old, new), new, acc) = Settle(pos, acc, old, new).claimable
              /\ Settle(pos, acc, old, new).claimable <= Accrued(pos, old, acc)
            BY AccruedSettle
        <3> QED BY <2>3, <3>1
    <2> QED BY <1>1, <1>2, <1>3, <2>1, <2>2, <2>3 DEF Carried
<1> QED BY <1>1, <1>2, <1>3, <1>5

\* The accrued amounts of all users, before and after a step.
LEMMA AccruedAtFacts ==
    ASSUME TypeOK, TypeOK', NEW a \in Assets, NEW acc \in Nat
    PROVE  /\ AccruedAt(a, acc) \in [Users -> Nat] /\ Total(AccruedAt(a, acc)) \in Nat
           /\ AccruedAt(a, acc)' \in [Users -> Nat] /\ Total(AccruedAt(a, acc)') \in Nat
           /\ \A u \in Users : AccruedAt(a, acc)[u] = Accrued(position[u][a], locked[u], acc)
           /\ \A u \in Users : AccruedAt(a, acc)'[u] = Accrued(position'[u][a], locked'[u], acc)
<1>1. IsFiniteSet(Users)
    BY ParameterAssumption
<1>2. \A u \in Users : /\ position[u][a] \in Position /\ locked[u] \in Nat
                       /\ position'[u][a] \in Position /\ locked'[u] \in Nat
    BY DEF TypeOK, PositionType, EscrowType
<1>3. acc <= acc
    OBVIOUS
<1>4. \A u \in Users : /\ Accrued(position[u][a], locked[u], acc) \in Nat
                       /\ Accrued(position'[u][a], locked'[u], acc) \in Nat
    BY <1>2, <1>3, AccruedFacts
<1>5. AccruedAt(a, acc) \in [Users -> Nat] /\ AccruedAt(a, acc)' \in [Users -> Nat]
    BY <1>4 DEF AccruedAt
<1> QED BY <1>1, <1>5, TotalFinite DEF AccruedAt

\* Positions that gain nothing at the old index, an index and a reserve that stay.
LEMMA OverhangQuiet ==
    ASSUME TypeOK, TypeOK', NEW a \in Assets, NEW acc \in Nat,
           \A u \in Users : Accrued(position'[u][a], locked'[u], acc)
                              <= Accrued(position[u][a], locked[u], acc)
    PROVE  Total(AccruedAt(a, acc)') <= Total(AccruedAt(a, acc))
<1>1. IsFiniteSet(Users)
    BY ParameterAssumption
<1>2. PICK f, g \in [Users -> Nat] : f = AccruedAt(a, acc)' /\ g = AccruedAt(a, acc)
    BY AccruedAtFacts
<1>3. \A u \in Users : f[u] <= g[u]
    BY <1>2, AccruedAtFacts
<1> QED BY <1>1, <1>2, <1>3, TotalMono

\* Every lock's accumulated floor, against the floor of the total lock.
LEMMA LockFloors ==
    ASSUME NEW l \in [Users -> Nat], NEW acc \in Nat, NEW m, m = [u \in Users |-> Accumulated(l[u], acc)]
    PROVE  /\ m \in [Users -> Nat] /\ Total(m) \in Nat /\ Total(l) \in Nat /\ Cardinality(Users) \in Nat
           /\ Accumulated(Total(l), acc) \in Nat
           /\ Total(m) <= Accumulated(Total(l), acc)
           /\ Accumulated(Total(l), acc) <= Total(m) + Cardinality(Users)
<1>1. IsFiniteSet(Users)
    BY ParameterAssumption
<1>2. PICK p \in Nat \ {0} : p = DIVIDEND_PRECISION
    BY ScaleAssumption
<1>3. \A u \in Users : l[u] \in Nat /\ Accumulated(l[u], acc) \in Nat
    BY AccumulatedType
<1>4. PICK h \in [Users -> Nat] : h = m
    BY <1>3
<1>5. \A u \in Users : h[u] = (l[u] * acc) \div p
    BY <1>2, <1>4 DEF Accumulated
<1>6. /\ Total(h) \in Nat /\ Total(l) \in Nat /\ Cardinality(Users) \in Nat
      /\ Total(h) <= (Total(l) * acc) \div p
      /\ (Total(l) * acc) \div p <= Total(h) + Cardinality(Users)
    BY <1>1, <1>5, TotalFloors
<1>7. Accumulated(Total(l), acc) \in Nat
    BY <1>6, AccumulatedType
<1> QED BY <1>2, <1>4, <1>6, <1>7 DEF Accumulated

\* What a raise of the index from acc to acc2 adds to the accrued amounts, against what the
\* floors of the total lock add to the reserve.
LEMMA OverhangRaise ==
    ASSUME TypeOK, TypeOK', NEW a \in Assets, NEW acc \in Nat, NEW acc2 \in Nat, acc <= acc2
    PROVE  /\ Cardinality(Users) \in Nat /\ Total(locked') \in Nat
           /\ Total(AccruedAt(a, acc2)') + Accumulated(Total(locked'), acc)
                <= Total(AccruedAt(a, acc)') + Accumulated(Total(locked'), acc2) + Cardinality(Users)
<1>1. IsFiniteSet(Users)
    BY ParameterAssumption
<1>2. PICK f, g \in [Users -> Nat] : f = AccruedAt(a, acc)' /\ g = AccruedAt(a, acc2)'
    BY AccruedAtFacts
<1>3. PICK l \in [Users -> Nat] : l = locked'
    BY DEF TypeOK, EscrowType
<1>4. PICK m, n : /\ m = [u \in Users |-> Accumulated(l[u], acc)]
                  /\ n = [u \in Users |-> Accumulated(l[u], acc2)]
    OBVIOUS
<1>5. /\ m \in [Users -> Nat] /\ Total(m) \in Nat /\ Total(l) \in Nat /\ Cardinality(Users) \in Nat
      /\ Accumulated(Total(l), acc) \in Nat
      /\ Accumulated(Total(l), acc) <= Total(m) + Cardinality(Users)
    BY <1>4, LockFloors
<1>6. /\ n \in [Users -> Nat] /\ Total(n) \in Nat /\ Accumulated(Total(l), acc2) \in Nat
      /\ Total(n) <= Accumulated(Total(l), acc2)
    BY <1>4, LockFloors
<1>7. \A u \in Users : g[u] + m[u] <= f[u] + n[u]
    <2> SUFFICES ASSUME NEW u \in Users PROVE g[u] + m[u] <= f[u] + n[u]
        OBVIOUS
    <2>1. position'[u][a] \in Position /\ locked'[u] \in Nat
        BY DEF TypeOK, PositionType, EscrowType
    <2>2. Accrued(position'[u][a], locked'[u], acc2) + Accumulated(locked'[u], acc)
            <= Accrued(position'[u][a], locked'[u], acc) + Accumulated(locked'[u], acc2)
        BY <2>1, AccruedFacts
    <2>3. m[u] = Accumulated(locked'[u], acc) /\ n[u] = Accumulated(locked'[u], acc2)
        BY <1>3, <1>4
    <2>4. f[u] = Accrued(position'[u][a], locked'[u], acc) /\ g[u] = Accrued(position'[u][a], locked'[u], acc2)
        BY <1>2, AccruedAtFacts
    <2> QED BY <2>2, <2>3, <2>4
<1>8. Total(g) + Total(m) <= Total(f) + Total(n)
    <2> DEFINE gm == [u \in Users |-> g[u] + m[u]]
               fn == [u \in Users |-> f[u] + n[u]]
    <2>1. gm \in [Users -> Nat] /\ fn \in [Users -> Nat] /\ \A u \in Users : gm[u] <= fn[u]
        BY <1>5, <1>6, <1>7
    <2>2. Total(gm) = Total(g) + Total(m) /\ Total(fn) = Total(f) + Total(n)
        BY <1>1, <1>5, <1>6, TotalPlus
    <2> HIDE DEF gm, fn
    <2>3. Total(gm) <= Total(fn)
        BY <1>1, <2>1, TotalMono
    <2> QED BY <2>2, <2>3
<1>9. Total(f) \in Nat /\ Total(g) \in Nat
    BY <1>1, TotalFinite
<1>10. Total(g) + Accumulated(Total(l), acc)
         <= Total(f) + Accumulated(Total(l), acc2) + Cardinality(Users)
    BY <1>5, <1>6, <1>8, <1>9
<1> QED BY <1>2, <1>3, <1>5, <1>10

\* A dividend cut either leaves index and reserve alone, or reserves exactly what the total
\* lock accumulates.
LEMMA DistributeExact ==
    ASSUME NEW acc \in Nat, NEW amount \in Nat, NEW eligible \in Nat
    PROVE  LET d == DistributeDividend(acc, amount, eligible)
           IN  \/ d.acc = acc /\ d.reserved = 0
               \/ d.acc > acc /\ Accumulated(eligible, d.acc) = Accumulated(eligible, acc) + d.reserved
<1> DEFINE inc == IF eligible > 0 THEN (amount * DIVIDEND_PRECISION) \div eligible ELSE 0
           res == SaturatingSub(Accumulated(eligible, acc + inc), Accumulated(eligible, acc))
           d   == DistributeDividend(acc, amount, eligible)
<1>1. d = IF inc = 0 \/ res = 0
          THEN [acc |-> acc, reserved |-> 0, dust |-> amount]
          ELSE [acc |-> acc + inc, reserved |-> res, dust |-> SaturatingSub(amount, res)]
    BY DEF DistributeDividend
<1>2. inc \in Nat
    <2>1. amount * DIVIDEND_PRECISION \in Nat
        BY ScaleAssumption
    <2> QED BY <2>1, DivFacts
<1> HIDE DEF inc
<1>3. Accumulated(eligible, acc) \in Nat /\ Accumulated(eligible, acc + inc) \in Nat
    <2>1. acc + inc \in Nat
        BY <1>2
    <2> QED BY <2>1, AccumulatedType
<1>4. CASE inc = 0 \/ res = 0
    <2>1. d.acc = acc /\ d.reserved = 0
        BY <1>1, <1>4
    <2> HIDE DEF d
    <2> QED BY <2>1 DEF d
<1>5. CASE ~(inc = 0 \/ res = 0)
    <2>1. d.acc = acc + inc /\ d.reserved = res
        BY <1>1, <1>5
    <2>2. Accumulated(eligible, acc + inc) = Accumulated(eligible, acc) + res
        BY <1>3, <1>5 DEF SaturatingSub
    <2> QED BY <1>2, <1>5, <2>1, <2>2
<1> QED BY <1>4, <1>5

\* The numbers the bound is about.
LEMMA CoveredTypes ==
    ASSUME OverhangInv, LedgerInv', NEW a \in Assets
    PROVE  /\ TypeOK /\ TypeOK' /\ Covered(a) /\ totalLocked' = Total(locked')
           /\ asset[a].acc_share \in Nat /\ asset'[a].acc_share \in Nat
           /\ asset[a].total_claimable \in Nat /\ asset'[a].total_claimable \in Nat
           /\ raises[a] \in Nat /\ Cardinality(Users) \in Nat /\ Cardinality(Users) * raises[a] \in Nat
           /\ AccruedAt(a, asset[a].acc_share)' = [u \in Users |->
                Accrued(position'[u][a], locked'[u], asset'[a].acc_share)]
<1>1. TypeOK /\ TypeOK' /\ totalLocked' = Total(locked')
    BY DEF OverhangInv, LedgerInv, LocksExact
<1>2. Covered(a) /\ raises[a] \in Nat
    BY DEF OverhangInv, Covered
<1>3. IsFiniteSet(Users)
    BY ParameterAssumption
<1>4. Cardinality(Users) \in Nat
    BY <1>3, FS_CardinalityType
<1>5. Cardinality(Users) * raises[a] \in Nat
    BY <1>2, <1>4
<1>6. /\ asset[a].acc_share \in Nat /\ asset'[a].acc_share \in Nat
      /\ asset[a].total_claimable \in Nat /\ asset'[a].total_claimable \in Nat
    BY <1>1 DEF TypeOK, AssetType, AssetConfig
<1> QED BY <1>1, <1>2, <1>4, <1>5, <1>6 DEF AccruedAt

\* Steps that carry every position in a and leave its index and reserve alone.
LEMMA CoveredQuiet ==
    ASSUME OverhangInv, LedgerInv', NEW a \in Assets,
           \A u \in Users : Accrued(position'[u][a], locked'[u], asset[a].acc_share)
                              <= Accrued(position[u][a], locked[u], asset[a].acc_share),
           asset'[a].acc_share = asset[a].acc_share,
           asset'[a].total_claimable = asset[a].total_claimable, raises'[a] = raises[a]
    PROVE  Covered(a)'
<1>1. PICK acc \in Nat : acc = asset[a].acc_share
    BY CoveredTypes
<1>2. AccruedAt(a, asset[a].acc_share)' = AccruedAt(a, acc)'
    BY <1>1 DEF AccruedAt
<1>3. Total(AccruedAt(a, acc)') <= Total(AccruedAt(a, acc))
    BY <1>1, CoveredTypes, OverhangQuiet
<1>4. Total(AccruedAt(a, acc)') \in Nat /\ Total(AccruedAt(a, acc)) \in Nat
    BY CoveredTypes, AccruedAtFacts
<1>5. Total(AccruedAt(a, acc)) <= asset[a].total_claimable + Cardinality(Users) * raises[a]
    BY <1>1, CoveredTypes DEF Covered
<1>6. Total(AccruedAt(a, acc)') <= asset[a].total_claimable + Cardinality(Users) * raises[a]
    <2>1. asset[a].total_claimable \in Nat /\ Cardinality(Users) * raises[a] \in Nat
        BY CoveredTypes
    <2> QED BY <1>3, <1>4, <1>5, <2>1
<1> QED BY <1>2, <1>6 DEF Covered

\* distribute and bribe: a dividend cut raises index and reserve together.
LEMMA CoveredRaise ==
    ASSUME OverhangInv, LedgerInv', NEW a \in Assets, NEW cut \in Nat,
           \A u \in Users : Accrued(position'[u][a], locked'[u], asset[a].acc_share)
                              <= Accrued(position[u][a], locked[u], asset[a].acc_share),
           asset' = Credited(a, DistributeDividend(asset[a].acc_share, cut, totalLocked')),
           raises'[a] = IF asset'[a].acc_share > asset[a].acc_share THEN raises[a] + 1 ELSE raises[a]
    PROVE  Covered(a)'
<1>1. PICK acc, tc, lk \in Nat : acc = asset[a].acc_share /\ tc = asset[a].total_claimable /\ lk = totalLocked'
    <2>1. totalLocked' \in Nat
        BY CoveredTypes DEF TypeOK, EscrowType
    <2> QED BY <2>1, CoveredTypes
<1>2. PICK d : d = DistributeDividend(acc, cut, lk)
    OBVIOUS
<1>3. d.acc \in Nat /\ d.reserved \in Nat /\ d.acc >= acc
    BY <1>2, DistributeFacts
<1>4. \/ d.acc = acc /\ d.reserved = 0
      \/ d.acc > acc /\ Accumulated(lk, d.acc) = Accumulated(lk, acc) + d.reserved
    BY <1>2, DistributeExact
<1>5. asset' = Credited(a, d)
    BY <1>1, <1>2
<1>6. asset'[a].acc_share = d.acc /\ asset'[a].total_claimable = tc + d.reserved
    <2>1. asset \in [Assets -> AssetConfig]
        BY CoveredTypes DEF TypeOK, AssetType
    <2> QED BY <1>1, <1>5, <2>1 DEF Credited, AssetConfig
<1>7. CASE d.acc = acc /\ d.reserved = 0
    <2>1. /\ asset'[a].acc_share = asset[a].acc_share /\ raises'[a] = raises[a]
          /\ asset'[a].total_claimable = asset[a].total_claimable
        BY <1>1, <1>6, <1>7
    <2> QED BY <2>1, CoveredQuiet
<1>8. CASE d.acc > acc /\ Accumulated(lk, d.acc) = Accumulated(lk, acc) + d.reserved
    <2>1. PICK new \in Nat : new = d.acc
        BY <1>3
    <2>2. /\ Cardinality(Users) \in Nat
          /\ Total(AccruedAt(a, new)') + Accumulated(lk, acc)
               <= Total(AccruedAt(a, acc)') + Accumulated(lk, new) + Cardinality(Users)
        BY <1>1, <1>3, <2>1, CoveredTypes, OverhangRaise
    <2>3. Accumulated(lk, acc) \in Nat
        BY AccumulatedType
    <2>4. /\ Total(AccruedAt(a, new)') \in Nat /\ Total(AccruedAt(a, acc)') \in Nat
          /\ Total(AccruedAt(a, acc)) \in Nat
        BY CoveredTypes, AccruedAtFacts
    <2>5. Total(AccruedAt(a, acc)') <= Total(AccruedAt(a, acc))
        BY <1>1, CoveredTypes, OverhangQuiet
    <2>6. Total(AccruedAt(a, acc)) <= tc + Cardinality(Users) * raises[a]
        BY <1>1, CoveredTypes DEF Covered
    <2>7. raises'[a] = raises[a] + 1
        BY <1>1, <1>6, <1>8
    <2>8. Cardinality(Users) * (raises[a] + 1) = Cardinality(Users) * raises[a] + Cardinality(Users)
        <3>1. Cardinality(Users) \in Nat /\ raises[a] \in Nat
            BY CoveredTypes
        <3> QED BY <3>1
    <2>9. Total(AccruedAt(a, new)') <= (tc + d.reserved) + Cardinality(Users) * (raises[a] + 1)
        <3>1. PICK c, k \in Nat : c = Cardinality(Users) /\ k = Cardinality(Users) * raises[a]
            BY CoveredTypes
        <3> QED BY <1>3, <1>8, <2>1, <2>2, <2>3, <2>4, <2>5, <2>6, <2>8, <3>1
    <2>10. AccruedAt(a, asset[a].acc_share)' = AccruedAt(a, new)'
        BY <1>6, <2>1 DEF AccruedAt
    <2> QED BY <1>6, <2>7, <2>9, <2>10 DEF Covered
<1> QED BY <1>4, <1>7, <1>8

\* claim and claim_all: a payout of c lowers the accrued amount and the reserve by c.
LEMMA CoveredClaim ==
    ASSUME OverhangInv, LedgerInv', NEW a \in Assets, NEW w \in Users, NEW c \in Nat,
           c <= ClaimPosition(w, a).claimable, c <= asset[a].total_claimable,
           position'[w][a] = [ClaimPosition(w, a) EXCEPT !.claimable = @ - c],
           \A u \in Users \ {w} : position'[u][a] = position[u][a],
           locked' = locked, asset'[a].acc_share = asset[a].acc_share,
           asset'[a].total_claimable = SaturatingSub(asset[a].total_claimable, c),
           raises'[a] = raises[a]
    PROVE  Covered(a)'
<1>0. IsFiniteSet(Users)
    BY ParameterAssumption
<1>1. PICK acc, tc \in Nat : acc = asset[a].acc_share /\ tc = asset[a].total_claimable
    BY CoveredTypes
<1>2. PICK pos \in Position : pos = position[w][a]
    BY CoveredTypes DEF TypeOK, PositionType
<1>3. PICK lock \in Nat : lock = locked[w]
    BY CoveredTypes DEF TypeOK, EscrowType
<1>4. PICK settled : settled = Settle(pos, acc, lock, lock)
    OBVIOUS
<1>5. settled \in Position
    BY <1>4, SettleType
<1>6. Accrued(settled, lock, acc) = settled.claimable /\ settled.claimable <= Accrued(pos, lock, acc)
    BY <1>4, AccruedSettle
<1>7. ClaimPosition(w, a) = settled
    BY <1>1, <1>2, <1>3, <1>4 DEF ClaimPosition
<1>8. PICK pos2 : pos2 = [settled EXCEPT !.claimable = @ - c]
    OBVIOUS
<1>9. settled.claimable \in Nat /\ settled.debt \in Nat /\ Accumulated(lock, acc) \in Nat
    BY <1>5, DueType
<1>10. pos2.claimable = settled.claimable - c /\ pos2.debt = settled.debt
    BY <1>5, <1>8 DEF Position
<1>11. Accrued(pos2, lock, acc) = settled.claimable - c
    <2>1. SaturatingSub(Accumulated(lock, acc), settled.debt) \in Nat
        BY <1>9 DEF SaturatingSub
    <2>2. settled.claimable + SaturatingSub(Accumulated(lock, acc), settled.debt) = settled.claimable
        BY <1>6 DEF Accrued
    <2>3. SaturatingSub(Accumulated(lock, acc), settled.debt) = 0
        BY <1>9, <2>1, <2>2
    <2> QED BY <1>9, <1>10, <2>3 DEF Accrued
<1>12. PICK f, g \in [Users -> Nat] : f = AccruedAt(a, acc)' /\ g = AccruedAt(a, acc)
    BY CoveredTypes, AccruedAtFacts
<1>13. \A u \in Users : /\ f[u] = Accrued(position'[u][a], locked'[u], acc)
                        /\ g[u] = Accrued(position[u][a], locked[u], acc)
    <2>1. TypeOK /\ TypeOK'
        BY CoveredTypes
    <2> QED BY <1>12, <2>1, AccruedAtFacts
<1>14. \A u \in Users \ {w} : f[u] = g[u]
    BY <1>13
<1>23. f[w] = Accrued(pos2, lock, acc) /\ g[w] = Accrued(pos, lock, acc)
    BY <1>2, <1>3, <1>7, <1>8, <1>13
<1>15. f[w] \in Nat /\ g[w] \in Nat /\ f[w] <= g[w] - c
    BY <1>6, <1>7, <1>9, <1>11, <1>23
<1>16. f = [g EXCEPT ![w] = f[w]]
    BY <1>14
<1>17. Total(g) \in Nat /\ g[w] <= Total(g) /\ Total(f) = Total(g) - g[w] + f[w]
    BY <1>15, <1>16, UserTotals
<1>18. Total(g) <= tc + Cardinality(Users) * raises[a]
    BY <1>1, <1>12, CoveredTypes DEF Covered
<1>19. PICK k \in Nat : k = Cardinality(Users) * raises[a]
    BY CoveredTypes
<1>20. Total(f) <= (tc - c) + k
    BY <1>15, <1>17, <1>18, <1>19
<1>21. asset'[a].total_claimable = tc - c
    BY <1>1 DEF SaturatingSub
<1>22. AccruedAt(a, asset[a].acc_share)' = AccruedAt(a, acc)'
    BY <1>1 DEF AccruedAt
<1> QED BY <1>12, <1>19, <1>20, <1>21, <1>22 DEF Covered

\* No step but a listing touches an unlisted asset or the positions in it.
LEMMA UnlistedUntouched ==
    ASSUME TypeOK, Next, NEW a \in Assets, ~asset[a].listed
    PROVE  /\ \A u \in Users : position'[u][a] = position[u][a]
           /\ \/ asset'[a] = asset[a]
              \/ asset'[a].listed /\ asset'[a].acc_share = 0 /\ asset'[a].total_claimable = 0
<1>0. /\ asset \in [Assets -> AssetConfig] /\ position \in [Users -> [Assets -> Position]]
    BY DEF TypeOK, AssetType, PositionType
<1> DEFINE Goal == /\ \A u \in Users : position'[u][a] = position[u][a]
                   /\ \/ asset'[a] = asset[a]
                      \/ asset'[a].listed /\ asset'[a].acc_share = 0 /\ asset'[a].total_claimable = 0
<1>1. ASSUME NEW w \in Users, NEW old, NEW new, SettleAll(w, old, new)
      PROVE  \A u \in Users : position'[u][a] = position[u][a]
    BY <1>0, <1>1 DEF SettleAll
<1>2. ASSUME NEW w \in Users, NEW k \in Assets, NEW x \in DepositAmounts, NEW lock \in BOOLEAN,
             Deposit(w, k, x, lock)
      PROVE  Goal
    <2>1. asset' = asset
        BY <1>2 DEF Deposit, assetVars
    <2>2. CASE lock
        <3>1. \E old, new : SettleAll(w, old, new)
            BY <1>2, <2>2 DEF Deposit, PerformLock
        <3> QED BY <1>1, <2>1, <3>1
    <2>3. CASE ~lock
        <3>1. position' = position
            BY <1>2, <2>3 DEF Deposit
        <3> QED BY <2>1, <3>1
    <2> QED BY <2>2, <2>3
<1>3. ASSUME NEW w \in Users, NEW x \in GraiAmounts,
             Lock(w, x) \/ Unlock(w, x) \/ Vote(w, x) \/ Redeem(w, x)
      PROVE  Goal
    <2>1. asset' = asset
        BY <1>3 DEF Lock, Unlock, Vote, Redeem, assetVars
    <2>2. \E old, new : SettleAll(w, old, new)
        BY <1>3 DEF Lock, Unlock, Vote, Redeem, PerformLock, ShrinkLock
    <2> QED BY <1>1, <2>1, <2>2
<1>4. ASSUME NEW b \in Users, NEW w \in Users, NEW k \in Assets, NEW x \in GraiAmounts,
             Bribe(b, w, k, x)
      PROVE  Goal
    <2>1. asset[k].listed /\ \E old, new : SettleAll(w, old, new)
        BY <1>4 DEF Bribe
    <2>2. \E d : asset' = Credited(k, d)
        BY <1>4 DEF Bribe
    <2>3. asset'[a] = asset[a]
        BY <1>0, <2>1, <2>2 DEF Credited
    <2> QED BY <1>1, <2>1, <2>3
<1>5. ASSUME NEW c \in Users \cup {Outsider}, NEW k \in Assets, NEW y \in YieldAmounts,
             Distribute(c, k, y)
      PROVE  Goal
    <2>1. /\ asset[k].listed
          /\ position' = IF c \in Users THEN [position EXCEPT ![c][k].exists = TRUE] ELSE position
        BY <1>5 DEF Distribute
    <2>2. \E d : asset' = Credited(k, d)
        BY <1>5 DEF Distribute
    <2>3. asset'[a] = asset[a]
        BY <1>0, <2>1, <2>2 DEF Credited
    <2> QED BY <1>0, <2>1, <2>3
<1>6. ASSUME NEW w \in Users, NEW k \in Assets, NEW x \in ClaimAmounts, Claim(w, k, x) PROVE Goal
    BY <1>0, <1>6 DEF Claim
<1>7. ASSUME NEW w \in Users, ClaimAll(w) PROVE Goal
    <2> DEFINE claimed == [k \in Assets |->
                             IF asset[k].listed THEN Claimed(w, k, ClaimPosition(w, k).claimable) ELSE 0]
    <2>1. /\ asset' = [k \in Assets |->
                         [asset[k] EXCEPT !.total_claimable = SaturatingSub(@, claimed[k])]]
          /\ position' = [position EXCEPT ![w] =
                            [k \in Assets |->
                               IF asset[k].listed
                               THEN [ClaimPosition(w, k) EXCEPT !.claimable = @ - claimed[k]]
                               ELSE @[k]]]
        BY <1>7 DEF ClaimAll
    <2>2. claimed[a] = 0
        OBVIOUS
    <2> HIDE DEF claimed
    <2>3. \A u \in Users : position'[u][a] = position[u][a]
        BY <1>0, <2>1
    <2>4. asset'[a] = asset[a]
        <3>1. asset[a] \in AssetConfig /\ asset[a].total_claimable \in Nat
            BY <1>0 DEF AssetConfig
        <3>2. SaturatingSub(asset[a].total_claimable, 0) = asset[a].total_claimable
            BY <3>1 DEF SaturatingSub
        <3>3. asset'[a] = [asset[a] EXCEPT !.total_claimable = asset[a].total_claimable]
            BY <2>1, <2>2, <3>2
        <3> QED BY <3>1, <3>3 DEF AssetConfig
    <2> QED BY <2>3, <2>4
<1>8. ASSUME NEW k \in Assets, NEW paused \in PauseFlags, ListAsset(k, paused) PROVE Goal
    <2>1. /\ position' = position
          /\ asset' = [asset EXCEPT ![k] = [Unlisted EXCEPT !.listed = TRUE, !.paused = paused]]
        BY <1>8 DEF ListAsset
    <2>2. CASE k = a
        BY <1>0, <2>1, <2>2 DEF Unlisted
    <2>3. CASE k # a
        BY <1>0, <2>1, <2>3
    <2> QED BY <2>2, <2>3
<1>9. ASSUME NEW k \in Assets, DelistAsset(k) \/ (\E paused \in PauseFlags : ReplaceFeed(k, paused))
                               \/ (\E flag \in BribeFlags : SetBribeable(k, flag))
      PROVE  Goal
    <2>1. k # a
        BY <1>9 DEF DelistAsset, ReplaceFeed, SetBribeable
    <2>2. position' = position /\ asset'[a] = asset[a]
        BY <1>0, <1>9, <2>1 DEF DelistAsset, ReplaceFeed, SetBribeable
    <2> QED BY <2>2
<1>10. CASE \/ \E b \in Users, s \in Users, x \in SendAmounts : PoachPayment(b, s, x)
            \/ \E w \in Users : Liquidate(w)
            \/ Revive
            \/ \E c \in Configs : SetConfig(c)
            \/ \E split \in ShareSplits : SetRevenueShareBps(split)
    BY <1>10 DEF PoachPayment, Liquidate, Revive, SetConfig, SetRevenueShareBps, assetVars
<1>11. CASE \/ \E w \in Users, v \in Users, x \in SendAmounts : TransferGrai(w, v, x)
            \/ \E w \in Users, x \in SendAmounts : StrayGrai(w, x)
            \/ \E w \in Users, x \in BurnAmounts : BurnGrai(w, x)
            \/ \E w \in Users, x \in GraiAmounts : WithdrawGrai(w, x)
            \/ \E k \in Assets, x \in SweepAmounts : SweepIn(k, x)
            \/ GrindersHeartbeat
            \/ \E k \in Assets, p \in Prices : FeedReport(k, p)
            \/ Tick
    BY <1>11 DEF TransferGrai, StrayGrai, BurnGrai, WithdrawGrai, SweepIn, GrindersHeartbeat,
       FeedReport, Tick, assetVars
<1> QED BY <1>2, <1>3, <1>4, <1>5, <1>6, <1>7, <1>8, <1>9, <1>10, <1>11 DEF Next

\* What every step but a claim does to index and reserve of a listed asset.
LEMMA ListedStep ==
    ASSUME TypeOK, Next, NEW a \in Listed
    PROVE  \/ asset'[a].acc_share = asset[a].acc_share /\ asset'[a].listed
              /\ asset'[a].total_claimable = asset[a].total_claimable
           \/ asset'[a].listed /\ \E cut \in Nat :
                asset' = Credited(a, DistributeDividend(asset[a].acc_share, cut, totalLocked'))
           \/ DelistAsset(a)
           \/ \E w \in Users : ClaimAll(w) \/ \E x \in ClaimAmounts : Claim(w, a, x)
<1>0. /\ asset \in [Assets -> AssetConfig] /\ a \in Assets /\ asset[a].listed
    BY DEF TypeOK, AssetType, Listed
<1> DEFINE Quiet == /\ asset'[a].acc_share = asset[a].acc_share /\ asset'[a].listed
                    /\ asset'[a].total_claimable = asset[a].total_claimable
           Cut == asset'[a].listed /\ \E cut \in Nat :
                    asset' = Credited(a, DistributeDividend(asset[a].acc_share, cut, totalLocked'))
<1>1. ASSUME NEW k \in Assets, NEW d, asset' = Credited(k, d), k # a PROVE Quiet
    BY <1>0, <1>1 DEF Credited
<1>2. ASSUME NEW d, asset' = Credited(a, d) PROVE asset'[a].listed
    BY <1>0, <1>2 DEF Credited, AssetConfig
<1>3. ASSUME NEW c \in Users \cup {Outsider}, NEW k \in Assets, NEW y \in YieldAmounts,
             Distribute(c, k, y)
      PROVE  Quiet \/ Cut
    <2>1. PICK cut \in Nat :
            asset' = Credited(k, DistributeDividend(asset[k].acc_share, cut, totalLocked))
        BY <1>3, DistributeActionFacts
    <2>2. totalLocked' = totalLocked
        BY <1>3 DEF Distribute, escrowVars
    <2> QED BY <1>1, <1>2, <2>1, <2>2
<1>4. ASSUME NEW b \in Users, NEW w \in Users, NEW k \in Assets, NEW x \in GraiAmounts,
             Bribe(b, w, k, x)
      PROVE  Quiet \/ Cut
    <2>1. PICK pool, cut \in Nat :
            asset' = Credited(k, DistributeDividend(asset[k].acc_share, cut, totalLocked - x))
        BY <1>4, BribeFacts
    <2>2. totalLocked' = totalLocked - x
        BY <1>4 DEF Bribe
    <2> QED BY <1>1, <1>2, <2>1, <2>2
<1>5. ASSUME NEW w \in Users, NEW k \in Assets, NEW x \in ClaimAmounts, Claim(w, k, x), k # a
      PROVE  Quiet
    BY <1>0, <1>5 DEF Claim
<1>6. ASSUME NEW k \in Assets, NEW paused \in PauseFlags, ListAsset(k, paused) \/ ReplaceFeed(k, paused)
      PROVE  Quiet
    <2>1. CASE ListAsset(k, paused)
        BY <1>0, <2>1 DEF ListAsset
    <2>2. CASE ReplaceFeed(k, paused)
        BY <1>0, <2>2 DEF ReplaceFeed, AssetConfig
    <2> QED BY <1>6, <2>1, <2>2
<1>7. ASSUME NEW k \in Assets, NEW flag \in BribeFlags, SetBribeable(k, flag) PROVE Quiet
    BY <1>0, <1>7 DEF SetBribeable, AssetConfig
<1>8. ASSUME NEW k \in Assets, DelistAsset(k), k # a PROVE Quiet
    BY <1>0, <1>8 DEF DelistAsset
<1>9. CASE asset' = asset
    BY <1>0, <1>9
<1>10. CASE \/ \E u \in Users, k \in Assets, x \in DepositAmounts, lock \in BOOLEAN : Deposit(u, k, x, lock)
            \/ \E u \in Users, x \in GraiAmounts : Lock(u, x)
            \/ \E u \in Users, x \in GraiAmounts : Unlock(u, x)
            \/ \E u \in Users, x \in GraiAmounts : Vote(u, x)
            \/ \E b \in Users, s \in Users, x \in SendAmounts : PoachPayment(b, s, x)
            \/ \E u \in Users : Liquidate(u)
            \/ \E u \in Users, x \in GraiAmounts : Redeem(u, x)
            \/ Revive
    BY <1>9, <1>10 DEF Deposit, Lock, Unlock, Vote, PoachPayment, Liquidate, Redeem, Revive, assetVars
<1>11. CASE \/ \E c \in Configs : SetConfig(c)
            \/ \E split \in ShareSplits : SetRevenueShareBps(split)
            \/ \E u \in Users, v \in Users, x \in SendAmounts : TransferGrai(u, v, x)
            \/ \E u \in Users, x \in SendAmounts : StrayGrai(u, x)
            \/ \E u \in Users, x \in BurnAmounts : BurnGrai(u, x)
            \/ \E u \in Users, x \in GraiAmounts : WithdrawGrai(u, x)
            \/ \E k \in Assets, x \in SweepAmounts : SweepIn(k, x)
            \/ GrindersHeartbeat
            \/ \E k \in Assets, p \in Prices : FeedReport(k, p)
            \/ Tick
    BY <1>9, <1>11 DEF SetConfig, SetRevenueShareBps, TransferGrai, StrayGrai, BurnGrai, WithdrawGrai,
       SweepIn, GrindersHeartbeat, FeedReport, Tick, assetVars
<1> HIDE DEF Quiet, Cut
<1>12. Quiet \/ Cut \/ DelistAsset(a) \/ \E w \in Users : ClaimAll(w) \/ \E x \in ClaimAmounts : Claim(w, a, x)
    <2>1. Next => \/ Quiet \/ Cut \/ DelistAsset(a)
                  \/ \E w \in Users : ClaimAll(w) \/ \E x \in ClaimAmounts : Claim(w, a, x)
        BY <1>3, <1>4, <1>5, <1>6, <1>7, <1>8, <1>10, <1>11 DEF Next, Quiet, Cut
    <2> QED BY <2>1
<1> QED BY <1>12 DEF Quiet, Cut

\* Delisting forgets the index: accrued amounts only fall, and nothing was reserved.
LEMMA CoveredDelist ==
    ASSUME OverhangInv, LedgerInv', NEW a \in Assets, DelistAsset(a), raises'[a] = raises[a]
    PROVE  Covered(a)'
<1>1. PICK acc \in Nat : acc = asset[a].acc_share
    BY CoveredTypes
<1>2. TypeOK /\ TypeOK' /\ raises[a] \in Nat /\ Cardinality(Users) * raises[a] \in Nat
    BY CoveredTypes
<1>3. /\ position' = position /\ locked' = locked /\ asset[a].total_claimable = 0
      /\ asset' = [asset EXCEPT ![a] = Unlisted]
    BY DEF DelistAsset, escrowVars
<1>4. asset'[a].acc_share = 0 /\ asset'[a].total_claimable = 0
    BY <1>2, <1>3 DEF Unlisted, TypeOK, AssetType
<1>5. IsFiniteSet(Users)
    BY ParameterAssumption
<1>6. PICK f, g \in [Users -> Nat] : f = AccruedAt(a, 0)' /\ g = AccruedAt(a, acc)
    <2>1. 0 \in Nat
        OBVIOUS
    <2> QED BY <1>2, <2>1, AccruedAtFacts
<1>7. \A u \in Users : f[u] <= g[u]
    <2> SUFFICES ASSUME NEW u \in Users PROVE f[u] <= g[u]
        OBVIOUS
    <2>1. position[u][a] \in Position /\ locked[u] \in Nat
        BY <1>2 DEF TypeOK, PositionType, EscrowType
    <2>2. f[u] = Accrued(position[u][a], locked[u], 0) /\ g[u] = Accrued(position[u][a], locked[u], acc)
        BY <1>3, <1>6 DEF AccruedAt
    <2>3. PICK z \in Nat : z = 0 /\ z <= acc
        OBVIOUS
    <2>4. Accrued(position[u][a], locked[u], z) <= Accrued(position[u][a], locked[u], acc)
        BY <2>1, <2>3, AccruedFacts
    <2> QED BY <2>2, <2>3, <2>4
<1>8. Total(f) <= Total(g) /\ Total(f) \in Nat /\ Total(g) \in Nat
    BY <1>5, <1>7, TotalMono, TotalFinite
<1>9. Total(g) <= 0 + Cardinality(Users) * raises[a]
    BY <1>1, <1>3, <1>6, CoveredTypes DEF Covered
<1>10. Total(f) <= 0 + Cardinality(Users) * raises[a]
    BY <1>2, <1>8, <1>9
<1>11. AccruedAt(a, asset[a].acc_share)' = f
    BY <1>4, <1>6 DEF AccruedAt
<1> QED BY <1>4, <1>10, <1>11 DEF Covered

\* The claims of w, for one asset and for all.
LEMMA CoveredClaimStep ==
    ASSUME OverhangInv, LedgerInv', NEW a \in Listed, NEW w \in Users,
           ClaimAll(w) \/ (\E x \in ClaimAmounts : Claim(w, a, x)), raises'[a] = raises[a]
    PROVE  Covered(a)' /\ asset'[a].listed
<1>0. /\ a \in Assets /\ asset[a].listed /\ TypeOK /\ TypeOK'
    BY CoveredTypes DEF Listed
<1>1. /\ asset \in [Assets -> AssetConfig] /\ position \in [Users -> [Assets -> Position]]
    BY <1>0 DEF TypeOK, AssetType, PositionType
<1>2. ASSUME NEW x \in ClaimAmounts, Claim(w, a, x) PROVE Covered(a)' /\ asset'[a].listed
    <2> DEFINE c == Claimed(w, a, x)
    <2>1. c \in Nat /\ c <= ClaimPosition(w, a).claimable /\ c <= asset[a].total_claimable
        BY <1>0, InputFacts, ClaimedFacts
    <2>2. /\ position' = [position EXCEPT ![w][a] = [ClaimPosition(w, a) EXCEPT !.claimable = @ - c]]
          /\ asset' = [asset EXCEPT ![a].total_claimable = SaturatingSub(@, c)]
          /\ locked' = locked
        BY <1>2 DEF Claim, escrowVars
    <2> HIDE DEF c
    <2>3. /\ position'[w][a] = [ClaimPosition(w, a) EXCEPT !.claimable = @ - c]
          /\ \A u \in Users \ {w} : position'[u][a] = position[u][a]
        BY <1>0, <1>1, <2>2
    <2>4. /\ asset'[a].total_claimable = SaturatingSub(asset[a].total_claimable, c)
          /\ asset'[a].acc_share = asset[a].acc_share /\ asset'[a].listed
        BY <1>0, <1>1, <2>2 DEF AssetConfig
    <2> QED BY <1>0, <2>1, <2>2, <2>3, <2>4, CoveredClaim
<1>3. ASSUME ClaimAll(w) PROVE Covered(a)' /\ asset'[a].listed
    <2> DEFINE claimed == [k \in Assets |->
                             IF asset[k].listed THEN Claimed(w, k, ClaimPosition(w, k).claimable) ELSE 0]
    <2>1. ClaimPosition(w, a) \in Position
        <3>1. 0 \in Nat
            OBVIOUS
        <3> QED BY <1>0, <3>1, ClaimedFacts
    <2>2. ClaimPosition(w, a).claimable \in Nat
        BY <2>1 DEF Position
    <2>3. PICK c \in Nat : /\ c = claimed[a]
                           /\ c <= ClaimPosition(w, a).claimable /\ c <= asset[a].total_claimable
        BY <1>0, <2>2, ClaimedFacts
    <2>4. /\ asset' = [k \in Assets |->
                         [asset[k] EXCEPT !.total_claimable = SaturatingSub(@, claimed[k])]]
          /\ position' = [position EXCEPT ![w] =
                            [k \in Assets |->
                               IF asset[k].listed
                               THEN [ClaimPosition(w, k) EXCEPT !.claimable = @ - claimed[k]]
                               ELSE @[k]]]
          /\ locked' = locked
        BY <1>3 DEF ClaimAll, escrowVars
    <2> HIDE DEF claimed
    <2>5. /\ position'[w][a] = [ClaimPosition(w, a) EXCEPT !.claimable = @ - c]
          /\ \A u \in Users \ {w} : position'[u][a] = position[u][a]
        BY <1>0, <1>1, <2>3, <2>4
    <2>6. /\ asset'[a].total_claimable = SaturatingSub(asset[a].total_claimable, c)
          /\ asset'[a].acc_share = asset[a].acc_share /\ asset'[a].listed
        BY <1>0, <1>1, <2>3, <2>4 DEF AssetConfig
    <2>7. locked' = locked
        BY <2>4
    <2> QED BY <1>0, <2>3, <2>5, <2>6, <2>7, CoveredClaim
<1> QED BY <1>2, <1>3

\* A step that claims nothing from a carries every position in it.
LEMMA OthersCarried ==
    ASSUME TypeOK, TypeOK', SupplyConserved, Next, NEW a \in Listed,
           ~(\E w \in Users : ClaimAll(w) \/ \E x \in ClaimAmounts : Claim(w, a, x)),
           NEW u \in Users
    PROVE  Carried(u, a)
<1>1. \/ Carried(u, a)
      \/ \E k \in Assets, x \in ClaimAmounts : Claim(u, k, x)
      \/ ClaimAll(u)
    BY StepCarries
<1>2. ASSUME NEW k \in Assets, NEW x \in ClaimAmounts, Claim(u, k, x) PROVE Carried(u, a)
    <2>1. k # a
        BY <1>2
    <2>2. locked' = locked /\ position'[u][a] = position[u][a]
        BY <1>2, <2>1 DEF Claim, escrowVars, TypeOK, PositionType, Listed
    <2> QED BY <2>2 DEF Carried
<1> QED BY <1>1, <1>2

\* Every step keeps the overhang invariant.
LEMMA OverhangStep == OverhangInv /\ [HistoryNext]_historyVars => OverhangInv'
<1> SUFFICES ASSUME OverhangInv, [HistoryNext]_historyVars PROVE OverhangInv'
    OBVIOUS
<1>1. CASE UNCHANGED historyVars
    <2>1. UNCHANGED vars /\ UNCHANGED <<raises, asset, position, locked>>
        BY <1>1 DEF historyVars, vars, assetVars, escrowVars
    <2>2. LedgerInv'
        BY <2>1, LedgerStep DEF OverhangInv
    <2> QED BY <2>1, <2>2 DEF OverhangInv, Covered, AccruedAt
<1>2. CASE HistoryNext
    <2>1. /\ Next
          /\ raises' = [a \in Assets |-> IF asset'[a].acc_share > asset[a].acc_share
                                         THEN raises[a] + 1 ELSE raises[a]]
        BY <1>2 DEF HistoryNext
    <2>2. LedgerInv'
        BY <2>1, LedgerStep DEF OverhangInv
    <2>3. raises \in [Assets -> Nat]
        BY DEF OverhangInv
    <2>4. raises' \in [Assets -> Nat]
        BY <2>1, <2>3
    <2>5. ASSUME NEW a \in Assets
          PROVE  Covered(a)' /\ (~asset'[a].listed
                                   => asset'[a].acc_share = 0 /\ asset'[a].total_claimable = 0)
        <3>1. /\ TypeOK /\ TypeOK' /\ asset[a].acc_share \in Nat /\ asset'[a].acc_share \in Nat
            BY <2>2, CoveredTypes
        <3>2. SupplyConserved
            BY DEF OverhangInv, LedgerInv
        <3>3. raises'[a] = IF asset'[a].acc_share > asset[a].acc_share
                           THEN raises[a] + 1 ELSE raises[a]
            BY <2>1
        <3>4. CASE ~asset[a].listed
            <4>1. asset[a].acc_share = 0 /\ asset[a].total_claimable = 0
                BY <3>4 DEF OverhangInv
            <4>2. /\ \A u \in Users : position'[u][a] = position[u][a]
                  /\ \/ asset'[a] = asset[a]
                     \/ asset'[a].listed /\ asset'[a].acc_share = 0 /\ asset'[a].total_claimable = 0
                BY <2>1, <3>1, <3>4, UnlistedUntouched
            <4>3. asset'[a].acc_share = 0 /\ asset'[a].total_claimable = 0 /\ raises'[a] = raises[a]
                BY <3>3, <4>1, <4>2
            <4>4. \A u \in Users : Accrued(position'[u][a], locked'[u], asset[a].acc_share)
                                     <= Accrued(position[u][a], locked[u], asset[a].acc_share)
                <5> SUFFICES ASSUME NEW u \in Users
                             PROVE  Accrued(position[u][a], locked'[u], 0) <= Accrued(position[u][a], locked[u], 0)
                    BY <4>1, <4>2
                <5>1. position[u][a] \in Position /\ locked[u] \in Nat /\ locked'[u] \in Nat
                    BY <3>1 DEF TypeOK, PositionType, EscrowType
                <5>2. Accumulated(locked[u], 0) = Accumulated(locked'[u], 0)
                    <6>1. locked[u] * 0 = 0 /\ locked'[u] * 0 = 0
                        BY <5>1
                    <6> QED BY <6>1 DEF Accumulated
                <5>3. Accrued(position[u][a], locked[u], 0) \in Nat
                    BY <5>1, AccruedFacts
                <5> QED BY <5>2, <5>3 DEF Accrued
            <4> QED BY <2>2, <4>1, <4>3, <4>4, CoveredQuiet
        <3>5. CASE asset[a].listed
            <4>0. a \in Listed
                BY <3>5 DEF Listed
            <4>1. CASE \E w \in Users : ClaimAll(w) \/ \E x \in ClaimAmounts : Claim(w, a, x)
                <5>1. asset'[a].acc_share = asset[a].acc_share
                    BY <3>1, <4>1 DEF ClaimAll, Claim, TypeOK, AssetType, AssetConfig
                <5>2. raises'[a] = raises[a]
                    BY <3>1, <3>3, <5>1
                <5> QED BY <2>2, <4>0, <4>1, <5>2, CoveredClaimStep
            <4>2. CASE ~(\E w \in Users : ClaimAll(w) \/ \E x \in ClaimAmounts : Claim(w, a, x))
                <5>1. \A u \in Users : Carried(u, a)
                    BY <2>1, <3>1, <3>2, <4>0, <4>2, OthersCarried
                <5>2. \A u \in Users : Accrued(position'[u][a], locked'[u], asset[a].acc_share)
                                         <= Accrued(position[u][a], locked[u], asset[a].acc_share)
                    BY <3>1, <5>1, CarriedGainsNothing
                <5>3. CASE asset'[a].acc_share = asset[a].acc_share /\ asset'[a].listed
                           /\ asset'[a].total_claimable = asset[a].total_claimable
                    <6>1. raises'[a] = raises[a]
                        BY <3>1, <3>3, <5>3
                    <6> QED BY <2>2, <5>2, <5>3, <6>1, CoveredQuiet
                <5>4. CASE asset'[a].listed /\ \E cut \in Nat :
                             asset' = Credited(a, DistributeDividend(asset[a].acc_share, cut, totalLocked'))
                    BY <2>2, <3>3, <5>2, <5>4, CoveredRaise
                <5>5. CASE DelistAsset(a)
                    <6>1. asset'[a] = Unlisted
                        BY <3>1, <5>5 DEF DelistAsset, TypeOK, AssetType
                    <6>2. asset'[a].acc_share = 0 /\ asset'[a].total_claimable = 0
                        BY <6>1 DEF Unlisted
                    <6>3. raises'[a] = raises[a]
                        BY <3>1, <3>3, <6>2
                    <6> QED BY <2>2, <5>5, <6>2, <6>3, CoveredDelist
                <5> QED BY <2>1, <3>1, <4>0, <4>2, <5>3, <5>4, <5>5, ListedStep
            <4> QED BY <4>1, <4>2
        <3> QED BY <3>4, <3>5
    <2> QED BY <2>2, <2>4, <2>5 DEF OverhangInv
<1> QED BY <1>1, <1>2

\* What all positions together could claim exceeds the reserve by at most one unit per
\* locker and raise of the index, in every instance: the rounding of settle and of
\* distribute_dividend never adds up to more, also across delist and relist.
THEOREM OverhangAlwaysBounded == HistorySpec => []OverhangBounded
<1>1. HistoryInit => OverhangInv
    <2> SUFFICES ASSUME HistoryInit PROVE OverhangInv
        OBVIOUS
    <2>1. Init /\ raises = [a \in Assets |-> 0]
        BY DEF HistoryInit
    <2>2. LedgerInv
        BY <2>1, LedgerInit
    <2>3. ASSUME NEW a \in Assets
          PROVE  asset[a].acc_share = 0 /\ asset[a].total_claimable = 0 /\ Covered(a)
        <3>1. /\ asset[a].acc_share = 0 /\ asset[a].total_claimable = 0
              /\ \A u \in Users : locked[u] = 0 /\ position[u][a] = NoPosition
            BY <2>1 DEF Init, Unlisted
        <3>2. Accrued(NoPosition, 0, 0) = 0
            <4>1. Accumulated(0, 0) \in Nat
                BY AccumulatedType
            <4>2. Accumulated(0, 0) = 0
                BY ScaleAssumption DEF Accumulated
            <4> QED BY <4>2 DEF Accrued, NoPosition, SaturatingSub
        <3>3. AccruedAt(a, asset[a].acc_share) = [u \in Users |-> 0]
            BY <3>1, <3>2 DEF AccruedAt
        <3>4. Total(AccruedAt(a, asset[a].acc_share)) = 0
            BY <3>3, TotalZero
        <3>5. IsFiniteSet(Users)
            BY ParameterAssumption
        <3>6. Cardinality(Users) \in Nat
            BY <3>5, FS_CardinalityType
        <3>7. raises[a] = 0 /\ Cardinality(Users) * 0 = 0
            BY <2>1, <3>6
        <3>8. Total(AccruedAt(a, asset[a].acc_share))
                <= asset[a].total_claimable + Cardinality(Users) * raises[a]
            BY <3>1, <3>4, <3>7
        <3> QED BY <3>1, <3>8 DEF Covered
    <2>4. raises \in [Assets -> Nat]
        BY <2>1
    <2> QED BY <2>2, <2>3, <2>4 DEF OverhangInv
<1>2. OverhangInv => OverhangBounded
    <2> SUFFICES ASSUME OverhangInv, NEW a \in Listed
                 PROVE  Total([u \in Users |-> Pending(u, a)])
                          <= asset[a].total_claimable + Cardinality(Users) * raises[a]
        BY DEF OverhangBounded
    <2>1. a \in Assets /\ TypeOK /\ Covered(a) /\ raises[a] \in Nat
        BY DEF Listed, OverhangInv, LedgerInv
    <2>2. PICK acc, tc \in Nat : acc = asset[a].acc_share /\ tc = asset[a].total_claimable
        BY <2>1, FieldFacts DEF TypeOK
    <2>3. IsFiniteSet(Users)
        BY ParameterAssumption
    <2>4. PICK f, g : f = [u \in Users |-> Pending(u, a)] /\ g = AccruedAt(a, acc)
        OBVIOUS
    <2>5. \A u \in Users : /\ f[u] \in Nat /\ g[u] \in Nat /\ f[u] <= g[u]
        <3> SUFFICES ASSUME NEW u \in Users PROVE f[u] \in Nat /\ g[u] \in Nat /\ f[u] <= g[u]
            OBVIOUS
        <3>1. position[u][a] \in Position /\ locked[u] \in Nat /\ acc <= acc
            BY <2>1 DEF TypeOK, PositionType, EscrowType
        <3>2. /\ Due(position[u][a], locked[u], acc) \in Nat
              /\ Accrued(position[u][a], locked[u], acc) \in Nat
              /\ Due(position[u][a], locked[u], acc) <= Accrued(position[u][a], locked[u], acc)
            BY <3>1, DueType, AccruedFacts
        <3>3. f[u] = Due(position[u][a], locked[u], acc) /\ g[u] = Accrued(position[u][a], locked[u], acc)
            BY <2>2, <2>4, PendingIsDue DEF AccruedAt
        <3> QED BY <3>2, <3>3
    <2>6. f \in [Users -> Nat] /\ g \in [Users -> Nat]
        BY <2>4, <2>5 DEF AccruedAt
    <2>7. Total(f) <= Total(g) /\ Total(f) \in Nat /\ Total(g) \in Nat
        BY <2>3, <2>5, <2>6, TotalMono, TotalFinite
    <2>8. PICK k \in Nat : k = Cardinality(Users) * raises[a]
        BY <2>1, <2>3, FS_CardinalityType
    <2>9. Total(g) <= tc + k
        BY <2>1, <2>2, <2>4, <2>8 DEF Covered
    <2>10. Total(f) <= tc + k
        BY <2>7, <2>9
    <2> QED BY <2>2, <2>4, <2>8, <2>10
<1> QED BY <1>1, <1>2, OverhangStep, PTL DEF HistorySpec

===============================================================================
