--------------------------- MODULE GrsVestingProofs ---------------------------
(***************************************************************************)
(* GrsVesting for every clock, every schedule and any number of vests and  *)
(* grants: vest_escrow covers all vests, no vest is ahead of its schedule  *)
(* and terms never change.  The invariant that carries the proofs also     *)
(* counts the ids in use, the grants in flight and those cleared: that is  *)
(* why the next id is free whoever takes it, a holder or a grant.          *)
(***************************************************************************)
EXTENDS GrsVesting, TotalsProofs

VestRecords == [allocation : Nat, released : Nat, start : Nat, cliff_end : Nat, end : Nat]
Asked == [start : Nat, cliff : Nat, duration : Nat]

\* Every grant still in flight has a place below the bound, and every grant cleared has
\* taken an id of its own.
Counted ==
    /\ IsFiniteSet(Ids) /\ IsFiniteSet(posted)
    /\ VestingCount + Cardinality(Inflight) <= MaxVests
    /\ Cardinality(cleared) <= VestingCount

AddressesOK == escrowAccount \in {"none", "lamports", "open"} /\ funded \subseteq 1..MaxVests

\* The line of a vest runs from its cliff to its end.
Ordered == \A i \in Ids : vesting[i].cliff_end <= vesting[i].end

VestingInv ==
    /\ TypeOK /\ Counted /\ Ordered /\ NeverAheadOfSchedule
    /\ Total([i \in Ids |-> Owed(i)]) <= escrow

-------------------------------------------------------------------------------
(* Operators. *)

\* The constants, one fact each.
LEMMA Constants ==
    /\ MaxVests \in Nat /\ MaxTime \in Nat /\ Epoch \in 1..MaxTime /\ Genesis \in Nat
    /\ MAX_SUPPLY \in Nat
    /\ Allocations \subseteq Nat
    /\ Schedules \subseteq Asked /\ GrantSchedules \subseteq Asked
BY VestingAssumption DEF Asked

\* What has vested is a natural number up to the allocation, and on the line between the
\* cliff and the end it is at most the exact fraction.
LEMMA VestedFacts ==
    ASSUME NEW v \in VestRecords, NEW t \in Nat, v.cliff_end <= v.end
    PROVE  /\ VestedAt(v, t) \in 0..v.allocation
           /\ t < v.cliff_end => VestedAt(v, t) = 0
           /\ v.cliff_end <= t /\ t < v.end =>
                VestedAt(v, t) * (v.end - v.cliff_end) <= v.allocation * (t - v.cliff_end)
<1>1. PICK a \in Nat, c \in Nat, e \in Nat : a = v.allocation /\ c = v.cliff_end /\ e = v.end
    BY DEF VestRecords
<1>2. CASE t < c
    BY <1>1, <1>2 DEF VestedAt
<1>3. CASE c <= t /\ t >= e
    BY <1>1, <1>3 DEF VestedAt
<1>4. CASE c <= t /\ t < e
  <2>1. PICK d \in Nat \ {0}, s \in Nat : d = e - c /\ s = t - c /\ s <= d
      BY <1>4
  <2>2. a * s \in Nat /\ a * s <= d * a
      BY <2>1, MulMono
  <2>3. PICK q \in Nat : q = (a * s) \div d
      BY <2>2, DivFacts
  <2>4. q <= a /\ d * q <= a * s
      BY <2>1, <2>2, <2>3, DivFacts, DivUpper
  <2>5. VestedAt(v, t) = q
      BY <1>1, <1>4, <2>1, <2>3 DEF VestedAt
  <2> QED BY <1>1, <1>4, <2>1, <2>4, <2>5
<1> QED BY <1>1, <1>2, <1>3, <1>4

\* A new record is well formed, its line runs forwards, and nothing of it is released.
LEMMA NewVestingFacts ==
    ASSUME NEW amount \in Nat, NEW s \in Asked, now \in Nat
    PROVE  LET v == NewVesting(amount, s) IN
           /\ v \in VestRecords
           /\ v.allocation = amount /\ v.released = 0 /\ v.cliff_end <= v.end
BY DEF NewVesting, StartOf, VestRecords, Asked

\* The next id is not in use; recording a vest there keeps the ids an initial segment and
\* every other record as it is.
LEMMA RecordedFacts ==
    ASSUME TypeOK, Counted, NEW v \in VestRecords, vesting' = Recorded(NextId, v)
    PROVE  /\ VestingCount \in Nat /\ NextId = VestingCount + 1 /\ NextId \notin Ids
           /\ Ids' = Ids \cup {NextId} /\ IsFiniteSet(Ids')
           /\ VestingCount' = VestingCount + 1 /\ Ids' = 1..VestingCount'
           /\ vesting' \in [Ids' -> VestRecords]
           /\ vesting'[NextId] = v /\ \A i \in Ids : vesting'[i] = vesting[i]
<1>1. VestingCount \in Nat /\ Ids = 1..VestingCount /\ vesting \in [Ids -> VestRecords]
    BY FS_CardinalityType DEF TypeOK, Counted, VestingCount, VestRecords
<1>2. NextId = VestingCount + 1 /\ NextId \notin Ids
    BY <1>1 DEF NextId
<1>3. Ids' = Ids \cup {NextId}
    BY DEF Recorded, Ids
<1>4. IsFiniteSet(Ids') /\ Cardinality(Ids') = VestingCount + 1
    BY <1>2, <1>3, FS_AddElement DEF Counted, VestingCount
<1>5. VestingCount' = VestingCount + 1
    BY <1>4 DEF VestingCount
<1>6. Ids' = 1..(VestingCount + 1)
    BY <1>1, <1>2, <1>3
<1>7. /\ vesting'[NextId] = v /\ \A i \in Ids : vesting'[i] = vesting[i]
      /\ vesting' \in [Ids \cup {NextId} -> VestRecords]
    BY <1>1, <1>2 DEF Recorded
<1> QED BY <1>1, <1>2, <1>3, <1>4, <1>5, <1>6, <1>7

-------------------------------------------------------------------------------
(* The invariant. *)

\* What a state of the invariant gives: the shape of the records and of what they owe.
LEMMA Records ==
    ASSUME VestingInv
    PROVE  /\ now \in Nat /\ wallet \in Nat /\ escrow \in Nat
           /\ VestingCount \in Nat /\ IsFiniteSet(Ids)
           /\ \A i \in Ids : /\ vesting[i] \in VestRecords
                             /\ vesting[i].cliff_end <= vesting[i].end
                             /\ vesting[i].released <= vesting[i].allocation
           /\ [i \in Ids |-> Owed(i)] \in [Ids -> Nat]
           /\ Total([i \in Ids |-> Owed(i)]) \in Nat
<1>1. now \in Nat /\ wallet \in Nat /\ escrow \in Nat
    BY Constants DEF VestingInv, TypeOK
<1>2. VestingCount \in Nat /\ IsFiniteSet(Ids)
    BY FS_CardinalityType DEF VestingInv, Counted, VestingCount
<1>3. \A i \in Ids : /\ vesting[i] \in VestRecords
                     /\ vesting[i].cliff_end <= vesting[i].end
                     /\ vesting[i].released <= vesting[i].allocation
    BY DEF VestingInv, TypeOK, VestRecords, Ordered, NeverAheadOfSchedule
<1>4. [i \in Ids |-> Owed(i)] \in [Ids -> Nat]
    BY <1>3 DEF Owed, VestRecords
<1>5. Total([i \in Ids |-> Owed(i)]) \in Nat
    BY <1>2, <1>4, TotalFinite
<1> QED BY <1>1, <1>2, <1>3, <1>4, <1>5

LEMMA VestingInvInit == Init => VestingInv
<1> SUFFICES ASSUME Init PROVE VestingInv
    OBVIOUS
<1>1. Ids = {} /\ posted = {} /\ cleared = {} /\ Inflight = {} /\ escrow = 0
    BY DEF Init, Ids, Inflight
<1>2. VestingCount = 0 /\ Cardinality(posted) = 0 /\ Cardinality(Inflight) = 0
      /\ Cardinality(cleared) = 0 /\ IsFiniteSet(Ids) /\ IsFiniteSet(posted)
    BY <1>1, FS_EmptySet DEF VestingCount
<1>3. TypeOK
  <2>1. Ids = 1..VestingCount
      BY <1>1, <1>2
  <2>2. vesting \in [Ids -> VestRecords]
      BY <1>1 DEF Init, Ids
  <2>3. prepared \in [1..MaxVests -> 0..MaxVests + 1]
      BY Constants DEF Init
  <2>4. now \in Epoch..MaxTime /\ wallet \in Nat /\ escrow \in Nat
      BY Constants DEF Init
  <2>5. shut \in BOOLEAN
      BY Zenon DEF Init
  <2>6. AddressesOK
      BY DEF Init, AddressesOK
  <2> QED BY <1>1, <2>1, <2>2, <2>3, <2>4, <2>5, <2>6 DEF TypeOK, VestRecords, AddressesOK
<1>4. Counted
    BY <1>2, Constants DEF Counted
<1>5. Total([i \in Ids |-> Owed(i)]) = 0
    BY <1>1, TotalEmpty
<1> QED BY <1>1, <1>3, <1>4, <1>5 DEF VestingInv, Ordered, NeverAheadOfSchedule

\* A vest recorded at the next id together with its tokens.
LEMMA RecordStep ==
    ASSUME VestingInv, NEW amount \in Nat, NEW s \in Asked,
           vesting' = Recorded(NextId, NewVesting(amount, s)),
           now' = now, escrow' = escrow + amount
    PROVE  /\ Ordered' /\ NeverAheadOfSchedule'
           /\ (Total([i \in Ids |-> Owed(i)]) <= escrow)'
<1> DEFINE v == NewVesting(amount, s)
<1>1. /\ v \in VestRecords
      /\ v.allocation = amount /\ v.released = 0 /\ v.cliff_end <= v.end
    BY NewVestingFacts, Records
<1> HIDE DEF v
<1>2. PICK id : id = NextId
    OBVIOUS
<1>3. /\ id \notin Ids /\ Ids' = Ids \cup {id}
      /\ vesting'[id] = v /\ \A i \in Ids : vesting'[i] = vesting[i]
    BY <1>1, <1>2, RecordedFacts DEF VestingInv, v
<1>4. Ordered'
    BY <1>1, <1>3 DEF VestingInv, Ordered
<1>5. NeverAheadOfSchedule'
  <2>1. SUFFICES ASSUME NEW i \in Ids'
                 PROVE  LET w == vesting'[i] IN
                        /\ now' < w.cliff_end => w.released = 0
                        /\ w.released <= w.allocation
                        /\ now' < w.end => w.released * (w.end - w.cliff_end)
                                             <= w.allocation * (now' - w.cliff_end)
                                           \/ w.released = 0
      BY DEF NeverAheadOfSchedule
  <2>2. CASE i = id
      BY <1>1, <1>3, <2>2 DEF VestRecords
  <2>3. CASE i \in Ids
      BY <1>3, <2>3 DEF VestingInv, NeverAheadOfSchedule
  <2> QED BY <1>3, <2>2, <2>3
<1>6. (Total([i \in Ids |-> Owed(i)]) <= escrow)'
  <2> DEFINE f == [i \in Ids |-> Owed(i)]
             g == [i \in Ids' |-> Owed(i)']
  <2>1. f \in [Ids -> Nat] /\ IsFiniteSet(Ids) /\ Total(f) \in Nat /\ escrow \in Nat /\ Total(f) <= escrow
      BY Records DEF VestingInv
  <2>2. \A i \in Ids : g[i] = f[i]
      BY <1>3 DEF Owed
  <2>3. g[id] = amount
      BY <1>1, <1>3 DEF Owed
  <2>4. g \in [Ids \cup {id} -> Nat]
      BY <1>3, <2>1, <2>2, <2>3
  <2> HIDE DEF f, g
  <2>5. Total(g) = Total(f) + g[id]
      BY <1>3, <2>1, <2>2, <2>4, TotalJoin
  <2>6. Total(g) <= escrow'
      BY <2>1, <2>3, <2>5
  <2> QED BY <2>6 DEF g
<1> QED BY <1>4, <1>5, <1>6

\* Nothing that records or pays a vest.
LEMMA SameVests ==
    ASSUME VestingInv, vesting' = vesting, now' = now, escrow' \in Nat, escrow' >= escrow
    PROVE  /\ Ordered' /\ NeverAheadOfSchedule'
           /\ (Total([i \in Ids |-> Owed(i)]) <= escrow)'
<1>1. Ids' = Ids /\ \A i \in Ids : Owed(i)' = Owed(i)
    BY DEF Ids, Owed
<1>2. Ordered' /\ NeverAheadOfSchedule'
    BY <1>1 DEF VestingInv, Ordered, NeverAheadOfSchedule
<1>3. [i \in Ids |-> Owed(i)]' = [i \in Ids |-> Owed(i)]
    BY <1>1
<1>4. Total([i \in Ids |-> Owed(i)])' = Total([i \in Ids |-> Owed(i)])
    BY <1>3
<1>5. Total([i \in Ids |-> Owed(i)])' <= escrow'
    BY <1>4, Records DEF VestingInv
<1> QED BY <1>2, <1>5

\* Everything of TypeOK and Counted that a new vest touches.
LEMMA RecordedTypes ==
    ASSUME VestingInv, AddressesOK', NEW v \in VestRecords, vesting' = Recorded(NextId, v),
           IsFiniteSet(posted'), VestingCount + 1 + Cardinality(Inflight') <= MaxVests,
           Cardinality(cleared') <= VestingCount + 1,
           now' = now, wallet' \in Nat, escrow' \in Nat, shut' = shut,
           posted' = posted, cleared' \subseteq posted, prepared' = prepared
    PROVE  TypeOK' /\ Counted'
<1>1. /\ VestingCount' = VestingCount + 1 /\ IsFiniteSet(Ids') /\ Ids' = 1..VestingCount'
      /\ vesting' \in [Ids' -> VestRecords]
    BY RecordedFacts DEF VestingInv
<1>2. Counted'
    BY <1>1 DEF Counted
<1>3. TypeOK'
    BY <1>1 DEF VestingInv, TypeOK, VestRecords, AddressesOK
<1> QED BY <1>2, <1>3

\* Sizes of what is posted, cleared and in flight.
LEMMA WireFacts ==
    ASSUME VestingInv
    PROVE  /\ IsFiniteSet(cleared) /\ IsFiniteSet(Inflight)
           /\ Cardinality(cleared) \in Nat /\ Cardinality(Inflight) \in Nat
           /\ Cardinality(posted) \in Nat
           /\ Cardinality(posted) = Cardinality(cleared) + Cardinality(Inflight)
<1>1. IsFiniteSet(posted) /\ cleared \subseteq posted
    BY DEF VestingInv, TypeOK, Counted
<1>2. IsFiniteSet(cleared) /\ IsFiniteSet(Inflight)
    BY <1>1, FS_Subset DEF Inflight
<1>3. Inflight \cap cleared = {} /\ Inflight \cup cleared = posted
    BY <1>1 DEF Inflight
<1>4. Cardinality(cleared) \in Nat /\ Cardinality(Inflight) \in Nat /\ Cardinality(posted) \in Nat
    BY <1>1, <1>2, FS_CardinalityType
<1>5. Cardinality(Inflight \cup cleared)
        = Cardinality(Inflight) + Cardinality(cleared) - Cardinality(Inflight \cap cleared)
    BY <1>2, FS_Union
<1> QED BY <1>2, <1>3, <1>4, <1>5, FS_EmptySet

\* One more element.
LEMMA AddOne ==
    ASSUME NEW S, IsFiniteSet(S), NEW x
    PROVE  IsFiniteSet(S \cup {x}) /\ Cardinality(S \cup {x}) <= Cardinality(S) + 1
<1>1. PICK k \in Nat : k = Cardinality(S)
    BY FS_CardinalityType
<1>2. IsFiniteSet(S \cup {x}) /\ (Cardinality(S \cup {x}) = k \/ Cardinality(S \cup {x}) = k + 1)
    BY <1>1, FS_AddElement
<1> QED BY <1>1, <1>2

LEMMA VestStep ==
    ASSUME VestingInv, AddressesOK', NEW a \in Allocations, NEW s \in Schedules, Vest(a, s)
    PROVE  VestingInv'
<1>1. a \in Nat /\ s \in Asked /\ now \in Nat /\ wallet \in Nat /\ escrow \in Nat
    BY Constants, Records
<1>2. /\ vesting' = Recorded(NextId, NewVesting(a, s)) /\ now' = now /\ escrow' = escrow + a
      /\ wallet' = wallet - a /\ a <= wallet /\ shut' = shut
      /\ posted' = posted /\ cleared' = cleared /\ prepared' = prepared
      /\ VestingCount + Cardinality(Inflight) < MaxVests
    BY DEF Vest, chainVars, wireVars, Inflight
<1>3. NewVesting(a, s) \in VestRecords
    BY <1>1, NewVestingFacts
<1>4. wallet' \in Nat /\ escrow' \in Nat
    BY <1>1, <1>2
<1>5. /\ IsFiniteSet(posted') /\ Inflight' = Inflight /\ cleared' \subseteq posted
      /\ VestingCount + 1 + Cardinality(Inflight) <= MaxVests
      /\ Cardinality(cleared) <= VestingCount + 1
  <2>1. VestingCount \in Nat /\ Cardinality(Inflight) \in Nat /\ Cardinality(cleared) \in Nat
      BY Records, WireFacts
  <2>2. MaxVests \in Nat /\ Cardinality(cleared) <= VestingCount
      BY Constants DEF VestingInv, Counted
  <2>3. IsFiniteSet(posted') /\ Inflight' = Inflight /\ cleared' \subseteq posted
      BY <1>2 DEF VestingInv, Counted, TypeOK, Inflight
  <2> QED BY <1>2, <2>1, <2>2, <2>3
<1>6. TypeOK' /\ Counted'
    BY <1>2, <1>3, <1>4, <1>5, RecordedTypes
<1> QED BY <1>1, <1>2, <1>6, RecordStep DEF VestingInv

\* lz_receive of a grant: the row prepared is the next id, or the delivery fails.
LEMMA LzReceiveStep ==
    ASSUME VestingInv, AddressesOK', NEW m \in Inflight, LzReceive(m)
    PROVE  VestingInv'
<1>1. m \in [nonce : 1..MaxVests, amount : Nat, schedule : Asked]
    BY DEF VestingInv, TypeOK, Inflight, Asked
<1>2. /\ vesting' = Recorded(NextId, NewVesting(m.amount, m.schedule)) /\ now' = now
      /\ escrow' = escrow + m.amount /\ wallet' = wallet /\ shut' = shut
      /\ posted' = posted /\ cleared' = cleared \cup {m} /\ prepared' = prepared
    BY DEF LzReceive, RowUsable, CreditVestEscrow, chainVars
<1>3. m.amount \in Nat /\ m.schedule \in Asked /\ now \in Nat /\ wallet \in Nat /\ escrow \in Nat
    BY <1>1, Records
<1>4. NewVesting(m.amount, m.schedule) \in VestRecords
    BY <1>3, NewVestingFacts
<1>5. wallet' \in Nat /\ escrow' \in Nat
    BY <1>2, <1>3
<1>6. m \notin cleared /\ Inflight' = Inflight \ {m} /\ cleared' \subseteq posted /\ IsFiniteSet(posted')
    BY <1>2 DEF Inflight, VestingInv, TypeOK, Counted
<1>7. /\ Cardinality(cleared') = Cardinality(cleared) + 1
      /\ Cardinality(Inflight') = Cardinality(Inflight) - 1
    BY <1>2, <1>6, WireFacts, FS_AddElement, FS_RemoveElement
<1>8. /\ VestingCount + 1 + Cardinality(Inflight') <= MaxVests
      /\ Cardinality(cleared') <= VestingCount + 1
  <2>1. VestingCount \in Nat /\ Cardinality(Inflight) \in Nat /\ Cardinality(cleared) \in Nat
      BY Records, WireFacts
  <2>2. /\ MaxVests \in Nat /\ Cardinality(cleared) <= VestingCount
        /\ VestingCount + Cardinality(Inflight) <= MaxVests
      BY Constants DEF VestingInv, Counted
  <2> QED BY <1>7, <2>1, <2>2
<1>9. TypeOK' /\ Counted'
    BY <1>2, <1>4, <1>5, <1>6, <1>8, RecordedTypes
<1> QED BY <1>2, <1>3, <1>9, RecordStep DEF VestingInv

\* A grant sent: its nonce is within the bound because every grant cleared has taken an id.
LEMMA HomeGrantStep ==
    ASSUME VestingInv, AddressesOK', NEW a \in Allocations, NEW s \in GrantSchedules, HomeGrant(a, s)
    PROVE  VestingInv'
<1> DEFINE n == Cardinality(posted) + 1
           m == [nonce |-> n, amount |-> a, schedule |-> s]
<1>1. /\ posted' = posted \cup {m} /\ VestingCount + Cardinality(Inflight) < MaxVests
      /\ vesting' = vesting /\ now' = now /\ shut' = shut /\ wallet' = wallet
      /\ escrow' = escrow /\ cleared' = cleared /\ prepared' = prepared
    BY DEF HomeGrant, chainVars
<1>2. VestingCount \in Nat /\ Cardinality(Inflight) \in Nat /\ Cardinality(cleared) \in Nat
      /\ Cardinality(posted) = Cardinality(cleared) + Cardinality(Inflight)
    BY Records, WireFacts
<1>3. MaxVests \in Nat /\ Cardinality(cleared) <= VestingCount
    BY Constants DEF VestingInv, Counted
<1>4. n \in 1..MaxVests
    BY <1>1, <1>2, <1>3
<1>5. m \in [nonce : 1..MaxVests, amount : Nat, schedule : Asked]
  <2>1. a \in Nat /\ s \in Asked
      BY Constants
  <2> QED BY <1>4, <2>1
<1> HIDE DEF n, m
<1>6. Ids' = Ids /\ VestingCount' = VestingCount
    BY <1>1 DEF Ids, VestingCount
<1>7. TypeOK'
    BY <1>1, <1>5, <1>6 DEF VestingInv, TypeOK, Asked, AddressesOK
<1>8. IsFiniteSet(posted')
    BY <1>1, FS_AddElement DEF VestingInv, Counted
<1>9. Cardinality(Inflight') \in Nat /\ Cardinality(Inflight') <= Cardinality(Inflight) + 1
  <2>1. Inflight' \subseteq Inflight \cup {m}
      BY <1>1 DEF Inflight
  <2>2. IsFiniteSet(Inflight \cup {m}) /\ Cardinality(Inflight \cup {m}) <= Cardinality(Inflight) + 1
    <3>1. IsFiniteSet(Inflight) /\ Cardinality(Inflight) \in Nat
        BY WireFacts
    <3> QED BY <3>1, AddOne
  <2>3. Cardinality(Inflight \cup {m}) \in Nat
      BY <2>2, FS_CardinalityType
  <2>4. IsFiniteSet(Inflight') /\ Cardinality(Inflight') <= Cardinality(Inflight \cup {m})
      BY <2>1, <2>2, FS_Subset
  <2> QED BY <1>2, <2>2, <2>3, <2>4, FS_CardinalityType
<1>10. Counted'
    BY <1>1, <1>2, <1>3, <1>6, <1>8, <1>9 DEF VestingInv, Counted
<1>11. escrow' \in Nat /\ escrow' >= escrow
    BY <1>1, Records
<1> QED BY <1>1, <1>7, <1>10, <1>11, SameVests DEF VestingInv

\* Steps that leave the vests and the counts alone.
LEMMA QuietStep ==
    ASSUME VestingInv, AddressesOK', vesting' = vesting, now' = now, posted' = posted, cleared' = cleared,
           shut' \in BOOLEAN, prepared' \in [1..MaxVests -> 0..MaxVests + 1],
           wallet' \in Nat, escrow' \in Nat, escrow' >= escrow
    PROVE  VestingInv'
<1>1. Ids' = Ids /\ VestingCount' = VestingCount /\ Inflight' = Inflight
    BY DEF Ids, VestingCount, Inflight
<1>2. Counted'
    BY <1>1 DEF VestingInv, Counted
<1>3. TypeOK'
    BY <1>1 DEF VestingInv, TypeOK, AddressesOK
<1> QED BY <1>2, <1>3, SameVests DEF VestingInv

LEMMA LzReceiveTypesStep ==
    ASSUME VestingInv, AddressesOK', NEW m \in Inflight, LzReceiveTypes(m)
    PROVE  VestingInv'
<1>1. /\ prepared' = [prepared EXCEPT ![m.nonce] = NextId]
      /\ vesting' = vesting /\ now' = now /\ shut' = shut /\ wallet' = wallet
      /\ escrow' = escrow /\ posted' = posted /\ cleared' = cleared
    BY DEF LzReceiveTypes, GrantRow, chainVars
<1>2. NextId \in 0..MaxVests + 1
  <2>1. VestingCount \in Nat /\ Cardinality(Inflight) \in Nat /\ MaxVests \in Nat
        /\ VestingCount + Cardinality(Inflight) <= MaxVests
      BY Records, WireFacts, Constants DEF VestingInv, Counted
  <2> QED BY <2>1 DEF NextId
<1>3. prepared' \in [1..MaxVests -> 0..MaxVests + 1]
  <2>1. prepared \in [1..MaxVests -> 0..MaxVests + 1]
      BY DEF VestingInv, TypeOK
  <2> QED BY <1>1, <1>2, <2>1
<1>4. shut \in BOOLEAN
    BY DEF VestingInv, TypeOK
<1>5. wallet' \in Nat /\ escrow' \in Nat /\ escrow' >= escrow
    BY <1>1, Records
<1>6. shut' \in BOOLEAN
    BY <1>1, <1>4
<1> QED BY <1>1, <1>3, <1>5, <1>6, QuietStep

LEMMA DonateStep ==
    ASSUME VestingInv, AddressesOK', NEW a \in Allocations, Donate(a)
    PROVE  VestingInv'
<1>1. /\ a <= wallet /\ wallet' = wallet - a /\ escrow' = escrow + a
      /\ vesting' = vesting /\ now' = now /\ shut' = shut
      /\ posted' = posted /\ cleared' = cleared /\ prepared' = prepared
    BY DEF Donate, chainVars, wireVars
<1>2. wallet' \in Nat /\ escrow' \in Nat /\ escrow' >= escrow
    BY <1>1, Records, Constants
<1>3. shut' \in BOOLEAN /\ prepared' \in [1..MaxVests -> 0..MaxVests + 1]
    BY <1>1 DEF VestingInv, TypeOK
<1> QED BY <1>1, <1>2, <1>3, QuietStep

LEMMA SetShutStep ==
    ASSUME VestingInv, AddressesOK', SetShut(~shut)
    PROVE  VestingInv'
<1>1. /\ vesting' = vesting /\ now' = now /\ wallet' = wallet /\ escrow' = escrow
      /\ posted' = posted /\ cleared' = cleared /\ prepared' = prepared
    BY DEF SetShut, wireVars
<1>2. wallet' \in Nat /\ escrow' \in Nat /\ escrow' >= escrow
    BY <1>1, Records
<1>3. shut' \in BOOLEAN
    BY Zenon DEF SetShut
<1>4. prepared' \in [1..MaxVests -> 0..MaxVests + 1]
    BY <1>1 DEF VestingInv, TypeOK
<1> QED BY <1>1, <1>2, <1>3, <1>4, QuietStep

\* The line only rises: a vest that was not ahead of it is not ahead a second later.
LEMMA TickStep ==
    ASSUME VestingInv, AddressesOK', Tick
    PROVE  VestingInv'
<1>1. /\ now' = now + 1 /\ now < MaxTime /\ vesting' = vesting /\ shut' = shut
      /\ wallet' = wallet /\ escrow' = escrow
      /\ posted' = posted /\ cleared' = cleared /\ prepared' = prepared
    BY DEF Tick, wireVars
<1>2. Ids' = Ids /\ VestingCount' = VestingCount /\ Inflight' = Inflight
    BY <1>1 DEF Ids, VestingCount, Inflight
<1>3. now' \in Epoch..MaxTime
    BY <1>1, Constants DEF VestingInv, TypeOK
<1>4. TypeOK'
    BY <1>1, <1>2, <1>3 DEF VestingInv, TypeOK, AddressesOK
<1>5. Counted' /\ Ordered'
    BY <1>1, <1>2 DEF VestingInv, Counted, Ordered
<1>6. NeverAheadOfSchedule'
  <2>1. SUFFICES ASSUME NEW i \in Ids'
                 PROVE  LET w == vesting'[i] IN
                        /\ now' < w.cliff_end => w.released = 0
                        /\ w.released <= w.allocation
                        /\ now' < w.end => w.released * (w.end - w.cliff_end)
                                             <= w.allocation * (now' - w.cliff_end)
                                           \/ w.released = 0
      BY DEF NeverAheadOfSchedule
  <2>2. PICK a \in Nat, r \in Nat, c \in Nat, e \in Nat :
          /\ a = vesting[i].allocation /\ r = vesting[i].released
          /\ c = vesting[i].cliff_end /\ e = vesting[i].end
      BY <1>2, Records DEF VestRecords
  <2>3. /\ now < c => r = 0
        /\ r <= a
        /\ now < e => r * (e - c) <= a * (now - c) \/ r = 0
      BY <1>2, <2>2 DEF VestingInv, NeverAheadOfSchedule
  <2>4. PICK t \in Nat, u \in Nat : t = now /\ u = now' /\ u = t + 1
      BY <1>1, Records
  <2>5. a * (t - c) <= a * (u - c)
      BY <2>4
  <2>6. /\ u < c => r = 0
        /\ u < e => r * (e - c) <= a * (u - c) \/ r = 0
      BY <2>3, <2>4, <2>5
  <2>7. vesting'[i] = vesting[i]
      BY <1>1
  <2> QED BY <2>2, <2>3, <2>4, <2>6, <2>7
<1>7. (Total([i \in Ids |-> Owed(i)]) <= escrow)'
    BY <1>1, <1>2 DEF VestingInv, Owed
<1> QED BY <1>4, <1>5, <1>6, <1>7 DEF VestingInv

\* A release brings one vest to what has vested by now and takes the difference, which the
\* vest was owed, from the shared account.
LEMMA ReleaseStep ==
    ASSUME VestingInv, AddressesOK', NEW i \in Ids, Release(i)
    PROVE  VestingInv'
<1> DEFINE v == vesting[i]
           r == VestedAt(v, now)
           w == [v EXCEPT !.released = r]
           amount == r - v.released
<1>1. /\ v \in VestRecords /\ v.cliff_end <= v.end /\ v.released <= v.allocation
      /\ now \in Nat /\ wallet \in Nat /\ escrow \in Nat
    BY Records
<1>2. /\ r \in 0..v.allocation
      /\ now < v.cliff_end => r = 0
      /\ v.cliff_end <= now /\ now < v.end =>
           r * (v.end - v.cliff_end) <= v.allocation * (now - v.cliff_end)
    BY <1>1, VestedFacts
<1>3. v.released \in Nat /\ v.allocation \in Nat
    BY <1>1 DEF VestRecords
<1>4. /\ r > v.released /\ amount \in Nat /\ amount <= escrow
      /\ vesting' = [vesting EXCEPT ![i].released = @ + amount]
      /\ escrow' = escrow - amount /\ wallet' = wallet + amount
      /\ now' = now /\ shut' = shut
      /\ posted' = posted /\ cleared' = cleared /\ prepared' = prepared
  <2>1. PICK n : n = ReleasableAt(v, now)
      OBVIOUS
  <2>2. /\ n > 0 /\ n <= escrow
        /\ vesting' = [vesting EXCEPT ![i].released = @ + n]
        /\ escrow' = escrow - n /\ wallet' = wallet + n
        /\ now' = now /\ shut' = shut
        /\ posted' = posted /\ cleared' = cleared /\ prepared' = prepared
      BY <2>1 DEF Release, chainVars, wireVars
  <2>3. n = amount /\ r > v.released
      BY <1>2, <1>3, <2>1, <2>2 DEF ReleasableAt
  <2> QED BY <1>2, <1>3, <2>2, <2>3
<1> HIDE DEF r
<1>5. vesting \in [Ids -> VestRecords]
    BY DEF VestingInv, TypeOK, VestRecords
<1>6. vesting' = [vesting EXCEPT ![i] = w]
  <2>1. v.released + amount = r
      BY <1>2, <1>3
  <2>2. vesting' = [vesting EXCEPT ![i].released = r]
      BY <1>4, <2>1
  <2> QED BY <1>5, <2>2
<1>7. /\ w \in VestRecords /\ w.released = r /\ w.allocation = v.allocation
      /\ w.cliff_end = v.cliff_end /\ w.end = v.end
    BY <1>1, <1>2, <1>3 DEF VestRecords
<1> HIDE DEF w
<1>8. /\ Ids' = Ids /\ VestingCount' = VestingCount /\ Inflight' = Inflight
      /\ vesting' \in [Ids -> VestRecords] /\ vesting'[i] = w
      /\ \A j \in Ids \ {i} : vesting'[j] = vesting[j]
    BY <1>4, <1>5, <1>6, <1>7 DEF Ids, VestingCount, Inflight
<1>9. TypeOK'
  <2>1. wallet' \in Nat /\ escrow' \in Nat
      BY <1>1, <1>4
  <2> QED BY <1>4, <1>8, <2>1 DEF VestingInv, TypeOK, VestRecords, AddressesOK
<1>10. Counted'
    BY <1>4, <1>8 DEF VestingInv, Counted
<1>11. Ordered'
    BY <1>1, <1>7, <1>8 DEF VestingInv, Ordered
<1>12. NeverAheadOfSchedule'
  <2>1. SUFFICES ASSUME NEW j \in Ids
                 PROVE  LET u == vesting'[j] IN
                        /\ now < u.cliff_end => u.released = 0
                        /\ u.released <= u.allocation
                        /\ now < u.end => u.released * (u.end - u.cliff_end)
                                           <= u.allocation * (now - u.cliff_end)
                                         \/ u.released = 0
      BY <1>4, <1>8 DEF NeverAheadOfSchedule
  <2>2. CASE j = i
    <3>1. v.cliff_end \in Nat /\ v.end \in Nat
        BY <1>1 DEF VestRecords
    <3>2. v.cliff_end <= now
        BY <1>1, <1>2, <1>3, <1>4, <3>1
    <3> QED BY <1>1, <1>2, <1>7, <1>8, <2>2, <3>1, <3>2
  <2>3. CASE j # i
      BY <1>8, <2>3 DEF VestingInv, NeverAheadOfSchedule
  <2> QED BY <2>2, <2>3
<1>13. (Total([j \in Ids |-> Owed(j)]) <= escrow)'
  <2> DEFINE f == [j \in Ids |-> Owed(j)]
             n == v.allocation - r
  <2>1. f \in [Ids -> Nat] /\ IsFiniteSet(Ids) /\ Total(f) <= escrow /\ Total(f) \in Nat
      BY Records DEF VestingInv
  <2>2. n \in Nat /\ f[i] = n + amount
      BY <1>2, <1>3 DEF Owed
  <2>3. \A j \in Ids : Owed(j)' = [f EXCEPT ![i] = n][j]
      BY <1>7, <1>8 DEF Owed
  <2>4. [j \in Ids |-> Owed(j)]' = [f EXCEPT ![i] = n]
      BY <1>8, <2>3
  <2> HIDE DEF f, n
  <2>5. Total([f EXCEPT ![i] = n]) = Total(f) - f[i] + n /\ f[i] <= Total(f)
      BY <2>1, <2>2, TotalUpdate
  <2>6. Total([f EXCEPT ![i] = n]) = Total(f) - amount
      BY <1>4, <2>1, <2>2, <2>5
  <2>7. Total([f EXCEPT ![i] = n]) <= escrow'
      BY <1>1, <1>4, <2>1, <2>6
  <2> QED BY <2>4, <2>7
<1> QED BY <1>9, <1>10, <1>11, <1>12, <1>13 DEF VestingInv

\* Lamports reach the addresses of vest_escrow and of ids only.
LEMMA AddressesNext ==
    ASSUME VestingInv, [Next]_vars
    PROVE  AddressesOK'
<1>1. AddressesOK
    BY DEF VestingInv, TypeOK, AddressesOK
<1>2. CASE addressVars' = addressVars
    BY <1>1, <1>2 DEF AddressesOK, addressVars
<1>3. CASE \E a \in Allocations, s \in Schedules : Vest(a, s)
    BY <1>1, <1>3 DEF Vest, AddressesOK
<1>4. CASE \E m \in Inflight : LzReceive(m)
  <2>1. PICK m \in Inflight : LzReceive(m)
      BY <1>4
  <2>2. funded' = funded /\ (escrowAccount' = "open" \/ escrowAccount' = escrowAccount)
      BY <2>1 DEF LzReceive, EnsureVestEscrow
  <2> QED BY <1>1, <2>2 DEF AddressesOK
<1>5. CASE \/ \E id \in Exposed : FundRow(id)
           \/ FundEscrow
    BY <1>1, <1>5, VestingAssumption DEF FundRow, FundEscrow, AddressesOK
<1>6. CASE \/ \E a \in Allocations, s \in GrantSchedules : HomeGrant(a, s)
           \/ \E m \in Inflight : LzReceiveTypes(m)
           \/ \E i \in Ids : Release(i)
           \/ \E a \in Allocations : Donate(a)
           \/ SetShut(~shut) \/ Tick
    BY <1>2, <1>6 DEF HomeGrant, LzReceiveTypes, Release, Donate, SetShut, Tick
<1>7. CASE UNCHANGED vars
    BY <1>2, <1>7 DEF vars
<1> QED BY <1>3, <1>4, <1>5, <1>6, <1>7 DEF Next

LEMMA VestingInvNext == VestingInv /\ [Next]_vars => VestingInv'
<1> SUFFICES ASSUME VestingInv, [Next]_vars PROVE VestingInv'
    OBVIOUS
<1>0. AddressesOK'
    BY AddressesNext
<1>1. CASE \E a \in Allocations, s \in Schedules : Vest(a, s)
    BY <1>0, <1>1, VestStep
<1>2. CASE \E a \in Allocations, s \in GrantSchedules : HomeGrant(a, s)
    BY <1>0, <1>2, HomeGrantStep
<1>3. CASE \E m \in Inflight : LzReceiveTypes(m)
    BY <1>0, <1>3, LzReceiveTypesStep
<1>4. CASE \E m \in Inflight : LzReceive(m)
    BY <1>0, <1>4, LzReceiveStep
<1>5. CASE \E i \in Ids : Release(i)
    BY <1>0, <1>5, ReleaseStep
<1>6. CASE \E a \in Allocations : Donate(a)
    BY <1>0, <1>6, DonateStep
<1>7. CASE SetShut(~shut)
    BY <1>0, <1>7, SetShutStep
<1>8. CASE Tick
    BY <1>0, <1>8, TickStep
<1>9. CASE UNCHANGED vars
  <2>1. /\ vesting' = vesting /\ now' = now /\ wallet' = wallet /\ escrow' = escrow
        /\ shut' = shut /\ posted' = posted /\ cleared' = cleared /\ prepared' = prepared
      BY <1>9 DEF vars, chainVars, wireVars
  <2>2. wallet' \in Nat /\ escrow' \in Nat /\ escrow' >= escrow
      BY <2>1, Records
  <2>3. shut' \in BOOLEAN /\ prepared' \in [1..MaxVests -> 0..MaxVests + 1]
      BY <2>1 DEF VestingInv, TypeOK
  <2> QED BY <1>0, <2>1, <2>2, <2>3, QuietStep
<1>10. CASE \/ \E id \in Exposed : FundRow(id)
            \/ FundEscrow
  <2>1. /\ vesting' = vesting /\ now' = now /\ wallet' = wallet /\ escrow' = escrow
        /\ shut' = shut /\ posted' = posted /\ cleared' = cleared /\ prepared' = prepared
      BY <1>10 DEF FundRow, FundEscrow, chainVars, wireVars
  <2>2. wallet' \in Nat /\ escrow' \in Nat /\ escrow' >= escrow
      BY <2>1, Records
  <2>3. shut' \in BOOLEAN /\ prepared' \in [1..MaxVests -> 0..MaxVests + 1]
      BY <2>1 DEF VestingInv, TypeOK
  <2> QED BY <1>0, <2>1, <2>2, <2>3, QuietStep
<1> QED BY <1>1, <1>2, <1>3, <1>4, <1>5, <1>6, <1>7, <1>8, <1>9, <1>10 DEF Next

LEMMA VestingInvHolds == Spec => []VestingInv
<1> QED BY VestingInvInit, VestingInvNext, PTL DEF Spec

-------------------------------------------------------------------------------
(* Theorems. *)

\* vest_escrow always holds what all vests together have still to pay, whatever vests,
\* grants, releases and donations share it.
THEOREM EscrowAlwaysCovers == Spec => []EscrowCoversVests
<1>1. VestingInv => EscrowCoversVests
    BY DEF VestingInv, EscrowCoversVests
<1> QED BY <1>1, VestingInvHolds, PTL

\* However often release is called, no vest is paid more than the exact straight line
\* allows, and nothing before its cliff.
THEOREM ScheduleAlwaysKept == Spec => []NeverAheadOfSchedule
<1>1. VestingInv => NeverAheadOfSchedule
    BY DEF VestingInv
<1> QED BY <1>1, VestingInvHolds, PTL

\* No call removes a vest, overwrites it (not even a grant delivered to an id prepared long
\* ago) or changes anything of it but the released amount, which only grows.
THEOREM TermsAlwaysFixed == Spec => TermsFixed
<1> DEFINE Kept == \A i \in Ids :
                     /\ i \in DOMAIN vesting'
                     /\ vesting'[i] = [vesting[i] EXCEPT !.released = vesting'[i].released]
                     /\ vesting'[i].released >= vesting[i].released
<1>1. VestingInv /\ [Next]_vars => [Kept]_vars
  <2> SUFFICES ASSUME VestingInv, Next PROVE Kept
      OBVIOUS
  <2>1. ASSUME vesting' = vesting PROVE Kept
    <3>1. \A i \in Ids : vesting[i] \in VestRecords
        BY Records
    <3> QED BY <2>1, <3>1 DEF Ids, VestRecords
  <2>2. ASSUME NEW v \in VestRecords, vesting' = Recorded(NextId, v) PROVE Kept
    <3>1. Ids' = Ids \cup {NextId} /\ \A i \in Ids : vesting'[i] = vesting[i]
        BY <2>2, RecordedFacts DEF VestingInv
    <3>2. \A i \in Ids : vesting[i] \in VestRecords
        BY Records
    <3> QED BY <3>1, <3>2 DEF Ids, VestRecords
  <2>3. ASSUME NEW a \in Allocations, NEW s \in Schedules, Vest(a, s) PROVE Kept
    <3>1. NewVesting(a, s) \in VestRecords
        BY Constants, Records, NewVestingFacts
    <3> QED BY <2>2, <2>3, <3>1 DEF Vest
  <2>4. ASSUME NEW m \in Inflight, LzReceive(m) PROVE Kept
    <3>1. m.amount \in Nat /\ m.schedule \in Asked
        BY DEF VestingInv, TypeOK, Inflight, Asked
    <3>2. NewVesting(m.amount, m.schedule) \in VestRecords
        BY <3>1, Records, NewVestingFacts
    <3> QED BY <2>2, <2>4, <3>2 DEF LzReceive, RowUsable
  <2>5. ASSUME NEW i \in Ids, Release(i) PROVE Kept
    <3>1. PICK n \in Nat : vesting' = [vesting EXCEPT ![i].released = @ + n]
      <4>1. vesting[i] \in VestRecords /\ VestedAt(vesting[i], now) \in Int
          BY Records, VestedFacts
      <4>2. vesting[i].released \in Int
          BY <4>1 DEF VestRecords
      <4>3. ReleasableAt(vesting[i], now) \in Nat
          BY <4>1, <4>2 DEF ReleasableAt
      <4> QED BY <2>5, <4>3 DEF Release
    <3>2. vesting \in [Ids -> VestRecords]
        BY DEF VestingInv, TypeOK, VestRecords
    <3> QED BY <3>1, <3>2 DEF Ids, VestRecords
  <2> HIDE DEF Kept
  <2>6. CASE \/ \E a \in Allocations, s \in Schedules : Vest(a, s)
             \/ \E m \in Inflight : LzReceive(m)
             \/ \E i \in Ids : Release(i)
      BY <2>3, <2>4, <2>5, <2>6
  <2>7. CASE \/ \E a \in Allocations, s \in GrantSchedules : HomeGrant(a, s)
             \/ \E m \in Inflight : LzReceiveTypes(m)
             \/ \E a \in Allocations : Donate(a)
             \/ SetShut(~shut) \/ Tick \/ (\E id \in Exposed : FundRow(id)) \/ FundEscrow
      BY <2>1, <2>7 DEF HomeGrant, LzReceiveTypes, Donate, SetShut, Tick, FundRow, FundEscrow
  <2> QED BY <2>6, <2>7 DEF Next
<1> QED BY <1>1, VestingInvHolds, PTL DEF Spec, TermsFixed

===============================================================================
