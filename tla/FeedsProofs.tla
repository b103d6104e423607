----------------------------- MODULE FeedsProofs -----------------------------
(***************************************************************************)
(* For every set of mints, feed accounts, pairs, prices and delays: a price *)
(* that GRAI uses is about what its owner approved, and GRAI and the feed  *)
(* program change hands only with the consent of both sides.               *)
(***************************************************************************)
EXTENDS MCFeeds, TLAPS

\* A legacy Pyth or Chainlink account only ever shows its own pair.
RoundsKeepPair ==
    \A f \in RoundFeeds : report[f].exists => report[f].pair = RoundPair[f]

\* What a listing says about its feed agrees with what was approved.  The pair of a receiver
\* account whose account did not exist when it was bound is NoPair: no price comes of it.
ListedAsApproved(m) ==
    listing[m].listed =>
      /\ listing[m].feed \in Mints => approved[m] = m
      /\ listing[m].feed \in RoundFeeds => approved[m] = RoundPair[listing[m].feed]
      /\ listing[m].feed \in PushFeeds /\ listing[m].pair # NoPair => approved[m] = listing[m].pair

\* The inductive invariant.
ApprovalInv ==
    /\ TypeOK
    /\ RoundsKeepPair
    /\ \A m \in Listable : ListedAsApproved(m)
-------------------------------------------------------------------------------
(* The steps, by the state they touch. *)

RoleStep ==
    \/ \E k \in Keys : InitializeConfig(k)
    \/ \E p \in Programs, k \in Keys \cup {NoKey} : TransferOwnership(p, k)
    \/ \E p \in Programs : AcceptOwnership(p)

CustomStep ==
    \/ \E m \in Mints, price \in Prices, k \in Keys : Initialize(m, price, k)
    \/ \E m \in Mints, k \in Keys : SetOracle(m, k)
    \/ \E m \in Mints, price \in Prices : SetPrice(m, price)

PublishStep ==
    \E f \in PushFeeds \cup RoundFeeds : \E content \in Contents(f) : Publish(f, content)

ListingStep(m) ==
    \/ \E f \in AllFeeds, paused \in BOOLEAN :
         ListAsset(m, f, paused) \/ ReplaceFeed(m, f, paused)
    \/ PauseAsset(m)
    \/ DelistAsset(m)

LEMMA Steps ==
    Next <=> \/ RoleStep \/ CustomStep \/ PublishStep
             \/ \E m \in Listable : ListingStep(m)
             \/ Tick
BY DEF Next, RoleStep, CustomStep, PublishStep, ListingStep

-------------------------------------------------------------------------------
(* Types. *)

Report == [exists : BOOLEAN, full : BOOLEAN, pair : Pairs \cup {NoPair}, price : Nat,
           at : 0..MaxTime]

Listing == [listed : BOOLEAN, paused : BOOLEAN, feed : AllFeeds, pair : Pairs \cup {NoPair}]

LEMMA TypeInit == Init => TypeOK
<1> SUFFICES ASSUME Init
             PROVE  TypeOK
    OBVIOUS
<1> USE FeedsAssumption DEF Init
<1>1. now \in 0..MaxTime
    OBVIOUS
<1>2. report \in [PushFeeds \cup RoundFeeds -> Report]
    BY DEF NoReport, Report
<1>3. listing \in [Listable -> Listing]
    BY DEF Unlisted, Listing, AllFeeds
<1>4. custom \in [Mints -> [oracle : Keys \cup {NoKey}, price : Nat]]
    OBVIOUS
<1>5. \A m \in Mints : ~Created(m)
    BY DEF Created
<1>6. \A p \in Programs \ {CUSTOM} : owner[p] # NoKey
    OBVIOUS
<1>7. pending \in [Programs -> Keys \cup {NoKey}]
    OBVIOUS
<1> QED BY <1>1, <1>2, <1>3, <1>4, <1>5, <1>6, <1>7 DEF TypeOK, Report, Listing

LEMMA RoleType ==
    ASSUME TypeOK, RoleStep
    PROVE  TypeOK'
<1>1. owner' \in [Programs -> Keys \cup {NoKey}] /\ pending' \in [Programs -> Keys \cup {NoKey}]
    BY DEF TypeOK, RoleStep, InitializeConfig, TransferOwnership, AcceptOwnership
<1>2. \A p \in Programs \ {CUSTOM} : owner'[p] # NoKey
    BY DEF TypeOK, RoleStep, InitializeConfig, TransferOwnership, AcceptOwnership
<1>3. UNCHANGED <<now, custom, report, listing>>
    BY DEF RoleStep, InitializeConfig, TransferOwnership, AcceptOwnership
<1> QED BY <1>1, <1>2, <1>3 DEF TypeOK, Created

\* An oracle can neither create a feed without a price nor leave one behind.
LEMMA CustomType ==
    ASSUME TypeOK, CustomStep
    PROVE  TypeOK'
<1>1. custom' \in [Mints -> [oracle : Keys \cup {NoKey}, price : Nat]]
    BY FeedsAssumption DEF TypeOK, CustomStep, Initialize, SetOracle, SetPrice
<1>2. \A m \in Mints : custom'[m].oracle # NoKey => custom'[m].price > 0
    <2>1. CASE \E m \in Mints, price \in Prices, k \in Keys : Initialize(m, price, k)
        BY <2>1 DEF TypeOK, Initialize, Created
    <2>2. CASE \E m \in Mints, k \in Keys : SetOracle(m, k)
        BY <2>2 DEF TypeOK, SetOracle, Created
    <2>3. CASE \E m \in Mints, price \in Prices : SetPrice(m, price)
        BY <2>3 DEF TypeOK, SetPrice, Created
    <2> QED BY <2>1, <2>2, <2>3 DEF CustomStep
<1>3. UNCHANGED <<now, roleVars, report, listing>>
    BY DEF CustomStep, Initialize, SetOracle, SetPrice
<1> QED BY <1>1, <1>2, <1>3 DEF TypeOK, Created, roleVars

\* What others may write is a report, about the account's own pair if it has one.
LEMMA ContentsType ==
    ASSUME TypeOK, NEW f \in PushFeeds \cup RoundFeeds, NEW content \in Contents(f)
    PROVE  /\ content \in Report
           /\ f \in RoundFeeds => content.pair = RoundPair[f]
<1>1. ASSUME NEW at \in {now - delay : delay \in Delays} \cap Nat
      PROVE  at \in 0..MaxTime
    <2>1. PICK delay \in Delays : at = now - delay
        OBVIOUS
    <2>2. now \in 0..MaxTime
        BY DEF TypeOK
    <2> QED BY <2>1, <2>2, FeedsAssumption
<1>2. ASSUME NEW pairs \in SUBSET Pairs
      PROVE  Updates(pairs) \subseteq {r \in Report : r.pair \in pairs}
    BY <1>1, FeedsAssumption DEF Updates, Report
<1>3. CASE f \in RoundFeeds
    <2>1. {RoundPair[f]} \in SUBSET Pairs
        BY <1>3, FeedsAssumption
    <2> QED BY <1>2, <1>3, <2>1 DEF Contents
<1>4. CASE f \notin RoundFeeds
    <2>1. 0 \in 0..MaxTime
        BY FeedsAssumption
    <2>2. NoReport \in Report
        BY <2>1 DEF NoReport, Report
    <2>3. [NoReport EXCEPT !.exists = TRUE] \in Report
        BY <2>2 DEF Report
    <2> QED BY <1>2, <1>4, <2>2, <2>3 DEF Contents
<1> QED BY <1>3, <1>4

LEMMA PublishType ==
    ASSUME TypeOK, PublishStep
    PROVE  TypeOK'
<1>0. PICK f \in PushFeeds \cup RoundFeeds : \E content \in Contents(f) : Publish(f, content)
    BY DEF PublishStep
<1>1. PICK content \in Contents(f) : Publish(f, content)
    BY <1>0
<1>2. content \in Report
    BY ContentsType
<1>3. report' \in [PushFeeds \cup RoundFeeds -> Report]
    BY <1>1, <1>2 DEF Publish, TypeOK, Report
<1> QED BY <1>1, <1>3 DEF Publish, TypeOK, Created, roleVars, Report

LEMMA ListingType ==
    ASSUME TypeOK, NEW m \in Listable, ListingStep(m)
    PROVE  TypeOK'
<1>1. ASSUME NEW f \in AllFeeds
      PROVE  StoredPair(f) \in Pairs \cup {NoPair}
    BY <1>1 DEF StoredPair, TypeOK
<1>2. listing' \in [Listable -> Listing]
    <2>1. ASSUME NEW f \in AllFeeds, NEW paused \in BOOLEAN,
                 ListAsset(m, f, paused) \/ ReplaceFeed(m, f, paused)
          PROVE  listing' \in [Listable -> Listing]
        <3>1. [listed |-> TRUE, paused |-> paused, feed |-> f, pair |-> StoredPair(f)] \in Listing
            BY <1>1 DEF Listing
        <3> QED BY <2>1, <3>1 DEF ListAsset, ReplaceFeed, Bound, TypeOK, Listing
    <2>2. CASE PauseAsset(m)
        BY <2>2 DEF PauseAsset, TypeOK, Listing
    <2>3. CASE DelistAsset(m)
        BY <2>3, FeedsAssumption DEF DelistAsset, Unlisted, TypeOK, Listing, AllFeeds
    <2> QED BY <2>1, <2>2, <2>3 DEF ListingStep
<1>3. UNCHANGED <<now, roleVars, custom, report>>
    BY DEF ListingStep, ListAsset, ReplaceFeed, Bound, PauseAsset, DelistAsset
<1> QED BY <1>2, <1>3 DEF TypeOK, Created, roleVars, Listing

LEMMA TickType ==
    ASSUME TypeOK, Tick
    PROVE  TypeOK'
BY FeedsAssumption DEF TypeOK, Tick, Created, roleVars

LEMMA TypeStep == TypeOK /\ [Next]_vars => TypeOK'
<1> SUFFICES ASSUME TypeOK, [Next]_vars
             PROVE  TypeOK'
    OBVIOUS
<1>1. CASE UNCHANGED vars
    BY <1>1 DEF TypeOK, Created, vars, roleVars
<1> QED BY <1>1, Steps, RoleType, CustomType, PublishType, ListingType, TickType

-------------------------------------------------------------------------------
(* What was approved. *)

LEMMA ApprovalInit == MCInit => ApprovalInv
<1> SUFFICES ASSUME MCInit
             PROVE  ApprovalInv
    OBVIOUS
<1>1. RoundsKeepPair
    BY DEF MCInit, Init, RoundsKeepPair, NoReport
<1>2. \A m \in Listable : ~listing[m].listed
    BY DEF MCInit, Init, Unlisted
<1> QED BY <1>1, <1>2, TypeInit DEF MCInit, ApprovalInv, ListedAsApproved

\* A step that leaves the listings alone leaves the approvals alone.
LEMMA ListingKept ==
    ASSUME MCNext, UNCHANGED listing, NEW m \in Listable, ListedAsApproved(m)
    PROVE  ListedAsApproved(m)'
BY DEF MCNext, Rebound, ListedAsApproved

\* A listing bound anew is approved for what its feed is about then; every other listing
\* keeps both.
LEMMA ListingApproved ==
    ASSUME ApprovalInv, MCNext, NEW n \in Listable, ListingStep(n), NEW m \in Listable
    PROVE  ListedAsApproved(m)'
<1>1. ListedAsApproved(m)
    BY DEF ApprovalInv
<1>2. approved'[m] = IF Rebound(m) THEN ApprovedFor(m, listing'[m].feed) ELSE approved[m]
    BY DEF MCNext
<1>3. CASE listing'[m] = listing[m]
    BY <1>1, <1>2, <1>3 DEF Rebound, ListedAsApproved
<1>4. ASSUME NEW f \in AllFeeds, NEW paused \in BOOLEAN, listing'[m] # listing[m],
             ListAsset(n, f, paused) \/ ReplaceFeed(n, f, paused)
      PROVE  ListedAsApproved(m)'
    <2>1. m = n
        BY <1>4 DEF ListAsset, ReplaceFeed, Bound, ApprovalInv, TypeOK
    <2>2. listing'[m] = [listed |-> TRUE, paused |-> paused, feed |-> f, pair |-> StoredPair(f)]
        BY <1>4, <2>1 DEF ListAsset, ReplaceFeed, Bound, ApprovalInv, TypeOK
    <2>3. Rebound(m)
        BY <1>4, <2>1, <2>2 DEF ListAsset, ReplaceFeed, Rebound
    <2>4. approved'[m] = ApprovedFor(m, f)
        BY <1>2, <2>2, <2>3
    <2>5. f \in PushFeeds => f \notin Mints /\ f \notin RoundFeeds
        BY FeedsAssumption
    <2>6. f \in RoundFeeds => f \notin Mints
        BY FeedsAssumption
    <2> QED BY <2>2, <2>4, <2>5, <2>6 DEF ListedAsApproved, ApprovedFor, StoredPair
<1>5. CASE PauseAsset(n) /\ listing'[m] # listing[m]
    <2>1. m = n
        BY <1>5 DEF PauseAsset, ApprovalInv, TypeOK
    <2>2. /\ listing'[m].feed = listing[m].feed /\ listing'[m].pair = listing[m].pair
          /\ listing[m].listed /\ ~listing[m].paused
        BY <1>5, <2>1 DEF PauseAsset, ApprovalInv, TypeOK
    <2>3. approved'[m] = approved[m]
        BY <1>2, <2>2 DEF Rebound
    <2> QED BY <1>1, <2>2, <2>3 DEF ListedAsApproved
<1>6. CASE DelistAsset(n) /\ listing'[m] # listing[m]
    <2>1. m = n
        BY <1>6 DEF DelistAsset, ApprovalInv, TypeOK
    <2>2. listing'[m] = Unlisted(m)
        BY <1>6, <2>1 DEF DelistAsset, ApprovalInv, TypeOK
    <2> QED BY <2>2 DEF ListedAsApproved, Unlisted
<1> QED BY <1>3, <1>4, <1>5, <1>6 DEF ListingStep

LEMMA ApprovalStep == ApprovalInv /\ [MCNext]_mcVars => ApprovalInv'
<1> SUFFICES ASSUME ApprovalInv, [MCNext]_mcVars
             PROVE  ApprovalInv'
    OBVIOUS
<1>1. CASE UNCHANGED mcVars
    <2>1. TypeOK'
        BY <1>1, TypeStep DEF ApprovalInv, mcVars
    <2> QED BY <1>1, <2>1 DEF ApprovalInv, RoundsKeepPair, ListedAsApproved, mcVars, vars
<1>2. CASE MCNext
    <2>1. TypeOK'
        BY <1>2, TypeStep DEF ApprovalInv, MCNext
    <2>2. CASE RoleStep \/ CustomStep \/ Tick
        <3>1. UNCHANGED <<report, listing>>
            BY <2>2 DEF RoleStep, InitializeConfig, TransferOwnership, AcceptOwnership,
                        CustomStep, Initialize, SetOracle, SetPrice, Tick
        <3> QED BY <1>2, <2>1, <3>1, ListingKept DEF ApprovalInv, RoundsKeepPair
    <2>3. CASE PublishStep
        <3>0. PICK f \in PushFeeds \cup RoundFeeds : \E content \in Contents(f) : Publish(f, content)
            BY <2>3 DEF PublishStep
        <3>1. PICK content \in Contents(f) : Publish(f, content)
            BY <3>0
        <3>2. f \in RoundFeeds => content.pair = RoundPair[f]
            BY ContentsType DEF ApprovalInv
        <3>3. RoundsKeepPair'
            BY <3>1, <3>2 DEF Publish, ApprovalInv, RoundsKeepPair, TypeOK
        <3> QED BY <1>2, <2>1, <3>1, <3>3, ListingKept DEF Publish, ApprovalInv
    <2>4. ASSUME NEW m \in Listable, ListingStep(m)
          PROVE  ApprovalInv'
        <3>1. UNCHANGED report
            BY <2>4 DEF ListingStep, ListAsset, ReplaceFeed, Bound, PauseAsset, DelistAsset
        <3> QED BY <1>2, <2>1, <2>4, <3>1, ListingApproved DEF ApprovalInv, RoundsKeepPair
    <2> QED BY <1>2, <2>2, <2>3, <2>4, Steps DEF MCNext
<1> QED BY <1>1, <1>2

LEMMA ApprovalAlways == MCSpec => []ApprovalInv
BY ApprovalInit, ApprovalStep, PTL DEF MCSpec

\* A price the readers of price_feed.rs accept is about what the owner of GRAI approved in
\* set_feed, however feed accounts are created, closed and rewritten before and after.
THEOREM PricesAlwaysAsApproved == MCSpec => []PricesAsApproved
<1>1. ApprovalInv => PricesAsApproved
    <2> SUFFICES ASSUME ApprovalInv, NEW m \in Listable, Priced(m)
                 PROVE  LET f == listing[m].feed IN
                        /\ About(f) = approved[m]
                        /\ f \notin Mints => now <= report[f].at + MAX_STALENESS
        BY DEF PricesAsApproved, ApprovalInv
    <2> DEFINE f == listing[m].feed
    <2>1. ListedAsApproved(m) /\ listing[m].listed /\ f \in AllFeeds
        BY DEF ApprovalInv, Priced, TypeOK
    <2>2. CASE f \in Mints
        BY <2>1, <2>2, FeedsAssumption DEF ListedAsApproved, About, Priced, CustomReads
    <2>3. CASE f \in PushFeeds
        <3>1. f \notin Mints /\ f \notin RoundFeeds
            BY <2>3, FeedsAssumption
        <3>2. PushReads(f, listing[m].pair)
            BY <2>3, <3>1 DEF Priced
        <3> QED BY <2>1, <2>3, <3>1, <3>2, FeedsAssumption
                DEF ListedAsApproved, About, PushReads, Fresh, ApprovalInv, TypeOK
    <2>4. CASE f \in RoundFeeds
        <3>1. f \notin Mints /\ f \notin PushFeeds
            BY <2>4, FeedsAssumption
        <3>2. RoundReads(f)
            BY <2>4, <3>1 DEF Priced
        <3> QED BY <2>1, <2>4, <3>1, <3>2, FeedsAssumption
                DEF ListedAsApproved, About, RoundReads, Fresh, ApprovalInv, RoundsKeepPair, TypeOK
    <2> QED BY <2>1, <2>2, <2>3, <2>4 DEF AllFeeds
<1> QED BY <1>1, ApprovalAlways, PTL

-------------------------------------------------------------------------------
(* Handover. *)

LEMMA TypeAlways == Spec => []TypeOK
BY TypeInit, TypeStep, PTL DEF Spec

\* Offers, withdrawals and acceptances are those of Ownership.
LEMMA RoleSimulates ==
    ASSUME TypeOK, RoleStep
    PROVE  Handover!Next
<1>1. ASSUME NEW k \in Keys, InitializeConfig(k)
      PROVE  Handover!ClaimFirst(CUSTOM, k)
    BY <1>1 DEF InitializeConfig, Handover!ClaimFirst
<1>2. ASSUME NEW p \in Programs, NEW k \in Keys \cup {NoKey}, TransferOwnership(p, k)
      PROVE  Handover!Next
    <2>1. CASE k = NoKey
        <3>1. Handover!Withdraw(p)
            BY <1>2, <2>1 DEF TransferOwnership, TypeOK, Handover!Withdraw
        <3> QED BY <3>1 DEF Handover!Next
    <2>2. CASE k \in Keys
        <3>1. k # NoKey
            BY <2>2, FeedsAssumption
        <3>2. Handover!Offer(p, k)
            BY <1>2, <3>1 DEF TransferOwnership, TypeOK, Handover!Offer
        <3> QED BY <2>2, <3>2 DEF Handover!Next
    <2> QED BY <2>1, <2>2
<1>3. ASSUME NEW p \in Programs, AcceptOwnership(p)
      PROVE  Handover!Next
    <2>1. PICK k \in Keys : k = pending[p]
        BY <1>3 DEF AcceptOwnership, TypeOK
    <2>2. Handover!Take(p, k)
        BY <1>3, <2>1 DEF AcceptOwnership, TypeOK, Handover!Take
    <2> QED BY <2>2 DEF Handover!Next
<1> QED BY <1>1, <1>2, <1>3, FeedsAssumption DEF RoleStep, Handover!Next

\* The feed program and GRAI implement the two-step handover of Ownership.
THEOREM HandoverAlwaysConsented == Spec => HandoverConsented
<1>1. Init => Handover!Init
    BY DEF Init, Handover!Init
<1>2. TypeOK /\ [Next]_vars => [Handover!Next]_(Handover!ownershipVars)
    <2> SUFFICES ASSUME TypeOK, [Next]_vars
                 PROVE  Handover!Next \/ UNCHANGED Handover!ownershipVars
        OBVIOUS
    <2>1. CASE CustomStep \/ PublishStep \/ Tick \/ \E m \in Listable : ListingStep(m)
        <3>1. UNCHANGED roleVars
            BY <2>1 DEF CustomStep, Initialize, SetOracle, SetPrice, PublishStep, Publish, Tick,
                        ListingStep, ListAsset, ReplaceFeed, Bound, PauseAsset, DelistAsset
        <3> QED BY <3>1 DEF roleVars, Handover!ownershipVars
    <2>2. CASE UNCHANGED vars
        BY <2>2 DEF vars, roleVars, Handover!ownershipVars
    <2> QED BY <2>1, <2>2, RoleSimulates, Steps
<1> QED BY <1>1, <1>2, TypeAlways, PTL DEF Spec, HandoverConsented, Handover!Spec

=============================================================================
