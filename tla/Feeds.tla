-------------------------------- MODULE Feeds --------------------------------
(***************************************************************************)
(* Where GRAI takes its prices from: the custom price feed program, whose  *)
(* owner appoints an oracle per mint; the feed accounts of Pyth and        *)
(* Chainlink, which others write; set_feed, which binds an asset to one of *)
(* them; and the readers of price_feed.rs, which decide on every use       *)
(* whether the account of the moment gives a price.                        *)
(*                                                                         *)
(* An account is named by what its address commits to: the custom feed of  *)
(* mint m is m itself (a PDA of m).                                        *)
(***************************************************************************)
EXTENDS Integers

CONSTANTS
    Keys, NoKey,             \* who signs; Pubkey::default()
    Programs,                \* programs with an owner
    CUSTOM,                  \* the custom price feed program among them
    Mints,
    PushFeeds,               \* accounts of the Pyth receiver, rewritten by whoever may
    RoundFeeds,              \* legacy Pyth and Chainlink accounts, of one pair each
    Pairs, NoPair,           \* what a price is about; the zero feed id
    RoundPair,               \* the pair of each account of RoundFeeds
    MAX_STALENESS,           \* MAX_PRICE_STALENESS_SECS
    \* --- the inputs and the bounds of an instance ---
    Listable,                \* mints that GRAI lists
    Prices,                  \* prices written by oracles and publishers
    Delays,                  \* ages of the updates that reach the chain
    MaxTime                  \* bound on the clock

AllFeeds == Mints \cup PushFeeds \cup RoundFeeds

ASSUME FeedsAssumption ==
    /\ NoKey \notin Keys /\ CUSTOM \in Programs
    /\ Mints \cap PushFeeds = {} /\ (Mints \cup PushFeeds) \cap RoundFeeds = {}
    /\ NoPair \notin Pairs /\ Pairs \cap Mints = {}
    /\ RoundPair \in [RoundFeeds -> Pairs]
    /\ MAX_STALENESS \in Nat /\ MaxTime \in Nat
    /\ Listable \subseteq Mints /\ Prices \subseteq Nat /\ Delays \subseteq Nat

VARIABLES
    now,         \* Clock::unix_timestamp
    owner,       \* FeedConfig.owner, GraiState.owner
    pending,     \* their pending_owner
    custom,      \* CustomPriceFeed of each mint: [oracle, price]; no oracle, no account
    report,      \* the content of the accounts others write
    listing      \* AssetConfig: [listed, paused, feed, pair]

roleVars == <<owner, pending>>
vars == <<now, roleVars, custom, report, listing>>

-------------------------------------------------------------------------------
(* The custom price feed program, and the ownership of GRAI, which works the same way *)

InitializeConfig(k) ==
    /\ owner[CUSTOM] = NoKey
    /\ owner' = [owner EXCEPT ![CUSTOM] = k]
    /\ UNCHANGED <<now, pending, custom, report, listing>>

\* Signed by the owner; the default key cancels.
TransferOwnership(p, k) ==
    /\ owner[p] # NoKey /\ k # owner[p]
    /\ pending' = [pending EXCEPT ![p] = k]
    /\ UNCHANGED <<now, owner, custom, report, listing>>

\* Variant: the offer outlives its acceptance.
AcceptOwnershipKept(p) ==
    /\ pending[p] # NoKey
    /\ owner' = [owner EXCEPT ![p] = pending[p]]
    /\ UNCHANGED <<now, pending, custom, report, listing>>

\* Signed by the pending owner.
AcceptOwnership(p) ==
    /\ pending[p] # NoKey
    /\ owner' = [owner EXCEPT ![p] = pending[p]]
    /\ pending' = [pending EXCEPT ![p] = NoKey]
    /\ UNCHANGED <<now, custom, report, listing>>

\* Whether the account of a custom feed exists.
Created(m) == custom[m].oracle # NoKey

Initialize(m, price, oracle) ==
    /\ owner[CUSTOM] # NoKey /\ ~Created(m)
    /\ price > 0 /\ oracle # NoKey
    /\ custom' = [custom EXCEPT ![m] = [oracle |-> oracle, price |-> price]]
    /\ UNCHANGED <<now, roleVars, report, listing>>

SetOracle(m, oracle) ==
    /\ Created(m) /\ oracle # NoKey
    /\ custom' = [custom EXCEPT ![m].oracle = oracle]
    /\ UNCHANGED <<now, roleVars, report, listing>>

\* Signed by the oracle.
SetPrice(m, price) ==
    /\ Created(m) /\ price > 0
    /\ custom' = [custom EXCEPT ![m].price = price]
    /\ UNCHANGED <<now, roleVars, report, listing>>

-------------------------------------------------------------------------------
(* Accounts that others write *)

NoReport == [exists |-> FALSE, full |-> FALSE, pair |-> NoPair, price |-> 0, at |-> 0]

\* Verified updates about one of the pairs.
Updates(pairs) ==
    [exists : {TRUE}, full : {TRUE}, pair : pairs, price : Prices,
     at : {now - delay : delay \in Delays} \cap Nat]

\* A receiver account takes any update the network signed, of any pair and any age, a
\* partly verified one too, and may be closed; the other accounts follow their own pair.
Contents(f) ==
    IF f \in RoundFeeds THEN Updates({RoundPair[f]})
    ELSE {NoReport, [NoReport EXCEPT !.exists = TRUE]} \cup Updates(Pairs)

Publish(f, content) ==
    /\ report' = [report EXCEPT ![f] = content]
    /\ UNCHANGED <<now, roleVars, custom, listing>>

-------------------------------------------------------------------------------
(* set_feed, signed by the owner of GRAI *)

Unlisted(m) == [listed |-> FALSE, paused |-> FALSE, feed |-> m, pair |-> NoPair]

\* ensure_feed_matches_asset_mint looks at custom feed accounts only: an address without
\* an account yet passes, as those of Pyth and Chainlink do.
FeedMatches(f, m) == f \in Mints /\ Created(f) => f = m /\ custom[f].price > 0

\* resolve_stored_pyth_feed_id: the pair the receiver account shows now.
StoredPair(f) == IF f \in PushFeeds /\ report[f].exists THEN report[f].pair ELSE NoPair

Resolvable(f) == f \in PushFeeds /\ report[f].exists => report[f].full /\ report[f].pair # NoPair

Bound(m, f, paused) ==
    /\ FeedMatches(f, m) /\ Resolvable(f)
    /\ listing' = [listing EXCEPT ![m] = [listed |-> TRUE, paused |-> paused,
                                          feed |-> f, pair |-> StoredPair(f)]]
    /\ UNCHANGED <<now, roleVars, custom, report>>

ListAsset(m, f, paused) == ~listing[m].listed /\ Bound(m, f, paused)

\* The oracle arguments of the call are ignored.
PauseAsset(m) ==
    /\ listing[m].listed /\ ~listing[m].paused
    /\ listing' = [listing EXCEPT ![m].paused = TRUE]
    /\ UNCHANGED <<now, roleVars, custom, report>>

ReplaceFeed(m, f, paused) == listing[m].listed /\ listing[m].paused /\ Bound(m, f, paused)

\* Once its vault is empty, which Grai models.
DelistAsset(m) ==
    /\ listing[m].listed /\ listing[m].paused
    /\ listing' = [listing EXCEPT ![m] = Unlisted(m)]
    /\ UNCHANGED <<now, roleVars, custom, report>>

-------------------------------------------------------------------------------
(* fetch_price_from_feed *)

Fresh(f) == now - report[f].at <= MAX_STALENESS

\* Variant: the mint trusted to what set_feed checked.
CustomReadsAny(f, m) == Created(f) /\ custom[f].price > 0

CustomReads(f, m) == Created(f) /\ f = m /\ custom[f].price > 0

PushReads(f, pair) ==
    /\ pair # NoPair /\ report[f].exists /\ report[f].full
    /\ report[f].pair = pair
    /\ Fresh(f) /\ report[f].price > 0

RoundReads(f) == report[f].exists /\ report[f].price > 0 /\ Fresh(f)

\* Whether a deposit, a bribe or a claim in the asset finds a price.
Priced(m) ==
    LET l == listing[m] IN
    /\ l.listed
    /\ \/ l.feed \in Mints /\ CustomReads(l.feed, m)
       \/ l.feed \in PushFeeds /\ PushReads(l.feed, l.pair)
       \/ l.feed \in RoundFeeds /\ RoundReads(l.feed)

-------------------------------------------------------------------------------

Tick == now < MaxTime /\ now' = now + 1 /\ UNCHANGED <<roleVars, custom, report, listing>>

Init ==
    /\ now = 0
    /\ owner \in [Programs -> Keys \cup {NoKey}]
    /\ \A p \in Programs : owner[p] = NoKey <=> p = CUSTOM
    /\ pending = [p \in Programs |-> NoKey]
    /\ custom = [m \in Mints |-> [oracle |-> NoKey, price |-> 0]]
    /\ report = [f \in PushFeeds \cup RoundFeeds |-> NoReport]
    /\ listing = [m \in Listable |-> Unlisted(m)]

Next ==
    \/ \E k \in Keys : InitializeConfig(k)
    \/ \E p \in Programs, k \in Keys \cup {NoKey} : TransferOwnership(p, k)
    \/ \E p \in Programs : AcceptOwnership(p)
    \/ \E m \in Mints, price \in Prices, k \in Keys : Initialize(m, price, k)
    \/ \E m \in Mints, k \in Keys : SetOracle(m, k)
    \/ \E m \in Mints, price \in Prices : SetPrice(m, price)
    \/ \E f \in PushFeeds \cup RoundFeeds : \E content \in Contents(f) : Publish(f, content)
    \/ \E m \in Listable, f \in AllFeeds, paused \in BOOLEAN : ListAsset(m, f, paused)
    \/ \E m \in Listable : PauseAsset(m)
    \/ \E m \in Listable, f \in AllFeeds, paused \in BOOLEAN : ReplaceFeed(m, f, paused)
    \/ \E m \in Listable : DelistAsset(m)
    \/ Tick

Spec == Init /\ [][Next]_vars

-------------------------------------------------------------------------------
(* Properties *)

\* Accounts keep their types, an existing custom feed has a positive price, and no
\* program ever loses its owner.
TypeOK ==
    /\ now \in 0..MaxTime
    /\ owner \in [Programs -> Keys \cup {NoKey}] /\ pending \in [Programs -> Keys \cup {NoKey}]
    /\ \A p \in Programs \ {CUSTOM} : owner[p] # NoKey
    /\ custom \in [Mints -> [oracle : Keys \cup {NoKey}, price : Nat]]
    /\ \A m \in Mints : Created(m) => custom[m].price > 0
    /\ report \in [PushFeeds \cup RoundFeeds ->
                    [exists : BOOLEAN, full : BOOLEAN, pair : Pairs \cup {NoPair},
                     price : Nat, at : 0..MaxTime]]
    /\ listing \in [Listable -> [listed : BOOLEAN, paused : BOOLEAN, feed : AllFeeds,
                                 pair : Pairs \cup {NoPair}]]

Handover ==
    INSTANCE Ownership WITH
        Nobody <- NoKey,
        offered <- [p \in Programs |-> {pending[p]} \ {NoKey}]

\* The feed program and GRAI change hands only by an offer of the owner in force that was
\* not withdrawn and is taken by the one it was made to; no offer survives a change.
HandoverConsented == Handover!Spec

=============================================================================
