------------------------------- MODULE MCFeeds -------------------------------
(***************************************************************************)
(* Feeds with a record of what the owner of GRAI approved, and a small     *)
(* instance of it: one listed mint, a second mint whose custom feed can be *)
(* confused with it, a receiver account that switches between two pairs.   *)
(***************************************************************************)
EXTENDS Feeds, TLC

VARIABLE approved     \* per listed mint, what its feed was about when set_feed bound it

mcVars == <<vars, approved>>

\* What the price of an account is about.
About(f) == IF f \in Mints THEN f ELSE report[f].pair

\* set_feed took a feed for the asset.
Rebound(m) ==
    /\ listing'[m] # listing[m] /\ listing'[m].listed
    /\ ~listing[m].listed \/ listing[m].paused

\* A custom feed is only ever right for its own mint; an account of one pair is known by
\* its address; a receiver account is what it shows at that moment.
ApprovedFor(m, f) ==
    IF f \in Mints THEN m ELSE IF f \in RoundFeeds THEN RoundPair[f] ELSE report[f].pair

MCInit == Init /\ approved = [m \in Listable |-> NoPair]
MCNext ==
    /\ Next
    /\ approved' = [m \in Listable |-> IF Rebound(m) THEN ApprovedFor(m, listing'[m].feed)
                                      ELSE approved[m]]

MCSpec == MCInit /\ [][MCNext]_mcVars

\* Whenever a deposit, bribe or claim finds a price, that price is about what the owner
\* approved for the asset, and no older than the limit unless it is the custom feed of the
\* mint: also for feeds that were listed before their account existed, and for receiver
\* accounts that were closed, created again, or rewritten with another pair or an older
\* update since.
PricesAsApproved ==
    /\ TypeOK
    /\ \A m \in Listable :
         Priced(m) =>
           LET f == listing[m].feed IN
           /\ About(f) = approved[m]
           /\ f \notin Mints => now <= report[f].at + MAX_STALENESS

Symmetry == Permutations(Keys)

MCRoundPair == [f \in RoundFeeds |-> CHOOSE p \in Pairs : TRUE]

==============================================================================
