------------------------------- MODULE MCForfeit -------------------------------
(***************************************************************************)
(* Grai with an account of what positions miss: the dividends their locks  *)
(* earned in the present listing of an asset that neither are pending nor  *)
(* were paid, and the debt each brought from an earlier listing.           *)
(* Delisting closes the AssetConfig but not the positions, so a debt of    *)
(* the old index meets an index that starts at zero again, and the         *)
(* saturating_sub of settle swallows what accrues below that debt.         *)
(***************************************************************************)
EXTENDS MCOverhang

VARIABLES missed, stale

forfeitVars == <<historyVars, missed, stale>>

\* What the step adds to the dividends of u: the rise of the index on u's lock.  The
\* lock is the one after the step: a bribe takes the bought shares before it distributes.
Earned(u, a) ==
    Accumulated(locked'[u], asset'[a].acc_share) - Accumulated(locked'[u], asset[a].acc_share)

\* What the step pays u: the reserve a claim released, when it was u's position that moved.
Paid(u, a) ==
    IF position'[u][a] # position[u][a]
    THEN SaturatingSub(asset[a].total_claimable, asset'[a].total_claimable)
    ELSE 0

ForfeitInit ==
    /\ HistoryInit
    /\ missed = [u \in Users |-> [a \in Assets |-> 0]]
    /\ stale = [u \in Users |-> [a \in Assets |-> 0]]

\* The account starts over with a new position and with every listing and delisting.
ForfeitNext ==
    /\ HistoryNext
    /\ missed' = [u \in Users |-> [a \in Assets |->
                   IF position[u][a].exists /\ asset[a].listed /\ asset'[a].listed
                   THEN missed[u][a] + Earned(u, a) - Paid(u, a)
                          + Pending(u, a) - Pending(u, a)'
                   ELSE 0]]
    /\ stale' = [u \in Users |-> [a \in Assets |->
                   IF ~asset'[a].listed THEN 0
                   ELSE IF asset[a].listed THEN stale[u][a]
                   ELSE position[u][a].debt]]

ForfeitSpec == ForfeitInit /\ [][ForfeitNext]_forfeitVars

\* Over all the settles, bribes, partial claims and index raises of a listing a position
\* gets what its lock earned, never more, and it misses at most the debt it brought from
\* an earlier listing, and that only once (dividend.rs settle with its saturating_sub).
ForfeitBounded ==
    \A u \in Users, a \in Listed : missed[u][a] \in 0..stale[u][a]

===============================================================================
