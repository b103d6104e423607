------------------------------ MODULE MCOverhang ------------------------------
(***************************************************************************)
(* Grai with a history variable: how often the dividend index of an asset  *)
(* has been raised, over all its listings.  It measures the rounding that  *)
(* the MasterChef scheme may give away.                                    *)
(***************************************************************************)
EXTENDS MCGrai

CONSTANT MaxRaises     \* bound on the number of index raises, over all assets

VARIABLE raises

historyVars == <<vars, raises>>

HistoryInit == Init /\ raises = [a \in Assets |-> 0]

HistoryNext ==
    /\ Next
    /\ raises' = [a \in Assets |-> IF asset'[a].acc_share > asset[a].acc_share
                                   THEN raises[a] + 1 ELSE raises[a]]
    /\ Total(raises') <= MaxRaises

HistorySpec == HistoryInit /\ [][HistoryNext]_historyVars

\* What all positions together could claim exceeds the reserve by at most one unit per
\* locker and raise of the index: the "floor overhang" that the caps of execute_claim
\* (vault balance, total_claimable) are there for never grows faster than that, also
\* across delist and relist, where stale debts and claimables survive.
OverhangBounded ==
    \A a \in Listed :
      Total([u \in Users |-> Pending(u, a)])
        <= asset[a].total_claimable + Cardinality(Users) * raises[a]

===============================================================================
