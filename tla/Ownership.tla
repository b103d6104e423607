------------------------------ MODULE Ownership ------------------------------
(***************************************************************************)
(* What a two-step handover of programs promises.  A program nobody owns   *)
(* belongs to the first who claims it; from then on it changes hands only  *)
(* when its owner offers it to somebody, has not thought better of it      *)
(* since, and that somebody takes it.  A new owner inherits no offer.      *)
(***************************************************************************)
CONSTANTS Programs, Keys, Nobody

VARIABLES
    owner,       \* of each program
    offered      \* the keys that may take each program

ownershipVars == <<owner, offered>>

Init ==
    /\ owner \in [Programs -> Keys \cup {Nobody}]
    /\ offered = [p \in Programs |-> {}]

ClaimFirst(p, k) ==
    /\ owner[p] = Nobody
    /\ owner' = [owner EXCEPT ![p] = k]
    /\ UNCHANGED offered

Offer(p, k) ==
    /\ owner[p] # Nobody /\ owner[p] # k
    /\ offered' = [offered EXCEPT ![p] = {k}]
    /\ UNCHANGED owner

Withdraw(p) ==
    /\ owner[p] # Nobody
    /\ offered' = [offered EXCEPT ![p] = {}]
    /\ UNCHANGED owner

Take(p, k) ==
    /\ k \in offered[p]
    /\ owner' = [owner EXCEPT ![p] = k]
    /\ offered' = [offered EXCEPT ![p] = {}]

Next ==
    \E p \in Programs : \/ \E k \in Keys : ClaimFirst(p, k) \/ Offer(p, k) \/ Take(p, k)
                        \/ Withdraw(p)

Spec == Init /\ [][Next]_ownershipVars

=============================================================================
