----------------------------- MODULE TokenBucket -----------------------------
(***************************************************************************)
(* What rate limits promise.  Each limited direction has a bucket of some  *)
(* capacity that gains rate tokens with every second that passes and one   *)
(* token for every unit that flows the other way, never beyond its         *)
(* capacity; a unit passes only by taking a token out.  The owner of a     *)
(* limit may replace it.                                                   *)
(*                                                                         *)
(* The program keeps no such buckets: it stores the level of an earlier    *)
(* moment and works out the rest when somebody calls (RateLimiter in       *)
(* peer_config.rs).  GrsOft shows that the two cannot be told apart.       *)
(***************************************************************************)
EXTENDS Integers

CONSTANT Directions

VARIABLES
    clock,        \* changes with every second that passes
    limit,        \* [on, capacity, rate] of each direction; off lets everything pass
    level,        \* tokens in each bucket now (0 while its limit is off)
    passed,       \* units that ever passed in each direction
    returned      \* units that ever flowed against it

bucketVars == <<clock, limit, level, passed, returned>>

AtMost(n, cap) == IF n < cap THEN n ELSE cap

Limits == [on : BOOLEAN, capacity : Nat, rate : Nat]

Init ==
    /\ limit = [b \in Directions |-> [on |-> FALSE, capacity |-> 0, rate |-> 0]]
    /\ level = [b \in Directions |-> 0]
    /\ passed = [b \in Directions |-> 0] /\ returned = [b \in Directions |-> 0]

\* A second passes, and its tokens drip in.
Drip(b) ==
    /\ clock' # clock
    /\ level'[b] = AtMost(level[b] + limit[b].rate, limit[b].capacity)
    /\ limit'[b] = limit[b] /\ passed'[b] = passed[b] /\ returned'[b] = returned[b]

Pass(b) ==
    LET n == passed'[b] - passed[b] IN
    /\ clock' = clock /\ limit'[b] = limit[b]
    /\ n >= 0
    /\ level'[b] = IF limit[b].on THEN level[b] - n ELSE level[b]
    /\ level'[b] >= 0
    /\ returned'[b] = returned[b]

Return(b) ==
    LET n == returned'[b] - returned[b] IN
    /\ clock' = clock /\ limit'[b] = limit[b]
    /\ n >= 0
    /\ level'[b] = AtMost(level[b] + n, limit[b].capacity)
    /\ passed'[b] = passed[b]

\* A limit whose capacity is set starts full; one whose rate alone is set keeps what
\* has dripped in so far at the old rate.
Replace(b) ==
    /\ limit'[b] \in Limits
    /\ \/ level'[b] = limit'[b].capacity
       \/ /\ level'[b] = level[b]
          /\ limit'[b] = [limit[b] EXCEPT !.on = TRUE, !.rate = limit'[b].rate]
    /\ clock' = clock /\ passed'[b] = passed[b] /\ returned'[b] = returned[b]

\* A step of the program may concern several buckets: a transfer takes from one and
\* gives to its opposite.
Next == \A b \in Directions : Drip(b) \/ Pass(b) \/ Return(b) \/ Replace(b)

Spec == Init /\ [][Next]_bucketVars

=============================================================================
