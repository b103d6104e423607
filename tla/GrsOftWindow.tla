---------------------------- MODULE GrsOftWindow ----------------------------
(***************************************************************************)
(* What a rate limit is for: how much passes in a period.  GrsOft with an  *)
(* observer that holds, for each limited direction, what had passed and    *)
(* come back when a period began, and counts the seconds since.  A period  *)
(* may begin after any step.  One does begin whenever an admin sets the    *)
(* limit of the direction: set_capacity fills the bucket even if the       *)
(* capacity stays what it was.                                             *)
(***************************************************************************)
EXTENDS GrsOft

VARIABLE window      \* [seconds, passed, returned] of the period of each direction

\* The bucket of TokenBucket that the limiter of a direction stands for.
BLimit(b) == LimitOf(LimiterOf(b))
BLevel(b) == Level(LimiterOf(b))
BPassed(b) == IF b[1] = "out" THEN SentOver(b[2]) ELSE ArrivedFrom(b[2])
BReturned(b) == IF b[1] = "out" THEN ArrivedFrom(b[2]) ELSE SentOver(b[2])

\* A set_peer_config call writes the limiter of this direction.
LimitSet(b) ==
    \/ /\ b[1] = "out"
       /\ \E l \in NextLimiters(LimiterOf(b)) : SetOutboundLimit(b[2][1], b[2][2], l)
    \/ /\ b[1] = "in"
       /\ \E l \in NextLimiters(LimiterOf(b)) : SetInboundLimit(b[2][1], b[2][2], l)

Opened(b) == [seconds |-> 0, passed |-> BPassed(b), returned |-> BReturned(b)]

Longer(w) == [w EXCEPT !.seconds = IF clock' # clock THEN @ + 1 ELSE @]

\* The observer only looks: it has a next state for every step of the program, and several
\* where it may choose to begin a period.
Observe ==
    \E B \in SUBSET Directions :
      /\ \A b \in Directions : LimitSet(b) => b \in B
      /\ window' = [b \in Directions |-> IF b \in B THEN Opened(b)' ELSE Longer(window[b])]

WindowSpec ==
    /\ Init /\ window = [b \in Directions |-> Opened(b)]
    /\ [][Next /\ Observe]_<<vars, window>>

\* In any period in which a limit is in force and stays as it is, what passes is at most its
\* capacity, what drips in at its rate in the seconds of the period, and what came back the
\* other way (try_consume and refill in peer_config.rs).
WithinLimit ==
    \A b \in Directions : BLimit(b).on =>
      BPassed(b) - window[b].passed
        <= BLimit(b).capacity + BLimit(b).rate * window[b].seconds
           + (BReturned(b) - window[b].returned)

===============================================================================
