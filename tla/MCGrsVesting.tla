----------------------------- MODULE MCGrsVesting -----------------------------
(* A small instance of GrsVesting for TLC. *)
EXTENDS GrsVesting

Terms(start, cliff, duration) == [start |-> start, cliff |-> cliff, duration |-> duration]

\* from now on without a cliff; begun in the past; a cliff alone in the future; one that
\* is over when it begins; an instant one and one whose cliff is too long, both refused
MCSchedules == {Terms(0, 0, 3), Terms(1, 1, 3), Terms(3, 2, 0), Terms(1, 0, 1),
                Terms(0, 0, 0), Terms(0, 3, 0)}

\* two that pay in steps and one that no date can hold
MCGrantSchedules == {Terms(0, 1, 3), Terms(3, 0, 3), Terms(10, 0, 3)}

===============================================================================
