-------------------------------- MODULE Totals --------------------------------
(***************************************************************************)
(* Sums.  The total of a function into the naturals is the number of       *)
(* single units it holds: a definition without recursion, about which the  *)
(* theorems on finite sets are enough.                                     *)
(***************************************************************************)
EXTENDS Integers, FiniteSets

Units(f) == UNION {{x} \X (1..f[x]) : x \in DOMAIN f}

Total(f) == Cardinality(Units(f))

===============================================================================
