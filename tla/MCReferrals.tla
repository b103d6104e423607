----------------------------- MODULE MCReferrals ------------------------------
(* Small instances of Referrals for TLC. *)
EXTENDS Referrals, TLC

Symmetry == Permutations(Users)

===============================================================================
