------------------------------- MODULE MCGrsOft -------------------------------
(***************************************************************************)
(* A small instance of GrsOft: traffic between the home chain and one      *)
(* spoke, a second remote that competes for the only place of the          *)
(* registry.  Two local units make a shared one.  The home admin sets the  *)
(* OFT fee, the spoke admin the limits, so that transfers of two sizes     *)
(* compete for the bucket of the spoke: a smaller one may overtake a       *)
(* larger one that was sent before it.                                     *)
(***************************************************************************)
EXTENDS GrsOft

CONSTANT Trader      \* the spoke with traffic

\* A quarter of a transfer, at most one unit: the cap binds for the larger amount only.
MCTransferFee == [bps |-> 1, maximum |-> 1]

\* Out: 4 announces 2 and sends 3; 6 announces 4 and sends 5, or announces 2 with the OFT
\* fee on.  Back: 3 loses a unit of dust.
MCAmounts == [c \in Chains |-> IF c = Home THEN {4, 6} ELSE {3}]

MCRoutes == {<<Home, Trader>>, <<Trader, Home>>}
MCCharged == {<<Home, Trader>>}
MCAdministered == {<<Trader, Home>>}

\* Only the home admin changes peer addresses.
MCWirings == {Home} \X Spokes

\* A bucket that holds the larger transfer or two of the smaller ones.
MCLimitParams == {[capacity |-> 4, rate |-> 4]}

===============================================================================
