-------------------------------- MODULE Custody --------------------------------
(***************************************************************************)
(* What the GRAI program relies on from Grinders, and no more: vaults of   *)
(* GRAI grow through yield while business runs and through sweeps while a  *)
(* liquidation is open, Grinders never takes anything out of them, and a   *)
(* liquidation opens only after the fund has been idle for the shortest    *)
(* grinding period an owner may set.  Module Grai assumes this of its      *)
(* environment (SweepIn, GrindersHeartbeat); module Grinders implements it.*)
(***************************************************************************)
EXTENDS Integers

CONSTANTS Assets, MinPeriod

VARIABLES
    now,
    lastActive,    \* when inventory was last moved by the operators, or the fund revived
    liquidation,   \* GraiState.liquidation
    vault          \* the asset vaults of GRAI

custodyVars == <<now, lastActive, liquidation, vault>>

Init ==
    /\ now \in Nat /\ lastActive = now
    /\ liquidation = FALSE
    /\ vault = [a \in Assets |-> 0]

Grows  == \A a \in Assets : vault'[a] >= vault[a]
Shrinks == \A a \in Assets : vault'[a] <= vault[a]

\* The operators move inventory between Grinders and its custodians.
Operate ==
    /\ lastActive' = now
    /\ UNCHANGED <<now, liquidation, vault>>

\* Yield reaches the vault of one asset, only while no liquidation is open.
PayYield ==
    /\ ~liquidation
    /\ Grows
    /\ lastActive' = now
    /\ UNCHANGED <<now, liquidation>>

\* Somebody sweeps inventory into the vaults of an open liquidation.
Sweep ==
    /\ liquidation
    /\ Grows
    /\ UNCHANGED <<now, lastActive, liquidation>>

\* GRAI: liquidate, redeem and revive.
Open ==
    /\ ~liquidation
    /\ now > lastActive + MinPeriod
    /\ liquidation' = TRUE
    /\ UNCHANGED <<now, lastActive, vault>>

PayOut ==
    /\ liquidation
    /\ Shrinks
    /\ UNCHANGED <<now, lastActive, liquidation>>

Close ==
    /\ liquidation
    /\ Shrinks
    /\ liquidation' = FALSE
    /\ lastActive' = now
    /\ UNCHANGED now

Tick ==
    /\ now' = now + 1
    /\ UNCHANGED <<lastActive, liquidation, vault>>

Next == Operate \/ PayYield \/ Sweep \/ Open \/ PayOut \/ Close \/ Tick

Spec == Init /\ [][Next]_custodyVars

===============================================================================
