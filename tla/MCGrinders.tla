------------------------------ MODULE MCGrinders ------------------------------
(***************************************************************************)
(* Grinders for TLC, with a history variable (when the fund was last run)  *)
(* through which it is shown to implement Custody.                         *)
(***************************************************************************)
EXTENDS Grinders

VARIABLE lastActive

historyVars == <<vars, lastActive>>

HistoryInit == Init /\ lastActive = now

HistoryNext ==
    \/ Operation /\ lastActive' = now
    \/ OtherStep /\ UNCHANGED lastActive

HistorySpec == HistoryInit /\ [][HistoryNext]_historyVars

Promise == INSTANCE Custody

\* Grinders keeps the promise GRAI relies on: every allocation, deallocation, yield and
\* revive renews the heartbeat, so that no liquidation opens within the shortest grinding
\* period of one, whatever period the owner sets meanwhile; GRAI vaults never lose a token
\* to Grinders and grow by sweeps only in a liquidation.
CustodyKept == Promise!Spec

\* The gate cannot be kept shut: once the fund has been idle for the longest period an
\* owner may set, the heartbeat is stale, whatever else the owner, the toreador and the
\* NFT holders did (swaps, mints, retargets and withdrawals are no heartbeat).
IdleFundCanBeLiquidated ==
    /\ TypeOK
    /\ now > lastActive + MaxPeriod => ~Grinding

-------------------------------------------------------------------------------
(* Liveness: the sweeps are permissionless, somebody calls each of them again   *)
(* and again while it would move something.  Nobody else is assumed to act.     *)

SweepSpec ==
    /\ HistorySpec
    /\ WF_vars(LiquidateIdle)
    /\ \A c \in Ids : WF_vars(c \in Minted /\ LiquidateCustodian(c))

\* What the sweeps can take is gone: the reserve of the listed mints, and what custodians
\* with a listed pair hold of that pair.
AllSwept ==
    /\ \A a \in Listed : reserve[a] = 0
    /\ \A c \in Minted : Pair(c) \subseteq Listed => \A a \in Pair(c) : held[c][a] = 0

\* From some time on the toreador moves no inventory out of the reserve and retargets no
\* custodian, and nobody sends a custodian more tokens.
InventoryRests ==
    <>[][~\E c \in Minted, a \in Assets, x \in Amounts :
           \/ Donate(c, a, x)
           \/ \E p \in People : Allocate(p, c, a, x)
           \/ \E p \in People, q \in Assets : SetAssets(p, c, a, q)]_vars

\* Once nobody stirs the inventory any more, an open liquidation either ends or comes to a
\* state in which nothing is left that the sweeps can take, however the NFT holders go on
\* trading within their pairs.  It is no promise against the toreador: allocate works in
\* a liquidation, and what went to a custodian with an unlisted pair before stays there.
SweepsComplete == InventoryRests => (liquidation ~> (~liquidation \/ AllSwept))

===============================================================================
