---------------------------- MODULE GrindersProofs ----------------------------
(***************************************************************************)
(* Grinders implements Custody for every set of people, mints, periods and *)
(* amounts: the heartbeat is exactly the last operation, so the gate of a  *)
(* liquidation opens neither too early nor too late, and no step of the    *)
(* program takes a token out of the GRAI vaults.                           *)
(***************************************************************************)
EXTENDS MCGrinders, TLAPS

\* The inductive invariant: the stored heartbeat is when the fund was last run.
GateInv ==
    /\ TypeOK
    /\ heartbeatAt = lastActive

-------------------------------------------------------------------------------
(* The other steps, grouped. *)

\* The calls of the owner, of the toreador on the registry, and of NFT holders.
RegistryStep ==
    \/ \E p \in People, g \in Periods : SetGrindPeriod(p, g)
    \/ \E p \in People, t \in People : SetToreador(p, t)
    \/ \E p \in People, o \in People, l \in Labels, b \in Assets, q \in Assets :
         Mint(p, o, l, b, q)
    \/ \E p \in People, c \in Minted, o \in People : TransferCustodianNft(p, c, o)
    \/ \E p \in People, c \in Minted, b \in Assets, q \in Assets : SetAssets(p, c, b, q)
    \/ \E c \in Minted, o \in People : SellNft(c, o)

SwapStep ==
    \E p \in People, c \in Minted, db \in Amounts, dq \in Amounts, sell \in BOOLEAN,
      l \in Limits, taken \in SUBSET Assets : CustodianSwap(p, c, db, dq, sell, l, taken)

\* Deposits, withdrawals, sweeps, and GRAI's liquidation.
MovementStep ==
    \/ \E p \in People, a \in Assets, x \in Amounts : WithdrawToken(p, a, x)
    \/ LiquidateIdle
    \/ \E c \in Minted : LiquidateCustodian(c)
    \/ \E a \in Assets, x \in Amounts : GraiDeposit(a, x)
    \/ \E c \in Minted, a \in Assets, x \in Amounts : Donate(c, a, x)
    \/ GraiLiquidate
    \/ \E a \in Assets, x \in Amounts : GraiRedeem(a, x)

LEMMA OtherSteps == OtherStep <=> RegistryStep \/ SwapStep \/ MovementStep \/ Tick
BY DEF OtherStep, RegistryStep, SwapStep, MovementStep

-------------------------------------------------------------------------------
(* Types. *)

LEMMA TypeInit == Init => TypeOK
<1> SUFFICES ASSUME Init
             PROVE  TypeOK
    OBVIOUS
<1>1. Minted = {}
    BY DEF Init, Minted
<1>2. custodian \in [{} -> CustodianState] /\ nft \in [{} -> People]
    BY DEF Init
<1>3. period \in MinPeriod..MaxPeriod /\ nextId \in 0..MaxCustodians /\ now \in Nat
    BY GrindersAssumption DEF Init
<1>4. held \in [Ids -> [Assets -> Nat]] /\ reserve \in [Assets -> Nat] /\ vault \in [Assets -> Nat]
    BY DEF Init
<1> QED BY <1>1, <1>2, <1>3, <1>4 DEF Init, TypeOK

\* A custodian that exists has a row in held.
LEMMA MintedIds ==
    ASSUME TypeOK, NEW c \in Minted
    PROVE  c \in Ids /\ custodian[c] \in CustodianState
BY GrindersAssumption DEF TypeOK, Minted, Ids

LEMMA RegistryType ==
    ASSUME TypeOK, RegistryStep
    PROVE  TypeOK'
<1>1. CASE \E p \in People, g \in Periods : SetGrindPeriod(p, g)
    BY <1>1, GrindersAssumption DEF SetGrindPeriod, TypeOK, Minted, tokenVars
<1>2. CASE \E p \in People, t \in People : SetToreador(p, t)
    BY <1>2 DEF SetToreador, TypeOK, Minted, tokenVars
<1>3. ASSUME NEW p \in People, NEW o \in People, NEW l \in Labels, NEW b \in Assets,
             NEW q \in Assets, Mint(p, o, l, b, q)
      PROVE  TypeOK'
    <2>1. nextId \in Nat /\ nextId' \in 0..MaxCustodians /\ Minted' = 0..nextId
        BY <1>3, GrindersAssumption DEF Mint, TypeOK, Minted
    <2>2. \A c \in 0..nextId : c # nextId => c \in Minted
        BY <2>1 DEF Minted
    <2>3. custodian' \in [Minted' -> CustodianState] /\ nft' \in [Minted' -> People]
        BY <1>3, <2>1, <2>2 DEF Mint, TypeOK, CustodianState
    <2>4. \A c \in Minted' : custodian'[c].base # custodian'[c].quote
        BY <1>3, <2>1, <2>2 DEF Mint, TypeOK
    <2> QED BY <1>3, <2>1, <2>3, <2>4 DEF Mint, TypeOK, tokenVars
<1>4. ASSUME NEW p \in People, NEW c \in Minted, NEW o \in People, TransferCustodianNft(p, c, o)
      PROVE  TypeOK'
    <2>1. Minted' = Minted
        BY <1>4 DEF TransferCustodianNft, stateVars, Minted
    <2>2. custodian' \in [Minted -> CustodianState]
        BY <1>4 DEF TransferCustodianNft, TypeOK, CustodianState
    <2>3. \A i \in Minted : custodian'[i].base # custodian'[i].quote
        BY <1>4 DEF TransferCustodianNft, TypeOK, CustodianState
    <2> QED BY <1>4, <2>1, <2>2, <2>3 DEF TransferCustodianNft, TypeOK, stateVars, tokenVars
<1>5. ASSUME NEW p \in People, NEW c \in Minted, NEW b \in Assets, NEW q \in Assets,
             SetAssets(p, c, b, q)
      PROVE  TypeOK'
    <2>1. Minted' = Minted
        BY <1>5 DEF SetAssets, stateVars, Minted
    <2>2. custodian' \in [Minted -> CustodianState]
        BY <1>5 DEF SetAssets, TypeOK, CustodianState
    <2>3. \A i \in Minted : custodian'[i].base # custodian'[i].quote
        BY <1>5 DEF SetAssets, TypeOK, CustodianState
    <2> QED BY <1>5, <2>1, <2>2, <2>3 DEF SetAssets, TypeOK, stateVars, tokenVars
<1>6. CASE \E c \in Minted, o \in People : SellNft(c, o)
    BY <1>6 DEF SellNft, TypeOK, Minted, stateVars, tokenVars
<1> QED BY <1>1, <1>2, <1>3, <1>4, <1>5, <1>6 DEF RegistryStep

\* What a step that moves tokens leaves alone.
RestKept == UNCHANGED <<now, stateVars, custodian, nft>>

\* A step that only moves tokens keeps the types if the balances stay natural numbers.
LEMMA TokenType ==
    ASSUME TypeOK, RestKept, heartbeatAt' \in {heartbeatAt, now},
           reserve' \in [Assets -> Nat], vault' \in [Assets -> Nat],
           held' \in [Ids -> [Assets -> Nat]], liquidation' \in BOOLEAN
    PROVE  TypeOK'
BY DEF RestKept, TypeOK, Minted, stateVars

LEMMA OperationType ==
    ASSUME TypeOK, Operation
    PROVE  TypeOK' /\ heartbeatAt' = now
<1> USE DEF Heartbeat
<1>1. ASSUME NEW p \in People, NEW c \in Minted, NEW a \in Assets, NEW x \in Amounts,
             Allocate(p, c, a, x)
      PROVE  TypeOK' /\ heartbeatAt' = now
    <2>1. x \in Nat /\ c \in Ids
        BY MintedIds, GrindersAssumption
    <2>2. reserve' \in [Assets -> Nat] /\ held' \in [Ids -> [Assets -> Nat]]
        BY <1>1, <2>1 DEF Allocate, TypeOK
    <2> QED BY <1>1, <2>2, TokenType DEF Allocate, RestKept, TypeOK
<1>2. ASSUME NEW p \in People, NEW c \in Minted, NEW a \in Assets, NEW x \in Amounts,
             CustodianDeallocate(p, c, a, x)
      PROVE  TypeOK' /\ heartbeatAt' = now
    <2>1. x \in Nat /\ c \in Ids
        BY MintedIds, GrindersAssumption
    <2>2. reserve' \in [Assets -> Nat] /\ held' \in [Ids -> [Assets -> Nat]]
        BY <1>2, <2>1 DEF CustodianDeallocate, TypeOK
    <2> QED BY <1>2, <2>2, TokenType DEF CustodianDeallocate, RestKept, TypeOK
<1>3. ASSUME NEW p \in People, NEW c \in Minted, NEW a \in Assets, NEW x \in Amounts,
             NEW d \in Amounts \cup {0}, CustodianDistribute(p, c, a, x, d)
      PROVE  TypeOK' /\ heartbeatAt' = now
    <2>1. x \in Nat /\ d \in Nat /\ c \in Ids
        BY MintedIds, GrindersAssumption
    <2>2. vault' \in [Assets -> Nat] /\ held' \in [Ids -> [Assets -> Nat]]
        BY <1>3, <2>1 DEF CustodianDistribute, TypeOK
    <2> QED BY <1>3, <2>2, TokenType DEF CustodianDistribute, RestKept, TypeOK
<1>4. CASE GraiRevive
    <2>1. PICK kept \in [Assets -> 0..MaxInventory] :
            /\ \A a \in Assets : kept[a] <= vault[a]
            /\ vault' = kept
            /\ reserve' = [a \in Assets |-> reserve[a] + (vault[a] - kept[a])]
        BY <1>4 DEF GraiRevive
    <2>2. reserve' \in [Assets -> Nat] /\ vault' \in [Assets -> Nat]
        BY <2>1, GrindersAssumption DEF TypeOK
    <2> QED BY <1>4, <2>2, TokenType DEF GraiRevive, RestKept, TypeOK
<1> QED BY <1>1, <1>2, <1>3, <1>4 DEF Operation

\* A swap changes the accounts of one custodian, within what they hold.
LEMMA SwapType ==
    ASSUME TypeOK, NEW p \in People, NEW c \in Minted, NEW db \in Amounts, NEW dq \in Amounts,
           NEW sell \in BOOLEAN, NEW l \in Limits, NEW taken \in SUBSET Assets,
           CustodianSwap(p, c, db, dq, sell, l, taken)
    PROVE  TypeOK'
<1> DEFINE base  == custodian[c].base
           quote == custodian[c].quote
           left  == [a \in Assets |-> IF a \in taken THEN 0 ELSE held[c][a]]
<1>1. db \in Nat /\ dq \in Nat /\ c \in Ids /\ base \in Assets /\ quote \in Assets
    BY MintedIds, GrindersAssumption DEF CustodianState
<1>2. base # quote /\ held[c] \in [Assets -> Nat] /\ held \in [Ids -> [Assets -> Nat]]
    BY <1>1 DEF TypeOK
<1>3. left \in [Assets -> Nat] /\ left[base] = held[c][base] /\ left[quote] = held[c][quote]
    BY <1>1, <1>2 DEF CustodianSwap
<1>4. \/ held[c][base] >= db
         /\ held' = [held EXCEPT ![c] = [left EXCEPT ![base] = @ - db, ![quote] = @ + dq]]
      \/ held[c][quote] >= dq
         /\ held' = [held EXCEPT ![c] = [left EXCEPT ![base] = @ + db, ![quote] = @ - dq]]
    BY DEF CustodianSwap
<1>5. held[c][base] \in Nat /\ held[c][quote] \in Nat
    BY <1>1, <1>2
<1> HIDE DEF base, quote, left
<1>6. held' \in [Ids -> [Assets -> Nat]]
    <2>1. CASE held[c][base] >= db
         /\ held' = [held EXCEPT ![c] = [left EXCEPT ![base] = @ - db, ![quote] = @ + dq]]
        <3>1. left[base] - db \in Nat /\ left[quote] + dq \in Nat
            BY <1>1, <1>3, <1>5, <2>1
        <3>2. [left EXCEPT ![base] = @ - db, ![quote] = @ + dq] \in [Assets -> Nat]
            BY <1>1, <1>2, <1>3, <3>1
        <3> QED BY <1>2, <2>1, <3>2
    <2>2. CASE held[c][quote] >= dq
         /\ held' = [held EXCEPT ![c] = [left EXCEPT ![base] = @ + db, ![quote] = @ - dq]]
        <3>1. left[base] + db \in Nat /\ left[quote] - dq \in Nat
            BY <1>1, <1>3, <1>5, <2>2
        <3>2. [left EXCEPT ![base] = @ + db, ![quote] = @ - dq] \in [Assets -> Nat]
            BY <1>1, <1>2, <1>3, <3>1
        <3> QED BY <1>2, <2>2, <3>2
    <2> QED BY <1>4, <2>1, <2>2
<1> QED BY <1>6, TokenType DEF CustodianSwap, RestKept, TypeOK

\* Withdrawals, sweeps, deposits, donations and redemptions.
LEMMA MovementType ==
    ASSUME TypeOK, MovementStep
    PROVE  TypeOK'
<1>1. CASE \E p \in People, a \in Assets, x \in Amounts : WithdrawToken(p, a, x)
    <2>1. reserve' \in [Assets -> Nat]
        BY <1>1, GrindersAssumption DEF WithdrawToken, TypeOK
    <2> QED BY <1>1, <2>1, TokenType DEF WithdrawToken, RestKept, TypeOK
<1>2. CASE LiquidateIdle
    <2>1. reserve' \in [Assets -> Nat] /\ vault' \in [Assets -> Nat]
        BY <1>2 DEF LiquidateIdle, TypeOK
    <2> QED BY <1>2, <2>1, TokenType DEF LiquidateIdle, RestKept, TypeOK
<1>3. ASSUME NEW c \in Minted, LiquidateCustodian(c)
      PROVE  TypeOK'
    <2>1. c \in Ids
        BY MintedIds
    <2>2. vault' \in [Assets -> Nat]
        BY <1>3, <2>1 DEF LiquidateCustodian, TypeOK
    <2>3. held' \in [Ids -> [Assets -> Nat]]
        BY <1>3, <2>1 DEF LiquidateCustodian, TypeOK
    <2> QED BY <1>3, <2>2, <2>3, TokenType DEF LiquidateCustodian, RestKept, TypeOK
<1>4. CASE \E a \in Assets, x \in Amounts : GraiDeposit(a, x)
    <2>1. reserve' \in [Assets -> Nat]
        BY <1>4, GrindersAssumption DEF GraiDeposit, TypeOK
    <2> QED BY <1>4, <2>1, TokenType DEF GraiDeposit, RestKept, TypeOK
<1>5. ASSUME NEW c \in Minted, NEW a \in Assets, NEW x \in Amounts, Donate(c, a, x)
      PROVE  TypeOK'
    <2>1. c \in Ids /\ x \in Nat
        BY MintedIds, GrindersAssumption
    <2>2. held' \in [Ids -> [Assets -> Nat]]
        BY <1>5, <2>1 DEF Donate, TypeOK
    <2> QED BY <1>5, <2>2, TokenType DEF Donate, RestKept, TypeOK
<1>6. CASE GraiLiquidate
    BY <1>6, TokenType DEF GraiLiquidate, RestKept, TypeOK, tokenVars
<1>7. CASE \E a \in Assets, x \in Amounts : GraiRedeem(a, x)
    <2>1. vault' \in [Assets -> Nat]
        BY <1>7, GrindersAssumption DEF GraiRedeem, TypeOK
    <2> QED BY <1>7, <2>1, TokenType DEF GraiRedeem, RestKept, TypeOK
<1> QED BY <1>1, <1>2, <1>3, <1>4, <1>5, <1>6, <1>7 DEF MovementStep

LEMMA OtherType ==
    ASSUME TypeOK, OtherStep
    PROVE  TypeOK'
<1>1. CASE Tick
    BY <1>1 DEF Tick, TypeOK, Minted, stateVars, tokenVars
<1>2. CASE SwapStep
    BY <1>2, SwapType DEF SwapStep
<1> QED BY <1>1, <1>2, OtherSteps, RegistryType, MovementType

\* No other step is a heartbeat.
LEMMA OtherHeartbeat ==
    ASSUME OtherStep
    PROVE  heartbeatAt' = heartbeatAt
<1>1. CASE RegistryStep
    BY <1>1 DEF RegistryStep, SetGrindPeriod, SetToreador, Mint, TransferCustodianNft, SetAssets,
                SellNft
<1>2. CASE SwapStep
    BY <1>2 DEF SwapStep, CustodianSwap
<1>3. CASE MovementStep
    BY <1>3 DEF MovementStep, WithdrawToken, LiquidateIdle, LiquidateCustodian, GraiDeposit,
                Donate, GraiLiquidate, GraiRedeem
<1>4. CASE Tick
    BY <1>4 DEF Tick
<1> QED BY <1>1, <1>2, <1>3, <1>4, OtherSteps

LEMMA GateInit == HistoryInit => GateInv
BY TypeInit DEF HistoryInit, GateInv, Init

LEMMA GateStep == GateInv /\ [HistoryNext]_historyVars => GateInv'
<1> SUFFICES ASSUME GateInv, [HistoryNext]_historyVars
             PROVE  GateInv'
    OBVIOUS
<1>1. CASE Operation /\ lastActive' = now
    BY <1>1, OperationType DEF GateInv
<1>2. CASE OtherStep /\ UNCHANGED lastActive
    BY <1>2, OtherType, OtherHeartbeat DEF GateInv
<1>3. CASE UNCHANGED historyVars
    BY <1>3 DEF GateInv, historyVars, vars, stateVars, tokenVars, TypeOK, Minted
<1> QED BY <1>1, <1>2, <1>3 DEF HistoryNext

LEMMA GateAlways == HistorySpec => []GateInv
BY GateInit, GateStep, PTL DEF HistorySpec

-------------------------------------------------------------------------------
(* The gate. *)

\* A fund that nobody ran for the longest period an owner may set can be liquidated: in
\* Grinders only allocate, deallocate, distribute and GRAI's revive write the heartbeat.
THEOREM IdleFundAlwaysLiquidable == HistorySpec => []IdleFundCanBeLiquidated
<1>1. GateInv => IdleFundCanBeLiquidated
    BY GrindersAssumption DEF GateInv, IdleFundCanBeLiquidated, Grinding, TypeOK
<1> QED BY <1>1, GateAlways, PTL

-------------------------------------------------------------------------------
(* The refinement. *)

\* Running the fund is Operate, PayYield or Close of Custody.
LEMMA OperationSimulates ==
    ASSUME TypeOK, Operation, lastActive' = now
    PROVE  Promise!Next
<1>1. ASSUME NEW p \in People, NEW c \in Minted, NEW a \in Assets, NEW x \in Amounts,
             Allocate(p, c, a, x) \/ CustodianDeallocate(p, c, a, x)
      PROVE  Promise!Operate
    BY <1>1 DEF Allocate, CustodianDeallocate, Promise!Operate
<1>2. ASSUME NEW p \in People, NEW c \in Minted, NEW a \in Assets, NEW x \in Amounts,
             NEW d \in Amounts \cup {0}, CustodianDistribute(p, c, a, x, d)
      PROVE  Promise!PayYield
    <2>1. d \in Nat
        BY GrindersAssumption
    <2>2. Promise!Grows
        BY <1>2, <2>1 DEF CustodianDistribute, TypeOK, Promise!Grows
    <2> QED BY <1>2, <2>2 DEF CustodianDistribute, Promise!PayYield
<1>3. CASE GraiRevive
    <2>1. Promise!Shrinks
        BY <1>3 DEF GraiRevive, TypeOK, Promise!Shrinks
    <2> QED BY <1>3, <2>1 DEF GraiRevive, Promise!Close, Promise!Next
<1> QED BY <1>1, <1>2, <1>3 DEF Operation, Promise!Next

\* Neither the registry nor a trade is seen by Custody.
LEMMA InvisibleSteps ==
    ASSUME RegistryStep \/ SwapStep
    PROVE  UNCHANGED <<now, liquidation, vault>>
<1>1. CASE RegistryStep
    BY <1>1 DEF RegistryStep, SetGrindPeriod, SetToreador, Mint, TransferCustodianNft, SetAssets,
                SellNft, tokenVars
<1>2. CASE SwapStep
    BY <1>2 DEF SwapStep, CustodianSwap
<1> QED BY <1>1, <1>2

\* The rest is Sweep, Open, PayOut, Tick or nothing.
LEMMA OtherSimulates ==
    ASSUME GateInv, OtherStep, UNCHANGED lastActive
    PROVE  Promise!Next \/ UNCHANGED Promise!custodyVars
<1> USE DEF Promise!Next
<1>1. CASE LiquidateIdle
    <2>1. Promise!Grows
        BY <1>1 DEF LiquidateIdle, GateInv, TypeOK, Promise!Grows
    <2> QED BY <1>1, <2>1 DEF LiquidateIdle, Promise!Sweep
<1>2. ASSUME NEW c \in Minted, LiquidateCustodian(c)
      PROVE  Promise!Next
    <2>1. c \in Ids
        BY MintedIds DEF GateInv
    <2>2. Promise!Grows
        BY <1>2, <2>1 DEF LiquidateCustodian, GateInv, TypeOK, Promise!Grows
    <2> QED BY <1>2, <2>2 DEF LiquidateCustodian, Promise!Sweep
<1>3. CASE GraiLiquidate
    <2>1. now > lastActive + MinPeriod
        BY <1>3, GrindersAssumption DEF GraiLiquidate, Grinding, GateInv, TypeOK
    <2> QED BY <1>3, <2>1 DEF GraiLiquidate, tokenVars, Promise!Open
<1>4. ASSUME NEW a \in Assets, NEW x \in Amounts, GraiRedeem(a, x)
      PROVE  Promise!Next
    <2>1. x \in Nat
        BY GrindersAssumption
    <2>2. Promise!Shrinks
        BY <1>4, <2>1 DEF GraiRedeem, GateInv, TypeOK, Promise!Shrinks
    <2> QED BY <1>4, <2>2 DEF GraiRedeem, Promise!PayOut
<1>5. CASE Tick
    BY <1>5 DEF Tick, tokenVars, Promise!Tick
<1>6. CASE RegistryStep \/ SwapStep
    BY <1>6, InvisibleSteps DEF Promise!custodyVars
<1>7. CASE \/ \E p \in People, a \in Assets, x \in Amounts : WithdrawToken(p, a, x)
           \/ \E a \in Assets, x \in Amounts : GraiDeposit(a, x)
           \/ \E c \in Minted, a \in Assets, x \in Amounts : Donate(c, a, x)
    BY <1>7 DEF WithdrawToken, GraiDeposit, Donate, Promise!custodyVars
<1> QED BY <1>1, <1>2, <1>3, <1>4, <1>5, <1>6, <1>7, OtherSteps DEF MovementStep

\* Grinders, with the owner, toreador, NFT holders and routers of any deployment, implements
\* what GRAI relies on: the gate stays shut for the shortest period after every operation,
\* vaults grow by yield outside and by sweeps inside a liquidation, and shrink by GRAI alone.
THEOREM CustodyImplemented == HistorySpec => CustodyKept
<1>1. HistoryInit => Promise!Init
    BY DEF HistoryInit, Init, Promise!Init
<1>2. GateInv /\ [HistoryNext]_historyVars => [Promise!Next]_(Promise!custodyVars)
    <2> SUFFICES ASSUME GateInv, [HistoryNext]_historyVars
                 PROVE  Promise!Next \/ UNCHANGED Promise!custodyVars
        OBVIOUS
    <2>1. CASE Operation /\ lastActive' = now
        BY <2>1, OperationSimulates DEF GateInv
    <2>2. CASE OtherStep /\ UNCHANGED lastActive
        BY <2>2, OtherSimulates
    <2>3. CASE UNCHANGED historyVars
        BY <2>3 DEF historyVars, vars, tokenVars, Promise!custodyVars
    <2> QED BY <2>1, <2>2, <2>3 DEF HistoryNext
<1> QED BY <1>1, <1>2, GateAlways, PTL DEF HistorySpec, CustodyKept, Promise!Spec

===============================================================================
