------------------------------- MODULE Grinders -------------------------------
(***************************************************************************)
(* The Grinders program: the reserve that deposits feed, the custodian     *)
(* wallets that trade it under an NFT, the heartbeat that keeps a          *)
(* liquidation from opening while the fund is run, and the permissionless  *)
(* sweeps that bring inventory to the GRAI vaults once one is open.        *)
(*                                                                         *)
(* GRAI is the environment here, reduced to the calls that touch Grinders  *)
(* (module Grai has the rest): deposits, liquidate, redeem, revive.        *)
(***************************************************************************)
EXTENDS Integers

CONSTANTS
    People,          \* signers
    Owner,           \* GraiState.owner
    Assets,          \* token mints
    Listed,          \* the mints GRAI lists: only these have a vault
    MinPeriod, MaxPeriod,      \* range set_grind_period accepts (1 and 30 days)
    GenesisPeriod,   \* DEFAULT_GRINDING_PERIOD
    PRICE_DECIMALS,  \* scale of a limit price
    \* --- the inputs and the bounds of an instance ---
    Periods,         \* periods an owner may try to set
    Amounts,         \* token amounts moved
    Limits,          \* limit prices of swaps
    MaxCustodians,   \* bound on the number of custodians
    MaxInventory,    \* bound on the tokens of one asset in reserve, wallets and vault
    MaxTime          \* bound on the clock

Labels == {"swap", "jupiter_gasless"}

Ids == 0..(MaxCustodians - 1)

ASSUME GrindersAssumption ==
    /\ Owner \in People
    /\ Listed \subseteq Assets
    /\ MinPeriod \in Nat /\ MaxPeriod \in Nat /\ GenesisPeriod \in MinPeriod..MaxPeriod
    /\ PRICE_DECIMALS \in Nat \ {0}
    /\ Periods \subseteq Nat /\ Amounts \subseteq Nat /\ Limits \subseteq Nat
    /\ MaxCustodians \in Nat /\ MaxInventory \in Nat /\ MaxTime \in Nat

VARIABLES
    now,
    toreador, period, heartbeatAt, nextId,   \* GrindersState
    custodian,                               \* CustodianState accounts
    nft,                                     \* live holder of each custodian's NFT
    reserve, held,                           \* token accounts of Grinders and its custodians
    liquidation, vault                       \* GraiState.liquidation and the GRAI vaults

stateVars == <<toreador, period, nextId>>
tokenVars == <<reserve, held, vault>>
vars == <<now, stateVars, heartbeatAt, custodian, nft, tokenVars, liquidation>>

CustodianState == [label : Labels, base : Assets, quote : Assets, nft_owner : People]

Minted == 0..(nextId - 1)

Init ==
    /\ now = 0
    /\ toreador \in People
    /\ period = GenesisPeriod /\ heartbeatAt = now /\ nextId = 0
    /\ custodian = [c \in {} |-> 0] /\ nft = [c \in {} |-> Owner]
    /\ reserve = [a \in Assets |-> 0]
    /\ held = [c \in Ids |-> [a \in Assets |-> 0]]
    /\ liquidation = FALSE /\ vault = [a \in Assets |-> 0]

-------------------------------------------------------------------------------
(* The owner and the registry. *)

\* Mutant: the period has no upper limit.
SetGrindPeriodUnlimited(p, g) ==
    /\ p = Owner
    /\ g >= MinPeriod
    /\ period' = g
    /\ UNCHANGED <<now, toreador, nextId, heartbeatAt, custodian, nft, tokenVars, liquidation>>

\* set_grind_period
SetGrindPeriod(p, g) ==
    /\ p = Owner
    /\ g >= MinPeriod /\ g <= MaxPeriod
    /\ period' = g
    /\ UNCHANGED <<now, toreador, nextId, heartbeatAt, custodian, nft, tokenVars, liquidation>>

\* set_toreador
SetToreador(p, t) ==
    /\ p = Owner
    /\ toreador' = t
    /\ UNCHANGED <<now, period, nextId, heartbeatAt, custodian, nft, tokenVars, liquidation>>

\* mint: a new custodian with its pair, its NFT goes to o.  Nobody asks whether GRAI
\* lists the pair.
Mint(p, o, l, b, q) ==
    /\ p = toreador
    /\ b # q
    /\ nextId < MaxCustodians                    \* bound
    /\ nextId' = nextId + 1
    /\ custodian' = [c \in 0..nextId |->
                       IF c = nextId THEN [label |-> l, base |-> b, quote |-> q, nft_owner |-> o]
                       ELSE custodian[c]]
    /\ nft' = [c \in 0..nextId |-> IF c = nextId THEN o ELSE nft[c]]
    /\ UNCHANGED <<now, toreador, period, heartbeatAt, tokenVars, liquidation>>

\* transfer_custodian_nft moves the NFT and the cached owner.
TransferCustodianNft(p, c, o) ==
    /\ nft[c] = p
    /\ nft' = [nft EXCEPT ![c] = o]
    /\ custodian' = [custodian EXCEPT ![c].nft_owner = o]
    /\ UNCHANGED <<now, stateVars, heartbeatAt, tokenVars, liquidation>>

\* execute_set_assets: an empty token account of each mint of the current pair must be
\* shown.  Only its owner and mint are checked, and anybody can open another account for
\* the custodian, so the inventory itself need not be gone.
SetAssets(p, c, b, q) ==
    /\ p = toreador
    /\ b # q
    /\ custodian' = [custodian EXCEPT ![c].base = b, ![c].quote = q]
    /\ UNCHANGED <<now, stateVars, heartbeatAt, nft, tokenVars, liquidation>>

-------------------------------------------------------------------------------
(* Inventory.  Any mint may be allocated; a liquidation stops the way back, but *)
(* neither allocation nor swaps.                                                *)

\* Mutant: the heartbeat is not renewed.
HeartbeatSkipped == UNCHANGED heartbeatAt

Heartbeat == heartbeatAt' = now

\* execute_allocate
Allocate(p, c, a, x) ==
    /\ p = toreador
    /\ x > 0 /\ reserve[a] >= x
    /\ reserve' = [reserve EXCEPT ![a] = @ - x]
    /\ held' = [held EXCEPT ![c][a] = @ + x]
    /\ Heartbeat
    /\ UNCHANGED <<now, stateVars, custodian, nft, vault, liquidation>>

CustodianDeallocate(p, c, a, x) ==
    /\ p = toreador
    /\ ~liquidation
    /\ x > 0 /\ held[c][a] >= x
    /\ held' = [held EXCEPT ![c][a] = @ - x]
    /\ reserve' = [reserve EXCEPT ![a] = @ + x]
    /\ Heartbeat
    /\ UNCHANGED <<now, stateVars, custodian, nft, vault, liquidation>>

\* custodian_distribute calls GRAI distribute: some part d of the yield stays in the
\* vault for lockers, the rest goes to the treasury.
CustodianDistribute(p, c, a, x, d) ==
    /\ p = toreador
    /\ ~liquidation
    /\ a \in Listed
    /\ x > 0 /\ held[c][a] >= x
    /\ d <= x
    /\ held' = [held EXCEPT ![c][a] = @ - x]
    /\ vault' = [vault EXCEPT ![a] = @ + d]
    /\ Heartbeat
    /\ UNCHANGED <<now, stateVars, custodian, nft, reserve, liquidation>>

Inventory(a, c) == reserve[a] + held[c][a] + vault[a]

QuotePerBase(baseDelta, quoteDelta) == (quoteDelta * PRICE_DECIMALS) \div baseDelta

\* execute_swap: the router, which the custodian signs for, sells db of base for dq of
\* quote, or buys.  Only the pair is measured: the router may also empty the accounts
\* of other mints (`taken`).
CustodianSwap(p, c, db, dq, sell, limit, taken) ==
    LET base  == custodian[c].base
        quote == custodian[c].quote
        price == QuotePerBase(db, dq)
        left  == [a \in Assets |-> IF a \in taken THEN 0 ELSE held[c][a]]
    IN  /\ nft[c] = p
        /\ custodian[c].label = "swap"
        /\ db > 0 /\ dq > 0                      \* else NoTrade
        /\ taken \cap {base, quote} = {}
        /\ IF sell
           THEN /\ held[c][base] >= db /\ price >= limit
                /\ Inventory(quote, c) + dq <= MaxInventory            \* bound
                /\ held' = [held EXCEPT ![c] = [left EXCEPT ![base] = @ - db, ![quote] = @ + dq]]
           ELSE /\ held[c][quote] >= dq /\ price <= limit
                /\ Inventory(base, c) + db <= MaxInventory             \* bound
                /\ held' = [held EXCEPT ![c] = [left EXCEPT ![base] = @ + db, ![quote] = @ - dq]]
        /\ UNCHANGED <<now, stateVars, heartbeatAt, custodian, nft, reserve, vault, liquidation>>

\* withdraw_token, in every phase.
WithdrawToken(p, a, x) ==
    /\ p = Owner
    /\ x > 0 /\ reserve[a] >= x
    /\ reserve' = [reserve EXCEPT ![a] = @ - x]
    /\ UNCHANGED <<now, stateVars, heartbeatAt, custodian, nft, held, vault, liquidation>>

-------------------------------------------------------------------------------
(* The sweeps of a liquidation. *)

\* grinders_grinding of GRAI
Grinding == now <= heartbeatAt + period

\* Mutant: the sweep waits for a stale heartbeat, which an allocation renews.
LiquidateIdleWhenStale ==
    /\ liquidation /\ ~Grinding
    /\ vault' = [a \in Assets |-> IF a \in Listed THEN vault[a] + reserve[a] ELSE vault[a]]
    /\ reserve' = [a \in Assets |-> IF a \in Listed THEN 0 ELSE reserve[a]]
    /\ UNCHANGED <<now, stateVars, heartbeatAt, custodian, nft, held, liquidation>>

\* liquidate_idle: the whole reserve of every listed mint.
LiquidateIdle ==
    /\ liquidation
    /\ vault' = [a \in Assets |-> IF a \in Listed THEN vault[a] + reserve[a] ELSE vault[a]]
    /\ reserve' = [a \in Assets |-> IF a \in Listed THEN 0 ELSE reserve[a]]
    /\ UNCHANGED <<now, stateVars, heartbeatAt, custodian, nft, held, liquidation>>

Pair(c) == {custodian[c].base, custodian[c].quote}

\* liquidate_custodian: base and quote of one custodian, through the reserve, to the
\* vaults.  Both vaults must exist.
LiquidateCustodian(c) ==
    /\ liquidation
    /\ Pair(c) \subseteq Listed
    /\ vault' = [a \in Assets |-> IF a \in Pair(c) THEN vault[a] + held[c][a] ELSE vault[a]]
    /\ held' = [held EXCEPT ![c] = [a \in Assets |-> IF a \in Pair(c) THEN 0 ELSE @[a]]]
    /\ UNCHANGED <<now, stateVars, heartbeatAt, custodian, nft, reserve, liquidation>>

-------------------------------------------------------------------------------
(* GRAI and the token program. *)

\* GRAI deposit pays the asset to the Grinders account.
GraiDeposit(a, x) ==
    /\ ~liquidation
    /\ a \in Listed /\ x > 0
    /\ \A c \in Ids : Inventory(a, c) + x <= MaxInventory              \* bound
    /\ reserve' = [reserve EXCEPT ![a] = @ + x]
    /\ UNCHANGED <<now, stateVars, heartbeatAt, custodian, nft, held, vault, liquidation>>

\* Anybody may send tokens to a custodian's account.
Donate(c, a, x) ==
    /\ Inventory(a, c) + x <= MaxInventory                             \* bound
    /\ held' = [held EXCEPT ![c][a] = @ + x]
    /\ UNCHANGED <<now, stateVars, heartbeatAt, custodian, nft, reserve, vault, liquidation>>

\* The NFT is sold outside the program; the cached owner stays behind.
SellNft(c, o) ==
    /\ nft' = [nft EXCEPT ![c] = o]
    /\ UNCHANGED <<now, stateVars, heartbeatAt, custodian, tokenVars, liquidation>>

\* execute_liquidate of GRAI, with a quorum.
GraiLiquidate ==
    /\ ~liquidation /\ ~Grinding
    /\ liquidation' = TRUE
    /\ UNCHANGED <<now, stateVars, heartbeatAt, custodian, nft, tokenVars>>

GraiRedeem(a, x) ==
    /\ liquidation
    /\ x > 0 /\ vault[a] >= x
    /\ vault' = [vault EXCEPT ![a] = @ - x]
    /\ UNCHANGED <<now, stateVars, heartbeatAt, custodian, nft, reserve, held, liquidation>>

\* execute_revive of GRAI: all but the claim reserve returns, with a heartbeat.
GraiRevive ==
    /\ liquidation
    /\ liquidation' = FALSE
    /\ \E kept \in [Assets -> 0..MaxInventory] :
         /\ \A a \in Assets : kept[a] <= vault[a]
         /\ vault' = kept
         /\ reserve' = [a \in Assets |-> reserve[a] + (vault[a] - kept[a])]
    /\ Heartbeat
    /\ UNCHANGED <<now, stateVars, custodian, nft, held>>

Tick ==
    /\ now < MaxTime                             \* bound
    /\ now' = now + 1
    /\ UNCHANGED <<stateVars, heartbeatAt, custodian, nft, tokenVars, liquidation>>

-------------------------------------------------------------------------------

\* The steps that count as running the fund.
Operation ==
    \/ \E p \in People, c \in Minted, a \in Assets, x \in Amounts :
         Allocate(p, c, a, x) \/ CustodianDeallocate(p, c, a, x)
    \/ \E p \in People, c \in Minted, a \in Assets, x \in Amounts, d \in Amounts \cup {0} :
         CustodianDistribute(p, c, a, x, d)
    \/ GraiRevive

OtherStep ==
    \/ \E p \in People, g \in Periods : SetGrindPeriod(p, g)
    \/ \E p \in People, t \in People : SetToreador(p, t)
    \/ \E p \in People, o \in People, l \in Labels, b \in Assets, q \in Assets : Mint(p, o, l, b, q)
    \/ \E p \in People, c \in Minted, o \in People : TransferCustodianNft(p, c, o)
    \/ \E p \in People, c \in Minted, b \in Assets, q \in Assets : SetAssets(p, c, b, q)
    \/ \E p \in People, c \in Minted, db \in Amounts, dq \in Amounts, sell \in BOOLEAN,
         l \in Limits, taken \in SUBSET Assets : CustodianSwap(p, c, db, dq, sell, l, taken)
    \/ \E p \in People, a \in Assets, x \in Amounts : WithdrawToken(p, a, x)
    \/ LiquidateIdle
    \/ \E c \in Minted : LiquidateCustodian(c)
    \/ \E a \in Assets, x \in Amounts : GraiDeposit(a, x)
    \/ \E c \in Minted, a \in Assets, x \in Amounts : Donate(c, a, x)
    \/ \E c \in Minted, o \in People : SellNft(c, o)
    \/ GraiLiquidate
    \/ \E a \in Assets, x \in Amounts : GraiRedeem(a, x)
    \/ Tick

Next == Operation \/ OtherStep

Spec == Init /\ [][Next]_vars

-------------------------------------------------------------------------------
(* Invariants. *)

\* Accounts have their types, balances stay non-negative, and a custodian's pair is two
\* different mints, so that no sweep forwards one balance twice.
TypeOK ==
    /\ now \in Nat /\ heartbeatAt \in Nat /\ period \in MinPeriod..MaxPeriod
    /\ toreador \in People /\ nextId \in 0..MaxCustodians
    /\ custodian \in [Minted -> CustodianState] /\ nft \in [Minted -> People]
    /\ \A c \in Minted : custodian[c].base # custodian[c].quote
    /\ reserve \in [Assets -> Nat] /\ vault \in [Assets -> Nat]
    /\ held \in [Ids -> [Assets -> Nat]]
    /\ liquidation \in BOOLEAN

===============================================================================
