--------------------------------- MODULE Grai ---------------------------------
(***************************************************************************)
(* The GRAI program: a share token (GRAI) minted against deposits at book  *)
(* value, an escrow in which shares are locked to earn dividends and voted *)
(* to open a liquidation, a bribe that buys votes out, per-asset dividend  *)
(* indices with a claim reserve in every vault, and the liquidation        *)
(* lifecycle liquidate -> redeem -> revive.                                *)
(*                                                                         *)
(* One action is one instruction: Solana runs an instruction atomically    *)
(* and rolls every write back when it fails, so a failing check is simply  *)
(* a disabled action.  The environment is the SPL token program (anybody   *)
(* may move, burn or donate tokens it owns), the price feeds, the clock    *)
(* and the Grinders program.                                               *)
(*                                                                         *)
(* Asset balances outside the program's own vaults are not tracked; the    *)
(* GRAI ledger is tracked in full.                                         *)
(***************************************************************************)
EXTENDS Tokenomics, Totals

CONSTANTS
    Users,            \* wallets that hold GRAI
    Assets,           \* token mints that may be listed
    Configs,          \* configurations an owner may try to set
    GenesisConfig,    \* the configuration written by initialize
    ShareSplits,      \* splits of the affiliate slice an owner may try: bps per level
    GenesisShares,    \* the split written by initialize
    MaxClaimTipBps, MaxUnlockPenaltyBps, MaxPoachFeeBps,   \* caps, scaled with BPS
    GrindingPeriod,   \* heartbeat validity kept by Grinders
    \* --- the inputs and the bounds of an instance ---
    DepositAmounts,   \* asset amounts deposited
    GraiAmounts,      \* GRAI amounts locked, unlocked, voted, bribed, redeemed
    YieldAmounts,     \* asset amounts distributed as yield
    ClaimAmounts,     \* amounts asked for by claim; a large one asks for everything
    SweepAmounts,     \* asset amounts sent straight to a vault
    SendAmounts,      \* GRAI amounts sent or strayed by their holder
    BurnAmounts,      \* GRAI amounts burnt by their holder through the token program
    PauseFlags,       \* pause flags passed to set_feed
    BribeFlags,       \* flags passed to set_bribeable
    Prices,           \* prices a feed may report; 0 is an unusable (stale) feed
    MaxSupply,        \* bound on the GRAI supply
    MaxVault,         \* bound on an asset vault
    MaxTime           \* bound on the clock

Outsider == "outsider"     \* any signer that holds no GRAI (a custodian)

VARIABLES
    config, shares,                               \* GraiState.config, affiliate_share_bps
    now, price,
    supply, wallet, graiVault, grindersGrai,      \* the GRAI mint and its accounts
    opened, locked, voted,                        \* Escrow accounts
    lockers, voters,                              \* the registries of GraiState
    totalLocked, totalVoted, totalValue,          \* GraiState totals
    liquidation, liquidationAt,
    asset, vault, treasury,                       \* AssetConfig and its two vaults
    position,                                     \* Position accounts
    heartbeatAt                                   \* GrindersState.heartbeat_at

ownerVars  == <<config, shares>>
graiVars   == <<supply, wallet, graiVault, grindersGrai>>
escrowVars == <<opened, locked, voted, lockers, voters, totalLocked, totalVoted>>
lockVars   == <<locked, voted, lockers, voters, totalLocked, totalVoted>>
assetVars  == <<asset, vault, treasury>>
liqVars    == <<liquidation, liquidationAt>>
envVars    == <<now, price, heartbeatAt>>
vars == <<ownerVars, envVars, graiVars, escrowVars, totalValue, liqVars, assetVars, position>>

ASSUME ParameterAssumption ==
    /\ IsFiniteSet(Users)
    /\ Outsider \notin Users
    /\ GrindingPeriod \in Nat
    /\ \A S \in {DepositAmounts, GraiAmounts, YieldAmounts, ClaimAmounts, SweepAmounts, SendAmounts,
               BurnAmounts, Prices} :
         S \subseteq Nat
    /\ PauseFlags \subseteq BOOLEAN /\ BribeFlags \subseteq BOOLEAN
    /\ MaxSupply \in Nat /\ MaxVault \in Nat /\ MaxTime \in Nat
    /\ ShareSplits \subseteq Nat \X Nat
    /\ GenesisShares \in ShareSplits
    /\ GenesisShares[1] + GenesisShares[2] = BPS

Config == [dividend_cut_bps : Nat, treasury_cut_bps : Nat, revenue_share_bps : Nat,
           claim_tip_bps : Nat, bribe_premium_bps : Nat, quorum_bps : Nat,
           unlock_penalty_bps : Nat, poach_fee_bps : Nat, liquidation_period : Nat,
           redeem_period : Nat, mint_premium_bps_per_year : Nat]

\* validate_protocol_config
ValidConfig(c) ==
    /\ c.dividend_cut_bps + c.treasury_cut_bps = BPS
    /\ c.dividend_cut_bps # 0
    /\ c.revenue_share_bps <= c.treasury_cut_bps
    /\ c.claim_tip_bps <= MaxClaimTipBps
    /\ c.quorum_bps >= 2 /\ c.quorum_bps < BPS
    /\ c.unlock_penalty_bps <= MaxUnlockPenaltyBps
    /\ c.poach_fee_bps <= MaxPoachFeeBps
    /\ 2 * c.bribe_premium_bps <= BPS
    /\ c.liquidation_period # 0 /\ c.redeem_period # 0
    /\ c.mint_premium_bps_per_year <= BPS

ASSUME ConfigAssumption ==
    /\ Configs \subseteq Config
    /\ GenesisConfig \in Configs
    /\ ValidConfig(GenesisConfig)
    /\ \A c \in Configs : c.mint_premium_bps_per_year \in PremiumRates
    /\ MaxUnlockPenaltyBps \in 0..BPS /\ MaxPoachFeeBps \in 0..BPS

AssetConfig == [listed : BOOLEAN, paused : BOOLEAN, bribeable : BOOLEAN,
                acc_share : Nat, total_claimable : Nat]

Position == [exists : BOOLEAN, debt : Nat, claimable : Nat]

\* A closed AssetConfig account: it keeps nothing.
Unlisted == [listed |-> FALSE, paused |-> FALSE, bribeable |-> FALSE,
             acc_share |-> 0, total_claimable |-> 0]

NoPosition == [exists |-> FALSE, debt |-> 0, claimable |-> 0]

Genesis == 1       \* the clock at initialize; also mint_premium_at

Listed == {a \in Assets : asset[a].listed}

-------------------------------------------------------------------------------
(* initialize, followed by the linking of the Grinders program. *)

Init ==
    /\ config = GenesisConfig /\ shares = GenesisShares
    /\ now = Genesis /\ heartbeatAt = Genesis
    /\ price \in [Assets -> Prices]
    /\ supply = 0 /\ wallet = [u \in Users |-> 0] /\ graiVault = 0 /\ grindersGrai = 0
    /\ opened = [u \in Users |-> FALSE]
    /\ locked = [u \in Users |-> 0] /\ voted = [u \in Users |-> 0]
    /\ lockers = [u \in Users |-> 0] /\ voters = [u \in Users |-> 0]
    /\ totalLocked = 0 /\ totalVoted = 0 /\ totalValue = 0
    /\ liquidation = FALSE /\ liquidationAt = 0
    /\ asset = [a \in Assets |-> Unlisted]
    /\ vault = [a \in Assets |-> 0] /\ treasury = [a \in Assets |-> 0]
    /\ position = [u \in Users |-> [a \in Assets |-> NoPosition]]

-------------------------------------------------------------------------------
(* Shared steps of the handlers. *)

\* The registries are unordered lists of accounts: how often each account occurs.
Push(list, u) == [list EXCEPT ![u] = @ + 1]

\* Mutant: the account stays in the list.
RemoveFromListSkipped(list, u) == list

RemoveFromList(list, u) == [list EXCEPT ![u] = SaturatingSub(@, 1)]

\* Mutant: the debt restarts from the old lock.
SettleOldDebt(pos, acc, old, new) ==
    LET base == IF pos.exists THEN old ELSE 0
    IN  [exists    |-> TRUE,
         debt      |-> Accumulated(old, acc),
         claimable |-> pos.claimable + SaturatingSub(Accumulated(base, acc), pos.debt)]

\* settle: realise what `old` locked GRAI has accrued, restart from `new`.
\* A position that did not exist accrues nothing.
Settle(pos, acc, old, new) ==
    LET base == IF pos.exists THEN old ELSE 0
    IN  [exists    |-> TRUE,
         debt      |-> Accumulated(new, acc),
         claimable |-> pos.claimable + SaturatingSub(Accumulated(base, acc), pos.debt)]

\* Mutant: settling after the lock has changed.
SettleLate(u, old, new) ==
    position' = [position EXCEPT ![u] =
                    [a \in Assets |-> IF asset[a].listed
                                      THEN Settle(@[a], asset[a].acc_share, new, new)
                                      ELSE @[a]]]

\* settle_all_pairs and settle_all_quads (which no caller asks to pay).
SettleAll(u, old, new) ==
    position' = [position EXCEPT ![u] =
                    [a \in Assets |-> IF asset[a].listed
                                      THEN Settle(@[a], asset[a].acc_share, old, new)
                                      ELSE @[a]]]

\* The u128 products of settle fit for every listed asset.
SettleFits(old, new) ==
    \A a \in Listed : /\ old * asset[a].acc_share <= MAX_U128
                      /\ new * asset[a].acc_share <= MAX_U128

\* Mutant: the shares never reach the vault.
PerformLockUnfunded(u, x) ==
    /\ x > 0
    /\ SettleFits(locked[u], locked[u] + x)
    /\ SettleAll(u, locked[u], locked[u] + x)
    /\ lockers' = IF locked[u] = 0 THEN Push(lockers, u) ELSE lockers
    /\ totalLocked' = totalLocked + x
    /\ locked' = [locked EXCEPT ![u] = @ + x]
    /\ UNCHANGED graiVault

\* perform_lock without its token transfer's source side.
PerformLock(u, x) ==
    /\ x > 0
    /\ SettleFits(locked[u], locked[u] + x)
    /\ SettleAll(u, locked[u], locked[u] + x)
    /\ lockers' = IF locked[u] = 0 THEN Push(lockers, u) ELSE lockers
    /\ totalLocked' = totalLocked + x
    /\ locked' = [locked EXCEPT ![u] = @ + x]
    /\ graiVault' = graiVault + x

\* Mutant: the vote outlives the lock.
ClampVoteSkipped(u, amount) == UNCHANGED <<totalVoted, voted, voters>>

\* clamp_vote after the lock has shrunk to `amount`.
ClampVote(u, amount) ==
    LET kept == MinOf(voted[u], amount)
    IN  /\ totalVoted >= voted[u] - kept
        /\ totalVoted' = totalVoted - (voted[u] - kept)
        /\ voted' = [voted EXCEPT ![u] = kept]
        /\ voters' = IF voted[u] > amount /\ kept = 0 THEN RemoveFromList(voters, u) ELSE voters

\* The lock of u shrinks by x: settle, totals, votes, registry.
ShrinkLock(u, x) ==
    /\ SettleFits(locked[u], locked[u] - x)
    /\ SettleAll(u, locked[u], locked[u] - x)
    /\ totalLocked >= x
    /\ totalLocked' = totalLocked - x
    /\ locked' = [locked EXCEPT ![u] = @ - x]
    /\ ClampVote(u, locked[u] - x)
    /\ lockers' = IF locked[u] = x THEN RemoveFromList(lockers, u) ELSE lockers

-------------------------------------------------------------------------------
(* Deposits and the escrow. *)

\* execute_deposit and execute_deposit_sol: the asset goes to Grinders, shares are
\* minted at book value less the mint premium, and optionally locked at once.
Deposit(u, a, x, lock) ==
    LET value == UsdValue(x, price[a])
        out   == PreviewDeposit(value, supply, totalValue,
                                config.mint_premium_bps_per_year, Genesis, now)
    IN  /\ x > 0
        /\ ~liquidation
        /\ asset[a].listed /\ ~asset[a].paused
        /\ price[a] > 0 /\ value > 0
        /\ supply > 0 => totalValue > 0           \* else InsolventBook
        /\ out > 0
        /\ supply + out <= MaxSupply             \* bound
        /\ supply' = supply + out
        /\ totalValue' = totalValue + value
        /\ IF lock
           THEN /\ PerformLock(u, out)
                /\ UNCHANGED wallet
           ELSE /\ wallet' = [wallet EXCEPT ![u] = @ + out]
                /\ UNCHANGED <<position, lockers, totalLocked, locked, graiVault>>
        /\ opened' = [opened EXCEPT ![u] = TRUE]
        /\ UNCHANGED <<ownerVars, envVars, grindersGrai, voted, voters, totalVoted,
                       liqVars, assetVars>>

\* execute_lock
Lock(u, x) ==
    /\ ~liquidation
    /\ wallet[u] >= x
    /\ PerformLock(u, x)
    /\ opened' = [opened EXCEPT ![u] = TRUE]
    /\ wallet' = [wallet EXCEPT ![u] = @ - x]
    /\ UNCHANGED <<ownerVars, envVars, supply, grindersGrai, voted, voters, totalVoted,
                   totalValue, liqVars, assetVars>>

\* execute_unlock: the penalty goes to Grinders, the rest to the wallet.
Unlock(u, x) ==
    LET penalty == UnlockPenalty(x, config.unlock_penalty_bps)
    IN  /\ ~liquidation
        /\ x > 0 /\ x <= locked[u]
        /\ UnlockAllowed(x, config.unlock_penalty_bps)
        /\ ShrinkLock(u, x)
        /\ graiVault >= x
        /\ graiVault' = graiVault - x
        /\ wallet' = [wallet EXCEPT ![u] = @ + (x - penalty)]
        /\ grindersGrai' = grindersGrai + penalty
        /\ UNCHANGED <<ownerVars, envVars, supply, opened, totalValue, liqVars, assetVars>>

\* execute_vote: lock the shortfall from the wallet, then perform_vote.
Vote(u, x) ==
    LET shortfall == SaturatingSub(voted[u] + x, locked[u])
    IN  /\ x > 0
        /\ ~liquidation
        /\ IF shortfall > 0
           THEN /\ wallet[u] >= shortfall
                /\ PerformLock(u, shortfall)
                /\ wallet' = [wallet EXCEPT ![u] = @ - shortfall]
           ELSE /\ SettleFits(locked[u], locked[u])
                /\ SettleAll(u, locked[u], locked[u])
                /\ UNCHANGED <<lockers, totalLocked, locked, graiVault, wallet>>
        /\ opened' = [opened EXCEPT ![u] = TRUE]
        /\ voters' = IF voted[u] = 0 THEN Push(voters, u) ELSE voters
        /\ totalVoted' = totalVoted + x
        /\ voted' = [voted EXCEPT ![u] = @ + x]
        /\ UNCHANGED <<ownerVars, envVars, supply, grindersGrai, totalValue, liqVars, assetVars>>

\* Index and reserve of asset a after a dividend cut.
Credited(a, d) ==
    [asset EXCEPT ![a].acc_share = d.acc, ![a].total_claimable = @ + d.reserved]

\* execute_bribe: b buys x of u's voted shares for the quoted ask in asset a.  The
\* quote is taken before the vote totals move, the dividend is spread over the
\* locks that remain.
Bribe(b, u, a, x) ==
    LET quote == PreviewBribe(x, supply, totalValue, totalVoted, config, price[a])
        pool  == BribeCutPool(quote)
        cut   == DividendCut(pool, config)
        d     == DistributeDividend(asset[a].acc_share, cut, totalLocked - x)
        out   == (pool - cut) + d.dust + (quote.ask - pool)
    IN  /\ ~liquidation
        /\ x > 0 /\ x <= voted[u]
        /\ asset[a].listed /\ asset[a].bribeable
        /\ price[a] > 0
        /\ quote.ask > 0
        /\ x <= locked[u]
        /\ SettleFits(locked[u], locked[u] - x)
        /\ SettleAll(u, locked[u], locked[u] - x)
        /\ totalVoted >= x /\ totalLocked >= x /\ graiVault >= x
        /\ voted' = [voted EXCEPT ![u] = @ - x]
        /\ locked' = [locked EXCEPT ![u] = @ - x]
        /\ totalVoted' = totalVoted - x
        /\ totalLocked' = totalLocked - x
        /\ graiVault' = graiVault - x
        /\ wallet' = [wallet EXCEPT ![b] = @ + x]
        /\ voters' = IF voted[u] = x THEN RemoveFromList(voters, u) ELSE voters
        /\ lockers' = IF locked[u] = x THEN RemoveFromList(lockers, u) ELSE lockers
        /\ DistributeFits(asset[a].acc_share, cut, totalLocked - x)
        /\ asset' = Credited(a, d)
        /\ vault[a] + quote.ask <= MaxVault      \* bounds
        /\ treasury[a] + quote.ask <= MaxVault
        /\ vault' = [vault EXCEPT ![a] = @ + quote.ask - out]
        /\ treasury' = [treasury EXCEPT ![a] = @ + (pool - cut) + d.dust]
        /\ UNCHANGED <<ownerVars, envVars, supply, grindersGrai, opened, totalValue, liqVars>>

\* The payment of execute_poach: b buys a referral slot from s at price x (module
\* Referrals has the books); the fee goes to Grinders.
PoachPayment(b, s, x) ==
    LET fee == BpsCeil(x, config.poach_fee_bps)
    IN  /\ ~liquidation
        /\ b # s
        /\ x > 0 /\ x <= wallet[b]
        /\ wallet' = [wallet EXCEPT ![b] = @ - x, ![s] = @ + (x - fee)]
        /\ grindersGrai' = grindersGrai + fee
        /\ UNCHANGED <<ownerVars, envVars, supply, graiVault, escrowVars, totalValue, liqVars,
                       assetVars, position>>

-------------------------------------------------------------------------------
(* Dividends. *)

\* execute_distribute: signer c brings y of asset a as yield.  Works while the
\* asset is paused.  The signer's Position is created (init_if_needed) when missing.
Distribute(c, a, y) ==
    LET cut == DividendCut(y, config)
        d   == DistributeDividend(asset[a].acc_share, cut, totalLocked)
    IN  /\ y > 0
        /\ ~liquidation
        /\ asset[a].listed
        /\ DistributeFits(asset[a].acc_share, cut, totalLocked)
        /\ asset' = Credited(a, d)
        /\ vault[a] + y <= MaxVault              \* bounds
        /\ treasury[a] + y <= MaxVault
        /\ vault' = [vault EXCEPT ![a] = @ + cut - d.dust]
        /\ treasury' = [treasury EXCEPT ![a] = @ + (y - cut) + d.dust]
        /\ position' = IF c \in Users THEN [position EXCEPT ![c][a].exists = TRUE] ELSE position
        /\ UNCHANGED <<ownerVars, envVars, graiVars, escrowVars, totalValue, liqVars>>

\* What distribute_claim_treasury may pay out of the treasury vault behind a claim:
\* nothing when the vault cannot cover the gross share; otherwise every affiliate
\* level is paid, folded into the beneficiar's net, or retained (unresolved NFT),
\* and the net is paid unless the beneficiar's account is missing.
TreasuryPayouts(a, claimed) ==
    LET gross    == GrossProfitShare(claimed, config)
        revenue  == RevenueShare(claimed, config)
        s1       == BpsOf(revenue, shares[1])
        s2       == BpsOf(revenue, shares[2])
        subsets  == {0, s1, s2, s1 + s2}
    IN  IF treasury[a] < gross THEN {0} ELSE subsets \cup {gross - r : r \in subsets}

\* Mutant: the debt restarts from an empty lock.
ClaimPositionDebtless(u, a) == Settle(position[u][a], asset[a].acc_share, locked[u], 0)

\* The settled position of u and what execute_claim can pay of it.
ClaimPosition(u, a) == Settle(position[u][a], asset[a].acc_share, locked[u], locked[u])

Claimed(u, a, x) ==
    MinOf(MinOf(x, ClaimPosition(u, a).claimable), MinOf(vault[a], asset[a].total_claimable))

\* execute_claim: settle, pay at most x, release the reserve, pay the treasury
\* shares.  Allowed in every phase; the price is read only when something is paid.
Claim(u, a, x) ==
    LET pos     == ClaimPosition(u, a)
        claimed == Claimed(u, a, x)
    IN  /\ asset[a].listed
        /\ opened[u]
        /\ locked[u] * asset[a].acc_share <= MAX_U128
        /\ claimed > 0 => price[a] > 0
        /\ position' = [position EXCEPT ![u][a] = [pos EXCEPT !.claimable = @ - claimed]]
        /\ vault' = [vault EXCEPT ![a] = @ - claimed]
        /\ asset' = [asset EXCEPT ![a].total_claimable = SaturatingSub(@, claimed)]
        /\ \E paid \in TreasuryPayouts(a, claimed) :
             treasury' = [treasury EXCEPT ![a] = @ - paid]
        /\ UNCHANGED <<ownerVars, envVars, graiVars, escrowVars, totalValue, liqVars>>

\* execute_claim_all: the same for every listed asset, all or nothing.
ClaimAll(u) ==
    LET claimed == [a \in Assets |->
                      IF asset[a].listed THEN Claimed(u, a, ClaimPosition(u, a).claimable) ELSE 0]
    IN  /\ opened[u]
        /\ \A a \in Listed : locked[u] * asset[a].acc_share <= MAX_U128
        /\ \A a \in Assets : claimed[a] > 0 => price[a] > 0
        /\ position' = [position EXCEPT ![u] =
                          [a \in Assets |->
                             IF asset[a].listed
                             THEN [ClaimPosition(u, a) EXCEPT !.claimable = @ - claimed[a]]
                             ELSE @[a]]]
        /\ vault' = [a \in Assets |-> vault[a] - claimed[a]]
        /\ asset' = [a \in Assets |->
                       [asset[a] EXCEPT !.total_claimable = SaturatingSub(@, claimed[a])]]
        /\ \E paid \in [Assets -> UNION {TreasuryPayouts(a, claimed[a]) : a \in Assets}] :
             /\ \A a \in Assets : paid[a] \in TreasuryPayouts(a, claimed[a])
             /\ treasury' = [a \in Assets |-> treasury[a] - paid[a]]
        /\ UNCHANGED <<ownerVars, envVars, graiVars, escrowVars, totalValue, liqVars>>

-------------------------------------------------------------------------------
(* Liquidation. *)

Grinding == now <= heartbeatAt + GrindingPeriod

RedeemOpensAt == liquidationAt + config.liquidation_period
ReviveOpensAt == RedeemOpensAt + config.redeem_period

\* execute_liquidate: quorum and a stale heartbeat; stray GRAI goes to the caller.
Liquidate(u) ==
    LET dead == DeadGrai(graiVault, totalLocked)
    IN  /\ ~liquidation
        /\ HasQuorum(totalVoted, supply, config.quorum_bps)
        /\ ~Grinding
        /\ now + config.liquidation_period + config.redeem_period <= MaxTime   \* bound
        /\ graiVault' = graiVault - dead
        /\ wallet' = [wallet EXCEPT ![u] = @ + dead]
        /\ liquidation' = TRUE
        /\ liquidationAt' = now
        /\ UNCHANGED <<ownerVars, envVars, supply, grindersGrai, escrowVars, totalValue,
                       assetVars, position>>

\* execute_redeem: burn from the wallet first, then from the lock; pay the pro-rata
\* part of every vault above its claim reserve, at the supply before the burn.
Redeem(u, x) ==
    LET walletBurn == MinOf(x, wallet[u])
        escrowBurn == x - walletBurn
        value      == LiquidateValue(x, supply, totalValue)
    IN  /\ liquidation
        /\ now >= RedeemOpensAt
        /\ x > 0 /\ x <= wallet[u] + locked[u]
        /\ value > 0
        /\ totalValue >= value
        /\ opened' = [opened EXCEPT ![u] = TRUE]
        /\ IF escrowBurn > 0
           THEN ShrinkLock(u, escrowBurn)
           ELSE /\ SettleFits(locked[u], locked[u])
                /\ SettleAll(u, locked[u], locked[u])
                /\ UNCHANGED lockVars
        /\ wallet' = [wallet EXCEPT ![u] = @ - walletBurn]
        /\ graiVault >= escrowBurn
        /\ graiVault' = graiVault - escrowBurn
        /\ supply' = supply - x
        /\ totalValue' = totalValue - value
        /\ vault' = [a \in Assets |->
                       IF asset[a].listed
                       THEN vault[a] - LiquidateShare(
                              RedeemableBalance(vault[a], asset[a].total_claimable), x, supply)
                       ELSE vault[a]]
        /\ UNCHANGED <<ownerVars, envVars, grindersGrai, liqVars, asset, treasury>>

\* Mutant: a fund whose last share was redeemed is not revived.
ReviveWithSupply ==
    /\ liquidation /\ liquidationAt # 0 /\ supply > 0
    /\ now >= ReviveOpensAt
    /\ vault' = [a \in Assets |->
                   IF asset[a].listed
                   THEN vault[a] - RedeemableBalance(vault[a], asset[a].total_claimable)
                   ELSE vault[a]]
    /\ liquidation' = FALSE
    /\ liquidationAt' = 0
    /\ heartbeatAt' = now
    /\ UNCHANGED <<ownerVars, now, price, graiVars, escrowVars, totalValue, asset, treasury, position>>

\* execute_revive: anybody closes the liquidation after the redeem window; what is
\* not reserved goes back to Grinders, whose heartbeat is refreshed.
Revive ==
    /\ liquidation /\ liquidationAt # 0
    /\ now >= ReviveOpensAt
    /\ vault' = [a \in Assets |->
                   IF asset[a].listed
                   THEN vault[a] - RedeemableBalance(vault[a], asset[a].total_claimable)
                   ELSE vault[a]]
    /\ totalValue' = IF supply = 0 THEN 0 ELSE totalValue
    /\ liquidation' = FALSE
    /\ liquidationAt' = 0
    /\ heartbeatAt' = now
    /\ UNCHANGED <<ownerVars, now, price, graiVars, escrowVars, asset, treasury, position>>

-------------------------------------------------------------------------------
(* The owner. *)

\* Mutant: the periods can be changed while a liquidation is open.
SetConfigAnytime(c) ==
    /\ c.dividend_cut_bps = config.dividend_cut_bps
    /\ c.treasury_cut_bps = config.treasury_cut_bps
    /\ ValidConfig(c)
    /\ config' = c
    /\ UNCHANGED <<shares, envVars, graiVars, escrowVars, totalValue, liqVars, assetVars, position>>

\* execute_set_config: cuts are immutable, everything else is validated.
SetConfig(c) ==
    /\ ~liquidation
    /\ c.dividend_cut_bps = config.dividend_cut_bps
    /\ c.treasury_cut_bps = config.treasury_cut_bps
    /\ ValidConfig(c)
    /\ config' = c
    /\ UNCHANGED <<shares, envVars, graiVars, escrowVars, totalValue, liqVars, assetVars, position>>

\* execute_set_revenue_share_bps: the split of the affiliate slice over the two levels.
SetRevenueShareBps(split) ==
    /\ ~liquidation
    /\ split[1] + split[2] = BPS
    /\ shares' = split
    /\ UNCHANGED <<config, envVars, graiVars, escrowVars, totalValue, liqVars, assetVars, position>>

\* execute_set_feed, first case: list.  The AssetConfig is created from nothing.
ListAsset(a, paused) ==
    /\ ~asset[a].listed
    /\ asset' = [asset EXCEPT ![a] = [Unlisted EXCEPT !.listed = TRUE, !.paused = paused]]
    /\ UNCHANGED <<ownerVars, envVars, graiVars, escrowVars, totalValue, liqVars, vault, treasury,
                   position>>

\* execute_set_feed on a listed asset: an unpaused one only takes the flag, a paused
\* one also takes the new feed (whose price shows up as the next report).
ReplaceFeed(a, paused) ==
    /\ asset[a].listed
    /\ asset' = [asset EXCEPT ![a].paused = paused]
    /\ UNCHANGED <<ownerVars, envVars, graiVars, escrowVars, totalValue, liqVars, vault, treasury,
                   position>>

\* execute_set_feed with FEED_NONE on a paused asset: delist.  Positions survive.
DelistAsset(a) ==
    /\ asset[a].listed /\ asset[a].paused
    /\ ~liquidation
    /\ asset[a].total_claimable = 0 /\ vault[a] = 0 /\ treasury[a] = 0
    /\ asset' = [asset EXCEPT ![a] = Unlisted]
    /\ UNCHANGED <<ownerVars, envVars, graiVars, escrowVars, totalValue, liqVars, vault, treasury,
                   position>>

\* execute_set_bribeable
SetBribeable(a, flag) ==
    /\ ~liquidation
    /\ asset[a].listed
    /\ asset' = [asset EXCEPT ![a].bribeable = flag]
    /\ UNCHANGED <<ownerVars, envVars, graiVars, escrowVars, totalValue, liqVars, vault, treasury,
                   position>>

-------------------------------------------------------------------------------
(* The environment: token program, price feeds, clock, Grinders. *)

\* A holder sends GRAI to another wallet, or strays it to the program's own vault.
TransferGrai(u, v, x) ==
    /\ x <= wallet[u] /\ u # v
    /\ wallet' = [wallet EXCEPT ![u] = @ - x, ![v] = @ + x]
    /\ UNCHANGED <<ownerVars, envVars, supply, graiVault, grindersGrai, escrowVars, totalValue,
                   liqVars, assetVars, position>>

StrayGrai(u, x) ==
    /\ x <= wallet[u]
    /\ wallet' = [wallet EXCEPT ![u] = @ - x]
    /\ graiVault' = graiVault + x
    /\ UNCHANGED <<ownerVars, envVars, supply, grindersGrai, escrowVars, totalValue, liqVars,
                   assetVars, position>>

BurnGrai(u, x) ==
    /\ x <= wallet[u]
    /\ wallet' = [wallet EXCEPT ![u] = @ - x]
    /\ supply' = supply - x
    /\ UNCHANGED <<ownerVars, envVars, graiVault, grindersGrai, escrowVars, totalValue, liqVars,
                   assetVars, position>>

\* Grinders withdraw_token on its GRAI account: collected penalties leave to a wallet.
WithdrawGrai(u, x) ==
    /\ x <= grindersGrai
    /\ grindersGrai' = grindersGrai - x
    /\ wallet' = [wallet EXCEPT ![u] = @ + x]
    /\ UNCHANGED <<ownerVars, envVars, supply, graiVault, escrowVars, totalValue, liqVars,
                   assetVars, position>>

\* Tokens arrive in an asset vault outside the program: a Grinders sweep during
\* liquidation (liquidate_idle, liquidate_custodian) or a plain donation.
SweepIn(a, x) ==
    /\ vault[a] + x <= MaxVault                  \* bound
    /\ vault' = [vault EXCEPT ![a] = @ + x]
    /\ UNCHANGED <<ownerVars, envVars, graiVars, escrowVars, totalValue, liqVars, asset, treasury,
                   position>>

\* A toreador or custodian operation refreshes the heartbeat.
GrindersHeartbeat ==
    /\ heartbeatAt' = now
    /\ UNCHANGED <<ownerVars, now, price, graiVars, escrowVars, totalValue, liqVars, assetVars,
                   position>>

FeedReport(a, p) ==
    /\ price' = [price EXCEPT ![a] = p]
    /\ UNCHANGED <<ownerVars, now, heartbeatAt, graiVars, escrowVars, totalValue, liqVars, assetVars,
                   position>>

Tick ==
    /\ now < MaxTime                             \* bound
    /\ now' = now + 1
    /\ UNCHANGED <<ownerVars, price, heartbeatAt, graiVars, escrowVars, totalValue, liqVars,
                   assetVars, position>>

-------------------------------------------------------------------------------

Next ==
    \/ \E u \in Users, a \in Assets, x \in DepositAmounts, lock \in BOOLEAN : Deposit(u, a, x, lock)
    \/ \E u \in Users, x \in GraiAmounts : Lock(u, x)
    \/ \E u \in Users, x \in GraiAmounts : Unlock(u, x)
    \/ \E u \in Users, x \in GraiAmounts : Vote(u, x)
    \/ \E b \in Users, u \in Users, a \in Assets, x \in GraiAmounts : Bribe(b, u, a, x)
    \/ \E b \in Users, s \in Users, x \in SendAmounts : PoachPayment(b, s, x)
    \/ \E c \in Users \cup {Outsider}, a \in Assets, y \in YieldAmounts : Distribute(c, a, y)
    \/ \E u \in Users, a \in Assets, x \in ClaimAmounts : Claim(u, a, x)
    \/ \E u \in Users : ClaimAll(u)
    \/ \E u \in Users : Liquidate(u)
    \/ \E u \in Users, x \in GraiAmounts : Redeem(u, x)
    \/ Revive
    \/ \E c \in Configs : SetConfig(c)
    \/ \E split \in ShareSplits : SetRevenueShareBps(split)
    \/ \E a \in Assets, paused \in PauseFlags : ListAsset(a, paused)
    \/ \E a \in Assets, paused \in PauseFlags : ReplaceFeed(a, paused)
    \/ \E a \in Assets : DelistAsset(a)
    \/ \E a \in Assets, flag \in BribeFlags : SetBribeable(a, flag)
    \/ \E u \in Users, v \in Users, x \in SendAmounts : TransferGrai(u, v, x)
    \/ \E u \in Users, x \in SendAmounts : StrayGrai(u, x)
    \/ \E u \in Users, x \in BurnAmounts : BurnGrai(u, x)
    \/ \E u \in Users, x \in GraiAmounts : WithdrawGrai(u, x)
    \/ \E a \in Assets, x \in SweepAmounts : SweepIn(a, x)
    \/ GrindersHeartbeat
    \/ \E a \in Assets, p \in Prices : FeedReport(a, p)
    \/ Tick

Spec == Init /\ [][Next]_vars

-------------------------------------------------------------------------------
(* Derived quantities. *)

\* pending_dividend: what a claim would find on u's position in a.
Pending(u, a) ==
    IF position[u][a].exists
    THEN Settle(position[u][a], asset[a].acc_share, locked[u], locked[u]).claimable
    ELSE 0

\* The part of a vault that redeem and revive may touch.
Redeemable(a) == RedeemableBalance(vault[a], asset[a].total_claimable)

-------------------------------------------------------------------------------
(* Invariants. *)

OwnerType ==
    /\ config \in Configs /\ ValidConfig(config)
    /\ shares \in ShareSplits /\ shares[1] + shares[2] = BPS

EnvType ==
    /\ now \in Nat /\ now >= Genesis /\ heartbeatAt \in Nat
    /\ price \in [Assets -> Prices]

GraiType ==
    /\ supply \in Nat /\ graiVault \in Nat /\ grindersGrai \in Nat
    /\ wallet \in [Users -> Nat]

EscrowType ==
    /\ opened \in [Users -> BOOLEAN]
    /\ locked \in [Users -> Nat] /\ voted \in [Users -> Nat]
    /\ lockers \in [Users -> Nat] /\ voters \in [Users -> Nat]
    /\ totalLocked \in Nat /\ totalVoted \in Nat

BookType == totalValue \in Nat /\ liquidation \in BOOLEAN /\ liquidationAt \in Nat

AssetType ==
    /\ asset \in [Assets -> AssetConfig]
    /\ vault \in [Assets -> Nat] /\ treasury \in [Assets -> Nat]

PositionType == position \in [Users -> [Assets -> Position]]

\* Every account field stays in the range of its unsigned type: no subtraction of the
\* handlers (redeem's burn and payouts, the treasury's payouts, clamp_vote) goes below zero.
TypeOK ==
    /\ OwnerType
    /\ EnvType
    /\ GraiType
    /\ EscrowType
    /\ BookType
    /\ AssetType
    /\ PositionType

\* Every listed vault holds at least its claim reserve: distribute and bribe reserve no
\* more than they leave in the vault, and claim, redeem and revive, in any order, never
\* pay out of another's reserve (dividend.rs distribute_dividend, vault.rs redeemable_balance).
ReserveBacked == \A a \in Listed : asset[a].total_claimable <= vault[a]

\* The totals of GraiState are the sums over the Escrow accounts, and nobody votes more
\* than the lock, through lock, unlock, vote, bribe and redeem (clamp_vote included).
EscrowsAccounted ==
    /\ totalLocked = Total(locked)
    /\ totalVoted = Total(voted)
    /\ \A u \in Users : voted[u] <= locked[u]

\* The registries list exactly the accounts with an open lock, and those with an open
\* vote, each once (state.rs remove_from_list removes a single occurrence).
RegistriesExact ==
    \A u \in Users : /\ lockers[u] = IF locked[u] > 0 THEN 1 ELSE 0
                     /\ voters[u] = IF voted[u] > 0 THEN 1 ELSE 0

\* The GRAI vault can return every lock, also after liquidate has scooped what it takes
\* for stray GRAI (redeem.rs execute_liquidate).
VaultCoversLocks == totalLocked <= graiVault

\* Every minted share sits in a wallet, in the vault or with Grinders.
SupplyConserved == supply = Total(wallet) + graiVault + grindersGrai

\* Live shares always have a book, so the InsolventBook error of deposit never fires;
\* floor rounding in redeem never eats the last unit of book while shares remain.
SharesBacked == supply > 0 => totalValue > 0

\* Settling never overflows for a lock that exists: distribute bounds the index by
\* total_locked and lock by the new lock, so unlock, claim and redeem cannot be blocked
\* by the u128 products of settle (dividend.rs).
NoLockerTrapped ==
    \A u \in Users, a \in Listed : locked[u] * asset[a].acc_share <= MAX_U128

\* Whatever the history, a holder can leave: an unlock of an allowed amount, a claim of
\* accrued dividends against a live feed, and in the redeem window a redeem of anything
\* with book value, are never refused by a counter, a vault balance or an overflow.
ExitsNeverBlocked ==
    \A u \in Users :
      /\ \A x \in GraiAmounts :
           /\ (~liquidation /\ 0 < x /\ x <= locked[u]
                 /\ UnlockAllowed(x, config.unlock_penalty_bps)) => ENABLED Unlock(u, x)
           /\ (liquidation /\ now >= RedeemOpensAt /\ 0 < x /\ x <= wallet[u] + locked[u]
                 /\ LiquidateValue(x, supply, totalValue) > 0) => ENABLED Redeem(u, x)
      /\ \A a \in Listed, x \in ClaimAmounts :
           opened[u] /\ price[a] > 0 => ENABLED Claim(u, a, x)

\* Minting and redeeming at once never yields more book value than was put in, whatever
\* donations, burns and premiums came before (tokenomics.rs preview_deposit, liquidate_value).
NoRoundTripGain ==
    \A a \in Assets, x \in DepositAmounts :
      LET value == UsdValue(x, price[a])
          out   == PreviewDeposit(value, supply, totalValue,
                                  config.mint_premium_bps_per_year, Genesis, now)
      IN  totalValue > 0 \/ supply = 0 =>
            LiquidateValue(out, supply + out, totalValue + value) <= value

-------------------------------------------------------------------------------
(* Action properties. *)

\* No step lowers the book value of a share that exists before and after it: deposits
\* mint at or above book, redeem removes at most the pro-rata book.
BookPerShareNeverFalls ==
    [][supply > 0 /\ supply' > 0 => totalValue' * supply >= totalValue * supply']_vars

\* While a liquidation stays open no step lowers a remaining share's claim on any listed
\* vault: redeemers take the floor of their part, and claims draw on the reserve only.
BasketPerShareNeverFalls ==
    [][liquidation /\ liquidation' =>
         \A a \in Listed : Redeemable(a)' * supply >= Redeemable(a) * supply']_vars

\* Accrued dividends survive every lock, unlock, vote, bribe, redeem, liquidation and
\* revive: a position's pending amount falls only by a payout that left the vault and
\* released the same amount of reserve (settle before every change of the lock).
DividendsNeverLost ==
    [][\A u \in Users, a \in Assets :
         asset[a].listed /\ asset'[a].listed /\ Pending(u, a)' < Pending(u, a) =>
           LET paid == Pending(u, a) - Pending(u, a)'
           IN  /\ vault'[a] = vault[a] - paid
               /\ asset'[a].total_claimable = asset[a].total_claimable - paid]_vars

\* The dates of a liquidation are fixed when it opens: nobody, the owner included, moves
\* the redeem window, and it closes only after it has run in full (set_config is refused
\* while a liquidation is open, liquidate cannot be called again).
WindowHonoured ==
    [][liquidation => IF liquidation'
                      THEN RedeemOpensAt' = RedeemOpensAt /\ ReviveOpensAt' = ReviveOpensAt
                      ELSE now >= ReviveOpensAt]_vars

===============================================================================
