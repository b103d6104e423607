# A TLA+ verification project for grindurus-solana

TLA+ modules of the on-chain programs under `programs/`, TLC configurations that model-check
them on small instances, and TLAPS proofs of their main safety properties for every value of
the constants. `PROJECT.json` maps each definition to the lines it models and lists runs,
mutations, hazards, findings and theorems.

Run from this directory: `tlc -workers 2 -config X.cfg M` (the table below pairs them) and
`tlapm M.tla` for the eight `*Proofs` modules.

## 1. The system

Three programs hold the protocol; a fourth keeps prices for assets without an oracle.

| Part | State | Operations |
| --- | --- | --- |
| **GRAI** escrow (`deposit`, `lock`, `vote`, `unlock`, `state`) | `GraiState` totals, `Escrow` per wallet, lists `lockers`/`voters`, GRAI mint and vault | deposit mints shares at book value; locks earn dividends and can vote; unlock pays a penalty |
| **GRAI** dividends (`dividend`, `distribute`, `claim`) | `AssetConfig.acc_share`, `total_claimable`, `Position` per wallet and asset | an index per asset, settled before each change of a lock; claims draw on a reserve inside the vault |
| **GRAI** bribe (`bribe`) | the same | buys voted shares out, at a premium, and distributes part of the price |
| **GRAI** liquidation (`redeem`, `revive`) | `liquidation`, `liquidation_at` | quorum and a stale Grinders heartbeat open it; redeem pays the basket pro rata; revive closes it |
| **GRAI** listing, config (`assets`, `config`) | listed mints, feeds, `Config` | owner calls, most refused during a liquidation |
| **Treasury** (`treasury`) | `Referrer` books (value, L1, L2), treasury vaults | referral credits, binds, poaching of a referral slot, payouts behind a claim |
| **Grinders** (`programs/grinders`) | `GrindersState`, `CustodianState`, token accounts, heartbeat | the toreador allocates inventory to custodians that swap it; anybody sweeps it to the GRAI vaults in a liquidation |
| **GRS** sale book (`set_sale`, `buy`, `publish_sale`) | `SaleAccount` rows, `sales_reserved`, `sale_escrow` | lots listed at home, bought in pieces, moved to a spoke |
| **GRS** OFT (`send`, `lz_receive`, `withdraw_fee`) | mint supply, `token_escrow`, `tvl_ld`, LayerZero messages | native stores burn here and mint there; an adapter store locks and unlocks an existing mint, which may withhold a transfer fee |
| **GRS** peers (`set_peer_config`, `peer_config`, `peer_registry`) | `PeerConfig` per remote: address, fee, two rate limiters; `PeerRegistry` | a limiter refills lazily, by the time since its last use |
| **GRS** vesting (`vest`, `release`, grants of `lz_receive`) | `Vesting` records, `vest_escrow`, `vesting_count` | locks with cliff and linear release; a grant is prepared by `lz_receive_types` and recorded by a later `lz_receive` |
| **Custom price feed** (`programs/custom_price_feed`) | `FeedConfig`, a `CustomPriceFeed` per mint | the owner creates feeds and appoints oracles, oracles write prices |
| Price feed readers (`price_feed`, `set_feed`) | feed and pair of an `AssetConfig` | decide at every use whether the account of the moment gives a price |
| Ownership (GRAI, custom feed, GRS) | owner, pending owner | offer, then acceptance |
| Views, metadata | none of the protocol's own | read only |

Interactions. GRAI calls Grinders only by reading its heartbeat (`redeem.rs`) and by sending it
deposits; Grinders calls GRAI's `distribute` and writes to the GRAI vaults. Claim and redeem call
the treasury, in the same program; deposits, bribes and claims read price accounts that Pyth,
Chainlink or the custom feed program write. GRS shares nothing with the others. An instruction is
atomic: it runs to the end or leaves no trace. What makes the system hard is therefore not
threads but *sequences*: any signer may call any instruction between any two others, tokens move
outside the programs, the owner changes parameters in the middle of a lifecycle, every division
rounds, and between chains messages overtake each other.

What makes each part correct:

- escrow: totals and lists agree with the accounts; the vault can return every lock;
- dividends: the reserve is in the vault; what is pending is lost to nothing but a claim, and what
  accrues after a relisting is short by no more than the debt of the earlier listing; no lock
  becomes unsettleable;
- book: no step dilutes the remaining shares; no round trip gains;
- liquidation: its dates are fixed, it pays pro rata, it ends, and it cannot open under a
  running fund or be kept from opening over an idle one;
- referrals: a forest, with books that add up and never block a claim;
- custody: inventory reaches the vaults in a liquidation once nobody moves it any more, except
  what lies with a custodian of an unlisted pair or in an unlisted mint. `allocate` is not refused
  in a liquidation (`custodian.rs:68-98`), so this is no guarantee against the toreador;
- GRS: one supply over all chains; lots are sold once and at their price; vests are paid on
  schedule, in full, and never with the tokens of another; a grant is recorded once, whatever
  takes its id first; the adapter's vault backs every spoke token; limiters let through what
  their rate allows and never stop the queue as a whole, although a large transfer may wait as
  long as smaller ones take what it waits for;
- feeds: a price in use is about what the owner approved for the asset, and fresh;
- ownership: a program changes hands by consent of both sides only.

`PROJECT.json` → `hazards` lists where each of these can go wrong, line by line.

## 2. Modules

| Module | Models | Used by |
| --- | --- | --- |
| `Tokenomics` | `tokenomics.rs`, `vault.rs`, formulas of `dividend.rs`: pure operators with the code's rounding | `Grai` |
| `Grai` | the GRAI program, one action per instruction | `MCGrai`, `MCOverhang`, proofs |
| `MCGrai`, `MCOverhang` | instances, fairness, statements of the documents; a history variable counting index raises | runs |
| `MCForfeit` | `MCOverhang` with an account, per position, of the dividends it missed in the present listing | run |
| `Referrals`, `MCReferrals` | the books of `treasury.rs`: credit, bind, poach; Floyd's loop detection | runs, proofs |
| `Custody` | abstract specification: what GRAI relies on from Grinders | `MCGrinders` |
| `Grinders`, `MCGrinders` | the Grinders program; shown to implement `Custody` | runs |
| `GrsSales`, `MCGrsSales` | sale book, OFT and messages over a home chain and spokes | runs |
| `GrsVesting`, `MCGrsVesting` | vests, grants on their way, releases | run |
| `TokenBucket` | abstract specification: what a rate limit promises | `GrsOft` |
| `GrsOft`, `MCGrsOft` | the bridge with an adapter home: transfers, fees, limiters, wiring; shown to implement `TokenBucket` | run |
| `GrsOftWindow` | `GrsOft` with an observer of periods: what a limit lets through in one | `GrsOftProofs` |
| `Ownership` | abstract specification: a two-step handover | `Feeds` |
| `Feeds`, `MCFeeds` | the custom feed program, the other price accounts, `set_feed`, the readers, both ownerships; shown to implement `Ownership` | run |
| `Totals` | sums: `Total(f)` is the number of units `f` holds | `Grai`, `Referrals`, `GrsSales`, `GrsVesting`, `GrsOft` |
| `TotalsProofs` | lemmas on floors, totals and finite sets | the modules below |
| `GraiProofs` | theorems about `Grai` and the history variable of `MCOverhang` | |
| `ReferralsProofs`, `GrindersProofs`, `FeedsProofs`, `GrsVestingProofs`, `GrsSalesProofs`, `GrsOftProofs` | theorems about the module named, its history variables and its abstract specification | |

Correspondence. A failing `require!`, checked operation or token transfer is a disabled action,
since the transaction is rolled back. Record fields keep the names of the account fields.

- `Grai`: the variables are the accounts of one deployment. Lists are counts per wallet
  (`lockers[u]` is how often `u` occurs), since order is advisory in the code. Asset balances
  outside the vaults are not tracked; GRAI balances are tracked in full. A feed reports a price
  or 0 (unusable, e.g. stale) at any time. `deposit_sol` is `Deposit`. The environment may send,
  burn and stray GRAI, donate to vaults, renew the heartbeat.
- `Tokenomics`: the scales (`BPS`, precision, `MAX_U128`) are constants, so that instances can
  shrink them; the loop of `apply_mint_premium` is the table `MintPrice` that
  `MintPriceAssumption` pins down row by row.
- `Referrals`: one `Referrer` record per wallet. `LoopStatus` is the two-pointer walk of
  `has_referral_loop`, turn by turn, on any graph; binds and poaches use it on the books. The poach
  payment is in `Grai` (`PoachPayment`).
- `Grinders`: GRAI is the environment. `CustodianSwap` takes what an arbitrary router may do
  within the balance checks of `explicit_swap.rs`: any change of the pair that meets the limit,
  and any withdrawal of the custodian's other mints, which the code does not look at. No balance
  guards `SetAssets`, since the empty account it asks for may be another than the one in use.
- `GrsSales`: `inflight` holds the messages sent and not cleared; delivery is in any order, at
  most once, and a failed `lz_receive` leaves the message there. Amounts are encoded in shared
  decimals. `gone` counts GRS destroyed for good: burned by a holder, by a spoke that closes a
  lot, or in a publication that arrives after its close. Stores are of native type. What may refuse
  a delivery is in the model: pauses, the peer address on file (`wired`), the inbound bucket, reduced
  to its verdict for a transfer (`short`; `GrsOft` has the buckets in full), and lamports at the
  address of a row (`funded`), which make the plain `create_account` of a new row fail.
- `GrsVesting`: one spoke; a grant is whatever the home chain may send. `prepared` is the id
  `lz_receive_types` last named for a grant; `LzReceive` needs it to be the next id still
  (`RowUsable`), otherwise the delivery fails and the grant stays. `shut` is a pause or another peer
  on file; `funded` and `escrowAccount` say which addresses hold lamports and nothing else: there
  the `create_account` of a grant fails, while that of `vest`, which Anchor writes, does not. Dates
  end at `MAX_U64`, and terms that would pass it are refused.
- `GrsOft`: the home store is an adapter, spokes are native. The code uses of a limiter's
  `last_refill_time` only its distance from now, and a distance of `MaxIdle` seconds fills every
  bucket that fills at all; `idle` is that distance up to `MaxIdle`, and `clock` only tells one
  second from the next. The fee of a peer stands for the fee in force (`default_fee_bps` where the
  peer has none). `Charged` and `Administered` are the pairs whose fee and limits an admin changes.
  `min_amount_ld` and message options are left out: they refuse a send before it
  changes anything, or are passed on to the endpoint.
- `Feeds`: an account is named by what its address commits to, so the custom feed of a mint is the
  mint itself; `report` is the content of accounts others write, which may be rewritten, with
  another pair or an older update, closed and created again at any time. `updated_at` of a custom
  feed is not read by the code and has no counterpart.

## 3. Runs

| Run | Module | Question | Bounds |
| --- | --- | --- | --- |
| `Grai_escrow` | `MCGrai` | locks, votes, bribes and their dividends, penalties, stray GRAI: totals, lists, ledger exact, bribe dividends backed and kept | 2 wallets, 1 asset worth a quarter unit, supply 4, u128 limit 12 |
| `Grai_dividends` | `MCForfeit` | over-claims bounded, no trapped locker; after a relisting nobody misses more than the stale debt brought along | 2 wallets, 1 asset listed again and again, supply 2, u128 limit 4, 3 index raises |
| `Grai_liquidation` | `MCGrai` | unlock, claim, redeem never refused; redeemers do not dilute; dates fixed | supply 3, clock 4, u128 limit 6, unusable prices, owner changing config |
| `Grai_book` | `MCGrai` | book per share, round trips, under a premium; every liquidation ends | supply 3, clock 5, listings, pauses and delistings |
| `Referrals_books` | `MCReferrals` | loop detection right on every graph; forest, exact L2, L1 not ahead, credits never refused | 4 wallets, values to 2 |
| `Grinders_custody` | `MCGrinders` | refinement of `Custody`; idle fund liquidable; sweeps complete once the inventory rests | 1 custodian, 3 mints of which 2 listed, clock 4 |
| `Grs_sales` | `MCGrsSales` | GRS conserved, earmarks backed, nothing but four gates refuses a delivery, lots sold once, at list price, revoked ones stay closed | supply 4, 2 lots, 2 messages, 1 spoke; each gate on one pair of chains or one row per chain |
| `Grs_vesting` | `MCGrsVesting` | escrow covers vests, on schedule, terms never overwritten; grants recorded unless a gate stays shut, vests paid in full | 2 vests or grants, clock 2 to 7, dates to 12, every address exposed |
| `Grs_oft` | `MCGrsOft` | the lock backs the spokes; only switches and buckets delay a delivery; refinement of `TokenBucket`; deliveries go on while a transfer waits that fits | supply 11, 3 messages, 2 spokes, 1 place for peers, a bucket of two shared units |
| `Feeds` | `MCFeeds` | prices in use are about what was approved, and fresh; refinement of `Ownership` | 2 keys, 2 mints, 1 receiver and 1 round account, 2 pairs, clock 2 |

Why the bounds suffice. Scales are small (`BPS` 4, precision 2 or 3, two local units per shared unit), so
that every division rounds within a few units and caps are hit by ordinary amounts: the limits of
`Grai_dividends` and `Grai_liquidation` are reached by the second or third distribution, the message
and lot counts let a close overtake the publication it revokes, and the fees and dust of a transfer
are non-zero. In `Grai_dividends` one asset suffices, as positions and indices of two assets share
nothing but the locks; three raises are a listing that leaves a debt, and a second one that accrues
below and above it. In `Grs_oft` the mint withholds a quarter, at most one unit, of each transfer,
so that its cap binds for the larger amount and not for the smaller; fee and amounts lose dust; the
bucket of the spoke holds the larger transfer or two of the smaller ones and takes a second to fill,
so that a smaller one does overtake a larger one that was sent before it; two remotes compete for
one place in the registry. Two vests and grants are enough for one to take the id prepared for the
other. In `Feeds` an update may be one second old on arrival and the clock passes the limit of one
second. Two wallets suffice for every interaction of the escrow because no handler reads more than
the caller's accounts and the totals; referral handlers read three levels, hence four wallets.
Symmetry over wallets (over keys in `Feeds`) is used in safety runs, where they are interchangeable,
never in liveness runs. The clocks reach past every window: a liquidation opens only when its
windows end within the clock (the bound in `Liquidate`). Deadlock is checked except in `Grs_vesting`
(time and vests are used up).

Fairness. `Grai_book`: the clock runs and somebody calls the permissionless `revive`.
`Grinders_custody`: somebody repeats each permissionless sweep (its safety properties do not depend
on it); `SweepsComplete` is conditional on `InventoryRests`, because the toreador may take the
reserve back from under the sweeps as often as it likes. `Grs_vesting`: the clock runs, somebody
repeats `release`, which is open to anybody, and executors prepare and deliver grants. Delivery
needs strong fairness: each vest in between disables the prepared delivery, and what is assumed is
that an attempt comes through before the next vest again and again, not that holders stop.
`GrantsArrive` is conditional on the gates (`Gated`) being open again and again. `Grs_oft`: the
clock runs and, while something can be delivered, executors deliver something. `QueueMoves` shows
that this is always possible again after a while, also with a bucket emptied by a smaller transfer;
it promises nothing to a single transfer, since the bucket serves whoever asks first
(`peer_config.rs:53-62`), and counts only transfers whose destination runs, is wired and has a
bucket that can hold them. Nothing is assumed of owners, toreadors, custodians, holders or admins.

Refinements. `CustodyKept`: `Grinders` implements `Custody`. `RateLimited`: both limiters of every
administered peer implement `TokenBucket` under the mapping that computes the level the code would
see now (`Level`), so storing an old level and refilling on the next call is no different from a
bucket that fills by the second. `HandoverConsented`: owner and pending owner of GRAI and of the
custom feed program implement `Ownership`.

Each property of a passing run has a mutation in `PROJECT.json` (a dropped guard, a wrong rounding, a
missed settlement) under which TLC finds it violated; the mutated forms stand before the definitions
they mutate.

### Disagreements between documents and code

Each is a run that states the sentence and is violated by what the code does.

| Run | Sentence | What the code does |
| --- | --- | --- |
| `Grai_fresh_position` | `dividend.rs`: a fresh position "never claims dividends that accrued before it existed" | `distribute` creates one with debt 0 and does not settle it, so a locker without a position who distributes counts the distributions before its own too |
| `Referrals_l1_drift` | GRAI README: "L1/L2 cannot drift behind locker `value`" | a book created by a claim and bound later leaves its value out of L1 |

The dividends of `Grai_fresh_position` are the locker's own share, by `total_locked`, of an asset
listed after the lock: nobody else pays for them. `lock` and `claim`, which settle the position they
create, would forfeit them. Which instruction comes first decides.

Also met while modelling, without a run:

- delisting keeps the positions, and a relisting starts the index at 0: `settle` subtracts the stale
  debt with `saturating_sub` (`dividend.rs:80`), so a locker gets nothing of what accrues until the
  index passes the old one, against "dividends accrue to the full lock"
  (`programs/grai/README.md:33`). `ForfeitBounded` shows that this debt is all that can be missed,
  and once;
- GRS creates a sale row, the record of a grant and `vest_escrow` with a plain `create_account`
  (`set_sale.rs:122-134`, `289-305`, `lz_receive.rs:570-582`, `627-639`), which fails at an address
  that holds lamports; GRAI has `create_account_absorb_prefund` for its own. At such an address a
  listing is refused, and with it every later one, as the counter does not move; a publication waits
  on the wire; a grant waits until a holder's `vest` takes the id or opens the escrow;
- `allocate` is not refused in a liquidation: a toreador can move the reserve to a custodian ahead of
  the sweeps, and what lies with a custodian whose pair is not listed, or in a mint outside its pair,
  is out of their reach;
- `set_assets` asks for an empty token account of the old mints, owned by the custodian, not for
  the one that holds its inventory;
- a spoke refuses deliveries beyond `GRS_MAX_SUPPLY_LD` (`lz_receive.rs:322`). That this never
  happens relies on the mint an adapter locks having no larger supply, which the documents promise
  and no code checks (`Genesis \in 0..MAX_SUPPLY` in `OftAssumption`);
- the root README (line 81) says "full exits always allowed"; `preview_unlock` refuses every amount
  below `ceil(BPS / penalty_bps)`, a whole lock included, so a lock that small leaves only in a
  liquidation (`ExitsNeverBlocked` promises the exit of amounts at or above the floor; its run has no
  penalty, hence no floor, and payouts cannot fail there for other reasons than guards and balances);
- a custom feed has no age limit: its last price stays in force however long its oracle is silent
  (`PricesAsApproved` exempts it);
- `accept_ownership` of GRS moves the admin even when the endpoint's accounts are left out; the
  delegate at the endpoint then stays with the former admin;
- the root README says that only unvoted GRAI is indexed; `distribute.rs` divides by
  `total_locked`, and its comment says that voted locks earn;
- the root README says that the unlock penalty stays on the vault; `unlock.rs` sends it to
  Grinders;
- `lib.rs` calls `GraiState.referrers` the "Treasury-bound lockers in mint order"; a locker whose
  book was created by a claim and bound by a later deposit is not registered;
- `revive.rs` resets the book to "avoid an orphan book with zero supply"; holders who burn the
  last shares with the token program leave one outside a liquidation;
- the Grinders README calls `liquidate_custodian` a permissionless sweep; it needs the GRAI vaults
  of both mints of the pair, so a custodian with an unlisted mint cannot be swept
  (`SweepsComplete` promises it for listed pairs only, and only once the inventory rests).

## 4. Proofs

For every number of wallets, assets, chains, lots, vests and peers, every scale, every
configuration that validation accepts, and every input:

| Module | Theorem | States |
| --- | --- | --- |
| `GraiProofs` | `TypeCorrect` | `[]TypeOK` of `Grai`: no subtraction of a handler goes below zero |
| | `SupplyAlwaysConserved`, `EscrowsAlwaysAccounted`, `RegistriesAlwaysExact`, `VaultAlwaysCoversLocks` | the ledger |
| | `ReserveAlwaysBacked`, `SharesAlwaysBacked`, `LockersNeverTrapped` | solvency |
| | `ExitsAlwaysAdmitted` | the guards behind `ExitsNeverBlocked`, without `ENABLED` |
| | `BookPerShareHolds`, `NoRoundTripEverGains` | no dilution of the book |
| | `WindowAlwaysHonoured`, `BasketPerShareHolds` | dates of a liquidation; redeemers do not dilute each other |
| | `DividendsAreNeverLost`, `OverhangAlwaysBounded` | a pending dividend leaves by a claim only; claims exceed the reserve by rounding only |
| `ReferralsProofs` | `AlwaysAcyclic`, `LoopsToldApart` | the books stay a forest; on them `has_referral_loop` says yes exactly when the locker is above the proposed referrer |
| | `LoopAlwaysDecided` | on every graph, whatever cycles it has, the walk ends within one turn per account with the right answer |
| | `L2AlwaysExact`, `CreditsNeverBlocked` | the second level of volume; every book a credit writes exists |
| | `L1AlwaysCovered` | the first level never exceeds what the children brought; of the debits of a poach only the one on the seller's first level can fail, and only on a book that falls short of what its children brought |
| | `OnlyLateBindsDrift` | such a shortfall comes from a late bind alone, by the value brought along, and no step changes it otherwise |
| `GrindersProofs` | `IdleFundAlwaysLiquidable`, `CustodyImplemented` | the heartbeat gate; `Grinders` implements `Custody` |
| `FeedsProofs` | `PricesAlwaysAsApproved`, `HandoverAlwaysConsented` | prices in use; GRAI and the feed program implement `Ownership` |
| `GrsVestingProofs` | `EscrowAlwaysCovers`, `ScheduleAlwaysKept`, `TermsAlwaysFixed` | vests are covered, on schedule, never overwritten |
| `GrsSalesProofs` | `EarmarksAlwaysBacked`, `SupplyAlwaysConserved`, `RevokedAlwaysClosed`, `ListPriceAlwaysKept` | the sale book over all chains |
| | `DeliveryAlwaysAdmitted` | the guards behind `OnlyGatesRefuse`, without `ENABLED` |
| `GrsOftProofs` | `LockedAlwaysBacks`, `LimitersAreBuckets` | the lock backs the spokes; the limiters implement `TokenBucket` |
| | `PeriodsWithinLimit` | what passes in a period: one capacity, the drip of its seconds, and what came back |
| | `DeliveryAlwaysCovered` | the guards behind `OnlyThrottled`, without `ENABLED` |

Assumptions, each evaluated by TLC in the runs of its module: `ScaleAssumption`,
`MintPriceAssumption` (`Tokenomics`), `ParameterAssumption`, `ConfigAssumption` (`Grai`): scales are
positive, wallets finitely many, inputs natural numbers, the genesis configuration valid.
`ReferralsAssumption`, `GrindersAssumption`, `FeedsAssumption`, `GrsAssumption`,
`VestingAssumption`, `OftAssumption` say the same of their modules; beyond types they use what the
code checks: periods between the shortest and the longest `set_grind_period` accepts, fees that
`set_peer_config` accepts and that do not take the whole transfer, a clock that starts after 0, and
`MaxIdle` seconds that fill every bucket that fills at all.

### The arguments

*Sums.* `Total(f)` is the cardinality of a set of units, so changing one entry changes the set by
a difference whose cardinality the finite-set theorems give. What still needs induction (a floor of
a total is at least the total of the floors) uses `SubsetInduction`: a family of subsets that
contains the empty set and is closed under adding an element contains the whole set. The family is
a set, not an operator, so the provers can instantiate it.

*Ledger.* The formulas come first: a floor is at most its quotient, what `distribute_dividend`
reserves is at most what it is given, redeem never takes the last unit of book while shares remain,
products stay under the limit. Types need part of the ledger, because handlers subtract, hence

    LedgerInv == TypeOK, SupplyConserved, LocksExact, VotesExact, VotesLocked, VaultCoversLocks

where `LocksExact` (`VotesExact`) ties the total *and* the list to the same accounts: alone,
neither says that a wallet leaving the list had nothing locked. The scoop of `liquidate` is
harmless only because `VaultCoversLocks` and `LocksExact` hold together.

*Solvency.* `SolvencyInv` adds `ReserveBacked`, `SharesBacked` and `NoLockerTrapped`, which needs
`LocksExact`: `distribute` bounds the index against the total of the locks, which bounds it for each
of them. With the ledger it also gives `ExitsAlwaysAdmitted`: the lock and the votes of one wallet
are at most their totals, which the vault covers. The action properties follow step by step:
`BasketPerShareNeverFalls` is a product inequality per vault for redeem and holds by monotonicity
elsewhere; `DividendsNeverLost` follows the settle of each handler that changes a lock.
`OverhangInv` bounds, per asset, the total of the accrued amounts by the reserve plus one unit per
locker and raise; a settle moves accrued amounts between two fields without changing them, a raise
adds at most the floors of one division.

*Referrals.* `ReferralsInv`: the books have their types, whoever is referred to has a book, the
second level is what the children brought at the first, the first is at most what they brought, and
the graph is `Grounded`: every nonempty set of accounts has one whose referrer is outside it, or
none, or itself. That is a forest without speaking of paths. The walk is argued about on ways: from
an account, the first, second, ... account above it, twice as many steps as there are accounts;
after n turns the pointers stand at places n and 2n (`WalkOnWay`). A way that does not end within
the number of accounts visits one of them twice, d steps apart, and is back there after any multiple
of d more steps (`WayComesBack`), so the pointers meet at the latest at the first multiple of d past
that account, which is within one turn per account (`AlwaysDecided`). A way that repeats an account
never ends, hence a locker that is not above the new referrer is told from one that is: on a way
that ends the pointers cannot meet (`StraightWay`), and a locker above would hold the walk in a trap
that only "yes" leaves (`NoMissedLoop`). That is the answer on every graph (`LoopStatusRight`); a
forest is the case in which all ways end (`NoFalseLoop`). An edge let through keeps the graph
grounded (`NewEdge`). The sums move with one edge at a time (`Brought`), and what a book falls short
of them (`Gap`) changes with an edge only if the moved value was booked nowhere, which is the late
bind; that the books never hold two wallets that refer each other is what makes the second level
exact through a poach. The walks are recursive functions over a finite range: `Repeated` gives one
that satisfies its equation, as the family of lengths that can be reached is all of them
(`CountUp`).

*Grinders.* `GateInv` says that the heartbeat is the time of the last operation; with it the gate
of GRAI is a function of the history, and each instruction maps to a step of `Custody` or to a
stutter.

*Feeds.* `ApprovalInv`: a round account keeps its pair, and what is stored for a listed mint is
what was approved last. Rewritten receiver accounts need no invariant, since the reader compares
their pair at each use.

*Vesting.* `VestingInv`: records exist exactly below the counter, cliffs lie within their
schedules, and the total of what vests are owed is at most the escrow. The counter makes
`TermsFixed` inductive: a delivery writes at the counter or not at all.

*Sales.* `SalesInv` adds to `EarmarksBacked` and `SupplyConserved` that a lot is in one place: open
on one chain, or travelling in one message, or neither, and unknown above the counter of the home
chain (`LotsInOnePlace`); otherwise a delivery could add inventory to an open lot. `PriceInv`, on
the history of `MCGrsSales`, says that what was sold and what is left add up to what was listed,
in tokens and in price; `FairShare` is the step for a purchase whose price is rounded.

*Bridge.* `OftInv`: limiters are as the program leaves them (at most full, blank while off), fees
leave something to send, nonces on the wire are distinct, home supply is at most genesis, and the
vault holds `tvl_ld`, which counts the spokes and the wire. Its arithmetic is `PreFeeEnough`: what
`quote_send` asks for, after the rounded and capped transfer fee, is at least what is announced.
The refinement rests on `IdleFills` (after `MaxIdle` seconds a bucket that fills is full, so the
distance from the last refill may stop counting there) and on the level after a refill being the
level before it plus what has dripped in, at most the capacity. From the buckets follows
`PeriodsWithinLimit`: the level of a bucket is at most what its period may still let through
(`WithinAllowance`), which a drip, a transfer out and one back preserve. The period starts anew when
an admin sets the limit, since `set_capacity` fills the bucket even with the capacity it had. TLC
explores `GrsOftWindow` only in part (its periods multiply the states of `Grs_oft`), so no run of
the project checks it.

### Only model-checked

- Liveness: `LiquidationEnds`, `SweepsComplete`, `GrantsArrive`, `VestsPaidOut`,
  `QueueMoves`; the prover has no rules for fairness.
- `ExitsNeverBlocked`, `OnlyGatesRefuse`, `OnlyThrottled`: they use `ENABLED`. Their guards
  are theorems of their own (above).
- `ForfeitBounded`, on the account that `MCForfeit` keeps.

## 5. Not modelled

- u64 casts of results (only the u128 limit of the dividend index is kept); account sizes, rent
  and compute limits, which bound the registries kept inside `GraiState`;
- decimals: exponents of price accounts and the price scale of `explicit_swap.rs`, whose checked
  u128 product refuses very large trades;
- beneficiary and royalty fields, NFT and metadata creation;
- `withdraw` of SOL from Grinders (lamports only); the `jupiter_gasless` custodian (always fails);
- GRS: who may call what (admin, pauser, unpauser, delegate) and the transfer of the store's
  ownership; sale and grant credits on an adapter spoke; compose messages (disabled in `send`);
  message options; asset and recipient of a sale row; republication of an open row by a home chain
  that is not this program (its branches are in `AcceptSale`, but `publish_sale` sends an open row
  once per lot);
- views, previews (they call the formulas above), client scripts.

## 6. Plan

Done, in this order: `Tokenomics`, `Grai` with its runs, the ledger and solvency proofs,
`Referrals`, `Custody` and `Grinders`, `GrsSales`, `GrsVesting`; then grants on their way and the
executor's two calls (`GrsVesting`), the adapter bridge with limiters and peers (`TokenBucket`,
`GrsOft`), the price feeds and ownership (`Ownership`, `Feeds`).

Next, models: the roles of the GRS store; `Referrals` composed with the payouts of `Grai`.

Proved since: `BasketPerShareNeverFalls`, `DividendsNeverLost`, `OverhangBounded`; the safety
properties of `Grinders`, `Feeds`, `GrsVesting`, `GrsSales` and `GrsOft` with the refinements of
`Custody`, `Ownership` and `TokenBucket`; the books of `Referrals` and its loop detection; the
guards behind `ExitsNeverBlocked`, `OnlyGatesRefuse` and `OnlyThrottled`; where first-level books
drift.

The last proofs: `LoopDecided` on every graph, and what a rate limit lets through in a period. What
is left to TLC is liveness and `ENABLED`.
