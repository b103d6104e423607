------------------------------ MODULE Tokenomics ------------------------------
(***************************************************************************)
(* The pure arithmetic of the GRAI program (programs/grai/src/tokenomics.rs *)
(* and the index arithmetic of dividend.rs and treasury.rs).  Everything is *)
(* integer arithmetic that rounds down, as in the Rust source; the scales   *)
(* (basis points, index precision, price unit) are CONSTANTS so that small  *)
(* instances meet the rounding that the real scales meet only in dust.      *)
(***************************************************************************)
EXTENDS Integers

CONSTANTS
    BPS,                      \* basis-point denominator (10_000 in the code)
    DIVIDEND_PRECISION,       \* scale of the dividend index (1e18 in the code)
    MAX_U128,                 \* largest u128: a checked product above it is an error
    PRICE_UNIT,               \* price scale: usd = amount * price \div PRICE_UNIT
    MAX_MINT_PREMIUM_YEARS,   \* cap on compounded years (100 in the code)
    MINT_PREMIUM_YEAR_SECONDS,\* length of a premium year, in clock units
    PremiumRates,             \* mint-premium rates the configurations may carry
    MintPrice                 \* MintPrice[r][n]: ask in bps after n years at rate r

ASSUME ScaleAssumption ==
    /\ BPS \in Nat \ {0}
    /\ DIVIDEND_PRECISION \in Nat \ {0}
    /\ PRICE_UNIT \in Nat \ {0}
    /\ MAX_U128 \in Nat

\* The loop of apply_mint_premium, one table row per rate: par, then compounded
\* year by year with the floor taken at every step.
ASSUME MintPriceAssumption ==
    /\ PremiumRates \subseteq Nat
    /\ MAX_MINT_PREMIUM_YEARS \in Nat
    /\ MINT_PREMIUM_YEAR_SECONDS \in Nat \ {0}
    /\ MintPrice \in [PremiumRates -> [0..MAX_MINT_PREMIUM_YEARS -> Nat]]
    /\ \A r \in PremiumRates :
         /\ MintPrice[r][0] = BPS
         /\ \A n \in 1..MAX_MINT_PREMIUM_YEARS :
              MintPrice[r][n] = (MintPrice[r][n - 1] * (BPS + r)) \div BPS

MinOf(x, y) == IF x <= y THEN x ELSE y

SaturatingSub(x, y) == IF x >= y THEN x - y ELSE 0

-------------------------------------------------------------------------------
(* Basis points and cuts. *)

BpsOf(amount, bps) == (amount * bps) \div BPS

BpsCeil(amount, bps) == (amount * bps + BPS - 1) \div BPS

\* The dividend part of a yield or of a bribe cut pool; the treasury takes the rest.
DividendCut(amount, cfg) == BpsOf(amount, cfg.dividend_cut_bps)

\* Smallest amount unlock accepts while the penalty is on: ceil(BPS / bps).
MinUnlock(bps) == (BPS + bps - 1) \div bps

UnlockAllowed(amount, bps) == bps > 0 => amount >= MinUnlock(bps)

UnlockPenalty(amount, bps) == IF bps = 0 THEN 0 ELSE BpsCeil(amount, bps)

-------------------------------------------------------------------------------
(* Prices: a listed asset is worth price / PRICE_UNIT dollars a unit. *)

UsdValue(amount, price) == (amount * price) \div PRICE_UNIT

SettlementAmount(usd, price) == (usd * PRICE_UNIT) \div price

-------------------------------------------------------------------------------
(* Minting, bribing, redeeming against the book. *)

\* Mutants: minting at par whatever the book, and minting rounded up.
PreviewDepositAtPar(value, supply, totalValue) == value

PreviewDepositRoundedUp(value, supply, totalValue) ==
    IF totalValue > 0 THEN (value * supply + totalValue - 1) \div totalValue ELSE value

PreviewDepositBook(value, supply, totalValue) ==
    IF totalValue > 0 THEN (value * supply) \div totalValue ELSE value

PremiumYears(start, now) ==
    MinOf((now - start) \div MINT_PREMIUM_YEAR_SECONDS, MAX_MINT_PREMIUM_YEARS)

ApplyMintPremium(book, rate, start, now) ==
    (book * BPS) \div MintPrice[rate][PremiumYears(start, now)]

PreviewDeposit(value, supply, totalValue, rate, start, now) ==
    ApplyMintPremium(PreviewDepositBook(value, supply, totalValue), rate, start, now)

\* Mutant: the book is divided by the supply after the burn.
LiquidateValueAfterBurn(amount, supply, totalValue) ==
    IF supply <= amount THEN totalValue ELSE (amount * totalValue) \div (supply - amount)

\* Book value of `amount` shares, also the book removed when they are burnt.
LiquidateValue(amount, supply, totalValue) ==
    IF supply = 0 THEN 0 ELSE (amount * totalValue) \div supply

\* The ask of a bribe: [ask, premium, discount] in units of the payment asset.
\* Linear in the distance of the vote share from half the quorum.
PreviewBribe(amount, supply, totalValue, totalVoted, cfg, price) ==
    LET book     == SettlementAmount(LiquidateValue(amount, supply, totalValue), price)
        half     == cfg.quorum_bps \div 2
        voteBps  == IF supply = 0 THEN 0 ELSE (totalVoted * BPS) \div supply
        span     == IF half > 0 THEN half ELSE 1
        up       == (cfg.bribe_premium_bps * (half - voteBps)) \div span
        down     == (cfg.bribe_premium_bps * (voteBps - half)) \div span
        raised   == (book * (BPS + up)) \div BPS
        fullAsk  == IF down >= BPS THEN 0 ELSE (book * (BPS - down)) \div BPS
        discount == (book - fullAsk) \div 2
    IN  IF voteBps < half
        THEN [ask |-> raised, premium |-> raised - book, discount |-> 0]
        ELSE [ask |-> book - discount, premium |-> 0, discount |-> discount]

\* The part of a bribe that is split between treasury and lockers: half the
\* premium, or the carved half of the discount.
BribeCutPool(quote) ==
    IF quote.premium > 0
    THEN (quote.ask - (quote.ask * (quote.ask - quote.premium)) \div quote.ask) \div 2
    ELSE (quote.ask * quote.discount) \div quote.ask

HasQuorum(totalVoted, supply, quorumBps) == totalVoted * BPS > supply * quorumBps

\* Mutant: redeemers are paid the ceiling of their part.
LiquidateShareRoundedUp(balance, amount, supply) ==
    IF supply = 0 THEN 0 ELSE (balance * amount + supply - 1) \div supply

LiquidateShare(balance, amount, supply) ==
    IF supply = 0 THEN 0 ELSE (balance * amount) \div supply

RedeemableBalance(vaultAmount, reserved) == SaturatingSub(vaultAmount, reserved)

\* Mutant: everything in the vault counts as stray.
DeadGraiWholeVault(vaultAmount, locked) == vaultAmount

DeadGrai(vaultAmount, locked) == SaturatingSub(vaultAmount, locked)

-------------------------------------------------------------------------------
(* The dividend index (dividend.rs). *)

Accumulated(amount, accShare) == (amount * accShare) \div DIVIDEND_PRECISION

\* Mutant: the whole cut is reserved, and its dust leaves for the treasury all the same.
DistributeDividendUnfloored(accShare, amount, eligible) ==
    LET increase == IF eligible > 0 THEN (amount * DIVIDEND_PRECISION) \div eligible ELSE 0
        spread   == Accumulated(eligible, accShare + increase) - Accumulated(eligible, accShare)
    IN  [acc |-> accShare + increase, reserved |-> amount, dust |-> amount - spread]

\* distribute_dividend: the new index, what it reserves for lockers, and the
\* remainder that goes to the treasury.  A cut that moves the index without
\* reserving anything leaves the index alone.
DistributeDividend(accShare, amount, eligible) ==
    LET increase == IF eligible > 0 THEN (amount * DIVIDEND_PRECISION) \div eligible ELSE 0
        reserved == SaturatingSub(Accumulated(eligible, accShare + increase),
                                  Accumulated(eligible, accShare))
    IN  IF increase = 0 \/ reserved = 0
        THEN [acc |-> accShare, reserved |-> 0, dust |-> amount]
        ELSE [acc |-> accShare + increase, reserved |-> reserved,
              dust |-> SaturatingSub(amount, reserved)]

\* Mutant: distribute does not look at the product with total_locked.
DistributeUnchecked(accShare, amount, eligible) == TRUE

\* The u128 products of distribute_dividend fit, otherwise it is MathOverflow.
DistributeFits(accShare, amount, eligible) ==
    LET increase == IF eligible > 0 THEN (amount * DIVIDEND_PRECISION) \div eligible ELSE 0
    IN  increase > 0 => (accShare + increase) * eligible <= MAX_U128

\* claim_treasury_shares: the treasury income that stands behind a claim, and the
\* affiliates' slice of it.
GrossProfitShare(claimed, cfg) == (claimed * cfg.treasury_cut_bps) \div cfg.dividend_cut_bps

RevenueShare(claimed, cfg) == (claimed * cfg.revenue_share_bps) \div cfg.dividend_cut_bps

===============================================================================
