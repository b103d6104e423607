------------------------------- MODULE GrsSales -------------------------------
(***************************************************************************)
(* GRS on a home chain and its spokes: the genesis mint, the sale book     *)
(* (listing, buying and closing a lot, publishing it to a spoke) and the   *)
(* OFT transfers between chains.  Every chain runs the same program; what  *)
(* links them is LayerZero, which delivers each message at most once, in   *)
(* any order, and keeps one whose lz_receive fails for another attempt.    *)
(* The inbound rate limiters are reduced to their verdict: module GrsOft   *)
(* has them in full.                                                       *)
(***************************************************************************)
EXTENDS Integers, FiniteSets, Totals

CONSTANTS
    Home, Spokes,        \* the chains
    MAX_SUPPLY,          \* GRS_MAX_SUPPLY_LD
    LD2SD_RATE,          \* GRS_LD2SD_RATE
    ONE_IN_BASIS_POINTS,
    FeeBps,              \* OFT fee of every peer
    \* --- the inputs and the bounds of an instance ---
    LotSizes,            \* grs_amount an admin may list
    Quotes,              \* asset_amount an admin may ask
    Amounts,             \* amounts bought, sent, donated
    Rewirable,           \* pairs <<chain, remote>> whose peer address an admin may change
    Crowded,             \* pairs whose inbound bucket may run short
    Exposed,             \* pairs <<chain, id>> of sale rows that somebody may send lamports
    MaxSales,            \* bound on the number of lots
    MaxMessages          \* bound on the number of LayerZero messages

Chains == {Home} \cup Spokes

Ids == 1..MaxSales

Links == Chains \X Chains

ASSUME GrsAssumption ==
    /\ Home \notin Spokes /\ IsFiniteSet(Spokes)
    /\ MAX_SUPPLY \in Nat /\ LD2SD_RATE \in Nat \ {0} /\ MAX_SUPPLY % LD2SD_RATE = 0
    /\ ONE_IN_BASIS_POINTS \in Nat \ {0} /\ FeeBps \in 0..ONE_IN_BASIS_POINTS
    /\ LotSizes \subseteq Nat /\ Quotes \subseteq Nat /\ Amounts \subseteq Nat
    /\ Rewirable \subseteq Links /\ Crowded \subseteq Links /\ Exposed \subseteq Chains \X Ids
    /\ MaxSales \in Nat /\ MaxMessages \in Nat

VARIABLES
    genesisMinted,       \* GrsConfig.genesis_minted of the home chain
    paused,              \* OFTStore.paused of each chain
    wallet,              \* GRS of each chain outside the program's escrows
    fees,                \* token_escrow of each chain: OFT fees of a native store
    escrow,              \* sale_escrow of each chain
    reserved,            \* GrsConfig.sales_reserved
    spent,               \* GrsConfig.token_sales_spent
    sale,                \* SaleAccount of each chain and id
    saleCount,           \* SaleRegistry.sale_count
    inflight,            \* messages sent and not yet cleared
    nonce,               \* messages sent so far
    gone,                \* GRS destroyed and minted nowhere else
    wired,               \* <<c, d>>: PeerConfig.peer_address of c for d is d's program
    short,               \* <<c, d>>: c's inbound bucket for d has too few tokens
    funded               \* <<c, i>>: the address of row i holds lamports and no data

tokenVars == <<wallet, fees, escrow>>
bookVars == <<reserved, spent, sale, saleCount>>
wireVars == <<inflight, nonce>>
gateVars == <<wired, short, funded>>
vars == <<genesisMinted, paused, tokenVars, bookVars, wireVars, gone, gateVars>>

NoSale == [known |-> FALSE, grs |-> 0, asset |-> 0]
SaleRow(grs, asset) == [known |-> TRUE, grs |-> grs, asset |-> asset]

\* What the spl-token mint of a chain counts.
Supply(c) == wallet[c] + fees[c] + escrow[c]

Init ==
    /\ genesisMinted = FALSE
    /\ paused = [c \in Chains |-> FALSE]
    /\ wallet = [c \in Chains |-> 0] /\ fees = [c \in Chains |-> 0]
    /\ escrow = [c \in Chains |-> 0]
    /\ reserved = [c \in Chains |-> 0] /\ spent = [c \in Chains |-> 0]
    /\ sale = [c \in Chains |-> [i \in Ids |-> NoSale]]
    /\ saleCount = [c \in Chains |-> 0]
    /\ inflight = {} /\ nonce = 0 /\ gone = 0
    /\ wired = {l \in Links : l[1] # l[2]} /\ short = {} /\ funded = {}

MintGenesis ==
    /\ ~genesisMinted /\ Supply(Home) = 0
    /\ genesisMinted' = TRUE
    /\ wallet' = [wallet EXCEPT ![Home] = @ + MAX_SUPPLY]
    /\ UNCHANGED <<paused, fees, escrow, bookVars, wireVars, gone, gateVars>>

-------------------------------------------------------------------------------
(* The sale book of one chain *)

\* Saturating: GRS in sale_escrow that no open lot has earmarked.
FreeSaleInventory(c) == IF escrow[c] > reserved[c] THEN escrow[c] - reserved[c] ELSE 0

\* Variant: a top-up that forgets what other lots have earmarked.
TopUpIgnoringEarmarks(grs) == IF escrow[Home] < grs THEN grs - escrow[Home] ELSE 0

\* The tokens a listing of grs pulls from the admin's account into sale_escrow.
TopUp(grs) == IF FreeSaleInventory(Home) < grs THEN grs - FreeSaleInventory(Home) ELSE 0

AppendSale(asset, grs) ==
    LET id == saleCount[Home] + 1 IN
    /\ id \in Ids
    /\ <<Home, id>> \notin funded                \* create_account refuses an address in use
    /\ ~(grs > 0 /\ asset = 0)
    /\ TopUp(grs) <= wallet[Home]
    /\ wallet' = [wallet EXCEPT ![Home] = @ - TopUp(grs)]
    /\ escrow' = [escrow EXCEPT ![Home] = @ + TopUp(grs)]
    /\ reserved' = [reserved EXCEPT ![Home] = @ + grs]
    /\ sale' = [sale EXCEPT ![Home][id] = SaleRow(grs, asset)]
    /\ saleCount' = [saleCount EXCEPT ![Home] = id]
    /\ UNCHANGED <<genesisMinted, paused, fees, spent, wireVars, gone, gateVars>>

CloseSale(id) ==
    /\ id \in 1..saleCount[Home]
    /\ reserved[Home] >= sale[Home][id].grs
    /\ reserved' = [reserved EXCEPT ![Home] = @ - sale[Home][id].grs]
    /\ sale' = [sale EXCEPT ![Home][id] = SaleRow(0, 0)]
    /\ UNCHANGED <<genesisMinted, paused, tokenVars, spent, saleCount, wireVars, gone, gateVars>>

\* Variant: a partial purchase rounded up.
CostRoundedUp(amount, remaining, asset) ==
    IF amount = remaining THEN asset ELSE (amount * asset + remaining - 1) \div remaining

\* Whether quote_cost prices a purchase, and at what.
CostOf(amount, remaining, asset) ==
    IF amount = remaining THEN asset ELSE (amount * asset) \div remaining

Quotable(amount, remaining, asset) ==
    /\ asset > 0 /\ remaining > 0
    /\ amount \in 1..remaining
    /\ CostOf(amount, remaining, asset) > 0

\* Nothing in buy looks at the pause flag.  The payment goes to the row's recipient.
Buy(c, id, amount) ==
    LET row == sale[c][id]
        cost == CostOf(amount, row.grs, row.asset)
    IN
    /\ row.known
    /\ Quotable(amount, row.grs, row.asset)
    /\ reserved[c] >= amount /\ escrow[c] >= amount
    /\ spent' = [spent EXCEPT ![c] = @ + amount]
    /\ reserved' = [reserved EXCEPT ![c] = @ - amount]
    /\ sale' = [sale EXCEPT ![c][id] = SaleRow(row.grs - amount, row.asset - cost)]
    /\ escrow' = [escrow EXCEPT ![c] = @ - amount]
    /\ wallet' = [wallet EXCEPT ![c] = @ + amount]
    /\ UNCHANGED <<genesisMinted, paused, fees, saleCount, wireVars, gone, gateVars>>

-------------------------------------------------------------------------------
(* Messages.  Amounts travel in shared decimals. *)

\* Variant: an amount put on the wire in local decimals.
Ld2SdUnscaled(ld) == ld

Ld2Sd(ld) == ld \div LD2SD_RATE
Sd2Ld(sd) == sd * LD2SD_RATE

\* Variant: the dust below one shared unit burned as well.
RemoveDustKept(ld) == ld

RemoveDust(ld) == ld - (ld % LD2SD_RATE)

SaleMessage(dst, id, row) ==
    [kind |-> "sale", src |-> Home, dst |-> dst, nonce |-> nonce, id |-> id,
     asset |-> row.asset, sd |-> Ld2Sd(row.grs)]

OftMessage(src, dst, ld) ==
    [kind |-> "oft", src |-> src, dst |-> dst, nonce |-> nonce, sd |-> Ld2Sd(ld)]

\* endpoint_cpi::send has no path to a remote that is not wired.
Post(m) ==
    /\ <<m.src, m.dst>> \in wired
    /\ nonce < MaxMessages
    /\ nonce' = nonce + 1
    /\ inflight' = inflight \cup {m}

\* An open row is burned here and minted there; a closed one (both amounts 0) is sent as
\* it is and makes the spoke burn what is left of its lot.
PublishSale(dst, id) ==
    LET row == sale[Home][id]
        isClose == row.grs = 0 /\ row.asset = 0
    IN
    /\ ~paused[Home]
    /\ row.known
    /\ isClose \/ (row.grs > 0 /\ row.asset > 0 /\ row.grs % LD2SD_RATE = 0)
    /\ reserved[Home] >= row.grs /\ escrow[Home] >= row.grs
    /\ spent' = [spent EXCEPT ![Home] = @ + row.grs]
    /\ reserved' = [reserved EXCEPT ![Home] = @ - row.grs]
    /\ escrow' = [escrow EXCEPT ![Home] = @ - row.grs]
    /\ Post(SaleMessage(dst, id, row))
    /\ sale' = [sale EXCEPT ![Home][id] = SaleRow(0, 0)]
    /\ UNCHANGED <<genesisMinted, paused, wallet, fees, saleCount, gone, gateVars>>

\* Variant: the guard against an open that arrives after its close forgotten.
RevokedNever(row, grs) == FALSE

\* A non-zero row for a lot this spoke already holds closed or sold out is dropped.
Revoked(row, grs) == row.known /\ row.grs = 0 /\ grs # 0

\* Whether a mint is within the cap of the chain.
UnderCap(c, amount) == Supply(c) + amount <= MAX_SUPPLY

\* A row the spoke does not know yet is created, which lamports at its address prevent.
Creatable(c, id) == sale[c][id].known \/ <<c, id>> \notin funded

\* credit_sale_escrow mints the increase of a row under the cap, debit_sale_escrow burns
\* the decrease.
AcceptSale(m) ==
    LET row == sale[m.dst][m.id]
        grs == Sd2Ld(m.sd)
    IN
    /\ ~Revoked(row, grs)
    /\ Creatable(m.dst, m.id)
    /\ grs > row.grs => UnderCap(m.dst, grs - row.grs)
    /\ reserved[m.dst] + grs >= row.grs /\ escrow[m.dst] + grs >= row.grs
    /\ reserved' = [reserved EXCEPT ![m.dst] = @ + grs - row.grs]
    /\ escrow' = [escrow EXCEPT ![m.dst] = @ + grs - row.grs]
    /\ gone' = gone + (IF grs < row.grs THEN row.grs - grs ELSE 0)
    /\ sale' = [sale EXCEPT ![m.dst][m.id] = SaleRow(grs, m.asset)]
    /\ saleCount' = [saleCount EXCEPT ![m.dst] = IF m.id > @ THEN m.id ELSE @]

DropSale(m) ==
    /\ Revoked(sale[m.dst][m.id], Sd2Ld(m.sd))
    /\ gone' = gone + Sd2Ld(m.sd)
    /\ UNCHANGED <<escrow, reserved, sale, saleCount>>

\* What any delivery needs: no pause, and a sender that is the peer on file.
Receivable(m) == ~paused[m.dst] /\ <<m.dst, m.src>> \in wired

LzReceiveSale(m) ==
    /\ m.kind = "sale" /\ Receivable(m) /\ m.dst # Home
    /\ inflight' = inflight \ {m}
    /\ AcceptSale(m) \/ DropSale(m)
    /\ UNCHANGED <<genesisMinted, paused, wallet, fees, spent, nonce, gateVars>>

OftFee(sent) == RemoveDust((sent * FeeBps) \div ONE_IN_BASIS_POINTS)

\* A native store burns what arrives elsewhere and keeps the fee.
Send(c, dst, amount) ==
    LET sent == RemoveDust(amount)
        received == sent - OftFee(sent)
    IN
    /\ ~paused[c] /\ dst # c
    /\ sent <= wallet[c]
    /\ wallet' = [wallet EXCEPT ![c] = @ - sent]
    /\ fees' = [fees EXCEPT ![c] = @ + OftFee(sent)]
    /\ Post(OftMessage(c, dst, received))
    /\ UNCHANGED <<genesisMinted, paused, escrow, bookVars, gone, gateVars>>

LzReceiveOft(m) ==
    /\ m.kind = "oft" /\ Receivable(m) /\ <<m.dst, m.src>> \notin short
    /\ UnderCap(m.dst, Sd2Ld(m.sd))
    /\ inflight' = inflight \ {m}
    /\ wallet' = [wallet EXCEPT ![m.dst] = @ + Sd2Ld(m.sd)]
    /\ UNCHANGED <<genesisMinted, paused, fees, escrow, bookVars, nonce, gone, gateVars>>

LzReceive(m) == LzReceiveSale(m) \/ LzReceiveOft(m)

-------------------------------------------------------------------------------
(* Administration, and what anybody may do with the token *)

WithdrawFee(c, amount) ==
    /\ fees[c] >= amount
    /\ fees' = [fees EXCEPT ![c] = @ - amount]
    /\ wallet' = [wallet EXCEPT ![c] = @ + amount]
    /\ UNCHANGED <<genesisMinted, paused, escrow, bookVars, wireVars, gone, gateVars>>

SetPause(c, flag) ==
    /\ paused' = [paused EXCEPT ![c] = flag]
    /\ UNCHANGED <<genesisMinted, tokenVars, bookVars, wireVars, gone, gateVars>>

Toggle(S, x) == IF x \in S THEN S \ {x} ELSE S \cup {x}

\* set_peer_config with the remote's address, or with another one.
SetPeerAddress(link) ==
    /\ wired' = Toggle(wired, link)
    /\ UNCHANGED <<genesisMinted, paused, tokenVars, bookVars, wireVars, gone, short, funded>>

\* Deliveries, time and set_peer_config empty and fill an inbound bucket.
BucketTurns(link) ==
    /\ short' = Toggle(short, link)
    /\ UNCHANGED <<genesisMinted, paused, tokenVars, bookVars, wireVars, gone, wired, funded>>

\* Anybody may send lamports to the address of a row that does not exist yet; nobody can
\* take them back.
FundRow(c, id) ==
    /\ ~sale[c][id].known
    /\ funded' = funded \cup {<<c, id>>}
    /\ UNCHANGED <<genesisMinted, paused, tokenVars, bookVars, wireVars, gone, wired, short>>

\* A transfer into sale_escrow (a buyback, or a mistake): free float.
Donate(c, amount) ==
    /\ amount <= wallet[c]
    /\ wallet' = [wallet EXCEPT ![c] = @ - amount]
    /\ escrow' = [escrow EXCEPT ![c] = @ + amount]
    /\ UNCHANGED <<genesisMinted, paused, fees, bookVars, wireVars, gone, gateVars>>

\* A holder burns tokens of their own.
BurnGrs(c, amount) ==
    /\ amount <= wallet[c]
    /\ wallet' = [wallet EXCEPT ![c] = @ - amount]
    /\ gone' = gone + amount
    /\ UNCHANGED <<genesisMinted, paused, fees, escrow, bookVars, wireVars, gateVars>>

\* Every instruction but the two that list a lot and sell from it.
OtherNext ==
    \/ MintGenesis
    \/ \E i \in Ids : CloseSale(i)
    \/ \E d \in Spokes, i \in Ids : PublishSale(d, i)
    \/ \E c, d \in Chains, n \in Amounts : Send(c, d, n)
    \/ \E m \in inflight : LzReceive(m)
    \/ \E c \in Chains, n \in Amounts : WithdrawFee(c, n)
    \/ \E c \in Chains, f \in BOOLEAN : SetPause(c, f)
    \/ \E l \in Rewirable : SetPeerAddress(l)
    \/ \E l \in Crowded : BucketTurns(l)
    \/ \E c \in Chains, i \in Ids : <<c, i>> \in Exposed /\ FundRow(c, i)
    \/ \E c \in Chains, n \in Amounts : Donate(c, n) \/ BurnGrs(c, n)

Next ==
    \/ \E a \in Quotes, g \in LotSizes : AppendSale(a, g)
    \/ \E c \in Chains, i \in Ids, n \in Amounts : Buy(c, i, n)
    \/ OtherNext

Spec == Init /\ [][Next]_vars

-------------------------------------------------------------------------------
(* Properties *)

\* Balances, earmarks and rows never go below zero, and ids stay within the registry.
TypeOK ==
    /\ genesisMinted \in BOOLEAN
    /\ paused \in [Chains -> BOOLEAN]
    /\ wallet \in [Chains -> Nat] /\ fees \in [Chains -> Nat] /\ escrow \in [Chains -> Nat]
    /\ reserved \in [Chains -> Nat] /\ spent \in [Chains -> Nat]
    /\ sale \in [Chains -> [Ids -> [known : BOOLEAN, grs : Nat, asset : Nat]]]
    /\ saleCount \in [Chains -> 0..MaxSales]
    /\ \A m \in inflight : m.src \in Chains /\ m.dst \in Chains /\ m.nonce \in 0..(nonce - 1) /\ m.sd \in Nat
    /\ nonce \in 0..MaxMessages /\ gone \in Nat
    /\ wired \subseteq Links /\ short \subseteq Links /\ funded \subseteq Chains \X Ids

Earmarked(c) == Total([i \in Ids |-> sale[c][i].grs])

\* sales_reserved is exactly what the open lots of the chain have left, through listings,
\* partial purchases, closes, publications and the spoke's mint or burn of a difference;
\* and sale_escrow holds at least that much, so that no buyer of an open lot, no close and
\* no publication is refused for want of inventory.
EarmarksBacked ==
    /\ TypeOK
    /\ \A c \in Chains : reserved[c] = Earmarked(c) /\ reserved[c] <= escrow[c]

Carried == Total([m \in inflight |-> Sd2Ld(m.sd)])

\* The genesis mint is all the GRS there ever is over all chains: what the mints of the
\* chains count, what travels between them and what was destroyed add up to it.  A burn
\* on one side and the mint on the other carry the same amount through the conversion to
\* shared decimals, whatever the order of delivery.
SupplyConserved ==
    Total([c \in Chains |-> Supply(c)]) + Carried + gone
      = IF genesisMinted THEN MAX_SUPPLY ELSE 0

\* What may refuse a delivery for the time being: a pause, a peer address that is not the
\* sender's, an inbound bucket that is short of a transfer, lamports at the address of a
\* row that a sale message would create.
Gated(m) ==
    \/ ~Receivable(m)
    \/ m.kind = "oft" /\ <<m.dst, m.src>> \in short
    \/ m.kind = "sale" /\ ~Creatable(m.dst, m.id)

\* Nothing else refuses tokens that were already burned at the origin: neither the cap of
\* the destination (new_supply <= GRS_MAX_SUPPLY_LD) nor the inventory of its sale book,
\* whatever was listed, bought, closed, donated and delivered before.
OnlyGatesRefuse == \A m \in inflight : Gated(m) \/ ENABLED LzReceive(m)

\* A spoke never remints a lot it has closed or sold out, even when the close overtakes
\* the publication of the lot.
RevokedLotsStayClosed ==
    [][\A c \in Spokes, i \in Ids :
         sale[c][i].known /\ sale[c][i].grs = 0 => sale'[c][i].grs = 0]_vars

===============================================================================
