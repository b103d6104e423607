-------------------------------- MODULE GrsOft --------------------------------
(***************************************************************************)
(* The GRS bridge where the home chain runs an Adapter store: it locks     *)
(* existing tokens in token_escrow (tvl_ld counts them) and every spoke, a *)
(* Native store, mints and burns.  Each side keeps a PeerConfig per remote *)
(* with its fee and two optional rate limiters, and a PeerRegistry of the  *)
(* remotes that are wired.  The locked mint may be a Token-2022 mint with  *)
(* a transfer fee.                                                         *)
(*                                                                         *)
(* LayerZero keeps every message until an lz_receive succeeds: a delivery  *)
(* the destination refuses (paused, unwired, bucket short) is tried again. *)
(***************************************************************************)
EXTENDS Integers, FiniteSets, Totals

CONSTANTS
    Home, Spokes,            \* the Adapter chain and the Native chains
    MAX_SUPPLY,              \* GRS_MAX_SUPPLY_LD
    LD2SD_RATE,              \* GRS_LD2SD_RATE
    ONE_IN_BASIS_POINTS,
    MAX_PEERS,               \* GRS_MAX_PEERS
    Genesis,                 \* tokens of the mint the home store adapts
    TransferFee,             \* [bps, maximum] of that mint in every epoch of the instance
    \* --- the inputs and the bounds of an instance ---
    Amounts,                 \* amounts sent over the bridge from each chain
    SideAmounts,             \* amounts withdrawn, donated, burned
    Fees,                    \* fee_bps of a peer
    Routes,                  \* <<c, d>>: pairs with traffic
    Wirings,                 \* <<c, d>>: pairs whose peer address an admin changes
    LimitParams,             \* [capacity, rate] an admin sets; Keep leaves a part as it is
    Charged,                 \* routes whose admin sets the fee
    Administered,            \* routes whose admin sets the limits
    Keep,                    \* Option::None in a RateLimitParams
    Pausable,                \* chains that are ever paused
    MaxMessages,             \* bound on the number of messages
    MaxIdle                  \* seconds after which every bucket that fills is full

Chains == {Home} \cup Spokes

ASSUME OftAssumption ==
    /\ Home \notin Spokes /\ IsFiniteSet(Spokes)
    /\ MAX_SUPPLY \in Nat /\ Genesis \in 0..MAX_SUPPLY
    /\ LD2SD_RATE \in Nat \ {0} /\ ONE_IN_BASIS_POINTS \in Nat \ {0} /\ MAX_PEERS \in Nat
    /\ TransferFee \in [bps : 0..ONE_IN_BASIS_POINTS, maximum : Nat]
    /\ Amounts \in [Chains -> SUBSET Nat] /\ SideAmounts \subseteq Nat
    /\ Fees \subseteq 0..(ONE_IN_BASIS_POINTS - 1)
    /\ Routes \cup Wirings \subseteq {w \in Chains \X Chains : w[1] # w[2]}
    /\ LimitParams \subseteq [capacity : Nat \cup {Keep}, rate : Nat \cup {Keep}]
    /\ Keep \notin Nat
    /\ Charged \cup Administered \subseteq Routes /\ Pausable \subseteq Chains
    /\ MaxMessages \in Nat /\ MaxIdle \in Nat
    /\ \A p, q \in LimitParams :
         p.capacity # Keep /\ q.rate \in Nat \ {0} => p.capacity <= MaxIdle * q.rate

VARIABLES
    clock,       \* the last bit of Clock::unix_timestamp
    paused,      \* OFTStore.paused
    peer,        \* PeerConfig of each chain and remote
    registry,    \* PeerRegistry.entries, as the set of their eids
    wallet,      \* tokens of each chain outside the program
    vault,       \* token_escrow: locked tokens and fees at home, fees on a spoke
    tvl,         \* OFTStore.tvl_ld
    posted,      \* messages the endpoints have accepted
    cleared      \* those of them that lz_receive has executed

tokenVars == <<wallet, vault, tvl>>
wireVars == <<posted, cleared>>
vars == <<clock, paused, peer, registry, tokenVars, wireVars>>

-------------------------------------------------------------------------------
(* RateLimiter.  An Option that is None is a limiter that is off.  The code only uses   *)
(* the difference of the time and last_refill_time, and a difference of MaxIdle seconds *)
(* fills every bucket that fills at all: idle is that difference, up to MaxIdle.        *)

NoLimiter == [on |-> FALSE, capacity |-> 0, tokens |-> 0, rate |-> 0, idle |-> 0]

\* Variant: the seconds since the last call forgotten.
RefillUntimed(l, extra) ==
    [l EXCEPT !.tokens = IF @ + extra < l.capacity THEN @ + extra ELSE l.capacity, !.idle = 0]

\* What has dripped in since last_refill_time, and extra, up to the capacity.
Refill(l, extra) ==
    LET new == extra + l.idle * l.rate
    IN  [l EXCEPT !.tokens = IF @ + new < l.capacity THEN @ + new ELSE l.capacity,
                  !.idle = 0]

\* The level try_consume compares an amount with.
Level(l) == Refill(l, 0).tokens

CanConsume(l, amount) == l.on => amount <= Level(l)

\* Variant: the last refill time left where it was.
ConsumeTwice(l, amount) == [Refill(l, 0) EXCEPT !.tokens = @ - amount, !.idle = l.idle]

Consume(l, amount) == [Refill(l, 0) EXCEPT !.tokens = @ - amount]

\* Both are skipped when the limiter is None.
Taken(l, amount) == IF l.on THEN Consume(l, amount) ELSE l
Returned(l, amount) == IF l.on THEN Refill(l, amount) ELSE l

SetCapacity(l, capacity) == [l EXCEPT !.capacity = capacity, !.tokens = capacity, !.idle = 0]

SetRate(l, rate) == [Refill(l, 0) EXCEPT !.rate = rate]

\* A limiter that did not exist starts empty, without capacity.
UpdatedLimiter(l, p) ==
    LET sized == IF p.capacity = Keep THEN l ELSE SetCapacity(l, p.capacity)
        rated == IF p.rate = Keep THEN sized ELSE SetRate(sized, p.rate)
    IN  [rated EXCEPT !.on = TRUE]

-------------------------------------------------------------------------------
(* Amounts *)

Smaller(a, b) == IF a < b THEN a ELSE b
CeilDiv(a, b) == (a + b - 1) \div b

Sd2Ld(sd) == sd * LD2SD_RATE
Ld2Sd(ld) == ld \div LD2SD_RATE
RemoveDust(ld) == ld - (ld % LD2SD_RATE)

\* The fee the mint of a chain withholds from a transfer; only the adapted mint has one.
Withheld(c, amount) ==
    IF c # Home THEN 0
    ELSE Smaller(CeilDiv(amount * TransferFee.bps, ONE_IN_BASIS_POINTS), TransferFee.maximum)

PostFee(c, amount) == amount - Withheld(c, amount)

\* Variant: the amount to send taken without what the mint will withhold from it.
PreFeeIgnored(post) == post

\* What has to be sent for post to arrive.
PreFee(post) ==
    LET raw == CeilDiv(post * ONE_IN_BASIS_POINTS, ONE_IN_BASIS_POINTS - TransferFee.bps)
    IN  IF TransferFee.bps = 0 \/ post = 0 THEN post
        ELSE IF TransferFee.bps = ONE_IN_BASIS_POINTS \/ raw - post >= TransferFee.maximum
        THEN post + TransferFee.maximum
        ELSE raw

CalculateFee(amount, bps) == (amount * bps) \div ONE_IN_BASIS_POINTS

\* compute_fee_and_adjust_amount: taken from the sender, announced to the other side,
\* and the OFT fee between the two.
Adjusted(c, amount, bps) ==
    LET arriving == RemoveDust(IF c = Home THEN PostFee(c, amount) ELSE amount)
        fee == RemoveDust(CalculateFee(arriving, bps))
    IN  [sent |-> IF c = Home THEN PreFee(arriving) ELSE arriving,
         received |-> arriving - fee, fee |-> fee]

-------------------------------------------------------------------------------
(* Messages *)

Inflight == posted \ cleared

Message(c, d, a) == [src |-> c, dst |-> d, sd |-> Ld2Sd(a.received),
                     nonce |-> Cardinality(posted)]

\* The endpoint has no path to a remote that was never wired.
Post(m) ==
    /\ peer[m.src][m.dst].wired
    /\ Cardinality(posted) < MaxMessages
    /\ posted' = posted \cup {m}
    /\ UNCHANGED cleared

-------------------------------------------------------------------------------
(* Transfers *)

Supply(c) == wallet[c] + vault[c]

\* Variant: a lock that is not counted.
LockUncounted(a) ==
    /\ vault' = [vault EXCEPT ![Home] = @ + PostFee(Home, a.sent)]
    /\ UNCHANGED tvl

\* At home everything sent is locked, and tvl_ld counts what the other side may mint.
Lock(a) ==
    /\ tvl' = [tvl EXCEPT ![Home] = @ + a.received]
    /\ vault' = [vault EXCEPT ![Home] = @ + PostFee(Home, a.sent)]

\* On a spoke it is burned but for the fee.
Burn(c, a) == vault' = [vault EXCEPT ![c] = @ + a.fee] /\ UNCHANGED tvl

Send(c, d, amount) ==
    LET p == peer[c][d]
        a == Adjusted(c, amount, p.fee)
    IN
    /\ ~paused[c]
    /\ a.sent <= wallet[c]
    /\ CanConsume(p.outbound, a.received)
    /\ peer' = [peer EXCEPT ![c][d].outbound = Taken(@, a.received),
                            ![c][d].inbound = Returned(@, a.received)]
    /\ wallet' = [wallet EXCEPT ![c] = @ - a.sent]
    /\ (c = Home /\ Lock(a)) \/ (c # Home /\ Burn(c, a))
    /\ Post(Message(c, d, a))
    /\ UNCHANGED <<clock, paused, registry>>

Unlock(ld) ==
    /\ tvl[Home] >= ld /\ vault[Home] >= ld
    /\ tvl' = [tvl EXCEPT ![Home] = @ - ld]
    /\ vault' = [vault EXCEPT ![Home] = @ - ld]
    /\ wallet' = [wallet EXCEPT ![Home] = @ + PostFee(Home, ld)]

MintTo(c, ld) ==
    /\ Supply(c) + ld <= MAX_SUPPLY
    /\ wallet' = [wallet EXCEPT ![c] = @ + ld]
    /\ UNCHANGED <<vault, tvl>>

LzReceive(m) ==
    LET p == peer[m.dst][m.src]
        ld == Sd2Ld(m.sd)
    IN
    /\ ~paused[m.dst] /\ p.wired
    /\ cleared' = cleared \cup {m}
    /\ CanConsume(p.inbound, ld)
    /\ peer' = [peer EXCEPT ![m.dst][m.src].outbound = Returned(@, ld),
                            ![m.dst][m.src].inbound = Taken(@, ld)]
    /\ (m.dst = Home /\ Unlock(ld)) \/ (m.dst # Home /\ MintTo(m.dst, ld))
    /\ UNCHANGED <<clock, paused, registry, posted>>

-------------------------------------------------------------------------------
(* Administration: set_peer_config, set_pause, withdraw_fee *)

\* A zero address removes the entry of the remote; a new one needs a free place.
Upsert(c, d, wire) ==
    /\ wire /\ d \notin registry[c] => Cardinality(registry[c]) < MAX_PEERS
    /\ registry' = [registry EXCEPT ![c] = IF wire THEN @ \cup {d} ELSE @ \ {d}]

SetPeerAddress(c, d, wire) ==
    /\ Upsert(c, d, wire)
    /\ peer' = [peer EXCEPT ![c][d].wired = wire]
    /\ UNCHANGED <<clock, paused, tokenVars, wireVars>>

SetPeerFee(c, d, bps) ==
    /\ bps < ONE_IN_BASIS_POINTS
    /\ peer' = [peer EXCEPT ![c][d].fee = bps]
    /\ UNCHANGED <<clock, paused, registry, tokenVars, wireVars>>

SetOutboundLimit(c, d, l) ==
    /\ peer' = [peer EXCEPT ![c][d].outbound = l]
    /\ UNCHANGED <<clock, paused, registry, tokenVars, wireVars>>

SetInboundLimit(c, d, l) ==
    /\ peer' = [peer EXCEPT ![c][d].inbound = l]
    /\ UNCHANGED <<clock, paused, registry, tokenVars, wireVars>>

\* What update_rate_limiter can make of a limiter: None, or parts of it set.
NextLimiters(l) == {NoLimiter} \cup {UpdatedLimiter(l, p) : p \in LimitParams}

SetPause(c, flag) ==
    /\ paused' = [paused EXCEPT ![c] = flag]
    /\ UNCHANGED <<clock, peer, registry, tokenVars, wireVars>>

Withdrawable(c) == vault[c] - tvl[c]

WithdrawFee(c, amount) ==
    /\ Withdrawable(c) >= amount
    /\ vault' = [vault EXCEPT ![c] = @ - amount]
    /\ wallet' = [wallet EXCEPT ![c] = @ + PostFee(c, amount)]
    /\ UNCHANGED <<clock, paused, peer, registry, tvl, wireVars>>

-------------------------------------------------------------------------------
(* What anybody may do with the token, and time *)

Donate(c, amount) ==
    /\ amount <= wallet[c]
    /\ wallet' = [wallet EXCEPT ![c] = @ - amount]
    /\ vault' = [vault EXCEPT ![c] = @ + PostFee(c, amount)]
    /\ UNCHANGED <<clock, paused, peer, registry, tvl, wireVars>>

BurnGrs(c, amount) ==
    /\ amount <= wallet[c]
    /\ wallet' = [wallet EXCEPT ![c] = @ - amount]
    /\ UNCHANGED <<clock, paused, peer, registry, vault, tvl, wireVars>>

Aged(l) == IF l.on /\ l.idle < MaxIdle THEN [l EXCEPT !.idle = @ + 1] ELSE l

\* A second passes.
Tick ==
    /\ clock' = 1 - clock
    /\ peer' = [c \in Chains |-> [d \in Chains |->
                 [peer[c][d] EXCEPT !.outbound = Aged(@), !.inbound = Aged(@)]]]
    /\ UNCHANGED <<paused, registry, tokenVars, wireVars>>

NewPeer(c, d) ==
    [wired |-> c # Home /\ d = Home, fee |-> 0, outbound |-> NoLimiter, inbound |-> NoLimiter]

\* A spoke is initialised with its home peer; the home admin wires the spokes later.
Init ==
    /\ clock = 0
    /\ paused = [c \in Chains |-> FALSE]
    /\ peer = [c \in Chains |-> [d \in Chains |-> NewPeer(c, d)]]
    /\ registry = [c \in Chains |-> IF c = Home THEN {} ELSE {Home}]
    /\ wallet = [c \in Chains |-> IF c = Home THEN Genesis ELSE 0]
    /\ vault = [c \in Chains |-> 0] /\ tvl = [c \in Chains |-> 0]
    /\ posted = {} /\ cleared = {}

\* Calls that would set what is already set are left out: they change nothing.
Next ==
    \/ \E r \in Routes : \E n \in Amounts[r[1]] : Send(r[1], r[2], n)
    \/ \E m \in Inflight : LzReceive(m)
    \/ \E w \in Wirings : SetPeerAddress(w[1], w[2], ~peer[w[1]][w[2]].wired)
    \/ \E r \in Charged, bps \in Fees : SetPeerFee(r[1], r[2], bps)
    \/ \E r \in Administered :
         \E l \in NextLimiters(peer[r[1]][r[2]].outbound) : SetOutboundLimit(r[1], r[2], l)
    \/ \E r \in Administered :
         \E l \in NextLimiters(peer[r[1]][r[2]].inbound) : SetInboundLimit(r[1], r[2], l)
    \/ \E c \in Pausable : SetPause(c, ~paused[c])
    \/ \E c \in Chains, n \in SideAmounts : WithdrawFee(c, n)
    \/ \E c \in Chains, n \in SideAmounts : Donate(c, n)
    \/ \E c \in Spokes, n \in SideAmounts : BurnGrs(c, n)
    \/ Tick

Spec == Init /\ [][Next]_vars

\* Time passes, and the executors go on delivering as long as something can be delivered.
LiveSpec == Spec /\ WF_vars(Tick) /\ WF_vars(\E m \in Inflight : LzReceive(m))

-------------------------------------------------------------------------------
(* Properties *)

Limiters == [on : BOOLEAN, capacity : Nat, tokens : Nat, rate : Nat, idle : 0..MaxIdle]

\* Balances and buckets are natural numbers and no bucket holds more than its capacity.
TypeOK ==
    /\ clock \in {0, 1}
    /\ paused \in [Chains -> BOOLEAN]
    /\ peer \in [Chains -> [Chains -> [wired : BOOLEAN, fee : Nat,
                                       outbound : Limiters, inbound : Limiters]]]
    /\ \A c, d \in Chains : \A l \in {peer[c][d].outbound, peer[c][d].inbound} :
         l.tokens <= l.capacity
    /\ registry \in [Chains -> SUBSET Chains]
    /\ wallet \in [Chains -> Nat] /\ vault \in [Chains -> Nat] /\ tvl \in [Chains -> Nat]
    /\ posted \subseteq [src : Chains, dst : Chains, sd : Nat, nonce : 0..MaxMessages]
    /\ cleared \subseteq posted

Carried(ms) == Total([m \in ms |-> Sd2Ld(m.sd)])

\* Every GRS on a spoke or between chains is counted in tvl_ld at home, and the home vault
\* holds what tvl_ld counts: neither fees taken out by the admin, nor what the mint
\* withholds on the way in, nor dust, OFT fees and burns eat into what spokes may claim.
LockedBacksSpokes ==
    /\ TypeOK
    /\ Total([c \in Spokes |-> Supply(c)]) + Carried(Inflight) <= tvl[Home]
    /\ \A c \in Chains : tvl[c] <= vault[c]

\* Only the switches of the destination delay a delivery: where the chain runs, the
\* sender is wired and the bucket is full enough, neither tvl_ld nor the vault nor the
\* supply cap refuses tokens that were already locked or burned.
OnlyThrottled ==
    \A m \in Inflight :
      /\ ~paused[m.dst] /\ peer[m.dst][m.src].wired
      /\ CanConsume(peer[m.dst][m.src].inbound, Sd2Ld(m.sd))
      => ENABLED LzReceive(m)

SentOver(r) == Carried({m \in posted : <<m.src, m.dst>> = r})
ArrivedFrom(r) == Carried({m \in cleared : <<m.dst, m.src>> = r})
LimitOf(l) == [on |-> l.on, capacity |-> l.capacity, rate |-> l.rate]

Directions == {"out", "in"} \X Administered
LimiterOf(b) ==
    LET p == peer[b[2][1]][b[2][2]] IN IF b[1] = "out" THEN p.outbound ELSE p.inbound

Buckets ==
    INSTANCE TokenBucket WITH
        limit <- [b \in Directions |-> LimitOf(LimiterOf(b))],
        level <- [b \in Directions |-> Level(LimiterOf(b))],
        passed <- [b \in Directions |-> IF b[1] = "out" THEN SentOver(b[2])
                                        ELSE ArrivedFrom(b[2])],
        returned <- [b \in Directions |-> IF b[1] = "out" THEN ArrivedFrom(b[2])
                                          ELSE SentOver(b[2])]

\* The limiters of every peer are token buckets in both directions: whatever calls come in
\* between and whenever the admin changes a limit, what passes takes tokens that dripped in
\* at the rate in force, or that came back with transfers the other way.
RateLimited == Buckets!Spec

\* A message that nothing but time keeps from being delivered.
Fits(m) ==
    LET p == peer[m.dst][m.src] IN
    /\ ~paused[m.dst] /\ p.wired
    /\ p.inbound.on => p.inbound.capacity >= Sd2Ld(m.sd) /\ p.inbound.rate > 0

Waiting == \E m \in Inflight : Fits(m)

\* As long as a transfer waits that nothing but time keeps from being delivered, deliveries
\* go on: the buckets fill for whoever asks first, and the queue as a whole never stands
\* still.  A single transfer has no such promise: smaller ones may take again and again what
\* a larger one waits for.
QueueMoves ==
    \A k \in 0..(MaxMessages - 1) :
      (Waiting /\ Cardinality(cleared) = k) ~> (~Waiting \/ Cardinality(cleared) > k)

===============================================================================
