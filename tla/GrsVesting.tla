------------------------------ MODULE GrsVesting ------------------------------
(***************************************************************************)
(* Vesting of GRS on one chain.  Holders lock tokens into vests (vest), a  *)
(* spoke accepts grants the home chain sends (lz_receive of a GRS.grant    *)
(* message), and anybody pulls what has vested to its beneficiary          *)
(* (release).  All vests share one token account, vest_escrow, and one     *)
(* counter of ids.                                                         *)
(*                                                                         *)
(* A grant needs two calls of the executor: lz_receive_types names the     *)
(* account of the next id, lz_receive later creates exactly that account.  *)
(* Whatever is recorded in between makes the prepared account useless; the *)
(* delivery fails, the endpoint keeps the message and the executor         *)
(* prepares it again.  A grant creates its accounts with a plain           *)
(* create_account, which fails at an address that holds lamports, and      *)
(* anybody may send lamports there first; vest, whose accounts Anchor      *)
(* initialises, takes such an address all the same.                        *)
(***************************************************************************)
EXTENDS Integers, FiniteSets, Totals

CONSTANTS
    MAX_CLIFF, MAX_DURATION,   \* GRS_MAX_CLIFF_SECONDS, GRS_MAX_DURATION_SECONDS
    MAX_SUPPLY,                \* GRS_MAX_SUPPLY_LD
    MAX_U64,                   \* the largest date
    \* --- the inputs and the bounds of an instance ---
    Genesis,                   \* GRS in wallets at the start
    Epoch,                     \* the clock at the start (a start of 0 means now)
    Allocations,               \* amounts locked or granted
    Schedules,                 \* [start, cliff, duration] asked for; start 0 asks for now
    GrantSchedules,            \* [start, cliff, duration] that grants ask for
    Exposed,                   \* ids whose address somebody may send lamports
    MaxVests,                  \* bound on the number of vests and grants
    MaxTime                    \* bound on the clock

ASSUME VestingAssumption ==
    /\ MAX_CLIFF \in Nat /\ MAX_DURATION \in Nat
    /\ MAX_SUPPLY \in Nat /\ MAX_U64 \in Nat /\ Genesis \in 0..MAX_SUPPLY
    /\ MaxVests \in Nat /\ MaxTime \in Nat /\ Epoch \in 1..MaxTime
    /\ Allocations \subseteq Nat /\ Exposed \subseteq 1..MaxVests
    /\ Schedules \cup GrantSchedules \subseteq [start : Nat, cliff : Nat, duration : Nat]

VARIABLES
    now,            \* Clock::unix_timestamp
    vesting,        \* the Vesting accounts, by id - 1; its domain is vesting_count
    wallet,         \* GRS outside vest_escrow
    escrow,         \* vest_escrow
    escrowAccount,  \* the account vest_escrow: "none", "lamports" (and nothing else), "open"
    funded,         \* ids whose address holds lamports and no record
    shut,           \* OFTStore.paused, or a peer address on file that is not the home chain's
    posted,         \* grants the home chain has sent
    cleared,        \* those of them that lz_receive has executed
    prepared        \* the id lz_receive_types last named for a grant; 0 for none

chainVars == <<now, shut>>
addressVars == <<escrowAccount, funded>>
wireVars == <<posted, cleared, prepared>>
vars == <<chainVars, vesting, wallet, escrow, addressVars, wireVars>>

Ids == DOMAIN vesting
VestingCount == Cardinality(Ids)

Init ==
    /\ now = Epoch
    /\ vesting = [i \in {} |-> 0]
    /\ wallet = Genesis /\ escrow = 0
    /\ escrowAccount = "none" /\ funded = {}
    /\ shut = FALSE
    /\ posted = {} /\ cleared = {} /\ prepared = [n \in 1..MaxVests |-> 0]

\* Variant: the fraction rounded up.
VestedRoundedUp(v, t) ==
    IF t < v.cliff_end THEN 0
    ELSE IF v.end <= v.cliff_end \/ t >= v.end THEN v.allocation
    ELSE (v.allocation * (t - v.cliff_end)) \div (v.end - v.cliff_end) + 1

\* Nothing before the cliff, everything from the end on, a straight line in between.
VestedAt(v, t) ==
    IF t < v.cliff_end THEN 0
    ELSE IF v.end <= v.cliff_end \/ t >= v.end THEN v.allocation
    ELSE (v.allocation * (t - v.cliff_end)) \div (v.end - v.cliff_end)

\* Variant: a vest pays out a single time.
ReleasableOnce(v, t) == IF v.released = 0 THEN VestedAt(v, t) ELSE 0

ReleasableAt(v, t) == IF VestedAt(v, t) > v.released THEN VestedAt(v, t) - v.released ELSE 0

ValidSchedule(s) ==
    /\ ~(s.cliff = 0 /\ s.duration = 0)
    /\ s.cliff <= MAX_CLIFF /\ s.duration <= MAX_DURATION

StartOf(s) == IF s.start = 0 THEN now ELSE s.start

\* The checked additions that date a vest.
Datable(s) == StartOf(s) + s.cliff + s.duration <= MAX_U64

\* The record of a new vest; its start may lie in the past.
NewVesting(amount, s) ==
    [allocation |-> amount, released |-> 0, start |-> StartOf(s),
     cliff_end |-> StartOf(s) + s.cliff, end |-> StartOf(s) + s.cliff + s.duration]

\* Writes the account of an id.
Recorded(id, v) == [i \in Ids \cup {id} |-> IF i = id THEN v ELSE vesting[i]]

NextId == VestingCount + 1

Vest(amount, s) ==
    /\ VestingCount + Cardinality(posted \ cleared) < MaxVests
    /\ amount > 0 /\ amount <= wallet
    /\ ValidSchedule(s) /\ Datable(s)
    /\ wallet' = wallet - amount /\ escrow' = escrow + amount
    /\ vesting' = Recorded(NextId, NewVesting(amount, s))
    /\ escrowAccount' = "open" /\ funded' = funded \ {NextId}
    /\ UNCHANGED <<chainVars, wireVars>>

-------------------------------------------------------------------------------
(* Grants *)

Inflight == posted \ cleared
Carried(ms) == Total([m \in ms |-> m.amount])

\* The home chain has burned what it grants: GRS on this chain and on its way to it never
\* exceed the cap.
HomeGrant(amount, s) ==
    /\ VestingCount + Cardinality(Inflight) < MaxVests
    /\ wallet + escrow + Carried(Inflight) + amount <= MAX_SUPPLY
    /\ posted' = posted \cup {[nonce |-> Cardinality(posted) + 1, amount |-> amount, schedule |-> s]}
    /\ UNCHANGED <<chainVars, vesting, wallet, escrow, addressVars, cleared, prepared>>

\* Variant: the account of the first vest named again and again.
GrantRowFirst == 1

GrantRow == NextId

LzReceiveTypes(m) ==
    /\ prepared[m.nonce] # GrantRow
    /\ prepared' = [prepared EXCEPT ![m.nonce] = GrantRow]
    /\ UNCHANGED <<chainVars, vesting, wallet, escrow, addressVars, posted, cleared>>

\* Variant: the account the executor passed is taken without a look at the counter.
RowUsableAny(id) == id > 0

\* init_grant_vesting: the account passed must be that of the next id, and its address
\* must hold no lamports.
RowUsable(id) == id > 0 /\ id = NextId /\ id \notin funded

\* Variant: a grant recorded without its tokens.
CreditSkipped(amount) == UNCHANGED escrow

\* credit_vest_escrow; an empty grant mints nothing.
CreditVestEscrow(amount) ==
    /\ amount > 0 => wallet + escrow + amount <= MAX_SUPPLY
    /\ escrow' = escrow + amount

\* ensure_vest_escrow, which an empty grant does not call.
EnsureVestEscrow(amount) ==
    /\ amount > 0 => escrowAccount # "lamports"
    /\ escrowAccount' = IF amount > 0 THEN "open" ELSE escrowAccount

LzReceive(m) ==
    /\ ~shut
    /\ cleared' = cleared \cup {m}
    /\ ValidSchedule(m.schedule) /\ Datable(m.schedule)
    /\ RowUsable(prepared[m.nonce])
    /\ vesting' = Recorded(prepared[m.nonce], NewVesting(m.amount, m.schedule))
    /\ EnsureVestEscrow(m.amount)
    /\ CreditVestEscrow(m.amount)
    /\ UNCHANGED <<chainVars, wallet, funded, posted, prepared>>

\* set_pause, or set_peer_config with another peer address.
SetShut(flag) ==
    /\ shut' = flag
    /\ UNCHANGED <<now, vesting, wallet, escrow, addressVars, wireVars>>

\* Anybody may send lamports to an address the program will want; nobody can take them back.
FundRow(id) ==
    /\ id \notin Ids /\ funded' = funded \cup {id}
    /\ UNCHANGED <<chainVars, vesting, wallet, escrow, escrowAccount, wireVars>>

FundEscrow ==
    /\ escrowAccount = "none" /\ escrowAccount' = "lamports"
    /\ UNCHANGED <<chainVars, vesting, wallet, escrow, funded, wireVars>>

-------------------------------------------------------------------------------

Release(i) ==
    LET amount == ReleasableAt(vesting[i], now) IN
    /\ amount > 0 /\ escrowAccount = "open" /\ amount <= escrow
    /\ vesting' = [vesting EXCEPT ![i].released = @ + amount]
    /\ escrow' = escrow - amount /\ wallet' = wallet + amount
    /\ UNCHANGED <<chainVars, addressVars, wireVars>>

\* Anybody may send GRS to vest_escrow.
Donate(amount) ==
    /\ escrowAccount = "open" /\ amount > 0 /\ amount <= wallet
    /\ wallet' = wallet - amount /\ escrow' = escrow + amount
    /\ UNCHANGED <<chainVars, vesting, addressVars, wireVars>>

Tick ==
    /\ now < MaxTime /\ now' = now + 1
    /\ UNCHANGED <<shut, vesting, wallet, escrow, addressVars, wireVars>>

Next ==
    \/ \E a \in Allocations, s \in Schedules : Vest(a, s)
    \/ \E a \in Allocations, s \in GrantSchedules : HomeGrant(a, s)
    \/ \E m \in Inflight : LzReceiveTypes(m)
    \/ \E m \in Inflight : LzReceive(m)
    \/ \E i \in Ids : Release(i)
    \/ \E a \in Allocations : Donate(a)
    \/ SetShut(~shut)
    \/ \E id \in Exposed : FundRow(id)
    \/ FundEscrow
    \/ Tick

Spec == Init /\ [][Next]_vars

Sent(n) == {m \in Inflight : m.nonce = n}

\* Time passes, and release is open to anybody: somebody calls it for each vest again and
\* again while it has something to pay.  The executor prepares a grant anew as long as it
\* is in flight, and among its attempts some come before the next vest takes the id.
LiveSpec ==
    /\ Spec /\ WF_vars(Tick)
    /\ \A i \in 1..MaxVests :
         /\ WF_vars(i \in Ids /\ Release(i))
         /\ WF_vars(\E m \in Sent(i) : LzReceiveTypes(m))
         /\ SF_vars(\E m \in Sent(i) : LzReceive(m))

-------------------------------------------------------------------------------
(* Properties *)

\* Records and balances are natural numbers and the ids are 1..vesting_count.
TypeOK ==
    /\ now \in Epoch..MaxTime /\ wallet \in Nat /\ escrow \in Nat
    /\ shut \in BOOLEAN
    /\ escrowAccount \in {"none", "lamports", "open"} /\ funded \subseteq 1..MaxVests
    /\ posted \subseteq [nonce : 1..MaxVests, amount : Nat,
                         schedule : [start : Nat, cliff : Nat, duration : Nat]]
    /\ cleared \subseteq posted /\ prepared \in [1..MaxVests -> 0..MaxVests + 1]
    /\ Ids = 1..VestingCount
    /\ vesting \in [Ids -> [allocation : Nat, released : Nat, start : Nat,
                            cliff_end : Nat, end : Nat]]

Owed(i) == vesting[i].allocation - vesting[i].released

\* vest_escrow holds what every vest has still to pay: vests share the account, and the
\* release of one can never pay out what belongs to another.
EscrowCoversVests ==
    /\ TypeOK
    /\ Total([i \in Ids |-> Owed(i)]) <= escrow

\* No vest runs ahead of its schedule: cumulatively, what was released is within the
\* straight line (in exact rational arithmetic) and nothing leaves before the cliff,
\* however often release is called.
NeverAheadOfSchedule ==
    \A i \in Ids :
      LET v == vesting[i] IN
      /\ now < v.cliff_end => v.released = 0
      /\ v.released <= v.allocation
      /\ now < v.end => v.released * (v.end - v.cliff_end) <= v.allocation * (now - v.cliff_end)
                        \/ v.released = 0

\* A vest is not revocable and its terms never change: only released moves, and upwards.
TermsFixed ==
    [][\A i \in Ids :
         /\ i \in DOMAIN vesting'
         /\ vesting'[i] = [vesting[i] EXCEPT !.released = vesting'[i].released]
         /\ vesting'[i].released >= vesting[i].released]_vars

\* What may refuse a grant whose terms the chain allows: a pause or another peer on file,
\* lamports at the address of the next id (until a holder's vest takes it) or at that of
\* vest_escrow (until a holder's vest opens it).
Gated == shut \/ NextId \in funded \/ escrowAccount = "lamports"

\* A grant is recorded at an id of its own, whatever vests and other grants took the id it
\* was prepared for: nothing but a gate that stays shut from some moment on keeps in
\* flight a grant whose terms the chain allows.
GrantsArrive ==
    ([]<>~Gated) =>
      \A n \in 1..MaxVests :
        (\E m \in Sent(n) : ValidSchedule(m.schedule) /\ Datable(m.schedule)) ~> Sent(n) = {}

\* Every vest that ends within the modelled time is eventually paid out in full: the
\* rounding of partial releases leaves nothing behind.
VestsPaidOut ==
    \A i \in 1..MaxVests :
      (i \in Ids /\ vesting[i].end <= MaxTime) ~> (i \in Ids /\ Owed(i) = 0)

===============================================================================
