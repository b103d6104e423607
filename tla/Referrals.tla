------------------------------- MODULE Referrals -------------------------------
(***************************************************************************)
(* The referral books of the GRAI treasury (programs/grai/src/treasury.rs): *)
(* a forest of lockers bound once to a referrer, the volume books that      *)
(* deposits and claims credit two levels up, and poaching, which sells a    *)
(* locker's slot and moves its volume between the books of both uplines.    *)
(*                                                                          *)
(* One action is one instruction; callers pass every Referrer account the   *)
(* instruction asks for (a missing one fails the instruction).  Payment of  *)
(* a poach moves GRAI and is part of module Grai.                           *)
(***************************************************************************)
EXTENDS Integers, FiniteSets, Totals

CONSTANTS
    Users,      \* lockers, referrers and poachers
    NoOne,      \* Pubkey::default()
    Values,     \* dollar values a deposit or a claim may credit
    MaxValue    \* bound on the value of one book

ASSUME ReferralsAssumption ==
    /\ IsFiniteSet(Users) /\ NoOne \notin Users
    /\ Values \subseteq Nat /\ MaxValue \in Nat

VARIABLES
    book,       \* Referrer accounts
    referrers   \* GraiState.referrers; register_referrer keeps it free of duplicates

vars == <<book, referrers>>

Referrer == [exists : BOOLEAN, referrer : Users \cup {NoOne},
             value : Nat, l1_value : Nat, l2_value : Nat]

NoBook == [exists |-> FALSE, referrer |-> NoOne, value |-> 0, l1_value |-> 0, l2_value |-> 0]

Init == book = [u \in Users |-> NoBook] /\ referrers = {}

-------------------------------------------------------------------------------
(* Shared steps. *)

\* Mutant: a missing book is not created.
EnsureSkipped(books, k) == books

\* ensure_referrer_account: an absent book is created unbound and empty.
Ensure(books, k) == [books EXCEPT ![k].exists = TRUE]

\* register_referrer is called for an account whose book is being created.
Registered(k) == IF book[k].exists THEN {} ELSE {k}

\* Mutant: the walk does not notice that it passes the locker.
HopPastLocker(ref, locker, to, cur) ==
    IF ref[cur] \in {NoOne, cur} THEN "No" ELSE IF ref[cur] = to THEN "Yes" ELSE "Walking"

\* hop: what the account above `cur` decides; ref is the referrer stored for each account,
\* NoOne for an absent or unbound book.
Hop(ref, locker, to, cur) ==
    IF ref[cur] \in {NoOne, cur} THEN "No"
    ELSE IF ref[cur] \in {locker, to} THEN "Yes" ELSE "Walking"

\* A hop of one of the two pointers; a walk that has been decided stays so.
Move(ref, locker, to, w, pointer) ==
    LET decided == Hop(ref, locker, to, w[pointer])
    IN  IF w.status # "Walking" THEN w
        ELSE IF decided # "Walking" THEN [w EXCEPT !.status = decided]
        ELSE [w EXCEPT ![pointer] = ref[@]]

\* Mutant: the pointers are never compared.
MetBlind(w) == FALSE

Met(w) == w.status = "Walking" /\ w.slow = w.fast

\* One turn of the loop: the slow pointer hops once, the fast one twice.
Turn(ref, locker, to, w) ==
    LET hop(v, pointer) == Move(ref, locker, to, v, pointer)
        moved == hop(hop(hop(w, "slow"), "fast"), "fast")
    IN  IF Met(moved) THEN [moved EXCEPT !.status = "Yes"] ELSE moved

Start(locker, to) ==
    [slow |-> to, fast |-> to, status |-> IF to = locker THEN "No" ELSE "Walking"]

\* has_referral_loop: Floyd's slow and fast pointer, one turn of the loop after the other.
\* The loop is unrolled once per account; LoopDecided shows that it never needs more.
LoopStatus(ref, locker, to) ==
    LET turn[n \in 0..Cardinality(Users)] ==
          IF n = 0 THEN Start(locker, to) ELSE Turn(ref, locker, to, turn[n - 1])
    IN  turn[Cardinality(Users)].status

HasReferralLoop(locker, to) == LoopStatus([u \in Users |-> book[u].referrer], locker, to) = "Yes"

\* The uplines credit_books walks: direct referrer, then that one's referrer.
L1Of(books, u) == IF books[u].referrer = u THEN NoOne ELSE books[u].referrer

L2Of(books, u) ==
    LET l1 == L1Of(books, u)
    IN  IF l1 = NoOne \/ books[l1].referrer \in {l1, u} THEN NoOne ELSE books[l1].referrer

\* credit_books reverts when the book of an upline is missing.
UplinePresent(books, u) ==
    \A k \in {L1Of(books, u), L2Of(books, u)} \ {NoOne} : books[k].exists

\* credit_books: v to the locker's value, to L1's l1_value and to L2's l2_value.
CreditBooks(books, u, v) ==
    [k \in Users |->
       IF k = u THEN [books[k] EXCEPT !.value = @ + v]
       ELSE IF k = L1Of(books, u) THEN [books[k] EXCEPT !.l1_value = @ + v]
       ELSE IF k = L2Of(books, u) THEN [books[k] EXCEPT !.l2_value = @ + v]
       ELSE books[k]]

-------------------------------------------------------------------------------

\* Mutants: a late bind forgets the locker's direct volume, or books it one level up.
BindForgetful(u, to) ==
    IF to = NoOne \/ to = u \/ HasReferralLoop(u, to)
    THEN [Ensure(book, u) EXCEPT ![u].referrer = u]
    ELSE [Ensure(Ensure(book, u), to) EXCEPT ![u].referrer = to]

BindWrongLevel(u, to) ==
    IF to = NoOne \/ to = u \/ HasReferralLoop(u, to)
    THEN [Ensure(book, u) EXCEPT ![u].referrer = u]
    ELSE [Ensure(Ensure(book, u), to) EXCEPT ![u].referrer = to,
                                             ![to].l1_value = @ + book[u].l1_value]

\* The sticky bind of mint_referrer: no referrer, oneself or a loop become a self-root;
\* otherwise the referrer's book is ensured and takes over the locker's direct volume.
Bind(u, to) ==
    IF to = NoOne \/ to = u \/ HasReferralLoop(u, to)
    THEN [Ensure(book, u) EXCEPT ![u].referrer = u]
    ELSE [Ensure(Ensure(book, u), to) EXCEPT ![u].referrer = to,
                                             ![to].l2_value = @ + book[u].l1_value]

\* mint_referrer, called by deposit and deposit_sol (which refuse a zero value).
Deposit(u, to, v) ==
    LET binds == book[u].referrer = NoOne
        bound == IF binds THEN Bind(u, to) ELSE book
        l1    == L1Of(bound, u)
    IN  /\ v > 0
        /\ book[u].value + v <= MaxValue                             \* bound
        /\ UplinePresent(bound, u)
        /\ book' = CreditBooks(bound, u, v)
        /\ referrers' = referrers \cup Registered(u)
                          \cup (IF binds /\ l1 # NoOne THEN Registered(l1) ELSE {})

\* The book part of distribute_claim_treasury, called by claim and claim_all: a missing
\* locker book is created unbound, and not registered.
Claim(u, v) ==
    LET books == Ensure(book, u)
    IN  /\ book[u].value + v <= MaxValue                             \* bound
        /\ v > 0 => UplinePresent(books, u)
        /\ book' = CreditBooks(books, u, v)
        /\ UNCHANGED referrers

\* The checked_sub of the seller's two books.
DebitCovered(seller, own, direct) ==
    book[seller].l1_value >= own /\ book[seller].l2_value >= direct

\* execute_poach without its payment: b buys the slot of u from its referrer.  The books
\* are written one after the other, each read after the writes before it.
Poach(b, u) ==
    LET own     == book[u].value
        direct  == book[u].l1_value
        seller  == book[u].referrer
        oldL2   == book[seller].referrer
        debits  == seller # u
        debits2 == debits /\ oldL2 \notin {NoOne, seller, u}
        sold    == IF debits
                   THEN [book EXCEPT ![seller].l1_value = @ - own, ![seller].l2_value = @ - direct]
                   ELSE book
        sold2   == IF debits2 THEN [sold EXCEPT ![oldL2].l2_value = @ - own] ELSE sold
        bought  == IF b = u
                   THEN [sold2 EXCEPT ![u].referrer = u]
                   ELSE [Ensure(sold2, b) EXCEPT ![b].l1_value = @ + own,
                                                 ![b].l2_value = @ + direct,
                                                 ![u].referrer = b]
        newL2   == IF b = u THEN NoOne ELSE book[b].referrer
    IN  /\ seller # NoOne /\ b # seller                    \* preview_poach
        /\ own + direct > 0
        /\ ~HasReferralLoop(u, b)
        /\ debits => DebitCovered(seller, own, direct)
        /\ debits2 => sold[oldL2].l2_value >= own
        /\ book' = IF newL2 \notin {NoOne, b, u}
                   THEN [bought EXCEPT ![newL2].l2_value = @ + own]
                   ELSE bought
        /\ referrers' = referrers \cup Registered(b)

Next ==
    \/ \E u \in Users, to \in Users \cup {NoOne}, v \in Values : Deposit(u, to, v)
    \/ \E u \in Users, v \in Values : Claim(u, v)
    \/ \E b \in Users, u \in Users : Poach(b, u)

Spec == Init /\ [][Next]_vars

-------------------------------------------------------------------------------
(* Properties. *)

\* Lockers bound to r, other than r itself.
Children(r) == {c \in Users \ {r} : book[c].referrer = r}

\* Books, their amounts and the registry have their types; no checked_sub goes below 0.
TypeOK == book \in [Users -> Referrer] /\ referrers \subseteq Users

\* The first Cardinality(Users) accounts of the way up from k in ref; NoOne once it has
\* ended.  A way that has not ended by then never ends.
Upline(ref, k) ==
    LET up[n \in 0..Cardinality(Users)] ==
          IF n = 0 THEN k
          ELSE IF up[n - 1] = NoOne \/ ref[up[n - 1]] = up[n - 1] THEN NoOne
          ELSE ref[up[n - 1]]
    IN  up

\* The referral graph stays a forest through any mix of binds and poaches: every way up
\* ends at a self-rooted or unbound account (has_referral_loop guards both writers).
Acyclic ==
    \A k \in Users :
      Upline([u \in Users |-> book[u].referrer], k)[Cardinality(Users)] = NoOne

\* Floyd's walk ends within one turn per account and its answer is right on every graph
\* that adds edges to the present books (before the first bind: every graph, the cyclic
\* ones too): it finds the loop a bind would close and one that contains neither argument,
\* and takes no straight path for a loop.
LoopDecided ==
    LET free == {u \in Users : book[u].referrer = NoOne}
    IN  \A edge \in [free -> Users \cup {NoOne}], locker, to \in Users :
          LET ref    == [u \in Users |-> IF u \in free THEN edge[u] ELSE book[u].referrer]
              up     == Upline(ref, to)
              loops  == /\ to # locker
                        /\ \/ \E n \in 1..Cardinality(Users) : up[n] \in {locker, to}
                           \/ up[Cardinality(Users)] # NoOne
          IN  LoopStatus(ref, locker, to) = IF loops THEN "Yes" ELSE "No"

\* The second-level book is exact: l2_value of r is the first-level volume of its children,
\* after every credit, late bind and poach (the poach shifts three books, or five, and
\* none of them goes below zero).
L2Exact ==
    /\ TypeOK
    /\ \A r \in Users :
         book[r].l2_value = Total([c \in Children(r) |-> book[c].l1_value])

\* The first-level book of r never exceeds the volume its present children brought, through
\* any mix of credits, late binds and poaches with aliased books: no volume is booked twice.
L1NeverAhead ==
    \A r \in Users :
      book[r].l1_value <= Total([c \in Children(r) |-> book[c].value])

\* The books a locker's credits need exist, so neither claim nor a later deposit is ever
\* refused because of what referrers and poachers did (InvalidRemainingAccounts).
CreditNeverBlocked == \A u \in Users : UplinePresent(book, u)

\* The documents on the first level: "L1/L2 cannot drift behind locker `value`"
\* (programs/grai/README.md, M-04).
L1Exact ==
    \A r \in Users :
      book[r].l1_value = Total([c \in Children(r) |-> book[c].value])

===============================================================================
