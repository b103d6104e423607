---------------------------- MODULE ReferralsProofs ----------------------------
(***************************************************************************)
(* Referrals for any number of wallets: has_referral_loop ends on every    *)
(* graph and its answer is right, so binds and poaches keep the books a    *)
(* forest; the second level is exact, the first never ahead, and no credit *)
(* fails.                                                                  *)
(* A recursive function is the only one that satisfies its equation, and   *)
(* satisfies it because a step can be repeated any number of times.        *)
(***************************************************************************)
EXTENDS Referrals, TotalsProofs

Graphs == [Users -> Users \cup {NoOne}]
Statuses == {"Walking", "Yes", "No"}
Walks == [slow : Users, fast : Users, status : Statuses]

LEMMA Constants ==
    /\ IsFiniteSet(Users) /\ NoOne \notin Users
    /\ Cardinality(Users) \in Nat
BY ReferralsAssumption, FS_CardinalityType

\* A hop decides, or takes its pointer to the account above.
LEMMA MoveFacts ==
    ASSUME NEW ref \in Graphs, NEW locker \in Users, NEW to \in Users, NEW w \in Walks
    PROVE  /\ Move(ref, locker, to, w, "slow") \in Walks
           /\ Move(ref, locker, to, w, "fast") \in Walks
           /\ w.status # "Walking" => /\ Move(ref, locker, to, w, "slow") = w
                                      /\ Move(ref, locker, to, w, "fast") = w
  BY DEF Move, Hop, Walks, Graphs, Statuses

LEMMA TurnFacts ==
    ASSUME NEW ref \in Graphs, NEW locker \in Users, NEW to \in Users, NEW w \in Walks
    PROVE  /\ Turn(ref, locker, to, w) \in Walks
           /\ w.status # "Walking" => Turn(ref, locker, to, w) = w
<1> DEFINE a == Move(ref, locker, to, w, "slow")
           b == Move(ref, locker, to, a, "fast")
           c == Move(ref, locker, to, b, "fast")
<1>1. a \in Walks /\ (w.status # "Walking" => a = w)
    BY MoveFacts
<1>2. b \in Walks /\ (a.status # "Walking" => b = a)
    BY <1>1, MoveFacts
<1>3. c \in Walks /\ (b.status # "Walking" => c = b)
    BY <1>2, MoveFacts
<1>4. Turn(ref, locker, to, w) = IF Met(c) THEN [c EXCEPT !.status = "Yes"] ELSE c
    BY DEF Turn
<1> HIDE DEF a, b, c
<1>5. [c EXCEPT !.status = "Yes"] \in Walks
    BY <1>3 DEF Walks, Statuses
<1> QED BY <1>1, <1>2, <1>3, <1>4, <1>5 DEF Met

-------------------------------------------------------------------------------
(* Recursion over 0..N. *)

\* Induction up to a bound, over a set.
LEMMA CountUp ==
    ASSUME NEW N \in Nat, NEW G, 0 \in G, \A n \in 0..N : n # N /\ n \in G => n + 1 \in G
    PROVE  \A n \in 0..N : n \in G
<1> DEFINE T == {n \in 0..N : n \notin G}
<1> SUFFICES ASSUME T # {} PROVE FALSE
    OBVIOUS
<1>1. T \in SUBSET Nat
    OBVIOUS
<1>2. PICK m \in T : \A k \in T : ~(k < m)
    BY <1>1, LeastNatural
<1>3. m # 0 /\ m \in Nat /\ m <= N
    OBVIOUS
<1>4. m - 1 \in 0..N /\ m - 1 # N /\ m - 1 \in G
    BY <1>2, <1>3
<1> QED BY <1>3, <1>4

\* The ways to take a step N times from s.
Runs(N, W, s, step) == {f \in [0..N -> W] : f[0] = s /\ \A k \in 1..N : f[k] = step[f[k - 1]]}

\* A step can be repeated any number of times.
LEMMA Repeated ==
    ASSUME NEW N \in Nat, NEW W, NEW s \in W, NEW step \in [W -> W]
    PROVE  Runs(N, W, s, step) # {}
<1> DEFINE G == {n \in 0..N : Runs(n, W, s, step) # {}}
<1>1. 0 \in G
  <2> DEFINE g == [k \in 0..0 |-> s]
  <2>1. g \in [0..0 -> W] /\ g[0] = s /\ 0 \in 0..N
    OBVIOUS
  <2> HIDE DEF g
  <2>2. \A k \in 1..0 : g[k] = step[g[k - 1]]
    OBVIOUS
  <2>3. g \in Runs(0, W, s, step)
    BY <2>1, <2>2 DEF Runs
  <2> QED BY <2>1, <2>3
<1>2. ASSUME NEW n \in 0..N, n # N, n \in G
      PROVE  n + 1 \in G
  <2>1. PICK f \in Runs(n, W, s, step) : TRUE
    BY <1>2
  <2>2. f \in [0..n -> W] /\ f[0] = s /\ \A k \in 1..n : f[k] = step[f[k - 1]]
    BY DEF Runs
  <2> DEFINE g == [k \in 0..(n + 1) |-> IF k = n + 1 THEN step[f[n]] ELSE f[k]]
  <2>3. g \in [0..(n + 1) -> W]
    BY <2>2
  <2>4. g[0] = s /\ \A k \in 1..(n + 1) : g[k] = step[g[k - 1]]
    BY <2>2
  <2>5. n + 1 \in 0..N
    BY <1>2
  <2> HIDE DEF g
  <2>6. g \in Runs(n + 1, W, s, step)
    BY <2>3, <2>4 DEF Runs
  <2> QED BY <2>5, <2>6
<1> HIDE DEF G
<1>3. N \in G
    BY <1>1, <1>2, CountUp
<1> QED BY <1>3 DEF G

\* The turns of a walk, as a function of their number.
LEMMA WalkUnfolds ==
    ASSUME NEW ref \in Graphs, NEW locker \in Users, NEW to \in Users
    PROVE  LET N == Cardinality(Users) IN
           \E turn \in [0..N -> Walks] :
             /\ turn[0] = Start(locker, to)
             /\ \A n \in 1..N : turn[n] = Turn(ref, locker, to, turn[n - 1])
             /\ LoopStatus(ref, locker, to) = turn[N].status
<1> DEFINE N == Cardinality(Users)
           step == [w \in Walks |-> Turn(ref, locker, to, w)]
           Body(f) == [n \in 0..N |-> IF n = 0 THEN Start(locker, to)
                                      ELSE Turn(ref, locker, to, f[n - 1])]
           turn == CHOOSE f : f = Body(f)
<1>0. N \in Nat
    BY Constants
<1>1. step \in [Walks -> Walks]
    BY TurnFacts
<1>2. Start(locker, to) \in Walks
    BY DEF Start, Walks, Statuses
<1>3. LoopStatus(ref, locker, to) = turn[N].status
    BY DEF LoopStatus
<1> HIDE DEF N
<1>4. PICK f \in Runs(N, Walks, Start(locker, to), step) : TRUE
  <2> HIDE DEF step
  <2> QED BY <1>0, <1>1, <1>2, Repeated
<1>4a. /\ f \in [0..N -> Walks] /\ f[0] = Start(locker, to)
       /\ \A k \in 1..N : f[k] = step[f[k - 1]]
  <2> HIDE DEF step
  <2> QED BY <1>4 DEF Runs
<1>5. \A k \in 1..N : f[k] = Turn(ref, locker, to, f[k - 1])
  <2>1. \A w \in Walks : step[w] = Turn(ref, locker, to, w)
    OBVIOUS
  <2> HIDE DEF step
  <2>2. \A k \in 1..N : k - 1 \in 0..N /\ f[k - 1] \in Walks
    BY <1>0, <1>4a
  <2> QED BY <1>4a, <2>1, <2>2
<1>6. f = Body(f)
    BY <1>0, <1>4a, <1>5
<1>7. turn = Body(turn)
    BY <1>6
<1> HIDE DEF turn
<1>8. DOMAIN turn = 0..N /\ turn[0] = Start(locker, to)
    BY <1>0, <1>7
<1>9. \A n \in 1..N : turn[n] = Turn(ref, locker, to, turn[n - 1])
    BY <1>0, <1>7
<1>10. \A n \in 0..N : n \in {k \in 0..N : turn[k] \in Walks}
  <2> DEFINE G == {k \in 0..N : turn[k] \in Walks}
  <2>1. 0 \in G
    BY <1>0, <1>2, <1>8
  <2>2. \A n \in 0..N : n # N /\ n \in G => n + 1 \in G
    <3> SUFFICES ASSUME NEW n \in 0..N, n # N, n \in G PROVE n + 1 \in G
      OBVIOUS
    <3>1. n + 1 \in 1..N /\ (n + 1) - 1 = n
      BY <1>0
    <3>2. turn[n + 1] = Turn(ref, locker, to, turn[n])
      BY <3>1, <1>9
    <3> QED BY <3>1, <3>2, TurnFacts
  <2> HIDE DEF G
  <2>3. \A n \in 0..N : n \in G
    BY <1>0, <2>1, <2>2, CountUp
  <2> QED BY <2>3 DEF G
<1>11. turn \in [0..N -> Walks]
  <2>1. turn = [n \in 0..N |-> turn[n]]
    BY <1>7
  <2> QED BY <1>10, <2>1
<1> QED BY <1>3, <1>8, <1>9, <1>11 DEF N

-------------------------------------------------------------------------------
(* Ways. *)

\* The account above x; a way that has ended stays so.
Above(ref, x) == IF x = NoOne \/ ref[x] = x THEN NoOne ELSE ref[x]

\* The ways up from `to`, twice as long as there are accounts: as far as the fast pointer may
\* get while the slow one meets every account.
Ways(ref, to) ==
    {p \in [0..(2 * Cardinality(Users)) -> Users \cup {NoOne}] :
       p[0] = to /\ \A k \in 1..(2 * Cardinality(Users)) : p[k] = Above(ref, p[k - 1])}

LEMMA AboveFacts ==
    ASSUME NEW ref \in Graphs, NEW x \in Users \cup {NoOne}
    PROVE  /\ Above(ref, x) \in Users \cup {NoOne}
           /\ Above(ref, x) # NoOne => x \in Users /\ Above(ref, x) = ref[x] /\ ref[x] # x
           /\ x \in Users /\ ref[x] \notin {NoOne, x} => Above(ref, x) = ref[x]
           /\ x = NoOne => Above(ref, x) = NoOne
BY Constants DEF Above, Graphs

LEMMA WayExists ==
    ASSUME NEW ref \in Graphs, NEW to \in Users
    PROVE  Ways(ref, to) # {}
<1> DEFINE N == 2 * Cardinality(Users)
           W == Users \cup {NoOne}
           step == [x \in W |-> Above(ref, x)]
<1>0. N \in Nat /\ to \in W
    BY Constants
<1>1. step \in [W -> W] /\ \A x \in W : step[x] = Above(ref, x)
    BY AboveFacts
<1> HIDE DEF N, W, step
<1>2. PICK f \in Runs(N, W, to, step) : TRUE
    BY <1>0, <1>1, Repeated
<1>3. f \in [0..N -> W] /\ f[0] = to /\ \A k \in 1..N : f[k] = step[f[k - 1]]
    BY <1>2 DEF Runs
<1>4. \A k \in 1..N : k - 1 \in 0..N /\ f[k - 1] \in W
    BY <1>0, <1>3
<1>5. \A k \in 1..N : f[k] = Above(ref, f[k - 1])
    BY <1>1, <1>3, <1>4
<1>6. f \in Ways(ref, to)
    BY <1>3, <1>5 DEF Ways, N, W
<1> QED BY <1>6

\* A way one account at a time.
LEMMA WayFacts ==
    ASSUME NEW ref \in Graphs, NEW to \in Users, NEW p \in Ways(ref, to)
    PROVE  LET N == Cardinality(Users) IN
           /\ N \in Nat /\ 2 * N \in Nat /\ N <= 2 * N /\ p[0] = to
           /\ \A k \in 0..(2 * N) : p[k] \in Users \cup {NoOne}
           /\ \A k \in 0..(2 * N) : k # 2 * N => k + 1 \in 0..(2 * N) /\ p[k + 1] = Above(ref, p[k])
<1> DEFINE N == Cardinality(Users)
           M == 2 * N
<1>1. N \in Nat /\ M \in Nat /\ N <= M
    BY Constants
<1>2. /\ p \in [0..M -> Users \cup {NoOne}] /\ p[0] = to
      /\ \A k \in 1..M : p[k] = Above(ref, p[k - 1])
    BY DEF Ways
<1> HIDE DEF M
<1>3. ASSUME NEW k \in 0..M, k # M PROVE k + 1 \in 0..M /\ p[k + 1] = Above(ref, p[k])
  <2>1. k + 1 \in 1..M /\ (k + 1) - 1 = k /\ k + 1 \in 0..M
    BY <1>1, <1>3
  <2> QED BY <1>2, <2>1
<1> QED BY <1>1, <1>2, <1>3 DEF M

\* Where a way has ended it stays ended.
LEMMA WayEnded ==
    ASSUME NEW ref \in Graphs, NEW to \in Users, NEW p \in Ways(ref, to),
           NEW k \in 0..(2 * Cardinality(Users)), p[k] = NoOne,
           NEW m \in 0..(2 * Cardinality(Users)), k <= m
    PROVE  p[m] = NoOne
<1> DEFINE M == 2 * Cardinality(Users)
           G == {n \in 0..M : k <= n => p[n] = NoOne}
<1>1. /\ M \in Nat /\ k \in 0..M /\ m \in 0..M
      /\ \A n \in 0..M : n # M => n + 1 \in 0..M /\ p[n + 1] = Above(ref, p[n])
    BY WayFacts
<1> HIDE DEF M
<1>2. 0 \in G
    BY <1>1
<1>3. \A n \in 0..M : n # M /\ n \in G => n + 1 \in G
  <2> SUFFICES ASSUME NEW n \in 0..M, n # M, n \in G PROVE n + 1 \in G
    OBVIOUS
  <2>1. n + 1 \in 0..M /\ p[n + 1] = Above(ref, p[n])
    BY <1>1
  <2>2. CASE k <= n
    BY <2>1, <2>2 DEF Above
  <2>3. CASE ~(k <= n)
    <3>1. k = n + 1 \/ ~(k <= n + 1)
      BY <1>1, <2>3
    <3> QED BY <2>1, <3>1
  <2> QED BY <2>2, <2>3
<1> HIDE DEF G
<1>4. m \in G
    BY <1>1, <1>2, <1>3, CountUp
<1> QED BY <1>1, <1>4 DEF G

\* Where a way has come back to an account it repeats itself.
LEMMA WayRepeats ==
    ASSUME NEW ref \in Graphs, NEW to \in Users, NEW p \in Ways(ref, to),
           NEW i \in Nat, NEW d \in Nat, i + d <= 2 * Cardinality(Users), p[i] = p[i + d],
           NEW m \in Nat, i <= m, m + d <= 2 * Cardinality(Users)
    PROVE  p[m] = p[m + d]
<1> DEFINE M == 2 * Cardinality(Users)
           G == {n \in 0..M : i <= n /\ n + d <= M => p[n] = p[n + d]}
<1>1. /\ M \in Nat /\ i + d <= M /\ m + d <= M
      /\ \A n \in 0..M : n # M => n + 1 \in 0..M /\ p[n + 1] = Above(ref, p[n])
    BY WayFacts
<1> HIDE DEF M
<1>2. 0 \in G
  <2>1. i <= 0 => i = 0 /\ 0 + d = i + d
    OBVIOUS
  <2> QED BY <1>1, <2>1
<1>3. \A n \in 0..M : n # M /\ n \in G => n + 1 \in G
  <2> SUFFICES ASSUME NEW n \in 0..M, n # M, n \in G PROVE n + 1 \in G
    OBVIOUS
  <2>1. n + 1 \in 0..M
    BY <1>1
  <2> SUFFICES ASSUME i <= n + 1, (n + 1) + d <= M PROVE p[n + 1] = p[(n + 1) + d]
    BY <2>1
  <2>2. CASE i = n + 1
    BY <2>2
  <2>3. CASE i # n + 1
    <3>1. i <= n /\ n + d <= M /\ n + d \in 0..M /\ n + d # M /\ (n + d) + 1 = (n + 1) + d
      BY <1>1, <2>3
    <3>2. p[n] = p[n + d]
      BY <3>1
    <3> HIDE DEF G
    <3>3. p[n + 1] = Above(ref, p[n]) /\ p[(n + d) + 1] = Above(ref, p[n + d])
      BY <1>1, <3>1
    <3> QED BY <3>1, <3>2, <3>3
  <2> QED BY <2>2, <2>3
<1>4. m \in 0..M
    BY <1>1
<1> HIDE DEF G
<1>5. m \in G
    BY <1>1, <1>2, <1>3, <1>4, CountUp
<1> QED BY <1>1, <1>5 DEF G

\* ... and never ends.
LEMMA RepeatingNeverEnds ==
    ASSUME NEW ref \in Graphs, NEW to \in Users, NEW p \in Ways(ref, to),
           NEW i \in Nat, NEW d \in Nat \ {0}, i + d <= 2 * Cardinality(Users),
           p[i] = p[i + d], p[i] # NoOne,
           NEW k \in 0..(2 * Cardinality(Users))
    PROVE  p[k] # NoOne
<1> DEFINE M == 2 * Cardinality(Users)
           T == {n \in 0..M : p[n] = NoOne}
<1>1. M \in Nat /\ i + d <= M /\ k \in 0..M
    BY WayFacts
<1>2. \A n \in 0..M : p[n] = NoOne => i + d < n
  <2> SUFFICES ASSUME NEW n \in 0..M, p[n] = NoOne, ~(i + d < n) PROVE FALSE
    OBVIOUS
  <2>1. n <= i + d /\ i + d \in 0..M
    BY <1>1
  <2> QED BY <2>1, WayEnded
<1>3. ASSUME NEW n \in T PROVE n - d \in T /\ n - d < n
  <2>1. n \in 0..M /\ p[n] = NoOne /\ i + d < n
    BY <1>2
  <2>2. n - d \in Nat /\ i <= n - d /\ (n - d) + d = n /\ n <= M /\ n - d \in 0..M /\ n - d < n
    BY <1>1, <2>1
  <2> HIDE DEF T
  <2>3. p[n - d] = p[n]
    <3>1. PICK m \in Nat : m = n - d
      BY <2>2
    <3>2. i <= m /\ m + d <= 2 * Cardinality(Users) /\ m + d = n
      BY <2>2, <3>1 DEF M
    <3>3. p[m] = p[m + d]
      BY <3>2, WayRepeats
    <3> QED BY <3>1, <3>2, <3>3
  <2> QED BY <2>1, <2>2, <2>3 DEF T
<1> HIDE DEF M
<1>4. T \in SUBSET Nat
    OBVIOUS
<1>5. k \notin T
  <2> SUFFICES ASSUME k \in T PROVE FALSE
    OBVIOUS
  <2> HIDE DEF T
  <2>1. PICK m \in T : \A n \in T : ~(n < m)
    BY <1>4, LeastNatural
  <2> QED BY <1>3, <2>1
<1> QED BY <1>1, <1>5 DEF M

\* A way that has not ended after as many steps as there are accounts has come back to one.
LEMMA WayComesBack ==
    ASSUME NEW ref \in Graphs, NEW to \in Users, NEW p \in Ways(ref, to),
           p[Cardinality(Users)] # NoOne
    PROVE  \E i \in Nat, d \in Nat \ {0} : i + d <= Cardinality(Users) /\ p[i] = p[i + d]
<1> DEFINE N == Cardinality(Users)
           f == [k \in 0..N |-> p[k]]
<1>1. /\ N \in Nat /\ N <= 2 * N /\ 2 * N \in Nat
      /\ \A k \in 0..(2 * N) : p[k] \in Users \cup {NoOne}
    BY WayFacts
<1>2. \A k \in 0..N : k \in 0..(2 * N) /\ N \in 0..(2 * N) /\ k <= N
    BY <1>1
<1>3. \A k \in 0..N : p[k] # NoOne
    BY <1>2, WayEnded
<1>4. f \in [0..N -> Users]
    BY <1>1, <1>2, <1>3
<1>5. IsFiniteSet(0..N) /\ Cardinality(0..N) = N + 1
    BY <1>1, FS_Interval
<1>6. PICK x, y \in 0..N : x # y /\ f[x] = f[y]
  <2> HIDE DEF f
  <2>1. Cardinality(Users) < Cardinality(0..N)
    BY <1>1, <1>5
  <2> QED BY <1>4, <1>5, <2>1, Constants, FS_PigeonHole
<1>7. p[x] = p[y] /\ x \in Nat /\ y \in Nat /\ x <= N /\ y <= N
    BY <1>1, <1>6
<1> HIDE DEF N
<1>8. CASE x < y
  <2>1. y - x \in Nat \ {0} /\ x + (y - x) = y
    BY <1>7, <1>8
  <2> QED BY <1>7, <2>1 DEF N
<1>9. CASE y < x
  <2>1. x - y \in Nat \ {0} /\ y + (x - y) = x
    BY <1>7, <1>9
  <2> QED BY <1>7, <2>1 DEF N
<1> QED BY <1>6, <1>7, <1>8, <1>9

\* A hop of the fast pointer, then of a pointer of a walk that was not yet decided.
LEMMA HopFacts ==
    ASSUME NEW ref \in Graphs, NEW locker \in Users, NEW to \in Users, NEW w \in Walks,
           w.status = "Walking"
    PROVE  LET s == Move(ref, locker, to, w, "slow")
               f == Move(ref, locker, to, w, "fast")
           IN  /\ s.status = "Walking" =>
                    s.slow = Above(ref, w.slow) /\ s.fast = w.fast
               /\ s.status = "Yes" => Above(ref, w.slow) \in {locker, to}
               /\ f.status = "Walking" =>
                    f.fast = Above(ref, w.fast) /\ f.slow = w.slow
               /\ f.status = "Yes" => Above(ref, w.fast) \in {locker, to}
BY Constants DEF Move, Hop, Walks, Graphs, Statuses, Above

\* What one turn does to an undecided walk: the slow pointer goes up one account and the fast
\* one two, and the walk is called a loop for one of four reasons.
LEMMA TurnMoves ==
    ASSUME NEW ref \in Graphs, NEW locker \in Users, NEW to \in Users, NEW w \in Walks
    PROVE  LET t  == Turn(ref, locker, to, w)
               s1 == Above(ref, w.slow)
               f1 == Above(ref, w.fast)
               f2 == Above(ref, f1)
           IN  /\ w.status # "Walking" => t = w
               /\ t.status = "Walking" =>
                    w.status = "Walking" /\ t.slow = s1 /\ t.fast = f2 /\ s1 # f2
               /\ w.status = "Walking" /\ t.status = "Yes" =>
                    {s1, f1, f2} \cap {locker, to} # {} \/ (s1 = f2 /\ s1 # NoOne)
<1> DEFINE a == Move(ref, locker, to, w, "slow")
           b == Move(ref, locker, to, a, "fast")
           c == Move(ref, locker, to, b, "fast")
           t == Turn(ref, locker, to, w)
           s1 == Above(ref, w.slow)
           f1 == Above(ref, w.fast)
           f2 == Above(ref, f1)
<1>1. a \in Walks /\ b \in Walks /\ c \in Walks
    BY MoveFacts
<1>2. t = IF Met(c) THEN [c EXCEPT !.status = "Yes"] ELSE c
    BY DEF Turn
<1>3. /\ w.status # "Walking" => t = w
      /\ a.status # "Walking" => b = a
      /\ b.status # "Walking" => c = b
    BY <1>1, MoveFacts, TurnFacts
<1>4. w.status = "Walking" =>
        /\ a.status = "Walking" => a.slow = s1 /\ a.fast = w.fast
        /\ a.status = "Yes" => s1 \in {locker, to}
    BY HopFacts
<1>5. a.status = "Walking" =>
        /\ b.status = "Walking" => b.fast = Above(ref, a.fast) /\ b.slow = a.slow
        /\ b.status = "Yes" => Above(ref, a.fast) \in {locker, to}
    BY <1>1, HopFacts
<1>6. b.status = "Walking" =>
        /\ c.status = "Walking" => c.fast = Above(ref, b.fast) /\ c.slow = b.slow
        /\ c.status = "Yes" => Above(ref, b.fast) \in {locker, to}
    BY <1>1, HopFacts
<1>7. /\ a.status \in Statuses /\ b.status \in Statuses /\ c.status \in Statuses
      /\ w.status \in Statuses /\ c.slow \in Users /\ NoOne \notin Users
      /\ [c EXCEPT !.status = "Yes"].status = "Yes"
    BY <1>1, Constants DEF Walks
<1>8. (c.status = "Walking" /\ c.slow = c.fast) <=> Met(c)
    BY DEF Met
<1>8a. w.status = "Walking" => ((a.status = "Walking") \/ (a.status # "Walking"))
    OBVIOUS
<1> HIDE DEF a, b, c, t
<1>9. c.status = "Walking" => w.status = "Walking" /\ c.slow = s1 /\ c.fast = f2
  <2> SUFFICES ASSUME c.status = "Walking"
               PROVE  w.status = "Walking" /\ c.slow = s1 /\ c.fast = f2
    OBVIOUS
  <2>1. b.status = "Walking"
    BY <1>3
  <2>2. a.status = "Walking"
    BY <1>3, <2>1
  <2>3. w.status = "Walking"
    BY <2>2, MoveFacts DEF a
  <2> QED BY <1>4, <1>5, <1>6, <2>1, <2>2, <2>3
<1>10. w.status = "Walking" /\ c.status = "Yes" => {s1, f1, f2} \cap {locker, to} # {}
  <2> SUFFICES ASSUME w.status = "Walking", c.status = "Yes"
               PROVE  s1 \in {locker, to} \/ f1 \in {locker, to} \/ f2 \in {locker, to}
    OBVIOUS
  <2>1. CASE a.status # "Walking"
    BY <1>3, <1>4, <2>1
  <2>2. CASE a.status = "Walking" /\ b.status # "Walking"
    BY <1>3, <1>4, <1>5, <2>2
  <2>3. CASE a.status = "Walking" /\ b.status = "Walking"
    BY <1>4, <1>5, <1>6, <2>3
  <2> QED BY <2>1, <2>2, <2>3
<1>11. t.status = "Walking" => t = c /\ c.status = "Walking" /\ c.slow # c.fast
    BY <1>2, <1>7, <1>8
<1>12. t.status = "Yes" => c.status = "Yes" \/ (c.status = "Walking" /\ c.slow = c.fast)
    BY <1>2, <1>7, <1>8
<1>13. t.status = "Walking" => w.status = "Walking" /\ t.slow = s1 /\ t.fast = f2 /\ s1 # f2
    BY <1>9, <1>11
<1>14. w.status = "Walking" /\ t.status = "Yes" =>
         {s1, f1, f2} \cap {locker, to} # {} \/ (s1 = f2 /\ s1 # NoOne)
    BY <1>7, <1>9, <1>10, <1>12
<1> HIDE DEF s1, f1, f2
<1> QED BY <1>3, <1>13, <1>14 DEF t, s1, f1, f2

\* The turns of a walk one after the other.
TurnsOf(ref, locker, to) ==
    {turn \in [0..Cardinality(Users) -> Walks] :
       /\ turn[0] = Start(locker, to)
       /\ \A n \in 1..Cardinality(Users) : turn[n] = Turn(ref, locker, to, turn[n - 1])}

\* While a walk is undecided, its pointers are on the way up, one twice as far as the other.
LEMMA WalkOnWay ==
    ASSUME NEW ref \in Graphs, NEW locker \in Users, NEW to \in Users, NEW p \in Ways(ref, to),
           NEW turn \in TurnsOf(ref, locker, to), NEW n \in 0..Cardinality(Users), turn[n].status = "Walking"
    PROVE  /\ turn[n].slow = p[n] /\ turn[n].fast = p[2 * n]
           /\ n # 0 => p[n] # p[2 * n]
<1> DEFINE N == Cardinality(Users)
           OnIt(k) == /\ turn[k].slow = p[k] /\ turn[k].fast = p[2 * k]
                      /\ k # 0 => p[k] # p[2 * k]
           G == {k \in 0..N : turn[k].status = "Walking" => OnIt(k)}
<1>1. /\ N \in Nat /\ N <= 2 * N /\ p[0] = to
      /\ \A k \in 0..(2 * N) : p[k] \in Users \cup {NoOne}
      /\ \A k \in 0..(2 * N) : k # 2 * N => k + 1 \in 0..(2 * N) /\ p[k + 1] = Above(ref, p[k])
    BY WayFacts
<1>2. /\ turn \in [0..N -> Walks] /\ turn[0] = Start(locker, to) /\ n \in 0..N
      /\ \A k \in 1..N : turn[k] = Turn(ref, locker, to, turn[k - 1])
    BY DEF TurnsOf
<1> HIDE DEF N
<1>3. 0 \in G
  <2>1. turn[0].slow = to /\ turn[0].fast = to /\ 2 * 0 = 0 /\ 0 \in 0..N
    BY <1>1, <1>2 DEF Start
  <2> QED BY <1>1, <2>1
<1>4. \A k \in 0..N : k # N /\ k \in G => k + 1 \in G
  <2> SUFFICES ASSUME NEW k \in 0..N, k # N, k \in G PROVE k + 1 \in G
    OBVIOUS
  <2>0. k + 1 \in 0..N
    BY <1>1
  <2> SUFFICES ASSUME turn[k + 1].status = "Walking" PROVE OnIt(k + 1)
    BY <2>0
  <2>1. /\ k + 1 \in 1..N /\ k + 1 \in 0..N /\ (k + 1) - 1 = k
        /\ k \in 0..(2 * N) /\ k # 2 * N
        /\ 2 * k \in 0..(2 * N) /\ 2 * k # 2 * N
        /\ 2 * k + 1 \in 0..(2 * N) /\ 2 * k + 1 # 2 * N
        /\ 2 * (k + 1) = (2 * k + 1) + 1
    BY <1>1
  <2>2. turn[k + 1] = Turn(ref, locker, to, turn[k]) /\ turn[k] \in Walks
    BY <1>2, <2>1
  <2>3. /\ turn[k].status = "Walking"
        /\ turn[k + 1].slow = Above(ref, turn[k].slow)
        /\ turn[k + 1].fast = Above(ref, Above(ref, turn[k].fast))
        /\ Above(ref, turn[k].slow) # Above(ref, Above(ref, turn[k].fast))
    BY <2>2, TurnMoves
  <2>4. turn[k].slow = p[k] /\ turn[k].fast = p[2 * k]
    BY <2>3
  <2>5. /\ p[k + 1] = Above(ref, p[k]) /\ p[2 * k + 1] = Above(ref, p[2 * k])
        /\ p[(2 * k + 1) + 1] = Above(ref, p[2 * k + 1])
    BY <1>1, <2>1
  <2> HIDE DEF G
  <2> QED BY <2>1, <2>3, <2>4, <2>5
<1> HIDE DEF G
<1>5. n \in G
    BY <1>1, <1>2, <1>3, <1>4, CountUp
<1> QED BY <1>5 DEF G

\* On every graph the walk is decided within one turn per account: where the way up has come
\* back to an account after d steps, both pointers are at the same place of the circle when
\* the slow one has made a multiple of d steps.
LEMMA AlwaysDecided ==
    ASSUME NEW ref \in Graphs, NEW locker \in Users, NEW to \in Users
    PROVE  LoopStatus(ref, locker, to) \in {"Yes", "No"}
<1> DEFINE N == Cardinality(Users)
<1>1. PICK turn \in [0..N -> Walks] :
         /\ turn[0] = Start(locker, to)
         /\ \A n \in 1..N : turn[n] = Turn(ref, locker, to, turn[n - 1])
         /\ LoopStatus(ref, locker, to) = turn[N].status
    BY WalkUnfolds
<1>2. PICK p \in Ways(ref, to) : TRUE
    BY WayExists
<1>3. N \in Nat /\ 2 * N \in Nat /\ N <= 2 * N /\ N \in 0..N
    BY Constants
<1>4. turn[N].status \in Statuses
    BY <1>1, <1>3 DEF Walks
<1> SUFFICES ASSUME turn[N].status = "Walking" PROVE FALSE
    BY <1>1, <1>4 DEF Statuses
<1>5. \A n \in 0..N : turn[n].status = "Walking"
  <2> DEFINE G == {n \in 0..N : turn[N - n].status = "Walking"}
  <2>0. /\ turn \in [0..N -> Walks]
        /\ \A n \in 1..N : turn[n] = Turn(ref, locker, to, turn[n - 1])
    BY <1>1
  <2> HIDE DEF N
  <2>1. 0 \in G
    BY <1>3
  <2>2. \A n \in 0..N : n # N /\ n \in G => n + 1 \in G
    <3> SUFFICES ASSUME NEW n \in 0..N, n # N, n \in G PROVE n + 1 \in G
      OBVIOUS
    <3>1. N - n \in 1..N /\ (N - n) - 1 = N - (n + 1) /\ n + 1 \in 0..N /\ N - (n + 1) \in 0..N
      BY <1>3
    <3>2. turn[N - n] = Turn(ref, locker, to, turn[N - (n + 1)]) /\ turn[N - (n + 1)] \in Walks
      BY <2>0, <3>1
    <3>3. turn[N - (n + 1)].status = "Walking"
      BY <3>2, TurnMoves
    <3> QED BY <3>1, <3>3
  <2> HIDE DEF G
  <2>3. \A n \in 0..N : n \in G
    BY <1>3, <2>1, <2>2, CountUp
  <2> SUFFICES ASSUME NEW n \in 0..N PROVE turn[n].status = "Walking"
    OBVIOUS
  <2>4. N - n \in 0..N /\ N - (N - n) = n
    BY <1>3
  <2> QED BY <2>3, <2>4 DEF G
<1>6. ASSUME NEW n \in 0..N PROVE turn[n].slow = p[n] /\ (n # 0 => p[n] # p[2 * n])
  <2>1. turn[n].status = "Walking"
    BY <1>5
  <2>2. turn \in TurnsOf(ref, locker, to)
    BY <1>1 DEF TurnsOf
  <2>3. n \in 0..Cardinality(Users)
    BY DEF N
  <2> HIDE DEF N
  <2>4. /\ turn[n].slow = p[n] /\ turn[n].fast = p[2 * n]
        /\ n # 0 => p[n] # p[2 * n]
    BY <2>1, <2>2, <2>3, WalkOnWay
  <2> QED BY <2>4
<1>7. p[N] # NoOne
  <2>1. turn[N].slow \in Users
    BY <1>1, <1>3 DEF Walks
  <2> QED BY <1>3, <1>6, <2>1, Constants
<1>8. PICK i \in Nat, d \in Nat \ {0} : i + d <= N /\ p[i] = p[i + d]
    BY <1>7, WayComesBack
<1>9. ASSUME NEW n \in Nat, i <= n, NEW q \in Nat, n + d * q <= 2 * N
      PROVE  p[n] = p[n + d * q]
  <2> DEFINE G == {k \in 0..q : p[n] = p[n + d * k]}
  <2>1. 0 \in G
    OBVIOUS
  <2>2. \A k \in 0..q : k # q /\ k \in G => k + 1 \in G
    <3> SUFFICES ASSUME NEW k \in 0..q, k # q, k \in G PROVE k + 1 \in G
      OBVIOUS
    <3>1. k \in Nat /\ k + 1 \in Nat /\ k + 1 <= q /\ k + 1 \in 0..q
      OBVIOUS
    <3>2. d * k \in Nat /\ d * (k + 1) = d * k + d
      BY <3>1
    <3>3. (k + 1) * d \in Nat /\ q * d \in Nat /\ (k + 1) * d <= q * d
      BY <3>1, MulMono
    <3>4. (k + 1) * d = d * (k + 1) /\ q * d = d * q
      BY <3>1
    <3> DEFINE e == d * k
    <3>5. e \in Nat /\ d * (k + 1) = e + d /\ n + (e + d) <= 2 * N /\ p[n] = p[n + e]
      BY <1>3, <1>9, <3>2, <3>3, <3>4
    <3> HIDE DEF e
    <3>6. PICK m \in Nat : m = n + e
      BY <3>5
    <3>7. i <= m /\ m + d = n + (e + d) /\ m + d <= 2 * N
      BY <1>3, <1>9, <3>5, <3>6
    <3>8. p[m] = p[m + d]
      <4>1. i + d <= 2 * Cardinality(Users) /\ m + d <= 2 * Cardinality(Users)
        BY <1>3, <1>8, <3>7
      <4> QED BY <1>8, <3>7, <4>1, WayRepeats
    <3>9. p[n] = p[n + d * (k + 1)]
      BY <3>5, <3>6, <3>7, <3>8
    <3> QED BY <3>1, <3>9
  <2> HIDE DEF G
  <2>3. q \in G
    <3>1. \A k \in 0..q : k \in G
      BY <2>1, <2>2, CountUp
    <3> QED BY <3>1
  <2> QED BY <2>3 DEF G
\* A multiple of d from i on and not beyond N.
<1>10. PICK n \in Nat, q \in Nat : n = d * q /\ n # 0 /\ i <= n /\ n <= N
  <2> DEFINE j == i + d
             q == (j - 1) \div d
  <2>0. j - 1 \in Nat /\ d \in Nat \ {0}
    OBVIOUS
  <2>1. q \in Nat /\ d * q <= j - 1 /\ j - 1 < d * q + d
    BY <2>0, DivFacts
  <2> HIDE DEF q
  <2>2. CASE i = 0
    BY <1>3, <1>8, <2>2
  <2>3. CASE i # 0
    <3> DEFINE n == d * q
    <3>1. n \in Nat /\ n <= j - 1 /\ j - 1 < n + d
      BY <2>1
    <3> HIDE DEF n
    <3>2. n # 0 /\ i <= n /\ n <= N
      BY <1>3, <1>8, <2>3, <3>1
    <3> QED BY <2>1, <3>1, <3>2 DEF n
  <2> QED BY <2>2, <2>3
<1>11. p[n] = p[n + d * q]
  <2>1. n + d * q <= 2 * N
    BY <1>3, <1>10
  <2> QED BY <1>9, <1>10, <2>1
<1>12. n + d * q = 2 * n /\ n \in 0..N
    BY <1>3, <1>10
<1> QED BY <1>6, <1>10, <1>11, <1>12

\* The reference definition of a way is the first half of it.
LEMMA UplineIsWay ==
    ASSUME NEW ref \in Graphs, NEW to \in Users, NEW p \in Ways(ref, to),
           NEW n \in 0..Cardinality(Users)
    PROVE  Upline(ref, to)[n] = p[n]
<1> DEFINE N == Cardinality(Users)
           Body(f) == [k \in 0..N |->
                         IF k = 0 THEN to
                         ELSE IF f[k - 1] = NoOne \/ ref[f[k - 1]] = f[k - 1] THEN NoOne
                         ELSE ref[f[k - 1]]]
           up == CHOOSE f : f = Body(f)
           half == [k \in 0..N |-> p[k]]
<1>1. Upline(ref, to) = up
    BY DEF Upline
<1>2. /\ N \in Nat /\ N <= 2 * N /\ p[0] = to
      /\ \A k \in 0..(2 * N) : k # 2 * N => k + 1 \in 0..(2 * N) /\ p[k + 1] = Above(ref, p[k])
    BY WayFacts
<1>0. n \in 0..N
    OBVIOUS
<1> HIDE DEF N
<1>3. \A k \in 1..N : k \in 0..N /\ k - 1 \in 0..N /\ p[k] = Above(ref, p[k - 1])
  <2> SUFFICES ASSUME NEW k \in 1..N
               PROVE  k \in 0..N /\ k - 1 \in 0..N /\ p[k] = Above(ref, p[k - 1])
    OBVIOUS
  <2>1. k \in 0..N /\ k - 1 \in 0..N /\ k - 1 \in 0..(2 * N) /\ k - 1 # 2 * N /\ (k - 1) + 1 = k
    BY <1>2
  <2> QED BY <1>2, <2>1
<1>4. half = Body(half)
    BY <1>2, <1>3 DEF Above
<1>5. up = Body(up)
    BY <1>4
<1> HIDE DEF up, half
<1>6. up[0] = to /\ \A k \in 1..N : up[k] = Above(ref, up[k - 1])
    BY <1>2, <1>5 DEF Above
<1> HIDE DEF Body
<1> DEFINE G == {k \in 0..N : up[k] = p[k]}
<1>7. 0 \in G
    BY <1>2, <1>6
<1>8. \A k \in 0..N : k # N /\ k \in G => k + 1 \in G
  <2> SUFFICES ASSUME NEW k \in 0..N, k # N, k \in G PROVE k + 1 \in G
    OBVIOUS
  <2>1. k + 1 \in 1..N /\ k + 1 \in 0..N /\ (k + 1) - 1 = k
    BY <1>2
  <2>2. up[k + 1] = Above(ref, up[k]) /\ p[k + 1] = Above(ref, p[k])
    BY <1>3, <1>6, <2>1
  <2> QED BY <2>1, <2>2
<1> HIDE DEF G
<1>9. n \in G
    BY <1>0, <1>2, <1>7, <1>8, CountUp
<1> QED BY <1>1, <1>9 DEF G

\* The accounts of a way that never ends lead to each other.
LEMMA EndlessWay ==
    ASSUME NEW ref \in Graphs, NEW to \in Users, NEW p \in Ways(ref, to),
           p[Cardinality(Users)] # NoOne
    PROVE  \E S \in SUBSET Users : to \in S /\ \A x \in S : ref[x] \in S \ {x}
<1> DEFINE N == Cardinality(Users)
           S == {p[k] : k \in 0..N}
<1>1. PICK i \in Nat, d \in Nat \ {0} : i + d <= N /\ p[i] = p[i + d]
    BY WayComesBack
<1>2. /\ N \in Nat /\ N <= 2 * N /\ 2 * N \in Nat /\ p[0] = to
      /\ \A k \in 0..(2 * N) : p[k] \in Users \cup {NoOne}
      /\ \A k \in 0..(2 * N) : k # 2 * N => k + 1 \in 0..(2 * N) /\ p[k + 1] = Above(ref, p[k])
    BY WayFacts
<1>2a. N # 0
    BY <1>1, <1>2
<1>3. p[i] # NoOne
  <2>1. i \in 0..(2 * N) /\ N \in 0..(2 * N) /\ i <= N
    BY <1>1, <1>2
  <2> QED BY <2>1, WayEnded
<1>4. \A k \in 0..(2 * N) : p[k] # NoOne
  <2>1. i + d <= 2 * N
    BY <1>1, <1>2
  <2> QED BY <1>1, <1>3, <2>1, RepeatingNeverEnds
<1>5. p[N + 1] = p[(N + 1) - d] /\ (N + 1) - d \in 0..N
  <2>1. PICK m \in Nat : m = (N + 1) - d
    BY <1>1, <1>2
  <2>2. i <= m /\ m + d = N + 1 /\ m + d <= 2 * N /\ i + d <= 2 * N /\ m \in 0..N
    BY <1>1, <1>2, <1>2a, <2>1
  <2>3. p[m] = p[m + d]
    BY <1>1, <2>2, WayRepeats
  <2> QED BY <2>1, <2>2, <2>3
<1>6. ASSUME NEW k \in 0..N PROVE ref[p[k]] \in S \ {p[k]} /\ p[k] \in Users
  <2>1. k \in 0..(2 * N) /\ k # 2 * N
    BY <1>2, <1>2a
  <2>2. k + 1 \in 0..(2 * N) /\ p[k + 1] = Above(ref, p[k])
    BY <1>2, <2>1
  <2>3. p[k + 1] # NoOne /\ p[k] \in Users \cup {NoOne} /\ p[k] # NoOne
    BY <1>2, <1>4, <2>1, <2>2
  <2>4. p[k + 1] = ref[p[k]] /\ ref[p[k]] # p[k]
    BY <2>2, <2>3, AboveFacts
  <2>5. p[k + 1] \in S
    <3>1. CASE k = N
      BY <1>5, <3>1
    <3>2. CASE k # N
      <4>1. k + 1 \in 0..N
        BY <1>2, <3>2
      <4> QED BY <4>1
    <3> QED BY <3>1, <3>2
  <2> QED BY <2>3, <2>4, <2>5
<1>7. to \in S
    BY <1>2
<1>8. S \in SUBSET Users /\ \A x \in S : ref[x] \in S \ {x}
    BY <1>6
<1> QED BY <1>7, <1>8

\* A way that ends and passes neither argument is not called a loop.
LEMMA StraightWay ==
    ASSUME NEW ref \in Graphs, NEW locker \in Users, NEW to \in Users, NEW p \in Ways(ref, to),
           p[Cardinality(Users)] = NoOne,
           \A n \in 1..Cardinality(Users) : p[n] \notin {locker, to}
    PROVE  LoopStatus(ref, locker, to) # "Yes"
<1> DEFINE N == Cardinality(Users)
<1>1. PICK turn \in [0..N -> Walks] :
         /\ turn[0] = Start(locker, to)
         /\ \A n \in 1..N : turn[n] = Turn(ref, locker, to, turn[n - 1])
         /\ LoopStatus(ref, locker, to) = turn[N].status
    BY WalkUnfolds
<1>2. turn \in TurnsOf(ref, locker, to)
    BY <1>1 DEF TurnsOf
<1>3. /\ N \in Nat /\ N <= 2 * N /\ 2 * N \in Nat /\ NoOne \notin Users /\ N \in 0..N
      /\ \A k \in 0..(2 * N) : k # 2 * N => k + 1 \in 0..(2 * N) /\ p[k + 1] = Above(ref, p[k])
    BY WayFacts, Constants
<1>3a. ASSUME NEW n \in 0..N, turn[n].status = "Walking"
       PROVE  turn[n].slow = p[n] /\ turn[n].fast = p[2 * n]
  <2>1. turn[n].status = "Walking"
    BY <1>3a
  <2>2. /\ turn[n].slow = p[n] /\ turn[n].fast = p[2 * n]
        /\ n # 0 => p[n] # p[2 * n]
    <3>1. PICK t \in TurnsOf(ref, locker, to) : t = turn
      BY <1>2
    <3>2. PICK k \in 0..Cardinality(Users) : k = n
      OBVIOUS
    <3>3. t[k].status = "Walking"
      BY <2>1, <3>1, <3>2
    <3>4. t[k].slow = p[k] /\ t[k].fast = p[2 * k] /\ (k # 0 => p[k] # p[2 * k])
      BY <3>3, WalkOnWay
    <3> QED BY <3>1, <3>2, <3>4
  <2> QED BY <2>2
<1>4. ASSUME NEW k \in 1..(2 * N) PROVE p[k] \notin {locker, to}
  <2>1. CASE k \in 1..N
    BY <2>1
  <2>2. CASE k \notin 1..N
    <3>1. N \in 0..(2 * N) /\ k \in 0..(2 * N) /\ N <= k
      BY <1>3, <2>2
    <3>2. p[k] = NoOne
      BY <3>1, WayEnded
    <3> QED BY <1>3, <3>2
  <2> QED BY <2>1, <2>2
<1> DEFINE G == {n \in 0..N : turn[n].status # "Yes"}
<1>5. 0 \in G
    BY <1>1, <1>3 DEF Start
<1>6. ASSUME NEW n \in 0..N, n # N, n \in G PROVE n + 1 \in G
  <2>1. /\ n + 1 \in 1..N /\ n + 1 \in 0..N /\ (n + 1) - 1 = n
        /\ n \in 0..(2 * N) /\ n # 2 * N
        /\ 2 * n \in 0..(2 * N) /\ 2 * n # 2 * N
        /\ 2 * n + 1 \in 0..(2 * N) /\ 2 * n + 1 # 2 * N
        /\ (2 * n + 1) + 1 = (n + 1) + (n + 1)
        /\ {n + 1, 2 * n + 1, (2 * n + 1) + 1} \subseteq 1..(2 * N)
        /\ N \in 0..(2 * N) /\ n + 1 \in Nat \ {0} /\ (n + 1) + (n + 1) <= 2 * N
    BY <1>3, <1>6
  <2>2. turn[n + 1] = Turn(ref, locker, to, turn[n]) /\ turn[n] \in Walks
        /\ turn[n].status # "Yes"
    BY <1>1, <1>6, <2>1
  <2> HIDE DEF G
  <2>3. CASE turn[n].status # "Walking"
    <3>1. turn[n + 1] = turn[n]
      BY <2>2, <2>3, TurnMoves
    <3> QED BY <2>1, <2>2, <3>1 DEF G
  <2>4. CASE turn[n].status = "Walking"
    <3>1. turn[n].slow = p[n] /\ turn[n].fast = p[2 * n]
      BY <2>4, <1>3a
    <3>2. /\ p[n + 1] = Above(ref, p[n]) /\ p[2 * n + 1] = Above(ref, p[2 * n])
          /\ p[(2 * n + 1) + 1] = Above(ref, p[2 * n + 1])
      BY <1>3, <2>1
    <3>3. {p[n + 1], p[2 * n + 1], p[(2 * n + 1) + 1]} \cap {locker, to} = {}
      BY <1>4, <2>1
    <3>4. ~(p[n + 1] = p[(2 * n + 1) + 1] /\ p[n + 1] # NoOne)
      <4> SUFFICES ASSUME p[n + 1] = p[(2 * n + 1) + 1], p[n + 1] # NoOne PROVE FALSE
        OBVIOUS
      <4>1. PICK m \in Nat \ {0} : m = n + 1
        BY <2>1
      <4>2. p[m] = p[m + m] /\ p[m] # NoOne /\ m + m <= 2 * N
        BY <2>1, <4>1
      <4> QED BY <2>1, <4>2, RepeatingNeverEnds
    <3>5. turn[n + 1].status # "Yes"
      BY <2>2, <2>4, <3>1, <3>2, <3>3, <3>4, TurnMoves
    <3> QED BY <2>1, <3>5 DEF G
  <2> QED BY <2>3, <2>4
<1> HIDE DEF G
<1>7. N \in G
    BY <1>3, <1>5, <1>6, CountUp
<1> QED BY <1>1, <1>7 DEF G

\* Accounts whose ways up lead to each other or to the locker: a walk among them never
\* finds an end.
Trap(ref, locker, S) ==
    S \in SUBSET Users /\ \A x \in S \ {locker} : ref[x] \in S \ {x}

LEMMA TrapHolds ==
    ASSUME NEW ref \in Graphs, NEW locker \in Users, NEW S, Trap(ref, locker, S),
           NEW to \in S, to # locker
    PROVE  LoopStatus(ref, locker, to) # "No"
<1> DEFINE N == Cardinality(Users)
           Inside(w) == /\ w \in Walks /\ w.status # "No"
                        /\ w.status = "Walking" => {w.slow, w.fast} \subseteq S \ {locker}
<1>0. N \in Nat /\ NoOne \notin S /\ to \in Users
    BY Constants DEF Trap
<1>1. PICK turn \in [0..N -> Walks] :
         /\ turn[0] = Start(locker, to)
         /\ \A n \in 1..N : turn[n] = Turn(ref, locker, to, turn[n - 1])
         /\ LoopStatus(ref, locker, to) = turn[N].status
    BY <1>0, WalkUnfolds
<1> HIDE DEF N
<1>2. ASSUME NEW w, Inside(w)
      PROVE  /\ Inside(Move(ref, locker, to, w, "slow"))
             /\ Inside(Move(ref, locker, to, w, "fast"))
  <2>1. /\ Move(ref, locker, to, w, "slow") \in Walks
        /\ Move(ref, locker, to, w, "fast") \in Walks
    BY <1>0, <1>2, MoveFacts
  <2>2. \A x \in S \ {locker} : /\ ref[x] \in S /\ ref[x] # x
                                /\ Hop(ref, locker, to, x) # "No"
                                /\ Hop(ref, locker, to, x) = "Walking" => ref[x] # locker
    BY <1>0 DEF Hop, Trap
  <2>3. CASE w.status # "Walking"
    BY <1>2, <2>3 DEF Move
  <2>4. CASE w.status = "Walking"
    <3>1. w.slow \in S \ {locker} /\ w.fast \in S \ {locker}
      BY <1>2, <2>4
    <3>2. Inside(Move(ref, locker, to, w, "slow"))
      <4>1. CASE Hop(ref, locker, to, w.slow) # "Walking"
        <5>1. Move(ref, locker, to, w, "slow") = [w EXCEPT !.status = Hop(ref, locker, to, w.slow)]
          BY <2>4, <4>1 DEF Move
        <5>2. Move(ref, locker, to, w, "slow").status = Hop(ref, locker, to, w.slow)
          BY <1>2, <5>1 DEF Walks
        <5> QED BY <2>1, <2>2, <3>1, <4>1, <5>2
      <4>2. CASE Hop(ref, locker, to, w.slow) = "Walking"
        <5>1. Move(ref, locker, to, w, "slow") = [w EXCEPT !.slow = ref[w.slow]]
          BY <2>4, <4>2 DEF Move
        <5>2. LET m == Move(ref, locker, to, w, "slow") IN
                m.status = w.status /\ m.slow = ref[w.slow] /\ m.fast = w.fast
          BY <1>2, <5>1 DEF Walks
        <5> QED BY <2>1, <2>2, <2>4, <3>1, <4>2, <5>2
      <4> QED BY <4>1, <4>2
    <3>3. Inside(Move(ref, locker, to, w, "fast"))
      <4>1. CASE Hop(ref, locker, to, w.fast) # "Walking"
        <5>1. Move(ref, locker, to, w, "fast") = [w EXCEPT !.status = Hop(ref, locker, to, w.fast)]
          BY <2>4, <4>1 DEF Move
        <5>2. Move(ref, locker, to, w, "fast").status = Hop(ref, locker, to, w.fast)
          BY <1>2, <5>1 DEF Walks
        <5> QED BY <2>1, <2>2, <3>1, <4>1, <5>2
      <4>2. CASE Hop(ref, locker, to, w.fast) = "Walking"
        <5>1. Move(ref, locker, to, w, "fast") = [w EXCEPT !.fast = ref[w.fast]]
          BY <2>4, <4>2 DEF Move
        <5>2. LET m == Move(ref, locker, to, w, "fast") IN
                m.status = w.status /\ m.fast = ref[w.fast] /\ m.slow = w.slow
          BY <1>2, <5>1 DEF Walks
        <5> QED BY <2>1, <2>2, <2>4, <3>1, <4>2, <5>2
      <4> QED BY <4>1, <4>2
    <3> QED BY <3>2, <3>3
  <2> QED BY <2>3, <2>4
<1>3. ASSUME NEW w, Inside(w)
      PROVE  Inside(Turn(ref, locker, to, w))
  <2> DEFINE a == Move(ref, locker, to, w, "slow")
             b == Move(ref, locker, to, a, "fast")
             c == Move(ref, locker, to, b, "fast")
  <2>1. Turn(ref, locker, to, w) = IF Met(c) THEN [c EXCEPT !.status = "Yes"] ELSE c
    BY DEF Turn
  <2> HIDE DEF Inside
  <2>2. Inside(a)
    BY <1>2, <1>3
  <2>3. Inside(b)
    BY <1>2, <2>2
  <2>4. Inside(c)
    BY <1>2, <2>3
  <2> HIDE DEF a, b, c
  <2>5. Inside([c EXCEPT !.status = "Yes"])
    BY <2>4 DEF Inside, Walks, Statuses
  <2> QED BY <2>1, <2>4, <2>5
<1>4. Inside(Start(locker, to))
    BY <1>0 DEF Start, Walks, Statuses
<1> HIDE DEF Inside
<1> DEFINE G == {n \in 0..N : Inside(turn[n])}
<1>5. 0 \in G
    BY <1>0, <1>1, <1>4
<1>6. \A n \in 0..N : n # N /\ n \in G => n + 1 \in G
  <2> SUFFICES ASSUME NEW n \in 0..N, n # N, n \in G PROVE n + 1 \in G
    OBVIOUS
  <2>1. n + 1 \in 1..N /\ n + 1 \in 0..N /\ (n + 1) - 1 = n
    BY <1>0
  <2>2. turn[n + 1] = Turn(ref, locker, to, turn[n])
    BY <1>1, <2>1
  <2> QED BY <1>3, <2>1, <2>2
<1> HIDE DEF G
<1>7. \A n \in 0..N : n \in G
    BY <1>0, <1>5, <1>6, CountUp
<1>8. Inside(turn[N])
    BY <1>0, <1>7 DEF G
<1> QED BY <1>1, <1>8 DEF Inside

\* A locker that names itself is no loop.
LEMMA SelfNoLoop ==
    ASSUME NEW ref \in Graphs, NEW u \in Users
    PROVE  LoopStatus(ref, u, u) # "Yes"
<1> DEFINE N == Cardinality(Users)
<1>0. N \in Nat
    BY Constants
<1>1. PICK turn \in [0..N -> Walks] :
         /\ turn[0] = Start(u, u)
         /\ \A n \in 1..N : turn[n] = Turn(ref, u, u, turn[n - 1])
         /\ LoopStatus(ref, u, u) = turn[N].status
    BY WalkUnfolds
<1> HIDE DEF N
<1> DEFINE G == {n \in 0..N : turn[n].status = "No"}
<1>2. 0 \in G
    BY <1>0, <1>1 DEF Start
<1>3. \A n \in 0..N : n # N /\ n \in G => n + 1 \in G
  <2> SUFFICES ASSUME NEW n \in 0..N, n # N, n \in G PROVE n + 1 \in G
    OBVIOUS
  <2>1. n + 1 \in 1..N /\ n + 1 \in 0..N /\ (n + 1) - 1 = n /\ turn[n] \in Walks
    BY <1>0
  <2>2. turn[n + 1] = Turn(ref, u, u, turn[n])
    BY <1>1, <2>1
  <2>3. turn[n].status = "No"
    OBVIOUS
  <2>4. Turn(ref, u, u, turn[n]) = turn[n]
    BY <2>1, <2>3, TurnFacts
  <2> QED BY <2>1, <2>2, <2>3, <2>4
<1> HIDE DEF G
<1>4. \A n \in 0..N : n \in G
    BY <1>0, <1>2, <1>3, CountUp
<1> QED BY <1>0, <1>1, <1>4 DEF G

\* has_referral_loop on every graph, for any number of accounts: it ends, and its answer is
\* whether the way up from `to` passes the locker, comes back to `to`, or never ends.
LEMMA LoopStatusRight ==
    ASSUME NEW ref \in Graphs, NEW locker \in Users, NEW to \in Users
    PROVE  LET N  == Cardinality(Users)
               up == Upline(ref, to)
               loops == /\ to # locker
                        /\ \/ \E n \in 1..N : up[n] \in {locker, to}
                           \/ up[N] # NoOne
           IN  LoopStatus(ref, locker, to) = IF loops THEN "Yes" ELSE "No"
<1> DEFINE N  == Cardinality(Users)
           up == Upline(ref, to)
           loops == /\ to # locker
                    /\ \/ \E n \in 1..N : up[n] \in {locker, to}
                       \/ up[N] # NoOne
<1>1. PICK p \in Ways(ref, to) : TRUE
    BY WayExists
<1>2. \A n \in 0..N : up[n] = p[n]
    BY UplineIsWay
<1>3. /\ N \in Nat /\ N <= 2 * N /\ 2 * N \in Nat /\ p[0] = to /\ NoOne \notin Users
      /\ \A k \in 0..(2 * N) : p[k] \in Users \cup {NoOne}
      /\ \A k \in 0..(2 * N) : k # 2 * N => k + 1 \in 0..(2 * N) /\ p[k + 1] = Above(ref, p[k])
    BY WayFacts, Constants
<1>4. N \in 0..N /\ \A n \in 1..N : n \in 0..N
    BY <1>3
<1>5. LoopStatus(ref, locker, to) \in {"Yes", "No"}
    BY AlwaysDecided
<1>6. CASE to = locker
  <2>1. LoopStatus(ref, locker, to) # "Yes"
    BY <1>6, SelfNoLoop
  <2> QED BY <1>5, <1>6, <2>1
<1>7. CASE to # locker /\ ~loops
  <2>1. p[N] = NoOne /\ \A n \in 1..N : p[n] \notin {locker, to}
    BY <1>2, <1>4, <1>7
  <2>2. LoopStatus(ref, locker, to) # "Yes"
    BY <2>1, StraightWay
  <2> QED BY <1>5, <1>7, <2>2
<1>8. CASE loops
  <2>1. CASE p[N] # NoOne
    <3>1. PICK S \in SUBSET Users : to \in S /\ \A x \in S : ref[x] \in S \ {x}
      BY <2>1, EndlessWay
    <3>2. Trap(ref, locker, S)
      BY <3>1 DEF Trap
    <3>3. LoopStatus(ref, locker, to) # "No"
      BY <1>8, <3>1, <3>2, TrapHolds
    <3> QED BY <1>5, <1>8, <3>3
  <2>2. ASSUME NEW n \in 1..N, p[n] = to PROVE p[N] # NoOne
    <3>1. n \in Nat \ {0} /\ 0 + n = n /\ 0 + n <= 2 * N /\ N \in 0..(2 * N)
      BY <1>3
    <3>2. p[0] = p[0 + n] /\ p[0] # NoOne
      BY <1>3, <2>2, <3>1
    <3> QED BY <3>1, <3>2, RepeatingNeverEnds
  <2>3. ASSUME NEW n \in 1..N, p[n] = locker PROVE LoopStatus(ref, locker, to) # "No"
    <3> DEFINE S == {p[k] : k \in 0..n}
    <3>0. n \in Nat /\ n <= N /\ n \in 0..(2 * N) /\ p[n] # NoOne
      BY <1>3, <2>3
    <3>1. ASSUME NEW k \in 0..n PROVE p[k] \in Users
      <4>1. k \in 0..(2 * N) /\ k <= n
        BY <1>3, <3>0
      <4> QED BY <1>3, <3>0, <4>1, WayEnded
    <3>2. ASSUME NEW k \in 0..n, p[k] # locker PROVE ref[p[k]] \in S \ {p[k]}
      <4>1. k # n /\ k + 1 \in 0..n /\ k \in 0..(2 * N) /\ k # 2 * N
        BY <1>3, <2>3, <3>0, <3>2
      <4>2. p[k + 1] = Above(ref, p[k]) /\ p[k + 1] \in Users /\ p[k] \in Users
        BY <1>3, <3>1, <4>1
      <4>3. p[k + 1] = ref[p[k]] /\ ref[p[k]] # p[k]
        BY <1>3, <4>2, AboveFacts
      <4> QED BY <4>1, <4>3
    <3>3. to \in S
      <4>1. 0 \in 0..n
        BY <3>0
      <4> QED BY <1>3, <4>1
    <3>4. Trap(ref, locker, S)
      BY <3>1, <3>2 DEF Trap
    <3> HIDE DEF S
    <3> QED BY <1>8, <3>3, <3>4, TrapHolds
  <2>4. LoopStatus(ref, locker, to) = "Yes"
    <3>1. p[N] # NoOne \/ \E n \in 1..N : p[n] \in {locker, to}
      BY <1>2, <1>4, <1>8
    <3> QED BY <1>5, <1>8, <2>1, <2>2, <2>3, <3>1
  <2> QED BY <1>8, <2>4
<1> HIDE DEF loops
<1>9. LoopStatus(ref, locker, to) = IF loops THEN "Yes" ELSE "No"
    BY <1>6, <1>7, <1>8 DEF loops
<1> QED BY <1>9 DEF loops

-------------------------------------------------------------------------------
(* Forests. *)

\* A graph without cycles: whatever accounts one picks, the way up from one of them leaves
\* them or ends.
Grounded(ref) == \A S \in SUBSET Users : S # {} => \E x \in S : ref[x] \notin S \ {x}

\* A set of accounts that no way up leaves.
Closed(ref, S) == S \in SUBSET Users /\ \A x \in S : ref[x] \in S \cup {NoOne}

\* locker is to or somewhere above it.
OnWay(ref, locker, to) == \A S : Closed(ref, S) /\ to \in S => locker \in S

\* In a forest every way ends in time.
LEMMA WaysEnd ==
    ASSUME NEW ref \in Graphs, Grounded(ref), NEW k \in Users
    PROVE  Upline(ref, k)[Cardinality(Users)] = NoOne
<1>1. PICK p \in Ways(ref, k) : TRUE
    BY WayExists
<1>2. p[Cardinality(Users)] = NoOne
  <2> SUFFICES ASSUME p[Cardinality(Users)] # NoOne PROVE FALSE
    OBVIOUS
  <2>1. PICK S \in SUBSET Users : k \in S /\ \A x \in S : ref[x] \in S \ {x}
    BY EndlessWay
  <2> QED BY <2>1 DEF Grounded
<1>3. Cardinality(Users) \in 0..Cardinality(Users)
    BY Constants
<1> QED BY <1>2, <1>3, UplineIsWay

\* In a forest the walk takes no straight path for a loop.
LEMMA NoFalseLoop ==
    ASSUME NEW ref \in Graphs, Grounded(ref), NEW S, Closed(ref, S),
           NEW to \in S, NEW locker \in Users \ S
    PROVE  LoopStatus(ref, locker, to) # "Yes"
<1> DEFINE N == Cardinality(Users)
<1>0. to \in Users /\ NoOne \notin S /\ NoOne \notin Users
    BY Constants DEF Closed
<1>1. PICK p \in Ways(ref, to) : TRUE
    BY <1>0, WayExists
<1>2. /\ N \in Nat /\ N <= 2 * N /\ 2 * N \in Nat /\ p[0] = to
      /\ \A k \in 0..(2 * N) : k # 2 * N => k + 1 \in 0..(2 * N) /\ p[k + 1] = Above(ref, p[k])
    BY <1>0, WayFacts
<1>3. p[N] = NoOne
  <2>1. Upline(ref, to)[N] = NoOne
    BY <1>0, WaysEnd
  <2>2. N \in 0..N
    BY <1>2
  <2> QED BY <1>0, <2>1, <2>2, UplineIsWay
<1>4. ASSUME NEW n \in 1..N PROVE p[n] # to
  <2> SUFFICES ASSUME p[n] = to PROVE FALSE
    OBVIOUS
  <2>1. n \in Nat \ {0} /\ 0 + n = n /\ 0 + n <= 2 * N /\ N \in 0..(2 * N)
    BY <1>2
  <2>2. p[0] = p[0 + n] /\ p[0] # NoOne
    BY <1>0, <1>2, <2>1
  <2> QED BY <1>0, <1>3, <2>1, <2>2, RepeatingNeverEnds
<1> DEFINE G == {n \in 0..N : p[n] \in S \cup {NoOne}}
<1>5. 0 \in G
    BY <1>2
<1>6. \A n \in 0..N : n # N /\ n \in G => n + 1 \in G
  <2> SUFFICES ASSUME NEW n \in 0..N, n # N, n \in G PROVE n + 1 \in G
    OBVIOUS
  <2>1. n + 1 \in 0..N /\ n \in 0..(2 * N) /\ n # 2 * N
    BY <1>2
  <2>2. p[n + 1] = Above(ref, p[n])
    BY <1>2, <2>1
  <2>3. p[n + 1] \in S \cup {NoOne}
    BY <2>2 DEF Above, Closed
  <2> QED BY <2>1, <2>3
<1> HIDE DEF G
<1>7. \A n \in 0..N : n \in G
    BY <1>2, <1>5, <1>6, CountUp
<1>8. ASSUME NEW n \in 1..N PROVE p[n] \notin {locker, to}
  <2>1. n \in 0..N
    BY <1>2
  <2>2. p[n] \in S \cup {NoOne}
    BY <1>7, <2>1 DEF G
  <2> QED BY <1>0, <1>4, <2>2
<1> QED BY <1>0, <1>3, <1>8, StraightWay

\* Nor does it take a loop for a straight path: a way up that passes the locker is a trap.
LEMMA NoMissedLoop ==
    ASSUME NEW ref \in Graphs, NEW locker \in Users, NEW to \in Users, to # locker,
           OnWay(ref, locker, to)
    PROVE  LoopStatus(ref, locker, to) # "No"
<1> DEFINE T == {y \in Users : OnWay(ref, locker, y)}
<1>1. ASSUME NEW x \in T, x # locker
      PROVE  ref[x] \in T \ {x}
  <2>0. x \in Users /\ OnWay(ref, locker, x) /\ ref[x] \in Users \cup {NoOne}
    BY DEF Graphs
  <2>1. ref[x] \notin {NoOne, x}
    <3> SUFFICES ASSUME ref[x] \in {NoOne, x} PROVE FALSE
      OBVIOUS
    <3>1. Closed(ref, {x})
      BY <2>0 DEF Closed
    <3> QED BY <1>1, <2>0, <3>1 DEF OnWay
  <2>2. OnWay(ref, locker, ref[x])
    <3> SUFFICES ASSUME NEW C, Closed(ref, C), ref[x] \in C PROVE locker \in C
      BY DEF OnWay
    <3>1. Closed(ref, C \cup {x})
      BY <2>0 DEF Closed
    <3>2. locker \in C \cup {x}
      BY <2>0, <3>1 DEF OnWay
    <3> QED BY <1>1, <3>2
  <2> QED BY <2>0, <2>1, <2>2
<1>2. Trap(ref, locker, T)
    BY <1>1 DEF Trap
<1>3. to \in T
    OBVIOUS
<1> HIDE DEF T
<1> QED BY <1>2, <1>3, TrapHolds

\* An edge that has_referral_loop lets pass closes no cycle.
LEMMA NewEdge ==
    ASSUME NEW ref \in Graphs, Grounded(ref), NEW u \in Users, NEW to \in Users, u # to,
           LoopStatus(ref, u, to) # "Yes"
    PROVE  Grounded([ref EXCEPT ![u] = to])
<1> DEFINE new == [ref EXCEPT ![u] = to]
<1>1. new[u] = to /\ \A x \in Users \ {u} : new[x] = ref[x]
    BY DEF Graphs
<1> SUFFICES ASSUME NEW S \in SUBSET Users, S # {}, \A x \in S : new[x] \in S \ {x}
             PROVE  FALSE
    BY DEF Grounded
<1> HIDE DEF new
<1>2. u \in S
    BY <1>1 DEF Grounded
<1>3. to \in S
    BY <1>1, <1>2
<1>4. Trap(ref, u, S)
    BY <1>1 DEF Trap
<1>5. LoopStatus(ref, u, to) # "No"
    BY <1>3, <1>4, TrapHolds
<1> QED BY <1>5, AlwaysDecided

\* Neither does an account that becomes a root.
LEMMA NewRoot ==
    ASSUME NEW ref \in Graphs, Grounded(ref), NEW u \in Users
    PROVE  Grounded([ref EXCEPT ![u] = u])
<1> DEFINE new == [ref EXCEPT ![u] = u]
<1>1. new[u] = u /\ \A x \in Users \ {u} : new[x] = ref[x]
    BY DEF Graphs
<1> HIDE DEF new
<1>2. Grounded(new)
    BY <1>1 DEF Grounded
<1> QED BY <1>2 DEF new

\* In a forest no two accounts refer to each other.
LEMMA NoMutual ==
    ASSUME NEW ref, Grounded(ref), NEW u \in Users, NEW k \in Users, u # k, ref[u] = k
    PROVE  ref[k] # u
<1>1. {u, k} \in SUBSET Users /\ {u, k} # {}
    OBVIOUS
<1>2. PICK x \in {u, k} : ref[x] \notin {u, k} \ {x}
    BY <1>1 DEF Grounded
<1> QED BY <1>2

-------------------------------------------------------------------------------
(* Books. *)

\* The columns of the books.
RefOf(b) == [u \in Users |-> b[u].referrer]
ValueOf(b) == [u \in Users |-> b[u].value]
L1ValueOf(b) == [u \in Users |-> b[u].l1_value]

\* The part of x in the sum of h over the children of r.
Part(ref, h, r, x) == IF x # r /\ ref[x] = r THEN h[x] ELSE 0

\* That sum, over all accounts.
Brought(ref, h, r) == Total([x \in Users |-> Part(ref, h, r, x)])

\* What the properties sum over the children of r.
LEMMA ChildrenSum ==
    ASSUME NEW b, NEW h, NEW r \in Users
    PROVE  Total([c \in {c \in Users \ {r} : b[c].referrer = r} |-> h[c]])
             = Brought(RefOf(b), h, r)
<1> DEFINE C == {c \in Users \ {r} : b[c].referrer = r}
           f == [c \in C |-> h[c]]
           g == [x \in Users |-> Part(RefOf(b), h, r, x)]
<1>1. \A c \in C : c \in Users /\ g[c] = f[c]
    BY DEF Part, RefOf
<1>2. \A x \in Users \ C : g[x] = 0
    BY DEF Part, RefOf
<1>3. DOMAIN f = C /\ DOMAIN g = Users /\ C \subseteq Users
    OBVIOUS
<1> HIDE DEF C, f, g
<1>4. Units(f) = Units(g)
    BY <1>1, <1>2, <1>3 DEF Units
<1>5. Total(f) = Total(g)
    BY <1>4 DEF Total
<1> QED BY <1>5 DEF f, g, C, Brought

\* One account changes what it has or whom it refers to: a sum follows by its part.
LEMMA BroughtChange ==
    ASSUME NEW ref \in Graphs, NEW h \in [Users -> Nat],
           NEW ref2 \in Graphs, NEW h2 \in [Users -> Nat], NEW r \in Users, NEW x \in Users,
           \A y \in Users \ {x} : ref2[y] = ref[y] /\ h2[y] = h[y]
    PROVE  /\ Brought(ref, h, r) \in Nat
           /\ Part(ref, h, r, x) \in Nat /\ Part(ref2, h2, r, x) \in Nat
           /\ Part(ref, h, r, x) <= Brought(ref, h, r)
           /\ Brought(ref2, h2, r)
                = Brought(ref, h, r) - Part(ref, h, r, x) + Part(ref2, h2, r, x)
<1> DEFINE f == [y \in Users |-> Part(ref, h, r, y)]
           g == [y \in Users |-> Part(ref2, h2, r, y)]
           n == Part(ref2, h2, r, x)
<1>1. f \in [Users -> Nat] /\ n \in Nat /\ f[x] = Part(ref, h, r, x)
    BY DEF Part
<1>2. \A y \in Users \ {x} : Part(ref2, h2, r, y) = Part(ref, h, r, y)
    BY DEF Part
<1>3. g = [f EXCEPT ![x] = n]
    BY <1>2
<1>4. IsFiniteSet(Users)
    BY Constants
<1> HIDE DEF f, g, n
<1>5. /\ Total(f) \in Nat /\ f[x] <= Total(f)
      /\ Total([f EXCEPT ![x] = n]) = Total(f) - f[x] + n
    BY <1>1, <1>4, TotalUpdate
<1>6. Total(f) = Brought(ref, h, r) /\ Total(g) = Brought(ref2, h2, r)
    BY DEF f, g, Brought
<1>7. f[x] \in Nat
    BY <1>1
<1> QED BY <1>1, <1>3, <1>5, <1>6, <1>7 DEF n

\* Whoever refers has a book, and so has the one referred to.
Present(b) ==
    \A u \in Users : b[u].referrer # NoOne => b[u].exists /\ b[b[u].referrer].exists

BooksOK(b) ==
    /\ b \in [Users -> Referrer]
    /\ Grounded(RefOf(b))
    /\ Present(b)
    /\ \A r \in Users : b[r].l2_value = Brought(RefOf(b), L1ValueOf(b), r)
    /\ \A r \in Users : b[r].l1_value <= Brought(RefOf(b), ValueOf(b), r)

\* What the children of r brought and its first-level book does not show.
Gap(b, r) == Brought(RefOf(b), ValueOf(b), r) - b[r].l1_value

\* The inductive invariant.
ReferralsInv == BooksOK(book) /\ referrers \subseteq Users

LEMMA Columns ==
    ASSUME NEW b \in [Users -> Referrer]
    PROVE  /\ RefOf(b) \in Graphs
           /\ ValueOf(b) \in [Users -> Nat]
           /\ L1ValueOf(b) \in [Users -> Nat]
BY DEF RefOf, ValueOf, L1ValueOf, Referrer, Graphs

LEMMA GapInt ==
    ASSUME NEW b \in [Users -> Referrer], NEW r \in Users
    PROVE  Gap(b, r) \in Int
<1>1. PICK ref \in Graphs, h \in [Users -> Nat] : ref = RefOf(b) /\ h = ValueOf(b)
    BY Columns
<1>2. Brought(ref, h, r) \in Nat
    BY BroughtChange
<1> QED BY <1>1, <1>2 DEF Gap, Referrer

\* An empty book that is created changes nothing.
LEMMA EnsureKeeps ==
    ASSUME NEW b, BooksOK(b), NEW k \in Users
    PROVE  /\ BooksOK(Ensure(b, k))
           /\ Ensure(b, k)[k].exists
           /\ RefOf(Ensure(b, k)) = RefOf(b)
           /\ \A r \in Users : Gap(Ensure(b, k), r) = Gap(b, r)
           /\ \A x \in Users : /\ Ensure(b, k)[x].referrer = b[x].referrer
                               /\ Ensure(b, k)[x].l1_value = b[x].l1_value
                               /\ Ensure(b, k)[x].l2_value = b[x].l2_value
                               /\ Ensure(b, k)[x].value = b[x].value
                               /\ b[x].exists => Ensure(b, k)[x].exists
<1> DEFINE e == Ensure(b, k)
<1>0. b \in [Users -> Referrer]
    BY DEF BooksOK
<1>1. e \in [Users -> Referrer] /\ e[k].exists
    BY <1>0 DEF Ensure, Referrer
<1>2. \A x \in Users : /\ e[x].referrer = b[x].referrer
                       /\ e[x].l1_value = b[x].l1_value /\ e[x].l2_value = b[x].l2_value
                       /\ e[x].value = b[x].value /\ (b[x].exists => e[x].exists)
    BY <1>0 DEF Ensure, Referrer
<1> HIDE DEF e
<1>3. RefOf(e) = RefOf(b) /\ ValueOf(e) = ValueOf(b) /\ L1ValueOf(e) = L1ValueOf(b)
    BY <1>2 DEF RefOf, ValueOf, L1ValueOf
<1>4. Present(e)
  <2> SUFFICES ASSUME NEW u \in Users, e[u].referrer # NoOne
               PROVE  e[u].exists /\ e[e[u].referrer].exists
    BY DEF Present
  <2>1. b[u].referrer \in Users /\ b[u].exists /\ b[b[u].referrer].exists
    BY <1>0, <1>2 DEF BooksOK, Present, Referrer
  <2> QED BY <1>2, <2>1
<1>5. BooksOK(e)
    BY <1>1, <1>2, <1>3, <1>4 DEF BooksOK
<1>6. \A r \in Users : Gap(e, r) = Gap(b, r)
    BY <1>2, <1>3 DEF Gap
<1> QED BY <1>1, <1>2, <1>3, <1>5, <1>6 DEF e

\* credit_books: both sums take what the books of the uplines take.  The second level is
\* exact because a locker is never the referrer of its referrer.
LEMMA CreditKeeps ==
    ASSUME NEW b, BooksOK(b), NEW u \in Users, NEW v \in Nat
    PROVE  /\ BooksOK(CreditBooks(b, u, v))
           /\ RefOf(CreditBooks(b, u, v)) = RefOf(b)
           /\ \A r \in Users : Gap(CreditBooks(b, u, v), r) = Gap(b, r)
<1> DEFINE c == CreditBooks(b, u, v)
           ref == RefOf(b)
           l1 == L1Of(b, u)
           l2 == L2Of(b, u)
<1>0. b \in [Users -> Referrer] /\ NoOne \notin Users
    BY Constants DEF BooksOK
<1>1. /\ ref \in Graphs /\ ValueOf(b) \in [Users -> Nat] /\ L1ValueOf(b) \in [Users -> Nat]
    BY <1>0, Columns
<1>2. \A x \in Users : /\ ref[x] = b[x].referrer /\ ref[x] \in Users \cup {NoOne}
                       /\ ValueOf(b)[x] = b[x].value /\ L1ValueOf(b)[x] = b[x].l1_value
    BY <1>0 DEF RefOf, ValueOf, L1ValueOf, Referrer
<1>3. l1 = (IF ref[u] = u THEN NoOne ELSE ref[u]) /\ l1 \in Users \cup {NoOne} /\ l1 # u
    BY <1>0, <1>2 DEF L1Of
<1>4. l1 \in Users => ref[l1] # u
  <2> HIDE DEF ref, l1
  <2> SUFFICES ASSUME l1 \in Users PROVE ref[l1] # u
    OBVIOUS
  <2>1. ref[u] = l1 /\ u # l1
    BY <1>0, <1>3
  <2>2. Grounded(ref)
    BY DEF BooksOK, ref
  <2> QED BY <2>1, <2>2, NoMutual
<1>5. l2 = (IF l1 = NoOne \/ ref[l1] \in {l1, u} THEN NoOne ELSE ref[l1])
    BY <1>2, <1>3 DEF L2Of
<1> HIDE DEF ref, l1, l2
<1>6. l2 \in Users \cup {NoOne} /\ l2 # u /\ (l2 \in Users => l2 # l1)
    BY <1>0, <1>2, <1>3, <1>5
<1>7. \A x \in Users :
        /\ c[x] \in Referrer
        /\ c[x].referrer = b[x].referrer /\ c[x].exists = b[x].exists
        /\ c[x].value = (IF x = u THEN b[x].value + v ELSE b[x].value)
        /\ c[x].l1_value = (IF x = l1 THEN b[x].l1_value + v ELSE b[x].l1_value)
        /\ c[x].l2_value = (IF x = l2 THEN b[x].l2_value + v ELSE b[x].l2_value)
  <2> SUFFICES ASSUME NEW x \in Users
               PROVE  /\ c[x] \in Referrer
                      /\ c[x].referrer = b[x].referrer /\ c[x].exists = b[x].exists
                      /\ c[x].value = (IF x = u THEN b[x].value + v ELSE b[x].value)
                      /\ c[x].l1_value = (IF x = l1 THEN b[x].l1_value + v ELSE b[x].l1_value)
                      /\ c[x].l2_value = (IF x = l2 THEN b[x].l2_value + v ELSE b[x].l2_value)
    OBVIOUS
  <2>1. b[x] \in Referrer
    BY <1>0
  <2>2. c[x] = IF x = u THEN [b[x] EXCEPT !.value = @ + v]
               ELSE IF x = l1 THEN [b[x] EXCEPT !.l1_value = @ + v]
               ELSE IF x = l2 THEN [b[x] EXCEPT !.l2_value = @ + v]
               ELSE b[x]
    BY DEF CreditBooks, l1, l2
  <2> QED BY <1>3, <1>6, <2>1, <2>2 DEF Referrer
<1>8. c \in [Users -> Referrer]
  <2>1. c = [x \in Users |-> c[x]]
    BY DEF CreditBooks
  <2> HIDE DEF c
  <2> QED BY <1>7, <2>1
<1> HIDE DEF c
<1>9. RefOf(c) = ref /\ ValueOf(c) \in [Users -> Nat] /\ L1ValueOf(c) \in [Users -> Nat]
  <2>1. RefOf(c) = ref
    BY <1>7 DEF RefOf, ref
  <2> QED BY <1>8, <2>1, Columns
<1>10. \A x \in Users : /\ ValueOf(c)[x] = c[x].value /\ L1ValueOf(c)[x] = c[x].l1_value
    BY DEF ValueOf, L1ValueOf
<1>11. Present(c)
  <2> SUFFICES ASSUME NEW x \in Users, c[x].referrer # NoOne
               PROVE  c[x].exists /\ c[c[x].referrer].exists
    BY DEF Present
  <2>1. b[x].referrer \in Users /\ b[x].exists /\ b[b[x].referrer].exists
    BY <1>0, <1>7 DEF BooksOK, Present, Referrer
  <2> QED BY <1>7, <2>1
<1>12. ASSUME NEW r \in Users
       PROVE  /\ c[r].l1_value <= Brought(RefOf(c), ValueOf(c), r)
              /\ Gap(c, r) = Gap(b, r)
  <2>1. \A y \in Users \ {u} : ref[y] = ref[y] /\ ValueOf(c)[y] = ValueOf(b)[y]
    BY <1>2, <1>7, <1>10
  <2> DEFINE old == Brought(ref, ValueOf(b), r)
             new == Brought(ref, ValueOf(c), r)
             p == Part(ref, ValueOf(b), r, u)
             q == Part(ref, ValueOf(c), r, u)
  <2>2. old \in Nat /\ p \in Nat /\ q \in Nat /\ p <= old /\ new = old - p + q
    BY <1>1, <1>9, <2>1, BroughtChange
  <2>3. b[r].l1_value <= old /\ b[r].l1_value \in Nat
    BY <1>0 DEF BooksOK, ref, Referrer
  <2>4. ValueOf(b)[u] \in Nat /\ ValueOf(c)[u] = ValueOf(b)[u] + v
    BY <1>1, <1>2, <1>7, <1>10
  <2>5. IF r = l1 THEN q = p + v ELSE q = p
    BY <1>0, <1>3, <2>4 DEF Part
  <2> HIDE DEF old, new, p, q
  <2>6. c[r].l1_value <= new /\ new - c[r].l1_value = old - b[r].l1_value
    BY <1>7, <2>2, <2>3, <2>5
  <2> QED BY <1>9, <2>6 DEF new, old, Gap, ref
<1>13. ASSUME NEW r \in Users
       PROVE  c[r].l2_value = Brought(RefOf(c), L1ValueOf(c), r)
  <2>1. b[r].l2_value = Brought(ref, L1ValueOf(b), r) /\ b[r].l2_value \in Nat
    BY <1>0 DEF BooksOK, ref, Referrer
  <2>2. CASE l1 = NoOne
    <3>1. L1ValueOf(c) = L1ValueOf(b)
      BY <1>0, <1>7, <2>2 DEF L1ValueOf
    <3>2. l2 = NoOne
      BY <1>5, <2>2
    <3> QED BY <1>0, <1>7, <1>9, <2>1, <3>1, <3>2
  <2>3. CASE l1 \in Users
    <3>1. \A y \in Users \ {l1} : ref[y] = ref[y] /\ L1ValueOf(c)[y] = L1ValueOf(b)[y]
      BY <1>2, <1>7, <1>10
    <3> DEFINE old == Brought(ref, L1ValueOf(b), r)
               new == Brought(ref, L1ValueOf(c), r)
               p == Part(ref, L1ValueOf(b), r, l1)
               q == Part(ref, L1ValueOf(c), r, l1)
    <3>2. old \in Nat /\ p \in Nat /\ q \in Nat /\ p <= old /\ new = old - p + q
      BY <1>1, <1>9, <2>3, <3>1, BroughtChange
    <3>3. L1ValueOf(b)[l1] \in Nat /\ L1ValueOf(c)[l1] = L1ValueOf(b)[l1] + v
      BY <1>1, <1>2, <1>7, <1>10, <2>3
    <3>4. IF r = l2 THEN q = p + v ELSE q = p
      BY <1>0, <1>4, <1>5, <2>3, <3>3 DEF Part
    <3> HIDE DEF old, new, p, q
    <3>5. c[r].l2_value = new
      BY <1>7, <2>1, <3>2, <3>4 DEF old
    <3> QED BY <1>9, <3>5 DEF new
  <2> QED BY <1>3, <2>2, <2>3
<1>14. Grounded(RefOf(c))
    BY <1>9 DEF BooksOK, ref
<1>15. BooksOK(c)
    BY <1>8, <1>11, <1>12, <1>13, <1>14 DEF BooksOK
<1> QED BY <1>9, <1>12, <1>15 DEF c, ref

\* An unbound account that becomes a root brings nobody anything.
LEMMA RootKeeps ==
    ASSUME NEW b, BooksOK(b), NEW u \in Users, b[u].referrer = NoOne, b[u].exists
    PROVE  /\ BooksOK([b EXCEPT ![u].referrer = u])
           /\ \A r \in Users : Gap([b EXCEPT ![u].referrer = u], r) = Gap(b, r)
<1> DEFINE c == [b EXCEPT ![u].referrer = u]
           ref == RefOf(b)
<1>0. b \in [Users -> Referrer] /\ NoOne \notin Users
    BY Constants DEF BooksOK
<1>1. ref \in Graphs /\ ValueOf(b) \in [Users -> Nat] /\ L1ValueOf(b) \in [Users -> Nat]
    BY <1>0, Columns
<1>2. c \in [Users -> Referrer]
    BY <1>0 DEF Referrer
<1>3. \A x \in Users : /\ c[x].referrer = (IF x = u THEN u ELSE b[x].referrer)
                       /\ c[x].exists = b[x].exists /\ c[x].value = b[x].value
                       /\ c[x].l1_value = b[x].l1_value /\ c[x].l2_value = b[x].l2_value
    BY <1>0 DEF Referrer
<1> HIDE DEF c
<1>4. RefOf(c) = [ref EXCEPT ![u] = u]
    BY <1>1, <1>3 DEF RefOf, ref
<1>5. ValueOf(c) = ValueOf(b) /\ L1ValueOf(c) = L1ValueOf(b)
    BY <1>3 DEF ValueOf, L1ValueOf
<1>6. ref[u] = NoOne
    BY DEF ref, RefOf
<1> HIDE DEF ref
<1>7. Grounded(RefOf(c))
  <2>1. Grounded(ref)
    BY DEF BooksOK, ref
  <2> QED BY <1>1, <1>4, <2>1, NewRoot
<1>8. \A h \in [Users -> Nat], r \in Users : Brought(RefOf(c), h, r) = Brought(ref, h, r)
  <2> SUFFICES ASSUME NEW h \in [Users -> Nat], NEW r \in Users
               PROVE  Brought(RefOf(c), h, r) = Brought(ref, h, r)
    OBVIOUS
  <2>1. \A x \in Users : Part(RefOf(c), h, r, x) = Part(ref, h, r, x)
    BY <1>0, <1>1, <1>4, <1>6 DEF Part, Graphs
  <2> QED BY <2>1 DEF Brought
<1>9. Present(c)
  <2> SUFFICES ASSUME NEW x \in Users, c[x].referrer # NoOne
               PROVE  c[x].exists /\ c[c[x].referrer].exists
    BY DEF Present
  <2>1. CASE x = u
    BY <1>3, <2>1
  <2>2. CASE x # u
    <3>1. b[x].referrer \in Users /\ b[x].exists /\ b[b[x].referrer].exists
      BY <1>0, <1>3, <2>2 DEF BooksOK, Present, Referrer
    <3> QED BY <1>3, <2>2, <3>1
  <2> QED BY <2>1, <2>2
<1>10. /\ \A r \in Users : c[r].l2_value = Brought(RefOf(c), L1ValueOf(c), r)
       /\ \A r \in Users : c[r].l1_value <= Brought(RefOf(c), ValueOf(c), r)
  <2>1. \A r \in Users : /\ b[r].l2_value = Brought(ref, L1ValueOf(b), r)
                         /\ b[r].l1_value <= Brought(ref, ValueOf(b), r)
    BY DEF BooksOK, ref
  <2> QED BY <1>1, <1>3, <1>5, <1>8, <2>1
<1>11. BooksOK(c)
    BY <1>2, <1>7, <1>9, <1>10 DEF BooksOK
<1>12. \A r \in Users : Gap(c, r) = Gap(b, r)
    BY <1>1, <1>3, <1>5, <1>8 DEF Gap, ref
<1> QED BY <1>11, <1>12 DEF c

Linked(b, u, to) == [b EXCEPT ![u].referrer = to, ![to].l2_value = @ + b[u].l1_value]

\* An unbound account gets a referrer, which takes over its direct volume, but not its own.
LEMMA LinkKeeps ==
    ASSUME NEW b, BooksOK(b), NEW u \in Users, NEW to \in Users, u # to,
           b[u].referrer = NoOne, b[u].exists, b[to].exists,
           Grounded([RefOf(b) EXCEPT ![u] = to])
    PROVE  /\ BooksOK(Linked(b, u, to))
           /\ Linked(b, u, to)[u].referrer = to
           /\ \A x \in Users \ {u} : Linked(b, u, to)[x].referrer = b[x].referrer
           /\ \A r \in Users :
                Gap(Linked(b, u, to), r) = Gap(b, r) + (IF r = to THEN b[u].value ELSE 0)
<1> DEFINE c == Linked(b, u, to)
           ref == RefOf(b)
<1>0. b \in [Users -> Referrer] /\ NoOne \notin Users
    BY Constants DEF BooksOK
<1>1. ref \in Graphs /\ ValueOf(b) \in [Users -> Nat] /\ L1ValueOf(b) \in [Users -> Nat]
    BY <1>0, Columns
<1>2. c \in [Users -> Referrer]
    BY <1>0 DEF Referrer, Linked
<1>3. \A x \in Users : /\ c[x].referrer = (IF x = u THEN to ELSE b[x].referrer)
                       /\ c[x].exists = b[x].exists /\ c[x].value = b[x].value
                       /\ c[x].l1_value = b[x].l1_value
                       /\ c[x].l2_value = (IF x = to THEN b[x].l2_value + b[u].l1_value
                                           ELSE b[x].l2_value)
    BY <1>0 DEF Referrer, Linked
<1> HIDE DEF c
<1>4. RefOf(c) = [ref EXCEPT ![u] = to] /\ RefOf(c) \in Graphs
  <2>1. RefOf(c) = [ref EXCEPT ![u] = to]
    BY <1>1, <1>3 DEF RefOf, ref
  <2> QED BY <1>2, <2>1, Columns
<1>5. ValueOf(c) = ValueOf(b) /\ L1ValueOf(c) = L1ValueOf(b) /\ L1ValueOf(b)[u] = b[u].l1_value
    BY <1>3 DEF ValueOf, L1ValueOf
<1>6. ref[u] = NoOne
    BY DEF ref, RefOf
<1>7. Grounded(RefOf(c))
    BY <1>4
<1> HIDE DEF ref
<1>8. ASSUME NEW h \in [Users -> Nat], NEW r \in Users
      PROVE  /\ Brought(ref, h, r) \in Nat
             /\ Brought(RefOf(c), h, r)
                  = IF r = to THEN Brought(ref, h, r) + h[u] ELSE Brought(ref, h, r)
  <2>0. PICK g \in Graphs : g = RefOf(c)
    BY <1>4
  <2>1. \A y \in Users \ {u} : g[y] = ref[y] /\ h[y] = h[y]
    BY <1>1, <1>4, <2>0 DEF Graphs
  <2> DEFINE old == Brought(ref, h, r)
             new == Brought(g, h, r)
             p == Part(ref, h, r, u)
             q == Part(g, h, r, u)
  <2>2. old \in Nat /\ p \in Nat /\ q \in Nat /\ new = old - p + q
    BY <1>1, <2>1, BroughtChange
  <2>3. p = 0 /\ q = (IF r = to THEN h[u] ELSE 0)
    BY <1>0, <1>1, <1>4, <1>6, <2>0 DEF Part, Graphs
  <2> HIDE DEF old, new, p, q
  <2>4. new = IF r = to THEN old + h[u] ELSE old
    BY <2>2, <2>3
  <2> QED BY <2>0, <2>2, <2>4 DEF old, new
<1>9. Present(c)
  <2> SUFFICES ASSUME NEW x \in Users, c[x].referrer # NoOne
               PROVE  c[x].exists /\ c[c[x].referrer].exists
    BY DEF Present
  <2>1. CASE x = u
    BY <1>3, <2>1
  <2>2. CASE x # u
    <3>1. b[x].referrer \in Users /\ b[x].exists /\ b[b[x].referrer].exists
      BY <1>0, <1>3, <2>2 DEF BooksOK, Present, Referrer
    <3> QED BY <1>3, <2>2, <3>1
  <2> QED BY <2>1, <2>2
<1>10. ASSUME NEW r \in Users
       PROVE  c[r].l2_value = Brought(RefOf(c), L1ValueOf(c), r)
  <2>1. b[r].l2_value = Brought(ref, L1ValueOf(b), r)
    BY DEF BooksOK, ref
  <2>2. Brought(RefOf(c), L1ValueOf(b), r)
          = IF r = to THEN Brought(ref, L1ValueOf(b), r) + L1ValueOf(b)[u]
            ELSE Brought(ref, L1ValueOf(b), r)
    BY <1>1, <1>8
  <2> QED BY <1>3, <1>5, <2>1, <2>2
<1>11. ASSUME NEW r \in Users
       PROVE  /\ c[r].l1_value <= Brought(RefOf(c), ValueOf(c), r)
              /\ Gap(c, r) = Gap(b, r) + (IF r = to THEN b[u].value ELSE 0)
  <2>1. b[r].l1_value <= Brought(ref, ValueOf(b), r) /\ b[r].l1_value \in Nat
    BY <1>0 DEF BooksOK, ref, Referrer
  <2>2. /\ Brought(ref, ValueOf(b), r) \in Nat
        /\ Brought(RefOf(c), ValueOf(b), r)
             = IF r = to THEN Brought(ref, ValueOf(b), r) + ValueOf(b)[u]
               ELSE Brought(ref, ValueOf(b), r)
    BY <1>1, <1>8
  <2>3. ValueOf(b)[u] \in Nat /\ ValueOf(b)[u] = b[u].value
    BY <1>1 DEF ValueOf
  <2>4. c[r].l1_value <= Brought(RefOf(c), ValueOf(c), r)
    BY <1>3, <1>5, <2>1, <2>2, <2>3
  <2>5. Gap(c, r) = Gap(b, r) + (IF r = to THEN b[u].value ELSE 0)
    BY <1>3, <1>5, <2>1, <2>2, <2>3 DEF Gap, ref
  <2> QED BY <2>4, <2>5
<1>12. BooksOK(c)
    BY <1>2, <1>7, <1>9, <1>10, <1>11 DEF BooksOK
<1> QED BY <1>3, <1>11, <1>12 DEF c

\* The sticky bind of mint_referrer: the referrer it settles on misses the locker's value.
LEMMA BindKeeps ==
    ASSUME BooksOK(book), NEW u \in Users, NEW to \in Users \cup {NoOne},
           book[u].referrer = NoOne
    PROVE  LET bound == Bind(u, to)
           IN  /\ BooksOK(bound)
               /\ bound[u].referrer \in Users
               /\ \A x \in Users \ {u} : bound[x].referrer = book[x].referrer
               /\ \A r \in Users :
                    Gap(bound, r) = Gap(book, r)
                      + (IF r # u /\ bound[u].referrer = r THEN book[u].value ELSE 0)
<1> DEFINE e == Ensure(book, u)
<1>1. BooksOK(e) /\ e[u].exists /\ e[u].referrer = NoOne /\ RefOf(e) = RefOf(book)
    BY EnsureKeeps
<1>2. /\ e[u].l1_value = book[u].l1_value /\ e[u].value = book[u].value
      /\ \A x \in Users : e[x].referrer = book[x].referrer
      /\ \A r \in Users : Gap(e, r) = Gap(book, r)
      /\ e \in [Users -> Referrer] /\ \A r \in Users : Gap(book, r) \in Int
  <2>1. e \in [Users -> Referrer] /\ book \in [Users -> Referrer]
    BY <1>1 DEF BooksOK
  <2>2. \A r \in Users : Gap(book, r) \in Int
    BY <2>1, GapInt
  <2> QED BY <2>1, <2>2, EnsureKeeps
<1> HIDE DEF e
<1>3. CASE to = NoOne \/ to = u \/ HasReferralLoop(u, to)
  <2> DEFINE c == [e EXCEPT ![u].referrer = u]
  <2>1. BooksOK(c) /\ \A r \in Users : Gap(c, r) = Gap(e, r)
    BY <1>1, RootKeeps
  <2>2. c[u].referrer = u /\ \A x \in Users \ {u} : c[x].referrer = e[x].referrer
    BY <1>2 DEF Referrer
  <2>3. Bind(u, to) = c
    BY <1>3 DEF Bind, e
  <2> HIDE DEF c
  <2> QED BY <1>2, <2>1, <2>2, <2>3
<1>4. CASE ~(to = NoOne \/ to = u \/ HasReferralLoop(u, to))
  <2> DEFINE b == Ensure(e, to)
  <2>0. to \in Users /\ to # u
    BY <1>4
  <2>1. /\ BooksOK(b) /\ b[to].exists /\ b[u].exists /\ b[u].referrer = NoOne
        /\ RefOf(b) = RefOf(e) /\ b[u].l1_value = e[u].l1_value /\ b[u].value = e[u].value
        /\ \A x \in Users : b[x].referrer = e[x].referrer
        /\ \A r \in Users : Gap(b, r) = Gap(e, r)
    BY <1>1, <2>0, EnsureKeeps
  <2> HIDE DEF b
  <2>2. Grounded([RefOf(b) EXCEPT ![u] = to])
    <3>1. RefOf(book) \in Graphs /\ Grounded(RefOf(book))
      BY Columns DEF BooksOK
    <3>2. LoopStatus(RefOf(book), u, to) # "Yes"
      BY <1>4 DEF HasReferralLoop, RefOf
    <3>3. Grounded([RefOf(book) EXCEPT ![u] = to])
      BY <2>0, <3>1, <3>2, NewEdge
    <3> QED BY <1>1, <2>1, <3>3
  <2> DEFINE c == Linked(b, u, to)
  <2>3. /\ BooksOK(c) /\ c[u].referrer = to
        /\ \A x \in Users \ {u} : c[x].referrer = b[x].referrer
        /\ \A r \in Users : Gap(c, r) = Gap(b, r) + (IF r = to THEN b[u].value ELSE 0)
    BY <2>0, <2>1, <2>2, LinkKeeps
  <2>4. Bind(u, to) = [b EXCEPT ![u].referrer = to, ![to].l2_value = @ + book[u].l1_value]
    BY <1>4 DEF Bind, b, e
  <2>5. Bind(u, to) = c
    BY <1>2, <2>1, <2>4 DEF Linked
  <2> HIDE DEF c
  <2> QED BY <1>2, <2>0, <2>1, <2>3, <2>5
<1> QED BY <1>3, <1>4

\* The five books execute_poach writes: what each column says afterwards.
LEMMA PoachWrites ==
    ASSUME BooksOK(book), NEW b \in Users, NEW u \in Users, Poach(b, u)
    PROVE  LET seller == book[u].referrer
               own    == book[u].value
               direct == book[u].l1_value
               oldL2  == book[seller].referrer
               newL2  == book[b].referrer
           IN  /\ seller \in Users /\ b # seller
               /\ b # u => ~HasReferralLoop(u, b)
               /\ book' \in [Users -> Referrer]
               /\ \A x \in Users :
                    /\ book'[x].referrer = (IF x = u THEN b ELSE book[x].referrer)
                    /\ (book[x].exists \/ (x = b /\ b # u) => book'[x].exists)
                    /\ book'[x].value = book[x].value
                    /\ book'[x].l1_value
                         = book[x].l1_value - (IF seller # u /\ x = seller THEN own ELSE 0)
                                            + (IF b # u /\ x = b THEN own ELSE 0)
                    /\ book'[x].l2_value
                         = book[x].l2_value
                             - (IF seller # u /\ x = seller THEN direct ELSE 0)
                             - (IF seller # u /\ oldL2 \notin {seller, u} /\ x = oldL2
                                THEN own ELSE 0)
                             + (IF b # u /\ x = b THEN direct ELSE 0)
                             + (IF b # u /\ newL2 \notin {b, u} /\ x = newL2 THEN own ELSE 0)
<1> DEFINE seller  == book[u].referrer
           own     == book[u].value
           direct  == book[u].l1_value
           oldL2   == book[seller].referrer
           debits  == seller # u
           debits2 == debits /\ oldL2 \notin {NoOne, seller, u}
           sold    == IF debits
                      THEN [book EXCEPT ![seller].l1_value = @ - own, ![seller].l2_value = @ - direct]
                      ELSE book
           sold2   == IF debits2 THEN [sold EXCEPT ![oldL2].l2_value = @ - own] ELSE sold
           bought  == IF b = u
                      THEN [sold2 EXCEPT ![u].referrer = u]
                      ELSE [Ensure(sold2, b) EXCEPT ![b].l1_value = @ + own,
                                                    ![b].l2_value = @ + direct,
                                                    ![u].referrer = b]
           newL2   == IF b = u THEN NoOne ELSE book[b].referrer
<1>0. book \in [Users -> Referrer] /\ NoOne \notin Users
    BY Constants DEF BooksOK
<1>1. /\ seller # NoOne /\ b # seller /\ ~HasReferralLoop(u, b)
      /\ debits => book[seller].l1_value >= own /\ book[seller].l2_value >= direct
      /\ debits2 => sold[oldL2].l2_value >= own
      /\ book' = IF newL2 \notin {NoOne, b, u}
                 THEN [bought EXCEPT ![newL2].l2_value = @ + own]
                 ELSE bought
    BY DEF Poach, DebitCovered
<1>1a. debits => book[seller].l1_value >= own /\ book[seller].l2_value >= direct
    BY <1>1
<1>1b. debits2 => sold[oldL2].l2_value >= own
    BY <1>1
<1>2. seller \in Users /\ own \in Nat /\ direct \in Nat
    BY <1>0, <1>1 DEF Referrer
<1>3. oldL2 \in Users \cup {NoOne} /\ book[b].referrer \in Users \cup {NoOne}
    BY <1>0, <1>2 DEF Referrer
<1>4. /\ sold \in [Users -> Referrer]
      /\ \A x \in Users :
           /\ sold[x].referrer = book[x].referrer /\ sold[x].exists = book[x].exists
           /\ sold[x].value = book[x].value
           /\ sold[x].l1_value = book[x].l1_value - (IF debits /\ x = seller THEN own ELSE 0)
           /\ sold[x].l2_value = book[x].l2_value - (IF debits /\ x = seller THEN direct ELSE 0)
  <2> HIDE DEF seller, own, direct
  <2>1. CASE debits
    <3>1. book[seller].l1_value \in Nat /\ book[seller].l2_value \in Nat
      BY <1>0, <1>2 DEF Referrer
    <3>2. PICK m \in Nat, n \in Nat :
            m = book[seller].l1_value - own /\ n = book[seller].l2_value - direct
      BY <1>1a, <1>2, <2>1, <3>1
    <3>3. sold = [book EXCEPT ![seller].l1_value = m, ![seller].l2_value = n]
      BY <1>0, <1>2, <2>1, <3>2
    <3> HIDE DEF sold
    <3>4. sold \in [Users -> Referrer]
      BY <1>0, <1>2, <3>3 DEF Referrer
    <3>5. /\ sold[seller].referrer = book[seller].referrer
          /\ sold[seller].exists = book[seller].exists
          /\ sold[seller].value = book[seller].value
          /\ sold[seller].l1_value = m /\ sold[seller].l2_value = n
      BY <1>0, <1>2, <3>3 DEF Referrer
    <3>6. \A x \in Users \ {seller} : sold[x] = book[x]
      BY <1>0, <1>2, <3>3
    <3>7. \A x \in Users : book[x].l1_value \in Nat /\ book[x].l2_value \in Nat
      BY <1>0 DEF Referrer
    <3> QED BY <2>1, <3>2, <3>4, <3>5, <3>6, <3>7
  <2>2. CASE ~debits
    BY <1>0, <1>2, <2>2 DEF Referrer
  <2> QED BY <2>1, <2>2
<1> HIDE DEF sold, seller, own, direct, oldL2
<1>5. /\ sold2 \in [Users -> Referrer]
      /\ \A x \in Users :
           /\ sold2[x].referrer = sold[x].referrer /\ sold2[x].exists = sold[x].exists
           /\ sold2[x].value = sold[x].value /\ sold2[x].l1_value = sold[x].l1_value
           /\ sold2[x].l2_value = sold[x].l2_value - (IF debits2 /\ x = oldL2 THEN own ELSE 0)
  <2>1. CASE debits2
    <3>0. oldL2 \in Users
      BY <1>3, <2>1
    <3>1. sold[oldL2].l2_value \in Nat
      BY <1>4, <3>0 DEF Referrer
    <3>2. PICK n \in Nat : n = sold[oldL2].l2_value - own
      BY <1>1b, <1>2, <2>1, <3>1
    <3>3. sold2 = [sold EXCEPT ![oldL2].l2_value = n]
      BY <2>1, <3>2
    <3> HIDE DEF sold2
    <3>4. sold2 \in [Users -> Referrer]
      BY <1>4, <3>0, <3>3 DEF Referrer
    <3>5. /\ sold2[oldL2].referrer = sold[oldL2].referrer
          /\ sold2[oldL2].exists = sold[oldL2].exists
          /\ sold2[oldL2].value = sold[oldL2].value
          /\ sold2[oldL2].l1_value = sold[oldL2].l1_value
          /\ sold2[oldL2].l2_value = n
      BY <1>4, <3>0, <3>3 DEF Referrer
    <3>6. \A x \in Users \ {oldL2} : sold2[x] = sold[x]
      BY <1>4, <3>3
    <3>7. \A x \in Users : sold[x].l2_value \in Nat
      BY <1>4 DEF Referrer
    <3> QED BY <2>1, <3>2, <3>4, <3>5, <3>6, <3>7
  <2>2. CASE ~debits2
    BY <1>4, <2>2 DEF Referrer
  <2> QED BY <2>1, <2>2
<1> HIDE DEF sold2
<1>6. /\ bought \in [Users -> Referrer]
      /\ \A x \in Users :
           /\ bought[x].referrer = (IF x = u THEN b ELSE sold2[x].referrer)
           /\ (sold2[x].exists \/ (x = b /\ b # u) => bought[x].exists)
           /\ bought[x].value = sold2[x].value
           /\ bought[x].l1_value = sold2[x].l1_value + (IF b # u /\ x = b THEN own ELSE 0)
           /\ bought[x].l2_value = sold2[x].l2_value + (IF b # u /\ x = b THEN direct ELSE 0)
  <2>1. CASE b = u
    BY <1>5, <2>1 DEF Referrer
  <2>2. CASE b # u
    <3> DEFINE e == Ensure(sold2, b)
    <3>1. /\ e \in [Users -> Referrer]
          /\ \A x \in Users :
               /\ e[x].referrer = sold2[x].referrer /\ e[x].value = sold2[x].value
               /\ (sold2[x].exists \/ x = b => e[x].exists)
               /\ e[x].l1_value = sold2[x].l1_value /\ e[x].l2_value = sold2[x].l2_value
      BY <1>5 DEF Ensure, Referrer
    <3>2. bought = [e EXCEPT ![b].l1_value = @ + own, ![b].l2_value = @ + direct,
                             ![u].referrer = b]
      BY <2>2
    <3> HIDE DEF e, bought
    <3>3. PICK m \in Nat, n \in Nat : m = e[b].l1_value + own /\ n = e[b].l2_value + direct
      BY <1>2, <3>1 DEF Referrer
    <3>4. bought = [e EXCEPT ![b].l1_value = m, ![b].l2_value = n, ![u].referrer = b]
      BY <3>1, <3>2, <3>3
    <3>5. bought \in [Users -> Referrer]
      BY <3>1, <3>4 DEF Referrer
    <3>6. /\ bought[b].referrer = e[b].referrer /\ bought[b].exists = e[b].exists
          /\ bought[b].value = e[b].value
          /\ bought[b].l1_value = m /\ bought[b].l2_value = n
      BY <2>2, <3>1, <3>4 DEF Referrer
    <3>7. /\ bought[u].referrer = b /\ bought[u].exists = e[u].exists
          /\ bought[u].value = e[u].value
          /\ bought[u].l1_value = e[u].l1_value /\ bought[u].l2_value = e[u].l2_value
      BY <2>2, <3>1, <3>4 DEF Referrer
    <3>8. \A x \in Users \ {b, u} : bought[x] = e[x]
      BY <3>1, <3>4
    <3>9. \A x \in Users : sold2[x].l1_value \in Nat /\ sold2[x].l2_value \in Nat
      BY <1>5 DEF Referrer
    <3> QED BY <2>2, <3>1, <3>3, <3>5, <3>6, <3>7, <3>8, <3>9
  <2> QED BY <2>1, <2>2
<1> HIDE DEF bought
<1>7. /\ book' \in [Users -> Referrer]
      /\ \A x \in Users :
           /\ book'[x].referrer = bought[x].referrer /\ book'[x].exists = bought[x].exists
           /\ book'[x].value = bought[x].value /\ book'[x].l1_value = bought[x].l1_value
           /\ book'[x].l2_value
                = bought[x].l2_value
                    + (IF newL2 \notin {NoOne, b, u} /\ x = newL2 THEN own ELSE 0)
  <2>1. CASE newL2 \notin {NoOne, b, u}
    <3>1. newL2 \in Users
      BY <1>3, <2>1
    <3>2. book' = [bought EXCEPT ![newL2].l2_value = @ + own]
      BY <1>1, <2>1
    <3> HIDE DEF newL2
    <3> QED BY <1>2, <1>6, <2>1, <3>1, <3>2 DEF Referrer
  <2>2. CASE ~(newL2 \notin {NoOne, b, u})
    <3>1. book' = bought
      BY <1>1, <2>2
    <3> QED BY <1>6, <2>2, <3>1 DEF Referrer
  <2> QED BY <2>1, <2>2
<1>8. \A x \in Users : /\ book[x].l1_value \in Nat /\ book[x].l2_value \in Nat
                       /\ x # NoOne
    BY <1>0 DEF Referrer
<1>9. ASSUME NEW x \in Users
      PROVE  /\ book'[x].referrer = (IF x = u THEN b ELSE book[x].referrer)
             /\ (book[x].exists \/ (x = b /\ b # u) => book'[x].exists)
             /\ book'[x].value = book[x].value
             /\ book'[x].l1_value
                  = book[x].l1_value - (IF seller # u /\ x = seller THEN own ELSE 0)
                                     + (IF b # u /\ x = b THEN own ELSE 0)
             /\ book'[x].l2_value
                  = book[x].l2_value
                      - (IF seller # u /\ x = seller THEN direct ELSE 0)
                      - (IF seller # u /\ oldL2 \notin {seller, u} /\ x = oldL2
                         THEN own ELSE 0)
                      + (IF b # u /\ x = b THEN direct ELSE 0)
                      + (IF b # u /\ book[b].referrer \notin {b, u} /\ x = book[b].referrer
                         THEN own ELSE 0)
  <2> DEFINE old == book[x]
             new == book'[x]
             s1 == sold[x]
             s2 == sold2[x]
             s3 == bought[x]
             d1 == IF debits /\ x = seller THEN own ELSE 0
             d2 == IF debits /\ x = seller THEN direct ELSE 0
             d3 == IF debits2 /\ x = oldL2 THEN own ELSE 0
             d4 == IF b # u /\ x = b THEN own ELSE 0
             d5 == IF b # u /\ x = b THEN direct ELSE 0
             d6 == IF newL2 \notin {NoOne, b, u} /\ x = newL2 THEN own ELSE 0
  <2>a. /\ s1.referrer = old.referrer /\ s1.exists = old.exists /\ s1.value = old.value
        /\ s1.l1_value = old.l1_value - d1 /\ s1.l2_value = old.l2_value - d2
    BY <1>4
  <2>b. /\ s2.referrer = s1.referrer /\ s2.exists = s1.exists /\ s2.value = s1.value
        /\ s2.l1_value = s1.l1_value /\ s2.l2_value = s1.l2_value - d3
    BY <1>5
  <2>c. /\ s3.referrer = (IF x = u THEN b ELSE s2.referrer) /\ s3.value = s2.value
        /\ (s2.exists \/ (x = b /\ b # u) => s3.exists)
        /\ s3.l1_value = s2.l1_value + d4 /\ s3.l2_value = s2.l2_value + d5
    BY <1>6
  <2>d. /\ new.referrer = s3.referrer /\ new.exists = s3.exists /\ new.value = s3.value
        /\ new.l1_value = s3.l1_value /\ new.l2_value = s3.l2_value + d6
    BY <1>7
  <2>e. /\ old.l1_value \in Nat /\ old.l2_value \in Nat
        /\ d1 \in Nat /\ d2 \in Nat /\ d3 \in Nat /\ d4 \in Nat /\ d5 \in Nat /\ d6 \in Nat
    BY <1>2, <1>8
  <2> HIDE DEF old, new, s1, s2, s3, d1, d2, d3, d4, d5, d6
  <2>f. new.l1_value = old.l1_value - d1 + d4
    BY <2>a, <2>b, <2>c, <2>d, <2>e
  <2>g. new.l2_value = old.l2_value - d2 - d3 + d5 + d6
    BY <2>a, <2>b, <2>c, <2>d, <2>e
  <2>h. /\ new.referrer = (IF x = u THEN b ELSE old.referrer) /\ new.value = old.value
        /\ (old.exists \/ (x = b /\ b # u) => new.exists)
    BY <2>a, <2>b, <2>c, <2>d
  <2>1. /\ book'[x].referrer = (IF x = u THEN b ELSE book[x].referrer)
        /\ (book[x].exists \/ (x = b /\ b # u) => book'[x].exists)
        /\ book'[x].value = book[x].value
    BY <2>h DEF old, new
  <2>2. book'[x].l1_value
          = book[x].l1_value - (IF seller # u /\ x = seller THEN own ELSE 0)
                             + (IF b # u /\ x = b THEN own ELSE 0)
    BY <2>f DEF old, new, d1, d4
  <2>3. (debits2 /\ x = oldL2) <=> (seller # u /\ oldL2 \notin {seller, u} /\ x = oldL2)
    BY <1>8
  <2>4. (newL2 \notin {NoOne, b, u} /\ x = newL2)
           <=> (b # u /\ book[b].referrer \notin {b, u} /\ x = book[b].referrer)
    BY <1>8
  <2>5. book'[x].l2_value
          = book[x].l2_value - (IF debits /\ x = seller THEN direct ELSE 0)
              - (IF debits2 /\ x = oldL2 THEN own ELSE 0)
              + (IF b # u /\ x = b THEN direct ELSE 0)
              + (IF newL2 \notin {NoOne, b, u} /\ x = newL2 THEN own ELSE 0)
    BY <2>g DEF old, new, d2, d3, d5, d6
  <2> QED BY <2>1, <2>2, <2>3, <2>4, <2>5
<1> QED BY <1>1, <1>2, <1>7, <1>9 DEF seller, own, direct, oldL2

\* A poach moves the volume of a locker, and of the locker's own referrals, with its slot.
LEMMA PoachKeeps ==
    ASSUME BooksOK(book), NEW b \in Users, NEW u \in Users, Poach(b, u)
    PROVE  /\ BooksOK(book')
           /\ \A r \in Users : Gap(book', r) = Gap(book, r)
<1> DEFINE new == book'
           ref == RefOf(book)
           val == ValueOf(book)
           lev == L1ValueOf(book)
           seller == book[u].referrer
           own    == book[u].value
           direct == book[u].l1_value
           oldL2  == book[seller].referrer
           newL2  == book[b].referrer
<1>0. book \in [Users -> Referrer] /\ NoOne \notin Users
    BY Constants DEF BooksOK
<1>1. seller \in Users /\ b # seller /\ (b # u => ~HasReferralLoop(u, b))
    BY PoachWrites
<1>2. new \in [Users -> Referrer]
    BY PoachWrites
<1>3. \A x \in Users :
        /\ new[x].referrer = (IF x = u THEN b ELSE book[x].referrer)
        /\ (book[x].exists \/ (x = b /\ b # u) => new[x].exists)
        /\ new[x].value = book[x].value
    BY PoachWrites
<1>4. \A x \in Users :
        new[x].l1_value = book[x].l1_value - (IF seller # u /\ x = seller THEN own ELSE 0)
                                           + (IF b # u /\ x = b THEN own ELSE 0)
    BY PoachWrites
<1>5. \A x \in Users :
        new[x].l2_value
          = book[x].l2_value
              - (IF seller # u /\ x = seller THEN direct ELSE 0)
              - (IF seller # u /\ oldL2 \notin {seller, u} /\ x = oldL2 THEN own ELSE 0)
              + (IF b # u /\ x = b THEN direct ELSE 0)
              + (IF b # u /\ newL2 \notin {b, u} /\ x = newL2 THEN own ELSE 0)
    BY PoachWrites
<1> HIDE DEF new
<1>6. ref \in Graphs /\ val \in [Users -> Nat] /\ lev \in [Users -> Nat]
    BY <1>0, Columns
<1>7. /\ \A x \in Users : /\ ref[x] = book[x].referrer /\ val[x] = book[x].value
                          /\ lev[x] = book[x].l1_value
      /\ own \in Nat /\ direct \in Nat
    BY <1>0 DEF RefOf, ValueOf, L1ValueOf, Referrer
<1>8. RefOf(new) = [ref EXCEPT ![u] = b] /\ ValueOf(new) = val
    BY <1>3, <1>6 DEF RefOf, ValueOf
<1>9. Grounded(ref) /\ ref[u] = seller
    BY <1>7 DEF BooksOK
<1>10. PICK g \in Graphs, m \in [Users -> Nat] : g = RefOf(new) /\ m = L1ValueOf(new)
    BY <1>2, Columns
<1>11. g[u] = b /\ \A x \in Users \ {u} : g[x] = ref[x]
    BY <1>6, <1>8, <1>10 DEF Graphs
<1>12. Grounded(g)
  <2>1. CASE b = u
    <3> HIDE DEF ref
    <3>1. Grounded([ref EXCEPT ![u] = u])
      BY <1>6, <1>9, NewRoot
    <3> QED BY <1>8, <1>10, <2>1, <3>1
  <2>2. CASE b # u
    <3>1. LoopStatus(ref, u, b) # "Yes"
      BY <1>1, <2>2 DEF HasReferralLoop, RefOf
    <3> HIDE DEF ref
    <3>2. Grounded([ref EXCEPT ![u] = b])
      BY <1>6, <1>9, <2>2, <3>1, NewEdge
    <3> QED BY <1>8, <1>10, <3>2
  <2> QED BY <2>1, <2>2
<1>13. Present(new)
  <2> SUFFICES ASSUME NEW x \in Users, new[x].referrer # NoOne
               PROVE  new[x].exists /\ new[new[x].referrer].exists
    BY DEF Present
  <2>0. \A y \in Users : book[y].referrer # NoOne =>
          /\ book[y].referrer \in Users /\ book[y].exists /\ book[book[y].referrer].exists
    BY <1>0 DEF BooksOK, Present, Referrer
  <2>1. CASE x = u
    <3>1. book[u].exists /\ new[u].exists /\ new[u].referrer = b
      BY <1>0, <1>1, <1>3, <2>0
    <3>2. new[b].exists
      BY <1>3, <3>1
    <3> QED BY <2>1, <3>1, <3>2
  <2>2. CASE x # u
    <3>1. new[x].referrer = book[x].referrer
      BY <1>3, <2>2
    <3>2. book[x].referrer \in Users /\ book[x].exists /\ book[book[x].referrer].exists
      BY <2>0, <3>1
    <3> QED BY <1>3, <3>1, <3>2
  <2> QED BY <2>1, <2>2
<1>14. \A x \in Users : book[x].l1_value \in Nat /\ book[x].l2_value \in Nat
    BY <1>0 DEF Referrer
<1>15. \A r \in Users : book[r].l2_value = Brought(ref, lev, r) /\ book[r].l1_value <= Brought(ref, val, r)
    BY DEF BooksOK
<1> HIDE DEF ref, val, lev, seller, own, direct, oldL2, newL2
<1>16. ASSUME NEW r \in Users
       PROVE  /\ new[r].l1_value <= Brought(RefOf(new), ValueOf(new), r)
              /\ Gap(new, r) = Gap(book, r)
  <2> DEFINE old == Brought(ref, val, r)
             now == Brought(g, val, r)
             p == Part(ref, val, r, u)
             q == Part(g, val, r, u)
  <2>1. \A y \in Users \ {u} : g[y] = ref[y] /\ val[y] = val[y]
    BY <1>11
  <2>2. old \in Nat /\ p \in Nat /\ q \in Nat /\ p <= old /\ now = old - p + q
    <3>1. PICK f \in Graphs, h \in [Users -> Nat] : f = ref /\ h = val
      BY <1>6
    <3>2. \A y \in Users \ {u} : g[y] = f[y] /\ h[y] = h[y]
      BY <2>1, <3>1
    <3>3. /\ Brought(f, h, r) \in Nat /\ Part(f, h, r, u) \in Nat /\ Part(g, h, r, u) \in Nat
          /\ Part(f, h, r, u) <= Brought(f, h, r)
          /\ Brought(g, h, r) = Brought(f, h, r) - Part(f, h, r, u) + Part(g, h, r, u)
      BY <3>2, BroughtChange
    <3> QED BY <3>1, <3>3
  <2>3. val[u] = own
    BY <1>7 DEF own
  <2>4. /\ p = (IF seller # u /\ r = seller THEN own ELSE 0)
        /\ q = (IF b # u /\ r = b THEN own ELSE 0)
    BY <1>9, <1>11, <2>3 DEF Part
  <2>5. new[r].l1_value = book[r].l1_value - p + q
    BY <1>4, <2>4
  <2>6. book[r].l1_value <= old /\ book[r].l1_value \in Nat
    BY <1>14, <1>15
  <2> HIDE DEF old, now, p, q
  <2>7. new[r].l1_value <= now /\ now - new[r].l1_value = old - book[r].l1_value
    BY <2>2, <2>5, <2>6
  <2> QED BY <1>8, <1>10, <2>7 DEF now, old, Gap, ref, val
<1>17. ASSUME NEW r \in Users
       PROVE  new[r].l2_value = Brought(RefOf(new), L1ValueOf(new), r)
  <2> DEFINE mid == [x \in Users |-> IF seller # u /\ x = seller THEN lev[x] - own ELSE lev[x]]
  <2>1. \A x \in Users : m[x] = lev[x] - (IF seller # u /\ x = seller THEN own ELSE 0)
                                       + (IF b # u /\ x = b THEN own ELSE 0)
    BY <1>4, <1>7, <1>10 DEF L1ValueOf
  <2>2. mid \in [Users -> Nat]
    <3> SUFFICES ASSUME NEW x \in Users, seller # u, x = seller PROVE lev[x] - own \in Nat
      BY <1>6
    <3>1. m[x] = lev[x] - own
      BY <1>1, <1>6, <1>7, <2>1
    <3> QED BY <3>1
  <2>3. \A x \in Users : mid[x] = (IF seller # u /\ x = seller THEN lev[x] - own ELSE lev[x])
    OBVIOUS
  <2> HIDE DEF mid
  <2> DEFINE s0 == Brought(ref, lev, r)
             s1 == Brought(g, lev, r)
             s2 == Brought(g, mid, r)
             s3 == Brought(g, m, r)
             p1 == Part(ref, lev, r, u)
             q1 == Part(g, lev, r, u)
             p2 == Part(g, lev, r, seller)
             q2 == Part(g, mid, r, seller)
             p3 == Part(g, mid, r, b)
             q3 == Part(g, m, r, b)
  <2>4. s0 \in Nat /\ p1 \in Nat /\ q1 \in Nat /\ s1 = s0 - p1 + q1
    <3>1. PICK f \in Graphs, h \in [Users -> Nat] : f = ref /\ h = lev
      BY <1>6
    <3>2. \A y \in Users \ {u} : g[y] = f[y] /\ h[y] = h[y]
      BY <1>11, <3>1
    <3>3. /\ Brought(f, h, r) \in Nat /\ Part(f, h, r, u) \in Nat /\ Part(g, h, r, u) \in Nat
          /\ Brought(g, h, r) = Brought(f, h, r) - Part(f, h, r, u) + Part(g, h, r, u)
      BY <3>2, BroughtChange
    <3> QED BY <3>1, <3>3
  <2>5. s1 \in Nat /\ p2 \in Nat /\ q2 \in Nat /\ s2 = s1 - p2 + q2
    <3>1. \A y \in Users \ {seller} : g[y] = g[y] /\ mid[y] = lev[y]
      BY <2>3
    <3> QED BY <1>1, <1>6, <2>2, <3>1, BroughtChange
  <2>6. s2 \in Nat /\ p3 \in Nat /\ q3 \in Nat /\ s3 = s2 - p3 + q3
    <3>1. \A y \in Users \ {b} : g[y] = g[y] /\ m[y] = mid[y]
      BY <1>6, <1>7, <2>1, <2>3
    <3> QED BY <2>2, <3>1, BroughtChange
  <2>7. /\ p1 = (IF seller # u /\ r = seller THEN direct ELSE 0)
        /\ q1 = (IF b # u /\ r = b THEN direct ELSE 0)
    <3>1. lev[u] = direct
      BY <1>7 DEF direct
    <3> QED BY <1>9, <1>11, <3>1 DEF Part
  <2>8. p2 - q2 = (IF seller # u /\ oldL2 \notin {seller, u} /\ r = oldL2 THEN own ELSE 0)
    <3>1. CASE seller = u
      <4>1. mid[seller] = lev[seller]
        BY <1>1, <2>3, <3>1
      <4>2. p2 = q2
        BY <4>1 DEF Part
      <4> QED BY <2>5, <3>1, <4>2
    <3>2. CASE seller # u
      <4>1. g[seller] = oldL2
        BY <1>1, <1>7, <1>11, <3>2 DEF oldL2
      <4>2. oldL2 # u
        <5>1. ref[seller] # u
          BY <1>1, <1>9, <3>2, NoMutual
        <5> QED BY <1>1, <1>11, <3>2, <4>1, <5>1
      <4>3. mid[seller] = lev[seller] - own /\ lev[seller] \in Nat /\ mid[seller] \in Nat
        BY <1>1, <1>6, <2>2, <2>3, <3>2
      <4>4. CASE seller # r /\ oldL2 = r
        <5>1. p2 = lev[seller] /\ q2 = mid[seller]
          BY <4>1, <4>4 DEF Part
        <5> QED BY <1>7, <3>2, <4>2, <4>3, <4>4, <5>1
      <4>5. CASE ~(seller # r /\ oldL2 = r)
        <5>1. p2 = 0 /\ q2 = 0
          BY <4>1, <4>5 DEF Part
        <5> QED BY <4>5, <5>1
      <4> QED BY <4>4, <4>5
    <3> QED BY <3>1, <3>2
  <2>9. q3 - p3 = (IF b # u /\ newL2 \notin {b, u} /\ r = newL2 THEN own ELSE 0)
    <3>0. mid[b] = lev[b] /\ mid[b] \in Nat
      BY <1>1, <2>2, <2>3
    <3>1. CASE b = u
      <4>1. m[b] = mid[b]
        BY <1>1, <1>6, <1>7, <2>1, <3>0, <3>1
      <4>2. p3 = q3
        BY <4>1 DEF Part
      <4> QED BY <2>6, <3>1, <4>2
    <3>2. CASE b # u
      <4>1. g[b] = newL2
        BY <1>7, <1>11, <3>2 DEF newL2
      <4>2. newL2 # u
        <5>1. g[b] # u
          BY <1>11, <1>12, <3>2, NoMutual
        <5> QED BY <4>1, <5>1
      <4>3. m[b] = mid[b] + own
        BY <1>1, <1>6, <1>7, <2>1, <3>0, <3>2
      <4>4. CASE b # r /\ newL2 = r
        <5>1. p3 = mid[b] /\ q3 = m[b]
          BY <4>1, <4>4 DEF Part
        <5> QED BY <1>7, <3>0, <3>2, <4>2, <4>3, <4>4, <5>1
      <4>5. CASE ~(b # r /\ newL2 = r)
        <5>1. p3 = 0 /\ q3 = 0
          BY <4>1, <4>5 DEF Part
        <5> QED BY <4>5, <5>1
      <4> QED BY <4>4, <4>5
    <3> QED BY <3>1, <3>2
  <2> HIDE DEF s0, s1, s2, s3, p1, q1, p2, q2, p3, q3
  <2>10. new[r].l2_value = book[r].l2_value - p1 - (p2 - q2) + q1 + (q3 - p3)
    BY <1>5, <2>7, <2>8, <2>9
  <2>11. book[r].l2_value = s0
    BY <1>15 DEF s0
  <2>12. new[r].l2_value = s3
    BY <2>4, <2>5, <2>6, <2>10, <2>11
  <2> QED BY <1>10, <2>12 DEF s3
<1>18. Grounded(RefOf(new))
    BY <1>10, <1>12
<1>19. BooksOK(new)
    BY <1>2, <1>13, <1>16, <1>17, <1>18 DEF BooksOK
<1> QED BY <1>16, <1>19 DEF new

-------------------------------------------------------------------------------
(* The invariant. *)

LEMMA InitBooks == Init => ReferralsInv
<1> SUFFICES ASSUME Init PROVE ReferralsInv
    OBVIOUS
<1>0. NoOne \notin Users /\ IsFiniteSet(Users)
    BY Constants
<1>1. book = [u \in Users |-> NoBook] /\ referrers = {}
    BY DEF Init
<1>2. book \in [Users -> Referrer]
    BY <1>1 DEF Referrer, NoBook
<1>3. \A u \in Users : /\ book[u].referrer = NoOne
                       /\ book[u].l1_value = 0 /\ book[u].l2_value = 0
    BY <1>1 DEF NoBook
<1>4. Grounded(RefOf(book))
    BY <1>0, <1>3 DEF Grounded, RefOf
<1>5. Present(book)
    BY <1>3 DEF Present
<1>6. ASSUME NEW h, NEW r \in Users PROVE Brought(RefOf(book), h, r) = 0
  <2>1. \A x \in Users : Part(RefOf(book), h, r, x) = 0
    BY <1>0, <1>3 DEF Part, RefOf
  <2>2. [x \in Users |-> Part(RefOf(book), h, r, x)] = [x \in Users |-> 0]
    BY <2>1
  <2> QED BY <2>2, TotalZero DEF Brought
<1>7. /\ \A r \in Users : book[r].l2_value = Brought(RefOf(book), L1ValueOf(book), r)
      /\ \A r \in Users : book[r].l1_value <= Brought(RefOf(book), ValueOf(book), r)
    BY <1>3, <1>6
<1> QED BY <1>1, <1>2, <1>4, <1>5, <1>7 DEF ReferralsInv, BooksOK

LEMMA StepKeepsBooks == ReferralsInv /\ [Next]_vars => ReferralsInv'
<1> SUFFICES ASSUME ReferralsInv, [Next]_vars PROVE ReferralsInv'
    OBVIOUS
<1>0. BooksOK(book) /\ referrers \subseteq Users /\ book \in [Users -> Referrer]
    BY DEF ReferralsInv, BooksOK
<1>1. \A v \in Values : v \in Nat
    BY ReferralsAssumption
<1>2. ASSUME NEW u \in Users, NEW to \in Users \cup {NoOne}, NEW v \in Values, Deposit(u, to, v)
      PROVE  ReferralsInv'
  <2> DEFINE binds == book[u].referrer = NoOne
             bound == IF binds THEN Bind(u, to) ELSE book
             l1 == L1Of(bound, u)
  <2>1. /\ book' = CreditBooks(bound, u, v)
        /\ referrers' = referrers \cup Registered(u)
                          \cup (IF binds /\ l1 # NoOne THEN Registered(l1) ELSE {})
    BY <1>2 DEF Deposit
  <2>2. BooksOK(bound)
    <3>1. CASE binds
      <4>1. BooksOK(Bind(u, to))
        BY <1>0, <3>1, BindKeeps
      <4> QED BY <3>1, <4>1
    <3>2. CASE ~binds
      BY <1>0, <3>2
    <3> QED BY <3>1, <3>2
  <2>3. l1 \in Users \cup {NoOne}
    <3>1. bound \in [Users -> Referrer]
      BY <2>2 DEF BooksOK
    <3> HIDE DEF bound
    <3> QED BY <3>1 DEF L1Of, Referrer
  <2> HIDE DEF bound, l1
  <2>4. BooksOK(CreditBooks(bound, u, v))
    BY <1>1, <2>2, CreditKeeps
  <2>5. referrers' \subseteq Users
    BY <1>0, <2>1, <2>3 DEF Registered
  <2>6. BooksOK(book')
    BY <2>1, <2>4
  <2> QED BY <2>5, <2>6 DEF ReferralsInv, BooksOK, Present, RefOf, ValueOf, L1ValueOf
<1>3. ASSUME NEW u \in Users, NEW v \in Values, Claim(u, v)
      PROVE  ReferralsInv'
  <2>1. book' = CreditBooks(Ensure(book, u), u, v) /\ referrers' = referrers
    BY <1>3 DEF Claim
  <2>2. BooksOK(Ensure(book, u))
    BY <1>0, EnsureKeeps
  <2>3. BooksOK(CreditBooks(Ensure(book, u), u, v))
    BY <1>1, <2>2, CreditKeeps
  <2>4. BooksOK(book')
    BY <2>1, <2>3
  <2> QED BY <1>0, <2>1, <2>4 DEF ReferralsInv, BooksOK, Present, RefOf, ValueOf, L1ValueOf
<1>4. ASSUME NEW b \in Users, NEW u \in Users, Poach(b, u)
      PROVE  ReferralsInv'
  <2>1. BooksOK(book')
    BY <1>0, <1>4, PoachKeeps
  <2>2. referrers' \subseteq Users
    BY <1>0, <1>4 DEF Poach, Registered
  <2> QED BY <2>1, <2>2 DEF ReferralsInv, BooksOK, Present, RefOf, ValueOf, L1ValueOf
<1>5. CASE UNCHANGED vars
    BY <1>0, <1>5 DEF vars, ReferralsInv, BooksOK, Present, RefOf, ValueOf, L1ValueOf
<1> QED BY <1>2, <1>3, <1>4, <1>5 DEF Next

LEMMA ReferralsInvHolds == Spec => []ReferralsInv
BY InitBooks, StepKeepsBooks, PTL DEF Spec

-------------------------------------------------------------------------------
(* Theorems. *)

\* For any number of wallets: binds and poaches, in whatever order, never close a cycle of
\* referrers (has_referral_loop guards both, and on a forest it ends in time).
THEOREM AlwaysAcyclic == Spec => []Acyclic
<1>1. ReferralsInv => Acyclic
  <2> SUFFICES ASSUME ReferralsInv, NEW k \in Users
               PROVE  Upline([u \in Users |-> book[u].referrer], k)[Cardinality(Users)] = NoOne
    BY DEF Acyclic
  <2>1. RefOf(book) \in Graphs /\ Grounded(RefOf(book))
    BY Columns DEF ReferralsInv, BooksOK
  <2>2. Upline(RefOf(book), k)[Cardinality(Users)] = NoOne
    BY <2>1, WaysEnd
  <2> QED BY <2>2 DEF RefOf
<1> QED BY <1>1, ReferralsInvHolds, PTL

\* The answer of has_referral_loop is what it is asked.
LoopsExact ==
    \A locker, to \in Users :
      HasReferralLoop(locker, to) <=> to # locker /\ OnWay(RefOf(book), locker, to)

\* On the books it is called on, has_referral_loop is exact, for any number of accounts: it
\* says yes when the locker is above the proposed referrer, and only then.
THEOREM LoopsToldApart == Spec => []LoopsExact
<1>1. ASSUME ReferralsInv, NEW locker \in Users, NEW to \in Users
      PROVE  HasReferralLoop(locker, to) <=> to # locker /\ OnWay(RefOf(book), locker, to)
  <2> DEFINE ref == RefOf(book)
  <2>1. ref \in Graphs /\ Grounded(ref)
    BY <1>1, Columns DEF ReferralsInv, BooksOK
  <2>2. HasReferralLoop(locker, to) <=> LoopStatus(ref, locker, to) = "Yes"
    BY DEF HasReferralLoop, RefOf
  <2> HIDE DEF ref
  <2>3. PICK g \in Graphs : g = ref
    BY <2>1
  <2>4. LoopStatus(g, locker, to) \in {"Yes", "No"}
    BY AlwaysDecided
  <2>5. ASSUME to # locker, OnWay(g, locker, to) PROVE LoopStatus(g, locker, to) = "Yes"
    BY <2>4, <2>5, NoMissedLoop
  <2>6. ASSUME ~OnWay(g, locker, to) PROVE LoopStatus(g, locker, to) # "Yes"
    <3>1. PICK S : Closed(g, S) /\ to \in S /\ locker \notin S
      BY <2>6 DEF OnWay
    <3> QED BY <2>1, <2>3, <3>1, NoFalseLoop
  <2>7. ASSUME to = locker PROVE LoopStatus(g, locker, to) # "Yes"
    BY <2>7, SelfNoLoop
  <2> QED BY <2>2, <2>3, <2>5, <2>6, <2>7 DEF ref
<1>2. ReferralsInv => LoopsExact
    BY <1>1 DEF LoopsExact
<1> QED BY <1>2, ReferralsInvHolds, PTL

\* Floyd's walk ends within one turn per account, and its answer is right on every graph that
\* adds edges to the books, for any number of accounts.
THEOREM LoopAlwaysDecided == Spec => []LoopDecided
<1>1. ReferralsInv => LoopDecided
  <2> DEFINE free == {u \in Users : book[u].referrer = NoOne}
             Ref(edge) == [u \in Users |-> IF u \in free THEN edge[u] ELSE book[u].referrer]
  <2> SUFFICES ASSUME ReferralsInv, NEW edge \in [free -> Users \cup {NoOne}],
                      NEW locker \in Users, NEW to \in Users
               PROVE  LET up     == Upline(Ref(edge), to)
                          loops  == /\ to # locker
                                    /\ \/ \E n \in 1..Cardinality(Users) : up[n] \in {locker, to}
                                       \/ up[Cardinality(Users)] # NoOne
                      IN  LoopStatus(Ref(edge), locker, to) = IF loops THEN "Yes" ELSE "No"
    BY DEF LoopDecided
  <2>1. Ref(edge) \in Graphs
    BY DEF ReferralsInv, BooksOK, Referrer, Graphs
  <2>2. PICK g \in Graphs : g = Ref(edge)
    BY <2>1
  <2> HIDE DEF Ref
  <2> QED BY <2>2, LoopStatusRight
<1> QED BY <1>1, ReferralsInvHolds, PTL

\* l2_value of every account is at all times the first-level volume of its children: credits,
\* late binds and the shifts of execute_poach neither lose nor invent volume, and no
\* checked_sub of them goes below zero.
THEOREM L2AlwaysExact == Spec => []L2Exact
<1>1. ReferralsInv => L2Exact
  <2> SUFFICES ASSUME ReferralsInv PROVE L2Exact
    OBVIOUS
  <2>1. TypeOK
    BY DEF ReferralsInv, BooksOK, TypeOK
  <2>2. ASSUME NEW r \in Users
        PROVE  book[r].l2_value = Total([c \in Children(r) |-> book[c].l1_value])
    <3> DEFINE C == {c \in Users \ {r} : book[c].referrer = r}
    <3>1. Total([c \in C |-> L1ValueOf(book)[c]]) = Brought(RefOf(book), L1ValueOf(book), r)
      BY ChildrenSum
    <3>2. [c \in C |-> L1ValueOf(book)[c]] = [c \in C |-> book[c].l1_value]
      BY DEF L1ValueOf
    <3>3. book[r].l2_value = Brought(RefOf(book), L1ValueOf(book), r)
      BY DEF ReferralsInv, BooksOK
    <3>4. C = Children(r)
      BY DEF Children
    <3> HIDE DEF C
    <3> QED BY <3>1, <3>2, <3>3, <3>4
  <2> QED BY <2>1, <2>2 DEF L2Exact
<1> QED BY <1>1, ReferralsInvHolds, PTL

LEMMA ChildrenBrought ==
    ASSUME NEW b, NEW r \in Users
    PROVE  Total([c \in {c \in Users \ {r} : b[c].referrer = r} |-> b[c].value])
             = Brought(RefOf(b), ValueOf(b), r)
<1> DEFINE C == {c \in Users \ {r} : b[c].referrer = r}
<1>1. Total([c \in C |-> ValueOf(b)[c]]) = Brought(RefOf(b), ValueOf(b), r)
    BY ChildrenSum
<1>2. [c \in C |-> ValueOf(b)[c]] = [c \in C |-> b[c].value]
    BY DEF ValueOf
<1> QED BY <1>1, <1>2

\* What the children of r brought and the first-level book of r does not show.
Shortfall(r) == Total([c \in Children(r) |-> book[c].value]) - book[r].l1_value

LEMMA ShortfallIsGap ==
    ASSUME NEW r \in Users
    PROVE  Shortfall(r) = Gap(book, r) /\ Shortfall(r)' = Gap(book', r)
<1>1. Shortfall(r) = Gap(book, r)
    BY ChildrenBrought DEF Shortfall, Gap, Children
<1>2. Shortfall(r)' = Gap(book', r)
    BY ChildrenBrought DEF Shortfall, Gap, Children
<1> QED BY <1>1, <1>2

\* What the checked_sub of a poach of u find in the books above u.
DebitsCovered ==
    \A u \in Users :
      LET seller == book[u].referrer
          above  == book[seller].referrer
      IN  seller \notin {NoOne, u} =>
            /\ book[seller].l2_value >= book[u].l1_value
            /\ above \notin {NoOne, seller} => book[above].l2_value >= book[seller].l1_value
            /\ Shortfall(seller) = 0 => book[seller].l1_value >= book[u].value

\* The first-level book of a referrer never exceeds what its present children brought, and
\* of the three debits of a poach (execute_poach) only the seller's first-level one can fail:
\* both second-level debits are covered whenever that one is, and that one is covered on
\* every book that shows all its children brought.
THEOREM L1AlwaysCovered == Spec => [](L1NeverAhead /\ DebitsCovered)
<1>1. ASSUME ReferralsInv, NEW r \in Users
      PROVE  book[r].l1_value <= Total([c \in Children(r) |-> book[c].value])
  <2>1. book[r].l1_value <= Brought(RefOf(book), ValueOf(book), r)
    BY <1>1 DEF ReferralsInv, BooksOK
  <2> QED BY <2>1, ChildrenBrought DEF Children
<1>2. ASSUME ReferralsInv, NEW u \in Users, NEW s \in Users, s = book[u].referrer, s # u
      PROVE  /\ book[s].l2_value >= book[u].l1_value
             /\ Shortfall(s) = 0 => book[s].l1_value >= book[u].value
  <2>1. book \in [Users -> Referrer] /\ book[s].l2_value = Brought(RefOf(book), L1ValueOf(book), s)
    BY <1>2 DEF ReferralsInv, BooksOK
  <2>2. PICK ref \in Graphs, val \in [Users -> Nat], lev \in [Users -> Nat] :
          ref = RefOf(book) /\ val = ValueOf(book) /\ lev = L1ValueOf(book)
    BY <2>1, Columns
  <2>3. ref[u] = s /\ val[u] = book[u].value /\ lev[u] = book[u].l1_value
    BY <1>2, <2>2 DEF RefOf, ValueOf, L1ValueOf
  <2>4. Part(ref, val, s, u) = book[u].value /\ Part(ref, lev, s, u) = book[u].l1_value
    BY <1>2, <2>3 DEF Part
  <2>5. Part(ref, val, s, u) <= Brought(ref, val, s) /\ Brought(ref, val, s) \in Nat
    BY BroughtChange
  <2>6. Part(ref, lev, s, u) <= Brought(ref, lev, s) /\ Brought(ref, lev, s) \in Nat
    BY BroughtChange
  <2>7. book[s].l2_value >= book[u].l1_value
    BY <2>1, <2>2, <2>4, <2>6 DEF Referrer
  <2>8. book[s].l1_value \in Nat /\ book[u].value \in Nat
    BY <2>1 DEF Referrer
  <2>9. ASSUME Shortfall(s) = 0 PROVE book[s].l1_value >= book[u].value
    <3>1. Brought(ref, val, s) - book[s].l1_value = 0
      BY <2>2, <2>9, ShortfallIsGap DEF Gap
    <3> QED BY <2>4, <2>5, <2>8, <3>1
  <2> QED BY <2>7, <2>9
<1>3. ReferralsInv => DebitsCovered
  <2> SUFFICES ASSUME ReferralsInv, NEW u \in Users, book[u].referrer \notin {NoOne, u}
               PROVE  LET seller == book[u].referrer
                          above  == book[seller].referrer
                      IN  /\ book[seller].l2_value >= book[u].l1_value
                          /\ above \notin {NoOne, seller} =>
                               book[above].l2_value >= book[seller].l1_value
                          /\ Shortfall(seller) = 0 => book[seller].l1_value >= book[u].value
    BY DEF DebitsCovered
  <2>1. PICK s \in Users : s = book[u].referrer
    BY DEF ReferralsInv, BooksOK, Referrer
  <2>2. /\ book[s].l2_value >= book[u].l1_value
        /\ Shortfall(s) = 0 => book[s].l1_value >= book[u].value
    BY <1>2, <2>1
  <2>3. ASSUME book[s].referrer \notin {NoOne, s}
        PROVE  book[book[s].referrer].l2_value >= book[s].l1_value
    <3>1. PICK a \in Users : a = book[s].referrer
      BY <2>3 DEF ReferralsInv, BooksOK, Referrer
    <3> QED BY <1>2, <2>3, <3>1
  <2> QED BY <2>1, <2>2, <2>3
<1>4. ReferralsInv => L1NeverAhead
    BY <1>1 DEF L1NeverAhead
<1> QED BY <1>3, <1>4, ReferralsInvHolds, PTL

LateBound(r) == {u \in Users \ {r} : book[u].referrer = NoOne /\ book'[u].referrer = r}

\* What a step may do to the first-level book of r.
DriftStep ==
    \A r \in Users :
      \/ LateBound(r) = {} /\ Shortfall(r)' = Shortfall(r)
      \/ \E u \in Users : LateBound(r) = {u} /\ Shortfall(r)' = Shortfall(r) + book[u].value

LEMMA StepDrifts == ReferralsInv /\ [Next]_vars => DriftStep
<1> SUFFICES ASSUME ReferralsInv, [Next]_vars PROVE DriftStep
    OBVIOUS
<1>0. BooksOK(book) /\ book \in [Users -> Referrer] /\ NoOne \notin Users
    BY Constants DEF ReferralsInv, BooksOK
<1>1. \A v \in Values : v \in Nat
    BY ReferralsAssumption
<1>2. ASSUME \A r \in Users : Gap(book', r) = Gap(book, r),
             \A x \in Users : book[x].referrer = NoOne => book'[x].referrer \in {NoOne, x}
      PROVE  DriftStep
  <2>1. \A r \in Users : LateBound(r) = {}
    BY <1>0, <1>2 DEF LateBound
  <2>2. \A r \in Users : Shortfall(r)' = Shortfall(r)
    BY <1>2, ShortfallIsGap
  <2> QED BY <2>1, <2>2 DEF DriftStep
<1>3. ASSUME NEW u \in Users, NEW to \in Users \cup {NoOne}, NEW v \in Values, Deposit(u, to, v),
             book[u].referrer = NoOne
      PROVE  DriftStep
  <2>1. book' = CreditBooks(Bind(u, to), u, v)
    BY <1>3 DEF Deposit
  <2>2. PICK bound : bound = Bind(u, to)
    OBVIOUS
  <2>3. /\ BooksOK(bound) /\ bound[u].referrer \in Users
        /\ \A x \in Users \ {u} : bound[x].referrer = book[x].referrer
        /\ \A r \in Users : Gap(bound, r) = Gap(book, r)
             + (IF r # u /\ bound[u].referrer = r THEN book[u].value ELSE 0)
    BY <1>0, <1>3, <2>2, BindKeeps
  <2>4. /\ RefOf(book') = RefOf(bound)
        /\ \A r \in Users : Gap(book', r) = Gap(bound, r)
    BY <1>1, <2>1, <2>2, <2>3, CreditKeeps
  <2>5. \A x \in Users : book'[x].referrer = bound[x].referrer
    BY <2>4 DEF RefOf
  <2>6. SUFFICES ASSUME NEW r \in Users
                 PROVE  \/ LateBound(r) = {} /\ Shortfall(r)' = Shortfall(r)
                        \/ \E x \in Users : /\ LateBound(r) = {x}
                                            /\ Shortfall(r)' = Shortfall(r) + book[x].value
    BY DEF DriftStep
  <2>7. \A x \in Users \ {u} : x \notin LateBound(r)
    BY <1>0, <2>3, <2>5 DEF LateBound
  <2>8. u \in LateBound(r) <=> r # u /\ bound[u].referrer = r
    BY <1>3, <2>5 DEF LateBound
  <2>9. LateBound(r) \subseteq Users /\ Gap(book, r) \in Int
    BY <1>0, GapInt DEF LateBound
  <2>10. CASE r # u /\ bound[u].referrer = r
    <3>1. LateBound(r) = {u}
      BY <2>7, <2>8, <2>9, <2>10
    <3>2. Shortfall(r)' = Shortfall(r) + book[u].value
      BY <2>3, <2>4, <2>10, ShortfallIsGap
    <3> QED BY <3>1, <3>2
  <2>11. CASE ~(r # u /\ bound[u].referrer = r)
    <3>1. LateBound(r) = {}
      BY <2>7, <2>8, <2>9, <2>11
    <3>2. Gap(book', r) = Gap(book, r)
      BY <2>3, <2>4, <2>9, <2>11
    <3> QED BY <3>1, <3>2, ShortfallIsGap
  <2> QED BY <2>10, <2>11
<1>4. ASSUME NEW b, NEW u \in Users, NEW v \in Values, BooksOK(b),
             \A r \in Users : Gap(b, r) = Gap(book, r),
             \A x \in Users : b[x].referrer = book[x].referrer,
             book' = CreditBooks(b, u, v)
      PROVE  DriftStep
  <2>1. /\ RefOf(book') = RefOf(b)
        /\ \A r \in Users : Gap(book', r) = Gap(b, r)
    BY <1>1, <1>4, CreditKeeps
  <2>2. \A x \in Users : book'[x].referrer = book[x].referrer
    BY <1>4, <2>1 DEF RefOf
  <2>3. \A r \in Users : Gap(book', r) = Gap(book, r)
    BY <1>4, <2>1
  <2> QED BY <1>2, <2>2, <2>3
<1>5. ASSUME NEW u \in Users, NEW to \in Users \cup {NoOne}, NEW v \in Values, Deposit(u, to, v),
             book[u].referrer # NoOne
      PROVE  DriftStep
  <2>1. book' = CreditBooks(book, u, v)
    BY <1>5 DEF Deposit
  <2> QED BY <1>0, <1>4, <2>1
<1>6. ASSUME NEW u \in Users, NEW v \in Values, Claim(u, v)
      PROVE  DriftStep
  <2>1. book' = CreditBooks(Ensure(book, u), u, v)
    BY <1>6 DEF Claim
  <2>2. PICK b : b = Ensure(book, u)
    OBVIOUS
  <2>3. /\ BooksOK(b) /\ \A r \in Users : Gap(b, r) = Gap(book, r)
        /\ \A x \in Users : b[x].referrer = book[x].referrer
    BY <1>0, <2>2, EnsureKeeps
  <2> QED BY <1>4, <2>1, <2>2, <2>3
<1>7. ASSUME NEW b \in Users, NEW u \in Users, Poach(b, u)
      PROVE  DriftStep
  <2>1. \A r \in Users : Gap(book', r) = Gap(book, r)
    BY <1>0, <1>7, PoachKeeps
  <2>2. book[u].referrer # NoOne
    BY <1>7 DEF Poach
  <2>3. \A x \in Users : book'[x].referrer = IF x = u THEN b ELSE book[x].referrer
    BY <1>0, <1>7, PoachWrites
  <2> QED BY <1>2, <2>1, <2>2, <2>3
<1>8. CASE UNCHANGED vars
    BY <1>2, <1>8 DEF vars
<1> QED BY <1>3, <1>5, <1>6, <1>7, <1>8 DEF Next

\* The first-level books fall behind the lockers' values in one way only: a deposit that binds
\* a locker leaves out what the locker had been credited before (mint_referrer hands its
\* l1_value to the new referrer, not its value).  No credit and no poach widens or narrows the
\* gap of any book, and nothing ever closes it.
THEOREM OnlyLateBindsDrift == Spec => [][DriftStep]_vars
<1>1. ReferralsInv /\ [Next]_vars => [DriftStep]_vars
    BY StepDrifts
<1> QED BY <1>1, ReferralsInvHolds, PTL DEF Spec

\* Claims and deposits never fail for want of an upline's book: whoever is referred to has
\* one, whatever mint_referrer, claims and poachers did (credit_books).
THEOREM CreditsNeverBlocked == Spec => []CreditNeverBlocked
<1>1. ReferralsInv => CreditNeverBlocked
  <2> SUFFICES ASSUME ReferralsInv, NEW u \in Users,
                      NEW k \in {L1Of(book, u), L2Of(book, u)} \ {NoOne}
               PROVE  book[k].exists
    BY DEF CreditNeverBlocked, UplinePresent
  <2>1. \A x \in Users : book[x].referrer # NoOne =>
          book[x].referrer \in Users /\ book[book[x].referrer].exists
    BY DEF ReferralsInv, BooksOK, Present, Referrer
  <2> QED BY <2>1 DEF L1Of, L2Of
<1> QED BY <1>1, ReferralsInvHolds, PTL

===============================================================================
