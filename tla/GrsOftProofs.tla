----------------------------- MODULE GrsOftProofs -----------------------------
(***************************************************************************)
(* GrsOft for any number of spokes and routes, any amounts, fees and       *)
(* limits: what is locked at home backs what the spokes may claim, no      *)
(* delivery is refused by anything but a switch or a bucket, and the       *)
(* limiters, which store the level of an earlier moment, are token buckets *)
(* that let through no more in a period than the limit allows.             *)
(***************************************************************************)
EXTENDS GrsOftWindow, TotalsProofs

Messages == [src : Chains, dst : Chains, sd : Nat, nonce : 0..MaxMessages]
Peers == [wired : BOOLEAN, fee : Nat, outbound : Limiters, inbound : Limiters]

Limits == [on : BOOLEAN, capacity : Nat, rate : Nat]

\* Capacities and rates come from an admin's parameters or were never set.
Capacities == {n \in Nat : n = 0 \/ \E p \in LimitParams : n = p.capacity}
Rates == {n \in Nat : n = 0 \/ \E p \in LimitParams : n = p.rate}

\* A limiter as the program leaves it: never above its capacity, and blank while it is off.
Good(l) ==
    /\ l \in Limiters /\ l.tokens <= l.capacity
    /\ l.capacity \in Capacities /\ l.rate \in Rates
    /\ ~l.on => l = NoLimiter

LEMMA Constants ==
    /\ Home \notin Spokes /\ IsFiniteSet(Spokes) /\ Home \in Chains /\ Spokes \subseteq Chains
    /\ MAX_SUPPLY \in Nat /\ Genesis \in Nat /\ Genesis <= MAX_SUPPLY
    /\ LD2SD_RATE \in Nat \ {0} /\ ONE_IN_BASIS_POINTS \in Nat \ {0}
    /\ MAX_PEERS \in Nat /\ MaxMessages \in Nat /\ MaxIdle \in Nat
    /\ Amounts \in [Chains -> SUBSET Nat] /\ SideAmounts \subseteq Nat
    /\ Fees \subseteq 0..(ONE_IN_BASIS_POINTS - 1)
    /\ \A w \in Routes \cup Wirings : w[1] \in Chains /\ w[2] \in Chains /\ w[1] # w[2]
    /\ Charged \subseteq Routes /\ Administered \subseteq Routes /\ Pausable \subseteq Chains
<1>1. Routes \cup Wirings \subseteq {w \in Chains \X Chains : w[1] # w[2]}
    BY OftAssumption
<1>2. \A w \in Routes \cup Wirings : w[1] \in Chains /\ w[2] \in Chains /\ w[1] # w[2]
    BY <1>1
<1>3. MAX_SUPPLY \in Nat /\ Genesis \in Nat /\ Genesis <= MAX_SUPPLY
    BY OftAssumption
<1> QED BY <1>2, <1>3, OftAssumption DEF Chains

LEMMA LimitConstants ==
    /\ LimitParams \subseteq [capacity : Nat \cup {Keep}, rate : Nat \cup {Keep}]
    /\ Keep \notin Nat
    /\ \A p, q \in LimitParams :
         p.capacity # Keep /\ q.rate \in Nat \ {0} => p.capacity <= MaxIdle * q.rate
BY OftAssumption

\* The transfer fee of the locked mint.
LEMMA FeeConstants ==
    /\ TransferFee.bps \in Nat /\ TransferFee.bps <= ONE_IN_BASIS_POINTS
    /\ TransferFee.maximum \in Nat /\ ONE_IN_BASIS_POINTS \in Nat \ {0}
BY OftAssumption

-------------------------------------------------------------------------------
(* Limiters. *)

\* A bucket that fills at all is full after MaxIdle seconds.
LEMMA IdleFills ==
    ASSUME NEW c \in Capacities, NEW r \in Rates, r # 0
    PROVE  c <= MaxIdle * r
<1>1. c \in Nat /\ r \in Nat /\ MaxIdle \in Nat
    BY Constants DEF Capacities, Rates
<1>2. CASE c = 0
  <2>1. MaxIdle * r \in Nat
      BY <1>1
  <2> QED BY <1>2, <2>1
<1>3. CASE c # 0
  <2>1. PICK p \in LimitParams : c = p.capacity
      BY <1>3 DEF Capacities
  <2>2. PICK q \in LimitParams : r = q.rate
      BY DEF Rates
  <2> QED BY <1>1, <2>1, <2>2, LimitConstants
<1> QED BY <1>2, <1>3

\* The parts of a limiter.
LEMMA LimiterFacts ==
    ASSUME NEW l, Good(l)
    PROVE  /\ l.on \in BOOLEAN /\ l.capacity \in Nat /\ l.tokens \in Nat /\ l.rate \in Nat
           /\ l.idle \in Nat /\ l.idle <= MaxIdle /\ l.idle * l.rate \in Nat
           /\ l.tokens <= l.capacity
<1>1. l \in Limiters /\ l.tokens <= l.capacity /\ MaxIdle \in Nat
    BY Constants DEF Good
<1>2. /\ l.on \in BOOLEAN /\ l.capacity \in Nat /\ l.tokens \in Nat /\ l.rate \in Nat
      /\ l.idle \in Nat /\ l.idle <= MaxIdle
    BY <1>1 DEF Limiters
<1> QED BY <1>1, <1>2

\* A limiter with another stored level and time.
LEMMA Stored ==
    ASSUME NEW l \in Limiters, NEW k \in Nat, NEW j \in 0..MaxIdle,
           NEW r, r = [l EXCEPT !.tokens = k, !.idle = j]
    PROVE  /\ r \in Limiters /\ r.on = l.on /\ r.capacity = l.capacity /\ r.rate = l.rate
           /\ r.tokens = k /\ r.idle = j
BY DEF Limiters

\* Adding extra tokens to what has dripped in is adding them to the level.
LEMMA RefillFacts ==
    ASSUME NEW l, Good(l), NEW e \in Nat
    PROVE  LET r == Refill(l, e) IN
           /\ r \in Limiters /\ r.on = l.on /\ r.capacity = l.capacity /\ r.rate = l.rate
           /\ r.idle = 0
           /\ Level(l) \in Nat /\ Level(l) <= l.capacity
           /\ r.tokens = Smaller(Level(l) + e, l.capacity)
<1>1. /\ l \in Limiters /\ MaxIdle \in Nat
      /\ l.capacity \in Nat /\ l.tokens \in Nat
    BY LimiterFacts, Constants DEF Good
<1>2. PICK x \in Nat : x = l.idle * l.rate
    BY LimiterFacts
<1>3. ASSUME NEW y \in Nat
      PROVE  LET r == Refill(l, y) IN
             /\ r \in Limiters /\ r.on = l.on /\ r.capacity = l.capacity /\ r.rate = l.rate
             /\ r.idle = 0 /\ r.tokens = Smaller(l.tokens + (y + x), l.capacity)
  <2>1. PICK k \in Nat : k = (IF l.tokens + (y + x) < l.capacity THEN l.tokens + (y + x) ELSE l.capacity)
      BY <1>1
  <2>2. PICK j \in 0..MaxIdle : j = 0
      BY <1>1
  <2>3. PICK r : r = Refill(l, y)
      OBVIOUS
  <2>4. r = [l EXCEPT !.tokens = k, !.idle = j]
      BY <1>2, <2>1, <2>2, <2>3 DEF Refill
  <2>5. /\ r \in Limiters /\ r.on = l.on /\ r.capacity = l.capacity /\ r.rate = l.rate
        /\ r.idle = j /\ r.tokens = k
    <3>1. l \in Limiters
        BY <1>1
    <3> QED BY <2>4, <3>1 DEF Limiters
  <2> QED BY <2>1, <2>2, <2>3, <2>5 DEF Smaller
<1>4. PICK z \in Nat : z = 0
    OBVIOUS
<1>5. Level(l) = Smaller(l.tokens + (z + x), l.capacity)
    BY <1>3, <1>4 DEF Level
<1>6. Level(l) = Smaller(l.tokens + x, l.capacity)
    BY <1>1, <1>4, <1>5
<1>7. Smaller(l.tokens + (e + x), l.capacity) = Smaller(Level(l) + e, l.capacity)
      /\ Level(l) \in Nat /\ Level(l) <= l.capacity
    BY <1>1, <1>6 DEF Smaller
<1> QED BY <1>3, <1>7

\* Right after a call the level is what is stored.
LEMMA LevelNow ==
    ASSUME NEW l, Good(l), l.idle = 0
    PROVE  Level(l) = l.tokens
<1>1. l.capacity \in Nat /\ l.tokens \in Nat /\ l.rate \in Nat /\ l.tokens <= l.capacity
    BY LimiterFacts
<1>2. l.idle * l.rate = 0
    BY <1>1
<1>3. l \in Limiters
    BY DEF Good
<1>4. Refill(l, 0).tokens = (IF l.tokens + (0 + l.idle * l.rate) < l.capacity
                             THEN l.tokens + (0 + l.idle * l.rate) ELSE l.capacity)
    BY <1>3 DEF Refill, Limiters
<1> QED BY <1>1, <1>2, <1>4 DEF Level

\* NoLimiter is a bucket without tokens.
LEMMA BlankFacts ==
    Good(NoLimiter) /\ Level(NoLimiter) = 0 /\ NoLimiter.capacity = 0 /\ NoLimiter.rate = 0
    /\ ~NoLimiter.on
<1>1. NoLimiter \in Limiters /\ ~NoLimiter.on
  <2>1. MaxIdle \in Nat
      BY Constants
  <2> QED BY <2>1 DEF NoLimiter, Limiters
<1>2. NoLimiter.capacity = 0 /\ NoLimiter.rate = 0 /\ NoLimiter.tokens = 0 /\ NoLimiter.idle = 0
    BY DEF NoLimiter
<1>3. 0 \in Capacities /\ 0 \in Rates
    BY DEF Capacities, Rates
<1>4. Good(NoLimiter)
    BY <1>1, <1>2, <1>3 DEF Good
<1> QED BY <1>1, <1>2, <1>4, LevelNow

\* try_consume takes what passes from the level.
LEMMA TakenFacts ==
    ASSUME NEW l, Good(l), NEW n \in Nat, CanConsume(l, n)
    PROVE  /\ Good(Taken(l, n)) /\ LimitOf(Taken(l, n)) = LimitOf(l)
           /\ Level(l) \in Nat /\ Level(Taken(l, n)) \in Nat
           /\ l.on => Level(Taken(l, n)) = Level(l) - n
           /\ ~l.on => Level(Taken(l, n)) = Level(l)
<1>1. CASE l.on
  <2>1. PICK z \in Nat : z = 0
      OBVIOUS
  <2>2. PICK r : r = Refill(l, z)
      OBVIOUS
  <2>3. /\ r \in Limiters /\ r.on = l.on /\ r.capacity = l.capacity /\ r.rate = l.rate /\ r.idle = 0
        /\ Level(l) \in Nat /\ Level(l) <= l.capacity
      BY <2>1, <2>2, RefillFacts
  <2>4. r.tokens = Level(l)
      BY <2>1, <2>2 DEF Level
  <2>5. n <= Level(l)
      BY <1>1 DEF CanConsume
  <2>6. PICK k \in Nat : k = Level(l) - n
      BY <2>3, <2>5
  <2>7. Taken(l, n) = [r EXCEPT !.tokens = k]
      BY <1>1, <2>1, <2>2, <2>4, <2>6 DEF Taken, Consume
  <2>8. /\ Taken(l, n) \in Limiters /\ Taken(l, n).on = l.on /\ Taken(l, n).capacity = l.capacity
        /\ Taken(l, n).rate = l.rate /\ Taken(l, n).idle = 0 /\ Taken(l, n).tokens = k
      BY <2>3, <2>7 DEF Limiters
  <2>9. k <= l.capacity
    <3>1. l.capacity \in Nat
        BY LimiterFacts
    <3> QED BY <2>3, <2>6, <3>1
  <2>10. Good(Taken(l, n))
      BY <1>1, <2>8, <2>9 DEF Good
  <2>11. Level(Taken(l, n)) = k
      BY <2>8, <2>10, LevelNow
  <2> QED BY <1>1, <2>3, <2>6, <2>8, <2>10, <2>11 DEF LimitOf
<1>2. CASE ~l.on
  <2>1. Taken(l, n) = l
      BY <1>2 DEF Taken
  <2>2. Level(l) \in Nat
      BY RefillFacts
  <2> QED BY <1>2, <2>1, <2>2
<1> QED BY <1>1, <1>2

\* refill adds what flows the other way, up to the capacity.
LEMMA ReturnedFacts ==
    ASSUME NEW l, Good(l), NEW n \in Nat
    PROVE  /\ Good(Returned(l, n)) /\ LimitOf(Returned(l, n)) = LimitOf(l)
           /\ Level(Returned(l, n)) = Smaller(Level(l) + n, l.capacity)
<1>1. CASE l.on
  <2>1. PICK r : r = Refill(l, n)
      OBVIOUS
  <2>2. /\ r \in Limiters /\ r.on = l.on /\ r.capacity = l.capacity /\ r.rate = l.rate /\ r.idle = 0
        /\ Level(l) \in Nat /\ Level(l) <= l.capacity
        /\ r.tokens = Smaller(Level(l) + n, l.capacity)
      BY <2>1, RefillFacts
  <2>3. l.capacity \in Nat
      BY LimiterFacts
  <2>4. r.tokens <= r.capacity
      BY <2>2, <2>3 DEF Smaller
  <2>5. Good(r)
      BY <1>1, <2>2, <2>4 DEF Good
  <2>6. Level(r) = r.tokens
      BY <2>2, <2>5, LevelNow
  <2>7. Returned(l, n) = r
      BY <1>1, <2>1 DEF Returned
  <2> QED BY <2>2, <2>5, <2>6, <2>7 DEF LimitOf
<1>2. CASE ~l.on
  <2>1. Returned(l, n) = l /\ l = NoLimiter
      BY <1>2 DEF Returned, Good
  <2>2. Level(l) = 0 /\ l.capacity = 0
      BY <2>1, BlankFacts
  <2>3. Smaller(Level(l) + n, l.capacity) = 0
      BY <2>2 DEF Smaller
  <2> QED BY <2>1, <2>2, <2>3
<1> QED BY <1>1, <1>2

\* A second drips rate tokens into the bucket, also when the stored idle time no longer
\* grows: then the bucket is full, or nothing ever fills it.
LEMMA AgedFacts ==
    ASSUME NEW l, Good(l)
    PROVE  /\ Good(Aged(l)) /\ LimitOf(Aged(l)) = LimitOf(l)
           /\ Level(Aged(l)) = Smaller(Level(l) + l.rate, l.capacity)
<1>1. PICK t \in Nat, c \in Nat, r \in Nat, i \in Nat :
        t = l.tokens /\ c = l.capacity /\ r = l.rate /\ i = l.idle /\ i <= MaxIdle /\ t <= c
    BY LimiterFacts
<1>2. ASSUME NEW k, k \in Limiters
      PROVE  Level(k) = Smaller(k.tokens + (0 + k.idle * k.rate), k.capacity)
    BY <1>2 DEF Level, Refill, Limiters, Smaller
<1>3. l \in Limiters /\ MaxIdle \in Nat
    BY Constants DEF Good
<1>4. PICK x \in Nat : x = i * r
    OBVIOUS
<1>5. Level(l) = Smaller(t + x, c)
  <2>1. Level(l) = Smaller(t + (0 + x), c)
      BY <1>1, <1>2, <1>3, <1>4
  <2> QED BY <2>1
<1>6. CASE l.on /\ l.idle < MaxIdle
  <2>1. PICK j \in Nat : j = i + 1 /\ j <= MaxIdle /\ j * r = x + r
      BY <1>1, <1>3, <1>4, <1>6
  <2>2. Aged(l) = [l EXCEPT !.idle = j]
      BY <1>1, <1>6, <2>1 DEF Aged
  <2>3. /\ Aged(l) \in Limiters /\ Aged(l).on = l.on /\ Aged(l).capacity = c /\ Aged(l).rate = r
        /\ Aged(l).idle = j /\ Aged(l).tokens = t
      BY <1>1, <1>3, <2>1, <2>2 DEF Limiters
  <2>4. Good(Aged(l))
      BY <1>1, <1>6, <2>3 DEF Good
  <2>5. Level(Aged(l)) = Smaller(t + (0 + (x + r)), c)
      BY <1>2, <2>1, <2>3
  <2>6. Smaller(t + (0 + (x + r)), c) = Smaller(Smaller(t + x, c) + r, c)
      BY DEF Smaller
  <2> QED BY <1>1, <1>5, <2>3, <2>4, <2>5, <2>6 DEF LimitOf
<1>7. CASE l.on /\ ~(l.idle < MaxIdle)
  <2>1. Aged(l) = l /\ i = MaxIdle
      BY <1>1, <1>3, <1>7 DEF Aged
  <2>2. r = 0 \/ c <= x
    <3>1. c \in Capacities /\ r \in Rates
        BY <1>1 DEF Good
    <3> QED BY <1>4, <2>1, <3>1, IdleFills
  <2>3. Smaller(Smaller(t + x, c) + r, c) = Smaller(t + x, c)
      BY <2>2 DEF Smaller
  <2> QED BY <1>1, <1>5, <2>1, <2>3
<1>8. CASE ~l.on
  <2>1. Aged(l) = l /\ l = NoLimiter
      BY <1>8 DEF Aged, Good
  <2>2. Level(l) = 0 /\ l.capacity = 0 /\ l.rate = 0
      BY <2>1, BlankFacts
  <2>3. Smaller(Level(l) + l.rate, l.capacity) = 0
      BY <2>2 DEF Smaller
  <2> QED BY <2>1, <2>2, <2>3
<1> QED BY <1>6, <1>7, <1>8

\* A limit that is set, with another rate.
LEMMA LimitUpdate ==
    ASSUME NEW w \in Limits, NEW q \in Nat, NEW v \in Limits,
           v.on = TRUE, v.capacity = w.capacity, v.rate = q
    PROVE  v = [w EXCEPT !.on = TRUE, !.rate = q]
<1>1. PICK u : u = [w EXCEPT !.on = TRUE, !.rate = q]
    OBVIOUS
<1>2. u \in Limits /\ u.on = TRUE /\ u.capacity = w.capacity /\ u.rate = q
    BY <1>1 DEF Limits
<1>3. u = v
    BY <1>2 DEF Limits
<1> QED BY <1>1, <1>3

\* update_rate_limiter leaves a bucket that is full, or keeps its level and its capacity.
LEMMA UpdatedFacts ==
    ASSUME NEW l, Good(l), NEW k \in NextLimiters(l)
    PROVE  /\ Good(k)
           /\ \/ Level(k) = k.capacity
              \/ Level(k) = Level(l) /\ LimitOf(k) = [LimitOf(l) EXCEPT !.on = TRUE, !.rate = k.rate]
<1>1. CASE k = NoLimiter
    BY <1>1, BlankFacts
<1>2. ASSUME NEW p \in LimitParams, k = UpdatedLimiter(l, p)
      PROVE  /\ Good(k)
             /\ \/ Level(k) = k.capacity
                \/ Level(k) = Level(l) /\ LimitOf(k) = [LimitOf(l) EXCEPT !.on = TRUE, !.rate = k.rate]
  <2>1. /\ p.capacity = Keep \/ p.capacity \in Capacities
        /\ p.rate = Keep \/ p.rate \in Rates
      BY LimitConstants DEF Capacities, Rates
  <2>2. l \in Limiters /\ l.capacity \in Capacities /\ l.rate \in Rates /\ MaxIdle \in Nat
      BY Constants DEF Good
  <2>3. Capacities \subseteq Nat /\ Rates \subseteq Nat
      BY DEF Capacities, Rates
  <2> PICK zero \in 0..MaxIdle : zero = 0
      BY <2>2
  <2>4. PICK s : s = IF p.capacity = Keep THEN l ELSE SetCapacity(l, p.capacity)
      OBVIOUS
  <2>5. PICK u : u = IF p.rate = Keep THEN s ELSE SetRate(s, p.rate)
      OBVIOUS
  <2>6. k = [u EXCEPT !.on = TRUE]
      BY <1>2, <2>4, <2>5 DEF UpdatedLimiter
  <2>7. /\ s \in Limiters /\ s.tokens <= s.capacity /\ s.capacity \in Capacities
        /\ s.rate \in Rates /\ s.rate = l.rate
    <3>1. CASE p.capacity = Keep
        BY <2>2, <2>4, <3>1 DEF Good
    <3>2. CASE p.capacity # Keep
      <4>1. PICK c \in Nat : c = p.capacity /\ c \in Capacities
          BY <2>1, <2>3, <3>2
      <4>2. s = [l EXCEPT !.capacity = c, !.tokens = c, !.idle = zero]
          BY <2>4, <3>2, <4>1 DEF SetCapacity
      <4>3. s \in Limiters /\ s.tokens = c /\ s.capacity = c /\ s.rate = l.rate
          BY <2>2, <4>1, <4>2 DEF Limiters
      <4> QED BY <2>2, <4>1, <4>3
    <3> QED BY <3>1, <3>2
  <2>8. ASSUME NEW w, w \in Limiters
        PROVE  Level(w) = Smaller(w.tokens + (0 + w.idle * w.rate), w.capacity)
      BY <2>8 DEF Level, Refill, Limiters, Smaller
  <2>9. ASSUME NEW w, w \in Limiters, w.tokens <= w.capacity
        PROVE  Level(w) \in Nat /\ Level(w) <= w.capacity /\ (w.tokens = w.capacity => Level(w) = w.capacity)
    <3>1. PICK t \in Nat, c \in Nat, x \in Nat : t = w.tokens /\ c = w.capacity /\ x = w.idle * w.rate
        BY <2>2, <2>9 DEF Limiters
    <3> QED BY <2>8, <2>9, <3>1 DEF Smaller
  <2>10. /\ u \in Limiters /\ u.tokens <= u.capacity /\ u.capacity = s.capacity /\ u.rate \in Rates
         /\ Level(u) = Level(s)
    <3>1. CASE p.rate = Keep
        BY <2>5, <2>7, <3>1
    <3>2. CASE p.rate # Keep
      <4>1. PICK r \in Nat : r = p.rate /\ r \in Rates
          BY <2>1, <2>3, <3>2
      <4>2. PICK t \in Nat : t = Level(s) /\ t <= s.capacity
          BY <2>7, <2>9
      <4>3. Refill(s, 0) = [s EXCEPT !.tokens = t, !.idle = zero]
          BY <2>7, <4>2 DEF Level, Refill, Limiters
      <4>4. u = [[s EXCEPT !.tokens = t, !.idle = zero] EXCEPT !.rate = r]
          BY <2>5, <3>2, <4>1, <4>3 DEF SetRate
      <4>5. /\ u \in Limiters /\ u.tokens = t /\ u.capacity = s.capacity /\ u.rate = r /\ u.idle = 0
          BY <2>2, <2>7, <4>1, <4>2, <4>4 DEF Limiters
      <4>6. s.capacity \in Nat
          BY <2>3, <2>7
      <4>7. Level(u) = t
        <5>1. u.idle * u.rate = 0
            BY <4>1, <4>5
        <5>2. Level(u) = Smaller(t + (0 + 0), s.capacity)
            BY <2>8, <4>5, <5>1
        <5> QED BY <4>2, <4>6, <5>2 DEF Smaller
      <4> QED BY <4>1, <4>2, <4>5, <4>7
    <3> QED BY <3>1, <3>2
  <2>11. /\ k \in Limiters /\ k.on /\ k.tokens = u.tokens /\ k.capacity = u.capacity
         /\ k.rate = u.rate /\ k.idle = u.idle
      BY <2>6, <2>10 DEF Limiters
  <2>12. Good(k)
      BY <2>7, <2>10, <2>11 DEF Good
  <2>13. Level(k) = Level(u)
      BY <2>8, <2>10, <2>11
  <2>14. CASE p.capacity = Keep
    <3>1. s = l
        BY <2>4, <2>14
    <3>2. k.capacity = l.capacity /\ k.on = TRUE
      <4>1. k.on = TRUE
          BY <2>6, <2>10 DEF Limiters
      <4> QED BY <2>10, <2>11, <3>1, <4>1
    <3>3. LimitOf(k) = [LimitOf(l) EXCEPT !.on = TRUE, !.rate = k.rate]
      <4>1. PICK w : w = LimitOf(l)
          OBVIOUS
      <4>2. PICK q \in Nat : q = k.rate
          BY <2>3, <2>10, <2>11
      <4>3. w \in Limits /\ w.capacity = l.capacity
          BY <2>2, <4>1 DEF LimitOf, Limits, Limiters
      <4>4. LimitOf(k) \in Limits /\ LimitOf(k).on = TRUE /\ LimitOf(k).capacity = l.capacity
            /\ LimitOf(k).rate = q
          BY <2>11, <3>2, <4>2 DEF LimitOf, Limits, Limiters
      <4>5. LimitOf(k) = [w EXCEPT !.on = TRUE, !.rate = q]
          BY <4>3, <4>4, LimitUpdate
      <4> QED BY <4>1, <4>2, <4>5
    <3> QED BY <2>10, <2>12, <2>13, <3>1, <3>3
  <2>15. CASE p.capacity # Keep
    <3>1. s.tokens = s.capacity
        BY <2>2, <2>4, <2>15 DEF SetCapacity, Limiters
    <3>2. Level(k) = k.capacity
        BY <2>7, <2>9, <2>10, <2>11, <2>13, <3>1
    <3> QED BY <2>12, <3>2
  <2> QED BY <2>14, <2>15
<1> QED BY <1>1, <1>2 DEF NextLimiters

-------------------------------------------------------------------------------
(* Amounts. *)

\* Removing dust leaves the whole shared units.
LEMMA DustFacts ==
    ASSUME NEW n \in Nat
    PROVE  RemoveDust(n) \in 0..n /\ \E k \in Nat : RemoveDust(n) = Sd2Ld(k)
<1>1. PICK r \in Nat \ {0} : r = LD2SD_RATE
    BY Constants
<1>2. PICK q \in Nat : q = n \div r
    BY DivFacts
<1>3. n % r \in 0..n /\ n - (n % r) = q * r
    BY <1>2
<1>4. RemoveDust(n) = q * r /\ RemoveDust(n) \in 0..n
    BY <1>1, <1>3 DEF RemoveDust
<1> QED BY <1>1, <1>4 DEF Sd2Ld

\* Whole shared units survive the way over the wire.
LEMMA SharedExact ==
    ASSUME NEW k \in Nat
    PROVE  Sd2Ld(k) \in Nat /\ Ld2Sd(Sd2Ld(k)) = k
<1>1. PICK r \in Nat \ {0} : r = LD2SD_RATE
    BY Constants
<1>2. k * r \in Nat /\ k * r = r * k
    OBVIOUS
<1>3. (k * r) \div r <= k /\ k <= (k * r) \div r /\ (k * r) \div r \in Nat
    BY <1>2, DivUpper, DivLower, DivFacts
<1> QED BY <1>1, <1>2, <1>3 DEF Sd2Ld, Ld2Sd

\* Division that rounds up.
LEMMA CeilFacts ==
    ASSUME NEW a \in Nat, NEW o \in Nat \ {0}
    PROVE  /\ CeilDiv(a, o) \in Nat /\ a <= o * CeilDiv(a, o)
           /\ \A m \in Nat : a <= o * m => CeilDiv(a, o) <= m
<1>1. PICK q \in Nat : q = (a + o - 1) \div o
    BY DivFacts
<1>2. o * q <= a + o - 1 /\ a + o - 1 < o * q + o
  <2>1. a + o - 1 \in Nat
      OBVIOUS
  <2> QED BY <1>1, <2>1, DivFacts
<1>3. o * q \in Nat
    OBVIOUS
<1>4. a <= o * q
    BY <1>2, <1>3
<1>5. ASSUME NEW m \in Nat, a <= o * m
      PROVE  q <= m
  <2>1. SUFFICES ASSUME m + 1 <= q
                 PROVE  FALSE
      OBVIOUS
  <2>2. (m + 1) * o <= q * o
      BY <2>1, MulMono
  <2>3. PICK x \in Nat, y \in Nat : x = o * m /\ y = o * q
      OBVIOUS
  <2>4. (m + 1) * o = x + o /\ q * o = y
      BY <2>3
  <2> QED BY <1>2, <1>5, <2>2, <2>3, <2>4
<1> QED BY <1>1, <1>4, <1>5 DEF CeilDiv

\* A transfer fee is part of the transfer.
LEMMA WithheldFacts ==
    ASSUME NEW c, NEW n \in Nat
    PROVE  Withheld(c, n) \in Nat /\ Withheld(c, n) <= n /\ PostFee(c, n) \in Nat
<1>1. CASE c # Home
    BY <1>1 DEF Withheld, PostFee
<1>2. CASE c = Home
  <2>1. PICK b \in Nat, o \in Nat \ {0}, m \in Nat :
          b = TransferFee.bps /\ o = ONE_IN_BASIS_POINTS /\ m = TransferFee.maximum /\ b <= o
      BY FeeConstants
  <2>2. n * b \in Nat /\ n * b <= o * n
    <3>1. b * n <= o * n /\ b * n \in Nat
        BY <2>1, MulMono
    <3> QED BY <3>1
  <2>3. PICK f \in Nat : f = CeilDiv(n * b, o) /\ f <= n
      BY <2>2, CeilFacts
  <2>4. Withheld(c, n) = Smaller(f, m)
      BY <1>2, <2>1, <2>3 DEF Withheld
  <2> QED BY <2>3, <2>4 DEF Smaller, PostFee
<1> QED BY <1>1, <1>2

\* What PreFee says has to be sent for x to arrive is enough.
LEMMA PreFeeEnough ==
    ASSUME NEW x \in Nat
    PROVE  PreFee(x) \in Nat /\ x <= PostFee(Home, PreFee(x))
<1>1. PICK b \in Nat, o \in Nat \ {0}, m \in Nat :
        b = TransferFee.bps /\ o = ONE_IN_BASIS_POINTS /\ m = TransferFee.maximum /\ b <= o
    BY FeeConstants
<1>2. ASSUME NEW n \in Nat
      PROVE  /\ Withheld(Home, n) = Smaller(CeilDiv(n * b, o), m)
             /\ n * b \in Nat /\ CeilDiv(n * b, o) \in Nat
  <2>1. n * b \in Nat
      OBVIOUS
  <2> QED BY <1>1, <2>1, CeilFacts DEF Withheld
<1>3. CASE b = 0 \/ x = 0
  <2>1. PreFee(x) = x
      BY <1>1, <1>3 DEF PreFee
  <2>2. PICK z \in Nat : z = 0
      OBVIOUS
  <2>3. x * b <= o * z
    <3>1. x * b = 0 /\ o * z = 0
        BY <1>3, <2>2
    <3> QED BY <3>1
  <2>4. CeilDiv(x * b, o) <= z
      BY <1>2, <2>3, CeilFacts
  <2>5. Withheld(Home, x) <= 0
      BY <1>2, <2>2, <2>4 DEF Smaller
  <2>6. Withheld(Home, x) \in Nat
      BY WithheldFacts
  <2> QED BY <2>1, <2>5, <2>6 DEF PostFee
<1>4. ASSUME PreFee(x) = x + m
      PROVE  PreFee(x) \in Nat /\ x <= PostFee(Home, PreFee(x))
  <2>1. PICK p \in Nat : p = x + m /\ p = PreFee(x)
      BY <1>4
  <2>2. Withheld(Home, p) <= m /\ Withheld(Home, p) \in Nat
      BY <1>2, WithheldFacts DEF Smaller
  <2> QED BY <2>1, <2>2 DEF PostFee
<1>5. CASE ~(b = 0 \/ x = 0) /\ b = o
  <2>1. PreFee(x) = x + m
      BY <1>1, <1>5 DEF PreFee
  <2> QED BY <1>4, <2>1
<1>6. CASE ~(b = 0 \/ x = 0) /\ b # o
  <2>1. PICK e \in Nat \ {0} : e = o - b
      BY <1>1, <1>6
  <2>2. x * o \in Nat
      OBVIOUS
  <2>3. PICK raw \in Nat : raw = CeilDiv(x * o, e) /\ x * o <= e * raw
      BY <2>2, CeilFacts
  <2>4. PreFee(x) = IF raw - x >= m THEN x + m ELSE raw
      BY <1>1, <1>6, <2>1, <2>3 DEF PreFee
  <2>5. CASE raw - x >= m
    <3>1. PreFee(x) = x + m
        BY <2>4, <2>5
    <3> QED BY <1>4, <3>1
  <2>6. CASE ~(raw - x >= m)
    <3>1. PreFee(x) = raw
        BY <2>4, <2>6
    <3>2. PICK s \in Nat, t \in Nat, u \in Nat :
            s = x * o /\ t = raw * o /\ u = raw * b /\ e * raw = t - u
        BY <2>1
    <3>3. s + u <= t
        BY <2>3, <3>2
    <3>4. x <= raw
      <4>1. SUFFICES ASSUME raw + 1 <= x
                     PROVE  FALSE
          OBVIOUS
      <4>2. (raw + 1) * o <= x * o
          BY <4>1, MulMono
      <4>3. (raw + 1) * o = t + o
          BY <3>2
      <4> QED BY <3>2, <3>3, <4>2, <4>3
    <3>5. PICK d \in Nat : d = raw - x
        BY <3>4
    <3>6. raw * b <= o * d
      <4>1. o * d = t - s
          BY <3>2, <3>5
      <4> QED BY <3>2, <3>3, <4>1
    <3>7. CeilDiv(raw * b, o) <= d
        BY <1>2, <3>6, CeilFacts
    <3>8. Withheld(Home, raw) <= d /\ Withheld(Home, raw) \in Nat
      <4>1. Withheld(Home, raw) = Smaller(CeilDiv(raw * b, o), m) /\ CeilDiv(raw * b, o) \in Nat
          BY <1>2
      <4>2. PICK f \in Nat : f = CeilDiv(raw * b, o)
          BY <4>1
      <4> QED BY <3>7, <4>1, <4>2 DEF Smaller
    <3> QED BY <3>1, <3>5, <3>8 DEF PostFee
  <2> QED BY <2>5, <2>6
<1> QED BY <1>3, <1>5, <1>6

\* What compute_fee_and_adjust_amount announces is a whole number of shared units; what it
\* takes from the sender covers that and the fee, after the mint has withheld its own.
LEMMA AdjustedFacts ==
    ASSUME NEW c \in Chains, NEW n \in Nat, NEW bps \in Nat, bps < ONE_IN_BASIS_POINTS
    PROVE  LET a == Adjusted(c, n, bps) IN
           /\ a.sent \in Nat /\ a.received \in Nat /\ a.fee \in Nat
           /\ Ld2Sd(a.received) \in Nat /\ Sd2Ld(Ld2Sd(a.received)) = a.received
           /\ c = Home => a.received + a.fee <= PostFee(Home, a.sent)
           /\ c # Home => a.received + a.fee = a.sent
<1>1. PICK m \in Nat : m = IF c = Home THEN PostFee(c, n) ELSE n
    BY WithheldFacts
<1>2. PICK j \in Nat : RemoveDust(m) = Sd2Ld(j)
    BY DustFacts
<1>3. PICK v \in Nat : v = RemoveDust(m)
    BY DustFacts
<1>4. PICK o \in Nat \ {0} : o = ONE_IN_BASIS_POINTS /\ bps <= o
    BY Constants
<1>5. v * bps \in Nat /\ v * bps <= o * v
  <2>1. bps * v \in Nat /\ bps * v <= o * v
      BY <1>4, MulMono
  <2> QED BY <2>1
<1>6. PICK q \in Nat : q = (v * bps) \div o /\ q <= v
    BY <1>5, DivFacts, DivUpper
<1>7. PICK k \in Nat : RemoveDust(q) = Sd2Ld(k) /\ Sd2Ld(k) \in 0..q
    BY DustFacts
<1>8. PICK f \in Nat : f = RemoveDust(q) /\ f <= v
    BY <1>6, <1>7
<1>9. PICK r \in Nat \ {0} : r = LD2SD_RATE
    BY Constants
<1>10. v = j * r /\ f = k * r /\ k * r <= j * r
    BY <1>2, <1>3, <1>7, <1>8, <1>9 DEF Sd2Ld
<1>11. PICK d \in Nat : d = j - k
    BY <1>10
<1>12. v - f = Sd2Ld(d)
    BY <1>9, <1>10, <1>11 DEF Sd2Ld
<1>13. v - f \in Nat /\ Ld2Sd(v - f) \in Nat /\ Sd2Ld(Ld2Sd(v - f)) = v - f
    BY <1>12, SharedExact
<1>14. Adjusted(c, n, bps) = [sent |-> IF c = Home THEN PreFee(v) ELSE v,
                              received |-> v - f, fee |-> f]
    BY <1>1, <1>3, <1>4, <1>6, <1>8 DEF Adjusted, CalculateFee
<1>15. PICK s \in Nat : s = (IF c = Home THEN PreFee(v) ELSE v)
    BY PreFeeEnough
<1>16. PICK a : a = Adjusted(c, n, bps)
    OBVIOUS
<1>17. a.sent = s /\ a.received = v - f /\ a.fee = f
    BY <1>14, <1>15, <1>16
<1>18. c = Home => v <= PostFee(Home, s)
    BY <1>15, PreFeeEnough
<1>19. (v - f) + f = v /\ (c # Home => v = s)
    BY <1>15
<1> QED BY <1>13, <1>16, <1>17, <1>18, <1>19

-------------------------------------------------------------------------------
(* The invariant. *)

SwitchesOK == clock \in {0, 1} /\ paused \in [Chains -> BOOLEAN] /\ registry \in [Chains -> SUBSET Chains]

PeersOK ==
    /\ peer \in [Chains -> [Chains -> Peers]]
    /\ \A c, d \in Chains : /\ peer[c][d].fee < ONE_IN_BASIS_POINTS
                            /\ Good(peer[c][d].outbound) /\ Good(peer[c][d].inbound)

\* A message is numbered by the messages before it, so no two are alike.
WireOK ==
    /\ IsFiniteSet(posted) /\ posted \subseteq Messages /\ cleared \subseteq posted
    /\ Cardinality(posted) <= MaxMessages
    /\ \A m \in posted : m.nonce < Cardinality(posted)

\* The adapted mint issues nothing, so what is at home is never more than there was.
TokensOK ==
    /\ wallet \in [Chains -> Nat] /\ vault \in [Chains -> Nat] /\ tvl \in [Chains -> Nat]
    /\ \A c \in Chains : tvl[c] <= vault[c]
    /\ Supply(Home) <= Genesis

Spread == Total([c \in Spokes |-> Supply(c)])

Backed == Spread + Carried(Inflight) <= tvl[Home]

OftInv == SwitchesOK /\ PeersOK /\ WireOK /\ TokensOK /\ Backed

\* The limiters of one peer are written.
Limited(c, d, o, i) ==
    /\ peer'[c][d].outbound = o /\ peer'[c][d].inbound = i
    /\ \A e, f \in Chains : e # c \/ f # d => peer'[e][f] = peer[e][f]

LEMMA LimitedStep ==
    ASSUME PeersOK, NEW c \in Chains, NEW d \in Chains, NEW o, NEW i, Good(o), Good(i),
           peer' = [peer EXCEPT ![c][d].outbound = o, ![c][d].inbound = i]
    PROVE  PeersOK' /\ Limited(c, d, o, i)
<1>1. peer \in [Chains -> [Chains -> Peers]] /\ o \in Limiters /\ i \in Limiters
    BY DEF PeersOK, Good
<1>2. peer' \in [Chains -> [Chains -> Peers]]
  <2>1. PICK q \in Peers : q = [peer[c][d] EXCEPT !.outbound = o]
    <3>1. PICK w \in Peers : w = peer[c][d]
        BY <1>1
    <3>2. [w EXCEPT !.outbound = o] \in Peers
        BY <1>1 DEF Peers
    <3> QED BY <3>1, <3>2
  <2>2. PICK p \in Peers : p = [q EXCEPT !.inbound = i]
      BY <1>1 DEF Peers
  <2>3. PICK r \in [Chains -> Peers] : r = [peer[c] EXCEPT ![d] = q]
      BY <1>1
  <2>4. PICK s \in [Chains -> Peers] : s = [r EXCEPT ![d] = p]
      BY <1>1
  <2>5. PICK t \in [Chains -> [Chains -> Peers]] : t = [peer EXCEPT ![c] = r]
      BY <1>1
  <2>6. peer' = [t EXCEPT ![c] = s]
      BY <1>1, <2>1, <2>2, <2>3, <2>4, <2>5
  <2> QED BY <2>6
<1>3. peer'[c][d].outbound = o /\ peer'[c][d].inbound = i /\ peer'[c][d].fee = peer[c][d].fee
    BY <1>1 DEF Peers
<1>4. \A e, f \in Chains : e # c \/ f # d => peer'[e][f] = peer[e][f]
    BY <1>1
<1>5. ASSUME NEW e \in Chains, NEW f \in Chains
      PROVE  /\ peer'[e][f].fee < ONE_IN_BASIS_POINTS
             /\ Good(peer'[e][f].outbound) /\ Good(peer'[e][f].inbound)
  <2>1. CASE e = c /\ f = d
      BY <1>3, <2>1 DEF PeersOK
  <2>2. CASE e # c \/ f # d
      BY <1>4, <2>2 DEF PeersOK
  <2> QED BY <2>1, <2>2
<1> QED BY <1>2, <1>3, <1>4, <1>5 DEF PeersOK, Limited, Good

\* The same, written with one of the two.
LEMMA LimitedOne ==
    ASSUME PeersOK, NEW c \in Chains, NEW d \in Chains, NEW o, Good(o)
    PROVE  /\ peer' = [peer EXCEPT ![c][d].outbound = o]
              => PeersOK' /\ Limited(c, d, o, peer[c][d].inbound)
           /\ peer' = [peer EXCEPT ![c][d].inbound = o]
              => PeersOK' /\ Limited(c, d, peer[c][d].outbound, o)
<1>1. peer \in [Chains -> [Chains -> Peers]]
    BY DEF PeersOK
<1>2. PICK x, y : x = peer[c][d].outbound /\ y = peer[c][d].inbound /\ Good(x) /\ Good(y)
    BY DEF PeersOK
<1>3. ASSUME peer' = [peer EXCEPT ![c][d].outbound = o]
      PROVE  peer' = [peer EXCEPT ![c][d].outbound = o, ![c][d].inbound = y]
    BY <1>1, <1>2, <1>3 DEF Peers
<1>4. ASSUME peer' = [peer EXCEPT ![c][d].inbound = o]
      PROVE  peer' = [peer EXCEPT ![c][d].outbound = x, ![c][d].inbound = o]
    BY <1>1, <1>2, <1>4 DEF Peers
<1> QED BY <1>2, <1>3, <1>4, LimitedStep

-------------------------------------------------------------------------------
(* What messages carry, and what the spokes hold. *)

LEMMA CarriedFacts ==
    ASSUME NEW ms, ms \subseteq Messages, IsFiniteSet(ms)
    PROVE  /\ [m \in ms |-> Sd2Ld(m.sd)] \in [ms -> Nat] /\ Carried(ms) \in Nat
           /\ \A m \in ms : Sd2Ld(m.sd) \in Nat /\ Sd2Ld(m.sd) <= Carried(ms)
<1> DEFINE f == [m \in ms |-> Sd2Ld(m.sd)]
<1>1. \A m \in ms : m.sd \in Nat
    BY DEF Messages
<1>2. f \in [ms -> Nat]
    BY <1>1, SharedExact
<1>3. Carried(ms) = Total(f)
    BY DEF Carried
<1>4. \A m \in ms : f[m] = Sd2Ld(m.sd) /\ Sd2Ld(m.sd) \in Nat
    BY <1>1, SharedExact
<1> HIDE DEF f
<1>5. Total(f) \in Nat
    BY <1>2, TotalFinite
<1>6. ASSUME NEW m \in ms PROVE f[m] <= Total(f)
    BY <1>2, TotalUpdate
<1> QED BY <1>2, <1>3, <1>4, <1>5, <1>6 DEF f

LEMMA CarriedJoin ==
    ASSUME NEW ms, ms \subseteq Messages, IsFiniteSet(ms), NEW m \in Messages, m \notin ms
    PROVE  Carried(ms \cup {m}) = Carried(ms) + Sd2Ld(m.sd)
<1> DEFINE f == [x \in ms |-> Sd2Ld(x.sd)]
           g == [x \in ms \cup {m} |-> Sd2Ld(x.sd)]
<1>1. f \in [ms -> Nat]
    BY CarriedFacts
<1>2. g \in [ms \cup {m} -> Nat]
  <2>1. \A x \in ms : Sd2Ld(x.sd) \in Nat
      BY CarriedFacts
  <2>2. Sd2Ld(m.sd) \in Nat
      BY SharedExact DEF Messages
  <2> QED BY <2>1, <2>2
<1>3. (\A x \in ms : g[x] = f[x]) /\ g[m] = Sd2Ld(m.sd)
    OBVIOUS
<1>4. Carried(ms) = Total(f) /\ Carried(ms \cup {m}) = Total(g)
    BY DEF Carried
<1> HIDE DEF f, g
<1>5. Total(g) = Total(f) + g[m]
    BY <1>1, <1>2, <1>3, TotalJoin
<1> QED BY <1>3, <1>4, <1>5

LEMMA CarriedLeave ==
    ASSUME NEW ms, ms \subseteq Messages, IsFiniteSet(ms), NEW m \in ms
    PROVE  Carried(ms \ {m}) = Carried(ms) - Sd2Ld(m.sd)
<1>1. PICK r : r = ms \ {m}
    OBVIOUS
<1>2. r \subseteq Messages /\ IsFiniteSet(r) /\ m \in Messages /\ m \notin r /\ ms = r \cup {m}
    BY <1>1, FS_RemoveElement
<1>3. Carried(ms) = Carried(r) + Sd2Ld(m.sd)
    BY <1>2, CarriedJoin
<1>4. Carried(r) \in Nat /\ Sd2Ld(m.sd) \in Nat
    BY <1>2, CarriedFacts
<1> QED BY <1>1, <1>3, <1>4

LEMMA WireFacts ==
    ASSUME WireOK
    PROVE  /\ IsFiniteSet(Inflight) /\ Inflight \subseteq Messages /\ Carried(Inflight) \in Nat
           /\ IsFiniteSet(cleared) /\ cleared \subseteq Messages
           /\ Cardinality(posted) \in Nat
           /\ \A m \in Inflight : /\ m.src \in Chains /\ m.dst \in Chains /\ Sd2Ld(m.sd) \in Nat
                                  /\ Sd2Ld(m.sd) <= Carried(Inflight)
<1>1. IsFiniteSet(posted) /\ posted \subseteq Messages /\ cleared \subseteq posted
    BY DEF WireOK
<1>2. Inflight \subseteq posted
    BY DEF Inflight
<1>3. IsFiniteSet(Inflight) /\ IsFiniteSet(cleared)
    BY <1>1, <1>2, FS_Subset
<1>4. \A m \in Inflight : m.src \in Chains /\ m.dst \in Chains
    BY <1>1, <1>2 DEF Messages
<1> QED BY <1>1, <1>2, <1>3, <1>4, CarriedFacts, FS_CardinalityType

\* A posted message is new, and nothing else on the wire changes.
LEMMA PostFacts ==
    ASSUME WireOK, NEW m \in Messages, m.nonce = Cardinality(posted), Post(m)
    PROVE  /\ WireOK' /\ m \notin posted /\ posted' = posted \cup {m} /\ cleared' = cleared
           /\ Carried(Inflight)' = Carried(Inflight) + Sd2Ld(m.sd)
<1>1. /\ IsFiniteSet(posted) /\ posted \subseteq Messages /\ cleared \subseteq posted
      /\ \A x \in posted : x.nonce < Cardinality(posted)
    BY DEF WireOK
<1>2. PICK n \in Nat : n = Cardinality(posted) /\ n < MaxMessages
    BY WireFacts DEF Post
<1>3. posted' = posted \cup {m} /\ cleared' = cleared
    BY DEF Post
<1>4. m \notin posted
    BY <1>1, <1>2
<1>5. IsFiniteSet(posted') /\ Cardinality(posted') = n + 1
    BY <1>1, <1>2, <1>3, <1>4, FS_AddElement
<1>6. ASSUME NEW x \in posted' PROVE x.nonce < Cardinality(posted')
  <2>1. x.nonce \in Nat
      BY <1>1, <1>3, Constants DEF Messages
  <2>2. x.nonce <= n
      BY <1>1, <1>2, <1>3, <2>1
  <2> QED BY <1>5, <2>1, <2>2
<1>7. WireOK'
  <2>1. posted' \subseteq Messages /\ cleared' \subseteq posted'
      BY <1>1, <1>3
  <2>2. Cardinality(posted') <= MaxMessages
    <3>1. MaxMessages \in Nat
        BY Constants
    <3> QED BY <1>2, <1>5, <3>1
  <2> QED BY <1>5, <1>6, <2>1, <2>2 DEF WireOK, Messages, Chains
<1>8. Inflight' = Inflight \cup {m} /\ m \notin Inflight
    BY <1>1, <1>3, <1>4 DEF Inflight
<1>9. Carried(Inflight \cup {m}) = Carried(Inflight) + Sd2Ld(m.sd)
    BY <1>8, WireFacts, CarriedJoin
<1>10. Carried(Inflight)' = Carried(Inflight \cup {m})
    BY <1>8 DEF Carried, Sd2Ld
<1> QED BY <1>3, <1>4, <1>7, <1>9, <1>10

\* A message that is executed is executed once.
LEMMA ClearFacts ==
    ASSUME WireOK, NEW m \in Inflight, posted' = posted, cleared' = cleared \cup {m}
    PROVE  /\ WireOK' /\ m \notin cleared
           /\ Carried(Inflight)' = Carried(Inflight) - Sd2Ld(m.sd)
<1>1. WireOK' /\ m \notin cleared /\ Inflight' = Inflight \ {m}
    BY DEF WireOK, Inflight
<1>2. Carried(Inflight \ {m}) = Carried(Inflight) - Sd2Ld(m.sd)
    BY WireFacts, CarriedLeave
<1>3. Carried(Inflight)' = Carried(Inflight \ {m})
    BY <1>1 DEF Carried, Sd2Ld
<1> QED BY <1>1, <1>2, <1>3

\* Tokens that move on one chain change what the spokes hold when it is a spoke.
LEMMA SpreadChange ==
    ASSUME wallet \in [Chains -> Nat], vault \in [Chains -> Nat],
           wallet' \in [Chains -> Nat], vault' \in [Chains -> Nat], NEW c \in Chains,
           \A d \in Chains : d # c => wallet'[d] = wallet[d] /\ vault'[d] = vault[d]
    PROVE  /\ Spread \in Nat /\ Spread' \in Nat
           /\ c = Home => Spread' = Spread
           /\ c # Home => Spread' = Spread - Supply(c) + Supply(c)'
<1> DEFINE s == [d \in Spokes |-> Supply(d)]
           t == [d \in Spokes |-> Supply(d)']
           n == Supply(c)'
<1>1. Home \notin Spokes /\ Spokes \subseteq Chains /\ IsFiniteSet(Spokes)
      /\ (c # Home => c \in Spokes)
    BY Constants DEF Chains
<1>2. s \in [Spokes -> Nat] /\ t \in [Spokes -> Nat] /\ n \in Nat
    BY <1>1 DEF Supply
<1>3. \A d \in Spokes : d # c => Supply(d)' = Supply(d)
    BY <1>1 DEF Supply
<1>4. Total(s) = Spread /\ Total(t) = Spread'
    BY DEF Spread
<1>5. CASE c = Home
  <2>1. t = s
      BY <1>1, <1>3, <1>5
  <2>2. Spread \in Nat
    <3> HIDE DEF s
    <3> QED BY <1>1, <1>2, <1>4, TotalFinite
  <2> QED BY <1>4, <1>5, <2>1, <2>2
<1>6. CASE c # Home
  <2>1. t = [s EXCEPT ![c] = n] /\ s[c] = Supply(c) /\ c \in Spokes
      BY <1>1, <1>3, <1>6
  <2> HIDE DEF s, t, n
  <2>2. Total([s EXCEPT ![c] = n]) = Total(s) - s[c] + n
    <3>1. IsFiniteSet(Spokes) /\ s \in [Spokes -> Nat] /\ c \in Spokes
        BY <1>1, <1>2, <2>1
    <3>2. PICK k \in Nat : k = n
        BY <1>2
    <3> QED BY <3>1, <3>2, TotalUpdate
  <2>3. Total(s) \in Nat /\ Total(t) \in Nat
      BY <1>1, <1>2, TotalFinite
  <2> QED BY <1>4, <1>6, <2>1, <2>2, <2>3 DEF n
<1> QED BY <1>5, <1>6

-------------------------------------------------------------------------------
(* Every step keeps the invariant. *)

LEMMA OftInvInit == Init => OftInv
<1> SUFFICES ASSUME Init PROVE OftInv
    OBVIOUS
<1>1. SwitchesOK
  <2>1. paused \in [Chains -> BOOLEAN]
      BY Zenon DEF Init
  <2> QED BY <2>1 DEF Init, SwitchesOK, Chains
<1>2. PeersOK
  <2>1. NoLimiter \in Limiters /\ Good(NoLimiter)
      BY BlankFacts DEF Good
  <2>2. ASSUME NEW c \in Chains, NEW d \in Chains
        PROVE  /\ NewPeer(c, d) \in Peers /\ NewPeer(c, d).fee = 0
               /\ NewPeer(c, d).outbound = NoLimiter /\ NewPeer(c, d).inbound = NoLimiter
    <3>1. PICK w \in BOOLEAN : w = (c # Home /\ d = Home)
        OBVIOUS
    <3>2. NewPeer(c, d) = [wired |-> w, fee |-> 0, outbound |-> NoLimiter, inbound |-> NoLimiter]
        BY <3>1 DEF NewPeer
    <3> QED BY <2>1, <3>2 DEF Peers
  <2>3. \A c, d \in Chains : peer[c][d] = NewPeer(c, d)
      BY DEF Init
  <2>4. peer \in [Chains -> [Chains -> Peers]]
      BY <2>2 DEF Init
  <2>5. 0 < ONE_IN_BASIS_POINTS
      BY Constants
  <2> QED BY <2>1, <2>2, <2>3, <2>4, <2>5 DEF PeersOK
<1>3. WireOK
  <2>1. IsFiniteSet({}) /\ Cardinality({}) = 0
      BY FS_EmptySet
  <2>2. MaxMessages \in Nat
      BY Constants
  <2> QED BY <2>1, <2>2 DEF Init, WireOK
<1>4. TokensOK
    BY Constants DEF Init, TokensOK, Supply
<1>5. Backed
  <2>1. [c \in Spokes |-> Supply(c)] = [c \in Spokes |-> 0]
      BY Constants DEF Init, Supply
  <2>2. Spread = 0
      BY <2>1, TotalZero DEF Spread
  <2>3. Carried(Inflight) = 0
      BY TotalEmpty DEF Init, Inflight, Carried
  <2>4. tvl[Home] = 0
      BY Constants DEF Init
  <2> QED BY <2>2, <2>3, <2>4 DEF Backed
<1> QED BY <1>1, <1>2, <1>3, <1>4, <1>5 DEF OftInv

LEMMA InvFacts ==
    ASSUME OftInv
    PROVE  /\ wallet \in [Chains -> Nat] /\ vault \in [Chains -> Nat] /\ tvl \in [Chains -> Nat]
           /\ \A c \in Chains : tvl[c] <= vault[c]
           /\ Spread \in Nat /\ Carried(Inflight) \in Nat /\ Spread + Carried(Inflight) <= tvl[Home]
           /\ wallet[Home] + vault[Home] <= Genesis /\ Home \in Chains /\ Genesis \in Nat
<1>1. TokensOK /\ WireOK /\ Backed
    BY DEF OftInv
<1>2. [c \in Spokes |-> Supply(c)] \in [Spokes -> Nat]
    BY <1>1, Constants DEF TokensOK, Supply
<1>3. IsFiniteSet(Spokes)
    BY Constants
<1>4. Spread \in Nat
    BY <1>2, <1>3, TotalFinite DEF Spread
<1>5. Carried(Inflight) \in Nat
    BY <1>1, WireFacts
<1> QED BY <1>1, <1>4, <1>5, Constants DEF TokensOK, Backed, Supply

\* Tokens that move on one chain without a message: none is created, tvl_ld is untouched
\* and still covered.
LEMMA TokenStep ==
    ASSUME OftInv, NEW c \in Chains,
           UNCHANGED <<clock, paused, peer, registry, tvl, posted, cleared>>,
           wallet' \in [Chains -> Nat], vault' \in [Chains -> Nat],
           \A d \in Chains : d # c => wallet'[d] = wallet[d] /\ vault'[d] = vault[d],
           tvl[c] <= vault'[c], wallet'[c] + vault'[c] <= wallet[c] + vault[c]
    PROVE  OftInv'
<1>1. /\ wallet \in [Chains -> Nat] /\ vault \in [Chains -> Nat] /\ tvl \in [Chains -> Nat]
      /\ \A d \in Chains : tvl[d] <= vault[d]
      /\ Spread \in Nat /\ Carried(Inflight) \in Nat /\ Spread + Carried(Inflight) <= tvl[Home]
      /\ wallet[Home] + vault[Home] <= Genesis /\ Home \in Chains /\ Genesis \in Nat
    BY InvFacts
<1>2. SwitchesOK' /\ PeersOK' /\ WireOK' /\ Carried(Inflight)' = Carried(Inflight)
  <2>1. SwitchesOK' /\ WireOK' /\ Carried(Inflight)' = Carried(Inflight)
      BY DEF OftInv, SwitchesOK, WireOK, Inflight, Carried
  <2>2. PeersOK'
      BY DEF OftInv, PeersOK, Good
  <2> QED BY <2>1, <2>2
<1>3. Supply(c) \in Nat /\ Supply(c)' \in Nat /\ Supply(c)' <= Supply(c)
    BY <1>1 DEF Supply
<1>4. Spread' <= Spread /\ Spread' \in Nat
  <2>1. /\ Spread' \in Nat /\ (c = Home => Spread' = Spread)
        /\ (c # Home => Spread' = Spread - Supply(c) + Supply(c)')
      BY <1>1, SpreadChange
  <2> QED BY <1>1, <1>3, <2>1
<1>5. TokensOK'
  <2>1. \A d \in Chains : tvl'[d] <= vault'[d]
      BY <1>1
  <2>2. Supply(Home)' <= Genesis
      BY <1>1 DEF Supply
  <2> QED BY <1>1, <2>1, <2>2 DEF TokensOK
<1>6. Backed'
    BY <1>1, <1>2, <1>4 DEF Backed
<1> QED BY <1>2, <1>5, <1>6 DEF OftInv

LEMMA WithdrawFeeStep ==
    ASSUME OftInv, NEW c \in Chains, NEW n \in SideAmounts, WithdrawFee(c, n)
    PROVE  OftInv'
<1>1. /\ wallet \in [Chains -> Nat] /\ vault \in [Chains -> Nat] /\ tvl \in [Chains -> Nat]
      /\ n \in Nat /\ tvl[c] <= vault[c]
    BY InvFacts, Constants
<1>2. PICK f \in Nat : f = PostFee(c, n) /\ f <= n
    BY <1>1, WithheldFacts DEF PostFee
<1>3. /\ vault[c] - tvl[c] >= n /\ vault' = [vault EXCEPT ![c] = @ - n]
      /\ wallet' = [wallet EXCEPT ![c] = @ + f]
      /\ UNCHANGED <<clock, paused, peer, registry, tvl, posted, cleared>>
    BY <1>2 DEF WithdrawFee, Withdrawable, wireVars
<1>4. /\ wallet' \in [Chains -> Nat] /\ vault' \in [Chains -> Nat]
      /\ \A d \in Chains : d # c => wallet'[d] = wallet[d] /\ vault'[d] = vault[d]
      /\ tvl[c] <= vault'[c] /\ wallet'[c] + vault'[c] <= wallet[c] + vault[c]
    BY <1>1, <1>2, <1>3
<1> QED BY <1>3, <1>4, TokenStep

LEMMA DonateStep ==
    ASSUME OftInv, NEW c \in Chains, NEW n \in SideAmounts, Donate(c, n)
    PROVE  OftInv'
<1>1. /\ wallet \in [Chains -> Nat] /\ vault \in [Chains -> Nat] /\ tvl \in [Chains -> Nat]
      /\ n \in Nat /\ tvl[c] <= vault[c]
    BY InvFacts, Constants
<1>2. PICK f \in Nat : f = PostFee(c, n) /\ f <= n
    BY <1>1, WithheldFacts DEF PostFee
<1>3. /\ n <= wallet[c] /\ vault' = [vault EXCEPT ![c] = @ + f]
      /\ wallet' = [wallet EXCEPT ![c] = @ - n]
      /\ UNCHANGED <<clock, paused, peer, registry, tvl, posted, cleared>>
    BY <1>2 DEF Donate, wireVars
<1>4. /\ wallet' \in [Chains -> Nat] /\ vault' \in [Chains -> Nat]
      /\ \A d \in Chains : d # c => wallet'[d] = wallet[d] /\ vault'[d] = vault[d]
      /\ tvl[c] <= vault'[c] /\ wallet'[c] + vault'[c] <= wallet[c] + vault[c]
    BY <1>1, <1>2, <1>3
<1> QED BY <1>3, <1>4, TokenStep

LEMMA BurnGrsStep ==
    ASSUME OftInv, NEW c \in Spokes, NEW n \in SideAmounts, BurnGrs(c, n)
    PROVE  OftInv'
<1>1. /\ wallet \in [Chains -> Nat] /\ vault \in [Chains -> Nat] /\ tvl \in [Chains -> Nat]
      /\ n \in Nat /\ c \in Chains /\ tvl[c] <= vault[c]
    BY InvFacts, Constants
<1>2. /\ n <= wallet[c] /\ wallet' = [wallet EXCEPT ![c] = @ - n]
      /\ UNCHANGED <<clock, paused, peer, registry, tvl, posted, cleared>> /\ vault' = vault
    BY DEF BurnGrs, wireVars
<1>3. /\ wallet' \in [Chains -> Nat] /\ vault' \in [Chains -> Nat]
      /\ \A d \in Chains : d # c => wallet'[d] = wallet[d] /\ vault'[d] = vault[d]
      /\ tvl[c] <= vault'[c] /\ wallet'[c] + vault'[c] <= wallet[c] + vault[c]
    BY <1>1, <1>2
<1> QED BY <1>1, <1>2, <1>3, TokenStep

\* What a send takes, locks or burns, announces and does to the limiters of the route.
LEMMA SendFacts ==
    ASSUME OftInv, NEW c \in Chains, NEW d \in Chains, NEW n \in Amounts[c], Send(c, d, n),
           NEW a, a = Adjusted(c, n, peer[c][d].fee), NEW m, m = Message(c, d, a)
    PROVE  /\ a.sent \in Nat /\ a.received \in Nat /\ a.fee \in Nat
           /\ c = Home => a.received + a.fee <= PostFee(Home, a.sent)
           /\ c # Home => a.received + a.fee = a.sent
           /\ m \in Messages /\ m.src = c /\ m.dst = d /\ m.nonce = Cardinality(posted)
           /\ Sd2Ld(m.sd) = a.received
           /\ Post(m) /\ a.sent <= wallet[c] /\ wallet' = [wallet EXCEPT ![c] = @ - a.sent]
           /\ (c = Home /\ Lock(a)) \/ (c # Home /\ Burn(c, a))
           /\ CanConsume(peer[c][d].outbound, a.received)
           /\ PeersOK'
           /\ Limited(c, d, Taken(peer[c][d].outbound, a.received),
                            Returned(peer[c][d].inbound, a.received))
           /\ UNCHANGED <<clock, paused, registry>>
<1>1. PeersOK /\ WireOK
    BY DEF OftInv
<1>2. PICK bps \in Nat : bps = peer[c][d].fee /\ bps < ONE_IN_BASIS_POINTS
    BY <1>1 DEF PeersOK, Peers
<1>3. n \in Nat
    BY Constants
<1>4. /\ a.sent \in Nat /\ a.received \in Nat /\ a.fee \in Nat
      /\ Ld2Sd(a.received) \in Nat /\ Sd2Ld(Ld2Sd(a.received)) = a.received
      /\ c = Home => a.received + a.fee <= PostFee(Home, a.sent)
      /\ c # Home => a.received + a.fee = a.sent
    BY <1>2, <1>3, AdjustedFacts
<1>5. /\ Post(m) /\ a.sent <= wallet[c] /\ wallet' = [wallet EXCEPT ![c] = @ - a.sent]
      /\ (c = Home /\ Lock(a)) \/ (c # Home /\ Burn(c, a))
      /\ CanConsume(peer[c][d].outbound, a.received)
      /\ peer' = [peer EXCEPT ![c][d].outbound = Taken(@, a.received),
                              ![c][d].inbound = Returned(@, a.received)]
      /\ UNCHANGED <<clock, paused, registry>>
    BY DEF Send
<1>6. m \in Messages /\ m.src = c /\ m.dst = d /\ m.nonce = Cardinality(posted)
      /\ Sd2Ld(m.sd) = a.received
  <2>1. PICK k \in 0..MaxMessages : k = Cardinality(posted)
    <3>1. Cardinality(posted) \in Nat /\ Cardinality(posted) < MaxMessages /\ MaxMessages \in Nat
        BY <1>1, <1>5, WireFacts, Constants DEF Post
    <3> QED BY <3>1
  <2>2. PICK s \in Nat : s = Ld2Sd(a.received)
      BY <1>4
  <2>3. m = [src |-> c, dst |-> d, sd |-> s, nonce |-> k]
      BY <2>1, <2>2 DEF Message
  <2> QED BY <1>4, <2>1, <2>2, <2>3 DEF Messages
<1>7. PICK o, i : o = Taken(peer[c][d].outbound, a.received) /\ i = Returned(peer[c][d].inbound, a.received)
    OBVIOUS
<1>8. Good(o) /\ Good(i)
    BY <1>1, <1>4, <1>5, <1>7, TakenFacts, ReturnedFacts DEF PeersOK
<1>9. peer' = [peer EXCEPT ![c][d].outbound = o, ![c][d].inbound = i]
    BY <1>1, <1>5, <1>7 DEF PeersOK, Peers
<1>10. PeersOK' /\ Limited(c, d, o, i)
    BY <1>1, <1>8, <1>9, LimitedStep
<1> QED BY <1>4, <1>5, <1>6, <1>7, <1>10

LEMMA SendStep ==
    ASSUME OftInv, NEW c \in Chains, NEW d \in Chains, NEW n \in Amounts[c], Send(c, d, n)
    PROVE  OftInv'
<1>1. PICK a : a = Adjusted(c, n, peer[c][d].fee)
    OBVIOUS
<1>2. PICK m : m = Message(c, d, a)
    OBVIOUS
<1>3. /\ a.sent \in Nat /\ a.received \in Nat /\ a.fee \in Nat
      /\ c = Home => a.received + a.fee <= PostFee(Home, a.sent)
      /\ c # Home => a.received + a.fee = a.sent
    BY <1>1, <1>2, SendFacts
<1>4. /\ m \in Messages /\ m.nonce = Cardinality(posted) /\ Sd2Ld(m.sd) = a.received /\ Post(m)
    BY <1>1, <1>2, SendFacts
<1>5. /\ a.sent <= wallet[c] /\ wallet' = [wallet EXCEPT ![c] = @ - a.sent]
      /\ (c = Home /\ Lock(a)) \/ (c # Home /\ Burn(c, a))
    BY <1>1, <1>2, SendFacts
<1>6. PeersOK' /\ UNCHANGED <<clock, paused, registry>>
    BY <1>1, <1>2, SendFacts
<1>7. WireOK' /\ Carried(Inflight)' = Carried(Inflight) + a.received
    BY <1>4, PostFacts DEF OftInv
<1>8. /\ wallet \in [Chains -> Nat] /\ vault \in [Chains -> Nat] /\ tvl \in [Chains -> Nat]
      /\ \A e \in Chains : tvl[e] <= vault[e]
      /\ Spread \in Nat /\ Carried(Inflight) \in Nat /\ Spread + Carried(Inflight) <= tvl[Home]
      /\ wallet[Home] + vault[Home] <= Genesis /\ Home \in Chains /\ Genesis \in Nat
    BY InvFacts
<1>9. SwitchesOK'
    BY <1>6 DEF OftInv, SwitchesOK
<1>10. CASE c = Home
  <2>1. PICK p \in Nat : p = PostFee(Home, a.sent) /\ p <= a.sent /\ a.received <= p
    <3>1. PostFee(Home, a.sent) \in Nat /\ PostFee(Home, a.sent) <= a.sent
        BY <1>3, WithheldFacts DEF PostFee
    <3> QED BY <1>3, <1>10, <3>1
  <2>2. tvl' = [tvl EXCEPT ![Home] = @ + a.received] /\ vault' = [vault EXCEPT ![Home] = @ + p]
      BY <1>5, <1>10, <2>1 DEF Lock
  <2>3. /\ wallet' \in [Chains -> Nat] /\ vault' \in [Chains -> Nat] /\ tvl' \in [Chains -> Nat]
        /\ tvl'[Home] = tvl[Home] + a.received /\ vault'[Home] = vault[Home] + p
        /\ wallet'[Home] = wallet[Home] - a.sent
        /\ \A e \in Chains : e # c => wallet'[e] = wallet[e] /\ vault'[e] = vault[e] /\ tvl'[e] = tvl[e]
      BY <1>3, <1>5, <1>8, <1>10, <2>1, <2>2
  <2>4. Spread' = Spread
      BY <1>8, <1>10, <2>3, SpreadChange
  <2>5. TokensOK'
    <3>1. \A e \in Chains : tvl'[e] <= vault'[e]
        BY <1>3, <1>8, <1>10, <2>1, <2>3
    <3>2. Supply(Home)' <= Genesis
        BY <1>3, <1>8, <2>1, <2>3 DEF Supply
    <3> QED BY <2>3, <3>1, <3>2 DEF TokensOK
  <2>6. Backed'
      BY <1>3, <1>7, <1>8, <2>3, <2>4 DEF Backed
  <2> QED BY <1>6, <1>7, <1>9, <2>5, <2>6 DEF OftInv
<1>11. CASE c # Home
  <2>1. tvl' = tvl /\ vault' = [vault EXCEPT ![c] = @ + a.fee]
      BY <1>5, <1>11 DEF Burn
  <2>2. /\ wallet' \in [Chains -> Nat] /\ vault' \in [Chains -> Nat]
        /\ vault'[c] = vault[c] + a.fee /\ wallet'[c] = wallet[c] - a.sent
        /\ \A e \in Chains : e # c => wallet'[e] = wallet[e] /\ vault'[e] = vault[e]
      BY <1>3, <1>5, <1>8, <2>1
  <2>3. Supply(c) \in Nat /\ Supply(c)' = Supply(c) - a.received
      BY <1>3, <1>8, <1>11, <2>2 DEF Supply
  <2>4. Spread' = Spread - a.received
    <3>1. Spread' = Spread - Supply(c) + Supply(c)'
        BY <1>8, <1>11, <2>2, SpreadChange
    <3> QED BY <1>3, <1>8, <2>3, <3>1
  <2>5. TokensOK'
    <3>1. \A e \in Chains : tvl'[e] <= vault'[e]
        BY <1>3, <1>8, <2>1, <2>2
    <3>2. Supply(Home)' <= Genesis
        BY <1>8, <1>11, <2>2 DEF Supply
    <3> QED BY <1>8, <2>1, <2>2, <3>1, <3>2 DEF TokensOK
  <2>6. Backed'
      BY <1>3, <1>7, <1>8, <2>1, <2>4 DEF Backed
  <2> QED BY <1>6, <1>7, <1>9, <2>5, <2>6 DEF OftInv
<1> QED BY <1>10, <1>11

\* What a delivery does to the wire and to the limiters of the route.
LEMMA ReceiveFacts ==
    ASSUME OftInv, NEW m \in Inflight, LzReceive(m), NEW c, c = m.dst, NEW d, d = m.src,
           NEW g, g = Sd2Ld(m.sd)
    PROVE  /\ c \in Chains /\ d \in Chains /\ g \in Nat /\ g <= Carried(Inflight)
           /\ WireOK' /\ m \in posted /\ m \notin cleared /\ posted' = posted /\ cleared' = cleared \cup {m}
           /\ Carried(Inflight)' = Carried(Inflight) - g
           /\ CanConsume(peer[c][d].inbound, g)
           /\ PeersOK'
           /\ Limited(c, d, Returned(peer[c][d].outbound, g), Taken(peer[c][d].inbound, g))
           /\ (c = Home /\ Unlock(g)) \/ (c # Home /\ MintTo(c, g))
           /\ UNCHANGED <<clock, paused, registry>>
<1>1. PeersOK /\ WireOK
    BY DEF OftInv
<1>2. c \in Chains /\ d \in Chains /\ g \in Nat /\ g <= Carried(Inflight)
    BY <1>1, WireFacts
<1>3. /\ cleared' = cleared \cup {m} /\ posted' = posted
      /\ CanConsume(peer[c][d].inbound, g)
      /\ peer' = [peer EXCEPT ![c][d].outbound = Returned(@, g), ![c][d].inbound = Taken(@, g)]
      /\ (c = Home /\ Unlock(g)) \/ (c # Home /\ MintTo(c, g))
      /\ UNCHANGED <<clock, paused, registry>>
    BY DEF LzReceive
<1>4. WireOK' /\ m \notin cleared /\ Carried(Inflight)' = Carried(Inflight) - g
    BY <1>1, <1>3, ClearFacts
<1>5. PICK o, i : o = Returned(peer[c][d].outbound, g) /\ i = Taken(peer[c][d].inbound, g)
    OBVIOUS
<1>6. Good(o) /\ Good(i)
    BY <1>1, <1>2, <1>3, <1>5, TakenFacts, ReturnedFacts DEF PeersOK
<1>7. peer' = [peer EXCEPT ![c][d].outbound = o, ![c][d].inbound = i]
    BY <1>1, <1>2, <1>3, <1>5 DEF PeersOK, Peers
<1>8. PeersOK' /\ Limited(c, d, o, i)
    BY <1>1, <1>2, <1>6, <1>7, LimitedStep
<1>9. m \in posted
    BY DEF Inflight
<1> QED BY <1>2, <1>3, <1>4, <1>5, <1>8, <1>9

LEMMA LzReceiveStep ==
    ASSUME OftInv, NEW m \in Inflight, LzReceive(m)
    PROVE  OftInv'
<1>1. PICK c, d, g : c = m.dst /\ d = m.src /\ g = Sd2Ld(m.sd)
    OBVIOUS
<1>2. /\ c \in Chains /\ g \in Nat /\ g <= Carried(Inflight)
      /\ Carried(Inflight)' = Carried(Inflight) - g
    BY <1>1, ReceiveFacts
<1>3. WireOK' /\ PeersOK' /\ UNCHANGED <<clock, paused, registry>>
    BY <1>1, ReceiveFacts
<1>4. (c = Home /\ Unlock(g)) \/ (c # Home /\ MintTo(c, g))
    BY <1>1, ReceiveFacts
<1>5. /\ wallet \in [Chains -> Nat] /\ vault \in [Chains -> Nat] /\ tvl \in [Chains -> Nat]
      /\ \A e \in Chains : tvl[e] <= vault[e]
      /\ Spread \in Nat /\ Carried(Inflight) \in Nat /\ Spread + Carried(Inflight) <= tvl[Home]
      /\ wallet[Home] + vault[Home] <= Genesis /\ Home \in Chains /\ Genesis \in Nat
    BY InvFacts
<1>6. SwitchesOK'
    BY <1>3 DEF OftInv, SwitchesOK
<1>7. CASE c = Home
  <2>1. PICK p \in Nat : p = PostFee(Home, g) /\ p <= g
      BY <1>2, WithheldFacts DEF PostFee
  <2>2. /\ tvl[Home] >= g /\ vault[Home] >= g
        /\ tvl' = [tvl EXCEPT ![Home] = @ - g] /\ vault' = [vault EXCEPT ![Home] = @ - g]
        /\ wallet' = [wallet EXCEPT ![Home] = @ + p]
      BY <1>4, <1>7, <2>1 DEF Unlock
  <2>3. /\ wallet' \in [Chains -> Nat] /\ vault' \in [Chains -> Nat] /\ tvl' \in [Chains -> Nat]
        /\ tvl'[Home] = tvl[Home] - g /\ vault'[Home] = vault[Home] - g
        /\ wallet'[Home] = wallet[Home] + p
        /\ \A e \in Chains : e # c => wallet'[e] = wallet[e] /\ vault'[e] = vault[e] /\ tvl'[e] = tvl[e]
      BY <1>2, <1>5, <1>7, <2>1, <2>2
  <2>4. Spread' = Spread
      BY <1>2, <1>5, <1>7, <2>3, SpreadChange
  <2>5. TokensOK'
    <3>1. \A e \in Chains : tvl'[e] <= vault'[e]
        BY <1>2, <1>5, <1>7, <2>3
    <3>2. Supply(Home)' <= Genesis
        BY <1>2, <1>5, <2>1, <2>3 DEF Supply
    <3> QED BY <2>3, <3>1, <3>2 DEF TokensOK
  <2>6. Backed'
      BY <1>2, <1>5, <2>3, <2>4 DEF Backed
  <2> QED BY <1>3, <1>6, <2>5, <2>6 DEF OftInv
<1>8. CASE c # Home
  <2>1. wallet' = [wallet EXCEPT ![c] = @ + g] /\ vault' = vault /\ tvl' = tvl
      BY <1>4, <1>8 DEF MintTo
  <2>2. /\ wallet' \in [Chains -> Nat] /\ vault' \in [Chains -> Nat]
        /\ wallet'[c] = wallet[c] + g
        /\ \A e \in Chains : e # c => wallet'[e] = wallet[e] /\ vault'[e] = vault[e]
      BY <1>2, <1>5, <2>1
  <2>3. Supply(c) \in Nat /\ Supply(c)' = Supply(c) + g
      BY <1>2, <1>5, <2>1, <2>2 DEF Supply
  <2>4. Spread' = Spread + g
    <3>1. Spread' = Spread - Supply(c) + Supply(c)'
        BY <1>2, <1>5, <1>8, <2>2, SpreadChange
    <3> QED BY <1>2, <1>5, <2>3, <3>1
  <2>5. TokensOK'
    <3>1. Supply(Home)' <= Genesis
        BY <1>5, <1>8, <2>2 DEF Supply
    <3> QED BY <1>5, <2>1, <2>2, <3>1 DEF TokensOK
  <2>6. Backed'
      BY <1>2, <1>5, <2>1, <2>4 DEF Backed
  <2> QED BY <1>3, <1>6, <2>5, <2>6 DEF OftInv
<1> QED BY <1>7, <1>8

\* Administration and time leave tokens and messages alone.
LEMMA QuietStep ==
    ASSUME OftInv, SwitchesOK', PeersOK', UNCHANGED <<tokenVars, wireVars>>
    PROVE  OftInv'
<1>1. UNCHANGED <<wallet, vault, tvl, posted, cleared>>
    BY DEF tokenVars, wireVars
<1>2. WireOK' /\ TokensOK' /\ Backed'
    BY <1>1 DEF OftInv, WireOK, TokensOK, Backed, Supply, Spread, Inflight, Carried
<1> QED BY <1>2 DEF OftInv

\* No limiter is written.
Unlimited ==
    \A c, d \in Chains : /\ peer'[c][d].outbound = peer[c][d].outbound
                         /\ peer'[c][d].inbound = peer[c][d].inbound

LEMMA SetPeerAddressFacts ==
    ASSUME OftInv, NEW c \in Chains, NEW d \in Chains,
           SetPeerAddress(c, d, ~peer[c][d].wired)
    PROVE  OftInv' /\ Unlimited
<1>1. peer \in [Chains -> [Chains -> Peers]] /\ PeersOK /\ registry \in [Chains -> SUBSET Chains]
    BY DEF OftInv, PeersOK, SwitchesOK
<1>2. PICK w \in BOOLEAN : w = ~peer[c][d].wired
    OBVIOUS
<1>3. /\ registry' = [registry EXCEPT ![c] = IF w THEN @ \cup {d} ELSE @ \ {d}]
      /\ peer' = [peer EXCEPT ![c][d].wired = w]
      /\ UNCHANGED <<clock, paused, tokenVars, wireVars>>
    BY <1>2 DEF SetPeerAddress, Upsert
<1>4. SwitchesOK'
    BY <1>1, <1>3 DEF OftInv, SwitchesOK
<1>5. peer' \in [Chains -> [Chains -> Peers]]
  <2>1. PICK v \in Peers : v = peer[c][d]
      BY <1>1
  <2>2. PICK p \in Peers : p = [v EXCEPT !.wired = w]
      BY DEF Peers
  <2>3. PICK r \in [Chains -> Peers] : r = [peer[c] EXCEPT ![d] = p]
      BY <1>1
  <2>4. peer' = [peer EXCEPT ![c] = r]
      BY <1>1, <1>3, <2>1, <2>2, <2>3
  <2> QED BY <1>1, <2>4
<1>6. Unlimited /\ \A e, f \in Chains : peer'[e][f].fee = peer[e][f].fee
    BY <1>1, <1>3 DEF Unlimited, Peers
<1>7. PeersOK'
  <2>1. ASSUME NEW e \in Chains, NEW f \in Chains
        PROVE  /\ peer'[e][f].fee < ONE_IN_BASIS_POINTS
               /\ Good(peer'[e][f].outbound) /\ Good(peer'[e][f].inbound)
      BY <1>1, <1>6 DEF PeersOK, Unlimited
  <2> QED BY <1>5, <2>1 DEF PeersOK, Good
<1> QED BY <1>3, <1>4, <1>6, <1>7, QuietStep

LEMMA SetPeerFeeFacts ==
    ASSUME OftInv, NEW c \in Chains, NEW d \in Chains, NEW bps \in Fees, SetPeerFee(c, d, bps)
    PROVE  OftInv' /\ Unlimited
<1>1. peer \in [Chains -> [Chains -> Peers]] /\ PeersOK
    BY DEF OftInv, PeersOK
<1>2. bps \in Nat /\ bps < ONE_IN_BASIS_POINTS
    BY Constants
<1>3. /\ peer' = [peer EXCEPT ![c][d].fee = bps]
      /\ UNCHANGED <<clock, paused, registry, tokenVars, wireVars>>
    BY DEF SetPeerFee
<1>4. SwitchesOK'
    BY <1>3 DEF OftInv, SwitchesOK
<1>5. peer' \in [Chains -> [Chains -> Peers]]
  <2>1. PICK v \in Peers : v = peer[c][d]
      BY <1>1
  <2>2. PICK p \in Peers : p = [v EXCEPT !.fee = bps]
      BY <1>2 DEF Peers
  <2>3. PICK r \in [Chains -> Peers] : r = [peer[c] EXCEPT ![d] = p]
      BY <1>1
  <2>4. peer' = [peer EXCEPT ![c] = r]
      BY <1>1, <1>3, <2>1, <2>2, <2>3
  <2> QED BY <1>1, <2>4
<1>6. Unlimited
    BY <1>1, <1>3 DEF Unlimited, Peers
<1>7. \A e, f \in Chains : peer'[e][f].fee < ONE_IN_BASIS_POINTS
  <2>1. \A e, f \in Chains : peer'[e][f].fee = bps \/ peer'[e][f].fee = peer[e][f].fee
      BY <1>1, <1>3 DEF Peers
  <2> QED BY <1>1, <1>2, <2>1 DEF PeersOK
<1>8. PeersOK'
  <2>1. ASSUME NEW e \in Chains, NEW f \in Chains
        PROVE  Good(peer'[e][f].outbound) /\ Good(peer'[e][f].inbound)
      BY <1>1, <1>6 DEF PeersOK, Unlimited
  <2> QED BY <1>5, <1>7, <2>1 DEF PeersOK, Good
<1> QED BY <1>3, <1>4, <1>6, <1>8, QuietStep

LEMMA SetLimitFacts ==
    ASSUME OftInv, NEW c \in Chains, NEW d \in Chains
    PROVE  /\ \A l \in NextLimiters(peer[c][d].outbound) : SetOutboundLimit(c, d, l)
                => OftInv' /\ Limited(c, d, l, peer[c][d].inbound)
           /\ \A l \in NextLimiters(peer[c][d].inbound) : SetInboundLimit(c, d, l)
                => OftInv' /\ Limited(c, d, peer[c][d].outbound, l)
<1>1. PeersOK /\ Good(peer[c][d].outbound) /\ Good(peer[c][d].inbound)
    BY DEF OftInv, PeersOK
<1>2. ASSUME NEW l \in NextLimiters(peer[c][d].outbound), SetOutboundLimit(c, d, l)
      PROVE  OftInv' /\ Limited(c, d, l, peer[c][d].inbound)
  <2>1. Good(l)
      BY <1>1, <1>2, UpdatedFacts
  <2>2. peer' = [peer EXCEPT ![c][d].outbound = l]
        /\ UNCHANGED <<clock, paused, registry, tokenVars, wireVars>>
      BY <1>2 DEF SetOutboundLimit
  <2>3. PeersOK' /\ Limited(c, d, l, peer[c][d].inbound)
      BY <1>1, <2>1, <2>2, LimitedOne
  <2>4. SwitchesOK'
      BY <2>2 DEF OftInv, SwitchesOK
  <2> QED BY <2>2, <2>3, <2>4, QuietStep
<1>3. ASSUME NEW l \in NextLimiters(peer[c][d].inbound), SetInboundLimit(c, d, l)
      PROVE  OftInv' /\ Limited(c, d, peer[c][d].outbound, l)
  <2>1. Good(l)
      BY <1>1, <1>3, UpdatedFacts
  <2>2. peer' = [peer EXCEPT ![c][d].inbound = l]
        /\ UNCHANGED <<clock, paused, registry, tokenVars, wireVars>>
      BY <1>3 DEF SetInboundLimit
  <2>3. PeersOK' /\ Limited(c, d, peer[c][d].outbound, l)
      BY <1>1, <2>1, <2>2, LimitedOne
  <2>4. SwitchesOK'
      BY <2>2 DEF OftInv, SwitchesOK
  <2> QED BY <2>2, <2>3, <2>4, QuietStep
<1> QED BY <1>2, <1>3

LEMMA SetPauseStep ==
    ASSUME OftInv, NEW c \in Pausable, SetPause(c, ~paused[c])
    PROVE  OftInv'
<1>1. /\ paused' = [paused EXCEPT ![c] = ~paused[c]]
      /\ UNCHANGED <<clock, peer, registry, tokenVars, wireVars>>
    BY DEF SetPause
<1>2. SwitchesOK'
    BY <1>1 DEF OftInv, SwitchesOK
<1>3. PeersOK'
    BY <1>1 DEF OftInv, PeersOK, Good
<1> QED BY <1>1, <1>2, <1>3, QuietStep

LEMMA TickFacts ==
    ASSUME OftInv, Tick
    PROVE  /\ OftInv' /\ clock' # clock
           /\ \A c, d \in Chains : /\ peer'[c][d].outbound = Aged(peer[c][d].outbound)
                                   /\ peer'[c][d].inbound = Aged(peer[c][d].inbound)
<1>1. peer \in [Chains -> [Chains -> Peers]] /\ PeersOK /\ clock \in {0, 1}
    BY DEF OftInv, PeersOK, SwitchesOK
<1>2. /\ clock' = 1 - clock
      /\ peer' = [c \in Chains |-> [d \in Chains |->
                   [peer[c][d] EXCEPT !.outbound = Aged(@), !.inbound = Aged(@)]]]
      /\ UNCHANGED <<paused, registry, tokenVars, wireVars>>
    BY DEF Tick
<1>3. clock' \in {0, 1} /\ clock' # clock
  <2>1. clock' = 1 - clock /\ clock \in {0, 1}
      BY <1>1, <1>2
  <2> QED BY <2>1
<1>4. SwitchesOK'
    BY <1>2, <1>3 DEF OftInv, SwitchesOK
<1>5. ASSUME NEW c \in Chains, NEW d \in Chains
      PROVE  /\ peer'[c][d] \in Peers /\ peer'[c][d].fee = peer[c][d].fee
             /\ peer'[c][d].outbound = Aged(peer[c][d].outbound)
             /\ peer'[c][d].inbound = Aged(peer[c][d].inbound)
             /\ Good(peer'[c][d].outbound) /\ Good(peer'[c][d].inbound)
  <2>1. PICK p \in Peers : p = peer[c][d]
      BY <1>1
  <2>2. PICK o, i : o = Aged(p.outbound) /\ i = Aged(p.inbound)
      OBVIOUS
  <2>3. Good(o) /\ Good(i) /\ o \in Limiters /\ i \in Limiters
    <3>1. Good(p.outbound) /\ Good(p.inbound)
        BY <1>1, <2>1 DEF PeersOK
    <3>2. Good(o) /\ Good(i)
        BY <2>2, <3>1, AgedFacts
    <3> QED BY <3>2 DEF Good
  <2>4. peer'[c][d] = [p EXCEPT !.outbound = Aged(p.outbound), !.inbound = Aged(p.inbound)]
      BY <1>2, <2>1 DEF Peers
  <2>5. peer'[c][d] = [p EXCEPT !.outbound = o, !.inbound = i]
      BY <2>2, <2>4
  <2>6. PICK q : q = [p EXCEPT !.outbound = o, !.inbound = i]
      OBVIOUS
  <2>7. q \in Peers /\ q.fee = p.fee /\ q.outbound = o /\ q.inbound = i
      BY <2>3, <2>6 DEF Peers
  <2> QED BY <2>1, <2>2, <2>3, <2>5, <2>6, <2>7
<1>6. peer' \in [Chains -> [Chains -> Peers]]
  <2>1. DOMAIN peer' = Chains /\ \A c \in Chains : DOMAIN peer'[c] = Chains
      BY <1>2
  <2>2. \A c \in Chains : peer'[c] = [d \in Chains |-> peer'[c][d]]
      BY <1>2
  <2>3. \A c \in Chains : peer'[c] \in [Chains -> Peers]
      BY <1>5, <2>2
  <2>4. peer' = [c \in Chains |-> peer'[c]]
      BY <1>2
  <2> QED BY <2>3, <2>4
<1>7. PeersOK'
    BY <1>1, <1>5, <1>6 DEF PeersOK, Good
<1> QED BY <1>2, <1>3, <1>4, <1>5, <1>7, QuietStep

LEMMA OftInvNext == OftInv /\ [Next]_vars => OftInv'
<1> SUFFICES ASSUME OftInv, [Next]_vars PROVE OftInv'
    OBVIOUS
<1>1. \A r \in Routes \cup Wirings \cup Administered \cup Charged : r[1] \in Chains /\ r[2] \in Chains
    BY Constants
<1>2. CASE \E r \in Routes : \E n \in Amounts[r[1]] : Send(r[1], r[2], n)
    BY <1>1, <1>2, SendStep
<1>3. CASE \E m \in Inflight : LzReceive(m)
    BY <1>3, LzReceiveStep
<1>4. CASE \E w \in Wirings : SetPeerAddress(w[1], w[2], ~peer[w[1]][w[2]].wired)
    BY <1>1, <1>4, SetPeerAddressFacts
<1>5. CASE \E r \in Charged, bps \in Fees : SetPeerFee(r[1], r[2], bps)
    BY <1>1, <1>5, SetPeerFeeFacts
<1>6. CASE \E r \in Administered :
             \E l \in NextLimiters(peer[r[1]][r[2]].outbound) : SetOutboundLimit(r[1], r[2], l)
    BY <1>1, <1>6, SetLimitFacts
<1>7. CASE \E r \in Administered :
             \E l \in NextLimiters(peer[r[1]][r[2]].inbound) : SetInboundLimit(r[1], r[2], l)
    BY <1>1, <1>7, SetLimitFacts
<1>8. CASE \E c \in Pausable : SetPause(c, ~paused[c])
    BY <1>8, SetPauseStep
<1>9. CASE \E c \in Chains, n \in SideAmounts : WithdrawFee(c, n)
    BY <1>9, WithdrawFeeStep
<1>10. CASE \E c \in Chains, n \in SideAmounts : Donate(c, n)
    BY <1>10, DonateStep
<1>11. CASE \E c \in Spokes, n \in SideAmounts : BurnGrs(c, n)
    BY <1>11, BurnGrsStep
<1>12. CASE Tick
    BY <1>12, TickFacts
<1>13. CASE UNCHANGED vars
  <2>1. UNCHANGED <<clock, paused, peer, registry, tokenVars, wireVars>>
      BY <1>13 DEF vars
  <2>2. SwitchesOK' /\ PeersOK'
      BY <2>1 DEF OftInv, SwitchesOK, PeersOK, Good
  <2> QED BY <2>1, <2>2, QuietStep
<1> QED BY <1>2, <1>3, <1>4, <1>5, <1>6, <1>7, <1>8, <1>9, <1>10, <1>11, <1>12, <1>13 DEF Next

LEMMA OftInvHolds == Spec => []OftInv
<1> QED BY OftInvInit, OftInvNext, PTL DEF Spec

-------------------------------------------------------------------------------
(* Theorems. *)

\* For any number of spokes, any transfer fee of the locked mint and any OFT fees: what is on
\* the spokes and on the wire is counted in tvl_ld, and token_escrow holds it (send,
\* lz_receive, withdraw_fee).
THEOREM LockedAlwaysBacks == Spec => []LockedBacksSpokes
<1>1. ASSUME OftInv PROVE LockedBacksSpokes
  <2>1. TypeOK
    <3>1. \A c, d \in Chains : \A l \in {peer[c][d].outbound, peer[c][d].inbound} : l.tokens <= l.capacity
        BY <1>1 DEF OftInv, PeersOK, Good
    <3> QED BY <1>1, <3>1 DEF OftInv, SwitchesOK, PeersOK, WireOK, TokensOK, Peers, Messages, TypeOK
  <2> QED BY <1>1, <2>1 DEF OftInv, TokensOK, Backed, Spread, LockedBacksSpokes
<1>2. OftInv => LockedBacksSpokes
    BY <1>1
<1> QED BY <1>2, OftInvHolds, PTL

\* What lz_receive asks of the books of the destination: at home tvl_ld and the vault cover
\* the amount, on a spoke the mint has room for it.
Covered(m) ==
    LET ld == Sd2Ld(m.sd) IN
    /\ m.dst = Home => tvl[Home] >= ld /\ vault[Home] >= ld
    /\ m.dst # Home => Supply(m.dst) + ld <= MAX_SUPPLY

\* Whatever was sent, the books of its destination never refuse it: of the guards of
\* lz_receive only the pause flag, the peer address and the bucket are left, which is what
\* OnlyThrottled asks of ENABLED.
THEOREM DeliveryAlwaysCovered == Spec => [](\A m \in Inflight : Covered(m))
<1>1. ASSUME OftInv, NEW m \in Inflight PROVE Covered(m)
  <2>1. PICK c \in Chains, g \in Nat : c = m.dst /\ g = Sd2Ld(m.sd) /\ g <= Carried(Inflight)
      BY <1>1, WireFacts DEF OftInv
  <2>2. /\ wallet \in [Chains -> Nat] /\ vault \in [Chains -> Nat] /\ tvl \in [Chains -> Nat]
        /\ tvl[Home] <= vault[Home] /\ Home \in Chains
        /\ Spread \in Nat /\ Carried(Inflight) \in Nat /\ Spread + Carried(Inflight) <= tvl[Home]
        /\ wallet[Home] + vault[Home] <= MAX_SUPPLY /\ MAX_SUPPLY \in Nat
    <3>1. MAX_SUPPLY \in Nat /\ Genesis <= MAX_SUPPLY
        BY Constants
    <3> QED BY <1>1, <3>1, InvFacts
  <2>3. CASE c = Home
      BY <2>1, <2>2, <2>3 DEF Covered
  <2>4. CASE c # Home
    <3> DEFINE s == [d \in Spokes |-> Supply(d)]
    <3>1. c \in Spokes /\ Spokes \subseteq Chains /\ IsFiniteSet(Spokes)
        BY <2>4, Constants DEF Chains
    <3>2. s \in [Spokes -> Nat] /\ s[c] = Supply(c) /\ Total(s) = Spread
        BY <2>2, <3>1 DEF Supply, Spread
    <3> HIDE DEF s
    <3>3. s[c] \in Nat /\ s[c] <= Total(s)
        BY <3>1, <3>2, TotalUpdate
    <3>4. Supply(c) + g <= MAX_SUPPLY
        BY <2>1, <2>2, <3>2, <3>3
    <3> QED BY <2>1, <2>4, <3>4 DEF Covered
  <2> QED BY <2>3, <2>4
<1>2. OftInv => \A m \in Inflight : Covered(m)
    BY <1>1
<1> QED BY <1>2, OftInvHolds, PTL

-------------------------------------------------------------------------------
(* The limiters are token buckets. *)

LEMMA IsDrip ==
    ASSUME NEW b \in Directions, clock' # clock,
           BLevel(b)' = Smaller(BLevel(b) + BLimit(b).rate, BLimit(b).capacity),
           BLimit(b)' = BLimit(b), BPassed(b)' = BPassed(b), BReturned(b)' = BReturned(b)
    PROVE  Buckets!Drip(b)
BY DEF Buckets!Drip, Buckets!AtMost, BLevel, BLimit, BPassed, BReturned, Smaller

LEMMA IsPass ==
    ASSUME NEW b \in Directions, NEW n \in Nat, clock' = clock,
           BLimit(b)' = BLimit(b), BReturned(b)' = BReturned(b),
           BPassed(b) \in Nat, BPassed(b)' = BPassed(b) + n, BLevel(b)' \in Nat,
           BLevel(b)' = IF BLimit(b).on THEN BLevel(b) - n ELSE BLevel(b)
    PROVE  Buckets!Pass(b)
<1>1. BPassed(b)' - BPassed(b) = n /\ n >= 0 /\ BLevel(b)' >= 0
    OBVIOUS
<1> QED BY <1>1 DEF Buckets!Pass, BLevel, BLimit, BPassed, BReturned

LEMMA IsReturn ==
    ASSUME NEW b \in Directions, NEW n \in Nat, clock' = clock,
           BLimit(b)' = BLimit(b), BPassed(b)' = BPassed(b),
           BReturned(b) \in Nat, BReturned(b)' = BReturned(b) + n,
           BLevel(b)' = Smaller(BLevel(b) + n, BLimit(b).capacity)
    PROVE  Buckets!Return(b)
<1>1. BReturned(b)' - BReturned(b) = n /\ n >= 0
    OBVIOUS
<1> QED BY <1>1 DEF Buckets!Return, Buckets!AtMost, BLevel, BLimit, BPassed, BReturned, Smaller

LEMMA IsReplace ==
    ASSUME NEW b \in Directions, clock' = clock,
           BPassed(b)' = BPassed(b), BReturned(b)' = BReturned(b), BLimit(b)' \in Limits,
           \/ BLevel(b)' = BLimit(b)'.capacity
           \/ /\ BLevel(b)' = BLevel(b)
              /\ BLimit(b)' = [BLimit(b) EXCEPT !.on = TRUE, !.rate = BLimit(b)'.rate]
    PROVE  Buckets!Replace(b)
BY DEF Buckets!Replace, Buckets!Limits, Limits, BLevel, BLimit, BPassed, BReturned

\* A direction is one of the two limiters of an administered route.
LEMMA DirectionFacts ==
    ASSUME NEW b \in Directions
    PROVE  /\ b[1] = "out" \/ b[1] = "in"
           /\ b[2] \in Administered /\ b[2][1] \in Chains /\ b[2][2] \in Chains
           /\ b[2] = <<b[2][1], b[2][2]>>
<1>1. (b[1] = "out" \/ b[1] = "in") /\ b[2] \in Administered
    BY DEF Directions
<1>2. b[2] \in Routes
    BY <1>1, Constants
<1>3. Routes \subseteq Chains \X Chains
    BY OftAssumption
<1>4. b[2] \in Chains \X Chains
    BY <1>2, <1>3
<1> QED BY <1>1, <1>4

LEMMA FlowFacts ==
    ASSUME WireOK, NEW r
    PROVE  SentOver(r) \in Nat /\ ArrivedFrom(r) \in Nat
<1>1. PICK s, a : s = {m \in posted : <<m.src, m.dst>> = r} /\ a = {m \in cleared : <<m.dst, m.src>> = r}
    OBVIOUS
<1>2. s \subseteq posted /\ a \subseteq posted /\ posted \subseteq Messages /\ IsFiniteSet(posted)
    BY <1>1 DEF WireOK
<1>3. IsFiniteSet(s) /\ IsFiniteSet(a) /\ s \subseteq Messages /\ a \subseteq Messages
    BY <1>2, FS_Subset
<1> QED BY <1>1, <1>3, CarriedFacts DEF SentOver, ArrivedFrom

\* What was sent over a route grows with a message of that route only.
LEMMA FlowPost ==
    ASSUME WireOK, NEW m \in Messages, m \notin posted, posted' = posted \cup {m}, cleared' = cleared,
           NEW r
    PROVE  /\ ArrivedFrom(r)' = ArrivedFrom(r)
           /\ <<m.src, m.dst>> = r => SentOver(r)' = SentOver(r) + Sd2Ld(m.sd)
           /\ <<m.src, m.dst>> # r => SentOver(r)' = SentOver(r)
<1>1. ArrivedFrom(r)' = ArrivedFrom(r)
    BY DEF ArrivedFrom, Carried
<1>2. PICK s : s = {x \in posted : <<x.src, x.dst>> = r}
    OBVIOUS
<1>3. s \subseteq posted /\ posted \subseteq Messages /\ IsFiniteSet(posted)
    BY <1>2 DEF WireOK
<1>4. IsFiniteSet(s) /\ s \subseteq Messages /\ m \notin s
    BY <1>3, FS_Subset
<1>5. CASE <<m.src, m.dst>> = r
  <2>1. {x \in posted' : <<x.src, x.dst>> = r} = s \cup {m}
      BY <1>2, <1>5
  <2>2. Carried(s \cup {m}) = Carried(s) + Sd2Ld(m.sd)
      BY <1>4, CarriedJoin
  <2>3. SentOver(r)' = Carried(s \cup {m}) /\ SentOver(r) = Carried(s)
      BY <1>2, <2>1 DEF SentOver, Carried
  <2> QED BY <1>1, <1>5, <2>2, <2>3
<1>6. CASE <<m.src, m.dst>> # r
  <2>1. {x \in posted' : <<x.src, x.dst>> = r} = s
      BY <1>2, <1>6
  <2>2. SentOver(r)' = Carried(s) /\ SentOver(r) = Carried(s)
      BY <1>2, <2>1 DEF SentOver, Carried
  <2> QED BY <1>1, <1>6, <2>2
<1> QED BY <1>5, <1>6

\* What arrived over a route grows with a message of that route only.
LEMMA FlowClear ==
    ASSUME WireOK, NEW m \in posted, m \notin cleared, posted' = posted, cleared' = cleared \cup {m},
           NEW r
    PROVE  /\ SentOver(r)' = SentOver(r)
           /\ <<m.dst, m.src>> = r => ArrivedFrom(r)' = ArrivedFrom(r) + Sd2Ld(m.sd)
           /\ <<m.dst, m.src>> # r => ArrivedFrom(r)' = ArrivedFrom(r)
<1>1. SentOver(r)' = SentOver(r)
    BY DEF SentOver, Carried
<1>2. PICK s : s = {x \in cleared : <<x.dst, x.src>> = r}
    OBVIOUS
<1>3. s \subseteq posted /\ posted \subseteq Messages /\ IsFiniteSet(posted)
    BY <1>2 DEF WireOK
<1>4. IsFiniteSet(s) /\ s \subseteq Messages /\ m \notin s /\ m \in Messages
    BY <1>2, <1>3, FS_Subset
<1>5. CASE <<m.dst, m.src>> = r
  <2>1. {x \in cleared' : <<x.dst, x.src>> = r} = s \cup {m}
      BY <1>2, <1>5
  <2>2. Carried(s \cup {m}) = Carried(s) + Sd2Ld(m.sd)
      BY <1>4, CarriedJoin
  <2>3. ArrivedFrom(r)' = Carried(s \cup {m}) /\ ArrivedFrom(r) = Carried(s)
      BY <1>2, <2>1 DEF ArrivedFrom, Carried
  <2> QED BY <1>1, <1>5, <2>2, <2>3
<1>6. CASE <<m.dst, m.src>> # r
  <2>1. {x \in cleared' : <<x.dst, x.src>> = r} = s
      BY <1>2, <1>6
  <2>2. ArrivedFrom(r)' = Carried(s) /\ ArrivedFrom(r) = Carried(s)
      BY <1>2, <2>1 DEF ArrivedFrom, Carried
  <2> QED BY <1>1, <1>6, <2>2
<1> QED BY <1>5, <1>6

\* The limiter of a direction is one of its peer, and its level a natural number.
LEMMA BucketFacts ==
    ASSUME OftInv, NEW b \in Directions
    PROVE  /\ b[1] = "out" => LimiterOf(b) = peer[b[2][1]][b[2][2]].outbound
           /\ b[1] # "out" => LimiterOf(b) = peer[b[2][1]][b[2][2]].inbound
           /\ b[1] = "out" => LimiterOf(b)' = peer'[b[2][1]][b[2][2]].outbound
           /\ b[1] # "out" => LimiterOf(b)' = peer'[b[2][1]][b[2][2]].inbound
           /\ Good(LimiterOf(b)) /\ BLevel(b) \in Nat
           /\ BLimit(b).on = LimiterOf(b).on /\ BLimit(b).capacity = LimiterOf(b).capacity
           /\ BLimit(b).rate = LimiterOf(b).rate
           /\ BPassed(b) \in Nat /\ BReturned(b) \in Nat
<1>1. /\ b[1] = "out" => LimiterOf(b) = peer[b[2][1]][b[2][2]].outbound
      /\ b[1] # "out" => LimiterOf(b) = peer[b[2][1]][b[2][2]].inbound
      /\ b[1] = "out" => LimiterOf(b)' = peer'[b[2][1]][b[2][2]].outbound
      /\ b[1] # "out" => LimiterOf(b)' = peer'[b[2][1]][b[2][2]].inbound
    BY DEF LimiterOf
<1>2. Good(LimiterOf(b))
    BY <1>1, DirectionFacts DEF OftInv, PeersOK
<1>3. BLevel(b) \in Nat
    BY <1>2, RefillFacts DEF BLevel
<1>4. /\ BLimit(b).on = LimiterOf(b).on /\ BLimit(b).capacity = LimiterOf(b).capacity
      /\ BLimit(b).rate = LimiterOf(b).rate
    BY DEF BLimit, LimitOf
<1>5. BPassed(b) \in Nat /\ BReturned(b) \in Nat
    BY FlowFacts DEF OftInv, BPassed, BReturned
<1> QED BY <1>1, <1>2, <1>3, <1>4, <1>5

\* A step that touches neither the limiter nor the flow of a direction passes nothing.
LEMMA IsStill ==
    ASSUME OftInv, NEW b \in Directions, clock' = clock, LimiterOf(b)' = LimiterOf(b),
           SentOver(b[2])' = SentOver(b[2]), ArrivedFrom(b[2])' = ArrivedFrom(b[2])
    PROVE  Buckets!Pass(b)
<1>1. BLimit(b)' = BLimit(b) /\ BLevel(b)' = BLevel(b)
    BY DEF BLimit, BLevel, LimitOf, Level, Refill
<1>2. BPassed(b)' = BPassed(b) /\ BReturned(b)' = BReturned(b)
    BY DEF BPassed, BReturned
<1>3. BLevel(b) \in Nat /\ BPassed(b) \in Nat
    BY BucketFacts
<1>4. PICK n \in Nat : n = 0
    OBVIOUS
<1>5. BPassed(b)' = BPassed(b) + n /\ BLevel(b)' = (IF BLimit(b).on THEN BLevel(b) - n ELSE BLevel(b))
      /\ BLevel(b)' \in Nat
    BY <1>1, <1>2, <1>3, <1>4
<1> QED BY <1>1, <1>2, <1>3, <1>5, IsPass

LEMMA RouteLimiter ==
    ASSUME OftInv, NEW b \in Directions, NEW c, NEW d, b[2][1] = c, b[2][2] = d
    PROVE  /\ Good(LimiterOf(b))
           /\ b[1] = "out" => /\ LimiterOf(b) = peer[c][d].outbound
                              /\ LimiterOf(b)' = peer'[c][d].outbound
           /\ b[1] # "out" => /\ LimiterOf(b) = peer[c][d].inbound
                              /\ LimiterOf(b)' = peer'[c][d].inbound
<1>1. Good(LimiterOf(b))
    BY BucketFacts
<1> QED BY <1>1 DEF LimiterOf

LEMMA SendBuckets ==
    ASSUME OftInv, NEW c \in Chains, NEW d \in Chains, NEW n \in Amounts[c], Send(c, d, n),
           NEW b \in Directions
    PROVE  Buckets!Pass(b) \/ Buckets!Return(b)
<1>1. PICK a : a = Adjusted(c, n, peer[c][d].fee)
    OBVIOUS
<1>2. PICK m : m = Message(c, d, a)
    OBVIOUS
<1>3. PICK v \in Nat : v = a.received
    BY <1>1, <1>2, SendFacts
<1>4. /\ m \in Messages /\ m.src = c /\ m.dst = d /\ m.nonce = Cardinality(posted)
      /\ Sd2Ld(m.sd) = v /\ Post(m) /\ clock' = clock
    BY <1>1, <1>2, <1>3, SendFacts
<1>5. /\ CanConsume(peer[c][d].outbound, v)
      /\ Limited(c, d, Taken(peer[c][d].outbound, v), Returned(peer[c][d].inbound, v))
    BY <1>1, <1>2, <1>3, SendFacts
<1>6. PICK r : r = b[2]
    OBVIOUS
<1>7. /\ ArrivedFrom(r)' = ArrivedFrom(r)
      /\ <<c, d>> = r => SentOver(r)' = SentOver(r) + v
      /\ <<c, d>> # r => SentOver(r)' = SentOver(r)
  <2>1. WireOK /\ m \notin posted /\ posted' = posted \cup {m} /\ cleared' = cleared
      BY <1>4, PostFacts DEF OftInv
  <2> QED BY <1>4, <2>1, FlowPost
<1>8. (b[1] = "out" \/ b[1] = "in") /\ r[1] \in Chains /\ r[2] \in Chains /\ r = <<r[1], r[2]>>
    BY <1>6, DirectionFacts
<1>9. CASE r # <<c, d>>
  <2>1. r[1] # c \/ r[2] # d
      BY <1>8, <1>9
  <2>2. peer'[r[1]][r[2]] = peer[r[1]][r[2]]
      BY <1>5, <1>8, <2>1 DEF Limited
  <2>3. LimiterOf(b)' = LimiterOf(b)
      BY <1>6, <2>2, BucketFacts
  <2> QED BY <1>4, <1>6, <1>7, <1>9, <2>3, IsStill
<1>10. CASE r = <<c, d>> /\ b[1] = "out"
  <2>1. PICK l : l = LimiterOf(b) /\ Good(l) /\ l = peer[c][d].outbound
    <3>1. b[2][1] = c /\ b[2][2] = d
        BY <1>6, <1>10
    <3> QED BY <1>10, <3>1, RouteLimiter
  <2>2. LimiterOf(b)' = Taken(l, v)
    <3>1. LimiterOf(b)' = peer'[c][d].outbound
      <4>1. b[2][1] = c /\ b[2][2] = d
          BY <1>6, <1>10
      <4> QED BY <1>10, <4>1, RouteLimiter
    <3> QED BY <1>5, <2>1, <3>1 DEF Limited
  <2>3. /\ LimitOf(Taken(l, v)) = LimitOf(l)
        /\ Level(l) \in Nat /\ Level(Taken(l, v)) \in Nat
        /\ l.on => Level(Taken(l, v)) = Level(l) - v
        /\ ~l.on => Level(Taken(l, v)) = Level(l)
      BY <1>5, <2>1, TakenFacts
  <2>4. BLimit(b)' = LimitOf(Taken(l, v)) /\ BLevel(b)' = Level(Taken(l, v))
        /\ BLimit(b) = LimitOf(l) /\ BLevel(b) = Level(l)
      BY <2>1, <2>2 DEF BLimit, BLevel, LimitOf, Level, Refill
  <2>5. BLimit(b).on = l.on /\ BPassed(b) \in Nat
      BY <2>1, BucketFacts
  <2>6. BPassed(b)' = BPassed(b) + v /\ BReturned(b)' = BReturned(b)
      BY <1>6, <1>7, <1>10 DEF BPassed, BReturned
  <2>7. BLevel(b)' = (IF BLimit(b).on THEN BLevel(b) - v ELSE BLevel(b)) /\ BLevel(b)' \in Nat
      BY <2>3, <2>4, <2>5
  <2>8. BLimit(b)' = BLimit(b)
      BY <2>3, <2>4
  <2> QED BY <1>4, <2>5, <2>6, <2>7, <2>8, IsPass
<1>11. CASE r = <<c, d>> /\ b[1] # "out"
  <2>1. PICK l : l = LimiterOf(b) /\ Good(l) /\ l = peer[c][d].inbound
    <3>1. b[2][1] = c /\ b[2][2] = d
        BY <1>6, <1>11
    <3> QED BY <1>11, <3>1, RouteLimiter
  <2>2. LimiterOf(b)' = Returned(l, v)
    <3>1. LimiterOf(b)' = peer'[c][d].inbound
      <4>1. b[2][1] = c /\ b[2][2] = d
          BY <1>6, <1>11
      <4> QED BY <1>11, <4>1, RouteLimiter
    <3> QED BY <1>5, <2>1, <3>1 DEF Limited
  <2>3. /\ LimitOf(Returned(l, v)) = LimitOf(l)
        /\ Level(Returned(l, v)) = Smaller(Level(l) + v, l.capacity)
      BY <2>1, ReturnedFacts
  <2>4. BLimit(b)' = LimitOf(Returned(l, v)) /\ BLevel(b)' = Level(Returned(l, v))
        /\ BLimit(b) = LimitOf(l) /\ BLevel(b) = Level(l)
      BY <2>1, <2>2 DEF BLimit, BLevel, LimitOf, Level, Refill
  <2>5. BLimit(b).capacity = l.capacity /\ BReturned(b) \in Nat
      BY <2>1, BucketFacts
  <2>6. BReturned(b)' = BReturned(b) + v /\ BPassed(b)' = BPassed(b)
      BY <1>6, <1>7, <1>11 DEF BPassed, BReturned
  <2>7. BLevel(b)' = Smaller(BLevel(b) + v, BLimit(b).capacity) /\ BLimit(b)' = BLimit(b)
      BY <2>3, <2>4, <2>5
  <2> QED BY <1>4, <2>5, <2>6, <2>7, IsReturn
<1> QED BY <1>9, <1>10, <1>11

LEMMA ReceiveBuckets ==
    ASSUME OftInv, NEW m \in Inflight, LzReceive(m), NEW b \in Directions
    PROVE  Buckets!Pass(b) \/ Buckets!Return(b)
<1>1. PICK c, d, v : c = m.dst /\ d = m.src /\ v = Sd2Ld(m.sd)
    OBVIOUS
<1>2. /\ c \in Chains /\ d \in Chains /\ v \in Nat
      /\ m \in posted /\ m \notin cleared /\ posted' = posted /\ cleared' = cleared \cup {m}
      /\ clock' = clock
    BY <1>1, ReceiveFacts
<1>3. /\ CanConsume(peer[c][d].inbound, v)
      /\ Limited(c, d, Returned(peer[c][d].outbound, v), Taken(peer[c][d].inbound, v))
    BY <1>1, ReceiveFacts
<1>4. PICK r : r = b[2]
    OBVIOUS
<1>5. /\ SentOver(r)' = SentOver(r)
      /\ <<c, d>> = r => ArrivedFrom(r)' = ArrivedFrom(r) + v
      /\ <<c, d>> # r => ArrivedFrom(r)' = ArrivedFrom(r)
    BY <1>1, <1>2, FlowClear DEF OftInv
<1>6. (b[1] = "out" \/ b[1] = "in") /\ r[1] \in Chains /\ r[2] \in Chains /\ r = <<r[1], r[2]>>
    BY <1>4, DirectionFacts
<1>7. CASE r # <<c, d>>
  <2>1. r[1] # c \/ r[2] # d
      BY <1>6, <1>7
  <2>2. peer'[r[1]][r[2]] = peer[r[1]][r[2]]
      BY <1>3, <1>6, <2>1 DEF Limited
  <2>3. LimiterOf(b)' = LimiterOf(b)
      BY <1>4, <2>2, BucketFacts
  <2> QED BY <1>2, <1>4, <1>5, <1>7, <2>3, IsStill
<1>8. CASE r = <<c, d>> /\ b[1] # "out"
  <2>1. PICK l : l = LimiterOf(b) /\ Good(l) /\ l = peer[c][d].inbound
    <3>1. b[2][1] = c /\ b[2][2] = d
        BY <1>4, <1>8
    <3> QED BY <1>8, <3>1, RouteLimiter
  <2>2. LimiterOf(b)' = Taken(l, v)
    <3>1. LimiterOf(b)' = peer'[c][d].inbound
      <4>1. b[2][1] = c /\ b[2][2] = d
          BY <1>4, <1>8
      <4> QED BY <1>8, <4>1, RouteLimiter
    <3> QED BY <1>3, <2>1, <3>1 DEF Limited
  <2>3. /\ LimitOf(Taken(l, v)) = LimitOf(l)
        /\ Level(l) \in Nat /\ Level(Taken(l, v)) \in Nat
        /\ l.on => Level(Taken(l, v)) = Level(l) - v
        /\ ~l.on => Level(Taken(l, v)) = Level(l)
      BY <1>2, <1>3, <2>1, TakenFacts
  <2>4. BLimit(b)' = LimitOf(Taken(l, v)) /\ BLevel(b)' = Level(Taken(l, v))
        /\ BLimit(b) = LimitOf(l) /\ BLevel(b) = Level(l)
      BY <2>1, <2>2 DEF BLimit, BLevel, LimitOf, Level, Refill
  <2>5. BLimit(b).on = l.on /\ BPassed(b) \in Nat
      BY <2>1, BucketFacts
  <2>6. BPassed(b)' = BPassed(b) + v /\ BReturned(b)' = BReturned(b)
      BY <1>4, <1>5, <1>8 DEF BPassed, BReturned
  <2>7. BLevel(b)' = (IF BLimit(b).on THEN BLevel(b) - v ELSE BLevel(b)) /\ BLevel(b)' \in Nat
      BY <2>3, <2>4, <2>5
  <2>8. BLimit(b)' = BLimit(b)
      BY <2>3, <2>4
  <2> QED BY <1>2, <2>5, <2>6, <2>7, <2>8, IsPass
<1>9. CASE r = <<c, d>> /\ b[1] = "out"
  <2>1. PICK l : l = LimiterOf(b) /\ Good(l) /\ l = peer[c][d].outbound
    <3>1. b[2][1] = c /\ b[2][2] = d
        BY <1>4, <1>9
    <3> QED BY <1>9, <3>1, RouteLimiter
  <2>2. LimiterOf(b)' = Returned(l, v)
    <3>1. LimiterOf(b)' = peer'[c][d].outbound
      <4>1. b[2][1] = c /\ b[2][2] = d
          BY <1>4, <1>9
      <4> QED BY <1>9, <4>1, RouteLimiter
    <3> QED BY <1>3, <2>1, <3>1 DEF Limited
  <2>3. /\ LimitOf(Returned(l, v)) = LimitOf(l)
        /\ Level(Returned(l, v)) = Smaller(Level(l) + v, l.capacity)
      BY <1>2, <2>1, ReturnedFacts
  <2>4. BLimit(b)' = LimitOf(Returned(l, v)) /\ BLevel(b)' = Level(Returned(l, v))
        /\ BLimit(b) = LimitOf(l) /\ BLevel(b) = Level(l)
      BY <2>1, <2>2 DEF BLimit, BLevel, LimitOf, Level, Refill
  <2>5. BLimit(b).capacity = l.capacity /\ BReturned(b) \in Nat
      BY <2>1, BucketFacts
  <2>6. BReturned(b)' = BReturned(b) + v /\ BPassed(b)' = BPassed(b)
      BY <1>4, <1>5, <1>9 DEF BPassed, BReturned
  <2>7. BLevel(b)' = Smaller(BLevel(b) + v, BLimit(b).capacity) /\ BLimit(b)' = BLimit(b)
      BY <2>3, <2>4, <2>5
  <2> QED BY <1>2, <2>5, <2>6, <2>7, IsReturn
<1> QED BY <1>7, <1>8, <1>9

LEMMA FlowSame ==
    ASSUME posted' = posted, cleared' = cleared, NEW b
    PROVE  /\ SentOver(b[2])' = SentOver(b[2]) /\ ArrivedFrom(b[2])' = ArrivedFrom(b[2])
           /\ BPassed(b)' = BPassed(b) /\ BReturned(b)' = BReturned(b)
<1>1. SentOver(b[2])' = SentOver(b[2]) /\ ArrivedFrom(b[2])' = ArrivedFrom(b[2])
    BY DEF SentOver, ArrivedFrom, Carried
<1> QED BY <1>1 DEF BPassed, BReturned

\* Steps that write no limiter and post or execute no message.
LEMMA StillBuckets ==
    ASSUME OftInv, Unlimited, clock' = clock, posted' = posted, cleared' = cleared,
           NEW b \in Directions
    PROVE  Buckets!Pass(b)
<1>1. b[2][1] \in Chains /\ b[2][2] \in Chains
    BY DirectionFacts
<1>2. LimiterOf(b)' = LimiterOf(b)
    BY <1>1, BucketFacts DEF Unlimited
<1> QED BY <1>2, FlowSame, IsStill

\* An admin replaces the limiter of one direction.
LEMMA ReplaceBucket ==
    ASSUME OftInv, NEW b \in Directions, clock' = clock, posted' = posted, cleared' = cleared,
           NEW k \in NextLimiters(LimiterOf(b)), LimiterOf(b)' = k
    PROVE  Buckets!Replace(b)
<1>1. PICK l : l = LimiterOf(b) /\ Good(l)
    BY BucketFacts
<1>2. /\ Good(k)
      /\ \/ Level(k) = k.capacity
         \/ Level(k) = Level(l) /\ LimitOf(k) = [LimitOf(l) EXCEPT !.on = TRUE, !.rate = k.rate]
    BY <1>1, UpdatedFacts
<1>3. BLimit(b)' = LimitOf(k) /\ BLevel(b)' = Level(k) /\ BLimit(b) = LimitOf(l) /\ BLevel(b) = Level(l)
    BY <1>1 DEF BLimit, BLevel, LimitOf, Level, Refill
<1>4. LimitOf(k) \in Limits /\ LimitOf(k).capacity = k.capacity /\ LimitOf(k).rate = k.rate
  <2>1. k \in Limiters
      BY <1>2 DEF Good
  <2> QED BY <2>1 DEF LimitOf, Limits, Limiters
<1>5. BPassed(b)' = BPassed(b) /\ BReturned(b)' = BReturned(b)
    BY FlowSame
<1>6. CASE Level(k) = k.capacity
  <2>1. BLevel(b)' = BLimit(b)'.capacity /\ BLimit(b)' \in Limits
      BY <1>3, <1>4, <1>6
  <2> QED BY <1>5, <2>1, IsReplace
<1>7. CASE Level(k) = Level(l) /\ LimitOf(k) = [LimitOf(l) EXCEPT !.on = TRUE, !.rate = k.rate]
  <2>1. BLevel(b)' = BLevel(b) /\ BLimit(b)' \in Limits
      BY <1>3, <1>4, <1>7
  <2>2. BLimit(b)' = [BLimit(b) EXCEPT !.on = TRUE, !.rate = k.rate] /\ k.rate = BLimit(b)'.rate
      BY <1>3, <1>4, <1>7
  <2>3. BLimit(b)' = [BLimit(b) EXCEPT !.on = TRUE, !.rate = BLimit(b)'.rate]
      BY <2>2
  <2> QED BY <1>5, <2>1, <2>3, IsReplace
<1> QED BY <1>2, <1>6, <1>7

\* A limiter that an admin sets is a bucket replaced; the other ones stay as they are.
LEMMA SetLimitBuckets ==
    ASSUME OftInv, NEW c \in Chains, NEW d \in Chains, NEW b \in Directions
    PROVE  /\ \A l \in NextLimiters(peer[c][d].outbound) : SetOutboundLimit(c, d, l)
                => Buckets!Pass(b) \/ (Buckets!Replace(b) /\ LimitSet(b))
           /\ \A l \in NextLimiters(peer[c][d].inbound) : SetInboundLimit(c, d, l)
                => Buckets!Pass(b) \/ (Buckets!Replace(b) /\ LimitSet(b))
<1>1. (b[1] = "out" \/ b[1] = "in") /\ b[2][1] \in Chains /\ b[2][2] \in Chains
    BY DirectionFacts
<1>2. ASSUME NEW o, NEW i, Limited(c, d, o, i), clock' = clock, posted' = posted, cleared' = cleared,
             b[2][1] # c \/ b[2][2] # d
      PROVE  Buckets!Pass(b)
  <2>1. peer'[b[2][1]][b[2][2]] = peer[b[2][1]][b[2][2]]
      BY <1>1, <1>2 DEF Limited
  <2>2. LimiterOf(b)' = LimiterOf(b)
      BY <2>1, BucketFacts
  <2> QED BY <1>2, <2>2, FlowSame, IsStill
<1>3. ASSUME NEW l \in NextLimiters(peer[c][d].outbound), SetOutboundLimit(c, d, l)
      PROVE  Buckets!Pass(b) \/ (Buckets!Replace(b) /\ LimitSet(b))
  <2>1. Limited(c, d, l, peer[c][d].inbound)
      BY <1>3, SetLimitFacts
  <2>2. clock' = clock /\ posted' = posted /\ cleared' = cleared
      BY <1>3 DEF SetOutboundLimit, wireVars
  <2>3. CASE b[2][1] # c \/ b[2][2] # d
      BY <1>2, <2>1, <2>2, <2>3
  <2>4. CASE b[2][1] = c /\ b[2][2] = d /\ b[1] = "out"
    <3>1. LimiterOf(b) = peer[c][d].outbound /\ LimiterOf(b)' = l
        BY <2>1, <2>4, RouteLimiter DEF Limited
    <3>2. LimitSet(b)
        BY <1>3, <2>4, <3>1 DEF LimitSet
    <3> QED BY <2>2, <3>1, <3>2, ReplaceBucket
  <2>5. CASE b[2][1] = c /\ b[2][2] = d /\ b[1] # "out"
    <3>1. LimiterOf(b)' = LimiterOf(b)
        BY <2>1, <2>5, RouteLimiter DEF Limited
    <3> QED BY <2>2, <3>1, FlowSame, IsStill
  <2> QED BY <2>3, <2>4, <2>5
<1>4. ASSUME NEW l \in NextLimiters(peer[c][d].inbound), SetInboundLimit(c, d, l)
      PROVE  Buckets!Pass(b) \/ (Buckets!Replace(b) /\ LimitSet(b))
  <2>1. Limited(c, d, peer[c][d].outbound, l)
      BY <1>4, SetLimitFacts
  <2>2. clock' = clock /\ posted' = posted /\ cleared' = cleared
      BY <1>4 DEF SetInboundLimit, wireVars
  <2>3. CASE b[2][1] # c \/ b[2][2] # d
      BY <1>2, <2>1, <2>2, <2>3
  <2>4. CASE b[2][1] = c /\ b[2][2] = d /\ b[1] # "out"
    <3>1. LimiterOf(b) = peer[c][d].inbound /\ LimiterOf(b)' = l
        BY <2>1, <2>4, RouteLimiter DEF Limited
    <3>2. LimitSet(b)
        BY <1>1, <1>4, <2>4, <3>1 DEF LimitSet
    <3> QED BY <2>2, <3>1, <3>2, ReplaceBucket
  <2>5. CASE b[2][1] = c /\ b[2][2] = d /\ b[1] = "out"
    <3>1. LimiterOf(b)' = LimiterOf(b)
        BY <2>1, <2>5, RouteLimiter DEF Limited
    <3> QED BY <2>2, <3>1, FlowSame, IsStill
  <2> QED BY <2>3, <2>4, <2>5
<1> QED BY <1>3, <1>4

LEMMA TickBuckets ==
    ASSUME OftInv, Tick, NEW b \in Directions
    PROVE  Buckets!Drip(b)
<1>1. PICK l : l = LimiterOf(b) /\ Good(l)
    BY BucketFacts
<1>2. clock' # clock /\ posted' = posted /\ cleared' = cleared
    BY TickFacts DEF Tick, wireVars
<1>3. LimiterOf(b)' = Aged(l)
  <2>1. b[2][1] \in Chains /\ b[2][2] \in Chains
      BY DirectionFacts
  <2> QED BY <1>1, <2>1, TickFacts, BucketFacts
<1>4. LimitOf(Aged(l)) = LimitOf(l) /\ Level(Aged(l)) = Smaller(Level(l) + l.rate, l.capacity)
    BY <1>1, AgedFacts
<1>5. /\ BLimit(b)' = LimitOf(Aged(l)) /\ BLevel(b)' = Level(Aged(l))
      /\ BLimit(b) = LimitOf(l) /\ BLevel(b) = Level(l)
    BY <1>1, <1>3 DEF BLimit, BLevel, LimitOf, Level, Refill
<1>6. BLimit(b).rate = l.rate /\ BLimit(b).capacity = l.capacity
    BY <1>1, BucketFacts
<1>7. BLimit(b)' = BLimit(b) /\ BLevel(b)' = Smaller(BLevel(b) + BLimit(b).rate, BLimit(b).capacity)
    BY <1>4, <1>5, <1>6
<1> QED BY <1>2, <1>7, FlowSame, IsDrip

LEMMA BucketsInit == Init => Buckets!Init
<1> SUFFICES ASSUME Init PROVE Buckets!Init
    OBVIOUS
<1>1. ASSUME NEW b \in Directions
      PROVE  /\ LimitOf(LimiterOf(b)) = [on |-> FALSE, capacity |-> 0, rate |-> 0]
             /\ Level(LimiterOf(b)) = 0
             /\ SentOver(b[2]) = 0 /\ ArrivedFrom(b[2]) = 0
  <2>1. peer[b[2][1]][b[2][2]] = NewPeer(b[2][1], b[2][2])
      BY DirectionFacts DEF Init
  <2>2. LimiterOf(b) = NoLimiter
      BY <2>1 DEF LimiterOf, NewPeer
  <2>3. LimitOf(LimiterOf(b)) = [on |-> FALSE, capacity |-> 0, rate |-> 0]
      BY <2>2 DEF LimitOf, NoLimiter
  <2>4. Level(LimiterOf(b)) = 0
      BY <2>2, BlankFacts
  <2>5. SentOver(b[2]) = 0 /\ ArrivedFrom(b[2]) = 0
    <3>1. posted = {} /\ cleared = {}
        BY DEF Init
    <3>2. Carried({}) = 0
        BY TotalEmpty DEF Carried
    <3>3. {m \in posted : <<m.src, m.dst>> = b[2]} = {} /\ {m \in cleared : <<m.dst, m.src>> = b[2]} = {}
        BY <3>1
    <3> QED BY <3>2, <3>3 DEF SentOver, ArrivedFrom
  <2> QED BY <2>3, <2>4, <2>5
<1>2. [b \in Directions |-> LimitOf(LimiterOf(b))]
        = [b \in Directions |-> [on |-> FALSE, capacity |-> 0, rate |-> 0]]
    BY <1>1
<1>3. [b \in Directions |-> Level(LimiterOf(b))] = [b \in Directions |-> 0]
    BY <1>1
<1>4. [b \in Directions |-> IF b[1] = "out" THEN SentOver(b[2]) ELSE ArrivedFrom(b[2])]
        = [b \in Directions |-> 0]
    BY <1>1
<1>5. [b \in Directions |-> IF b[1] = "out" THEN ArrivedFrom(b[2]) ELSE SentOver(b[2])]
        = [b \in Directions |-> 0]
    BY <1>1
<1> QED BY <1>2, <1>3, <1>4, <1>5 DEF Buckets!Init

LEMMA BucketsStep ==
    ASSUME OftInv, Next, NEW b \in Directions
    PROVE  \/ Buckets!Drip(b) \/ Buckets!Pass(b) \/ Buckets!Return(b)
           \/ Buckets!Replace(b) /\ LimitSet(b)
<1>1. \A r \in Routes \cup Wirings \cup Administered \cup Charged : r[1] \in Chains /\ r[2] \in Chains
    BY Constants
<1>2. CASE \E r \in Routes : \E n \in Amounts[r[1]] : Send(r[1], r[2], n)
    BY <1>1, <1>2, SendBuckets
<1>3. CASE \E m \in Inflight : LzReceive(m)
    BY <1>3, ReceiveBuckets
<1>4. CASE \E w \in Wirings : SetPeerAddress(w[1], w[2], ~peer[w[1]][w[2]].wired)
  <2>1. PICK w \in Wirings : SetPeerAddress(w[1], w[2], ~peer[w[1]][w[2]].wired)
      BY <1>4
  <2>2. Unlimited
      BY <1>1, <2>1, SetPeerAddressFacts
  <2>3. clock' = clock /\ posted' = posted /\ cleared' = cleared
      BY <2>1 DEF SetPeerAddress, wireVars
  <2> QED BY <2>2, <2>3, StillBuckets
<1>5. CASE \E r \in Charged, bps \in Fees : SetPeerFee(r[1], r[2], bps)
  <2>1. PICK r \in Charged, bps \in Fees : SetPeerFee(r[1], r[2], bps)
      BY <1>5
  <2>2. Unlimited
      BY <1>1, <2>1, SetPeerFeeFacts
  <2>3. clock' = clock /\ posted' = posted /\ cleared' = cleared
      BY <2>1 DEF SetPeerFee, wireVars
  <2> QED BY <2>2, <2>3, StillBuckets
<1>6. CASE \E r \in Administered :
             \E l \in NextLimiters(peer[r[1]][r[2]].outbound) : SetOutboundLimit(r[1], r[2], l)
    BY <1>1, <1>6, SetLimitBuckets
<1>7. CASE \E r \in Administered :
             \E l \in NextLimiters(peer[r[1]][r[2]].inbound) : SetInboundLimit(r[1], r[2], l)
    BY <1>1, <1>7, SetLimitBuckets
<1>8. CASE peer' = peer /\ clock' = clock /\ posted' = posted /\ cleared' = cleared
  <2>1. Unlimited
      BY <1>8 DEF Unlimited
  <2> QED BY <1>8, <2>1, StillBuckets
<1>9. CASE \/ \E c \in Pausable : SetPause(c, ~paused[c])
           \/ \E c \in Chains, n \in SideAmounts : WithdrawFee(c, n)
           \/ \E c \in Chains, n \in SideAmounts : Donate(c, n)
           \/ \E c \in Spokes, n \in SideAmounts : BurnGrs(c, n)
  <2>1. peer' = peer /\ clock' = clock /\ posted' = posted /\ cleared' = cleared
      BY <1>9 DEF SetPause, WithdrawFee, Donate, BurnGrs, wireVars
  <2> QED BY <1>8, <2>1
<1>10. CASE Tick
    BY <1>10, TickBuckets
<1> QED BY <1>2, <1>3, <1>4, <1>5, <1>6, <1>7, <1>9, <1>10 DEF Next

\* RateLimiter stores the level of an earlier moment and works out the rest when somebody
\* calls; for any limits, routes and times no direction can be told from a bucket into which
\* tokens drip by the second (try_consume, refill, set_capacity, set_rate in peer_config.rs).
THEOREM LimitersAreBuckets == Spec => RateLimited
<1>1. OftInv /\ [Next]_vars => [Buckets!Next]_(Buckets!bucketVars)
  <2> SUFFICES ASSUME OftInv, [Next]_vars
               PROVE  Buckets!Next \/ UNCHANGED Buckets!bucketVars
      OBVIOUS
  <2>1. CASE Next
      BY <2>1, BucketsStep DEF Buckets!Next
  <2>2. CASE UNCHANGED vars
    <3>1. UNCHANGED <<clock, peer, posted, cleared>>
        BY <2>2 DEF vars, wireVars
    <3> QED BY <3>1 DEF Buckets!bucketVars, LimiterOf, LimitOf, Level, Refill, SentOver,
                        ArrivedFrom, Carried
  <2> QED BY <2>1, <2>2
<1> QED BY <1>1, BucketsInit, OftInvHolds, PTL DEF Spec, RateLimited, Buckets!Spec

-------------------------------------------------------------------------------
(* What passes in a period. *)

\* The level of a bucket is what a period has not used up yet of its allowance.
Allowance(b) ==
    BLimit(b).capacity + BLimit(b).rate * window[b].seconds + (BReturned(b) - window[b].returned)

WindowsOK ==
    window \in [Directions -> [seconds : Nat, passed : Nat, returned : Nat]]

WithinAllowance ==
    \A b \in Directions :
      BLimit(b).on => BLevel(b) + (BPassed(b) - window[b].passed) <= Allowance(b)

\* OftInv and what the observer has seen.
WindowInv == OftInv /\ WindowsOK /\ WithinAllowance

Spendable(b) ==
    /\ BLevel(b) \in Nat /\ BLimit(b).capacity \in Nat /\ BLimit(b).rate \in Nat
    /\ BLevel(b) <= BLimit(b).capacity
    /\ BPassed(b) \in Nat /\ BReturned(b) \in Nat

AllSpendable == \A b \in Directions : Spendable(b)

\* No bucket holds more than its capacity.
LEMMA LevelsBelowCapacity == OftInv => AllSpendable
<1> SUFFICES ASSUME OftInv, NEW b \in Directions PROVE Spendable(b)
    BY DEF AllSpendable
<1>1. PICK l : l = LimiterOf(b) /\ Good(l)
    BY BucketFacts
<1>2. l.capacity \in Nat /\ l.rate \in Nat
    BY <1>1 DEF Good, Limiters
<1>3. Level(l) \in Nat /\ Level(l) <= l.capacity
    BY <1>1, RefillFacts, Constants
<1>4. BLevel(b) = Level(l) /\ BLimit(b).capacity = l.capacity /\ BLimit(b).rate = l.rate
    BY <1>1, BucketFacts DEF BLevel
<1>5. BPassed(b) \in Nat /\ BReturned(b) \in Nat
    BY BucketFacts
<1> QED BY <1>2, <1>3, <1>4, <1>5 DEF Spendable

LEMMA LevelsStayBelowCapacity == OftInv' => AllSpendable'
BY LevelsBelowCapacity, PTL

\* What a bucket holds is covered by a period that has just begun.
LEMMA FreshAllowance ==
    ASSUME NEW n \in Nat, NEW cap \in Nat, NEW rate \in Nat, NEW p \in Nat, NEW r \in Nat,
           n <= cap
    PROVE  n + (p - p) <= cap + rate * 0 + (r - r)
OBVIOUS

\* A second more is worth one more drip.
LEMMA OneMoreDrip ==
    ASSUME NEW r \in Nat, NEW s \in Nat
    PROVE  r * (s + 1) = r * s + r /\ r * s \in Nat
OBVIOUS

LEMMA PeriodGoesOn ==
    ASSUME AllSpendable, AllSpendable', WindowsOK, WithinAllowance, NEW b \in Directions,
           Buckets!Drip(b) \/ Buckets!Pass(b) \/ Buckets!Return(b),
           window'[b] = Longer(window[b]), BLimit(b)'.on
    PROVE  BLevel(b)' + (BPassed(b)' - window'[b].passed) <= Allowance(b)'
<1> DEFINE w == window[b]
<1>1. w \in [seconds : Nat, passed : Nat, returned : Nat]
    BY DEF WindowsOK
<1>2. /\ window'[b].passed = w.passed /\ window'[b].returned = w.returned
      /\ window'[b].seconds = IF clock' # clock THEN w.seconds + 1 ELSE w.seconds
    BY <1>1 DEF Longer
<1>3. PICK n0 \in Nat, cap \in Nat, rate \in Nat, p \in Nat, r \in Nat :
        /\ n0 = BLevel(b) /\ cap = BLimit(b).capacity /\ rate = BLimit(b).rate
        /\ p = BPassed(b) /\ r = BReturned(b)
    BY DEF AllSpendable, Spendable
<1>4. PICK s \in Nat, wp \in Nat, wr \in Nat :
        s = w.seconds /\ wp = w.passed /\ wr = w.returned
    BY <1>1
<1>5. rate * (s + 1) = rate * s + rate /\ rate * s \in Nat
    BY OneMoreDrip
<1>6. BLimit(b)' = BLimit(b)
    BY DEF Buckets!Drip, Buckets!Pass, Buckets!Return, BLimit
<1>7. BLimit(b).on /\ n0 + (p - wp) <= cap + rate * s + (r - wr)
    BY <1>3, <1>4, <1>6 DEF WithinAllowance, Allowance
<1> DEFINE pp == BPassed(b)'
           rr == BReturned(b)'
<1>8. pp \in Nat /\ rr \in Nat
    BY DEF AllSpendable, Spendable
<1>9. CASE Buckets!Drip(b)
  <2>1. /\ clock' # clock /\ BPassed(b)' = p /\ BReturned(b)' = r
        /\ BLevel(b)' = Smaller(n0 + rate, cap)
      BY <1>3, <1>9 DEF Buckets!Drip, Buckets!AtMost, BLevel, BLimit, BPassed, BReturned, Smaller
  <2>2. BLevel(b)' \in Int /\ BLevel(b)' <= n0 + rate
      BY <2>1 DEF Smaller
  <2>3. Allowance(b)' = cap + rate * (s + 1) + (r - wr)
      BY <1>2, <1>3, <1>4, <1>6, <2>1 DEF Allowance
  <2> QED BY <1>2, <1>4, <1>5, <1>7, <2>1, <2>2, <2>3
<1>10. CASE Buckets!Pass(b)
  <2>1. /\ clock' = clock /\ BReturned(b)' = r
        /\ BLevel(b)' = n0 - (pp - p)
      BY <1>3, <1>7, <1>10 DEF Buckets!Pass, BLevel, BLimit, BPassed, BReturned
  <2>2. Allowance(b)' = cap + rate * s + (r - wr)
      BY <1>2, <1>3, <1>4, <1>6, <2>1 DEF Allowance
  <2> QED BY <1>2, <1>4, <1>5, <1>7, <1>8, <2>1, <2>2
<1>11. CASE Buckets!Return(b)
  <2>1. /\ clock' = clock /\ BPassed(b)' = p
        /\ BLevel(b)' = Smaller(n0 + (rr - r), cap)
      BY <1>3, <1>11 DEF Buckets!Return, Buckets!AtMost, BLevel, BLimit, BPassed, BReturned, Smaller
  <2>2. Allowance(b)' = cap + rate * s + (rr - wr)
      BY <1>2, <1>3, <1>4, <1>6, <2>1 DEF Allowance
  <2> QED BY <1>2, <1>4, <1>5, <1>7, <1>8, <2>1, <2>2 DEF Smaller
<1> QED BY <1>9, <1>10, <1>11

LEMMA WindowStep ==
    ASSUME WindowInv, AllSpendable, AllSpendable', Next, Observe
    PROVE  WindowsOK' /\ WithinAllowance'
<1>1. PICK B \in SUBSET Directions :
        /\ \A b \in Directions : LimitSet(b) => b \in B
        /\ window' = [b \in Directions |-> IF b \in B THEN Opened(b)' ELSE Longer(window[b])]
    BY DEF Observe
<1>2. ASSUME NEW b \in Directions, b \in B
      PROVE  /\ window'[b] \in [seconds : Nat, passed : Nat, returned : Nat]
             /\ BLevel(b)' + (BPassed(b)' - window'[b].passed) <= Allowance(b)'
  <2>1. window'[b] = Opened(b)'
      BY <1>1, <1>2
  <2> DEFINE p == BPassed(b)'
             r == BReturned(b)'
             n == BLevel(b)'
             cap == (BLimit(b).capacity)'
             rate == (BLimit(b).rate)'
  <2>2. n \in Nat /\ cap \in Nat /\ rate \in Nat /\ n <= cap /\ p \in Nat /\ r \in Nat
      BY DEF AllSpendable, Spendable
  <2>3. window'[b] = [seconds |-> 0, passed |-> p, returned |-> r]
      BY <2>1 DEF Opened
  <2>4. window'[b].seconds = 0 /\ window'[b].passed = p /\ window'[b].returned = r
      BY <2>3
  <2>5. window'[b] \in [seconds : Nat, passed : Nat, returned : Nat]
      BY <2>2, <2>3
  <2>6. n + (p - p) <= cap + rate * 0 + (r - r)
      BY <2>2, FreshAllowance
  <2>7. Allowance(b)' = cap + rate * 0 + (r - r)
      BY <2>4 DEF Allowance
  <2> QED BY <2>4, <2>5, <2>6, <2>7
<1>3. ASSUME NEW b \in Directions, b \notin B
      PROVE  /\ window'[b] \in [seconds : Nat, passed : Nat, returned : Nat]
             /\ BLimit(b)'.on =>
                  BLevel(b)' + (BPassed(b)' - window'[b].passed) <= Allowance(b)'
  <2>1. window'[b] = Longer(window[b]) /\ ~LimitSet(b)
      BY <1>1, <1>3
  <2>2. window[b] \in [seconds : Nat, passed : Nat, returned : Nat]
      BY DEF WindowInv, WindowsOK
  <2>3. Longer(window[b]) \in [seconds : Nat, passed : Nat, returned : Nat]
      BY <2>2 DEF Longer
  <2>4. Buckets!Drip(b) \/ Buckets!Pass(b) \/ Buckets!Return(b)
      BY <2>1, BucketsStep DEF WindowInv
  <2> QED BY <2>1, <2>3, <2>4, PeriodGoesOn DEF WindowInv
<1>4. WindowsOK'
  <2>1. window' = [b \in Directions |-> window'[b]]
      BY <1>1
  <2>2. \A b \in Directions : window'[b] \in [seconds : Nat, passed : Nat, returned : Nat]
      BY <1>2, <1>3
  <2> QED BY <2>1, <2>2 DEF WindowsOK
<1>5. WithinAllowance'
    BY <1>2, <1>3 DEF WithinAllowance
<1> QED BY <1>4, <1>5

\* However the calls of a period are spread over it, try_consume lets through at most one
\* capacity, what drips in at the rate while the period lasts, and what refill was given
\* back for transfers the other way; a limit set anew starts with a full bucket.
THEOREM PeriodsWithinLimit == WindowSpec => []WithinLimit
<1>1. Init /\ window = [b \in Directions |-> Opened(b)] => WindowInv
  <2> SUFFICES ASSUME Init, window = [b \in Directions |-> Opened(b)] PROVE WindowInv
      OBVIOUS
  <2>1. OftInv
      BY OftInvInit
  <2>2. \A b \in Directions :
          /\ window[b] \in [seconds : Nat, passed : Nat, returned : Nat]
          /\ BLevel(b) + (BPassed(b) - window[b].passed) <= Allowance(b)
    <3> SUFFICES ASSUME NEW b \in Directions
                 PROVE  /\ window[b] \in [seconds : Nat, passed : Nat, returned : Nat]
                        /\ BLevel(b) + (BPassed(b) - window[b].passed) <= Allowance(b)
        OBVIOUS
    <3>1. window[b] = [seconds |-> 0, passed |-> BPassed(b), returned |-> BReturned(b)]
        BY DEF Opened
    <3>2. Spendable(b)
        BY <2>1, LevelsBelowCapacity DEF AllSpendable
    <3>3. BLevel(b) + (BPassed(b) - BPassed(b))
            <= BLimit(b).capacity + BLimit(b).rate * 0 + (BReturned(b) - BReturned(b))
        BY <3>2, FreshAllowance DEF Spendable
    <3> QED BY <3>1, <3>2, <3>3 DEF Allowance, Spendable
  <2> QED BY <2>1, <2>2 DEF WindowInv, WindowsOK, WithinAllowance
<1>2. WindowInv /\ [Next /\ Observe]_<<vars, window>> => WindowInv'
  <2> SUFFICES ASSUME WindowInv, [Next /\ Observe]_<<vars, window>> PROVE WindowInv'
      OBVIOUS
  <2>1. OftInv'
      BY OftInvNext DEF WindowInv
  <2>2. CASE Next /\ Observe
    <3>1. AllSpendable /\ AllSpendable'
        BY <2>1, LevelsBelowCapacity, LevelsStayBelowCapacity DEF WindowInv
    <3> QED BY <2>1, <2>2, <3>1, WindowStep DEF WindowInv
  <2>3. CASE UNCHANGED <<vars, window>>
    <3>1. UNCHANGED <<clock, peer, posted, cleared, window>>
        BY <2>3 DEF vars, wireVars
    <3>2. \A b \in Directions : /\ BLimit(b)' = BLimit(b) /\ BLevel(b)' = BLevel(b)
                                /\ BPassed(b)' = BPassed(b) /\ BReturned(b)' = BReturned(b)
        BY <3>1 DEF BLimit, BLevel, BPassed, BReturned, LimiterOf, LimitOf, Level, Refill,
                    SentOver, ArrivedFrom, Carried
    <3>3. WindowsOK' /\ WithinAllowance'
        BY <3>1, <3>2 DEF WindowInv, WindowsOK, WithinAllowance, Allowance
    <3> QED BY <2>1, <3>3 DEF WindowInv
  <2> QED BY <2>2, <2>3
<1>3. WindowInv => WithinLimit
  <2> SUFFICES ASSUME WindowInv, NEW b \in Directions, BLimit(b).on
               PROVE  BPassed(b) - window[b].passed <= Allowance(b)
      BY DEF WithinLimit, Allowance
  <2>1. BLevel(b) + (BPassed(b) - window[b].passed) <= Allowance(b)
      BY DEF WindowInv, WithinAllowance
  <2>2. BLevel(b) \in Nat /\ BLimit(b).capacity \in Nat /\ BLimit(b).rate \in Nat
      BY LevelsBelowCapacity DEF WindowInv, AllSpendable, Spendable
  <2>3. BPassed(b) \in Nat /\ BReturned(b) \in Nat
      BY LevelsBelowCapacity DEF WindowInv, AllSpendable, Spendable
  <2>4. window[b] \in [seconds : Nat, passed : Nat, returned : Nat]
      BY DEF WindowInv, WindowsOK
  <2>5. BLimit(b).rate * window[b].seconds \in Nat
      BY <2>2, <2>4, OneMoreDrip
  <2>6. Allowance(b) \in Int
      BY <2>2, <2>3, <2>4, <2>5 DEF Allowance
  <2>7. BPassed(b) - window[b].passed \in Int
      BY <2>3, <2>4
  <2> QED BY <2>1, <2>2, <2>6, <2>7
<1> QED BY <1>1, <1>2, <1>3, PTL DEF WindowSpec

===============================================================================
