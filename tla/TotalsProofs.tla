----------------------------- MODULE TotalsProofs -----------------------------
(***************************************************************************)
(* How a total reacts when one part changes, joins or leaves, and what     *)
(* integer division and products do: the lemmas every ledger proof cites.  *)
(***************************************************************************)
EXTENDS Totals, FiniteSetTheorems, WellFoundedInduction, TLAPS

-------------------------------------------------------------------------------
(* Division and products. *)

\* Integer division rounds down and leaves less than one divisor.
LEMMA DivFacts ==
    ASSUME NEW n \in Nat, NEW d \in Nat \ {0}
    PROVE  /\ n \div d \in Nat
           /\ d * (n \div d) <= n
           /\ n < d * (n \div d) + d
OBVIOUS

\* Integer division is monotonic.
LEMMA DivMono ==
    ASSUME NEW m \in Nat, NEW n \in Nat, NEW d \in Nat \ {0}, m <= n
    PROVE  m \div d <= n \div d
OBVIOUS

\* A quotient is bounded by every q whose product bounds the dividend.
LEMMA DivUpper ==
    ASSUME NEW n \in Nat, NEW d \in Nat \ {0}, NEW q \in Nat, n <= d * q
    PROVE  n \div d <= q
OBVIOUS

\* A quotient reaches every q whose product fits the dividend.
LEMMA DivLower ==
    ASSUME NEW n \in Nat, NEW d \in Nat \ {0}, NEW q \in Nat, d * q <= n
    PROVE  q <= n \div d
OBVIOUS

\* Products of naturals are natural and monotonic.
LEMMA MulMono ==
    ASSUME NEW m \in Nat, NEW n \in Nat, NEW c \in Nat, m <= n
    PROVE  m * c \in Nat /\ n * c \in Nat /\ m * c <= n * c
OBVIOUS

-------------------------------------------------------------------------------
(* Totals. *)

\* The units of one part, counted.
LEMMA BlockFacts ==
    ASSUME NEW x, NEW n \in Nat
    PROVE  IsFiniteSet({x} \X (1..n)) /\ Cardinality({x} \X (1..n)) = n
<1>1. IsFiniteSet({x}) /\ Cardinality({x}) = 1
    BY FS_Singleton
<1>2. IsFiniteSet(1..n) /\ Cardinality(1..n) = n
    BY FS_Interval
<1> DEFINE S == {x}
           T == 1..n
<1> HIDE DEF S, T
<1>3. IsFiniteSet(S \X T) /\ Cardinality(S \X T) = Cardinality(S) * Cardinality(T)
    BY <1>1, <1>2, FS_Product DEF S, T
<1>4. Cardinality(S) * Cardinality(T) = n
    BY <1>1, <1>2 DEF S, T
<1> QED BY <1>3, <1>4 DEF S, T

\* A total over a finite set is a natural number.
LEMMA TotalFinite ==
    ASSUME NEW S, IsFiniteSet(S), NEW f \in [S -> Nat]
    PROVE  IsFiniteSet(Units(f)) /\ Total(f) \in Nat
<1> DEFINE F == {{x} \X (1..f[x]) : x \in S}
           m == [x \in S |-> {x} \X (1..f[x])]
<1>1. m \in Surjection(S, F)
    BY DEF Surjection
<1>2. IsFiniteSet(F)
    BY <1>1, FS_Surjection
<1>3. ASSUME NEW T \in F PROVE IsFiniteSet(T)
    <2>1. PICK x \in S : T = {x} \X (1..f[x])
        OBVIOUS
    <2> QED BY <2>1, BlockFacts
<1>4. IsFiniteSet(UNION F)
    BY <1>2, <1>3, FS_UNION
<1>5. Units(f) = UNION F
    BY DEF Units
<1> QED BY <1>4, <1>5, FS_CardinalityType DEF Total

\* A part that joins adds itself.
LEMMA TotalJoin ==
    ASSUME NEW S, IsFiniteSet(S), NEW x, x \notin S,
           NEW f \in [S -> Nat], NEW g \in [S \cup {x} -> Nat], \A s \in S : g[s] = f[s]
    PROVE  Total(f) \in Nat /\ g[x] \in Nat /\ Total(g) = Total(f) + g[x]
<1> DEFINE own == {x} \X (1..g[x])
<1>1. IsFiniteSet(Units(f)) /\ Total(f) \in Nat /\ g[x] \in Nat
    BY TotalFinite
<1>2. Units(g) = Units(f) \cup own
    BY DEF Units
<1>3. Units(f) \cap own = {}
    BY DEF Units
<1>4. IsFiniteSet(own) /\ Cardinality(own) = g[x]
    BY <1>1, BlockFacts
<1> HIDE DEF own
<1>5. Cardinality(Units(g)) = Cardinality(Units(f)) + g[x] - 0
    BY <1>1, <1>2, <1>3, <1>4, FS_Union, FS_EmptySet
<1> QED BY <1>1, <1>5 DEF Total

\* Nothing sums to nothing.
LEMMA TotalEmpty ==
    ASSUME NEW f, DOMAIN f = {}
    PROVE  Total(f) = 0
<1>1. Units(f) = {}
    BY DEF Units
<1> QED BY <1>1, FS_EmptySet DEF Total

LEMMA TotalZero ==
    ASSUME NEW S
    PROVE  Total([x \in S |-> 0]) = 0
<1>1. Units([x \in S |-> 0]) = {}
    BY DEF Units
<1> QED BY <1>1, FS_EmptySet DEF Total

\* A part that leaves takes itself away, and was never more than the whole.
LEMMA TotalLeave ==
    ASSUME NEW S, IsFiniteSet(S), NEW x \in S,
           NEW f \in [S -> Nat], NEW g \in [S \ {x} -> Nat], \A s \in S \ {x} : g[s] = f[s]
    PROVE  /\ Total(f) \in Nat /\ Total(g) \in Nat /\ f[x] \in Nat
           /\ f[x] <= Total(f) /\ Total(g) = Total(f) - f[x]
<1> DEFINE R == S \ {x}
<1>1. IsFiniteSet(R) /\ x \notin R /\ S = R \cup {x}
    BY FS_Subset
<1>2. f \in [R \cup {x} -> Nat] /\ \A s \in R : f[s] = g[s]
    BY <1>1
<1> HIDE DEF R
<1>3. g \in [R -> Nat]
    BY DEF R
<1>4. Total(g) \in Nat /\ f[x] \in Nat /\ Total(f) = Total(g) + f[x]
    BY <1>1, <1>2, <1>3, TotalJoin
<1> QED BY <1>4

\* Changing one part changes the total by the difference.
LEMMA TotalUpdate ==
    ASSUME NEW S, IsFiniteSet(S), NEW f \in [S -> Nat], NEW x \in S, NEW n \in Nat
    PROVE  /\ Total(f) \in Nat
           /\ f[x] <= Total(f)
           /\ Total([f EXCEPT ![x] = n]) = Total(f) - f[x] + n
<1> DEFINE g == [f EXCEPT ![x] = n]
           r == [s \in S \ {x} |-> f[s]]
<1>1. g \in [S -> Nat] /\ r \in [S \ {x} -> Nat] /\ g[x] = n
    OBVIOUS
<1>2. (\A s \in S \ {x} : r[s] = f[s]) /\ (\A s \in S \ {x} : r[s] = g[s])
    OBVIOUS
<1> HIDE DEF g, r
<1>3. ASSUME NEW h \in [S -> Nat], \A s \in S \ {x} : r[s] = h[s]
      PROVE  /\ Total(h) \in Nat /\ Total(r) \in Nat /\ h[x] \in Nat
             /\ h[x] <= Total(h) /\ Total(r) = Total(h) - h[x]
    BY <1>1, <1>3, TotalLeave
<1>4. Total(g) \in Nat /\ Total(r) = Total(g) - g[x]
    BY <1>1, <1>2, <1>3
<1>6. Total(f) \in Nat /\ f[x] \in Nat /\ f[x] <= Total(f) /\ Total(r) = Total(f) - f[x]
    BY <1>2, <1>3
<1>5. Total(g) = Total(f) - f[x] + n
    BY <1>1, <1>4, <1>6
<1> QED BY <1>5, <1>6 DEF g

-------------------------------------------------------------------------------
(* Induction over finite sets, and totals of several functions. *)

\* A non-empty set of naturals has a least element.
LEMMA LeastNatural ==
    ASSUME NEW T \in SUBSET Nat, T # {}
    PROVE  \E m \in T : \A k \in T : ~(k < m)
<1> DEFINE R == OpToRel(<, Nat)
<1>1. IsWellFoundedOn(R, Nat)
    BY NatLessThanWellFounded
<1>2. \A x, y \in Nat : x < y => <<x, y>> \in R
    BY DEF OpToRel
<1> HIDE DEF R
<1>3. \E m \in T : \A k \in T : ~(<<k, m>> \in R)
    BY <1>1, WFMin
<1> QED BY <1>2, <1>3

\* A family of subsets that contains the empty set and whatever is one element larger than
\* a member contains the whole set.
LEMMA SubsetInduction ==
    ASSUME NEW S, IsFiniteSet(S), NEW G, {} \in G,
           \A T \in SUBSET S : \A x \in T : T \ {x} \in G => T \in G
    PROVE  S \in G
<1> DEFINE bad == {Cardinality(T) : T \in {U \in SUBSET S : U \notin G}}
<1>1. \A T \in SUBSET S : IsFiniteSet(T) /\ Cardinality(T) \in Nat
    BY FS_Subset, FS_CardinalityType
<1>2. bad \in SUBSET Nat
    BY <1>1
<1>3. SUFFICES ASSUME bad # {} PROVE FALSE
    OBVIOUS
<1>4. PICK m \in bad : \A k \in bad : ~(k < m)
    BY <1>2, <1>3, LeastNatural
<1>5. PICK T \in SUBSET S : T \notin G /\ Cardinality(T) = m
    BY <1>4
<1>6. PICK x : x \in T
    BY <1>5
<1>7. T \ {x} \in SUBSET S /\ T \ {x} \notin G
    BY <1>5, <1>6
<1>8. Cardinality(T \ {x}) = Cardinality(T) - 1
    BY <1>1, <1>5, <1>6, FS_RemoveElement
<1>9. Cardinality(T \ {x}) \in bad /\ Cardinality(T) \in Nat
    BY <1>1, <1>5, <1>7
<1> HIDE DEF bad
<1>10. ~(Cardinality(T \ {x}) < Cardinality(T))
    BY <1>4, <1>5, <1>9
<1> QED BY <1>8, <1>9, <1>10

\* A function that is nowhere larger has no larger total.
LEMMA TotalMono ==
    ASSUME NEW S, IsFiniteSet(S), NEW f \in [S -> Nat], NEW g \in [S -> Nat],
           \A s \in S : f[s] <= g[s]
    PROVE  Total(f) <= Total(g)
<1>1. IsFiniteSet(Units(g))
    BY TotalFinite
<1>2. Units(f) \subseteq Units(g)
    BY DEF Units
<1> QED BY <1>1, <1>2, FS_Subset DEF Total

\* The restriction of f to T and to T without x.
LEMMA TotalPart ==
    ASSUME NEW S, IsFiniteSet(S), NEW f \in [S -> Nat], NEW T \in SUBSET S, NEW x \in T
    PROVE  LET t == [s \in T |-> f[s]]
               r == [s \in T \ {x} |-> f[s]]
           IN  Total(t) \in Nat /\ Total(r) \in Nat /\ f[x] \in Nat /\ Total(t) = Total(r) + f[x]
<1> DEFINE t == [s \in T |-> f[s]]
           r == [s \in T \ {x} |-> f[s]]
<1>1. IsFiniteSet(T) /\ t \in [T -> Nat] /\ r \in [T \ {x} -> Nat] /\ t[x] = f[x]
    BY FS_Subset
<1>2. \A s \in T \ {x} : r[s] = t[s]
    OBVIOUS
<1> HIDE DEF t, r
<1>3. /\ Total(t) \in Nat /\ Total(r) \in Nat /\ t[x] \in Nat
      /\ t[x] <= Total(t) /\ Total(r) = Total(t) - t[x]
    BY <1>1, <1>2, TotalLeave
<1> QED BY <1>1, <1>3 DEF t, r

\* The total of a sum is the sum of the totals.
LEMMA TotalPlus ==
    ASSUME NEW S, IsFiniteSet(S), NEW f \in [S -> Nat], NEW g \in [S -> Nat]
    PROVE  Total([s \in S |-> f[s] + g[s]]) = Total(f) + Total(g)
<1> DEFINE h == [s \in S |-> f[s] + g[s]]
           part(F, U) == Total([s \in U |-> F[s]])
           G == {T \in SUBSET S : part(h, T) = part(f, T) + part(g, T)}
<1>1. h \in [S -> Nat] /\ \A s \in S : h[s] = f[s] + g[s]
    OBVIOUS
<1> HIDE DEF h
<1>2. {} \in G
    <2>1. part(h, {}) = 0 /\ part(f, {}) = 0 /\ part(g, {}) = 0
        BY TotalEmpty
    <2> HIDE DEF part
    <2> QED BY <2>1
<1>3. ASSUME NEW T \in SUBSET S, NEW x \in T, T \ {x} \in G PROVE T \in G
    <2>1. part(f, T) \in Nat /\ part(f, T \ {x}) \in Nat /\ f[x] \in Nat /\ part(f, T) = part(f, T \ {x}) + f[x]
        BY TotalPart
    <2>2. part(g, T) \in Nat /\ part(g, T \ {x}) \in Nat /\ g[x] \in Nat /\ part(g, T) = part(g, T \ {x}) + g[x]
        BY TotalPart
    <2>3. part(h, T) \in Nat /\ part(h, T \ {x}) \in Nat /\ h[x] \in Nat /\ part(h, T) = part(h, T \ {x}) + h[x]
        BY <1>1, TotalPart
    <2>4. part(h, T \ {x}) = part(f, T \ {x}) + part(g, T \ {x})
        BY <1>3
    <2>5. h[x] = f[x] + g[x]
        BY <1>1
    <2> HIDE DEF part
    <2>6. part(h, T) = part(f, T) + part(g, T)
        BY <2>1, <2>2, <2>3, <2>4, <2>5
    <2> QED BY <2>6
<1>4. S \in G
    <2> HIDE DEF G
    <2> QED BY <1>2, <1>3, SubsetInduction
<1>5. [s \in S |-> h[s]] = h /\ [s \in S |-> f[s]] = f /\ [s \in S |-> g[s]] = g
    BY <1>1
<1> QED BY <1>4, <1>5 DEF h

\* Rounding every part down loses less than one unit per part: the total of the floors of
\* f[s] * c / p against the floor of Total(f) * c / p.
LEMMA TotalFloors ==
    ASSUME NEW S, IsFiniteSet(S), NEW f \in [S -> Nat], NEW c \in Nat, NEW p \in Nat \ {0},
           NEW h \in [S -> Nat], \A s \in S : h[s] = (f[s] * c) \div p
    PROVE  /\ Total(h) \in Nat /\ Total(f) \in Nat /\ Cardinality(S) \in Nat
           /\ Total(h) <= (Total(f) * c) \div p
           /\ (Total(f) * c) \div p <= Total(h) + Cardinality(S)
<1> DEFINE part(F, U) == Total([s \in U |-> F[s]])
           G == {T \in SUBSET S : /\ p * part(h, T) <= part(f, T) * c
                                  /\ part(f, T) * c <= p * (part(h, T) + Cardinality(T))}
<1>1. \A s \in S : /\ f[s] \in Nat /\ f[s] * c \in Nat /\ h[s] \in Nat
                   /\ p * h[s] <= f[s] * c /\ f[s] * c <= p * h[s] + p
    <2> SUFFICES ASSUME NEW s \in S
                 PROVE  /\ f[s] \in Nat /\ f[s] * c \in Nat /\ h[s] \in Nat
                        /\ p * h[s] <= f[s] * c /\ f[s] * c <= p * h[s] + p
        OBVIOUS
    <2>1. f[s] \in Nat /\ f[s] * c \in Nat /\ h[s] = (f[s] * c) \div p
        OBVIOUS
    <2>2. PICK n \in Nat : n = f[s] * c
        BY <2>1
    <2>3. n \div p \in Nat /\ p * (n \div p) <= n /\ n < p * (n \div p) + p
        BY DivFacts
    <2>4. p * (n \div p) + p \in Nat
        BY <2>3
    <2> QED BY <2>1, <2>2, <2>3, <2>4
<1>2. {} \in G
    <2>1. part(h, {}) = 0 /\ part(f, {}) = 0 /\ Cardinality({}) = 0
        BY TotalEmpty, FS_EmptySet
    <2> HIDE DEF part
    <2> QED BY <2>1
<1>3. ASSUME NEW T \in SUBSET S, NEW x \in T, T \ {x} \in G PROVE T \in G
    <2>1. part(f, T) \in Nat /\ part(f, T \ {x}) \in Nat /\ f[x] \in Nat /\ part(f, T) = part(f, T \ {x}) + f[x]
        BY TotalPart
    <2>2. part(h, T) \in Nat /\ part(h, T \ {x}) \in Nat /\ h[x] \in Nat /\ part(h, T) = part(h, T \ {x}) + h[x]
        BY TotalPart
    <2>3. IsFiniteSet(T) /\ Cardinality(T) \in Nat
        BY FS_Subset, FS_CardinalityType
    <2>4. Cardinality(T \ {x}) = Cardinality(T) - 1 /\ Cardinality(T \ {x}) \in Nat
        BY <2>3, FS_RemoveElement, FS_CardinalityType
    <2>5. /\ p * part(h, T \ {x}) <= part(f, T \ {x}) * c
          /\ part(f, T \ {x}) * c <= p * (part(h, T \ {x}) + Cardinality(T \ {x}))
        BY <1>3
    <2>6. p * h[x] <= f[x] * c /\ f[x] * c <= p * h[x] + p
        BY <1>1
    <2> HIDE DEF part
    <2>7. PICK a, b, m, n, k \in Nat :
             /\ a = part(f, T \ {x}) /\ b = f[x] /\ m = part(h, T \ {x}) /\ n = h[x]
             /\ k = Cardinality(T \ {x})
        BY <2>1, <2>2, <2>4
    <2>8. /\ p * m <= a * c /\ a * c <= p * (m + k) /\ p * n <= b * c /\ b * c <= p * n + p
        BY <2>5, <2>6, <2>7
    <2>9. p * (m + n) <= (a + b) * c /\ (a + b) * c <= p * (m + n + (k + 1))
        <3>1. p * (m + n) = p * m + p * n /\ (a + b) * c = a * c + b * c
            OBVIOUS
        <3>2. p * (m + n + (k + 1)) = p * (m + k) + (p * n + p)
            OBVIOUS
        <3>3. p * m \in Nat /\ p * n \in Nat /\ a * c \in Nat /\ b * c \in Nat /\ p * (m + k) \in Nat
            OBVIOUS
        <3> QED BY <2>8, <3>1, <3>2, <3>3
    <2>10. part(f, T) = a + b /\ part(h, T) = m + n /\ Cardinality(T) = k + 1
        BY <2>1, <2>2, <2>3, <2>4, <2>7
    <2> QED BY <2>9, <2>10
<1>4. S \in G
    <2> HIDE DEF G
    <2> QED BY <1>2, <1>3, SubsetInduction
<1>5. [s \in S |-> h[s]] = h /\ [s \in S |-> f[s]] = f
    OBVIOUS
<1>6. p * Total(h) <= Total(f) * c /\ Total(f) * c <= p * (Total(h) + Cardinality(S))
    BY <1>4, <1>5
<1>7. Total(h) \in Nat /\ Total(f) \in Nat /\ Cardinality(S) \in Nat
    BY TotalFinite, FS_CardinalityType
<1>8. Total(f) * c \in Nat /\ Total(h) + Cardinality(S) \in Nat
    BY <1>7
<1>9. Total(h) <= (Total(f) * c) \div p
    BY <1>6, <1>7, <1>8, DivLower
<1>10. (Total(f) * c) \div p <= Total(h) + Cardinality(S)
    BY <1>6, <1>8, DivUpper
<1> QED BY <1>7, <1>9, <1>10

===============================================================================
