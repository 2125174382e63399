--------------------------- MODULE LifetimesProofs ---------------------------
(***************************************************************************)
(* What the lifetimes of keys and blocks mean, for every value of the      *)
(* constants.  First the placement by lifetimes is shown to be one that    *)
(* ZnsStore allows, so that its invariants (ZnsStoreProofs) are at hand;   *)
(* then LifeIffValid, RecencyOrder and the types are proved, whatever      *)
(* uninitialised words hold, and BlockNotOlder on clean words.             *)
(***************************************************************************)
EXTENDS Lifetimes, ZnsStoreProofs

Ages == 0 .. Recent

LifeTyped == /\ keyLife \in [Keys -> Ages] /\ blockLife \in [Blocks -> -1 .. Recent]
             /\ met \in BOOLEAN /\ since \in [Keys -> SUBSET Keys]

\* Every page but an addition ages the keys, so only the key of an update that has
\* not written a page behind its record yet has lifetime 0.
Aging == pc \in Labels => \A k \in Keys : keyLife[k] > 0 \/ (k = op.key /\ pc = "update")

Means == [sum : 0 .. BPZ * Recent, cnt : 1 .. BPZ]

MeansInv == zoneLife \in [Zones -> Means]

LifeInv == TypeInv /\ LifeTyped /\ MeansInv /\ LifeIffValid /\ Aging /\ RecencyOrder

-----------------------------------------------------------------------------
(* Facts about the operators.                                              *)

LEMMA MinOf ==
  ASSUME NEW S \in SUBSET Nat, S # {}
  PROVE  Min(S) \in S /\ \A m \in S : Min(S) <= m
<1>1. PICK n \in S : \A m \in S : n <= m
  BY LeastOf
<1>2. QED
  BY <1>1 DEF Min

\* get_page_lifetime is a lifetime, and none of its keys is younger.
LEMMA PageLife ==
  ASSUME NEW life \in [Keys -> Ages], NEW keys \in SUBSET Keys
  PROVE  /\ get_page_lifetime(life, keys) \in Ages
         /\ \A k \in keys : get_page_lifetime(life, keys) <= life[k]
<1> DEFINE L == {life[k] : k \in keys} \cup {Recent}
<1>1. L \in SUBSET Ages /\ L # {} /\ \A k \in keys : life[k] \in L
  BY LifetimeConstants DEF Ages
<1>2. L \in SUBSET Nat
  BY <1>1, LifetimeConstants DEF Ages
<1>3. Min(L) \in L /\ \A m \in L : Min(L) <= m
  <2> HIDE DEF L
  <2>1. QED
    BY <1>1, <1>2, MinOf
<1>4. get_page_lifetime(life, keys) = Min(L)
  BY DEF get_page_lifetime
<1>5. QED
  BY <1>1, <1>3, <1>4

\* The lifetimes of keys after a page that is not an addition.
LEMMA AgedType ==
  ASSUME NEW life \in [Keys -> Ages]
  PROVE  /\ Aged(life) \in [Keys -> Ages]
         /\ \A k \in Keys : Aged(life)[k] > 0 /\ life[k] <= Aged(life)[k]
         /\ \A j, k \in Keys : life[j] < life[k] \/ life[k] = Recent =>
                                  Aged(life)[j] < Aged(life)[k] \/ Aged(life)[k] = Recent
<1> DEFINE a == Aged(life)
<1>1. \A k \in Keys : a[k] = IF life[k] # Recent THEN life[k] + 1 ELSE Recent
  BY DEF Aged
<1>2. Recent \in Nat \ {0}
  BY LifetimeConstants
<1>3. \A k \in Keys : life[k] \in 0 .. Recent
  BY DEF Ages
<1>4. \A k \in Keys : a[k] \in 0 .. Recent /\ a[k] > 0 /\ life[k] <= a[k]
  <2> HIDE DEF a
  <2>1. QED
    BY <1>1, <1>2, <1>3
<1>5. a \in [Keys -> Ages]
  BY <1>4 DEF Aged, Ages
<1>6. \A j, k \in Keys : life[j] < life[k] \/ life[k] = Recent => a[j] < a[k] \/ a[k] = Recent
  <2> HIDE DEF a
  <2>1. QED
    BY <1>1, <1>2, <1>3
<1>7. QED
  BY <1>4, <1>5, <1>6

LEMMA ZoneSize ==
  ASSUME NEW z \in Zones
  PROVE  IsFiniteSet(BlocksOf(z)) /\ Cardinality(BlocksOf(z)) = BPZ
<1> DEFINE Z1 == {z}
           O == 0 .. BPZ - 1
<1>1. BlocksOf(z) = Z1 \X O
  BY DEF BlocksOf, Blocks, Offsets
<1>2. IsFiniteSet(Z1) /\ Cardinality(Z1) = 1
  BY FS_Singleton
<1>3. IsFiniteSet(O) /\ Cardinality(O) = BPZ
  BY FS_Interval, NumbersOK, LifetimeConstants
<1>4. IsFiniteSet(Z1 \X O) /\ Cardinality(Z1 \X O) = 1 * BPZ
  <2> HIDE DEF Z1, O
  <2>1. IsFiniteSet(Z1 \X O) /\ Cardinality(Z1 \X O) = Cardinality(Z1) * Cardinality(O)
    BY <1>2, <1>3, FS_Product
  <2>2. QED
    BY <1>2, <1>3, <2>1
<1>5. QED
  BY <1>1, <1>4, NumbersOK, LifetimeConstants

\* The sum over blocks of one zone is at most what full lifetimes add up to.
LEMMA SumBound ==
  ASSUME NEW z \in Zones, NEW S \in SUBSET BlocksOf(z), NEW f, NEW m \in Nat,
         \A b \in S : f[b] \in Nat /\ f[b] <= m
  PROVE  SumOf(f, S) \in Nat /\ SumOf(f, S) <= BPZ * m
<1> DEFINE U == UNION {{b} \X (1 .. f[b]) : b \in S}
           I == 1 .. m
           P == BlocksOf(z) \X I
<1>1. IsFiniteSet(I) /\ Cardinality(I) = m
  BY FS_Interval
<1>2. IsFiniteSet(P) /\ Cardinality(P) = BPZ * m
  <2> HIDE DEF I
  <2>1. IsFiniteSet(BlocksOf(z)) /\ Cardinality(BlocksOf(z)) = BPZ
    BY ZoneSize
  <2>2. IsFiniteSet(P) /\ Cardinality(P) = Cardinality(BlocksOf(z)) * Cardinality(I)
    BY <1>1, <2>1, FS_Product
  <2>3. QED
    BY <1>1, <2>1, <2>2
<1>3. U \in SUBSET P
  OBVIOUS
<1>4. IsFiniteSet(U) /\ Cardinality(U) <= Cardinality(P)
  <2> HIDE DEF U, P
  <2>1. QED
    BY <1>2, <1>3, FS_Subset
<1>5. Cardinality(U) \in Nat
  <2> HIDE DEF U
  <2>1. QED
    BY <1>4, FS_CardinalityType
<1>6. QED
  BY <1>2, <1>4, <1>5 DEF SumOf

\* An average over at least one block, of lifetimes.
LEMMA MeanType ==
  ASSUME NEW z \in Zones, NEW life \in [Blocks -> -1 .. Recent], NEW map,
         \E b \in BlocksOf(z) : life[b] >= 0 /\ map[b] = "VALID"
  PROVE  MeanOf(z, life, map) \in Means
<1> DEFINE S == {b \in BlocksOf(z) : life[b] >= 0 /\ map[b] = "VALID"}
<1>1. S \in SUBSET BlocksOf(z) /\ S # {}
  OBVIOUS
<1>2. \A b \in S : life[b] \in Nat /\ life[b] <= Recent
  <2>1. \A b \in S : b \in Blocks /\ life[b] >= 0
    BY DEF BlocksOf
  <2>2. \A b \in S : life[b] \in -1 .. Recent /\ life[b] >= 0
    BY <2>1
  <2>3. QED
    BY <2>2, NumbersOK, LifetimeConstants
<1>3. SumOf(life, S) \in Nat /\ SumOf(life, S) <= BPZ * Recent
  <2> HIDE DEF S
  <2>1. Recent \in Nat
    BY NumbersOK, LifetimeConstants
  <2>2. QED
    BY <1>1, <1>2, <2>1, SumBound
<1>4. Cardinality(S) \in 1 .. BPZ
  <2> HIDE DEF S
  <2>1. IsFiniteSet(S) /\ Cardinality(S) <= BPZ
    BY <1>1, ZoneSize, FS_Subset
  <2>2. Cardinality(S) \in Nat /\ Cardinality(S) # 0
    BY <1>1, <2>1, FS_CardinalityType, FS_EmptySet
  <2>3. QED
    BY <2>1, <2>2, NumbersOK, LifetimeConstants
<1>5. MeanOf(z, life, map) = [sum |-> SumOf(life, S), cnt |-> Cardinality(S)]
  BY DEF MeanOf
<1>6. SumOf(life, S) \in 0 .. BPZ * Recent
  <2> HIDE DEF S
  <2>1. BPZ * Recent \in Nat
    BY NumbersOK, LifetimeConstants
  <2>2. QED
    BY <1>3, <2>1
<1>7. QED
  <2> HIDE DEF S
  <2>1. QED
    BY <1>4, <1>5, <1>6 DEF Means

-----------------------------------------------------------------------------
(* The zones that gl rounds mark.                                          *)

OrderOf(R, A) ==
    /\ \A x \in A : <<x, x>> \notin R
    /\ \A x, y, z \in A : <<x, y>> \in R /\ <<y, z>> \in R => <<x, z>> \in R
    /\ \A x, y \in A : x = y \/ <<x, y>> \in R \/ <<y, x>> \in R

FirstOf(n, A, R) == {z \in A : Cardinality({y \in A : <<y, z>> \in R}) < n}

\* How many are before each element of an ordered set numbers its elements from 0, so
\* n of them, or all, have fewer than n before them.
LEMMA Ranks ==
  ASSUME NEW A, IsFiniteSet(A), NEW R, OrderOf(R, A), NEW n \in Nat
  PROVE  Cardinality(FirstOf(n, A, R)) = IF Cardinality(A) < n THEN Cardinality(A) ELSE n
<1> DEFINE below(z) == {y \in A : <<y, z>> \in R}
           N == Cardinality(A)
           rank == [z \in A |-> Cardinality(below(z))]
<1>1. N \in Nat
  BY FS_CardinalityType
<1>2. ASSUME NEW z \in A
      PROVE  IsFiniteSet(below(z)) /\ rank[z] \in Nat /\ rank[z] < N
  <2>1. below(z) \in SUBSET (A \ {z})
    BY DEF OrderOf
  <2>2. IsFiniteSet(A \ {z}) /\ Cardinality(A \ {z}) = N - 1
    BY FS_RemoveElement
  <2>3. IsFiniteSet(below(z)) /\ Cardinality(below(z)) <= N - 1
    <3> HIDE DEF below
    <3>1. QED
      BY <2>1, <2>2, FS_Subset
  <2>4. Cardinality(below(z)) \in Nat
    BY <2>3, FS_CardinalityType
  <2>5. rank[z] = Cardinality(below(z))
    OBVIOUS
  <2>6. QED
    <3> HIDE DEF below, rank, N
    <3>1. QED
      BY <1>1, <2>3, <2>4, <2>5
<1>3. ASSUME NEW y \in A, NEW z \in A, <<y, z>> \in R
      PROVE  rank[y] < rank[z]
  <2>1. below(y) \cup {y} \in SUBSET below(z) /\ y \notin below(y)
    BY <1>3 DEF OrderOf
  <2>2. Cardinality(below(y) \cup {y}) = Cardinality(below(y)) + 1
    <3> HIDE DEF below
    <3>1. QED
      BY <1>2, <2>1, FS_AddElement
  <2>3. Cardinality(below(y) \cup {y}) <= Cardinality(below(z))
    <3> HIDE DEF below
    <3>1. QED
      BY <1>2, <2>1, FS_Subset
  <2>4. rank[y] = Cardinality(below(y)) /\ rank[z] = Cardinality(below(z))
    OBVIOUS
  <2>5. QED
    <3> HIDE DEF below, rank
    <3>1. QED
      BY <1>2, <2>2, <2>3, <2>4
<1>4. /\ rank = [z \in A |-> rank[z]]
      /\ \A z \in A : rank[z] \in Nat /\ rank[z] < N
      /\ \A y, z \in A : <<y, z>> \in R => rank[y] < rank[z]
  <2>1. rank = [z \in A |-> rank[z]]
    OBVIOUS
  <2>2. QED
    BY <1>2, <1>3, <2>1
<1> HIDE DEF rank, N, below
<1>5. \A y, z \in A : rank[y] = rank[z] => y = z
  <2>1. ASSUME NEW y \in A, NEW z \in A, rank[y] = rank[z], y # z PROVE FALSE
    <3>1. rank[y] < rank[z] \/ rank[z] < rank[y]
      BY <1>4, <2>1 DEF OrderOf
    <3>2. QED
      BY <1>4, <2>1, <3>1
  <2>2. QED
    BY <2>1
<1> DEFINE I == 0 .. N - 1
<1>6. IsFiniteSet(I) /\ Cardinality(I) = N
  BY <1>1, FS_Interval
<1>7. rank \in Injection(A, I)
  <2>1. rank \in [A -> I]
    BY <1>1, <1>4
  <2>2. QED
    BY <1>5, <2>1 DEF Injection, IsInjective
<1>8. rank \in Surjection(A, I)
  <2> HIDE DEF I
  <2>1. QED
    BY <1>6, <1>7, FS_Injection DEF N
<1> DEFINE m == IF N < n THEN N ELSE n
           T == 0 .. m - 1
           M == {z \in A : rank[z] < n}
           g == [z \in M |-> rank[z]]
<1>9. m \in Nat /\ m <= N /\ m <= n /\ (m = N \/ m = n)
  BY <1>1
<1>10. \A z \in M : rank[z] \in T
  <2> HIDE DEF m
  <2>1. \A z \in M : rank[z] \in Nat /\ rank[z] < N /\ rank[z] < n
    BY <1>4
  <2>2. \A z \in M : rank[z] < m
    BY <1>9, <2>1
  <2>3. QED
    BY <1>9, <2>1, <2>2
<1>11. IsFiniteSet(T) /\ Cardinality(T) = m
  <2> HIDE DEF m
  <2>1. QED
    BY <1>9, FS_Interval
<1>12. g \in Injection(M, T)
  <2> HIDE DEF T
  <2>1. g \in [M -> T]
    BY <1>10
  <2>2. QED
    BY <1>5, <2>1 DEF Injection, IsInjective
<1>13. g \in Surjection(M, T)
  <2>1. ASSUME NEW i \in T PROVE \E z \in M : g[z] = i
    <3>1. i \in I /\ i < n
      BY <1>1, <1>9
    <3>2. PICK z \in A : rank[z] = i
      BY <1>8, <3>1 DEF Surjection
    <3>3. z \in M
      BY <3>1, <3>2
    <3>4. QED
      BY <3>2, <3>3
  <2>2. g \in [M -> T]
    BY <1>12 DEF Injection
  <2>3. QED
    BY <2>1, <2>2 DEF Surjection
<1>14. Cardinality(M) = m
  <2> HIDE DEF M, T, m, g
  <2>1. QED
    BY <1>11, <1>12, <1>13, FS_Injection
<1>15. M = FirstOf(n, A, R)
  BY DEF rank, below, FirstOf
<1>16. QED
  BY <1>14, <1>15 DEF N

\* A fraction is at most another if it is at most one that is.
LEMMA FractionsChain ==
  ASSUME NEW a \in Nat, NEW b \in Nat, NEW c \in Nat,
         NEW p \in Nat \ {0}, NEW q \in Nat \ {0}, NEW r \in Nat \ {0},
         a * q <= b * p, b * r <= c * q
  PROVE  /\ a * r <= c * p
         /\ a * q < b * p \/ b * r < c * q => a * r < c * p
<1>1. (a * q) * r <= (b * p) * r
  <2>1. a * q \in Nat /\ b * p \in Nat
    OBVIOUS
  <2>2. QED
    BY <2>1
<1>2. (b * r) * p <= (c * q) * p
  <2>1. b * r \in Nat /\ c * q \in Nat
    OBVIOUS
  <2>2. QED
    BY <2>1
<1>3. (a * r) * q = (a * q) * r /\ (b * p) * r = (b * r) * p /\ (c * q) * p = (c * p) * q
  OBVIOUS
<1>4. (a * r) * q <= (c * p) * q
  BY <1>1, <1>2, <1>3
<1>5. a * r <= c * p
  BY <1>4
<1>6. QED
  OBVIOUS

LEMMA AverageTypes ==
  ASSUME MeansInv, NEW z \in Zones
  PROVE  zoneLife[z].cnt \in Nat \ {0} /\ zoneLife[z].sum \in Nat
<1>1. zoneLife[z] \in Means
  BY DEF MeansInv
<1>2. zoneLife[z].sum \in 0 .. BPZ * Recent /\ zoneLife[z].cnt \in 1 .. BPZ
  BY <1>1 DEF Means
<1>3. BPZ * Recent \in Int /\ BPZ \in Int
  BY NumbersOK, LifetimeConstants
<1>4. QED
  BY <1>2, <1>3

\* The loop over can_zone compares the averages of two zones by a strict total order.
LEMMA NearerOrder ==
  ASSUME MeansInv, NEW l \in Nat
  PROVE  /\ \A x \in Zones : ~Nearer(l, x, x)
         /\ \A x, y, z \in Zones : Nearer(l, x, y) /\ Nearer(l, y, z) => Nearer(l, x, z)
         /\ \A x, y \in Zones : x = y \/ Nearer(l, x, y) \/ Nearer(l, y, x)
<1> DEFINE far(x) == Abs(l * zoneLife[x].cnt - zoneLife[x].sum)
           cnt(x) == zoneLife[x].cnt
<1>1. ASSUME NEW x \in Zones PROVE far(x) \in Nat /\ cnt(x) \in Nat \ {0} /\ x \in Nat
  <2>1. zoneLife[x].cnt \in Nat \ {0} /\ zoneLife[x].sum \in Nat
    BY AverageTypes
  <2>2. l * zoneLife[x].cnt \in Int
    BY <2>1
  <2>3. x \in Nat
    BY NumbersOK, LifetimeConstants DEF Zones
  <2>4. QED
    BY <2>1, <2>2, <2>3 DEF Abs
<1>2. ASSUME NEW x \in Zones, NEW y \in Zones
      PROVE  /\ far(x) * cnt(y) \in Nat
             /\ Nearer(l, x, y) <=> \/ far(x) * cnt(y) < far(y) * cnt(x)
                                    \/ far(x) * cnt(y) = far(y) * cnt(x) /\ x < y
  <2>1. far(x) * cnt(y) \in Nat
    <3> HIDE DEF far, cnt
    <3>1. QED
      BY <1>1
  <2>2. QED
    BY <2>1 DEF Nearer
<1> HIDE DEF far, cnt
<1>3. \A x \in Zones : ~Nearer(l, x, x)
  BY <1>1, <1>2
<1>4. ASSUME NEW x \in Zones, NEW y \in Zones, x # y
      PROVE  Nearer(l, x, y) \/ Nearer(l, y, x)
  <2>1. x \in Nat /\ y \in Nat
    BY <1>1
  <2>2. far(x) * cnt(y) \in Nat /\ far(y) * cnt(x) \in Nat
    BY <1>2
  <2>3. QED
    BY <1>2, <1>4, <2>1, <2>2
<1>5. ASSUME NEW x \in Zones, NEW y \in Zones, NEW z \in Zones,
             Nearer(l, x, y), Nearer(l, y, z)
      PROVE  Nearer(l, x, z)
  <2>1. /\ far(x) \in Nat /\ far(y) \in Nat /\ far(z) \in Nat
        /\ cnt(x) \in Nat \ {0} /\ cnt(y) \in Nat \ {0} /\ cnt(z) \in Nat \ {0}
        /\ x \in Nat /\ y \in Nat /\ z \in Nat
    BY <1>1
  <2>2. /\ far(x) * cnt(y) \in Nat /\ far(y) * cnt(x) \in Nat
        /\ far(y) * cnt(z) \in Nat /\ far(z) * cnt(y) \in Nat
        /\ far(x) * cnt(z) \in Nat /\ far(z) * cnt(x) \in Nat
    BY <1>2
  <2>3. /\ far(x) * cnt(y) <= far(y) * cnt(x)
        /\ far(x) * cnt(y) < far(y) * cnt(x) \/ x < y
    BY <1>2, <1>5, <2>2
  <2>4. /\ far(y) * cnt(z) <= far(z) * cnt(y)
        /\ far(y) * cnt(z) < far(z) * cnt(y) \/ y < z
    BY <1>2, <1>5, <2>2
  <2>5. /\ far(x) * cnt(z) <= far(z) * cnt(x)
        /\ far(x) * cnt(y) < far(y) * cnt(x) \/ far(y) * cnt(z) < far(z) * cnt(y) =>
              far(x) * cnt(z) < far(z) * cnt(x)
    BY <2>1, <2>3, <2>4, FractionsChain
  <2>6. far(x) * cnt(z) < far(z) * cnt(x) \/ (far(x) * cnt(z) = far(z) * cnt(x) /\ x < z)
    BY <2>1, <2>2, <2>3, <2>4, <2>5
  <2>7. QED
    BY <1>2, <2>6
<1>6. QED
  BY <1>3, <1>4, <1>5

LEMMA ZonesFinite == IsFiniteSet(Zones)
<1>1. QED
  BY FS_Interval, NumbersOK, LifetimeConstants DEF Zones

\* What the gl rounds of the code mark is among what those of ZnsStore may mark.
LEMMA MarkedAllowed ==
  ASSUME MeansInv, NEW l \in Nat, NEW words
  PROVE  Marked(l, words) \in Rounds(words) /\ Marked(l, words) \subseteq Free
<1> DEFINE cand == {z \in Free : words[z] = 0}
<1>2. Free \in SUBSET Zones
  BY DEF Free
<1>3. CASE cand = {}
  <2>1. Marked(l, words) = {z \in Free : \A y \in Free : z <= y}
    BY <1>3 DEF Marked
  <2>2. Emptiest(Free, [z \in Zones |-> 0]) = {z \in Free : \A y \in Free : z <= y}
    <3>1. \A z, y \in Free : ~(0 < 0) /\ [x \in Zones |-> 0][z] = 0
      BY <1>2
    <3>2. QED
      BY <3>1 DEF Emptiest
  <2>3. Rounds(words) = {Emptiest(Free, [z \in Zones |-> 0])}
    BY <1>3 DEF Rounds
  <2>4. QED
    BY <2>1, <2>2, <2>3
<1>4. CASE cand # {}
  <2> DEFINE R == {p \in cand \X cand : Nearer(l, p[1], p[2])}
             M == FirstOf(GL, cand, R)
  <2>1. \A y, z \in cand : <<y, z>> \in R <=> Nearer(l, y, z)
    OBVIOUS
  <2>2. IsFiniteSet(cand)
    BY <1>2, ZonesFinite, FS_Subset
  <2>3. GL \in Nat
    BY NumbersOK
  <2>4. OrderOf(R, cand)
    <3>1. \A x \in cand : x \in Zones
      BY <1>2
    <3> HIDE DEF cand, R
    <3>2. QED
      BY <2>1, <3>1, NearerOrder DEF OrderOf
  <2>5. Cardinality(M) = IF Cardinality(cand) < GL THEN Cardinality(cand) ELSE GL
    <3> HIDE DEF cand, R
    <3>1. QED
      BY <2>2, <2>3, <2>4, Ranks
  <2>6. Marked(l, words) = M
    <3>1. \A z \in cand : {y \in cand : <<y, z>> \in R} = {y \in cand : Nearer(l, y, z)}
      BY <2>1
    <3>2. M = {z \in cand : Cardinality({y \in cand : Nearer(l, y, z)}) < GL}
      BY <3>1 DEF FirstOf
    <3>3. QED
      BY <1>4, <3>2 DEF Marked
  <2>7. Rounds(words) = {c \in SUBSET cand : Cardinality(c) =
                              IF Cardinality(cand) < GL THEN Cardinality(cand) ELSE GL}
    BY <1>4 DEF Rounds
  <2>8. M \in SUBSET cand
    BY DEF FirstOf
  <2>9. QED
    BY <2>5, <2>6, <2>7, <2>8
<1>5. QED
  BY <1>3, <1>4

\* Where the lifetimes send a page is where ZnsStore may.
LEMMA TargetsAllowed ==
  ASSUME MeansInv, NEW l \in Nat, NEW z \in Targets(l)
  PROVE  /\ ByEmptyRate => z \in Emptiest(Free, wp) \cup Unset
         /\ ~ByEmptyRate => z \in ByLifetime \cup Unset
<1>1. CASE z \in Unset \/ ByEmptyRate
  BY <1>1 DEF Targets
<1>2. CASE z \notin Unset /\ ~ByEmptyRate
  <2>1. PICK words \in [Zones -> HeapWords] : z \in NearestOf(l, words)
    BY <1>2 DEF Targets
  <2> DEFINE marked == Marked(l, words)
             open == {y \in Zones : (y \in marked \/ words[y] = 1) /\ seenWp[y] < BPZ}
             opened == {y \in marked \cup {x \in Zones : words[x] = 1} : seenWp[y] < BPZ}
  <2>2. marked \in Rounds(words) /\ marked \subseteq Zones
    BY MarkedAllowed DEF Free
  <2>3. open = opened
    <3> HIDE DEF marked
    <3>1. QED
      BY <2>2
  <2>4. z \in FromMarked(words, marked)
    <3>1. CASE open = {}
      <4>1. z \in marked
        BY <2>1, <3>1 DEF NearestOf
      <4>2. FromMarked(words, marked) = marked
        BY <2>3, <3>1 DEF FromMarked
      <4>3. QED
        BY <4>1, <4>2
    <3>2. CASE open # {}
      <4>1. z \in Emptiest(open, seenWp)
        BY <2>1, <3>2 DEF NearestOf
      <4>2. FromMarked(words, marked) = Emptiest(open, seenWp)
        BY <2>3, <3>2 DEF FromMarked
      <4>3. QED
        BY <4>1, <4>2
    <3>3. QED
      BY <3>1, <3>2
  <2>5. z \in ByLifetime
    <3> HIDE DEF marked
    <3>1. QED
      BY <2>1, <2>2, <2>4 DEF ByLifetime
  <2>6. QED
    BY <1>2, <2>5
<1>3. QED
  BY <1>1, <1>2

\* A variance needs two valid blocks: nothing and a single lifetime have none.
LEMMA SpreadNeedsTwo ==
  ASSUME LifeTyped, LifeIffValid, NEW z \in Zones, WidelySpread(z)
  PROVE  Cardinality(InZone(z, "VALID")) >= 2
<1> DEFINE S == {b \in BlocksOf(z) : blockLife[b] > 0}
           V == InZone(z, "VALID")
           n == Cardinality(S)
           squares == [b \in S |-> blockLife[b] * blockLife[b]]
<1>1. n * SumOf(squares, S) - SumOf(blockLife, S) * SumOf(blockLife, S) > SL * n * n
  BY DEF WidelySpread
<1>2. V = {b \in Blocks : b[1] = z /\ valid[b] = "VALID"}
  BY DEF InZone
<1>3. IsFiniteSet(BlocksOf(z))
  BY ZoneSize
<1>4. S \in SUBSET V /\ V \in SUBSET BlocksOf(z)
  BY <1>2, NumbersOK, LifetimeConstants DEF BlocksOf, LifeTyped, LifeIffValid
<1>5. IsFiniteSet(V) /\ IsFiniteSet(S) /\ n <= Cardinality(V)
  <2> HIDE DEF S, V
  <2>1. QED
    BY <1>3, <1>4, FS_Subset
<1>6. n \in Nat /\ Cardinality(V) \in Nat
  <2> HIDE DEF S, V
  <2>1. QED
    BY <1>5, FS_CardinalityType
<1>7. n # 0
  <2>1. SUFFICES ASSUME n = 0 PROVE FALSE
    OBVIOUS
  <2>2. S = {}
    <3> HIDE DEF S
    <3>1. QED
      BY <1>5, <2>1, FS_EmptySet
  <2>3. \A f : SumOf(f, S) = 0
    <3>1. \A f : UNION {{b} \X (1 .. f[b]) : b \in S} = {}
      BY <2>2
    <3>2. QED
      BY <3>1, FS_EmptySet DEF SumOf
  <2>4. 0 * 0 - 0 * 0 > SL * 0 * 0
    <3> HIDE DEF S
    <3>1. QED
      BY <1>1, <2>1, <2>3
  <2>5. QED
    BY <2>4, NumbersOK, LifetimeConstants
<1>8. n # 1
  <2>1. SUFFICES ASSUME n = 1 PROVE FALSE
    OBVIOUS
  <2>2. PICK c : S = {c}
    <3> HIDE DEF S
    <3>1. QED
      BY <1>5, <2>1, FS_Singleton
  <2>3. c \in Blocks /\ blockLife[c] \in Nat
    <3>1. c \in S
      BY <2>2
    <3>2. c \in Blocks /\ blockLife[c] > 0 /\ blockLife[c] \in -1 .. Recent
      BY <3>1 DEF BlocksOf, LifeTyped
    <3>3. QED
      BY <3>2, NumbersOK, LifetimeConstants
  <2>4. ASSUME NEW f, f[c] \in Nat PROVE SumOf(f, S) = f[c]
    <3> DEFINE I == 1 .. f[c]
               C == {c}
    <3>1. UNION {{b} \X (1 .. f[b]) : b \in S} = C \X I
      BY <2>2
    <3>2. IsFiniteSet(I) /\ Cardinality(I) = f[c]
      <4> DEFINE n1 == f[c]
      <4>1. n1 \in Nat
        BY <2>4
      <4> HIDE DEF n1
      <4>2. IsFiniteSet(1 .. n1) /\ Cardinality(1 .. n1) = n1
        BY <4>1, FS_Interval
      <4>3. QED
        BY <4>2 DEF n1
    <3>3. IsFiniteSet(C) /\ Cardinality(C) = 1
      BY FS_Singleton
    <3>4. Cardinality(C \X I) = 1 * f[c]
      <4> HIDE DEF C, I
      <4>1. QED
        BY <3>2, <3>3, FS_Product
    <3>5. SumOf(f, S) = Cardinality(C \X I)
      BY <3>1 DEF SumOf
    <3>6. QED
      <4> HIDE DEF C, I, S
      <4>1. QED
        BY <2>4, <3>4, <3>5
  <2>5. blockLife[c] * blockLife[c] \in Nat /\ squares[c] = blockLife[c] * blockLife[c]
    BY <2>2, <2>3
  <2>6. /\ SumOf(blockLife, S) = blockLife[c]
        /\ SumOf(squares, S) = blockLife[c] * blockLife[c]
    <3> HIDE DEF S, squares
    <3>1. QED
      BY <2>3, <2>4, <2>5
  <2>7. 1 * (blockLife[c] * blockLife[c]) - blockLife[c] * blockLife[c] > SL * 1 * 1
    <3> HIDE DEF S, squares
    <3>1. QED
      BY <1>1, <2>1, <2>6
  <2>8. QED
    BY <2>5, <2>7, NumbersOK, LifetimeConstants
<1>9. QED
  <2> HIDE DEF S, V
  <2>1. Cardinality(V) >= 2
    BY <1>5, <1>6, <1>7, <1>8
  <2>2. QED
    BY <2>1 DEF V

-----------------------------------------------------------------------------
(* Every step is one of ZnsStore.                                          *)

\* A page goes where Insert may put it.
LEMMA PlaceAllowed ==
  ASSUME MeansInv, NEW life \in [Keys -> Ages], NEW page, NEW keys \in SUBSET Keys, NEW add,
         NEW after, Place(life, page, keys, add, after)
  PROVE  Insert(page, keys, after)
<1> DEFINE l == get_page_lifetime(life, keys)
<1>1. PICK z \in Targets(l) : WritePage(z, page, keys, after)
  BY DEF Place
<1>2. l \in Nat
  <2>1. l \in 0 .. Recent
    BY PageLife DEF Ages
  <2>2. QED
    BY <2>1, LifetimeConstants
<1>3. /\ ByEmptyRate => z \in Emptiest(Free, wp) \cup Unset
      /\ ~ByEmptyRate => z \in ByLifetime \cup Unset
  <2> HIDE DEF l
  <2>1. QED
    BY <1>1, <1>2, TargetsAllowed
<1>4. seenWp' = IF ByEmptyRate THEN wp ELSE seenWp
  BY DEF Place
<1>5. QED
  BY <1>1, <1>3, <1>4 DEF Insert

\* A zone whose lifetimes vary is one that may.
LEMMA DetectAllowed ==
  ASSUME LifeTyped, LifeIffValid, DetectSpread
  PROVE  Detect
<1> DEFINE spread == {z \in Zones : WidelySpread(z)}
           due == {z \in Zones \ gcQueue : LowSpace(z) /\ (HighGarbage(z) \/ z \in spread)}
<1>1. spread \in SUBSET MayVary
  BY SpreadNeedsTwo, LifetimeConstants DEF MayVary
<1>2. due = {z \in Zones \ gcQueue : LowSpace(z) /\ (HighGarbage(z) \/ WidelySpread(z))}
  OBVIOUS
<1>3. /\ pc = "detect" /\ seenWp' = wp
      /\ UNCHANGED <<device, index, pend, op, load, eof, upd, gc, live, astray>>
      /\ LET new  == Queued(due)
             full == new # {} /\ Enough(gcQueue \cup new)
         IN  /\ gcQueue' = gcQueue \cup new
             /\ gcFlag' = full
             /\ IF full THEN pc' = "gczone" /\ UNCHANGED ret
                        ELSE pc' = ret /\ ret' = "request"
  BY <1>2 DEF DetectSpread
<1>4. QED
  BY <1>1, <1>3 DEF Detect

\* The lifetimes of keys with which the page in hand is placed.
LEMMA ChangeLifeType ==
  ASSUME LifeTyped
  PROVE  ChangeLife \in [Keys -> Ages]
<1>1. keyLife \in [Keys -> Ages] /\ 0 \in Ages
  BY LifetimeConstants DEF LifeTyped, Ages
<1>2. ChangeLife = keyLife \/ ChangeLife = [keyLife EXCEPT ![op.key] = 0]
  BY DEF ChangeLife
<1>3. QED
  BY <1>1, <1>2

\* What the buffers hold is a page.
LEMMA BufferTypes ==
  ASSUME TypeInv
  PROVE  /\ pend.recs \in Pages /\ upd.acc \in Pages /\ gc.acc \in Pages
         /\ KeysOf(pend.recs) \in SUBSET Keys /\ KeysOf(upd.acc) \in SUBSET Keys
         /\ KeysOf(gc.acc) \cup gc.cut \in SUBSET Keys
<1>1. pend.recs \in Pages /\ upd.acc \in Pages /\ gc.acc \in Pages /\ gc.cut \in SUBSET Keys
  BY DEF TypeInv, TypeOK, Buffers, Updates, Collections
<1>2. QED
  BY <1>1, PageType

LEMMA StepRefines ==
  ASSUME LifeInv, [LifeNext]_lifeVars
  PROVE  [Next]_vars
<1>1. MeansInv /\ LifeTyped /\ LifeIffValid /\ TypeInv
  BY DEF LifeInv
<1>2. keyLife \in [Keys -> Ages] /\ ChangeLife \in [Keys -> Ages]
  BY <1>1, ChangeLifeType DEF LifeTyped
<1>3. /\ KeysOf(pend.recs) \in SUBSET Keys /\ KeysOf(upd.acc) \in SUBSET Keys
      /\ KeysOf(gc.acc) \cup gc.cut \in SUBSET Keys
  BY <1>1, BufferTypes
<1>4. CASE PlaceBuffer
  <2>1. Insert(pend.recs, KeysOf(pend.recs), "serve")
    BY <1>1, <1>2, <1>3, <1>4, PlaceAllowed DEF PlaceBuffer
  <2>2. FlushBuffer
    BY <1>4, <2>1 DEF PlaceBuffer, FlushBuffer
  <2>3. QED
    BY <2>2 DEF Next, Serving
<1>5. CASE PlaceSpill
  <2>1. Insert(upd.acc, KeysOf(upd.acc), "update")
    BY <1>1, <1>2, <1>3, <1>5, PlaceAllowed DEF PlaceSpill
  <2>2. SpillUpdate
    BY <1>5, <2>1 DEF PlaceSpill, SpillUpdate
  <2>3. QED
    BY <2>2 DEF Next, Serving
<1>6. CASE PlaceLast
  <2>1. Insert(upd.acc, KeysOf(upd.acc), "updated")
    BY <1>1, <1>2, <1>3, <1>6, PlaceAllowed DEF PlaceLast
  <2>2. LastPage
    BY <1>6, <2>1 DEF PlaceLast, LastPage
  <2>3. QED
    BY <2>2 DEF Next, Serving
<1>7. CASE PlaceGcSpill
  <2>1. Insert(gc.acc, KeysOf(gc.acc) \cup gc.cut, "gcread")
    BY <1>1, <1>2, <1>3, <1>7, PlaceAllowed DEF PlaceGcSpill
  <2>2. SpillGc
    BY <1>7, <2>1 DEF PlaceGcSpill, SpillGc
  <2>3. QED
    BY <2>2 DEF Next, Serving
<1>8. CASE PlaceGcRest
  <2>1. Insert(gc.acc, KeysOf(gc.acc) \cup gc.cut, "gcreset")
    BY <1>1, <1>2, <1>3, <1>8, PlaceAllowed DEF PlaceGcRest
  <2>2. EndZone
    BY <1>8, <2>1 DEF PlaceGcRest, EndZone
  <2>3. QED
    BY <2>2 DEF Next, Serving
<1>9. CASE DetectSpread
  BY <1>1, <1>9, DetectAllowed DEF Next, Serving
<1>10. CASE InvalidateBlock \/ RewriteRecord \/ ForgetZone
  BY <1>10 DEF InvalidateBlock, RewriteRecord, ForgetZone, Next, Serving
<1>11. CASE Ageless
  BY <1>11 DEF Ageless, EndZoneEmpty, Next, Serving
<1>12. CASE UNCHANGED lifeVars
  BY <1>12 DEF lifeVars
<1>13. QED
  BY <1>4, <1>5, <1>6, <1>7, <1>8, <1>9, <1>10, <1>11, <1>12 DEF LifeNext

-----------------------------------------------------------------------------
(* Every step keeps LifeInv.                                               *)

\* A page of the keys, of lifetime l, is written to block b.
Placed(life, page, keys, add, b, l) ==
    /\ b \in Blocks /\ l \in Ages /\ \A k \in keys : l <= life[k]
    /\ media' = [media EXCEPT ![b] = page]
    /\ valid' = [valid EXCEPT ![b] = "VALID"]
    /\ keyLife' = IF add THEN life ELSE Aged(life)
    /\ blockLife' = [blockLife EXCEPT ![b] = l]
    /\ zoneLife' = [zoneLife EXCEPT ![b[1]] = MeanOf(b[1], blockLife', valid')]

LEMMA PlaceEffect ==
  ASSUME TypeInv, NEW life \in [Keys -> Ages], NEW page, NEW keys \in SUBSET Keys, NEW add,
         NEW after \in Labels, Place(life, page, keys, add, after)
  PROVE  \/ pc' \in Halts /\ keyLife' = life /\ UNCHANGED <<media, valid, blockLife, zoneLife>>
         \/ /\ pc' \in {after, "detect"} /\ pc' \notin Halts
            /\ \E b \in Blocks, l \in Ages : Placed(life, page, keys, add, b, l)
<1> DEFINE l == get_page_lifetime(life, keys)
<1>1. PICK z \in Targets(l) :
         /\ WritePage(z, page, keys, after)
         /\ IF pc' \in Halts
            THEN keyLife' = life /\ UNCHANGED <<blockLife, zoneLife>>
            ELSE Refresh(life, z, l, add)
  BY DEF Place
<1>2. l \in Ages /\ \A k \in keys : l <= life[k]
  BY PageLife
<1> HIDE DEF l
<1>3. CASE z \in Zones /\ wp[z] < BPZ
  <2> DEFINE b == <<z, wp[z]>>
  <2>1. pc' \in {after, "detect"}
    BY <1>1, <1>3 DEF WritePage
  <2>2. pc' \notin Halts
    BY <2>1 DEF Labels, Halts
  <2>3. wp[z] \in Offsets
    BY <1>3, NumbersOK DEF TypeInv, TypeOK, Offsets
  <2>4. b \in Blocks
    BY <1>3, <2>3, BlocksDef
  <2>5. Refresh(life, z, l, add)
    BY <1>1, <2>2
  <2>6. media' = [media EXCEPT ![b] = page] /\ valid' = [valid EXCEPT ![b] = "VALID"]
    BY <1>1, <1>3 DEF WritePage
  <2>7. Placed(life, page, keys, add, b, l)
    BY <1>2, <2>4, <2>5, <2>6 DEF Placed, Refresh
  <2>8. QED
    BY <1>2, <2>1, <2>2, <2>4, <2>7
<1>4. CASE ~(z \in Zones /\ wp[z] < BPZ)
  <2>1. pc' \in Halts /\ UNCHANGED <<media, valid>>
    BY <1>1, <1>4 DEF WritePage, Halt, Halts, device
  <2>2. QED
    BY <1>1, <2>1
<1>5. QED
  BY <1>3, <1>4

\* The lifetimes of blocks and zones after a page was placed.
LEMMA PlaceKeeps ==
  ASSUME TypeInv, LifeTyped, MeansInv, LifeIffValid,
         NEW life \in [Keys -> Ages], NEW page, NEW keys \in SUBSET Keys, NEW add,
         NEW after \in Labels, Place(life, page, keys, add, after)
  PROVE  /\ blockLife' \in [Blocks -> -1 .. Recent] /\ MeansInv' /\ LifeIffValid'
         /\ \/ pc' \in Halts /\ keyLife' = life
            \/ pc' \in {after, "detect"} /\ keyLife' = IF add THEN life ELSE Aged(life)
<1>1. CASE /\ pc' \in Halts /\ keyLife' = life
           /\ UNCHANGED <<media, valid, blockLife, zoneLife>>
  BY <1>1 DEF LifeTyped, MeansInv, LifeIffValid
<1>2. ASSUME NEW b \in Blocks, NEW l \in Ages, Placed(life, page, keys, add, b, l),
             pc' \in {after, "detect"}
      PROVE  /\ blockLife' \in [Blocks -> -1 .. Recent] /\ MeansInv' /\ LifeIffValid'
             /\ pc' \in {after, "detect"} /\ keyLife' = IF add THEN life ELSE Aged(life)
  <2>1. /\ valid' = [valid EXCEPT ![b] = "VALID"]
        /\ keyLife' = IF add THEN life ELSE Aged(life)
        /\ blockLife' = [blockLife EXCEPT ![b] = l]
        /\ zoneLife' = [zoneLife EXCEPT ![b[1]] = MeanOf(b[1], blockLife', valid')]
    BY <1>2 DEF Placed
  <2>2. l \in -1 .. Recent /\ l >= 0
    BY LifetimeConstants DEF Ages
  <2>3. blockLife' \in [Blocks -> -1 .. Recent]
    BY <2>1, <2>2 DEF LifeTyped
  <2>4. valid \in [Blocks -> {"EMPTY", "VALID", "INVALID"}]
    BY DEF TypeInv, TypeOK
  <2>5. LifeIffValid'
    BY <2>1, <2>2, <2>4 DEF LifeTyped, LifeIffValid
  <2>6. b[1] \in Zones /\ b \in BlocksOf(b[1])
    BY BlocksDef DEF BlocksOf
  <2>7. blockLife'[b] >= 0 /\ valid'[b] = "VALID"
    BY <2>1, <2>2, <2>4 DEF LifeTyped
  <2>8. MeanOf(b[1], blockLife', valid') \in Means
    BY <2>3, <2>6, <2>7, MeanType
  <2>9. MeansInv'
    BY <2>1, <2>8 DEF MeansInv
  <2>10. QED
    BY <1>2, <2>1, <2>3, <2>5, <2>9
<1>3. QED
  BY <1>1, <1>2, PlaceEffect

\* Lifetimes that respect the order in which keys were changed, and are not 0.
Ordered(life, seen) ==
    \A k \in Keys : \A j \in seen[k] : life[j] < life[k] \/ life[k] = Recent

Grown(life) == \A k \in Keys : life[k] > 0

\* A change of a key is later than all changes before it.
LEMMA ChangeKeeps ==
  ASSUME LifeTyped, Aging, RecencyOrder, pc \in Labels, op.key \in Keys, NoteChange
  PROVE  /\ since' \in [Keys -> SUBSET Keys]
         /\ Ordered(ChangeLife, since')
<1>1. CASE ~Changing
  BY <1>1 DEF NoteChange, ChangeLife, LifeTyped, RecencyOrder, Ordered
<1>2. CASE Changing
  <2> DEFINE life == [keyLife EXCEPT ![op.key] = 0]
             now == [j \in Keys |-> IF j = op.key THEN {} ELSE since[j] \cup {op.key}]
  <2>1. ChangeLife = life /\ since' = now
    BY <1>2 DEF NoteChange, ChangeLife
  <2>2. \A k \in Keys : life[k] = IF k = op.key THEN 0 ELSE keyLife[k]
    BY DEF LifeTyped
  <2>3. \A k \in Keys : k # op.key => keyLife[k] > 0
    BY DEF Aging
  <2>4. ASSUME NEW k \in Keys, NEW j \in now[k] PROVE life[j] < life[k] \/ life[k] = Recent
    <3>1. k # op.key /\ j \in since[k] \cup {op.key}
      BY <2>4
    <3>2. CASE j = op.key
      <4>1. life[j] = 0 /\ life[k] = keyLife[k] /\ keyLife[k] > 0
        BY <2>2, <2>3, <3>1, <3>2
      <4>2. QED
        BY <4>1
    <3>3. CASE j # op.key
      <4>1. j \in since[k] /\ j \in Keys
        BY <3>1, <3>3 DEF LifeTyped
      <4>2. keyLife[j] < keyLife[k] \/ keyLife[k] = Recent
        BY <4>1 DEF RecencyOrder
      <4>3. QED
        BY <2>2, <3>1, <3>3, <4>1, <4>2
    <3>4. QED
      BY <3>2, <3>3
  <2>5. now \in [Keys -> SUBSET Keys]
    BY DEF LifeTyped
  <2>6. QED
    <3> HIDE DEF life, now
    <3>1. QED
      BY <2>1, <2>4, <2>5 DEF Ordered
<1>3. QED
  BY <1>1, <1>2

\* After a page was placed by the lifetimes of life.  No key has lifetime 0 when
\* additions are.
LEMMA PlaceOrder ==
  ASSUME LifeInv, NEW life \in [Keys -> Ages], NEW page, NEW keys \in SUBSET Keys,
         NEW add \in BOOLEAN, NEW after \in Labels, Place(life, page, keys, add, after),
         add => Grown(life),
         since' \in [Keys -> SUBSET Keys], met' \in BOOLEAN, Ordered(life, since')
  PROVE  LifeTyped' /\ MeansInv' /\ LifeIffValid' /\ Aging' /\ RecencyOrder'
<1>1. TypeInv /\ LifeTyped /\ MeansInv /\ LifeIffValid
  BY DEF LifeInv
<1>2. /\ blockLife' \in [Blocks -> -1 .. Recent] /\ MeansInv' /\ LifeIffValid'
      /\ \/ pc' \in Halts /\ keyLife' = life
         \/ pc' \in {after, "detect"} /\ keyLife' = IF add THEN life ELSE Aged(life)
  BY <1>1, PlaceKeeps
<1>3. Ordered(life, since') => \A k \in Keys : \A j \in since'[k] :
                                   life[j] < life[k] \/ life[k] = Recent
  BY DEF Ordered
<1>4. /\ Aged(life) \in [Keys -> Ages] /\ \A k \in Keys : Aged(life)[k] > 0
      /\ \A j, k \in Keys : life[j] < life[k] \/ life[k] = Recent =>
             Aged(life)[j] < Aged(life)[k] \/ Aged(life)[k] = Recent
  BY AgedType
<1>5. keyLife' = life \/ keyLife' = Aged(life)
  BY <1>2
<1>6. LifeTyped'
  BY <1>2, <1>4, <1>5 DEF LifeTyped
<1>7. Aging'
  <2>1. pc' \in Halts \/ \A k \in Keys : keyLife'[k] > 0
    <3>1. CASE add
      BY <1>2, <3>1 DEF Grown
    <3>2. CASE ~add
      BY <1>2, <1>4, <3>2
    <3>3. QED
      BY <3>1, <3>2
  <2>2. pc' \in Halts => pc' \notin Labels
    BY DEF Halts, Labels
  <2>3. QED
    BY <2>1, <2>2 DEF Aging
<1>8. RecencyOrder'
  <2>1. \A k \in Keys : \A j \in since'[k] : j \in Keys
    OBVIOUS
  <2>2. CASE keyLife' = life
    BY <1>3, <2>2 DEF RecencyOrder
  <2>3. CASE keyLife' = Aged(life)
    BY <1>3, <1>4, <2>1, <2>3 DEF RecencyOrder
  <2>4. QED
    BY <1>5, <2>2, <2>3
<1>9. QED
  BY <1>2, <1>6, <1>7, <1>8

\* No key has lifetime 0 but that of an update.
LEMMA NoneNew ==
  ASSUME Aging, pc \in Labels \ {"update"}
  PROVE  Grown(keyLife)
  BY DEF Aging, Grown

LEMMA PlaceLife ==
  ASSUME LifeInv, PlaceBuffer \/ PlaceSpill \/ PlaceLast \/ PlaceGcSpill \/ PlaceGcRest
  PROVE  LifeTyped' /\ MeansInv' /\ LifeIffValid' /\ Aging' /\ RecencyOrder'
<1>1. TypeInv /\ LifeTyped /\ Aging /\ RecencyOrder
  BY DEF LifeInv
<1>2. keyLife \in [Keys -> Ages] /\ since \in [Keys -> SUBSET Keys] /\ met \in BOOLEAN
      /\ ChangeLife \in [Keys -> Ages]
  BY <1>1, ChangeLifeType DEF LifeTyped
<1>3. /\ KeysOf(pend.recs) \in SUBSET Keys /\ KeysOf(upd.acc) \in SUBSET Keys
      /\ KeysOf(gc.acc) \cup gc.cut \in SUBSET Keys
  BY <1>1, BufferTypes
<1>4. Ordered(keyLife, since)
  BY <1>1 DEF RecencyOrder, Ordered
<1>5. {"serve", "update", "updated", "gcread", "gcreset"} \subseteq Labels
  BY DEF Labels
<1>6. CASE PlaceBuffer
  <2>1. /\ pc = "serve" /\ since' = since /\ met' = met
        /\ Place(keyLife, pend.recs, KeysOf(pend.recs), TRUE, "serve")
    BY <1>6 DEF PlaceBuffer
  <2>2. Grown(keyLife)
    BY <1>1, <1>5, <2>1, NoneNew
  <2>3. QED
    BY <1>2, <1>3, <1>4, <1>5, <2>1, <2>2, PlaceOrder
<1>7. CASE PlaceSpill
  <2>1. /\ pc = "update" /\ met' = TRUE /\ NoteChange
        /\ Place(ChangeLife, upd.acc, KeysOf(upd.acc), FALSE, "update")
    BY <1>7 DEF PlaceSpill
  <2>2. op.key \in Keys
    BY <1>1, <2>1, Typed
  <2>3. /\ since' \in [Keys -> SUBSET Keys]
        /\ Ordered(ChangeLife, since')
    BY <1>1, <1>5, <2>1, <2>2, ChangeKeeps
  <2>4. QED
    BY <1>2, <1>3, <1>5, <2>1, <2>3, PlaceOrder
<1>8. CASE PlaceLast
  <2>1. /\ pc = "update" /\ since' = since /\ met' = met
        /\ Place(keyLife, upd.acc, KeysOf(upd.acc), FALSE, "updated")
    BY <1>8 DEF PlaceLast
  <2>2. QED
    BY <1>2, <1>3, <1>4, <1>5, <2>1, PlaceOrder
<1>9. CASE PlaceGcSpill
  <2>1. /\ pc = "gcread" /\ since' = since /\ met' = met
        /\ Place(keyLife, gc.acc, KeysOf(gc.acc) \cup gc.cut, FALSE, "gcread")
    BY <1>9 DEF PlaceGcSpill
  <2>2. QED
    BY <1>2, <1>3, <1>4, <1>5, <2>1, PlaceOrder
<1>10. CASE PlaceGcRest
  <2>1. /\ pc = "gcread" /\ since' = since /\ met' = met
        /\ Place(keyLife, gc.acc, KeysOf(gc.acc) \cup gc.cut, FALSE, "gcreset")
    BY <1>10 DEF PlaceGcRest
  <2>2. QED
    BY <1>2, <1>3, <1>4, <1>5, <2>1, PlaceOrder
<1>11. QED
  BY <1>6, <1>7, <1>8, <1>9, <1>10

LEMMA InvalidateLife ==
  ASSUME LifeInv, InvalidateBlock
  PROVE  LifeTyped' /\ MeansInv' /\ LifeIffValid' /\ Aging' /\ RecencyOrder'
<1>1. /\ StartUpdate /\ pc = "serve" /\ UNCHANGED <<keyLife, zoneLife, met, since, op>>
      /\ blockLife' = IF pc' \in Halts THEN blockLife ELSE [blockLife EXCEPT ![index[op.key]] = -1]
  BY DEF InvalidateBlock, StartUpdate
<1>2. TypeInv /\ LifeTyped /\ MeansInv /\ LifeIffValid /\ Aging /\ RecencyOrder
  BY DEF LifeInv
<1>3. /\ valid \in [Blocks -> {"EMPTY", "VALID", "INVALID"}] /\ op.key \in Keys
      /\ index[op.key] \in Blocks \cup {NoBlock}
  BY <1>1, <1>2, Typed DEF TypeInv, TypeOK
<1>4. Grown(keyLife)
  BY <1>1, <1>2, NoneNew DEF Labels
<1>5. MeansInv' /\ RecencyOrder' /\ Aging'
  BY <1>1, <1>2, <1>4 DEF MeansInv, RecencyOrder, Aging, Grown
<1>6. -1 \in -1 .. Recent /\ ~(-1 >= 0)
  BY LifetimeConstants
<1>7. CASE index[op.key] = NoBlock
  <2>1. pc' \in Halts /\ valid' = valid
    BY <1>1, <1>7 DEF StartUpdate, Halt, Halts
  <2>2. QED
    BY <1>1, <1>2, <1>5, <2>1 DEF LifeTyped, LifeIffValid
<1>8. CASE index[op.key] # NoBlock
  <2>1. pc' = "update" /\ valid' = [valid EXCEPT ![index[op.key]] = "INVALID"]
    BY <1>1, <1>8 DEF StartUpdate, Invalidate
  <2>2. blockLife' = [blockLife EXCEPT ![index[op.key]] = -1]
    BY <1>1, <2>1 DEF Halts
  <2>3. LifeTyped'
    BY <1>1, <1>2, <1>6, <2>2 DEF LifeTyped
  <2>4. LifeIffValid'
    BY <1>2, <1>3, <1>6, <1>8, <2>1, <2>2 DEF LifeTyped, LifeIffValid
  <2>5. QED
    BY <1>5, <2>3, <2>4
<1>9. QED
  BY <1>7, <1>8

LEMMA RewriteLife ==
  ASSUME LifeInv, RewriteRecord
  PROVE  LifeTyped' /\ MeansInv' /\ LifeIffValid' /\ Aging' /\ RecencyOrder'
<1>1. /\ pc = "update" /\ UNCHANGED <<valid, blockLife, zoneLife, op, pc>>
      /\ keyLife' = ChangeLife /\ NoteChange /\ met' = FALSE
  BY DEF RewriteRecord, UpdateRecord, device
<1>2. TypeInv /\ LifeTyped /\ MeansInv /\ LifeIffValid /\ Aging /\ RecencyOrder
  BY DEF LifeInv
<1>3. op.key \in Keys /\ pc \in Labels
  BY <1>1, <1>2, Typed DEF Labels
<1>4. /\ since' \in [Keys -> SUBSET Keys] /\ ChangeLife \in [Keys -> Ages]
      /\ Ordered(ChangeLife, since')
  BY <1>1, <1>2, <1>3, ChangeKeeps, ChangeLifeType
<1>5. LifeTyped' /\ MeansInv' /\ LifeIffValid' /\ RecencyOrder'
  BY <1>1, <1>2, <1>4 DEF LifeTyped, MeansInv, LifeIffValid, RecencyOrder, Ordered
<1>6. \A k \in Keys : k # op.key => ChangeLife[k] > 0
  BY <1>1, <1>2, <1>3 DEF Aging, ChangeLife, LifeTyped
<1>7. Aging'
  BY <1>1, <1>6 DEF Aging
<1>8. QED
  BY <1>5, <1>7

LEMMA ForgetLife ==
  ASSUME LifeInv, ForgetZone
  PROVE  LifeTyped' /\ MeansInv' /\ LifeIffValid' /\ Aging' /\ RecencyOrder'
<1>1. /\ valid' = Cleared(gc.zone) /\ blockLife' = Forgotten /\ pc = "gcreset" /\ pc' = "gczone"
      /\ zoneLife' = [zoneLife EXCEPT ![gc.zone] = [sum |-> 0, cnt |-> 1]]
      /\ UNCHANGED <<keyLife, met, since, op>>
  BY DEF ForgetZone, ResetZone
<1>2. LifeTyped /\ MeansInv /\ LifeIffValid /\ Aging /\ RecencyOrder
  BY DEF LifeInv
<1>3. -1 \in -1 .. Recent /\ ~(-1 >= 0)
  BY LifetimeConstants
<1>4. LifeTyped'
  BY <1>1, <1>2, <1>3 DEF LifeTyped, Forgotten
<1>5. LifeIffValid'
  BY <1>1, <1>2, <1>3 DEF LifeIffValid, Forgotten, Cleared
<1>6. MeansInv'
  <2>1. BPZ * Recent \in Nat /\ BPZ \in Nat \ {0}
    BY NumbersOK, LifetimeConstants
  <2>2. 0 \in 0 .. BPZ * Recent /\ 1 \in 1 .. BPZ
    BY <2>1
  <2>3. [sum |-> 0, cnt |-> 1] \in Means
    BY <2>2 DEF Means
  <2>4. QED
    BY <1>1, <1>2, <2>3 DEF MeansInv
<1>7. Aging' /\ RecencyOrder'
  BY <1>1, <1>2 DEF Aging, RecencyOrder, Labels
<1>8. QED
  BY <1>4, <1>5, <1>6, <1>7

\* Steps that change no lifetime, no state of a block and not the request, or come from
\* another place than the update.
LEMMA OtherLife ==
  ASSUME LifeInv, DetectSpread \/ Ageless \/ UNCHANGED lifeVars
  PROVE  /\ LifeTyped' /\ MeansInv' /\ LifeIffValid' /\ Aging' /\ RecencyOrder'
         /\ UNCHANGED <<valid, media, lifetimes, met, since>>
<1>1. TypeInv /\ LifeTyped /\ MeansInv /\ LifeIffValid /\ Aging /\ RecencyOrder
  BY DEF LifeInv
<1>2. UNCHANGED <<valid, media, keyLife, blockLife, zoneLife, met, since>>
  <2>1. UNCHANGED <<lifetimes, met, since>>
    BY DEF DetectSpread, Ageless, lifeVars
  <2>2. ASSUME DetectSpread \/ UNCHANGED lifeVars
        PROVE  UNCHANGED <<valid, media>>
    BY <2>2 DEF DetectSpread, lifeVars, vars, device
  <2>3. ASSUME ReadRequest \/ ReadPastEnd \/ Exit \/ ServeAdd \/ EndUpdate
        PROVE  UNCHANGED <<valid, media>>
    BY <2>3 DEF ReadRequest, ReadPastEnd, Exit, ServeAdd, EndUpdate, device
  <2>4. ASSUME StartZone \/ GcRecord \/ NextBlock \/ NextBlockEmpty
        PROVE  UNCHANGED <<valid, media>>
    BY <2>4 DEF StartZone, GcRecord, NextBlock, NextBlockEmpty, device
  <2>5. ASSUME EndZoneEmpty \/ OverrunFault \/ EndGc \/ Stopped
        PROVE  UNCHANGED <<valid, media>>
    BY <2>5 DEF EndZoneEmpty, EndZone, OverrunFault, EndGc, Stopped, device, vars
  <2>6. UNCHANGED <<valid, media>>
    BY <2>2, <2>3, <2>4, <2>5 DEF Ageless
  <2>7. QED
    BY <2>1, <2>6 DEF lifetimes
<1>3. LifeTyped' /\ MeansInv' /\ LifeIffValid' /\ RecencyOrder'
  BY <1>1, <1>2 DEF LifeTyped, MeansInv, LifeIffValid, RecencyOrder
<1>4. CASE pc = "update"
  <2>1. UNCHANGED vars
    <3>1. ~DetectSpread /\ ~Ageless
      BY <1>4 DEF DetectSpread, Ageless, ReadRequest, ReadPastEnd, Exit, ServeAdd, EndUpdate,
                  StartZone, GcRecord, NextBlock, NextBlockEmpty, EndZoneEmpty, EndZone,
                  OverrunFault, EndGc, Stopped, Halts
    <3>2. QED
      BY <3>1 DEF lifeVars
  <2>2. QED
    BY <1>1, <1>2, <1>3, <2>1 DEF Aging, vars, lifetimes
<1>5. CASE pc \in Labels \ {"update"}
  <2>1. \A k \in Keys : keyLife[k] > 0
    BY <1>1, <1>5, NoneNew DEF Grown
  <2>2. QED
    BY <1>2, <1>3, <2>1 DEF Aging, lifetimes
<1>6. CASE pc \notin Labels
  <2>1. pc \in Halts
    BY <1>1, <1>6 DEF TypeInv, TypeOK
  <2>2. UNCHANGED vars
    <3>1. CASE UNCHANGED lifeVars
      BY <3>1 DEF lifeVars
    <3>2. CASE DetectSpread \/ Ageless
      BY <2>1, <3>2
         DEF DetectSpread, Ageless, ReadRequest, ReadPastEnd, Exit, ServeAdd, EndUpdate,
             StartZone, GcRecord, NextBlock, NextBlockEmpty, EndZoneEmpty, EndZone,
             OverrunFault, EndGc, Stopped, Halts
    <3>3. QED
      BY <3>1, <3>2
  <2>3. QED
    BY <1>2, <1>3, <1>6, <2>2 DEF Aging, vars, lifetimes
<1>7. QED
  BY <1>4, <1>5, <1>6

LEMMA StepLife ==
  ASSUME LifeInv, [LifeNext]_lifeVars
  PROVE  LifeInv'
<1>1. TypeInv'
  BY StepRefines, StepType DEF LifeInv
<1>2. LifeTyped' /\ MeansInv' /\ LifeIffValid' /\ Aging' /\ RecencyOrder'
  BY PlaceLife, InvalidateLife, RewriteLife, ForgetLife, OtherLife DEF LifeNext
<1>3. QED
  BY <1>1, <1>2 DEF LifeInv

LEMMA InitLife == LifeInit => LifeInv
<1> SUFFICES ASSUME LifeInit PROVE LifeInv
  OBVIOUS
<1>1. Init
  BY DEF LifeInit
<1>2. Recent \in Ages /\ -1 \in -1 .. Recent /\ ~(-1 >= 0) /\ Recent > 0
  BY LifetimeConstants DEF Ages
<1>3. /\ keyLife = [k \in Keys |-> Recent] /\ blockLife = [b \in Blocks |-> -1]
      /\ zoneLife = [z \in Zones |-> [sum |-> Recent, cnt |-> 1]]
      /\ met = FALSE /\ since = [k \in Keys |-> Keys]
  BY DEF LifeInit
<1>4. LifeTyped /\ Aging /\ RecencyOrder
  BY <1>2, <1>3 DEF LifeTyped, Aging, RecencyOrder
<1>5. LifeIffValid
  BY <1>1, <1>2, <1>3 DEF LifeIffValid, Init
<1>6. MeansInv
  <2>1. Recent \in 0 .. BPZ * Recent /\ 1 \in 1 .. BPZ
    <3>1. BPZ \in Nat \ {0} /\ Recent \in Nat
      BY NumbersOK, LifetimeConstants
    <3>2. Recent <= BPZ * Recent
      BY <3>1
    <3>3. QED
      BY <3>1, <3>2
  <2>2. [sum |-> Recent, cnt |-> 1] \in Means
    BY <2>1 DEF Means
  <2>3. QED
    BY <1>3, <2>2 DEF MeansInv
<1>7. QED
  BY <1>1, <1>4, <1>5, <1>6, InitType DEF LifeInv

LEMMA LifeAlways == LifeSpec => []LifeInv
<1>1. LifeInv /\ [LifeNext]_lifeVars => LifeInv'
  BY StepLife
<1>2. QED
  BY <1>1, InitLife, PTL DEF LifeSpec

\* Exactly the valid blocks have a lifetime, whatever uninitialised words hold and
\* wherever a scan goes, so no average and no variance counts a block that was
\* invalidated or reset (LifeIffValid).
THEOREM LifetimesOfValid == LifeSpec => []LifeIffValid
<1>1. LifeInv => LifeIffValid
  BY DEF LifeInv
<1>2. QED
  BY <1>1, LifeAlways, PTL

\* key_lifetime_map tells which of two keys was changed last, through updates that
\* write several pages and the collections in the midst of them, until the older key is
\* at RECENT_MODIFY (RecencyOrder).
THEOREM RecencyKept == LifeSpec => []RecencyOrder
<1>1. LifeInv => RecencyOrder
  BY DEF LifeInv
<1>2. QED
  BY <1>1, LifeAlways, PTL

\* Lifetimes are between 0 and RECENT_MODIFY, and the average of a zone is over at least
\* one block and at most all of its blocks (LifeTypeOK).
THEOREM LifetimesTyped == LifeSpec => []LifeTypeOK
<1>1. LifeInv => LifeTypeOK
  BY DEF LifeInv, LifeTyped, MeansInv, Means, Ages, LifeTypeOK
<1>2. QED
  BY <1>1, LifeAlways, PTL

\* Whatever the lifetimes are, the engine that goes by them does what ZnsStore allows
\* (ImplementsPlacement): updates that write several pages, empty pages and scans that
\* leave their zone included.
THEOREM PlacementImplemented == LifeSpec => ImplementsPlacement
<1>1. LifeInit => Init
  BY DEF LifeInit
<1>2. LifeInv /\ [LifeNext]_lifeVars => [Next]_vars
  BY StepRefines
<1>3. QED
  BY <1>1, <1>2, LifeAlways, PTL DEF LifeSpec, ImplementsPlacement

-----------------------------------------------------------------------------
(***************************************************************************)
(* BlockNotOlder.  It is kept because the key of an update becomes young   *)
(* while no valid block holds it: on clean words and until a scan has left *)
(* its zone, the records that an update has in its buffers are nowhere     *)
(* else (Rewrites of ZnsStoreProofs).                                      *)
(***************************************************************************)

\* No valid block is older than a key in its page.
NotOlder == \A b \in Blocks : valid[b] = "VALID" =>
                \A k \in KeysOf(media[b]) : blockLife[b] <= keyLife[k]

Young == ~astray /\ pc \notin Halts => NotOlder

\* The page to write holds the given keys, and other blocks hold none that is younger
\* in life than it was.
LEMMA PlaceYoung ==
  ASSUME LifeInv, NotOlder, NEW life \in [Keys -> Ages], NEW page \in Pages,
         NEW add, NEW after \in Labels, Place(life, page, KeysOf(page), add, after),
         pc' \notin Halts,
         \A k \in Keys : keyLife[k] <= life[k] \/ Nowhere(k)
  PROVE  NotOlder'
<1>1. TypeInv /\ LifeTyped
  BY DEF LifeInv
<1>2. KeysOf(page) \in SUBSET Keys
  BY PageType
<1>3. PICK b \in Blocks, l \in Ages : Placed(life, page, KeysOf(page), add, b, l)
  BY <1>1, <1>2, PlaceEffect
<1>4. /\ media' = [media EXCEPT ![b] = page] /\ valid' = [valid EXCEPT ![b] = "VALID"]
      /\ keyLife' = IF add THEN life ELSE Aged(life)
      /\ blockLife' = [blockLife EXCEPT ![b] = l]
      /\ \A k \in KeysOf(page) : l <= life[k]
  BY <1>3 DEF Placed
<1>5. \A k \in Keys : life[k] <= keyLife'[k] /\ life[k] \in Nat /\ keyLife'[k] \in Nat
                      /\ keyLife[k] \in Nat
  <2>1. \A k \in Keys : life[k] \in 0 .. Recent /\ keyLife[k] \in 0 .. Recent
    BY <1>1 DEF LifeTyped, Ages
  <2>2. Aged(life) \in [Keys -> Ages] /\ \A k \in Keys : life[k] <= Aged(life)[k]
    BY AgedType
  <2>3. \A k \in Keys : Aged(life)[k] \in 0 .. Recent
    BY <2>2 DEF Ages
  <2>4. CASE keyLife' = life
    BY <2>1, <2>4, LifetimeConstants
  <2>5. CASE keyLife' = Aged(life)
    BY <2>1, <2>2, <2>3, <2>5, LifetimeConstants
  <2>6. QED
    BY <1>4, <2>4, <2>5
<1>6. /\ blockLife \in [Blocks -> -1 .. Recent] /\ media \in [Blocks -> Pages]
      /\ valid \in [Blocks -> {"EMPTY", "VALID", "INVALID"}]
  BY <1>1 DEF LifeTyped, TypeInv, TypeOK
<1>7. ASSUME NEW c \in Blocks, valid'[c] = "VALID", NEW k \in KeysOf(media'[c])
      PROVE  blockLife'[c] <= keyLife'[k]
  <2>1. CASE c = b
    <3>1. media'[c] = page /\ blockLife'[c] = l /\ l \in Nat
      BY <1>4, <1>6, <2>1, LifetimeConstants DEF Ages
    <3>2. k \in KeysOf(page) /\ k \in Keys
      BY <1>2, <1>7, <3>1
    <3>3. QED
      BY <1>4, <1>5, <3>1, <3>2
  <2>2. CASE c # b
    <3>1. valid[c] = "VALID" /\ media'[c] = media[c] /\ blockLife'[c] = blockLife[c]
      BY <1>4, <1>6, <1>7, <2>2
    <3>2. k \in KeysOf(media[c]) /\ k \in Keys
      BY <1>6, <1>7, <3>1, PageType
    <3>3. blockLife[c] <= keyLife[k] /\ keyLife[k] <= life[k]
      BY <3>1, <3>2 DEF NotOlder, Nowhere
    <3>4. blockLife[c] \in -1 .. Recent
      BY <1>6
    <3>5. blockLife[c] \in Int
      BY <3>4, LifetimeConstants
    <3>6. QED
      BY <1>5, <3>1, <3>2, <3>3, <3>5
  <2>3. QED
    BY <2>1, <2>2
<1>8. QED
  BY <1>7 DEF NotOlder

\* The key that becomes young is on its way.
LEMMA ChangedNowhere ==
  ASSUME LifeInv, Rewrites, upd.todo # << >>
  PROVE  \A k \in Keys : keyLife[k] <= ChangeLife[k] \/ Nowhere(k)
<1> SUFFICES ASSUME NEW k \in Keys PROVE keyLife[k] <= ChangeLife[k] \/ Nowhere(k)
  OBVIOUS
<1>1. keyLife \in [Keys -> Ages] /\ upd.todo \in Seq(Records)
  BY Typed DEF LifeInv, LifeTyped
<1>2. keyLife[k] <= keyLife[k]
  BY <1>1, LifetimeConstants DEF Ages
<1>3. CASE Changing /\ k = op.key
  <2>1. k \in KeysOf(upd.todo)
    BY <1>1, <1>3, KeysOfHeadTail DEF Changing
  <2>2. QED
    BY <2>1 DEF Rewrites
<1>4. CASE ~(Changing /\ k = op.key)
  <2>1. ChangeLife[k] = keyLife[k]
    BY <1>1, <1>4 DEF ChangeLife
  <2>2. QED
    BY <1>2, <2>1
<1>5. QED
  BY <1>3, <1>4

LEMMA StepYoung ==
  ASSUME CleanWords, LifeInv, Safe, Held, Young, [LifeNext]_lifeVars
  PROVE  Young'
<1> SUFFICES ASSUME ~astray', pc' \notin Halts PROVE NotOlder'
  BY DEF Young
<1>1. TypeInv /\ LifeTyped /\ [Next]_vars
  BY StepRefines DEF LifeInv
<1>2. ~astray /\ pc \notin Halts
  BY <1>1, NoReturn DEF vars
<1>3. NotOlder /\ Rewrites /\ BuffersSized
  BY <1>2 DEF Young, Held, Exact, Safe, Steady
<1>4. /\ keyLife \in [Keys -> Ages] /\ ChangeLife \in [Keys -> Ages]
      /\ \A k \in Keys : keyLife[k] <= keyLife[k] \/ Nowhere(k)
  BY <1>1, ChangeLifeType, LifetimeConstants DEF LifeTyped, Ages
<1>5. /\ pend.recs \in Pages /\ upd.acc \in Pages /\ gc.acc \in Pages
      /\ KeysOf(gc.acc) \cup gc.cut = KeysOf(gc.acc)
  BY <1>1, <1>3, BufferTypes DEF BuffersSized
<1>6. {"serve", "update", "updated", "gcread", "gcreset"} \subseteq Labels
  BY DEF Labels
<1>7. CASE PlaceBuffer
  <2>1. Place(keyLife, pend.recs, KeysOf(pend.recs), TRUE, "serve")
    BY <1>7 DEF PlaceBuffer
  <2>2. QED
    BY <1>3, <1>4, <1>5, <1>6, <2>1, PlaceYoung
<1>8. CASE PlaceSpill
  <2>1. Place(ChangeLife, upd.acc, KeysOf(upd.acc), FALSE, "update") /\ upd.todo # << >>
    BY <1>8 DEF PlaceSpill
  <2>2. \A k \in Keys : keyLife[k] <= ChangeLife[k] \/ Nowhere(k)
    BY <1>3, <2>1, ChangedNowhere
  <2>3. QED
    BY <1>3, <1>4, <1>5, <1>6, <2>1, <2>2, PlaceYoung
<1>9. CASE PlaceLast
  <2>1. Place(keyLife, upd.acc, KeysOf(upd.acc), FALSE, "updated")
    BY <1>9 DEF PlaceLast
  <2>2. QED
    BY <1>3, <1>4, <1>5, <1>6, <2>1, PlaceYoung
<1>10. CASE PlaceGcSpill
  <2>1. Place(keyLife, gc.acc, KeysOf(gc.acc), FALSE, "gcread")
    BY <1>5, <1>10 DEF PlaceGcSpill
  <2>2. QED
    BY <1>3, <1>4, <1>5, <1>6, <2>1, PlaceYoung
<1>11. CASE PlaceGcRest
  <2>1. Place(keyLife, gc.acc, KeysOf(gc.acc), FALSE, "gcreset")
    BY <1>5, <1>11 DEF PlaceGcRest
  <2>2. QED
    BY <1>3, <1>4, <1>5, <1>6, <2>1, PlaceYoung
<1>12. CASE InvalidateBlock
  <2>1. StartUpdate /\ UNCHANGED <<keyLife, media>>
    BY <1>12 DEF InvalidateBlock, StartUpdate
  <2>2. index[op.key] # NoBlock /\ valid' = [valid EXCEPT ![index[op.key]] = "INVALID"]
    BY <2>1 DEF StartUpdate, Halt, Halts, Invalidate
  <2>3. blockLife' = [blockLife EXCEPT ![index[op.key]] = -1]
    BY <1>12 DEF InvalidateBlock
  <2>4. \A b \in Blocks : valid'[b] = "VALID" =>
            b # index[op.key] /\ valid[b] = "VALID" /\ blockLife'[b] = blockLife[b]
    BY <1>1, <2>2, <2>3 DEF TypeInv, TypeOK, LifeTyped
  <2>5. QED
    BY <1>3, <2>1, <2>4 DEF NotOlder
<1>13. CASE RewriteRecord
  <2>1. upd.todo # << >> /\ keyLife' = ChangeLife /\ UNCHANGED <<valid, media, blockLife>>
    BY <1>13 DEF RewriteRecord, UpdateRecord, device
  <2>2. \A k \in Keys : keyLife[k] <= ChangeLife[k] \/ Nowhere(k)
    BY <1>3, <2>1, ChangedNowhere
  <2>3. ASSUME NEW b \in Blocks, valid[b] = "VALID", NEW k \in KeysOf(media[b])
        PROVE  blockLife[b] <= ChangeLife[k]
    <3>1. k \in Keys
      BY <1>1, PageType DEF TypeInv, TypeOK
    <3>2. blockLife[b] <= keyLife[k] /\ keyLife[k] <= ChangeLife[k]
      BY <1>3, <2>2, <2>3, <3>1 DEF NotOlder, Nowhere
    <3>3. blockLife[b] \in -1 .. Recent /\ keyLife[k] \in 0 .. Recent /\ ChangeLife[k] \in 0 .. Recent
      BY <1>1, <1>4, <3>1 DEF LifeTyped, Ages
    <3>4. QED
      BY <3>2, <3>3, LifetimeConstants
  <2>4. QED
    BY <2>1, <2>3 DEF NotOlder
<1>14. CASE ForgetZone
  <2>1. /\ valid' = Cleared(gc.zone) /\ blockLife' = Forgotten /\ keyLife' = keyLife
        /\ media' = [b \in Blocks |-> IF b[1] = gc.zone THEN << >> ELSE media[b]]
    BY <1>14 DEF ForgetZone, ResetZone
  <2>2. \A b \in Blocks : valid'[b] = "VALID" =>
            valid[b] = "VALID" /\ media'[b] = media[b] /\ blockLife'[b] = blockLife[b]
    BY <2>1 DEF Cleared, Forgotten
  <2>3. QED
    BY <1>3, <2>1, <2>2 DEF NotOlder
<1>15. CASE DetectSpread \/ Ageless \/ UNCHANGED lifeVars
  BY <1>3, <1>15, OtherLife DEF NotOlder, lifetimes
<1>16. QED
  BY <1>7, <1>8, <1>9, <1>10, <1>11, <1>12, <1>13, <1>14, <1>15 DEF LifeNext

\* On clean words, and as long as no collection has gone astray, the block of a key on
\* the device is never recorded older than the key (BlockNotOlder), in the middle of
\* updates and collections too.
THEOREM BlocksNotOlder ==
  ASSUME CleanWords
  PROVE  LifeSpec => []BlockNotOlder
<1>1. LifeInit => Safe /\ Held /\ Young
  BY InitSafe, InitHeld DEF LifeInit, Init, Young, NotOlder
<1>2. LifeInv /\ Safe /\ Held /\ Young /\ [LifeNext]_lifeVars => (Safe /\ Held /\ Young)'
  <2> SUFFICES ASSUME LifeInv, Safe, Held, Young, [LifeNext]_lifeVars
               PROVE  (Safe /\ Held /\ Young)'
    OBVIOUS
  <2>1. TypeInv /\ [Next]_vars
    BY StepRefines DEF LifeInv
  <2>2. Safe' /\ Held'
    BY <2>1, StepSafe, StepHeld
  <2>3. Young'
    BY StepYoung
  <2>4. QED
    BY <2>2, <2>3
<1>3. LifeInv /\ Safe /\ Young => BlockNotOlder
  <2> SUFFICES ASSUME LifeInv, Safe, Young, ~astray, pc \notin Halts,
                      NEW k \in Keys \ InFlight, index[k] # NoBlock
               PROVE  blockLife[index[k]] \in 0 .. keyLife[k]
    BY DEF BlockNotOlder
  <2>1. index[k] \in Blocks
    BY Typed DEF LifeInv
  <2>2. valid[index[k]] = "VALID" /\ k \in KeysOf(media[index[k]])
    BY DEF Safe, Going, Homes, Homed
  <2>3. blockLife[index[k]] <= keyLife[k] /\ blockLife[index[k]] >= 0
    BY <2>1, <2>2 DEF Young, NotOlder, LifeInv, LifeIffValid
  <2>4. blockLife[index[k]] \in -1 .. Recent
    BY <2>1 DEF LifeInv, LifeTyped
  <2>5. keyLife[k] \in 0 .. Recent
    BY DEF LifeInv, LifeTyped, Ages
  <2>6. QED
    BY <2>3, <2>4, <2>5, LifetimeConstants
<1>4. QED
  BY <1>1, <1>2, <1>3, LifeAlways, PTL DEF LifeSpec
=============================================================================
