-------------------------- MODULE KnowledgeProofs --------------------------
(***************************************************************************)
(* Theorems about the knowledge base, for any number of uploads, searches  *)
(* and results: that the names of the documents stay apart, and that the   *)
(* fusion of two rankings is sound.                                        *)
(***************************************************************************)
EXTENDS Knowledge, FiniteSetTheorems, TLAPS

-----------------------------------------------------------------------------
(* Fractions. *)

(* A product with a positive factor is ordered as the other factors are.   *)
LEMMA Scale ==
    ASSUME NEW a \in Nat, NEW b \in Nat, NEW c \in Nat, c > 0
    PROVE  /\ a > b => a * c > b * c
           /\ a >= b => a * c >= b * c
           /\ a * c > b * c => a > b
           /\ a * c >= b * c => a >= b
  OBVIOUS

(* The order of fractions by cross multiplication is transitive.           *)
LEMMA CrossTransitive ==
    ASSUME NEW a \in Nat, NEW b \in Nat, NEW c \in Nat, NEW d \in Nat, NEW e \in Nat, NEW f \in Nat,
           b > 0, d > 0, f > 0, a * d >= c * b, c * f >= e * d
    PROVE  /\ a * f >= e * b
           /\ a * d > c * b => a * f > e * b
           /\ c * f > e * d => a * f > e * b
<1>1. /\ a * d \in Nat /\ c * b \in Nat /\ c * f \in Nat /\ e * d \in Nat
      /\ a * f \in Nat /\ e * b \in Nat
  OBVIOUS
<1>2. /\ (a * d) * f >= (c * b) * f
      /\ a * d > c * b => (a * d) * f > (c * b) * f
  BY <1>1, Scale
<1>3. /\ (c * f) * b >= (e * d) * b
      /\ c * f > e * d => (c * f) * b > (e * d) * b
  BY <1>1, Scale
<1>4. (a * d) * f = (a * f) * d /\ (c * b) * f = (c * f) * b /\ (e * d) * b = (e * b) * d
  OBVIOUS
<1>5. /\ (a * d) * f \in Nat /\ (c * b) * f \in Nat /\ (e * d) * b \in Nat
  BY <1>1
<1> DEFINE x == (a * d) * f
           y == (c * b) * f
           z == (e * d) * b
<1>6. /\ x >= y /\ y >= z
      /\ a * d > c * b => x > y
      /\ c * f > e * d => y > z
  BY <1>2, <1>3, <1>4
<1> HIDE DEF x, y, z
<1>7. /\ x >= z
      /\ a * d > c * b => x > z
      /\ c * f > e * d => x > z
  BY <1>5, <1>6 DEF x, y, z
<1>8. x = (a * f) * d /\ z = (e * b) * d
  BY <1>4 DEF x, z
<1> QED
  BY <1>1, <1>7, <1>8, Scale

(* 1/p + 1/q is more than 1/r, where p or q is no more than r.             *)
LEMMA SumAhead ==
    ASSUME NEW p \in Nat, NEW q \in Nat, NEW r \in Nat, p > 0, q > 0, r > 0, p <= r
    PROVE  (p + q) * r > p * q
<1>1. (p + q) * r = p * r + q * r /\ p * r \in Nat /\ q * r \in Nat /\ p * q \in Nat
  OBVIOUS
<1>2. r * q >= p * q /\ r * q = q * r
  BY Scale
<1>3. p * r > 0
  OBVIOUS
<1> QED
  BY <1>1, <1>2, <1>3

(* 1/p + 1/q is more than 1/r + 1/s, where p < r and q < s.                *)
LEMMA SumsAhead ==
    ASSUME NEW p \in Nat, NEW q \in Nat, NEW r \in Nat, NEW s \in Nat,
           p > 0, q > 0, p < r, q < s
    PROVE  (p + q) * (r * s) > (r + s) * (p * q)
<1>1. /\ (p + q) * (r * s) = (p * r) * s + (q * s) * r
      /\ (r + s) * (p * q) = (p * r) * q + (q * s) * p
  OBVIOUS
<1>2. p * r \in Nat /\ p * r > 0 /\ q * s \in Nat /\ q * s > 0
  OBVIOUS
<1> DEFINE x == p * r
           y == q * s
<1> HIDE DEF x, y
<1>3. s * x > q * x /\ r * y > p * y
  BY <1>2, Scale DEF x, y
<1>4. s * x = x * s /\ q * x = x * q /\ r * y = y * r /\ p * y = y * p
  BY <1>2 DEF x, y
<1>5. x * s \in Nat /\ x * q \in Nat /\ y * r \in Nat /\ y * p \in Nat
  BY <1>2 DEF x, y
<1> QED
  BY <1>1, <1>3, <1>4, <1>5 DEF x, y

-----------------------------------------------------------------------------
(* The fusion of two rankings. *)

All(v, b) == {v[i] : i \in DOMAIN v} \cup {b[i] : i \in DOMAIN b}

(* Two lists have finitely many keys.                                      *)
LEMMA FiniteKeys ==
    ASSUME NEW S, NEW v \in Seq(S), NEW b \in Seq(S)
    PROVE  IsFiniteSet(All(v, b))
<1>1. ASSUME NEW l \in Seq(S)
      PROVE  IsFiniteSet({l[i] : i \in DOMAIN l})
  <2> DEFINE keys == {l[i] : i \in DOMAIN l}
  <2>1. IsFiniteSet(DOMAIN l)
    BY FS_Interval
  <2>2. l \in Surjection(DOMAIN l, keys)
    BY DEF Surjection
  <2> HIDE DEF keys
  <2>3. IsFiniteSet(keys)
    BY <2>1, <2>2, FS_Surjection
  <2> QED
    BY <2>3 DEF keys
<1> QED
  BY <1>1, FS_Union DEF All

(* A key of a list has a rank, and a rank one key.                         *)
LEMMA RankFacts ==
    ASSUME NEW S, NEW l \in Seq(S), NEW k, In(l, k)
    PROVE  Rank(l, k) \in Nat /\ Rank(l, k) < Len(l) /\ l[Rank(l, k) + 1] = k
<1> DEFINE i == CHOOSE i \in DOMAIN l : l[i] = k
<1>1. i \in DOMAIN l /\ l[i] = k
  BY DEF In
<1>2. i \in 1..Len(l) /\ Len(l) \in Nat
  BY <1>1
<1>3. Rank(l, k) = i - 1
  BY DEF Rank
<1> HIDE DEF i
<1> QED
  BY <1>1, <1>2, <1>3

(* Scores are fractions of naturals, and no two keys are met at one place. *)
LEMMA ScoreFacts ==
    ASSUME NEW S, NEW v \in Seq(S), NEW b \in Seq(S), NEW k \in All(v, b)
    PROVE  /\ Score(v, b, k)[1] \in Nat /\ Score(v, b, k)[2] \in Nat /\ Score(v, b, k)[2] > 0
           /\ Met(v, b, k) \in Nat
           /\ \A j \in All(v, b) : Met(v, b, j) = Met(v, b, k) => j = k
<1>1. RrfK \in Nat /\ RrfK > 0 /\ Len(v) \in Nat
  BY NumbersAssumption
<1>2. \A j \in All(v, b) : In(v, j) \/ In(b, j)
  BY DEF All, In
<1>3. \A j : /\ In(v, j) => Rank(v, j) \in Nat /\ Rank(v, j) < Len(v) /\ v[Rank(v, j) + 1] = j
             /\ In(b, j) => Rank(b, j) \in Nat /\ b[Rank(b, j) + 1] = j
  BY RankFacts
<1>4. ASSUME NEW j \in All(v, b)
      PROVE  Met(v, b, j) \in Nat /\ (Met(v, b, j) < Len(v) <=> In(v, j))
  <2>1. CASE In(v, j)
    BY <1>3, <2>1 DEF Met
  <2>2. CASE ~In(v, j)
    <3>1. In(b, j) /\ Rank(b, j) \in Nat
      BY <1>2, <1>3, <2>2
    <3> QED
      BY <1>1, <2>2, <3>1 DEF Met
  <2> QED
    BY <2>1, <2>2
<1>5. ASSUME NEW j \in All(v, b), Met(v, b, j) = Met(v, b, k)
      PROVE  j = k
  <2>1. CASE In(v, j)
    <3>1. In(v, k)
      BY <1>4, <1>5, <2>1
    <3>2. Rank(v, j) = Rank(v, k)
      BY <1>5, <2>1, <3>1 DEF Met
    <3> QED
      BY <1>3, <2>1, <3>1, <3>2
  <2>2. CASE ~In(v, j)
    <3>1. ~In(v, k) /\ In(b, j) /\ In(b, k)
      BY <1>2, <1>4, <1>5, <2>2
    <3>2. Len(v) + Rank(b, j) = Len(v) + Rank(b, k)
      BY <1>5, <2>2, <3>1 DEF Met
    <3>3. Rank(b, j) = Rank(b, k)
      BY <1>1, <1>3, <3>1, <3>2
    <3> QED
      BY <1>3, <3>1, <3>3
  <2> QED
    BY <2>1, <2>2
<1>6. Score(v, b, k)[1] \in Nat /\ Score(v, b, k)[2] \in Nat /\ Score(v, b, k)[2] > 0
  <2> DEFINE p == RrfK + Rank(v, k)
             q == RrfK + Rank(b, k)
  <2>1. CASE In(v, k) /\ In(b, k)
    <3>1. Rank(v, k) \in Nat /\ Rank(b, k) \in Nat /\ p \in Nat /\ q \in Nat /\ p > 0 /\ q > 0
      BY <1>1, <1>3, <2>1
    <3>2. p * q \in Nat /\ p * q > 0
      <4> HIDE DEF p, q
      <4> QED
        BY <3>1
    <3> DEFINE num == 2 * RrfK + Rank(v, k) + Rank(b, k)
               den == p * q
    <3>3. Score(v, b, k) = <<num, den>>
      BY <2>1 DEF Score
    <3>4. num \in Nat
      BY <1>1, <3>1
    <3>5. den \in Nat /\ den > 0
      BY <3>2, Zenon
    <3> HIDE DEF num, den
    <3> QED
      BY <3>3, <3>4, <3>5
  <2>2. CASE In(v, k) /\ ~In(b, k)
    BY <1>1, <1>3, <2>2 DEF Score
  <2>3. CASE ~In(v, k)
    BY <1>1, <1>2, <1>3, <2>3 DEF Score
  <2> QED
    BY <2>1, <2>2, <2>3
<1> QED
  BY <1>4, <1>5, <1>6

(* The fused ranking is a strict order of all keys.                        *)
LEMMA AheadOrders ==
    ASSUME NEW S, NEW v \in Seq(S), NEW b \in Seq(S),
           NEW i \in All(v, b), NEW j \in All(v, b), NEW k \in All(v, b)
    PROVE  /\ ~Ahead(v, b, i, i)
           /\ Ahead(v, b, i, j) /\ Ahead(v, b, j, k) => Ahead(v, b, i, k)
           /\ i # j => Ahead(v, b, i, j) \/ Ahead(v, b, j, i)
<1> DEFINE x == Score(v, b, i)
           y == Score(v, b, j)
           z == Score(v, b, k)
           l == Met(v, b, i)
           m == Met(v, b, j)
           n == Met(v, b, k)
<1>1. /\ x[1] \in Nat /\ x[2] \in Nat /\ x[2] > 0
      /\ y[1] \in Nat /\ y[2] \in Nat /\ y[2] > 0
      /\ z[1] \in Nat /\ z[2] \in Nat /\ z[2] > 0
      /\ l \in Nat /\ m \in Nat /\ n \in Nat
      /\ i # j => l # m
  BY ScoreFacts
<1>2. /\ Ahead(v, b, i, j) <=> \/ x[1] * y[2] > y[1] * x[2]
                               \/ x[1] * y[2] = y[1] * x[2] /\ l < m
      /\ Ahead(v, b, j, i) <=> \/ y[1] * x[2] > x[1] * y[2]
                               \/ y[1] * x[2] = x[1] * y[2] /\ m < l
      /\ Ahead(v, b, j, k) <=> \/ y[1] * z[2] > z[1] * y[2]
                               \/ y[1] * z[2] = z[1] * y[2] /\ m < n
      /\ Ahead(v, b, i, k) <=> \/ x[1] * z[2] > z[1] * x[2]
                               \/ x[1] * z[2] = z[1] * x[2] /\ l < n
      /\ Ahead(v, b, i, i) <=> \/ x[1] * x[2] > x[1] * x[2]
                               \/ x[1] * x[2] = x[1] * x[2] /\ l < l
  BY DEF Ahead
<1> HIDE DEF x, y, z, l, m, n
<1> DEFINE xy == x[1] * y[2]
           yx == y[1] * x[2]
           yz == y[1] * z[2]
           zy == z[1] * y[2]
           xz == x[1] * z[2]
           zx == z[1] * x[2]
           xx == x[1] * x[2]
<1>3. /\ xy \in Nat /\ yx \in Nat /\ yz \in Nat /\ zy \in Nat /\ xz \in Nat /\ zx \in Nat
      /\ xx \in Nat
  <2>1. \A c, d \in Nat : c * d \in Nat
    OBVIOUS
  <2> QED
    BY <1>1, <2>1
<1>4. xy >= yx /\ yz >= zy =>
        /\ xz >= zx
        /\ xy > yx => xz > zx
        /\ yz > zy => xz > zx
  <2> SUFFICES ASSUME xy >= yx, yz >= zy
               PROVE  /\ xz >= zx
                      /\ xy > yx => xz > zx
                      /\ yz > zy => xz > zx
    OBVIOUS
  <2>1. /\ x[1] * y[2] >= y[1] * x[2] /\ y[1] * z[2] >= z[1] * y[2]
    OBVIOUS
  <2> QED
    <3> DEFINE a == x[1]
               g == x[2]
               c == y[1]
               d == y[2]
               e == z[1]
               f == z[2]
    <3>1. /\ a \in Nat /\ g \in Nat /\ c \in Nat /\ d \in Nat /\ e \in Nat /\ f \in Nat
          /\ g > 0 /\ d > 0 /\ f > 0 /\ a * d >= c * g /\ c * f >= e * d
      BY <1>1, <2>1
    <3> HIDE DEF a, g, c, d, e, f
    <3>2. /\ a * f >= e * g
          /\ a * d > c * g => a * f > e * g
          /\ c * f > e * d => a * f > e * g
      BY <3>1, CrossTransitive
    <3> QED
      BY <3>2 DEF a, g, c, d, e, f
<1> HIDE DEF xy, yx, yz, zy, xz, zx, xx
<1>5. ~Ahead(v, b, i, i)
  BY <1>1, <1>2, <1>3 DEF xx
<1>6. /\ Ahead(v, b, i, j) <=> (xy > yx \/ (xy = yx /\ l < m))
      /\ Ahead(v, b, j, i) <=> (yx > xy \/ (yx = xy /\ m < l))
      /\ Ahead(v, b, j, k) <=> (yz > zy \/ (yz = zy /\ m < n))
      /\ Ahead(v, b, i, k) <=> (xz > zx \/ (xz = zx /\ l < n))
  <2>1. Ahead(v, b, i, j) <=> (xy > yx \/ (xy = yx /\ l < m))
    BY <1>2 DEF xy, yx
  <2>2. Ahead(v, b, j, i) <=> (yx > xy \/ (yx = xy /\ m < l))
    BY <1>2 DEF xy, yx
  <2>3. Ahead(v, b, j, k) <=> (yz > zy \/ (yz = zy /\ m < n))
    BY <1>2 DEF yz, zy
  <2>4. Ahead(v, b, i, k) <=> (xz > zx \/ (xz = zx /\ l < n))
    BY <1>2 DEF xz, zx
  <2> QED
    BY <2>1, <2>2, <2>3, <2>4
<1>7. i # j => Ahead(v, b, i, j) \/ Ahead(v, b, j, i)
  BY <1>1, <1>3, <1>6
<1>8. ASSUME Ahead(v, b, i, j), Ahead(v, b, j, k)
      PROVE  Ahead(v, b, i, k)
  <2>1. xy > yx \/ (xy = yx /\ l < m)
    BY <1>6, <1>8
  <2>2. yz > zy \/ (yz = zy /\ m < n)
    BY <1>6, <1>8
  <2>3. xy >= yx /\ yz >= zy
    BY <1>3, <2>1, <2>2
  <2>a. /\ xz >= zx
        /\ xy > yx => xz > zx
        /\ yz > zy => xz > zx
    BY <1>4, <2>3
  <2>b. l < m /\ m < n => l < n
    BY <1>1
  <2>4. xz > zx \/ (xz >= zx /\ l < n)
    BY <2>1, <2>2, <2>a, <2>b
  <2>5. xz > zx \/ (xz = zx /\ l < n)
    BY <1>3, <2>4
  <2> QED
    BY <1>6, <2>5
<1> QED
  BY <1>5, <1>7, <1>8

Before(v, b, k) == {j \in All(v, b) : Ahead(v, b, j, k)}

(* Who is ahead of another has fewer ahead of itself.                      *)
LEMMA FewerBefore ==
    ASSUME NEW S, NEW v \in Seq(S), NEW b \in Seq(S), NEW j \in All(v, b), NEW k \in All(v, b),
           Ahead(v, b, j, k)
    PROVE  /\ IsFiniteSet(All(v, b))
           /\ Cardinality(Before(v, b, j)) \in Nat /\ Cardinality(Before(v, b, k)) \in Nat
           /\ Cardinality(Before(v, b, j)) < Cardinality(Before(v, b, k))
<1>1. IsFiniteSet(All(v, b))
  BY FiniteKeys
<1>2. Before(v, b, j) \subseteq Before(v, b, k)
  BY AheadOrders DEF Before
<1>3. j \in Before(v, b, k) /\ j \notin Before(v, b, j)
  BY AheadOrders DEF Before
<1>4. IsFiniteSet(Before(v, b, k)) /\ IsFiniteSet(Before(v, b, j))
  BY <1>1, FS_Subset DEF Before
<1>5. Cardinality(Before(v, b, j)) \in Nat /\ Cardinality(Before(v, b, k)) \in Nat
  BY <1>4, FS_CardinalityType
<1>6. /\ Cardinality(Before(v, b, j)) <= Cardinality(Before(v, b, k))
      /\ Cardinality(Before(v, b, j)) # Cardinality(Before(v, b, k))
  BY <1>2, <1>3, <1>4, FS_Subset
<1> QED
  BY <1>1, <1>5, <1>6

(* The fusion gives TopK keys at most: they all have different numbers of  *)
(* keys ahead of them, each less than TopK.                                *)
LEMMA TopIsShort ==
    ASSUME NEW S, NEW v \in Seq(S), NEW b \in Seq(S)
    PROVE  IsFiniteSet(Top(v, b)) /\ Cardinality(Top(v, b)) <= TopK
<1>1. Top(v, b) = {k \in All(v, b) : Cardinality(Before(v, b, k)) < TopK}
  BY DEF Top, All, Before
<1>2. \A k \in All(v, b) : Cardinality(Before(v, b, k)) \in Nat
  <2> SUFFICES ASSUME NEW k \in All(v, b)
               PROVE  Cardinality(Before(v, b, k)) \in Nat
    OBVIOUS
  <2>1. IsFiniteSet(Before(v, b, k))
    BY FiniteKeys, FS_Subset DEF Before
  <2> QED
    BY <2>1, FS_CardinalityType
<1> DEFINE f == [k \in Top(v, b) |-> Cardinality(Before(v, b, k))]
<1>3. f \in [Top(v, b) -> 0..(TopK - 1)]
  BY <1>1, <1>2, NumbersAssumption
<1>4. ASSUME NEW j \in Top(v, b), NEW k \in Top(v, b), f[j] = f[k]
      PROVE  j = k
  <2>1. j \in All(v, b) /\ k \in All(v, b)
    BY <1>1
  <2>2. Cardinality(Before(v, b, j)) = Cardinality(Before(v, b, k))
    BY <1>4
  <2>3. ~Ahead(v, b, j, k) /\ ~Ahead(v, b, k, j)
    BY <2>1, <2>2, FewerBefore
  <2> QED
    BY <2>1, <2>3, AheadOrders
<1> HIDE DEF f
<1>5. f \in Injection(Top(v, b), 0..(TopK - 1))
  BY <1>3, <1>4 DEF Injection, IsInjective
<1>6. IsFiniteSet(0..(TopK - 1)) /\ Cardinality(0..(TopK - 1)) = TopK
  BY FS_Interval, NumbersAssumption
<1> QED
  BY <1>5, <1>6, FS_Injection

(* Neither list puts k first, and one of them puts j ahead of it.          *)
NotBehind(l, j, k) == In(l, k) => In(l, j) /\ Rank(l, j) < Rank(l, k)

(* A key that is better placed in every list that has the other is ahead.  *)
LEMMA BetterIsAhead ==
    ASSUME NEW S, NEW v \in Seq(S), NEW b \in Seq(S), NEW j \in All(v, b), NEW k \in All(v, b),
           NotBehind(v, j, k), NotBehind(b, j, k)
    PROVE  Ahead(v, b, j, k)
<1> DEFINE p == RrfK + Rank(v, j)
           q == RrfK + Rank(b, j)
           r == RrfK + Rank(v, k)
           s == RrfK + Rank(b, k)
<1>1. RrfK \in Nat /\ RrfK > 0
  BY NumbersAssumption
<1>2. In(v, k) \/ In(b, k)
  BY DEF All, In
<1>3. /\ In(v, j) => Rank(v, j) \in Nat /\ p \in Nat /\ p > 0
      /\ In(b, j) => Rank(b, j) \in Nat /\ q \in Nat /\ q > 0
      /\ In(v, k) => Rank(v, k) \in Nat /\ r \in Nat /\ r > 0 /\ In(v, j) /\ p < r
      /\ In(b, k) => Rank(b, k) \in Nat /\ s \in Nat /\ s > 0 /\ In(b, j) /\ q < s
  <2>1. ASSUME NEW l \in Seq(S), NEW x, In(l, x)
        PROVE  Rank(l, x) \in Nat /\ RrfK + Rank(l, x) \in Nat /\ RrfK + Rank(l, x) > 0
    <3>1. Rank(l, x) \in Nat
      BY <2>1, RankFacts
    <3> QED
      BY <1>1, <3>1
  <2>2. /\ In(v, j) => Rank(v, j) \in Nat /\ p \in Nat /\ p > 0
        /\ In(b, j) => Rank(b, j) \in Nat /\ q \in Nat /\ q > 0
        /\ In(v, k) => Rank(v, k) \in Nat /\ r \in Nat /\ r > 0
        /\ In(b, k) => Rank(b, k) \in Nat /\ s \in Nat /\ s > 0
    BY <2>1
  <2>3. /\ In(v, k) => In(v, j) /\ Rank(v, j) < Rank(v, k)
        /\ In(b, k) => In(b, j) /\ Rank(b, j) < Rank(b, k)
    BY DEF NotBehind
  <2>4. In(v, k) => p < r
    BY <1>1, <2>2, <2>3
  <2>5. In(b, k) => q < s
    BY <1>1, <2>2, <2>3
  <2> QED
    BY <2>2, <2>3, <2>4, <2>5
<1>4. /\ In(v, j) /\ In(b, j) => Score(v, b, j) = <<p + q, p * q>>
      /\ In(v, j) /\ ~In(b, j) => Score(v, b, j) = <<1, p>>
      /\ ~In(v, j) => Score(v, b, j) = <<1, q>>
      /\ In(v, k) /\ In(b, k) => Score(v, b, k) = <<r + s, r * s>>
      /\ In(v, k) /\ ~In(b, k) => Score(v, b, k) = <<1, r>>
      /\ ~In(v, k) => Score(v, b, k) = <<1, s>>
  <2>1. ASSUME NEW i, In(v, i), In(b, i)
        PROVE  Score(v, b, i) = <<(RrfK + Rank(v, i)) + (RrfK + Rank(b, i)),
                                  (RrfK + Rank(v, i)) * (RrfK + Rank(b, i))>>
    <3>1. Rank(v, i) \in Nat /\ Rank(b, i) \in Nat
      BY <2>1, RankFacts
    <3>2. 2 * RrfK + Rank(v, i) + Rank(b, i) = (RrfK + Rank(v, i)) + (RrfK + Rank(b, i))
      BY <1>1, <3>1
    <3>3. Score(v, b, i) = <<2 * RrfK + Rank(v, i) + Rank(b, i),
                             (RrfK + Rank(v, i)) * (RrfK + Rank(b, i))>>
      BY <2>1 DEF Score
    <3> QED
      BY <3>2, <3>3, Zenon
  <2>2. ASSUME NEW i, In(v, i), ~In(b, i)
        PROVE  Score(v, b, i) = <<1, RrfK + Rank(v, i)>>
    BY <2>2 DEF Score
  <2>3. ASSUME NEW i, ~In(v, i)
        PROVE  Score(v, b, i) = <<1, RrfK + Rank(b, i)>>
    BY <2>3 DEF Score
  <2> QED
    BY <2>1, <2>2, <2>3
<1>5. Score(v, b, j)[1] * Score(v, b, k)[2] > Score(v, b, k)[1] * Score(v, b, j)[2]
        => Ahead(v, b, j, k)
  BY DEF Ahead
<1> HIDE DEF p, q, r, s
<1>6. CASE In(v, k) /\ In(b, k)
  <2>1. (p + q) * (r * s) > (r + s) * (p * q)
    BY <1>3, <1>6, SumsAhead
  <2> QED
    BY <1>3, <1>4, <1>5, <1>6, <2>1
<1>7. CASE In(v, k) /\ ~In(b, k)
  <2>1. ASSUME In(b, j)
        PROVE  (p + q) * r > 1 * (p * q)
    <3>1. p \in Nat /\ q \in Nat /\ r \in Nat /\ p > 0 /\ q > 0 /\ r > 0 /\ p <= r
      BY <1>3, <1>7, <2>1
    <3>2. (p + q) * r > p * q
      BY <3>1, SumAhead
    <3>3. p * q \in Nat
      BY <3>1
    <3>4. p * q = 1 * (p * q)
      BY <3>3
    <3> QED
      BY <3>2, <3>4
  <2>2. 1 * r > 1 * p
    BY <1>3, <1>7
  <2> QED
    BY <1>3, <1>4, <1>5, <1>7, <2>1, <2>2
<1>8. CASE ~In(v, k)
  <2>1. ASSUME In(v, j)
        PROVE  (p + q) * s > 1 * (p * q)
    <3>1. p \in Nat /\ q \in Nat /\ s \in Nat /\ p > 0 /\ q > 0 /\ s > 0 /\ q <= s
      BY <1>2, <1>3, <1>8, <2>1
    <3>2. (q + p) * s > q * p
      BY <3>1, SumAhead
    <3>3. q + p = p + q /\ q * p = 1 * (p * q)
      BY <3>1
    <3> QED
      BY <3>2, <3>3
  <2>2. 1 * s > 1 * q
    BY <1>2, <1>3, <1>8
  <2> QED
    BY <1>2, <1>3, <1>4, <1>5, <1>8, <2>1, <2>2
<1> QED
  BY <1>6, <1>7, <1>8

(* What is left out by the fusion has at least as many ahead of it as fit, *)
(* so that nothing that it is better than was taken.                       *)
LEMMA TopIsBest ==
    ASSUME NEW S, NEW v \in Seq(S), NEW b \in Seq(S),
           NEW k \in Top(v, b), NEW j \in All(v, b) \ Top(v, b)
    PROVE  ~(NotBehind(v, j, k) /\ NotBehind(b, j, k))
<1> SUFFICES ASSUME NotBehind(v, j, k), NotBehind(b, j, k)
             PROVE  FALSE
  OBVIOUS
<1>1. Top(v, b) = {x \in All(v, b) : Cardinality(Before(v, b, x)) < TopK}
  BY DEF Top, All, Before
<1>2. Ahead(v, b, j, k)
  BY <1>1, BetterIsAhead
<1>3. /\ Cardinality(Before(v, b, j)) \in Nat /\ Cardinality(Before(v, b, k)) \in Nat
      /\ Cardinality(Before(v, b, j)) < Cardinality(Before(v, b, k))
      /\ Cardinality(Before(v, b, k)) < TopK
  BY <1>1, <1>2, FewerBefore
<1> QED
  BY <1>1, <1>3, NumbersAssumption

-----------------------------------------------------------------------------
(* Types. *)

Words == {f.name : f \in Files} \cup Seconds
Numbering == UNION {[S -> 0..(MaxKeys + 2)] : S \in {T \in SUBSET Nat : IsFiniteSet(T)}}
DocType == [there : BOOLEAN, deleted : BOOLEAN, name : Seq(Words), lines : Seq(Lines),
            keys : Numbering, embedded : BOOLEAN]
UploadType == [pc : {"idle", "naming", "inserting", "working", "over"},
               name : Seq(Words), lines : Seq(Lines)]
Key == Uploads \X Nat \X Nat
SearchType == [pc : {"idle", "vector", "words", "fusing", "over"},
               ticked : SUBSET Uploads, full : BOOLEAN,
               byVector : Seq(Key), byWords : Seq(Key), found : SUBSET Key]

KnowledgeType ==
    /\ doc \in [Uploads -> DocType]
    /\ upload \in [Uploads -> UploadType]
    /\ search \in [Searches -> SearchType]
    /\ IsFiniteSet(Stored)

(* What is read from a file are lines.                                     *)
LEMMA LoadedType ==
    ASSUME NEW f \in Files, NEW lines \in Loaded(f)
    PROVE  lines \in Seq(Lines)
<1> DEFINE read == [i \in DOMAIN f.lines |-> IF f.lines[i] = "scan" THEN "words" ELSE f.lines[i]]
<1>1. f.lines \in Seq(Lines \cup {"scan"})
  BY FilesAssumption, Zenon
<1>2. DOMAIN f.lines = 1..Len(f.lines) /\ Len(f.lines) \in Nat
  BY <1>1
<1>3. \A i \in DOMAIN f.lines : (IF f.lines[i] = "scan" THEN "words" ELSE f.lines[i]) \in Lines
  BY <1>1 DEF Lines
<1>4. read \in [1..Len(f.lines) -> Lines]
  BY <1>2, <1>3
<1> HIDE DEF read
<1>5. read \in Seq(Lines)
  BY <1>2, <1>4
<1>6. <<"blank", "words">> \in Seq(Lines)
  BY DEF Lines
<1>7. lines = read \/ lines = <<"blank", "words">>
  BY DEF Loaded, read
<1> QED
  BY <1>5, <1>6, <1>7

(* A scope is a finite set of keys.                                        *)
LEMMA ScopeType ==
    ASSUME KnowledgeType, NEW s \in Searches
    PROVE  Scope(s) \subseteq Key /\ IsFiniteSet(Scope(s))
<1>1. ASSUME NEW u \in Uploads
      PROVE  Keys(u) \subseteq Key /\ IsFiniteSet(Keys(u))
  <2> DEFINE D == DOMAIN doc[u].keys
             N == 1..(MaxKeys + 2)
             f == [p \in D \X N |-> <<u, p[1], p[2]>>]
  <2>1. doc[u].keys \in Numbering
    BY DEF KnowledgeType, DocType
  <2>2. IsFiniteSet(D) /\ D \subseteq Nat /\ MaxKeys + 2 \in Nat
    BY <2>1, NumbersAssumption DEF Numbering
  <2>3. IsFiniteSet(D) /\ IsFiniteSet(N) /\ D \subseteq Nat /\ N \subseteq Nat
    <3>1. \A n \in Nat : IsFiniteSet(1..n) /\ 1..n \subseteq Nat
      BY FS_Interval
    <3> QED
      BY <2>2, <3>1
  <2>4. KeysOf(u) = {<<u, i, n>> : i \in D, n \in N}
    BY DEF KeysOf
  <2> HIDE DEF D, N
  <2>5. IsFiniteSet(D \X N)
    BY <2>3, FS_Product
  <2>6. f \in Surjection(D \X N, KeysOf(u))
    <3>1. \A p \in D \X N : f[p] \in KeysOf(u)
      BY <2>4
    <3>2. ASSUME NEW k \in KeysOf(u)
          PROVE  \E p \in D \X N : f[p] = k
      <4>1. PICK i \in D, n \in N : k = <<u, i, n>>
        BY <2>4
      <4>2. <<i, n>> \in D \X N /\ f[<<i, n>>] = k
        BY <4>1
      <4> QED
        BY <4>2
    <3>3. f = [p \in D \X N |-> f[p]] /\ DOMAIN f = D \X N
      OBVIOUS
    <3> HIDE DEF f
    <3>4. f \in [D \X N -> KeysOf(u)]
      BY <3>1, <3>3
    <3> QED
      BY <3>2, <3>4 DEF Surjection
  <2> HIDE DEF f
  <2>7. IsFiniteSet(KeysOf(u))
    BY <2>5, <2>6, FS_Surjection
  <2>8. Keys(u) \subseteq KeysOf(u)
    BY DEF Keys
  <2>9. KeysOf(u) \subseteq Key
    BY <2>3, <2>4 DEF Key
  <2> QED
    BY <2>7, <2>8, <2>9, FS_Subset
<1> DEFINE chosen == {d \in Stored : search[s].full \/ d \in search[s].ticked}
           g == [u \in chosen |-> Keys(u)]
           sets == {Keys(u) : u \in chosen}
<1>2. chosen \subseteq Stored /\ Stored \subseteq Uploads
  BY DEF Stored
<1>3. IsFiniteSet(chosen)
  BY <1>2, FS_Subset DEF KnowledgeType
<1>4. Scope(s) = UNION sets
  BY DEF Scope
<1> HIDE DEF chosen
<1>5. g \in Surjection(chosen, sets)
  BY DEF Surjection
<1>6. \A T \in sets : T \subseteq Key /\ IsFiniteSet(T)
  BY <1>1, <1>2
<1> HIDE DEF g, sets
<1>7. IsFiniteSet(sets)
  BY <1>3, <1>5, FS_Surjection
<1> QED
  BY <1>4, <1>6, <1>7, FS_UNION

(* The lists of keys are sequences.                                        *)
LEMMA ListsType ==
    ASSUME NEW keys, NEW lengths, lengths \subseteq Nat, NEW l \in Lists(keys, lengths)
    PROVE  l \in Seq(keys)
<1>1. PICK n \in lengths : l \in [1..n -> keys]
  BY DEF Lists
<1> QED
  BY <1>1

(* How many keys a query by vector lists.                                  *)
LEMMA VectorLimit ==
    ASSUME KnowledgeType, NEW s \in Searches
    PROVE  {0, Min({Limit, Cardinality(Scope(s))})} \subseteq Nat
<1>1. IsFiniteSet(Scope(s))
  BY ScopeType
<1>2. Cardinality(Scope(s)) \in Nat /\ Limit \in Nat
  BY <1>1, FS_CardinalityType, NumbersAssumption DEF Limit
<1>3. ASSUME NEW a \in Nat, NEW b \in Nat
      PROVE  Min({a, b}) \in Nat
  <2>1. \E x \in {a, b} : \A y \in {a, b} : x =< y
    OBVIOUS
  <2>2. Min({a, b}) \in {a, b}
    BY <2>1 DEF Min
  <2> QED
    BY <2>2
<1> QED
  BY <1>2, <1>3

(* The types at the start. *)
LEMMA TypeInit == Init => KnowledgeType
<1> SUFFICES ASSUME Init
             PROVE  KnowledgeType
  OBVIOUS
<1>1. NoDoc \in DocType
  <2>1. <<>> \in [{} -> 0..(MaxKeys + 2)] /\ {} \subseteq Nat
    OBVIOUS
  <2>2. <<>> \in Numbering
    BY <2>1, FS_EmptySet DEF Numbering
  <2> QED
    BY <2>2 DEF NoDoc, DocType
<1>2. NoSearch \in SearchType
  BY DEF NoSearch, SearchType
<1>3. [pc |-> "idle", name |-> <<>>, lines |-> <<>>] \in UploadType
  BY DEF UploadType
<1>4. Stored = {}
  BY DEF Init, Stored, NoDoc
<1> QED
  BY <1>1, <1>2, <1>3, <1>4, FS_EmptySet DEF Init, KnowledgeType

(* Every step keeps the types, and commits one document at most.           *)
LEMMA TypeNext == KnowledgeType /\ [Next]_vars => KnowledgeType'
<1> SUFFICES ASSUME KnowledgeType, [Next]_vars
             PROVE  KnowledgeType'
  OBVIOUS
<1>1. ASSUME NEW u \in Uploads
      PROVE  /\ upload[u] \in UploadType /\ doc[u] \in DocType
             /\ upload[u].name \in Seq(Words) /\ upload[u].lines \in Seq(Lines)
             /\ upload[u].pc \in {"idle", "naming", "inserting", "working", "over"}
  BY DEF KnowledgeType, UploadType
<1>2. UNCHANGED doc => Stored' = Stored
  BY DEF Stored
<1>3. ASSUME NEW u \in Uploads, NEW q \in UploadType, upload' = [upload EXCEPT ![u] = q],
             UNCHANGED <<doc, search>>
      PROVE  KnowledgeType'
  BY <1>2, <1>3 DEF KnowledgeType
<1>4. ASSUME NEW u \in Uploads, Starts(u)
      PROVE  KnowledgeType'
  <2>1. PICK f \in Files : \E l \in Loaded(f) :
          upload' = [upload EXCEPT ![u] = [pc |-> "naming", name |-> <<f.name>>, lines |-> l]]
    BY <1>4 DEF Starts
  <2>l. PICK lines \in Loaded(f) :
          upload' = [upload EXCEPT ![u] = [pc |-> "naming", name |-> <<f.name>>, lines |-> lines]]
    BY <2>1
  <2>2. <<f.name>> \in Seq(Words)
    BY DEF Words
  <2>3. [pc |-> "naming", name |-> <<f.name>>, lines |-> lines] \in UploadType
    BY <2>2, LoadedType DEF UploadType
  <2> QED
    BY <1>3, <1>4, <2>l, <2>3 DEF Starts
<1>5. ASSUME NEW u \in Uploads, Names(u)
      PROVE  KnowledgeType'
  <2>1. CASE Taken(upload[u].name)
    <3>1. PICK t \in Seconds : upload' = [upload EXCEPT ![u].name = Append(@, t)]
      BY <1>5, <2>1 DEF Names
    <3>2. Append(upload[u].name, t) \in Seq(Words)
      BY <1>1 DEF Words
    <3>3. [upload[u] EXCEPT !.name = Append(@, t)] \in UploadType
      BY <1>1, <3>2 DEF UploadType
    <3>4. upload' = [upload EXCEPT ![u] = [upload[u] EXCEPT !.name = Append(@, t)]]
      BY <3>1
    <3> QED
      BY <1>3, <1>5, <3>3, <3>4 DEF Names
  <2>2. CASE ~Taken(upload[u].name)
    <3>1. upload' = [upload EXCEPT ![u] = [upload[u] EXCEPT !.pc = "inserting"]]
      BY <1>5, <2>2 DEF Names
    <3>2. [upload[u] EXCEPT !.pc = "inserting"] \in UploadType
      BY <1>1 DEF UploadType
    <3> QED
      BY <1>3, <1>5, <3>1, <3>2 DEF Names
  <2> QED
    BY <2>1, <2>2
<1>6. ASSUME NEW u \in Uploads, Inserts(u)
      PROVE  KnowledgeType'
  <2>1. [upload[u] EXCEPT !.pc = "working"] \in UploadType
    BY <1>1 DEF UploadType
  <2>2. upload' = [upload EXCEPT ![u] = [upload[u] EXCEPT !.pc = "working"]]
    BY <1>6 DEF Inserts
  <2> QED
    BY <1>3, <1>6, <2>1, <2>2 DEF Inserts
<1>7. ASSUME NEW u \in Uploads, Fails(u)
      PROVE  KnowledgeType'
  <2>1. [upload[u] EXCEPT !.pc = "over"] \in UploadType
    BY <1>1 DEF UploadType
  <2>2. upload' = [upload EXCEPT ![u] = [upload[u] EXCEPT !.pc = "over"]]
    BY <1>7 DEF Fails
  <2> QED
    BY <1>3, <1>7, <2>1, <2>2 DEF Fails
<1>8. ASSUME NEW u \in Uploads, NEW d \in DocType, doc' = [doc EXCEPT ![u] = d]
      PROVE  doc' \in [Uploads -> DocType] /\ IsFiniteSet(Stored')
  <2>1. doc' \in [Uploads -> DocType]
    BY <1>8 DEF KnowledgeType
  <2>2. Stored' \subseteq Stored \cup {u}
    BY <1>8 DEF KnowledgeType, Stored
  <2>3. IsFiniteSet(Stored \cup {u})
    BY FS_AddElement DEF KnowledgeType
  <2> QED
    BY <2>1, <2>2, <2>3, FS_Subset
<1>9. ASSUME NEW u \in Uploads, Commits(u)
      PROVE  KnowledgeType'
  <2>1. PICK keys \in [Units(upload[u].lines) -> 0..(MaxKeys + 2)], vectors \in BOOLEAN :
          doc' = [doc EXCEPT ![u] = [there |-> TRUE, deleted |-> FALSE, name |-> upload[u].name,
                                     lines |-> upload[u].lines, keys |-> keys,
                                     embedded |-> vectors]]
    BY <1>9 DEF Commits
  <2>2. keys \in Numbering
    <3>1. DOMAIN upload[u].lines = 1..Len(upload[u].lines) /\ Len(upload[u].lines) \in Nat
      BY <1>1
    <3>2. \A n \in Nat : IsFiniteSet(1..n) /\ 1..n \subseteq Nat
      BY FS_Interval
    <3>3. Units(upload[u].lines) \subseteq DOMAIN upload[u].lines
      BY DEF Units
    <3>4. IsFiniteSet(Units(upload[u].lines)) /\ Units(upload[u].lines) \subseteq Nat
      BY <3>1, <3>2, <3>3, FS_Subset
    <3> QED
      BY <3>4 DEF Numbering
  <2>3. [there |-> TRUE, deleted |-> FALSE, name |-> upload[u].name, lines |-> upload[u].lines,
         keys |-> keys, embedded |-> vectors] \in DocType
    BY <1>1, <2>2 DEF DocType
  <2>4. doc' \in [Uploads -> DocType] /\ IsFiniteSet(Stored')
    BY <1>8, <2>1, <2>3
  <2>5. upload' = [upload EXCEPT ![u] = [upload[u] EXCEPT !.pc = "over"]] /\ search' = search
    BY <1>9 DEF Commits
  <2>6. [upload[u] EXCEPT !.pc = "over"] \in UploadType
    BY <1>1 DEF UploadType
  <2> QED
    BY <2>4, <2>5, <2>6 DEF KnowledgeType
<1>10. ASSUME NEW u \in Uploads, Deletes(u)
       PROVE  KnowledgeType'
  <2>1. [doc[u] EXCEPT !.deleted = TRUE] \in DocType
    BY <1>1 DEF DocType
  <2>2. doc' = [doc EXCEPT ![u] = [doc[u] EXCEPT !.deleted = TRUE]]
    BY <1>10 DEF Deletes
  <2>3. doc' \in [Uploads -> DocType] /\ IsFiniteSet(Stored')
    BY <1>8, <2>1, <2>2
  <2> QED
    BY <1>10, <2>3 DEF Deletes, KnowledgeType
<1>11. ASSUME NEW s \in Searches, NEW q \in SearchType, search' = [search EXCEPT ![s] = q],
              UNCHANGED <<doc, upload>>
       PROVE  KnowledgeType'
  BY <1>2, <1>11 DEF KnowledgeType
<1>12. ASSUME NEW s \in Searches, Asks(s) \/ ByVector(s) \/ ByWords(s) \/ Fuses(s) \/ Breaks(s)
       PROVE  KnowledgeType'
  <2>1. search[s] \in SearchType /\ search[s].byVector \in Seq(Key) /\ search[s].byWords \in Seq(Key)
    BY DEF KnowledgeType, SearchType
  <2>2. Scope(s) \subseteq Key
    BY ScopeType
  <2>3. CASE Asks(s)
    <3>1. PICK ticked \in SUBSET Uploads, full \in BOOLEAN :
            search' = [search EXCEPT ![s] = [NoSearch EXCEPT
                !.pc = IF ticked = {} /\ ~full THEN "over" ELSE "vector",
                !.ticked = ticked, !.full = full /\ ticked = {}]]
      BY <2>3 DEF Asks
    <3>2. \A p \in {"over", "vector"}, all \in BOOLEAN :
            [NoSearch EXCEPT !.pc = p, !.ticked = ticked, !.full = all] \in SearchType
      <4>1. NoSearch \in SearchType
        BY DEF NoSearch, SearchType
      <4> QED
        BY <4>1 DEF SearchType
    <3> QED
      <4> DEFINE p == IF ticked = {} /\ ~full THEN "over" ELSE "vector"
                 all == full /\ ticked = {}
      <4>1. p \in {"over", "vector"} /\ all \in BOOLEAN
        OBVIOUS
      <4>2. search' = [search EXCEPT ![s] =
                         [NoSearch EXCEPT !.pc = p, !.ticked = ticked, !.full = all]]
        BY <3>1
      <4> HIDE DEF p, all
      <4> QED
        BY <1>11, <2>3, <3>2, <4>1, <4>2 DEF Asks
  <2>4. CASE ByVector(s)
    <3>1. PICK l \in Lists(Scope(s), {0, Min({Limit, Cardinality(Scope(s))})}) :
            search' = [search EXCEPT ![s].pc = "words", ![s].byVector = l]
      BY <2>4 DEF ByVector
    <3>2. l \in Seq(Key)
      BY <2>2, VectorLimit, ListsType
    <3>3. [search[s] EXCEPT !.pc = "words", !.byVector = l] \in SearchType
      BY <2>1, <3>2 DEF SearchType
    <3>4. search' = [search EXCEPT ![s] = [search[s] EXCEPT !.pc = "words", !.byVector = l]]
      BY <3>1
    <3> QED
      BY <1>11, <2>4, <3>3, <3>4 DEF ByVector
  <2>5. CASE ByWords(s)
    <3>1. PICK l \in Lists(Scope(s), 0..Limit) :
            search' = [search EXCEPT ![s].pc = "fusing", ![s].byWords = l]
      BY <2>5 DEF ByWords
    <3>2. l \in Seq(Key)
      <4>1. 0..Limit \subseteq Nat
        OBVIOUS
      <4>2. l \in Seq(Scope(s))
        BY <4>1, ListsType
      <4> QED
        BY <2>2, <4>2
    <3>3. [search[s] EXCEPT !.pc = "fusing", !.byWords = l] \in SearchType
      BY <2>1, <3>2 DEF SearchType
    <3>4. search' = [search EXCEPT ![s] = [search[s] EXCEPT !.pc = "fusing", !.byWords = l]]
      BY <3>1
    <3> QED
      BY <1>11, <2>5, <3>3, <3>4 DEF ByWords
  <2>6. CASE Fuses(s)
    <3> DEFINE top == Top(search[s].byVector, search[s].byWords)
    <3>1. top \subseteq Key
      BY <2>1 DEF Top
    <3>2. search' = [search EXCEPT ![s] = [search[s] EXCEPT !.pc = "over", !.found = top]]
      BY <2>6 DEF Fuses
    <3> HIDE DEF top
    <3>3. [search[s] EXCEPT !.pc = "over", !.found = top] \in SearchType
      BY <2>1, <3>1 DEF SearchType
    <3> QED
      BY <1>11, <2>6, <3>2, <3>3 DEF Fuses
  <2>7. CASE Breaks(s)
    <3>1. search' = [search EXCEPT ![s] = [search[s] EXCEPT !.pc = "over"]]
      BY <2>7 DEF Breaks
    <3>2. [search[s] EXCEPT !.pc = "over"] \in SearchType
      BY <2>1 DEF SearchType
    <3> QED
      BY <1>11, <2>7, <3>1, <3>2 DEF Breaks
  <2> QED
    BY <1>12, <2>3, <2>4, <2>5, <2>6, <2>7
<1>13. CASE UNCHANGED vars
  BY <1>2, <1>13 DEF vars, KnowledgeType
<1> QED
  BY <1>4, <1>5, <1>6, <1>7, <1>9, <1>10, <1>12, <1>13 DEF Next

-----------------------------------------------------------------------------
(* Documents. *)

(* The document of an upload is there only after its commit, and an upload *)
(* at work has a name that no document and no other upload at work has.    *)
Reserved ==
    \A u \in Uploads :
        /\ upload[u].pc # "over" => ~doc[u].there
        /\ upload[u].pc = "working" =>
             /\ ~Taken(upload[u].name)
             /\ \A w \in Uploads : upload[w].pc = "working" /\ upload[w].name = upload[u].name
                                    => u = w

(* No two documents have one name.                                         *)
Apart == \A u, w \in Stored : doc[u].name = doc[w].name => u = w

(* A name with a suffix stands beside the document that has it without:    *)
(* the names of documents, and those that uploads have found for theirs.   *)
Beside(name) ==
    Len(name) > 1 => \E w \in Stored : doc[w].name = SubSeq(name, 1, Len(name) - 1)
AllBeside ==
    /\ \A u \in Uploads : Beside(upload[u].name)
    /\ \A u \in Stored : Beside(doc[u].name)

KnowledgeInv == KnowledgeType /\ Reserved /\ Apart /\ AllBeside

(* A committed document stays, with its name, its lines and its keys.      *)
LEMMA DocumentsStay ==
    ASSUME KnowledgeType, Reserved, [Next]_vars, NEW d \in Stored
    PROVE  /\ d \in Uploads /\ d \in Stored' /\ doc'[d].name = doc[d].name
           /\ doc'[d].lines = doc[d].lines /\ doc'[d].keys = doc[d].keys
<1>1. d \in Uploads /\ doc[d].there /\ upload[d].pc = "over"
  BY DEF Stored, Reserved
<1>2. CASE UNCHANGED doc
  BY <1>1, <1>2 DEF Stored
<1>3. ASSUME NEW u \in Uploads, Commits(u)
      PROVE  doc'[d] = doc[d]
  <2>1. u # d
    BY <1>1, <1>3 DEF Commits
  <2> QED
    BY <1>1, <1>3, <2>1 DEF Commits, KnowledgeType
<1>4. ASSUME NEW u \in Uploads, Deletes(u)
      PROVE  /\ doc'[d].there = doc[d].there /\ doc'[d].name = doc[d].name
             /\ doc'[d].lines = doc[d].lines /\ doc'[d].keys = doc[d].keys
  <2>1. doc' = [doc EXCEPT ![u] = [doc[u] EXCEPT !.deleted = TRUE]]
    BY <1>4 DEF Deletes
  <2>2. doc[u] \in DocType
    BY DEF KnowledgeType
  <2> QED
    BY <1>1, <2>1, <2>2 DEF DocType, KnowledgeType
<1>5. \/ UNCHANGED doc
      \/ \E u \in Uploads : Commits(u) \/ Deletes(u)
  BY DEF Next, vars, Starts, Names, Inserts, Fails, Asks, ByVector, ByWords, Fuses, Breaks
<1> QED
  BY <1>1, <1>2, <1>3, <1>4, <1>5 DEF Stored

(* Every step keeps the names apart.                                       *)
LEMMA DocumentsNext == KnowledgeType /\ Reserved /\ Apart /\ [Next]_vars
                         => Reserved' /\ Apart'
<1> SUFFICES ASSUME KnowledgeType, Reserved, Apart, [Next]_vars
             PROVE  Reserved' /\ Apart'
  OBVIOUS
<1>1. ASSUME NEW u \in Uploads
      PROVE  upload[u] \in UploadType /\ doc[u] \in DocType
  BY DEF KnowledgeType
(* A step that commits no document and starts no work.                     *)
<1>2. ASSUME Stored' = Stored,
             \A d \in Stored : /\ doc'[d].name = doc[d].name /\ doc'[d].lines = doc[d].lines
                               /\ doc'[d].keys = doc[d].keys,
             \A u \in Uploads : /\ upload'[u].pc = "working" => upload'[u] = upload[u]
                                /\ upload'[u].pc # "over" => upload[u].pc # "over"
      PROVE  Reserved' /\ Apart'
  <2>1. \A name : Taken(name)' <=> Taken(name)
    BY <1>2 DEF Taken
  <2>2. \A u \in Uploads : doc'[u].there <=> doc[u].there
    BY <1>2 DEF Stored
  <2>3. Apart'
    BY <1>2 DEF Apart
  <2>4. Reserved'
    BY <1>2, <2>1, <2>2 DEF Reserved
  <2> QED
    BY <2>3, <2>4
<1>3. ASSUME UNCHANGED doc,
             \A u \in Uploads : /\ upload'[u].pc = "working" => upload'[u] = upload[u]
                                /\ upload'[u].pc # "over" => upload[u].pc # "over"
      PROVE  Reserved' /\ Apart'
  <2>1. Stored' = Stored
    BY <1>3 DEF Stored
  <2> QED
    BY <1>2, <1>3, <2>1
<1>4. ASSUME NEW u \in Uploads, Starts(u) \/ Names(u) \/ Fails(u)
      PROVE  Reserved' /\ Apart'
  <2>1. UNCHANGED doc
    BY <1>4 DEF Starts, Names, Fails
  <2>2. \A w \in Uploads \ {u} : upload'[w] = upload[w]
    BY <1>4 DEF Starts, Names, Fails, KnowledgeType
  <2>3. upload[u].pc # "over" /\ upload'[u].pc # "working"
    <3>1. CASE Starts(u)
      BY <3>1 DEF Starts, KnowledgeType
    <3>2. CASE Names(u)
      BY <1>1, <3>2 DEF Names, KnowledgeType, UploadType
    <3>3. CASE Fails(u)
      BY <1>1, <3>3 DEF Fails, KnowledgeType, UploadType
    <3> QED
      BY <1>4, <3>1, <3>2, <3>3
  <2> QED
    BY <1>3, <2>1, <2>2, <2>3
<1>5. ASSUME NEW u \in Uploads, Inserts(u)
      PROVE  Reserved' /\ Apart'
  <2>1. /\ upload[u].pc = "inserting" /\ ~Taken(upload[u].name) /\ UNCHANGED <<doc, search>>
        /\ \A w \in Uploads : upload[w].pc = "working" => upload[w].name # upload[u].name
    BY <1>5 DEF Inserts
  <2>2. /\ upload'[u].pc = "working" /\ upload'[u].name = upload[u].name
        /\ \A w \in Uploads \ {u} : upload'[w] = upload[w]
    BY <1>1, <1>5 DEF Inserts, KnowledgeType, UploadType
  <2>3. Stored' = Stored /\ \A name : Taken(name)' <=> Taken(name)
    BY <2>1 DEF Stored, Taken
  <2>4. Apart'
    BY <2>1, <2>3 DEF Apart
  <2>5. ASSUME NEW w \in Uploads
        PROVE  /\ upload'[w].pc # "over" => ~doc'[w].there
               /\ upload'[w].pc = "working" => ~Taken(upload[w].name)'
    BY <2>1, <2>2, <2>3, <2>5 DEF Reserved
  <2>6. ASSUME NEW w \in Uploads, NEW x \in Uploads, upload'[w].pc = "working",
               upload'[x].pc = "working", upload'[x].name = upload'[w].name
        PROVE  w = x
    BY <2>1, <2>2, <2>6 DEF Reserved
  <2> QED
    BY <2>4, <2>5, <2>6 DEF Reserved
<1>6. ASSUME NEW u \in Uploads, Commits(u)
      PROVE  Reserved' /\ Apart'
  <2>1. PICK keys \in [Units(upload[u].lines) -> 0..(MaxKeys + 2)], vectors \in BOOLEAN :
          doc' = [doc EXCEPT ![u] = [there |-> TRUE, deleted |-> FALSE, name |-> upload[u].name,
                                     lines |-> upload[u].lines, keys |-> keys,
                                     embedded |-> vectors]]
    BY <1>6 DEF Commits
  <2>2. upload[u].pc = "working" /\ upload' = [upload EXCEPT ![u].pc = "over"]
    BY <1>6 DEF Commits
  <2>3. /\ doc'[u].there /\ doc'[u].name = upload[u].name
        /\ \A w \in Uploads \ {u} : doc'[w] = doc[w]
    BY <2>1 DEF KnowledgeType
  <2>4. /\ upload'[u].pc = "over"
        /\ \A w \in Uploads \ {u} : upload'[w] = upload[w]
    BY <1>1, <2>2 DEF KnowledgeType, UploadType
  <2>5. ~Taken(upload[u].name) /\ u \notin Stored
    BY <2>2 DEF Reserved, Stored
  <2>6. Stored' = Stored \cup {u}
    BY <2>3 DEF Stored
  <2>7. ASSUME NEW x \in Stored', NEW y \in Stored', doc'[x].name = doc'[y].name
        PROVE  x = y
    <3>1. ASSUME NEW d \in Stored
          PROVE  doc'[d].name = doc[d].name /\ doc[d].name # upload[u].name
      BY <2>3, <2>5 DEF Stored, Taken
    <3> QED
      BY <2>3, <2>6, <2>7, <3>1 DEF Apart
  <2>8. Apart'
    BY <2>7 DEF Apart
  <2>9. ASSUME NEW w \in Uploads
         PROVE  upload'[w].pc # "over" => ~doc'[w].there
    BY <2>3, <2>4 DEF Reserved
  <2>10. ASSUME NEW w \in Uploads, upload'[w].pc = "working"
         PROVE  /\ ~Taken(upload[w].name)'
                /\ \A x \in Uploads : upload'[x].pc = "working" /\ upload'[x].name = upload'[w].name
                                       => w = x
    <3>1. w # u /\ upload'[w] = upload[w] /\ upload[w].pc = "working"
      BY <2>4, <2>10
    <3>2. upload[w].name # upload[u].name
      BY <2>2, <3>1 DEF Reserved
    <3>3. ASSUME NEW d \in Stored'
          PROVE  doc'[d].name # upload[w].name
      <4>1. ASSUME d \in Stored
            PROVE  doc'[d].name = doc[d].name /\ doc[d].name # upload[w].name
        BY <2>3, <2>5, <3>1, <4>1 DEF Stored, Taken, Reserved
      <4> QED
        BY <2>3, <2>6, <3>2, <3>3, <4>1
    <3>4. ~Taken(upload[w].name)'
      BY <3>1, <3>3 DEF Taken
    <3>5. \A x \in Uploads : upload'[x].pc = "working" => x # u /\ upload'[x] = upload[x]
      BY <2>4
    <3> QED
      BY <3>1, <3>4, <3>5 DEF Reserved
  <2> QED
    BY <2>8, <2>9, <2>10 DEF Reserved
<1>7. ASSUME NEW u \in Uploads, Deletes(u)
      PROVE  Reserved' /\ Apart'
  <2>1. doc' = [doc EXCEPT ![u] = [doc[u] EXCEPT !.deleted = TRUE]] /\ upload' = upload
    BY <1>7 DEF Deletes
  <2>2. \A d \in Uploads : /\ doc'[d].there = doc[d].there /\ doc'[d].name = doc[d].name
                           /\ doc'[d].lines = doc[d].lines /\ doc'[d].keys = doc[d].keys
    BY <1>1, <2>1 DEF DocType, KnowledgeType
  <2>3. Stored' = Stored
    BY <2>2 DEF Stored
  <2> QED
    BY <1>2, <2>1, <2>2, <2>3 DEF Stored
<1>8. ASSUME NEW s \in Searches, Asks(s) \/ ByVector(s) \/ ByWords(s) \/ Fuses(s) \/ Breaks(s)
      PROVE  Reserved' /\ Apart'
  <2>1. UNCHANGED <<doc, upload>>
    BY <1>8 DEF Asks, ByVector, ByWords, Fuses, Breaks
  <2> QED
    BY <1>3, <2>1
<1>9. CASE UNCHANGED vars
  BY <1>3, <1>9 DEF vars
<1> QED
  BY <1>4, <1>5, <1>6, <1>7, <1>8, <1>9 DEF Next

(* A name that stands beside a document does so after every step.          *)
LEMMA BesideStays ==
    ASSUME KnowledgeType, Reserved, [Next]_vars, NEW name, Beside(name)
    PROVE  Beside(name)'
  BY DocumentsStay DEF Beside

(* A suffix is given only to a name that a document has, and a document    *)
(* gets the name that its upload found.                                    *)
LEMMA BesideNext == KnowledgeType /\ Reserved /\ AllBeside /\ [Next]_vars => AllBeside'
<1> SUFFICES ASSUME KnowledgeType, Reserved, AllBeside, [Next]_vars
             PROVE  AllBeside'
  OBVIOUS
<1>1. ASSUME NEW u \in Uploads
      PROVE  upload[u] \in UploadType /\ doc[u] \in DocType
  BY DEF KnowledgeType
<1>2. ASSUME NEW u \in Uploads
      PROVE  Beside(upload[u].name)'
  <2>1. CASE upload'[u].name = upload[u].name
    BY <2>1, BesideStays DEF AllBeside, Beside
  <2>2. CASE Starts(u)
    <3>1. PICK f \in Files : upload'[u].name = <<f.name>>
      BY <2>2 DEF Starts, KnowledgeType
    <3> QED
      BY <3>1 DEF Beside
  <2>3. CASE Names(u) /\ Taken(upload[u].name)
    <3>1. PICK t \in Seconds : upload'[u].name = Append(upload[u].name, t)
      BY <1>1, <2>3 DEF Names, KnowledgeType, UploadType
    <3>2. /\ upload[u].name \in Seq(Words) /\ Append(upload[u].name, t) \in Seq(Words)
          /\ Len(Append(upload[u].name, t)) = Len(upload[u].name) + 1
      BY <1>1 DEF UploadType, Words
    <3>3. SubSeq(Append(upload[u].name, t), 1, Len(upload[u].name)) = upload[u].name
      BY <3>2
    <3>4. PICK d \in Stored : doc[d].name = upload[u].name
      BY <2>3 DEF Taken
    <3>5. d \in Stored' /\ doc'[d].name = upload[u].name
      BY <3>4, DocumentsStay
    <3>6. SubSeq(upload'[u].name, 1, Len(upload'[u].name) - 1) = upload[u].name
      BY <3>1, <3>2, <3>3
    <3> QED
      BY <3>5, <3>6 DEF Beside
  <2>4. \/ upload'[u].name = upload[u].name
        \/ Starts(u)
        \/ Names(u) /\ Taken(upload[u].name)
    <3>1. ASSUME NEW w \in Uploads, Names(w) \/ Inserts(w) \/ Commits(w) \/ Fails(w)
          PROVE  upload'[u].name = upload[u].name \/ (Names(u) /\ Taken(upload[u].name))
      <4>1. CASE Names(w)
        <5>1. CASE u = w /\ ~Taken(upload[u].name)
          BY <1>1, <4>1, <5>1 DEF Names, KnowledgeType, UploadType
        <5>2. CASE u # w
          BY <4>1, <5>2 DEF Names, KnowledgeType
        <5> QED
          BY <4>1, <5>1, <5>2
      <4>2. CASE Inserts(w)
        BY <1>1, <4>2 DEF Inserts, KnowledgeType, UploadType
      <4>3. CASE Commits(w)
        <5>1. upload' = [upload EXCEPT ![w].pc = "over"]
          BY <4>3 DEF Commits
        <5> QED
          BY <1>1, <5>1 DEF KnowledgeType, UploadType
      <4>4. CASE Fails(w)
        BY <1>1, <4>4 DEF Fails, KnowledgeType, UploadType
      <4> QED
        BY <3>1, <4>1, <4>2, <4>3, <4>4
    <3>2. ASSUME NEW w \in Uploads, Starts(w)
          PROVE  upload'[u].name = upload[u].name \/ Starts(u)
      BY <3>2 DEF Starts, KnowledgeType
    <3>3. \/ UNCHANGED upload
          \/ \E w \in Uploads : Starts(w) \/ Names(w) \/ Inserts(w) \/ Commits(w) \/ Fails(w)
      BY DEF Next, vars, Deletes, Asks, ByVector, ByWords, Fuses, Breaks
    <3> QED
      BY <3>1, <3>2, <3>3
  <2> QED
    BY <2>1, <2>2, <2>3, <2>4
<1>3. ASSUME NEW d \in Stored'
      PROVE  Beside(doc[d].name)'
  <2>1. CASE d \in Stored
    <3>1. doc'[d].name = doc[d].name /\ Beside(doc[d].name)
      BY <2>1, DocumentsStay DEF AllBeside
    <3> QED
      BY <3>1, BesideStays DEF Beside
  <2>2. CASE d \notin Stored
    <3>1. d \in Uploads /\ Commits(d)
      <4>1. ASSUME NEW u \in Uploads, Commits(u) \/ Deletes(u), u # d \/ Deletes(u)
            PROVE  doc'[d].there = doc[d].there
        BY <1>1, <4>1 DEF Commits, Deletes, KnowledgeType, DocType, Stored
      <4>2. d \in Uploads /\ doc'[d].there /\ ~doc[d].there
        BY <2>2 DEF Stored
      <4>3. \/ UNCHANGED doc
            \/ \E u \in Uploads : Commits(u) \/ Deletes(u)
        BY DEF Next, vars, Starts, Names, Inserts, Fails, Asks, ByVector, ByWords, Fuses, Breaks
      <4> QED
        BY <4>1, <4>2, <4>3
    <3>2. doc'[d].name = upload[d].name /\ Beside(upload[d].name)
      BY <3>1 DEF Commits, KnowledgeType, AllBeside
    <3> QED
      BY <3>2, BesideStays DEF Beside
  <2> QED
    BY <2>1, <2>2
<1> QED
  BY <1>2, <1>3 DEF AllBeside

(* The documents are as their types say, finitely many, and their names    *)
(* are reserved while an upload is at work.                                *)
THEOREM KnowledgeInductive == Spec => []KnowledgeInv
<1>1. Init => KnowledgeInv
  <2> SUFFICES ASSUME Init
               PROVE  KnowledgeInv
    OBVIOUS
  <2>1. KnowledgeType
    BY TypeInit
  <2>2. Stored = {} /\ \A u \in Uploads : upload[u].pc = "idle" /\ upload[u].name = <<>>
    BY DEF Init, Stored, NoDoc
  <2>3. Reserved /\ Apart /\ AllBeside
    BY <2>2 DEF Reserved, Apart, AllBeside, Beside, Stored
  <2> QED
    BY <2>1, <2>3 DEF KnowledgeInv
<1>2. KnowledgeInv /\ [Next]_vars => KnowledgeInv'
  BY TypeNext, DocumentsNext, BesideNext DEF KnowledgeInv
<1> QED
  BY <1>1, <1>2, PTL DEF Spec

(* Uploads of one name leave documents with different names, and one gets  *)
(* a suffix only beside the document that has the name without, for any    *)
(* number of uploads that overlap in any way (NamesApart).                 *)
THEOREM NamesStayApart == Spec => []NamesApart
<1>1. KnowledgeInv => NamesApart
  BY DEF KnowledgeInv, Apart, AllBeside, Beside, NamesApart
<1> QED
  BY <1>1, KnowledgeInductive, PTL

-----------------------------------------------------------------------------
(* Searches. *)

(* What the queries listed is still in their scope, and what was found is  *)
(* the top of the two lists.                                               *)
Ranked ==
    \A s \in Searches :
        /\ search[s].byVector \in Seq(Scope(s)) /\ search[s].byWords \in Seq(Scope(s))
        /\ search[s].pc \in {"idle", "vector"} =>
             search[s].byVector = <<>> /\ search[s].byWords = <<>> /\ search[s].found = {}
        /\ search[s].pc = "over" => search[s].found = Top(search[s].byVector, search[s].byWords)

(* The scope of a search only grows, whatever is uploaded or deleted.      *)
LEMMA ScopeGrows ==
    ASSUME KnowledgeInv, [Next]_vars, NEW s \in Searches,
           search'[s].ticked = search[s].ticked, search'[s].full = search[s].full
    PROVE  Scope(s) \subseteq Scope(s)'
<1> SUFFICES ASSUME NEW k \in Scope(s)
             PROVE  k \in Scope(s)'
  OBVIOUS
<1>1. PICK u \in Stored : (search[s].full \/ u \in search[s].ticked) /\ k \in Keys(u)
  BY DEF Scope
<1>2. u \in Stored' /\ doc'[u].keys = doc[u].keys
  BY <1>1, DocumentsStay DEF KnowledgeInv
<1>3. Keys(u)' = Keys(u)
  BY <1>2 DEF Keys, KeysOf
<1> QED
  BY <1>1, <1>2, <1>3 DEF Scope

(* Every step keeps the lists in their scope, and the top of them found.   *)
LEMMA RankedNext == KnowledgeInv /\ Ranked /\ [Next]_vars => Ranked'
<1> SUFFICES ASSUME KnowledgeInv, Ranked, [Next]_vars
             PROVE  Ranked'
  OBVIOUS
<1>t. KnowledgeType
  BY DEF KnowledgeInv
<1> DEFINE R(s) == /\ search[s].byVector \in Seq(Scope(s)) /\ search[s].byWords \in Seq(Scope(s))
                   /\ search[s].pc \in {"idle", "vector"} =>
                        /\ search[s].byVector = <<>> /\ search[s].byWords = <<>>
                        /\ search[s].found = {}
                   /\ search[s].pc = "over" =>
                        search[s].found = Top(search[s].byVector, search[s].byWords)
<1>1. ASSUME NEW s \in Searches, search'[s] = search[s]
      PROVE  R(s)'
  <2>1. Scope(s) \subseteq Scope(s)'
    BY <1>1, ScopeGrows
  <2>2. R(s)
    BY DEF Ranked
  <2>3. Seq(Scope(s)) \subseteq Seq(Scope(s)')
    BY <2>1
  <2> QED
    BY <1>1, <2>2, <2>3
(* A step of the search s itself.                                          *)
<1>2. ASSUME NEW s \in Searches, Asks(s) \/ ByVector(s) \/ ByWords(s) \/ Fuses(s) \/ Breaks(s)
      PROVE  R(s)'
  <2>1. search[s] \in SearchType /\ R(s)
    BY <1>t DEF KnowledgeType, Ranked
  <2>3. CASE Asks(s)
    <3>1. PICK ticked \in SUBSET Uploads, full \in BOOLEAN :
            search' = [search EXCEPT ![s] = [NoSearch EXCEPT
                !.pc = IF ticked = {} /\ ~full THEN "over" ELSE "vector",
                !.ticked = ticked, !.full = full /\ ticked = {}]]
      BY <2>3 DEF Asks
    <3>2. search'[s].byVector = <<>> /\ search'[s].byWords = <<>> /\ search'[s].found = {}
      BY <1>t, <3>1 DEF NoSearch, KnowledgeType
    <3>3. Top(<<>>, <<>>) = {}
      BY DEF Top
    <3> QED
      BY <3>2, <3>3
  <2>4. ASSUME NEW q, q \in {"words", "fusing", "over"}, search'[s].pc = q,
               search'[s].ticked = search[s].ticked, search'[s].full = search[s].full,
               search'[s].byVector \in Seq(Scope(s)), search'[s].byWords \in Seq(Scope(s)),
               q = "over" => search'[s].found = Top(search'[s].byVector, search'[s].byWords)
        PROVE  R(s)'
    <3>1. Scope(s) \subseteq Scope(s)'
      BY <2>4, ScopeGrows
    <3>2. Seq(Scope(s)) \subseteq Seq(Scope(s)')
      BY <3>1
    <3> QED
      BY <2>4, <3>2
  <2>5. CASE ByVector(s)
    <3>1. PICK l \in Lists(Scope(s), {0, Min({Limit, Cardinality(Scope(s))})}) :
            search' = [search EXCEPT ![s].pc = "words", ![s].byVector = l]
      BY <2>5 DEF ByVector
    <3>2. l \in Seq(Scope(s))
      BY <1>t, VectorLimit, ListsType
    <3>3. /\ search'[s].pc = "words" /\ search'[s].byVector = l
          /\ search'[s].byWords = search[s].byWords
          /\ search'[s].ticked = search[s].ticked /\ search'[s].full = search[s].full
      BY <1>t, <2>1, <3>1 DEF KnowledgeType, SearchType
    <3> QED
      BY <2>1, <2>4, <3>2, <3>3
  <2>6. CASE ByWords(s)
    <3>1. PICK l \in Lists(Scope(s), 0..Limit) :
            search' = [search EXCEPT ![s].pc = "fusing", ![s].byWords = l]
      BY <2>6 DEF ByWords
    <3>2. l \in Seq(Scope(s))
      <4>1. 0..Limit \subseteq Nat
        OBVIOUS
      <4> QED
        BY <4>1, ListsType
    <3>3. /\ search'[s].pc = "fusing" /\ search'[s].byWords = l
          /\ search'[s].byVector = search[s].byVector
          /\ search'[s].ticked = search[s].ticked /\ search'[s].full = search[s].full
      BY <1>t, <2>1, <3>1 DEF KnowledgeType, SearchType
    <3> QED
      BY <2>1, <2>4, <3>2, <3>3
  <2>7. CASE Fuses(s)
    <3>1. /\ search'[s].pc = "over"
          /\ search'[s].found = Top(search[s].byVector, search[s].byWords)
          /\ search'[s].byVector = search[s].byVector /\ search'[s].byWords = search[s].byWords
          /\ search'[s].ticked = search[s].ticked /\ search'[s].full = search[s].full
      BY <1>t, <2>1, <2>7 DEF Fuses, KnowledgeType, SearchType
    <3> QED
      BY <2>1, <2>4, <3>1
  <2>8. CASE Breaks(s)
    <3>1. /\ search[s].pc = "vector" /\ search'[s].pc = "over"
          /\ search'[s].byVector = search[s].byVector /\ search'[s].byWords = search[s].byWords
          /\ search'[s].ticked = search[s].ticked /\ search'[s].full = search[s].full
          /\ search'[s].found = search[s].found
      BY <1>t, <2>1, <2>8 DEF Breaks, KnowledgeType, SearchType
    <3>2. Top(<<>>, <<>>) = {}
      BY DEF Top
    <3> QED
      BY <2>1, <2>4, <3>1, <3>2
  <2> QED
    BY <1>2, <2>3, <2>5, <2>6, <2>7, <2>8
<1>3. ASSUME NEW s \in Searches, Asks(s) \/ ByVector(s) \/ ByWords(s) \/ Fuses(s) \/ Breaks(s)
      PROVE  \A x \in Searches \ {s} : search'[x] = search[x]
  BY <1>t, <1>3 DEF Asks, ByVector, ByWords, Fuses, Breaks, KnowledgeType
<1>4. \/ search' = search
      \/ \E s \in Searches : Asks(s) \/ ByVector(s) \/ ByWords(s) \/ Fuses(s) \/ Breaks(s)
  BY DEF Next, vars, Starts, Names, Inserts, Commits, Fails, Deletes
<1>5. \A s \in Searches : R(s)'
  BY <1>1, <1>2, <1>3, <1>4
<1> QED
  BY <1>5 DEF Ranked

(* What a search has found is the top of two lists of keys that are in its *)
(* scope, and so is sound: the best there was, of what was ticked, and no  *)
(* more than was asked for, whatever the rankings and the number of        *)
(* results (SearchSound).                                                  *)
THEOREM SearchesSound == Spec => []SearchSound
<1>1. Init => Ranked
  <2>1. ASSUME Init, NEW s \in Searches
        PROVE  /\ search[s].byVector = <<>> /\ search[s].byWords = <<>>
               /\ search[s].found = {} /\ search[s].pc = "idle"
    BY <2>1 DEF Init, NoSearch
  <2>2. \A S : <<>> \in Seq(S)
    OBVIOUS
  <2> QED
    BY <2>1, <2>2, Zenon DEF Ranked
<1>2. KnowledgeInv /\ Ranked /\ [Next]_vars => Ranked'
  BY RankedNext
<1>3. KnowledgeInv /\ Ranked => SearchSound
  <2> SUFFICES ASSUME KnowledgeInv, Ranked, NEW s \in Searches, search[s].pc = "over"
               PROVE  /\ search[s].found \subseteq Scope(s)
                      /\ Cardinality(search[s].found) <= TopK
                      /\ \A k \in search[s].found,
                            j \in All(search[s].byVector, search[s].byWords) \ search[s].found :
                           ~(/\ NotBehind(search[s].byVector, j, k)
                             /\ NotBehind(search[s].byWords, j, k))
    BY DEF SearchSound, All, NotBehind
  <2> DEFINE v == search[s].byVector
             b == search[s].byWords
  <2>1. v \in Seq(Scope(s)) /\ b \in Seq(Scope(s)) /\ search[s].found = Top(v, b)
    BY DEF Ranked
  <2> HIDE DEF v, b
  <2>2. Top(v, b) \subseteq Scope(s)
    BY <2>1 DEF Top
  <2>3. Cardinality(Top(v, b)) <= TopK
    BY <2>1, TopIsShort
  <2>4. \A k \in Top(v, b), j \in All(v, b) \ Top(v, b) : ~(NotBehind(v, j, k) /\ NotBehind(b, j, k))
    BY <2>1, TopIsBest
  <2> QED
    BY <2>1, <2>2, <2>3, <2>4 DEF v, b
<1> QED
  BY <1>1, <1>2, <1>3, KnowledgeInductive, PTL DEF Spec
=============================================================================
