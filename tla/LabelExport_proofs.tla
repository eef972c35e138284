------------------------- MODULE LabelExport_proofs ---------------------------
(***************************************************************************)
(* The borders of a feature, for every vector of doubles, every mode and   *)
(* number of borders and every format of floats that rounds as Borders     *)
(* assumes: each of them is worth its bin, and medianInBin, which only     *)
(* looks at the two ends of the run of the median, finds the best cut.     *)
(* And the label of an export: its codes keep its order, and the second    *)
(* run of the program gives it the classes it had, if -x allows enough     *)
(* borders and ints and floats are wide enough.                            *)
(***************************************************************************)
EXTENDS LabelExport, FiniteSetTheorems, SequenceTheorems, WellFoundedInduction, TLAPS

-----------------------------------------------------------------------------
(***************************************************************************)
(* Smallest elements and ranks.                                            *)
(***************************************************************************)

\* A set of natural numbers has a smallest element.
LEMMA SmallestNat ==
  ASSUME NEW T \in SUBSET Nat, T # {}
  PROVE  \E x \in T : \A y \in T : x <= y
  <1>1. PICK x \in T : \A y \in T : <<y, x>> \notin OpToRel(<, Nat)
    BY NatLessThanWellFounded, WFMin
  <1>2. \A y \in T : ~(y < x)
    BY <1>1 DEF OpToRel
  <1> QED BY <1>2

\* Min of a set of positions.
LEMMA MinOfNats ==
  ASSUME NEW T \in SUBSET Nat, T # {}
  PROVE  Min(T) \in T /\ \A y \in T : Min(T) <= y
  BY SmallestNat DEF Min

\* How many elements of S lie below x.
Below(S, x) == {u \in S : u < x}
Rank(S, x) == Cardinality(Below(S, x))

\* Ranks grow with the elements, and each is that of one element.
LEMMA Ranks ==
  ASSUME NEW S \in SUBSET Int, IsFiniteSet(S)
  PROVE  /\ Cardinality(S) \in Nat
         /\ \A x \in S : Rank(S, x) \in 0 .. (Cardinality(S) - 1)
         /\ \A x, y \in S : x < y => Rank(S, x) < Rank(S, y)
         /\ \A r \in 0 .. (Cardinality(S) - 1) : \E x \in S : Rank(S, x) = r
  <1> DEFINE n == Cardinality(S)
             rank == [x \in S |-> Rank(S, x)]
  <1>1. n \in Nat
    BY FS_CardinalityType
  <1>2. \A x \in S : /\ Below(S, x) \in SUBSET S /\ IsFiniteSet(Below(S, x))
                     /\ Cardinality(Below(S, x)) \in Nat
    BY FS_Subset, FS_CardinalityType DEF Below
  <1>3. ASSUME NEW x \in S
        PROVE  Rank(S, x) \in 0 .. (n - 1)
    <2>1. Below(S, x) # S /\ Below(S, x) \in SUBSET S
      BY DEF Below
    <2>2. Cardinality(Below(S, x)) < n
      BY <1>1, <1>2, <2>1, FS_Subset
    <2> QED BY <1>1, <1>2, <2>2 DEF Rank
  <1>4. ASSUME NEW x \in S, NEW y \in S, x < y
        PROVE  Rank(S, x) < Rank(S, y)
    <2>0. x \in Int /\ y \in Int /\ \A u \in S : u \in Int /\ (u < x => u < y)
      BY <1>4
    <2>1. Below(S, x) \in SUBSET Below(S, y) /\ x \in Below(S, y) /\ x \notin Below(S, x)
      <3>1. Below(S, x) \subseteq Below(S, y)
        BY <2>0 DEF Below
      <3>2. x \in Below(S, y)
        BY <1>4 DEF Below
      <3>3. x \notin Below(S, x)
        BY <2>0 DEF Below
      <3> QED BY <3>1, <3>2, <3>3
    <2>2. Below(S, x) # Below(S, y)
      BY <2>1
    <2> QED BY <1>2, <2>1, <2>2, FS_Subset DEF Rank
  <1>5. rank \in [S -> 0 .. (n - 1)] /\ \A x \in S : rank[x] = Rank(S, x)
    BY <1>3
  <1>6. ASSUME NEW x \in S, NEW y \in S, rank[x] = rank[y]
        PROVE  x = y
    <2>1. x < y \/ y < x \/ x = y
      OBVIOUS
    <2>2. Rank(S, x) \in Int /\ Rank(S, y) \in Int /\ Rank(S, x) = Rank(S, y)
      BY <1>1, <1>3, <1>5, <1>6
    <2> QED BY <1>4, <2>1, <2>2
  <1>7. rank \in Injection(S, 0 .. (n - 1))
    BY <1>5, <1>6 DEF Injection, IsInjective
  <1>8. IsFiniteSet(0 .. (n - 1)) /\ Cardinality(0 .. (n - 1)) = n
    BY <1>1, FS_Interval
  <1>9. rank \in Surjection(S, 0 .. (n - 1))
    BY <1>7, <1>8, FS_Injection
  <1>10. \A r \in 0 .. (n - 1) : \E x \in S : rank[x] = r
    BY <1>9 DEF Surjection
  <1> QED BY <1>1, <1>3, <1>4, <1>5, <1>10

\* A finite set of numbers has a largest element.
LEMMA MaxOfFinite ==
  ASSUME NEW S \in SUBSET Int, IsFiniteSet(S), S # {}
  PROVE  Max(S) \in S /\ \A y \in S : y <= Max(S)
  <1>1. PICK n \in Nat : n = Cardinality(S)
    BY FS_CardinalityType
  <1>2. n # 0
    BY <1>1, FS_EmptySet
  <1>3. n - 1 \in 0 .. (n - 1)
    BY <1>2
  <1>4. PICK x \in S : Rank(S, x) = n - 1
    BY <1>1, <1>3, Ranks
  <1>5. ASSUME NEW y \in S
        PROVE  x >= y
    <2> SUFFICES ASSUME x < y PROVE FALSE
      OBVIOUS
    <2>1. Rank(S, x) < Rank(S, y) /\ Rank(S, y) \in 0 .. (n - 1)
      BY <1>1, Ranks
    <2> QED BY <1>4, <2>1
  <1>6. Max(S) \in S /\ \A y \in S : Max(S) >= y
    BY <1>5 DEF Max
  <1> QED BY <1>6

\* And a smallest one.
LEMMA MinOfFinite ==
  ASSUME NEW S \in SUBSET Int, IsFiniteSet(S), S # {}
  PROVE  Min(S) \in S /\ \A y \in S : Min(S) <= y
  <1>1. PICK n \in Nat : n = Cardinality(S)
    BY FS_CardinalityType
  <1>2. n # 0
    BY <1>1, FS_EmptySet
  <1>3. 0 \in 0 .. (n - 1)
    BY <1>2
  <1>4. PICK x \in S : Rank(S, x) = 0
    BY <1>1, <1>3, Ranks
  <1>5. ASSUME NEW y \in S
        PROVE  x <= y
    <2> SUFFICES ASSUME y < x PROVE FALSE
      OBVIOUS
    <2>1. Rank(S, y) < Rank(S, x) /\ Rank(S, y) \in 0 .. (n - 1)
      BY <1>1, Ranks
    <2> QED BY <1>4, <2>1
  <1>6. Min(S) \in S /\ \A y \in S : Min(S) <= y
    BY <1>5 DEF Min
  <1> QED BY <1>6

\* A set made from another, one element from each, has no more elements.
LEMMA ImageBound ==
  ASSUME NEW S, IsFiniteSet(S), NEW T, NEW f \in [S -> T], T = {f[x] : x \in S}
  PROVE  IsFiniteSet(T) /\ Cardinality(T) <= Cardinality(S)
  <1>1. f \in Surjection(S, T)
    BY DEF Surjection
  <1> QED BY <1>1, FS_Surjection

\* A part of an interval that starts at 0.
LEMMA PartOfInterval ==
  ASSUME NEW k \in Nat, NEW S \in SUBSET (0 .. (k - 1))
  PROVE  IsFiniteSet(S) /\ Cardinality(S) \in Nat /\ Cardinality(S) <= k
  <1>1. IsFiniteSet(0 .. (k - 1)) /\ Cardinality(0 .. (k - 1)) = k
    BY FS_Interval
  <1>2. IsFiniteSet(S) /\ Cardinality(S) <= k
    BY <1>1, FS_Subset
  <1> QED BY <1>2, FS_CardinalityType

-----------------------------------------------------------------------------
(***************************************************************************)
(* Numbers of a format, and the sorted floats of a feature.                *)
(***************************************************************************)

\* A larger factor makes a larger product.
LEMMA ProductGrows ==
  ASSUME NEW a \in Int, NEW b \in Int, NEW d \in Nat \ {0}, a < b
  PROVE  a * d < b * d /\ a * d \in Int /\ b * d \in Int
  <1>1. (b - a) * d >= 1
    OBVIOUS
  <1> QED BY <1>1

\* Rounding does not pass a number of the format.
LEMMA NearestFacts ==
  ASSUME NEW format, format.numbers \subseteq Int, format.numbers # {},
         NEW num \in Int, NEW den \in Nat \ {0}
  PROVE  /\ Nearest(format, num, den) \in format.numbers
         /\ \A f \in format.numbers : f * den <= num => f <= Nearest(format, num, den)
         /\ \A f \in format.numbers : num <= f * den => Nearest(format, num, den) <= f
  <1> DEFINE S == format.numbers
             Far(f) == IF f * den < num THEN num - f * den ELSE f * den - num
             least == Min({Far(f) : f \in S})
             nearest == {f \in S : Far(f) = least}
             r == Nearest(format, num, den)
  <1>1. \A f \in S : f \in Int /\ f * den \in Int /\ Far(f) \in Nat
    OBVIOUS
  <1>2. /\ \A f \in S : f * den < num => Far(f) = num - f * den
        /\ \A f \in S : ~(f * den < num) => Far(f) = f * den - num
    OBVIOUS
  <1>3. r = CHOOSE f \in nearest : f \in format.even \/ nearest \cap format.even = {}
    BY DEF Nearest
  <1> HIDE DEF Far
  <1>4. {Far(f) : f \in S} \in SUBSET Nat /\ {Far(f) : f \in S} # {}
    BY <1>1
  <1>5. least \in {Far(f) : f \in S} /\ \A y \in {Far(f) : f \in S} : least <= y
    BY <1>4, MinOfNats
  <1> HIDE DEF least
  <1>6. nearest # {} /\ \A f \in nearest : f \in S /\ \A g \in S : Far(f) <= Far(g)
    BY <1>5
  <1> HIDE DEF nearest, r
  <1>7. \E f \in nearest : f \in format.even \/ nearest \cap format.even = {}
    BY <1>6
  <1>8. r \in nearest
    BY <1>3, <1>7
  <1>9. r \in S /\ \A g \in S : Far(r) <= Far(g)
    BY <1>6, <1>8
  <1>10. ASSUME NEW f \in S, f * den <= num
         PROVE  f <= r
    <2> SUFFICES ASSUME r < f PROVE FALSE
      BY <1>1, <1>9
    <2>1. r * den < f * den
      BY <1>1, <1>9, ProductGrows
    <2>2. Far(r) = num - r * den
      BY <1>1, <1>2, <1>9, <1>10, <2>1
    <2>3. Far(f) = num - f * den
      BY <1>1, <1>2, <1>10
    <2> QED BY <1>1, <1>9, <2>1, <2>2, <2>3
  <1>11. ASSUME NEW f \in S, num <= f * den
         PROVE  r <= f
    <2> SUFFICES ASSUME f < r PROVE FALSE
      BY <1>1, <1>9
    <2>1. f * den < r * den
      BY <1>1, <1>9, ProductGrows
    <2>2. Far(r) = r * den - num
      BY <1>1, <1>2, <1>9, <1>11, <2>1
    <2>3. Far(f) = f * den - num
      BY <1>1, <1>2, <1>11
    <2> QED BY <1>1, <1>9, <2>1, <2>2, <2>3
  <1> QED BY <1>9, <1>10, <1>11 DEF r

\* The floats that can be doubled.
NormalFloats == {f \in Float.numbers : -Limit <= f /\ f <= Limit}

\* Rounding to a float: what it is, that it passes no float, and that it leaves
\* floats alone and stays within the limit.
LEMMA RoundedFacts ==
  ASSUME NEW x \in Int
  PROVE  /\ Rounded(x) \in Float.numbers /\ Rounded(x) \in Int
         /\ \A f \in Float.numbers : (f <= x => f <= Rounded(x)) /\ (x <= f => Rounded(x) <= f)
         /\ x \in Float.numbers => Rounded(x) = x
         /\ -Limit <= x /\ x <= Limit => Rounded(x) \in NormalFloats
  <1>1. Float.numbers \subseteq Int /\ Float.numbers # {} /\ Limit \in Float.numbers /\ -Limit \in Float.numbers
    BY FormatAssumption
  <1>2. /\ Rounded(x) \in Float.numbers
        /\ \A f \in Float.numbers : f * 1 <= x => f <= Rounded(x)
        /\ \A f \in Float.numbers : x <= f * 1 => Rounded(x) <= f
    BY <1>1, NearestFacts DEF Rounded
  <1>3. \A f \in Float.numbers : f * 1 = f /\ f \in Int
    BY <1>1
  <1>4. \A f \in Float.numbers : (f <= x => f <= Rounded(x)) /\ (x <= f => Rounded(x) <= f)
    BY <1>2, <1>3
  <1>5. x \in Float.numbers => Rounded(x) = x
    BY <1>2, <1>3, <1>4
  <1>6. -Limit <= x /\ x <= Limit => Rounded(x) \in NormalFloats
    BY <1>1, <1>2, <1>4 DEF NormalFloats
  <1> QED BY <1>2, <1>3, <1>4, <1>5, <1>6

\* Both means of two floats are floats between them, and one of the two only if
\* there is no float between.
LEMMA MeanBetween ==
  ASSUME NEW a \in NormalFloats, NEW b \in NormalFloats, a < b
  PROVE  \A mean \in {Midpoint(a, b), SumOfHalves(a, b)} :
           /\ mean \in Float.numbers /\ mean \in Int /\ a <= mean /\ mean <= b
           /\ mean \in {a, b} => \A f \in Float.numbers : ~(a < f /\ f < b)
  <1>1. Float.numbers \subseteq Int /\ Float.numbers # {} /\ a \in Int /\ b \in Int
    BY FormatAssumption DEF NormalFloats
  <1>2. Rounded(a + b) \in Int
    BY <1>1, RoundedFacts
  <1>3. Midpoint(a, b) \in Float.numbers
    BY <1>1, <1>2, NearestFacts DEF Midpoint
  <1>4. Nearest(Float, a, 2) \in Int /\ Nearest(Float, b, 2) \in Int
    BY <1>1, NearestFacts
  <1>5. SumOfHalves(a, b) \in Float.numbers
    BY <1>4, RoundedFacts DEF SumOfHalves
  <1> QED BY <1>1, <1>3, <1>5, MeanAssumption DEF NormalFloats

\* The smaller and the larger of two numbers.
LEMMA OfTwo ==
  ASSUME NEW x \in Int, NEW y \in Int
  PROVE  /\ Min({x, y}) \in {x, y} /\ Min({x, y}) <= x /\ Min({x, y}) <= y
         /\ Max({x, y}) \in {x, y} /\ x <= Max({x, y}) /\ y <= Max({x, y})
  <1>1. \E m \in {x, y} : \A z \in {x, y} : m <= z
    BY x <= y \/ y <= x
  <1>2. \E m \in {x, y} : \A z \in {x, y} : m >= z
    BY x <= y \/ y <= x
  <1>3. Min({x, y}) \in {x, y} /\ \A z \in {x, y} : Min({x, y}) <= z
    BY <1>1 DEF Min
  <1>4. Max({x, y}) \in {x, y} /\ \A z \in {x, y} : Max({x, y}) >= z
    BY <1>2 DEF Max
  <1> QED BY <1>3, <1>4

\* The borders beyond the values.
LEMMA BordersBeyond ==
  ASSUME NEW v, v[0] \in NormalFloats, Back(v) \in NormalFloats
  PROVE  /\ AlwaysTrue(v) \in Float.numbers /\ AlwaysTrue(v) \in Int /\ AlwaysTrue(v) <= v[0]
         /\ AlwaysFalse(v) \in Float.numbers /\ AlwaysFalse(v) \in Int /\ Back(v) <= AlwaysFalse(v)
  <1>1. Float.numbers \subseteq Int /\ Float.numbers # {} /\ One \in Nat \ {0}
    BY FormatAssumption
  <1>2. PICK a \in Int : a = v[0] /\ a \in Float.numbers /\ 2 * a \in Float.numbers
    BY FormatAssumption DEF NormalFloats
  <1>3. PICK b \in Int : b = Back(v) /\ b \in Float.numbers /\ 2 * b \in Float.numbers
    BY FormatAssumption DEF NormalFloats
  <1>4. PICK x \in Int : x = Nearest(Float, a, 2) /\ x \in Float.numbers /\ (a <= a * 2 => x <= a)
    BY <1>1, <1>2, NearestFacts
  <1>5. PICK y \in Int : y = Rounded(2 * a) /\ y = 2 * a
    BY <1>2, RoundedFacts
  <1>6. AlwaysTrue(v) = Min({x, y})
    BY <1>2, <1>4, <1>5 DEF AlwaysTrue, Front
  <1>8. Min({x, y}) \in {x, y} /\ Min({x, y}) <= x /\ Min({x, y}) <= y
    BY OfTwo
  <1>9. AlwaysTrue(v) \in Float.numbers /\ AlwaysTrue(v) \in Int /\ AlwaysTrue(v) <= v[0]
    BY <1>2, <1>4, <1>5, <1>6, <1>8
  <1>10. PICK z \in Int : z = Rounded(b + One) /\ z \in Float.numbers /\ b <= z
    BY <1>1, <1>3, RoundedFacts
  <1>11. PICK w \in Int : w = Rounded(2 * b) /\ w \in Float.numbers
    BY <1>3, RoundedFacts
  <1>12. AlwaysFalse(v) = Max({w, z})
    BY <1>3, <1>10, <1>11 DEF AlwaysFalse
  <1>14. Max({w, z}) \in {w, z} /\ z <= Max({w, z})
    BY OfTwo
  <1>15. AlwaysFalse(v) \in Float.numbers /\ AlwaysFalse(v) \in Int /\ Back(v) <= AlwaysFalse(v)
    BY <1>3, <1>10, <1>11, <1>12, <1>14
  <1> QED BY <1>9, <1>15

\* SortedFloats is sorted and has the same values, as floats.
LEMMA SortedFacts ==
  ASSUME NEW n \in Nat \ {0}, NEW f \in [0 .. (n - 1) -> Int]
  PROVE  LET s == SortedFloats(f)
         IN  /\ s \in [0 .. (n - 1) -> Int] /\ Size(s) = n
             /\ \A p, q \in 0 .. (n - 1) : p <= q => s[p] <= s[q]
             /\ \A p \in 0 .. (n - 1) : \E i \in 0 .. (n - 1) : s[p] = Rounded(f[i])
             /\ \A i \in 0 .. (n - 1) : \E p \in 0 .. (n - 1) : s[p] = Rounded(f[i])
  <1> DEFINE I == 0 .. (n - 1)
             float == [i \in I |-> Rounded(f[i])]
             R == {float[i] : i \in I}
             UpTo(v) == {i \in I : float[i] <= v}
             T(p) == {v \in R : Cardinality(UpTo(v)) > p}
             s == SortedFloats(f)
  <1>1. DOMAIN f = I
    OBVIOUS
  <1>2. s = [p \in I |-> Min(T(p))]
    BY <1>1 DEF SortedFloats
  <1>3. \A i \in I : float[i] = Rounded(f[i]) /\ float[i] \in Int /\ float[i] \in R
    BY RoundedFacts
  <1>4. IsFiniteSet(I) /\ Cardinality(I) = n /\ 0 \in I
    BY FS_Interval
  <1>5. float \in [I -> R] /\ R \in SUBSET Int /\ R # {}
    BY <1>3, <1>4
  <1>6. R = {float[i] : i \in I}
    OBVIOUS
  <1>7. \A v \in R : \E i \in I : v = float[i]
    OBVIOUS
  <1> HIDE DEF float, R
  <1>8. IsFiniteSet(R)
    BY <1>4, <1>5, <1>6, ImageBound
  <1>9. \A v : IsFiniteSet(UpTo(v)) /\ UpTo(v) \in SUBSET I /\ Cardinality(UpTo(v)) \in Nat
    BY <1>4, FS_Subset, FS_CardinalityType
  <1>10. \A v, i : i \in UpTo(v) <=> i \in I /\ float[i] <= v
    OBVIOUS
  <1> HIDE DEF UpTo
  <1>11. \A p \in I : \A v : v \in T(p) <=> v \in R /\ Cardinality(UpTo(v)) > p
    OBVIOUS
  <1>12. ASSUME NEW p \in I
         PROVE  T(p) \in SUBSET Int /\ IsFiniteSet(T(p)) /\ T(p) # {}
    <2>1. T(p) \in SUBSET R
      BY <1>11
    <2>2. Max(R) \in R /\ \A y \in R : y <= Max(R)
      BY <1>5, <1>8, MaxOfFinite
    <2>3. UpTo(Max(R)) = I
      BY <1>3, <1>9, <1>10, <2>2
    <2>4. Max(R) \in T(p)
      BY <1>4, <1>11, <2>2, <2>3
    <2> QED BY <1>5, <1>8, <2>1, <2>4, FS_Subset
  <1> HIDE DEF T
  <1>13. \A p \in I : s[p] = Min(T(p)) /\ s[p] \in T(p) /\ s[p] \in R /\ s[p] \in Int /\ \A y \in T(p) : s[p] <= y
    <2> TAKE p \in I
    <2>1. s[p] = Min(T(p))
      BY <1>2
    <2>2. Min(T(p)) \in T(p) /\ \A y \in T(p) : Min(T(p)) <= y
      BY <1>12, MinOfFinite
    <2> QED BY <1>11, <1>12, <2>1, <2>2
  <1>14. s \in [I -> Int] /\ Size(s) = n
    <2>1. DOMAIN s = I
      BY <1>2
    <2>2. s = [p \in I |-> s[p]]
      BY <1>2
    <2> HIDE DEF s
    <2> QED BY <1>4, <1>13, <2>1, <2>2 DEF Size
  <1> HIDE DEF s
  <1>15. ASSUME NEW p \in I, NEW q \in I, p <= q
         PROVE  s[p] <= s[q]
    <2>1. s[q] \in R /\ Cardinality(UpTo(s[q])) > q
      BY <1>11, <1>13
    <2>2. Cardinality(UpTo(s[q])) > p
      BY <1>9, <1>15, <2>1
    <2>3. s[q] \in T(p)
      BY <1>11, <2>1, <2>2
    <2> QED BY <1>13, <2>3
  <1>16. ASSUME NEW i \in I
         PROVE  \E p \in I : s[p] = Rounded(f[i])
    <2> DEFINE v == float[i]
               B == {j \in I : float[j] < v}
    <2>1. v \in R /\ v \in Int /\ v = Rounded(f[i])
      BY <1>3
    <2> HIDE DEF v
    <2>2. B \in SUBSET UpTo(v) /\ i \in UpTo(v) /\ i \notin B
      BY <1>3, <1>10, <2>1 DEF v
    <2>3. IsFiniteSet(B) /\ Cardinality(B) \in Nat /\ Cardinality(B) < Cardinality(UpTo(v))
      <3>1. IsFiniteSet(UpTo(v)) /\ B # UpTo(v)
        BY <1>9, <2>2
      <3>2. IsFiniteSet(B) /\ Cardinality(B) <= Cardinality(UpTo(v)) /\ Cardinality(B) # Cardinality(UpTo(v))
        BY <2>2, <3>1, FS_Subset
      <3>3. Cardinality(B) \in Nat /\ Cardinality(UpTo(v)) \in Nat
        BY <1>9, <3>2, FS_CardinalityType
      <3> QED BY <3>2, <3>3
    <2>4. Cardinality(UpTo(v)) <= n
      BY <1>4, <1>9, FS_Subset
    <2>5. PICK p \in I : p = Cardinality(B)
      <3>1. Cardinality(UpTo(v)) \in Nat
        BY <1>9
      <3>2. Cardinality(B) \in 0 .. (n - 1)
        BY <2>3, <2>4, <3>1
      <3> QED BY <3>2
    <2>6. v \in T(p)
      BY <1>9, <1>11, <2>1, <2>3, <2>5
    <2>7. ASSUME NEW w \in T(p)
          PROVE  v <= w
      <3> SUFFICES ASSUME w < v PROVE FALSE
        BY <1>12, <2>1
      <3>1. w \in Int /\ Cardinality(UpTo(w)) > p
        BY <1>11, <1>12
      <3>2. UpTo(w) \in SUBSET B
        BY <1>3, <1>10, <2>1, <3>1
      <3>3. Cardinality(UpTo(w)) <= Cardinality(B)
        BY <2>3, <3>2, FS_Subset
      <3> QED BY <1>9, <2>3, <2>5, <3>1, <3>3
    <2>8. s[p] = v
      BY <1>13, <2>1, <2>6, <2>7
    <2> QED BY <2>1, <2>8
  <1>17. \A p \in I : \E i \in I : s[p] = Rounded(f[i])
    BY <1>3, <1>7, <1>13
  <1> QED BY <1>14, <1>15, <1>16, <1>17 DEF s

-----------------------------------------------------------------------------
(***************************************************************************)
(* The bins of medianInBin.                                                *)
(***************************************************************************)

\* The values are a sorted vector that is not empty.
SortedValues ==
  /\ Size(values) \in Nat \ {0} /\ values \in [0 .. (Size(values) - 1) -> Int]
  /\ \A p, q \in 0 .. (Size(values) - 1) : p <= q => values[p] <= values[q]

Mid(start, end) == (start + end) \div 2

\* The ends of the run of the median.
RunStart(start, end) ==
  Min({p \in start .. Mid(start, end) : p = Mid(start, end) \/ values[p] >= values[Mid(start, end)]})
RunEnd(start, end) ==
  Min({p \in Mid(start, end) .. end : p = end \/ values[p] > values[Mid(start, end)]})

\* A product of two numbers of a given sum grows as they come closer.
LEMMA CloserIsLarger ==
  ASSUME NEW a \in Int, NEW b \in Int, NEW c \in Int, a <= b, a + b <= c
  PROVE  a * (c - a) <= b * (c - b)
  <1>1. \A d, g \in Nat : d * g \in Nat
    OBVIOUS
  <1>2. (b - a) * (c - a - b) >= 0
    BY <1>1
  <1>3. (b - a) * (c - a - b) = b * (c - b) - a * (c - a)
    OBVIOUS
  <1> QED BY <1>2, <1>3

\* A product of positive numbers.
LEMMA PositiveProduct ==
  ASSUME NEW a \in Nat \ {0}, NEW b \in Nat \ {0}
  PROVE  a * b \in Nat \ {0} /\ (a >= 2 => a * b >= 2)
  OBVIOUS

\* Where the run of the median lies, and what is around it.
LEMMA RunOfMedian ==
  ASSUME SortedValues, NEW s \in Nat, NEW e \in Nat, s < e, e <= Size(values)
  PROVE  LET mid == Mid(s, e)
             lb  == RunStart(s, e)
             up  == RunEnd(s, e)
         IN  /\ mid \in s .. (e - 1) /\ lb \in s .. mid /\ up \in (mid + 1) .. e
             /\ 2 * lb <= s + e /\ s + e < 2 * up
             /\ \A p \in lb .. (up - 1) : values[p] = values[mid]
             /\ lb # s => values[lb - 1] < values[mid]
             /\ up # e => values[up] > values[mid]
  <1>0. PICK n \in Nat : n = Size(values)
    BY DEF SortedValues
  <1>1. PICK mid \in Int : mid = Mid(s, e)
    BY DEF Mid
  <1>2. mid \in s .. (e - 1) /\ 2 * mid <= s + e /\ s + e <= 2 * mid + 1
    BY <1>1 DEF Mid
  <1>3. /\ \A p \in s .. (e - 1) : values[p] \in Int
        /\ \A p, q \in s .. (e - 1) : p <= q => values[p] <= values[q]
    BY <1>0 DEF SortedValues
  <1> DEFINE L == {p \in s .. mid : p = mid \/ values[p] >= values[mid]}
             U == {p \in mid .. e : p = e \/ values[p] > values[mid]}
  <1>4. L \in SUBSET Nat /\ mid \in L /\ U \in SUBSET Nat /\ e \in U
    BY <1>2
  <1>5. RunStart(s, e) \in L /\ (\A p \in L : RunStart(s, e) <= p)
    BY <1>1, <1>4, MinOfNats DEF RunStart
  <1>6. RunEnd(s, e) \in U /\ (\A p \in U : RunEnd(s, e) <= p)
    BY <1>1, <1>4, MinOfNats DEF RunEnd
  <1>7. PICK lb \in L : lb = RunStart(s, e)
    BY <1>5
  <1>8. PICK up \in U : up = RunEnd(s, e)
    BY <1>6
  <1>9. lb \in s .. mid /\ values[lb] >= values[mid] /\ \A p \in s .. mid : p < lb => values[p] < values[mid]
    BY <1>2, <1>3, <1>5, <1>7
  <1>10. up \in mid .. e /\ (up # e => values[up] > values[mid]) /\ \A p \in mid .. (e - 1) : p < up => values[p] <= values[mid]
    BY <1>2, <1>3, <1>6, <1>8
  <1>11. up # mid
    BY <1>2, <1>3, <1>10
  <1>12. \A p \in lb .. (up - 1) : values[p] = values[mid]
    <2> TAKE p \in lb .. (up - 1)
    <2>1. p \in s .. (e - 1) /\ lb \in s .. (e - 1) /\ mid \in s .. (e - 1)
      BY <1>2, <1>9, <1>10
    <2>2. CASE p <= mid
      BY <1>3, <1>9, <2>1, <2>2
    <2>3. CASE p > mid
      BY <1>3, <1>10, <2>1, <2>3
    <2> QED BY <2>1, <2>2, <2>3, <1>2
  <1>13. lb # s => values[lb - 1] < values[mid]
    BY <1>2, <1>9
  <1> HIDE DEF L, U
  <1>14. /\ mid \in s .. (e - 1) /\ lb \in s .. mid /\ up \in (mid + 1) .. e
         /\ 2 * lb <= s + e /\ s + e < 2 * up
    BY <1>2, <1>9, <1>10, <1>11
  <1> QED BY <1>1, <1>7, <1>8, <1>10, <1>12, <1>13, <1>14

\* A feature bin of at least one value: its split is a cut of the best
\* product, found by looking at the two ends of the run of the median, or
\* there is no cut, and the score is that of a pair.
LEMMA FeatureBinFacts ==
  ASSUME SortedValues, NEW s \in Nat, NEW e \in Nat, s < e, e <= Size(values)
  PROVE  LET bin == FeatureBin(s, e)
         IN  /\ bin = [start |-> s, end |-> e, split |-> bin.split, score |-> bin.score]
             /\ bin.split \in s .. e /\ bin.score \in Nat \ {0}
             /\ CanSplit(bin) => /\ bin.split \in Cuts(s, e)
                                 /\ bin.score = (bin.split - s) * (e - bin.split)
             /\ ~CanSplit(bin) => Cuts(s, e) = {} /\ bin.score = 1
             /\ \A p \in Cuts(s, e) : (p - s) * (e - p) <= bin.score
  <1> DEFINE mid == Mid(s, e)
             lb == RunStart(s, e)
             up == RunEnd(s, e)
             left == IF lb # s THEN (lb - s) * (e - lb) ELSE 1
             right == IF up # e THEN (up - s) * (e - up) ELSE 1
             bin == FeatureBin(s, e)
  <1>1. bin = [start |-> s, end |-> e, split |-> IF left >= right THEN lb ELSE up,
               score |-> IF left >= right THEN left ELSE right]
    BY DEF FeatureBin, Mid, RunStart, RunEnd
  <1>2. /\ mid \in s .. (e - 1) /\ lb \in s .. mid /\ up \in (mid + 1) .. e
        /\ 2 * lb <= s + e /\ s + e < 2 * up
        /\ \A p \in lb .. (up - 1) : values[p] = values[mid]
        /\ lb # s => values[lb - 1] < values[mid]
        /\ up # e => values[up] > values[mid]
    BY RunOfMedian
  <1>3. \A p \in s .. (e - 1) : values[p] \in Int
    BY DEF SortedValues
  <1> HIDE DEF mid, lb, up
  <1>4. lb # s => lb \in Cuts(s, e)
    <2> SUFFICES ASSUME lb # s PROVE lb \in Cuts(s, e)
      OBVIOUS
    <2>1. lb \in (s + 1) .. (e - 1) /\ lb - 1 \in s .. (e - 1) /\ mid \in s .. (e - 1) /\ lb \in lb .. (up - 1)
      BY <1>2
    <2>2. values[lb] = values[mid] /\ values[lb - 1] < values[mid] /\ values[lb - 1] \in Int /\ values[mid] \in Int
      BY <1>2, <1>3, <2>1
    <2> QED BY <2>1, <2>2 DEF Cuts
  <1>5. up # e => up \in Cuts(s, e)
    <2> SUFFICES ASSUME up # e PROVE up \in Cuts(s, e)
      OBVIOUS
    <2>1. up \in (s + 1) .. (e - 1) /\ up \in s .. (e - 1) /\ mid \in s .. (e - 1) /\ up - 1 \in lb .. (up - 1)
      BY <1>2
    <2>2. values[up - 1] = values[mid] /\ values[up] > values[mid] /\ values[up] \in Int /\ values[mid] \in Int
      BY <1>2, <1>3, <2>1
    <2> QED BY <2>1, <2>2 DEF Cuts
  <1>6. /\ left \in Nat \ {0} /\ right \in Nat \ {0}
        /\ lb = s /\ up # e => right >= 2
    <2>1. lb # s => (lb - s) * (e - lb) \in Nat \ {0}
      <3>1. lb # s => lb - s \in Nat \ {0} /\ e - lb \in Nat \ {0}
        BY <1>2
      <3> QED BY <3>1, PositiveProduct
    <2>2. up # e => (up - s) * (e - up) \in Nat \ {0} /\ (up - s) * (e - up) >= 2
      <3>1. up # e => up - s \in Nat \ {0} /\ e - up \in Nat \ {0} /\ up - s >= 2
        BY <1>2
      <3> QED BY <3>1, PositiveProduct
    <2> QED BY <2>1, <2>2
  <1>7. ASSUME NEW p \in Cuts(s, e)
        PROVE  \/ lb # s /\ (p - s) * (e - p) <= left
               \/ up # e /\ (p - s) * (e - p) <= right
    <2>1. p \in (s + 1) .. (e - 1) /\ values[p - 1] # values[p]
      BY DEF Cuts
    <2>2. p <= lb \/ p >= up
      <3> SUFFICES ASSUME lb < p, p < up PROVE FALSE
        BY <1>2, <2>1
      <3>1. p \in lb .. (up - 1) /\ p - 1 \in lb .. (up - 1)
        BY <1>2, <2>1
      <3> QED BY <1>2, <2>1, <3>1
    <2>3. CASE p <= lb
      <3>1. /\ lb # s
            /\ p - s \in Int /\ lb - s \in Int /\ e - s \in Int
            /\ p - s <= lb - s /\ (p - s) + (lb - s) <= e - s
            /\ (e - s) - (p - s) = e - p /\ (e - s) - (lb - s) = e - lb
        BY <1>2, <2>1, <2>3
      <3>2. (p - s) * (e - p) <= (lb - s) * (e - lb)
        BY <3>1, CloserIsLarger
      <3> QED BY <3>1, <3>2
    <2>4. CASE p >= up
      <3>1. /\ up # e
            /\ e - p \in Int /\ e - up \in Int /\ e - s \in Int
            /\ e - p <= e - up /\ (e - p) + (e - up) <= e - s
            /\ (e - s) - (e - p) = p - s /\ (e - s) - (e - up) = up - s
        BY <1>2, <2>1, <2>4
      <3>2. (e - p) * (p - s) <= (e - up) * (up - s)
        BY <3>1, CloserIsLarger
      <3>3. (e - p) * (p - s) = (p - s) * (e - p) /\ (e - up) * (up - s) = (up - s) * (e - up)
        BY <1>2, <2>1
      <3> QED BY <3>1, <3>2, <3>3
    <2> QED BY <2>2, <2>3, <2>4
  <1>8. lb \in Int /\ up \in Int /\ lb # e /\ up # s
    BY <1>2
  <1>9. \A p \in Cuts(s, e) : (p - s) * (e - p) \in Int
    BY DEF Cuts
  <1>10. /\ bin.start = s /\ bin.end = e
         /\ left >= right => bin.split = lb /\ bin.score = left
         /\ ~(left >= right) => bin.split = up /\ bin.score = right
    BY <1>1
  <1>11. bin = [start |-> s, end |-> e, split |-> bin.split, score |-> bin.score]
    BY <1>1
  <1>12. bin.split \in s .. e /\ bin.score \in Nat \ {0}
    BY <1>2, <1>6, <1>10
  <1>13. CanSplit(bin) <=> bin.split # s /\ bin.split # e
    BY <1>10 DEF CanSplit
  <1>14. CanSplit(bin) <=> lb # s \/ up # e
    BY <1>6, <1>8, <1>10, <1>13
  <1>15. CanSplit(bin) => /\ bin.split \in Cuts(s, e)
                          /\ bin.score = (bin.split - s) * (e - bin.split)
    BY <1>4, <1>5, <1>6, <1>8, <1>10, <1>13
  <1>16. ~CanSplit(bin) => Cuts(s, e) = {} /\ bin.score = 1
    BY <1>7, <1>10, <1>14
  <1>17. \A p \in Cuts(s, e) : (p - s) * (e - p) <= bin.score
    <2> HIDE DEF left, right
    <2> QED BY <1>6, <1>7, <1>9, <1>10
  <1> HIDE DEF bin, left, right
  <1> QED BY <1>11, <1>12, <1>15, <1>16, <1>17 DEF bin

-----------------------------------------------------------------------------
(***************************************************************************)
(* The inductive invariant.                                                *)
(***************************************************************************)

\* The values are the sorted floats of the feature.
VectorInv ==
  /\ SortedValues /\ bordersCount \in Nat
  /\ \A p \in DOMAIN values : values[p] \in NormalFloats
  /\ feature \in [DOMAIN values -> Int]
  /\ \A p \in DOMAIN values : \E i \in DOMAIN values : values[p] = Rounded(feature[i])
  /\ \A i \in DOMAIN values : \E p \in DOMAIN values : values[p] = Rounded(feature[i])

\* A bin of the queue is what its range of positions makes it, and ends at the
\* end of the vector or where different values meet.
BinInv(bin) ==
  /\ bin.start \in Nat /\ bin.end \in Nat /\ bin.start < bin.end /\ bin.end <= Size(values)
  /\ bin = FeatureBin(bin.start, bin.end)
  /\ ~IsLast(bin) => values[bin.end - 1] < values[bin.end]

Holds(bin, p) == bin.start <= p /\ p < bin.end

\* The queue of medianInBin: at most one bin more than borders asked for; every
\* position is in one of them, and in no two.
SplitInv ==
  /\ IsFiniteSet(splits) /\ Cardinality(splits) <= bordersCount + 1
  /\ \A bin \in splits : BinInv(bin)
  /\ splits # {} => \A p \in 0 .. (Size(values) - 1) : \E bin \in splits : Holds(bin, p)
  /\ \A a, b \in splits : a = b \/ a.end <= b.start \/ b.end <= a.start

\* If the loop stopped early, a bin on top of the queue cannot be split.
StopInv ==
  done /\ mode = "medianInBin" /\ Cardinality(splits) <= bordersCount =>
    \E top \in splits : IsTop(top) /\ ~CanSplit(top)

Mean(a, b) == IF mode = "medianInBin" THEN SumOfHalves(a, b) ELSE Midpoint(a, b)

\* The values grow at a position.
GrowsAt(p) == p \in 1 .. (Size(values) - 1) /\ values[p - 1] < values[p]

\* The border there: the mean of the two values, or the smaller one if the mean
\* was rounded to the larger one, as RegularBorder makes sure.
BorderAt(b, p) ==
  /\ GrowsAt(p)
  /\ mode \in {"median", "medianPlusUniform"} => b # values[p]
  /\ \/ b = Mean(values[p - 1], values[p])
     \/ Mean(values[p - 1], values[p]) = values[p] /\ b = values[p - 1]

\* A border that RegularBorder makes for a value outside of the vector.
Beyond(b) == UniformOff /\ b \in {AlwaysTrue(values), AlwaysFalse(values)}

GoodBorders(bs) ==
  /\ IsFiniteSet(bs) /\ Cardinality(bs) <= bordersCount
  /\ \A b \in bs : Beyond(b) \/ \E p \in 1 .. (Size(values) - 1) : BorderAt(b, p)

\* A border wherever the values grow.
CompleteBorders(bs) == \A p \in 1 .. (Size(values) - 1) : GrowsAt(p) => \E b \in bs : BorderAt(b, p)

BordersInv == done => GoodBorders(borders) /\ (EnoughBorders => CompleteBorders(borders))

GridInv == VectorInv /\ SplitInv /\ StopInv /\ BordersInv

-----------------------------------------------------------------------------
(***************************************************************************)
(* Where the borders lie.                                                  *)
(***************************************************************************)

\* The domain of the vector.
LEMMA VectorIsSorted ==
  ASSUME VectorInv
  PROVE  SortedValues /\ bordersCount \in Nat /\ DOMAIN values = 0 .. (Size(values) - 1)
  BY DEF VectorInv, SortedValues

\* A border lies between the values around its position, and is one of them
\* only if there is no float between them.
LEMMA BorderBetween ==
  ASSUME VectorInv, NEW b, NEW p, BorderAt(b, p)
  PROVE  /\ p \in 1 .. (Size(values) - 1) /\ p \in DOMAIN values /\ p - 1 \in DOMAIN values
         /\ values[p - 1] \in Int /\ values[p] \in Int /\ values[p - 1] < values[p]
         /\ b \in Float.numbers /\ b \in Int /\ values[p - 1] <= b /\ b <= values[p]
         /\ b \in {values[p - 1], values[p]} =>
              \A f \in Float.numbers : ~(values[p - 1] < f /\ f < values[p])
  <1>0. PICK n \in Nat \ {0} : n = Size(values)
    BY DEF VectorInv, SortedValues
  <1>1. /\ p \in 1 .. (n - 1) /\ values[p - 1] < values[p]
        /\ DOMAIN values = 0 .. (n - 1) /\ p \in 0 .. (n - 1) /\ p - 1 \in 0 .. (n - 1)
    BY <1>0, VectorIsSorted DEF BorderAt, GrowsAt
  <1>2. PICK x \in NormalFloats, y \in NormalFloats : x = values[p - 1] /\ y = values[p] /\ x \in Int /\ y \in Int
    <2>1. values[p - 1] \in NormalFloats /\ values[p] \in NormalFloats
      BY <1>1 DEF VectorInv
    <2>2. NormalFloats \subseteq Int
      BY FormatAssumption DEF NormalFloats
    <2> QED BY <2>1, <2>2
  <1>3. PICK m : m = Mean(x, y)
    OBVIOUS
  <1>4. m \in {Midpoint(x, y), SumOfHalves(x, y)}
    BY <1>3 DEF Mean
  <1>5. /\ m \in Float.numbers /\ m \in Int /\ x <= m /\ m <= y
        /\ m \in {x, y} => \A f \in Float.numbers : ~(x < f /\ f < y)
    BY <1>1, <1>2, <1>4, MeanBetween
  <1>6. b = m \/ (m = y /\ b = x)
    BY <1>2, <1>3 DEF BorderAt
  <1>7. b \in Float.numbers
    BY <1>5, <1>6 DEF NormalFloats
  <1> QED BY <1>0, <1>1, <1>2, <1>5, <1>6, <1>7

\* RegularBorder makes the border at a position where the values grow.
LEMMA RegularIsAt ==
  ASSUME SortedValues, mode # "medianInBin", NEW p, GrowsAt(p)
  PROVE  BorderAt(RegularBorder(p, values), p)
  <1>1. p # Size(values) /\ p # 0 /\ values[p] \in Int /\ values[p - 1] \in Int
    BY DEF SortedValues, GrowsAt
  <1>2. Midpoint(values[p], values[p - 1]) = Midpoint(values[p - 1], values[p])
    <2>1. values[p] + values[p - 1] = values[p - 1] + values[p]
      BY <1>1
    <2> QED BY <2>1 DEF Midpoint
  <1>3. RegularBorder(p, values) = IF Midpoint(values[p], values[p - 1]) = values[p]
                                   THEN values[p - 1] ELSE Midpoint(values[p], values[p - 1])
    BY <1>1 DEF RegularBorder
  <1>4. Mean(values[p - 1], values[p]) = Midpoint(values[p - 1], values[p])
    BY DEF Mean
  <1>5. RegularBorder(p, values) # values[p]
    BY <1>1, <1>3 DEF GrowsAt
  <1> QED BY <1>2, <1>3, <1>4, <1>5 DEF BorderAt

\* The lower bound of a number above the first value and not above the last is
\* a position where the values grow.
LEMMA PositionGrows ==
  ASSUME SortedValues, NEW x \in Int, values[0] < x, x <= values[Size(values) - 1]
  PROVE  LET p == Position(x, values)
         IN  /\ p \in 1 .. (Size(values) - 1) /\ GrowsAt(p)
             /\ values[p] >= x
             /\ \A q \in 0 .. (p - 1) : values[q] < x
  <1>1. PICK n \in Nat \ {0} : n = Size(values)
    BY DEF SortedValues
  <1>2. DOMAIN values = 0 .. (n - 1) /\ \A q \in 0 .. (n - 1) : values[q] \in Int
    BY <1>1 DEF SortedValues
  <1> DEFINE P == {p \in DOMAIN values : values[p] >= x} \cup {n}
  <1>3. P \in SUBSET Nat /\ P # {}
    BY <1>2
  <1>4. PICK p \in P : p = Position(x, values) /\ \A q \in P : p <= q
    <2>1. Position(x, values) = Min(P)
      BY <1>1 DEF Position
    <2> HIDE DEF P
    <2>2. Min(P) \in P /\ \A q \in P : Min(P) <= q
      BY <1>3, MinOfNats
    <2> QED BY <2>1, <2>2
  <1>5. p <= n - 1 /\ p \in Nat
    <2>1. n - 1 \in P
      BY <1>1, <1>2
    <2> QED BY <1>3, <1>4, <2>1
  <1>6. p \in 0 .. (n - 1) /\ values[p] >= x
    BY <1>2, <1>4, <1>5
  <1>7. p # 0
    BY <1>2, <1>6
  <1>8. \A q \in 0 .. (p - 1) : values[q] < x
    <2> TAKE q \in 0 .. (p - 1)
    <2>1. q \in 0 .. (n - 1) /\ ~(p <= q)
      BY <1>5
    <2>2. q \notin P
      BY <1>4, <2>1
    <2> QED BY <1>2, <2>1, <2>2
  <1>9. values[p - 1] < values[p]
    <2>1. p - 1 \in 0 .. (p - 1) /\ p - 1 \in 0 .. (n - 1)
      BY <1>6, <1>7
    <2> QED BY <1>2, <1>6, <1>8, <2>1
  <1> HIDE DEF P
  <1> QED BY <1>1, <1>4, <1>6, <1>7, <1>8, <1>9 DEF GrowsAt

\* Where the values grow, the position is the lower bound of its value.
LEMMA PositionOfGrowth ==
  ASSUME SortedValues, NEW p \in 1 .. (Size(values) - 1), GrowsAt(p)
  PROVE  Position(values[p], values) = p /\ values[p] \in Int /\ values[p] # values[0] /\ Front(values) # Back(values)
  <1>1. PICK n \in Nat \ {0} : n = Size(values)
    BY DEF SortedValues
  <1>2. /\ \A q \in 0 .. (n - 1) : values[q] \in Int
        /\ \A q, r \in 0 .. (n - 1) : q <= r => values[q] <= values[r]
    BY <1>1 DEF SortedValues
  <1>3. p \in 0 .. (n - 1) /\ p - 1 \in 0 .. (n - 1) /\ 0 \in 0 .. (n - 1) /\ n - 1 \in 0 .. (n - 1)
    BY <1>1
  <1>4. /\ values[0] <= values[p - 1] /\ values[p - 1] < values[p] /\ values[p] <= values[n - 1]
        /\ values[0] \in Int /\ values[p - 1] \in Int /\ values[p] \in Int /\ values[n - 1] \in Int
    BY <1>2, <1>3 DEF GrowsAt
  <1>5. PICK r \in 1 .. (n - 1) : /\ r = Position(values[p], values) /\ values[r] >= values[p]
                                  /\ \A q \in 0 .. (r - 1) : values[q] < values[p]
    BY <1>1, <1>4, PositionGrows
  <1>6. ~(p < r)
    <2>1. p < r => p \in 0 .. (r - 1)
      OBVIOUS
    <2> QED BY <1>4, <1>5, <2>1
  <1>7. ~(r < p)
    <2> SUFFICES ASSUME r < p PROVE FALSE
      OBVIOUS
    <2>1. r \in 0 .. (n - 1) /\ r <= p - 1
      BY <1>1
    <2>2. values[r] <= values[p - 1] /\ values[r] \in Int
      BY <1>2, <1>3, <2>1
    <2> QED BY <1>4, <1>5, <2>2
  <1>8. Front(values) # Back(values)
    BY <1>1, <1>4 DEF Front, Back
  <1> QED BY <1>4, <1>5, <1>6, <1>7, <1>8

\* Outside of the values the lower bound is the first or the last position.
LEMMA PositionBeyond ==
  ASSUME SortedValues, NEW x \in Int, ~(values[0] < x /\ x <= values[Size(values) - 1])
  PROVE  RegularBorder(Position(x, values), values) \in {AlwaysTrue(values), AlwaysFalse(values)}
  <1>1. PICK n \in Nat \ {0} : n = Size(values)
    BY DEF SortedValues
  <1>2. /\ DOMAIN values = 0 .. (n - 1) /\ \A q \in 0 .. (n - 1) : values[q] \in Int
        /\ \A q, r \in 0 .. (n - 1) : q <= r => values[q] <= values[r]
        /\ 0 \in 0 .. (n - 1) /\ n - 1 \in 0 .. (n - 1)
    BY <1>1 DEF SortedValues
  <1> DEFINE P == {p \in DOMAIN values : values[p] >= x} \cup {n}
  <1>3. P \in SUBSET Nat /\ P # {}
    BY <1>2
  <1>4. Position(x, values) = Min(P)
    BY <1>1 DEF Position
  <1>5. CASE ~(values[0] < x)
    <2>1. 0 \in P
      BY <1>2, <1>5
    <2> HIDE DEF P
    <2>2. Min(P) \in Nat /\ Min(P) <= 0
      BY <1>3, <2>1, MinOfNats
    <2>3. Position(x, values) = 0
      BY <1>4, <2>2
    <2> QED BY <1>1, <2>3 DEF RegularBorder
  <1>6. CASE ~(x <= values[n - 1])
    <2>1. ASSUME NEW q \in 0 .. (n - 1)
          PROVE  ~(values[q] >= x)
      <3>1. q <= n - 1
        OBVIOUS
      <3>2. values[q] <= values[n - 1] /\ values[q] \in Int /\ values[n - 1] \in Int
        BY <1>2, <3>1
      <3> QED BY <1>6, <3>2
    <2>2. P = {n}
      BY <1>2, <2>1
    <2> HIDE DEF P
    <2>3. Min(P) \in P
      BY <1>3, MinOfNats
    <2>4. Position(x, values) = Size(values)
      BY <1>1, <1>4, <2>2, <2>3
    <2> QED BY <2>4 DEF RegularBorder
  <1> QED BY <1>1, <1>5, <1>6

\* The values are not all equal unless the first equals the last.
LEMMA FrontBelowBack ==
  ASSUME SortedValues, Front(values) # Back(values)
  PROVE  Front(values) = values[0] /\ Back(values) = values[Size(values) - 1] /\ values[0] < values[Size(values) - 1]
  <1>1. 0 \in 0 .. (Size(values) - 1) /\ Size(values) - 1 \in 0 .. (Size(values) - 1)
    BY DEF SortedValues
  <1>2. Front(values) = values[0] /\ Back(values) = values[Size(values) - 1]
    BY DEF Front, Back
  <1>3. values[0] \in Int /\ values[Size(values) - 1] \in Int /\ values[0] <= values[Size(values) - 1]
    BY <1>1 DEF SortedValues
  <1> QED BY <1>2, <1>3


-----------------------------------------------------------------------------
(***************************************************************************)
(* The borders at quantiles and at equal distances.                        *)
(***************************************************************************)

\* Every border is the one RegularBorder makes where the values grow.
AtGrowth(bs) ==
  \A b \in bs : \E p \in 1 .. (Size(values) - 1) : GrowsAt(p) /\ b = RegularBorder(p, values)

\* Such a border wherever the values grow.
AtEveryGrowth(bs) == \A p \in 1 .. (Size(values) - 1) : GrowsAt(p) => RegularBorder(p, values) \in bs

\* The quotient of a division.
LEMMA DivisionIs ==
  ASSUME NEW x \in Nat, NEW d \in Nat \ {0}, NEW p \in Nat, p * d <= x, x < p * d + d
  PROVE  x \div d = p
  <1>1. PICK e \in Int : e = x \div d
    OBVIOUS
  <1>2. e * d <= x /\ x < e * d + d
    BY <1>1
  <1>3. ~(e < p)
    <2> SUFFICES ASSUME e < p PROVE FALSE
      OBVIOUS
    <2>1. (p - e - 1) * d >= 0
      OBVIOUS
    <2> QED BY <1>2, <2>1
  <1>4. ~(p < e)
    <2> SUFFICES ASSUME p < e PROVE FALSE
      OBVIOUS
    <2>1. (e - p - 1) * d >= 0
      OBVIOUS
    <2> QED BY <1>2, <2>1
  <1> QED BY <1>1, <1>3, <1>4

\* With as many bins as values every position but the first is a quantile.
LEMMA EveryPositionIsQuantile ==
  ASSUME NEW n \in Nat \ {0}, NEW k \in Nat, k + 1 >= n, NEW p \in 1 .. (n - 1)
  PROVE  \E i \in 0 .. (k - 1) : ((i + 1) * n) \div (k + 1) = p
  <1> DEFINE T == {q \in Nat : q * n >= p * (k + 1)}
  <1>1. PICK x \in Nat : x = p * (k + 1) /\ x > 0
    <2>1. p \in Nat \ {0} /\ k + 1 \in Nat \ {0}
      OBVIOUS
    <2> QED BY <2>1, PositiveProduct
  <1>2. x * n >= x
    BY <1>1
  <1>3. T \in SUBSET Nat /\ T # {}
    BY <1>1, <1>2
  <1>4. PICK q \in T : \A r \in T : q <= r
    BY <1>3, SmallestNat
  <1>5. q \in Nat /\ q * n >= x
    BY <1>1, <1>4
  <1>6. q # 0
    BY <1>1, <1>5
  <1>7. (q - 1) * n < x
    <2>1. q - 1 \in Nat /\ q - 1 \notin T
      BY <1>4, <1>5, <1>6
    <2> QED BY <1>1, <2>1
  <1>8. q * n < x + n /\ q * n \in Nat
    BY <1>5, <1>7
  <1>9. (q * n) \div (k + 1) = p
    <2>1. p * (k + 1) <= q * n /\ q * n < p * (k + 1) + (k + 1)
      BY <1>1, <1>5, <1>8
    <2> QED BY <1>8, <2>1, DivisionIs
  <1>10. q <= k
    <2> SUFFICES ASSUME q >= k + 1 PROVE FALSE
      BY <1>5
    <2>1. (q - (k + 1)) * n >= 0
      BY <1>5
    <2>2. q * n >= (k + 1) * n
      BY <1>5, <2>1
    <2>3. (n - 1 - p) * (k + 1) >= 0
      OBVIOUS
    <2>4. x + (k + 1) <= (k + 1) * n
      BY <1>1, <2>3
    <2> QED BY <1>1, <1>5, <1>8, <2>2, <2>4
  <1>11. q - 1 \in 0 .. (k - 1) /\ (q - 1) + 1 = q
    BY <1>5, <1>6, <1>10
  <1> QED BY <1>9, <1>11

\* The borders at quantiles; all of them with enough.
LEMMA MedianGood ==
  ASSUME SortedValues, NEW k \in Nat
  PROVE  LET bs == GenerateMedianBorders(values, k)
         IN  /\ IsFiniteSet(bs) /\ Cardinality(bs) \in Nat /\ Cardinality(bs) <= k /\ AtGrowth(bs)
             /\ k + 1 >= Size(values) => AtEveryGrowth(bs)
  <1>0. PICK n \in Nat \ {0} : n = Size(values)
    BY DEF SortedValues
  <1> DEFINE bs == GenerateMedianBorders(values, k)
             at(i) == Min({((i + 1) * n) \div (k + 1), n - 1})
             quantile == [i \in 0 .. (k - 1) |-> values[at(i)]]
             I == {b \in DOMAIN quantile : quantile[b] # Front(values)}
             border == [i \in I |-> RegularBorder(Position(quantile[i], values), values)]
  <1>1. CASE Front(values) = Back(values)
    <2>1. bs = {}
      BY <1>0, <1>1 DEF GenerateMedianBorders
    <2>2. AtGrowth({})
      BY DEF AtGrowth
    <2>3. AtEveryGrowth({})
      BY <1>1, PositionOfGrowth DEF AtEveryGrowth
    <2> QED BY <2>1, <2>2, <2>3, FS_EmptySet
  <1>2. CASE Front(values) # Back(values)
    <2>1. bs = {border[i] : i \in I}
      BY <1>0, <1>2 DEF GenerateMedianBorders
    <2>2. I \in SUBSET (0 .. (k - 1))
      OBVIOUS
    <2>3. \A i \in 0 .. (k - 1) : \E a \in Nat : /\ a = ((i + 1) * n) \div (k + 1)
                                                /\ at(i) \in 0 .. (n - 1) /\ (a <= n - 1 => at(i) = a)
      <3> TAKE i \in 0 .. (k - 1)
      <3>1. (i + 1) * n \in Nat
        OBVIOUS
      <3>2. ((i + 1) * n) \div (k + 1) \in Nat
        BY <3>1
      <3>3. PICK a \in Nat : a = ((i + 1) * n) \div (k + 1)
        BY <3>2
      <3>4. {a, n - 1} \in SUBSET Nat /\ {a, n - 1} # {}
        OBVIOUS
      <3>5. Min({a, n - 1}) \in {a, n - 1} /\ \A y \in {a, n - 1} : Min({a, n - 1}) <= y
        BY <3>4, MinOfNats
      <3> QED BY <3>3, <3>5
    <2>4. \A i \in I : /\ i \in 0 .. (k - 1) /\ quantile[i] = values[at(i)] /\ values[at(i)] # Front(values)
                       /\ border[i] = RegularBorder(Position(values[at(i)], values), values)
      OBVIOUS
    <2>5. border \in [I -> bs]
      BY <2>1
    <2>50. \A i \in 0 .. (k - 1) : values[at(i)] # Front(values) => i \in I
      OBVIOUS
    <2> HIDE DEF at, quantile, I, border, bs
    <2>6. ASSUME NEW i \in I
          PROVE  \E p \in 1 .. (n - 1) : GrowsAt(p) /\ border[i] = RegularBorder(p, values)
      <3>1. PICK m \in 0 .. (n - 1) : m = at(i)
        BY <2>2, <2>3
      <3>2. /\ values[m] \in Int /\ values[0] \in Int /\ values[n - 1] \in Int
            /\ values[0] <= values[m] /\ values[m] <= values[n - 1]
        BY <1>0 DEF SortedValues
      <3>3. values[m] # values[0] /\ border[i] = RegularBorder(Position(values[m], values), values)
        BY <1>2, <2>4, <3>1, FrontBelowBack
      <3>4. values[0] < values[m] /\ values[m] <= values[Size(values) - 1]
        BY <1>0, <3>2, <3>3
      <3>5. LET p == Position(values[m], values)
            IN  p \in 1 .. (n - 1) /\ GrowsAt(p)
        BY <1>0, <3>2, <3>4, PositionGrows
      <3> QED BY <3>3, <3>5
    <2>7. IsFiniteSet(I) /\ Cardinality(I) \in Nat /\ Cardinality(I) <= k
      BY <2>2, PartOfInterval
    <2>8. IsFiniteSet(bs) /\ Cardinality(bs) <= Cardinality(I)
      BY <2>1, <2>5, <2>7, ImageBound
    <2>9. Cardinality(bs) \in Nat
      BY <2>8, FS_CardinalityType
    <2>10. AtGrowth(bs)
      BY <1>0, <2>1, <2>6 DEF AtGrowth
    <2>11. Cardinality(bs) <= k
      BY <2>7, <2>8, <2>9
    <2>12. ASSUME k + 1 >= Size(values), NEW p \in 1 .. (Size(values) - 1), GrowsAt(p)
           PROVE  RegularBorder(p, values) \in bs
      <3>1. PICK i \in 0 .. (k - 1) : ((i + 1) * n) \div (k + 1) = p
        BY <1>0, <2>12, EveryPositionIsQuantile
      <3>2. p <= n - 1
        BY <1>0
      <3>3. at(i) = p
        BY <2>3, <3>1, <3>2
      <3>4. Position(values[p], values) = p /\ values[p] # Front(values)
        BY <1>2, <2>12, PositionOfGrowth, FrontBelowBack
      <3>5. i \in I
        BY <2>50, <3>3, <3>4
      <3>6. border[i] = RegularBorder(p, values)
        BY <2>4, <3>3, <3>4, <3>5
      <3> QED BY <2>1, <3>5, <3>6
    <2>13. k + 1 >= Size(values) => AtEveryGrowth(bs)
      BY <2>12 DEF AtEveryGrowth
    <2> QED BY <2>8, <2>9, <2>10, <2>11, <2>13 DEF bs
  <1> HIDE DEF bs
  <1> QED BY <1>1, <1>2

\* The borders at quantiles and at equal distances: the latter may be rounded
\* to one outside of the values.
LEMMA UniformGood ==
  ASSUME SortedValues, NEW k \in Nat, k = bordersCount, mode = "medianPlusUniform"
  PROVE  LET bs == MedianPlusUniform(values, k)
         IN  /\ IsFiniteSet(bs) /\ Cardinality(bs) \in Nat /\ Cardinality(bs) <= k
             /\ \A b \in bs : Beyond(b) \/ \E p \in 1 .. (Size(values) - 1) : GrowsAt(p) /\ b = RegularBorder(p, values)
             /\ k - k \div 2 + 1 >= Size(values) => AtEveryGrowth(bs)
  <1>0. PICK n \in Nat \ {0} : n = Size(values)
    BY DEF SortedValues
  <1>00. PICK half \in Nat : half = k \div 2 /\ half <= k
    OBVIOUS
  <1> DEFINE bs == MedianPlusUniform(values, k)
             ms == GenerateMedianBorders(values, k - half)
             us == {RegularBorder(Position(UniformValue(i, values, half), values), values) : i \in 1 .. half}
             border == [i \in 1 .. half |-> RegularBorder(Position(UniformValue(i, values, half), values), values)]
  <1>1. CASE Front(values) = Back(values)
    <2>1. bs = {}
      BY <1>1 DEF MedianPlusUniform
    <2>2. AtEveryGrowth({})
      BY <1>1, PositionOfGrowth DEF AtEveryGrowth
    <2> QED BY <2>1, <2>2, FS_EmptySet
  <1>2. CASE Front(values) # Back(values)
    <2>1. bs = ms \cup us
      BY <1>00, <1>2 DEF MedianPlusUniform
    <2>2. us = {border[i] : i \in 1 .. half} /\ border \in [1 .. half -> us]
      OBVIOUS
    <2>3. \A i \in 1 .. half : border[i] = RegularBorder(Position(UniformValue(i, values, half), values), values)
      OBVIOUS
    <2>4. /\ IsFiniteSet(ms) /\ Cardinality(ms) \in Nat /\ Cardinality(ms) <= k - half /\ AtGrowth(ms)
          /\ k - half + 1 >= Size(values) => AtEveryGrowth(ms)
      BY <1>00, MedianGood
    <2>5. PICK a \in Int, b \in Int : /\ a < b /\ a = values[0] /\ b = values[Size(values) - 1]
                                      /\ a = Front(values) /\ b = Back(values)
      <3>1. values[0] \in Int /\ values[Size(values) - 1] \in Int
        BY DEF SortedValues
      <3> QED BY <1>2, <3>1, FrontBelowBack
    <2> HIDE DEF ms, us, border, bs
    <2>7. ASSUME NEW i \in 1 .. half
          PROVE  \/ Beyond(border[i])
                 \/ \E p \in 1 .. (n - 1) : GrowsAt(p) /\ border[i] = RegularBorder(p, values)
      <3>1. PICK u : u = UniformValue(i, values, half)
        OBVIOUS
      <3>2. u \in Int
        <4>1. PICK range \in Int : range = Rounded(Back(values) - Front(values))
          BY <2>5, RoundedFacts
        <4>2. PICK r \in Int : r = Rounded(i * range)
          BY RoundedFacts
        <4>3. PICK q \in Int : q = Nearest(Float, r, half + 1)
          <5>1. Float.numbers \subseteq Int /\ Float.numbers # {}
            BY FormatAssumption
          <5> QED BY <5>1, NearestFacts
        <4>4. Rounded(a + q) \in Int
          BY RoundedFacts
        <4>5. u = Rounded(a + q)
          BY <2>5, <3>1, <4>1, <4>2, <4>3 DEF UniformValue
        <4> QED BY <4>4, <4>5
      <3>3. CASE values[0] < u /\ u <= values[Size(values) - 1]
        <4>1. LET p == Position(u, values)
              IN  p \in 1 .. (n - 1) /\ GrowsAt(p)
          BY <1>0, <3>2, <3>3, PositionGrows
        <4> QED BY <2>3, <3>1, <4>1
      <3>4. CASE ~(values[0] < u /\ u <= values[Size(values) - 1])
        <4>1. border[i] \in {AlwaysTrue(values), AlwaysFalse(values)}
          BY <2>3, <3>1, <3>2, <3>4, PositionBeyond
        <4>2. UniformOff
          <5>1. ~(Front(values) < UniformValue(i, values, half) /\ UniformValue(i, values, half) <= Back(values))
            BY <2>5, <3>1, <3>4
          <5> QED BY <1>00, <5>1 DEF UniformOff
        <4> QED BY <4>1, <4>2 DEF Beyond
      <3> QED BY <3>3, <3>4
    <2>8. IsFiniteSet(1 .. half) /\ Cardinality(1 .. half) = half
      BY FS_Interval
    <2>9. IsFiniteSet(us) /\ Cardinality(us) <= half
      BY <2>2, <2>8, ImageBound
    <2>10. IsFiniteSet(bs) /\ Cardinality(bs) = Cardinality(ms) + Cardinality(us) - Cardinality(ms \cap us)
      BY <2>1, <2>4, <2>9, FS_Union
    <2>11. Cardinality(us) \in Nat /\ Cardinality(bs) \in Nat /\ Cardinality(ms \cap us) \in Nat
      <3>1. IsFiniteSet(ms \cap us)
        BY <2>4, FS_Subset
      <3> QED BY <2>9, <2>10, <3>1, FS_CardinalityType
    <2>12. Cardinality(bs) <= k
      BY <1>00, <2>4, <2>9, <2>10, <2>11
    <2>13. \A c \in bs : Beyond(c) \/ \E p \in 1 .. (Size(values) - 1) : GrowsAt(p) /\ c = RegularBorder(p, values)
      BY <1>0, <2>1, <2>2, <2>4, <2>7 DEF AtGrowth
    <2>14. k - k \div 2 + 1 >= Size(values) => AtEveryGrowth(bs)
      BY <1>00, <2>1, <2>4 DEF AtEveryGrowth
    <2> QED BY <2>10, <2>11, <2>12, <2>13, <2>14 DEF bs
  <1> HIDE DEF bs
  <1> QED BY <1>1, <1>2
-----------------------------------------------------------------------------
(***************************************************************************)
(* The distinct values, by their ranks.                                    *)
(***************************************************************************)

Distinct == {values[p] : p \in DOMAIN values}

\* Features lists the distinct values by their ranks.
LEMMA FeaturesByRank ==
  ASSUME SortedValues
  PROVE  /\ Distinct \in SUBSET Int /\ IsFiniteSet(Distinct) /\ Cardinality(Distinct) \in Nat \ {0}
         /\ DOMAIN Features(values) = 0 .. (Cardinality(Distinct) - 1)
         /\ Size(Features(values)) = Cardinality(Distinct)
         /\ \A r \in 0 .. (Cardinality(Distinct) - 1) :
              Features(values)[r] \in Distinct /\ Rank(Distinct, Features(values)[r]) = r
         /\ \A v \in Distinct :
              Rank(Distinct, v) \in 0 .. (Cardinality(Distinct) - 1) /\ Features(values)[Rank(Distinct, v)] = v
  <1>0. PICK n \in Nat \ {0} : n = Size(values)
    BY DEF SortedValues
  <1>1. DOMAIN values = 0 .. (n - 1) /\ values \in [0 .. (n - 1) -> Int]
    BY <1>0 DEF SortedValues
  <1>2. Distinct \in SUBSET Int /\ values[0] \in Distinct
    BY <1>1 DEF Distinct
  <1>3. IsFiniteSet(Distinct)
    <2>1. values \in [0 .. (n - 1) -> Distinct] /\ Distinct = {values[p] : p \in 0 .. (n - 1)}
      BY <1>1 DEF Distinct
    <2>2. IsFiniteSet(0 .. (n - 1))
      BY FS_Interval
    <2> QED BY <2>1, <2>2, ImageBound
  <1>4. PICK m \in Nat \ {0} : m = Cardinality(Distinct)
    BY <1>2, <1>3, FS_CardinalityType, FS_EmptySet
  <1>5. /\ \A x \in Distinct : Rank(Distinct, x) \in 0 .. (m - 1)
        /\ \A x, y \in Distinct : x < y => Rank(Distinct, x) < Rank(Distinct, y)
        /\ \A r \in 0 .. (m - 1) : \E x \in Distinct : Rank(Distinct, x) = r
    BY <1>2, <1>3, <1>4, Ranks
  <1>6. Features(values) = [r \in 0 .. (m - 1) |-> CHOOSE v \in Distinct : Rank(Distinct, v) = r]
    BY <1>4 DEF Features, Distinct, Rank, Below
  <1>7. DOMAIN Features(values) = 0 .. (m - 1) /\ Size(Features(values)) = m
    <2>1. DOMAIN Features(values) = 0 .. (m - 1)
      BY <1>6
    <2>2. Cardinality(0 .. (m - 1)) = m
      BY FS_Interval
    <2> QED BY <2>1, <2>2 DEF Size
  <1>8. ASSUME NEW r \in 0 .. (m - 1)
        PROVE  Features(values)[r] \in Distinct /\ Rank(Distinct, Features(values)[r]) = r
    <2>1. Features(values)[r] = CHOOSE v \in Distinct : Rank(Distinct, v) = r
      BY <1>6
    <2> QED BY <1>5, <2>1
  <1>9. ASSUME NEW v \in Distinct
        PROVE  Features(values)[Rank(Distinct, v)] = v
    <2>1. PICK w \in Distinct : w = Features(values)[Rank(Distinct, v)] /\ Rank(Distinct, w) = Rank(Distinct, v)
      BY <1>5, <1>8
    <2>2. v \in Int /\ w \in Int /\ Rank(Distinct, v) \in Int
      BY <1>2, <1>5
    <2>3. ~(v < w) /\ ~(w < v)
      BY <1>5, <2>1, <2>2
    <2> QED BY <2>1, <2>2, <2>3
  <1> QED BY <1>2, <1>3, <1>4, <1>5, <1>7, <1>8, <1>9

\* Where the values grow, the next rank begins.
LEMMA GrowthIsNextRank ==
  ASSUME SortedValues, NEW p \in 1 .. (Size(values) - 1), values[p - 1] < values[p]
  PROVE  /\ values[p] \in Distinct /\ values[p - 1] \in Distinct
         /\ Rank(Distinct, values[p]) = Rank(Distinct, values[p - 1]) + 1
  <1>0. PICK n \in Nat \ {0} : n = Size(values)
    BY DEF SortedValues
  <1>1. DOMAIN values = 0 .. (n - 1) /\ p \in 0 .. (n - 1) /\ p - 1 \in 0 .. (n - 1)
    BY <1>0 DEF SortedValues
  <1>2. values[p] \in Distinct /\ values[p - 1] \in Distinct
    BY <1>1 DEF Distinct
  <1>3. ASSUME NEW u \in Distinct
        PROVE  u < values[p] <=> u < values[p - 1] \/ u = values[p - 1]
    <2>1. PICK q \in 0 .. (n - 1) : u = values[q]
      BY <1>1 DEF Distinct
    <2>2. /\ values[q] \in Int /\ values[p] \in Int /\ values[p - 1] \in Int
          /\ q >= p => values[q] >= values[p]
          /\ q < p => values[q] <= values[p - 1]
      <3>1. /\ \A x \in 0 .. (n - 1) : values[x] \in Int
            /\ \A x, y \in 0 .. (n - 1) : x <= y => values[x] <= values[y]
        BY <1>0 DEF SortedValues
      <3>2. q >= p => values[q] >= values[p]
        BY <1>1, <3>1
      <3>3. q < p => q <= p - 1
        OBVIOUS
      <3>4. q < p => values[q] <= values[p - 1]
        BY <1>1, <3>1, <3>3
      <3> QED BY <1>1, <3>1, <3>2, <3>4
    <2> QED BY <2>1, <2>2
  <1>4. Below(Distinct, values[p]) = Below(Distinct, values[p - 1]) \cup {values[p - 1]}
    BY <1>2, <1>3 DEF Below
  <1>5. values[p - 1] \notin Below(Distinct, values[p - 1])
    <2>1. values[p - 1] \in Int
      BY <1>0, <1>1 DEF SortedValues
    <2> QED BY <2>1 DEF Below
  <1>6. IsFiniteSet(Below(Distinct, values[p - 1]))
    <2>1. Below(Distinct, values[p - 1]) \in SUBSET Distinct
      BY DEF Below
    <2> QED BY <2>1, FeaturesByRank, FS_Subset
  <1>7. Cardinality(Below(Distinct, values[p])) = Cardinality(Below(Distinct, values[p - 1])) + 1
    BY <1>4, <1>5, <1>6, FS_AddElement
  <1> QED BY <1>2, <1>7 DEF Rank

\* Consecutive distinct values meet at a position.
LEMMA FeaturesMeet ==
  ASSUME SortedValues, NEW t \in 0 .. (Size(Features(values)) - 2)
  PROVE  \E p \in 1 .. (Size(values) - 1) :
           /\ values[p - 1] < values[p]
           /\ values[p - 1] = Features(values)[t] /\ values[p] = Features(values)[t + 1]
  <1>0. PICK n \in Nat \ {0} : n = Size(values)
    BY DEF SortedValues
  <1>1. PICK m \in Nat \ {0} : m = Cardinality(Distinct)
    BY FeaturesByRank
  <1>2. t \in 0 .. (m - 1) /\ t + 1 \in 0 .. (m - 1)
    BY <1>1, FeaturesByRank
  <1>3. /\ DOMAIN values = 0 .. (n - 1) /\ Distinct \in SUBSET Int /\ IsFiniteSet(Distinct)
        /\ \A x \in 0 .. (n - 1) : values[x] \in Int /\ values[x] \in Distinct
        /\ \A x, y \in 0 .. (n - 1) : x <= y => values[x] <= values[y]
    <2>1. DOMAIN values = 0 .. (n - 1)
      BY <1>0 DEF SortedValues
    <2> QED BY <1>0, <2>1, FeaturesByRank DEF SortedValues, Distinct
  <1>4. PICK v \in Distinct : v = Features(values)[t + 1] /\ Rank(Distinct, v) = t + 1
    BY <1>1, <1>2, FeaturesByRank
  <1>5. PICK w \in Distinct : w = Features(values)[t] /\ Rank(Distinct, w) = t
    BY <1>1, <1>2, FeaturesByRank
  <1>6. w < v
    <2>1. v \in Int /\ w \in Int /\ t \in Int
      BY <1>3
    <2>2. v < w => Rank(Distinct, v) < Rank(Distinct, w)
      BY <1>3, Ranks
    <2>3. v # w
      BY <1>4, <1>5, <2>1
    <2>4. ~(v < w)
      BY <1>4, <1>5, <2>1, <2>2
    <2> QED BY <2>1, <2>3, <2>4
  <1>7. PICK i \in 0 .. (n - 1), j \in 0 .. (n - 1) : v = values[i] /\ w = values[j]
    BY <1>3 DEF Distinct
  <1>8. /\ v \in Int /\ w \in Int /\ values[0] \in Int /\ values[n - 1] \in Int
        /\ values[0] <= w /\ v <= values[n - 1]
    BY <1>3, <1>7
  <1>9. values[0] < v /\ v <= values[Size(values) - 1]
    BY <1>0, <1>6, <1>8
  <1>10. PICK p \in 1 .. (n - 1) : /\ values[p - 1] < values[p] /\ values[p] >= v
                                   /\ \A q \in 0 .. (p - 1) : values[q] < v
    BY <1>0, <1>8, <1>9, PositionGrows DEF GrowsAt
  <1>11. values[p] = v
    <2>1. p \in 0 .. (n - 1) /\ values[p] \in Int
      BY <1>3
    <2>2. i >= p
      <3> SUFFICES ASSUME i < p PROVE FALSE
        OBVIOUS
      <3>1. i \in 0 .. (p - 1)
        OBVIOUS
      <3> QED BY <1>7, <1>8, <1>10, <3>1
    <2>3. values[p] <= values[i]
      BY <1>3, <2>1, <2>2
    <2> QED BY <1>7, <1>8, <1>10, <2>1, <2>3
  <1>12. Rank(Distinct, values[p - 1]) = t
    <2>1. Rank(Distinct, values[p]) = Rank(Distinct, values[p - 1]) + 1 /\ values[p - 1] \in Distinct
      BY <1>0, <1>10, GrowthIsNextRank
    <2>2. Rank(Distinct, values[p - 1]) \in Int
      BY <1>1, <2>1, FeaturesByRank
    <2> QED BY <1>4, <1>11, <2>1, <2>2
  <1>13. values[p - 1] = Features(values)[t]
    <2>1. values[p - 1] \in Distinct
      BY <1>0, <1>10, GrowthIsNextRank
    <2> QED BY <1>12, <2>1, FeaturesByRank
  <1> QED BY <1>0, <1>4, <1>10, <1>11, <1>13

\* The borders behind the thresholds of the dynamic program; all of them with
\* as many bins as distinct values.
LEMMA OptimalGood ==
  ASSUME SortedValues, NEW k \in Nat,
         NEW ts \in kSubset(Min({k, Size(Features(values)) - 1}), 0 .. (Size(Features(values)) - 1 - 1))
  PROVE  LET bs == BordersBehind(ts, Features(values))
         IN  /\ IsFiniteSet(bs) /\ Cardinality(bs) <= k
             /\ \A b \in bs : \E p \in 1 .. (Size(values) - 1) :
                  GrowsAt(p) /\ b = Midpoint(values[p - 1], values[p])
             /\ k + 1 >= Cardinality(Distinct) =>
                  \A p \in 1 .. (Size(values) - 1) : GrowsAt(p) => Midpoint(values[p - 1], values[p]) \in bs
  <1>1. PICK m \in Nat \ {0} : m = Size(Features(values)) /\ m = Cardinality(Distinct)
    BY FeaturesByRank
  <1> DEFINE I == {u \in ts : u + 1 # m}
             border == [t \in I |-> Midpoint(Features(values)[t], Features(values)[t + 1])]
             bs == BordersBehind(ts, Features(values))
  <1>2. ts \in SUBSET (0 .. (m - 2)) /\ Cardinality(ts) = Min({k, m - 1})
    <2>1. m - 1 - 1 = m - 2
      OBVIOUS
    <2> QED BY <1>1, <2>1 DEF kSubset
  <1>3. Cardinality(ts) <= k /\ (k + 1 >= m => Cardinality(ts) = m - 1)
    <2>1. Min({k, m - 1}) \in {k, m - 1} /\ Min({k, m - 1}) <= k /\ Min({k, m - 1}) <= m - 1
      <3>1. k \in Int /\ m - 1 \in Int
        OBVIOUS
      <3> QED BY <3>1, OfTwo
    <2> QED BY <1>2, <2>1
  <1>30. IsFiniteSet(0 .. (m - 2)) /\ Cardinality(0 .. (m - 2)) = m - 1
    BY FS_Interval
  <1>4. IsFiniteSet(ts) /\ Cardinality(ts) \in Nat
    <2>2. IsFiniteSet(ts)
      BY <1>2, <1>30, FS_Subset
    <2> QED BY <2>2, FS_CardinalityType
  <1>5. IsFiniteSet(I) /\ Cardinality(I) \in Nat /\ Cardinality(I) <= k
    <2>1. IsFiniteSet(I) /\ Cardinality(I) <= Cardinality(ts)
      BY <1>4, FS_Subset
    <2>2. Cardinality(I) \in Nat
      BY <2>1, FS_CardinalityType
    <2> QED BY <1>3, <1>4, <2>1, <2>2
  <1>6. bs = {border[t] : t \in I} /\ border \in [I -> bs]
    BY <1>1 DEF BordersBehind
  <1>7. \A t \in I : t \in 0 .. (m - 2) /\ border[t] = Midpoint(Features(values)[t], Features(values)[t + 1])
    BY <1>2
  <1>70. \A t \in ts : t + 1 # m => t \in I
    OBVIOUS
  <1> HIDE DEF I, border, bs
  <1>8. ASSUME NEW t \in I
        PROVE  \E p \in 1 .. (Size(values) - 1) : GrowsAt(p) /\ border[t] = Midpoint(values[p - 1], values[p])
    <2>1. PICK p \in 1 .. (Size(values) - 1) :
            /\ values[p - 1] < values[p]
            /\ values[p - 1] = Features(values)[t] /\ values[p] = Features(values)[t + 1]
      BY <1>1, <1>7, FeaturesMeet
    <2> QED BY <1>7, <2>1 DEF GrowsAt
  <1>9. IsFiniteSet(bs) /\ Cardinality(bs) <= Cardinality(I)
    BY <1>5, <1>6, ImageBound
  <1>10. Cardinality(bs) <= k
    <2>1. Cardinality(bs) \in Nat
      BY <1>9, FS_CardinalityType
    <2> QED BY <1>5, <1>9, <2>1
  <1>11. \A b \in bs : \E p \in 1 .. (Size(values) - 1) : GrowsAt(p) /\ b = Midpoint(values[p - 1], values[p])
    BY <1>6, <1>8
  <1>12. ASSUME k + 1 >= Cardinality(Distinct), NEW p \in 1 .. (Size(values) - 1), GrowsAt(p)
         PROVE  Midpoint(values[p - 1], values[p]) \in bs
    <2>1. ts = 0 .. (m - 2)
      <3>1. Cardinality(ts) = Cardinality(0 .. (m - 2))
        BY <1>1, <1>3, <1>12, <1>30
      <3> QED BY <1>2, <1>30, <3>1, FS_Subset
    <2>2. /\ values[p] \in Distinct /\ values[p - 1] \in Distinct
          /\ Rank(Distinct, values[p]) = Rank(Distinct, values[p - 1]) + 1
      BY <1>12, GrowthIsNextRank DEF GrowsAt
    <2>3. PICK t : t = Rank(Distinct, values[p - 1])
      OBVIOUS
    <2>4. /\ t \in 0 .. (m - 1) /\ t + 1 \in 0 .. (m - 1)
          /\ Features(values)[t] = values[p - 1] /\ Features(values)[t + 1] = values[p]
      BY <1>1, <2>2, <2>3, FeaturesByRank
    <2>5. t \in ts /\ t + 1 # m
      BY <2>1, <2>4
    <2> QED BY <1>6, <1>7, <1>70, <2>4, <2>5
  <1> QED BY <1>9, <1>10, <1>11, <1>12 DEF bs

\* A bin that can be split and scores no more than one that cannot is a pair.
LEMMA OnlyPairScoresOne ==
  ASSUME SortedValues, NEW bin, BinInv(bin), CanSplit(bin), bin.score <= 1
  PROVE  bin.end - bin.start = 2
  <1>1. PICK s \in Nat, e \in Nat : s = bin.start /\ e = bin.end /\ s < e /\ e <= Size(values) /\ bin = FeatureBin(s, e)
    BY DEF BinInv
  <1>2. bin.split \in Cuts(s, e) /\ bin.score = (bin.split - s) * (e - bin.split)
    BY <1>1, FeatureBinFacts
  <1>3. PICK x \in (s + 1) .. (e - 1) : x = bin.split
    BY <1>2 DEF Cuts
  <1>4. PICK a \in Nat \ {0}, b \in Nat \ {0} : a = x - s /\ b = e - x
    BY <1>1
  <1>5. a * b <= 1
    BY <1>2, <1>3, <1>4
  <1>6. a < 2 /\ b < 2
    <2>1. a * b >= a /\ a * b >= b
      OBVIOUS
    <2> QED BY <1>5, <2>1
  <1>7. e - s = 2
    BY <1>4, <1>6
  <1> QED BY <1>1, <1>7

\* The ends of the bins have different values in front of them.
LEMMA BinEndsDiffer ==
  ASSUME SortedValues, NEW a, NEW b, BinInv(a), BinInv(b), a.end <= b.start
  PROVE  values[a.end - 1] < values[b.end - 1]
  <1>1. PICK n \in Nat \ {0} : n = Size(values)
    BY DEF SortedValues
  <1>2. /\ a.end \in 1 .. (n - 1) /\ a.end - 1 \in 0 .. (n - 1) /\ a.end \in 0 .. (n - 1)
        /\ b.end - 1 \in 0 .. (n - 1) /\ a.end <= b.end - 1
    BY <1>1 DEF BinInv
  <1>3. values[a.end - 1] < values[a.end]
    BY <1>1, <1>2 DEF BinInv, IsLast
  <1>4. /\ values[a.end] <= values[b.end - 1]
        /\ values[a.end - 1] \in Int /\ values[a.end] \in Int /\ values[b.end - 1] \in Int
    BY <1>1, <1>2 DEF SortedValues
  <1> QED BY <1>3, <1>4

\* Where the loop stopped with room for more borders, every value being held
\* twice, a bin ends wherever the values grow: what is left is a pair, whose
\* second value would be held once.
LEMMA EndsIfStoppedEarly ==
  ASSUME SortedValues, SplitInv, splits # {},
         \E top \in splits : IsTop(top) /\ ~CanSplit(top),
         \A p \in DOMAIN values : \E q \in (DOMAIN values) \ {p} : values[q] = values[p],
         NEW p \in 1 .. (Size(values) - 1), GrowsAt(p)
  PROVE  \E bin \in splits : bin.end = p
  <1>1. PICK n \in Nat \ {0} : n = Size(values)
    BY DEF SortedValues
  <1>2. /\ DOMAIN values = 0 .. (n - 1) /\ p \in 0 .. (n - 1) /\ p - 1 \in 0 .. (n - 1)
        /\ \A q \in 0 .. (n - 1) : values[q] \in Int
        /\ \A q, r \in 0 .. (n - 1) : q <= r => values[q] <= values[r]
    <2>1. p \in 0 .. (n - 1) /\ p - 1 \in 0 .. (n - 1)
      BY <1>1
    <2>2. DOMAIN values = 0 .. (n - 1) /\ values \in [0 .. (n - 1) -> Int]
      BY <1>1 DEF SortedValues
    <2>3. \A q, r \in 0 .. (n - 1) : q <= r => values[q] <= values[r]
      BY <1>1 DEF SortedValues
    <2> QED BY <2>1, <2>2, <2>3
  <1>3. PICK bin \in splits : Holds(bin, p - 1)
    BY <1>1, <1>2 DEF SplitInv
  <1>4. BinInv(bin)
    BY DEF SplitInv
  <1>5. PICK s \in Nat, e \in Nat : s = bin.start /\ e = bin.end /\ s < e /\ e <= n /\ bin = FeatureBin(s, e)
    BY <1>1, <1>4 DEF BinInv
  <1>6. s <= p - 1 /\ p - 1 < e
    BY <1>3, <1>5 DEF Holds
  <1> SUFFICES ASSUME e # p PROVE FALSE
    BY <1>5
  <1>7. p \in Cuts(s, e)
    <2>1. p \in (s + 1) .. (e - 1)
      BY <1>6
    <2>2. values[p - 1] # values[p]
      BY <1>2 DEF GrowsAt
    <2> QED BY <2>1, <2>2 DEF Cuts
  <1>8. CanSplit(bin)
    BY <1>1, <1>5, <1>7, FeatureBinFacts
  <1>9. bin.score <= 1
    <2>1. PICK top \in splits : IsTop(top) /\ ~CanSplit(top)
      OBVIOUS
    <2>2. BinInv(top)
      BY DEF SplitInv
    <2>3. top.score = 1
      BY <2>1, <2>2, FeatureBinFacts DEF BinInv
    <2> QED BY <2>1, <2>3 DEF IsTop
  <1>10. e = s + 2
    BY <1>4, <1>5, <1>8, <1>9, OnlyPairScoresOne
  <1>11. e = p + 1
    BY <1>6, <1>10
  <1>12. PICK q \in 0 .. (n - 1) : q # p /\ values[q] = values[p]
    BY <1>2
  <1>13. q > p
    <2> SUFFICES ASSUME q <= p - 1 PROVE FALSE
      BY <1>12
    <2>1. values[q] <= values[p - 1]
      BY <1>2
    <2> QED BY <1>2, <1>12, <2>1 DEF GrowsAt
  <1>14. p + 1 \in 0 .. (n - 1) /\ p + 1 <= q
    BY <1>13
  <1>15. values[p + 1] <= values[p]
    BY <1>2, <1>12, <1>14
  <1>16. values[e - 1] < values[e]
    BY <1>1, <1>4, <1>5, <1>11, <1>14 DEF BinInv, IsLast
  <1>17. e - 1 = p
    BY <1>11
  <1> QED BY <1>2, <1>11, <1>14, <1>15, <1>16, <1>17

\* With as many bins as values a bin ends wherever they grow.
LEMMA EndsIfEnough ==
  ASSUME SortedValues, SplitInv, Cardinality(splits) >= Cardinality(Distinct),
         NEW p \in 1 .. (Size(values) - 1), GrowsAt(p)
  PROVE  \E bin \in splits : bin.end = p
  <1>1. PICK n \in Nat \ {0} : n = Size(values)
    BY DEF SortedValues
  <1>2. /\ DOMAIN values = 0 .. (n - 1) /\ p \in 0 .. (n - 1) /\ p - 1 \in 0 .. (n - 1)
        /\ \A q \in 0 .. (n - 1) : values[q] \in Int
        /\ \A q, r \in 0 .. (n - 1) : q <= r => values[q] <= values[r]
        /\ values[p - 1] < values[p]
    <2>1. p \in 0 .. (n - 1) /\ p - 1 \in 0 .. (n - 1)
      BY <1>1
    <2>2. DOMAIN values = 0 .. (n - 1) /\ values \in [0 .. (n - 1) -> Int]
      BY <1>1 DEF SortedValues
    <2>3. \A q, r \in 0 .. (n - 1) : q <= r => values[q] <= values[r]
      BY <1>1 DEF SortedValues
    <2> QED BY <2>1, <2>2, <2>3 DEF GrowsAt
  <1> DEFINE g == [bin \in splits |-> values[bin.end - 1]]
  <1>3. \A bin \in splits : BinInv(bin)
    BY DEF SplitInv
  <1>4. \A bin \in splits : g[bin] = values[bin.end - 1] /\ bin.end \in Nat /\ bin.end - 1 \in 0 .. (n - 1)
    BY <1>1, <1>3 DEF BinInv
  <1>5. g \in [splits -> Distinct]
    BY <1>2, <1>4 DEF Distinct
  <1> HIDE DEF g
  <1>6. ASSUME NEW a \in splits, NEW b \in splits, g[a] = g[b]
        PROVE  a = b
    <2> SUFFICES ASSUME a # b PROVE FALSE
      OBVIOUS
    <2>1. g[a] \in Int /\ g[b] \in Int
      BY <1>2, <1>4
    <2>2. a.end <= b.start \/ b.end <= a.start
      BY DEF SplitInv
    <2>3. g[a] < g[b] \/ g[b] < g[a]
      BY <1>3, <1>4, <2>2, BinEndsDiffer
    <2> QED BY <1>6, <2>1, <2>3
  <1>7. g \in Injection(splits, Distinct)
    BY <1>5, <1>6 DEF Injection, IsInjective
  <1>8. IsFiniteSet(Distinct) /\ Cardinality(Distinct) \in Nat /\ values[p - 1] \in Distinct
    BY <1>2, FeaturesByRank DEF Distinct
  <1>9. Cardinality(splits) <= Cardinality(Distinct) /\ IsFiniteSet(splits)
    BY <1>7, <1>8, FS_Injection
  <1>10. Cardinality(splits) = Cardinality(Distinct)
    <2>1. Cardinality(splits) \in Nat
      BY <1>9, FS_CardinalityType
    <2> QED BY <1>8, <1>9, <2>1
  <1>11. g \in Surjection(splits, Distinct)
    BY <1>7, <1>8, <1>10, FS_Injection
  <1>12. PICK bin \in splits : g[bin] = values[p - 1]
    BY <1>8, <1>11 DEF Surjection
  <1>13. PICK e \in 1 .. n : e = bin.end
    <2>1. bin.end \in 1 .. n
      BY <1>1, <1>4
    <2> QED BY <2>1
  <1>14. values[e - 1] = values[p - 1] /\ e - 1 \in 0 .. (n - 1)
    BY <1>4, <1>12, <1>13
  <1>15. ~(e > p)
    <2> SUFFICES ASSUME p <= e - 1 PROVE FALSE
      BY <1>2
    <2>1. values[p] <= values[e - 1]
      BY <1>2, <1>14
    <2> QED BY <1>2, <1>14, <2>1
  <1>16. ~(e < p)
    <2> SUFFICES ASSUME e <= p - 1 PROVE FALSE
      BY <1>2
    <2>1. e # n /\ e \in 0 .. (n - 1)
      BY <1>2
    <2>2. values[e - 1] < values[e]
      BY <1>1, <1>3, <1>13, <2>1 DEF BinInv, IsLast
    <2>3. values[e] <= values[p - 1]
      BY <1>2, <2>1
    <2> QED BY <1>2, <1>14, <2>1, <2>2, <2>3
  <1> QED BY <1>2, <1>13, <1>15, <1>16

\* The borders at the ends of the bins of medianInBin.
LEMMA BinsGood ==
  ASSUME VectorInv, SplitInv, splits # {}, mode = "medianInBin",
         Cardinality(splits) <= bordersCount => \E top \in splits : IsTop(top) /\ ~CanSplit(top)
  PROVE  LET bs == {Border(bin) : bin \in {b \in splits : ~IsLast(b)}}
         IN  /\ GoodBorders(bs)
             /\ EnoughBorders => CompleteBorders(bs)
  <1> DEFINE I == {b \in splits : ~IsLast(b)}
             border == [bin \in I |-> Border(bin)]
             bs == {Border(bin) : bin \in I}
  <1>1. SortedValues /\ bordersCount \in Nat
    BY VectorIsSorted
  <1>0. PICK n \in Nat \ {0} : n = Size(values)
    BY <1>1 DEF SortedValues
  <1>2. PICK last \in splits : IsLast(last)
    <2>1. PICK last \in splits : Holds(last, n - 1)
      BY <1>0 DEF SplitInv
    <2>2. last.end \in Nat /\ last.end <= n /\ n - 1 < last.end
      BY <1>0, <2>1 DEF SplitInv, BinInv, Holds
    <2>3. last.end = n
      BY <2>2
    <2> QED BY <1>0, <2>3 DEF IsLast
  <1>3. IsFiniteSet(splits) /\ Cardinality(splits) \in Nat /\ Cardinality(splits) <= bordersCount + 1
    BY FS_CardinalityType DEF SplitInv
  <1>4. IsFiniteSet(I) /\ Cardinality(I) \in Nat /\ Cardinality(I) <= bordersCount
    <2>1. I \in SUBSET (splits \ {last})
      BY <1>2
    <2>2. IsFiniteSet(splits \ {last}) /\ Cardinality(splits \ {last}) = Cardinality(splits) - 1
      BY <1>2, <1>3, FS_RemoveElement
    <2>3. IsFiniteSet(I) /\ Cardinality(I) <= Cardinality(splits) - 1
      BY <2>1, <2>2, FS_Subset
    <2>4. Cardinality(I) \in Nat
      BY <2>3, FS_CardinalityType
    <2> QED BY <1>1, <1>3, <2>3, <2>4
  <1>5. bs = {border[bin] : bin \in I} /\ border \in [I -> bs] /\ \A bin \in I : border[bin] = Border(bin)
    OBVIOUS
  <1>6. \A bin : bin \in I <=> bin \in splits /\ ~IsLast(bin)
    OBVIOUS
  <1> HIDE DEF I, border, bs
  <1>7. ASSUME NEW bin \in I
        PROVE  bin.end \in 1 .. (n - 1) /\ BorderAt(Border(bin), bin.end)
    <2>1. /\ bin.start \in Nat /\ bin.end \in Nat /\ bin.start < bin.end /\ bin.end <= n
          /\ bin.end # n /\ values[bin.end - 1] < values[bin.end]
      BY <1>0, <1>6 DEF SplitInv, BinInv, IsLast
    <2>2. bin.end \in 1 .. (n - 1)
      BY <2>1
    <2>3. Border(bin) = Mean(values[bin.end - 1], values[bin.end])
      BY <1>6 DEF Border, Mean
    <2> QED BY <1>0, <2>1, <2>2, <2>3 DEF BorderAt, GrowsAt
  <1>8. IsFiniteSet(bs) /\ Cardinality(bs) <= Cardinality(I)
    BY <1>4, <1>5, ImageBound
  <1>9. Cardinality(bs) <= bordersCount
    <2>1. Cardinality(bs) \in Nat
      BY <1>8, FS_CardinalityType
    <2> QED BY <1>1, <1>4, <1>8, <2>1
  <1>10. GoodBorders(bs)
    BY <1>0, <1>5, <1>7, <1>8, <1>9 DEF GoodBorders
  <1>11. ASSUME EnoughBorders, NEW p \in 1 .. (Size(values) - 1), GrowsAt(p)
         PROVE  \E b \in bs : BorderAt(b, p)
    <2>1. /\ bordersCount + 1 >= Cardinality(Distinct)
          /\ \A r \in DOMAIN values : \E q \in (DOMAIN values) \ {r} : values[q] = values[r]
      BY <1>11 DEF EnoughBorders, Distinct
    <2>2. PICK bin \in splits : bin.end = p
      <3>1. CASE Cardinality(splits) <= bordersCount
        BY <1>1, <1>11, <2>1, <3>1, EndsIfStoppedEarly
      <3>2. CASE ~(Cardinality(splits) <= bordersCount)
        <4>1. Cardinality(splits) = bordersCount + 1
          BY <1>1, <1>3, <3>2
        <4> QED BY <1>1, <1>11, <2>1, <4>1, EndsIfEnough
      <3> QED BY <3>1, <3>2
    <2>3. bin \in I
      BY <1>0, <1>6, <2>2 DEF IsLast
    <2> QED BY <1>5, <1>7, <2>2, <2>3
  <1>12. EnoughBorders => CompleteBorders(bs)
    BY <1>11 DEF CompleteBorders
  <1> QED BY <1>10, <1>12 DEF bs, I
-----------------------------------------------------------------------------
(***************************************************************************)
(* Numbers as sets of bits.                                                *)
(***************************************************************************)

\* The numbers that the highest bits of a set stand for.
HighBits(bits, g, n) ==
  /\ g[0] = 0
  /\ \A k \in 1 .. n : g[k] = 2 * g[k - 1] + (IF WordSize - k \in bits THEN 1 ELSE 0)

\* The recursion of Number has a solution up to every bit.
LEMMA HighBitsExist ==
  ASSUME NEW bits, NEW n \in Nat
  PROVE  \E g \in [0 .. n -> Nat] : HighBits(bits, g, n)
  <1> DEFINE Bit(k) == IF WordSize - k \in bits THEN 1 ELSE 0
             Solves(g, m) == g[0] = 0 /\ \A k \in 1 .. m : g[k] = 2 * g[k - 1] + Bit(k)
             Has(m) == \E g \in [0 .. m -> Nat] : Solves(g, m)
             T == {m \in Nat : ~Has(m)}
  <1>1. \A k : Bit(k) \in Nat
    OBVIOUS
  <1>2. Has(0)
    <2> DEFINE z == [k \in 0 .. 0 |-> 0]
    <2>1. z \in [0 .. 0 -> Nat] /\ z[0] = 0 /\ 1 .. 0 = {}
      OBVIOUS
    <2> QED BY <2>1
  <1> HIDE DEF Bit
  <1>3. ASSUME NEW m \in Nat, m # 0, Has(m - 1)
        PROVE  Has(m)
    <2>1. PICK g \in [0 .. (m - 1) -> Nat] : Solves(g, m - 1)
      BY <1>3
    <2> DEFINE h == [k \in 0 .. m |-> IF k = m THEN 2 * g[m - 1] + Bit(m) ELSE g[k]]
    <2>2. m - 1 \in 0 .. (m - 1) /\ 0 \in 0 .. (m - 1) /\ 0 # m
      BY <1>3
    <2>3. h \in [0 .. m -> Nat]
      <3> SUFFICES ASSUME NEW k \in 0 .. m
                   PROVE  (IF k = m THEN 2 * g[m - 1] + Bit(m) ELSE g[k]) \in Nat
        OBVIOUS
      <3>1. g[m - 1] \in Nat
        BY <2>2
      <3>2. k # m => k \in 0 .. (m - 1)
        OBVIOUS
      <3> QED BY <1>1, <3>1, <3>2
    <2>4. h[0] = 0
      BY <2>1, <2>2
    <2>5. ASSUME NEW k \in 1 .. m
          PROVE  h[k] = 2 * h[k - 1] + Bit(k)
      <3>1. h[k - 1] = g[k - 1]
        <4>1. k - 1 \in 0 .. m /\ k - 1 # m
          OBVIOUS
        <4> QED BY <4>1
      <3>2. CASE k = m
        BY <3>1, <3>2
      <3>3. CASE k # m
        <4>1. k \in 1 .. (m - 1) /\ h[k] = g[k]
          BY <3>3
        <4>2. g[k] = 2 * g[k - 1] + Bit(k)
          BY <2>1, <4>1
        <4> HIDE DEF h
        <4> QED BY <3>1, <4>1, <4>2
      <3> QED BY <3>2, <3>3
    <2> HIDE DEF h
    <2>6. Solves(h, m)
      BY <2>4, <2>5
    <2> QED BY <2>3, <2>6
  <1> HIDE DEF Has
  <1>4. T = {}
    <2> SUFFICES ASSUME T # {} PROVE FALSE
      OBVIOUS
    <2>1. PICK m \in T : \A y \in T : m <= y
      BY SmallestNat
    <2>2. m \in Nat /\ m # 0 /\ m - 1 \in Nat /\ ~(m <= m - 1)
      BY <1>2, <2>1
    <2>3. Has(m - 1)
      BY <2>1, <2>2
    <2> QED BY <1>3, <2>1, <2>2, <2>3
  <1>5. Has(n)
    BY <1>4
  <1> QED BY <1>5 DEF Has, Bit, HighBits

\* Number is what the recursion says.
LEMMA NumberUnfolds ==
  ASSUME NEW bits
  PROVE  \E g \in [0 .. WordSize -> Nat] : HighBits(bits, g, WordSize) /\ Number(bits) = g[WordSize]
  <1> DEFINE Bit(k) == IF WordSize - k \in bits THEN 1 ELSE 0
             Is(f) == f = [k \in 0 .. WordSize |-> IF k = 0 THEN 0 ELSE 2 * f[k - 1] + Bit(k)]
             high == CHOOSE f : Is(f)
  <1>0. WordSize \in Nat
    BY WidthAssumption
  <1>1. Number(bits) = high[WordSize]
    BY DEF Number
  <1>2. PICK g \in [0 .. WordSize -> Nat] : HighBits(bits, g, WordSize)
    BY <1>0, HighBitsExist
  <1>9. g[0] = 0 /\ \A k \in 1 .. WordSize : g[k] = 2 * g[k - 1] + Bit(k)
    BY <1>2 DEF HighBits
  <1> HIDE DEF Bit
  <1>3. Is(g)
    <2>1. ASSUME NEW k \in 0 .. WordSize
          PROVE  g[k] = IF k = 0 THEN 0 ELSE 2 * g[k - 1] + Bit(k)
      <3>1. k # 0 => k \in 1 .. WordSize
        OBVIOUS
      <3> QED BY <1>9, <3>1
    <2> QED BY <2>1
  <1>4. Is(high)
    <2> HIDE DEF Is
    <2> QED BY <1>3
  <1> HIDE DEF high
  <1>5. high[0] = 0 /\ \A k \in 1 .. WordSize : high[k] = 2 * high[k - 1] + Bit(k)
    <2>1. 0 \in 0 .. WordSize /\ \A k \in 1 .. WordSize : k \in 0 .. WordSize /\ k # 0
      BY <1>0
    <2> QED BY <1>4, <2>1
  <1>6. \A k \in 0 .. WordSize : high[k] = g[k]
    <2> DEFINE T == {k \in 0 .. WordSize : high[k] # g[k]}
    <2> SUFFICES ASSUME T # {} PROVE FALSE
      OBVIOUS
    <2>1. T \in SUBSET Nat
      BY <1>0
    <2>2. PICK k \in T : \A y \in T : k <= y
      BY <2>1, SmallestNat
    <2>3. k \in 1 .. WordSize /\ k - 1 \in 0 .. WordSize /\ ~(k <= k - 1)
      BY <1>0, <1>5, <1>9, <2>2
    <2>4. high[k - 1] = g[k - 1]
      BY <2>2, <2>3
    <2>5. high[k] = g[k]
      BY <1>5, <1>9, <2>3, <2>4
    <2> QED BY <2>2, <2>5
  <1>7. Number(bits) = g[WordSize]
    BY <1>0, <1>1, <1>6
  <1>8. HighBits(bits, g, WordSize)
    BY <1>2
  <1> QED BY <1>7, <1>8

\* A larger set of bits stands for a larger number.
LEMMA NumberGrows ==
  ASSUME NEW S, NEW T \in SUBSET (0 .. (WordSize - 1)), S \subseteq T
  PROVE  Number(S) \in Nat /\ Number(T) \in Nat /\ (S # T => Number(S) < Number(T))
  <1>0. WordSize \in Nat
    BY WidthAssumption
  <1>1. PICK f \in [0 .. WordSize -> Nat] : HighBits(S, f, WordSize) /\ Number(S) = f[WordSize]
    BY NumberUnfolds
  <1>2. PICK g \in [0 .. WordSize -> Nat] : HighBits(T, g, WordSize) /\ Number(T) = g[WordSize]
    BY NumberUnfolds
  <1>3. WordSize \in 0 .. WordSize
    BY <1>0
  <1> DEFINE Differ(k) == \E b \in T \ S : b >= WordSize - k
             Good(k) == f[k] <= g[k] /\ (Differ(k) => f[k] < g[k])
             Bad == {k \in 0 .. WordSize : ~Good(k)}
  <1>4. Good(0)
    <2>1. \A b \in T : b < WordSize
      BY <1>0
    <2>2. ~Differ(0)
      BY <1>0, <2>1
    <2> QED BY <1>1, <1>2, <2>2 DEF HighBits
  <1>5. ASSUME NEW k \in 1 .. WordSize, Good(k - 1)
        PROVE  Good(k)
    <2>1. PICK a \in Nat : a = f[k - 1]
      BY <1>0
    <2>2. PICK c \in Nat : c = g[k - 1]
      BY <1>0
    <2>3. PICK s \in {0, 1} : s = IF WordSize - k \in S THEN 1 ELSE 0
      OBVIOUS
    <2>4. PICK t \in {0, 1} : t = IF WordSize - k \in T THEN 1 ELSE 0
      OBVIOUS
    <2>5. f[k] = 2 * a + s /\ g[k] = 2 * c + t
      BY <1>1, <1>2, <2>1, <2>2, <2>3, <2>4 DEF HighBits
    <2>6. a <= c /\ s <= t
      <3>1. a <= c
        BY <1>5, <2>1, <2>2
      <3>2. PICK m : m = WordSize - k
        OBVIOUS
      <3>3. m \in S => m \in T
        OBVIOUS
      <3>4. s = 1 => t = 1
        BY <2>3, <2>4, <3>2, <3>3, Zenon
      <3>5. s <= t
        BY ONLY <3>4, s \in {0, 1}, t \in {0, 1}
      <3> QED BY <3>1, <3>5
    <2>7. ASSUME Differ(k)
          PROVE  a < c \/ s < t
      <3>1. PICK b \in T \ S : b >= WordSize - k
        BY <2>7
      <3>2. b \in Int
        BY <1>0
      <3>3. CASE b = WordSize - k
        BY <2>3, <2>4, <3>1, <3>3
      <3>4. CASE b # WordSize - k
        <4>1. b >= WordSize - (k - 1)
          BY <1>0, <3>1, <3>2, <3>4
        <4>2. Differ(k - 1)
          BY <3>1, <4>1
        <4> QED BY <1>5, <2>1, <2>2, <4>2
      <3> QED BY <3>3, <3>4
    <2> HIDE DEF Differ
    <2> QED BY <2>5, <2>6, <2>7
  <1> HIDE DEF Good
  <1>6. Bad = {}
    <2> SUFFICES ASSUME Bad # {} PROVE FALSE
      OBVIOUS
    <2>1. Bad \in SUBSET Nat
      BY <1>0
    <2>2. PICK k \in Bad : \A y \in Bad : k <= y
      BY <2>1, SmallestNat
    <2>3. k \in 1 .. WordSize /\ k - 1 \in 0 .. WordSize /\ ~(k <= k - 1)
      BY <1>0, <1>4, <2>2
    <2>4. Good(k - 1)
      BY <2>2, <2>3
    <2> QED BY <1>5, <2>2, <2>3, <2>4
  <1>7. Good(WordSize)
    BY <1>3, <1>6
  <1>8. S # T => Differ(WordSize)
    <2> SUFFICES ASSUME S # T PROVE Differ(WordSize)
      OBVIOUS
    <2>1. PICK b \in T : b \notin S
      OBVIOUS
    <2>2. b >= WordSize - WordSize
      BY <1>0
    <2> QED BY <2>1, <2>2
  <1> QED BY <1>1, <1>2, <1>3, <1>7, <1>8 DEF Good

\* The smaller of two numbers that follow each other, and are nested as sets of
\* bits, is even.
LEMMA NumberIsEven ==
  ASSUME NEW S, NEW T, S \subseteq T, Number(T) = Number(S) + 1
  PROVE  Number(S) \in Nat /\ Number(S) % 2 = 0
  <1>0. WordSize \in 1 .. WordSize /\ WordSize \in Nat
    BY WidthAssumption
  <1>1. PICK f \in [0 .. WordSize -> Nat] : HighBits(S, f, WordSize) /\ Number(S) = f[WordSize]
    BY NumberUnfolds
  <1>2. PICK g \in [0 .. WordSize -> Nat] : HighBits(T, g, WordSize) /\ Number(T) = g[WordSize]
    BY NumberUnfolds
  <1>3. PICK a \in Nat : a = f[WordSize - 1]
    BY <1>0
  <1>4. PICK c \in Nat : c = g[WordSize - 1]
    BY <1>0
  <1>5. PICK m : m = WordSize - WordSize
    OBVIOUS
  <1>6. PICK s \in {0, 1} : s = IF m \in S THEN 1 ELSE 0
    OBVIOUS
  <1>7. PICK t \in {0, 1} : t = IF m \in T THEN 1 ELSE 0
    OBVIOUS
  <1>8. s = 1 => t = 1
    BY <1>6, <1>7, Zenon
  <1>9. Number(S) = 2 * a + s /\ Number(T) = 2 * c + t
    BY <1>0, <1>1, <1>2, <1>3, <1>4, <1>5, <1>6, <1>7 DEF HighBits
  <1>10. s = 0
    BY <1>8, <1>9
  <1> QED BY <1>9, <1>10

\* A number stays below that of all bits, and the double it is read as within
\* the limit.
LEMMA NumberAsDouble ==
  ASSUME NEW bits \in SUBSET (0 .. (WordSize - 1))
  PROVE  /\ Number(bits) \in Nat
         /\ LET d == Nearest(Double, Number(bits) * One, 1)
            IN  d \in Int /\ -Limit <= d /\ d <= Limit
  <1>1. PICK all \in SUBSET (0 .. (WordSize - 1)) : all = 0 .. (WordSize - 1)
    OBVIOUS
  <1>2. PICK x \in Nat, y \in Nat : x = Number(bits) /\ y = Number(all) /\ x <= y
    <2>1. bits \subseteq all
      BY <1>1
    <2>2. Number(bits) \in Nat /\ Number(all) \in Nat /\ (bits # all => Number(bits) < Number(all))
      BY <2>1, NumberGrows
    <2> QED BY <2>2
  <1>3. y * One <= Limit /\ One \in Nat \ {0} /\ Limit \in Nat
    BY <1>1, <1>2, WidthAssumption, FormatAssumption
  <1>4. PICK z \in Int : z = x * One /\ 0 <= z /\ z <= Limit
    <2>1. (y - x) * One >= 0
      BY <1>2, <1>3
    <2> QED BY <1>2, <1>3, <2>1
  <1>5. /\ Double.numbers \subseteq Int /\ Limit \in Double.numbers /\ -Limit \in Double.numbers
        /\ Double.numbers # {}
    BY FormatAssumption
  <1>6. PICK d : d = Nearest(Double, z, 1)
    OBVIOUS
  <1>7. /\ d \in Double.numbers
        /\ \A f \in Double.numbers : f * 1 <= z => f <= d
        /\ \A f \in Double.numbers : z <= f * 1 => d <= f
    BY <1>5, <1>6, NearestFacts
  <1>8. d \in Int /\ -Limit <= d /\ d <= Limit
    BY <1>3, <1>4, <1>5, <1>7
  <1> QED BY <1>2, <1>4, <1>6, <1>8

\* The vector of a feature within the limit.
LEMMA VectorOfFeature ==
  ASSUME NEW n \in Nat \ {0}, NEW f \in [0 .. (n - 1) -> Int],
         \A i \in 0 .. (n - 1) : -Limit <= f[i] /\ f[i] <= Limit
  PROVE  LET s == SortedFloats(f)
         IN  /\ s \in [0 .. (n - 1) -> Int] /\ Size(s) = n /\ DOMAIN s = 0 .. (n - 1)
             /\ \A p, q \in 0 .. (n - 1) : p <= q => s[p] <= s[q]
             /\ \A p \in 0 .. (n - 1) : s[p] \in NormalFloats
             /\ \A p \in 0 .. (n - 1) : \E i \in 0 .. (n - 1) : s[p] = Rounded(f[i])
             /\ \A i \in 0 .. (n - 1) : \E p \in 0 .. (n - 1) : s[p] = Rounded(f[i])
  <1> DEFINE s == SortedFloats(f)
  <1>1. /\ s \in [0 .. (n - 1) -> Int] /\ Size(s) = n
        /\ \A p, q \in 0 .. (n - 1) : p <= q => s[p] <= s[q]
        /\ \A p \in 0 .. (n - 1) : \E i \in 0 .. (n - 1) : s[p] = Rounded(f[i])
        /\ \A i \in 0 .. (n - 1) : \E p \in 0 .. (n - 1) : s[p] = Rounded(f[i])
    BY SortedFacts
  <1>2. \A i \in 0 .. (n - 1) : Rounded(f[i]) \in NormalFloats
    BY RoundedFacts
  <1> HIDE DEF s
  <1>3. DOMAIN s = 0 .. (n - 1) /\ \A p \in 0 .. (n - 1) : s[p] \in NormalFloats
    BY <1>1, <1>2
  <1> QED BY <1>1, <1>3 DEF s

-----------------------------------------------------------------------------
(***************************************************************************)
(* The steps of the binarization.                                          *)
(***************************************************************************)

\* A range of positions makes a bin.
LEMMA RangeMakesBin ==
  ASSUME SortedValues, NEW s \in Nat, NEW e \in Nat, s < e, e <= Size(values),
         e # Size(values) => values[e - 1] < values[e]
  PROVE  BinInv(FeatureBin(s, e)) /\ FeatureBin(s, e).start = s /\ FeatureBin(s, e).end = e
  <1>1. FeatureBin(s, e).start = s /\ FeatureBin(s, e).end = e
    BY DEF FeatureBin
  <1> QED BY <1>1 DEF BinInv, IsLast

\* The halves of a bin that can be split are bins, and meet inside of it.
LEMMA HalvesAreBins ==
  ASSUME SortedValues, NEW top, BinInv(top), CanSplit(top)
  PROVE  \E a, b : /\ Halves(top) = {a, b} /\ BinInv(a) /\ BinInv(b)
                   /\ a.start = top.start /\ a.end = b.start /\ b.end = top.end
  <1> DEFINE s == top.start
             e == top.end
             c == top.split
  <1>1. /\ s \in Nat /\ e \in Nat /\ s < e /\ e <= Size(values) /\ top = FeatureBin(s, e)
        /\ e # Size(values) => values[e - 1] < values[e]
    BY DEF BinInv, IsLast
  <1>2. c \in Cuts(s, e)
    BY <1>1, FeatureBinFacts
  <1>3. c \in Nat /\ s < c /\ c < e /\ values[c - 1] # values[c]
    BY <1>1, <1>2 DEF Cuts
  <1>4. values[c - 1] < values[c] /\ c <= Size(values)
    <2>1. PICK n \in Nat : n = Size(values)
      BY DEF SortedValues
    <2>2. c - 1 \in 0 .. (n - 1) /\ c \in 0 .. (n - 1) /\ c - 1 <= c /\ c <= n
      BY <1>1, <1>3, <2>1
    <2>3. values[c - 1] \in Int /\ values[c] \in Int /\ values[c - 1] <= values[c]
      BY <2>1, <2>2 DEF SortedValues
    <2> QED BY <1>3, <2>1, <2>2, <2>3
  <1>7. Halves(top) = {FeatureBin(s, c), FeatureBin(c, e)}
    BY DEF Halves
  <1>8. top.start = s /\ top.end = e
    OBVIOUS
  <1> HIDE DEF s, e, c
  <1>5. BinInv(FeatureBin(s, c)) /\ FeatureBin(s, c).start = s /\ FeatureBin(s, c).end = c
    BY <1>1, <1>3, <1>4, RangeMakesBin
  <1>6. BinInv(FeatureBin(c, e)) /\ FeatureBin(c, e).start = c /\ FeatureBin(c, e).end = e
    BY <1>1, <1>3, RangeMakesBin
  <1> QED BY <1>5, <1>6, <1>7, <1>8

\* The invariant of a queue that is still empty.
LEMMA EmptyQueue ==
  ASSUME VectorInv, splits = {}, ~done
  PROVE  GridInv
  <1>1. SplitInv
    BY FS_EmptySet, VectorIsSorted DEF SplitInv
  <1> QED BY <1>1 DEF GridInv, StopInv, BordersInv

\* The invariant holds initially.
LEMMA InitGridInv == Init => GridInv
  <1> SUFFICES ASSUME Init PROVE GridInv
    OBVIOUS
  <1>1. /\ feature \in Vectors /\ values = SortedFloats(feature) /\ bordersCount \in Nat
        /\ splits = {} /\ ~done
    BY BinarizationAssumption DEF Init, GridInit
  <1>2. PICK n \in Nat \ {0} : n = Size(feature)
    BY <1>1, BinarizationAssumption
  <1>3. feature \in [0 .. (n - 1) -> {d \in Double.numbers : -Limit <= d /\ d <= Limit}]
    BY <1>1, <1>2, BinarizationAssumption
  <1>4. /\ feature \in [0 .. (n - 1) -> Int]
        /\ \A i \in 0 .. (n - 1) : -Limit <= feature[i] /\ feature[i] <= Limit
    BY <1>3, FormatAssumption
  <1>5. /\ values \in [0 .. (n - 1) -> Int] /\ Size(values) = n /\ DOMAIN values = 0 .. (n - 1)
        /\ \A p, q \in 0 .. (n - 1) : p <= q => values[p] <= values[q]
        /\ \A p \in 0 .. (n - 1) : values[p] \in NormalFloats
        /\ \A p \in 0 .. (n - 1) : \E i \in 0 .. (n - 1) : values[p] = Rounded(feature[i])
        /\ \A i \in 0 .. (n - 1) : \E p \in 0 .. (n - 1) : values[p] = Rounded(feature[i])
    BY <1>1, <1>4, VectorOfFeature
  <1>6. VectorInv
    <2>1. SortedValues
      BY <1>5 DEF SortedValues
    <2>2. feature \in [DOMAIN values -> Int]
      BY <1>4, <1>5
    <2> QED BY <1>1, <1>5, <2>1, <2>2 DEF VectorInv
  <1> QED BY <1>1, <1>6, EmptyQueue

\* What is said of bins, borders and the top of the queue depends on the input
\* and the queue only.
LEMMA SameInput ==
  ASSUME feature' = feature, values' = values, bordersCount' = bordersCount, mode' = mode
  PROVE  /\ VectorInv' <=> VectorInv
         /\ \A bin : BinInv(bin)' <=> BinInv(bin)
         /\ \A bs : GoodBorders(bs)' <=> GoodBorders(bs)
         /\ \A bs : CompleteBorders(bs)' <=> CompleteBorders(bs)
         /\ EnoughBorders' <=> EnoughBorders
         /\ splits' = splits => (SplitInv' <=> SplitInv)
         /\ splits' = splits /\ done' = done => (StopInv' <=> StopInv)
         /\ done' = done /\ borders' = borders => (BordersInv' <=> BordersInv)
  <1>1. VectorInv' <=> VectorInv
    BY DEF VectorInv, SortedValues
  <1>2. \A bin : BinInv(bin)' <=> BinInv(bin)
    BY DEF BinInv, IsLast, FeatureBin
  <1>3. \A bs : GoodBorders(bs)' <=> GoodBorders(bs)
    BY DEF GoodBorders, BorderAt, GrowsAt, Beyond, UniformOff, Mean
  <1>4. \A bs : CompleteBorders(bs)' <=> CompleteBorders(bs)
    BY DEF CompleteBorders, BorderAt, GrowsAt, Mean
  <1>40. EnoughBorders' <=> EnoughBorders
    BY DEF EnoughBorders
  <1>5. ASSUME splits' = splits
        PROVE  SplitInv' <=> SplitInv
    BY <1>2, <1>5 DEF SplitInv, Holds
  <1>6. ASSUME splits' = splits, done' = done
        PROVE  StopInv' <=> StopInv
    BY <1>6 DEF StopInv, IsTop
  <1>7. ASSUME done' = done, borders' = borders
        PROVE  BordersInv' <=> BordersInv
    BY <1>3, <1>4, <1>40, <1>7 DEF BordersInv
  <1> QED BY <1>1, <1>2, <1>3, <1>4, <1>40, <1>5, <1>6, <1>7

\* Good borders after the step, from what is known of them before it.
LEMMA NewBorders ==
  ASSUME feature' = feature, values' = values, bordersCount' = bordersCount, mode' = mode,
         GoodBorders(borders'), EnoughBorders => CompleteBorders(borders')
  PROVE  BordersInv'
  <1>1. GoodBorders(borders)' /\ (EnoughBorders' => CompleteBorders(borders)')
    BY SameInput
  <1> QED BY <1>1 DEF BordersInv

\* A mode that makes its borders in one step.
LEMMA OneStepModes ==
  ASSUME GridInv, Median \/ Uniform \/ Optimal
  PROVE  GridInv'
  <1>1. /\ feature' = feature /\ values' = values /\ bordersCount' = bordersCount /\ mode' = mode /\ splits' = splits
        /\ mode # "medianInBin"
    BY DEF Median, Uniform, Optimal, inputVars
  <1>2. VectorInv' /\ SplitInv' /\ StopInv'
    BY <1>1, SameInput DEF GridInv, StopInv
  <1>3. SortedValues /\ bordersCount \in Nat
    BY VectorIsSorted DEF GridInv
  <1>30. \A p : GrowsAt(p) => BorderAt(RegularBorder(p, values), p)
    BY <1>1, <1>3, RegularIsAt
  <1>31. mode = "optimal" => \A p : GrowsAt(p) => BorderAt(Midpoint(values[p - 1], values[p]), p)
    BY <1>1 DEF BorderAt, Mean
  <1>4. CASE Median
    <2>1. borders' = GenerateMedianBorders(values, bordersCount) /\ mode = "median"
      BY <1>4 DEF Median
    <2>2. GoodBorders(borders')
      BY <1>3, <1>30, <2>1, MedianGood DEF GoodBorders, AtGrowth
    <2>3. EnoughBorders => CompleteBorders(borders')
      BY <1>3, <1>30, <2>1, MedianGood DEF EnoughBorders, CompleteBorders, AtEveryGrowth
    <2> QED BY <1>1, <1>2, <2>2, <2>3, NewBorders DEF GridInv
  <1>5. CASE Uniform
    <2>1. borders' = MedianPlusUniform(values, bordersCount) /\ mode = "medianPlusUniform"
      BY <1>5 DEF Uniform
    <2>2. GoodBorders(borders')
      BY <1>3, <1>30, <2>1, UniformGood DEF GoodBorders
    <2>3. EnoughBorders => CompleteBorders(borders')
      BY <1>3, <1>30, <2>1, UniformGood DEF EnoughBorders, CompleteBorders, AtEveryGrowth
    <2> QED BY <1>1, <1>2, <2>2, <2>3, NewBorders DEF GridInv
  <1>6. CASE Optimal
    <2>1. /\ borders' = BordersBehind(thresholds', Features(values))
          /\ thresholds' \in kSubset(Min({bordersCount, Size(Features(values)) - 1}), 0 .. (Size(Features(values)) - 1 - 1))
          /\ mode = "optimal"
      BY <1>6 DEF Optimal
    <2>2. GoodBorders(borders')
      BY <1>3, <1>31, <2>1, OptimalGood DEF GoodBorders
    <2>3. EnoughBorders => CompleteBorders(borders')
      BY <1>3, <1>31, <2>1, OptimalGood DEF EnoughBorders, CompleteBorders, Distinct
    <2> QED BY <1>1, <1>2, <2>2, <2>3, NewBorders DEF GridInv
  <1> QED BY <1>4, <1>5, <1>6

\* The queue of medianInBin gets its first bin.
LEMMA FirstBinKeeps ==
  ASSUME GridInv, FirstBin
  PROVE  GridInv'
  <1>1. /\ feature' = feature /\ values' = values /\ bordersCount' = bordersCount /\ mode' = mode
        /\ done' = done /\ borders' = borders /\ ~done
        /\ splits' = {FeatureBin(0, Size(values))}
    BY DEF FirstBin, inputVars
  <1>2. VectorInv' /\ BordersInv' /\ StopInv'
    BY <1>1, SameInput DEF GridInv, StopInv
  <1>3. SortedValues /\ bordersCount \in Nat
    BY VectorIsSorted DEF GridInv
  <1>4. PICK n \in Nat \ {0} : n = Size(values)
    BY <1>3 DEF SortedValues
  <1>5. PICK bin : bin = FeatureBin(0, n)
    OBVIOUS
  <1>6. BinInv(bin) /\ bin.start = 0 /\ bin.end = n
    BY <1>3, <1>4, <1>5, RangeMakesBin
  <1>7. BinInv(bin)'
    BY <1>1, <1>6, SameInput
  <1>8. splits' = {bin} /\ IsFiniteSet({bin}) /\ Cardinality({bin}) = 1
    BY <1>1, <1>4, <1>5, FS_Singleton
  <1>9. \A p \in 0 .. (n - 1) : Holds(bin, p)
    BY <1>4, <1>6 DEF Holds
  <1>10. SplitInv'
    <2>1. IsFiniteSet(splits') /\ Cardinality(splits') <= bordersCount' + 1
      BY <1>1, <1>3, <1>8
    <2>2. Size(values') = n
      BY <1>1, <1>4
    <2>3. \A p \in 0 .. (Size(values') - 1) : \E b \in splits' : Holds(b, p)
      BY <1>8, <1>9, <2>2
    <2> QED BY <1>7, <1>8, <2>1, <2>3 DEF SplitInv, Holds
  <1> QED BY <1>2, <1>10 DEF GridInv

\* A turn of the loop of medianInBin: the halves take the place of the bin.
LEMMA SplitKeeps ==
  ASSUME GridInv, Split
  PROVE  GridInv'
  <1>1. /\ feature' = feature /\ values' = values /\ bordersCount' = bordersCount /\ mode' = mode
        /\ done' = done /\ borders' = borders
        /\ ~done /\ mode = "medianInBin" /\ Cardinality(splits) <= bordersCount
    BY DEF Split, inputVars
  <1>2. PICK top \in splits : CanSplit(top) /\ splits' = (splits \ {top}) \cup Halves(top)
    BY DEF Split
  <1>3. SortedValues /\ bordersCount \in Nat
    BY VectorIsSorted DEF GridInv
  <1>4. VectorInv' /\ BordersInv' /\ StopInv'
    BY <1>1, SameInput DEF GridInv, StopInv
  <1>50. \A bin \in splits : /\ BinInv(bin)
                             /\ bin.start \in Nat /\ bin.end \in Nat /\ bin.start < bin.end /\ bin.end <= Size(values)
    BY DEF GridInv, SplitInv, BinInv
  <1>5. PICK a, b : /\ Halves(top) = {a, b} /\ BinInv(a) /\ BinInv(b)
                    /\ a.start = top.start /\ a.end = b.start /\ b.end = top.end
    BY <1>2, <1>3, <1>50, HalvesAreBins
  <1>51. splits' = (splits \ {top}) \cup {a, b}
    BY <1>2, <1>5
  <1>52. /\ a.start \in Nat /\ a.end \in Nat /\ a.start < a.end
         /\ b.start \in Nat /\ b.end \in Nat /\ b.start < b.end
    BY <1>5 DEF BinInv
  <1>6. \A bin \in splits' : BinInv(bin)'
    <2>1. \A bin \in splits' : BinInv(bin)
      BY <1>5, <1>50, <1>51
    <2> QED BY <1>1, <2>1, SameInput
  <1>7. ASSUME NEW p \in 0 .. (Size(values) - 1)
        PROVE  \E bin \in splits' : Holds(bin, p)
    <2>1. PICK bin \in splits : Holds(bin, p)
      BY <1>2 DEF GridInv, SplitInv
    <2>2. CASE bin # top
      BY <1>51, <2>1, <2>2
    <2>3. CASE bin = top
      <3>1. p \in Int
        OBVIOUS
      <3>2. Holds(a, p) \/ Holds(b, p)
        BY <1>5, <1>52, <2>1, <2>3, <3>1 DEF Holds
      <3> QED BY <1>51, <3>2
    <2> QED BY <2>2, <2>3
  <1>70. ASSUME NEW x \in splits', NEW y \in splits'
         PROVE  x = y \/ x.end <= y.start \/ y.end <= x.start
    <2>1. \A c \in splits \ {top} : c.end <= top.start \/ top.end <= c.start
      BY <1>2 DEF GridInv, SplitInv
    <2>2. \A c \in splits \ {top} : \A h \in {a, b} : c.end <= h.start \/ h.end <= c.start
      <3> TAKE c \in splits \ {top}
      <3>1. c.start \in Nat /\ c.end \in Nat
        BY <1>50
      <3>2. c.end <= top.start \/ top.end <= c.start
        BY <2>1
      <3>3. top.start <= b.start /\ a.end <= top.end
        BY <1>5, <1>52
      <3>4. c.end <= a.start \/ a.end <= c.start
        BY <1>5, <1>52, <3>1, <3>2
      <3>5. c.end <= b.start \/ b.end <= c.start
        BY <1>5, <1>52, <3>1, <3>2
      <3> QED BY <3>4, <3>5
    <2>3. CASE x \in splits \ {top} /\ y \in splits \ {top}
      BY <2>3 DEF GridInv, SplitInv
    <2>4. CASE x \in splits \ {top} /\ y \in {a, b}
      BY <2>2, <2>4
    <2>5. CASE x \in {a, b} /\ y \in splits \ {top}
      BY <2>2, <2>5
    <2>6. CASE x \in {a, b} /\ y \in {a, b}
      <3>1. a.end <= b.start
        BY <1>5, <1>52
      <3> QED BY <2>6, <3>1
    <2> QED BY <1>51, <2>3, <2>4, <2>5, <2>6
  <1>8. IsFiniteSet(splits') /\ Cardinality(splits') <= bordersCount + 1
    <2>2. IsFiniteSet(splits) /\ Cardinality(splits) \in Nat
      BY FS_CardinalityType DEF GridInv, SplitInv
    <2>3. IsFiniteSet(splits \ {top}) /\ Cardinality(splits \ {top}) = Cardinality(splits) - 1
      BY <1>2, <2>2, FS_RemoveElement
    <2> DEFINE A == (splits \ {top}) \cup {a}
    <2>4. IsFiniteSet(A) /\ Cardinality(A) \in Int /\ Cardinality(A) <= Cardinality(splits)
      <3>1. PICK R : R = splits \ {top}
        OBVIOUS
      <3>2. /\ IsFiniteSet(R \cup {a})
            /\ Cardinality(R \cup {a}) = IF a \in R THEN Cardinality(R) ELSE Cardinality(R) + 1
        BY <2>3, <3>1, FS_AddElement
      <3> QED BY <2>2, <2>3, <3>1, <3>2
    <2>5. splits' = A \cup {b}
      BY <1>51
    <2> HIDE DEF A
    <2>6. IsFiniteSet(A \cup {b}) /\ Cardinality(A \cup {b}) \in Int /\ Cardinality(A \cup {b}) <= Cardinality(splits) + 1
      BY <2>2, <2>4, FS_AddElement
    <2> QED BY <1>1, <1>3, <2>2, <2>5, <2>6
  <1>9. SplitInv'
    <2>1. \A p \in 0 .. (Size(values') - 1) : \E bin \in splits' : Holds(bin, p)
      BY <1>1, <1>7
    <2>2. Cardinality(splits') <= bordersCount' + 1
      BY <1>1, <1>8
    <2> QED BY <1>6, <1>70, <1>8, <2>1, <2>2 DEF SplitInv, Holds
  <1> QED BY <1>4, <1>9 DEF GridInv

\* The end of the loop of medianInBin.
LEMMA StopKeeps ==
  ASSUME GridInv, Stop
  PROVE  GridInv'
  <1>1. /\ feature' = feature /\ values' = values /\ bordersCount' = bordersCount /\ mode' = mode /\ splits' = splits
        /\ mode = "medianInBin" /\ splits # {}
        /\ Cardinality(splits) <= bordersCount => \E top \in splits : IsTop(top) /\ ~CanSplit(top)
        /\ borders' = {Border(bin) : bin \in {b \in splits : ~IsLast(b)}}
    BY DEF Stop, inputVars
  <1>2. VectorInv' /\ SplitInv'
    BY <1>1, SameInput DEF GridInv
  <1>3. StopInv'
    BY <1>1 DEF StopInv, IsTop
  <1>4. GoodBorders(borders') /\ (EnoughBorders => CompleteBorders(borders'))
    BY <1>1, BinsGood DEF GridInv
  <1>5. BordersInv'
    BY <1>1, <1>4, NewBorders
  <1> QED BY <1>2, <1>3, <1>5 DEF GridInv

\* Every step of the binarization keeps the invariant.
LEMMA BestSplitKeeps ==
  ASSUME GridInv, BestSplit
  PROVE  GridInv'
  BY OneStepModes, FirstBinKeeps, SplitKeeps, StopKeeps DEF BestSplit

-----------------------------------------------------------------------------
(***************************************************************************)
(* The bins of a label and its codes.                                      *)
(***************************************************************************)

\* Good borders are finitely many floats.
LEMMA GoodBordersAreNumbers ==
  ASSUME VectorInv, NEW bs, GoodBorders(bs)
  PROVE  IsFiniteSet(bs) /\ bs \subseteq Float.numbers /\ bs \subseteq Int
  <1>1. values[0] \in NormalFloats /\ Back(values) \in NormalFloats
    <2>1. PICK n \in Nat \ {0} : n = Size(values)
      BY DEF VectorInv, SortedValues
    <2>2. DOMAIN values = 0 .. (n - 1) /\ 0 \in 0 .. (n - 1) /\ n - 1 \in 0 .. (n - 1)
      BY <2>1, VectorIsSorted
    <2> QED BY <2>1, <2>2 DEF VectorInv, Back
  <1>2. ASSUME NEW b \in bs
        PROVE  b \in Float.numbers /\ b \in Int
    <2>1. CASE Beyond(b)
      BY <1>1, <2>1, BordersBeyond DEF Beyond
    <2>2. CASE \E p \in 1 .. (Size(values) - 1) : BorderAt(b, p)
      BY <2>2, BorderBetween
    <2> QED BY <2>1, <2>2 DEF GoodBorders
  <1> QED BY <1>2 DEF GoodBorders

\* The hash set lists every border once.
LEMMA BordersListed ==
  ASSUME IsFiniteSet(borders), NEW bs \in Lists!SetToSeqs(borders)
  PROVE  /\ Cardinality(borders) \in Nat /\ bs \in [1 .. Cardinality(borders) -> borders]
         /\ \A b \in borders : \E k \in 1 .. Cardinality(borders) : bs[k] = b
         /\ bs = <<>> <=> borders = {}
  <1>1. PICK n \in Nat : n = Cardinality(borders)
    BY FS_CardinalityType
  <1>2. \A S : Lists!Cardinality(S) = Cardinality(S)
    BY DEF Lists!Cardinality, Cardinality
  <1>3. bs \in [1 .. n -> borders] /\ \A i, j \in 1 .. n : i # j => bs[i] # bs[j]
    BY <1>1, <1>2 DEF Lists!SetToSeqs
  <1>4. bs \in Injection(1 .. n, borders)
    BY <1>3 DEF Injection, IsInjective
  <1>5. IsFiniteSet(1 .. n) /\ Cardinality(1 .. n) = n
    BY FS_Interval
  <1>6. bs \in Surjection(1 .. n, borders)
    BY <1>1, <1>4, <1>5, FS_Injection
  <1>7. \A b \in borders : \E k \in 1 .. n : bs[k] = b
    BY <1>6 DEF Surjection
  <1>8. bs = <<>> <=> borders = {}
    <2>1. bs \in Seq(borders)
      BY <1>3, SeqDef
    <2>2. Len(bs) = n
      BY <1>3, <2>1, LenProperties
    <2>3. bs = <<>> <=> n = 0
      BY <2>1, <2>2, EmptySeq
    <2>4. n = 0 <=> borders = {}
      BY <1>1, FS_EmptySet
    <2> QED BY <2>3, <2>4
  <1> QED BY <1>1, <1>3, <1>7, <1>8

\* What the bins say of two examples: a larger value has all bins of a smaller
\* one, and two values have the same bins if no border lies between them.
LEMMA BinsOfFacts ==
  ASSUME VectorInv, GoodBorders(borders), NEW bs \in Lists!SetToSeqs(borders), NEW made, made = BinsOf(bs)
  PROVE  /\ Len(made) \in Nat /\ DOMAIN made = 1 .. Len(made)
         /\ \A k \in DOMAIN made : \A i \in DOMAIN values : made[k][i] \in BOOLEAN
         /\ \A i, j \in DOMAIN values : feature[i] <= feature[j] =>
              \A k \in DOMAIN made : made[k][i] => made[k][j]
         /\ \A i, j \in DOMAIN values :
              Above(feature[i]) = Above(feature[j]) <=> \A k \in DOMAIN made : made[k][i] <=> made[k][j]
  <1>1. IsFiniteSet(borders) /\ borders \subseteq Int
    BY GoodBordersAreNumbers
  <1>2. DOMAIN feature = DOMAIN values
    BY DEF VectorInv
  <1>3. PICK n \in Nat : n = Cardinality(borders)
    BY <1>1, FS_CardinalityType
  <1>4. /\ bs \in [1 .. n -> borders] /\ \A b \in borders : \E k \in 1 .. n : bs[k] = b
        /\ bs = <<>> <=> borders = {}
    BY <1>1, <1>3, BordersListed
  <1>5. \A i \in DOMAIN values : feature[i] \in Int
    BY DEF VectorInv
  <1>6. CASE bs = <<>>
    <2> DEFINE never == [i \in DOMAIN values |-> FALSE]
    <2>1. made = <<never>> /\ borders = {}
      BY <1>2, <1>4, <1>6 DEF BinsOf
    <2>2. Len(made) = 1 /\ DOMAIN made = 1 .. 1 /\ made[1] = never
      BY <2>1
    <2>3. \A k \in DOMAIN made : \A i \in DOMAIN values : made[k][i] = FALSE
      BY <2>2
    <2>4. \A x : Above(x) = {}
      BY <2>1 DEF Above
    <2>5. \A k \in DOMAIN made : \A i \in DOMAIN values : made[k][i] \in BOOLEAN /\ ~made[k][i]
      BY <2>3, Zenon
    <2>6. Len(made) \in Nat /\ DOMAIN made = 1 .. Len(made)
      BY <2>2
    <2> HIDE DEF never
    <2> QED BY <2>4, <2>5, <2>6, Zenon
  <1>7. CASE bs # <<>>
    <2>1. made = [k \in 1 .. n |-> [i \in DOMAIN values |-> feature[i] > bs[k]]]
      BY <1>2, <1>4, <1>7 DEF BinsOf
    <2>2. DOMAIN made = 1 .. n /\ \A k \in 1 .. n : \A i \in DOMAIN values : made[k][i] = (feature[i] > bs[k])
      BY <2>1
    <2>3. Len(made) = n
      <3>1. made \in [1 .. n -> {made[k] : k \in 1 .. n}]
        BY <2>1
      <3>2. made \in Seq({made[k] : k \in 1 .. n})
        BY <3>1, SeqDef
      <3> QED BY <2>2, <3>2, LenProperties
    <2>4. \A k \in 1 .. n : bs[k] \in Int /\ bs[k] \in borders
      BY <1>1, <1>4
    <2>5. \A k \in DOMAIN made, i \in DOMAIN values : made[k][i] \in BOOLEAN
      <3>1. \A k \in 1 .. n : \A i \in DOMAIN values : (feature[i] > bs[k]) \in BOOLEAN
        OBVIOUS
      <3> TAKE k \in DOMAIN made, i \in DOMAIN values
      <3>2. k \in 1 .. n
        BY <2>2
      <3>3. made[k][i] = (feature[i] > bs[k])
        BY <2>2, <3>2
      <3>4. (feature[i] > bs[k]) \in BOOLEAN
        BY <3>1, <3>2
      <3> QED BY ONLY <3>3, <3>4, Zenon
    <2>6. \A k \in 1 .. n : \A i \in DOMAIN values : made[k][i] <=> feature[i] > bs[k]
      BY <2>2, Zenon
    <2>7. ASSUME NEW i \in DOMAIN values, NEW j \in DOMAIN values, feature[i] <= feature[j], NEW k \in 1 .. n, made[k][i]
          PROVE  made[k][j]
      <3>1. feature[i] > bs[k]
        BY <2>6, <2>7
      <3>2. feature[j] > bs[k]
        BY <1>5, <2>4, <2>7, <3>1
      <3> QED BY <2>6, <3>2
    <2>8. ASSUME NEW i \in DOMAIN values, NEW j \in DOMAIN values
          PROVE  Above(feature[i]) = Above(feature[j]) <=> \A k \in 1 .. n : made[k][i] <=> made[k][j]
      <3>1. ASSUME Above(feature[i]) = Above(feature[j]), NEW k \in 1 .. n
            PROVE  made[k][i] <=> made[k][j]
        <4>1. bs[k] \in Above(feature[i]) <=> bs[k] \in Above(feature[j])
          BY <3>1
        <4>2. /\ bs[k] \in Above(feature[i]) <=> feature[i] > bs[k]
              /\ bs[k] \in Above(feature[j]) <=> feature[j] > bs[k]
          BY <2>4 DEF Above
        <4> QED BY <2>6, <4>1, <4>2
      <3>2. ASSUME \A k \in 1 .. n : made[k][i] <=> made[k][j]
            PROVE  Above(feature[i]) = Above(feature[j])
        <4>1. ASSUME NEW b \in borders
              PROVE  feature[i] > b <=> feature[j] > b
          <5>1. PICK k \in 1 .. n : bs[k] = b
            BY <1>4
          <5> QED BY <2>6, <3>2, <5>1
        <4> QED BY <4>1 DEF Above
      <3> QED BY <3>1, <3>2
    <2> QED BY <2>2, <2>3, <2>5, <2>7, <2>8
  <1> QED BY <1>6, <1>7

\* A bin sets a bit of its own, as long as an int has one for it; only the bin
\* at the sign of the int sets more, and those are above it.
LEMMA ShiftedBit ==
  ASSUME NEW n \in Nat, n <= IntWidth, NEW k \in 1 .. n, NEW masked \in BOOLEAN
  PROVE  /\ k - 1 \in Shifted(k - 1, masked) /\ Shifted(k - 1, masked) \subseteq 0 .. (WordSize - 1)
         /\ \A l \in 1 .. n : k - 1 \in Shifted(l - 1, masked) => l = k
         /\ n < IntWidth => Shifted(k - 1, masked) = {k - 1}
  <1>1. WordSize \in Nat /\ IntWidth \in Nat /\ 2 <= IntWidth /\ IntWidth <= WordSize
    BY WidthAssumption
  <1>2. ASSUME NEW l \in 1 .. n
        PROVE  Shifted(l - 1, masked) = IF l = IntWidth THEN (l - 1) .. (WordSize - 1) ELSE {l - 1}
    <2>1. l - 1 \in Nat /\ l - 1 < IntWidth
      BY <1>1
    <2>2. (l - 1) % IntWidth = l - 1
      BY <1>1, <2>1
    <2>3. ~(l - 1 >= IntWidth) /\ (l - 1 = IntWidth - 1 <=> l = IntWidth)
      BY <1>1, <2>1
    <2> QED BY <2>2, <2>3 DEF Shifted
  <1>3. Shifted(k - 1, masked) = IF k = IntWidth THEN (k - 1) .. (WordSize - 1) ELSE {k - 1}
    BY <1>2
  <1>4. k - 1 \in Shifted(k - 1, masked) /\ Shifted(k - 1, masked) \subseteq 0 .. (WordSize - 1)
    BY <1>1, <1>3
  <1>5. ASSUME NEW l \in 1 .. n, k - 1 \in Shifted(l - 1, masked)
        PROVE  l = k
    <2>1. k - 1 \in IF l = IntWidth THEN (l - 1) .. (WordSize - 1) ELSE {l - 1}
      BY <1>2, <1>5
    <2>2. CASE l = IntWidth
      BY <1>1, <2>1, <2>2
    <2>3. CASE l # IntWidth
      BY <2>1, <2>3
    <2> QED BY <2>2, <2>3
  <1>6. n < IntWidth => Shifted(k - 1, masked) = {k - 1}
    BY <1>1, <1>3
  <1> QED BY <1>4, <1>5, <1>6

\* Every shift leaves bits of the word.
LEMMA ShiftedInWord ==
  ASSUME NEW k \in Nat, NEW masked \in BOOLEAN
  PROVE  Shifted(k, masked) \subseteq 0 .. (WordSize - 1)
  <1>1. WordSize \in Nat /\ IntWidth \in Nat \ {0} /\ IntWidth <= WordSize
    BY WidthAssumption
  <1>2. PICK bit \in 0 .. (IntWidth - 1) : bit = k % IntWidth
    BY <1>1
  <1>3. Shifted(k, masked) \in {{}, bit .. (WordSize - 1), {bit}}
    BY <1>2 DEF Shifted
  <1> QED BY <1>1, <1>2, <1>3

\* The bits of example i: those at which a bin holds that has it.
UnitedBits(i, masked) == UNION {Shifted(k - 1, masked) : k \in {j \in DOMAIN bins : bins[j][i]}}

\* Of two examples one has all bins of the other.
Nested(made) ==
  /\ Len(made) \in Nat /\ DOMAIN made = 1 .. Len(made)
  /\ \A k \in DOMAIN made : \A i \in DOMAIN values : made[k][i] \in BOOLEAN
  /\ \A i, j \in DOMAIN values :
       \/ \A k \in DOMAIN made : made[k][i] => made[k][j]
       \/ \A k \in DOMAIN made : made[k][j] => made[k][i]

\* Codes are words, and examples of the same bins have the same.
LEMMA CodesAreWords ==
  ASSUME Nested(bins), NEW masked \in BOOLEAN, codes = [i \in DOMAIN values |-> UnitedBits(i, masked)]
  PROVE  /\ DOMAIN codes = DOMAIN values
         /\ \A i \in DOMAIN values : codes[i] \in SUBSET (0 .. (WordSize - 1))
         /\ \A i, j \in DOMAIN values : (\A k \in DOMAIN bins : bins[k][i] <=> bins[k][j]) => codes[i] = codes[j]
  <1>1. ASSUME NEW i \in DOMAIN values
        PROVE  codes[i] \in SUBSET (0 .. (WordSize - 1))
    <2> SUFFICES ASSUME NEW y \in codes[i] PROVE y \in 0 .. (WordSize - 1)
      OBVIOUS
    <2>1. PICK k \in DOMAIN bins : y \in Shifted(k - 1, masked)
      BY DEF UnitedBits
    <2>2. k - 1 \in Nat
      BY DEF Nested
    <2> QED BY <2>1, <2>2, ShiftedInWord
  <1>2. ASSUME NEW i \in DOMAIN values, NEW j \in DOMAIN values, \A k \in DOMAIN bins : bins[k][i] <=> bins[k][j]
        PROVE  codes[i] = codes[j]
    <2>1. {k \in DOMAIN bins : bins[k][i]} = {k \in DOMAIN bins : bins[k][j]}
      BY <1>2
    <2>2. codes[i] = UnitedBits(i, masked) /\ codes[j] = UnitedBits(j, masked)
      OBVIOUS
    <2> QED BY <2>1, <2>2 DEF UnitedBits
  <1> QED BY <1>1, <1>2

\* As long as an int has a bit for every bin, an example with more bins than
\* another has more bits.
LEMMA CodesNested ==
  ASSUME Nested(bins), NEW masked \in BOOLEAN, codes = [i \in DOMAIN values |-> UnitedBits(i, masked)],
         Len(bins) <= IntWidth, NEW i \in DOMAIN values, NEW j \in DOMAIN values,
         \A k \in DOMAIN bins : bins[k][i] => bins[k][j],
         ~(\A k \in DOMAIN bins : bins[k][i] <=> bins[k][j])
  PROVE  codes[i] \subseteq codes[j] /\ codes[i] # codes[j]
  <1>1. PICK n \in Nat : n = Len(bins) /\ DOMAIN bins = 1 .. n
    BY DEF Nested
  <1> DEFINE set(x) == {k \in 1 .. n : bins[k][x]}
  <1>4. \A x \in DOMAIN values : codes[x] = UNION {Shifted(k - 1, masked) : k \in set(x)}
    BY <1>1 DEF UnitedBits
  <1>5. \A x \in DOMAIN values : \A k \in 1 .. n : k \in set(x) <=> bins[k][x]
    OBVIOUS
  <1>6. \A x \in DOMAIN values : set(x) \subseteq 1 .. n
    OBVIOUS
  <1> HIDE DEF set
  <1>2. \A k \in 1 .. n : bins[k][i] => bins[k][j]
    BY <1>1
  <1>3. set(i) \subseteq set(j)
    BY <1>2, <1>5, <1>6
  <1>7. codes[i] \subseteq codes[j]
    BY <1>3, <1>4
  <1>8. PICK k \in 1 .. n : ~(bins[k][i] <=> bins[k][j])
    BY <1>1
  <1>9. k \in set(j) /\ k \notin set(i)
    BY <1>2, <1>5, <1>8
  <1>10. k - 1 \in codes[j]
    <2>1. k - 1 \in Shifted(k - 1, masked)
      BY <1>1, ShiftedBit
    <2> QED BY <1>4, <1>9, <2>1
  <1>11. k - 1 \notin codes[i]
    <2> SUFFICES ASSUME k - 1 \in codes[i] PROVE FALSE
      OBVIOUS
    <2>1. PICK l \in set(i) : k - 1 \in Shifted(l - 1, masked)
      BY <1>4
    <2>2. l \in 1 .. n
      BY <1>6, <2>1
    <2>3. l = k
      BY <1>1, <2>1, <2>2, ShiftedBit
    <2> QED BY <1>9, <2>1, <2>3
  <1> QED BY <1>7, <1>10, <1>11

\* What the label is at each stage of its way: its bins are nested, its codes
\* are made from them, and the second run starts from the codes as doubles.
LabelInv ==
  /\ pc \in {"raw", "binarized", "written", "reading", "read"}
  /\ pc # "raw" => Nested(bins)
  /\ pc \in {"binarized", "written"} => done /\ \E bs \in Lists!SetToSeqs(borders) : bins = BinsOf(bs)
  /\ pc \in {"written", "reading", "read"} =>
       \E masked \in BOOLEAN : codes = [i \in DOMAIN values |-> UnitedBits(i, masked)]
  /\ pc \in {"reading", "read"} =>
       feature = [i \in DOMAIN values |-> Nearest(Double, Number(codes[i]) * One, 1)]
  /\ pc = "read" => done /\ \E bs \in Lists!SetToSeqs(borders) : bins2 = BinsOf(bs)

\* The bins BinarizeFeature makes are nested.
LEMMA BinsAreNested ==
  ASSUME GridInv, done, NEW bs \in Lists!SetToSeqs(borders)
  PROVE  Nested(BinsOf(bs))
  <1>1. VectorInv /\ GoodBorders(borders)
    BY DEF GridInv, BordersInv
  <1>2. PICK made : made = BinsOf(bs)
    OBVIOUS
  <1>3. /\ Len(made) \in Nat /\ DOMAIN made = 1 .. Len(made)
        /\ \A k \in DOMAIN made : \A i \in DOMAIN values : made[k][i] \in BOOLEAN
        /\ \A i, j \in DOMAIN values : feature[i] <= feature[j] =>
             \A k \in DOMAIN made : made[k][i] => made[k][j]
    BY <1>1, <1>2, BinsOfFacts
  <1>4. \A i, j \in DOMAIN values : feature[i] <= feature[j] \/ feature[j] <= feature[i]
    <2>1. \A i \in DOMAIN values : feature[i] \in Int
      BY <1>1 DEF VectorInv
    <2> QED BY <2>1
  <1>5. \A i, j \in DOMAIN values : \/ \A k \in DOMAIN made : made[k][i] => made[k][j]
                                   \/ \A k \in DOMAIN made : made[k][j] => made[k][i]
    BY <1>3, <1>4
  <1> QED BY <1>2, <1>3, <1>5 DEF Nested

\* Nothing is said of the label but by its variables and the input.
LEMMA SameLabel ==
  ASSUME DOMAIN values' = DOMAIN values, bins' = bins
  PROVE  /\ Nested(bins)' <=> Nested(bins)
         /\ \A masked : [i \in DOMAIN values |-> UnitedBits(i, masked)]' = [i \in DOMAIN values |-> UnitedBits(i, masked)]
         /\ feature' = feature => \A bs : BinsOf(bs)' = BinsOf(bs)
  <1>1. Nested(bins)' <=> Nested(bins)
    BY DEF Nested
  <1>2. \A masked : [i \in DOMAIN values |-> UnitedBits(i, masked)]' = [i \in DOMAIN values |-> UnitedBits(i, masked)]
    BY DEF UnitedBits
  <1>3. feature' = feature => \A bs : BinsOf(bs)' = BinsOf(bs)
    BY DEF BinsOf
  <1> QED BY <1>1, <1>2, <1>3

\* The second run starts with the vector of the codes.
LEMMA ReadPoolKeeps ==
  ASSUME GridInv, LabelInv, ReadPool
  PROVE  GridInv' /\ LabelInv'
  <1>1. /\ pc = "written" /\ pc' = "reading"
        /\ feature' = [i \in DOMAIN codes |-> Nearest(Double, Number(codes[i]) * One, 1)]
        /\ values' = SortedFloats(feature')
        /\ bordersCount' \in Nat /\ splits' = {} /\ ~done' /\ bins' = bins /\ codes' = codes
    BY BinarizationAssumption DEF ReadPool
  <1>2. PICK n \in Nat \ {0} : n = Size(values) /\ DOMAIN values = 0 .. (n - 1)
    BY VectorIsSorted DEF GridInv, SortedValues
  <1>3. Nested(bins)
    BY <1>1 DEF LabelInv
  <1>4. PICK masked \in BOOLEAN : codes = [i \in DOMAIN values |-> UnitedBits(i, masked)]
    BY <1>1 DEF LabelInv
  <1>5. DOMAIN codes = 0 .. (n - 1) /\ \A i \in 0 .. (n - 1) : codes[i] \in SUBSET (0 .. (WordSize - 1))
    BY <1>2, <1>3, <1>4, CodesAreWords
  <1>6. PICK f : f = feature'
    OBVIOUS
  <1>7. f = [i \in 0 .. (n - 1) |-> Nearest(Double, Number(codes[i]) * One, 1)]
    BY <1>1, <1>5, <1>6
  <1>8. \A i \in 0 .. (n - 1) : LET d == Nearest(Double, Number(codes[i]) * One, 1)
                                IN  d \in Int /\ -Limit <= d /\ d <= Limit
    BY <1>5, NumberAsDouble
  <1>9. f \in [0 .. (n - 1) -> Int] /\ \A i \in 0 .. (n - 1) : -Limit <= f[i] /\ f[i] <= Limit
    BY <1>7, <1>8
  <1> DEFINE s == SortedFloats(f)
  <1>11. /\ s \in [0 .. (n - 1) -> Int] /\ Size(s) = n /\ DOMAIN s = 0 .. (n - 1)
         /\ \A p, q \in 0 .. (n - 1) : p <= q => s[p] <= s[q]
         /\ \A p \in 0 .. (n - 1) : s[p] \in NormalFloats
         /\ \A p \in 0 .. (n - 1) : \E i \in 0 .. (n - 1) : s[p] = Rounded(f[i])
         /\ \A i \in 0 .. (n - 1) : \E p \in 0 .. (n - 1) : s[p] = Rounded(f[i])
    <2>1. f \in [0 .. (n - 1) -> Int]
      BY <1>9
    <2>2. \A i \in 0 .. (n - 1) : -Limit <= f[i] /\ f[i] <= Limit
      BY <1>9
    <2> QED BY <2>1, <2>2, VectorOfFeature
  <1>12. values' = s
    BY <1>1, <1>6
  <1> HIDE DEF s
  <1>13. VectorInv'
    <2>1. SortedValues'
      BY <1>11, <1>12 DEF SortedValues
    <2>2. feature' \in [DOMAIN values' -> Int]
      BY <1>6, <1>9, <1>11, <1>12
    <2>3. \A p \in DOMAIN values' : values'[p] \in NormalFloats
      BY <1>11, <1>12
    <2>4. /\ \A p \in DOMAIN values' : \E i \in DOMAIN values' : values'[p] = Rounded(feature'[i])
          /\ \A i \in DOMAIN values' : \E p \in DOMAIN values' : values'[p] = Rounded(feature'[i])
      BY <1>6, <1>11, <1>12
    <2> QED BY <1>1, <2>1, <2>2, <2>3, <2>4 DEF VectorInv
  <1>14. SplitInv'
    <2>1. bordersCount' \in Nat /\ splits' = {}
      BY <1>1
    <2>2. IsFiniteSet(splits') /\ Cardinality(splits') = 0
      BY <2>1, FS_EmptySet
    <2> QED BY <2>1, <2>2 DEF SplitInv
  <1>15. GridInv'
    BY <1>1, <1>13, <1>14 DEF GridInv, StopInv, BordersInv
  <1>16. DOMAIN values' = DOMAIN values
    BY <1>2, <1>11, <1>12
  <1>17. Nested(bins)'
    BY <1>1, <1>3, <1>16, SameLabel
  <1>18. codes' = [i \in DOMAIN values |-> UnitedBits(i, masked)]'
    BY <1>1, <1>4, <1>16, SameLabel
  <1>19. feature' = [i \in DOMAIN values' |-> Nearest(Double, Number(codes'[i]) * One, 1)]
    BY <1>1, <1>2, <1>5, <1>16
  <1>20. LabelInv'
    BY <1>1, <1>17, <1>18, <1>19 DEF LabelInv
  <1> QED BY <1>15, <1>20

\* Every step keeps the invariant.
LEMMA NextKeeps == GridInv /\ LabelInv /\ [Next]_vars => GridInv' /\ LabelInv'
  <1> SUFFICES ASSUME GridInv, LabelInv, [Next]_vars
               PROVE  GridInv' /\ LabelInv'
    OBVIOUS
  <1>0. UNCHANGED gridVars => /\ GridInv'
                              /\ feature' = feature /\ values' = values /\ done' = done /\ borders' = borders
    <2> SUFFICES ASSUME UNCHANGED gridVars
                 PROVE  /\ GridInv'
                        /\ feature' = feature /\ values' = values /\ done' = done /\ borders' = borders
      OBVIOUS
    <2>1. /\ feature' = feature /\ values' = values /\ bordersCount' = bordersCount /\ mode' = mode
          /\ splits' = splits /\ done' = done /\ borders' = borders
      BY DEF gridVars, inputVars
    <2> QED BY <2>1, SameInput DEF GridInv
  <1>1. CASE BestSplit /\ UNCHANGED labelVars
    <2>1. ~done /\ feature' = feature /\ values' = values
      BY <1>1 DEF BestSplit, Median, Uniform, Optimal, FirstBin, Split, Stop, inputVars
    <2>2. pc \in {"raw", "reading"} /\ pc' = pc /\ bins' = bins /\ codes' = codes
      BY <1>1, <2>1 DEF LabelInv, labelVars
    <2>3. GridInv'
      BY <1>1, BestSplitKeeps
    <2>4. LabelInv'
      <3>1. CASE pc = "raw"
        BY <2>2, <3>1 DEF LabelInv
      <3>2. CASE pc = "reading"
        <4>1. Nested(bins)'
          BY <2>1, <2>2, <3>2, SameLabel DEF LabelInv
        <4>2. PICK masked \in BOOLEAN : codes = [i \in DOMAIN values |-> UnitedBits(i, masked)]
          BY <3>2 DEF LabelInv
        <4>3. codes' = [i \in DOMAIN values |-> UnitedBits(i, masked)]'
          BY <2>1, <2>2, <4>2, SameLabel
        <4>4. feature' = [i \in DOMAIN values' |-> Nearest(Double, Number(codes'[i]) * One, 1)]
          BY <2>1, <2>2, <3>2 DEF LabelInv
        <4> QED BY <2>2, <3>2, <4>1, <4>3, <4>4 DEF LabelInv
      <3> QED BY <2>2, <3>1, <3>2
    <2> QED BY <2>3, <2>4
  <1>2. CASE BinarizeLabel
    <2>1. UNCHANGED gridVars /\ done /\ pc' = "binarized"
      BY <1>2 DEF BinarizeLabel
    <2>2. PICK bs \in Lists!SetToSeqs(borders) : bins' = BinsOf(bs)
      BY <1>2 DEF BinarizeLabel
    <2>3. BinsOf(bs)' = BinsOf(bs)
      BY <1>0, <2>1 DEF BinsOf
    <2>4. \E x \in Lists!SetToSeqs(borders') : bins' = BinsOf(x)'
      BY <1>0, <2>1, <2>2, <2>3
    <2>5. Nested(bins)'
      <3>1. Nested(BinsOf(bs))
        BY <2>1, <2>2, BinsAreNested
      <3> QED BY <1>0, <2>1, <2>2, <3>1 DEF Nested
    <2>6. LabelInv'
      BY <1>0, <2>1, <2>4, <2>5 DEF LabelInv
    <2> QED BY <1>0, <2>1, <2>6
  <1>3. CASE UniteLabelBins
    <2>1. UNCHANGED gridVars /\ bins' = bins /\ pc' = "written" /\ pc = "binarized"
      BY <1>3 DEF UniteLabelBins
    <2>2. DOMAIN feature = DOMAIN values
      BY DEF GridInv, VectorInv
    <2>3. PICK masked \in BOOLEAN : codes' = [i \in DOMAIN values |-> UnitedBits(i, masked)]
      BY <1>3, <2>2 DEF UniteLabelBins, UnitedBits
    <2>4. codes' = [i \in DOMAIN values |-> UnitedBits(i, masked)]'
      BY <1>0, <2>1, <2>3, SameLabel
    <2>5. PICK bs \in Lists!SetToSeqs(borders) : bins = BinsOf(bs)
      BY <2>1 DEF LabelInv
    <2>6. BinsOf(bs)' = BinsOf(bs)
      BY <1>0, <2>1, SameLabel
    <2>7. \E x \in Lists!SetToSeqs(borders') : bins' = BinsOf(x)'
      BY <1>0, <2>1, <2>5, <2>6
    <2>8. Nested(bins)' /\ done'
      BY <1>0, <2>1, SameLabel DEF LabelInv
    <2>9. LabelInv'
      BY <2>1, <2>4, <2>7, <2>8 DEF LabelInv
    <2> QED BY <1>0, <2>1, <2>9
  <1>4. CASE ReadPool
    BY <1>4, ReadPoolKeeps
  <1>5. CASE BinarizeAgain
    <2>1. UNCHANGED gridVars /\ done /\ bins' = bins /\ codes' = codes /\ pc' = "read" /\ pc = "reading"
      BY <1>5 DEF BinarizeAgain
    <2>2. PICK bs \in Lists!SetToSeqs(borders) : bins2' = BinsOf(bs)
      BY <1>5 DEF BinarizeAgain
    <2>3. BinsOf(bs)' = BinsOf(bs)
      BY <1>0, <2>1, SameLabel
    <2>4. \E x \in Lists!SetToSeqs(borders') : bins2' = BinsOf(x)'
      BY <1>0, <2>1, <2>2, <2>3
    <2>5. PICK masked \in BOOLEAN : codes = [i \in DOMAIN values |-> UnitedBits(i, masked)]
      BY <2>1 DEF LabelInv
    <2>6. codes' = [i \in DOMAIN values |-> UnitedBits(i, masked)]'
      BY <1>0, <2>1, <2>5, SameLabel
    <2>7. feature' = [i \in DOMAIN values' |-> Nearest(Double, Number(codes'[i]) * One, 1)]
      BY <1>0, <2>1 DEF LabelInv
    <2>8. Nested(bins)' /\ done'
      BY <1>0, <2>1, SameLabel DEF LabelInv
    <2>9. LabelInv'
      BY <2>1, <2>4, <2>6, <2>7, <2>8 DEF LabelInv
    <2> QED BY <1>0, <2>1, <2>9
  <1>6. CASE UNCHANGED vars
    <2>1. UNCHANGED gridVars /\ UNCHANGED labelVars
      BY <1>6 DEF vars
    <2>2. LabelInv' <=> LabelInv
      BY <1>0, <2>1 DEF labelVars, LabelInv, Nested, UnitedBits, BinsOf
    <2> QED BY <1>0, <2>1, <2>2
  <1> QED BY <1>1, <1>2, <1>3, <1>4, <1>5, <1>6 DEF Next

\* GridInv and LabelInv are invariants of the export of a label: the values are
\* its sorted floats, the bins of medianInBin cover them, the way its loop
\* stopped and the borders of every mode are what they should be, and borders
\* are nowhere missing when -x allows enough, in both runs of the program, for
\* all vectors, all numbers of borders and all formats of numbers.
THEOREM GridInvariance == Spec => [](GridInv /\ LabelInv)
  <1>1. Init => GridInv /\ LabelInv
    BY InitGridInv DEF Init, LabelInv
  <1> QED BY <1>1, NextKeeps, PTL DEF Spec

-----------------------------------------------------------------------------
(***************************************************************************)
(* The borders of a feature.                                               *)
(***************************************************************************)

\* TFeatureBin, which only looks at the two ends of the run of the median,
\* finds the cut of the largest product whenever there is a cut.
LEMMA MedianFromGridInv == GridInv => MedianIsBest
  <1> SUFFICES ASSUME GridInv, NEW bin \in splits
               PROVE  /\ CanSplit(bin) <=> Cuts(bin.start, bin.end) # {}
                      /\ CanSplit(bin) => bin.split \in Cuts(bin.start, bin.end)
                      /\ \A p \in Cuts(bin.start, bin.end) : (p - bin.start) * (bin.end - p) <= bin.score
    BY DEF MedianIsBest
  <1>1. SortedValues
    BY VectorIsSorted DEF GridInv
  <1>2. /\ bin.start \in Nat /\ bin.end \in Nat /\ bin.start < bin.end /\ bin.end <= Size(values)
        /\ bin = FeatureBin(bin.start, bin.end)
    BY DEF GridInv, SplitInv, BinInv
  <1>3. /\ CanSplit(bin) => bin.split \in Cuts(bin.start, bin.end)
        /\ ~CanSplit(bin) => Cuts(bin.start, bin.end) = {}
        /\ \A p \in Cuts(bin.start, bin.end) : (p - bin.start) * (bin.end - p) <= bin.score
    BY <1>1, <1>2, FeatureBinFacts
  <1> QED BY <1>3

\* If the loop of BestSplit stops early, a bin on top scores as much as a pair,
\* so no bin that can still be split is larger than one.
LEMMA PairsFromGridInv == GridInv => OnlyPairsLeft
  <1> SUFFICES ASSUME GridInv, done, mode = "medianInBin", Cardinality(splits) <= bordersCount,
                      NEW bin \in splits, CanSplit(bin)
               PROVE  bin.end - bin.start = 2
    BY DEF OnlyPairsLeft
  <1>1. SortedValues
    BY VectorIsSorted DEF GridInv
  <1>2. PICK top \in splits : IsTop(top) /\ ~CanSplit(top)
    BY DEF GridInv, StopInv
  <1>3. BinInv(bin) /\ BinInv(top)
    BY DEF GridInv, SplitInv
  <1>4. top.score = 1
    BY <1>1, <1>2, <1>3, FeatureBinFacts DEF BinInv
  <1>5. bin.score <= 1
    BY <1>2, <1>4 DEF IsTop
  <1> QED BY <1>1, <1>3, <1>5, OnlyPairScoresOne

\* Against a float a number compares as its float does, unless that is the float.
LEMMA ComparesAsFloat ==
  ASSUME NEW x \in Int, NEW b \in Float.numbers, Rounded(x) # b
  PROVE  x > b <=> Rounded(x) > b
  <1>1. b \in Int /\ Rounded(x) \in Int
    BY RoundedFacts, FormatAssumption
  <1>2. (b <= x => b <= Rounded(x)) /\ (x <= b => Rounded(x) <= b)
    BY RoundedFacts
  <1> QED BY <1>1, <1>2

\* A border that is not a value separates the examples before its position from
\* those behind; a border beyond the values separates none.
LEMMA BinsFromGridInv == GridInv => BinsInformative
  <1> DEFINE held == {values[p] : p \in DOMAIN values}
             clear == borders \ held
  <1> SUFFICES ASSUME GridInv, done
               PROVE  /\ Cardinality(borders) <= bordersCount
                      /\ \A b \in clear : Bin(b) \in {{}, DOMAIN feature} => UniformOff
                      /\ \A b, c \in clear : b # c => Bin(b) # Bin(c)
                      /\ \A b \in borders \cap held :
                           \/ UniformOff
                           \/ \E v \in held \ {b} :
                                /\ \A f \in Float.numbers : ~(b < f /\ f < v) /\ ~(v < f /\ f < b)
                                /\ mode \in {"median", "medianPlusUniform"} => b < v
    BY DEF BinsInformative
  <1>1. VectorInv /\ SortedValues /\ GoodBorders(borders)
    BY VectorIsSorted DEF GridInv, BordersInv
  <1>2. PICK n \in Nat \ {0} : n = Size(values)
    BY <1>1 DEF SortedValues
  <1>3. /\ DOMAIN values = 0 .. (n - 1) /\ DOMAIN feature = 0 .. (n - 1)
        /\ \A p \in 0 .. (n - 1) : values[p] \in Int /\ feature[p] \in Int
        /\ \A p, q \in 0 .. (n - 1) : p <= q => values[p] <= values[q]
        /\ 0 \in 0 .. (n - 1) /\ n - 1 \in 0 .. (n - 1)
    <2>1. DOMAIN values = 0 .. (n - 1) /\ feature \in [DOMAIN values -> Int]
      BY <1>1, <1>2, VectorIsSorted DEF VectorInv
    <2> QED BY <1>1, <1>2, <2>1 DEF SortedValues
  <1>4. /\ \A p \in 0 .. (n - 1) : \E i \in 0 .. (n - 1) : values[p] = Rounded(feature[i])
        /\ \A i \in 0 .. (n - 1) : \E p \in 0 .. (n - 1) : values[p] = Rounded(feature[i])
    BY <1>1, <1>3 DEF VectorInv
  <1>5. \A b \in borders : b \in Float.numbers /\ b \in Int
    BY <1>1, GoodBordersAreNumbers
  <1>6. \A x : x \in held <=> \E p \in 0 .. (n - 1) : x = values[p]
    BY <1>3
  <1>7. \A b : b \in clear <=> b \in borders /\ b \notin held
    OBVIOUS
  <1> HIDE DEF held, clear
  <1>8. ASSUME NEW b \in clear, NEW i \in 0 .. (n - 1)
        PROVE  i \in Bin(b) <=> Rounded(feature[i]) > b
    <2>1. PICK p \in 0 .. (n - 1) : values[p] = Rounded(feature[i])
      BY <1>4
    <2>2. Rounded(feature[i]) # b /\ b \in Float.numbers /\ feature[i] \in Int
      BY <1>3, <1>5, <1>6, <1>7, <2>1
    <2>3. feature[i] > b <=> Rounded(feature[i]) > b
      BY <2>2, ComparesAsFloat
    <2> QED BY <1>3, <2>3 DEF Bin
  <1>9. ASSUME NEW b \in clear, NEW p \in 1 .. (n - 1), BorderAt(b, p)
        PROVE  /\ b \in Int /\ values[p - 1] < b /\ b < values[p] /\ p \in 0 .. (n - 1) /\ p - 1 \in 0 .. (n - 1)
               /\ \E i \in 0 .. (n - 1) : Rounded(feature[i]) = values[p] /\ i \in Bin(b)
               /\ \E i \in 0 .. (n - 1) : Rounded(feature[i]) = values[p - 1] /\ i \notin Bin(b)
    <2>1. p \in 0 .. (n - 1) /\ p - 1 \in 0 .. (n - 1)
      OBVIOUS
    <2>2. b \in Int /\ values[p - 1] <= b /\ b <= values[p] /\ values[p - 1] \in Int /\ values[p] \in Int
      BY <1>1, <1>9, BorderBetween
    <2>3. b # values[p - 1] /\ b # values[p]
      BY <1>6, <1>7, <2>1
    <2>4. values[p - 1] < b /\ b < values[p]
      BY <2>2, <2>3
    <2>5. PICK i \in 0 .. (n - 1) : values[p] = Rounded(feature[i])
      BY <1>4, <2>1
    <2>6. PICK j \in 0 .. (n - 1) : values[p - 1] = Rounded(feature[j])
      BY <1>4, <2>1
    <2>7. i \in Bin(b)
      BY <1>8, <2>2, <2>4, <2>5
    <2>8. j \notin Bin(b)
      BY <1>8, <2>2, <2>4, <2>6
    <2> QED BY <2>1, <2>2, <2>4, <2>5, <2>6, <2>7, <2>8
  <1>10. \A b : Bin(b) \subseteq 0 .. (n - 1)
    BY <1>3 DEF Bin
  <1>11. ASSUME NEW b \in clear
         PROVE  Beyond(b) \/ \E p \in 1 .. (n - 1) : BorderAt(b, p)
    BY <1>1, <1>2, <1>7 DEF GoodBorders
  <1>12. ASSUME NEW b \in clear, Bin(b) \in {{}, DOMAIN feature}
         PROVE  UniformOff
    <2>1. ~(\E p \in 1 .. (n - 1) : BorderAt(b, p))
      BY <1>3, <1>9, <1>12
    <2> QED BY <1>11, <2>1 DEF Beyond
  <1>13. ASSUME NEW b \in clear, Beyond(b)
         PROVE  \/ b = AlwaysTrue(values) /\ Bin(b) = 0 .. (n - 1)
                \/ b = AlwaysFalse(values) /\ Bin(b) = {}
    <2>1. values[0] \in NormalFloats /\ Back(values) \in NormalFloats /\ Back(values) = values[n - 1]
      BY <1>1, <1>2, <1>3 DEF VectorInv, Back
    <2>2. AlwaysTrue(values) \in Int /\ AlwaysTrue(values) <= values[0]
      BY <2>1, BordersBeyond
    <2>3. AlwaysFalse(values) \in Int /\ values[n - 1] <= AlwaysFalse(values)
      BY <2>1, BordersBeyond
    <2>4. b # values[0] /\ b # values[n - 1]
      BY <1>3, <1>6, <1>7
    <2>5. CASE b = AlwaysTrue(values)
      <3>1. ASSUME NEW i \in 0 .. (n - 1)
            PROVE  i \in Bin(b)
        <4>1. PICK p \in 0 .. (n - 1) : values[p] = Rounded(feature[i])
          BY <1>4
        <4>2. values[0] <= values[p] /\ values[p] \in Int /\ values[0] \in Int
          BY <1>3
        <4>3. values[p] > b
          BY <2>2, <2>4, <2>5, <4>2
        <4> QED BY <1>8, <4>1, <4>3
      <3> QED BY <1>10, <2>5, <3>1
    <2>6. CASE b = AlwaysFalse(values)
      <3>1. ASSUME NEW i \in 0 .. (n - 1)
            PROVE  i \notin Bin(b)
        <4>1. PICK p \in 0 .. (n - 1) : values[p] = Rounded(feature[i])
          BY <1>4
        <4>2. values[p] <= values[n - 1] /\ values[p] \in Int /\ values[n - 1] \in Int
          <5>1. p <= n - 1
            OBVIOUS
          <5> QED BY <1>3, <5>1
        <4>3. ~(values[p] > b)
          BY <2>3, <2>6, <4>2
        <4> QED BY <1>8, <4>1, <4>3
      <3> QED BY <1>10, <2>6, <3>1
    <2> QED BY <1>13, <2>5, <2>6 DEF Beyond
  <1>14. ASSUME NEW b \in clear, NEW c \in clear, Bin(b) = Bin(c)
         PROVE  b = c
    <2>1. CASE Beyond(b) /\ Beyond(c)
      <3>1. {} # 0 .. (n - 1)
        BY <1>3
      <3> QED BY <1>13, <1>14, <2>1, <3>1
    <2>2. CASE (\E p \in 1 .. (n - 1) : BorderAt(b, p)) /\ (\E r \in 1 .. (n - 1) : BorderAt(c, r))
      <3>1. PICK p \in 1 .. (n - 1), r \in 1 .. (n - 1) : BorderAt(b, p) /\ BorderAt(c, r)
        BY <2>2
      <3>2. /\ b \in Int /\ values[p - 1] < b /\ b < values[p] /\ p \in 0 .. (n - 1) /\ p - 1 \in 0 .. (n - 1)
            /\ c \in Int /\ values[r - 1] < c /\ c < values[r] /\ r \in 0 .. (n - 1) /\ r - 1 \in 0 .. (n - 1)
        BY <1>9, <3>1
      <3>3. ~(p < r)
        <4> SUFFICES ASSUME p < r PROVE FALSE
          OBVIOUS
        <4>1. PICK i \in 0 .. (n - 1) : Rounded(feature[i]) = values[p] /\ i \in Bin(b)
          BY <1>9, <3>1
        <4>2. p <= r - 1
          OBVIOUS
        <4>3. values[p] <= values[r - 1] /\ values[p] \in Int /\ values[r - 1] \in Int
          BY <1>3, <3>2, <4>2
        <4>4. ~(Rounded(feature[i]) > c)
          BY <3>2, <4>1, <4>3
        <4> QED BY <1>8, <1>14, <4>1, <4>4
      <3>4. ~(r < p)
        <4> SUFFICES ASSUME r < p PROVE FALSE
          OBVIOUS
        <4>1. PICK i \in 0 .. (n - 1) : Rounded(feature[i]) = values[r] /\ i \in Bin(c)
          BY <1>9, <3>1
        <4>2. r <= p - 1
          OBVIOUS
        <4>3. values[r] <= values[p - 1] /\ values[r] \in Int /\ values[p - 1] \in Int
          BY <1>3, <3>2, <4>2
        <4>4. ~(Rounded(feature[i]) > b)
          BY <3>2, <4>1, <4>3
        <4> QED BY <1>8, <1>14, <4>1, <4>4
      <3>5. p = r
        BY <3>3, <3>4
      <3>6. b = Mean(values[p - 1], values[p]) /\ c = Mean(values[p - 1], values[p])
        BY <3>1, <3>2, <3>5 DEF BorderAt
      <3> QED BY <3>6
    <2>3. ASSUME NEW x \in clear, NEW y \in clear, Bin(x) = Bin(y), Beyond(x), NEW p \in 1 .. (n - 1), BorderAt(y, p)
          PROVE  FALSE
      BY <1>9, <1>13, <2>3
    <2> QED BY <1>11, <1>14, <2>1, <2>2, <2>3
  <1>15. ASSUME NEW b \in borders, b \in held, ~UniformOff
         PROVE  \E v \in held \ {b} :
                  /\ \A f \in Float.numbers : ~(b < f /\ f < v) /\ ~(v < f /\ f < b)
                  /\ mode \in {"median", "medianPlusUniform"} => b < v
    <2>1. PICK p \in 1 .. (n - 1) : BorderAt(b, p)
      BY <1>1, <1>2, <1>15 DEF GoodBorders, Beyond
    <2>2. p \in 0 .. (n - 1) /\ p - 1 \in 0 .. (n - 1)
      OBVIOUS
    <2>3. /\ values[p - 1] \in Int /\ values[p] \in Int /\ values[p - 1] < values[p]
          /\ b \in Int /\ values[p - 1] <= b /\ b <= values[p]
          /\ b \in {values[p - 1], values[p]} => \A f \in Float.numbers : ~(values[p - 1] < f /\ f < values[p])
      BY <1>1, <2>1, BorderBetween
    <2>4. b \in {values[p - 1], values[p]}
      <3>1. PICK q \in 0 .. (n - 1) : b = values[q]
        BY <1>6, <1>15
      <3>2. q <= p - 1 => values[q] <= values[p - 1]
        BY <1>3, <2>2
      <3>3. q >= p => values[q] >= values[p]
        BY <1>3, <2>2
      <3>4. q <= p - 1 \/ q >= p
        OBVIOUS
      <3> QED BY <2>3, <3>1, <3>2, <3>3, <3>4
    <2>5. values[p - 1] \in held /\ values[p] \in held /\ values[p - 1] # values[p]
      BY <1>6, <2>2, <2>3
    <2>6. \A f \in Float.numbers : f \in Int /\ ~(values[p - 1] < f /\ f < values[p])
      BY <2>3, <2>4, FormatAssumption
    <2>7. CASE b = values[p - 1]
      <3>1. \A f \in Float.numbers : ~(b < f /\ f < values[p]) /\ ~(values[p] < f /\ f < b)
        BY <2>3, <2>6, <2>7
      <3> QED BY <2>3, <2>5, <2>7, <3>1
    <2>8. CASE b = values[p]
      <3>1. \A f \in Float.numbers : ~(b < f /\ f < values[p - 1]) /\ ~(values[p - 1] < f /\ f < b)
        BY <2>3, <2>6, <2>8
      <3>2. mode \notin {"median", "medianPlusUniform"}
        BY <2>1, <2>8 DEF BorderAt
      <3> QED BY <2>5, <2>8, <3>1, <3>2
    <2> QED BY <2>4, <2>7, <2>8
  <1> QED BY <1>1, <1>12, <1>14, <1>15 DEF GoodBorders

\* Looking only at the two ends of the run of the median (TFeatureBin) is
\* enough, whatever the values.
THEOREM MedianFindsBestCut == Spec => []MedianIsBest
  BY GridInvariance, MedianFromGridInv, PTL

\* The loop of medianInBin may stop with fewer borders than asked for, but then
\* every bin that can still be split is a pair.
THEOREM EarlyStopLeavesPairs == Spec => []OnlyPairsLeft
  BY GridInvariance, PairsFromGridInv, PTL

\* In every mode each border of a feature (BestSplit) is worth its bin, and
\* there are no more of them than -x allows, unless a border at equal distances
\* was rounded to the first value or beyond the last.
THEOREM BordersAreWorthTheirBins == Spec => []BinsInformative
  BY GridInvariance, BinsFromGridInv, PTL

-----------------------------------------------------------------------------
(***************************************************************************)
(* The order of the label, and its way back.                               *)
(***************************************************************************)

\* UniteLabelBins keeps the order of the label, whatever the order in which
\* the hash set lists the borders, as long as an int has a bit for every bin:
\* the bit at the sign, which is extended, included.
THEOREM LabelOrderIsSaved == Spec => []RelativeOrderSavedInInt
  <1>1. GridInv /\ LabelInv => RelativeOrderSavedInInt
    <2> SUFFICES ASSUME GridInv, LabelInv, pc = "written", Len(bins) <= IntWidth,
                        NEW i \in DOMAIN feature, NEW j \in DOMAIN feature
                 PROVE  /\ Above(feature[i]) = Above(feature[j]) => codes[i] = codes[j]
                        /\ Above(feature[i]) # Above(feature[j]) /\ feature[i] < feature[j] =>
                             Number(codes[i]) < Number(codes[j])
      BY DEF RelativeOrderSavedInInt
    <2>1. VectorInv /\ GoodBorders(borders) /\ Nested(bins)
      BY DEF GridInv, LabelInv, BordersInv
    <2>2. i \in DOMAIN values /\ j \in DOMAIN values /\ feature[i] \in Int /\ feature[j] \in Int
      BY <2>1 DEF VectorInv
    <2>3. PICK bs \in Lists!SetToSeqs(borders) : bins = BinsOf(bs)
      BY DEF LabelInv
    <2>4. PICK masked \in BOOLEAN : codes = [x \in DOMAIN values |-> UnitedBits(x, masked)]
      BY DEF LabelInv
    <2>5. /\ feature[i] <= feature[j] => \A k \in DOMAIN bins : bins[k][i] => bins[k][j]
          /\ Above(feature[i]) = Above(feature[j]) <=> \A k \in DOMAIN bins : bins[k][i] <=> bins[k][j]
      BY <2>1, <2>2, <2>3, BinsOfFacts
    <2>6. codes[j] \in SUBSET (0 .. (WordSize - 1)) /\ (Above(feature[i]) = Above(feature[j]) => codes[i] = codes[j])
      BY <2>1, <2>2, <2>4, <2>5, CodesAreWords
    <2>7. ASSUME Above(feature[i]) # Above(feature[j]), feature[i] < feature[j]
          PROVE  Number(codes[i]) < Number(codes[j])
      <3>1. codes[i] \subseteq codes[j] /\ codes[i] # codes[j]
        BY <2>1, <2>2, <2>4, <2>5, <2>7, CodesNested
      <3> QED BY <2>6, <3>1, NumberGrows
    <2> QED BY <2>6, <2>7
  <1> QED BY <1>1, GridInvariance, PTL

\* A whole number that a float has is read as it was written.
LEMMA WholeNumberIsExact ==
  ASSUME NEW m \in Nat, m < Exact
  PROVE  m * One \in Int /\ m * One \in Float.numbers /\ Nearest(Double, m * One, 1) = m * One /\ Rounded(m * One) = m * One
  <1>1. PICK x \in Int : x = m * One /\ x \in Float.numbers
    <2>1. m \in 0 .. (Exact - 1) /\ m * One \in Int
      BY WidthAssumption, FormatAssumption
    <2> QED BY <2>1, WidthAssumption
  <1>2. Double.numbers \subseteq Int /\ x \in Double.numbers /\ Double.numbers # {}
    BY <1>1, FormatAssumption
  <1>3. PICK d : d = Nearest(Double, x, 1)
    OBVIOUS
  <1>4. /\ d \in Double.numbers
        /\ \A f \in Double.numbers : f * 1 <= x => f <= d
        /\ \A f \in Double.numbers : x <= f * 1 => d <= f
    BY <1>2, <1>3, NearestFacts
  <1>5. d = x
    BY <1>2, <1>4
  <1>6. Rounded(x) = x
    BY <1>1, RoundedFacts
  <1> QED BY <1>1, <1>3, <1>5, <1>6

\* Between two whole numbers that are nested as sets of bits neither mean is
\* rounded to the larger one: another whole number lies between them, or the
\* smaller one is even.
LEMMA MeanOfWholeNumbers ==
  ASSUME NEW S, NEW T \in SUBSET (0 .. (WordSize - 1)), S \subseteq T, S # T, Number(T) < Exact,
         Number(S) * One \in NormalFloats, Number(T) * One \in NormalFloats
  PROVE  Mean(Number(S) * One, Number(T) * One) # Number(T) * One
  <1>1. PICK m \in Nat, k \in Nat : m = Number(S) /\ k = Number(T) /\ m < k /\ k < Exact
    BY NumberGrows
  <1>2. One \in Nat \ {0} /\ Exact \in Nat
    BY FormatAssumption, WidthAssumption
  <1>3. PICK x \in NormalFloats, y \in NormalFloats : x = m * One /\ y = k * One /\ x \in Int /\ y \in Int /\ x < y
    <2>1. m * One < k * One /\ m * One \in Int /\ k * One \in Int
      BY <1>1, <1>2, ProductGrows
    <2> QED BY <1>1, <2>1
  <1>4. PICK z : z = Mean(x, y) /\ z \in {Midpoint(x, y), SumOfHalves(x, y)}
    BY DEF Mean
  <1>5. z \in {x, y} => \A f \in Float.numbers : ~(x < f /\ f < y)
    BY <1>3, <1>4, MeanBetween
  <1> SUFFICES ASSUME z = y PROVE FALSE
    BY <1>1, <1>3, <1>4
  <1>6. CASE k = m + 1
    <2>1. m % 2 = 0
      BY <1>1, <1>6, NumberIsEven
    <2>2. m \in 0 .. (Exact - 1) /\ m + 1 < Exact
      BY <1>1, <1>2, <1>6
    <2>3. (m + 1) * One \notin {Midpoint(m * One, (m + 1) * One), SumOfHalves(m * One, (m + 1) * One)}
      BY <2>1, <2>2, WidthAssumption
    <2> QED BY <1>3, <1>4, <1>6, <2>3
  <1>7. CASE k # m + 1
    <2>1. m + 1 \in Nat /\ m < m + 1 /\ m + 1 < k /\ m + 1 < Exact
      BY <1>1, <1>2, <1>7
    <2>2. m * One < (m + 1) * One /\ (m + 1) * One < k * One
      BY <1>2, <2>1, ProductGrows
    <2>3. (m + 1) * One \in Float.numbers
      BY <2>1, WholeNumberIsExact
    <2> QED BY <1>3, <1>5, <2>2, <2>3
  <1> QED BY <1>6, <1>7

\* With enough borders, two examples with different numbers in the file, which
\* all are numbers a float has, are told apart in the second run.
LEMMA ClassesToldApart ==
  ASSUME GridInv, LabelInv, pc = "read", Len(bins) <= IntWidth, EnoughBorders,
         \A k \in DOMAIN codes : Number(codes[k]) < Exact,
         NEW i \in DOMAIN values, NEW j \in DOMAIN values,
         \A k \in DOMAIN bins : bins[k][i] => bins[k][j],
         ~(\A k \in DOMAIN bins : bins[k][i] <=> bins[k][j])
  PROVE  Above(feature[i]) # Above(feature[j])
  <1>1. VectorInv /\ SortedValues /\ GoodBorders(borders) /\ CompleteBorders(borders) /\ Nested(bins)
    BY VectorIsSorted DEF GridInv, LabelInv, BordersInv
  <1>2. PICK n \in Nat \ {0} : n = Size(values) /\ DOMAIN values = 0 .. (n - 1)
    BY <1>1, VectorIsSorted DEF SortedValues
  <1>3. PICK masked \in BOOLEAN : codes = [x \in DOMAIN values |-> UnitedBits(x, masked)]
    BY DEF LabelInv
  <1>4. DOMAIN codes = DOMAIN values /\ \A l \in DOMAIN values : codes[l] \in SUBSET (0 .. (WordSize - 1))
    BY <1>1, <1>3, CodesAreWords
  <1>5. ASSUME NEW l \in DOMAIN values
        PROVE  /\ Number(codes[l]) \in Nat /\ Number(codes[l]) < Exact
               /\ feature[l] = Number(codes[l]) * One /\ feature[l] \in Int /\ Rounded(feature[l]) = feature[l]
    <2>1. Number(codes[l]) \in Nat /\ Number(codes[l]) < Exact
      BY <1>4, NumberAsDouble
    <2>2. feature[l] = Nearest(Double, Number(codes[l]) * One, 1)
      BY DEF LabelInv
    <2> QED BY <2>1, <2>2, WholeNumberIsExact
  <1>6. /\ \A p \in 0 .. (n - 1) : \E l \in 0 .. (n - 1) : values[p] = feature[l]
        /\ \A l \in 0 .. (n - 1) : \E p \in 0 .. (n - 1) : values[p] = feature[l]
    <2>1. /\ \A p \in 0 .. (n - 1) : \E l \in 0 .. (n - 1) : values[p] = Rounded(feature[l])
          /\ \A l \in 0 .. (n - 1) : \E p \in 0 .. (n - 1) : values[p] = Rounded(feature[l])
      BY <1>1, <1>2 DEF VectorInv
    <2>2. \A l \in 0 .. (n - 1) : Rounded(feature[l]) = feature[l]
      BY <1>2, <1>5
    <2> QED BY <2>1, <2>2, Zenon
  <1>7. /\ \A p \in 0 .. (n - 1) : values[p] \in Int /\ values[p] \in NormalFloats
        /\ \A p, q \in 0 .. (n - 1) : p <= q => values[p] <= values[q]
        /\ 0 \in 0 .. (n - 1) /\ n - 1 \in 0 .. (n - 1)
    <2>1. \A p \in 0 .. (n - 1) : values[p] \in NormalFloats
      BY <1>1, <1>2 DEF VectorInv
    <2>2. /\ \A p \in 0 .. (n - 1) : values[p] \in Int
          /\ \A p, q \in 0 .. (n - 1) : p <= q => values[p] <= values[q]
      BY <1>1, <1>2 DEF SortedValues
    <2>3. 0 \in 0 .. (n - 1) /\ n - 1 \in 0 .. (n - 1)
      OBVIOUS
    <2> QED BY <2>1, <2>2, <2>3
  <1>8. codes[i] \subseteq codes[j] /\ codes[i] # codes[j]
    BY <1>1, <1>3, CodesNested
  <1>9. One \in Nat \ {0}
    BY FormatAssumption
  <1>10. feature[i] < feature[j]
    <2>1. Number(codes[i]) < Number(codes[j])
      BY <1>4, <1>8, NumberGrows
    <2> QED BY <1>5, <1>9, <2>1, ProductGrows
  <1>11. PICK x \in Int, y \in Int : x = feature[i] /\ y = feature[j] /\ x < y
    BY <1>5, <1>10
  <1>12. PICK r \in 0 .. (n - 1), q \in 0 .. (n - 1) : values[r] = x /\ values[q] = y
    <2>1. i \in 0 .. (n - 1) /\ j \in 0 .. (n - 1)
      BY <1>2
    <2>2. PICK r \in 0 .. (n - 1) : values[r] = feature[i]
      BY <1>6, <2>1, Zenon
    <2>3. PICK q \in 0 .. (n - 1) : values[q] = feature[j]
      BY <1>6, <2>1, Zenon
    <2> QED BY <1>11, <2>2, <2>3
  <1>13. values[0] < y /\ y <= values[n - 1]
    <2>1. values[0] <= values[r]
      BY <1>7
    <2>2. q <= n - 1
      OBVIOUS
    <2>3. values[q] <= values[n - 1]
      BY <1>7, <2>2
    <2> QED BY <1>7, <1>11, <1>12, <2>1, <2>3
  <1>14. PICK p \in 1 .. (n - 1) : GrowsAt(p) /\ values[p] >= y /\ \A t \in 0 .. (p - 1) : values[t] < y
    BY <1>1, <1>2, <1>13, PositionGrows
  <1>15. p \in 0 .. (n - 1) /\ p - 1 \in 0 .. (n - 1)
    OBVIOUS
  <1>16. values[p] = y
    <2>1. q >= p
      <3> SUFFICES ASSUME q < p PROVE FALSE
        OBVIOUS
      <3>1. q \in 0 .. (p - 1)
        OBVIOUS
      <3> QED BY <1>11, <1>12, <1>14, <3>1
    <2>2. values[p] <= values[q]
      BY <1>7, <1>15, <2>1
    <2> QED BY <1>7, <1>12, <1>14, <1>15, <2>2
  <1>17. x <= values[p - 1]
    <2>1. r <= p - 1
      <3> SUFFICES ASSUME p <= r PROVE FALSE
        OBVIOUS
      <3>1. values[p] <= values[r]
        BY <1>7, <1>15
      <3> QED BY <1>11, <1>12, <1>16, <3>1
    <2>2. values[r] <= values[p - 1]
      BY <1>7, <1>15, <2>1
    <2> QED BY <1>12, <2>2
  <1>18. PICK l \in 0 .. (n - 1) : values[p - 1] = feature[l]
    BY <1>6, <1>15
  <1>19. values[p - 1] < values[p]
    BY <1>14 DEF GrowsAt
  <1>20. codes[l] \subseteq codes[j] /\ codes[l] # codes[j]
    <2>1. PICK a \in Nat, b \in Nat : /\ a = Number(codes[l]) /\ b = Number(codes[j])
                                      /\ feature[l] = a * One /\ feature[j] = b * One
      BY <1>2, <1>5
    <2>2. a < b
      <3> SUFFICES ASSUME b <= a PROVE FALSE
        OBVIOUS
      <3>1. b = a \/ b * One < a * One
        BY <1>9, ProductGrows
      <3>2. a * One < b * One /\ a * One \in Int /\ b * One \in Int
        BY <1>9, <1>11, <1>16, <1>18, <1>19, <2>1
      <3> QED BY <3>1, <3>2
    <2>3. ~(\A k \in DOMAIN bins : bins[k][l] <=> bins[k][j])
      <3>1. codes[l] # codes[j]
        BY <2>1, <2>2
      <3> QED BY <1>1, <1>2, <1>3, <3>1, CodesAreWords
    <2>4. CASE \A k \in DOMAIN bins : bins[k][l] => bins[k][j]
      BY <1>1, <1>2, <1>3, <2>3, <2>4, CodesNested
    <2>5. CASE \A k \in DOMAIN bins : bins[k][j] => bins[k][l]
      <3>1. codes[j] \subseteq codes[l] /\ codes[j] # codes[l]
        BY <1>1, <1>2, <1>3, <2>3, <2>5, CodesNested
      <3>2. Number(codes[j]) < Number(codes[l])
        BY <1>2, <1>4, <3>1, NumberGrows
      <3> QED BY <2>1, <2>2, <3>2
    <2> QED BY <1>1, <1>2, <2>4, <2>5 DEF Nested
  <1>21. Mean(values[p - 1], values[p]) # values[p]
    <2>1. /\ values[p - 1] = Number(codes[l]) * One /\ values[p] = Number(codes[j]) * One
          /\ codes[j] \in SUBSET (0 .. (WordSize - 1)) /\ Number(codes[j]) < Exact
      BY <1>2, <1>4, <1>5, <1>11, <1>16, <1>18
    <2>2. values[p - 1] \in NormalFloats /\ values[p] \in NormalFloats
      BY <1>7, <1>15
    <2>3. Mean(Number(codes[l]) * One, Number(codes[j]) * One) # Number(codes[j]) * One
      BY <1>20, <2>1, <2>2, MeanOfWholeNumbers
    <2> QED BY <2>1, <2>3
  <1>22. PICK b \in borders : BorderAt(b, p)
    BY <1>1, <1>2, <1>14 DEF CompleteBorders
  <1>23. b \in Int /\ values[p - 1] <= b /\ b <= values[p] /\ values[p - 1] \in Int /\ values[p] \in Int
    BY <1>1, <1>22, BorderBetween
  <1>24. b # values[p]
    BY <1>19, <1>21, <1>22, <1>23 DEF BorderAt
  <1>25. feature[j] > b /\ ~(feature[i] > b)
    BY <1>11, <1>16, <1>17, <1>23, <1>24
  <1> QED BY <1>25 DEF Above

\* A label comes back from the file with the classes it had: the second run
\* (ReadPool, BestSplit, BinarizeFeature), with its own mode and its own -x,
\* never splits one, and joins none if -x allows enough borders, an int has a
\* bit for every bin and a float has all numbers of the file.
THEOREM LabelComesBack == Spec => []LabelReadBack
  <1>1. GridInv /\ LabelInv => LabelReadBack
    <2> SUFFICES ASSUME GridInv, LabelInv, pc = "read", NEW i \in DOMAIN codes, NEW j \in DOMAIN codes
                 PROVE  /\ SameBins(bins, i, j) => SameBins(bins2, i, j)
                        /\ /\ Len(bins) <= IntWidth /\ EnoughBorders
                           /\ \A k \in DOMAIN codes : Number(codes[k]) < Exact
                           /\ SameBins(bins2, i, j)
                           => SameBins(bins, i, j)
      BY DEF LabelReadBack
    <2>1. VectorInv /\ GoodBorders(borders) /\ Nested(bins)
      BY DEF GridInv, LabelInv, BordersInv
    <2>2. PICK masked \in BOOLEAN : codes = [x \in DOMAIN values |-> UnitedBits(x, masked)]
      BY DEF LabelInv
    <2>3. i \in DOMAIN values /\ j \in DOMAIN values
      BY <2>2
    <2>4. PICK bs \in Lists!SetToSeqs(borders) : bins2 = BinsOf(bs)
      BY DEF LabelInv
    <2>5. /\ \A k \in DOMAIN bins2 : bins2[k][i] \in BOOLEAN /\ bins2[k][j] \in BOOLEAN
          /\ Above(feature[i]) = Above(feature[j]) <=> \A k \in DOMAIN bins2 : bins2[k][i] <=> bins2[k][j]
      BY <2>1, <2>3, <2>4, BinsOfFacts
    <2>6. \A k \in DOMAIN bins : bins[k][i] \in BOOLEAN /\ bins[k][j] \in BOOLEAN
      BY <2>1, <2>3 DEF Nested
    <2>7. SameBins(bins, i, j) <=> \A k \in DOMAIN bins : bins[k][i] <=> bins[k][j]
      BY <2>6, Zenon DEF SameBins
    <2>8. SameBins(bins2, i, j) <=> Above(feature[i]) = Above(feature[j])
      BY <2>5, Zenon DEF SameBins
    <2>9. ASSUME SameBins(bins, i, j)
          PROVE  SameBins(bins2, i, j)
      <3>1. codes[i] = codes[j]
        BY <2>1, <2>2, <2>3, <2>7, <2>9, CodesAreWords
      <3>2. feature[i] = feature[j]
        BY <2>3, <3>1 DEF LabelInv
      <3> QED BY <2>8, <3>2
    <2>10. ASSUME Len(bins) <= IntWidth, EnoughBorders, \A k \in DOMAIN codes : Number(codes[k]) < Exact,
                  ~SameBins(bins, i, j)
           PROVE  ~SameBins(bins2, i, j)
      <3>1. CASE \A k \in DOMAIN bins : bins[k][i] => bins[k][j]
        BY <2>3, <2>7, <2>8, <2>10, <3>1, ClassesToldApart
      <3>2. CASE \A k \in DOMAIN bins : bins[k][j] => bins[k][i]
        <4>1. Above(feature[j]) # Above(feature[i])
          BY <2>3, <2>7, <2>10, <3>2, ClassesToldApart
        <4> QED BY <2>8, <4>1
      <3> QED BY <2>1, <2>3, <3>1, <3>2 DEF Nested
    <2> QED BY <2>9, <2>10
  <1> QED BY <1>1, GridInvariance, PTL

=============================================================================
