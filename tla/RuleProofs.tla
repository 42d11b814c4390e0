------------------------------ MODULE RuleProofs ------------------------------
(***************************************************************************)
(* What the analyzer's functions compute, for every input: sums, the least-*)
(* squares projection, the depth of a blocking chain, and that no rule     *)
(* judges a worse input more mildly.                                       *)
(*                                                                         *)
(* A claim about all n is proved by contradiction from the least n that    *)
(* violates it: Least is the only fact about the order of Nat that is used.*)
(***************************************************************************)
EXTENDS ThresholdRules, FiniteSetTheorems, WellFoundedInduction, TLAPS

(* Every set of naturals that is not empty has a least one.                  *)
LEMMA Least ==
  ASSUME NEW T \in SUBSET Nat, T # {}
  PROVE  \E n \in T : \A m \in T : n <= m
<1> DEFINE R == OpToRel(<, Nat)
<1>1. IsWellFoundedOn(R, Nat)
  BY NatLessThanWellFounded
<1>2. \A m, n \in Nat : m < n => <<m, n>> \in R
  BY DEF OpToRel
<1> HIDE DEF R
<1>3. PICK n \in T : \A m \in T : <<m, n>> \notin R
  BY <1>1, WFMin
<1>4. \A m \in T : ~(m < n)
  BY <1>2, <1>3, Zenon
<1>5. QED
  BY <1>4

-----------------------------------------------------------------------------
(* Sums.                                                                     *)

(* f holds the sums of the first 0, 1, .. n elements of s.                   *)
PartialSums(f, s, n) ==
  /\ f \in [0..n -> Int]
  /\ f[0] = 0 /\ \A m \in 1..n : f[m] = f[m-1] + s[m]

LEMMA PartialSumsExist ==
  ASSUME NEW s \in Seq(Int)
  PROVE  \E f : PartialSums(f, s, Len(s))
<1> DEFINE Missing == {n \in 0..Len(s) : ~\E f : PartialSums(f, s, n)}
<1>1. SUFFICES Missing = {}
  BY Len(s) \in 0..Len(s)
<1>2. SUFFICES ASSUME NEW n \in Missing, \A m \in Missing : n <= m
               PROVE  FALSE
  BY Least, Missing \in SUBSET Nat
<1>3. n # 0
  <2>1. PartialSums([m \in 0..0 |-> 0], s, 0)
    BY DEF PartialSums
  <2>2. QED
    BY <2>1
<1>4. PICK f : PartialSums(f, s, n-1)
  BY <1>2, <1>3
<1> DEFINE g == [m \in 0..n |-> IF m = n THEN f[n-1] + s[n] ELSE f[m]]
<1>5. PartialSums(g, s, n)
  BY <1>3, <1>4 DEF PartialSums
<1>6. QED
  BY <1>5

(* SumOf is the last of the partial sums.                                    *)
LEMMA SumOfPartial ==
  ASSUME NEW s \in Seq(Int)
  PROVE  \E f : PartialSums(f, s, Len(s)) /\ SumOf(s) = f[Len(s)]
<1> DEFINE Body(f) == [n \in 0..Len(s) |-> IF n = 0 THEN 0 ELSE f[n-1] + s[n]]
           sums == CHOOSE f : f = Body(f)
<1>1. PICK f : PartialSums(f, s, Len(s))
  BY PartialSumsExist
<1>2. f = Body(f)
  BY <1>1 DEF PartialSums
<1>3. sums = Body(sums)
  BY <1>2
<1>4. SumOf(s) = sums[Len(s)]
  BY DEF SumOf
<1> HIDE DEF sums
<1>5. sums = [n \in 0..Len(s) |-> IF n = 0 THEN 0 ELSE sums[n-1] + s[n]]
  BY <1>3
<1> HIDE DEF Body
<1>6. sums[0] = 0 /\ \A n \in 1..Len(s) : sums[n] = sums[n-1] + s[n]
  <2>1. Len(s) \in Nat
    OBVIOUS
  <2>2. \A n \in 0..Len(s) : sums[n] = IF n = 0 THEN 0 ELSE sums[n-1] + s[n]
    BY <1>5, Zenon
  <2>3. QED
    BY <2>1, <2>2
<1> DEFINE Other == {n \in 0..Len(s) : sums[n] \notin Int}
<1>7. Other = {}
  <2>1. SUFFICES ASSUME NEW n \in Other, \A m \in Other : n <= m
                 PROVE  FALSE
    BY Least, Other \in SUBSET Nat
  <2>2. n # 0 /\ n-1 \in 0..Len(s) /\ n-1 \notin Other
    BY <1>6, <2>1
  <2>3. QED
    BY <1>6, <2>1, <2>2
<1>8. PartialSums(sums, s, Len(s))
  BY <1>5, <1>6, <1>7 DEF PartialSums
<1>9. QED
  BY <1>4, <1>8

LEMMA SumType ==
  ASSUME NEW s \in Seq(Int)
  PROVE  SumOf(s) \in Int
BY SumOfPartial DEF PartialSums

(* A sum does not fall when none of its terms does.                          *)
LEMMA SumMonotone ==
  ASSUME NEW s \in Seq(Int), NEW t \in Seq(Int), Len(s) = Len(t), \A n \in 1..Len(s) : s[n] <= t[n]
  PROVE  SumOf(s) <= SumOf(t)
<1>1. PICK f : PartialSums(f, s, Len(s)) /\ SumOf(s) = f[Len(s)]
  BY SumOfPartial
<1>2. PICK g : PartialSums(g, t, Len(t)) /\ SumOf(t) = g[Len(t)]
  BY SumOfPartial
<1> DEFINE Ahead == {n \in 0..Len(s) : ~(f[n] <= g[n])}
<1>3. Ahead = {}
  <2>1. SUFFICES ASSUME NEW n \in Ahead, \A m \in Ahead : n <= m
                 PROVE  FALSE
    BY Least, Ahead \in SUBSET Nat
  <2>2. n # 0 /\ n-1 \in 0..Len(s) /\ n-1 \notin Ahead
    BY <1>1, <1>2, <2>1 DEF PartialSums
  <2>3. f[n] = f[n-1] + s[n] /\ g[n] = g[n-1] + t[n]
    BY <1>1, <1>2, <2>2 DEF PartialSums
  <2>4. f[n-1] \in Int /\ g[n-1] \in Int
    BY <1>1, <1>2, <2>2 DEF PartialSums
  <2>5. f[n-1] <= g[n-1]
    BY <2>2
  <2>6. n \in 1..Len(s) /\ s[n] \in Int /\ t[n] \in Int /\ s[n] <= t[n]
    BY <2>2
  <2>7. QED
    BY <2>3, <2>4, <2>5, <2>6
<1>4. QED
  BY <1>1, <1>2, <1>3
-----------------------------------------------------------------------------
(* The least-squares slope.                                                  *)

Days(points) == [n \in DOMAIN points |-> points[n].day]
Useds(points) == [n \in DOMAIN points |-> points[n].used]

LEMMA SlopeDef ==
  ASSUME NEW points
  PROVE  LET x == Days(points)  y == Useds(points)  n == Len(points)
         IN  /\ Slope(points).num = n * SumOf(Product(x, y)) - SumOf(x) * SumOf(y)
             /\ Slope(points).den = n * SumOf(Product(x, x)) - SumOf(x) * SumOf(x)
BY DEF Slope, Days, Useds

LEMMA SeqType ==
  ASSUME NEW S, NEW s \in Seq(S)
  PROVE  Len(s) \in Nat /\ DOMAIN s = 1..Len(s) /\ \A i \in 1..Len(s) : s[i] \in S
OBVIOUS

LEMMA IntSeq ==
  ASSUME NEW n \in Nat, NEW s \in [1..n -> Int]
  PROVE  s \in Seq(Int) /\ Len(s) = n
OBVIOUS

LEMMA SeriesType ==
  ASSUME NEW points, PointsType(points)
  PROVE  LET x == Days(points)  y == Useds(points)  n == Len(points)
         IN  /\ n \in Nat /\ n >= 1 /\ DOMAIN points = 1..n
             /\ x \in [1..n -> Int] /\ y \in [1..n -> Int]
             /\ \A i \in 1..n : x[i] = points[i].day /\ y[i] = points[i].used
             /\ \A i \in 1..n-1 : x[i] < x[i+1]
<1> DEFINE n == Len(points)
<1>1. n \in Nat /\ n >= 1 /\ DOMAIN points = 1..n
  BY DEF PointsType
<1>2. \A i \in 1..n : points[i].day \in Int /\ points[i].used \in Int
  <2>1. points \in Seq([day : Int, used : Int])
    BY DEF PointsType
  <2>2. \A i \in 1..n : points[i] \in [day : Int, used : Int]
    BY <2>1, SeqType
  <2>3. QED
    BY <2>2
<1>3. \A i \in 1..n : Days(points)[i] = points[i].day /\ Useds(points)[i] = points[i].used
  BY <1>1 DEF Days, Useds
<1>4. Days(points) \in [1..n -> Int] /\ Useds(points) \in [1..n -> Int]
  BY <1>1, <1>2 DEF Days, Useds
<1>5. \A i \in 1..n-1 : Days(points)[i] < Days(points)[i+1]
  <2>1. \A i \in 1..n-1 : i \in 1..n /\ i+1 \in 1..n
    BY <1>1
  <2>2. QED
    BY <1>3, <2>1 DEF PointsType
<1>6. QED
  BY <1>1, <1>3, <1>4, <1>5

LEMMA ProductType ==
  ASSUME NEW n \in Nat, NEW s \in [1..n -> Int], NEW t \in [1..n -> Int]
  PROVE  /\ Product(s, t) \in [1..n -> Int]
         /\ \A i \in 1..n : Product(s, t)[i] = s[i] * t[i]
BY DEF Product

LEMMA SlopeType ==
  ASSUME NEW points, PointsType(points)
  PROVE  Slope(points).num \in Int /\ Slope(points).den \in Int
<1> DEFINE n == Len(points)
           x == Days(points)
           y == Useds(points)
<1>1. n \in Nat /\ x \in [1..n -> Int] /\ y \in [1..n -> Int]
  BY SeriesType
<1>2. Product(x, y) \in [1..n -> Int] /\ Product(x, x) \in [1..n -> Int]
  BY <1>1, ProductType
<1> HIDE DEF n, x, y
<1>3. /\ SumOf(x) \in Int /\ SumOf(y) \in Int
      /\ SumOf(Product(x, y)) \in Int /\ SumOf(Product(x, x)) \in Int
  BY <1>1, <1>2, IntSeq, SumType
<1>4. /\ Slope(points).num = n * SumOf(Product(x, y)) - SumOf(x) * SumOf(y)
      /\ Slope(points).den = n * SumOf(Product(x, x)) - SumOf(x) * SumOf(x)
  BY SlopeDef DEF n, x, y
<1>5. QED
  BY <1>1, <1>3, <1>4

LEMMA PositiveProduct ==
  ASSUME NEW a \in Int, NEW b \in Int, a > 0, b > 0
  PROVE  a * b > 0
OBVIOUS

(* From (a, d) to (b, e) time has passed, and the rate is beyond p/q.        *)
Beyond(p, q, a, d, b, e) == a < b /\ p * (b - a) < q * (e - d)

LEMMA BeyondChained ==
  ASSUME NEW p \in Int, NEW q \in Int, NEW a \in Int, NEW b \in Int, NEW c \in Int,
         NEW d \in Int, NEW e \in Int, NEW f \in Int,
         Beyond(p, q, a, d, b, e), Beyond(p, q, b, e, c, f)
  PROVE  Beyond(p, q, a, d, c, f)
BY DEF Beyond

(* q times the sum of x*y less p times that of x*x, about the mean of i      *)
(* points with these sums (Moment), and seen from a point (x, y) (Cross).    *)
Moment(p, q, i, xx, xy, sx, sy) == q * (i*xy - sx*sy) - p * (i*xx - sx*sx)
Cross(p, q, i, xx, xy, sx, sy, x, y) ==
  q * (xy + i*(x*y) - sx*y - x*sy) - p * (xx + i*(x*x) - 2*x*sx)

LEMMA CrossStep ==
  ASSUME NEW p \in Int, NEW q \in Int, NEW x \in Int, NEW y \in Int, NEW a \in Int, NEW b \in Int,
         NEW xx \in Int, NEW xy \in Int, NEW sx \in Int, NEW sy \in Int, NEW i \in Int,
         Beyond(p, q, a, b, x, y)
  PROVE  Cross(p, q, i+1, xx + a*a, xy + a*b, sx + a, sy + b, x, y) > Cross(p, q, i, xx, xy, sx, sy, x, y)
<1> DEFINE more == (x - a) * (q*(y - b) - p*(x - a))
<1>1. more \in Int /\ more > 0
  <2>1. x - a > 0 /\ q*(y - b) - p*(x - a) > 0
    BY DEF Beyond
  <2>2. x - a \in Int /\ q*(y - b) - p*(x - a) \in Int
    OBVIOUS
  <2>3. QED
    BY <2>1, <2>2, PositiveProduct
<1>2. Cross(p, q, i+1, xx + a*a, xy + a*b, sx + a, sy + b, x, y) = Cross(p, q, i, xx, xy, sx, sy, x, y) + more
  BY DEF Cross
<1>3. Cross(p, q, i, xx, xy, sx, sy, x, y) \in Int
  BY DEF Cross
<1> HIDE DEF more
<1>4. QED
  BY <1>1, <1>2, <1>3

(* The sums with one point (x, y) more.                                      *)
Grows(x, y, xx, xy, sx, sy, xx1, xy1, sx1, sy1) ==
  xx1 = xx + x*x /\ xy1 = xy + x*y /\ sx1 = sx + x /\ sy1 = sy + y

LEMMA MomentStep ==
  ASSUME NEW p \in Int, NEW q \in Int, NEW x \in Int, NEW y \in Int,
         NEW xx \in Int, NEW xy \in Int, NEW sx \in Int, NEW sy \in Int, NEW i \in Int,
         NEW xx1, NEW xy1, NEW sx1, NEW sy1, Grows(x, y, xx, xy, sx, sy, xx1, xy1, sx1, sy1)
  PROVE  Moment(p, q, i+1, xx1, xy1, sx1, sy1)
           = Moment(p, q, i, xx, xy, sx, sy) + Cross(p, q, i, xx, xy, sx, sy, x, y)
BY DEF Moment, Cross, Grows

LEMMA MomentType ==
  ASSUME NEW p \in Int, NEW q \in Int, NEW x \in Int, NEW y \in Int,
         NEW xx \in Int, NEW xy \in Int, NEW sx \in Int, NEW sy \in Int, NEW i \in Int
  PROVE  Moment(p, q, i, xx, xy, sx, sy) \in Int /\ Cross(p, q, i, xx, xy, sx, sy, x, y) \in Int
BY DEF Moment, Cross

LEMMA MomentZero ==
  ASSUME NEW p \in Int, NEW q \in Int, NEW x \in Int, NEW y \in Int
  PROVE  Moment(p, q, 0, 0, 0, 0, 0) = 0 /\ Cross(p, q, 0, 0, 0, 0, 0, x, y) = 0
BY DEF Moment, Cross

(* What holds of every pair of neighbouring samples holds of every pair.     *)
LEMMA EveryPair ==
  ASSUME NEW n \in Nat, NEW x \in [1..n -> Int], NEW y \in [1..n -> Int], NEW p \in Int, NEW q \in Int,
         \A i \in 1..n-1 : Beyond(p, q, x[i], y[i], x[i+1], y[i+1])
  PROVE  \A j \in 1..n : \A i \in 1..j-1 : Beyond(p, q, x[i], y[i], x[j], y[j])
<1> DEFINE Pair(i, j) == Beyond(p, q, x[i], y[i], x[j], y[j])
           Bad == {j \in 1..n : ~\A i \in 1..j-1 : Pair(i, j)}
<1>1. SUFFICES ASSUME NEW j \in Bad, \A k \in Bad : j <= k
               PROVE  FALSE
  BY Least, Bad \in SUBSET Nat
<1>2. PICK i \in 1..j-1 : ~Pair(i, j)
  OBVIOUS
<1>3. j \in 1..n /\ j-1 \in 1..n-1 /\ j-1 \in 1..n /\ i \in 1..n /\ (j-1)+1 = j
  BY <1>2
<1>4. Pair(j-1, j)
  BY <1>3
<1>5. i \in 1..(j-1)-1
  <2>1. i # j-1
    BY <1>2, <1>4
  <2>2. QED
    BY <1>3, <2>1
<1>6. Pair(i, j-1)
  BY <1>1, <1>3, <1>5
<1>7. PICK k \in 1..n : k = j-1
  BY <1>3
<1>8. x[i] \in Int /\ x[k] \in Int /\ x[j] \in Int /\ y[i] \in Int /\ y[k] \in Int /\ y[j] \in Int
  BY <1>3
<1>9. Pair(k, j) /\ Pair(i, k)
  BY <1>4, <1>6, <1>7
<1>10. QED
  BY <1>2, <1>8, <1>9, BeyondChained

(* Every pair beyond p/q, the least-squares slope is: it is an average of    *)
(* the rates of the pairs, weighted by the squares of the days between them. *)
LEMMA SlopeBeyond ==
  ASSUME NEW points, PointsType(points), Len(points) >= 2, NEW p \in Int, NEW q \in Int,
         \A i \in 1..Len(points)-1 :
           Beyond(p, q, points[i].day, points[i].used, points[i+1].day, points[i+1].used)
  PROVE  p * Slope(points).den < q * Slope(points).num
<1> DEFINE n == Len(points)
           x == Days(points)
           y == Useds(points)
<1>1. /\ n \in Nat /\ n >= 2 /\ x \in [1..n -> Int] /\ y \in [1..n -> Int]
      /\ \A i \in 1..n : x[i] = points[i].day /\ y[i] = points[i].used
  BY SeriesType
<1>2. \A i \in 1..n-1 : Beyond(p, q, x[i], y[i], x[i+1], y[i+1])
  <2>1. \A i \in 1..n-1 : i \in 1..n /\ i+1 \in 1..n
    BY <1>1
  <2>2. QED
    BY <1>1, <2>1
<1>3. /\ Slope(points).num = n * SumOf(Product(x, y)) - SumOf(x) * SumOf(y)
      /\ Slope(points).den = n * SumOf(Product(x, x)) - SumOf(x) * SumOf(x)
  BY SlopeDef
<1> HIDE DEF n, x, y
<1>4. \A j \in 1..n : \A i \in 1..j-1 : Beyond(p, q, x[i], y[i], x[j], y[j])
  BY <1>1, <1>2, EveryPair
<1>5. /\ Product(x, y) \in [1..n -> Int] /\ Product(x, x) \in [1..n -> Int]
      /\ \A i \in 1..n : Product(x, y)[i] = x[i] * y[i] /\ Product(x, x)[i] = x[i] * x[i]
  BY <1>1, ProductType
<1>6. /\ x \in Seq(Int) /\ Len(x) = n /\ y \in Seq(Int) /\ Len(y) = n
      /\ Product(x, y) \in Seq(Int) /\ Len(Product(x, y)) = n
      /\ Product(x, x) \in Seq(Int) /\ Len(Product(x, x)) = n
  BY <1>1, <1>5, IntSeq
<1>7. PICK sx : PartialSums(sx, x, n) /\ SumOf(x) = sx[n]
  BY <1>6, SumOfPartial
<1>8. PICK sy : PartialSums(sy, y, n) /\ SumOf(y) = sy[n]
  BY <1>6, SumOfPartial
<1>9. PICK xy : PartialSums(xy, Product(x, y), n) /\ SumOf(Product(x, y)) = xy[n]
  BY <1>6, SumOfPartial
<1>10. PICK xx : PartialSums(xx, Product(x, x), n) /\ SumOf(Product(x, x)) = xx[n]
  BY <1>6, SumOfPartial
<1>11. \A i \in 0..n : sx[i] \in Int /\ sy[i] \in Int /\ xy[i] \in Int /\ xx[i] \in Int
  BY <1>7, <1>8, <1>9, <1>10 DEF PartialSums
<1>12. sx[0] = 0 /\ sy[0] = 0 /\ xy[0] = 0 /\ xx[0] = 0
  BY <1>7, <1>8, <1>9, <1>10 DEF PartialSums
<1>13. ASSUME NEW i \in 0..n-1
       PROVE  /\ sx[i+1] = sx[i] + x[i+1] /\ sy[i+1] = sy[i] + y[i+1]
              /\ xy[i+1] = xy[i] + x[i+1] * y[i+1] /\ xx[i+1] = xx[i] + x[i+1] * x[i+1]
  <2>1. i+1 \in 1..n /\ (i+1)-1 = i
    BY <1>1
  <2>2. QED
    BY <1>5, <1>7, <1>8, <1>9, <1>10, <2>1 DEF PartialSums
<1> DEFINE C(i, j) == Cross(p, q, i, xx[i], xy[i], sx[i], sy[i], x[j], y[j])
           M(i) == Moment(p, q, i, xx[i], xy[i], sx[i], sy[i])
<1>14. \A j \in 1..n : \A i \in 0..n : C(i, j) \in Int /\ M(i) \in Int /\ C(0, j) = 0 /\ M(0) = 0
  <2>1. ASSUME NEW j \in 1..n, NEW i \in 0..n
        PROVE  C(i, j) \in Int /\ M(i) \in Int
    <3>1. x[j] \in Int /\ y[j] \in Int /\ i \in Int
      BY <1>1
    <3>2. QED
      BY <1>11, <3>1, MomentType
  <2>2. ASSUME NEW j \in 1..n
        PROVE  C(0, j) = 0 /\ M(0) = 0
    <3>1. x[j] \in Int /\ y[j] \in Int
      BY <1>1
    <3>2. QED
      BY <1>12, <3>1, MomentZero
  <2>3. QED
    BY <2>1, <2>2
<1>15. ASSUME NEW j \in 1..n, NEW i \in 0..j-2
       PROVE  C(i+1, j) > C(i, j)
  <2>1. i \in 0..n /\ i \in 0..n-1 /\ i+1 \in 1..n /\ i+1 \in 1..j-1
    BY <1>1
  <2>2. x[i+1] \in Int /\ y[i+1] \in Int /\ x[j] \in Int /\ y[j] \in Int
    BY <1>1, <2>1
  <2>3. Beyond(p, q, x[i+1], y[i+1], x[j], y[j])
    BY <1>4, <2>1
  <2>4. sx[i] \in Int /\ sy[i] \in Int /\ xy[i] \in Int /\ xx[i] \in Int /\ i \in Int
    BY <1>11, <2>1
  <2>5. C(i+1, j) = Cross(p, q, i+1, xx[i] + x[i+1] * x[i+1], xy[i] + x[i+1] * y[i+1],
                          sx[i] + x[i+1], sy[i] + y[i+1], x[j], y[j])
    BY <1>13, <2>1
  <2>6. QED
    BY <2>2, <2>3, <2>4, <2>5, CrossStep
<1> HIDE DEF C, M
<1>16. \A j \in 1..n : \A i \in 0..j-1 : C(i, j) >= 0 /\ (i > 0 => C(i, j) > 0)
  <2>1. SUFFICES ASSUME NEW j \in 1..n
                 PROVE  \A i \in 0..j-1 : C(i, j) >= 0 /\ (i > 0 => C(i, j) > 0)
    OBVIOUS
  <2> DEFINE Bad == {i \in 0..j-1 : ~(C(i, j) >= 0 /\ (i > 0 => C(i, j) > 0))}
  <2>2. SUFFICES ASSUME NEW i \in Bad, \A k \in Bad : i <= k
                 PROVE  FALSE
    BY Least, Bad \in SUBSET Nat
  <2>3. i # 0
    BY <1>1, <1>14
  <2>4. PICK k \in 0..j-2 : i = k + 1 /\ k \notin Bad /\ k \in 0..j-1
    BY <2>2, <2>3
  <2>5. C(k, j) >= 0 /\ C(k+1, j) > C(k, j)
    BY <1>15, <2>4
  <2>6. C(k, j) \in Int /\ C(k+1, j) \in Int
    <3>1. k \in 0..n /\ k+1 \in 0..n
      BY <1>1
    <3>2. QED
      BY <1>14, <3>1
  <2>7. C(i, j) > 0
    BY <2>4, <2>5, <2>6
  <2>8. QED
    BY <2>4, <2>6, <2>7
<1>17. ASSUME NEW i \in 0..n-1
       PROVE  M(i+1) = M(i) + C(i, i+1)
  <2>1. i \in 0..n /\ i+1 \in 1..n
    BY <1>1
  <2>2. x[i+1] \in Int /\ y[i+1] \in Int
    BY <1>1, <2>1
  <2>3. sx[i] \in Int /\ sy[i] \in Int /\ xy[i] \in Int /\ xx[i] \in Int /\ i \in Int
    BY <1>11, <2>1
  <2>4. Grows(x[i+1], y[i+1], xx[i], xy[i], sx[i], sy[i], xx[i+1], xy[i+1], sx[i+1], sy[i+1])
    BY <1>13 DEF Grows
  <2>5. QED
    BY <2>2, <2>3, <2>4, MomentStep DEF M, C
<1>18. \A i \in 0..n : M(i) >= 0 /\ (i > 1 => M(i) > 0)
  <2> DEFINE Bad == {i \in 0..n : ~(M(i) >= 0 /\ (i > 1 => M(i) > 0))}
  <2>1. SUFFICES ASSUME NEW i \in Bad, \A k \in Bad : i <= k
                 PROVE  FALSE
    BY Least, Bad \in SUBSET Nat
  <2>2. i # 0
    BY <1>1, <1>14
  <2>3. PICK k \in 0..n-1 : i = k + 1 /\ k \notin Bad /\ k \in 0..n
    BY <1>1, <2>1, <2>2
  <2>4. M(k) >= 0 /\ M(k+1) = M(k) + C(k, k+1)
    BY <1>17, <2>3
  <2>5. k+1 \in 1..n /\ k \in 0..(k+1)-1 /\ k+1 \in 0..n
    BY <1>1
  <2>6. C(k, k+1) >= 0 /\ (k > 0 => C(k, k+1) > 0)
    BY <1>16, <2>5
  <2>7. M(k) \in Int /\ M(k+1) \in Int /\ C(k, k+1) \in Int
    BY <1>14, <2>3, <2>5
  <2>8. M(k+1) >= 0 /\ (k+1 > 1 => M(k+1) > 0)
    BY <2>4, <2>6, <2>7
  <2>9. QED
    BY <2>3, <2>8
<1>19. M(n) > 0
  BY <1>1, <1>18
<1>20. M(n) = q * Slope(points).num - p * Slope(points).den
  BY <1>3, <1>7, <1>8, <1>9, <1>10 DEF M, Moment
<1>21. QED
  BY <1>19, <1>20, SlopeType
-----------------------------------------------------------------------------
(* The projection.                                                           *)

Intervals(points) == 1..Len(points)-1
More(points, i) == points[i+1].used - points[i].used
Gap(points, i) == points[i+1].day - points[i].day

LEMMA IntervalType ==
  ASSUME NEW points, PointsType(points), NEW i \in Intervals(points)
  PROVE  /\ points[i].day \in Int /\ points[i+1].day \in Int
         /\ points[i].used \in Int /\ points[i+1].used \in Int
         /\ More(points, i) \in Int /\ Gap(points, i) \in Int /\ Gap(points, i) > 0
<1>1. i \in 1..Len(points) /\ i+1 \in 1..Len(points)
  BY SeriesType DEF Intervals
<1>2. /\ points[i].day \in Int /\ points[i+1].day \in Int
      /\ points[i].used \in Int /\ points[i+1].used \in Int
  BY <1>1, SeriesType
<1>3. points[i].day < points[i+1].day
  BY DEF PointsType, Intervals
<1>4. QED
  BY <1>2, <1>3 DEF More, Gap

(* SlopeBeyond in these terms.                                               *)
LEMMA SlopeOfRates ==
  ASSUME NEW points, PointsType(points), Len(points) >= 2, NEW p \in Int, NEW q \in Int,
         \A i \in Intervals(points) : p * Gap(points, i) < q * More(points, i)
  PROVE  p * Slope(points).den < q * Slope(points).num
<1>1. ASSUME NEW i \in Intervals(points)
      PROVE  Beyond(p, q, points[i].day, points[i].used, points[i+1].day, points[i+1].used)
  BY IntervalType DEF Beyond, More, Gap
<1>2. QED
  BY <1>1, SlopeBeyond DEF Intervals

LEMMA DenPositive ==
  ASSUME NEW points, PointsType(points), Len(points) >= 2
  PROVE  Slope(points).den > 0
<1>1. \A i \in Intervals(points) : (-1) * Gap(points, i) < 0 * More(points, i)
  BY IntervalType
<1>2. (-1) * Slope(points).den < 0 * Slope(points).num
  BY <1>1, SlopeOfRates
<1>3. QED
  BY <1>2, SlopeType

LEMMA Growing ==
  ASSUME NEW points, PointsType(points), Len(points) >= 2,
         \A i \in Intervals(points) : More(points, i) > 0
  PROVE  Slope(points).num > 0
<1>1. \A i \in Intervals(points) : 0 * Gap(points, i) < 1 * More(points, i)
  BY IntervalType
<1>2. 0 * Slope(points).den < 1 * Slope(points).num
  BY <1>1, SlopeOfRates
<1>3. QED
  BY <1>2, SlopeType

LEMMA ScaledNegative ==
  ASSUME NEW k \in Int, NEW m \in Int, NEW g \in Int, k > 0, m <= 0, g > 0
  PROVE  (-1) * g < (-k) * m
OBVIOUS

LEMMA NoMoreThanOne ==
  ASSUME NEW k \in Int, NEW n \in Int, k > 0, (-1) * k < (-k) * n
  PROVE  n <= 0
OBVIOUS

LEMMA NotGrowing ==
  ASSUME NEW points, PointsType(points), Len(points) >= 2,
         \A i \in Intervals(points) : More(points, i) <= 0
  PROVE  Slope(points).num <= 0
<1> DEFINE k == Slope(points).den
<1>1. k \in Int /\ k > 0 /\ -k \in Int
  BY DenPositive, SlopeType
<1> HIDE DEF k
<1>2. \A i \in Intervals(points) : (-1) * Gap(points, i) < (-k) * More(points, i)
  BY <1>1, IntervalType, ScaledNegative
<1>3. (-1) * Slope(points).den < (-k) * Slope(points).num
  BY <1>1, <1>2, SlopeOfRates
<1>4. QED
  BY <1>1, <1>3, SlopeType, NoMoreThanOne DEF k

LEMMA RoundedBounds ==
  ASSUME NEW n \in Int, NEW d \in Int, d > 0
  PROVE  /\ Rounded(n, d) \in Int
         /\ (2 * Rounded(n, d) - 1) * d <= 2 * n /\ 2 * n < (2 * Rounded(n, d) + 1) * d
<1> DEFINE a == 2 * n + d
           b == 2 * d
           t == a \div b
<1>1. a \in Int /\ b \in Int /\ b > 0
  OBVIOUS
<1> HIDE DEF a, b
<1>2. t \in Int /\ b * t <= a /\ a < b * t + b
  BY <1>1
<1> HIDE DEF t
<1>3. (2 * d) * t <= 2 * n + d /\ 2 * n + d < (2 * d) * t + 2 * d
  BY <1>2 DEF a, b
<1>4. (2 * t - 1) * d = (2 * d) * t - d /\ (2 * t + 1) * d = (2 * d) * t + d /\ (2 * d) * t \in Int
  BY <1>2
<1>5. (2 * t - 1) * d <= 2 * n /\ 2 * n < (2 * t + 1) * d
  BY <1>3, <1>4
<1>6. Rounded(n, d) = t
  BY DEF Rounded, t, a, b
<1>7. QED
  BY <1>2, <1>5, <1>6

-----------------------------------------------------------------------------
(* The blocking chain.                                                       *)

Start(spid) == [current |-> spid, seen |-> {}, depth |-> 1]

(* f holds where the walk from spid is after 0, 1, .. n rounds.              *)
Walked(f, spid, blockedBy, n) ==
  /\ f = [m \in 0..n |-> f[m]]
  /\ f[0] = Start(spid) /\ \A m \in 1..n : f[m] = Step(f[m-1], blockedBy)

LEMMA WalkExists ==
  ASSUME NEW spid, NEW blockedBy, NEW maxWalk \in Nat
  PROVE  \E f : Walked(f, spid, blockedBy, maxWalk)
<1> DEFINE Missing == {n \in 0..maxWalk : ~\E f : Walked(f, spid, blockedBy, n)}
<1>1. SUFFICES Missing = {}
  BY maxWalk \in 0..maxWalk
<1>2. SUFFICES ASSUME NEW n \in Missing, \A m \in Missing : n <= m
               PROVE  FALSE
  BY Least, Missing \in SUBSET Nat
<1>3. n # 0
  <2>1. Walked([m \in 0..0 |-> Start(spid)], spid, blockedBy, 0)
    BY DEF Walked
  <2>2. QED
    BY <2>1
<1>4. PICK f : Walked(f, spid, blockedBy, n-1)
  BY <1>2, <1>3
<1> DEFINE g == [m \in 0..n |-> IF m = n THEN Step(f[n-1], blockedBy) ELSE f[m]]
<1>5. n \in Nat /\ n-1 \in 0..n-1 /\ n-1 # n
  BY <1>3
<1>6. g[0] = Start(spid)
  BY <1>3, <1>4 DEF Walked
<1>7. ASSUME NEW m \in 1..n
      PROVE  g[m] = Step(g[m-1], blockedBy)
  <2>1. m \in 0..n /\ m-1 \in 0..n /\ m-1 # n /\ (m # n => m \in 1..n-1)
    BY <1>5
  <2>2. g[m-1] = f[m-1]
    BY <2>1
  <2>3. CASE m = n
    BY <2>1, <2>2, <2>3
  <2>4. CASE m # n
    <3>1. g[m] = f[m] /\ f[m] = Step(f[m-1], blockedBy)
      BY <1>4, <2>1, <2>4 DEF Walked
    <3>2. QED
      BY <2>2, <3>1
  <2>5. QED
    BY <2>3, <2>4
<1>8. g = [m \in 0..n |-> g[m]]
  OBVIOUS
<1> HIDE DEF g
<1>9. Walked(g, spid, blockedBy, n)
  BY <1>6, <1>7, <1>8 DEF Walked
<1>10. QED
  BY <1>9

LEMMA ChainDepthWalk ==
  ASSUME NEW spid, NEW blockedBy, NEW maxWalk \in Nat
  PROVE  \E f : Walked(f, spid, blockedBy, maxWalk) /\ ChainDepth(spid, blockedBy, maxWalk) = f[maxWalk].depth
<1> DEFINE Body(f) == [n \in 0..maxWalk |-> IF n = 0 THEN Start(spid) ELSE Step(f[n-1], blockedBy)]
           walk == CHOOSE f : f = Body(f)
<1>1. PICK f : Walked(f, spid, blockedBy, maxWalk)
  BY WalkExists
<1>2. f = Body(f)
  <2>1. ASSUME NEW n \in 0..maxWalk
        PROVE  f[n] = IF n = 0 THEN Start(spid) ELSE Step(f[n-1], blockedBy)
    <3>1. n # 0 => n \in 1..maxWalk
      OBVIOUS
    <3>2. QED
      BY <1>1, <3>1 DEF Walked
  <2>2. f = [n \in 0..maxWalk |-> f[n]]
    BY <1>1 DEF Walked
  <2>3. QED
    BY <2>1, <2>2, Zenon
<1>3. walk = Body(walk)
  BY <1>2
<1>4. ChainDepth(spid, blockedBy, maxWalk) = walk[maxWalk].depth
  BY DEF ChainDepth, Start
<1> HIDE DEF walk
<1>5. walk = [n \in 0..maxWalk |-> IF n = 0 THEN Start(spid) ELSE Step(walk[n-1], blockedBy)]
  BY <1>3
<1> HIDE DEF Body
<1>6. \A n \in 0..maxWalk : walk[n] = IF n = 0 THEN Start(spid) ELSE Step(walk[n-1], blockedBy)
  BY <1>5, Zenon
<1>7. walk = [n \in 0..maxWalk |-> walk[n]]
  BY <1>5
<1>8. Walked(walk, spid, blockedBy, maxWalk)
  <2>1. 0 \in 0..maxWalk
    OBVIOUS
  <2>2. \A m \in 1..maxWalk : m \in 0..maxWalk /\ m # 0
    OBVIOUS
  <2>3. QED
    BY <1>6, <1>7, <2>1, <2>2, Zenon DEF Walked
<1>9. QED
  BY <1>4, <1>8

(* A set of sessions that blockers cannot leave.                             *)
Closed(S, blockedBy) == \A u \in S \cap DOMAIN blockedBy : blockedBy[u] \in S

(* After n rounds: the sessions seen lie on the way, each counted once, and  *)
(* nothing else does once the walk has come to rest.                         *)
OnItsWay(at, n, spid, blockedBy) ==
  /\ at.seen \subseteq DOMAIN blockedBy /\ IsFiniteSet(at.seen)
  /\ at.depth \in 1..n+1 /\ Cardinality(at.seen) = at.depth - 1
  /\ at.depth = n + 1 \/ at.current \notin DOMAIN blockedBy \ at.seen
  /\ spid \in at.seen \cup {at.current}
  /\ \A u \in at.seen : blockedBy[u] \in at.seen \cup {at.current}
  /\ \A S : spid \in S /\ Closed(S, blockedBy) => at.seen \cup {at.current} \subseteq S

LEMMA StartOnItsWay ==
  ASSUME NEW spid, NEW blockedBy
  PROVE  OnItsWay(Start(spid), 0, spid, blockedBy)
BY FS_EmptySet DEF OnItsWay, Start

LEMMA StepOnItsWay ==
  ASSUME NEW spid, NEW blockedBy, NEW at, NEW n \in Nat, OnItsWay(at, n, spid, blockedBy)
  PROVE  OnItsWay(Step(at, blockedBy), n+1, spid, blockedBy)
<1> DEFINE next == Step(at, blockedBy)
<1>1. CASE at.current \in DOMAIN blockedBy \ at.seen
  <2>1. /\ next.current = blockedBy[at.current] /\ next.seen = at.seen \cup {at.current}
        /\ next.depth = at.depth + 1
    BY <1>1 DEF Step
  <2>2. IsFiniteSet(next.seen) /\ Cardinality(next.seen) = Cardinality(at.seen) + 1
    <3>1. IsFiniteSet(at.seen) /\ at.current \notin at.seen
      BY <1>1 DEF OnItsWay
    <3>2. /\ IsFiniteSet(at.seen \cup {at.current})
          /\ Cardinality(at.seen \cup {at.current}) = Cardinality(at.seen) + 1
      BY <3>1, FS_AddElement
    <3>3. QED
      BY <2>1, <3>2
  <2>3. next.depth = n + 2 /\ Cardinality(next.seen) = next.depth - 1
    BY <1>1, <2>1, <2>2 DEF OnItsWay
  <2>4. ASSUME NEW S, spid \in S, Closed(S, blockedBy)
        PROVE  next.seen \cup {next.current} \subseteq S
    BY <1>1, <2>1, <2>4 DEF OnItsWay, Closed
  <2> HIDE DEF next
  <2>5. QED
    BY <1>1, <2>1, <2>2, <2>3, <2>4 DEF OnItsWay, next
<1>2. CASE at.current \notin DOMAIN blockedBy \ at.seen
  BY <1>2 DEF OnItsWay, Step
<1>3. QED
  BY <1>1, <1>2

(* chain_depth: one more than the blocked sessions on the way to the head, or*)
(* than maxWalk if they are more.                                            *)
LEMMA ChainDepthExact ==
  ASSUME NEW spid, NEW blockedBy, NEW maxWalk \in Nat, IsFiniteSet(DOMAIN blockedBy),
         NEW U, spid \in U, DOMAIN blockedBy \subseteq U, \A u \in DOMAIN blockedBy : blockedBy[u] \in U,
         NEW Way, Way = {t \in DOMAIN blockedBy :
                           \A S \in SUBSET U : spid \in S /\ Closed(S, blockedBy) => t \in S}
  PROVE  ChainDepth(spid, blockedBy, maxWalk)
           = 1 + IF Cardinality(Way) < maxWalk THEN Cardinality(Way) ELSE maxWalk
<1>1. PICK f : Walked(f, spid, blockedBy, maxWalk) /\ ChainDepth(spid, blockedBy, maxWalk) = f[maxWalk].depth
  BY ChainDepthWalk
<1> DEFINE Bad == {n \in 0..maxWalk : ~OnItsWay(f[n], n, spid, blockedBy)}
<1>2. Bad = {}
  <2>1. SUFFICES ASSUME NEW n \in Bad, \A m \in Bad : n <= m
                 PROVE  FALSE
    BY Least, Bad \in SUBSET Nat
  <2>2. n # 0
    BY <1>1, StartOnItsWay DEF Walked
  <2>3. PICK m : m = n-1
    OBVIOUS
  <2>4. n \in 1..maxWalk /\ m \in 0..maxWalk /\ m \in Nat /\ n = m + 1 /\ m < n
    BY <2>2, <2>3
  <2>5. m \notin Bad
    BY <2>1, <2>4
  <2>6. f[n] = Step(f[m], blockedBy)
    BY <1>1, <2>3, <2>4 DEF Walked
  <2>7. OnItsWay(f[m], m, spid, blockedBy)
    BY <2>4, <2>5
  <2>8. OnItsWay(f[n], n, spid, blockedBy)
    BY <2>4, <2>6, <2>7, StepOnItsWay
  <2>9. QED
    BY <2>8
<1> DEFINE at == f[maxWalk]
<1>3. OnItsWay(at, maxWalk, spid, blockedBy)
  BY <1>2
<1> HIDE DEF at
<1>4. IsFiniteSet(Way) /\ Cardinality(Way) \in Nat
  BY FS_Subset, FS_CardinalityType
<1>5. at.seen \subseteq Way
  BY <1>3 DEF OnItsWay
<1>6. CASE at.current \notin DOMAIN blockedBy \ at.seen
  <2>1. Closed(at.seen \cup {at.current}, blockedBy)
    BY <1>3, <1>6 DEF OnItsWay, Closed
  <2>2. at.seen \cup {at.current} \subseteq U
    <3>1. Closed(U, blockedBy)
      BY DEF Closed
    <3>2. QED
      BY <1>3, <3>1 DEF OnItsWay
  <2>3. Way \subseteq at.seen
    BY <1>3, <1>6, <2>1, <2>2 DEF OnItsWay
  <2>4. Way = at.seen
    BY <1>5, <2>3
  <2>5. Cardinality(Way) = at.depth - 1 /\ at.depth \in 1..maxWalk+1
    BY <1>3, <2>4 DEF OnItsWay
  <2>6. QED
    BY <1>1, <2>5 DEF at
<1>7. CASE at.depth = maxWalk + 1
  <2>1. Cardinality(at.seen) = maxWalk
    BY <1>3, <1>7 DEF OnItsWay
  <2>2. Cardinality(at.seen) <= Cardinality(Way)
    BY <1>4, <1>5, FS_Subset
  <2>3. QED
    BY <1>1, <1>4, <1>7, <2>1, <2>2 DEF at
<1>8. QED
  BY <1>3, <1>6, <1>7 DEF OnItsWay

-----------------------------------------------------------------------------
(* Severities.                                                               *)

(* t is the severity s, or stricter.                                         *)
NoMilder(s, t) ==
  \/ s = None \/ s = t
  \/ s = "info" /\ t # None
  \/ s = "warn" /\ t = "crit"

(* Both are missing, or neither is and the second is no lower, no higher.    *)
NoLower(u, v) == (u = None <=> v = None) /\ (u # None => v >= u)
NoHigher(u, v) == (u = None <=> v = None) /\ (u # None => v <= u)

(* Every finding of F has one in G of its category that is no milder.        *)
Answered(F, G) == \A f \in F : \E g \in G : g.category = f.category /\ NoMilder(f.severity, g.severity)

LEMMA LimitType ==
  ASSUME NEW limits, LimitsType(limits), NEW category, NEW key
  PROVE  /\ Limit(limits, category, key, None) \in Reading
         /\ key \in Counts => \A default \in Int : Limit(limits, category, key, default) \in Int
BY DEF LimitsType, Limit, Reading

LEMMA CountType ==
  ASSUME NEW limits, LimitsType(limits), NEW category, NEW key \in Counts, NEW default \in Int
  PROVE  Limit(limits, category, key, default) \in Int
BY LimitType

LEMMA GradeNoMilder ==
  ASSUME NEW a \in BOOLEAN, NEW b \in BOOLEAN, NEW c \in BOOLEAN, NEW d \in BOOLEAN, a => c, b => c \/ d
  PROVE  NoMilder(Grade(a, b), Grade(c, d))
BY NoneAssumption DEF NoMilder, Grade

LEMMA SeverityNoMilder ==
  ASSUME NEW u \in Reading, NEW v \in Reading, NoLower(u, v), NEW warn \in Reading, NEW crit \in Reading
  PROVE  NoMilder(Severity(u, warn, crit), Severity(v, warn, crit))
<1>1. ASSUME NEW limit \in Reading, Reaches(u, limit)
      PROVE  Reaches(v, limit)
  BY <1>1 DEF NoLower, Reaches, Reading
<1>2. \A k, l : Reaches(k, l) \in BOOLEAN
  BY DEF Reaches
<1>3. QED
  BY <1>1, <1>2, GradeNoMilder DEF Severity

LEMMA SeverityLowNoMilder ==
  ASSUME NEW u \in Reading, NEW v \in Reading, NoHigher(u, v), NEW warn \in Reading, NEW crit \in Reading
  PROVE  NoMilder(SeverityLow(u, warn, crit), SeverityLow(v, warn, crit))
<1>1. ASSUME NEW limit \in Reading, Within(u, limit)
      PROVE  Within(v, limit)
  BY <1>1 DEF NoHigher, Within, Reading
<1>2. \A k, l : Within(k, l) \in BOOLEAN
  BY DEF Within
<1>3. QED
  BY <1>1, <1>2, GradeNoMilder DEF SeverityLow

LEMMA ReportAnswered ==
  ASSUME NEW s, NEW t, NEW category, NEW metric, NEW object, NEW metric2, NEW object2,
         NoMilder(s, t), s \in {None, "info", "warn", "crit"}
  PROVE  Answered(Report(s, category, metric, object), Report(t, category, metric2, object2))
<1>1. CASE s = None
  BY <1>1 DEF Answered, Report
<1>2. CASE s # None
  <2> DEFINE f == [category |-> category, severity |-> s, metric |-> metric, object |-> object]
             g == [category |-> category, severity |-> t, metric |-> metric2, object |-> object2]
  <2>1. t # None
    BY <1>2, NoneAssumption DEF NoMilder
  <2>2. Report(s, category, metric, object) = {f} /\ Report(t, category, metric2, object2) = {g}
    BY <1>2, <2>1 DEF Report
  <2>3. f.category = g.category /\ f.severity = s /\ g.severity = t
    OBVIOUS
  <2> HIDE DEF f, g
  <2>4. QED
    BY <2>2, <2>3 DEF Answered
<1>3. QED
  BY <1>1, <1>2

LEMMA BothAnswered ==
  ASSUME NEW F, NEW G, NEW H, NEW K, Answered(F, G), Answered(H, K)
  PROVE  Answered(F \cup H, G \cup K)
BY DEF Answered

LEMMA SeverityType ==
  ASSUME NEW v, NEW warn, NEW crit
  PROVE  /\ Severity(v, warn, crit) \in {None, "info", "warn", "crit"}
         /\ SeverityLow(v, warn, crit) \in {None, "info", "warn", "crit"}
BY DEF Severity, SeverityLow, Grade

-----------------------------------------------------------------------------
(* A worse input.                                                            *)

SamplesNoLower(s, t) == Len(s) = Len(t) /\ \A n \in 1..Len(s) : NoLower(s[n], t[n])

(* j measures what i does, and nothing better.  Growth is left aside.        *)
NoBetter(i, j) ==
  /\ SamplesNoLower(i.cpuHistory, j.cpuHistory) /\ SamplesNoLower(i.grantsHistory, j.grantsHistory)
  /\ \A row \in i.cpu : \E r \in j.cpu : NoLower(row.signal, r.signal)
  /\ \A row \in i.memory : \E r \in j.memory :
       NoHigher(row.ple, r.ple) /\ NoHigher(row.node, r.node) /\ NoLower(row.floor, r.floor)
  /\ \A row \in i.io : \E r \in j.io : NoLower(row.read, r.read) /\ NoLower(row.write, r.write)
  /\ \A row \in i.dbSpace : \E r \in j.dbSpace : NoHigher(row.freePct, r.freePct)
  /\ \A row \in i.driveSpace : \E r \in j.driveSpace :
       NoHigher(row.freePct, r.freePct) /\ NoHigher(row.freeGb, r.freeGb)
  /\ \A row \in i.blocking : \E r \in j.blocking : row.seconds <= r.seconds
  /\ i.deadlocks <= j.deadlocks
  /\ \A row \in i.indexFrag : \E r \in j.indexFrag : row.fragPct <= r.fragPct /\ row.pages <= r.pages
  /\ \A key \in {"volumeStats", "indexMissing", "indexUnused", "statsStale", "autoUpdateOff"} : i[key] = j[key]

LEMMA SustainedNoLower ==
  ASSUME NEW s \in Seq(Reading), NEW t \in Seq(Reading), SamplesNoLower(s, t), NEW samples \in Int
  PROVE  /\ NoLower(SustainedSum(s, samples), SustainedSum(t, samples))
         /\ SustainedSum(s, samples) \in Reading /\ SustainedSum(t, samples) \in Reading
<1> DEFINE Usable == {n \in DOMAIN s : s[n] # None}
           Recent == {n \in Usable : Cardinality({m \in Usable : m > n}) < samples}
           Terms(v) == [n \in DOMAIN v |-> IF n \in Recent THEN v[n] ELSE 0]
<1>1. DOMAIN s = 1..Len(s) /\ DOMAIN t = 1..Len(s) /\ Len(s) \in Nat /\ Len(t) = Len(s)
  BY DEF SamplesNoLower
<1>2. \A n \in 1..Len(s) : s[n] \in Reading /\ t[n] \in Reading /\ NoLower(s[n], t[n])
  BY <1>1, SeqType DEF SamplesNoLower
<1>3. Usable = {n \in DOMAIN t : t[n] # None}
  BY <1>1, <1>2 DEF NoLower
<1> DEFINE Few == Cardinality(Usable) < samples \/ samples <= 0
<1>4. /\ SustainedSum(s, samples) = IF Few THEN None ELSE SumOf(Terms(s))
      /\ SustainedSum(t, samples) = IF Few THEN None ELSE SumOf(Terms(t))
  BY <1>3 DEF SustainedSum
<1>5. \A n \in Recent : n \in 1..Len(s) /\ s[n] \in Int /\ t[n] \in Int /\ s[n] <= t[n]
  BY <1>1, <1>2 DEF NoLower, Reading
<1> HIDE DEF Few, Recent
<1>6. Terms(s) \in [1..Len(s) -> Int] /\ Terms(t) \in [1..Len(s) -> Int]
  BY <1>1, <1>5
<1>7. \A n \in 1..Len(s) : Terms(s)[n] <= Terms(t)[n]
  BY <1>1, <1>5
<1> HIDE DEF Terms
<1>8. /\ SumOf(Terms(s)) \in Int /\ SumOf(Terms(t)) \in Int
      /\ SumOf(Terms(s)) <= SumOf(Terms(t))
  <2>1. /\ Terms(s) \in Seq(Int) /\ Len(Terms(s)) = Len(s)
        /\ Terms(t) \in Seq(Int) /\ Len(Terms(t)) = Len(s)
    BY <1>1, <1>6, IntSeq
  <2>2. QED
    BY <1>7, <2>1, SumMonotone, SumType
<1>9. QED
  BY <1>4, <1>8, NoneAssumption DEF NoLower, Reading

LEMMA CpuAnswered ==
  ASSUME NEW i, InputType(i), NEW j, InputType(j), NoBetter(i, j), NEW limits, LimitsType(limits)
  PROVE  Answered(CpuFindings(i, limits), CpuFindings(j, limits))
<1> DEFINE samples == Limit(limits, "cpu", "sustained_samples", 4)
           warn == Times(Limit(limits, "cpu", "sustained_pct_warn", None), samples)
           crit == Times(Limit(limits, "cpu", "sustained_pct_crit", None), samples)
           signal == Limit(limits, "cpu", "signal_wait_pct_warn", None)
           Average(k) == Report(Severity(SustainedSum(k.cpuHistory, samples), warn, crit),
                                "cpu", "sql_cpu_pct", "instance")
           Wait(row) == Report(Severity(row.signal, signal, None), "cpu", "signal_wait_pct", "instance")
           Waits(k) == UNION {Wait(row) : row \in k.cpu}
<1>1. samples \in Int /\ signal \in Reading /\ None \in Reading
  BY LimitType DEF Counts, Reading
<1>2. warn \in Reading /\ crit \in Reading
  BY <1>1, LimitType, NoneAssumption DEF Times, Reading
<1> HIDE DEF samples, warn, crit, signal
<1>3. Answered(Average(i), Average(j))
  <2>1. /\ i.cpuHistory \in Seq(Reading) /\ j.cpuHistory \in Seq(Reading)
        /\ SamplesNoLower(i.cpuHistory, j.cpuHistory)
    BY DEF InputType, NoBetter
  <2>2. NoMilder(Severity(SustainedSum(i.cpuHistory, samples), warn, crit),
                 Severity(SustainedSum(j.cpuHistory, samples), warn, crit))
    BY <1>1, <1>2, <2>1, SustainedNoLower, SeverityNoMilder
  <2>3. QED
    BY <2>2, SeverityType, ReportAnswered
<1>4. Answered(Waits(i), Waits(j))
  <2>1. ASSUME NEW row \in i.cpu
        PROVE  \E r \in j.cpu : Answered(Wait(row), Wait(r))
    <3>1. PICK r \in j.cpu : NoLower(row.signal, r.signal)
      BY DEF NoBetter
    <3>2. row.signal \in Reading /\ r.signal \in Reading
      BY DEF InputType, Frame
    <3>3. NoMilder(Severity(row.signal, signal, None), Severity(r.signal, signal, None))
      BY <1>1, <3>1, <3>2, SeverityNoMilder
    <3>4. QED
      BY <3>3, SeverityType, ReportAnswered
  <2> HIDE DEF Wait
  <2>2. QED
    BY <2>1 DEF Answered
<1>5. /\ CpuFindings(i, limits) = Average(i) \cup Waits(i)
      /\ CpuFindings(j, limits) = Average(j) \cup Waits(j)
  BY DEF CpuFindings, samples, warn, crit, signal
<1> HIDE DEF Average, Waits
<1>6. QED
  BY <1>3, <1>4, <1>5, BothAnswered

LEMMA EffectiveWarnType ==
  ASSUME NEW warn \in Reading, NEW floor \in Nat \cup {None}
  PROVE  LET e == EffectiveWarn(warn, floor)
             F == {warn, floor} \ {None, 0}
         IN  /\ e \in Reading
             /\ e = None <=> F = {}
             /\ F # {} => e \in F /\ \A g \in F : g <= e
<1> DEFINE F == {warn, floor} \ {None, 0}
<1>1. F \subseteq Int
  BY DEF Reading
<1>2. F # {} => \E f \in F : \A g \in F : g <= f
  <2>1. CASE warn \in F /\ floor \in F
    BY <1>1, <2>1
  <2>2. CASE ~(warn \in F /\ floor \in F)
    <3>1. \A f, g \in F : f = g
      BY <2>2
    <3>2. QED
      BY <1>1, <3>1
  <2>3. QED
    BY <2>1, <2>2
<1> DEFINE e == CHOOSE f \in F : \A g \in F : g <= f
<1>3. F # {} => e \in F /\ \A g \in F : g <= e
  BY <1>2
<1>4. EffectiveWarn(warn, floor) = IF F = {} THEN None ELSE e
  BY DEF EffectiveWarn
<1> HIDE DEF F, e
<1>5. QED
  BY <1>1, <1>3, <1>4, NoneAssumption DEF Reading, F

LEMMA EffectiveWarnNoLower ==
  ASSUME NEW warn \in Reading, NEW floor \in Nat \cup {None}, NEW higher \in Nat \cup {None},
         NoLower(floor, higher), EffectiveWarn(warn, floor) # None
  PROVE  EffectiveWarn(warn, higher) # None /\ EffectiveWarn(warn, floor) <= EffectiveWarn(warn, higher)
<1> DEFINE e == EffectiveWarn(warn, floor)
           F == {warn, floor} \ {None, 0}
           G == {warn, higher} \ {None, 0}
<1>1. e \in F /\ e \in Int
  BY EffectiveWarnType DEF Reading
<1>2. \E g \in G : g \in Int /\ e <= g
  BY <1>1 DEF NoLower, Reading
<1>3. /\ EffectiveWarn(warn, higher) \in Reading
      /\ EffectiveWarn(warn, higher) = None <=> G = {}
      /\ \A g \in G : g <= EffectiveWarn(warn, higher)
  BY <1>2, EffectiveWarnType
<1> HIDE DEF e, F, G
<1>4. QED
  BY <1>1, <1>2, <1>3, NoneAssumption DEF Reading, e

LEMMA BelowNoMilder ==
  ASSUME NEW u \in Reading, NEW v \in Reading, NoHigher(u, v), NEW k \in Reading, NEW l \in Reading,
         k # None => l # None /\ k <= l, Below(u, k)
  PROVE  Below(v, l)
BY NoneAssumption DEF NoHigher, Below, Reading

LEMMA GrantsNoMilder ==
  ASSUME NEW s \in Seq(Reading), NEW t \in Seq(Reading), SamplesNoLower(s, t), NEW warn \in Reading,
         GrantsPending(s, warn)
  PROVE  GrantsPending(t, warn)
<1>1. Len(s) \in Nat /\ Len(t) = Len(s) /\ Len(s) >= 2 /\ warn \in Int
  BY DEF GrantsPending, SamplesNoLower, Reading
<1>2. ASSUME NEW n \in {Len(t) - 1, Len(t)}
      PROVE  t[n] # None /\ t[n] >= warn
  <2>1. n \in 1..Len(s) /\ n \in {Len(s) - 1, Len(s)}
    BY <1>1
  <2>2. s[n] # None /\ s[n] >= warn /\ NoLower(s[n], t[n]) /\ s[n] \in Reading /\ t[n] \in Reading
    BY <1>1, <2>1, SeqType DEF GrantsPending, SamplesNoLower
  <2>3. QED
    BY <1>1, <2>2 DEF NoLower, Reading
<1>3. QED
  BY <1>1, <1>2, NoneAssumption DEF GrantsPending

LEMMA MemoryAnswered ==
  ASSUME NEW i, InputType(i), NEW j, InputType(j), NoBetter(i, j), NEW limits, LimitsType(limits)
  PROVE  Answered(MemoryFindings(i, limits), MemoryFindings(j, limits))
<1> DEFINE warn == Limit(limits, "memory", "ple_warn", None)
           crit == Limit(limits, "memory", "ple_crit", None)
           pending == Limit(limits, "memory", "memory_grants_pending_warn", None)
           Ple(row) == Grade(Below(row.ple, crit), Below(row.ple, EffectiveWarn(warn, row.floor)))
           Node(row) ==
             IF row.ple # None /\ Below(row.node, crit) /\ ~Below(row.ple, crit) THEN "warn" ELSE None
           Grants(k) == IF GrantsPending(k.grantsHistory, pending) THEN "warn" ELSE None
           One(row) == Report(Ple(row), "memory", "page_life_expectancy", "instance")
           Two(row) == Report(Node(row), "memory", "min_node_ple", "numa")
           Three(k) == Report(Grants(k), "memory", "memory_grants_pending", "instance")
           All(row, k) == One(row) \cup Two(row) \cup Three(k)
<1>1. warn \in Reading /\ crit \in Reading /\ pending \in Reading
  BY LimitType
<1> HIDE DEF warn, crit, pending
<1>2. Answered(Three(i), Three(j))
  <2>1. /\ i.grantsHistory \in Seq(Reading) /\ j.grantsHistory \in Seq(Reading)
        /\ SamplesNoLower(i.grantsHistory, j.grantsHistory)
    BY DEF InputType, NoBetter
  <2>2. GrantsPending(i.grantsHistory, pending) => GrantsPending(j.grantsHistory, pending)
    BY <1>1, <2>1, GrantsNoMilder
  <2>3. NoMilder(Grants(i), Grants(j)) /\ Grants(i) \in {None, "info", "warn", "crit"}
    BY <2>2 DEF NoMilder
  <2> HIDE DEF Grants
  <2>4. QED
    BY <2>3, ReportAnswered
<1>3. ASSUME NEW row \in i.memory
      PROVE  \E r \in j.memory : Answered(All(row, i), All(r, j))
  <2>1. PICK r \in j.memory :
          NoHigher(row.ple, r.ple) /\ NoHigher(row.node, r.node) /\ NoLower(row.floor, r.floor)
    BY DEF NoBetter
  <2>2. /\ row.ple \in Reading /\ r.ple \in Reading /\ row.node \in Reading /\ r.node \in Reading
        /\ row.floor \in Nat \cup {None} /\ r.floor \in Nat \cup {None}
    BY DEF InputType, Frame
  <2>3. Below(row.ple, crit) => Below(r.ple, crit)
    <3>1. crit # None => crit # None /\ crit <= crit
      BY <1>1 DEF Reading
    <3>2. QED
      BY <1>1, <2>1, <2>2, <3>1, BelowNoMilder
  <2>4. Below(row.node, crit) => Below(r.node, crit)
    <3>1. crit # None => crit # None /\ crit <= crit
      BY <1>1 DEF Reading
    <3>2. QED
      BY <1>1, <2>1, <2>2, <3>1, BelowNoMilder
  <2>5. Below(row.ple, EffectiveWarn(warn, row.floor)) => Below(r.ple, EffectiveWarn(warn, r.floor))
    <3>1. EffectiveWarn(warn, row.floor) \in Reading /\ EffectiveWarn(warn, r.floor) \in Reading
      BY <1>1, <2>2, EffectiveWarnType
    <3>2. EffectiveWarn(warn, row.floor) # None =>
            /\ EffectiveWarn(warn, r.floor) # None
            /\ EffectiveWarn(warn, row.floor) <= EffectiveWarn(warn, r.floor)
      BY <1>1, <2>1, <2>2, EffectiveWarnNoLower
    <3>3. QED
      BY <2>1, <2>2, <3>1, <3>2, BelowNoMilder
  <2>6. Answered(One(row), One(r))
    <3>1. \A k, l : Below(k, l) \in BOOLEAN
      BY DEF Below
    <3>2. NoMilder(Ple(row), Ple(r))
      BY <2>3, <2>5, <3>1, GradeNoMilder
    <3>3. Ple(row) \in {None, "info", "warn", "crit"}
      BY DEF Grade
    <3> HIDE DEF Ple
    <3>4. QED
      BY <3>2, <3>3, ReportAnswered
  <2>7. Answered(Two(row), One(r) \cup Two(r))
    <3>1. CASE Node(row) = None
      BY <3>1 DEF Answered, Report
    <3>2. CASE Node(row) # None /\ Below(r.ple, crit)
      <4>1. Node(row) = "warn" /\ Ple(r) = "crit"
        BY <3>2 DEF Grade
      <4>2. Answered(Two(row), One(r))
        <5>1. NoMilder(Node(row), Ple(r)) /\ Node(row) \in {None, "info", "warn", "crit"}
          BY <4>1 DEF NoMilder
        <5> HIDE DEF Node, Ple
        <5>2. QED
          BY <5>1, ReportAnswered
      <4> HIDE DEF One, Two
      <4>3. QED
        BY <4>2 DEF Answered
    <3>3. CASE Node(row) # None /\ ~Below(r.ple, crit)
      <4>1. Node(row) = "warn" /\ Node(r) = "warn"
        BY <2>1, <2>4, <3>3 DEF NoHigher
      <4>2. Answered(Two(row), Two(r))
        <5>1. NoMilder(Node(row), Node(r)) /\ Node(row) \in {None, "info", "warn", "crit"}
          BY <4>1 DEF NoMilder
        <5> HIDE DEF Node
        <5>2. QED
          BY <5>1, ReportAnswered
      <4> HIDE DEF One, Two
      <4>3. QED
        BY <4>2 DEF Answered
    <3>4. QED
      BY <3>1, <3>2, <3>3
  <2> HIDE DEF One, Two, Three
  <2>8. Answered(All(row, i), All(r, j))
    BY <1>2, <2>6, <2>7 DEF Answered
  <2>9. QED
    BY <2>8
<1>4. /\ MemoryFindings(i, limits) = UNION {All(row, i) : row \in i.memory}
      /\ MemoryFindings(j, limits) = UNION {All(row, j) : row \in j.memory}
  BY DEF MemoryFindings, warn, crit, pending
<1> HIDE DEF All
<1>5. QED
  BY <1>3, <1>4 DEF Answered

LEMMA IoAnswered ==
  ASSUME NEW i, InputType(i), NEW j, InputType(j), NoBetter(i, j), NEW limits, LimitsType(limits)
  PROVE  Answered(IoFindings(i, limits), IoFindings(j, limits))
<1> DEFINE Latency(row, direction) ==
             Severity(row[direction], Limit(limits, "io", direction \o "_latency_ms_warn", None),
                                      Limit(limits, "io", direction \o "_latency_ms_crit", None))
           One(row, direction) == Report(Latency(row, direction), "io", direction \o "_latency_ms", row.file)
<1>1. ASSUME NEW row \in i.io, NEW direction \in {"read", "write"}
      PROVE  \E r \in j.io : Answered(One(row, direction), One(r, direction))
  <2>1. PICK r \in j.io : NoLower(row.read, r.read) /\ NoLower(row.write, r.write)
    BY DEF NoBetter
  <2>2. NoLower(row[direction], r[direction])
    BY <2>1
  <2>3. row[direction] \in Reading /\ r[direction] \in Reading
    BY DEF InputType, Frame
  <2>4. NoMilder(Latency(row, direction), Latency(r, direction))
    BY <2>2, <2>3, LimitType, SeverityNoMilder
  <2>5. QED
    BY <2>4, SeverityType, ReportAnswered
<1>2. /\ IoFindings(i, limits) = UNION {One(row, direction) : row \in i.io, direction \in {"read", "write"}}
      /\ IoFindings(j, limits) = UNION {One(row, direction) : row \in j.io, direction \in {"read", "write"}}
  BY DEF IoFindings
<1> HIDE DEF One
<1>3. QED
  BY <1>1, <1>2 DEF Answered

(* Only the projections tell one growth from another.                        *)
LEMMA SpaceDbAnswered ==
  ASSUME NEW i, InputType(i), NEW j, InputType(j), NoBetter(i, j), NEW limits, LimitsType(limits),
         i.dbGrowth = j.dbGrowth
  PROVE  Answered(SpaceDbFindings(i, limits), SpaceDbFindings(j, limits))
<1> DEFINE warn == Limit(limits, "space", "db_free_pct_warn", None)
           crit == Limit(limits, "space", "db_free_pct_crit", None)
           One(row) == Report(SeverityLow(row.freePct, warn, crit), "space", "db_free_pct", row.file)
           Rows(k) == UNION {One(row) : row \in k.dbSpace}
           Ahead(k) == Projected(k.dbGrowth, limits, "db_days_to_full")
<1>1. ASSUME NEW row \in i.dbSpace
      PROVE  \E r \in j.dbSpace : Answered(One(row), One(r))
  <2>1. PICK r \in j.dbSpace : NoHigher(row.freePct, r.freePct)
    BY DEF NoBetter
  <2>2. row.freePct \in Reading /\ r.freePct \in Reading
    BY DEF InputType, Frame
  <2>3. NoMilder(SeverityLow(row.freePct, warn, crit), SeverityLow(r.freePct, warn, crit))
    BY <2>1, <2>2, LimitType, SeverityLowNoMilder
  <2>4. QED
    BY <2>3, SeverityType, ReportAnswered
<1>2. /\ SpaceDbFindings(i, limits) = Ahead(i) \cup Rows(i)
      /\ SpaceDbFindings(j, limits) = Ahead(j) \cup Rows(j)
  BY DEF SpaceDbFindings
<1> HIDE DEF One
<1>3. Answered(Rows(i), Rows(j))
  BY <1>1 DEF Answered
<1>4. Answered(Ahead(i), Ahead(j))
  BY DEF Answered, NoMilder
<1>5. QED
  BY <1>2, <1>3, <1>4, BothAnswered

LEMMA SpaceDriveAnswered ==
  ASSUME NEW i, InputType(i), NEW j, InputType(j), NoBetter(i, j), NEW limits, LimitsType(limits),
         i.driveGrowth = j.driveGrowth
  PROVE  Answered(SpaceDriveFindings(i, limits), SpaceDriveFindings(j, limits))
<1> DEFINE metric == IF i.volumeStats THEN "drive_free_pct" ELSE "drive_free_mb"
           warn == Limit(limits, "space", metric \o "_warn", None)
           crit == Limit(limits, "space", metric \o "_crit", None)
           Free(row) == IF i.volumeStats THEN row.freePct
                        ELSE IF row.freeGb = None THEN None ELSE row.freeGb * 1024
           One(row) == Report(SeverityLow(Free(row), warn, crit), "space", metric, row.mount)
           Rows(k) == UNION {One(row) : row \in k.driveSpace}
           Ahead(k) == Projected(k.driveGrowth, limits, "drive_days_to_full")
<1>1. warn \in Reading /\ crit \in Reading
  BY LimitType
<1> HIDE DEF warn, crit
<1>2. ASSUME NEW row \in i.driveSpace
      PROVE  \E r \in j.driveSpace : Answered(One(row), One(r))
  <2>1. PICK r \in j.driveSpace : NoHigher(row.freePct, r.freePct) /\ NoHigher(row.freeGb, r.freeGb)
    BY DEF NoBetter
  <2>2. /\ row.freePct \in Reading /\ r.freePct \in Reading
        /\ row.freeGb \in Reading /\ r.freeGb \in Reading
    BY DEF InputType, Frame
  <2>3. Free(row) \in Reading /\ Free(r) \in Reading /\ NoHigher(Free(row), Free(r))
    BY <2>1, <2>2, NoneAssumption DEF NoHigher, Reading
  <2> HIDE DEF Free
  <2>4. NoMilder(SeverityLow(Free(row), warn, crit), SeverityLow(Free(r), warn, crit))
    BY <1>1, <2>3, SeverityLowNoMilder
  <2>5. QED
    BY <2>4, SeverityType, ReportAnswered
<1>3. i.volumeStats = j.volumeStats
  BY DEF NoBetter
<1>4. /\ SpaceDriveFindings(i, limits) = IF i.driveSpace = {} THEN {} ELSE Ahead(i) \cup Rows(i)
      /\ SpaceDriveFindings(j, limits) = IF j.driveSpace = {} THEN {} ELSE Ahead(j) \cup Rows(j)
  BY <1>3 DEF SpaceDriveFindings, warn, crit
<1> HIDE DEF One
<1>5. Answered(Rows(i), Rows(j))
  BY <1>2 DEF Answered
<1>6. Answered(Ahead(i), Ahead(j))
  BY DEF Answered, NoMilder
<1>7. CASE i.driveSpace = {}
  BY <1>4, <1>7 DEF Answered
<1>8. CASE i.driveSpace # {}
  <2>1. j.driveSpace # {}
    BY <1>2, <1>8
  <2>2. QED
    BY <1>4, <1>5, <1>6, <1>8, <2>1, BothAnswered
<1>9. QED
  BY <1>7, <1>8

(* A finite frame has a row with the most seconds.                           *)
LEMMA LongestWait ==
  ASSUME NEW rows, IsFiniteSet(rows), rows # {}, \A row \in rows : row.seconds \in Int
  PROVE  \E row \in rows : \A r \in rows : r.seconds <= row.seconds
<1> DEFINE Longer(row) == {r \in rows : r.seconds > row.seconds}
           Counted == {Cardinality(Longer(row)) : row \in rows}
<1>1. \A row \in rows : IsFiniteSet(Longer(row)) /\ Cardinality(Longer(row)) \in Nat
  <2>1. ASSUME NEW row \in rows
        PROVE  IsFiniteSet(Longer(row))
    BY FS_Subset
  <2>2. QED
    BY <2>1, FS_CardinalityType
<1>2. Counted \in SUBSET Nat /\ Counted # {}
  BY <1>1
<1>3. PICK n \in Counted : \A m \in Counted : n <= m
  BY <1>2, Least
<1>4. PICK row \in rows : n = Cardinality(Longer(row))
  BY <1>3
<1>5. ASSUME NEW r \in rows, r.seconds > row.seconds
      PROVE  FALSE
  <2>1. Longer(r) \subseteq Longer(row) /\ r \in Longer(row) /\ r \notin Longer(r)
    BY <1>5
  <2>2. IsFiniteSet(Longer(row)) /\ IsFiniteSet(Longer(r))
    BY <1>1
  <2> HIDE DEF Longer
  <2>3. /\ Cardinality(Longer(r)) <= Cardinality(Longer(row))
        /\ Cardinality(Longer(r)) = Cardinality(Longer(row)) => Longer(r) = Longer(row)
    BY <2>1, <2>2, FS_Subset
  <2>4. Cardinality(Longer(r)) < Cardinality(Longer(row))
    BY <1>1, <2>1, <2>3
  <2>5. Cardinality(Longer(r)) \in Counted
    OBVIOUS
  <2>6. n <= Cardinality(Longer(r))
    BY <1>3, <2>5
  <2>7. QED
    BY <1>1, <1>4, <2>4, <2>6
<1>6. QED
  BY <1>5

LEMMA BlockingAnswered ==
  ASSUME NEW i, InputType(i), NEW j, InputType(j), NoBetter(i, j), NEW limits, LimitsType(limits)
  PROVE  Answered(BlockingFindings(i, limits), BlockingFindings(j, limits))
<1> DEFINE warn == Limit(limits, "blocking", "block_seconds_warn", None)
           crit == Limit(limits, "blocking", "block_seconds_crit", None)
           Most(k) == {row \in k.blocking : \A r \in k.blocking : r.seconds <= row.seconds}
           most(k) == CHOOSE row \in Most(k) : TRUE
           One(row) == Report(Severity(row.seconds, warn, crit), "blocking", "block_seconds", row.database)
<1>1. warn \in Reading /\ crit \in Reading
  BY LimitType
<1> HIDE DEF warn, crit
<1>2. /\ BlockingFindings(i, limits) = IF i.blocking = {} THEN {} ELSE One(most(i))
      /\ BlockingFindings(j, limits) = IF j.blocking = {} THEN {} ELSE One(most(j))
  BY DEF BlockingFindings, warn, crit
<1>3. \A k \in {i, j} : IsFiniteSet(k.blocking) /\ \A row \in k.blocking : row.seconds \in Int
  BY DEF InputType, Frame, Reading
<1>4. \A k \in {i, j} : k.blocking # {} => most(k) \in Most(k)
  BY <1>3, LongestWait
<1>5. CASE i.blocking = {}
  BY <1>2, <1>5 DEF Answered
<1>6. CASE i.blocking # {}
  <2>1. j.blocking # {}
    BY <1>6 DEF NoBetter
  <2>2. most(i) \in Most(i) /\ most(j) \in Most(j)
    BY <1>4, <1>6, <2>1
  <2> HIDE DEF most
  <2>3. PICK r \in j.blocking : most(i).seconds <= r.seconds
    BY <2>2 DEF NoBetter
  <2>4. most(i).seconds \in Int /\ most(j).seconds \in Int /\ most(i).seconds <= most(j).seconds
    BY <1>3, <2>2, <2>3
  <2>5. NoLower(most(i).seconds, most(j).seconds)
    BY <2>4, NoneAssumption DEF NoLower
  <2>6. NoMilder(Severity(most(i).seconds, warn, crit), Severity(most(j).seconds, warn, crit))
    BY <1>1, <2>4, <2>5, SeverityNoMilder DEF Reading
  <2>7. Answered(One(most(i)), One(most(j)))
    BY <2>6, SeverityType, ReportAnswered
  <2>8. QED
    BY <1>2, <1>6, <2>1, <2>7
<1>7. QED
  BY <1>5, <1>6

LEMMA DeadlocksAnswered ==
  ASSUME NEW i, InputType(i), NEW j, InputType(j), NoBetter(i, j), NEW limits, LimitsType(limits)
  PROVE  Answered(DeadlockFindings(i, limits), DeadlockFindings(j, limits))
<1> DEFINE warn == Limit(limits, "deadlock", "count_24h_warn", None)
           crit == Limit(limits, "deadlock", "count_24h_crit", None)
           One(k) == Report(Severity(k.deadlocks, warn, crit), "deadlock", "deadlock_count_24h", "instance")
<1>1. i.deadlocks \in Nat /\ j.deadlocks \in Nat /\ i.deadlocks <= j.deadlocks
  BY DEF InputType, NoBetter
<1>2. NoLower(i.deadlocks, j.deadlocks) /\ i.deadlocks \in Reading /\ j.deadlocks \in Reading
  BY <1>1, NoneAssumption DEF NoLower, Reading
<1>3. NoMilder(Severity(i.deadlocks, warn, crit), Severity(j.deadlocks, warn, crit))
  BY <1>2, LimitType, SeverityNoMilder
<1>4. Answered(One(i), One(j))
  BY <1>3, SeverityType, ReportAnswered
<1>5. /\ DeadlockFindings(i, limits) = IF i.deadlocks = 0 THEN {} ELSE One(i)
      /\ DeadlockFindings(j, limits) = IF j.deadlocks = 0 THEN {} ELSE One(j)
  BY DEF DeadlockFindings
<1> HIDE DEF One
<1>6. CASE i.deadlocks = 0
  BY <1>5, <1>6 DEF Answered
<1>7. CASE i.deadlocks # 0
  <2>1. j.deadlocks # 0
    BY <1>1, <1>7
  <2>2. QED
    BY <1>4, <1>5, <1>7, <2>1
<1>8. QED
  BY <1>6, <1>7

LEMMA IndexAnswered ==
  ASSUME NEW i, InputType(i), NEW j, InputType(j), NoBetter(i, j), NEW limits, LimitsType(limits)
  PROVE  Answered(IndexFindings(i, limits), IndexFindings(j, limits))
<1> DEFINE pct == Limit(limits, "index", "frag_pct_min_report", 15)
           pages == Limit(limits, "index", "min_page_count", 1000)
           Fragmented(k) == {row \in k.indexFrag : row.fragPct >= pct /\ row.pages >= pages}
           Some(rows) == IF rows = {} THEN None ELSE "info"
           One(k) == Report(Some(Fragmented(k)), "index", "index_fragmentation", "indexes")
           Two(k) == Report(Some(k.indexMissing), "index", "missing_indexes", "indexes")
           Three(k) == Report(Some(k.indexUnused), "index", "unused_indexes", "indexes")
<1>1. pct \in Int /\ pages \in Int
  <2>1. "frag_pct_min_report" \in Counts /\ "min_page_count" \in Counts /\ 15 \in Int /\ 1000 \in Int
    BY DEF Counts
  <2>2. QED
    BY <2>1, CountType
<1> HIDE DEF pct, pages
<1>2. Fragmented(i) # {} => Fragmented(j) # {}
  <2>1. SUFFICES ASSUME NEW row \in Fragmented(i)
                 PROVE  Fragmented(j) # {}
    OBVIOUS
  <2>2. PICK r \in j.indexFrag : row.fragPct <= r.fragPct /\ row.pages <= r.pages
    BY DEF NoBetter
  <2>3. row.fragPct \in Int /\ r.fragPct \in Int /\ row.pages \in Int /\ r.pages \in Int
    BY DEF InputType, Frame, Reading
  <2>4. r \in Fragmented(j)
    BY <1>1, <2>2, <2>3
  <2>5. QED
    BY <2>4
<1>3. i.indexMissing = j.indexMissing /\ i.indexUnused = j.indexUnused
  BY DEF NoBetter
<1>4. \A rows : Some(rows) \in {None, "info", "warn", "crit"}
  OBVIOUS
<1>5. \A rows, others : (rows # {} => others # {}) => NoMilder(Some(rows), Some(others))
  BY DEF NoMilder
<1>6. NoMilder(Some(Fragmented(i)), Some(Fragmented(j)))
  BY <1>2, <1>5
<1>7. /\ NoMilder(Some(i.indexMissing), Some(j.indexMissing))
      /\ NoMilder(Some(i.indexUnused), Some(j.indexUnused))
  BY <1>3 DEF NoMilder
<1>8. IndexFindings(i, limits) = One(i) \cup Two(i) \cup Three(i)
  BY DEF IndexFindings, pct, pages
<1>9. IndexFindings(j, limits) = One(j) \cup Two(j) \cup Three(j)
  BY DEF IndexFindings, pct, pages
<1> HIDE DEF Some, Fragmented
<1>10. Answered(One(i), One(j)) /\ Answered(Two(i), Two(j)) /\ Answered(Three(i), Three(j))
  BY <1>4, <1>6, <1>7, ReportAnswered
<1> HIDE DEF One, Two, Three
<1>11. QED
  BY <1>8, <1>9, <1>10 DEF Answered

LEMMA StatsAnswered ==
  ASSUME NEW i, NEW j, NoBetter(i, j), NEW limits
  PROVE  Answered(StatsFindings(i, limits), StatsFindings(j, limits))
<1>1. i.statsStale = j.statsStale /\ i.autoUpdateOff = j.autoUpdateOff
  BY DEF NoBetter
<1>2. StatsFindings(i, limits) = StatsFindings(j, limits)
  BY <1>1 DEF StatsFindings
<1>3. QED
  BY <1>2 DEF Answered, NoMilder

-----------------------------------------------------------------------------
(* The findings of all the rules.                                            *)

FindingType(f) == f.severity \in {"info", "warn", "crit"}

LEMMA ReportType ==
  ASSUME NEW s \in {None, "info", "warn", "crit"}, NEW category, NEW metric, NEW object,
         NEW f \in Report(s, category, metric, object)
  PROVE  f.severity \in {"info", "warn", "crit"} /\ f.category = category
BY DEF Report

(* A projection is about space.                                              *)
LEMMA ProjectedType ==
  ASSUME NEW growth, NEW limits, NEW metric, NEW f \in Projected(growth, limits, metric)
  PROVE  FindingType(f) /\ f.category = "space"
<1> DEFINE warn == Limit(limits, "space", "days_to_full_warn", None)
           Tenths(key) == DaysToFull(growth[key].points, growth[key].capacity)
           Due(key) == IF None \in {warn, Tenths(key)} THEN None
                       ELSE SeverityLow(Tenths(key), 10 * warn, 5 * warn)
<1>1. PICK key \in DOMAIN growth : f \in Report(Due(key), "space", metric, key)
  BY DEF Projected
<1>2. Due(key) \in {None, "info", "warn", "crit"}
  BY SeverityType
<1> HIDE DEF Due
<1>3. QED
  BY <1>1, <1>2, ReportType DEF FindingType

LEMMA FindingsType ==
  ASSUME NEW i, NEW limits, NEW f \in Findings(i, limits)
  PROVE  f.severity \in {"info", "warn", "crit"}
<1>1. CASE f \in CpuFindings(i, limits)
  BY <1>1, SeverityType, ReportType DEF CpuFindings
<1>2. CASE f \in MemoryFindings(i, limits)
  BY <1>2, ReportType DEF MemoryFindings, Grade
<1>3. CASE f \in IoFindings(i, limits)
  BY <1>3, SeverityType, ReportType DEF IoFindings
<1>4. CASE f \in SpaceDbFindings(i, limits)
  BY <1>4, SeverityType, ReportType, ProjectedType DEF SpaceDbFindings, FindingType
<1>5. CASE f \in SpaceDriveFindings(i, limits)
  BY <1>5, SeverityType, ReportType, ProjectedType DEF SpaceDriveFindings, FindingType
<1>6. CASE f \in BlockingFindings(i, limits)
  BY <1>6, SeverityType, ReportType DEF BlockingFindings
<1>7. CASE f \in DeadlockFindings(i, limits)
  BY <1>7, SeverityType, ReportType DEF DeadlockFindings
<1>8. CASE f \in IndexFindings(i, limits)
  BY <1>8, ReportType DEF IndexFindings
<1>9. CASE f \in StatsFindings(i, limits)
  BY <1>9, ReportType DEF StatsFindings
<1>10. QED
  BY <1>1, <1>2, <1>3, <1>4, <1>5, <1>6, <1>7, <1>8, <1>9 DEF Findings

(* What is no better is judged no more mildly, whatever the thresholds: each *)
(* finding is answered by one of its category at least as severe.  Only the  *)
(* projections of another growth may put off what they announced.            *)
THEOREM NoBetterNoMilder ==
  ASSUME NEW i, InputType(i), NEW j, InputType(j), NoBetter(i, j), NEW limits, LimitsType(limits),
         NEW f \in Findings(i, limits),
         f.category = "space" => i.dbGrowth = j.dbGrowth /\ i.driveGrowth = j.driveGrowth
  PROVE  \E g \in Findings(j, limits) : g.category = f.category /\ NoMilder(f.severity, g.severity)
<1>1. CASE f \in CpuFindings(i, limits)
  BY <1>1, CpuAnswered DEF Answered, Findings
<1>2. CASE f \in MemoryFindings(i, limits)
  BY <1>2, MemoryAnswered DEF Answered, Findings
<1>3. CASE f \in IoFindings(i, limits)
  BY <1>3, IoAnswered DEF Answered, Findings
<1>4. CASE f \in SpaceDbFindings(i, limits)
  <2>1. f.category = "space"
    BY <1>4, SeverityType, ReportType, ProjectedType DEF SpaceDbFindings
  <2>2. QED
    BY <1>4, <2>1, SpaceDbAnswered DEF Answered, Findings
<1>5. CASE f \in SpaceDriveFindings(i, limits)
  <2>1. f.category = "space"
    BY <1>5, SeverityType, ReportType, ProjectedType DEF SpaceDriveFindings
  <2>2. QED
    BY <1>5, <2>1, SpaceDriveAnswered DEF Answered, Findings
<1>6. CASE f \in BlockingFindings(i, limits)
  BY <1>6, BlockingAnswered DEF Answered, Findings
<1>7. CASE f \in DeadlockFindings(i, limits)
  BY <1>7, DeadlocksAnswered DEF Answered, Findings
<1>8. CASE f \in IndexFindings(i, limits)
  BY <1>8, IndexAnswered DEF Answered, Findings
<1>9. CASE f \in StatsFindings(i, limits)
  BY <1>9, StatsAnswered DEF Answered, Findings
<1>10. QED
  BY <1>1, <1>2, <1>3, <1>4, <1>5, <1>6, <1>7, <1>8, <1>9 DEF Findings
===============================================================================
