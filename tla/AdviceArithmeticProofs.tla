------------------------ MODULE AdviceArithmeticProofs ------------------------
(***************************************************************************)
(* The arithmetic of Advice, for all angles, distances and shares: what is *)
(* said of a side is where the sun is, and the two sides are treated       *)
(* alike; what sums of distances are, however many there are; and that     *)
(* percentages are rounded to a hundred in all and a point each.           *)
(*                                                                         *)
(* What a fold computes is shown by least counterexamples: of the lengths  *)
(* at which a claim about prefixes fails there would be a least one.       *)
(***************************************************************************)
EXTENDS Advice, SequenceTheorems, WellFoundedInduction, TLAPS

-----------------------------------------------------------------------------
(* Remainders *)

\* What division by a whole turn gives.
LEMMA Division ==
    ASSUME NEW x \in Int
    PROVE  /\ x \div 360 \in Int
           /\ x % 360 \in 0..359
           /\ x % 360 = x - 360 * (x \div 360)
  BY SMT

Divided(x, q, r) == x % 360 = r /\ x - 360 * q = r

\* Every angle is one of 0 to 359 degrees and some turns,
LEMMA Representation ==
    ASSUME NEW x \in Int
    PROVE  \E q \in Int, r \in 0..359 : Divided(x, q, r)
  <1> DEFINE q == x \div 360
             r == x % 360
  <1>1. q \in Int /\ r \in 0..359 /\ r = x - 360 * q
    BY Division
  <1>2. Divided(x, q, r)
    BY <1>1 DEF Divided
  <1> QED BY <1>1, <1>2

\* in one way only.
LEMMA Remainder ==
    ASSUME NEW x \in Int, NEW r \in 0..359, NEW q \in Int, x - 360 * q = r
    PROVE  x % 360 = r
  <1>1. PICK p \in Int, m \in 0..359 : Divided(x, p, m)
    BY Representation
  <1>2. x % 360 = m /\ 360 * p + m = 360 * q + r
    BY <1>1 DEF Divided
  <1>3. m = r
    <2>1. CASE p >= q + 1
      BY <2>1, <1>2
    <2>2. CASE p <= q - 1
      BY <2>2, <1>2
    <2>3. CASE p = q
      BY <2>3, <1>2
    <2> QED BY <2>1, <2>2, <2>3
  <1> QED BY <1>2, <1>3

-----------------------------------------------------------------------------
(* Turns *)

\* Two angles are the same direction if they differ by whole turns.
SameWay(a, b) == a % 360 = b % 360

TurnsApart(a, b) == \E k \in Int : a - b = 360 * k

\* Angles are the same direction exactly when whole turns are between them.
LEMMA WholeTurns ==
    ASSUME NEW a \in Int, NEW b \in Int
    PROVE  SameWay(a, b) <=> TurnsApart(a, b)
  <1>1. PICK q \in Int, r \in 0..359 : a % 360 = r /\ a - 360 * q = r
    BY Representation DEF Divided
  <1>2. PICK p \in Int, s \in 0..359 : b % 360 = s /\ b - 360 * p = s
    BY Representation DEF Divided
  <1>3. ASSUME SameWay(a, b)
        PROVE  TurnsApart(a, b)
    <2>1. r = s
      BY <1>1, <1>2, <1>3 DEF SameWay
    <2>2. PICK k \in Int : k = q - p
      OBVIOUS
    <2>3. a - b = 360 * k
      BY <1>1, <1>2, <2>1, <2>2
    <2> QED BY <2>3 DEF TurnsApart
  <1>4. ASSUME NEW k \in Int, a - b = 360 * k
        PROVE  SameWay(a, b)
    <2>1. PICK u \in Int : u = p + k
      OBVIOUS
    <2>2. a - 360 * u = s
      BY <1>2, <1>4, <2>1
    <2>3. a % 360 = s
      BY <2>2, Remainder
    <2> QED BY <1>2, <2>3 DEF SameWay
  <1> QED BY <1>3, <1>4 DEF TurnsApart

-----------------------------------------------------------------------------
(* Sectors *)

\* The difference of two angles is the turn from one to the other, from -180 to
\* 179 degrees.
LEMMA DifferenceType ==
    ASSUME NEW a \in Int, NEW b \in Int
    PROVE  Difference(a, b) \in -180..179
  <1>1. PICK x \in Int : x = a - b + 180
    OBVIOUS
  <1>2. PICK p \in Int, s \in 0..359 : x % 360 = s /\ x - 360 * p = s
    BY Representation DEF Divided
  <1>3. Difference(a, b) = s - 180
    BY <1>1, <1>2 DEF Difference
  <1> QED BY <1>3

\* Difference is the turn that leads from the second angle to the first.
LEMMA DifferenceIsTurn ==
    ASSUME NEW a \in Int, NEW b \in Int, NEW d \in -180..179
    PROVE  Difference(a, b) = d <=> SameWay(b + d, a)
  <1>1. PICK x \in Int, m \in 0..359 : x = a - b + 180 /\ m = d + 180
    OBVIOUS
  <1>2. Difference(a, b) = d <=> x % 360 = m
    <2>1. PICK s \in 0..359 : x % 360 = s
      BY Representation DEF Divided
    <2>2. Difference(a, b) = s - 180
      BY <1>1, <2>1 DEF Difference
    <2> QED BY <1>1, <2>1, <2>2
  <1>3. ASSUME x % 360 = m
        PROVE  SameWay(b + d, a)
    <2>1. PICK q \in Int : x - 360 * q = m
      BY <1>3, Representation DEF Divided
    <2>2. PICK k \in Int : k = -q
      OBVIOUS
    <2>3. (b + d) - a = 360 * k
      BY <1>1, <2>1, <2>2
    <2>4. b + d \in Int
      OBVIOUS
    <2> QED BY <2>3, <2>4, WholeTurns DEF TurnsApart
  <1>4. ASSUME SameWay(b + d, a)
        PROVE  x % 360 = m
    <2>1. b + d \in Int
      OBVIOUS
    <2>2. PICK k \in Int : (b + d) - a = 360 * k
      BY <1>4, <2>1, WholeTurns DEF TurnsApart
    <2>3. PICK q \in Int : q = -k
      OBVIOUS
    <2>4. x - 360 * q = m
      BY <1>1, <2>2, <2>3
    <2> QED BY <2>4, Remainder
  <1> QED BY <1>2, <1>3, <1>4

\* Some degrees of the sector of a side lead from the second angle to the first.
ToTheRight(a, b) == \E d \in 21..159 : SameWay(b + d, a)

\* The difference is in the sector of a side exactly when some degrees of it lead
\* from one angle to the other.
LEMMA RightSector ==
    ASSUME NEW a \in Int, NEW b \in Int
    PROVE  Difference(a, b) \in 21..159 <=> ToTheRight(a, b)
  <1>1. ASSUME NEW d \in 21..159
        PROVE  Difference(a, b) = d <=> SameWay(b + d, a)
    <2>1. d \in -180..179
      OBVIOUS
    <2> QED BY <2>1, DifferenceIsTurn, Zenon
  <1> QED BY <1>1 DEF ToTheRight

\* The same to the other side.
LEMMA LeftSector ==
    ASSUME NEW a \in Int, NEW b \in Int
    PROVE  Difference(a, b) \in -159..-21 <=> ToTheRight(b, a)
  <1>1. ASSUME NEW d \in 21..159
        PROVE  Difference(a, b) = -d <=> SameWay(a + d, b)
    <2>1. PICK e \in -180..179 : e = -d
      OBVIOUS
    <2>2. Difference(a, b) = e <=> SameWay(b + e, a)
      BY DifferenceIsTurn, Zenon
    <2>3. PICK x \in Int, y \in Int : x = b + e /\ y = a + d
      OBVIOUS
    <2>4. SameWay(x, a) <=> SameWay(y, b)
      <3>1. ASSUME NEW k \in Int, x - a = 360 * k
            PROVE  TurnsApart(y, b)
        <4>1. -k \in Int /\ y - b = 360 * (-k)
          BY <2>1, <2>3, <3>1
        <4> QED BY <4>1 DEF TurnsApart
      <3>2. ASSUME NEW k \in Int, y - b = 360 * k
            PROVE  TurnsApart(x, a)
        <4>1. -k \in Int /\ x - a = 360 * (-k)
          BY <2>1, <2>3, <3>2
        <4> QED BY <4>1 DEF TurnsApart
      <3>3. SameWay(x, a) <=> TurnsApart(x, a)
        BY WholeTurns
      <3>4. SameWay(y, b) <=> TurnsApart(y, b)
        BY WholeTurns
      <3> QED BY <3>1, <3>2, <3>3, <3>4 DEF TurnsApart
    <2>5. SameWay(b + e, a) <=> SameWay(a + d, b)
      BY <2>3, <2>4, Zenon
    <2> QED BY <2>1, <2>2, <2>5
  <1>2. ASSUME Difference(a, b) \in -159..-21
        PROVE  \E d \in 21..159 : Difference(a, b) = -d
    <2>1. PICK e \in -159..-21 : Difference(a, b) = e
      BY <1>2
    <2>2. -e \in 21..159 /\ e = -(-e)
      OBVIOUS
    <2> QED BY <2>1, <2>2
  <1> QED BY <1>1, <1>2 DEF ToTheRight

\* ExposureDirection by the difference and the elevation alone.
Sector(delta, elevation) ==
    IF elevation < 0 THEN "none"
    ELSE IF elevation >= 70 THEN "overhead"
    ELSE IF delta \in -20..20 THEN "front"
    ELSE IF delta \notin -159..159 THEN "back"
    ELSE IF delta > 0 THEN "right" ELSE "left"

\* exposure_direction looks at the elevation and the difference alone.
LEMMA ExposureIsSector ==
    ASSUME NEW s \in Segments
    PROVE  ExposureDirection(s) = Sector(Difference(s.azimuth, s.bearing), s.elevation)
  BY DifferenceType DEF Segments, ExposureDirection, Sector

\* The sun is said to be on a side exactly when it is between 20 and 160 degrees
\* to that side of the way the bus goes, above the horizon and below 70 degrees.
THEOREM SideIsWhereTheSunIs ==
    ASSUME NEW s \in Segments, NEW side \in {"left", "right"}
    PROVE  ExposureDirection(s) = side <=> SunOn(side, s)
  <1>1. PICK a \in Int, b \in Int, e \in Int :
           s.azimuth = a /\ s.bearing = b /\ s.elevation = e
    BY DEF Segments
  <1>2. PICK delta \in -180..179 : Difference(a, b) = delta
    BY DifferenceType
  <1>3. ExposureDirection(s) = Sector(delta, e)
    BY <1>1, <1>2, ExposureIsSector
  <1>4. CASE side = "right"
    <2>1. SunOn(side, s) <=> e \in 0..69 /\ ToTheRight(a, b)
      BY <1>1, <1>4 DEF SunOn, ToTheRight, SameWay
    <2>2. Difference(a, b) \in 21..159 <=> ToTheRight(a, b)
      BY RightSector
    <2>3. SunOn(side, s) <=> e \in 0..69 /\ delta \in 21..159
      BY <1>2, <2>1, <2>2, Zenon
    <2> QED BY <1>3, <1>4, <2>3 DEF Sector
  <1>5. CASE side = "left"
    <2>1. SunOn(side, s) <=> e \in 0..69 /\ ToTheRight(b, a)
      BY <1>1, <1>5 DEF SunOn, ToTheRight, SameWay
    <2>2. Difference(a, b) \in -159..-21 <=> ToTheRight(b, a)
      BY LeftSector
    <2>3. SunOn(side, s) <=> e \in 0..69 /\ delta \in -159..-21
      BY <1>2, <2>1, <2>2, Zenon
    <2> QED BY <1>3, <1>5, <2>3 DEF Sector
  <1> QED BY <1>4, <1>5

\* Mirrored at the sun a segment has the sun on the other side, in the same way:
\* neither side is favoured at the borders of the sectors.
THEOREM MirroredExposure ==
    ASSUME NEW segments \in Seq(Segments), NEW k \in DOMAIN segments
    PROVE  /\ Mirrored(segments)[k] \in Segments
           /\ ExposureDirection(Mirrored(segments)[k]) = Swap(ExposureDirection(segments[k]))
  <1> DEFINE s == segments[k]
             t == Mirrored(segments)[k]
  <1>1. s \in Segments
    OBVIOUS
  <1>2. PICK a \in Int, b \in Int, e \in Int :
           s.azimuth = a /\ s.bearing = b /\ s.elevation = e
    BY <1>1 DEF Segments
  <1>3. PICK m \in Int : m = (2 * a - b) % 360 /\ SameWay(m, 2 * a - b)
    <2>1. PICK x \in Int : x = 2 * a - b
      <3>1. 2 * a - b \in Int
        OBVIOUS
      <3> QED BY <3>1, Zenon
    <2>2. PICK q \in Int, m \in 0..359 : Divided(x, q, m)
      BY Representation
    <2>3. PICK j \in Int : j = -q
      OBVIOUS
    <2>4. x % 360 = m /\ m - x = 360 * j
      BY <2>2, <2>3 DEF Divided
    <2>5. SameWay(m, x)
      BY <2>4, WholeTurns DEF TurnsApart
    <2> QED BY <2>1, <2>4, <2>5
  <1>4. t = [s EXCEPT !.bearing = m]
    BY <1>2, <1>3 DEF Mirrored
  <1>5. t \in Segments /\ t.azimuth = a /\ t.bearing = m /\ t.elevation = e
    BY <1>1, <1>2, <1>4 DEF Segments
  <1>6. PICK delta \in -180..179 : Difference(a, b) = delta
    BY DifferenceType
  <1>7. PICK back \in -180..179 : back = IF delta = -180 THEN -180 ELSE -delta
    OBVIOUS
  <1>8. Difference(a, m) = back
    <2>1. b + delta \in Int /\ m + back \in Int /\ 2 * a - b \in Int
      OBVIOUS
    <2>2. SameWay(b + delta, a)
      BY <1>6, DifferenceIsTurn, Zenon
    <2>3. PICK i \in Int : (b + delta) - a = 360 * i
      BY <2>1, <2>2, WholeTurns DEF TurnsApart
    <2>4. PICK j \in Int : m - (2 * a - b) = 360 * j
      BY <1>3, <2>1, WholeTurns DEF TurnsApart
    <2>5. PICK n \in Int : n = IF delta = -180 THEN 1 ELSE 0
      OBVIOUS
    <2>6. PICK l \in Int : l = j - i - n
      OBVIOUS
    <2>7. back = -delta - 360 * n
      BY <1>7, <2>5
    <2>8. (m + back) - a = 360 * l
      BY <2>3, <2>4, <2>6, <2>7
    <2>9. SameWay(m + back, a)
      BY <2>1, <2>8, WholeTurns DEF TurnsApart
    <2> QED BY <2>9, DifferenceIsTurn, Zenon
  <1>9. ExposureDirection(s) = Sector(delta, e) /\ ExposureDirection(t) = Sector(back, e)
    BY <1>1, <1>2, <1>5, <1>6, <1>8, ExposureIsSector
  <1>10. Sector(back, e) = Swap(Sector(delta, e))
    <2>1. /\ back \in -20..20 <=> delta \in -20..20
          /\ back \in -159..159 <=> delta \in -159..159
          /\ delta \in -159..159 /\ delta \notin -20..20 => (back > 0 <=> ~(delta > 0))
      BY <1>7
    <2>2. CASE e < 0 \/ e >= 70
      BY <2>2 DEF Sector, Swap
    <2>3. CASE e \in 0..69
      BY <2>1, <2>3 DEF Sector, Swap
    <2> QED BY <2>2, <2>3
  <1> QED BY <1>5, <1>9, <1>10

-----------------------------------------------------------------------------
(* Sums *)

\* Of some natural numbers one is the least.
LEMMA LeastNatural ==
    ASSUME NEW T \in SUBSET Nat, T # {}
    PROVE  \E x \in T : \A y \in T : x <= y
  <1> DEFINE Less == {pair \in Nat \X Nat : pair[1] < pair[2]}
  <1>1. IsWellFoundedOn(Less, Nat)
    BY NatLessThanWellFounded DEF OpToRel
  <1>2. PICK x \in T : \A y \in T : ~(<<y, x>> \in Less)
    <2> HIDE DEF Less
    <2> QED BY <1>1, WFMin
  <1>3. ASSUME NEW y \in T
        PROVE  x <= y
    <2>1. x \in Nat /\ y \in Nat
      OBVIOUS
    <2>2. y < x => <<y, x>> \in Less
      BY <2>1
    <2>3. ~(<<y, x>> \in Less)
      BY <1>2
    <2> QED BY <2>1, <2>2, <2>3
  <1> QED BY <1>3

\* What the fold of a sequence computes for every set of its indices.
Folded(d, g) ==
    g = [T \in SUBSET DOMAIN d |->
            IF T = {} THEN 0 ELSE LET x == Max(T) IN g[T \ {x}] + d[x]]

\* Sum is the fold of the whole sequence.
LEMMA SumIsFold ==
    ASSUME NEW d
    PROVE  Sum(d) = (CHOOSE g : Folded(d, g))[DOMAIN d]
  BY DEF Sum, FoldLeft, MapThenFoldSet, Folded

\* Induction over 0..n, about the set of the numbers that a claim holds for.
LEMMA InductionUpTo ==
    ASSUME NEW n \in Nat, NEW G, 0 \in G, \A j \in 0..(n - 1) : j \in G => j + 1 \in G
    PROVE  \A j \in 0..n : j \in G
  <1> DEFINE Bad == {j \in 0..n : j \notin G}
  <1>1. SUFFICES ASSUME Bad # {}
                 PROVE  FALSE
    OBVIOUS
  <1>2. PICK j \in Bad : \A i \in Bad : j <= i
    <2>1. Bad \in SUBSET Nat
      OBVIOUS
    <2> HIDE DEF Bad
    <2> QED BY <1>1, <2>1, LeastNatural
  <1>3. j \in 0..n /\ j \notin G /\ j # 0
    BY <1>2
  <1>4. PICK i \in 0..(n - 1) : j = i + 1
    <2>1. j - 1 \in 0..(n - 1) /\ j = (j - 1) + 1
      BY <1>3
    <2> QED BY <2>1
  <1>5. i \in G
    BY <1>2, <1>4
  <1> QED BY <1>3, <1>4, <1>5

\* Max chooses the greatest of some of 1..n.
LEMMA MaxOfNaturals ==
    ASSUME NEW n \in Nat, NEW T \in SUBSET (1..n), T # {}
    PROVE  Max(T) \in T /\ \A x \in T : Max(T) >= x
  <1> DEFINE Gaps == {n - x : x \in T}
  <1>1. Gaps \in SUBSET Nat /\ Gaps # {}
    <2>1. \A x \in T : n - x \in Nat
      OBVIOUS
    <2> QED BY <2>1
  <1>2. PICK g \in Gaps : \A h \in Gaps : g <= h
    <2> HIDE DEF Gaps
    <2> QED BY <1>1, LeastNatural
  <1>3. PICK m \in T : g = n - m
    BY <1>2
  <1>4. \A x \in T : m >= x
    <2>1. ASSUME NEW x \in T
          PROVE  m >= x
      <3>1. g <= n - x
        BY <1>2
      <3> QED BY <1>3, <3>1
    <2> QED BY <2>1
  <1> QED BY <1>3, <1>4, Zenon DEF Max

\* A fold of the first k distances says for every set of their indices what the
\* distances there sum to.
Folds(d, k, g) ==
    /\ g \in [SUBSET (1..k) -> Int]
    /\ \A T \in SUBSET (1..k) :
          g[T] = IF T = {} THEN 0 ELSE g[T \ {Max(T)}] + d[Max(T)]

\* What a fold computes for the first k numbers extends to the next one.
LEMMA FoldStep ==
    ASSUME NEW k \in Nat, NEW d, d[k + 1] \in Int, NEW g, Folds(d, k, g)
    PROVE  \E h : Folds(d, k + 1, h)
  <1> DEFINE j == k + 1
             h == [T \in SUBSET (1..j) |-> IF j \in T THEN g[T \ {j}] + d[j] ELSE g[T]]
  <1>1. ASSUME NEW T \in SUBSET (1..j)
        PROVE  /\ T \ {j} \in SUBSET (1..k)
               /\ j \notin T => T \in SUBSET (1..k)
    OBVIOUS
  <1>2. j \in Nat /\ d[j] \in Int
    OBVIOUS
  <1> HIDE DEF j
  <1>3. h \in [SUBSET (1..j) -> Int]
    <2>1. ASSUME NEW T \in SUBSET (1..j)
          PROVE  (IF j \in T THEN g[T \ {j}] + d[j] ELSE g[T]) \in Int
      <3>1. CASE j \in T
        <4>1. g[T \ {j}] \in Int
          BY <1>1 DEF Folds
        <4> QED BY <1>2, <3>1, <4>1
      <3>2. CASE j \notin T
        <4>1. g[T] \in Int
          BY <1>1, <3>2 DEF Folds
        <4> QED BY <3>2, <4>1
      <3> QED BY <3>1, <3>2
    <2> QED BY <2>1
  <1>4. ASSUME NEW T \in SUBSET (1..j)
        PROVE  h[T] = IF T = {} THEN 0 ELSE h[T \ {Max(T)}] + d[Max(T)]
    <2>1. CASE j \in T
      <3>1. Max(T) \in T /\ \A x \in T : Max(T) >= x
        BY <1>2, <2>1, MaxOfNaturals
      <3>2. Max(T) = j
        <4>1. Max(T) \in 1..j /\ Max(T) >= j
          BY <2>1, <3>1
        <4> QED BY <1>2, <4>1
      <3>3. T \ {j} \in SUBSET (1..j) /\ j \notin T \ {j}
        OBVIOUS
      <3>4. h[T \ {j}] = g[T \ {j}]
        BY <3>3
      <3> QED BY <2>1, <3>2, <3>4
    <2>2. CASE j \notin T
      <3>1. T \in SUBSET (1..k)
        BY <1>1, <2>2
      <3>2. g[T] = IF T = {} THEN 0 ELSE g[T \ {Max(T)}] + d[Max(T)]
        BY <3>1 DEF Folds
      <3>3. T \ {Max(T)} \in SUBSET (1..j) /\ j \notin T \ {Max(T)}
        BY <2>2
      <3>4. h[T \ {Max(T)}] = g[T \ {Max(T)}]
        BY <3>3
      <3> QED BY <2>2, <3>2, <3>4
    <2> QED BY <2>1, <2>2
  <1>5. Folds(d, j, h)
    <2> HIDE DEF h
    <2> QED BY <1>3, <1>4 DEF Folds
  <1> QED BY <1>5 DEF j

\* So a fold computes something for all of them.
LEMMA FoldExists ==
    ASSUME NEW n \in Nat, NEW d \in [1..n -> Int]
    PROVE  \A k \in 0..n : \E g : Folds(d, k, g)
  <1> DEFINE G == {k \in 0..n : \E g : Folds(d, k, g)}
  <1>1. 0 \in G
    <2> DEFINE g == [T \in SUBSET (1..0) |-> 0]
    <2>1. g \in [SUBSET (1..0) -> Int]
      OBVIOUS
    <2>2. ASSUME NEW T \in SUBSET (1..0)
          PROVE  T = {} /\ g[T] = 0
      OBVIOUS
    <2>3. Folds(d, 0, g)
      BY <2>1, <2>2 DEF Folds
    <2> QED BY <2>3
  <1>2. ASSUME NEW j \in 0..(n - 1), j \in G
        PROVE  j + 1 \in G
    <2>1. PICK g : Folds(d, j, g)
      BY <1>2
    <2>2. j \in Nat /\ j + 1 \in 0..n /\ d[j + 1] \in Int
      OBVIOUS
    <2>3. \E h : Folds(d, j + 1, h)
      BY <2>1, <2>2, FoldStep
    <2> QED BY <2>2, <2>3
  <1>3. \A k \in 0..n : k \in G
    <2> HIDE DEF G
    <2> QED BY <1>1, <1>2, InductionUpTo
  <1> QED BY <1>3

\* The sums of the first distances, of none of them on.
RunningSums(d, n, p) ==
    /\ p \in [0..n -> Int]
    /\ p[0] = 0
    /\ \A k \in 1..n : p[k] = p[k - 1] + d[k]

\* Sum is the last of them.
LEMMA SumIsLastPrefix ==
    ASSUME NEW n \in Nat, NEW d \in [1..n -> Int]
    PROVE  \E p : RunningSums(d, n, p) /\ Sum(d) = p[n]
  <1>1. \E g : Folded(d, g)
    <2>1. PICK g : Folds(d, n, g)
      BY FoldExists
    <2>2. g = [T \in SUBSET (1..n) |-> g[T]]
      BY <2>1 DEF Folds
    <2>3. ASSUME NEW T \in SUBSET (1..n)
          PROVE  g[T] = IF T = {} THEN 0 ELSE g[T \ {Max(T)}] + d[Max(T)]
      BY <2>1 DEF Folds
    <2>4. Folded(d, g)
      BY <2>2, <2>3 DEF Folded
    <2> QED BY <2>4
  <1>2. PICK g : g = (CHOOSE f : Folded(d, f))
    OBVIOUS
  <1>3. Folded(d, g)
    BY <1>1, <1>2, Zenon
  <1>4. Sum(d) = g[1..n]
    BY <1>2, SumIsFold
  <1>5. ASSUME NEW T \in SUBSET (1..n)
        PROVE  g[T] = IF T = {} THEN 0 ELSE g[T \ {Max(T)}] + d[Max(T)]
    BY <1>3 DEF Folded
  <1>6. ASSUME NEW k \in 1..n
        PROVE  g[1..k] = g[1..(k - 1)] + d[k]
    <2>1. 1..k \in SUBSET (1..n) /\ 1..k \in SUBSET (1..k) /\ k \in 1..k /\ k \in Nat
      OBVIOUS
    <2>2. Max(1..k) \in 1..k /\ Max(1..k) >= k
      BY <2>1, MaxOfNaturals
    <2>3. Max(1..k) = k
      BY <2>2
    <2>4. (1..k) \ {k} = 1..(k - 1)
      OBVIOUS
    <2> QED BY <1>5, <2>1, <2>3, <2>4
  <1>7. g[1..0] = 0
    <2>1. 1..0 \in SUBSET (1..n) /\ 1..0 = {}
      OBVIOUS
    <2> QED BY <1>5, <2>1
  <1> DEFINE G == {k \in 0..n : g[1..k] \in Int}
  <1>8. \A k \in 0..n : k \in G
    <2>1. 0 \in G
      BY <1>7
    <2>2. ASSUME NEW j \in 0..(n - 1), j \in G
          PROVE  j + 1 \in G
      <3>1. j + 1 \in 1..n /\ j + 1 \in 0..n /\ (j + 1) - 1 = j
        OBVIOUS
      <3>2. d[j + 1] \in Int /\ g[1..j] \in Int
        BY <3>1, <2>2
      <3>3. g[1..(j + 1)] = g[1..j] + d[j + 1]
        BY <1>6, <3>1
      <3> QED BY <3>1, <3>2, <3>3
    <2> HIDE DEF G
    <2> QED BY <2>1, <2>2, InductionUpTo
  <1> DEFINE p == [k \in 0..n |-> g[1..k]]
  <1>9. RunningSums(d, n, p) /\ Sum(d) = p[n]
    <2>1. p \in [0..n -> Int]
      BY <1>8
    <2>2. ASSUME NEW k \in 1..n
          PROVE  p[k] = p[k - 1] + d[k]
      <3>1. k \in 0..n /\ k - 1 \in 0..n
        OBVIOUS
      <3> QED BY <1>6, <3>1
    <2>3. p[0] = 0 /\ p[n] = g[1..n]
      BY <1>7
    <2> HIDE DEF p
    <2> QED BY <1>4, <2>1, <2>2, <2>3 DEF RunningSums
  <1> QED BY <1>9

Agree(d, e, k) == \A i \in 1..k : d[i] = e[i]

\* They depend on the distances they are of only.
LEMMA RunningSumsAgree ==
    ASSUME NEW n \in Nat, NEW m \in Nat, NEW d, NEW e, NEW p, NEW q,
           RunningSums(d, n, p), RunningSums(e, m, q),
           NEW l \in 0..n, l \in 0..m, Agree(d, e, l)
    PROVE  \A k \in 0..l : p[k] = q[k]
  <1> DEFINE G == {k \in 0..l : p[k] = q[k]}
  <1>1. 0 \in G
    BY DEF RunningSums
  <1>2. ASSUME NEW j \in 0..(l - 1), j \in G
        PROVE  j + 1 \in G
    <2>1. j + 1 \in 1..l /\ j + 1 \in 1..n /\ j + 1 \in 1..m /\ (j + 1) - 1 = j
      OBVIOUS
    <2>2. p[j + 1] = p[j] + d[j + 1] /\ q[j + 1] = q[j] + e[j + 1]
      BY <2>1 DEF RunningSums
    <2>3. p[j] = q[j] /\ d[j + 1] = e[j + 1]
      BY <1>2, <2>1 DEF Agree
    <2> QED BY <2>1, <2>2, <2>3
  <1>3. \A k \in 0..l : k \in G
    <2> HIDE DEF G
    <2>1. l \in Nat
      OBVIOUS
    <2> QED BY <1>1, <1>2, <2>1, InductionUpTo
  <1> QED BY <1>3

\* A running sum is the sum of a prefix.
LEMMA SumOfFirst ==
    ASSUME NEW n \in Nat, NEW d \in [1..n -> Int], NEW p, RunningSums(d, n, p), NEW k \in 0..n
    PROVE  Sum(SubSeq(d, 1, k)) = p[k]
  <1>1. PICK e : e = SubSeq(d, 1, k)
    OBVIOUS
  <1>2. e \in [1..k -> Int] /\ \A i \in 1..k : e[i] = d[i]
    <2>1. \A i \in 1..k : d[i] \in Int
      OBVIOUS
    <2>2. e \in Seq(Int) /\ Len(e) = k /\ \A i \in 1..k : e[i] = d[i]
      BY <1>1, <2>1, SubSeqProperties
    <2> QED BY <2>2
  <1>3. k \in Nat
    OBVIOUS
  <1>4. PICK q : RunningSums(e, k, q) /\ Sum(e) = q[k]
    BY <1>2, <1>3, SumIsLastPrefix
  <1>5. p[k] = q[k]
    <2>1. k \in 0..k /\ Agree(d, e, k)
      BY <1>2 DEF Agree
    <2>2. \A i \in 0..k : p[i] = q[i]
      <3>1. RunningSums(e, k, q)
        BY <1>4
      <3>2. RunningSums(d, n, p)
        OBVIOUS
      <3>3. k \in 0..n
        OBVIOUS
      <3> QED BY <1>3, <2>1, <3>1, <3>2, <3>3, RunningSumsAgree
    <2> QED BY <1>3, <2>2
  <1> QED BY <1>1, <1>4, <1>5

\* Sums of whole numbers are whole numbers.
LEMMA SumType ==
    ASSUME NEW n \in Nat, NEW d \in [1..n -> Int]
    PROVE  Sum(d) \in Int
  <1>1. PICK p : RunningSums(d, n, p) /\ Sum(d) = p[n]
    BY SumIsLastPrefix
  <1> QED BY <1>1 DEF RunningSums

\* What is no less than nothing adds up.
LEMMA RunningSumsGrow ==
    ASSUME NEW n \in Nat, NEW d \in [1..n -> Nat], NEW p, RunningSums(d, n, p), NEW i \in 0..n
    PROVE  \A j \in i..n : p[i] <= p[j]
  <1> DEFINE G == {j \in 0..n : i <= j => p[i] <= p[j]}
  <1>0. \A k \in 0..n : p[k] \in Int
    BY DEF RunningSums
  <1>1. 0 \in G
    BY <1>0
  <1>2. ASSUME NEW j \in 0..(n - 1), j \in G
        PROVE  j + 1 \in G
    <2>1. j + 1 \in 1..n /\ (j + 1) - 1 = j
      OBVIOUS
    <2>2. p[j + 1] = p[j] + d[j + 1] /\ d[j + 1] \in Nat
      BY <2>1 DEF RunningSums
    <2>3. p[j] \in Int /\ p[i] \in Int /\ p[j + 1] \in Int
      BY <1>0, <2>1
    <2>4. CASE i <= j
      BY <1>2, <2>1, <2>2, <2>3, <2>4
    <2>5. CASE ~(i <= j)
      <3>1. i <= j + 1 => i = j + 1
        BY <2>5
      <3> QED BY <2>1, <2>3, <3>1
    <2> QED BY <2>4, <2>5
  <1>3. \A k \in 0..n : k \in G
    <2> HIDE DEF G
    <2> QED BY <1>1, <1>2, InductionUpTo
  <1> QED BY <1>3

\* A sum of natural numbers is one, and no less than each of them.
LEMMA SumNat ==
    ASSUME NEW n \in Nat, NEW d \in [1..n -> Nat]
    PROVE  /\ Sum(d) \in Nat
           /\ \A i \in 1..n : d[i] <= Sum(d)
  <1>1. d \in [1..n -> Int]
    OBVIOUS
  <1>2. PICK p : RunningSums(d, n, p) /\ Sum(d) = p[n]
    BY <1>1, SumIsLastPrefix
  <1>3. \A k \in 0..n : p[k] \in Int
    BY <1>2 DEF RunningSums
  <1>4. \A k \in 0..n : p[0] <= p[k] /\ p[k] <= p[n]
    <2>1. 0 \in 0..n /\ n \in 0..n
      OBVIOUS
    <2>2. \A j \in 0..n : p[0] <= p[j]
      BY <1>2, <2>1, RunningSumsGrow
    <2>3. ASSUME NEW k \in 0..n
          PROVE  p[k] <= p[n]
      <3>1. n \in k..n
        OBVIOUS
      <3> QED BY <1>2, <3>1, RunningSumsGrow
    <2> QED BY <2>2, <2>3
  <1>5. p[0] = 0 /\ 0 \in 0..n /\ n \in 0..n
    BY <1>2 DEF RunningSums
  <1>6. ASSUME NEW i \in 1..n
        PROVE  d[i] <= p[n]
    <2>1. i \in 0..n /\ i - 1 \in 0..n
      OBVIOUS
    <2>2. p[i] = p[i - 1] + d[i]
      BY <1>2 DEF RunningSums
    <2>3. p[i - 1] >= 0 /\ p[i] <= p[n]
      BY <1>3, <1>4, <1>5, <2>1
    <2>4. p[i] \in Int /\ p[i - 1] \in Int /\ d[i] \in Nat /\ p[n] \in Int
      BY <1>3, <1>5, <2>1
    <2> QED BY <2>2, <2>3, <2>4
  <1> QED BY <1>2, <1>3, <1>4, <1>5, <1>6

\* Nothing sums up to nothing.
LEMMA SumOfNothing ==
    ASSUME NEW n \in Nat, NEW d \in [1..n -> {0}]
    PROVE  Sum(d) = 0
  <1>1. d \in [1..n -> Int]
    OBVIOUS
  <1>2. PICK p : RunningSums(d, n, p) /\ Sum(d) = p[n]
    BY <1>1, SumIsLastPrefix
  <1> DEFINE G == {k \in 0..n : p[k] = 0}
  <1>3. 0 \in G
    BY <1>2 DEF RunningSums
  <1>4. ASSUME NEW j \in 0..(n - 1), j \in G
        PROVE  j + 1 \in G
    <2>1. j + 1 \in 1..n /\ (j + 1) - 1 = j
      OBVIOUS
    <2>2. p[j + 1] = p[j] + d[j + 1] /\ d[j + 1] = 0 /\ p[j] = 0
      BY <1>2, <1>4, <2>1 DEF RunningSums
    <2> QED BY <2>1, <2>2
  <1>5. \A k \in 0..n : k \in G
    <2> HIDE DEF G
    <2> QED BY <1>3, <1>4, InductionUpTo
  <1> QED BY <1>2, <1>5

\* A sequence is the sum of two others, index by index.
Adds(n, a, b, c) ==
    /\ n \in Nat /\ a \in [1..n -> Int] /\ b \in [1..n -> Int] /\ c \in [1..n -> Int]
    /\ \A i \in 1..n : c[i] = a[i] + b[i]

\* Sums add up index by index.
LEMMA SumAdds ==
    ASSUME NEW n, NEW a, NEW b, NEW c, Adds(n, a, b, c)
    PROVE  Sum(c) = Sum(a) + Sum(b)
  <1> n \in Nat /\ a \in [1..n -> Int] /\ b \in [1..n -> Int] /\ c \in [1..n -> Int]
    BY DEF Adds
  <1>1. PICK p : RunningSums(a, n, p) /\ Sum(a) = p[n]
    BY SumIsLastPrefix
  <1>2. PICK q : RunningSums(b, n, q) /\ Sum(b) = q[n]
    BY SumIsLastPrefix
  <1>3. PICK r : RunningSums(c, n, r) /\ Sum(c) = r[n]
    BY SumIsLastPrefix
  <1> DEFINE G == {k \in 0..n : r[k] = p[k] + q[k]}
  <1>4. 0 \in G
    BY <1>1, <1>2, <1>3 DEF RunningSums
  <1>5. ASSUME NEW j \in 0..(n - 1), j \in G
        PROVE  j + 1 \in G
    <2>1. j + 1 \in 1..n /\ (j + 1) - 1 = j
      OBVIOUS
    <2>2. /\ p[j + 1] = p[j] + a[j + 1]
          /\ q[j + 1] = q[j] + b[j + 1]
          /\ r[j + 1] = r[j] + c[j + 1]
      BY <1>1, <1>2, <1>3, <2>1 DEF RunningSums
    <2>3. c[j + 1] = a[j + 1] + b[j + 1] /\ r[j] = p[j] + q[j]
      BY <1>5, <2>1 DEF Adds
    <2>4. /\ p[j] \in Int /\ q[j] \in Int
          /\ a[j + 1] \in Int /\ b[j + 1] \in Int
      <3>1. p \in [0..n -> Int] /\ q \in [0..n -> Int]
        BY <1>1, <1>2, Zenon DEF RunningSums
      <3>2. j \in 0..n
        OBVIOUS
      <3> QED BY <2>1, <3>1, <3>2
    <2>5. r[j + 1] = p[j + 1] + q[j + 1]
      BY <2>2, <2>3, <2>4
    <2> QED BY <2>1, <2>5
  <1>6. \A k \in 0..n : k \in G
    <2> HIDE DEF G
    <2> QED BY <1>4, <1>5, InductionUpTo
  <1> QED BY <1>1, <1>2, <1>3, <1>6

\* The m distances g, with nothing before and after them.
IsShifted(f, n, g, m, first) ==
    /\ \A i \in 1..m : f[first + i] = g[i]
    /\ \A k \in 1..n : k \notin (first + 1)..(first + m) => f[k] = 0

\* Distances with nothing before and after them sum to the same.
LEMMA SumShifts ==
    ASSUME NEW n \in Nat, NEW m \in Nat, NEW f \in [1..n -> Int], NEW g \in [1..m -> Int],
           NEW first \in Nat, first + m <= n, IsShifted(f, n, g, m, first)
    PROVE  Sum(f) = Sum(g)
  <1>1. PICK p : RunningSums(f, n, p) /\ Sum(f) = p[n]
    BY SumIsLastPrefix
  <1>2. PICK q : RunningSums(g, m, q) /\ Sum(g) = q[m]
    BY SumIsLastPrefix
  <1> DEFINE At(k) == IF k < first THEN 0 ELSE IF k <= first + m THEN k - first ELSE m
             G == {k \in 0..n : p[k] = q[At(k)]}
  <1>3. 0 \in G
    BY <1>1, <1>2 DEF RunningSums
  <1>4. ASSUME NEW j \in 0..(n - 1), j \in G
        PROVE  j + 1 \in G
    <2>1. j + 1 \in 1..n /\ (j + 1) - 1 = j
      OBVIOUS
    <2>2. p[j + 1] = p[j] + f[j + 1] /\ p[j] \in Int
      BY <1>1, <2>1 DEF RunningSums
    <2>3. CASE j + 1 \in (first + 1)..(first + m)
      <3>1. PICK i \in 1..m : i = j + 1 - first
        BY <2>3
      <3>2. f[j + 1] = g[i]
        <4>1. j + 1 = first + i
          BY <3>1
        <4> QED BY <4>1 DEF IsShifted
      <3>3. q[i] = q[i - 1] + g[i]
        BY <1>2 DEF RunningSums
      <3>4. At(j) = i - 1 /\ At(j + 1) = i
        BY <2>3, <3>1
      <3>5. p[j] = q[At(j)]
        BY <1>4
      <3> HIDE DEF At
      <3>6. p[j + 1] = q[At(j + 1)]
        BY <2>2, <3>2, <3>3, <3>4, <3>5
      <3> QED BY <2>1, <3>6
    <2>4. CASE j + 1 \notin (first + 1)..(first + m)
      <3>1. f[j + 1] = 0
        BY <2>1, <2>4 DEF IsShifted
      <3>2. At(j + 1) = At(j)
        BY <2>4
      <3> QED BY <1>4, <2>1, <2>2, <3>1, <3>2
    <2> QED BY <2>3, <2>4
  <1>5. \A k \in 0..n : k \in G
    <2> HIDE DEF G
    <2> QED BY <1>3, <1>4, InductionUpTo
  <1>6. p[n] = q[At(n)] /\ At(n) = m
    BY <1>5
  <1> QED BY <1>1, <1>2, <1>6

-----------------------------------------------------------------------------
(* Shares *)

\* What division gives.
LEMMA DivisionBy ==
    ASSUME NEW x \in Nat, NEW t \in Nat \ {0}
    PROVE  /\ x \div t \in Nat
           /\ x % t \in Nat /\ x % t < t
           /\ x % t = x - t * (x \div t)
  BY SMT

\* What of products the provers need to be told.
LEMMA Products ==
    ASSUME NEW t \in Nat \ {0}, NEW a \in Int, NEW b \in Int
    PROVE  /\ t * a \in Int
           /\ t * (a + b) = t * a + t * b
           /\ t * (a - b) = t * a - t * b
           /\ a <= b => t * a <= t * b
           /\ t * a < t * b => a < b
  BY SMT

\* A floor and a rest are what a hundred times the distance comes to.
IsQuota(m, t, floor, rest) ==
    /\ t * floor + rest = 100 * m
    /\ m = 0 => floor = 0 /\ rest = 0
    /\ floor = 100 => m = t /\ rest = 0

\* Every quota is a floor and a rest, with rounding errors and without.
LEMMA QuotaFits ==
    ASSUME NEW t \in Nat \ {0}, NEW m \in 0..t, NEW q \in Quotas(m, t)
    PROVE  /\ q.floor \in 0..100 /\ q.rest \in 0..t
           /\ IsQuota(m, t, q.floor, q.rest)
  <1>1. PICK x \in Nat : x = 100 * m
    OBVIOUS
  <1>2. PICK whole \in Nat, rest \in Nat : whole = x \div t /\ rest = x % t
    BY DivisionBy
  <1>3. rest < t /\ t * whole + rest = 100 * m /\ t * whole \in Int
    <2>1. rest < t /\ rest = x - t * whole
      BY <1>2, DivisionBy
    <2>2. t * whole \in Int
      OBVIOUS
    <2>3. t * whole + rest = x
      BY <2>1, <2>2
    <2> QED BY <1>1, <2>1, <2>2, <2>3
  <1>4. whole <= 100 /\ (whole = 100 => m = t)
    <2>1. t * whole <= t * 100
      BY <1>3
    <2>2. t * whole < t * 101
      BY <2>1, <1>3
    <2>3. whole < 101
      BY <2>2, Products
    <2>4. whole = 100 => m = t
      BY <1>3
    <2> QED BY <2>3, <2>4
  <1>5. CASE q = [floor |-> whole, rest |-> rest]
    <2>1. m = 0 => whole = 0 /\ rest = 0
      <3>1. SUFFICES ASSUME m = 0 PROVE whole = 0 /\ rest = 0
        OBVIOUS
      <3>2. t * whole < t * 1
        BY <1>3, <3>1
      <3>3. whole < 1
        BY <3>2, Products
      <3> QED BY <1>3, <3>1, <3>3
    <2> QED BY <1>3, <1>4, <1>5, <2>1 DEF IsQuota
  <1>6. CASE rest = 0 /\ m \notin {0, t} /\ q = [floor |-> whole - 1, rest |-> t]
    <2>1. whole >= 1
      <3>1. SUFFICES ASSUME whole = 0 PROVE FALSE
        OBVIOUS
      <3>2. t * whole = 0
        BY <3>1
      <3> QED BY <1>3, <1>6, <3>2
    <2>2. t * (whole - 1) = t * whole - t
      BY Products
    <2> QED BY <1>3, <1>4, <1>6, <2>1, <2>2 DEF IsQuota
  <1> QED BY <1>1, <1>2, <1>5, <1>6 DEF Quotas

\* The rests come to as many whole points as the floors leave.
ArePoints(more, t, r) == t * more = r[1] + r[2] + r[3]

\* Three quotas of distances that sum to the total, and the points they leave.
AreQuotas(m, t, f, r, more) ==
    /\ t \in Nat \ {0}
    /\ m \in (0..t) \X (0..t) \X (0..t) /\ m[1] + m[2] + m[3] = t
    /\ f \in (0..100) \X (0..100) \X (0..100)
    /\ r \in [1..3 -> 0..t]
    /\ \A i \in 1..3 : IsQuota(m[i], t, f[i], r[i])
    /\ more = 100 - (f[1] + f[2] + f[3])

\* Between none and three points are left, and the rests come to them.
LEMMA RestsArePoints ==
    ASSUME NEW m, NEW t, NEW f, NEW r, NEW more, AreQuotas(m, t, f, r, more)
    PROVE  more \in 0..3 /\ ArePoints(more, t, r)
  <1>1. t \in Nat \ {0} /\ r \in [1..3 -> 0..t]
    BY DEF AreQuotas
  <1>2. PICK m1 \in 0..t, m2 \in 0..t, m3 \in 0..t :
           m1 = m[1] /\ m2 = m[2] /\ m3 = m[3] /\ m1 + m2 + m3 = t
    BY DEF AreQuotas
  <1>3. PICK f1 \in 0..100, f2 \in 0..100, f3 \in 0..100 :
           f1 = f[1] /\ f2 = f[2] /\ f3 = f[3]
    BY DEF AreQuotas
  <1>4. more \in Int /\ more = 100 - (f1 + f2 + f3)
    BY <1>3 DEF AreQuotas
  <1>5. PICK r1 \in 0..t, r2 \in 0..t, r3 \in 0..t :
           /\ r1 = r[1] /\ r2 = r[2] /\ r3 = r[3]
           /\ t * f1 + r1 = 100 * m1
           /\ t * f2 + r2 = 100 * m2
           /\ t * f3 + r3 = 100 * m3
    BY <1>1, <1>2, <1>3 DEF AreQuotas, IsQuota
  <1>6. t * more = r1 + r2 + r3
    <2>1. t * f1 \in Int /\ t * f2 \in Int /\ t * f3 \in Int /\ t * more \in Int
      BY <1>1, <1>4
    <2>2. t * (more + (f1 + f2 + f3)) = t * more + (t * f1 + t * f2 + t * f3)
      BY <1>1, <1>4, SMT
    <2>3. more + (f1 + f2 + f3) = 100
      BY <1>4
    <2>4. t * 100 = t * more + (t * f1 + t * f2 + t * f3)
      BY <2>2, <2>3, Zenon
    <2>5. PICK g1 \in Int, g2 \in Int, g3 \in Int, g \in Int :
             g1 = t * f1 /\ g2 = t * f2 /\ g3 = t * f3 /\ g = t * more
      BY <2>1, Zenon
    <2>6. g1 + r1 = 100 * m1 /\ g2 + r2 = 100 * m2 /\ g3 + r3 = 100 * m3
      BY <1>5, <2>5, Zenon
    <2>7. t * 100 = g + (g1 + g2 + g3)
      BY <2>4, <2>5, Zenon
    <2>8. g = r1 + r2 + r3
      BY <1>1, <1>2, <2>6, <2>7
    <2> QED BY <2>5, <2>8, Zenon
  <1>7. t * (-1) < t * more /\ t * more < t * 4
    <2>1. t * (-1) < r1 + r2 + r3
      BY <1>1
    <2>2. r1 + r2 + r3 < t * 4
      BY <1>1
    <2> QED BY <1>6, <2>1, <2>2, Zenon
  <1>8. -1 < more /\ more < 4
    BY <1>7, <1>1, <1>4, Products
  <1> QED BY <1>5, <1>6, <1>8, <1>4 DEF ArePoints

Permutations3 == {<<1, 2, 3>>, <<1, 3, 2>>, <<2, 1, 3>>, <<2, 3, 1>>, <<3, 1, 2>>, <<3, 2, 1>>}

Point(order, more, i) == IF \E m \in 1..more : order[m] = i THEN 1 ELSE 0

\* So many points go to different distances, and to none without a rest.
LEMMA PointsFit ==
    ASSUME NEW t \in Nat \ {0}, NEW order \in Permutations3, NEW more \in 0..3,
           NEW r \in [1..3 -> 0..t],
           r[order[1]] >= r[order[2]], r[order[2]] >= r[order[3]],
           ArePoints(more, t, r)
    PROVE  /\ \A i \in 1..3 : Point(order, more, i) \in 0..1
           /\ Point(order, more, 1) + Point(order, more, 2) + Point(order, more, 3) = more
           /\ \A i \in 1..3 : r[i] = 0 => Point(order, more, i) = 0
  <1>1. /\ order[1] \in 1..3 /\ order[2] \in 1..3 /\ order[3] \in 1..3
        /\ order[1] # order[2] /\ order[1] # order[3] /\ order[2] # order[3]
        /\ r[1] + r[2] + r[3] = r[order[1]] + r[order[2]] + r[order[3]]
    BY DEF Permutations3
  <1>2. PICK i1 \in 1..3, i2 \in 1..3, i3 \in 1..3 :
           i1 = order[1] /\ i2 = order[2] /\ i3 = order[3]
    BY <1>1
  <1>3. PICK x1 \in 0..t, x2 \in 0..t, x3 \in 0..t :
           x1 = r[i1] /\ x2 = r[i2] /\ x3 = r[i3]
    OBVIOUS
  <1>4. x1 >= x2 /\ x2 >= x3 /\ t * more = x1 + x2 + x3
    BY <1>1, <1>2, <1>3 DEF ArePoints
  <1>5. i1 # i2 /\ i1 # i3 /\ i2 # i3
    BY <1>1, <1>2
  <1>6. ASSUME NEW i \in 1..3
        PROVE  Point(order, more, i) = IF \/ more >= 1 /\ i = i1
                                          \/ more >= 2 /\ i = i2
                                          \/ more >= 3 /\ i = i3 THEN 1 ELSE 0
    <2>1. ASSUME NEW m \in 1..more, order[m] = i
          PROVE  (more >= 1 /\ i = i1) \/ (more >= 2 /\ i = i2) \/ (more >= 3 /\ i = i3)
      <3>1. m = 1 \/ m = 2 \/ m = 3
        OBVIOUS
      <3>2. m <= more
        OBVIOUS
      <3> QED BY <1>2, <2>1, <3>1, <3>2
    <2>2. /\ more >= 1 => 1 \in 1..more
          /\ more >= 2 => 2 \in 1..more
          /\ more >= 3 => 3 \in 1..more
      OBVIOUS
    <2>3. ASSUME (more >= 1 /\ i = i1) \/ (more >= 2 /\ i = i2) \/ (more >= 3 /\ i = i3)
          PROVE  \E m \in 1..more : order[m] = i
      BY <1>2, <2>2, <2>3
    <2> QED BY <2>1, <2>3 DEF Point
  <1>7. \A i \in 1..3 : Point(order, more, i) \in 0..1
    BY <1>6
  <1>8. Point(order, more, 1) + Point(order, more, 2) + Point(order, more, 3) = more
    <2>1. PICK p1 \in 0..1, p2 \in 0..1, p3 \in 0..1 :
             /\ p1 = Point(order, more, 1)
             /\ p2 = Point(order, more, 2)
             /\ p3 = Point(order, more, 3)
      BY <1>7
    <2>2. p1 = 1 <=> \/ more >= 1 /\ 1 = i1
                     \/ more >= 2 /\ 1 = i2
                     \/ more >= 3 /\ 1 = i3
      BY <1>6, <2>1
    <2>3. p2 = 1 <=> \/ more >= 1 /\ 2 = i1
                     \/ more >= 2 /\ 2 = i2
                     \/ more >= 3 /\ 2 = i3
      BY <1>6, <2>1
    <2>4. p3 = 1 <=> \/ more >= 1 /\ 3 = i1
                     \/ more >= 2 /\ 3 = i2
                     \/ more >= 3 /\ 3 = i3
      BY <1>6, <2>1
    <2>5. p1 + p2 + p3 = more
      BY <1>5, <2>2, <2>3, <2>4
    <2> QED BY <2>1, <2>5
  <1>9. /\ more >= 1 => x1 > 0
        /\ more >= 2 => x2 > 0
        /\ more >= 3 => x3 > 0
    <2>1. CASE more = 0
      BY <2>1
    <2>2. CASE more = 1
      <3>1. t = x1 + x2 + x3
        BY <1>4, <2>2
      <3> QED BY <1>4, <2>2, <3>1
    <2>3. CASE more = 2
      <3>1. 2 * t = x1 + x2 + x3
        BY <1>4, <2>3
      <3> QED BY <1>4, <2>3, <3>1
    <2>4. CASE more = 3
      <3>1. 3 * t = x1 + x2 + x3
        BY <1>4, <2>4
      <3> QED BY <1>4, <2>4, <3>1
    <2> QED BY <2>1, <2>2, <2>3, <2>4
  <1>10. ASSUME NEW i \in 1..3, r[i] = 0
         PROVE  Point(order, more, i) = 0
    <2>1. /\ i = i1 => x1 = 0
          /\ i = i2 => x2 = 0
          /\ i = i3 => x3 = 0
      BY <1>3, <1>10
    <2>2. ~(\/ more >= 1 /\ i = i1
            \/ more >= 2 /\ i = i2
            \/ more >= 3 /\ i = i3)
      BY <1>9, <2>1
    <2> QED BY <1>6, <2>2
  <1> QED BY <1>7, <1>8, <1>10

\* A share is less than a point off, none for no distance and some for a sixth.
IsShare(m, t, share) ==
    /\ share * t - 100 * m \in (-t)..t
    /\ m = 0 => share = 0
    /\ 6 * m >= t => share > 0

\* A floor with at most a point more, and none for no rest, is a share.
LEMMA ShareFits ==
    ASSUME NEW t \in Nat \ {0}, NEW m \in 0..t, NEW f \in 0..100, NEW r \in 0..t, NEW p \in 0..1,
           IsQuota(m, t, f, r), r = 0 => p = 0
    PROVE  IsShare(m, t, f + p)
  <1>1. t * f + r = 100 * m /\ (m = 0 => f = 0 /\ p = 0)
    BY DEF IsQuota
  <1>2. (f + p) * t = t * f + p * t /\ t * f \in Int
    OBVIOUS
  <1>3. p * t = 0 \/ p * t = t
    <2>1. p = 0 \/ p = 1
      OBVIOUS
    <2> QED BY <2>1
  <1>4. (f + p) * t - 100 * m \in (-t)..t
    BY <1>1, <1>2, <1>3
  <1>5. ASSUME 6 * m >= t
        PROVE  f > 0
    <2>1. SUFFICES ASSUME f = 0
                   PROVE  FALSE
      OBVIOUS
    <2>2. t * f = 0
      BY <2>1
    <2> QED BY <1>1, <1>5, <2>2
  <1> QED BY <1>1, <1>4, <1>5 DEF IsShare

\* The rests decrease along an order of the three.
LEMMA OrdersFit ==
    ASSUME NEW meters, NEW quota, NEW order \in Orders(meters, quota)
    PROVE  /\ order \in Permutations3
           /\ quota[order[1]].rest >= quota[order[2]].rest
           /\ quota[order[2]].rest >= quota[order[3]].rest
  <1>1. /\ order \in {<<i, j, 6 - i - j>> : i, j \in 1..3}
        /\ {order[1], order[2], order[3]} = 1..3
    BY DEF Orders
  <1>2. order \in Permutations3
    BY <1>1 DEF Permutations3
  <1>3. \A m, n \in 1..3 : m < n => quota[order[m]].rest >= quota[order[n]].rest
    BY DEF Orders
  <1>4. 1 \in 1..3 /\ 2 \in 1..3 /\ 3 \in 1..3 /\ 1 < 2 /\ 2 < 3
    OBVIOUS
  <1> QED BY <1>2, <1>3, <1>4, Zenon

\* The percentages of three distances are whole numbers that sum to 100, each at
\* most a point off, with none for no distance and some for a sixth of them all.
THEOREM PercentagesFit ==
    ASSUME NEW t \in Nat \ {0}, NEW m1 \in 0..t, NEW m2 \in 0..t, NEW m3 \in 0..t,
           m1 + m2 + m3 = t, NEW shares \in PercentShares(<<m1, m2, m3>>, t)
    PROVE  /\ shares \in Shares
           /\ IsShare(m1, t, shares[1])
           /\ IsShare(m2, t, shares[2])
           /\ IsShare(m3, t, shares[3])
  <1> DEFINE meters == <<m1, m2, m3>>
  <1>1. PICK quota \in Quotas(m1, t) \X Quotas(m2, t) \X Quotas(m3, t) :
           shares \in Rounded(meters, quota)
    <2>1. meters[1] = m1 /\ meters[2] = m2 /\ meters[3] = m3
      OBVIOUS
    <2> HIDE DEF meters
    <2>2. PICK quota \in Quotas(meters[1], t) \X Quotas(meters[2], t) \X Quotas(meters[3], t) :
             shares \in Rounded(meters, quota)
      BY Zenon DEF PercentShares, meters
    <2> QED BY <2>1, <2>2, Zenon
  <1>2. PICK q1 \in Quotas(m1, t), q2 \in Quotas(m2, t), q3 \in Quotas(m3, t) :
           quota = <<q1, q2, q3>>
    OBVIOUS
  <1>3. PICK f1 \in 0..100, f2 \in 0..100, f3 \in 0..100 :
           f1 = quota[1].floor /\ f2 = quota[2].floor /\ f3 = quota[3].floor
    BY <1>2, QuotaFits
  <1> DEFINE r == [i \in 1..3 |-> quota[i].rest]
  <1>4. r \in [1..3 -> 0..t]
    <2>1. ASSUME NEW i \in 1..3
          PROVE  quota[i].rest \in 0..t
      BY <1>2, QuotaFits
    <2> QED BY <2>1
  <1>5. IsQuota(m1, t, f1, r[1]) /\ IsQuota(m2, t, f2, r[2]) /\ IsQuota(m3, t, f3, r[3])
    BY <1>2, <1>3, QuotaFits
  <1>6. PICK more \in Int : more = 100 - (f1 + f2 + f3)
    OBVIOUS
  <1>7. PICK order \in Orders(meters, quota) :
           shares = [i \in 1..3 |-> quota[i].floor + Point(order, more, i)]
    <2> HIDE DEF meters
    <2> QED BY <1>1, <1>3, <1>6 DEF Rounded, Point
  <1>8. /\ order \in Permutations3
        /\ r[order[1]] >= r[order[2]] /\ r[order[2]] >= r[order[3]]
    <2>1. /\ order \in Permutations3
          /\ quota[order[1]].rest >= quota[order[2]].rest
          /\ quota[order[2]].rest >= quota[order[3]].rest
      BY <1>7, OrdersFit
    <2>2. order[1] \in 1..3 /\ order[2] \in 1..3 /\ order[3] \in 1..3
      BY <2>1 DEF Permutations3
    <2> QED BY <2>1, <2>2
  <1> HIDE DEF r
  <1>9. more \in 0..3 /\ ArePoints(more, t, r)
    <2>1. AreQuotas(<<m1, m2, m3>>, t, <<f1, f2, f3>>, r, more)
      BY <1>4, <1>5, <1>6 DEF AreQuotas
    <2> QED BY <2>1, RestsArePoints
  <1>10. /\ \A i \in 1..3 : Point(order, more, i) \in 0..1
         /\ Point(order, more, 1) + Point(order, more, 2) + Point(order, more, 3) = more
         /\ \A i \in 1..3 : r[i] = 0 => Point(order, more, i) = 0
    BY <1>4, <1>8, <1>9, PointsFit
  <1>11. PICK p1 \in 0..1, p2 \in 0..1, p3 \in 0..1 :
            /\ p1 = Point(order, more, 1)
            /\ p2 = Point(order, more, 2)
            /\ p3 = Point(order, more, 3)
    BY <1>10
  <1>12. /\ p1 + p2 + p3 = more
         /\ r[1] = 0 => p1 = 0
         /\ r[2] = 0 => p2 = 0
         /\ r[3] = 0 => p3 = 0
    BY <1>10, <1>11
  <1>13. /\ shares = [i \in 1..3 |-> shares[i]]
         /\ shares[1] = f1 + p1 /\ shares[2] = f2 + p2 /\ shares[3] = f3 + p3
    BY <1>3, <1>7, <1>11
  <1>14. r[1] \in 0..t /\ r[2] \in 0..t /\ r[3] \in 0..t
    BY <1>4
  <1>15. IsShare(m1, t, f1 + p1) /\ IsShare(m2, t, f2 + p2) /\ IsShare(m3, t, f3 + p3)
    BY <1>5, <1>12, <1>14, ShareFits
  <1>16. shares \in Shares
    <2>1. f1 + p1 \in 0..100 /\ f2 + p2 \in 0..100 /\ f3 + p3 \in 0..100
      BY <1>5, <1>12 DEF IsQuota
    <2>2. (f1 + p1) + (f2 + p2) + (f3 + p3) = 100
      BY <1>6, <1>12
    <2> QED BY <1>13, <2>1, <2>2 DEF Shares
  <1> QED BY <1>13, <1>15, <1>16
=============================================================================
