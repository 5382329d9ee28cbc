----------------------------- MODULE AdviceProofs -----------------------------
(***************************************************************************)
(* What is advised, for every way, location and sun: the part of the way   *)
(* an answer is about is what the window lets ahead of the passenger, its  *)
(* shares are those of the meters on which the sun is on a side, and a     *)
(* seat is on the other. The invariant says where the selected part and    *)
(* the answer come from; the lemmas say what the operators make of that.   *)
(***************************************************************************)
EXTENDS AdviceArithmeticProofs

-----------------------------------------------------------------------------
(* The way ahead *)

\* The cumulative distances of a way, from none on.
Way(segments, p) == RunningSums(Lengths(segments), Len(segments), p)

\* The lengths of the segments of a way.
LEMMA LengthsFit ==
    ASSUME NEW segments \in Seq(Segments)
    PROVE  /\ Len(segments) \in Nat /\ DOMAIN segments = 1..Len(segments)
           /\ Lengths(segments) \in [1..Len(segments) -> Nat]
           /\ \A k \in 1..Len(segments) : Lengths(segments)[k] = segments[k].length
  <1>1. Len(segments) \in Nat /\ DOMAIN segments = 1..Len(segments)
    OBVIOUS
  <1>2. \A k \in 1..Len(segments) : segments[k] \in Segments
    OBVIOUS
  <1>3. \A k \in 1..Len(segments) : segments[k].length \in Nat
    BY <1>2 DEF Segments
  <1>4. Lengths(segments) = [k \in 1..Len(segments) |-> segments[k].length]
    BY <1>1 DEF Lengths
  <1> QED BY <1>1, <1>3, <1>4

\* cumulative_distance_meters is the running sum of the lengths.
LEMMA CumulativeIsWay ==
    ASSUME NEW segments \in Seq(Segments), NEW p, Way(segments, p), NEW k \in 0..Len(segments)
    PROVE  Cumulative(segments, k) = p[k]
  <1>1. Len(segments) \in Nat /\ Lengths(segments) \in [1..Len(segments) -> Int]
    BY LengthsFit
  <1> QED BY <1>1, SumOfFirst DEF Cumulative, Way

\* Every way has cumulative distances,
LEMMA WayExists ==
    ASSUME NEW segments \in Seq(Segments)
    PROVE  \E p : Way(segments, p)
  <1>1. Len(segments) \in Nat /\ Lengths(segments) \in [1..Len(segments) -> Int]
    BY LengthsFit
  <1> QED BY <1>1, SumIsLastPrefix DEF Way

\* which grow from nothing by the length of a segment each.
LEMMA WayFits ==
    ASSUME NEW segments \in Seq(Segments), NEW p, Way(segments, p)
    PROVE  /\ p \in [0..Len(segments) -> Nat] /\ p[0] = 0
           /\ \A k \in 1..Len(segments) : p[k] = p[k - 1] + segments[k].length
           /\ \A i \in 0..Len(segments) : \A j \in i..Len(segments) : p[i] <= p[j]
  <1>1. Len(segments) \in Nat /\ Lengths(segments) \in [1..Len(segments) -> Nat]
    BY LengthsFit
  <1>2. \A i \in 0..Len(segments) : \A j \in i..Len(segments) : p[i] <= p[j]
    BY <1>1, RunningSumsGrow DEF Way
  <1>3. /\ p \in [0..Len(segments) -> Int] /\ p[0] = 0
        /\ \A k \in 1..Len(segments) : p[k] = p[k - 1] + segments[k].length
    BY LengthsFit DEF Way, RunningSums
  <1>4. \A k \in 0..Len(segments) : p[k] \in Nat
    <2>1. ASSUME NEW k \in 0..Len(segments)
          PROVE  p[k] \in Nat
      <3>1. 0 \in 0..Len(segments) /\ k \in 0..Len(segments)
        BY <1>1
      <3>2. p[0] <= p[k]
        BY <1>2, <3>1
      <3> QED BY <1>3, <3>2
    <2> QED BY <2>1
  <1> QED BY <1>2, <1>3, <1>4

IsBudget(budget) == budget = None \/ budget \in Nat \ {None}

\* What is taken of n distances with running sums q: the first m.
IsTaken(d, n, q, budget, m) ==
    /\ Within(d, budget) \in [1..m -> Nat]
    /\ \A i \in 1..m : Within(d, budget)[i] =
          IF budget = None THEN d[i] ELSE Min2(d[i], budget - q[i - 1])
    /\ \A i \in 1..n : i \in 1..m <=> (budget # None => q[i - 1] < budget)

\* A budget cuts the distances where their sum reaches it.
LEMMA WithinFits ==
    ASSUME NEW n \in Nat, NEW d \in [1..n -> Nat], NEW q, RunningSums(d, n, q),
           NEW budget, IsBudget(budget)
    PROVE  \E m \in 0..n : IsTaken(d, n, q, budget, m)
  <1> DEFINE Before(k) == Sum(SubSeq(d, 1, k - 1))
             taken == {l \in 1..n : budget # None => q[l - 1] < budget}
             w == Within(d, budget)
  <1>1. d \in [1..n -> Int] /\ DOMAIN d = 1..n
    OBVIOUS
  <1>2. \A k \in 1..n : Before(k) = q[k - 1]
    <2>1. ASSUME NEW k \in 1..n
          PROVE  Before(k) = q[k - 1]
      <3>1. k - 1 \in 0..n
        OBVIOUS
      <3> QED BY <1>1, <3>1, SumOfFirst
    <2> QED BY <2>1
  <1>3. w = [k \in taken |-> IF budget = None THEN d[k] ELSE Min2(d[k], budget - q[k - 1])]
    <2>1. {l \in DOMAIN d : budget # None => Before(l) < budget} = taken
      BY <1>1, <1>2
    <2>2. w = [k \in {l \in DOMAIN d : budget # None => Before(l) < budget} |->
                  IF budget = None THEN d[k] ELSE Min2(d[k], budget - Before(k))]
      BY Zenon DEF Within
    <2> QED BY <1>2, <2>1, <2>2
  <1>4. \A k \in 0..n : q[k] \in Int
    BY DEF RunningSums
  <1>5. \E m \in 0..n : taken = 1..m
    <2>1. CASE budget = None
      <3>1. taken = 1..n
        BY <2>1
      <3> QED BY <3>1
    <2>2. CASE budget # None /\ \A k \in 1..n : q[k - 1] < budget
      <3>1. taken = 1..n
        BY <2>2
      <3> QED BY <3>1
    <2>3. CASE budget # None /\ \E k \in 1..n : ~(q[k - 1] < budget)
      <3> DEFINE Out == {k \in 1..n : ~(q[k - 1] < budget)}
      <3>1. Out \in SUBSET Nat /\ Out # {}
        <4>1. Out # {}
          BY <2>3, Zenon
        <4>2. \A k \in 1..n : k \in Nat
          OBVIOUS
        <4> QED BY <4>1, <4>2
      <3>2. PICK o \in Out : \A k \in Out : o <= k
        <4> HIDE DEF Out
        <4> QED BY <3>1, LeastNatural
      <3>3. taken \subseteq 1..(o - 1)
        <4>1. ASSUME NEW l \in 1..n, l >= o
              PROVE  ~(q[l - 1] < budget)
          <5>1. o - 1 \in 0..n /\ l - 1 \in (o - 1)..n /\ l - 1 \in 0..n
            BY <4>1
          <5>2. q[o - 1] <= q[l - 1]
            BY <5>1, RunningSumsGrow
          <5>3. q[o - 1] \in Int /\ q[l - 1] \in Int /\ budget \in Nat /\ ~(q[o - 1] < budget)
            BY <1>4, <2>3, <5>1 DEF IsBudget
          <5> QED BY <5>2, <5>3
        <4> QED BY <2>3, <4>1
      <3>4. 1..(o - 1) \subseteq taken
        BY <3>2
      <3>5. o - 1 \in 0..n
        OBVIOUS
      <3> QED BY <3>3, <3>4, <3>5
    <2> QED BY <2>1, <2>2, <2>3
  <1>6. PICK m \in 0..n : taken = 1..m
    BY <1>5
  <1>7. \A i \in 1..m : w[i] = IF budget = None THEN d[i] ELSE Min2(d[i], budget - q[i - 1])
    BY <1>3, <1>6
  <1>8. \A i \in 1..n : i \in 1..m <=> (budget # None => q[i - 1] < budget)
    BY <1>6
  <1>9. \A i \in 1..m : w[i] \in Nat
    <2>1. ASSUME NEW i \in 1..m
          PROVE  w[i] \in Nat
      <3>1. i \in 1..n /\ i - 1 \in 0..n
        OBVIOUS
      <3>2. d[i] \in Nat /\ q[i - 1] \in Int
        BY <1>4, <3>1
      <3>3. budget # None => q[i - 1] < budget /\ budget \in Nat
        BY <1>8, <3>1 DEF IsBudget
      <3> HIDE DEF w
      <3> QED BY <1>7, <3>2, <3>3 DEF Min2
    <2> QED BY <2>1
  <1>10. w \in [1..m -> Nat]
    <2>1. w = [k \in 1..m |-> w[k]]
      BY <1>3, <1>6
    <2> HIDE DEF w
    <2> QED BY <1>9, <2>1
  <1> HIDE DEF w
  <1>11. w = Within(d, budget)
    BY DEF w
  <1> QED BY <1>7, <1>8, <1>10, <1>11 DEF IsTaken

\* The way ahead of a point of a segment: the rest of that one and all of the next.
IsAhead(segments, p, first, at, d) ==
    /\ first \in 1..Len(segments) /\ at \in Nat
    /\ p[first - 1] <= at /\ at <= p[first]
    /\ d \in [1..(Len(segments) - first + 1) -> Nat]
    /\ d[1] = p[first] - at
    /\ \A i \in 2..(Len(segments) - first + 1) : d[i] = segments[first + i - 1].length

\* The running sums of what is ahead are the cumulative distances from there.
LEMMA RunningSumsAhead ==
    ASSUME NEW segments \in Seq(Segments), NEW p, Way(segments, p),
           NEW first, NEW at, NEW d, IsAhead(segments, p, first, at, d),
           NEW q, RunningSums(d, Len(segments) - first + 1, q)
    PROVE  \A i \in 1..(Len(segments) - first + 1) : q[i] = p[first + i - 1] - at
  <1> DEFINE N == Len(segments)
             n == N - first + 1
             G == {i \in 0..n : i = 0 \/ q[i] = p[first + i - 1] - at}
  <1>1. N \in Nat /\ first \in 1..N /\ at \in Nat /\ n \in Nat
    BY LengthsFit DEF IsAhead
  <1>2. 0 \in G
    BY <1>1
  <1>3. ASSUME NEW j \in 0..(n - 1), j \in G
        PROVE  j + 1 \in G
    <2>1. j + 1 \in 1..n /\ (j + 1) - 1 = j
      BY <1>1
    <2>2. q[j + 1] = q[j] + d[j + 1]
      BY <2>1 DEF RunningSums
    <2>3. CASE j = 0
      <3>1. q[0] = 0 /\ d[1] = p[first] - at /\ first + 1 - 1 = first
        BY <1>1 DEF IsAhead, RunningSums
      <3>2. p[first] \in Nat
        <4>1. p \in [0..N -> Nat]
          BY WayFits, Zenon
        <4> QED BY <1>1, <4>1
      <3>3. q[1] = p[first] - at
        BY <1>1, <2>2, <2>3, <3>1, <3>2
      <3> QED BY <1>1, <2>1, <2>3, <3>1, <3>3
    <2>4. CASE j # 0
      <3>1. PICK k \in 1..N : k = first + j
        <4>1. first + j \in 1..N
          BY <1>1
        <4> QED BY <4>1
      <3>2. k = first + (j + 1) - 1 /\ k - 1 = first + j - 1 /\ k - 1 \in 0..N
        BY <1>1, <3>1
      <3>3. d[j + 1] = segments[k].length
        <4>1. j + 1 \in 2..n
          BY <1>1, <2>4
        <4>2. d[j + 1] = segments[first + (j + 1) - 1].length
          BY <4>1 DEF IsAhead
        <4> QED BY <3>2, <4>2
      <3>4. p[k] = p[k - 1] + segments[k].length
        BY WayFits
      <3>5. q[j] = p[k - 1] - at
        BY <1>3, <2>4, <3>2
      <3>6. segments[k].length \in Nat /\ p[k - 1] \in Nat
        <4>1. Lengths(segments)[k] \in Nat /\ Lengths(segments)[k] = segments[k].length
          BY <3>1, LengthsFit
        <4>2. p[k - 1] \in Nat
          BY <3>2, WayFits
        <4> QED BY <4>1, <4>2
      <3>7. q[j + 1] = p[k] - at
        BY <1>1, <2>2, <3>3, <3>4, <3>5, <3>6
      <3> QED BY <1>1, <2>1, <3>2, <3>7
    <2> QED BY <2>3, <2>4
  <1>4. \A i \in 0..n : i \in G
    <2> HIDE DEF G, n
    <2> QED BY <1>1, <1>2, <1>3, InductionUpTo
  <1> QED BY <1>1, <1>4

\* How much of what lies between two distances is on the way from one distance on,
\* of a length or to the end.
Part(start, end, at, budget) ==
    LET upper == IF budget = None THEN end ELSE Min2(end, at + budget)
        lower == IF start < at THEN at ELSE start
    IN  IF upper > lower THEN upper - lower ELSE 0

\* Overlap in terms of the cumulative distances.
LEMMA OverlapIsPart ==
    ASSUME asked.segments \in Seq(Segments), NEW p, Way(asked.segments, p),
           NEW k \in 1..Len(asked.segments), NEW at, NEW budget
    PROVE  Overlap(k, at, budget) = Part(p[k - 1], p[k], at, budget)
  <1>1. k \in 0..Len(asked.segments) /\ k - 1 \in 0..Len(asked.segments)
    BY LengthsFit
  <1>2. Cumulative(asked.segments, k) = p[k]
    BY <1>1, CumulativeIsWay
  <1>3. p[k] = p[k - 1] + asked.segments[k].length /\ p[k] \in Nat /\ p[k - 1] \in Nat
    <2>1. /\ p \in [0..Len(asked.segments) -> Nat]
          /\ \A i \in 1..Len(asked.segments) : p[i] = p[i - 1] + asked.segments[i].length
      BY WayFits
    <2> QED BY <1>1, <2>1
  <1>4. asked.segments[k].length \in Nat
    <2>1. Lengths(asked.segments)[k] \in Nat
          /\ Lengths(asked.segments)[k] = asked.segments[k].length
      BY LengthsFit
    <2> QED BY <2>1
  <1>5. p[k] - asked.segments[k].length = p[k - 1]
    BY <1>3, <1>4
  <1> QED BY <1>2, <1>5 DEF Overlap, Part

\* Where what lies ahead begins, and what a budget leaves of a distance.
Lower(start, at) == IF start < at THEN at ELSE start
IsLeft(before, budget) == budget # None => before < budget
Cut(distance, before, budget) ==
    IF budget = None THEN distance ELSE Min2(distance, budget - before)

\* What a budget leaves of a segment is the part of it that is within reach.
LEMMA PartOfBudget ==
    ASSUME NEW start \in Nat, NEW end \in Nat, NEW at \in Nat, Lower(start, at) <= end,
           NEW budget, IsBudget(budget)
    PROVE  Part(start, end, at, budget) =
              IF IsLeft(Lower(start, at) - at, budget)
              THEN Cut(end - Lower(start, at), Lower(start, at) - at, budget) ELSE 0
  <1>1. PICK lower \in Nat, taken \in BOOLEAN :
           /\ lower = Lower(start, at) /\ (taken <=> IsLeft(lower - at, budget))
           /\ lower = IF start < at THEN at ELSE start
    BY DEF Lower
  <1>2. lower <= end /\ (taken <=> (budget # None => lower - at < budget))
    BY <1>1 DEF IsLeft
  <1>3. CASE budget = None
    <2>1. taken
      BY <1>2, <1>3
    <2>2. Part(start, end, at, budget) = IF end > lower THEN end - lower ELSE 0
      BY <1>1, <1>3 DEF Part
    <2> QED BY <1>1, <1>2, <1>3, <2>1, <2>2 DEF Cut
  <1>4. CASE budget # None
    <2>1. taken <=> lower - at < budget
      BY <1>2, <1>4
    <2>2. PICK upper \in Int : upper = IF end < at + budget THEN end ELSE at + budget
      BY <1>4 DEF IsBudget
    <2>3. Part(start, end, at, budget) = IF upper > lower THEN upper - lower ELSE 0
      BY <1>1, <1>4, <2>2 DEF Part, Min2
    <2>4. Min2(end - lower, budget - (lower - at)) = upper - lower
      BY <1>4, <2>2 DEF Min2, IsBudget
    <2>5. budget \in Nat
      BY <1>4 DEF IsBudget
    <2>6. upper > lower => taken
      BY <1>1, <1>2, <2>1, <2>2, <2>5
    <2>7. taken => upper >= lower
      BY <1>1, <1>2, <2>1, <2>2, <2>5
    <2> QED BY <1>1, <1>4, <2>2, <2>3, <2>4, <2>6, <2>7 DEF Cut
  <1> QED BY <1>3, <1>4

\* The first m distances are what is ahead of the segments from one on.
Covers(segments, p, first, at, budget, m, distances) ==
    /\ distances \in [1..m -> Nat]
    /\ \A k \in 1..Len(segments) :
          Part(p[k - 1], p[k], at, budget) =
             IF k - first + 1 \in 1..m THEN distances[k - first + 1] ELSE 0

\* Of every segment the part is taken that is on the way ahead.
LEMMA AheadIsTaken ==
    ASSUME NEW segments \in Seq(Segments), NEW p, Way(segments, p),
           NEW first, NEW at, NEW d, IsAhead(segments, p, first, at, d),
           NEW budget, IsBudget(budget)
    PROVE  \E m \in 0..(Len(segments) - first + 1) :
              Covers(segments, p, first, at, budget, m, Within(d, budget))
  <1> DEFINE N == Len(segments)
  <1>1. /\ N \in Nat /\ first \in 1..N /\ at \in Nat
        /\ d \in [1..(N - first + 1) -> Nat]
    BY LengthsFit DEF IsAhead
  <1>2. PICK n \in Nat : n = N - first + 1
    <2>1. N - first + 1 \in Nat
      BY <1>1
    <2> QED BY <2>1
  <1>3. d \in [1..n -> Nat] /\ d \in [1..n -> Int]
    BY <1>1, <1>2
  <1>4. PICK q : RunningSums(d, n, q)
    BY <1>3, SumIsLastPrefix
  <1>5. PICK m \in 0..n : IsTaken(d, n, q, budget, m)
    BY <1>3, <1>4, WithinFits
  <1>6. PICK w : w = Within(d, budget)
    OBVIOUS
  <1>7. q[0] = 0
    BY <1>4 DEF RunningSums
  <1>8. \A i \in 1..n : q[i] = p[first + i - 1] - at
    <2>1. RunningSums(d, N - first + 1, q)
      BY <1>2, <1>4
    <2>2. \A i \in 1..(N - first + 1) : q[i] = p[first + i - 1] - at
      BY <2>1, RunningSumsAhead
    <2> QED BY <1>2, <2>2
  <1>9. ASSUME NEW k \in 1..N
        PROVE  Part(p[k - 1], p[k], at, budget) =
                  IF k - first + 1 \in 1..m THEN w[k - first + 1] ELSE 0
    <2>1. PICK start \in Nat, end \in Nat, length \in Nat :
             /\ start = p[k - 1] /\ end = p[k] /\ length = segments[k].length
             /\ end = start + length
      <3>1. k - 1 \in 0..N /\ k \in 0..N
        BY <1>1
      <3>2. p[k - 1] \in Nat /\ p[k] \in Nat /\ p[k] = p[k - 1] + segments[k].length
        BY <3>1, WayFits
      <3>3. segments[k].length \in Nat
        <4>1. Lengths(segments)[k] \in Nat /\ Lengths(segments)[k] = segments[k].length
          BY LengthsFit
        <4> QED BY <4>1
      <3> QED BY <3>2, <3>3
    <2>2. CASE k < first
      <3>1. end <= at
        <4>1. k \in 0..N /\ first - 1 \in k..N /\ first - 1 \in 0..N
          BY <1>1, <2>2
        <4>2. p[k] <= p[first - 1] /\ p[first - 1] <= at
          BY <4>1, WayFits DEF IsAhead
        <4>3. p[first - 1] \in Nat
          BY <4>1, WayFits
        <4> QED BY <1>1, <2>1, <4>2, <4>3
      <3>2. k - first + 1 \notin 1..m
        BY <1>1, <2>2
      <3>3. Part(start, end, at, budget) = 0
        <4>1. CASE budget = None
          BY <1>1, <2>1, <3>1, <4>1 DEF Part
        <4>2. CASE budget # None
          <5>1. Min2(end, at + budget) \in Int /\ Min2(end, at + budget) <= end
            <6>1. PICK reach \in Int : reach = at + budget
              BY <1>1, <4>2 DEF IsBudget
            <6>2. Min2(end, reach) \in Int /\ Min2(end, reach) <= end
              BY DEF Min2
            <6> QED BY <6>1, <6>2, Zenon
          <5>2. PICK upper \in Int : upper = Min2(end, at + budget) /\ upper <= end
            BY <5>1
          <5>3. Part(start, end, at, budget) =
                   LET lower == IF start < at THEN at ELSE start
                   IN  IF upper > lower THEN upper - lower ELSE 0
            BY <4>2, <5>2 DEF Part
          <5> QED BY <1>1, <3>1, <5>2, <5>3
        <4> QED BY <4>1, <4>2
      <3> QED BY <2>1, <3>2, <3>3
    <2>3. CASE k >= first
      <3>1. PICK i \in 1..n : i = k - first + 1 /\ k = first + i - 1
        <4>1. k - first + 1 \in 1..n /\ k = first + (k - first + 1) - 1
          BY <1>1, <1>2, <2>3
        <4> QED BY <4>1
      <3>2. PICK lower \in Nat : lower = IF start < at THEN at ELSE start
        BY <1>1
      <3>3. d[i] = end - lower /\ lower <= end /\ q[i - 1] = lower - at
        <4>1. CASE i = 1
          <5>1. k = first
            BY <1>1, <3>1, <4>1
          <5>2. start <= at /\ at <= end /\ d[1] = end - at
            BY <2>1, <5>1 DEF IsAhead
          <5>3. lower = at
            BY <1>1, <2>1, <3>2, <5>2
          <5> QED BY <1>1, <1>7, <4>1, <5>2, <5>3
        <4>2. CASE i # 1
          <5>1. i \in 2..n /\ i - 1 \in 1..n /\ first + (i - 1) - 1 = k - 1
            BY <1>1, <3>1, <4>2
          <5>2. d[i] = length
            <6>1. i \in 2..(N - first + 1) /\ first + i - 1 = k
              BY <1>2, <3>1, <5>1
            <6>2. d[i] = segments[first + i - 1].length
              BY <6>1 DEF IsAhead
            <6> QED BY <2>1, <6>1, <6>2
          <5>3. q[i - 1] = start - at
            <6>1. q[i - 1] = p[first + (i - 1) - 1] - at
              BY <1>8, <5>1
            <6> QED BY <2>1, <5>1, <6>1
          <5>4. at <= start
            <6>1. first \in 0..N /\ k - 1 \in first..N /\ k - 1 \in 0..N
              BY <1>1, <3>1, <4>2
            <6>2. p[first] <= p[k - 1] /\ at <= p[first] /\ p[first] \in Nat
              BY <6>1, WayFits DEF IsAhead
            <6> QED BY <1>1, <2>1, <6>2
          <5>5. lower = start
            BY <1>1, <3>2, <5>4
          <5>6. end - lower = length /\ lower <= end
            BY <2>1, <5>5
          <5> QED BY <5>2, <5>3, <5>5, <5>6
        <4> QED BY <4>1, <4>2
      <3>4. i \in 1..m <=> (budget # None => lower - at < budget)
        BY <1>5, <3>3 DEF IsTaken
      <3>5. i \in 1..m => w[i] = IF budget = None THEN end - lower
                                                  ELSE Min2(end - lower, budget - (lower - at))
        BY <1>5, <1>6, <3>3 DEF IsTaken
      <3>6. PICK taken \in BOOLEAN : taken <=> i \in 1..m
        OBVIOUS
      <3>7. taken <=> (budget # None => lower - at < budget)
        BY <3>4, <3>6
      <3>8. Part(start, end, at, budget) =
               IF taken THEN IF budget = None THEN end - lower
                                              ELSE Min2(end - lower, budget - (lower - at))
                        ELSE 0
        <4>1. lower <= end /\ at \in Nat /\ start \in Nat /\ end \in Nat
          BY <1>1, <2>1, <3>3
        <4>2. Lower(start, at) = lower
          BY <3>2 DEF Lower
        <4>3. Part(start, end, at, budget) =
                 IF IsLeft(Lower(start, at) - at, budget)
                 THEN Cut(end - Lower(start, at), Lower(start, at) - at, budget) ELSE 0
          BY <4>1, <4>2, PartOfBudget
        <4> QED BY <3>7, <4>2, <4>3 DEF Cut, IsLeft
      <3>9. Part(start, end, at, budget) = IF i \in 1..m THEN w[i] ELSE 0
        BY <3>5, <3>6, <3>8
      <3> QED BY <2>1, <3>1, <3>9
    <2> QED BY <1>1, <2>2, <2>3
  <1> QED BY <1>2, <1>5, <1>6, <1>9 DEF IsTaken, Covers

-----------------------------------------------------------------------------
(* Where the location is, and the part that is selected *)

\* The first of what has the least value.
LEMMA FirstLeast ==
    ASSUME NEW T \in SUBSET Nat, T # {}, NEW f, \A k \in T : f[k] \in Nat
    PROVE  \E k \in T : \A l \in T : f[k] < f[l] \/ (f[k] = f[l] /\ k <= l)
  <1>1. PICK v \in {f[k] : k \in T} : \A w \in {f[k] : k \in T} : v <= w
    <2>1. {f[k] : k \in T} \in SUBSET Nat /\ {f[k] : k \in T} # {}
      OBVIOUS
    <2> QED BY <2>1, LeastNatural
  <1>2. PICK k \in {j \in T : f[j] = v} : \A l \in {j \in T : f[j] = v} : k <= l
    <2>1. {j \in T : f[j] = v} \in SUBSET Nat /\ {j \in T : f[j] = v} # {}
      OBVIOUS
    <2> QED BY <2>1, LeastNatural
  <1>3. ASSUME NEW l \in T
        PROVE  f[k] < f[l] \/ (f[k] = f[l] /\ k <= l)
    <2>1. f[k] = v /\ f[l] \in Nat /\ v \in Nat /\ v <= f[l]
      BY <1>1, <1>2
    <2>2. CASE f[l] = v
      BY <1>2, <2>1, <2>2
    <2>3. CASE f[l] # v
      BY <2>1, <2>3
    <2> QED BY <2>2, <2>3
  <1> QED BY <1>2, <1>3

\* A location as it is asked about.
IsLocation(segments, location) ==
    \A k \in DOMAIN segments : location[k].off \in Nat
                               /\ location[k].along \in 0..segments[k].length

\* What the projection of a location to a way is.
IsProjection(segments, p, location, pr) ==
    /\ pr.segment \in 1..Len(segments)
    /\ \A l \in 1..Len(segments) : location[pr.segment].off <= location[l].off
    /\ pr.off = location[pr.segment].off
    /\ pr.cumulative = p[pr.segment - 1] + location[pr.segment].along

\* project_location_to_segments finds the first nearest segment.
LEMMA Projected ==
    ASSUME asked.segments \in Seq(Segments), asked.segments # <<>>,
           IsLocation(asked.segments, asked.location),
           NEW p, Way(asked.segments, p)
    PROVE  IsProjection(asked.segments, p, asked.location, Projection)
  <1> DEFINE N == Len(asked.segments)
             Nearest(k) == \A l \in DOMAIN asked.segments :
                      \/ asked.location[k].off < asked.location[l].off
                      \/ asked.location[k].off = asked.location[l].off /\ k <= l
             near == CHOOSE k \in DOMAIN asked.segments : Nearest(k)
  <1>1. N \in Nat /\ DOMAIN asked.segments = 1..N /\ 1 \in 1..N
    <2>1. N \in Nat /\ DOMAIN asked.segments = 1..N
      BY LengthsFit
    <2>2. N # 0
      OBVIOUS
    <2> QED BY <2>1, <2>2
  <1>2. \A k \in 1..N : asked.location[k].off \in Nat
                        /\ asked.location[k].along \in 0..asked.segments[k].length
    BY <1>1 DEF IsLocation
  <1>3. near \in 1..N /\ Nearest(near)
    <2>1. \E k \in DOMAIN asked.segments : Nearest(k)
      <3> DEFINE f == [k \in 1..N |-> asked.location[k].off]
      <3>1. 1..N \in SUBSET Nat /\ 1..N # {} /\ \A k \in 1..N : f[k] \in Nat
        BY <1>1, <1>2
      <3>2. PICK k \in 1..N : \A l \in 1..N : f[k] < f[l] \/ (f[k] = f[l] /\ k <= l)
        <4> HIDE DEF f
        <4> QED BY <3>1, FirstLeast
      <3>3. Nearest(k)
        BY <1>1, <3>2
      <3> QED BY <1>1, <3>3
    <2> HIDE DEF Nearest
    <2>2. near \in DOMAIN asked.segments /\ Nearest(near)
      BY <2>1
    <2> QED BY <1>1, <2>2
  <1>4. PICK c \in 1..N : c = near /\ Nearest(c)
    BY <1>3
  <1>5. Projection = [segment |-> c, off |-> asked.location[c].off,
                      cumulative |-> Cumulative(asked.segments, c) - asked.segments[c].length
                                       + asked.location[c].along]
    BY <1>4, Zenon DEF Projection
  <1>6. Cumulative(asked.segments, c) - asked.segments[c].length = p[c - 1]
    <2>1. c \in 0..N /\ c - 1 \in 0..N
      BY <1>1
    <2>2. p[c - 1] \in Nat /\ p[c] = p[c - 1] + asked.segments[c].length
      BY <2>1, WayFits
    <2>3. Lengths(asked.segments)[c] \in Nat
          /\ Lengths(asked.segments)[c] = asked.segments[c].length
      BY LengthsFit
    <2>4. Cumulative(asked.segments, c) = p[c]
      BY <2>1, CumulativeIsWay
    <2> QED BY <2>2, <2>3, <2>4
  <1>7. \A l \in 1..N : asked.location[c].off <= asked.location[l].off
    <2>1. ASSUME NEW l \in 1..N
          PROVE  asked.location[c].off <= asked.location[l].off
      <3>1. l \in DOMAIN asked.segments /\ Nearest(c)
        BY <1>1, <1>4
      <3>2. \/ asked.location[c].off < asked.location[l].off
            \/ asked.location[c].off = asked.location[l].off
        BY <3>1
      <3>3. asked.location[c].off \in Nat /\ asked.location[l].off \in Nat
        BY <1>2
      <3> QED BY <3>2, <3>3
    <2> QED BY <2>1
  <1> QED BY <1>5, <1>6, <1>7 DEF IsProjection

\* From the start of the route everything is ahead.
LEMMA StartIsAhead ==
    ASSUME NEW segments \in Seq(Segments), segments # <<>>, NEW p, Way(segments, p)
    PROVE  IsAhead(segments, p, 1, 0, Lengths(segments))
  <1>1. Len(segments) \in Nat /\ Len(segments) # 0
    BY LengthsFit
  <1>2. Lengths(segments) \in [1..(Len(segments) - 1 + 1) -> Nat]
    BY <1>1, LengthsFit
  <1>3. 1 \in 1..Len(segments) /\ 1 \in 0..Len(segments) /\ 0 \in 0..Len(segments)
    BY <1>1
  <1>4. p[0] = 0 /\ p[1] \in Nat /\ p[1] = p[1 - 1] + segments[1].length
    BY <1>3, WayFits
  <1>5. Lengths(segments)[1] = segments[1].length /\ Lengths(segments)[1] \in Nat
    BY <1>3, LengthsFit
  <1>6. \A i \in 2..(Len(segments) - 1 + 1) : Lengths(segments)[i] = segments[1 + i - 1].length
    BY <1>1, LengthsFit
  <1> QED BY <1>2, <1>3, <1>4, <1>5, <1>6 DEF IsAhead

\* From a point of a segment the rest of that one and the later ones are.
LEMMA RestIsAhead ==
    ASSUME NEW segments \in Seq(Segments), NEW p, Way(segments, p), NEW first \in 1..Len(segments),
           NEW along \in 0..segments[first].length
    PROVE  IsAhead(segments, p, first, p[first - 1] + along,
                   <<p[first] - (p[first - 1] + along)>>
                     \o SubSeq(Lengths(segments), first + 1, Len(segments)))
  <1> DEFINE N == Len(segments)
  <1>1. N \in Nat
    BY LengthsFit
  <1>2. first \in 0..N /\ first - 1 \in 0..N
    BY <1>1
  <1>3. p[first - 1] \in Nat /\ p[first] \in Nat /\ p[first] = p[first - 1] + segments[first].length
    BY <1>2, WayFits
  <1>4. segments[first].length \in Nat
    <2>1. Lengths(segments)[first] \in Nat /\ Lengths(segments)[first] = segments[first].length
      BY LengthsFit
    <2> QED BY <2>1
  <1>5. PICK at \in Nat, r \in Nat :
           /\ at = p[first - 1] + along /\ r = p[first] - at
           /\ p[first - 1] <= at /\ at <= p[first]
    <2>1. /\ p[first - 1] + along \in Nat /\ p[first] - (p[first - 1] + along) \in Nat
          /\ p[first - 1] <= p[first - 1] + along /\ p[first - 1] + along <= p[first]
      <3>1. PICK start \in Nat, length \in Nat :
               start = p[first - 1] /\ length = segments[first].length /\ p[first] = start + length
        BY <1>3, <1>4
      <3>2. along \in 0..length
        BY <3>1
      <3>3. /\ start + along \in Nat /\ (start + length) - (start + along) \in Nat
            /\ start <= start + along /\ start + along <= start + length
        BY <3>2
      <3> QED BY <3>1, <3>3, Zenon
    <2> QED BY <2>1
  <1>6. PICK L : L = Lengths(segments) /\ L \in Seq(Nat) /\ Len(L) = N
    <2>1. Lengths(segments) \in [1..N -> Nat]
      BY LengthsFit
    <2> QED BY <1>1, <2>1
  <1>7. PICK later : later = SubSeq(L, first + 1, N) /\ later \in Seq(Nat) /\ Len(later) = N - first
                     /\ \A i \in 1..(N - first) : later[i] = L[first + i]
    <2>1. SubSeq(L, first + 1, N) = [i \in 1..(N - first) |-> L[first + i]]
      BY <1>1, <1>6
    <2>2. \A i \in 1..(N - first) : L[first + i] \in Nat
      BY <1>1, <1>6
    <2>3. N - first \in Nat
      BY <1>1
    <2>4. SubSeq(L, first + 1, N) \in Seq(Nat)
      <3>1. first + 1 \in 1..(Len(L) + 1) /\ N \in (first + 1 - 1)..Len(L)
        BY <1>1, <1>6
      <3> QED BY <1>6, <3>1, SubSeqProperties
    <2>5. Len(SubSeq(L, first + 1, N)) = N - first
      BY <2>1, <2>3
    <2> QED BY <2>1, <2>4, <2>5
  <1>8. PICK d : d = <<r>> \o later
    OBVIOUS
  <1>9. d \in Seq(Nat) /\ Len(d) = N - first + 1 /\ d[1] = r
        /\ \A i \in 2..(N - first + 1) : d[i] = later[i - 1]
    <2>1. <<r>> \in Seq(Nat) /\ Len(<<r>>) = 1
      OBVIOUS
    <2> QED BY <1>1, <1>7, <1>8, <2>1
  <1>10. d \in [1..(N - first + 1) -> Nat]
    BY <1>9
  <1>11. ASSUME NEW i \in 2..(N - first + 1)
         PROVE  d[i] = segments[first + i - 1].length
    <2>1. i - 1 \in 1..(N - first) /\ first + (i - 1) = first + i - 1 /\ first + i - 1 \in 1..N
      BY <1>1
    <2>2. d[i] = L[first + i - 1]
      BY <1>7, <1>9, <2>1
    <2>3. L[first + i - 1] = segments[first + i - 1].length
      BY <1>6, <2>1, LengthsFit
    <2> QED BY <2>2, <2>3
  <1>12. IsAhead(segments, p, first, at, d)
    BY <1>5, <1>9, <1>10, <1>11 DEF IsAhead
  <1> QED BY <1>5, <1>6, <1>7, <1>8, <1>12

\* What Select selects.
IsSelected(part) ==
    \/ part = FromStart
    \/ /\ asked.mode = "onboard" /\ asked.location # None /\ Projection.off <= OffRoute
       /\ part = AfterProjection(Projection)

\* What a request loads.
Loads ==
    /\ asked.mode \in {"onboard", "preview"} /\ asked.segments \in Seq(Segments)
    /\ asked.location # None => IsLocation(asked.segments, asked.location)

\* A part that is selected is on the way: of every segment it has what is ahead.
IsTheWayAhead(part) ==
    \E p : \E m \in 0..Len(asked.segments) :
       /\ Way(asked.segments, p)
       /\ part.first \in 1..Len(asked.segments) /\ part.first + m - 1 <= Len(asked.segments)
       /\ Covers(asked.segments, p, part.first, part.at, Budget, m, part.distances)

\* The budget of a horizon is one.
LEMMA BudgetFits == IsBudget(Budget)
  BY AdviceAssumption DEF IsBudget, Budget

\* _segments_from_direction_start selects the way ahead of the start,
LEMMA StartIsTheWayAhead ==
    ASSUME Loads, asked.segments # <<>>
    PROVE  IsTheWayAhead(FromStart)
  <1>1. asked.segments \in Seq(Segments) /\ Len(asked.segments) \in Nat
    BY LengthsFit DEF Loads
  <1>2. PICK p : Way(asked.segments, p)
    BY <1>1, WayExists
  <1>3. IsAhead(asked.segments, p, 1, 0, Lengths(asked.segments))
    BY <1>1, <1>2, StartIsAhead
  <1>4. PICK m \in 0..(Len(asked.segments) - 1 + 1) :
           Covers(asked.segments, p, 1, 0, Budget, m, Within(Lengths(asked.segments), Budget))
    BY <1>1, <1>2, <1>3, BudgetFits, AheadIsTaken
  <1>5. FromStart.at = 0 /\ FromStart.first = 1
        /\ FromStart.distances = Within(Lengths(asked.segments), Budget)
    BY DEF FromStart
  <1>6. m \in 0..Len(asked.segments) /\ 1 \in 1..Len(asked.segments)
        /\ 1 + m - 1 <= Len(asked.segments)
    BY <1>1, <1>3 DEF IsAhead
  <1> QED BY <1>2, <1>4, <1>5, <1>6 DEF IsTheWayAhead

\* and segments_after_projection that ahead of the projection.
LEMMA RestIsTheWayAhead ==
    ASSUME Loads, asked.segments # <<>>, asked.location # None
    PROVE  IsTheWayAhead(AfterProjection(Projection))
  <1> DEFINE N == Len(asked.segments)
  <1>1. /\ asked.segments \in Seq(Segments) /\ N \in Nat
        /\ IsLocation(asked.segments, asked.location) /\ DOMAIN asked.segments = 1..N
    BY LengthsFit DEF Loads
  <1>2. PICK p : Way(asked.segments, p)
    BY <1>1, WayExists
  <1>3. PICK pr : pr = Projection /\ IsProjection(asked.segments, p, asked.location, pr)
    BY <1>1, <1>2, Projected
  <1>4. PICK first, at : first \in 1..N /\ first = pr.segment /\ at = pr.cumulative
    BY <1>3 DEF IsProjection
  <1>5. asked.location[first].along \in 0..asked.segments[first].length
        /\ at = p[first - 1] + asked.location[first].along
    BY <1>1, <1>3, <1>4 DEF IsProjection, IsLocation
  <1>6. PICK d : d = <<p[first] - at>> \o SubSeq(Lengths(asked.segments), first + 1, N)
    OBVIOUS
  <1>7. IsAhead(asked.segments, p, first, at, d)
    BY <1>4, <1>1, <1>2, <1>5, <1>6, RestIsAhead
  <1>8. RestOfSegment(pr) = p[first] - at
    <2>1. first \in 0..N
      BY <1>4, <1>1
    <2> QED BY <1>1, <1>2, <1>4, <2>1, CumulativeIsWay DEF RestOfSegment
  <1>9. PICK part : part = AfterProjection(pr)
    OBVIOUS
  <1>10. part.at = at /\ part.first = first /\ part.distances = Within(d, Budget)
    BY <1>4, <1>6, <1>8, <1>9 DEF AfterProjection
  <1>11. PICK m \in 0..(N - first + 1) :
           Covers(asked.segments, p, first, at, Budget, m, Within(d, Budget))
    BY <1>1, <1>2, <1>7, BudgetFits, AheadIsTaken
  <1>12. m \in 0..N /\ first + m - 1 <= N
    BY <1>4, <1>1
  <1>13. IsTheWayAhead(part)
    BY <1>4, <1>2, <1>10, <1>11, <1>12 DEF IsTheWayAhead
  <1> QED BY <1>3, <1>9, <1>13

-----------------------------------------------------------------------------
(* The inductive invariant *)

SelectionFits ==
    selected # None => asked.segments # <<>> /\ IsSelected(selected)

AnswerFits ==
    \/ answer = None
    \/ answer.status \in {"error", "withheld"}
    \/ selected # None /\ Sum(selected.distances) > 0
       /\ answer \in Summaries(asked.segments, selected)

AdviceInv == Loads /\ SelectionFits /\ AnswerFits

\* A selected part is one of the way ahead, and its distances can be summed up.
LEMMA SelectedIsAhead ==
    AdviceInv /\ selected # None =>
       IsTheWayAhead(selected) /\ Sum(selected.distances) \in Nat
  <1> SUFFICES ASSUME Loads, SelectionFits, selected # None
               PROVE  IsTheWayAhead(selected) /\ Sum(selected.distances) \in Nat
    BY DEF AdviceInv
  <1>1. IsTheWayAhead(selected)
    <2>1. asked.segments # <<>> /\ IsSelected(selected)
      BY DEF SelectionFits
    <2>2. CASE selected = FromStart
      BY <2>1, <2>2, StartIsTheWayAhead
    <2>3. CASE asked.location # None /\ selected = AfterProjection(Projection)
      BY <2>1, <2>3, RestIsTheWayAhead
    <2> QED BY <2>1, <2>2, <2>3 DEF IsSelected
  <1>2. PICK m \in Nat : selected.distances \in [1..m -> Nat]
    <2>1. Len(asked.segments) \in Nat
      BY LengthsFit DEF Loads
    <2>2. PICK m \in 0..Len(asked.segments) : selected.distances \in [1..m -> Nat]
      BY <1>1 DEF IsTheWayAhead, Covers
    <2> QED BY <2>1, <2>2
  <1>3. Sum(selected.distances) \in Nat
    BY <1>2, SumNat
  <1> QED BY <1>1, <1>3

\* The invariant holds initially,
LEMMA AdviceStarts == Init => AdviceInv
  BY AdviceAssumption DEF Init, AdviceInv, Loads, SelectionFits, AnswerFits, IsLocation

\* A projection has a distance from the route.
LEMMA ProjectionFits ==
    ASSUME Loads, asked.segments # <<>>, asked.location # None
    PROVE  Projection.off \in Nat
  <1>1. /\ asked.segments \in Seq(Segments)
        /\ IsLocation(asked.segments, asked.location)
        /\ DOMAIN asked.segments = 1..Len(asked.segments)
    BY LengthsFit DEF Loads
  <1>2. PICK p : Way(asked.segments, p)
    BY <1>1, WayExists
  <1>3. PICK pr : pr = Projection /\ IsProjection(asked.segments, p, asked.location, pr)
    BY <1>1, <1>2, Projected
  <1> QED BY <1>1, <1>3 DEF IsProjection, IsLocation

\* What depends on the request stays as it is.
LEMMA SameAsked ==
    ASSUME asked' = asked
    PROVE  /\ Projection' = Projection /\ FromStart' = FromStart
           /\ AfterProjection(Projection)' = AfterProjection(Projection)
           /\ selected' = selected => (SelectionFits' <=> SelectionFits)
           /\ selected' = selected =>
                Summaries(asked.segments, selected)' = Summaries(asked.segments, selected)
  <1>1. Projection' = Projection
    BY Zenon DEF Projection
  <1>2. FromStart' = FromStart
    BY Zenon DEF FromStart, Budget
  <1>3. AfterProjection(Projection)' = AfterProjection(Projection)
    BY <1>1, Zenon DEF AfterProjection, Budget, RestOfSegment
  <1> QED BY <1>1, <1>2, <1>3, Zenon DEF SelectionFits, IsSelected

\* and every step keeps it,
LEMMA AdviceSteps == AdviceInv /\ [Next]_vars => AdviceInv'
  <1> SUFFICES ASSUME AdviceInv, [Next]_vars
               PROVE  AdviceInv'
    OBVIOUS
  <1>1. asked' = asked
    BY DEF Next, Refuse, Select, Advise, vars
  <1>2. Loads'
    BY <1>1 DEF AdviceInv, Loads
  <1>7. Loads
    BY DEF AdviceInv
  <1>3. CASE Refuse
    BY <1>1, <1>2, <1>3 DEF AdviceInv, Refuse, SelectionFits, AnswerFits, Refused
  <1>4. CASE Select
    <2>1. CASE selected' = selected
      BY <1>1, <1>2, <1>4, <2>1
         DEF AdviceInv, Select, Loaded, SelectionFits, AnswerFits, Withheld
    <2>2. CASE selected' # selected
      <3>1. /\ asked.segments # <<>> /\ answer = None /\ answer' = answer /\ ~Invalid
            /\ \/ selected' = FromStart
               \/ /\ asked.mode # "preview" /\ ~(Projection.off > OffRoute)
                  /\ selected' = AfterProjection(Projection)
        BY <1>4, <2>2 DEF Select, Loaded
      <3>2. asked.mode # "preview" => asked.mode = "onboard" /\ asked.location # None
        BY <3>1 DEF AdviceInv, Loads, Invalid
      <3>3. Projection' = Projection /\ FromStart' = FromStart
            /\ AfterProjection(Projection)' = AfterProjection(Projection)
        BY <1>1, SameAsked
      <3>4. asked.location # None /\ ~(Projection.off > OffRoute) => Projection.off <= OffRoute
        BY <1>7, <3>1, ProjectionFits, AdviceAssumption
      <3>5. SelectionFits'
        BY <1>1, <3>1, <3>2, <3>3, <3>4 DEF SelectionFits, IsSelected
      <3> QED BY <1>1, <1>2, <3>1, <3>5 DEF AdviceInv, AnswerFits
    <2> QED BY <2>1, <2>2
  <1>5. CASE Advise
    <2>1. selected' = selected /\ SelectionFits'
      BY <1>1, <1>5, SameAsked DEF AdviceInv, Advise
    <2>2. Sum(selected.distances) <= 0 \/ Sum(selected.distances) > 0
      BY <1>5, SelectedIsAhead, SumType DEF AdviceInv, Advise, SelectionFits
    <2>3. AnswerFits'
      <3>1. CASE answer' = Withheld(selected.mode, "noAdviceForSelectedHorizon")
        <4>1. answer'.status = "withheld"
          BY <3>1 DEF Withheld
        <4> QED BY <4>1 DEF AnswerFits
      <3>2. CASE Sum(selected.distances) > 0 /\ answer' \in Summaries(asked.segments, selected)
        <4>1. (selected # None)' /\ (Sum(selected.distances) > 0)'
          BY <1>5, <2>1, <3>2 DEF Advise
        <4>2. answer' \in Summaries(asked.segments, selected)'
          BY <1>1, <2>1, <3>2, SameAsked
        <4> QED BY <4>1, <4>2 DEF AnswerFits
      <3>3. \/ answer' = Withheld(selected.mode, "noAdviceForSelectedHorizon")
            \/ /\ ~(Sum(selected.distances) <= 0)
               /\ answer' \in Summaries(asked.segments, selected)
        BY <1>5 DEF Advise
      <3> QED BY <2>2, <3>1, <3>2, <3>3
    <2> QED BY <1>2, <2>1, <2>3 DEF AdviceInv
  <1>6. CASE UNCHANGED vars
    <2>1. selected' = selected /\ answer' = answer /\ SelectionFits'
      BY <1>1, <1>6, SameAsked DEF AdviceInv, vars
    <2>2. AnswerFits'
      BY <1>1, <2>1, SameAsked DEF AdviceInv, AnswerFits
    <2> QED BY <1>2, <2>1, <2>2 DEF AdviceInv
  <1> QED BY <1>3, <1>4, <1>5, <1>6 DEF Next

\* so it always holds.
LEMMA AdviceInvariance == Spec => []AdviceInv
  <1> QED BY AdviceStarts, AdviceSteps, PTL DEF Spec

-----------------------------------------------------------------------------
(* The part that is selected *)

\* The invariant implies WindowIsAhead: the selected part is one of the two.
LEMMA SelectedWindow == AdviceInv => WindowIsAhead
  <1> SUFFICES ASSUME AdviceInv, selected # None
               PROVE  WindowIsAhead
    BY DEF WindowIsAhead
  <1> DEFINE N == Len(asked.segments)
             Chosen(k) == k - selected.first + 1 \in DOMAIN selected.distances
             Taken(k)  == IF Chosen(k) THEN selected.distances[k - selected.first + 1] ELSE 0
  <1>1. /\ Loads /\ asked.segments # <<>> /\ IsSelected(selected) /\ N \in Nat
        /\ asked.segments \in Seq(Segments) /\ DOMAIN asked.segments = 1..N
    BY LengthsFit DEF AdviceInv, SelectionFits, Loads
  <1>2. ASSUME NEW k \in 1..N
        PROVE  Taken(k) = Overlap(k, selected.at, Budget)
    <2>1. PICK p : \E m \in 0..N :
             /\ Way(asked.segments, p)
             /\ Covers(asked.segments, p, selected.first, selected.at, Budget, m,
                       selected.distances)
      BY SelectedIsAhead DEF IsTheWayAhead
    <2>2. PICK m \in 0..N :
             Covers(asked.segments, p, selected.first, selected.at, Budget, m,
                    selected.distances)
      BY <2>1
    <2>3. Overlap(k, selected.at, Budget) = Part(p[k - 1], p[k], selected.at, Budget)
      BY <1>1, <2>1, OverlapIsPart
    <2>4. DOMAIN selected.distances = 1..m
      BY <2>2 DEF Covers
    <2> QED BY <2>2, <2>3, <2>4 DEF Covers
  <1>3. CASE selected = FromStart
    <2>1. selected.mode = "preview" /\ selected.at = 0
      BY <1>3 DEF FromStart
    <2> QED BY <1>1, <1>2, <2>1 DEF WindowIsAhead
  <1>4. CASE /\ asked.location # None /\ Projection.off <= OffRoute
             /\ selected = AfterProjection(Projection)
    <2>1. PICK p : Way(asked.segments, p)
      BY <1>1, WayExists
    <2>2. PICK pr : pr = Projection /\ IsProjection(asked.segments, p, asked.location, pr)
      BY <1>1, <1>4, <2>1, Projected DEF Loads
    <2>3. selected.mode = "onboard" /\ selected.at = pr.cumulative
      BY <1>4, <2>2 DEF AfterProjection
    <2>4. PICK k \in 1..N : k = pr.segment
      BY <2>2 DEF IsProjection
    <2>5. /\ \A l \in 1..N : asked.location[k].off <= asked.location[l].off
          /\ asked.location[k].off <= OffRoute
          /\ selected.at = p[k - 1] + asked.location[k].along
      BY <1>4, <2>2, <2>3, <2>4 DEF IsProjection
    <2>6. Cumulative(asked.segments, k) - asked.segments[k].length = p[k - 1]
      <3>1. k \in 0..N /\ k - 1 \in 0..N
        BY <1>1
      <3>2. p[k - 1] \in Nat /\ p[k] = p[k - 1] + asked.segments[k].length
        BY <1>1, <2>1, <3>1, WayFits
      <3>3. Lengths(asked.segments)[k] \in Nat
            /\ Lengths(asked.segments)[k] = asked.segments[k].length
        BY <1>1, LengthsFit
      <3>4. Cumulative(asked.segments, k) = p[k]
        BY <1>1, <2>1, <3>1, CumulativeIsWay
      <3> QED BY <3>2, <3>3, <3>4
    <2> QED BY <1>1, <1>2, <2>3, <2>5, <2>6 DEF WindowIsAhead
  <1> QED BY <1>1, <1>3, <1>4 DEF IsSelected

\* WindowIsAhead: what an answer is about is the way from the point of the route that
\* is nearest to the passenger, or from the start of the route, on, as far as the
\* window goes, whatever the lengths of the segments.
THEOREM AnswersAreAboutTheWayAhead == Spec => []WindowIsAhead
  <1> QED BY AdviceInvariance, SelectedWindow, PTL

-----------------------------------------------------------------------------
(* The summary of a part of the way *)

\* A part of the way with m distances.
IsPartOf(segments, part, m) ==
    /\ segments \in Seq(Segments) /\ m \in Nat
    /\ part.first \in 1..Len(segments) /\ part.first + m - 1 <= Len(segments)
    /\ part.distances \in [1..m -> Nat]

\* exposure_direction and the sun condition agree about the elevation.
LEMMA ExposureFits ==
    ASSUME NEW s \in Segments
    PROVE  /\ ExposureDirection(s) \in Directions
           /\ ExposureDirection(s) = "none" <=> s.elevation < 0
           /\ ExposureDirection(s) = "overhead" <=> s.elevation >= 70
           /\ SunCondition(s.elevation) \in {"night", "lowSun", "daylight", "overhead"}
           /\ SunCondition(s.elevation) = "night" <=> s.elevation < 0
           /\ SunCondition(s.elevation) = "overhead" <=> s.elevation >= 70
  <1>1. s.elevation \in Int
    BY DEF Segments
  <1>2. PICK delta : delta = Difference(s.azimuth, s.bearing)
    OBVIOUS
  <1>3. CASE s.elevation < 0
    BY <1>1, <1>3 DEF ExposureDirection, SunCondition, Directions
  <1>4. CASE s.elevation >= 70
    BY <1>1, <1>4 DEF ExposureDirection, SunCondition, Directions
  <1>5. CASE s.elevation \in 0..69
    <2>1. ExposureDirection(s) = IF delta \in -20..20 THEN "front"
                                 ELSE IF delta \notin -159..159 THEN "back"
                                 ELSE IF delta > 0 THEN "right" ELSE "left"
      BY <1>2, <1>5 DEF ExposureDirection
    <2>2. ExposureDirection(s) \in {"front", "back", "left", "right"}
      BY <2>1
    <2>3. SunCondition(s.elevation) \in {"lowSun", "daylight"}
      BY <1>5 DEF SunCondition
    <2> QED BY <1>5, <2>2, <2>3 DEF Directions
  <1> QED BY <1>1, <1>3, <1>4, <1>5

\* Every distance of a part is on a segment that faces some direction.
LEMMA FacingFits ==
    ASSUME NEW segments, NEW part, NEW m, IsPartOf(segments, part, m), NEW i \in 1..m
    PROVE  /\ SegmentOf(segments, part, i) \in Segments
           /\ Facing(segments, part, i) \in Directions
  <1>1. part.first + i - 1 \in 1..Len(segments)
    BY LengthsFit DEF IsPartOf
  <1>2. SegmentOf(segments, part, i) \in Segments
    BY <1>1 DEF IsPartOf, SegmentOf
  <1> QED BY <1>2, ExposureFits DEF Facing

\* The distances in some of the directions.
MetersIn(segments, part, m, places) ==
    [i \in 1..m |-> IF Facing(segments, part, i) \in places THEN part.distances[i] ELSE 0]

\* They are distances again, with a sum.
LEMMA MetersInFits ==
    ASSUME NEW segments, NEW part, NEW m, IsPartOf(segments, part, m), NEW places
    PROVE  /\ MetersIn(segments, part, m, places) \in [1..m -> Nat]
           /\ MetersIn(segments, part, m, places) \in [1..m -> Int]
           /\ Sum(MetersIn(segments, part, m, places)) \in Nat
  <1>1. MetersIn(segments, part, m, places) \in [1..m -> Nat] /\ m \in Nat
    BY DEF MetersIn, IsPartOf
  <1>2. MetersIn(segments, part, m, places) \in [1..m -> Int]
    BY <1>1
  <1> QED BY <1>1, <1>2, SumNat

\* MetersFacing counts one direction.
LEMMA MetersFacingIn ==
    ASSUME NEW segments, NEW part, NEW m, IsPartOf(segments, part, m), NEW direction
    PROVE  /\ MetersFacing(segments, part, direction)
                = Sum(MetersIn(segments, part, m, {direction}))
           /\ MetersFacing(segments, part, direction) \in Nat
  <1>1. DOMAIN part.distances = 1..m
    BY DEF IsPartOf
  <1>2. \A i \in 1..m : Facing(segments, part, i) \in {direction}
                          <=> Facing(segments, part, i) = direction
    OBVIOUS
  <1>3. [i \in DOMAIN part.distances |->
            IF Facing(segments, part, i) = direction THEN part.distances[i] ELSE 0]
          = MetersIn(segments, part, m, {direction})
    BY <1>1, <1>2 DEF MetersIn
  <1>4. MetersFacing(segments, part, direction) = Sum(MetersIn(segments, part, m, {direction}))
    BY <1>3 DEF MetersFacing
  <1> QED BY <1>4, MetersInFits

\* A further direction adds its meters.
LEMMA OneMoreDirection ==
    ASSUME NEW segments, NEW part, NEW m, IsPartOf(segments, part, m),
           NEW places, NEW direction, direction \notin places
    PROVE  Sum(MetersIn(segments, part, m, places \cup {direction}))
             = Sum(MetersIn(segments, part, m, places)) + MetersFacing(segments, part, direction)
  <1> DEFINE a == MetersIn(segments, part, m, places)
             b == MetersIn(segments, part, m, {direction})
             c == MetersIn(segments, part, m, places \cup {direction})
  <1>1. \A i \in 1..m : c[i] = a[i] + b[i]
    <2>1. ASSUME NEW i \in 1..m
          PROVE  c[i] = a[i] + b[i]
      <3>1. part.distances[i] \in Nat
        BY DEF IsPartOf
      <3> QED BY <3>1 DEF MetersIn
    <2> QED BY <2>1
  <1>2. m \in Nat /\ a \in [1..m -> Int] /\ b \in [1..m -> Int] /\ c \in [1..m -> Int]
    BY MetersInFits DEF IsPartOf
  <1>3. Sum(c) = Sum(a) + Sum(b)
    <2>1. Adds(m, a, b, c)
      BY <1>1, <1>2 DEF Adds
    <2> QED BY <2>1, SumAdds
  <1> QED BY <1>3, MetersFacingIn

\* The distances in all directions add up to the whole.
LEMMA MetersAddUp ==
    ASSUME NEW segments, NEW part, NEW m, IsPartOf(segments, part, m)
    PROVE  /\ \A direction : MetersFacing(segments, part, direction) \in Nat
           /\ Sum(part.distances) =
                MetersFacing(segments, part, "left") + MetersFacing(segments, part, "right")
                + MetersFacing(segments, part, "front") + MetersFacing(segments, part, "back")
                + MetersFacing(segments, part, "overhead") + MetersFacing(segments, part, "none")
  <1> DEFINE M(direction) == MetersFacing(segments, part, direction)
             S(places) == Sum(MetersIn(segments, part, m, places))
  <1>1. \A direction : M(direction) \in Nat
    BY MetersFacingIn
  <1>2. \A places, direction : direction \notin places =>
           S(places \cup {direction}) = S(places) + M(direction)
    BY OneMoreDirection
  <1>3. S({"left"}) = M("left")
    BY MetersFacingIn
  <1>4. MetersIn(segments, part, m, Directions) = part.distances
    <2>1. part.distances = [i \in 1..m |-> part.distances[i]]
      BY DEF IsPartOf
    <2> QED BY <2>1, FacingFits DEF MetersIn
  <1> HIDE DEF M, S
  <1>5. S({"left", "right"}) = S({"left"}) + M("right")
    <2>1. {"left", "right"} = {"left"} \cup {"right"} /\ "right" \notin {"left"}
      OBVIOUS
    <2> QED BY <1>2, <2>1
  <1>6. S({"left", "right", "front"}) = S({"left", "right"}) + M("front")
    <2>1. /\ {"left", "right", "front"} = {"left", "right"} \cup {"front"}
          /\ "front" \notin {"left", "right"}
      OBVIOUS
    <2> QED BY <1>2, <2>1
  <1>7. S({"left", "right", "front", "back"}) = S({"left", "right", "front"}) + M("back")
    <2>1. /\ {"left", "right", "front", "back"} = {"left", "right", "front"} \cup {"back"}
          /\ "back" \notin {"left", "right", "front"}
      OBVIOUS
    <2> QED BY <1>2, <2>1
  <1>8. S({"left", "right", "front", "back", "overhead"})
          = S({"left", "right", "front", "back"}) + M("overhead")
    <2>1. /\ {"left", "right", "front", "back", "overhead"}
               = {"left", "right", "front", "back"} \cup {"overhead"}
          /\ "overhead" \notin {"left", "right", "front", "back"}
      OBVIOUS
    <2> QED BY <1>2, <2>1
  <1>9. S(Directions) = S({"left", "right", "front", "back", "overhead"}) + M("none")
    <2>1. /\ Directions = {"left", "right", "front", "back", "overhead"} \cup {"none"}
          /\ "none" \notin {"left", "right", "front", "back", "overhead"}
      BY DEF Directions
    <2> QED BY <1>2, <2>1
  <1>10. Sum(part.distances) = S(Directions)
    BY <1>4 DEF S
  <1>11. Sum(part.distances) =
           M("left") + M("right") + M("front") + M("back") + M("overhead") + M("none")
    BY <1>3, <1>5, <1>6, <1>7, <1>8, <1>9, <1>10
  <1> QED BY <1>1, <1>11 DEF M

\* The dominant direction has the most, and at least a sixth of the whole.
LEMMA DominantFits ==
    ASSUME NEW segments, NEW part, NEW m, IsPartOf(segments, part, m)
    PROVE  /\ Dominant(segments, part) \in Directions
           /\ \A direction \in Directions :
                 MetersFacing(segments, part, direction)
                   <= MetersFacing(segments, part, Dominant(segments, part))
           /\ 6 * MetersFacing(segments, part, Dominant(segments, part)) >= Sum(part.distances)
  <1> DEFINE order     == <<"left", "right", "front", "back", "overhead", "none">>
             Meters(k) == MetersFacing(segments, part, order[k])
             total     == Sum(part.distances)
             First(k)  == \A l \in 1..6 :
                             Meters(k) > Meters(l) \/ (Meters(k) = Meters(l) /\ k <= l)
  <1>1. /\ \A direction : MetersFacing(segments, part, direction) \in Nat
        /\ total = Meters(1) + Meters(2) + Meters(3) + Meters(4) + Meters(5) + Meters(6)
    BY MetersAddUp
  <1>2. \A k \in 1..6 : Meters(k) \in Nat /\ total - Meters(k) \in Nat
    <2> DEFINE M(d) == MetersFacing(segments, part, d)
    <2>1. /\ M("left") \in Nat /\ M("right") \in Nat /\ M("front") \in Nat
          /\ M("back") \in Nat /\ M("overhead") \in Nat /\ M("none") \in Nat
          /\ total = M("left") + M("right") + M("front") + M("back") + M("overhead") + M("none")
      BY <1>1
    <2>2. /\ Meters(1) = M("left") /\ Meters(2) = M("right") /\ Meters(3) = M("front")
          /\ Meters(4) = M("back") /\ Meters(5) = M("overhead") /\ Meters(6) = M("none")
      OBVIOUS
    <2> HIDE DEF M, Meters, total
    <2> QED BY <2>1, <2>2
  <1>3. \E k \in 1..6 : First(k)
    <2>1. PICK f : f = [k \in 1..6 |-> total - Meters(k)]
      OBVIOUS
    <2>2. \A k \in 1..6 : f[k] = total - Meters(k)
      BY <2>1
    <2>3. \A k \in 1..6 : f[k] \in Nat
      BY <1>2, <2>2
    <2>4. PICK k \in 1..6 : \A l \in 1..6 : f[k] < f[l] \/ (f[k] = f[l] /\ k <= l)
      <3>1. 1..6 \in SUBSET Nat /\ 1..6 # {}
        OBVIOUS
      <3> QED BY <2>3, <3>1, FirstLeast
    <2>5. total \in Nat
      <3>1. total - Meters(1) \in Nat /\ Meters(1) \in Nat
        BY <1>2
      <3> HIDE DEF Meters
      <3> QED BY <1>1, <1>2
    <2>6. ASSUME NEW l \in 1..6
          PROVE  Meters(k) > Meters(l) \/ (Meters(k) = Meters(l) /\ k <= l)
      <3>1. Meters(k) \in Nat /\ Meters(l) \in Nat
        BY <1>2
      <3>2. f[k] = total - Meters(k) /\ f[l] = total - Meters(l)
        BY <2>2
      <3>3. f[k] < f[l] \/ (f[k] = f[l] /\ k <= l)
        BY <2>4
      <3> HIDE DEF Meters, total
      <3> QED BY <2>5, <3>1, <3>2, <3>3
    <2> QED BY <2>6
  <1>4. PICK d \in 1..6 : d = (CHOOSE k \in 1..6 : First(k)) /\ First(d)
    <2> HIDE DEF First
    <2> QED BY <1>3
  <1>5. Dominant(segments, part) = order[d]
    BY <1>4, Zenon DEF Dominant
  <1>6. \A l \in 1..6 : Meters(l) <= Meters(d)
    <2>1. ASSUME NEW l \in 1..6
          PROVE  Meters(l) <= Meters(d)
      <3>1. Meters(d) > Meters(l) \/ Meters(d) = Meters(l)
        BY <1>4
      <3>2. Meters(d) \in Nat /\ Meters(l) \in Nat
        BY <1>2
      <3> HIDE DEF Meters
      <3> QED BY <3>1, <3>2
    <2> QED BY <2>1
  <1>7. 6 * Meters(d) >= total
    <2> HIDE DEF Meters
    <2> QED BY <1>1, <1>2, <1>6
  <1>8. \A direction \in Directions : \E l \in 1..6 : direction = order[l]
    <2>1. /\ order[1] = "left" /\ order[2] = "right" /\ order[3] = "front"
          /\ order[4] = "back" /\ order[5] = "overhead" /\ order[6] = "none"
      OBVIOUS
    <2> HIDE DEF order
    <2> QED BY <2>1 DEF Directions
  <1>9. order[d] \in Directions
    BY DEF Directions
  <1> QED BY <1>5, <1>6, <1>7, <1>8, <1>9

\* The sample segment is one on which the sun is where it mostly is.
LEMMA SampleFits ==
    ASSUME NEW segments, NEW part, NEW m, IsPartOf(segments, part, m), NEW dominant,
           MetersFacing(segments, part, dominant) > 0
    PROVE  /\ Sample(segments, part, dominant) \in 1..m
           /\ Facing(segments, part, Sample(segments, part, dominant)) = dominant
  <1> DEFINE facing   == {i \in DOMAIN part.distances : Facing(segments, part, i) = dominant}
             First(i) == \A j \in facing :
                            \/ part.distances[i] > part.distances[j]
                            \/ part.distances[i] = part.distances[j] /\ i <= j
  <1>1. m \in Nat /\ DOMAIN part.distances = 1..m /\ \A i \in 1..m : part.distances[i] \in Nat
    BY DEF IsPartOf
  <1>2. facing \in SUBSET Nat /\ facing \subseteq 1..m
    BY <1>1
  <1>3. facing # {}
    <2>1. SUFFICES ASSUME facing = {}
                   PROVE  FALSE
      OBVIOUS
    <2>2. \A i \in 1..m : Facing(segments, part, i) # dominant
      BY <1>1, <2>1
    <2>3. MetersIn(segments, part, m, {dominant}) \in [1..m -> {0}]
      BY <2>2 DEF MetersIn
    <2>4. Sum(MetersIn(segments, part, m, {dominant})) = 0
      BY <1>1, <2>3, SumOfNothing
    <2> QED BY <2>4, MetersFacingIn
  <1>4. \E i \in facing : First(i)
    <2>1. PICK total \in Nat : total = Sum(part.distances)
                               /\ \A i \in 1..m : part.distances[i] <= total
      <3>1. part.distances \in [1..m -> Nat]
        BY DEF IsPartOf
      <3> QED BY <1>1, <3>1, SumNat
    <2>2. PICK f : f = [i \in 1..m |-> total - part.distances[i]]
      OBVIOUS
    <2>3. \A i \in facing : f[i] = total - part.distances[i] /\ f[i] \in Nat
      BY <1>1, <1>2, <2>1, <2>2
    <2>4. PICK i \in facing : \A j \in facing : f[i] < f[j] \/ (f[i] = f[j] /\ i <= j)
      <3> HIDE DEF facing
      <3> QED BY <1>2, <1>3, <2>3, FirstLeast
    <2>5. ASSUME NEW j \in facing
          PROVE  \/ part.distances[i] > part.distances[j]
                 \/ part.distances[i] = part.distances[j] /\ i <= j
      <3>1. f[i] < f[j] \/ (f[i] = f[j] /\ i <= j)
        BY <2>4
      <3>2. part.distances[i] \in Nat /\ part.distances[j] \in Nat
            /\ f[i] = total - part.distances[i] /\ f[j] = total - part.distances[j]
        BY <1>1, <1>2, <2>3
      <3> QED BY <3>1, <3>2
    <2> QED BY <2>5
  <1>5. Sample(segments, part, dominant) = CHOOSE i \in facing : First(i)
    BY Zenon DEF Sample
  <1>6. Sample(segments, part, dominant) \in facing
    <2> HIDE DEF facing, First
    <2> QED BY <1>4, <1>5
  <1> QED BY <1>1, <1>6

\* What is said of a part of the way.
LEMMA SummaryFits ==
    ASSUME NEW segments, NEW part, NEW m, IsPartOf(segments, part, m),
           Sum(part.distances) > 0, NEW a \in Summaries(segments, part)
    PROVE  /\ a.status = "advice" /\ a.exposure \in Directions
           /\ a.condition \in {"night", "lowSun", "daylight", "overhead"}
           /\ a.condition = "night" <=> a.exposure = "none"
           /\ a.condition = "overhead" <=> a.exposure = "overhead"
           /\ \A direction \in Directions :
                 MetersFacing(segments, part, direction) <= MetersFacing(segments, part, a.exposure)
           /\ a.shares \in Shares
           /\ IsShare(MetersFacing(segments, part, "left"), Sum(part.distances), a.shares[1])
           /\ IsShare(MetersFacing(segments, part, "right"), Sum(part.distances), a.shares[2])
           /\ a.exposure = "left" => a.shares[1] > 0
           /\ a.exposure = "right" => a.shares[2] > 0
           /\ a.seat = IF a.shares[1] > 0 /\ a.shares[2] > 0 THEN "neutral"
                                                             ELSE Opposite[a.exposure]
  <1> DEFINE M(direction) == MetersFacing(segments, part, direction)
  <1>1. PICK total \in Nat \ {0}, left \in Nat, right \in Nat, rest \in Nat :
           /\ left \in 0..total /\ right \in 0..total /\ rest \in 0..total
           /\ total = Sum(part.distances) /\ left = M("left") /\ right = M("right")
           /\ rest = total - left - right
    <2>1. /\ M("left") \in Nat /\ M("right") \in Nat /\ M("front") \in Nat
          /\ M("back") \in Nat /\ M("overhead") \in Nat /\ M("none") \in Nat
          /\ Sum(part.distances) = M("left") + M("right") + M("front") + M("back")
                                   + M("overhead") + M("none")
      BY MetersAddUp
    <2> HIDE DEF M
    <2>2. /\ Sum(part.distances) \in Nat \ {0}
          /\ M("left") \in 0..Sum(part.distances) /\ M("right") \in 0..Sum(part.distances)
          /\ Sum(part.distances) - M("left") - M("right") \in 0..Sum(part.distances)
      BY <2>1
    <2> QED BY <2>2
  <1>2. PICK dominant \in Directions :
           /\ dominant = Dominant(segments, part) /\ 6 * M(dominant) >= total
           /\ \A direction \in Directions : M(direction) <= M(dominant)
    BY <1>1, DominantFits
  <1>3. M(dominant) \in Nat /\ M(dominant) > 0
    <2>1. M(dominant) \in Nat
      BY MetersAddUp
    <2> HIDE DEF M
    <2> QED BY <1>1, <1>2, <2>1
  <1>4. PICK i \in 1..m : /\ i = Sample(segments, part, dominant)
                          /\ Facing(segments, part, i) = dominant
    BY <1>3, SampleFits
  <1>5. PICK sun \in Segments : sun = SegmentOf(segments, part, i)
                                /\ ExposureDirection(sun) = dominant
    BY <1>4, FacingFits DEF Facing
  <1>6. PICK shares \in PercentShares(<<left, right, rest>>, total) :
           a = [status |-> "advice", mode |-> part.mode, exposure |-> dominant,
                condition |-> SunCondition(sun.elevation), shares |-> shares,
                flip |-> shares[1] > 0 /\ shares[2] > 0,
                seat |-> SeatArea(dominant, shares[1] > 0 /\ shares[2] > 0)]
    BY <1>1, <1>2, <1>4, <1>5, Zenon DEF Summaries
  <1>7. /\ shares \in Shares /\ IsShare(left, total, shares[1]) /\ IsShare(right, total, shares[2])
    <2>1. left + right + rest = total
      BY <1>1
    <2> QED BY <1>1, <1>6, <2>1, PercentagesFit
  <1>8. /\ dominant = "left" => shares[1] > 0
        /\ dominant = "right" => shares[2] > 0
    BY <1>1, <1>2, <1>7 DEF IsShare
  <1>9. /\ SunCondition(sun.elevation) \in {"night", "lowSun", "daylight", "overhead"}
        /\ SunCondition(sun.elevation) = "night" <=> dominant = "none"
        /\ SunCondition(sun.elevation) = "overhead" <=> dominant = "overhead"
    BY <1>5, ExposureFits
  <1>10. /\ a.status = "advice" /\ a.exposure = dominant
         /\ a.condition = SunCondition(sun.elevation) /\ a.shares = shares
         /\ a.seat = SeatArea(dominant, shares[1] > 0 /\ shares[2] > 0)
    BY <1>6
  <1> QED BY <1>1, <1>2, <1>7, <1>8, <1>9, <1>10 DEF SeatArea

\* An answer is about a part of the way that is selected.
LEMMA AdvisedFits ==
    ASSUME AdviceInv, Advised
    PROVE  /\ selected # None /\ Sum(selected.distances) > 0
           /\ answer \in Summaries(asked.segments, selected)
           /\ \E m : IsPartOf(asked.segments, selected, m)
  <1>1. selected # None /\ Sum(selected.distances) > 0
        /\ answer \in Summaries(asked.segments, selected)
    BY DEF AdviceInv, AnswerFits, Advised
  <1>2. IsTheWayAhead(selected)
    BY <1>1, SelectedIsAhead
  <1>3. asked.segments \in Seq(Segments) /\ Len(asked.segments) \in Nat
    BY LengthsFit DEF AdviceInv, Loads
  <1>4. \E m : IsPartOf(asked.segments, selected, m)
    <2>1. PICK m \in 0..Len(asked.segments) :
             /\ selected.first \in 1..Len(asked.segments)
             /\ selected.first + m - 1 <= Len(asked.segments)
             /\ selected.distances \in [1..m -> Nat]
      BY <1>2 DEF IsTheWayAhead, Covers
    <2>2. IsPartOf(asked.segments, selected, m)
      BY <1>3, <2>1 DEF IsPartOf
    <2> QED BY <2>2
  <1> QED BY <1>1, <1>4

\* The invariant implies AdviceTypeOK.
LEMMA AdviceTypes == AdviceInv => AdviceTypeOK
  <1> SUFFICES ASSUME AdviceInv
               PROVE  AdviceTypeOK
    OBVIOUS
  <1>1. asked.mode \in {"onboard", "preview"}
    BY DEF AdviceInv, Loads
  <1>2. ASSUME selected # None
        PROVE  /\ selected.mode \in {"onboard", "preview"}
               /\ \A i \in DOMAIN selected.distances : selected.distances[i] \in Nat
    <2>1. selected.mode \in {"onboard", "preview"}
      BY <1>2 DEF AdviceInv, SelectionFits, IsSelected, FromStart, AfterProjection
    <2>2. \E m : selected.distances \in [1..m -> Nat]
      BY <1>2, SelectedIsAhead DEF IsTheWayAhead, Covers
    <2> QED BY <2>1, <2>2
  <1>3. ASSUME answer # None
        PROVE  answer.status \in {"error", "withheld", "advice"}
    <2>1. CASE answer.status \in {"error", "withheld"}
      BY <2>1
    <2>2. CASE answer \in Summaries(asked.segments, selected)
      <3>1. PICK dominant, condition, shares, flip, seat :
               answer = [status |-> "advice", mode |-> selected.mode, exposure |-> dominant,
                         condition |-> condition, shares |-> shares, flip |-> flip, seat |-> seat]
        BY <2>2, Zenon DEF Summaries
      <3> QED BY <3>1
    <2> QED BY <1>3, <2>1, <2>2 DEF AdviceInv, AnswerFits
  <1>4. ASSUME Advised
        PROVE  /\ answer.exposure \in Directions
               /\ answer.condition \in {"night", "lowSun", "daylight", "overhead"}
               /\ answer.shares \in Shares
               /\ answer.seat \in {"left", "right", "front", "back", "neutral"}
    <2>1. PICK m : IsPartOf(asked.segments, selected, m)
      BY <1>4, AdvisedFits
    <2>2. Sum(selected.distances) > 0 /\ answer \in Summaries(asked.segments, selected)
      BY <1>4, AdvisedFits
    <2>3. PICK segments, part, a : segments = asked.segments /\ part = selected /\ a = answer
      OBVIOUS
    <2>4. /\ a.exposure \in Directions
          /\ a.condition \in {"night", "lowSun", "daylight", "overhead"}
          /\ a.shares \in Shares
          /\ a.seat = IF a.shares[1] > 0 /\ a.shares[2] > 0 THEN "neutral"
                                                            ELSE Opposite[a.exposure]
      BY <2>1, <2>2, <2>3, SummaryFits
    <2>5. a.seat \in {"left", "right", "front", "back", "neutral"}
      BY <2>4 DEF Opposite, Directions
    <2> QED BY <2>3, <2>4, <2>5
  <1> QED BY <1>1, <1>2, <1>3, <1>4 DEF AdviceTypeOK, Advised

\* AdviceTypeOK, with the shares of every answer that sum to 100.
THEOREM AdviceTypeCorrect == Spec => []AdviceTypeOK
  <1> QED BY AdviceInvariance, AdviceTypes, PTL

\* The invariant implies SeatOutOfSun: the dominant direction has a sixth of the
\* whole, so its side has a share.
LEMMA SeatsFit == AdviceInv => SeatOutOfSun
  <1> SUFFICES ASSUME AdviceInv, Advised
               PROVE  SeatOutOfSun
    BY DEF SeatOutOfSun
  <1>1. PICK m : IsPartOf(asked.segments, selected, m)
    BY AdvisedFits
  <1>2. Sum(selected.distances) > 0 /\ answer \in Summaries(asked.segments, selected)
    BY AdvisedFits
  <1>3. PICK segments, part, a : segments = asked.segments /\ part = selected /\ a = answer
    OBVIOUS
  <1> DEFINE Most(side) == \A direction \in Directions :
                               MetersFacing(segments, part, direction)
                                 <= MetersFacing(segments, part, side)
  <1>4. /\ a.exposure \in Directions /\ Most(a.exposure)
        /\ a.condition = "night" <=> a.exposure = "none"
        /\ a.condition = "overhead" <=> a.exposure = "overhead"
        /\ a.shares \in Shares
        /\ a.exposure = "left" => a.shares[1] > 0
        /\ a.exposure = "right" => a.shares[2] > 0
        /\ a.seat = IF a.shares[1] > 0 /\ a.shares[2] > 0 THEN "neutral"
                                                          ELSE Opposite[a.exposure]
    BY <1>1, <1>2, <1>3, SummaryFits
  <1> HIDE DEF Most
  <1>5. a.shares[1] \in Nat /\ a.shares[2] \in Nat
    BY <1>4 DEF Shares
  <1>6. a.seat = "left" => a.exposure = "right" /\ a.shares[1] = 0 /\ a.shares[2] > 0 /\ Most("right")
    BY <1>4, <1>5 DEF Opposite, Directions
  <1>7. a.seat = "right" => a.exposure = "left" /\ a.shares[2] = 0 /\ a.shares[1] > 0 /\ Most("left")
    BY <1>4, <1>5 DEF Opposite, Directions
  <1>8. a.condition \in {"night", "overhead"} => a.seat = "neutral"
    BY <1>4 DEF Opposite, Directions
  <1> QED BY <1>3, <1>4, <1>6, <1>7, <1>8 DEF SeatOutOfSun, Most

\* SeatOutOfSun: for every way, place and sun a seat on a side is one that the sun has
\* no share in, while no direction has more of it than the other side, and what is
\* said of the sun agrees.
THEOREM SeatsAreOutOfTheSun == Spec => []SeatOutOfSun
  <1> QED BY AdviceInvariance, SeatsFit, PTL

-----------------------------------------------------------------------------
(* The shares and the way *)

\* What is ahead of each segment, as a part has it.
IsAheadOf(segments, part, m, ahead) ==
    /\ ahead \in [1..Len(segments) -> Nat]
    /\ \A k \in 1..Len(segments) :
          ahead[k] = IF k - part.first + 1 \in 1..m THEN part.distances[k - part.first + 1] ELSE 0

\* Overlap says what is ahead of each segment as the selected part has it.
LEMMA AheadOfSelected ==
    ASSUME AdviceInv, selected # None
    PROVE  \E m : /\ IsPartOf(asked.segments, selected, m)
                  /\ IsAheadOf(asked.segments, selected, m,
                        [k \in 1..Len(asked.segments) |-> Overlap(k, selected.at, Budget)])
  <1> DEFINE N == Len(asked.segments)
  <1>1. asked.segments \in Seq(Segments) /\ N \in Nat
    BY LengthsFit DEF AdviceInv, Loads
  <1>2. PICK p : \E m \in 0..N :
           /\ Way(asked.segments, p)
           /\ selected.first \in 1..N /\ selected.first + m - 1 <= N
           /\ Covers(asked.segments, p, selected.first, selected.at, Budget, m,
                     selected.distances)
    BY SelectedIsAhead DEF IsTheWayAhead
  <1>3. PICK m \in 0..N :
           /\ selected.first \in 1..N /\ selected.first + m - 1 <= N
           /\ Covers(asked.segments, p, selected.first, selected.at, Budget, m,
                     selected.distances)
    BY <1>2
  <1>4. IsPartOf(asked.segments, selected, m)
    BY <1>1, <1>3 DEF IsPartOf, Covers
  <1>5. PICK ahead : ahead = [k \in 1..N |-> Overlap(k, selected.at, Budget)]
    OBVIOUS
  <1>6. ASSUME NEW k \in 1..N
        PROVE  /\ ahead[k] = IF k - selected.first + 1 \in 1..m
                             THEN selected.distances[k - selected.first + 1] ELSE 0
               /\ ahead[k] \in Nat
    <2>1. ahead[k] = Overlap(k, selected.at, Budget)
      BY <1>5
    <2>2. Overlap(k, selected.at, Budget) = Part(p[k - 1], p[k], selected.at, Budget)
      BY <1>1, <1>2, OverlapIsPart
    <2>3. ahead[k] = IF k - selected.first + 1 \in 1..m
                     THEN selected.distances[k - selected.first + 1] ELSE 0
      BY <1>3, <2>1, <2>2 DEF Covers
    <2>4. \A i \in 1..m : selected.distances[i] \in Nat
      BY <1>3 DEF Covers
    <2> QED BY <2>3, <2>4
  <1>7. ahead = [k \in 1..N |-> ahead[k]]
    BY <1>5
  <1>8. IsAheadOf(asked.segments, selected, m, ahead)
    BY <1>6, <1>7 DEF IsAheadOf
  <1> QED BY <1>4, <1>5, <1>8

MetersOfSun(segments, ahead, side) ==
    Sum([k \in 1..Len(segments) |-> IF SunOn(side, segments[k]) THEN ahead[k] ELSE 0])

\* Where the sun is on a side along the way is what faces it in the part.
LEMMA SunAhead ==
    ASSUME NEW segments, NEW part, NEW m, IsPartOf(segments, part, m),
           NEW ahead, IsAheadOf(segments, part, m, ahead), NEW side \in {"left", "right"}
    PROVE  MetersOfSun(segments, ahead, side) = MetersFacing(segments, part, side)
  <1>1. PICK n \in Nat, first \in Nat :
           n = Len(segments) /\ part.first = first + 1 /\ first + m <= n /\ m \in Nat
    <2>1. Len(segments) \in Nat /\ part.first - 1 \in Nat /\ part.first = part.first - 1 + 1
          /\ part.first - 1 + m <= Len(segments) /\ m \in Nat
      BY LengthsFit DEF IsPartOf
    <2> QED BY <2>1
  <1>2. m \in Nat /\ first + m <= n /\ part.first = first + 1
    BY <1>1
  <1>3. PICK f : f = [k \in 1..n |-> IF SunOn(side, segments[k]) THEN ahead[k] ELSE 0]
    OBVIOUS
  <1>4. PICK g : g = MetersIn(segments, part, m, {side}) /\ g \in [1..m -> Int]
    BY MetersInFits
  <1>5. f \in [1..n -> Int]
    <2>1. \A k \in 1..n : ahead[k] \in Int
      BY <1>1 DEF IsAheadOf
    <2> QED BY <1>3, <2>1
  <1>6. ASSUME NEW i \in 1..m
        PROVE  f[first + i] = g[i]
    <2>1. PICK k : k = first + i
      OBVIOUS
    <2>7. k \in 1..n /\ k - part.first + 1 = i /\ part.first + i - 1 = k
      BY <1>2, <2>1
    <2>2. ahead[k] = part.distances[i]
      BY <1>1, <2>7 DEF IsAheadOf
    <2>3. SegmentOf(segments, part, i) = segments[k] /\ segments[k] \in Segments
      BY <1>1, <2>7, FacingFits DEF SegmentOf
    <2>4. Facing(segments, part, i) = side <=> SunOn(side, segments[k])
      BY <2>3, SideIsWhereTheSunIs DEF Facing
    <2>5. g[i] = IF Facing(segments, part, i) \in {side} THEN part.distances[i] ELSE 0
      BY <1>4 DEF MetersIn
    <2>6. f[k] = IF SunOn(side, segments[k]) THEN ahead[k] ELSE 0
      BY <1>3, <2>7
    <2> QED BY <2>1, <2>2, <2>4, <2>5, <2>6
  <1>7. ASSUME NEW k \in 1..n, k \notin (first + 1)..(first + m)
        PROVE  f[k] = 0
    <2>1. k - part.first + 1 \notin 1..m
      BY <1>2, <1>7
    <2>2. ahead[k] = 0
      BY <1>1, <2>1 DEF IsAheadOf
    <2> QED BY <1>3, <2>2
  <1>8. Sum(f) = Sum(g)
    <2>1. IsShifted(f, n, g, m, first)
      BY <1>6, <1>7 DEF IsShifted
    <2> QED BY <1>2, <1>4, <1>5, <2>1, SumShifts
  <1> QED BY <1>1, <1>3, <1>4, <1>8, MetersFacingIn DEF MetersOfSun

\* What is ahead sums up to what is selected.
LEMMA WholeAhead ==
    ASSUME NEW segments, NEW part, NEW m, IsPartOf(segments, part, m),
           NEW ahead, IsAheadOf(segments, part, m, ahead)
    PROVE  Sum(ahead) = Sum(part.distances)
  <1>1. PICK n \in Nat, first \in Nat :
           n = Len(segments) /\ part.first = first + 1 /\ first + m <= n /\ m \in Nat
    <2>1. Len(segments) \in Nat /\ part.first - 1 \in Nat /\ part.first = part.first - 1 + 1
          /\ part.first - 1 + m <= Len(segments) /\ m \in Nat
      BY LengthsFit DEF IsPartOf
    <2> QED BY <2>1
  <1>2. m \in Nat /\ first + m <= n /\ part.first = first + 1
    BY <1>1
  <1>3. PICK g : g = part.distances /\ g \in [1..m -> Int]
    BY DEF IsPartOf
  <1>4. ahead \in [1..n -> Int]
    BY <1>1 DEF IsAheadOf
  <1>5. ASSUME NEW i \in 1..m
        PROVE  ahead[first + i] = g[i]
    <2>1. PICK k : k = first + i
      OBVIOUS
    <2>2. k \in 1..n /\ k - part.first + 1 = i
      BY <1>2, <2>1
    <2> QED BY <1>1, <1>3, <2>1, <2>2 DEF IsAheadOf
  <1>6. ASSUME NEW k \in 1..n, k \notin (first + 1)..(first + m)
        PROVE  ahead[k] = 0
    <2>1. k - part.first + 1 \notin 1..m
      BY <1>2, <1>6
    <2> QED BY <1>1, <2>1 DEF IsAheadOf
  <1>7. Sum(ahead) = Sum(g)
    <2>1. IsShifted(ahead, n, g, m, first)
      BY <1>5, <1>6 DEF IsShifted
    <2> QED BY <1>2, <1>3, <1>4, <2>1, SumShifts
  <1> QED BY <1>3, <1>7

\* The invariant implies SharesFollowTheWay.
LEMMA SharesFit == AdviceInv => SharesFollowTheWay
  <1> SUFFICES ASSUME AdviceInv, Advised
               PROVE  SharesFollowTheWay
    BY DEF SharesFollowTheWay
  <1> DEFINE segments  == asked.segments
             Ahead(k)  == Overlap(k, selected.at, Budget)
             Meters(side) == Sum([k \in DOMAIN segments |->
                                     IF SunOn(side, segments[k]) THEN Ahead(k) ELSE 0])
             whole     == Sum([k \in DOMAIN segments |-> Ahead(k)])
  <1>1. /\ selected # None /\ Sum(selected.distances) > 0
        /\ answer \in Summaries(asked.segments, selected)
    BY AdvisedFits
  <1>2. DOMAIN asked.segments = 1..Len(asked.segments)
    BY LengthsFit DEF AdviceInv, Loads
  <1>3. PICK m : /\ IsPartOf(asked.segments, selected, m)
                 /\ IsAheadOf(asked.segments, selected, m,
                        [k \in 1..Len(asked.segments) |-> Overlap(k, selected.at, Budget)])
    BY <1>1, AheadOfSelected
  <1>4. PICK ahead : /\ ahead = [k \in 1..Len(asked.segments) |-> Ahead(k)]
                     /\ IsAheadOf(asked.segments, selected, m, ahead)
    BY <1>3
  <1>5. ASSUME NEW side \in {"left", "right"}
        PROVE  Meters(side) = MetersFacing(asked.segments, selected, side)
    <2>1. [k \in DOMAIN segments |-> IF SunOn(side, segments[k]) THEN Ahead(k) ELSE 0]
            = [k \in 1..Len(asked.segments) |->
                  IF SunOn(side, asked.segments[k]) THEN ahead[k] ELSE 0]
      BY <1>2, <1>4
    <2>2. Meters(side) = MetersOfSun(asked.segments, ahead, side)
      BY <2>1, Zenon DEF MetersOfSun
    <2>3. /\ IsPartOf(asked.segments, selected, m)
          /\ IsAheadOf(asked.segments, selected, m, ahead)
      BY <1>3, <1>4
    <2>4. MetersOfSun(asked.segments, ahead, side) = MetersFacing(asked.segments, selected, side)
      BY <2>3, SunAhead
    <2> QED BY <2>2, <2>4
  <1>6. whole = Sum(selected.distances)
    <2>1. Sum(ahead) = Sum(selected.distances)
      BY <1>3, <1>4, WholeAhead
    <2> QED BY <1>2, <1>4, <2>1
  <1>7. /\ IsShare(MetersFacing(asked.segments, selected, "left"), Sum(selected.distances),
                   answer.shares[1])
        /\ IsShare(MetersFacing(asked.segments, selected, "right"), Sum(selected.distances),
                   answer.shares[2])
    BY <1>1, <1>3, SummaryFits
  <1>8. IsShare(Meters("left"), whole, answer.shares[1])
        /\ IsShare(Meters("right"), whole, answer.shares[2])
    <2> HIDE DEF Meters, whole
    <2> QED BY <1>5, <1>6, <1>7
  <1> QED BY <1>8 DEF SharesFollowTheWay, IsShare

\* SharesFollowTheWay: for every way, place and sun the shares of the sides are, to
\* a point, those of the meters ahead on which the sun is on that side.
THEOREM SharesAreOfTheWayAhead == Spec => []SharesFollowTheWay
  <1> QED BY AdviceInvariance, SharesFit, PTL

-----------------------------------------------------------------------------
(* The way mirrored at the sun *)

\* One way in which shares come from distances: the quotas that rounding errors
\* leave, the order of their rests, and the points left for these.
IsRounding(meters, t, quota, order, more, shares) ==
    /\ quota \in Quotas(meters[1], t) \X Quotas(meters[2], t) \X Quotas(meters[3], t)
    /\ order \in Orders(meters, quota)
    /\ more = 100 - (quota[1].floor + quota[2].floor + quota[3].floor)
    /\ shares = [i \in 1..3 |-> quota[i].floor + Point(order, more, i)]

\* They are those that come in one of these ways.
LEMMA SharesAreRoundings ==
    ASSUME NEW meters, NEW t, NEW shares
    PROVE  shares \in PercentShares(meters, t)
             <=> \E quota, order, more : IsRounding(meters, t, quota, order, more, shares)
  <1>1. \A quota : shares \in Rounded(meters, quota)
           <=> \E order \in Orders(meters, quota) : \E more :
                  /\ more = 100 - (quota[1].floor + quota[2].floor + quota[3].floor)
                  /\ shares = [i \in 1..3 |-> quota[i].floor + Point(order, more, i)]
    BY DEF Rounded, Point
  <1>2. shares \in PercentShares(meters, t)
           <=> \E quota \in Quotas(meters[1], t) \X Quotas(meters[2], t) \X Quotas(meters[3], t) :
                  shares \in Rounded(meters, quota)
    BY Zenon DEF PercentShares
  <1> DEFINE Qs == Quotas(meters[1], t) \X Quotas(meters[2], t) \X Quotas(meters[3], t)
  <1>3. ASSUME shares \in PercentShares(meters, t)
        PROVE  \E quota, order, more : IsRounding(meters, t, quota, order, more, shares)
    <2>1. PICK quota \in Qs : shares \in Rounded(meters, quota)
      BY <1>2, <1>3, Zenon
    <2>2. PICK order \in Orders(meters, quota) : \E more :
             /\ more = 100 - (quota[1].floor + quota[2].floor + quota[3].floor)
             /\ shares = [i \in 1..3 |-> quota[i].floor + Point(order, more, i)]
      BY <1>1, <2>1, Zenon
    <2>3. PICK more :
             /\ more = 100 - (quota[1].floor + quota[2].floor + quota[3].floor)
             /\ shares = [i \in 1..3 |-> quota[i].floor + Point(order, more, i)]
      BY <2>2, Zenon
    <2>4. IsRounding(meters, t, quota, order, more, shares)
      BY <2>1, <2>2, <2>3, Zenon DEF IsRounding
    <2> QED BY <2>4, Zenon
  <1>4. ASSUME NEW quota, NEW order, NEW more, IsRounding(meters, t, quota, order, more, shares)
        PROVE  shares \in PercentShares(meters, t)
    <2>1. /\ quota \in Qs /\ order \in Orders(meters, quota)
          /\ more = 100 - (quota[1].floor + quota[2].floor + quota[3].floor)
          /\ shares = [i \in 1..3 |-> quota[i].floor + Point(order, more, i)]
      BY <1>4, Zenon DEF IsRounding
    <2>2. shares \in Rounded(meters, quota)
      BY <1>1, <2>1, Zenon
    <2> QED BY <1>2, <2>1, <2>2, Zenon
  <1> QED BY <1>3, <1>4, Zenon

\* No more than three points are left.
LEMMA PointsLeft ==
    ASSUME NEW t \in Nat \ {0}, NEW m1 \in 0..t, NEW m2 \in 0..t, NEW m3 \in 0..t, m1 + m2 + m3 = t,
           NEW quota, NEW order, NEW more, NEW shares,
           IsRounding(<<m1, m2, m3>>, t, quota, order, more, shares)
    PROVE  /\ more \in 0..3 /\ order \in Permutations3
           /\ quota \in Quotas(m1, t) \X Quotas(m2, t) \X Quotas(m3, t)
  <1> DEFINE meters == <<m1, m2, m3>>
  <1>1. quota \in Quotas(m1, t) \X Quotas(m2, t) \X Quotas(m3, t)
    <2>1. meters[1] = m1 /\ meters[2] = m2 /\ meters[3] = m3
      OBVIOUS
    <2>2. quota \in Quotas(meters[1], t) \X Quotas(meters[2], t) \X Quotas(meters[3], t)
      BY Zenon DEF IsRounding
    <2> HIDE DEF meters
    <2> QED BY <2>1, <2>2, Zenon
  <1>2. PICK q1 \in Quotas(m1, t), q2 \in Quotas(m2, t), q3 \in Quotas(m3, t) :
           quota = <<q1, q2, q3>>
    BY <1>1
  <1>3. order \in Orders(<<m1, m2, m3>>, quota)
    BY Zenon DEF IsRounding
  <1>4. order \in Permutations3
    BY <1>3, OrdersFit
  <1>5. PICK f1 \in 0..100, f2 \in 0..100, f3 \in 0..100 :
           f1 = quota[1].floor /\ f2 = quota[2].floor /\ f3 = quota[3].floor
    BY <1>2, QuotaFits
  <1> DEFINE r == [i \in 1..3 |-> quota[i].rest]
  <1>6. r \in [1..3 -> 0..t]
    <2>1. ASSUME NEW i \in 1..3
          PROVE  quota[i].rest \in 0..t
      BY <1>2, QuotaFits
    <2> QED BY <2>1
  <1>7. IsQuota(m1, t, f1, r[1]) /\ IsQuota(m2, t, f2, r[2]) /\ IsQuota(m3, t, f3, r[3])
    BY <1>2, <1>5, QuotaFits
  <1>8. more = 100 - (f1 + f2 + f3)
    BY <1>5, Zenon DEF IsRounding
  <1> HIDE DEF r
  <1>9. more \in 0..3
    <2>1. AreQuotas(<<m1, m2, m3>>, t, <<f1, f2, f3>>, r, more)
      BY <1>6, <1>7, <1>8 DEF AreQuotas
    <2> QED BY <2>1, RestsArePoints
  <1> QED BY <1>1, <1>4, <1>9

\* The place a share has once the first two are exchanged.
OtherSide(i) == IF i = 1 THEN 2 ELSE IF i = 2 THEN 1 ELSE 3

\* With the first two distances exchanged, unless they are the same, the shares may
\* be exchanged too.
LEMMA SwappedShares ==
    ASSUME NEW t \in Nat \ {0}, NEW m1 \in 0..t, NEW m2 \in 0..t, NEW m3 \in 0..t, m1 + m2 + m3 = t,
           m1 # m2, NEW shares \in PercentShares(<<m1, m2, m3>>, t)
    PROVE  \E other \in PercentShares(<<m2, m1, m3>>, t) : other[1] = shares[2] /\ other[2] = shares[1]
  <1>1. PICK quota, order, more : IsRounding(<<m1, m2, m3>>, t, quota, order, more, shares)
    BY SharesAreRoundings
  <1>2. PICK q1 \in Quotas(m1, t), q2 \in Quotas(m2, t), q3 \in Quotas(m3, t) :
           quota = <<q1, q2, q3>> /\ order \in Orders(<<m1, m2, m3>>, <<q1, q2, q3>>)
    <2>1. quota \in Quotas(m1, t) \X Quotas(m2, t) \X Quotas(m3, t)
      BY <1>1, PointsLeft
    <2>2. PICK q1 \in Quotas(m1, t), q2 \in Quotas(m2, t), q3 \in Quotas(m3, t) : quota = <<q1, q2, q3>>
      BY <2>1
    <2>3. order \in Orders(<<m1, m2, m3>>, quota)
      BY <1>1, Zenon DEF IsRounding
    <2> QED BY <2>2, <2>3, Zenon
  <1>3. more \in 0..3 /\ order \in Permutations3
    BY <1>1, PointsLeft
  <1> DEFINE turned == <<OtherSide(order[1]), OtherSide(order[2]), OtherSide(order[3])>>
             qs     == <<q2, q1, q3>>
             ms     == <<m2, m1, m3>>
             other  == [i \in 1..3 |-> qs[i].floor + Point(turned, more, i)]
  <1>4. /\ turned \in Permutations3
        /\ \A k \in 1..3 : turned[k] = OtherSide(order[k]) /\ order[k] \in 1..3
    BY <1>3 DEF Permutations3, OtherSide
  <1>5. turned \in Orders(ms, qs)
    <2>1. \A i \in 1..3 : /\ OtherSide(i) \in 1..3
                          /\ qs[OtherSide(i)] = <<q1, q2, q3>>[i] /\ ms[OtherSide(i)] = <<m1, m2, m3>>[i]
      BY DEF OtherSide
    <2>2. ASSUME NEW k \in 1..3, NEW l \in 1..3, k < l
          PROVE  /\ qs[turned[k]].rest >= qs[turned[l]].rest
                 /\ ms[turned[k]] = ms[turned[l]] => turned[k] < turned[l]
      <3>1. PICK i \in 1..3, j \in 1..3 : i = order[k] /\ j = order[l]
        BY <1>4
      <3>2. /\ <<q1, q2, q3>>[i].rest >= <<q1, q2, q3>>[j].rest
            /\ <<m1, m2, m3>>[i] = <<m1, m2, m3>>[j] => i < j
        <4>1. PICK qq, mm : qq = <<q1, q2, q3>> /\ mm = <<m1, m2, m3>>
          OBVIOUS
        <4>2. order \in Orders(mm, qq)
          BY <1>2, <4>1
        <4>3. qq[order[k]].rest >= qq[order[l]].rest /\ (mm[order[k]] = mm[order[l]] => order[k] < order[l])
          BY <2>2, <4>2 DEF Orders
        <4> QED BY <3>1, <4>1, <4>3
      <3>3. turned[k] = OtherSide(i) /\ turned[l] = OtherSide(j)
        BY <1>4, <3>1
      <3> HIDE DEF turned, qs, ms
      <3>4. qs[turned[k]].rest >= qs[turned[l]].rest
        BY <2>1, <3>2, <3>3
      <3>5. ASSUME ms[turned[k]] = ms[turned[l]]
            PROVE  turned[k] < turned[l]
        <4>1. <<m1, m2, m3>>[i] = <<m1, m2, m3>>[j]
          BY <2>1, <3>3, <3>5
        <4>2. i < j /\ ~(i = 1 /\ j = 2)
          BY <3>2, <4>1
        <4>3. OtherSide(i) < OtherSide(j)
          BY <4>2 DEF OtherSide
        <4> QED BY <3>3, <4>3
      <3> QED BY <3>4, <3>5
    <2>3. /\ turned \in {<<i, j, 6 - i - j>> : i, j \in 1..3}
          /\ {turned[1], turned[2], turned[3]} = 1..3
      BY <1>4 DEF Permutations3
    <2> HIDE DEF turned, qs, ms
    <2> QED BY <2>2, <2>3 DEF Orders
  <1>6. \A i \in 1..3 : Point(turned, more, i) = Point(order, more, OtherSide(i))
    <2>1. \A i \in 1..3, k \in 1..more : turned[k] = i <=> order[k] = OtherSide(i)
      <3>1. \A k \in 1..more : k \in 1..3
        BY <1>3
      <3> QED BY <1>4, <3>1 DEF OtherSide
    <2> HIDE DEF turned
    <2> QED BY <2>1 DEF Point
  <1>7. more = 100 - (qs[1].floor + qs[2].floor + qs[3].floor)
    <2>1. PICK f1 \in 0..100, f2 \in 0..100, f3 \in 0..100 :
             f1 = q1.floor /\ f2 = q2.floor /\ f3 = q3.floor
      BY QuotaFits
    <2>2. more = 100 - (f1 + f2 + f3)
      BY <1>1, <1>2, <2>1 DEF IsRounding
    <2> QED BY <2>1, <2>2
  <1>8. qs \in Quotas(ms[1], t) \X Quotas(ms[2], t) \X Quotas(ms[3], t)
    OBVIOUS
  <1>9. IsRounding(ms, t, qs, turned, more, other)
    <2> HIDE DEF turned, qs, ms
    <2> QED BY <1>5, <1>7, <1>8, Zenon DEF IsRounding
  <1>10. other \in PercentShares(ms, t)
    <2> HIDE DEF other, turned, qs, ms
    <2> QED BY <1>9, SharesAreRoundings
  <1>11. other[1] = shares[2] /\ other[2] = shares[1]
    <2>1. shares = [i \in 1..3 |-> quota[i].floor + Point(order, more, i)]
      BY <1>1, Zenon DEF IsRounding
    <2>2. Point(turned, more, 1) = Point(order, more, 2) /\ Point(turned, more, 2) = Point(order, more, 1)
      BY <1>6 DEF OtherSide
    <2> HIDE DEF turned
    <2> QED BY <1>2, <2>1, <2>2
  <1> QED BY <1>10, <1>11

\* If the first two are the same, so are their shares to a point.
LEMMA CloseShares ==
    ASSUME NEW t \in Nat \ {0}, NEW m \in 0..t, NEW m3 \in 0..t, m + m + m3 = t,
           NEW shares \in PercentShares(<<m, m, m3>>, t)
    PROVE  shares[1] - shares[2] \in -1..1
  <1>1. PICK quota, order, more : IsRounding(<<m, m, m3>>, t, quota, order, more, shares)
    BY SharesAreRoundings
  <1>2. PICK q1 \in Quotas(m, t), q2 \in Quotas(m, t), q3 \in Quotas(m3, t) :
           quota = <<q1, q2, q3>> /\ order \in Orders(<<m, m, m3>>, <<q1, q2, q3>>)
    <2>1. quota \in Quotas(m, t) \X Quotas(m, t) \X Quotas(m3, t)
      BY <1>1, PointsLeft
    <2>2. PICK q1 \in Quotas(m, t), q2 \in Quotas(m, t), q3 \in Quotas(m3, t) : quota = <<q1, q2, q3>>
      BY <2>1
    <2>3. order \in Orders(<<m, m, m3>>, quota)
      BY <1>1, Zenon DEF IsRounding
    <2> QED BY <2>2, <2>3, Zenon
  <1>3. more \in 0..3 /\ order \in Permutations3
    BY <1>1, PointsLeft
  <1>4. ASSUME NEW k \in 1..3, NEW l \in 1..3, order[k] = 1, order[l] = 2
        PROVE  k < l /\ q1.rest >= q2.rest
    <2>1. PICK qq, mm : qq = <<q1, q2, q3>> /\ mm = <<m, m, m3>>
      OBVIOUS
    <2>2. order \in Orders(mm, qq)
      BY <1>2, <2>1
    <2>3. \A i, j \in 1..3 : i < j => /\ qq[order[i]].rest >= qq[order[j]].rest
                                      /\ mm[order[i]] = mm[order[j]] => order[i] < order[j]
      BY <2>2 DEF Orders
    <2>4. mm[1] = mm[2] /\ qq[1] = q1 /\ qq[2] = q2
      BY <2>1
    <2>5. k # l
      BY <1>4
    <2>6. ~(l < k)
      <3>1. l < k => order[l] < order[k]
        BY <1>4, <2>3, <2>4
      <3> QED BY <1>4, <3>1
    <2>7. k < l
      BY <2>5, <2>6
    <2> QED BY <1>4, <2>3, <2>4, <2>7
  <1>5. PICK k \in 1..3, l \in 1..3 : order[k] = 1 /\ order[l] = 2
    BY <1>3 DEF Permutations3
  <1>6. k < l /\ q1.rest >= q2.rest
    BY <1>4, <1>5
  <1>7. PICK p1 \in 0..1, p2 \in 0..1 :
           p1 = Point(order, more, 1) /\ p2 = Point(order, more, 2) /\ p1 >= p2
    <2>1. ASSUME NEW i \in 1..more, order[i] = 2
          PROVE  \E j \in 1..more : order[j] = 1
      <3>1. i = l
        BY <1>3, <1>5, <2>1 DEF Permutations3
      <3>2. k \in 1..more
        BY <1>3, <1>6, <3>1
      <3> QED BY <1>5, <3>2
    <2> QED BY <2>1 DEF Point
  <1>8. PICK whole \in Nat, rest \in Nat : whole = (100 * m) \div t /\ rest = (100 * m) % t
    <2>1. 100 * m \in Nat
      OBVIOUS
    <2> QED BY <2>1, DivisionBy
  <1>9. \A q \in Quotas(m, t) : \/ q.floor = whole /\ q.rest = rest
                                \/ q.floor = whole - 1 /\ q.rest = t /\ rest = 0
    BY <1>8 DEF Quotas
  <1>10. PICK f1 \in Int, f2 \in Int : f1 = q1.floor /\ f2 = q2.floor /\ f1 - f2 \in -1..0
    <2>1. CASE q1.floor = whole /\ q1.rest = rest
      <3>1. q2.floor = whole
        BY <1>6, <1>9, <2>1
      <3> QED BY <2>1, <3>1
    <2>2. CASE q1.floor = whole - 1
      <3>1. q2.floor = whole \/ q2.floor = whole - 1
        BY <1>9
      <3> QED BY <2>2, <3>1
    <2> QED BY <1>9, <2>1, <2>2
  <1>11. shares[1] = f1 + p1 /\ shares[2] = f2 + p2
    <2>1. shares = [i \in 1..3 |-> quota[i].floor + Point(order, more, i)]
      BY <1>1, Zenon DEF IsRounding
    <2> QED BY <1>2, <1>7, <1>10, <2>1
  <1> QED BY <1>7, <1>10, <1>11

\* Swap is its own inverse.
LEMMA SwapTwice ==
    /\ \A place : Swap(Swap(place)) = place
    /\ \A place, other : Swap(place) = other <=> place = Swap(other)
  BY DEF Swap

\* A part of the mirrored way: its segments face the other side, in the same sun.
LEMMA MirroredPart ==
    ASSUME NEW segments, NEW part, NEW m, IsPartOf(segments, part, m)
    PROVE  /\ IsPartOf(Mirrored(segments), part, m)
           /\ \A i \in 1..m :
                 /\ Facing(Mirrored(segments), part, i) = Swap(Facing(segments, part, i))
                 /\ SegmentOf(Mirrored(segments), part, i).elevation
                       = SegmentOf(segments, part, i).elevation
  <1>1. segments \in Seq(Segments) /\ m \in Nat /\ part.first \in 1..Len(segments)
        /\ part.first + m - 1 <= Len(segments)
    BY DEF IsPartOf
  <1>2. PICK n \in Nat : n = Len(segments) /\ DOMAIN segments = 1..n
    BY <1>1
  <1>3. PICK other : other = Mirrored(segments)
    OBVIOUS
  <1>4. other = [k \in 1..n |-> other[k]]
    BY <1>2, <1>3 DEF Mirrored
  <1>5. \A k \in 1..n : /\ other[k] \in Segments
                        /\ ExposureDirection(other[k]) = Swap(ExposureDirection(segments[k]))
    BY <1>1, <1>2, <1>3, MirroredExposure
  <1>6. other \in Seq(Segments) /\ Len(other) = n
    <2>1. other \in [1..n -> Segments]
      BY <1>4, <1>5
    <2> QED BY <2>1
  <1>7. IsPartOf(other, part, m)
    BY <1>1, <1>2, <1>6 DEF IsPartOf
  <1>8. ASSUME NEW i \in 1..m
        PROVE  /\ Facing(other, part, i) = Swap(Facing(segments, part, i))
               /\ SegmentOf(other, part, i).elevation = SegmentOf(segments, part, i).elevation
    <2>1. PICK k \in 1..n : k = part.first + i - 1
      BY <1>1, <1>2
    <2>2. segments[k] \in Segments
      BY <1>1, <1>2
    <2>3. other[k] = [segments[k] EXCEPT !.bearing = (2 * segments[k].azimuth - segments[k].bearing) % 360]
      BY <1>2, <1>3, Zenon DEF Mirrored
    <2>4. other[k].elevation = segments[k].elevation
      BY <2>2, <2>3 DEF Segments
    <2> QED BY <1>5, <2>1, <2>4 DEF Facing, SegmentOf
  <1> QED BY <1>3, <1>7, <1>8

\* The distances on the two sides are exchanged, and the others the same.
LEMMA MirroredMeters ==
    ASSUME NEW segments, NEW part, NEW m, IsPartOf(segments, part, m), NEW direction
    PROVE  MetersFacing(Mirrored(segments), part, direction) = MetersFacing(segments, part, Swap(direction))
  <1>1. PICK other : other = Mirrored(segments)
    OBVIOUS
  <1>2. DOMAIN part.distances = 1..m
    BY DEF IsPartOf
  <1>3. \A i \in 1..m : Facing(other, part, i) = direction <=> Facing(segments, part, i) = Swap(direction)
    <2>1. ASSUME NEW i \in 1..m
          PROVE  Facing(other, part, i) = direction <=> Facing(segments, part, i) = Swap(direction)
      <3>1. PICK there, here : there = Facing(other, part, i) /\ here = Facing(segments, part, i)
        OBVIOUS
      <3>2. there = Swap(here)
        BY <1>1, <3>1, MirroredPart
      <3>3. there = direction <=> here = Swap(direction)
        BY <3>2 DEF Swap
      <3> QED BY <3>1, <3>3, Zenon
    <2> QED BY <2>1
  <1>4. [i \in DOMAIN part.distances |-> IF Facing(other, part, i) = direction THEN part.distances[i] ELSE 0]
          = [i \in DOMAIN part.distances |->
                IF Facing(segments, part, i) = Swap(direction) THEN part.distances[i] ELSE 0]
    BY <1>2, <1>3
  <1> QED BY <1>1, <1>4, Zenon DEF MetersFacing

\* So is the sample segment.
LEMMA MirroredSample ==
    ASSUME NEW segments, NEW part, NEW m, IsPartOf(segments, part, m), NEW direction
    PROVE  Sample(Mirrored(segments), part, Swap(direction)) = Sample(segments, part, direction)
  <1>1. PICK other : other = Mirrored(segments)
    OBVIOUS
  <1>2. DOMAIN part.distances = 1..m
    BY DEF IsPartOf
  <1>3. \A i \in 1..m : Facing(other, part, i) = Swap(direction) <=> Facing(segments, part, i) = direction
    <2>1. ASSUME NEW i \in 1..m
          PROVE  Facing(other, part, i) = Swap(direction) <=> Facing(segments, part, i) = direction
      <3>1. PICK there, here : there = Facing(other, part, i) /\ here = Facing(segments, part, i)
        OBVIOUS
      <3>2. there = Swap(here)
        BY <1>1, <3>1, MirroredPart
      <3>3. there = Swap(direction) <=> here = direction
        BY <3>2 DEF Swap
      <3> QED BY <3>1, <3>3, Zenon
    <2> QED BY <2>1
  <1>4. {i \in DOMAIN part.distances : Facing(other, part, i) = Swap(direction)}
          = {i \in DOMAIN part.distances : Facing(segments, part, i) = direction}
    BY <1>2, <1>3
  <1> QED BY <1>1, <1>4, Zenon DEF Sample

\* The directions in the order of the code, and which of them are first of those
\* with the greatest distance.
InOrder == <<"left", "right", "front", "back", "overhead", "none">>

IsFirst(segments, part, k) ==
    \A l \in 1..6 :
       \/ MetersFacing(segments, part, InOrder[k]) > MetersFacing(segments, part, InOrder[l])
       \/ MetersFacing(segments, part, InOrder[k]) = MetersFacing(segments, part, InOrder[l]) /\ k <= l

\* The dominant direction is such a one, and there is no other.
LEMMA DominantIsFirst ==
    ASSUME NEW segments, NEW part, NEW m, IsPartOf(segments, part, m)
    PROVE  /\ \E k \in 1..6 : IsFirst(segments, part, k)
           /\ \A k \in 1..6 : IsFirst(segments, part, k) => Dominant(segments, part) = InOrder[k]
  <1> DEFINE order     == <<"left", "right", "front", "back", "overhead", "none">>
             Meters(k) == MetersFacing(segments, part, order[k])
             First(k)  == \A l \in 1..6 :
                             Meters(k) > Meters(l) \/ (Meters(k) = Meters(l) /\ k <= l)
  <1>1. PICK f : f = [k \in 1..6 |-> Meters(k)]
    OBVIOUS
  <1>2. \A k \in 1..6 : f[k] \in Nat /\ f[k] = Meters(k)
    BY <1>1, MetersAddUp
  <1>3. \A k \in 1..6 : IsFirst(segments, part, k) <=> First(k)
    BY DEF IsFirst, InOrder
  <1>4. \A k \in 1..6 : First(k) <=> \A l \in 1..6 : f[k] > f[l] \/ (f[k] = f[l] /\ k <= l)
    <2> HIDE DEF Meters
    <2> QED BY <1>2
  <1>5. Dominant(segments, part) = order[CHOOSE k \in 1..6 : First(k)]
    BY Zenon DEF Dominant
  <1>6. \E k \in 1..6 : First(k)
    <2>1. PICK total \in Nat : \A k \in 1..6 : f[k] <= total
      <3>1. PICK s \in Nat : s = f[1] + f[2] + f[3] + f[4] + f[5] + f[6]
        BY <1>2
      <3>2. \A k \in 1..6 : f[k] <= s
        BY <1>2, <3>1
      <3> QED BY <3>2
    <2>2. PICK g : g = [k \in 1..6 |-> total - f[k]]
      OBVIOUS
    <2>3. \A k \in 1..6 : g[k] \in Nat /\ g[k] = total - f[k]
      BY <1>2, <2>1, <2>2
    <2>4. PICK k \in 1..6 : \A l \in 1..6 : g[k] < g[l] \/ (g[k] = g[l] /\ k <= l)
      <3>1. 1..6 \in SUBSET Nat /\ 1..6 # {}
        OBVIOUS
      <3> QED BY <2>3, <3>1, FirstLeast
    <2>5. \A l \in 1..6 : f[k] > f[l] \/ (f[k] = f[l] /\ k <= l)
      BY <1>2, <2>3, <2>4
    <2> HIDE DEF First
    <2> QED BY <1>4, <2>5
  <1>7. ASSUME NEW k \in 1..6, First(k), NEW l \in 1..6, First(l)
        PROVE  k = l
    <2> HIDE DEF First
    <2> QED BY <1>2, <1>4, <1>7
  <1>8. ASSUME NEW k \in 1..6, First(k)
        PROVE  Dominant(segments, part) = order[k]
    <2>1. PICK l \in 1..6 : l = (CHOOSE j \in 1..6 : First(j)) /\ First(l)
      <3> HIDE DEF First
      <3> QED BY <1>6
    <2>2. l = k
      BY <1>7, <1>8, <2>1
    <2> QED BY <1>5, <2>1, <2>2, Zenon
  <1>9. InOrder = order
    BY DEF InOrder
  <1> HIDE DEF First, order
  <1> QED BY <1>3, <1>6, <1>8, <1>9

\* Mirrored it is the other side's, unless the sides have the same.
LEMMA MirroredDominant ==
    ASSUME NEW segments, NEW part, NEW m, IsPartOf(segments, part, m)
    PROVE  Dominant(Mirrored(segments), part)
             = IF MetersFacing(segments, part, "left") = MetersFacing(segments, part, "right")
               THEN Dominant(segments, part) ELSE Swap(Dominant(segments, part))
  <1>1. PICK other : other = Mirrored(segments)
    OBVIOUS
  <1>2. IsPartOf(other, part, m)
    BY <1>1, MirroredPart
  <1>3. PICK f, g : /\ f = [k \in 1..6 |-> MetersFacing(segments, part, InOrder[k])]
                    /\ g = [k \in 1..6 |-> MetersFacing(other, part, InOrder[k])]
    OBVIOUS
  <1>4. \A k \in 1..6 : f[k] \in Nat
    BY <1>3, MetersAddUp
  <1> DEFINE Turn(k) == IF k = 1 THEN 2 ELSE IF k = 2 THEN 1 ELSE k
  <1>5. \A k \in 1..6 : Turn(k) \in 1..6 /\ Swap(InOrder[k]) = InOrder[Turn(k)]
    BY DEF InOrder, Swap
  <1>6. \A k \in 1..6 : g[k] = f[Turn(k)]
    <2>1. ASSUME NEW k \in 1..6
          PROVE  g[k] = f[Turn(k)]
      <3>1. g[k] = MetersFacing(segments, part, Swap(InOrder[k]))
        BY <1>1, <1>3, MirroredMeters
      <3> HIDE DEF Turn
      <3> QED BY <1>3, <1>5, <3>1
    <2> QED BY <2>1
  <1>7. /\ f[1] = MetersFacing(segments, part, "left")
        /\ f[2] = MetersFacing(segments, part, "right")
    BY <1>3 DEF InOrder
  <1>8. \A k \in 1..6 :
           /\ IsFirst(segments, part, k) <=> \A l \in 1..6 : f[k] > f[l] \/ (f[k] = f[l] /\ k <= l)
           /\ IsFirst(other, part, k)    <=> \A l \in 1..6 : g[k] > g[l] \/ (g[k] = g[l] /\ k <= l)
    BY <1>3 DEF IsFirst
  <1>9. PICK k \in 1..6 : IsFirst(segments, part, k)
    BY DominantIsFirst
  <1>10. \A l \in 1..6 : f[k] > f[l] \/ (f[k] = f[l] /\ k <= l)
    BY <1>8, <1>9
  <1>11. Dominant(segments, part) = InOrder[k]
    BY <1>9, DominantIsFirst
  <1>12. CASE f[1] = f[2]
    <2>1. \A l \in 1..6 : g[l] = f[l]
      BY <1>6, <1>12
    <2>2. IsFirst(other, part, k)
      BY <1>8, <1>10, <2>1
    <2>3. Dominant(other, part) = InOrder[k]
      BY <1>2, <2>2, DominantIsFirst
    <2> QED BY <1>1, <1>7, <1>11, <1>12, <2>3
  <1>13. CASE f[1] # f[2]
    <2>1. PICK j \in 1..6 : j = Turn(k)
      BY <1>5
    <2>2. ASSUME NEW l \in 1..6
          PROVE  g[j] > g[l] \/ (g[j] = g[l] /\ j <= l)
      <3>1. PICK i \in 1..6 : i = Turn(l)
        BY <1>5
      <3>2. g[l] = f[i] /\ g[j] = f[k]
        BY <1>6, <2>1, <3>1
      <3>3. f[k] > f[i] \/ (f[k] = f[i] /\ k <= i)
        BY <1>10
      <3>4. ASSUME f[k] = f[i], k <= i
            PROVE  j <= l
        <4>1. ~(k = 1 /\ i = 2) /\ ~(k = 2 /\ i = 1)
          BY <1>13, <3>4
        <4> QED BY <2>1, <3>1, <3>4, <4>1
      <3> QED BY <3>2, <3>3, <3>4
    <2>3. IsFirst(other, part, j)
      BY <1>8, <2>2
    <2>4. Dominant(other, part) = InOrder[j]
      BY <1>2, <2>3, DominantIsFirst
    <2>5. InOrder[j] = Swap(InOrder[k])
      BY <1>5, <2>1
    <2> QED BY <1>1, <1>7, <1>11, <1>13, <2>4, <2>5
  <1> QED BY <1>12, <1>13

\* The answer there is for some shares.
SummaryOf(segments, part, shares) ==
    LET dominant == Dominant(segments, part)
        sun      == SegmentOf(segments, part, Sample(segments, part, dominant))
    IN  [status |-> "advice", mode |-> part.mode, exposure |-> dominant,
         condition |-> SunCondition(sun.elevation), shares |-> shares,
         flip |-> shares[1] > 0 /\ shares[2] > 0,
         seat |-> SeatArea(dominant, shares[1] > 0 /\ shares[2] > 0)]

\* The answers are those for all shares the rounding may give.
LEMMA SummariesAre ==
    ASSUME NEW segments, NEW part
    PROVE  Summaries(segments, part) =
              {SummaryOf(segments, part, shares) : shares \in
                  PercentShares(<<MetersFacing(segments, part, "left"),
                                  MetersFacing(segments, part, "right"),
                                  Sum(part.distances) - MetersFacing(segments, part, "left")
                                                      - MetersFacing(segments, part, "right")>>,
                                Sum(part.distances))}
  BY Zenon DEF Summaries, SummaryOf

\* What is said of the mirrored way, against what is said of the way.
IsMirrored(a, other) ==
    /\ other.seat = Swap(a.seat)
    /\ other.flip = a.flip
    /\ other.exposure = Swap(a.exposure) \/ a.flip
    /\ other.condition = a.condition \/ a.flip
    /\ other.shares[1] - a.shares[2] \in -1..1
    /\ other.shares[2] - a.shares[1] \in -1..1

\* A side that is the dominant one and no more so than the other side has a share,
\* and so has the other.
LEMMA BothSides ==
    ASSUME NEW segments, NEW part, NEW m, IsPartOf(segments, part, m),
           Sum(part.distances) > 0, NEW a \in Summaries(segments, part),
           MetersFacing(segments, part, "left") = MetersFacing(segments, part, "right"),
           Dominant(segments, part) \in {"left", "right"}
    PROVE  a.shares[1] > 0 /\ a.shares[2] > 0
  <1>1. 6 * MetersFacing(segments, part, Dominant(segments, part)) >= Sum(part.distances)
    BY DominantFits
  <1>2. /\ 6 * MetersFacing(segments, part, "left") >= Sum(part.distances)
        /\ 6 * MetersFacing(segments, part, "right") >= Sum(part.distances)
    BY <1>1
  <1>3. /\ IsShare(MetersFacing(segments, part, "left"), Sum(part.distances), a.shares[1])
        /\ IsShare(MetersFacing(segments, part, "right"), Sum(part.distances), a.shares[2])
    BY SummaryFits
  <1> QED BY <1>2, <1>3, Zenon DEF IsShare

\* Every answer about a part of the way has its mirror image among those about the
\* mirrored part.
LEMMA MirroredSummary ==
    ASSUME NEW segments, NEW part, NEW m, IsPartOf(segments, part, m),
           Sum(part.distances) > 0, NEW a \in Summaries(segments, part)
    PROVE  \E other \in Summaries(Mirrored(segments), part) : IsMirrored(a, other)
  <1>1. PICK mirrored : mirrored = Mirrored(segments)
    OBVIOUS
  <1>2. IsPartOf(mirrored, part, m)
    BY <1>1, MirroredPart
  <1>3. PICK total, left, right, rest :
           /\ total = Sum(part.distances) /\ left = MetersFacing(segments, part, "left")
           /\ right = MetersFacing(segments, part, "right") /\ rest = total - left - right
    OBVIOUS
  <1>4. /\ total \in Nat \ {0} /\ left \in 0..total /\ right \in 0..total /\ rest \in 0..total
        /\ left + right + rest = total
    <2>1. PICK f, b, o, n : /\ f \in Nat /\ b \in Nat /\ o \in Nat /\ n \in Nat
                            /\ left \in Nat /\ right \in Nat
                            /\ total = left + right + f + b + o + n
      BY <1>3, MetersAddUp
    <2> QED BY <1>3, <2>1
  <1>5. /\ MetersFacing(mirrored, part, "left") = right
        /\ MetersFacing(mirrored, part, "right") = left
        /\ total - right - left = rest
    <2>1. /\ MetersFacing(mirrored, part, "left") = MetersFacing(segments, part, Swap("left"))
          /\ MetersFacing(mirrored, part, "right") = MetersFacing(segments, part, Swap("right"))
      BY <1>1, MirroredMeters
    <2>2. Swap("left") = "right" /\ Swap("right") = "left"
      BY DEF Swap
    <2> QED BY <1>3, <1>4, <2>1, <2>2
  <1>6. PICK shares \in PercentShares(<<left, right, rest>>, total) :
           a = SummaryOf(segments, part, shares)
    BY <1>3, SummariesAre, Zenon
  <1>7. \A swapped \in PercentShares(<<right, left, rest>>, total) :
           SummaryOf(mirrored, part, swapped) \in Summaries(mirrored, part)
    BY <1>3, <1>5, SummariesAre, Zenon
  <1>8. PICK dominant \in Directions : dominant = Dominant(segments, part)
                                       /\ 6 * MetersFacing(segments, part, dominant) >= total
    BY <1>3, <1>4, DominantFits
  <1>9. PICK i \in 1..m : i = Sample(segments, part, dominant)
    <2>1. PICK meters \in Nat : meters = MetersFacing(segments, part, dominant)
      BY MetersAddUp
    <2>2. meters > 0
      BY <1>4, <1>8, <2>1
    <2> QED BY <2>1, <2>2, SampleFits
  <1>10. PICK elevation : elevation = SegmentOf(segments, part, i).elevation
    OBVIOUS
  <1>11. /\ a.exposure = dominant /\ a.condition = SunCondition(elevation) /\ a.shares = shares
         /\ a.flip = (shares[1] > 0 /\ shares[2] > 0) /\ a.seat = SeatArea(dominant, a.flip)
    BY <1>6, <1>8, <1>9, <1>10 DEF SummaryOf
  <1>12. PICK turned : turned = Dominant(mirrored, part)
    OBVIOUS
  <1>13. turned = IF left = right THEN dominant ELSE Swap(dominant)
    BY <1>1, <1>3, <1>8, <1>12, MirroredDominant
  <1>14. ASSUME turned = Swap(dominant)
         PROVE  SegmentOf(mirrored, part, Sample(mirrored, part, turned)).elevation = elevation
    <2>1. Sample(mirrored, part, turned) = i
      BY <1>1, <1>9, <1>14, MirroredSample
    <2> QED BY <1>1, <1>10, <2>1, MirroredPart
  <1>15. \A swapped : LET other == SummaryOf(mirrored, part, swapped) IN
            /\ other.exposure = turned /\ other.shares = swapped
            /\ other.flip = (swapped[1] > 0 /\ swapped[2] > 0)
            /\ other.seat = SeatArea(turned, other.flip)
            /\ turned = Swap(dominant) => other.condition = SunCondition(elevation)
    BY <1>12, <1>14 DEF SummaryOf
  <1>16. \A flip : SeatArea(Swap(dominant), flip) = Swap(SeatArea(dominant, flip))
    BY <1>8 DEF SeatArea, Swap, Opposite, Directions
  <1>17. shares[1] \in Int /\ shares[2] \in Int
    <2>1. shares \in Shares
      BY <1>4, <1>6, PercentagesFit
    <2> QED BY <2>1 DEF Shares
  <1>18. CASE left # right
    <2>1. PICK swapped \in PercentShares(<<right, left, rest>>, total) :
             swapped[1] = shares[2] /\ swapped[2] = shares[1]
      BY <1>4, <1>6, <1>18, SwappedShares
    <2>2. PICK other : other = SummaryOf(mirrored, part, swapped)
      OBVIOUS
    <2>3. /\ other.exposure = Swap(dominant) /\ other.shares = swapped
          /\ other.flip = a.flip /\ other.condition = a.condition
          /\ other.seat = SeatArea(Swap(dominant), a.flip)
      BY <1>11, <1>13, <1>15, <1>18, <2>1, <2>2
    <2>4. other.seat = Swap(a.seat)
      BY <1>11, <1>16, <2>3
    <2>5. other.shares[1] - a.shares[2] \in -1..1 /\ other.shares[2] - a.shares[1] \in -1..1
      BY <1>11, <1>17, <2>1, <2>3
    <2>6. IsMirrored(a, other)
      BY <1>11, <2>3, <2>4, <2>5, Zenon DEF IsMirrored
    <2> QED BY <1>1, <1>7, <2>2, <2>6, Zenon
  <1>19. CASE left = right
    <2>1. shares \in PercentShares(<<right, left, rest>>, total)
      BY <1>6, <1>19
    <2>2. PICK other : other = SummaryOf(mirrored, part, shares)
      OBVIOUS
    <2>3. /\ other.exposure = dominant /\ other.shares = shares /\ other.flip = a.flip
          /\ other.seat = a.seat
      BY <1>11, <1>13, <1>15, <1>19, <2>2
    <2>4. shares[1] - shares[2] \in -1..1 /\ shares[2] - shares[1] \in -1..1
      <3>1. shares \in PercentShares(<<left, left, rest>>, total) /\ left + left + rest = total
        BY <1>4, <1>6, <1>19
      <3>2. shares[1] - shares[2] \in -1..1
        BY <1>4, <3>1, CloseShares
      <3> QED BY <1>17, <3>2
    <2>5. other.shares[1] - a.shares[2] \in -1..1 /\ other.shares[2] - a.shares[1] \in -1..1
      BY <1>11, <2>3, <2>4
    <2>6. CASE dominant \in {"left", "right"}
      <3>1. a.flip
        BY <1>3, <1>4, <1>8, <1>11, <1>19, <2>6, BothSides
      <3>2. other.seat = Swap(a.seat)
        BY <1>11, <2>3, <3>1 DEF SeatArea, Swap
      <3>3. IsMirrored(a, other)
        BY <2>3, <2>5, <3>1, <3>2, Zenon DEF IsMirrored
      <3> QED BY <1>1, <1>7, <2>1, <2>2, <3>3, Zenon
    <2>7. CASE dominant \notin {"left", "right"}
      <3>1. Swap(dominant) = dominant
        BY <2>7 DEF Swap
      <3>2. other.condition = a.condition
        BY <1>11, <1>13, <1>15, <1>19, <2>2, <3>1
      <3>3. other.seat = Swap(a.seat)
        BY <1>11, <1>16, <2>3, <3>1
      <3>4. IsMirrored(a, other)
        BY <1>11, <2>3, <2>5, <3>1, <3>2, <3>3, Zenon DEF IsMirrored
      <3> QED BY <1>1, <1>7, <2>1, <2>2, <3>4, Zenon
    <2> QED BY <2>6, <2>7
  <1> QED BY <1>18, <1>19

\* The invariant implies MirrorSwapsSides.
LEMMA MirrorFits == AdviceInv => MirrorSwapsSides
  <1> SUFFICES ASSUME AdviceInv, Advised
               PROVE  MirrorSwapsSides
    BY DEF MirrorSwapsSides
  <1>1. PICK m : IsPartOf(asked.segments, selected, m)
    BY AdvisedFits
  <1>2. Sum(selected.distances) > 0 /\ answer \in Summaries(asked.segments, selected)
    BY AdvisedFits
  <1>3. \E other \in Summaries(Mirrored(asked.segments), selected) : IsMirrored(answer, other)
    BY <1>1, <1>2, MirroredSummary
  <1> QED BY <1>3, Zenon DEF MirrorSwapsSides, IsMirrored

\* MirrorSwapsSides: for every way, place and sun the advice favours neither side, in
\* the sectors of the directions, in the choice of the dominant one and in the
\* rounding of the shares: the mirrored way can get the mirrored answer.
THEOREM AdviceFavoursNoSide == Spec => []MirrorSwapsSides
  <1> QED BY AdviceInvariance, MirrorFits, PTL
=============================================================================
