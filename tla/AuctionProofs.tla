---------------------------- MODULE AuctionProofs ----------------------------
(***************************************************************************)
(* Facts about the curve of module Auction, for every auction: the time of *)
(* every point exists, although it is defined by recursion; the rate is    *)
(* never negative, and falls if the points do; and the two divisions that  *)
(* price a fill never round its share down.                                *)
(*                                                                         *)
(* Induction is by well-foundedness of <: the set of the numbers for which *)
(* a statement fails has no least element.                                 *)
(***************************************************************************)
EXTENDS Auction, WellFoundedInduction, TLAPS
-----------------------------------------------------------------------------
\* Induction.

\* A set of naturals that is not empty has a least element.
LEMMA LeastNatural ==
  ASSUME NEW T \in SUBSET Nat, T # {}
  PROVE  \E n \in T : \A m \in T : n <= m
<1> DEFINE R == OpToRel(<, Nat)
<1>1. IsWellFoundedOn(R, Nat)
  BY NatLessThanWellFounded
<1>2. \A m, k \in Nat : m < k => <<m, k>> \in R
  BY DEF OpToRel
<1> HIDE DEF R
<1>3. PICK n \in T : \A m \in T : <<m, n>> \notin R
  BY <1>1, WFMin
<1>4. \A m \in T : m \in Nat /\ n \in Nat
  OBVIOUS
<1>5. \A m \in T : ~(m < n)
  BY <1>2, <1>3, <1>4
<1>6. \A m \in T : n <= m
  BY <1>4, <1>5
<1> QED BY <1>6

\* Induction, for the membership of a set.
LEMMA SetInduction ==
  ASSUME NEW S, 0 \in S, \A n \in Nat : n \in S => n + 1 \in S
  PROVE  Nat \subseteq S
<1> SUFFICES ASSUME Nat \ S # {} PROVE FALSE
  OBVIOUS
<1>1. PICK n \in Nat \ S : \A m \in Nat \ S : n <= m
  BY LeastNatural
<1>2. n # 0 /\ n \in Nat
  BY <1>1
<1>3. n - 1 \in Nat /\ ~(n <= n - 1) /\ (n - 1) + 1 = n
  BY <1>2
<1>4. n - 1 \in S
  BY <1>1, <1>3
<1>5. n \in S
  BY <1>3, <1>4
<1> QED BY <1>1, <1>5

-----------------------------------------------------------------------------
\* The points.

\* The times of the points, one after the other.
IsPointTime(f, d) ==
  f = [i \in 0..Len(d.points) |->
         IF i = 0 THEN d.start_time ELSE f[i - 1] + d.points[i].time_delta]

\* PointTime satisfies its recursive definition.
LEMMA PointTimeExists ==
  ASSUME NEW d \in AuctionDatas
  PROVE  IsPointTime(PointTime(d), d)
<1> DEFINE N == Len(d.points)
           Step(f, i) == IF i = 0 THEN d.start_time ELSE f[i - 1] + d.points[i].time_delta
           S == {n \in Nat : \E f : f = [i \in 0..n |-> Step(f, i)]}
<1>1. 0 \in S
  <2> DEFINE f == [i \in 0..0 |-> d.start_time]
  <2>1. f = [i \in 0..0 |-> Step(f, i)]
    OBVIOUS
  <2> QED BY <2>1
<1>2. ASSUME NEW n \in Nat, n \in S PROVE n + 1 \in S
  <2>1. PICK f : f = [i \in 0..n |-> Step(f, i)]
    BY <1>2
  <2> DEFINE g == [i \in 0..(n + 1) |->
                     IF i = n + 1 THEN f[n] + d.points[n + 1].time_delta ELSE f[i]]
  <2>2. ASSUME NEW i \in 0..(n + 1) PROVE g[i] = Step(g, i)
    <3>1. CASE i = n + 1
      <4>1. i # 0 /\ i - 1 = n /\ n \in 0..(n + 1) /\ n # n + 1
        BY <3>1
      <4>2. g[n] = f[n]
        BY <4>1
      <4> QED BY <3>1, <4>1, <4>2
    <3>2. CASE i = 0
      <4>1. f[0] = d.start_time /\ 0 # n + 1
        BY <2>1
      <4> QED BY <3>2, <4>1
    <3>3. CASE i \in 1..n
      <4>1. i # n + 1 /\ i - 1 \in 0..(n + 1) /\ i - 1 # n + 1 /\ i \in 0..n /\ i # 0
        BY <3>3
      <4>2. f[i] = f[i - 1] + d.points[i].time_delta
        <5>1. f[i] = Step(f, i)
          BY <2>1, <4>1
        <5> QED BY <4>1, <5>1
      <4>3. g[i] = f[i] /\ g[i - 1] = f[i - 1]
        BY <4>1
      <4> HIDE DEF g
      <4> QED BY <4>1, <4>2, <4>3
    <3> QED BY <3>1, <3>2, <3>3
  <2>3. g = [i \in 0..(n + 1) |-> Step(g, i)]
    <3>1. \A i \in 0..(n + 1) : g[i] = Step(g, i)
      BY <2>2
    <3>2. g = [i \in 0..(n + 1) |-> g[i]]
      OBVIOUS
    <3> HIDE DEF g
    <3> QED BY <3>1, <3>2
  <2> HIDE DEF g, Step
  <2> QED BY <2>3
<1>3. N \in S
  <2>1. N \in Nat
    BY DEF AuctionDatas
  <2> HIDE DEF S
  <2> QED BY <1>1, <1>2, <2>1, SetInduction
<1>4. PICK f : IsPointTime(f, d)
  BY <1>3 DEF IsPointTime
<1> QED BY <1>4 DEF IsPointTime, PointTime
\* The parts of an auction's data.
LEMMA AuctionParts ==
  ASSUME NEW d \in AuctionDatas, NEW n, n = Len(d.points)
  PROVE  /\ d.start_time \in Nat /\ d.duration \in Nat /\ n \in Nat
         /\ \A i \in 1..n : d.points[i].time_delta \in Nat
         /\ \A i \in 0..n : PointRate(d, i) \in Nat
<1>1. d.points \in Seq([rate_bump : Nat, time_delta : Nat])
  BY DEF AuctionDatas
<1>2. \A i \in 1..n : d.points[i] \in [rate_bump : Nat, time_delta : Nat]
  <2>1. ASSUME NEW R, NEW s \in Seq(R), NEW i \in 1..Len(s) PROVE s[i] \in R
    OBVIOUS
  <2> DEFINE P == [rate_bump : Nat, time_delta : Nat]
  <2> HIDE DEF P
  <2>2. d.points \in Seq(P)
    BY <1>1 DEF P
  <2>3. \A i \in 1..n : d.points[i] \in P
    BY <2>1, <2>2
  <2> QED BY <2>3 DEF P
<1>3. \A i \in 1..n : d.points[i].rate_bump \in Nat /\ d.points[i].time_delta \in Nat
  BY <1>2
<1>4. d.start_time \in Nat /\ d.duration \in Nat /\ d.initial_rate_bump \in Nat /\ n \in Nat
  BY <1>1 DEF AuctionDatas
<1>5. \A i \in 0..n : i = 0 \/ i \in 1..n
  BY <1>4
<1> QED BY <1>3, <1>4, <1>5 DEF PointRate

\* The times of the points are naturals, each a delta later than the one before.
LEMMA PointTimes ==
  ASSUME NEW d \in AuctionDatas, NEW n, n = Len(d.points), NEW time, time = PointTime(d)
  PROVE  /\ time[0] = d.start_time
         /\ \A i \in 1..n : time[i] = time[i - 1] + d.points[i].time_delta
         /\ \A i \in 0..n : time[i] \in Nat
<1>1. n \in Nat /\ d.start_time \in Nat /\ \A i \in 1..n : d.points[i].time_delta \in Nat
  BY AuctionParts
<1>2. time = [i \in 0..n |->
                IF i = 0 THEN d.start_time ELSE time[i - 1] + d.points[i].time_delta]
  BY PointTimeExists DEF IsPointTime
<1>3. time[0] = d.start_time
  BY <1>1, <1>2
<1>4. ASSUME NEW i \in 1..n PROVE time[i] = time[i - 1] + d.points[i].time_delta
  <2>1. i \in 0..n /\ i # 0
    BY <1>1
  <2> QED BY <1>2, <2>1
<1> DEFINE S == {i \in Nat : i <= n => time[i] \in Nat}
<1>5. 0 \in S
  BY <1>1, <1>3
<1>6. ASSUME NEW i \in Nat, i \in S PROVE i + 1 \in S
  <2>1. CASE i + 1 <= n
    <3>1. i + 1 \in 1..n /\ (i + 1) - 1 = i /\ i <= n
      BY <1>1, <2>1
    <3>2. time[i + 1] = time[i] + d.points[i + 1].time_delta
      BY <1>4, <3>1
    <3>3. time[i] \in Nat /\ d.points[i + 1].time_delta \in Nat
      BY <1>1, <1>6, <3>1
    <3> QED BY <3>2, <3>3
  <2>2. CASE ~(i + 1 <= n)
    BY <2>2
  <2> QED BY <2>1, <2>2
<1>7. Nat \subseteq S
  <2> HIDE DEF S
  <2> QED BY <1>5, <1>6, SetInduction
<1>8. \A i \in 0..n : time[i] \in Nat
  BY <1>1, <1>7
<1> QED BY <1>3, <1>4, <1>8

-----------------------------------------------------------------------------
\* The pieces of the curve.

\* Before the end, the piece is that of the first point that is not passed,
LEMMA RateBetween ==
  ASSUME NEW d \in AuctionDatas, NEW t \in Nat, t > d.start_time, t < d.start_time + d.duration,
         NEW n, n = Len(d.points), NEW time, time = PointTime(d),
         NEW i \in 1..n, t <= time[i], \A j \in 1..(i - 1) : t > time[j]
  PROVE  CalculateRateBump(t, d) =
           Interpolate(t, time[i - 1], PointRate(d, i - 1), time[i], PointRate(d, i))
<1> DEFINE ahead == {j \in 1..n : t <= time[j]}
           next == CHOOSE j \in ahead : \A m \in ahead : j <= m
<1>1. n \in Nat /\ d.start_time \in Nat /\ d.duration \in Nat
  BY AuctionParts
<1>2. \A j \in 0..n : time[j] \in Nat
  BY PointTimes
<1>3. i \in ahead
  OBVIOUS
<1>4. \A m \in ahead : i <= m
  BY <1>1, <1>2
<1>5. next = i
  <2>1. next \in ahead /\ \A m \in ahead : next <= m
    BY <1>3, <1>4
  <2>2. next <= i /\ i <= next
    BY <1>3, <1>4, <2>1
  <2>3. next \in Int /\ i \in Int
    BY <1>1, <2>1
  <2> HIDE DEF next
  <2> QED BY <2>2, <2>3
<1>6. ~(t <= d.start_time) /\ ~(t >= d.start_time + d.duration)
  BY <1>1
<1> HIDE DEF next
<1>7. CalculateRateBump(t, d) =
        Interpolate(t, time[next - 1], PointRate(d, next - 1), time[next], PointRate(d, next))
  BY <1>3, <1>6 DEF CalculateRateBump, next
<1> QED BY <1>5, <1>7

\* or the last one, down to the end.
LEMMA RateTail ==
  ASSUME NEW d \in AuctionDatas, NEW t \in Nat, t > d.start_time, t < d.start_time + d.duration,
         NEW n, n = Len(d.points), NEW time, time = PointTime(d),
         \A j \in 1..n : t > time[j]
  PROVE  CalculateRateBump(t, d) =
           Interpolate(t, time[n], PointRate(d, n), d.start_time + d.duration, 0)
<1>1. n \in Nat /\ d.start_time \in Nat /\ d.duration \in Nat
  BY AuctionParts
<1>2. \A j \in 0..n : time[j] \in Nat
  BY PointTimes
<1>3. {j \in 1..n : t <= time[j]} = {}
  BY <1>1, <1>2
<1>4. ~(t <= d.start_time) /\ ~(t >= d.start_time + d.duration)
  BY <1>1
<1> QED BY <1>3, <1>4 DEF CalculateRateBump

-----------------------------------------------------------------------------
\* A point between two others.

\* A quotient by a positive number keeps an order of its numerators, and that of
\* a multiple is the factor.
LEMMA QuotientFact ==
  ASSUME NEW d \in Nat \ {0}
  PROVE  /\ \A x \in Nat : x \div d \in Nat
         /\ \A x, y \in Nat : x <= y => x \div d <= y \div d
         /\ \A q \in Nat : q * d \in Nat /\ (q * d) \div d = q
<1>1. \A x \in Nat : x \div d \in Nat
  OBVIOUS
<1>2. \A x, y \in Nat : x <= y => x \div d <= y \div d
  OBVIOUS
<1>3. \A q \in Nat : q * d \in Nat /\ (q * d) \div d = q
  OBVIOUS
<1> QED BY <1>1, <1>2, <1>3

\* Products of naturals.
LEMMA ProductFact ==
  ASSUME NEW x \in Nat, NEW y \in Nat
  PROVE  /\ x * y \in Nat /\ x * y = y * x
         /\ \A z \in Nat : x <= z => x * y <= z * y
         /\ \A z \in Nat : (x + z) * y = x * y + z * y
OBVIOUS

\* Interpolation gives a natural that lies between the rates of a falling piece.
LEMMA InterpolateFact ==
  ASSUME NEW t \in Nat, NEW t0 \in Nat, NEW t1 \in Nat, t0 <= t, t <= t1, t0 < t1,
         NEW r0 \in Nat, NEW r1 \in Nat
  PROVE  /\ Interpolate(t, t0, r0, t1, r1) \in Nat
         /\ r1 <= r0 => /\ r1 <= Interpolate(t, t0, r0, t1, r1)
                        /\ Interpolate(t, t0, r0, t1, r1) <= r0
<1> DEFINE a == t - t0
           b == t1 - t
           d == t1 - t0
           num == a * r1 + b * r0
<1>1. a \in Nat /\ b \in Nat /\ d \in Nat \ {0} /\ d = a + b
  OBVIOUS
<1>2. Interpolate(t, t0, r0, t1, r1) = num \div d
  BY DEF Interpolate
<1> HIDE DEF a, b, d
<1>3. a * r1 \in Nat /\ b * r0 \in Nat /\ b * r1 \in Nat /\ a * r0 \in Nat
  BY <1>1, ProductFact
<1>4. num \in Nat
  BY <1>3
<1>5. num \div d \in Nat
  <2> HIDE DEF num
  <2> QED BY <1>1, <1>4, QuotientFact
<1>6. ASSUME r1 <= r0 PROVE r1 <= num \div d /\ num \div d <= r0
  <2>1. b * r1 <= b * r0 /\ a * r1 <= a * r0
    BY <1>1, <1>6, ProductFact
  <2>2. r1 * d = a * r1 + b * r1 /\ r0 * d = a * r0 + b * r0
    BY <1>1, ProductFact
  <2>3. r1 * d <= num /\ num <= r0 * d
    BY <1>3, <2>1, <2>2
  <2>4. /\ r1 * d \in Nat /\ r0 * d \in Nat
        /\ (r1 * d) \div d = r1 /\ (r0 * d) \div d = r0
    BY <1>1, QuotientFact
  <2> HIDE DEF num
  <2>5. (r1 * d) \div d <= num \div d /\ num \div d <= (r0 * d) \div d
    BY <1>1, <1>4, <2>3, <2>4, QuotientFact
  <2> QED BY <2>4, <2>5
<1> QED BY <1>2, <1>5, <1>6

-----------------------------------------------------------------------------
\* The rate.

\* The ends of the pieces: the points, and after them the end of the auction.
EndTime(d, i) ==
  IF i <= Len(d.points) THEN PointTime(d)[i] ELSE d.start_time + d.duration
EndRate(d, i) == IF i <= Len(d.points) THEN PointRate(d, i) ELSE 0

\* The piece that t is in is the first one that does not end before it.
InPiece(t, d, i) ==
  /\ i \in 1..(Len(d.points) + 1) /\ t <= EndTime(d, i)
  /\ \A j \in 1..(i - 1) : t > EndTime(d, j)

Inside(t, d) == t > d.start_time /\ t < d.start_time + d.duration

\* The ends of the pieces are naturals.
LEMMA EndParts ==
  ASSUME NEW d \in AuctionDatas, NEW n, n = Len(d.points)
  PROVE  /\ \A i \in 0..(n + 1) : EndTime(d, i) \in Nat /\ EndRate(d, i) \in Nat
         /\ EndTime(d, 0) = d.start_time /\ EndRate(d, 0) = d.initial_rate_bump
<1> DEFINE time == PointTime(d)
<1>1. time = PointTime(d)
  OBVIOUS
<1> HIDE DEF time
<1>2. /\ n \in Nat /\ d.start_time \in Nat /\ d.duration \in Nat
      /\ \A i \in 0..n : PointRate(d, i) \in Nat
  BY AuctionParts
<1>3. time[0] = d.start_time /\ \A i \in 0..n : time[i] \in Nat
  BY <1>1, PointTimes
<1>4. ASSUME NEW i \in 0..(n + 1) PROVE EndTime(d, i) \in Nat /\ EndRate(d, i) \in Nat
  <2>1. CASE i <= n
    <3>1. i \in 0..n
      BY <1>2, <2>1
    <3> QED BY <1>1, <1>2, <1>3, <2>1, <3>1 DEF EndTime, EndRate
  <2>2. CASE ~(i <= n)
    BY <1>2, <2>2 DEF EndTime, EndRate
  <2> QED BY <2>1, <2>2
<1>5. EndTime(d, 0) = d.start_time /\ EndRate(d, 0) = d.initial_rate_bump
  <2>1. 0 <= n
    BY <1>2
  <2> QED BY <1>1, <1>3, <2>1 DEF EndTime, EndRate, PointRate
<1> QED BY <1>4, <1>5

\* Every moment of the auction is in a piece.
LEMMA SomePiece ==
  ASSUME NEW d \in AuctionDatas, NEW t \in Nat, Inside(t, d)
  PROVE  \E i : InPiece(t, d, i)
<1> DEFINE n == Len(d.points)
           S == {i \in 1..(n + 1) : t <= EndTime(d, i)}
<1>1. n \in Nat /\ d.start_time \in Nat /\ d.duration \in Nat
  BY AuctionParts
<1>2. \A i \in 0..(n + 1) : EndTime(d, i) \in Nat
  BY EndParts
<1>3. n + 1 \in S
  <2>1. EndTime(d, n + 1) = d.start_time + d.duration
    BY <1>1 DEF EndTime
  <2> QED BY <1>1, <2>1 DEF Inside
<1>4. PICK i \in S : \A j \in S : i <= j
  <2>1. S \in SUBSET Nat /\ S # {}
    BY <1>1, <1>3
  <2> HIDE DEF S
  <2> QED BY <2>1, LeastNatural
<1>5. ASSUME NEW j \in 1..(i - 1) PROVE t > EndTime(d, j)
  <2>1. j \in 1..(n + 1) /\ j \in 0..(n + 1) /\ ~(i <= j)
    BY <1>1, <1>4
  <2>2. j \notin S
    BY <1>4, <2>1
  <2>3. ~(t <= EndTime(d, j))
    BY <2>1, <2>2
  <2> QED BY <1>2, <2>1, <2>3
<1> QED BY <1>4, <1>5 DEF InPiece

\* The rate is interpolated between the ends of the piece.
LEMMA PieceRate ==
  ASSUME NEW d \in AuctionDatas, NEW t \in Nat, Inside(t, d), NEW i, InPiece(t, d, i)
  PROVE  /\ i \in Nat /\ i >= 1 /\ i <= Len(d.points) + 1
         /\ EndTime(d, i - 1) \in Nat /\ EndTime(d, i) \in Nat
         /\ EndTime(d, i - 1) < t /\ t <= EndTime(d, i)
         /\ EndRate(d, i - 1) \in Nat /\ EndRate(d, i) \in Nat
         /\ CalculateRateBump(t, d) =
              Interpolate(t, EndTime(d, i - 1), EndRate(d, i - 1), EndTime(d, i), EndRate(d, i))
<1> DEFINE n == Len(d.points)
           time == PointTime(d)
<1>1. time = PointTime(d) /\ n = Len(d.points)
  OBVIOUS
<1> HIDE DEF time, n
<1>2. /\ n \in Nat /\ d.start_time \in Nat /\ d.duration \in Nat
  BY <1>1, AuctionParts
<1>3. i \in 1..(n + 1) /\ t <= EndTime(d, i) /\ \A j \in 1..(i - 1) : t > EndTime(d, j)
  BY <1>1 DEF InPiece
<1>4. i \in Nat /\ i >= 1 /\ i <= n + 1 /\ i - 1 \in 0..(n + 1) /\ i \in 0..(n + 1) /\ i - 1 <= n
  BY <1>2, <1>3
<1>5. /\ EndTime(d, i - 1) \in Nat /\ EndTime(d, i) \in Nat
      /\ EndRate(d, i - 1) \in Nat /\ EndRate(d, i) \in Nat
  BY <1>1, <1>4, EndParts
<1>6. EndTime(d, i - 1) < t
  <2>1. CASE i = 1
    <3>1. i - 1 = 0 /\ EndTime(d, 0) = d.start_time
      BY <1>1, <2>1, EndParts
    <3> QED BY <1>2, <3>1 DEF Inside
  <2>2. CASE i # 1
    <3>1. i - 1 \in 1..(i - 1)
      BY <1>4, <2>2
    <3> QED BY <1>3, <1>5, <3>1
  <2> QED BY <2>1, <2>2
<1>7. EndTime(d, i - 1) = time[i - 1] /\ EndRate(d, i - 1) = PointRate(d, i - 1)
  BY <1>1, <1>4 DEF EndTime, EndRate
<1>8. \A j \in 1..(i - 1) : EndTime(d, j) = time[j]
  BY <1>1, <1>2, <1>4 DEF EndTime
<1>9. \A j \in 1..(i - 1) : t > time[j]
  BY <1>3, <1>8
<1>10. CASE i <= n
  <2>1. i \in 1..n /\ EndTime(d, i) = time[i] /\ EndRate(d, i) = PointRate(d, i)
    BY <1>1, <1>2, <1>4, <1>10 DEF EndTime, EndRate
  <2>2. CalculateRateBump(t, d) =
          Interpolate(t, time[i - 1], PointRate(d, i - 1), time[i], PointRate(d, i))
    BY <1>1, <1>3, <1>9, <2>1, RateBetween DEF Inside
  <2> QED BY <1>1, <1>3, <1>4, <1>5, <1>6, <1>7, <2>1, <2>2
<1>11. CASE i = n + 1
  <2>1. /\ EndTime(d, i) = d.start_time + d.duration /\ EndRate(d, i) = 0 /\ i - 1 = n
    BY <1>1, <1>2, <1>11 DEF EndTime, EndRate
  <2>2. \A j \in 1..n : t > time[j]
    BY <1>9, <2>1
  <2>3. CalculateRateBump(t, d) =
          Interpolate(t, time[n], PointRate(d, n), d.start_time + d.duration, 0)
    BY <1>1, <2>2, RateTail DEF Inside
  <2> QED BY <1>1, <1>3, <1>4, <1>5, <1>6, <1>7, <2>1, <2>3
<1> QED BY <1>2, <1>4, <1>10, <1>11

\* The rate is a natural number.
LEMMA RateNatural ==
  ASSUME NEW d \in AuctionDatas, NEW t \in Nat
  PROVE  CalculateRateBump(t, d) \in Nat
<1>1. d.start_time \in Nat /\ d.duration \in Nat /\ d.initial_rate_bump \in Nat
  BY DEF AuctionDatas
<1>2. CASE Inside(t, d)
  <2>1. PICK i : InPiece(t, d, i)
    BY <1>2, SomePiece
  <2> DEFINE t0 == EndTime(d, i - 1)
             t1 == EndTime(d, i)
             r0 == EndRate(d, i - 1)
             r1 == EndRate(d, i)
  <2>2. /\ t0 \in Nat /\ t1 \in Nat /\ t0 < t /\ t <= t1 /\ r0 \in Nat /\ r1 \in Nat
        /\ CalculateRateBump(t, d) = Interpolate(t, t0, r0, t1, r1)
    BY <1>2, <2>1, PieceRate
  <2> HIDE DEF t0, t1, r0, r1
  <2>3. t0 <= t /\ t0 < t1
    BY <2>2
  <2> QED BY <2>2, <2>3, InterpolateFact
<1>3. CASE ~Inside(t, d)
  BY <1>1, <1>3 DEF Inside, CalculateRateBump
<1> QED BY <1>2, <1>3

-----------------------------------------------------------------------------
\* The price of a fill.

\* A quotient that rounds up is no less than the exact one.
LEMMA CeilFact ==
  ASSUME NEW x \in Nat, NEW d \in Nat \ {0}
  PROVE  CeilDiv(x, d) \in Nat /\ CeilDiv(x, d) * d >= x
<1> DEFINE y == x + (d - 1)
           q == y \div d
           r == y % d
<1>1. y \in Nat /\ y = x + d - 1
  OBVIOUS
<1> HIDE DEF y
<1>2. q \in Nat
  BY <1>1, QuotientFact
<1>3. q * d + r = y /\ r \in 0..(d - 1)
  <2>1. y = d * (y \div d) + (y % d) /\ y % d \in 0..(d - 1)
    BY <1>1
  <2>2. q * d = d * q
    BY <1>2, ProductFact
  <2> QED BY <2>1, <2>2
<1>4. q * d \in Nat
  BY <1>2, QuotientFact
<1> HIDE DEF q, r
<1>5. q * d >= x
  BY <1>1, <1>3, <1>4
<1>6. CeilDiv(x, d) = q
  BY DEF CeilDiv, CeilNumerator, q, y
<1> QED BY <1>2, <1>5, <1>6

\* The auction raises an amount or leaves it as it is.
LEMMA RaisedFact ==
  ASSUME NEW x \in Nat, NEW t \in Nat, NEW d \in AuctionDatas
  PROVE  GetDstAmount(x, t, d) \in Nat /\ GetDstAmount(x, t, d) >= x
<1> DEFINE rate == BASE_1E7 + CalculateRateBump(t, d)
           p == x * rate
           y == p + (BASE_1E7 - 1)
<1>1. /\ BASE_1E7 \in Nat \ {0} /\ rate \in Nat /\ BASE_1E7 <= rate
  BY AuctionAssumption, RateNatural
<1>2. GetDstAmount(x, t, d) = y \div BASE_1E7
  BY DEF GetDstAmount, RaisedProduct, CeilDiv, CeilNumerator
<1> HIDE DEF rate
<1>3. p \in Nat /\ BASE_1E7 * x <= p /\ x * BASE_1E7 \in Nat /\ BASE_1E7 * x = x * BASE_1E7
  <2>1. BASE_1E7 * x <= rate * x /\ rate * x = x * rate /\ x * rate \in Nat
    BY <1>1, ProductFact
  <2> QED BY <1>1, <2>1, ProductFact
<1> HIDE DEF p
<1>4. y \in Nat /\ x * BASE_1E7 <= y
  BY <1>1, <1>3
<1> HIDE DEF y
<1>5. y \div BASE_1E7 \in Nat /\ (x * BASE_1E7) \div BASE_1E7 <= y \div BASE_1E7
  BY <1>1, <1>3, <1>4, QuotientFact
<1> QED BY <1>1, <1>2, <1>5, QuotientFact

\* A fill is priced at its share of dst_amount or more.
LEMMA ShareFact ==
  ASSUME NEW dst_amount \in Nat, NEW fill \in Nat, NEW amount \in Nat \ {0}, NEW t \in Nat,
         NEW d \in AuctionDatas,
         NEW price, price = GetDstAmount(ScaledDstAmount(dst_amount, fill, amount), t, d)
  PROVE  price * amount >= dst_amount * fill
<1> DEFINE share == ScaledDstAmount(dst_amount, fill, amount)
<1>1. dst_amount * fill \in Nat
  BY ProductFact
<1>2. share \in Nat /\ share * amount >= dst_amount * fill
  BY <1>1, CeilFact DEF ScaledDstAmount
<1>3. price = GetDstAmount(share, t, d)
  OBVIOUS
<1> HIDE DEF share
<1>4. price \in Nat /\ share <= price
  BY <1>2, <1>3, RaisedFact
<1>5. share * amount <= price * amount /\ share * amount \in Nat /\ price * amount \in Nat
  BY <1>2, <1>4, ProductFact
<1> QED BY <1>1, <1>2, <1>5

-----------------------------------------------------------------------------
\* A curve whose points fall.

Falling(d) == \A i \in 1..Len(d.points) : d.points[i].rate_bump <= PointRate(d, i - 1)

\* Each piece of it ends no higher than it starts,
LEMMA PiecesFall ==
  ASSUME NEW d \in AuctionDatas, Falling(d), NEW n, n = Len(d.points)
  PROVE  \A i \in 1..(n + 1) : EndRate(d, i) <= EndRate(d, i - 1)
<1>1. n \in Nat
  BY AuctionParts
<1>2. \A i \in 0..(n + 1) : EndRate(d, i) \in Nat
  BY EndParts
<1>3. ASSUME NEW i \in 1..(n + 1) PROVE EndRate(d, i) <= EndRate(d, i - 1)
  <2>1. i - 1 \in 0..(n + 1) /\ i - 1 <= n /\ i # 0
    BY <1>1
  <2>2. CASE i <= n
    <3>1. i \in 1..n
      BY <1>1, <2>2
    <3>2. EndRate(d, i) = d.points[i].rate_bump /\ EndRate(d, i - 1) = PointRate(d, i - 1)
      BY <2>1, <2>2 DEF EndRate, PointRate
    <3> QED BY <3>1, <3>2 DEF Falling
  <2>3. CASE ~(i <= n)
    <3>1. EndRate(d, i) = 0
      BY <2>3 DEF EndRate
    <3>2. EndRate(d, i - 1) \in Nat
      BY <1>2, <2>1
    <3> QED BY <3>1, <3>2
  <2> QED BY <2>2, <2>3
<1> QED BY <1>3

\* and so no later end is higher than an earlier one.
LEMMA EndsFall ==
  ASSUME NEW d \in AuctionDatas, Falling(d), NEW n, n = Len(d.points),
         NEW i \in 0..(n + 1), NEW j \in 0..(n + 1), i <= j
  PROVE  EndRate(d, j) <= EndRate(d, i)
<1> DEFINE S == {m \in Nat : i + m <= n + 1 => EndRate(d, i + m) <= EndRate(d, i)}
<1>1. n \in Nat /\ i \in Nat
  BY AuctionParts
<1>2. \A m \in 0..(n + 1) : EndRate(d, m) \in Nat
  BY EndParts
<1>3. \A m \in 1..(n + 1) : EndRate(d, m) <= EndRate(d, m - 1)
  BY PiecesFall
<1>4. 0 \in S
  BY <1>1, <1>2
<1>5. ASSUME NEW m \in Nat, m \in S PROVE m + 1 \in S
  <2>1. CASE i + (m + 1) <= n + 1
    <3> DEFINE x == i + (m + 1)
    <3>1. x \in 1..(n + 1) /\ x - 1 = i + m /\ i + m <= n + 1 /\ i + m \in 0..(n + 1)
          /\ x \in 0..(n + 1)
      BY <1>1, <2>1
    <3>2. EndRate(d, x) <= EndRate(d, i + m)
      BY <1>3, <3>1
    <3>3. EndRate(d, i + m) <= EndRate(d, i)
      BY <1>5, <3>1
    <3>4. EndRate(d, x) \in Nat /\ EndRate(d, i + m) \in Nat /\ EndRate(d, i) \in Nat
      BY <1>2, <3>1
    <3> HIDE DEF x
    <3>5. EndRate(d, x) <= EndRate(d, i)
      BY <3>2, <3>3, <3>4
    <3> QED BY <3>5 DEF x
  <2>2. CASE ~(i + (m + 1) <= n + 1)
    BY <2>2
  <2> QED BY <2>1, <2>2
<1>6. Nat \subseteq S
  <2> HIDE DEF S
  <2> QED BY <1>4, <1>5, SetInduction
<1>7. j - i \in Nat /\ i + (j - i) = j /\ j <= n + 1
  BY <1>1
<1>8. j - i \in S
  <2> HIDE DEF S
  <2> QED BY <1>6, <1>7
<1> QED BY <1>7, <1>8

\* A piece of it does not rise from one second to the next.
LEMMA InterpolateFalls ==
  ASSUME NEW t \in Nat, NEW t0 \in Nat, NEW t1 \in Nat, t0 <= t, t + 1 <= t1,
         NEW r0 \in Nat, NEW r1 \in Nat, r1 <= r0
  PROVE  Interpolate(t + 1, t0, r0, t1, r1) <= Interpolate(t, t0, r0, t1, r1)
<1> DEFINE a == t - t0
           b == t1 - (t + 1)
           d == t1 - t0
           x == a * r1 + (b + 1) * r0
           y == (a + 1) * r1 + b * r0
<1>1. /\ a \in Nat /\ b \in Nat /\ d \in Nat \ {0}
      /\ t1 - t = b + 1 /\ (t + 1) - t0 = a + 1
  OBVIOUS
<1>2. /\ Interpolate(t, t0, r0, t1, r1) = x \div d
      /\ Interpolate(t + 1, t0, r0, t1, r1) = y \div d
  BY <1>1 DEF Interpolate
<1> HIDE DEF a, b, d
<1>3. /\ a * r1 \in Nat /\ b * r0 \in Nat
      /\ (a + 1) * r1 = a * r1 + 1 * r1 /\ (b + 1) * r0 = b * r0 + 1 * r0
      /\ 1 * r1 = r1 /\ 1 * r0 = r0
  BY <1>1, ProductFact
<1>4. x \in Nat /\ y \in Nat /\ y <= x
  BY <1>3
<1> HIDE DEF x, y
<1>5. y \div d <= x \div d
  BY <1>1, <1>4, QuotientFact
<1> QED BY <1>2, <1>5

\* The rate inside of the auction is no higher than where its piece starts, and no
\* lower than where it ends.
LEMMA RateInPiece ==
  ASSUME NEW d \in AuctionDatas, Falling(d), NEW t \in Nat, Inside(t, d),
         NEW i, InPiece(t, d, i)
  PROVE  /\ CalculateRateBump(t, d) <= EndRate(d, i - 1)
         /\ EndRate(d, i) <= CalculateRateBump(t, d)
<1> DEFINE n == Len(d.points)
           t0 == EndTime(d, i - 1)
           t1 == EndTime(d, i)
           r0 == EndRate(d, i - 1)
           r1 == EndRate(d, i)
<1>1. /\ i \in Nat /\ i >= 1 /\ i <= n + 1
      /\ t0 \in Nat /\ t1 \in Nat /\ t0 < t /\ t <= t1 /\ r0 \in Nat /\ r1 \in Nat
      /\ CalculateRateBump(t, d) = Interpolate(t, t0, r0, t1, r1)
  BY PieceRate
<1>2. n \in Nat
  BY AuctionParts
<1>3. r1 <= r0
  <2>1. i \in 1..(n + 1)
    BY <1>1, <1>2
  <2>2. \A m \in 1..(n + 1) : EndRate(d, m) <= EndRate(d, m - 1)
    BY PiecesFall
  <2> HIDE DEF n
  <2> QED BY <2>1, <2>2
<1>4. /\ CalculateRateBump(t, d) = Interpolate(t, t0, r0, t1, r1)
      /\ t0 \in Nat /\ t1 \in Nat /\ t0 <= t /\ t <= t1 /\ t0 < t1
      /\ r0 \in Nat /\ r1 \in Nat /\ r1 <= r0
  BY <1>1, <1>3
<1> HIDE DEF t0, t1, r0, r1, n
<1>5. r1 <= Interpolate(t, t0, r0, t1, r1) /\ Interpolate(t, t0, r0, t1, r1) <= r0
  BY <1>4, InterpolateFact
<1>6. r1 <= CalculateRateBump(t, d) /\ CalculateRateBump(t, d) <= r0
  BY <1>4, <1>5
<1> QED BY <1>6 DEF r0, r1

\* The rate of a falling curve is never above its first one,
LEMMA RateBelowInitial ==
  ASSUME NEW d \in AuctionDatas, Falling(d), NEW t \in Nat
  PROVE  CalculateRateBump(t, d) <= d.initial_rate_bump
<1>1. d.start_time \in Nat /\ d.duration \in Nat /\ d.initial_rate_bump \in Nat
  BY DEF AuctionDatas
<1>2. CASE Inside(t, d)
  <2> DEFINE n == Len(d.points)
  <2>1. PICK i : InPiece(t, d, i)
    BY <1>2, SomePiece
  <2>2. CalculateRateBump(t, d) <= EndRate(d, i - 1)
    BY <1>2, <2>1, RateInPiece
  <2>3. n \in Nat /\ i \in 1..(n + 1)
    BY <2>1, AuctionParts DEF InPiece
  <2>4. i - 1 \in 0..(n + 1) /\ 0 \in 0..(n + 1) /\ 0 <= i - 1
    BY <2>3
  <2>5. EndRate(d, i - 1) <= EndRate(d, 0)
    <3>1. n = Len(d.points)
      OBVIOUS
    <3> HIDE DEF n
    <3> QED BY <2>4, <3>1, EndsFall
  <2>6. /\ EndRate(d, 0) = d.initial_rate_bump /\ EndRate(d, i - 1) \in Nat
        /\ CalculateRateBump(t, d) \in Nat
    BY <2>4, EndParts, RateNatural
  <2> QED BY <1>1, <2>2, <2>5, <2>6
<1>3. CASE ~Inside(t, d)
  BY <1>1, <1>3 DEF Inside, CalculateRateBump
<1> QED BY <1>2, <1>3

\* and never rises.
LEMMA RateNeverRises ==
  ASSUME NEW d \in AuctionDatas, Falling(d), NEW t \in Nat
  PROVE  CalculateRateBump(t + 1, d) <= CalculateRateBump(t, d)
<1> DEFINE n == Len(d.points)
           x == CalculateRateBump(t, d)
           y == CalculateRateBump(t + 1, d)
<1>1. d.start_time \in Nat /\ d.duration \in Nat /\ d.initial_rate_bump \in Nat
  BY DEF AuctionDatas
<1>2. x \in Nat /\ y \in Nat /\ t + 1 \in Nat
  BY RateNatural
<1>3. CASE t <= d.start_time
  <2>1. x = d.initial_rate_bump
    BY <1>3 DEF CalculateRateBump
  <2> QED BY <1>2, <2>1, RateBelowInitial
<1>4. CASE t + 1 >= d.start_time + d.duration /\ ~(t <= d.start_time)
  <2>1. y = 0
    BY <1>1, <1>4 DEF CalculateRateBump
  <2> QED BY <1>2, <2>1
<1>5. CASE Inside(t, d) /\ Inside(t + 1, d)
  <2>1. PICK i : InPiece(t, d, i)
    BY <1>5, SomePiece
  <2>2. PICK j : InPiece(t + 1, d, j)
    BY <1>2, <1>5, SomePiece
  <2>3. n \in Nat /\ i \in 1..(n + 1) /\ j \in 1..(n + 1)
    BY <2>1, <2>2, AuctionParts DEF InPiece
  <2>4. \A m \in 0..(n + 1) : EndTime(d, m) \in Nat /\ EndRate(d, m) \in Nat
    BY EndParts
  <2>5. i <= j
    <3> SUFFICES ASSUME j < i PROVE FALSE
      BY <2>3
    <3>1. j \in 1..(i - 1) /\ j \in 0..(n + 1)
      BY <2>3
    <3>2. t > EndTime(d, j) /\ t + 1 <= EndTime(d, j) /\ EndTime(d, j) \in Nat
      BY <2>1, <2>2, <2>4, <3>1 DEF InPiece
    <3> QED BY <3>2
  <2>6. CASE i = j
    <3> DEFINE t0 == EndTime(d, i - 1)
               t1 == EndTime(d, i)
               r0 == EndRate(d, i - 1)
               r1 == EndRate(d, i)
    <3>1. /\ t0 \in Nat /\ t1 \in Nat /\ t0 < t /\ r0 \in Nat /\ r1 \in Nat
          /\ x = Interpolate(t, t0, r0, t1, r1)
      BY <1>5, <2>1, PieceRate
    <3>2. t + 1 <= t1 /\ y = Interpolate(t + 1, t0, r0, t1, r1)
      BY <1>2, <1>5, <2>2, <2>6, PieceRate
    <3>3. r1 <= r0
      BY <2>3, PiecesFall
    <3>4. t0 <= t
      BY <3>1
    <3> HIDE DEF t0, t1, r0, r1, x, y
    <3>5. y <= x
      BY <3>1, <3>2, <3>3, <3>4, InterpolateFalls
    <3> QED BY <3>5 DEF x, y
  <2>7. CASE i # j
    <3>1. y <= EndRate(d, j - 1) /\ EndRate(d, i) <= x
      BY <1>2, <1>5, <2>1, <2>2, RateInPiece
    <3>2. i \in 0..(n + 1) /\ j - 1 \in 0..(n + 1) /\ i <= j - 1
      BY <2>3, <2>5, <2>7
    <3>3. EndRate(d, j - 1) <= EndRate(d, i)
      BY <3>2, EndsFall
    <3>4. EndRate(d, j - 1) \in Nat /\ EndRate(d, i) \in Nat
      BY <2>4, <3>2
    <3> HIDE DEF x, y
    <3>5. y <= x
      BY <1>2, <3>1, <3>3, <3>4
    <3> QED BY <3>5 DEF x, y
  <2> QED BY <2>6, <2>7
<1>6. \/ t <= d.start_time
      \/ t + 1 >= d.start_time + d.duration /\ ~(t <= d.start_time)
      \/ Inside(t, d) /\ Inside(t + 1, d)
  BY <1>1 DEF Inside
<1> QED BY <1>3, <1>4, <1>5, <1>6

=============================================================================
