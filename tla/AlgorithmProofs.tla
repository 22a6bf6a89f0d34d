---------------------------- MODULE AlgorithmProofs ----------------------------
(***************************************************************************)
(* Proofs about the pure algorithms, for every input: the loop that finds  *)
(* the rate of an auction, the Merkle tree of an order's secrets and the   *)
(* packed word of the timelocks.                                           *)
(***************************************************************************)
EXTENDS RateBumpLoop, PackedTimelocks, MerkleTree, AuctionProofs

-----------------------------------------------------------------------------
\* The bytes of a rate.

\* A number is made of one quotient and one remainder only.
LEMMA QuotientUnique ==
  ASSUME NEW c \in Nat \ {0}, NEW p \in Nat, NEW r \in 0..(c - 1), NEW v, v = p * c + r
  PROVE  v \in Nat /\ v \div c = p /\ v % c = r
<1> DEFINE w == v \div c
           m == v % c
<1>1. p * c \in Nat /\ (p + 1) * c = p * c + c /\ r \in Nat /\ r < c
  <2>1. p * c \in Nat /\ (p + 1) * c = p * c + 1 * c /\ 1 * c = c
    BY ProductFact
  <2> QED BY <2>1
<1>2. v \in Nat
  BY <1>1
<1>3. w \in Nat /\ m \in 0..(c - 1) /\ v = c * w + m
  BY <1>2
<1> HIDE DEF w, m
<1>4. w * c \in Nat /\ c * w = w * c /\ (w + 1) * c = w * c + c
  <2>1. w * c \in Nat /\ c * w = w * c /\ (w + 1) * c = w * c + 1 * c /\ 1 * c = c
    BY <1>3, ProductFact
  <2> QED BY <2>1
<1>5. v = w * c + m /\ m \in Nat /\ m < c
  BY <1>3, <1>4
<1>6. ~(w < p)
  <2> SUFFICES ASSUME w + 1 <= p PROVE FALSE
    BY <1>3
  <2>1. (w + 1) * c <= p * c
    BY <1>3, ProductFact
  <2> QED BY <1>1, <1>4, <1>5, <2>1
<1>7. ~(p < w)
  <2> SUFFICES ASSUME p + 1 <= w PROVE FALSE
    BY <1>3
  <2>1. (p + 1) * c <= w * c
    BY <1>3, ProductFact
  <2> QED BY <1>1, <1>4, <1>5, <2>1
<1>8. w = p
  BY <1>3, <1>6, <1>7
<1>9. m = r
  BY <1>1, <1>5, <1>8
<1> QED BY <1>2, <1>8, <1>9 DEF w, m

\* Two quotients, one after the other, and their remainders.
LEMMA DigitsFact ==
  ASSUME NEW v \in Nat, NEW b \in Nat \ {0}
  PROVE  v = (v \div (b * b)) * (b * b) + ((v \div b) % b) * b + (v % b)
<1> DEFINE q == v \div b
           r == v % b
           p == q \div b
           s == q % b
<1>1. q \in Nat /\ r \in 0..(b - 1) /\ v = b * q + r
  OBVIOUS
<1> HIDE DEF q, r
<1>2. p \in Nat /\ s \in 0..(b - 1) /\ q = b * p + s
  BY <1>1
<1> HIDE DEF p, s
<1> DEFINE c == b * b
           low == s * b + r
<1>3. c \in Nat \ {0} /\ p * c \in Nat /\ s * b \in Nat
  <2>1. c \in Nat /\ s \in Nat
    BY <1>2, ProductFact
  <2>2. 1 <= b /\ 1 * b <= b * b /\ 1 * b = b
    BY ProductFact
  <2> QED BY <1>2, <2>1, <2>2, ProductFact
<1>4. b * q = p * c + s * b
  <2>1. b * q = q * b /\ b * p = p * b /\ p * b \in Nat
    BY <1>1, <1>2, ProductFact
  <2>2. q * b = (p * b) * b + s * b
    BY <1>2, <2>1, ProductFact
  <2>3. (p * b) * b = p * c
    BY <1>2
  <2> QED BY <2>1, <2>2, <2>3
<1>5. low \in 0..(c - 1)
  <2>1. (s + 1) * b = s * b + b /\ (s + 1) * b <= b * b
    BY <1>2, ProductFact
  <2> QED BY <1>1, <1>2, <1>3, <2>1
<1>6. v = p * c + low
  BY <1>1, <1>3, <1>4
<1> HIDE DEF low
<1>7. v \div c = p
  <2> HIDE DEF c
  <2> QED BY <1>2, <1>3, <1>5, <1>6, QuotientUnique
<1>8. v = p * c + s * b + r
  <2>1. v = p * c + (s * b + r)
    BY <1>6 DEF low
  <2>2. p * c \in Nat /\ s * b \in Nat /\ r \in Nat
    BY <1>1, <1>3
  <2> HIDE DEF c
  <2> QED BY <2>1, <2>2
<1> QED BY <1>7, <1>8 DEF c, q, r, p, s

\* What the program reads from three bytes is what was written there.
LEMMA U24Fact ==
  ASSUME NEW v \in Nat
  PROVE  ToU64(FromU32(v)) = v
<1>1. BYTE \in Nat \ {0}
  BY RateBumpLoopAssumption
<1>2. v = (v \div (BYTE * BYTE)) * (BYTE * BYTE) + ((v \div BYTE) % BYTE) * BYTE + (v % BYTE)
  BY <1>1, DigitsFact
<1>3. ToU64(FromU32(v)) =
        (v \div (BYTE * BYTE)) * (BYTE * BYTE) + ((v \div BYTE) % BYTE) * BYTE + (v % BYTE)
  BY DEF ToU64, FromU32
<1> QED BY <1>2, <1>3

-----------------------------------------------------------------------------
\* The loop.

\* The loop is at the point "next", has passed those before it and carries the
\* time and the rate of the last of them.
LoopInv ==
  /\ timestamp \in Nat /\ data \in AuctionDatas
  /\ step \in {"checks", "points", "returned"}
  /\ next \in 1..(Len(data.points) + 1)
  /\ current_rate_bump = PointRate(data, next - 1)
  /\ current_point_time = PointTime(data)[next - 1]
  /\ step = "checks" => next = 1
  /\ step = "points" => /\ Inside(timestamp, data)
                        /\ \A j \in 1..(next - 1) : timestamp > PointTime(data)[j]
  /\ step = "returned" => answer = CalculateRateBump(timestamp, data)

\* What it knows of the point that it is at, and of the one before.
LEMMA LoopFact ==
  ASSUME LoopInv, NEW n, n = Len(data.points), NEW time, time = PointTime(data)
  PROVE  /\ n \in Nat /\ next \in Nat /\ next >= 1
         /\ data.start_time \in Nat /\ data.duration \in Nat
         /\ time[next - 1] \in Nat /\ time[0] = data.start_time
         /\ next <= n => /\ next_point_time = time[next] /\ time[next] \in Nat
                         /\ next_rate_bump = PointRate(data, next)
         /\ initial_rate_bump = data.initial_rate_bump
<1>1. data \in AuctionDatas
  BY DEF LoopInv
<1>2. /\ n \in Nat /\ data.start_time \in Nat /\ data.duration \in Nat
      /\ \A i \in 0..n : PointRate(data, i) \in Nat
  BY <1>1, AuctionParts
<1>3. /\ time[0] = data.start_time
      /\ \A i \in 1..n : time[i] = time[i - 1] + data.points[i].time_delta
      /\ \A i \in 0..n : time[i] \in Nat
  BY <1>1, PointTimes
<1>4. next \in Nat /\ next >= 1 /\ next - 1 \in 0..n
  BY <1>2 DEF LoopInv
<1>5. initial_rate_bump = data.initial_rate_bump
  <2>1. data.initial_rate_bump \in Nat
    BY <1>1 DEF AuctionDatas
  <2> QED BY <2>1, U24Fact DEF initial_rate_bump
<1>6. ASSUME next <= n
      PROVE  /\ next_point_time = time[next] /\ time[next] \in Nat
             /\ next_rate_bump = PointRate(data, next)
  <2>1. next \in 1..n /\ next \in 0..n /\ next # 0
    BY <1>2, <1>4, <1>6
  <2>2. next_point_time = time[next]
    BY <1>3, <2>1 DEF next_point_time, LoopInv
  <2>3. PointRate(data, next) = data.points[next].rate_bump
    BY <2>1 DEF PointRate
  <2>4. next_rate_bump = PointRate(data, next)
    BY <1>2, <2>1, <2>3, U24Fact DEF next_rate_bump
  <2> QED BY <1>3, <2>1, <2>2, <2>4
<1> QED BY <1>2, <1>3, <1>4, <1>5, <1>6

\* The loop starts at the first point.
LEMMA LoopInit == AuctionInit => LoopInv
<1> SUFFICES ASSUME AuctionInit PROVE LoopInv
  OBVIOUS
<1>1. timestamp \in Nat /\ data \in AuctionDatas
  BY RateBumpLoopAssumption DEF AuctionInit
<1>2. Len(data.points) \in Nat
  BY <1>1, AuctionParts
<1>3. PointTime(data)[0] = data.start_time
  BY <1>1, PointTimes
<1>4. initial_rate_bump = data.initial_rate_bump
  <2>1. data.initial_rate_bump \in Nat
    BY <1>1 DEF AuctionDatas
  <2> QED BY <2>1, U24Fact DEF initial_rate_bump
<1>5. next = 1 /\ next - 1 = 0
  BY DEF AuctionInit
<1> QED BY <1>1, <1>2, <1>3, <1>4, <1>5 DEF AuctionInit, LoopInv, PointRate

\* Every iteration and every return keep the invariant.
LEMMA LoopNext == LoopInv /\ [AuctionNext]_auctionVars => LoopInv'
<1> SUFFICES ASSUME LoopInv, [AuctionNext]_auctionVars PROVE LoopInv'
  OBVIOUS
<1> DEFINE n == Len(data.points)
           time == PointTime(data)
           rate == CalculateRateBump(timestamp, data)
<1>1. /\ n \in Nat /\ next \in Nat /\ next >= 1
      /\ data.start_time \in Nat /\ data.duration \in Nat
      /\ time[next - 1] \in Nat /\ time[0] = data.start_time
      /\ next <= n => /\ next_point_time = time[next] /\ time[next] \in Nat
                      /\ next_rate_bump = PointRate(data, next)
      /\ initial_rate_bump = data.initial_rate_bump
  BY LoopFact
<1>2. timestamp \in Nat /\ data \in AuctionDatas /\ next \in 1..(n + 1)
  BY DEF LoopInv
<1>3. ASSUME Return(rate) PROVE LoopInv'
  BY <1>3 DEF Return, LoopInv
<1>4. CASE ReturnInitial
  <2>1. initial_rate_bump = rate
    BY <1>1, <1>4 DEF ReturnInitial, NotStarted, CalculateRateBump
  <2> QED BY <1>3, <1>4, <2>1 DEF ReturnInitial
<1>5. CASE ReturnZero
  <2>1. 0 = rate
    BY <1>1, <1>2, <1>5 DEF ReturnZero, NotStarted, Finished, auction_finish_time, CalculateRateBump
  <2> QED BY <1>3, <1>5, <2>1 DEF ReturnZero
<1>6. CASE EnterLoop
  <2>1. Inside(timestamp, data)
    BY <1>1, <1>2, <1>6 DEF EnterLoop, NotStarted, Finished, auction_finish_time, Inside
  <2>2. next = 1
    BY <1>6 DEF EnterLoop, LoopInv
  <2> QED BY <1>6, <2>1, <2>2 DEF EnterLoop, LoopInv
<1>7. CASE ReturnBetween
  <2>1. step = "points" /\ next <= n /\ timestamp <= time[next]
    BY <1>1, <1>7 DEF ReturnBetween, AtPoint
  <2>2. /\ Inside(timestamp, data) /\ \A j \in 1..(next - 1) : timestamp > time[j]
        /\ current_rate_bump = PointRate(data, next - 1) /\ current_point_time = time[next - 1]
    BY <2>1 DEF LoopInv
  <2>3. next \in 1..n
    BY <1>1, <2>1
  <2>4. rate = Interpolate(timestamp, time[next - 1], PointRate(data, next - 1),
                           time[next], PointRate(data, next))
    <3>1. timestamp > data.start_time /\ timestamp < data.start_time + data.duration
      BY <2>2 DEF Inside
    <3>2. n = Len(data.points) /\ time = PointTime(data)
      OBVIOUS
    <3> HIDE DEF n, time
    <3> QED BY <1>2, <2>1, <2>2, <2>3, <3>1, <3>2, RateBetween
  <2>5. rate = Interpolate(timestamp, current_point_time, current_rate_bump,
                           next_point_time, next_rate_bump)
    BY <1>1, <2>1, <2>2, <2>4
  <2> HIDE DEF rate
  <2> QED BY <1>3, <1>7, <2>5 DEF ReturnBetween
<1>8. CASE PassPoint
  <2>1. /\ step = "points" /\ next <= n /\ timestamp > time[next]
        /\ current_rate_bump' = PointRate(data, next) /\ current_point_time' = time[next]
        /\ next' = next + 1 /\ UNCHANGED <<timestamp, data, step, answer>>
    BY <1>1, <1>8 DEF PassPoint, AtPoint
  <2>2. next' - 1 = next /\ next' \in 1..(n + 1) /\ next' # 1
    BY <1>1, <2>1
  <2>3. ASSUME NEW j \in 1..(next' - 1) PROVE timestamp > time[j]
    <3>1. CASE j = next
      BY <2>1, <3>1
    <3>2. CASE j # next
      <4>1. j \in 1..next
        BY <2>2
      <4>2. j \in 1..(next - 1)
        BY <1>1, <3>2, <4>1
      <4> QED BY <2>1, <4>2 DEF LoopInv
    <3> QED BY <3>1, <3>2
  <2> QED BY <1>2, <2>1, <2>2, <2>3 DEF LoopInv
<1>9. CASE ReturnTail
  <2>1. step = "points" /\ next > n
    BY <1>9 DEF ReturnTail
  <2>2. /\ Inside(timestamp, data) /\ \A j \in 1..(next - 1) : timestamp > time[j]
        /\ current_rate_bump = PointRate(data, next - 1) /\ current_point_time = time[next - 1]
    BY <2>1 DEF LoopInv
  <2>3. next - 1 = n
    BY <1>1, <1>2, <2>1
  <2>4. rate = Interpolate(timestamp, time[n], PointRate(data, n),
                           data.start_time + data.duration, 0)
    <3>1. timestamp > data.start_time /\ timestamp < data.start_time + data.duration
      BY <2>2 DEF Inside
    <3>2. \A j \in 1..n : timestamp > time[j]
      BY <2>2, <2>3
    <3>3. n = Len(data.points) /\ time = PointTime(data)
      OBVIOUS
    <3> HIDE DEF n, time
    <3> QED BY <1>2, <3>1, <3>2, <3>3, RateTail
  <2>5. rate = Interpolate(timestamp, current_point_time, current_rate_bump,
                           auction_finish_time, 0)
    BY <2>2, <2>3, <2>4 DEF auction_finish_time
  <2> HIDE DEF rate
  <2> QED BY <1>3, <1>9, <2>5 DEF ReturnTail
<1>10. CASE UNCHANGED auctionVars
  BY <1>10 DEF auctionVars, LoopInv
<1> QED BY <1>4, <1>5, <1>6, <1>7, <1>8, <1>9, <1>10 DEF AuctionNext

\* The invariant of the loop.
LEMMA LoopInvariant == AuctionSpec => []LoopInv
BY LoopInit, LoopNext, PTL DEF AuctionSpec

\* For every auction and every moment, the loop returns the value of the curve that
\* the escrow program's model uses, whatever points coincide or lie past the end
\* (auction.rs:17-54).
THEOREM LoopReturnsCurve == AuctionSpec => []LoopComputesRate
<1>1. LoopInv => LoopComputesRate
  BY DEF LoopInv, LoopComputesRate
<1> QED BY <1>1, LoopInvariant, PTL

\* In the loop the moment lies strictly between the point before and the auction's
\* end: no divisor is zero and no subtraction underflows (auction.rs:36, 49).
THEOREM LoopStaysInside == AuctionSpec => []LoopInsideAuction
<1>1. ASSUME LoopInv, step = "points"
      PROVE  current_point_time < timestamp /\ timestamp < auction_finish_time
  <2> DEFINE time == PointTime(data)
  <2>1. next \in Nat /\ next >= 1 /\ time[0] = data.start_time
    BY <1>1, LoopFact
  <2>2. /\ Inside(timestamp, data) /\ \A j \in 1..(next - 1) : timestamp > time[j]
        /\ current_point_time = time[next - 1]
        /\ timestamp \in Nat
    BY <1>1 DEF LoopInv
  <2>3. timestamp > data.start_time /\ timestamp < auction_finish_time
    BY <2>2 DEF Inside, auction_finish_time
  <2>4. timestamp > time[next - 1]
    <3>1. CASE next = 1
      <4>1. next - 1 = 0
        BY <3>1
      <4> QED BY <2>1, <2>3, <4>1
    <3>2. CASE next # 1
      <4>1. next - 1 \in 1..(next - 1)
        BY <2>1, <3>2
      <4> QED BY <2>2, <4>1
    <3> QED BY <3>1, <3>2
  <2> HIDE DEF time
  <2> QED BY <2>2, <2>3, <2>4
<1>2. LoopInv => LoopInsideAuction
  BY <1>1 DEF LoopInsideAuction
<1> QED BY <1>2, LoopInvariant, PTL

\* A curve whose points fall never rises from one second to the next, rounding
\* included, and never exceeds its first rate.
THEOREM CurvesFall == AuctionSpec => []RateFalls
<1>1. ASSUME LoopInv, step = "returned", FallingPoints
      PROVE  /\ answer <= data.initial_rate_bump
             /\ CalculateRateBump(timestamp + 1, data) <= answer
  <2>1. /\ timestamp \in Nat /\ data \in AuctionDatas
        /\ answer = CalculateRateBump(timestamp, data)
    BY <1>1 DEF LoopInv
  <2>2. Falling(data)
    <3>1. DOMAIN data.points = 1..Len(data.points)
      BY <2>1 DEF AuctionDatas
    <3> QED BY <1>1, <3>1 DEF FallingPoints, Falling
  <2> QED BY <2>1, <2>2, RateBelowInitial, RateNeverRises
<1>2. LoopInv => RateFalls
  BY <1>1 DEF RateFalls
<1> QED BY <1>2, LoopInvariant, PTL

-----------------------------------------------------------------------------
\* Recursive functions.

\* A recursion on the naturals below a bound has a solution.
LEMMA RecursionExists ==
  ASSUME NEW N \in Nat, NEW a \in Nat, NEW next_of \in [1..N -> [Nat -> Nat]]
  PROVE  \E f \in [0..N -> Nat] : f[0] = a /\ \A i \in 1..N : f[i] = next_of[i][f[i - 1]]
<1> DEFINE Solves(f, n) == /\ f \in [0..n -> Nat] /\ f[0] = a
                           /\ \A i \in 1..n : f[i] = next_of[i][f[i - 1]]
           S == {n \in Nat : n <= N => \E f : Solves(f, n)}
<1>1. 0 \in S
  <2> DEFINE f == [i \in 0..0 |-> a]
  <2>1. f \in [0..0 -> Nat] /\ f[0] = a
    <3>1. a \in Nat /\ 0 \in 0..0
      OBVIOUS
    <3> QED BY ONLY <3>1 DEF f
  <2>2. 1..0 = {}
    OBVIOUS
  <2>3. Solves(f, 0)
    BY <2>1, <2>2
  <2> HIDE DEF f, Solves
  <2> QED BY <2>3
<1>2. ASSUME NEW n \in Nat, n \in S PROVE n + 1 \in S
  <2> SUFFICES ASSUME n + 1 <= N PROVE \E g : Solves(g, n + 1)
    <3> HIDE DEF Solves
    <3> QED OBVIOUS
  <2>0. \E f : Solves(f, n)
    <3>1. n <= N
      OBVIOUS
    <3> HIDE DEF Solves
    <3> QED BY <1>2, <3>1
  <2>1. PICK f \in [0..n -> Nat] : f[0] = a /\ \A i \in 1..n : f[i] = next_of[i][f[i - 1]]
    BY <2>0
  <2> DEFINE g == [i \in 0..(n + 1) |-> IF i = n + 1 THEN next_of[n + 1][f[n]] ELSE f[i]]
  <2>2. n + 1 \in 1..N /\ n \in 0..n /\ f[n] \in Nat
    OBVIOUS
  <2>3. next_of[n + 1][f[n]] \in Nat
    <3>1. next_of[n + 1] \in [Nat -> Nat]
      BY <2>2
    <3> QED BY <2>2, <3>1
  <2>4. g \in [0..(n + 1) -> Nat]
    <3>1. \A i \in 0..(n + 1) : i = n + 1 \/ f[i] \in Nat
      OBVIOUS
    <3> QED BY <2>3, <3>1
  <2>5. g[0] = a
    BY <2>1
  <2>6. ASSUME NEW i \in 1..(n + 1) PROVE g[i] = next_of[i][g[i - 1]]
    <3>1. i - 1 \in 0..n /\ i - 1 \in 0..(n + 1) /\ i - 1 # n + 1
      OBVIOUS
    <3>2. g[i - 1] = f[i - 1]
      BY <3>1
    <3>3. CASE i = n + 1
      <4>1. i - 1 = n /\ g[i] = next_of[n + 1][f[n]]
        BY <3>3
      <4> HIDE DEF g
      <4> QED BY <3>2, <3>3, <4>1
    <3>4. CASE i \in 1..n
      <4>1. i # n + 1 /\ i \in 0..(n + 1)
        BY <3>4
      <4>2. g[i] = f[i]
        BY <4>1
      <4> HIDE DEF g
      <4> QED BY <2>1, <3>2, <3>4, <4>2
    <3> QED BY <3>3, <3>4
  <2>7. Solves(g, n + 1)
    <3> HIDE DEF g
    <3> QED BY <2>4, <2>5, <2>6
  <2> HIDE DEF g, Solves
  <2> QED BY <2>7
<1>3. N \in S
  <2> HIDE DEF S
  <2> QED BY <1>1, <1>2, SetInduction
<1>4. PICK f : Solves(f, N)
  <2> HIDE DEF Solves
  <2> QED BY <1>3
<1> QED BY <1>4

-----------------------------------------------------------------------------
\* The tree.

\* A level has nodes, numbered from 1.
IsLevel(s) == \E m \in Nat \ {0} : Len(s) = m /\ DOMAIN s = 1..m

\* A function on the first numbers is a sequence.
LEMMA SequenceFact ==
  ASSUME NEW m \in Nat \ {0}, NEW s, s = [n \in 1..m |-> s[n]]
  PROVE  IsLevel(s) /\ Len(s) = m
<1> DEFINE R == {s[n] : n \in 1..m}
<1>1. s \in [1..m -> R]
  OBVIOUS
<1>2. s \in Seq(R)
  <2> HIDE DEF R
  <2> QED BY <1>1
<1>3. DOMAIN s = 1..m
  OBVIOUS
<1>4. Len(s) = m
  <2> HIDE DEF R
  <2> QED BY <1>1, <1>2, <1>3
<1> QED BY <1>3, <1>4 DEF IsLevel

LeafLevel == [n \in DOMAIN tree |-> HashLeaf(n - 1, tree[n])]

\* The level above a level.
Above(s) == IF Len(s) = 1 THEN s ELSE HashLevel(s)

AreLevels(f) == f = [d \in 0..Len(tree) |-> IF d = 0 THEN LeafLevel ELSE Above(f[d - 1])]

\* Levels satisfies its recursive definition.
LEMMA LevelsExist ==
  ASSUME Len(tree) \in Nat
  PROVE  AreLevels(Levels)
<1> DEFINE N == Len(tree)
           Step(f, d) == IF d = 0 THEN LeafLevel ELSE Above(f[d - 1])
           S == {n \in Nat : \E f : f = [d \in 0..n |-> Step(f, d)]}
<1>1. 0 \in S
  <2> DEFINE f == [d \in 0..0 |-> LeafLevel]
  <2>1. f = [d \in 0..0 |-> Step(f, d)]
    OBVIOUS
  <2> QED BY <2>1
<1>2. ASSUME NEW n \in Nat, n \in S PROVE n + 1 \in S
  <2>1. PICK f : f = [d \in 0..n |-> Step(f, d)]
    BY <1>2
  <2> DEFINE g == [d \in 0..(n + 1) |-> IF d = n + 1 THEN Above(f[n]) ELSE f[d]]
  <2>2. ASSUME NEW d \in 0..(n + 1) PROVE g[d] = Step(g, d)
    <3>1. CASE d = n + 1
      <4>1. d # 0 /\ d - 1 = n /\ n \in 0..(n + 1) /\ n # n + 1
        BY <3>1
      <4>2. g[n] = f[n]
        BY <4>1
      <4> QED BY <3>1, <4>1, <4>2
    <3>2. CASE d = 0
      <4>1. f[0] = LeafLevel /\ 0 # n + 1
        BY <2>1
      <4> QED BY <3>2, <4>1
    <3>3. CASE d \in 1..n
      <4>1. d # n + 1 /\ d - 1 \in 0..(n + 1) /\ d - 1 # n + 1 /\ d \in 0..n /\ d # 0
        BY <3>3
      <4>2. f[d] = Above(f[d - 1])
        <5>1. f[d] = Step(f, d)
          BY <2>1, <4>1
        <5> QED BY <4>1, <5>1
      <4>3. g[d] = f[d] /\ g[d - 1] = f[d - 1]
        BY <4>1
      <4> HIDE DEF g
      <4> QED BY <4>1, <4>2, <4>3
    <3> QED BY <3>1, <3>2, <3>3
  <2>3. g = [d \in 0..(n + 1) |-> Step(g, d)]
    <3>1. \A d \in 0..(n + 1) : g[d] = Step(g, d)
      BY <2>2
    <3>2. g = [d \in 0..(n + 1) |-> g[d]]
      OBVIOUS
    <3> HIDE DEF g
    <3> QED BY <3>1, <3>2
  <2> HIDE DEF g, Step
  <2> QED BY <2>3
<1>3. N \in S
  <2> HIDE DEF S
  <2> QED BY <1>1, <1>2, SetInduction
<1>4. PICK f : AreLevels(f)
  BY <1>3 DEF AreLevels
<1> QED BY <1>4 DEF AreLevels, Levels, LeafLevel, Above

Nodes == UNION {{Levels[d][n] : n \in DOMAIN Levels[d]} : d \in 0..Len(tree)}

Leaf(i, h) == i < Len(tree) /\ h = tree[i + 1]

\* A node is a leaf or the hash of a node with another one or with zero.
IsNode(x) ==
  \/ \E n \in 1..Len(tree) : x = HashLeaf(n - 1, tree[n])
  \/ \E a \in Nodes, b \in Nodes \cup {ZERO} : x = HashPair(a, b)

\* The tree is one of the maker's.
LEMMA TreeParts ==
  ASSUME tree \in Trees
  PROVE  Len(tree) \in Nat \ {0} /\ DOMAIN tree = 1..Len(tree)
BY MerkleAssumption

\* A level that is made of another has half as many nodes, each the hash of two.
LEMMA HashLevelFact ==
  ASSUME NEW s, IsLevel(s), Len(s) # 1
  PROVE  /\ IsLevel(HashLevel(s))
         /\ \A n \in DOMAIN HashLevel(s) :
              \E i \in DOMAIN s :
                \/ HashLevel(s)[n] = HashPair(s[i], ZERO)
                \/ \E j \in DOMAIN s : HashLevel(s)[n] = HashPair(s[i], s[j])
<1> DEFINE m == Len(s)
           half == (m + 1) \div 2
           t == HashLevel(s)
<1>1. m \in Nat \ {0} /\ DOMAIN s = 1..m
  BY DEF IsLevel
<1>2. t = [n \in 1..half |->
             HashPair(s[2 * n - 1], IF 2 * n <= m THEN s[2 * n] ELSE ZERO)]
  BY DEF HashLevel
<1> HIDE DEF m, t
<1>3. half \in Nat \ {0} /\ \A n \in 1..half : 2 * n - 1 \in 1..m
  BY <1>1
<1> HIDE DEF half
<1>4. t = [n \in 1..half |-> t[n]] /\ DOMAIN t = 1..half
  BY <1>2
<1>5. IsLevel(t)
  BY <1>3, <1>4, SequenceFact
<1>6. ASSUME NEW n \in 1..half
      PROVE  \E i \in DOMAIN s :
               \/ t[n] = HashPair(s[i], ZERO)
               \/ \E j \in DOMAIN s : t[n] = HashPair(s[i], s[j])
  <2>1. 2 * n - 1 \in DOMAIN s
    BY <1>1, <1>3
  <2>2. CASE 2 * n <= m
    <3>1. 2 * n \in DOMAIN s
      BY <1>1, <1>3, <2>2
    <3>2. t[n] = HashPair(s[2 * n - 1], s[2 * n])
      BY <1>2, <2>2
    <3> QED BY <2>1, <3>1, <3>2
  <2>3. CASE ~(2 * n <= m)
    <3>1. t[n] = HashPair(s[2 * n - 1], ZERO)
      BY <1>2, <2>3
    <3> QED BY <2>1, <3>1
  <2> QED BY <2>2, <2>3
<1> QED BY <1>4, <1>5, <1>6 DEF t

\* Every level is one, and made of nodes.
LEMMA LevelFact ==
  ASSUME tree \in Trees
  PROVE  \A d \in 0..Len(tree) :
           IsLevel(Levels[d]) /\ \A n \in DOMAIN Levels[d] : IsNode(Levels[d][n])
<1> DEFINE N == Len(tree)
           Good(s) == IsLevel(s) /\ \A n \in DOMAIN s : IsNode(s[n])
           S == {d \in Nat : d <= N => Good(Levels[d])}
<1>1. N \in Nat \ {0} /\ DOMAIN tree = 1..N
  BY TreeParts
<1>2. /\ Levels[0] = LeafLevel
      /\ \A d \in 0..N : d # 0 => Levels[d] = Above(Levels[d - 1])
  <2>1. Levels = [d \in 0..N |-> IF d = 0 THEN LeafLevel ELSE Above(Levels[d - 1])]
    BY <1>1, LevelsExist DEF AreLevels
  <2>2. 0 \in 0..N
    BY <1>1
  <2> QED BY <2>1, <2>2
<1>3. 0 \in S
  <2>1. LeafLevel = [n \in 1..N |-> HashLeaf(n - 1, tree[n])]
    BY <1>1 DEF LeafLevel
  <2>2. LeafLevel = [n \in 1..N |-> LeafLevel[n]] /\ DOMAIN LeafLevel = 1..N
    BY <2>1
  <2>3. IsLevel(LeafLevel)
    BY <1>1, <2>2, SequenceFact
  <2>4. \A n \in 1..N : IsNode(LeafLevel[n])
    BY <2>1 DEF IsNode
  <2> QED BY <1>2, <2>2, <2>3, <2>4
<1>4. ASSUME NEW d \in Nat, d \in S PROVE d + 1 \in S
  <2>1. CASE d + 1 <= N
    <3> DEFINE s == Levels[d]
    <3>1. d \in 0..N /\ d + 1 \in 0..N /\ d + 1 # 0 /\ (d + 1) - 1 = d /\ d <= N
      BY <1>1, <2>1
    <3>2. Good(s)
      BY <1>4, <3>1
    <3>3. Levels[d + 1] = Above(s)
      BY <1>2, <3>1
    <3>4. \A n \in DOMAIN s : s[n] \in Nodes
      BY <3>1 DEF Nodes
    <3> HIDE DEF s
    <3>5. CASE Len(s) = 1
      <4>1. Levels[d + 1] = s
        BY <3>3, <3>5 DEF Above
      <4> QED BY <3>2, <4>1
    <3>6. CASE Len(s) # 1
      <4> DEFINE t == HashLevel(s)
      <4>1. Levels[d + 1] = t
        BY <3>3, <3>6 DEF Above
      <4>2. /\ IsLevel(t)
            /\ \A n \in DOMAIN t :
                 \E i \in DOMAIN s :
                   \/ t[n] = HashPair(s[i], ZERO)
                   \/ \E j \in DOMAIN s : t[n] = HashPair(s[i], s[j])
        BY <3>2, <3>6, HashLevelFact
      <4> HIDE DEF t
      <4>3. ASSUME NEW n \in DOMAIN t PROVE IsNode(t[n])
        <5>1. PICK i \in DOMAIN s :
                \/ t[n] = HashPair(s[i], ZERO)
                \/ \E j \in DOMAIN s : t[n] = HashPair(s[i], s[j])
          BY <4>2
        <5> QED BY <3>4, <5>1 DEF IsNode
      <4> QED BY <4>1, <4>2, <4>3
    <3> QED BY <3>5, <3>6
  <2>2. CASE ~(d + 1 <= N)
    BY <2>2
  <2> QED BY <2>1, <2>2
<1>5. Nat \subseteq S
  <2> HIDE DEF S
  <2> QED BY <1>3, <1>4, SetInduction
<1> QED BY <1>1, <1>5

\* So are all nodes, and the root is one of them.
LEMMA NodeFact ==
  ASSUME tree \in Trees
  PROVE  (\A x \in Nodes : IsNode(x)) /\ Root \in Nodes
<1>1. \A d \in 0..Len(tree) :
        IsLevel(Levels[d]) /\ \A n \in DOMAIN Levels[d] : IsNode(Levels[d][n])
  BY LevelFact
<1>2. \A x \in Nodes : IsNode(x)
  BY <1>1 DEF Nodes
<1>3. Len(tree) \in 0..Len(tree)
  BY TreeParts
<1>4. 1 \in DOMAIN Levels[Len(tree)]
  BY <1>1, <1>3 DEF IsLevel
<1>5. Root \in Nodes
  BY <1>3, <1>4 DEF Nodes, Root
<1> QED BY <1>2, <1>5

\* A digest that is computed from a leaf is a node only if the leaf is one of the
\* tree's.
ClimbInv ==
  /\ tree \in Trees /\ index \in Nat
  /\ computed_hash # ZERO
  /\ computed_hash \in Nodes => Leaf(index, hashed_secret)

\* No proof, however long and whatever its elements, makes a hashed secret pass for
\* one that is not in the tree at that index (process_proof, and create_escrow's
\* comparison with the order's hashlock).
THEOREM OnlyLeavesProven == MerkleSpec => []OnlyLeavesVerify
<1>1. ASSUME MerkleInit PROVE ClimbInv
  <2>1. tree \in Trees /\ index \in 0..Len(tree) /\ computed_hash = HashLeaf(index, hashed_secret)
    BY <1>1 DEF MerkleInit
  <2>2. computed_hash # ZERO
    BY <2>1 DEF HashLeaf, ZERO
  <2>3. Len(tree) \in Nat
    BY <2>1, TreeParts
  <2>4. ASSUME computed_hash \in Nodes PROVE Leaf(index, hashed_secret)
    <3>1. IsNode(computed_hash)
      BY <2>1, <2>4, NodeFact
    <3>2. \A a, b : computed_hash # HashPair(a, b)
      BY <2>1 DEF HashLeaf, HashPair
    <3>3. PICK n \in 1..Len(tree) : computed_hash = HashLeaf(n - 1, tree[n])
      BY <3>1, <3>2 DEF IsNode
    <3>4. index = n - 1 /\ hashed_secret = tree[n]
      BY <2>1, <3>3 DEF HashLeaf
    <3> QED BY <2>3, <3>4 DEF Leaf
  <2> QED BY <2>1, <2>2, <2>3, <2>4 DEF ClimbInv
<1>2. ASSUME ClimbInv, NEW e, Climb(e) PROVE ClimbInv'
  <2>1. /\ UNCHANGED <<tree, index, hashed_secret>>
        /\ computed_hash' = HashPair(e, computed_hash)
    BY <1>2 DEF Climb
  <2>2. Nodes' = Nodes
    BY <2>1 DEF Nodes, Levels
  <2>3. computed_hash' # ZERO
    BY <2>1 DEF HashPair, ZERO
  <2>4. ASSUME computed_hash' \in Nodes PROVE computed_hash \in Nodes
    <3>1. IsNode(computed_hash')
      BY <1>2, <2>4, NodeFact DEF ClimbInv
    <3>2. \A i, h : computed_hash' # HashLeaf(i, h)
      BY <2>1 DEF HashLeaf, HashPair
    <3>3. PICK a \in Nodes, b \in Nodes \cup {ZERO} : computed_hash' = HashPair(a, b)
      BY <3>1, <3>2 DEF IsNode
    <3>4. {e, computed_hash} = {a, b}
      BY <2>1, <3>3 DEF HashPair
    <3>5. computed_hash \in {a, b}
      BY <3>4
    <3> QED BY <1>2, <3>3, <3>5 DEF ClimbInv
  <2> QED BY <1>2, <2>1, <2>2, <2>3, <2>4 DEF ClimbInv, Leaf
<1>3. ASSUME ClimbInv, UNCHANGED merkleVars PROVE ClimbInv'
  <2>1. UNCHANGED <<tree, index, hashed_secret, computed_hash>>
    BY <1>3 DEF merkleVars
  <2>2. Nodes' = Nodes
    BY <2>1 DEF Nodes, Levels
  <2> QED BY <1>3, <2>1, <2>2 DEF ClimbInv, Leaf
<1>4. ClimbInv /\ [MerkleNext]_merkleVars => ClimbInv'
  BY <1>2, <1>3 DEF MerkleNext
<1>5. ClimbInv => OnlyLeavesVerify
  BY NodeFact DEF ClimbInv, OnlyLeavesVerify, Verified, Leaf
<1> QED BY <1>1, <1>4, <1>5, PTL DEF MerkleSpec

\* Levels one by one.
LEMMA LevelsFact ==
  ASSUME tree \in Trees
  PROVE  /\ Levels[0] = LeafLevel
         /\ \A d \in 0..(Len(tree) - 1) : Levels[d + 1] = Above(Levels[d])
<1>1. Len(tree) \in Nat \ {0}
  BY TreeParts
<1>2. Levels = [d \in 0..Len(tree) |-> IF d = 0 THEN LeafLevel ELSE Above(Levels[d - 1])]
  BY <1>1, LevelsExist DEF AreLevels
<1>3. 0 \in 0..Len(tree)
  BY <1>1
<1>4. Levels[0] = LeafLevel
  BY <1>2, <1>3
<1>5. ASSUME NEW d \in 0..(Len(tree) - 1) PROVE Levels[d + 1] = Above(Levels[d])
  <2>1. d + 1 \in 0..Len(tree) /\ d + 1 # 0 /\ (d + 1) - 1 = d
    BY <1>1
  <2>2. Levels[d + 1] = IF d + 1 = 0 THEN LeafLevel ELSE Above(Levels[(d + 1) - 1])
    BY ONLY <1>2, <2>1
  <2> QED BY <2>1, <2>2
<1> QED BY <1>4, <1>5

\* The nodes of a level that is made of another, with their halves in order.
LEMMA PairFact ==
  ASSUME NEW s, NEW m \in Nat, m > 1, Len(s) = m, DOMAIN s = 1..m, NEW a \in 0..(m - 1)
  PROVE  /\ Len(HashLevel(s)) = (m + 1) \div 2
         /\ a \div 2 \in 0..((m + 1) \div 2 - 1)
         /\ HashLevel(s)[a \div 2 + 1] =
              HashPair(IF a % 2 = 1 THEN s[a] ELSE IF a + 1 = m THEN ZERO ELSE s[a + 2],
                       s[a + 1])
<1> DEFINE half == (m + 1) \div 2
           t == HashLevel(s)
           n == a \div 2 + 1
<1>1. t = [i \in 1..half |-> HashPair(s[2 * i - 1], IF 2 * i <= m THEN s[2 * i] ELSE ZERO)]
  BY DEF HashLevel
<1>2. half \in Nat \ {0} /\ n \in 1..half /\ a \div 2 \in 0..(half - 1)
  OBVIOUS
<1> HIDE DEF half, t, n
<1>3. Len(t) = half
  <2>1. t = [i \in 1..half |-> t[i]]
    BY <1>1
  <2> QED BY <1>2, <2>1, SequenceFact
<1>4. t[n] = HashPair(s[2 * n - 1], IF 2 * n <= m THEN s[2 * n] ELSE ZERO)
  BY <1>1, <1>2
<1>5. CASE a % 2 = 1
  <2>1. 2 * n - 1 = a /\ 2 * n = a + 1 /\ a + 1 <= m
    BY <1>5 DEF n
  <2>2. t[n] = HashPair(s[a], s[a + 1])
    BY <1>4, <2>1
  <2> QED BY <1>2, <1>3, <1>5, <2>2 DEF half, t, n
<1>6. CASE a % 2 # 1
  <2>1. 2 * n - 1 = a + 1 /\ 2 * n = a + 2 /\ (a + 2 <= m <=> a + 1 # m)
    BY <1>6 DEF n
  <2> DEFINE x == IF a + 1 = m THEN ZERO ELSE s[a + 2]
  <2>2. t[n] = HashPair(s[a + 1], x)
    BY <1>4, <2>1
  <2>3. t[n] = HashPair(x, s[a + 1])
    <3> HIDE DEF x
    <3>1. {s[a + 1], x} = {x, s[a + 1]}
      OBVIOUS
    <3> QED BY <2>2, <3>1 DEF HashPair
  <2> QED BY <1>2, <1>3, <1>6, <2>3 DEF half, t, n
<1> QED BY <1>5, <1>6

\* A level has one node or more.
LEMMA OneOrMore == \A m \in Nat \ {0} : (m = 1 \/ m > 1) /\ (m > 1 => m # 1)
OBVIOUS

\* A level has fewer nodes than the one below it until it has one only.
LEMMA LevelsShrink ==
  ASSUME tree \in Trees
  PROVE  Len(Levels[Len(tree)]) = 1
<1> DEFINE N == Len(tree)
           Shrunk(d) == Len(Levels[d]) = 1 \/ Len(Levels[d]) + d <= N
           S == {d \in Nat : d <= N => Shrunk(d)}
<1>1. N \in Nat \ {0} /\ DOMAIN tree = 1..N
  BY TreeParts
<1>2. \A d \in 0..N : IsLevel(Levels[d])
  BY LevelFact
<1>3. 0 \in S
  <2>1. LeafLevel = [n \in 1..N |-> HashLeaf(n - 1, tree[n])]
    BY <1>1 DEF LeafLevel
  <2>2. LeafLevel = [n \in 1..N |-> LeafLevel[n]]
    BY <2>1
  <2>3. Len(LeafLevel) = N
    BY <1>1, <2>2, SequenceFact
  <2> QED BY <1>1, <2>3, LevelsFact
<1>4. ASSUME NEW d \in Nat, d \in S PROVE d + 1 \in S
  <2> SUFFICES ASSUME d + 1 <= N PROVE Shrunk(d + 1)
    <3> HIDE DEF Shrunk
    <3> QED OBVIOUS
  <2> DEFINE s == Levels[d]
             m == Len(s)
  <2>1. d \in 0..N /\ d \in 0..(N - 1) /\ d <= N
    BY <1>1
  <2>2. m \in Nat \ {0} /\ DOMAIN s = 1..m
    BY <1>2, <2>1 DEF IsLevel
  <2>3. Levels[d + 1] = Above(s)
    BY <2>1, LevelsFact
  <2>4. m = 1 \/ m + d <= N
    <3>1. Shrunk(d)
      <4> HIDE DEF Shrunk
      <4> QED BY <1>4, <2>1
    <3> QED BY <3>1
  <2> HIDE DEF s
  <2>5. CASE m = 1
    <3>1. Levels[d + 1] = s
      BY <2>3, <2>5 DEF Above
    <3> QED BY <2>5, <3>1
  <2>6. CASE m > 1
    <3>1. Levels[d + 1] = HashLevel(s)
      BY <2>2, <2>3, <2>6, OneOrMore DEF Above
    <3>2. 0 \in 0..(m - 1)
      BY <2>6
    <3>3. Len(HashLevel(s)) = (m + 1) \div 2
      BY <2>2, <2>6, <3>2, PairFact
    <3> HIDE DEF m
    <3>4. (m + 1) \div 2 <= m - 1
      BY <2>2, <2>6
    <3>5. (m + 1) \div 2 \in Nat
      BY <2>2
    <3>6. m + d <= N
      BY <2>4, <2>6
    <3>7. (m + 1) \div 2 + (d + 1) <= N
      BY ONLY <1>1, <2>2, <3>4, <3>5, <3>6, d \in Nat
    <3>8. Len(Levels[d + 1]) = (m + 1) \div 2
      BY <3>1, <3>3
    <3> QED BY ONLY <3>7, <3>8 DEF Shrunk
  <2>7. m = 1 \/ m > 1
    BY <2>2, OneOrMore
  <2> HIDE DEF m, Shrunk
  <2> QED BY <2>5, <2>6, <2>7
<1>5. N \in S
  <2> HIDE DEF S
  <2> QED BY <1>1, <1>3, <1>4, SetInduction
<1>6. Len(Levels[N]) = 1 \/ Len(Levels[N]) + N <= N
  BY <1>1, <1>5
<1>7. Len(Levels[N]) \in Nat \ {0}
  BY <1>1, <1>2 DEF IsLevel
<1> QED BY <1>1, <1>6, <1>7

\* The height is that of the first level of one node, which is the root's.
LEMMA HeightFact ==
  ASSUME tree \in Trees
  PROVE  /\ Height \in 0..Len(tree)
         /\ Len(Levels[Height]) = 1
         /\ \A d \in 0..(Height - 1) : Len(Levels[d]) > 1
         /\ Levels[Height][1] = Root
<1> DEFINE N == Len(tree)
           First(d) == Len(Levels[d]) = 1 /\ \A e \in 0..(d - 1) : Len(Levels[e]) > 1
           S == {n \in Nat : n <= N => \/ \E d \in 0..n : First(d)
                                       \/ \A e \in 0..n : Len(Levels[e]) > 1}
<1>1. N \in Nat \ {0}
  BY TreeParts
<1>2. \A d \in 0..N : Len(Levels[d]) = 1 \/ Len(Levels[d]) > 1
  <2> TAKE d \in 0..N
  <2>1. IsLevel(Levels[d])
    BY LevelFact
  <2>2. Len(Levels[d]) \in Nat \ {0}
    BY <2>1 DEF IsLevel
  <2> QED BY ONLY <2>2, OneOrMore
<1>3. 0 \in S
  <2>1. 0 \in 0..N /\ \A e \in 0..0 : e = 0
    BY <1>1
  <2>2. 0..(0 - 1) = {} /\ 0 \in 0..0
    OBVIOUS
  <2> QED BY <1>2, <2>1, <2>2
<1>4. ASSUME NEW n \in Nat, n \in S PROVE n + 1 \in S
  <2> SUFFICES ASSUME n + 1 <= N
               PROVE  \/ \E d \in 0..(n + 1) : First(d)
                      \/ \A e \in 0..(n + 1) : Len(Levels[e]) > 1
    OBVIOUS
  <2>1. n <= N /\ n + 1 \in 0..N /\ (n + 1) - 1 = n
    BY <1>1
  <2>2. CASE \E d \in 0..n : First(d)
    <3>1. \A d \in 0..n : d \in 0..(n + 1)
      OBVIOUS
    <3> HIDE DEF First
    <3> QED BY <2>2, <3>1
  <2>3. CASE \A e \in 0..n : Len(Levels[e]) > 1
    <3>1. \A e \in 0..(n + 1) : e \in 0..n \/ e = n + 1
      OBVIOUS
    <3>2. n + 1 \in 0..(n + 1)
      OBVIOUS
    <3>3. CASE Len(Levels[n + 1]) = 1
      <4>1. First(n + 1)
        BY <2>1, <2>3, <3>3
      <4> HIDE DEF First
      <4> QED BY <3>2, <4>1
    <3>4. CASE Len(Levels[n + 1]) > 1
      BY <2>3, <3>1, <3>4
    <3> QED BY <1>2, <2>1, <3>3, <3>4
  <2>4. (\E d \in 0..n : First(d)) \/ \A e \in 0..n : Len(Levels[e]) > 1
    <3> HIDE DEF First
    <3> QED BY <1>4, <2>1
  <2> QED BY <2>2, <2>3, <2>4
<1>5. N \in S
  <2> HIDE DEF S
  <2> QED BY <1>1, <1>3, <1>4, SetInduction
<1>6. \E d \in 0..N : First(d)
  <2>1. N \in 0..N /\ N <= N
    BY <1>1
  <2>2. ~(Len(Levels[N]) > 1)
    <3>1. Len(Levels[N]) = 1
      BY LevelsShrink
    <3> QED BY ONLY <3>1
  <2> HIDE DEF First
  <2> QED BY <1>5, <2>1, <2>2
<1>7. Height \in 0..N /\ First(Height)
  BY <1>6 DEF Height
<1> DEFINE T == {n \in Nat : Height + n <= N => Levels[Height + n] = Levels[Height]}
<1> HIDE DEF First
<1>8. 0 \in T
  BY <1>7
<1>9. ASSUME NEW n \in Nat, n \in T PROVE n + 1 \in T
  <2> SUFFICES ASSUME Height + (n + 1) <= N PROVE Levels[Height + (n + 1)] = Levels[Height]
    OBVIOUS
  <2>1. Height + n \in 0..(N - 1) /\ Height + n <= N /\ (Height + n) + 1 = Height + (n + 1)
    BY <1>1, <1>7
  <2>2. Levels[Height + n] = Levels[Height]
    BY <1>9, <2>1
  <2>3. Levels[Height + (n + 1)] = Above(Levels[Height])
    BY <2>1, <2>2, LevelsFact
  <2>4. Len(Levels[Height]) = 1
    BY <1>7 DEF First
  <2> QED BY <2>3, <2>4 DEF Above
<1>10. Levels[N] = Levels[Height]
  <2>1. N - Height \in Nat /\ Height + (N - Height) = N /\ N <= N
    BY <1>1, <1>7
  <2>2. N - Height \in T
    <3> HIDE DEF T
    <3> QED BY <1>8, <1>9, <2>1, SetInduction
  <2> QED BY <2>1, <2>2
<1> QED BY <1>7, <1>10 DEF First, Root

\* The way from a leaf halves its place on each level.
LEMMA WayFact ==
  ASSUME tree \in Trees, NEW i \in Nat
  PROVE  /\ Way(i)[0] = i
         /\ \A d \in 0..Len(tree) : Way(i)[d] \in Nat
         /\ \A d \in 0..(Len(tree) - 1) : Way(i)[d + 1] = Way(i)[d] \div 2
<1> DEFINE N == Len(tree)
           IsWay(f) == f = [d \in 0..N |-> IF d = 0 THEN i ELSE f[d - 1] \div 2]
           next_of == [d \in 1..N |-> [x \in Nat |-> x \div 2]]
           w == Way(i)
<1>1. N \in Nat
  BY TreeParts
<1>2. next_of \in [1..N -> [Nat -> Nat]]
  OBVIOUS
<1>3. PICK f \in [0..N -> Nat] : f[0] = i /\ \A d \in 1..N : f[d] = next_of[d][f[d - 1]]
  <2> HIDE DEF next_of, N
  <2> QED BY ONLY <1>1, <1>2, i \in Nat, RecursionExists
<1>4. \A d \in 1..N : f[d] = f[d - 1] \div 2
  <2> TAKE d \in 1..N
  <2>1. d - 1 \in 0..N
    BY <1>1
  <2>2. f[d - 1] \in Nat
    BY <2>1
  <2> QED BY <1>3, <2>2
<1>5. IsWay(f)
  <2>1. \A d \in 0..N : d # 0 => d \in 1..N
    BY <1>1
  <2>2. f = [d \in 0..N |-> f[d]]
    OBVIOUS
  <2>3. \A d \in 0..N : f[d] = IF d = 0 THEN i ELSE f[d - 1] \div 2
    BY <1>3, <1>4, <2>1
  <2> QED BY <2>2, <2>3
<1>6. IsWay(w)
  BY <1>5 DEF Way
<1> HIDE DEF w
<1>7. w[0] = i
  BY <1>1, <1>6
<1>8. ASSUME NEW d \in 0..(N - 1) PROVE w[d + 1] = w[d] \div 2
  <2>1. d + 1 \in 0..N /\ d + 1 # 0 /\ (d + 1) - 1 = d
    BY <1>1
  <2>2. w[d + 1] = IF d + 1 = 0 THEN i ELSE w[(d + 1) - 1] \div 2
    BY ONLY <1>6, <2>1
  <2> QED BY <2>1, <2>2
<1> DEFINE S == {d \in Nat : d <= N => w[d] \in Nat}
<1>9. 0 \in S
  BY <1>7
<1>10. ASSUME NEW d \in Nat, d \in S PROVE d + 1 \in S
  <2> SUFFICES ASSUME d + 1 <= N PROVE w[d + 1] \in Nat
    OBVIOUS
  <2>1. d \in 0..(N - 1) /\ d <= N
    BY <1>1
  <2>2. w[d] \in Nat
    BY <1>10, <2>1
  <2> QED BY <1>8, <2>1, <2>2
<1>11. \A d \in 0..N : w[d] \in Nat
  <2>1. Nat \subseteq S
    <3> HIDE DEF S
    <3> QED BY <1>9, <1>10, SetInduction
  <2> QED BY <1>1, <2>1
<1> QED BY <1>7, <1>8, <1>11 DEF w

\* The way stays inside the tree.
LEMMA WayInside ==
  ASSUME tree \in Trees, NEW i \in 0..(Len(tree) - 1)
  PROVE  \A d \in 0..Height : Way(i)[d] \in 0..(Len(Levels[d]) - 1)
<1> DEFINE N == Len(tree)
           w == Way(i)
           S == {d \in Nat : d <= Height => w[d] \in 0..(Len(Levels[d]) - 1)}
<1>1. N \in Nat \ {0} /\ DOMAIN tree = 1..N
  BY TreeParts
<1>2. Height \in 0..N /\ \A d \in 0..(Height - 1) : Len(Levels[d]) > 1
  BY HeightFact
<1>3. w[0] = i /\ \A d \in 0..(N - 1) : w[d + 1] = w[d] \div 2
  <2>1. i \in Nat
    BY <1>1
  <2> QED BY <2>1, WayFact
<1> HIDE DEF w
<1>4. 0 \in S
  <2>1. LeafLevel = [n \in 1..N |-> HashLeaf(n - 1, tree[n])]
    BY <1>1 DEF LeafLevel
  <2>2. LeafLevel = [n \in 1..N |-> LeafLevel[n]]
    BY <2>1
  <2>3. Len(LeafLevel) = N
    BY <1>1, <2>2, SequenceFact
  <2> QED BY <1>1, <1>3, <2>3, LevelsFact
<1>5. ASSUME NEW d \in Nat, d \in S PROVE d + 1 \in S
  <2> SUFFICES ASSUME d + 1 <= Height PROVE w[d + 1] \in 0..(Len(Levels[d + 1]) - 1)
    OBVIOUS
  <2> DEFINE s == Levels[d]
             m == Len(s)
             a == w[d]
  <2>1. d \in 0..N /\ d \in 0..(N - 1) /\ d \in 0..(Height - 1) /\ d <= Height
    BY <1>1, <1>2
  <2>2. m \in Nat /\ m > 1 /\ DOMAIN s = 1..m
    BY <1>2, <2>1, LevelFact DEF IsLevel
  <2>3. Levels[d + 1] = Above(s)
    BY <2>1, LevelsFact
  <2>4. a \in 0..(m - 1)
    BY <1>5, <2>1
  <2>5. w[d + 1] = a \div 2
    BY <1>3, <2>1
  <2> HIDE DEF s, a
  <2>6. Levels[d + 1] = HashLevel(s)
    BY <2>2, <2>3 DEF Above
  <2>7. Len(HashLevel(s)) = (m + 1) \div 2 /\ a \div 2 \in 0..((m + 1) \div 2 - 1)
    BY <2>2, <2>4, PairFact
  <2> QED BY <2>5, <2>6, <2>7
<1>6. Nat \subseteq S
  <2> HIDE DEF S
  <2> QED BY <1>4, <1>5, SetInduction
<1> QED BY <1>2, <1>6 DEF w

\* An element of the proof takes the node on the way to the next one.
LEMMA ProofFact ==
  ASSUME tree \in Trees, NEW i \in 0..(Len(tree) - 1), NEW d \in 0..(Height - 1)
  PROVE  Levels[d + 1][Way(i)[d + 1] + 1] =
           HashPair(GetProof(i)[d + 1], Levels[d][Way(i)[d] + 1])
<1> DEFINE N == Len(tree)
           s == Levels[d]
           m == Len(s)
           a == Way(i)[d]
<1>1. N \in Nat \ {0}
  BY TreeParts
<1>2. Height \in 0..N /\ m > 1
  BY HeightFact
<1>3. /\ d \in 0..N /\ d \in 0..(N - 1) /\ d \in 0..Height /\ d + 1 \in 1..Height
      /\ (d + 1) - 1 = d /\ i \in Nat
  BY <1>1, <1>2
<1>4. m \in Nat /\ DOMAIN s = 1..m
  BY <1>3, LevelFact DEF IsLevel
<1>5. a \in 0..(m - 1)
  BY <1>3, WayInside
<1>6. Way(i)[d + 1] = a \div 2
  BY <1>3, WayFact
<1>7. GetProof(i)[d + 1] = IF a % 2 = 1 THEN s[a] ELSE IF a + 1 = m THEN ZERO ELSE s[a + 2]
  <2> DEFINE Sibling(e) == IF Way(i)[e - 1] % 2 = 1 THEN Levels[e - 1][Way(i)[e - 1]]
                           ELSE IF Way(i)[e - 1] + 1 = Len(Levels[e - 1]) THEN ZERO
                           ELSE Levels[e - 1][Way(i)[e - 1] + 2]
  <2>1. GetProof(i) = [e \in 1..Height |-> Sibling(e)]
    BY DEF GetProof
  <2>2. GetProof(i)[d + 1] = Sibling(d + 1)
    <3> HIDE DEF Sibling
    <3> QED BY <1>3, <2>1
  <2> QED BY <1>3, <2>2
<1>8. Levels[d + 1] = HashLevel(s)
  <2>1. Levels[d + 1] = Above(s)
    BY <1>3, LevelsFact
  <2>2. Len(s) # 1
    <3>1. m # 1
      <4> HIDE DEF m, s
      <4> QED BY ONLY <1>2, <1>4, OneOrMore
    <3> QED BY ONLY <3>1
  <2> QED BY ONLY <2>1, <2>2 DEF Above
<1> HIDE DEF s, a
<1>9. HashLevel(s)[a \div 2 + 1] =
        HashPair(IF a % 2 = 1 THEN s[a] ELSE IF a + 1 = m THEN ZERO ELSE s[a + 2], s[a + 1])
  BY <1>2, <1>4, <1>5, PairFact
<1> QED BY <1>6, <1>7, <1>8, <1>9 DEF s, a

\* The first elements of the proof that is made for an index.
OnTheWay ==
  /\ Leaf(index, hashed_secret)
  /\ Len(proof) <= Height
  /\ \A d \in 1..Len(proof) : proof[d] = GetProof(index)[d]

\* A leaf of the tree climbs the way to the root as long as the elements are those
\* of its proof.
WayInv ==
  /\ tree \in Trees /\ index \in Nat /\ proof \in Seq(Digests)
  /\ OnTheWay => computed_hash = Levels[Len(proof)][Way(index)[Len(proof)] + 1]

\* Every hashed secret of every tree is verified by the proof that is made for it
\* (process_proof, with the pairs in either order and zero for a missing sibling).
THEOREM EveryLeafProven == MerkleSpec => []EveryLeafVerifies
<1>1. ASSUME MerkleInit PROVE WayInv
  <2>1. /\ tree \in Trees /\ index \in 0..Len(tree) /\ proof = <<>>
        /\ computed_hash = HashLeaf(index, hashed_secret)
    BY <1>1 DEF MerkleInit
  <2>2. Len(tree) \in Nat /\ DOMAIN tree = 1..Len(tree)
    BY <2>1, TreeParts
  <2>3. index \in Nat /\ proof \in Seq(Digests) /\ Len(proof) = 0
    BY <2>1, <2>2
  <2>4. ASSUME OnTheWay PROVE computed_hash = Levels[0][Way(index)[0] + 1]
    <3>1. index + 1 \in 1..Len(tree) /\ (index + 1) - 1 = index /\ hashed_secret = tree[index + 1]
      BY <2>2, <2>3, <2>4 DEF OnTheWay, Leaf
    <3>2. LeafLevel[index + 1] = HashLeaf(index, hashed_secret)
      BY <2>2, <3>1 DEF LeafLevel
    <3>3. Levels[0] = LeafLevel /\ Way(index)[0] = index
      BY <2>1, <2>3, LevelsFact, WayFact
    <3> QED BY <2>1, <3>2, <3>3
  <2> QED BY <2>1, <2>3, <2>4 DEF WayInv
<1>2. ASSUME WayInv, NEW e \in Digests, Climb(e) PROVE WayInv'
  <2> DEFINE n == Len(proof)
  <2>1. /\ tree' = tree /\ index' = index /\ hashed_secret' = hashed_secret
        /\ proof' = Append(proof, e)
        /\ computed_hash' = HashPair(e, computed_hash)
    BY <1>2 DEF Climb
  <2>2. Levels' = Levels
    BY <2>1 DEF Levels
  <2>3. Height' = Height /\ \A i : Way(i)' = Way(i)
    BY <2>1, <2>2 DEF Height, Way
  <2>4. Digests' = Digests /\ GetProof(index)' = GetProof(index)
    BY <2>1, <2>2, <2>3 DEF Digests, GetProof
  <2>5. tree \in Trees /\ index \in Nat /\ proof \in Seq(Digests)
    BY <1>2 DEF WayInv
  <2>6. /\ n \in Nat /\ proof' \in Seq(Digests) /\ Len(proof') = n + 1 /\ proof'[n + 1] = e
        /\ \A d \in 1..n : proof'[d] = proof[d]
    <3> HIDE DEF Digests
    <3> QED BY <2>1, <2>5
  <2>7. ASSUME OnTheWay'
        PROVE  computed_hash' = Levels[n + 1][Way(index)[n + 1] + 1]
    <3>1. /\ Leaf(index, hashed_secret) /\ n + 1 <= Height
          /\ \A d \in 1..(n + 1) : proof'[d] = GetProof(index)[d]
      BY <2>1, <2>3, <2>4, <2>6, <2>7 DEF OnTheWay, Leaf
    <3>2. Height \in Nat
      BY <2>5, HeightFact, TreeParts
    <3>3. OnTheWay
      <4>1. \A d \in 1..n : d \in 1..(n + 1)
        BY <2>6
      <4>2. n <= Height
        BY <2>6, <3>1, <3>2
      <4>3. \A d \in 1..n : proof[d] = GetProof(index)[d]
        BY <2>6, <3>1, <4>1
      <4> QED BY <3>1, <4>2, <4>3 DEF OnTheWay
    <3>4. computed_hash = Levels[n][Way(index)[n] + 1]
      BY <1>2, <3>3 DEF WayInv
    <3>5. index \in 0..(Len(tree) - 1) /\ n \in 0..(Height - 1) /\ n + 1 \in 1..(n + 1)
      BY <2>5, <2>6, <3>1, <3>2, TreeParts DEF Leaf
    <3>6. e = GetProof(index)[n + 1]
      BY <2>6, <3>1, <3>5
    <3>7. Levels[n + 1][Way(index)[n + 1] + 1] =
            HashPair(GetProof(index)[n + 1], Levels[n][Way(index)[n] + 1])
      BY <2>5, <3>5, ProofFact
    <3> QED BY <2>1, <3>4, <3>6, <3>7
  <2>8. computed_hash' = (Levels[Len(proof)][Way(index)[Len(proof)] + 1])'
        <=> computed_hash' = Levels[n + 1][Way(index)[n + 1] + 1]
    BY <2>1, <2>2, <2>3, <2>6
  <2> QED BY <2>1, <2>4, <2>5, <2>6, <2>7, <2>8 DEF WayInv
<1>3. ASSUME WayInv, UNCHANGED merkleVars PROVE WayInv'
  <2>1. UNCHANGED <<tree, index, hashed_secret, proof, computed_hash>>
    BY <1>3 DEF merkleVars
  <2>2. Levels' = Levels
    BY <2>1 DEF Levels
  <2>3. Height' = Height /\ \A i : Way(i)' = Way(i)
    BY <2>1, <2>2 DEF Height, Way
  <2>4. Digests' = Digests /\ GetProof(index)' = GetProof(index)
    BY <2>1, <2>2, <2>3 DEF Digests, GetProof
  <2>5. OnTheWay' = OnTheWay
    BY <2>1, <2>3, <2>4 DEF OnTheWay, Leaf
  <2> QED BY <1>3, <2>1, <2>2, <2>3, <2>4, <2>5 DEF WayInv
<1>4. WayInv /\ [MerkleNext]_merkleVars => WayInv'
  BY <1>2, <1>3 DEF MerkleNext
<1>5. ASSUME WayInv PROVE EveryLeafVerifies
  <2> SUFFICES ASSUME Leaf(index, hashed_secret), proof = GetProof(index) PROVE Verified
    BY DEF EveryLeafVerifies, Leaf
  <2>1. tree \in Trees /\ index \in Nat /\ proof \in Seq(Digests)
    BY <1>5 DEF WayInv
  <2>2. Height \in 0..Len(tree) /\ Len(Levels[Height]) = 1 /\ Levels[Height][1] = Root
    BY <2>1, HeightFact
  <2>3. Len(tree) \in Nat /\ Height \in Nat
    BY <2>1, <2>2, TreeParts
  <2>4. DOMAIN proof = 1..Height
    BY DEF GetProof
  <2>5. Len(proof) = Height
    <3>1. Len(proof) \in Nat /\ DOMAIN proof = 1..Len(proof)
      <4> HIDE DEF Digests
      <4> QED BY ONLY <2>1
    <3> QED BY ONLY <2>3, <2>4, <3>1
  <2>6. OnTheWay
    BY <2>3, <2>5 DEF OnTheWay
  <2>7. index \in 0..(Len(tree) - 1) /\ Height \in 0..Height
    BY <2>1, <2>3 DEF Leaf
  <2>8. Way(index)[Height] \in 0..(Len(Levels[Height]) - 1)
    BY <2>1, <2>7, WayInside
  <2>9. Way(index)[Height] + 1 = 1
    BY <2>2, <2>8
  <2> QED BY <1>5, <2>2, <2>5, <2>6, <2>9 DEF WayInv, Verified
<1> QED BY <1>1, <1>4, <1>5, PTL DEF MerkleSpec

-----------------------------------------------------------------------------
\* The packed word.

\* The stages of the word, and the width of its fields.
LEMMA StageOrderFact ==
  /\ DEPLOYED_AT = 7 /\ FIELD \in Nat \ {0} /\ U32 = 0..(FIELD - 1)
  /\ \A n \in 1..7 : StageOrder[n] \in Stages
<1>1. MAX_U32 \in Nat
  BY WidthsAssumption
<1>2. \A n \in 1..7 : n \in {1, 2, 3, 4, 5, 6, 7}
  OBVIOUS
<1> QED BY <1>1, <1>2 DEF DEPLOYED_AT, FIELD, U32, StageOrder, Stages

\* The weights of the fields.
LEMMA PlaceFact ==
  /\ PLACE[0] = 1
  /\ \A n \in 0..8 : PLACE[n] \in Nat \ {0}
  /\ \A n \in 1..8 : PLACE[n] = FIELD * PLACE[n - 1]
<1> DEFINE IsPlace(f) == f = [n \in 0..8 |-> IF n = 0 THEN 1 ELSE FIELD * f[n - 1]]
           next_of == [i \in 1..8 |-> [x \in Nat |-> FIELD * x]]
<1>1. FIELD \in Nat \ {0} /\ DEPLOYED_AT + 1 = 8
  BY StageOrderFact
<1>2. ASSUME NEW x \in Nat PROVE FIELD * x \in Nat /\ (x # 0 => FIELD * x # 0)
  <2>1. FIELD \in Nat /\ 1 <= FIELD
    BY <1>1
  <2>2. FIELD * x \in Nat /\ 1 * x <= FIELD * x /\ 1 * x = x
    BY <2>1, ProductFact
  <2> QED BY <2>2
<1>3. next_of \in [1..8 -> [Nat -> Nat]]
  BY <1>2
<1>4. PICK f \in [0..8 -> Nat] : f[0] = 1 /\ \A i \in 1..8 : f[i] = next_of[i][f[i - 1]]
  <2>1. 8 \in Nat /\ 1 \in Nat
    OBVIOUS
  <2> HIDE DEF next_of
  <2> QED BY ONLY <1>3, <2>1, RecursionExists
<1>5. ASSUME NEW i \in 1..8 PROVE f[i] = FIELD * f[i - 1]
  <2>1. f[i - 1] \in Nat
    OBVIOUS
  <2> QED BY <1>4, <2>1
<1>6. IsPlace(f)
  <2>1. \A n \in 0..8 : n # 0 => n \in 1..8
    OBVIOUS
  <2> QED BY <1>4, <1>5, <2>1
<1>7. IsPlace(PLACE)
  BY <1>1, <1>6 DEF PLACE
<1>8. PLACE[0] = 1 /\ \A n \in 1..8 : PLACE[n] = FIELD * PLACE[n - 1]
  <2>1. \A n \in 1..8 : n \in 0..8 /\ n # 0
    OBVIOUS
  <2> QED BY <1>7, <2>1
<1> DEFINE S == {n \in Nat : n <= 8 => PLACE[n] \in Nat \ {0}}
<1>9. 0 \in S
  BY <1>8
<1>10. ASSUME NEW n \in Nat, n \in S PROVE n + 1 \in S
  <2> SUFFICES ASSUME n + 1 <= 8 PROVE PLACE[n + 1] \in Nat \ {0}
    OBVIOUS
  <2>1. n + 1 \in 1..8 /\ (n + 1) - 1 = n /\ n <= 8
    OBVIOUS
  <2>2. PLACE[n + 1] = FIELD * PLACE[n]
    BY <1>8, <2>1
  <2>3. PLACE[n] \in Nat \ {0}
    BY <1>10, <2>1
  <2> QED BY <1>2, <2>2, <2>3
<1>11. Nat \subseteq S
  <2> HIDE DEF S
  <2> QED BY <1>9, <1>10, SetInduction
<1> QED BY <1>8, <1>11

\* "low" sums the fields of the stages, from the lowest one up.
IsLow(low, tl) ==
  /\ low \in [0..7 -> Nat] /\ low[0] = 0
  /\ \A n \in 1..7 : low[n] = low[n - 1] + tl[StageOrder[n]] * PLACE[n - 1]

\* A timelocks value has such a sum, and no sum reaches the field above.
LEMMA LowFact ==
  ASSUME NEW tl \in TimelockWords
  PROVE  /\ \E low : IsLow(low, tl)
         /\ \A low : IsLow(low, tl) => \A n \in 0..7 : low[n] \in 0..(PLACE[n] - 1)
<1> DEFINE Term(n) == tl[StageOrder[n]] * PLACE[n - 1]
           next_of == [i \in 1..7 |-> [x \in Nat |-> x + Term(i)]]
<1>1. \A n \in 1..7 : tl[StageOrder[n]] \in Nat /\ tl[StageOrder[n]] + 1 <= FIELD
  <2>1. \A s \in Stages : tl[s] \in U32
    BY DEF TimelockWords
  <2>2. \A x \in U32 : x \in Nat /\ x + 1 <= FIELD
    BY StageOrderFact
  <2> QED BY <2>1, <2>2, StageOrderFact
<1>2. ASSUME NEW n \in 1..7
      PROVE  /\ PLACE[n - 1] \in Nat \ {0} /\ Term(n) \in Nat
             /\ Term(n) + PLACE[n - 1] <= PLACE[n]
  <2>1. n - 1 \in 0..8 /\ n \in 1..8
    OBVIOUS
  <2>2. PLACE[n - 1] \in Nat \ {0} /\ PLACE[n] = FIELD * PLACE[n - 1]
    BY <2>1, PlaceFact
  <2> DEFINE p == PLACE[n - 1]
             d == tl[StageOrder[n]]
  <2>3. p \in Nat /\ d \in Nat /\ FIELD \in Nat /\ d + 1 <= FIELD
    BY <1>1, <2>2, StageOrderFact
  <2> HIDE DEF p, d
  <2>4. (d + 1) * p = d * p + 1 * p /\ 1 * p = p /\ (d + 1) * p <= FIELD * p /\ d * p \in Nat
    BY <2>3, ProductFact
  <2> QED BY <2>2, <2>4 DEF p, d
<1>3. next_of \in [1..7 -> [Nat -> Nat]]
  <2> HIDE DEF Term
  <2> QED BY <1>2
<1>4. \E low : IsLow(low, tl)
  <2>1. PICK f \in [0..7 -> Nat] : f[0] = 0 /\ \A i \in 1..7 : f[i] = next_of[i][f[i - 1]]
    <3>1. 7 \in Nat /\ 0 \in Nat
      OBVIOUS
    <3> HIDE DEF next_of
    <3> QED BY ONLY <1>3, <3>1, RecursionExists
  <2>2. ASSUME NEW i \in 1..7 PROVE f[i] = f[i - 1] + Term(i)
    <3>1. f[i - 1] \in Nat
      OBVIOUS
    <3> HIDE DEF Term
    <3> QED BY <2>1, <3>1
  <2> QED BY <2>1, <2>2 DEF IsLow
<1>5. ASSUME NEW low, IsLow(low, tl) PROVE \A n \in 0..7 : low[n] \in 0..(PLACE[n] - 1)
  <2>1. /\ low \in [0..7 -> Nat] /\ low[0] = 0
        /\ \A n \in 1..7 : low[n] = low[n - 1] + Term(n)
    BY <1>5 DEF IsLow
  <2> DEFINE S == {n \in Nat : n <= 7 => low[n] + 1 <= PLACE[n]}
  <2> HIDE DEF Term
  <2>2. 0 \in S
    BY <2>1, PlaceFact
  <2>3. ASSUME NEW n \in Nat, n \in S PROVE n + 1 \in S
    <3> SUFFICES ASSUME n + 1 <= 7 PROVE low[n + 1] + 1 <= PLACE[n + 1]
      OBVIOUS
    <3>1. n + 1 \in 1..7 /\ (n + 1) - 1 = n /\ n \in 0..7 /\ n + 1 \in 0..8
      OBVIOUS
    <3>2. low[n + 1] = low[n] + Term(n + 1) /\ low[n] \in Nat
      BY <2>1, <3>1
    <3>3. /\ PLACE[n] \in Nat /\ Term(n + 1) \in Nat
          /\ Term(n + 1) + PLACE[n] <= PLACE[n + 1]
      BY <1>2, <3>1
    <3>4. low[n] + 1 <= PLACE[n] /\ PLACE[n + 1] \in Nat
      BY <2>3, <3>1, PlaceFact
    <3> QED BY <3>2, <3>3, <3>4
  <2>4. Nat \subseteq S
    <3> HIDE DEF S
    <3> QED BY <2>2, <2>3, SetInduction
  <2>5. \A n \in 0..7 : low[n] \in Nat /\ low[n] + 1 <= PLACE[n] /\ PLACE[n] \in Nat
    <3>1. \A n \in 0..7 : n \in 0..8
      OBVIOUS
    <3> QED BY <2>1, <2>4, <3>1, PlaceFact
  <2> QED BY <2>5
<1> QED BY <1>4, <1>5

\* The word that is packed off chain is such a sum, below the time of deployment.
LEMMA PackFact ==
  ASSUME NEW tl \in TimelockWords, NEW low, IsLow(low, tl)
  PROVE  Pack(tl) = tl["DeployedAt"] * PLACE[7] + low[7]
<1> DEFINE base == tl["DeployedAt"] * PLACE[7]
           Term(n) == tl[StageOrder[n]] * PLACE[n - 1]
           IsSum(f) == f = [n \in 0..7 |-> IF n = 0 THEN base ELSE f[n - 1] + Term(n)]
           sum == CHOOSE f : IsSum(f)
<1>1. /\ low \in [0..7 -> Nat] /\ low[0] = 0
      /\ \A n \in 1..7 : low[n] = low[n - 1] + Term(n)
  BY DEF IsLow
<1>2. base \in Nat
  <2>1. tl["DeployedAt"] \in Nat
    BY StageOrderFact DEF TimelockWords
  <2>2. PLACE[7] \in Nat
    BY PlaceFact
  <2> QED BY <2>1, <2>2, ProductFact
<1>3. ASSUME NEW n \in 1..7 PROVE Term(n) \in Nat
  <2>1. StageOrder[n] \in Stages /\ n - 1 \in 0..8
    BY StageOrderFact
  <2>2. tl[StageOrder[n]] \in Nat
    BY <2>1, StageOrderFact DEF TimelockWords
  <2>3. PLACE[n - 1] \in Nat
    BY <2>1, PlaceFact
  <2> QED BY <2>2, <2>3, ProductFact
<1>4. Pack(tl) = sum[7]
  BY StageOrderFact DEF Pack, Shifted
<1> HIDE DEF base, Term
<1>5. IsSum(sum)
  <2> DEFINE f == [n \in 0..7 |-> base + low[n]]
  <2>1. f[0] = base
    BY <1>1, <1>2
  <2>2. ASSUME NEW n \in 1..7 PROVE f[n] = f[n - 1] + Term(n)
    <3>1. n \in 0..7 /\ n - 1 \in 0..7
      OBVIOUS
    <3>2. low[n] = low[n - 1] + Term(n) /\ low[n - 1] \in Nat
      BY <1>1, <3>1
    <3>3. f[n] = base + low[n] /\ f[n - 1] = base + low[n - 1]
      BY <3>1
    <3> HIDE DEF f
    <3> QED BY <1>2, <1>3, <3>2, <3>3
  <2>3. IsSum(f)
    <3>1. \A n \in 0..7 : n # 0 => n \in 1..7
      OBVIOUS
    <3>2. f = [n \in 0..7 |-> f[n]]
      OBVIOUS
    <3> HIDE DEF f
    <3> QED BY <2>1, <2>2, <3>1, <3>2
  <2> HIDE DEF f, IsSum
  <2> QED BY <2>3
<1>6. sum[0] = base /\ \A n \in 1..7 : sum[n] = sum[n - 1] + Term(n)
  <2> HIDE DEF sum
  <2>1. \A n \in 1..7 : n \in 0..7 /\ n # 0
    OBVIOUS
  <2> QED BY <1>5, <2>1
<1> HIDE DEF sum
<1> DEFINE S == {n \in Nat : n <= 7 => sum[n] = base + low[n]}
<1>7. 0 \in S
  BY <1>1, <1>2, <1>6
<1>8. ASSUME NEW n \in Nat, n \in S PROVE n + 1 \in S
  <2> SUFFICES ASSUME n + 1 <= 7 PROVE sum[n + 1] = base + low[n + 1]
    OBVIOUS
  <2>1. n + 1 \in 1..7 /\ (n + 1) - 1 = n /\ n \in 0..7
    OBVIOUS
  <2>2. sum[n + 1] = sum[n] + Term(n + 1) /\ low[n + 1] = low[n] + Term(n + 1)
    BY <1>1, <1>6, <2>1
  <2>3. sum[n] = base + low[n] /\ low[n] \in Nat /\ Term(n + 1) \in Nat
    BY <1>1, <1>3, <1>8, <2>1
  <2> QED BY <1>2, <2>2, <2>3
<1>9. Nat \subseteq S
  <2> HIDE DEF S
  <2> QED BY <1>7, <1>8, SetInduction
<1>10. sum[7] = base + low[7]
  BY <1>9
<1> QED BY <1>4, <1>10 DEF base

\* Each field of the sum is read as it was put there.
LEMMA FieldFact ==
  ASSUME NEW tl \in TimelockWords, NEW low, IsLow(low, tl),
         NEW w, w = tl["DeployedAt"] * PLACE[7] + low[7]
  PROVE  /\ FieldOf(w, 7) = tl["DeployedAt"]
         /\ \A n \in 1..7 : FieldOf(w, n - 1) = tl[StageOrder[n]]
<1> DEFINE field(m) == IF m = 7 THEN tl["DeployedAt"] ELSE tl[StageOrder[m + 1]]
           Splits(m) == \E h \in Nat : w = h * PLACE[m] + low[m] /\ h % FIELD = field(m)
           S == {k \in Nat : k <= 7 => Splits(7 - k)}
<1>1. /\ low \in [0..7 -> Nat]
      /\ \A n \in 1..7 : low[n] = low[n - 1] + tl[StageOrder[n]] * PLACE[n - 1]
  BY DEF IsLow
<1>2. FIELD \in Nat \ {0} /\ tl["DeployedAt"] \in 0..(FIELD - 1)
  BY StageOrderFact DEF TimelockWords
<1>3. ASSUME NEW h \in Nat, NEW d \in 0..(FIELD - 1)
      PROVE  h * FIELD + d \in Nat /\ (h * FIELD + d) % FIELD = d
  BY <1>2, QuotientUnique
<1>4. 0 \in S
  <2>1. tl["DeployedAt"] % FIELD = tl["DeployedAt"]
    BY <1>2
  <2> QED BY <1>2, <2>1
<1>5. ASSUME NEW k \in Nat, k \in S PROVE k + 1 \in S
  <2> SUFFICES ASSUME k + 1 <= 7 PROVE Splits(7 - (k + 1))
    <3> HIDE DEF Splits
    <3> QED OBVIOUS
  <2> DEFINE m == 7 - k
             p == PLACE[m - 1]
             d == tl[StageOrder[m]]
  <2>1. m \in 1..7 /\ m - 1 = 7 - (k + 1) /\ m - 1 # 7 /\ m - 1 \in 0..8 /\ m \in 1..8 /\ k <= 7
    OBVIOUS
  <2>2. PICK h \in Nat : w = h * PLACE[m] + low[m]
    <3>1. Splits(m)
      <4> HIDE DEF Splits
      <4> QED BY <1>5, <2>1
    <3> HIDE DEF m
    <3> QED BY <3>1
  <2> HIDE DEF m
  <2>3. d \in 0..(FIELD - 1)
    BY <2>1, StageOrderFact DEF TimelockWords
  <2>4. PLACE[m] = FIELD * p /\ p \in Nat /\ low[m] = low[m - 1] + d * p /\ low[m - 1] \in Nat
    <3>1. m - 1 \in 0..7
      BY <2>1
    <3> QED BY <1>1, <2>1, <3>1, PlaceFact
  <2>5. field(m - 1) = d
    <3>1. (m - 1) + 1 = m
      BY <2>1
    <3> QED BY <2>1, <3>1
  <2> HIDE DEF p, d, field
  <2>6. w = (h * FIELD + d) * p + low[m - 1]
    <3>1. h * FIELD \in Nat /\ d \in Nat
      BY <1>2, <2>3, ProductFact
    <3>2. (h * FIELD + d) * p = (h * FIELD) * p + d * p
      BY <2>4, <3>1, ProductFact
    <3>3. (h * FIELD) * p = h * (FIELD * p)
      BY <1>2, <2>4
    <3>4. (h * FIELD) * p \in Nat /\ d * p \in Nat
      BY <2>4, <3>1, ProductFact
    <3> QED BY <2>2, <2>4, <3>2, <3>3, <3>4
  <2>7. h * FIELD + d \in Nat /\ (h * FIELD + d) % FIELD = d
    BY <1>3, <2>3
  <2>8. Splits(m - 1)
    <3> DEFINE g == h * FIELD + d
    <3>1. g \in Nat /\ w = g * PLACE[m - 1] + low[m - 1] /\ g % FIELD = field(m - 1)
      BY <2>5, <2>6, <2>7 DEF p
    <3> HIDE DEF g
    <3> QED BY <3>1
  <2> HIDE DEF Splits
  <2> QED BY <2>1, <2>8
<1>6. Nat \subseteq S
  <2> HIDE DEF S
  <2> QED BY <1>4, <1>5, SetInduction
<1>7. ASSUME NEW m \in 0..7 PROVE FieldOf(w, m) = field(m)
  <2>1. 7 - m \in Nat /\ 7 - m <= 7 /\ 7 - (7 - m) = m
    OBVIOUS
  <2>2. Splits(m)
    <3> HIDE DEF Splits
    <3> QED BY <1>6, <2>1
  <2>3. PICK h \in Nat : w = h * PLACE[m] + low[m] /\ h % FIELD = field(m)
    BY <2>2
  <2>4. PLACE[m] \in Nat \ {0} /\ low[m] \in 0..(PLACE[m] - 1)
    BY PlaceFact, LowFact
  <2>5. w \div PLACE[m] = h
    <3> DEFINE c == PLACE[m]
               r == low[m]
    <3>1. c \in Nat \ {0} /\ h \in Nat /\ r \in 0..(c - 1) /\ w = h * c + r
      BY <2>3, <2>4
    <3> HIDE DEF c, r
    <3>2. w \div c = h
      BY ONLY <3>1, QuotientUnique
    <3> QED BY <3>2 DEF c
  <2> QED BY <2>3, <2>5 DEF FieldOf
<1>8. FieldOf(w, 7) = field(7)
  BY <1>7
<1>9. ASSUME NEW n \in 1..7 PROVE FieldOf(w, n - 1) = tl[StageOrder[n]]
  <2>1. n - 1 \in 0..7 /\ n - 1 # 7 /\ (n - 1) + 1 = n
    OBVIOUS
  <2>2. FieldOf(w, n - 1) = field(n - 1)
    <3> HIDE DEF field
    <3> QED BY <1>7, <2>1
  <2> QED BY <2>1, <2>2
<1> QED BY <1>8, <1>9

\* The word is that of the function, whose fields are below their width; the lowest
\* seven keep their sum when the time of deployment is replaced.
PackedInv ==
  /\ timelocks \in TimelockWords
  /\ \E low : IsLow(low, timelocks) /\ word = timelocks["DeployedAt"] * PLACE[7] + low[7]

\* However often a word is deployed, each stage and the rescue start are read as they
\* were set: no field reaches into its neighbour (set_deployed_at, get and rescue_start).
THEOREM FieldsStayApart == PackedSpec => []PackedAgrees
<1>1. ASSUME PackedInit PROVE PackedInv
  <2>1. timelocks \in TimelockWords /\ word = Pack(timelocks)
    BY <1>1 DEF PackedInit
  <2>2. PICK low : IsLow(low, timelocks)
    BY <2>1, LowFact
  <2> QED BY <2>1, <2>2, PackFact DEF PackedInv
<1>2. ASSUME PackedInv, NEW t \in U32, Deploy(t) PROVE PackedInv'
  <2>1. /\ timelocks' = [timelocks EXCEPT !["DeployedAt"] = t]
        /\ word' = (word % PLACE[7]) + t * PLACE[7]
    BY <1>2, StageOrderFact DEF Deploy, SetDeployedAt, PackedSetDeployedAt, Shifted
  <2>2. /\ timelocks \in TimelockWords /\ timelocks' \in TimelockWords
        /\ timelocks'["DeployedAt"] = t
        /\ \A s \in Stages : timelocks'[s] = timelocks[s]
    BY <1>2, <2>1 DEF PackedInv, TimelockWords, Stages
  <2>3. PICK low : IsLow(low, timelocks) /\ word = timelocks["DeployedAt"] * PLACE[7] + low[7]
    BY <1>2 DEF PackedInv
  <2>4. IsLow(low, timelocks')
    BY <2>2, <2>3, StageOrderFact DEF IsLow
  <2>5. /\ PLACE[7] \in Nat \ {0} /\ low[7] \in 0..(PLACE[7] - 1)
        /\ timelocks["DeployedAt"] \in Nat /\ t \in Nat
    <3>1. timelocks["DeployedAt"] \in Nat /\ t \in Nat
      BY <2>2, StageOrderFact DEF TimelockWords
    <3>2. PLACE[7] \in Nat \ {0}
      BY PlaceFact
    <3>3. \A n \in 0..7 : low[n] \in 0..(PLACE[n] - 1)
      BY <2>2, <2>3, LowFact
    <3> QED BY <3>1, <3>2, <3>3
  <2>6. word % PLACE[7] = low[7]
    <3> DEFINE c == PLACE[7]
               r == low[7]
               d == timelocks["DeployedAt"]
    <3>1. c \in Nat \ {0} /\ d \in Nat /\ r \in 0..(c - 1) /\ word = d * c + r
      BY <2>3, <2>5
    <3> HIDE DEF c, r, d
    <3>2. word % c = r
      BY ONLY <3>1, QuotientUnique
    <3> QED BY <3>2 DEF c, r
  <2>7. word' = timelocks'["DeployedAt"] * PLACE[7] + low[7]
    <3>1. t * PLACE[7] \in Nat
      BY <2>5, ProductFact
    <3> QED BY <2>1, <2>2, <2>5, <2>6, <3>1
  <2> QED BY <2>2, <2>4, <2>7 DEF PackedInv
<1>3. ASSUME PackedInv, UNCHANGED packedVars PROVE PackedInv'
  BY <1>3 DEF PackedInv, packedVars
<1>4. PackedInv /\ [PackedNext]_packedVars => PackedInv'
  BY <1>2, <1>3 DEF PackedNext
<1>5. ASSUME PackedInv PROVE PackedAgrees
  <2>1. PICK low : IsLow(low, timelocks) /\ word = timelocks["DeployedAt"] * PLACE[7] + low[7]
    BY <1>5 DEF PackedInv
  <2>2. /\ FieldOf(word, 7) = timelocks["DeployedAt"]
        /\ \A n \in 1..7 : FieldOf(word, n - 1) = timelocks[StageOrder[n]]
    BY <1>5, <2>1, FieldFact DEF PackedInv
  <2>3. DOMAIN StageOrder = 1..7
    BY DEF StageOrder
  <2> QED BY <2>2, <2>3, StageOrderFact
          DEF PackedAgrees, PackedGet, PackedRescueStart, StageTime, RescueStart
<1> QED BY <1>1, <1>4, <1>5, PTL DEF PackedSpec

=============================================================================
