------------------------------- MODULE Auction -------------------------------
(***************************************************************************)
(* programs/cross-chain-escrow-src/src/auction.rs, and the two places of   *)
(* lib.rs that turn an order's dst_amount into an escrow's.  The workspace *)
(* builds with overflow-checks, so an overflow aborts the transaction: the *)
(* operators named ...Fits say when there is none.                         *)
(***************************************************************************)
EXTENDS Widths, Sequences

CONSTANT BASE_1E7  \* the unit of a rate bump

ASSUME AuctionAssumption == BASE_1E7 \in Nat \ {0}

\* An auction's data: its start, its duration and a piecewise linear curve
\* that starts at initial_rate_bump and goes through the points.
AuctionDatas ==
  [start_time : Nat, duration : Nat, initial_rate_bump : Nat,
   points : Seq([rate_bump : Nat, time_delta : Nat])]

\* The time of the i-th point; point 0 is the start of the auction.
PointTime(data) ==
  LET time[i \in 0..Len(data.points)] ==
        IF i = 0 THEN data.start_time ELSE time[i - 1] + data.points[i].time_delta
  IN  time

PointRate(data, i) ==
  IF i = 0 THEN data.initial_rate_bump ELSE data.points[i].rate_bump

\* Mutant: the two ends are swapped.
Interpolate_Swapped(t, t0, r0, t1, r1) == ((t - t0) * r0 + (t1 - t) * r1) \div (t1 - t0)

\* The value at t of the line through (t0, r0) and (t1, r1), rounded down.
Interpolate(t, t0, r0, t1, r1) == ((t - t0) * r1 + (t1 - t) * r0) \div (t1 - t0)

\* The loop over the points stops at the first one that t does not pass; past
\* the last one the curve goes down to zero at the auction's end.
CalculateRateBump(t, data) ==
  LET n      == Len(data.points)
      time   == PointTime(data)
      finish == data.start_time + data.duration
      ahead  == {i \in 1..n : t <= time[i]}
      next   == CHOOSE i \in ahead : \A j \in ahead : i <= j
  IN  IF t <= data.start_time THEN data.initial_rate_bump
      ELSE IF t >= finish THEN 0
      ELSE IF ahead = {}
      THEN Interpolate(t, time[n], PointRate(data, n), finish, 0)
      ELSE Interpolate(t, time[next - 1], PointRate(data, next - 1),
                       time[next], PointRate(data, next))

\* Nothing until the auction starts, all of it once the auction is over.
CalculatePremium(t, auction_start_time, auction_duration, max_cancellation_premium) ==
  IF t <= auction_start_time THEN 0
  ELSE IF t - auction_start_time >= auction_duration THEN max_cancellation_premium
  ELSE ((t - auction_start_time) * max_cancellation_premium) \div auction_duration

PremiumFits(t, auction_start_time, auction_duration, max_cancellation_premium) ==
  (auction_start_time < t /\ t < auction_start_time + auction_duration)
    => (t - auction_start_time) * max_cancellation_premium <= MAX_U64

\* Division that rounds up, on the numerator that the U256 arithmetic reaches.
CeilNumerator(x, d) == x + (d - 1)
CeilDiv(x, d) == CeilNumerator(x, d) \div d

\* Mutant: the share rounds down.
ScaledDstAmount_Floor(dst_amount, fill, order_amount) == (dst_amount * fill) \div order_amount

\* The share of the order's dst_amount that falls to a fill, and that share
\* raised by the auction's rate; both round up, against the taker.
ScaledDstAmount(dst_amount, fill, order_amount) == CeilDiv(dst_amount * fill, order_amount)
RaisedProduct(dst_amount, t, data) == dst_amount * (BASE_1E7 + CalculateRateBump(t, data))
GetDstAmount(dst_amount, t, data) == CeilDiv(RaisedProduct(dst_amount, t, data), BASE_1E7)

\* The checked_... calls of both divisions: any overflow aborts.
DstAmountFits(dst_amount, fill, order_amount, t, data) ==
  /\ CeilNumerator(dst_amount * fill, order_amount) \in U256
  /\ CeilNumerator(RaisedProduct(ScaledDstAmount(dst_amount, fill, order_amount), t, data),
                   BASE_1E7) \in U256

=============================================================================
