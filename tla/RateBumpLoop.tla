----------------------------- MODULE RateBumpLoop -----------------------------
(***************************************************************************)
(* calculate_rate_bump of programs/cross-chain-escrow-src/src/auction.rs as *)
(* it runs: one loop over the points, one action per return or iteration.  *)
(* The escrow program's model uses the closed form of module Auction; here *)
(* the loop is shown to compute it.                                        *)
(***************************************************************************)
EXTENDS Auction

CONSTANTS Timestamps, Auctions,  \* the inputs
          BYTE                   \* the number of values of a byte

\* Rates have three bytes: "From<u32>" refuses a larger one.
ASSUME RateBumpLoopAssumption ==
  /\ Timestamps \subseteq Nat /\ BYTE \in Nat \ {0}
  /\ Auctions \subseteq AuctionDatas
  /\ \A d \in Auctions : \A i \in 0..Len(d.points) : PointRate(d, i) < BYTE * BYTE * BYTE

VARIABLES timestamp, data,
          step,    \* "checks", "points" or "returned"
          next,    \* the number of the point the loop is at
          current_rate_bump, current_point_time,
          answer

auctionVars ==
  <<timestamp, data, step, next, current_rate_bump, current_point_time, answer>>

auction_finish_time == data.start_time + data.duration
next_point_time == current_point_time + data.points[next].time_delta

\* U24: whoever makes the order writes a rate as three bytes, the highest first,
\* and the program reads them.
FromU32(val) == <<val \div (BYTE * BYTE), (val \div BYTE) % BYTE, val % BYTE>>
ToU64(u24) == u24[1] * (BYTE * BYTE) + u24[2] * BYTE + u24[3]

initial_rate_bump == ToU64(FromU32(data.initial_rate_bump))
next_rate_bump == ToU64(FromU32(data.points[next].rate_bump))

AuctionInit ==
  /\ timestamp \in Timestamps /\ data \in Auctions
  /\ step = "checks"
  /\ next = 1
  /\ current_rate_bump = initial_rate_bump
  /\ current_point_time = data.start_time
  /\ answer = 0

Return(rate) ==
  /\ step' = "returned" /\ answer' = rate
  /\ UNCHANGED <<timestamp, data, next, current_rate_bump, current_point_time>>

NotStarted == timestamp <= data.start_time

\* Mutant: the last moment of the auction is inside it.
Finished_After == timestamp > auction_finish_time

Finished == timestamp >= auction_finish_time

ReturnInitial == step = "checks" /\ NotStarted /\ Return(initial_rate_bump)
ReturnZero == step = "checks" /\ ~NotStarted /\ Finished /\ Return(0)

EnterLoop ==
  /\ step = "checks" /\ ~NotStarted /\ ~Finished
  /\ step' = "points"
  /\ UNCHANGED <<timestamp, data, next, current_rate_bump, current_point_time, answer>>

AtPoint == step = "points" /\ next <= Len(data.points)

ReturnBetween ==
  /\ AtPoint /\ timestamp <= next_point_time
  /\ Return(Interpolate(timestamp, current_point_time, current_rate_bump,
                        next_point_time, next_rate_bump))

\* Mutant: the time of the point is not kept.
PassPoint_SameTime ==
  /\ AtPoint /\ timestamp > next_point_time
  /\ current_rate_bump' = next_rate_bump
  /\ next' = next + 1
  /\ UNCHANGED <<timestamp, data, step, current_point_time, answer>>

PassPoint ==
  /\ AtPoint /\ timestamp > next_point_time
  /\ current_rate_bump' = next_rate_bump
  /\ current_point_time' = next_point_time
  /\ next' = next + 1
  /\ UNCHANGED <<timestamp, data, step, answer>>

ReturnTail ==
  /\ step = "points" /\ next > Len(data.points)
  /\ Return(Interpolate(timestamp, current_point_time, current_rate_bump,
                        auction_finish_time, 0))

AuctionNext ==
  ReturnInitial \/ ReturnZero \/ EnterLoop \/ ReturnBetween \/ PassPoint \/ ReturnTail

AuctionSpec == AuctionInit /\ [][AuctionNext]_auctionVars

-----------------------------------------------------------------------------
\* The loop returns the value of the curve, for points that coincide, that lie
\* past the end of the auction and at every point's own time, its rates read from
\* their bytes (auction.rs:17-54).
LoopComputesRate == step = "returned" => answer = CalculateRateBump(timestamp, data)

\* "current_point_time < timestamp" and "timestamp < auction_finish_time"
\* (auction.rs:36, 49): in the loop no divisor is zero and no difference
\* underflows, which would abort every fill of the order.
LoopInsideAuction ==
  step = "points" => current_point_time < timestamp /\ timestamp < auction_finish_time

\* A curve whose points fall never rises from one second to the next, rounding
\* included: a taker that waits never pays more.
FallingPoints ==
  \A i \in DOMAIN data.points : data.points[i].rate_bump <= PointRate(data, i - 1)
RateFalls ==
  (step = "returned" /\ FallingPoints) =>
    /\ answer <= data.initial_rate_bump
    /\ CalculateRateBump(timestamp + 1, data) <= answer

=============================================================================
