------------------------------- MODULE MCSwap -------------------------------
(***************************************************************************)
(* A small instance of Swap: an order of three tokens in two parts, filled *)
(* by one taker in two fills, and watched by a keeper, with a stranger     *)
(* that has something to give away on each chain.                          *)
(***************************************************************************)
EXTENDS Swap, Sequences, TLC

CONSTANTS maker, taker, keeper, admin, guest, TOK, o1, s0, s2, h0, h1, h2, root

MCKeccak == (s0 :> h0) @@ (s2 :> h2)

\* Both chains: withdrawal from 1, public from 2.  Cancellation: from 4 on the
\* source chain, for everybody, when rescues start too; from 3 on the destination
\* chain.
MCTimelocks ==
  [DeployedAt |-> 0,
   SrcWithdrawal |-> 1, SrcPublicWithdrawal |-> 2,
   SrcCancellation |-> 4, SrcPublicCancellation |-> 4,
   DstWithdrawal |-> 1, DstPublicWithdrawal |-> 2, DstCancellation |-> 3]

\* Tokens 1 and 2 belong to part 0, token 3 to part 1; secret 2 completes.
Leaf(i, h) == [index |-> i, hashed_secret |-> h]
OrderTerms ==
  [creator |-> maker, token |-> TOK, amount |-> 3, safety_deposit |-> 1,
   timelocks |-> MCTimelocks, expiration_time |-> 2, asset_is_native |-> FALSE,
   dst_amount |-> 3,
   auction |-> [start_time |-> 0, duration |-> 0, initial_rate_bump |-> 0, points |-> <<>>],
   max_cancellation_premium |-> 2, cancellation_auction_duration |-> 1,
   allow_multiple_fills |-> TRUE, parts |-> 2, hashlock |-> root,
   leaves |-> {Leaf(0, h0), Leaf(1, h1), Leaf(2, h2)}]
MCTerms == [o \in Orders |-> OrderTerms]

SrcKey(h, n) == [order |-> o1, hashlock |-> h, taker |-> taker, amount |-> n]
DstKey(h, n) == [order_hash |-> o1, hashlock |-> h, creator |-> taker, amount |-> n]
MCSrcKeys == {SrcKey(h0, 1), SrcKey(h2, 2), SrcKey(h2, 3)}
MCDstKeys == {DstKey(h0, 1), DstKey(h2, 2), DstKey(h2, 3)}
MCPartner == [k \in SrcKeys |-> DstKey(k.hashlock, k.amount)]

\* Offers with the order's timelocks, with no time for public withdrawals, and with
\* an overflow, each with every claim about the source.
Offer(delay, claim) ==
  [recipient |-> maker, token |-> TOK, safety_deposit |-> 1,
   timelocks |-> [MCTimelocks EXCEPT !.DstCancellation = delay],
   src_cancellation_timestamp |-> claim, asset_is_native |-> FALSE]
MCOffers == {Offer(delay, claim) : delay \in {2, 3, MAX_U32}, claim \in 4..6}

MCRegistrations == {<<SrcClient, taker>>, <<DstClient, keeper>>}
MCWatchers == {<<DstClient, keeper>>}

MCSrcSol == [u \in Users |-> IF u \in {maker, taker} THEN 6 ELSE IF u = guest THEN 1 ELSE 0]
MCSrcTokens ==
  [a \in Users \X Mints |-> IF a = <<maker, TOK>> THEN 3 ELSE 0]
MCDstSol ==
  [u \in Users |-> IF u = taker THEN 8 ELSE IF u = keeper THEN RENT_ATA ELSE IF u = guest THEN 1 ELSE 0]
MCDstTokens == [a \in Users \X Mints |-> IF a = <<taker, TOK>> THEN 3 ELSE 0]
MCDstAtas == {taker, keeper} \X Mints

=============================================================================
