----------------------------- MODULE MCEscrowSrc -----------------------------
(***************************************************************************)
(* Small instances of EscrowSrcProperties for TLC, with one order or two.  *)
(* Amounts are single digits; the rents are 2 for a token account and 1    *)
(* for each program account.                                               *)
(***************************************************************************)
EXTENDS EscrowSrcProperties, TLC

CONSTANTS maker, taker, keeper, TOK, o1, o2, s0, s1, s2, h0, h1, h2, root

MCKeccak ==
  [s \in Secrets |-> ((s0 :> h0) @@ (s1 :> h1) @@ (s2 :> h2))[s]]

\* Withdrawal from 1, public from 2, cancellation from 3, public from 4.
MCTimelocks ==
  [DeployedAt |-> 0,
   SrcWithdrawal |-> 1, SrcPublicWithdrawal |-> 2,
   SrcCancellation |-> 3, SrcPublicCancellation |-> 4,
   DstWithdrawal |-> 1, DstPublicWithdrawal |-> 2, DstCancellation |-> 3]

\* Cancellation times that overflow u32 if deployed after time 0.
EndlessTimelocks ==
  [MCTimelocks EXCEPT !.SrcCancellation = MAX_U32, !.SrcPublicCancellation = MAX_U32]

FlatAuction == [start_time |-> 0, duration |-> 0, initial_rate_bump |-> 0, points |-> <<>>]

\* From +50% at time 1 to nothing at time 3, through +20% at time 2.
FallingAuction ==
  [start_time |-> 1, duration |-> 2, initial_rate_bump |-> 5,
   points |-> <<[rate_bump |-> 2, time_delta |-> 1]>>]

\* An SPL order that is filled as a whole.
SplTerms ==
  [creator |-> maker, token |-> TOK, amount |-> 2, safety_deposit |-> 1,
   timelocks |-> MCTimelocks, expiration_time |-> 2, asset_is_native |-> FALSE,
   dst_amount |-> 5, auction |-> FlatAuction, max_cancellation_premium |-> 2,
   cancellation_auction_duration |-> 2, allow_multiple_fills |-> FALSE,
   parts |-> 0, hashlock |-> h0, leaves |-> {}]

\* An order of lamports, and one of wrapped SOL that stays wrapped.
NativeTerms == [SplTerms EXCEPT !.token = NATIVE_MINT, !.asset_is_native = TRUE]
WrappedTerms == [SplTerms EXCEPT !.token = NATIVE_MINT]

\* A premium that the reserve of the order's ATA does not cover.
PremiumTerms == [SplTerms EXCEPT !.max_cancellation_premium = 3]

\* An order of four tokens in two parts and three secrets.
Leaf(i, h) == [index |-> i, hashed_secret |-> h]
HalvesTerms ==
  [SplTerms EXCEPT !.amount = 4, !.allow_multiple_fills = TRUE, !.hashlock = root,
     !.auction = FallingAuction, !.expiration_time = 4, !.parts = 2,
     !.leaves = {Leaf(0, h0), Leaf(1, h1), Leaf(2, h2)}]

Only(t) == [o \in {o1} |-> t]
Both(t, u) == [o \in {o1, o2} |-> IF o = o1 THEN t ELSE u]
Spl == Only(SplTerms)
SplEndless == Only([SplTerms EXCEPT !.timelocks = EndlessTimelocks])
SplAndPremium == Both(SplTerms, PremiumTerms)
NativeAndWrapped == Both(NativeTerms, WrappedTerms)
Halves == Only(HalvesTerms)
NativeHalves ==
  Only([HalvesTerms EXCEPT !.token = NATIVE_MINT, !.asset_is_native = TRUE,
          !.expiration_time = 5, !.max_cancellation_premium = 0])

\* The escrow addresses that the resolvers can reach with the order's terms.
Key(h, u, n) == [order |-> o1, hashlock |-> h, taker |-> u, amount |-> n]
KeysOfTwo == {Key(h0, u, 2) : u \in {taker, keeper}}
KeysOfOne == {k \in KeysOfTwo : k.taker = taker}
KeysOfEach == {[k EXCEPT !.order = o] : o \in {o1, o2}, k \in KeysOfOne}
KeysOfHalves ==
  {Key(h0, taker, n) : n \in 0..2} \cup {Key(h1, taker, n) : n \in 1..3}
    \cup {Key(h2, taker, n) : n \in 1..4}
EvenKeys == {k \in KeysOfHalves : <<k.hashlock, k.amount>> \in {<<h0, 2>>, <<h2, 2>>, <<h2, 4>>}}

\* What the users start with, beyond the rent of their own ATAs.
MCSol == [u \in Users |-> IF u = maker THEN 7 ELSE IF u = taker THEN 6 ELSE 3]
RichSol == [u \in Users |-> 12]
PoorKeeper == [u \in Users |-> IF u = keeper THEN 0 ELSE 12]
LamportGift == [u \in Users |-> IF u = maker THEN 7 ELSE IF u = taker THEN 3 ELSE 1]
Tokens(own) == [a \in Users \X Mints |-> IF a \in DOMAIN own THEN own[a] ELSE 0]
MakerTokens == Tokens(<<maker, TOK>> :> 2)
NoTokens == [a \in Users \X Mints |-> 0]
WithGift == Tokens((<<maker, TOK>> :> 2) @@ (<<keeper, TOK>> :> 1))
WithGift4 == Tokens((<<maker, TOK>> :> 4) @@ (<<keeper, TOK>> :> 1))
WrappedTokens == Tokens(<<maker, NATIVE_MINT>> :> 2)

=============================================================================
