----------------------------- MODULE MCEscrowDst -----------------------------
(***************************************************************************)
(* Small instances of EscrowDstProperties for TLC: one escrow address that *)
(* can be used again and again, with offers that differ in their asset.    *)
(***************************************************************************)
EXTENDS EscrowDstProperties, TLC

CONSTANTS creator, recipient, keeper, TOK, o1, s0, h0

MCKeccak == [s \in Secrets |-> h0]

Key(n) == [order_hash |-> o1, hashlock |-> h0, creator |-> creator, amount |-> n]
KeysUpToTwo == {Key(n) : n \in 1..2}
KeysOfTwo == {k \in KeysUpToTwo : k.amount = 2}

\* Withdrawal from 1, public from 2, cancellation from 3.
MCTimelocks ==
  [DeployedAt |-> 0,
   SrcWithdrawal |-> 2, SrcPublicWithdrawal |-> 3,
   SrcCancellation |-> 4, SrcPublicCancellation |-> 5,
   DstWithdrawal |-> 1, DstPublicWithdrawal |-> 2, DstCancellation |-> 3]

\* The source chain's cancellation time admits a deployment up to time 1.
SplOffer ==
  [recipient |-> recipient, token |-> TOK, safety_deposit |-> 1, timelocks |-> MCTimelocks,
   src_cancellation_timestamp |-> 4, asset_is_native |-> FALSE]
NativeOffer == [SplOffer EXCEPT !.token = NATIVE_MINT, !.asset_is_native = TRUE]
WrappedOffer == [SplOffer EXCEPT !.token = NATIVE_MINT]
EndlessOffer == [SplOffer EXCEPT !.timelocks = [MCTimelocks EXCEPT !.DstCancellation = MAX_U32]]

AllOffers == {SplOffer, NativeOffer, WrappedOffer}
EndingOffers == {SplOffer, NativeOffer, EndlessOffer}

\* What the users start with, beyond the rent of their own ATAs.
MCSol == [u \in Users |-> IF u = creator THEN 8 ELSE IF u = keeper THEN 3 ELSE 2]
MCTokens ==
  [a \in Users \X Mints |->
     IF a[1] = creator THEN 2 ELSE IF a = <<keeper, NATIVE_MINT>> THEN 1 ELSE 0]
MCAtas == {creator, keeper} \X Mints

=============================================================================
