----------------------------- MODULE PartialFill -----------------------------
(***************************************************************************)
(* is_valid_partial_fill of programs/cross-chain-escrow-src/src/lib.rs.    *)
(* An order that allows multiple fills is cut into "parts" equal parts and *)
(* has parts + 1 secrets, numbered from 0.  A fill must use the secret of  *)
(* the part its last token falls in, and the fill that completes the order *)
(* the one after it, so that no secret ever opens two fills.               *)
(***************************************************************************)
EXTENDS Widths

\* The part that the n-th token (from 1) of an order of "total" belongs to.
PartOf(n, total, parts) == ((n - 1) * parts) \div total
PartFits(n, parts) == n >= 1 /\ (n - 1) * parts <= MAX_U64

CalculatedIndex(making, remaining, total, parts) ==
  PartOf(total - remaining + making, total, parts)

PrevCalculatedIndex(remaining, total, parts) == PartOf(total - remaining, total, parts)

\* Mutants: the previous fill's index is not looked at, or is looked at for the
\* completing fill too.
IsValidPartialFill_NoPrev(making, remaining, total, parts, index) ==
  /\ PartFits(total - remaining + making, parts)
  /\ index = CalculatedIndex(making, remaining, total, parts)
               + (IF remaining = making THEN 1 ELSE 0)

IsValidPartialFill_PrevAlways(making, remaining, total, parts, index) ==
  /\ IsValidPartialFill_NoPrev(making, remaining, total, parts, index)
  /\ total # remaining =>
       CalculatedIndex(making, remaining, total, parts)
         # PrevCalculatedIndex(remaining, total, parts)

\* True when the function returns true; an overflow aborts the transaction,
\* so it counts as not valid.
IsValidPartialFill(making, remaining, total, parts, index) ==
  /\ PartFits(total - remaining + making, parts)
  /\ IF remaining = making
     THEN index = CalculatedIndex(making, remaining, total, parts) + 1
     ELSE /\ (total # remaining) =>
               /\ PartFits(total - remaining, parts)
               /\ CalculatedIndex(making, remaining, total, parts)
                    # PrevCalculatedIndex(remaining, total, parts)
          /\ index = CalculatedIndex(making, remaining, total, parts)

=============================================================================
