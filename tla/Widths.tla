-------------------------------- MODULE Widths --------------------------------
(***************************************************************************)
(* The integer widths of the programs.  The workspace's Cargo.toml sets    *)
(* overflow-checks in the release profile, so arithmetic that leaves its   *)
(* type aborts the transaction; an instance gives the bounds small values  *)
(* to make that happen.                                                    *)
(***************************************************************************)
EXTENDS Integers

CONSTANTS MAX_U32,  \* the largest u32: timestamps, durations and timelocks
          MAX_U64,  \* the largest u64: amounts and lamports
          MAX_U256  \* the largest U256: amounts of the destination chain

ASSUME WidthsAssumption == {MAX_U32, MAX_U64, MAX_U256} \subseteq Nat

U32 == 0..MAX_U32
U64 == 0..MAX_U64
U256 == 0..MAX_U256

=============================================================================
