------------------------------ MODULE Timelocks ------------------------------
(***************************************************************************)
(* common/src/timelocks.rs and the rescue delay.  A Timelocks value packs  *)
(* eight 32-bit fields in a 256-bit word: the delta of each of the seven   *)
(* stages and, in the highest bits, the time of deployment.  Here it is a  *)
(* function on the names of the fields.                                    *)
(***************************************************************************)
EXTENDS Widths

CONSTANT RESCUE_DELAY  \* from deployment to the start of rescue

ASSUME TimelocksAssumption == RESCUE_DELAY \in U32

Stages == {"SrcWithdrawal", "SrcPublicWithdrawal", "SrcCancellation",
           "SrcPublicCancellation", "DstWithdrawal", "DstPublicWithdrawal",
           "DstCancellation"}

TimelockWords == [Stages \cup {"DeployedAt"} -> U32]
NoTimelocks == [f \in Stages \cup {"DeployedAt"} |-> 0]

SetDeployedAt(tl, value) == [tl EXCEPT !["DeployedAt"] = value]

\* "get" adds the stage's delta to the time of deployment in u32 arithmetic
\* and fails on overflow; both comparisons below fail with it.
StageTime(tl, stage) == tl["DeployedAt"] + tl[stage]
StageFits(tl, stage) == StageTime(tl, stage) <= MAX_U32
Reached(tl, stage, t) == StageFits(tl, stage) /\ t >= StageTime(tl, stage)

\* Mutant: the window closes one moment too early.
Before_Early(tl, stage, t) == StageFits(tl, stage) /\ t + 1 < StageTime(tl, stage)

Before(tl, stage, t) == StageFits(tl, stage) /\ t < StageTime(tl, stage)

RescueStart(tl) == tl["DeployedAt"] + RESCUE_DELAY

\* Mutant: the delay is counted from time zero.
RescueReached_NoDeployedAt(tl, t) == t >= RESCUE_DELAY

\* "rescue_start", which fails on overflow, and the comparison made with it.
RescueReached(tl, t) == RescueStart(tl) <= MAX_U32 /\ t >= RescueStart(tl)

=============================================================================
