--------------------------- MODULE PackedTimelocks ---------------------------
(***************************************************************************)
(* common/src/timelocks.rs on the word itself.  Eight fields of equal width *)
(* lie side by side, the seven stages' deltas from the lowest bits on and  *)
(* the time of deployment in the highest.  Shifts and masks are written as *)
(* division and remainder.  The programs' models use the function of module *)
(* Timelocks instead; "timelocks" is that function, kept alongside.        *)
(***************************************************************************)
EXTENDS Timelocks, Sequences

VARIABLES word, timelocks

packedVars == <<word, timelocks>>

\* The stages in the order of the enum Stage.
StageOrder ==
  <<"SrcWithdrawal", "SrcPublicWithdrawal", "SrcCancellation", "SrcPublicCancellation",
    "DstWithdrawal", "DstPublicWithdrawal", "DstCancellation">>
DEPLOYED_AT == Len(StageOrder)  \* the number of the field above them

FIELD == MAX_U32 + 1

\* The weight of the lowest bit of each field, and of the bit above the word.
PLACE[n \in 0..DEPLOYED_AT + 1] == IF n = 0 THEN 1 ELSE FIELD * PLACE[n - 1]

Shifted(value, n) == value * PLACE[n]
FieldOf(w, n) == (w \div PLACE[n]) % FIELD

\* The word that a maker or a resolver builds off chain for "create".
Pack(tl) ==
  LET sum[n \in 0..DEPLOYED_AT] ==
        IF n = 0 THEN Shifted(tl["DeployedAt"], DEPLOYED_AT)
        ELSE sum[n - 1] + Shifted(tl[StageOrder[n]], n - 1)
  IN  sum[DEPLOYED_AT]

\* Mutant: the time of the earlier deployment is not cleared.
PackedSetDeployedAt_Added(w, value) ==
  (w + Shifted(value, DEPLOYED_AT)) % PLACE[DEPLOYED_AT + 1]

PackedSetDeployedAt(w, value) == (w % PLACE[DEPLOYED_AT]) + Shifted(value, DEPLOYED_AT)

\* "get" and "rescue_start" before their checks for overflow.
PackedGet(w, n) == FieldOf(w, DEPLOYED_AT) + FieldOf(w, n - 1)
PackedRescueStart(w) == FieldOf(w, DEPLOYED_AT) + RESCUE_DELAY

PackedInit == timelocks \in TimelockWords /\ word = Pack(timelocks)

\* "create" deploys an order's word and each create_escrow deploys it again.
Deploy(t) ==
  /\ word' = PackedSetDeployedAt(word, t)
  /\ timelocks' = SetDeployedAt(timelocks, t)

PackedNext == \E t \in U32 : Deploy(t)

PackedSpec == PackedInit /\ [][PackedNext]_packedVars

-----------------------------------------------------------------------------
\* However often a word is deployed, and whatever time it claims to be deployed
\* at when it is given to "create", each stage and the rescue start are read as
\* from the function: no field reaches into its neighbour.
PackedAgrees ==
  /\ \A n \in DOMAIN StageOrder : PackedGet(word, n) = StageTime(timelocks, StageOrder[n])
  /\ PackedRescueStart(word) = RescueStart(timelocks)

=============================================================================
