\* The rate of an auction, the packed timelocks and the proofs of a Merkle tree,
\* on all of their inputs below the bounds. Every algorithm comes to an end.
SPECIFICATION Spec
CONSTANTS
  h0 = h0
  h1 = h1
  h2 = h2
  h3 = h3
  MAX_U32 = 2
  MAX_U64 = 100
  MAX_U256 = 1000
  BASE_1E7 = 10
  RESCUE_DELAY = 1
  Timestamps = {0, 1, 2, 3, 4, 5, 6}
  Auctions <- MCAuctions
  BYTE = 2
  HashedSecrets = {h0, h1, h2, h3}
  Trees <- MCTrees
  MaxProof = 3
INVARIANTS
  LoopComputesRate
  LoopInsideAuction
  RateFalls
  PackedAgrees
  OnlyLeavesVerify
  EveryLeafVerifies
CHECK_DEADLOCK FALSE
