----------------------------- MODULE MCAlgorithms -----------------------------
(***************************************************************************)
(* The pure algorithms on small inputs, one of them in each behaviour.     *)
(***************************************************************************)
EXTENDS RateBumpLoop, PackedTimelocks, MerkleTree

CONSTANTS h0, h1, h2, h3

\* Auctions of up to two points, rising, falling, coinciding or past the end.
Rates == {0, 1, 3, 6}
Points == [rate_bump : Rates, time_delta : 0..2]
MCAuctions ==
  [start_time : {1}, duration : 0..4, initial_rate_bump : Rates,
   points : UNION {[1..n -> Points] : n \in 0..2}]

\* Trees of two to five secrets; the last one uses a secret twice.
MCTrees == {<<h0, h1>>, <<h0, h1, h2>>, <<h0, h1, h2, h3>>, <<h0, h1, h2, h3, h0>>}

VARIABLE algorithm  \* the one that runs; the others rest at an input

AuctionAtRest ==
  /\ timestamp = 0
  /\ data = [start_time |-> 1, duration |-> 0, initial_rate_bump |-> 0, points |-> <<>>]
  /\ AuctionInit
PackedAtRest == timelocks = NoTimelocks /\ PackedInit
MerkleAtRest == tree = <<h0, h1>> /\ index = 0 /\ hashed_secret = h0 /\ MerkleInit

Init ==
  \/ algorithm = "auction" /\ AuctionInit /\ PackedAtRest /\ MerkleAtRest
  \/ algorithm = "timelocks" /\ AuctionAtRest /\ PackedInit /\ MerkleAtRest
  \/ algorithm = "merkle" /\ AuctionAtRest /\ PackedAtRest /\ MerkleInit

Next ==
  \/ algorithm = "auction" /\ AuctionNext /\ UNCHANGED <<algorithm, packedVars, merkleVars>>
  \/ algorithm = "timelocks" /\ PackedNext /\ UNCHANGED <<algorithm, auctionVars, merkleVars>>
  \/ algorithm = "merkle" /\ MerkleNext /\ UNCHANGED <<algorithm, auctionVars, packedVars>>

Spec == Init /\ [][Next]_<<algorithm, auctionVars, packedVars, merkleVars>>

=============================================================================
