------------------------------ MODULE MerkleTree ------------------------------
(***************************************************************************)
(* programs/cross-chain-escrow-src/src/merkle_tree.rs: a taker proves that *)
(* a hashed secret belongs to an order that allows multiple fills.         *)
(*                                                                         *)
(* The hash is ideal: two digests are equal only if they are made of the   *)
(* same things.  The comparison of a root without its first two bytes,     *)
(* which hold the number of parts, is taken to be as good as the full one. *)
(* The tree is built off chain, here the way the helpers of the            *)
(* repository's tests build it, and "proof" is any sequence of digests.    *)
(***************************************************************************)
EXTENDS Integers, Sequences

CONSTANTS HashedSecrets,  \* the hashes of secrets
          Trees,          \* sequences of hashed secrets, one for each index from 0
          MaxProof        \* bound on the length of a proof

ASSUME MerkleAssumption ==
  /\ Trees \subseteq Seq(HashedSecrets)
  /\ \A tree \in Trees : Len(tree) > 1
  /\ MaxProof \in Nat

VARIABLES tree,                  \* the maker's hashed secrets
          index, hashed_secret,  \* what the taker claims
          proof,                 \* the elements of the proof so far
          computed_hash

merkleVars == <<tree, index, hashed_secret, proof, computed_hash>>

-----------------------------------------------------------------------------
\* Digests.

\* Mutant: the index is not hashed.
HashLeaf_NoIndex(i, h) == <<"leaf", h>>

HashLeaf(i, h) == <<"leaf", <<i, h>>>>

\* Mutant: the pair is hashed as given.
HashPair_AsGiven(a, b) == <<"pair", <<a, b>>>>

\* min and max before hashing make the pair unordered.
HashPair(a, b) == <<"pair", {a, b}>>

ZERO == <<"zero", 0>>

-----------------------------------------------------------------------------
\* The maker's tree.

\* The last node of an odd level is paired with zero.
HashLevel(level) ==
  [n \in 1 .. (Len(level) + 1) \div 2 |->
     HashPair(level[2 * n - 1], IF 2 * n <= Len(level) THEN level[2 * n] ELSE ZERO)]

\* The levels from the leaves up; a level of one node is the root's.
Levels ==
  LET level[d \in 0..Len(tree)] ==
        IF d = 0 THEN [n \in DOMAIN tree |-> HashLeaf(n - 1, tree[n])]
        ELSE IF Len(level[d - 1]) = 1 THEN level[d - 1] ELSE HashLevel(level[d - 1])
  IN  level

Root == Levels[Len(tree)][1]
Height == CHOOSE d \in 0..Len(tree) : Len(Levels[d]) = 1 /\ \A e \in 0..d-1 : Len(Levels[e]) > 1

\* The nodes on the way up from the leaf of index i: their places, from 0, on
\* each level.
Way(i) ==
  LET node[d \in 0..Len(tree)] == IF d = 0 THEN i ELSE node[d - 1] \div 2
  IN  node

\* The siblings on the way.
GetProof(i) ==
  [d \in 1..Height |->
     LET level == Levels[d - 1]
         node == Way(i)[d - 1]
     IN  IF node % 2 = 1 THEN level[node]
         ELSE IF node + 1 = Len(level) THEN ZERO ELSE level[node + 2]]

Digests == {ZERO} \cup UNION {{Levels[d][n] : n \in DOMAIN Levels[d]} : d \in 0..Height}

-----------------------------------------------------------------------------
\* process_proof: the loop over the proof's elements.

MerkleInit ==
  /\ tree \in Trees
  /\ index \in 0..Len(tree) /\ hashed_secret \in HashedSecrets
  /\ proof = <<>>
  /\ computed_hash = HashLeaf(index, hashed_secret)

Climb(proof_element) ==
  /\ Len(proof) < MaxProof
  /\ proof' = Append(proof, proof_element)
  /\ computed_hash' = HashPair(proof_element, computed_hash)
  /\ UNCHANGED <<tree, index, hashed_secret>>

MerkleNext == \E e \in Digests : Climb(e)

MerkleSpec == MerkleInit /\ [][MerkleNext]_merkleVars

\* What create_escrow asks of the proof.
Verified == computed_hash = Root

-----------------------------------------------------------------------------
\* No proof of any length makes a hashed secret pass for one that is not in the
\* tree, or for one of another index, on which is_valid_partial_fill relies.
OnlyLeavesVerify == Verified => index < Len(tree) /\ hashed_secret = tree[index + 1]

\* Every hashed secret of the tree, in trees of every shape, is verified by the
\* proof that is made for it: no part of an order is out of the takers' reach.
EveryLeafVerifies ==
  (index < Len(tree) /\ hashed_secret = tree[index + 1] /\ proof = GetProof(index)) => Verified

=============================================================================
