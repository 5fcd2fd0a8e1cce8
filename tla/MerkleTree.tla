---------------------------- MODULE MerkleTree ----------------------------
(***************************************************************************)
(* The Merkle tree of a replay manifest (packages/audit/src/chain.ts): the *)
(* loop of computeMerkleRootAndProofs, one layer a step, the inclusion     *)
(* proofs, and then the loop of verifyMerkleProof, one level a step, on    *)
(* the arguments a verifier was offered.                                   *)
(*                                                                         *)
(* A hash is a term: sha256 over tagged, fixed-length parts is injective.  *)
(* The chain hashes of a session are distinct, so event i's is <<i>>.      *)
(***************************************************************************)
EXTENDS Integers, Sequences

CONSTANTS
  MaxLeaves,       \* a bound: how many events a session has
  Offered(_)       \* the arguments tried on the tree with these layers: [leaf, proof]
ASSUME LeavesIsNat == MaxLeaves \in Nat

VARIABLES layers,                \* the tree, computed once for the root and the proofs
          leafChainHash, proof,  \* the arguments of verifyMerkleProof
          current, idx, level,   \* its loop
          verdict
vars == <<layers, leafChainHash, proof, current, idx, level, verdict>>

\* Defect: leaves carry no tag.
LeafHash_Untagged(h) == h
LeafHash(h) == <<"leaf", h>>
Hole == <<>>   \* no sibling at this level of the caller's array
NodeHash(left, right) == <<"node", left, right>>

\* Defect: the last node of an odd layer is promoted, not paired with itself.
NextLayer_Promotes(layer) ==
  [i \in 1 .. (Len(layer) + 1) \div 2 |->
     IF 2 * i <= Len(layer) THEN NodeHash(layer[2 * i - 1], layer[2 * i])
     ELSE layer[2 * i - 1]]

\* The last node of an odd layer is paired with itself.
NextLayer(layer) ==
  [i \in 1 .. (Len(layer) + 1) \div 2 |->
     NodeHash(layer[2 * i - 1],
              IF 2 * i <= Len(layer) THEN layer[2 * i] ELSE layer[2 * i - 1])]

Depth == Len(layers) - 1
Top == layers[Depth + 1]
EventCount == Len(layers[1])
MerkleRoot == Top[1]
ChainHash(position) == <<position>>

Direction(i) == IF i % 2 = 0 THEN "right" ELSE "left"

\* The positions above an index, up to a height.  They count from 0, as in the code.
Positions(index, height) ==
  LET at[k \in 0 .. height] == IF k = 0 THEN index ELSE at[k - 1] \div 2
  IN  at

\* The node a position is paired with in a layer: an odd layer's last one with itself.
Paired(layer, at) ==
  LET j == IF at % 2 = 0 THEN at + 1 ELSE at - 1
  IN  layer[(IF j < Len(layer) THEN j ELSE at) + 1]

\* proofFromLayers.
MerkleProof(index, tree) ==
  LET height == Len(tree) - 1
      at == Positions(index, height)
  IN  [index |-> index,
       siblings |-> [k \in 1 .. height |-> Paired(tree[k], at[k - 1])],
       directions |-> [k \in 1 .. height |-> Direction(at[k - 1])]]

---------------------------------------------------------------------------
Init ==
  /\ \E n \in 1 .. MaxLeaves : layers = << [i \in 1 .. n |-> LeafHash(ChainHash(i - 1))] >>
  /\ leafChainHash = Hole
  /\ proof = [index |-> 0, siblings |-> <<>>, directions |-> <<>>]
  /\ current = Hole /\ idx = 0 /\ level = 0
  /\ verdict = "building"

args == <<leafChainHash, proof>>

\* One more layer, up to the one that is the root.
Grow ==
  /\ verdict = "building" /\ Len(Top) > 1
  /\ layers' = Append(layers, NextLayer(Top))
  /\ UNCHANGED <<args, current, idx, level, verdict>>

Array(s) == s \in Seq({s[i] : i \in DOMAIN s})

Built == verdict = "building" /\ Len(Top) = 1

\* The arguments, of the types that verifyMerkleProof declares.
Called(leaf, p) ==
  /\ p = [index |-> p.index, siblings |-> p.siblings, directions |-> p.directions]
  /\ p.index \in Int /\ Array(p.siblings) /\ Array(p.directions)
  /\ leafChainHash' = leaf /\ proof' = p

\* Defect: a negative index is not refused.
Start_Signed(leaf, p) ==
  /\ Called(leaf, p)
  /\ Len(p.siblings) = Len(p.directions)
  /\ current' = LeafHash(leaf) /\ idx' = p.index
  /\ verdict' = "climbing"
  /\ UNCHANGED <<layers, level>>

Start(leaf, p) ==
  /\ Called(leaf, p)
  /\ p.index >= 0 /\ Len(p.siblings) = Len(p.directions)
  /\ current' = LeafHash(leaf) /\ idx' = p.index
  /\ verdict' = "climbing"
  /\ UNCHANGED <<layers, level>>

Malformed(leaf, p) ==
  /\ Called(leaf, p)
  /\ p.index < 0 \/ Len(p.siblings) # Len(p.directions)
  /\ verdict' = "refused"
  /\ UNCHANGED <<layers, current, idx, level>>

Climb ==
  /\ verdict = "climbing" /\ level < Len(proof.siblings)
  /\ LET sibling == proof.siblings[level + 1] IN
     IF proof.directions[level + 1] # Direction(idx) \/ sibling = Hole
     THEN verdict' = "refused" /\ UNCHANGED <<current, idx, level>>
     ELSE /\ current' = IF Direction(idx) = "right" THEN NodeHash(current, sibling)
                        ELSE NodeHash(sibling, current)
          /\ idx' = idx \div 2
          /\ level' = level + 1
          /\ UNCHANGED verdict
  /\ UNCHANGED <<layers, args>>

\* Defect: index bits left over after the climb are ignored.
Finish_BitsLeft ==
  /\ verdict = "climbing" /\ level = Len(proof.siblings)
  /\ verdict' = IF current = MerkleRoot THEN "accepted" ELSE "refused"
  /\ UNCHANGED <<layers, args, current, idx, level>>

Finish ==
  /\ verdict = "climbing" /\ level = Len(proof.siblings)
  /\ verdict' = IF idx = 0 /\ current = MerkleRoot THEN "accepted" ELSE "refused"
  /\ UNCHANGED <<layers, args, current, idx, level>>

Next ==
  \/ Grow
  \/ Built /\ \E try \in Offered(layers) :
               Start(try.leaf, try.proof) \/ Malformed(try.leaf, try.proof)
  \/ Climb
  \/ Finish
Spec == Init /\ [][Next]_vars

---------------------------------------------------------------------------
TypeOK ==
  /\ idx \in Nat /\ level \in 0 .. Len(proof.siblings)
  /\ verdict \in {"building", "climbing", "accepted", "refused"}

\* A proof accepted for a position of the session (the verifier compares it with the
\* signed eventCount) is the proof of that position, and for the event there: no
\* other event, and no inner node of the tree, can stand at it.
PositionBound ==
  verdict = "accepted" /\ proof.index < EventCount =>
    /\ leafChainHash = ChainHash(proof.index)
    /\ proof = MerkleProof(proof.index, layers)

\* The node that a bit leads to, below one: where an odd layer has no neighbour for its
\* last node, that node stands for both.
Below(at, bit, layer) ==
  LET j == 2 * at + bit
  IN  IF j < Len(layer) THEN j ELSE j - 1

\* Where the bits of an index lead, m levels below the root.
Descent(index, tree) ==
  LET height == Len(tree) - 1
      at == Positions(index, height)
      below[m \in 0 .. height] ==
        IF m = 0 THEN 0
        ELSE Below(below[m - 1], at[height - m] % 2, tree[height - m + 1])
  IN  below

EventAt(index) == Descent(index, layers)[Depth]

\* Past the session's own positions, only the copies that pad odd layers verify, each
\* for the event it copies, and no index of which a bit is left above the root.
NoOtherPosition ==
  verdict = "accepted" =>
    /\ Positions(proof.index, Depth)[Depth] = 0
    /\ leafChainHash = ChainHash(EventAt(proof.index))

\* The proofs the manifest carries verify.
HonestAccepted ==
  \A i \in 0 .. EventCount - 1 :
    proof = MerkleProof(i, layers) /\ leafChainHash = ChainHash(i) => verdict # "refused"

=============================================================================
