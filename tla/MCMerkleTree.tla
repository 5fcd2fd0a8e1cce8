--------------------------- MODULE MCMerkleTree ---------------------------
(***************************************************************************)
(* MerkleTree for TLC: what a verifier is offered.                         *)
(***************************************************************************)
EXTENDS MerkleTree, SequencesExt

Nodes(tree) == UNION {ToSet(tree[k]) : k \in DOMAIN tree}

\* A proof with one edit of its path.
Edits(p, nodes) ==
  LET n == Len(p.siblings) IN
  {p} \cup {[p EXCEPT !.siblings[k] = h] : k \in 1 .. n, h \in nodes \cup {Hole}}
      \cup {[p EXCEPT !.directions[k] = IF @ = "left" THEN "right" ELSE "left"] : k \in 1 .. n}
      \cup {[p EXCEPT !.siblings = Append(@, h)] : h \in nodes}
      \cup {[p EXCEPT !.siblings = Append(@, h), !.directions = Append(@, "right")] :
              h \in nodes}
      \cup {[p EXCEPT !.siblings = SubSeq(@, k, m), !.directions = SubSeq(@, k, m)] :
              k \in 1 .. 2, m \in 0 .. n}

\* Each chain hash and each node of the tree, with the tree's proofs under any index.
MCOffered(tree) ==
  LET n == Len(tree[1])
      nodes == Nodes(tree)
  IN  [leaf : {ChainHash(i) : i \in 0 .. n - 1} \cup nodes,
       proof : UNION {Edits([MerkleProof(i, tree) EXCEPT !.index = j], nodes) :
                        i \in 0 .. n - 1, j \in -1 .. 2 * n}]

=============================================================================
