------------------------- MODULE MerkleTree_proofs -------------------------
(***************************************************************************)
(* Theorems about MerkleTree, for trees of any number of leaves and any    *)
(* arguments that verifyMerkleProof may be called with.                    *)
(***************************************************************************)
EXTENDS MerkleTree, WellFoundedInduction, TLAPS

(***************************************************************************)
(* Hashes.                                                                 *)
(***************************************************************************)
\* The tags keep leaves, inner nodes and holes apart, and no two hash the same parts.
LEMMA HashesApart ==
  /\ \A h, l, r : LeafHash(h) # NodeHash(l, r) /\ LeafHash(h) # Hole /\ NodeHash(l, r) # Hole
  /\ \A h, g : LeafHash(h) = LeafHash(g) => h = g
  /\ \A i, j : ChainHash(i) = ChainHash(j) => i = j
  /\ \A a, b, c, d : NodeHash(a, b) = NodeHash(c, d) => a = c /\ b = d
<1>1. ASSUME NEW h, NEW l, NEW r
      PROVE  LeafHash(h) # NodeHash(l, r) /\ LeafHash(h) # Hole /\ NodeHash(l, r) # Hole
  BY DEF LeafHash, NodeHash, Hole
<1>2. ASSUME NEW h, NEW g, LeafHash(h) = LeafHash(g) PROVE h = g
  BY <1>2 DEF LeafHash
<1>3. ASSUME NEW i, NEW j, ChainHash(i) = ChainHash(j) PROVE i = j
  BY <1>3 DEF ChainHash
<1>4. ASSUME NEW a, NEW b, NEW c, NEW d, NodeHash(a, b) = NodeHash(c, d)
      PROVE  a = c /\ b = d
  BY <1>4 DEF NodeHash
<1> QED BY <1>1, <1>2, <1>3, <1>4

---------------------------------------------------------------------------
(***************************************************************************)
(* Positions.                                                              *)
(***************************************************************************)
\* A set that holds 0 and with every number the next holds them all.
LEMMA NatSetInduction ==
  ASSUME NEW S, 0 \in S, \A n \in Nat : n \in S => n + 1 \in S
  PROVE  Nat \subseteq S
<1> DEFINE T == Nat \ S
           R == OpToRel(<, Nat)
<1> SUFFICES ASSUME T # {} PROVE FALSE
  OBVIOUS
<1>1. \A x, y \in Nat : x < y => <<x, y>> \in R
  BY DEF OpToRel
<1>2. IsWellFoundedOn(R, Nat)
  BY NatLessThanWellFounded, Zenon
<1>3. T \subseteq Nat
  OBVIOUS
<1> HIDE DEF R, T
<1>4. PICK x \in T : \A y \in T : ~ (<<y, x>> \in R)
  BY <1>2, <1>3, WFMin
<1>5. x \in Nat /\ x # 0 /\ x \notin S
  BY <1>4 DEF T
<1>6. x - 1 \in Nat /\ x - 1 < x /\ (x - 1) + 1 = x
  BY <1>5
<1>7. x - 1 \in S
  BY <1>1, <1>4, <1>5, <1>6 DEF T
<1> QED BY <1>5, <1>6, <1>7

IsPositions(at, index, height) ==
  at = [k \in 0 .. height |-> IF k = 0 THEN index ELSE at[k - 1] \div 2]

\* The positions above an index are the halves of one another.
Halving(at, index, height) ==
  /\ at[0] = index
  /\ \A k \in 0 .. height : at[k] \in Nat
  /\ \A k \in 1 .. height : at[k] = at[k - 1] \div 2

LEMMA PositionsHalve ==
  ASSUME NEW index \in Nat, NEW height \in Nat
  PROVE  Halving(Positions(index, height), index, height)
<1> DEFINE S == {n \in Nat : \E at : IsPositions(at, index, n)}
<1>1. 0 \in S
  <2>1. IsPositions([k \in 0 .. 0 |-> index], index, 0)
    BY DEF IsPositions
  <2> QED BY <2>1
<1>2. ASSUME NEW n \in Nat, n \in S PROVE n + 1 \in S
  <2>1. PICK at : IsPositions(at, index, n)
    BY <1>2
  <2> DEFINE next == [k \in 0 .. (n + 1) |-> IF k = n + 1 THEN at[n] \div 2 ELSE at[k]]
  <2>2. \A k \in 0 .. n : at[k] = IF k = 0 THEN index ELSE at[k - 1] \div 2
    BY <2>1 DEF IsPositions
  <2>3. \A k \in 0 .. (n + 1) : next[k] = IF k = 0 THEN index ELSE next[k - 1] \div 2
    BY <2>2
  <2>4. next = [k \in 0 .. (n + 1) |-> next[k]]
    OBVIOUS
  <2> HIDE DEF next
  <2>5. IsPositions(next, index, n + 1)
    BY <2>3, <2>4 DEF IsPositions
  <2> QED BY <2>5
<1> HIDE DEF S
<1>3. Nat \subseteq S
  BY <1>1, <1>2, NatSetInduction
<1>4. \E at : IsPositions(at, index, height)
  BY <1>3 DEF S
<1> DEFINE at == Positions(index, height)
<1>5. IsPositions(at, index, height)
  BY <1>4 DEF IsPositions, Positions
<1> HIDE DEF at
<1>6. \A k \in 0 .. height : at[k] = IF k = 0 THEN index ELSE at[k - 1] \div 2
  BY <1>5 DEF IsPositions
<1> DEFINE Known == {k \in Nat : k <= height => at[k] \in Nat}
<1>7. 0 \in Known
  BY <1>6
<1>8. ASSUME NEW k \in Nat, k \in Known PROVE k + 1 \in Known
  <2>1. CASE k + 1 <= height
    <3>1. at[k] \in Nat /\ at[k + 1] = at[k] \div 2
      BY <1>6, <1>8, <2>1
    <3> QED BY <3>1
  <2> QED BY <2>1
<1>9. Nat \subseteq Known
  <2> HIDE DEF Known
  <2> QED BY <1>7, <1>8, NatSetInduction
<1> QED BY <1>6, <1>9 DEF at, Halving

---------------------------------------------------------------------------
(***************************************************************************)
(* Layers.                                                                 *)
(***************************************************************************)
IsArray(s) == Array(s) /\ Len(s) \in Nat /\ DOMAIN s = 1 .. Len(s)

LEMMA ArrayIs == ASSUME NEW s, Array(s) PROVE IsArray(s)
BY DEF Array, IsArray

\* A function on 1..n is an array.
LEMMA ArrayOf ==
  ASSUME NEW n \in Nat, NEW s, s = [i \in 1 .. n |-> s[i]]
  PROVE  IsArray(s) /\ Len(s) = n
<1> DEFINE T == {s[i] : i \in 1 .. n}
<1>1. s \in Seq(T) /\ Len(s) = n /\ DOMAIN s = 1 .. n
  BY SMT
<1> QED BY <1>1 DEF Array, IsArray

\* Each node of the next layer is above two places of this one, or twice above its last
\* (nextLayer).
NodeAbove(layer, next, j) ==
  /\ 2 * j - 1 \in 1 .. Len(layer)
  /\ next[j] = NodeHash(layer[2 * j - 1],
                        IF 2 * j <= Len(layer) THEN layer[2 * j] ELSE layer[2 * j - 1])

Stands(layer) == IsArray(layer) /\ Len(layer) >= 1

StandsOn(next, layer) ==
  /\ Len(next) = (Len(layer) + 1) \div 2
  /\ \A j \in 1 .. Len(next) : NodeAbove(layer, next, j)

LEMMA NextLayerIs ==
  ASSUME NEW layer, Stands(layer)
  PROVE  Stands(NextLayer(layer)) /\ StandsOn(NextLayer(layer), layer)
<1> DEFINE n == (Len(layer) + 1) \div 2
           next == NextLayer(layer)
<1>1. n \in Nat /\ n >= 1 /\ Len(layer) \in Nat
  BY DEF Stands, IsArray
<1>2. \A j \in 1 .. n : 2 * j - 1 \in 1 .. Len(layer)
  BY <1>1
<1>3. next = [j \in 1 .. n |-> next[j]]
  BY DEF NextLayer
<1>4. \A j \in 1 .. n :
        next[j] = NodeHash(layer[2 * j - 1],
                           IF 2 * j <= Len(layer) THEN layer[2 * j] ELSE layer[2 * j - 1])
  BY DEF NextLayer
<1> HIDE DEF n, next
<1>5. IsArray(next) /\ Len(next) = n
  BY <1>1, <1>3, ArrayOf
<1>6. \A j \in 1 .. n : NodeAbove(layer, next, j)
  BY <1>2, <1>4 DEF NodeAbove
<1> QED BY <1>1, <1>5, <1>6 DEF n, next, Stands, StandsOn

\* The layers stand on each other and on the events' hashes.
IsTree(tree) ==
  /\ IsArray(tree) /\ Len(tree) >= 1
  /\ \A m \in 1 .. Len(tree) : Stands(tree[m])
  /\ \A j \in 1 .. Len(tree[1]) : tree[1][j] = LeafHash(ChainHash(j - 1))
  /\ \A m \in 1 .. Len(tree) : m + 1 <= Len(tree) => StandsOn(tree[m + 1], tree[m])

\* One more layer.
LEMMA Raised ==
  ASSUME NEW tree, IsTree(tree), NEW next, Stands(next), StandsOn(next, tree[Len(tree)])
  PROVE  IsTree(Append(tree, next)) /\ Len(tree) \in Nat
<1>1. PICK n \in Nat : n = Len(tree) /\ n >= 1
  BY DEF IsTree, IsArray
<1> DEFINE T == {tree[i] : i \in DOMAIN tree} \cup {next}
<1>2. tree \in Seq(T) /\ next \in T
  BY DEF IsTree, IsArray, Array
<1> HIDE DEF T
<1> DEFINE grown == Append(tree, next)
<1>3. /\ grown \in Seq(T) /\ Len(grown) = n + 1 /\ DOMAIN grown = 1 .. n + 1
      /\ grown[n + 1] = next /\ \A m \in 1 .. n : grown[m] = tree[m]
  BY <1>1, <1>2
<1> HIDE DEF grown
<1>4. IsArray(grown) /\ Len(grown) >= 1
  BY <1>1, <1>3 DEF IsArray, Array
<1>5. ASSUME NEW m \in 1 .. Len(grown) PROVE Stands(grown[m])
  <2>1. m = n + 1 \/ m \in 1 .. n
    BY <1>1, <1>3
  <2> QED BY <1>1, <1>3, <2>1 DEF IsTree
<1>6. \A j \in 1 .. Len(grown[1]) : grown[1][j] = LeafHash(ChainHash(j - 1))
  <2>1. grown[1] = tree[1]
    BY <1>1, <1>3
  <2>2. \A j \in 1 .. Len(tree[1]) : tree[1][j] = LeafHash(ChainHash(j - 1))
    BY DEF IsTree
  <2> QED BY <2>1, <2>2, Zenon
<1>7. ASSUME NEW m \in 1 .. Len(grown), m + 1 <= Len(grown)
      PROVE  StandsOn(grown[m + 1], grown[m])
  <2>1. m = n \/ (m \in 1 .. n /\ m + 1 \in 1 .. n)
    BY <1>1, <1>3, <1>7
  <2>2. CASE m = n
    BY <1>1, <1>3, <2>2
  <2>3. CASE m \in 1 .. n /\ m + 1 \in 1 .. n
    <3>1. StandsOn(tree[m + 1], tree[m])
      BY <1>1, <2>3 DEF IsTree
    <3> QED BY <1>3, <2>3, <3>1
  <2> QED BY <2>1, <2>2, <2>3
<1>8. IsTree(grown)
  BY <1>4, <1>5, <1>6, <1>7 DEF IsTree
<1> QED BY <1>1, <1>8 DEF grown

\* The loop of computeMerkleRootAndProofs builds such a tree.
LEMMA GrowStep ==
  ASSUME IsTree(layers), Grow
  PROVE  IsTree(layers')
<1>1. Len(layers) \in Nat /\ Len(layers) >= 1
  BY DEF IsTree, IsArray
<1>2. Top = layers[Len(layers)]
  BY <1>1 DEF Top, Depth
<1>3. Stands(Top)
  BY <1>1, <1>2 DEF IsTree
<1>4. IsTree(Append(layers, NextLayer(Top)))
  BY <1>2, <1>3, NextLayerIs, Raised
<1> QED BY <1>4 DEF Grow

---------------------------------------------------------------------------
(***************************************************************************)
(* The climb.                                                              *)
(***************************************************************************)
\* A node hash that is in the tree is above a layer that holds its parts.
LEMMA PartsBelow ==
  ASSUME NEW tree, IsTree(tree), NEW m \in 1 .. Len(tree), NEW j \in 1 .. Len(tree[m]),
         NEW a, NEW b, NodeHash(a, b) = tree[m][j]
  PROVE  /\ m > 1 /\ 2 * j - 1 \in 1 .. Len(tree[m - 1])
         /\ a = tree[m - 1][2 * j - 1]
         /\ b = IF 2 * j <= Len(tree[m - 1]) THEN tree[m - 1][2 * j] ELSE tree[m - 1][2 * j - 1]
<1>1. Len(tree) \in Nat
  BY DEF IsTree, IsArray
<1>2. m # 1
  <2>1. ASSUME m = 1 PROVE FALSE
    <3>1. tree[1][j] = LeafHash(ChainHash(j - 1))
      BY <2>1 DEF IsTree
    <3> QED BY <2>1, <3>1, HashesApart
  <2> QED BY <2>1
<1>3. m - 1 \in 1 .. Len(tree) /\ m > 1 /\ (m - 1) + 1 = m
  BY <1>1, <1>2
<1>4. StandsOn(tree[m], tree[m - 1])
  BY <1>1, <1>3 DEF IsTree
<1>5. NodeAbove(tree[m - 1], tree[m], j)
  BY <1>4 DEF StandsOn
<1> QED BY <1>3, <1>5, HashesApart DEF NodeAbove

\* A leaf hash that is in the tree is an event's, on the first layer.
LEMMA LeafPlace ==
  ASSUME NEW tree, IsTree(tree), NEW m \in 1 .. Len(tree), NEW j \in 1 .. Len(tree[m]),
         NEW leaf, LeafHash(leaf) = tree[m][j]
  PROVE  m = 1 /\ leaf = ChainHash(j - 1)
<1>1. CASE m = 1
  <2>1. tree[1][j] = LeafHash(ChainHash(j - 1))
    BY <1>1 DEF IsTree
  <2> QED BY <1>1, <2>1, HashesApart
<1>2. CASE m > 1
  <2>1. Len(tree) \in Nat
    BY DEF IsTree, IsArray
  <2>2. m - 1 \in 1 .. Len(tree) /\ (m - 1) + 1 = m /\ m <= Len(tree)
    BY <1>2, <2>1
  <2>3. StandsOn(tree[m], tree[m - 1])
    BY <2>2 DEF IsTree
  <2>4. NodeAbove(tree[m - 1], tree[m], j)
    BY <2>3 DEF StandsOn
  <2> QED BY <2>4, HashesApart DEF NodeAbove
<1> QED BY <1>1, <1>2

\* The arguments have their types once the call is made.
Arguments ==
  /\ proof = [index |-> proof.index, siblings |-> proof.siblings,
              directions |-> proof.directions]
  /\ proof.index \in Nat
  /\ IsArray(proof.siblings) /\ IsArray(proof.directions)
  /\ Len(proof.siblings) = Len(proof.directions)

Running == verdict \in {"climbing", "accepted"}

\* How far the loop has come.
Loop ==
  /\ verdict \in {"building", "climbing", "accepted", "refused"}
  /\ idx \in Nat /\ level \in Nat /\ level <= Len(proof.siblings)
  /\ Len(proof.siblings) \in Nat
  /\ verdict = "building" => level = 0
  /\ verdict # "building" => Len(Top) = 1
  /\ Running => Arguments
  /\ verdict = "accepted" => idx = 0 /\ current = MerkleRoot /\ level = Len(proof.siblings)

TreeInv == IsTree(layers) /\ Loop

\* A step of the loop that goes on.
Rises ==
  LET sibling == proof.siblings[level + 1] IN
  /\ verdict = "climbing" /\ level < Len(proof.siblings)
  /\ UNCHANGED <<layers, args, verdict>>
  /\ proof.directions[level + 1] = Direction(idx)
  /\ current' = IF Direction(idx) = "right" THEN NodeHash(current, sibling)
                ELSE NodeHash(sibling, current)
  /\ idx' = idx \div 2 /\ level' = level + 1

\* The steps, by what they do to the climb.
LEMMA StepKinds ==
  ASSUME [Next]_vars
  PROVE  \/ Grow
         \/ \E leaf, p : Built /\ (Start(leaf, p) \/ Malformed(leaf, p))
         \/ Rises
         \/ /\ verdict = "climbing" /\ verdict' = "refused"
            /\ UNCHANGED <<layers, args, current, idx, level>>
            /\ \/ /\ level < Len(proof.siblings)
                  /\ \/ proof.directions[level + 1] # Direction(idx)
                     \/ proof.siblings[level + 1] = Hole
               \/ level = Len(proof.siblings) /\ ~ (idx = 0 /\ current = MerkleRoot)
         \/ /\ verdict = "climbing" /\ verdict' = "accepted"
            /\ level = Len(proof.siblings) /\ idx = 0 /\ current = MerkleRoot
            /\ UNCHANGED <<layers, args, current, idx, level>>
         \/ UNCHANGED vars
<1>1. ASSUME Climb
      PROVE  \/ Rises
             \/ /\ verdict = "climbing" /\ verdict' = "refused"
                /\ UNCHANGED <<layers, args, current, idx, level>>
                /\ level < Len(proof.siblings)
                /\ \/ proof.directions[level + 1] # Direction(idx)
                   \/ proof.siblings[level + 1] = Hole
  BY <1>1 DEF Climb, Rises, args
<1>2. CASE Finish
  BY <1>2 DEF Finish
<1> QED BY <1>1, <1>2 DEF Next

\* Every step keeps the tree and the loop as they should be.
LEMMA TreeStep ==
  ASSUME TreeInv, [Next]_vars
  PROVE  TreeInv'
<1> USE DEF TreeInv
<1>1. CASE Grow
  <2>1. IsTree(layers')
    BY <1>1, GrowStep
  <2> QED BY <1>1, <2>1 DEF Grow, Loop, Running, Arguments, args
<1>2. ASSUME NEW leaf, NEW p, Built, Start(leaf, p) PROVE TreeInv'
  <2>1. /\ p = [index |-> p.index, siblings |-> p.siblings, directions |-> p.directions]
        /\ p.index \in Nat
        /\ IsArray(p.siblings) /\ IsArray(p.directions) /\ Len(p.siblings) = Len(p.directions)
        /\ proof' = p /\ layers' = layers /\ level' = 0 /\ idx' = p.index
        /\ verdict' = "climbing" /\ Len(Top) = 1
    BY <1>2, ArrayIs DEF Start, Called, Built, Loop
  <2>2. Len(p.siblings) \in Nat
    BY <2>1 DEF IsArray
  <2> QED BY <2>1, <2>2 DEF Loop, Running, Arguments, Top, Depth
<1>3. ASSUME NEW leaf, NEW p, Built, Malformed(leaf, p) PROVE TreeInv'
  <2>1. /\ IsArray(p.siblings) /\ proof' = p /\ layers' = layers /\ level' = 0
        /\ idx' = idx /\ verdict' = "refused" /\ Len(Top) = 1
    BY <1>3, ArrayIs DEF Malformed, Called, Built, Loop
  <2>2. Len(p.siblings) \in Nat
    BY <2>1 DEF IsArray
  <2> QED BY <2>1, <2>2 DEF Loop, Running, Arguments, Top, Depth
<1>4. CASE Rises
  <2>1. idx' \in Nat
    BY <1>4 DEF Rises, Loop
  <2> QED BY <1>4, <2>1 DEF Rises, Loop, Running, Arguments, Top, Depth, args
<1>5. ASSUME verdict = "climbing", verdict' \in {"refused", "accepted"},
             UNCHANGED <<layers, args, current, idx, level>>,
             verdict' = "accepted" =>
               level = Len(proof.siblings) /\ idx = 0 /\ current = MerkleRoot
      PROVE  TreeInv'
  BY <1>5 DEF Loop, Running, Arguments, Top, Depth, MerkleRoot, args
<1>6. CASE UNCHANGED vars
  BY <1>6 DEF Loop, Running, Arguments, Top, Depth, MerkleRoot, vars
<1> QED BY <1>1, <1>2, <1>3, <1>4, <1>5, <1>6, StepKinds

LEMMA TreeInit == Init => TreeInv
<1> SUFFICES ASSUME Init PROVE TreeInv
  OBVIOUS
<1>1. PICK n \in 1 .. MaxLeaves :
        layers = << [i \in 1 .. n |-> LeafHash(ChainHash(i - 1))] >>
  BY DEF Init
<1> DEFINE leaves == [i \in 1 .. n |-> LeafHash(ChainHash(i - 1))]
<1>2. n \in Nat /\ n >= 1
  BY LeavesIsNat
<1>3. leaves = [i \in 1 .. n |-> leaves[i]]
  OBVIOUS
<1>4. \A j \in 1 .. n : leaves[j] = LeafHash(ChainHash(j - 1))
  OBVIOUS
<1> HIDE DEF leaves
<1>5. IsArray(leaves) /\ Len(leaves) = n
  BY <1>2, <1>3, ArrayOf
<1>6. layers = <<leaves>>
  BY <1>1 DEF leaves
<1>7. layers \in Seq({leaves}) /\ Len(layers) = 1 /\ layers[1] = leaves /\ DOMAIN layers = 1 .. 1
  BY <1>6
<1>8. IsArray(layers)
  BY <1>7 DEF IsArray, Array
<1>9. \A j \in 1 .. Len(layers[1]) : layers[1][j] = LeafHash(ChainHash(j - 1))
  BY <1>4, <1>5, <1>7
<1>10. IsTree(layers)
  BY <1>2, <1>5, <1>7, <1>8, <1>9 DEF IsTree, Stands
<1>11. Loop
  BY DEF Init, Loop, Running
<1> QED BY <1>10, <1>11 DEF TreeInv

\* The loop never leaves the path it was given, and its counters stay counters.
THEOREM TypeCorrect == Spec => []TypeOK
<1>1. TreeInv => TypeOK
  BY DEF TreeInv, Loop, TypeOK
<1> QED BY <1>1, TreeInit, TreeStep, PTL DEF Spec

---------------------------------------------------------------------------
(***************************************************************************)
(* Positions of the session.                                               *)
(***************************************************************************)
\* Where the loop stands: at the position above the index that it has climbed to, and at a
\* node of the tree only on the layer it has climbed to.
Place ==
  Running =>
    /\ level <= Depth => idx = Positions(proof.index, Depth)[level]
    /\ \A m \in 1 .. Len(layers) : \A j \in 1 .. Len(layers[m]) :
         current = layers[m][j] => m = level + 1

\* The arguments show at level k what the tree's own proof of the index has there.
Own(k) ==
  /\ proof.siblings[k] = Paired(layers[k], Positions(proof.index, Depth)[k - 1])
  /\ proof.directions[k] = Direction(Positions(proof.index, Depth)[k - 1])

\* At a position of the session, being at its node on this layer it has come from the
\* event there, by the path the tree has for it.
OnPath ==
  Running /\ level <= Depth /\ proof.index < EventCount =>
    /\ idx < Len(layers[level + 1])
    /\ current = layers[level + 1][idx + 1] =>
         /\ leafChainHash = ChainHash(proof.index)
         /\ \A k \in 1 .. level : Own(k)

ClimbInv == TreeInv /\ Place /\ OnPath

\* Even positions are on the left, and each has its parent at half of it.
LEMMA Halved ==
  ASSUME NEW i \in Nat
  PROVE  /\ i \div 2 \in Nat
         /\ Direction(i) = "right" => i % 2 = 0 /\ i = 2 * (i \div 2)
         /\ Direction(i) # "right" => i % 2 = 1 /\ i = 2 * (i \div 2) + 1
BY DEF Direction

\* Halves stay in bounds.
LEMMA HalfBelow ==
  ASSUME NEW i \in Nat, NEW n \in Nat, i < n
  PROVE  i \div 2 \in Nat /\ i \div 2 < (n + 1) \div 2
OBVIOUS

\* What the layers are, by number.
LEMMA LayersAre ==
  ASSUME TreeInv
  PROVE  /\ Depth \in Nat /\ Len(layers) = Depth + 1
         /\ \A m \in 1 .. Len(layers) : Len(layers[m]) \in Nat /\ Len(layers[m]) >= 1
         /\ \A m \in 1 .. Depth : Len(layers[m + 1]) = (Len(layers[m]) + 1) \div 2
<1>1. Len(layers) \in Nat /\ Len(layers) >= 1
  BY DEF TreeInv, IsTree, IsArray
<1>2. Depth \in Nat /\ Len(layers) = Depth + 1
  BY <1>1 DEF Depth
<1>3. ASSUME NEW m \in 1 .. Depth PROVE StandsOn(layers[m + 1], layers[m])
  BY <1>2 DEF TreeInv, IsTree
<1> QED BY <1>2, <1>3 DEF TreeInv, IsTree, Stands, IsArray, StandsOn

\* The call.
LEMMA PlaceStart ==
  ASSUME TreeInv, NEW leaf, NEW p, Built, Start(leaf, p)
  PROVE  Place' /\ OnPath'
<1>1. /\ layers' = layers /\ proof' = p /\ leafChainHash' = leaf /\ level' = 0
      /\ p.index \in Nat /\ idx' = p.index /\ current' = LeafHash(leaf)
  BY DEF Start, Called, Built, TreeInv, Loop
<1>2. /\ Depth \in Nat /\ Len(layers) = Depth + 1 /\ Depth' = Depth
      /\ EventCount' = EventCount
  BY <1>1, LayersAre DEF Depth, EventCount
<1>3. Positions(p.index, Depth)[0] = p.index
  <2>1. Halving(Positions(p.index, Depth), p.index, Depth)
    BY <1>1, <1>2, PositionsHalve
  <2> QED BY <2>1 DEF Halving
<1>4. ASSUME NEW m \in 1 .. Len(layers), NEW j \in 1 .. Len(layers[m]),
             LeafHash(leaf) = layers[m][j]
      PROVE  m = 1 /\ leaf = ChainHash(j - 1)
  BY <1>4, LeafPlace DEF TreeInv
<1>5. Place'
  BY <1>1, <1>2, <1>3, <1>4 DEF Place
<1>6. ASSUME p.index < EventCount
      PROVE  /\ p.index < Len(layers[1])
             /\ LeafHash(leaf) = layers[1][p.index + 1] => leaf = ChainHash(p.index)
  <2>1. p.index < Len(layers[1]) /\ Len(layers[1]) \in Nat
    BY <1>2, <1>6, LayersAre DEF EventCount
  <2>2. p.index + 1 \in 1 .. Len(layers[1]) /\ (p.index + 1) - 1 = p.index
        /\ 1 \in 1 .. Len(layers)
    BY <1>1, <1>2, <2>1
  <2> QED BY <1>4, <2>1, <2>2
<1>7. OnPath'
  <2>1. \A k \in 1 .. 0 : FALSE
    OBVIOUS
  <2> QED BY <1>1, <1>2, <1>6, <2>1 DEF OnPath
<1> QED BY <1>5, <1>7

\* The step to node j came from a node below it, and its sibling is the other one.
CameFrom(below, j) ==
  LET sibling == proof.siblings[level + 1]
      second == IF 2 * j <= Len(below) THEN below[2 * j] ELSE below[2 * j - 1]
  IN  /\ 2 * j - 1 \in 1 .. Len(below)
      /\ Direction(idx) = "right" => current = below[2 * j - 1] /\ sibling = second
      /\ Direction(idx) # "right" => sibling = below[2 * j - 1] /\ current = second

\* A level's result that is in the tree came from below.
LEMMA RiseFrom ==
  ASSUME TreeInv, Place, Rises,
         NEW m \in 1 .. Len(layers), NEW j \in 1 .. Len(layers[m]), current' = layers[m][j]
  PROVE  m = level + 2 /\ CameFrom(layers[level + 1], j)
<1> DEFINE sibling == proof.siblings[level + 1]
           below == layers[m - 1]
           second == IF 2 * j <= Len(below) THEN 2 * j ELSE 2 * j - 1
<1>1. PICK a, b : /\ current' = NodeHash(a, b)
                  /\ Direction(idx) = "right" => a = current /\ b = sibling
                  /\ Direction(idx) # "right" => a = sibling /\ b = current
  BY DEF Rises
<1>2. /\ m > 1 /\ 2 * j - 1 \in 1 .. Len(below)
      /\ a = below[2 * j - 1]
      /\ b = IF 2 * j <= Len(below) THEN below[2 * j] ELSE below[2 * j - 1]
  <2>1. IsTree(layers) /\ NodeHash(a, b) = layers[m][j]
    BY <1>1 DEF TreeInv
  <2> QED BY <2>1, PartsBelow
<1>3. m - 1 \in 1 .. Len(layers) /\ Len(below) \in Nat
  BY <1>2, LayersAre
<1>4. second \in 1 .. Len(below) /\ b = below[second]
  BY <1>2, <1>3
<1>5. \E i \in 1 .. Len(below) : current = below[i]
  BY <1>1, <1>2, <1>4
<1>6. m - 1 = level + 1
  BY <1>3, <1>5 DEF Place, Rises, Running
<1>7. m = level + 2 /\ below = layers[level + 1]
  BY <1>3, <1>6 DEF TreeInv, Loop
<1> HIDE DEF below
<1>8. CameFrom(below, j)
  BY <1>1, <1>2 DEF CameFrom
<1> QED BY <1>7, <1>8

\* A level.
LEMMA PlaceRises ==
  ASSUME ClimbInv, Rises
  PROVE  Place' /\ OnPath'
<1> USE DEF ClimbInv
<1> DEFINE sibling == proof.siblings[level + 1]
           at == Positions(proof.index, Depth)
<1>1. /\ UNCHANGED <<layers, leafChainHash, proof, Depth, EventCount>> /\ Running
      /\ idx' = idx \div 2 /\ level' = level + 1
      /\ current' = IF Direction(idx) = "right" THEN NodeHash(current, sibling)
                    ELSE NodeHash(sibling, current)
      /\ proof.directions[level + 1] = Direction(idx)
  BY DEF Rises, args, Depth, EventCount, Running
<1>2. /\ Depth \in Nat /\ Len(layers) = Depth + 1 /\ idx \in Nat /\ level \in Nat
      /\ proof.index \in Nat
  BY <1>1, LayersAre DEF TreeInv, Loop, Arguments
<1>3. level + 1 <= Depth => idx' = at[level + 1]
  <2>1. ASSUME level + 1 <= Depth PROVE idx' = at[level + 1]
    <3>1. level + 1 \in 1 .. Depth /\ (level + 1) - 1 = level /\ level <= Depth
      BY <1>2, <2>1
    <3>2. Halving(at, proof.index, Depth)
      BY <1>2, PositionsHalve
    <3> HIDE DEF at
    <3>3. at[level + 1] = at[level] \div 2
      BY <3>1, <3>2 DEF Halving
    <3> QED BY <1>1, <3>1, <3>3 DEF Place, at
  <2> QED BY <2>1
<1>4. ASSUME NEW m \in 1 .. Len(layers), NEW j \in 1 .. Len(layers[m]),
             current' = layers[m][j]
      PROVE  m = level + 2 /\ CameFrom(layers[level + 1], j)
  BY <1>4, RiseFrom
<1>5. Place'
  <2>1. ASSUME NEW m \in 1 .. Len(layers), NEW j \in 1 .. Len(layers[m]),
               current' = layers[m][j]
        PROVE  m = level' + 1
    BY <1>1, <1>2, <1>4, <2>1
  <2> QED BY <1>1, <1>3, <2>1 DEF Place
<1>6. ASSUME level + 1 <= Depth, proof.index < EventCount
      PROVE  /\ idx' < Len(layers[level + 2])
             /\ current' = layers[level + 2][idx' + 1] =>
                  /\ leafChainHash = ChainHash(proof.index)
                  /\ \A k \in 1 .. level + 1 : Own(k)
  <2> DEFINE below == layers[level + 1]
             above == layers[level + 2]
  <2>1. level + 1 \in 1 .. Len(layers) /\ level + 2 \in 1 .. Len(layers) /\ level <= Depth
        /\ level + 1 \in 1 .. Depth /\ (level + 1) + 1 = level + 2 /\ (level + 2) - 1 = level + 1
    BY <1>2, <1>6
  <2>2. idx < Len(below) /\ Len(below) \in Nat
    BY <1>1, <1>6, <2>1, LayersAre DEF OnPath
  <2>3. Len(above) = (Len(below) + 1) \div 2 /\ Len(above) \in Nat
    BY <2>1, LayersAre
  <2>4. idx \div 2 < Len(above) /\ idx \div 2 \in Nat
    BY <1>2, <2>2, <2>3, HalfBelow
  <2>5. ASSUME current' = above[idx' + 1]
        PROVE  leafChainHash = ChainHash(proof.index) /\ \A k \in 1 .. level + 1 : Own(k)
    <3>1. PICK q \in Nat : q = idx \div 2 /\ q < Len(above)
      BY <2>4
    <3> HIDE DEF above
    <3>2. CameFrom(below, q + 1)
      <4>1. q + 1 \in 1 .. Len(above)
        <5>1. Len(above) \in Nat
          BY <2>3
        <5> QED BY <3>1, <5>1
      <4> QED BY <1>1, <1>4, <2>1, <2>5, <3>1, <4>1 DEF above
    <3> HIDE DEF below
    <3>3. current = below[idx + 1] /\ sibling = Paired(below, idx)
      <4>1. 2 * (q + 1) - 1 = 2 * q + 1 /\ 2 * (q + 1) = 2 * q + 2
        OBVIOUS
      <4>2. ASSUME Direction(idx) = "right"
            PROVE  current = below[idx + 1] /\ sibling = Paired(below, idx)
        <5>1. idx = 2 * q /\ idx % 2 = 0
          BY <1>2, <3>1, <4>2, Halved
        <5> QED BY <2>2, <3>2, <4>1, <4>2, <5>1 DEF CameFrom, Paired
      <4>3. ASSUME Direction(idx) # "right"
            PROVE  current = below[idx + 1] /\ sibling = Paired(below, idx)
        <5>1. idx = 2 * q + 1 /\ idx % 2 = 1
          BY <1>2, <3>1, <4>3, Halved
        <5> QED BY <2>2, <3>2, <4>1, <4>3, <5>1 DEF CameFrom, Paired
      <4> QED BY <4>2, <4>3
    <3> USE DEF below, above
    <3>4. leafChainHash = ChainHash(proof.index) /\ \A k \in 1 .. level : Own(k)
      BY <1>1, <1>6, <2>1, <3>3 DEF OnPath
    <3>5. idx = at[level]
      BY <1>1, <2>1 DEF Place
    <3>6. Own(level + 1)
      BY <1>1, <1>2, <3>3, <3>5 DEF Own
    <3>7. \A k \in 1 .. level + 1 : k \in 1 .. level \/ k = level + 1
      BY <1>2
    <3> QED BY <3>4, <3>6, <3>7
  <2> QED BY <1>1, <2>4, <2>5
<1>7. OnPath'
  <2>1. level' + 1 = level + 2
    BY <1>1, <1>2
  <2> QED BY <1>1, <1>6, <2>1 DEF OnPath, Own
<1> QED BY <1>5, <1>7

\* Every step.
LEMMA ClimbStep ==
  ASSUME ClimbInv, [Next]_vars
  PROVE  ClimbInv'
<1> USE DEF ClimbInv
<1>1. TreeInv'
  BY TreeStep
<1>2. ASSUME ~Running' PROVE Place' /\ OnPath'
  BY <1>2 DEF Place, OnPath
<1>3. ASSUME Grow \/ \E leaf, p : Malformed(leaf, p) PROVE ~Running'
  BY <1>3 DEF Grow, Malformed, Running
<1>4. ASSUME verdict = "climbing", UNCHANGED <<layers, args, current, idx, level>>
      PROVE  Place' /\ OnPath'
  BY <1>4 DEF Place, OnPath, Own, Running, Depth, EventCount, args
<1>5. ASSUME UNCHANGED vars PROVE Place' /\ OnPath'
  BY <1>5 DEF Place, OnPath, Own, Running, Depth, EventCount, vars
<1> QED BY <1>1, <1>2, <1>3, <1>4, <1>5, PlaceStart, PlaceRises, StepKinds

LEMMA ClimbInit == Init => ClimbInv
BY TreeInit DEF ClimbInv, Init, Place, OnPath, Running

\* A proof that verifies for a position of the session is the tree's proof of it, and for
\* the event there, for any number of events and any arguments (verifyMerkleProof).
THEOREM PositionBoundHolds == Spec => []PositionBound
<1>1. ClimbInv => PositionBound
  <2> SUFFICES ASSUME ClimbInv, verdict = "accepted", proof.index < EventCount
               PROVE  /\ leafChainHash = ChainHash(proof.index)
                      /\ proof = MerkleProof(proof.index, layers)
    BY DEF PositionBound
  <2>1. /\ Running /\ Arguments /\ idx = 0 /\ level = Len(proof.siblings)
        /\ current = layers[Depth + 1][1]
    BY DEF ClimbInv, TreeInv, Loop, Running, MerkleRoot, Top
  <2>2. Depth \in Nat /\ Depth + 1 \in 1 .. Len(layers) /\ 1 \in 1 .. Len(layers[Depth + 1])
    BY LayersAre DEF ClimbInv
  <2>3. level = Depth
    <3>1. Depth + 1 = level + 1
      BY <2>1, <2>2 DEF ClimbInv, Place
    <3> QED BY <2>2, <3>1 DEF ClimbInv, TreeInv, Loop
  <2>4. leafChainHash = ChainHash(proof.index) /\ \A k \in 1 .. Depth : Own(k)
    BY <2>1, <2>2, <2>3 DEF ClimbInv, OnPath
  <2> DEFINE at == Positions(proof.index, Depth)
  <2>5. /\ proof.siblings = [k \in 1 .. Depth |-> Paired(layers[k], at[k - 1])]
        /\ proof.directions = [k \in 1 .. Depth |-> Direction(at[k - 1])]
    <3>1. /\ proof.siblings = [k \in 1 .. Depth |-> proof.siblings[k]]
          /\ proof.directions = [k \in 1 .. Depth |-> proof.directions[k]]
      BY <2>1, <2>3 DEF Arguments, IsArray, Array
    <3> QED BY <2>4, <3>1 DEF Own
  <2>6. Len(layers) - 1 = Depth
    BY DEF Depth
  <2> HIDE DEF at
  <2>7. MerkleProof(proof.index, layers)
          = [index |-> proof.index, siblings |-> proof.siblings, directions |-> proof.directions]
    BY <2>5, <2>6 DEF MerkleProof, at
  <2> QED BY <2>1, <2>4, <2>7 DEF Arguments
<1> QED BY <1>1, ClimbInit, ClimbStep, PTL DEF Spec

---------------------------------------------------------------------------
(***************************************************************************)
(* Positions past the session's own.                                       *)
(***************************************************************************)
Bit(index, tree, m) == Positions(index, Len(tree) - 1)[Len(tree) - 1 - m] % 2
LayerBelow(tree, m) == tree[(Len(tree) - 1) - m + 1]

IsDescent(below, index, tree, n) ==
  below = [m \in 0 .. n |->
             IF m = 0 THEN 0
             ELSE Below(below[m - 1], Bit(index, tree, m), LayerBelow(tree, m))]

\* The bits lead from the root to a node of every layer.
Leads(below, index, tree) ==
  /\ below[0] = 0
  /\ \A m \in 0 .. Len(tree) - 1 : below[m] \in Nat /\ below[m] < Len(LayerBelow(tree, m))
  /\ \A m \in 1 .. Len(tree) - 1 :
       below[m] = Below(below[m - 1], Bit(index, tree, m), LayerBelow(tree, m))

\* Below a node of one layer there is a node of the next.
LEMMA BelowIs ==
  ASSUME NEW at \in Nat, NEW bit \in 0 .. 1, NEW layer, Len(layer) \in Nat,
         at < (Len(layer) + 1) \div 2
  PROVE  Below(at, bit, layer) \in Nat /\ Below(at, bit, layer) < Len(layer)
<1> DEFINE n == Len(layer)
<1>1. PICK h \in Nat : h = (n + 1) \div 2
  OBVIOUS
<1>2. 2 * h <= n + 1 /\ at < h
  BY <1>1
<1>3. 2 * at < n
  <2>1. at + 1 <= h
    BY <1>1, <1>2
  <2> QED BY <1>2, <2>1
<1> QED BY <1>3 DEF Below

LEMMA DescentLeads ==
  ASSUME NEW index \in Nat, TreeInv, Len(Top) = 1
  PROVE  Leads(Descent(index, layers), index, layers)
<1> DEFINE S == {n \in Nat : \E below : IsDescent(below, index, layers, n)}
<1>1. 0 \in S
  <2>1. IsDescent([m \in 0 .. 0 |-> 0], index, layers, 0)
    BY DEF IsDescent
  <2> QED BY <2>1
<1>2. ASSUME NEW n \in Nat, n \in S PROVE n + 1 \in S
  <2>1. PICK below : IsDescent(below, index, layers, n)
    BY <1>2
  <2> DEFINE next == [m \in 0 .. (n + 1) |->
                        IF m = n + 1
                        THEN Below(below[n], Bit(index, layers, n + 1), LayerBelow(layers, n + 1))
                        ELSE below[m]]
  <2>2. \A m \in 0 .. n : below[m] =
          IF m = 0 THEN 0
          ELSE Below(below[m - 1], Bit(index, layers, m), LayerBelow(layers, m))
    BY <2>1 DEF IsDescent
  <2>3. \A m \in 0 .. (n + 1) : next[m] =
          IF m = 0 THEN 0
          ELSE Below(next[m - 1], Bit(index, layers, m), LayerBelow(layers, m))
    BY <2>2
  <2>4. next = [m \in 0 .. (n + 1) |-> next[m]]
    OBVIOUS
  <2> HIDE DEF next
  <2>5. IsDescent(next, index, layers, n + 1)
    BY <2>3, <2>4 DEF IsDescent
  <2> QED BY <2>5
<1> HIDE DEF S
<1>3. Nat \subseteq S
  BY <1>1, <1>2, NatSetInduction
<1>4. Depth \in Nat /\ Len(layers) = Depth + 1 /\ Len(layers) - 1 = Depth
  BY LayersAre
<1>5. \E below : IsDescent(below, index, layers, Len(layers) - 1)
  BY <1>3, <1>4 DEF S
<1> DEFINE below == Descent(index, layers)
<1>6. IsDescent(below, index, layers, Len(layers) - 1)
  BY <1>5 DEF IsDescent, Descent, Bit, LayerBelow
<1> HIDE DEF below
<1>7. \A m \in 0 .. Depth : below[m] =
        IF m = 0 THEN 0
        ELSE Below(below[m - 1], Bit(index, layers, m), LayerBelow(layers, m))
  BY <1>4, <1>6 DEF IsDescent
<1> DEFINE Known == {m \in Nat : m <= Depth =>
                       below[m] \in Nat /\ below[m] < Len(LayerBelow(layers, m))}
<1>8. 0 \in Known
  <2>1. (Len(layers) - 1) - 0 + 1 = Depth + 1
    BY <1>4
  <2>2. Len(LayerBelow(layers, 0)) = 1
    BY <2>1 DEF LayerBelow, Top
  <2>3. below[0] = 0
    BY <1>4, <1>7
  <2> QED BY <2>2, <2>3
<1>9. ASSUME NEW m \in Nat, m \in Known PROVE m + 1 \in Known
  <2>1. CASE m + 1 <= Depth
    <3> DEFINE layer == LayerBelow(layers, m + 1)
    <3>1. /\ Depth - m \in 1 .. Depth /\ (Depth - m) + 1 \in 1 .. Len(layers)
          /\ layer = layers[Depth - m] /\ LayerBelow(layers, m) = layers[(Depth - m) + 1]
      <4>1. Depth - (m + 1) + 1 = Depth - m
        BY <1>4
      <4> QED BY <1>4, <2>1, <4>1 DEF LayerBelow
    <3>2. Len(layer) \in Nat
      BY <1>4, <3>1, LayersAre
    <3>3. Len(LayerBelow(layers, m)) = (Len(layer) + 1) \div 2
      BY <3>1, LayersAre
    <3>4. below[m] \in Nat /\ below[m] < (Len(layer) + 1) \div 2
      BY <1>4, <1>9, <2>1, <3>3
    <3>5. Bit(index, layers, m + 1) \in 0 .. 1
      <4>1. Depth - (m + 1) \in 0 .. Depth
        BY <1>4, <2>1
      <4>2. Positions(index, Depth)[Depth - (m + 1)] \in Nat
        BY <1>4, <4>1, PositionsHalve DEF Halving
      <4> QED BY <1>4, <4>2 DEF Bit
    <3>6. below[m + 1] = Below(below[m], Bit(index, layers, m + 1), layer)
      BY <1>4, <1>7, <2>1
    <3> HIDE DEF layer
    <3>7. below[m + 1] \in Nat /\ below[m + 1] < Len(layer)
      BY <3>2, <3>4, <3>5, <3>6, BelowIs
    <3> QED BY <3>7 DEF layer
  <2> QED BY <2>1
<1>10. Nat \subseteq Known
  <2> HIDE DEF Known
  <2> QED BY <1>8, <1>9, NatSetInduction
<1> QED BY <1>4, <1>7, <1>10 DEF below, Leads

\* Being at the node that the bits still to come lead to, the loop has come from the
\* event that all of them lead to.
OnDescent ==
  Running /\ level <= Depth =>
    (current = layers[level + 1][Descent(proof.index, layers)[Depth - level] + 1] =>
       leafChainHash = ChainHash(EventAt(proof.index)))

DescentInv == ClimbInv /\ OnDescent

LEMMA DescentStart ==
  ASSUME TreeInv, NEW leaf, NEW p, Built, Start(leaf, p)
  PROVE  OnDescent'
<1>1. /\ layers' = layers /\ proof' = p /\ leafChainHash' = leaf /\ level' = 0
      /\ p.index \in Nat /\ current' = LeafHash(leaf) /\ Len(Top) = 1
  BY DEF Start, Called, Built, TreeInv, Loop
<1>2. Depth \in Nat /\ Len(layers) = Depth + 1 /\ Depth' = Depth
  BY <1>1, LayersAre DEF Depth
<1> DEFINE at == EventAt(p.index)
<1>3. at \in Nat /\ at < Len(layers[1])
  <2>1. Leads(Descent(p.index, layers), p.index, layers)
    BY <1>1, DescentLeads
  <2> QED BY <1>2, <2>1 DEF Leads, LayerBelow, EventAt
<1>4. at + 1 \in 1 .. Len(layers[1]) /\ (at + 1) - 1 = at /\ 1 \in 1 .. Len(layers)
  <2>1. Len(layers[1]) \in Nat
    BY <1>2, LayersAre
  <2> HIDE DEF at
  <2> QED BY <1>2, <1>3, <2>1
<1>5. LeafHash(leaf) = layers[1][at + 1] => leaf = ChainHash(at)
  <2> HIDE DEF at
  <2> QED BY <1>4, LeafPlace DEF TreeInv
<1>6. EventAt(p.index) = Descent(p.index, layers)[Depth] /\ Depth - 0 = Depth
  BY <1>2 DEF EventAt
<1>7. EventAt(proof.index)' = EventAt(p.index)
  BY <1>1, <1>2 DEF EventAt
<1> QED BY <1>1, <1>2, <1>5, <1>6, <1>7 DEF OnDescent

LEMMA DescentRises ==
  ASSUME DescentInv, Rises
  PROVE  OnDescent'
<1> USE DEF DescentInv, ClimbInv
<1> DEFINE D == Descent(proof.index, layers)
           below == layers[level + 1]
<1>1. /\ UNCHANGED <<layers, leafChainHash, proof, Depth>> /\ Running /\ level' = level + 1
      /\ EventAt(proof.index)' = EventAt(proof.index)
  BY DEF Rises, args, Depth, Running, EventAt
<1>2. /\ Depth \in Nat /\ Len(layers) = Depth + 1 /\ idx \in Nat /\ level \in Nat
      /\ proof.index \in Nat /\ Len(Top) = 1
  BY <1>1, LayersAre DEF TreeInv, Loop, Arguments, Rises
<1> SUFFICES ASSUME level + 1 <= Depth,
                    current' = layers[level + 2][D[Depth - (level + 1)] + 1]
             PROVE  leafChainHash = ChainHash(EventAt(proof.index))
  <2>1. level' + 1 = level + 2
    BY <1>1, <1>2
  <2> QED BY <1>1, <2>1 DEF OnDescent
<1>3. Leads(D, proof.index, layers)
  BY <1>2, DescentLeads
<1> HIDE DEF D
<1>4. /\ Depth - (level + 1) \in 0 .. Depth /\ Depth - level \in 1 .. Depth
      /\ (Depth - level) - 1 = Depth - (level + 1) /\ Len(layers) - 1 = Depth
      /\ (Depth - (level + 1)) + 0 = Depth - (level + 1)
      /\ Depth - (Depth - level) = level
      /\ (Depth - (Depth - level)) + 1 = level + 1
      /\ (Depth - (Depth - (level + 1))) + 1 = level + 2
      /\ level + 2 \in 1 .. Len(layers) /\ level <= Depth /\ level + 1 \in 1 .. Len(layers)
  BY <1>2
<1>5. PICK q : q = D[Depth - (level + 1)]
  OBVIOUS
<1>6. q \in Nat /\ q + 1 \in 1 .. Len(layers[level + 2])
  <2>1. q \in Nat /\ q < Len(layers[level + 2])
    BY <1>3, <1>4, <1>5 DEF Leads, LayerBelow
  <2>2. Len(layers[level + 2]) \in Nat
    BY <1>4, LayersAre
  <2> QED BY <2>1, <2>2
<1>7. CameFrom(below, q + 1)
  BY <1>4, <1>5, <1>6, RiseFrom
<1>8. idx = Positions(proof.index, Depth)[level]
  BY <1>1, <1>4 DEF Place
<1>9. D[Depth - level] = Below(q, idx % 2, below)
  <2>1. D[Depth - level]
          = Below(q, Bit(proof.index, layers, Depth - level), LayerBelow(layers, Depth - level))
    BY <1>3, <1>4, <1>5 DEF Leads
  <2>2. Bit(proof.index, layers, Depth - level) = idx % 2
    BY <1>4, <1>8 DEF Bit
  <2>3. LayerBelow(layers, Depth - level) = below
    BY <1>4 DEF LayerBelow
  <2> QED BY <2>1, <2>2, <2>3
<1>10. Len(below) \in Nat
  BY <1>4, LayersAre
<1> HIDE DEF below
<1>11. current = below[D[Depth - level] + 1]
  <2>1. 2 * (q + 1) - 1 = 2 * q + 1 /\ 2 * (q + 1) = 2 * q + 2
    BY <1>6
  <2>2. 2 * q + 1 <= Len(below)
    BY <1>6, <1>7, <1>10, <2>1 DEF CameFrom
  <2>3. CASE Direction(idx) = "right"
    <3>1. idx % 2 = 0
      BY <1>2, <2>3, Halved
    <3>2. Below(q, 0, below) = 2 * q
      BY <1>6, <1>10, <2>2 DEF Below
    <3> QED BY <1>7, <1>9, <2>1, <2>3, <3>1, <3>2 DEF CameFrom
  <2>4. CASE Direction(idx) # "right"
    <3>1. idx % 2 = 1
      BY <1>2, <2>4, Halved
    <3>2. Below(q, 1, below) = IF 2 * q + 2 <= Len(below) THEN 2 * q + 1 ELSE 2 * q
      BY <1>6, <1>10, <2>2 DEF Below
    <3>3. (2 * q + 1) + 1 = 2 * q + 2
      BY <1>6
    <3> QED BY <1>7, <1>9, <2>1, <2>4, <3>1, <3>2, <3>3 DEF CameFrom
  <2> QED BY <2>3, <2>4
<1> QED BY <1>1, <1>4, <1>11 DEF OnDescent, D, below

LEMMA DescentStep ==
  ASSUME DescentInv, [Next]_vars
  PROVE  DescentInv'
<1> USE DEF DescentInv
<1>1. ClimbInv' /\ TreeInv
  BY ClimbStep DEF ClimbInv
<1>2. ASSUME ~Running' PROVE OnDescent'
  BY <1>2 DEF OnDescent
<1>3. ASSUME Grow \/ \E leaf, p : Malformed(leaf, p) PROVE ~Running'
  BY <1>3 DEF Grow, Malformed, Running
<1>4. ASSUME verdict = "climbing", UNCHANGED <<layers, args, current, idx, level>>
      PROVE  OnDescent'
  BY <1>4 DEF OnDescent, Running, Depth, EventAt, args
<1>5. ASSUME UNCHANGED vars PROVE OnDescent'
  BY <1>5 DEF OnDescent, Running, Depth, EventAt, vars
<1> QED BY <1>1, <1>2, <1>3, <1>4, <1>5, DescentStart, DescentRises, StepKinds

\* Past the session's own positions only the copies that pad odd layers verify, each for
\* the event it copies, for any number of events and any arguments (verifyMerkleProof).
THEOREM NoOtherPositionHolds == Spec => []NoOtherPosition
<1>1. DescentInv => NoOtherPosition
  <2> SUFFICES ASSUME DescentInv, verdict = "accepted"
               PROVE  /\ Positions(proof.index, Depth)[Depth] = 0
                      /\ leafChainHash = ChainHash(EventAt(proof.index))
    BY DEF NoOtherPosition
  <2>1. /\ Running /\ TreeInv /\ Arguments /\ idx = 0 /\ level = Len(proof.siblings)
        /\ current = layers[Depth + 1][1] /\ Len(Top) = 1
    BY DEF DescentInv, ClimbInv, TreeInv, Loop, Running, MerkleRoot, Top
  <2>2. /\ Depth \in Nat /\ Depth + 1 \in 1 .. Len(layers) /\ 1 \in 1 .. Len(layers[Depth + 1])
    BY <2>1, LayersAre
  <2>3. level = Depth
    <3>1. Depth + 1 = level + 1
      BY <2>1, <2>2 DEF DescentInv, ClimbInv, Place
    <3> QED BY <2>1, <2>2, <3>1 DEF TreeInv, Loop
  <2>4. Descent(proof.index, layers)[0] = 0
    <3>1. proof.index \in Nat
      BY <2>1 DEF Arguments
    <3>2. Leads(Descent(proof.index, layers), proof.index, layers)
      BY <2>1, <3>1, DescentLeads
    <3> QED BY <3>2 DEF Leads
  <2>5. Depth - level = 0 /\ 0 + 1 = 1
    BY <2>2, <2>3
  <2>6. leafChainHash = ChainHash(EventAt(proof.index))
    BY <2>1, <2>2, <2>3, <2>4, <2>5 DEF DescentInv, OnDescent
  <2> QED BY <2>1, <2>2, <2>3, <2>6 DEF DescentInv, ClimbInv, Place
<1>2. Init => DescentInv
  BY ClimbInit DEF DescentInv, OnDescent, Init, Running
<1> QED BY <1>1, <1>2, DescentStep, PTL DEF Spec

---------------------------------------------------------------------------
(***************************************************************************)
(* The proofs of the tree.                                                 *)
(***************************************************************************)
\* No node of the tree is a hole.
LEMMA NoHoles ==
  ASSUME NEW tree, IsTree(tree), NEW m \in 1 .. Len(tree), NEW j \in 1 .. Len(tree[m])
  PROVE  tree[m][j] # Hole
<1>1. CASE m = 1
  BY <1>1, HashesApart DEF IsTree
<1>2. CASE m > 1
  <2>1. Len(tree) \in Nat
    BY DEF IsTree, IsArray
  <2>2. m - 1 \in 1 .. Len(tree) /\ (m - 1) + 1 = m /\ m <= Len(tree)
    BY <1>2, <2>1
  <2>3. StandsOn(tree[m], tree[m - 1])
    BY <2>2 DEF IsTree
  <2>4. NodeAbove(tree[m - 1], tree[m], j)
    BY <2>3 DEF StandsOn
  <2> QED BY <2>4, HashesApart DEF NodeAbove
<1> QED BY <1>1, <1>2

\* On the tree's own proof the loop is at the position's node on every layer.
Genuine(i) ==
  proof = MerkleProof(i, layers) /\ leafChainHash = ChainHash(i) =>
    /\ verdict # "refused"
    /\ verdict = "climbing" =>
         level <= Depth /\ current = layers[level + 1][idx + 1]

AllGenuine == \A i \in 0 .. EventCount - 1 : Genuine(i)

\* What the tree's own proof has, part by part.
LEMMA OwnProof ==
  ASSUME NEW i, NEW p, p = MerkleProof(i, layers), TreeInv
  PROVE  /\ p.index = i /\ Len(p.siblings) = Depth /\ Len(p.directions) = Depth
         /\ \A k \in 1 .. Depth :
              /\ p.siblings[k] = Paired(layers[k], Positions(i, Depth)[k - 1])
              /\ p.directions[k] = Direction(Positions(i, Depth)[k - 1])
<1>1. Depth \in Nat /\ Len(layers) - 1 = Depth
  BY LayersAre DEF Depth
<1> DEFINE at == Positions(i, Depth)
           siblings == [k \in 1 .. Depth |-> Paired(layers[k], at[k - 1])]
           directions == [k \in 1 .. Depth |-> Direction(at[k - 1])]
<1>2. p = [index |-> i, siblings |-> siblings, directions |-> directions]
  BY <1>1 DEF MerkleProof
<1>3. \A k \in 1 .. Depth : /\ siblings[k] = Paired(layers[k], at[k - 1])
                            /\ directions[k] = Direction(at[k - 1])
  OBVIOUS
<1>4. Len(siblings) = Depth /\ Len(directions) = Depth
  <2>1. siblings = [k \in 1 .. Depth |-> siblings[k]]
    OBVIOUS
  <2>2. directions = [k \in 1 .. Depth |-> directions[k]]
    OBVIOUS
  <2> HIDE DEF siblings, directions
  <2>3. Len(siblings) = Depth
    BY <1>1, <2>1, ArrayOf
  <2>4. Len(directions) = Depth
    BY <1>1, <2>2, ArrayOf
  <2> QED BY <2>3, <2>4
<1> HIDE DEF siblings, directions, at
<1> QED BY <1>2, <1>3, <1>4 DEF at

\* The node above position i, seen from below (nextLayer and the verifier's loop agree).
LEMMA AboveIs ==
  ASSUME TreeInv, NEW m \in 1 .. Depth, NEW i \in Nat, i < Len(layers[m])
  PROVE  /\ Paired(layers[m], i) # Hole
         /\ layers[m + 1][i \div 2 + 1] =
              IF Direction(i) = "right" THEN NodeHash(layers[m][i + 1], Paired(layers[m], i))
              ELSE NodeHash(Paired(layers[m], i), layers[m][i + 1])
<1> DEFINE below == layers[m]
           above == layers[m + 1]
<1>1. /\ m \in 1 .. Len(layers) /\ m + 1 \in 1 .. Len(layers) /\ m + 1 <= Len(layers)
      /\ Len(below) \in Nat /\ Len(above) \in Nat /\ Len(above) = (Len(below) + 1) \div 2
  <2>1. /\ m \in 1 .. Len(layers) /\ m + 1 \in 1 .. Len(layers) /\ m + 1 <= Len(layers)
    <3>1. Depth \in Nat /\ Len(layers) = Depth + 1
      BY LayersAre
    <3> QED BY <3>1
  <2>2. Len(below) \in Nat /\ Len(above) \in Nat
    BY <2>1, LayersAre
  <2>3. Len(above) = (Len(below) + 1) \div 2
    BY LayersAre
  <2> QED BY <2>1, <2>2, <2>3
<1>2. PICK q \in Nat : q = i \div 2 /\ q < Len(above)
  BY <1>1, HalfBelow
<1>3. StandsOn(above, below)
  BY <1>1 DEF TreeInv, IsTree
<1>4. NodeAbove(below, above, q + 1)
  <2>1. q + 1 \in 1 .. Len(above)
    <3>1. Len(above) \in Nat
      BY <1>1
    <3> HIDE DEF above
    <3> QED BY <1>2, <3>1
  <2> QED BY <1>3, <2>1 DEF StandsOn
<1>5. \A j \in 1 .. Len(below) : below[j] # Hole
  BY <1>1, NoHoles DEF TreeInv
<1>6. Len(below) \in Nat /\ i < Len(below)
  BY <1>1
<1> HIDE DEF below, above
<1>7. /\ 2 * q + 1 \in 1 .. Len(below)
      /\ above[q + 1] = NodeHash(below[2 * q + 1],
                                 IF 2 * q + 2 <= Len(below) THEN below[2 * q + 2]
                                 ELSE below[2 * q + 1])
  <2>1. 2 * (q + 1) - 1 = 2 * q + 1 /\ 2 * (q + 1) = 2 * q + 2
    OBVIOUS
  <2> QED BY <1>4, <2>1 DEF NodeAbove
<1>8. ASSUME Direction(i) = "right"
      PROVE  /\ below[i + 1] = below[2 * q + 1] /\ Paired(below, i) # Hole
             /\ Paired(below, i) = IF 2 * q + 2 <= Len(below) THEN below[2 * q + 2]
                                   ELSE below[2 * q + 1]
  <2>1. i = 2 * q /\ i % 2 = 0
    BY <1>2, <1>8, Halved
  <2> QED BY <1>5, <1>6, <1>7, <2>1 DEF Paired
<1>9. ASSUME Direction(i) # "right"
      PROVE  /\ Paired(below, i) = below[2 * q + 1] /\ Paired(below, i) # Hole
             /\ 2 * q + 2 <= Len(below) /\ below[i + 1] = below[2 * q + 2]
  <2>1. i = 2 * q + 1 /\ i % 2 = 1
    BY <1>2, <1>9, Halved
  <2> QED BY <1>5, <1>6, <1>7, <2>1 DEF Paired
<1>10. /\ Paired(below, i) # Hole
       /\ above[q + 1] =
            IF Direction(i) = "right" THEN NodeHash(below[i + 1], Paired(below, i))
            ELSE NodeHash(Paired(below, i), below[i + 1])
  BY <1>7, <1>8, <1>9
<1> QED BY <1>2, <1>10 DEF below, above

\* Every step stays on the own proof's way.
LEMMA GenuineStep ==
  ASSUME ClimbInv, AllGenuine, [Next]_vars
  PROVE  AllGenuine'
<1> USE DEF ClimbInv
<1>1. EventCount' = EventCount
  <2>1. 1 \in 1 .. Len(layers) /\ Len(layers) \in Nat
    BY LayersAre
  <2>2. CASE Grow
    <3>1. layers'[1] = layers[1]
      <4> DEFINE T == {layers[k] : k \in DOMAIN layers} \cup {NextLayer(Top)}
      <4>1. layers \in Seq(T) /\ NextLayer(Top) \in T
        BY DEF TreeInv, IsTree, IsArray, Array
      <4> HIDE DEF T
      <4> QED BY <2>1, <2>2, <4>1 DEF Grow
    <3> QED BY <3>1 DEF EventCount
  <2>3. CASE layers' = layers
    BY <2>3 DEF EventCount
  <2> QED BY <2>2, <2>3, StepKinds DEF Start, Malformed, Rises, vars
<1> SUFFICES ASSUME NEW i \in 0 .. EventCount - 1 PROVE Genuine(i)'
  BY <1>1 DEF AllGenuine
<1>2. /\ Genuine(i) /\ i \in Nat /\ i < Len(layers[1]) /\ 1 \in 1 .. Len(layers)
      /\ Depth \in Nat
  BY LayersAre DEF AllGenuine, EventCount
<1>3. CASE Grow
  BY <1>3 DEF Grow, Genuine
<1>4. ASSUME NEW leaf, NEW p, Built, Start(leaf, p) PROVE Genuine(i)'
  <2>1. /\ proof' = p /\ leafChainHash' = leaf /\ layers' = layers /\ verdict' = "climbing"
        /\ level' = 0 /\ idx' = p.index /\ current' = LeafHash(leaf)
    BY <1>4 DEF Start, Called, Built, TreeInv, Loop
  <2>2. ASSUME p = MerkleProof(i, layers), leaf = ChainHash(i)
        PROVE  current' = layers[1][idx' + 1]
    <3>1. p.index = i
      BY <2>2, OwnProof
    <3>2. i + 1 \in 1 .. Len(layers[1]) /\ (i + 1) - 1 = i
      BY <1>2, LayersAre
    <3>3. layers[1][i + 1] = LeafHash(ChainHash(i))
      BY <3>2 DEF TreeInv, IsTree
    <3> QED BY <2>1, <2>2, <3>1, <3>3
  <2> QED BY <1>2, <2>1, <2>2 DEF Genuine, Depth
<1>5. ASSUME NEW leaf, NEW p, Built, Malformed(leaf, p) PROVE Genuine(i)'
  <2>1. proof' = p /\ layers' = layers
    BY <1>5 DEF Malformed, Called
  <2>2. p # MerkleProof(i, layers)
    <3>1. p.index < 0 \/ Len(p.siblings) # Len(p.directions)
      BY <1>5 DEF Malformed
    <3> QED BY <1>2, <3>1, OwnProof
  <2> QED BY <2>1, <2>2 DEF Genuine
<1>6. ASSUME verdict = "climbing", UNCHANGED <<layers, args>>,
             proof = MerkleProof(i, layers), leafChainHash = ChainHash(i)
      PROVE  /\ current = layers[level + 1][idx + 1] /\ level <= Depth /\ level \in Nat
             /\ idx \in Nat /\ idx < Len(layers[level + 1]) /\ Len(proof.siblings) = Depth
             /\ level < Depth =>
                  /\ proof.siblings[level + 1] = Paired(layers[level + 1], idx)
                  /\ proof.directions[level + 1] = Direction(idx)
  <2>1. proof.index = i /\ Len(proof.siblings) = Depth
    BY <1>6, OwnProof
  <2>2. /\ Running /\ current = layers[level + 1][idx + 1] /\ level <= Depth /\ level \in Nat
        /\ idx \in Nat
    BY <1>2, <1>6 DEF Genuine, Running, TreeInv, Loop
  <2>3. idx = Positions(i, Depth)[level]
    BY <2>1, <2>2 DEF Place
  <2>4. idx < Len(layers[level + 1])
    BY <1>2, <2>1, <2>2 DEF OnPath, EventCount
  <2>5. ASSUME level < Depth
        PROVE  /\ proof.siblings[level + 1] = Paired(layers[level + 1], idx)
               /\ proof.directions[level + 1] = Direction(idx)
    <3>1. level + 1 \in 1 .. Depth /\ (level + 1) - 1 = level
      BY <1>2, <2>2, <2>5
    <3> QED BY <1>6, <2>3, <3>1, OwnProof
  <2> QED BY <2>1, <2>2, <2>4, <2>5
<1>7. CASE Rises
  <2>1. ASSUME proof = MerkleProof(i, layers), leafChainHash = ChainHash(i)
        PROVE  level + 1 <= Depth /\ current' = layers[level + 2][idx' + 1]
    <3>1. /\ verdict = "climbing" /\ UNCHANGED <<layers, args>> /\ level < Len(proof.siblings)
          /\ idx' = idx \div 2
          /\ current' = IF Direction(idx) = "right"
                        THEN NodeHash(current, proof.siblings[level + 1])
                        ELSE NodeHash(proof.siblings[level + 1], current)
      BY <1>7 DEF Rises
    <3>2. /\ current = layers[level + 1][idx + 1] /\ level \in Nat /\ level < Depth
          /\ idx \in Nat /\ idx < Len(layers[level + 1])
          /\ proof.siblings[level + 1] = Paired(layers[level + 1], idx)
      BY <1>6, <2>1, <3>1
    <3>3. level + 1 \in 1 .. Depth /\ (level + 1) + 1 = level + 2
      BY <1>2, <3>2
    <3>4. layers[level + 2][idx \div 2 + 1] =
            IF Direction(idx) = "right"
            THEN NodeHash(layers[level + 1][idx + 1], Paired(layers[level + 1], idx))
            ELSE NodeHash(Paired(layers[level + 1], idx), layers[level + 1][idx + 1])
      BY <3>2, <3>3, AboveIs
    <3> QED BY <3>1, <3>2, <3>3, <3>4
  <2>2. /\ UNCHANGED <<layers, leafChainHash, proof, Depth>> /\ verdict' = "climbing"
        /\ level' + 1 = level + 2 /\ level' = level + 1
    BY <1>7 DEF Rises, args, Depth, TreeInv, Loop
  <2> QED BY <2>1, <2>2 DEF Genuine
<1>8. ASSUME verdict = "climbing", verdict' \in {"refused", "accepted"},
             UNCHANGED <<layers, args, current, idx, level>>,
             verdict' = "refused" =>
               \/ /\ level < Len(proof.siblings)
                  /\ \/ proof.directions[level + 1] # Direction(idx)
                     \/ proof.siblings[level + 1] = Hole
               \/ level = Len(proof.siblings) /\ ~ (idx = 0 /\ current = MerkleRoot)
      PROVE  Genuine(i)'
  <2>1. ASSUME proof = MerkleProof(i, layers), leafChainHash = ChainHash(i)
        PROVE  verdict' # "refused"
    <3>1. /\ current = layers[level + 1][idx + 1] /\ level \in Nat /\ level <= Depth
          /\ idx \in Nat /\ idx < Len(layers[level + 1]) /\ Len(proof.siblings) = Depth
          /\ level < Depth =>
               /\ proof.siblings[level + 1] = Paired(layers[level + 1], idx)
               /\ proof.directions[level + 1] = Direction(idx)
      BY <1>6, <1>8, <2>1
    <3>2. level < Depth => proof.siblings[level + 1] # Hole
      <4>1. ASSUME level < Depth PROVE Paired(layers[level + 1], idx) # Hole
        <5>1. level + 1 \in 1 .. Depth
          BY <1>2, <3>1, <4>1
        <5> QED BY <3>1, <5>1, AboveIs
      <4> QED BY <3>1, <4>1
    <3>3. level = Depth => idx = 0 /\ current = MerkleRoot
      <4>1. Len(Top) = 1
        BY <1>8 DEF TreeInv, Loop
      <4> QED BY <3>1, <4>1 DEF Top, MerkleRoot
    <3> QED BY <1>8, <3>1, <3>2, <3>3
  <2> QED BY <1>8, <2>1 DEF Genuine, args
<1>9. ASSUME UNCHANGED vars PROVE Genuine(i)'
  BY <1>2, <1>9 DEF Genuine, Depth, vars
<1> QED BY <1>3, <1>4, <1>5, <1>7, <1>8, <1>9, StepKinds

\* The proofs the manifest carries verify, for any number of events
\* (computeMerkleRootAndProofs, verifyMerkleProof).
THEOREM HonestAcceptedHolds == Spec => []HonestAccepted
<1>1. Init => ClimbInv /\ AllGenuine
  BY ClimbInit DEF Init, AllGenuine, Genuine
<1>2. ClimbInv /\ AllGenuine /\ [Next]_vars => (ClimbInv /\ AllGenuine)'
  BY ClimbStep, GenuineStep
<1>3. AllGenuine => HonestAccepted
  BY DEF AllGenuine, Genuine, HonestAccepted
<1> QED BY <1>1, <1>2, <1>3, PTL DEF Spec

=============================================================================
