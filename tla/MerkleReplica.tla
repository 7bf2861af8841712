--------------------------- MODULE MerkleReplica ---------------------------
(***************************************************************************)
(* The incremental Merkle tree of a pool and the copy of it a client       *)
(* rebuilds to prove a withdrawal.                                         *)
(*                                                                         *)
(* The contract keeps one node per level and a ring of recent roots        *)
(* (Tidex6HiddenPoolV2.sol, _appendLeaf; the Stylus and Solana pools run   *)
(* the same loop).  The client has only what an index serves it, pairs of  *)
(* an index and a leaf, and nothing says that they are the pool's: it      *)
(* checks that the indices count up from 0, replays the leaves into its    *)
(* own tree (crates/tidex6-core/src/merkle.rs) and proves a path under the *)
(* root it got, which the contract accepts if it is still in the ring.     *)
(*                                                                         *)
(* Poseidon of two nodes is the pair of them, so that two nodes are equal  *)
(* exactly when everything under them is.                                  *)
(***************************************************************************)
EXTENDS Integers, Sequences, FiniteSets

CONSTANTS
  Depth,          \* TREE_DEPTH, POOL_TREE_DEPTH (20)
  RootRingSize,   \* ROOT_RING_SIZE (30)
  LeafValues,     \* commitments
  MaxServed,      \* bound on the pairs an index serves
  NoProof

(* The empty leaf, and the value of an unset ring slot: 0, which is no hash. *)
Zero == <<>>

ASSUME TreeAssumption ==
  /\ Depth \in Nat \ {0} /\ RootRingSize \in Nat \ {0}
  /\ MaxServed \in Nat
  /\ Zero \notin LeafValues

VARIABLES
  leaves,           \* the leaves filed so far, as the pool's events list them
  filledSubtrees,   \* filledSubtrees[l]: the last left node stored at level l
  rootRingHead,
  rootHistory,
  proof             \* the last proof the client made, or NoProof

vars == <<leaves, filledSubtrees, rootRingHead, rootHistory, proof>>

Hash(left, right) == <<left, right>>

Levels == 0 .. Depth - 1

(* How many leaves a subtree has, by height. *)
Width[l \in 0 .. Depth] == IF l = 0 THEN 1 ELSE 2 * Width[l - 1]

Capacity == Width[Depth]

RingSlots == 0 .. RootRingSize - 1

(* zeroSubtrees: the node of a subtree of empty leaves, by height. *)
ZeroSubtree[l \in 0 .. Depth] ==
  IF l = 0 THEN Zero ELSE Hash(ZeroSubtree[l - 1], ZeroSubtree[l - 1])

(* The indices of the nodes above leaf `index`, halved from level to level. *)
Above(index) ==
  LET at[l \in 0 .. Depth] == IF l = 0 THEN index ELSE at[l - 1] \div 2
  IN  at

(* Is the node at `level` above leaf `index` the left child of its parent? *)
IsLeft(index, level) == Above(index)[level] % 2 = 0

(* The nodes from a leaf at `index` up to the root, hashed with the sibling  *)
(* of each level: the loop of the contract, the client and the circuit.     *)
PathUp(leaf, index, siblings) ==
  LET node[l \in 0 .. Depth] ==
        IF l = 0 THEN leaf
        ELSE IF IsLeft(index, l - 1)
          THEN Hash(node[l - 1], siblings[l - 1])
          ELSE Hash(siblings[l - 1], node[l - 1])
  IN  node

-----------------------------------------------------------------------------
(* The contract's tree.                                                    *)

(* Mutant: a right child is paired with the empty subtree of its level. *)
ClimbIgnoringFilled(filled, index, leaf) == PathUp(leaf, index, ZeroSubtree)

(* A new leaf climbs along the stored left nodes, and the empty subtrees to  *)
(* its right.                                                               *)
Climb(filled, index, leaf) ==
  PathUp(leaf, index,
         [l \in Levels |-> IF IsLeft(index, l) THEN ZeroSubtree[l] ELSE filled[l]])

(* The left nodes of the climb are remembered for the leaves to come. *)
Refill(filled, index, node) ==
  [l \in Levels |-> IF IsLeft(index, l) THEN node[l] ELSE filled[l]]

(* Mutant: the head of the ring is not wrapped. *)
NextHeadUnwrapped(head) == head + 1

NextHead(head) == (head + 1) % RootRingSize

(* _appendLeaf: the contract's tree with one leaf more. *)
AppendLeaf(tree, leaf) ==
  LET node == Climb(tree.filled, tree.next, leaf)
      head == NextHead(tree.head)
  IN  [next   |-> tree.next + 1,
       filled |-> Refill(tree.filled, tree.next, node),
       head   |-> head,
       ring   |-> [tree.ring EXCEPT ![head] = node[Depth]]]

(* The contract's tree after the leaves of a call, one after the other. *)
Appended(tree, batch) ==
  LET after[k \in 0 .. Len(batch)] ==
        IF k = 0 THEN tree ELSE AppendLeaf(after[k - 1], batch[k])
  IN  after[Len(batch)]

IsKnownRoot(root) == root # Zero /\ \E i \in RingSlots : rootHistory[i] = root

-----------------------------------------------------------------------------
(* The client's copy.                                                      *)

(* Mutant: the leaves are taken as they come, whatever their indices. *)
InOrderUnchecked(indices) == TRUE

(* leaves_in_order: the leaf served k-th is the one with index k - 1. *)
InOrder(indices) == \A k \in DOMAIN indices : indices[k] = k - 1

(* A level over the stored nodes of the level below; the prefix that was     *)
(* touched is stored, the rest of a level is its empty subtree.             *)
LevelOver(below, empty) ==
  LET At(i) == IF i <= Len(below) THEN below[i] ELSE empty
  IN  [j \in 1 .. (Len(below) + 1) \div 2 |-> Hash(below[2 * j - 1], At(2 * j))]

(* The nodes of the tree over `list`, level by level. *)
NodesOf(list) ==
  LET level[l \in 0 .. Depth] ==
        IF l = 0 THEN list ELSE LevelOver(level[l - 1], ZeroSubtree[l - 1])
  IN  level

(* MerkleTree::insert: the loop of the contract, in the client's tree. *)
Insert(tree, position, leaf) ==
  LET node == Climb(tree.filled, position, leaf)
  IN  [filled |-> Refill(tree.filled, position, node), root |-> node[Depth]]

EmptyTree == [filled |-> [l \in Levels |-> ZeroSubtree[l]], root |-> ZeroSubtree[Depth]]

(* The root the client arrives at after the whole list, from an empty tree. *)
RootOfList(list) ==
  LET after[k \in 0 .. Len(list)] ==
        IF k = 0 THEN EmptyTree ELSE Insert(after[k - 1], k - 1, list[k])
  IN  after[Len(list)].root

(* MerkleTree::proof: the sibling (index ^ 1) at every level. *)
Siblings(list, position) ==
  LET nodes == NodesOf(list)
  IN  [l \in Levels |->
         LET i == Above(position)[l]
             sibling == IF i % 2 = 0 THEN i + 1 ELSE i - 1
         IN  IF sibling < Len(nodes[l]) THEN nodes[l][sibling + 1] ELSE ZeroSubtree[l]]

(* Mutant: the top bit of the position is lost. *)
RootOfPathTopBitLost(leaf, position, siblings) ==
  PathUp(leaf, position % Width[Depth - 1], siblings)[Depth]

(* enforce_membership, verify_proof: the root a path leads to. *)
RootOfPath(leaf, position, siblings) == PathUp(leaf, position, siblings)[Depth]

-----------------------------------------------------------------------------
Init ==
  /\ leaves = <<>>
  /\ filledSubtrees = [l \in Levels |-> ZeroSubtree[l]]
  /\ rootRingHead = 0
  /\ rootHistory = [i \in RingSlots |-> IF i = 0 THEN ZeroSubtree[Depth] ELSE Zero]
  /\ proof = NoProof

(* One call of the pool files a batch of leaves: two for a deposit, three   *)
(* for a transfer inside the pool.                                          *)
File(batch) ==
  LET tree == [next |-> Len(leaves), filled |-> filledSubtrees,
               head |-> rootRingHead, ring |-> rootHistory]
      new  == Appended(tree, batch)
  IN  /\ Len(leaves) + Len(batch) <= Capacity
      /\ leaves' = leaves \o batch
      /\ filledSubtrees' = new.filled
      /\ rootRingHead' = new.head
      /\ rootHistory' = new.ring
      /\ UNCHANGED proof

(* collect_note_v2, up to the proof: the client takes any leaves under      *)
(* indices that count up, as many as its tree holds, and proves the one at  *)
(* `position` in the tree over them; after a refusal it does so again with  *)
(* what it is served then.                                                  *)
Prove(indices) ==
  /\ InOrder(indices) /\ Len(indices) <= Capacity
  /\ \E list \in [DOMAIN indices -> LeafValues], position \in 0 .. Len(indices) - 1 :
       proof' = [leaf |-> list[position + 1], position |-> position,
                 siblings |-> Siblings(list, position), root |-> RootOfList(list),
                 indices |-> indices, list |-> list]
  /\ UNCHANGED <<leaves, filledSubtrees, rootRingHead, rootHistory>>

(* The circuit and the contract together: the path leads to the root the    *)
(* proof names, and the root is in the ring.                                *)
Accepted(p) ==
  RootOfPath(p.leaf, p.position, p.siblings) = p.root /\ IsKnownRoot(p.root)

Next ==
  \/ \E n \in 2 .. 3 : \E batch \in [1 .. n -> LeafValues] : File(batch)
  \/ \E n \in 1 .. MaxServed : \E indices \in [1 .. n -> 0 .. MaxServed] : Prove(indices)

Spec == Init /\ [][Next]_vars

-----------------------------------------------------------------------------
(* The state has the shape of the contract's storage and the client's proof. *)
TypeOK ==
  /\ leaves \in Seq(LeafValues) /\ Len(leaves) <= Capacity
  /\ DOMAIN filledSubtrees = Levels
  /\ rootRingHead \in RingSlots
  /\ DOMAIN rootHistory = RingSlots
  /\ proof # NoProof => proof.position < Len(proof.list) /\ Len(proof.list) <= Capacity

(* How many leaves ago the root in slot i was the root of the tree. *)
Age(i) == IF i <= rootRingHead THEN rootRingHead - i ELSE rootRingHead + RootRingSize - i

(* The leaves with the empty ones behind them, and the level above another. *)
Padded(list) == [i \in Nat |-> IF i < Len(list) THEN list[i + 1] ELSE Zero]
Parents(nodes) == [i \in Nat |-> Hash(nodes[2 * i], nodes[2 * i + 1])]

(* The tree the definition of a Merkle tree gives, hashed from the leaves up  *)
(* with everything behind them empty.                                       *)
TreeOver(list) ==
  LET level[l \in 0 .. Depth] ==
        IF l = 0 THEN Padded(list) ELSE Parents(level[l - 1])
  IN  level

ReferenceRoot(list) == TreeOver(list)[Depth][0]

(* Every slot of the ring holds the root of the tree over the first leaves, *)
(* one leaf fewer for every slot back, although the contract never holds    *)
(* more than one node per level.  HiddenPoolV2 numbers its roots by this.   *)
RingHoldsReferenceRoots ==
  \A i \in RingSlots :
    rootHistory[i] = IF Age(i) <= Len(leaves)
                       THEN ReferenceRoot(SubSeq(leaves, 1, Len(leaves) - Age(i))) ELSE Zero

(* Every pair served for a proof is a leaf of the pool at its index. *)
ServedTruly(p) ==
  \A k \in DOMAIN p.list :
    p.indices[k] < Len(leaves) /\ leaves[p.indices[k] + 1] = p.list[k]

(* Whatever pairs the index served, wrong ones, the same one twice or ones   *)
(* out of order among them, a proof the client makes of them is accepted    *)
(* exactly when every one was true and fewer than RootRingSize leaves have  *)
(* been filed since: a list cut short costs a refusal at worst, and no      *)
(* false pair goes unnoticed.                                               *)
ProofGoodWhileRecent ==
  proof # NoProof =>
    (Accepted(proof) <=> /\ ServedTruly(proof)
                         /\ Len(leaves) - Len(proof.list) < RootRingSize)

(* With these siblings no position can be claimed for a leaf but its own:    *)
(* the nullifier is derived from the position, and a second one for a leaf  *)
(* would be a second nullifier.                                             *)
ProvesPosition(siblings) ==
  \A claimed \in 0 .. Capacity - 1, leaf \in LeafValues :
    RootOfPath(leaf, claimed, siblings) = rootHistory[rootRingHead]
      => claimed < Len(leaves) /\ leaves[claimed + 1] = leaf

(* What a prover can put beside its path: at each level a node of the tree   *)
(* or the empty subtree, and not only the siblings of one leaf.             *)
SiblingChoices ==
  LET nodes == NodesOf(leaves)
      choice[l \in Levels] == {ZeroSubtree[l]} \cup {nodes[l][i] : i \in DOMAIN nodes[l]}
  IN  {siblings \in [Levels -> UNION {choice[l] : l \in Levels}] :
         \A l \in Levels : siblings[l] \in choice[l]}

(* A path under the pool's root proves where its leaf is, whatever nodes of  *)
(* the tree a prover puts beside it.                                        *)
PathProvesPosition == \A siblings \in SiblingChoices : ProvesPosition(siblings)
=============================================================================
