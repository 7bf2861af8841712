------------------------ MODULE MerkleReplicaProofs ------------------------
(***************************************************************************)
(* That one stored node per level is enough to keep the root of a Merkle   *)
(* tree, that a client's copy of the tree proves under the same roots, and  *)
(* that a path proves the position of its leaf: for every depth, every     *)
(* size of the ring and every set of commitments.                          *)
(***************************************************************************)
EXTENDS MerkleReplica, SequenceTheorems, FiniteSetTheorems, WellFoundedInduction, TLAPS

-----------------------------------------------------------------------------
(* Induction, on a set of levels.                                           *)

LEMMA Climbing ==
  ASSUME NEW n \in Nat, NEW G, 0 \in G, \A d \in Nat : d < n /\ d \in G => d + 1 \in G
  PROVE  \A d \in 0 .. n : d \in G
<1> DEFINE B == {d \in 0 .. n : d \notin G}
<1>1. SUFFICES ASSUME B # {} PROVE FALSE
  OBVIOUS
<1>2. B \subseteq Nat
  OBVIOUS
<1>3. PICK d \in B : \A e \in B : ~(<<e, d>> \in OpToRel(<, Nat))
  <2> HIDE DEF B
  <2> QED
    BY <1>1, <1>2, NatLessThanWellFounded, WFMin
<1>4. \A e \in B : ~(e < d)
  BY <1>2, <1>3 DEF OpToRel
<1>5. d # 0 /\ d - 1 \in Nat /\ d - 1 \notin B /\ d - 1 < n
  BY <1>4
<1>6. d - 1 \in G
  BY <1>5
<1>7. (d - 1) + 1 = d
  OBVIOUS
<1> QED
  BY <1>5, <1>6, <1>7

-----------------------------------------------------------------------------
(* The recursive functions of the model satisfy their equations. The        *)
(* library's recursion theorem takes the step as a parameter, which the     *)
(* provers cannot instantiate, so each function has a lemma of its own.     *)

(* The leaves of a subtree.                                                 *)
LEMMA WidthIs ==
  Width = [l \in 0 .. Depth |-> IF l = 0 THEN 1 ELSE 2 * Width[l - 1]]
<1> DEFINE Part(d) == \E g : g = [l \in 0 .. d |-> IF l = 0 THEN 1 ELSE 2 * g[l - 1]]
           G == {d \in 0 .. Depth : Part(d)}
<1>a. Depth \in Nat
  BY TreeAssumption
<1>1. Part(0)
  <2> DEFINE h == [l \in 0 .. 0 |-> 1]
  <2>1. h = [l \in 0 .. 0 |-> IF l = 0 THEN 1 ELSE 2 * h[l - 1]]
    OBVIOUS
  <2> QED
    BY <2>1
<1>2. ASSUME NEW d \in Nat, Part(d) PROVE Part(d + 1)
  <2>1. PICK g : g = [l \in 0 .. d |-> IF l = 0 THEN 1 ELSE 2 * g[l - 1]]
    BY <1>2
  <2> DEFINE h == [l \in 0 .. d + 1 |-> IF l = d + 1 THEN 2 * g[(d + 1) - 1] ELSE g[l]]
  <2>2. h = [l \in 0 .. d + 1 |-> IF l = 0 THEN 1 ELSE 2 * h[l - 1]]
    BY <2>1
  <2> QED
    BY <2>2
<1> HIDE DEF Part
<1>3. Depth \in G
  <2>1. 0 \in G /\ \A d \in Nat : d < Depth /\ d \in G => d + 1 \in G
    BY <1>a, <1>1, <1>2
  <2> HIDE DEF G
  <2> QED
    BY <1>a, <2>1, Climbing
<1> QED
  BY <1>3 DEF Width, Part

(* The halving of an index.                                                 *)
LEMMA AboveIs ==
  ASSUME NEW index
  PROVE  Above(index) = [l \in 0 .. Depth |-> IF l = 0 THEN index ELSE Above(index)[l - 1] \div 2]
<1> DEFINE Part(d) == \E g : g = [l \in 0 .. d |-> IF l = 0 THEN index ELSE g[l - 1] \div 2]
           G == {d \in 0 .. Depth : Part(d)}
<1>a. Depth \in Nat
  BY TreeAssumption
<1>1. Part(0)
  <2> DEFINE h == [l \in 0 .. 0 |-> index]
  <2>1. h = [l \in 0 .. 0 |-> IF l = 0 THEN index ELSE h[l - 1] \div 2]
    OBVIOUS
  <2> QED
    BY <2>1
<1>2. ASSUME NEW d \in Nat, Part(d) PROVE Part(d + 1)
  <2>1. PICK g : g = [l \in 0 .. d |-> IF l = 0 THEN index ELSE g[l - 1] \div 2]
    BY <1>2
  <2> DEFINE h == [l \in 0 .. d + 1 |-> IF l = d + 1 THEN g[(d + 1) - 1] \div 2 ELSE g[l]]
  <2>2. h = [l \in 0 .. d + 1 |-> IF l = 0 THEN index ELSE h[l - 1] \div 2]
    BY <2>1
  <2> QED
    BY <2>2
<1> HIDE DEF Part
<1>3. Depth \in G
  <2>1. 0 \in G /\ \A d \in Nat : d < Depth /\ d \in G => d + 1 \in G
    BY <1>a, <1>1, <1>2
  <2> HIDE DEF G
  <2> QED
    BY <1>a, <2>1, Climbing
<1> QED
  BY <1>3 DEF Above, Part

(* The empty subtrees.                                                      *)
LEMMA ZeroIs ==
  ZeroSubtree = [l \in 0 .. Depth |->
                 IF l = 0 THEN Zero ELSE Hash(ZeroSubtree[l - 1], ZeroSubtree[l - 1])]
<1> DEFINE Part(d) == \E g : g = [l \in 0 .. d |-> IF l = 0 THEN Zero ELSE Hash(g[l - 1], g[l - 1])]
           G == {d \in 0 .. Depth : Part(d)}
<1>a. Depth \in Nat
  BY TreeAssumption
<1>1. Part(0)
  <2> DEFINE h == [l \in 0 .. 0 |-> Zero]
  <2>1. h = [l \in 0 .. 0 |-> IF l = 0 THEN Zero ELSE Hash(h[l - 1], h[l - 1])]
    OBVIOUS
  <2> QED
    BY <2>1
<1>2. ASSUME NEW d \in Nat, Part(d) PROVE Part(d + 1)
  <2>1. PICK g : g = [l \in 0 .. d |-> IF l = 0 THEN Zero ELSE Hash(g[l - 1], g[l - 1])]
    BY <1>2
  <2> DEFINE h == [l \in 0 .. d + 1 |->
                   IF l = d + 1 THEN Hash(g[(d + 1) - 1], g[(d + 1) - 1]) ELSE g[l]]
  <2>2. h = [l \in 0 .. d + 1 |-> IF l = 0 THEN Zero ELSE Hash(h[l - 1], h[l - 1])]
    BY <2>1
  <2> QED
    BY <2>2
<1> HIDE DEF Part
<1>3. Depth \in G
  <2>1. 0 \in G /\ \A d \in Nat : d < Depth /\ d \in G => d + 1 \in G
    BY <1>a, <1>1, <1>2
  <2> HIDE DEF G
  <2> QED
    BY <1>a, <2>1, Climbing
<1> QED
  BY <1>3 DEF ZeroSubtree, Part

(* The climb from a leaf.                                                   *)
LEMMA PathIs ==
  ASSUME NEW leaf, NEW index, NEW siblings
  PROVE  PathUp(leaf, index, siblings) = [l \in 0 .. Depth |-> IF l = 0 THEN leaf ELSE
    IF IsLeft(index, l - 1) THEN Hash(PathUp(leaf, index, siblings)[l - 1], siblings[l - 1])
    ELSE Hash(siblings[l - 1], PathUp(leaf, index, siblings)[l - 1])]
<1> DEFINE Part(d) == \E g : g = [l \in 0 .. d |-> IF l = 0 THEN leaf ELSE
    IF IsLeft(index, l - 1) THEN Hash(g[l - 1], siblings[l - 1])
    ELSE Hash(siblings[l - 1], g[l - 1])]
           G == {d \in 0 .. Depth : Part(d)}
<1>a. Depth \in Nat
  BY TreeAssumption
<1>1. Part(0)
  <2> DEFINE h == [l \in 0 .. 0 |-> leaf]
  <2>1. h = [l \in 0 .. 0 |-> IF l = 0 THEN leaf ELSE
    IF IsLeft(index, l - 1) THEN Hash(h[l - 1], siblings[l - 1])
    ELSE Hash(siblings[l - 1], h[l - 1])]
    OBVIOUS
  <2> QED
    BY <2>1
<1>2. ASSUME NEW d \in Nat, Part(d) PROVE Part(d + 1)
  <2>1. PICK g : g = [l \in 0 .. d |-> IF l = 0 THEN leaf ELSE
    IF IsLeft(index, l - 1) THEN Hash(g[l - 1], siblings[l - 1])
    ELSE Hash(siblings[l - 1], g[l - 1])]
    BY <1>2
  <2> DEFINE h == [l \in 0 .. d + 1 |-> IF l = d + 1 THEN
    IF IsLeft(index, (d + 1) - 1) THEN Hash(g[(d + 1) - 1], siblings[(d + 1) - 1])
    ELSE Hash(siblings[(d + 1) - 1], g[(d + 1) - 1]) ELSE g[l]]
  <2>2. h = [l \in 0 .. d + 1 |-> IF l = 0 THEN leaf ELSE
    IF IsLeft(index, l - 1) THEN Hash(h[l - 1], siblings[l - 1])
    ELSE Hash(siblings[l - 1], h[l - 1])]
    BY <2>1
  <2> QED
    BY <2>2
<1> HIDE DEF Part
<1>3. Depth \in G
  <2>1. 0 \in G /\ \A d \in Nat : d < Depth /\ d \in G => d + 1 \in G
    BY <1>a, <1>1, <1>2
  <2> HIDE DEF G
  <2> QED
    BY <1>a, <2>1, Climbing
<1> QED
  BY <1>3 DEF PathUp, Part

(* The reference tree.                                                      *)
LEMMA TreeIs ==
  ASSUME NEW list
  PROVE  TreeOver(list) = [l \in 0 .. Depth |->
                           IF l = 0 THEN Padded(list) ELSE Parents(TreeOver(list)[l - 1])]
<1> DEFINE Part(d) == \E g : g = [l \in 0 .. d |->
                                  IF l = 0 THEN Padded(list) ELSE Parents(g[l - 1])]
           G == {d \in 0 .. Depth : Part(d)}
<1>a. Depth \in Nat
  BY TreeAssumption
<1>1. Part(0)
  <2> DEFINE h == [l \in 0 .. 0 |-> Padded(list)]
  <2>1. h = [l \in 0 .. 0 |-> IF l = 0 THEN Padded(list) ELSE Parents(h[l - 1])]
    OBVIOUS
  <2> QED
    BY <2>1
<1>2. ASSUME NEW d \in Nat, Part(d) PROVE Part(d + 1)
  <2>1. PICK g : g = [l \in 0 .. d |-> IF l = 0 THEN Padded(list) ELSE Parents(g[l - 1])]
    BY <1>2
  <2> DEFINE h == [l \in 0 .. d + 1 |-> IF l = d + 1 THEN Parents(g[(d + 1) - 1]) ELSE g[l]]
  <2>2. h = [l \in 0 .. d + 1 |-> IF l = 0 THEN Padded(list) ELSE Parents(h[l - 1])]
    BY <2>1
  <2> QED
    BY <2>2
<1> HIDE DEF Part
<1>3. Depth \in G
  <2>1. 0 \in G /\ \A d \in Nat : d < Depth /\ d \in G => d + 1 \in G
    BY <1>a, <1>1, <1>2
  <2> HIDE DEF G
  <2> QED
    BY <1>a, <2>1, Climbing
<1> QED
  BY <1>3 DEF TreeOver, Part

(* The stored levels of the client.                                         *)
LEMMA NodesIs ==
  ASSUME NEW list
  PROVE  NodesOf(list) = [l \in 0 .. Depth |->
                          IF l = 0 THEN list
                          ELSE LevelOver(NodesOf(list)[l - 1], ZeroSubtree[l - 1])]
<1> DEFINE Part(d) == \E g : g = [l \in 0 .. d |->
                                  IF l = 0 THEN list ELSE LevelOver(g[l - 1], ZeroSubtree[l - 1])]
           G == {d \in 0 .. Depth : Part(d)}
<1>a. Depth \in Nat
  BY TreeAssumption
<1>1. Part(0)
  <2> DEFINE h == [l \in 0 .. 0 |-> list]
  <2>1. h = [l \in 0 .. 0 |-> IF l = 0 THEN list ELSE LevelOver(h[l - 1], ZeroSubtree[l - 1])]
    OBVIOUS
  <2> QED
    BY <2>1
<1>2. ASSUME NEW d \in Nat, Part(d) PROVE Part(d + 1)
  <2>1. PICK g : g = [l \in 0 .. d |->
                      IF l = 0 THEN list ELSE LevelOver(g[l - 1], ZeroSubtree[l - 1])]
    BY <1>2
  <2> DEFINE h == [l \in 0 .. d + 1 |->
                   IF l = d + 1 THEN LevelOver(g[(d + 1) - 1], ZeroSubtree[(d + 1) - 1]) ELSE g[l]]
  <2>2. h = [l \in 0 .. d + 1 |-> IF l = 0 THEN list ELSE LevelOver(h[l - 1], ZeroSubtree[l - 1])]
    BY <2>1
  <2> QED
    BY <2>2
<1> HIDE DEF Part
<1>3. Depth \in G
  <2>1. 0 \in G /\ \A d \in Nat : d < Depth /\ d \in G => d + 1 \in G
    BY <1>a, <1>1, <1>2
  <2> HIDE DEF G
  <2> QED
    BY <1>a, <2>1, Climbing
<1> QED
  BY <1>3 DEF NodesOf, Part

(* The leaves of a call, one after the other.                               *)
AppendLoop(after, tree, batch, n) == after = [k \in 0 .. n |->
                                              IF k = 0 THEN tree
                                              ELSE AppendLeaf(after[k - 1], batch[k])]

LEMMA AppendedIs ==
  ASSUME NEW batch, NEW n \in Nat, n = Len(batch), NEW tree
  PROVE  \E after : /\ AppendLoop(after, tree, batch, n)
                   /\ Appended(tree, batch) = after[n]
<1> DEFINE Part(d) == \E g : g = [k \in 0 .. d |->
                                  IF k = 0 THEN tree ELSE AppendLeaf(g[k - 1], batch[k])]
           G == {d \in 0 .. n : Part(d)}
<1>a. n \in Nat
  OBVIOUS
<1>1. Part(0)
  <2> DEFINE h == [k \in 0 .. 0 |-> tree]
  <2>1. h = [k \in 0 .. 0 |-> IF k = 0 THEN tree ELSE AppendLeaf(h[k - 1], batch[k])]
    OBVIOUS
  <2> QED
    BY <2>1
<1>2. ASSUME NEW d \in Nat, Part(d) PROVE Part(d + 1)
  <2>1. PICK g : g = [k \in 0 .. d |-> IF k = 0 THEN tree ELSE AppendLeaf(g[k - 1], batch[k])]
    BY <1>2
  <2> DEFINE h == [k \in 0 .. d + 1 |->
                   IF k = d + 1 THEN AppendLeaf(g[(d + 1) - 1], batch[(d + 1)]) ELSE g[k]]
  <2>2. h = [k \in 0 .. d + 1 |-> IF k = 0 THEN tree ELSE AppendLeaf(h[k - 1], batch[k])]
    BY <2>1
  <2> QED
    BY <2>2
<1> HIDE DEF Part
<1>3. n \in G
  <2>1. 0 \in G /\ \A d \in Nat : d < n /\ d \in G => d + 1 \in G
    BY <1>a, <1>1, <1>2
  <2> HIDE DEF G
  <2> QED
    BY <1>a, <2>1, Climbing
<1>4. Part(n)
  BY <1>3
<1> QED
  BY <1>4 DEF Part, Appended, AppendLoop

(* The replay of a list.                                                    *)
InsertLoop(after, list, n) == after = [k \in 0 .. n |->
                                       IF k = 0 THEN EmptyTree
                                       ELSE Insert(after[k - 1], k - 1, list[k])]

LEMMA RootOfListIs ==
  ASSUME NEW list, NEW n \in Nat, n = Len(list)
  PROVE  \E after : /\ InsertLoop(after, list, n)
                   /\ RootOfList(list) = after[n].root
<1> DEFINE Part(d) == \E g : g = [k \in 0 .. d |->
                                  IF k = 0 THEN EmptyTree ELSE Insert(g[k - 1], k - 1, list[k])]
           G == {d \in 0 .. n : Part(d)}
<1>a. n \in Nat
  OBVIOUS
<1>1. Part(0)
  <2> DEFINE h == [k \in 0 .. 0 |-> EmptyTree]
  <2>1. h = [k \in 0 .. 0 |-> IF k = 0 THEN EmptyTree ELSE Insert(h[k - 1], k - 1, list[k])]
    OBVIOUS
  <2> QED
    BY <2>1
<1>2. ASSUME NEW d \in Nat, Part(d) PROVE Part(d + 1)
  <2>1. PICK g : g = [k \in 0 .. d |->
                      IF k = 0 THEN EmptyTree ELSE Insert(g[k - 1], k - 1, list[k])]
    BY <1>2
  <2> DEFINE h == [k \in 0 .. d + 1 |->
                   IF k = d + 1 THEN Insert(g[(d + 1) - 1], (d + 1) - 1, list[(d + 1)]) ELSE g[k]]
  <2>2. h = [k \in 0 .. d + 1 |-> IF k = 0 THEN EmptyTree ELSE Insert(h[k - 1], k - 1, list[k])]
    BY <2>1
  <2> QED
    BY <2>2
<1> HIDE DEF Part
<1>3. n \in G
  <2>1. 0 \in G /\ \A d \in Nat : d < n /\ d \in G => d + 1 \in G
    BY <1>a, <1>1, <1>2
  <2> HIDE DEF G
  <2> QED
    BY <1>a, <2>1, Climbing
<1>4. Part(n)
  BY <1>3
<1> QED
  BY <1>4 DEF Part, RootOfList, InsertLoop

-----------------------------------------------------------------------------
(* The positions of the nodes.                                              *)

LEMMA Halves ==
  ASSUME NEW a \in Nat
  PROVE  /\ a \div 2 \in Nat /\ a % 2 \in {0, 1}
         /\ a % 2 = 0 => a = 2 * (a \div 2)
         /\ a % 2 # 0 => a = 2 * (a \div 2) + 1
  OBVIOUS

LEMMA HalfNext ==
  ASSUME NEW a \in Nat
  PROVE  ((a + 1) + 1) \div 2 = a \div 2 + 1 /\ a \div 2 \in Nat /\ 2 * (a \div 2) <= a
  OBVIOUS

LEMMA WidthStep ==
  /\ Width[0] = 1
  /\ \A l \in Levels : Width[l + 1] = 2 * Width[l]
  /\ \A l \in 0 .. Depth : Width[l] \in Nat \ {0}
<1>a. Depth \in Nat \ {0}
  BY TreeAssumption
<1>1. Width[0] = 1
  BY ONLY <1>a, WidthIs
<1>2. \A l \in Levels : Width[l + 1] = 2 * Width[l]
  <2> TAKE l \in Levels
  <2>1. l + 1 \in 0 .. Depth /\ l + 1 # 0 /\ (l + 1) - 1 = l
    BY <1>a DEF Levels
  <2> QED
    BY ONLY <2>1, WidthIs
<1>3. \A l \in 0 .. Depth : Width[l] \in Nat \ {0}
  <2> DEFINE G == {l \in 0 .. Depth : Width[l] \in Nat \ {0}}
  <2>1. \A l \in Nat : l < Depth /\ l \in G => l + 1 \in G
    BY <1>a, <1>2 DEF Levels
  <2>2. 0 \in G
    BY <1>a, <1>1
  <2> HIDE DEF G
  <2>3. \A l \in 0 .. Depth : l \in G
    BY <1>a, <2>1, <2>2, Climbing
  <2> QED
    BY <2>3 DEF G
<1> QED
  BY <1>1, <1>2, <1>3

LEMMA AboveStep ==
  ASSUME NEW i \in Nat
  PROVE  /\ Above(i)[0] = i
         /\ \A l \in Levels : Above(i)[l + 1] = Above(i)[l] \div 2
         /\ \A l \in 0 .. Depth : Above(i)[l] \in Nat
<1>a. Depth \in Nat \ {0}
  BY TreeAssumption
<1>1. Above(i)[0] = i
  BY ONLY <1>a, AboveIs
<1>2. \A l \in Levels : Above(i)[l + 1] = Above(i)[l] \div 2
  <2> DEFINE at == Above(i)
  <2>1. at = [l \in 0 .. Depth |-> IF l = 0 THEN i ELSE at[l - 1] \div 2]
    BY AboveIs
  <2> HIDE DEF at
  <2>2. ASSUME NEW l \in Levels PROVE at[l + 1] = at[l] \div 2
    <3>1. l + 1 \in 0 .. Depth /\ l + 1 # 0 /\ (l + 1) - 1 = l
      BY <1>a DEF Levels
    <3>2. at[l + 1] = at[(l + 1) - 1] \div 2
      BY ONLY <2>1, <3>1
    <3> QED
      BY <3>1, <3>2
  <2> QED
    BY <2>2 DEF at
<1>3. \A l \in 0 .. Depth : Above(i)[l] \in Nat
  <2> DEFINE G == {l \in 0 .. Depth : Above(i)[l] \in Nat}
  <2>1. \A l \in Nat : l < Depth /\ l \in G => l + 1 \in G
    BY <1>a, <1>2, Halves DEF Levels
  <2>2. 0 \in G
    BY <1>a, <1>1
  <2> HIDE DEF G
  <2>3. \A l \in 0 .. Depth : l \in G
    BY <1>a, <2>1, <2>2, Climbing
  <2> QED
    BY <2>3 DEF G
<1> QED
  BY <1>1, <1>2, <1>3

(* A position of the tree is over the top's only node. *)
LEMMA AboveTop ==
  ASSUME NEW i \in Nat, i < Capacity
  PROVE  Above(i)[Depth] = 0
<1>a. Depth \in Nat \ {0}
  BY TreeAssumption
<1> DEFINE G == {l \in 0 .. Depth : Above(i)[l] < Width[Depth - l]}
<1>1. 0 \in G
  BY <1>a, AboveStep DEF Capacity
<1>2. ASSUME NEW l \in Nat, l < Depth, l \in G
      PROVE  l + 1 \in G
  <2> DEFINE m == Depth - (l + 1)
  <2>1. l \in Levels /\ l + 1 \in 0 .. Depth /\ m \in Levels /\ Depth - l = m + 1
    BY <1>a, <1>2 DEF Levels
  <2>2. Width[m + 1] = 2 * Width[m] /\ Width[m] \in Nat
    BY <1>a, <2>1, WidthStep DEF Levels
  <2>3. Above(i)[l] < Width[Depth - l]
    BY <1>2
  <2>4. Above(i)[l + 1] = Above(i)[l] \div 2 /\ Above(i)[l] \in Nat
    BY <1>a, <2>1, AboveStep DEF Levels
  <2>5. Above(i)[l] < 2 * Width[m]
    BY <2>1, <2>2, <2>3
  <2>6. Above(i)[l + 1] < Width[m]
    BY ONLY <2>2, <2>4, <2>5
  <2> QED
    BY <2>1, <2>6
<1> HIDE DEF G
<1>3. Depth \in G
  BY <1>a, <1>1, <1>2, Climbing
<1>4. Above(i)[Depth] < Width[Depth - Depth] /\ Depth - Depth = 0
  BY <1>a, <1>3 DEF G
<1>5. Above(i)[Depth] < 1 /\ Above(i)[Depth] \in Nat
  BY <1>a, <1>4, WidthStep, AboveStep
<1> QED
  BY <1>5

(* Above the next position is the same node, or the next one. *)
LEMMA AboveNext ==
  ASSUME NEW i \in Nat
  PROVE  \A l \in 0 .. Depth : \/ Above(i + 1)[l] = Above(i)[l]
                               \/ Above(i + 1)[l] = Above(i)[l] + 1
<1>a. Depth \in Nat \ {0} /\ i + 1 \in Nat
  BY TreeAssumption
<1> DEFINE G == {l \in 0 .. Depth : \/ Above(i + 1)[l] = Above(i)[l]
                                    \/ Above(i + 1)[l] = Above(i)[l] + 1}
<1>1. 0 \in G
  BY <1>a, AboveStep
<1>2. ASSUME NEW l \in Nat, l < Depth, l \in G
      PROVE  l + 1 \in G
  <2>1. l \in Levels /\ l + 1 \in 0 .. Depth /\ l \in 0 .. Depth
    BY <1>a, <1>2 DEF Levels
  <2>2. /\ Above(i)[l + 1] = Above(i)[l] \div 2 /\ Above(i)[l] \in Nat
        /\ Above(i + 1)[l + 1] = Above(i + 1)[l] \div 2
    BY <1>a, <2>1, AboveStep
  <2>3. \/ Above(i + 1)[l] = Above(i)[l]
        \/ Above(i + 1)[l] = Above(i)[l] + 1
    BY <1>2
  <2>4. \/ Above(i + 1)[l + 1] = Above(i)[l + 1]
        \/ Above(i + 1)[l + 1] = Above(i)[l + 1] + 1
    BY ONLY <2>2, <2>3
  <2> QED
    BY <2>1, <2>4
<1> HIDE DEF G
<1>3. \A l \in 0 .. Depth : l \in G
  BY <1>a, <1>1, <1>2, Climbing
<1> QED
  BY <1>3 DEF G

(* Above position 0 everything is 0. *)
LEMMA AboveFirst ==
  \A l \in 0 .. Depth : Above(0)[l] = 0
<1>a. Depth \in Nat \ {0}
  BY TreeAssumption
<1> DEFINE G == {l \in 0 .. Depth : Above(0)[l] = 0}
<1>1. 0 \in G
  BY <1>a, AboveStep
<1>2. ASSUME NEW l \in Nat, l < Depth, l \in G
      PROVE  l + 1 \in G
  <2>1. l \in Levels /\ l + 1 \in 0 .. Depth
    BY <1>a, <1>2 DEF Levels
  <2>2. Above(0)[l + 1] = Above(0)[l] \div 2 /\ Above(0)[l] = 0
    BY <1>2, <2>1, AboveStep
  <2> QED
    BY <2>1, <2>2
<1> HIDE DEF G
<1>3. \A l \in 0 .. Depth : l \in G
  BY <1>a, <1>1, <1>2, Climbing
<1> QED
  BY <1>3 DEF G

-----------------------------------------------------------------------------
(* The reference tree.                                                      *)

LEMMA ZeroStep ==
  /\ ZeroSubtree[0] = Zero
  /\ \A l \in Levels : ZeroSubtree[l + 1] = Hash(ZeroSubtree[l], ZeroSubtree[l])
<1>a. Depth \in Nat \ {0}
  BY TreeAssumption
<1>1. ZeroSubtree[0] = Zero
  BY ONLY <1>a, ZeroIs
<1>2. ASSUME NEW l \in Levels
      PROVE  ZeroSubtree[l + 1] = Hash(ZeroSubtree[l], ZeroSubtree[l])
  <2>1. l + 1 \in 0 .. Depth /\ l + 1 # 0 /\ (l + 1) - 1 = l
    BY <1>a DEF Levels
  <2> QED
    BY ONLY <2>1, ZeroIs
<1> QED
  BY <1>1, <1>2

LEMMA TreeStep ==
  ASSUME NEW list
  PROVE  /\ \A i \in Nat : TreeOver(list)[0][i] = IF i < Len(list) THEN list[i + 1] ELSE Zero
         /\ \A l \in Levels, i \in Nat :
              TreeOver(list)[l + 1][i] = Hash(TreeOver(list)[l][2 * i], TreeOver(list)[l][2 * i + 1])
<1>a. Depth \in Nat \ {0}
  BY TreeAssumption
<1>1. TreeOver(list)[0] = Padded(list)
  BY ONLY <1>a, TreeIs
<1>2. ASSUME NEW l \in Levels
      PROVE  TreeOver(list)[l + 1] = Parents(TreeOver(list)[l])
  <2>1. l + 1 \in 0 .. Depth /\ l + 1 # 0 /\ (l + 1) - 1 = l
    BY <1>a DEF Levels
  <2> QED
    BY ONLY <2>1, TreeIs
<1> QED
  BY <1>1, <1>2 DEF Padded, Parents

LEMMA TreeLeaf ==
  ASSUME NEW list, NEW i \in Nat
  PROVE  TreeOver(list)[0][i] = IF i < Len(list) THEN list[i + 1] ELSE Zero
  BY TreeStep

LEMMA TreeNode ==
  ASSUME NEW list, NEW l \in Levels, NEW i \in Nat
  PROVE  TreeOver(list)[l + 1][i] = Hash(TreeOver(list)[l][2 * i], TreeOver(list)[l][2 * i + 1])
  BY TreeStep

LEMMA ZeroNode ==
  ASSUME NEW l \in Levels
  PROVE  ZeroSubtree[l + 1] = Hash(ZeroSubtree[l], ZeroSubtree[l])
  BY ZeroStep

(* Two lists with the same first leaves have the same nodes over them. *)
LEMMA SameLeft ==
  ASSUME NEW one, NEW two, NEW n \in Nat, n <= Len(one), n <= Len(two),
         Len(one) \in Nat, Len(two) \in Nat,
         \A k \in 1 .. n : one[k] = two[k]
  PROVE  \A l \in 0 .. Depth, j \in Nat :
           j < Above(n)[l] => TreeOver(one)[l][j] = TreeOver(two)[l][j]
<1>a. Depth \in Nat \ {0}
  BY TreeAssumption
<1> DEFINE G == {l \in 0 .. Depth : \A j \in Nat :
                   j < Above(n)[l] => TreeOver(one)[l][j] = TreeOver(two)[l][j]}
<1>1. 0 \in G
  <2>1. ASSUME NEW j \in Nat, j < n PROVE TreeOver(one)[0][j] = TreeOver(two)[0][j]
    <3>1. j + 1 \in 1 .. n /\ j < Len(one) /\ j < Len(two)
      BY <2>1
    <3>2. TreeOver(one)[0][j] = one[j + 1] /\ TreeOver(two)[0][j] = two[j + 1]
      BY <3>1, TreeLeaf
    <3> QED
      BY <3>1, <3>2
  <2>2. Above(n)[0] = n
    BY AboveStep
  <2> QED
    BY <1>a, <2>1, <2>2
<1>2. ASSUME NEW l \in Nat, l < Depth, l \in G
      PROVE  l + 1 \in G
  <2>1. l \in Levels /\ l + 1 \in 0 .. Depth /\ l \in 0 .. Depth
    BY <1>a, <1>2 DEF Levels
  <2>2. Above(n)[l + 1] = Above(n)[l] \div 2 /\ Above(n)[l] \in Nat
    BY <1>a, <2>1, AboveStep
  <2>3. ASSUME NEW j \in Nat, j < Above(n)[l + 1]
        PROVE  TreeOver(one)[l + 1][j] = TreeOver(two)[l + 1][j]
    <3>1. 2 * j \in Nat /\ 2 * j + 1 \in Nat /\ 2 * j < Above(n)[l] /\ 2 * j + 1 < Above(n)[l]
      BY <2>2, <2>3
    <3>2. /\ TreeOver(one)[l][2 * j] = TreeOver(two)[l][2 * j]
          /\ TreeOver(one)[l][2 * j + 1] = TreeOver(two)[l][2 * j + 1]
      BY <1>2, <3>1
    <3>3. /\ TreeOver(one)[l + 1][j] = Hash(TreeOver(one)[l][2 * j], TreeOver(one)[l][2 * j + 1])
          /\ TreeOver(two)[l + 1][j] = Hash(TreeOver(two)[l][2 * j], TreeOver(two)[l][2 * j + 1])
      BY <2>1, TreeNode
    <3> QED
      BY <3>2, <3>3
  <2> QED
    BY <2>1, <2>3
<1> HIDE DEF G
<1>3. \A l \in 0 .. Depth : l \in G
  BY <1>a, <1>1, <1>2, Climbing
<1> QED
  BY <1>3 DEF G

(* To the right of the last leaf every subtree is empty. *)
LEMMA EmptyRight ==
  ASSUME NEW list, NEW last \in Nat, Len(list) = last + 1
  PROVE  \A l \in 0 .. Depth, j \in Nat :
           j > Above(last)[l] => TreeOver(list)[l][j] = ZeroSubtree[l]
<1>a. Depth \in Nat \ {0}
  BY TreeAssumption
<1> DEFINE G == {l \in 0 .. Depth : \A j \in Nat :
                   j > Above(last)[l] => TreeOver(list)[l][j] = ZeroSubtree[l]}
<1>1. 0 \in G
  <2>1. ASSUME NEW j \in Nat, j > last PROVE TreeOver(list)[0][j] = Zero
    BY <2>1, TreeLeaf
  <2>2. Above(last)[0] = last
    BY AboveStep
  <2> QED
    BY <1>a, <2>1, <2>2, ZeroStep
<1>2. ASSUME NEW l \in Nat, l < Depth, l \in G
      PROVE  l + 1 \in G
  <2>1. l \in Levels /\ l + 1 \in 0 .. Depth /\ l \in 0 .. Depth
    BY <1>a, <1>2 DEF Levels
  <2>2. Above(last)[l + 1] = Above(last)[l] \div 2 /\ Above(last)[l] \in Nat
    BY <1>a, <2>1, AboveStep
  <2>3. ASSUME NEW j \in Nat, j > Above(last)[l + 1]
        PROVE  TreeOver(list)[l + 1][j] = ZeroSubtree[l + 1]
    <3>1. 2 * j \in Nat /\ 2 * j + 1 \in Nat /\ 2 * j > Above(last)[l] /\ 2 * j + 1 > Above(last)[l]
      BY <2>2, <2>3
    <3>2. /\ TreeOver(list)[l][2 * j] = ZeroSubtree[l]
          /\ TreeOver(list)[l][2 * j + 1] = ZeroSubtree[l]
      BY <1>2, <3>1
    <3>3. TreeOver(list)[l + 1][j] = Hash(TreeOver(list)[l][2 * j], TreeOver(list)[l][2 * j + 1])
      BY <2>1, TreeNode
    <3> QED
      BY <2>1, <3>2, <3>3, ZeroNode
  <2> QED
    BY <2>1, <2>3
<1> HIDE DEF G
<1>3. \A l \in 0 .. Depth : l \in G
  BY <1>a, <1>1, <1>2, Climbing
<1> QED
  BY <1>3 DEF G

(* The tree over no leaves is empty. *)
LEMMA EmptyAll ==
  ASSUME NEW list, Len(list) = 0
  PROVE  \A l \in 0 .. Depth, j \in Nat : TreeOver(list)[l][j] = ZeroSubtree[l]
<1>a. Depth \in Nat \ {0}
  BY TreeAssumption
<1> DEFINE G == {l \in 0 .. Depth : \A j \in Nat : TreeOver(list)[l][j] = ZeroSubtree[l]}
<1>1. 0 \in G
  BY <1>a, TreeStep, ZeroStep
<1>2. ASSUME NEW l \in Nat, l < Depth, l \in G
      PROVE  l + 1 \in G
  <2>1. l \in Levels /\ l + 1 \in 0 .. Depth
    BY <1>a, <1>2 DEF Levels
  <2>2. ASSUME NEW j \in Nat
        PROVE  TreeOver(list)[l + 1][j] = ZeroSubtree[l + 1]
    <3>1. 2 * j \in Nat /\ 2 * j + 1 \in Nat
      OBVIOUS
    <3>2. /\ TreeOver(list)[l][2 * j] = ZeroSubtree[l]
          /\ TreeOver(list)[l][2 * j + 1] = ZeroSubtree[l]
      BY <1>2, <3>1
    <3>3. TreeOver(list)[l + 1][j] = Hash(TreeOver(list)[l][2 * j], TreeOver(list)[l][2 * j + 1])
      BY <2>1, TreeNode
    <3> QED
      BY <2>1, <3>2, <3>3, ZeroNode
  <2> QED
    BY <2>1, <2>2
<1> HIDE DEF G
<1>3. \A l \in 0 .. Depth : l \in G
  BY <1>a, <1>1, <1>2, Climbing
<1> QED
  BY <1>3 DEF G

-----------------------------------------------------------------------------
(* One leaf is appended.                                                    *)

LEMMA PathStep ==
  ASSUME NEW leaf, NEW index, NEW siblings
  PROVE  /\ PathUp(leaf, index, siblings)[0] = leaf
         /\ \A l \in Levels :
              PathUp(leaf, index, siblings)[l + 1] =
                IF IsLeft(index, l) THEN Hash(PathUp(leaf, index, siblings)[l], siblings[l])
                ELSE Hash(siblings[l], PathUp(leaf, index, siblings)[l])
<1>a. Depth \in Nat \ {0}
  BY TreeAssumption
<1> DEFINE node == PathUp(leaf, index, siblings)
<1>1. node = [l \in 0 .. Depth |-> IF l = 0 THEN leaf ELSE
                IF IsLeft(index, l - 1) THEN Hash(node[l - 1], siblings[l - 1])
                ELSE Hash(siblings[l - 1], node[l - 1])]
  BY PathIs
<1> HIDE DEF node
<1>2. node[0] = leaf
  BY ONLY <1>a, <1>1
<1>3. ASSUME NEW l \in Levels
      PROVE  node[l + 1] = IF IsLeft(index, l) THEN Hash(node[l], siblings[l])
                           ELSE Hash(siblings[l], node[l])
  <2>1. l + 1 \in 0 .. Depth /\ l + 1 # 0 /\ (l + 1) - 1 = l
    BY <1>a DEF Levels
  <2>2. node[l + 1] = IF IsLeft(index, (l + 1) - 1)
                        THEN Hash(node[(l + 1) - 1], siblings[(l + 1) - 1])
                        ELSE Hash(siblings[(l + 1) - 1], node[(l + 1) - 1])
    BY ONLY <1>1, <2>1
  <2> QED
    BY <2>1, <2>2
<1> QED
  BY <1>2, <1>3 DEF node

(* The first leaves of a list. *)
First(list, n) == SubSeq(list, 1, n)

LEMMA FirstIs ==
  ASSUME NEW T, NEW list \in Seq(T), NEW n \in 0 .. Len(list)
  PROVE  /\ First(list, n) \in Seq(T) /\ Len(First(list, n)) = n
         /\ \A k \in 1 .. n : First(list, n)[k] = list[k]
  BY SubSeqProperties DEF First

LEMMA FirstAll ==
  ASSUME NEW T, NEW list \in Seq(T)
  PROVE  First(list, Len(list)) = list
  BY SubSeqProperties DEF First

(* Each stored node is the one its next right neighbour will be hashed with. *)
FilledGood(filled, list, n) ==
  /\ DOMAIN filled = Levels
  /\ \A l \in Levels :
       ~IsLeft(n, l) => filled[l] = TreeOver(First(list, n))[l][Above(n)[l] - 1]

(* One leaf more changes nothing to the left of the leaf. *)
LEMMA KeepsLeft ==
  ASSUME NEW T, NEW list \in Seq(T), NEW n \in Nat, n < Len(list), NEW l \in 0 .. Depth,
         NEW j \in Nat, j < Above(n)[l]
  PROVE  TreeOver(First(list, n))[l][j] = TreeOver(First(list, n + 1))[l][j]
<1> DEFINE one == First(list, n)
           two == First(list, n + 1)
<1>1. n \in 0 .. Len(list) /\ n + 1 \in 0 .. Len(list)
  BY LenProperties
<1>2. Len(one) = n /\ Len(two) = n + 1
  BY <1>1, FirstIs
<1>3. \A k \in 1 .. n : one[k] = two[k]
  <2>1. \A k \in 1 .. n : one[k] = list[k]
    BY <1>1, FirstIs
  <2>2. \A k \in 1 .. n + 1 : two[k] = list[k]
    BY <1>1, FirstIs
  <2>3. \A k \in 1 .. n : k \in 1 .. n + 1
    OBVIOUS
  <2> QED
    BY <2>1, <2>2, <2>3
<1> HIDE DEF one, two
<1>4. TreeOver(one)[l][j] = TreeOver(two)[l][j]
  BY <1>2, <1>3, SameLeft
<1> QED
  BY <1>4 DEF one, two

(* The climb of a new leaf is the nodes above it in the tree over the list. *)
LEMMA ClimbNode ==
  ASSUME NEW T, NEW list \in Seq(T), NEW n \in Nat, n < Len(list),
         NEW filled, FilledGood(filled, list, n)
  PROVE  \A l \in 0 .. Depth :
           Climb(filled, n, list[n + 1])[l] = TreeOver(First(list, n + 1))[l][Above(n)[l]]
<1>a. Depth \in Nat \ {0}
  BY TreeAssumption
<1> DEFINE side == [l \in Levels |-> IF IsLeft(n, l) THEN ZeroSubtree[l] ELSE filled[l]]
           node == PathUp(list[n + 1], n, side)
           two  == First(list, n + 1)
           tree == TreeOver(two)
           G    == {l \in 0 .. Depth : node[l] = tree[l][Above(n)[l]]}
<1>b. Climb(filled, n, list[n + 1]) = node
  BY DEF Climb
<1>c. n + 1 \in 0 .. Len(list) /\ Len(two) = n + 1 /\ two[n + 1] = list[n + 1]
  <2>1. n + 1 \in 0 .. Len(list) /\ n + 1 \in 1 .. n + 1
    BY LenProperties
  <2> QED
    BY <2>1, FirstIs
<1>1. 0 \in G
  <2>1. node[0] = list[n + 1]
    BY PathStep
  <2>2. Above(n)[0] = n
    BY AboveStep
  <2>3. tree[0][n] = two[n + 1]
    BY <1>c, TreeLeaf
  <2> QED
    BY <1>a, <1>c, <2>1, <2>2, <2>3
<1>2. ASSUME NEW l \in Nat, l < Depth, l \in G
      PROVE  l + 1 \in G
  <2> DEFINE a == Above(n)[l]
             h == a \div 2
  <2>1. l \in Levels /\ l + 1 \in 0 .. Depth /\ l \in 0 .. Depth
    BY <1>a, <1>2 DEF Levels
  <2>2. Above(n)[l + 1] = h /\ a \in Nat
    BY <2>1, AboveStep
  <2>3. node[l] = tree[l][a]
    BY <1>2
  <2>4. tree[l + 1][h] = Hash(tree[l][2 * h], tree[l][2 * h + 1])
    <3>1. h \in Nat
      BY <2>2, Halves
    <3> HIDE DEF h
    <3> QED
      BY <2>1, <3>1, TreeNode
  <2>5. node[l + 1] = IF IsLeft(n, l) THEN Hash(node[l], side[l]) ELSE Hash(side[l], node[l])
    BY <2>1, PathStep
  <2>6. node[l + 1] = tree[l + 1][h]
    <3>1. CASE IsLeft(n, l)
      <4>1. 2 * h = a /\ 2 * h + 1 = a + 1 /\ a + 1 \in Nat /\ a + 1 > a
        BY <3>1, <2>2, Halves DEF IsLeft
      <4>2. tree[l][a + 1] = ZeroSubtree[l]
        BY <1>c, <2>1, <4>1, EmptyRight
      <4>3. side[l] = ZeroSubtree[l]
        BY <2>1, <3>1
      <4> HIDE DEF node, tree, side, a, h
      <4> QED
        BY ONLY <2>3, <2>4, <2>5, <3>1, <4>1, <4>2, <4>3
    <3>2. CASE ~IsLeft(n, l)
      <4>1. 2 * h = a - 1 /\ 2 * h + 1 = a /\ a - 1 \in Nat /\ a - 1 < a
        BY <3>2, <2>2, Halves DEF IsLeft
      <4>2. filled[l] = TreeOver(First(list, n))[l][a - 1]
        BY <2>1, <3>2 DEF FilledGood
      <4>3. TreeOver(First(list, n))[l][a - 1] = tree[l][a - 1]
        <5> DEFINE j == a - 1
        <5>1. j \in Nat /\ j < Above(n)[l]
          BY <4>1
        <5> HIDE DEF j
        <5>2. TreeOver(First(list, n))[l][j] = tree[l][j]
          BY <2>1, <5>1, KeepsLeft
        <5> QED
          BY <5>2 DEF j
      <4>4. side[l] = filled[l]
        BY <2>1, <3>2
      <4> HIDE DEF node, tree, side, a, h
      <4> QED
        BY ONLY <2>3, <2>4, <2>5, <3>2, <4>1, <4>2, <4>3, <4>4
    <3> QED
      BY <3>1, <3>2
  <2> QED
    BY <2>1, <2>2, <2>6
<1> HIDE DEF G
<1>3. \A l \in 0 .. Depth : l \in G
  BY <1>a, <1>1, <1>2, Climbing
<1> QED
  BY <1>b, <1>3 DEF G

(* What is remembered of the climb is what the next leaf needs. *)
LEMMA RefillGood ==
  ASSUME NEW T, NEW list \in Seq(T), NEW n \in Nat, n < Len(list),
         NEW filled, FilledGood(filled, list, n)
  PROVE  FilledGood(Refill(filled, n, Climb(filled, n, list[n + 1])), list, n + 1)
<1>a. Depth \in Nat \ {0} /\ n + 1 \in Nat
  BY TreeAssumption
<1> DEFINE node == Climb(filled, n, list[n + 1])
           next == Refill(filled, n, node)
           tree == TreeOver(First(list, n + 1))
<1>1. DOMAIN next = Levels /\ \A l \in Levels : next[l] = IF IsLeft(n, l) THEN node[l] ELSE filled[l]
  BY DEF Refill
<1>2. \A l \in 0 .. Depth : node[l] = tree[l][Above(n)[l]]
  BY ClimbNode
<1> HIDE DEF node, next
<1>3. ASSUME NEW l \in Levels, ~IsLeft(n + 1, l)
      PROVE  next[l] = tree[l][Above(n + 1)[l] - 1]
  <2> DEFINE a == Above(n)[l]
             b == Above(n + 1)[l]
  <2>1. l \in 0 .. Depth
    BY <1>a DEF Levels
  <2>2. a \in Nat /\ b \in Nat /\ (b = a \/ b = a + 1)
    BY <1>a, <2>1, AboveStep, AboveNext
  <2>3. b % 2 # 0 /\ (IsLeft(n, l) <=> a % 2 = 0)
    BY <1>3 DEF IsLeft
  <2> HIDE DEF a, b
  <2>4. CASE b = a + 1
    <3>1. a % 2 = 0 /\ b - 1 = a
      BY <2>2, <2>3, <2>4
    <3> QED
      BY <1>1, <1>2, <2>1, <2>3, <3>1 DEF a, b
  <2>5. CASE b = a
    <3>1. ~IsLeft(n, l) /\ a - 1 \in Nat /\ a - 1 < a
      BY <2>2, <2>3, <2>5
    <3>2. next[l] = filled[l]
      BY <1>1, <3>1
    <3>3. filled[l] = TreeOver(First(list, n))[l][a - 1]
      BY <3>1 DEF FilledGood, a
    <3>4. TreeOver(First(list, n))[l][a - 1] = tree[l][a - 1]
      BY <2>1, <3>1, KeepsLeft DEF a
    <3> QED
      BY <2>5, <3>2, <3>3, <3>4 DEF b
  <2> QED
    BY <2>2, <2>4, <2>5
<1> QED
  BY <1>1, <1>3 DEF FilledGood, next, node

(* An empty tree has nothing a right child would need. *)
LEMMA FilledStart ==
  ASSUME NEW list
  PROVE  FilledGood([l \in Levels |-> ZeroSubtree[l]], list, 0)
<1>a. Depth \in Nat \ {0}
  BY TreeAssumption
<1>1. ASSUME NEW l \in Levels PROVE IsLeft(0, l)
  <2>1. l \in 0 .. Depth
    BY <1>a DEF Levels
  <2>2. Above(0)[l] = 0
    BY <2>1, AboveFirst
  <2> QED
    BY <2>2 DEF IsLeft
<1> QED
  BY <1>1 DEF FilledGood

-----------------------------------------------------------------------------
(* The ring of roots.                                                       *)

(* How many leaves ago slot i was written when the head is h. *)
AgeFrom(h, i) == IF i <= h THEN h - i ELSE h + RootRingSize - i

RingGood(ring, h, list, n) ==
  /\ DOMAIN ring = RingSlots
  /\ h \in RingSlots
  /\ \A i \in RingSlots :
       ring[i] = IF AgeFrom(h, i) <= n THEN ReferenceRoot(First(list, n - AgeFrom(h, i)))
                 ELSE Zero

(* The head of the ring moves to the next slot and wraps at the end. *)
LEMMA NextHeadStep ==
  ASSUME NEW h \in RingSlots
  PROVE  NextHead(h) = IF h + 1 = RootRingSize THEN 0 ELSE h + 1
<1>1. RootRingSize \in Nat \ {0} /\ h \in 0 .. RootRingSize - 1
  BY TreeAssumption DEF RingSlots
<1>2. CASE h + 1 = RootRingSize
  BY <1>1, <1>2, SMT DEF NextHead
<1>3. CASE h + 1 # RootRingSize
  BY <1>1, <1>3, SMT DEF NextHead
<1> QED
  BY <1>2, <1>3

LEMMA AgeStep ==
  ASSUME NEW h \in RingSlots, NEW i \in RingSlots
  PROVE  /\ NextHead(h) \in RingSlots
         /\ AgeFrom(h, i) \in Nat /\ AgeFrom(h, i) < RootRingSize
         /\ AgeFrom(NextHead(h), i) = IF i = NextHead(h) THEN 0 ELSE AgeFrom(h, i) + 1
<1>1. RootRingSize \in Nat \ {0} /\ h \in 0 .. RootRingSize - 1 /\ i \in 0 .. RootRingSize - 1
  BY TreeAssumption DEF RingSlots
<1>2. NextHead(h) = IF h + 1 = RootRingSize THEN 0 ELSE h + 1
  BY NextHeadStep
<1> QED
  BY <1>1, <1>2 DEF AgeFrom, RingSlots

(* Of every age there is a slot. *)
LEMMA SlotOfAge ==
  ASSUME NEW h \in RingSlots, NEW age \in Nat, age < RootRingSize
  PROVE  \E i \in RingSlots : AgeFrom(h, i) = age
<1>1. RootRingSize \in Nat \ {0} /\ h \in 0 .. RootRingSize - 1
  BY TreeAssumption DEF RingSlots
<1>2. CASE age <= h
  <2>1. h - age \in RingSlots /\ AgeFrom(h, h - age) = age
    BY <1>1, <1>2 DEF AgeFrom, RingSlots
  <2> QED
    BY <2>1
<1>3. CASE age > h
  <2>1. h + RootRingSize - age \in RingSlots /\ AgeFrom(h, h + RootRingSize - age) = age
    BY <1>1, <1>3 DEF AgeFrom, RingSlots
  <2> QED
    BY <2>1
<1> QED
  BY <1>1, <1>2, <1>3

(* The root of one leaf more takes the place of the oldest. *)
LEMMA RingStep ==
  ASSUME NEW ring, NEW h, NEW list, NEW n \in Nat, RingGood(ring, h, list, n),
         NEW root, root = ReferenceRoot(First(list, n + 1))
  PROVE  RingGood([ring EXCEPT ![NextHead(h)] = root], NextHead(h), list, n + 1)
<1> DEFINE g == NextHead(h)
           next == [ring EXCEPT ![g] = root]
<1>1. h \in RingSlots /\ DOMAIN ring = RingSlots
  BY DEF RingGood
<1>2. g \in RingSlots
  BY <1>1, AgeStep
<1>3. DOMAIN next = RingSlots /\ \A i \in RingSlots : next[i] = IF i = g THEN root ELSE ring[i]
  BY <1>1, <1>2
<1> HIDE DEF next
<1>4. ASSUME NEW i \in RingSlots
      PROVE  next[i] = IF AgeFrom(g, i) <= n + 1
                         THEN ReferenceRoot(First(list, (n + 1) - AgeFrom(g, i))) ELSE Zero
  <2> DEFINE a == AgeFrom(h, i)
             b == AgeFrom(g, i)
  <2>1. a \in Nat /\ b = IF i = g THEN 0 ELSE a + 1
    BY <1>1, AgeStep
  <2>2. ring[i] = IF a <= n THEN ReferenceRoot(First(list, n - a)) ELSE Zero
    BY DEF RingGood
  <2> HIDE DEF a, b, g
  <2>3. CASE i = g
    <3>1. b <= n + 1 /\ (n + 1) - b = n + 1
      BY <2>1, <2>3
    <3>2. next[i] = ReferenceRoot(First(list, n + 1))
      BY <1>3, <2>3
    <3> QED
      BY <3>1, <3>2 DEF b
  <2>4. CASE i # g
    <3>1. (b <= n + 1 <=> a <= n) /\ (n + 1) - b = n - a
      BY <2>1, <2>4
    <3>2. next[i] = ring[i]
      BY <1>3, <2>4
    <3> QED
      BY <2>2, <3>1, <3>2 DEF b
  <2> QED
    BY <2>3, <2>4
<1> QED
  BY <1>2, <1>3, <1>4 DEF RingGood, next, g

(* The contract's tree with the first n leaves of a list. *)
TreeGood(tree, list, n) ==
  /\ tree.next = n
  /\ FilledGood(tree.filled, list, n)
  /\ RingGood(tree.ring, tree.head, list, n)

LEMMA AppendGood ==
  ASSUME NEW T, NEW list \in Seq(T), NEW n \in Nat, n < Len(list), n < Capacity,
         NEW tree, TreeGood(tree, list, n)
  PROVE  TreeGood(AppendLeaf(tree, list[n + 1]), list, n + 1)
<1>a. Depth \in Nat \ {0}
  BY TreeAssumption
<1> DEFINE node == Climb(tree.filled, n, list[n + 1])
           new  == AppendLeaf(tree, list[n + 1])
<1>1. tree.next = n /\ FilledGood(tree.filled, list, n) /\ RingGood(tree.ring, tree.head, list, n)
  BY DEF TreeGood
<1>2. /\ new.next = n + 1
      /\ new.filled = Refill(tree.filled, n, node)
      /\ new.head = NextHead(tree.head)
      /\ new.ring = [tree.ring EXCEPT ![NextHead(tree.head)] = node[Depth]]
  BY <1>1 DEF AppendLeaf
<1>3. node[Depth] = ReferenceRoot(First(list, n + 1))
  <2>1. Depth \in 0 .. Depth
    BY <1>a
  <2>2. node[Depth] = TreeOver(First(list, n + 1))[Depth][Above(n)[Depth]]
    BY <1>1, <2>1, ClimbNode
  <2>3. Above(n)[Depth] = 0
    BY AboveTop
  <2> QED
    BY <2>2, <2>3 DEF ReferenceRoot
<1>4. FilledGood(Refill(tree.filled, n, node), list, n + 1)
  BY <1>1, RefillGood
<1> HIDE DEF node, new
<1>5. RingGood(new.ring, new.head, list, n + 1)
  BY <1>1, <1>2, <1>3, RingStep
<1> QED
  BY <1>2, <1>4, <1>5 DEF TreeGood, new

(* A call's leaves, one after the other, keep the tree good. *)
LEMMA AppendedGood ==
  ASSUME NEW T, NEW list \in Seq(T), Len(list) <= Capacity,
         NEW n \in Nat, NEW size \in Nat, n + size = Len(list),
         NEW batch, Len(batch) = size, \A k \in 1 .. size : batch[k] = list[n + k],
         NEW tree, TreeGood(tree, list, n)
  PROVE  TreeGood(Appended(tree, batch), list, Len(list))
<1>1. PICK after : AppendLoop(after, tree, batch, size) /\ Appended(tree, batch) = after[size]
  BY AppendedIs
<1>2. after[0] = tree
  BY <1>1, 0 \in 0 .. size DEF AppendLoop
<1>3. ASSUME NEW k \in Nat, k < size
      PROVE  after[k + 1] = AppendLeaf(after[k], batch[k + 1])
  <2>1. k + 1 \in 0 .. size /\ k + 1 # 0 /\ (k + 1) - 1 = k
    BY <1>3
  <2> QED
    BY <1>1, <2>1 DEF AppendLoop
<1> DEFINE G == {k \in 0 .. size : TreeGood(after[k], list, n + k)}
<1>4. 0 \in G
  BY <1>2
<1>5. ASSUME NEW k \in Nat, k < size, k \in G
      PROVE  k + 1 \in G
  <2> DEFINE m == n + k
  <2>1. m \in Nat /\ m < Len(list) /\ m < Capacity /\ m + 1 = n + (k + 1)
    <3>1. Capacity \in Nat
      BY WidthStep, TreeAssumption DEF Capacity
    <3> QED
      BY <1>5, <3>1
  <2>2. TreeGood(after[k], list, m)
    BY <1>5
  <2>3. batch[k + 1] = list[m + 1]
    BY <1>5, <2>1
  <2> HIDE DEF m
  <2>4. TreeGood(AppendLeaf(after[k], list[m + 1]), list, m + 1)
    BY <2>1, <2>2, AppendGood
  <2>5. k + 1 \in 0 .. size
    BY <1>5
  <2> QED
    BY <1>3, <1>5, <2>1, <2>3, <2>4, <2>5
<1> HIDE DEF G
<1>6. size \in G
  BY <1>4, <1>5, Climbing
<1> QED
  BY <1>1, <1>6 DEF G

(* Leaves filed behind a list do not touch what was over it. *)
LEMMA GoodInLonger ==
  ASSUME NEW T, NEW list \in Seq(T), NEW longer \in Seq(T), Len(list) <= Len(longer),
         \A k \in 1 .. Len(list) : longer[k] = list[k],
         NEW tree, TreeGood(tree, list, Len(list))
  PROVE  TreeGood(tree, longer, Len(list))
<1> DEFINE n == Len(list)
<1>1. ASSUME NEW m \in 0 .. n PROVE First(longer, m) = First(list, m)
  <2>1. m \in 0 .. Len(longer)
    OBVIOUS
  <2>2. /\ First(longer, m) \in Seq(T) /\ Len(First(longer, m)) = m
        /\ \A k \in 1 .. m : First(longer, m)[k] = longer[k]
    BY <2>1, FirstIs
  <2>3. /\ First(list, m) \in Seq(T) /\ Len(First(list, m)) = m
        /\ \A k \in 1 .. m : First(list, m)[k] = list[k]
    BY FirstIs
  <2>4. \A k \in 1 .. m : First(longer, m)[k] = First(list, m)[k]
    BY <2>2, <2>3
  <2> QED
    BY <2>2, <2>3, <2>4, SeqEqual
<1>2. n \in 0 .. n
  OBVIOUS
<1>3. FilledGood(tree.filled, longer, n)
  BY <1>1, <1>2 DEF TreeGood, FilledGood
<1>4. RingGood(tree.ring, tree.head, longer, n)
  <2>1. RingGood(tree.ring, tree.head, list, n)
    BY DEF TreeGood
  <2>2. ASSUME NEW i \in RingSlots, AgeFrom(tree.head, i) <= n
        PROVE  n - AgeFrom(tree.head, i) \in 0 .. n
    <3>1. AgeFrom(tree.head, i) \in Nat
      BY <2>1, AgeStep DEF RingGood
    <3> QED
      BY <2>2, <3>1
  <2> QED
    BY <1>1, <2>1, <2>2 DEF RingGood
<1> QED
  BY <1>3, <1>4 DEF TreeGood

-----------------------------------------------------------------------------
(* The client's copy.                                                       *)

(* The replay of a list ends at the root of the tree over it. *)
LEMMA RootOfListGood ==
  ASSUME NEW T, NEW list \in Seq(T), Len(list) <= Capacity
  PROVE  RootOfList(list) = ReferenceRoot(list)
<1>a. Depth \in Nat \ {0} /\ Len(list) \in Nat /\ Capacity \in Nat
  BY TreeAssumption, WidthStep DEF Capacity
<1> DEFINE size == Len(list)
<1>1. PICK after : InsertLoop(after, list, size) /\ RootOfList(list) = after[size].root
  BY <1>a, RootOfListIs
<1>2. after[0] = EmptyTree
  BY <1>1, <1>a, 0 \in 0 .. size DEF InsertLoop
<1>3. ASSUME NEW k \in Nat, k < size
      PROVE  after[k + 1] = Insert(after[k], k, list[k + 1])
  <2>1. k + 1 \in 0 .. size /\ k + 1 # 0 /\ (k + 1) - 1 = k
    BY <1>a, <1>3
  <2> QED
    BY <1>1, <2>1 DEF InsertLoop
<1> DEFINE G == {k \in 0 .. size : /\ FilledGood(after[k].filled, list, k)
                                   /\ after[k].root = ReferenceRoot(First(list, k))}
<1>4. 0 \in G
  <2>1. FilledGood(after[0].filled, list, 0)
    BY <1>2, FilledStart DEF EmptyTree
  <2>2. Len(First(list, 0)) = 0
    BY <1>a, FirstIs, 0 \in 0 .. Len(list)
  <2>3. ReferenceRoot(First(list, 0)) = ZeroSubtree[Depth]
    BY <1>a, <2>2, EmptyAll, Depth \in 0 .. Depth DEF ReferenceRoot
  <2> QED
    BY <1>a, <1>2, <2>1, <2>3 DEF EmptyTree
<1>5. ASSUME NEW k \in Nat, k < size, k \in G
      PROVE  k + 1 \in G
  <2> DEFINE node == Climb(after[k].filled, k, list[k + 1])
  <2>1. FilledGood(after[k].filled, list, k)
    BY <1>5
  <2>2. /\ after[k + 1].filled = Refill(after[k].filled, k, node)
        /\ after[k + 1].root = node[Depth]
    <3>1. after[k + 1] = Insert(after[k], k, list[k + 1])
      BY <1>3, <1>5
    <3> QED
      BY <3>1 DEF Insert
  <2>3. FilledGood(Refill(after[k].filled, k, node), list, k + 1)
    BY <1>5, <2>1, RefillGood
  <2>4. node[Depth] = TreeOver(First(list, k + 1))[Depth][Above(k)[Depth]]
    BY <1>a, <1>5, <2>1, ClimbNode, Depth \in 0 .. Depth
  <2>5. Above(k)[Depth] = 0
    BY <1>a, <1>5, AboveTop
  <2>6. k + 1 \in 0 .. size
    BY <1>a, <1>5
  <2> HIDE DEF node
  <2> QED
    BY <2>2, <2>3, <2>4, <2>5, <2>6 DEF ReferenceRoot
<1>b. size \in Nat
  BY <1>a
<1> HIDE DEF G, size
<1>6. size \in G
  <2>1. \A k \in Nat : k < size /\ k \in G => k + 1 \in G
    BY <1>5
  <2>2. \A k \in 0 .. size : k \in G
    BY ONLY <1>b, <1>4, <2>1, Climbing
  <2> QED
    BY <1>b, <2>2
<1> QED
  BY <1>1, <1>6, FirstAll DEF G, size

LEMMA NodesStep ==
  ASSUME NEW list
  PROVE  /\ NodesOf(list)[0] = list
         /\ \A l \in Levels : NodesOf(list)[l + 1] = LevelOver(NodesOf(list)[l], ZeroSubtree[l])
<1>a. Depth \in Nat \ {0}
  BY TreeAssumption
<1> DEFINE nodes == NodesOf(list)
<1>1. nodes = [l \in 0 .. Depth |->
               IF l = 0 THEN list ELSE LevelOver(nodes[l - 1], ZeroSubtree[l - 1])]
  BY NodesIs
<1> HIDE DEF nodes
<1>2. nodes[0] = list
  BY ONLY <1>a, <1>1
<1>3. ASSUME NEW l \in Levels PROVE nodes[l + 1] = LevelOver(nodes[l], ZeroSubtree[l])
  <2>1. l + 1 \in 0 .. Depth /\ l + 1 # 0 /\ (l + 1) - 1 = l
    BY <1>a DEF Levels
  <2>2. nodes[l + 1] = LevelOver(nodes[(l + 1) - 1], ZeroSubtree[(l + 1) - 1])
    BY ONLY <1>1, <2>1
  <2> QED
    BY <2>1, <2>2
<1> QED
  BY <1>2, <1>3 DEF nodes

(* Every stored node of the client is the node of the tree over its list. *)
LEMMA NodesGood ==
  ASSUME NEW T, NEW list \in Seq(T), NEW last \in Nat, Len(list) = last + 1
  PROVE  \A l \in 0 .. Depth :
           /\ Len(NodesOf(list)[l]) = Above(last)[l] + 1
           /\ \A i \in 0 .. Above(last)[l] : NodesOf(list)[l][i + 1] = TreeOver(list)[l][i]
<1>a. Depth \in Nat \ {0}
  BY TreeAssumption
<1> DEFINE nodes == NodesOf(list)
           tree  == TreeOver(list)
           Part(l) == /\ Len(nodes[l]) = Above(last)[l] + 1
                      /\ \A i \in 0 .. Above(last)[l] : nodes[l][i + 1] = tree[l][i]
           G == {l \in 0 .. Depth : Part(l)}
<1>1. 0 \in G
  <2>1. nodes[0] = list /\ Above(last)[0] = last
    BY NodesStep, AboveStep
  <2>2. ASSUME NEW i \in 0 .. last PROVE tree[0][i] = list[i + 1]
    <3>1. i \in Nat /\ i < Len(list)
      OBVIOUS
    <3> QED
      BY <3>1, TreeLeaf
  <2> QED
    BY <1>a, <2>1, <2>2
<1>2. ASSUME NEW l \in Nat, l < Depth, l \in G
      PROVE  l + 1 \in G
  <2> DEFINE a == Above(last)[l]
             h == a \div 2
             below == nodes[l]
             above == nodes[l + 1]
             empty == ZeroSubtree[l]
  <2>1. l \in Levels /\ l + 1 \in 0 .. Depth /\ l \in 0 .. Depth
    BY <1>a, <1>2 DEF Levels
  <2>2. Above(last)[l + 1] = h /\ a \in Nat
    BY <2>1, AboveStep
  <2>3. Len(below) = a + 1 /\ \A i \in 0 .. a : below[i + 1] = tree[l][i]
    BY <1>2
  <2>4. above = [j \in 1 .. (Len(below) + 1) \div 2 |->
                   Hash(below[2 * j - 1], IF 2 * j <= Len(below) THEN below[2 * j] ELSE empty)]
    BY <2>1, NodesStep DEF LevelOver
  <2>5. (Len(below) + 1) \div 2 = h + 1 /\ h \in Nat /\ 2 * h <= a
    <3> HIDE DEF a
    <3> QED
      BY ONLY <2>2, <2>3, HalfNext DEF h
  <2>6. ASSUME NEW j \in Nat, j > a PROVE tree[l][j] = empty
    BY <2>1, <2>6, EmptyRight
  <2>7. \A i \in Nat : tree[l + 1][i] = Hash(tree[l][2 * i], tree[l][2 * i + 1])
    BY <2>1, TreeStep
  <2> HIDE DEF a, h, below, above, empty, nodes, tree
  <2>8. Len(above) = h + 1
    BY <2>4, <2>5
  <2>9. ASSUME NEW i \in 0 .. h PROVE above[i + 1] = tree[l + 1][i]
    <3> DEFINE even == 2 * i
               odd  == 2 * i + 1
    <3>1. i + 1 \in 1 .. h + 1 /\ 2 * (i + 1) - 1 = even + 1 /\ 2 * (i + 1) = odd + 1
      BY <2>5
    <3>2. even \in 0 .. a /\ odd \in Nat
      BY <2>2, <2>5
    <3>3. above[i + 1] = Hash(below[even + 1], IF odd + 1 <= Len(below) THEN below[odd + 1] ELSE empty)
      BY <2>4, <2>5, <3>1
    <3>4. tree[l + 1][i] = Hash(tree[l][even], tree[l][odd])
      <4>1. i \in Nat
        BY <2>5
      <4> QED
        BY <2>7, <4>1
    <3> HIDE DEF even, odd
    <3>5. below[even + 1] = tree[l][even]
      BY <2>3, <3>2
    <3>6. CASE odd <= a
      <4>1. odd \in 0 .. a /\ odd + 1 <= Len(below)
        BY <2>2, <2>3, <3>2, <3>6
      <4>2. below[odd + 1] = tree[l][odd]
        BY <2>3, <4>1
      <4> QED
        BY <3>3, <3>4, <3>5, <4>1, <4>2
    <3>7. CASE odd > a
      <4>1. ~(odd + 1 <= Len(below))
        BY <2>2, <2>3, <3>2, <3>7
      <4>2. tree[l][odd] = empty
        BY <2>6, <3>2, <3>7
      <4> QED
        BY <3>3, <3>4, <3>5, <4>1, <4>2
    <3> QED
      BY <2>2, <3>2, <3>6, <3>7
  <2>10. Part(l + 1)
    BY <2>2, <2>8, <2>9 DEF above
  <2> QED
    BY <2>1, <2>10
<1> HIDE DEF G
<1>3. \A l \in 0 .. Depth : l \in G
  BY <1>a, <1>1, <1>2, Climbing
<1> QED
  BY <1>3 DEF G

(* The siblings of a path are the other children of the nodes on it. *)
LEMMA SiblingGood ==
  ASSUME NEW T, NEW list \in Seq(T), NEW p \in Nat, p < Len(list), NEW l \in Levels
  PROVE  Siblings(list, p)[l] =
           TreeOver(list)[l][IF Above(p)[l] % 2 = 0 THEN Above(p)[l] + 1 ELSE Above(p)[l] - 1]
<1>a. Depth \in Nat \ {0} /\ l \in 0 .. Depth
  BY TreeAssumption DEF Levels
<1> DEFINE last == Len(list) - 1
           i == Above(p)[l]
           sibling == IF i % 2 = 0 THEN i + 1 ELSE i - 1
           nodes == NodesOf(list)
<1>1. last \in Nat /\ Len(list) = last + 1
  BY LenProperties
<1>2. i \in Nat
  BY <1>a, AboveStep
<1>3. sibling \in Nat
  BY <1>2
<1>4. Siblings(list, p)[l] = IF sibling < Len(nodes[l]) THEN nodes[l][sibling + 1] ELSE ZeroSubtree[l]
  BY DEF Siblings
<1> HIDE DEF last, sibling
<1>5. /\ Len(nodes[l]) = Above(last)[l] + 1 /\ Above(last)[l] \in Nat
      /\ \A k \in 0 .. Above(last)[l] : nodes[l][k + 1] = TreeOver(list)[l][k]
  <2>1. Above(last)[l] \in Nat
    BY <1>a, <1>1, AboveStep
  <2>2. /\ Len(nodes[l]) = Above(last)[l] + 1
        /\ \A k \in 0 .. Above(last)[l] : nodes[l][k + 1] = TreeOver(list)[l][k]
    BY <1>a, <1>1, NodesGood
  <2> QED
    BY <2>1, <2>2
<1> HIDE DEF nodes
<1>6. CASE sibling < Len(nodes[l])
  <2>1. sibling \in 0 .. Above(last)[l]
    BY <1>3, <1>5, <1>6
  <2> QED
    BY <1>4, <1>5, <1>6, <2>1 DEF sibling
<1>7. CASE ~(sibling < Len(nodes[l]))
  <2>1. sibling > Above(last)[l]
    BY <1>3, <1>5, <1>7
  <2>2. TreeOver(list)[l][sibling] = ZeroSubtree[l]
    BY <1>a, <1>1, <1>3, <2>1, EmptyRight
  <2> QED
    BY <1>4, <1>7, <2>2 DEF sibling
<1> QED
  BY <1>6, <1>7

(* A path the client makes leads to the root of the tree over its list. *)
LEMMA PathGood ==
  ASSUME NEW T, NEW list \in Seq(T), Len(list) <= Capacity, NEW p \in Nat, p < Len(list)
  PROVE  RootOfPath(list[p + 1], p, Siblings(list, p)) = ReferenceRoot(list)
<1>a. Depth \in Nat \ {0} /\ Capacity \in Nat
  BY TreeAssumption, WidthStep DEF Capacity
<1> DEFINE side == Siblings(list, p)
           node == PathUp(list[p + 1], p, side)
           tree == TreeOver(list)
           G    == {l \in 0 .. Depth : node[l] = tree[l][Above(p)[l]]}
<1>1. 0 \in G
  <2>1. node[0] = list[p + 1] /\ Above(p)[0] = p /\ tree[0][p] = list[p + 1]
    BY PathStep, AboveStep, TreeLeaf
  <2> QED
    BY <1>a, <2>1
<1>2. ASSUME NEW l \in Nat, l < Depth, l \in G
      PROVE  l + 1 \in G
  <2> DEFINE a == Above(p)[l]
             h == a \div 2
  <2>1. l \in Levels /\ l + 1 \in 0 .. Depth /\ l \in 0 .. Depth
    BY <1>a, <1>2 DEF Levels
  <2>2. Above(p)[l + 1] = h /\ a \in Nat
    BY <2>1, AboveStep
  <2>3. node[l] = tree[l][a]
    BY <1>2
  <2>4. h \in Nat
    BY <2>2, Halves
  <2>5. tree[l + 1][h] = Hash(tree[l][2 * h], tree[l][2 * h + 1])
    <3> HIDE DEF h
    <3> QED
      BY <2>1, <2>4, TreeNode
  <2>6. node[l + 1] = IF IsLeft(p, l) THEN Hash(node[l], side[l]) ELSE Hash(side[l], node[l])
    BY <2>1, PathStep
  <2>7. side[l] = tree[l][IF a % 2 = 0 THEN a + 1 ELSE a - 1]
    BY <2>1, SiblingGood
  <2>8. /\ (IsLeft(p, l) <=> a % 2 = 0)
        /\ a % 2 = 0 => 2 * h = a
        /\ a % 2 # 0 => (2 * h = a - 1 /\ 2 * h + 1 = a)
    BY <2>2, Halves DEF IsLeft
  <2> HIDE DEF node, tree, side, a, h
  <2>9. node[l + 1] = tree[l + 1][h]
    <3>1. CASE a % 2 = 0
      BY ONLY <2>3, <2>5, <2>6, <2>7, <2>8, <3>1
    <3>2. CASE a % 2 # 0
      BY ONLY <2>3, <2>5, <2>6, <2>7, <2>8, <3>2
    <3> QED
      BY <3>1, <3>2
  <2> QED
    BY <2>1, <2>2, <2>9
<1> HIDE DEF G
<1>3. \A l \in 0 .. Depth : l \in G
  BY <1>a, <1>1, <1>2, Climbing
<1>4. Above(p)[Depth] = 0
  BY <1>a, AboveTop
<1> QED
  BY <1>a, <1>3, <1>4, Depth \in 0 .. Depth DEF G, RootOfPath, ReferenceRoot

-----------------------------------------------------------------------------
(* What a root tells.                                                       *)

(* A hash tells the nodes under it, and is no empty leaf. *)
LEMMA HashTells ==
  ASSUME NEW a, NEW b, NEW c, NEW d, Hash(a, b) = Hash(c, d)
  PROVE  a = c /\ b = d
<1>1. Hash(a, b)[1] = a /\ Hash(a, b)[2] = b /\ Hash(c, d)[1] = c /\ Hash(c, d)[2] = d
  BY DEF Hash
<1> QED
  BY <1>1

LEMMA HashNotZero ==
  ASSUME NEW a, NEW b
  PROVE  Hash(a, b) # Zero
<1>1. Len(Hash(a, b)) = 2 /\ Len(Zero) = 0
  BY DEF Hash, Zero
<1> QED
  BY <1>1

(* A root is never the value of an unset slot. *)
LEMMA RootNotZero ==
  ASSUME NEW list
  PROVE  ReferenceRoot(list) # Zero
<1>1. Depth \in Nat \ {0}
  BY TreeAssumption
<1> DEFINE l == Depth - 1
<1>2. l \in Levels /\ l + 1 = Depth /\ 0 \in Nat
  BY <1>1 DEF Levels
<1> HIDE DEF l
<1>3. TreeOver(list)[l + 1][0] = Hash(TreeOver(list)[l][2 * 0], TreeOver(list)[l][2 * 0 + 1])
  BY <1>2, TreeNode
<1> QED
  BY <1>2, <1>3, HashNotZero DEF ReferenceRoot

(* A root tells the list: no two lists of leaves the tree can hold have the   *)
(* same one (merkle.rs and the circuits, which take a root for a tree).     *)
THEOREM RootTellsList ==
  ASSUME NEW one \in Seq(LeafValues), NEW two \in Seq(LeafValues),
         Len(one) <= Capacity, Len(two) <= Capacity,
         ReferenceRoot(one) = ReferenceRoot(two)
  PROVE  one = two
<1>a. Depth \in Nat \ {0} /\ Capacity \in Nat /\ Zero \notin LeafValues
  BY TreeAssumption, WidthStep DEF Capacity
<1> DEFINE Same(l, w) == \A j \in Nat : j < w => TreeOver(one)[l][j] = TreeOver(two)[l][j]
           G == {h \in 0 .. Depth : Same(Depth - h, Width[h])}
<1>1. 0 \in G
  <2>1. Width[0] = 1 /\ Depth - 0 = Depth
    BY <1>a, WidthStep
  <2>2. Same(Depth, 1)
    BY DEF ReferenceRoot
  <2> QED
    BY <1>a, <2>1, <2>2
<1>2. ASSUME NEW h \in Nat, h < Depth, h \in G
      PROVE  h + 1 \in G
  <2> DEFINE l == Depth - (h + 1)
             w == Width[h]
  <2>1. h \in Levels /\ l \in Levels /\ l + 1 = Depth - h /\ h + 1 \in 0 .. Depth /\ h \in 0 .. Depth
    BY <1>a, <1>2 DEF Levels
  <2>2. Width[h + 1] = 2 * w /\ w \in Nat
    BY <2>1, WidthStep
  <2>3. Same(l + 1, w)
    BY <1>2, <2>1
  <2> HIDE DEF l, w
  <2>4. ASSUME NEW j \in Nat, j < 2 * w
        PROVE  TreeOver(one)[l][j] = TreeOver(two)[l][j]
    <3> DEFINE q == j \div 2
    <3>1. q \in Nat /\ q < w /\ (j = 2 * q \/ j = 2 * q + 1)
      BY <2>2, <2>4
    <3> HIDE DEF q
    <3>2. TreeOver(one)[l + 1][q] = TreeOver(two)[l + 1][q]
      BY <2>3, <3>1
    <3>3. /\ TreeOver(one)[l + 1][q] = Hash(TreeOver(one)[l][2 * q], TreeOver(one)[l][2 * q + 1])
          /\ TreeOver(two)[l + 1][q] = Hash(TreeOver(two)[l][2 * q], TreeOver(two)[l][2 * q + 1])
      BY <2>1, <3>1, TreeNode
    <3>4. /\ TreeOver(one)[l][2 * q] = TreeOver(two)[l][2 * q]
          /\ TreeOver(one)[l][2 * q + 1] = TreeOver(two)[l][2 * q + 1]
      <4> DEFINE a == TreeOver(one)[l][2 * q]
                 b == TreeOver(one)[l][2 * q + 1]
                 c == TreeOver(two)[l][2 * q]
                 d == TreeOver(two)[l][2 * q + 1]
      <4>1. Hash(a, b) = Hash(c, d)
        BY <3>2, <3>3
      <4> HIDE DEF a, b, c, d
      <4>2. a = c /\ b = d
        BY <4>1, HashTells
      <4> QED
        BY <4>2 DEF a, b, c, d
    <3> QED
      BY <3>1, <3>4
  <2>5. Same(l, 2 * w)
    BY <2>4
  <2> QED
    BY <2>1, <2>2, <2>5 DEF l
<1> HIDE DEF G
<1>3. \A h \in 0 .. Depth : h \in G
  BY <1>a, <1>1, <1>2, Climbing
<1>4. ASSUME NEW j \in Nat, j < Capacity
      PROVE  TreeOver(one)[0][j] = TreeOver(two)[0][j]
  <2>1. Depth \in G /\ Depth - Depth = 0
    BY <1>a, <1>3
  <2> QED
    BY <1>4, <2>1 DEF G, Capacity
<1>5. ASSUME NEW short \in Seq(LeafValues), NEW long \in Seq(LeafValues),
             Len(short) < Len(long), Len(long) <= Capacity,
             \A j \in Nat : j < Capacity => TreeOver(short)[0][j] = TreeOver(long)[0][j]
      PROVE  FALSE
  <2> DEFINE j == Len(short)
  <2>1. j \in Nat /\ j < Len(long) /\ j < Capacity /\ j + 1 \in 1 .. Len(long)
    BY <1>a, <1>5
  <2>2. TreeOver(short)[0][j] = Zero
    BY <2>1, TreeLeaf
  <2>3. TreeOver(long)[0][j] = long[j + 1]
    BY <2>1, TreeLeaf
  <2>4. long[j + 1] \in LeafValues
    BY <2>1
  <2> QED
    BY <1>a, <1>5, <2>1, <2>2, <2>3, <2>4
<1>6. Len(one) \in Nat /\ Len(two) \in Nat
  OBVIOUS
<1>7. ~(Len(one) < Len(two))
  BY <1>4, <1>5
<1>8. ~(Len(two) < Len(one))
  BY <1>4, <1>5
<1>9. Len(one) = Len(two)
  BY <1>6, <1>7, <1>8
<1>10. ASSUME NEW k \in 1 .. Len(one)
       PROVE  one[k] = two[k]
  <2> DEFINE j == k - 1
  <2>1. j \in Nat /\ j < Len(one) /\ j < Len(two) /\ j < Capacity /\ j + 1 = k
    BY <1>a, <1>6, <1>9
  <2> HIDE DEF j
  <2>2. TreeOver(one)[0][j] = one[j + 1] /\ TreeOver(two)[0][j] = two[j + 1]
    BY <2>1, TreeLeaf
  <2> QED
    BY <1>4, <2>1, <2>2
<1> QED
  BY <1>9, <1>10, SeqEqual

(* Whatever the siblings, a path under a root starts at the leaf that is at  *)
(* the position it claims.                                                  *)
LEMMA PathTells ==
  ASSUME NEW list, NEW leaf, NEW claimed \in Nat, claimed < Capacity, NEW siblings,
         RootOfPath(leaf, claimed, siblings) = ReferenceRoot(list)
  PROVE  TreeOver(list)[0][claimed] = leaf
<1>a. Depth \in Nat \ {0}
  BY TreeAssumption
<1> DEFINE node == PathUp(leaf, claimed, siblings)
           tree == TreeOver(list)
           at == Above(claimed)
           G == {h \in 0 .. Depth : node[Depth - h] = tree[Depth - h][at[Depth - h]]}
<1>1. 0 \in G
  <2>1. at[Depth] = 0 /\ Depth - 0 = Depth
    BY <1>a, AboveTop
  <2> QED
    BY <1>a, <2>1 DEF RootOfPath, ReferenceRoot
<1>2. ASSUME NEW h \in Nat, h < Depth, h \in G
      PROVE  h + 1 \in G
  <2> DEFINE l == Depth - (h + 1)
             a == at[l]
             q == a \div 2
  <2>1. l \in Levels /\ l + 1 = Depth - h /\ h + 1 \in 0 .. Depth /\ l \in 0 .. Depth
    BY <1>a, <1>2 DEF Levels
  <2>2. node[l + 1] = tree[l + 1][at[l + 1]]
    BY <1>2, <2>1
  <2> HIDE DEF l
  <2>3. at[l + 1] = q /\ a \in Nat
    BY <2>1, AboveStep
  <2>4. q \in Nat
    BY <2>3, Halves
  <2>5. tree[l + 1][q] = Hash(tree[l][2 * q], tree[l][2 * q + 1])
    <3> HIDE DEF q
    <3> QED
      BY <2>1, <2>4, TreeNode
  <2>6. node[l + 1] = IF IsLeft(claimed, l) THEN Hash(node[l], siblings[l])
                      ELSE Hash(siblings[l], node[l])
    BY <2>1, PathStep
  <2>7. /\ (IsLeft(claimed, l) <=> a % 2 = 0)
        /\ a % 2 = 0 => 2 * q = a
        /\ a % 2 # 0 => 2 * q + 1 = a
    BY <2>3, Halves DEF IsLeft
  <2> HIDE DEF node, tree, a, q
  <2>8. node[l] = tree[l][a]
    <3>1. CASE a % 2 = 0
      BY ONLY <2>2, <2>3, <2>5, <2>6, <2>7, <3>1 DEF Hash
    <3>2. CASE a % 2 # 0
      BY ONLY <2>2, <2>3, <2>5, <2>6, <2>7, <3>2 DEF Hash
    <3> QED
      BY <3>1, <3>2
  <2> QED
    BY <2>1, <2>8 DEF l, a
<1> HIDE DEF G
<1>3. \A h \in 0 .. Depth : h \in G
  BY <1>a, <1>1, <1>2, Climbing
<1>4. node[0] = tree[0][at[0]]
  <2>1. Depth \in G /\ Depth - Depth = 0
    BY <1>a, <1>3
  <2> QED
    BY <2>1 DEF G
<1>5. node[0] = leaf /\ at[0] = claimed
  BY PathStep, AboveStep
<1> QED
  BY <1>4, <1>5

-----------------------------------------------------------------------------
(* The invariant: the stored nodes, the ring, and the list a proof is over.  *)

ProofGood(pr) ==
  /\ pr.list \in Seq(LeafValues) /\ Len(pr.list) <= Capacity
  /\ pr.position \in Nat /\ pr.position < Len(pr.list)
  /\ \A k \in 1 .. Len(pr.list) : pr.indices[k] = k - 1
  /\ pr.leaf = pr.list[pr.position + 1]
  /\ pr.siblings = Siblings(pr.list, pr.position)
  /\ pr.root = ReferenceRoot(pr.list)

IInv ==
  /\ leaves \in Seq(LeafValues) /\ Len(leaves) <= Capacity
  /\ FilledGood(filledSubtrees, leaves, Len(leaves))
  /\ RingGood(rootHistory, rootRingHead, leaves, Len(leaves))
  /\ proof # NoProof => ProofGood(proof)

LEMMA InitGood ==
  Init => IInv
<1> SUFFICES ASSUME Init PROVE IInv
  OBVIOUS
<1>a. Depth \in Nat \ {0} /\ RootRingSize \in Nat \ {0} /\ Capacity \in Nat
  BY TreeAssumption, WidthStep DEF Capacity
<1>1. leaves = <<>> /\ Len(leaves) = 0 /\ leaves \in Seq(LeafValues)
  BY DEF Init
<1>2. FilledGood(filledSubtrees, leaves, 0)
  BY FilledStart DEF Init
<1>3. RingGood(rootHistory, rootRingHead, leaves, 0)
  <2>1. ReferenceRoot(First(leaves, 0)) = ZeroSubtree[Depth]
    <3>1. Len(First(leaves, 0)) = 0
      BY <1>1, FirstIs, 0 \in 0 .. Len(leaves)
    <3> QED
      BY <1>a, <3>1, EmptyAll, Depth \in 0 .. Depth DEF ReferenceRoot
  <2>2. rootRingHead = 0 /\ 0 \in RingSlots
    BY <1>a DEF Init, RingSlots
  <2>3. rootHistory = [i \in RingSlots |-> IF i = 0 THEN ZeroSubtree[Depth] ELSE Zero]
    BY DEF Init
  <2>4. ASSUME NEW i \in RingSlots
        PROVE  AgeFrom(0, i) \in Nat /\ (AgeFrom(0, i) <= 0 <=> i = 0) /\ AgeFrom(0, 0) = 0
    BY <1>a DEF AgeFrom, RingSlots
  <2>5. ASSUME NEW i \in RingSlots
        PROVE  rootHistory[i] = IF AgeFrom(0, i) <= 0
                                  THEN ReferenceRoot(First(leaves, 0 - AgeFrom(0, i))) ELSE Zero
    <3>1. CASE i = 0
      <4>1. 0 - AgeFrom(0, i) = 0 /\ AgeFrom(0, i) <= 0
        BY <2>4, <3>1
      <4> QED
        BY <2>1, <2>3, <3>1, <4>1
    <3>2. CASE i # 0
      BY <2>3, <2>4, <3>2
    <3> QED
      BY <3>1, <3>2
  <2> QED
    BY <2>2, <2>3, <2>5 DEF RingGood
<1>4. proof = NoProof
  BY DEF Init
<1> QED
  BY <1>a, <1>1, <1>2, <1>3, <1>4 DEF IInv

LEMMA FileGood ==
  ASSUME IInv, NEW n \in Nat, NEW batch \in [1 .. n -> LeafValues], File(batch)
  PROVE  IInv'
<1> DEFINE tree == [next |-> Len(leaves), filled |-> filledSubtrees,
                    head |-> rootRingHead, ring |-> rootHistory]
           size == Len(leaves)
           list == leaves \o batch
           new  == Appended(tree, batch)
<1>1. batch \in Seq(LeafValues) /\ Len(batch) = n
  BY SeqDef, LenProperties
<1>2. leaves \in Seq(LeafValues) /\ size \in Nat
  BY DEF IInv
<1>3. /\ list \in Seq(LeafValues) /\ Len(list) = size + n /\ Len(list) <= Capacity
      /\ \A k \in 1 .. size : list[k] = leaves[k]
      /\ \A k \in 1 .. n : list[size + k] = batch[k]
  <2>1. size + n <= Capacity
    BY <1>1 DEF File
  <2>2. list \in Seq(LeafValues) /\ Len(list) = size + n
    BY <1>1, <1>2, ConcatProperties
  <2>3. \A k \in 1 .. size + n : list[k] = IF k <= size THEN leaves[k] ELSE batch[k - size]
    BY <1>1, <1>2, ConcatProperties
  <2>4. \A k \in 1 .. size : list[k] = leaves[k]
    BY <1>2, <2>3
  <2>5. \A k \in 1 .. n : size + k \in 1 .. size + n /\ ~(size + k <= size) /\ (size + k) - size = k
    BY <1>2
  <2>6. \A k \in 1 .. n : list[size + k] = batch[k]
    BY <2>3, <2>5
  <2> HIDE DEF list
  <2> QED
    BY <2>1, <2>2, <2>4, <2>6
<1>4. leaves' = list /\ filledSubtrees' = new.filled /\ rootRingHead' = new.head
      /\ rootHistory' = new.ring /\ proof' = proof
  BY DEF File
<1>5. TreeGood(tree, leaves, size)
  BY DEF IInv, TreeGood
<1> HIDE DEF tree, list, new
<1>6. TreeGood(tree, list, size)
  BY <1>2, <1>3, <1>5, GoodInLonger
<1>7. TreeGood(new, list, Len(list))
  BY <1>1, <1>2, <1>3, <1>6, AppendedGood DEF new
<1>8. FilledGood(new.filled, list, Len(list)) /\ RingGood(new.ring, new.head, list, Len(list))
  BY <1>7 DEF TreeGood
<1> QED
  BY <1>3, <1>4, <1>8 DEF IInv

LEMMA ProveGood ==
  ASSUME IInv, NEW n \in Nat, NEW indices \in [1 .. n -> Nat], Prove(indices)
  PROVE  IInv'
<1>1. Capacity \in Nat
  BY WidthStep, TreeAssumption DEF Capacity
<1>2. /\ Len(indices) = n /\ DOMAIN indices = 1 .. n /\ n <= Capacity
      /\ \A k \in 1 .. n : indices[k] = k - 1
  <2>1. indices \in Seq(Nat) /\ Len(indices) = n
    BY SeqDef, LenProperties
  <2>2. DOMAIN indices = 1 .. n
    OBVIOUS
  <2> QED
    BY <2>1, <2>2 DEF Prove, InOrder
<1>3. PICK list \in [1 .. n -> LeafValues], position \in 0 .. n - 1 :
        proof' = [leaf |-> list[position + 1], position |-> position,
                  siblings |-> Siblings(list, position), root |-> RootOfList(list),
                  indices |-> indices, list |-> list]
  BY <1>2 DEF Prove
<1>4. list \in Seq(LeafValues) /\ Len(list) = n
  BY SeqDef, LenProperties
<1>5. RootOfList(list) = ReferenceRoot(list)
  BY <1>1, <1>2, <1>4, RootOfListGood
<1>6. position \in Nat /\ position < n
  OBVIOUS
<1>7. ProofGood(proof')
  <2>1. /\ proof'.leaf = list[position + 1] /\ proof'.position = position
        /\ proof'.siblings = Siblings(list, position)
        /\ proof'.root = ReferenceRoot(list)
        /\ proof'.indices = indices /\ proof'.list = list
    BY <1>3, <1>5
  <2> QED
    BY <1>2, <1>4, <1>6, <2>1 DEF ProofGood
<1> QED
  BY <1>7 DEF IInv, Prove

(* Every reachable state is good. *)
THEOREM Invariance == Spec => []IInv
<1>1. IInv /\ [Next]_vars => IInv'
  <2> SUFFICES ASSUME IInv, [Next]_vars PROVE IInv'
    OBVIOUS
  <2>1. CASE \E n \in 2 .. 3 : \E batch \in [1 .. n -> LeafValues] : File(batch)
    <3>1. PICK n \in 2 .. 3 : \E batch \in [1 .. n -> LeafValues] : File(batch)
      BY <2>1
    <3>2. PICK batch \in [1 .. n -> LeafValues] : File(batch)
      BY <3>1
    <3>3. n \in Nat
      OBVIOUS
    <3> QED
      BY <3>2, <3>3, FileGood
  <2>2. CASE \E n \in 1 .. MaxServed : \E indices \in [1 .. n -> 0 .. MaxServed] :
               Prove(indices)
    <3>1. PICK n \in 1 .. MaxServed : \E indices \in [1 .. n -> 0 .. MaxServed] : Prove(indices)
      BY <2>2
    <3>2. PICK indices \in [1 .. n -> 0 .. MaxServed] : Prove(indices)
      BY <3>1
    <3>3. n \in Nat /\ indices \in [1 .. n -> Nat]
      OBVIOUS
    <3> QED
      BY <3>2, <3>3, ProveGood
  <2>3. CASE UNCHANGED vars
    BY <2>3 DEF IInv, vars, FilledGood, RingGood, ProofGood
  <2> QED
    BY <2>1, <2>2, <2>3 DEF Next
<1> QED
  BY <1>1, InitGood, PTL DEF Spec

(* The state has the shape of the contract's storage and the client's proof  *)
(* (Tidex6HiddenPoolV2.sol, the tree's storage; merkle.rs, MerkleProof).     *)
THEOREM TypeCorrect == Spec => []TypeOK
<1>1. IInv => TypeOK
  BY DEF IInv, TypeOK, FilledGood, RingGood, ProofGood
<1> QED
  BY <1>1, Invariance, PTL

(* One stored node per level is enough: every slot of the ring holds the    *)
(* root of the whole tree over the first leaves, one leaf fewer for every   *)
(* slot back (Tidex6HiddenPoolV2.sol, _appendLeaf).                         *)
THEOREM RingIsHistory == Spec => []RingHoldsReferenceRoots
<1>1. ASSUME IInv PROVE RingHoldsReferenceRoots
  <2>1. \A i \in RingSlots : Age(i) = AgeFrom(rootRingHead, i)
    BY DEF Age, AgeFrom
  <2> QED
    BY <1>1, <2>1 DEF IInv, RingGood, RingHoldsReferenceRoots, First
<1> QED
  BY <1>1, Invariance, PTL

(* HiddenPoolV2 numbers the roots of its ring by the leaves they are over,    *)
(* and so compares two roots by their sizes.                                *)
RingNumbers ==
  [i \in RingSlots |-> IF Age(i) <= Len(leaves) THEN (Len(leaves) - Age(i)) + 1 ELSE 0]

RootsAreNumbered ==
  \A i \in RingSlots, n \in 0 .. Len(leaves) :
    rootHistory[i] = ReferenceRoot(First(leaves, n)) <=> RingNumbers[i] = n + 1

(* The numbers stand for the roots: a slot holds the root of the tree that    *)
(* had n leaves exactly when its number is that of n, so that what           *)
(* HiddenPoolV2 accepts by a number, isKnownRoot (Tidex6HiddenPoolV2.sol)    *)
(* accepts by the hash.                                                     *)
THEOREM NumberingSound == Spec => []RootsAreNumbered
<1>1. ASSUME IInv, NEW i \in RingSlots, NEW n \in 0 .. Len(leaves)
      PROVE  rootHistory[i] = ReferenceRoot(First(leaves, n)) <=> RingNumbers[i] = n + 1
  <2> DEFINE a == AgeFrom(rootRingHead, i)
             size == Len(leaves)
             k == size - a
  <2>1. leaves \in Seq(LeafValues) /\ size \in Nat /\ size <= Capacity /\ Capacity \in Nat
    BY <1>1, WidthStep, TreeAssumption DEF IInv, Capacity
  <2>2. /\ a \in Nat
        /\ rootHistory[i] = IF a <= size THEN ReferenceRoot(First(leaves, k)) ELSE Zero
    BY <1>1, AgeStep DEF IInv, RingGood
  <2>3. RingNumbers[i] = IF a <= size THEN k + 1 ELSE 0
    BY DEF RingNumbers, Age, AgeFrom
  <2> HIDE DEF a
  <2>4. n \in Nat /\ n <= size
    BY <2>1
  <2>5. CASE a <= size
    <3>1. k \in 0 .. Len(leaves)
      BY <2>1, <2>2, <2>5
    <3> HIDE DEF k
    <3>2. /\ First(leaves, k) \in Seq(LeafValues) /\ Len(First(leaves, k)) = k
          /\ First(leaves, n) \in Seq(LeafValues) /\ Len(First(leaves, n)) = n
      BY <2>1, <3>1, FirstIs
    <3>3. k <= Capacity /\ n <= Capacity
      BY <2>1, <2>4, <3>1
    <3>4. ReferenceRoot(First(leaves, k)) = ReferenceRoot(First(leaves, n)) => k = n
      <4>1. SUFFICES ASSUME ReferenceRoot(First(leaves, k)) = ReferenceRoot(First(leaves, n))
                     PROVE  k = n
        OBVIOUS
      <4>2. First(leaves, k) = First(leaves, n)
        BY <3>2, <3>3, <4>1, RootTellsList
      <4> QED
        BY <3>2, <4>2
    <3>5. RingNumbers[i] = n + 1 <=> k = n
      BY <2>3, <2>4, <2>5, <3>1
    <3> QED
      BY <2>2, <2>5, <3>4, <3>5
  <2>6. CASE ~(a <= size)
    BY <2>2, <2>3, <2>4, <2>6, RootNotZero
  <2> QED
    BY <2>5, <2>6
<1>2. IInv => RootsAreNumbered
  BY <1>1 DEF RootsAreNumbered
<1> QED
  BY <1>2, Invariance, PTL

(* Whatever pairs of an index and a leaf a client is served, the pool        *)
(* accepts its proof exactly when each of them is a leaf of the pool at its *)
(* index and fewer than RootRingSize leaves have been filed since (note.rs, *)
(* leaves_in_order; merkle.rs, proof; Tidex6HiddenPoolV2.sol, isKnownRoot). *)
THEOREM ProofsAccepted == Spec => []ProofGoodWhileRecent
<1>1. ASSUME IInv, proof # NoProof
      PROVE  Accepted(proof) <=> /\ ServedTruly(proof)
                                 /\ Len(leaves) - Len(proof.list) < RootRingSize
  <2> DEFINE list == proof.list
             m == Len(list)
             at == proof.position
             head == rootRingHead
             size == Len(leaves)
  <2>1. leaves \in Seq(LeafValues) /\ size \in Nat /\ size <= Capacity /\ Capacity \in Nat
        /\ RootRingSize \in Nat \ {0}
    BY <1>1, WidthStep, TreeAssumption DEF IInv, Capacity
  <2>2. /\ list \in Seq(LeafValues) /\ m <= Capacity /\ m \in Nat
        /\ at \in Nat /\ at < m
        /\ \A k \in 1 .. m : proof.indices[k] = k - 1
        /\ proof.leaf = list[at + 1]
        /\ proof.siblings = Siblings(list, at)
        /\ proof.root = ReferenceRoot(list)
    BY <1>1 DEF IInv, ProofGood
  <2>3. head \in RingSlots
        /\ \A i \in RingSlots :
             rootHistory[i] = IF AgeFrom(head, i) <= size
                                THEN ReferenceRoot(First(leaves, size - AgeFrom(head, i))) ELSE Zero
    BY <1>1 DEF IInv, RingGood
  <2>4. ServedTruly(proof) <=> \A k \in 1 .. m : k <= size /\ leaves[k] = list[k]
    <3>1. DOMAIN proof.list = 1 .. m
      BY <2>2
    <3>2. ASSUME NEW k \in 1 .. m
          PROVE  /\ (proof.indices[k] < size <=> k <= size)
                 /\ leaves[proof.indices[k] + 1] = leaves[k]
      <4>1. proof.indices[k] = k - 1 /\ (k - 1) + 1 = k
        BY <2>2
      <4>2. k - 1 < size <=> k <= size
        BY <2>1, <2>2
      <4> QED
        BY <4>1, <4>2
    <3> QED
      BY <3>1, <3>2 DEF ServedTruly
  <2> HIDE DEF list, m, at, head, size
  <2>5. RootOfPath(proof.leaf, at, proof.siblings) = proof.root
    <3>1. Len(list) = m
      BY DEF m
    <3>2. RootOfPath(list[at + 1], at, Siblings(list, at)) = ReferenceRoot(list)
      BY <2>2, <3>1, PathGood
    <3> QED
      BY <2>2, <3>2
  <2>6. proof.root # Zero
    BY <2>2, RootNotZero
  <2>7. ASSUME NEW i \in RingSlots, rootHistory[i] = proof.root
        PROVE  size - m < RootRingSize /\ \A k \in 1 .. m : k <= size /\ leaves[k] = list[k]
    <3> DEFINE a == AgeFrom(head, i)
               n == size - a
    <3>1. a \in Nat /\ a < RootRingSize
      BY <2>3, AgeStep
    <3>2. a <= size /\ ReferenceRoot(First(leaves, n)) = ReferenceRoot(list)
      BY <2>2, <2>3, <2>6, <2>7
    <3>3. n \in 0 .. Len(leaves) /\ n <= Capacity
      BY <2>1, <3>1, <3>2 DEF size
    <3> HIDE DEF a
    <3> HIDE DEF n
    <3>4. /\ First(leaves, n) \in Seq(LeafValues) /\ Len(First(leaves, n)) = n
          /\ \A k \in 1 .. n : First(leaves, n)[k] = leaves[k]
      BY <2>1, <3>3, FirstIs
    <3>5. First(leaves, n) = list
      <4>1. Len(list) <= Capacity
        BY <2>2 DEF m
      <4> QED
        BY <2>2, <3>2, <3>3, <3>4, <4>1, RootTellsList
    <3>6. n = m /\ n <= size
      BY <2>1, <3>3, <3>4, <3>5 DEF m, size
    <3>7. size - m < RootRingSize
      BY <2>1, <2>2, <3>1, <3>6 DEF n
    <3>8. ASSUME NEW k \in 1 .. m PROVE k <= size /\ leaves[k] = list[k]
      <4>1. k \in 1 .. n
        BY <3>6
      <4>2. leaves[k] = list[k]
        BY <3>4, <3>5, <4>1
      <4>3. n \in Nat /\ k <= n
        BY <3>3, <4>1
      <4> QED
        BY <2>1, <3>6, <4>2, <4>3
    <3> QED
      BY <3>7, <3>8
  <2>8. ASSUME size - m < RootRingSize, \A k \in 1 .. m : k <= size /\ leaves[k] = list[k]
        PROVE  \E i \in RingSlots : rootHistory[i] = proof.root
    <3> DEFINE a == size - m
    <3>1. m <= size /\ m \in 0 .. Len(leaves)
      <4>1. m \in 1 .. m
        BY <2>2
      <4> QED
        BY <2>1, <2>2, <2>8, <4>1 DEF size
    <3>2. a \in Nat /\ a < RootRingSize /\ a <= size /\ size - a = m
      BY <2>1, <2>2, <2>8, <3>1
    <3>3. First(leaves, m) = list
      <4>1. /\ First(leaves, m) \in Seq(LeafValues) /\ Len(First(leaves, m)) = m
            /\ \A k \in 1 .. m : First(leaves, m)[k] = leaves[k]
        BY <2>1, <3>1, FirstIs
      <4>2. Len(list) = m /\ \A k \in 1 .. m : First(leaves, m)[k] = list[k]
        BY <2>8, <4>1 DEF m
      <4> QED
        BY <2>2, <4>1, <4>2, SeqEqual
    <3> HIDE DEF a
    <3>4. PICK i \in RingSlots : AgeFrom(head, i) = a
      BY <2>3, <3>2, SlotOfAge
    <3>5. rootHistory[i] = ReferenceRoot(First(leaves, m))
      BY <2>3, <3>2, <3>4
    <3> QED
      BY <2>2, <3>3, <3>5
  <2>9. Accepted(proof) <=> \E i \in RingSlots : rootHistory[i] = proof.root
    BY <2>5, <2>6 DEF Accepted, IsKnownRoot, at
  <2> QED
    BY <2>4, <2>7, <2>8, <2>9 DEF m, size, list
<1>2. IInv => ProofGoodWhileRecent
  BY <1>1 DEF ProofGoodWhileRecent
<1> QED
  BY <1>2, Invariance, PTL

(* Whatever siblings a prover chooses, of the tree or not, a path under the  *)
(* pool's root proves where its leaf is, so that one leaf has one nullifier *)
(* (the circuits' enforce_membership, whose position the nullifier is       *)
(* derived from).                                                           *)
THEOREM PositionProved ==
  Spec => [](PathProvesPosition /\ \A siblings : ProvesPosition(siblings))
<1>1. ASSUME IInv, NEW siblings, NEW claimed \in 0 .. Capacity - 1, NEW leaf \in LeafValues,
             RootOfPath(leaf, claimed, siblings) = rootHistory[rootRingHead]
      PROVE  claimed < Len(leaves) /\ leaves[claimed + 1] = leaf
  <2>1. leaves \in Seq(LeafValues) /\ Len(leaves) \in Nat /\ Capacity \in Nat
        /\ RootRingSize \in Nat \ {0} /\ Zero \notin LeafValues
    BY <1>1, WidthStep, TreeAssumption DEF IInv, Capacity
  <2>2. rootHistory[rootRingHead] = ReferenceRoot(leaves)
    <3>1. rootRingHead \in RingSlots
          /\ rootHistory[rootRingHead] =
               IF AgeFrom(rootRingHead, rootRingHead) <= Len(leaves)
                 THEN ReferenceRoot(First(leaves, Len(leaves) - AgeFrom(rootRingHead, rootRingHead)))
                 ELSE Zero
      BY <1>1 DEF IInv, RingGood
    <3>2. AgeFrom(rootRingHead, rootRingHead) = 0
      BY <3>1, TreeAssumption DEF AgeFrom, RingSlots
    <3>3. Len(leaves) - 0 = Len(leaves) /\ 0 <= Len(leaves)
      BY <2>1
    <3>4. First(leaves, Len(leaves)) = leaves
      BY <2>1, FirstAll
    <3> QED
      BY <3>1, <3>2, <3>3, <3>4
  <2>3. claimed \in Nat /\ claimed < Capacity
    BY <2>1
  <2>4. TreeOver(leaves)[0][claimed] = leaf
    BY <1>1, <2>2, <2>3, PathTells
  <2>5. TreeOver(leaves)[0][claimed] = IF claimed < Len(leaves) THEN leaves[claimed + 1] ELSE Zero
    BY <2>3, TreeLeaf
  <2> QED
    BY <2>1, <2>4, <2>5
<1>2. IInv => PathProvesPosition /\ \A siblings : ProvesPosition(siblings)
  BY <1>1 DEF PathProvesPosition, ProvesPosition
<1> QED
  BY <1>2, Invariance, PTL
=============================================================================
