------------------------- MODULE HiddenPoolV2Proofs -------------------------
(***************************************************************************)
(* Theorems about HiddenPoolV2, for every value of its constants.          *)
(*                                                                         *)
(* The inductive invariant is IInv: the type invariant, the inverse index, *)
(* the ring of recent roots and the meaning of the spent nullifiers.       *)
(* GoodTree is its part about the tree; each call of the contract files    *)
(* zero, two or three leaves, and filing one leaf keeps GoodTree.          *)
(***************************************************************************)
EXTENDS HiddenPoolV2, SumTheorems, TLAPS

-----------------------------------------------------------------------------
(* Arithmetic.                                                             *)

(* The head of the ring moves to the next slot and wraps at the end. *)
LEMMA NextHeadStep ==
  ASSUME NEW R \in Nat \ {0}, NEW h \in 0 .. R - 1
  PROVE  (h + 1) % R = IF h + 1 = R THEN 0 ELSE h + 1
<1>1. CASE h + 1 = R
  BY <1>1, SMT
<1>2. CASE h + 1 # R
  BY <1>2, SMT
<1> QED
  BY <1>1, <1>2

(* Rounding up: the smallest q with q * d >= a. *)
LEMMA CeilingDivision ==
  ASSUME NEW a \in Nat, NEW d \in Nat \ {0}
  PROVE  LET q == (a + d - 1) \div d
         IN  /\ q \in Nat
             /\ q * d >= a
             /\ \A f \in Nat : f * d >= a => f >= q
<1> DEFINE q == (a + d - 1) \div d
           r == (a + d - 1) % d
<1>1. q \in Nat /\ r \in 0 .. d - 1 /\ a + d - 1 = d * q + r
  BY SMT
<1>2. q * d >= a
  BY <1>1, SMT
<1>3. ASSUME NEW f \in Nat, f * d >= a
      PROVE  f >= q
  <2>1. SUFFICES ASSUME q >= f + 1 PROVE FALSE
    BY <1>1, SMT
  <2>2. d * q >= d * (f + 1)
    BY <1>1, <2>1, SMT
  <2>3. d * (f + 1) = f * d + d
    BY SMT
  <2> QED
    BY <1>1, <1>3, <2>2, <2>3, SMT
<1> QED
  BY <1>1, <1>2, <1>3

-----------------------------------------------------------------------------
(* Filing leaves.                                                          *)

(* What the invariant says of the tree. *)
GoodTree(t) ==
  /\ t.nextLeafIndex \in Nat
  /\ t.leaves \in [0 .. t.nextLeafIndex - 1 -> Leaf]
  /\ t.rootRingHead \in RingSlots
  /\ t.rootHistory \in [RingSlots -> Nat]
  /\ RecentRoots(t.rootHistory, t.rootRingHead, t.nextLeafIndex)
  /\ DOMAIN t.positionPlusOne \subseteq Leaf
  /\ t.positionPlusOne \in [DOMAIN t.positionPlusOne -> Nat]
  /\ Inverts(t.positionPlusOne, t.leaves)

(* Marking a leaf and appending another one commute. *)
LEMMA MarkAppendCommute ==
  ASSUME NEW t, NEW leaf, NEW n, NEW other, NEW m
  PROVE  /\ MarkLeaf(AppendLeaf(t, n, leaf), other, m) = AppendLeaf(MarkLeaf(t, other, m), n, leaf)
         /\ Unfiled(AppendLeaf(t, n, leaf), other) <=> Unfiled(t, other)
BY DEF MarkLeaf, AppendLeaf, NextHead, Unfiled, LeafPositionPlusOne

(* One more state of the tree: its root displaces the oldest one. *)
LEMMA RingStep ==
  ASSUME NEW ring \in [RingSlots -> Nat], NEW h \in RingSlots, NEW n \in Nat,
         NEW g \in RingSlots, g = IF h + 1 = RootRingSize THEN 0 ELSE h + 1,
         NEW next, next[g] = RootOf(n + 1),
         \A i \in RingSlots : i # g => next[i] = ring[i],
         RecentRoots(ring, h, n)
  PROVE  RecentRoots(next, g, n + 1)
<1>1. RootRingSize \in Nat \ {0} /\ h \in 0 .. RootRingSize - 1
  BY PoolAssumption DEF RingSlots
<1> DEFINE m == n + 1
<1>3. ASSUME NEW i \in RingSlots
      PROVE  next[i] = IF Age(g, i) <= m THEN RootOf(m - Age(g, i)) ELSE 0
  <2>1. CASE i = g
    <3>1. Age(g, i) = 0
      BY <1>1, <2>1, SMT DEF Age, RingSlots
    <3>2. next[i] = RootOf(n + 1)
      BY <2>1
    <3> QED
      BY <3>1, <3>2, SMT
  <2>2. CASE i # g
    <3>1. Age(g, i) = Age(h, i) + 1 /\ Age(h, i) \in Nat
      <4>1. i \in 0 .. RootRingSize - 1 /\ g \in 0 .. RootRingSize - 1
        BY DEF RingSlots
      <4>2. CASE h + 1 = RootRingSize
        BY <1>1, <2>2, <4>1, <4>2, SMT DEF Age
      <4>3. CASE h + 1 # RootRingSize
        BY <1>1, <2>2, <4>1, <4>3, SMT DEF Age
      <4> QED
        BY <4>2, <4>3
    <3>2. ring[i] = IF Age(h, i) <= n THEN RootOf(n - Age(h, i)) ELSE 0
      BY DEF RecentRoots
    <3>3. next[i] = ring[i]
      BY <2>2
    <3>4. CASE Age(h, i) <= n
      <4>1. Age(g, i) <= n + 1 /\ n - Age(h, i) = n + 1 - Age(g, i)
        BY <3>1, <3>4, SMT
      <4> QED
        BY <3>1, <3>2, <3>3, <3>4, <4>1
    <3>5. CASE ~ (Age(h, i) <= n)
      <4>1. ~ (Age(g, i) <= n + 1)
        BY <3>1, <3>5, SMT
      <4> QED
        BY <3>2, <3>3, <3>5, <4>1
    <3> QED
      BY <3>4, <3>5
  <2> QED
    BY <2>1, <2>2
<1> HIDE DEF m
<1>4. RecentRoots(next, g, m)
  BY <1>3 DEF RecentRoots
<1> QED
  BY <1>4 DEF m

(* The n-th leaf enters the list of leaves and the index. *)
LeafEnters(n, leaf, leaves, index, leaves2, index2) ==
  /\ n \in Nat /\ DOMAIN leaves = 0 .. n - 1 /\ leaf \notin DOMAIN index
  /\ DOMAIN leaves2 = DOMAIN leaves \cup {n} /\ leaves2[n] = leaf
  /\ \A p \in DOMAIN leaves : leaves2[p] = leaves[p]
  /\ DOMAIN index2 = DOMAIN index \cup {leaf} /\ index2[leaf] = n + 1
  /\ \A l \in DOMAIN index : index2[l] = index[l]

(* The index stays the inverse of the leaves when a new leaf enters both. *)
LEMMA IndexStep ==
  ASSUME NEW n, NEW leaf, NEW leaves, NEW index, NEW leaves2, NEW index2,
         LeafEnters(n, leaf, leaves, index, leaves2, index2), Inverts(index, leaves)
  PROVE  Inverts(index2, leaves2)
<1> USE DEF LeafEnters
<1>1. ASSUME NEW p \in DOMAIN leaves2
      PROVE  leaves2[p] \in DOMAIN index2 /\ index2[leaves2[p]] = p + 1
  <2>1. CASE p = n
    BY <2>1
  <2>2. CASE p # n
    <3>1. p \in DOMAIN leaves /\ leaves2[p] = leaves[p]
      BY <2>2
    <3>2. leaves[p] \in DOMAIN index /\ index[leaves[p]] = p + 1
      BY <3>1 DEF Inverts
    <3> QED
      BY <3>1, <3>2
  <2> QED
    BY <2>1, <2>2
<1>2. ASSUME NEW l \in DOMAIN index2
      PROVE  \E p \in DOMAIN leaves2 : leaves2[p] = l
  <2>1. CASE l = leaf
    BY <2>1
  <2>2. CASE l # leaf
    BY <2>2 DEF Inverts
  <2> QED
    BY <2>1, <2>2
<1> QED
  BY <1>1, <1>2 DEF Inverts

(* Filing a leaf that is not in the tree keeps everything GoodTree says. *)
LEMMA FileNoteGood ==
  ASSUME NEW t, GoodTree(t), NEW leaf \in Leaf, Unfiled(t, leaf)
  PROVE  LET f == FileNote(t, leaf, t.nextLeafIndex)
         IN  /\ GoodTree(f)
             /\ f.nextLeafIndex = t.nextLeafIndex + 1
             /\ \A p \in DOMAIN t.leaves : f.leaves[p] = t.leaves[p]
             /\ f.leaves[t.nextLeafIndex] = leaf
<1> DEFINE n == t.nextLeafIndex
           f == FileNote(t, leaf, n)
<1>1. n \in Nat /\ t.leaves \in [0 .. n - 1 -> Leaf] /\ DOMAIN t.leaves = 0 .. n - 1
  BY DEF GoodTree
<1>2. leaf \notin DOMAIN t.positionPlusOne
  <2> SUFFICES ASSUME leaf \in DOMAIN t.positionPlusOne PROVE FALSE
    OBVIOUS
  <2>1. PICK p \in DOMAIN t.leaves : t.leaves[p] = leaf
    BY DEF GoodTree, Inverts
  <2>2. t.positionPlusOne[t.leaves[p]] = p + 1
    BY DEF GoodTree, Inverts
  <2>3. p \in Nat
    BY <1>1
  <2> QED
    BY <2>1, <2>2, <2>3, SMT DEF Unfiled, LeafPositionPlusOne
<1>3. f.nextLeafIndex = n + 1
  BY DEF FileNote, AppendLeaf
<1>4. f.leaves = [p \in DOMAIN t.leaves \cup {n} |-> IF p = n THEN leaf ELSE t.leaves[p]]
  BY DEF FileNote, AppendLeaf, MarkLeaf
<1>5. f.rootRingHead = (t.rootRingHead + 1) % RootRingSize
  BY DEF FileNote, AppendLeaf, MarkLeaf, NextHead
<1>6. f.rootHistory = [t.rootHistory EXCEPT ![f.rootRingHead] = RootOf(n + 1)]
  BY DEF FileNote, AppendLeaf, MarkLeaf, NextHead
<1>7. f.positionPlusOne = [l \in DOMAIN t.positionPlusOne \cup {leaf} |->
                             IF l = leaf THEN n + 1 ELSE t.positionPlusOne[l]]
  BY SMTT(30) DEF FileNote, AppendLeaf, MarkLeaf
<1> HIDE DEF f, n
<1>8. f.leaves \in [0 .. f.nextLeafIndex - 1 -> Leaf]
  <2>1. 0 .. (n + 1) - 1 = DOMAIN t.leaves \cup {n}
    BY <1>1, SMT
  <2> QED
    BY <1>1, <1>3, <1>4, <2>1
<1>9. /\ \A p \in DOMAIN t.leaves : f.leaves[p] = t.leaves[p]
      /\ f.leaves[n] = leaf
  BY <1>1, <1>4, SMT
<1>10. /\ f.rootRingHead = IF t.rootRingHead + 1 = RootRingSize THEN 0 ELSE t.rootRingHead + 1
       /\ f.rootRingHead \in RingSlots
  <2>1. RootRingSize \in Nat \ {0} /\ t.rootRingHead \in 0 .. RootRingSize - 1
    BY PoolAssumption DEF GoodTree, RingSlots
  <2>2. f.rootRingHead = IF t.rootRingHead + 1 = RootRingSize THEN 0 ELSE t.rootRingHead + 1
    BY <1>5, <2>1, NextHeadStep
  <2> QED
    BY <2>1, <2>2, SMT DEF RingSlots
<1>11. f.rootHistory \in [RingSlots -> Nat]
  BY <1>1, <1>6, <1>10, SMT DEF GoodTree, RootOf
<1>12. RecentRoots(f.rootHistory, f.rootRingHead, f.nextLeafIndex)
  <2>1. /\ f.rootHistory[f.rootRingHead] = RootOf(n + 1)
        /\ \A i \in RingSlots : i # f.rootRingHead => f.rootHistory[i] = t.rootHistory[i]
    BY <1>6, <1>10 DEF GoodTree
  <2>2. /\ t.rootRingHead \in RingSlots
        /\ t.rootHistory \in [RingSlots -> Nat]
        /\ RecentRoots(t.rootHistory, t.rootRingHead, n)
    BY DEF GoodTree, n
  <2> HIDE DEF GoodTree
  <2>3. RecentRoots(f.rootHistory, f.rootRingHead, n + 1)
    BY <1>1, <1>10, <2>1, <2>2, RingStep
  <2> QED
    BY <1>3, <2>3
<1>13. Inverts(f.positionPlusOne, f.leaves)
  <2>1. DOMAIN f.leaves = DOMAIN t.leaves \cup {n}
    BY <1>4
  <2>2. /\ DOMAIN f.positionPlusOne = DOMAIN t.positionPlusOne \cup {leaf}
        /\ f.positionPlusOne[leaf] = n + 1
        /\ \A l \in DOMAIN t.positionPlusOne : f.positionPlusOne[l] = t.positionPlusOne[l]
    BY <1>2, <1>7
  <2>3. Inverts(t.positionPlusOne, t.leaves)
    BY DEF GoodTree
  <2> QED
    <3>1. LeafEnters(n, leaf, t.leaves, t.positionPlusOne, f.leaves, f.positionPlusOne)
      BY <1>1, <1>2, <1>9, <2>1, <2>2 DEF LeafEnters
    <3> QED
      BY <2>3, <3>1, IndexStep
<1>14. /\ DOMAIN f.positionPlusOne \subseteq Leaf
       /\ f.positionPlusOne \in [DOMAIN f.positionPlusOne -> Nat]
  BY <1>1, <1>7 DEF GoodTree
<1>15. GoodTree(f)
  BY <1>1, <1>3, <1>8, <1>10, <1>11, <1>12, <1>13, <1>14 DEF GoodTree
<1> QED
  BY <1>3, <1>9, <1>15 DEF f, n

(* GoodTree and the bound on leaves give the types of the ring and the index. *)
LEMMA TreeTypes ==
  ASSUME NEW t, GoodTree(t), t.nextLeafIndex <= Capacity
  PROVE  /\ t.nextLeafIndex \in 0 .. Capacity
         /\ t.rootHistory \in [RingSlots -> 0 .. RootOf(Capacity)]
         /\ t.positionPlusOne \in [DOMAIN t.positionPlusOne -> 1 .. Capacity]
<1>1. Capacity \in Nat /\ RootRingSize \in Nat \ {0}
  BY PoolAssumption
<1>2. t.nextLeafIndex \in Nat /\ DOMAIN t.leaves = 0 .. t.nextLeafIndex - 1
  BY DEF GoodTree
<1>3. ASSUME NEW i \in RingSlots
      PROVE  t.rootHistory[i] \in 0 .. RootOf(Capacity)
  <2>1. Age(t.rootRingHead, i) \in Nat
    BY <1>1, SMT DEF GoodTree, Age, RingSlots
  <2>2. t.rootHistory[i] = IF Age(t.rootRingHead, i) <= t.nextLeafIndex
                             THEN RootOf(t.nextLeafIndex - Age(t.rootRingHead, i)) ELSE 0
    BY DEF GoodTree, RecentRoots
  <2> QED
    BY <1>1, <1>2, <2>1, <2>2, SMT DEF RootOf
<1>4. ASSUME NEW l \in DOMAIN t.positionPlusOne
      PROVE  t.positionPlusOne[l] \in 1 .. Capacity
  <2>1. PICK p \in DOMAIN t.leaves : t.leaves[p] = l
    BY DEF GoodTree, Inverts
  <2>2. t.positionPlusOne[t.leaves[p]] = p + 1
    BY DEF GoodTree, Inverts
  <2> QED
    BY <1>1, <1>2, <2>1, <2>2, SMT
<1> QED
  BY <1>1, <1>2, <1>3, <1>4, SMT DEF GoodTree

-----------------------------------------------------------------------------
(* The inductive invariant.                                                *)

IInv ==
  /\ TypeOK
  /\ RingHoldsRecentRoots
  /\ IndexMatchesTree
  /\ NullifiersNameNotes

LEMMA GoodTreeOfIInv ==
  IInv => GoodTree(tree) /\ tree.nextLeafIndex <= Capacity
<1> SUFFICES ASSUME IInv PROVE GoodTree(tree) /\ tree.nextLeafIndex <= Capacity
  OBVIOUS
<1>1. Capacity \in Nat
  BY PoolAssumption
<1>2. tree.nextLeafIndex \in Nat /\ tree.nextLeafIndex <= Capacity
  BY <1>1 DEF IInv, TypeOK
<1>3. tree.rootHistory \in [RingSlots -> Nat]
  BY <1>1, SMT DEF IInv, TypeOK, RootOf
<1>4. tree.positionPlusOne \in [DOMAIN tree.positionPlusOne -> Nat]
  BY <1>1, SMT DEF IInv, TypeOK
<1> QED
  BY <1>2, <1>3, <1>4
  DEF IInv, TypeOK, RingHoldsRecentRoots, IndexMatchesTree, GoodTree

(* What is left to show of a step whose tree is good. *)
LEMMA IInvNext ==
  ASSUME GoodTree(tree'), tree'.nextLeafIndex <= Capacity,
         Named(nullifierSpent', tree'.leaves),
         tokens' \in [Accounts -> Nat], custody' \in Nat, now' \in 0 .. MaxTime
  PROVE  IInv'
<1>1. nullifierSpent' \subseteq Rhos \X (0 .. Capacity - 1)
  <2>1. SUFFICES ASSUME NEW x \in nullifierSpent'
                 PROVE  x \in Rhos \X (0 .. Capacity - 1)
    OBVIOUS
  <2>2. PICK p \in DOMAIN tree'.leaves : x = Nullifier(tree'.leaves[p], p)
    BY DEF Named
  <2>3. tree'.leaves[p].rho \in Rhos /\ p \in 0 .. tree'.nextLeafIndex - 1
    BY DEF GoodTree, Leaf
  <2>4. p \in 0 .. Capacity - 1
    BY <2>3, PoolAssumption, SMT DEF GoodTree
  <2> QED
    BY <2>2, <2>3, <2>4 DEF Nullifier
<1>2. /\ tree'.nextLeafIndex \in 0 .. Capacity
      /\ tree'.rootHistory \in [RingSlots -> 0 .. RootOf(Capacity)]
      /\ tree'.positionPlusOne \in [DOMAIN tree'.positionPlusOne -> 1 .. Capacity]
  BY TreeTypes
<1>3. TypeOK'
  BY <1>1, <1>2 DEF TypeOK, GoodTree
<1>4. RingHoldsRecentRoots' /\ IndexMatchesTree' /\ NullifiersNameNotes'
  BY DEF GoodTree, RingHoldsRecentRoots, IndexMatchesTree, NullifiersNameNotes
<1> QED
  BY <1>3, <1>4 DEF IInv

LEMMA InitIInv == Init => IInv
<1> SUFFICES ASSUME Init PROVE IInv
  OBVIOUS
<1> USE PoolAssumption
<1>1. /\ tree.nextLeafIndex = 0
      /\ tree.leaves = [p \in {} |-> 0]
      /\ tree.rootRingHead = 0
      /\ tree.rootHistory = [i \in RingSlots |-> IF i = 0 THEN RootOf(0) ELSE 0]
      /\ tree.positionPlusOne = [leaf \in {} |-> 0]
  BY DEF Init, EmptyTree
<1>2. 0 .. 0 - 1 = {}
  BY SMT
<1>3. TypeOK
  BY <1>1, <1>2, SMT DEF Init, TypeOK, RingSlots, RootOf
<1>4. RingHoldsRecentRoots
  <2> SUFFICES ASSUME NEW i \in RingSlots
               PROVE  tree.rootHistory[i] = IF Age(0, i) <= 0 THEN RootOf(0 - Age(0, i)) ELSE 0
    BY <1>1 DEF RingHoldsRecentRoots, RecentRoots
  <2> QED
    BY <1>1, SMT DEF Age, RingSlots, RootOf
<1>5. IndexMatchesTree
  BY <1>1 DEF IndexMatchesTree, Inverts
<1>6. NullifiersNameNotes
  BY DEF Init, NullifiersNameNotes, Named
<1> QED
  BY <1>3, <1>4, <1>5, <1>6 DEF IInv

-----------------------------------------------------------------------------
(* What the calls of the contract do to the tree.                          *)

(* The tree grows by the leaves new[1] .. new[k]; k is 2 or 3 below. *)
TreeGrows(k, new) ==
  /\ GoodTree(tree')
  /\ tree'.nextLeafIndex = tree.nextLeafIndex + k
  /\ tree'.nextLeafIndex <= Capacity
  /\ \A p \in DOMAIN tree.leaves : tree'.leaves[p] = tree.leaves[p]
  /\ \A j \in 1 .. k : tree'.leaves[tree.nextLeafIndex + j - 1] = new[j]

(* Leaves made of typed parts are leaves. *)
LEMMA LeafOfType ==
  ASSUME NEW owner \in Owners, NEW rho \in Rhos, NEW amount \in 0 .. MaxAmount,
         NEW refundAfter \in Nat, NEW sender, sender \in Accounts \/ refundAfter = 0
  PROVE  LeafOf(owner, rho, amount, sender, refundAfter) \in Leaf
BY DEF LeafOf, Leaf

LEMMA DepositGrows ==
  ASSUME IInv, NEW sender \in Accounts, NEW owner \in Owners, NEW rho \in Rhos,
         NEW amount \in Nat, NEW window \in Nat, NEW feeRho \in Rhos,
         Deposit(sender, owner, rho, amount, window, feeRho)
  PROVE  TreeGrows(2, <<LeafOf(owner, rho, amount, sender, RefundAfter(window)),
                        LeafOf(Treasury, feeRho, FeeFor(amount), sender, 0)>>)
<1> DEFINE leaf    == LeafOf(owner, rho, amount, sender, RefundAfter(window))
           feeLeaf == LeafOf(Treasury, feeRho, FeeFor(amount), sender, 0)
           n       == tree.nextLeafIndex
           filed   == FileNote(tree, leaf, n)
           both    == FileNote(filed, feeLeaf, n + 1)
<1>1. /\ RoomFor(2) /\ Unfiled(tree, leaf) /\ Unfiled(filed, feeLeaf)
      /\ AmountAllowed(amount) /\ AmountAllowed(FeeFor(amount))
      /\ tree' = both
  BY DEF Deposit
<1>2. GoodTree(tree) /\ n \in Nat
  BY GoodTreeOfIInv DEF GoodTree
<1>3. leaf \in Leaf
  <2>1. amount \in 0 .. MaxAmount
    BY <1>1, PoolAssumption, SMT DEF AmountAllowed
  <2>2. RefundAfter(window) \in Nat
    BY PoolAssumption, SMT DEF RefundAfter, IInv, TypeOK
  <2> QED
    BY <2>1, <2>2, LeafOfType
<1>4. feeLeaf \in Leaf
  <2>1. FeeFor(amount) \in 0 .. MaxAmount
    BY <1>1, PoolAssumption, SMT DEF AmountAllowed
  <2> QED
    BY <2>1, PoolAssumption, LeafOfType
<1> HIDE DEF leaf, feeLeaf
<1>5. /\ GoodTree(filed) /\ filed.nextLeafIndex = n + 1 /\ filed.leaves[n] = leaf
      /\ \A p \in DOMAIN tree.leaves : filed.leaves[p] = tree.leaves[p]
  BY <1>1, <1>2, <1>3, FileNoteGood
<1> HIDE DEF filed
<1>6. /\ GoodTree(both) /\ both.nextLeafIndex = n + 1 + 1 /\ both.leaves[n + 1] = feeLeaf
      /\ \A p \in DOMAIN filed.leaves : both.leaves[p] = filed.leaves[p]
  BY <1>1, <1>4, <1>5, FileNoteGood
<1> HIDE DEF both
<1>7. DOMAIN tree.leaves = 0 .. n - 1 /\ DOMAIN filed.leaves = 0 .. n
  BY <1>2, <1>5, SMT DEF GoodTree
<1>8. /\ \A p \in DOMAIN tree.leaves : both.leaves[p] = tree.leaves[p]
      /\ both.leaves[n] = leaf
  BY <1>2, <1>5, <1>6, <1>7, SMT
<1>9. n + 2 <= Capacity /\ n + 1 + 1 = n + 2 /\ n + 2 - 1 = n + 1 /\ n + 1 - 1 = n
  BY <1>1, <1>2, SMT DEF RoomFor
<1>10. \A j \in 1 .. 2 : tree'.leaves[n + j - 1] = <<leaf, feeLeaf>>[j]
  <2>1. ASSUME NEW j \in 1 .. 2
        PROVE  tree'.leaves[n + j - 1] = <<leaf, feeLeaf>>[j]
    <3>1. j = 1 \/ j = 2
      BY SMT
    <3> QED
      BY <1>1, <1>6, <1>8, <1>9, <3>1
  <2> QED
    BY <2>1
<1>11. TreeGrows(2, <<leaf, feeLeaf>>)
  BY <1>1, <1>6, <1>8, <1>9, <1>10 DEF TreeGrows
<1> QED
  BY <1>11 DEF leaf, feeLeaf

(* Whatever the transfer sends, the amounts are those of notes.             *)
LEMMA TransferIs ==
  ASSUME TransferAny
  PROVE  \E p \in DOMAIN tree.leaves, pay, change, fee \in 0 .. MaxAmount,
            payee \in Owners, payRho, changeRho, feeRho \in Rhos :
            TransferNote(p, payee, payRho, changeRho, feeRho, pay, change, fee)
<1>1. SentAmounts \subseteq 0 .. MaxAmount
  BY PoolAssumption
<1>2. PICK p \in DOMAIN tree.leaves, pay \in SentAmounts, change \in SentAmounts,
           fee \in SentAmounts :
        \E payee \in Owners, payRho, changeRho, feeRho \in Rhos :
          TransferNote(p, payee, payRho, changeRho, feeRho, pay, change, fee)
  BY DEF TransferAny
<1> QED
  BY <1>1, <1>2

LEMMA TransferGrows ==
  ASSUME IInv, NEW p \in DOMAIN tree.leaves, NEW payee \in Owners,
         NEW payRho \in Rhos, NEW changeRho \in Rhos, NEW feeRho \in Rhos,
         NEW pay \in 0 .. MaxAmount, NEW change \in 0 .. MaxAmount, NEW fee \in 0 .. MaxAmount,
         TransferNote(p, payee, payRho, changeRho, feeRho, pay, change, fee)
  PROVE  TreeGrows(3, <<LeafOf(payee, payRho, pay, NoFunder, 0),
                        LeafOf(tree.leaves[p].owner, changeRho, change, NoFunder, 0),
                        LeafOf(Treasury, feeRho, fee, NoFunder, 0)>>)
<1> DEFINE payLeaf    == LeafOf(payee, payRho, pay, NoFunder, 0)
           changeLeaf == LeafOf(tree.leaves[p].owner, changeRho, change, NoFunder, 0)
           feeLeaf    == LeafOf(Treasury, feeRho, fee, NoFunder, 0)
           n          == tree.nextLeafIndex
           filed1     == FileNote(tree, payLeaf, n)
           filed2     == FileNote(filed1, changeLeaf, n + 1)
           filed3     == FileNote(filed2, feeLeaf, n + 2)
           mark1      == MarkLeaf(tree, payLeaf, n)
           mark2      == MarkLeaf(mark1, changeLeaf, n + 1)
           mark3      == MarkLeaf(mark2, feeLeaf, n + 2)
           in1        == AppendLeaf(mark3, n, payLeaf)
           in2        == AppendLeaf(in1, n + 1, changeLeaf)
           in3        == AppendLeaf(in2, n + 2, feeLeaf)
<1>1. /\ RoomFor(3)
      /\ Unfiled(tree, payLeaf) /\ Unfiled(mark1, changeLeaf) /\ Unfiled(mark2, feeLeaf)
      /\ tree' = in3
  BY DEF TransferNote
<1>2. GoodTree(tree) /\ n \in Nat
  BY GoodTreeOfIInv DEF GoodTree
<1>3. payLeaf \in Leaf /\ changeLeaf \in Leaf /\ feeLeaf \in Leaf
  <2>1. tree.leaves[p].owner \in Owners
    BY <1>2 DEF GoodTree, Leaf
  <2> QED
    BY <2>1, PoolAssumption, LeafOfType
<1> HIDE DEF payLeaf, changeLeaf, feeLeaf
<1>4. /\ in3 = filed3
      /\ Unfiled(filed1, changeLeaf) /\ Unfiled(filed2, feeLeaf)
  <2>1. filed1 = AppendLeaf(mark1, n, payLeaf)
    BY DEF FileNote
  <2>2. filed2 = AppendLeaf(MarkLeaf(filed1, changeLeaf, n + 1), n + 1, changeLeaf)
    BY DEF FileNote
  <2>3. filed3 = AppendLeaf(MarkLeaf(filed2, feeLeaf, n + 2), n + 2, feeLeaf)
    BY DEF FileNote
  <2> HIDE DEF filed1, filed2, filed3, mark1
  <2>4. MarkLeaf(filed1, changeLeaf, n + 1) = AppendLeaf(mark2, n, payLeaf)
    BY <2>1, MarkAppendCommute
  <2> HIDE DEF mark2
  <2> DEFINE over == AppendLeaf(mark2, n, payLeaf)
  <2>5. filed2 = AppendLeaf(over, n + 1, changeLeaf)
    BY <2>2, <2>4
  <2>6. MarkLeaf(filed2, feeLeaf, n + 2) = AppendLeaf(MarkLeaf(over, feeLeaf, n + 2), n + 1, changeLeaf)
    BY <2>5, MarkAppendCommute
  <2>7. MarkLeaf(over, feeLeaf, n + 2) = in1
    BY MarkAppendCommute
  <2>8. Unfiled(filed1, changeLeaf)
    BY <1>1, <2>1, MarkAppendCommute
  <2>9. Unfiled(filed2, feeLeaf)
    BY <1>1, <2>5, MarkAppendCommute
  <2> QED
    BY <2>3, <2>6, <2>7, <2>8, <2>9
<1>5. /\ GoodTree(filed1) /\ filed1.nextLeafIndex = n + 1 /\ filed1.leaves[n] = payLeaf
      /\ \A q \in DOMAIN tree.leaves : filed1.leaves[q] = tree.leaves[q]
  BY <1>1, <1>2, <1>3, FileNoteGood
<1> HIDE DEF filed1
<1>6. /\ GoodTree(filed2) /\ filed2.nextLeafIndex = n + 1 + 1 /\ filed2.leaves[n + 1] = changeLeaf
      /\ \A q \in DOMAIN filed1.leaves : filed2.leaves[q] = filed1.leaves[q]
  BY <1>1, <1>3, <1>4, <1>5, FileNoteGood
<1> HIDE DEF filed2, mark1, mark2, in3
<1>7. n + 1 + 1 = n + 2
  BY <1>2, SMT
<1>8. /\ GoodTree(filed3) /\ filed3.nextLeafIndex = n + 2 + 1 /\ filed3.leaves[n + 2] = feeLeaf
      /\ \A q \in DOMAIN filed2.leaves : filed3.leaves[q] = filed2.leaves[q]
  BY <1>1, <1>3, <1>4, <1>6, <1>7, FileNoteGood
<1> HIDE DEF filed3
<1>9. DOMAIN tree.leaves = 0 .. n - 1 /\ DOMAIN filed1.leaves = 0 .. n /\ DOMAIN filed2.leaves = 0 .. n + 1
  <2>1. /\ DOMAIN tree.leaves = 0 .. n - 1
        /\ DOMAIN filed1.leaves = 0 .. filed1.nextLeafIndex - 1
        /\ DOMAIN filed2.leaves = 0 .. filed2.nextLeafIndex - 1
    BY <1>2, <1>5, <1>6, Zenon DEF GoodTree
  <2>2. n + 1 - 1 = n /\ n + 2 - 1 = n + 1
    BY <1>2, SMT
  <2> QED
    BY <1>2, <1>5, <1>6, <1>7, <2>1, <2>2
<1>10. /\ \A q \in DOMAIN tree.leaves : filed3.leaves[q] = tree.leaves[q]
       /\ filed3.leaves[n] = payLeaf /\ filed3.leaves[n + 1] = changeLeaf
  <2>1. /\ DOMAIN tree.leaves \subseteq DOMAIN filed1.leaves
        /\ DOMAIN filed1.leaves \subseteq DOMAIN filed2.leaves
        /\ n \in DOMAIN filed1.leaves /\ n + 1 \in DOMAIN filed2.leaves
    BY <1>2, <1>9, SMT
  <2> QED
    BY <1>5, <1>6, <1>8, <2>1
<1>11. /\ n + 3 <= Capacity /\ n + 2 + 1 = n + 3
       /\ n + 3 - 1 = n + 2 /\ n + 2 - 1 = n + 1 /\ n + 1 - 1 = n
  BY <1>1, <1>2, SMT DEF RoomFor
<1>12. \A j \in 1 .. 3 : tree'.leaves[n + j - 1] = <<payLeaf, changeLeaf, feeLeaf>>[j]
  <2>1. ASSUME NEW j \in 1 .. 3
        PROVE  tree'.leaves[n + j - 1] = <<payLeaf, changeLeaf, feeLeaf>>[j]
    <3>1. j = 1 \/ j = 2 \/ j = 3
      BY SMT
    <3> QED
      BY <1>1, <1>4, <1>8, <1>10, <1>11, <3>1
  <2> QED
    BY <2>1
<1>13. TreeGrows(3, <<payLeaf, changeLeaf, feeLeaf>>)
  BY <1>1, <1>4, <1>8, <1>10, <1>11, <1>12 DEF TreeGrows
<1> QED
  BY <1>13 DEF payLeaf, changeLeaf, feeLeaf

(* A refund spends the nullifier the circuits derive for the leaf it finds. *)
LEMMA RefundSpendsNote ==
  ASSUME IInv, NEW sender \in Accounts, NEW note \in DOMAIN tree.positionPlusOne,
         Refund(sender, note)
  PROVE  \E p \in UnspentNotes :
           /\ tree.leaves[p].amount = note.amount
           /\ nullifierSpent' = nullifierSpent \cup {Nullifier(tree.leaves[p], p)}
<1> DEFINE leaf == LeafOf(note.owner, note.rho, note.amount, sender, note.refundAfter)
<1>1. ~ Unfiled(tree, leaf) /\ Spend(RefundNullifier(leaf)) /\ leaf.amount = note.amount
  BY DEF Refund, LeafOf
<1> HIDE DEF leaf
<1>2. leaf \in DOMAIN tree.positionPlusOne
  BY <1>1, Zenon DEF Unfiled, LeafPositionPlusOne
<1>3. PICK p \in DOMAIN tree.leaves : tree.leaves[p] = leaf
  BY <1>2 DEF IInv, IndexMatchesTree, Inverts
<1>4. tree.positionPlusOne[leaf] = p + 1 /\ p \in Int
  BY <1>3 DEF IInv, TypeOK, IndexMatchesTree, Inverts
<1>5. LeafPositionPlusOne(tree, leaf) - 1 = p
  BY <1>2, <1>4, SMT DEF LeafPositionPlusOne
<1>6. RefundNullifier(leaf) = Nullifier(tree.leaves[p], p)
  BY <1>3, <1>5 DEF RefundNullifier
<1> QED
  BY <1>1, <1>3, <1>6 DEF Spend, UnspentNotes

(* The spent nullifiers keep naming notes when leaves are added. *)
LEMMA NamedAfterGrowth ==
  ASSUME IInv, NEW k \in Nat, NEW new, TreeGrows(k, new),
         NEW spent, Named(spent, tree.leaves)
  PROVE  Named(spent, tree'.leaves)
<1>1. tree.nextLeafIndex \in Nat /\ DOMAIN tree.leaves = 0 .. tree.nextLeafIndex - 1
  BY GoodTreeOfIInv DEF GoodTree
<1>2. DOMAIN tree'.leaves = 0 .. tree'.nextLeafIndex - 1
  BY DEF TreeGrows, GoodTree
<1>3. DOMAIN tree.leaves \subseteq DOMAIN tree'.leaves
  BY <1>1, <1>2, SMT DEF TreeGrows
<1> QED
  BY <1>3 DEF TreeGrows, Named

(* Every call of the contract, and the passing of time, keep the invariant. *)
LEMMA StepIInv == IInv /\ [Next]_vars => IInv'
<1> SUFFICES ASSUME IInv, [Next]_vars PROVE IInv'
  OBVIOUS
<1>1. GoodTree(tree) /\ tree.nextLeafIndex <= Capacity /\ tree.nextLeafIndex \in Nat
  BY GoodTreeOfIInv DEF GoodTree
<1>2. /\ Named(nullifierSpent, tree.leaves) /\ tokens \in [Accounts -> Nat]
      /\ custody \in Nat /\ now \in 0 .. MaxTime
  BY DEF IInv, TypeOK, NullifiersNameNotes
<1>3. UnitScale \in Nat /\ MaxAmount \in Nat /\ MaxTime \in Nat
  BY PoolAssumption
<1>4. ASSUME NEW sender \in Accounts, NEW owner \in Owners, NEW rho \in Rhos, NEW feeRho \in Rhos,
             NEW amount \in DepositAmounts, NEW window \in 0 .. MaxRefundWindow,
             Deposit(sender, owner, rho, amount, window, feeRho)
      PROVE  IInv'
  <2> DEFINE charge == (amount + FeeFor(amount)) * UnitScale
  <2>1. amount \in Nat /\ window \in Nat /\ FeeFor(amount) \in Nat
    BY <1>4, PoolAssumption, SMT DEF Deposit, AmountAllowed
  <2>2. charge \in Nat
    BY <1>3, <2>1, SMT
  <2>3. PICK new : TreeGrows(2, new)
    BY <1>4, <2>1, DepositGrows
  <2>4. /\ tokens[sender] >= charge
        /\ tokens' = [tokens EXCEPT ![sender] = @ - charge]
        /\ custody' = custody + charge
        /\ nullifierSpent' = nullifierSpent /\ now' = now
    BY <1>4 DEF Deposit
  <2> HIDE DEF charge
  <2>5. tokens' \in [Accounts -> Nat] /\ custody' \in Nat
    BY <1>2, <2>2, <2>4, SMT
  <2>6. Named(nullifierSpent', tree'.leaves)
    BY <1>2, <2>3, <2>4, NamedAfterGrowth
  <2> QED
    BY <1>2, <2>3, <2>4, <2>5, <2>6, IInvNext DEF TreeGrows
<1>5. ASSUME NEW p \in DOMAIN tree.leaves,
             NEW pay \in 0 .. MaxAmount, NEW change \in 0 .. MaxAmount, NEW fee \in 0 .. MaxAmount,
             NEW payee \in Owners, NEW payRho \in Rhos, NEW changeRho \in Rhos, NEW feeRho \in Rhos,
             TransferNote(p, payee, payRho, changeRho, feeRho, pay, change, fee)
      PROVE  IInv'
  <2>1. PICK new : TreeGrows(3, new)
    BY <1>5, TransferGrows
  <2>2. /\ nullifierSpent' = nullifierSpent \cup {Nullifier(tree.leaves[p], p)}
        /\ tokens' = tokens /\ custody' = custody /\ now' = now
    BY <1>5 DEF TransferNote, Spend
  <2>3. Named(nullifierSpent', tree.leaves)
    BY <1>2, <1>5, <2>2 DEF Named
  <2>4. Named(nullifierSpent', tree'.leaves)
    BY <2>1, <2>3, NamedAfterGrowth
  <2> QED
    BY <1>2, <2>1, <2>2, <2>4, IInvNext DEF TreeGrows
<1>6. ASSUME NEW p \in DOMAIN tree.leaves, NEW recipient \in Accounts, NEW relayer \in Accounts,
             NEW fee \in 0 .. MaxAmount, Withdraw(p, recipient, relayer, fee)
      PROVE  IInv'
  <2> DEFINE amount == tree.leaves[p].amount
  <2>1. amount \in Nat /\ fee \in Nat /\ fee <= amount
    BY <1>1, <1>3, <1>6 DEF Withdraw, GoodTree, Leaf
  <2>2. (amount - fee) * UnitScale \in Nat /\ fee * UnitScale \in Nat /\ amount * UnitScale \in Nat
    <3>1. amount - fee \in Nat
      BY <2>1, SMT
    <3>2. \A a \in Nat : a * UnitScale \in Nat
      BY <1>3, SMT
    <3> QED
      BY <2>1, <3>1, <3>2
  <2>3. /\ custody >= amount * UnitScale /\ custody' = custody - amount * UnitScale
        /\ tokens' = [[tokens EXCEPT ![recipient] = @ + (amount - fee) * UnitScale]
                        EXCEPT ![relayer] = @ + fee * UnitScale]
        /\ nullifierSpent' = nullifierSpent \cup {Nullifier(tree.leaves[p], p)}
        /\ tree' = tree /\ now' = now
    BY <1>6 DEF Withdraw, Spend
  <2>4. tokens' \in [Accounts -> Nat]
    <3> DEFINE out == (amount - fee) * UnitScale
               kept == fee * UnitScale
               paid == [tokens EXCEPT ![recipient] = @ + out]
    <3>1. out \in Nat /\ kept \in Nat
      BY <2>2
    <3> HIDE DEF out, kept
    <3>2. paid \in [Accounts -> Nat]
      BY <1>2, <3>1, SMT
    <3> HIDE DEF paid
    <3>3. [paid EXCEPT ![relayer] = @ + kept] \in [Accounts -> Nat]
      BY <3>1, <3>2, SMT
    <3> QED
      BY <2>3, <3>3 DEF paid, out, kept
  <2>5. custody' \in Nat
    BY <1>2, <2>2, <2>3, SMT
  <2>6. Named(nullifierSpent', tree'.leaves)
    BY <1>2, <1>6, <2>3 DEF Named
  <2> QED
    BY <1>1, <1>2, <2>3, <2>4, <2>5, <2>6, IInvNext
<1>7. ASSUME NEW sender \in Accounts, NEW note \in DOMAIN tree.positionPlusOne, Refund(sender, note)
      PROVE  IInv'
  <2> DEFINE paid == note.amount * UnitScale
  <2>1. PICK p \in UnspentNotes : nullifierSpent' = nullifierSpent \cup {Nullifier(tree.leaves[p], p)}
    BY <1>7, RefundSpendsNote
  <2>2. /\ custody >= paid /\ custody' = custody - paid
        /\ tokens' = [tokens EXCEPT ![sender] = @ + paid]
        /\ tree' = tree /\ now' = now
    BY <1>7 DEF Refund
  <2>3. paid \in Nat
    <3>1. note.amount \in Nat
      BY <1>3, <1>7, SMT DEF Refund, AmountAllowed
    <3> QED
      BY <1>3, <3>1, SMT
  <2> HIDE DEF paid
  <2>4. tokens' \in [Accounts -> Nat] /\ custody' \in Nat
    BY <1>2, <2>2, <2>3, SMT
  <2>5. Named(nullifierSpent', tree'.leaves)
    BY <1>2, <2>1, <2>2 DEF Named, UnspentNotes
  <2> QED
    BY <1>1, <1>2, <2>2, <2>4, <2>5, IInvNext
<1>8. CASE Tick
  <2>1. /\ tree' = tree /\ nullifierSpent' = nullifierSpent /\ tokens' = tokens /\ custody' = custody
        /\ now' \in 0 .. MaxTime
    BY <1>2, <1>3, <1>8, SMT DEF Tick
  <2> QED
    BY <1>1, <1>2, <2>1, IInvNext
<1>9. CASE UNCHANGED vars
  BY <1>1, <1>2, <1>9, IInvNext DEF vars
<1>10. CASE TransferAny
  BY <1>5, <1>10, TransferIs
<1> QED
  BY <1>4, <1>10, <1>6, <1>7, <1>8, <1>9 DEF Next, DepositAny, WithdrawAny, RefundAny

-----------------------------------------------------------------------------
(* The invariants.                                                         *)

(* The inductive invariant holds in every state of every behaviour of the   *)
(* contract: storage is well typed, the ring, the index and the nullifiers  *)
(* say what the tree says.                                                  *)
THEOREM Invariance == Spec => []IInv
<1> QED
  BY InitIInv, StepIInv, PTL DEF Spec

(* Storage keeps its types, whatever calls are made in whatever order. *)
THEOREM TypeCorrect == Spec => []TypeOK
<1>1. IInv => TypeOK
  BY DEF IInv
<1> QED
  BY <1>1, Invariance, PTL

(* The ring of the contract holds exactly the roots of the last             *)
(* RootRingSize states of the tree, for every ring size.                    *)
THEOREM RingCorrect == Spec => []RingHoldsRecentRoots
<1>1. IInv => RingHoldsRecentRoots
  BY DEF IInv
<1> QED
  BY <1>1, Invariance, PTL

(* leafPositionPlusOne is the inverse of the list of leaves. *)
THEOREM IndexCorrect == Spec => []IndexMatchesTree
<1>1. IInv => IndexMatchesTree
  BY DEF IInv
<1> QED
  BY <1>1, Invariance, PTL

(* The refund path and the proof path spend the same nullifier of a note. *)
THEOREM NullifierCorrect == Spec => []NullifiersNameNotes
<1>1. IInv => NullifiersNameNotes
  BY DEF IInv
<1> QED
  BY <1>1, Invariance, PTL

(* An unspent note can be proved under the newest root of the ring, and a   *)
(* refundable one can be refunded.                                          *)
THEOREM Reachability == Spec => []NotesStayReachable
<1>1. ASSUME IInv, NEW p \in UnspentNotes
      PROVE  /\ ProvableRoots(p) # {}
             /\ RefundNullifier(tree.leaves[p]) \notin nullifierSpent
  <2> DEFINE n    == tree.nextLeafIndex
             h    == tree.rootRingHead
             note == tree.leaves[p]
  <2>1. /\ GoodTree(tree) /\ n \in Nat /\ h \in RingSlots
        /\ p \in DOMAIN tree.leaves /\ p \in 0 .. n - 1
        /\ RootRingSize \in Nat \ {0}
    BY <1>1, GoodTreeOfIInv, PoolAssumption DEF GoodTree, UnspentNotes
  <2>2. tree.rootHistory[h] = RootOf(n)
    <3>1. Age(h, h) = 0
      BY <2>1, SMT DEF Age, RingSlots
    <3>2. tree.rootHistory[h] = IF Age(h, h) <= n THEN RootOf(n - Age(h, h)) ELSE 0
      BY <2>1 DEF GoodTree, RecentRoots
    <3> QED
      BY <2>1, <3>1, <3>2, SMT
  <2>3. /\ RootOf(n) \in 0 .. RootOf(n) /\ RootOf(n) # 0 /\ p + 1 < RootOf(n)
    BY <2>1, SMT DEF RootOf
  <2>4. RootOf(n) \in ProvableRoots(p)
    BY <2>1, <2>2, <2>3 DEF ProvableRoots, Member, IsKnownRoot
  <2>5. note \in DOMAIN tree.positionPlusOne /\ tree.positionPlusOne[note] = p + 1
    BY <1>1, <2>1 DEF IInv, IndexMatchesTree, Inverts
  <2>6. LeafPositionPlusOne(tree, note) - 1 = p
    BY <2>1, <2>5, SMT DEF LeafPositionPlusOne
  <2> QED
    BY <2>4, <2>6 DEF RefundNullifier, UnspentNotes
<1>2. IInv => NotesStayReachable
  BY <1>1 DEF NotesStayReachable
<1> QED
  BY <1>2, Invariance, PTL

-----------------------------------------------------------------------------
(* The fee.                                                                *)

(* feeFor is the least fee both rules of the circuit accept: fee * 100 >=   *)
(* pay and fee >= floor.                                                    *)
LEMMA FeeForIsLeast ==
  ASSUME NEW amount \in Nat
  PROVE  /\ FeeFor(amount) \in Nat
         /\ FeeFor(amount) * FeePercentDivisor >= amount
         /\ \A fee \in Nat :
              fee * FeePercentDivisor >= amount /\ fee >= FeeFloor => fee >= FeeFor(amount)
<1> DEFINE percent == (amount + FeePercentDivisor - 1) \div FeePercentDivisor
<1>1. FeePercentDivisor \in Nat \ {0} /\ FeeFloor \in Nat
  BY PoolAssumption
<1>2. /\ percent \in Nat /\ percent * FeePercentDivisor >= amount
      /\ \A fee \in Nat : fee * FeePercentDivisor >= amount => fee >= percent
  BY <1>1, CeilingDivision
<1>3. FeeFor(amount) = IF percent > FeeFloor THEN percent ELSE FeeFloor
  BY DEF FeeFor
<1> HIDE DEF percent
<1>4. FeeFor(amount) \in Nat /\ FeeFor(amount) >= percent
  BY <1>1, <1>2, <1>3, SMT
<1>5. FeeFor(amount) * FeePercentDivisor >= amount
  <2>1. \A x, y \in Nat : x >= y => x * FeePercentDivisor >= y * FeePercentDivisor
    BY <1>1, SMT
  <2>2. FeeFor(amount) * FeePercentDivisor >= percent * FeePercentDivisor
    BY <1>2, <1>4, <2>1
  <2>3. FeeFor(amount) * FeePercentDivisor \in Int /\ percent * FeePercentDivisor \in Int
    BY <1>1, <1>2, <1>4, SMT
  <2> QED
    BY <1>2, <2>2, <2>3, SMT
<1>6. \A fee \in Nat :
        fee * FeePercentDivisor >= amount /\ fee >= FeeFloor => fee >= FeeFor(amount)
  BY <1>1, <1>2, <1>3, SMT
<1> QED
  BY <1>4, <1>5, <1>6

(* Whoever pays, into the pool or inside it, pays the treasury what feeFor  *)
(* asks, for every percentage, floor and amount.                            *)
THEOREM FeeCorrect == Spec => EveryPaymentPaysFee
<1>1. ASSUME IInv, [Next]_vars, tree'.nextLeafIndex # tree.nextLeafIndex
      PROVE  FeeCharged
  <2> DEFINE n == tree.nextLeafIndex
  <2>1. n \in Nat
    BY <1>1, GoodTreeOfIInv DEF GoodTree
  <2>2. ASSUME NEW sender \in Accounts, NEW owner \in Owners, NEW rho \in Rhos, NEW feeRho \in Rhos,
               NEW amount \in DepositAmounts, NEW window \in 0 .. MaxRefundWindow,
               Deposit(sender, owner, rho, amount, window, feeRho)
        PROVE  FeeCharged
    <3>1. amount \in Nat /\ window \in Nat
      BY PoolAssumption, SMT
    <3>2. TreeGrows(2, <<LeafOf(owner, rho, amount, sender, RefundAfter(window)),
                         LeafOf(Treasury, feeRho, FeeFor(amount), sender, 0)>>)
      BY <1>1, <2>2, <3>1, DepositGrows
    <3>3. n + 1 - 1 = n /\ n + 2 - 1 = tree'.nextLeafIndex - 1 /\ tree'.nextLeafIndex - n = 2
      BY <2>1, <3>2, SMT DEF TreeGrows
    <3>4. /\ tree'.leaves[n] = LeafOf(owner, rho, amount, sender, RefundAfter(window))
          /\ tree'.leaves[tree'.nextLeafIndex - 1] = LeafOf(Treasury, feeRho, FeeFor(amount), sender, 0)
      BY <3>2, <3>3 DEF TreeGrows
    <3>5. FeeFor(amount) >= FeeFor(amount) /\ FeeFor(amount) * FeePercentDivisor >= amount
      BY <3>1, FeeForIsLeast, SMT
    <3> QED
      BY <3>3, <3>4, <3>5 DEF FeeCharged, LeafOf
  <2>3. ASSUME NEW p \in DOMAIN tree.leaves,
               NEW pay \in 0 .. MaxAmount, NEW change \in 0 .. MaxAmount, NEW fee \in 0 .. MaxAmount,
               NEW payee \in Owners, NEW payRho \in Rhos, NEW changeRho \in Rhos, NEW feeRho \in Rhos,
               TransferNote(p, payee, payRho, changeRho, feeRho, pay, change, fee)
        PROVE  FeeCharged
    <3>1. TreeGrows(3, <<LeafOf(payee, payRho, pay, NoFunder, 0),
                         LeafOf(tree.leaves[p].owner, changeRho, change, NoFunder, 0),
                         LeafOf(Treasury, feeRho, fee, NoFunder, 0)>>)
      BY <1>1, <2>3, TransferGrows
    <3>2. n + 1 - 1 = n /\ n + 3 - 1 = tree'.nextLeafIndex - 1 /\ tree'.nextLeafIndex - n = 3
      BY <2>1, <3>1, SMT DEF TreeGrows
    <3>3. /\ tree'.leaves[n] = LeafOf(payee, payRho, pay, NoFunder, 0)
          /\ tree'.leaves[tree'.nextLeafIndex - 1] = LeafOf(Treasury, feeRho, fee, NoFunder, 0)
      BY <3>1, <3>2 DEF TreeGrows
    <3>4. pay \in Nat /\ fee \in Nat
      BY PoolAssumption, SMT
    <3>5. fee * FeePercentDivisor >= pay /\ fee >= FeeFloor
      BY <2>3 DEF TransferNote, TransferStatement
    <3>6. fee >= FeeFor(pay)
      BY <3>4, <3>5, FeeForIsLeast
    <3> QED
      BY <3>2, <3>3, <3>5, <3>6 DEF FeeCharged, LeafOf
  <2>4. ASSUME tree' = tree PROVE FALSE
    BY <1>1, <2>4
  <2>5. CASE TransferAny
    BY <2>3, <2>5, TransferIs
  <2> QED
    BY <1>1, <2>2, <2>4, <2>5
    DEF Next, DepositAny, WithdrawAny, RefundAny, Withdraw, Refund, Tick, vars
<1> QED
  BY <1>1, Invariance, PTL DEF Spec, EveryPaymentPaysFee

-----------------------------------------------------------------------------
(* The pool implements the ledger.                                         *)

(* The notes consumed so far, as the refinement mapping gives them. *)
SpentNotes == DOMAIN tree.leaves \ UnspentNotes

(* The notes of the ledger as the refinement mapping gives them. *)
Values == [p \in DOMAIN tree.leaves |-> tree.leaves[p].amount]

(* Leaves added to the tree are notes filed in the ledger. *)
LEMMA GrowthFiles ==
  ASSUME IInv, NEW k \in Nat, NEW new, TreeGrows(k, new),
         NEW batch, \A j \in 1 .. k : batch[j] = new[j].amount
  PROVE  Ledger!Filed(batch, k)
<1> DEFINE n == tree.nextLeafIndex
<1>1. n \in Nat /\ DOMAIN tree.leaves = 0 .. n - 1
  BY GoodTreeOfIInv DEF GoodTree
<1>2. /\ tree'.nextLeafIndex = n + k
      /\ DOMAIN tree'.leaves = 0 .. n + k - 1
      /\ \A p \in DOMAIN tree.leaves : tree'.leaves[p] = tree.leaves[p]
      /\ \A j \in 1 .. k : tree'.leaves[n + j - 1] = new[j]
  <2>1. DOMAIN tree'.leaves = 0 .. tree'.nextLeafIndex - 1 /\ tree'.nextLeafIndex = n + k
    BY Zenon DEF TreeGrows, GoodTree
  <2>2. DOMAIN tree'.leaves = 0 .. n + k - 1
    BY <1>1, <2>1, SMT
  <2> QED
    BY <2>1, <2>2 DEF TreeGrows
<1>3. ASSUME NEW i \in 0 .. n + k - 1
      PROVE  tree'.leaves[i].amount = IF i < n THEN Values[i] ELSE batch[i - n + 1]
  <2>1. CASE i < n
    <3>1. i \in DOMAIN tree.leaves
      BY <1>1, <2>1, SMT
    <3> QED
      BY <1>2, <2>1, <3>1 DEF Values
  <2>2. CASE ~ (i < n)
    <3>1. i - n + 1 \in 1 .. k /\ n + (i - n + 1) - 1 = i
      BY <1>1, <2>2, SMT
    <3> QED
      BY <1>2, <2>2, <3>1
  <2> QED
    BY <2>1, <2>2
<1>4. [p \in DOMAIN tree'.leaves |-> tree'.leaves[p].amount]
        = [i \in 0 .. n + k - 1 |-> IF i < n THEN Values[i] ELSE batch[i - n + 1]]
  BY <1>2, <1>3
<1> QED
  BY <1>2, <1>4 DEF Ledger!Filed, Values

(* A new leaf is unspent: no nullifier was ever spent for its position.     *)
LEMMA SpentAfterGrowth ==
  ASSUME IInv, NEW k \in Nat, NEW new, TreeGrows(k, new), NEW extra \in SUBSET DOMAIN tree.leaves,
         nullifierSpent' = nullifierSpent \cup {Nullifier(tree.leaves[q], q) : q \in extra}
  PROVE  SpentNotes' = SpentNotes \cup extra
<1> DEFINE n == tree.nextLeafIndex
<1>1. n \in Nat /\ DOMAIN tree.leaves = 0 .. n - 1
  BY GoodTreeOfIInv DEF GoodTree
<1>2. /\ DOMAIN tree'.leaves = 0 .. n + k - 1
      /\ \A p \in DOMAIN tree.leaves : tree'.leaves[p] = tree.leaves[p]
  <2>1. DOMAIN tree'.leaves = 0 .. tree'.nextLeafIndex - 1 /\ tree'.nextLeafIndex = n + k
    BY Zenon DEF TreeGrows, GoodTree
  <2>2. DOMAIN tree'.leaves = 0 .. n + k - 1
    BY <1>1, <2>1, SMT
  <2> QED
    BY <2>1, <2>2 DEF TreeGrows
<1>3. Named(nullifierSpent', tree.leaves)
  BY DEF IInv, NullifiersNameNotes, Named
<1>4. SpentNotes' \subseteq DOMAIN tree.leaves
  <2> SUFFICES ASSUME NEW q \in SpentNotes' PROVE q \in DOMAIN tree.leaves
    OBVIOUS
  <2>1. Nullifier(tree'.leaves[q], q) \in nullifierSpent'
    BY DEF SpentNotes, UnspentNotes
  <2>2. PICK p \in DOMAIN tree.leaves : Nullifier(tree'.leaves[q], q) = Nullifier(tree.leaves[p], p)
    BY <1>3, <2>1 DEF Named
  <2> QED
    BY <2>2 DEF Nullifier
<1>5. DOMAIN tree.leaves \subseteq DOMAIN tree'.leaves
  BY <1>1, <1>2, SMT
<1>6. ASSUME NEW q \in DOMAIN tree.leaves
      PROVE  q \in SpentNotes' <=> q \in SpentNotes \cup extra
  <2>1. q \in SpentNotes' <=> Nullifier(tree.leaves[q], q) \in nullifierSpent'
    BY <1>2, <1>5 DEF SpentNotes, UnspentNotes
  <2>2. q \in SpentNotes <=> Nullifier(tree.leaves[q], q) \in nullifierSpent
    BY DEF SpentNotes, UnspentNotes
  <2>3. Nullifier(tree.leaves[q], q) \in {Nullifier(tree.leaves[r], r) : r \in extra} <=> q \in extra
    BY DEF Nullifier
  <2> QED
    BY <2>1, <2>2, <2>3
<1> QED
  BY <1>4, <1>6 DEF SpentNotes

(* A call that leaves the tree alone grows it by nothing. *)
LEMMA NoGrowth ==
  ASSUME IInv, tree' = tree
  PROVE  TreeGrows(0, <<>>)
<1>1. GoodTree(tree) /\ tree.nextLeafIndex <= Capacity /\ tree.nextLeafIndex \in Nat
  BY GoodTreeOfIInv DEF GoodTree
<1>2. tree.nextLeafIndex + 0 = tree.nextLeafIndex /\ 1 .. 0 = {}
  BY <1>1, SMT
<1> QED
  BY <1>1, <1>2 DEF TreeGrows

(* Every call of the contract is a step of the ledger or none.               *)
LEMMA LedgerStep ==
  ASSUME IInv, [Next]_vars
  PROVE  [Ledger!Next]_(Ledger!vars)
<1> DEFINE n == tree.nextLeafIndex
<1>1. /\ GoodTree(tree) /\ n \in Nat /\ DOMAIN tree.leaves = 0 .. n - 1
      /\ Ledger!Notes = DOMAIN tree.leaves
      /\ Ledger!Unspent = UnspentNotes
  BY GoodTreeOfIInv DEF GoodTree, Ledger!Notes, Ledger!Unspent, UnspentNotes
<1>2. MaxAmount \in Nat
  BY PoolAssumption
<1>3. ASSUME NEW sender \in Accounts, NEW owner \in Owners, NEW rho \in Rhos, NEW feeRho \in Rhos,
             NEW amount \in DepositAmounts, NEW window \in 0 .. MaxRefundWindow,
             Deposit(sender, owner, rho, amount, window, feeRho)
      PROVE  Ledger!Next
  <2> DEFINE new == <<LeafOf(owner, rho, amount, sender, RefundAfter(window)),
                      LeafOf(Treasury, feeRho, FeeFor(amount), sender, 0)>>
             batch == <<amount, FeeFor(amount)>>
  <2>1. amount \in Nat /\ window \in Nat
    BY PoolAssumption, SMT
  <2>2. TreeGrows(2, new)
    BY <1>3, <2>1, DepositGrows
  <2>3. \A j \in 1 .. 2 : batch[j] = new[j].amount
    <3>1. ASSUME NEW j \in 1 .. 2 PROVE batch[j] = new[j].amount
      <4>1. j = 1 \/ j = 2
        BY SMT
      <4> QED
        BY <4>1 DEF LeafOf
    <3> QED
      BY <3>1
  <2> HIDE DEF new
  <2>4. Ledger!Filed(batch, 2)
    BY <2>2, <2>3, GrowthFiles
  <2>5. nullifierSpent' = nullifierSpent \cup {Nullifier(tree.leaves[q], q) : q \in {}}
    BY <1>3 DEF Deposit
  <2>6. SpentNotes' = SpentNotes \cup {}
    BY <2>2, <2>5, SpentAfterGrowth, Zenon
  <2>7. custody' = custody + (amount + FeeFor(amount)) * UnitScale
    BY <1>3 DEF Deposit
  <2>8. amount \in 0 .. MaxAmount /\ FeeFor(amount) \in 0 .. MaxAmount
    BY <1>2, <1>3, SMT DEF Deposit, AmountAllowed
  <2>9. Ledger!Fund(amount, FeeFor(amount))
    BY <2>4, <2>6, <2>7 DEF Ledger!Fund, SpentNotes
  <2> QED
    BY <2>8, <2>9 DEF Ledger!Next
<1>4. ASSUME NEW p \in DOMAIN tree.leaves,
             NEW pay \in 0 .. MaxAmount, NEW change \in 0 .. MaxAmount, NEW fee \in 0 .. MaxAmount,
             NEW payee \in Owners, NEW payRho \in Rhos, NEW changeRho \in Rhos, NEW feeRho \in Rhos,
             TransferNote(p, payee, payRho, changeRho, feeRho, pay, change, fee)
      PROVE  Ledger!Next
  <2> DEFINE new == <<LeafOf(payee, payRho, pay, NoFunder, 0),
                      LeafOf(tree.leaves[p].owner, changeRho, change, NoFunder, 0),
                      LeafOf(Treasury, feeRho, fee, NoFunder, 0)>>
             batch == <<pay, change, fee>>
  <2>1. TreeGrows(3, new)
    BY <1>4, TransferGrows
  <2>2. \A j \in 1 .. 3 : batch[j] = new[j].amount
    <3>1. ASSUME NEW j \in 1 .. 3 PROVE batch[j] = new[j].amount
      <4>1. j = 1 \/ j = 2 \/ j = 3
        BY SMT
      <4> QED
        BY <4>1 DEF LeafOf
    <3> QED
      BY <3>1
  <2> HIDE DEF new
  <2>3. Ledger!Filed(batch, 3)
    BY <2>1, <2>2, GrowthFiles
  <2>4. /\ Nullifier(tree.leaves[p], p) \notin nullifierSpent
        /\ nullifierSpent' = nullifierSpent \cup {Nullifier(tree.leaves[p], p)}
        /\ TransferStatement(tree.leaves[p], pay, change, fee)
        /\ custody' = custody
    BY <1>4 DEF TransferNote, Spend
  <2>5. nullifierSpent' = nullifierSpent \cup {Nullifier(tree.leaves[q], q) : q \in {p}}
    BY <2>4
  <2>6. SpentNotes' = SpentNotes \cup {p}
    BY <1>4, <2>1, <2>5, SpentAfterGrowth, Zenon
  <2>7. Ledger!Forward(p, pay, change, fee)
    BY <1>4, <2>3, <2>4, <2>6 DEF Ledger!Forward, SpentNotes, TransferStatement
  <2>8. p \in Ledger!Unspent
    BY <1>1, <1>4, <2>4 DEF UnspentNotes
  <2> QED
    BY <2>7, <2>8 DEF Ledger!Next
<1>5. ASSUME NEW p \in UnspentNotes, tree' = tree,
             nullifierSpent' = nullifierSpent \cup {Nullifier(tree.leaves[p], p)},
             custody' = custody - tree.leaves[p].amount * UnitScale
      PROVE  Ledger!Next
  <2>1. TreeGrows(0, <<>>)
    BY <1>5, NoGrowth
  <2>2. p \in DOMAIN tree.leaves
    BY <1>5 DEF UnspentNotes
  <2>3. nullifierSpent' = nullifierSpent \cup {Nullifier(tree.leaves[q], q) : q \in {p}}
    BY <1>5
  <2>4. SpentNotes' = SpentNotes \cup {p}
    BY <2>1, <2>2, <2>3, SpentAfterGrowth, Zenon
  <2>5. Ledger!PayOut(p)
    BY <1>5, <2>2, <2>4 DEF Ledger!PayOut, SpentNotes
  <2> QED
    BY <1>1, <1>5, <2>5 DEF Ledger!Next
<1>6. ASSUME NEW p \in DOMAIN tree.leaves, NEW recipient \in Accounts, NEW relayer \in Accounts,
             NEW fee \in 0 .. MaxAmount, Withdraw(p, recipient, relayer, fee)
      PROVE  Ledger!Next
  BY <1>5, <1>6 DEF Withdraw, Spend, UnspentNotes
<1>7. ASSUME NEW sender \in Accounts, NEW note \in DOMAIN tree.positionPlusOne, Refund(sender, note)
      PROVE  Ledger!Next
  <2>1. PICK p \in UnspentNotes :
          /\ tree.leaves[p].amount = note.amount
          /\ nullifierSpent' = nullifierSpent \cup {Nullifier(tree.leaves[p], p)}
    BY <1>7, RefundSpendsNote
  <2>2. tree' = tree /\ custody' = custody - note.amount * UnitScale
    BY <1>7 DEF Refund
  <2> QED
    BY <1>5, <2>1, <2>2
<1>8. CASE Tick \/ UNCHANGED vars
  BY <1>8 DEF Tick, vars, Ledger!vars, UnspentNotes
<1>9. CASE TransferAny
  BY <1>4, <1>9, TransferIs
<1> QED
  BY <1>3, <1>9, <1>6, <1>7, <1>8 DEF Next, DepositAny, WithdrawAny, RefundAny

(* Every call of the contract is a step of the ledger or leaves it as it    *)
(* is: no note is paid twice, none is created from nothing, and custody     *)
(* moves with the notes.                                                    *)
THEOREM LedgerRefinement == Spec => ImplementsLedger
<1>1. Init => Ledger!Init
  <2> SUFFICES ASSUME Init PROVE Ledger!Init
    OBVIOUS
  <2>1. /\ tree.nextLeafIndex = 0 /\ tree.leaves = [p \in {} |-> 0]
        /\ custody = 0 /\ nullifierSpent = {}
    BY DEF Init, EmptyTree
  <2>2. 0 .. 0 - 1 = {}
    BY SMT
  <2> QED
    BY <2>1, <2>2 DEF Ledger!Init, Ledger!Notes, UnspentNotes
<1>2. ASSUME IInv, [Next]_vars
      PROVE  [Ledger!Next]_(Ledger!vars)
  BY <1>2, LedgerStep
<1> QED
  BY <1>1, <1>2, Invariance, PTL DEF Spec, ImplementsLedger, Ledger!Spec

-----------------------------------------------------------------------------
(* The pool is solvent.                                                     *)

UnspentWorth == SumOver(Values, Ledger!Unspent)

LEMMA SolventSum ==
  /\ Ledger!Backed <=> custody = UnitScale * UnspentWorth
  /\ Ledger!Backed' <=> custody' = UnitScale * UnspentWorth'
BY DEF Ledger!Backed, UnspentWorth, Values, SumOver, MapThenSumSet, MapThenFoldSet,
       Ledger!MapThenSumSet, Ledger!MapThenFoldSet

(* The ledger's numbers: its notes are a finite list of amounts.            *)
LedgerTyped ==
  /\ tree.nextLeafIndex \in Nat
  /\ Ledger!Notes = 0 .. tree.nextLeafIndex - 1
  /\ DOMAIN Values = Ledger!Notes
  /\ \A i \in Ledger!Notes : Values[i] \in Nat
  /\ SpentNotes \subseteq Ledger!Notes
  /\ Ledger!Unspent = Ledger!Notes \ SpentNotes
  /\ IsFiniteSet(Ledger!Unspent) /\ UnspentWorth \in Int
  /\ custody \in Nat /\ UnitScale \in Nat

LEMMA LedgerTypes == IInv => LedgerTyped
<1> SUFFICES ASSUME IInv PROVE LedgerTyped
  OBVIOUS
<1>1. /\ tree.nextLeafIndex \in Nat /\ DOMAIN tree.leaves = 0 .. tree.nextLeafIndex - 1
  BY GoodTreeOfIInv DEF GoodTree
<1>2. Ledger!Notes = 0 .. tree.nextLeafIndex - 1 /\ DOMAIN Values = Ledger!Notes
  BY <1>1 DEF Ledger!Notes, Values
<1>3. \A i \in Ledger!Notes : Values[i] \in Nat
  <2>1. \A i \in DOMAIN tree.leaves : tree.leaves[i] \in Leaf
    BY DEF IInv, TypeOK
  <2>2. \A i \in DOMAIN tree.leaves : tree.leaves[i].amount \in 0 .. MaxAmount
    BY <2>1 DEF Leaf
  <2>3. MaxAmount \in Nat
    BY PoolAssumption
  <2> QED
    BY <1>1, <1>2, <2>2, <2>3 DEF Values
<1>4. SpentNotes \subseteq Ledger!Notes /\ Ledger!Unspent = Ledger!Notes \ SpentNotes
  BY <1>1, <1>2 DEF SpentNotes, Ledger!Unspent, Ledger!Notes
<1>5. IsFiniteSet(Ledger!Unspent)
  <2>1. IsFiniteSet(0 .. tree.nextLeafIndex - 1)
    BY <1>1, FS_Interval
  <2> QED
    BY <1>2, <1>4, <2>1, FS_Subset
<1>6. \A i \in Ledger!Unspent : Values[i] \in Int
  BY <1>3, <1>4
<1>7. UnspentWorth \in Int
  BY <1>5, <1>6, SumInt DEF UnspentWorth
<1>8. custody \in Nat /\ UnitScale \in Nat
  BY PoolAssumption DEF IInv, TypeOK
<1> QED
  BY <1>1, <1>2, <1>3, <1>4, <1>5, <1>7, <1>8 DEF LedgerTyped

(* The same of the next state.                                              *)
LEMMA LedgerTypesNext == IInv' => LedgerTyped'
  BY LedgerTypes, PTL

(* A note that is consumed takes its worth away.                            *)
LEMMA ConsumedWorth ==
  ASSUME IInv, NEW i, i \in Ledger!Unspent
  PROVE  SumOver(Values, Ledger!Notes \ (SpentNotes \cup {i})) = UnspentWorth - Values[i]
<1> DEFINE S == Ledger!Unspent
           v == Values
<1>1. IsFiniteSet(S) /\ \A x \in S : v[x] \in Int
  BY LedgerTypes DEF LedgerTyped
<1>2. Ledger!Notes \ (SpentNotes \cup {i}) = S \ {i}
  <2>1. S = Ledger!Notes \ SpentNotes
    BY LedgerTypes DEF LedgerTyped
  <2> HIDE DEF S
  <2> QED
    BY ONLY <2>1
<1>3. i \in S
  OBVIOUS
<1> HIDE DEF S, v
<1>4. SumOver(v, S \ {i}) = SumOver(v, S) - v[i]
  BY ONLY <1>1, <1>3, SumRemove
<1> QED
  BY <1>2, <1>4 DEF S, v, UnspentWorth

(* What the ledger files, as values of the next state.                      *)
LEMMA FiledValues ==
  ASSUME IInv, IInv', NEW batch, NEW k, k \in {2, 3}, Ledger!Filed(batch, k)
  PROVE  /\ Ledger!Notes' = 0 .. tree.nextLeafIndex + k - 1
         /\ \A i \in Ledger!Notes : Values'[i] = Values[i]
         /\ \A i \in Ledger!Notes' : Values'[i] \in Int
         /\ \A j \in 1 .. k : Values'[tree.nextLeafIndex + j - 1] = batch[j]
<1> DEFINE n == tree.nextLeafIndex
<1>1. /\ n \in Nat /\ Ledger!Notes = 0 .. n - 1
  BY LedgerTypes DEF LedgerTyped
<1>2. tree'.nextLeafIndex = n + k
  BY DEF Ledger!Filed
<1>3. Ledger!Notes' = 0 .. n + k - 1
  <2>1. Ledger!Notes' = 0 .. tree'.nextLeafIndex - 1
    BY DEF Ledger!Notes
  <2>2. (n + k) - 1 = n + k - 1
    BY <1>1
  <2> QED
    BY <1>2, <2>1, <2>2
<1>4. Values' = [i \in 0 .. n + k - 1 |-> IF i < n THEN Values[i] ELSE batch[i - n + 1]]
  BY DEF Ledger!Filed, Values
<1>5. \A i \in Ledger!Notes' : Values'[i] \in Nat
  BY LedgerTypesNext DEF LedgerTyped
<1> HIDE DEF n
<1> QED
  BY <1>1, <1>3, <1>4, <1>5 DEF n

LEMMA SolventKept ==
  ASSUME IInv, IInv', [Next]_vars, Ledger!Backed
  PROVE  Ledger!Backed'
<1> DEFINE n == tree.nextLeafIndex
           v == Values
           w == Values'
<1>0. /\ n \in Nat /\ Ledger!Notes = 0 .. n - 1 /\ SpentNotes \subseteq Ledger!Notes
      /\ UnspentWorth \in Int /\ custody \in Nat /\ UnitScale \in Nat
      /\ Ledger!Unspent = Ledger!Notes \ SpentNotes /\ IsFiniteSet(Ledger!Unspent)
      /\ \A i \in Ledger!Notes : Values[i] \in Nat
  BY LedgerTypes DEF LedgerTyped
<1>1. custody = UnitScale * UnspentWorth
  BY SolventSum
<1>2. SUFFICES custody' = UnitScale * UnspentWorth'
  BY SolventSum
<1>3. UnspentWorth' = SumOver(w, Ledger!Notes' \ SpentNotes')
  BY LedgerTypesNext DEF UnspentWorth, LedgerTyped
<1>4. CASE UNCHANGED Ledger!vars
  <2>1. custody' = custody /\ UnspentWorth' = UnspentWorth
    BY <1>4 DEF Ledger!vars, UnspentWorth, Values, Ledger!Unspent, Ledger!Notes
  <2> QED
    BY <1>1, <2>1
<1>5. ASSUME NEW pay \in 0 .. MaxAmount, NEW fee \in 0 .. MaxAmount, Ledger!Fund(pay, fee)
      PROVE  custody' = UnitScale * UnspentWorth'
  <2>1. /\ Ledger!Filed(<<pay, fee>>, 2)
        /\ custody' = custody + (pay + fee) * UnitScale /\ SpentNotes' = SpentNotes
    BY <1>5 DEF Ledger!Fund, SpentNotes
  <2>2. /\ Ledger!Notes' = 0 .. n + 1 /\ \A i \in 0 .. n - 1 : w[i] = v[i]
        /\ \A i \in 0 .. n + 1 : w[i] \in Int /\ w[n] = pay /\ w[n + 1] = fee
    <3>1. /\ Ledger!Notes' = 0 .. n + 2 - 1
          /\ \A i \in Ledger!Notes : w[i] = v[i]
          /\ \A i \in Ledger!Notes' : w[i] \in Int
          /\ \A j \in 1 .. 2 : w[n + j - 1] = <<pay, fee>>[j]
      BY <2>1, FiledValues
    <3>2. n + 2 - 1 = n + 1 /\ n + 1 - 1 = n
      BY <1>0
    <3>3. w[n + 1 - 1] = pay /\ w[n + 2 - 1] = fee
      BY <3>1
    <3> QED
      BY <1>0, <3>1, <3>2, <3>3
  <2>3. SpentNotes \subseteq 0 .. n - 1 /\ UnspentWorth = SumOver(v, (0 .. n - 1) \ SpentNotes)
    BY <1>0 DEF UnspentWorth
  <2>4. pay \in Int /\ fee \in Int
    BY PoolAssumption
  <2> DEFINE S == (0 .. n - 1) \ SpentNotes
             T == (0 .. n + 1) \ SpentNotes
             y == n + 1
  <2>5. IsFiniteSet(S) /\ S = Ledger!Unspent /\ T = Ledger!Notes' \ SpentNotes'
    BY <1>0, <2>1, <2>2
  <2>6. /\ n \notin S /\ y \notin S /\ n # y /\ w[n] = pay /\ w[y] = fee
        /\ \A i \in S : w[i] = v[i]
    BY <1>0, <2>2
  <2>7. \A i \in T : w[i] \in Int
    BY <2>2
  <2>8. \A u : u \in T <=> u \in S \/ u = n \/ u = y
    BY <1>0
  <2> HIDE DEF n, v, w, S, T, y
  <2>9. SumOver(w, T) = SumOver(v, S) + w[n] + w[y]
    BY ONLY <2>5, <2>6, <2>7, <2>8, SumGrowTwo, SMTT(30)
  <2>10. UnspentWorth = SumOver(v, S) /\ UnspentWorth' = SumOver(w, T)
    BY <1>3, <2>5 DEF UnspentWorth, v
  <2>11. UnspentWorth' = UnspentWorth + pay + fee
    BY <2>6, <2>9, <2>10
  <2> QED
    BY <1>0, <1>1, <2>1, <2>4, <2>11
<1>6. ASSUME NEW i \in Ledger!Unspent, NEW pay \in 0 .. MaxAmount, NEW change \in 0 .. MaxAmount,
             NEW fee \in 0 .. MaxAmount, Ledger!Forward(i, pay, change, fee)
      PROVE  custody' = UnitScale * UnspentWorth'
  <2> DEFINE D == SpentNotes \cup {i}
             worth == SumOver(v, Ledger!Notes \ D)
  <2>1. /\ pay + change + fee = Values[i] /\ Ledger!Filed(<<pay, change, fee>>, 3)
        /\ SpentNotes' = D /\ custody' = custody
    BY <1>6 DEF Ledger!Forward, SpentNotes, Values
  <2>2. /\ Ledger!Notes' = 0 .. n + 2 /\ \A j \in 0 .. n - 1 : w[j] = v[j]
        /\ \A j \in 0 .. n + 2 : w[j] \in Int
        /\ w[n] = pay /\ w[n + 1] = change /\ w[n + 2] = fee
    <3>1. /\ Ledger!Notes' = 0 .. n + 3 - 1
          /\ \A j \in Ledger!Notes : w[j] = v[j]
          /\ \A j \in Ledger!Notes' : w[j] \in Int
          /\ \A j \in 1 .. 3 : w[n + j - 1] = <<pay, change, fee>>[j]
      BY <2>1, FiledValues
    <3>2. n + 2 - 1 = n + 1 /\ n + 1 - 1 = n /\ n + 3 - 1 = n + 2
      BY <1>0
    <3>3. w[n + 1 - 1] = pay /\ w[n + 2 - 1] = change /\ w[n + 3 - 1] = fee
      BY <3>1
    <3> QED
      BY <1>0, <3>1, <3>2, <3>3
  <2>3. worth = UnspentWorth - Values[i] /\ i \in Ledger!Notes
    BY <1>0, ConsumedWorth
  <2> DEFINE S == (0 .. n - 1) \ D
             U == (0 .. n + 2) \ D
             y == n + 1
             z == n + 2
  <2>4. /\ D \subseteq 0 .. n - 1 /\ S = Ledger!Notes \ D /\ S \subseteq Ledger!Unspent
        /\ U = Ledger!Notes' \ SpentNotes'
    BY <1>0, <2>1, <2>2, <2>3
  <2>5. pay \in Int /\ change \in Int /\ fee \in Int /\ Values[i] \in Int
    BY <1>0, <2>3, PoolAssumption
  <2>6. IsFiniteSet(S)
    BY <1>0, <2>4, FS_Subset
  <2>7. /\ n \notin S /\ y \notin S /\ z \notin S /\ n # y /\ n # z /\ y # z
        /\ w[n] = pay /\ w[y] = change /\ w[z] = fee
        /\ \A j \in S : w[j] = v[j]
    BY <1>0, <2>2
  <2>8. \A j \in U : w[j] \in Int
    BY <2>2
  <2>9. \A u : u \in U <=> u \in S \/ u = n \/ u = y \/ u = z
    <3>1. n \in Nat /\ D \subseteq 0 .. n - 1
      BY <1>0, <2>4
    <3> HIDE DEF n, D
    <3> QED
      BY ONLY <3>1
  <2>10. UnspentWorth' = SumOver(w, U) /\ worth = SumOver(v, S)
    BY <1>3, <2>4
  <2> HIDE DEF n, v, w, D, S, U, y, z, worth
  <2>11. SumOver(w, U) = SumOver(v, S) + w[n] + w[y] + w[z]
    BY ONLY <2>6, <2>7, <2>8, <2>9, SumGrowThree, SMTT(60)
  <2>12. UnspentWorth' = worth + pay + change + fee
    BY <2>7, <2>10, <2>11
  <2>13. UnspentWorth' = UnspentWorth
    <3> DEFINE a == Values[i]
    <3>1. pay + change + fee = a /\ worth = UnspentWorth - a /\ a \in Int
      BY <2>1, <2>3, <2>5
    <3> HIDE DEF a
    <3> QED
      BY ONLY <1>0, <2>5, <2>12, <3>1
  <2> QED
    BY <1>1, <2>1, <2>13
<1>7. ASSUME NEW i \in Ledger!Unspent, Ledger!PayOut(i)
      PROVE  custody' = UnitScale * UnspentWorth'
  <2>1. /\ SpentNotes' = SpentNotes \cup {i} /\ custody' = custody - Values[i] * UnitScale
        /\ w = v /\ Ledger!Notes' = Ledger!Notes
    BY <1>7 DEF Ledger!PayOut, SpentNotes, Values, Ledger!Notes
  <2>2. UnspentWorth' = UnspentWorth - Values[i]
    BY <1>3, <2>1, ConsumedWorth
  <2>3. Values[i] \in Int
    BY <1>0
  <2> QED
    BY <1>0, <1>1, <2>1, <2>2, <2>3
<1> QED
  BY LedgerStep, <1>4, <1>5, <1>6, <1>7 DEF Ledger!Next

(* The tokens the pool holds are always exactly the worth of the notes that *)
(* nobody has spent, whatever deposits, payments, withdrawals and refunds   *)
(* came before: every note can be paid, and nothing is left over.           *)
THEOREM PoolSolvent == Spec => []Solvent
<1>1. ASSUME Init
      PROVE  Ledger!Backed
  <2>1. custody = 0 /\ tree.nextLeafIndex = 0
    BY <1>1 DEF Init, EmptyTree
  <2>2. Ledger!Unspent = {}
    BY <2>1 DEF Ledger!Unspent, Ledger!Notes
  <2>3. UnspentWorth = 0
    BY <2>2, SumEmpty DEF UnspentWorth
  <2> QED
    BY <2>1, <2>3, SolventSum, PoolAssumption
<1>2. IInv /\ IInv' /\ [Next]_vars /\ Ledger!Backed => Ledger!Backed'
  BY SolventKept
<1> QED
  BY <1>1, <1>2, Invariance, PTL DEF Spec, Solvent
=============================================================================
