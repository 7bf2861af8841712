------------------------- MODULE SolanaPoolV2Proofs -------------------------
(***************************************************************************)
(* What the Solana pool keeps, for every set of mints and wallets, every    *)
(* size of tree and envelope and every bound of the model: types, the memo  *)
(* accounts as the complete list of the leaves, finished envelopes without  *)
(* a hole, and vaults that hold what the unspent notes of their mint are     *)
(* worth, but for what they paid for notes of other mints.                  *)
(***************************************************************************)
EXTENDS SolanaPoolV2, SumTheorems, TLAPS

Leaves == [owner : Wallets \cup {Treasury}, rho : Nat, amount : Nat, tag : Tags]

MemoAccount(l) ==
  [mint : Mints, writer : {"wallet", "browser"},
   depositor : Wallets \cup {Treasury}, after : Nat, amount : Nat, index : Nat,
   data : [0 .. Total(l) - 1 -> {"zero", "piece"}], written : 0 .. Total(l),
   finalized : BOOLEAN]

TreesGood ==
  /\ DOMAIN tree \subseteq Mints
  /\ tree \in [DOMAIN tree -> Seq(Leaves)]
  /\ \A m \in DOMAIN tree : Len(tree[m]) <= Capacity

MemosGood ==
  /\ IsFiniteSet(DOMAIN memo) /\ DOMAIN memo \subseteq Leaves
  /\ memo = [l \in DOMAIN memo |-> memo[l]]
  /\ \A l \in DOMAIN memo : memo[l] \in MemoAccount(l)

(* What is written of an envelope is a prefix of it, and it is finished when *)
(* the prefix is the whole.                                                  *)
Prefix(account, total) ==
  /\ account.finalized <=> account.written = total
  /\ \A i \in 0 .. account.written - 1 : account.data[i] = "piece"

PrefixesGood == \A l \in DOMAIN memo : Prefix(memo[l], Total(l))

(* A piece that waits or travels is one of an envelope that has an account.  *)
Piece == {p \in Leaves \X Nat : p[1] \in DOMAIN memo /\ p[2] < Total(p[1])}

PiecesGood == session \in Seq(Piece) /\ wire \subseteq Piece

RestGood ==
  /\ vault \in [Mints -> Nat] /\ foreign \in [Mints -> Nat]
  /\ ownerKey \subseteq Wallets /\ now \in 0 .. MaxTime

(* LeafListComplete, tree by tree.                                           *)
ListGood ==
  /\ \A m \in DOMAIN tree : \A i \in 1 .. Len(tree[m]) :
       /\ tree[m][i] \in DOMAIN memo
       /\ memo[tree[m][i]].mint = m /\ memo[tree[m][i]].index = i - 1
  /\ \A l \in DOMAIN memo :
       /\ memo[l].mint \in DOMAIN tree
       /\ memo[l].index + 1 \in 1 .. Len(tree[memo[l].mint])
       /\ tree[memo[l].mint][memo[l].index + 1] = l

IInv ==
  TreesGood /\ MemosGood /\ PrefixesGood /\ PiecesGood /\ RestGood /\ ListGood
-----------------------------------------------------------------------------
(* The length of an envelope.                                                *)
LEMMA TotalNat == \A l : Total(l) \in Nat
BY PoolAssumption DEF Total

(* The fee is a natural number.                                              *)
LEMMA FeeNat == ASSUME NEW amount \in Nat PROVE FeeFor(amount) \in Nat
<1> DEFINE a == (amount + 99) \div 100
<1>1. a \in Nat /\ FeeFloor \in Nat
  BY PoolAssumption
<1>2. \E x \in {a, FeeFloor} : \A y \in {a, FeeFloor} : x >= y
  <2> HIDE DEF a
  <2> QED
    BY <1>1
<1>3. FeeFor(amount) \in {a, FeeFloor}
  <2> HIDE DEF a
  <2>1. (CHOOSE x \in {a, FeeFloor} : \A y \in {a, FeeFloor} : x >= y) \in {a, FeeFloor}
    BY <1>2
  <2> QED
    BY <2>1 DEF FeeFor, Max, a
<1> QED
  BY <1>1, <1>3

(* Randomness drawn by the client is a natural number.                       *)
LEMMA FreshNat == ASSUME MemosGood, NEW k \in Nat PROVE Fresh(k) \in Nat
BY FS_CardinalityType DEF MemosGood, Fresh

(* Each leaf of a call gets the memo account made for it.                    *)
LEMMA OwnMemo ==
  ASSUME NEW leaves, NEW memos, NewAccounts(leaves), NEW k \in DOMAIN leaves
  PROVE  /\ leaves[k] \in Range(leaves) /\ leaves[k] \notin DOMAIN memo
         /\ memos[CHOOSE i \in DOMAIN leaves : leaves[i] = leaves[k]] = memos[k]
<1>1. leaves[k] \in Range(leaves) /\ leaves[k] \notin DOMAIN memo
  BY DEF NewAccounts, Range
<1>2. \A i \in DOMAIN leaves : leaves[i] = leaves[k] => i = k
  BY DEF NewAccounts, IsInjective
<1>3. (CHOOSE i \in DOMAIN leaves : leaves[i] = leaves[k]) = k
  BY <1>2
<1> QED
  BY <1>1, <1>3

(* A call that files leaves with accounts of their own at the end of a tree  *)
(* keeps trees, accounts, envelopes and list, and forgets nothing.           *)
LEMMA Filing ==
  ASSUME IInv, NEW m \in Mints, NEW leaves \in Seq(Leaves), NEW memos,
         FileLeaves(m, leaves, memos),
         \A k \in DOMAIN leaves :
           /\ memos[k] \in MemoAccount(leaves[k]) /\ Prefix(memos[k], Total(leaves[k]))
           /\ memos[k].mint = m /\ memos[k].index = Len(tree[m]) + k - 1
  PROVE  /\ TreesGood' /\ MemosGood' /\ PrefixesGood' /\ ListGood'
         /\ \A l \in DOMAIN memo : l \in DOMAIN memo'
         /\ \A k \in DOMAIN leaves : leaves[k] \in DOMAIN memo'
<1> DEFINE old == tree[m]
           n == Len(old)
<1>1. /\ m \in DOMAIN tree /\ n + Len(leaves) <= Capacity /\ NewAccounts(leaves)
      /\ tree' = [tree EXCEPT ![m] = old \o leaves]
      /\ memo' = [l \in DOMAIN memo \cup Range(leaves) |->
                    IF l \in DOMAIN memo THEN memo[l]
                    ELSE memos[CHOOSE i \in DOMAIN leaves : leaves[i] = l]]
  BY DEF FileLeaves, RoomFor, Open
<1>2. old \in Seq(Leaves) /\ n \in Nat /\ Len(leaves) \in Nat
      /\ DOMAIN leaves = 1 .. Len(leaves)
  BY <1>1 DEF IInv, TreesGood
<1>3. DOMAIN memo' = DOMAIN memo \cup Range(leaves)
  BY <1>1
<1>4. \A l \in DOMAIN memo : memo'[l] = memo[l]
  BY <1>1
<1>5. \A k \in DOMAIN leaves : memo'[leaves[k]] = memos[k]
  <2> SUFFICES ASSUME NEW k \in DOMAIN leaves PROVE memo'[leaves[k]] = memos[k]
    OBVIOUS
  <2>1. /\ leaves[k] \in Range(leaves) /\ leaves[k] \notin DOMAIN memo
        /\ memos[CHOOSE i \in DOMAIN leaves : leaves[i] = leaves[k]] = memos[k]
    BY <1>1, OwnMemo
  <2>2. memo'[leaves[k]] = memos[CHOOSE i \in DOMAIN leaves : leaves[i] = leaves[k]]
    BY <1>1, <2>1
  <2> QED
    BY <2>1, <2>2
<1>6. \A l \in DOMAIN memo' \ DOMAIN memo : \E k \in DOMAIN leaves : l = leaves[k]
  BY <1>3 DEF Range
<1> DEFINE new == old \o leaves
<1>7. /\ new \in Seq(Leaves) /\ Len(new) = n + Len(leaves)
      /\ \A i \in 1 .. n : new[i] = old[i]
      /\ \A k \in 1 .. Len(leaves) : new[n + k] = leaves[k]
  BY <1>2
<1>8. DOMAIN tree' = DOMAIN tree /\ tree'[m] = new
      /\ \A k \in DOMAIN tree : k /= m => tree'[k] = tree[k]
  BY <1>1 DEF IInv, TreesGood
<1>9. TreesGood'
  <2>1. tree' \in [DOMAIN tree' -> Seq(Leaves)]
    BY <1>1, <1>7 DEF IInv, TreesGood
  <2>2. DOMAIN tree' \subseteq Mints
    BY <1>8 DEF IInv, TreesGood
  <2>3. ASSUME NEW k \in DOMAIN tree' PROVE Len(tree'[k]) <= Capacity
    BY <1>1, <1>7, <1>8 DEF IInv, TreesGood
  <2> QED
    BY <2>1, <2>2, <2>3 DEF TreesGood
<1> HIDE DEF new, old, n
<1>10. MemosGood'
  <2>1. IsFiniteSet(DOMAIN memo')
    <3>1. IsFiniteSet(Range(leaves))
      <4>1. IsFiniteSet(1 .. Len(leaves))
        <5>1. 1 \in Int /\ Len(leaves) \in Int
          BY <1>2
        <5> QED
          BY <5>1, FS_Interval
      <4>2. leaves \in Surjection(1 .. Len(leaves), Range(leaves))
        BY <1>2 DEF Surjection, Range
      <4> QED
        BY <4>1, <4>2, FS_Surjection
    <3>2. IsFiniteSet(DOMAIN memo)
      BY DEF IInv, MemosGood
    <3>3. IsFiniteSet(DOMAIN memo \cup Range(leaves))
      BY ONLY <3>1, <3>2, FS_Union
    <3> QED
      BY <1>3, <3>3
  <2>2. DOMAIN memo' \subseteq Leaves
    BY <1>2, <1>3 DEF IInv, MemosGood, Range
  <2>3. memo' = [l \in DOMAIN memo' |-> memo'[l]]
    BY <1>1
  <2>4. ASSUME NEW l \in DOMAIN memo' PROVE memo'[l] \in MemoAccount(l)
    BY <1>4, <1>5, <1>6 DEF IInv, MemosGood
  <2> QED
    BY <2>1, <2>2, <2>3, <2>4 DEF MemosGood, MemoAccount
<1>11. PrefixesGood'
  BY <1>4, <1>5, <1>6 DEF IInv, PrefixesGood
<1>12. ASSUME NEW k \in DOMAIN tree', NEW i \in 1 .. Len(tree'[k])
       PROVE  /\ tree'[k][i] \in DOMAIN memo'
              /\ memo'[tree'[k][i]].mint = k /\ memo'[tree'[k][i]].index = i - 1
  <2>1. CASE k = m /\ i > n
    <3>1. PICK j \in 1 .. Len(leaves) : i = n + j
      <4>1. i - n \in 1 .. Len(leaves) /\ i = n + (i - n)
        BY <1>2, <1>7, <1>8, <2>1
      <4> QED
        BY <4>1
    <3>2. tree'[k][i] = leaves[j] /\ j \in DOMAIN leaves
      BY <1>2, <1>7, <1>8, <2>1, <3>1
    <3>3. memos[j].mint = m /\ memos[j].index = n + j - 1
      BY <3>2 DEF n, old
    <3>4. leaves[j] \in DOMAIN memo'
      BY <1>3, <3>2 DEF Range
    <3>5. n + j - 1 = i - 1
      BY <1>2, <3>1
    <3>6. memo'[tree'[k][i]] = memos[j]
      BY <1>5, <3>2
    <3> QED
      BY <2>1, <3>2, <3>3, <3>4, <3>5, <3>6
  <2>2. CASE ~(k = m /\ i > n)
    <3>1. k \in DOMAIN tree /\ i \in 1 .. Len(tree[k]) /\ tree'[k][i] = tree[k][i]
      <4>1. k \in DOMAIN tree
        BY <1>8
      <4>2. CASE k = m
        <5>1. i \in 1 .. n /\ tree'[k][i] = old[i]
          BY <1>2, <1>7, <1>8, <2>2, <4>2
        <5> QED
          BY <4>1, <4>2, <5>1 DEF n, old
      <4>3. CASE k # m
        <5>1. tree'[k] = tree[k]
          BY <1>8, <4>1, <4>3
        <5> QED
          BY <4>1, <5>1
      <4> QED
        BY <4>2, <4>3
    <3>2. /\ tree[k][i] \in DOMAIN memo
          /\ memo[tree[k][i]].mint = k /\ memo[tree[k][i]].index = i - 1
      BY <3>1 DEF IInv, ListGood
    <3> QED
      BY <1>3, <1>4, <3>1, <3>2
  <2> QED
    BY <2>1, <2>2
<1>13. ASSUME NEW l \in DOMAIN memo'
       PROVE  /\ memo'[l].mint \in DOMAIN tree'
              /\ memo'[l].index + 1 \in 1 .. Len(tree'[memo'[l].mint])
              /\ tree'[memo'[l].mint][memo'[l].index + 1] = l
  <2>1. CASE l \in DOMAIN memo
    <3>1. /\ memo[l].mint \in DOMAIN tree
          /\ memo[l].index + 1 \in 1 .. Len(tree[memo[l].mint])
          /\ tree[memo[l].mint][memo[l].index + 1] = l
      BY <2>1 DEF IInv, ListGood
    <3>2. \A k \in DOMAIN tree : \A i \in 1 .. Len(tree[k]) :
            i \in 1 .. Len(tree'[k]) /\ tree'[k][i] = tree[k][i]
      BY <1>2, <1>7, <1>8 DEF n, old
    <3> QED
      BY <1>4, <1>8, <2>1, <3>1, <3>2
  <2>2. CASE l \notin DOMAIN memo
    <3>1. PICK j \in DOMAIN leaves : l = leaves[j]
      BY <1>6, <2>2
    <3>2. memo'[l].mint = m /\ memo'[l].index = n + j - 1
      BY <1>5, <3>1 DEF n, old
    <3>3. n + j \in 1 .. Len(new) /\ new[n + j] = leaves[j]
      BY <1>2, <1>7, <3>1
    <3>4. memo'[l].index + 1 = n + j
      BY <1>2, <3>1, <3>2
    <3> QED
      BY <1>1, <1>8, <3>1, <3>2, <3>3, <3>4
  <2> QED
    BY <2>1, <2>2
<1>14. ListGood'
  BY <1>12, <1>13 DEF ListGood
<1>15. \A k \in DOMAIN leaves : leaves[k] \in DOMAIN memo'
  BY <1>3 DEF Range
<1> QED
  BY <1>3, <1>9, <1>10, <1>11, <1>14, <1>15

(* An account as a call creates it.                                          *)
LEMMA NewMemoGood ==
  ASSUME NEW l, NEW m, NEW writer, NEW funder, NEW after, NEW amount, NEW index,
         l \in Leaves, m \in Mints, writer \in {"wallet", "browser"},
         funder \in Wallets \cup {Treasury},
         after \in Nat, amount \in Nat, index \in Nat, NEW sent \in 0 .. Total(l),
         NEW new,
         new = NewMemo(m, writer, funder, after, amount, index, Total(l), sent)
  PROVE  /\ new \in MemoAccount(l) /\ Prefix(new, Total(l))
         /\ new.mint = m /\ new.index = index
<1>1. Total(l) \in Nat /\ sent \in Nat /\ sent <= Total(l)
  BY TotalNat
<1>2. [i \in 0 .. Total(l) - 1 |-> IF i < sent THEN "piece" ELSE "zero"]
        \in [0 .. Total(l) - 1 -> {"zero", "piece"}]
  OBVIOUS
<1>3. (sent = Total(l)) \in BOOLEAN
  OBVIOUS
<1>4. new \in MemoAccount(l)
  BY <1>2, <1>3 DEF NewMemo, MemoAccount
<1>5. /\ new.written = sent /\ new.finalized = (sent = Total(l))
      /\ new.data = [i \in 0 .. Total(l) - 1 |-> IF i < sent THEN "piece" ELSE "zero"]
  BY DEF NewMemo
<1>6. ASSUME NEW i \in 0 .. new.written - 1 PROVE new.data[i] = "piece"
  <2>1. i < sent /\ i \in 0 .. Total(l) - 1
    BY <1>1, <1>5
  <2> QED
    BY <1>5, <2>1
<1>7. Prefix(new, Total(l))
  BY <1>5, <1>6 DEF Prefix
<1> QED
  BY <1>4, <1>7 DEF NewMemo

(* The pieces of an envelope, once its account exists, and those that did    *)
(* not go with the deposit.                                                  *)
LEMMA PiecesFiled ==
  ASSUME NEW l \in Leaves, l \in DOMAIN memo'
  PROVE  /\ PiecesOf(l) \in Seq(Piece')
         /\ \A sent \in 0 .. Total(l) : PiecesAfter(l, sent) \in Seq(Piece')
<1>1. Total(l) \in Nat
  BY TotalNat
<1>2. ASSUME NEW i \in 1 .. Total(l) PROVE <<l, i - 1>> \in Piece'
  BY <1>1, <1>2 DEF Piece
<1>3. PiecesOf(l) \in [1 .. Total(l) -> Piece']
  BY <1>2 DEF PiecesOf
<1>4. PiecesOf(l) \in Seq(Piece') /\ Len(PiecesOf(l)) = Total(l)
  BY <1>1, <1>3
<1>5. ASSUME NEW sent \in 0 .. Total(l) PROVE PiecesAfter(l, sent) \in Seq(Piece')
  <2> DEFINE q == PiecesOf(l)
             n == Total(l)
  <2>1. q \in Seq(Piece') /\ Len(q) = n /\ n \in Nat /\ sent \in Nat
    BY <1>1, <1>4
  <2> HIDE DEF q, n
  <2>2. SubSeq(q, sent + 1, n) \in Seq(Piece')
    BY <2>1
  <2> QED
    BY <2>2 DEF q, n, PiecesAfter
<1> QED
  BY <1>4, <1>5

(* Accounts are never closed, so pieces stay good.                           *)
LEMMA PieceStays ==
  ASSUME \A l \in DOMAIN memo : l \in DOMAIN memo'
  PROVE  Piece \subseteq Piece'
BY DEF Piece

LEMMA RemoveAtSeq ==
  ASSUME NEW S, NEW q \in Seq(S), NEW i \in DOMAIN q
  PROVE  RemoveAt(q, i) \in Seq(S)
<1>1. i \in 1 .. Len(q) /\ Len(q) \in Nat
  OBVIOUS
<1>2. SubSeq(q, 1, i - 1) \in Seq(S) /\ SubSeq(q, i + 1, Len(q)) \in Seq(S)
  BY <1>1
<1> QED
  BY <1>2 DEF RemoveAt

(* A leaf as a client makes it.                                              *)
LEMMA LeafGood ==
  ASSUME NEW owner \in Wallets \cup {Treasury}, NEW rho \in Nat, NEW amount \in Nat,
         NEW tag \in Tags
  PROVE  Leaf(owner, rho, amount, tag) \in Leaves
BY DEF Leaf, Leaves

LEMMA TagGood ==
  ASSUME RestGood, NEW funder \in Wallets,
         NEW after \in {0} \cup (now + MinWindow) .. (now + MaxWindow)
  PROVE  after \in Nat /\ RefundTag(funder, after) \in Tags
<1>1. MinWindow \in Nat \ {0} /\ MaxWindow \in Nat /\ MaxTime \in Nat /\ now \in 0 .. MaxTime
  BY PoolAssumption DEF RestGood
<1>2. after = 0 \/ after \in 1 .. MaxTime + MaxWindow
  BY <1>1
<1> QED
  BY <1>1, <1>2 DEF RefundTag, Tags

(* A payment files a note and its fee, each with an account.                 *)
LEMMA PayGood ==
  ASSUME IInv, NEW m \in Mints, NEW funder \in Wallets, NEW owner \in Wallets,
         NEW amount \in Amounts,
         NEW after \in {0} \cup (now + MinWindow) .. (now + MaxWindow),
         NEW rho \in {0, Fresh(0)}, NEW sent \in 0 .. 1,
         Pay(m, funder, owner, amount, after, rho, sent)
  PROVE  IInv'
<1> DEFINE fee == FeeFor(amount)
           leaves == Paid(funder, owner, amount, after, rho)
           at == Len(tree[m])
<1>1. amount \in Nat /\ fee \in Nat
  BY PoolAssumption, FeeNat
<1>2. after \in Nat /\ RefundTag(funder, after) \in Tags /\ NoRefund \in Tags
  BY TagGood DEF IInv, Tags
<1>3. rho \in Nat /\ Fresh(1) \in Nat
  BY FreshNat DEF IInv
<1>4. leaves[1] \in Leaves /\ leaves[2] \in Leaves
      /\ leaves = <<leaves[1], leaves[2]>> /\ leaves \in Seq(Leaves)
      /\ DOMAIN leaves = 1 .. 2
  <2>1. Leaf(owner, rho, amount, RefundTag(funder, after)) \in Leaves
    BY <1>1, <1>2, <1>3, LeafGood
  <2>2. Leaf(Treasury, Fresh(1), fee, NoRefund) \in Leaves
    BY <1>1, <1>2, <1>3, LeafGood
  <2>3. leaves = <<Leaf(owner, rho, amount, RefundTag(funder, after)),
                   Leaf(Treasury, Fresh(1), fee, NoRefund)>>
    BY DEF Paid
  <2> QED
    BY <2>1, <2>2, <2>3
<1>5. at \in Nat
  <2>1. m \in DOMAIN tree
    BY DEF Pay, FileLeaves, RoomFor, Open
  <2> QED
    BY <2>1 DEF IInv, TreesGood
<1>6. PICK writer \in {"wallet", "browser"} :
        FileLeaves(m, leaves,
          <<NewMemo(m, writer, funder, after, amount, at, Total(leaves[1]), sent),
            NewMemo(m, writer, funder, 0, fee, at + 1, Total(leaves[2]), 0)>>)
  BY DEF Pay
<1>7. /\ session' = PiecesAfter(leaves[1], sent) \o PiecesOf(leaves[2])
      /\ vault' = [vault EXCEPT ![m] = @ + amount + fee]
      /\ UNCHANGED <<foreign, ownerKey, now, wire>>
  BY DEF Pay
<1>s. sent \in 0 .. Total(leaves[1])
  <2>1. leaves[1].owner = owner
    BY DEF Paid, Leaf
  <2>2. Total(leaves[1]) = Pieces
    BY <2>1, PoolAssumption DEF Total
  <2> QED
    BY <2>2, PoolAssumption
<1> HIDE DEF fee, leaves, at
<1> DEFINE memos == <<NewMemo(m, writer, funder, after, amount, at, Total(leaves[1]), sent),
                      NewMemo(m, writer, funder, 0, fee, at + 1, Total(leaves[2]), 0)>>
<1>8. /\ memos[1] \in MemoAccount(leaves[1]) /\ Prefix(memos[1], Total(leaves[1]))
      /\ memos[1].mint = m /\ memos[1].index = at
  <2>1. memos[1] = NewMemo(m, writer, funder, after, amount, at, Total(leaves[1]), sent)
    OBVIOUS
  <2>2. /\ leaves[1] \in Leaves /\ writer \in {"wallet", "browser"}
        /\ funder \in Wallets \cup {Treasury}
        /\ after \in Nat /\ amount \in Nat /\ at \in Nat
        /\ sent \in 0 .. Total(leaves[1])
    BY <1>1, <1>2, <1>4, <1>5, <1>6, <1>s
  <2> HIDE DEF memos
  <2> QED
    BY <2>1, <2>2, NewMemoGood
<1>9. /\ memos[2] \in MemoAccount(leaves[2]) /\ Prefix(memos[2], Total(leaves[2]))
      /\ memos[2].mint = m /\ memos[2].index = at + 1
  <2>1. memos[2] = NewMemo(m, writer, funder, 0, fee, at + 1, Total(leaves[2]), 0)
    OBVIOUS
  <2>2. /\ leaves[2] \in Leaves /\ writer \in {"wallet", "browser"}
        /\ funder \in Wallets \cup {Treasury}
        /\ 0 \in Nat /\ fee \in Nat /\ at + 1 \in Nat
        /\ 0 \in 0 .. Total(leaves[2])
    BY <1>1, <1>4, <1>5, <1>6, TotalNat
  <2> HIDE DEF memos
  <2> QED
    BY <2>1, <2>2, NewMemoGood
<1>10. FileLeaves(m, leaves, memos)
  BY <1>6
<1> HIDE DEF memos
<1>11. ASSUME NEW k \in DOMAIN leaves
       PROVE  /\ memos[k] \in MemoAccount(leaves[k]) /\ Prefix(memos[k], Total(leaves[k]))
              /\ memos[k].mint = m /\ memos[k].index = Len(tree[m]) + k - 1
  <2>1. k = 1 \/ k = 2
    BY <1>4
  <2>2. at + 1 - 1 = at /\ at + 2 - 1 = at + 1
    BY <1>5
  <2> QED
    BY <1>8, <1>9, <2>1, <2>2 DEF at
<1>12. /\ TreesGood' /\ MemosGood' /\ PrefixesGood' /\ ListGood'
       /\ \A l \in DOMAIN memo : l \in DOMAIN memo'
       /\ leaves[1] \in DOMAIN memo' /\ leaves[2] \in DOMAIN memo'
  BY <1>4, <1>10, <1>11, Filing
<1>13. PiecesGood'
  <2>1. PiecesAfter(leaves[1], sent) \in Seq(Piece') /\ PiecesOf(leaves[2]) \in Seq(Piece')
    BY <1>4, <1>12, <1>s, PiecesFiled
  <2>2. session' \in Seq(Piece')
    BY <1>7, <2>1
  <2>3. wire' \subseteq Piece'
    BY <1>7, <1>12, PieceStays DEF IInv, PiecesGood
  <2> QED
    BY <2>2, <2>3 DEF PiecesGood
<1>14. RestGood'
  BY <1>1, <1>7 DEF IInv, RestGood
<1> QED
  BY <1>12, <1>13, <1>14 DEF IInv

(* A note in a tree, with the account it was filed with.                     *)
LEMMA NoteGood ==
  ASSUME IInv, NEW m \in DOMAIN tree, NEW i \in DOMAIN tree[m]
  PROVE  /\ m \in Mints /\ tree[m][i] \in Leaves /\ tree[m][i] \in DOMAIN memo
         /\ tree[m][i].amount \in Nat /\ tree[m][i].owner \in Wallets \cup {Treasury}
         /\ memo[tree[m][i]].amount \in Nat
<1>1. tree[m] \in Seq(Leaves) /\ i \in 1 .. Len(tree[m]) /\ m \in Mints
  BY DEF IInv, TreesGood
<1>2. tree[m][i] \in Leaves /\ tree[m][i] \in DOMAIN memo
  BY <1>1 DEF IInv, ListGood
<1>3. memo[tree[m][i]] \in MemoAccount(tree[m][i])
  BY <1>2 DEF IInv, MemosGood
<1>4. memo[tree[m][i]].amount \in Nat
  BY <1>3 DEF MemoAccount
<1>5. tree[m][i].amount \in Nat /\ tree[m][i].owner \in Wallets \cup {Treasury}
  BY <1>2 DEF Leaves
<1> QED
  BY <1>1, <1>2, <1>4, <1>5

(* A forward files payment, change and fee, each with an account.            *)
LEMMA TransferGood ==
  ASSUME IInv, NEW m \in DOMAIN tree, NEW i \in DOMAIN tree[m], NEW owner \in Wallets,
         NEW amount \in 0 .. tree[m][i].amount, NEW fee \in 0 .. tree[m][i].amount,
         TransferNote(m, i, owner, amount, fee)
  PROVE  IInv'
<1> DEFINE note == tree[m][i]
           leaves == Forwarded(note, owner, amount, fee)
           at == Len(tree[m])
<1>1. /\ m \in Mints /\ note \in Leaves
      /\ note.amount \in Nat /\ note.owner \in Wallets \cup {Treasury}
  BY NoteGood
<1>2. amount \in Nat /\ fee \in Nat /\ note.amount >= amount + fee
  <2>1. amount \in Nat /\ fee \in Nat
    BY <1>1
  <2> QED
    BY <2>1 DEF TransferNote, ForwardProved
<1>3. note.amount - amount - fee \in Nat
  <2> HIDE DEF note
  <2> QED
    BY <1>1, <1>2
<1>4. Fresh(0) \in Nat /\ Fresh(1) \in Nat /\ Fresh(2) \in Nat /\ NoRefund \in Tags
  BY FreshNat DEF IInv, Tags
<1>5. /\ leaves[1] \in Leaves /\ leaves[2] \in Leaves /\ leaves[3] \in Leaves
      /\ leaves \in Seq(Leaves) /\ DOMAIN leaves = 1 .. 3
  <2>1. Leaf(owner, Fresh(0), amount, NoRefund) \in Leaves
    BY <1>2, <1>4, LeafGood
  <2>2. Leaf(note.owner, Fresh(1), note.amount - amount - fee, NoRefund) \in Leaves
    BY <1>1, <1>3, <1>4, LeafGood
  <2>3. Leaf(Treasury, Fresh(2), fee, NoRefund) \in Leaves
    BY <1>2, <1>4, LeafGood
  <2>4. leaves = <<Leaf(owner, Fresh(0), amount, NoRefund),
                   Leaf(note.owner, Fresh(1), note.amount - amount - fee, NoRefund),
                   Leaf(Treasury, Fresh(2), fee, NoRefund)>>
    BY DEF Forwarded
  <2> HIDE DEF leaves
  <2> QED
    BY <2>1, <2>2, <2>3, <2>4
<1>6. at \in Nat
  BY DEF IInv, TreesGood
<1> DEFINE memos == [k \in 1 .. 3 |->
                       NewMemo(m, "wallet", note.owner, 0, 0, at + k - 1,
                               Total(leaves[k]), 0)]
<1>7. /\ FileLeaves(m, leaves, memos)
      /\ session' = PiecesOf(leaves[1]) \o PiecesOf(leaves[2]) \o PiecesOf(leaves[3])
      /\ UNCHANGED <<vault, foreign, ownerKey, now, wire>>
  BY DEF TransferNote
<1> HIDE DEF note, leaves, at
<1>8. ASSUME NEW k \in DOMAIN leaves
      PROVE  /\ memos[k] \in MemoAccount(leaves[k]) /\ Prefix(memos[k], Total(leaves[k]))
             /\ memos[k].mint = m /\ memos[k].index = Len(tree[m]) + k - 1
  <2>1. memos[k] = NewMemo(m, "wallet", note.owner, 0, 0, at + k - 1,
                           Total(leaves[k]), 0)
    BY <1>5
  <2>2. /\ leaves[k] \in Leaves /\ 0 \in Nat /\ at + k - 1 \in Nat
        /\ at + k - 1 = Len(tree[m]) + k - 1 /\ 0 \in 0 .. Total(leaves[k])
    BY <1>5, <1>6, TotalNat DEF at
  <2> HIDE DEF memos
  <2> QED
    BY <1>1, <2>1, <2>2, NewMemoGood
<1> HIDE DEF memos
<1>9. /\ TreesGood' /\ MemosGood' /\ PrefixesGood' /\ ListGood'
      /\ \A l \in DOMAIN memo : l \in DOMAIN memo'
      /\ leaves[1] \in DOMAIN memo' /\ leaves[2] \in DOMAIN memo'
      /\ leaves[3] \in DOMAIN memo'
  <2>1. /\ TreesGood' /\ MemosGood' /\ PrefixesGood' /\ ListGood'
        /\ \A l \in DOMAIN memo : l \in DOMAIN memo'
        /\ \A k \in DOMAIN leaves : leaves[k] \in DOMAIN memo'
    BY <1>1, <1>5, <1>7, <1>8, Filing
  <2> QED
    BY <1>5, <2>1
<1>10. PiecesGood'
  <2>1. /\ PiecesOf(leaves[1]) \in Seq(Piece') /\ PiecesOf(leaves[2]) \in Seq(Piece')
        /\ PiecesOf(leaves[3]) \in Seq(Piece')
    BY <1>5, <1>9, PiecesFiled
  <2>2. session' \in Seq(Piece')
    BY <1>7, <2>1
  <2>3. wire' \subseteq Piece'
    BY <1>7, <1>9, PieceStays DEF IInv, PiecesGood
  <2> QED
    BY <2>2, <2>3 DEF PiecesGood
<1>11. RestGood'
  BY <1>7 DEF IInv, RestGood
<1> QED
  BY <1>9, <1>10, <1>11 DEF IInv

(* A piece is written where the last one ended, into one account.            *)
LEMMA AppendGood ==
  ASSUME IInv, NEW p \in wire, AppendMemo(p[1], p[2])
  PROVE  IInv'
<1> DEFINE leaf == p[1]
           offset == p[2]
           total == Total(leaf)
           account == memo[leaf]
<1>1. leaf \in DOMAIN memo /\ ~account.finalized /\ offset = account.written
  BY DEF AppendMemo, AppendAllowed
<1>2. account \in MemoAccount(leaf) /\ Prefix(account, total)
  BY <1>1 DEF IInv, MemosGood, PrefixesGood
<1>3. total \in Nat /\ offset \in 0 .. total - 1
  BY <1>1, <1>2, TotalNat DEF MemoAccount, Prefix
<1>4. memo' = [memo EXCEPT ![leaf] =
                 [@ EXCEPT !.data[offset] = "piece", !.written = offset + 1,
                           !.finalized = (offset + 1 = total)]]
  BY DEF AppendMemo
<1>5. wire' \subseteq wire /\ UNCHANGED <<tree, vault, foreign, ownerKey, now, session>>
  BY DEF AppendMemo
<1> HIDE DEF leaf, offset, total
<1> DEFINE new == [account EXCEPT !.data[offset] = "piece", !.written = offset + 1,
                                  !.finalized = (offset + 1 = total)]
<1>6. /\ DOMAIN memo' = DOMAIN memo /\ memo'[leaf] = new
      /\ \A l \in DOMAIN memo : l /= leaf => memo'[l] = memo[l]
      /\ memo' = [l \in DOMAIN memo' |-> memo'[l]]
  BY <1>1, <1>4 DEF IInv, MemosGood
<1>7. /\ new.data = [account.data EXCEPT ![offset] = "piece"]
      /\ new.written = offset + 1 /\ new.finalized = (offset + 1 = total)
      /\ new.mint = account.mint /\ new.index = account.index
      /\ new \in MemoAccount(leaf)
  <2>1. account.data \in [0 .. total - 1 -> {"zero", "piece"}]
    BY <1>2 DEF MemoAccount, total
  <2>2. [account.data EXCEPT ![offset] = "piece"] \in [0 .. total - 1 -> {"zero", "piece"}]
    BY <2>1
  <2>3. offset + 1 \in 0 .. total
    BY <1>3
  <2>4. (offset + 1 = total) \in BOOLEAN
    OBVIOUS
  <2>5. /\ new.data = [account.data EXCEPT ![offset] = "piece"]
        /\ new.written = offset + 1 /\ new.finalized = (offset + 1 = total)
        /\ new.mint = account.mint /\ new.index = account.index
    BY <1>2 DEF MemoAccount
  <2>6. new \in MemoAccount(leaf)
    BY <1>2, <2>2, <2>3, <2>4 DEF MemoAccount, total
  <2> QED
    BY <2>5, <2>6
<1> HIDE DEF new
<1>8. Prefix(new, total)
  <2>1. new.finalized <=> new.written = total
    BY <1>7
  <2>2. ASSUME NEW i \in 0 .. new.written - 1 PROVE new.data[i] = "piece"
    <3>1. account.data \in [0 .. total - 1 -> {"zero", "piece"}]
      BY <1>2 DEF MemoAccount, total
    <3>2. i = offset \/ i \in 0 .. account.written - 1
      BY <1>1, <1>3, <1>7, <2>2
    <3> QED
      BY <1>2, <1>3, <1>7, <3>1, <3>2 DEF Prefix
  <2> QED
    BY <2>1, <2>2 DEF Prefix
<1>9. MemosGood'
  <2>1. ASSUME NEW l \in DOMAIN memo' PROVE memo'[l] \in MemoAccount(l)
    BY <1>6, <1>7 DEF IInv, MemosGood
  <2> QED
    BY <1>6, <2>1 DEF IInv, MemosGood, MemoAccount
<1>10. PrefixesGood'
  BY <1>6, <1>8 DEF IInv, PrefixesGood, total
<1>11. ListGood'
  <2>1. \A l \in DOMAIN memo : memo'[l].mint = memo[l].mint /\ memo'[l].index = memo[l].index
    BY <1>6, <1>7
  <2> QED
    BY <1>5, <1>6, <2>1 DEF IInv, ListGood
<1>12. PiecesGood' /\ TreesGood' /\ RestGood'
  BY <1>5, <1>6 DEF IInv, PiecesGood, Piece, TreesGood, RestGood
<1> QED
  BY <1>9, <1>10, <1>11, <1>12 DEF IInv

(* A payment out of a vault leaves the vaults typed.                         *)
LEMMA PaidOut ==
  ASSUME RestGood, NEW m, NEW from \in Mints, NEW amount \in Nat,
         PayFromVault(from, amount), CountForeign(m, from, amount),
         UNCHANGED <<ownerKey, now>>
  PROVE  RestGood'
<1>1. vault[from] \in Nat /\ vault[from] >= amount /\ foreign[from] \in Nat
      /\ vault' = [vault EXCEPT ![from] = vault[from] - amount]
      /\ (foreign' = foreign \/ foreign' = [foreign EXCEPT ![from] = foreign[from] + amount])
  BY DEF RestGood, PayFromVault, CountForeign
<1>2. vault[from] - amount \in Nat /\ foreign[from] + amount \in Nat
  BY <1>1
<1> QED
  BY <1>1, <1>2 DEF RestGood
-----------------------------------------------------------------------------
LEMMA InitGood == Init => IInv
<1> SUFFICES ASSUME Init PROVE IInv
  OBVIOUS
<1>1. DOMAIN tree = {} /\ DOMAIN memo = {} /\ session = <<>> /\ wire = {}
  BY DEF Init
<1>2. TreesGood
  BY <1>1 DEF Init, TreesGood
<1>3. MemosGood
  BY <1>1, FS_EmptySet DEF Init, MemosGood
<1>4. PrefixesGood /\ PiecesGood /\ ListGood
  BY <1>1 DEF PrefixesGood, PiecesGood, ListGood
<1>5. RestGood
  BY PoolAssumption DEF Init, RestGood
<1> QED
  BY <1>2, <1>3, <1>4, <1>5 DEF IInv

LEMMA StepGood == IInv /\ [Next]_vars => IInv'
<1> SUFFICES ASSUME IInv, [Next]_vars PROVE IInv'
  OBVIOUS
<1>a. ASSUME UNCHANGED <<tree, memo>>, PiecesGood', RestGood' PROVE IInv'
  BY <1>a DEF IInv, TreesGood, MemosGood, MemoAccount, PrefixesGood, ListGood
<1>b. ASSUME UNCHANGED <<memo, session, wire>> PROVE PiecesGood'
  BY <1>b DEF IInv, PiecesGood, Piece
<1>1. ASSUME NEW m \in Mints, InitPool(m) PROVE IInv'
  <2>1. /\ m \notin DOMAIN tree /\ DOMAIN tree' = DOMAIN tree \cup {m}
        /\ tree'[m] = <<>> /\ \A k \in DOMAIN tree : tree'[k] = tree[k]
        /\ tree' = [k \in DOMAIN tree \cup {m} |-> IF k = m THEN <<>> ELSE tree[k]]
        /\ UNCHANGED <<vault, foreign, memo, ownerKey, now, session, wire>>
    BY <1>1 DEF InitPool, Open
  <2>2. tree' \in [DOMAIN tree' -> Seq(Leaves)]
    BY <2>1 DEF IInv, TreesGood
  <2>3. ASSUME NEW k \in DOMAIN tree' PROVE Len(tree'[k]) <= Capacity
    BY <2>1, PoolAssumption DEF IInv, TreesGood
  <2>4. TreesGood'
    BY <2>1, <2>2, <2>3 DEF IInv, TreesGood
  <2>5. ListGood'
    BY <2>1 DEF IInv, ListGood
  <2>6. MemosGood' /\ PrefixesGood' /\ PiecesGood' /\ RestGood'
    BY <1>b, <2>1 DEF IInv, MemosGood, MemoAccount, PrefixesGood, RestGood
  <2> QED
    BY <2>4, <2>5, <2>6 DEF IInv
<1>2. ASSUME NEW w \in Wallets, PublishOwnerKey(w) PROVE IInv'
  <2>1. RestGood'
    BY <1>2 DEF PublishOwnerKey, IInv, RestGood
  <2> QED
    BY <1>2, <1>a, <1>b, <2>1 DEF PublishOwnerKey
<1>3. ASSUME NEW m \in Mints, NEW funder \in Wallets, NEW owner \in Wallets,
             NEW amount \in Amounts,
             NEW after \in {0} \cup (now + MinWindow) .. (now + MaxWindow),
             NEW rho \in {0, Fresh(0)}, NEW sent \in 0 .. 1,
             Pay(m, funder, owner, amount, after, rho, sent)
      PROVE  IInv'
  BY <1>3, PayGood
<1>4. CASE SendPiece
  <2>1. PICK i \in DOMAIN session : wire' = wire \cup {session[i]}
    BY <1>4 DEF SendPiece
  <2>2. session[i] \in Piece
    BY <2>1 DEF IInv, PiecesGood
  <2>3. PiecesGood' /\ RestGood'
    BY <1>4, <2>1, <2>2 DEF SendPiece, IInv, PiecesGood, Piece, RestGood
  <2> QED
    BY <1>4, <1>a, <2>3 DEF SendPiece
<1>5. CASE Confirm
  <2>1. PICK i \in DOMAIN session : session' = RemoveAt(session, i)
    BY <1>5 DEF Confirm
  <2>2. session' \in Seq(Piece)
    BY <2>1, RemoveAtSeq DEF IInv, PiecesGood
  <2>3. PiecesGood' /\ RestGood'
    BY <1>5, <2>2 DEF Confirm, IInv, PiecesGood, Piece, RestGood
  <2> QED
    BY <1>5, <1>a, <2>3 DEF Confirm
<1>6. CASE GiveUp
  <2>1. PiecesGood' /\ RestGood'
    BY <1>6 DEF GiveUp, IInv, PiecesGood, Piece, RestGood
  <2> QED
    BY <1>6, <1>a, <2>1 DEF GiveUp
<1>7. CASE Tick
  <2>1. RestGood'
    BY <1>7, PoolAssumption DEF Tick, IInv, RestGood
  <2> QED
    BY <1>7, <1>a, <1>b, <2>1 DEF Tick
<1>8. ASSUME NEW p \in wire, AppendMemo(p[1], p[2]) PROVE IInv'
  BY <1>8, AppendGood
<1>9. ASSUME NEW p \in wire, Drop(p[1], p[2]) PROVE IInv'
  <2>1. PiecesGood' /\ RestGood'
    BY <1>9 DEF Drop, IInv, PiecesGood, Piece, RestGood
  <2> QED
    BY <1>9, <1>a, <2>1 DEF Drop
<1>10. ASSUME NEW m \in DOMAIN tree, NEW i \in DOMAIN tree[m], NEW from \in Mints,
              Refund(m, from, i)
       PROVE  IInv'
  <2>1. RestGood'
    BY <1>10, NoteGood, PaidOut DEF Refund, IInv
  <2> QED
    BY <1>10, <1>a, <1>b, <2>1 DEF Refund
<1>11. ASSUME NEW m \in DOMAIN tree, NEW i \in DOMAIN tree[m], Withdraw(m, i)
       PROVE  IInv'
  <2>1. RestGood'
    <3>1. CountForeign(m, m, tree[m][i].amount)
      BY <1>11 DEF Withdraw, CountForeign
    <3> QED
      BY <1>11, <3>1, NoteGood, PaidOut DEF Withdraw, IInv
  <2> QED
    BY <1>11, <1>a, <1>b, <2>1 DEF Withdraw
<1>12. ASSUME NEW m \in DOMAIN tree, NEW i \in DOMAIN tree[m], NEW owner \in Wallets,
              NEW amount \in 0 .. tree[m][i].amount,
              NEW fee \in 0 .. tree[m][i].amount, TransferNote(m, i, owner, amount, fee)
       PROVE  IInv'
  BY <1>12, TransferGood
<1>13. CASE UNCHANGED vars
  <2>1. RestGood'
    BY <1>13 DEF vars, IInv, RestGood
  <2> QED
    BY <1>13, <1>a, <1>b, <2>1 DEF vars
<1> QED
  BY <1>1, <1>2, <1>3, <1>4, <1>5, <1>6, <1>7, <1>8, <1>9, <1>10, <1>11, <1>12, <1>13
  DEF Next

(* The inductive invariant of the pool.                                      *)
THEOREM Invariance == Spec => []IInv
BY InitGood, StepGood, PTL DEF Spec

(* Trees, accounts, vaults and pieces on the way are typed.                  *)
THEOREM TypeCorrect == Spec => []TypeOK
<1>1. IInv => TypeOK
  <2> SUFFICES ASSUME IInv PROVE TypeOK
    OBVIOUS
  <2>1. ASSUME NEW l \in DOMAIN memo
        PROVE  /\ l.owner \in Wallets \cup {Treasury} /\ l.rho \in Nat
               /\ l.amount \in Nat /\ l.tag \in Tags
               /\ memo[l].written \in 0 .. Total(l)
    <3>1. l \in Leaves /\ memo[l] \in MemoAccount(l)
      BY DEF IInv, MemosGood
    <3> QED
      BY <3>1 DEF Leaves, MemoAccount
  <2>2. ASSUME NEW p \in wire \cup Range(session)
        PROVE  p[1] \in DOMAIN memo /\ p[2] \in 0 .. Total(p[1]) - 1
    <3>1. p \in Piece
      BY DEF IInv, PiecesGood, Range
    <3>2. Total(p[1]) \in Nat
      BY TotalNat
    <3> QED
      BY <3>1, <3>2 DEF Piece
  <2> QED
    BY <2>1, <2>2 DEF IInv, TreesGood, RestGood, TypeOK
<1> QED
  BY <1>1, Invariance, PTL

(* The memo accounts of a mint are its list of leaves, without a gap.        *)
THEOREM ListCorrect == Spec => []LeafListComplete
<1>1. IInv => LeafListComplete
  <2> SUFFICES ASSUME IInv PROVE LeafListComplete
    OBVIOUS
  <2>1. ASSUME NEW p \in Positions
        PROVE  /\ LeafAt(p) \in DOMAIN memo
               /\ memo[LeafAt(p)].mint = p[1] /\ memo[LeafAt(p)].index = p[2] - 1
    <3>1. p[1] \in DOMAIN tree /\ p[2] \in 1 .. Len(tree[p[1]])
      BY DEF Positions, IInv, TreesGood
    <3> QED
      BY <3>1 DEF LeafAt, IInv, ListGood
  <2>2. ASSUME NEW l \in DOMAIN memo
        PROVE  /\ <<memo[l].mint, memo[l].index + 1>> \in Positions
               /\ LeafAt(<<memo[l].mint, memo[l].index + 1>>) = l
    <3> DEFINE m == memo[l].mint
               i == memo[l].index + 1
    <3>1. m \in DOMAIN tree /\ i \in 1 .. Len(tree[m]) /\ tree[m][i] = l
      BY DEF IInv, ListGood
    <3> HIDE DEF m, i
    <3>2. Len(tree[m]) \in Nat /\ Len(tree[m]) <= Capacity
      BY <3>1 DEF IInv, TreesGood
    <3>3. i \in 1 .. Capacity /\ i <= Len(tree[m])
      BY <3>1, <3>2, PoolAssumption
    <3>4. <<m, i>> \in Positions /\ LeafAt(<<m, i>>) = l
      BY <3>1, <3>3 DEF Positions, LeafAt
    <3> QED
      BY <3>4 DEF m, i
  <2> QED
    BY <2>1, <2>2 DEF LeafListComplete
<1> QED
  BY <1>1, Invariance, PTL

(* A finished envelope has every piece, in whatever order they came.         *)
THEOREM EnvelopeCorrect == Spec => []EnvelopeWhole
<1>1. IInv => EnvelopeWhole
  <2> SUFFICES ASSUME IInv, NEW l \in DOMAIN memo, memo[l].finalized
               PROVE  Range(memo[l].data) \subseteq {"piece"}
    BY DEF EnvelopeWhole
  <2>1. Prefix(memo[l], Total(l)) /\ memo[l].data \in [0 .. Total(l) - 1 -> {"zero", "piece"}]
    BY DEF IInv, PrefixesGood, MemosGood, MemoAccount
  <2>2. \A i \in DOMAIN memo[l].data : memo[l].data[i] = "piece"
    BY <2>1 DEF Prefix
  <2> QED
    BY <2>2 DEF Range
<1> QED
  BY <1>1, Invariance, PTL
-----------------------------------------------------------------------------
(* The vault of a mint holds the notes of the mint.                         *)

NotesOf(k) == SumOver(NoteWorth, UnspentOf(k))
Backed(k) == vault[k] + foreign[k] >= NotesOf(k)

LEMMA BackedSums == MintBacked <=> \A k \in Mints : Backed(k)
BY DEF MintBacked, Backed, Worth, NotesOf, SumOver, MapThenSumSet, MapThenFoldSet

(* A position is one of a tree's leaves.                                    *)
PositionsListed ==
  \A m, i :
    /\ <<m, i>> \in Positions <=> m \in DOMAIN tree /\ i \in 1 .. Len(tree[m])
    /\ <<m, i>> \in Positions => NoteWorth[<<m, i>>] = tree[m][i].amount
    /\ \A k : <<m, i>> \in UnspentOf(k) <=>
         /\ <<m, i>> \in Positions /\ m = k
         /\ Nullifier(tree[m][i].rho, i - 1) \notin nullifiers

LEMMA PositionsAlways == IInv => PositionsListed
<1> SUFFICES ASSUME IInv, NEW m, NEW i
    PROVE  /\ <<m, i>> \in Positions <=> m \in DOMAIN tree /\ i \in 1 .. Len(tree[m])
           /\ <<m, i>> \in Positions => NoteWorth[<<m, i>>] = tree[m][i].amount
           /\ \A k : <<m, i>> \in UnspentOf(k) <=>
                /\ <<m, i>> \in Positions /\ m = k
                /\ Nullifier(tree[m][i].rho, i - 1) \notin nullifiers
  BY DEF PositionsListed
<1>1. \A k \in DOMAIN tree : Len(tree[k]) \in Nat /\ Len(tree[k]) <= Capacity
  BY DEF IInv, TreesGood
<1>2. <<m, i>> \in Positions <=> m \in DOMAIN tree /\ i \in 1 .. Len(tree[m])
  BY <1>1, PoolAssumption DEF Positions
<1>3. <<m, i>>[1] = m /\ <<m, i>>[2] = i
  OBVIOUS
<1> QED
  BY <1>2, <1>3 DEF NoteWorth, LeafAt, UnspentOf

LEMMA PositionsNext == IInv' => PositionsListed'
BY PositionsAlways, PTL

(* The notes are finitely many, and each is worth a number.                 *)
WorthTyped ==
  /\ IsFiniteSet(Positions)
  /\ \A p \in Positions : p = <<p[1], p[2]>> /\ NoteWorth[p] \in Nat
  /\ \A k \in Mints : vault[k] \in Nat /\ foreign[k] \in Nat
  /\ \A k : UnspentOf(k) \subseteq Positions /\ IsFiniteSet(UnspentOf(k))
              /\ NotesOf(k) \in Nat

LEMMA WorthTypes == IInv => WorthTyped
<1> SUFFICES ASSUME IInv PROVE WorthTyped
  OBVIOUS
<1>1. IsFiniteSet(Positions)
  <2>1. IsFiniteSet(DOMAIN tree)
    BY PoolAssumption, FS_Subset DEF IInv, TreesGood
  <2>2. IsFiniteSet(1 .. Capacity)
    BY PoolAssumption, FS_Interval
  <2>3. IsFiniteSet((DOMAIN tree) \X (1 .. Capacity))
    BY <2>1, <2>2, FS_Product
  <2> QED
    BY <2>3, FS_Subset DEF Positions
<1>2. ASSUME NEW p \in Positions PROVE p = <<p[1], p[2]>> /\ NoteWorth[p] \in Nat
  <2>1. p = <<p[1], p[2]>>
    BY DEF Positions
  <2>2. p[1] \in DOMAIN tree /\ p[2] \in DOMAIN tree[p[1]]
    BY DEF Positions, IInv, TreesGood
  <2>3. tree[p[1]][p[2]].amount \in Nat
    BY <2>2, NoteGood
  <2> QED
    BY <2>1, <2>3 DEF NoteWorth, LeafAt
<1>3. ASSUME NEW k
      PROVE  UnspentOf(k) \subseteq Positions /\ IsFiniteSet(UnspentOf(k))
               /\ NotesOf(k) \in Nat
  <2>1. UnspentOf(k) \subseteq Positions
    BY DEF UnspentOf
  <2>2. IsFiniteSet(UnspentOf(k))
    BY <1>1, <2>1, FS_Subset
  <2>3. \A p \in UnspentOf(k) : NoteWorth[p] \in Nat
    BY <1>2, <2>1
  <2>4. NotesOf(k) \in Nat
    BY <2>2, <2>3, SumNat DEF NotesOf
  <2> QED
    BY <2>1, <2>2, <2>4
<1>4. \A k \in Mints : vault[k] \in Nat /\ foreign[k] \in Nat
  BY DEF IInv, RestGood
<1> QED
  BY <1>1, <1>2, <1>3, <1>4 DEF WorthTyped

(* The same of the next state.                                              *)
LEMMA WorthTypesNext == IInv' => WorthTyped'
BY WorthTypes, PTL

(* The notes of a mint that the next state has not spent.                   *)
Left(k) ==
  {p \in Positions : p[1] = k /\ Nullifier(LeafAt(p).rho, p[2] - 1) \notin nullifiers'}

(* Nullifiers stay, and a note whose nullifier is new takes its worth away; *)
(* a twin in another pool that shares the nullifier goes with it.           *)
LEMMA LeftWorth ==
  ASSUME IInv, nullifiers \subseteq nullifiers', NEW k
  PROVE  /\ Left(k) \subseteq UnspentOf(k) /\ IsFiniteSet(Left(k))
         /\ SumOver(NoteWorth, Left(k)) \in Nat
         /\ SumOver(NoteWorth, Left(k)) <= NotesOf(k)
         /\ \A i : <<k, i>> \in UnspentOf(k)
                     /\ Nullifier(tree[k][i].rho, i - 1) \in nullifiers'
              => SumOver(NoteWorth, Left(k)) <= NotesOf(k) - tree[k][i].amount
<1> DEFINE f == NoteWorth
           S == UnspentOf(k)
           L == Left(k)
<1>1. L \subseteq S
  BY DEF Left, UnspentOf
<1>2. IsFiniteSet(S) /\ \A p \in S : f[p] \in Nat
  BY WorthTypes DEF WorthTyped
<1>3. IsFiniteSet(L)
  BY <1>1, <1>2, FS_Subset
<1> HIDE DEF f, S, L
<1>4. SumOver(f, L) \in Nat /\ SumOver(f, L) <= SumOver(f, S)
  BY <1>1, <1>2, <1>3, SumNat, SumPart
<1>5. ASSUME NEW i, <<k, i>> \in S, Nullifier(tree[k][i].rho, i - 1) \in nullifiers'
      PROVE  SumOver(f, L) <= SumOver(f, S) - tree[k][i].amount
  <2> DEFINE p == <<k, i>>
             R == S \ {p}
  <2>1. f[p] = tree[k][i].amount
    BY <1>5, PositionsAlways DEF f, S, PositionsListed
  <2>2. LeafAt(p) = tree[k][i] /\ p[2] = i
    BY DEF LeafAt
  <2>3. p \notin L
    BY <1>5, <2>2 DEF L, Left
  <2>4. p \in S
    BY <1>5
  <2> HIDE DEF p
  <2>5. L \subseteq R /\ R \subseteq S
    BY <1>1, <2>3
  <2>6. IsFiniteSet(R) /\ \A q \in R : f[q] \in Nat
    BY <1>2, <2>5, FS_Subset
  <2>7. SumOver(f, R) = SumOver(f, S) - f[p]
    <3>1. \A q \in S : f[q] \in Int
      BY <1>2
    <3> QED
      BY ONLY <1>2, <2>4, <3>1, SumRemove
  <2> HIDE DEF R
  <2>8. SumOver(f, L) <= SumOver(f, R)
    BY ONLY <2>5, <2>6, SumPart
  <2> QED
    BY <2>1, <2>7, <2>8
<1> QED
  BY <1>1, <1>3, <1>4, <1>5 DEF f, S, L, NotesOf

(* A step that leaves a tree alone leaves its notes that it does not spend. *)
LEMMA SameTree ==
  ASSUME IInv, IInv', nullifiers \subseteq nullifiers', NEW k,
         k \in DOMAIN tree' <=> k \in DOMAIN tree,
         k \in DOMAIN tree => tree'[k] = tree[k]
  PROVE  NotesOf(k)' = SumOver(NoteWorth, Left(k))
<1> DEFINE f == NoteWorth
           g == NoteWorth'
           L == Left(k)
           N == UnspentOf(k)'
<1>1. PositionsListed /\ PositionsListed' /\ WorthTyped /\ WorthTyped'
  BY PositionsAlways, PositionsNext, WorthTypes, WorthTypesNext
<1>2. ASSUME NEW i PROVE /\ <<k, i>> \in L <=> <<k, i>> \in N
                         /\ <<k, i>> \in L => f[<<k, i>>] = g[<<k, i>>]
  <2>1. LeafAt(<<k, i>>) = tree[k][i] /\ <<k, i>>[1] = k /\ <<k, i>>[2] = i
    BY DEF LeafAt
  <2>2. <<k, i>> \in L <=> /\ k \in DOMAIN tree /\ i \in 1 .. Len(tree[k])
                           /\ Nullifier(tree[k][i].rho, i - 1) \notin nullifiers'
    BY <1>1, <2>1 DEF Left, PositionsListed
  <2>3. <<k, i>> \in N <=> /\ k \in DOMAIN tree' /\ i \in 1 .. Len(tree'[k])
                           /\ Nullifier(tree'[k][i].rho, i - 1) \notin nullifiers'
    BY <1>1 DEF PositionsListed
  <2>4. <<k, i>> \in L => f[<<k, i>>] = tree[k][i].amount
    BY <1>1, <2>2 DEF PositionsListed
  <2>5. <<k, i>> \in N => g[<<k, i>>] = tree'[k][i].amount
    BY <1>1, <2>3 DEF PositionsListed
  <2> QED
    BY <2>2, <2>3, <2>4, <2>5
<1>3. \A p \in L : p = <<k, p[2]>>
  BY <1>1 DEF Left, WorthTyped
<1>4. \A p \in N : p = <<k, p[2]>>
  BY <1>1 DEF UnspentOf, WorthTyped
<1>5. IsFiniteSet(L)
  BY LeftWorth
<1>6. NotesOf(k)' = SumOver(g, N)
  BY DEF NotesOf
<1> HIDE DEF f, g, L, N
<1>7. L = N /\ \A p \in L : f[p] = g[p]
  BY <1>2, <1>3, <1>4
<1>8. SumOver(f, L) = SumOver(g, L)
  BY ONLY <1>5, <1>7, SumSame
<1> QED
  BY <1>6, <1>7, <1>8 DEF f, L

(* Notes filed behind a tree add no more than they are worth: they may be   *)
(* born spent, when a client repeats randomness at a position where it was  *)
(* used in another pool.                                                    *)
LEMMA NotesFiled ==
  ASSUME IInv, IInv', NEW m \in Mints, NEW leaves \in Seq(Leaves), NEW memos,
         FileLeaves(m, leaves, memos), Len(leaves) \in {2, 3},
         nullifiers \subseteq nullifiers'
  PROVE  /\ Len(leaves) = 2 =>
              NotesOf(m)' <= SumOver(NoteWorth, Left(m))
                             + leaves[1].amount + leaves[2].amount
         /\ Len(leaves) = 3 =>
              NotesOf(m)' <= SumOver(NoteWorth, Left(m))
                             + leaves[1].amount + leaves[2].amount + leaves[3].amount
         /\ \A k \in Mints \ {m} : NotesOf(k)' = SumOver(NoteWorth, Left(k))
<1> DEFINE old == tree[m]
           n == Len(old)
           f == NoteWorth
           g == NoteWorth'
           S == Left(m)
           x == <<m, n + 1>>
           y == <<m, n + 2>>
           z == <<m, n + 3>>
           N == UnspentOf(m)'
<1>1. /\ m \in DOMAIN tree /\ tree' = [tree EXCEPT ![m] = old \o leaves]
  BY DEF FileLeaves, RoomFor, Open
<1>2. old \in Seq(Leaves) /\ n \in Nat
  BY <1>1 DEF IInv, TreesGood
<1>3. /\ DOMAIN tree' = DOMAIN tree /\ tree'[m] = old \o leaves
      /\ \A k \in DOMAIN tree \ {m} : tree'[k] = tree[k]
  BY <1>1
<1>4. /\ Len(tree'[m]) = n + Len(leaves)
      /\ \A i \in 1 .. n : tree'[m][i] = old[i]
      /\ \A j \in 1 .. Len(leaves) : tree'[m][n + j] = leaves[j]
  BY <1>2, <1>3
<1>5. PositionsListed /\ PositionsListed' /\ WorthTyped /\ WorthTyped'
  BY PositionsAlways, PositionsNext, WorthTypes, WorthTypesNext
<1>o. \A k \in Mints \ {m} : NotesOf(k)' = SumOver(NoteWorth, Left(k))
  BY <1>3, SameTree
<1>6. ASSUME NEW i, <<m, i>> \in Positions
      PROVE  /\ <<m, i>> \in Positions' /\ g[<<m, i>>] = f[<<m, i>>]
             /\ tree'[m][i] = tree[m][i] /\ <<m, i>> \notin {x, y, z}
  <2>1. i \in 1 .. n /\ i \in 1 .. n + Len(leaves)
    BY <1>2, <1>5, <1>6 DEF PositionsListed
  <2>2. tree'[m][i] = tree[m][i]
    BY <1>4, <2>1
  <2>3. <<m, i>> \in Positions'
    BY <1>1, <1>3, <1>4, <1>5, <2>1 DEF PositionsListed
  <2>4. <<m, i>> \notin {x, y, z}
    BY <1>2, <2>1
  <2> QED
    BY <1>5, <1>6, <2>2, <2>3, <2>4 DEF PositionsListed
<1>7. \A p \in S : p \in Positions' /\ g[p] = f[p] /\ p \notin {x, y, z}
  <2> SUFFICES ASSUME NEW p \in S
               PROVE  p \in Positions' /\ g[p] = f[p] /\ p \notin {x, y, z}
    OBVIOUS
  <2>1. p \in Positions /\ p = <<m, p[2]>>
    BY <1>5 DEF Left, WorthTyped
  <2> QED
    BY <1>6, <2>1
<1>8. ASSUME NEW j \in 1 .. Len(leaves)
      PROVE  <<m, n + j>> \in Positions' /\ g[<<m, n + j>>] = leaves[j].amount
  <2>1. n + j \in 1 .. n + Len(leaves)
    BY <1>2
  <2>2. <<m, n + j>> \in Positions'
    BY <1>1, <1>3, <1>4, <1>5, <2>1 DEF PositionsListed
  <2> QED
    BY <1>4, <1>5, <2>2 DEF PositionsListed
<1>9. ASSUME NEW p \in N
      PROVE  p \in S \/ p = x \/ p = y \/ (Len(leaves) = 3 /\ p = z)
  <2>1. p = <<m, p[2]>>
    BY <1>5 DEF WorthTyped, UnspentOf
  <2> DEFINE i == p[2]
  <2> HIDE DEF i
  <2>2. p = <<m, i>>
    BY <2>1 DEF i
  <2>3. i \in 1 .. Len(tree'[m]) /\ Nullifier(tree'[m][i].rho, i - 1) \notin nullifiers'
    BY <1>5, <2>2 DEF PositionsListed
  <2>4. CASE <<m, i>> \in Positions
    <3>1. Nullifier(tree[m][i].rho, i - 1) \notin nullifiers'
      BY <1>6, <2>3, <2>4
    <3>2. LeafAt(<<m, i>>) = tree[m][i] /\ <<m, i>>[1] = m /\ <<m, i>>[2] = i
      BY DEF LeafAt
    <3> QED
      BY <2>2, <2>4, <3>1, <3>2 DEF Left
  <2>5. CASE <<m, i>> \notin Positions
    <3>1. i \in 1 .. n + Len(leaves) /\ i \notin 1 .. n
      BY <1>1, <1>4, <1>5, <2>3, <2>5 DEF PositionsListed
    <3>2. i = n + 1 \/ i = n + 2 \/ (Len(leaves) = 3 /\ i = n + 3)
      <4> DEFINE c == Len(leaves)
      <4>1. n \in Nat /\ (c = 2 \/ c = 3) /\ i \in 1 .. n + c /\ i \notin 1 .. n
        BY <1>2, <3>1
      <4> HIDE DEF n, c
      <4>2. i = n + 1 \/ i = n + 2 \/ (c = 3 /\ i = n + 3)
        BY ONLY <4>1
      <4> QED
        BY <4>2 DEF c
    <3> QED
      BY <2>2, <3>2
  <2> QED
    BY <2>4, <2>5
<1>10. /\ IsFiniteSet(S) /\ x # y /\ x # z /\ y # z
       /\ SumOver(f, S) \in Nat
  BY <1>2, LeftWorth
<1>11. x \in Positions' /\ y \in Positions' /\ (Len(leaves) = 3 => z \in Positions')
       /\ g[x] = leaves[1].amount /\ g[y] = leaves[2].amount
       /\ (Len(leaves) = 3 => g[z] = leaves[3].amount)
  BY <1>8
<1>12. \A p \in Positions' : g[p] \in Nat
  BY <1>5 DEF WorthTyped
<1>13. NotesOf(m)' = SumOver(g, N)
  BY DEF NotesOf
<1> DEFINE two == S \cup {x, y}
           three == S \cup {x, y, z}
<1>14. /\ \A u : u \in two <=> u \in S \/ u = x \/ u = y
       /\ \A u : u \in three <=> u \in S \/ u = x \/ u = y \/ u = z
  OBVIOUS
<1>15. IsFiniteSet(two) /\ IsFiniteSet(three)
  <2>1. IsFiniteSet(S \cup {x})
    BY <1>10, FS_AddElement
  <2>2. two = (S \cup {x}) \cup {y} /\ three = two \cup {z}
    OBVIOUS
  <2> HIDE DEF S, x, y, z, two, three
  <2> QED
    BY <2>1, <2>2, FS_AddElement
<1> HIDE DEF f, g, S, x, y, z, n, N, two, three
<1>16. CASE Len(leaves) = 2
  <2>1. N \subseteq two /\ \A p \in two : g[p] \in Nat /\ g[p] \in Int
    BY <1>7, <1>9, <1>11, <1>12, <1>14, <1>16
  <2>2. SumOver(g, N) <= SumOver(g, two)
    BY ONLY <1>15, <2>1, SumPart
  <2>3. SumOver(g, two) = SumOver(f, S) + g[x] + g[y]
    <3>1. x \notin S /\ y \notin S /\ \A p \in S : g[p] = f[p]
      BY <1>7
    <3> QED
      BY ONLY <1>10, <1>14, <2>1, <3>1, SumGrowTwo, SMTT(30)
  <2> QED
    BY <1>11, <1>13, <1>16, <1>o, <2>2, <2>3 DEF f, S
<1>17. CASE Len(leaves) = 3
  <2>1. N \subseteq three /\ \A p \in three : g[p] \in Nat /\ g[p] \in Int
    BY <1>7, <1>9, <1>11, <1>12, <1>14, <1>17
  <2>2. SumOver(g, N) <= SumOver(g, three)
    BY ONLY <1>15, <2>1, SumPart
  <2>3. SumOver(g, three) = SumOver(f, S) + g[x] + g[y] + g[z]
    <3>1. x \notin S /\ y \notin S /\ z \notin S /\ \A p \in S : g[p] = f[p]
      BY <1>7
    <3> QED
      BY ONLY <1>10, <1>14, <2>1, <3>1, SumGrowThree, SMTT(60)
  <2> QED
    BY <1>11, <1>13, <1>17, <1>o, <2>2, <2>3 DEF f, S
<1> QED
  BY <1>16, <1>17

(* A note that leaves the pool takes its worth out of a vault: its own, or  *)
(* another that counts it as paid for a foreign note.                       *)
LEMMA NotePaid ==
  ASSUME IInv, IInv', MintBacked, NEW m \in DOMAIN tree, NEW i \in DOMAIN tree[m],
         NEW from \in Mints, PayFromVault(from, tree[m][i].amount),
         CountForeign(m, from, tree[m][i].amount),
         MarkSpent(Nullifier(tree[m][i].rho, i - 1)), UNCHANGED tree
  PROVE  \A k \in Mints : Backed(k)'
<1> SUFFICES ASSUME NEW k \in Mints
             PROVE  vault'[k] + foreign'[k] >= NotesOf(k)'
  BY DEF Backed
<1> DEFINE a == tree[m][i].amount
<1>1. a \in Nat
  BY NoteGood
<1>2. /\ vault[k] + foreign[k] >= NotesOf(k)
      /\ vault[k] \in Nat /\ foreign[k] \in Nat /\ NotesOf(k) \in Nat
  BY BackedSums, WorthTypes DEF WorthTyped, Backed
<1>3. nullifiers \subseteq nullifiers' /\ Nullifier(tree[m][i].rho, i - 1) \in nullifiers'
      /\ Nullifier(tree[m][i].rho, i - 1) \notin nullifiers
  BY DEF MarkSpent
<1>4. <<m, i>> \in UnspentOf(m)
  <2>1. i \in 1 .. Len(tree[m])
    BY DEF IInv, TreesGood
  <2> QED
    BY <1>3, <2>1, PositionsAlways DEF PositionsListed
<1>5. /\ NotesOf(k)' = SumOver(NoteWorth, Left(k))
      /\ SumOver(NoteWorth, Left(k)) \in Nat
      /\ SumOver(NoteWorth, Left(k)) <= NotesOf(k)
  BY <1>3, SameTree, LeftWorth
<1>6. k = m => SumOver(NoteWorth, Left(k)) <= NotesOf(k) - a
  BY <1>3, <1>4, LeftWorth
<1>7. /\ vault'[k] = IF k = from THEN vault[k] - a ELSE vault[k]
      /\ foreign'[k] = IF k = from /\ from # m THEN foreign[k] + a ELSE foreign[k]
  BY DEF PayFromVault, CountForeign, IInv, RestGood
<1> HIDE DEF a
<1>8. CASE k = m
  BY ONLY <1>1, <1>2, <1>5, <1>6, <1>7, <1>8
<1>9. CASE k # m
  BY ONLY <1>1, <1>2, <1>5, <1>7, <1>9
<1> QED
  BY <1>8, <1>9

(* Every step keeps the notes backed.                                       *)
LEMMA BackedStep ==
  ASSUME IInv, IInv', MintBacked, [Next]_vars
  PROVE  \A k \in Mints : Backed(k)'
<1>a. \A k \in Mints : /\ vault[k] + foreign[k] >= NotesOf(k)
                       /\ vault[k] \in Nat /\ foreign[k] \in Nat /\ NotesOf(k) \in Nat
  BY BackedSums, WorthTypes DEF WorthTyped, Backed
<1>b. ASSUME UNCHANGED <<tree, vault, foreign, nullifiers>>
      PROVE  \A k \in Mints : Backed(k)'
  <2>1. ASSUME NEW k \in Mints PROVE NotesOf(k)' = NotesOf(k)
    BY <1>b DEF NotesOf, NoteWorth, UnspentOf, Positions, LeafAt
  <2> QED
    BY <1>a, <1>b, <2>1 DEF Backed
<1>1. ASSUME NEW m \in Mints, InitPool(m), NEW k \in Mints PROVE Backed(k)'
  <2>1. /\ m \notin DOMAIN tree /\ DOMAIN tree' = DOMAIN tree \cup {m}
        /\ tree'[m] = <<>> /\ \A j \in DOMAIN tree : tree'[j] = tree[j]
        /\ UNCHANGED <<vault, foreign, nullifiers>>
    BY <1>1 DEF InitPool, Open
  <2>2. CASE k = m
    <3>1. PositionsListed' /\ WorthTyped'
      BY PositionsNext, WorthTypesNext
    <3>2. \A i : i \notin 1 .. Len(tree'[m])
      BY <2>1
    <3>3. \A i : <<m, i>> \notin Positions'
      BY <3>1, <3>2 DEF PositionsListed
    <3>4. \A p \in UnspentOf(m)' : p \in Positions' /\ p = <<m, p[2]>>
      BY <3>1 DEF UnspentOf, WorthTyped
    <3>5. UnspentOf(m)' = {}
      BY <3>3, <3>4
    <3>6. NotesOf(m)' = 0
      BY <3>5, SumEmpty DEF NotesOf
    <3> QED
      BY <1>a, <2>1, <2>2, <3>6 DEF Backed
  <2>3. CASE k # m
    <3>1. NotesOf(k)' = SumOver(NoteWorth, Left(k))
      BY <2>1, <2>3, SameTree
    <3>2. SumOver(NoteWorth, Left(k)) \in Nat /\ SumOver(NoteWorth, Left(k)) <= NotesOf(k)
      BY <2>1, LeftWorth
    <3> QED
      BY <1>a, <2>1, <3>1, <3>2 DEF Backed
  <2> QED
    BY <2>2, <2>3
<1>2. ASSUME NEW m \in Mints, NEW funder \in Wallets, NEW owner \in Wallets,
             NEW amount \in Amounts,
             NEW after \in {0} \cup (now + MinWindow) .. (now + MaxWindow),
             NEW rho \in {0, Fresh(0)}, NEW sent \in 0 .. 1,
             Pay(m, funder, owner, amount, after, rho, sent), NEW k \in Mints
      PROVE  Backed(k)'
  <2> DEFINE fee == FeeFor(amount)
             leaves == Paid(funder, owner, amount, after, rho)
  <2>1. amount \in Nat /\ fee \in Nat
    BY PoolAssumption, FeeNat
  <2>2. leaves \in Seq(Leaves) /\ Len(leaves) = 2
        /\ leaves[1].amount = amount /\ leaves[2].amount = fee
    <3>1. RefundTag(funder, after) \in Tags /\ NoRefund \in Tags
      BY TagGood DEF IInv, Tags
    <3>2. rho \in Nat /\ Fresh(1) \in Nat
      BY FreshNat DEF IInv
    <3>3. /\ Leaf(owner, rho, amount, RefundTag(funder, after)) \in Leaves
          /\ Leaf(Treasury, Fresh(1), fee, NoRefund) \in Leaves
      BY <2>1, <3>1, <3>2, LeafGood
    <3>4. leaves = <<Leaf(owner, rho, amount, RefundTag(funder, after)),
                     Leaf(Treasury, Fresh(1), fee, NoRefund)>>
      BY DEF Paid
    <3> QED
      BY <3>3, <3>4 DEF Leaf
  <2>3. PICK memos : FileLeaves(m, leaves, memos)
    BY <1>2 DEF Pay
  <2>4. nullifiers' = nullifiers /\ vault' = [vault EXCEPT ![m] = @ + amount + fee]
        /\ foreign' = foreign
    BY <1>2 DEF Pay
  <2>5. SumOver(NoteWorth, Left(k)) \in Nat /\ SumOver(NoteWorth, Left(k)) <= NotesOf(k)
    BY <2>4, LeftWorth
  <2>6. NotesOf(k)' \in Nat
    BY WorthTypesNext DEF WorthTyped
  <2>7. CASE k = m
    <3>1. NotesOf(k)' <= SumOver(NoteWorth, Left(k)) + amount + fee
      <4> HIDE DEF leaves
      <4>1. NotesOf(m)' <= SumOver(NoteWorth, Left(m))
                             + leaves[1].amount + leaves[2].amount
        BY <2>2, <2>3, <2>4, NotesFiled
      <4> QED
        BY <2>2, <2>7, <4>1
    <3>2. vault'[k] = vault[k] + amount + fee /\ foreign'[k] = foreign[k]
      BY <2>4, <2>7 DEF IInv, RestGood
    <3>3. vault[k] + foreign[k] >= NotesOf(k) /\ vault[k] \in Nat /\ foreign[k] \in Nat
          /\ NotesOf(k) \in Nat
      BY <1>a
    <3> HIDE DEF fee, leaves
    <3>4. vault'[k] + foreign'[k] >= NotesOf(k)'
      BY ONLY <2>1, <2>5, <2>6, <3>1, <3>2, <3>3
    <3> QED
      BY <3>4 DEF Backed
  <2>8. CASE k # m
    <3>1. NotesOf(k)' = SumOver(NoteWorth, Left(k))
      <4> HIDE DEF leaves
      <4> QED
        BY <2>2, <2>3, <2>4, <2>8, NotesFiled
    <3>2. vault'[k] = vault[k] /\ foreign'[k] = foreign[k]
      BY <2>4, <2>8 DEF IInv, RestGood
    <3> QED
      BY <1>a, <2>5, <3>1, <3>2 DEF Backed
  <2> QED
    BY <2>7, <2>8
<1>3. ASSUME NEW m \in DOMAIN tree, NEW i \in DOMAIN tree[m], NEW owner \in Wallets,
             NEW amount \in 0 .. tree[m][i].amount, NEW fee \in 0 .. tree[m][i].amount,
             TransferNote(m, i, owner, amount, fee), NEW k \in Mints
      PROVE  Backed(k)'
  <2> DEFINE note == tree[m][i]
             a == note.amount
             leaves == Forwarded(note, owner, amount, fee)
             memos == [j \in 1 .. 3 |-> NewMemo(m, "wallet", note.owner, 0, 0,
                                          Len(tree[m]) + j - 1, Total(leaves[j]), 0)]
  <2>1. m \in Mints /\ a \in Nat /\ note.owner \in Wallets \cup {Treasury}
    BY NoteGood
  <2>2. amount \in Nat /\ fee \in Nat /\ a >= amount + fee
    <3>1. amount \in Nat /\ fee \in Nat
      BY <2>1
    <3> QED
      BY <1>3, <3>1 DEF TransferNote, ForwardProved
  <2>3. a - amount - fee \in Nat
    <3> HIDE DEF a
    <3> QED
      BY <2>1, <2>2
  <2>4. leaves \in Seq(Leaves) /\ Len(leaves) = 3 /\ leaves[1].amount = amount
        /\ leaves[2].amount = a - amount - fee /\ leaves[3].amount = fee
    <3>1. NoRefund \in Tags /\ Fresh(0) \in Nat /\ Fresh(1) \in Nat /\ Fresh(2) \in Nat
      BY FreshNat DEF IInv, Tags
    <3>2. /\ Leaf(owner, Fresh(0), amount, NoRefund) \in Leaves
          /\ Leaf(note.owner, Fresh(1), note.amount - amount - fee, NoRefund) \in Leaves
          /\ Leaf(Treasury, Fresh(2), fee, NoRefund) \in Leaves
      BY <2>1, <2>2, <2>3, <3>1, LeafGood
    <3>3. leaves = <<Leaf(owner, Fresh(0), amount, NoRefund),
                     Leaf(note.owner, Fresh(1), note.amount - amount - fee, NoRefund),
                     Leaf(Treasury, Fresh(2), fee, NoRefund)>>
      BY DEF Forwarded
    <3> QED
      BY <3>2, <3>3 DEF Leaf
  <2>5. FileLeaves(m, leaves, memos) /\ vault' = vault /\ foreign' = foreign
        /\ MarkSpent(Nullifier(note.rho, i - 1))
    BY <1>3 DEF TransferNote
  <2>6. nullifiers \subseteq nullifiers' /\ Nullifier(note.rho, i - 1) \in nullifiers'
        /\ Nullifier(note.rho, i - 1) \notin nullifiers
    BY <2>5 DEF MarkSpent
  <2>7. <<m, i>> \in UnspentOf(m)
    <3>1. i \in 1 .. Len(tree[m])
      BY DEF IInv, TreesGood
    <3> QED
      BY <2>6, <3>1, PositionsAlways DEF PositionsListed
  <2>8. SumOver(NoteWorth, Left(k)) \in Nat /\ SumOver(NoteWorth, Left(k)) <= NotesOf(k)
        /\ NotesOf(k)' \in Nat
    BY <2>6, LeftWorth, WorthTypesNext DEF WorthTyped
  <2>9. CASE k = m
    <3>1. SumOver(NoteWorth, Left(k)) <= NotesOf(k) - a
      BY <2>6, <2>7, <2>9, LeftWorth
    <3>2. NotesOf(k)' <= SumOver(NoteWorth, Left(k)) + amount + (a - amount - fee) + fee
      <4> HIDE DEF leaves, memos, a
      <4>1. NotesOf(m)' <= SumOver(NoteWorth, Left(m)) + leaves[1].amount
                             + leaves[2].amount + leaves[3].amount
        BY <2>1, <2>4, <2>5, <2>6, NotesFiled
      <4> QED
        BY <2>4, <2>9, <4>1
    <3>3. vault[k] + foreign[k] >= NotesOf(k) /\ vault[k] \in Nat /\ foreign[k] \in Nat
          /\ NotesOf(k) \in Nat /\ vault'[k] = vault[k] /\ foreign'[k] = foreign[k]
      BY <1>a, <2>5
    <3> HIDE DEF note, leaves, memos, a
    <3>4. vault'[k] + foreign'[k] >= NotesOf(k)'
      BY ONLY <2>1, <2>2, <2>8, <3>1, <3>2, <3>3
    <3> QED
      BY <3>4 DEF Backed
  <2>10. CASE k # m
    <3>1. NotesOf(k)' = SumOver(NoteWorth, Left(k))
      <4> HIDE DEF leaves, memos
      <4> QED
        BY <2>1, <2>4, <2>5, <2>6, <2>10, NotesFiled
    <3> QED
      BY <1>a, <2>5, <2>8, <3>1 DEF Backed
  <2> QED
    BY <2>9, <2>10
<1>4. ASSUME NEW m \in DOMAIN tree, NEW i \in DOMAIN tree[m], NEW from \in Mints,
             Refund(m, from, i)
      PROVE  \A k \in Mints : Backed(k)'
  <2> DEFINE leaf == tree[m][i]
             rec == memo[leaf]
  <2>1. rec.amount = leaf.amount
    BY <1>4 DEF Refund, Leaf
  <2>2. rec.index = i - 1
    <3>1. i \in 1 .. Len(tree[m])
      BY DEF IInv, TreesGood
    <3> QED
      BY <3>1 DEF IInv, ListGood
  <2>3. /\ MarkSpent(Nullifier(leaf.rho, rec.index))
        /\ PayFromVault(from, rec.amount) /\ CountForeign(m, from, rec.amount)
        /\ UNCHANGED tree
    BY <1>4 DEF Refund
  <2> QED
    BY <2>1, <2>2, <2>3, NotePaid
<1>5. ASSUME NEW m \in DOMAIN tree, NEW i \in DOMAIN tree[m], Withdraw(m, i)
      PROVE  \A k \in Mints : Backed(k)'
  <2>1. m \in Mints
    BY NoteGood
  <2>2. CountForeign(m, m, tree[m][i].amount)
    BY <1>5 DEF Withdraw, CountForeign
  <2> QED
    BY <1>5, <2>1, <2>2, NotePaid DEF Withdraw
<1>6. ASSUME NEW w \in Wallets, PublishOwnerKey(w) PROVE \A k \in Mints : Backed(k)'
  BY <1>6, <1>b DEF PublishOwnerKey
<1>7. CASE SendPiece \/ Confirm \/ GiveUp \/ Tick \/ UNCHANGED vars
  BY <1>7, <1>b DEF SendPiece, Confirm, GiveUp, Tick, vars
<1>8. ASSUME NEW p \in wire, AppendMemo(p[1], p[2]) \/ Drop(p[1], p[2])
      PROVE  \A k \in Mints : Backed(k)'
  BY <1>8, <1>b DEF AppendMemo, Drop
<1> QED
  BY <1>1, <1>2, <1>3, <1>4, <1>5, <1>6, <1>7, <1>8 DEF Next

LEMMA BackedNext == IInv /\ IInv' /\ MintBacked /\ [Next]_vars => MintBacked'
<1>1. MintBacked' <=> \A k \in Mints : Backed(k)'
  BY DEF MintBacked, Backed, Worth, NotesOf, SumOver, MapThenSumSet, MapThenFoldSet
<1> QED
  BY <1>1, BackedStep

(* The vault of a mint holds what the unspent notes of the mint are worth,  *)
(* but for what it paid for notes of other mints: no note is paid out       *)
(* twice, by its owner, by a forward and by its funder, and none for more   *)
(* than was paid in.                                                        *)
THEOREM MintBacking == Spec => []MintBacked
<1>1. ASSUME Init PROVE MintBacked
  <2>1. WorthTyped
    BY <1>1, InitGood, WorthTypes
  <2>2. \A k : UnspentOf(k) = {}
    BY <1>1 DEF Init, UnspentOf, Positions
  <2>3. \A k : NotesOf(k) = 0
    BY <2>2, SumEmpty DEF NotesOf
  <2>4. \A k \in Mints : Backed(k)
    BY <2>1, <2>3 DEF WorthTyped, Backed
  <2> QED
    BY <2>4, BackedSums
<1> QED
  BY <1>1, BackedNext, Invariance, PTL DEF Spec
=============================================================================
