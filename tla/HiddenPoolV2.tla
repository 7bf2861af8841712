---------------------------- MODULE HiddenPoolV2 ----------------------------
(***************************************************************************)
(* contracts/src/Tidex6HiddenPoolV2.sol, the EVM shielded pool of note     *)
(* format v2, together with the two circuits whose proofs it accepts       *)
(* (crates/tidex6-confidential/src/{transfer_v2,withdraw_v2}.rs).          *)
(*                                                                         *)
(* A call of the contract is one transaction, hence one action.  A call    *)
(* that reverts changes nothing and is the absence of a step.              *)
(*                                                                         *)
(* Poseidon is taken to be collision free: a leaf IS the record it hashes, *)
(* a nullifier IS the pair it hashes, and a Merkle root IS the number of   *)
(* leaves under it (plus one: zero is the value of an unset ring slot),    *)
(* because the leaves of a position never change.  That the incremental    *)
(* tree computes such roots is the subject of MerkleReplica.              *)
(***************************************************************************)
EXTENDS Integers, FiniteSetsExt

CONSTANTS
  Accounts,            \* addresses that fund, receive and relay
  Owners,              \* owner keys of notes
  Treasury,            \* treasuryOwnerPk
  Rhos,                \* randomness a note can be made with
  NoFunder,            \* the funder of a leaf whose refund tag is zero
  Capacity,            \* leaves the tree can hold, 2^TREE_DEPTH (2^20)
  RootRingSize,        \* ROOT_RING_SIZE (30)
  MaxAmount,           \* MAX_AMOUNT (2^64 - 1)
  MinRefundWindow,     \* MIN_REFUND_WINDOW (five minutes)
  MaxRefundWindow,     \* MAX_REFUND_WINDOW (thirty days)
  FeePercentDivisor,   \* FEE_PERCENT_DIVISOR (100)
  FeeFloor,            \* feeFloor, the smallest fee in note units
  UnitScale,           \* unitScale, token base units per note unit
  InitialBalance,      \* tokens each account starts with
  DepositAmounts,      \* bound: the amounts deposits are made with
  SentAmounts,         \* bound: the amounts a transfer makes notes of
  MaxTime              \* bound: the clock stops here

ASSUME PoolAssumption ==
  /\ Treasury \in Owners
  /\ NoFunder \notin Accounts
  /\ Capacity \in Nat
  /\ RootRingSize \in Nat \ {0}
  /\ MaxAmount \in Nat
  /\ MinRefundWindow \in Nat \ {0}
  /\ MaxRefundWindow \in Nat
  /\ FeePercentDivisor \in Nat \ {0}
  /\ FeeFloor \in Nat
  /\ UnitScale \in Nat \ {0}
  /\ InitialBalance \in Nat
  /\ DepositAmounts \subseteq Nat /\ SentAmounts \subseteq 0 .. MaxAmount
  /\ MaxTime \in Nat

VARIABLES
  tree,             \* the leaf store: see EmptyTree
  nullifierSpent,   \* the nullifiers whose mapping entry is true
  tokens,           \* the ERC-20 balance of every account
  custody,          \* the ERC-20 balance of the pool
  now               \* block.timestamp

vars == <<tree, nullifierSpent, tokens, custody, now>>

-----------------------------------------------------------------------------
(* Leaves, nullifiers and the fee.                                         *)

Leaf == [owner : Owners, rho : Rhos, amount : 0 .. MaxAmount,
         funder : Accounts \cup {NoFunder}, refundAfter : Nat]

(* The leaf filed for a note; without a refund it does not name the sender. *)
LeafOf(owner, rho, amount, sender, refundAfter) ==
  [owner |-> owner, rho |-> rho, amount |-> amount,
   funder |-> IF refundAfter = 0 THEN NoFunder ELSE sender,
   refundAfter |-> refundAfter]

(* What the circuits derive for the leaf at `position`. *)
Nullifier(leaf, position) == <<leaf.rho, position>>

AmountAllowed(amount) == amount \in 1 .. MaxAmount

(* Mutant: the percentage is rounded down. *)
FeeForRoundedDown(amount) ==
  LET percent == amount \div FeePercentDivisor
  IN  IF percent > FeeFloor THEN percent ELSE FeeFloor

FeeFor(amount) ==
  LET percent == (amount + FeePercentDivisor - 1) \div FeePercentDivisor
  IN  IF percent > FeeFloor THEN percent ELSE FeeFloor

WindowAllowed(window) == window = 0 \/ window \in MinRefundWindow .. MaxRefundWindow

RefundAfter(window) == IF window = 0 THEN 0 ELSE now + window

-----------------------------------------------------------------------------
(* The tree: leaves by position, the ring of recent roots, and the         *)
(* position of every leaf that was ever filed.                             *)

RingSlots == 0 .. RootRingSize - 1

RootOf(count) == count + 1

EmptyTree ==
  [leaves          |-> [p \in {} |-> 0],
   nextLeafIndex   |-> 0,
   rootRingHead    |-> 0,
   rootHistory     |-> [i \in RingSlots |-> IF i = 0 THEN RootOf(0) ELSE 0],
   positionPlusOne |-> [leaf \in {} |-> 0]]

LeafPositionPlusOne(t, leaf) ==
  IF leaf \in DOMAIN t.positionPlusOne THEN t.positionPlusOne[leaf] ELSE 0

(* Mutant: the CommitmentAlreadyUsed check is dropped. *)
UnfiledUnchecked(t, leaf) == TRUE

(* A leaf that is already filed is refused. *)
Unfiled(t, leaf) == LeafPositionPlusOne(t, leaf) = 0

(* _markLeaf: `leaf` sits at `position`. *)
MarkLeaf(t, leaf, position) ==
  [leaves          |-> t.leaves,
   nextLeafIndex   |-> t.nextLeafIndex,
   rootRingHead    |-> t.rootRingHead,
   rootHistory     |-> t.rootHistory,
   positionPlusOne |-> [l \in DOMAIN t.positionPlusOne \cup {leaf} |->
                          IF l = leaf THEN position + 1 ELSE t.positionPlusOne[l]]]

(* Mutant: the head wraps one slot early. *)
NextHeadWrapsEarly(t) ==
  IF t.rootRingHead + 2 >= RootRingSize THEN 0 ELSE t.rootRingHead + 1

NextHead(t) == (t.rootRingHead + 1) % RootRingSize

(* _appendLeaf: the leaf goes in at `leafIndex`, the root over it enters the *)
(* ring behind the current one.                                              *)
AppendLeaf(t, leafIndex, leaf) ==
  [leaves          |-> [p \in DOMAIN t.leaves \cup {leafIndex} |->
                          IF p = leafIndex THEN leaf ELSE t.leaves[p]],
   nextLeafIndex   |-> leafIndex + 1,
   rootRingHead    |-> NextHead(t),
   rootHistory     |-> [t.rootHistory EXCEPT ![NextHead(t)] = RootOf(leafIndex + 1)],
   positionPlusOne |-> t.positionPlusOne]

FileNote(t, leaf, position) == AppendLeaf(MarkLeaf(t, leaf, position), position, leaf)

(* Mutant: the last position is reserved one past the tree. *)
RoomForOneTooMany(count) == tree.nextLeafIndex + count <= Capacity + 1

(* _reserveLeaves: `count` positions are free. *)
RoomFor(count) == tree.nextLeafIndex + count <= Capacity

(* Mutant: the loop over the ring ends one slot early. *)
IsKnownRootShortLoop(root) ==
  root # 0 /\ \E i \in 0 .. RootRingSize - 2 : tree.rootHistory[i] = root

(* _isKnownRoot *)
IsKnownRoot(root) == root # 0 /\ \E i \in RingSlots : tree.rootHistory[i] = root

(* What a membership proof under `root` shows: the leaf sits at `position`. *)
Member(position, root) == position \in DOMAIN tree.leaves /\ position + 1 < root

-----------------------------------------------------------------------------
Init ==
  /\ tree = EmptyTree
  /\ nullifierSpent = {}
  /\ tokens = [a \in Accounts |-> InitialBalance]
  /\ custody = 0
  /\ now = 0

(* deposit: the sender funds a note of `amount` for `owner` and the fee on  *)
(* it for the treasury; the tokens are pulled last.                         *)
Deposit(sender, owner, rho, amount, window, feeRho) ==
  LET fee     == FeeFor(amount)
      charge  == (amount + fee) * UnitScale
      first   == tree.nextLeafIndex
      leaf    == LeafOf(owner, rho, amount, sender, RefundAfter(window))
      feeLeaf == LeafOf(Treasury, feeRho, fee, sender, 0)
      filed   == FileNote(tree, leaf, first)
  IN  /\ RoomFor(2)
      /\ WindowAllowed(window)
      /\ AmountAllowed(amount) /\ Unfiled(tree, leaf)
      /\ AmountAllowed(fee) /\ Unfiled(filed, feeLeaf)
      /\ tokens[sender] >= charge
      /\ tree' = FileNote(filed, feeLeaf, first + 1)
      /\ tokens' = [tokens EXCEPT ![sender] = @ - charge]
      /\ custody' = custody + charge
      /\ UNCHANGED <<nullifierSpent, now>>

(* Mutant: the fee comes on top of what the spent note was worth. *)
TransferStatementFeeOnTop(in, pay, change, fee) ==
  /\ pay + change = in.amount
  /\ fee * FeePercentDivisor >= pay
  /\ fee >= FeeFloor

(* Mutant: only the floor is checked, not the percentage. *)
TransferStatementFloorOnly(in, pay, change, fee) ==
  /\ pay + change + fee = in.amount
  /\ fee >= FeeFloor

(* What a transfer_v2 proof shows of the note it spends and the three it    *)
(* makes: value is kept, and the fee is 1% of the payment and the floor.    *)
TransferStatement(in, pay, change, fee) ==
  /\ pay + change + fee = in.amount
  /\ fee * FeePercentDivisor >= pay
  /\ fee >= FeeFloor

(* The roots a proof of the note at p may name now: those over it that the  *)
(* pool still knows, the older ones a delayed transaction names included.   *)
ProvableRoots(p) ==
  {root \in 0 .. RootOf(tree.nextLeafIndex) : Member(p, root) /\ IsKnownRoot(root)}

(* Mutant: the mapping is written but not read. *)
SpendUnchecked(nullifier) == nullifierSpent' = nullifierSpent \cup {nullifier}

(* The guard of all three spending paths: a nullifier is spent once. *)
Spend(nullifier) ==
  /\ nullifier \notin nullifierSpent
  /\ nullifierSpent' = nullifierSpent \cup {nullifier}

(* Mutant: the recorded position plus one is taken for the position. *)
RefundNullifierPlusOne(leaf) == Nullifier(leaf, LeafPositionPlusOne(tree, leaf))

(* The nullifier a refund derives, from the position recorded for the leaf. *)
RefundNullifier(leaf) == Nullifier(leaf, LeafPositionPlusOne(tree, leaf) - 1)

(* transferNote: the owner of the note at p pays `payee`, keeps the change  *)
(* and pays the treasury; all three leaves are marked before any goes in.   *)
TransferNote(p, payee, payRho, changeRho, feeRho, pay, change, fee) ==
  LET in         == tree.leaves[p]
      first      == tree.nextLeafIndex
      payLeaf    == LeafOf(payee, payRho, pay, NoFunder, 0)
      changeLeaf == LeafOf(in.owner, changeRho, change, NoFunder, 0)
      feeLeaf    == LeafOf(Treasury, feeRho, fee, NoFunder, 0)
      mark1      == MarkLeaf(tree, payLeaf, first)
      mark2      == MarkLeaf(mark1, changeLeaf, first + 1)
      mark3      == MarkLeaf(mark2, feeLeaf, first + 2)
      in1        == AppendLeaf(mark3, first, payLeaf)
      in2        == AppendLeaf(in1, first + 1, changeLeaf)
  IN  /\ TransferStatement(in, pay, change, fee)
      /\ Spend(Nullifier(in, p)) /\ ProvableRoots(p) # {}
      /\ RoomFor(3)
      /\ Unfiled(tree, payLeaf) /\ Unfiled(mark1, changeLeaf) /\ Unfiled(mark2, feeLeaf)
      /\ tree' = AppendLeaf(in2, first + 2, feeLeaf)
      /\ UNCHANGED <<tokens, custody, now>>

(* withdraw: the owner of the note at p sends all of it to `recipient`,     *)
(* less what the relayer who submits the proof keeps.                       *)
Withdraw(p, recipient, relayer, fee) ==
  LET note == tree.leaves[p]
      paid == [tokens EXCEPT ![recipient] = @ + (note.amount - fee) * UnitScale]
  IN  /\ Spend(Nullifier(note, p)) /\ ProvableRoots(p) # {}
      /\ fee <= note.amount
      /\ custody >= note.amount * UnitScale
      /\ tokens' = [paid EXCEPT ![relayer] = @ + fee * UnitScale]
      /\ custody' = custody - note.amount * UnitScale
      /\ UNCHANGED <<tree, now>>

(* refund: the sender names the parts of a note; the pool puts the sender   *)
(* in the funder's place, looks the leaf up and derives the nullifier from  *)
(* the position it recorded at deposit.                                     *)
Refund(sender, note) ==
  LET leaf == LeafOf(note.owner, note.rho, note.amount, sender, note.refundAfter)
  IN  /\ note.refundAfter # 0 /\ now >= note.refundAfter
      /\ AmountAllowed(note.amount)
      /\ ~ Unfiled(tree, leaf)
      /\ Spend(RefundNullifier(leaf))
      /\ custody >= note.amount * UnitScale
      /\ tokens' = [tokens EXCEPT ![sender] = @ + note.amount * UnitScale]
      /\ custody' = custody - note.amount * UnitScale
      /\ UNCHANGED <<tree, now>>

(* Blocks are produced. *)
Tick ==
  /\ now < MaxTime
  /\ now' = now + 1
  /\ UNCHANGED <<tree, nullifierSpent, tokens, custody>>

-----------------------------------------------------------------------------
DepositAny ==
  \E sender \in Accounts, owner \in Owners, rho, feeRho \in Rhos,
     amount \in DepositAmounts, window \in 0 .. MaxRefundWindow :
     Deposit(sender, owner, rho, amount, window, feeRho)

(* Only amounts somebody can prove are sent. *)
TransferAny ==
  \E p \in DOMAIN tree.leaves, pay, change, fee \in SentAmounts :
     /\ TransferStatement(tree.leaves[p], pay, change, fee)
     /\ \E payee \in Owners, payRho, changeRho, feeRho \in Rhos :
          TransferNote(p, payee, payRho, changeRho, feeRho, pay, change, fee)

WithdrawAny ==
  \E p \in DOMAIN tree.leaves, recipient, relayer \in Accounts, fee \in 0 .. MaxAmount :
     Withdraw(p, recipient, relayer, fee)

RefundAny ==
  \E sender \in Accounts, note \in DOMAIN tree.positionPlusOne : Refund(sender, note)

Next == DepositAny \/ TransferAny \/ WithdrawAny \/ RefundAny \/ Tick

Spec == Init /\ [][Next]_vars
-----------------------------------------------------------------------------
(* The state has the shape the contract's storage gives it, and the leaves  *)
(* filed are those of positions 0 .. nextLeafIndex - 1.                     *)
TypeOK ==
  /\ tree.nextLeafIndex \in 0 .. Capacity
  /\ tree.leaves \in [0 .. tree.nextLeafIndex - 1 -> Leaf]
  /\ tree.rootRingHead \in RingSlots
  /\ tree.rootHistory \in [RingSlots -> 0 .. RootOf(Capacity)]
  /\ DOMAIN tree.positionPlusOne \subseteq Leaf
  /\ tree.positionPlusOne \in [DOMAIN tree.positionPlusOne -> 1 .. Capacity]
  /\ nullifierSpent \subseteq Rhos \X (0 .. Capacity - 1)
  /\ tokens \in [Accounts -> Nat]
  /\ custody \in Nat
  /\ now \in 0 .. MaxTime

(* The notes nobody has spent. *)
UnspentNotes ==
  {p \in DOMAIN tree.leaves : Nullifier(tree.leaves[p], p) \notin nullifierSpent}

(* The ledger a pool keeps. *)
Ledger ==
  INSTANCE ShieldedLedger WITH
    Amounts <- 0 .. MaxAmount,
    Unit    <- UnitScale,
    count   <- tree.nextLeafIndex,
    value   <- [p \in DOMAIN tree.leaves |-> tree.leaves[p].amount],
    spent   <- DOMAIN tree.leaves \ UnspentNotes,
    custody <- custody

(* Every call of the contract is one step of the ledger or none: a note is  *)
(* consumed once, whichever of the three paths gets there first, a forward  *)
(* keeps its value, and tokens leave for exactly the note that pays.        *)
ImplementsLedger == Ledger!Spec

(* The tokens the pool holds are the worth of the notes nobody has spent,   *)
(* so that it can pay all of them ("A note cannot claim more than was paid  *)
(* into it").                                                               *)
Solvent == Ledger!Backed

(* Every nullifier in `spent` is that of a leaf, at that leaf's position. *)
Named(spent, leaves) ==
  \A nullifier \in spent : \E p \in DOMAIN leaves : nullifier = Nullifier(leaves[p], p)

(* A nullifier in the mapping is the nullifier of the leaf at the position  *)
(* it names, whether a circuit derived it (withdraw, transferNote) or the   *)
(* pool itself from leafPositionPlusOne (refund): otherwise one note could  *)
(* be spent down both paths.                                                *)
NullifiersNameNotes == Named(nullifierSpent, tree.leaves)

(* How many leaves ago the root in slot i was current, the head being h.    *)
Age(h, i) == IF i <= h THEN h - i ELSE h + RootRingSize - i

(* The ring of a tree of n leaves: the roots of its last states, by age.    *)
RecentRoots(ring, h, n) ==
  \A i \in RingSlots :
    ring[i] = IF Age(h, i) <= n THEN RootOf(n - Age(h, i)) ELSE 0

(* The ring holds the roots of the last RootRingSize states of the tree,    *)
(* no older one, and none twice: a proof stays good until that many leaves  *)
(* have been filed after its root was read.                                 *)
RingHoldsRecentRoots ==
  RecentRoots(tree.rootHistory, tree.rootRingHead, tree.nextLeafIndex)

(* `index` is the inverse of the list of leaves.                            *)
Inverts(index, leaves) ==
  /\ \A p \in DOMAIN leaves : leaves[p] \in DOMAIN index /\ index[leaves[p]] = p + 1
  /\ \A leaf \in DOMAIN index : \E p \in DOMAIN leaves : leaves[p] = leaf

(* leafPositionPlusOne is the inverse of the tree: a refund finds the       *)
(* position the circuits prove, for every leaf, and a leaf occurs once.     *)
IndexMatchesTree == Inverts(tree.positionPlusOne, tree.leaves)

(* A note is never stuck: its owner can prove it under a root the pool      *)
(* accepts now, and a note with a refund window can still be refunded, for  *)
(* the nullifier the pool would derive is as unspent as the note is.  A     *)
(* full tree changes nothing of this.                                       *)
NotesStayReachable ==
  \A p \in UnspentNotes :
    /\ ProvableRoots(p) # {}
    /\ tree.leaves[p].refundAfter # 0 => RefundNullifier(tree.leaves[p]) \notin nullifierSpent

(* The last leaf a step files is the treasury's and covers the first. *)
FeeCharged ==
  LET pay == tree'.leaves[tree.nextLeafIndex]
      fee == tree'.leaves[tree'.nextLeafIndex - 1]
  IN  /\ tree'.nextLeafIndex - tree.nextLeafIndex \in {2, 3}
      /\ fee.owner = Treasury
      /\ fee.refundAfter = 0
      /\ fee.amount >= FeeFor(pay.amount)
      /\ fee.amount * FeePercentDivisor >= pay.amount

(* No payment escapes the fee: a call that files leaves files last a note   *)
(* of the treasury, never refundable, worth what feeFor asks of the payment *)
(* filed first.  The contract rounds 1% up with a division, the circuit     *)
(* asks fee * 100 >= pay, and the two have to agree.                        *)
EveryPaymentPaysFee ==
  [][tree'.nextLeafIndex # tree.nextLeafIndex => FeeCharged]_vars
=============================================================================
