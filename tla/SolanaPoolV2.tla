---------------------------- MODULE SolanaPoolV2 ----------------------------
(***************************************************************************)
(* The Solana pool of notes (programs/tidex6-pool-v2) with the client that *)
(* pays into it (crates/tidex6-client/src/pool_v2.rs).  What the EVM pool   *)
(* keeps in logs this program keeps in accounts: one memo account per leaf *)
(* holds the sealed envelope, written piece by piece after the deposit, and *)
(* the memo accounts of a mint are also the list its clients rebuild the   *)
(* tree from.  One program serves a pool per mint; memo and nullifier      *)
(* accounts are shared by all its pools.                                   *)
(*                                                                         *)
(* A transaction is one atomic step.  A piece of an envelope is sent, may  *)
(* land later, in another order or never, and the client may stop between  *)
(* any two steps; the envelope lives only in its memory.  The ring of      *)
(* roots is left to MerkleReplica and HiddenPoolV2: a filed leaf can be     *)
(* proved against the current root.                                        *)
(***************************************************************************)
EXTENDS Integers, FiniteSets, SequencesExt, FiniteSetsExt, Functions

CONSTANTS
  Mints,      \* the tokens, one pool each
  Wallets,    \* who pays and who is paid
  Treasury,   \* the owner key every fee note is filed for
  Amounts,    \* amounts paid
  FeeFloor,   \* the smallest fee
  Capacity,   \* leaves a tree holds (2^TREE_DEPTH)
  MinWindow, MaxWindow, \* refund windows a depositor may choose
  MaxTime,    \* bound on the clock
  MaxNotes,   \* bound on the notes of all pools
  Pieces,     \* pieces an envelope is written in
  FeePieces   \* pieces the envelope of a treasury note is written in

ASSUME PoolAssumption ==
  /\ IsFiniteSet(Mints)
  /\ Amounts \subseteq Nat \ {0} /\ FeeFloor \in Nat /\ Capacity \in Nat
  /\ MinWindow \in Nat \ {0} /\ MaxWindow \in Nat /\ MaxTime \in Nat
  /\ MaxNotes \in Nat
  /\ Pieces \in Nat \ {0} /\ FeePieces \in Nat /\ Treasury \notin Wallets

VARIABLES
  tree,       \* the leaves of each opened pool, in order
  vault,      \* the tokens each pool's vault holds
  foreign,    \* tokens each vault paid for notes of other mints (history)
  memo,       \* the memo accounts, by leaf
  nullifiers, \* the nullifier accounts of the program
  ownerKey,   \* wallets that published an owner key
  now,        \* the cluster's clock
  session,    \* the pieces a paying client still has to write, in order
  wire        \* append_memo transactions sent and neither landed nor expired

vars == <<tree, vault, foreign, memo, nullifiers, ownerKey, now, session, wire>>
----------------------------------------------------------------------------
Open(m) == m \in DOMAIN tree
NoRefund == <<>>

\* refund_tag binds the funder and the time; it is empty for "no refund".
RefundTag(funder, after) == IF after = 0 THEN NoRefund ELSE <<funder, after>>

Leaf(owner, rho, amount, tag) ==
  [owner |-> owner, rho |-> rho, amount |-> amount, tag |-> tag]

\* The nullifier binds the note's randomness and its position, not its mint.
Nullifier(rho, index) == <<rho, index>>

FeeFor(amount) == Max({(amount + 99) \div 100, FeeFloor})

RoomFor(m, n) ==
  /\ Open(m)
  /\ Len(tree[m]) + n <= Capacity
  /\ Cardinality(DOMAIN memo) + n <= MaxNotes

WindowAllowed(after) ==
  after /= 0 => after \in (now + MinWindow)..(now + MaxWindow)

\* The length of a note's envelope, in pieces.
Total(leaf) == IF leaf.owner = Treasury THEN FeePieces ELSE Pieces

\* A memo account as deposit and transfer_note create it, with the pieces
\* that come in the same transaction.
NewMemo(m, writer, funder, after, amount, index, total, sent) ==
  [mint |-> m, writer |-> writer, depositor |-> funder, after |-> after,
   amount |-> amount, index |-> index,
   data |-> [i \in 0..total - 1 |-> IF i < sent THEN "piece" ELSE "zero"],
   written |-> sent, finalized |-> sent = total]

\* Creating an account that exists fails, so the leaves of a call are new to
\* the whole program and to each other.
NewAccounts(leaves) == IsInjective(leaves) /\ Range(leaves) \cap DOMAIN memo = {}

\* Leaves filed at the end of a tree, each with its memo account.
FileLeaves(m, leaves, memos) ==
  /\ RoomFor(m, Len(leaves)) /\ NewAccounts(leaves)
  /\ tree' = [tree EXCEPT ![m] = @ \o leaves]
  /\ memo' = [l \in DOMAIN memo \cup Range(leaves) |->
                IF l \in DOMAIN memo THEN memo[l]
                ELSE memos[CHOOSE i \in DOMAIN leaves : leaves[i] = l]]

(* Mutant: the nullifier account is created or reused. *)
MarkSpentAgain(nf) == nullifiers' = nullifiers \cup {nf}

\* The nullifier account is created by whoever spends the note first.
MarkSpent(nf) == nf \notin nullifiers /\ nullifiers' = nullifiers \cup {nf}

\* A transfer the vault cannot cover fails, and the transaction with it.
PayFromVault(m, amount) ==
  vault[m] >= amount /\ vault' = [vault EXCEPT ![m] = @ - amount]

CountForeign(m, from, amount) ==
  foreign' = IF from = m THEN foreign ELSE [foreign EXCEPT ![from] = @ + amount]

\* random_field: randomness no note has yet, by the number of notes.
Fresh(k) == Cardinality(DOMAIN memo) + k

(* Mutant: offsets are counted from one. *)
PiecesOfFromOne(leaf) == [i \in 1..Total(leaf) |-> <<leaf, i>>]

\* What a client files: for a payment the note and the fee note, for a
\* forward the payment, the change and the fee, with randomness of its own.
Paid(funder, owner, amount, after, rho) ==
  <<Leaf(owner, rho, amount, RefundTag(funder, after)),
    Leaf(Treasury, Fresh(1), FeeFor(amount), NoRefund)>>

Forwarded(note, owner, amount, fee) ==
  <<Leaf(owner, Fresh(0), amount, NoRefund),
    Leaf(note.owner, Fresh(1), note.amount - amount - fee, NoRefund),
    Leaf(Treasury, Fresh(2), fee, NoRefund)>>

\* The circuit of a forward: a percentage of the payment and the floor at
\* least, and nothing may come out of nothing.
ForwardProved(note, amount, fee) ==
  100 * fee >= amount /\ fee >= FeeFloor /\ note.amount >= amount + fee

\* What the client writes after a deposit or a forward, in its order.
PiecesOf(leaf) == [i \in 1..Total(leaf) |-> <<leaf, i - 1>>]

\* What is left to write of an envelope that went with the deposit in part.
PiecesAfter(leaf, sent) == SubSeq(PiecesOf(leaf), sent + 1, Total(leaf))
----------------------------------------------------------------------------
Init ==
  /\ tree = [m \in {} |-> <<>>]
  /\ vault = [m \in Mints |-> 0] /\ foreign = [m \in Mints |-> 0]
  /\ memo = [l \in {} |-> 0]
  /\ nullifiers = {} /\ ownerKey = {} /\ now = 0
  /\ session = <<>> /\ wire = {}

InitPool(m) ==
  /\ ~Open(m)
  /\ tree' = [k \in DOMAIN tree \cup {m} |-> IF k = m THEN <<>> ELSE tree[k]]
  /\ UNCHANGED <<vault, foreign, memo, nullifiers, ownerKey, now, session, wire>>

PublishOwnerKey(w) ==
  /\ ownerKey' = ownerKey \cup {w}
  /\ UNCHANGED <<tree, vault, foreign, memo, nullifiers, now, session, wire>>

\* pay and handle_deposit: the deposit lands, the envelopes are still to be
\* written, by the wallet or by a browser that holds a one-time writer key.
\* A payer may repeat the randomness of the first note, and the deposit takes
\* the beginning of its envelope with it or nothing of it.
Pay(m, funder, owner, amount, after, rho, sent) ==
  LET fee == FeeFor(amount)
      leaves == Paid(funder, owner, amount, after, rho)
      at == Len(tree[m])
  IN /\ session = <<>> /\ owner \in ownerKey
     /\ WindowAllowed(after)
     /\ \E writer \in {"wallet", "browser"} :
          FileLeaves(m, leaves,
            <<NewMemo(m, writer, funder, after, amount, at, Total(leaves[1]), sent),
              NewMemo(m, writer, funder, 0, fee, at + 1, Total(leaves[2]), 0)>>)
     /\ session' = PiecesAfter(leaves[1], sent) \o PiecesOf(leaves[2])
     /\ vault' = [vault EXCEPT ![m] = @ + amount + fee]
     /\ UNCHANGED <<foreign, nullifiers, ownerKey, now, wire>>

\* write_memo: the wallet sends a piece once the one before it is confirmed,
\* a browser in any order.
SendPiece ==
  /\ \E i \in DOMAIN session :
       /\ memo[session[i][1]].writer = "wallet" =>
            i = 1 /\ memo[session[i][1]].data[session[i][2]] = "zero"
       /\ session[i] \notin wire
       /\ wire' = wire \cup {session[i]}
  /\ UNCHANGED <<tree, vault, foreign, memo, nullifiers, ownerKey, now, session>>

(* Mutant: the offset is taken as it comes. *)
AppendAllowedAnywhere(leaf, offset) == ~memo[leaf].finalized

\* handle_append_memo: a piece is written where the last one ended.
AppendAllowed(leaf, offset) ==
  /\ leaf \in DOMAIN memo /\ ~memo[leaf].finalized
  /\ offset = memo[leaf].written

AppendMemo(leaf, offset) ==
  /\ <<leaf, offset>> \in wire
  /\ AppendAllowed(leaf, offset)
  /\ wire' = wire \ {<<leaf, offset>>}
  /\ memo' = [memo EXCEPT ![leaf].data[offset] = "piece",
                          ![leaf].written = offset + 1,
                          ![leaf].finalized = offset + 1 = Total(leaf)]
  /\ UNCHANGED <<tree, vault, foreign, nullifiers, ownerKey, now, session>>

\* A transaction the program refuses, or that its blockhash outlives.
Drop(leaf, offset) ==
  /\ <<leaf, offset>> \in wire
  /\ wire' = wire \ {<<leaf, offset>>}
  /\ UNCHANGED <<tree, vault, foreign, memo, nullifiers, ownerKey, now, session>>

\* The client hears that a piece was written.
Confirm ==
  /\ \E i \in DOMAIN session :
       /\ memo[session[i][1]].data[session[i][2]] = "piece"
       /\ session' = RemoveAt(session, i)
  /\ UNCHANGED <<tree, vault, foreign, memo, nullifiers, ownerKey, now, wire>>

\* A send fails or the program stops: pay returns, the envelopes are gone.
GiveUp ==
  /\ session /= <<>>
  /\ session' = <<>>
  /\ UNCHANGED <<tree, vault, foreign, memo, nullifiers, ownerKey, now, wire>>

(* Mutant: the refund closes the memo account of the note it takes back. *)
RefundClosesMemo(m, from, i) ==
  LET leaf == tree[m][i]
      rec == memo[leaf]
  IN /\ Open(from)
     /\ rec.after /= 0 /\ now >= rec.after
     /\ MarkSpent(Nullifier(leaf.rho, rec.index))
     /\ PayFromVault(from, rec.amount) /\ CountForeign(m, from, rec.amount)
     /\ memo' = [l \in DOMAIN memo \ {leaf} |-> memo[l]]
     /\ UNCHANGED <<tree, ownerKey, now>>
     /\ session' = <<>> /\ wire' = {}

\* handle_refund: only the funder, only after the window, against the leaf
\* rebuilt from the recorded amount and window.  The pool the tokens come
\* from is an account of the instruction, tied to its own mint and not to
\* the memo's.
Refund(m, from, i) ==
  LET leaf == tree[m][i]
      rec == memo[leaf]
  IN /\ Open(from)
     /\ rec.after /= 0 /\ now >= rec.after
     /\ leaf = Leaf(leaf.owner, leaf.rho, rec.amount,
                    RefundTag(rec.depositor, rec.after))
     /\ MarkSpent(Nullifier(leaf.rho, rec.index))
     /\ PayFromVault(from, rec.amount) /\ CountForeign(m, from, rec.amount)
     /\ UNCHANGED <<tree, memo, ownerKey, now, session, wire>>

\* handle_withdraw: the proof binds the note's owner, position and amount.
Withdraw(m, i) ==
  LET leaf == tree[m][i]
  IN /\ MarkSpent(Nullifier(leaf.rho, i - 1))
     /\ PayFromVault(m, leaf.amount)
     /\ UNCHANGED <<tree, foreign, memo, ownerKey, now, session, wire>>

\* handle_transfer_note: payment, change and fee take the note's place.
TransferNote(m, i, owner, amount, fee) ==
  LET leaf == tree[m][i]
      at == Len(tree[m])
      leaves == Forwarded(leaf, owner, amount, fee)
  IN /\ session = <<>> /\ owner \in ownerKey
     /\ ForwardProved(leaf, amount, fee)
     /\ MarkSpent(Nullifier(leaf.rho, i - 1))
     /\ FileLeaves(m, leaves, [k \in 1..3 |->
          NewMemo(m, "wallet", leaf.owner, 0, 0, at + k - 1,
                  Total(leaves[k]), 0)])
     /\ session' = PiecesOf(leaves[1]) \o PiecesOf(leaves[2]) \o PiecesOf(leaves[3])
     /\ UNCHANGED <<vault, foreign, ownerKey, now, wire>>

Tick ==
  /\ now < MaxTime
  /\ now' = now + 1
  /\ UNCHANGED <<tree, vault, foreign, memo, nullifiers, ownerKey, session, wire>>

Next ==
  \/ \E m \in Mints : InitPool(m)
  \/ \E w \in Wallets : PublishOwnerKey(w)
  \/ \E m \in Mints :
       /\ RoomFor(m, 2)
       /\ \E funder, owner \in Wallets, amount \in Amounts,
             after \in {0} \cup (now + MinWindow)..(now + MaxWindow),
             rho \in {0, Fresh(0)}, sent \in 0..1 :
            Pay(m, funder, owner, amount, after, rho, sent)
  \/ SendPiece \/ Confirm \/ GiveUp \/ Tick
  \/ \E p \in wire : AppendMemo(p[1], p[2]) \/ Drop(p[1], p[2])
  \/ \E m \in DOMAIN tree : \E i \in DOMAIN tree[m] :
       \/ \E from \in Mints : Refund(m, from, i)
       \/ Withdraw(m, i)
       \/ /\ RoomFor(m, 3)
          /\ \E owner \in Wallets, amount, fee \in 0..tree[m][i].amount :
               TransferNote(m, i, owner, amount, fee)

Spec == Init /\ [][Next]_vars
----------------------------------------------------------------------------
Tags == {NoRefund} \cup (Wallets \X (1..MaxTime + MaxWindow))

TypeOK ==
  /\ DOMAIN tree \subseteq Mints
  /\ \A m \in DOMAIN tree : Len(tree[m]) <= Capacity
  /\ vault \in [Mints -> Nat] /\ foreign \in [Mints -> Nat]
  /\ \A l \in DOMAIN memo :
       /\ l.owner \in Wallets \cup {Treasury} /\ l.rho \in Nat
       /\ l.amount \in Nat /\ l.tag \in Tags
       /\ memo[l].written \in 0..Total(l)
  /\ \A p \in wire \cup Range(session) :
       p[1] \in DOMAIN memo /\ p[2] \in 0..Total(p[1]) - 1
  /\ ownerKey \subseteq Wallets /\ now \in 0..MaxTime

Positions == {p \in (DOMAIN tree) \X (1..Capacity) : p[2] <= Len(tree[p[1]])}
LeafAt(p) == tree[p[1]][p[2]]
UnspentOf(m) ==
  {p \in Positions : p[1] = m /\ Nullifier(LeafAt(p).rho, p[2] - 1) \notin nullifiers}
NoteWorth == [p \in Positions |-> LeafAt(p).amount]
Worth(m) == MapThenSumSet(LAMBDA p : NoteWorth[p], UnspentOf(m))

\* The memo accounts of a mint are its pool's leaf list, each leaf once and
\* at its own position, whatever was refunded, withdrawn or forwarded and
\* however many envelopes were never finished: a client that finds a gap
\* (leaves) could prove nothing any more.
LeafListComplete ==
  /\ \A p \in Positions :
       /\ LeafAt(p) \in DOMAIN memo
       /\ memo[LeafAt(p)].mint = p[1] /\ memo[LeafAt(p)].index = p[2] - 1
  /\ \A l \in DOMAIN memo :
       LET p == <<memo[l].mint, memo[l].index + 1>>
       IN p \in Positions /\ LeafAt(p) = l

\* What the program says of itself: it files each leaf from the amount it
\* received, "a note cannot claim more than was paid into it".  Then the
\* vault of a mint holds what the unspent notes of the mint are worth.
VaultBacksMint == \A m \in Mints : vault[m] >= Worth(m)

\* The vault of a mint lacks no more than it paid to funders for notes of
\* other mints: a note is paid out once, by its owner, by a forward or by its
\* funder, in whatever order they come and whichever mints share a nullifier,
\* and a forward makes no money.
MintBacked == \A m \in Mints : vault[m] + foreign[m] >= Worth(m)

\* An envelope marked as finalized is the sealed one, with no hole, in
\* whatever order its pieces arrive and whoever sends one twice.
EnvelopeWhole ==
  \A l \in DOMAIN memo :
    memo[l].finalized => Range(memo[l].data) \subseteq {"piece"}

\* What the client promises of a payment with a window: "a funder takes an
\* uncollected payment back after its window", from the copy in the finished
\* envelope.  Once no client is still writing it, the envelope is there.
FunderCanRecover ==
  \A m \in Mints : \A p \in UnspentOf(m) :
    LET rec == memo[LeafAt(p)]
    IN rec.after /= 0 /\ now >= rec.after /\ session = <<>> /\ wire = {}
         => rec.finalized
=============================================================================
