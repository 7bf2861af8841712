------------------------- MODULE ConfidentialToken -------------------------
(***************************************************************************)
(* Tidex6ConfidentialToken and Tidex6TokenPoolV2 (contracts/src): balances *)
(* as ciphertexts, and the shielded pool that shares their ERC-20 reserve. *)
(* A spend proof is made against one exact `available` ciphertext, sent    *)
(* through a relayer or by the owner, and may arrive late, twice, after    *)
(* another one or never; an incoming payment must not disturb it and it    *)
(* must not be used again.                                                 *)
(*                                                                         *)
(* A ciphertext of an owner is the pair of what it adds up to: the amount  *)
(* m and the blinding r (C = m*G + r*H, D = r*P); the circuits bind both   *)
(* points to one opening.  A key is its owner's address.  A note is its    *)
(* position in the pool's tree and its amount, spent by whoever owns it;   *)
(* owners, the tree, its ring and the uniqueness of leaves are those of    *)
(* HiddenPoolV2.                                                            *)
(***************************************************************************)
EXTENDS Integers, Sequences, FiniteSetsExt

CONSTANTS
  Owners,    \* wallets, each with the key derived from it
  Funders,   \* the owners that start with ERC-20 tokens
  Supply,    \* how many each of them starts with
  FeeFloor,  \* smallest fee of a deposit or a forward
  Openings,  \* blinding a client draws
  Nonces,    \* provers' randomness: proofs of one statement with other bytes
  MaxProofs, MaxNotes \* bounds on the proofs made and the notes filed

ASSUME TokenAssumption ==
  /\ IsFiniteSet(Owners)
  /\ Supply \in Nat /\ FeeFloor \in Nat /\ Openings \subseteq Int
  /\ MaxProofs \in Nat /\ MaxNotes \in Nat

VARIABLES
  wallet,     \* ERC-20 balances of the owners
  reserve,    \* ERC-20 balance of the token contract
  pool,       \* whether setPool has named the pool
  registered, \* owners with an account
  available, pending, \* the two ciphertexts of each account
  proofs,     \* the spend proofs made so far, each with its public inputs
  proofUsed,  \* the proofs the contract has accepted
  notes,      \* the pool's notes, in order
  nullifierSpent \* the notes whose nullifier is spent

token == <<wallet, reserve, pool, registered, available, pending, proofUsed>>
notesOf == <<notes, nullifierSpent>>
vars == <<token, proofs, notesOf>>
-----------------------------------------------------------------------------
Cipher(m, r) == [m |-> m, r |-> r]
Empty == Cipher(0, 0)
Plus(a, b) == Cipher(a.m + b.m, a.r + b.r)
Minus(a, b) == Cipher(a.m - b.m, a.r - b.r)

\* The public inputs of a spend: whose balance, as it stood, what leaves it
\* under which opening, and where it goes.
Proof(kind, from, at, amount, fee, opening, to, nonce) ==
  [kind |-> kind, from |-> from, at |-> at, amount |-> amount, fee |-> fee,
   opening |-> opening, to |-> to, nonce |-> nonce]

Debit(p) == Cipher(p.amount + p.fee, p.opening)

\* At least one percent of the payment, and at least the floor.
FeeAllowed(amount, fee) == 100 * fee >= amount /\ fee >= FeeFloor

(* Mutant: what comes in is spendable at once. *)
CreditAvailable(o, c) ==
  /\ available' = [available EXCEPT ![o] = Plus(@, c)]
  /\ pending' = pending

\* _credit: what comes in waits in pending.
Credit(o, c) ==
  /\ pending' = [pending EXCEPT ![o] = Plus(@, c)]
  /\ UNCHANGED available

(* Mutant: the bytes of a proof are not remembered. *)
ConsumeProofUnchecked(p) == proofUsed' = proofUsed \cup {p}

\* _consumeProof: the same bytes are refused a second time.
ConsumeProof(p) == p \notin proofUsed /\ proofUsed' = proofUsed \cup {p}

\* _requireAvailable: the balance is still the one the proof was made for.
RequireAvailable(p) == available[p.from] = p.at

\* _reserveLeaves, _markLeaf and _appendLeaf of the pool.
FileNotes(new) ==
  /\ Len(notes) + Len(new) <= MaxNotes
  /\ notes' = notes \o new

Spend(i) == i \notin nullifierSpent /\ nullifierSpent' = nullifierSpent \cup {i}
-----------------------------------------------------------------------------
Init ==
  /\ wallet = [o \in Owners |-> IF o \in Funders THEN Supply ELSE 0]
  /\ reserve = 0 /\ pool = FALSE /\ registered = {}
  /\ available = [o \in Owners |-> Empty]
  /\ pending = [o \in Owners |-> Empty]
  /\ proofs = {} /\ proofUsed = {}
  /\ notes = <<>> /\ nullifierSpent = {}

SetPool ==
  /\ ~pool /\ pool' = TRUE
  /\ UNCHANGED <<wallet, reserve, registered, available, pending, proofUsed,
                 proofs, notesOf>>

Register(o) ==
  /\ o \notin registered
  /\ registered' = registered \cup {o}
  /\ UNCHANGED <<wallet, reserve, pool, available, pending, proofUsed, proofs,
                 notesOf>>

\* The amount is public here: it is credited without blinding.
Wrap(o, amount) ==
  /\ o \in registered /\ wallet[o] >= amount
  /\ wallet' = [wallet EXCEPT ![o] = @ - amount]
  /\ reserve' = reserve + amount
  /\ Credit(o, Cipher(amount, 0))
  /\ UNCHANGED <<pool, registered, proofUsed, proofs, notesOf>>

(* Mutant: pending is added and not emptied. *)
ApplyPendingKept(o) ==
  /\ o \in registered
  /\ available' = [available EXCEPT ![o] = Plus(@, pending[o])]
  /\ UNCHANGED <<wallet, reserve, pool, registered, pending, proofUsed,
                 proofs, notesOf>>

ApplyPending(o) ==
  /\ o \in registered
  /\ available' = [available EXCEPT ![o] = Plus(@, pending[o])]
  /\ pending' = [pending EXCEPT ![o] = Empty]
  /\ UNCHANGED <<wallet, reserve, pool, registered, proofUsed, proofs, notesOf>>

\* The constraint systems: what an owner can prove leaves a balance that is
\* not negative.
TransferStatement(p) ==
  p.kind = "transfer" /\ p.fee = 0 /\ p.at.m >= p.amount

UnwrapStatement(p) ==
  p.kind = "unwrap" /\ p.fee = 0 /\ p.opening = 0 /\ p.at.m >= p.amount

(* Mutant: payment and fee are each within the balance, not together. *)
DepositStatementApart(p) ==
  p.kind = "deposit" /\ FeeAllowed(p.amount, p.fee)
    /\ p.at.m >= p.amount /\ p.at.m >= p.fee

DepositStatement(p) ==
  p.kind = "deposit" /\ FeeAllowed(p.amount, p.fee)
    /\ p.at.m >= p.amount + p.fee

Provable(p) == TransferStatement(p) \/ UnwrapStatement(p) \/ DepositStatement(p)

\* An owner reads the account and makes a proof against what is there.
Prove(p) ==
  /\ p.from \in registered
  /\ p.at = available[p.from]
  /\ Provable(p)
  /\ proofs' = proofs \cup {p}
  /\ UNCHANGED <<token, notesOf>>

\* Anyone may send a transfer; sender and recipient may be one account.
Transfer(p) ==
  /\ p.kind = "transfer" /\ p.to \in registered
  /\ RequireAvailable(p) /\ ConsumeProof(p)
  /\ LET debited == [available EXCEPT ![p.from] = Minus(@, Debit(p))]
     IN /\ available' = debited
        /\ pending' = [pending EXCEPT ![p.to] = Plus(@, Cipher(p.amount, p.opening))]
  /\ UNCHANGED <<wallet, reserve, pool, registered, proofs, notesOf>>

\* Only the owner, and the tokens go to the owner.  The ERC-20 refuses a
\* transfer its sender cannot cover.
Unwrap(p) ==
  /\ p.kind = "unwrap" /\ p.amount > 0
  /\ RequireAvailable(p) /\ ConsumeProof(p)
  /\ available' = [available EXCEPT ![p.from] = Minus(@, Debit(p))]
  /\ reserve >= p.amount /\ reserve' = reserve - p.amount
  /\ wallet' = [wallet EXCEPT ![p.from] = @ + p.amount]
  /\ UNCHANGED <<pool, registered, pending, proofs, notesOf>>

\* The debit and the two leaves of the pool are one transaction.
DepositToPool(p) ==
  /\ p.kind = "deposit" /\ pool
  /\ RequireAvailable(p) /\ ConsumeProof(p)
  /\ available' = [available EXCEPT ![p.from] = Minus(@, Debit(p))]
  /\ FileNotes(<<p.amount, p.fee>>)
  /\ UNCHANGED <<wallet, reserve, pool, registered, pending, proofs, nullifierSpent>>

TransferNote(i, pay, fee) ==
  LET change == notes[i] - pay - fee
  IN /\ change >= 0 /\ FeeAllowed(pay, fee)
     /\ Spend(i)
     /\ FileNotes(<<pay, change, fee>>)
     /\ UNCHANGED <<token, proofs>>

\* The note's amount arrives as a ciphertext (creditPending).
WithdrawToToken(i, to, opening) ==
  /\ Spend(i) /\ to \in registered
  /\ Credit(to, Cipher(notes[i], opening))
  /\ UNCHANGED <<wallet, reserve, pool, registered, proofUsed, proofs, notes>>

\* payOut: tokens of the reserve go to an address.
PayOut(balances, to, amount) == [balances EXCEPT ![to] = @ + amount]

\* The token pays the note in the open, the fee to the relayer.
Withdraw(i, recipient, relayer, fee) ==
  /\ Spend(i) /\ fee <= notes[i] /\ reserve >= notes[i]
  /\ reserve' = reserve - notes[i]
  /\ wallet' = PayOut(PayOut(wallet, recipient, notes[i] - fee), relayer, fee)
  /\ UNCHANGED <<pool, registered, available, pending, proofUsed, proofs, notes>>

\* The proofs an owner can make now, a deposit of nothing left out.
Candidates(o) ==
  LET m == available[o].m
  IN {Proof("transfer", o, available[o], a, 0, r, to, n) :
         a \in 0..m, r \in Openings, to \in Owners, n \in Nonces}
     \cup {Proof("unwrap", o, available[o], a, 0, 0, o, n) : a \in 1..m, n \in Nonces}
     \cup {Proof("deposit", o, available[o], a, f, r, o, n) :
             a \in 1..m, f \in 0..m, r \in Openings, n \in Nonces}

Next ==
  \/ SetPool
  \/ \E o \in Owners :
       \/ Register(o) \/ ApplyPending(o)
       \/ \E amount \in 1..wallet[o] : Wrap(o, amount)
       \/ Cardinality(proofs) < MaxProofs /\ \E p \in Candidates(o) : Prove(p)
  \/ \E p \in proofs : Transfer(p) \/ Unwrap(p) \/ DepositToPool(p)
  \/ \E i \in DOMAIN notes :
       \/ \E pay, fee \in 0..notes[i] : TransferNote(i, pay, fee)
       \/ \E to \in Owners, r \in Openings : WithdrawToToken(i, to, r)
       \/ \E recipient, relayer \in Owners, fee \in 0..notes[i] :
            Withdraw(i, recipient, relayer, fee)

Spec == Init /\ [][Next]_vars
-----------------------------------------------------------------------------
CipherType == [m : Nat, r : Int]

TypeOK ==
  /\ wallet \in [Owners -> Nat] /\ reserve \in Nat /\ pool \in BOOLEAN
  /\ registered \subseteq Owners
  /\ available \in [Owners -> CipherType] /\ pending \in [Owners -> CipherType]
  /\ \A p \in proofs :
       /\ p.from \in Owners /\ p.to \in Owners
       /\ p.amount \in Nat /\ p.fee \in Nat /\ p.at \in CipherType
  /\ proofUsed \subseteq proofs
  /\ notes \in Seq(Nat)
  /\ nullifierSpent \subseteq DOMAIN notes

\* The account in plain numbers, whatever is still pending.
Worth == [o \in Owners |-> available[o].m + pending[o].m]

Plain ==
  INSTANCE PlainToken WITH
    balance <- Worth,
    spent   <- nullifierSpent,
    orders  <- proofs \ proofUsed

\* Every call is a step of the plain token: value leaves a balance only by a
\* proof of its owner, each proof is carried out at most once even when the
\* ciphertext it was made for comes back, and a note is consumed once.
ImplementsPlainToken == Plain!Spec

\* One reserve stands behind balances and notes: it is exactly what they are
\* worth together, although no call that moves value between them moves a
\* token and no amount is written down.
Backed == Plain!Backed

Usable(p) == p \in proofs \ proofUsed /\ p.at = available[p.from]

\* A proof in flight is disturbed only by its own account: by another spend
\* of it or by the owner applying what is pending, never by what others send.
\* That is what pending is for.
OnlyOwnerMovesAvailable ==
  [][\A p \in proofs : Usable(p) /\ ~Usable(p)' =>
       \/ \E q \in proofUsed' \ proofUsed : q.from = p.from
       \/ pending[p.from] /= Empty /\ pending'[p.from] = Empty]_vars
=============================================================================
