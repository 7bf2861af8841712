----------------------------- MODULE PlainToken -----------------------------
(***************************************************************************)
(* What the confidential token and its pool promise together, in numbers:  *)
(* an ERC-20 reserve stands behind plain balances and plain notes.  Value  *)
(* leaves a balance only by an order its owner gave, each order is carried *)
(* out at most once and for exactly what it says, and a note is consumed   *)
(* once.  Nothing here is encrypted, pending or stale.                     *)
(***************************************************************************)
EXTENDS Integers, Sequences, FiniteSetsExt

CONSTANTS Owners

VARIABLES
  wallet,   \* ERC-20 tokens outside, by owner
  reserve,  \* ERC-20 tokens the token contract holds
  balance,  \* the worth of each owner's confidential account
  notes,    \* the worth of the pool's notes, in order
  spent,    \* the notes consumed
  orders    \* what owners have signed for and nobody has carried out yet

vars == <<wallet, reserve, balance, notes, spent, orders>>
-----------------------------------------------------------------------------
Init ==
  /\ wallet \in [Owners -> Nat]
  /\ reserve = 0
  /\ balance = [o \in Owners |-> 0]
  /\ notes = <<>> /\ spent = {} /\ orders = {}

Add(sums, o, amount) == [sums EXCEPT ![o] = @ + amount]

\* Tokens come in from the owner's wallet.
Wrap(o, amount) ==
  /\ wallet[o] >= amount
  /\ wallet' = [wallet EXCEPT ![o] = @ - amount]
  /\ reserve' = reserve + amount
  /\ balance' = [balance EXCEPT ![o] = @ + amount]
  /\ UNCHANGED <<notes, spent, orders>>

\* An owner signs a new order; nothing moves.
Give ==
  /\ orders \subseteq orders'
  /\ UNCHANGED <<wallet, reserve, balance, notes, spent>>

\* An open order is closed by carrying it out, within the owner's balance.
Close(d) ==
  /\ d \in orders /\ orders' = orders \ {d}
  /\ balance[d.from] >= d.amount + d.fee

Move(d) ==
  /\ Close(d) /\ d.kind = "transfer"
  /\ balance' = Add([balance EXCEPT ![d.from] = @ - d.amount], d.to, d.amount)
  /\ UNCHANGED <<wallet, reserve, notes, spent>>

CashOut(d) ==
  /\ Close(d) /\ d.kind = "unwrap"
  /\ balance' = [balance EXCEPT ![d.from] = @ - d.amount]
  /\ wallet' = [wallet EXCEPT ![d.from] = @ + d.amount]
  /\ reserve' = reserve - d.amount
  /\ UNCHANGED <<notes, spent>>

Hide(d) ==
  /\ Close(d) /\ d.kind = "deposit"
  /\ balance' = [balance EXCEPT ![d.from] = @ - (d.amount + d.fee)]
  /\ notes' = notes \o <<d.amount, d.fee>>
  /\ UNCHANGED <<wallet, reserve, spent>>

Consume(i) ==
  /\ i \in DOMAIN notes /\ i \notin spent
  /\ spent' = spent \cup {i}

\* A note is split into a payment, change and a fee.
Split(i, pay, change, fee) ==
  /\ Consume(i)
  /\ pay + change + fee = notes[i]
  /\ notes' = notes \o <<pay, change, fee>>
  /\ UNCHANGED <<wallet, reserve, balance, orders>>

\* A note becomes balance.
Show(i, o) ==
  /\ Consume(i)
  /\ balance' = [balance EXCEPT ![o] = @ + notes[i]]
  /\ UNCHANGED <<wallet, reserve, notes, orders>>

\* A note leaves as tokens, less what the relayer takes.
Leave(i, o, relayer, fee) ==
  /\ Consume(i)
  /\ fee \in 0..notes[i]
  /\ wallet' = Add(Add(wallet, o, notes[i] - fee), relayer, fee)
  /\ reserve' = reserve - notes[i]
  /\ UNCHANGED <<balance, notes, orders>>

Next ==
  \/ \E o \in Owners : \E amount \in 1..wallet[o] : Wrap(o, amount)
  \/ Give
  \/ \E d \in orders : Move(d) \/ CashOut(d) \/ Hide(d)
  \/ \E i \in DOMAIN notes :
       \/ \E pay, change, fee \in 0..notes[i] : Split(i, pay, change, fee)
       \/ \E o \in Owners : Show(i, o)
       \/ \E o, relayer \in Owners : \E fee \in 0..notes[i] : Leave(i, o, relayer, fee)

Spec == Init /\ [][Next]_vars
-----------------------------------------------------------------------------
\* The reserve is exactly what balances and unspent notes are worth together.
Backed ==
  reserve = MapThenSumSet(LAMBDA o : balance[o], Owners)
            + MapThenSumSet(LAMBDA i : notes[i], DOMAIN notes \ spent)
=============================================================================
