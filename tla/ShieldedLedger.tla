--------------------------- MODULE ShieldedLedger ---------------------------
(***************************************************************************)
(* What a v2 shielded pool promises (docs/release/adr/ADR-022): a growing  *)
(* list of notes, each worth a fixed amount, each consumed at most once;   *)
(* value enters with the tokens that back it, moves between notes without  *)
(* being created, and leaves exactly when the note that carries it is      *)
(* consumed.  Nothing here speaks of trees, roots, nullifiers or clocks.   *)
(***************************************************************************)
EXTENDS Integers, FiniteSetsExt

CONSTANTS
  Amounts,  \* what a note can be worth, in note units
  Unit      \* token base units that back one note unit

VARIABLES
  count,    \* how many notes there are; they are numbered from 0
  value,    \* value[i]: the note units note i is worth
  spent,    \* the notes consumed so far
  custody   \* token base units the pool holds

vars == <<count, value, spent, custody>>

Notes == 0 .. count - 1

Unspent == Notes \ spent

(* The list after the notes batch[1] ... batch[k] are filed behind it. *)
Filed(batch, k) ==
  /\ count' = count + k
  /\ value' = [i \in 0 .. count + k - 1 |->
                 IF i < count THEN value[i] ELSE batch[i - count + 1]]

-----------------------------------------------------------------------------
Init ==
  /\ count = 0
  /\ value = [i \in Notes |-> 0]
  /\ spent = {}
  /\ custody = 0

(* Tokens come in and become two notes: the payment and the treasury's fee. *)
Fund(pay, fee) ==
  /\ Filed(<<pay, fee>>, 2)
  /\ custody' = custody + (pay + fee) * Unit
  /\ UNCHANGED spent

(* One note becomes three of the same total worth; no token moves. *)
Forward(i, pay, change, fee) ==
  /\ pay + change + fee = value[i]
  /\ Filed(<<pay, change, fee>>, 3)
  /\ spent' = spent \cup {i}
  /\ UNCHANGED custody

(* A note leaves with the tokens that backed it, withdrawn or refunded. *)
PayOut(i) ==
  /\ custody' = custody - value[i] * Unit
  /\ spent' = spent \cup {i}
  /\ UNCHANGED <<count, value>>

Next ==
  \/ \E pay, fee \in Amounts : Fund(pay, fee)
  \/ \E i \in Unspent, pay, change, fee \in Amounts : Forward(i, pay, change, fee)
  \/ \E i \in Unspent : PayOut(i)

Spec == Init /\ [][Next]_vars

-----------------------------------------------------------------------------
(* Every unspent note is backed by the tokens it is worth, and the pool     *)
(* holds nothing else.                                                      *)
Backed == custody = Unit * MapThenSumSet(LAMBDA i : value[i], Unspent)
=============================================================================
