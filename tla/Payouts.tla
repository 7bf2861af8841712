------------------------------ MODULE Payouts ------------------------------
(***************************************************************************)
(* How the operator's service of the wUSDC pool (crates/tidex6-ct-lab) pays *)
(* out what was withdrawn: through a payout file, the mover and cashout, or *)
(* at once for a browser (withdraw_browser).  The wrapped token moves       *)
(* confidentially, the vault holds the underlying one.                      *)
(*                                                                         *)
(* The service runs one operation at a time; an operation is a series of    *)
(* transactions and file writes, each of which may fail, may go through and *)
(* be reported as failed, or be the last before the process stops.  Nothing *)
(* but the chain and the files survives.  Deposits are PaymentService's:    *)
(* here every note is already wrapped.                                      *)
(***************************************************************************)
EXTENDS Integers, FiniteSets, Sequences, SequencesExt, FiniteSetsExt

CONSTANTS
  Notes,    \* the notes of the pool
  Amount,   \* what each is worth
  Asked,    \* amounts a browser asks for with its proof
  Float,    \* wrapped tokens of the operator beyond the notes'
  MaxFaults \* bound on the faults of mover runs

ASSUME PayoutAssumption ==
  /\ IsFiniteSet(Notes) /\ Amount \in Nat \ {0} /\ Asked \subseteq Nat
  /\ Float \in Nat /\ MaxFaults \in Nat

VARIABLES
  spent,      \* nullifiers in the pool
  keyFile,    \* recipient-<nh8>.json, by note
  payout,     \* payout-<nh8>.json: none, open, torn or done
  configured, \* recipients with a confidential account
  operator,   \* the operator's wrapped balance
  recipient,  \* the wrapped balance of each note's fresh recipient
  vault,      \* underlying tokens in the vault
  paid,       \* times the vault paid a browser for each note (history)
  op,         \* the operation the service is in
  faults      \* transfers reported as failed and runs stopped, of the mover

files == <<keyFile, payout>>
wrapped == <<operator, recipient>>
vars == <<spent, files, configured, wrapped, vault, paid, op, faults>>
-----------------------------------------------------------------------------
Idle == [kind |-> "idle"]
Doing(kind, stage, n) == [kind |-> kind, stage |-> stage, note |-> n]

\* A browser's payout is of the amount its request names.
Browser(stage, n, amount) ==
  [kind |-> "browser", stage |-> stage, note |-> n, amount |-> amount]

At(kind, stage, n) == op = Doing(kind, stage, n)

\* The mover goes through the open payouts; `note` is the one just paid.
Moving(queue) == [kind |-> "mover", stage |-> "next", queue |-> queue]
InMover == op.kind = "mover"

Heading(n) ==
  InMover /\ op.stage = "next" /\ op.queue /= <<>> /\ Head(op.queue) = n

OpenPayouts == {n \in Notes : payout[n] = "open"}

(* Mutant: a balance is not compared with what is taken from it. *)
CoversAny(balance, amount) == TRUE

\* What the burn and transfer proofs and the token program demand.
Covers(balance, amount) == balance >= amount

\* scan_payouts, in the order the directory gives them; one file that cannot
\* be read fails the scan.
Torn == \E n \in Notes : payout[n] = "torn"
Scan == IF Torn THEN {} ELSE SetToSeqs(OpenPayouts)

Init ==
  /\ spent = {} /\ keyFile = {} /\ configured = {}
  /\ payout = [n \in Notes |-> "none"]
  /\ operator = Amount * Cardinality(Notes) + Float
  /\ vault = operator
  /\ recipient = [n \in Notes |-> 0] /\ paid = [n \in Notes |-> 0]
  /\ op = Idle /\ faults = 0
-----------------------------------------------------------------------------
\* flow::withdraw: the recipient's key is written before the transaction.
Withdraw(n) ==
  /\ op = Idle
  /\ keyFile' = keyFile \cup {n}
  /\ op' = Doing("withdraw", "send", n)
  /\ UNCHANGED <<spent, payout, configured, wrapped, vault, paid, faults>>

\* The pool takes a nullifier once.
WithdrawSend(n) ==
  /\ At("withdraw", "send", n) /\ n \notin spent
  /\ spent' = spent \cup {n}
  /\ op' \in {Doing("withdraw", "file", n), Idle}
  /\ UNCHANGED <<files, configured, wrapped, vault, paid, faults>>

\* Only then is the payout written, into a file that is created first and
\* stays behind when the write fails or the process stops in it.
WithdrawFile(n) ==
  /\ At("withdraw", "file", n)
  /\ \E state \in {"open", "torn"} : payout' = [payout EXCEPT ![n] = state]
  /\ op' = Idle
  /\ UNCHANGED <<spent, keyFile, configured, wrapped, vault, paid, faults>>

\* configure_recipient, and the mover right after it (auto_mover).
Configure(n) ==
  /\ op = Idle /\ n \in keyFile
  /\ configured' = configured \cup {n}
  /\ op' \in {Moving(queue) : queue \in Scan} \cup (IF Torn THEN {Idle} ELSE {})
  /\ UNCHANGED <<spent, files, wrapped, vault, paid, faults>>

Mover ==
  /\ op = Idle /\ OpenPayouts /= {}
  /\ op' \in {Moving(queue) : queue \in Scan}
  /\ UNCHANGED <<spent, files, configured, wrapped, vault, paid, faults>>

\* pay_one: the confidential transfer of the payout at the head.
MoverPay(n) ==
  /\ Heading(n) /\ n \in configured /\ Covers(operator, Amount)
  /\ operator' = operator - Amount
  /\ recipient' = [recipient EXCEPT ![n] = @ + Amount]
  /\ op' = [op EXCEPT !.stage = "close"]
  /\ UNCHANGED <<spent, files, configured, vault, paid, faults>>

(* Mutant: the first payout that cannot be made ends the run. *)
MoverSkipEnds(n) ==
  /\ Heading(n)
  /\ op' = Idle
  /\ UNCHANGED <<spent, files, configured, wrapped, vault, paid, faults>>

\* A payout that cannot be made is left for the next run.
MoverSkip(n) ==
  /\ Heading(n)
  /\ op' = Moving(Tail(op.queue))
  /\ UNCHANGED <<spent, files, configured, wrapped, vault, paid, faults>>

\* close_ctxs after the transfer.
MoverClose ==
  /\ InMover /\ op.stage = "close"
  /\ op' = [op EXCEPT !.stage = "mark"]
  /\ UNCHANGED <<spent, files, configured, wrapped, vault, paid, faults>>

MoverMark ==
  /\ InMover /\ op.stage = "mark"
  /\ payout' = [payout EXCEPT ![Head(op.queue)] = "done"]
  /\ op' = Moving(Tail(op.queue))
  /\ UNCHANGED <<spent, keyFile, configured, wrapped, vault, paid, faults>>

\* The transfer reported as failed, an error of close_ctxs, or a rename that
\* does not work: the payout was made and stays open.
MoverFault ==
  /\ InMover /\ op.stage \in {"close", "mark"} /\ faults < MaxFaults
  /\ faults' = faults + 1
  /\ op' = Moving(Tail(op.queue))
  /\ UNCHANGED <<spent, files, configured, wrapped, vault, paid>>

MoverEnd ==
  /\ op = Moving(<<>>)
  /\ op' = Idle
  /\ UNCHANGED <<spent, files, configured, wrapped, vault, paid, faults>>

\* cashout: what the recipient holds, to the operator's wallet.
Cashout(n) ==
  /\ op = Idle /\ n \in keyFile /\ payout[n] \in {"open", "done"}
  /\ vault >= Amount
  /\ op' = Doing("cashout", "burn", n)
  /\ UNCHANGED <<spent, files, configured, wrapped, vault, paid, faults>>

(* Mutant: an error of the burn is ignored. *)
CashoutBurnIgnored(n) ==
  /\ At("cashout", "burn", n)
  /\ recipient' = IF Covers(recipient[n], Amount) THEN [recipient EXCEPT ![n] = @ - Amount]
                                          ELSE recipient
  /\ op' \in {Doing("cashout", "release", n), Idle}
  /\ UNCHANGED <<spent, files, configured, operator, vault, paid, faults>>

\* The burn; it may go through and be reported, or followed, by an error.
CashoutBurn(n) ==
  /\ At("cashout", "burn", n) /\ Covers(recipient[n], Amount)
  /\ recipient' = [recipient EXCEPT ![n] = @ - Amount]
  /\ op' \in {Doing("cashout", "release", n), Idle}
  /\ UNCHANGED <<spent, files, configured, operator, vault, paid, faults>>

CashoutRelease(n) ==
  /\ At("cashout", "release", n) /\ vault >= Amount
  /\ vault' = vault - Amount
  /\ op' = Idle
  /\ UNCHANGED <<spent, files, configured, wrapped, paid, faults>>
-----------------------------------------------------------------------------
(* Mutant: a nullifier that is spent already counts as withdrawn. *)
WithdrawBrowserAgain(n, amount) ==
  /\ op = Idle
  /\ spent' = spent \cup {n}
  /\ op' \in {Browser("burn", n, amount), Idle}
  /\ UNCHANGED <<files, configured, wrapped, vault, paid, faults>>

\* withdraw_browser: the note leaves the pool first.  The amount to pay comes
\* with the request and is compared with nothing.
WithdrawBrowser(n, amount) ==
  /\ op = Idle /\ n \notin spent
  /\ spent' = spent \cup {n}
  /\ op' \in {Browser("burn", n, amount), Idle}
  /\ UNCHANGED <<files, configured, wrapped, vault, paid, faults>>

\* cashout_to_address: the operator's own wrapped tokens are burnt ...
BrowserBurn(n, amount) ==
  /\ op = Browser("burn", n, amount)
  /\ vault >= amount /\ Covers(operator, amount)
  /\ operator' = operator - amount
  /\ op' \in {Browser("release", n, amount), Idle}
  /\ UNCHANGED <<spent, files, configured, recipient, vault, paid, faults>>

\* ... and the vault pays the recipient.
BrowserRelease(n, amount) ==
  /\ op = Browser("release", n, amount) /\ vault >= amount
  /\ vault' = vault - amount
  /\ paid' = [paid EXCEPT ![n] = @ + 1]
  /\ op' = Idle
  /\ UNCHANGED <<spent, files, configured, wrapped, faults>>

\* An error ends the operation or the process stops in it.  Only the process
\* ends a run of the mover, and that is one of the faults.
Stop ==
  /\ op /= Idle
  /\ IF InMover THEN faults < MaxFaults /\ faults' = faults + 1 ELSE UNCHANGED faults
  /\ op' = Idle
  /\ UNCHANGED <<spent, files, configured, wrapped, vault, paid>>

\* The steps that bring an operation to its end.
Progress ==
  \/ \E n \in Notes :
       \/ WithdrawSend(n) \/ WithdrawFile(n)
       \/ CashoutBurn(n) \/ CashoutRelease(n)
       \/ MoverSkip(n)
       \/ \E amount \in Asked : BrowserBurn(n, amount) \/ BrowserRelease(n, amount)
  \/ MoverClose \/ MoverMark \/ MoverFault \/ MoverEnd \/ Stop

Next ==
  \/ \E n \in Notes :
       \/ Withdraw(n) \/ Configure(n) \/ Cashout(n) \/ MoverPay(n)
       \/ \E amount \in Asked : WithdrawBrowser(n, amount)
  \/ Mover \/ Progress

\* Every operation ends, by its own steps or with the process, and what a node
\* refuses now it does not refuse for ever.  Nothing obliges anyone to start one.
Fairness ==
  /\ WF_vars(Progress)
  /\ \A n \in Notes : SF_vars(MoverPay(n))

Spec == Init /\ [][Next]_vars /\ Fairness
-----------------------------------------------------------------------------
Ops ==
  {Idle}
  \cup {Doing(k, s, n) : k \in {"withdraw", "cashout"},
                         s \in {"send", "file", "burn", "release"}, n \in Notes}
  \cup {Browser(s, n, a) : s \in {"burn", "release"}, n \in Notes, a \in Asked}
  \cup [kind : {"mover"}, stage : {"next", "close", "mark"}, queue : Seq(Notes)]

TypeOK ==
  /\ spent \subseteq Notes /\ keyFile \subseteq Notes
  /\ configured \subseteq keyFile
  /\ payout \in [Notes -> {"none", "open", "torn", "done"}]
  /\ operator \in Nat /\ vault \in Nat
  /\ recipient \in [Notes -> Nat] /\ paid \in [Notes -> Nat]
  /\ op \in Ops /\ faults \in 0..MaxFaults

Supply == operator + MapThenSumSet(LAMBDA n : recipient[n], Notes)

\* Every wrapped token in anyone's hands can be cashed in, whatever failed
\* half-way: tokens are burnt before the vault pays.
VaultCoversSupply == vault >= Supply

\* A browser is paid once and for a note that left the pool, however often
\* it asks again after an error, and never for one that is also paid through
\* a payout file.
PaidByOneRoute ==
  \A n \in Notes :
    /\ paid[n] <= 1
    /\ paid[n] > 0 => n \in spent /\ payout[n] = "none" /\ recipient[n] = 0

\* Runs of the mover get past the scan again and again, and from some time on
\* the operator has the tokens for a payout.
MoverKeptRunning == []<>InMover /\ <>[]Covers(operator, Amount)

\* While someone keeps running the mover and the operator can pay, a payout
\* whose recipient is set up is made and closed in the end, whatever the other
\* payouts of a run meet: what is skipped is repeated, by the next run.
PayoutClosed ==
  MoverKeptRunning =>
    \A n \in Notes : payout[n] = "open" /\ n \in configured ~> payout[n] = "done"
=============================================================================
