----------------------------- MODULE LocalAgent -----------------------------
(***************************************************************************)
(* The local MCP server (crates/tidex6-mcp-local): the tool calls of an    *)
(* agent that holds a signing key, and the daily budget that bounds what   *)
(* it signs (crates/tidex6-client/src/confidential/{limits,send}.rs).      *)
(*                                                                         *)
(* Handlers run on a few runtime workers and block them: on the budget's   *)
(* mutex and on the quote of the pool service.  The library work of a call *)
(* runs on a thread of its own, under a timer only a free worker can fire; *)
(* the timer ends the process, the host starts it again, and the budget,   *)
(* which is kept in memory, starts from zero.  `send` holds the mutex for  *)
(* the whole payment.  Money is moved before the service answers.          *)
(*                                                                         *)
(* Time is counted in steps of the clock, the sliding day is Day of them.  *)
(***************************************************************************)
EXTENDS Integers, FiniteSets, FiniteSetsExt

CONSTANTS
  Calls,      \* tool calls of the agent, each made at most once
  Sends,      \* the tools it pays with: "send", "other_send"
  Amounts,    \* amounts it asks to pay
  PerPayment, PerDay, \* Limits
  Day,        \* the sliding window
  Workers,    \* runtime workers
  MaxTime     \* bound on the clock

ASSUME AgentAssumption ==
  /\ Amounts \subseteq Nat \ {0} /\ PerPayment \in Nat /\ PerDay \in Nat
  /\ Day \in Nat \ {0} /\ Workers \in Nat \ {0} /\ MaxTime \in Nat
  /\ Sends \subseteq {"send", "other_send"}

VARIABLES
  now,
  phase,   \* where each call is
  request, \* what it asks for
  started, \* the time send_payment read when it began
  lock,    \* the calls that hold the budget's mutex
  budget,  \* DailySpend: the payments recorded, with their times
  moved    \* what left the wallet, with its time and the run of the process
           \* it left in; the chain keeps it

vars == <<now, phase, request, started, lock, budget, moved>>
-----------------------------------------------------------------------------
\* A handler looks a name up and waits for the mutex, or waits for the
\* quote: its worker is blocked.
Blocking == {"lock", "quote"}
\* Library work on a thread of its own, the call waiting under its timer.
Library == {"libLock", "libQuote", "pay", "deposit", "otherPay", "work"}

BusyWorkers == Cardinality({c \in Calls : phase[c] \in Blocking})
FreeWorker == BusyWorkers < Workers
Unlocked == lock = {}

NoPayment == [kind |-> "library", amount |-> 0]
Requests == {NoPayment} \cup [kind : Sends, amount : Amounts]

Goes(c, p) == phase' = [phase EXCEPT ![c] = p]

Within(entries, at) == {e \in entries : e.at <= at /\ at - e.at < Day}
Worth(entries) ==
  LET amount == [e \in entries |-> e.amount]
  IN  MapThenSumSet(LAMBDA e : amount[e], entries)

\* DailySpend::spent.
Spent == Worth(Within(budget, now))

\* Limits::check, and what it leaves of the record: once it asks what was
\* spent, what is older than a day is forgotten.
Forget(amount) ==
  budget' = IF amount <= PerPayment THEN Within(budget, now) ELSE budget

WithinLimits(amount) ==
  /\ amount <= PerPayment
  /\ amount <= PerDay - Spent

Entry(c, at) == [call |-> c, at |-> at, amount |-> request[c].amount]
-----------------------------------------------------------------------------
Init ==
  /\ now = 0
  /\ phase = [c \in Calls |-> "idle"]
  /\ request = [c \in Calls |-> NoPayment]
  /\ started = [c \in Calls |-> 0]
  /\ lock = {} /\ budget = {} /\ moved = {}

\* The agent calls a tool.
Call(c, what) ==
  /\ phase[c] = "idle"
  /\ request' = [request EXCEPT ![c] = what]
  /\ Goes(c, "called")
  /\ UNCHANGED <<now, started, lock, budget, moved>>

(* Mutant: a worker that is there takes a call, blocked or not. *)
StartUnbounded(c) ==
  /\ phase[c] = "called"
  /\ Goes(c, IF request[c].kind = "library" THEN "work" ELSE "lock")
  /\ UNCHANGED <<now, request, started, lock, budget, moved>>

\* A worker takes the call up.
Start(c) ==
  /\ phase[c] = "called" /\ FreeWorker
  /\ Goes(c, IF request[c].kind = "library" THEN "work" ELSE "lock")
  /\ UNCHANGED <<now, request, started, lock, budget, moved>>

\* send looks the recipient and the auditor up first; the registry may not
\* know them or not answer.
LookupFails(c) ==
  /\ phase[c] = "lock" /\ request[c].kind = "send"
  /\ Goes(c, "failed")
  /\ UNCHANGED <<now, request, started, lock, budget, moved>>

\* The handler takes the mutex, checks and releases it at once.
Check(c) ==
  /\ phase[c] = "lock" /\ Unlocked
  /\ Forget(request[c].amount)
  /\ Goes(c, IF ~WithinLimits(request[c].amount) THEN "failed"
             ELSE IF request[c].kind = "send" THEN "quote" ELSE "otherPay")
  /\ UNCHANGED <<now, request, started, lock, moved>>

\* The handler's own quote; on success the library thread starts.
Quote(c) ==
  /\ phase[c] = "quote"
  /\ \E p \in {"libLock", "failed"} : Goes(c, p)
  /\ UNCHANGED <<now, request, started, lock, budget, moved>>

(* Mutant: the library trusts the handler's check. *)
SendPaymentUnchecked(c) ==
  /\ phase[c] = "libLock" /\ Unlocked
  /\ Forget(request[c].amount)
  /\ lock' = {c} /\ started' = [started EXCEPT ![c] = now] /\ Goes(c, "libQuote")
  /\ UNCHANGED <<now, request, moved>>

\* send_payment, with the mutex taken: the limits are checked again before
\* anything is sent.
SendPayment(c) ==
  /\ phase[c] = "libLock" /\ Unlocked
  /\ Forget(request[c].amount)
  /\ IF WithinLimits(request[c].amount)
     THEN lock' = {c} /\ started' = [started EXCEPT ![c] = now] /\ Goes(c, "libQuote")
     ELSE UNCHANGED <<lock, started>> /\ Goes(c, "failed")
  /\ UNCHANGED <<now, request, moved>>

\* A payment that ends gives the mutex back.
Ends(c, p) == Goes(c, p) /\ lock' = {} /\ started' = [started EXCEPT ![c] = 0]

\* The quote and its gate; a refusal comes before any money.
LibraryQuote(c) ==
  /\ phase[c] = "libQuote"
  /\ \/ Goes(c, "pay") /\ UNCHANGED <<lock, started>>
     \/ Ends(c, "failed")
  /\ UNCHANGED <<now, request, budget, moved>>

Moves(c) == moved' = moved \cup {Entry(c, now)}

\* pay_operator: confirmed, refused, or sent and not confirmed in time.
PayOperator(c) ==
  /\ phase[c] = "pay"
  /\ \/ Moves(c) /\ Goes(c, "deposit") /\ UNCHANGED <<lock, started>>
     \/ Moves(c) /\ Ends(c, "failed")
     \/ UNCHANGED moved /\ Ends(c, "failed")
  /\ UNCHANGED <<now, request, budget>>

\* The service answers; only a payment it answered for is recorded, at the
\* time it started.
Deposit(c) ==
  /\ phase[c] = "deposit"
  /\ \/ Ends(c, "done") /\ budget' = budget \cup {Entry(c, started[c])}
     \/ Ends(c, "failed") /\ UNCHANGED budget
  /\ UNCHANGED <<now, request, moved>>

\* evm_send and sol_v2_send on a mainnet: checked by the handler, paid
\* without the mutex and not recorded.
OtherPay(c) ==
  /\ phase[c] = "otherPay"
  /\ \/ Moves(c) /\ \E p \in {"done", "failed"} : Goes(c, p)
     \/ UNCHANGED moved /\ Goes(c, "failed")
  /\ UNCHANGED <<now, request, started, lock, budget>>

(* Mutant: one mutex for every library call. *)
FinishAlone(c) ==
  /\ phase[c] = "work"
  /\ \/ Unlocked /\ lock' = {c} /\ UNCHANGED phase
     \/ c \in lock /\ lock' = {} /\ \E p \in {"done", "failed"} : Goes(c, p)
  /\ UNCHANGED <<now, request, started, budget, moved>>

\* collect, audit, payments and the like: no mutex, and they may never end.
Finish(c) ==
  /\ phase[c] = "work"
  /\ \E p \in {"done", "failed"} : Goes(c, p)
  /\ UNCHANGED <<now, request, started, lock, budget, moved>>

\* HARD_TIMEOUT: a free worker fires the timer of a call, the process exits
\* and the host starts it again; every call it had is lost.
HardTimeout(c) ==
  /\ phase[c] \in Library /\ FreeWorker
  /\ phase' = [d \in Calls |-> IF phase[d] \in {"called"} \cup Blocking \cup Library
                               THEN "lost" ELSE phase[d]]
  /\ lock' = {} /\ budget' = {} /\ started' = [d \in Calls |-> 0]
  /\ UNCHANGED <<now, request, moved>>

Tick ==
  /\ now < MaxTime
  /\ now' = now + 1
  /\ UNCHANGED <<phase, request, started, lock, budget, moved>>

Ended == {"failed", "done", "lost"}
AllEnded == (\A c \in Calls : phase[c] \in Ended) /\ now = MaxTime /\ UNCHANGED vars

\* A step of the handler or of library work that its own timeouts bound.
Step(c) ==
  \/ Start(c) \/ Check(c) \/ Quote(c)
  \/ SendPayment(c) \/ LibraryQuote(c) \/ PayOperator(c) \/ Deposit(c)
  \/ OtherPay(c)

Next ==
  \/ \E c \in Calls :
       \/ \E what \in Requests : Call(c, what)
       \/ Step(c) \/ LookupFails(c) \/ Finish(c) \/ HardTimeout(c)
  \/ Tick \/ AllEnded

\* Threads and workers are scheduled; HTTP and RPC clients give up after
\* their timeouts; a timer that is due fires when a worker is free to fire
\* it.  Nothing says that library work which is only computing ever ends.
Fairness == \A c \in Calls : WF_vars(Step(c)) /\ WF_vars(HardTimeout(c))

Spec == Init /\ [][Next]_vars /\ Fairness
-----------------------------------------------------------------------------
TypeOK ==
  /\ request \in [Calls -> Requests]
  /\ now \in 0..MaxTime
  /\ phase \in [Calls -> {"idle", "called"} \cup Blocking \cup Library \cup Ended]
  /\ started \in [Calls -> 0..MaxTime]
  /\ lock \subseteq Calls
  /\ \A e \in budget \cup moved :
       e.call \in Calls /\ e.amount \in Amounts /\ e.at \in 0..MaxTime
  /\ BusyWorkers <= Workers

\* One payment at a time is between its check and its record.
InPayment == {"libQuote", "pay", "deposit"}

\* The payments on record stay within the cap in every sliding day, and so
\* they do with the one under way: two sends that both passed the handler's
\* check cannot both spend the same remainder.
RecordedWithinCap ==
  LET underway == {Entry(c, started[c]) : c \in {d \in Calls : phase[d] \in InPayment}}
      payments == budget \cup underway
  IN \A e \in payments : Worth(Within(payments, e.at)) <= PerDay

\* Every call is answered or the process ends, even when library work hangs
\* while other calls wait for the mutex: a worker is always free again to
\* fire its timer.
Answered == \A c \in Calls : phase[c] = "called" ~> phase[c] \in Ended

\* limits.rs: per_day is the most that may be spent within a day, in sum.
BudgetHolds ==
  \A e \in moved : Worth(Within(moved, e.at)) <= PerDay
=============================================================================
