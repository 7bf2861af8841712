--------------------------- MODULE PaymentService ---------------------------
(***************************************************************************)
(* The operator's deposit service, crates/tidex6-ct-lab: one request at a  *)
(* time turns a sender's public payment to the operator into a confidential *)
(* note in the Solana pool.  A request of a payment passes through          *)
(*                                                                         *)
(*   lock file -> verify on chain -> wrap the money -> deposit transaction  *)
(*             -> memo appended in chunks -> fee -> answer                  *)
(*                                                                         *)
(* and may stop anywhere: an RPC fails, a transaction is rejected, its      *)
(* confirmation never comes and it lands later, the disk is full, the       *)
(* service is restarted.  What is left is the chain, the lock file of the   *)
(* payment and the saved envelope, and the client who asks again.           *)
(*                                                                         *)
(* A note stands for one deposit: the payment signature, the commitment the *)
(* payment's memo names, and the envelope the client sends with it.  Every   *)
(* deposit is of Amount and pays Fee.  Files are written in two steps, open  *)
(* with truncation and then write: either may fail, and the service may be   *)
(* killed between the two of the envelope's copy.                            *)
(***************************************************************************)
EXTENDS Naturals, FiniteSets

CONSTANTS
  Payments,       \* the notes whose request carries a payment_sig
  Demos,          \* the notes of the demo path, which the operator pays for
  Amount, Fee,    \* micro-units of a deposit and of its fee
  Float,          \* underlying tokens the operator starts with
  Chunks,         \* transactions an envelope takes: the deposit and its appends
  HasCollector,   \* whether the configuration names a fee collector
  DiskMayFill,    \* whether the disk under the lock files may run full
  OpenMayFail     \* whether a lock file may fail to open when it is marked

ASSUME ServiceAssumption ==
  /\ IsFiniteSet(Payments) /\ IsFiniteSet(Demos)
  /\ Payments \cap Demos = {}
  /\ Amount \in Nat /\ Fee \in Nat /\ Float \in Nat
  /\ Chunks \in Nat \ {0}
  /\ HasCollector \in BOOLEAN /\ DiskMayFill \in BOOLEAN
  /\ OpenMayFail \in BOOLEAN

Notes == Payments \cup Demos

Stages == {"absent", "empty", "verified", "wrapping", "wrapped", "done"}
FeeUses == {"treasury", "note", "gas"}
Copies == {"none", "torn", "whole"}
Steps == {"verify", "decide", "transfer", "mint", "preflight", "save",
          "deposit", "append", "fee", "answer"}
Requests == [note : Notes, step : Steps, fee : FeeUses]
NoRequest == [step |-> "idle"]

\* A transaction that was sent and not confirmed: it may land later.  Its
\* size is what a transfer moves, or the chunks an append comes after.
Flights == [kind : {"transfer", "deposit", "append", "fee"}, note : Notes,
            size : Nat]

VARIABLES
  payment,     \* the payment transaction: "unsent", "sent", "landed", "expired"
  lock,        \* the payment's lock file, "absent" or its contents
  req,         \* the request being served
  underlying,  \* open tokens of the operator
  vault,       \* tokens backing the wrapped supply
  wraps,       \* times a payment's money entered the vault (history)
  filed,       \* commitments in the pool's tree, each with its memo account
  memo,        \* chunks of the envelope its memo account holds
  feeNotes,    \* deposits whose fee was filed as a note of its own
  saved,       \* the copy of a note's envelope on disk
  flights,     \* unconfirmed transactions that may still land
  answer       \* funds_moved of the last answer the client got, or "ok"

vars == <<payment, lock, req, underlying, vault, wraps, filed, memo, feeNotes,
          saved, flights, answer>>
chain == <<underlying, vault, wraps, filed, memo, feeNotes, flights>>

TypeOK ==
  /\ payment \in [Payments -> {"unsent", "sent", "landed", "expired"}]
  /\ lock \in [Payments -> Stages]
  /\ req \in Requests \cup {NoRequest}
  /\ underlying \in Nat /\ vault \in Nat
  /\ wraps \in [Payments -> Nat]
  /\ filed \subseteq Notes
  /\ memo \in [Notes -> 0 .. Chunks]
  /\ feeNotes \subseteq Payments
  /\ saved \in [Notes -> Copies]
  /\ flights \subseteq Flights
  /\ answer \in [Notes -> {"none", "ok", "no", "unknown"}]

Init ==
  /\ payment = [n \in Payments |-> "unsent"]
  /\ lock = [n \in Payments |-> "absent"]
  /\ req = NoRequest
  /\ underlying = Float
  /\ vault = 0
  /\ wraps = [n \in Payments |-> 0]
  /\ filed = {}
  /\ memo = [n \in Notes |-> 0]
  /\ feeNotes = {}
  /\ saved = [n \in Notes |-> "none"]
  /\ flights = {}
  /\ answer = [n \in Notes |-> "none"]

-----------------------------------------------------------------------------
(* Answers and lock files *)

Idle == req = NoRequest
At(step) == req.step = step
Goes(step) == req' = [req EXCEPT !.step = step]

\* The request ends with an error whose funds_moved is moved.
Fails(moved) ==
  /\ req' = NoRequest
  /\ answer' = [answer EXCEPT ![req.note] = moved]

\* fs::write truncates the file and then fills it, and its error is ignored: a
\* full disk leaves the file empty, a file that does not open leaves the mark of
\* an earlier stage.  The demo path has no lock.
Marks(stage) ==
  IF req.note \in Payments
  THEN \E s \in {stage} \cup (IF DiskMayFill THEN {"empty"} ELSE {})
                        \cup (IF OpenMayFail THEN {lock[req.note]} ELSE {}) :
         lock' = [lock EXCEPT ![req.note] = s]
  ELSE UNCHANGED lock

\* The stages of an existing lock from which a repeated request goes on.
ResumableWrapping == {"verified", "wrapping"}
Resumable == {"verified"}

-----------------------------------------------------------------------------
(* The sender and the chain *)

\* The wallet signs and sends amount + fee, its memo naming the commitment.
Pay(n) ==
  /\ payment[n] = "unsent"
  /\ payment' = [payment EXCEPT ![n] = "sent"]
  /\ UNCHANGED <<lock, req, chain, saved, answer>>

PaymentLands(n) ==
  /\ payment[n] = "sent"
  /\ payment' = [payment EXCEPT ![n] = "landed"]
  /\ underlying' = underlying + Amount + Fee
  /\ UNCHANGED <<lock, req, vault, wraps, filed, memo, feeNotes, saved, flights,
                 answer>>

PaymentExpires(n) ==
  /\ payment[n] = "sent"
  /\ payment' = [payment EXCEPT ![n] = "expired"]
  /\ UNCHANGED <<lock, req, chain, saved, answer>>

\* What a transaction does when the chain executes it: a transfer needs the
\* tokens, a deposit a memo account that does not exist yet, an append the memo
\* account to hold exactly the chunks before its own (size).
TransferExecutesUnfunded(t) ==
  /\ underlying' = underlying - t.size
  /\ vault' = vault + t.size
  /\ wraps' = IF t.note \in Payments
              THEN [wraps EXCEPT ![t.note] = @ + 1] ELSE wraps
  /\ UNCHANGED <<filed, memo, feeNotes>>

TransferExecutes(t) ==
  /\ underlying >= t.size
  /\ underlying' = underlying - t.size
  /\ vault' = vault + t.size
  /\ wraps' = IF t.note \in Payments
              THEN [wraps EXCEPT ![t.note] = @ + 1] ELSE wraps
  /\ UNCHANGED <<filed, memo, feeNotes>>

DepositExecutes(t) ==
  /\ t.note \notin filed
  /\ filed' = filed \cup {t.note}
  /\ memo' = [memo EXCEPT ![t.note] = 1]
  /\ UNCHANGED <<underlying, vault, wraps, feeNotes>>

AppendExecutes(t) ==
  /\ t.note \in filed
  /\ memo[t.note] = t.size
  /\ t.size < Chunks
  /\ memo' = [memo EXCEPT ![t.note] = @ + 1]
  /\ UNCHANGED <<underlying, vault, wraps, filed, feeNotes>>

FeeExecutes(t) ==
  /\ feeNotes' = feeNotes \cup {t.note}
  /\ UNCHANGED <<underlying, vault, wraps, filed, memo>>

Executes(t) ==
  \/ t.kind = "transfer" /\ TransferExecutes(t)
  \/ t.kind = "deposit" /\ DepositExecutes(t)
  \/ t.kind = "append" /\ AppendExecutes(t)
  \/ t.kind = "fee" /\ FeeExecutes(t)

LandsLate(t) ==
  /\ Executes(t)
  /\ flights' = flights \ {t}
  /\ UNCHANGED <<payment, lock, req, saved, answer>>

Expires(t) ==
  /\ flights' = flights \ {t}
  /\ UNCHANGED <<payment, lock, req, underlying, vault, wraps, filed, memo,
                 feeNotes, saved, answer>>

-----------------------------------------------------------------------------
(* A request up to the wrap *)

Start(n, step) ==
  /\ req' = [note |-> n, step |-> step, fee |-> "treasury"]
  /\ UNCHANGED <<payment, chain, saved, answer>>

\* A request with a payment signature claims the lock with create_new, or goes
\* on from a lock that says nothing has moved.
Admit(n) ==
  /\ Idle
  /\ payment[n] # "unsent"
  /\ lock[n] \in {"absent"} \cup Resumable
  /\ lock' = IF lock[n] = "absent" THEN [lock EXCEPT ![n] = "empty"] ELSE lock
  /\ Start(n, "verify")

\* Any other lock refuses the request; so does the gate of the main network.
Refuse(n) ==
  /\ Idle
  /\ payment[n] # "unsent"
  /\ answer' = [answer EXCEPT ![n] = "unknown"]
  /\ UNCHANGED <<payment, lock, req, chain, saved>>

AdmitDemo(n) ==
  /\ Idle
  /\ UNCHANGED lock
  /\ Start(n, "decide")

\* verify_token_payment finds the transfer, its sender and its memo.
VerifiedWhenSent(n) == payment[n] \in {"sent", "landed"}
Verified(n) == payment[n] = "landed"

Verify ==
  /\ At("verify")
  /\ Verified(req.note)
  /\ Marks("verified")
  /\ Goes("decide")
  /\ UNCHANGED <<payment, chain, saved, answer>>

\* A payment that is not there, or an RPC that does not answer: the lock goes.
VerifyFails ==
  /\ At("verify")
  /\ lock' = [lock EXCEPT ![req.note] = "absent"]
  /\ Fails("unknown")
  /\ UNCHANGED <<payment, chain, saved>>

\* The fee buys gas when the operator's SOL is low, else becomes a note of the
\* collector, else stays in the treasury.  It is decided before the wrap, which
\* takes the fee along only in the second case.
FeeUse(isGasLow) ==
  IF req.note \in Demos THEN "treasury"
  ELSE IF isGasLow THEN "gas"
  ELSE IF HasCollector THEN "note" ELSE "treasury"

DecideUnmarked ==
  /\ At("decide")
  /\ \E isGasLow \in BOOLEAN :
       req' = [req EXCEPT !.step = "transfer", !.fee = FeeUse(isGasLow)]
  /\ UNCHANGED <<payment, lock, chain, saved, answer>>

Decide ==
  /\ At("decide")
  /\ \E isGasLow \in BOOLEAN :
       req' = [req EXCEPT !.step = "transfer", !.fee = FeeUse(isGasLow)]
  /\ Marks("wrapping")
  /\ UNCHANGED <<payment, chain, saved, answer>>

\* A reader address of the configuration does not parse.
ConfigFails ==
  /\ At("decide")
  /\ Fails("unknown")
  /\ UNCHANGED <<payment, lock, chain, saved>>

-----------------------------------------------------------------------------
(* The wrap, the deposit and the memo *)

\* Only a fee that becomes a note is wrapped with the amount.
WrapAmountNoFee == Amount
WrapAmount == IF req.fee = "note" THEN Amount + Fee ELSE Amount

\* The transaction the request sends at its step.
Transaction ==
  [kind |-> req.step, note |-> req.note,
   size |-> IF At("transfer") THEN WrapAmount
            ELSE IF At("append") THEN memo[req.note] ELSE 0]

\* A confirmed transfer or deposit leads to the next step.
Confirmed ==
  /\ req.step \in {"transfer", "deposit"}
  /\ Executes(Transaction)
  /\ Goes(IF At("transfer") THEN "mint" ELSE "append")
  /\ UNCHANGED <<payment, lock, saved, flights, answer>>

\* No confirmation in time, or a transport error while sending, which send_ix
\* takes for a refusal: the transaction may land yet.
Unconfirmed ==
  /\ req.step \in {"transfer", "deposit", "append"}
  /\ At("append") => memo[req.note] < Chunks
  /\ flights' = flights \cup {Transaction}
  /\ \E moved \in {"unknown"} \cup (IF At("transfer") THEN {} ELSE {"no"}) :
       Fails(moved)
  /\ UNCHANGED <<payment, lock, underlying, vault, wraps, filed, memo, feeNotes,
                 saved>>

\* The transfer's errors carry no OpError; send_ix says that nothing moved when
\* the transaction was not accepted or was rejected.
Rejected ==
  /\ req.step \in {"transfer", "deposit", "append"}
  /\ At("append") => memo[req.note] < Chunks
  /\ Fails(IF At("transfer") THEN "unknown" ELSE "no")
  /\ UNCHANGED <<payment, lock, chain, saved>>

\* The confidential mint of what entered the vault, and the applied balance.
Mint ==
  /\ At("mint")
  /\ Marks("wrapped")
  /\ Goes("preflight")
  /\ UNCHANGED <<payment, chain, saved, answer>>

MintFails ==
  /\ At("mint")
  /\ Fails("unknown")
  /\ UNCHANGED <<payment, lock, chain, saved>>

\* The operator has the SOL, and the file of the envelope is opened, which
\* empties a copy an earlier request of the same note may have left.
Preflight ==
  /\ At("preflight")
  /\ saved' = [saved EXCEPT ![req.note] = "torn"]
  /\ Goes("save")
  /\ UNCHANGED <<payment, lock, chain, answer>>

\* preflight_operator_sol finds too little SOL for the rent and the fees, or
\* cannot find out; or the file does not open.
PreflightStops ==
  /\ At("preflight")
  /\ \E moved \in {"no", "unknown"} : Fails(moved)
  /\ UNCHANGED <<payment, lock, chain, saved>>

\* The envelope is on disk before the first transaction of the deposit.
SaveUnwritten ==
  /\ At("save")
  /\ Goes("deposit")
  /\ UNCHANGED <<payment, lock, chain, saved, answer>>

Save ==
  /\ At("save")
  /\ saved' = [saved EXCEPT ![req.note] = "whole"]
  /\ Goes("deposit")
  /\ UNCHANGED <<payment, lock, chain, answer>>

SaveFails ==
  /\ At("save")
  /\ Fails("unknown")
  /\ UNCHANGED <<payment, lock, chain, saved>>

Append ==
  /\ At("append")
  /\ Executes(Transaction)
  /\ UNCHANGED <<payment, lock, req, saved, flights, answer>>

\* The loop over the envelope ends when every chunk is written.
EnvelopeWrittenShort == memo[req.note] + 1 >= Chunks
EnvelopeWritten == memo[req.note] = Chunks

\* The copy goes, if the file can be removed, and the lock says done.
Finish ==
  /\ At("append")
  /\ EnvelopeWritten
  /\ saved' \in {saved, [saved EXCEPT ![req.note] = "none"]}
  /\ Marks("done")
  /\ Goes("fee")
  /\ UNCHANGED <<payment, chain, answer>>

\* The fee, best effort, after the deposit: a note of its own, which may also
\* land late, or a swap to SOL; what fails leaves the fee where it is.
FeeTransaction == [kind |-> "fee", note |-> req.note, size |-> 0]

CollectFee ==
  /\ At("fee")
  /\ \/ /\ req.fee = "note"
        /\ FeeExecutes(FeeTransaction)
        /\ UNCHANGED flights
     \/ /\ req.fee = "note"
        /\ flights' = flights \cup {FeeTransaction}
        /\ UNCHANGED <<underlying, vault, wraps, filed, memo, feeNotes>>
     \/ /\ req.fee = "gas"
        /\ underlying >= Fee
        /\ underlying' = underlying - Fee
        /\ UNCHANGED <<vault, wraps, filed, memo, feeNotes, flights>>
     \/ UNCHANGED chain
  /\ Goes("answer")
  /\ UNCHANGED <<payment, lock, saved, answer>>

Answer ==
  /\ At("answer")
  /\ req' = NoRequest
  /\ answer' = [answer EXCEPT ![req.note] = "ok"]
  /\ UNCHANGED <<payment, lock, chain, saved>>

\* The service is killed and started again: nobody answers the client.
Restart ==
  /\ ~Idle
  /\ req' = NoRequest
  /\ UNCHANGED <<payment, lock, chain, saved, answer>>

Serve ==
  \/ Verify \/ VerifyFails \/ Decide \/ ConfigFails
  \/ Confirmed \/ Unconfirmed \/ Rejected \/ Mint \/ MintFails
  \/ Preflight \/ PreflightStops \/ Save \/ SaveFails
  \/ Append \/ Finish \/ CollectFee \/ Answer

Next ==
  \/ \E n \in Payments : Pay(n) \/ PaymentLands(n) \/ PaymentExpires(n)
                         \/ Admit(n) \/ Refuse(n)
  \/ \E n \in Demos : AdmitDemo(n)
  \/ Serve
  \/ \E t \in flights : LandsLate(t) \/ Expires(t)
  \/ Restart

Spec == Init /\ [][Next]_vars

-----------------------------------------------------------------------------
(* Properties *)

\* Money of payment n moved, or may still move.
Moved(n) ==
  \/ wraps[n] > 0
  \/ n \in filed
  \/ \E t \in flights : t.note = n

\* A lock file that lets a payment be tried again says the truth: while no
\* request of it runs, nothing of it has moved on chain and nothing is in
\* flight (the stages written around ct::wrap, whatever fails between them).
RetryOnlyBeforeMoney ==
  \A n \in Payments :
    lock[n] \in {"absent", "verified"} /\ (Idle \/ req.note # n) => ~Moved(n)

\* One payment wraps the operator's money at most once, however often its
\* client repeats the request and whatever was left by a crash.
OneWrapPerPayment == \A n \in Payments : wraps[n] <= 1

\* Nothing is wrapped or filed on the strength of a payment that did not land.
MovedIsPaid == \A n \in Payments : Moved(n) => payment[n] = "landed"

\* Every note in the tree is backed: the vault holds the amount of each user
\* note and the fee of each fee note (the amount the wrap was given before it
\* was known how the deposit and the fee would end).
Backed == vault >= Amount * Cardinality(filed) + Fee * Cardinality(feeNotes)

\* A paid commitment whose envelope is not wholly on chain can still be
\* finished: the one copy of the envelope is whole on the service's disk, for a
\* payment is never deposited from twice.  (A demo request that is repeated
\* empties the copy of a note an earlier one had filed.)
EnvelopeKept ==
  \A n \in Payments : n \in filed /\ memo[n] < Chunks => saved[n] = "whole"

\* A lock that says done, and an answer that says ok, are about a note that is
\* in the tree with its whole envelope.
DoneIsDelivered ==
  \A n \in Notes :
    (answer[n] = "ok" \/ (n \in Payments /\ lock[n] = "done"))
      => n \in filed /\ memo[n] = Chunks

\* An answer whose funds_moved is no means that the money did not move and a
\* repeat is safe (preflight_operator_sol): the same request is not refused.
NoMeansRetrySafe ==
  \A n \in Payments : answer[n] = "no" => lock[n] \in {"absent", "verified"}

\* A payment of which nothing moved is not refused as already used for a
\* deposit: an earlier visit that fell over without moving anything lets the
\* client try again (the one case the lock's comment allows a repeat for).
UnusedIsNotReplay ==
  \A n \in Payments :
    payment[n] = "landed" /\ Idle /\ ~Moved(n)
      => lock[n] \notin {"empty", "done"}
=============================================================================
