------------------------ MODULE PaymentServiceProofs ------------------------
(***************************************************************************)
(* That the deposit service neither wraps a payment twice nor loses one,    *)
(* for every set of payments and demo notes, every amount and fee and every *)
(* size of envelope.  The service forgets everything but a lock file when   *)
(* it stops, and a full disk empties even that; the proof follows one note  *)
(* at a time through what the chain, the lock, the running request and the  *)
(* transactions still on their way can say about it together.               *)
(***************************************************************************)
EXTENDS PaymentService, FiniteSetTheorems, TLAPS

(* A request of note n runs and is at one of the steps.                     *)
Serves(n, steps) == req.step \in steps /\ req.note = n

(* A transaction of this kind for note n may still land.                    *)
Sent(n, kind) == \E t \in flights : t.note = n /\ t.kind = kind

BeforeMoney == {"verify", "decide", "transfer"}
BeforeDeposit == {"mint", "preflight", "save"}
AfterWrap == {"mint", "preflight", "save", "deposit", "append", "fee", "answer"}

(* What the lock file says while a request runs; a write that met a full     *)
(* disk left it empty.                                                       *)
LockFits(n) ==
  /\ Serves(n, {"verify", "decide"}) => lock[n] \in {"empty", "verified"}
  /\ Serves(n, {"transfer", "mint"}) => lock[n] \in {"empty", "wrapping"}
  /\ Serves(n, {"preflight", "save", "deposit", "append"}) => lock[n] \in {"empty", "wrapped"}
  /\ Serves(n, {"fee", "answer"}) => lock[n] \in {"empty", "done"}

(* A lock that lets a request through, and a request before its transfer,    *)
(* find nothing moved.                                                       *)
Untouched(n) ==
  lock[n] \in {"absent", "verified"} \/ Serves(n, BeforeMoney) => ~Moved(n)

(* A payment was wrapped once or not at all; what may still land is the one  *)
(* transfer that was sent for it, and only while it is not wrapped.          *)
WrapOnce(n) ==
  /\ wraps[n] \in {0, 1}
  /\ Serves(n, AfterWrap) => wraps[n] = 1
  /\ wraps[n] = 1 => ~Sent(n, "transfer")
  /\ \A t, u \in flights :
       t.note = n /\ u.note = n /\ t.kind = "transfer" /\ u.kind = "transfer" => t = u

(* The copy of a paid note's envelope is written when nothing of the note is *)
(* in the tree or on its way there.                                          *)
Fresh(n) == Serves(n, BeforeDeposit) => n \notin filed /\ ~Sent(n, "deposit")

(* Whoever goes on from a payment knows that it landed.                      *)
PaidFor(n) ==
  \/ Moved(n)
  \/ Serves(n, Steps \ {"verify"})
  \/ lock[n] \in {"verified", "wrapping", "wrapped", "done"}
  => payment[n] = "landed"

(* The envelope of a note grows with its memo account, is whole on disk      *)
(* before the deposit is sent and, of a paid note, as long as it is not whole *)
(* on chain, and is whole there when anyone says so.                          *)
EnvelopeGood(n) ==
  /\ n \in filed <=> memo[n] >= 1
  /\ n \in Payments /\ n \in filed /\ memo[n] < Chunks => saved[n] = "whole"
  /\ Serves(n, {"deposit", "append"}) => saved[n] = "whole"
  /\ n \in Payments /\ Sent(n, "deposit") => n \in filed \/ saved[n] = "whole"
  /\ \/ answer[n] = "ok"
     \/ n \in Payments /\ lock[n] = "done"
     \/ Serves(n, {"fee", "answer"})
     => memo[n] = Chunks

Course(n) ==
  /\ n \in Payments => LockFits(n) /\ Untouched(n) /\ WrapOnce(n) /\ PaidFor(n) /\ Fresh(n)
  /\ EnvelopeGood(n)

(* Transfers carry the amount, and a fee becomes a note only for a payment.  *)
TransfersGood ==
  /\ \A t \in flights : t.kind = "transfer" => t.size >= Amount
  /\ \A t \in flights : t.kind = "fee" => t.note \in Payments
  /\ ~Idle /\ req.fee = "note" => req.note \in Payments

(* Notes that are filed or may yet be filed without another transfer, and    *)
(* the same for the notes of the fees.                                       *)
Entitled ==
  {n \in Notes : \/ n \in filed \/ Sent(n, "deposit")
                 \/ n \in Payments /\ wraps[n] > 0
                 \/ Serves(n, {"mint", "preflight", "save", "deposit", "append"})}

FeeEntitled ==
  {n \in Payments :
     \/ n \in feeNotes \/ Sent(n, "fee")
     \/ /\ Serves(n, {"mint", "preflight", "save", "deposit", "append", "fee"})
        /\ req.fee = "note"}

Covered ==
  vault >= Amount * Cardinality(Entitled) + Fee * Cardinality(FeeEntitled)

IInv == TypeOK /\ TransfersGood /\ \A n \in Notes : Course(n)
-----------------------------------------------------------------------------
(* Requests, transactions and locks.                                        *)

LEMMA RequestShapes ==
  /\ NoRequest.step = "idle" /\ NoRequest \notin Requests
  /\ \A r \in Requests : r.note \in Notes /\ r.step \in Steps /\ r.fee \in FeeUses
  /\ \A n \in Notes : [note |-> n, step |-> "verify", fee |-> "treasury"] \in Requests
                      /\ [note |-> n, step |-> "decide", fee |-> "treasury"] \in Requests
BY DEF NoRequest, Requests, Steps, FeeUses

(* A step of a request in progress belongs to a note.                       *)
LEMMA Running ==
  ASSUME TypeOK, req.step \in Steps
  PROVE  /\ req \in Requests /\ req # NoRequest /\ req.note \in Notes
         /\ req.fee \in FeeUses
<1>1. "idle" \notin Steps
  BY DEF Steps
<1> QED
  BY <1>1, RequestShapes DEF TypeOK

LEMMA StepSets ==
  /\ BeforeMoney \subseteq Steps /\ AfterWrap \subseteq Steps
  /\ Steps = BeforeMoney \cup AfterWrap /\ BeforeMoney \cap AfterWrap = {}
  /\ BeforeDeposit \subseteq Steps /\ "idle" \notin Steps
BY DEF Steps, BeforeMoney, BeforeDeposit, AfterWrap

LEMMA GoesGood ==
  ASSUME NEW step \in Steps, req \in Requests, Goes(step)
  PROVE  /\ req' \in Requests /\ req'.note = req.note /\ req'.step = step
         /\ req'.fee = req.fee /\ req' # NoRequest
BY RequestShapes DEF Goes, Requests

(* A lock that is marked says what was meant, or nothing; if the file may    *)
(* fail to open, also what it said before.                                   *)
LEMMA MarksGood ==
  ASSUME TypeOK, NEW stage \in Stages, Marks(stage)
  PROVE  /\ lock' \in [Payments -> Stages]
         /\ \A n \in Payments : n # req.note => lock'[n] = lock[n]
         /\ \A n \in Payments :
              n = req.note => \/ lock'[n] \in {stage, "empty"}
                              \/ OpenMayFail /\ lock'[n] = lock[n]
<1>1. lock \in [Payments -> Stages] /\ "empty" \in Stages
  BY DEF TypeOK, Stages
<1>2. CASE req.note \in Payments
  <2>1. PICK s \in {stage, "empty", lock[req.note]} :
           /\ lock' = [lock EXCEPT ![req.note] = s]
           /\ s \in {stage, "empty"} \/ OpenMayFail
    BY <1>2 DEF Marks
  <2> QED
    BY <1>1, <2>1
<1>3. CASE req.note \notin Payments
  BY <1>1, <1>3 DEF Marks
<1> QED
  BY <1>2, <1>3

LEMMA FailsGood ==
  ASSUME TypeOK, NEW moved \in {"no", "unknown"}, Fails(moved)
  PROVE  /\ req' = NoRequest /\ req'.step = "idle"
         /\ answer' \in [Notes -> {"none", "ok", "no", "unknown"}]
         /\ \A n \in Notes : answer'[n] = "ok" => answer[n] = "ok"
<1>1. answer \in [Notes -> {"none", "ok", "no", "unknown"}]
  BY DEF TypeOK
<1>2. answer' = [answer EXCEPT ![req.note] = moved] /\ req' = NoRequest
  BY DEF Fails
<1> QED
  BY <1>1, <1>2, RequestShapes

(* What the request sends.                                                  *)
LEMMA TransactionGood ==
  ASSUME TypeOK, req.step \in {"transfer", "deposit", "append"}
  PROVE  /\ Transaction \in Flights
         /\ Transaction.kind = req.step /\ Transaction.note = req.note
         /\ req.step = "transfer" =>
              /\ Transaction.size >= Amount
              /\ req.fee = "note" => Transaction.size = Amount + Fee
<1>1. req.note \in Notes
  BY Running DEF Steps
<1>2. memo[req.note] \in Nat /\ Amount \in Nat /\ Amount + Fee \in Nat
      /\ Amount + Fee >= Amount
  BY <1>1, ServiceAssumption DEF TypeOK
<1>3. WrapAmount \in Nat /\ WrapAmount >= Amount /\ (req.fee = "note" => WrapAmount = Amount + Fee)
  BY <1>2 DEF WrapAmount
<1>4. Transaction.size \in Nat /\ (req.step = "transfer" => Transaction.size = WrapAmount)
  BY <1>2, <1>3 DEF Transaction, At
<1>5. Transaction.kind = req.step /\ Transaction.note = req.note
      /\ Transaction = [kind |-> Transaction.kind, note |-> Transaction.note,
                        size |-> Transaction.size]
  BY DEF Transaction
<1> QED
  BY <1>1, <1>3, <1>4, <1>5 DEF Flights

(* What a transaction does to the chain, note by note.                      *)
LEMMA ExecutesGood ==
  ASSUME TypeOK, NEW t \in Flights, Executes(t), t.kind = "fee" => t.note \in Payments
  PROVE  /\ underlying' \in Nat /\ vault' \in Nat /\ wraps' \in [Payments -> Nat]
         /\ filed' \subseteq Notes /\ memo' \in [Notes -> 0 .. Chunks]
         /\ feeNotes' \subseteq Payments
         /\ \A n \in Payments : n # t.note \/ t.kind # "transfer" => wraps'[n] = wraps[n]
         /\ \A n \in Payments : n = t.note /\ t.kind = "transfer" => wraps'[n] = wraps[n] + 1
         /\ \A n \in Notes :
              n # t.note \/ t.kind \notin {"deposit", "append"} => memo'[n] = memo[n]
         /\ \A n \in Notes : n # t.note \/ t.kind # "deposit" => (n \in filed' <=> n \in filed)
         /\ t.kind = "deposit" => t.note \notin filed /\ t.note \in filed' /\ memo'[t.note] = 1
         /\ t.kind = "append" => /\ t.note \in filed /\ memo[t.note] < Chunks
                                 /\ memo'[t.note] = memo[t.note] + 1
         /\ vault' = IF t.kind = "transfer" THEN vault + t.size ELSE vault
         /\ feeNotes' = IF t.kind = "fee" THEN feeNotes \cup {t.note} ELSE feeNotes
<1>1. /\ underlying \in Nat /\ vault \in Nat /\ wraps \in [Payments -> Nat]
      /\ filed \subseteq Notes /\ memo \in [Notes -> 0 .. Chunks]
      /\ feeNotes \subseteq Payments /\ t.note \in Notes /\ t.size \in Nat
      /\ Chunks \in Nat \ {0} /\ Payments \subseteq Notes
  BY ServiceAssumption DEF TypeOK, Flights, Notes
<1>2. CASE t.kind = "transfer"
  <2>1. TransferExecutes(t)
    BY <1>2 DEF Executes
  <2>2. underlying' \in Nat /\ vault' \in Nat /\ vault' = vault + t.size
    BY <1>1, <2>1 DEF TransferExecutes
  <2>3. /\ wraps' \in [Payments -> Nat]
        /\ \A n \in Payments : n # t.note => wraps'[n] = wraps[n]
        /\ \A n \in Payments : n = t.note => wraps'[n] = wraps[n] + 1
    BY <1>1, <2>1 DEF TransferExecutes
  <2>4. UNCHANGED <<filed, memo, feeNotes>>
    BY <2>1 DEF TransferExecutes
  <2> QED
    BY <1>1, <1>2, <2>2, <2>3, <2>4
<1>3. CASE t.kind = "deposit"
  BY <1>1, <1>3 DEF Executes, DepositExecutes
<1>4. CASE t.kind = "append"
  BY <1>1, <1>4 DEF Executes, AppendExecutes
<1>5. CASE t.kind = "fee"
  BY <1>1, <1>5 DEF Executes, FeeExecutes
<1> QED
  BY <1>2, <1>3, <1>4, <1>5 DEF Flights
-----------------------------------------------------------------------------
(* Types and sizes.                                                         *)

TypeNext == TypeOK' /\ TransfersGood'

(* A step that leaves the chain and the fee of the request alone.           *)
LEMMA ChainKept ==
  ASSUME TypeOK, TransfersGood, UNCHANGED chain,
         payment' \in [Payments -> {"unsent", "sent", "landed", "expired"}],
         lock' \in [Payments -> Stages], req' \in Requests \cup {NoRequest},
         saved' \in [Notes -> Copies], answer' \in [Notes -> {"none", "ok", "no", "unknown"}],
         req' # NoRequest /\ req'.fee = "note" => req'.note \in Payments
  PROVE  TypeNext
BY DEF TypeNext, TypeOK, TransfersGood, chain, Idle

LEMMA TypeKept ==
  ASSUME TypeOK, TransfersGood, [Next]_vars
  PROVE  TypeNext
<1> DEFINE Payment == payment' \in [Payments -> {"unsent", "sent", "landed", "expired"}]
           Lock == lock' \in [Payments -> Stages]
           Reply == answer' \in [Notes -> {"none", "ok", "no", "unknown"}]
<1>a. /\ payment \in [Payments -> {"unsent", "sent", "landed", "expired"}]
      /\ lock \in [Payments -> Stages] /\ req \in Requests \cup {NoRequest}
      /\ saved \in [Notes -> Copies] /\ answer \in [Notes -> {"none", "ok", "no", "unknown"}]
      /\ req # NoRequest /\ req.fee = "note" => req.note \in Payments
      /\ Payments \subseteq Notes /\ Demos \subseteq Notes
  BY DEF TypeOK, TransfersGood, Idle, Notes
<1>b. /\ {"verify", "decide", "transfer", "mint", "preflight", "save", "deposit",
          "append", "fee", "answer"} = Steps
      /\ {"absent", "empty", "verified", "wrapping", "wrapped", "done"} = Stages
  BY DEF Steps, Stages
<1>1. ASSUME NEW n \in Payments, Pay(n) PROVE TypeNext
  BY <1>1, <1>a, ChainKept DEF Pay
<1>2. ASSUME NEW n \in Payments, PaymentLands(n) PROVE TypeNext
  <2>1. underlying' \in Nat
    BY <1>2, ServiceAssumption DEF PaymentLands, TypeOK
  <2> QED
    BY <1>2, <2>1 DEF PaymentLands, TypeNext, TypeOK, TransfersGood, Idle
<1>3. ASSUME NEW n \in Payments, PaymentExpires(n) PROVE TypeNext
  BY <1>3, <1>a, ChainKept DEF PaymentExpires
<1>4. ASSUME NEW n \in Payments, Admit(n) PROVE TypeNext
  <2>1. req' \in Requests /\ req'.fee = "treasury"
    BY <1>4, <1>a, RequestShapes DEF Admit, Start
  <2>2. lock' \in [Payments -> Stages]
    BY <1>4, <1>a, <1>b DEF Admit
  <2> QED
    BY <1>4, <1>a, <2>1, <2>2, ChainKept DEF Admit, Start
<1>5. ASSUME NEW n \in Payments, Refuse(n) PROVE TypeNext
  <2>1. answer' \in [Notes -> {"none", "ok", "no", "unknown"}]
    BY <1>5, <1>a DEF Refuse
  <2> QED
    BY <1>5, <1>a, <2>1, ChainKept DEF Refuse
<1>6. ASSUME NEW n \in Demos, AdmitDemo(n) PROVE TypeNext
  <2>1. req' \in Requests /\ req'.fee = "treasury"
    BY <1>6, <1>a, RequestShapes DEF AdmitDemo, Start
  <2> QED
    BY <1>6, <1>a, <2>1, ChainKept DEF AdmitDemo, Start
<1>7. CASE Verify
  <2>1. req \in Requests
    BY <1>7, <1>b, Running DEF Verify, At
  <2>2. req' \in Requests /\ req'.note = req.note /\ req'.fee = req.fee /\ req # NoRequest
    BY <1>7, <1>b, <2>1, GoesGood, RequestShapes DEF Verify
  <2>3. lock' \in [Payments -> Stages]
    BY <1>7, <1>b, MarksGood DEF Verify
  <2> QED
    BY <1>7, <1>a, <2>2, <2>3, ChainKept DEF Verify
<1>8. CASE VerifyFails
  <2>1. lock' \in [Payments -> Stages]
    BY <1>8, <1>a, <1>b DEF VerifyFails
  <2>2. req' = NoRequest /\ Reply
    BY <1>8, FailsGood DEF VerifyFails
  <2> QED
    BY <1>8, <1>a, <2>1, <2>2, ChainKept DEF VerifyFails
<1>9. CASE Decide
  <2>1. req \in Requests
    BY <1>9, <1>b, Running DEF Decide, At
  <2>2. PICK low \in BOOLEAN :
           req' = [req EXCEPT !.step = "transfer", !.fee = FeeUse(low)]
    BY <1>9 DEF Decide
  <2>3. FeeUse(low) \in FeeUses /\ (FeeUse(low) = "note" => req.note \notin Demos)
    BY DEF FeeUse, FeeUses
  <2>4. req' \in Requests /\ req'.note = req.note /\ req'.fee = FeeUse(low)
    BY <1>b, <2>1, <2>2, <2>3 DEF Requests
  <2>5. req.note \in Notes
    BY <2>1, RequestShapes
  <2>6. lock' \in [Payments -> Stages]
    BY <1>9, <1>b, MarksGood DEF Decide
  <2> QED
    BY <1>9, <1>a, <2>3, <2>4, <2>5, <2>6, ChainKept DEF Decide, Notes
<1>10. CASE ConfigFails
  <2>1. req' = NoRequest /\ Reply
    BY <1>10, FailsGood DEF ConfigFails
  <2> QED
    BY <1>10, <1>a, <2>1, ChainKept DEF ConfigFails
<1>11. CASE Confirmed
  <2>1. /\ Transaction \in Flights /\ Executes(Transaction)
        /\ Transaction.kind \in {"transfer", "deposit"}
    BY <1>11, TransactionGood DEF Confirmed
  <2>2. /\ underlying' \in Nat /\ vault' \in Nat /\ wraps' \in [Payments -> Nat]
        /\ filed' \subseteq Notes /\ memo' \in [Notes -> 0 .. Chunks]
        /\ feeNotes' \subseteq Payments
    BY <2>1, ExecutesGood
  <2>3. req \in Requests
    BY <1>11, <1>b, Running DEF Confirmed
  <2>4. req' \in Requests /\ req'.note = req.note /\ req'.fee = req.fee /\ req # NoRequest
    BY <1>11, <1>b, <2>3, GoesGood, RequestShapes DEF Confirmed
  <2> QED
    BY <1>11, <1>a, <2>2, <2>4 DEF Confirmed, TypeNext, TypeOK, TransfersGood, Idle
<1>12. CASE Unconfirmed
  <2>1. /\ Transaction \in Flights /\ Transaction.kind # "fee"
        /\ Transaction.kind = "transfer" => Transaction.size >= Amount
    BY <1>12, TransactionGood DEF Unconfirmed
  <2>2. req' = NoRequest /\ Reply
    BY <1>12, FailsGood DEF Unconfirmed
  <2>3. flights' = flights \cup {Transaction}
    BY <1>12 DEF Unconfirmed
  <2> QED
    BY <1>12, <1>a, <2>1, <2>2, <2>3 DEF Unconfirmed, TypeNext, TypeOK, TransfersGood, Idle
<1>13. CASE Rejected
  <2>1. req' = NoRequest /\ Reply
    BY <1>13, FailsGood DEF Rejected
  <2> QED
    BY <1>13, <1>a, <2>1, ChainKept DEF Rejected
<1>14. CASE Mint
  <2>1. req \in Requests
    BY <1>14, <1>b, Running DEF Mint, At
  <2>2. req' \in Requests /\ req'.note = req.note /\ req'.fee = req.fee /\ req # NoRequest
    BY <1>14, <1>b, <2>1, GoesGood, RequestShapes DEF Mint
  <2>3. lock' \in [Payments -> Stages]
    BY <1>14, <1>b, MarksGood DEF Mint
  <2> QED
    BY <1>14, <1>a, <2>2, <2>3, ChainKept DEF Mint
<1>15. CASE MintFails
  <2>1. req' = NoRequest /\ Reply
    BY <1>15, FailsGood DEF MintFails
  <2> QED
    BY <1>15, <1>a, <2>1, ChainKept DEF MintFails
<1>16. CASE Preflight
  <2>1. req \in Requests /\ req.note \in Notes
    BY <1>16, <1>b, Running DEF Preflight, At
  <2>2. req' \in Requests /\ req'.note = req.note /\ req'.fee = req.fee /\ req # NoRequest
    BY <1>16, <1>b, <2>1, GoesGood, RequestShapes DEF Preflight
  <2>3. saved' \in [Notes -> Copies]
    BY <1>16, <1>a, <2>1 DEF Preflight, Copies
  <2> QED
    BY <1>16, <1>a, <2>2, <2>3, ChainKept DEF Preflight
<1>17. CASE PreflightStops
  <2>1. req' = NoRequest /\ Reply
    BY <1>17, FailsGood DEF PreflightStops
  <2> QED
    BY <1>17, <1>a, <2>1, ChainKept DEF PreflightStops
<1>18. CASE Append
  <2>1. Transaction \in Flights /\ Executes(Transaction) /\ Transaction.kind = "append"
    BY <1>18, TransactionGood DEF Append, At
  <2>2. /\ underlying' \in Nat /\ vault' \in Nat /\ wraps' \in [Payments -> Nat]
        /\ filed' \subseteq Notes /\ memo' \in [Notes -> 0 .. Chunks]
        /\ feeNotes' \subseteq Payments
    BY <2>1, ExecutesGood
  <2> QED
    BY <1>18, <1>a, <2>2 DEF Append, TypeNext, TypeOK, TransfersGood, Idle
<1>19. CASE Finish
  <2>1. req \in Requests
    BY <1>19, <1>b, Running DEF Finish, At
  <2>2. req' \in Requests /\ req'.note = req.note /\ req'.fee = req.fee /\ req # NoRequest
    BY <1>19, <1>b, <2>1, GoesGood, RequestShapes DEF Finish
  <2>3. lock' \in [Payments -> Stages]
    BY <1>19, <1>b, MarksGood DEF Finish
  <2>4. saved' \in [Notes -> Copies]
    BY <1>19, <1>a DEF Finish, Copies
  <2> QED
    BY <1>19, <1>a, <2>2, <2>3, <2>4, ChainKept DEF Finish
<1>20. CASE CollectFee
  <2>1. req \in Requests
    BY <1>20, <1>b, Running DEF CollectFee, At
  <2>2. req' \in Requests /\ req'.note = req.note /\ req'.fee = req.fee /\ req # NoRequest
    BY <1>20, <1>b, <2>1, GoesGood, RequestShapes DEF CollectFee
  <2>3. /\ UNCHANGED <<payment, lock, saved, answer, vault, wraps, filed, memo>>
        /\ underlying' \in Nat
    BY <1>20, ServiceAssumption DEF CollectFee, FeeExecutes, chain, TypeOK
  <2>4. /\ feeNotes' \subseteq Payments /\ flights' \subseteq Flights
        /\ flights' \subseteq flights \cup {FeeTransaction}
        /\ FeeTransaction \in flights' \ flights => req.note \in Payments
        /\ FeeTransaction.kind = "fee" /\ FeeTransaction.note = req.note
    <3>1. req.fee = "note" => req.note \in Payments
      BY <1>a, <2>2
    <3>2. req.note \in Notes
      BY <2>1, RequestShapes
    <3>3. FeeTransaction \in Flights
      BY <3>2 DEF FeeTransaction, Flights
    <3>4. FeeTransaction.kind = "fee" /\ FeeTransaction.note = req.note
      BY DEF FeeTransaction
    <3>5. feeNotes \subseteq Payments /\ flights \subseteq Flights
      BY DEF TypeOK
    <3> QED
      BY <1>20, <3>1, <3>3, <3>4, <3>5 DEF CollectFee, FeeExecutes, chain
  <2> QED
    BY <1>a, <2>2, <2>3, <2>4 DEF TypeNext, TypeOK, TransfersGood, Idle
<1>21. CASE Answer
  <2>1. answer' \in [Notes -> {"none", "ok", "no", "unknown"}] /\ req' = NoRequest
    BY <1>21, <1>a DEF Answer
  <2> QED
    BY <1>21, <1>a, <2>1, ChainKept DEF Answer
<1>22. ASSUME NEW t \in flights, LandsLate(t) PROVE TypeNext
  <2>1. /\ t \in Flights /\ Executes(t) /\ (t.kind = "fee" => t.note \in Payments)
    BY <1>22 DEF LandsLate, TypeOK, TransfersGood
  <2>2. /\ underlying' \in Nat /\ vault' \in Nat /\ wraps' \in [Payments -> Nat]
        /\ filed' \subseteq Notes /\ memo' \in [Notes -> 0 .. Chunks]
        /\ feeNotes' \subseteq Payments
    BY <2>1, ExecutesGood
  <2> QED
    BY <1>22, <1>a, <2>2 DEF LandsLate, TypeNext, TypeOK, TransfersGood, Idle
<1>23. ASSUME NEW t \in flights, Expires(t) PROVE TypeNext
  BY <1>23 DEF Expires, TypeNext, TypeOK, TransfersGood, Idle
<1>24. CASE Restart
  BY <1>24, <1>a, ChainKept DEF Restart
<1>25. CASE UNCHANGED vars
  BY <1>25, <1>a, ChainKept DEF vars, chain
<1>26. CASE Save
  <2>1. req \in Requests /\ req.note \in Notes
    BY <1>26, <1>b, Running DEF Save, At
  <2>2. req' \in Requests /\ req'.note = req.note /\ req'.fee = req.fee /\ req # NoRequest
    BY <1>26, <1>b, <2>1, GoesGood, RequestShapes DEF Save
  <2>3. saved' \in [Notes -> Copies]
    BY <1>26, <1>a, <2>1 DEF Save, Copies
  <2> QED
    BY <1>26, <1>a, <2>2, <2>3, ChainKept DEF Save
<1>27. CASE SaveFails
  <2>1. req' = NoRequest /\ Reply
    BY <1>27, FailsGood DEF SaveFails
  <2> QED
    BY <1>27, <1>a, <2>1, ChainKept DEF SaveFails
<1> QED
  BY <1>1, <1>2, <1>3, <1>4, <1>5, <1>6, <1>7, <1>8, <1>9, <1>10, <1>11, <1>12, <1>13,
     <1>14, <1>15, <1>16, <1>17, <1>18, <1>19, <1>20, <1>21, <1>22, <1>23, <1>24, <1>25,
     <1>26, <1>27
  DEF Next, Serve
-----------------------------------------------------------------------------
(* One note at a time.                                                      *)

(* A step that concerns other notes, or ends what was going on with n.      *)
Quiet(n) ==
  /\ n \in Payments => /\ lock'[n] = lock[n] /\ wraps'[n] = wraps[n]
                       /\ payment[n] = "landed" => payment'[n] = "landed"
  /\ memo'[n] = memo[n] /\ (n \in filed' <=> n \in filed)
  /\ saved[n] = "whole" => saved'[n] = "whole"
  /\ answer'[n] = "ok" => answer[n] = "ok"
  /\ \A t \in flights' : t.note = n => t \in flights
  /\ req'.note = n /\ req'.step \in Steps => req.note = n /\ req.step = req'.step

LEMMA QuietCourse ==
  ASSUME NEW n \in Notes, Course(n), Quiet(n)
  PROVE  Course(n)'
<1>1. Sent(n, "transfer")' => Sent(n, "transfer")
  BY DEF Quiet, Sent
<1>2. Sent(n, "deposit")' => Sent(n, "deposit")
  BY DEF Quiet, Sent
<1>3. \A steps \in SUBSET Steps : Serves(n, steps)' => Serves(n, steps)
  BY DEF Quiet, Serves
<1>4. n \in Payments /\ Moved(n)' => Moved(n)
  BY DEF Quiet, Moved
<1>5. EnvelopeGood(n)'
  <2>1. Serves(n, {"deposit", "append"})' => Serves(n, {"deposit", "append"})
    BY <1>3 DEF Steps
  <2>2. Serves(n, {"fee", "answer"})' => Serves(n, {"fee", "answer"})
    BY <1>3 DEF Steps
  <2> QED
    BY <1>2, <2>1, <2>2 DEF Course, EnvelopeGood, Quiet
<1>6. ASSUME n \in Payments PROVE LockFits(n)'
  <2>1. Serves(n, {"verify", "decide"})' => Serves(n, {"verify", "decide"})
    BY <1>3 DEF Steps
  <2>2. Serves(n, {"transfer", "mint"})' => Serves(n, {"transfer", "mint"})
    BY <1>3 DEF Steps
  <2>3. Serves(n, {"preflight", "save", "deposit", "append"})'
          => Serves(n, {"preflight", "save", "deposit", "append"})
    BY <1>3 DEF Steps
  <2>4. Serves(n, {"fee", "answer"})' => Serves(n, {"fee", "answer"})
    BY <1>3 DEF Steps
  <2> QED
    BY <1>6, <2>1, <2>2, <2>3, <2>4 DEF Course, LockFits, Quiet
<1>7. ASSUME n \in Payments PROVE Untouched(n)' /\ WrapOnce(n)' /\ PaidFor(n)' /\ Fresh(n)'
  <2>1. Serves(n, BeforeMoney)' => Serves(n, BeforeMoney)
    BY <1>3, StepSets DEF BeforeMoney
  <2>2. Serves(n, AfterWrap)' => Serves(n, AfterWrap)
    BY <1>3, StepSets DEF AfterWrap
  <2>3. Serves(n, Steps \ {"verify"})' => Serves(n, Steps \ {"verify"})
    BY DEF Quiet, Serves
  <2>4. Untouched(n)'
    BY <1>4, <1>7, <2>1 DEF Course, Untouched, Quiet
  <2>5. WrapOnce(n)'
    BY <1>1, <1>7, <2>2 DEF Course, WrapOnce, Quiet
  <2>6. PaidFor(n)'
    BY <1>4, <1>7, <2>3 DEF Course, PaidFor, Quiet
  <2>7. Serves(n, BeforeDeposit)' => Serves(n, BeforeDeposit)
    BY <1>3, StepSets
  <2>8. Fresh(n)'
    BY <1>2, <1>7, <2>7 DEF Course, Fresh, Quiet
  <2> QED
    BY <2>4, <2>5, <2>6, <2>8
<1> QED
  BY <1>5, <1>6, <1>7 DEF Course

(* Nothing but the running request and transactions on their way change.    *)
LEMMA LessGoingOn ==
  ASSUME UNCHANGED <<lock, wraps, memo, filed, saved>>, flights' \subseteq flights,
         UNCHANGED payment, \A n \in Notes : answer'[n] = "ok" => answer[n] = "ok",
         req'.step \in Steps => req' = req
  PROVE  \A n \in Notes : Quiet(n)
BY DEF Quiet

(* The transaction of a note lands late.                                    *)
LEMMA LateCourse ==
  ASSUME IInv, NEW t \in flights, LandsLate(t), NEW n \in Notes
  PROVE  Course(n)'
<1>1. t \in Flights /\ Executes(t) /\ (t.kind = "fee" => t.note \in Payments)
  BY DEF IInv, TypeOK, TransfersGood, LandsLate
<1>2. /\ \A k \in Payments : k # t.note \/ t.kind # "transfer" => wraps'[k] = wraps[k]
      /\ \A k \in Payments : k = t.note /\ t.kind = "transfer" => wraps'[k] = wraps[k] + 1
      /\ \A k \in Notes :
           k # t.note \/ t.kind \notin {"deposit", "append"} => memo'[k] = memo[k]
      /\ \A k \in Notes : k # t.note \/ t.kind # "deposit" => (k \in filed' <=> k \in filed)
      /\ t.kind = "deposit" => t.note \notin filed /\ t.note \in filed' /\ memo'[t.note] = 1
      /\ t.kind = "append" => /\ t.note \in filed /\ memo[t.note] < Chunks
                              /\ memo'[t.note] = memo[t.note] + 1
  BY <1>1, ExecutesGood DEF IInv
<1>3. flights' = flights \ {t} /\ UNCHANGED <<payment, lock, req, saved, answer>>
  BY DEF LandsLate
<1>4. Course(n) /\ t.note \in Notes /\ t.kind \in {"transfer", "deposit", "append", "fee"}
  BY <1>1 DEF IInv, Flights
<1>5. CASE t.note # n \/ t.kind = "fee"
  <2>1. Quiet(n)
    BY <1>2, <1>3, <1>5 DEF Quiet
  <2> QED
    BY <1>4, <2>1, QuietCourse
<1>6. CASE t.note = n /\ t.kind # "fee"
  <2>1. /\ memo[n] \in 0 .. Chunks /\ Chunks \in Nat \ {0}
        /\ n \in Payments => wraps[n] \in {0, 1}
    BY <1>4, ServiceAssumption DEF IInv, TypeOK, Course, WrapOnce
  <2>2. \A kind : Sent(n, kind)' => Sent(n, kind)
    BY <1>3 DEF Sent
  <2>3. \A steps : Serves(n, steps)' <=> Serves(n, steps)
    BY <1>3 DEF Serves
  <2>4. Sent(n, t.kind)
    BY <1>6 DEF Sent
  <2>5. EnvelopeGood(n)'
    BY <1>2, <1>3, <1>4, <1>6, <2>1, <2>2, <2>3, <2>4 DEF Course, EnvelopeGood
  <2>6. ASSUME n \in Payments
        PROVE  LockFits(n)' /\ Untouched(n)' /\ WrapOnce(n)' /\ PaidFor(n)' /\ Fresh(n)'
    <3>1. Moved(n)
      BY <1>6 DEF Moved
    <3>2. payment[n] = "landed" /\ lock[n] \notin {"absent", "verified"}
          /\ ~Serves(n, BeforeMoney)
      BY <1>4, <2>6, <3>1 DEF Course, PaidFor, Untouched
    <3>3. LockFits(n)'
      BY <1>3, <1>4, <2>3, <2>6 DEF Course, LockFits
    <3>4. Untouched(n)' /\ PaidFor(n)'
      BY <1>3, <2>3, <3>2 DEF Untouched, PaidFor
    <3>5. WrapOnce(n)'
      <4>1. CASE t.kind = "transfer"
        <5>1. wraps[n] = 0 /\ ~Serves(n, AfterWrap) /\ wraps'[n] = 1
          BY <1>2, <1>4, <1>6, <2>1, <2>4, <2>6, <4>1 DEF Course, WrapOnce
        <5>2. ~Sent(n, "transfer")'
          BY <1>3, <1>4, <1>6, <2>6, <4>1 DEF Course, WrapOnce, Sent
        <5> QED
          BY <1>3, <1>4, <2>3, <2>6, <5>1, <5>2 DEF Course, WrapOnce
      <4>2. CASE t.kind # "transfer"
        BY <1>2, <1>3, <1>4, <2>2, <2>3, <2>6, <4>2 DEF Course, WrapOnce
      <4> QED
        BY <4>1, <4>2
    <3>6. Fresh(n)'
      BY <1>2, <1>4, <1>6, <2>2, <2>3, <2>4, <2>6 DEF Course, Fresh
    <3> QED
      BY <3>3, <3>4, <3>5, <3>6
  <2> QED
    BY <2>5, <2>6 DEF Course
<1> QED
  BY <1>5, <1>6

(* Where a request of note n stands, in the terms the proof asks for it.    *)
Stands(n, s) ==
  /\ Serves(n, {"verify", "decide"}) <=> s \in {"verify", "decide"}
  /\ Serves(n, {"transfer", "mint"}) <=> s \in {"transfer", "mint"}
  /\ Serves(n, {"preflight", "save", "deposit", "append"}) <=>
       s \in {"preflight", "save", "deposit", "append"}
  /\ Serves(n, BeforeDeposit) <=> s \in {"mint", "preflight", "save"}
  /\ Serves(n, {"deposit", "append"}) <=> s \in {"deposit", "append"}
  /\ Serves(n, {"fee", "answer"}) <=> s \in {"fee", "answer"}
  /\ Serves(n, BeforeMoney) <=> s \in {"verify", "decide", "transfer"}
  /\ Serves(n, AfterWrap) <=>
       s \in {"mint", "preflight", "save", "deposit", "append", "fee", "answer"}
  /\ Serves(n, Steps \ {"verify"}) <=> s \notin {"verify", "idle"}

LEMMA StandsNow ==
  ASSUME NEW n, NEW s \in Steps \cup {"idle"}, req.step = s, req.note = n \/ s = "idle"
  PROVE  Stands(n, s)
BY DEF Stands, Serves, BeforeMoney, BeforeDeposit, AfterWrap, Steps

LEMMA StandsNext ==
  ASSUME NEW n, NEW s \in Steps \cup {"idle"}, req'.step = s, req'.note = n \/ s = "idle"
  PROVE  Stands(n, s)'
BY DEF Stands, Serves, BeforeMoney, BeforeDeposit, AfterWrap, Steps

(* A step of the request of note n that sends nothing: what it must leave.   *)
LEMMA ServedCourse ==
  ASSUME NEW n \in Notes, Course(n), UNCHANGED <<payment, chain>>,
         answer'[n] = "ok" => answer[n] = "ok", NEW s, NEW r, Stands(n, s), Stands(n, r)',
         n \in Payments /\ n \in filed /\ saved[n] = "whole"
           => saved'[n] = "whole" \/ memo[n] = Chunks,
         r \in {"deposit", "append"} => saved'[n] = "whole",
         n \in Payments /\ Sent(n, "deposit") /\ n \notin filed => saved'[n] = "whole",
         r \in {"fee", "answer"} \/ (n \in Payments /\ lock'[n] = "done") => memo[n] = Chunks,
         n \in Payments =>
           /\ r \in {"verify", "decide"} => lock'[n] \in {"empty", "verified"}
           /\ r \in {"transfer", "mint"} => lock'[n] \in {"empty", "wrapping"}
           /\ r \in {"preflight", "save", "deposit", "append"} => lock'[n] \in {"empty", "wrapped"}
           /\ r \in {"fee", "answer"} => lock'[n] \in {"empty", "done"}
           /\ lock'[n] \in {"absent", "verified"}
                \/ r \in {"verify", "decide", "transfer"} => ~Moved(n)
           /\ r \in {"mint", "preflight", "save", "deposit", "append", "fee", "answer"}
                => wraps[n] = 1
           /\ r \in {"mint", "preflight", "save"} => n \notin filed /\ ~Sent(n, "deposit")
           /\ r \notin {"verify", "idle"}
                \/ lock'[n] \in {"verified", "wrapping", "wrapped", "done"}
                => payment[n] = "landed"
  PROVE  Course(n)'
<1>1. /\ Moved(n)' <=> Moved(n)
      /\ Sent(n, "transfer")' <=> Sent(n, "transfer")
      /\ Sent(n, "deposit")' <=> Sent(n, "deposit")
  BY DEF Moved, Sent, chain
<1>2. EnvelopeGood(n)'
  <2>1. UNCHANGED <<memo, filed>> /\ EnvelopeGood(n)
    BY DEF Course, chain
  <2>2. n \in Payments /\ n \in filed' /\ memo'[n] < Chunks => saved'[n] = "whole"
    BY <2>1, ServiceAssumption DEF EnvelopeGood
  <2>3. Serves(n, {"deposit", "append"})' => saved'[n] = "whole"
    BY DEF Stands
  <2>4. n \in Payments /\ Sent(n, "deposit")' => n \in filed' \/ saved'[n] = "whole"
    BY <1>1, <2>1
  <2>5. Serves(n, {"fee", "answer"})' => memo'[n] = Chunks
    BY <2>1 DEF Stands
  <2> QED
    BY <2>1, <2>2, <2>3, <2>4, <2>5 DEF EnvelopeGood
<1>3. ASSUME n \in Payments
      PROVE  LockFits(n)' /\ Untouched(n)' /\ WrapOnce(n)' /\ PaidFor(n)' /\ Fresh(n)'
  <2>1. LockFits(n)'
    BY <1>3 DEF LockFits, Stands
  <2>2. Untouched(n)'
    BY <1>1, <1>3 DEF Untouched, Stands
  <2>3. WrapOnce(n)'
    BY <1>1, <1>3 DEF Course, WrapOnce, Stands, chain
  <2>4. PaidFor(n)'
    BY <1>1, <1>3 DEF Course, PaidFor, Stands
  <2>5. Fresh(n)'
    BY <1>1, <1>3 DEF Fresh, Stands, chain
  <2> QED
    BY <2>1, <2>2, <2>3, <2>4, <2>5
<1> QED
  BY <1>2, <1>3 DEF Course

(* Other notes than the one served.                                         *)
LEMMA OthersQuiet ==
  ASSUME NEW n \in Notes, NEW k, n # k, UNCHANGED <<payment, chain>>,
         req'.note = k \/ req'.step = "idle",
         n \in Payments => lock'[n] = lock[n],
         saved[n] = "whole" => saved'[n] = "whole",
         answer'[n] = "ok" => answer[n] = "ok"
  PROVE  Quiet(n)
BY StepSets DEF Quiet, chain

(* The steps of a request that send nothing and go on.                      *)
LEMMA OnwardCourse ==
  ASSUME IInv, ~OpenMayFail, Verify \/ Decide \/ Mint \/ Preflight \/ Save \/ Finish, NEW n \in Notes
  PROVE  Course(n)'
<1> DEFINE k == req.note
<1>a. /\ req.step \in Steps
      /\ {"verify", "decide", "transfer", "mint", "preflight", "save", "deposit", "append", "fee"}
           \subseteq Steps
      /\ {"verified", "wrapping", "wrapped", "done"} \subseteq Stages
  BY DEF Verify, Decide, Mint, Preflight, Save, Finish, At, Steps, Stages
<1>b. req \in Requests /\ k \in Notes /\ TypeOK
  BY <1>a, Running DEF IInv
<1>c. Course(n)
  BY DEF IInv
<1>d. UNCHANGED <<payment, chain, answer>>
  BY DEF Verify, Decide, Mint, Preflight, Save, Finish
<1>e. /\ req'.note = k
      /\ Verify => req'.step = "decide"
      /\ Decide => req'.step = "transfer"
      /\ Mint => req'.step = "preflight"
      /\ Preflight => req'.step = "save"
      /\ Save => req'.step = "deposit"
      /\ Finish => req'.step = "fee"
  <2>1. Verify \/ Mint \/ Preflight \/ Save \/ Finish \/ Decide
    OBVIOUS
  <2>2. CASE Verify
    BY <1>a, <1>b, <2>2, GoesGood DEF Verify, Decide, Mint, Preflight, Save, Finish, At
  <2>3. CASE Mint
    BY <1>a, <1>b, <2>3, GoesGood DEF Verify, Decide, Mint, Preflight, Save, Finish, At
  <2>4. CASE Preflight
    BY <1>a, <1>b, <2>4, GoesGood DEF Verify, Decide, Mint, Preflight, Save, Finish, At
  <2>5. CASE Finish
    BY <1>a, <1>b, <2>5, GoesGood DEF Verify, Decide, Mint, Preflight, Save, Finish, At
  <2>6. CASE Decide
    BY <1>b, <2>6 DEF Verify, Decide, Mint, Preflight, Save, Finish, At, Requests
  <2>7. CASE Save
    BY <1>a, <1>b, <2>7, GoesGood DEF Verify, Decide, Mint, Preflight, Save, Finish, At
  <2> QED
    BY <2>1, <2>2, <2>3, <2>4, <2>5, <2>6, <2>7
<1>f. /\ \A m \in Payments : m # k => lock'[m] = lock[m]
      /\ Verify => (k \in Payments => lock'[k] \in {"verified", "empty"})
      /\ Decide => (k \in Payments => lock'[k] \in {"wrapping", "empty"})
      /\ Mint => (k \in Payments => lock'[k] \in {"wrapped", "empty"})
      /\ Finish => (k \in Payments => lock'[k] \in {"done", "empty"})
      /\ Preflight \/ Save => lock' = lock
  <2>1. Verify => Marks("verified")
    BY DEF Verify
  <2>2. Decide => Marks("wrapping")
    BY DEF Decide
  <2>3. Mint => Marks("wrapped")
    BY DEF Mint
  <2>4. Finish => Marks("done")
    BY DEF Finish
  <2>5. Preflight \/ Save => lock' = lock
    BY DEF Preflight, Save
  <2> HIDE DEF k
  <2>6. \A stage \in Stages :
          Marks(stage) => /\ \A m \in Payments : m # req.note => lock'[m] = lock[m]
                          /\ req.note \in Payments => lock'[req.note] \in {stage, "empty"}
    BY <1>b, MarksGood
  <2>7. k = req.note
    BY DEF k
  <2>8. Verify \/ Decide \/ Mint \/ Finish => \A m \in Payments : m # k => lock'[m] = lock[m]
    BY <1>a, <2>1, <2>2, <2>3, <2>4, <2>6, <2>7
  <2> QED
    BY <1>a, <2>1, <2>2, <2>3, <2>4, <2>5, <2>6, <2>7, <2>8
<1>g. /\ \A m \in Notes : m # k => saved'[m] = saved[m]
      /\ Verify \/ Decide \/ Mint => saved' = saved
      /\ Save => saved'[k] = "whole"
      /\ Finish => memo[k] = Chunks /\ req.step = "append"
  BY <1>b DEF Verify, Decide, Mint, Preflight, Save, Finish, EnvelopeWritten, At, TypeOK
<1> HIDE DEF k
<1>1. CASE n # k
  BY <1>1, <1>c, <1>d, <1>e, <1>f, <1>g, OthersQuiet, QuietCourse
<1>2. CASE n = k
  <2>1. req.step \in Steps /\ req.note = n /\ Stands(n, req.step)
    BY <1>2, <1>a, StandsNow DEF k
  <2>2. EnvelopeGood(n) /\ (n \in Payments => LockFits(n) /\ Untouched(n) /\ WrapOnce(n) /\ PaidFor(n) /\ Fresh(n))
    BY <1>c DEF Course
  <2>3. CASE Verify
    <3>1. req.step = "verify" /\ payment[n] = "landed"
      BY <1>2, <2>3 DEF Verify, Verified, At, k
    <3>2. Stands(n, "verify") /\ Stands(n, "decide")'
      BY <1>2, <1>a, <1>e, <2>1, <2>3, <3>1, StandsNext
    <3>3. n \in Payments => ~Moved(n) /\ lock'[n] \in {"verified", "empty"}
      BY <1>2, <1>f, <2>2, <2>3, <3>2 DEF Untouched, Stands
    <3> QED
      BY <1>2, <1>c, <1>d, <1>g, <2>2, <2>3, <3>1, <3>2, <3>3, ServedCourse DEF EnvelopeGood
  <2>4. CASE Decide
    <3>1. req.step = "decide"
      BY <2>4 DEF Decide, At
    <3>2. Stands(n, "decide") /\ Stands(n, "transfer")'
      BY <1>2, <1>a, <1>e, <2>1, <2>4, <3>1, StandsNext
    <3>3. n \in Payments => ~Moved(n) /\ payment[n] = "landed" /\ lock'[n] \in {"wrapping", "empty"}
      BY <1>2, <1>f, <2>2, <2>4, <3>2 DEF Untouched, PaidFor, Stands
    <3> QED
      BY <1>2, <1>c, <1>d, <1>g, <2>2, <2>4, <3>1, <3>2, <3>3, ServedCourse DEF EnvelopeGood
  <2>5. CASE Mint
    <3>1. req.step = "mint"
      BY <2>5 DEF Mint, At
    <3>2. Stands(n, "mint") /\ Stands(n, "preflight")'
      BY <1>2, <1>a, <1>e, <2>1, <2>5, <3>1, StandsNext
    <3>3. n \in Payments => wraps[n] = 1 /\ payment[n] = "landed" /\ lock'[n] \in {"wrapped", "empty"}
      BY <1>2, <1>f, <2>2, <2>5, <3>2 DEF WrapOnce, PaidFor, Stands
    <3>4. n \in Payments => n \notin filed /\ ~Sent(n, "deposit")
      BY <2>2, <3>2 DEF Fresh, Stands
    <3> QED
      BY <1>2, <1>c, <1>d, <1>g, <2>2, <2>5, <3>1, <3>2, <3>3, <3>4, ServedCourse DEF EnvelopeGood
  <2>6. CASE Preflight
    <3>1. req.step = "preflight"
      BY <2>6 DEF Preflight, At
    <3>2. Stands(n, "preflight") /\ Stands(n, "save")'
      BY <1>2, <1>a, <1>e, <2>1, <2>6, <3>1, StandsNext
    <3>3. n \in Payments => wraps[n] = 1 /\ payment[n] = "landed" /\ lock'[n] \in {"wrapped", "empty"}
      BY <1>2, <1>f, <2>2, <2>6, <3>2 DEF WrapOnce, PaidFor, LockFits, Stands
    <3>4. n \in Payments => n \notin filed /\ ~Sent(n, "deposit")
      BY <2>2, <3>2 DEF Fresh, Stands
    <3> QED
      BY <1>2, <1>c, <1>d, <2>2, <2>6, <3>1, <3>2, <3>3, <3>4, ServedCourse
  <2>8. CASE Save
    <3>1. req.step = "save"
      BY <2>8 DEF Save, At
    <3>2. Stands(n, "save") /\ Stands(n, "deposit")'
      BY <1>2, <1>a, <1>e, <2>1, <2>8, <3>1, StandsNext
    <3>3. n \in Payments => wraps[n] = 1 /\ payment[n] = "landed" /\ lock'[n] \in {"wrapped", "empty"}
      BY <1>2, <1>f, <2>2, <2>8, <3>2 DEF WrapOnce, PaidFor, LockFits, Stands
    <3> QED
      BY <1>2, <1>c, <1>d, <1>g, <2>2, <2>8, <3>1, <3>2, <3>3, ServedCourse
  <2>7. CASE Finish
    <3>1. req.step = "append" /\ memo[n] = Chunks /\ Chunks \in Nat \ {0}
      BY <1>2, <1>g, <2>7, ServiceAssumption DEF Finish, At
    <3>2. Stands(n, "append") /\ Stands(n, "fee")'
      BY <1>2, <1>a, <1>e, <2>1, <2>7, <3>1, StandsNext
    <3>3. n \in Payments => wraps[n] = 1 /\ payment[n] = "landed" /\ lock'[n] \in {"done", "empty"}
      BY <1>2, <1>f, <2>2, <2>7, <3>2 DEF WrapOnce, PaidFor, Stands
    <3>4. n \in filed
      BY <2>2, <3>1 DEF EnvelopeGood
    <3> QED
      BY <1>2, <1>c, <1>d, <3>1, <3>2, <3>3, <3>4, ServedCourse
  <2> QED
    BY <2>3, <2>4, <2>5, <2>6, <2>7, <2>8
<1> QED
  BY <1>1, <1>2

(* The first step of a request, a verification that fails, the answer.      *)
LEMMA EndsCourse ==
  ASSUME IInv, NEW n \in Notes,
         \/ \E k \in Payments : Admit(k)
         \/ \E k \in Demos : AdmitDemo(k)
         \/ VerifyFails \/ Answer
  PROVE  Course(n)'
<1>a. Course(n) /\ lock \in [Payments -> Stages] /\ answer \in [Notes -> {"none", "ok", "no", "unknown"}]
  BY DEF IInv, TypeOK
<1>b. EnvelopeGood(n) /\ (n \in Payments => LockFits(n) /\ Untouched(n) /\ WrapOnce(n) /\ PaidFor(n) /\ Fresh(n))
  BY <1>a DEF Course
<1>c. {"verify", "decide", "answer"} \subseteq Steps
  BY DEF Steps
<1>1. ASSUME NEW k \in Payments, Admit(k) PROVE Course(n)'
  <2>1. /\ req = NoRequest /\ UNCHANGED <<payment, chain, saved, answer>>
        /\ req' = [note |-> k, step |-> "verify", fee |-> "treasury"]
        /\ lock[k] \in {"absent", "verified"}
        /\ lock' = IF lock[k] = "absent" THEN [lock EXCEPT ![k] = "empty"] ELSE lock
    BY <1>1 DEF Admit, Start, Idle, Resumable
  <2>2. req.step = "idle" /\ req'.step = "verify" /\ req'.note = k
    BY <2>1, RequestShapes
  <2>3. /\ \A m \in Payments : m # k => lock'[m] = lock[m]
        /\ lock'[k] \in {"empty", "verified"} /\ (lock'[k] = "verified" => lock[k] = "verified")
    BY <1>a, <2>1
  <2>4. CASE n # k
    BY <1>a, <2>1, <2>2, <2>3, <2>4, OthersQuiet, QuietCourse
  <2>5. CASE n = k
    <3>1. Stands(n, "idle") /\ Stands(n, "verify")'
      BY <1>c, <2>2, <2>5, StandsNow, StandsNext
    <3>2. ~Moved(n) /\ (lock'[n] = "verified" => payment[n] = "landed")
      BY <1>b, <2>1, <2>3, <2>5 DEF Untouched, PaidFor
    <3>3. /\ saved' = saved
          /\ n \in Payments /\ Sent(n, "deposit") /\ n \notin filed => saved'[n] = "whole"
      BY <1>b, <2>1 DEF EnvelopeGood
    <3> QED
      BY <1>a, <2>1, <2>3, <2>5, <3>1, <3>2, <3>3, ServedCourse
  <2> QED
    BY <2>4, <2>5
<1>2. ASSUME NEW k \in Demos, AdmitDemo(k) PROVE Course(n)'
  <2>1. /\ req = NoRequest /\ UNCHANGED <<payment, lock, chain, saved, answer>>
        /\ req' = [note |-> k, step |-> "decide", fee |-> "treasury"]
    BY <1>2 DEF AdmitDemo, Start, Idle
  <2>2. req.step = "idle" /\ req'.step = "decide" /\ req'.note = k /\ k \notin Payments
    BY <2>1, RequestShapes, ServiceAssumption
  <2>3. CASE n # k
    BY <1>a, <2>1, <2>2, <2>3, OthersQuiet, QuietCourse
  <2>4. CASE n = k
    <3>1. Stands(n, "idle") /\ Stands(n, "decide")'
      BY <1>c, <2>2, <2>4, StandsNow, StandsNext
    <3>2. /\ saved' = saved
          /\ n \in Payments /\ Sent(n, "deposit") /\ n \notin filed => saved'[n] = "whole"
      BY <1>b, <2>1 DEF EnvelopeGood
    <3> QED
      BY <1>a, <2>1, <2>2, <2>4, <3>1, <3>2, ServedCourse
  <2> QED
    BY <2>3, <2>4
<1>3. CASE VerifyFails
  <2> DEFINE k == req.note
  <2>1. /\ lock' = [lock EXCEPT ![k] = "absent"] /\ UNCHANGED <<payment, chain, saved>>
        /\ req.step = "verify"
    BY <1>3 DEF VerifyFails, At
  <2>2. req'.step = "idle" /\ \A m \in Notes : answer'[m] = "ok" => answer[m] = "ok"
    BY <1>3, FailsGood DEF VerifyFails, IInv
  <2>3. \A m \in Payments : lock'[m] = IF m = k THEN "absent" ELSE lock[m]
    BY <1>a, <2>1
  <2>4. CASE n # k
    <3> HIDE DEF k
    <3> QED
      BY <1>a, <2>1, <2>2, <2>3, <2>4, OthersQuiet, QuietCourse
  <2>5. CASE n = k
    <3>1. Stands(n, "verify") /\ Stands(n, "idle")'
      BY <1>c, <2>1, <2>2, <2>5, StandsNow, StandsNext
    <3>2. n \in Payments => ~Moved(n) /\ lock'[n] = "absent"
      BY <1>b, <2>3, <2>5, <3>1 DEF Untouched, Stands
    <3>3. /\ saved' = saved
          /\ n \in Payments /\ Sent(n, "deposit") /\ n \notin filed => saved'[n] = "whole"
      BY <1>b, <2>1 DEF EnvelopeGood
    <3> QED
      BY <1>a, <2>1, <2>2, <3>1, <3>2, <3>3, ServedCourse
  <2> QED
    BY <2>4, <2>5
<1>4. CASE Answer
  <2> DEFINE k == req.note
  <2>1. /\ UNCHANGED <<payment, lock, chain, saved>> /\ req.step = "answer" /\ req' = NoRequest
        /\ answer' = [answer EXCEPT ![k] = "ok"]
    BY <1>4 DEF Answer, At
  <2>2. req'.step = "idle" /\ \A m \in Notes : m # k => answer'[m] = answer[m]
    BY <1>a, <2>1, RequestShapes
  <2>3. CASE n # k
    <3> HIDE DEF k
    <3> QED
      BY <1>a, <2>1, <2>2, <2>3, OthersQuiet, QuietCourse
  <2>4. CASE n = k
    <3>1. Stands(n, "answer") /\ Stands(n, "idle")'
      BY <1>c, <2>1, <2>2, <2>4, StandsNow, StandsNext
    <3>2. memo[n] = Chunks
      BY <1>b, <3>1 DEF EnvelopeGood, Stands
    <3>3. /\ Moved(n)' <=> Moved(n)
          /\ Sent(n, "transfer")' <=> Sent(n, "transfer")
          /\ Sent(n, "deposit")' <=> Sent(n, "deposit")
      BY <2>1 DEF Moved, Sent, chain
    <3>4. EnvelopeGood(n)'
      BY <1>b, <2>1, <3>1, <3>2, <3>3 DEF EnvelopeGood, Stands, chain
    <3>5. ASSUME n \in Payments
          PROVE  LockFits(n)' /\ Untouched(n)' /\ WrapOnce(n)' /\ PaidFor(n)' /\ Fresh(n)'
      <4>1. LockFits(n)'
        BY <3>1 DEF LockFits, Stands
      <4>2. Untouched(n)' /\ PaidFor(n)'
        BY <1>b, <2>1, <3>1, <3>3, <3>5 DEF Untouched, PaidFor, Stands
      <4>3. WrapOnce(n)'
        BY <1>b, <2>1, <3>1, <3>3, <3>5 DEF WrapOnce, Stands, chain
      <4>4. Fresh(n)'
        BY <3>1 DEF Fresh, Stands
      <4> QED
        BY <4>1, <4>2, <4>3, <4>4
    <3> QED
      BY <3>4, <3>5 DEF Course
  <2> QED
    BY <2>3, <2>4
<1> QED
  BY <1>1, <1>2, <1>3, <1>4

(* A transaction that is confirmed.                                         *)
LEMMA ConfirmedCourse ==
  ASSUME IInv, Confirmed \/ Append, NEW n \in Notes
  PROVE  Course(n)'
<1> DEFINE k == req.note
           t == Transaction
<1>a. /\ req.step \in {"transfer", "deposit", "append"} /\ req.step \in Steps
      /\ {"mint", "append"} \subseteq Steps
  BY DEF Confirmed, Append, At, Steps
<1>b. TypeOK /\ Course(n) /\ req \in Requests /\ k \in Notes
  BY <1>a, Running DEF IInv
<1>c. t \in Flights /\ t.kind = req.step /\ t.note = k
  BY <1>a, <1>b, TransactionGood
<1>d. Executes(t) /\ UNCHANGED <<payment, lock, saved, flights, answer>>
  BY DEF Confirmed, Append
<1>e. /\ req'.note = k
      /\ req.step = "transfer" => req'.step = "mint"
      /\ req.step \in {"deposit", "append"} => req'.step = "append"
  <2>1. CASE Append
    BY <2>1 DEF Append, At
  <2>2. CASE Confirmed
    <3>1. req.step = "transfer" => Goes("mint")
      BY <2>2 DEF Confirmed, At
    <3>2. req.step # "transfer" => Goes("append")
      BY <2>2 DEF Confirmed, At
    <3>3. req.step \in {"transfer", "deposit"}
      BY <2>2 DEF Confirmed
    <3> QED
      BY <1>a, <1>b, <3>1, <3>2, <3>3, GoesGood
  <2> QED
    BY <2>1, <2>2
<1> HIDE DEF t
<1>f. /\ \A m \in Payments : m # t.note \/ t.kind # "transfer" => wraps'[m] = wraps[m]
      /\ \A m \in Payments : m = t.note /\ t.kind = "transfer" => wraps'[m] = wraps[m] + 1
      /\ \A m \in Notes :
           m # t.note \/ t.kind \notin {"deposit", "append"} => memo'[m] = memo[m]
      /\ \A m \in Notes : m # t.note \/ t.kind # "deposit" => (m \in filed' <=> m \in filed)
      /\ t.kind = "deposit" => t.note \notin filed /\ t.note \in filed' /\ memo'[t.note] = 1
      /\ t.kind = "append" => /\ t.note \in filed /\ memo[t.note] < Chunks
                              /\ memo'[t.note] = memo[t.note] + 1
  BY <1>a, <1>b, <1>c, <1>d, ExecutesGood
<1> HIDE DEF k
<1>1. CASE n # k
  <2>1. Quiet(n)
    BY <1>1, <1>c, <1>d, <1>e, <1>f DEF Quiet
  <2> QED
    BY <1>b, <2>1, QuietCourse
<1>2. CASE n = k
  <2>1. /\ EnvelopeGood(n)
        /\ n \in Payments => LockFits(n) /\ Untouched(n) /\ WrapOnce(n) /\ PaidFor(n) /\ Fresh(n)
        /\ memo[n] \in 0 .. Chunks /\ Chunks \in Nat \ {0}
    BY <1>b, ServiceAssumption DEF Course, TypeOK
  <2>2. Stands(n, req.step)
    BY <1>2, <1>a, StandsNow DEF k
  <2>3. \A kind \in {"transfer", "deposit"} : Sent(n, kind)' <=> Sent(n, kind)
    BY <1>d DEF Sent
  <2>4. CASE req.step = "transfer"
    <3>1. Stands(n, "transfer") /\ Stands(n, "mint")'
      BY <1>2, <1>a, <1>e, <2>2, <2>4, StandsNext
    <3>2. memo'[n] = memo[n] /\ (n \in filed' <=> n \in filed)
      BY <1>c, <1>f, <2>4
    <3>3. EnvelopeGood(n)'
      BY <1>d, <2>1, <2>3, <3>1, <3>2 DEF EnvelopeGood, Stands
    <3>4. ASSUME n \in Payments
          PROVE  LockFits(n)' /\ Untouched(n)' /\ WrapOnce(n)' /\ PaidFor(n)' /\ Fresh(n)'
      <4>1. lock[n] \in {"empty", "wrapping"} /\ payment[n] = "landed" /\ ~Moved(n)
        BY <2>1, <3>1, <3>4 DEF LockFits, PaidFor, Untouched, Stands
      <4>2. LockFits(n)' /\ Untouched(n)' /\ PaidFor(n)'
        BY <1>d, <3>1, <4>1 DEF LockFits, PaidFor, Untouched, Stands
      <4>3. wraps[n] = 0 /\ ~Sent(n, "transfer")
        BY <2>1, <3>4, <4>1 DEF Moved, Sent, WrapOnce
      <4>4. wraps'[n] = 1
        BY <1>2, <1>c, <1>f, <2>4, <3>4, <4>3
      <4>5. WrapOnce(n)'
        BY <1>d, <2>1, <2>3, <3>4, <4>3, <4>4 DEF WrapOnce
      <4>6. Fresh(n)'
        BY <2>3, <3>2, <4>1 DEF Fresh, Moved, Sent
      <4> QED
        BY <4>2, <4>5, <4>6
    <3> QED
      BY <3>3, <3>4 DEF Course
  <2>5. CASE req.step \in {"deposit", "append"}
    <3>1. Stands(n, req.step) /\ Stands(n, "append")'
          /\ saved[n] = "whole" /\ saved'[n] = "whole"
      BY <1>2, <1>a, <1>d, <1>e, <2>1, <2>2, <2>5, StandsNext DEF EnvelopeGood, Stands
    <3>2. n \in filed' /\ memo'[n] \in 1 .. Chunks
      BY <1>2, <1>c, <1>f, <2>1, <2>5
    <3>3. answer[n] # "ok"
      BY <1>2, <1>c, <1>f, <2>1, <2>5 DEF EnvelopeGood
    <3>4. n \in Payments => lock[n] \in {"empty", "wrapped"}
      BY <2>1, <2>5, <3>1 DEF LockFits, Stands
    <3>5. EnvelopeGood(n)'
      BY <1>d, <3>1, <3>2, <3>3, <3>4 DEF EnvelopeGood, Stands
    <3>6. ASSUME n \in Payments
          PROVE  LockFits(n)' /\ Untouched(n)' /\ WrapOnce(n)' /\ PaidFor(n)' /\ Fresh(n)'
      <4>1. payment[n] = "landed" /\ wraps[n] = 1
        BY <2>1, <2>5, <3>1, <3>6 DEF PaidFor, WrapOnce, Stands
      <4>2. LockFits(n)' /\ Untouched(n)' /\ PaidFor(n)'
        BY <1>d, <3>1, <3>4, <3>6, <4>1 DEF LockFits, PaidFor, Untouched, Stands
      <4>3. wraps'[n] = wraps[n]
        BY <1>c, <1>f, <2>5, <3>6
      <4>4. WrapOnce(n)'
        BY <1>d, <2>1, <2>3, <3>6, <4>1, <4>3 DEF WrapOnce
      <4>5. Fresh(n)'
        BY <3>1 DEF Fresh, Stands
      <4> QED
        BY <4>2, <4>4, <4>5
    <3> QED
      BY <3>5, <3>6 DEF Course
  <2> QED
    BY <1>a, <2>4, <2>5
<1> QED
  BY <1>1, <1>2

(* A transaction that is sent and not confirmed, the one of a fee included.  *)
LEMMA SentCourse ==
  ASSUME IInv, Unconfirmed \/ CollectFee, NEW n \in Notes
  PROVE  Course(n)'
<1> DEFINE k == req.note
<1>a. /\ req.step \in {"transfer", "deposit", "append", "fee"} /\ req.step \in Steps
      /\ "answer" \in Steps
  BY DEF Unconfirmed, CollectFee, At, Steps
<1>b. TypeOK /\ Course(n) /\ req \in Requests /\ k \in Notes /\ TransfersGood
  BY <1>a, Running DEF IInv
<1>c. /\ UNCHANGED <<payment, lock, wraps, filed, memo, saved>>
      /\ answer'[n] = "ok" => answer[n] = "ok"
      /\ req.step = "fee" => req'.step = "answer" /\ req'.note = k
      /\ req.step # "fee" => req'.step = "idle"
  <2>1. CASE Unconfirmed
    <3>1. PICK moved \in {"no", "unknown"} : Fails(moved)
      BY <2>1 DEF Unconfirmed
    <3>2. req'.step = "idle" /\ \A m \in Notes : answer'[m] = "ok" => answer[m] = "ok"
      BY <1>b, <3>1, FailsGood
    <3> QED
      BY <2>1, <3>2 DEF Unconfirmed
  <2>2. CASE CollectFee
    <3>1. Goes("answer") /\ req.step = "fee" /\ UNCHANGED <<payment, lock, saved, answer>>
      BY <2>2 DEF CollectFee, At
    <3>2. UNCHANGED <<wraps, filed, memo>>
      BY <2>2 DEF CollectFee, FeeExecutes, chain
    <3> QED
      BY <1>a, <1>b, <3>1, <3>2, GoesGood
  <2> QED
    BY <2>1, <2>2
<1>d. PICK t : /\ flights' \subseteq flights \cup {t} /\ t.note = k /\ t.kind = req.step
  <2>1. CASE Unconfirmed
    <3>1. flights' = flights \cup {Transaction} /\ req.step # "fee"
      BY <2>1 DEF Unconfirmed
    <3>2. Transaction.note = k /\ Transaction.kind = req.step
      BY DEF Transaction
    <3> QED
      BY <3>1, <3>2
  <2>2. CASE CollectFee
    <3>1. FeeTransaction.note = k /\ FeeTransaction.kind = "fee" /\ req.step = "fee"
      BY <2>2 DEF FeeTransaction, CollectFee, At
    <3>2. \/ flights' = flights
          \/ req.fee = "note" /\ flights' = flights \cup {FeeTransaction}
      BY <2>2 DEF CollectFee, chain
    <3> QED
      BY <3>1, <3>2
  <2> QED
    BY <2>1, <2>2
<1>1. CASE n # k
  <2> HIDE DEF k
  <2>1. Quiet(n)
    BY <1>1, <1>c, <1>d, StepSets DEF Quiet
  <2> QED
    BY <1>b, <2>1, QuietCourse
<1>2. CASE n = k
  <2>1. /\ EnvelopeGood(n)
        /\ n \in Payments => LockFits(n) /\ Untouched(n) /\ WrapOnce(n) /\ PaidFor(n) /\ Fresh(n)
    BY <1>b DEF Course
  <2>2. Stands(n, req.step)
    BY <1>2, <1>a, StandsNow
  <2>3. /\ req.step = "fee" => Stands(n, "answer")'
        /\ req.step # "fee" => Stands(n, "idle")'
    <3>1. ASSUME req.step = "fee" PROVE Stands(n, "answer")'
      <4>1. req'.step = "answer" /\ req'.note = n
        BY <1>2, <1>c, <3>1
      <4> QED
        BY <1>a, <4>1, StandsNext
    <3>2. ASSUME req.step # "fee" PROVE Stands(n, "idle")'
      BY <1>c, <3>2, StandsNext
    <3> QED
      BY <3>1, <3>2
  <2>4. /\ Sent(n, "deposit")' => Sent(n, "deposit") \/ req.step = "deposit"
        /\ Sent(n, "transfer")' => Sent(n, "transfer") \/ req.step = "transfer"
    BY <1>d DEF Sent
  <2>5. EnvelopeGood(n)'
    <3>1. req.step = "deposit" => saved[n] = "whole"
      BY <2>1, <2>2 DEF EnvelopeGood, Stands
    <3>2. req.step = "fee" => memo[n] = Chunks
      BY <2>1, <2>2 DEF EnvelopeGood, Stands
    <3>3. ~Serves(n, {"deposit", "append"})' /\ (Serves(n, {"fee", "answer"})' => req.step = "fee")
      <4>1. CASE req.step = "fee"
        BY <2>3, <4>1 DEF Stands
      <4>2. CASE req.step # "fee"
        BY <2>3, <4>2 DEF Stands
      <4> QED
        BY <4>1, <4>2
    <3> QED
      BY <1>c, <2>1, <2>4, <3>1, <3>2, <3>3 DEF EnvelopeGood
  <2>6. ASSUME n \in Payments
        PROVE  LockFits(n)' /\ Untouched(n)' /\ WrapOnce(n)' /\ PaidFor(n)' /\ Fresh(n)'
    <3>1. payment[n] = "landed" /\ lock[n] \notin {"absent", "verified"}
      BY <1>a, <2>1, <2>2, <2>6 DEF PaidFor, LockFits, Stands
    <3>2. req.step = "fee" => lock[n] \in {"empty", "done"}
      BY <2>1, <2>2, <2>6 DEF LockFits, Stands
    <3>3. LockFits(n)'
      BY <1>c, <2>3, <3>2 DEF LockFits, Stands
    <3>4. Untouched(n)' /\ PaidFor(n)'
      BY <1>c, <2>3, <3>1 DEF Untouched, PaidFor, Stands
    <3>5. WrapOnce(n)'
      <4>1. CASE req.step = "transfer"
        <5>1. ~Moved(n)
          BY <2>1, <2>2, <2>6, <4>1 DEF Untouched, Stands
        <5>2. wraps[n] = 0 /\ \A u \in flights : u.note # n
          BY <2>1, <2>6, <5>1 DEF Moved, WrapOnce
        <5>3. ~Serves(n, AfterWrap)'
          BY <2>3, <4>1 DEF Stands
        <5> QED
          BY <1>c, <1>d, <5>2, <5>3 DEF WrapOnce
      <4>2. CASE req.step # "transfer"
        <5>1. wraps[n] = 1
          BY <1>a, <2>1, <2>2, <2>6, <4>2 DEF WrapOnce, Stands
        <5>2. \A u \in flights' : u.kind = "transfer" => u \in flights
          BY <1>d, <4>2
        <5> QED
          BY <1>c, <2>1, <2>4, <2>6, <4>2, <5>1, <5>2 DEF WrapOnce
      <4> QED
        BY <4>1, <4>2
    <3>6. Fresh(n)'
      BY <2>3 DEF Fresh, Stands
    <3> QED
      BY <3>3, <3>4, <3>5, <3>6
  <2> QED
    BY <2>5, <2>6 DEF Course
<1> QED
  BY <1>1, <1>2

LEMMA CourseKept ==
  ASSUME IInv, ~OpenMayFail, [Next]_vars, NEW n \in Notes
  PROVE  Course(n)'
<1>a. TypeOK /\ Course(n) /\ Payments \subseteq Notes
      /\ payment \in [Payments -> {"unsent", "sent", "landed", "expired"}]
      /\ answer \in [Notes -> {"none", "ok", "no", "unknown"}]
  BY DEF IInv, TypeOK, Notes
<1>1. ASSUME NEW k \in Payments, Pay(k) \/ PaymentLands(k) \/ PaymentExpires(k) PROVE Course(n)'
  <2>1. /\ UNCHANGED <<lock, req, wraps, filed, memo, saved, flights, answer>>
        /\ payment[k] # "landed"
        /\ \E s : payment' = [payment EXCEPT ![k] = s]
    BY <1>1 DEF Pay, PaymentLands, PaymentExpires, chain
  <2>2. n \in Payments /\ payment[n] = "landed" => payment'[n] = "landed"
    BY <1>a, <2>1
  <2>3. Quiet(n)
    BY <2>1, <2>2 DEF Quiet
  <2> QED
    BY <1>a, <2>3, QuietCourse
<1>2. ASSUME NEW k \in Payments, Refuse(k) PROVE Course(n)'
  <2>1. UNCHANGED <<payment, lock, req, chain, saved>> /\ (answer'[n] = "ok" => answer[n] = "ok")
    BY <1>2, <1>a DEF Refuse
  <2>2. Quiet(n)
    BY <2>1 DEF Quiet, chain
  <2> QED
    BY <1>a, <2>2, QuietCourse
<1>3. CASE (\E k \in Payments : Admit(k)) \/ (\E k \in Demos : AdmitDemo(k))
             \/ VerifyFails \/ Answer
  BY <1>3, EndsCourse
<1>4. CASE Verify \/ Decide \/ Mint \/ Preflight \/ Save \/ Finish
  BY <1>4, OnwardCourse
<1>5. CASE Confirmed \/ Append
  BY <1>5, ConfirmedCourse
<1>6. CASE Unconfirmed \/ CollectFee
  BY <1>6, SentCourse
<1>7. CASE ConfigFails \/ Rejected \/ MintFails \/ PreflightStops \/ SaveFails
  <2>1. PICK moved \in {"no", "unknown"} : Fails(moved)
    BY <1>7 DEF ConfigFails, Rejected, MintFails, PreflightStops, SaveFails
  <2>2. req'.step = "idle" /\ \A m \in Notes : answer'[m] = "ok" => answer[m] = "ok"
    BY <1>a, <2>1, FailsGood
  <2>3. UNCHANGED <<payment, lock, chain, saved>>
    BY <1>7 DEF ConfigFails, Rejected, MintFails, PreflightStops, SaveFails
  <2>4. Quiet(n)
    BY <2>2, <2>3, StepSets DEF Quiet, chain
  <2> QED
    BY <1>a, <2>4, QuietCourse
<1>8. ASSUME NEW t \in flights, LandsLate(t) PROVE Course(n)'
  BY <1>8, LateCourse
<1>9. ASSUME NEW t \in flights, Expires(t) PROVE Course(n)'
  <2>1. Quiet(n)
    BY <1>9 DEF Expires, Quiet
  <2> QED
    BY <1>a, <2>1, QuietCourse
<1>10. CASE Restart
  <2>1. req'.step = "idle" /\ UNCHANGED <<payment, lock, chain, saved, answer>>
    BY <1>10, RequestShapes DEF Restart
  <2>2. Quiet(n)
    BY <2>1, StepSets DEF Quiet, chain
  <2> QED
    BY <1>a, <2>2, QuietCourse
<1>11. CASE UNCHANGED vars
  <2>1. Quiet(n)
    BY <1>11 DEF Quiet, vars
  <2> QED
    BY <1>a, <2>1, QuietCourse
<1> QED
  BY <1>1, <1>2, <1>3, <1>4, <1>5, <1>6, <1>7, <1>8, <1>9, <1>10, <1>11 DEF Next, Serve
-----------------------------------------------------------------------------
LEMMA InitGood == Init => IInv
<1> SUFFICES ASSUME Init PROVE IInv
  OBVIOUS
<1>1. TypeOK
  BY ServiceAssumption DEF Init, TypeOK, Stages, Copies
<1>2. TransfersGood
  BY DEF Init, TransfersGood, Idle
<1>3. ASSUME NEW n \in Notes PROVE Course(n)
  <2>1. /\ memo[n] = 0 /\ filed = {} /\ answer[n] = "none" /\ flights = {} /\ req.step = "idle"
        /\ n \in Payments => lock[n] = "absent" /\ wraps[n] = 0
        /\ Chunks # 0 /\ Chunks \in Nat
    BY ServiceAssumption, RequestShapes DEF Init
  <2>2. Stands(n, "idle") /\ (n \in Payments => ~Moved(n)) /\ ~Sent(n, "deposit") /\ ~Sent(n, "transfer")
    BY <2>1, StandsNow DEF Moved, Sent
  <2>3. EnvelopeGood(n)
    BY <2>1, <2>2 DEF EnvelopeGood, Stands
  <2>4. n \in Payments => LockFits(n) /\ Untouched(n) /\ PaidFor(n) /\ Fresh(n)
    BY <2>1, <2>2 DEF LockFits, Untouched, PaidFor, Fresh, Stands
  <2>5. n \in Payments => WrapOnce(n)
    BY <2>1, <2>2 DEF WrapOnce, Stands
  <2> QED
    BY <2>3, <2>4, <2>5 DEF Course
<1> QED
  BY <1>1, <1>2, <1>3 DEF IInv

LEMMA NotesConstant == (\A n \in Notes : Course(n)') => (\A n \in Notes : Course(n))'
BY DEF Notes

(* The inductive invariant.  It needs every mark of a lock file to open the    *)
(* file: an earlier mark left behind would let the payment in once more.      *)
THEOREM Invariance == ASSUME ~OpenMayFail PROVE Spec => []IInv
<1>1. IInv /\ [Next]_vars => IInv'
  <2> SUFFICES ASSUME IInv, [Next]_vars PROVE IInv'
    OBVIOUS
  <2>1. TypeNext
    BY TypeKept DEF IInv
  <2>2. \A n \in Notes : Course(n)'
    BY CourseKept
  <2> QED
    BY <2>1, <2>2, NotesConstant DEF IInv, TypeNext
<1> QED
  BY <1>1, InitGood, PTL DEF Spec

(* Type correctness, whatever fails to open: a memo account never grows past  *)
(* its envelope, and what is in flight is always a transaction of this service. *)
THEOREM TypeCorrect == Spec => []TypeOK
<1>1. Init => TypeOK /\ TransfersGood
  BY InitGood DEF IInv
<1>2. TypeOK /\ TransfersGood /\ [Next]_vars => TypeOK' /\ TransfersGood'
  BY TypeKept DEF TypeNext
<1> QED
  BY <1>1, <1>2, PTL DEF Spec

(* A lock file that lets a payment be tried again says the truth: nothing of *)
(* it moved and nothing is on its way, whatever stopped the requests before. *)
THEOREM RetryIsSafe == ASSUME ~OpenMayFail PROVE Spec => []RetryOnlyBeforeMoney
<1>1. IInv => RetryOnlyBeforeMoney
  BY DEF IInv, Course, Untouched, RetryOnlyBeforeMoney, Notes
<1> QED
  BY <1>1, Invariance, PTL

(* One payment wraps the operator's money at most once, for any number of    *)
(* requests, restarts and late transactions.                                 *)
THEOREM WrappedOnce == ASSUME ~OpenMayFail PROVE Spec => []OneWrapPerPayment
<1>1. IInv => OneWrapPerPayment
  BY DEF IInv, Course, WrapOnce, OneWrapPerPayment, Notes
<1> QED
  BY <1>1, Invariance, PTL

(* Nothing is wrapped or filed, or is on its way to be, for a payment that    *)
(* did not land.                                                             *)
THEOREM MovedOnlyIfPaid == ASSUME ~OpenMayFail PROVE Spec => []MovedIsPaid
<1>1. IInv => MovedIsPaid
  BY DEF IInv, Course, PaidFor, MovedIsPaid, Notes
<1> QED
  BY <1>1, Invariance, PTL

(* A paid commitment whose envelope is not wholly on chain has its one copy,  *)
(* whole, on the disk of the service: its file is emptied by the one request  *)
(* that goes on to deposit, and written again before that deposit is sent.    *)
THEOREM EnvelopeNeverLost == ASSUME ~OpenMayFail PROVE Spec => []EnvelopeKept
<1>1. IInv => EnvelopeKept
  BY DEF IInv, Course, EnvelopeGood, EnvelopeKept, Notes
<1> QED
  BY <1>1, Invariance, PTL

(* An answer or a lock that says the deposit is done speaks of a note that is *)
(* in the tree with its whole envelope.                                      *)
THEOREM DoneMeansDelivered == ASSUME ~OpenMayFail PROVE Spec => []DoneIsDelivered
<1>1. IInv => DoneIsDelivered
  <2> SUFFICES ASSUME IInv, NEW n \in Notes,
                      answer[n] = "ok" \/ (n \in Payments /\ lock[n] = "done")
               PROVE  n \in filed /\ memo[n] = Chunks
    BY DEF DoneIsDelivered
  <2>1. EnvelopeGood(n)
    BY DEF IInv, Course
  <2>2. memo[n] = Chunks
    BY <2>1 DEF EnvelopeGood
  <2> QED
    BY <2>1, <2>2, ServiceAssumption DEF EnvelopeGood
<1> QED
  BY <1>1, Invariance, PTL
-----------------------------------------------------------------------------
(* What backs the tree.  A note is entitled to its amount from the moment its *)
(* money enters the vault: with the request that goes on to file it, with a   *)
(* deposit still on its way, with a payment that is never asked for again.    *)

LEMMA TimesMore ==
  ASSUME NEW a \in Nat, NEW c \in Nat, NEW d \in Nat
  PROVE  /\ a * c \in Nat /\ a * (c + 1) = a * c + a
         /\ c <= d => a * c <= a * d
<1>1. a * c \in Nat /\ a * (c + 1) = a * c + a
  OBVIOUS
<1>2. ASSUME c <= d PROVE a * c <= a * d
  <2>1. PICK e \in Nat : d = c + e
    <3>1. d - c \in Nat /\ d = c + (d - c)
      BY <1>2
    <3> QED
      BY <3>1
  <2>2. a * d = a * c + a * e /\ a * e \in Nat /\ a * c \in Nat
    BY <2>1
  <2> QED
    BY <2>2
<1> QED
  BY <1>1, <1>2

LEMMA OneMore ==
  ASSUME NEW S, IsFiniteSet(S), NEW T, NEW k, \A x \in T : x \in S \/ x = k
  PROVE  /\ IsFiniteSet(T) /\ Cardinality(T) \in Nat /\ Cardinality(S) \in Nat
         /\ Cardinality(T) <= Cardinality(S) + 1
<1>1. /\ IsFiniteSet(S \cup {k}) /\ Cardinality(S) \in Nat
      /\ Cardinality(S \cup {k}) = IF k \in S THEN Cardinality(S) ELSE Cardinality(S) + 1
  BY FS_AddElement, FS_CardinalityType
<1>2. T \in SUBSET (S \cup {k})
  OBVIOUS
<1>3. IsFiniteSet(T) /\ Cardinality(T) <= Cardinality(S \cup {k})
  BY <1>1, <1>2, FS_Subset
<1>4. Cardinality(T) \in Nat
  BY <1>3, FS_CardinalityType
<1> QED
  BY <1>1, <1>3, <1>4

LEMMA EntitledFinite ==
  /\ IsFiniteSet(Entitled) /\ Cardinality(Entitled) \in Nat
  /\ IsFiniteSet(FeeEntitled) /\ Cardinality(FeeEntitled) \in Nat
<1>1. IsFiniteSet(Notes) /\ IsFiniteSet(Payments)
  BY ServiceAssumption, FS_Union DEF Notes
<1>2. Entitled \in SUBSET Notes /\ FeeEntitled \in SUBSET Payments
  BY DEF Entitled, FeeEntitled
<1> QED
  BY <1>1, <1>2, FS_Subset, FS_CardinalityType

(* What a step may add: nothing, a note with its amount, or a note and the    *)
(* note of its fee with both.                                                *)
LEMMA CoverKept ==
  ASSUME Covered, vault \in Nat, vault' \in Nat, NEW k,
         \/ /\ Entitled' \subseteq Entitled /\ FeeEntitled' \subseteq FeeEntitled
            /\ vault' >= vault
         \/ /\ \A n \in Entitled' : n \in Entitled \/ n = k
            /\ FeeEntitled' \subseteq FeeEntitled
            /\ vault' >= vault + Amount
         \/ /\ \A n \in Entitled' : n \in Entitled \/ n = k
            /\ \A n \in FeeEntitled' : n \in FeeEntitled \/ n = k
            /\ vault' >= vault + (Amount + Fee)
  PROVE  Covered'
<1> DEFINE E == Cardinality(Entitled)
           F == Cardinality(FeeEntitled)
           E1 == Cardinality(Entitled')
           F1 == Cardinality(FeeEntitled')
<1>a. /\ IsFiniteSet(Entitled) /\ IsFiniteSet(FeeEntitled) /\ E \in Nat /\ F \in Nat
  BY EntitledFinite
<1>b. Amount \in Nat /\ Fee \in Nat
  BY ServiceAssumption
<1>c. vault >= Amount * E + Fee * F
  BY DEF Covered
<1>d. Covered' <=> vault' >= Amount * E1 + Fee * F1
  BY DEF Covered
<1>e. Entitled' \subseteq Entitled => E1 \in Nat /\ E1 <= E
  BY <1>a, FS_Subset, FS_CardinalityType
<1>f. FeeEntitled' \subseteq FeeEntitled => F1 \in Nat /\ F1 <= F
  BY <1>a, FS_Subset, FS_CardinalityType
<1>g. (\A n \in Entitled' : n \in Entitled \/ n = k) => E1 \in Nat /\ E1 <= E + 1
  BY <1>a, OneMore
<1>h. (\A n \in FeeEntitled' : n \in FeeEntitled \/ n = k) => F1 \in Nat /\ F1 <= F + 1
  BY <1>a, OneMore
<1> HIDE DEF E, F, E1, F1
<1> DEFINE AE == Amount * E
           FF == Fee * F
           AE1 == Amount * E1
           FF1 == Fee * F1
<1>i. AE \in Nat /\ FF \in Nat /\ E + 1 \in Nat /\ F + 1 \in Nat
  BY <1>a, <1>b, TimesMore
<1>j. E1 \in Nat /\ E1 <= E => AE1 \in Nat /\ AE1 <= AE
  BY <1>a, <1>b, TimesMore
<1>k. F1 \in Nat /\ F1 <= F => FF1 \in Nat /\ FF1 <= FF
  BY <1>a, <1>b, TimesMore
<1>l. E1 \in Nat /\ E1 <= E + 1 => AE1 \in Nat /\ AE1 <= AE + Amount
  <2>1. Amount * (E + 1) = AE + Amount
    BY <1>a, <1>b, TimesMore
  <2>2. ASSUME E1 \in Nat, E1 <= E + 1 PROVE AE1 \in Nat /\ AE1 <= Amount * (E + 1)
    BY <1>b, <1>i, <2>2, TimesMore
  <2> QED
    BY <2>1, <2>2
<1>m. F1 \in Nat /\ F1 <= F + 1 => FF1 \in Nat /\ FF1 <= FF + Fee
  <2>1. Fee * (F + 1) = FF + Fee
    BY <1>a, <1>b, TimesMore
  <2>2. ASSUME F1 \in Nat, F1 <= F + 1 PROVE FF1 \in Nat /\ FF1 <= Fee * (F + 1)
    BY <1>b, <1>i, <2>2, TimesMore
  <2> QED
    BY <2>1, <2>2
<1>n. vault >= AE + FF /\ (Covered' <=> vault' >= AE1 + FF1)
  BY <1>c, <1>d
<1> HIDE DEF AE, FF, AE1, FF1
<1>1. CASE /\ Entitled' \subseteq Entitled /\ FeeEntitled' \subseteq FeeEntitled
           /\ vault' >= vault
  <2>1. AE1 \in Nat /\ AE1 <= AE /\ FF1 \in Nat /\ FF1 <= FF
    BY <1>1, <1>e, <1>f, <1>j, <1>k
  <2> QED
    BY <1>1, <1>i, <1>n, <2>1
<1>2. CASE /\ \A n \in Entitled' : n \in Entitled \/ n = k
           /\ FeeEntitled' \subseteq FeeEntitled
           /\ vault' >= vault + Amount
  <2>1. AE1 \in Nat /\ AE1 <= AE + Amount /\ FF1 \in Nat /\ FF1 <= FF
    BY <1>2, <1>f, <1>g, <1>k, <1>l
  <2> QED
    BY <1>2, <1>b, <1>i, <1>n, <2>1
<1>3. CASE /\ \A n \in Entitled' : n \in Entitled \/ n = k
           /\ \A n \in FeeEntitled' : n \in FeeEntitled \/ n = k
           /\ vault' >= vault + (Amount + Fee)
  <2>1. AE1 \in Nat /\ AE1 <= AE + Amount /\ FF1 \in Nat /\ FF1 <= FF + Fee
    BY <1>3, <1>g, <1>h, <1>l, <1>m
  <2> QED
    BY <1>3, <1>b, <1>i, <1>n, <2>1
<1> QED
  BY <1>1, <1>2, <1>3

AfterMoney == {"mint", "preflight", "save", "deposit", "append", "fee"}

(* A step that moves no money and starts nothing with a claim on it.         *)
LEMMA ClaimsKept ==
  ASSUME Covered, TypeOK, UNCHANGED <<vault, wraps, filed, feeNotes>>,
         flights' \subseteq flights,
         req'.step \in AfterMoney =>
           /\ req.step \in AfterMoney /\ (req'.step # "fee" => req.step # "fee")
           /\ req'.note = req.note /\ req'.fee = req.fee
  PROVE  Covered'
<1>1. Entitled' \subseteq Entitled /\ FeeEntitled' \subseteq FeeEntitled
  BY DEF Entitled, FeeEntitled, Sent, Serves, AfterMoney, Notes
<1>2. vault \in Nat
  BY DEF TypeOK
<1> QED
  BY <1>1, <1>2, CoverKept

LEMMA CoverNext ==
  ASSUME IInv, Covered, [Next]_vars
  PROVE  Covered'
<1>a. TypeOK /\ TransfersGood /\ vault \in Nat /\ Amount \in Nat /\ Fee \in Nat
  BY ServiceAssumption DEF IInv, TypeOK
<1>b. NoRequest.step = "idle" /\ "idle" \notin AfterMoney /\ AfterMoney \subseteq Steps
  BY RequestShapes DEF AfterMoney, Steps
<1>c. vault' \in Nat
  BY <1>a, TypeKept DEF TypeNext, TypeOK
<1>1. ASSUME NEW n \in Payments,
             Pay(n) \/ PaymentLands(n) \/ PaymentExpires(n) \/ Refuse(n)
      PROVE  Covered'
  BY <1>1, <1>a, ClaimsKept DEF Pay, PaymentLands, PaymentExpires, Refuse, chain
<1>2. ASSUME NEW n \in Payments, Admit(n) PROVE Covered'
  <2>1. req'.step = "verify" /\ UNCHANGED chain
    BY <1>2 DEF Admit, Start
  <2> QED
    BY <2>1, <1>a, ClaimsKept DEF AfterMoney, chain
<1>3. ASSUME NEW n \in Demos, AdmitDemo(n) PROVE Covered'
  <2>1. req'.step = "decide" /\ UNCHANGED chain
    BY <1>3 DEF AdmitDemo, Start
  <2> QED
    BY <2>1, <1>a, ClaimsKept DEF AfterMoney, chain
<1>4. CASE VerifyFails \/ ConfigFails \/ Rejected \/ MintFails \/ PreflightStops \/ SaveFails
             \/ Answer \/ Restart
  <2>1. req'.step = "idle" /\ UNCHANGED chain
    BY <1>4, <1>b DEF VerifyFails, ConfigFails, Rejected, MintFails, PreflightStops, SaveFails,
                      Answer, Restart, Fails
  <2> QED
    BY <2>1, <1>a, <1>b, ClaimsKept DEF chain
<1>5. CASE Verify \/ Mint \/ Preflight \/ Save \/ Finish
  <2>1. UNCHANGED chain /\ req.step \in {"verify", "mint", "preflight", "save", "append"}
    BY <1>5 DEF Verify, Mint, Preflight, Save, Finish, At
  <2>2. req \in Requests
    BY <1>a, <2>1, Running DEF Steps
  <2>3. /\ Verify => Goes("decide") /\ req.step = "verify"
        /\ Mint => Goes("preflight") /\ req.step = "mint"
        /\ Preflight => Goes("save") /\ req.step = "preflight"
        /\ Save => Goes("deposit") /\ req.step = "save"
        /\ Finish => Goes("fee") /\ req.step = "append"
    BY DEF Verify, Mint, Preflight, Save, Finish, At
  <2>4. \A step \in Steps : Goes(step) =>
           req'.note = req.note /\ req'.step = step /\ req'.fee = req.fee
    BY <2>2, GoesGood
  <2>5. {"decide", "preflight", "save", "deposit", "fee"} \subseteq Steps
    BY DEF Steps
  <2>6. req'.step \in AfterMoney =>
           /\ req.step \in AfterMoney /\ (req'.step # "fee" => req.step # "fee")
           /\ req'.note = req.note /\ req'.fee = req.fee
    BY <1>5, <2>3, <2>4, <2>5 DEF AfterMoney
  <2> QED
    BY <1>a, <2>1, <2>6, ClaimsKept DEF chain
<1>6. CASE Decide
  <2>1. UNCHANGED chain /\ req.step = "decide"
    BY <1>6 DEF Decide, At
  <2>2. req \in Requests
    BY <1>a, <2>1, Running DEF Steps
  <2>3. req'.step = "transfer"
    BY <1>6, <2>2 DEF Decide, Requests
  <2> QED
    BY <1>a, <2>1, <2>3, ClaimsKept DEF AfterMoney, chain
<1>7. CASE Confirmed \/ Append
  <2> DEFINE k == req.note
  <2>1. req.step \in {"transfer", "deposit", "append"} /\ req.step \in Steps
        /\ {"mint", "append"} \subseteq Steps
    BY <1>7 DEF Confirmed, Append, At, Steps
  <2>2. req \in Requests /\ k \in Notes
    BY <1>a, <2>1, Running
  <2>3. /\ Transaction \in Flights /\ Transaction.kind = req.step /\ Transaction.note = k
        /\ Executes(Transaction) /\ flights' = flights
        /\ req.step = "transfer" => /\ Transaction.size >= Amount
                                    /\ req.fee = "note" => Transaction.size = Amount + Fee
    BY <1>7, <1>a, <2>1, TransactionGood DEF Confirmed, Append
  <2>4. /\ req'.note = k /\ req'.fee = req.fee
        /\ req'.step = IF req.step = "transfer" THEN "mint" ELSE "append"
    <3>1. CASE Append
      BY <3>1 DEF Append, At
    <3>2. CASE Confirmed
      <4>1. req.step = "transfer" => Goes("mint")
        BY <3>2 DEF Confirmed, At
      <4>2. req.step # "transfer" => Goes("append")
        BY <3>2 DEF Confirmed, At
      <4> QED
        BY <2>1, <2>2, <4>1, <4>2, GoesGood
    <3> QED
      BY <1>7, <3>1, <3>2
  <2>5. /\ \A n \in Payments : n # k \/ req.step # "transfer" => wraps'[n] = wraps[n]
        /\ \A n \in Notes : n # k \/ req.step # "deposit" => (n \in filed' <=> n \in filed)
        /\ vault' = IF req.step = "transfer" THEN vault + Transaction.size ELSE vault
        /\ feeNotes' = feeNotes
    BY <1>a, <2>1, <2>3, ExecutesGood
  <2>6. Transaction.size \in Nat
    BY <2>3 DEF Flights
  <2> HIDE DEF k
  <2>7. \A n \in Entitled' : n \in Entitled \/ n = k
    BY <2>2, <2>3, <2>4, <2>5 DEF Entitled, Sent, Serves, Notes
  <2>8. \A n \in FeeEntitled' : n \in FeeEntitled \/ (n = k /\ req.fee = "note")
    BY <2>2, <2>3, <2>4, <2>5 DEF FeeEntitled, Sent, Serves
  <2>9. CASE req.step = "transfer"
    <3>1. vault' >= vault + Amount /\ (req.fee = "note" => vault' >= vault + (Amount + Fee))
      BY <1>a, <2>3, <2>5, <2>6, <2>9
    <3>2. CASE req.fee = "note"
      BY <1>a, <1>c, <2>7, <2>8, <3>1, <3>2, CoverKept
    <3>3. CASE req.fee # "note"
      <4>1. FeeEntitled' \subseteq FeeEntitled
        BY <2>8, <3>3
      <4> QED
        BY <1>a, <1>c, <2>7, <3>1, <4>1, CoverKept
    <3> QED
      BY <3>2, <3>3
  <2>10. CASE req.step \in {"deposit", "append"}
    <3>1. k \in Entitled
      BY <2>2, <2>10 DEF Entitled, Serves, k
    <3>2. Entitled' \subseteq Entitled
      BY <2>7, <3>1
    <3>3. req.fee = "note" => k \in FeeEntitled
      <4>1. req.fee = "note" => k \in Payments
        BY <1>a, <2>1, <1>b, StepSets DEF TransfersGood, Idle, k
      <4> QED
        BY <2>10, <4>1 DEF FeeEntitled, Serves, k
    <3>4. FeeEntitled' \subseteq FeeEntitled
      BY <2>8, <3>3
    <3>5. vault' >= vault
      BY <1>a, <2>5, <2>10
    <3> QED
      BY <1>a, <1>c, <3>2, <3>4, <3>5, CoverKept
  <2> QED
    BY <2>1, <2>9, <2>10
<1>8. CASE Unconfirmed
  <2>1. PICK moved \in {"no", "unknown"} : Fails(moved)
    BY <1>8 DEF Unconfirmed
  <2>2. req'.step = "idle"
    BY <1>b, <2>1 DEF Fails
  <2>3. /\ UNCHANGED <<vault, wraps, filed, feeNotes>>
        /\ flights' = flights \cup {Transaction}
        /\ Transaction.kind = req.step /\ Transaction.note = req.note
        /\ req.step \in {"transfer", "deposit", "append"}
    BY <1>8 DEF Unconfirmed, Transaction
  <2>4. Entitled' \subseteq Entitled /\ FeeEntitled' \subseteq FeeEntitled
    BY <2>2, <2>3 DEF Entitled, FeeEntitled, Sent, Serves, Notes
  <2> QED
    BY <1>a, <1>c, <2>3, <2>4, CoverKept
<1>9. CASE CollectFee
  <2>1. req.step = "fee" /\ Goes("answer")
    BY <1>9 DEF CollectFee, At
  <2>2. req \in Requests /\ req # NoRequest
    BY <1>a, <2>1, Running DEF Steps
  <2>3. req'.step = "answer"
    BY <2>1, <2>2, GoesGood DEF Steps
  <2>4. /\ UNCHANGED <<vault, wraps, filed>>
        /\ feeNotes' \subseteq feeNotes \cup (IF req.fee = "note" THEN {req.note} ELSE {})
        /\ flights' \subseteq flights \cup (IF req.fee = "note" THEN {FeeTransaction} ELSE {})
        /\ FeeTransaction.kind = "fee" /\ FeeTransaction.note = req.note
    BY <1>9 DEF CollectFee, FeeExecutes, chain, FeeTransaction
  <2>5. req.fee = "note" => req.note \in FeeEntitled
    BY <1>a, <2>1, <2>2 DEF FeeEntitled, Serves, TransfersGood, Idle
  <2>6. Entitled' \subseteq Entitled
    BY <2>3, <2>4 DEF Entitled, Sent, Serves, Notes
  <2>7. FeeEntitled' \subseteq FeeEntitled
    <3> SUFFICES ASSUME NEW n \in FeeEntitled' PROVE n \in FeeEntitled
      OBVIOUS
    <3>1. n \in Payments /\ (n \in feeNotes' \/ Sent(n, "fee")')
      BY <2>3 DEF FeeEntitled, Serves
    <3>2. n \in feeNotes \/ Sent(n, "fee") \/ (req.fee = "note" /\ n = req.note)
      BY <2>4, <3>1 DEF Sent
    <3> QED
      BY <2>5, <3>1, <3>2 DEF FeeEntitled
  <2> QED
    BY <1>a, <1>c, <2>4, <2>6, <2>7, CoverKept
<1>10. ASSUME NEW t \in flights, LandsLate(t) PROVE Covered'
  <2>1. /\ t \in Flights /\ Executes(t) /\ (t.kind = "fee" => t.note \in Payments)
        /\ flights' \subseteq flights /\ req' = req
        /\ t.kind = "transfer" => t.size >= Amount
    BY <1>10, <1>a DEF LandsLate, TypeOK, TransfersGood
  <2>2. t.size \in Nat /\ t.note \in Notes
    BY <2>1 DEF Flights
  <2>3. /\ \A n \in Payments : n # t.note \/ t.kind # "transfer" => wraps'[n] = wraps[n]
        /\ \A n \in Notes : n # t.note \/ t.kind # "deposit" => (n \in filed' <=> n \in filed)
        /\ vault' = IF t.kind = "transfer" THEN vault + t.size ELSE vault
        /\ feeNotes' = IF t.kind = "fee" THEN feeNotes \cup {t.note} ELSE feeNotes
    BY <1>a, <2>1, ExecutesGood
  <2>4. /\ t.kind = "deposit" => t.note \in Entitled
        /\ t.kind = "fee" => t.note \in FeeEntitled
    BY <2>1, <2>2 DEF Entitled, FeeEntitled, Sent
  <2>5. \A n \in Entitled' : n \in Entitled \/ (n = t.note /\ t.kind \in {"transfer", "deposit"})
    BY <2>1, <2>3 DEF Entitled, Sent, Serves, Notes
  <2>6. FeeEntitled' \subseteq FeeEntitled
    BY <2>1, <2>3, <2>4 DEF FeeEntitled, Sent, Serves
  <2>7. CASE t.kind = "transfer"
    <3>1. vault' >= vault + Amount
      BY <1>a, <2>1, <2>2, <2>3, <2>7
    <3> QED
      BY <1>a, <1>c, <2>5, <2>6, <3>1, CoverKept
  <2>8. CASE t.kind # "transfer"
    <3>1. Entitled' \subseteq Entitled /\ vault' >= vault
      BY <1>a, <2>3, <2>4, <2>5, <2>8
    <3> QED
      BY <1>a, <1>c, <2>6, <3>1, CoverKept
  <2> QED
    BY <2>7, <2>8
<1>11. ASSUME NEW t \in flights, Expires(t) PROVE Covered'
  BY <1>11, <1>a, ClaimsKept DEF Expires
<1>12. CASE UNCHANGED vars
  BY <1>12, <1>a, ClaimsKept DEF vars
<1> QED
  BY <1>1, <1>2, <1>3, <1>4, <1>5, <1>6, <1>7, <1>8, <1>9, <1>10, <1>11, <1>12
  DEF Next, Serve

(* Every note in the tree is backed by what the wrap brought: the vault holds  *)
(* the amount of each filed note and the fee of each fee note, whatever became *)
(* of the requests in between.                                               *)
THEOREM TreeBacked == ASSUME ~OpenMayFail PROVE Spec => []Backed
<1>1. Init => Covered
  <2> SUFFICES ASSUME Init PROVE Covered
    OBVIOUS
  <2>1. req.step = "idle"
    BY RequestShapes DEF Init
  <2>2. Entitled = {} /\ FeeEntitled = {}
    BY <2>1 DEF Init, Entitled, FeeEntitled, Sent, Serves, Notes
  <2>3. Cardinality({}) = 0
    BY FS_EmptySet
  <2> QED
    BY <2>2, <2>3, ServiceAssumption DEF Init, Covered
<1>2. IInv /\ Covered /\ [Next]_vars => Covered'
  BY CoverNext
<1>3. IInv /\ Covered => Backed
  <2> SUFFICES ASSUME IInv, Covered PROVE Backed
    OBVIOUS
  <2>1. filed \in SUBSET Entitled /\ feeNotes \in SUBSET FeeEntitled
    BY DEF IInv, TypeOK, Entitled, FeeEntitled
  <2>2. /\ Cardinality(filed) \in Nat /\ Cardinality(filed) <= Cardinality(Entitled)
        /\ Cardinality(feeNotes) \in Nat /\ Cardinality(feeNotes) <= Cardinality(FeeEntitled)
        /\ Cardinality(Entitled) \in Nat /\ Cardinality(FeeEntitled) \in Nat
    BY <2>1, EntitledFinite, FS_Subset, FS_CardinalityType
  <2>3. Amount \in Nat /\ Fee \in Nat /\ vault \in Nat
    BY ServiceAssumption DEF IInv, TypeOK
  <2>4. Amount * Cardinality(filed) <= Amount * Cardinality(Entitled)
    BY <2>2, <2>3, TimesMore
  <2>5. Fee * Cardinality(feeNotes) <= Fee * Cardinality(FeeEntitled)
    BY <2>2, <2>3, TimesMore
  <2>6. /\ Amount * Cardinality(filed) \in Nat /\ Amount * Cardinality(Entitled) \in Nat
        /\ Fee * Cardinality(feeNotes) \in Nat /\ Fee * Cardinality(FeeEntitled) \in Nat
    BY <2>2, <2>3, TimesMore
  <2>7. ASSUME NEW a \in Nat, NEW b \in Nat, NEW c \in Nat, NEW d \in Nat, a <= b, c <= d,
               vault >= b + d
        PROVE  vault >= a + c
    BY <2>3, <2>7
  <2> QED
    BY <2>4, <2>5, <2>6, <2>7 DEF Covered, Backed
<1> QED
  BY <1>1, <1>2, <1>3, Invariance, PTL DEF Spec
=============================================================================
