--------------------------- MODULE PayoutsProofs ---------------------------
(***************************************************************************)
(* That a browser is paid by one route and once, for every set of notes,    *)
(* every amount and float and any number of faults.  What an operation has  *)
(* done of a note is known only while it runs; the files and the chain must *)
(* tell enough of it afterwards, wherever it stopped.  And that the vault   *)
(* covers what is in anyone's hands: an operation that burnt tokens and has *)
(* not released the underlying ones leaves the vault with more, never less. *)
(***************************************************************************)
EXTENDS Payouts, SumTheorems, TLAPS

(* An operation that has taken note n out of the pool and has not told      *)
(* anyone: no file is written and nobody is paid.                           *)
Taken(n) ==
  \/ At("withdraw", "file", n)
  \/ \E stage \in {"burn", "release"}, amount \in Asked : op = Browser(stage, n, amount)

(* A note is in the pool, or an operation is between taking it and paying   *)
(* it, or it has a payout file, or a browser was paid, and no two of them.  *)
OneRoute(n) ==
  /\ n \notin spent => payout[n] = "none" /\ paid[n] = 0
  /\ payout[n] = "none" => recipient[n] = 0
  /\ payout[n] /= "none" => paid[n] = 0
  /\ paid[n] <= 1
  /\ Taken(n) => n \in spent /\ payout[n] = "none" /\ paid[n] = 0

(* The mover goes through files that were written.                          *)
QueueWritten ==
  InMover => \A i \in DOMAIN op.queue : payout[op.queue[i]] /= "none"

(* What a run of the mover is still to mark is the head of its queue.        *)
QueueHeld == InMover /\ op.stage \in {"close", "mark"} => op.queue /= <<>>

IInv == TypeOK /\ QueueHeld /\ QueueWritten /\ \A n \in Notes : OneRoute(n)
-----------------------------------------------------------------------------
(* What a scan of the open payouts gives the mover.                         *)
LEMMA ScanGood ==
  ASSUME NEW queue \in Scan
  PROVE  /\ queue \in Seq(Notes)
         /\ \A i \in DOMAIN queue : payout[queue[i]] = "open"
<1> DEFINE k == Cardinality(OpenPayouts)
<1>1. ~Torn /\ queue \in SetToSeqs(OpenPayouts)
  BY DEF Scan
<1>2. k \in Nat
  <2>1. IsFiniteSet(OpenPayouts)
    BY PayoutAssumption, FS_Subset DEF OpenPayouts
  <2> QED
    BY <2>1, FS_CardinalityType
<1>3. queue \in [1 .. k -> OpenPayouts]
  BY <1>1 DEF SetToSeqs
<1> HIDE DEF k
<1>4. /\ queue \in [1 .. k -> Notes]
      /\ \A i \in 1 .. k : payout[queue[i]] = "open"
  BY <1>3 DEF OpenPayouts
<1>5. queue \in Seq(Notes)
  BY <1>2, <1>4
<1> QED
  BY <1>4, <1>5

(* A queue without its head.                                                *)
LEMMA TailGood ==
  ASSUME NEW queue \in Seq(Notes), queue /= <<>>
  PROVE  /\ Tail(queue) \in Seq(Notes) /\ Head(queue) \in Notes
         /\ Head(queue) = queue[1] /\ 1 \in DOMAIN queue
         /\ \A i \in DOMAIN Tail(queue) :
              i + 1 \in DOMAIN queue /\ Tail(queue)[i] = queue[i + 1]
OBVIOUS

MoverOps == [kind : {"mover"}, stage : {"next", "close", "mark"}, queue : Seq(Notes)]

(* The shapes of an operation: which it is and how far it is.               *)
LEMMA OpShapes ==
  /\ Idle \in Ops /\ Idle.kind = "idle"
  /\ \A k \in {"withdraw", "cashout"},
        st \in {"send", "file", "burn", "release"}, n \in Notes :
       /\ Doing(k, st, n) \in Ops
       /\ Doing(k, st, n).kind = k /\ Doing(k, st, n).stage = st
       /\ Doing(k, st, n).note = n
  /\ \A st \in {"burn", "release"}, n \in Notes, a \in Asked :
       /\ Browser(st, n, a) \in Ops
       /\ Browser(st, n, a).kind = "browser" /\ Browser(st, n, a).stage = st
       /\ Browser(st, n, a).note = n /\ Browser(st, n, a).amount = a
  /\ \A queue \in Seq(Notes) :
       /\ Moving(queue) \in Ops
       /\ Moving(queue).kind = "mover" /\ Moving(queue).stage = "next"
       /\ Moving(queue).queue = queue
  /\ \A o \in Ops : o.kind = "mover" => o \in MoverOps /\ o.queue \in Seq(Notes)
  /\ MoverOps \subseteq Ops
<1>1. Idle \in Ops /\ Idle.kind = "idle"
  BY DEF Ops, Idle
<1>2. ASSUME NEW k \in {"withdraw", "cashout"},
             NEW st \in {"send", "file", "burn", "release"}, NEW n \in Notes
      PROVE  /\ Doing(k, st, n) \in Ops
             /\ Doing(k, st, n).kind = k /\ Doing(k, st, n).stage = st
             /\ Doing(k, st, n).note = n
  BY DEF Ops, Doing
<1>6. ASSUME NEW st \in {"burn", "release"}, NEW n \in Notes, NEW a \in Asked
      PROVE  /\ Browser(st, n, a) \in Ops
             /\ Browser(st, n, a).kind = "browser" /\ Browser(st, n, a).stage = st
             /\ Browser(st, n, a).note = n /\ Browser(st, n, a).amount = a
  BY DEF Ops, Browser
<1>3. ASSUME NEW queue \in Seq(Notes)
      PROVE  /\ Moving(queue) \in Ops
             /\ Moving(queue).kind = "mover" /\ Moving(queue).stage = "next"
             /\ Moving(queue).queue = queue
  BY DEF Ops, Moving
<1>4. ASSUME NEW o \in Ops, o.kind = "mover"
      PROVE  o \in MoverOps /\ o.queue \in Seq(Notes)
  <2>1. /\ o /= Idle /\ \A k, st, n : o = Doing(k, st, n) => o.kind = k
        /\ \A st, n, a : o = Browser(st, n, a) => o.kind = "browser"
    BY <1>4 DEF Idle, Doing, Browser
  <2>2. o \in MoverOps
    BY <1>4, <2>1 DEF Ops, MoverOps
  <2> QED
    BY <2>2 DEF MoverOps
<1>5. MoverOps \subseteq Ops
  BY DEF Ops, MoverOps
<1> QED
  BY <1>1, <1>2, <1>3, <1>4, <1>5, <1>6

(* A run of the mover that goes on with the payout it is at.                *)
LEMMA StageGood ==
  ASSUME NEW o \in MoverOps, NEW stage \in {"next", "close", "mark"}
  PROVE  /\ [o EXCEPT !.stage = stage] \in MoverOps
         /\ [o EXCEPT !.stage = stage].kind = "mover"
         /\ [o EXCEPT !.stage = stage].stage = stage
         /\ [o EXCEPT !.stage = stage].queue = o.queue
BY DEF MoverOps

(* A run of the mover that goes on with the rest of its queue.              *)
LEMMA RestGood ==
  ASSUME TypeOK, InMover, op.queue /= <<>>, op' = Moving(Tail(op.queue))
  PROVE  /\ op' \in Ops /\ op'.kind = "mover" /\ op'.stage = "next"
         /\ op'.queue = Tail(op.queue)
         /\ op.queue \in Seq(Notes) /\ Head(op.queue) \in Notes
<1>1. op.queue \in Seq(Notes)
  BY OpShapes DEF TypeOK, InMover
<1>2. Tail(op.queue) \in Seq(Notes) /\ Head(op.queue) \in Notes
  BY <1>1, TailGood
<1> QED
  BY <1>1, <1>2, OpShapes

(* Types hold, and what a run of the mover marks is in its queue.           *)
LEMMA Typed ==
  ASSUME TypeOK, QueueHeld, [Next]_vars
  PROVE  TypeOK' /\ QueueHeld'
<1> USE DEF files, wrapped
<1> DEFINE Money == operator' \in Nat /\ vault' \in Nat
                    /\ recipient' \in [Notes -> Nat] /\ paid' \in [Notes -> Nat]
           Files == spent' \subseteq Notes /\ keyFile' \subseteq Notes
                    /\ configured' \subseteq keyFile'
                    /\ payout' \in [Notes -> {"none", "open", "torn", "done"}]
           Operation == op' \in Ops /\ faults' \in 0 .. MaxFaults /\ QueueHeld'
<1> SUFFICES Money /\ Files /\ Operation
  BY DEF TypeOK
<1>1. ASSUME NEW n \in Notes, Withdraw(n) PROVE Money /\ Files /\ Operation
  BY <1>1, OpShapes DEF Withdraw, TypeOK, QueueHeld, InMover
<1>2. ASSUME NEW n \in Notes, WithdrawSend(n) PROVE Money /\ Files /\ Operation
  BY <1>2, OpShapes DEF WithdrawSend, TypeOK, QueueHeld, InMover
<1>3. ASSUME NEW n \in Notes, WithdrawFile(n) PROVE Money /\ Files /\ Operation
  BY <1>3, OpShapes DEF WithdrawFile, TypeOK, QueueHeld, InMover
<1>4. ASSUME NEW n \in Notes, Configure(n) PROVE Money /\ Files /\ Operation
  BY <1>4, OpShapes, ScanGood DEF Configure, TypeOK, QueueHeld, InMover
<1>5. CASE Mover
  BY <1>5, OpShapes, ScanGood DEF Mover, TypeOK, QueueHeld, InMover
<1>6. ASSUME NEW n \in Notes, MoverPay(n) PROVE Money /\ Files /\ Operation
  <2>1. Money /\ Files
    BY <1>6, PayoutAssumption DEF MoverPay, Covers, TypeOK
  <2>2. op \in MoverOps /\ op.queue /= <<>>
    BY <1>6, OpShapes DEF MoverPay, Heading, InMover, TypeOK
  <2>3. op' \in Ops /\ op'.queue /= <<>>
    BY <1>6, <2>2, StageGood, OpShapes DEF MoverPay
  <2> QED
    BY <1>6, <2>1, <2>3 DEF MoverPay, TypeOK, QueueHeld
<1>7. ASSUME NEW n \in Notes, MoverSkip(n) PROVE Money /\ Files /\ Operation
  BY <1>7, RestGood DEF MoverSkip, Heading, TypeOK, QueueHeld
<1>8. CASE MoverClose
  <2>1. op \in MoverOps /\ op.queue /= <<>>
    BY <1>8, OpShapes DEF MoverClose, InMover, TypeOK, QueueHeld
  <2>2. op' \in Ops /\ op'.queue /= <<>>
    BY <1>8, <2>1, StageGood, OpShapes DEF MoverClose
  <2> QED
    BY <1>8, <2>2 DEF MoverClose, TypeOK, QueueHeld
<1>9. CASE MoverMark
  <2>1. InMover /\ op.queue /= <<>>
    BY <1>9 DEF MoverMark, QueueHeld
  <2> QED
    BY <1>9, <2>1, RestGood DEF MoverMark, TypeOK, QueueHeld
<1>10. CASE MoverFault
  <2>1. InMover /\ op.queue /= <<>>
    BY <1>10 DEF MoverFault, QueueHeld
  <2>2. faults' \in 0 .. MaxFaults
    BY <1>10, PayoutAssumption DEF MoverFault, TypeOK
  <2> QED
    BY <1>10, <2>1, <2>2, RestGood DEF MoverFault, TypeOK, QueueHeld
<1>11. CASE MoverEnd
  BY <1>11, OpShapes DEF MoverEnd, TypeOK, QueueHeld, InMover
<1>12. ASSUME NEW n \in Notes, Cashout(n) PROVE Money /\ Files /\ Operation
  BY <1>12, OpShapes DEF Cashout, TypeOK, QueueHeld, InMover
<1>13. ASSUME NEW n \in Notes, CashoutBurn(n) PROVE Money /\ Files /\ Operation
  <2>1. Money /\ Files
    BY <1>13, PayoutAssumption DEF CashoutBurn, Covers, TypeOK
  <2> QED
    BY <1>13, <2>1, OpShapes DEF CashoutBurn, TypeOK, QueueHeld, InMover
<1>14. ASSUME NEW n \in Notes, CashoutRelease(n) PROVE Money /\ Files /\ Operation
  <2>1. Money /\ Files
    BY <1>14, PayoutAssumption DEF CashoutRelease, TypeOK
  <2> QED
    BY <1>14, <2>1, OpShapes DEF CashoutRelease, TypeOK, QueueHeld, InMover
<1>15. ASSUME NEW n \in Notes, NEW amount \in Asked, WithdrawBrowser(n, amount)
       PROVE  Money /\ Files /\ Operation
  BY <1>15, OpShapes DEF WithdrawBrowser, TypeOK, QueueHeld, InMover
<1>16. ASSUME NEW n \in Notes, NEW amount \in Asked, BrowserBurn(n, amount)
       PROVE  Money /\ Files /\ Operation
  <2>1. Money /\ Files
    BY <1>16, PayoutAssumption DEF BrowserBurn, Covers, TypeOK
  <2> QED
    BY <1>16, <2>1, OpShapes DEF BrowserBurn, TypeOK, QueueHeld, InMover
<1>17. ASSUME NEW n \in Notes, NEW amount \in Asked, BrowserRelease(n, amount)
       PROVE  Money /\ Files /\ Operation
  <2>1. Money /\ Files
    BY <1>17, PayoutAssumption DEF BrowserRelease, TypeOK
  <2> QED
    BY <1>17, <2>1, OpShapes DEF BrowserRelease, TypeOK, QueueHeld, InMover
<1>18. CASE Stop
  <2>1. faults' \in 0 .. MaxFaults
    BY <1>18, PayoutAssumption DEF Stop, TypeOK
  <2> QED
    BY <1>18, <2>1, OpShapes DEF Stop, TypeOK, QueueHeld, InMover
<1>19. CASE UNCHANGED vars
  BY <1>19 DEF vars, TypeOK, QueueHeld, InMover
<1> QED
  BY <1>1, <1>2, <1>3, <1>4, <1>5, <1>6, <1>7, <1>8, <1>9, <1>10, <1>11, <1>12,
     <1>13, <1>14, <1>15, <1>16, <1>17, <1>18, <1>19 DEF Next, Progress

(* After a step that leaves files, notes and browsers alone, the route of   *)
(* every note is what it was, unless the operation holds it from now on.    *)
LEMMA SameRoute ==
  ASSUME IInv, NEW m \in Notes,
         UNCHANGED <<spent, payout, paid>>, recipient'[m] <= recipient[m],
         recipient' \in [Notes -> Nat],
         \/ op'.kind \notin {"withdraw", "browser"}
         \/ Taken(m)
         \/ op'.kind = "withdraw" /\ op'.stage = "send"
         \/ op'.kind = "browser" /\ op'.note /= m
  PROVE  OneRoute(m)'
<1>1. OneRoute(m) /\ recipient[m] \in Nat /\ recipient'[m] \in Nat
  BY DEF IInv, TypeOK
<1>2. Taken(m)' => \/ op'.kind = "withdraw" /\ op'.stage = "file"
                   \/ op'.kind = "browser" /\ op'.note = m
  BY DEF Taken, At, Doing, Browser
<1> QED
  BY <1>1, <1>2 DEF OneRoute

(* A scan and the rest of a queue hold files that were written.             *)
LEMMA MovingWritten ==
  ASSUME IInv, UNCHANGED payout,
         \/ op' \in {Moving(queue) : queue \in Scan}
         \/ InMover /\ op.queue /= <<>> /\ op' = Moving(Tail(op.queue))
  PROVE  QueueWritten'
<1>1. CASE op' \in {Moving(queue) : queue \in Scan}
  BY <1>1, ScanGood, OpShapes DEF QueueWritten
<1>2. CASE InMover /\ op.queue /= <<>> /\ op' = Moving(Tail(op.queue))
  <2>1. op.queue \in Seq(Notes) /\ op'.queue = Tail(op.queue)
    BY <1>2, RestGood DEF IInv
  <2>2. \A i \in DOMAIN op.queue : payout[op.queue[i]] /= "none"
    BY <1>2 DEF IInv, QueueWritten
  <2>3. ASSUME NEW i \in DOMAIN op'.queue PROVE payout[op'.queue[i]] /= "none"
    <3>1. i + 1 \in DOMAIN op.queue /\ op'.queue[i] = op.queue[i + 1]
      BY <1>2, <2>1, <2>3, TailGood
    <3> QED
      BY <2>2, <3>1
  <2> QED
    BY <2>3 DEF QueueWritten
<1> QED
  BY <1>1, <1>2

(* Every step keeps to one route for each note.                             *)
LEMMA Routed ==
  ASSUME IInv, [Next]_vars, TypeOK', NEW m \in Notes
  PROVE  QueueWritten' /\ OneRoute(m)'
<1> USE DEF files, wrapped
<1>a. /\ recipient \in [Notes -> Nat] /\ paid \in [Notes -> Nat]
      /\ payout \in [Notes -> {"none", "open", "torn", "done"}] /\ op \in Ops
      /\ recipient' \in [Notes -> Nat] /\ paid' \in [Notes -> Nat] /\ op' \in Ops
  BY DEF IInv, TypeOK
<1>b. OneRoute(m) /\ QueueWritten
  BY DEF IInv
<1>c. Idle.kind = "idle" /\ \A k, st, n : Doing(k, st, n).kind = k
                            /\ Doing(k, st, n).stage = st /\ Doing(k, st, n).note = n
  BY DEF Idle, Doing
<1>d. \A queue : Moving(queue).kind = "mover"
  BY DEF Moving
<1>e. \A st, n, a : /\ Browser(st, n, a).kind = "browser"
                    /\ Browser(st, n, a).stage = st /\ Browser(st, n, a).note = n
  BY DEF Browser
<1>1. ASSUME NEW n \in Notes, Withdraw(n) PROVE QueueWritten' /\ OneRoute(m)'
  BY <1>1, <1>a, <1>c, SameRoute DEF Withdraw, QueueWritten, InMover
<1>2. ASSUME NEW n \in Notes, WithdrawSend(n) PROVE QueueWritten' /\ OneRoute(m)'
  <2>1. QueueWritten'
    BY <1>2, <1>c DEF WithdrawSend, QueueWritten, InMover
  <2>2. OneRoute(m)'
    BY <1>2, <1>b, <1>c, <1>e DEF WithdrawSend, OneRoute, Taken, At
  <2> QED
    BY <2>1, <2>2
<1>3. ASSUME NEW n \in Notes, WithdrawFile(n) PROVE QueueWritten' /\ OneRoute(m)'
  <2>1. QueueWritten'
    BY <1>3, <1>c DEF WithdrawFile, QueueWritten, InMover
  <2>2. OneRoute(m)'
    BY <1>3, <1>a, <1>b, <1>c, <1>e DEF WithdrawFile, OneRoute, Taken, At
  <2> QED
    BY <2>1, <2>2
<1>4. ASSUME NEW n \in Notes, Configure(n) PROVE QueueWritten' /\ OneRoute(m)'
  <2>1. op'.kind \in {"idle", "mover"}
    BY <1>4, <1>c, <1>d DEF Configure
  <2>2. OneRoute(m)'
    BY <1>4, <1>a, <2>1, SameRoute DEF Configure
  <2>3. CASE op' = Idle
    BY <1>c, <2>2, <2>3 DEF QueueWritten, InMover
  <2>4. CASE op' \in {Moving(queue) : queue \in Scan}
    BY <1>4, <2>2, <2>4, MovingWritten DEF Configure
  <2> QED
    BY <1>4, <2>3, <2>4 DEF Configure
<1>5. CASE Mover
  <2>1. OneRoute(m)'
    BY <1>5, <1>a, <1>d, SameRoute DEF Mover
  <2> QED
    BY <1>5, <2>1, MovingWritten DEF Mover
<1>6. ASSUME NEW n \in Notes, MoverPay(n) PROVE QueueWritten' /\ OneRoute(m)'
  <2>1. op \in MoverOps /\ op.queue \in Seq(Notes) /\ op.queue /= <<>> /\ Head(op.queue) = n
    BY <1>6, <1>a, OpShapes DEF MoverPay, Heading, InMover
  <2>2. op'.kind = "mover" /\ op'.queue = op.queue
    BY <1>6, <2>1, StageGood DEF MoverPay
  <2>3. InMover /\ payout[n] /= "none"
    BY <1>6, <1>b, <2>1, TailGood DEF MoverPay, Heading, QueueWritten
  <2>4. QueueWritten'
    BY <1>6, <1>b, <2>2, <2>3 DEF MoverPay, QueueWritten
  <2>5. ~Taken(m)'
    BY <1>c, <1>e, <2>2 DEF Taken, At
  <2>6. UNCHANGED <<spent, payout, paid>> /\ (m /= n => recipient'[m] = recipient[m])
    BY <1>6, <1>a DEF MoverPay
  <2> QED
    BY <1>b, <2>3, <2>4, <2>5, <2>6 DEF OneRoute
<1>7. ASSUME NEW n \in Notes, MoverSkip(n) PROVE QueueWritten' /\ OneRoute(m)'
  <2>1. OneRoute(m)'
    BY <1>7, <1>a, <1>d, SameRoute DEF MoverSkip
  <2> QED
    BY <1>7, <2>1, MovingWritten DEF MoverSkip, Heading
<1>8. CASE MoverClose
  <2>1. op \in MoverOps
    BY <1>8, <1>a, OpShapes DEF MoverClose, InMover
  <2>2. op'.kind = "mover" /\ op'.queue = op.queue
    BY <1>8, <2>1, StageGood DEF MoverClose
  <2>3. OneRoute(m)'
    BY <1>8, <1>a, <2>2, SameRoute DEF MoverClose
  <2> QED
    BY <1>8, <1>b, <2>2, <2>3 DEF MoverClose, QueueWritten
<1>9. CASE MoverMark
  <2>1. /\ InMover /\ op.queue \in Seq(Notes) /\ op.queue /= <<>>
        /\ op' = Moving(Tail(op.queue))
    BY <1>9, <1>a, OpShapes DEF MoverMark, InMover, IInv, QueueHeld
  <2>2. Head(op.queue) \in Notes /\ payout[Head(op.queue)] /= "none"
    BY <1>b, <2>1, TailGood DEF QueueWritten
  <2>3. op'.kind = "mover" /\ op'.queue = Tail(op.queue)
    BY <2>1, RestGood DEF IInv
  <2>4. payout' = [payout EXCEPT ![Head(op.queue)] = "done"]
    BY <1>9 DEF MoverMark
  <2>5. \A n \in Notes : payout[n] /= "none" => payout'[n] /= "none"
    BY <1>a, <2>4
  <2>6. ASSUME NEW i \in DOMAIN op'.queue PROVE payout'[op'.queue[i]] /= "none"
    <3>1. i + 1 \in DOMAIN op.queue /\ op'.queue[i] = op.queue[i + 1]
      BY <2>1, <2>3, <2>6, TailGood
    <3>2. op.queue[i + 1] \in Notes /\ payout[op.queue[i + 1]] /= "none"
      BY <1>b, <2>1, <3>1 DEF QueueWritten
    <3> QED
      BY <2>5, <3>1, <3>2
  <2>7. QueueWritten'
    BY <2>6 DEF QueueWritten
  <2>8. ~Taken(m)'
    BY <1>c, <1>e, <2>3 DEF Taken, At
  <2>9. payout'[m] = "none" <=> payout[m] = "none"
    BY <1>a, <2>2, <2>4
  <2>10. UNCHANGED <<spent, recipient, paid>>
    BY <1>9 DEF MoverMark
  <2> QED
    BY <1>b, <2>7, <2>8, <2>9, <2>10 DEF OneRoute
<1>10. CASE MoverFault
  <2>1. InMover /\ op.queue /= <<>> /\ op' = Moving(Tail(op.queue))
    BY <1>10 DEF MoverFault, IInv, QueueHeld
  <2>2. OneRoute(m)'
    BY <1>10, <1>a, <1>d, SameRoute DEF MoverFault
  <2> QED
    BY <1>10, <2>1, <2>2, MovingWritten DEF MoverFault
<1>11. CASE MoverEnd
  BY <1>11, <1>a, <1>c, SameRoute DEF MoverEnd, QueueWritten, InMover
<1>12. ASSUME NEW n \in Notes, Cashout(n) PROVE QueueWritten' /\ OneRoute(m)'
  BY <1>12, <1>a, <1>c, SameRoute DEF Cashout, QueueWritten, InMover
<1>13. ASSUME NEW n \in Notes, CashoutBurn(n) PROVE QueueWritten' /\ OneRoute(m)'
  <2>1. recipient'[m] <= recipient[m]
    BY <1>13, <1>a, PayoutAssumption DEF CashoutBurn
  <2>2. op'.kind \in {"cashout", "idle"}
    BY <1>13, <1>c DEF CashoutBurn
  <2> QED
    BY <1>13, <1>a, <2>1, <2>2, SameRoute DEF CashoutBurn, QueueWritten, InMover
<1>14. ASSUME NEW n \in Notes, CashoutRelease(n) PROVE QueueWritten' /\ OneRoute(m)'
  BY <1>14, <1>a, <1>c, SameRoute DEF CashoutRelease, QueueWritten, InMover
<1>15. ASSUME NEW n \in Notes, NEW amount \in Asked, WithdrawBrowser(n, amount)
       PROVE  QueueWritten' /\ OneRoute(m)'
  <2>1. QueueWritten'
    BY <1>15, <1>c, <1>e DEF WithdrawBrowser, QueueWritten, InMover
  <2>2. OneRoute(m)'
    BY <1>15, <1>b, <1>c, <1>e DEF WithdrawBrowser, OneRoute, Taken, At
  <2> QED
    BY <2>1, <2>2
<1>16. ASSUME NEW n \in Notes, NEW amount \in Asked, BrowserBurn(n, amount)
       PROVE  QueueWritten' /\ OneRoute(m)'
  <2>1. QueueWritten'
    BY <1>16, <1>c, <1>e DEF BrowserBurn, QueueWritten, InMover
  <2>2. CASE m = n
    <3>1. Taken(m)
      BY <1>16, <2>2 DEF BrowserBurn, Taken
    <3> QED
      BY <1>16, <1>a, <2>1, <3>1, SameRoute DEF BrowserBurn
  <2>3. CASE m /= n
    <3>1. (op'.kind = "browser" /\ op'.note /= m) \/ op'.kind = "idle"
      BY <1>16, <1>c, <1>e, <2>3 DEF BrowserBurn
    <3> QED
      BY <1>16, <1>a, <2>1, <3>1, SameRoute DEF BrowserBurn
  <2> QED
    BY <2>2, <2>3
<1>17. ASSUME NEW n \in Notes, NEW amount \in Asked, BrowserRelease(n, amount)
       PROVE  QueueWritten' /\ OneRoute(m)'
  <2>1. QueueWritten'
    BY <1>17, <1>c DEF BrowserRelease, QueueWritten, InMover
  <2>2. ~Taken(m)'
    BY <1>17, <1>c, <1>e DEF BrowserRelease, Taken, At
  <2>3. CASE m = n
    <3>1. m \in spent /\ payout[m] = "none" /\ paid[m] = 0
      <4>1. Taken(m)
        BY <1>17, <2>3 DEF BrowserRelease, Taken
      <4> QED
        BY <1>b, <4>1 DEF OneRoute
    <3>2. paid'[m] = 1
      BY <1>17, <1>a, <2>3, <3>1 DEF BrowserRelease
    <3> QED
      BY <1>17, <1>b, <2>1, <2>2, <3>1, <3>2 DEF BrowserRelease, OneRoute
  <2>4. CASE m /= n
    <3>1. paid'[m] = paid[m]
      BY <1>17, <1>a, <2>4 DEF BrowserRelease
    <3> QED
      BY <1>17, <1>b, <2>1, <2>2, <3>1 DEF BrowserRelease, OneRoute
  <2> QED
    BY <2>3, <2>4
<1>18. CASE Stop
  BY <1>18, <1>a, <1>c, SameRoute DEF Stop, QueueWritten, InMover
<1>19. CASE UNCHANGED vars
  BY <1>19, <1>b DEF vars, OneRoute, Taken, At, QueueWritten, InMover
<1> QED
  BY <1>1, <1>2, <1>3, <1>4, <1>5, <1>6, <1>7, <1>8, <1>9, <1>10, <1>11, <1>12,
     <1>13, <1>14, <1>15, <1>16, <1>17, <1>18, <1>19 DEF Next, Progress
-----------------------------------------------------------------------------
LEMMA InitGood == Init => IInv
<1> SUFFICES ASSUME Init PROVE IInv
  OBVIOUS
<1>1. operator \in Nat
  <2>1. Cardinality(Notes) \in Nat
    BY PayoutAssumption, FS_CardinalityType
  <2>2. Amount * Cardinality(Notes) \in Nat
    BY <2>1, PayoutAssumption
  <2> QED
    BY <2>2, PayoutAssumption DEF Init
<1>2. TypeOK
  BY <1>1, OpShapes, PayoutAssumption DEF Init, TypeOK
<1>3. QueueHeld /\ QueueWritten
  BY OpShapes DEF Init, QueueHeld, QueueWritten, InMover
<1>4. ASSUME NEW n \in Notes PROVE OneRoute(n)
  <2>1. \A k, st, a : Idle /= Doing(k, st, n) /\ Idle /= Browser(st, n, a)
    BY DEF Idle, Doing, Browser
  <2>2. Init => ~Taken(n)
    BY <2>1 DEF Init, Taken, At
  <2> QED
    BY <2>2, PayoutAssumption DEF Init, OneRoute
<1> QED
  BY <1>2, <1>3, <1>4 DEF IInv

(* The inductive invariant of the payouts.                                  *)
THEOREM Invariance == Spec => []IInv
<1>1. ASSUME IInv, [Next]_vars PROVE IInv'
  <2>1. TypeOK' /\ QueueHeld'
    BY <1>1, Typed DEF IInv
  <2>2. ASSUME NEW m \in Notes PROVE OneRoute(m)'
    BY <1>1, <2>1, Routed
  <2>3. QueueWritten'
    <3>1. CASE Notes = {}
      <4>1. ~InMover' \/ \A i \in DOMAIN op'.queue : FALSE
        BY <2>1, <3>1, OpShapes DEF TypeOK, InMover
      <4> QED
        BY <4>1 DEF QueueWritten
    <3>2. CASE \E m \in Notes : TRUE
      BY <1>1, <2>1, <3>2, Routed
    <3> QED
      BY <3>1, <3>2
  <2> QED
    BY <2>1, <2>2, <2>3 DEF IInv
<1> QED
  BY <1>1, InitGood, PTL DEF Spec

(* Balances, files and operations are typed in every reachable state: no    *)
(* balance is overdrawn by a payout, a burn or a release.                   *)
THEOREM TypeCorrect == Spec => []TypeOK
<1>1. IInv => TypeOK
  BY DEF IInv
<1> QED
  BY <1>1, Invariance, PTL

(* A browser is paid by one route and once for a note, whatever amount it   *)
(* asks for and wherever operations stopped.                                *)
THEOREM RouteCorrect == Spec => []PaidByOneRoute
<1>1. IInv => PaidByOneRoute
  <2> SUFFICES ASSUME IInv, NEW n \in Notes
               PROVE  /\ paid[n] <= 1
                      /\ paid[n] > 0 =>
                           n \in spent /\ payout[n] = "none" /\ recipient[n] = 0
    BY DEF PaidByOneRoute
  <2>1. OneRoute(n) /\ paid[n] \in Nat
    BY DEF IInv, TypeOK
  <2> QED
    BY <2>1 DEF OneRoute
<1> QED
  BY <1>1, Invariance, PTL
-----------------------------------------------------------------------------
(* The vault covers the supply.                                             *)

(* What an operation has burnt of the wrapped tokens and not yet paid for.   *)
Releasing(o) == o.kind \in {"cashout", "browser"} /\ o.stage = "release"

Owed(o) == IF ~Releasing(o) THEN 0 ELSE IF o.kind = "cashout" THEN Amount ELSE o.amount

Covered == vault >= Supply + Owed(op)

CInv == IInv /\ Covered

LEMMA SupplySum ==
  /\ Supply = operator + SumOver(recipient, Notes)
  /\ Supply' = operator' + SumOver(recipient', Notes)
BY DEF Supply, SumOver, MapThenSumSet, MapThenFoldSet

(* The supply and the amount are numbers.                                   *)
LEMMA SupplyTypes ==
  ASSUME TypeOK
  PROVE  /\ SumOver(recipient, Notes) \in Int /\ Supply \in Int
         /\ operator \in Int /\ vault \in Int /\ Amount \in Nat
<1>1. \A n \in Notes : recipient[n] \in Int
  BY DEF TypeOK
<1>2. SumOver(recipient, Notes) \in Int
  BY <1>1, PayoutAssumption, SumInt
<1>3. operator \in Int /\ vault \in Int /\ Amount \in Nat
  BY PayoutAssumption DEF TypeOK
<1> QED
  BY <1>2, <1>3, SupplySum

(* A payment to one recipient, or a burn of its tokens, moves the supply by *)
(* as much.                                                                 *)
LEMMA RecipientMoves ==
  ASSUME TypeOK, TypeOK', NEW n \in Notes, NEW d \in Int,
         recipient'[n] = recipient[n] + d,
         \A m \in Notes \ {n} : recipient'[m] = recipient[m]
  PROVE  SumOver(recipient', Notes) = SumOver(recipient, Notes) + d
<1> DEFINE f == recipient
           g == recipient'
<1>1. /\ IsFiniteSet(Notes) /\ \A m \in Notes : f[m] \in Int /\ g[m] \in Int
      /\ \A m \in Notes \ {n} : g[m] = f[m]
  BY PayoutAssumption DEF TypeOK
<1>2. g[n] = f[n] + d
  OBVIOUS
<1>3. SumOver(f, Notes) \in Int
  BY <1>1, SumInt
<1> HIDE DEF f, g
<1>4. SumOver(g, Notes) = SumOver(f, Notes) - f[n] + g[n]
  BY ONLY <1>1, SumUpdate, n \in Notes
<1>5. SumOver(g, Notes) = SumOver(f, Notes) + d
  BY ONLY <1>1, <1>2, <1>3, <1>4, n \in Notes, d \in Int
<1> QED
  BY <1>5 DEF f, g

(* What an operation owes at each of its stages.                            *)
LEMMA OwedAt ==
  /\ \A o \in Ops : Owed(o) \in Nat
  /\ \A o \in Ops : ~Releasing(o) => Owed(o) = 0
  /\ ~Releasing(Idle)
  /\ \A k \in {"withdraw", "cashout"} : \A st, n :
       Releasing(Doing(k, st, n)) => k = "cashout" /\ st = "release"
  /\ \A queue : ~Releasing(Moving(queue))
  /\ \A n, a : ~Releasing(Browser("burn", n, a))
  /\ \A n : Owed(Doing("cashout", "release", n)) = Amount
  /\ \A n, a : Owed(Browser("release", n, a)) = a
<1>1. ASSUME NEW o \in Ops PROVE Owed(o) \in Nat /\ (~Releasing(o) => Owed(o) = 0)
  <2>1. CASE ~Releasing(o)
    BY <2>1 DEF Owed
  <2>2. CASE Releasing(o) /\ o.kind = "cashout"
    BY <2>2, PayoutAssumption DEF Owed
  <2>3. CASE Releasing(o) /\ o.kind = "browser"
    <3>1. /\ o /= Idle /\ o \notin MoverOps
          /\ \A k \in {"withdraw", "cashout"} : \A st, n : o /= Doing(k, st, n)
      BY <2>3 DEF Idle, Doing, MoverOps
    <3>2. PICK st \in {"burn", "release"}, n \in Notes, a \in Asked : o = Browser(st, n, a)
      BY <3>1 DEF Ops, MoverOps
    <3>3. o.amount \in Asked
      BY <3>2 DEF Browser
    <3> QED
      BY <2>3, <3>3, PayoutAssumption DEF Owed
  <2> QED
    BY <2>1, <2>2, <2>3 DEF Releasing
<1>2. /\ ~Releasing(Idle)
      /\ \A k \in {"withdraw", "cashout"} : \A st, n :
       Releasing(Doing(k, st, n)) => k = "cashout" /\ st = "release"
      /\ \A queue : ~Releasing(Moving(queue))
      /\ \A n, a : ~Releasing(Browser("burn", n, a))
  <2>1. \A k, st, n : Doing(k, st, n).kind = k /\ Doing(k, st, n).stage = st
    BY DEF Doing
  <2>2. ASSUME NEW k \in {"withdraw", "cashout"}, NEW st, NEW n, Releasing(Doing(k, st, n))
        PROVE  k = "cashout" /\ st = "release"
    BY <2>1, <2>2 DEF Releasing
  <2> QED
    BY <2>2 DEF Releasing, Idle, Moving, Browser
<1>3. /\ \A n : Owed(Doing("cashout", "release", n)) = Amount
      /\ \A n, a : Owed(Browser("release", n, a)) = a
  BY DEF Owed, Releasing, Doing, Browser
<1> QED
  BY <1>1, <1>2, <1>3

(* No operation takes from the vault what it has not burnt.                 *)
LEMMA CoveredKept ==
  ASSUME CInv, TypeOK', [Next]_vars
  PROVE  Covered'
<1> USE DEF files, wrapped
<1> DEFINE r == SumOver(recipient, Notes)
           s == SumOver(recipient', Notes)
<1>a. r \in Int /\ operator \in Int /\ vault \in Int /\ Amount \in Nat
  BY SupplyTypes DEF CInv, IInv
<1>b. vault >= operator + r + Owed(op)
  <2>1. Supply = operator + r /\ vault >= Supply + Owed(op)
    BY SupplySum DEF CInv, Covered
  <2> QED
    BY <2>1
<1>e. TypeOK /\ op \in Ops /\ op' \in Ops
  BY DEF CInv, IInv, TypeOK
<1>f. Owed(op) \in Nat /\ Owed(op') \in Nat
  BY <1>e, OwedAt
<1> SUFFICES vault' >= operator' + s + Owed(op')
  BY SupplySum DEF Covered
<1> HIDE DEF r, s
<1>1. ASSUME UNCHANGED <<wrapped, vault>>, ~Releasing(op')
      PROVE  vault' >= operator' + s + Owed(op')
  <2>1. Owed(op') = 0 /\ s = r
    BY <1>1, <1>e, OwedAt DEF r, s
  <2> QED
    BY <1>1, <1>a, <1>b, <1>f, <2>1
<1>2. ASSUME NEW n \in Notes, MoverPay(n) PROVE vault' >= operator' + s + Owed(op')
  <2>1. recipient' = [recipient EXCEPT ![n] = @ + Amount]
        /\ operator' = operator - Amount /\ vault' = vault
    BY <1>2 DEF MoverPay
  <2>2. s = r + Amount
    <3>1. /\ recipient'[n] = recipient[n] + Amount /\ Amount \in Int
          /\ \A m \in Notes \ {n} : recipient'[m] = recipient[m]
      BY <1>a, <1>e, <2>1 DEF TypeOK
    <3> QED
      BY <1>e, <3>1, RecipientMoves DEF r, s
  <2>3. ~Releasing(op')
    <3>1. op \in MoverOps /\ op' = [op EXCEPT !.stage = "close"]
      BY <1>2, <1>e, OpShapes DEF MoverPay, Heading, InMover
    <3> QED
      BY <3>1, StageGood DEF Releasing
  <2>4. Owed(op') = 0
    BY <1>e, <2>3, OwedAt
  <2> QED
    BY ONLY <1>a, <1>b, <1>f, <2>1, <2>2, <2>4
<1>3. ASSUME NEW n \in Notes, CashoutBurn(n) PROVE vault' >= operator' + s + Owed(op')
  <2>1. recipient' = [recipient EXCEPT ![n] = @ - Amount]
        /\ operator' = operator /\ vault' = vault
    BY <1>3 DEF CashoutBurn
  <2>2. /\ recipient'[n] = recipient[n] + (-Amount) /\ -Amount \in Int
        /\ \A m \in Notes \ {n} : recipient'[m] = recipient[m]
    BY <1>a, <1>e, <2>1 DEF TypeOK
  <2>3. s = r + (-Amount)
    BY <1>e, <2>2, RecipientMoves DEF r, s
  <2>4. Owed(op') \in {0, Amount}
    BY <1>3, <1>e, OwedAt DEF CashoutBurn
  <2> QED
    BY ONLY <1>a, <1>b, <1>f, <2>1, <2>3, <2>4
<1>4. ASSUME NEW n \in Notes, NEW amount \in Asked, BrowserBurn(n, amount)
      PROVE  vault' >= operator' + s + Owed(op')
  <2>1. operator' = operator - amount /\ recipient' = recipient /\ vault' = vault
    BY <1>4 DEF BrowserBurn
  <2>2. s = r /\ amount \in Nat
    BY <2>1, PayoutAssumption DEF r, s
  <2>4. Owed(op') \in {0, amount}
    BY <1>4, <1>e, OwedAt DEF BrowserBurn
  <2> QED
    BY ONLY <1>a, <1>b, <1>f, <2>1, <2>2, <2>4
<1>5. ASSUME NEW n \in Notes, CashoutRelease(n)
      PROVE  vault' >= operator' + s + Owed(op')
  <2>1. /\ vault' = vault - Amount /\ operator' = operator /\ recipient' = recipient
        /\ op = Doing("cashout", "release", n) /\ op' = Idle
    BY <1>5 DEF CashoutRelease, At
  <2>2. s = r
    BY <2>1 DEF r, s
  <2>3. Owed(op) = Amount /\ Owed(op') = 0
    BY <1>e, <2>1, OwedAt
  <2> QED
    BY ONLY <1>a, <1>b, <2>1, <2>2, <2>3
<1>11. ASSUME NEW n \in Notes, NEW amount \in Asked, BrowserRelease(n, amount)
       PROVE  vault' >= operator' + s + Owed(op')
  <2>1. /\ vault' = vault - amount /\ operator' = operator /\ recipient' = recipient
        /\ op = Browser("release", n, amount) /\ op' = Idle
    BY <1>11 DEF BrowserRelease
  <2>2. s = r /\ amount \in Nat
    BY <2>1, PayoutAssumption DEF r, s
  <2>3. Owed(op) = amount /\ Owed(op') = 0
    BY <1>e, <2>1, OwedAt
  <2> QED
    BY ONLY <1>a, <1>b, <2>1, <2>2, <2>3
<1>6. ASSUME NEW n \in Notes,
             Withdraw(n) \/ WithdrawSend(n) \/ WithdrawFile(n) \/ Cashout(n)
      PROVE  vault' >= operator' + s + Owed(op')
  <2>1. UNCHANGED <<wrapped, vault>>
    BY <1>6 DEF Withdraw, WithdrawSend, WithdrawFile, Cashout
  <2>2. \/ op' = Idle
        \/ \E k \in {"withdraw", "cashout"} : \E st : op' = Doing(k, st, n) /\ (k = "withdraw" \/ st = "burn")
    BY <1>6 DEF Withdraw, WithdrawSend, WithdrawFile, Cashout
  <2>3. ~Releasing(op')
    BY <2>2, OwedAt
  <2> QED
    BY <1>1, <2>1, <2>3
<1>12. ASSUME NEW n \in Notes, NEW amount \in Asked, WithdrawBrowser(n, amount)
       PROVE  vault' >= operator' + s + Owed(op')
  <2>1. ~Releasing(op') /\ UNCHANGED <<wrapped, vault>>
    BY <1>12, OwedAt DEF WithdrawBrowser
  <2> QED
    BY <1>1, <2>1
<1>7. ASSUME NEW n \in Notes, Configure(n) \/ MoverSkip(n)
      PROVE  vault' >= operator' + s + Owed(op')
  <2>1. ~Releasing(op') /\ UNCHANGED <<wrapped, vault>>
    BY <1>7, OwedAt DEF Configure, MoverSkip
  <2> QED
    BY <1>1, <2>1
<1>8. CASE Mover \/ MoverMark \/ MoverFault \/ MoverEnd \/ Stop
  <2>1. ~Releasing(op') /\ UNCHANGED <<wrapped, vault>>
    BY <1>8, OwedAt DEF Mover, MoverMark, MoverFault, MoverEnd, Stop
  <2> QED
    BY <1>1, <2>1
<1>9. CASE MoverClose
  <2>1. op \in MoverOps /\ op' = [op EXCEPT !.stage = "mark"]
    BY <1>9, <1>e, OpShapes DEF MoverClose, InMover
  <2>2. ~Releasing(op')
    BY <2>1, StageGood DEF Releasing
  <2> QED
    BY <1>1, <1>9, <2>2 DEF MoverClose
<1>10. CASE UNCHANGED vars
  <2>1. op' = op /\ vault' = vault /\ operator' = operator /\ s = r
    BY <1>10 DEF vars, r, s
  <2> QED
    BY <1>b, <2>1
<1> QED
  BY <1>2, <1>3, <1>4, <1>5, <1>6, <1>7, <1>8, <1>9, <1>10, <1>11, <1>12
  DEF Next, Progress

(* Every wrapped token in anyone's hands can be cashed in, in every         *)
(* reachable state, whatever transactions failed, were reported as failed   *)
(* or were the last before the process stopped.                             *)
THEOREM SupplyCovered == Spec => []VaultCoversSupply
<1>1. ASSUME Init PROVE Covered
  <2>1. \A n \in Notes : recipient[n] = 0
    BY <1>1 DEF Init
  <2>2. SumOver(recipient, Notes) = 0
    BY <2>1, PayoutAssumption, SumZero
  <2>3. Owed(op) = 0 /\ vault = operator
    BY <1>1, OpShapes, OwedAt DEF Init
  <2>4. TypeOK
    BY <1>1, InitGood DEF IInv
  <2> QED
    BY <2>2, <2>3, <2>4, SupplySum, SupplyTypes DEF Covered
<1>2. IInv /\ IInv' /\ Covered /\ [Next]_vars => Covered'
  BY CoveredKept DEF CInv, IInv
<1>3. IInv /\ Covered => VaultCoversSupply
  <2>1. ASSUME IInv, Covered PROVE VaultCoversSupply
    <3>1. Owed(op) \in Nat /\ Supply \in Int /\ vault \in Int
      BY <2>1, OwedAt, SupplyTypes DEF IInv, TypeOK
    <3> QED
      BY <2>1, <3>1 DEF Covered, VaultCoversSupply
  <2> QED
    BY <2>1
<1> QED
  BY <1>1, <1>2, <1>3, Invariance, PTL DEF Spec
=============================================================================
