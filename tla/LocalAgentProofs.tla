-------------------------- MODULE LocalAgentProofs --------------------------
(***************************************************************************)
(* That what the agent has on record stays within its daily cap in every   *)
(* sliding day, for every set of calls, every limit, every length of the   *)
(* day and every number of workers.                                        *)
(***************************************************************************)
EXTENDS LocalAgent, SumTheorems

(* A call that may still pay: it asked for a payment, not for library work. *)
Paying == {"lock", "quote", "libLock", "otherPay"} \cup InPayment

Blocked == {c \in Calls : phase[c] \in Blocking}
Underway == {Entry(c, started[c]) : c \in {d \in Calls : phase[d] \in InPayment}}
OnRecord == budget \cup Underway

(* The mutex belongs to the one call between its check and its record, and a *)
(* payment on record is one that is over.                                    *)
MutexGood ==
  /\ lock = {c \in Calls : phase[c] \in InPayment}
  /\ \A c, d \in lock : c = d
  /\ \A c \in lock : started[c] <= now

RecordGood ==
  /\ IsFiniteSet(budget)
  /\ \A e \in budget : e.at <= now /\ phase[e.call] = "done"

Capped(payments) == \A e \in payments : Worth(Within(payments, e.at)) <= PerDay

IInv ==
  /\ TypeOK /\ MutexGood /\ RecordGood
  /\ IsFiniteSet(Blocked)
  /\ \A c \in Calls : phase[c] \in Paying => request[c].amount \in Amounts
  /\ Capped(OnRecord)
-----------------------------------------------------------------------------
(* What a set of entries is worth.                                          *)

Counted(entries) ==
  IsFiniteSet(entries) /\ \A e \in entries : e.amount \in Nat /\ e.at \in Nat

LEMMA WorthIs ==
  ASSUME NEW S
  PROVE  Worth(S) = SumOver([e \in S |-> e.amount], S)
BY DEF Worth, SumOver, MapThenSumSet, MapThenFoldSet

LEMMA WorthPart ==
  ASSUME NEW S, Counted(S), NEW T, T \subseteq S
  PROVE  /\ Counted(T) /\ Worth(S) \in Nat /\ Worth(T) \in Nat /\ Worth(T) <= Worth(S)
<1> DEFINE f == [e \in S |-> e.amount]
           g == [e \in T |-> e.amount]
<1>1. IsFiniteSet(S) /\ IsFiniteSet(T) /\ Counted(T)
  BY FS_Subset DEF Counted
<1>2. /\ \A e \in S : f[e] \in Nat
      /\ \A e \in T : g[e] = f[e] /\ g[e] \in Nat
  BY DEF Counted
<1>a. Worth(S) = SumOver(f, S) /\ Worth(T) = SumOver(g, T)
  BY WorthIs
<1> HIDE DEF f, g
<1>3. SumOver(g, T) = SumOver(f, T)
  BY <1>1, <1>2, SumSame
<1>4. SumOver(f, T) <= SumOver(f, S)
  BY <1>1, <1>2, SumPart
<1>5. SumOver(f, S) \in Nat /\ SumOver(g, T) \in Nat
  BY <1>1, <1>2, SumNat
<1> QED
  BY <1>1, <1>a, <1>3, <1>4, <1>5

LEMMA WorthAdd ==
  ASSUME NEW S, Counted(S), NEW x, x \notin S, x.amount \in Nat
  PROVE  Worth(S \cup {x}) = Worth(S) + x.amount
<1> DEFINE f == [e \in S |-> e.amount]
           g == [e \in S \cup {x} |-> e.amount]
<1>1. /\ \A e \in S : g[e] = f[e]
      /\ \A e \in S \cup {x} : g[e] \in Int
      /\ g[x] = x.amount /\ IsFiniteSet(S)
  BY DEF Counted
<1>2. Worth(S) = SumOver(f, S) /\ Worth(S \cup {x}) = SumOver(g, S \cup {x})
  BY WorthIs
<1> HIDE DEF f, g
<1>3. SumOver(g, S \cup {x}) = SumOver(f, S) + g[x]
  BY <1>1, SumGrow
<1> QED
  BY <1>1, <1>2, <1>3

(* Forgetting and giving up keep within the cap.                            *)
LEMMA CapPart ==
  ASSUME NEW P, Counted(P), Capped(P), NEW Q, Q \subseteq P
  PROVE  Capped(Q)
<1> SUFFICES ASSUME NEW e \in Q PROVE Worth(Within(Q, e.at)) <= PerDay
  BY DEF Capped
<1>1. Within(Q, e.at) \subseteq Within(P, e.at) /\ Within(P, e.at) \subseteq P
  BY DEF Within
<1>2. Counted(Within(P, e.at))
  BY <1>1, WorthPart
<1>3. /\ Worth(Within(Q, e.at)) \in Nat /\ Worth(Within(P, e.at)) \in Nat
      /\ Worth(Within(Q, e.at)) <= Worth(Within(P, e.at))
  BY <1>1, <1>2, WorthPart
<1>4. Worth(Within(P, e.at)) <= PerDay
  BY DEF Capped
<1> QED
  BY <1>3, <1>4, AgentAssumption

(* So does a payment that fits what the day before it has left.             *)
LEMMA CapAdd ==
  ASSUME NEW t \in Nat, NEW P, Counted(P), Capped(P), \A e \in P : e.at <= t,
         NEW x, x \notin P, x.at = t, x.amount \in Nat,
         Worth(Within(P, t)) + x.amount <= PerDay
  PROVE  Capped(P \cup {x})
<1> DEFINE Q == P \cup {x}
<1>a. PerDay \in Nat /\ Day \in Nat \ {0}
  BY AgentAssumption
<1>1. Within(Q, t) = Within(P, t) \cup {x}
  BY <1>a DEF Within
<1>2. Counted(Within(P, t)) /\ x \notin Within(P, t)
  <2>1. Within(P, t) \subseteq P
    BY DEF Within
  <2> QED
    BY <2>1, WorthPart
<1>3. Worth(Within(Q, t)) <= PerDay
  BY <1>1, <1>2, WorthAdd
<1> SUFFICES ASSUME NEW e \in Q PROVE Worth(Within(Q, e.at)) <= PerDay
  BY DEF Capped
<1>4. CASE e.at = t
  BY <1>3, <1>4
<1>5. CASE e.at # t
  <2>1. e \in P /\ e.at \in Nat /\ e.at < t
    BY <1>5 DEF Counted
  <2>2. Within(Q, e.at) = Within(P, e.at)
    BY <2>1 DEF Within
  <2> QED
    BY <2>1, <2>2 DEF Capped
<1> QED
  BY <1>4, <1>5
-----------------------------------------------------------------------------
(* Types, the mutex and the blocked workers, step by step.                  *)

LEMMA OneMore ==
  ASSUME NEW S, IsFiniteSet(S), NEW T, NEW k, \A x \in T : x \in S \/ x = k
  PROVE  /\ IsFiniteSet(T) /\ Cardinality(T) \in Nat /\ Cardinality(S) \in Nat
         /\ Cardinality(T) <= Cardinality(S) + 1
         /\ T \subseteq S => Cardinality(T) <= Cardinality(S)
<1>1. /\ IsFiniteSet(S \cup {k}) /\ Cardinality(S) \in Nat
      /\ Cardinality(S \cup {k}) = IF k \in S THEN Cardinality(S) ELSE Cardinality(S) + 1
  BY FS_AddElement, FS_CardinalityType
<1>2. T \in SUBSET (S \cup {k})
  OBVIOUS
<1>3. IsFiniteSet(T) /\ Cardinality(T) <= Cardinality(S \cup {k})
  BY <1>1, <1>2, FS_Subset
<1>4. Cardinality(T) \in Nat
  BY <1>3, FS_CardinalityType
<1>5. T \subseteq S => Cardinality(T) <= Cardinality(S)
  BY FS_Subset
<1> QED
  BY <1>1, <1>3, <1>4, <1>5

LEMMA BusyIs == BusyWorkers = Cardinality(Blocked)
BY DEF BusyWorkers, Blocked

Phases == {"idle", "called"} \cup Blocking \cup Library \cup Ended

Shapes ==
  /\ phase \in [Calls -> Phases] /\ request \in [Calls -> Requests]
  /\ now \in 0 .. MaxTime /\ now \in Nat
  /\ started \in [Calls -> 0 .. MaxTime] /\ lock \subseteq Calls
  /\ \A e \in budget \cup moved :
       e.call \in Calls /\ e.amount \in Amounts /\ e.at \in 0 .. MaxTime

LEMMA TypeShapes == TypeOK <=> Shapes /\ BusyWorkers <= Workers
BY AgentAssumption DEF TypeOK, Shapes, Phases

LEMMA GoesGood ==
  ASSUME Shapes, NEW c \in Calls, NEW p \in Phases, Goes(c, p)
  PROVE  /\ phase' \in [Calls -> Phases] /\ phase'[c] = p
         /\ \A d \in Calls : d # c => phase'[d] = phase[d]
BY DEF Shapes, Goes

LEMMA Values ==
  /\ \A a \in Amounts : a \in Nat
  /\ \A t \in 0 .. MaxTime : t \in Nat
  /\ PerDay \in Nat
BY AgentAssumption

(* A worker is blocked by one call at a time, and only a free one is.        *)
LEMMA BlockedGood ==
  ASSUME IInv, NEW c \in Calls, \A d \in Calls : d # c => phase'[d] = phase[d],
         phase'[c] \in Blocking => phase[c] \in Blocking \/ FreeWorker
  PROVE  IsFiniteSet(Blocked') /\ BusyWorkers' <= Workers
<1>1. IsFiniteSet(Blocked) /\ BusyWorkers <= Workers /\ Workers \in Nat
  BY AgentAssumption DEF IInv, TypeOK
<1>2. \A x \in Blocked' : x \in Blocked \/ x = c
  BY DEF Blocked
<1>3. /\ IsFiniteSet(Blocked') /\ Cardinality(Blocked') \in Nat /\ Cardinality(Blocked) \in Nat
      /\ Cardinality(Blocked') <= Cardinality(Blocked) + 1
      /\ Blocked' \subseteq Blocked => Cardinality(Blocked') <= Cardinality(Blocked)
  BY <1>1, <1>2, OneMore
<1>4. BusyWorkers = Cardinality(Blocked) /\ BusyWorkers' = Cardinality(Blocked')
  BY DEF BusyWorkers, Blocked
<1>5. ~FreeWorker => Blocked' \subseteq Blocked
  BY DEF Blocked
<1>6. FreeWorker => Cardinality(Blocked) < Workers
  BY <1>4 DEF FreeWorker
<1> QED
  BY <1>1, <1>3, <1>4, <1>5, <1>6

LEMMA RecordCounted ==
  ASSUME IInv
  PROVE  Counted(OnRecord)
<1>1. \A e \in OnRecord : e.amount \in Nat /\ e.at \in Nat
  <2> SUFFICES ASSUME NEW e \in OnRecord PROVE e.amount \in Nat /\ e.at \in Nat
    OBVIOUS
  <2>1. CASE e \in budget
    BY <2>1, Values DEF IInv, TypeOK
  <2>2. CASE e \in Underway
    <3>1. PICK c \in Calls : phase[c] \in InPayment /\ e = Entry(c, started[c])
      BY <2>2 DEF Underway
    <3>2. request[c].amount \in Amounts /\ started[c] \in 0 .. MaxTime
      BY <3>1 DEF IInv, Paying, TypeOK
    <3>3. e.amount = request[c].amount /\ e.at = started[c]
      BY <3>1 DEF Entry
    <3> QED
      BY <3>2, <3>3, Values
  <2> QED
    BY <2>1, <2>2 DEF OnRecord
<1>2. IsFiniteSet(OnRecord)
  <2>1. IsFiniteSet(budget) /\ \A c, d \in lock : c = d
    BY DEF IInv, RecordGood, MutexGood
  <2>2. \E k : \A x \in OnRecord : x \in budget \/ x = k
    <3>1. CASE lock = {}
      BY <3>1 DEF IInv, MutexGood, OnRecord, Underway
    <3>2. CASE lock # {}
      <4>1. PICK c \in lock : TRUE
        BY <3>2
      <4>2. \A x \in Underway : x = Entry(c, started[c])
        BY <2>1, <4>1 DEF IInv, MutexGood, Underway
      <4> QED
        BY <4>2 DEF OnRecord
    <3> QED
      BY <3>1, <3>2
  <2> QED
    BY <2>1, <2>2, OneMore
<1> QED
  BY <1>1, <1>2 DEF Counted

(* A step outside the mutex: a call that is neither in payment nor over goes *)
(* on to something else that is not in payment, and entries may be forgotten. *)
LEMMA OutsideKept ==
  ASSUME IInv, NEW c \in Calls, \A d \in Calls : d # c => phase'[d] = phase[d],
         \A d \in Calls : d # c => request'[d] = request[d],
         phase[c] \notin InPayment, phase[c] # "done", phase'[c] \notin InPayment,
         UNCHANGED <<lock, started, now>>, budget' \subseteq budget
  PROVE  MutexGood' /\ RecordGood' /\ Capped(OnRecord')
<1>1. MutexGood'
  BY DEF IInv, MutexGood
<1>2. RecordGood'
  <2>1. IsFiniteSet(budget')
    BY FS_Subset DEF IInv, RecordGood
  <2> QED
    BY <2>1 DEF IInv, RecordGood, TypeOK
<1>3. OnRecord' \subseteq OnRecord
  BY DEF OnRecord, Underway, Entry
<1>4. Capped(OnRecord')
  BY <1>3, RecordCounted, CapPart DEF IInv
<1> QED
  BY <1>1, <1>2, <1>4

(* The call that holds the mutex goes on with its payment.                   *)
LEMMA GoesOnKept ==
  ASSUME IInv, NEW c \in Calls, \A d \in Calls : d # c => phase'[d] = phase[d],
         phase[c] \in InPayment, phase'[c] \in InPayment,
         UNCHANGED <<lock, started, now, budget, request>>
  PROVE  MutexGood' /\ RecordGood' /\ Capped(OnRecord')
<1>1. MutexGood'
  BY DEF IInv, MutexGood
<1>2. RecordGood'
  BY DEF IInv, RecordGood, TypeOK, InPayment
<1>3. OnRecord' \subseteq OnRecord
  BY DEF OnRecord, Underway, Entry
<1>4. Capped(OnRecord')
  BY <1>3, RecordCounted, CapPart DEF IInv
<1> QED
  BY <1>1, <1>2, <1>4

(* Its payment ends and gives the mutex back, recorded or not.               *)
LEMMA EndsKept ==
  ASSUME IInv, NEW c \in Calls, \A d \in Calls : d # c => phase'[d] = phase[d],
         phase[c] \in InPayment, phase'[c] \notin InPayment,
         lock' = {}, UNCHANGED <<now, request>>,
         \/ budget' = budget
         \/ budget' = budget \cup {Entry(c, started[c])} /\ phase'[c] = "done"
  PROVE  MutexGood' /\ RecordGood' /\ Capped(OnRecord')
<1>1. c \in lock /\ \A d \in Calls : phase[d] \in InPayment => d = c
  BY DEF IInv, MutexGood
<1>2. \A d \in Calls : phase'[d] \notin InPayment
  BY <1>1
<1>3. MutexGood'
  BY <1>2 DEF MutexGood
<1>4. RecordGood'
  <2>1. IsFiniteSet(budget')
    <3>1. IsFiniteSet(budget)
      BY DEF IInv, RecordGood
    <3> QED
      BY <3>1, FS_AddElement
  <2>2. ASSUME NEW e \in budget PROVE e.at <= now' /\ phase'[e.call] = "done"
    BY DEF IInv, RecordGood, TypeOK, InPayment
  <2>3. Entry(c, started[c]).at <= now' /\ Entry(c, started[c]).call = c
    BY <1>1 DEF IInv, MutexGood, Entry
  <2> QED
    BY <2>1, <2>2, <2>3 DEF RecordGood
<1>5. OnRecord' \subseteq OnRecord
  <2>1. Entry(c, started[c]) \in OnRecord
    BY DEF OnRecord, Underway
  <2>2. OnRecord' = budget'
    BY <1>2 DEF OnRecord, Underway
  <2> QED
    BY <2>1, <2>2 DEF OnRecord
<1>6. Capped(OnRecord')
  BY <1>5, RecordCounted, CapPart DEF IInv
<1> QED
  BY <1>3, <1>4, <1>6

(* send_payment takes the mutex for a payment that fits the day before it.   *)
LEMMA TakesKept ==
  ASSUME IInv, NEW c \in Calls, \A d \in Calls : d # c => phase'[d] = phase[d],
         phase[c] = "libLock", phase'[c] = "libQuote", lock = {}, lock' = {c},
         started' = [started EXCEPT ![c] = now], UNCHANGED <<now, request>>,
         Forget(request[c].amount), WithinLimits(request[c].amount)
  PROVE  MutexGood' /\ RecordGood' /\ Capped(OnRecord')
<1> DEFINE x == Entry(c, now)
           P == Within(budget, now)
<1>a. /\ now \in Nat /\ started \in [Calls -> 0 .. MaxTime] /\ PerDay \in Nat
      /\ request[c].amount \in Amounts /\ request[c].amount \in Nat
  BY Values DEF IInv, TypeOK, Paying
<1>1. budget' = P /\ P \subseteq budget
  BY DEF Forget, WithinLimits, Within
<1>2. \A d \in Calls : phase[d] \notin InPayment /\ (phase'[d] \in InPayment <=> d = c)
  BY DEF IInv, MutexGood, InPayment
<1>3. MutexGood'
  <2>1. started'[c] <= now'
    BY <1>a
  <2> QED
    BY <1>2, <2>1 DEF MutexGood
<1>4. RecordGood'
  <2>1. IsFiniteSet(budget')
    BY <1>1, FS_Subset DEF IInv, RecordGood
  <2>2. \A e \in budget : e.at <= now /\ e.call \in Calls /\ phase[e.call] = "done"
    BY DEF IInv, RecordGood, TypeOK
  <2> QED
    BY <1>1, <2>1, <2>2 DEF RecordGood
<1>5. OnRecord' = P \cup {x}
  <2>1. started'[c] = now /\ Entry(c, now)' = x
    BY <1>a DEF Entry
  <2>2. Underway' = {x}
    BY <1>2, <2>1 DEF Underway, Entry
  <2> QED
    BY <1>1, <2>2 DEF OnRecord
<1>6. x \notin P /\ x.at = now /\ x.amount = request[c].amount
  <2>1. x.call = c /\ x.at = now /\ x.amount = request[c].amount
    BY DEF Entry
  <2>2. \A e \in budget : phase[e.call] = "done"
    BY DEF IInv, RecordGood
  <2> QED
    BY <1>1, <2>1, <2>2
<1>7. Counted(P) /\ Capped(P) /\ Worth(P) \in Nat
  <2>1. P \subseteq OnRecord
    BY <1>1 DEF OnRecord
  <2> QED
    BY <2>1, RecordCounted, CapPart, WorthPart DEF IInv
<1>8. Within(P, now) = P
  BY DEF Within
<1>9. Worth(P) + x.amount <= PerDay
  <2>1. x.amount <= PerDay - Worth(P)
    BY <1>6 DEF WithinLimits, Spent
  <2> QED
    BY <1>a, <1>6, <1>7, <2>1
<1>10. \A e \in P : e.at <= now
  BY DEF Within
<1> HIDE DEF x, P
<1>11. Capped(P \cup {x})
  BY <1>a, <1>6, <1>7, <1>8, <1>9, <1>10, CapAdd
<1> QED
  BY <1>3, <1>4, <1>5, <1>11

-----------------------------------------------------------------------------
(* The inductive invariant.                                                 *)

Kept == MutexGood' /\ RecordGood' /\ Capped(OnRecord')

(* A step of call c, once what it does to the mutex and the record is known. *)
LEMMA Assemble ==
  ASSUME IInv, NEW c \in Calls, NEW p \in Phases, Goes(c, p), UNCHANGED <<request, now>>,
         started' \in [Calls -> 0 .. MaxTime], lock' \subseteq Calls,
         \A e \in budget' \cup moved' :
           \/ e \in budget \cup moved
           \/ phase[c] \in Paying /\ (e = Entry(c, now) \/ e = Entry(c, started[c])),
         p \in Blocking => phase[c] \in Blocking \/ FreeWorker,
         p \in Paying => phase[c] \in Paying \/ request[c].amount \in Amounts,
         Kept
  PROVE  IInv'
<1>1. Shapes
  BY TypeShapes DEF IInv
<1>2. /\ phase' \in [Calls -> Phases] /\ phase'[c] = p
      /\ \A d \in Calls : d # c => phase'[d] = phase[d]
  BY <1>1, GoesGood
<1>3. IsFiniteSet(Blocked') /\ BusyWorkers' <= Workers
  BY <1>2, BlockedGood
<1>4. phase[c] \in Paying => request[c].amount \in Amounts
  BY DEF IInv
<1>5. \A e \in budget' \cup moved' :
        e.call \in Calls /\ e.amount \in Amounts /\ e.at \in 0 .. MaxTime
  <2> SUFFICES ASSUME NEW e \in budget' \cup moved'
               PROVE  e.call \in Calls /\ e.amount \in Amounts /\ e.at \in 0 .. MaxTime
    OBVIOUS
  <2>1. CASE e \in budget \cup moved
    BY <1>1, <2>1 DEF Shapes
  <2>2. CASE phase[c] \in Paying /\ e = Entry(c, now)
    BY <1>1, <1>4, <2>2 DEF Shapes, Entry
  <2>3. CASE phase[c] \in Paying /\ e = Entry(c, started[c])
    BY <1>1, <1>4, <2>3 DEF Shapes, Entry
  <2> QED
    BY <2>1, <2>2, <2>3
<1>6. Shapes'
  BY <1>1, <1>2, <1>5 DEF Shapes
<1>7. TypeOK'
  BY <1>3, <1>6 DEF TypeOK, Shapes, Phases
<1>8. \A d \in Calls : phase'[d] \in Paying => request'[d].amount \in Amounts
  BY <1>2, <1>4 DEF IInv
<1> QED
  BY <1>3, <1>7, <1>8 DEF IInv, Kept

LEMMA InitGood == Init => IInv
<1> SUFFICES ASSUME Init PROVE IInv
  OBVIOUS
<1>1. Blocked = {} /\ lock = {} /\ budget = {} /\ moved = {} /\ OnRecord = {}
  BY DEF Init, Blocked, Blocking, OnRecord, Underway, InPayment
<1>2. BusyWorkers = 0 /\ IsFiniteSet({})
  BY <1>1, BusyIs, FS_EmptySet
<1>3. TypeOK
  BY <1>1, <1>2, AgentAssumption DEF Init, TypeOK, Requests
<1>4. MutexGood /\ RecordGood /\ Capped(OnRecord)
  BY <1>1, <1>2 DEF Init, MutexGood, RecordGood, Capped, InPayment
<1>5. \A c \in Calls : phase[c] \notin Paying
  BY DEF Init, Paying, InPayment
<1> QED
  BY <1>1, <1>2, <1>3, <1>4, <1>5 DEF IInv

LEMMA StepGood == IInv /\ [Next]_vars => IInv'
<1> SUFFICES ASSUME IInv, [Next]_vars PROVE IInv'
  OBVIOUS
<1>a. /\ Shapes
      /\ started \in [Calls -> 0 .. MaxTime] /\ lock \subseteq Calls /\ now \in 0 .. MaxTime
      /\ 0 \in 0 .. MaxTime
  BY TypeShapes, AgentAssumption DEF IInv, Shapes
<1>b. {"called", "lock", "quote", "libLock", "libQuote", "pay", "deposit", "otherPay",
       "work", "failed", "done", "lost"} \subseteq Phases
  BY DEF Phases, Blocking, Library, Ended
<1>c. \A c \in Calls, q \in Phases : Goes(c, q) =>
        phase'[c] = q /\ \A d \in Calls : d # c => phase'[d] = phase[d]
  BY <1>a, GoesGood
<1>d. \A c \in Calls : request[c].kind # "library" => request[c].amount \in Amounts
  BY <1>a DEF Shapes, Requests, NoPayment
<1>e. /\ Within(budget, now) \subseteq budget
      /\ \A a : Forget(a) => budget' \subseteq budget
  BY DEF Within, Forget
<1>1. ASSUME NEW c \in Calls, NEW what \in Requests, Call(c, what) PROVE IInv'
  <2>1. /\ phase[c] = "idle" /\ Goes(c, "called") /\ UNCHANGED <<now, started, lock, budget, moved>>
        /\ request' = [request EXCEPT ![c] = what]
    BY <1>1 DEF Call
  <2>2. /\ phase'[c] = "called" /\ \A d \in Calls : d # c => phase'[d] = phase[d]
        /\ phase' \in [Calls -> Phases]
    BY <1>a, <1>b, <1>c, <2>1, GoesGood
  <2>3. /\ request' \in [Calls -> Requests]
        /\ \A d \in Calls : d # c => request'[d] = request[d]
    BY <1>1, <1>a, <2>1 DEF Shapes
  <2>4. Kept
    BY <2>1, <2>2, <2>3, OutsideKept DEF InPayment, Kept
  <2>5. IsFiniteSet(Blocked') /\ BusyWorkers' <= Workers
    BY <2>2, BlockedGood DEF Blocking
  <2>6. Shapes'
    BY <1>a, <2>1, <2>2, <2>3 DEF Shapes
  <2>7. TypeOK'
    BY <2>5, <2>6 DEF TypeOK, Shapes, Phases
  <2>8. \A d \in Calls : phase'[d] \in Paying => request'[d].amount \in Amounts
    BY <2>2, <2>3 DEF IInv, Paying, InPayment
  <2> QED
    BY <2>4, <2>5, <2>7, <2>8 DEF IInv, Kept
<1>2. ASSUME NEW c \in Calls, Start(c) PROVE IInv'
  <2>1. PICK q \in {"work", "lock"} :
          /\ Goes(c, q) /\ phase[c] = "called" /\ FreeWorker
          /\ q = "lock" => request[c].kind # "library"
    BY <1>2 DEF Start
  <2>2. UNCHANGED <<now, request, started, lock, budget, moved>>
    BY <1>2 DEF Start
  <2>3. Kept
    BY <1>b, <1>c, <2>1, <2>2, OutsideKept DEF InPayment, Kept
  <2> QED
    BY <1>a, <1>b, <1>d, <2>1, <2>2, <2>3, Assemble DEF Paying, InPayment
<1>3. ASSUME NEW c \in Calls, LookupFails(c) \/ Finish(c) \/ OtherPay(c) PROVE IInv'
  <2>1. PICK q \in {"failed", "done"} :
          Goes(c, q) /\ phase[c] \in {"lock", "work", "otherPay"}
    BY <1>3 DEF LookupFails, Finish, OtherPay
  <2>2. UNCHANGED <<now, request, started, lock, budget>>
    BY <1>3 DEF LookupFails, Finish, OtherPay
  <2>3. moved' = moved \/ (phase[c] = "otherPay" /\ moved' = moved \cup {Entry(c, now)})
    BY <1>3 DEF LookupFails, Finish, OtherPay, Moves
  <2>4. Kept
    BY <1>b, <1>c, <2>1, <2>2, OutsideKept DEF InPayment, Kept
  <2>5. q \notin Paying /\ q \notin Blocking /\ "otherPay" \in Paying
    BY DEF Paying, InPayment, Blocking
  <2> QED
    BY <1>a, <1>b, <2>1, <2>2, <2>3, <2>4, <2>5, Assemble
<1>4. ASSUME NEW c \in Calls, Check(c) \/ Quote(c) PROVE IInv'
  <2>1. PICK q \in {"failed", "quote", "otherPay", "libLock"} :
          Goes(c, q) /\ phase[c] \in {"lock", "quote"}
    BY <1>4 DEF Check, Quote
  <2>2. UNCHANGED <<now, request, started, lock, moved>> /\ budget' \subseteq budget
    BY <1>4, <1>e DEF Check, Quote
  <2>3. Kept
    BY <1>b, <1>c, <2>1, <2>2, OutsideKept DEF InPayment, Kept
  <2>4. phase[c] \in Paying /\ phase[c] \in Blocking
    BY <2>1 DEF Paying, Blocking
  <2> QED
    BY <1>a, <1>b, <2>1, <2>2, <2>3, <2>4, Assemble
<1>5. ASSUME NEW c \in Calls, SendPayment(c) PROVE IInv'
  <2>1. /\ phase[c] = "libLock" /\ lock = {} /\ Forget(request[c].amount)
        /\ UNCHANGED <<now, request, moved>> /\ budget' \subseteq budget
    BY <1>5, <1>e DEF SendPayment, Unlocked
  <2>2. phase[c] \in Paying
    BY <2>1 DEF Paying
  <2>3. CASE WithinLimits(request[c].amount)
    <3>1. lock' = {c} /\ started' = [started EXCEPT ![c] = now] /\ Goes(c, "libQuote")
      BY <1>5, <2>3 DEF SendPayment
    <3>2. Kept
      BY <1>b, <1>c, <2>1, <2>3, <3>1, TakesKept DEF Kept
    <3>3. started' \in [Calls -> 0 .. MaxTime] /\ lock' \subseteq Calls
      BY <1>a, <3>1
    <3> QED
      BY <1>b, <2>1, <2>2, <3>1, <3>2, <3>3, Assemble DEF Blocking
  <2>4. CASE ~WithinLimits(request[c].amount)
    <3>1. UNCHANGED <<lock, started>> /\ Goes(c, "failed")
      BY <1>5, <2>4 DEF SendPayment
    <3>2. Kept
      BY <1>b, <1>c, <2>1, <3>1, OutsideKept DEF InPayment, Kept
    <3> QED
      BY <1>a, <1>b, <2>1, <2>2, <3>1, <3>2, Assemble DEF Blocking
  <2> QED
    BY <2>3, <2>4
<1>6. ASSUME NEW c \in Calls, LibraryQuote(c) \/ PayOperator(c) \/ Deposit(c) PROVE IInv'
  <2>1. /\ phase[c] \in InPayment /\ phase[c] \in Paying
        /\ UNCHANGED <<now, request>>
        /\ moved' = moved \/ moved' = moved \cup {Entry(c, now)}
        /\ budget' = budget \/ budget' = budget \cup {Entry(c, started[c])}
    BY <1>6 DEF LibraryQuote, PayOperator, Deposit, Moves, InPayment, Paying
  <2>2. \/ /\ \E q \in {"pay", "deposit"} : Goes(c, q)
           /\ UNCHANGED <<lock, started, budget>>
        \/ /\ \E q \in {"failed", "done"} :
                Goes(c, q) /\ (budget' = budget \/ q = "done")
           /\ lock' = {} /\ started' = [started EXCEPT ![c] = 0]
    BY <1>6 DEF LibraryQuote, PayOperator, Deposit, Ends
  <2>3. CASE (\E q \in {"pay", "deposit"} : Goes(c, q)) /\ UNCHANGED <<lock, started, budget>>
    <3>1. PICK q \in {"pay", "deposit"} : Goes(c, q)
      BY <2>3
    <3>2. Kept
      BY <1>b, <1>c, <2>1, <2>3, <3>1, GoesOnKept DEF InPayment, Kept
    <3> QED
      BY <1>a, <1>b, <2>1, <2>3, <3>1, <3>2, Assemble DEF Blocking
  <2>4. CASE /\ \E q \in {"failed", "done"} : Goes(c, q) /\ (budget' = budget \/ q = "done")
             /\ lock' = {} /\ started' = [started EXCEPT ![c] = 0]
    <3>1. PICK q \in {"failed", "done"} : Goes(c, q) /\ (budget' = budget \/ q = "done")
      BY <2>4
    <3>2. phase'[c] = q /\ \A d \in Calls : d # c => phase'[d] = phase[d]
      BY <1>b, <1>c, <3>1
    <3>3. phase'[c] \notin InPayment
      BY <3>2 DEF InPayment
    <3>4. Kept
      BY <2>1, <2>4, <3>1, <3>2, <3>3, EndsKept DEF Kept
    <3>5. started' \in [Calls -> 0 .. MaxTime] /\ lock' \subseteq Calls
      BY <1>a, <2>4
    <3> QED
      BY <1>b, <2>1, <3>1, <3>4, <3>5, Assemble DEF Blocking
  <2> QED
    BY <2>2, <2>3, <2>4
<1>7. ASSUME NEW c \in Calls, HardTimeout(c) PROVE IInv'
  <2>1. /\ phase' = [d \in Calls |-> IF phase[d] \in {"called"} \cup Blocking \cup Library
                                     THEN "lost" ELSE phase[d]]
        /\ lock' = {} /\ budget' = {} /\ started' = [d \in Calls |-> 0]
        /\ UNCHANGED <<now, request, moved>>
    BY <1>7 DEF HardTimeout
  <2>2. \A d \in Calls : phase'[d] \in {"idle", "failed", "done", "lost"}
    BY <1>a, <2>1 DEF Shapes, Phases, Ended
  <2>3. /\ \A d \in Calls : phase'[d] \notin InPayment /\ phase'[d] \notin Paying
                            /\ phase'[d] \notin Blocking
        /\ phase' \in [Calls -> Phases]
    BY <1>a, <2>1, <2>2 DEF InPayment, Paying, Blocking, Phases, Ended
  <2>4. Blocked' = {} /\ OnRecord' = {}
    BY <2>1, <2>3 DEF Blocked, OnRecord, Underway
  <2>5. IsFiniteSet(Blocked') /\ BusyWorkers' <= Workers
    <3>1. BusyWorkers' = Cardinality(Blocked')
      BY DEF BusyWorkers, Blocked
    <3> QED
      BY <2>4, <3>1, FS_EmptySet, AgentAssumption
  <2>6. Shapes'
    BY <1>a, <2>1, <2>3 DEF Shapes
  <2>7. TypeOK'
    BY <2>5, <2>6 DEF TypeOK, Shapes, Phases
  <2>8. Kept
    BY <2>1, <2>3, <2>4, FS_EmptySet DEF Kept, MutexGood, RecordGood, Capped
  <2> QED
    BY <2>3, <2>5, <2>7, <2>8 DEF IInv, Kept
<1>8. CASE Tick
  <2>1. /\ now' = now + 1 /\ now < MaxTime
        /\ UNCHANGED <<phase, request, started, lock, budget, moved>>
    BY <1>8 DEF Tick
  <2>2. now' \in 0 .. MaxTime /\ now' \in Nat /\ \A t \in 0 .. MaxTime : t <= now => t <= now'
    BY <1>a, <2>1, AgentAssumption
  <2>3. Shapes'
    BY <1>a, <2>1, <2>2 DEF Shapes
  <2>4. Blocked' = Blocked /\ BusyWorkers' = BusyWorkers /\ OnRecord' = OnRecord
    BY <2>1 DEF Blocked, BusyWorkers, OnRecord, Underway, Entry
  <2>5. TypeOK'
    <3>1. BusyWorkers' <= Workers
      BY <2>4 DEF IInv, TypeOK
    <3> QED
      BY <2>3, <3>1 DEF TypeOK, Shapes, Phases
  <2>6. MutexGood' /\ RecordGood'
    BY <1>a, <2>1, <2>2 DEF IInv, MutexGood, RecordGood, Shapes
  <2> QED
    BY <2>1, <2>4, <2>5, <2>6 DEF IInv
<1>9. CASE UNCHANGED vars
  <2>1. UNCHANGED <<now, phase, request, started, lock, budget, moved>>
    BY <1>9 DEF vars
  <2>2. Blocked' = Blocked /\ BusyWorkers' = BusyWorkers /\ OnRecord' = OnRecord
    BY <2>1 DEF Blocked, BusyWorkers, OnRecord, Underway, Entry
  <2>3. TypeOK'
    BY <2>1, <2>2 DEF IInv, TypeOK
  <2>4. MutexGood' /\ RecordGood'
    BY <2>1 DEF IInv, MutexGood, RecordGood
  <2> QED
    BY <2>1, <2>2, <2>3, <2>4 DEF IInv
<1> QED
  BY <1>1, <1>2, <1>3, <1>4, <1>5, <1>6, <1>7, <1>8, <1>9 DEF Next, Step, AllEnded

THEOREM Invariance == Spec => []IInv
BY InitGood, StepGood, PTL DEF Spec

(* Type correctness, with never more blocked calls than there are workers.   *)
THEOREM TypeCorrect == Spec => []TypeOK
<1>1. IInv => TypeOK
  BY DEF IInv
<1> QED
  BY <1>1, Invariance, PTL

(* What is on record and the payment under way stay within the daily cap in  *)
(* every sliding day, whatever calls check, quote and time out meanwhile.    *)
THEOREM CapHolds == Spec => []RecordedWithinCap
<1>1. IInv => RecordedWithinCap
  BY DEF IInv, Capped, OnRecord, Underway, RecordedWithinCap
<1> QED
  BY <1>1, Invariance, PTL
=============================================================================
