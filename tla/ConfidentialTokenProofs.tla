---------------------- MODULE ConfidentialTokenProofs ----------------------
(***************************************************************************)
(* What the confidential token and its pool keep, for every set of owners, *)
(* every supply and every number of proofs and notes: types (no ciphertext *)
(* adds up to less than zero), the plain token as an abstraction, and that *)
(* nobody but its owner disturbs a proof in flight.                        *)
(***************************************************************************)
EXTENDS ConfidentialToken, SumTheorems, TLAPS

(* A proof outlives the balance it was made for; what it says of that       *)
(* balance is what the contract relies on when it carries the proof out.    *)
ProofsGood ==
  \A p \in proofs :
    /\ p.opening \in Int
    /\ p.at.m >= p.amount + p.fee
    /\ p.kind \in {"transfer", "unwrap"} => p.fee = 0

IInv == TypeOK /\ ProofsGood
-----------------------------------------------------------------------------
(* What an owner can prove is well typed and within the balance.             *)
LEMMA CandidateGood ==
  ASSUME TypeOK, NEW o \in Owners, NEW p \in Candidates(o), Provable(p)
  PROVE  /\ p.from \in Owners /\ p.to \in Owners
         /\ p.amount \in Nat /\ p.fee \in Nat /\ p.at \in CipherType
         /\ p.opening \in Int
         /\ p.at.m >= p.amount + p.fee
         /\ p.kind \in {"transfer", "unwrap"} => p.fee = 0
<1> DEFINE m == available[o].m
<1>1. available[o] \in CipherType /\ m \in Nat
  BY DEF TypeOK, CipherType
<1>2. /\ p.from \in Owners /\ p.to \in Owners
      /\ p.amount \in Nat /\ p.fee \in Nat /\ p.at \in CipherType
      /\ p.opening \in Int
  <2>1. CASE \E a \in 0..m, r \in Openings, to \in Owners, n \in Nonces :
               p = Proof("transfer", o, available[o], a, 0, r, to, n)
    BY <1>1, <2>1, TokenAssumption DEF Proof
  <2>2. CASE \E a \in 1..m, n \in Nonces :
               p = Proof("unwrap", o, available[o], a, 0, 0, o, n)
    BY <1>1, <2>2 DEF Proof
  <2>3. CASE \E a \in 1..m, f \in 0..m, r \in Openings, n \in Nonces :
               p = Proof("deposit", o, available[o], a, f, r, o, n)
    BY <1>1, <2>3, TokenAssumption DEF Proof
  <2> QED
    BY <2>1, <2>2, <2>3 DEF Candidates
<1>3. p.at.m \in Nat
  BY <1>2 DEF CipherType
<1>4. CASE TransferStatement(p)
  BY <1>2, <1>3, <1>4 DEF TransferStatement
<1>5. CASE UnwrapStatement(p)
  BY <1>2, <1>3, <1>5 DEF UnwrapStatement
<1>6. CASE DepositStatement(p)
  BY <1>2, <1>6 DEF DepositStatement
<1> QED
  BY <1>2, <1>4, <1>5, <1>6 DEF Provable

(* Notes filed at the end leave a list of amounts, and the old positions.    *)
LEMMA FiledAmounts ==
  ASSUME NEW s \in Seq(Nat), NEW a \in Nat, NEW b \in Nat, NEW c \in Nat
  PROVE  /\ s \o <<a, b>> \in Seq(Nat) /\ s \o <<a, b, c>> \in Seq(Nat)
         /\ DOMAIN s \subseteq DOMAIN (s \o <<a, b>>)
         /\ DOMAIN s \subseteq DOMAIN (s \o <<a, b, c>>)
<1>1. <<a, b>> \in Seq(Nat) /\ <<a, b, c>> \in Seq(Nat)
  OBVIOUS
<1> QED
  BY <1>1

(* Tokens paid out leave the balances well typed.                            *)
LEMMA PayOutType ==
  ASSUME NEW w \in [Owners -> Nat], NEW o \in Owners, NEW a \in Nat
  PROVE  PayOut(w, o, a) \in [Owners -> Nat]
BY DEF PayOut

(* What covers an amount is not negative without it.                         *)
LEMMA Covered ==
  ASSUME NEW a \in Nat, NEW b \in Nat, a >= b
  PROVE  a - b \in Nat
OBVIOUS

(* The types are inductive together with what every proof says.              *)
THEOREM Invariance == Spec => []IInv
<1>1. ASSUME Init
      PROVE  IInv
  <2>1. Empty \in CipherType
    BY DEF CipherType, Empty, Cipher
  <2>2. available \in [Owners -> CipherType] /\ pending \in [Owners -> CipherType]
    BY <1>1, <2>1 DEF Init
  <2>3. wallet \in [Owners -> Nat] /\ reserve \in Nat /\ pool \in BOOLEAN
    BY <1>1, TokenAssumption DEF Init
  <2>4. /\ registered = {} /\ proofs = {} /\ proofUsed = {} /\ nullifierSpent = {}
        /\ notes \in Seq(Nat)
    BY <1>1 DEF Init
  <2> QED
    BY <2>2, <2>3, <2>4 DEF IInv, TypeOK, ProofsGood
<1>2. ASSUME IInv, [Next]_vars
      PROVE  IInv'
  <2> USE <1>2 DEF IInv, TypeOK, ProofsGood, CipherType, token, notesOf
  <2>1. CASE SetPool
    BY <2>1 DEF SetPool
  <2>2. ASSUME NEW o \in Owners, Register(o)
        PROVE  IInv'
    BY <2>2 DEF Register
  <2>3. ASSUME NEW o \in Owners, NEW amount \in 1..wallet[o], Wrap(o, amount)
        PROVE  IInv'
    <3>1. wallet[o] \in Nat /\ amount \in Nat /\ wallet[o] - amount \in Nat
      BY <2>3
    <3>2. Plus(pending[o], Cipher(amount, 0)) \in CipherType
      BY <3>1 DEF Plus, Cipher
    <3> QED
      BY <2>3, <3>1, <3>2 DEF Wrap, Credit
  <2>4. ASSUME NEW o \in Owners, ApplyPending(o)
        PROVE  IInv'
    <3>1. Plus(available[o], pending[o]) \in CipherType /\ Empty \in CipherType
      BY DEF Plus, Cipher, Empty
    <3> QED
      BY <2>4, <3>1 DEF ApplyPending
  <2>5. ASSUME NEW o \in Owners, NEW p \in Candidates(o), Prove(p)
        PROVE  IInv'
    <3>1. Provable(p) /\ proofs' = proofs \cup {p} /\ UNCHANGED <<token, notesOf>>
      BY <2>5 DEF Prove
    <3>2. /\ p.from \in Owners /\ p.to \in Owners
          /\ p.amount \in Nat /\ p.fee \in Nat /\ p.at \in CipherType
          /\ p.opening \in Int
          /\ p.at.m >= p.amount + p.fee
          /\ p.kind \in {"transfer", "unwrap"} => p.fee = 0
      BY <2>5, <3>1, CandidateGood
    <3> QED
      BY <3>1, <3>2
  <2>6. ASSUME NEW p \in proofs, RequireAvailable(p)
        PROVE  /\ Minus(available[p.from], Debit(p)) \in CipherType
               /\ Cipher(p.amount, p.opening) \in CipherType
    BY <2>6 DEF RequireAvailable, Minus, Debit, Cipher
  <2>7. ASSUME NEW p \in proofs, Transfer(p)
        PROVE  IInv'
    <3>1. Minus(available[p.from], Debit(p)) \in CipherType
      BY <2>6, <2>7 DEF Transfer
    <3>2. Plus(pending[p.to], Cipher(p.amount, p.opening)) \in CipherType
      BY DEF Plus, Cipher
    <3> QED
      BY <2>7, <3>1, <3>2 DEF Transfer, ConsumeProof
  <2>8. ASSUME NEW p \in proofs, Unwrap(p)
        PROVE  IInv'
    <3>1. Minus(available[p.from], Debit(p)) \in CipherType
      BY <2>6, <2>8 DEF Unwrap
    <3>2. reserve' \in Nat /\ wallet' \in [Owners -> Nat]
      BY <2>8 DEF Unwrap
    <3>3. available' \in [Owners -> CipherType]
      BY <2>8, <3>1 DEF Unwrap
    <3>4. proofUsed' \subseteq proofs'
      BY <2>8 DEF Unwrap, ConsumeProof
    <3>5. UNCHANGED <<pool, registered, pending, proofs, notes, nullifierSpent>>
      BY <2>8 DEF Unwrap
    <3> QED
      BY <3>2, <3>3, <3>4, <3>5
  <2>9. ASSUME NEW p \in proofs, DepositToPool(p)
        PROVE  IInv'
    <3>1. Minus(available[p.from], Debit(p)) \in CipherType
      BY <2>6, <2>9 DEF DepositToPool
    <3>2. notes' = notes \o <<p.amount, p.fee>> /\ nullifierSpent' = nullifierSpent
      BY <2>9 DEF DepositToPool, FileNotes
    <3>3. p.amount \in Nat /\ p.fee \in Nat /\ notes \in Seq(Nat)
      OBVIOUS
    <3>4. notes' \in Seq(Nat) /\ nullifierSpent' \subseteq DOMAIN notes'
      BY <3>2, <3>3
    <3> QED
      BY <2>9, <3>1, <3>4 DEF DepositToPool, ConsumeProof
  <2>10. ASSUME NEW i \in DOMAIN notes, NEW pay \in 0..notes[i], NEW fee \in 0..notes[i],
                TransferNote(i, pay, fee)
         PROVE  IInv'
    <3>1. notes[i] \in Nat
      OBVIOUS
    <3>2. pay \in Nat /\ fee \in Nat /\ notes[i] - pay - fee \in Nat
      BY <2>10, <3>1 DEF TransferNote
    <3>3. notes' = notes \o <<pay, notes[i] - pay - fee, fee>>
          /\ nullifierSpent' = nullifierSpent \cup {i}
          /\ UNCHANGED <<token, proofs>>
      BY <2>10 DEF TransferNote, FileNotes, Spend
    <3>4. notes' \in Seq(Nat)
      BY <3>2, <3>3, FiledAmounts DEF TypeOK
    <3>5. nullifierSpent' \subseteq DOMAIN notes'
      <4>1. DOMAIN notes \subseteq DOMAIN notes'
        BY <3>2, <3>3, FiledAmounts
      <4> QED
        BY <3>3, <4>1
    <3> QED
      BY <3>3, <3>4, <3>5
  <2>11. ASSUME NEW i \in DOMAIN notes, NEW to \in Owners, NEW r \in Openings,
                WithdrawToToken(i, to, r)
         PROVE  IInv'
    <3>1. Plus(pending[to], Cipher(notes[i], r)) \in CipherType
      BY TokenAssumption DEF Plus, Cipher
    <3> QED
      BY <2>11, <3>1 DEF WithdrawToToken, Spend, Credit
  <2>12. ASSUME NEW i \in DOMAIN notes, NEW recipient \in Owners, NEW relayer \in Owners,
                NEW fee \in 0..notes[i], Withdraw(i, recipient, relayer, fee)
         PROVE  IInv'
    <3>1. notes[i] \in Nat /\ fee \in Nat /\ notes[i] - fee \in Nat
      OBVIOUS
    <3>2. reserve' \in Nat
      <4>1. reserve' = reserve - notes[i] /\ reserve >= notes[i] /\ reserve \in Nat
        BY <2>12, Zenon DEF Withdraw
      <4> QED
        BY <3>1, <4>1, Covered
    <3>3. PayOut(wallet, recipient, notes[i] - fee) \in [Owners -> Nat]
      BY <3>1, PayOutType
    <3>4. wallet' = PayOut(PayOut(wallet, recipient, notes[i] - fee), relayer, fee)
      BY <2>12 DEF Withdraw
    <3>5. wallet' \in [Owners -> Nat]
      BY <3>1, <3>3, <3>4, PayOutType
    <3> QED
      BY <2>12, <3>2, <3>5 DEF Withdraw, Spend
  <2>13. CASE UNCHANGED vars
    BY <2>13 DEF vars
  <2> QED
    BY <2>1, <2>2, <2>3, <2>4, <2>5, <2>7, <2>8, <2>9, <2>10, <2>11, <2>12, <2>13 DEF Next
<1> QED
  BY <1>1, <1>2, PTL DEF Spec

(* No balance, pending amount, note or ERC-20 balance ever goes below zero. *)
THEOREM TypeCorrect == Spec => []TypeOK
<1>1. IInv => TypeOK
  BY DEF IInv
<1> QED
  BY <1>1, Invariance, PTL
-----------------------------------------------------------------------------
(* Everyone can spend what was proved: the balance a proof was made for is   *)
(* still there, and what is pending only adds to it.                         *)
LEMMA WorthCovers ==
  ASSUME IInv, NEW p \in proofs, RequireAvailable(p)
  PROVE  Worth[p.from] >= p.amount + p.fee
BY DEF IInv, TypeOK, ProofsGood, CipherType, RequireAvailable, Worth

(* What is credited adds its amount to what the account is worth.            *)
LEMMA CreditAdds ==
  ASSUME TypeOK, NEW o \in Owners, NEW c, c.m \in Int, Credit(o, c)
  PROVE  Worth' = [Worth EXCEPT ![o] = @ + c.m]
<1>1. /\ pending' = [pending EXCEPT ![o] = Plus(@, c)] /\ available' = available
      /\ pending \in [Owners -> CipherType] /\ available \in [Owners -> CipherType]
  BY DEF Credit, TypeOK
<1>2. ASSUME NEW x \in Owners
      PROVE  Worth'[x] = [Worth EXCEPT ![o] = @ + c.m][x]
  <2>1. /\ pending[x].m \in Int /\ available[x].m \in Int
        /\ pending'[x].m = IF x = o THEN pending[x].m + c.m ELSE pending[x].m
    BY <1>1 DEF Plus, Cipher, CipherType
  <2> QED
    BY <1>1, <2>1 DEF Worth
<1> QED
  BY <1>2 DEF Worth

(* A proof the contract accepts closes one open order of the plain token.    *)
LEMMA OrderCloses ==
  ASSUME IInv, NEW p \in proofs, RequireAvailable(p), ConsumeProof(p), proofs' = proofs
  PROVE  p \in proofs \ proofUsed /\ Plain!Close(p)
BY WorthCovers DEF ConsumeProof, Plain!Close

(* Every call is a step of the plain token or leaves it alone.               *)
LEMMA PlainStep ==
  ASSUME IInv, [Next]_vars
  PROVE  [Plain!Next]_(Plain!vars)
<1>0. /\ available \in [Owners -> CipherType] /\ pending \in [Owners -> CipherType]
      /\ \A o \in Owners : /\ available[o].m \in Int /\ pending[o].m \in Int
      /\ \A p \in proofs : p.from \in Owners /\ p.to \in Owners /\ p.amount \in Int /\ p.fee \in Int
  BY DEF IInv, TypeOK, CipherType
<1>1. CASE SetPool
  BY <1>1 DEF SetPool, Plain!vars, Worth, notesOf
<1>2. ASSUME NEW o \in Owners, Register(o)
      PROVE  UNCHANGED Plain!vars
  BY <1>2 DEF Register, Plain!vars, Worth, notesOf
<1>3. ASSUME NEW o \in Owners, NEW amount \in 1..wallet[o], Wrap(o, amount)
      PROVE  Plain!Wrap(o, amount)
  <2>1. Worth' = [Worth EXCEPT ![o] = @ + amount]
    <3>1. Cipher(amount, 0).m = amount /\ amount \in Int
      BY DEF Cipher
    <3> QED
      BY <1>3, <3>1, CreditAdds DEF Wrap, IInv
  <2> QED
    BY <1>3, <2>1 DEF Wrap, Plain!Wrap, notesOf
<1>4. ASSUME NEW o \in Owners, ApplyPending(o)
      PROVE  UNCHANGED Plain!vars
  <2>1. Worth' = Worth
    BY <1>0, <1>4 DEF ApplyPending, Plus, Cipher, Empty, Worth
  <2> QED
    BY <1>4, <2>1 DEF ApplyPending, Plain!vars, notesOf
<1>5. ASSUME NEW p, Prove(p)
      PROVE  Plain!Give
  <2>1. Worth' = Worth
    BY <1>5 DEF Prove, Worth, token
  <2> QED
    BY <1>5, <2>1 DEF Prove, Plain!Give, token, notesOf
<1>6. ASSUME NEW p \in proofs, Transfer(p)
      PROVE  p \in proofs \ proofUsed /\ Plain!Move(p)
  <2>1. p.fee = 0
    BY <1>6 DEF Transfer, IInv, ProofsGood
  <2>2. Worth' = Plain!Add([Worth EXCEPT ![p.from] = @ - p.amount], p.to, p.amount)
    <3>1. ASSUME NEW x \in Owners
          PROVE  Worth'[x] = [[Worth EXCEPT ![p.from] = @ - p.amount] EXCEPT ![p.to] = @ + p.amount][x]
      <4>1. available'[x].m = IF x = p.from THEN available[x].m - p.amount ELSE available[x].m
        BY <1>0, <1>6, <2>1 DEF Transfer, Minus, Debit, Cipher
      <4>2. pending'[x].m = IF x = p.to THEN pending[x].m + p.amount ELSE pending[x].m
        BY <1>0, <1>6 DEF Transfer, Plus, Cipher
      <4> QED
        BY <1>0, <4>1, <4>2 DEF Worth
    <3> QED
      BY <3>1 DEF Worth, Plain!Add
  <2>3. p \in proofs \ proofUsed /\ Plain!Close(p)
    BY <1>6, OrderCloses DEF Transfer
  <2> QED
    BY <1>6, <2>2, <2>3 DEF Transfer, Plain!Move, notesOf
<1>7. ASSUME NEW p \in proofs, Unwrap(p)
      PROVE  p \in proofs \ proofUsed /\ Plain!CashOut(p)
  <2>1. p.fee = 0
    BY <1>7 DEF Unwrap, IInv, ProofsGood
  <2>2. Worth' = [Worth EXCEPT ![p.from] = @ - p.amount]
    BY <1>0, <1>7, <2>1 DEF Unwrap, Minus, Debit, Cipher, Worth
  <2>3. p \in proofs \ proofUsed /\ Plain!Close(p)
    BY <1>7, OrderCloses DEF Unwrap
  <2> QED
    BY <1>7, <2>2, <2>3 DEF Unwrap, Plain!CashOut, notesOf
<1>8. ASSUME NEW p \in proofs, DepositToPool(p)
      PROVE  p \in proofs \ proofUsed /\ Plain!Hide(p)
  <2>1. Worth' = [Worth EXCEPT ![p.from] = @ - (p.amount + p.fee)]
    BY <1>0, <1>8 DEF DepositToPool, Minus, Debit, Cipher, Worth
  <2>2. p \in proofs \ proofUsed /\ Plain!Close(p)
    BY <1>8, OrderCloses DEF DepositToPool
  <2> QED
    BY <1>8, <2>1, <2>2 DEF DepositToPool, FileNotes, Plain!Hide
<1>9. ASSUME NEW i \in DOMAIN notes, NEW pay \in 0..notes[i], NEW fee \in 0..notes[i],
             TransferNote(i, pay, fee)
      PROVE  \E change \in 0..notes[i] : Plain!Split(i, pay, change, fee)
  <2> DEFINE change == notes[i] - pay - fee
  <2>1. notes[i] \in Nat
    BY DEF IInv, TypeOK
  <2>2. change \in 0..notes[i] /\ pay + change + fee = notes[i]
    BY <1>9, <2>1 DEF TransferNote
  <2>3. Worth' = Worth
    BY <1>9 DEF TransferNote, Worth, token
  <2>4. notes' = notes \o <<pay, change, fee>>
    BY <1>9 DEF TransferNote, FileNotes
  <2> HIDE DEF change
  <2>5. Plain!Split(i, pay, change, fee)
    BY <1>9, <2>2, <2>3, <2>4 DEF TransferNote, Spend, Plain!Split, Plain!Consume, token
  <2> QED
    BY <2>2, <2>5
<1>10. ASSUME NEW i \in DOMAIN notes, NEW to \in Owners, NEW r \in Openings,
              WithdrawToToken(i, to, r)
       PROVE  Plain!Show(i, to)
  <2>1. notes[i] \in Int
    BY DEF IInv, TypeOK
  <2>2. Worth' = [Worth EXCEPT ![to] = @ + notes[i]]
    <3>1. Cipher(notes[i], r).m = notes[i]
      BY DEF Cipher
    <3> QED
      BY <1>10, <2>1, <3>1, CreditAdds DEF WithdrawToToken, IInv
  <2> QED
    BY <1>10, <2>2 DEF WithdrawToToken, Spend, Plain!Show, Plain!Consume
<1>11. ASSUME NEW i \in DOMAIN notes, NEW recipient \in Owners, NEW relayer \in Owners,
              NEW fee \in 0..notes[i], Withdraw(i, recipient, relayer, fee)
       PROVE  Plain!Leave(i, recipient, relayer, fee)
  <2>1. Worth' = Worth
    BY <1>11 DEF Withdraw, Worth
  <2> QED
    BY <1>11, <2>1 DEF Withdraw, Spend, PayOut, Plain!Leave, Plain!Consume, Plain!Add
<1>12. CASE UNCHANGED vars
  BY <1>12 DEF vars, token, notesOf, Plain!vars, Worth
<1> QED
  BY <1>1, <1>2, <1>3, <1>4, <1>5, <1>6, <1>7, <1>8, <1>9, <1>10, <1>11, <1>12
  DEF Next, Plain!Next

(* Every call is a step of the plain token or leaves it alone: value leaves *)
(* a balance only by a proof of its owner, each proof counts once, and a    *)
(* note is consumed once.                                                   *)
THEOREM PlainRefinement == Spec => ImplementsPlainToken
<1>1. ASSUME Init
      PROVE  Plain!Init
  <2>1. Worth = [o \in Owners |-> 0]
    BY <1>1 DEF Init, Worth, Empty, Cipher
  <2> QED
    BY <1>1, <2>1, TokenAssumption DEF Init, Plain!Init
<1>2. ASSUME IInv, [Next]_vars
      PROVE  [Plain!Next]_(Plain!vars)
  BY <1>2, PlainStep
<1> QED
  BY <1>1, <1>2, Invariance, PTL DEF Spec, ImplementsPlainToken, Plain!Spec
-----------------------------------------------------------------------------
(* What balances and unspent notes are worth together, and the backing in    *)
(* these terms.                                                              *)
Balances == SumOver(Worth, Owners)
Unspent == DOMAIN notes \ nullifierSpent
NotesWorth == SumOver(notes, Unspent)

LEMMA BackedSums ==
  /\ Plain!Backed <=> reserve = Balances + NotesWorth
  /\ Plain!Backed' <=> reserve' = Balances' + NotesWorth'
BY DEF Plain!Backed, Balances, NotesWorth, Unspent, SumOver, MapThenSumSet,
       MapThenFoldSet, Plain!MapThenSumSet, Plain!MapThenFoldSet

(* Notes filed at the end add their amounts to what the unspent ones hold.   *)
LEMMA NotesAdd ==
  ASSUME NEW s, s \in Seq(Nat), NEW D, D \subseteq DOMAIN s,
         NEW t, t \in Seq(Nat), \A i \in DOMAIN s : t[i] = s[i]
  PROVE  /\ Len(t) = Len(s) + 2 =>
              SumOver(t, DOMAIN t \ D) = SumOver(s, DOMAIN s \ D) + t[Len(s) + 1] + t[Len(s) + 2]
         /\ Len(t) = Len(s) + 3 =>
              SumOver(t, DOMAIN t \ D)
                = SumOver(s, DOMAIN s \ D) + t[Len(s) + 1] + t[Len(s) + 2] + t[Len(s) + 3]
<1> DEFINE S == DOMAIN s \ D
           T == DOMAIN t \ D
           x == Len(s) + 1
           y == Len(s) + 2
           z == Len(s) + 3
<1>1. Len(s) \in Nat /\ DOMAIN s = 1 .. Len(s) /\ DOMAIN t = 1 .. Len(t)
  OBVIOUS
<1>2. IsFiniteSet(S)
  <2>1. IsFiniteSet(1 .. Len(s))
    BY <1>1, FS_Interval
  <2> QED
    BY <1>1, <2>1, FS_Subset
<1>3. /\ x \notin S /\ y \notin S /\ z \notin S /\ x # y /\ x # z /\ y # z
      /\ \A i \in S : t[i] = s[i]
      /\ \A i \in T : t[i] \in Int
  BY <1>1
<1>4. ASSUME Len(t) = Len(s) + 2
      PROVE  \A u : u \in T <=> u \in S \/ u = x \/ u = y
  <2>1. T = S \cup {x, y}
    BY <1>1, <1>4
  <2> HIDE DEF S, T, x, y
  <2> QED
    BY <2>1
<1>5. ASSUME Len(t) = Len(s) + 3
      PROVE  \A u : u \in T <=> u \in S \/ u = x \/ u = y \/ u = z
  <2>1. T = S \cup {x, y, z}
    BY <1>1, <1>5
  <2> HIDE DEF S, T, x, y, z
  <2> QED
    BY <2>1
<1> HIDE DEF S, T, x, y, z
<1>6. ASSUME Len(t) = Len(s) + 2
      PROVE  SumOver(t, T) = SumOver(s, S) + t[x] + t[y]
  BY ONLY <1>2, <1>3, <1>4, <1>6, SumGrowTwo
<1>7. ASSUME Len(t) = Len(s) + 3
      PROVE  SumOver(t, T) = SumOver(s, S) + t[x] + t[y] + t[z]
  BY ONLY <1>2, <1>3, <1>5, <1>7, SumGrowThree, SMTT(60)
<1> QED
  BY <1>6, <1>7 DEF S, T, x, y, z

(* A note consumed takes its amount away.                                    *)
LEMMA NoteGoes ==
  ASSUME NEW s, s \in Seq(Nat), NEW D, D \subseteq DOMAIN s, NEW i, i \in DOMAIN s, i \notin D
  PROVE  SumOver(s, DOMAIN s \ (D \cup {i})) = SumOver(s, DOMAIN s \ D) - s[i]
<1> DEFINE S == DOMAIN s \ D
<1>1. DOMAIN s \ (D \cup {i}) = S \ {i} /\ i \in S
  OBVIOUS
<1>2. IsFiniteSet(S) /\ \A y \in S : s[y] \in Int
  <2>1. IsFiniteSet(1 .. Len(s)) /\ DOMAIN s = 1 .. Len(s)
    BY FS_Interval
  <2> QED
    BY <2>1, FS_Subset
<1> HIDE DEF S
<1>3. SumOver(s, S \ {i}) = SumOver(s, S) - s[i]
  BY <1>1, <1>2, SumRemove
<1> QED
  BY <1>1, <1>3 DEF S

(* One balance changed changes all of them together by as much.              *)
LEMMA BalanceMoves ==
  ASSUME NEW f, f \in [Owners -> Int], NEW g, g \in [Owners -> Int],
         NEW o, o \in Owners, \A x \in Owners \ {o} : g[x] = f[x]
  PROVE  SumOver(g, Owners) = SumOver(f, Owners) + (g[o] - f[o])
<1>1. \A x \in Owners : f[x] \in Int /\ g[x] \in Int
  OBVIOUS
<1>2. SumOver(f, Owners) \in Int
  BY <1>1, SumInt, TokenAssumption
<1>3. SumOver(g, Owners) = SumOver(f, Owners) - f[o] + g[o]
  BY <1>1, SumUpdate, TokenAssumption
<1> QED
  BY <1>1, <1>2, <1>3

(* The types the sums rest on.                                               *)
LEMMA SumTypes ==
  ASSUME IInv
  PROVE  /\ Worth \in [Owners -> Int]
         /\ notes \in Seq(Nat) /\ nullifierSpent \subseteq DOMAIN notes
         /\ Balances \in Int /\ NotesWorth \in Int /\ reserve \in Int
         /\ \A p \in proofs : p.from \in Owners /\ p.to \in Owners
                              /\ p.amount \in Nat /\ p.fee \in Nat
<1> USE DEF IInv, TypeOK
<1>1. Worth \in [Owners -> Int]
  BY DEF Worth, CipherType
<1>2. \A y \in Owners : Worth[y] \in Int
  BY <1>1
<1>3. Balances \in Int
  BY <1>2, SumInt, TokenAssumption DEF Balances
<1>4. IsFiniteSet(Unspent) /\ \A y \in Unspent : notes[y] \in Int
  <2>1. IsFiniteSet(1 .. Len(notes)) /\ DOMAIN notes = 1 .. Len(notes)
    BY FS_Interval
  <2> QED
    BY <2>1, FS_Subset DEF Unspent
<1>5. NotesWorth \in Int
  BY <1>4, SumInt DEF NotesWorth
<1> QED
  BY <1>1, <1>3, <1>5

(* No step of the plain token lets reserve and worth drift apart.            *)
LEMMA BackingKept ==
  ASSUME IInv, [Next]_vars, Plain!Backed
  PROVE  Plain!Backed'
<1>0. /\ Worth \in [Owners -> Int]
      /\ notes \in Seq(Nat) /\ nullifierSpent \subseteq DOMAIN notes
      /\ Balances \in Int /\ NotesWorth \in Int /\ reserve \in Int
      /\ \A p \in proofs : p.from \in Owners /\ p.to \in Owners
                           /\ p.amount \in Nat /\ p.fee \in Nat
  BY SumTypes
<1>1. reserve = Balances + NotesWorth
  BY BackedSums
<1>2. SUFFICES reserve' = Balances' + NotesWorth'
  BY BackedSums
<1>3. ASSUME UNCHANGED <<notes, nullifierSpent>> PROVE NotesWorth' = NotesWorth
  BY <1>3 DEF NotesWorth, Unspent
<1>4. ASSUME NEW o \in Owners, NEW a \in Int, Worth' = [Worth EXCEPT ![o] = @ + a]
      PROVE  Balances' = Balances + a
  <2>1. /\ Worth' \in [Owners -> Int] /\ \A x \in Owners \ {o} : Worth'[x] = Worth[x]
        /\ Worth'[o] - Worth[o] = a
    BY <1>0, <1>4
  <2> QED
    BY <1>0, <2>1, BalanceMoves DEF Balances
<1>5. ASSUME NEW o \in Owners, NEW a \in Int, Worth' = [Worth EXCEPT ![o] = @ - a]
      PROVE  Balances' = Balances - a
  <2>1. /\ Worth' \in [Owners -> Int] /\ \A x \in Owners \ {o} : Worth'[x] = Worth[x]
        /\ Worth'[o] - Worth[o] = -a
    BY <1>0, <1>5
  <2> QED
    BY <1>0, <2>1, BalanceMoves DEF Balances
<1>6. ASSUME NEW i \in DOMAIN notes, Plain!Consume(i), notes' = notes
      PROVE  NotesWorth' = NotesWorth - notes[i] /\ notes[i] \in Nat
  <2>1. i \notin nullifierSpent /\ nullifierSpent' = nullifierSpent \cup {i}
    BY <1>6 DEF Plain!Consume
  <2>2. SumOver(notes, DOMAIN notes \ (nullifierSpent \cup {i}))
          = SumOver(notes, DOMAIN notes \ nullifierSpent) - notes[i]
    BY <1>0, <2>1, NoteGoes
  <2> QED
    BY <1>0, <1>6, <2>1, <2>2 DEF NotesWorth, Unspent
<1>7. CASE UNCHANGED Plain!vars
  BY <1>1, <1>7 DEF Plain!vars, Balances, NotesWorth, Unspent
<1>8. ASSUME NEW o \in Owners, NEW amount \in 1 .. wallet[o], Plain!Wrap(o, amount)
      PROVE  reserve' = Balances' + NotesWorth'
  <2>1. wallet[o] \in Nat
    BY DEF IInv, TypeOK
  <2>2. /\ amount \in Int /\ reserve' = reserve + amount
        /\ Worth' = [Worth EXCEPT ![o] = @ + amount]
        /\ UNCHANGED <<notes, nullifierSpent>>
    BY <1>8, <2>1 DEF Plain!Wrap
  <2>3. Balances' = Balances + amount /\ NotesWorth' = NotesWorth
    BY <1>3, <1>4, <2>2
  <2> QED
    BY <1>0, <1>1, <2>2, <2>3
<1>9. CASE Plain!Give
  BY <1>1, <1>9 DEF Plain!Give, Balances, NotesWorth, Unspent
<1>10. ASSUME NEW d \in proofs, Plain!Move(d)
       PROVE  reserve' = Balances' + NotesWorth'
  <2> DEFINE a == d.amount
             from == d.from
             to == d.to
             f == [Worth EXCEPT ![from] = @ - a]
  <2>1. Worth' = [f EXCEPT ![to] = @ + a]
    BY <1>10 DEF Plain!Move, Plain!Add
  <2>2. a \in Int /\ from \in Owners /\ to \in Owners
    BY <1>0
  <2> HIDE DEF a, from, to
  <2>3. /\ f \in [Owners -> Int] /\ f[from] - Worth[from] = -a
        /\ \A x \in Owners \ {from} : f[x] = Worth[x]
    BY <1>0, <2>2
  <2> HIDE DEF f
  <2>4. SumOver(f, Owners) = Balances + (-a)
    <3>1. SumOver(f, Owners) = SumOver(Worth, Owners) + (f[from] - Worth[from])
      BY <1>0, <2>2, <2>3, BalanceMoves
    <3> QED
      BY <2>3, <3>1 DEF Balances
  <2>5. Balances' = Balances
    <3>1. /\ Worth' \in [Owners -> Int] /\ Worth'[to] - f[to] = a
          /\ \A x \in Owners \ {to} : Worth'[x] = f[x]
      BY <2>1, <2>2, <2>3
    <3>2. SumOver(Worth', Owners) = SumOver(f, Owners) + a
      BY <2>2, <2>3, <3>1, BalanceMoves
    <3> QED
      BY <1>0, <2>2, <2>4, <3>2 DEF Balances
  <2>6. UNCHANGED <<reserve, notes, nullifierSpent>>
    BY <1>10 DEF Plain!Move
  <2> QED
    BY <1>0, <1>1, <1>3, <2>5, <2>6
<1>11. ASSUME NEW d \in proofs, Plain!CashOut(d)
       PROVE  reserve' = Balances' + NotesWorth'
  <2>1. /\ Worth' = [Worth EXCEPT ![d.from] = @ - d.amount]
        /\ reserve' = reserve - d.amount /\ UNCHANGED <<notes, nullifierSpent>>
    BY <1>11 DEF Plain!CashOut
  <2>2. d.from \in Owners /\ d.amount \in Int
    BY <1>0
  <2>3. Balances' = Balances - d.amount /\ NotesWorth' = NotesWorth
    BY <1>3, <1>5, <2>1, <2>2
  <2> QED
    BY <1>0, <1>1, <2>1, <2>2, <2>3
<1>12. ASSUME NEW d \in proofs, Plain!Hide(d)
       PROVE  reserve' = Balances' + NotesWorth'
  <2>1. /\ Worth' = [Worth EXCEPT ![d.from] = @ - (d.amount + d.fee)]
        /\ notes' = notes \o <<d.amount, d.fee>> /\ UNCHANGED <<reserve, nullifierSpent>>
    BY <1>12 DEF Plain!Hide
  <2> DEFINE a == d.amount
             b == d.fee
             from == d.from
             all == a + b
  <2>2. a \in Nat /\ b \in Nat /\ all \in Int /\ from \in Owners
    BY <1>0
  <2>3. Worth' = [Worth EXCEPT ![from] = @ - all] /\ notes' = notes \o <<a, b>>
    BY <2>1
  <2> HIDE DEF a, b, from, all
  <2>4. Balances' = Balances - all
    BY <1>5, <2>2, <2>3
  <2>5. NotesWorth' = NotesWorth + a + b
    <3>1. /\ notes' \in Seq(Nat) /\ Len(notes') = Len(notes) + 2
          /\ notes'[Len(notes) + 1] = a /\ notes'[Len(notes) + 2] = b
          /\ \A i \in DOMAIN notes : notes'[i] = notes[i]
      BY <1>0, <2>2, <2>3
    <3> QED
      BY <1>0, <2>1, <3>1, NotesAdd DEF NotesWorth, Unspent
  <2> QED
    BY <1>0, <1>1, <2>1, <2>2, <2>4, <2>5 DEF all
<1>13. ASSUME NEW i \in DOMAIN notes, NEW pay \in 0 .. notes[i], NEW change \in 0 .. notes[i],
              NEW fee \in 0 .. notes[i], Plain!Split(i, pay, change, fee)
       PROVE  reserve' = Balances' + NotesWorth'
  <2>1. /\ i \notin nullifierSpent /\ nullifierSpent' = nullifierSpent \cup {i}
        /\ pay + change + fee = notes[i] /\ notes' = notes \o <<pay, change, fee>>
        /\ UNCHANGED <<reserve, Worth>>
    BY <1>13 DEF Plain!Split, Plain!Consume
  <2>2. pay \in Nat /\ change \in Nat /\ fee \in Nat /\ notes[i] \in Nat
    BY <1>0
  <2> DEFINE D == nullifierSpent \cup {i}
             worth == SumOver(notes, DOMAIN notes \ D)
  <2>3. worth = NotesWorth - notes[i] /\ D \subseteq DOMAIN notes
    BY <1>0, <2>1, NoteGoes DEF NotesWorth, Unspent
  <2>4. SumOver(notes', DOMAIN notes' \ D) = worth + pay + change + fee
    <3>1. /\ notes' \in Seq(Nat) /\ Len(notes') = Len(notes) + 3
          /\ notes'[Len(notes) + 1] = pay /\ notes'[Len(notes) + 2] = change
          /\ notes'[Len(notes) + 3] = fee
          /\ \A k \in DOMAIN notes : notes'[k] = notes[k]
      BY <1>0, <2>1, <2>2
    <3> HIDE DEF D
    <3> QED
      BY <1>0, <2>3, <3>1, NotesAdd
  <2>5. NotesWorth' = worth + pay + change + fee /\ Balances' = Balances
    BY <2>1, <2>4 DEF NotesWorth, Unspent, Balances
  <2>6. pay + change + fee = notes[i] /\ reserve' = reserve
    BY <2>1
  <2> DEFINE w == notes[i]
  <2>7. /\ pay \in Int /\ change \in Int /\ fee \in Int /\ w \in Int
        /\ pay + change + fee = w /\ worth = NotesWorth - w
    BY <2>2, <2>3, <2>6
  <2>8. NotesWorth \in Int
    BY <1>0
  <2> HIDE DEF worth, D, w
  <2>9. NotesWorth' = NotesWorth
    BY ONLY <2>5, <2>7, <2>8
  <2> QED
    BY <1>1, <2>5, <2>6, <2>9
<1>14. ASSUME NEW i \in DOMAIN notes, NEW o \in Owners, Plain!Show(i, o)
       PROVE  reserve' = Balances' + NotesWorth'
  <2>1. /\ Plain!Consume(i) /\ Worth' = [Worth EXCEPT ![o] = @ + notes[i]]
        /\ UNCHANGED <<reserve, notes>>
    BY <1>14 DEF Plain!Show
  <2>2. NotesWorth' = NotesWorth - notes[i] /\ notes[i] \in Nat
    BY <1>6, <2>1
  <2> DEFINE a == notes[i]
  <2>3. Worth' = [Worth EXCEPT ![o] = @ + a] /\ a \in Int
    BY <2>1, <2>2
  <2> HIDE DEF a
  <2>4. Balances' = Balances + a
    BY <1>4, <2>3
  <2> QED
    BY <1>0, <1>1, <2>1, <2>2, <2>4 DEF a
<1>15. ASSUME NEW i \in DOMAIN notes, NEW o \in Owners, NEW relayer \in Owners,
              NEW fee \in 0 .. notes[i], Plain!Leave(i, o, relayer, fee)
       PROVE  reserve' = Balances' + NotesWorth'
  <2>1. /\ Plain!Consume(i) /\ reserve' = reserve - notes[i]
        /\ UNCHANGED <<Worth, notes>>
    BY <1>15 DEF Plain!Leave
  <2>2. NotesWorth' = NotesWorth - notes[i] /\ notes[i] \in Nat /\ Balances' = Balances
    BY <1>6, <2>1 DEF Balances
  <2> QED
    BY <1>0, <1>1, <2>1, <2>2
<1> QED
  BY PlainStep, <1>7, <1>8, <1>9, <1>10, <1>11, <1>12, <1>13, <1>14, <1>15 DEF Plain!Next

(* The reserve is what balances and unspent notes are worth together, in     *)
(* every state: no transfer, deposit, forward or withdrawal, and no          *)
(* repetition of one, makes or loses value.                                  *)
THEOREM ReserveBacksAll == Spec => []Backed
<1>1. ASSUME Init
      PROVE  Plain!Backed
  <2>1. /\ reserve = 0 /\ notes = <<>>
        /\ Worth = [o \in Owners |-> 0]
    BY <1>1 DEF Init, Worth, Empty, Cipher
  <2>2. Unspent = {}
    BY <2>1 DEF Unspent
  <2>3. NotesWorth = 0
    BY <2>2, SumEmpty DEF NotesWorth
  <2>4. Balances = 0
    BY <2>1, SumZero, TokenAssumption DEF Balances
  <2> QED
    BY <2>1, <2>3, <2>4, BackedSums
<1>2. IInv /\ [Next]_vars /\ Plain!Backed => Plain!Backed'
  BY BackingKept
<1> QED
  BY <1>1, <1>2, Invariance, PTL DEF Spec, Backed
-----------------------------------------------------------------------------
(* A spend of one account disturbs the proofs of that account only.          *)
LEMMA SpendDisturbsItsOwn ==
  ASSUME IInv, NEW q \in proofs, RequireAvailable(q), ConsumeProof(q), proofs' = proofs,
         available' = [available EXCEPT ![q.from] = Minus(@, Debit(q))],
         NEW p \in proofs, Usable(p), ~Usable(p)'
  PROVE  \E s \in proofUsed' \ proofUsed : s.from = p.from
<1>1. q \in proofUsed' \ proofUsed /\ proofUsed' = proofUsed \cup {q}
  BY DEF ConsumeProof
<1>2. CASE q.from = p.from
  BY <1>1, <1>2
<1>3. CASE q.from /= p.from
  <2>1. p \notin proofUsed' /\ p \in proofs'
    BY <1>1, <1>3 DEF Usable
  <2>2. available'[p.from] = available[p.from]
    BY <1>3 DEF IInv, TypeOK
  <2> QED
    BY <2>1, <2>2 DEF Usable
<1> QED
  BY <1>2, <1>3

(* A proof in flight stops working only through its own account: another    *)
(* spend of it, or its owner taking in what is pending.                     *)
THEOREM OwnerMovesAvailable == Spec => OnlyOwnerMovesAvailable
<1> DEFINE A == \A p \in proofs : Usable(p) /\ ~Usable(p)' =>
                  \/ \E q \in proofUsed' \ proofUsed : q.from = p.from
                  \/ pending[p.from] /= Empty /\ pending'[p.from] = Empty
<1>1. ASSUME IInv, Next
      PROVE  A
  <2> SUFFICES ASSUME NEW p \in proofs, Usable(p), ~Usable(p)'
               PROVE  \/ \E q \in proofUsed' \ proofUsed : q.from = p.from
                      \/ pending[p.from] /= Empty /\ pending'[p.from] = Empty
    OBVIOUS
  <2> USE <1>1
  <2>1. ~(UNCHANGED <<available, proofUsed>> /\ proofs \subseteq proofs')
    BY DEF Usable
  <2>2. ASSUME NEW o \in Owners, ApplyPending(o)
        PROVE  pending[p.from] /= Empty /\ pending'[p.from] = Empty
    <3>1. p.from \in Owners /\ available[o] \in CipherType
          /\ available \in [Owners -> CipherType] /\ pending \in [Owners -> CipherType]
      BY DEF IInv, TypeOK
    <3>2. available'[p.from] /= available[p.from]
      BY <2>2 DEF ApplyPending, Usable
    <3>3. p.from = o
      BY <2>2, <3>1, <3>2 DEF ApplyPending
    <3>4. Plus(available[o], Empty) = available[o]
      BY <3>1 DEF Plus, Empty, Cipher, CipherType
    <3> QED
      BY <2>2, <3>1, <3>2, <3>3, <3>4 DEF ApplyPending
  <2>3. ASSUME NEW q \in proofs, Transfer(q) \/ Unwrap(q) \/ DepositToPool(q)
        PROVE  \E s \in proofUsed' \ proofUsed : s.from = p.from
    <3>1. /\ RequireAvailable(q) /\ ConsumeProof(q) /\ proofs' = proofs
          /\ available' = [available EXCEPT ![q.from] = Minus(@, Debit(q))]
      BY <2>3 DEF Transfer, Unwrap, DepositToPool
    <3> QED
      BY <3>1, SpendDisturbsItsOwn
  <2>4. ~SetPool
    BY <2>1 DEF SetPool
  <2>5. ASSUME NEW o \in Owners PROVE ~Register(o)
    BY <2>1 DEF Register
  <2>6. ASSUME NEW o \in Owners, NEW amount PROVE ~Wrap(o, amount)
    BY <2>1 DEF Wrap, Credit
  <2>7. ASSUME NEW q PROVE ~Prove(q)
    BY <2>1 DEF Prove, token
  <2>8. ASSUME NEW i, NEW pay, NEW fee PROVE ~TransferNote(i, pay, fee)
    BY <2>1 DEF TransferNote, token
  <2>9. ASSUME NEW i, NEW to, NEW r PROVE ~WithdrawToToken(i, to, r)
    BY <2>1 DEF WithdrawToToken, Credit
  <2>10. ASSUME NEW i, NEW recipient, NEW relayer, NEW fee
         PROVE  ~Withdraw(i, recipient, relayer, fee)
    BY <2>1 DEF Withdraw
  <2> QED
    BY <2>2, <2>3, <2>4, <2>5, <2>6, <2>7, <2>8, <2>9, <2>10 DEF Next
<1>2. IInv /\ [Next]_vars => [A]_vars
  BY <1>1
<1> HIDE DEF A
<1>3. Spec => [][A]_vars
  BY <1>2, Invariance, PTL DEF Spec
<1> QED
  BY <1>3 DEF OnlyOwnerMovesAvailable, A
=============================================================================
