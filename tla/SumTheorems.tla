---------------------------- MODULE SumTheorems ----------------------------
(***************************************************************************)
(* Sums of a function over a finite set: the facts that the proofs about   *)
(* money need.                                                             *)
(*                                                                         *)
(* The library's induction theorems take the formula to prove as an        *)
(* operator; these proofs argue on the set of the counterexamples, of      *)
(* which a finite set has a smallest one (Smallest), and so never          *)
(* instantiate an operator.                                                *)
(***************************************************************************)
EXTENDS Integers, FiniteSetsExt, FiniteSetTheorems, WellFoundedInduction, TLAPS

\* The sum of f over S, as the models write it.
SumOver(f, S) == MapThenSumSet(LAMBDA x : f[x], S)

\* The element a fold takes first.
First(S) == CHOOSE x \in S : TRUE

\* One round of the fold: the value for s from the values of smaller sets.
Round(f, g, s) == IF s = {} THEN 0 ELSE f[First(s)] + g[s \ {First(s)}]

\* g is the table of the partial sums of f over the subsets of S.
Tabulates(g, f, S) == g = [s \in SUBSET S |-> Round(f, g, s)]

Table(f, S) == CHOOSE g : Tabulates(g, f, S)

-----------------------------------------------------------------------------
(* Induction, as the smallest counterexample *)

\* A family of subsets of a finite set has a member no other is inside of.
LEMMA Smallest ==
  ASSUME NEW S, IsFiniteSet(S), NEW B, B \subseteq SUBSET S, B # {}
  PROVE  \E T \in B : \A U \in B : U \subseteq T => U = T
<1>1. FiniteSubsetsOf(S) = SUBSET S
  BY FS_FiniteSubsetsOfFinite
<1>2. IsWellFoundedOn(StrictSubsetOrdering(S), SUBSET S)
  BY <1>1, FS_StrictSubsetOrderingWellFounded
<1>3. PICK T \in B : \A U \in B : ~(<<U, T>> \in StrictSubsetOrdering(S))
  BY <1>2, WFMin
<1>4. ASSUME NEW U \in B, U \subseteq T PROVE U = T
  BY <1>3, <1>4 DEF StrictSubsetOrdering
<1>5. QED BY <1>3, <1>4

\* The first element is an element.
LEMMA FirstIn == ASSUME NEW S, S # {} PROVE First(S) \in S
  BY DEF First

\* Two tables of the same function agree where both are defined.
LEMMA TablesAgree ==
  ASSUME NEW f, NEW S, IsFiniteSet(S), NEW T, T \subseteq S,
         NEW g, NEW h, Tabulates(g, f, S), Tabulates(h, f, T)
  PROVE  \A s \in SUBSET T : g[s] = h[s]
<1> DEFINE B == {s \in SUBSET T : g[s] # h[s]}
<1>1. SUFFICES ASSUME B # {} PROVE FALSE
  OBVIOUS
<1>2. IsFiniteSet(T)
  BY FS_Subset
<1>3. PICK s \in B : \A u \in B : u \subseteq s => u = s
  <2> HIDE DEF B
  <2>1. B \subseteq SUBSET T
    BY DEF B
  <2>2. QED BY <1>1, <1>2, <2>1, Smallest
<1>4. s \in SUBSET T /\ s \in SUBSET S /\ g[s] # h[s]
  BY <1>3
<1>5. g[s] = Round(f, g, s) /\ h[s] = Round(f, h, s)
  BY <1>4 DEF Tabulates
<1>6. s # {}
  BY <1>4, <1>5 DEF Round
<1>7. First(s) \in s
  BY <1>6, FirstIn
<1>8. s \ {First(s)} \notin B
  BY <1>3, <1>7
<1>9. g[s \ {First(s)}] = h[s \ {First(s)}]
  BY <1>4, <1>8
<1>10. QED BY <1>4, <1>5, <1>6, <1>9 DEF Round

\* Every finite set has its table, so the recursive definition of a fold is
\* a function and its equation holds.
LEMMA TableExists ==
  ASSUME NEW f, NEW S, IsFiniteSet(S)
  PROVE  Tabulates(Table(f, S), f, S)
<1> DEFINE Has(T) == \E g : Tabulates(g, f, T)
           B == {T \in SUBSET S : ~Has(T)}
<1>1. SUFFICES B = {}
  <2>1. S \in SUBSET S
    OBVIOUS
  <2>2. ASSUME B = {} PROVE Has(S)
    BY <2>1, <2>2
  <2>3. QED BY <2>2 DEF Table
<1>2. SUFFICES ASSUME B # {} PROVE FALSE
  OBVIOUS
<1>3. PICK T \in B : \A U \in B : U \subseteq T => U = T
  <2> HIDE DEF B
  <2>1. B \subseteq SUBSET S
    BY DEF B
  <2>2. QED BY <1>2, <2>1, Smallest
<1>4. T \in SUBSET S /\ ~Has(T) /\ IsFiniteSet(T)
  BY <1>3, FS_Subset
<1> DEFINE G(u) == Table(f, u)
<1>5. ASSUME NEW u \in SUBSET T, u # T PROVE Tabulates(G(u), f, u)
  <2>1. u \notin B
    BY <1>3, <1>5
  <2>2. u \in SUBSET S
    BY <1>4
  <2>3. Has(u)
    BY <2>1, <2>2
  <2>4. QED BY <2>3 DEF Table
<1> DEFINE h == [s \in SUBSET T |-> Round(f, G(s \ {First(s)}), s)]
<1>6. ASSUME NEW u \in SUBSET T, u # T PROVE h[u] = G(u)[u]
  <2>1. Tabulates(G(u), f, u)
    BY <1>5, <1>6
  <2>2. G(u)[u] = Round(f, G(u), u)
    <3> HIDE DEF G
    <3>1. u \in SUBSET u
      OBVIOUS
    <3>2. QED BY <2>1, <3>1 DEF Tabulates
  <2>3. CASE u = {}
    <3> HIDE DEF G
    <3>1. QED BY <2>2, <2>3 DEF Round
  <2>4. CASE u # {}
    <3>1. First(u) \in u
      BY <2>4, FirstIn
    <3> DEFINE v == u \ {First(u)}
    <3>2. v \in SUBSET T /\ v # T /\ v \subseteq u /\ v \in SUBSET v
      BY <3>1
    <3>3. Tabulates(G(v), f, v) /\ IsFiniteSet(u)
      BY <3>2, <1>5, <1>4, FS_Subset
    <3> HIDE DEF G, v
    <3>4. G(u)[v] = G(v)[v]
      BY <3>2, <3>3, <2>1, TablesAgree
    <3>5. h[u] = f[First(u)] + G(v)[v]
      BY <2>4 DEF Round, v
    <3>6. G(u)[u] = f[First(u)] + G(u)[v]
      BY <2>2, <2>4 DEF Round, v
    <3>7. QED BY <3>4, <3>5, <3>6
  <2>5. QED BY <2>3, <2>4
<1>7. \A s \in SUBSET T : h[s] = Round(f, h, s)
  <2> TAKE s \in SUBSET T
  <2>1. CASE s = {}
    BY <2>1 DEF Round
  <2>2. CASE s # {}
    <3>1. First(s) \in s
      BY <2>2, FirstIn
    <3> DEFINE v == s \ {First(s)}
    <3>2. v \in SUBSET T /\ v # T
      BY <3>1
    <3>3. h[v] = G(v)[v]
      BY <3>2, <1>6
    <3>4. h[s] = Round(f, G(v), s)
      OBVIOUS
    <3> HIDE DEF G, h
    <3>5. QED BY <2>2, <3>3, <3>4 DEF Round
  <2>3. QED BY <2>1, <2>2
<1>8. Tabulates(h, f, T)
  <2>1. h = [s \in SUBSET T |-> h[s]]
    OBVIOUS
  <2> HIDE DEF h
  <2>2. QED BY <1>7, <2>1 DEF Tabulates
<1>9. QED BY <1>4, <1>8

\* The equation of the fold, at every set inside S.
LEMMA TableRound ==
  ASSUME NEW f, NEW S, IsFiniteSet(S), NEW s \in SUBSET S
  PROVE  Table(f, S)[s] = Round(f, Table(f, S), s)
<1> DEFINE g == Table(f, S)
<1>1. Tabulates(g, f, S)
  BY TableExists
<1> HIDE DEF g
<1>2. g[s] = Round(f, g, s)
  BY <1>1 DEF Tabulates
<1>3. QED BY <1>2 DEF g

\* The table of a part of S is a part of the table of S.
LEMMA TableOfPart ==
  ASSUME NEW f, NEW S, IsFiniteSet(S), NEW T \in SUBSET S
  PROVE  Table(f, S)[T] = Table(f, T)[T]
<1>1. IsFiniteSet(T) /\ T \in SUBSET T
  BY FS_Subset
<1>2. Tabulates(Table(f, S), f, S) /\ Tabulates(Table(f, T), f, T)
  BY <1>1, TableExists
<1>3. QED BY <1>1, <1>2, TablesAgree

\* A sum of integers is an integer.
LEMMA TableInt ==
  ASSUME NEW f, NEW S, IsFiniteSet(S), \A x \in S : f[x] \in Int
  PROVE  \A s \in SUBSET S : Table(f, S)[s] \in Int
<1> DEFINE g == Table(f, S)
           B == {s \in SUBSET S : g[s] \notin Int}
<1>1. SUFFICES ASSUME B # {} PROVE FALSE
  OBVIOUS
<1> HIDE DEF g
<1>2. PICK s \in B : \A u \in B : u \subseteq s => u = s
  <2>1. B \subseteq SUBSET S
    OBVIOUS
  <2> HIDE DEF B
  <2>2. QED BY <1>1, <2>1, Smallest
<1>3. g[s] = Round(f, g, s)
  BY <1>2, TableRound DEF g
<1>4. s # {}
  BY <1>2, <1>3 DEF Round
<1>5. First(s) \in s
  BY <1>4, FirstIn
<1>6. g[s \ {First(s)}] \in Int
  BY <1>2, <1>5
<1>7. QED BY <1>2, <1>3, <1>4, <1>5, <1>6 DEF Round

\* It does not matter which element is taken out first.
LEMMA TakeAny ==
  ASSUME NEW f, NEW S, IsFiniteSet(S), \A x \in S : f[x] \in Int
  PROVE  \A s \in SUBSET S : \A x \in s :
           Table(f, S)[s] = f[x] + Table(f, S)[s \ {x}]
<1> DEFINE g == Table(f, S)
           Any(s) == \A x \in s : g[s] = f[x] + g[s \ {x}]
           B == {s \in SUBSET S : ~Any(s)}
<1>1. SUFFICES ASSUME B # {} PROVE FALSE
  OBVIOUS
<1>2. PICK s \in B : \A u \in B : u \subseteq s => u = s
  <2>1. B \subseteq SUBSET S
    OBVIOUS
  <2> HIDE DEF B
  <2>2. QED BY <1>1, <2>1, Smallest
<1>3. \A u \in SUBSET S : g[u] \in Int
  BY TableInt
<1>4. PICK x \in s : g[s] # f[x] + g[s \ {x}]
  BY <1>2
<1> DEFINE y == First(s)
<1>5. y \in s
  BY <1>4, FirstIn
<1>6. g[s] = f[y] + g[s \ {y}]
  <2>1. g[s] = Round(f, g, s)
    BY <1>2, TableRound
  <2>2. QED BY <2>1, <1>4 DEF Round
<1> HIDE DEF g, y
<1>7. x # y
  BY <1>4, <1>6
<1>8. Any(s \ {y}) /\ Any(s \ {x})
  BY <1>2, <1>4, <1>5
<1> DEFINE rest == (s \ {y}) \ {x}
<1>9. g[s \ {y}] = f[x] + g[rest]
  BY <1>8, <1>7, <1>4
<1>10. g[s \ {x}] = f[y] + g[rest]
  <2>1. (s \ {x}) \ {y} = rest
    OBVIOUS
  <2>2. QED BY <2>1, <1>8, <1>7, <1>5
<1>11. f[x] \in Int /\ f[y] \in Int /\ rest \in SUBSET S
  BY <1>2, <1>4, <1>5
<1>12. g[rest] \in Int
  BY <1>11, <1>3
<1> HIDE DEF rest
<1>13. QED BY <1>4, <1>6, <1>9, <1>10, <1>11, <1>12

-----------------------------------------------------------------------------
(* The sums of the models *)

\* The sum of the models is the last entry of the table.
LEMMA SumIsEntry == ASSUME NEW f, NEW S PROVE SumOver(f, S) = Table(f, S)[S]
  BY DEF SumOver, Table, Tabulates, Round, First, MapThenSumSet, MapThenFoldSet

\* Nothing sums to zero.
LEMMA SumEmpty == ASSUME NEW f PROVE SumOver(f, {}) = 0
  BY FS_EmptySet, TableRound, SumIsEntry DEF Round

\* A sum of integers is an integer.
LEMMA SumInt ==
  ASSUME NEW f, NEW S, IsFiniteSet(S), \A x \in S : f[x] \in Int
  PROVE  SumOver(f, S) \in Int
  BY TableInt, SumIsEntry

\* An element more adds what it is worth.
LEMMA SumAdd ==
  ASSUME NEW f, NEW S, IsFiniteSet(S), NEW x, x \notin S,
         \A y \in S \cup {x} : f[y] \in Int
  PROVE  SumOver(f, S \cup {x}) = SumOver(f, S) + f[x]
<1> DEFINE U == S \cup {x}
<1>1. IsFiniteSet(U) /\ S \in SUBSET U /\ U \in SUBSET U /\ U \ {x} = S /\ x \in U
  BY FS_AddElement
<1>2. \A y \in U : f[y] \in Int
  OBVIOUS
<1> HIDE DEF U
<1>3. Table(f, U)[U] = f[x] + Table(f, U)[S]
  BY <1>1, <1>2, TakeAny
<1>4. Table(f, U)[S] = Table(f, S)[S]
  BY <1>1, TableOfPart
<1>5. Table(f, U)[S] \in Int /\ f[x] \in Int
  BY <1>1, <1>2, TableInt
<1>6. QED BY <1>3, <1>4, <1>5, SumIsEntry DEF U

\* An element less takes it away.
LEMMA SumRemove ==
  ASSUME NEW f, NEW S, IsFiniteSet(S), NEW x \in S, \A y \in S : f[y] \in Int
  PROVE  SumOver(f, S \ {x}) = SumOver(f, S) - f[x]
<1> DEFINE T == S \ {x}
<1>1. IsFiniteSet(T) /\ x \notin T /\ T \cup {x} = S
  BY FS_Subset
<1>2. \A y \in T \cup {x} : f[y] \in Int
  OBVIOUS
<1>3. SumOver(f, T) \in Int /\ f[x] \in Int
  BY <1>1, <1>2, SumInt
<1> HIDE DEF T
<1>4. SumOver(f, T \cup {x}) = SumOver(f, T) + f[x]
  BY <1>1, <1>2, SumAdd
<1>5. SumOver(f, S) = SumOver(f, T) + f[x]
  BY <1>1, <1>4
<1>6. SumOver(f, T) = SumOver(f, S) - f[x]
  BY <1>3, <1>5
<1>7. QED BY <1>6 DEF T

\* Only the values on S matter.
LEMMA SumSame ==
  ASSUME NEW f, NEW g, NEW S, IsFiniteSet(S), \A x \in S : f[x] = g[x]
  PROVE  SumOver(f, S) = SumOver(g, S)
<1> DEFINE B == {s \in SUBSET S : Table(f, S)[s] # Table(g, S)[s]}
<1>1. SUFFICES B = {}
  BY SumIsEntry
<1>2. SUFFICES ASSUME B # {} PROVE FALSE
  OBVIOUS
<1>3. PICK s \in B : \A u \in B : u \subseteq s => u = s
  <2>1. B \subseteq SUBSET S
    OBVIOUS
  <2> HIDE DEF B
  <2>2. QED BY <1>2, <2>1, Smallest
<1>4. /\ Table(f, S)[s] = Round(f, Table(f, S), s)
      /\ Table(g, S)[s] = Round(g, Table(g, S), s)
  BY <1>3, TableRound
<1>5. s # {}
  BY <1>3, <1>4 DEF Round
<1>6. First(s) \in s
  BY <1>5, FirstIn
<1>7. f[First(s)] = g[First(s)]
      /\ Table(f, S)[s \ {First(s)}] = Table(g, S)[s \ {First(s)}]
  BY <1>3, <1>6
<1>8. QED BY <1>3, <1>4, <1>5, <1>7 DEF Round

\* A sum of naturals is a natural.
LEMMA SumNat ==
  ASSUME NEW f, NEW S, IsFiniteSet(S), \A x \in S : f[x] \in Nat
  PROVE  SumOver(f, S) \in Nat
<1> DEFINE g == Table(f, S)
           B == {s \in SUBSET S : g[s] \notin Nat}
<1>1. SUFFICES B = {}
  BY SumIsEntry
<1>2. SUFFICES ASSUME B # {} PROVE FALSE
  OBVIOUS
<1> HIDE DEF g
<1>3. PICK s \in B : \A u \in B : u \subseteq s => u = s
  <2>1. B \subseteq SUBSET S
    OBVIOUS
  <2> HIDE DEF B
  <2>2. QED BY <1>2, <2>1, Smallest
<1>4. g[s] = Round(f, g, s)
  BY <1>3, TableRound DEF g
<1>5. s # {}
  BY <1>3, <1>4 DEF Round
<1>6. First(s) \in s
  BY <1>5, FirstIn
<1>7. g[s \ {First(s)}] \in Nat /\ f[First(s)] \in Nat
  BY <1>3, <1>6
<1>8. QED BY <1>3, <1>4, <1>5, <1>7 DEF Round

\* One value changed changes the sum by the difference.
LEMMA SumUpdate ==
  ASSUME NEW f, NEW g, NEW S, IsFiniteSet(S), NEW x \in S,
         \A y \in S : f[y] \in Int /\ g[y] \in Int,
         \A y \in S \ {x} : g[y] = f[y]
  PROVE  SumOver(g, S) = SumOver(f, S) - f[x] + g[x]
<1>1. IsFiniteSet(S \ {x})
  BY FS_Subset
<1>2. SumOver(g, S \ {x}) = SumOver(f, S \ {x})
  BY <1>1, SumSame
<1>3. SumOver(g, S \ {x}) = SumOver(g, S) - g[x]
  BY SumRemove
<1>4. SumOver(f, S \ {x}) = SumOver(f, S) - f[x]
  BY SumRemove
<1>5. SumOver(f, S) \in Int /\ SumOver(g, S) \in Int /\ f[x] \in Int /\ g[x] \in Int
  BY SumInt
<1>6. QED BY <1>2, <1>3, <1>4, <1>5

\* A list that grows by an element keeps the old values and adds the new one.
LEMMA SumGrow ==
  ASSUME NEW f, NEW g, NEW S, IsFiniteSet(S), NEW x, x \notin S,
         \A y \in S : g[y] = f[y], \A y \in S \cup {x} : g[y] \in Int
  PROVE  SumOver(g, S \cup {x}) = SumOver(f, S) + g[x]
<1>1. SumOver(g, S) = SumOver(f, S)
  BY SumSame
<1>2. SumOver(g, S \cup {x}) = SumOver(g, S) + g[x]
  BY SumAdd
<1>3. QED BY <1>1, <1>2

\* Zeros sum to zero.
LEMMA SumZero ==
  ASSUME NEW f, NEW S, IsFiniteSet(S), \A x \in S : f[x] = 0
  PROVE  SumOver(f, S) = 0
<1> DEFINE g == Table(f, S)
           B == {s \in SUBSET S : g[s] # 0}
<1>1. SUFFICES B = {}
  BY SumIsEntry
<1>2. SUFFICES ASSUME B # {} PROVE FALSE
  OBVIOUS
<1> HIDE DEF g
<1>3. PICK s \in B : \A u \in B : u \subseteq s => u = s
  <2>1. B \subseteq SUBSET S
    OBVIOUS
  <2> HIDE DEF B
  <2>2. QED BY <1>2, <2>1, Smallest
<1>4. g[s] = Round(f, g, s)
  BY <1>3, TableRound DEF g
<1>5. s # {}
  BY <1>3, <1>4 DEF Round
<1>6. First(s) \in s
  BY <1>5, FirstIn
<1>7. g[s \ {First(s)}] = 0 /\ f[First(s)] = 0
  BY <1>3, <1>6
<1>8. QED BY <1>3, <1>4, <1>5, <1>7 DEF Round

\* The same for two elements, and for three.
LEMMA SumGrowTwo ==
  ASSUME NEW f, NEW g, NEW S, IsFiniteSet(S), NEW x, NEW y,
         x \notin S, y \notin S, x # y,
         NEW all, \A u : u \in all <=> u \in S \/ u = x \/ u = y,
         \A z \in S : g[z] = f[z], \A z \in all : g[z] \in Int
  PROVE  SumOver(g, all) = SumOver(f, S) + g[x] + g[y]
<1> DEFINE T == S \cup {x}
<1>1. SumOver(g, T) = SumOver(f, S) + g[x]
  BY SumGrow
<1>2. IsFiniteSet(T)
  BY FS_AddElement
<1>3. y \notin T /\ all = T \cup {y} /\ \A z \in T \cup {y} : g[z] \in Int
  OBVIOUS
<1> HIDE DEF T
<1>4. SumOver(g, T \cup {y}) = SumOver(g, T) + g[y]
  BY <1>2, <1>3, SumAdd
<1>5. QED BY <1>1, <1>3, <1>4

LEMMA SumGrowThree ==
  ASSUME NEW f, NEW g, NEW S, IsFiniteSet(S), NEW x, NEW y, NEW z,
         x \notin S, y \notin S, z \notin S, x # y, x # z, y # z,
         NEW all, \A u : u \in all <=> u \in S \/ u = x \/ u = y \/ u = z,
         \A u \in S : g[u] = f[u], \A u \in all : g[u] \in Int
  PROVE  SumOver(g, all) = SumOver(f, S) + g[x] + g[y] + g[z]
<1> DEFINE T == S \cup {x}
           U == T \cup {y}
<1>1. IsFiniteSet(T)
  BY FS_AddElement
<1>3. /\ \A u : u \in U <=> u \in S \/ u = x \/ u = y
      /\ all = U \cup {z} /\ z \notin U
      /\ \A u \in U \cup {z} : g[u] \in Int
  OBVIOUS
<1> HIDE DEF T
<1>2. IsFiniteSet(U)
  BY <1>1, FS_AddElement
<1>4. SumOver(g, U) = SumOver(f, S) + g[x] + g[y]
  BY <1>3, SumGrowTwo
<1> HIDE DEF U
<1>5. SumOver(g, U \cup {z}) = SumOver(g, U) + g[z]
  BY <1>2, <1>3, SumAdd
<1>6. QED BY <1>3, <1>4, <1>5

\* Of naturals, a part sums to no more than the whole.
LEMMA SumPart ==
  ASSUME NEW f, NEW S, IsFiniteSet(S), \A x \in S : f[x] \in Nat,
         NEW T, T \subseteq S
  PROVE  SumOver(f, T) <= SumOver(f, S)
<1> DEFINE sum(s) == SumOver(f, s)
           B == {s \in SUBSET S : T \subseteq s /\ ~(sum(T) <= sum(s))}
<1>1. \A s \in SUBSET S : sum(s) \in Nat
  BY FS_Subset, SumNat
<1>2. SUFFICES B = {}
  OBVIOUS
<1>3. SUFFICES ASSUME B # {} PROVE FALSE
  OBVIOUS
<1>4. PICK s \in B : \A u \in B : u \subseteq s => u = s
  <2>1. B \subseteq SUBSET S
    OBVIOUS
  <2> HIDE DEF B
  <2>2. QED BY <1>3, <2>1, Smallest
<1>5. PICK x \in s : x \notin T
  <2>1. s # T
    BY <1>1, <1>4
  <2>2. QED BY <1>4, <2>1
<1>6. sum(s \ {x}) = sum(s) - f[x]
  <2>1. IsFiniteSet(s) /\ x \in s /\ \A y \in s : f[y] \in Int
    BY <1>4, <1>5, FS_Subset
  <2>2. QED BY <2>1, SumRemove
<1>7. sum(T) <= sum(s \ {x})
  BY <1>4, <1>5
<1>8. f[x] \in Nat /\ sum(s) \in Nat /\ sum(s \ {x}) \in Nat /\ sum(T) \in Nat
  BY <1>1, <1>4, <1>5
<1> HIDE DEF sum
<1>9. sum(T) <= sum(s)
  BY <1>6, <1>7, <1>8
<1>10. QED BY <1>4, <1>9
=============================================================================
