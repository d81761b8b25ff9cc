---------------------------- MODULE ServerProofs ----------------------------
(***************************************************************************)
(* Theorems about ServerStart: what a process that serves can rely on in    *)
(* the schema, however many others open the database; and what the ledger   *)
(* says of the sessions, for any number of processes, clients, connections *)
(* and calls.                                                              *)
(***************************************************************************)
EXTENDS ServerStart, FiniteSetTheorems, WellFoundedInduction, TLAPS

-----------------------------------------------------------------------------
(* The schema.                                                             *)

\* A process that is migrating has found, and applied since, a beginning of the migrations.
IsOpener(state, embedded, last) ==
  \/ state = Closed
  \/ state = [step |-> "ready"] /\ embedded <= last
  \/ \E k \in 0..last : k < embedded /\ state = [step |-> "migrating", applied |-> 1..k]

LEMMA StepTells ==
  ASSUME NEW state, NEW embedded, NEW last, IsOpener(state, embedded, last)
  PROVE  /\ state.step = "ready" => embedded <= last
         /\ state.step = "migrating" => \E k \in 0..last : k < embedded /\ state.applied = 1..k
<1>1. CASE state = Closed
  BY <1>1 DEF Closed
<1>2. CASE state = [step |-> "ready"] /\ embedded <= last
  BY <1>2
<1>3. ASSUME NEW k \in 0..last, k < embedded, state = [step |-> "migrating", applied |-> 1..k]
      PROVE  state.step = "migrating" /\ state.applied = 1..k
  BY <1>3
<1> QED
  BY <1>1, <1>2, <1>3 DEF IsOpener

\* The inductive strengthening of SchemaCurrent.
SchemaInv ==
  \E last \in 0..LastMigration :
     /\ schema = 1..last /\ recorded = 1..last
     /\ DOMAIN opener = Opener
     /\ \A o \in Opener : IsOpener(opener[o], Embedded[o], last)

ServesInv == \A p \in Process : phase[p] # "down" => opener[p].step = "ready"

LEMMA SchemaInit == ServerInit => SchemaInv /\ ServesInv
<1> SUFFICES ASSUME ServerInit PROVE SchemaInv /\ ServesInv
  OBVIOUS
<1>1. PICK last \in 0..LastMigration : schema = 1..last /\ recorded = 1..last
  <2>1. PICK last \in Migration \cup {0} : schema = 1..last /\ recorded = 1..last
    BY DEF ServerInit, MigrateInit
  <2>2. last \in 0..LastMigration
    BY MigrationsAssumption DEF Migration
  <2> QED
    BY <2>1, <2>2
<1>2. opener = [o \in Opener |-> Closed]
  BY DEF ServerInit, MigrateInit
<1>3. DOMAIN opener = Opener /\ \A o \in Opener : IsOpener(opener[o], Embedded[o], last)
  BY <1>2 DEF IsOpener
<1>4. ServesInv
  BY DEF ServesInv, ServerInit, Init
<1> QED
  BY <1>1, <1>3, <1>4 DEF SchemaInv

\* What is missing after the first k migrations, and the first of it.
LEMMA MissingIs ==
  ASSUME NEW o \in Opener, NEW k \in Nat
  PROVE  /\ Missing(o, 1..k) = {} <=> Embedded[o] <= k
         /\ k < Embedded[o] => Min(Missing(o, 1..k)) = k + 1
<1>1. PICK e \in Nat : e = Embedded[o]
  BY MigrationsAssumption
<1>2. PICK S : S = (1..e) \ (1..k)
  OBVIOUS
<1>3. S \subseteq Nat /\ \A x \in Nat : x \in S <=> k < x /\ x <= e
  BY <1>2
<1>4. Missing(o, 1..k) = S
  BY <1>1, <1>2 DEF Missing
<1>5. ASSUME k < e PROVE Min(S) = k + 1
  <2>1. k + 1 \in S /\ \A x \in S : k + 1 <= x
    BY <1>3, <1>5
  <2>2. \A y \in S : (\A x \in S : y <= x) => y = k + 1
    BY <1>3, <2>1
  <2>3. PICK m : m = Min(S)
    OBVIOUS
  <2>4. m \in S /\ \A x \in S : m <= x
    BY <2>1, <2>3 DEF Min
  <2> QED
    BY <2>2, <2>3, <2>4
<1>6. S = {} <=> e <= k
  <2>1. e <= k => S = {}
    BY <1>2
  <2>2. k < e => k + 1 \in S
    BY <1>3
  <2> QED
    BY <2>1, <2>2
<1> QED
  BY <1>1, <1>4, <1>5, <1>6

\* Where an opener goes after k migrations, when at least those are in force.
LEMMA GoesOnIs ==
  ASSUME NEW o \in Opener, NEW last \in Nat, NEW k \in 0..last, GoesOn(o, 1..k)
  PROVE  \E state : Moves(o, state) /\ IsOpener(state, Embedded[o], last)
<1>1. k \in Nat /\ Embedded[o] \in Nat
  BY MigrationsAssumption
<1>2. Moves(o, IF Missing(o, 1..k) # {} THEN [step |-> "migrating", applied |-> 1..k]
               ELSE IF o \in Command THEN Closed ELSE [step |-> "ready"])
  BY DEF GoesOn
<1>3. CASE Missing(o, 1..k) # {}
  <2>1. k < Embedded[o]
    BY <1>1, <1>3, MissingIs
  <2> QED
    BY <1>2, <1>3, <2>1 DEF IsOpener
<1>4. CASE Missing(o, 1..k) = {}
  <2>1. Embedded[o] <= last
    BY <1>1, <1>4, MissingIs
  <2> QED
    BY <1>2, <1>4, <2>1 DEF IsOpener
<1> QED
  BY <1>3, <1>4

LEMMA IsOpenerMonotone ==
  ASSUME NEW state, NEW embedded \in Nat, NEW last \in Nat, NEW more \in Nat, last <= more,
         IsOpener(state, embedded, last)
  PROVE  IsOpener(state, embedded, more)
  BY DEF IsOpener

LEMMA OpenerMoves ==
  ASSUME SchemaInv, ServesInv, NEW o \in Opener, Migrate(o) \/ (Close(o) /\ (o \in Process => phase[o] = "down")),
         UNCHANGED vars
  PROVE  SchemaInv' /\ ServesInv'
<1>1. PICK last \in 0..LastMigration :
        /\ schema = 1..last /\ recorded = 1..last
        /\ DOMAIN opener = Opener
        /\ \A x \in Opener : IsOpener(opener[x], Embedded[x], last)
  BY DEF SchemaInv
<1>2. LastMigration \in Nat /\ last \in Nat /\ Embedded[o] \in Nat /\ Embedded[o] <= LastMigration
  BY MigrationsAssumption
<1>3. phase' = phase
  BY DEF vars
\* What is to show of a step of o.
<1>4. ASSUME NEW state, Moves(o, state), NEW more \in 0..LastMigration, last <= more,
             schema' = 1..more, recorded' = 1..more, IsOpener(state, Embedded[o], more),
             opener[o].step # "ready" \/ (o \in Process => phase[o] = "down")
      PROVE  SchemaInv' /\ ServesInv'
  <2>1. opener' = [opener EXCEPT ![o] = state]
    BY <1>4 DEF Moves
  <2>2. DOMAIN opener' = Opener /\ opener'[o] = state /\ \A x \in Opener : x # o => opener'[x] = opener[x]
    BY <1>1, <2>1
  <2>3. ASSUME NEW x \in Opener PROVE IsOpener(opener'[x], Embedded[x], more)
    <3>1. Embedded[x] \in Nat /\ more \in Nat
      BY <1>2, MigrationsAssumption
    <3> QED
      BY <1>1, <1>2, <1>4, <2>2, <3>1, IsOpenerMonotone
  <2>4. SchemaInv'
    BY <1>4, <2>2, <2>3 DEF SchemaInv
  <2>5. ServesInv'
    <3>1. ASSUME NEW p \in Process, phase[p] # "down" PROVE opener'[p].step = "ready"
      <4>1. p \in Opener /\ opener[p].step = "ready"
        BY <3>1, OpenerAssumption DEF ServesInv
      <4> QED
        BY <1>4, <2>2, <3>1, <4>1
    <3> QED
      BY <1>3, <3>1 DEF ServesInv
  <2> QED
    BY <2>4, <2>5
<1>5. CASE Close(o) /\ (o \in Process => phase[o] = "down")
  <2>1. Moves(o, Closed) /\ schema' = 1..last /\ recorded' = 1..last
    BY <1>1, <1>5 DEF Close
  <2>2. IsOpener(Closed, Embedded[o], last)
    BY DEF IsOpener
  <2> QED
    BY <1>2, <1>4, <1>5, <2>1, <2>2
<1>6. CASE OpenDatabase(o)
  <2>1. GoesOn(o, 1..last) /\ schema' = 1..last /\ recorded' = 1..last /\ opener[o].step # "ready"
    BY <1>1, <1>6 DEF OpenDatabase, Closed
  <2>2. PICK state : Moves(o, state) /\ IsOpener(state, Embedded[o], last)
    BY <1>2, <2>1, GoesOnIs
  <2> QED
    BY <1>2, <1>4, <2>1, <2>2
<1>7. CASE Apply(o)
  <2>1. opener[o].step = "migrating"
    BY <1>7 DEF Apply
  <2>2. PICK k \in 0..last : k < Embedded[o] /\ opener[o].applied = 1..k
    BY <1>1, <2>1, StepTells
  <2>3. k \in Nat /\ Due(o) = k + 1
    BY <1>2, <2>2, MissingIs DEF Due
  <2>4. CASE Applies(k + 1)
    <3>1. k = last
      BY <1>1, <1>2, <2>2, <2>4 DEF Applies
    <3>2. /\ schema' = schema \cup {k + 1} /\ recorded' = recorded \cup {k + 1}
          /\ GoesOn(o, opener[o].applied \cup {k + 1})
      BY <1>7, <2>3, <2>4 DEF Apply
    <3>3. (1..k) \cup {k + 1} = 1..(k + 1)
      BY <2>3
    <3>4. k + 1 \in 0..LastMigration /\ last <= k + 1 /\ k + 1 \in 0..(k + 1) /\ k + 1 \in Nat
      BY <1>2, <2>2, <2>3, <3>1
    <3>5. schema' = 1..(k + 1) /\ recorded' = 1..(k + 1) /\ GoesOn(o, 1..(k + 1))
      BY <1>1, <2>2, <3>1, <3>2, <3>3
    <3>6. PICK state : Moves(o, state) /\ IsOpener(state, Embedded[o], k + 1)
      BY <3>4, <3>5, GoesOnIs
    <3> QED
      BY <1>4, <2>1, <3>4, <3>5, <3>6
  <2>5. CASE ~Applies(k + 1)
    <3>1. Moves(o, Closed) /\ schema' = 1..last /\ recorded' = 1..last
      BY <1>1, <1>7, <2>3, <2>5 DEF Apply
    <3>2. IsOpener(Closed, Embedded[o], last)
      BY DEF IsOpener
    <3> QED
      BY <1>2, <1>4, <2>1, <3>1, <3>2
  <2> QED
    BY <2>4, <2>5
<1> QED
  BY <1>5, <1>6, <1>7 DEF Migrate

LEMMA SchemaPreserved == SchemaInv /\ ServesInv /\ [ServerNext]_<<vars, migrateVars>> => SchemaInv' /\ ServesInv'
<1> SUFFICES ASSUME SchemaInv, ServesInv, [ServerNext]_<<vars, migrateVars>> PROVE SchemaInv' /\ ServesInv'
  OBVIOUS
<1>1. CASE ServerStep
  <2>1. PICK last \in 0..LastMigration :
          /\ schema = 1..last /\ recorded = 1..last
          /\ DOMAIN opener = Opener
          /\ \A x \in Opener : IsOpener(opener[x], Embedded[x], last)
    BY DEF SchemaInv
  <2>2. /\ DOMAIN opener' = Opener
        /\ \A o \in Opener : opener'[o] = IF o \in Process /\ phase[o] # "down" /\ phase'[o] = "down"
                                          THEN Closed ELSE opener[o]
        /\ schema' = schema /\ recorded' = recorded
    BY <1>1 DEF ServerStep
  <2>3. \A o \in Opener : IsOpener(opener'[o], Embedded[o], last)
    BY <2>1, <2>2 DEF IsOpener
  <2>4. \A p \in Process : phase'[p] # "down" => opener'[p].step = "ready"
    <3> SUFFICES ASSUME NEW p \in Process, phase'[p] # "down" PROVE opener'[p].step = "ready"
      OBVIOUS
    <3>1. p \in Opener
      BY OpenerAssumption
    <3>2. opener[p].step = "ready"
      BY <1>1 DEF ServesInv, ServerStep
    <3> QED
      BY <2>2, <3>1, <3>2
  <2> QED
    BY <2>1, <2>2, <2>3, <2>4 DEF SchemaInv, ServesInv
<1>2. CASE \E o \in Opener : OpenerStep(o)
  BY <1>2, OpenerMoves DEF OpenerStep
<1>3. CASE UNCHANGED <<vars, migrateVars>>
  BY <1>3 DEF vars, migrateVars, SchemaInv, ServesInv
<1> QED
  BY <1>1, <1>2, <1>3 DEF ServerNext

\* Whatever is killed or races with whatever else while it migrates: migrations are in force in
\* their order, each with its record; a process that serves has all of its own; and one that has
\* read the records as they are goes on from there.
THEOREM SchemaIsCurrent == ServerSpec => []SchemaCurrent
<1>1. SchemaInv /\ ServesInv => SchemaCurrent
  <2> SUFFICES ASSUME SchemaInv, ServesInv PROVE SchemaCurrent
    OBVIOUS
  <2>1. PICK last \in 0..LastMigration :
          /\ schema = 1..last /\ recorded = 1..last
          /\ \A x \in Opener : IsOpener(opener[x], Embedded[x], last)
    BY DEF SchemaInv
  <2>2. last \in Nat /\ last \in Migration \cup {0}
    BY MigrationsAssumption DEF Migration
  <2>3. InOrder
    BY <2>1, <2>2 DEF InOrder
  <2>4. Openable
    <3> SUFFICES ASSUME NEW o \in Opener, opener[o].step = "migrating", opener[o].applied = recorded
                 PROVE  Applies(Due(o))
      BY DEF Openable
    <3>1. PICK k \in 0..last : k < Embedded[o] /\ opener[o].applied = 1..k
      BY <2>1, StepTells
    <3>2. k \in Nat /\ Due(o) = k + 1
      BY <2>2, <3>1, MissingIs DEF Due
    <3>3. k = last
      <4>1. last \in 1..k \/ last = 0
        BY <2>1, <2>2, <3>1
      <4> QED
        BY <2>2, <3>1, <3>2, <4>1
    <3> QED
      BY <2>1, <2>2, <3>2, <3>3 DEF Applies
  <2>5. ASSUME NEW p \in Process, phase[p] # "down" PROVE 1..Embedded[p] \subseteq schema
    <3>1. p \in Opener /\ opener[p].step = "ready"
      BY <2>5, OpenerAssumption DEF ServesInv
    <3>2. Embedded[p] <= last /\ Embedded[p] \in Nat
      BY <2>1, <3>1, StepTells, MigrationsAssumption
    <3> QED
      BY <2>1, <2>2, <3>2
  <2> QED
    BY <2>3, <2>4, <2>5 DEF SchemaCurrent
<1> QED
  BY <1>1, SchemaInit, SchemaPreserved, PTL DEF ServerSpec

-----------------------------------------------------------------------------
(* Sums.                                                                   *)

\* A set of natural numbers has a least element.
LEMMA LeastNat ==
  ASSUME NEW S \in SUBSET Nat, S # {}
  PROVE  \E m \in S : \A k \in S : m <= k
<1>1. PICK m \in S : \A k \in S : ~(<<k, m>> \in OpToRel(<, Nat))
  BY NatLessThanWellFounded, WFMin
<1>2. \A k \in S : ~(k < m)
  BY <1>1 DEF OpToRel
<1> QED
  BY <1>2

\* A set of natural numbers with 0, and with n + 1 when it has n, is all of Nat.
LEMMA SetInduction ==
  ASSUME NEW S \in SUBSET Nat, 0 \in S, \A n \in S : n + 1 \in S
  PROVE  S = Nat
<1> SUFFICES ASSUME Nat \ S # {} PROVE FALSE
  OBVIOUS
<1>1. PICK m \in Nat \ S : \A k \in Nat \ S : m <= k
  BY LeastNat
<1>2. m # 0 /\ m - 1 \in Nat /\ m - 1 \in S
  BY <1>1
<1> QED
  BY <1>1, <1>2

Some(s) == CHOOSE x \in s : TRUE

\* The partial sums of MapThenSumSet: t[s] is the sum of w over s, for each part s of S.
SumStep(t, s, w) == IF s = {} THEN 0 ELSE w[Some(s)] + t[s \ {Some(s)}]

IsSum(t, S, w) == t = [s \in SUBSET S |-> SumStep(t, s, w)]

PartSums(S, w) == CHOOSE t : IsSum(t, S, w)

AddsUp(t, P, w) == \A s \in P : t[s] = SumStep(t, s, w)

\* t are the partial sums of w over S.
Sums(t, S, w) ==
  IsFiniteSet(S) /\ w \in [S -> Nat] /\ t \in [SUBSET S -> Nat] /\ AddsUp(t, SUBSET S, w)

\* g gives each element of S an element of T of its own, where v is no smaller than w.
Embeds(g, S, w, T, v) ==
  /\ g \in [S -> T] /\ \A x, y \in S : g[x] = g[y] => x = y
  /\ \A x \in S : w[x] <= v[g[x]]

LEMMA SomeIs == \A s : s # {} => Some(s) \in s
  BY DEF Some

\* The parts of S with at most n elements.
Parts(S, n) == {s \in SUBSET S : Cardinality(s) <= n}

LEMMA PartSmaller ==
  ASSUME NEW S, IsFiniteSet(S), NEW n \in Nat, NEW s \in Parts(S, n + 1), NEW x \in s
  PROVE  s \ {x} \in Parts(S, n)
<1>1. IsFiniteSet(s) /\ s \in SUBSET S /\ Cardinality(s) <= n + 1
  BY FS_Subset DEF Parts
<1>2. Cardinality(s \ {x}) = Cardinality(s) - 1 /\ Cardinality(s) \in Nat
  BY <1>1, FS_RemoveElement, FS_CardinalityType
<1> QED
  BY <1>1, <1>2 DEF Parts

LEMMA PartsOfAll ==
  ASSUME NEW S, IsFiniteSet(S)
  PROVE  Cardinality(S) \in Nat /\ Parts(S, Cardinality(S)) = SUBSET S
<1>1. Cardinality(S) \in Nat /\ \A s \in SUBSET S : Cardinality(s) <= Cardinality(S)
  BY FS_Subset, FS_CardinalityType
<1> QED
  BY <1>1 DEF Parts

LEMMA SumExists ==
  ASSUME NEW S, IsFiniteSet(S), NEW w \in [S -> Nat]
  PROVE  \E t \in [SUBSET S -> Nat] : AddsUp(t, SUBSET S, w)
<1> DEFINE A == {n \in Nat : \E t \in [Parts(S, n) -> Nat] : AddsUp(t, Parts(S, n), w)}
<1>1. 0 \in A
  <2>1. PICK t : t = [s \in Parts(S, 0) |-> 0]
    OBVIOUS
  <2>2. \A s \in Parts(S, 0) : s = {}
    <3> SUFFICES ASSUME NEW s \in Parts(S, 0) PROVE s = {}
      OBVIOUS
    <3>1. IsFiniteSet(s) /\ Cardinality(s) <= 0
      BY FS_Subset DEF Parts
    <3>2. Cardinality(s) = 0
      BY <3>1, FS_CardinalityType
    <3> QED
      BY <3>1, <3>2, FS_EmptySet
  <2>3. t \in [Parts(S, 0) -> Nat] /\ AddsUp(t, Parts(S, 0), w)
    BY <2>1, <2>2 DEF AddsUp, SumStep
  <2> QED
    BY <2>3
<1>2. ASSUME NEW n \in A PROVE n + 1 \in A
  <2>1. PICK t \in [Parts(S, n) -> Nat] : AddsUp(t, Parts(S, n), w)
    OBVIOUS
  <2>2. n \in Nat /\ n + 1 \in Nat
    OBVIOUS
  <2>3. PICK u : u = [s \in Parts(S, n + 1) |-> SumStep(t, s, w)]
    OBVIOUS
  <2>4. ASSUME NEW s \in Parts(S, n + 1), s # {}
        PROVE  w[Some(s)] \in Nat /\ s \ {Some(s)} \in Parts(S, n) /\ t[s \ {Some(s)}] \in Nat
    <3>1. PICK x : x = Some(s)
      OBVIOUS
    <3>2. x \in s /\ x \in S
      BY <2>4, <3>1, SomeIs DEF Parts
    <3> QED
      BY <2>1, <2>2, <3>1, <3>2, PartSmaller
  <2>5. u \in [Parts(S, n + 1) -> Nat]
    <3>1. \A s \in Parts(S, n + 1) : SumStep(t, s, w) \in Nat
      BY <2>4 DEF SumStep
    <3> QED
      BY <2>3, <3>1
  <2>6. ASSUME NEW s \in Parts(S, n) PROVE s \in Parts(S, n + 1) /\ u[s] = t[s]
    <3>1. s \in Parts(S, n + 1)
      <4>1. IsFiniteSet(s)
        BY FS_Subset DEF Parts
      <4>2. Cardinality(s) \in Nat
        BY <4>1, FS_CardinalityType
      <4> QED
        BY <2>2, <4>2 DEF Parts
    <3> QED
      BY <2>1, <2>3, <3>1 DEF AddsUp
  <2>7. AddsUp(u, Parts(S, n + 1), w)
    <3> SUFFICES ASSUME NEW s \in Parts(S, n + 1) PROVE u[s] = SumStep(u, s, w)
      BY DEF AddsUp
    <3>1. u[s] = SumStep(t, s, w)
      BY <2>3
    <3>2. s # {} => u[s \ {Some(s)}] = t[s \ {Some(s)}]
      BY <2>4, <2>6
    <3> QED
      BY <3>1, <3>2 DEF SumStep
  <2> QED
    BY <2>2, <2>5, <2>7
<1> HIDE DEF A
<1>3. A = Nat
  <2>1. A \in SUBSET Nat
    BY DEF A
  <2> QED
    BY <1>1, <1>2, <2>1, SetInduction
<1>4. Cardinality(S) \in A /\ Parts(S, Cardinality(S)) = SUBSET S
  BY <1>3, PartsOfAll
<1>5. \E t \in [Parts(S, Cardinality(S)) -> Nat] : AddsUp(t, Parts(S, Cardinality(S)), w)
  BY <1>4 DEF A
<1> QED
  BY <1>4, <1>5

\* The sum that MapThenSumSet takes is one.
LEMMA SumIs ==
  ASSUME NEW S, IsFiniteSet(S), NEW w \in [S -> Nat]
  PROVE  Sums(PartSums(S, w), S, w)
<1>0. PICK t : t = PartSums(S, w)
  OBVIOUS
<1>1. PICK u \in [SUBSET S -> Nat] : AddsUp(u, SUBSET S, w)
  BY SumExists
<1>2. IsSum(u, S, w)
  BY <1>1 DEF IsSum, AddsUp
<1>3. IsSum(t, S, w)
  BY <1>0, <1>2 DEF PartSums
<1>4. AddsUp(t, SUBSET S, w) /\ t = [s \in SUBSET S |-> t[s]]
  BY <1>3 DEF IsSum, AddsUp
<1> DEFINE A == {n \in Nat : \A s \in Parts(S, n) : t[s] = u[s]}
<1>5. 0 \in A
  <2> SUFFICES ASSUME NEW s \in Parts(S, 0) PROVE t[s] = u[s]
    OBVIOUS
  <2>1. IsFiniteSet(s) /\ Cardinality(s) <= 0 /\ s \in SUBSET S
    BY FS_Subset DEF Parts
  <2>2. s = {}
    BY <2>1, FS_EmptySet, FS_CardinalityType
  <2> QED
    BY <1>1, <1>4, <2>1, <2>2 DEF AddsUp, SumStep
<1>6. ASSUME NEW n \in A PROVE n + 1 \in A
  <2> SUFFICES ASSUME NEW s \in Parts(S, n + 1) PROVE t[s] = u[s]
    OBVIOUS
  <2>1. s \in SUBSET S /\ t[s] = SumStep(t, s, w) /\ u[s] = SumStep(u, s, w)
    BY <1>1, <1>4 DEF AddsUp, Parts
  <2>2. s # {} => t[s \ {Some(s)}] = u[s \ {Some(s)}]
    BY SomeIs, PartSmaller
  <2> QED
    BY <2>1, <2>2 DEF SumStep
<1> HIDE DEF A
<1>7. A = Nat
  <2>1. A \in SUBSET Nat
    BY DEF A
  <2> QED
    BY <1>5, <1>6, <2>1, SetInduction
<1>8. \A s \in SUBSET S : t[s] = u[s]
  BY <1>7, PartsOfAll DEF A
<1>9. t \in [SUBSET S -> Nat]
  BY <1>1, <1>4, <1>8
<1> QED
  BY <1>0, <1>4, <1>9 DEF Sums

Splits(t, P, w) == \A s \in P : \A x \in s : t[s] = w[x] + t[s \ {x}]

\* A sum does not depend on the order its elements are taken in.
LEMMA SumSplits ==
  ASSUME NEW S, IsFiniteSet(S), NEW w \in [S -> Nat],
         NEW t \in [SUBSET S -> Nat], AddsUp(t, SUBSET S, w)
  PROVE  Splits(t, SUBSET S, w)
<1> DEFINE A == {n \in Nat : Splits(t, Parts(S, n), w)}
<1>1. 0 \in A
  <2>1. ASSUME NEW s \in Parts(S, 0) PROVE s = {}
    <3>1. IsFiniteSet(s) /\ Cardinality(s) <= 0
      BY FS_Subset DEF Parts
    <3> QED
      BY <3>1, FS_EmptySet, FS_CardinalityType
  <2>2. Splits(t, Parts(S, 0), w)
    BY <2>1 DEF Splits
  <2> QED
    BY <2>2
<1>2. ASSUME NEW n \in A PROVE n + 1 \in A
  <2>0. n \in Nat /\ Splits(t, Parts(S, n), w)
    OBVIOUS
  <2> SUFFICES ASSUME NEW s \in Parts(S, n + 1), NEW x \in s PROVE t[s] = w[x] + t[s \ {x}]
    BY <2>0 DEF Splits
  <2>1. PICK y : y = Some(s)
    OBVIOUS
  <2>2. y \in s /\ s \in SUBSET S /\ t[s] = w[y] + t[s \ {y}]
    BY <2>1, SomeIs DEF AddsUp, SumStep, Parts
  <2>3. CASE x = y
    BY <2>2, <2>3
  <2>4. CASE x # y
    <3>1. s \ {y} \in Parts(S, n) /\ x \in s \ {y} /\ s \ {x} \in Parts(S, n) /\ y \in s \ {x}
      BY <2>0, <2>2, <2>4, PartSmaller
    <3>2. PICK r : r = s \ {x, y}
      OBVIOUS
    <3>3. (s \ {y}) \ {x} = r /\ (s \ {x}) \ {y} = r /\ r \in SUBSET S /\ s \ {x} \in SUBSET S
      BY <2>2, <3>2
    <3>4. t[s \ {y}] = w[x] + t[r] /\ t[s \ {x}] = w[y] + t[r]
      BY <2>0, <3>1, <3>3 DEF Splits
    <3>5. PICK a \in Nat, b \in Nat, c \in Nat : a = w[x] /\ b = w[y] /\ c = t[r]
      BY <2>2, <3>3
    <3>6. t[s] = b + (a + c) /\ t[s \ {x}] = b + c
      BY <2>2, <3>4, <3>5
    <3> QED
      BY <3>5, <3>6
  <2> QED
    BY <2>3, <2>4
<1> HIDE DEF A
<1>3. A = Nat
  <2>1. A \in SUBSET Nat
    BY DEF A
  <2> QED
    BY <1>1, <1>2, <2>1, SetInduction
<1>4. Cardinality(S) \in A /\ Parts(S, Cardinality(S)) = SUBSET S
  BY <1>3, PartsOfAll
<1> QED
  BY <1>4 DEF A

\* A sum is bounded by one over a set that has, for each of its elements, one of its own that
\* is no smaller.
LEMMA SumBound ==
  ASSUME NEW S, NEW w, NEW t, Sums(t, S, w), NEW T, NEW v, NEW u, Sums(u, T, v),
         NEW g, Embeds(g, S, w, T, v)
  PROVE  t[S] <= u[T]
<1> USE DEF Sums, Embeds
<1>a. Splits(t, SUBSET S, w) /\ Splits(u, SUBSET T, v)
  BY SumSplits
<1> DEFINE A == {n \in Nat : \A s \in Parts(S, n) : \A r \in SUBSET T :
                               (\A x \in s : g[x] \in r) => t[s] <= u[r]}
<1>1. 0 \in A
  <2> SUFFICES ASSUME NEW s \in Parts(S, 0), NEW r \in SUBSET T PROVE t[s] <= u[r]
    OBVIOUS
  <2>1. IsFiniteSet(s) /\ Cardinality(s) <= 0 /\ s \in SUBSET S
    BY FS_Subset DEF Parts
  <2>2. s = {}
    BY <2>1, FS_EmptySet, FS_CardinalityType
  <2>3. t[s] = 0
    BY <2>1, <2>2 DEF AddsUp, SumStep
  <2>4. u[r] \in Nat
    OBVIOUS
  <2> QED
    BY <2>3, <2>4
<1>2. ASSUME NEW n \in A PROVE n + 1 \in A
  <2> SUFFICES ASSUME NEW s \in Parts(S, n + 1), NEW r \in SUBSET T, \A x \in s : g[x] \in r
               PROVE  t[s] <= u[r]
    OBVIOUS
  <2>1. s \in SUBSET S
    BY DEF Parts
  <2>2. CASE s = {}
    <3>1. t[s] = 0 /\ u[r] \in Nat
      BY <2>1, <2>2 DEF AddsUp, SumStep
    <3> QED
      BY <3>1
  <2>3. ASSUME NEW x \in s PROVE t[s] <= u[r]
    <3>1. PICK y : y = g[x]
      OBVIOUS
    <3>2. x \in S /\ y \in r /\ y \in T /\ s \ {x} \in SUBSET S /\ r \ {y} \in SUBSET T
      BY <2>1, <3>1
    <3>3. \A z \in s \ {x} : g[z] \in r \ {y}
      BY <2>1, <3>1, <3>2
    <3>4. s \ {x} \in Parts(S, n)
      BY PartSmaller
    <3>5. t[s \ {x}] <= u[r \ {y}]
      BY <3>2, <3>3, <3>4
    <3>6. t[s] = w[x] + t[s \ {x}]
      BY <1>a, <2>1 DEF Splits
    <3>7. u[r] = v[y] + u[r \ {y}]
      BY <1>a, <3>2 DEF Splits
    <3>8. /\ w[x] \in Nat /\ v[y] \in Nat /\ w[x] <= v[y]
          /\ t[s \ {x}] \in Nat /\ u[r \ {y}] \in Nat
      BY <3>1, <3>2
    <3> QED
      BY <3>5, <3>6, <3>7, <3>8
  <2> QED
    BY <2>2, <2>3
<1> HIDE DEF A
<1>3. A = Nat
  <2>1. A \in SUBSET Nat
    BY DEF A
  <2> QED
    BY <1>1, <1>2, <2>1, SetInduction
<1>4. Cardinality(S) \in A /\ Parts(S, Cardinality(S)) = SUBSET S
  BY <1>3, PartsOfAll
<1>5. S \in Parts(S, Cardinality(S)) /\ T \in SUBSET T /\ \A x \in S : g[x] \in T
  BY <1>4
<1> QED
  BY <1>4, <1>5 DEF A

LEMMA SumOfCalls ==
  ASSUME NEW lines, NEW S, S = LatestPerSession(lines), NEW w, w = [r \in S |-> r.calls]
  PROVE  ToolCalls(lines) = PartSums(S, w)[S]
<1>1. ToolCalls(lines) =
        (CHOOSE t : t = [s \in SUBSET S |->
           IF s = {} THEN 0 ELSE (CHOOSE x \in s : TRUE).calls + t[s \ {CHOOSE x \in s : TRUE}]])[S]
  BY Zenon DEF ToolCalls, MapThenSumSet, MapThenFoldSet
<1>2. ASSUME NEW t
      PROVE  IsSum(t, S, w) <=>
               t = [s \in SUBSET S |->
                 IF s = {} THEN 0 ELSE (CHOOSE x \in s : TRUE).calls + t[s \ {CHOOSE x \in s : TRUE}]]
  <2>1. \A s \in SUBSET S : s # {} => w[CHOOSE x \in s : TRUE] = (CHOOSE x \in s : TRUE).calls
    OBVIOUS
  <2> QED
    BY <2>1 DEF IsSum, SumStep, Some
<1>3. PartSums(S, w) =
        CHOOSE t : t = [s \in SUBSET S |->
           IF s = {} THEN 0 ELSE (CHOOSE x \in s : TRUE).calls + t[s \ {CHOOSE x \in s : TRUE}]]
  BY <1>2 DEF PartSums
<1> QED
  BY Zenon, <1>1, <1>3

\* The calls of the connections of a file.
CallsOfConns(f) == MapThenSumSet(LAMBDA c : conns[c].calls, ConnsOf(f))

LEMMA SumOfConns ==
  ASSUME NEW f, NEW C, C = ConnsOf(f), NEW v, v = [c \in C |-> conns[c].calls]
  PROVE  CallsOfConns(f) = PartSums(C, v)[C]
<1>1. CallsOfConns(f) =
        (CHOOSE t : t = [s \in SUBSET C |->
           IF s = {} THEN 0
           ELSE conns[CHOOSE x \in s : TRUE].calls + t[s \ {CHOOSE x \in s : TRUE}]])[C]
  BY Zenon DEF CallsOfConns, MapThenSumSet, MapThenFoldSet
<1>2. ASSUME NEW t
      PROVE  IsSum(t, C, v) <=>
               t = [s \in SUBSET C |->
                 IF s = {} THEN 0
                 ELSE conns[CHOOSE x \in s : TRUE].calls + t[s \ {CHOOSE x \in s : TRUE}]]
  <2>1. \A s \in SUBSET C : s # {} => v[CHOOSE x \in s : TRUE] = conns[CHOOSE x \in s : TRUE].calls
    OBVIOUS
  <2> QED
    BY <2>1 DEF IsSum, SumStep, Some
<1>3. PartSums(C, v) =
        CHOOSE t : t = [s \in SUBSET C |->
           IF s = {} THEN 0
           ELSE conns[CHOOSE x \in s : TRUE].calls + t[s \ {CHOOSE x \in s : TRUE}]]
  BY <1>2 DEF PartSums
<1> QED
  BY Zenon, <1>1, <1>3

\* What records say of connections of their own does not exceed what the connections did.
LEMMA CallsBound ==
  ASSUME NEW f, NEW lines, NEW S, S = LatestPerSession(lines), IsFiniteSet(S), \A r \in S : r.calls \in Nat,
         NEW C, C = ConnsOf(f), IsFiniteSet(C), \A c \in C : conns[c].calls \in Nat,
         NEW g \in [S -> C], \A x, y \in S : g[x] = g[y] => x = y,
         \A r \in S : r.calls <= conns[g[r]].calls
  PROVE  Cardinality(S) <= Cardinality(C) /\ ToolCalls(lines) <= CallsOfConns(f)
<1>1. PICK w, v : w = [r \in S |-> r.calls] /\ v = [c \in C |-> conns[c].calls]
  OBVIOUS
<1>2. w \in [S -> Nat] /\ v \in [C -> Nat] /\ \A r \in S : w[r] <= v[g[r]]
  BY <1>1
<1>3. PICK t, u : t = PartSums(S, w) /\ u = PartSums(C, v)
  OBVIOUS
<1>4. Sums(t, S, w) /\ Sums(u, C, v)
  BY <1>2, <1>3, SumIs
<1>5. Embeds(g, S, w, C, v)
  BY <1>2 DEF Embeds
<1>6. t[S] <= u[C]
  BY <1>4, <1>5, SumBound
<1>7. ToolCalls(lines) = t[S]
  BY <1>1, <1>3, SumOfCalls
<1>8. CallsOfConns(f) = u[C]
  BY <1>1, <1>3, SumOfConns
<1>9. Cardinality(S) <= Cardinality(C)
  <2>1. g \in Injection(S, C)
    BY DEF Injection, IsInjective
  <2> QED
    BY <2>1, FS_Injection
<1> QED
  BY <1>6, <1>7, <1>8, <1>9

-----------------------------------------------------------------------------
(* The ledger: every line of it, and every record on its way there, is of a *)
(* connection, and a connection has one id.                                *)

ConnRow == [proc : Process, transport : Transport, client : Client \cup {NoClient},
            calls : Nat, live : BOOLEAN]

SessionId == (Conn \X {"http"}) \cup (Nat \X {"stdio"})

Row == [id : SessionId, client : Client \cup {NoClient}, transport : Transport,
        calls : Nat, ended : BOOLEAN]

\* at is the second each connection was first seen at, of those that were.
IsClock(at, cs) == DOMAIN at \subseteq 1..Len(cs) /\ \A c \in DOMAIN at : at[c] \in Nat

IdAt(c, t, second) == IF t = "http" THEN <<c, "http">> ELSE <<second, "stdio">>

\* r is a record of connection c.
IsRowOf(r, c, cs, at) ==
  /\ r \in Row
  /\ r.transport = cs[c].transport
  /\ r.client \in {NoClient, cs[c].client}
  /\ r.calls <= cs[c].calls
  /\ r.id = IdAt(c, cs[c].transport, at[c])

\* m is what the registry keeps of connection c.
IsMeta(m, c, cs, at) ==
  /\ m = [id |-> m.id, client |-> m.client, at |-> m.at, calls |-> m.calls]
  /\ m.at = at[c]
  /\ m.id \in {<<>>, IdAt(c, cs[c].transport, at[c])}
  /\ m.client \in {NoClient, cs[c].client}
  /\ m.calls \in Nat /\ m.calls <= cs[c].calls

IsConns(cs, tr) ==
  /\ cs \in Seq(ConnRow) /\ Len(cs) <= MaxConns
  /\ \A c \in 1..Len(cs) : cs[c].transport = tr[cs[c].proc]

\* The entries of process p in the registry, all of its live connections that were seen among
\* them, and the records it has still to append.
IsEntries(p, entries, cs, at) ==
  /\ \A c \in DOMAIN entries : c \in DOMAIN at /\ cs[c].proc = p /\ IsMeta(entries[c], c, cs, at)
  /\ \A c \in DOMAIN at : cs[c].proc = p /\ cs[c].live => c \in DOMAIN entries

IsPending(records, cs, at) ==
  \A c \in DOMAIN records : c \in DOMAIN at /\ IsRowOf(records[c], c, cs, at)

IsRegistry(reg, pend, cs, at) ==
  /\ DOMAIN reg = Process /\ DOMAIN pend = Process
  /\ \A p \in Process : IsEntries(p, reg[p], cs, at) /\ IsPending(pend[p], cs, at)

\* The lines of file f, of connections with an appended record.
IsLines(lines, f, cs, at, ack) ==
  /\ lines \in Seq(Row)
  /\ \A i \in 1..Len(lines) :
       /\ FileName(lines[i]) = f
       /\ \E c \in DOMAIN at : ack[c] # <<>> /\ IsRowOf(lines[i], c, cs, at)

IsAcked(ack, cs, at) ==
  /\ DOMAIN ack = Conn
  /\ \A c \in Conn : ack[c] # <<>> =>
       c \in DOMAIN at /\ Len(ack[c]) = 1 /\ IsRowOf(ack[c][1], c, cs, at)

IsFiles(fs, ts, cs, at, ack) ==
  /\ DOMAIN fs = File /\ DOMAIN ts = File
  /\ \A f \in File : /\ IsLines(fs[f], f, cs, at, ack)
                     /\ ts[f] # <<>> => Len(ts[f]) = 1 /\ IsLines(ts[f][1], f, cs, at, ack)

IsJob(j, cs, at, ack) ==
  \/ j = <<>>
  \/ \E f \in File : j = <<f>>
  \/ \E f \in File : \E lines : j = <<f, lines>> /\ IsLines(lines, f, cs, at, ack)

IsJobs(js, cs, at, ack) == DOMAIN js = Process /\ \A p \in Process : IsJob(js[p], cs, at, ack)

IsLedger(cs, at, reg, pend, ack, fs, ts, js) ==
  /\ IsClock(at, cs)
  /\ IsRegistry(reg, pend, cs, at)
  /\ IsAcked(ack, cs, at)
  /\ IsFiles(fs, ts, cs, at, ack)
  /\ IsJobs(js, cs, at, ack)

IsProcs(ph, td, t) ==
  /\ t \in Nat
  /\ DOMAIN ph = Process /\ DOMAIN td = Process
  /\ \A p \in Process : td[p] \subseteq File

LedgerInv ==
  /\ IsProcs(phase, todo, now)
  /\ transport \in [Process -> Transport] /\ IsConns(conns, transport)
  /\ \E at : IsLedger(conns, at, registry, pending, acked, files, tmp, job)

LEMMA LedgerInit == Init => LedgerInv
<1> SUFFICES ASSUME Init PROVE LedgerInv
  OBVIOUS
<1>1. IsProcs(phase, todo, now) /\ transport \in [Process -> Transport]
  BY DEF Init, IsProcs
<1>2. conns \in Seq(ConnRow) /\ Len(conns) = 0
  BY DEF Init
<1>3. IsConns(conns, transport)
  BY <1>2, SessionLedgerAssumption DEF IsConns
<1>4. PICK at : at = [c \in {} |-> 0]
  OBVIOUS
<1>5. DOMAIN at = {}
  BY <1>4
<1>6. IsClock(at, conns)
  BY <1>5 DEF IsClock
<1>7. IsRegistry(registry, pending, conns, at)
  <2>1. /\ DOMAIN registry = Process /\ DOMAIN pending = Process
        /\ \A p \in Process : registry[p] = <<>> /\ pending[p] = <<>>
    BY DEF Init
  <2>2. DOMAIN <<>> = {}
    OBVIOUS
  <2> QED
    BY <1>5, <2>1, <2>2 DEF IsRegistry, IsEntries, IsPending
<1>8. IsAcked(acked, conns, at) /\ IsJobs(job, conns, at, acked)
  BY DEF Init, IsAcked, IsJobs, IsJob
<1>9. IsFiles(files, tmp, conns, at, acked)
  <2>1. <<>> \in Seq(Row) /\ Len(<<>>) = 0
    OBVIOUS
  <2>2. /\ DOMAIN files = File /\ DOMAIN tmp = File
        /\ \A f \in File : files[f] = <<>> /\ tmp[f] = <<>>
    BY DEF Init
  <2>3. \A f \in File : IsLines(<<>>, f, conns, at, acked)
    BY <2>1 DEF IsLines
  <2> QED
    BY <2>2, <2>3 DEF IsFiles
<1> QED
  BY <1>1, <1>3, <1>6, <1>7, <1>8, <1>9 DEF LedgerInv, IsLedger

-----------------------------------------------------------------------------
(* What stays true when connections are added, do more or end, when more of *)
(* them are seen, and when more records are appended.                      *)

Grown(cs, ds) ==
  /\ Len(cs) <= Len(ds)
  /\ \A c \in 1..Len(cs) :
       /\ ds[c].proc = cs[c].proc /\ ds[c].transport = cs[c].transport
       /\ cs[c].client \in {NoClient, ds[c].client}
       /\ cs[c].calls <= ds[c].calls
       /\ ds[c].live => cs[c].live

Later(at, bt) == DOMAIN at \subseteq DOMAIN bt /\ \A c \in DOMAIN at : bt[c] = at[c]

\* An instance of growth.
Growth(cs, at, ds, bt) ==
  /\ cs \in Seq(ConnRow) /\ ds \in Seq(ConnRow) /\ Grown(cs, ds)
  /\ IsClock(at, cs) /\ Later(at, bt)

LEMMA NoGrowth ==
  ASSUME NEW cs, NEW at, cs \in Seq(ConnRow), IsClock(at, cs)
  PROVE  Growth(cs, at, cs, at)
<1>1. \A c \in 1..Len(cs) : cs[c] \in ConnRow
  OBVIOUS
<1>2. \A c \in 1..Len(cs) : cs[c].calls \in Nat
  BY <1>1 DEF ConnRow
<1>3. Len(cs) \in Nat
  OBVIOUS
<1>4. Grown(cs, cs)
  BY <1>2, <1>3 DEF Grown
<1> QED
  BY <1>4 DEF Growth, Later

LEMMA Grows ==
  ASSUME NEW cs, NEW at, NEW ds, NEW bt, Growth(cs, at, ds, bt), NEW c \in DOMAIN at
  PROVE  /\ c \in DOMAIN bt /\ bt[c] = at[c]
         /\ c \in 1..Len(cs) /\ c \in 1..Len(ds)
         /\ ds[c].proc = cs[c].proc /\ ds[c].transport = cs[c].transport
         /\ cs[c].client \in {NoClient, ds[c].client}
         /\ cs[c].calls \in Nat /\ ds[c].calls \in Nat /\ cs[c].calls <= ds[c].calls
         /\ ds[c].live => cs[c].live
<1>1. c \in 1..Len(cs) /\ c \in DOMAIN bt /\ bt[c] = at[c]
  BY DEF Growth, IsClock, Later
<1>2. c \in 1..Len(ds)
  BY <1>1 DEF Growth, Grown
<1>3. cs[c] \in ConnRow /\ ds[c] \in ConnRow
  BY <1>1, <1>2 DEF Growth
<1>4. cs[c].calls \in Nat /\ ds[c].calls \in Nat
  BY <1>3 DEF ConnRow
<1> QED
  BY <1>1, <1>2, <1>4 DEF Growth, Grown

LEMMA RowStays ==
  ASSUME NEW cs, NEW at, NEW ds, NEW bt, Growth(cs, at, ds, bt), NEW c \in DOMAIN at,
         NEW r, IsRowOf(r, c, cs, at)
  PROVE  c \in DOMAIN bt /\ IsRowOf(r, c, ds, bt)
<1>1. /\ c \in DOMAIN bt /\ bt[c] = at[c]
      /\ ds[c].transport = cs[c].transport
      /\ cs[c].client \in {NoClient, ds[c].client}
      /\ cs[c].calls \in Nat /\ ds[c].calls \in Nat /\ cs[c].calls <= ds[c].calls
  BY Grows
<1>2. r \in Row /\ r.calls <= cs[c].calls
  BY DEF IsRowOf
<1>3. r.calls \in Nat
  BY <1>2 DEF Row
<1>4. r.calls <= ds[c].calls
  BY <1>1, <1>2, <1>3
<1>5. r.client \in {NoClient, ds[c].client} /\ r.transport = ds[c].transport
      /\ r.id = IdAt(c, ds[c].transport, bt[c])
  BY <1>1 DEF IsRowOf
<1> QED
  BY <1>1, <1>2, <1>4, <1>5 DEF IsRowOf

LEMMA MetaStays ==
  ASSUME NEW cs, NEW at, NEW ds, NEW bt, Growth(cs, at, ds, bt), NEW c \in DOMAIN at,
         NEW m, IsMeta(m, c, cs, at)
  PROVE  c \in DOMAIN bt /\ IsMeta(m, c, ds, bt)
<1>1. /\ c \in DOMAIN bt /\ bt[c] = at[c]
      /\ ds[c].transport = cs[c].transport
      /\ cs[c].client \in {NoClient, ds[c].client}
      /\ cs[c].calls \in Nat /\ ds[c].calls \in Nat /\ cs[c].calls <= ds[c].calls
  BY Grows
<1>2. m.calls \in Nat /\ m.calls <= cs[c].calls
  BY DEF IsMeta
<1>3. m.calls <= ds[c].calls
  BY <1>1, <1>2
<1>4. /\ m = [id |-> m.id, client |-> m.client, at |-> m.at, calls |-> m.calls]
      /\ m.at = bt[c]
      /\ m.id \in {<<>>, IdAt(c, ds[c].transport, bt[c])}
      /\ m.client \in {NoClient, ds[c].client}
  BY <1>1 DEF IsMeta
<1> QED
  BY <1>1, <1>2, <1>3, <1>4 DEF IsMeta

MoreAcked(ack, bck) == \A c \in DOMAIN ack : ack[c] # <<>> => bck[c] # <<>>

LEMMA LinesStay ==
  ASSUME NEW cs, NEW at, NEW ds, NEW bt, Growth(cs, at, ds, bt),
         NEW ack, NEW bck, IsAcked(ack, cs, at), MoreAcked(ack, bck),
         IsConns(cs, transport),
         NEW lines, NEW f, IsLines(lines, f, cs, at, ack)
  PROVE  IsLines(lines, f, ds, bt, bck)
<1> SUFFICES ASSUME NEW i \in 1..Len(lines)
             PROVE  \E c \in DOMAIN bt : bck[c] # <<>> /\ IsRowOf(lines[i], c, ds, bt)
  BY DEF IsLines
<1>1. PICK c \in DOMAIN at : ack[c] # <<>> /\ IsRowOf(lines[i], c, cs, at)
  BY DEF IsLines
<1>2. c \in DOMAIN bt /\ IsRowOf(lines[i], c, ds, bt)
  BY <1>1, RowStays
<1>3. c \in Conn
  <2>1. c \in 1..Len(cs) /\ Len(cs) <= MaxConns /\ Len(cs) \in Nat
    BY Grows DEF IsConns
  <2> QED
    BY <2>1, SessionLedgerAssumption DEF Conn
<1>4. bck[c] # <<>>
  BY <1>1, <1>3 DEF MoreAcked, IsAcked
<1> QED
  BY <1>2, <1>4

LEMMA FilesStay ==
  ASSUME NEW cs, NEW at, NEW ds, NEW bt, Growth(cs, at, ds, bt),
         NEW ack, NEW bck, IsAcked(ack, cs, at), MoreAcked(ack, bck),
         IsConns(cs, transport),
         NEW fs, NEW ts, IsFiles(fs, ts, cs, at, ack)
  PROVE  IsFiles(fs, ts, ds, bt, bck)
<1>1. ASSUME NEW f \in File
      PROVE  /\ IsLines(fs[f], f, ds, bt, bck)
             /\ ts[f] # <<>> => Len(ts[f]) = 1 /\ IsLines(ts[f][1], f, ds, bt, bck)
  <2>1. /\ IsLines(fs[f], f, cs, at, ack)
        /\ ts[f] # <<>> => Len(ts[f]) = 1 /\ IsLines(ts[f][1], f, cs, at, ack)
    BY DEF IsFiles
  <2>2. IsLines(fs[f], f, ds, bt, bck)
    BY <2>1, LinesStay
  <2>3. ASSUME ts[f] # <<>> PROVE IsLines(ts[f][1], f, ds, bt, bck)
    BY <2>1, <2>3, LinesStay
  <2> QED
    BY <2>1, <2>2, <2>3
<1> QED
  BY <1>1 DEF IsFiles

LEMMA JobsStay ==
  ASSUME NEW cs, NEW at, NEW ds, NEW bt, Growth(cs, at, ds, bt),
         NEW ack, NEW bck, IsAcked(ack, cs, at), MoreAcked(ack, bck),
         IsConns(cs, transport),
         NEW js, IsJobs(js, cs, at, ack)
  PROVE  IsJobs(js, ds, bt, bck)
<1>1. ASSUME NEW p \in Process PROVE IsJob(js[p], ds, bt, bck)
  <2>1. CASE js[p] = <<>> \/ \E f \in File : js[p] = <<f>>
    BY <2>1 DEF IsJob
  <2>2. ASSUME NEW f \in File, NEW lines, js[p] = <<f, lines>>, IsLines(lines, f, cs, at, ack)
        PROVE  IsJob(js[p], ds, bt, bck)
    <3>1. IsLines(lines, f, ds, bt, bck)
      BY <2>2, LinesStay
    <3> QED
      BY <2>2, <3>1 DEF IsJob
  <2> QED
    BY <2>1, <2>2 DEF IsJobs, IsJob
<1> QED
  BY <1>1 DEF IsJobs

LEMMA AckedStay ==
  ASSUME NEW cs, NEW at, NEW ds, NEW bt, Growth(cs, at, ds, bt), NEW ack, IsAcked(ack, cs, at)
  PROVE  IsAcked(ack, ds, bt) /\ MoreAcked(ack, ack)
<1>1. ASSUME NEW c \in Conn, ack[c] # <<>>
      PROVE  c \in DOMAIN bt /\ Len(ack[c]) = 1 /\ IsRowOf(ack[c][1], c, ds, bt)
  <2>1. c \in DOMAIN at /\ Len(ack[c]) = 1 /\ IsRowOf(ack[c][1], c, cs, at)
    BY <1>1 DEF IsAcked
  <2> QED
    BY <2>1, RowStays
<1> QED
  BY <1>1 DEF IsAcked, MoreAcked

LEMMA PendingStay ==
  ASSUME NEW cs, NEW at, NEW ds, NEW bt, Growth(cs, at, ds, bt), NEW records, IsPending(records, cs, at)
  PROVE  IsPending(records, ds, bt)
<1>1. ASSUME NEW c \in DOMAIN records PROVE c \in DOMAIN bt /\ IsRowOf(records[c], c, ds, bt)
  <2>1. c \in DOMAIN at /\ IsRowOf(records[c], c, cs, at)
    BY DEF IsPending
  <2> QED
    BY <2>1, RowStays
<1> QED
  BY <1>1 DEF IsPending

LEMMA EntriesStay ==
  ASSUME NEW cs, NEW at, NEW ds, NEW bt, Growth(cs, at, ds, bt),
         NEW q \in Process, NEW entries, IsEntries(q, entries, cs, at),
         \A c \in DOMAIN bt \ DOMAIN at : ds[c].proc # q
  PROVE  IsEntries(q, entries, ds, bt)
<1>1. ASSUME NEW c \in DOMAIN entries
      PROVE  c \in DOMAIN bt /\ ds[c].proc = q /\ IsMeta(entries[c], c, ds, bt)
  <2>1. c \in DOMAIN at /\ cs[c].proc = q /\ IsMeta(entries[c], c, cs, at)
    BY DEF IsEntries
  <2>2. ds[c].proc = cs[c].proc
    BY <2>1, Grows
  <2> QED
    BY <2>1, <2>2, MetaStays
<1>2. ASSUME NEW c \in DOMAIN bt, ds[c].proc = q, ds[c].live PROVE c \in DOMAIN entries
  <2>1. c \in DOMAIN at
    BY <1>2
  <2>2. cs[c].proc = q /\ cs[c].live
    BY <1>2, <2>1, Grows
  <2> QED
    BY <2>1, <2>2 DEF IsEntries
<1> QED
  BY <1>1, <1>2 DEF IsEntries

\* Only the part of p changes.
Moved(f, g, p) == DOMAIN g = DOMAIN f /\ \A q \in DOMAIN f : q # p => g[q] = f[q]

\* A step of process p on its entries and its pending records.
LEMMA RegistryMoves ==
  ASSUME NEW cs, NEW at, NEW ds, NEW bt, Growth(cs, at, ds, bt), IsClock(bt, ds),
         IsConns(cs, transport),
         NEW reg, NEW pend, NEW ack, NEW fs, NEW ts, NEW js,
         IsLedger(cs, at, reg, pend, ack, fs, ts, js),
         NEW p \in Process, NEW r, Moved(reg, r, p), IsEntries(p, r[p], ds, bt),
         NEW n, Moved(pend, n, p), IsPending(n[p], ds, bt),
         \A c \in DOMAIN bt \ DOMAIN at : ds[c].proc = p
  PROVE  IsLedger(ds, bt, r, n, ack, fs, ts, js)
<1>1. /\ IsRegistry(reg, pend, cs, at) /\ IsAcked(ack, cs, at)
      /\ IsFiles(fs, ts, cs, at, ack) /\ IsJobs(js, cs, at, ack)
  BY DEF IsLedger
<1>2. IsAcked(ack, ds, bt) /\ MoreAcked(ack, ack)
  BY <1>1, AckedStay
<1>3. IsFiles(fs, ts, ds, bt, ack)
  BY <1>1, <1>2, FilesStay
<1>4. IsJobs(js, ds, bt, ack)
  BY <1>1, <1>2, JobsStay
<1>6. /\ DOMAIN r = Process /\ DOMAIN n = Process
      /\ \A q \in Process : q # p => r[q] = reg[q] /\ n[q] = pend[q]
  BY <1>1 DEF IsRegistry, Moved
<1>7. ASSUME NEW q \in Process PROVE IsEntries(q, r[q], ds, bt) /\ IsPending(n[q], ds, bt)
  <2>1. CASE q = p
    BY <2>1
  <2>2. CASE q # p
    <3>1. IsEntries(q, reg[q], cs, at) /\ IsPending(pend[q], cs, at)
      BY <1>1 DEF IsRegistry
    <3>2. IsEntries(q, reg[q], ds, bt)
      BY <2>2, <3>1, EntriesStay
    <3>3. IsPending(pend[q], ds, bt)
      BY <3>1, PendingStay
    <3> QED
      BY <1>6, <2>2, <3>2, <3>3
  <2> QED
    BY <2>1, <2>2
<1>8. IsRegistry(r, n, ds, bt)
  BY <1>6, <1>7 DEF IsRegistry
<1> QED
  BY <1>2, <1>3, <1>4, <1>8 DEF IsLedger

\* The clock when the connections in S are seen.
Seen(at, S, second) == [c \in DOMAIN at \cup S |-> IF c \in DOMAIN at THEN at[c] ELSE second]

\* bt is such a clock.
SeenFrom(bt, at, S, second, cs) ==
  /\ DOMAIN bt = DOMAIN at \cup S
  /\ \A c \in DOMAIN at : bt[c] = at[c]
  /\ \A c \in S \ DOMAIN at : bt[c] = second
  /\ IsClock(bt, cs)
  /\ Growth(cs, at, cs, bt)

AreConns(S, cs) == S \subseteq 1..Len(cs)

LEMMA SeenIs ==
  ASSUME NEW cs, cs \in Seq(ConnRow), NEW at, IsClock(at, cs),
         NEW S, AreConns(S, cs), NEW second \in Nat, NEW bt, bt = Seen(at, S, second)
  PROVE  SeenFrom(bt, at, S, second, cs)
<1> USE DEF SeenFrom, AreConns
<1>1. /\ DOMAIN bt = DOMAIN at \cup S
      /\ \A c \in DOMAIN at : bt[c] = at[c]
      /\ \A c \in S \ DOMAIN at : bt[c] = second
  BY DEF Seen
<1>2. IsClock(bt, cs)
  BY <1>1 DEF IsClock
<1>3. Growth(cs, at, cs, bt)
  BY <1>1, NoGrowth DEF Growth, Later
<1> QED
  BY <1>1, <1>2, <1>3

LEMMA MetaIs ==
  ASSUME now \in Nat, transport \in [Process -> Transport], IsConns(conns, transport),
         NEW at, IsLedger(conns, at, registry, pending, acked, files, tmp, job),
         NEW p \in Process, NEW S \in SUBSET Live(p), NEW bt, bt = Seen(at, S, now),
         NEW c \in DOMAIN registry[p] \cup S
  PROVE  c \in DOMAIN bt /\ conns[c].proc = p /\ IsMeta(MetaOf(p, c), c, conns, bt)
<1>1. /\ S \subseteq 1..Len(conns) /\ conns \in Seq(ConnRow)
      /\ \A x \in S : conns[x].proc = p /\ conns[x].live
  BY DEF Live, IsConns
<1>2. IsClock(at, conns) /\ IsEntries(p, registry[p], conns, at)
  BY DEF IsLedger, IsRegistry
<1>3. /\ DOMAIN bt = DOMAIN at \cup S
      /\ \A x \in S \ DOMAIN at : bt[x] = now
      /\ Growth(conns, at, conns, bt)
  <2>1. AreConns(S, conns)
    BY <1>1 DEF AreConns
  <2>2. SeenFrom(bt, at, S, now, conns)
    BY <1>1, <1>2, <2>1, SeenIs
  <2> QED
    BY <2>2 DEF SeenFrom
<1>4. CASE c \in DOMAIN registry[p]
  <2>1. c \in DOMAIN at /\ conns[c].proc = p /\ IsMeta(registry[p][c], c, conns, at)
    BY <1>2, <1>4 DEF IsEntries
  <2>2. c \in DOMAIN bt /\ IsMeta(registry[p][c], c, conns, bt)
    BY <1>3, <2>1, MetaStays
  <2> QED
    BY <1>4, <2>1, <2>2 DEF MetaOf
<1>5. CASE c \notin DOMAIN registry[p]
  <2>1. c \in S /\ c \notin DOMAIN at /\ conns[c].proc = p
    BY <1>1, <1>2, <1>5 DEF IsEntries
  <2>2. bt[c] = now /\ conns[c] \in ConnRow
    BY <1>1, <1>3, <2>1
  <2>3. conns[c].calls \in Nat
    BY <2>2 DEF ConnRow
  <2>4. IsMeta([id |-> <<>>, client |-> NoClient, at |-> now, calls |-> 0], c, conns, bt)
    BY <2>2, <2>3 DEF IsMeta
  <2> QED
    BY <1>3, <1>5, <2>1, <2>4 DEF MetaOf, Fresh
<1> QED
  BY <1>4, <1>5

LEMMA RefreshedIs ==
  ASSUME now \in Nat, transport \in [Process -> Transport], IsConns(conns, transport),
         NEW at, IsLedger(conns, at, registry, pending, acked, files, tmp, job),
         NEW p \in Process, NEW S \in SUBSET Live(p), NEW bt, bt = Seen(at, S, now),
         NEW c \in S
  PROVE  /\ c \in DOMAIN bt /\ conns[c].proc = p /\ IsMeta(Refreshed(p, c), c, conns, bt)
         /\ Refreshed(p, c).id = IdAt(c, conns[c].transport, bt[c])
         /\ Refreshed(p, c).client = conns[c].client
<1>1. c \in DOMAIN bt /\ conns[c].proc = p /\ IsMeta(MetaOf(p, c), c, conns, bt)
  BY MetaIs
<1>2. PICK m : m = MetaOf(p, c)
  OBVIOUS
<1>3. PICK r : r = Refreshed(p, c)
  OBVIOUS
<1>4. r = [m EXCEPT !.id = IdOf(p, c, m.at), !.client = conns[c].client]
  BY <1>2, <1>3 DEF Refreshed
<1>5. /\ m = [id |-> m.id, client |-> m.client, at |-> m.at, calls |-> m.calls]
      /\ m.at = bt[c] /\ m.calls \in Nat /\ m.calls <= conns[c].calls
  BY <1>1, <1>2 DEF IsMeta
<1>6. r = [id |-> IdOf(p, c, m.at), client |-> conns[c].client, at |-> m.at, calls |-> m.calls]
  BY <1>4, <1>5
<1>7. IdOf(p, c, m.at) = IdAt(c, conns[c].transport, bt[c])
  <2>1. c \in 1..Len(conns)
    BY DEF Live, IsConns
  <2>2. conns[c].transport = transport[p]
    BY <1>1, <2>1 DEF IsConns
  <2> QED
    BY <1>5, <2>2 DEF IdOf, IdAt
<1>8. /\ r.id = IdAt(c, conns[c].transport, bt[c]) /\ r.client = conns[c].client
      /\ r.at = bt[c] /\ r.calls = m.calls
      /\ r = [id |-> r.id, client |-> r.client, at |-> r.at, calls |-> r.calls]
  BY <1>5, <1>6, <1>7
<1>9. IsMeta(r, c, conns, bt)
  BY <1>5, <1>8 DEF IsMeta
<1> QED
  BY <1>1, <1>3, <1>8, <1>9

\* A step of process p that does not touch what is written.
LEMMA RegistryStep ==
  ASSUME LedgerInv, NEW p \in Process,
         NEW at, IsLedger(conns, at, registry, pending, acked, files, tmp, job),
         NEW bt, Growth(conns, at, conns', bt), IsClock(bt, conns'), IsConns(conns', transport),
         Moved(registry, registry', p), IsEntries(p, registry'[p], conns', bt),
         Moved(pending, pending', p), IsPending(pending'[p], conns', bt),
         \A c \in DOMAIN bt \ DOMAIN at : conns'[c].proc = p,
         IsProcs(phase', todo', now'), UNCHANGED <<transport, job, files, tmp, acked>>
  PROVE  LedgerInv'
<1>1. IsConns(conns, transport)
  BY DEF LedgerInv
<1>2. IsLedger(conns', bt, registry', pending', acked, files, tmp, job)
  BY <1>1, RegistryMoves
<1> QED
  BY <1>2 DEF LedgerInv

\* The type of a connection, after a step on one.
LEMMA ConnMoves ==
  ASSUME IsConns(conns, transport), NEW c \in 1..Len(conns), NEW row \in ConnRow,
         row.proc = conns[c].proc, row.transport = conns[c].transport,
         conns[c].client \in {NoClient, row.client}, conns[c].calls <= row.calls,
         row.live => conns[c].live,
         conns' = [conns EXCEPT ![c] = row]
  PROVE  /\ IsConns(conns', transport) /\ Grown(conns, conns') /\ Len(conns') = Len(conns)
         /\ conns'[c] = row /\ \A d \in 1..Len(conns) : d # c => conns'[d] = conns[d]
<1>1. conns \in Seq(ConnRow) /\ Len(conns) \in Nat /\ Len(conns) <= MaxConns
  BY DEF IsConns
<1>2. /\ conns' \in Seq(ConnRow) /\ Len(conns') = Len(conns)
      /\ conns'[c] = row /\ \A d \in 1..Len(conns) : d # c => conns'[d] = conns[d]
  BY <1>1
<1>3. \A d \in 1..Len(conns) : conns[d].calls \in Nat
  <2>1. \A d \in 1..Len(conns) : conns[d] \in ConnRow
    BY <1>1
  <2> QED
    BY <2>1 DEF ConnRow
<1>4. ASSUME NEW d \in 1..Len(conns)
      PROVE  /\ conns'[d].proc = conns[d].proc /\ conns'[d].transport = conns[d].transport
             /\ conns[d].client \in {NoClient, conns'[d].client}
             /\ conns[d].calls <= conns'[d].calls
             /\ conns'[d].live => conns[d].live
  <2>1. CASE d = c
    BY <1>2, <2>1
  <2>2. CASE d # c
    BY <1>2, <1>3, <2>2
  <2> QED
    BY <2>1, <2>2
<1>5. Grown(conns, conns')
  BY <1>1, <1>2, <1>4 DEF Grown
<1>6. IsConns(conns', transport)
  BY <1>1, <1>2, <1>4 DEF IsConns
<1> QED
  BY <1>2, <1>5, <1>6

LEMMA GrowthIs ==
  ASSUME NEW cs, NEW ds, NEW at, NEW bt, Growth(cs, at, cs, bt), Grown(cs, ds), ds \in Seq(ConnRow),
         IsClock(bt, cs)
  PROVE  Growth(cs, at, ds, bt) /\ IsClock(bt, ds)
<1>1. Growth(cs, at, ds, bt)
  BY DEF Growth
<1>2. Len(cs) \in Nat /\ Len(ds) \in Nat /\ Len(cs) <= Len(ds)
  BY DEF Growth, Grown
<1>3. \A c \in 1..Len(cs) : c \in 1..Len(ds)
  BY <1>2
<1> QED
  BY <1>1, <1>3 DEF IsClock

LEMMA ConnectKeeps ==
  ASSUME LedgerInv, NEW p \in Process, Connect(p)
  PROVE  LedgerInv'
<1>1. PICK at : IsLedger(conns, at, registry, pending, acked, files, tmp, job)
  BY DEF LedgerInv
<1>2. PICK row : row = [proc |-> p, transport |-> transport[p], client |-> NoClient,
                        calls |-> 0, live |-> TRUE]
  OBVIOUS
<1>3. /\ conns' = Append(conns, row) /\ Len(conns) < MaxConns
      /\ UNCHANGED <<now, phase, transport, todo, job, registry, pending, files, tmp, acked>>
  BY <1>2 DEF Connect, procVars
<1>4. /\ conns \in Seq(ConnRow) /\ row \in ConnRow
      /\ \A c \in 1..Len(conns) : conns[c].transport = transport[conns[c].proc]
  BY <1>2 DEF LedgerInv, IsConns, ConnRow
<1>5. /\ conns' \in Seq(ConnRow) /\ Len(conns') = Len(conns) + 1 /\ conns'[Len(conns) + 1] = row
      /\ \A c \in 1..Len(conns) : conns'[c] = conns[c]
  BY <1>3, <1>4
<1>6. Len(conns) \in Nat /\ MaxConns \in Nat
  BY <1>4, SessionLedgerAssumption
<1>7. IsConns(conns', transport)
  <2>1. \A c \in 1..Len(conns') : conns'[c].transport = transport[conns'[c].proc]
    <3> SUFFICES ASSUME NEW c \in 1..Len(conns')
                 PROVE  conns'[c].transport = transport[conns'[c].proc]
      OBVIOUS
    <3>1. CASE c = Len(conns) + 1
      BY <1>2, <1>5, <3>1
    <3>2. CASE c # Len(conns) + 1
      <4>1. c \in 1..Len(conns)
        BY <1>5, <1>6, <3>2
      <4> QED
        BY <1>4, <1>5, <4>1
    <3> QED
      BY <3>1, <3>2
  <2> QED
    BY <1>3, <1>5, <1>6, <2>1 DEF IsConns
<1>8. IsClock(at, conns)
  BY <1>1 DEF IsLedger
<1>9. Growth(conns, at, conns, at)
  BY <1>4, <1>8, NoGrowth
<1>10. Grown(conns, conns')
  <2>1. Grown(conns, conns)
    BY <1>9 DEF Growth
  <2> QED
    BY <1>5, <1>6, <2>1 DEF Grown
<1>11. Growth(conns, at, conns', at) /\ IsClock(at, conns')
  BY <1>5, <1>8, <1>9, <1>10, GrowthIs
<1>12. IsEntries(p, registry[p], conns, at) /\ IsPending(pending[p], conns, at)
  BY <1>1 DEF IsLedger, IsRegistry
<1>13. IsEntries(p, registry'[p], conns', at) /\ IsPending(pending'[p], conns', at)
  BY <1>3, <1>11, <1>12, EntriesStay, PendingStay
<1>14. Moved(registry, registry', p) /\ Moved(pending, pending', p)
  BY <1>3 DEF Moved
<1>15. IsProcs(phase', todo', now')
  BY <1>3 DEF LedgerInv, IsProcs
<1> QED
  BY <1>1, <1>3, <1>7, <1>11, <1>13, <1>14, <1>15, RegistryStep

\* A request of connection c, by which its process sees it.
LEMMA ObserveKeeps ==
  ASSUME LedgerInv, NEW p \in Process, NEW c \in Live(p), NEW call \in BOOLEAN, Observe(p, c, call),
         NEW row \in ConnRow, row.proc = conns[c].proc, row.transport = conns[c].transport,
         conns[c].client \in {NoClient, row.client},
         row.calls = IF call THEN conns[c].calls + 1 ELSE conns[c].calls,
         row.live => conns[c].live,
         conns' = [conns EXCEPT ![c] = row],
         UNCHANGED <<now, phase, transport, todo, job, pending, files, tmp, acked>>
  PROVE  LedgerInv'
<1>1. PICK at : IsLedger(conns, at, registry, pending, acked, files, tmp, job)
  BY DEF LedgerInv
<1>2. /\ now \in Nat /\ transport \in [Process -> Transport] /\ IsConns(conns, transport)
      /\ conns \in Seq(ConnRow) /\ c \in 1..Len(conns) /\ conns[c].proc = p /\ conns[c].live
  BY DEF LedgerInv, IsProcs, IsConns, Live
<1>3. conns[c].calls \in Nat
  <2>1. conns[c] \in ConnRow
    BY <1>2
  <2> QED
    BY <2>1 DEF ConnRow
<1>4. conns[c].calls <= row.calls /\ row.calls \in Nat
  BY <1>3
<1>5. /\ IsConns(conns', transport) /\ Grown(conns, conns') /\ conns'[c] = row
      /\ \A d \in 1..Len(conns) : d # c => conns'[d] = conns[d]
  BY <1>2, <1>4, ConnMoves
<1>6. PICK bt : bt = Seen(at, {c}, now)
  OBVIOUS
<1>7. IsClock(at, conns) /\ IsEntries(p, registry[p], conns, at) /\ IsPending(pending[p], conns, at)
      /\ DOMAIN registry = Process
  BY <1>1 DEF IsLedger, IsRegistry
<1>8. SeenFrom(bt, at, {c}, now, conns)
  <2>1. AreConns({c}, conns)
    BY <1>2 DEF AreConns
  <2> QED
    BY <1>2, <1>6, <1>7, <2>1, SeenIs
<1>9. Growth(conns, at, conns', bt) /\ IsClock(bt, conns')
  <2>1. Growth(conns, at, conns, bt) /\ IsClock(bt, conns) /\ conns' \in Seq(ConnRow)
    BY <1>5, <1>8 DEF SeenFrom, IsConns
  <2> QED
    BY <1>5, <2>1, GrowthIs
<1>11. DOMAIN bt = DOMAIN at \cup {c}
  BY <1>8 DEF SeenFrom
<1>12. PICK m, r : m = Refreshed(p, c) /\ r = [m EXCEPT !.calls = IF call THEN @ + 1 ELSE @]
  OBVIOUS
<1>13. /\ DOMAIN registry'[p] = DOMAIN registry[p] \cup {c}
       /\ registry'[p][c] = r
       /\ \A d \in DOMAIN registry[p] : d # c => registry'[p][d] = registry[p][d]
       /\ Moved(registry, registry', p)
  <2>1. registry' = [registry EXCEPT ![p] = Entered(p, c, r)]
    BY <1>12 DEF Observe
  <2>2. PICK e : e = Entered(p, c, r)
    OBVIOUS
  <2>3. /\ DOMAIN e = DOMAIN registry[p] \cup {c} /\ e[c] = r
        /\ \A d \in DOMAIN registry[p] : d # c => e[d] = registry[p][d]
    BY <2>2 DEF Entered
  <2>4. registry'[p] = e /\ Moved(registry, registry', p)
    BY <1>7, <2>1, <2>2 DEF Moved
  <2> QED
    BY <2>3, <2>4
<1>14. IsMeta(r, c, conns', bt)
  <2>1. c \in DOMAIN bt /\ IsMeta(m, c, conns, bt)
    <3>1. {c} \in SUBSET Live(p) /\ c \in {c}
      OBVIOUS
    <3> QED
      BY <1>1, <1>2, <1>6, <1>12, <3>1, RefreshedIs
  <2>2. /\ m = [id |-> m.id, client |-> m.client, at |-> m.at, calls |-> m.calls]
        /\ m.at = bt[c]
        /\ m.id \in {<<>>, IdAt(c, conns[c].transport, bt[c])}
        /\ m.client \in {NoClient, conns[c].client}
        /\ m.calls \in Nat /\ m.calls <= conns[c].calls
    BY <2>1 DEF IsMeta
  <2>3. /\ r = [id |-> m.id, client |-> m.client, at |-> m.at,
                calls |-> IF call THEN m.calls + 1 ELSE m.calls]
    BY <1>12, <2>2
  <2>4. PICK k \in Nat, l \in Nat : k = m.calls /\ l = conns[c].calls
    BY <1>3, <2>2
  <2>5. r.calls \in Nat /\ r.calls <= row.calls
    BY <2>2, <2>3, <2>4
  <2>6. /\ r = [id |-> r.id, client |-> r.client, at |-> r.at, calls |-> r.calls]
        /\ r.id = m.id /\ r.client = m.client /\ r.at = m.at
    BY <2>3
  <2> QED
    BY <1>5, <2>2, <2>5, <2>6 DEF IsMeta
<1>15. IsEntries(p, registry'[p], conns', bt)
  <2>1. ASSUME NEW d \in DOMAIN registry'[p]
        PROVE  d \in DOMAIN bt /\ conns'[d].proc = p /\ IsMeta(registry'[p][d], d, conns', bt)
    <3>1. CASE d = c
      BY <1>2, <1>5, <1>11, <1>13, <1>14, <3>1
    <3>2. CASE d # c
      <4>1. /\ d \in DOMAIN registry[p] /\ registry'[p][d] = registry[p][d]
            /\ d \in DOMAIN at /\ conns[d].proc = p /\ IsMeta(registry[p][d], d, conns, at)
        BY <1>7, <1>13, <3>2 DEF IsEntries
      <4>2. conns'[d].proc = p /\ d \in DOMAIN bt
        BY <1>9, <4>1, Grows
      <4>3. IsMeta(registry[p][d], d, conns', bt)
        BY <1>9, <4>1, MetaStays
      <4> QED
        BY <4>1, <4>2, <4>3
    <3> QED
      BY <3>1, <3>2
  <2>2. ASSUME NEW d \in DOMAIN bt, conns'[d].proc = p, conns'[d].live PROVE d \in DOMAIN registry'[p]
    <3>1. CASE d = c
      BY <1>13, <3>1
    <3>2. CASE d # c
      <4>1. d \in DOMAIN at
        BY <1>11, <3>2
      <4>2. conns[d].proc = p /\ conns[d].live
        BY <1>9, <2>2, <4>1, Grows
      <4> QED
        BY <1>7, <1>13, <4>1, <4>2 DEF IsEntries
    <3> QED
      BY <3>1, <3>2
  <2> QED
    BY <2>1, <2>2 DEF IsEntries
<1>16. Moved(pending, pending', p) /\ IsPending(pending'[p], conns', bt)
  BY <1>7, <1>9, PendingStay DEF Moved
<1>17. \A d \in DOMAIN bt \ DOMAIN at : conns'[d].proc = p
  BY <1>2, <1>5, <1>11
<1>18. IsProcs(phase', todo', now')
  BY DEF LedgerInv, IsProcs
<1> QED
  BY <1>1, <1>5, <1>9, <1>13, <1>15, <1>16, <1>17, <1>18, RegistryStep

\* A live connection is one of the rows.
LEMMA LiveRow ==
  ASSUME LedgerInv, NEW p, NEW c \in Live(p)
  PROVE  /\ c \in 1..Len(conns) /\ conns[c] \in ConnRow /\ conns[c].proc = p /\ conns[c].live
         /\ conns[c] = [proc |-> conns[c].proc, transport |-> conns[c].transport,
                        client |-> conns[c].client, calls |-> conns[c].calls, live |-> conns[c].live]
         /\ conns[c].calls \in Nat /\ conns[c].proc \in Process /\ conns[c].transport \in Transport
         /\ conns[c].client \in Client \cup {NoClient} /\ conns[c].live \in BOOLEAN
<1>1. c \in 1..Len(conns) /\ conns[c].proc = p /\ conns[c].live /\ conns \in Seq(ConnRow)
  BY DEF LedgerInv, IsConns, Live
<1>2. PICK row : row = conns[c]
  OBVIOUS
<1>3. row \in ConnRow
  BY <1>1, <1>2
<1> QED
  BY <1>1, <1>2, <1>3 DEF ConnRow

LEMMA RequestsKeep ==
  ASSUME LedgerInv, NEW p \in Process, NEW c,
         Initialize(p, c) \/ CallTool(p, c) \/ Request(p, c)
  PROVE  LedgerInv'
<1>1. c \in Live(p)
  BY DEF Initialize, CallTool, Request
<1>2. PICK row : row = conns[c]
  OBVIOUS
<1>3. /\ c \in 1..Len(conns) /\ row \in ConnRow
      /\ row = [proc |-> row.proc, transport |-> row.transport,
                client |-> row.client, calls |-> row.calls, live |-> row.live]
      /\ row.calls \in Nat /\ row.proc \in Process /\ row.transport \in Transport
      /\ row.client \in Client \cup {NoClient} /\ row.live \in BOOLEAN
  BY <1>1, <1>2, LiveRow
<1>4. conns \in Seq(ConnRow)
  BY DEF LedgerInv, IsConns
<1>5. CASE Initialize(p, c)
  <2>1. PICK k \in Client : conns' = [conns EXCEPT ![c].client = k]
    BY <1>5 DEF Initialize
  <2>2. PICK new : new = [row EXCEPT !.client = k]
    OBVIOUS
  <2>3. new = [proc |-> row.proc, transport |-> row.transport, client |-> k,
               calls |-> row.calls, live |-> row.live]
    BY <1>3, <2>2
  <2>4. new \in ConnRow
    BY <1>3, <2>3 DEF ConnRow
  <2>5. conns' = [conns EXCEPT ![c] = new]
    BY <1>2, <2>1, <2>2
  <2>6. /\ row.client = NoClient /\ Observe(p, c, FALSE) /\ FALSE \in BOOLEAN
        /\ UNCHANGED <<now, phase, transport, todo, job, pending, files, tmp, acked>>
    BY <1>2, <1>5 DEF Initialize, procVars
  <2>7. /\ new.proc = conns[c].proc /\ new.transport = conns[c].transport
        /\ conns[c].client \in {NoClient, new.client}
        /\ new.calls = IF FALSE THEN conns[c].calls + 1 ELSE conns[c].calls
        /\ new.live => conns[c].live
    BY <1>2, <2>3, <2>6
  <2> QED
    BY <1>1, <2>4, <2>5, <2>6, <2>7, ObserveKeeps
<1>6. CASE CallTool(p, c)
  <2>1. conns' = [conns EXCEPT ![c].calls = @ + 1]
    BY <1>6 DEF CallTool
  <2>2. PICK new : new = [row EXCEPT !.calls = @ + 1]
    OBVIOUS
  <2>3. new = [proc |-> row.proc, transport |-> row.transport, client |-> row.client,
               calls |-> row.calls + 1, live |-> row.live]
    BY <1>3, <2>2
  <2>4. new \in ConnRow
    BY <1>3, <2>3 DEF ConnRow
  <2>5. conns' = [conns EXCEPT ![c] = new]
    BY <1>2, <2>1, <2>2
  <2>6. /\ Observe(p, c, TRUE) /\ TRUE \in BOOLEAN
        /\ UNCHANGED <<now, phase, transport, todo, job, pending, files, tmp, acked>>
    BY <1>6 DEF CallTool, procVars
  <2>7. /\ new.proc = conns[c].proc /\ new.transport = conns[c].transport
        /\ conns[c].client \in {NoClient, new.client}
        /\ new.calls = IF TRUE THEN conns[c].calls + 1 ELSE conns[c].calls
        /\ new.live => conns[c].live
    BY <1>2, <2>3
  <2> QED
    BY <1>1, <2>4, <2>5, <2>6, <2>7, ObserveKeeps
<1>7. CASE Request(p, c)
  <2>1. /\ Observe(p, c, FALSE) /\ FALSE \in BOOLEAN
        /\ UNCHANGED <<now, phase, transport, todo, job, pending, files, tmp, acked>>
    BY <1>7 DEF Request, procVars
  <2>2. conns' = [conns EXCEPT ![c] = row]
    BY <1>2, <1>3, <1>4, <1>7 DEF Request
  <2>3. /\ row.proc = conns[c].proc /\ row.transport = conns[c].transport
        /\ conns[c].client \in {NoClient, row.client}
        /\ row.calls = IF FALSE THEN conns[c].calls + 1 ELSE conns[c].calls
        /\ row.live => conns[c].live
    BY <1>2
  <2> QED
    BY <1>1, <1>3, <2>1, <2>2, <2>3, ObserveKeeps
<1> QED
  BY <1>5, <1>6, <1>7

LEMMA DisconnectKeeps ==
  ASSUME LedgerInv, NEW p \in Process, NEW c, Disconnect(p, c)
  PROVE  LedgerInv'
<1>1. PICK at : IsLedger(conns, at, registry, pending, acked, files, tmp, job)
  BY DEF LedgerInv
<1>2. c \in Live(p)
  BY DEF Disconnect
<1>3. PICK row, new : row = conns[c] /\ new = [row EXCEPT !.live = FALSE]
  OBVIOUS
<1>4. /\ c \in 1..Len(conns)
      /\ row = [proc |-> row.proc, transport |-> row.transport,
                client |-> row.client, calls |-> row.calls, live |-> row.live]
      /\ row.calls \in Nat /\ row.proc \in Process /\ row.transport \in Transport
      /\ row.client \in Client \cup {NoClient}
  BY <1>2, <1>3, LiveRow
<1>5. new = [proc |-> row.proc, transport |-> row.transport, client |-> row.client,
             calls |-> row.calls, live |-> FALSE]
  BY <1>3, <1>4
<1>6. new \in ConnRow
  BY <1>4, <1>5 DEF ConnRow
<1>7. conns' = [conns EXCEPT ![c] = new]
  BY <1>3 DEF Disconnect
<1>8. IsConns(conns, transport) /\ conns \in Seq(ConnRow)
  BY DEF LedgerInv, IsConns
<1>9. /\ new.proc = conns[c].proc /\ new.transport = conns[c].transport
      /\ conns[c].client \in {NoClient, new.client} /\ conns[c].calls <= new.calls
      /\ new.live => conns[c].live
  BY <1>3, <1>4, <1>5
<1>10. IsConns(conns', transport) /\ Grown(conns, conns')
  BY <1>4, <1>6, <1>7, <1>8, <1>9, ConnMoves
<1>11. IsClock(at, conns) /\ IsEntries(p, registry[p], conns, at) /\ IsPending(pending[p], conns, at)
  BY <1>1 DEF IsLedger, IsRegistry
<1>12. Growth(conns, at, conns', at) /\ IsClock(at, conns')
  BY <1>8, <1>10, <1>11, NoGrowth, GrowthIs DEF IsConns
<1>13. UNCHANGED <<now, transport, todo, job, registry, pending, files, tmp, acked>>
  BY DEF Disconnect
<1>14. IsEntries(p, registry'[p], conns', at) /\ IsPending(pending'[p], conns', at)
  BY <1>11, <1>12, <1>13, EntriesStay, PendingStay
<1>15. Moved(registry, registry', p) /\ Moved(pending, pending', p)
  BY <1>13 DEF Moved
<1>16. IsProcs(phase', todo', now')
  BY <1>13 DEF LedgerInv, IsProcs, Disconnect
<1> QED
  BY <1>1, <1>10, <1>12, <1>13, <1>14, <1>15, <1>16, RegistryStep

\* A record made of an entry that has an id.
LEMMA RecordIs ==
  ASSUME LedgerInv, NEW bt, IsClock(bt, conns), NEW p \in Process,
         NEW c \in DOMAIN bt, conns[c].proc = p,
         NEW m, IsMeta(m, c, conns, bt), m.id # <<>>, NEW ended \in BOOLEAN
  PROVE  IsRowOf(RecordOf(p, m, ended), c, conns, bt)
<1>1. /\ conns \in Seq(ConnRow) /\ Len(conns) <= MaxConns /\ c \in 1..Len(conns)
      /\ conns[c].transport = transport[p] /\ transport[p] \in Transport /\ bt[c] \in Nat
  BY DEF LedgerInv, IsConns, IsClock
<1>2. conns[c] \in ConnRow
  BY <1>1
<1>3. conns[c].client \in Client \cup {NoClient}
  BY <1>2 DEF ConnRow
<1>4. PICK t : t = conns[c].transport
  OBVIOUS
<1>5. /\ m.id = IdAt(c, t, bt[c]) /\ m.client \in {NoClient, conns[c].client}
      /\ m.calls \in Nat /\ m.calls <= conns[c].calls
  BY <1>4 DEF IsMeta
<1>6. c \in Conn
  <2>1. Len(conns) \in Nat /\ MaxConns \in Nat
    BY <1>1, SessionLedgerAssumption
  <2> QED
    BY <1>1, <2>1 DEF Conn
<1>7. m.id \in SessionId
  <2>1. <<c, "http">> \in SessionId /\ <<bt[c], "stdio">> \in SessionId
    BY <1>1, <1>6 DEF SessionId
  <2> QED
    BY <1>5, <2>1 DEF IdAt
<1>8. PICK r : r = [id |-> m.id, client |-> m.client, transport |-> t, calls |-> m.calls, ended |-> ended]
  OBVIOUS
<1>9. r \in Row
  BY <1>1, <1>3, <1>4, <1>5, <1>7, <1>8 DEF Row
<1>10. r = RecordOf(p, m, ended)
  BY <1>1, <1>4, <1>8 DEF RecordOf
<1>11. /\ r.transport = conns[c].transport /\ r.client = m.client /\ r.calls = m.calls /\ r.id = m.id
  BY <1>4, <1>8
<1> QED
  BY <1>4, <1>5, <1>9, <1>10, <1>11 DEF IsRowOf

\* What is known when all the live connections of a process are seen.
SeenAll(bt, at, p) ==
  /\ SeenFrom(bt, at, Live(p), now, conns) /\ bt = Seen(at, Live(p), now)
  /\ \A c \in DOMAIN bt \ DOMAIN at : conns[c].proc = p
  /\ \A c \in DOMAIN bt : conns[c].proc = p /\ conns[c].live => c \in Live(p)

LEMMA AllAreSeen ==
  ASSUME LedgerInv, NEW p \in Process, NEW at, IsClock(at, conns), NEW bt, bt = Seen(at, Live(p), now)
  PROVE  SeenAll(bt, at, p)
<1>1. conns \in Seq(ConnRow) /\ now \in Nat /\ AreConns(Live(p), conns)
  BY DEF LedgerInv, IsConns, IsProcs, AreConns, Live
<1>2. SeenFrom(bt, at, Live(p), now, conns)
  BY <1>1, SeenIs
<1>3. DOMAIN bt \subseteq 1..Len(conns) /\ DOMAIN bt = DOMAIN at \cup Live(p)
  BY <1>2 DEF SeenFrom, IsClock
<1>4. \A c \in DOMAIN bt \ DOMAIN at : conns[c].proc = p
  BY <1>3 DEF Live
<1>5. \A c \in 1..Len(conns) : conns[c].proc = p /\ conns[c].live => c \in Live(p)
  BY <1>1 DEF Live
<1> QED
  BY <1>2, <1>3, <1>4, <1>5 DEF SeenAll

LEMMA SnapshotKeeps ==
  ASSUME LedgerInv, NEW p \in Process, Snapshot(p)
  PROVE  LedgerInv'
<1>1. PICK at : IsLedger(conns, at, registry, pending, acked, files, tmp, job)
  BY DEF LedgerInv
<1>2. IsClock(at, conns) /\ IsPending(pending[p], conns, at) /\ DOMAIN registry = Process
  BY <1>1 DEF IsLedger, IsRegistry
<1>3. PICK bt : bt = Seen(at, Live(p), now)
  OBVIOUS
<1>4. SeenAll(bt, at, p)
  BY <1>2, <1>3, AllAreSeen
<1>5. Growth(conns, at, conns, bt) /\ IsClock(bt, conns) /\ DOMAIN bt = DOMAIN at \cup Live(p)
  BY <1>4 DEF SeenAll, SeenFrom
<1>6. UNCHANGED <<now, conns, phase, transport, todo, job, pending, files, tmp, acked>>
  BY DEF Snapshot, procVars
<1>7. PICK e : e = [c \in DOMAIN registry[p] \cup Live(p) |-> MetaOf(p, c)]
  OBVIOUS
<1>8. registry' = [registry EXCEPT ![p] = e]
  BY <1>7 DEF Snapshot
<1>9. registry'[p] = e /\ Moved(registry, registry', p)
  BY <1>2, <1>8 DEF Moved
<1>10. now \in Nat /\ transport \in [Process -> Transport] /\ IsConns(conns, transport)
  BY DEF LedgerInv, IsProcs
<1>11. ASSUME NEW c \in DOMAIN e
       PROVE  c \in DOMAIN bt /\ conns[c].proc = p /\ IsMeta(e[c], c, conns, bt)
  <2>1. e[c] = MetaOf(p, c) /\ c \in DOMAIN registry[p] \cup Live(p) /\ Live(p) \in SUBSET Live(p)
    BY <1>7
  <2> QED
    BY <1>1, <1>3, <1>10, <2>1, MetaIs
<1>12. \A c \in DOMAIN bt : conns[c].proc = p /\ conns[c].live => c \in DOMAIN e
  BY <1>4, <1>7 DEF SeenAll
<1>13. IsEntries(p, e, conns, bt)
  BY <1>11, <1>12 DEF IsEntries
<1>14. IsPending(pending'[p], conns', bt) /\ Moved(pending, pending', p)
  BY <1>2, <1>5, <1>6, PendingStay DEF Moved
<1>15. IsProcs(phase', todo', now')
  BY <1>6 DEF LedgerInv, IsProcs
<1>16. \A c \in DOMAIN bt \ DOMAIN at : conns'[c].proc = p
  BY <1>4, <1>6 DEF SeenAll
<1> QED
  BY <1>1, <1>5, <1>6, <1>9, <1>10, <1>13, <1>14, <1>15, <1>16, RegistryStep

LEMMA CollectKeeps ==
  ASSUME LedgerInv, NEW p \in Process, Collect(p), DOMAIN phase' = Process
  PROVE  LedgerInv'
<1>1. PICK at : IsLedger(conns, at, registry, pending, acked, files, tmp, job)
  BY DEF LedgerInv
<1>2. /\ IsClock(at, conns) /\ IsEntries(p, registry[p], conns, at)
      /\ DOMAIN registry = Process /\ DOMAIN pending = Process
  BY <1>1 DEF IsLedger, IsRegistry
<1>3. PICK bt : bt = Seen(at, Live(p), now)
  OBVIOUS
<1>4. SeenAll(bt, at, p)
  BY <1>2, <1>3, AllAreSeen
<1>5. Growth(conns, at, conns, bt) /\ IsClock(bt, conns) /\ DOMAIN bt = DOMAIN at \cup Live(p)
  BY <1>4 DEF SeenAll, SeenFrom
<1>6. UNCHANGED <<now, conns, transport, todo, job, files, tmp, acked>>
  BY DEF Collect
<1>7. now \in Nat /\ transport \in [Process -> Transport] /\ IsConns(conns, transport)
  BY DEF LedgerInv, IsProcs
<1>8. PICK e, r : e = Entries(p) /\ r = Records(p)
  OBVIOUS
<1>9. /\ DOMAIN e = DOMAIN registry[p] \cup Live(p)
      /\ \A c \in Live(p) : e[c] = Refreshed(p, c)
      /\ \A c \in DOMAIN registry[p] \ Live(p) : e[c] = registry[p][c]
  BY <1>8 DEF Entries
<1>10. ASSUME NEW c \in DOMAIN e
       PROVE  c \in DOMAIN bt /\ conns[c].proc = p /\ IsMeta(e[c], c, conns, bt)
  <2>1. CASE c \in Live(p)
    <3>1. Live(p) \in SUBSET Live(p) /\ e[c] = Refreshed(p, c)
      BY <1>9, <2>1
    <3> QED
      BY <1>1, <1>3, <1>7, <2>1, <3>1, RefreshedIs
  <2>2. CASE c \notin Live(p)
    <3>1. c \in DOMAIN registry[p] /\ e[c] = registry[p][c]
      BY <1>9, <2>2
    <3>2. c \in DOMAIN at /\ conns[c].proc = p /\ IsMeta(registry[p][c], c, conns, at)
      BY <1>2, <3>1 DEF IsEntries
    <3> QED
      BY <1>5, <3>1, <3>2, MetaStays
  <2> QED
    BY <2>1, <2>2
<1>11. /\ DOMAIN r = {x \in DOMAIN e : e[x].id # <<>>}
       /\ \A c \in DOMAIN r : r[c] = RecordOf(p, e[c], c \notin Live(p))
  BY <1>8 DEF Records
<1>12. IsPending(r, conns, bt)
  <2> SUFFICES ASSUME NEW c \in DOMAIN r PROVE c \in DOMAIN bt /\ IsRowOf(r[c], c, conns, bt)
    BY DEF IsPending
  <2>1. c \in DOMAIN e /\ e[c].id # <<>>
    BY <1>11
  <2>2. PICK ended \in BOOLEAN : ended = (c \notin Live(p))
    OBVIOUS
  <2>3. r[c] = RecordOf(p, e[c], ended)
    BY <1>11, <2>2
  <2>4. c \in DOMAIN bt /\ conns[c].proc = p /\ IsMeta(e[c], c, conns, bt)
    BY <1>10, <2>1
  <2> QED
    BY <1>5, <2>1, <2>3, <2>4, RecordIs
<1>13. /\ registry' = [registry EXCEPT ![p] = Restrict(e, Live(p))]
       /\ pending' = [pending EXCEPT ![p] = r]
  BY <1>8 DEF Collect
<1>14. PICK k : k = Restrict(e, Live(p))
  OBVIOUS
<1>15. DOMAIN k = Live(p) /\ \A c \in Live(p) : k[c] = e[c]
  BY <1>14 DEF Restrict
<1>16. /\ registry'[p] = k /\ Moved(registry, registry', p)
       /\ pending'[p] = r /\ Moved(pending, pending', p)
  BY <1>2, <1>13, <1>14 DEF Moved
<1>17. IsEntries(p, k, conns, bt)
  <2>1. \A c \in DOMAIN k : c \in DOMAIN bt /\ conns[c].proc = p /\ IsMeta(k[c], c, conns, bt)
    BY <1>9, <1>10, <1>15
  <2>2. \A c \in DOMAIN bt : conns[c].proc = p /\ conns[c].live => c \in DOMAIN k
    BY <1>4, <1>15 DEF SeenAll
  <2> QED
    BY <2>1, <2>2 DEF IsEntries
<1>18. IsProcs(phase', todo', now')
  BY <1>6 DEF LedgerInv, IsProcs
<1>19. \A c \in DOMAIN bt \ DOMAIN at : conns'[c].proc = p
  BY <1>4, <1>6 DEF SeenAll
<1> QED
  BY <1>1, <1>5, <1>6, <1>7, <1>12, <1>16, <1>17, <1>18, <1>19, RegistryStep

-----------------------------------------------------------------------------
(* What the lines of a file say.                                           *)

LEMMA MaxIs ==
  ASSUME NEW n \in Nat, NEW A \in SUBSET (1..n), A # {}
  PROVE  Max(A) \in A /\ \A k \in A : k <= Max(A)
<1>1. PICK B : B = {m \in Nat : \A k \in A : k <= m}
  OBVIOUS
<1>2. n \in B /\ B \in SUBSET Nat
  BY <1>1
<1>3. PICK m \in B : \A k \in B : m <= k
  BY <1>2, LeastNat
<1>4. m \in Nat /\ \A k \in A : k \in Nat /\ k <= m
  BY <1>1
<1>5. m \in A
  <2> SUFFICES ASSUME m \notin A PROVE FALSE
    OBVIOUS
  <2>1. PICK x \in A : TRUE
    OBVIOUS
  <2>2. m - 1 \in Nat /\ \A k \in A : k <= m - 1
    BY <1>4, <2>1
  <2>3. m - 1 \in B
    BY <1>1, <2>2
  <2> QED
    BY <1>3, <1>4, <2>3
<1>6. PICK x : x = Max(A)
  OBVIOUS
<1>7. x \in A /\ \A y \in A : x >= y
  BY <1>4, <1>5, <1>6 DEF Max
<1> QED
  BY <1>4, <1>6, <1>7

\* r is the last line of its session, at position i.
LastLine(lines, i, r) ==
  i \in 1..Len(lines) /\ lines[i] = r /\ \A j \in 1..Len(lines) : lines[j].id = r.id => j <= i

LEMMA LatestIs ==
  ASSUME NEW lines, lines \in Seq(Row), NEW j \in 1..Len(lines)
  PROVE  \E i : LastLine(lines, i, Latest(lines, lines[j].id)) /\ lines[i].id = lines[j].id
<1>1. Len(lines) \in Nat /\ DOMAIN lines = 1..Len(lines)
  OBVIOUS
<1>2. PICK id, A : id = lines[j].id /\ A = {i \in DOMAIN lines : lines[i].id = id}
  OBVIOUS
<1>3. A \in SUBSET (1..Len(lines)) /\ j \in A
  BY <1>1, <1>2
<1>4. PICK i : i = Max(A)
  OBVIOUS
<1>5. i \in A /\ \A k \in A : k <= i
  BY <1>1, <1>3, <1>4, MaxIs
<1>6. Latest(lines, id) = lines[i]
  BY <1>2, <1>4 DEF Latest
<1>7. lines[i].id = id /\ i \in 1..Len(lines) /\ \A k \in 1..Len(lines) : lines[k].id = id => k <= i
  BY <1>1, <1>2, <1>5
<1> QED
  BY <1>2, <1>6, <1>7 DEF LastLine

LEMMA LastLineIs ==
  ASSUME NEW lines, lines \in Seq(Row), NEW i, NEW r, LastLine(lines, i, r)
  PROVE  Latest(lines, r.id) = r /\ r \in LatestPerSession(lines) /\ r \in Row
<1>1. i \in 1..Len(lines) /\ lines[i] = r /\ \A j \in 1..Len(lines) : lines[j].id = r.id => j <= i
  BY DEF LastLine
<1>2. PICK x : x = Latest(lines, lines[i].id)
  OBVIOUS
<1>3. PICK k : LastLine(lines, k, x) /\ lines[k].id = lines[i].id
  BY <1>1, <1>2, LatestIs
<1>4. /\ k \in 1..Len(lines) /\ lines[k] = x
      /\ \A j \in 1..Len(lines) : lines[j].id = x.id => j <= k
  BY <1>3 DEF LastLine
<1>5. k = i
  BY <1>1, <1>3, <1>4
<1>6. x = r
  BY <1>1, <1>4, <1>5
<1>7. r \in LatestPerSession(lines)
  <2>1. PICK id, ids : id = lines[i].id /\ ids = {lines[j].id : j \in DOMAIN lines}
    OBVIOUS
  <2>2. i \in DOMAIN lines
    BY <1>1
  <2>3. r = Latest(lines, id)
    BY <1>2, <1>6, <2>1
  <2>4. id \in ids
    BY <2>1, <2>2
  <2>5. LatestPerSession(lines) = {Latest(lines, other) : other \in ids}
    BY <2>1 DEF LatestPerSession
  <2> QED
    BY <2>3, <2>4, <2>5
<1> QED
  BY <1>1, <1>2, <1>6, <1>7

\* The last lines of the sessions of a file.
LEMMA LatestPerSessionIs ==
  ASSUME NEW lines, lines \in Seq(Row)
  PROVE  \A r : r \in LatestPerSession(lines) <=> \E i : LastLine(lines, i, r)
<1>1. ASSUME NEW r \in LatestPerSession(lines) PROVE \E i : LastLine(lines, i, r)
  <2>1. PICK j \in DOMAIN lines : r = Latest(lines, lines[j].id)
    BY DEF LatestPerSession
  <2>2. j \in 1..Len(lines)
    BY <2>1
  <2> QED
    BY <2>1, <2>2, LatestIs
<1>2. ASSUME NEW r, NEW i, LastLine(lines, i, r) PROVE r \in LatestPerSession(lines)
  BY <1>2, LastLineIs
<1> QED
  BY <1>1, <1>2

LEMMA LatestAreRows ==
  ASSUME NEW lines, lines \in Seq(Row)
  PROVE  /\ IsFiniteSet(LatestPerSession(lines)) /\ LatestPerSession(lines) \in SUBSET Row
         /\ \A x, y \in LatestPerSession(lines) : x.id = y.id => x = y
<1>1. ASSUME NEW x \in LatestPerSession(lines), NEW y \in LatestPerSession(lines), x.id = y.id
      PROVE  x = y
  <2>1. PICK i : LastLine(lines, i, x)
    BY LatestPerSessionIs
  <2>2. PICK j : LastLine(lines, j, y)
    BY LatestPerSessionIs
  <2> QED
    BY <1>1, <2>1, <2>2, LastLineIs
<1>2. LatestPerSession(lines) \in SUBSET Row
  BY LatestPerSessionIs, LastLineIs
<1>3. PICK T, f : T = {lines[i] : i \in 1..Len(lines)} /\ f = [i \in 1..Len(lines) |-> lines[i]]
  OBVIOUS
<1>4. f \in Surjection(1..Len(lines), T)
  BY <1>3 DEF Surjection
<1>5. IsFiniteSet(1..Len(lines))
  <2>1. 1 \in Int /\ Len(lines) \in Int
    OBVIOUS
  <2> QED
    BY <2>1, FS_Interval
<1>6. IsFiniteSet(T)
  BY <1>4, <1>5, FS_Surjection
<1>7. LatestPerSession(lines) \in SUBSET T
  BY <1>3, LatestPerSessionIs DEF LastLine
<1> QED
  BY <1>1, <1>2, <1>6, <1>7, FS_Subset

\* An appended line is the last of its session, and leaves the others as they were.
LEMMA AppendedIs ==
  ASSUME NEW lines, lines \in Seq(Row), NEW r \in Row, NEW more, more = Append(lines, r)
  PROVE  /\ more \in Seq(Row) /\ r \in LatestPerSession(more)
         /\ \A x : x.id # r.id => (x \in LatestPerSession(lines) => x \in LatestPerSession(more))
<1>1. /\ more \in Seq(Row) /\ Len(more) = Len(lines) + 1 /\ more[Len(lines) + 1] = r
      /\ \A i \in 1..Len(lines) : more[i] = lines[i]
      /\ Len(lines) \in Nat
  OBVIOUS
<1>2. LastLine(more, Len(more), r)
  BY <1>1 DEF LastLine
<1>3. ASSUME NEW x, x.id # r.id, x \in LatestPerSession(lines)
      PROVE  x \in LatestPerSession(more)
  <2>1. PICK i : LastLine(lines, i, x)
    BY <1>3, LatestPerSessionIs
  <2>2. i \in 1..Len(lines) /\ lines[i] = x /\ \A j \in 1..Len(lines) : lines[j].id = x.id => j <= i
    BY <2>1 DEF LastLine
  <2>3. i \in 1..Len(more) /\ more[i] = x
    BY <1>1, <2>2
  <2>4. ASSUME NEW j \in 1..Len(more), more[j].id = x.id PROVE j <= i
    <3>1. j # Len(lines) + 1
      BY <1>1, <1>3, <2>4
    <3>2. j \in 1..Len(lines)
      BY <1>1, <3>1
    <3> QED
      BY <1>1, <2>2, <2>4, <3>2
  <2>5. LastLine(more, i, x)
    BY <2>3, <2>4 DEF LastLine
  <2> QED
    BY <1>1, <2>5, LatestPerSessionIs
<1> QED
  BY <1>1, <1>2, <1>3, LatestPerSessionIs

\* The sequence of a set of rows.
LEMMA RowsInSeq ==
  ASSUME NEW S \in SUBSET Row, IsFiniteSet(S), NEW s, s = SetToSeq(S)
  PROVE  /\ s \in Seq(Row)
         /\ \A i \in 1..Len(s) : s[i] \in S
         /\ \A i, j \in 1..Len(s) : s[i] = s[j] => i = j
         /\ \A x \in S : \E i \in 1..Len(s) : s[i] = x
<1>1. PICK n \in Nat : n = Cardinality(S)
  BY FS_CardinalityType
<1>2. PICK f : f \in Bijection(1..n, S)
  BY <1>1, FS_CardinalityType DEF ExistsBijection
<1>3. f \in [1..n -> S] /\ IsInjective(f)
  BY <1>2 DEF Bijection, Injection
<1>4. s \in [1..n -> S] /\ IsInjective(s)
  BY <1>1, <1>3 DEF SetToSeq
<1>5. s \in Seq(Row) /\ Len(s) = n /\ s \in [1..n -> S]
  BY <1>4
<1>6. s \in Injection(1..n, S)
  BY <1>4 DEF Injection
<1>7. Cardinality(1..n) = n
  <2>1. 1 \in Int /\ n \in Int
    OBVIOUS
  <2>2. Cardinality(1..n) = IF 1 > n THEN 0 ELSE n - 1 + 1
    BY <2>1, FS_Interval
  <2> QED
    BY <2>2
<1>8. s \in Surjection(1..n, S)
  BY <1>1, <1>6, <1>7, FS_Injection
<1>9. \A x \in S : \E i \in 1..n : s[i] = x
  BY <1>8 DEF Surjection
<1>10. \A i, j \in 1..n : s[i] = s[j] => i = j
  BY <1>4 DEF IsInjective
<1> QED
  BY <1>5, <1>9, <1>10

\* s reads as lines do.
IsCompacted(s, lines) ==
  /\ s \in Seq(Row) /\ LatestPerSession(s) = LatestPerSession(lines)
  /\ \A i \in 1..Len(s) : \E j \in 1..Len(lines) : s[i] = lines[j]

\* What a compaction writes reads as what it has read.
LEMMA CompactedIs ==
  ASSUME NEW lines, lines \in Seq(Row), NEW s, s = SetToSeq(LatestPerSession(lines))
  PROVE  IsCompacted(s, lines)
<1>1. PICK S : S = LatestPerSession(lines)
  OBVIOUS
<1>2. IsFiniteSet(S) /\ S \in SUBSET Row /\ \A x, y \in S : x.id = y.id => x = y
  BY <1>1, LatestAreRows
<1>3. /\ s \in Seq(Row)
      /\ \A i \in 1..Len(s) : s[i] \in S
      /\ \A i, j \in 1..Len(s) : s[i] = s[j] => i = j
      /\ \A x \in S : \E i \in 1..Len(s) : s[i] = x
  BY <1>1, <1>2, RowsInSeq
<1>4. ASSUME NEW x \in S PROVE x \in LatestPerSession(s)
  <2>1. PICK i \in 1..Len(s) : s[i] = x
    BY <1>3
  <2>2. ASSUME NEW j \in 1..Len(s), s[j].id = x.id PROVE j <= i
    <3>1. s[j] = s[i]
      BY <1>2, <1>3, <2>1, <2>2
    <3>2. j = i
      BY <1>3, <3>1
    <3> QED
      BY <3>2
  <2>3. LastLine(s, i, x)
    BY <2>1, <2>2 DEF LastLine
  <2> QED
    BY <1>3, <2>3, LatestPerSessionIs
<1>5. ASSUME NEW x \in LatestPerSession(s) PROVE x \in S
  BY <1>3, <1>5, LatestPerSessionIs DEF LastLine
<1>6. \A i \in 1..Len(s) : \E j \in 1..Len(lines) : s[i] = lines[j]
  BY <1>1, <1>3, LatestPerSessionIs DEF LastLine
<1>7. LatestPerSession(s) = S
  BY <1>4, <1>5
<1> QED
  BY <1>1, <1>3, <1>6, <1>7 DEF IsCompacted

-----------------------------------------------------------------------------
(* The steps that write, and those of a process that starts or ends.       *)

\* What the invariant says of a line that is appended for connection c.
LEMMA PendingIs ==
  ASSUME LedgerInv, NEW at, IsLedger(conns, at, registry, pending, acked, files, tmp, job),
         NEW p \in Process, NEW c \in DOMAIN pending[p]
  PROVE  /\ c \in DOMAIN at /\ c \in Conn /\ IsRowOf(pending[p][c], c, conns, at)
         /\ pending[p][c] \in Row /\ FileName(pending[p][c]) \in File
<1>1. c \in DOMAIN at /\ IsRowOf(pending[p][c], c, conns, at) /\ DOMAIN at \subseteq 1..Len(conns)
  BY DEF IsLedger, IsRegistry, IsPending, IsClock
<1>2. Len(conns) \in Nat /\ Len(conns) <= MaxConns /\ MaxConns \in Nat
  BY SessionLedgerAssumption DEF LedgerInv, IsConns
<1>3. PICK r : r = pending[p][c]
  OBVIOUS
<1>4. r \in Row
  BY <1>1, <1>3 DEF IsRowOf
<1>5. r.client \in Client \cup {NoClient} /\ r.transport \in Transport
  BY <1>4 DEF Row
<1>6. FileName(r) \in File
  BY <1>5 DEF FileName, File
<1> QED
  BY <1>1, <1>2, <1>3, <1>4, <1>6 DEF Conn

\* The records of a flush that are left when one has been written, or is lost.
LEMMA WrittenIs ==
  ASSUME NEW at, IsRegistry(registry, pending, conns, at),
         NEW p \in Process, NEW c, NEW n, n = Written(p, c)
  PROVE  IsRegistry(registry, n, conns, at)
<1>1. DOMAIN pending = Process /\ DOMAIN registry = Process
  BY DEF IsRegistry
<1>2. PICK k : k = Restrict(pending[p], DOMAIN pending[p] \ {c})
  OBVIOUS
<1>3. DOMAIN k = DOMAIN pending[p] \ {c} /\ \A d \in DOMAIN k : k[d] = pending[p][d]
  BY <1>2 DEF Restrict
<1>4. n = [pending EXCEPT ![p] = k]
  BY <1>2 DEF Written
<1>5. DOMAIN n = Process /\ n[p] = k /\ \A q \in Process : q # p => n[q] = pending[q]
  BY <1>1, <1>4
<1>6. IsPending(k, conns, at)
  BY <1>3 DEF IsRegistry, IsPending
<1> QED
  BY <1>1, <1>5, <1>6 DEF IsRegistry

LEMMA AppendKeeps ==
  ASSUME LedgerInv, NEW at, IsLedger(conns, at, registry, pending, acked, files, tmp, job),
         NEW p \in Process, NEW c \in DOMAIN pending[p], AppendRecord(p, c)
  PROVE  /\ IsLedger(conns', at, registry', pending', acked', files', tmp', job')
         /\ LedgerInv'
<1>1. PICK r, f : r = pending[p][c] /\ f = FileName(r)
  OBVIOUS
<1>2. c \in DOMAIN at /\ c \in Conn /\ IsRowOf(r, c, conns, at) /\ r \in Row /\ f \in File
  BY <1>1, PendingIs
<1>3. /\ files' = [files EXCEPT ![f] = Append(files[f], r)]
      /\ acked' = [acked EXCEPT ![c] = <<r>>] /\ pending' = Written(p, c)
      /\ UNCHANGED <<now, conns, phase, transport, todo, job, registry, tmp>>
  BY <1>1 DEF AppendRecord, procVars
<1>4. /\ IsClock(at, conns) /\ IsRegistry(registry, pending, conns, at)
      /\ IsAcked(acked, conns, at) /\ IsFiles(files, tmp, conns, at, acked)
      /\ IsJobs(job, conns, at, acked)
      /\ IsConns(conns, transport) /\ conns \in Seq(ConnRow)
  BY DEF IsLedger, LedgerInv, IsConns
<1>5. IsRegistry(registry, pending', conns, at)
  BY <1>3, <1>4, WrittenIs
<1>6. /\ DOMAIN acked = Conn /\ DOMAIN acked' = Conn /\ acked'[c] = <<r>>
      /\ \A d \in Conn : d # c => acked'[d] = acked[d]
  BY <1>2, <1>3, <1>4 DEF IsAcked
<1>7. MoreAcked(acked, acked')
  BY <1>6 DEF MoreAcked
<1>8. IsAcked(acked', conns, at)
  <2>1. <<r>> # <<>> /\ Len(<<r>>) = 1 /\ <<r>>[1] = r
    OBVIOUS
  <2> QED
    BY <1>2, <1>4, <1>6, <2>1 DEF IsAcked
<1>9. Growth(conns, at, conns, at)
  BY <1>4, NoGrowth
<1>10. IsJobs(job, conns, at, acked') /\ IsFiles(files, tmp, conns, at, acked')
  BY <1>4, <1>7, <1>9, JobsStay, FilesStay
<1>11. PICK lines : lines = files[f]
  OBVIOUS
<1>12. IsLines(lines, f, conns, at, acked') /\ DOMAIN files = File
  BY <1>2, <1>10, <1>11 DEF IsFiles
<1>13. PICK more : more = Append(lines, r)
  OBVIOUS
<1>14. IsLines(more, f, conns, at, acked')
  <2>1. lines \in Seq(Row)
    BY <1>12 DEF IsLines
  <2>2. /\ more \in Seq(Row) /\ Len(more) = Len(lines) + 1 /\ more[Len(lines) + 1] = r
        /\ \A i \in 1..Len(lines) : more[i] = lines[i]
        /\ Len(lines) \in Nat
    BY <1>2, <1>13, <2>1
  <2>3. ASSUME NEW i \in 1..Len(more)
        PROVE  /\ FileName(more[i]) = f
               /\ \E d \in DOMAIN at : acked'[d] # <<>> /\ IsRowOf(more[i], d, conns, at)
    <3>1. CASE i = Len(lines) + 1
      BY <1>1, <1>2, <1>6, <2>2, <3>1
    <3>2. CASE i # Len(lines) + 1
      <4>1. i \in 1..Len(lines) /\ more[i] = lines[i]
        BY <2>2, <3>2
      <4> QED
        BY <1>12, <4>1 DEF IsLines
    <3> QED
      BY <3>1, <3>2
  <2> QED
    BY <2>2, <2>3 DEF IsLines
<1>15. IsFiles(files', tmp, conns, at, acked')
  <2>1. DOMAIN files' = File /\ files'[f] = more /\ \A g \in File : g # f => files'[g] = files[g]
    BY <1>2, <1>3, <1>11, <1>12, <1>13
  <2> QED
    BY <1>10, <1>14, <2>1 DEF IsFiles
<1>16. IsLedger(conns', at, registry', pending', acked', files', tmp', job')
  BY <1>3, <1>4, <1>5, <1>8, <1>10, <1>15 DEF IsLedger
<1>17. IsProcs(phase', todo', now') /\ transport' \in [Process -> Transport]
  BY <1>3 DEF LedgerInv, IsProcs
<1> QED
  BY <1>3, <1>4, <1>16, <1>17 DEF LedgerInv

LEMMA AppendFailsKeeps ==
  ASSUME LedgerInv, NEW at, IsLedger(conns, at, registry, pending, acked, files, tmp, job),
         NEW p \in Process, NEW c \in DOMAIN pending[p], AppendFails(p, c)
  PROVE  LedgerInv'
<1>1. /\ pending' = Written(p, c)
      /\ UNCHANGED <<now, conns, phase, transport, todo, job, registry, files, tmp, acked>>
  BY DEF AppendFails, procVars
<1>2. IsRegistry(registry, pending', conns, at)
  BY <1>1, WrittenIs DEF IsLedger
<1>3. IsLedger(conns', at, registry', pending', acked', files', tmp', job')
  BY <1>1, <1>2 DEF IsLedger
<1> QED
  BY <1>1, <1>3 DEF LedgerInv, IsProcs, IsConns

\* Starting, serving and stopping change no part of the ledger.
LEMMA PhasesKeep ==
  ASSUME LedgerInv, NEW p \in Process, Start(p) \/ Serve(p) \/ Stop(p)
  PROVE  LedgerInv'
<1>1. UNCHANGED <<conns, transport, job, registry, pending, files, tmp, acked>>
  BY DEF Start, Serve, Stop
<1>2. IsProcs(phase', todo', now')
  <2>1. CASE Start(p)
    <3>1. now' \in Nat
      BY <2>1, SessionLedgerAssumption DEF Start, LedgerInv, IsProcs
    <3>2. DOMAIN phase' = Process /\ DOMAIN todo' = Process
      BY <2>1 DEF Start, LedgerInv, IsProcs
    <3>3. \A q \in Process : todo'[q] \subseteq File
      BY <2>1 DEF Start, LedgerInv, IsProcs
    <3> QED
      BY <3>1, <3>2, <3>3 DEF IsProcs
  <2>2. CASE Serve(p) \/ Stop(p)
    BY <2>2 DEF Serve, Stop, LedgerInv, IsProcs
  <2> QED
    BY <2>1, <2>2
<1>3. PICK at : IsLedger(conns, at, registry, pending, acked, files, tmp, job)
  BY DEF LedgerInv
<1>4. IsLedger(conns', at, registry', pending', acked', files', tmp', job')
  BY <1>1, <1>3
<1> QED
  BY <1>1, <1>2, <1>4 DEF LedgerInv

LEMMA CompactReadKeeps ==
  ASSUME LedgerInv, NEW p \in Process, CompactRead(p)
  PROVE  LedgerInv'
<1>1. PICK at : IsLedger(conns, at, registry, pending, acked, files, tmp, job)
  BY DEF LedgerInv
<1>2. IsFiles(files, tmp, conns, at, acked) /\ IsJobs(job, conns, at, acked)
  BY <1>1 DEF IsLedger
<1>3. PICK f \in todo[p] : /\ job' = [job EXCEPT ![p] = <<f, SetToSeq(LatestPerSession(files[f]))>>]
                           /\ todo' = [todo EXCEPT ![p] = todo[p] \ {f}]
  BY DEF CompactRead
<1>4. f \in File /\ DOMAIN todo = Process
  BY DEF LedgerInv, IsProcs
<1>5. PICK lines, s : lines = files[f] /\ s = SetToSeq(LatestPerSession(lines))
  OBVIOUS
<1>6. IsLines(lines, f, conns, at, acked) /\ lines \in Seq(Row)
  BY <1>2, <1>4, <1>5 DEF IsFiles, IsLines
<1>7. IsCompacted(s, lines)
  BY <1>5, <1>6, CompactedIs
<1>8. IsLines(s, f, conns, at, acked)
  BY <1>6, <1>7 DEF IsLines, IsCompacted
<1>9. IsJob(<<f, s>>, conns, at, acked)
  BY <1>4, <1>8 DEF IsJob
<1>10. job' = [job EXCEPT ![p] = <<f, s>>]
  BY <1>3, <1>5
<1>11. IsJobs(job', conns, at, acked)
  BY <1>2, <1>9, <1>10 DEF IsJobs
<1>12. UNCHANGED <<now, conns, phase, transport, registry, pending, files, tmp, acked>>
  BY DEF CompactRead
<1>13. IsProcs(phase', todo', now')
  <2>1. DOMAIN todo' = Process /\ \A q \in Process : todo'[q] \subseteq todo[q]
    BY <1>3, <1>4
  <2> QED
    BY <1>12, <2>1 DEF LedgerInv, IsProcs
<1>14. IsLedger(conns', at, registry', pending', acked', files', tmp', job')
  BY <1>1, <1>11, <1>12 DEF IsLedger
<1> QED
  BY <1>12, <1>13, <1>14 DEF LedgerInv

\* Which job it is.
LEMMA JobIs ==
  ASSUME NEW j, NEW at, IsJob(j, conns, at, acked)
  PROVE  /\ Len(j) = 2 => \E f \in File : \E lines : j = <<f, lines>> /\ IsLines(lines, f, conns, at, acked)
         /\ Len(j) = 1 => \E f \in File : j = <<f>>
<1>1. CASE j = <<>>
  <2>1. Len(<<>>) = 0
    OBVIOUS
  <2> QED
    BY <1>1, <2>1
<1>2. CASE \E f \in File : j = <<f>>
  <2>1. Len(j) = 1
    BY <1>2
  <2> QED
    BY <1>2, <2>1
<1>3. CASE \E f \in File : \E lines : j = <<f, lines>> /\ IsLines(lines, f, conns, at, acked)
  <2>1. Len(j) = 2
    BY <1>3
  <2> QED
    BY <1>3, <2>1
<1>4. \/ j = <<>>
      \/ \E f \in File : j = <<f>>
      \/ \E f \in File : \E lines : j = <<f, lines>> /\ IsLines(lines, f, conns, at, acked)
  BY Zenon DEF IsJob
<1> QED
  BY Zenon, <1>1, <1>2, <1>3, <1>4

LEMMA CompactWriteKeeps ==
  ASSUME LedgerInv, NEW p \in Process, CompactWrite(p)
  PROVE  LedgerInv'
<1>1. PICK at : IsLedger(conns, at, registry, pending, acked, files, tmp, job)
  BY DEF LedgerInv
<1>2. IsFiles(files, tmp, conns, at, acked) /\ IsJobs(job, conns, at, acked)
  BY <1>1 DEF IsLedger
<1>a. PICK f \in File : \E lines : job[p] = <<f, lines>> /\ IsLines(lines, f, conns, at, acked)
  <2>1. Len(job[p]) = 2 /\ IsJob(job[p], conns, at, acked)
    BY <1>2 DEF CompactWrite, IsJobs
  <2> QED
    BY <2>1, JobIs
<1>3. PICK lines : job[p] = <<f, lines>> /\ IsLines(lines, f, conns, at, acked)
  BY <1>a
<1>4. job[p][1] = f /\ job[p][2] = lines
  BY <1>3
<1>5. tmp' = [tmp EXCEPT ![f] = <<lines>>] /\ job' = [job EXCEPT ![p] = <<f>>]
  BY <1>4 DEF CompactWrite
<1>6. IsFiles(files, tmp', conns, at, acked)
  <2>1. DOMAIN tmp' = File /\ tmp'[f] = <<lines>> /\ \A g \in File : g # f => tmp'[g] = tmp[g]
    BY <1>2, <1>5 DEF IsFiles
  <2>2. Len(<<lines>>) = 1 /\ <<lines>>[1] = lines
    OBVIOUS
  <2> QED
    BY <1>2, <1>3, <2>1, <2>2 DEF IsFiles
<1>7. IsJobs(job', conns, at, acked)
  <2>1. IsJob(<<f>>, conns, at, acked)
    BY DEF IsJob
  <2> QED
    BY <1>2, <1>5, <2>1 DEF IsJobs
<1>8. UNCHANGED <<now, conns, phase, transport, todo, registry, pending, files, acked>>
  BY DEF CompactWrite
<1>9. IsLedger(conns', at, registry', pending', acked', files', tmp', job')
  BY <1>1, <1>6, <1>7, <1>8 DEF IsLedger
<1> QED
  BY <1>8, <1>9 DEF LedgerInv

LEMMA CompactRenameKeeps ==
  ASSUME LedgerInv, NEW p \in Process, CompactRename(p)
  PROVE  LedgerInv'
<1>1. PICK at : IsLedger(conns, at, registry, pending, acked, files, tmp, job)
  BY DEF LedgerInv
<1>2. IsFiles(files, tmp, conns, at, acked) /\ IsJobs(job, conns, at, acked)
  BY <1>1 DEF IsLedger
<1>3. PICK f \in File : job[p] = <<f>>
  <2>1. Len(job[p]) = 1 /\ IsJob(job[p], conns, at, acked)
    BY <1>2 DEF CompactRename, IsJobs
  <2> QED
    BY <2>1, JobIs
<1>4. job[p][1] = f
  BY <1>3
<1>5. /\ files' = IF tmp[f] = <<>> THEN files ELSE [files EXCEPT ![f] = tmp[f][1]]
      /\ tmp' = [tmp EXCEPT ![f] = <<>>] /\ job' = [job EXCEPT ![p] = <<>>]
  BY <1>4 DEF CompactRename
<1>6. /\ DOMAIN files' = File /\ DOMAIN tmp' = File
      /\ files'[f] = IF tmp[f] = <<>> THEN files[f] ELSE tmp[f][1]
      /\ tmp'[f] = <<>>
      /\ \A g \in File : g # f => tmp'[g] = tmp[g] /\ files'[g] = files[g]
  BY <1>2, <1>5 DEF IsFiles
<1>7. IsFiles(files', tmp', conns, at, acked)
  <2>1. ASSUME NEW g \in File
        PROVE  /\ IsLines(files'[g], g, conns, at, acked)
               /\ tmp'[g] # <<>> => Len(tmp'[g]) = 1 /\ IsLines(tmp'[g][1], g, conns, at, acked)
    <3>1. /\ IsLines(files[g], g, conns, at, acked)
          /\ tmp[g] # <<>> => Len(tmp[g]) = 1 /\ IsLines(tmp[g][1], g, conns, at, acked)
      BY <1>2 DEF IsFiles
    <3>2. CASE g # f
      BY <1>6, <3>1, <3>2
    <3>3. CASE g = f
      BY <1>6, <3>1, <3>3
    <3> QED
      BY <3>2, <3>3
  <2> QED
    BY <1>6, <2>1 DEF IsFiles
<1>8. IsJobs(job', conns, at, acked)
  <2>1. IsJob(<<>>, conns, at, acked)
    BY DEF IsJob
  <2> QED
    BY <1>2, <1>5, <2>1 DEF IsJobs
<1>9. UNCHANGED <<now, conns, phase, transport, todo, registry, pending, acked>>
  BY DEF CompactRename
<1>10. IsLedger(conns', at, registry', pending', acked', files', tmp', job')
  BY <1>1, <1>7, <1>8, <1>9 DEF IsLedger
<1> QED
  BY <1>9, <1>10 DEF LedgerInv

\* The connections of a process that is gone are.
LEMMA GoneConns ==
  ASSUME LedgerInv, NEW p \in Process, Gone(p)
  PROVE  /\ IsConns(conns', transport) /\ Grown(conns, conns') /\ Len(conns') = Len(conns)
         /\ \A c \in 1..Len(conns) : conns'[c].proc = conns[c].proc /\ (conns[c].proc = p => ~conns'[c].live)
<1>1. conns \in Seq(ConnRow) /\ Len(conns) \in Nat /\ Len(conns) <= MaxConns /\ DOMAIN conns = 1..Len(conns)
      /\ \A c \in 1..Len(conns) : conns[c].transport = transport[conns[c].proc]
  BY DEF LedgerInv, IsConns
<1>2. conns' = [c \in 1..Len(conns) |->
        IF conns[c].proc = p THEN [conns[c] EXCEPT !.live = FALSE] ELSE conns[c]]
  BY <1>1 DEF Gone
<1>3. ASSUME NEW c \in 1..Len(conns)
      PROVE  /\ conns'[c] \in ConnRow
             /\ conns'[c].proc = conns[c].proc /\ conns'[c].transport = conns[c].transport
             /\ conns'[c].client = conns[c].client /\ conns'[c].calls = conns[c].calls
             /\ conns[c].calls \in Nat
             /\ conns[c].proc = p => ~conns'[c].live
             /\ conns'[c].live => conns[c].live
  <2>1. PICK row, new : row = conns[c] /\ new = [row EXCEPT !.live = FALSE]
    OBVIOUS
  <2>2. row \in ConnRow
    BY <1>1, <2>1
  <2>3. /\ row = [proc |-> row.proc, transport |-> row.transport,
                  client |-> row.client, calls |-> row.calls, live |-> row.live]
        /\ row.calls \in Nat /\ row.proc \in Process /\ row.transport \in Transport
        /\ row.client \in Client \cup {NoClient} /\ row.live \in BOOLEAN
    BY <2>2 DEF ConnRow
  <2>4. new = [proc |-> row.proc, transport |-> row.transport, client |-> row.client,
               calls |-> row.calls, live |-> FALSE]
    BY <2>1, <2>3
  <2>5. new \in ConnRow
    BY <2>3, <2>4 DEF ConnRow
  <2>6. conns'[c] = IF row.proc = p THEN new ELSE row
    BY <1>2, <2>1
  <2>7. CASE row.proc = p
    BY <2>1, <2>3, <2>4, <2>5, <2>6, <2>7
  <2>8. CASE row.proc # p
    BY <2>1, <2>2, <2>3, <2>6, <2>8
  <2> QED
    BY <2>7, <2>8
<1>4. conns' \in Seq(ConnRow) /\ Len(conns') = Len(conns)
  <2>1. conns' \in [1..Len(conns) -> ConnRow]
    BY <1>2, <1>3
  <2> QED
    BY <1>1, <2>1
<1>5. IsConns(conns', transport)
  BY <1>1, <1>3, <1>4 DEF IsConns
<1>6. Grown(conns, conns')
  BY <1>1, <1>3, <1>4 DEF Grown
<1> QED
  BY <1>3, <1>4, <1>5, <1>6

LEMMA GoneKeeps ==
  ASSUME LedgerInv, NEW p \in Process, Gone(p)
  PROVE  LedgerInv'
<1>1. PICK at : IsLedger(conns, at, registry, pending, acked, files, tmp, job)
  BY DEF LedgerInv
<1>2. /\ IsClock(at, conns) /\ IsRegistry(registry, pending, conns, at)
      /\ IsAcked(acked, conns, at) /\ IsFiles(files, tmp, conns, at, acked)
      /\ IsJobs(job, conns, at, acked) /\ IsConns(conns, transport) /\ conns \in Seq(ConnRow)
  BY <1>1 DEF IsLedger, LedgerInv, IsConns
<1>3. /\ IsConns(conns', transport) /\ Grown(conns, conns') /\ Len(conns') = Len(conns)
      /\ \A c \in 1..Len(conns) : conns'[c].proc = conns[c].proc /\ (conns[c].proc = p => ~conns'[c].live)
  BY GoneConns
<1>4. Growth(conns, at, conns', at) /\ IsClock(at, conns')
  <2>1. Growth(conns, at, conns, at) /\ conns' \in Seq(ConnRow)
    BY <1>2, <1>3, NoGrowth DEF IsConns
  <2> QED
    BY <1>2, <1>3, <2>1, GrowthIs
<1>5. /\ registry' = [registry EXCEPT ![p] = <<>>] /\ pending' = [pending EXCEPT ![p] = <<>>]
      /\ job' = [job EXCEPT ![p] = <<>>]
      /\ tmp' = [f \in File |-> IF \E q \in Process \ {p} : job[q] = <<f>> THEN tmp[f] ELSE <<>>]
      /\ phase' = [phase EXCEPT ![p] = "down"] /\ todo' = [todo EXCEPT ![p] = {}]
      /\ UNCHANGED <<now, transport, files, acked>>
  BY DEF Gone
<1>6. IsAcked(acked, conns', at) /\ MoreAcked(acked, acked)
  BY <1>2, <1>4, AckedStay
<1>7. IsFiles(files, tmp', conns', at, acked)
  <2>1. IsFiles(files, tmp, conns', at, acked)
    BY <1>2, <1>4, <1>6, FilesStay
  <2>2. DOMAIN tmp' = File /\ \A f \in File : tmp'[f] = tmp[f] \/ tmp'[f] = <<>>
    BY <1>5
  <2> QED
    BY <2>1, <2>2 DEF IsFiles
<1>8. IsJobs(job', conns', at, acked)
  <2>1. IsJobs(job, conns', at, acked)
    BY <1>2, <1>4, <1>6, JobsStay
  <2>2. IsJob(<<>>, conns', at, acked)
    BY DEF IsJob
  <2> QED
    BY <1>5, <2>1, <2>2 DEF IsJobs
<1>9. IsRegistry(registry', pending', conns', at)
  <2>1. /\ DOMAIN registry' = Process /\ DOMAIN pending' = Process
        /\ registry'[p] = <<>> /\ pending'[p] = <<>>
        /\ \A q \in Process : q # p => registry'[q] = registry[q] /\ pending'[q] = pending[q]
    BY <1>2, <1>5 DEF IsRegistry
  <2>2. ASSUME NEW q \in Process
        PROVE  IsEntries(q, registry'[q], conns', at) /\ IsPending(pending'[q], conns', at)
    <3>1. CASE q = p
      <4>1. DOMAIN registry'[q] = {} /\ DOMAIN pending'[q] = {}
        BY <2>1, <3>1
      <4>2. \A c \in DOMAIN at : ~(conns'[c].proc = q /\ conns'[c].live)
        BY <1>2, <1>3, <3>1 DEF IsClock
      <4> QED
        BY <4>1, <4>2 DEF IsEntries, IsPending
    <3>2. CASE q # p
      <4>1. IsEntries(q, registry[q], conns, at) /\ IsPending(pending[q], conns, at)
        BY <1>2 DEF IsRegistry
      <4>2. \A c \in DOMAIN at \ DOMAIN at : conns'[c].proc # q
        OBVIOUS
      <4>3. IsEntries(q, registry[q], conns', at)
        BY <1>4, <4>1, <4>2, EntriesStay
      <4>4. IsPending(pending[q], conns', at)
        BY <1>4, <4>1, PendingStay
      <4> QED
        BY <2>1, <3>2, <4>3, <4>4
    <3> QED
      BY <3>1, <3>2
  <2> QED
    BY <2>1, <2>2 DEF IsRegistry
<1>10. IsLedger(conns', at, registry', pending', acked', files', tmp', job')
  BY <1>4, <1>5, <1>6, <1>7, <1>8, <1>9 DEF IsLedger
<1>11. IsProcs(phase', todo', now')
  <2>1. /\ DOMAIN phase' = Process /\ DOMAIN todo' = Process
        /\ \A q \in Process : todo'[q] \in {todo[q], {}}
    BY <1>5 DEF LedgerInv, IsProcs
  <2> QED
    BY <1>5, <2>1 DEF LedgerInv, IsProcs
<1> QED
  BY <1>3, <1>5, <1>10, <1>11 DEF LedgerInv

LEMMA LedgerPreserved == LedgerInv /\ [Next]_vars => LedgerInv'
<1> SUFFICES ASSUME LedgerInv, [Next]_vars PROVE LedgerInv'
  OBVIOUS
<1>1. CASE UNCHANGED vars
  BY <1>1 DEF vars, procVars, LedgerInv, IsProcs, IsConns
<1>2. ASSUME NEW p \in Process,
             \/ Start(p) \/ CompactRead(p) \/ CompactWrite(p) \/ CompactRename(p) \/ Serve(p)
             \/ Connect(p) \/ Snapshot(p) \/ Flush(p) \/ FinalFlush(p)
             \/ Stop(p) \/ Exit(p) \/ Crash(p)
      PROVE  LedgerInv'
  <2>1. CASE Flush(p) \/ FinalFlush(p)
    <3>1. Collect(p) /\ DOMAIN phase' = Process
      BY <2>1 DEF Flush, FinalFlush, LedgerInv, IsProcs
    <3> QED
      BY <3>1, CollectKeeps
  <2>2. CASE Exit(p) \/ Crash(p)
    BY <2>2, GoneKeeps DEF Exit, Crash
  <2>3. CASE Start(p) \/ Serve(p) \/ Stop(p)
    BY <2>3, PhasesKeep
  <2>4. CASE CompactRead(p)
    BY <2>4, CompactReadKeeps
  <2>5. CASE CompactWrite(p)
    BY <2>5, CompactWriteKeeps
  <2>6. CASE CompactRename(p)
    BY <2>6, CompactRenameKeeps
  <2>7. CASE Connect(p)
    BY <2>7, ConnectKeeps
  <2>8. CASE Snapshot(p)
    BY <2>8, SnapshotKeeps
  <2> QED
    BY <1>2, <2>1, <2>2, <2>3, <2>4, <2>5, <2>6, <2>7, <2>8
<1>3. ASSUME NEW p \in Process, NEW c \in DOMAIN conns,
             Initialize(p, c) \/ CallTool(p, c) \/ Request(p, c) \/ Disconnect(p, c)
      PROVE  LedgerInv'
  BY <1>3, RequestsKeep, DisconnectKeeps
<1>4. ASSUME NEW p \in Process, NEW c \in DOMAIN pending[p], AppendRecord(p, c) \/ AppendFails(p, c)
      PROVE  LedgerInv'
  <2>1. PICK at : IsLedger(conns, at, registry, pending, acked, files, tmp, job)
    BY DEF LedgerInv
  <2> QED
    BY <1>4, <2>1, AppendKeeps, AppendFailsKeeps
<1> QED
  BY <1>1, <1>2, <1>3, <1>4 DEF Next

\* A step of the server is one of the ledger, or none.
LEMMA ServerSteps == [ServerNext]_<<vars, migrateVars>> => [Next]_vars
  BY DEF ServerNext, ServerStep, OpenerStep, vars, migrateVars

\* Each record of S is of a connection of its own in C, that made no fewer calls.
HasConns(S, C) == \E g \in [S -> C] : /\ \A x, y \in S : g[x] = g[y] => x = y
                                      /\ \A r \in S : r.calls <= conns[g[r]].calls

\* The last lines of a file are of its connections.
LEMMA LinesAreOfConns ==
  ASSUME LedgerInv, NEW f \in Client \X Transport, NEW lines, lines = files[f],
         NEW S, S = LatestPerSession(lines), NEW C, C = ConnsOf(f)
  PROVE  /\ IsFiniteSet(S) /\ \A r \in S : r.calls \in Nat
         /\ HasConns(S, C)
<1>1. PICK at : IsLedger(conns, at, registry, pending, acked, files, tmp, job)
  BY DEF LedgerInv
<1>2. f \in File /\ f = <<f[1], f[2]>> /\ f[1] # NoClient
  BY SessionLedgerAssumption DEF File
<1>3. IsLines(lines, f, conns, at, acked) /\ lines \in Seq(Row)
  BY <1>1, <1>2 DEF IsLedger, IsFiles, IsLines
<1>4. IsFiniteSet(S) /\ S \in SUBSET Row /\ \A x, y \in S : x.id = y.id => x = y
  BY <1>3, LatestAreRows
<1>5. \A r \in S : r.calls \in Nat
  BY <1>4 DEF Row
<1>6. ASSUME NEW r \in S
      PROVE  \E c \in C : IsRowOf(r, c, conns, at)
  <2>1. PICK i \in 1..Len(lines) : lines[i] = r
    BY <1>3, LatestPerSessionIs DEF LastLine
  <2>2. PICK c \in DOMAIN at : IsRowOf(r, c, conns, at) /\ FileName(r) = f
    BY <1>3, <2>1 DEF IsLines
  <2>3. c \in DOMAIN conns
    BY <1>1 DEF IsLedger, IsClock, LedgerInv, IsConns
  <2>4. r.client = f[1] /\ r.transport = f[2]
    BY <1>2, <2>2 DEF FileName
  <2>5. conns[c].client = f[1] /\ conns[c].transport = f[2]
    BY <1>2, <2>2, <2>4 DEF IsRowOf
  <2>6. c \in C
    BY <1>2, <2>3, <2>5 DEF ConnsOf
  <2> QED
    BY <2>2, <2>6
<1>7. PICK g : g = [r \in S |-> CHOOSE c \in C : IsRowOf(r, c, conns, at)]
  OBVIOUS
<1>8. \A r \in S : g[r] \in C /\ IsRowOf(r, g[r], conns, at)
  BY <1>6, <1>7
<1>9. g \in [S -> C]
  BY <1>7, <1>8
<1>10. \A r \in S : r.calls <= conns[g[r]].calls
  BY <1>8 DEF IsRowOf
<1>11. ASSUME NEW x \in S, NEW y \in S, g[x] = g[y] PROVE x = y
  <2>1. PICK c : c = g[x]
    OBVIOUS
  <2>2. x.id = IdAt(c, conns[c].transport, at[c]) /\ y.id = IdAt(c, conns[c].transport, at[c])
    BY <1>8, <1>11, <2>1 DEF IsRowOf
  <2> QED
    BY <1>4, <2>2
<1> QED
  BY <1>4, <1>5, <1>9, <1>10, <1>11 DEF HasConns

\* The history of a client never counts a connection twice, nor a tool call that was not made:
\* for any number of processes that append to a file and rewrite it.
THEOREM HistoryNotDoubled == ServerSpec => []NeverDoubleCounts
<1>1. LedgerInv => NeverDoubleCounts
  <2> SUFFICES ASSUME LedgerInv, NEW f \in Client \X Transport
               PROVE  Sessions(files[f]) <= Cardinality(ConnsOf(f)) /\ ToolCalls(files[f]) <= CallsOfConns(f)
    BY DEF NeverDoubleCounts, CallsOfConns
  <2>1. PICK S, C, lines : lines = files[f] /\ S = LatestPerSession(lines) /\ C = ConnsOf(f)
    OBVIOUS
  <2>2. IsFiniteSet(S) /\ \A r \in S : r.calls \in Nat
    BY <2>1, LinesAreOfConns
  <2>3. PICK g \in [S -> C] : /\ \A x, y \in S : g[x] = g[y] => x = y
                              /\ \A r \in S : r.calls <= conns[g[r]].calls
    <3>1. HasConns(S, C)
      BY <2>1, LinesAreOfConns
    <3> QED
      BY <3>1 DEF HasConns
  <2>4. IsFiniteSet(C) /\ \A c \in C : conns[c].calls \in Nat
    <3>1. conns \in Seq(ConnRow) /\ DOMAIN conns = 1..Len(conns)
      BY DEF LedgerInv, IsConns
    <3>2. 1 \in Int /\ Len(conns) \in Int
      BY <3>1
    <3>3. IsFiniteSet(1..Len(conns))
      BY <3>2, FS_Interval
    <3>4. C \in SUBSET (1..Len(conns))
      BY <2>1, <3>1 DEF ConnsOf
    <3>5. \A c \in C : conns[c] \in ConnRow
      BY <3>1, <3>4
    <3> QED
      BY <3>3, <3>4, <3>5, FS_Subset DEF ConnRow
  <2>5. Cardinality(S) <= Cardinality(C) /\ ToolCalls(lines) <= CallsOfConns(f)
    BY <2>1, <2>2, <2>3, <2>4, CallsBound
  <2> QED
    BY <2>1, <2>5 DEF Sessions
<1>2. ServerInit => LedgerInv
  BY LedgerInit DEF ServerInit
<1>3. LedgerInv /\ [ServerNext]_<<vars, migrateVars>> => LedgerInv'
  BY ServerSteps, LedgerPreserved
<1> QED
  BY <1>1, <1>2, <1>3, PTL DEF ServerSpec

-----------------------------------------------------------------------------
(* A checkpoint is kept, while the workspace has one process at a time.     *)

\* No process starts before the one before it is gone.
OneServes == \A p, q \in Process : phase[p] # "down" /\ phase[q] # "down" => p = q

\* Only a process that serves has records to append, only one that starts a file to compact.
Quiet ==
  \A p \in Process : /\ DOMAIN pending[p] # {} => phase[p] \in {"up", "stopping", "flushed"}
                     /\ job[p] # <<>> => phase[p] = "starting"

\* What a compaction has read, and what it has written, say what the file says.
ReadsAs(j, fs, ts) ==
  \A f \in File : /\ \A lines : j = <<f, lines>> => LatestPerSession(lines) = LatestPerSession(fs[f])
                  /\ j = <<f>> => ts[f] # <<>> /\ LatestPerSession(ts[f][1]) = LatestPerSession(fs[f])

JobsRead == \A p \in Process : ReadsAs(job[p], files, tmp)

\* The last record of a connection is the last line of its session.
KeptFor(c, ack, fs) == ack[c][1] \in LatestPerSession(fs[FileName(ack[c][1])])

IsAlone(c, D, ack) == \A d \in D \ {c} : ack[c] # <<>> /\ ack[d] # <<>> => ack[c][1].id # ack[d][1].id

Kept(D, ack, fs) == \A c \in D : ack[c] # <<>> /\ IsAlone(c, D, ack) => KeptFor(c, ack, fs)

\* The inductive strengthening of CheckpointKept.
KeptInv == Quiet /\ JobsRead /\ Kept(DOMAIN conns, acked, files)

\* An acked connection.
LEMMA AckedIs ==
  ASSUME LedgerInv, NEW at, IsLedger(conns, at, registry, pending, acked, files, tmp, job),
         NEW c \in Conn, acked[c] # <<>>
  PROVE  /\ c \in DOMAIN at /\ c \in DOMAIN conns /\ IsRowOf(acked[c][1], c, conns, at)
         /\ acked[c][1] \in Row /\ FileName(acked[c][1]) \in File
<1>1. c \in DOMAIN at /\ IsRowOf(acked[c][1], c, conns, at)
  BY DEF IsLedger, IsAcked
<1>2. c \in DOMAIN conns
  BY <1>1 DEF IsLedger, IsClock, LedgerInv, IsConns
<1>3. PICK r : r = acked[c][1]
  OBVIOUS
<1>4. r \in Row
  BY <1>1, <1>3 DEF IsRowOf
<1>5. r.client \in Client \cup {NoClient} /\ r.transport \in Transport
  BY <1>4 DEF Row
<1>6. FileName(r) \in File
  BY <1>5 DEF FileName, File
<1> QED
  BY <1>1, <1>2, <1>3, <1>4, <1>6

LEMMA ConnsAreConn ==
  ASSUME LedgerInv
  PROVE  DOMAIN conns = 1..Len(conns) /\ Len(conns) \in Nat /\ DOMAIN conns \subseteq Conn
<1>1. DOMAIN conns = 1..Len(conns) /\ Len(conns) \in Nat /\ Len(conns) <= MaxConns /\ MaxConns \in Nat
  BY SessionLedgerAssumption DEF LedgerInv, IsConns
<1> QED
  BY <1>1 DEF Conn

LEMMA KeptSuffices == LedgerInv /\ KeptInv => CheckpointKept
<1> SUFFICES ASSUME LedgerInv, KeptInv, NEW c \in DOMAIN conns, acked[c] # <<>>, Alone(c),
                    NEW r, r = acked[c][1], NEW lines, lines = files[FileName(r)]
             PROVE  /\ \E i \in DOMAIN lines : lines[i].id = r.id
                    /\ Latest(lines, r.id).calls >= r.calls
  BY DEF CheckpointKept
<1>1. PICK at : IsLedger(conns, at, registry, pending, acked, files, tmp, job)
  BY DEF LedgerInv
<1>2. c \in Conn
  BY ConnsAreConn
<1>3. r \in Row /\ FileName(r) \in File
  BY <1>1, <1>2, AckedIs
<1>4. lines \in Seq(Row)
  BY <1>1, <1>3 DEF IsLedger, IsFiles, IsLines
<1>5. r \in LatestPerSession(lines)
  BY DEF KeptInv, Kept, KeptFor, Alone, IsAlone
<1>6. PICK i : LastLine(lines, i, r)
  BY <1>4, <1>5, LatestPerSessionIs
<1>7. Latest(lines, r.id) = r
  BY <1>4, <1>6, LastLineIs
<1>8. i \in DOMAIN lines /\ lines[i].id = r.id
  BY <1>4, <1>6 DEF LastLine
<1>9. r.calls \in Nat
  BY <1>3 DEF Row
<1> QED
  BY <1>7, <1>8, <1>9

\* The records stay where they are while every file reads as it did.
LEMMA ReadsAsBefore ==
  ASSUME LedgerInv, Kept(DOMAIN conns, acked, files), NEW D, DOMAIN conns \subseteq D, D \subseteq Conn,
         NEW fs, \A f \in File : LatestPerSession(fs[f]) = LatestPerSession(files[f])
  PROVE  Kept(D, acked, fs)
<1> SUFFICES ASSUME NEW c \in D, acked[c] # <<>>, IsAlone(c, D, acked) PROVE KeptFor(c, acked, fs)
  BY DEF Kept
<1>1. PICK at : IsLedger(conns, at, registry, pending, acked, files, tmp, job)
  BY DEF LedgerInv
<1>2. c \in DOMAIN conns /\ FileName(acked[c][1]) \in File
  BY <1>1, AckedIs
<1>3. IsAlone(c, DOMAIN conns, acked)
  BY DEF IsAlone
<1>4. KeptFor(c, acked, files)
  BY <1>2, <1>3 DEF Kept
<1> QED
  BY <1>2, <1>4 DEF KeptFor

\* A step that writes nothing.
LEMMA KeptAside ==
  ASSUME LedgerInv, KeptInv, LedgerInv', Quiet', DOMAIN conns \subseteq DOMAIN conns',
         UNCHANGED <<job, files, tmp, acked>>
  PROVE  KeptInv'
<1>1. DOMAIN conns' \subseteq Conn
  BY SessionLedgerAssumption DEF LedgerInv, IsConns, Conn
<1>2. Kept(DOMAIN conns', acked, files)
  BY <1>1, ReadsAsBefore DEF KeptInv
<1>3. JobsRead'
  BY DEF KeptInv, JobsRead
<1> QED
  BY <1>2, <1>3 DEF KeptInv

\* While a process runs, no other one compacts or writes.
LEMMA OthersIdle ==
  ASSUME OneServes, KeptInv, NEW p \in Process, phase[p] # "down", NEW q \in Process, q # p
  PROVE  phase[q] = "down" /\ job[q] = <<>> /\ DOMAIN pending[q] = {}
  BY DEF OneServes, KeptInv, Quiet

LEMMA AppendIsKept ==
  ASSUME LedgerInv, KeptInv, OneServes,
         NEW p \in Process, NEW c \in DOMAIN pending[p], AppendRecord(p, c)
  PROVE  KeptInv'
<1>1. PICK at : IsLedger(conns, at, registry, pending, acked, files, tmp, job)
  BY DEF LedgerInv
<1>2. PICK r, f : r = pending[p][c] /\ f = FileName(r)
  OBVIOUS
<1>3. c \in DOMAIN at /\ c \in Conn /\ IsRowOf(r, c, conns, at) /\ r \in Row /\ f \in File
  BY <1>1, <1>2, PendingIs
<1>4. /\ files' = [files EXCEPT ![f] = Append(files[f], r)]
      /\ acked' = [acked EXCEPT ![c] = <<r>>] /\ pending' = Written(p, c)
      /\ UNCHANGED <<now, conns, phase, transport, todo, job, registry, tmp>>
  BY <1>2 DEF AppendRecord, procVars
<1>5. /\ DOMAIN pending = Process /\ DOMAIN files = File /\ DOMAIN acked = Conn
      /\ files[f] \in Seq(Row)
  BY <1>1, <1>3 DEF IsLedger, IsRegistry, IsFiles, IsAcked, IsLines
<1>6. \A q \in Process : job[q] = <<>>
  <2>1. phase[p] # "down" /\ phase[p] # "starting"
    BY DEF KeptInv, Quiet
  <2>2. job[p] = <<>>
    BY <2>1 DEF KeptInv, Quiet
  <2> QED
    BY <2>1, <2>2, OthersIdle
<1>7. JobsRead'
  <2>1. \A q \in Process : job'[q] = <<>>
    BY <1>4, <1>6
  <2>2. \A g : <<>> # <<g>> /\ \A lines : <<>> # <<g, lines>>
    OBVIOUS
  <2> QED
    BY <2>1, <2>2 DEF JobsRead, ReadsAs
<1>8. Quiet'
  <2>1. PICK k : k = Restrict(pending[p], DOMAIN pending[p] \ {c})
    OBVIOUS
  <2>2. DOMAIN k \subseteq DOMAIN pending[p]
    BY <2>1 DEF Restrict
  <2>3. pending' = [pending EXCEPT ![p] = k]
    BY <1>4, <2>1 DEF Written
  <2>4. \A q \in Process : DOMAIN pending'[q] \subseteq DOMAIN pending[q]
    BY <1>5, <2>2, <2>3
  <2>5. \A q \in Process : DOMAIN pending'[q] # {} => DOMAIN pending[q] # {}
    BY <2>4
  <2> QED
    BY <1>4, <2>5 DEF KeptInv, Quiet
<1>9. PICK lines, more : lines = files[f] /\ more = Append(lines, r)
  OBVIOUS
<1>10. /\ more \in Seq(Row) /\ r \in LatestPerSession(more)
       /\ \A x : x.id # r.id => (x \in LatestPerSession(lines) => x \in LatestPerSession(more))
  BY <1>3, <1>5, <1>9, AppendedIs
<1>11. /\ files'[f] = more /\ \A g \in File : g # f => files'[g] = files[g]
       /\ acked'[c] = <<r>> /\ \A d \in Conn : d # c => acked'[d] = acked[d]
  BY <1>3, <1>4, <1>5, <1>9
<1>12. acked'[c] # <<>> /\ acked'[c][1] = r
  BY <1>11
<1>13. ASSUME NEW d \in DOMAIN conns, acked'[d] # <<>>, IsAlone(d, DOMAIN conns, acked')
       PROVE  KeptFor(d, acked', files')
  <2>1. c \in DOMAIN conns /\ d \in Conn
    BY <1>1, <1>3, ConnsAreConn DEF IsLedger, IsClock
  <2>2. CASE d = c
    BY <1>2, <1>10, <1>11, <1>12, <2>2 DEF KeptFor
  <2>3. CASE d # c
    <3>1. acked'[d] = acked[d]
      BY <1>11, <2>1, <2>3
    <3>2. PICK x : x = acked[d][1]
      OBVIOUS
    <3>3. x.id # r.id
      BY <1>12, <1>13, <2>1, <2>3, <3>1, <3>2 DEF IsAlone
    <3>4. FileName(x) \in File
      BY <1>1, <1>13, <2>1, <3>1, <3>2, AckedIs
    <3>5. IsAlone(d, DOMAIN conns, acked)
      <4> SUFFICES ASSUME NEW e \in DOMAIN conns \ {d}, acked[d] # <<>>, acked[e] # <<>>
                   PROVE  acked[d][1].id # acked[e][1].id
        BY DEF IsAlone
      <4>1. CASE e = c
        <5>1. IsRowOf(acked[c][1], c, conns, at)
          BY <1>1, <1>3, <4>1, AckedIs
        <5>2. acked[c][1].id = r.id
          BY <1>3, <5>1 DEF IsRowOf
        <5> QED
          BY <3>2, <3>3, <4>1, <5>2
      <4>2. CASE e # c
        <5>1. e \in Conn
          BY ConnsAreConn
        <5>2. acked'[e] = acked[e]
          BY <1>11, <4>2, <5>1
        <5> QED
          BY <1>13, <3>1, <5>2 DEF IsAlone
      <4> QED
        BY <4>1, <4>2
    <3>6. KeptFor(d, acked, files)
      BY <1>13, <3>1, <3>5 DEF KeptInv, Kept
    <3>7. x \in LatestPerSession(files[FileName(x)])
      BY <3>2, <3>6 DEF KeptFor
    <3>8. x \in LatestPerSession(files'[FileName(x)])
      <4>1. CASE FileName(x) = f
        BY <1>9, <1>10, <1>11, <3>3, <3>7, <4>1
      <4>2. CASE FileName(x) # f
        BY <1>11, <3>4, <3>7, <4>2
      <4> QED
        BY <4>1, <4>2
    <3> QED
      BY <3>1, <3>2, <3>8 DEF KeptFor
  <2> QED
    BY <2>2, <2>3
<1>14. Kept(DOMAIN conns', acked', files')
  BY <1>4, <1>13 DEF Kept
<1> QED
  BY <1>7, <1>8, <1>14 DEF KeptInv

\* The files that a compaction may change are the ones it has read, and nothing is appended
\* while it does.
LEMMA CompactionIsKept ==
  ASSUME LedgerInv, KeptInv, LedgerInv', OneServes, NEW p \in Process,
         CompactRead(p) \/ CompactWrite(p) \/ CompactRename(p)
  PROVE  KeptInv'
<1>1. PICK at : IsLedger(conns, at, registry, pending, acked, files, tmp, job)
  BY DEF LedgerInv
<1>2. /\ IsJobs(job, conns, at, acked) /\ IsFiles(files, tmp, conns, at, acked)
      /\ DOMAIN job = Process /\ DOMAIN files = File /\ DOMAIN tmp = File
  BY <1>1 DEF IsLedger, IsJobs, IsFiles
<1>3. UNCHANGED <<conns, phase, pending, acked>>
  BY DEF CompactRead, CompactWrite, CompactRename
<1>4. phase[p] = "starting"
  <2>1. CASE CompactRead(p)
    BY <2>1 DEF CompactRead
  <2>2. CASE CompactWrite(p) \/ CompactRename(p)
    <3>1. job[p] # <<>>
      <4>1. Len(<<>>) = 0 /\ Len(job[p]) \in {1, 2}
        BY <2>2 DEF CompactWrite, CompactRename
      <4> QED
        BY <4>1
    <3> QED
      BY <3>1 DEF KeptInv, Quiet
  <2> QED
    BY <2>1, <2>2
<1>5. \A q \in Process : q # p => job[q] = <<>>
  BY <1>4, OthersIdle
\* What is to show of the step.
<1>6. ASSUME \A q \in Process : q # p => job'[q] = job[q],
             ReadsAs(job'[p], files', tmp'),
             \A f \in File : LatestPerSession(files'[f]) = LatestPerSession(files[f])
      PROVE  KeptInv'
  <2>1. Quiet'
    <3> SUFFICES ASSUME NEW q \in Process
                 PROVE  /\ DOMAIN pending'[q] # {} => phase'[q] \in {"up", "stopping", "flushed"}
                        /\ job'[q] # <<>> => phase'[q] = "starting"
      BY DEF Quiet
    <3>1. CASE q = p
      BY <1>3, <1>4, <3>1 DEF KeptInv, Quiet
    <3>2. CASE q # p
      BY <1>3, <1>6, <3>2 DEF KeptInv, Quiet
    <3> QED
      BY <3>1, <3>2
  <2>2. JobsRead'
    <3>1. \A g : <<>> # <<g>> /\ \A lines : <<>> # <<g, lines>>
      OBVIOUS
    <3>2. \A q \in Process : q # p => ReadsAs(job'[q], files', tmp')
      BY <1>5, <1>6, <3>1 DEF ReadsAs
    <3> QED
      BY <1>6, <3>2 DEF JobsRead
  <2>3. Kept(DOMAIN conns, acked, files')
    BY <1>6, ConnsAreConn, ReadsAsBefore DEF KeptInv
  <2> QED
    BY <1>3, <2>1, <2>2, <2>3 DEF KeptInv
<1>7. CASE CompactRead(p)
  <2>1. PICK f \in todo[p] : job' = [job EXCEPT ![p] = <<f, SetToSeq(LatestPerSession(files[f]))>>]
    BY <1>7 DEF CompactRead
  <2>2. f \in File
    BY DEF LedgerInv, IsProcs
  <2>3. PICK lines, s : lines = files[f] /\ s = SetToSeq(LatestPerSession(lines))
    OBVIOUS
  <2>4. lines \in Seq(Row)
    BY <1>2, <2>2, <2>3 DEF IsFiles, IsLines
  <2>5. IsCompacted(s, lines)
    BY <2>3, <2>4, CompactedIs
  <2>6. job' = [job EXCEPT ![p] = <<f, s>>]
    BY <2>1, <2>3
  <2>7. job'[p] = <<f, s>> /\ \A q \in Process : q # p => job'[q] = job[q]
    BY <1>2, <2>6
  <2>8. UNCHANGED <<files, tmp>>
    BY <1>7 DEF CompactRead
  <2>9. ReadsAs(<<f, s>>, files, tmp)
    <3>1. LatestPerSession(s) = LatestPerSession(files[f])
      BY <2>3, <2>5 DEF IsCompacted
    <3>2. \A g, k : <<f, s>> = <<g, k>> => g = f /\ k = s
      OBVIOUS
    <3>3. \A g : <<f, s>> # <<g>>
      OBVIOUS
    <3> QED
      BY <3>1, <3>2, <3>3 DEF ReadsAs
  <2> QED
    BY <1>6, <2>7, <2>8, <2>9
<1>8. CASE CompactWrite(p)
  <2>a. PICK f \in File : \E lines : job[p] = <<f, lines>>
    <3>1. Len(job[p]) = 2 /\ IsJob(job[p], conns, at, acked)
      BY <1>2, <1>8 DEF CompactWrite, IsJobs
    <3> QED
      BY <3>1, JobIs
  <2>1. PICK lines : job[p] = <<f, lines>>
    BY <2>a
  <2>2. job[p][1] = f /\ job[p][2] = lines
    BY <2>1
  <2>3. LatestPerSession(lines) = LatestPerSession(files[f])
    BY <2>1 DEF KeptInv, JobsRead, ReadsAs
  <2>4. tmp' = [tmp EXCEPT ![f] = <<lines>>] /\ job' = [job EXCEPT ![p] = <<f>>] /\ files' = files
    BY <1>8, <2>2 DEF CompactWrite
  <2>5. /\ tmp'[f] = <<lines>> /\ job'[p] = <<f>>
        /\ \A q \in Process : q # p => job'[q] = job[q]
    BY <1>2, <2>4
  <2>6. tmp'[f] # <<>> /\ tmp'[f][1] = lines
    BY <2>5
  <2>7. ReadsAs(<<f>>, files', tmp')
    <3>1. \A g : <<f>> = <<g>> => g = f
      OBVIOUS
    <3>2. \A g, k : <<f>> # <<g, k>>
      OBVIOUS
    <3> QED
      BY <2>3, <2>4, <2>6, <3>1, <3>2 DEF ReadsAs
  <2> QED
    BY <1>6, <2>4, <2>5, <2>7
<1>9. CASE CompactRename(p)
  <2>1. PICK f \in File : job[p] = <<f>>
    <3>1. Len(job[p]) = 1 /\ IsJob(job[p], conns, at, acked)
      BY <1>2, <1>9 DEF CompactRename, IsJobs
    <3> QED
      BY <3>1, JobIs
  <2>2. job[p][1] = f
    BY <2>1
  <2>3. tmp[f] # <<>> /\ LatestPerSession(tmp[f][1]) = LatestPerSession(files[f])
    BY <2>1 DEF KeptInv, JobsRead, ReadsAs
  <2>4. files' = [files EXCEPT ![f] = tmp[f][1]] /\ job' = [job EXCEPT ![p] = <<>>]
    BY <1>9, <2>2, <2>3 DEF CompactRename
  <2>5. /\ files'[f] = tmp[f][1] /\ \A g \in File : g # f => files'[g] = files[g]
        /\ job'[p] = <<>> /\ \A q \in Process : q # p => job'[q] = job[q]
    BY <1>2, <2>4
  <2>6. \A g \in File : LatestPerSession(files'[g]) = LatestPerSession(files[g])
    BY <2>3, <2>5
  <2>7. ReadsAs(job'[p], files', tmp')
    <3>1. \A g : <<>> # <<g>> /\ \A lines : <<>> # <<g, lines>>
      OBVIOUS
    <3> QED
      BY <2>5, <3>1 DEF ReadsAs
  <2> QED
    BY <1>6, <2>5, <2>6, <2>7
<1> QED
  BY <1>7, <1>8, <1>9

LEMMA GoneIsKept ==
  ASSUME LedgerInv, KeptInv, OneServes, NEW p \in Process, phase[p] # "down", Gone(p)
  PROVE  KeptInv'
<1>1. /\ phase' = [phase EXCEPT ![p] = "down"] /\ job' = [job EXCEPT ![p] = <<>>]
      /\ pending' = [pending EXCEPT ![p] = <<>>] /\ DOMAIN conns' = DOMAIN conns
      /\ UNCHANGED <<files, acked>>
  BY DEF Gone
<1>2. DOMAIN phase = Process /\ DOMAIN job = Process /\ DOMAIN pending = Process
  BY DEF LedgerInv, IsProcs, IsLedger, IsJobs, IsRegistry
<1>3. \A q \in Process : job'[q] = <<>> /\ DOMAIN pending'[q] = {}
  <2>1. job'[p] = <<>> /\ pending'[p] = <<>>
    BY <1>1, <1>2
  <2>2. DOMAIN <<>> = {}
    OBVIOUS
  <2>3. ASSUME NEW q \in Process, q # p PROVE job'[q] = <<>> /\ DOMAIN pending'[q] = {}
    <3>1. job'[q] = job[q] /\ pending'[q] = pending[q]
      BY <1>1, <1>2, <2>3
    <3> QED
      BY <2>3, <3>1, OthersIdle
  <2> QED
    BY <2>1, <2>2, <2>3
<1>4. Quiet'
  BY <1>3 DEF Quiet
<1>5. JobsRead'
  <2>1. \A g : <<>> # <<g>> /\ \A lines : <<>> # <<g, lines>>
    OBVIOUS
  <2> QED
    BY <1>3, <2>1 DEF JobsRead, ReadsAs
<1> QED
  BY <1>1, <1>4, <1>5 DEF KeptInv

\* The steps that neither write nor end a process.
LEMMA AsideIsQuiet ==
  ASSUME LedgerInv, KeptInv, NEW p \in Process,
         \/ Start(p) \/ Serve(p) \/ Stop(p) \/ Connect(p) \/ Snapshot(p) \/ Flush(p) \/ FinalFlush(p)
         \/ \E c \in DOMAIN conns :
              Initialize(p, c) \/ CallTool(p, c) \/ Request(p, c) \/ Disconnect(p, c)
         \/ \E c \in DOMAIN pending[p] : AppendFails(p, c)
  PROVE  Quiet' /\ DOMAIN conns \subseteq DOMAIN conns' /\ UNCHANGED <<job, files, tmp, acked>>
<1>1. DOMAIN phase = Process /\ DOMAIN pending = Process
  BY DEF LedgerInv, IsProcs, IsLedger, IsRegistry
<1>2. \A q \in Process : /\ DOMAIN pending[q] # {} => phase[q] \in {"up", "stopping", "flushed"}
                         /\ job[q] # <<>> => phase[q] = "starting"
  BY DEF KeptInv, Quiet
<1>3. UNCHANGED <<job, files, tmp, acked>>
  BY DEF Start, Serve, Stop, Connect, Snapshot, Flush, FinalFlush, Collect, Initialize, CallTool,
         Request, Disconnect, AppendFails, procVars
<1>4. DOMAIN conns \subseteq DOMAIN conns'
  <2>1. CASE Connect(p)
    <3>1. PICK row : conns' = Append(conns, row)
      BY <2>1 DEF Connect
    <3>2. conns \in Seq(ConnRow)
      BY DEF LedgerInv, IsConns
    <3> QED
      BY <3>1, <3>2
  <2>2. CASE \E c \in DOMAIN conns : Initialize(p, c) \/ CallTool(p, c) \/ Disconnect(p, c)
    BY <2>2 DEF Initialize, CallTool, Disconnect
  <2>3. CASE UNCHANGED conns
    BY <2>3
  <2> QED
    BY <2>1, <2>2, <2>3
    DEF Start, Serve, Stop, Snapshot, Flush, FinalFlush, Collect, Request, AppendFails, procVars
\* The process of the step.
<1>5. ASSUME \A q \in Process : q # p => phase'[q] = phase[q] /\ pending'[q] = pending[q],
             DOMAIN pending'[p] # {} => phase'[p] \in {"up", "stopping", "flushed"},
             job[p] # <<>> => phase'[p] = "starting"
      PROVE  Quiet'
  BY <1>2, <1>3, <1>5 DEF Quiet
<1>6. Quiet'
  <2>1. CASE Start(p)
    BY <1>1, <1>2, <1>5, <2>1 DEF Start
  <2>2. CASE Serve(p)
    BY <1>1, <1>2, <1>5, <2>2 DEF Serve
  <2>3. CASE Stop(p)
    BY <1>1, <1>2, <1>5, <2>3 DEF Stop
  <2>4. CASE UNCHANGED <<phase, pending>>
    BY <1>2, <1>5, <2>4
  <2>5. CASE Flush(p) \/ FinalFlush(p)
    <3>1. /\ phase'[p] \in {"up", "flushed"} /\ phase[p] \in {"up", "stopping"}
          /\ \A q \in Process : q # p => phase'[q] = phase[q] /\ pending'[q] = pending[q]
      BY <1>1, <2>5 DEF Flush, FinalFlush, Collect
    <3> QED
      BY <1>2, <1>5, <3>1
  <2>6. CASE \E c \in DOMAIN conns : Disconnect(p, c)
    <3>1. /\ phase'[p] \in {phase[p], "stopping"} /\ phase[p] \in {"up", "stopping", "flushed"}
          /\ pending' = pending /\ \A q \in Process : q # p => phase'[q] = phase[q]
      BY <1>1, <2>6 DEF Disconnect, Serving
    <3> QED
      BY <1>2, <1>5, <3>1
  <2>7. CASE \E c \in DOMAIN pending[p] : AppendFails(p, c)
    <3>1. PICK c \in DOMAIN pending[p] : pending' = Written(p, c) /\ phase' = phase
      BY <2>7 DEF AppendFails, procVars
    <3>2. \A q \in Process : q # p => pending'[q] = pending[q]
      BY <1>1, <3>1 DEF Written
    <3> QED
      BY <1>2, <1>5, <3>1, <3>2
  <2> QED
    BY <2>1, <2>2, <2>3, <2>4, <2>5, <2>6, <2>7
    DEF Connect, Snapshot, Initialize, CallTool, Request, procVars
<1> QED
  BY <1>3, <1>4, <1>6

LEMMA KeptPreserved == LedgerInv /\ KeptInv /\ OneServes /\ [Next]_vars => KeptInv'
<1> SUFFICES ASSUME LedgerInv, KeptInv, OneServes, [Next]_vars PROVE KeptInv'
  OBVIOUS
<1>0. LedgerInv'
  BY LedgerPreserved
<1>1. CASE UNCHANGED vars
  BY <1>1 DEF vars, procVars, KeptInv, Quiet, JobsRead
<1>2. ASSUME NEW p \in Process,
             \/ Start(p) \/ Serve(p) \/ Stop(p) \/ Connect(p) \/ Snapshot(p) \/ Flush(p) \/ FinalFlush(p)
             \/ \E c \in DOMAIN conns :
                  Initialize(p, c) \/ CallTool(p, c) \/ Request(p, c) \/ Disconnect(p, c)
             \/ \E c \in DOMAIN pending[p] : AppendFails(p, c)
      PROVE  KeptInv'
  <2>1. Quiet' /\ DOMAIN conns \subseteq DOMAIN conns' /\ UNCHANGED <<job, files, tmp, acked>>
    BY <1>2, AsideIsQuiet
  <2> QED
    BY <1>0, <2>1, KeptAside
<1>3. ASSUME NEW p \in Process, Exit(p) \/ Crash(p) PROVE KeptInv'
  BY <1>3, GoneIsKept DEF Exit, Crash
<1>4. ASSUME NEW p \in Process, CompactRead(p) \/ CompactWrite(p) \/ CompactRename(p) PROVE KeptInv'
  BY <1>0, <1>4, CompactionIsKept
<1>5. ASSUME NEW p \in Process, NEW c \in DOMAIN pending[p], AppendRecord(p, c) PROVE KeptInv'
  BY <1>5, AppendIsKept
<1> QED
  BY <1>1, <1>2, <1>3, <1>4, <1>5 DEF Next

\* A checkpoint that was appended is never lost, and never replaced by one with fewer calls: for
\* any number of processes that serve the workspace one after the other, whatever crashes.
THEOREM CheckpointsKept == ServerSpec /\ []OneServes => []CheckpointKept
<1>1. ServerInit => LedgerInv /\ KeptInv
  <2> SUFFICES ASSUME ServerInit PROVE LedgerInv /\ KeptInv
    OBVIOUS
  <2>1. Init
    BY DEF ServerInit
  <2>2. DOMAIN conns = {}
    BY <2>1 DEF Init
  <2>3. \A p \in Process : pending[p] = <<>> /\ job[p] = <<>>
    BY <2>1 DEF Init
  <2>4. DOMAIN <<>> = {} /\ \A g : <<>> # <<g>> /\ \A lines : <<>> # <<g, lines>>
    OBVIOUS
  <2>5. Quiet /\ JobsRead
    BY <2>3, <2>4 DEF Quiet, JobsRead, ReadsAs
  <2>6. Kept(DOMAIN conns, acked, files)
    BY <2>2 DEF Kept
  <2> QED
    BY <2>1, <2>5, <2>6, LedgerInit DEF KeptInv
<1>2. LedgerInv /\ KeptInv /\ OneServes /\ [ServerNext]_<<vars, migrateVars>> => LedgerInv' /\ KeptInv'
  BY ServerSteps, LedgerPreserved, KeptPreserved
<1>3. LedgerInv /\ KeptInv => CheckpointKept
  BY KeptSuffices
<1> QED
  BY <1>1, <1>2, <1>3, PTL DEF ServerSpec
=============================================================================
