--------------------------- MODULE SandboxProofs ---------------------------
(***************************************************************************)
(* Proofs about Sandbox, for any modules, tasks and dependencies.          *)
(***************************************************************************)
EXTENDS Sandbox, FiniteSetTheorems, TLAPS

\* Dropping never adds a module, and keeps those that were there before.
LEMMA DropBounds ==
    ASSUME NEW L, NEW E, NEW D
    PROVE  L \cap E \subseteq Dropped(L, E, D) /\ Dropped(L, E, D) \subseteq L
BY DEF Dropped

\* When all that was there before is still there, dropping restores it: then the
\* test of the number of names is no short cut.
LEMMA DropRestores ==
    ASSUME NEW L \in SUBSET Modules, NEW E \in SUBSET L, NEW D
    PROVE  Dropped(L, E, D) = E
<1>1. IsFiniteSet(L)
  BY SandboxAssumption, FS_Subset
<1>2. Cardinality(L) = Cardinality(E) => L = E
  BY <1>1, FS_Subset
<1> QED BY <1>2 DEF Dropped

LEMMA LoadingTyped ==
    ASSUME TypeOK, NEW S
    PROVE  Loading(S) \in [Modules -> Nat]
BY DEF TypeOK, Loading

LEMMA InstallTyped ==
    ASSUME TypeOK, NEW t \in Tasks, Install(t)
    PROVE  /\ owner' \in [Modules -> Nat]
           /\ older' \in SUBSET Tasks
           /\ crossed' \in BOOLEAN
<1>1. Loading(Deps[t]) \in [Modules -> Nat] /\ UnderWay \in SUBSET Tasks
  BY LoadingTyped, SandboxAssumption DEF UnderWay
<1>2. CASE t \in StateTasks
  <2>2. owner' \in [Modules -> Nat]
    BY <1>1, <1>2 DEF Install
  <2>3. older' = UnderWay /\ crossed' = FALSE
    BY <1>2 DEF Install
  <2> QED BY <1>1, <2>2, <2>3
<1>3. CASE t \notin StateTasks
  BY <1>3 DEF Install, TypeOK
<1> QED BY <1>2, <1>3

LEMMA NextTyped == TypeOK /\ [Next]_vars => TypeOK'
<1> SUFFICES ASSUME TypeOK, [Next]_vars PROVE TypeOK'
  OBVIOUS
<1> USE SandboxAssumption
<1>1. \A S : Loading(S) \in [Modules -> Nat]
  BY LoadingTyped
<1>2. ASSUME NEW t \in Tasks, ImportRaises(t) PROVE TypeOK'
  BY <1>1, <1>2 DEF ImportRaises, Becomes, TypeOK
<1>3. ASSUME NEW t \in Tasks, PlainReturns(t) PROVE TypeOK'
  <2>1. Dropped(present \cup Deps[t] \cup Lazy[t], AtCall(t), Deps[t])
          \in SUBSET (Modules \ Broken)
    BY <1>3, DropBounds DEF PlainReturns, Importable, TypeOK
  <2> QED BY <1>1, <1>3, <2>1, InstallTyped DEF PlainReturns, Becomes, TypeOK
<1>4. ASSUME NEW t \in Tasks, PlainRaises(t) PROVE TypeOK'
  <2>1. Deps[t] \cup Lazy[t] \in SUBSET (Modules \ Broken)
    BY <1>4 DEF PlainRaises, Importable
  <2>2. AtCall(t) \in SUBSET (Modules \ Broken)
    BY <2>1 DEF AtCall, TypeOK
  <2>3. present' \in SUBSET (Modules \ Broken)
    BY <1>4, <2>1, <2>2 DEF PlainRaises
  <2> QED BY <1>1, <1>4, <2>3, InstallTyped DEF PlainRaises, Becomes, TypeOK
<1>5. ASSUME NEW t \in Tasks, StartCoroutine(t) PROVE TypeOK'
  <2>1. AtCall(t) \in SUBSET Modules
    BY DEF AtCall, TypeOK
  <2>2. present' \in SUBSET (Modules \ Broken)
    BY <1>5 DEF StartCoroutine, Importable, TypeOK
  <2> QED BY <1>1, <1>5, <2>1, <2>2, InstallTyped DEF StartCoroutine, Becomes, TypeOK
<1>6. ASSUME NEW t \in Tasks, CoroutineReturns(t) PROVE TypeOK'
  <2>1. Dropped(present \cup Lazy[t], initial[t], Deps[t])
          \in SUBSET (Modules \ Broken)
    BY DropBounds DEF TypeOK
  <2> QED BY <1>1, <1>6, <2>1 DEF CoroutineReturns, Becomes, TypeOK
<1>7. ASSUME NEW t \in Tasks, CoroutineRaises(t) PROVE TypeOK'
  BY <1>1, <1>7 DEF CoroutineRaises, Becomes, TypeOK
<1>8. CASE UNCHANGED vars
  BY <1>8 DEF vars, TypeOK
<1> QED BY <1>2, <1>3, <1>4, <1>5, <1>6, <1>7, <1>8 DEF Next

\* Every variable has its type, for any modules and tasks.
THEOREM TypeCorrect == Spec => []TypeOK
<1>1. ASSUME Init PROVE TypeOK
  <2>1. /\ present \in SUBSET (Modules \ Broken)
        /\ version \in [Modules -> Nat]
        /\ owner \in [Modules -> Nat]
    BY <1>1, SandboxAssumption DEF Init
  <2>2. /\ call \in [Tasks -> {"waiting", "running", "returned", "raised"}]
        /\ initial \in [Tasks -> SUBSET Modules]
        /\ older \in SUBSET Tasks
    BY <1>1 DEF Init
  <2>3. crossed \in BOOLEAN /\ overlap \in BOOLEAN
    BY <1>1 DEF Init
  <2> QED BY <2>1, <2>2, <2>3 DEF TypeOK
<1> QED BY <1>1, NextTyped, PTL DEF Spec

-----------------------------------------------------------------------------
\* What can be named after each kind of step: a step only ever adds modules,
\* except for the one in which a coroutine returns.
LEMMA PlainKeeps ==
    ASSUME TypeOK, NEW t \in Tasks
    PROVE  Dropped(present \cup Deps[t] \cup Lazy[t], AtCall(t), Deps[t])
             = AtCall(t)
<1> DEFINE L == present \cup Deps[t] \cup Lazy[t]
<1>1. L \in SUBSET Modules
  BY SandboxAssumption DEF TypeOK
<1>2. AtCall(t) \in SUBSET L
  BY DEF AtCall
<1> QED BY <1>1, <1>2, DropRestores

\* A module that is loaded is not loaded again.
LEMMA LoadedOnce ==
    ASSUME TypeOK, NEW S, NEW m \in present
    PROVE  Loading(S)[m] = version[m]
BY DEF TypeOK, Loading

-----------------------------------------------------------------------------
(* The invariant: what the managers of the calls under way know.           *)

Owned == {m \in Modules : owner[m] # 0}

BaseKnown == \A t \in UnderWay : Base \subseteq initial[t]

SandboxKnown ==
    crossed \/ \A t \in UnderWay : t \in older \/ Owned \subseteq initial[t]

LEMMA BaseKept ==
    TypeOK /\ BaseStays /\ BaseKnown /\ [Next]_vars => BaseStays' /\ BaseKnown'
<1> SUFFICES ASSUME TypeOK, BaseStays, BaseKnown, [Next]_vars
             PROVE  BaseStays' /\ BaseKnown'
  OBVIOUS
<1>1. ASSUME present \subseteq present', initial' = initial, UnderWay' \subseteq UnderWay
      PROVE  BaseStays' /\ BaseKnown'
  BY <1>1 DEF BaseStays, BaseKnown
<1>2. ASSUME NEW t \in Tasks, ImportRaises(t) PROVE BaseStays' /\ BaseKnown'
  BY <1>1, <1>2 DEF ImportRaises, Becomes, UnderWay, TypeOK
<1>3. ASSUME NEW t \in Tasks, PlainReturns(t) PROVE BaseStays' /\ BaseKnown'
  <2>1. present \subseteq present'
    BY <1>3, PlainKeeps DEF PlainReturns, AtCall
  <2> QED BY <1>1, <1>3, <2>1 DEF PlainReturns, Becomes, UnderWay, TypeOK
<1>4. ASSUME NEW t \in Tasks, PlainRaises(t) PROVE BaseStays' /\ BaseKnown'
  <2>1. present \subseteq present'
    BY <1>4 DEF PlainRaises, AtCall
  <2> QED BY <1>1, <1>4, <2>1 DEF PlainRaises, Becomes, UnderWay, TypeOK
<1>5. ASSUME NEW t \in Tasks, StartCoroutine(t) PROVE BaseStays' /\ BaseKnown'
  <2>1. BaseStays'
    BY <1>5 DEF StartCoroutine, BaseStays
  <2>2. Base \subseteq initial'[t]
    BY <1>5 DEF StartCoroutine, BaseStays, AtCall, TypeOK
  <2>3. \A u \in UnderWay' : u # t => u \in UnderWay /\ initial'[u] = initial[u]
    BY <1>5 DEF StartCoroutine, Becomes, UnderWay, TypeOK
  <2> QED BY <2>1, <2>2, <2>3 DEF BaseKnown
<1>6. ASSUME NEW t \in Tasks, CoroutineReturns(t) PROVE BaseStays' /\ BaseKnown'
  <2>1. t \in UnderWay /\ UnderWay' \subseteq UnderWay /\ initial' = initial
    BY <1>6 DEF CoroutineReturns, Becomes, UnderWay, TypeOK
  <2>2. (present \cup Lazy[t]) \cap initial[t] \subseteq present'
    BY <1>6, DropBounds DEF CoroutineReturns
  <2> QED BY <2>1, <2>2 DEF BaseStays, BaseKnown
<1>7. ASSUME NEW t \in Tasks, CoroutineRaises(t) PROVE BaseStays' /\ BaseKnown'
  BY <1>1, <1>7 DEF CoroutineRaises, Becomes, UnderWay, TypeOK
<1>8. CASE UNCHANGED vars
  BY <1>1, <1>8 DEF vars, UnderWay
<1> QED BY <1>2, <1>3, <1>4, <1>5, <1>6, <1>7, <1>8 DEF Next

\* What the interpreter and the worker have loaded is never deleted, whatever the
\* calls import and however coroutines overlap.
THEOREM BaseIsNeverDeleted == Spec => []BaseStays
<1>1. Init => BaseStays /\ BaseKnown
  BY DEF Init, BaseStays, BaseKnown, UnderWay
<1> QED BY <1>1, TypeCorrect, BaseKept, PTL DEF Spec

-----------------------------------------------------------------------------
SandboxInv == SandboxStays /\ SandboxKnown

\* A step that only adds modules, replaces no sandbox and starts no coroutine.
LEMMA AddingKeeps ==
    ASSUME TypeOK, SandboxInv, NEW S,
           present \subseteq present', version' = Loading(S),
           UNCHANGED <<owner, initial, older, crossed>>, UnderWay' \subseteq UnderWay
    PROVE  SandboxInv'
<1>1. SandboxIsLoaded => SandboxIsLoaded'
  BY LoadedOnce DEF SandboxIsLoaded
<1>2. SandboxStays'
  BY <1>1 DEF SandboxInv, SandboxStays
<1>3. SandboxKnown'
  BY DEF SandboxInv, SandboxKnown, Owned
<1> QED BY <1>2, <1>3 DEF SandboxInv

\* A step that installs a sandbox: its modules are in sys.modules, and the calls
\* under way are the older ones but for the coroutine that the step starts.
LEMMA InstallingKeeps ==
    ASSUME TypeOK, NEW t \in StateTasks, NEW S, Deps[t] \subseteq S,
           Install(t), Deps[t] \subseteq present', version' = Loading(S),
           \A u \in UnderWay' \ UnderWay : Deps[t] \subseteq initial'[u]
    PROVE  SandboxInv'
<1> USE SandboxAssumption
<1>1. owner' = [m \in Modules |-> IF m \in Deps[t] THEN Loading(Deps[t])[m] ELSE 0]
  BY DEF Install
<1>2. older' = UnderWay
  BY DEF Install
<1>3. \A m \in Deps[t] : Loading(Deps[t])[m] = Loading(S)[m]
  BY DEF Loading
<1>4. SandboxIsLoaded'
  BY <1>1, <1>3 DEF SandboxIsLoaded
<1>5. Owned' \subseteq Deps[t]
  BY <1>1 DEF Owned
<1>6. SandboxKnown'
  BY <1>2, <1>5 DEF SandboxKnown
<1> QED BY <1>4, <1>6 DEF SandboxInv, SandboxStays

LEMMA SandboxKept == TypeOK /\ SandboxInv /\ [Next]_vars => SandboxInv'
<1> SUFFICES ASSUME TypeOK, SandboxInv, [Next]_vars PROVE SandboxInv'
  OBVIOUS
<1> USE SandboxAssumption
<1>1. ASSUME NEW t \in Tasks, ImportRaises(t) PROVE SandboxInv'
  <2>1. PICK done \in SUBSET (Deps[t] \ Broken) :
          present' = present \cup done /\ version' = Loading(done)
    BY <1>1 DEF ImportRaises
  <2>2. UnderWay' \subseteq UnderWay /\ UNCHANGED <<owner, initial, older, crossed>>
    BY <1>1 DEF ImportRaises, Becomes, UnderWay, TypeOK
  <2> QED BY <2>1, <2>2, AddingKeeps
<1>2. ASSUME NEW t \in Tasks, PlainReturns(t) PROVE SandboxInv'
  <2>1. present' = AtCall(t) /\ version' = Loading(Deps[t] \cup Lazy[t])
    BY <1>2, PlainKeeps DEF PlainReturns
  <2>2. UnderWay' \subseteq UnderWay /\ Install(t) /\ initial' = initial
    BY <1>2 DEF PlainReturns, Becomes, UnderWay, TypeOK
  <2>3. CASE t \in StateTasks
    BY <2>1, <2>2, <2>3, InstallingKeeps DEF AtCall
  <2>4. CASE t \notin StateTasks
    BY <2>1, <2>2, <2>4, AddingKeeps DEF AtCall, Install
  <2> QED BY <2>3, <2>4
<1>3. ASSUME NEW t \in Tasks, PlainRaises(t) PROVE SandboxInv'
  <2>1. PICK done \in SUBSET (Deps[t] \cup Lazy[t]) :
          present' = AtCall(t) \cup done /\ version' = Loading(Deps[t] \cup done)
    BY <1>3 DEF PlainRaises
  <2>2. UnderWay' \subseteq UnderWay /\ Install(t) /\ initial' = initial
    BY <1>3 DEF PlainRaises, Becomes, UnderWay, TypeOK
  <2>3. CASE t \in StateTasks
    BY <2>1, <2>2, <2>3, InstallingKeeps DEF AtCall
  <2>4. CASE t \notin StateTasks
    BY <2>1, <2>2, <2>4, AddingKeeps DEF AtCall, Install
  <2> QED BY <2>3, <2>4
<1>4. ASSUME NEW t \in Tasks, StartCoroutine(t) PROVE SandboxInv'
  <2>1. present' = present \cup Deps[t] /\ version' = Loading(Deps[t]) /\ Install(t)
    BY <1>4 DEF StartCoroutine
  <2>2. \A u \in UnderWay' : u # t => u \in UnderWay /\ initial'[u] = initial[u]
    BY <1>4 DEF StartCoroutine, Becomes, UnderWay, TypeOK
  <2>3. initial'[t] = AtCall(t)
    BY <1>4 DEF StartCoroutine, TypeOK
  <2>4. CASE t \in StateTasks
    BY <2>1, <2>2, <2>3, <2>4, InstallingKeeps DEF AtCall
  <2>5. CASE t \notin StateTasks
    <3>1. UNCHANGED <<owner, older, crossed>>
      BY <2>1, <2>5 DEF Install
    <3>2. SandboxIsLoaded => SandboxIsLoaded'
      BY <2>1, <3>1, LoadedOnce DEF SandboxIsLoaded
    <3>3. SandboxStays'
      BY <3>1, <3>2 DEF SandboxInv, SandboxStays
    <3>4. SandboxIsLoaded => Owned \subseteq initial'[t]
      BY <2>3, <2>5 DEF SandboxIsLoaded, Owned, AtCall
    <3>5. Owned' = Owned
      BY <3>1 DEF Owned
    <3>6. SandboxKnown'
      BY <2>2, <3>1, <3>4, <3>5 DEF SandboxInv, SandboxStays, SandboxKnown
    <3> QED BY <3>3, <3>6 DEF SandboxInv
  <2> QED BY <2>4, <2>5
<1>5. ASSUME NEW t \in Tasks, CoroutineReturns(t) PROVE SandboxInv'
  <2>1. t \in UnderWay /\ UnderWay' \subseteq UnderWay
    BY <1>5 DEF CoroutineReturns, Becomes, UnderWay, TypeOK
  <2>2. /\ UNCHANGED <<owner, initial, older>> /\ version' = Loading(Lazy[t])
        /\ crossed' = (crossed \/ t \in older)
    BY <1>5 DEF CoroutineReturns
  <2>3. (present \cup Lazy[t]) \cap initial[t] \subseteq present'
    BY <1>5, DropBounds DEF CoroutineReturns
  <2>4. CASE crossed \/ t \in older
    BY <2>2, <2>4 DEF SandboxInv, SandboxStays, SandboxKnown
  <2>5. CASE ~(crossed \/ t \in older)
    <3>1. Owned \subseteq initial[t] /\ SandboxIsLoaded
      BY <2>1, <2>5 DEF SandboxInv, SandboxKnown, SandboxStays
    <3>2. SandboxIsLoaded'
      BY <2>2, <2>3, <3>1, LoadedOnce DEF SandboxIsLoaded, Owned
    <3>3. SandboxKnown'
      BY <2>1, <2>2, <2>5 DEF SandboxInv, SandboxKnown, Owned
    <3> QED BY <3>2, <3>3 DEF SandboxInv, SandboxStays
  <2> QED BY <2>4, <2>5
<1>6. ASSUME NEW t \in Tasks, CoroutineRaises(t) PROVE SandboxInv'
  <2>1. PICK done \in SUBSET Lazy[t] :
          present' = present \cup done /\ version' = Loading(done)
    BY <1>6 DEF CoroutineRaises
  <2>2. UnderWay' \subseteq UnderWay /\ UNCHANGED <<owner, initial, older, crossed>>
    BY <1>6 DEF CoroutineRaises, Becomes, UnderWay, TypeOK
  <2> QED BY <2>1, <2>2, AddingKeeps
<1>7. CASE UNCHANGED vars
  BY <1>7 DEF vars, SandboxInv, SandboxStays, SandboxIsLoaded, SandboxKnown, Owned, UnderWay
<1> QED BY <1>1, <1>2, <1>3, <1>4, <1>5, <1>6, <1>7 DEF Next

\* The modules that the state was made with stay the ones in sys.modules, until a
\* coroutine that was called before them returns.
THEOREM StateKeepsItsModules == Spec => []SandboxStays
<1>1. Init => SandboxInv
  BY DEF Init, SandboxInv, SandboxStays, SandboxIsLoaded, SandboxKnown, UnderWay
<1>2. SandboxInv => SandboxStays
  BY DEF SandboxInv
<1> QED BY <1>1, <1>2, TypeCorrect, SandboxKept, PTL DEF Spec

-----------------------------------------------------------------------------
(* With one coroutine at a time, a call that returns leaves nothing behind. *)

\* The coroutine under way, if any, is the only one, and what its manager noted is
\* still in sys.modules and stays there for good.
Alone ==
    overlap \/ \A t \in UnderWay :
                 /\ \A u \in UnderWay : u = t
                 /\ initial[t] \subseteq present \cap Lasting

CleanInv == NothingLeftBehind /\ Alone

LEMMA LastingGrows ==
    ASSUME TypeOK, NEW t \in Tasks, NEW to, to # "waiting", call[t] # "raised",
           call' = [call EXCEPT ![t] = to]
    PROVE  Lasting \subseteq Lasting'
<1> USE SandboxAssumption
<1>1. \A u \in Tasks : call[u] = "raised" => call'[u] = "raised"
  BY DEF TypeOK
<1>2. \A u \in Tasks : call[u] # "waiting" => call'[u] # "waiting"
  BY DEF TypeOK
<1> QED BY <1>1, <1>2 DEF Lasting

LEMMA CleanKept == TypeOK /\ CleanInv /\ [Next]_vars => CleanInv'
<1> SUFFICES ASSUME TypeOK, CleanInv, [Next]_vars PROVE CleanInv'
  OBVIOUS
<1> USE SandboxAssumption
<1>1. ASSUME NEW t \in Tasks, NEW S \in SUBSET Modules, present' = present \cup S,
             S \subseteq Lasting', UnderWay' \subseteq UnderWay,
             Lasting \subseteq Lasting', UNCHANGED <<initial, overlap>>,
             \A u \in UnderWay \ UnderWay' : Deps[u] \cup Lazy[u] \subseteq Lasting'
      PROVE CleanInv'
  <2>1. Alone'
    BY <1>1 DEF CleanInv, Alone
  <2>2. NothingLeftBehind'
    BY <1>1 DEF CleanInv, NothingLeftBehind
  <2> QED BY <2>1, <2>2 DEF CleanInv
<1>2. ASSUME NEW t \in Tasks, call' = [call EXCEPT ![t] = "raised"]
      PROVE  /\ Deps[t] \cup Lazy[t] \subseteq Lasting'
             /\ UnderWay' = UnderWay \ {t}
  <2>1. call'[t] = "raised"
    BY <1>2 DEF TypeOK
  <2>2. Deps[t] \cup Lazy[t] \subseteq Lasting'
    BY <2>1 DEF Lasting
  <2>3. UnderWay' = UnderWay \ {t}
    BY <1>2 DEF UnderWay, TypeOK
  <2> QED BY <2>2, <2>3
<1>3. ASSUME NEW t \in StateTasks, NEW to, to # "waiting",
             call' = [call EXCEPT ![t] = to]
      PROVE  Deps[t] \subseteq Lasting'
  <2>1. call'[t] # "waiting"
    BY <1>3 DEF TypeOK
  <2> QED BY <2>1 DEF Lasting
<1>4. ASSUME NEW t \in Tasks, ImportRaises(t) PROVE CleanInv'
  <2>1. PICK done \in SUBSET (Deps[t] \ Broken) : present' = present \cup done
    BY <1>4 DEF ImportRaises
  <2>2. call[t] = "waiting" /\ call' = [call EXCEPT ![t] = "raised"]
    BY <1>4 DEF ImportRaises, Becomes
  <2>3. Lasting \subseteq Lasting'
    BY <2>2, LastingGrows
  <2>4. UNCHANGED <<initial, overlap>>
    BY <1>4 DEF ImportRaises
  <2>5. done \in SUBSET Modules /\ t \notin UnderWay
    BY <2>2 DEF UnderWay
  <2> QED BY <1>1, <1>2, <2>1, <2>2, <2>3, <2>4, <2>5
<1>5. ASSUME NEW t \in Tasks, PlainReturns(t) PROVE CleanInv'
  <2>1. present' = AtCall(t) /\ UNCHANGED <<initial, overlap>>
    BY <1>5, PlainKeeps DEF PlainReturns
  <2>2. call[t] = "waiting" /\ call' = [call EXCEPT ![t] = "returned"]
    BY <1>5 DEF PlainReturns, Becomes
  <2>3. Lasting \subseteq Lasting'
    BY <2>2, LastingGrows
  <2>4. UnderWay' = UnderWay
    BY <2>2 DEF UnderWay, TypeOK
  <2>5. CASE t \in StateTasks
    <3>1. present' = present \cup Deps[t] /\ Deps[t] \in SUBSET Modules
      BY <2>1, <2>5 DEF AtCall
    <3>2. Deps[t] \subseteq Lasting'
      BY <1>3, <2>2, <2>5
    <3> QED BY <1>1, <2>1, <2>3, <2>4, <3>1, <3>2
  <2>6. CASE t \notin StateTasks
    <3>1. present' = present \cup {}
      BY <2>1, <2>6 DEF AtCall
    <3>2. {} \in SUBSET Modules /\ {} \subseteq Lasting'
      OBVIOUS
    <3> QED BY <1>1, <2>1, <2>3, <2>4, <3>1, <3>2
  <2> QED BY <2>5, <2>6
<1>6. ASSUME NEW t \in Tasks, PlainRaises(t) PROVE CleanInv'
  <2>1. PICK done \in SUBSET (Deps[t] \cup Lazy[t]) : present' = AtCall(t) \cup done
    BY <1>6 DEF PlainRaises
  <2>2. call[t] = "waiting" /\ call' = [call EXCEPT ![t] = "raised"]
    BY <1>6 DEF PlainRaises, Becomes
  <2>3. Lasting \subseteq Lasting'
    BY <2>2, LastingGrows
  <2>4. UNCHANGED <<initial, overlap>>
    BY <1>6 DEF PlainRaises
  <2>5. PICK S \in SUBSET (Deps[t] \cup Lazy[t]) : present' = present \cup S
    <3>1. CASE t \in StateTasks
      <4>1. present' = present \cup (Deps[t] \cup done)
        BY <2>1, <3>1 DEF AtCall
      <4>2. Deps[t] \cup done \in SUBSET (Deps[t] \cup Lazy[t])
        OBVIOUS
      <4> QED BY <4>1, <4>2
    <3>2. CASE t \notin StateTasks
      BY <2>1, <3>2 DEF AtCall
    <3> QED BY <3>1, <3>2
  <2>6. S \in SUBSET Modules /\ t \notin UnderWay
    BY <2>2 DEF UnderWay
  <2> QED BY <1>1, <1>2, <2>2, <2>3, <2>4, <2>5, <2>6
<1>7. ASSUME NEW t \in Tasks, StartCoroutine(t) PROVE CleanInv'
  <2> SUFFICES ASSUME ~overlap' PROVE CleanInv'
    BY DEF CleanInv, Alone, NothingLeftBehind
  <2>1. ~overlap /\ UnderWay = {}
    BY <1>7 DEF StartCoroutine
  <2>2. present' = present \cup Deps[t]
    BY <1>7 DEF StartCoroutine
  <2>3. call[t] = "waiting" /\ call' = [call EXCEPT ![t] = "running"]
    BY <1>7 DEF StartCoroutine, Becomes
  <2>4. UnderWay' = {t}
    BY <2>1, <2>3 DEF UnderWay, TypeOK
  <2>5. Lasting \subseteq Lasting'
    BY <2>3, LastingGrows
  <2>6. present \subseteq Lasting
    BY <2>1 DEF CleanInv, NothingLeftBehind
  <2>7. initial'[t] = AtCall(t)
    BY <1>7 DEF StartCoroutine, TypeOK
  <2>8. AtCall(t) \subseteq Lasting'
    BY <1>3, <2>3, <2>5, <2>6 DEF AtCall
  <2>9. Alone'
    BY <2>2, <2>4, <2>7, <2>8 DEF Alone, AtCall
  <2>10. NothingLeftBehind'
    BY <2>2, <2>4, <2>5, <2>6 DEF NothingLeftBehind
  <2> QED BY <2>9, <2>10 DEF CleanInv
<1>8. ASSUME NEW t \in Tasks, CoroutineReturns(t) PROVE CleanInv'
  <2> SUFFICES ASSUME ~overlap' PROVE CleanInv'
    BY DEF CleanInv, Alone, NothingLeftBehind
  <2>1. call[t] = "running" /\ call' = [call EXCEPT ![t] = "returned"]
    BY <1>8 DEF CoroutineReturns, Becomes
  <2>2. t \in UnderWay /\ UnderWay' = UnderWay \ {t}
    BY <2>1 DEF UnderWay, TypeOK
  <2>3. ~overlap
    BY <1>8 DEF CoroutineReturns
  <2>4. UnderWay' = {} /\ initial[t] \subseteq present \cap Lasting
    BY <2>2, <2>3 DEF CleanInv, Alone
  <2>5. present \cup Lazy[t] \in SUBSET Modules
    BY DEF TypeOK
  <2>6. Dropped(present \cup Lazy[t], initial[t], Deps[t]) = initial[t]
    BY <2>4, <2>5, DropRestores
  <2>7. present' = initial[t]
    BY <1>8, <2>6 DEF CoroutineReturns
  <2>8. Lasting \subseteq Lasting'
    BY <2>1, LastingGrows
  <2> QED BY <2>4, <2>7, <2>8 DEF CleanInv, Alone, NothingLeftBehind
<1>9. ASSUME NEW t \in Tasks, CoroutineRaises(t) PROVE CleanInv'
  <2>1. PICK done \in SUBSET Lazy[t] : present' = present \cup done
    BY <1>9 DEF CoroutineRaises
  <2>2. call[t] = "running" /\ call' = [call EXCEPT ![t] = "raised"]
    BY <1>9 DEF CoroutineRaises, Becomes
  <2>3. Lasting \subseteq Lasting'
    BY <2>2, LastingGrows
  <2>4. UNCHANGED <<initial, overlap>>
    BY <1>9 DEF CoroutineRaises
  <2>5. done \in SUBSET Modules
    OBVIOUS
  <2> QED BY <1>1, <1>2, <2>1, <2>2, <2>3, <2>4, <2>5
<1>10. CASE UNCHANGED vars
  BY <1>10 DEF vars, CleanInv, Alone, NothingLeftBehind, Lasting, UnderWay
<1> QED BY <1>4, <1>5, <1>6, <1>7, <1>8, <1>9, <1>10 DEF Next

\* While coroutines do not overlap, nothing stays in sys.modules but the base, the
\* dependencies of state generators and what calls that raised have imported: the
\* modules of calls that returned are gone.
THEOREM ReturnedCallsLeaveNothing == Spec => []NothingLeftBehind
<1>1. Init => CleanInv
  BY DEF Init, CleanInv, Alone, NothingLeftBehind, Lasting, UnderWay
<1>2. CleanInv => NothingLeftBehind
  BY DEF CleanInv
<1> QED BY <1>1, <1>2, TypeCorrect, CleanKept, PTL DEF Spec

\* While coroutines do not overlap, a call that returns leaves exactly the modules
\* that were there when its manager was made: the test of the number of names in
\* drop is no short cut, since none of those can have gone meanwhile.
THEOREM ReturnedCallsRestore == Spec => ReturnRestores
<1> DEFINE Restored(t) ==
      call[t] # "returned" /\ call'[t] = "returned" =>
        \/ overlap
        \/ present' = IF call[t] = "running" THEN initial[t] ELSE AtCall(t)
<1>1. ASSUME TypeOK, CleanInv, [Next]_vars, NEW t \in Tasks PROVE Restored(t)
  <2>1. ASSUME NEW u \in Tasks, PlainReturns(u) PROVE Restored(t)
    <3>1. present' = AtCall(u) /\ call[u] = "waiting"
      BY <1>1, <2>1, PlainKeeps DEF PlainReturns, Becomes
    <3>2. t # u => call'[t] = call[t]
      BY <1>1, <2>1 DEF PlainReturns, Becomes, TypeOK
    <3> QED BY <3>1, <3>2
  <2>2. ASSUME NEW u \in Tasks, CoroutineReturns(u) PROVE Restored(t)
    <3>1. u \in UnderWay /\ present \cup Lazy[u] \in SUBSET Modules
      BY <1>1, <2>2, SandboxAssumption
      DEF CoroutineReturns, Becomes, UnderWay, TypeOK
    <3>2. ~overlap => initial[u] \in SUBSET (present \cup Lazy[u])
      BY <1>1, <3>1 DEF CleanInv, Alone
    <3>3. ~overlap => present' = initial[u]
      BY <2>2, <3>1, <3>2, DropRestores DEF CoroutineReturns
    <3>4. call[u] = "running" /\ (t # u => call'[t] = call[t])
      BY <1>1, <2>2 DEF CoroutineReturns, Becomes, TypeOK
    <3> QED BY <3>3, <3>4
  <2>3. ASSUME NEW u \in Tasks,
               \/ ImportRaises(u) \/ PlainRaises(u)
               \/ StartCoroutine(u) \/ CoroutineRaises(u)
        PROVE  Restored(t)
    BY <1>1, <2>3
    DEF ImportRaises, PlainRaises, StartCoroutine, CoroutineRaises, Becomes, TypeOK
  <2>4. CASE UNCHANGED vars
    BY <2>4 DEF vars
  <2> QED BY <1>1, <2>1, <2>2, <2>3, <2>4 DEF Next
<1>2. TypeOK /\ CleanInv /\ [Next]_vars => \A t \in Tasks : Restored(t)
  BY <1>1
<1>3. Init => CleanInv
  BY DEF Init, CleanInv, Alone, NothingLeftBehind, Lasting, UnderWay
<1> QED
  BY <1>2, <1>3, TypeCorrect, CleanKept, PTL DEF Spec, ReturnRestores
=============================================================================
