------------------------------ MODULE Sandbox ------------------------------
(***************************************************************************)
(* The modules of a worker process, utils/sandbox.py: sys.modules, the     *)
(* UnsafeSandbox that the last state generator installed, and the          *)
(* ModuleManager that each call makes and drops.  A plain call is one step *)
(* here: it runs on the event loop's thread from its first import to the   *)
(* end of drop.  Coroutines are called in one step and return in another.  *)
(***************************************************************************)
EXTENDS Naturals, FiniteSets

CONSTANTS Modules,      \* names of modules
          Base,         \* those loaded before the first call
          Broken,       \* those whose import raises
          Tasks,
          AsyncTasks,   \* tasks whose function is a coroutine function
          StateTasks,   \* tasks dispatched with result_as_state
          Deps,         \* task -> its dependencies
          Lazy          \* task -> the modules its function imports itself

ASSUME SandboxAssumption ==
    /\ IsFiniteSet(Modules)
    /\ Base \subseteq Modules /\ Broken \subseteq Modules \ Base
    /\ AsyncTasks \subseteq Tasks /\ StateTasks \subseteq Tasks
    /\ Deps \in [Tasks -> SUBSET Modules]
    /\ Lazy \in [Tasks -> SUBSET (Modules \ Broken)]

VARIABLES present,  \* the names in sys.modules
          version,  \* module -> how often it was loaded: names its object
          owner,    \* module -> the object Worker.sandbox refers to, 0 if none
          call,     \* task -> what became of its call
          initial,  \* task -> initial_exists_modules of its call's manager
          older,    \* history: calls under way when the sandbox was installed
          crossed,  \* history: one of them has dropped its modules since
          overlap   \* history: two coroutines have been under way together

vars == <<present, version, owner, call, initial, older, crossed, overlap>>

\* Every variable has its type; a module whose import raises is never loaded.
TypeOK ==
    /\ present \in SUBSET (Modules \ Broken)
    /\ version \in [Modules -> Nat]
    /\ owner \in [Modules -> Nat]
    /\ call \in [Tasks -> {"waiting", "running", "returned", "raised"}]
    /\ initial \in [Tasks -> SUBSET Modules]
    /\ older \in SUBSET Tasks
    /\ crossed \in BOOLEAN
    /\ overlap \in BOOLEAN

Init ==
    /\ present = Base
    /\ version = [m \in Modules |-> IF m \in Base THEN 1 ELSE 0]
    /\ owner = [m \in Modules |-> 0]
    /\ call = [t \in Tasks |-> "waiting"]
    /\ initial = [t \in Tasks |-> {}]
    /\ older = {}
    /\ crossed = FALSE
    /\ overlap = FALSE

-----------------------------------------------------------------------------
\* import_module loads a module that is not in sys.modules: a new object.
Loading(S) ==
    [m \in Modules |-> version[m] + IF m \in S \ present THEN 1 ELSE 0]

\* Variants of Dropped: it deletes the call's own dependencies; it never deletes;
\* it keeps the dependencies for the next call.
DroppedDeps(loaded, exists, deps) == loaded \ deps
DroppedNever(loaded, exists, deps) == loaded
DroppedOthers(loaded, exists, deps) == loaded \cap (exists \cup deps)

\* ModuleManager.drop: what is left of the loaded modules, of which "exists" were
\* there when the manager was made.  It looks at the number of names first.
Dropped(loaded, exists, deps) ==
    IF Cardinality(loaded) = Cardinality(exists)
      THEN loaded
      ELSE loaded \cap exists

\* Variant of AtCall: the manager is made before the sandbox imports anything.
AtCallBefore(t) == present

\* The names in sys.modules when the call's own manager is made: a state
\* generator's dependencies are imported by its new sandbox before.
AtCall(t) == IF t \in StateTasks THEN present \cup Deps[t] ELSE present

UnderWay == {t \in Tasks : call[t] = "running"}

\* Worker.sandbox = UnsafeSandbox(dependencies), for a state generator.
Install(t) ==
    IF t \in StateTasks
      THEN /\ owner' = [m \in Modules |->
                          IF m \in Deps[t] THEN Loading(Deps[t])[m] ELSE 0]
           /\ older' = UnderWay
           /\ crossed' = FALSE
      ELSE UNCHANGED <<owner, older, crossed>>

\* Variant of Importable: errors of an import are not raised.
ImportableAnyway(t) == TRUE

Importable(t) == Deps[t] \cap Broken = {}

Becomes(t, from, to) == call[t] = from /\ call' = [call EXCEPT ![t] = to]

\* The imports of a call raise, or the alarm interrupts them: some are done.
ImportRaises(t) ==
    /\ Becomes(t, "waiting", "raised")
    /\ \E done \in SUBSET (Deps[t] \ Broken) :
         /\ present' = present \cup done
         /\ version' = Loading(done)
    /\ UNCHANGED <<owner, initial, older, crossed, overlap>>

\* call_with: the function returns and the modules of the call are dropped.
PlainReturns(t) ==
    /\ t \notin AsyncTasks
    /\ Importable(t)
    /\ Becomes(t, "waiting", "returned")
    /\ present' = Dropped(present \cup Deps[t] \cup Lazy[t], AtCall(t), Deps[t])
    /\ version' = Loading(Deps[t] \cup Lazy[t])
    /\ Install(t)
    /\ UNCHANGED <<initial, overlap>>

\* call_with: the function raises or is stopped; drop is not reached, or is
\* interrupted between two deletions.
PlainRaises(t) ==
    /\ t \notin AsyncTasks
    /\ Importable(t)
    /\ Becomes(t, "waiting", "raised")
    /\ \E done \in SUBSET (Deps[t] \cup Lazy[t]) :
         /\ present' = AtCall(t) \cup done
         /\ version' = Loading(Deps[t] \cup done)
    /\ Install(t)
    /\ UNCHANGED <<initial, overlap>>

\* async_call_with up to the first await of the function.
StartCoroutine(t) ==
    /\ t \in AsyncTasks
    /\ Importable(t)
    /\ Becomes(t, "waiting", "running")
    /\ present' = present \cup Deps[t]
    /\ version' = Loading(Deps[t])
    /\ initial' = [initial EXCEPT ![t] = AtCall(t)]
    /\ overlap' = (overlap \/ UnderWay # {})
    /\ Install(t)

\* The function imports its own modules, returns, and the call is dropped.
CoroutineReturns(t) ==
    /\ Becomes(t, "running", "returned")
    /\ present' = Dropped(present \cup Lazy[t], initial[t], Deps[t])
    /\ version' = Loading(Lazy[t])
    /\ crossed' = (crossed \/ t \in older)
    /\ UNCHANGED <<owner, initial, older, overlap>>

CoroutineRaises(t) ==
    /\ Becomes(t, "running", "raised")
    /\ \E done \in SUBSET Lazy[t] :
         /\ present' = present \cup done
         /\ version' = Loading(done)
    /\ UNCHANGED <<owner, initial, older, crossed, overlap>>

Next == \E t \in Tasks :
    \/ ImportRaises(t)
    \/ PlainReturns(t) \/ PlainRaises(t)
    \/ StartCoroutine(t) \/ CoroutineReturns(t) \/ CoroutineRaises(t)

Spec == Init /\ [][Next]_vars

-----------------------------------------------------------------------------
\* What the interpreter and the worker itself have loaded is never deleted.
BaseStays == Base \subseteq present

\* The modules that the state was made with are still the ones in sys.modules,
\* so a call that names one of them gets the same object.
SandboxIsLoaded ==
    \A m \in Modules : owner[m] # 0 => m \in present /\ version[m] = owner[m]

\* Calls keep the modules of the sandbox loaded, with one exception: a coroutine
\* that was called before the sandbox was installed deletes them when it returns.
SandboxStays == crossed \/ SandboxIsLoaded

\* What stays in sys.modules for good: the base, the dependencies of state
\* generators, and all that calls which raised may have imported.
Lasting ==
    Base \cup (UNION {Deps[t] : t \in {u \in StateTasks : call[u] # "waiting"}})
         \cup (UNION {Deps[t] \cup Lazy[t] : t \in {u \in Tasks : call[u] = "raised"}})

\* As long as no two coroutines overlap, sys.modules holds no others but those and
\* the modules of calls under way: only calls that raise leave anything behind.
NothingLeftBehind ==
    overlap \/ present \subseteq
                 Lasting \cup (UNION {Deps[t] \cup Lazy[t] : t \in UnderWay})

\* As long as no two coroutines have overlapped, a call that returns leaves
\* sys.modules exactly as its manager found it: no module more, and none less.
\* What plain calls imported while a coroutine waited goes with it.
ReturnRestores ==
    [][\A t \in Tasks : call[t] # "returned" /\ call'[t] = "returned" =>
         \/ overlap
         \/ present' = IF call[t] = "running" THEN initial[t] ELSE AtCall(t)]_vars
=============================================================================
