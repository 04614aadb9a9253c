----------------------------- MODULE WarmEngines -----------------------------
(***************************************************************************)
(* WarmEnginePool (warm_engines.py) for one role instance: threads that run   *)
(* operations on its engine, and others that discard or hibernate it, abort   *)
(* an operation that takes too long, or shut the pool down.                    *)
(*                                                                         *)
(* The pool's lock covers a look at its entry or a change of it and is never   *)
(* held across anything slow, so such a look is one step.  The lock of         *)
(* `opening' and the operation lock of an entry are held across steps, and     *)
(* whoever waits for an operation lock may find the entry gone.                *)
(***************************************************************************)
EXTENDS Naturals, FiniteSets

CONSTANTS
  Threads,
  Engines,  \* bound: engines opened in all
  NoEngine, NoThread

ASSUME EngineAssumption == NoEngine \notin Engines /\ NoThread \notin Threads

VARIABLES
  entry,       \* the engine in the pool, if any
  engineState, \* per engine: unopened, open or closed
  operator,    \* per engine: the thread with its entry's operation lock
  active,      \* entries whose operation has begun
  aborted,     \* history: engines abort_active took from under an operation
  opening,     \* the thread with the opening lock
  poolClosed,
  thread       \* per thread: its step and the engine it is about

engineVars == <<entry, engineState, operator, active, aborted, opening, poolClosed, thread>>

ThreadSteps == {"idle", "get", "opening", "open", "publish", "lock", "check", "begin",
                "operate", "fatal", "leave", "evict", "recheck", "close", "unlock", "drain"}

EngineTypeOK ==
  /\ entry \in Engines \cup {NoEngine}
  /\ engineState \in [Engines -> {"unopened", "open", "closed"}]
  /\ operator \in [Engines -> Threads \cup {NoThread}]
  /\ active \in SUBSET Engines /\ aborted \in SUBSET Engines
  /\ opening \in Threads \cup {NoThread}
  /\ poolClosed \in BOOLEAN
  /\ thread \in [Threads -> [pc : ThreadSteps, engine : Engines \cup {NoEngine}]]

IdleThread == [pc |-> "idle", engine |-> NoEngine]

EngineInit ==
  /\ entry = NoEngine
  /\ engineState = [e \in Engines |-> "unopened"]
  /\ operator = [e \in Engines |-> NoThread]
  /\ active = {} /\ aborted = {}
  /\ opening = NoThread
  /\ poolClosed = FALSE
  /\ thread = [t \in Threads |-> IdleThread]

AtStep(t, step) == thread[t].pc = step
Step(t, step) == thread' = [thread EXCEPT ![t].pc = step]
StepOn(t, step, e) == thread' = [thread EXCEPT ![t] = [pc |-> step, engine |-> e]]
Rest(t) == thread' = [thread EXCEPT ![t] = IdleThread]

-----------------------------------------------------------------------------
(* _get_or_open *)

RunOperation(t) ==
  /\ AtStep(t, "idle")
  /\ Step(t, "get")
  /\ UNCHANGED <<entry, engineState, operator, active, aborted, opening, poolClosed>>

Get(t) ==
  /\ AtStep(t, "get")
  /\ IF poolClosed THEN Rest(t)
     ELSE IF entry # NoEngine THEN StepOn(t, "lock", entry)
     ELSE Step(t, "opening")
  /\ UNCHANGED <<entry, engineState, operator, active, aborted, opening, poolClosed>>

\* With the opening lock it looks again, and leaves with what another has opened.
EnterOpening(t) ==
  /\ AtStep(t, "opening") /\ opening = NoThread
  /\ IF poolClosed THEN Rest(t) /\ UNCHANGED opening
     ELSE IF entry # NoEngine THEN StepOn(t, "lock", entry) /\ UNCHANGED opening
     ELSE Step(t, "open") /\ opening' = t
  /\ UNCHANGED <<entry, engineState, operator, active, aborted, poolClosed>>

OpenEngine(t) ==
  /\ AtStep(t, "open")
  /\ \/ \E e \in Engines :
          /\ engineState[e] = "unopened"
          /\ engineState' = [engineState EXCEPT ![e] = "open"]
          /\ StepOn(t, "publish", e)
          /\ UNCHANGED opening
     \/ opening' = NoThread /\ Rest(t) /\ UNCHANGED engineState
  /\ UNCHANGED <<entry, operator, active, aborted, poolClosed>>

\* Mutant: a pool that was closed meanwhile is not noticed.
PublishableIgnoringShutdown == entry = NoEngine

\* A pool that was closed, or that got an engine otherwise, does not take this one.
Publishable == entry = NoEngine /\ ~poolClosed

PublishEngine(t) ==
  LET e == thread[t].engine IN
  /\ AtStep(t, "publish")
  /\ IF Publishable
     THEN entry' = e /\ StepOn(t, "lock", e) /\ UNCHANGED engineState
     ELSE /\ engineState' = [engineState EXCEPT ![e] = "closed"]
          /\ IF poolClosed THEN Rest(t) ELSE StepOn(t, "lock", entry)
          /\ UNCHANGED entry
  /\ opening' = NoThread
  /\ UNCHANGED <<operator, active, aborted, poolClosed>>

-----------------------------------------------------------------------------
(* run *)

\* The operation lock of the entry that was found.
LockEntry(t) ==
  LET e == thread[t].engine IN
  /\ \/ AtStep(t, "lock") /\ Step(t, "check")
     \/ AtStep(t, "evict") /\ Step(t, "recheck")
     \/ AtStep(t, "drain") /\ Step(t, "close")
  /\ operator[e] = NoThread
  /\ operator' = [operator EXCEPT ![e] = t]
  /\ UNCHANGED <<entry, engineState, active, aborted, opening, poolClosed>>

IsCurrent(t) == entry = thread[t].engine

\* _lock_current_entry: an entry that was evicted while it waited is let go.
CheckEntry(t) ==
  LET e == thread[t].engine IN
  /\ AtStep(t, "check")
  /\ IF IsCurrent(t)
     THEN Step(t, "begin") /\ UNCHANGED operator
     ELSE StepOn(t, "get", NoEngine) /\ operator' = [operator EXCEPT ![e] = NoThread]
  /\ UNCHANGED <<entry, engineState, active, aborted, opening, poolClosed>>

BeginOperation(t) ==
  /\ AtStep(t, "begin")
  /\ active' = active \cup {thread[t].engine}
  /\ Step(t, "operate")
  /\ UNCHANGED <<entry, engineState, operator, aborted, opening, poolClosed>>

\* The operation returns, or raises; a transport or protocol error costs the engine.
EndOperation(t, fatal) ==
  /\ AtStep(t, "operate")
  /\ IF fatal
     THEN Step(t, "fatal") /\ entry' = IF IsCurrent(t) THEN NoEngine ELSE entry
     ELSE Step(t, "leave") /\ UNCHANGED entry
  /\ UNCHANGED <<engineState, operator, active, aborted, opening, poolClosed>>

LeaveEntry(t) ==
  /\ AtStep(t, "leave")
  /\ active' = active \ {thread[t].engine}
  /\ operator' = [operator EXCEPT ![thread[t].engine] = NoThread]
  /\ Rest(t)
  /\ UNCHANGED <<entry, engineState, aborted, opening, poolClosed>>

-----------------------------------------------------------------------------
(* discard, hibernate, abort_active and shutdown *)

\* hibernate, or discard of the engine that is in the pool.
FindEntry(t) ==
  /\ AtStep(t, "idle") /\ entry # NoEngine
  /\ StepOn(t, "evict", entry)
  /\ UNCHANGED <<entry, engineState, operator, active, aborted, opening, poolClosed>>

\* With the lock: still the pool's entry, or the search begins again.
EvictEntry(t) ==
  LET e == thread[t].engine IN
  /\ AtStep(t, "recheck")
  /\ IF IsCurrent(t)
     THEN entry' = NoEngine /\ Step(t, "close") /\ UNCHANGED operator
     ELSE Rest(t) /\ operator' = [operator EXCEPT ![e] = NoThread] /\ UNCHANGED entry
  /\ UNCHANGED <<engineState, active, aborted, opening, poolClosed>>

\* Only an operation that has begun is aborted.
Abortable == entry # NoEngine /\ entry \in active

\* abort_active, without the operation lock: its holder is what takes too long.
Abort(t) ==
  /\ AtStep(t, "idle") /\ Abortable
  /\ entry' = NoEngine
  /\ aborted' = aborted \cup (active \cap {entry})
  /\ StepOn(t, "close", entry)
  /\ UNCHANGED <<engineState, operator, active, opening, poolClosed>>

\* _close_twice, by the thread that evicted the engine; an engine that fails to close
\* twice is lost and reported, which is not modelled.
CloseEngine(t) ==
  LET e == thread[t].engine IN
  /\ \/ AtStep(t, "fatal") /\ Step(t, "leave")
     \/ AtStep(t, "close") /\ IF operator[e] = t THEN Step(t, "unlock") ELSE Rest(t)
  /\ engineState' = [engineState EXCEPT ![e] = "closed"]
  /\ UNCHANGED <<entry, operator, active, aborted, opening, poolClosed>>

UnlockEntry(t) ==
  /\ AtStep(t, "unlock")
  /\ operator' = [operator EXCEPT ![thread[t].engine] = NoThread]
  /\ Rest(t)
  /\ UNCHANGED <<entry, engineState, active, aborted, opening, poolClosed>>

\* shutdown takes the entry at once and then waits for its operation.
Shutdown(t) ==
  /\ AtStep(t, "idle") /\ ~poolClosed
  /\ poolClosed' = TRUE
  /\ entry' = NoEngine
  /\ IF entry = NoEngine THEN UNCHANGED thread ELSE StepOn(t, "drain", entry)
  /\ UNCHANGED <<engineState, operator, active, aborted, opening>>

PoolStep(t) ==
  \/ Get(t) \/ EnterOpening(t) \/ OpenEngine(t) \/ PublishEngine(t) \/ LockEntry(t)
  \/ CheckEntry(t) \/ BeginOperation(t) \/ LeaveEntry(t) \/ EvictEntry(t) \/ CloseEngine(t)
  \/ UnlockEntry(t) \/ \E fatal \in BOOLEAN : EndOperation(t, fatal)

EngineNext ==
  \E t \in Threads :
    PoolStep(t) \/ RunOperation(t) \/ FindEntry(t) \/ Abort(t) \/ Shutdown(t)

-----------------------------------------------------------------------------
(* Properties *)

\* An operation runs on an open engine, alone, unless abort_active took the engine from
\* under it: hibernation, discard and shutdown wait, whichever of them and of the next
\* operations found the entry first.  And an open engine that is not in the pool is in
\* the hands of a thread that will close it, so that a closed pool leaves none behind.
EnginesAccounted ==
  LET Operating(t) == AtStep(t, "operate") /\ thread[t].engine \notin aborted IN
  /\ \A t \in Threads : Operating(t) =>
       /\ engineState[thread[t].engine] = "open"
       /\ \A u \in Threads \ {t} : ~Operating(u)
  /\ \A e \in Engines : engineState[e] = "open" /\ entry # e =>
       \E t \in Threads : thread[t].engine = e /\ ~AtStep(t, "lock") /\ ~AtStep(t, "evict")
  /\ poolClosed => entry = NoEngine

==============================================================================
