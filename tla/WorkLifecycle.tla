---------------------------- MODULE WorkLifecycle ----------------------------
(***************************************************************************)
(* The durable life of work items: LifecycleStore's versions and sponsor     *)
(* gates (lifecycle.py) and ReliabilityStore's 3/3/1 retry policy, which     *)
(* alone opens the way to a terminal error (reliability.py).                 *)
(*                                                                         *)
(* Every operation is one transaction that locks the work item first, so an  *)
(* action is a whole operation; what callers read beforehand (seen) may be    *)
(* old by then.  A call repeated under its idempotency key or attempt id     *)
(* changes nothing, nor does a rejected one: neither is an action.           *)
(***************************************************************************)
EXTENDS Naturals, FiniteSets

CONSTANTS
  Works,        \* work items
  Gates,        \* gate ids
  Sponsors,     \* the project's sponsors
  Callers,      \* API callers that work from a version they have read
  Incidents,    \* failure incidents, by their idempotency key
  None

ASSUME LifecycleAssumption == IsFiniteSet(Gates)

VARIABLES
  work,      \* work_items: status and version
  seen,      \* per caller: the work item row it last read
  gate,      \* gates: status, work item, decision per asked sponsor
  incident,  \* failure_incidents: work item, status, next stage and attempt number
  attempts,  \* failure_attempts of each incident
  request,   \* recovery_requests: the status for each incident
  routed,    \* queue envelopes the policy has routed, <<incident, suffix>>
  routable   \* roles ("owner", "pm") that have a queue to be routed to

lifecycleVars == <<work, seen, gate, incident, attempts, request, routed, routable>>

Stages == {"technical", "pm_correction", "recovery"}

\* An envelope names the stage and attempt it asks for, or the resumption of work.
Envelope(c, stage, n) == <<c, stage, n>>
Resume(c) == <<c, "resume", 1>>

Envelopes == Incidents \X (Stages \cup {"resume"}) \X (1..3)

WorkRow == [status : {"none", "new", "active", "gated", "completed", "error"},
            version : 0..(4 + 2 * Cardinality(Gates))]

Attempt == [stage : Stages, n : 1..3, outcome : {"succeeded", "failed"},
            correction : 0..3]

TypeOK ==
  /\ work \in [Works -> WorkRow]
  /\ seen \in [Callers -> [w : Works \cup {None}, row : WorkRow]]
  /\ gate \in [Gates -> [status : {"none", "pending", "approved", "rejected"},
                         w : Works \cup {None},
                         asked : SUBSET Sponsors,
                         decision : [Sponsors -> {"none", "approved", "rejected"}]]]
  /\ incident \in [Incidents ->
       [w : Works \cup {None},
        status : {"none", "active", "recovered", "terminal_eligible", "terminal"},
        stage : Stages \cup {"none"}, n : 0..3]]
  /\ attempts \in [Incidents -> SUBSET Attempt]
  /\ request \in [Incidents -> {"none", "pending", "succeeded", "failed"}]
  /\ routed \in SUBSET Envelopes
  /\ routable \in SUBSET {"owner", "pm"}

NoWork == [status |-> "none", version |-> 0]

NoGate == [status |-> "none", w |-> None, asked |-> {},
           decision |-> [s \in Sponsors |-> "none"]]

NoIncident == [w |-> None, status |-> "none", stage |-> "none", n |-> 0]

LifecycleInit ==
  /\ work = [w \in Works |-> NoWork]
  /\ seen = [a \in Callers |-> [w |-> None, row |-> NoWork]]
  /\ gate = [g \in Gates |-> NoGate]
  /\ incident = [c \in Incidents |-> NoIncident]
  /\ attempts = [c \in Incidents |-> {}]
  /\ request = [c \in Incidents |-> "none"]
  /\ routed = {}
  /\ routable = {"owner", "pm"}

policyVars == <<incident, attempts, request, routed, routable>>

-----------------------------------------------------------------------------
(* Work items and gates *)

\* Mutant: resolving and reopening gates moves the version twice.
SetStatusTwice(w, status) ==
  work' = [work EXCEPT ![w] = [status |-> status, version |-> @.version + 2]]

\* Every change of a work item moves its version on.
SetStatus(w, status) ==
  work' = [work EXCEPT ![w] = [status |-> status, version |-> @.version + 1]]

CreateWorkItem(w) ==
  /\ work[w].status = "none"
  /\ SetStatus(w, "new")
  /\ UNCHANGED <<seen, gate, policyVars>>

\* get_work_item, before a caller decides on something.
Read(a, w) ==
  /\ work[w].status # "none"
  /\ seen' = [seen EXCEPT ![a] = [w |-> w, row |-> work[w]]]
  /\ UNCHANGED <<work, gate, policyVars>>

\* expected_version against the locked row.
Fresh(a) == seen[a].w # None /\ work[seen[a].w].version = seen[a].row.version

Unresolved(w) ==
  {c \in Incidents : incident[c].w = w /\ incident[c].status \in {"active", "terminal_eligible"}}

\* transition_work_item to active or completed.
Activate(a) ==
  LET w == seen[a].w IN
  /\ Fresh(a) /\ work[w].status = "new"
  /\ SetStatus(w, "active")
  /\ UNCHANGED <<seen, gate, policyVars>>

\* No failure incident of the work item is still open.
Completable(w) == Unresolved(w) = {}

Complete(a) ==
  LET w == seen[a].w IN
  /\ Fresh(a) /\ work[w].status = "active"
  /\ Completable(w)
  /\ SetStatus(w, "completed")
  /\ UNCHANGED <<seen, gate, policyVars>>

\* The incident whose exhausted chain a terminal error consumes.
Exhausted(w, c) == c \in Unresolved(w) /\ incident[c].status = "terminal_eligible"

\* transition_work_item to error.
Fail(a, c) ==
  LET w == seen[a].w IN
  /\ Fresh(a) /\ work[w].status = "active"
  /\ Exhausted(w, c)
  /\ SetStatus(w, "error")
  /\ incident' = [incident EXCEPT ![c].status = "terminal", ![c].stage = "none", ![c].n = 0]
  /\ UNCHANGED <<seen, gate, attempts, request, routed, routable>>

OpenGate(a, g, asked) ==
  LET w == seen[a].w IN
  /\ Fresh(a) /\ work[w].status = "active"
  /\ gate[g].status = "none" /\ asked # {}
  /\ gate' = [gate EXCEPT ![g] = [NoGate EXCEPT !.status = "pending", !.w = w, !.asked = asked]]
  /\ SetStatus(w, "gated")
  /\ UNCHANGED <<seen, policyVars>>

\* Mutant: a sponsor who has not decided yet may still do so.
DecidableAlways(g, s) == gate[g].status # "none" /\ gate[g].decision[s] = "none"

Decidable(g, s) == gate[g].status = "pending" /\ gate[g].decision[s] = "none"

\* One decision of one asked sponsor resolves the gate.
DecideGate(g, s, decision) ==
  /\ Decidable(g, s) /\ s \in gate[g].asked
  /\ work[gate[g].w].status = "gated"
  /\ gate' = [gate EXCEPT ![g].status = decision, ![g].decision[s] = decision]
  /\ SetStatus(gate[g].w, "active")
  /\ UNCHANGED <<seen, policyVars>>

-----------------------------------------------------------------------------
(* The retry policy *)

RoleOf(stage) == IF stage = "pm_correction" THEN "pm" ELSE "owner"

\* _route, idempotent per envelope; a missing route rolls the transaction back.
Routes(stage, envelope) ==
  /\ RoleOf(stage) \in routable
  /\ routed' = routed \cup {envelope}

Start(c, w) ==
  /\ incident[c].status = "none"
  /\ work[w].status = "active" /\ Unresolved(w) = {}
  /\ incident' = [incident EXCEPT
       ![c] = [w |-> w, status |-> "active", stage |-> "technical", n |-> 1]]
  /\ Routes("technical", Envelope(c, "technical", 1))
  /\ UNCHANGED <<work, seen, gate, attempts, request, routable>>

\* record_attempt: only the attempt that is due, on active work.
Due(c, stage) ==
  /\ incident[c].status = "active" /\ incident[c].stage = stage
  /\ work[incident[c].w].status = "active"

\* The corrections tried so far, numbered in the order of their first use.
Instructed(c) == {t.correction : t \in attempts[c]} \ {0}

Recorded(c, outcome, correction) ==
  attempts' = [attempts EXCEPT ![c] = @ \cup
    {[stage |-> incident[c].stage, n |-> incident[c].n, outcome |-> outcome,
      correction |-> correction]}]

\* Mutant: the corrections begin one failure early.
LimitTwo(stage) == IF stage = "recovery" THEN 1 ELSE 2

Limit(stage) == IF stage = "recovery" THEN 1 ELSE 3

\* _advance_failed, the stages that are followed by another attempt.
NextAttempt(c) ==
  IF incident[c].n < Limit(incident[c].stage)
  THEN [stage |-> incident[c].stage, n |-> incident[c].n + 1]
  ELSE [stage |-> IF incident[c].stage = "technical" THEN "pm_correction" ELSE "recovery",
        n |-> 1]

Advance(c, to) == incident' = [incident EXCEPT ![c].stage = to.stage, ![c].n = to.n]

Close(c, status) ==
  incident' = [incident EXCEPT ![c].status = status, ![c].stage = "none", ![c].n = 0]

\* The correction that goes with an attempt of this stage: one that was not tried yet.
Instructs(c, stage, correction) ==
  correction = IF stage = "pm_correction" THEN Cardinality(Instructed(c)) + 1 ELSE 0

AttemptFailed(c, stage, correction) ==
  /\ stage # "recovery" /\ Due(c, stage) /\ Instructs(c, stage, correction)
  /\ Recorded(c, "failed", correction)
  /\ Advance(c, NextAttempt(c))
  /\ LET to == NextAttempt(c) IN
     IF to.stage = "recovery"
     THEN /\ request' = [request EXCEPT ![c] = "pending"]
          /\ UNCHANGED routed
     ELSE /\ Routes(to.stage, Envelope(c, to.stage, to.n))
          /\ UNCHANGED request
  /\ UNCHANGED <<work, seen, gate, routable>>

AttemptSucceeded(c, stage, correction) ==
  /\ stage # "recovery" /\ Due(c, stage) /\ Instructs(c, stage, correction)
  /\ Recorded(c, "succeeded", correction)
  /\ Close(c, "recovered")
  /\ UNCHANGED <<work, seen, gate, request, routed, routable>>

\* The attempt of the recovery stage; its caller has a reported result to show.
RecoveryFailed(c) ==
  /\ Due(c, "recovery")
  /\ Recorded(c, "failed", 0)
  /\ request' = [request EXCEPT ![c] = "failed"]
  /\ Close(c, "terminal_eligible")
  /\ UNCHANGED <<work, seen, gate, routed, routable>>

\* Mutant: a repaired incident is closed, and the owner is not called back.
RecoverySilent(c) ==
  /\ Due(c, "recovery")
  /\ Recorded(c, "succeeded", 0)
  /\ request' = [request EXCEPT ![c] = "succeeded"]
  /\ Close(c, "recovered")
  /\ UNCHANGED <<work, seen, gate, routed, routable>>

RecoverySucceeded(c) ==
  /\ Due(c, "recovery")
  /\ Recorded(c, "succeeded", 0)
  /\ request' = [request EXCEPT ![c] = "succeeded"]
  /\ Routes("recovery", Resume(c))
  /\ Close(c, "recovered")
  /\ UNCHANGED <<work, seen, gate, routable>>

\* A role's queue is created, or its route disabled.
SetRoutable(role) ==
  /\ routable' = IF role \in routable THEN routable \ {role} ELSE routable \cup {role}
  /\ UNCHANGED <<work, seen, gate, incident, attempts, request, routed>>

LifecycleNext ==
  \/ \E w \in Works : CreateWorkItem(w)
  \/ \E a \in Callers, w \in Works : Read(a, w)
  \/ \E a \in Callers : Activate(a)
  \/ \E a \in Callers : Complete(a)
  \/ \E a \in Callers, c \in Incidents : Fail(a, c)
  \/ \E a \in Callers, g \in Gates : \E asked \in SUBSET Sponsors : OpenGate(a, g, asked)
  \/ \E g \in Gates, s \in Sponsors :
       \E decision \in {"approved", "rejected"} : DecideGate(g, s, decision)
  \/ \E c \in Incidents, w \in Works : Start(c, w)
  \/ \E c \in Incidents, stage \in Stages, correction \in 0..3 :
       AttemptFailed(c, stage, correction)
  \/ \E c \in Incidents, stage \in Stages, correction \in 0..3 :
       AttemptSucceeded(c, stage, correction)
  \/ \E role \in {"owner", "pm"} : SetRoutable(role)

\* On its own the policy takes any supervised result; RecoverySupervisor says which
\* results there are.
PolicyNext ==
  \/ LifecycleNext
  \/ \E c \in Incidents : RecoveryFailed(c)
  \/ \E c \in Incidents : RecoverySucceeded(c)

LifecycleSpec == LifecycleInit /\ [][PolicyNext]_lifecycleVars

-----------------------------------------------------------------------------
(* Properties *)

\* Work waits in a gate exactly while one gate of it is pending, and a resolved gate
\* carries the decision of exactly one sponsor that was asked.  And a version stands for
\* one status: a caller whose version is still current decides on the status it saw, even
\* if the work was gated and released in between (lifecycle.py open_gate, decide_gate).
GateHoldsWork ==
  /\ \A w \in Works :
       Cardinality({g \in Gates : gate[g].w = w /\ gate[g].status = "pending"})
         = IF work[w].status = "gated" THEN 1 ELSE 0
  /\ \A g \in Gates : gate[g].status \in {"approved", "rejected"} =>
       \E s \in gate[g].asked :
         gate[g].decision = [[t \in Sponsors |-> "none"] EXCEPT ![s] = gate[g].status]
  /\ \A a \in Callers :
       LET w == seen[a].w IN
       w # None /\ seen[a].row.version = work[w].version => seen[a].row = work[w]

\* An unresolved failure never waits for nobody: the attempt that is due has its queue
\* envelope, a repair has its pending request, and repaired work its resumption, in
\* whatever order routes vanish, gates open and attempts arrive.
NeverStranded ==
  \A c \in Incidents :
    /\ incident[c].status = "active" =>
         IF incident[c].stage = "recovery" THEN request[c] = "pending"
         ELSE Envelope(c, incident[c].stage, incident[c].n) \in routed
    /\ request[c] = "succeeded" => Resume(c) \in routed

\* Work ends in error only after three technical failures, three failed corrections
\* that all differ and a failed recovery; it completes only without open incident.
TerminalEarned ==
  /\ \A w \in Works : work[w].status = "error" =>
       \E c \in Incidents :
         /\ incident[c].w = w /\ incident[c].status = "terminal" /\ request[c] = "failed"
         /\ {<<t.stage, t.n>> : t \in attempts[c]} =
              ({"technical", "pm_correction"} \X (1..3)) \cup {<<"recovery", 1>>}
         /\ \A t \in attempts[c] : t.outcome = "failed"
         /\ Cardinality(Instructed(c)) = 3
  /\ \A w \in Works : work[w].status = "completed" => Unresolved(w) = {}

\* How the rows map to GatedWork: a work item is held by its gate that is pending.
LifeOf(w) == IF work[w].status = "none" THEN "new" ELSE work[w].status

HolderOf(w) ==
  IF work[w].status = "gated"
  THEN CHOOSE g \in Gates : gate[g].w = w /\ gate[g].status = "pending"
  ELSE None

Gating == INSTANCE GatedWork WITH
  Work <- Works, Unnamed <- None, NoGate <- None,
  Outcomes <- {"approved", "rejected"}, Ends <- {"completed", "error"},
  life <- [w \in Works |-> LifeOf(w)], heldBy <- [w \in Works |-> HolderOf(w)],
  outcome <- [g \in Gates |-> gate[g].status]

\* Whatever version callers have read, and however failures, corrections and recoveries go on
\* meanwhile, work ends only when no gate holds it, and is released by the resolution of its
\* gate alone (lifecycle.py transition_work_item, open_gate, decide_gate).
LifecycleGatesWork == Gating!GatedSpec

==============================================================================
