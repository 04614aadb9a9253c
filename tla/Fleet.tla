-------------------------------- MODULE Fleet --------------------------------
(***************************************************************************)
(* Autoscaling and hibernation of the instances of one role (fleet.py), the   *)
(* containers they run in (docker_fleet.py), and as much of the role's queue  *)
(* and workers (queues.py, role_service.py) as the scaler looks at.           *)
(*                                                                         *)
(* A reconciliation reads the policies, plans under the role's advisory lock, *)
(* and then applies and completes each planned action outside of it.  Several *)
(* may run at once: the API's loop and manual calls.  A worker's claim reads  *)
(* the status of its instance without a lock and takes its lease later.       *)
(***************************************************************************)
EXTENDS Naturals, Sequences, SequencesExt, FiniteSets, FiniteSetsExt

CONSTANTS
  Instances,    \* the configured instance pool of the role
  Items,        \* queue items for the role
  Reconcilers,  \* callers of reconcile
  Loop,         \* the one of them that the API repeats for ever
  Policies,     \* scaling policies that can be configured
  MaxFaults,    \* bound: supervisor failures and reconcilers that die
  None

ASSUME FleetAssumption ==
  /\ IsFiniteSet(Instances) /\ None \notin Instances
  /\ IsFiniteSet(Reconcilers) /\ Loop \in Reconcilers
  /\ MaxFaults \in Nat
  /\ \A policy \in Policies :
       /\ policy.min \in Nat /\ policy.max \in Nat \ {0} /\ policy.hibernation \in BOOLEAN
       /\ policy.min <= policy.max /\ policy.max <= Cardinality(Instances)

VARIABLES
  inst,       \* role_instances: status, lifecycle action id, idle_since
  worker,     \* container and worker of each instance
  item,       \* queue_items: status and the owner of the unreleased lease
  waited,     \* ready items past scale_after_seconds
  held,       \* instances with an active thread operation or undispatched outbox rows
  rec,        \* per reconciler: where it is, its policy and its actions
  faults

queueVars == <<worker, item, waited, held>>

vars == <<inst, queueVars, rec, faults>>

ActionIds == 1..(Cardinality(Instances) * (Cardinality(Reconcilers) + 1))

Actions == [id : ActionIds, instance : Instances, action : {"wake", "hibernate"}]

\* An action id is there in the two transitional states and in no other.
TypeOK ==
  /\ inst \in [Instances ->
       [status : {"configured", "starting", "running", "hibernating", "hibernated"},
        action : ActionIds \cup {0}, idle : {"busy", "since", "grace"}]]
  /\ \A i \in Instances :
       inst[i].action # 0 <=> inst[i].status \in {"starting", "hibernating"}
  /\ worker \in [Instances -> {"stopped", "idle", "claiming"} \cup Items]
  /\ item \in [Items -> [status : {"new", "ready", "leased", "done"},
                         owner : Instances \cup {None}]]
  /\ \A k \in Items : item[k].owner # None <=> item[k].status = "leased"
  /\ waited \in SUBSET Items
  /\ held \in SUBSET Instances
  /\ rec \in [Reconcilers ->
       [pc : {"idle", "plan", "apply", "complete"}, policy : Policies \cup {None},
        todo : BoundedSeq(Actions, Cardinality(Instances))]]
  /\ faults \in 0..MaxFaults

Resting == [pc |-> "idle", policy |-> None, todo |-> <<>>]

Init ==
  /\ inst = [i \in Instances |-> [status |-> "configured", action |-> 0, idle |-> "busy"]]
  /\ worker = [i \in Instances |-> "stopped"]
  /\ item = [k \in Items |-> [status |-> "new", owner |-> None]]
  /\ waited = {} /\ held = {}
  /\ rec = [r \in Reconcilers |-> Resting]
  /\ faults = 0

-----------------------------------------------------------------------------
(* The queue and its workers *)

Ready == {k \in Items : item[k].status = "ready"}

Enqueue(k) ==
  /\ item[k].status = "new"
  /\ item' = [item EXCEPT ![k].status = "ready"]
  /\ UNCHANGED <<inst, worker, waited, held, rec, faults>>

\* The first statement of claim: any other status than running is refused.
ClaimReads(i) ==
  /\ worker[i] = "idle" /\ inst[i].status = "running"
  /\ worker' = [worker EXCEPT ![i] = "claiming"]
  /\ UNCHANGED <<inst, item, waited, held, rec, faults>>

\* The rest of claim: an item is taken if one is ready.
ClaimTakes(i) ==
  /\ worker[i] = "claiming"
  /\ \/ \E k \in Ready :
          /\ item' = [item EXCEPT ![k] = [status |-> "leased", owner |-> i]]
          /\ worker' = [worker EXCEPT ![i] = k]
          /\ waited' = waited \ {k}
     \/ /\ Ready = {}
        /\ worker' = [worker EXCEPT ![i] = "idle"]
        /\ UNCHANGED <<item, waited>>
  /\ UNCHANGED <<inst, held, rec, faults>>

StartTurn(i) ==
  /\ worker[i] \in Items
  /\ held' = held \cup {i}
  /\ UNCHANGED <<inst, worker, item, waited, rec, faults>>

\* The turn and its thread operation end; its item is completed or released, and there
\* may be output to send.
FinishTurn(i, status) ==
  /\ worker[i] \in Items
  /\ item' = [item EXCEPT ![worker[i]] = [status |-> status, owner |-> None]]
  /\ worker' = [worker EXCEPT ![i] = "idle"]
  /\ held' \in {held \ {i}, held \cup {i}}
  /\ UNCHANGED <<inst, waited, rec, faults>>

\* The outbox is dispatched, and a later turn of the thread supersedes an operation
\* that a stopped worker left.
Dispatch(i) ==
  /\ i \in held /\ worker[i] \notin Items
  /\ held' = held \ {i}
  /\ UNCHANGED <<inst, worker, item, waited, rec, faults>>

\* A worker on the item renews its lease; that of a stopped one lapses, and the next
\* claim of any role of the project reclaims it.
Reclaim(k) ==
  /\ item[k].status = "leased" /\ worker[item[k].owner] # k
  /\ item' = [item EXCEPT ![k] = [status |-> "ready", owner |-> None]]
  /\ UNCHANGED <<inst, worker, waited, held, rec, faults>>

-----------------------------------------------------------------------------
(* Time *)

ItemWaits(k) ==
  /\ k \in Ready \ waited
  /\ waited' = waited \cup {k}
  /\ UNCHANGED <<inst, worker, item, held, rec, faults>>

\* idle_grace_seconds since idle_since, which only a plan resets.
GraceElapses(i) ==
  /\ inst[i].idle = "since"
  /\ inst' = [inst EXCEPT ![i].idle = "grace"]
  /\ UNCHANGED <<queueVars, rec, faults>>

-----------------------------------------------------------------------------
(* reconcile *)

\* _plan reads the policies before it takes the lock.  An operator may configure
\* another one at any time, so any policy may be found, and be out of date at once.
ReadPolicies(r) ==
  /\ rec[r].pc = "idle"
  /\ \E policy \in Policies :
       rec' = [rec EXCEPT ![r] = [Resting EXCEPT !.pc = "plan", !.policy = policy]]
  /\ UNCHANGED <<inst, queueVars, faults>>

WithStatus(status) == {i \in Instances : inst[i].status = status}

Leased(i) == \E k \in Items : item[k].owner = i

Busy(i) == Leased(i) \/ i \in held

\* Read as `running AND leased OR held`, which is how SQL binds it.
BusyCount == Cardinality({i \in Instances :
  (inst[i].status = "running" /\ Leased(i)) \/ i \in held})

Transition(i) == inst[i].status \in {"starting", "hibernating"}

PendingActions == SetToSeq(
  {[id |-> inst[i].action, instance |-> i,
    action |-> IF inst[i].status = "starting" THEN "wake" ELSE "hibernate"] :
     i \in {j \in Instances : Transition(j)}})

\* _refresh_idle_state
Refreshed == [i \in Instances |->
  IF inst[i].status # "running" THEN inst[i]
  ELSE IF Busy(i) THEN [inst[i] EXCEPT !.idle = "busy"]
  ELSE IF inst[i].idle = "busy" THEN [inst[i] EXCEPT !.idle = "since"]
  ELSE inst[i]]

Minimum(a, b) == IF a < b THEN a ELSE b

Above(a, b) == IF a > b THEN a - b ELSE 0

Effective == Cardinality(WithStatus("running")) + Cardinality(WithStatus("starting"))

\* Mutant: a zero-sized role waits for the threshold like any other.
WakeCountPatient(p) ==
  LET free == Above(Cardinality(WithStatus("running")), BusyCount)
      wanted == IF Cardinality(Ready) > free /\ Ready \cap waited # {} /\ Effective > 0 THEN 1 ELSE 0
  IN  Minimum(Max({Above(p.min, Effective), wanted}), Above(p.max, Effective))

\* Mutant: work that waits wakes one more, whatever the maximum.
WakeCountUncapped(p) ==
  LET free == Above(Cardinality(WithStatus("running")), BusyCount)
      wanted == IF \/ Ready # {} /\ Effective = 0
                   \/ Cardinality(Ready) > free /\ Ready \cap waited # {}
                THEN 1 ELSE 0
  IN  Max({Above(p.min, Effective), wanted})

WakeCount(p) ==
  LET free == Above(Cardinality(WithStatus("running")), BusyCount)
      wanted == IF \/ Ready # {} /\ Effective = 0
                   \/ /\ Cardinality(Ready) > free /\ Ready \cap waited # {}
                      /\ Effective < p.max
                THEN 1 ELSE 0
  IN  Minimum(Max({Above(p.min, Effective), wanted}), Above(p.max, Effective))

Surplus(p) == Above(Cardinality(WithStatus("running")), p.min)

Wakeable == {i \in Instances : inst[i].status \in {"hibernated", "configured"}}

Hibernatable == {i \in WithStatus("running") : Refreshed[i].idle = "grace" /\ ~Busy(i)}

HeldIds == UNION {{rec[r].todo[n].id : n \in DOMAIN rec[r].todo} : r \in Reconcilers}

\* uuid4: ids nobody holds any more stand for new ones, always the least of them.
FreshIds(n) == {ids \in kSubset(n, ActionIds \ HeldIds) :
  \A fresh \in ids, other \in ActionIds \ (HeldIds \cup ids) : fresh < other}

\* _transition_candidates, for at most `limit` of the candidates.
Planned(r, candidates, action, limit) ==
  \E chosen \in kSubset(Minimum(limit, Cardinality(candidates)), candidates) :
  \E fresh \in FreshIds(Cardinality(chosen)) :
    LET order == SetToSeq(chosen)
        ids == SetToSeq(fresh)
        status == IF action = "wake" THEN "starting" ELSE "hibernating"
    IN
    /\ inst' = [i \in Instances |->
         IF i \in chosen
         THEN [Refreshed[i] EXCEPT !.status = status,
                !.action = ids[CHOOSE n \in DOMAIN order : order[n] = i]]
         ELSE Refreshed[i]]
    /\ rec' = [rec EXCEPT ![r] =
         IF chosen = {} THEN Resting
         ELSE [pc |-> "apply", policy |-> None,
               todo |-> [n \in DOMAIN order |->
                 [id |-> ids[n], instance |-> order[n], action |-> action]]]]

\* _plan_role in its transaction: what is pending comes first.
Plan(r) ==
  LET p == rec[r].policy IN
  /\ rec[r].pc = "plan"
  /\ \/ /\ PendingActions # <<>>
        /\ rec' = [rec EXCEPT ![r] = [pc |-> "apply", policy |-> None, todo |-> PendingActions]]
        /\ UNCHANGED inst
     \/ /\ PendingActions = <<>> /\ WakeCount(p) > 0
        /\ Planned(r, Wakeable, "wake", WakeCount(p))
     \/ /\ PendingActions = <<>> /\ WakeCount(p) = 0
        /\ IF p.hibernation /\ Ready = {} /\ Surplus(p) > 0
           THEN Planned(r, Hibernatable, "hibernate", Surplus(p))
           ELSE inst' = Refreshed /\ rec' = [rec EXCEPT ![r] = Resting]
  /\ UNCHANGED <<queueVars, faults>>

Current(r) == Head(rec[r].todo)

\* A stopped container takes its worker with it, whatever the worker is doing.
Apply(r) ==
  LET i == Current(r).instance IN
  /\ rec[r].pc = "apply"
  /\ worker' = [worker EXCEPT ![i] =
       IF Current(r).action = "hibernate" THEN "stopped" ELSE IF @ = "stopped" THEN "idle" ELSE @]
  /\ rec' = [rec EXCEPT ![r].pc = "complete"]
  /\ UNCHANGED <<inst, item, waited, held, faults>>

Rest(r) ==
  IF Len(rec[r].todo) = 1 THEN Resting
  ELSE [rec[r] EXCEPT !.pc = "apply", !.todo = Tail(@)]

\* The supervisor raises; the row keeps its action for a later reconciliation.
ApplyFails(r) ==
  /\ rec[r].pc = "apply" /\ faults < MaxFaults
  /\ rec' = [rec EXCEPT ![r] = Rest(r)]
  /\ faults' = faults + 1
  /\ UNCHANGED <<inst, queueVars>>

\* Mutant: any action that is under way is completed.
SupersededByRest(r) == ~Transition(Current(r).instance)

Superseded(r) == inst[Current(r).instance].action # Current(r).id

\* Mutant: the lifecycle action id stays.
SettledKept(r) ==
  [status |-> IF Current(r).action = "wake" THEN "running" ELSE "hibernated",
   action |-> Current(r).id, idle |-> "since"]

Settled(r) ==
  IF Current(r).action = "wake"
  THEN [status |-> "running", action |-> 0, idle |-> "since"]
  ELSE [status |-> "hibernated", action |-> 0, idle |-> "busy"]

\* _complete, or `superseded` when the row does not have that action any more.
Complete(r) ==
  /\ rec[r].pc = "complete"
  /\ inst' = IF Superseded(r) THEN inst ELSE [inst EXCEPT ![Current(r).instance] = Settled(r)]
  /\ rec' = [rec EXCEPT ![r] = Rest(r)]
  /\ UNCHANGED <<queueVars, faults>>

\* The control plane dies in the middle of a reconciliation.
Dies(r) ==
  /\ rec[r].pc # "idle" /\ faults < MaxFaults
  /\ rec' = [rec EXCEPT ![r] = Resting]
  /\ faults' = faults + 1
  /\ UNCHANGED <<inst, queueVars>>

Reconcile(r) == ReadPolicies(r) \/ Plan(r) \/ Apply(r) \/ Complete(r)

Next ==
  \/ \E k \in Items : Enqueue(k) \/ Reclaim(k) \/ ItemWaits(k)
  \/ \E i \in Instances :
       \/ ClaimReads(i) \/ ClaimTakes(i) \/ StartTurn(i)
       \/ FinishTurn(i, "done") \/ FinishTurn(i, "ready")
       \/ Dispatch(i) \/ GraceElapses(i)
  \/ \E r \in Reconcilers : Reconcile(r) \/ ApplyFails(r) \/ Dies(r)

Spec == Init /\ [][Next]_vars

-----------------------------------------------------------------------------
(* Properties *)

Running == Cardinality(WithStatus("running"))
InService == Cardinality(WithStatus("running") \cup WithStatus("starting"))

\* However many reconciliations plan at once, each stays within the policy it had read: a
\* wake below its maximum, and no instance taken out of service below its warm minimum, nor
\* any while it disables hibernation (_plan reads policies before it locks the role).
WithinPolicy ==
  [][/\ InService' > InService =>
          \E r \in Reconcilers : rec[r].pc = "plan" /\ InService' <= rec[r].policy.max
     /\ Running' < Running =>
          \E r \in Reconcilers :
            /\ rec[r].pc = "plan" /\ rec[r].policy.hibernation
            /\ Running' >= rec[r].policy.min]_vars

\* A transition ends only with the action that began it: a reconciliation that still
\* holds an older action of the instance neither finishes nor reverts a newer one.
EndsWithItsAction ==
  [][\A i \in Instances :
       inst[i].action # 0 /\ inst'[i] # inst[i] =>
         \E r \in Reconcilers :
           /\ rec[r].pc = "complete" /\ Current(r).instance = i
           /\ Current(r).id = inst[i].action]_vars

\* What amv5-032 says: an instance with an unreleased lease is not hibernated.
HibernationFailsClosed ==
  \A i \in Instances : inst[i].status = "hibernated" => ~Leased(i)

\* What amv5-032 says: concurrent reconciliations do not repeat an external start or
\* stop; a container changes only while its row waits for just that.
OperationsNotDuplicated ==
  [][\A i \in Instances :
       /\ worker[i] = "stopped" /\ worker'[i] # "stopped" => inst[i].status = "starting"
       /\ worker[i] # "stopped" /\ worker'[i] = "stopped" => inst[i].status = "hibernating"]_vars

\* The API repeats its reconciliation; supervisor failures and crashes are bounded.
FairSpec == Spec /\ WF_vars(Reconcile(Loop))

\* Ready work wakes an instance of a role that has none, whichever reconciliations fail
\* or overtake each other.
ZeroSizedWakes == Ready # {} /\ Running = 0 ~> Ready = {} \/ Running > 0

==============================================================================
