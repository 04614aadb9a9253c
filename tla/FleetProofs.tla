------------------------------ MODULE FleetProofs ------------------------------
(* Theorems about Fleet: a transition of an instance ends only with the action    *)
(* that began it, and every plan keeps to the policy it read, for any pool, any   *)
(* policies and any number of overlapping reconciliations.                        *)
EXTENDS Fleet, FiniteSetTheorems, SequenceTheorems, TLAPS

InstRow == [status : {"configured", "starting", "running", "hibernating", "hibernated"},
            action : ActionIds \cup {0}, idle : {"busy", "since", "grace"}]

RecRow == [pc : {"idle", "plan", "apply", "complete"}, policy : Policies \cup {None},
           todo : BoundedSeq(Actions, Cardinality(Instances))]

\* Only an instance that runs is waiting for its grace period to end.
OnlyRunningWaits ==
  \A i \in Instances : inst[i].status # "running" => inst[i].idle # "since"

\* Where a reconciliation has actions left, and where it has a policy.
Underway(r) ==
  /\ rec[r].pc \in {"idle", "plan"} => rec[r].todo = <<>>
  /\ rec[r].pc \in {"apply", "complete"} => rec[r].todo # <<>>
  /\ rec[r].pc = "plan" => rec[r].policy \in Policies

\* An action that an instance still has is of the kind of the transition it is in.
Agrees(action) ==
  inst[action.instance].action = action.id =>
    inst[action.instance].status = IF action.action = "wake" THEN "starting" ELSE "hibernating"

KindAgrees == \A r \in Reconcilers : \A n \in DOMAIN rec[r].todo : Agrees(rec[r].todo[n])

\* The inductive invariant of the fleet.
FleetInv ==
  /\ TypeOK
  /\ OnlyRunningWaits
  /\ \A r \in Reconcilers : Underway(r)
  /\ KindAgrees

-----------------------------------------------------------------------------
(* Sequences of actions *)

\* The bounded sequences are the sequences of at most that length.
LEMMA Bounded ==
  ASSUME NEW S, NEW n \in Nat
  PROVE  \A s : s \in BoundedSeq(S, n) <=> s \in Seq(S) /\ Len(s) <= n
<1> TAKE s
<1>1. ASSUME s \in BoundedSeq(S, n) PROVE s \in Seq(S) /\ Len(s) <= n
  <2>1. PICK m \in 0..n : s \in [1..m -> S]
    BY <1>1 DEF BoundedSeq, SeqOf
  <2>2. s \in Seq(S) /\ Len(s) = m
    BY <2>1
  <2> QED
    BY <2>1, <2>2
<1>2. ASSUME s \in Seq(S), Len(s) <= n PROVE s \in BoundedSeq(S, n)
  <2>1. Len(s) \in 0..n /\ s \in [1..Len(s) -> S]
    BY <1>2, LenProperties
  <2> QED
    BY <2>1 DEF BoundedSeq, SeqOf
<1> QED
  BY <1>1, <1>2

\* A finite set as a sequence: its elements, each of them once.
LEMMA Listing ==
  ASSUME NEW S, IsFiniteSet(S)
  PROVE  /\ Cardinality(S) \in Nat
         /\ SetToSeq(S) \in [1..Cardinality(S) -> S]
         /\ SetToSeq(S) \in Seq(S) /\ Len(SetToSeq(S)) = Cardinality(S)
         /\ DOMAIN SetToSeq(S) = 1..Cardinality(S)
         /\ \A x \in S : \E n \in DOMAIN SetToSeq(S) : SetToSeq(S)[n] = x
<1>1. Cardinality(S) \in Nat /\ ExistsBijection(1..Cardinality(S), S)
  BY FS_CardinalityType
<1>2. PICK f : f \in Bijection(1..Cardinality(S), S)
  BY <1>1 DEF ExistsBijection
<1>3. f \in [1..Cardinality(S) -> S] /\ IsInjective(f)
  BY <1>2 DEF Bijection, Injection, IsInjective
<1>4. SetToSeq(S) \in [1..Cardinality(S) -> S] /\ IsInjective(SetToSeq(S))
  BY <1>3 DEF SetToSeq
<1>5. SetToSeq(S) \in Injection(1..Cardinality(S), S)
  BY <1>4 DEF Injection, IsInjective
<1>6. Cardinality(1..Cardinality(S)) = Cardinality(S)
  BY <1>1, FS_Interval
<1>7. SetToSeq(S) \in Surjection(1..Cardinality(S), S)
  BY <1>5, <1>6, FS_Injection
<1>8. \A x \in S : \E n \in DOMAIN SetToSeq(S) : SetToSeq(S)[n] = x
  BY <1>4, <1>7 DEF Surjection
<1>9. SetToSeq(S) \in Seq(S) /\ Len(SetToSeq(S)) = Cardinality(S)
  BY <1>1, <1>4
<1> QED
  BY <1>1, <1>4, <1>8, <1>9

\* How many instances there are is a number.
LEMMA PoolSize == Cardinality(Instances) \in Nat
BY FleetAssumption, FS_CardinalityType

-----------------------------------------------------------------------------
(* What a plan looks at *)

\* An action has an id, an instance of the pool and a kind.
LEMMA ActionFields ==
  ASSUME NEW a \in Actions
  PROVE  a.id \in ActionIds /\ a.id # 0 /\ a.instance \in Instances /\ a.action \in {"wake", "hibernate"}
BY PoolSize DEF Actions, ActionIds

\* An instance and a reconciliation have their records.
LEMMA Rows ==
  ASSUME TypeOK
  PROVE  /\ inst \in [Instances -> InstRow] /\ rec \in [Reconcilers -> RecRow]
         /\ \A r \in Reconcilers : rec[r].todo \in Seq(Actions)
         /\ \A r \in Reconcilers : Len(rec[r].todo) <= Cardinality(Instances)
<1>1. inst \in [Instances -> InstRow] /\ rec \in [Reconcilers -> RecRow]
  BY DEF TypeOK, InstRow, RecRow
<1>2. ASSUME NEW r \in Reconcilers
      PROVE  rec[r].todo \in Seq(Actions) /\ Len(rec[r].todo) <= Cardinality(Instances)
  <2>1. rec[r].todo \in BoundedSeq(Actions, Cardinality(Instances))
    BY <1>1 DEF RecRow
  <2> QED
    BY <2>1, Bounded, PoolSize
<1> QED
  BY <1>1, <1>2

\* The record of a reconciliation that rests.
LEMMA RestingRow ==
  Resting \in RecRow /\ Resting.pc = "idle" /\ Resting.todo = <<>>
<1>1. <<>> \in BoundedSeq(Actions, Cardinality(Instances))
  <2>1. <<>> \in Seq(Actions) /\ Len(<<>>) = 0 /\ 0 <= Cardinality(Instances)
    BY EmptySeq, PoolSize
  <2> QED
    BY <2>1, Bounded, PoolSize
<1> QED
  BY <1>1 DEF Resting, RecRow

\* _refresh_idle_state changes idle_since, and that only of instances that run.
LEMMA RefreshedRows ==
  ASSUME TypeOK
  PROVE  \A i \in Instances :
           /\ Refreshed[i] \in InstRow
           /\ Refreshed[i].status = inst[i].status /\ Refreshed[i].action = inst[i].action
           /\ inst[i].status # "running" => Refreshed[i] = inst[i]
<1> TAKE i \in Instances
<1>1. inst[i] \in InstRow
  BY Rows
<1>2. \A idle \in {"busy", "since"} :
        /\ [inst[i] EXCEPT !.idle = idle] \in InstRow
        /\ [inst[i] EXCEPT !.idle = idle].status = inst[i].status
        /\ [inst[i] EXCEPT !.idle = idle].action = inst[i].action
  BY <1>1 DEF InstRow
<1> HIDE DEF InstRow
<1> QED
  BY <1>1, <1>2 DEF Refreshed

\* What a plan finds pending is the transitions of the rows, and nothing is pending only
\* when no instance is in a transition.
LEMMA PendingRows ==
  ASSUME TypeOK
  PROVE  /\ PendingActions \in BoundedSeq(Actions, Cardinality(Instances))
         /\ \A n \in DOMAIN PendingActions : Agrees(PendingActions[n])
         /\ PendingActions = <<>> => \A i \in Instances : ~Transition(i)
<1> DEFINE Moving == {j \in Instances : Transition(j)}
           entry(i) == [id |-> inst[i].action, instance |-> i,
                        action |-> IF inst[i].status = "starting" THEN "wake" ELSE "hibernate"]
           Pending == {entry(i) : i \in Moving}
           f == [i \in Moving |-> entry(i)]
<1>1. PendingActions = SetToSeq(Pending)
  BY DEF PendingActions
<1>2. IsFiniteSet(Moving) /\ Cardinality(Moving) <= Cardinality(Instances)
  BY FleetAssumption, FS_Subset
<1>3. f \in Surjection(Moving, Pending)
  BY DEF Surjection
<1>4. IsFiniteSet(Pending) /\ Cardinality(Pending) <= Cardinality(Moving)
  BY <1>2, <1>3, FS_Surjection
<1>5. Cardinality(Moving) \in Nat /\ Cardinality(Pending) \in Nat
  BY <1>2, <1>4, FS_CardinalityType
<1>6. ASSUME NEW i \in Moving PROVE entry(i) \in Actions /\ Agrees(entry(i))
  <2>1. inst[i].status \in {"starting", "hibernating"} /\ inst[i].action # 0
    BY DEF TypeOK, Transition
  <2>2. inst[i].action \in ActionIds
    BY <2>1, Rows DEF InstRow
  <2> QED
    BY <2>1, <2>2 DEF Actions, Agrees
<1>7. \A a \in Pending : a \in Actions /\ Agrees(a)
  BY <1>6
<1> HIDE DEF Pending
<1>8. /\ SetToSeq(Pending) \in [1..Cardinality(Pending) -> Pending]
      /\ Len(SetToSeq(Pending)) = Cardinality(Pending)
      /\ \A x \in Pending : \E n \in DOMAIN SetToSeq(Pending) : SetToSeq(Pending)[n] = x
  BY <1>4, Listing
<1>9. SetToSeq(Pending) \in [1..Cardinality(Pending) -> Actions]
  BY <1>7, <1>8
<1>10. SetToSeq(Pending) \in BoundedSeq(Actions, Cardinality(Instances))
  <2>1. SetToSeq(Pending) \in Seq(Actions)
    BY <1>5, <1>9
  <2>2. Cardinality(Pending) <= Cardinality(Instances)
    BY <1>2, <1>4, <1>5, PoolSize
  <2> QED
    BY <1>8, <2>1, <2>2, Bounded, PoolSize
<1>11. ASSUME SetToSeq(Pending) = <<>> PROVE \A i \in Instances : ~Transition(i)
  <2>1. Pending = {}
    BY <1>8, <1>11
  <2> QED
    BY <2>1 DEF Pending
<1> QED
  BY <1>1, <1>7, <1>8, <1>10, <1>11

-----------------------------------------------------------------------------
(* What a plan writes *)

\* A plan that takes instances: those it chose, at most `limit` of them, each in the
\* transition with a new id, the others only refreshed; and the actions it goes on with.
Taken(r, chosen, action, limit) ==
  /\ Cardinality(chosen) <= limit
  /\ inst' \in [Instances -> InstRow]
  /\ \A i \in Instances \ chosen : inst'[i] = Refreshed[i]
  /\ \A i \in chosen :
       /\ inst'[i].status = IF action = "wake" THEN "starting" ELSE "hibernating"
       /\ inst'[i].action \in ActionIds \ HeldIds
       /\ inst'[i].idle = Refreshed[i].idle
  /\ rec' = [rec EXCEPT ![r] = rec'[r]]
  /\ rec'[r] \in RecRow /\ rec'[r].pc \in {"idle", "apply"}
  /\ rec'[r].todo = <<>> <=> rec'[r].pc = "idle"
  /\ \A n \in DOMAIN rec'[r].todo :
       rec'[r].todo[n].action = action /\ rec'[r].todo[n].instance \in chosen

\* Whatever a plan takes, it takes like that.
LEMMA PlannedRows ==
  ASSUME FleetInv, NEW r \in Reconcilers, NEW candidates \in SUBSET Instances,
         NEW action \in {"wake", "hibernate"}, NEW limit \in Nat,
         Planned(r, candidates, action, limit)
  PROVE  \E chosen \in SUBSET candidates : Taken(r, chosen, action, limit)
<1> DEFINE status == IF action = "wake" THEN "starting" ELSE "hibernating"
<1>0. TypeOK
  BY DEF FleetInv
<1>1. IsFiniteSet(candidates) /\ Cardinality(candidates) \in Nat
  BY FleetAssumption, FS_Subset, FS_CardinalityType
<1>2. PICK chosen \in kSubset(Minimum(limit, Cardinality(candidates)), candidates) :
        \E fresh \in FreshIds(Cardinality(chosen)) :
          /\ inst' = [i \in Instances |->
               IF i \in chosen
               THEN [Refreshed[i] EXCEPT !.status = status,
                      !.action = SetToSeq(fresh)[CHOOSE n \in DOMAIN SetToSeq(chosen) : SetToSeq(chosen)[n] = i]]
               ELSE Refreshed[i]]
          /\ rec' = [rec EXCEPT ![r] =
               IF chosen = {} THEN Resting
               ELSE [pc |-> "apply", policy |-> None,
                     todo |-> [n \in DOMAIN SetToSeq(chosen) |->
                       [id |-> SetToSeq(fresh)[n], instance |-> SetToSeq(chosen)[n], action |-> action]]]]
  BY DEF Planned
<1>3. PICK fresh \in FreshIds(Cardinality(chosen)) :
          /\ inst' = [i \in Instances |->
               IF i \in chosen
               THEN [Refreshed[i] EXCEPT !.status = status,
                      !.action = SetToSeq(fresh)[CHOOSE n \in DOMAIN SetToSeq(chosen) : SetToSeq(chosen)[n] = i]]
               ELSE Refreshed[i]]
          /\ rec' = [rec EXCEPT ![r] =
               IF chosen = {} THEN Resting
               ELSE [pc |-> "apply", policy |-> None,
                     todo |-> [n \in DOMAIN SetToSeq(chosen) |->
                       [id |-> SetToSeq(fresh)[n], instance |-> SetToSeq(chosen)[n], action |-> action]]]]
  BY <1>2
<1>4. chosen \in SUBSET candidates /\ Cardinality(chosen) = Minimum(limit, Cardinality(candidates))
  BY <1>2 DEF kSubset
<1>5. /\ IsFiniteSet(chosen) /\ Cardinality(chosen) \in Nat
      /\ Cardinality(chosen) <= limit /\ Cardinality(chosen) <= Cardinality(Instances)
  <2>1. chosen \in SUBSET Instances
    BY <1>4
  <2> QED
    BY <1>1, <1>4, <2>1, FleetAssumption, FS_Subset, FS_CardinalityType DEF Minimum
<1>6. fresh \in SUBSET (ActionIds \ HeldIds) /\ Cardinality(fresh) = Cardinality(chosen)
  BY <1>3 DEF FreshIds, kSubset
<1>7. IsFiniteSet(fresh)
  <2>1. IsFiniteSet(ActionIds)
    <3>1. Cardinality(Reconcilers) \in Nat
      BY FleetAssumption, FS_CardinalityType
    <3>2. Cardinality(Instances) * (Cardinality(Reconcilers) + 1) \in Int
      BY <3>1, PoolSize
    <3> QED
      BY <3>2, FS_Interval DEF ActionIds
  <2>2. fresh \in SUBSET ActionIds
    BY <1>6
  <2> QED
    BY <2>1, <2>2, FS_Subset
<1> HIDE DEF ActionIds
<1> DEFINE order == SetToSeq(chosen)
           ids == SetToSeq(fresh)
<1>8. order \in [1..Cardinality(chosen) -> chosen] /\ \A x \in chosen : \E n \in DOMAIN order : order[n] = x
  BY <1>5, Listing
<1>9. ids \in [1..Cardinality(chosen) -> fresh]
  BY <1>6, <1>7, Listing
<1>10. inst' = [i \in Instances |->
         IF i \in chosen
         THEN [Refreshed[i] EXCEPT !.status = status,
                !.action = ids[CHOOSE n \in DOMAIN order : order[n] = i]]
         ELSE Refreshed[i]]
  BY <1>3
<1>11. rec' = [rec EXCEPT ![r] =
         IF chosen = {} THEN Resting
         ELSE [pc |-> "apply", policy |-> None,
               todo |-> [n \in DOMAIN order |->
                 [id |-> ids[n], instance |-> order[n], action |-> action]]]]
  BY <1>3
<1> HIDE DEF order, ids
<1>12. ASSUME NEW i \in Instances, i \notin chosen
       PROVE  inst'[i] = Refreshed[i] /\ inst'[i] \in InstRow
  BY <1>0, <1>10, <1>12, RefreshedRows
<1>13. ASSUME NEW i \in chosen
       PROVE  /\ inst'[i] \in InstRow
              /\ inst'[i].status = status /\ inst'[i].action \in ActionIds \ HeldIds
              /\ inst'[i].idle = Refreshed[i].idle
  <2>1. i \in Instances
    BY <1>4
  <2>2. PICK m : m = CHOOSE n \in DOMAIN order : order[n] = i
    OBVIOUS
  <2>3. m \in DOMAIN order
    BY <1>8, <2>2
  <2>4. ids[m] \in ActionIds \ HeldIds
    BY <1>6, <1>8, <1>9, <2>3
  <2>5. inst'[i] = [Refreshed[i] EXCEPT !.status = status, !.action = ids[m]]
    BY <1>10, <2>1, <2>2
  <2>6. PICK row \in InstRow : row = Refreshed[i]
    BY <1>0, <2>1, RefreshedRows
  <2>7. inst'[i] = [row EXCEPT !.status = status, !.action = ids[m]]
    BY <2>5, <2>6
  <2>8. inst'[i].status = status /\ inst'[i].action = ids[m] /\ inst'[i].idle = row.idle
    BY <2>7 DEF InstRow
  <2>9. inst'[i] \in InstRow
    BY <2>4, <2>7 DEF InstRow
  <2> QED
    BY <2>4, <2>6, <2>8, <2>9
<1>14. inst' \in [Instances -> InstRow]
  <2>1. \A i \in Instances : inst'[i] \in InstRow
    BY <1>12, <1>13
  <2> QED
    BY <1>10, <2>1
<1>15. CASE chosen = {}
  <2>1. rec'[r] = Resting /\ rec' = [rec EXCEPT ![r] = rec'[r]]
    BY <1>0, <1>11, <1>15, Rows
  <2>2. DOMAIN rec'[r].todo = {}
    BY <2>1, RestingRow
  <2> QED
    BY <1>4, <1>5, <1>12, <1>13, <1>14, <2>1, <2>2, RestingRow DEF Taken
<1>16. CASE chosen # {}
  <2> DEFINE todo == [n \in DOMAIN order |-> [id |-> ids[n], instance |-> order[n], action |-> action]]
  <2>1. rec'[r] = [pc |-> "apply", policy |-> None, todo |-> todo] /\ rec' = [rec EXCEPT ![r] = rec'[r]]
    BY <1>0, <1>11, <1>16, Rows
  <2>2. \A n \in 1..Cardinality(chosen) : ids[n] \in ActionIds /\ order[n] \in chosen /\ order[n] \in Instances
    BY <1>4, <1>6, <1>8, <1>9
  <2>3. todo \in [1..Cardinality(chosen) -> Actions]
    BY <1>8, <2>2 DEF Actions
  <2>4. /\ DOMAIN todo = 1..Cardinality(chosen)
        /\ \A n \in DOMAIN todo : todo[n].action = action /\ todo[n].instance \in chosen
    BY <1>8, <2>2
  <2> HIDE DEF todo
  <2>5. todo \in Seq(Actions) /\ Len(todo) = Cardinality(chosen)
    BY <1>5, <2>3
  <2>6. todo \in BoundedSeq(Actions, Cardinality(Instances))
    BY <1>5, <2>5, Bounded, PoolSize
  <2>7. todo # <<>>
    <3>1. Cardinality(chosen) # 0
      BY <1>5, <1>16, FS_EmptySet
    <3> QED
      BY <2>5, <3>1, EmptySeq
  <2>8. rec'[r] \in RecRow /\ rec'[r].pc = "apply" /\ rec'[r].todo = todo
    BY <2>1, <2>6 DEF RecRow
  <2> QED
    BY <1>4, <1>5, <1>12, <1>13, <1>14, <2>1, <2>4, <2>7, <2>8 DEF Taken
<1> QED
  BY <1>15, <1>16

-----------------------------------------------------------------------------
(* The steps *)

\* The queue, its workers and the faults have their types.
QueueTypes ==
  /\ worker \in [Instances -> {"stopped", "idle", "claiming"} \cup Items]
  /\ item \in [Items -> [status : {"new", "ready", "leased", "done"}, owner : Instances \cup {None}]]
  /\ \A k \in Items : item[k].owner # None <=> item[k].status = "leased"
  /\ waited \in SUBSET Items
  /\ held \in SUBSET Instances
  /\ faults \in 0..MaxFaults

\* The rows of the instances and the reconciliations, with what holds between them.
RowInv ==
  /\ inst \in [Instances -> InstRow]
  /\ rec \in [Reconcilers -> RecRow]
  /\ \A i \in Instances : inst[i].action # 0 <=> inst[i].status \in {"starting", "hibernating"}
  /\ OnlyRunningWaits
  /\ \A r \in Reconcilers : Underway(r)
  /\ KindAgrees

\* The two halves of the invariant.
LEMMA Halves == FleetInv <=> QueueTypes /\ RowInv
BY DEF FleetInv, TypeOK, QueueTypes, RowInv, InstRow, RecRow

\* At first no instance is in service and nobody reconciles.
LEMMA FleetBegins == Init => FleetInv
<1> SUFFICES ASSUME Init PROVE FleetInv
  OBVIOUS
<1>1. QueueTypes
  BY FleetAssumption DEF Init, QueueTypes
<1>2. inst \in [Instances -> InstRow] /\ \A i \in Instances : inst[i].action = 0 /\ inst[i].idle = "busy" /\ inst[i].status = "configured"
  BY DEF Init, InstRow
<1>3. /\ rec \in [Reconcilers -> RecRow]
      /\ \A r \in Reconcilers : rec[r].pc = "idle" /\ rec[r].todo = <<>>
  BY RestingRow DEF Init
<1>4. RowInv
  BY <1>2, <1>3 DEF RowInv, OnlyRunningWaits, Underway, KindAgrees
<1> QED
  BY <1>1, <1>4, Halves

\* What the queue and its workers do leaves the rows alone.
LEMMA QueueSteps ==
  ASSUME FleetInv,
         \/ \E k \in Items : Enqueue(k) \/ Reclaim(k) \/ ItemWaits(k)
         \/ \E i \in Instances :
              \/ ClaimReads(i) \/ ClaimTakes(i) \/ StartTurn(i)
              \/ FinishTurn(i, "done") \/ FinishTurn(i, "ready") \/ Dispatch(i)
  PROVE  FleetInv' /\ UNCHANGED <<inst, rec>>
<1>0. QueueTypes /\ RowInv
  BY Halves
<1>1. UNCHANGED <<inst, rec, faults>>
  BY DEF Enqueue, Reclaim, ItemWaits, ClaimReads, ClaimTakes, StartTurn, FinishTurn, Dispatch
<1>2. \A k \in Items :
        /\ item[k] \in [status : {"new", "ready", "leased", "done"}, owner : Instances \cup {None}]
        /\ item[k].owner # None <=> item[k].status = "leased"
  BY <1>0 DEF QueueTypes
<1>3. ASSUME NEW k \in Items, Enqueue(k) PROVE QueueTypes'
  <2>1. [item[k] EXCEPT !.status = "ready"] = [status |-> "ready", owner |-> None]
    BY <1>2, <1>3 DEF Enqueue
  <2>2. item' = [item EXCEPT ![k] = [status |-> "ready", owner |-> None]]
    BY <1>3, <2>1 DEF Enqueue
  <2> QED
    BY <1>0, <1>1, <1>3, <2>2 DEF Enqueue, QueueTypes
<1>4. ASSUME NEW k \in Items, Reclaim(k) PROVE QueueTypes'
  BY <1>0, <1>1, <1>4 DEF Reclaim, QueueTypes
<1>5. ASSUME NEW k \in Items, ItemWaits(k) PROVE QueueTypes'
  BY <1>0, <1>1, <1>5 DEF ItemWaits, QueueTypes
<1>6. ASSUME NEW i \in Instances, ClaimReads(i) PROVE QueueTypes'
  BY <1>0, <1>1, <1>6 DEF ClaimReads, QueueTypes
<1>7. ASSUME NEW i \in Instances, ClaimTakes(i) PROVE QueueTypes'
  <2>1. ASSUME Ready = {} /\ worker' = [worker EXCEPT ![i] = "idle"] /\ UNCHANGED <<item, waited>>
        PROVE  QueueTypes'
    BY <1>0, <1>1, <1>7, <2>1 DEF ClaimTakes, QueueTypes
  <2>2. ASSUME NEW q \in Ready,
               item' = [item EXCEPT ![q] = [status |-> "leased", owner |-> i]],
               worker' = [worker EXCEPT ![i] = q], waited' = waited \ {q}
        PROVE  QueueTypes'
    BY <1>0, <1>1, <1>7, <2>2, FleetAssumption DEF ClaimTakes, QueueTypes, Ready
  <2> QED
    BY <1>7, <2>1, <2>2 DEF ClaimTakes
<1>8. ASSUME NEW i \in Instances, StartTurn(i) PROVE QueueTypes'
  BY <1>0, <1>1, <1>8 DEF StartTurn, QueueTypes
<1>9. ASSUME NEW i \in Instances, NEW status \in {"done", "ready"}, FinishTurn(i, status) PROVE QueueTypes'
  <2>1. /\ item' = [item EXCEPT ![worker[i]] = [status |-> status, owner |-> None]]
        /\ worker' = [worker EXCEPT ![i] = "idle"]
        /\ worker[i] \in Items /\ waited' = waited /\ held' \in SUBSET Instances
    BY <1>0, <1>9 DEF FinishTurn, QueueTypes
  <2> QED
    BY <1>0, <1>1, <2>1 DEF QueueTypes
<1>10. ASSUME NEW i \in Instances, Dispatch(i) PROVE QueueTypes'
  BY <1>0, <1>1, <1>10 DEF Dispatch, QueueTypes
<1>11. QueueTypes'
  BY <1>3, <1>4, <1>5, <1>6, <1>7, <1>8, <1>9, <1>10
<1>12. RowInv'
  BY <1>0, <1>1 DEF RowInv, OnlyRunningWaits, Underway, KindAgrees, Agrees
<1>13. FleetInv' <=> QueueTypes' /\ RowInv'
  BY Halves, PTL
<1> QED
  BY <1>1, <1>11, <1>12, <1>13

\* The action a reconciliation is at, and what it goes on with after it.
LEMMA AfterCurrent ==
  ASSUME FleetInv, NEW r \in Reconcilers, rec[r].pc \in {"apply", "complete"}
  PROVE  /\ Current(r) \in Actions /\ Agrees(Current(r))
         /\ Rest(r) \in RecRow /\ Rest(r).pc \in {"idle", "apply"}
         /\ Rest(r).todo = <<>> <=> Rest(r).pc = "idle"
         /\ \A n \in DOMAIN Rest(r).todo :
              n + 1 \in DOMAIN rec[r].todo /\ Rest(r).todo[n] = rec[r].todo[n + 1]
<1>1. PICK todo : todo = rec[r].todo
  OBVIOUS
<1>2. todo \in Seq(Actions) /\ Len(todo) <= Cardinality(Instances) /\ todo # <<>>
  BY <1>1, Rows DEF FleetInv, Underway
<1>3. Len(todo) \in Nat \ {0} /\ DOMAIN todo = 1..Len(todo) /\ Head(todo) = todo[1]
  BY <1>2, EmptySeq, LenProperties
<1>4. Current(r) \in Actions /\ Agrees(Current(r))
  BY <1>1, <1>2, <1>3, ElementOfSeq DEF Current, FleetInv, KindAgrees
<1>5. /\ Tail(todo) \in Seq(Actions) /\ Len(Tail(todo)) = Len(todo) - 1
      /\ \A n \in 1..Len(Tail(todo)) : Tail(todo)[n] = todo[n + 1]
  BY <1>2, HeadTailProperties
<1>6. CASE Len(todo) = 1
  <2>1. Rest(r) = Resting
    BY <1>1, <1>6 DEF Rest
  <2>2. DOMAIN Rest(r).todo = {}
    BY <2>1, RestingRow
  <2> QED
    BY <1>4, <2>1, <2>2, RestingRow
<1>7. CASE Len(todo) # 1
  <2>1. Tail(todo) # <<>> /\ DOMAIN Tail(todo) = 1..Len(Tail(todo))
    <3>1. Len(Tail(todo)) \in Nat \ {0}
      BY <1>3, <1>5, <1>7
    <3>2. Tail(todo) # <<>>
      BY <3>1, EmptySeq
    <3> QED
      BY <1>5, <3>2, LenProperties
  <2>2. Tail(todo) \in BoundedSeq(Actions, Cardinality(Instances))
    <3>1. Len(Tail(todo)) <= Cardinality(Instances)
      BY <1>2, <1>3, <1>5, PoolSize
    <3> QED
      BY <1>5, <3>1, Bounded, PoolSize
  <2>3. PICK row \in RecRow : row = rec[r]
    BY Rows DEF FleetInv
  <2>4. Rest(r) = [row EXCEPT !.pc = "apply", !.todo = Tail(todo)]
    BY <1>1, <1>7, <2>3 DEF Rest, RecRow
  <2>5. Rest(r) \in RecRow
    BY <2>2, <2>4 DEF RecRow
  <2>6. Rest(r).pc = "apply" /\ Rest(r).todo = Tail(todo)
    BY <2>4 DEF RecRow
  <2>7. \A n \in DOMAIN Tail(todo) : n + 1 \in DOMAIN todo /\ Tail(todo)[n] = todo[n + 1]
    BY <1>3, <1>5, <2>1
  <2> QED
    BY <1>1, <1>4, <2>1, <2>5, <2>6, <2>7
<1> QED
  BY <1>6, <1>7

\* A step of one reconciliation that leaves the instances alone and goes on with actions
\* that agree with them.
LEMMA RecordSteps ==
  ASSUME FleetInv, NEW r \in Reconcilers, NEW new \in RecRow,
         inst' = inst, rec' = [rec EXCEPT ![r] = new], QueueTypes',
         new.pc \in {"idle", "plan"} => new.todo = <<>>,
         new.pc \in {"apply", "complete"} => new.todo # <<>>,
         new.pc = "plan" => new.policy \in Policies,
         \A n \in DOMAIN new.todo : Agrees(new.todo[n])
  PROVE  FleetInv'
<1>0. RowInv
  BY Halves
<1>1. rec \in [Reconcilers -> RecRow]
  BY <1>0 DEF RowInv
<1>2. rec' \in [Reconcilers -> RecRow] /\ rec'[r] = new /\ \A q \in Reconcilers \ {r} : rec'[q] = rec[q]
  BY <1>1
<1>3. \A q \in Reconcilers : Underway(q)'
  BY <1>0, <1>2 DEF RowInv, Underway
<1>4. KindAgrees'
  <2>1. ASSUME NEW q \in Reconcilers, NEW n \in DOMAIN rec'[q].todo PROVE Agrees(rec[q].todo[n])'
    <3>1. CASE q = r
      BY <1>2, <2>1, <3>1 DEF Agrees
    <3>2. CASE q # r
      BY <1>0, <1>2, <2>1, <3>2 DEF RowInv, KindAgrees, Agrees
    <3> QED
      BY <3>1, <3>2
  <2> QED
    BY <2>1 DEF KindAgrees
<1>5. RowInv'
  BY <1>0, <1>2, <1>3, <1>4 DEF RowInv, OnlyRunningWaits
<1>6. FleetInv' <=> QueueTypes' /\ RowInv'
  BY Halves, PTL
<1> QED
  BY <1>5, <1>6

\* Reading the policies, the supervisor's calls and a death.
LEMMA CallerSteps ==
  ASSUME FleetInv, NEW r \in Reconcilers,
         ReadPolicies(r) \/ Apply(r) \/ ApplyFails(r) \/ Dies(r)
  PROVE  FleetInv' /\ inst' = inst
<1>0. QueueTypes /\ RowInv
  BY Halves
<1>1. rec \in [Reconcilers -> RecRow] /\ Underway(r)
  BY <1>0 DEF RowInv
<1>2. ASSUME ReadPolicies(r) PROVE FleetInv' /\ inst' = inst
  <2>1. PICK policy \in Policies : rec' = [rec EXCEPT ![r] = [Resting EXCEPT !.pc = "plan", !.policy = policy]]
    BY <1>2 DEF ReadPolicies
  <2>2. PICK new : new = [Resting EXCEPT !.pc = "plan", !.policy = policy]
    OBVIOUS
  <2>3. new \in RecRow
    BY <2>2, RestingRow DEF RecRow
  <2>4. new.pc = "plan" /\ new.policy = policy /\ new.todo = <<>>
    BY <2>2, RestingRow DEF Resting
  <2>5. DOMAIN new.todo = {}
    BY <2>4
  <2>6. inst' = inst /\ QueueTypes'
    BY <1>0, <1>2 DEF ReadPolicies, queueVars, QueueTypes
  <2> QED
    BY <2>1, <2>2, <2>3, <2>4, <2>5, <2>6, RecordSteps
<1>3. ASSUME Apply(r) PROVE FleetInv' /\ inst' = inst
  <2>1. rec' = [rec EXCEPT ![r].pc = "complete"] /\ rec[r].pc = "apply"
    BY <1>3 DEF Apply
  <2>2. PICK new : new = [rec[r] EXCEPT !.pc = "complete"]
    OBVIOUS
  <2>3. new \in RecRow
    BY <1>1, <2>2 DEF RecRow
  <2>4. new.pc = "complete" /\ new.todo = rec[r].todo /\ new.todo # <<>>
    BY <1>1, <2>1, <2>2 DEF RecRow, Underway
  <2>5. rec' = [rec EXCEPT ![r] = new]
    BY <2>1, <2>2
  <2>6. \A n \in DOMAIN new.todo : Agrees(new.todo[n])
    BY <1>0, <2>4 DEF RowInv, KindAgrees
  <2>7. Current(r).instance \in Instances
    BY <2>1, AfterCurrent, ActionFields
  <2>8. inst' = inst /\ QueueTypes'
    BY <1>0, <1>3, <2>7 DEF Apply, QueueTypes
  <2> QED
    BY <2>3, <2>4, <2>5, <2>6, <2>8, RecordSteps
<1>4. ASSUME ApplyFails(r) PROVE FleetInv' /\ inst' = inst
  <2>1. rec' = [rec EXCEPT ![r] = Rest(r)] /\ rec[r].pc = "apply"
    BY <1>4 DEF ApplyFails
  <2>2. PICK new : new = Rest(r)
    OBVIOUS
  <2>3. /\ new \in RecRow /\ new.pc \in {"idle", "apply"} /\ (new.todo = <<>> <=> new.pc = "idle")
        /\ \A n \in DOMAIN new.todo : n + 1 \in DOMAIN rec[r].todo /\ new.todo[n] = rec[r].todo[n + 1]
    BY <2>1, <2>2, AfterCurrent
  <2>4. \A n \in DOMAIN new.todo : Agrees(new.todo[n])
    BY <1>0, <2>3 DEF RowInv, KindAgrees
  <2>5. inst' = inst /\ QueueTypes'
    BY <1>0, <1>4, FleetAssumption DEF ApplyFails, queueVars, QueueTypes
  <2> QED
    BY <2>1, <2>2, <2>3, <2>4, <2>5, RecordSteps
<1>5. ASSUME Dies(r) PROVE FleetInv' /\ inst' = inst
  <2>1. rec' = [rec EXCEPT ![r] = Resting] /\ DOMAIN Resting.todo = {}
    BY <1>5, RestingRow DEF Dies
  <2>2. inst' = inst /\ QueueTypes'
    BY <1>0, <1>5, FleetAssumption DEF Dies, queueVars, QueueTypes
  <2> QED
    BY <2>1, <2>2, RestingRow, RecordSteps
<1> QED
  BY <1>2, <1>3, <1>4, <1>5

\* Completion, superseded or not: the row's own transition ends.
LEMMA CompleteStep ==
  ASSUME FleetInv, NEW r \in Reconcilers, Complete(r)
  PROVE  /\ FleetInv'
         /\ \A i \in Instances : inst'[i] # inst[i] =>
              /\ Current(r).instance = i /\ Current(r).id = inst[i].action
              /\ \/ inst[i].status = "starting" /\ inst'[i].status = "running"
                 \/ inst[i].status = "hibernating" /\ inst'[i].status = "hibernated"
<1>0. QueueTypes /\ RowInv
  BY Halves
<1>1. /\ rec[r].pc = "complete" /\ rec' = [rec EXCEPT ![r] = Rest(r)]
      /\ inst' = IF Superseded(r) THEN inst ELSE [inst EXCEPT ![Current(r).instance] = Settled(r)]
  BY DEF Complete
<1>2. QueueTypes'
  BY <1>0 DEF Complete, queueVars, QueueTypes
<1>3. /\ Current(r) \in Actions /\ Agrees(Current(r))
      /\ Rest(r) \in RecRow /\ Rest(r).pc \in {"idle", "apply"}
      /\ Rest(r).todo = <<>> <=> Rest(r).pc = "idle"
      /\ \A n \in DOMAIN Rest(r).todo :
           n + 1 \in DOMAIN rec[r].todo /\ Rest(r).todo[n] = rec[r].todo[n + 1]
  BY <1>1, AfterCurrent
<1>4. PICK j : j = Current(r).instance
  OBVIOUS
<1>5. j \in Instances /\ Current(r).id # 0 /\ Current(r).action \in {"wake", "hibernate"}
  BY <1>3, <1>4, ActionFields
<1>6. PICK row : row = Settled(r)
  OBVIOUS
<1>7. /\ row \in InstRow /\ row.action = 0 /\ row.status \in {"running", "hibernated"}
      /\ row.status # "running" => row.idle # "since"
      /\ row.status = "running" <=> Current(r).action = "wake"
  BY <1>6 DEF Settled, InstRow
<1>8. CASE Superseded(r)
  <2>1. inst' = inst
    BY <1>1, <1>8
  <2>2. \A n \in DOMAIN Rest(r).todo : Agrees(Rest(r).todo[n])
    BY <1>0, <1>3 DEF RowInv, KindAgrees
  <2> QED
    BY <1>1, <1>2, <1>3, <2>1, <2>2, RecordSteps
<1>9. CASE ~Superseded(r)
  <2>1. inst' = [inst EXCEPT ![j] = row] /\ inst[j].action = Current(r).id
    BY <1>1, <1>4, <1>6, <1>9 DEF Superseded
  <2>2. inst' \in [Instances -> InstRow] /\ inst'[j] = row /\ \A i \in Instances \ {j} : inst'[i] = inst[i]
    BY <1>0, <1>5, <1>7, <2>1 DEF RowInv
  <2>3. inst[j].status = IF Current(r).action = "wake" THEN "starting" ELSE "hibernating"
    BY <1>3, <1>4, <2>1 DEF Agrees
  <2>4. rec' \in [Reconcilers -> RecRow] /\ rec'[r] = Rest(r) /\ \A q \in Reconcilers \ {r} : rec'[q] = rec[q]
    BY <1>0, <1>1, <1>3 DEF RowInv
  <2>5. \A q \in Reconcilers : Underway(q)'
    BY <1>0, <1>3, <2>4 DEF RowInv, Underway
  <2>6. ASSUME NEW a \in Actions, Agrees(a) PROVE Agrees(a)'
    <3>1. a.instance \in Instances /\ a.id # 0
      BY ActionFields
    <3> QED
      BY <1>7, <2>2, <2>6, <3>1 DEF Agrees
  <2>7. \A q \in Reconcilers : \A n \in DOMAIN rec'[q].todo :
          \E a \in Actions : a = rec'[q].todo[n] /\ Agrees(a)
    <3>1. ASSUME NEW q \in Reconcilers, NEW n \in DOMAIN rec[q].todo
          PROVE  rec[q].todo[n] \in Actions /\ Agrees(rec[q].todo[n])
      <4>1. rec[q].todo \in Seq(Actions)
        BY Rows DEF FleetInv
      <4>2. DOMAIN rec[q].todo = 1..Len(rec[q].todo)
        BY <4>1, LenProperties
      <4> QED
        BY <1>0, <3>1, <4>1, <4>2, ElementOfSeq DEF RowInv, KindAgrees
    <3> QED
      BY <1>3, <2>4, <3>1
  <2>8. KindAgrees'
    <3>1. ASSUME NEW q \in Reconcilers, NEW n \in DOMAIN rec'[q].todo PROVE Agrees(rec[q].todo[n])'
      <4>1. PICK a \in Actions : a = rec'[q].todo[n] /\ Agrees(a)
        BY <2>7, <3>1
      <4>2. Agrees(a)'
        BY <2>6, <4>1
      <4> QED
        BY <4>1, <4>2 DEF Agrees
    <3> QED
      BY <3>1 DEF KindAgrees
  <2>9. /\ \A i \in Instances : inst'[i].action # 0 <=> inst'[i].status \in {"starting", "hibernating"}
        /\ OnlyRunningWaits'
    BY <1>0, <1>7, <2>2 DEF RowInv, OnlyRunningWaits
  <2>10. RowInv'
    BY <2>2, <2>4, <2>5, <2>8, <2>9 DEF RowInv
  <2>11. FleetInv' <=> QueueTypes' /\ RowInv'
    BY Halves, PTL
  <2> QED
    <3>1. FleetInv'
      BY <1>2, <2>10, <2>11
    <3>2. \/ inst[j].status = "starting" /\ inst'[j].status = "running"
          \/ inst[j].status = "hibernating" /\ inst'[j].status = "hibernated"
      BY <1>5, <1>7, <2>2, <2>3
    <3> QED
      BY <1>4, <2>1, <2>2, <3>1, <3>2
<1> QED
  BY <1>8, <1>9

\* The grace period ends for an instance that runs.
LEMMA GraceStep ==
  ASSUME FleetInv, NEW i \in Instances, GraceElapses(i)
  PROVE  /\ FleetInv'
         /\ inst[i].status = "running"
         /\ \A j \in Instances : inst'[j].status = inst[j].status /\ (j # i => inst'[j] = inst[j])
<1>0. QueueTypes /\ RowInv
  BY Halves
<1>1. inst[i].idle = "since" /\ inst' = [inst EXCEPT ![i].idle = "grace"] /\ rec' = rec
  BY DEF GraceElapses
<1>2. inst[i].status = "running"
  BY <1>0, <1>1 DEF RowInv, OnlyRunningWaits
<1>3. PICK row \in InstRow : row = inst[i]
  BY <1>0 DEF RowInv
<1>4. PICK new : new = [row EXCEPT !.idle = "grace"]
  OBVIOUS
<1>5. new \in InstRow /\ new.status = row.status /\ new.action = row.action
  BY <1>4 DEF InstRow
<1>6. inst' = [inst EXCEPT ![i] = new]
  BY <1>1, <1>3, <1>4
<1>7. inst' \in [Instances -> InstRow] /\ inst'[i] = new /\ \A j \in Instances \ {i} : inst'[j] = inst[j]
  BY <1>0, <1>5, <1>6 DEF RowInv
<1>8. \A j \in Instances : inst'[j].status = inst[j].status /\ inst'[j].action = inst[j].action
  BY <1>3, <1>5, <1>7
<1>9. OnlyRunningWaits'
  BY <1>0, <1>2, <1>7, <1>8 DEF RowInv, OnlyRunningWaits
<1>10. KindAgrees'
  <2>1. ASSUME NEW q \in Reconcilers, NEW n \in DOMAIN rec[q].todo PROVE Agrees(rec[q].todo[n])'
    <3>1. rec[q].todo \in Seq(Actions)
      BY Rows DEF FleetInv
    <3>2. rec[q].todo[n] \in Actions
      BY <2>1, <3>1, ElementOfSeq, LenProperties
    <3>3. rec[q].todo[n].instance \in Instances /\ Agrees(rec[q].todo[n])
      BY <1>0, <2>1, <3>2, ActionFields DEF RowInv, KindAgrees
    <3> QED
      BY <1>1, <1>8, <3>3 DEF Agrees
  <2> QED
    BY <1>1, <2>1 DEF KindAgrees
<1>11. RowInv'
  BY <1>0, <1>1, <1>7, <1>8, <1>9, <1>10 DEF RowInv, Underway
<1>12. QueueTypes'
  BY <1>0 DEF GraceElapses, queueVars, QueueTypes
<1>13. FleetInv' <=> QueueTypes' /\ RowInv'
  BY Halves, PTL
<1> QED
  BY <1>2, <1>7, <1>8, <1>11, <1>12, <1>13

\* A plan with nothing pending: the chosen instances begin a transition with an id that no
\* reconciliation holds, the others are refreshed.
LEMMA PlanRows ==
  ASSUME FleetInv, NEW r \in Reconcilers, NEW chosen \in SUBSET Instances,
         NEW action \in {"wake", "hibernate"}, NEW limit,
         \A i \in Instances : ~Transition(i), QueueTypes',
         Taken(r, chosen, action, limit),
         \A i \in chosen : inst'[i].idle # "since"
  PROVE  FleetInv'
<1> PICK new \in RecRow : new = rec'[r]
  BY DEF Taken
<1>a. /\ inst' \in [Instances -> InstRow]
      /\ \A i \in Instances \ chosen : inst'[i] = Refreshed[i]
      /\ \A i \in chosen :
           /\ inst'[i].status = IF action = "wake" THEN "starting" ELSE "hibernating"
           /\ inst'[i].action \in ActionIds \ HeldIds
  BY DEF Taken
<1>b. /\ rec' = [rec EXCEPT ![r] = new] /\ new.pc \in {"idle", "apply"}
      /\ new.todo = <<>> <=> new.pc = "idle"
      /\ \A n \in DOMAIN new.todo : new.todo[n].action = action /\ new.todo[n].instance \in chosen
  BY DEF Taken
<1>0. QueueTypes /\ RowInv /\ TypeOK
  BY Halves DEF FleetInv
<1>1. rec' \in [Reconcilers -> RecRow] /\ rec'[r] = new /\ \A q \in Reconcilers \ {r} : rec'[q] = rec[q]
  BY <1>0, <1>b DEF RowInv
<1>2. \A q \in Reconcilers : Underway(q)'
  BY <1>0, <1>1, <1>b DEF RowInv, Underway
<1>3. \A i \in Instances \ chosen : inst'[i].status = inst[i].status /\ inst'[i].action = inst[i].action
  BY <1>0, <1>a, RefreshedRows
<1>4. \A i \in Instances : inst'[i].action # 0 <=> inst'[i].status \in {"starting", "hibernating"}
  <2>1. 0 \notin ActionIds
    BY PoolSize DEF ActionIds
  <2> QED
    BY <1>0, <1>3, <1>a, <2>1 DEF RowInv
<1>5. OnlyRunningWaits'
  BY <1>0, <1>3, <1>a, RefreshedRows DEF RowInv, OnlyRunningWaits
<1>6. KindAgrees'
  <2>1. ASSUME NEW n \in DOMAIN new.todo PROVE Agrees(new.todo[n])'
    BY <1>1, <1>a, <1>b, <2>1 DEF Agrees
  <2>2. ASSUME NEW q \in Reconcilers \ {r}, NEW n \in DOMAIN rec[q].todo PROVE Agrees(rec[q].todo[n])'
    <3>1. rec[q].todo[n].id \in HeldIds
      BY <2>2 DEF HeldIds
    <3>2. rec[q].todo \in Seq(Actions)
      BY <1>0, Rows
    <3>3. rec[q].todo[n] \in Actions
      BY <2>2, <3>2, ElementOfSeq, LenProperties
    <3>4. PICK a \in Actions : a = rec[q].todo[n] /\ a.id \in HeldIds /\ a.instance \in Instances /\ Agrees(a)
      BY <1>0, <2>2, <3>1, <3>3, ActionFields DEF RowInv, KindAgrees
    <3>5. Agrees(a)'
      <4>1. CASE a.instance \in chosen
        BY <1>a, <3>4, <4>1 DEF Agrees
      <4>2. CASE a.instance \notin chosen
        BY <1>3, <3>4, <4>2 DEF Agrees
      <4> QED
        BY <4>1, <4>2
    <3>6. rec'[q] = rec[q]
      BY <1>1
    <3> QED
      BY <3>4, <3>5, <3>6 DEF Agrees
  <2>3. ASSUME NEW q \in Reconcilers, NEW n \in DOMAIN rec'[q].todo PROVE Agrees(rec[q].todo[n])'
    <3>1. CASE q = r
      <4>1. n \in DOMAIN new.todo
        BY <1>1, <2>3, <3>1
      <4>2. Agrees(new.todo[n])'
        BY <2>1, <4>1
      <4> QED
        BY <1>1, <3>1, <4>2 DEF Agrees
    <3>2. CASE q # r
      <4>1. q \in Reconcilers \ {r} /\ n \in DOMAIN rec[q].todo
        BY <1>1, <2>3, <3>2
      <4> QED
        BY <2>2, <4>1
    <3> QED
      BY <3>1, <3>2
  <2> QED
    BY <2>3 DEF KindAgrees
<1>7. RowInv'
  BY <1>1, <1>2, <1>4, <1>5, <1>6, <1>a DEF RowInv
<1>8. FleetInv' <=> QueueTypes' /\ RowInv'
  BY Halves, PTL
<1> QED
  BY <1>7, <1>8

\* The instances that run, those in service, and that both are finite.
LEMMA InServiceRows ==
  ASSUME FleetInv, \A i \in Instances : ~Transition(i)
  PROVE  /\ Running \in Nat /\ InService = Running /\ Effective = Running
         /\ WithStatus("starting") = {} /\ IsFiniteSet(WithStatus("running"))
<1>1. WithStatus("starting") = {}
  BY DEF WithStatus, Transition
<1>2. WithStatus("running") \in SUBSET Instances
  BY DEF WithStatus
<1>3. IsFiniteSet(WithStatus("running")) /\ Cardinality(WithStatus("running")) \in Nat
  BY <1>2, FleetAssumption, FS_Subset, FS_CardinalityType
<1>4. WithStatus("running") \cup WithStatus("starting") = WithStatus("running")
  BY <1>1
<1>5. Cardinality(WithStatus("starting")) = 0
  BY <1>1, FS_EmptySet
<1> QED
  BY <1>1, <1>3, <1>4, <1>5 DEF Running, InService, Effective

\* How many instances run and are in service are numbers.
LEMMA Sizes == Running \in Nat /\ InService \in Nat
<1>1. WithStatus("running") \in SUBSET Instances
  BY DEF WithStatus
<1>2. WithStatus("running") \cup WithStatus("starting") \in SUBSET Instances
  BY DEF WithStatus
<1> QED
  BY <1>1, <1>2, FleetAssumption, FS_Subset, FS_CardinalityType DEF Running, InService

\* They stay what they are with the statuses, and when wakes complete.
LEMMA ServiceKept ==
  ASSUME \A i \in Instances :
           \/ inst'[i].status = inst[i].status
           \/ inst[i].status = "starting" /\ inst'[i].status = "running"
           \/ inst[i].status = "hibernating" /\ inst'[i].status = "hibernated"
  PROVE  InService' = InService /\ Running' >= Running
<1> DEFINE R == {i \in Instances : inst[i].status = "running"}
           Rn == {i \in Instances : inst'[i].status = "running"}
<1>1. InService' = InService
  <2>1. {i \in Instances : inst'[i].status = "running"} \cup {i \in Instances : inst'[i].status = "starting"} =
        {i \in Instances : inst[i].status = "running"} \cup {i \in Instances : inst[i].status = "starting"}
    OBVIOUS
  <2> QED
    BY <2>1 DEF InService, WithStatus
<1>2. R \in SUBSET Rn /\ Rn \in SUBSET Instances
  OBVIOUS
<1> HIDE DEF R, Rn
<1>3. IsFiniteSet(Rn) /\ Cardinality(R) <= Cardinality(Rn) /\ Cardinality(R) \in Nat /\ Cardinality(Rn) \in Nat
  BY <1>2, FleetAssumption, FS_Subset, FS_CardinalityType
<1>4. Running = Cardinality(R) /\ Running' = Cardinality(Rn)
  BY DEF Running, WithStatus, R, Rn
<1> QED
  BY <1>1, <1>3, <1>4

\* A plan wakes at most what its policy leaves room for.
LEMMA WakeRoom ==
  ASSUME FleetInv, \A i \in Instances : ~Transition(i), NEW p \in Policies
  PROVE  /\ WakeCount(p) \in Nat
         /\ WakeCount(p) > 0 => Running + WakeCount(p) <= p.max
         /\ Surplus(p) \in Nat
         /\ Surplus(p) > 0 => Running - Surplus(p) >= p.min
<1>1. p.min \in Nat /\ p.max \in Nat
  BY FleetAssumption
<1>2. Effective = Running /\ Running \in Nat /\ Cardinality(WithStatus("running")) = Running
  BY InServiceRows DEF Running
<1>3. Above(p.max, Effective) \in Nat /\ (Above(p.max, Effective) > 0 => Running + Above(p.max, Effective) <= p.max)
  BY <1>1, <1>2 DEF Above
<1>4. \E m : WakeCount(p) = Minimum(m, Above(p.max, Effective)) /\ m \in Nat
  <2> DEFINE wanted == IF \/ Ready # {} /\ Effective = 0
                          \/ /\ Cardinality(Ready) > Above(Cardinality(WithStatus("running")), BusyCount)
                             /\ Ready \cap waited # {} /\ Effective < p.max
                       THEN 1 ELSE 0
             m == Max({Above(p.min, Effective), wanted})
  <2>1. wanted \in Nat /\ Above(p.min, Effective) \in Nat
    BY <1>1, <1>2 DEF Above
  <2>2. WakeCount(p) = Minimum(m, Above(p.max, Effective))
    BY DEF WakeCount
  <2> HIDE DEF wanted
  <2>3. \E x \in {Above(p.min, Effective), wanted} : \A y \in {Above(p.min, Effective), wanted} : x >= y
    BY <2>1
  <2>4. m \in Nat
    BY <2>1, <2>3 DEF Max
  <2> QED
    BY <2>2, <2>4
<1>5. PICK m : WakeCount(p) = Minimum(m, Above(p.max, Effective)) /\ m \in Nat
  BY <1>4
<1>6. WakeCount(p) \in Nat /\ WakeCount(p) <= Above(p.max, Effective)
  BY <1>3, <1>5 DEF Minimum
<1>7. Surplus(p) \in Nat /\ (Surplus(p) > 0 => Running - Surplus(p) >= p.min)
  BY <1>1, <1>2 DEF Surplus, Above
<1> QED
  BY <1>1, <1>2, <1>3, <1>6, <1>7

\* The plan of a role in its transaction.
LEMMA PlanStep ==
  ASSUME FleetInv, NEW r \in Reconcilers, Plan(r)
  PROVE  /\ FleetInv'
         /\ \A i \in Instances : inst[i].action # 0 => inst'[i] = inst[i]
         /\ InService' > InService => InService' <= rec[r].policy.max
         /\ Running' < Running => rec[r].policy.hibernation /\ Running' >= rec[r].policy.min
<1> DEFINE p == rec[r].policy
<1>0. QueueTypes /\ RowInv /\ TypeOK
  BY Halves DEF FleetInv
<1>1. rec[r].pc = "plan" /\ p \in Policies
  BY <1>0 DEF Plan, RowInv, Underway
<1>2. QueueTypes'
  BY <1>0 DEF Plan, queueVars, QueueTypes
<1>3. ASSUME PendingActions # <<>>, UNCHANGED inst,
             rec' = [rec EXCEPT ![r] = [pc |-> "apply", policy |-> None, todo |-> PendingActions]]
      PROVE  FleetInv' /\ InService' = InService /\ Running' >= Running
  <2>1. PICK new : new = [pc |-> "apply", policy |-> None, todo |-> PendingActions]
    OBVIOUS
  <2>2. new \in RecRow /\ new.pc = "apply" /\ new.todo = PendingActions
    BY <1>0, <2>1, PendingRows DEF RecRow
  <2>3. \A n \in DOMAIN new.todo : Agrees(new.todo[n])
    BY <1>0, <2>2, PendingRows
  <2>4. FleetInv'
    BY <1>2, <1>3, <2>1, <2>2, <2>3, RecordSteps
  <2> QED
    BY <1>3, <2>4, ServiceKept
<1>4. ASSUME PendingActions = <<>>, inst' = Refreshed, rec' = [rec EXCEPT ![r] = Resting]
      PROVE  FleetInv' /\ InService' = InService /\ Running' >= Running
  <2>1. \A i \in Instances : ~Transition(i)
    BY <1>0, <1>4, PendingRows
  <2>2. inst' \in [Instances -> InstRow] /\ \A i \in Instances : inst'[i] = Refreshed[i] /\ inst'[i].status = inst[i].status
    <3>1. \A i \in Instances : Refreshed[i] \in InstRow /\ Refreshed[i].status = inst[i].status
      BY <1>0, RefreshedRows
    <3>2. Refreshed = [i \in Instances |-> Refreshed[i]]
      BY DEF Refreshed
    <3> QED
      BY <1>4, <3>1, <3>2
  <2>3. DOMAIN Resting.todo = {}
    BY RestingRow
  <2>4. FleetInv'
    <3>1. {} \in SUBSET Instances /\ "wake" \in {"wake", "hibernate"} /\ Cardinality({}) <= 0
      BY FS_EmptySet
    <3>2. rec'[r] = Resting /\ rec' = [rec EXCEPT ![r] = rec'[r]]
      BY <1>0, <1>4 DEF RowInv
    <3>3. Taken(r, {}, "wake", 0)
      BY <2>2, <2>3, <3>1, <3>2, RestingRow DEF Taken
    <3> QED
      BY <1>2, <2>1, <3>1, <3>3, PlanRows
  <2> QED
    BY <2>2, <2>4, ServiceKept
<1>5. ASSUME PendingActions = <<>>, WakeCount(p) > 0, Planned(r, Wakeable, "wake", WakeCount(p))
      PROVE  /\ FleetInv' /\ InService' <= p.max /\ Running' >= Running
  <2>1. \A i \in Instances : ~Transition(i)
    BY <1>0, <1>5, PendingRows
  <2>2. /\ WakeCount(p) \in Nat /\ Running + WakeCount(p) <= p.max
        /\ p.max \in Nat /\ Running \in Nat
    BY <1>1, <1>5, <2>1, WakeRoom, InServiceRows, FleetAssumption
  <2> DEFINE limit == WakeCount(p)
  <2>3. limit \in Nat /\ Running + limit <= p.max /\ Planned(r, Wakeable, "wake", limit)
    BY <1>5, <2>2
  <2> HIDE DEF limit
  <2>4. Wakeable \in SUBSET Instances
    BY DEF Wakeable
  <2>a. "wake" \in {"wake", "hibernate"}
    OBVIOUS
  <2>b. PICK chosen \in SUBSET Wakeable : Taken(r, chosen, "wake", limit)
    BY <2>3, <2>4, <2>a, PlannedRows
  <2>5. /\ Cardinality(chosen) <= limit
        /\ \A i \in Instances \ chosen : inst'[i] = Refreshed[i]
        /\ \A i \in chosen : inst'[i].status = "starting" /\ inst'[i].idle = Refreshed[i].idle
    BY <2>b DEF Taken
  <2>6. \A i \in chosen : i \in Instances /\ inst[i].status # "running" /\ inst'[i].idle # "since"
    BY <1>0, <2>5, RefreshedRows DEF Wakeable, RowInv, OnlyRunningWaits
  <2>7. FleetInv'
    <3>1. chosen \in SUBSET Instances
      BY <2>6
    <3> QED
      BY <1>2, <2>1, <2>a, <2>b, <2>6, <3>1, PlanRows
  <2>8. \A i \in Instances \ chosen : inst'[i].status = inst[i].status
    BY <1>0, <2>5, RefreshedRows
  <2>9. {i \in Instances : inst'[i].status = "running"} = {i \in Instances : inst[i].status = "running"}
    BY <2>5, <2>6, <2>8
  <2>10. Running' = Running
    BY <2>9 DEF Running, WithStatus
  <2>11. {i \in Instances : inst'[i].status = "running"} \cup {i \in Instances : inst'[i].status = "starting"}
           = WithStatus("running") \cup chosen
    <3>1. \A i \in Instances : inst'[i].status \in {"running", "starting"} <=> i \in chosen \/ inst[i].status = "running"
      BY <2>1, <2>5, <2>6, <2>8 DEF Transition
    <3>2. chosen \in SUBSET Instances
      BY <2>6
    <3> QED
      BY <3>1, <3>2 DEF WithStatus
  <2>12. InService' = Cardinality(WithStatus("running") \cup chosen)
    BY <2>11 DEF InService, WithStatus
  <2>13. IsFiniteSet(chosen) /\ Cardinality(chosen) \in Nat
    <3>1. chosen \in SUBSET Instances
      BY <2>6
    <3> QED
      BY <3>1, FleetAssumption, FS_Subset, FS_CardinalityType
  <2>14. WithStatus("running") \cap chosen = {} /\ IsFiniteSet(WithStatus("running"))
    BY <2>1, <2>6, InServiceRows DEF WithStatus
  <2>15. InService' = Running + Cardinality(chosen) - 0
    BY <2>12, <2>13, <2>14, FS_Union, FS_EmptySet DEF Running
  <2>16. InService' <= p.max
    BY <2>2, <2>3, <2>5, <2>13, <2>15
  <2> QED
    BY <2>2, <2>7, <2>10, <2>16
<1>6. ASSUME PendingActions = <<>>, Surplus(p) > 0, Planned(r, Hibernatable, "hibernate", Surplus(p))
      PROVE  /\ FleetInv' /\ InService' <= InService /\ Running' >= p.min
  <2>1. \A i \in Instances : ~Transition(i)
    BY <1>0, <1>6, PendingRows
  <2>2. /\ Surplus(p) \in Nat /\ Running - Surplus(p) >= p.min
        /\ p.min \in Nat /\ Running \in Nat /\ InService = Running
    BY <1>1, <1>6, <2>1, WakeRoom, InServiceRows, FleetAssumption
  <2> DEFINE limit == Surplus(p)
  <2>3. limit \in Nat /\ Running - limit >= p.min /\ Planned(r, Hibernatable, "hibernate", limit)
    BY <1>6, <2>2
  <2> HIDE DEF limit
  <2>4. Hibernatable \in SUBSET Instances
    BY DEF Hibernatable, WithStatus
  <2>a. "hibernate" \in {"wake", "hibernate"}
    OBVIOUS
  <2>b. PICK chosen \in SUBSET Hibernatable : Taken(r, chosen, "hibernate", limit)
    BY <2>3, <2>4, <2>a, PlannedRows
  <2>5. /\ Cardinality(chosen) <= limit
        /\ \A i \in Instances \ chosen : inst'[i] = Refreshed[i]
        /\ \A i \in chosen : inst'[i].status = "hibernating" /\ inst'[i].idle = Refreshed[i].idle
    BY <2>b DEF Taken
  <2>6. \A i \in chosen : i \in WithStatus("running") /\ inst'[i].idle = "grace"
    BY <2>5 DEF Hibernatable
  <2>7. chosen \in SUBSET Instances /\ chosen \in SUBSET WithStatus("running")
    BY <2>6 DEF WithStatus
  <2>8. FleetInv'
    <3>1. \A i \in chosen : inst'[i].idle # "since"
      BY <2>6
    <3> QED
      BY <1>2, <2>1, <2>a, <2>b, <2>7, <3>1, PlanRows
  <2>9. \A i \in Instances \ chosen : inst'[i].status = inst[i].status
    BY <1>0, <2>5, RefreshedRows
  <2>10. {i \in Instances : inst'[i].status = "running"} = WithStatus("running") \ chosen
    BY <2>5, <2>7, <2>9 DEF WithStatus
  <2>11. {i \in Instances : inst'[i].status = "starting"} = {}
    BY <2>1, <2>5, <2>9 DEF Transition
  <2>12. Running' = Cardinality(WithStatus("running") \ chosen)
    BY <2>10 DEF Running, WithStatus
  <2>13. InService' = Running'
    <3>1. {i \in Instances : inst'[i].status = "running"} \cup {i \in Instances : inst'[i].status = "starting"}
            = {i \in Instances : inst'[i].status = "running"}
      BY <2>11
    <3> QED
      BY <3>1 DEF Running, InService, WithStatus
  <2>14. IsFiniteSet(WithStatus("running")) /\ Cardinality(WithStatus("running")) = Running
    BY <2>1, InServiceRows DEF Running
  <2>15. PICK rest : rest = WithStatus("running") \ chosen
    OBVIOUS
  <2>16. /\ IsFiniteSet(rest) /\ IsFiniteSet(chosen)
         /\ Cardinality(rest) \in Nat /\ Cardinality(chosen) \in Nat
         /\ rest \in SUBSET WithStatus("running") /\ Cardinality(rest) <= Running
    BY <2>7, <2>14, <2>15, FS_Subset, FS_CardinalityType
  <2>17. rest \cup chosen = WithStatus("running") /\ rest \cap chosen = {}
    BY <2>7, <2>15
  <2>18. Running = Cardinality(rest) + Cardinality(chosen) - 0
    BY <2>14, <2>16, <2>17, FS_Union, FS_EmptySet
  <2>19. Running' >= p.min /\ InService' <= InService
    BY <2>2, <2>3, <2>5, <2>12, <2>13, <2>15, <2>16, <2>18
  <2> QED
    BY <2>8, <2>19
<1>7. ASSUME PendingActions = <<>> PROVE \A i \in Instances : inst[i].action = 0
  BY <1>0, <1>7, PendingRows DEF RowInv, Transition
<1>8. Running \in Nat /\ InService \in Nat /\ (Running \in Nat)' /\ (InService \in Nat)'
  BY Sizes, PTL
<1>9. \/ /\ PendingActions # <<>> /\ UNCHANGED inst
         /\ rec' = [rec EXCEPT ![r] = [pc |-> "apply", policy |-> None, todo |-> PendingActions]]
      \/ PendingActions = <<>> /\ inst' = Refreshed /\ rec' = [rec EXCEPT ![r] = Resting]
      \/ PendingActions = <<>> /\ WakeCount(p) > 0 /\ Planned(r, Wakeable, "wake", WakeCount(p))
      \/ /\ PendingActions = <<>> /\ Surplus(p) > 0 /\ p.hibernation
         /\ Planned(r, Hibernatable, "hibernate", Surplus(p))
  BY DEF Plan
<1> HIDE DEF p
<1>10. /\ FleetInv'
       /\ \A i \in Instances : inst[i].action # 0 => inst'[i] = inst[i]
       /\ InService' > InService => InService' <= p.max
       /\ Running' < Running => p.hibernation /\ Running' >= p.min
  BY <1>3, <1>4, <1>5, <1>6, <1>7, <1>8, <1>9
<1> QED
  BY <1>10 DEF p

-----------------------------------------------------------------------------
(* The theorems *)

\* A row in a transition changes only when its own action is completed.
OwnActions ==
  \A i \in Instances :
    inst[i].action # 0 /\ inst'[i] # inst[i] =>
      \E r \in Reconcilers :
        /\ rec[r].pc = "complete" /\ Current(r).instance = i
        /\ Current(r).id = inst[i].action

\* What a plan takes into service or out of it, it takes within the policy it read.
OwnPolicy ==
  /\ InService' > InService =>
       \E r \in Reconcilers : rec[r].pc = "plan" /\ InService' <= rec[r].policy.max
  /\ Running' < Running =>
       \E r \in Reconcilers :
         /\ rec[r].pc = "plan" /\ rec[r].policy.hibernation
         /\ Running' >= rec[r].policy.min

\* Every step preserves the invariant, takes instances within a policy and settles a
\* transition only with the action that began it.
LEMMA FleetSteps ==
  ASSUME FleetInv, [Next]_vars
  PROVE  FleetInv' /\ OwnPolicy /\ OwnActions
<1>1. Running \in Nat /\ InService \in Nat /\ (Running \in Nat)' /\ (InService \in Nat)'
  BY Sizes, PTL
<1>2. ASSUME InService' = InService, Running' >= Running PROVE OwnPolicy
  BY <1>1, <1>2 DEF OwnPolicy
<1>3. ASSUME inst' = inst PROVE OwnPolicy /\ OwnActions
  <2>1. InService' = InService /\ Running' >= Running
    BY <1>3, ServiceKept
  <2> QED
    BY <1>2, <1>3, <2>1 DEF OwnActions
<1>4. ASSUME \/ \E k \in Items : Enqueue(k) \/ Reclaim(k) \/ ItemWaits(k)
             \/ \E i \in Instances :
                  \/ ClaimReads(i) \/ ClaimTakes(i) \/ StartTurn(i)
                  \/ FinishTurn(i, "done") \/ FinishTurn(i, "ready") \/ Dispatch(i)
      PROVE  FleetInv' /\ OwnPolicy /\ OwnActions
  <2>1. FleetInv' /\ inst' = inst
    BY <1>4, QueueSteps
  <2> QED
    BY <1>3, <2>1
<1>5. ASSUME NEW i \in Instances, GraceElapses(i) PROVE FleetInv' /\ OwnPolicy /\ OwnActions
  <2>1. /\ FleetInv' /\ inst[i].status = "running"
        /\ \A j \in Instances : inst'[j].status = inst[j].status /\ (j # i => inst'[j] = inst[j])
    BY <1>5, GraceStep
  <2>2. InService' = InService /\ Running' >= Running
    BY <2>1, ServiceKept
  <2>3. inst[i].action = 0
    BY <2>1 DEF FleetInv, TypeOK
  <2> QED
    BY <1>2, <2>1, <2>2, <2>3 DEF OwnActions
<1>6. ASSUME NEW r \in Reconcilers, ReadPolicies(r) \/ Apply(r) \/ ApplyFails(r) \/ Dies(r)
      PROVE  FleetInv' /\ OwnPolicy /\ OwnActions
  BY <1>3, <1>6, CallerSteps
<1>7. ASSUME NEW r \in Reconcilers, Plan(r) PROVE FleetInv' /\ OwnPolicy /\ OwnActions
  <2>1. rec[r].pc = "plan"
    BY <1>7 DEF Plan
  <2> QED
    BY <1>7, <2>1, PlanStep DEF OwnPolicy, OwnActions
<1>8. ASSUME NEW r \in Reconcilers, Complete(r) PROVE FleetInv' /\ OwnPolicy /\ OwnActions
  <2>1. rec[r].pc = "complete"
    BY <1>8 DEF Complete
  <2>2. /\ FleetInv'
        /\ \A i \in Instances : inst'[i] # inst[i] =>
              /\ Current(r).instance = i /\ Current(r).id = inst[i].action
              /\ \/ inst[i].status = "starting" /\ inst'[i].status = "running"
                 \/ inst[i].status = "hibernating" /\ inst'[i].status = "hibernated"
    BY <1>8, CompleteStep
  <2>3. InService' = InService /\ Running' >= Running
    BY <2>2, ServiceKept
  <2> QED
    BY <1>2, <2>1, <2>2, <2>3 DEF OwnActions
<1>9. ASSUME UNCHANGED vars PROVE FleetInv' /\ OwnPolicy /\ OwnActions
  <2>1. inst' = inst /\ UNCHANGED <<worker, item, waited, held, rec, faults>>
    BY <1>9 DEF vars, queueVars
  <2>2. QueueTypes'
    BY <2>1, Halves DEF QueueTypes
  <2>3. RowInv'
    BY <2>1, Halves DEF RowInv, OnlyRunningWaits, Underway, KindAgrees, Agrees
  <2>4. FleetInv' <=> QueueTypes' /\ RowInv'
    BY Halves, PTL
  <2> QED
    BY <1>3, <2>1, <2>2, <2>3, <2>4
<1> QED
  BY <1>4, <1>5, <1>6, <1>7, <1>8, <1>9 DEF Next, Reconcile

\* The invariant of the fleet is inductive.
LEMMA FleetInvariant == Spec => []FleetInv
<1>1. FleetInv /\ [Next]_vars => FleetInv'
  BY FleetSteps
<1> QED
  BY FleetBegins, <1>1, PTL DEF Spec

\* The rows, the queue and the reconciliations always have their types, and an instance has
\* a lifecycle action id in a transition and at no other time.
THEOREM FleetTypes == Spec => []TypeOK
<1>1. FleetInv => TypeOK
  BY DEF FleetInv
<1> QED
  BY <1>1, FleetInvariant, PTL

\* However many reconciliations plan at once, a wake stays below the maximum and a
\* hibernation above the warm minimum of the policy that its plan had read, and no plan
\* takes an instance out of service for a policy that disables hibernation.
THEOREM PoliciesKept == Spec => WithinPolicy
<1>1. FleetInv /\ [Next]_vars => OwnPolicy
  BY FleetSteps
<1>2. FleetInv /\ [Next]_vars =>
        [/\ InService' > InService =>
              \E r \in Reconcilers : rec[r].pc = "plan" /\ InService' <= rec[r].policy.max
         /\ Running' < Running =>
              \E r \in Reconcilers :
                /\ rec[r].pc = "plan" /\ rec[r].policy.hibernation
                /\ Running' >= rec[r].policy.min]_vars
  BY <1>1 DEF OwnPolicy
<1> QED
  BY <1>2, FleetInvariant, PTL DEF Spec, WithinPolicy

\* A transition of an instance ends only when a reconciliation completes the very action
\* that began it: an older one, still held by a slow reconciliation, changes nothing.
THEOREM TransitionsOwned == Spec => EndsWithItsAction
<1>1. FleetInv /\ [Next]_vars => OwnActions
  BY FleetSteps
<1>2. FleetInv /\ [Next]_vars =>
        [\A i \in Instances :
           inst[i].action # 0 /\ inst'[i] # inst[i] =>
             \E r \in Reconcilers :
               /\ rec[r].pc = "complete" /\ Current(r).instance = i
               /\ Current(r).id = inst[i].action]_vars
  BY <1>1 DEF OwnActions
<1> QED
  BY <1>2, FleetInvariant, PTL DEF Spec, EndsWithItsAction

=============================================================================
