------------------------------ MODULE RoleQueue ------------------------------
(***************************************************************************)
(* Role queues, durable leases and handoffs of Agentic Mesh V5:            *)
(* RoleQueueStore (queues.py), Router.route_in_transaction (routing.py)    *)
(* and HandoffStore (handoffs.py), which share the tables queue_items,     *)
(* leases and handoffs of one Postgres database.                           *)
(*                                                                         *)
(* A transaction whose decisions rest on rows it has locked is one action. *)
(* Two operations read a row they do not lock and act on it afterwards, so *)
(* each is two actions with anything in between: claim reads the queue and *)
(* the instance before it leases (claimTx), and the handoff operations     *)
(* lock the handoff, read the target lease without locking it, and then    *)
(* write (handoffTx).                                                      *)
(*                                                                         *)
(* Time is the database clock.  A lease's expires_at only matters through  *)
(* `expires_at <= clock_timestamp()', which stays true once it is true     *)
(* (heartbeat refuses an expired lease), so it is a flag the clock raises. *)
(* Likewise nothing can touch an item before its available_at has passed,  *)
(* and it stays past: an item is enqueued at the moment it becomes due.    *)
(***************************************************************************)
EXTENDS Naturals, FiniteSets

CONSTANTS
  Items,         \* idempotency keys: each names one queue item, and one handoff
  LeaseIds,      \* lease ids, drawn fresh (uuid4) by every claim
  Instances,     \* role instances
  Queues,        \* role queues
  QueueRole,     \* the role each queue belongs to
  InstanceRole,  \* the role of each instance
  Steady,        \* the instances whose role may not hibernate: they stay running
  HandoffKeys,   \* bound: the keys offers use (any others only name queue items)
  Rank,          \* the claim order: priority DESC, available_at, created_at, id
  None           \* the value of an unset column

ASSUME RoleAssumption ==
  /\ None \notin Items \cup LeaseIds \cup Instances \cup Queues
  /\ LeaseIds \subseteq Nat
  /\ Rank \in [Items -> Nat]
  /\ \A j, k \in Items : Rank[j] = Rank[k] => j = k

VARIABLES
  item,       \* queue_items: status and queue
  lease,      \* leases: the item, the owner and how far its life has gone
  handoff,    \* handoffs, by key: status, source item and target lease
  running,    \* instances whose role_instances.status is 'running'
  paused,     \* queues whose role_queues.paused is set
  claimTx,    \* per instance, the queue its open claim has checked, or None
  handoffTx   \* per handoff, the open transaction that holds its row lock

vars == <<item, lease, handoff, running, paused, claimTx, handoffTx>>

ItemRecord == [st : {"absent", "ready", "leased", "completed"},
               queue : Queues \cup {None}]

LeaseRecord == [st : {"none", "active", "released"}, expired : BOOLEAN,
                item : Items \cup {None}, owner : Instances \cup {None}]

HandoffRecord == [st : {"none", "offered", "claimed", "accepted"},
                  source : Items \cup {None}, targetLease : LeaseIds \cup {None}]

HandoffStep == [op : {"claim", "accept"}, lease : LeaseIds]
Idle == [op |-> "idle", lease |-> None]

NoItem == [st |-> "absent", queue |-> None]
NoLease == [st |-> "none", expired |-> FALSE, item |-> None, owner |-> None]
NoHandoff == [st |-> "none", source |-> None, targetLease |-> None]

TypeOK ==
  /\ item \in [Items -> ItemRecord]
  /\ lease \in [LeaseIds -> LeaseRecord]
  /\ handoff \in [Items -> HandoffRecord]
  /\ running \in SUBSET Instances
  /\ paused \in SUBSET Queues
  /\ claimTx \in [Instances -> Queues \cup {None}]
  /\ handoffTx \in [Items -> HandoffStep \cup {Idle}]

Init ==
  /\ item = [k \in Items |-> NoItem]
  /\ lease = [l \in LeaseIds |-> NoLease]
  /\ handoff = [h \in Items |-> NoHandoff]
  /\ running = Instances
  /\ paused = {}
  /\ claimTx = [i \in Instances |-> None]
  /\ handoffTx = [h \in Items |-> Idle]

Active(l) == lease[l].st = "active"
Valid(l) == Active(l) /\ ~lease[l].expired

-----------------------------------------------------------------------------
(* Enqueue, route and claim *)

\* RoleQueueStore.enqueue and Router.route: a key that is already in use is a
\* conflict (enqueue) or returns the stored item (route), and changes nothing.
\* The router also refuses a paused target queue; enqueue does not look.
Enqueue(k, q) ==
  /\ item[k].st = "absent"
  /\ item' = [item EXCEPT ![k] = [st |-> "ready", queue |-> q]]
  /\ UNCHANGED <<lease, handoff, running, paused, claimTx, handoffTx>>

\* claim, first statement: the queue and the instance are read, not locked.
ClaimBind(i, q) ==
  /\ claimTx[i] = None
  /\ q \notin paused
  /\ QueueRole[q] = InstanceRole[i] /\ i \in running
  /\ claimTx' = [claimTx EXCEPT ![i] = q]
  /\ UNCHANGED <<item, lease, handoff, running, paused, handoffTx>>

ExpiredLeases == {l \in LeaseIds : Active(l) /\ lease[l].expired}

\* _reclaim_expired: every expired lease of the project is released and its
\* item, if it is still leased, goes back to ready.
ReclaimedLeases ==
  [l \in LeaseIds |->
     IF l \in ExpiredLeases THEN [lease[l] EXCEPT !.st = "released"] ELSE lease[l]]

\* Mutant: the leases are released and their items forgotten.
ReclaimedItemsForgotten == item

ReclaimedItems ==
  [k \in Items |->
     IF item[k].st = "leased" /\ \E l \in ExpiredLeases : lease[l].item = k
     THEN [item[k] EXCEPT !.st = "ready"] ELSE item[k]]

\* Mutant: the status test also lets leased items through.
CandidatesWithLeased(q) ==
  {k \in Items : LET r == ReclaimedItems[k]
                 IN r.st \in {"ready", "leased"} /\ r.queue = q}

Candidates(q) ==
  {k \in Items : LET r == ReclaimedItems[k]
                 IN r.st = "ready" /\ r.queue = q}

\* FOR UPDATE SKIP LOCKED: every other open claim on the queue may be holding
\* the row of one candidate, which this claim then passes over.
MaySkip(i, S) ==
  Cardinality(S) <= Cardinality({j \in Instances \ {i} : claimTx[j] = claimTx[i]})

\* Ids are interchangeable, so a fresh one is the least that is not in use.
IsNextLease(l) ==
  /\ lease[l].st = "none"
  /\ \A m \in LeaseIds : m < l => lease[m].st # "none"

\* claim, the rest: reclaim, then lease the first ready and due item of the queue.
ClaimLease(i) ==
  LET q == claimTx[i] IN
  /\ q # None
  /\ \E k \in Candidates(q), l \in LeaseIds :
       /\ MaySkip(i, {j \in Candidates(q) : Rank[j] < Rank[k]})
       /\ IsNextLease(l)
       /\ lease' = [ReclaimedLeases EXCEPT
                      ![l] = [st |-> "active", expired |-> FALSE,
                              item |-> k, owner |-> i]]
       /\ item' = [ReclaimedItems EXCEPT ![k].st = "leased"]
  /\ claimTx' = [claimTx EXCEPT ![i] = None]
  /\ UNCHANGED <<handoff, running, paused, handoffTx>>

\* claim finds nothing: it returns None, and what it reclaimed is committed.
ClaimNothing(i) ==
  LET q == claimTx[i] IN
  /\ q # None
  /\ MaySkip(i, Candidates(q))
  /\ lease' = ReclaimedLeases
  /\ item' = ReclaimedItems
  /\ claimTx' = [claimTx EXCEPT ![i] = None]
  /\ UNCHANGED <<handoff, running, paused, handoffTx>>

-----------------------------------------------------------------------------
(* The life of a lease *)

\* The clock reaches expires_at.  A heartbeat that arrives in time only moves
\* expires_at, so it is the absence of this step.
Expire(l) ==
  /\ Valid(l)
  /\ lease' = [lease EXCEPT ![l].expired = TRUE]
  /\ UNCHANGED <<item, handoff, running, paused, claimTx, handoffTx>>

\* Mutant: a claimed handoff no longer counts as pending.
PendingUntilClaimed(k) ==
  \E h \in Items : handoff[h].source = k /\ handoff[h].st = "offered"

PendingHandoff(k) ==
  \E h \in Items : handoff[h].source = k /\ handoff[h].st \in {"offered", "claimed"}

\* _finish_lease: only an unreleased, unexpired lease can finish its item, and
\* completion waits for every handoff offered from that item.
FinishLease(l, status) ==
  /\ Valid(l)
  /\ status = "completed" => ~PendingHandoff(lease[l].item)
  /\ lease' = [lease EXCEPT ![l].st = "released"]
  /\ item' = [item EXCEPT ![lease[l].item].st = status]
  /\ UNCHANGED <<handoff, running, paused, claimTx, handoffTx>>

Complete(l) == FinishLease(l, "completed")

\* Mutant: the lease's word for it is written into the item's status.
ReleaseMisspelt(l) == FinishLease(l, "released")

Release(l) == FinishLease(l, "ready")

\* A released lease no row refers to and whose token its worker has dropped plays
\* no further part, so its id stands for a fresh one: claims never run out of ids.
Forget(l) ==
  /\ lease[l].st = "released"
  /\ \A h \in Items : handoff[h].targetLease # l /\ handoffTx[h].lease # l
  /\ lease' = [lease EXCEPT ![l] = NoLease]
  /\ UNCHANGED <<item, handoff, running, paused, claimTx, handoffTx>>

-----------------------------------------------------------------------------
(* Handoffs *)

\* HandoffStore.offer: under the source lease's row lock, route the target item
\* and record the handoff in one transaction.  A key that already names a handoff
\* or a routed item adds nothing.
Offer(l, h, q) ==
  /\ Valid(l)
  /\ item[lease[l].item].st = "leased" /\ lease[l].owner \in running
  /\ h \in HandoffKeys /\ handoff[h].st = "none" /\ item[h].st = "absent"
  /\ q \notin paused
  /\ item' = [item EXCEPT ![h] = [st |-> "ready", queue |-> q]]
  /\ handoff' = [handoff EXCEPT
                   ![h] = [st |-> "offered", source |-> lease[l].item,
                           targetLease |-> None]]
  /\ UNCHANGED <<lease, running, paused, claimTx, handoffTx>>

\* Mutant: the lease's queue_item_id is not compared with the handoff's.
HoldsAnyTarget(l, h) ==
  /\ Valid(l)
  /\ lease[l].owner \in running
  /\ InstanceRole[lease[l].owner] = QueueRole[item[h].queue]

\* _active_target_lease: the presented lease is valid, for this handoff's item,
\* and held by a running instance of the target role.
HoldsTarget(l, h) ==
  /\ Valid(l) /\ lease[l].item = h
  /\ lease[l].owner \in running
  /\ InstanceRole[lease[l].owner] = QueueRole[item[h].queue]

\* claim, up to its UPDATE: the handoff row is locked, the leases are only read.
HandoffClaimCheck(h, l) ==
  /\ handoffTx[h] = Idle
  /\ \/ handoff[h].st = "offered"
     \/ /\ handoff[h].st = "claimed" /\ handoff[h].targetLease # l
        /\ ~Valid(handoff[h].targetLease)
  /\ HoldsTarget(l, h)
  /\ handoffTx' = [handoffTx EXCEPT ![h] = [op |-> "claim", lease |-> l]]
  /\ UNCHANGED <<item, lease, handoff, running, paused, claimTx>>

\* accept, up to its UPDATE.
HandoffAcceptCheck(h, l) ==
  /\ handoffTx[h] = Idle
  /\ handoff[h].st = "claimed" /\ handoff[h].targetLease = l
  /\ HoldsTarget(l, h)
  /\ handoffTx' = [handoffTx EXCEPT ![h] = [op |-> "accept", lease |-> l]]
  /\ UNCHANGED <<item, lease, handoff, running, paused, claimTx>>

\* The UPDATE of claim or accept, committed.
HandoffCommit(h) ==
  /\ handoffTx[h] # Idle
  /\ handoff' = [handoff EXCEPT
                   ![h].st = IF handoffTx[h].op = "claim" THEN "claimed" ELSE "accepted",
                   ![h].targetLease = handoffTx[h].lease]
  /\ handoffTx' = [handoffTx EXCEPT ![h] = Idle]
  /\ UNCHANGED <<item, lease, running, paused, claimTx>>

-----------------------------------------------------------------------------
(* The environment: fleet and operators change what claim and offer read; a   *)
(* client or its connection dies and its open transaction rolls back.         *)

SetRunning(i) ==
  /\ i \notin Steady
  /\ running' = IF i \in running THEN running \ {i} ELSE running \cup {i}
  /\ UNCHANGED <<item, lease, handoff, paused, claimTx, handoffTx>>

SetPaused(q) ==
  /\ paused' = IF q \in paused THEN paused \ {q} ELSE paused \cup {q}
  /\ UNCHANGED <<item, lease, handoff, running, claimTx, handoffTx>>

RollbackClaim(i) ==
  /\ claimTx[i] # None
  /\ claimTx' = [claimTx EXCEPT ![i] = None]
  /\ UNCHANGED <<item, lease, handoff, running, paused, handoffTx>>

RollbackHandoff(h) ==
  /\ handoffTx[h] # Idle
  /\ handoffTx' = [handoffTx EXCEPT ![h] = Idle]
  /\ UNCHANGED <<item, lease, handoff, running, paused, claimTx>>

Next ==
  \/ \E k \in Items, q \in Queues : Enqueue(k, q)
  \/ \E i \in Instances, q \in Queues : ClaimBind(i, q)
  \/ \E i \in Instances : ClaimLease(i)
  \/ \E i \in Instances : ClaimNothing(i)
  \/ \E l \in LeaseIds : Expire(l)
  \/ \E l \in LeaseIds : Complete(l)
  \/ \E l \in LeaseIds : Release(l)
  \/ \E l \in LeaseIds : Forget(l)
  \/ \E l \in LeaseIds, h \in Items, q \in Queues : Offer(l, h, q)
  \/ \E h \in Items, l \in LeaseIds : HandoffClaimCheck(h, l)
  \/ \E h \in Items, l \in LeaseIds : HandoffAcceptCheck(h, l)
  \/ \E h \in Items : HandoffCommit(h)
  \/ \E i \in Instances : SetRunning(i)
  \/ \E q \in Queues : SetPaused(q)
  \/ \E i \in Instances : RollbackClaim(i)
  \/ \E h \in Items : RollbackHandoff(h)

Spec == Init /\ [][Next]_vars

-----------------------------------------------------------------------------
(* Safety *)

\* Leases and item statuses are written by different statements of different
\* operations (claim, reclaim, complete, release); they must never part: an item
\* is leased exactly while it has an active lease, and it never has two.
LeaseConsistent ==
  /\ \A l \in LeaseIds : Active(l) => item[lease[l].item].st = "leased"
  /\ \A k \in Items : item[k].st = "leased"
                        => \E l \in LeaseIds : Active(l) /\ lease[l].item = k
  /\ \A l, m \in LeaseIds :
       Active(l) /\ Active(m) /\ lease[l].item = lease[m].item => l = m

\* Work that handed some of its responsibility on is never completed before the
\* target has accepted it, however offers, lost leases and retries interleave.
SourceAccepted ==
  \A k, h \in Items :
    item[k].st = "completed" /\ handoff[h].source = k
      => handoff[h].st \notin {"offered", "claimed"}

\* The lease a handoff records, and the one an open claim or accept is about to
\* record, is a lease on that handoff's own item held by an instance of its role.
HandoffLease(h, l) ==
  /\ lease[l].st # "none" /\ lease[l].item = h
  /\ InstanceRole[lease[l].owner] = QueueRole[item[h].queue]

TargetOwnsHandoff ==
  \A h \in Items :
    /\ handoff[h].st \in {"claimed", "accepted"}
         => HandoffLease(h, handoff[h].targetLease)
    /\ handoffTx[h] # Idle => HandoffLease(h, handoffTx[h].lease)

\* What the queues promise: WorkQueue with an item's phase read off its status,
\* its holder off its active lease, and its unsettled work off the handoffs.
PhaseOf == [absent |-> "absent", ready |-> "waiting", leased |-> "held",
            completed |-> "done"]

Phase == [k \in Items |-> PhaseOf[item[k].st]]

HolderOf(k) ==
  IF item[k].st = "leased"
  THEN lease[CHOOSE l \in LeaseIds : Active(l) /\ lease[l].item = k].owner
  ELSE None

Holder == [k \in Items |-> HolderOf(k)]

UnsettledOf(k) ==
  {h \in Items : handoff[h].source = k /\ handoff[h].st \in {"offered", "claimed"}}

Unsettled == [k \in Items |-> UnsettledOf(k)]

Abstract == INSTANCE WorkQueue
  WITH Work <- Items, Workers <- Instances, Nobody <- None,
       phase <- Phase, holder <- Holder, unsettled <- Unsettled

\* Every step of the store is a step of WorkQueue or changes nothing there.
ImplementsWorkQueue == Abstract!WSpec

==============================================================================
