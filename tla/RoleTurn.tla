------------------------------ MODULE RoleTurn ------------------------------
(***************************************************************************)
(* One conversation of a work item and the role instances that take turns   *)
(* in it: RoleService.run_once with its heartbeat thread (role_service.py)  *)
(* and the durable thread affinity it works under (ThreadAffinityStore and  *)
(* ThreadAffinityCoordinator, thread_affinity.py).                          *)
(*                                                                         *)
(* The queue is WorkQueue: an item has one holder, who may lose it at any   *)
(* time.  Every other step of run_once is an action of its own, because any *)
(* other instance, the lease clock and an operator may act in between.      *)
(*                                                                         *)
(* An operation id is a fresh uuid per operation.  An instance runs one     *)
(* operation at a time and a new one needs an empty column, so the instance *)
(* that started an operation identifies it.  active_started_at is only ever *)
(* compared with the acquired_at of a lease, so what is kept of both is     *)
(* which instances got their lease after the operation started (newer).     *)
(***************************************************************************)
EXTENDS Naturals, FiniteSets

CONSTANTS
  Items,       \* queue items of this conversation
  Retries,     \* those whose payload names a reliability attempt
  Instances,   \* the instances of the role
  Digests,     \* prompt configuration digests
  MaxGen,      \* bound: generations of the affinity
  MaxFaults,   \* bound: crashes, errors and lapses of live leases
  None

ASSUME TurnAssumption ==
  /\ None \notin Items \cup Instances \cup Digests
  /\ Retries \subseteq Items
  /\ MaxGen \in Nat \ {0} /\ MaxFaults \in Nat

VARIABLES
  phase,     \* per item: absent, waiting, held or done
  holder,    \* per item: the instance with its valid lease
  proc,      \* per instance: where run_once is and what it has read
  aff,       \* the thread_affinities row of the conversation
  newer,     \* instances whose lease was acquired after the active operation began
  config,    \* role_bindings.prompt_configuration_digest
  recorded,  \* retry items whose attempt is in failure_attempts
  faults     \* faults so far

vars == <<phase, holder, proc, aff, newer, config, recorded, faults>>

Steps == {"idle", "claimed", "clear", "bind", "resume", "turn", "finish", "ack",
          "unwind", "fail"}

ProcRecord == [pc : Steps, item : Items \cup {None}, digest : Digests \cup {None},
               gen : 0..MaxGen, fresh : BOOLEAN, completed : BOOLEAN,
               hbError : BOOLEAN, superseded : BOOLEAN]

AffRecord == [st : {"none", "active", "pending_seed"}, digest : Digests \cup {None},
              gen : 0..MaxGen, op : Instances \cup {None}]

TypeOK ==
  /\ phase \in [Items -> {"absent", "waiting", "held", "done"}]
  /\ holder \in [Items -> Instances \cup {None}]
  /\ proc \in [Instances -> ProcRecord]
  /\ aff \in AffRecord
  /\ newer \in SUBSET Instances
  /\ config \in Digests
  /\ recorded \in SUBSET Retries
  /\ faults \in 0..MaxFaults

IdleProc == [pc |-> "idle", item |-> None, digest |-> None, gen |-> 0, fresh |-> FALSE,
             completed |-> FALSE, hbError |-> FALSE, superseded |-> FALSE]

NoAffinity == [st |-> "none", digest |-> None, gen |-> 0, op |-> None]

Init ==
  /\ phase = [k \in Items |-> "absent"]
  /\ holder = [k \in Items |-> None]
  /\ proc = [i \in Instances |-> IdleProc]
  /\ aff = NoAffinity
  /\ newer = {}
  /\ config \in Digests
  /\ recorded = {}
  /\ faults = 0

At(i, step) == proc[i].pc = step

\* The steps between the durable claim of the operation and its release.
Operating(i) == proc[i].pc \in {"resume", "turn", "finish", "unwind"}

HoldsLease(i) == proc[i].item # None /\ holder[proc[i].item] = i

-----------------------------------------------------------------------------
(* The queue *)

Enqueue(k) ==
  /\ phase[k] = "absent"
  /\ phase' = [phase EXCEPT ![k] = "waiting"]
  /\ UNCHANGED <<holder, proc, aff, newer, config, recorded, faults>>

\* RoleQueueStore.claim.
Claim(i, k) ==
  /\ At(i, "idle")
  /\ phase[k] = "waiting"
  /\ phase' = [phase EXCEPT ![k] = "held"]
  /\ holder' = [holder EXCEPT ![k] = i]
  /\ proc' = [proc EXCEPT ![i] = [IdleProc EXCEPT !.pc = "claimed", !.item = k]]
  /\ newer' = IF aff.op = None THEN {} ELSE newer \cup {i}
  /\ UNCHANGED <<aff, config, recorded, faults>>

\* A lease whose process is gone is not renewed: it expires and is reclaimed.
LapseDead(k) ==
  /\ phase[k] = "held"
  /\ proc[holder[k]].item # k
  /\ phase' = [phase EXCEPT ![k] = "waiting"]
  /\ holder' = [holder EXCEPT ![k] = None]
  /\ UNCHANGED <<proc, aff, newer, config, recorded, faults>>

\* A process that is suspended or cut off from the database for longer than
\* lease_seconds loses its lease and does not know it yet.
LapseLive(k) ==
  /\ phase[k] = "held" /\ faults < MaxFaults
  /\ proc[holder[k]].item = k
  /\ phase' = [phase EXCEPT ![k] = "waiting"]
  /\ holder' = [holder EXCEPT ![k] = None]
  /\ faults' = faults + 1
  /\ UNCHANGED <<proc, aff, newer, config, recorded>>

-----------------------------------------------------------------------------
(* run_once up to the turn *)

GoTo(i, step) == proc' = [proc EXCEPT ![i].pc = step]

\* queues.complete: refused without the lease, and then run_once tries to release.
FinishItem(i) ==
  LET k == proc[i].item IN
  IF HoldsLease(i)
  THEN /\ phase' = [phase EXCEPT ![k] = "done"]
       /\ holder' = [holder EXCEPT ![k] = None]
       /\ proc' = [proc EXCEPT ![i] = IdleProc]
  ELSE /\ GoTo(i, "fail")
       /\ UNCHANGED <<phase, holder>>

\* _retry_attempt_already_recorded: a redelivered retry is acknowledged unrun.
SkipRecorded(i) ==
  /\ At(i, "claimed") /\ proc[i].item \in recorded
  /\ FinishItem(i)
  /\ UNCHANGED <<aff, newer, config, recorded, faults>>

\* _work_context, the prompt, the workspace and the progress cursor `before'.
Prepare(i) ==
  /\ At(i, "claimed") /\ proc[i].item \notin recorded
  /\ proc' = [proc EXCEPT ![i].pc = "clear", ![i].digest = config, ![i].fresh = FALSE]
  /\ UNCHANGED <<phase, holder, aff, newer, config, recorded, faults>>

\* Mutants: any active operation is taken for superseded, whatever the lease's age;
\* or only one this very instance left behind.
SupersedesAny(i) == aff.op # None /\ aff.digest = proc[i].digest
SupersedesOwn(i) == aff.op = i /\ aff.digest = proc[i].digest /\ i \in newer

\* The WHERE of release_superseded_operation.
Supersedes(i) ==
  aff.op # None /\ aff.digest = proc[i].digest /\ i \in newer

\* release_superseded_operation: any operation older than this instance's lease.
Clear(i) ==
  /\ At(i, "clear")
  /\ GoTo(i, "bind")
  /\ IF Supersedes(i)
     THEN aff' = [aff EXCEPT !.op = None] /\ newer' = {}
     ELSE UNCHANGED <<aff, newer>>
  /\ UNCHANGED <<phase, holder, config, recorded, faults>>

\* Mutant: every bind counts as a new generation.
BoundAnew(i) ==
  [st |-> "active", digest |-> proc[i].digest, op |-> i, gen |-> aff.gen + 1]

\* The row bind_and_claim leaves, under the affinity's advisory lock: a missing or
\* reseeded affinity gets a new thread, and in every case the operation is claimed
\* only if none is active.
Bound(i) ==
  [st |-> "active", digest |-> proc[i].digest, op |-> i,
   gen |-> IF aff.st = "none" THEN 1 ELSE aff.gen]

CanBind(i) == aff.st = "none" \/ (aff.digest = proc[i].digest /\ aff.op = None)

\* bind_and_claim.  Everyone else inside an operation is now superseded.
Bind(i) ==
  /\ At(i, "bind") /\ CanBind(i)
  /\ aff' = Bound(i)
  /\ newer' = {}
  /\ proc' = [j \in Instances |->
       IF j = i THEN [proc[i] EXCEPT !.pc = IF aff.st = "active" THEN "resume" ELSE "turn",
                                     !.gen = Bound(i).gen]
       ELSE [proc[j] EXCEPT !.superseded = @ \/ Operating(j)]]
  /\ UNCHANGED <<phase, holder, config, recorded, faults>>

\* A different digest, or an active operation: the queue item is released.
BindRefused(i) ==
  /\ At(i, "bind") /\ ~CanBind(i)
  /\ GoTo(i, "fail")
  /\ UNCHANGED <<phase, holder, aff, newer, config, recorded, faults>>

\* engine.resume_thread and mark_resumed, which checks that the binding still
\* names this thread and digest.
Resume(i) ==
  /\ At(i, "resume")
  /\ GoTo(i, IF aff.st = "active" /\ aff.gen = proc[i].gen /\ aff.digest = proc[i].digest
             THEN "turn" ELSE "unwind")
  /\ UNCHANGED <<phase, holder, aff, newer, config, recorded, faults>>

-----------------------------------------------------------------------------
(* The turn and its end *)

\* The role records a structured progress checkpoint during its turn.
Progress(i) ==
  /\ At(i, "turn") /\ ~proc[i].fresh
  /\ proc' = [proc EXCEPT ![i].fresh = TRUE]
  /\ UNCHANGED <<phase, holder, aff, newer, config, recorded, faults>>

\* The role records the outcome of the retry it was asked to make.
RecordAttempt(i) ==
  /\ At(i, "turn") /\ proc[i].item \in Retries \ recorded
  /\ recorded' = recorded \cup {proc[i].item}
  /\ UNCHANGED <<phase, holder, proc, aff, newer, config, faults>>

\* The heartbeat thread finds the lease gone, and interrupts the turn.
LeaseLost(i) ==
  /\ proc[i].item # None /\ ~HoldsLease(i) /\ ~proc[i].hbError
  /\ proc' = [proc EXCEPT ![i].hbError = TRUE]
  /\ UNCHANGED <<phase, holder, aff, newer, config, recorded, faults>>

\* The turn reaches its deadline, or one heartbeat fails for another reason.
HeartbeatError(i) ==
  /\ proc[i].item # None /\ ~proc[i].hbError /\ faults < MaxFaults
  /\ proc' = [proc EXCEPT ![i].hbError = TRUE]
  /\ faults' = faults + 1
  /\ UNCHANGED <<phase, holder, aff, newer, config, recorded>>

\* The provider's last event: completed counts only if no heartbeat error was seen.
TurnEnds(i, completed) ==
  /\ At(i, "turn")
  /\ proc' = [proc EXCEPT ![i].pc = "finish",
                          ![i].completed = completed /\ ~proc[i].hbError]
  /\ UNCHANGED <<phase, holder, aff, newer, config, recorded, faults>>

\* release_operation: exactly this operation, or the turn counts as failed.
ReleaseOperation(i) ==
  /\ At(i, "finish")
  /\ IF aff.op = i
     THEN aff' = [aff EXCEPT !.op = None] /\ newer' = {} /\ GoTo(i, "ack")
     ELSE GoTo(i, "fail") /\ UNCHANGED <<aff, newer>>
  /\ UNCHANGED <<phase, holder, config, recorded, faults>>

\* The same release while an error unwinds: its own failure is only noted.
Unwind(i) ==
  /\ At(i, "unwind")
  /\ IF aff.op = i
     THEN aff' = [aff EXCEPT !.op = None] /\ newer' = {}
     ELSE UNCHANGED <<aff, newer>>
  /\ GoTo(i, "fail")
  /\ UNCHANGED <<phase, holder, config, recorded, faults>>

\* Mutant: only the provider's verdict is asked for.
AcceptableCompleted(i) == proc[i].completed

\* heartbeat.close, then the three checks in front of queues.complete.
Acceptable(i) == ~proc[i].hbError /\ proc[i].completed /\ proc[i].fresh

Acknowledge(i) ==
  /\ At(i, "ack") /\ Acceptable(i)
  /\ FinishItem(i)
  /\ UNCHANGED <<aff, newer, config, recorded, faults>>

Refuse(i) ==
  /\ At(i, "ack") /\ ~Acceptable(i)
  /\ GoTo(i, "fail")
  /\ UNCHANGED <<phase, holder, aff, newer, config, recorded, faults>>

\* _try_release: the item goes back to ready if the lease is still this one.
TryRelease(i) ==
  LET k == proc[i].item IN
  /\ At(i, "fail")
  /\ IF HoldsLease(i)
     THEN /\ phase' = [phase EXCEPT ![k] = "waiting"]
          /\ holder' = [holder EXCEPT ![k] = None]
     ELSE UNCHANGED <<phase, holder>>
  /\ proc' = [proc EXCEPT ![i] = IdleProc]
  /\ UNCHANGED <<aff, newer, config, recorded, faults>>

-----------------------------------------------------------------------------
(* Faults and operators *)

\* Any step may raise: inside the operation it unwinds, elsewhere it is caught.
StepError(i) ==
  /\ proc[i].pc \in {"claimed", "clear", "bind", "resume", "turn", "finish", "ack"}
  /\ faults < MaxFaults
  /\ GoTo(i, IF proc[i].pc \in {"resume", "turn"} THEN "unwind" ELSE "fail")
  /\ faults' = faults + 1
  /\ UNCHANGED <<phase, holder, aff, newer, config, recorded>>

\* The process dies and the supervisor starts it again: its lease and its
\* operation stay in the database.
Crash(i) ==
  /\ proc[i].item # None /\ faults < MaxFaults
  /\ proc' = [proc EXCEPT ![i] = IdleProc]
  /\ faults' = faults + 1
  /\ UNCHANGED <<phase, holder, aff, newer, config, recorded>>

\* reseed: only an idle, active binding with the expected digest.
Reseed(digest) ==
  /\ aff.st = "active" /\ aff.op = None /\ aff.digest # digest /\ aff.gen < MaxGen
  /\ aff' = [aff EXCEPT !.st = "pending_seed", !.digest = digest, !.gen = @ + 1]
  /\ UNCHANGED <<phase, holder, proc, newer, config, recorded, faults>>

\* Another configuration is bound to the role.
Activate(digest) ==
  /\ config # digest
  /\ config' = digest
  /\ UNCHANGED <<phase, holder, proc, aff, newer, recorded, faults>>

ServiceStep(i) ==
  \/ SkipRecorded(i) \/ Prepare(i) \/ Clear(i) \/ Bind(i) \/ BindRefused(i)
  \/ Resume(i) \/ ReleaseOperation(i) \/ Unwind(i) \/ Acknowledge(i) \/ Refuse(i)
  \/ TryRelease(i)

Next ==
  \/ \E k \in Items : Enqueue(k)
  \/ \E i \in Instances, k \in Items : Claim(i, k)
  \/ \E k \in Items : LapseDead(k)
  \/ \E k \in Items : LapseLive(k)
  \/ \E i \in Instances : ServiceStep(i)
  \/ \E i \in Instances : Progress(i)
  \/ \E i \in Instances : RecordAttempt(i)
  \/ \E i \in Instances : LeaseLost(i)
  \/ \E i \in Instances : HeartbeatError(i)
  \/ \E i \in Instances, completed \in BOOLEAN : TurnEnds(i, completed)
  \/ \E i \in Instances : StepError(i)
  \/ \E i \in Instances : Crash(i)
  \/ \E digest \in Digests : Reseed(digest)
  \/ \E digest \in Digests : Activate(digest)

Spec == Init /\ [][Next]_vars

-----------------------------------------------------------------------------
(* Properties *)

\* The instance whose operation the database names works with the prompt digest
\* and the thread generation of the row: reseed never changes the conversation
\* under a current operation, whatever crashed or was superseded before.  And as
\* long as the conversation only ever had one item, an instance that is in its
\* turn under a valid lease is the one the affinity names: an instance whose
\* lease lapsed, however late its steps come, takes the operation from no-one.
HolderOperates ==
  \A i \in Instances :
    /\ aff.op = i /\ Operating(i) =>
         /\ aff.st = "active"
         /\ <<proc[i].digest, proc[i].gen>> = <<aff.digest, aff.gen>>
    /\ /\ HoldsLease(i) /\ proc[i].pc \in {"resume", "turn", "finish"}
       /\ \A k \in Items \ {proc[i].item} : phase[k] = "absent"
       => aff.op = i

\* An item is acknowledged by the instance that holds its lease, and unless it is a
\* retry recorded before, at the end of a completed turn with a checkpoint of its
\* own, no heartbeat error, and no other operation begun in the conversation since
\* the turn's own: of two overlapping turns the overtaken one never acknowledges.
Earned(k, i) ==
  /\ holder[k] = i /\ proc[i].item = k
  /\ \/ proc[i].pc = "claimed" /\ k \in recorded
     \/ proc[i].fresh /\ proc[i].completed /\ ~proc[i].hbError /\ ~proc[i].superseded

AcknowledgedExclusive ==
  [][\A k \in Items : phase[k] # "done" /\ phase'[k] = "done"
        => \E i \in Instances : Earned(k, i)]_vars

\* How the steps map to Conversation: inside its operation an instance works on a thread.
Stage(i) ==
  CASE proc[i].pc \in {"claimed", "clear", "bind"} -> "ready"
    [] proc[i].pc \in {"resume", "turn", "finish"} -> "working"
    [] proc[i].pc = "ack" -> "credited"
    [] OTHER -> "lost"

TurnNow(i) ==
  IF At(i, "idle") THEN [item |-> None, stage |-> "away", on |-> <<None, 0>>]
  ELSE [item |-> proc[i].item, stage |-> Stage(i),
        on |-> IF Stage(i) = "working" THEN <<proc[i].digest, proc[i].gen>> ELSE <<None, 0>>]

ThreadNow == <<aff.digest, aff.gen>>
TurnsNow == [i \in Instances |-> TurnNow(i)]
Acknowledged == {k \in Items : phase[k] = "done"}

Talk == INSTANCE Conversation WITH
  thread <- ThreadNow, current <- aff.op, turn <- TurnsNow, attempted <- recorded,
  acknowledged <- Acknowledged

\* Turns of several instances overlap, and lapsed leases, crashes and late steps come between
\* theirs, but what is acknowledged is what one undisturbed turn after the other would have
\* done on the thread and under the prompt of the conversation (role_service.py run_once;
\* thread_affinity.py bind_and_claim, release_operation, release_superseded_operation, reseed).
ImplementsConversation == Talk!ConversationSpec

\* Two instances are never in a turn of the conversation at once.  The code does not
\* keep this: a later lease of another item supersedes a live operation.
ConversationSerial ==
  \A i, j \in Instances : At(i, "turn") /\ At(j, "turn") => i = j

\* Fairness: the service loop keeps running, dead leases expire, a ready item is
\* claimed, and an agent that is asked again and again some time records progress
\* and completes its turn.  Crashes and errors are bounded by MaxFaults.
Fairness ==
  /\ \A i \in Instances : WF_vars(ServiceStep(i))
  /\ \A k \in Items : WF_vars(LapseDead(k)) /\ WF_vars(\E i \in Instances : Claim(i, k))
  /\ \A i \in Instances :
       /\ WF_vars(\E completed \in BOOLEAN : TurnEnds(i, completed))
       /\ SF_vars(Progress(i))
       /\ SF_vars(proc[i].fresh /\ TurnEnds(i, TRUE))

FairSpec == Spec /\ Fairness

\* The conversation has no other unfinished item, nor an instance still on one.
OnlyWork(k) ==
  /\ \A j \in Items \ {k} : phase[j] \in {"absent", "done"}
  /\ \A i \in Instances : proc[i].item \in {k, None}

\* The binding's digest is not the role's: every turn waits for a reseed.
Outdated == aff.st # "none" /\ aff.digest # config

\* Whatever crashed, and whichever operation a crash left behind, an item that is
\* alone in its conversation is acknowledged some day, or waits for a reseed.
WorkIsDone ==
  \A k \in Items :
    phase[k] \in {"waiting", "held"} /\ OnlyWork(k)
      ~> phase[k] = "done" \/ ~OnlyWork(k) \/ Outdated

==============================================================================
