# Agentic Mesh V5: TLA+ verification project

This directory holds TLA+ models of the Agentic Mesh V5 control plane
(`src/src/agentic_mesh_v5`), the TLC configurations that check them, and proofs
that TLAPS checks. Agentic Mesh runs software-delivery roles (product manager,
engineers, reviewers) as language-model workers. One Postgres database is the
source of truth; role services, the API process with its background loops, a
recovery supervisor and a container fleet all work against it at the same time.
What can go wrong is therefore mostly a matter of order: which transaction
commits first, what was read before a lock was taken, whose lease lapsed, and
what a process that died half-way left behind.

Paths below are relative to `src/agentic_mesh_v5/` of the repository (the
`docs/` paths to its root).

## 1. The system and its components

| Component | State | Operations | Talks to |
|---|---|---|---|
| Role queues (`queues.py`, `routing.py`) | `queue_items`, `leases`, `role_queues` | enqueue, route, claim, heartbeat, reclaim (inside claim), complete, release | everybody who creates work; role services claim |
| Handoffs (`handoffs.py`) | `handoffs` | offer, claim, accept | reads and writes the queues' tables |
| Role service (`role_service.py`) | in memory: one claim, a heartbeat thread, one turn | `run_once`, `run_forever` | queues, affinity, progress, worker provider |
| Thread affinity (`thread_affinity.py`) | `thread_affinities` | bind and claim, resume, release, release superseded, reseed | role service; fleet reads it |
| Live read models (`read_models.py`, migration 0005, `api.py` `live_events`) | `read_model_events`, `read_model_entities`, cursor | a trigger on every source table; advance, rebuild, events, the SSE stream | every writer, dashboards |
| Lifecycle and gates (`lifecycle.py`) | `work_items`, `gates`, `approvals` | create, transition, open_gate, decide_gate | API callers, sponsors |
| Retry and terminal policy (`reliability.py`) | `failure_incidents`, `failure_attempts`, `recovery_requests` | start, record_attempt | lifecycle, router |
| Recovery supervisor (`recovery_supervisor.py`) | `recovery_supervisor_runs` | reconcile, claim, heartbeat, report, deadline expiry, `execute_once` | policy, an external launcher |
| Fleet (`fleet.py`, `docker_fleet.py`) | `role_instances`, `role_scaling_policies`, containers | policy, reconcile (plan, apply, complete) | queues, affinity, Docker |
| Event journal and outbox (`events.py`) | `events`, `outbox` | append, dispatch_one | Teams, Azure DevOps |
| Teams (`teams_*.py`) | receipts, conversations | deliver, receive | outbox, sponsor approvals |
| Azure DevOps (`ado_adapter.py`, `ado_progress.py`) | links, update operations, milestones | read, comment once, update, publish a milestone | the ADO service; API callers |
| Flow engine (`flow_engine.py`, `flow_definition.py`) | `flow_runs`, `flow_obligations`, `flow_transition_journal` | start, dispatch, prepare, pick up, complete | lifecycle, handoffs, governance, router |
| Governance (`governance.py`) | `governance_records`, `governance_context` | verify an artifact, record a consultation, decide a gate | flow engine, document store |
| Sponsor approvals (`sponsor_approvals.py`) | `gates`, `approvals` | open, decide, time out | lifecycle, flow engine, router, Teams |
| PM continuation (`continuation.py`) | monitor lease, observations | claim, heartbeat, sweep | lifecycle, router |
| Progress and usage (`progress.py`, `usage.py`) | checkpoints, capacity | record, reserve, release | role service |
| Configuration (`config_*.py`, `package_resolver.py`) | release and activation files, drafts | create, validate, decide, activate, roll back | role packs |
| Releases (`immutable_releases.py`, `docker_releases.py`) | releases, deployments | stage, activate, roll back | Docker |
| Maintenance (`database_operations.py`, migration 0006) | the pause row, archives | pause, resume, back up, restore | every writer, through a trigger |
| Warm engines (`warm_engines.py`) | in memory: engines, two kinds of locks | run, discard, abort, hibernate, shutdown | role service, provider |
| Registration (`project_registration.py`, `project_manifest.py`, `role_pack.py`) | projects, manifests, bindings, boundaries | register: manifest, roles, boundary | configuration, queues, fleet |
| Import (`import_questions.py`, `import_preview.py`) | question sessions, previews, activations | ask, answer, preview, decide, activate | sponsors, an external adapter |
| Memory and documents (`shared_memory.py`, `memory_policy.py`, `document_store.py`) | memories, document versions | write, promote, upload | roles |
| Git worktrees (`git_worktrees.py`) | allocations | allocate, clean up | role service |
| Providers, auth, rendering, telemetry, CLI | none that others read | request, validate, format | all |

The behaviours that are hard here, and the components they bite in:

* **Leases under a clock.** A lease may lapse at any moment, and its old holder
  goes on for a while (queues, role service, recovery supervisor, PM monitor).
* **Reads outside the lock.** `claim` reads the instance's status, handoffs read
  the target lease, `reconcile` of the fleet uses a plan, all without holding
  what they read.
* **Several transactions for one operation.** `reconcile` of the supervisor
  records an attempt in one transaction and marks it applied in another; preparing and
  completing a flow's transition are three each, in three stores; registration is four,
  an upgrade one for each phase; a turn is a dozen transactions and one model call.
* **Session locks.** A lock held by a database session goes with its connection, while the
  other connections of the same call work on (registration, import, upgrades, ADO milestones).
* **Order of commit.** Event ids are drawn before they become visible.
* **Crashes and retries.** Every background loop may die between two of its
  steps; every item may be delivered again.

`PROJECT.json` lists these as hazards, each at its line with the properties that
cover it, and says why where none does.

Correctness of each component, in a line (the ones modelled are stated formally
below): a queue item is held by one instance and done once; a turn acknowledges only
what it was entitled to; a stream loses nothing it passed; a work item leaves a
state only by a current version, and ends in error only when every remedy failed; a
recovery request gets exactly one verdict; the fleet stays within policy and finishes
what it began; the outbox delivers at least once under one key, and Teams shows each message
once; a flow run follows its definition; a backup holds what was acknowledged before its
pause; a draft replaces only the baseline it was approved against; one release is deployed;
no worktree with work in it is removed; an import activates exactly what was approved; two
projects never hold one resource.

## 2. Modules

| Module | What it is |
|---|---|
| `WorkQueue` | abstract: work waits, is held by one worker, may lapse, is done once, and never before what it delegated is settled |
| `RoleQueue` | queues, leases, routing and handoffs; implements `WorkQueue` |
| `GovernedFlow` | abstract: work is in one state of a flow, owes it the evidence asked for under what is known of the work when it enters, leaves it on the route for the assessed impact, and is completed once |
| `GatedWork` | abstract: work is begun once, held by one gate at a time, let go by the resolution of that gate only, and ended once, never while it is held |
| `Conversation` | abstract: one current operation at a time; an item is acknowledged once, by a turn that was current from beginning to end on one thread |
| `RoleQueueProofs` | theorems about `RoleQueue` |
| `RoleTurnProofs`, `FlowRunProofs`, `FleetProofs` | theorems about the module each is named for |
| `LifecycleProofs` | theorems about `WorkLifecycle` |
| `ProjectionProofs` | theorems about `ReadModel` and `AdoProgress`, what others are shown of the state, and about `MCPlatform`, in which they run beside the lifecycle and the flow |
| `ServicesProofs` | theorems about `Registration`, `ProjectImport`, `ConfigActivation`, `PmMonitor`, `SharedMemory` and `Accounting`, and about `MCServices`, in which they run side by side |
| `OperationsProofs` | theorems about `RecoverySupervisor`, `Maintenance`, `Releases`, `Worktrees`, `Notifications` and `WarmEngines`, and about `MCOperations`, in which they run side by side |
| `RoleTurn` | `RoleService.run_once` on several instances over `ThreadAffinityStore`, for the items of one conversation; implements `Conversation` |
| `ReadModel` | writers with open transactions, the event trigger, replay, rebuild and streams |
| `WorkLifecycle` | work items, gates, approvals, and the incident chain of the reliability policy; implements `GatedWork` |
| `RecoverySupervisor` | extends `WorkLifecycle`: supervisors that claim, run and report recovery, composed with the policy that takes their verdict |
| `Fleet` | reconcilers, instances, containers, and the queue claims and turns that make an instance busy |
| `FlowRun` | one external flow over a work item: the engine's operations transaction by transaction, governance evidence, sponsor gates; implements `GovernedFlow` and, on its work item, `GatedWork` |
| `AdoProgress` | milestones of a work item told to Azure DevOps: the publisher, the adapter's comment and conditional update, the remote item |
| `ConfigActivation` | drafts, releases, the active pointer with its history, and processes that activate |
| `PmMonitor` | the leased continuation monitor and one sweep over work that moves on meanwhile; implements `GatedWork` |
| `SharedMemory` | one memory entry with its revisions: writers, retries, and readers that check its source |
| `Accounting` | progress checkpoints, usage of a turn, and readings of the provider's capacity |
| `ProjectImport` | questions, previews and decisions of one import, and its activation by an adapter |
| `Registration` | the transactions of `register` for several projects, with their row, resource and session locks |
| `Notifications` | the outbox and its dispatchers, Teams messages and cards of one gate, and callbacks |
| `Maintenance` | the maintenance pause, guarded writes and migrations, operators and overlapping backups |
| `WarmEngines` | the engine pool of one instance, step by step between its locks |
| `Releases` | upgrades of one project's runtime: candidates, deployment, commit, rollback, drift |
| `Worktrees` | the workspace of one work item: prepare, cleanup, and a worker that edits |
| `MCPlatform` | `WorkLifecycle`, `FlowRun`, `ReadModel` and `AdoProgress` side by side in one run |
| `MCServices` | `RoleTurn`, `ConfigActivation`, `PmMonitor`, `SharedMemory`, `Accounting`, `ProjectImport` and `Registration` side by side |
| `MCOperations` | `RecoverySupervisor`, `Notifications`, `Maintenance`, `WarmEngines`, `Releases` and `Worktrees` side by side |
| other `MC*` | the instance of a module that TLC checks, with its `.cfg` and further ones |

Four modules are specifications of what a part promises to the others, without its steps, and each is implemented
by the modules that do the work: what relies on the promise need not look at them.

| Promise | Implemented by | through |
|---|---|---|
| `WorkQueue` | `RoleQueue`, `RoleTurn` | `ImplementsWorkQueue`, `Queue!WSpec` |
| `GovernedFlow` | `FlowRun` | `ImplementsGovernedFlow` |
| `GatedWork` | `WorkLifecycle`, `FlowRun`, `PmMonitor` | `LifecycleGatesWork`, `FlowGatesWork`, `MonitorGatesWork` |
| `Conversation` | `RoleTurn` | `ImplementsConversation` |

Conventions: a transaction whose decisions rest on rows it has locked is one action;
an operation that reads without a lock, or spans transactions, has a control point per
part and anything may happen in between. Refused operations (an exception and a
rollback) change nothing, so they appear as guards, except where the refusal moves a
process on. Time appears only as the order the code can observe: `expires_at <=
clock_timestamp()` is a flag the clock raises and nothing lowers.

### RoleQueue

`item`, `lease`, `handoff` are the rows of `queue_items`, `leases`, `handoffs`;
`running` and `paused` the instance and queue columns that `claim` and `route` read;
`claimTx` an open `claim` after its first SELECT (`queues.py:194-215`), `handoffTx` an
open handoff operation after it locked its row and read the lease without locking it
(`handoffs.py:408-432`). `ClaimLease` is the rest of `claim`: reclaim of every expired
lease of the project, then the first ready item that no other claim is holding (`SKIP
LOCKED`), then the insert. `Complete` and `Release` are `_finish_lease` with its two
statuses. `Offer`, `HandoffClaimCheck`, `HandoffAcceptCheck` and `HandoffCommit` are the
three handoff operations. `Forget` lets a released lease's id stand for a fresh uuid, so
that the number of claims is not bounded.

### RoleTurn

`proc` is one `run_once` with its program counter: claimed, context, clear, bind, resume,
turn, finish, ack, and the failure path; `aff` is the affinity row, with the operation that
holds it, the prompt digest it pins and its generation; `phase` and `holder` are the queue
item (here as the abstract queue of `WorkQueue`: both modules are proved to keep to it); `newer`
are the operations begun since; `recorded` the retry attempts already recorded.
`TurnNow` maps an instance's place in `run_once` to how far its turn is (`ready` up to the claim of the operation,
`working` up to its release, `credited` before the acknowledgement, else `lost`), and `ThreadNow` the affinity row to the
thread, for `Conversation`. The
heartbeat thread is `LeaseLost` and `HeartbeatError`; the worker's result is
`TurnEnds`; process death is `Crash`; an activated role pack that changes the digest is
`Activate`.

### ReadModel

`source` are the rows of the source tables; `txn` a writer's open transaction with its locks,
its uncommitted rows and events; `events` the committed events by id; `nextId` the identity
column, which a rollback does not give back; `model` and `cursor` the replayed store; `stream`
a client with its last id, what it received, and the page under way (the ids still to be sent, which go
out in ascending order); `late` what became visible
below a position already passed. One part of the source is an entity of its own (a work item), the
others share one (a queue's aggregate), because that is the difference the trigger makes.

### WorkLifecycle and RecoverySupervisor

`work`, `gate`, `incident`, `attempts`, `request` are the tables; `seen` the row and version each
API caller has read; `routed` the queue envelopes and resumptions routed by the policy;
`routable` the roles that have a queue. Every store method is one action. `RecoverySupervisor`
adds `run` (with flags for a live lease and a passed deadline) and `sup`, the supervisor's
cycle: `ExpireDeadlines`, `ReadReported`, `Apply` (the policy's transaction), `MarkApplied`
(the supervisor's), `Claim`, the launcher's result, `Report`.

### FlowRun

`flow` is the row of `flow_runs`, with the CHECKs of migration 0021 in `FlowTypeOK`; `duty` and
`proof` the obligations and governance records of the current entry (earlier ones are never read
again); `journal` the transition journal. What a state asks for besides its artifact is in the constant `FlowDuties`, each
kind with its `when` condition, and `Needed` is `FlowState.obligations` for the run's fields: `StartFlow` and `PickUp`
enter a state with exactly those (`Entered`, `_insert_obligations`), as the fields are at that moment, and an impact that is
supplied or assessed later changes the route and the next entry, never this one. `prepare_transition` is three transactions: `Reserve`, or
`Retry` when the operation is pending already; `OfferHandover`; `RecordHandover`. `complete` is
`ReserveCompletion`, `CompleteKernel`, `RecordCompletion`. `call` says where each execution is, with
its request and the source lease it brought; `Die` ends it between two of them, `GiveUp` when a step
raises a conflict or finds the operation journaled. A request is its tag and version with what the
digest covers: the source lease is not in the digest, but it is in the fingerprint of the handoff, and
`Offerable` is where the two meet. Governance looks at the document before its transaction (`Look`,
then `VerifyArtifact` or `DecideOwnerGate`), while `EditDocument` goes on. Sponsor gates hold the work
item (`kernel`) from `OpenSponsorGate` until `ApproveSponsorGate`, `RejectSponsorGate` or
`TimeOutSponsorGate`; `resumed` are the continuations routed. The work item, the handoff and the
source lease are reduced to what the engine reads of them; `WorkLifecycle` and `RoleQueue` have the
detail, and the actions under "what goes on around the run" are what those modules allow. For `GovernedFlow`, a transition leaves
its state when its record is written (`RecordHandover`) and arrives with the pickup; the run's impact is what is known of the work, the obligations of the
entry are what is `due`, and what they lack of evidence is what it still owes; a reservation settles what is known; and what a completion is to the work is decided by `CompleteKernel`.

### AdoProgress

`milestone` and `update` are the rows of `work_item_ado_milestones` and `work_item_ado_update_operations`;
`ado` and `comments` the remote item; `publisher` each execution of `publish` with the advisory locks its
database sessions hold. `_start` is `StartMilestone` or `Suppress`; `_publish` is `ReadState`, the scan for the
marker and the POST (`comment_once`), `Decide`, then `update` with `FetchItem`, the patch and, after a conflict,
`ReadAgain`; `Finish` records the disposition. `PostComment` and `PatchApplies` tell apart a request that arrives
from one that is answered, since `_request` repeats what is not answered. `Abort` is an exception or a death,
`LoseLock` the end of a session that holds a lock, `HumanEdit` what people do to the item meanwhile.

### Fleet

`inst` are the rows of `role_instances`; `worker` the containers as `docker_fleet.py` finds them;
`rec` each reconciler with the policy it read, the actions its plan returned and how far it is;
`held`, `item`, `waited` the queue as `_busy_sql` and `_plan_role` see it. `Plan` is
`_plan_role` with everything it calls, in the code's order: pending actions, idle refresh, counts,
wakes, hibernations. Action ids are renumbered so that only their identity matters: a plan takes the
least ids that no reconciliation holds.

### ConfigActivation

`draft` are the draft records of `ConfigPromotionStore`, `packages` what a draft's references resolve to at the
moment, `releases` the release files, `history` the activation document. `CreateDraft`, `ValidateDraft` (which sets
the draft's digest, compares its baseline and drops an approval), `Decide`; `activate` is
`BeginActivation`, `CreateRelease`, `CheckActive`, `ActivateDraft` and `MarkActivated`, a
repository lock each, so that another activation, a rollback (`RollBackTo`), a direct activation (`ReleaseDirectly`,
`ActivateDirectly`) or an edit of the packages (`EditPackages`) fits in between; the process may die there
(`Abandon`) and `activate` is repeated.

### PmMonitor

`monitor` is the leased row, `held` the token each owner was given; a sweep reads its rows at the start
(`BeginSweep`), looks at one item at a time, opens a sponsor gate in a transaction of its own, and writes routes and
dispositions with `CommitSweep`. An item's payload is clear, has a question for the sponsor, or is vague, and stays as it was
created: `DecideGates` makes the item active at its next version and leaves the ambiguity in it, so that a later sweep asks
again. `RouteToPm` finds the envelope of an item that was routed before without a look at the project manager's queue; only
an item that was not can be `routing_blocked`. Work moves on meanwhile (`MoveOn`, `MoveQueue`, `DecideGates`,
`ChangeRoles`), the lease lapses and is taken over, and a conflict takes the whole sweep back but for its gates.

### SharedMemory

`source` is the authoritative source's version, `memory` and `revisions` the entry and its trail, `asking` each request
(evaluated, source verified, answered), `reading` each reader between its read of the row, its check of the source and
`_refresh`, which starts over once when the row changed underneath. Requests are repeated as they are; the policy's verdict
is reduced to what it tells apart: generic content from an organization source, or anything else.

### Accounting

`journal` and `answer` are the checkpoints and what their authors were told; an author repeats a draft whose answer was
lost. `spent`, `usage` and `counted` are the provider's cumulative counter, the row of the turn, and the observations
`record_turn` accepted, in any order and more than once. `capture` is a collector between reading the provider, stamping
what it read and recording it in `capacity`.

### ProjectImport

`session` is reduced to its version and whether all is answered; `preview` the revisions with their decisions; `activation`
the one row of the import. `activate` is `RequestActivation` (which reserves the row or finds it pending), the adapter's
call between two transactions (`CallActivator`), and `RecordActivation`; it may fail, die (`AbandonImport`), or lose the session that holds its
advisory lock (`LoseSession`) and go on.

### Registration

`activeManifest`, `bound`, `roles` and `boundary` are what the transactions of `register` write; `coordinating` is the
session lock `project-registration`, `resourceLock` the advisory locks a manifest's activation takes one after the other,
and the row lock of the project is `ProjectRowFree`. `PreflightBoundary` and `RegisterBoundary` share `BoundaryFits`
(`_validate_boundary_rows`). `LoseRegistrationLock` lets a call work on without its session; `GiveUpRegistration` is every
refusal, error and death.

### Notifications

`approval` is the gate and `overdue` its clock; `outbox` the rows by topic, `posted` and `card` what Teams shows each
sponsor, `job` each dispatcher, callback or decision under way. A dispatcher delivers to one sponsor after the other inside
the transaction that marks the row (`Dispatch`, `Post`, `UpdateCard`, `MarkDispatched`) and may fail anywhere (`FailJob`), so
that the row is delivered again in full. `AnswerCard` reads the gate without a lock (`_expired`) and then updates the
cards itself.

### Maintenance

`maintenance` is the singleton row, `open` the transactions whose trigger has read it; `Quiescent` is the exclusive lock of
`pause`. A backup reads the status, pauses if needed, dumps, counts the rows again, publishes, and resumes what it
initiated. Two of them overlap, operators pause and resume at will, a command may die anywhere. A dump is the rows that are
committed at that time; ghost fields keep which writes were acknowledged before its pause and whether anyone resumed in
the middle.

### WarmEngines

One instance's pool: `entry` and `poolClosed` are looked at under the pool's lock, `opening` is the lock of an
opening in progress, `operator` the operation lock of each entry. `run`, `discard`, `hibernate`, `shutdown` and
`abort_active` are threads that go through the steps between those locks; an opening may fail, an operation may
end in a fatal error.

### Releases

`attempt`, `release` and `registered` are rows, `container` what really runs. `upgrading` is the one coordinator that holds
the session lock; each of its steps is one phase of `_resume`: build, prepare, observe, decide, next phase. It may die
between any two, and the operation, or another one, is requested again. `Drift` lets anything happen to the container.

### Worktrees

`workspace` and `planned` are the rows, `tree` and `branch` what is on disk. `prepare` and `cleanup` take a repository at a
time: check or create, then record. A worker edits and commits in between, someone else puts something at a path,
the process dies.

## 3. Runs

| Run | Configuration | What it asks |
|---|---|---|
| `role_queue` | `MCRoleQueue.cfg` | leases and items never part; no source completes under a pending handoff; handoffs belong to their target; refinement of `WorkQueue` |
| `services` | `MCServices.cfg` | turns: an operation at work is its conversation's (`HolderOperates`) and every acknowledgement was earned (`AcknowledgedExclusive`). Configuration: a draft replaces only the baseline it was validated against. Monitor: what it reports is backed by an envelope or a gate. Memory: the trail accounts for the entry. Accounting: each record counts once. Import: only the approved preview, with the approved answers, reaches the adapter. Registration: two projects never hold one resource or place |
| `operations` | `MCOperations.cfg` | recovery: a request follows its run, one verdict that is final, and some verdict always comes. Notices: a dispatched row reached every sponsor, once, and no card lies. Maintenance: a backup is complete. Engines: an operation has an open engine to itself, none is left behind. Releases: the records agree on the one that is deployed. Worktrees: cleanup loses no work |
| `role_turn_liveness` | `RoleTurnLiveness.cfg` | a redelivered item, alone in its conversation, is acknowledged in spite of crashes |
| `conversation_overlap` | `RoleTurnOverlap.cfg` | violated: two turns of one conversation at once |
| `read_model_gap` | `ReadModelGap.cfg` | violated: a later committed event with a smaller id is lost |
| `platform` | `MCPlatform.cfg` | lifecycle: gates hold work and versions pin its row; incidents always lead somewhere; error is earned. Flow: `ImplementsGovernedFlow`, a state is entered with the obligations whose conditions hold and with no others, and is not left without the evidence of each or on another route than the assessed impact's, and work is completed once; transitions chain, none lost, doubled or skipped; a waiting sponsor gate can be resolved, once. Reads: the newest event is the source; replay goes by cursor; a stream, and the replayed model, are complete up to their positions; a rebuild repairs. ADO: milestones arrive in order; edits by people stay |
| `flow_stuck` | `FlowStuck.cfg` | violated: a transition that has begun is never recorded |
| `fleet` | `MCFleet.cfg` | capacity and warm minimum (`WithinPolicy`), completion by the right action, waking from zero |
| `fleet_hibernation` | `FleetHibernation.cfg` | violated: an instance with an unreleased lease is hibernated |
| `fleet_duplicate` | `FleetDuplicate.cfg` | violated: one action starts a container twice |
| `ado_comments` | `AdoComments.cfg` | violated: one milestone is commented on twice |

### Bounds, and why they are enough

* `role_queue`: two instances of one role and one of another, two items, three lease ids (reused
  once nothing refers to them), one queue, one handoff key. Two competitors and an outsider give
  every conflict over one lease; three ids let a lapsed, a live and a handoff-recorded lease coexist.
* `services` and `operations`: `part` picks the module a behaviour exercises; the modules share no variable, so a
  behaviour of one is a behaviour of the whole, and one configuration and one process of TLC serve all.
  *Turns*: two instances, two items of one conversation (one a redelivered retry), two digests, two generations
  (`MaxGen`), two faults (`MaxFaults`: crashes, heartbeat and step errors). *Configuration*: two drafts, two contents, two
  activators, two changes of the pointer (`MaxRevisions`): the smallest that lets a draft be overtaken by another, or by a
  rollback. *Monitor*: one item of a sponsored project (items meet only in the one commit), two owners, two leases
  (`MaxLeases`), version up to five (`MaxVersion`: taken up, asked about, decided, and asked about again). *Memory*: one entry, two requests, one reader, three versions of the
  entry (`MaxVersions`), two of its source (`MaxSource`). *Accounting*: two authors, two collectors, a counter up to three
  (`MaxTokens`). *Import*: four versions of the session (`MaxAnswers`), three previews (`MaxPreviews`), two contents, two
  operation ids, two processes. *Registration*: two projects, one with two manifests, the second of which claims a resource
  of the other project and lacks the manager; two places, two callers.
  *Recovery*: one incident, two supervisors, two claims (`MaxClaims`), one crash (`MaxCrashes`): a lapsed first claim, a
  second one and a late report of the first. *Notices*: one gate, two sponsors, two processes. *Maintenance*: two writes, one
  a migration, and two backups, whose overlap is the case of interest. *Engines*: two threads and three engines in turn
  (`Engines` bounds how many are ever opened): one that is closed, its successor, and one more to race with.
  *Releases*: two operations on two revisions over a base image. *Worktrees*: one workspace in two
  repositories, so that one may fail after the other succeeded.
* `role_turn_liveness` has one item, a retry, which is the longer way to an acknowledgement. `conversation_overlap` has two
  items, no retry and no faults: it needs none.
* `platform`: `part` picks the component a behaviour exercises; they share no variable, so a behaviour of
  one is a behaviour of the whole. *Lifecycle*: one work item, two gates in turn, two sponsors, two
  incidents in turn, a caller with a stale version (its own transitions and everybody else's leave the
  version it has read behind, so that one caller is stale as often as two would be); the chain of an
  incident has its full length (three technical failures, three corrections, one recovery). *Flow*: three
  states, between them every kind of obligation, the last with one for material work and another for the rest, and routes that part by impact and come back; two
  concurrent calls, one reviewer, two sponsor gates, one tag; the run's version up to four (`MaxVersion`: a
  transition and the operations after it, or a completion), two leases of the source item (`MaxLeases`),
  one edit of each document (`MaxEdits`), one death (`MaxDeaths`). A second transition differs from the
  first only in its obligations, which are chosen so that the first has the sponsor gate and the
  classification, under no condition, and the second a review, or an inform with a consultation under a condition. *Reads*: two writers, one entity with a row of its own
  and one of two rows, four event ids (`MaxEvents`), pages of one or two, one stream; two open transactions
  suffice for ids to become visible out of order. *ADO*: two milestones in sequence that ask for two states
  in sequence, two publishers, two attempts per request (`MaxTries`), one edit by people (`MaxHumanEdits`),
  one lost lock (`MaxLost`): a publisher that was cut off works on while another resumes.
* `read_model_gap`: the same entities and writers, three event ids. `ado_comments`: one milestone
  without a state, one publisher, two attempts.
* `flow_stuck`: one call, two states, two leases, one death: all it takes.
* `fleet`: two instances, one item, the API's loop and one manual reconciler, two policies (zero to
  one, one to two), one fault (`MaxFaults`: a failed container operation or a dead reconciler).

Symmetry is used only in runs that check safety, over sets whose members the specifications never tell apart:
writers, calls, sponsors and gates in `MCPlatform`, and in `MCServices` two pairs of model values, `i1`, `i2` and `j1`,
`j2`, that stand for instances, owners, callers and contents of whatever part runs. `MCServices` also has a
view, `MCView`, that tells states apart by the part that runs and its variables: those of the other parts stay as they
began, and no action of the part reads them. `MCOperations` checks a
liveness property and has no symmetry.

### Fairness, and why the code justifies it

* `RoleTurn`: `run_forever` repeats `run_once`, so its own steps are weakly fair; expired leases are
  reclaimed by any claim of the project; a turn ends because the provider has a time limit. That a
  turn some time records progress and completes (strong fairness) is an assumption about the
  worker, without which no liveness holds. Faults are bounded.
* `RecoverySupervisor`: its process loops; the deadline is the clock's; sponsors eventually decide an
  open gate. Only crashes are bounded. `MCOperations` states this fairness for the behaviours in which the
  supervisor runs; the others have none and check safety only.
* `FlowRun` (only `flow_stuck`): calls go on, target roles claim and accept what they are offered, and the
  current holder of the source item retries the pending operation again and again, with the lease it has.
  That is more than the code does by itself, so the violation does not come from a missing retry.
* `Fleet`: only the API's reconciliation loop (`api.py` lifespan) is fair; the manual reconciler and the
  workers are not.

### The disagreements with the documents

Each violation run checks one sentence of the repository's documents.

* **A conversation is not serial.** `release_superseded_operation` (`thread_affinity.py:469-491`)
  clears an operation whose item's lease has lapsed or been overtaken, but nothing stops the worker
  that runs it; `README.md:142` says durable claims serialize a conversation. The checked
  `AcknowledgedExclusive` says what remains true: the overtaken turn never acknowledges.
* **A stream can lose an event.** Ids are drawn before commit and `events()` pages by id
  (`read_models.py:220-230`); `amv5-019` promises that nothing committed later is lost. `ReadersComplete`
  holds for all events that did not become visible late, and `RebuildRepairs` for the store.
* **Hibernation does not fail closed.** `claim` reads the status without a lock (`queues.py:196-208`), so
  an instance just put into `hibernating` gets a lease; `amv5-032` says hibernation fails closed.
* **A transition can get stuck.** `prepare_transition` (`flow_engine.py:348-360`) offers a handoff before it
  records it. If the call dies in between and the source item is leased anew, the retry offers the same
  key under another lease, which `HandoffStore.offer` rejects because its fingerprint (`handoffs.py:480-501`)
  holds the lease; the run stays `handoff_preparing`, even when the target accepts. `amv5-041` says restart and
  replay cannot lose a transition. `TransitionsChain` says what remains true: nothing is doubled or skipped.
* **A start can be repeated.** `reconcile` applies its plan without looking at the rows again
  (`fleet.py:223-225`); `amv5-032` says concurrent reconciliation cannot duplicate the external operation.
  `EndsWithItsAction` says what remains true: the row is finished only by its own action.

* **A milestone can be commented on twice.** `_request` (`ado_adapter.py:438-453`) repeats a POST that got no
  answer, and `comment_once` looks for the marker only before the first; `amv5-049` says at most one comment.
  `MilestonesInOrder` says what remains true: no milestone overtakes an earlier one, and every published one has
  its comment.

Also noticed while modelling. The first contradicts a document, too, but is not among the runs; the others contradict no
sentence that one run could refute. The properties named in brackets say what holds in spite of them:

* PM monitor: a sponsor's decision leaves the ambiguity in the item's payload (`lifecycle.py:454-462` sets only the status
  and the version), so that the next sweep finds it again and opens another gate at the new version
  (`continuation.py:330-348`). Here the documents do speak: `amv5-031` (AC4, line 34) says that structured material
  ambiguity opens one sponsor question and that repeated sweeps create no duplicate gates.
  TLC refutes `\A w \in Works : Cardinality({v \in Versions : asked[<<w, v>>] # "none"}) <= 1` on the monitor of `services`
  in nine states: taken up, asked, decided, asked again. `DispositionBacked` and `MonitorGatesWork` say what remains true:
  one question per version, and one gate at a time [`DispositionBacked`].
* Queues and turns: an item of work that was closed meanwhile is released ready and heads its queue again
  (`role_service.py:437`).
* Supervisor: one result that cannot be applied holds up every later one in `reconcile`.
* Governance: an artifact edited after it was verified can neither be verified again nor reviewed in that entry
  (`governance.py:554`); a sponsor's decision does not look at the document again.
* Engines: `abort_active` closes an engine without its operation lock (`warm_engines.py:132`) [`EnginesAccounted`].
* Backups: the command that initiated the pause resumes writes while an overlapping one still dumps; one that read
  "paused" just before a resume pauses by itself and never resumes (`database_operations.py:391`) [`BackupComplete`].
* Capacity: an older reading that is stamped later replaces a newer one, because the stamp is taken after the read
  [`CountedOnce`].
* Configuration: `activate` resolves the packages again in `create_release`, so that packages edited since the approval are
  released; and a retry of `activate` after a rollback to the draft's baseline activates the draft again
  [`OnlyOverItsBaseline`].
* Releases: a repetition of an interrupted attempt, after another one deployed, rolls back to its own previous image while
  the boundary names the other's [`OneDeployed`: the records agree].
* Worktrees: a workspace whose preparation failed half-way ends its cleanup in `error` every time; a commit between
  `rev-parse` and `remove` makes the recorded head stale [`WorkKept`: the branch has it].
* Import: an approved preview whose questions change can neither be activated nor revised, and a pending activation
  stays pending although the adapter may have activated [`ImportApproved`].
* Registration: a project whose boundary is registered can never switch its manifest (the preflight pins its digest); a
  call that lost its session lock can pin a boundary whose manifest is not active; and a call that dies after the switch
  leaves the old role bindings under the new manifest until it is repeated [`ProjectsApart`].

## 4. Proofs

Every safety invariant and action property of the passing runs is a theorem, for every value of the constants
and without the bounds of the configurations (the bounds that are part of a module, such as `MaxEvents`, are
arbitrary numbers there), the type invariants of the compositions included; what is not proved is named at the end. A theorem assumes only what its module's `ASSUME` says, if
it has one, which TLC evaluates in the runs: the null values are none of the others, the bounds are numbers, tables of the code have
their types. Four assume finite sets, because the code counts their members: the writers of `Maintenance` (a backup
counts rows), the gates of `WorkLifecycle` (the version of a work item counts those resolved), the instances and
reconcilers of `Fleet` (the scaler counts instances), and the authors and collectors of `Accounting` (checkpoints and
stamps are numbered). `Fleet` also assumes `None \notin Instances`, and `ReadModel` that
no stream is called "store".

None of the properties is inductive on its own. What follows names, for each component, what has to be added and why;
the proofs have one lemma per action, or per group of actions that do the same to the part of the state in question.

### Queues: `RoleQueueProofs`

| Theorem | Statement |
|---|---|
| `Invariance` | `Spec => []IndInv` |
| `TypeCorrect` | `Spec => []TypeOK` |
| `LeasesConsistent` | `Spec => []LeaseConsistent` |
| `SourcesAccepted` | `Spec => []SourceAccepted` |
| `TargetsOwnHandoffs` | `Spec => []TargetOwnsHandoff` |
| `Refinement` | `Spec => ImplementsWorkQueue` |

`IndInv` adds `RolesMatch` (a claim under way and a lease
carry the role check that `claim` made, and a lease's item exists) and `HandoffLinks` (a handoff joins two items
that exist, and an operation about to write one still looks at the status and lease it checked under the row
lock). With them: `LeaseInductive` follows the leases through claim, reclaim and `_finish_lease`, where
`ReclaimConsistent` shows that reclaiming releases an item exactly with its lease; `HandoffInductive` rests on
`HandoffLeaseKept`, that no step changes what a recorded lease stands for; `SourceInductive` uses that only a
leased item offers and that completion finds no pending handoff. For the refinement, `StepRefines` maps each
action to a step of `WorkQueue`: enqueue to `Submit`, a claim to `Assign` (with the lapses it reclaims), a claim
that finds nothing to `Lapse`, release to `Lapse`, completion to `Finish`, offer to `Delegate`, acceptance to
`Settle`, everything else to a stutter. `HolderLemma` evaluates the refinement mapping's `CHOOSE`.

### Turns: `RoleTurnProofs`

| Theorem | Statement |
|---|---|
| `TurnInvariance` | `Spec => []TurnInv` |
| `HolderHasOperation` | `Spec => [](TypeOK /\ HolderOperates)` |
| `AcknowledgmentsEarned` | `Spec => AcknowledgedExclusive` |
| `TurnsUseWorkQueue` | `Spec => Queue!WSpec` |
| `TurnsImplementConversation` | `Spec => ImplementsConversation` |

`Sound` says what a step of an instance knows: inside an operation that the row names, the row still has the digest and
generation the instance bound, and nobody overtook it; outside of one it is not marked as overtaken; and an instance that
holds the only item the conversation ever had is in nobody's way from its resumption to its acknowledgement. `Onward`
collects what a step that leaves the row alone may do with the instance's own record, so that most actions are one
application of `StepKept`. `TurnsUseWorkQueue` closes the gap to `RoleQueue`: both modules, on the part of the queue that the other
also has, are the same `WorkQueue`, here with nothing delegated.

`TurnsImplementConversation` says what is left of "one turn after the other" when turns do overlap. Its mapping shows nothing of
leases, heartbeats and the provider's verdict, so that most steps stutter; the step that counts is `ReleaseOperation`, which
maps to `Conclude` only because the row that still names the operation still names its thread (`Sound`). `ThreadKnown` is what
has to be added: the row has a digest and a generation from its first operation on, and who is about to bind it has a digest,
so that the first operation is not mistaken for a successor, nor `Reseed` for a first. An overtaken operation is superseded at a
moment when its instance does not know it, and becomes lost only when it tries to end.

### Work and recovery: `LifecycleProofs` and `OperationsProofs`

| Theorem | Statement |
|---|---|
| `LifecycleInvariance` | `LifecycleSpec => []LifecycleInv` |
| `GatesHoldWork` | `LifecycleSpec => []GateHoldsWork` |
| `FailuresAttended` | `LifecycleSpec => []NeverStranded` |
| `TerminalErrorsEarned` | `LifecycleSpec => []TerminalEarned` |
| `LifecycleImplementsGatedWork` | `LifecycleSpec => LifecycleGatesWork` |
| `SupervisorInvariance` | `Spec => []SupervisorInv` |
| `SupervisorImplementsPolicy` | `Spec => LifecycleSpec` |
| `RequestsFollowRuns` | `Spec => []RequestFollowsRun` |
| `VerdictsFinal` | `Spec => VerdictFinal` |

`GateHoldsWork` relates what a caller has read to what is there now, by the version alone. That works because the version
is a count: `VersionsCount` says that it is twice the number of resolved gates plus what the status accounts for, so that it only
grows, and no two rows of one work item with the same version differ (`SeenPast`); `HeldByOne` makes the waiting gate unique.
`TerminalEarned` and `NeverStranded` rest on `HistoryExact`: the attempts of an open incident are exactly the failures before the
one that is due, in the order technical, correction, recovery. `RecoverySupervisor` has the lifecycle's variables
as its own; each of its steps is a step of the policy or leaves them alone, which is `SupervisorImplementsPolicy`. `RunsSound`
and `ProcessesSound` say what a run and each process stand for, so that a late or repeated report finds the verdict already there. The last four
theorems of the table are in `OperationsProofs`.

The refinement of `GatedWork` is the same promise as `GateHoldsWork`, from the side of those who rely on it: that only the
gate that holds work lets it go on, and that what a gate was resolved to stays, are statements about steps. Its argument is
`HeldByOne`, which makes the mapping's `CHOOSE` of the gate that holds a work item a value before and after each step.

### Flows: `FlowRunProofs`

| Theorem | Statement |
|---|---|
| `FlowInvariance` | `FlowSpec => []FlowInv` |
| `FlowTypes` | `FlowSpec => []FlowTypeOK` |
| `TransitionsChained` | `FlowSpec => []TransitionsChain` |
| `SponsorGatesResolvable` | `FlowSpec => []SponsorGateResolvable` |
| `ExitsGoverned` | `FlowSpec => GovernedExit` |
| `FlowImplementsGovernedFlow` | `FlowSpec => ImplementsGovernedFlow` |
| `FlowImplementsGatedWork` | `FlowSpec => FlowGatesWork` |

The version bound is the reason that types need an argument: a pending operation has the room it will use (`RunSound`). For the
chain, `JournalSound` ties the last row to the run, and `PreparesSound` and `CompletionsSound` say that a call between two transactions
is for the operation that is pending or for one that was journaled. `GovernedExit` looks at one step; `Leaving` carries what
`_require_ready` checked at the reservation to the step that leaves, because nothing withdraws evidence while an operation is pending. Its other half is about what is required: the obligations of an
entry are those that apply to the fields at that entry, no step adds or takes one before the next entry (`ObligedStay`,
`EntryGoverned`), and the fields an entry goes by are those its route was chosen for, whose impact is the assessed one if there is one.

`FlowImplementsGovernedFlow` takes this to the whole protocol. Each of its actions is mapped: of the transactions of a
transition only the record is a departure (`DepartureGoverned`), and only the pickup an arrival (`ArrivalGoverned`), which owes what the next state asks for under the impact that was settled at
the reservation (`ReservationGoverned`); what supplies
evidence makes what is owed less (`SuppliesGoverned`); a completion is the flow's only where no route leaves
(`CompletionGoverned`). `EndsSound` adds what the end needs: a completion is begun only where no route leaves, and no call is
about to complete the work of a run that is anywhere else. `FlowImplementsGatedWork` rests on `SponsorGateResolvable`: a managed
gate that waits is the only one and holds the work item. A gate that somebody else opens on the work item is shown as the
unnamed one (`PlainGateHolds`).

### What others are shown: `ProjectionProofs`

| Theorem | Statement |
|---|---|
| `NewestShown` | `ReadModelSpec => []NewestIsSource` |
| `ReadersHaveAll` | `ReadModelSpec => [](ReadModelTypeOK /\ ReadersComplete)` |
| `RebuildsRepair` | `ReadModelSpec => RebuildRepairs` |
| `ToldInOrder` | `AdoSpec => [](AdoTypeOK /\ MilestonesInOrder)` |
| `HumansKept` | `AdoSpec => HumanEditsKept` |
| `PlatformApart` | a behaviour of `MCPlatform` is one of each of its four modules |
| `PlatformTyped` | `PlatformSpec => []PlatformTypeOK` |

`NewestIsSource` needs the same of what is still uncommitted (`TxnLogged`): the transaction that changed a row has drawn the only
events of it that are to come, above all that are in the log (`DrawnOnce`). `StoreShows` and `StreamHas` state what a store
and a stream have up to their cursor, with the late events taken out. An event that became late stays so until the store is
rebuilt, which is `RebuildsRepair`, or the client comes back from before it. For ADO, `Ordered` (of two milestones that were begun the earlier is settled),
`Telling` (what is being told was begun, and has its comment from there on), `LocksApart` and `SeenSound` (an item whose revision
is the one fetched is in the state fetched) survive a publisher that lost its session lock and works on; `Onward` is what
most steps of a publisher have in common.

### The fleet: `FleetProofs`

| Theorem | Statement |
|---|---|
| `FleetTypes` | `Spec => []TypeOK` |
| `PoliciesKept` | `Spec => WithinPolicy` |
| `TransitionsOwned` | `Spec => EndsWithItsAction` |

`KindAgrees` says that an action that a row still has is of the kind of the row's transition, in the hands of whichever
reconciliation holds it; it is inductive since a plan gives ids that none of them holds, and since a plan
that finds a transition plans nothing new. So completing a wake moves an instance from starting to running, which changes neither side
of `WithinPolicy`, and only plans do (`ServiceKept`, `PlanStep`). `WakeRoom` is the arithmetic of `_plan_role`; the counts of
the sets before and after are joined by the library's facts on cardinality. `OnlyRunningWaits` keeps the grace period away
from rows in transition.

### Services: `ServicesProofs`

| Theorem | Statement |
|---|---|
| `RegistrationInvariance` | `RegistrationSpec => []RegistrationInv` |
| `ProjectsStayApart` | `RegistrationSpec => []ProjectsApart` |
| `OnlyApproved` | `ImportSpec => []ImportApproved` |
| `ReplacesItsBaseline` | `ConfigInit /\ [][ConfigNext]_configVars => [](ConfigTypeOK /\ OnlyOverItsBaseline)` |
| `ReportsBacked` | `MonitorInit /\ [][MonitorNext]_monitorVars => [](MonitorTypeOK /\ DispositionBacked)` |
| `TrailComplete` | `MemoryInit /\ [][MemoryNext]_memoryVars => [](MemoryTypeOK /\ RevisionTrail)` |
| `AccountsCountOnce` | `AccountingInit /\ [][AccountingNext]_accountingVars => []CountedOnce` |
| `MonitorImplementsGatedWork` | `MonitorInit /\ [][MonitorNext]_monitorVars => MonitorGatesWork` |
| `ServicesApart` | a behaviour of `MCServices` is one of each of its seven modules |
| `ServicesTyped` | `ServicesSpec => []ServicesTypeOK` |

`ProjectsApart` needs `LocksGuard`: a call about to switch holds every resource lock its manifest needs, and no other
project claims any of it, which stays true because another project can get there only with those locks. Its second half,
that the boundary agrees with the manifest and the roles while no call has strayed, needs `OneAtATime`: the
one call under way holds the session lock, still fits the boundary it checked in its preflight, and what it has done so
far is its own.

`ImportApproved` follows from two
facts: only the last preview can be settled, since a settled one ends the review (`ApprovedLast`); and once an activation is
asked for, every request at the adapter, on its way to it or back from it means that same one (`OneRequest`), however many
processes retry it and whichever of them lost its lock.

`OnlyOverItsBaseline` needs `HistorySound` (each event follows the one before it, over a release that exists, and replaced
the baseline its draft was approved against) and `Activating`: whoever is between two locks of `activate` has a draft that stays
approved. `DispositionBacked` needs `RoutedOnce`, with the lease's token in every envelope, so that a sweep that lost its
lease cannot commit a second one, and that a gate once asked stays, even when the sweep that asked it is taken back
(`QuestionsAsked`). An envelope that is found again is one that is in the queue, whether the manager still has one or not. For `RevisionTrail`, `Trail` ties every revision to its number and the row to the last of them, and
`AskedSound` says what was verified of a request stays so until it is written. `CountedOnce` has one invariant per account;
the usage is the largest of what was counted, whatever the order.

`MonitorImplementsGatedWork` needs `QuestionsWait`: the question that waits is the one about the version before the item's, if the
item waits for one, and nothing was asked yet about the version it has or later ones. A sweep that asks from a row that is old
finds the item's version grown and asks nothing, so that no item is held twice, and none is held after its end. The types of
`Accounting` bound a journal's length by the number of its authors and the stamps by the number of collectors; `AccountingBounds`
has the reason, that each author's checkpoint is in the journal once and each stamp is a collector's, and the library's facts on
injections and cardinality count them.

### Operations: `OperationsProofs`

| Theorem | Statement |
|---|---|
| `DeploymentAgreed` | `ReleaseSpec => []OneDeployed` |
| `BackupsComplete` | `MaintenanceSpec => []BackupComplete` |
| `WorkIsKept` | `WorktreeSpec => WorkKept` |
| `SponsorsToldOnce` | `NoticeInit /\ [][NoticeNext]_noticeVars => []SponsorsTold` |
| `EnginesAllAccounted` | `EngineInit /\ [][EngineNext]_engineVars => []EnginesAccounted` |
| `OperationsApart` | a behaviour of `MCOperations` is one of each of its six modules |
| `OperationsTyped` | `OperationsSpec => []OperationsTypeOK` |

`OneDeployed` is inductive up to `CoordinatorFits`: a coordinator works on an attempt under way, and beyond the build only
with a previous image, so that no attempt that ended as deployed is ever ended again. `BackupComplete` needs to know what a
backup that is not published yet has read: `Sound` says so of one record, and that nobody writes while the database is paused
(the lock of `pause`). `WorkKept` needs that what is recorded as released is so on disk (`ReleasedTruly`), and that a cleanup
has released or found blocked whatever it is not to look at any more (`CleanupAccounts`). `SponsorsTold` needs `Told`: whoever is not
still to be told has the message under the row's operation id, which is what makes a delivery in full after a failure
harmless; and `GateSaid` and `CardsTrue`: what a process is about to write on a card was true when it read it and cannot become
false. `EnginesAccounted` follows the operation lock of each engine (`EnginesHeld`) and says who will close what left the pool
(`EnginesClosed`); that an operation is alone needs the case of a pool that was closed meanwhile (`RunsAlone`).

### What stays with TLC

Liveness under fairness, ENABLED, induction over data and RECURSIVE operators are out of the prover's reach: `WorkIsDone`,
`RecoveryResolves` and `ZeroSizedWakes` are checked on the instances of the runs only. The properties that a document states and
the code does not keep are violated, and have nothing to prove.

Conversely, four theorems state what no run is configured for: `GatedWork` (three times) and `Conversation`. Before
they were proved, TLC found no error in them as temporal properties of the instances of `platform` and `services`, and of
`Conversation` also with one item and two faults; as theorems they hold without the bounds, so that a run would add nothing.

The theorems `ServicesApart`, `PlatformApart` and `OperationsApart` join the two kinds of results: what TLC checks on a composition
it checks of each module, and what is proved of a module holds in the composition.

## 5. What is not modelled

Within the modules: payload validation, authorization and text; the choice of a queue by capability; lock order inside one
SQL statement (Postgres resolves those deadlocks by an error, which is a refusal); the length of delays, beyond their order.
Conditions of a flow, on obligations and on routes, read one field of the run, the architecture impact, which stands for any:
it is the only one that governance writes besides the clients, who supply it with their operations; and a state has at
most one obligation of each kind.

What the components marked `partly` leave out: provider thread ids and listings of affinities; decoding and authentication
of inbound Teams activities and the receipts of messages; links and free-form updates of ADO items; validation of the
recorded migrations against the packaged files; the API's handlers other than the event stream, each of which validates a
request and calls one store; search of the shared memory.

Components that are left out, and why:

* *Worker and Codex providers*: calls of an SDK and of a subprocess, with what they return read from a file; their state lives
  outside the repository's code, and `RoleTurn` has what a turn can end in.
* *Document store*: a client of an external service; it keeps no state, and its guard against lost updates is the
  service's own `If-Match`. `FlowRun` has the documents as `Look` and `EditDocument`, `SharedMemory` as its source.
* *Package resolution, manifest and role validation, grants of another project's resources*: pure functions of files, and a
  grant that `register` never asks for. `Registration` and `ConfigActivation` take the result as a value.
* *Routing of Teams text* (`teams_routing.py`): a function of a message.
* *The recovery drill* (`docker/v5/recovery-control.py`): a script that runs the commands `Maintenance` and `Releases` model, in
  one order, against scratch containers.
* *Prompt rendering, authentication, telemetry, health and boundary checks, CLI*: no state that others read.

## 6. Plan

All components with state that others depend on have a module, the safety properties of all of them are theorems, and the
queue, the turns, the gates and the flow have a specification of what they promise, with proofs that the detailed modules keep
it. What is left are such specifications of the smaller protocols, with their refinements proved from the invariants above: an activation
that replaces one configuration by another (`ConfigActivation`), a message that is told once (`Notifications`), an entry of
shared memory that is updated in one step (`SharedMemory`).
