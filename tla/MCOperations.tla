----------------------------- MODULE MCOperations -----------------------------
(* The supervisor of failed work and the operations around the control plane,  *)
(* which share no state with it, checked in one run: each behaviour exercises  *)
(* the one that part names.                                                    *)
(*   recovery: one work item, its gate and its incident, under two supervisors.*)
(*   notices: one gate, its two sponsors, and two processes that deliver.      *)
(*   maintenance: two writes, one of them a migration, and two backups.        *)
(*   engines: two threads and three engines in turn.                           *)
(*   releases: two upgrades of one project to two revisions.                   *)
(*   worktrees: the workspace of one work item in two repositories.            *)
EXTENDS RecoverySupervisor, Notifications, Maintenance, WarmEngines, Releases, Worktrees

VARIABLE part

CONSTANTS w1, g1, s1, s2, a1, f1, p1, p2, r1, r2, e1, e2, e3

OperationsInit ==
  /\ Init /\ NoticeInit /\ MaintenanceInit /\ EngineInit /\ ReleaseInit /\ WorktreeInit
  /\ part \in {"recovery", "notices", "maintenance", "engines", "releases", "worktrees"}

OthersStill ==
  /\ UNCHANGED part
  /\ IF part = "recovery" THEN TRUE ELSE UNCHANGED vars
  /\ IF part = "notices" THEN TRUE ELSE UNCHANGED noticeVars
  /\ IF part = "maintenance" THEN TRUE ELSE UNCHANGED maintenanceVars
  /\ IF part = "engines" THEN TRUE ELSE UNCHANGED engineVars
  /\ IF part = "releases" THEN TRUE ELSE UNCHANGED releaseVars
  /\ IF part = "worktrees" THEN TRUE ELSE UNCHANGED worktreeVars

OperationsNext ==
  \/ part = "recovery" /\ Next /\ OthersStill
  \/ part = "notices" /\ NoticeNext /\ OthersStill
  \/ part = "maintenance" /\ MaintenanceNext /\ OthersStill
  \/ part = "engines" /\ EngineNext /\ OthersStill
  \/ part = "releases" /\ ReleaseNext /\ OthersStill
  \/ part = "worktrees" /\ WorktreeNext /\ OthersStill

operationsVars ==
  <<part, vars, noticeVars, maintenanceVars, engineVars, releaseVars, worktreeVars>>

\* The fairness of RecoverySupervisor, in the behaviours in which it runs.
RecoveryFairness ==
  /\ \A p \in Supervisors : WF_vars(part = "recovery" /\ SupervisorStep(p))
  /\ \A c \in Incidents : WF_vars(part = "recovery" /\ DeadlinePasses(c))
  /\ \A g \in Gates :
       WF_vars(\E s \in Sponsors, d \in {"approved", "rejected"} :
         part = "recovery" /\ DecideGate(g, s, d) /\ UNCHANGED <<run, sup, crashes>>)

OperationsSpec ==
  OperationsInit /\ [][OperationsNext]_operationsVars /\ RecoveryFairness

\* One type invariant for all of them; only what runs can leave its type.
OperationsTypeOK ==
  \/ part = "recovery" /\ RecoveryTypeOK
  \/ part = "notices" /\ NoticeTypeOK
  \/ part = "maintenance" /\ MaintenanceTypeOK
  \/ part = "engines" /\ EngineTypeOK
  \/ part = "releases" /\ ReleaseTypeOK
  \/ part = "worktrees" /\ WorktreeTypeOK

==============================================================================
