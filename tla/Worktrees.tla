------------------------------- MODULE Worktrees -------------------------------
(***************************************************************************)
(* The Git workspace of one work item (git_worktrees.py, migration 0018): a  *)
(* worktree and a branch per repository of a durable plan.  prepare and      *)
(* cleanup hold the workspace's advisory locks, record each repository in a  *)
(* statement of its own, and may die or fail between any two; a worker edits *)
(* and commits in the worktrees at any time, during a cleanup, too.          *)
(***************************************************************************)
CONSTANTS
  Repositories,  \* repositories of the work item's plan
  NoRepository

ASSUME WorktreeAssumption == NoRepository \notin Repositories

VARIABLES
  workspace,  \* git_workspaces.status
  planned,    \* git_workspace_repositories.status
  tree,       \* what is at each planned worktree path
  branch,     \* the repositories whose source has the workspace branch
  busy        \* the prepare or cleanup that holds the locks

worktreeVars == <<workspace, planned, tree, branch, busy>>

Unlocked == [job |-> "none", pc |-> "idle", todo |-> {}, at |-> NoRepository, blocked |-> {}]

Jobs == [job : {"none", "prepare", "cleanup"}, pc : {"idle", "next", "remove", "record", "fail"},
         todo : SUBSET Repositories, at : Repositories \cup {NoRepository},
         blocked : SUBSET Repositories]

WorktreeTypeOK ==
  /\ workspace \in {"none", "preparing", "ready", "releasing", "cleanup_blocked", "released",
                    "error"}
  /\ planned \in [Repositories ->
       {"none", "planned", "ready", "cleanup_blocked", "released", "error"}]
  /\ tree \in [Repositories -> {"none", "clean", "dirty", "unowned"}]
  /\ branch \subseteq Repositories
  /\ busy \in Jobs
  /\ \A r \in Repositories : tree[r] \in {"clean", "dirty"} => r \in branch

WorktreeInit ==
  /\ workspace = "none"
  /\ planned = [r \in Repositories |-> "none"]
  /\ tree = [r \in Repositories |-> "none"]
  /\ branch = {}
  /\ busy = Unlocked

-----------------------------------------------------------------------------
Own(r) == tree[r] \in {"clean", "dirty"}

Doing(job, pc, r) == busy.job = job /\ busy.pc = pc /\ busy.at = r
Turn(job, r) == Doing(job, "next", NoRepository) /\ r \in busy.todo

GoOn(r, pc) == [busy EXCEPT !.pc = pc, !.at = r]
Done(r) == [busy EXCEPT !.pc = "next", !.at = NoRepository, !.todo = @ \ {r}]

Record(r, status) == planned' = [planned EXCEPT ![r] = status]

\* The operation failed at r, whose row says so where the code records it; the workspace's
\* own row follows in another statement.
FailAt(r) ==
  /\ \/ Record(r, "error")
     \/ UNCHANGED planned
  /\ busy' = GoOn(r, "fail")

FailWorkspace ==
  /\ busy.pc = "fail"
  /\ workspace' = "error" /\ busy' = Unlocked
  /\ UNCHANGED <<planned, tree, branch>>

-----------------------------------------------------------------------------
(* prepare *)

\* A new plan needs every path and branch to be free; a retry must match the recorded plan,
\* and a released workspace is not prepared again.
BeginPrepare ==
  /\ busy = Unlocked /\ workspace # "released"
  /\ \/ /\ workspace = "none"
        /\ branch = {} /\ \A r \in Repositories : tree[r] = "none"
        /\ planned' = [r \in Repositories |-> "planned"]
     \/ workspace # "none" /\ UNCHANGED planned
  /\ workspace' = "preparing"
  /\ busy' = [Unlocked EXCEPT !.job = "prepare", !.pc = "next", !.todo = Repositories]
  /\ UNCHANGED <<tree, branch>>

\* _prepare_repository: git worktree add -b, unless the worktree is there already.
AddWorktree(r) ==
  /\ Turn("prepare", r)
  /\ \/ Own(r) /\ UNCHANGED <<tree, branch>>
     \/ /\ tree[r] = "none" /\ r \notin branch
        /\ tree' = [tree EXCEPT ![r] = "clean"] /\ branch' = branch \cup {r}
  /\ busy' = GoOn(r, "record")
  /\ UNCHANGED <<workspace, planned>>

\* Something else is at the path, the branch is there without its worktree, or git fails,
\* perhaps after it created the branch.
RefuseWorktree(r) ==
  /\ Turn("prepare", r) /\ FailAt(r)
  /\ branch' \in {branch, IF tree[r] = "none" THEN branch \cup {r} ELSE branch}
  /\ UNCHANGED <<workspace, tree>>

RecordReady(r) ==
  /\ Doing("prepare", "record", r)
  /\ Record(r, "ready") /\ busy' = Done(r)
  /\ UNCHANGED <<workspace, tree, branch>>

FinishPrepare ==
  /\ busy.job = "prepare" /\ busy.pc = "next" /\ busy.todo = {}
  /\ workspace' = "ready" /\ busy' = Unlocked
  /\ UNCHANGED <<planned, tree, branch>>

-----------------------------------------------------------------------------
(* cleanup *)

BeginCleanup ==
  /\ busy = Unlocked /\ workspace \notin {"none", "released"}
  /\ workspace' = "releasing"
  /\ busy' = [Unlocked EXCEPT !.job = "cleanup", !.pc = "next",
                !.todo = {r \in Repositories : planned[r] # "released"}]
  /\ UNCHANGED <<planned, tree, branch>>

\* _release_repository, up to the git status of the worktree.
InspectWorktree(r) ==
  /\ Turn("cleanup", r)
  /\ \/ /\ tree[r] = "none" /\ r \in branch
        /\ busy' = GoOn(r, "record") /\ UNCHANGED planned
     \/ /\ tree[r] = "clean"
        /\ busy' = GoOn(r, "remove") /\ UNCHANGED planned
     \/ /\ tree[r] = "dirty" /\ Record(r, "cleanup_blocked")
        /\ busy' = [Done(r) EXCEPT !.blocked = @ \cup {r}]
     \/ FailAt(r)
  /\ UNCHANGED <<workspace, tree, branch>>

\* Mutant: git worktree remove --force.
RemovableByForce(r) == Own(r)

\* git worktree remove looks at the worktree again and refuses one with changes.
Removable(r) == tree[r] = "clean"

RemoveWorktree(r) ==
  /\ Doing("cleanup", "remove", r)
  /\ \/ /\ Removable(r)
        /\ tree' = [tree EXCEPT ![r] = "none"] /\ busy' = GoOn(r, "record") /\ UNCHANGED planned
     \/ ~Removable(r) /\ FailAt(r) /\ UNCHANGED tree
  /\ UNCHANGED <<workspace, branch>>

RecordReleased(r) ==
  /\ Doing("cleanup", "record", r)
  /\ Record(r, "released") /\ busy' = Done(r)
  /\ UNCHANGED <<workspace, tree, branch>>

FinishCleanup ==
  /\ busy.job = "cleanup" /\ busy.pc = "next" /\ busy.todo = {}
  /\ workspace' = IF busy.blocked = {} THEN "released" ELSE "cleanup_blocked"
  /\ busy' = Unlocked
  /\ UNCHANGED <<planned, tree, branch>>

-----------------------------------------------------------------------------
(* Everyone else *)

\* The process dies; its session locks go with it.
DieWorking ==
  /\ busy # Unlocked /\ busy' = Unlocked
  /\ UNCHANGED <<workspace, planned, tree, branch>>

Edit(r) ==
  /\ Own(r)
  /\ tree' = [tree EXCEPT ![r] = IF @ = "clean" THEN "dirty" ELSE "clean"]
  /\ UNCHANGED <<workspace, planned, branch, busy>>

\* Someone puts something at the path, or takes it away again.
Intrude(r) ==
  /\ ~Own(r)
  /\ tree' = [tree EXCEPT ![r] = IF @ = "none" THEN "unowned" ELSE "none"]
  /\ UNCHANGED <<workspace, planned, branch, busy>>

WorktreeNext ==
  \/ FailWorkspace \/ BeginPrepare \/ FinishPrepare \/ BeginCleanup \/ FinishCleanup \/ DieWorking
  \/ \E r \in Repositories :
       \/ AddWorktree(r) \/ RefuseWorktree(r) \/ RecordReady(r)
       \/ InspectWorktree(r) \/ RemoveWorktree(r) \/ RecordReleased(r)
       \/ Edit(r) \/ Intrude(r)

WorktreeSpec == WorktreeInit /\ [][WorktreeNext]_worktreeVars

-----------------------------------------------------------------------------
\* No step of prepare or cleanup loses work: a worktree with uncommitted changes and a branch
\* stay, whatever a worker does between the check and the removal, and a workspace becomes
\* released only when every repository still has its branch and none of its worktree
\* (git_worktrees.py cleanup, _release_repository).
WorkKept ==
  [][/\ \A r \in Repositories :
          /\ tree[r] = "dirty" => tree'[r] \in {"dirty", "clean"}
          /\ r \in branch => r \in branch'
     /\ workspace' = "released" /\ workspace # "released" =>
          \A r \in Repositories : r \in branch' /\ tree'[r] \in {"none", "unowned"}]_worktreeVars
=============================================================================
