-------------------------- MODULE RecoverySupervisor --------------------------
(***************************************************************************)
(* The independent recovery supervisor (recovery_supervisor.py) over the     *)
(* lifecycle: processes that each go through execute_once again and again.   *)
(* A cycle first applies the results that were reported and not applied,     *)
(* then claims a request, has it repaired, reports, and applies again.       *)
(* Transactions are single actions; a process may die between any two, and a *)
(* launcher may take longer than the lease or the deadline of its run.       *)
(***************************************************************************)
EXTENDS WorkLifecycle

CONSTANTS
  Supervisors,  \* supervisor processes
  MaxClaims,    \* bound: claims of one run
  MaxCrashes    \* bound: supervisor processes that die

ASSUME RecoveryAssumption == MaxClaims \in Nat \ {0} /\ MaxCrashes \in Nat

VARIABLES
  run,  \* recovery_supervisor_runs of each incident's request
  sup,  \* per process: where execute_once is, and what it holds
  crashes

vars == <<lifecycleVars, run, sup, crashes>>

NoRun == [status |-> "none", owner |-> None, claims |-> 0, leased |-> FALSE,
          late |-> FALSE, outcome |-> "none", applied |-> FALSE]

Idle == [pc |-> "expire", todo |-> {}, applying |-> None, incident |-> None, token |-> 0,
         lost |-> FALSE, result |-> "none"]

Outcomes == {"succeeded", "failed"}

RecoveryTypeOK ==
  /\ TypeOK
  /\ run \in [Incidents ->
       [status : {"none", "running", "reported"}, owner : Supervisors \cup {None},
        claims : 0..MaxClaims, leased : BOOLEAN, late : BOOLEAN,
        outcome : Outcomes \cup {"none"}, applied : BOOLEAN]]
  /\ sup \in [Supervisors ->
       [pc : {"expire", "read", "apply", "mark", "claim", "launch", "report"},
        todo : SUBSET Incidents, applying : Incidents \cup {None}, incident : Incidents \cup {None},
        token : 0..MaxClaims, lost : BOOLEAN, result : Outcomes \cup {"over", "none"}]]
  /\ crashes \in 0..MaxCrashes
  /\ \A c \in Incidents : run[c].leased => run[c].status = "running" /\ ~run[c].late

Init ==
  /\ LifecycleInit
  /\ run = [c \in Incidents |-> NoRun]
  /\ sup = [p \in Supervisors |-> Idle]
  /\ crashes = 0

At(p, step) == sup[p].pc = step

GoTo(p, step) == sup' = [sup EXCEPT ![p].pc = step]

-----------------------------------------------------------------------------
(* reconcile *)

\* Mutant: the report leaves the lease.
ReportedLeased(c, outcome) == [run[c] EXCEPT !.status = "reported", !.outcome = outcome]

Reported(c, outcome) ==
  [run[c] EXCEPT !.status = "reported", !.outcome = outcome, !.leased = FALSE]

\* Mutant: an overdue run is left to its owner while it was claimed only once.
OverdueReclaimed(c) == run[c].status = "running" /\ run[c].late /\ run[c].claims > 1

Overdue(c) == run[c].status = "running" /\ run[c].late

\* _expire_deadlines: every overdue run counts as failed, whoever still works on it.
ExpireDeadlines(p) ==
  /\ At(p, "expire")
  /\ run' = [c \in Incidents |->
       IF Overdue(c) THEN Reported(c, "failed") ELSE run[c]]
  /\ GoTo(p, "read")
  /\ UNCHANGED <<lifecycleVars, crashes>>

\* A process that has this left to apply.  With nothing left the first reconcile of a
\* cycle goes on to claim, and the one after a report ends the cycle.
Remaining(p, todo) ==
  IF todo # {} THEN [sup[p] EXCEPT !.pc = "apply", !.todo = todo, !.applying = None]
  ELSE IF sup[p].incident = None THEN [Idle EXCEPT !.pc = "claim"]
  ELSE Idle

ReadReported(p) ==
  /\ At(p, "read")
  /\ sup' = [sup EXCEPT ![p] = Remaining(p,
       {c \in Incidents : run[c].status = "reported" /\ ~run[c].applied})]
  /\ UNCHANGED <<lifecycleVars, run, crashes>>

Replayed(c) == \E t \in attempts[c] : t.stage = "recovery"

\* What the supervisor's outcome does to the policy, once.
Apply(p, c) ==
  /\ At(p, "apply") /\ c \in sup[p].todo
  /\ \/ Replayed(c) /\ UNCHANGED lifecycleVars
     \/ ~Replayed(c) /\ run[c].outcome = "failed" /\ RecoveryFailed(c)
     \/ ~Replayed(c) /\ run[c].outcome = "succeeded" /\ RecoverySucceeded(c)
  /\ sup' = [sup EXCEPT ![p].pc = "mark", ![p].todo = @ \ {c}, ![p].applying = c]
  /\ UNCHANGED <<run, crashes>>

\* The work is gated, or its owner has no queue: execute_once raises.
ApplyRefused(p, c) ==
  /\ At(p, "apply") /\ c \in sup[p].todo /\ ~Replayed(c)
  /\ ~Due(c, "recovery") \/ (run[c].outcome = "succeeded" /\ RoleOf("recovery") \notin routable)
  /\ sup' = [sup EXCEPT ![p] = Idle]
  /\ UNCHANGED <<lifecycleVars, run, crashes>>

\* result_applied_at, in a transaction of its own.
MarkApplied(p) ==
  /\ At(p, "mark")
  /\ run' = [run EXCEPT ![sup[p].applying].applied = TRUE]
  /\ sup' = [sup EXCEPT ![p] = Remaining(p, sup[p].todo)]
  /\ UNCHANGED <<lifecycleVars, crashes>>

-----------------------------------------------------------------------------
(* claim, launch and report *)

\* A pending request without a run, or with one whose lease lapsed before its deadline.
Claimable(c) ==
  /\ request[c] = "pending"
  /\ \/ run[c].status = "none"
     \/ run[c].status = "running" /\ ~run[c].leased /\ ~run[c].late

Claim(p, c) ==
  /\ At(p, "claim") /\ Claimable(c) /\ run[c].claims < MaxClaims
  /\ run' = [run EXCEPT ![c] = [NoRun EXCEPT !.status = "running", !.owner = p,
                                             !.claims = run[c].claims + 1, !.leased = TRUE]]
  /\ sup' = [sup EXCEPT ![p].pc = "launch", ![p].incident = c,
                        ![p].token = run[c].claims + 1]
  /\ UNCHANGED <<lifecycleVars, crashes>>

NothingToClaim(p) ==
  /\ At(p, "claim") /\ \A c \in Incidents : ~Claimable(c)
  /\ sup' = [sup EXCEPT ![p] = Idle]
  /\ UNCHANGED <<lifecycleVars, run, crashes>>

\* The token is a new one for each claim, so the number of the claim stands for it.
OwnsRun(p) ==
  run[sup[p].incident].owner = p /\ run[sup[p].incident].claims = sup[p].token

\* keep_alive finds that the lease is not active any more.
HeartbeatRefused(p) ==
  /\ At(p, "launch") /\ ~sup[p].lost
  /\ ~(OwnsRun(p) /\ run[sup[p].incident].leased)
  /\ sup' = [sup EXCEPT ![p].lost = TRUE]
  /\ UNCHANGED <<lifecycleVars, run, crashes>>

\* The launcher's structured result; more usage than the pinned limit is "over".
Launched(p, result) ==
  /\ At(p, "launch")
  /\ sup' = [sup EXCEPT ![p] =
       IF sup[p].lost THEN Idle ELSE [sup[p] EXCEPT !.pc = "report", !.result = result]]
  /\ UNCHANGED <<lifecycleVars, run, crashes>>

\* Mutants: the verdict is the launcher's; a stale token is good enough.
VerdictTrusted(p) == IF sup[p].result = "over" THEN "succeeded" ELSE sup[p].result
MayReportStale(p) == run[sup[p].incident].status = "running"

\* Past the deadline, and above the usage limit, a result is a failure.
Verdict(p) ==
  IF run[sup[p].incident].late \/ sup[p].result = "over" THEN "failed" ELSE sup[p].result

\* The owner and token must be those of the row, and the lease active unless the
\* deadline has passed.
MayReport(p) ==
  /\ OwnsRun(p) /\ run[sup[p].incident].status = "running"
  /\ run[sup[p].incident].leased \/ run[sup[p].incident].late

Report(p) ==
  /\ At(p, "report") /\ MayReport(p)
  /\ run' = [run EXCEPT ![sup[p].incident] = Reported(sup[p].incident, Verdict(p))]
  /\ GoTo(p, "expire")
  /\ UNCHANGED <<lifecycleVars, crashes>>

\* Of a claim that is still this one, only _expire_deadlines can have reported; its
\* verdict is taken for the answer.
ReportEchoed(p) ==
  /\ At(p, "report") /\ OwnsRun(p) /\ run[sup[p].incident].status = "reported"
  /\ GoTo(p, "expire")
  /\ UNCHANGED <<lifecycleVars, run, crashes>>

\* Another owner or a lapsed lease: it raises.
ReportRefused(p) ==
  /\ At(p, "report") /\ ~MayReport(p)
  /\ ~(OwnsRun(p) /\ run[sup[p].incident].status = "reported")
  /\ sup' = [sup EXCEPT ![p] = Idle]
  /\ UNCHANGED <<lifecycleVars, run, crashes>>

-----------------------------------------------------------------------------
(* Time and crashes *)

LeaseExpires(c) ==
  /\ run[c].leased
  /\ run' = [run EXCEPT ![c].leased = FALSE]
  /\ UNCHANGED <<lifecycleVars, sup, crashes>>

\* A lease never outlives the deadline.
DeadlinePasses(c) ==
  /\ run[c].status = "running" /\ ~run[c].late
  /\ run' = [run EXCEPT ![c].late = TRUE, ![c].leased = FALSE]
  /\ UNCHANGED <<lifecycleVars, sup, crashes>>

Crash(p) ==
  /\ sup[p] # Idle /\ crashes < MaxCrashes
  /\ sup' = [sup EXCEPT ![p] = Idle]
  /\ crashes' = crashes + 1
  /\ UNCHANGED <<lifecycleVars, run>>

SupervisorStep(p) ==
  \/ ExpireDeadlines(p) \/ ReadReported(p)
  \/ \E c \in Incidents : Apply(p, c) \/ ApplyRefused(p, c)
  \/ MarkApplied(p)
  \/ \E c \in Incidents : Claim(p, c)
  \/ NothingToClaim(p)
  \/ \E result \in Outcomes \cup {"over"} : Launched(p, result)
  \/ Report(p) \/ ReportEchoed(p) \/ ReportRefused(p)

Next ==
  \/ LifecycleNext /\ UNCHANGED <<run, sup, crashes>>
  \/ \E p \in Supervisors : SupervisorStep(p)
  \/ \E p \in Supervisors : HeartbeatRefused(p)
  \/ \E c \in Incidents : LeaseExpires(c)
  \/ \E c \in Incidents : DeadlinePasses(c)
  \/ \E p \in Supervisors : Crash(p)

Spec == Init /\ [][Next]_vars

-----------------------------------------------------------------------------
(* Properties *)

\* The policy takes the verdict of the one reported run and no other: of a run that
\* was late or over its limit, or lost to another supervisor, never a success.  What
\* is marked as applied is in the attempt history, and that is final for the request:
\* a crash between the two transactions is made up for (report, reconcile).
RequestFollowsRun ==
  \A c \in Incidents :
    /\ request[c] \in Outcomes =>
         run[c].status = "reported" /\ run[c].outcome = request[c]
    /\ run[c].outcome = "succeeded" => ~run[c].late
    /\ run[c].applied => Replayed(c) /\ request[c] \in Outcomes

\* A reported verdict stays, and it was reported by the claim that held the run last.
VerdictFinal ==
  [][\A c \in Incidents :
       /\ run[c].status = "reported" => run'[c] \in {run[c], [run[c] EXCEPT !.applied = TRUE]}
       /\ run[c].status # "reported" /\ run'[c].status = "reported" /\ ~run[c].late =>
            \E p \in Supervisors : At(p, "report") /\ OwnsRun(p) /\ sup[p].incident = c]_vars

\* Fairness: the supervisors' cycles go on, launchers end, deadlines pass and sponsors
\* decide.  Only crashes are bounded.
Fairness ==
  /\ \A p \in Supervisors : WF_vars(SupervisorStep(p))
  /\ \A c \in Incidents : WF_vars(DeadlinePasses(c))
  /\ \A g \in Gates : WF_vars(\E s \in Sponsors, d \in {"approved", "rejected"} :
       DecideGate(g, s, d) /\ UNCHANGED <<run, sup, crashes>>)

FairSpec == Spec /\ Fairness

\* A recovery request is resolved some day, whichever supervisors die or fall behind,
\* and however often the work is gated, unless its owner has no queue to resume in.
RecoveryResolves ==
  \A c \in Incidents :
    request[c] = "pending" ~> request[c] # "pending" \/ "owner" \notin routable

==============================================================================
