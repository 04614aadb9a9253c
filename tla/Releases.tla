------------------------------- MODULE Releases -------------------------------
(***************************************************************************)
(* Immutable upgrades of one project's runtime (immutable_releases.py,       *)
(* docker_releases.py, migration 0026).  An operation builds a candidate,    *)
(* records it, deploys it, and either commits it as the registered image or  *)
(* restores the previous one.  The session lock admits one coordinator at a  *)
(* time and vanishes with it, so a coordinator that dies leaves its attempt  *)
(* where it was, for a repetition of the operation or for another operation. *)
(* The container may be replaced or change its health behind everyone.       *)
(***************************************************************************)
EXTENDS FiniteSets

CONSTANTS
  Operations,   \* operation ids of upgrade requests
  Revisions,    \* source revisions; a revision stands for its image, too
  BaseImage,    \* the image the project was registered with
  NoImage,
  NoOperation

ASSUME ReleaseAssumption ==
  /\ BaseImage \notin Revisions /\ NoImage \notin Revisions \cup {BaseImage}
  /\ NoOperation \notin Operations

VARIABLES
  attempt,     \* project_runtime_deployment_attempts
  release,     \* project_runtime_releases: the status of each revision's release
  registered,  \* running_image_ref of project_runtime_boundaries
  container,   \* what the deployment really runs
  upgrading    \* the coordinator that holds the lock

releaseVars == <<attempt, release, registered, container, upgrading>>

Images == Revisions \cup {BaseImage}
Terminal == {"deployed", "rejected", "rolled_back", "failed"}
InFlight == {"building", "deploying", "verifying", "rolling_back"}

NoAttempt == [status |-> "none", revision |-> NoImage, previous |-> NoImage]

\* An observation of the deployment; "nothing" stands for a failing observe as well.
Observations == [image : Images, healthy : BOOLEAN] \cup {[image |-> NoImage, healthy |-> FALSE]}
Nothing == [image |-> NoImage, healthy |-> FALSE]

Resting == [operation |-> NoOperation, pc |-> "idle", seen |-> Nothing, next |-> "none"]

Attempts == [status : {"none"} \cup InFlight \cup Terminal, revision : Revisions \cup {NoImage},
             previous : Images \cup {NoImage}]
Coordinators == [operation : Operations \cup {NoOperation},
  pc : {"idle", "build", "prepare", "observe", "decide", "phase", "reobserve", "redecide"},
  seen : Observations, next : {"none"} \cup InFlight]

ReleaseTypeOK ==
  /\ attempt \in [Operations -> Attempts]
  /\ release \in [Revisions -> {"none", "verified", "deployed", "retired", "rejected"}]
  /\ registered \in Images
  /\ container \in Observations
  /\ upgrading \in Coordinators
  /\ \A o \in Operations : attempt[o].previous = NoImage =>
       attempt[o].status \in {"none", "building", "rejected"}

ReleaseInit ==
  /\ attempt = [o \in Operations |-> NoAttempt]
  /\ release = [r \in Revisions |-> "none"]
  /\ registered = BaseImage
  /\ container = [image |-> BaseImage, healthy |-> TRUE]
  /\ upgrading = Resting

-----------------------------------------------------------------------------
Upgrading(o, pc) == upgrading.operation = o /\ upgrading.pc = pc
Status(o, status) == attempt[o].status = status
Candidate(o) == attempt[o].revision
Runs(image) == upgrading.seen = [image |-> image, healthy |-> TRUE]

\* Where the coordinator goes on from the recorded phase.
ResumeUpgrade(o, status) ==
  [Resting EXCEPT !.operation = o, !.pc = IF status = "building" THEN "build" ELSE "observe"]

\* _start: the attempt is inserted once; a terminal one, or one for another revision, is not
\* continued.
StartUpgrade(o, r) ==
  /\ upgrading = Resting
  /\ \/ attempt[o] = NoAttempt
     \/ attempt[o].revision = r /\ attempt[o].status \in InFlight
  /\ LET started == IF attempt[o] = NoAttempt
                    THEN [status |-> "building", revision |-> r, previous |-> NoImage]
                    ELSE attempt[o]
     IN  /\ attempt' = [attempt EXCEPT ![o] = started]
         /\ upgrading' = ResumeUpgrade(o, started.status)
  /\ UNCHANGED <<release, registered, container>>

\* _finish: the outcome of the attempt; its candidate is rejected while it is only verified.
Finish(o, status) ==
  /\ attempt' = [attempt EXCEPT ![o].status = status]
  /\ release' = [r \in Revisions |->
       IF attempt[o].previous # NoImage /\ r = Candidate(o) /\ release[r] = "verified"
       THEN "rejected" ELSE release[r]]
  /\ upgrading' = Resting
  /\ UNCHANGED <<registered, container>>

\* validate and build_and_verify fail, the image or the schema range does not fit.
RejectBuild(o) ==
  /\ Upgrading(o, "build") \/ Upgrading(o, "prepare")
  /\ Finish(o, "rejected")

\* _prepare, before its transaction: the deployment must be the registered one and healthy.
Preflight(o) ==
  /\ Upgrading(o, "build")
  /\ container = [image |-> registered, healthy |-> TRUE] /\ registered # Candidate(o)
  /\ upgrading' = [upgrading EXCEPT !.pc = "prepare", !.seen = container]
  /\ UNCHANGED <<attempt, release, registered, container>>

RecordCandidate(o) ==
  /\ Upgrading(o, "prepare") /\ registered = upgrading.seen.image
  /\ release' = [release EXCEPT ![Candidate(o)] = IF @ = "none" THEN "verified" ELSE @]
  /\ attempt' = [attempt EXCEPT ![o].status = "deploying", ![o].previous = registered]
  /\ upgrading' = [upgrading EXCEPT !.pc = "observe"]
  /\ UNCHANGED <<registered, container>>

-----------------------------------------------------------------------------
(* _continue and _rollback *)

\* _safe_observe, which may fail.
Observe(o) ==
  \E step \in {"observe", "reobserve"} :
    /\ Upgrading(o, step)
    /\ \E seen \in {container, Nothing} :
         upgrading' = [upgrading EXCEPT !.seen = seen,
                         !.pc = IF step = "observe" THEN "decide" ELSE "redecide"]
    /\ UNCHANGED <<attempt, release, registered, container>>

\* Mutant: the registered image is replaced whatever it is by now.
StillRegisteredOrNot(o) == registered \in Images

\* The compare-and-set of _deployed.
StillRegistered(o) == registered = attempt[o].previous

Healthy(o) ==
  Upgrading(o, "decide") /\ attempt[o].status \in {"deploying", "verifying"} /\ Runs(Candidate(o))

\* _deployed: boundary, both releases and the attempt in one transaction.
CommitUpgrade(o) ==
  /\ Healthy(o) /\ StillRegistered(o)
  /\ registered' = Candidate(o)
  /\ release' = [r \in Revisions |->
       IF r = Candidate(o) THEN "deployed"
       ELSE IF r = attempt[o].previous /\ release[r] = "deployed" THEN "retired"
       ELSE release[r]]
  /\ attempt' = [attempt EXCEPT ![o].status = "deployed"]
  /\ upgrading' = Resting
  /\ UNCHANGED container

CommitRefused(o) ==
  /\ Healthy(o) /\ ~StillRegistered(o)
  /\ upgrading' = Resting
  /\ UNCHANGED <<attempt, release, registered, container>>

\* What deploy leaves behind.  It returns only when it saw the image healthy; when it fails
\* the image may run unhealthy, nothing may run, or the old container may be untouched.
Deploy(image, success, failure) ==
  \/ /\ container' = [image |-> image, healthy |-> TRUE]
     /\ upgrading' = success
  \/ /\ container' \in {container, Nothing, [image |-> image, healthy |-> FALSE],
                        [image |-> image, healthy |-> TRUE]}
     /\ upgrading' = failure

Going(pc, phase) == [upgrading EXCEPT !.pc = pc, !.next = phase]

DeployCandidate(o) ==
  /\ Upgrading(o, "decide") /\ Status(o, "deploying") /\ Runs(attempt[o].previous)
  /\ Deploy(Candidate(o), Going("phase", "verifying"), Going("phase", "rolling_back"))
  /\ UNCHANGED <<attempt, release, registered>>

\* Neither the candidate nor the previous image is healthy: drift, or a failed candidate.
GiveUp(o) ==
  /\ Upgrading(o, "decide") /\ attempt[o].status \in {"deploying", "verifying"}
  /\ ~Runs(Candidate(o)) /\ ~(Status(o, "deploying") /\ Runs(attempt[o].previous))
  /\ upgrading' = Going("phase", "rolling_back")
  /\ UNCHANGED <<attempt, release, registered, container>>

\* _phase, a transaction of its own; the coordinator goes on with what it recorded.
RecordPhase(o) ==
  /\ Upgrading(o, "phase")
  /\ attempt' = [attempt EXCEPT ![o].status = upgrading.next]
  /\ upgrading' = [Resting EXCEPT !.operation = o, !.pc = "observe"]
  /\ UNCHANGED <<release, registered, container>>

Restored(o) ==
  /\ Status(o, "rolling_back") /\ Runs(attempt[o].previous)
  /\ Upgrading(o, "decide") \/ Upgrading(o, "redecide")
  /\ Finish(o, "rolled_back")

Restore(o) ==
  /\ Upgrading(o, "decide") /\ Status(o, "rolling_back") /\ ~Runs(attempt[o].previous)
  /\ Deploy(attempt[o].previous, Going("reobserve", "none"), Going("reobserve", "none"))
  /\ UNCHANGED <<attempt, release, registered>>

NotRestored(o) ==
  /\ Upgrading(o, "redecide") /\ ~Runs(attempt[o].previous)
  /\ Finish(o, "failed")

-----------------------------------------------------------------------------
\* The coordinator dies between two steps, and its lock goes with its connection.
Die ==
  /\ upgrading # Resting /\ upgrading' = Resting
  /\ UNCHANGED <<attempt, release, registered, container>>

\* Someone else's deployment, or a container that changes its health.
Drift ==
  /\ container' \in Observations
  /\ UNCHANGED <<attempt, release, registered, upgrading>>

ReleaseNext ==
  \/ Die \/ Drift
  \/ \E o \in Operations :
       \/ \E r \in Revisions : StartUpgrade(o, r)
       \/ RejectBuild(o) \/ Preflight(o) \/ RecordCandidate(o) \/ Observe(o)
       \/ CommitUpgrade(o) \/ CommitRefused(o) \/ DeployCandidate(o) \/ GiveUp(o)
       \/ RecordPhase(o) \/ Restored(o) \/ Restore(o) \/ NotRestored(o)

ReleaseSpec == ReleaseInit /\ [][ReleaseNext]_releaseVars

-----------------------------------------------------------------------------
\* The records agree on what was deployed: the one release that counts as deployed is the
\* registered image's, and some attempt that ended as deployed put it there, whatever
\* interrupted attempts are repeated after other operations and whatever drifted meanwhile
\* (_deployed compares the registered image and changes all four records at once).
OneDeployed ==
  \A r \in Revisions :
    /\ release[r] = "deployed" <=> registered = r
    /\ release[r] = "deployed" => \E o \in Operations :
         attempt[o].status = "deployed" /\ attempt[o].revision = r
=============================================================================
