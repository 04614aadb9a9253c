-------------------------- MODULE OperationsProofs --------------------------
(* Theorems about the operations around the control plane: backups (Maintenance), *)
(* upgrades (Releases), the workspaces of work items (Worktrees), what sponsors    *)
(* are told (Notifications), the pool of warm engines (WarmEngines) and the        *)
(* supervisor of failed work (RecoverySupervisor).  The modules share no state,    *)
(* and nothing proved of one is used for another, until MCOperations puts them     *)
(* side by side.                                                                   *)
EXTENDS MCOperations, LifecycleProofs

-----------------------------------------------------------------------------
(* Maintenance: what a published backup holds, however writes, operators, failures *)
(* and other backups come in between.                                            *)

\* What a backup under way has read is what was committed when it paused, unless somebody
\* resumed since; k is its record, m the mode of the database and d its writes.
Sound(k, m, d) ==
  /\ k.pc \in {"dump", "count", "publish"} =>
       /\ k.acknowledged \subseteq d
       /\ ~k.disturbed => m = "paused" /\ d = k.acknowledged
  /\ k.pc \in {"count", "publish"} \/ k.published =>
       /\ k.acknowledged \subseteq k.archive
       /\ ~k.disturbed => k.archive = k.acknowledged /\ k.mode = "paused"
  /\ (k.pc = "publish" \/ k.published) /\ ~k.disturbed =>
       k.counted = Cardinality(k.archive)
  /\ k.published => k.pc \in {"finish", "over"}

MaintenanceInv ==
  /\ MaintenanceTypeOK
  /\ maintenance = "paused" => open = {}
  /\ \A b \in Backups : Sound(backup[b], maintenance, committed)

-----------------------------------------------------------------------------
\* The rows a backup may count.
LEMMA Countable ==
  ASSUME committed \in SUBSET Writers
  PROVE  Cardinality(committed) \in 0..Cardinality(Writers) /\ 0 \in 0..Cardinality(Writers)
BY FS_CardinalityType, FS_Subset, MaintenanceAssumption

\* A new command has done nothing that could be wrong.
LEMMA NewSound ==
  /\ NewBackup \in BackupRecord
  /\ \A m, d : Sound(NewBackup, m, d)
<1>1. 0 \in 0..Cardinality(Writers)
  BY FS_CardinalityType, MaintenanceAssumption
<1> QED
  BY <1>1 DEF NewBackup, BackupRecord, BackupSteps, Sound

\* At first every command is new.
LEMMA MaintenanceBegins == MaintenanceInit => MaintenanceInv
BY NewSound DEF MaintenanceInit, MaintenanceInv, MaintenanceTypeOK

\* A resumption disturbs the backups under way, and so keeps them sound.
LEMMA DisturbedSound ==
  ASSUME MaintenanceInv, NEW b \in Backups
  PROVE  Disturbed(b) \in BackupRecord /\ Sound(Disturbed(b), "active", committed)
<1>1. backup[b] \in BackupRecord /\ Sound(backup[b], maintenance, committed)
  BY DEF MaintenanceInv, MaintenanceTypeOK
<1>2. maintenance \in {"active", "paused"}
  BY DEF MaintenanceInv, MaintenanceTypeOK
<1> QED
  BY <1>1, <1>2 DEF Disturbed, Sound, BackupRecord

\* What is left of a command is as sound as the command was, whatever happens next.
LEMMA EndedSound ==
  ASSUME MaintenanceInv, NEW b \in Backups
  PROVE  Ended(b) \in BackupRecord /\ \A m, d : Sound(Ended(b), m, d)
<1>1. backup[b] \in BackupRecord /\ Sound(backup[b], maintenance, committed)
  BY DEF MaintenanceInv, MaintenanceTypeOK
<1>2. CASE backup[b].published
  BY <1>1, <1>2 DEF Ended, Sound, BackupRecord, BackupSteps
<1>3. CASE ~backup[b].published
  <2>1. [NewBackup EXCEPT !.pc = "over"] \in BackupRecord
    BY NewSound DEF BackupRecord, BackupSteps
  <2>2. \A m, d : Sound([NewBackup EXCEPT !.pc = "over"], m, d)
    BY DEF NewBackup, Sound
  <2> QED
    BY <1>3, <2>1, <2>2 DEF Ended
<1> QED
  BY <1>2, <1>3

\* A step of one command that neither writes nor ends a pause.
LEMMA CommandKept ==
  ASSUME MaintenanceInv, NEW b \in Backups, NEW k \in BackupRecord,
         backup' = [backup EXCEPT ![b] = k], UNCHANGED <<committed, open>>,
         maintenance' = maintenance \/ (maintenance' = "paused" /\ open = {}),
         Sound(k, maintenance', committed)
  PROVE  MaintenanceInv'
<1> USE DEF MaintenanceInv, MaintenanceTypeOK
<1>1. \A c \in Backups : Sound(backup[c], maintenance', committed)
  BY DEF Sound
<1>2. \A c \in Backups : Sound(backup'[c], maintenance', committed')
  BY <1>1
<1> QED
  BY <1>2

\* Every step keeps the commands sound, and so what they publish.
LEMMA MaintenanceKept ==
  ASSUME MaintenanceInv, [MaintenanceNext]_maintenanceVars
  PROVE  MaintenanceInv'
<1>0. /\ MaintenanceTypeOK /\ (maintenance = "paused" => open = {})
      /\ \A b \in Backups : backup[b] \in BackupRecord /\ Sound(backup[b], maintenance, committed)
  BY DEF MaintenanceInv, MaintenanceTypeOK
<1>1. ASSUME NEW w \in Writers, BeginWrite(w)
      PROVE  MaintenanceInv'
  BY <1>0, <1>1 DEF BeginWrite, Admitted, MaintenanceInv, MaintenanceTypeOK
<1>2. ASSUME NEW w \in Writers, CommitWrite(w)
      PROVE  MaintenanceInv'
  <2>1. maintenance = "active"
    BY <1>0, <1>2 DEF CommitWrite, MaintenanceTypeOK
  <2>2. \A b \in Backups : Sound(backup[b], maintenance, committed \cup {w})
    BY <1>0, <2>1 DEF Sound
  <2> QED
    BY <1>0, <1>2, <2>2 DEF CommitWrite, MaintenanceInv, MaintenanceTypeOK
<1>3. ASSUME NEW w \in Writers, AbortWrite(w)
      PROVE  MaintenanceInv'
  BY <1>0, <1>3 DEF AbortWrite, MaintenanceInv, MaintenanceTypeOK
<1>4. CASE PauseByOperator
  <2>1. \A b \in Backups : Sound(backup[b], "paused", committed)
    BY <1>0 DEF Sound
  <2> QED
    BY <1>0, <1>4, <2>1 DEF PauseByOperator, Quiescent, MaintenanceInv, MaintenanceTypeOK
<1>5. CASE ResumeByOperator
  BY <1>0, <1>5, DisturbedSound DEF ResumeByOperator, MaintenanceInv, MaintenanceTypeOK
<1>6. ASSUME NEW b \in Backups, ReadStatus(b)
      PROVE  MaintenanceInv'
  <2> DEFINE k == [backup[b] EXCEPT !.pc = "seen", !.before = maintenance]
  <2>1. k \in BackupRecord
    BY <1>0, <1>6, Countable DEF ReadStatus, MaintenanceTypeOK, BackupRecord, BackupSteps
  <2>2. Sound(k, maintenance', committed)
    BY <1>0, <1>6 DEF ReadStatus, Sound
  <2>3. backup' = [backup EXCEPT ![b] = k]
    BY <1>0, <1>6 DEF ReadStatus, MaintenanceTypeOK, BackupRecord
  <2> QED
    BY <1>6, <2>1, <2>2, <2>3, CommandKept DEF ReadStatus, Quiescent
<1>7. ASSUME NEW b \in Backups, PauseForBackup(b)
      PROVE  MaintenanceInv'
  <2> DEFINE k == [backup[b] EXCEPT !.pc = "dump", !.before = "active",
       !.initiated = backup[b].before = "active" /\ maintenance = "active",
       !.acknowledged = committed]
  <2>1. k \in BackupRecord
    BY <1>0, <1>7, Countable DEF PauseForBackup, MaintenanceTypeOK, BackupRecord, BackupSteps
  <2>2. Sound(k, maintenance', committed)
    BY <1>0, <1>7 DEF PauseForBackup, Sound, BackupRecord
  <2>3. backup' = [backup EXCEPT ![b] = k]
    BY <1>0, <1>7 DEF PauseForBackup, MaintenanceTypeOK, BackupRecord
  <2> QED
    BY <1>7, <2>1, <2>2, <2>3, CommandKept DEF PauseForBackup, Quiescent
<1>8. ASSUME NEW b \in Backups, Dump(b)
      PROVE  MaintenanceInv'
  <2> DEFINE k == [backup[b] EXCEPT !.pc = "count", !.archive = committed, !.mode = maintenance]
  <2>1. k \in BackupRecord
    BY <1>0, <1>8, Countable DEF Dump, MaintenanceTypeOK, BackupRecord, BackupSteps
  <2>2. Sound(k, maintenance', committed)
    BY <1>0, <1>8 DEF Dump, Sound, BackupRecord
  <2>3. backup' = [backup EXCEPT ![b] = k]
    BY <1>0, <1>8 DEF Dump, MaintenanceTypeOK, BackupRecord
  <2> QED
    BY <1>8, <2>1, <2>2, <2>3, CommandKept DEF Dump, Quiescent
<1>9. ASSUME NEW b \in Backups, CountRows(b)
      PROVE  MaintenanceInv'
  <2> DEFINE k == [backup[b] EXCEPT !.pc = "publish", !.counted = Cardinality(committed)]
  <2>1. k \in BackupRecord
    BY <1>0, <1>9, Countable DEF CountRows, MaintenanceTypeOK, BackupRecord, BackupSteps
  <2>2. Sound(k, maintenance', committed)
    BY <1>0, <1>9 DEF CountRows, Sound, BackupRecord
  <2>3. backup' = [backup EXCEPT ![b] = k]
    BY <1>0, <1>9 DEF CountRows, MaintenanceTypeOK, BackupRecord
  <2> QED
    BY <1>9, <2>1, <2>2, <2>3, CommandKept DEF CountRows, Quiescent
<1>10. ASSUME NEW b \in Backups, Publish(b)
      PROVE  MaintenanceInv'
  <2> DEFINE k == [backup[b] EXCEPT !.pc = "finish", !.published = TRUE]
  <2>1. k \in BackupRecord
    BY <1>0, <1>10, Countable DEF Publish, MaintenanceTypeOK, BackupRecord, BackupSteps
  <2>2. Sound(k, maintenance', committed)
    BY <1>0, <1>10 DEF Publish, Sound, BackupRecord
  <2>3. backup' = [backup EXCEPT ![b] = k]
    BY <1>0, <1>10 DEF Publish, MaintenanceTypeOK, BackupRecord
  <2> QED
    BY <1>10, <2>1, <2>2, <2>3, CommandKept DEF Publish, Quiescent
<1>11. ASSUME NEW b \in Backups, FailBackup(b)
      PROVE  MaintenanceInv'
  <2> DEFINE k == [NewBackup EXCEPT !.pc = "finish", !.initiated = backup[b].initiated]
  <2>1. k \in BackupRecord
    BY <1>0, <1>11, Countable, NewSound DEF FailBackup, MaintenanceTypeOK, BackupRecord, BackupSteps
  <2>2. Sound(k, maintenance', committed)
    BY <1>0, <1>11 DEF FailBackup, Sound, NewBackup
  <2>3. backup' = [backup EXCEPT ![b] = k]
    BY <1>0, <1>11 DEF FailBackup, MaintenanceTypeOK, BackupRecord
  <2> QED
    BY <1>11, <2>1, <2>2, <2>3, CommandKept DEF FailBackup, Quiescent
<1>12. ASSUME NEW b \in Backups, FinishBackup(b)
      PROVE  MaintenanceInv'
  <2>1. CASE backup[b].initiated
    BY <1>0, <1>12, <2>1, DisturbedSound, EndedSound
    DEF FinishBackup, MaintenanceInv, MaintenanceTypeOK
  <2>2. CASE ~backup[b].initiated
    BY <1>0, <1>12, <2>2, EndedSound DEF FinishBackup, MaintenanceInv, MaintenanceTypeOK
  <2> QED
    BY <2>1, <2>2
<1>13. ASSUME NEW b \in Backups, KillBackup(b)
      PROVE  MaintenanceInv'
  BY <1>13, EndedSound, CommandKept DEF KillBackup
<1>14. CASE UNCHANGED maintenanceVars
  BY <1>0, <1>14 DEF maintenanceVars, MaintenanceInv, MaintenanceTypeOK
<1> QED
  BY <1>1, <1>2, <1>3, <1>4, <1>5, <1>6, <1>7, <1>8, <1>9, <1>10, <1>11, <1>12, <1>13, <1>14
  DEF MaintenanceNext

-----------------------------------------------------------------------------
\* A published backup has what was acknowledged before its pause, and is what was paused
\* unless somebody resumed in the middle of it (backup, restore).
THEOREM BackupsComplete == MaintenanceSpec => []BackupComplete
<1>1. MaintenanceInit => MaintenanceInv
  BY MaintenanceBegins
<1>2. MaintenanceInv /\ [MaintenanceNext]_maintenanceVars => MaintenanceInv'
  BY MaintenanceKept
<1>3. MaintenanceInv => BackupComplete
  BY DEF MaintenanceInv, BackupComplete, Restorable, Sound
<1> QED
  BY <1>1, <1>2, <1>3, PTL DEF MaintenanceSpec

-----------------------------------------------------------------------------
(* Releases: whatever upgrades are interrupted, repeated or run after one another,  *)
(* the records agree on what is deployed.                                        *)

\* A coordinator works on an attempt that is under way, and on what follows the build only
\* when the previous image is recorded.
CoordinatorFits ==
  /\ \A o \in Operations : attempt[o].status # "none" => attempt[o].revision \in Revisions
  /\ \A o \in Operations : upgrading.operation = o =>
       /\ attempt[o].status \in InFlight
       /\ upgrading.pc \notin {"idle", "build", "prepare"} => attempt[o].previous # NoImage
  /\ upgrading.pc = "phase" => upgrading.next \in InFlight

ReleaseInv == ReleaseTypeOK /\ CoordinatorFits /\ OneDeployed

-----------------------------------------------------------------------------
\* No attempt has begun at first, and the registered image is no release's.
LEMMA ReleaseBegins == ReleaseInit => ReleaseInv
BY ReleaseAssumption
DEF ReleaseInit, ReleaseInv, ReleaseTypeOK, Attempts, Coordinators, CoordinatorFits,
    OneDeployed, NoAttempt, Resting, Nothing, Images, Observations, InFlight, Terminal

\* _finish ends the attempt and rejects at most a release that was never deployed.
LEMMA FinishKept ==
  ASSUME ReleaseInv, NEW o \in Operations, upgrading.operation = o,
         NEW status \in Terminal \ {"deployed"}, Finish(o, status),
         attempt[o].previous = NoImage => status = "rejected"
  PROVE  ReleaseInv'
<1> USE ReleaseAssumption DEF ReleaseInv, ReleaseTypeOK, Attempts, Coordinators, Terminal, InFlight
<1>1. attempt' = [attempt EXCEPT ![o].status = status] /\ upgrading' = Resting
  BY DEF Finish
<1>2. \A r \in Revisions :
        release'[r] = release[r] \/ (release[r] = "verified" /\ release'[r] = "rejected")
  BY DEF Finish
<1>3. ReleaseTypeOK'
  <2>1. release' \in [Revisions -> {"none", "verified", "deployed", "retired", "rejected"}]
    BY DEF Finish
  <2> QED
    BY <1>1, <2>1 DEF Finish, Resting, Nothing, Observations
<1>4. CoordinatorFits'
  BY <1>1 DEF CoordinatorFits, Resting
<1>5. OneDeployed'
  <2>1. registered' = registered
    BY DEF Finish
  <2>2. \A r \in Revisions : release'[r] = "deployed" <=> release[r] = "deployed"
    BY <1>2
  <2>3. \A q \in Operations : attempt[q].status = "deployed" =>
          attempt'[q].status = "deployed" /\ attempt'[q].revision = attempt[q].revision
    BY <1>1 DEF CoordinatorFits
  <2> QED
    BY <2>1, <2>2, <2>3 DEF OneDeployed
<1> QED
  BY <1>3, <1>4, <1>5

\* The compare-and-set leaves one deployed release: the one that was is the previous image.
LEMMA CommitKept ==
  ASSUME ReleaseInv, NEW o \in Operations, CommitUpgrade(o)
  PROVE  ReleaseInv'
<1> USE ReleaseAssumption
    DEF ReleaseInv, ReleaseTypeOK, Attempts, Coordinators, Terminal, InFlight, Images
<1>1. /\ upgrading.operation = o /\ upgrading.pc = "decide"
      /\ registered = attempt[o].previous /\ registered' = Candidate(o)
      /\ attempt' = [attempt EXCEPT ![o].status = "deployed"]
      /\ upgrading' = Resting /\ container' = container
  BY DEF CommitUpgrade, Healthy, Upgrading, StillRegistered
<1>2. Candidate(o) \in Revisions /\ attempt[o].previous # NoImage
  BY <1>1 DEF CoordinatorFits, Candidate
<1>3. \A r \in Revisions : release'[r] =
        IF r = Candidate(o) THEN "deployed"
        ELSE IF r = attempt[o].previous /\ release[r] = "deployed" THEN "retired"
        ELSE release[r]
  BY DEF CommitUpgrade
<1>4. ReleaseTypeOK'
  <2>1. release' \in [Revisions -> {"none", "verified", "deployed", "retired", "rejected"}]
    BY DEF CommitUpgrade
  <2> QED
    BY <1>1, <1>2, <2>1 DEF Resting, Nothing, Observations
<1>5. CoordinatorFits'
  BY <1>1 DEF CoordinatorFits, Resting
<1>6. OneDeployed'
  <2>1. \A r \in Revisions : release'[r] = "deployed" <=> r = Candidate(o)
    BY <1>1, <1>3 DEF OneDeployed
  <2>2. attempt'[o].status = "deployed" /\ attempt'[o].revision = Candidate(o)
    BY <1>1 DEF Candidate
  <2> QED
    BY <1>1, <2>1, <2>2 DEF OneDeployed
<1> QED
  BY <1>4, <1>5, <1>6

\* Steps that end nothing change neither what is registered nor what is deployed.
LEMMA OngoingKept ==
  ASSUME ReleaseInv, ReleaseTypeOK', CoordinatorFits', registered' = registered,
         \A r \in Revisions : release'[r] = "deployed" <=> release[r] = "deployed",
         \A o \in Operations : attempt[o].status = "deployed" => attempt'[o] = attempt[o]
  PROVE  ReleaseInv'
BY DEF ReleaseInv, OneDeployed

\* What a deployment leaves behind can be observed.
LEMMA Observable ==
  /\ Nothing \in Observations
  /\ \A image \in Images : /\ [image |-> image, healthy |-> TRUE] \in Observations
                             /\ [image |-> image, healthy |-> FALSE] \in Observations
BY DEF Observations, Nothing

\* ResumeUpgrade and RecordPhase go on with a coordinator like this.
LEMMA CoordinatorTyped ==
  ASSUME NEW o \in Operations, NEW step \in {"build", "observe"}
  PROVE  [Resting EXCEPT !.operation = o, !.pc = step] \in Coordinators
BY Observable DEF Coordinators, Resting

\* Every step keeps the invariant; only a commit changes what is registered.
LEMMA ReleaseKept ==
  ASSUME ReleaseInv, [ReleaseNext]_releaseVars
  PROVE  ReleaseInv'
<1> USE ReleaseAssumption
    DEF ReleaseInv, ReleaseTypeOK, Attempts, Coordinators, Terminal, InFlight, Images
<1>1. CASE Die
  BY <1>1, OngoingKept DEF Die, CoordinatorFits, Resting, Nothing, Observations
<1>2. CASE Drift
  BY <1>2, OngoingKept DEF Drift, CoordinatorFits
<1>3. ASSUME NEW o \in Operations, NEW r \in Revisions, StartUpgrade(o, r)
      PROVE  ReleaseInv'
  <2>1. attempt[o].status # "deployed"
    BY <1>3 DEF StartUpgrade, NoAttempt
  <2>2. PICK started \in [status : InFlight, revision : Revisions,
                          previous : Images \cup {NoImage}] :
          /\ attempt' = [attempt EXCEPT ![o] = started]
          /\ upgrading' = ResumeUpgrade(o, started.status)
          /\ started.previous = NoImage => started.status = "building"
    <3> DEFINE s == IF attempt[o] = NoAttempt
                    THEN [status |-> "building", revision |-> r, previous |-> NoImage]
                    ELSE attempt[o]
    <3>1. attempt' = [attempt EXCEPT ![o] = s] /\ upgrading' = ResumeUpgrade(o, s.status)
      BY <1>3 DEF StartUpgrade
    <3>2. s \in [status : InFlight, revision : Revisions, previous : Images \cup {NoImage}]
      BY <1>3 DEF StartUpgrade, CoordinatorFits
    <3>3. s.previous = NoImage => s.status = "building"
      BY <1>3 DEF StartUpgrade
    <3> QED
      BY <3>1, <3>2, <3>3
  <2>3. ReleaseTypeOK'
    <3>1. upgrading' = [Resting EXCEPT !.operation = o,
                          !.pc = IF started.status = "building" THEN "build" ELSE "observe"]
      BY <2>2 DEF ResumeUpgrade
    <3>2. UNCHANGED <<release, registered, container>>
      BY <1>3 DEF StartUpgrade
    <3>3. upgrading' \in Coordinators
      <4> DEFINE step == IF started.status = "building" THEN "build" ELSE "observe"
      <4>1. /\ upgrading' = [Resting EXCEPT !.operation = o, !.pc = step]
            /\ step \in {"build", "observe"}
        BY <3>1
      <4> HIDE DEF step
      <4> QED
        BY <4>1, CoordinatorTyped
    <3> QED
      BY <2>2, <3>2, <3>3
  <2>4. CoordinatorFits'
    BY <1>3, <2>2 DEF StartUpgrade, ResumeUpgrade, Resting, CoordinatorFits
  <2> QED
    BY <1>3, <2>1, <2>2, <2>3, <2>4, OngoingKept DEF StartUpgrade
<1>4. ASSUME NEW o \in Operations, RejectBuild(o)
      PROVE  ReleaseInv'
  BY <1>4, FinishKept DEF RejectBuild, Upgrading
<1>5. ASSUME NEW o \in Operations, Preflight(o)
      PROVE  ReleaseInv'
  BY <1>5, OngoingKept DEF Preflight, Upgrading, CoordinatorFits
<1>6. ASSUME NEW o \in Operations, RecordCandidate(o)
      PROVE  ReleaseInv'
  <2>1. Candidate(o) \in Revisions /\ attempt[o].status # "deployed"
    BY <1>6 DEF RecordCandidate, Upgrading, CoordinatorFits, Candidate
  <2>2. ReleaseTypeOK'
    <3>1. /\ attempt' = [attempt EXCEPT ![o].status = "deploying", ![o].previous = registered]
          /\ release' = [release EXCEPT ![Candidate(o)] =
               IF release[Candidate(o)] = "none" THEN "verified" ELSE release[Candidate(o)]]
          /\ upgrading' = [upgrading EXCEPT !.pc = "observe"]
          /\ UNCHANGED <<registered, container>>
      BY <1>6 DEF RecordCandidate
    <3>2. release' \in [Revisions -> {"none", "verified", "deployed", "retired", "rejected"}]
      BY <2>1, <3>1
    <3>3. attempt' \in [Operations -> Attempts]
      <4>1. attempt' = [attempt EXCEPT ![o] =
              [[attempt[o] EXCEPT !.status = "deploying"] EXCEPT !.previous = registered]]
        BY <3>1
      <4>2. attempt[o] \in Attempts
        OBVIOUS
      <4> QED
        BY <4>1, <4>2
    <3>4. upgrading' \in Coordinators
      BY <3>1
    <3> QED
      BY <3>1, <3>2, <3>3, <3>4
  <2>3. CoordinatorFits'
    BY <1>6, <2>1 DEF RecordCandidate, Upgrading, CoordinatorFits
  <2> QED
    BY <1>6, <2>1, <2>2, <2>3, OngoingKept DEF RecordCandidate
<1>7. ASSUME NEW o \in Operations, Observe(o)
      PROVE  ReleaseInv'
  <2>1. PICK shown \in Observations, step \in {"decide", "redecide"} :
          upgrading' = [upgrading EXCEPT !.seen = shown, !.pc = step]
    <3>1. PICK step \in {"observe", "reobserve"}, shown \in {container, Nothing} :
            upgrading' = [upgrading EXCEPT !.seen = shown,
                            !.pc = IF step = "observe" THEN "decide" ELSE "redecide"]
      BY <1>7 DEF Observe
    <3>2. shown \in Observations
      BY Observable
    <3> QED
      BY <3>1, <3>2
  <2>2. upgrading.operation = o /\ upgrading.pc \in {"observe", "reobserve"}
    BY <1>7 DEF Observe, Upgrading
  <2>3. ReleaseTypeOK'
    BY <1>7, <2>1 DEF Observe
  <2>4. CoordinatorFits'
    BY <1>7, <2>1, <2>2 DEF Observe, CoordinatorFits
  <2> QED
    BY <1>7, <2>3, <2>4, OngoingKept DEF Observe
<1>8. ASSUME NEW o \in Operations, CommitUpgrade(o)
      PROVE  ReleaseInv'
  BY <1>8, CommitKept
<1>9. ASSUME NEW o \in Operations, CommitRefused(o)
      PROVE  ReleaseInv'
  BY <1>9, OngoingKept DEF CommitRefused, CoordinatorFits, Resting, Nothing, Observations
<1>10. ASSUME NEW o \in Operations, DeployCandidate(o)
       PROVE  ReleaseInv'
  <2>1. Candidate(o) \in Images
    BY <1>10 DEF DeployCandidate, Upgrading, CoordinatorFits, Candidate
  <2>2. /\ container' \in Observations
        /\ \E phase \in InFlight : upgrading' = Going("phase", phase)
    <3>1. \/ /\ container' = [image |-> Candidate(o), healthy |-> TRUE]
             /\ upgrading' = Going("phase", "verifying")
          \/ /\ container' \in {container, Nothing, [image |-> Candidate(o), healthy |-> FALSE],
                                [image |-> Candidate(o), healthy |-> TRUE]}
             /\ upgrading' = Going("phase", "rolling_back")
      BY <1>10 DEF DeployCandidate, Deploy
    <3>2. {container, Nothing, [image |-> Candidate(o), healthy |-> FALSE],
           [image |-> Candidate(o), healthy |-> TRUE]} \subseteq Observations
      BY <2>1, Observable
    <3> QED
      BY <3>1, <3>2
  <2>3. ReleaseTypeOK'
    BY <1>10, <2>2 DEF DeployCandidate, Going
  <2>4. CoordinatorFits'
    BY <1>10, <2>2 DEF DeployCandidate, Upgrading, Going, CoordinatorFits
  <2> QED
    BY <1>10, <2>3, <2>4, OngoingKept DEF DeployCandidate
<1>11. ASSUME NEW o \in Operations, GiveUp(o)
       PROVE  ReleaseInv'
  BY <1>11, OngoingKept DEF GiveUp, Upgrading, Going, CoordinatorFits
<1>12. ASSUME NEW o \in Operations, RecordPhase(o)
       PROVE  ReleaseInv'
  <2>1. /\ attempt[o].status # "deployed" /\ attempt[o].previous # NoImage
        /\ upgrading.next \in InFlight
    BY <1>12 DEF RecordPhase, Upgrading, CoordinatorFits
  <2>2. ReleaseTypeOK'
    <3>1. attempt' \in [Operations -> Attempts]
      BY <1>12, <2>1 DEF RecordPhase
    <3>2. upgrading' \in Coordinators
      BY <1>12, CoordinatorTyped DEF RecordPhase
    <3> QED
      BY <1>12, <2>1, <3>1, <3>2 DEF RecordPhase
  <2>3. CoordinatorFits'
    BY <1>12, <2>1 DEF RecordPhase, Upgrading, Resting, CoordinatorFits
  <2> QED
    BY <1>12, <2>1, <2>2, <2>3, OngoingKept DEF RecordPhase
<1>13. ASSUME NEW o \in Operations, Restored(o)
       PROVE  ReleaseInv'
  BY <1>13, FinishKept DEF Restored, Upgrading, CoordinatorFits
<1>14. ASSUME NEW o \in Operations, Restore(o)
       PROVE  ReleaseInv'
  <2>1. attempt[o].previous \in Images
    BY <1>14 DEF Restore, Upgrading, CoordinatorFits
  <2>2. container' \in Observations /\ upgrading' = Going("reobserve", "none")
    <3>1. {container, Nothing, [image |-> attempt[o].previous, healthy |-> FALSE],
           [image |-> attempt[o].previous, healthy |-> TRUE]} \subseteq Observations
      BY <2>1, Observable
    <3> QED
      BY <1>14, <3>1 DEF Restore, Deploy
  <2>3. ReleaseTypeOK'
    BY <1>14, <2>2 DEF Restore, Going
  <2>4. CoordinatorFits'
    BY <1>14, <2>2 DEF Restore, Upgrading, Going, CoordinatorFits
  <2> QED
    BY <1>14, <2>3, <2>4, OngoingKept DEF Restore
<1>15. ASSUME NEW o \in Operations, NotRestored(o)
       PROVE  ReleaseInv'
  BY <1>15, FinishKept DEF NotRestored, Upgrading, CoordinatorFits
<1>16. CASE UNCHANGED releaseVars
  BY <1>16 DEF releaseVars, CoordinatorFits, OneDeployed
<1> QED
  BY <1>1, <1>2, <1>3, <1>4, <1>5, <1>6, <1>7, <1>8, <1>9, <1>10, <1>11, <1>12, <1>13, <1>14,
     <1>15, <1>16
  DEF ReleaseNext

-----------------------------------------------------------------------------
\* The release that counts as deployed is the registered one, put there by an attempt that
\* ended as deployed (_deployed, _finish, _start).
THEOREM DeploymentAgreed == ReleaseSpec => []OneDeployed
<1>1. ReleaseInit => ReleaseInv
  BY ReleaseBegins
<1>2. ReleaseInv /\ [ReleaseNext]_releaseVars => ReleaseInv'
  BY ReleaseKept
<1>3. ReleaseInv => OneDeployed
  BY DEF ReleaseInv
<1> QED
  BY <1>1, <1>2, <1>3, PTL DEF ReleaseSpec

-----------------------------------------------------------------------------
(* Worktrees: prepare and cleanup lose no work.                                    *)

\* What is recorded as released is so on disk, and stays so.
ReleasedTruly ==
  /\ \A r \in Repositories : planned[r] = "released" => r \in branch /\ ~Own(r)
  /\ \A r \in Repositories : busy.job = "cleanup" /\ busy.pc = "record" /\ busy.at = r =>
       r \in branch /\ ~Own(r)

\* A cleanup has released what it is not to look at any more, or found changes in it, and
\* what it is at is not done.
CleanupAccounts ==
  busy.job = "cleanup" => \A r \in Repositories :
    /\ r \in busy.todo \/ r \in busy.blocked \/ planned[r] = "released"
    /\ busy.pc \in {"remove", "record"} /\ busy.at = r => r \in busy.todo

WorktreeInv == WorktreeTypeOK /\ ReleasedTruly /\ CleanupAccounts

-----------------------------------------------------------------------------
\* Nothing is prepared, locked or released at first.
LEMMA WorktreeBegins == WorktreeInit => WorktreeInv
BY DEF WorktreeInit, WorktreeInv, WorktreeTypeOK, Jobs, Unlocked, ReleasedTruly, CleanupAccounts

\* Every step of a job or of a worker keeps the types of the workspace and its rows.
LEMMA WorktreeTyped ==
  ASSUME WorktreeTypeOK, [WorktreeNext]_worktreeVars
  PROVE  WorktreeTypeOK'
<1> USE DEF WorktreeTypeOK, Jobs, Unlocked
<1>1. CASE FailWorkspace
  BY <1>1 DEF FailWorkspace
<1>2. CASE BeginPrepare
  BY <1>2 DEF BeginPrepare
<1>3. CASE FinishPrepare
  BY <1>3 DEF FinishPrepare
<1>4. CASE BeginCleanup
  BY <1>4 DEF BeginCleanup
<1>5. CASE FinishCleanup
  BY <1>5 DEF FinishCleanup
<1>6. CASE DieWorking
  BY <1>6 DEF DieWorking
<1>7. ASSUME NEW r \in Repositories, AddWorktree(r)
      PROVE  WorktreeTypeOK'
  BY <1>7 DEF AddWorktree, GoOn
<1>8. ASSUME NEW r \in Repositories, RefuseWorktree(r)
      PROVE  WorktreeTypeOK'
  BY <1>8 DEF RefuseWorktree, FailAt, Record, GoOn
<1>9. ASSUME NEW r \in Repositories, RecordReady(r)
      PROVE  WorktreeTypeOK'
  BY <1>9 DEF RecordReady, Record, Done
<1>10. ASSUME NEW r \in Repositories, InspectWorktree(r)
       PROVE  WorktreeTypeOK'
  <2>1. UNCHANGED <<workspace, tree, branch>> /\ busy.job = "cleanup" /\ r \in busy.todo
    BY <1>10 DEF InspectWorktree, Turn, Doing
  <2>2. CASE tree[r] = "none" /\ r \in branch /\ busy' = GoOn(r, "record") /\ UNCHANGED planned
    BY <2>1, <2>2 DEF GoOn
  <2>3. CASE busy' = GoOn(r, "remove") /\ UNCHANGED planned
    BY <2>1, <2>3 DEF GoOn
  <2>4. CASE Record(r, "cleanup_blocked") /\ busy' = [Done(r) EXCEPT !.blocked = @ \cup {r}]
    BY <2>1, <2>4 DEF Record, Done
  <2>5. CASE FailAt(r)
    BY <2>1, <2>5 DEF FailAt, Record, GoOn
  <2> QED
    BY <1>10, <2>2, <2>3, <2>4, <2>5 DEF InspectWorktree
<1>11. ASSUME NEW r \in Repositories, RemoveWorktree(r)
       PROVE  WorktreeTypeOK'
  BY <1>11 DEF RemoveWorktree, FailAt, Record, GoOn
<1>12. ASSUME NEW r \in Repositories, RecordReleased(r)
       PROVE  WorktreeTypeOK'
  BY <1>12 DEF RecordReleased, Record, Done
<1>13. ASSUME NEW r \in Repositories, Edit(r) \/ Intrude(r)
       PROVE  WorktreeTypeOK'
  BY <1>13 DEF Edit, Intrude, Own
<1>14. CASE UNCHANGED worktreeVars
  BY <1>14 DEF worktreeVars
<1> QED
  BY <1>1, <1>2, <1>3, <1>4, <1>5, <1>6, <1>7, <1>8, <1>9, <1>10, <1>11, <1>12, <1>13, <1>14
  DEF WorktreeNext

\* A repository is recorded as released only after its worktree was removed, its branch kept.
LEMMA ReleasedKept ==
  ASSUME WorktreeInv, [WorktreeNext]_worktreeVars
  PROVE  ReleasedTruly'
<1> USE WorktreeAssumption
    DEF WorktreeInv, WorktreeTypeOK, Jobs, Unlocked, ReleasedTruly, Own, Doing, Turn
<1>1. CASE \/ FailWorkspace \/ BeginPrepare \/ FinishPrepare \/ BeginCleanup \/ FinishCleanup
           \/ DieWorking
  <2>1. CASE BeginPrepare
    BY <2>1 DEF BeginPrepare
  <2>2. CASE BeginCleanup
    BY <2>2 DEF BeginCleanup
  <2>3. CASE busy' = Unlocked /\ UNCHANGED <<planned, tree, branch>>
    BY <2>3
  <2> QED
    BY <1>1, <2>1, <2>2, <2>3 DEF FailWorkspace, FinishPrepare, FinishCleanup, DieWorking
<1>2. ASSUME NEW r \in Repositories, AddWorktree(r)
      PROVE  ReleasedTruly'
  BY <1>2 DEF AddWorktree, GoOn
<1>3. ASSUME NEW r \in Repositories, RefuseWorktree(r)
      PROVE  ReleasedTruly'
  BY <1>3 DEF RefuseWorktree, FailAt, Record, GoOn
<1>4. ASSUME NEW r \in Repositories, RecordReady(r)
      PROVE  ReleasedTruly'
  BY <1>4 DEF RecordReady, Record, Done
<1>5. ASSUME NEW r \in Repositories, InspectWorktree(r)
      PROVE  ReleasedTruly'
  <2>1. UNCHANGED <<workspace, tree, branch>> /\ busy.job = "cleanup" /\ r \in busy.todo
    BY <1>5 DEF InspectWorktree, Turn, Doing
  <2>2. CASE tree[r] = "none" /\ r \in branch /\ busy' = GoOn(r, "record") /\ UNCHANGED planned
    BY <2>1, <2>2 DEF GoOn
  <2>3. CASE busy' = GoOn(r, "remove") /\ UNCHANGED planned
    BY <2>1, <2>3 DEF GoOn
  <2>4. CASE Record(r, "cleanup_blocked") /\ busy' = [Done(r) EXCEPT !.blocked = @ \cup {r}]
    BY <2>1, <2>4 DEF Record, Done
  <2>5. CASE FailAt(r)
    BY <2>1, <2>5 DEF FailAt, Record, GoOn
  <2> QED
    BY <1>5, <2>2, <2>3, <2>4, <2>5 DEF InspectWorktree
<1>6. ASSUME NEW r \in Repositories, RemoveWorktree(r)
      PROVE  ReleasedTruly'
  BY <1>6 DEF RemoveWorktree, Removable, FailAt, Record, GoOn
<1>7. ASSUME NEW r \in Repositories, RecordReleased(r)
      PROVE  ReleasedTruly'
  BY <1>7 DEF RecordReleased, Record, Done
<1>8. ASSUME NEW r \in Repositories, Edit(r) \/ Intrude(r)
      PROVE  ReleasedTruly'
  BY <1>8 DEF Edit, Intrude
<1>9. CASE UNCHANGED worktreeVars
  BY <1>9 DEF worktreeVars
<1> QED
  BY <1>1, <1>2, <1>3, <1>4, <1>5, <1>6, <1>7, <1>8, <1>9 DEF WorktreeNext

\* A cleanup under way accounts for every repository it went past.
LEMMA CleanupKept ==
  ASSUME WorktreeInv, [WorktreeNext]_worktreeVars
  PROVE  CleanupAccounts'
<1> USE WorktreeAssumption
    DEF WorktreeInv, WorktreeTypeOK, Jobs, Unlocked, CleanupAccounts, Doing, Turn
<1>1. CASE \/ FailWorkspace \/ BeginPrepare \/ FinishPrepare \/ BeginCleanup \/ FinishCleanup
           \/ DieWorking
  <2>1. CASE BeginPrepare
    BY <2>1 DEF BeginPrepare
  <2>2. CASE BeginCleanup
    BY <2>2 DEF BeginCleanup
  <2>3. CASE busy' = Unlocked /\ UNCHANGED <<planned, tree, branch>>
    BY <2>3
  <2> QED
    BY <1>1, <2>1, <2>2, <2>3 DEF FailWorkspace, FinishPrepare, FinishCleanup, DieWorking
<1>2. ASSUME NEW r \in Repositories, AddWorktree(r) \/ RefuseWorktree(r) \/ RecordReady(r)
      PROVE  CleanupAccounts'
  BY <1>2 DEF AddWorktree, RefuseWorktree, RecordReady, FailAt, Record, GoOn, Done
<1>3. ASSUME NEW r \in Repositories, InspectWorktree(r)
      PROVE  CleanupAccounts'
  <2>1. UNCHANGED <<workspace, tree, branch>> /\ busy.job = "cleanup" /\ r \in busy.todo
    BY <1>3 DEF InspectWorktree, Turn, Doing
  <2>2. CASE tree[r] = "none" /\ r \in branch /\ busy' = GoOn(r, "record") /\ UNCHANGED planned
    BY <2>1, <2>2 DEF GoOn
  <2>3. CASE busy' = GoOn(r, "remove") /\ UNCHANGED planned
    BY <2>1, <2>3 DEF GoOn
  <2>4. CASE Record(r, "cleanup_blocked") /\ busy' = [Done(r) EXCEPT !.blocked = @ \cup {r}]
    BY <2>1, <2>4 DEF Record, Done
  <2>5. CASE FailAt(r)
    BY <2>1, <2>5 DEF FailAt, Record, GoOn
  <2> QED
    BY <1>3, <2>2, <2>3, <2>4, <2>5 DEF InspectWorktree
<1>4. ASSUME NEW r \in Repositories, RemoveWorktree(r)
      PROVE  CleanupAccounts'
  <2>1. busy' = GoOn(r, "record") \/ busy' = GoOn(r, "fail")
    BY <1>4 DEF RemoveWorktree, FailAt
  <2>2. busy.at = r /\ busy.pc = "remove" /\ busy.job = "cleanup" /\ r \in busy.todo
    BY <1>4 DEF RemoveWorktree, Doing
  <2>3. planned' = planned \/ planned' = [planned EXCEPT ![r] = "error"]
    BY <1>4 DEF RemoveWorktree, FailAt, Record
  <2> QED
    BY <2>1, <2>2, <2>3 DEF GoOn
<1>5. ASSUME NEW r \in Repositories, RecordReleased(r)
      PROVE  CleanupAccounts'
  BY <1>5 DEF RecordReleased, Record, Done
<1>6. ASSUME NEW r \in Repositories, Edit(r) \/ Intrude(r)
      PROVE  CleanupAccounts'
  BY <1>6 DEF Edit, Intrude
<1>7. CASE UNCHANGED worktreeVars
  BY <1>7 DEF worktreeVars
<1> QED
  BY <1>1, <1>2, <1>3, <1>4, <1>5, <1>6, <1>7 DEF WorktreeNext

-----------------------------------------------------------------------------
\* A step removes work only where it found none that is uncommitted.
LEMMA StepKeepsWork ==
  ASSUME WorktreeInv, [WorktreeNext]_worktreeVars
  PROVE  /\ \A r \in Repositories :
              /\ tree[r] = "dirty" => tree'[r] \in {"dirty", "clean"}
              /\ r \in branch => r \in branch'
         /\ workspace' = "released" /\ workspace # "released" =>
              \A r \in Repositories : r \in branch' /\ tree'[r] \in {"none", "unowned"}
<1> USE DEF WorktreeInv, WorktreeTypeOK
<1>1. \A r \in Repositories : tree[r] = "dirty" => tree'[r] \in {"dirty", "clean"}
  BY DEF WorktreeNext, FailWorkspace, BeginPrepare, FinishPrepare, BeginCleanup, FinishCleanup,
     DieWorking, AddWorktree, RefuseWorktree, RecordReady, InspectWorktree, RemoveWorktree,
     RecordReleased, Edit, Intrude, Own, Removable, worktreeVars
<1>2. branch \subseteq branch'
  BY DEF WorktreeNext, FailWorkspace, BeginPrepare, FinishPrepare, BeginCleanup, FinishCleanup,
     DieWorking, AddWorktree, RefuseWorktree, RecordReady, InspectWorktree, RemoveWorktree,
     RecordReleased, Edit, Intrude, worktreeVars
<1>3. ASSUME workspace' = "released", workspace # "released"
      PROVE  \A r \in Repositories : r \in branch' /\ tree'[r] \in {"none", "unowned"}
  <2>1. FinishCleanup
    BY <1>3 DEF WorktreeNext, FailWorkspace, BeginPrepare, FinishPrepare, BeginCleanup,
       DieWorking, AddWorktree, RefuseWorktree, RecordReady, InspectWorktree, RemoveWorktree,
       RecordReleased, Edit, Intrude, worktreeVars
  <2>2. \A r \in Repositories : planned[r] = "released"
    BY <1>3, <2>1 DEF FinishCleanup, CleanupAccounts
  <2> QED
    BY <2>1, <2>2 DEF FinishCleanup, ReleasedTruly, Own
<1> QED
  BY <1>1, <1>2, <1>3

\* Every step of prepare, cleanup, a worker or somebody else.
LEMMA WorktreesKept == WorktreeInv /\ [WorktreeNext]_worktreeVars => WorktreeInv'
  BY WorktreeTyped, ReleasedKept, CleanupKept DEF WorktreeInv

\* No step of prepare or cleanup, nor of a worker meanwhile, loses uncommitted changes or a
\* branch, and a workspace is released only when nothing of it is left but its branches
\* (git_worktrees.py cleanup, _release_repository).
THEOREM WorkIsKept == WorktreeSpec => WorkKept
<1>1. WorktreeInit => WorktreeInv
  BY WorktreeBegins
<1>2. WorktreeInv /\ [WorktreeNext]_worktreeVars => WorktreeInv'
  BY WorktreesKept
<1>3. WorktreeInv /\ [WorktreeNext]_worktreeVars =>
        [/\ \A r \in Repositories :
              /\ tree[r] = "dirty" => tree'[r] \in {"dirty", "clean"}
              /\ r \in branch => r \in branch'
         /\ workspace' = "released" /\ workspace # "released" =>
              \A r \in Repositories : r \in branch' /\ tree'[r] \in {"none", "unowned"}]_worktreeVars
  BY StepKeepsWork
<1> QED
  BY <1>1, <1>2, <1>3, PTL DEF WorktreeSpec, WorkKept

-----------------------------------------------------------------------------
(* Notifications: each sponsor is told once, and what the gate decided.             *)

\* A message was posted under its row's operation id, for every sponsor who is not still to
\* be told of it.
Told ==
  /\ \A r \in Recipients :
       posted[r] \subseteq {<<"approval", "approval">>, <<"progress", "progress">>}
  /\ \A t \in {"approval", "progress"} :
       outbox[t] = "dispatched" => \A r \in Recipients : <<t, t>> \in posted[r]
  /\ \A p \in Posters : job[p].kind \in {"approval", "progress"} =>
       \A r \in Recipients \ job[p].todo : <<job[p].kind, job[p].kind>> \in posted[r]

\* One process at a time works on a row of the outbox, or on the gate.
OneEach ==
  \A p, q \in Posters :
    job[p].kind \in Topics \cup {"deciding"} /\ job[q].kind = job[p].kind => p = q

\* What a process is about to say of the gate is true of it, and stays so.
GateSaid ==
  /\ inTime => approval \in Decisions
  /\ approval = "timed_out" => overdue
  /\ outbox["approval-status"] # "absent" => approval \in Decisions \cup {"timed_out"}
  /\ \A p \in Posters :
       /\ job[p].kind \in {"decide", "deciding"} => job[p].status \in Decisions
       /\ job[p].kind = "deciding" => approval = "pending"
       /\ job[p].kind = "expire" => job[p].status = "expired" /\ overdue /\ ~inTime
       /\ job[p].kind = "approval-status" => job[p].status = StatusOf

\* The cards say what the gate decided, or that it was too late for that.
CardsTrue ==
  /\ \A r \in Recipients :
       /\ outbox["approval-status"] = "dispatched" => card[r] \notin {"none", "open"}
       /\ card[r] \in Decisions => approval = card[r]
       /\ card[r] = "expired" => overdue /\ ~inTime
  /\ \A p \in Posters : job[p].kind = "approval-status" =>
       \A r \in Recipients \ job[p].todo : card[r] \notin {"none", "open"}

\* The inductive invariant of the notices.
NoticeInv == NoticeTypeOK /\ Told /\ OneEach /\ GateSaid /\ CardsTrue

\* The rows of jobs.
JobRow ==
  [kind : {"idle", "expire", "decide", "deciding"} \cup Topics, todo : SUBSET Recipients,
   status : {"none", "expired"} \cup Decisions]

\* Nothing was asked for or sent at first.
LEMMA NoticeBegins == NoticeInit => NoticeInv
<1> SUFFICES ASSUME NoticeInit PROVE NoticeInv
  OBVIOUS
<1>1. /\ NoJob \in JobRow /\ NoJob.kind = "idle"
      /\ job \in [Posters -> JobRow] /\ \A p \in Posters : job[p] = NoJob
  BY DEF NoticeInit, NoJob, JobRow
<1>2. /\ outbox \in [Topics -> {"absent", "waiting", "dispatched"}]
      /\ \A t \in Topics : outbox[t] = "absent"
  BY DEF NoticeInit
<1>3. /\ card \in [Recipients -> {"none", "open", "expired"} \cup Decisions]
      /\ \A r \in Recipients : card[r] = "none" /\ posted[r] = {}
  BY DEF NoticeInit
<1>4. NoticeTypeOK
  BY <1>1, <1>2, <1>3 DEF NoticeInit, NoticeTypeOK, JobRow, Topics
<1>5. Told /\ OneEach
  BY <1>1, <1>2, <1>3 DEF Told, OneEach, Topics
<1>6. GateSaid /\ CardsTrue
  BY <1>1, <1>2, <1>3 DEF NoticeInit, GateSaid, CardsTrue, Topics, Decisions
<1> QED
  BY <1>4, <1>5, <1>6 DEF NoticeInv

\* A process takes up a job that is nothing of the outbox, or drops the one it has.
LEMMA JobTaken ==
  ASSUME NoticeInv, NEW p \in Posters, NEW row \in JobRow, job' = [job EXCEPT ![p] = row],
         UNCHANGED <<approval, overdue, inTime, outbox, posted, card, blocked>>,
         row.kind \in {"idle", "expire", "decide", "deciding"},
         row.kind \in {"decide", "deciding"} => row.status \in Decisions,
         row.kind = "deciding" => approval = "pending" /\ ~GateLocked,
         row.kind = "expire" => row.status = "expired" /\ overdue /\ ~inTime
  PROVE  NoticeInv'
<1>1. /\ job \in [Posters -> JobRow] /\ job' \in [Posters -> JobRow] /\ job'[p] = row
      /\ \A q \in Posters \ {p} : job'[q] = job[q]
  BY DEF NoticeInv, NoticeTypeOK, JobRow
<1>2. row.kind \notin Topics
  BY DEF Topics
<1>3. NoticeTypeOK'
  BY <1>1, <1>2 DEF NoticeInv, NoticeTypeOK, JobRow
<1>4. Told'
  BY <1>1, <1>2 DEF NoticeInv, Told, Topics
<1>5. OneEach'
  BY <1>1, <1>2 DEF NoticeInv, OneEach, GateLocked
<1>6. GateSaid' /\ CardsTrue'
  BY <1>1, <1>2 DEF NoticeInv, GateSaid, CardsTrue, StatusOf, Topics
<1> QED
  BY <1>3, <1>4, <1>5, <1>6 DEF NoticeInv

\* A dispatcher takes a row that nobody else has.
LEMMA DispatchTaken ==
  ASSUME NoticeInv, NEW p \in Posters, NEW t \in Topics, Dispatch(p, t)
  PROVE  NoticeInv'
<1> DEFINE row == [kind |-> t, todo |-> Recipients,
                   status |-> IF t = "approval-status" THEN StatusOf ELSE "none"]
<1>1. /\ outbox[t] = "waiting" /\ job[p].kind = "idle"
      /\ \A q \in Posters : job[q].kind # t
      /\ job' = [job EXCEPT ![p] = row]
      /\ UNCHANGED <<approval, overdue, inTime, outbox, posted, card, blocked>>
  BY DEF Dispatch, Deliverable
<1>2. t = "approval-status" => StatusOf \in {"expired"} \cup Decisions
  BY <1>1 DEF NoticeInv, GateSaid, StatusOf
<1>3. /\ row \in JobRow /\ row.kind = t /\ row.todo = Recipients
      /\ t = "approval-status" => row.status = StatusOf
  BY <1>2 DEF JobRow
<1> HIDE DEF row
<1>4. /\ job \in [Posters -> JobRow] /\ job' \in [Posters -> JobRow] /\ job'[p] = row
      /\ \A q \in Posters \ {p} : job'[q] = job[q]
  BY <1>1, <1>3 DEF NoticeInv, NoticeTypeOK, JobRow
<1>5. NoticeTypeOK'
  BY <1>1, <1>3, <1>4 DEF NoticeInv, NoticeTypeOK, JobRow
<1>6. Told' /\ OneEach'
  BY <1>1, <1>3, <1>4 DEF NoticeInv, Told, OneEach
<1>7. GateSaid'
  BY <1>1, <1>3, <1>4 DEF NoticeInv, GateSaid, StatusOf, Topics
<1>8. CardsTrue'
  BY <1>1, <1>3, <1>4 DEF NoticeInv, CardsTrue
<1> QED
  BY <1>5, <1>6, <1>7, <1>8 DEF NoticeInv

\* A sponsor gets the message, or has it; the card opens at most.
LEMMA PostKept ==
  ASSUME NoticeInv, NEW p \in Posters, NEW r \in Recipients, Post(p, r)
  PROVE  NoticeInv'
<1>1. /\ job[p].kind \in {"approval", "progress"} /\ r \in job[p].todo
      /\ posted' = [posted EXCEPT ![r] = @ \cup {<<job[p].kind, job[p].kind>>}]
      /\ card' \in {card, [card EXCEPT ![r] = "open"]} /\ (card' # card => card[r] = "none")
      /\ job' = [job EXCEPT ![p].todo = @ \ {r}]
      /\ UNCHANGED <<approval, overdue, inTime, outbox, blocked>>
  BY DEF Post, PostOnce, OperationId
<1>2. /\ job \in [Posters -> JobRow] /\ DOMAIN posted = Recipients
      /\ card \in [Recipients -> {"none", "open", "expired"} \cup Decisions]
  BY DEF NoticeInv, NoticeTypeOK, JobRow
<1>3. /\ job' \in [Posters -> JobRow] /\ job'[p].kind = job[p].kind
      /\ job'[p].todo = job[p].todo \ {r}
      /\ job'[p].status = job[p].status /\ \A q \in Posters \ {p} : job'[q] = job[q]
  BY <1>1, <1>2 DEF JobRow
<1>4. NoticeTypeOK'
  BY <1>1, <1>2, <1>3 DEF NoticeInv, NoticeTypeOK, JobRow
<1>5. /\ posted'[r] = posted[r] \cup {<<job[p].kind, job[p].kind>>}
      /\ \A s \in Recipients \ {r} : posted'[s] = posted[s]
  BY <1>1, <1>2 DEF NoticeInv, Told
<1>6. Told'
  BY <1>1, <1>3, <1>5 DEF NoticeInv, Told
<1>7. OneEach' /\ GateSaid'
  BY <1>1, <1>3 DEF NoticeInv, OneEach, GateSaid, StatusOf, Topics
<1>8. CardsTrue'
  <2>1. \A s \in Recipients : card'[s] = card[s] \/ (card[s] = "none" /\ card'[s] = "open")
    BY <1>1, <1>2
  <2>2. \A q \in Posters : job'[q].kind = job[q].kind
          /\ (job[q].kind = "approval-status" => job'[q] = job[q])
    BY <1>1, <1>3
  <2> QED
    BY <1>1, <2>1, <2>2 DEF NoticeInv, CardsTrue, Decisions
<1> QED
  BY <1>4, <1>6, <1>7, <1>8 DEF NoticeInv

\* A card is given the status that the process has to say.
LEMMA UpdateCardKept ==
  ASSUME NoticeInv, NEW p \in Posters, NEW r \in Recipients, UpdateCard(p, r)
  PROVE  NoticeInv'
<1>1. /\ job[p].kind \in {"approval-status", "expire"} /\ r \in job[p].todo
      /\ posted' = [posted EXCEPT ![r] = @ \cup {<<"approval", "approval">>}]
      /\ card' = [card EXCEPT ![r] = job[p].status]
      /\ job' = [job EXCEPT ![p].todo = @ \ {r}]
      /\ UNCHANGED <<approval, overdue, inTime, outbox, blocked>>
  BY DEF UpdateCard, PostOnce, OperationId
<1>2. /\ job \in [Posters -> JobRow] /\ DOMAIN posted = Recipients
      /\ card \in [Recipients -> {"none", "open", "expired"} \cup Decisions]
  BY DEF NoticeInv, NoticeTypeOK, JobRow
<1>3. /\ job' \in [Posters -> JobRow] /\ job'[p].kind = job[p].kind
      /\ job'[p].todo = job[p].todo \ {r}
      /\ job'[p].status = job[p].status /\ \A q \in Posters \ {p} : job'[q] = job[q]
  BY <1>1, <1>2 DEF JobRow
<1>4. /\ job[p].status \in {"expired"} \cup Decisions
      /\ job[p].status \in Decisions => approval = job[p].status
      /\ job[p].status = "expired" => overdue /\ ~inTime
  <2>1. CASE job[p].kind = "expire"
    BY <2>1 DEF NoticeInv, GateSaid, Decisions
  <2>2. CASE job[p].kind = "approval-status"
    <3>1. outbox["approval-status"] = "waiting" /\ job[p].status = StatusOf
      BY <2>2 DEF NoticeInv, NoticeTypeOK, GateSaid, Topics
    <3> QED
      BY <3>1 DEF NoticeInv, GateSaid, StatusOf, Decisions
  <2> QED
    BY <1>1, <2>1, <2>2
<1>5. card'[r] = job[p].status /\ \A s \in Recipients \ {r} : card'[s] = card[s]
  BY <1>1, <1>2
<1>6. NoticeTypeOK'
  BY <1>1, <1>2, <1>3, <1>4 DEF NoticeInv, NoticeTypeOK, JobRow
<1>7. Told'
  <2>1. /\ posted'[r] = posted[r] \cup {<<"approval", "approval">>}
        /\ \A s \in Recipients \ {r} : posted'[s] = posted[s]
    BY <1>1, <1>2
  <2> QED
    BY <1>1, <1>3, <2>1 DEF NoticeInv, Told
<1>8. OneEach' /\ GateSaid'
  BY <1>1, <1>3 DEF NoticeInv, OneEach, GateSaid, StatusOf, Topics
<1>9. CardsTrue'
  BY <1>1, <1>3, <1>4, <1>5 DEF NoticeInv, CardsTrue, Decisions
<1> QED
  BY <1>6, <1>7, <1>8, <1>9 DEF NoticeInv

\* A row is dispatched when every sponsor was told.
LEMMA DispatchedKept ==
  ASSUME NoticeInv, NEW p \in Posters, MarkDispatched(p)
  PROVE  NoticeInv'
<1>1. /\ job[p].kind \in Topics /\ job[p].todo = {}
      /\ outbox' = [outbox EXCEPT ![job[p].kind] = "dispatched"]
      /\ job' = [job EXCEPT ![p] = NoJob]
      /\ UNCHANGED <<approval, overdue, inTime, posted, card, blocked>>
  BY DEF MarkDispatched
<1>2. /\ job \in [Posters -> JobRow] /\ NoJob \in JobRow /\ outbox[job[p].kind] = "waiting"
      /\ outbox \in [Topics -> {"absent", "waiting", "dispatched"}]
  BY <1>1 DEF NoticeInv, NoticeTypeOK, JobRow, NoJob
<1>3. /\ job' \in [Posters -> JobRow] /\ job'[p] = NoJob /\ NoJob.kind = "idle"
      /\ \A q \in Posters \ {p} : job'[q] = job[q] /\ job[q].kind # job[p].kind
      /\ outbox'[job[p].kind] = "dispatched"
      /\ \A t \in Topics \ {job[p].kind} : outbox'[t] = outbox[t]
  BY <1>1, <1>2 DEF NoticeInv, OneEach, NoJob
<1>4. NoticeTypeOK'
  BY <1>1, <1>2, <1>3 DEF NoticeInv, NoticeTypeOK, JobRow, Topics
<1>5. Told'
  BY <1>1, <1>3 DEF NoticeInv, Told, Topics
<1>6. OneEach'
  BY <1>1, <1>3 DEF NoticeInv, OneEach, Topics
<1>7. GateSaid'
  BY <1>1, <1>2, <1>3 DEF NoticeInv, GateSaid, StatusOf, Topics
<1>8. CardsTrue'
  BY <1>1, <1>3 DEF NoticeInv, CardsTrue, Topics
<1> QED
  BY <1>4, <1>5, <1>6, <1>7, <1>8 DEF NoticeInv

\* The gate is requested, decided or timed out, and a row tells of it.
LEMMA GateKept ==
  ASSUME NoticeInv, \/ RequestApproval \/ Deadline \/ PublishProgress \/ TimeoutGate
                    \/ BlockOrUnblock \/ \E p \in Posters : CommitDecision(p)
  PROVE  NoticeInv'
<1>1. CASE RequestApproval
  <2>1. /\ approval = "none" /\ approval' = "pending"
        /\ outbox' = [outbox EXCEPT !["approval"] = "waiting"]
        /\ UNCHANGED <<overdue, inTime, posted, card, job, blocked>>
    BY <1>1 DEF RequestApproval, AppendEvent
  <2>2. outbox["approval-status"] = "absent" /\ ~inTime
    BY <2>1 DEF NoticeInv, NoticeTypeOK, GateSaid, Topics, Decisions
  <2>3. NoticeTypeOK' /\ Told' /\ OneEach'
    BY <2>1 DEF NoticeInv, NoticeTypeOK, Told, OneEach, Topics, Decisions
  <2>4. \A p \in Posters : job[p].kind \notin {"approval-status", "deciding"}
    BY <2>1, <2>2 DEF NoticeInv, NoticeTypeOK, GateSaid, Topics
  <2>5. GateSaid' /\ CardsTrue'
    BY <2>1, <2>2, <2>4 DEF NoticeInv, NoticeTypeOK, GateSaid, CardsTrue, Topics, Decisions
  <2> QED
    BY <2>3, <2>5 DEF NoticeInv
<1>2. CASE Deadline
  BY <1>2 DEF Deadline, NoticeInv, NoticeTypeOK, Told, OneEach, GateSaid, CardsTrue, StatusOf
<1>3. CASE PublishProgress
  <2>1. /\ outbox["progress"] = "absent"
        /\ outbox' = [outbox EXCEPT !["progress"] = "waiting"]
        /\ UNCHANGED <<approval, overdue, inTime, posted, card, job, blocked>>
    BY <1>3 DEF PublishProgress, AppendEvent
  <2> QED
    BY <2>1 DEF NoticeInv, NoticeTypeOK, Told, OneEach, GateSaid, CardsTrue, StatusOf, Topics
<1>4. CASE TimeoutGate
  <2>1. /\ approval = "pending" /\ overdue /\ ~GateLocked /\ approval' = "timed_out"
        /\ outbox' = [outbox EXCEPT !["approval-status"] = "waiting"]
        /\ UNCHANGED <<overdue, inTime, posted, card, job, blocked>>
    BY <1>4 DEF TimeoutGate, AppendEvent
  <2>2. /\ outbox["approval-status"] = "absent" /\ ~inTime
        /\ \A p \in Posters : job[p].kind \notin {"approval-status", "deciding"}
    BY <2>1 DEF NoticeInv, NoticeTypeOK, GateSaid, Topics, Decisions, GateLocked
  <2>3. NoticeTypeOK' /\ Told' /\ OneEach'
    BY <2>1 DEF NoticeInv, NoticeTypeOK, Told, OneEach, Topics
  <2>4. GateSaid' /\ CardsTrue'
    BY <2>1, <2>2 DEF NoticeInv, NoticeTypeOK, GateSaid, CardsTrue, Topics, Decisions
  <2> QED
    BY <2>3, <2>4 DEF NoticeInv
<1>5. CASE BlockOrUnblock
  BY <1>5 DEF BlockOrUnblock, NoticeInv, NoticeTypeOK, Told, OneEach, GateSaid, CardsTrue, StatusOf
<1>6. ASSUME NEW p \in Posters, CommitDecision(p)
      PROVE  NoticeInv'
  <2>1. /\ job[p].kind = "deciding" /\ approval' = job[p].status /\ inTime' = ~overdue
        /\ outbox' = [outbox EXCEPT !["approval-status"] = "waiting"]
        /\ job' = [job EXCEPT ![p] = NoJob]
        /\ UNCHANGED <<overdue, posted, card, blocked>>
    BY <1>6 DEF CommitDecision, AppendEvent
  <2>2. /\ outbox["approval-status"] = "absent" /\ ~inTime /\ approval = "pending"
        /\ job[p].status \in Decisions
        /\ \A q \in Posters : job[q].kind # "approval-status"
        /\ \A q \in Posters \ {p} : job[q].kind # "deciding"
    BY <2>1 DEF NoticeInv, NoticeTypeOK, GateSaid, OneEach, Topics, Decisions
  <2>3. /\ job \in [Posters -> JobRow] /\ NoJob \in JobRow /\ job'[p] = NoJob
        /\ \A q \in Posters \ {p} : job'[q] = job[q] /\ NoJob.kind = "idle"
    BY <2>1 DEF NoticeInv, NoticeTypeOK, JobRow, NoJob
  <2>4. job'[p].kind = "idle"
    BY <2>3 DEF NoJob
  <2>5. NoticeTypeOK'
    BY <2>1, <2>2, <2>3, <2>4 DEF NoticeInv, NoticeTypeOK, JobRow, Topics
  <2>6. Told' /\ OneEach'
    BY <2>1, <2>3, <2>4 DEF NoticeInv, Told, OneEach, Topics
  <2>7. GateSaid' /\ CardsTrue'
    BY <2>1, <2>2, <2>3, <2>4 DEF NoticeInv, NoticeTypeOK, GateSaid, CardsTrue, Topics, Decisions
  <2> QED
    BY <2>5, <2>6, <2>7 DEF NoticeInv
<1> QED
  BY <1>1, <1>2, <1>3, <1>4, <1>5, <1>6

\* Every step keeps the invariant.
LEMMA NoticeKept == NoticeInv /\ [NoticeNext]_noticeVars => NoticeInv'
<1> SUFFICES ASSUME NoticeInv, [NoticeNext]_noticeVars PROVE NoticeInv'
  OBVIOUS
<1>1. CASE UNCHANGED noticeVars
  BY <1>1 DEF noticeVars, NoticeInv, NoticeTypeOK, Told, OneEach, GateSaid, CardsTrue, StatusOf
<1>2. CASE NoticeNext
  <2>0. job \in [Posters -> JobRow] /\ NoJob \in JobRow /\ NoJob.kind = "idle"
    BY DEF NoticeInv, NoticeTypeOK, JobRow, NoJob
  <2>1. ASSUME NEW p \in Posters, FailJob(p) \/ AnswerExpired(p)
        PROVE  NoticeInv'
    BY <2>0, <2>1, JobTaken DEF FailJob, AnswerExpired
  <2>2. ASSUME NEW p \in Posters, BeginDecision(p)
        PROVE  NoticeInv'
    <3>1. CASE approval = "pending" /\ ~overdue
      <4>1. PICK row \in JobRow : row = [job[p] EXCEPT !.kind = "deciding"]
        BY <2>0 DEF JobRow
      <4>2. row.kind = "deciding" /\ row.status = job[p].status
        BY <2>0, <4>1 DEF JobRow
      <4>3. job[p].status \in Decisions /\ ~GateLocked
        BY <2>2 DEF BeginDecision, NoticeInv, GateSaid
      <4>4. /\ job' = [job EXCEPT ![p] = row]
            /\ UNCHANGED <<approval, overdue, inTime, outbox, posted, card, blocked>>
        BY <2>2, <3>1, <4>1 DEF BeginDecision
      <4> QED
        BY <3>1, <4>2, <4>3, <4>4, JobTaken
    <3>2. CASE ~(approval = "pending" /\ ~overdue)
      BY <2>0, <2>2, <3>2, JobTaken DEF BeginDecision
    <3> QED
      BY <3>1, <3>2
  <2>3. ASSUME NEW p \in Posters, NEW decision \in Decisions, RequestDecision(p, decision)
        PROVE  NoticeInv'
    <3>1. PICK row \in JobRow : row = [NoJob EXCEPT !.kind = "decide", !.status = decision]
      BY <2>0 DEF JobRow
    <3>2. row.kind = "decide" /\ row.status = decision
      BY <3>1 DEF NoJob
    <3> QED
      BY <2>3, <3>1, <3>2, JobTaken DEF RequestDecision
  <2>4. ASSUME NEW p \in Posters, NEW decision \in Decisions, AnswerCard(p, decision)
        PROVE  NoticeInv'
    <3>0. /\ [kind |-> "expire", todo |-> Recipients, status |-> "expired"] \in JobRow
          /\ [kind |-> "decide", todo |-> {}, status |-> decision] \in JobRow
      BY DEF JobRow
    <3>1. PICK row \in JobRow :
            row = IF Expired THEN [kind |-> "expire", todo |-> Recipients, status |-> "expired"]
                  ELSE [kind |-> "decide", todo |-> {}, status |-> decision]
      BY <3>0
    <3>2. /\ row.kind \in {"expire", "decide"} /\ (row.kind = "decide" => row.status = decision)
          /\ row.kind = "expire" => row.status = "expired" /\ Expired
      BY <3>1
    <3>3. Expired => overdue /\ ~inTime
      BY DEF Expired, NoticeInv, GateSaid, Decisions
    <3> QED
      BY <2>4, <3>1, <3>2, <3>3, JobTaken DEF AnswerCard
  <2> QED
    BY <1>2, <2>1, <2>2, <2>3, <2>4, GateKept, DispatchTaken, PostKept, UpdateCardKept, DispatchedKept
    DEF NoticeNext
<1> QED
  BY <1>1, <1>2

\* Each sponsor is told once of what was dispatched, and no card says of the gate what is not
\* so (dispatch_one, _approval_delivery, _expired), however deliveries fail and repeat.
THEOREM SponsorsToldOnce == NoticeInit /\ [][NoticeNext]_noticeVars => []SponsorsTold
<1>1. ASSUME NoticeInv
      PROVE  SponsorsTold
  <2>1. ASSUME NEW r \in Recipients, NEW t \in {"approval", "progress"}
        PROVE  /\ Cardinality({m \in posted[r] : m[1] = t}) <= 1
               /\ outbox[t] = "dispatched" => \E m \in posted[r] : m[1] = t
    <3>1. {m \in posted[r] : m[1] = t} \subseteq {<<t, t>>}
      BY <1>1 DEF NoticeInv, Told
    <3>2. IsFiniteSet({<<t, t>>}) /\ Cardinality({<<t, t>>}) = 1
      BY FS_Singleton
    <3>3. Cardinality({m \in posted[r] : m[1] = t}) <= 1
      BY <3>1, <3>2, FS_Subset
    <3>4. outbox[t] = "dispatched" => \E m \in posted[r] : m[1] = t
      BY <1>1 DEF NoticeInv, Told
    <3> QED
      BY <3>3, <3>4
  <2> QED
    BY <1>1, <2>1 DEF NoticeInv, CardsTrue, SponsorsTold
<1> QED
  BY <1>1, NoticeBegins, NoticeKept, PTL

-----------------------------------------------------------------------------
(* WarmEngines: operations have their engine to themselves, and none is left open.  *)

\* The rows of thread.
ThreadRow == [pc : ThreadSteps, engine : Engines \cup {NoEngine}]

\* The steps at which a thread has the operation lock of its engine, whatever happens.
Holding == {"check", "begin", "operate", "fatal", "leave", "recheck", "unlock"}

\* An operation that has the engine, unless abort_active took it.
Running(t) == thread[t].pc \in {"begin", "operate"} /\ thread[t].engine \notin aborted

\* Which threads have an engine, and which of them its operation lock.
EnginesHeld ==
  /\ \A t \in Threads :
       thread[t].engine = NoEngine <=> thread[t].pc \in {"idle", "get", "opening", "open"}
  /\ \A t \in Threads : thread[t].pc \in Holding => operator[thread[t].engine] = t
  /\ \A t \in Threads, e \in Engines : operator[e] = t =>
       thread[t].engine = e /\ thread[t].pc \in Holding \cup {"close"}

\* Nobody has heard of an engine before the one who opens it publishes it.
EnginesFresh ==
  /\ \A e \in Engines : engineState[e] = "unopened" =>
       e # entry /\ e \notin aborted /\ \A t \in Threads : thread[t].engine # e
  /\ \A t \in Threads : thread[t].pc = "publish" =>
       /\ engineState[thread[t].engine] = "open"
       /\ entry # thread[t].engine /\ thread[t].engine \notin aborted
       /\ \A u \in Threads \ {t} : thread[u].engine # thread[t].engine

\* An operation has the engine of the pool, or the last one of a pool that was closed.
RunsAlone ==
  /\ entry # NoEngine => engineState[entry] = "open"
  /\ poolClosed => entry = NoEngine
  /\ \A t \in Threads : Running(t) =>
       /\ engineState[thread[t].engine] = "open"
       /\ entry = thread[t].engine \/ poolClosed
  /\ \A t, u \in Threads : Running(t) /\ Running(u) => t = u

\* An engine is closed by one who has its lock or took it from its operation, and every
\* engine that left the pool has one that will.
EnginesClosed ==
  /\ \A t \in Threads : thread[t].pc \in {"fatal", "close", "drain"} => entry # thread[t].engine
  /\ \A t \in Threads : thread[t].pc = "close" =>
       operator[thread[t].engine] = t \/ thread[t].engine \in aborted
  /\ \A e \in Engines : engineState[e] = "open" /\ entry # e =>
       \E t \in Threads : /\ thread[t].engine = e
                          /\ thread[t].pc \in {"publish", "fatal", "close", "drain"}

\* The inductive invariant of the pool.
EngineInv == EngineTypeOK /\ EnginesHeld /\ EnginesFresh /\ RunsAlone /\ EnginesClosed

\* Thread t is at a step now, about an engine, and the others are where they were.
Moved(t, step, e) ==
  /\ thread' \in [Threads -> ThreadRow]
  /\ thread'[t].pc = step /\ thread'[t].engine = e
  /\ \A u \in Threads \ {t} : thread'[u] = thread[u]

\* How the steps of the pool move a thread.
LEMMA ThreadMoved ==
  ASSUME thread \in [Threads -> ThreadRow], NEW t \in Threads, NEW step \in ThreadSteps
  PROVE  /\ Step(t, step) => Moved(t, step, thread[t].engine)
         /\ \A e \in Engines \cup {NoEngine} : StepOn(t, step, e) => Moved(t, step, e)
         /\ Rest(t) => Moved(t, "idle", NoEngine)
<1>1. ASSUME Step(t, step)
      PROVE  Moved(t, step, thread[t].engine)
  BY <1>1 DEF Step, Moved, ThreadRow
<1>2. ASSUME NEW e \in Engines \cup {NoEngine}, StepOn(t, step, e)
      PROVE  Moved(t, step, e)
  BY <1>2 DEF StepOn, Moved, ThreadRow
<1>3. ASSUME Rest(t)
      PROVE  Moved(t, "idle", NoEngine)
  BY <1>3 DEF Rest, Moved, ThreadRow, IdleThread, ThreadSteps
<1> QED
  BY <1>1, <1>2, <1>3

\* The pool opens empty.
LEMMA EnginesBegin == EngineInit => EngineInv
<1> SUFFICES ASSUME EngineInit PROVE EngineInv
  OBVIOUS
<1>1. /\ thread \in [Threads -> ThreadRow]
      /\ \A t \in Threads : thread[t].pc = "idle" /\ thread[t].engine = NoEngine
      /\ \A e \in Engines : operator[e] = NoThread /\ engineState[e] = "unopened"
  BY DEF EngineInit, IdleThread, ThreadRow, ThreadSteps
<1>2. EngineTypeOK
  BY <1>1 DEF EngineInit, EngineTypeOK, ThreadRow
<1> QED
  BY <1>1, <1>2, EngineAssumption
  DEF EngineInit, EngineInv, EnginesHeld, EnginesFresh, RunsAlone, EnginesClosed, Running, Holding

\* A step of a thread towards an engine, or away, that touches nothing else.
LEMMA LookKept ==
  ASSUME EngineInv, NEW t \in Threads, NEW step \in ThreadSteps, NEW e \in Engines \cup {NoEngine},
         Moved(t, step, e),
         UNCHANGED <<entry, engineState, operator, aborted, poolClosed>>,
         active' \in SUBSET Engines, opening' \in Threads \cup {NoThread},
         thread[t].pc \in {"idle", "get", "opening", "open", "begin", "operate"},
         \/ /\ thread[t].pc \in {"idle", "get", "opening", "open"}
            /\ \/ step \in {"idle", "get", "opening", "open"} /\ e = NoEngine
               \/ step \in {"lock", "evict"} /\ e = entry /\ entry # NoEngine
         \/ /\ thread[t].pc = "begin" /\ step = "operate" /\ e = thread[t].engine
         \/ /\ thread[t].pc = "operate" /\ step = "leave" /\ e = thread[t].engine
  PROVE  EngineInv'
<1>1. EngineTypeOK'
  BY DEF EngineInv, EngineTypeOK, Moved, ThreadRow
<1>2. EnginesHeld'
  BY EngineAssumption DEF EngineInv, EngineTypeOK, EnginesHeld, Moved, ThreadRow, Holding
<1>3. EnginesFresh'
  BY DEF EngineInv, EngineTypeOK, EnginesFresh, EnginesHeld, RunsAlone, Moved, ThreadRow
<1>4. RunsAlone'
  BY DEF EngineInv, RunsAlone, Running, Moved
<1>5. EnginesClosed'
  BY DEF EngineInv, EngineTypeOK, EnginesClosed, EnginesHeld, Moved, ThreadRow
<1> QED
  BY <1>1, <1>2, <1>3, <1>4, <1>5 DEF EngineInv

\* What leaves all but the fine steps of the opening to LookKept.
LEMMA SearchKept ==
  ASSUME EngineInv, NEW t \in Threads,
         \/ Get(t) \/ EnterOpening(t) \/ RunOperation(t) \/ FindEntry(t) \/ BeginOperation(t)
         \/ EndOperation(t, FALSE) \/ (OpenEngine(t) /\ engineState' = engineState)
  PROVE  EngineInv'
<1>1. /\ thread \in [Threads -> ThreadRow] /\ entry \in Engines \cup {NoEngine}
      /\ active \in SUBSET Engines /\ opening \in Threads \cup {NoThread}
      /\ thread[t].pc \in {"idle", "get", "opening", "open"} => thread[t].engine = NoEngine
      /\ thread[t].pc = "begin" => thread[t].engine \in Engines
      /\ thread[t].engine \in Engines \cup {NoEngine}
      /\ {"idle", "get", "opening", "open", "lock", "evict", "operate", "leave"} \subseteq ThreadSteps
  BY DEF EngineInv, EngineTypeOK, EnginesHeld, ThreadRow, ThreadSteps
<1>2. CASE Get(t)
  BY <1>1, <1>2, ThreadMoved, LookKept DEF Get, AtStep
<1>3. CASE EnterOpening(t)
  BY <1>1, <1>3, ThreadMoved, LookKept DEF EnterOpening, AtStep
<1>4. CASE RunOperation(t)
  BY <1>1, <1>4, ThreadMoved, LookKept DEF RunOperation, AtStep
<1>5. CASE FindEntry(t)
  BY <1>1, <1>5, ThreadMoved, LookKept DEF FindEntry, AtStep
<1>6. CASE BeginOperation(t)
  BY <1>1, <1>6, ThreadMoved, LookKept DEF BeginOperation, AtStep
<1>7. CASE EndOperation(t, FALSE)
  BY <1>1, <1>7, ThreadMoved, LookKept DEF EndOperation, AtStep
<1>8. CASE (OpenEngine(t) /\ engineState' = engineState)
  <2>1. AtStep(t, "open") /\ UNCHANGED <<entry, operator, active, aborted, poolClosed>>
    BY <1>8 DEF OpenEngine
  <2>2. opening' = NoThread /\ Rest(t)
    BY <1>8 DEF OpenEngine, EngineInv, EngineTypeOK
  <2> QED
    BY <1>1, <1>8, <2>1, <2>2, ThreadMoved, LookKept DEF AtStep
<1> QED
  BY <1>2, <1>3, <1>4, <1>5, <1>6, <1>7, <1>8

\* An engine is opened, and then published or closed again.
LEMMA OpeningKept ==
  ASSUME EngineInv, NEW t \in Threads, OpenEngine(t) \/ PublishEngine(t)
  PROVE  EngineInv'
<1>1. /\ thread \in [Threads -> ThreadRow] /\ engineState \in [Engines -> {"unopened", "open", "closed"}]
      /\ {"idle", "publish", "lock"} \subseteq ThreadSteps /\ NoEngine \notin Engines
      /\ entry \in Engines \cup {NoEngine}
  BY EngineAssumption DEF EngineInv, EngineTypeOK, ThreadRow, ThreadSteps
<1>2. ASSUME OpenEngine(t), engineState' # engineState
      PROVE  EngineInv'
  <2>1. PICK e \in Engines :
          /\ engineState[e] = "unopened"
          /\ engineState' = [engineState EXCEPT ![e] = "open"]
          /\ StepOn(t, "publish", e) /\ opening' = opening
    BY <1>2 DEF OpenEngine
  <2>2. /\ thread[t].pc = "open" /\ thread[t].engine = NoEngine
        /\ UNCHANGED <<entry, operator, active, aborted, poolClosed>>
    BY <1>2 DEF OpenEngine, AtStep, EngineInv, EnginesHeld
  <2>3. /\ Moved(t, "publish", e)
        /\ engineState'[e] = "open" /\ \A o \in Engines \ {e} : engineState'[o] = engineState[o]
    BY <1>1, <2>1, ThreadMoved
  <2>4. /\ e # entry /\ e \notin aborted /\ \A u \in Threads : thread[u].engine # e
    BY <2>1 DEF EngineInv, EnginesFresh
  <2>5. EngineTypeOK'
    BY <2>1, <2>2, <2>3 DEF EngineInv, EngineTypeOK, Moved, ThreadRow
  <2>6. EnginesHeld'
    BY <1>1, <2>2, <2>3, <2>4 DEF EngineInv, EnginesHeld, Moved, Holding
  <2>7. EnginesFresh'
    BY <1>1, <2>2, <2>3, <2>4 DEF EngineInv, EnginesFresh, EnginesHeld, Moved, ThreadRow
  <2>8. RunsAlone'
    BY <1>1, <2>2, <2>3, <2>4 DEF EngineInv, RunsAlone, EnginesHeld, Running, Moved, ThreadRow
  <2>9. EnginesClosed'
    BY <1>1, <2>2, <2>3, <2>4 DEF EngineInv, EnginesClosed, Moved, ThreadRow
  <2> QED
    BY <2>5, <2>6, <2>7, <2>8, <2>9 DEF EngineInv
<1>3. ASSUME PublishEngine(t)
      PROVE  EngineInv'
  <2>1. PICK e \in Engines : e = thread[t].engine
    BY <1>1, <1>3 DEF PublishEngine, AtStep, EngineInv, EnginesHeld, ThreadRow
  <2>2. /\ thread[t].pc = "publish" /\ engineState[e] = "open" /\ entry # e /\ e \notin aborted
        /\ \A u \in Threads \ {t} : thread[u].engine # e
        /\ UNCHANGED <<operator, active, aborted, poolClosed>> /\ opening' \in {NoThread}
    BY <1>3, <2>1 DEF PublishEngine, AtStep, EngineInv, EnginesFresh
  <2>3. CASE Publishable
    <3>1. /\ entry = NoEngine /\ ~poolClosed /\ entry' = e /\ engineState' = engineState
          /\ Moved(t, "lock", e)
      BY <1>1, <1>3, <2>1, <2>3, ThreadMoved DEF PublishEngine, Publishable
    <3>2. EngineTypeOK'
      BY <2>2, <3>1 DEF EngineInv, EngineTypeOK, Moved, ThreadRow
    <3>3. EnginesHeld' /\ EnginesFresh'
      BY <1>1, <2>1, <2>2, <3>1 DEF EngineInv, EnginesHeld, EnginesFresh, Moved, Holding, ThreadRow
    <3>4. RunsAlone'
      BY <1>1, <2>1, <2>2, <3>1 DEF EngineInv, RunsAlone, EnginesHeld, Running, Moved, ThreadRow
    <3>5. EnginesClosed'
      BY <1>1, <2>1, <2>2, <3>1 DEF EngineInv, EnginesClosed, Moved, ThreadRow
    <3> QED
      BY <3>2, <3>3, <3>4, <3>5 DEF EngineInv
  <2>4. CASE ~Publishable
    <3>1. /\ engineState' = [engineState EXCEPT ![e] = "closed"] /\ entry' = entry
          /\ IF poolClosed THEN Rest(t) ELSE StepOn(t, "lock", entry)
          /\ ~poolClosed => entry \in Engines
      BY <1>1, <1>3, <2>1, <2>4 DEF PublishEngine, Publishable
    <3>2. /\ IF poolClosed THEN Moved(t, "idle", NoEngine) ELSE Moved(t, "lock", entry)
          /\ engineState'[e] = "closed" /\ \A o \in Engines \ {e} : engineState'[o] = engineState[o]
      BY <1>1, <3>1, ThreadMoved
    <3>3. EngineTypeOK'
      BY <1>1, <2>2, <3>1, <3>2 DEF EngineInv, EngineTypeOK, Moved, ThreadRow
    <3>4. EnginesHeld' /\ EnginesFresh'
      BY <1>1, <2>1, <2>2, <3>1, <3>2, EngineAssumption
      DEF EngineInv, EngineTypeOK, EnginesHeld, EnginesFresh, RunsAlone, Moved, Holding, ThreadRow
    <3>5. RunsAlone'
      BY <1>1, <2>1, <2>2, <3>1, <3>2
      DEF EngineInv, RunsAlone, EnginesHeld, Running, Moved, ThreadRow
    <3>6. EnginesClosed'
      BY <1>1, <2>1, <2>2, <3>1, <3>2 DEF EngineInv, EnginesClosed, Moved, ThreadRow
    <3> QED
      BY <3>3, <3>4, <3>5, <3>6 DEF EngineInv
  <2> QED
    BY <2>3, <2>4
<1> QED
  BY <1>2, <1>3, SearchKept

\* The operation lock is taken, or given back with nothing left to do.
LEMMA LockKept ==
  ASSUME EngineInv, NEW t \in Threads,
         \/ LockEntry(t) \/ CheckEntry(t) \/ LeaveEntry(t) \/ UnlockEntry(t)
         \/ (EvictEntry(t) /\ ~IsCurrent(t))
  PROVE  EngineInv'
<1>1. /\ thread \in [Threads -> ThreadRow] /\ operator \in [Engines -> Threads \cup {NoThread}]
      /\ {"check", "recheck", "close", "begin", "get"} \subseteq ThreadSteps
      /\ NoEngine \notin Engines /\ NoThread \notin Threads
      /\ UNCHANGED <<entry, engineState, aborted, opening, poolClosed>>
      /\ active' \in SUBSET Engines
  BY EngineAssumption
  DEF EngineInv, EngineTypeOK, ThreadRow, ThreadSteps, LockEntry, CheckEntry, LeaveEntry, UnlockEntry, EvictEntry
<1>2. PICK e \in Engines : e = thread[t].engine
  BY <1>1 DEF EngineInv, EnginesHeld, ThreadRow, AtStep, LockEntry, CheckEntry, LeaveEntry, UnlockEntry, EvictEntry
<1>3. CASE LockEntry(t)
  <2>1. PICK step \in {"check", "recheck", "close"} :
          /\ thread[t].pc = IF step = "check" THEN "lock" ELSE IF step = "recheck" THEN "evict" ELSE "drain"
          /\ Step(t, step)
    BY <1>3 DEF LockEntry, AtStep
  <2>2. operator[e] = NoThread /\ operator' = [operator EXCEPT ![e] = t]
    BY <1>2, <1>3 DEF LockEntry
  <2>3. /\ Moved(t, step, e) /\ operator' \in [Engines -> Threads \cup {NoThread}]
        /\ operator'[e] = t /\ \A o \in Engines \ {e} : operator'[o] = operator[o]
    BY <1>1, <1>2, <2>1, <2>2, ThreadMoved
  <2>4. EngineTypeOK'
    BY <1>1, <2>3 DEF EngineInv, EngineTypeOK, Moved, ThreadRow
  <2>5. EnginesHeld'
    BY <1>1, <1>2, <2>1, <2>2, <2>3 DEF EngineInv, EnginesHeld, Moved, Holding, ThreadRow
  <2>6. EnginesFresh' /\ RunsAlone'
    BY <1>1, <1>2, <2>1, <2>3 DEF EngineInv, EnginesFresh, RunsAlone, Running, Moved
  <2>7. EnginesClosed'
    BY <1>1, <1>2, <2>1, <2>2, <2>3 DEF EngineInv, EnginesClosed, Moved, ThreadRow
  <2> QED
    BY <2>4, <2>5, <2>6, <2>7 DEF EngineInv
<1>4. CASE CheckEntry(t) /\ IsCurrent(t)
  <2>1. /\ thread[t].pc = "check" /\ entry = e /\ operator' = operator /\ Step(t, "begin")
    BY <1>2, <1>4 DEF CheckEntry, AtStep, IsCurrent
  <2>2. Moved(t, "begin", e)
    BY <1>1, <1>2, <2>1, ThreadMoved
  <2>3. EngineTypeOK'
    BY <1>1, <2>1, <2>2 DEF EngineInv, EngineTypeOK, Moved, ThreadRow
  <2>7. EnginesFresh'
    BY <1>1, <1>2, <2>1, <2>2 DEF EngineInv, EnginesFresh, Moved
  <2>8. EnginesClosed'
    BY <1>1, <1>2, <2>1, <2>2 DEF EngineInv, EnginesClosed, Moved
  <2>4. EnginesHeld'
    BY <1>1, <1>2, <2>1, <2>2 DEF EngineInv, EnginesHeld, Moved, Holding
  <2>5. \A u \in Threads : Running(u) => u = t
    BY <1>1, <1>2, <2>1 DEF EngineInv, RunsAlone, EnginesHeld, Running, Holding
  <2>6. RunsAlone'
    BY <1>1, <1>2, <2>1, <2>2, <2>5 DEF EngineInv, RunsAlone, Running, Moved
  <2> QED
    BY <2>3, <2>4, <2>6, <2>7, <2>8 DEF EngineInv
<1>5. ASSUME NEW step \in {"idle", "get"}, Moved(t, step, NoEngine),
             thread[t].pc \in {"check", "leave", "unlock", "recheck"},
             operator' = [operator EXCEPT ![e] = NoThread]
      PROVE  EngineInv'
  <2>1. /\ operator' \in [Engines -> Threads \cup {NoThread}] /\ operator[e] = t
        /\ operator'[e] = NoThread /\ \A o \in Engines \ {e} : operator'[o] = operator[o]
    BY <1>1, <1>2, <1>5 DEF EngineInv, EnginesHeld, Holding
  <2>2. EngineTypeOK'
    BY <1>1, <1>5, <2>1 DEF EngineInv, EngineTypeOK, Moved, ThreadRow
  <2>3. EnginesHeld'
    BY <1>1, <1>2, <1>5, <2>1 DEF EngineInv, EnginesHeld, Moved, Holding, ThreadRow
  <2>4. EnginesFresh' /\ RunsAlone'
    BY <1>1, <1>2, <1>5, <2>1
    DEF EngineInv, EnginesFresh, EnginesHeld, RunsAlone, Running, Moved, ThreadRow
  <2>5. EnginesClosed'
    BY <1>1, <1>2, <1>5, <2>1 DEF EngineInv, EnginesClosed, EnginesHeld, Moved, ThreadRow, Holding
  <2> QED
    BY <2>2, <2>3, <2>4, <2>5 DEF EngineInv
<1>6. CASE CheckEntry(t) /\ ~IsCurrent(t)
  BY <1>1, <1>2, <1>5, <1>6, ThreadMoved DEF CheckEntry, AtStep
<1>7. CASE LeaveEntry(t)
  BY <1>1, <1>2, <1>5, <1>7, ThreadMoved DEF LeaveEntry, AtStep
<1>8. CASE UnlockEntry(t)
  BY <1>1, <1>2, <1>5, <1>8, ThreadMoved DEF UnlockEntry, AtStep
<1>9. CASE EvictEntry(t) /\ ~IsCurrent(t)
  BY <1>1, <1>2, <1>5, <1>9, ThreadMoved DEF EvictEntry, AtStep
<1> QED
  BY <1>3, <1>4, <1>6, <1>7, <1>8, <1>9

\* The engine of the pool is taken out of it: to be closed, or to wait for its operation.
LEMMA TakenKept ==
  ASSUME EngineInv, NEW t \in Threads,
         \/ EndOperation(t, TRUE) \/ Abort(t) \/ Shutdown(t)
         \/ (EvictEntry(t) /\ IsCurrent(t))
  PROVE  EngineInv'
<1>1. /\ thread \in [Threads -> ThreadRow] /\ entry \in Engines \cup {NoEngine}
      /\ {"fatal", "close", "drain"} \subseteq ThreadSteps
      /\ NoEngine \notin Engines /\ NoThread \notin Threads
      /\ UNCHANGED <<engineState, operator, active, opening>>
  BY EngineAssumption
  DEF EngineInv, EngineTypeOK, ThreadRow, ThreadSteps, EndOperation, Abort, Shutdown, EvictEntry
<1>2. ASSUME EndOperation(t, TRUE)
      PROVE  EngineInv'
  <2>1. /\ thread[t].pc = "operate" /\ Step(t, "fatal") /\ UNCHANGED <<aborted, poolClosed>>
        /\ entry' = IF entry = thread[t].engine THEN NoEngine ELSE entry
    BY <1>2 DEF EndOperation, AtStep, IsCurrent
  <2>2. PICK e \in Engines : e = thread[t].engine
    BY <1>1, <2>1 DEF EngineInv, EnginesHeld, ThreadRow
  <2>3. Moved(t, "fatal", e)
    BY <1>1, <2>1, <2>2, ThreadMoved
  <2>4. \A u \in Threads \ {t} : Running(u) => thread[u].engine # e
    BY <1>1, <2>1, <2>2 DEF EngineInv, EnginesHeld, Running, Holding
  <2>5. EngineTypeOK'
    BY <1>1, <2>1, <2>3 DEF EngineInv, EngineTypeOK, Moved, ThreadRow
  <2>6. EnginesHeld'
    BY <1>1, <2>1, <2>2, <2>3 DEF EngineInv, EnginesHeld, Moved, Holding
  <2>7. EnginesFresh'
    BY <1>1, <2>1, <2>2, <2>3 DEF EngineInv, EnginesFresh, EnginesHeld, Moved, ThreadRow
  <2>8. RunsAlone'
    BY <1>1, <2>1, <2>2, <2>3, <2>4 DEF EngineInv, RunsAlone, Running, Moved
  <2>9. EnginesClosed'
    BY <1>1, <2>1, <2>2, <2>3 DEF EngineInv, EnginesClosed, EnginesHeld, Moved, ThreadRow
  <2> QED
    BY <2>5, <2>6, <2>7, <2>8, <2>9 DEF EngineInv
<1>3. ASSUME NEW e \in Engines, entry = e, entry' = NoEngine,
             NEW step \in {"close", "drain"}, Moved(t, step, e),
             poolClosed' \in BOOLEAN, aborted' \in {aborted, aborted \cup {e}},
             \/ thread[t].pc = "recheck" /\ step = "close" /\ thread[t].engine = e
             \/ thread[t].pc = "idle",
             poolClosed => poolClosed',
             step = "close" => operator[e] = t \/ e \in aborted',
             \/ poolClosed' /\ aborted' = aborted
             \/ operator[e] = t
             \/ e \in aborted'
      PROVE  EngineInv'
  <2>1. EngineTypeOK'
    BY <1>1, <1>3 DEF EngineInv, EngineTypeOK, Moved, ThreadRow
  <2>2. EnginesHeld'
    BY <1>1, <1>3 DEF EngineInv, EnginesHeld, Moved, Holding
  <2>3. EnginesFresh'
    BY <1>1, <1>3 DEF EngineInv, EnginesFresh, EnginesHeld, RunsAlone, Moved, ThreadRow
  <2>4. RunsAlone'
    <3>1. \A u \in Threads : Running(u)' => u # t /\ Running(u) /\ thread'[u] = thread[u]
      BY <1>3 DEF Running, Moved
    <3>2. \A u \in Threads : Running(u) => thread[u].engine = e
      BY <1>1, <1>3 DEF EngineInv, RunsAlone
    <3>3. \A u \in Threads : Running(u)' => poolClosed'
      BY <1>1, <1>3, <3>1, <3>2 DEF EngineInv, EnginesHeld, Running, Holding
    <3> QED
      BY <1>1, <1>3, <3>1, <3>3 DEF EngineInv, RunsAlone
  <2>5. EnginesClosed'
    BY <1>1, <1>3 DEF EngineInv, EnginesClosed, EnginesHeld, Moved, ThreadRow
  <2> QED
    BY <2>1, <2>2, <2>3, <2>4, <2>5 DEF EngineInv
<1>4. CASE Abort(t)
  <2>1. /\ entry \in Engines /\ entry' = NoEngine /\ thread[t].pc = "idle"
        /\ aborted' = aborted \cup {entry} /\ StepOn(t, "close", entry) /\ poolClosed' = poolClosed
    BY <1>1, <1>4 DEF Abort, Abortable, AtStep
  <2>2. Moved(t, "close", entry)
    BY <1>1, <2>1, ThreadMoved
  <2>3. poolClosed' \in BOOLEAN
    BY <2>1 DEF EngineInv, EngineTypeOK
  <2> QED
    BY <1>3, <2>1, <2>2, <2>3
<1>5. CASE EvictEntry(t) /\ IsCurrent(t)
  <2>1. /\ thread[t].pc = "recheck" /\ entry = thread[t].engine /\ entry' = NoEngine
        /\ Step(t, "close") /\ UNCHANGED <<aborted, poolClosed>>
    BY <1>5 DEF EvictEntry, AtStep, IsCurrent
  <2>2. /\ entry \in Engines /\ operator[entry] = t /\ Moved(t, "close", entry)
        /\ poolClosed \in BOOLEAN
    BY <1>1, <2>1, ThreadMoved DEF EngineInv, EngineTypeOK, EnginesHeld, Holding, ThreadRow
  <2> QED
    BY <1>3, <2>1, <2>2
<1>6. CASE Shutdown(t)
  <2>1. /\ thread[t].pc = "idle" /\ poolClosed' = TRUE /\ entry' = NoEngine /\ aborted' = aborted
        /\ IF entry = NoEngine THEN thread' = thread ELSE StepOn(t, "drain", entry)
    BY <1>6 DEF Shutdown, AtStep
  <2>2. CASE entry = NoEngine
    BY <1>1, <2>1, <2>2
    DEF EngineInv, EngineTypeOK, EnginesHeld, EnginesFresh, RunsAlone, EnginesClosed, Running
  <2>3. CASE entry # NoEngine
    <3>1. Moved(t, "drain", entry)
      BY <1>1, <2>1, <2>3, ThreadMoved
    <3> QED
      BY <1>1, <1>3, <2>1, <2>3, <3>1
  <2> QED
    BY <2>2, <2>3
<1> QED
  BY <1>2, <1>4, <1>5, <1>6

\* An engine is closed by the thread that is to.
LEMMA CloseEngineKept ==
  ASSUME EngineInv, NEW t \in Threads, CloseEngine(t)
  PROVE  EngineInv'
<1>1. /\ thread \in [Threads -> ThreadRow]
      /\ engineState \in [Engines -> {"unopened", "open", "closed"}]
      /\ {"leave", "unlock"} \subseteq ThreadSteps
      /\ NoEngine \notin Engines /\ NoThread \notin Threads
      /\ UNCHANGED <<entry, operator, active, aborted, opening, poolClosed>>
  BY EngineAssumption DEF EngineInv, EngineTypeOK, ThreadRow, ThreadSteps, CloseEngine
<1>2. PICK e \in Engines : e = thread[t].engine
  BY <1>1 DEF EngineInv, EnginesHeld, ThreadRow, AtStep, CloseEngine
<1>3. /\ thread[t].pc \in {"fatal", "close"}
      /\ engineState' = [engineState EXCEPT ![e] = "closed"]
      /\ \/ thread[t].pc = "fatal" /\ Step(t, "leave")
         \/ thread[t].pc = "close" /\ IF operator[e] = t THEN Step(t, "unlock") ELSE Rest(t)
  BY <1>2 DEF CloseEngine, AtStep
<1>4. /\ engineState'[e] = "closed" /\ \A o \in Engines \ {e} : engineState'[o] = engineState[o]
      /\ engineState' \in [Engines -> {"unopened", "open", "closed"}]
  BY <1>1, <1>3
<1>5. PICK step \in {"leave", "unlock", "idle"}, left \in {e, NoEngine} :
        /\ Moved(t, step, left)
        /\ step = "idle" <=> left = NoEngine
        /\ step # "idle" => operator[e] = t
        /\ step = "idle" => thread[t].pc = "close" /\ operator[e] # t
  BY <1>1, <1>2, <1>3, ThreadMoved DEF EngineInv, EnginesHeld, Holding
<1>6. \A u \in Threads : Running(u) => u # t /\ thread[u].engine # e
  BY <1>1, <1>2, <1>3 DEF EngineInv, EnginesHeld, EnginesClosed, Running, Holding
<1>7. EngineTypeOK'
  BY <1>1, <1>4, <1>5 DEF EngineInv, EngineTypeOK, Moved, ThreadRow
<1>8. EnginesHeld'
  BY <1>1, <1>2, <1>3, <1>5 DEF EngineInv, EnginesHeld, Moved, Holding, ThreadRow
<1>9. EnginesFresh'
  <2>1. \A o \in Engines : engineState'[o] = "unopened" => engineState[o] = "unopened" /\ o # NoEngine
    BY <1>1, <1>4
  <2>2. \A u \in Threads : thread'[u].engine \in {thread[u].engine, NoEngine}
    BY <1>2, <1>5 DEF Moved
  <2>3. \A u \in Threads : thread'[u].pc = "publish" =>
          thread'[u] = thread[u] /\ thread[u].engine \in Engines \ {e}
    BY <1>1, <1>2, <1>3, <1>5 DEF EngineInv, EnginesHeld, EnginesFresh, Moved, ThreadRow
  <2> QED
    BY <1>1, <1>4, <2>1, <2>2, <2>3 DEF EngineInv, EnginesFresh
<1>10. RunsAlone'
  BY <1>1, <1>2, <1>3, <1>4, <1>5, <1>6
  DEF EngineInv, RunsAlone, EnginesHeld, EnginesClosed, Running, Moved, ThreadRow
<1>11. EnginesClosed'
  <2>1. \A u \in Threads : thread'[u].pc \in {"publish", "fatal", "close", "drain"} =>
          u # t /\ thread'[u] = thread[u]
    BY <1>5 DEF Moved
  <2>2. \A u \in Threads \ {t} : thread'[u] = thread[u]
    BY <1>5 DEF Moved
  <2>3. \A o \in Engines : engineState'[o] = "open" => o # e /\ engineState[o] = "open"
    BY <1>4
  <2> QED
    BY <1>1, <1>2, <2>1, <2>2, <2>3 DEF EngineInv, EnginesClosed
<1> QED
  BY <1>7, <1>8, <1>9, <1>10, <1>11 DEF EngineInv

\* Every step of the pool, whichever thread takes it.
LEMMA EnginesKept == EngineInv /\ [EngineNext]_engineVars => EngineInv'
<1> SUFFICES ASSUME EngineInv, [EngineNext]_engineVars PROVE EngineInv'
  OBVIOUS
<1>1. CASE UNCHANGED engineVars
  BY <1>1 DEF engineVars, EngineInv, EngineTypeOK, EnginesHeld, EnginesFresh, RunsAlone,
              EnginesClosed, Running
<1>2. ASSUME NEW t \in Threads, PoolStep(t)
      PROVE  EngineInv'
  <2>1. ASSUME NEW fatal \in BOOLEAN, EndOperation(t, fatal)
        PROVE  EngineInv'
    <3>1. fatal = TRUE \/ fatal = FALSE
      OBVIOUS
    <3> QED
      BY <2>1, <3>1, SearchKept, TakenKept
  <2>2. ASSUME EvictEntry(t)
        PROVE  EngineInv'
    BY <2>2, LockKept, TakenKept
  <2> QED
    BY <1>2, <2>1, <2>2, SearchKept, OpeningKept, LockKept, CloseEngineKept DEF PoolStep
<1>3. ASSUME NEW t \in Threads, RunOperation(t) \/ FindEntry(t) \/ Abort(t) \/ Shutdown(t)
      PROVE  EngineInv'
  BY <1>3, SearchKept, TakenKept
<1> QED
  BY <1>1, <1>2, <1>3 DEF EngineNext

\* However threads run, discard, hibernate and abort operations or shut the pool down, an
\* operation has an open engine to itself unless abort_active took it, and an engine that is
\* open and not in the pool has a thread that will close it.
THEOREM EnginesAllAccounted == EngineInit /\ [][EngineNext]_engineVars => []EnginesAccounted
<1>1. ASSUME EngineInv
      PROVE  EnginesAccounted
  BY <1>1 DEF EngineInv, RunsAlone, EnginesClosed, EnginesAccounted, Running, AtStep
<1> QED
  BY <1>1, EnginesKept, EnginesBegin, PTL

-----------------------------------------------------------------------------
(* The supervisor *)

\* A run has an outcome once it is reported; of what was reported late, never a success.
RunsSound ==
  \A c \in Incidents :
    /\ run[c].status # "reported" => run[c].outcome = "none" /\ ~run[c].applied
    /\ run[c].status = "reported" => run[c].outcome \in Outcomes /\ ~run[c].leased

\* A process that works on an incident knows it; it applies only what was reported, and
\* marks only what is in the history.
ProcessesSound ==
  \A p \in Supervisors :
    /\ sup[p].pc \in {"launch", "report"} => sup[p].incident \in Incidents
    /\ sup[p].pc = "report" => sup[p].result \in Outcomes \cup {"over"}
    /\ \A c \in sup[p].todo : run[c].status = "reported"
    /\ sup[p].pc = "mark" => sup[p].applying \in Incidents /\ Replayed(sup[p].applying)
         /\ run[sup[p].applying].status = "reported"

\* The inductive invariant of the recovery supervisor.
SupervisorInv == LifecycleInv /\ RecoveryTypeOK /\ RunsSound /\ ProcessesSound /\ RequestFollowsRun

\* The rows of supervised runs.
RunRow ==
  [status : {"none", "running", "reported"}, owner : Supervisors \cup {None},
   claims : 0..MaxClaims, leased : BOOLEAN, late : BOOLEAN,
   outcome : Outcomes \cup {"none"}, applied : BOOLEAN]

\* The rows of supervisor processes.
SupervisorRow ==
  [pc : {"expire", "read", "apply", "mark", "claim", "launch", "report"},
   todo : SUBSET Incidents, applying : Incidents \cup {None}, incident : Incidents \cup {None},
   token : 0..MaxClaims, lost : BOOLEAN, result : Outcomes \cup {"over", "none"}]

\* No run was requested at first, and every supervisor is idle.
LEMMA SupervisorBegins == Init => SupervisorInv
<1> SUFFICES ASSUME Init PROVE SupervisorInv
  OBVIOUS
<1>1. LifecycleInv
  BY LifecycleBegins, PolicyBegins DEF Init, LifecycleInv
<1>2. RecoveryTypeOK
  BY <1>1, RecoveryAssumption
  DEF Init, RecoveryTypeOK, LifecycleInv, PolicyInv, NoRun, Idle, Outcomes
<1>3. RunsSound /\ ProcessesSound
  BY DEF Init, RunsSound, ProcessesSound, NoRun, Idle
<1>4. RequestFollowsRun
  BY DEF Init, LifecycleInit, RequestFollowsRun, NoRun, Outcomes
<1> QED
  BY <1>1, <1>2, <1>3, <1>4 DEF SupervisorInv

\* What the supervisor does to the lifecycle is what the policy takes.
LEMMA ImplementsPolicy == [Next]_vars => [PolicyNext]_lifecycleVars
<1>1. \A p \in Supervisors, c \in Incidents : Apply(p, c) => [PolicyNext]_lifecycleVars
  BY DEF Apply, PolicyNext
<1>2. \A p \in Supervisors : SupervisorStep(p) => [PolicyNext]_lifecycleVars
  BY <1>1 DEF SupervisorStep, ExpireDeadlines, ReadReported, ApplyRefused, MarkApplied, Claim,
     NothingToClaim, Launched, Report, ReportEchoed, ReportRefused
<1> QED
  BY <1>2 DEF Next, HeartbeatRefused, LeaseExpires, DeadlinePasses, Crash, PolicyNext, vars

\* The history of attempts only grows, and only the attempt of recovery decides a request.
LEMMA HistoryGrows ==
  ASSUME LifecycleInv, LifecycleNext
  PROVE  \A c \in Incidents : /\ attempts[c] \subseteq attempts'[c]
                              /\ request'[c] \in Outcomes => request[c] = request'[c]
<1> USE DEF LifecycleInv, PolicyInv, TypeOK, Outcomes
<1>1. ASSUME NEW c \in Incidents, NEW stage \in Stages, NEW correction \in 0..3,
             AttemptFailed(c, stage, correction) \/ AttemptSucceeded(c, stage, correction)
      PROVE  \A d \in Incidents : /\ attempts[d] \subseteq attempts'[d]
                                  /\ request'[d] \in Outcomes => request[d] = request'[d]
  <2>1. \A d \in Incidents : attempts[d] \subseteq attempts'[d]
    BY <1>1 DEF AttemptFailed, AttemptSucceeded, Recorded
  <2>2. request' \in {request, [request EXCEPT ![c] = "pending"]}
    BY <1>1 DEF AttemptFailed, AttemptSucceeded
  <2> QED
    BY <2>1, <2>2
<1>2. UNCHANGED <<attempts, request>> => \A c \in Incidents :
        /\ attempts[c] \subseteq attempts'[c]
        /\ request'[c] \in Outcomes => request[c] = request'[c]
  OBVIOUS
<1> QED
  BY <1>1, <1>2
  DEF LifecycleNext, CreateWorkItem, Read, Activate, Complete, Fail, OpenGate, DecideGate, Start,
      SetRoutable, policyVars

\* Where the runs stay, a process may go on to a sound place of its own.
LEMMA ProcessMoves ==
  ASSUME SupervisorInv, LifecycleInv', UNCHANGED <<lifecycleVars, run>>,
         NEW p \in Supervisors, NEW row \in SupervisorRow, sup' = [sup EXCEPT ![p] = row],
         crashes' \in 0..MaxCrashes,
         row.pc \in {"launch", "report"} => row.incident \in Incidents,
         row.pc = "report" => row.result \in Outcomes \cup {"over"},
         \A c \in row.todo : run[c].status = "reported",
         row.pc # "mark"
  PROVE  SupervisorInv'
<1> USE DEF SupervisorInv
<1>1. RecoveryTypeOK'
  BY DEF RecoveryTypeOK, LifecycleInv, PolicyInv, SupervisorRow
<1>2. RunsSound' /\ RequestFollowsRun'
  BY DEF RunsSound, RequestFollowsRun, Replayed, lifecycleVars
<1>3. ProcessesSound'
  <2>1. sup'[p] = row /\ \A q \in Supervisors \ {p} : sup'[q] = sup[q]
    BY DEF RecoveryTypeOK
  <2>2. \A c : Replayed(c) <=> Replayed(c)'
    BY DEF Replayed, lifecycleVars
  <2> QED
    BY <2>1, <2>2 DEF ProcessesSound
<1> QED
  BY <1>1, <1>2, <1>3

\* A run that is not reported may change, and a reported one may be marked.
LEMMA RunMoves ==
  ASSUME SupervisorInv, LifecycleInv', UNCHANGED <<lifecycleVars, crashes>>,
         run' \in [Incidents -> RunRow],
         \A c \in Incidents : run[c].status = "reported" => run'[c].status = "reported"
           /\ run'[c].outcome = run[c].outcome /\ run'[c].late = run[c].late
           /\ run'[c].leased = run[c].leased,
         \A c \in Incidents : run'[c].applied => run[c].applied \/ Replayed(c),
         \A c \in Incidents : run'[c].leased => run'[c].status = "running" /\ ~run'[c].late,
         \A c \in Incidents : run'[c].status = "reported" => run'[c].outcome \in Outcomes
           /\ (run'[c].outcome = "succeeded" => ~run'[c].late),
         \A c \in Incidents : run'[c].status # "reported" =>
           run'[c].outcome = "none" /\ ~run'[c].applied,
         sup' \in [Supervisors -> SupervisorRow],
         \A p \in Supervisors :
           /\ sup'[p].pc \in {"launch", "report"} => sup'[p].incident \in Incidents
           /\ sup'[p].pc = "report" => sup'[p].result \in Outcomes \cup {"over"}
           /\ \A c \in sup'[p].todo : run[c].status = "reported"
           /\ sup'[p].pc = "mark" => sup'[p] = sup[p]
  PROVE  SupervisorInv'
<1> USE DEF SupervisorInv
<1>1. \A c : Replayed(c) <=> Replayed(c)'
  BY DEF Replayed, lifecycleVars
<1>2. RecoveryTypeOK'
  BY DEF RecoveryTypeOK, LifecycleInv, PolicyInv, SupervisorRow, RunRow
<1>3. RunsSound'
  BY DEF RunsSound
<1>4. ProcessesSound'
  <2>1. \A p \in Supervisors : sup'[p].todo \subseteq Incidents
    BY DEF SupervisorRow
  <2> QED
    BY <1>1, <2>1 DEF ProcessesSound
<1>5. RequestFollowsRun'
  <2>1. \A c \in Incidents : Replayed(c) => request[c] \in Outcomes
    BY DEF LifecycleInv, PolicyInv, HistoryExact, Replayed, Outcomes
  <2>2. request' = request
    BY DEF lifecycleVars
  <2>3. \A c \in Incidents : run'[c].outcome = "succeeded" => run'[c].status = "reported"
    OBVIOUS
  <2> QED
    BY <1>1, <2>1, <2>2, <2>3 DEF RequestFollowsRun
<1> QED
  BY <1>2, <1>3, <1>4, <1>5

\* A result is applied by a step of the policy, which decides the request as the run was reported.
LEMMA ApplyKept ==
  ASSUME SupervisorInv, LifecycleInv', NEW p \in Supervisors, NEW c \in Incidents, Apply(p, c)
  PROVE  SupervisorInv'
<1> USE DEF SupervisorInv
<1> DEFINE row == [[[sup[p] EXCEPT !.pc = "mark"] EXCEPT !.todo = sup[p].todo \ {c}]
                     EXCEPT !.applying = c]
<1>1. sup[p] \in SupervisorRow /\ sup \in [Supervisors -> SupervisorRow]
  BY DEF RecoveryTypeOK, SupervisorRow
<1>2. row \in SupervisorRow /\ row.pc = "mark" /\ row.todo = sup[p].todo \ {c} /\ row.applying = c
  BY <1>1 DEF SupervisorRow
<1>3. sup' = [sup EXCEPT ![p] = row] /\ UNCHANGED <<run, crashes>>
  BY <1>1 DEF Apply
<1>4. run[c].status = "reported"
  BY DEF Apply, ProcessesSound
<1> HIDE DEF row
<1>5. /\ sup' \in [Supervisors -> SupervisorRow] /\ sup'[p] = row
      /\ \A q \in Supervisors \ {p} : sup'[q] = sup[q]
  BY <1>1, <1>2, <1>3
<1>6. RecoveryTypeOK'
  BY <1>3, <1>5 DEF RecoveryTypeOK, LifecycleInv, PolicyInv, SupervisorRow
<1>7. RunsSound'
  BY <1>3 DEF RunsSound
<1>8. /\ \A d \in Incidents : attempts[d] \subseteq attempts'[d]
      /\ \E t \in attempts'[c] : t.stage = "recovery"
      /\ \A d \in Incidents \ {c} : request'[d] = request[d]
      /\ request'[c] \in {request[c], run[c].outcome}
  <2>1. CASE Replayed(c) /\ UNCHANGED lifecycleVars
    BY <2>1 DEF Replayed, lifecycleVars
  <2>2. CASE run[c].outcome = "failed" /\ RecoveryFailed(c)
    <3>1. request' = [request EXCEPT ![c] = "failed"] /\ incident[c].stage = "recovery"
          /\ Recorded(c, "failed", 0)
      BY <2>2 DEF RecoveryFailed, Due
    <3>2. PICK t : t = [stage |-> "recovery", n |-> incident[c].n, outcome |-> "failed",
                        correction |-> 0]
      OBVIOUS
    <3>3. t.stage = "recovery"
      BY <3>2
    <3>4. attempts' = [attempts EXCEPT ![c] = attempts[c] \cup {t}]
      BY <3>1, <3>2 DEF Recorded
    <3>5. DOMAIN attempts = Incidents /\ DOMAIN request = Incidents
      BY DEF LifecycleInv, PolicyInv, TypeOK
    <3>6. attempts'[c] = attempts[c] \cup {t}
          /\ \A d \in Incidents \ {c} : attempts'[d] = attempts[d]
      BY <3>4, <3>5
    <3> QED
      BY <2>2, <3>1, <3>3, <3>5, <3>6
  <2>3. CASE run[c].outcome = "succeeded" /\ RecoverySucceeded(c)
    <3>1. request' = [request EXCEPT ![c] = "succeeded"] /\ incident[c].stage = "recovery"
          /\ Recorded(c, "succeeded", 0)
      BY <2>3 DEF RecoverySucceeded, Due
    <3>2. PICK t : t = [stage |-> "recovery", n |-> incident[c].n, outcome |-> "succeeded",
                        correction |-> 0]
      OBVIOUS
    <3>3. t.stage = "recovery"
      BY <3>2
    <3>4. attempts' = [attempts EXCEPT ![c] = attempts[c] \cup {t}]
      BY <3>1, <3>2 DEF Recorded
    <3>5. DOMAIN attempts = Incidents /\ DOMAIN request = Incidents
      BY DEF LifecycleInv, PolicyInv, TypeOK
    <3>6. attempts'[c] = attempts[c] \cup {t}
          /\ \A d \in Incidents \ {c} : attempts'[d] = attempts[d]
      BY <3>4, <3>5
    <3> QED
      BY <2>3, <3>1, <3>3, <3>5, <3>6
  <2> QED
    BY <2>1, <2>2, <2>3 DEF Apply
<1>9. \A d \in Incidents : Replayed(d) => Replayed(d)'
  BY <1>8 DEF Replayed
<1>10. ProcessesSound'
  BY <1>2, <1>3, <1>4, <1>5, <1>8, <1>9 DEF ProcessesSound, Replayed
<1>11. RequestFollowsRun'
  <2>1. \A d \in Incidents : Replayed(d)' => request'[d] \in Outcomes
    BY DEF LifecycleInv, PolicyInv, HistoryExact, Replayed, Outcomes
  <2> QED
    BY <1>3, <1>4, <1>8, <1>9, <2>1 DEF RequestFollowsRun
<1> QED
  BY <1>6, <1>7, <1>10, <1>11

\* What a process is left with is sound if all it is to apply was reported.
LEMMA RemainingSound ==
  ASSUME SupervisorInv, NEW p \in Supervisors, NEW todo \in SUBSET Incidents
  PROVE  /\ Remaining(p, todo) \in SupervisorRow
         /\ Remaining(p, todo).pc \in {"apply", "claim", "expire"}
         /\ Remaining(p, todo).todo \subseteq todo
<1>1. sup[p] \in SupervisorRow /\ Idle \in SupervisorRow
  BY RecoveryAssumption DEF SupervisorInv, RecoveryTypeOK, SupervisorRow, Idle
<1>2. CASE todo # {}
  BY <1>1, <1>2 DEF Remaining, SupervisorRow
<1>3. CASE todo = {}
  BY <1>1, <1>3 DEF Remaining, SupervisorRow, Idle
<1> QED
  BY <1>2, <1>3

\* The steps of a process that leave the runs alone.
LEMMA ProcessStepKept ==
  ASSUME SupervisorInv, LifecycleInv', NEW p \in Supervisors,
         \/ ReadReported(p) \/ NothingToClaim(p) \/ HeartbeatRefused(p) \/ ReportEchoed(p)
         \/ ReportRefused(p) \/ Crash(p)
         \/ (\E c \in Incidents : ApplyRefused(p, c))
         \/ (\E result \in Outcomes \cup {"over"} : Launched(p, result))
  PROVE  SupervisorInv'
<1> USE DEF SupervisorInv
<1>1. /\ sup[p] \in SupervisorRow /\ Idle \in SupervisorRow /\ crashes \in 0..MaxCrashes
      /\ sup[p].pc \in {"launch", "report"} => sup[p].incident \in Incidents
      /\ sup[p].pc = "report" => sup[p].result \in Outcomes \cup {"over"}
      /\ \A c \in sup[p].todo : run[c].status = "reported"
  BY RecoveryAssumption DEF RecoveryTypeOK, SupervisorRow, Idle, ProcessesSound
<1>2. CASE ReadReported(p)
  <2> DEFINE todo == {c \in Incidents : run[c].status = "reported" /\ ~run[c].applied}
  <2>1. /\ Remaining(p, todo) \in SupervisorRow
        /\ Remaining(p, todo).pc \in {"apply", "claim", "expire"}
        /\ Remaining(p, todo).todo \subseteq todo
    BY RemainingSound
  <2>2. sup' = [sup EXCEPT ![p] = Remaining(p, todo)] /\ UNCHANGED <<lifecycleVars, run, crashes>>
    BY <1>2 DEF ReadReported
  <2> QED
    BY <1>1, <2>1, <2>2, ProcessMoves
<1>3. ASSUME \/ NothingToClaim(p) \/ ReportRefused(p) \/ Crash(p)
             \/ (\E c \in Incidents : ApplyRefused(p, c))
             \/ (\E result \in Outcomes \cup {"over"} : Launched(p, result)) /\ sup[p].lost
      PROVE  SupervisorInv'
  <2>1. /\ sup' = [sup EXCEPT ![p] = Idle] /\ UNCHANGED <<lifecycleVars, run>>
        /\ (crashes' = crashes) \/ (crashes' = crashes + 1 /\ crashes < MaxCrashes)
    <3>1. CASE Crash(p)
      BY <3>1 DEF Crash
    <3>2. ASSUME ~Crash(p)
          PROVE  sup' = [sup EXCEPT ![p] = Idle] /\ UNCHANGED <<lifecycleVars, run, crashes>>
      BY <1>3, <3>2 DEF NothingToClaim, ReportRefused, ApplyRefused, Launched
    <3> QED
      BY <3>1, <3>2
  <2>2. Idle.pc = "expire" /\ Idle.todo = {}
    BY DEF Idle
  <2>3. crashes' \in 0..MaxCrashes
    BY <1>1, <2>1, RecoveryAssumption
  <2> QED
    BY <1>1, <2>1, <2>2, <2>3, ProcessMoves
<1>4. CASE HeartbeatRefused(p)
  <2> DEFINE row == [sup[p] EXCEPT !.lost = TRUE]
  <2>1. row \in SupervisorRow /\ row.pc = sup[p].pc /\ row.incident = sup[p].incident
        /\ row.todo = sup[p].todo /\ row.result = sup[p].result /\ row.pc = "launch"
    BY <1>1, <1>4 DEF SupervisorRow, HeartbeatRefused, At
  <2>2. sup' = [sup EXCEPT ![p] = row] /\ UNCHANGED <<lifecycleVars, run, crashes>>
    BY <1>4 DEF HeartbeatRefused
  <2> HIDE DEF row
  <2> QED
    BY <1>1, <2>1, <2>2, ProcessMoves
<1>5. CASE ReportEchoed(p)
  <2> DEFINE row == [sup[p] EXCEPT !.pc = "expire"]
  <2>1. row \in SupervisorRow /\ row.pc = "expire" /\ row.todo = sup[p].todo
    BY <1>1 DEF SupervisorRow
  <2>2. sup' = [sup EXCEPT ![p] = row] /\ UNCHANGED <<lifecycleVars, run, crashes>>
    BY <1>5 DEF ReportEchoed, GoTo
  <2> HIDE DEF row
  <2> QED
    BY <1>1, <2>1, <2>2, ProcessMoves
<1>6. ASSUME NEW result \in Outcomes \cup {"over"}, Launched(p, result), ~sup[p].lost
      PROVE  SupervisorInv'
  <2> DEFINE row == [[sup[p] EXCEPT !.pc = "report"] EXCEPT !.result = result]
  <2>1. row \in SupervisorRow /\ row.pc = "report" /\ row.todo = sup[p].todo
        /\ row.incident = sup[p].incident /\ row.result = result
    BY <1>1 DEF SupervisorRow
  <2>2. sup' = [sup EXCEPT ![p] = row] /\ UNCHANGED <<lifecycleVars, run, crashes>>
        /\ sup[p].pc = "launch"
    BY <1>6 DEF Launched, At
  <2> HIDE DEF row
  <2> QED
    BY <1>1, <2>1, <2>2, ProcessMoves
<1> QED
  BY <1>2, <1>3, <1>4, <1>5, <1>6

\* Runs past their deadline are reported as late failures.
LEMMA ExpireKept ==
  ASSUME SupervisorInv, LifecycleInv', NEW p \in Supervisors, ExpireDeadlines(p)
  PROVE  SupervisorInv'
<1> USE DEF SupervisorInv
<1>1. run \in [Incidents -> RunRow] /\ sup \in [Supervisors -> SupervisorRow]
  BY DEF RecoveryTypeOK, RunRow, SupervisorRow
<1>2. \A c \in Incidents : Reported(c, "failed") \in RunRow
        /\ Reported(c, "failed").status = "reported" /\ Reported(c, "failed").outcome = "failed"
        /\ Reported(c, "failed").leased = FALSE /\ Reported(c, "failed").applied = run[c].applied
  BY <1>1 DEF Reported, RunRow, Outcomes
<1>3. /\ run' \in [Incidents -> RunRow]
      /\ \A c \in Incidents : IF Overdue(c) THEN run'[c] = Reported(c, "failed") ELSE run'[c] = run[c]
      /\ UNCHANGED <<lifecycleVars, crashes>>
  BY <1>1, <1>2 DEF ExpireDeadlines
<1>4. sup' = [sup EXCEPT ![p].pc = "read"]
  BY DEF ExpireDeadlines, GoTo
<1>5. /\ sup' \in [Supervisors -> SupervisorRow]
      /\ sup'[p].pc = "read" /\ sup'[p].todo = sup[p].todo
      /\ \A q \in Supervisors \ {p} : sup'[q] = sup[q]
  BY <1>1, <1>4 DEF SupervisorRow
<1>6. \A q \in Supervisors :
        /\ sup'[q].pc \in {"launch", "report"} => sup'[q].incident \in Incidents
        /\ sup'[q].pc = "report" => sup'[q].result \in Outcomes \cup {"over"}
        /\ \A c \in sup'[q].todo : run[c].status = "reported"
        /\ sup'[q].pc = "mark" => sup'[q] = sup[q]
  BY <1>5 DEF ProcessesSound
<1>7. \A c \in Incidents :
        /\ run[c].status = "reported" => run'[c] = run[c]
        /\ run'[c].applied => run[c].applied
        /\ run'[c].leased => run'[c].status = "running" /\ ~run'[c].late
        /\ run'[c].status = "reported" => run'[c].outcome \in Outcomes
             /\ (run'[c].outcome = "succeeded" => ~run'[c].late)
        /\ run'[c].status # "reported" => run'[c].outcome = "none" /\ ~run'[c].applied
  BY <1>1, <1>2, <1>3 DEF Overdue, RunsSound, RecoveryTypeOK, RequestFollowsRun, Outcomes
<1> QED
  BY <1>3, <1>5, <1>6, <1>7, RunMoves

\* One run changes, to one that is sound by itself.
LEMMA OneRunMoves ==
  ASSUME SupervisorInv, LifecycleInv', UNCHANGED <<lifecycleVars, crashes>>,
         NEW c \in Incidents, NEW row \in RunRow, run' = [run EXCEPT ![c] = row],
         run[c].status = "reported" => row = run[c],
         row.applied => run[c].applied,
         row.leased => row.status = "running" /\ ~row.late,
         row.status = "reported" => row.outcome \in Outcomes
           /\ (row.outcome = "succeeded" => ~row.late),
         row.status # "reported" => row.outcome = "none" /\ ~row.applied,
         sup' \in [Supervisors -> SupervisorRow],
         \A p \in Supervisors :
           /\ sup'[p].pc \in {"launch", "report"} => sup'[p].incident \in Incidents
           /\ sup'[p].pc = "report" => sup'[p].result \in Outcomes \cup {"over"}
           /\ \A d \in sup'[p].todo : run[d].status = "reported"
           /\ sup'[p].pc = "mark" => sup'[p] = sup[p]
  PROVE  SupervisorInv'
<1> USE DEF SupervisorInv
<1>1. run \in [Incidents -> RunRow]
  BY DEF RecoveryTypeOK, RunRow
<1>2. /\ run' \in [Incidents -> RunRow] /\ run'[c] = row
      /\ \A d \in Incidents \ {c} : run'[d] = run[d]
  BY <1>1
<1>3. \A d \in Incidents :
        /\ run[d].status = "reported" => run'[d] = run[d]
        /\ run'[d].applied => run[d].applied
        /\ run'[d].leased => run'[d].status = "running" /\ ~run'[d].late
        /\ run'[d].status = "reported" => run'[d].outcome \in Outcomes
             /\ (run'[d].outcome = "succeeded" => ~run'[d].late)
        /\ run'[d].status # "reported" => run'[d].outcome = "none" /\ ~run'[d].applied
  BY <1>2 DEF RunsSound, RecoveryTypeOK, RequestFollowsRun
<1> QED
  BY <1>2, <1>3, RunMoves

\* A claim takes a run that waits, or one whose lease has expired.
LEMMA ClaimKept ==
  ASSUME SupervisorInv, LifecycleInv', NEW p \in Supervisors, NEW c \in Incidents, Claim(p, c)
  PROVE  SupervisorInv'
<1> USE DEF SupervisorInv
<1> DEFINE row == [NoRun EXCEPT !.status = "running", !.owner = p,
                                !.claims = run[c].claims + 1, !.leased = TRUE]
           moved == [[[sup[p] EXCEPT !.pc = "launch"] EXCEPT !.incident = c]
                       EXCEPT !.token = run[c].claims + 1]
<1>1. /\ run \in [Incidents -> RunRow] /\ sup \in [Supervisors -> SupervisorRow]
      /\ sup[p] \in SupervisorRow /\ run[c] \in RunRow
  BY DEF RecoveryTypeOK, RunRow, SupervisorRow
<1>2. run[c].claims + 1 \in 0..MaxClaims
  BY <1>1, RecoveryAssumption DEF RunRow, Claim
<1>3. /\ row \in RunRow /\ row.status = "running" /\ row.outcome = "none" /\ ~row.late /\ ~row.applied
  BY <1>2 DEF RunRow, NoRun
<1>4. moved \in SupervisorRow /\ moved.pc = "launch" /\ moved.incident = c
      /\ moved.todo = sup[p].todo
  BY <1>1, <1>2 DEF SupervisorRow
<1>5. /\ run' = [run EXCEPT ![c] = row] /\ UNCHANGED <<lifecycleVars, crashes>>
      /\ sup' = [sup EXCEPT ![p] = moved] /\ run[c].status # "reported"
  BY <1>1 DEF Claim, Claimable
<1> HIDE DEF row, moved
<1>6. /\ sup' \in [Supervisors -> SupervisorRow] /\ sup'[p] = moved
      /\ \A q \in Supervisors \ {p} : sup'[q] = sup[q]
  BY <1>1, <1>4, <1>5
<1>7. \A q \in Supervisors :
        /\ sup'[q].pc \in {"launch", "report"} => sup'[q].incident \in Incidents
        /\ sup'[q].pc = "report" => sup'[q].result \in Outcomes \cup {"over"}
        /\ \A d \in sup'[q].todo : run[d].status = "reported"
        /\ sup'[q].pc = "mark" => sup'[q] = sup[q]
  BY <1>4, <1>6 DEF ProcessesSound
<1> QED
  BY <1>3, <1>5, <1>6, <1>7, OneRunMoves

\* A report decides the run, repeats what was reported, or is refused.
LEMMA ReportKept ==
  ASSUME SupervisorInv, LifecycleInv', NEW p \in Supervisors, Report(p)
  PROVE  SupervisorInv'
<1> USE DEF SupervisorInv
<1>1. PICK c \in Incidents : c = sup[p].incident
  BY DEF Report, At, ProcessesSound
<1>2. /\ run \in [Incidents -> RunRow] /\ sup \in [Supervisors -> SupervisorRow]
      /\ run[c] \in RunRow /\ run[c].status = "running" /\ run[c].outcome = "none"
      /\ ~run[c].applied
  BY <1>1 DEF RecoveryTypeOK, RunRow, SupervisorRow, Report, MayReport, RunsSound
<1>3. /\ Verdict(p) \in Outcomes
      /\ run[c].late => Verdict(p) = "failed"
  BY <1>1 DEF Verdict, Outcomes, Report, At, ProcessesSound
<1> DEFINE row == Reported(c, Verdict(p))
<1>4. /\ row \in RunRow /\ row.status = "reported" /\ row.outcome = Verdict(p)
      /\ row.leased = FALSE /\ row.late = run[c].late /\ ~row.applied
  BY <1>2, <1>3 DEF RunRow, Reported
<1>5. /\ run' = [run EXCEPT ![c] = row] /\ UNCHANGED <<lifecycleVars, crashes>>
      /\ sup' = [sup EXCEPT ![p].pc = "expire"]
  BY <1>1 DEF Report, GoTo
<1> HIDE DEF row
<1>6. /\ sup' \in [Supervisors -> SupervisorRow] /\ sup'[p].pc = "expire"
      /\ sup'[p].todo = sup[p].todo /\ \A q \in Supervisors \ {p} : sup'[q] = sup[q]
  BY <1>2, <1>5 DEF SupervisorRow
<1>7. \A q \in Supervisors :
        /\ sup'[q].pc \in {"launch", "report"} => sup'[q].incident \in Incidents
        /\ sup'[q].pc = "report" => sup'[q].result \in Outcomes \cup {"over"}
        /\ \A d \in sup'[q].todo : run[d].status = "reported"
        /\ sup'[q].pc = "mark" => sup'[q] = sup[q]
  BY <1>6 DEF ProcessesSound
<1>8. row.outcome = "succeeded" => ~row.late
  BY <1>3, <1>4
<1> QED
  BY <1>2, <1>3, <1>4, <1>5, <1>6, <1>7, <1>8, OneRunMoves

\* Only a result that is in the history is marked as applied.
LEMMA MarkKept ==
  ASSUME SupervisorInv, LifecycleInv', NEW p \in Supervisors, MarkApplied(p)
  PROVE  SupervisorInv'
<1> USE DEF SupervisorInv
<1>1. PICK c \in Incidents : c = sup[p].applying /\ Replayed(c) /\ run[c].status = "reported"
  BY DEF MarkApplied, At, ProcessesSound
<1>2. /\ run \in [Incidents -> RunRow] /\ sup \in [Supervisors -> SupervisorRow]
      /\ run[c] \in RunRow /\ sup[p].todo \in SUBSET Incidents
  BY DEF RecoveryTypeOK, RunRow, SupervisorRow
<1>3. /\ run' = [run EXCEPT ![c].applied = TRUE] /\ UNCHANGED <<lifecycleVars, crashes>>
      /\ sup' = [sup EXCEPT ![p] = Remaining(p, sup[p].todo)]
  BY <1>1 DEF MarkApplied
<1> DEFINE row == [run[c] EXCEPT !.applied = TRUE]
<1>4. /\ row \in RunRow /\ row.applied = TRUE /\ row.status = run[c].status
      /\ row.outcome = run[c].outcome /\ row.late = run[c].late /\ row.leased = run[c].leased
  BY <1>2 DEF RunRow
<1>5. run' = [run EXCEPT ![c] = row]
  BY <1>3
<1> HIDE DEF row
<1>6. /\ run' \in [Incidents -> RunRow] /\ run'[c] = row
      /\ \A d \in Incidents \ {c} : run'[d] = run[d]
  BY <1>2, <1>4, <1>5
<1>7. PICK moved \in SupervisorRow :
        /\ moved = Remaining(p, sup[p].todo) /\ moved.pc \in {"apply", "claim", "expire"}
        /\ moved.todo \subseteq sup[p].todo
  BY <1>2, RemainingSound
<1>8. /\ sup' \in [Supervisors -> SupervisorRow] /\ sup'[p] = moved
      /\ \A q \in Supervisors \ {p} : sup'[q] = sup[q]
  BY <1>2, <1>3, <1>7
<1>9. \A q \in Supervisors :
        /\ sup'[q].pc \in {"launch", "report"} => sup'[q].incident \in Incidents
        /\ sup'[q].pc = "report" => sup'[q].result \in Outcomes \cup {"over"}
        /\ \A d \in sup'[q].todo : run[d].status = "reported"
        /\ sup'[q].pc = "mark" => sup'[q] = sup[q]
  BY <1>7, <1>8 DEF ProcessesSound
<1>10. \A d \in Incidents :
        /\ run[d].status = "reported" => run'[d].status = "reported"
             /\ run'[d].outcome = run[d].outcome /\ run'[d].late = run[d].late
             /\ run'[d].leased = run[d].leased
        /\ run'[d].applied => run[d].applied \/ Replayed(d)
        /\ run'[d].leased => run'[d].status = "running" /\ ~run'[d].late
        /\ run'[d].status = "reported" => run'[d].outcome \in Outcomes
             /\ (run'[d].outcome = "succeeded" => ~run'[d].late)
        /\ run'[d].status # "reported" => run'[d].outcome = "none" /\ ~run'[d].applied
  BY <1>1, <1>4, <1>6 DEF RunsSound, RecoveryTypeOK, RequestFollowsRun
<1> QED
  BY <1>3, <1>6, <1>8, <1>9, <1>10, RunMoves

\* Time changes only runs that are not reported.
LEMMA TimeKept ==
  ASSUME SupervisorInv, LifecycleInv', NEW c \in Incidents, LeaseExpires(c) \/ DeadlinePasses(c)
  PROVE  SupervisorInv'
<1> USE DEF SupervisorInv
<1>1. /\ run \in [Incidents -> RunRow] /\ sup \in [Supervisors -> SupervisorRow]
      /\ run[c] \in RunRow /\ run[c].status = "running"
      /\ run[c].outcome = "none" /\ ~run[c].applied
  BY DEF RecoveryTypeOK, RunRow, SupervisorRow, RunsSound, LeaseExpires, DeadlinePasses
<1>2. PICK late \in BOOLEAN : run' = [run EXCEPT ![c].late = late, ![c].leased = FALSE]
                           /\ UNCHANGED <<lifecycleVars, sup, crashes>>
  <2>1. CASE DeadlinePasses(c)
    BY <2>1 DEF DeadlinePasses
  <2>2. CASE LeaseExpires(c)
    <3>1. run' = [run EXCEPT ![c].leased = FALSE] /\ UNCHANGED <<lifecycleVars, sup, crashes>>
      BY <2>2 DEF LeaseExpires
    <3>2. [run EXCEPT ![c].late = run[c].late] = run
      BY <1>1 DEF RunRow
    <3> QED
      BY <1>1, <3>1, <3>2 DEF RunRow
  <2> QED
    BY <2>1, <2>2
<1> DEFINE row == [[run[c] EXCEPT !.late = late] EXCEPT !.leased = FALSE]
<1>3. /\ row \in RunRow /\ row.status = "running" /\ row.outcome = "none"
      /\ ~row.applied /\ ~row.leased
  BY <1>1 DEF RunRow
<1>4. run' = [run EXCEPT ![c] = row]
  BY <1>1, <1>2
<1> HIDE DEF row
<1>5. \A q \in Supervisors :
        /\ sup'[q].pc \in {"launch", "report"} => sup'[q].incident \in Incidents
        /\ sup'[q].pc = "report" => sup'[q].result \in Outcomes \cup {"over"}
        /\ \A d \in sup'[q].todo : run[d].status = "reported"
        /\ sup'[q].pc = "mark" => sup'[q] = sup[q]
  BY <1>2 DEF ProcessesSound
<1>6. sup' \in [Supervisors -> SupervisorRow] /\ UNCHANGED <<lifecycleVars, crashes>>
  BY <1>1, <1>2
<1> QED
  BY <1>1, <1>3, <1>4, <1>5, <1>6, OneRunMoves

\* The work goes on meanwhile.
LEMMA WorkGoesOn ==
  ASSUME SupervisorInv, LifecycleInv', LifecycleNext, UNCHANGED <<run, sup, crashes>>
  PROVE  SupervisorInv'
<1> USE DEF SupervisorInv
<1>1. \A c \in Incidents : /\ attempts[c] \subseteq attempts'[c]
                           /\ request'[c] \in Outcomes => request[c] = request'[c]
  BY HistoryGrows
<1>2. \A c \in Incidents : Replayed(c) => Replayed(c)'
  <2>1. ASSUME NEW c \in Incidents, NEW t \in attempts[c], t.stage = "recovery"
        PROVE  \E u \in attempts'[c] : u.stage = "recovery"
    BY <1>1, <2>1
  <2> QED
    BY <2>1 DEF Replayed
<1>3. \A c \in Incidents : Replayed(c)' => request'[c] \in Outcomes
  BY DEF LifecycleInv, PolicyInv, HistoryExact, Replayed, Outcomes
<1>4. RecoveryTypeOK' /\ RunsSound'
  BY DEF RecoveryTypeOK, LifecycleInv, PolicyInv, RunsSound
<1>5. ProcessesSound'
  BY <1>2 DEF ProcessesSound
<1>6. RequestFollowsRun'
  <2>1. ASSUME NEW c \in Incidents, request'[c] \in Outcomes
        PROVE  run'[c].status = "reported" /\ run'[c].outcome = request'[c]
    BY <1>1, <2>1 DEF RequestFollowsRun
  <2>2. ASSUME NEW c \in Incidents
        PROVE  /\ run'[c].outcome = "succeeded" => ~run'[c].late
               /\ run'[c].applied => Replayed(c)' /\ request'[c] \in Outcomes
    BY <1>2, <1>3 DEF RequestFollowsRun
  <2> QED
    BY <2>1, <2>2 DEF RequestFollowsRun
<1> QED
  BY <1>4, <1>5, <1>6

\* Every step of the supervisors, and of the work meanwhile, keeps the invariant.
LEMMA SupervisorKept == SupervisorInv /\ [Next]_vars => SupervisorInv'
<1> SUFFICES ASSUME SupervisorInv, [Next]_vars PROVE SupervisorInv'
  OBVIOUS
<1>1. LifecycleInv'
  BY ImplementsPolicy, LifecycleKept DEF SupervisorInv
<1>2. ASSUME NEW p \in Supervisors, SupervisorStep(p)
      PROVE  SupervisorInv'
  BY <1>1, <1>2, ApplyKept, ProcessStepKept, ExpireKept, ClaimKept, ReportKept, MarkKept
  DEF SupervisorStep
<1>3. ASSUME NEW p \in Supervisors, HeartbeatRefused(p) \/ Crash(p)
      PROVE  SupervisorInv'
  BY <1>1, <1>3, ProcessStepKept
<1>4. CASE LifecycleNext /\ UNCHANGED <<run, sup, crashes>>
  BY <1>1, <1>4, WorkGoesOn
<1>5. CASE UNCHANGED vars
  BY <1>1, <1>5
  DEF SupervisorInv, RecoveryTypeOK, RunsSound, ProcessesSound, RequestFollowsRun, LifecycleInv,
      PolicyInv, Replayed, vars, lifecycleVars
<1> QED
  BY <1>1, <1>2, <1>3, <1>4, <1>5, TimeKept DEF Next

\* A verdict is reported by whoever claimed the run last, or by the clock, and stays.
LEMMA VerdictsStay ==
  ASSUME SupervisorInv, Next, NEW c \in Incidents
  PROVE  /\ run[c].status = "reported" => run'[c] \in {run[c], [run[c] EXCEPT !.applied = TRUE]}
         /\ run[c].status # "reported" /\ run'[c].status = "reported" /\ ~run[c].late =>
              \E p \in Supervisors : At(p, "report") /\ OwnsRun(p) /\ sup[p].incident = c
<1>1. run \in [Incidents -> RunRow] /\ run[c] \in RunRow
  BY DEF SupervisorInv, RecoveryTypeOK, RunRow
<1>2. CASE UNCHANGED run
  BY <1>2
<1>3. ASSUME NEW p \in Supervisors, ExpireDeadlines(p)
      PROVE  run'[c] = run[c] \/ (run[c].status = "running" /\ run[c].late)
  BY <1>3 DEF ExpireDeadlines, Overdue
<1>4. ASSUME NEW p \in Supervisors, MarkApplied(p)
      PROVE  /\ run'[c] \in {run[c], [run[c] EXCEPT !.applied = TRUE]}
             /\ run'[c].status = run[c].status
  <2>1. PICK d : d = sup[p].applying
    OBVIOUS
  <2>2. run' = [run EXCEPT ![d].applied = TRUE]
    BY <1>4, <2>1 DEF MarkApplied
  <2>3. run'[c] \in {run[c], [run[c] EXCEPT !.applied = TRUE]}
    BY <1>1, <2>2
  <2>4. [run[c] EXCEPT !.applied = TRUE].status = run[c].status
    BY <1>1 DEF RunRow
  <2> QED
    BY <2>3, <2>4
<1>5. ASSUME NEW p \in Supervisors, NEW d \in Incidents, Claim(p, d)
      PROVE  run'[c] = run[c] \/ (run[c].status # "reported" /\ run'[c].status = "running")
  <2>1. /\ run' = [run EXCEPT ![d] = [NoRun EXCEPT !.status = "running", !.owner = p,
                                    !.claims = run[d].claims + 1, !.leased = TRUE]]
        /\ run[d].status # "reported"
    BY <1>5 DEF Claim, Claimable
  <2>2. [NoRun EXCEPT !.status = "running", !.owner = p, !.claims = run[d].claims + 1,
                      !.leased = TRUE].status = "running"
    BY DEF NoRun
  <2> QED
    BY <1>1, <2>1, <2>2
<1>6. ASSUME NEW p \in Supervisors, Report(p)
      PROVE  \/ run'[c] = run[c]
             \/ run[c].status # "reported" /\ At(p, "report") /\ OwnsRun(p) /\ sup[p].incident = c
  <2>1. PICK d : d = sup[p].incident
    OBVIOUS
  <2>2. \E row : run' = [run EXCEPT ![d] = row]
    BY <1>6, <2>1 DEF Report
  <2>3. run[d].status = "running" /\ At(p, "report") /\ OwnsRun(p)
    BY <1>6, <2>1 DEF Report, MayReport
  <2> QED
    BY <1>1, <2>1, <2>2, <2>3
<1>7. ASSUME NEW d \in Incidents, LeaseExpires(d) \/ DeadlinePasses(d)
      PROVE  run'[c] = run[c] \/ (run[c].status # "reported" /\ run'[c].status = run[c].status)
  <2>1. run[d].status # "reported"
    BY <1>7 DEF LeaseExpires, DeadlinePasses, SupervisorInv, RunsSound
  <2> QED
    BY <1>1, <1>7, <2>1 DEF LeaseExpires, DeadlinePasses, RunRow
<1>8. ASSUME NEW p \in Supervisors, SupervisorStep(p), ~UNCHANGED run
      PROVE  \/ ExpireDeadlines(p) \/ MarkApplied(p) \/ Report(p)
             \/ \E d \in Incidents : Claim(p, d)
  BY <1>8 DEF SupervisorStep, ReadReported, Apply, ApplyRefused, NothingToClaim, Launched,
     ReportEchoed, ReportRefused
<1>9. CASE ~UNCHANGED run
  <2>1. \/ \E p \in Supervisors : SupervisorStep(p)
        \/ \E d \in Incidents : LeaseExpires(d) \/ DeadlinePasses(d)
    BY <1>9 DEF Next, HeartbeatRefused, Crash
  <2> QED
    BY <1>3, <1>4, <1>5, <1>6, <1>7, <1>8, <1>9, <2>1
<1> QED
  BY <1>2, <1>9

\* The inductive invariant of the supervisor and the lifecycle holds in every reachable state.
THEOREM SupervisorInvariance == Spec => []SupervisorInv
<1> QED
  BY SupervisorBegins, SupervisorKept, PTL DEF Spec

\* The supervisor implements the policy's specification, which takes any supervised result:
\* whatever its processes do, the lifecycle stays within it (record_attempt is its only way in).
THEOREM SupervisorImplementsPolicy == Spec => LifecycleSpec
<1>1. Init => LifecycleInit
  BY DEF Init
<1> QED
  BY <1>1, ImplementsPolicy, PTL DEF Spec, LifecycleSpec

\* The policy takes the verdict of the one reported run (report, reconcile).
THEOREM RequestsFollowRuns == Spec => []RequestFollowsRun
<1>1. SupervisorInv => RequestFollowsRun
  BY DEF SupervisorInv
<1> QED
  BY <1>1, SupervisorInvariance, PTL

\* A reported verdict is final, and reported by the last claim or the deadline (report,
\* _expire_deadlines).
THEOREM VerdictsFinal == Spec => VerdictFinal
<1>1. SupervisorInv /\ [Next]_vars =>
        [\A c \in Incidents :
           /\ run[c].status = "reported" => run'[c] \in {run[c], [run[c] EXCEPT !.applied = TRUE]}
           /\ run[c].status # "reported" /\ run'[c].status = "reported" /\ ~run[c].late =>
                \E p \in Supervisors : At(p, "report") /\ OwnsRun(p) /\ sup[p].incident = c]_vars
  BY VerdictsStay
<1> QED
  BY <1>1, SupervisorInvariance, PTL DEF Spec, VerdictFinal

-----------------------------------------------------------------------------
(* All of them side by side *)

\* What one of them does leaves the others alone, so that each keeps to its own
\* specification: what is proved of a component holds of MCOperations.
LEMMA OthersUntouched ==
  /\ OperationsInit => Init /\ NoticeInit /\ MaintenanceInit /\ EngineInit /\ ReleaseInit
                       /\ WorktreeInit
  /\ [OperationsNext]_operationsVars =>
       /\ [Next]_vars /\ [NoticeNext]_noticeVars /\ [MaintenanceNext]_maintenanceVars
       /\ [EngineNext]_engineVars /\ [ReleaseNext]_releaseVars /\ [WorktreeNext]_worktreeVars
<1>1. OperationsInit => Init /\ NoticeInit /\ MaintenanceInit /\ EngineInit /\ ReleaseInit
                       /\ WorktreeInit
  BY DEF OperationsInit
<1>2. ASSUME [OperationsNext]_operationsVars
      PROVE  /\ [Next]_vars /\ [NoticeNext]_noticeVars /\ [MaintenanceNext]_maintenanceVars
             /\ [EngineNext]_engineVars /\ [ReleaseNext]_releaseVars /\ [WorktreeNext]_worktreeVars
  BY <1>2 DEF OperationsNext, OthersStill, operationsVars
<1> QED
  BY <1>1, <1>2

\* A behaviour of the composition is one of each component (the modules share no state).
THEOREM OperationsApart ==
  OperationsSpec =>
    /\ Spec /\ MaintenanceSpec /\ ReleaseSpec /\ WorktreeSpec
    /\ NoticeInit /\ [][NoticeNext]_noticeVars
    /\ EngineInit /\ [][EngineNext]_engineVars
  BY OthersUntouched, PTL DEF OperationsSpec, Spec, MaintenanceSpec, ReleaseSpec, WorktreeSpec

\* Whatever runs has the types of its rows: of runs and supervisors, notices, backups,
\* engines, upgrades and worktrees.
THEOREM OperationsTyped == OperationsSpec => []OperationsTypeOK
<1> DEFINE Parts == {"recovery", "notices", "maintenance", "engines", "releases", "worktrees"}
           Inv == /\ part \in Parts /\ SupervisorInv /\ NoticeInv /\ MaintenanceInv
                  /\ EngineInv /\ ReleaseInv /\ WorktreeInv
<1>1. OperationsInit => Inv
  BY OthersUntouched, SupervisorBegins, NoticeBegins, MaintenanceBegins, EnginesBegin,
     ReleaseBegins, WorktreeBegins DEF OperationsInit
<1>2. Inv /\ [OperationsNext]_operationsVars => Inv'
  <2>1. [OperationsNext]_operationsVars => UNCHANGED part
    BY DEF OperationsNext, OthersStill, operationsVars
  <2> QED
    BY <2>1, OthersUntouched, SupervisorKept, NoticeKept, MaintenanceKept, EnginesKept,
       ReleaseKept, WorktreesKept
<1>3. Inv => OperationsTypeOK
  BY DEF OperationsTypeOK, SupervisorInv, NoticeInv, MaintenanceInv, EngineInv, ReleaseInv,
         WorktreeInv
<1> QED
  BY <1>1, <1>2, <1>3, PTL DEF OperationsSpec

=============================================================================
