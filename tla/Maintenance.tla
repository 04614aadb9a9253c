----------------------------- MODULE Maintenance -----------------------------
(***************************************************************************)
(* The maintenance pause of the database and the backups taken under it       *)
(* (database_operations.py, migration 0006, MigrationRunner of database.py).   *)
(*                                                                         *)
(* Every table has a trigger that reads database_maintenance and refuses       *)
(* writes while it says paused; a transaction keeps the lock its trigger took  *)
(* until it ends.  A pause takes the lock that waits for them.  A backup       *)
(* pauses, dumps, counts the rows once more, publishes, and resumes only a     *)
(* pause it found it had begun itself.  Operators pause and resume as well,    *)
(* and backups may overlap.                                                    *)
(***************************************************************************)
EXTENDS Naturals, FiniteSets

CONSTANTS
  Writers,   \* transactions, each with a write of its own
  Upgrades,  \* those that apply a migration of the packaged code
  Backups    \* backup commands, each with an output of its own

ASSUME MaintenanceAssumption == IsFiniteSet(Writers) /\ Upgrades \subseteq Writers

VARIABLES
  maintenance,  \* the status of the singleton row
  committed,    \* the writes the database holds
  open,         \* transactions that passed the trigger and have not ended
  backup        \* per command: its step, what it read and what it made

maintenanceVars == <<maintenance, committed, open, backup>>

BackupSteps == {"new", "seen", "dump", "count", "publish", "finish", "over"}

BackupRecord ==
  [pc : BackupSteps, before : {"active", "paused"}, initiated : BOOLEAN,
   archive : SUBSET Writers, mode : {"active", "paused"}, counted : 0..Cardinality(Writers),
   published : BOOLEAN,
   acknowledged : SUBSET Writers,  \* history: the writes its pause came after
   disturbed : BOOLEAN]            \* history: somebody resumed in the middle of it

MaintenanceTypeOK ==
  /\ maintenance \in {"active", "paused"}
  /\ committed \in SUBSET Writers
  /\ open \in SUBSET (Writers \ committed)
  /\ backup \in [Backups -> BackupRecord]

NewBackup ==
  [pc |-> "new", before |-> "active", initiated |-> FALSE, archive |-> {}, mode |-> "active",
   counted |-> 0, published |-> FALSE, acknowledged |-> {}, disturbed |-> FALSE]

MaintenanceInit ==
  /\ maintenance = "active"
  /\ committed = {} /\ open = {}
  /\ backup = [b \in Backups |-> NewBackup]

-----------------------------------------------------------------------------
(* Writers *)

\* reject_writes_during_maintenance, which every migration puts on every table: with
\* the row of schema_migrations a migration is a guarded write as well.
Admitted(w) == maintenance = "active" /\ w \notin committed \cup open

BeginWrite(w) ==
  /\ Admitted(w)
  /\ open' = open \cup {w}
  /\ UNCHANGED <<maintenance, committed, backup>>

CommitWrite(w) ==
  /\ w \in open
  /\ open' = open \ {w}
  /\ committed' = committed \cup {w}
  /\ UNCHANGED <<maintenance, backup>>

AbortWrite(w) ==
  /\ w \in open
  /\ open' = open \ {w}
  /\ UNCHANGED <<maintenance, committed, backup>>

\* MigrationRunner.status: the database is behind the code.
Pending == ~(Upgrades \subseteq committed)

-----------------------------------------------------------------------------
(* pause and resume *)

\* Mutant: the status is set without waiting for those who write already.
QuiescentAtOnce == TRUE

\* ACCESS EXCLUSIVE waits for every transaction whose trigger read the row.
Quiescent == open = {}

PauseByOperator ==
  /\ maintenance = "active" /\ Quiescent
  /\ maintenance' = "paused"
  /\ UNCHANGED <<committed, open, backup>>

\* Backups that have paused and are not done when somebody resumes.
Disturbed(b) ==
  [backup[b] EXCEPT !.disturbed =
     @ \/ (maintenance = "paused" /\ backup[b].pc \in {"dump", "count", "publish"})]

ResumeByOperator ==
  /\ maintenance = "paused"
  /\ maintenance' = "active"
  /\ backup' = [b \in Backups |-> Disturbed(b)]
  /\ UNCHANGED <<committed, open>>

-----------------------------------------------------------------------------
(* backup *)

\* Its output is reserved and the client tools fit; then it reads the status.
ReadStatus(b) ==
  /\ backup[b].pc = "new"
  /\ backup' = [backup EXCEPT ![b].pc = "seen", ![b].before = maintenance]
  /\ UNCHANGED <<maintenance, committed, open>>

\* initiated_pause: it read active, and its pause changed the row.
PauseForBackup(b) ==
  /\ backup[b].pc = "seen" /\ Quiescent
  /\ maintenance' = "paused"
  /\ backup' = [backup EXCEPT
       ![b].pc = "dump", ![b].before = "active",
       ![b].initiated = backup[b].before = "active" /\ maintenance = "active",
       ![b].acknowledged = committed]
  /\ UNCHANGED <<committed, open>>

\* pg_dump, one snapshot of all tables.
Dump(b) ==
  /\ backup[b].pc = "dump"
  /\ backup' = [backup EXCEPT ![b].pc = "count", ![b].archive = committed, ![b].mode = maintenance]
  /\ UNCHANGED <<maintenance, committed, open>>

\* _validated_snapshot, another look at the tables.
CountRows(b) ==
  /\ backup[b].pc = "count" /\ ~Pending
  /\ backup' = [backup EXCEPT ![b].pc = "publish", ![b].counted = Cardinality(committed)]
  /\ UNCHANGED <<maintenance, committed, open>>

\* The archive gets its name, and then the manifest, which makes it a backup.
Publish(b) ==
  /\ backup[b].pc = "publish"
  /\ backup' = [backup EXCEPT ![b].pc = "finish", ![b].published = TRUE]
  /\ UNCHANGED <<maintenance, committed, open>>

\* A tool fails, a migration is pending: what was made is removed.
FailBackup(b) ==
  /\ backup[b].pc \in {"seen", "dump", "count", "publish"}
  /\ backup' = [backup EXCEPT ![b] =
       [NewBackup EXCEPT !.pc = "finish", !.initiated = backup[b].initiated]]
  /\ UNCHANGED <<maintenance, committed, open>>

\* What is left of a command that has ended.
Ended(b) ==
  IF backup[b].published THEN [backup[b] EXCEPT !.pc = "over", !.initiated = FALSE]
  ELSE [NewBackup EXCEPT !.pc = "over"]

\* The finally clause.
FinishBackup(b) ==
  /\ backup[b].pc = "finish"
  /\ maintenance' = IF backup[b].initiated THEN "active" ELSE maintenance
  /\ backup' = [c \in Backups |->
       IF c = b THEN Ended(b)
       ELSE IF backup[b].initiated THEN Disturbed(c) ELSE backup[c]]
  /\ UNCHANGED <<committed, open>>

\* The command dies, or its resume fails: the pause is left to the operators.
KillBackup(b) ==
  /\ backup[b].pc \in BackupSteps \ {"new", "over"}
  /\ backup' = [backup EXCEPT ![b] = Ended(b)]
  /\ UNCHANGED <<maintenance, committed, open>>

MaintenanceNext ==
  \/ \E w \in Writers : BeginWrite(w) \/ CommitWrite(w) \/ AbortWrite(w)
  \/ PauseByOperator \/ ResumeByOperator
  \/ \E b \in Backups :
       \/ ReadStatus(b) \/ PauseForBackup(b) \/ Dump(b) \/ CountRows(b) \/ Publish(b)
       \/ FailBackup(b) \/ FinishBackup(b) \/ KillBackup(b)

MaintenanceSpec == MaintenanceInit /\ [][MaintenanceNext]_maintenanceVars

-----------------------------------------------------------------------------
(* Properties *)

\* restore, into an empty database: the manifest's counts must be the restored ones, and
\* the restored database must be paused.
Restorable(b) ==
  /\ backup[b].counted = Cardinality(backup[b].archive)
  /\ backup[b].mode = "paused"

\* A published backup holds every write acknowledged before its pause, whoever resumed
\* since (backup, database_operations.py:326); and unless somebody did resume in the
\* middle of it, an operator or a backup that overlaps, it can be restored and is the
\* database as it was paused.
BackupComplete ==
  \A b \in Backups : backup[b].published =>
    /\ backup[b].acknowledged \subseteq backup[b].archive
    /\ ~backup[b].disturbed =>
         Restorable(b) /\ backup[b].archive = backup[b].acknowledged

==============================================================================
