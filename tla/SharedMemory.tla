----------------------------- MODULE SharedMemory -----------------------------
(***************************************************************************)
(* One entry of the layered shared memory (shared_memory.py,                 *)
(* memory_policy.py, migrations 0019 and 0020): writers that check its       *)
(* source before their transaction and compare versions in it, readers that  *)
(* verify the source and record what they found, and an immutable revision   *)
(* for each version.  Requests are retried as they are.                      *)
(***************************************************************************)
EXTENDS Naturals, Sequences, SequencesExt

CONSTANTS
  Requests,     \* operation ids of the writers' requests
  Readers,      \* list_current and inspect in progress
  NoReading,
  MaxVersions,  \* bound: versions of the entry
  MaxSource     \* bound: versions of the source

ASSUME MemoryAssumption ==
  MaxVersions \in Nat \ {0} /\ MaxSource \in Nat \ {0} /\ NoReading \notin Requests

VARIABLES
  source,     \* the authoritative source's version; 0 when it was removed
  memory,     \* the row of shared_memory_entries
  revisions,  \* shared_memory_revisions, by version
  asking,     \* per request: what it asks, and how far it got
  reading     \* per reader: the row it refreshes and its check of the source

memoryVars == <<source, memory, revisions, asking, reading>>

\* What the policy tells apart: generic content from an organization source, or anything else.
Classes == {"generic", "other"}
Scopes == {"local", "organization_role"}

Entry == [status : {"none", "active", "retired"}, scope : Scopes, class : Classes,
          cites : 0..MaxSource, state : {"current", "stale", "removed"}, now : 0..MaxSource]

NoEntry == [status |-> "none", scope |-> "local", class |-> "other", cites |-> 0,
            state |-> "current", now |-> 0]

Unasked == [action |-> "none", pc |-> "idle", expected |-> 0, scope |-> "local",
            class |-> "other", cites |-> 0]

NotReading == [pc |-> "idle", entry |-> NoEntry, check |-> 0, again |-> FALSE]

MemoryTypeOK ==
  /\ source \in 0..MaxSource
  /\ memory \in Entry
  /\ Len(revisions) <= MaxVersions
  /\ \A i \in DOMAIN revisions : revisions[i] \in
       [by : Requests \cup {NoReading}, after : 0..MaxVersions, entry : Entry]
  /\ asking \in [Requests -> [action : {"none", "create", "update", "retire"},
       pc : {"idle", "evaluated", "verified", "answered"}, expected : 0..MaxVersions,
       scope : Scopes, class : Classes, cites : 0..MaxSource]]
  /\ reading \in [Readers -> [pc : {"idle", "check", "record"}, entry : Entry,
                              check : 0..MaxSource, again : BOOLEAN]]

\* Somebody else may have created the entry before.
CreatedBefore(scope, class) ==
  [status |-> "active", scope |-> scope, class |-> class, cites |-> 1, state |-> "current",
   now |-> 1]

MemoryInit ==
  /\ source = 1
  /\ \/ memory = NoEntry /\ revisions = <<>>
     \/ /\ memory \in {CreatedBefore("local", "other"),
                       CreatedBefore("organization_role", "generic")}
        /\ revisions = <<[by |-> NoReading, after |-> 0, entry |-> memory]>>
  /\ asking = [q \in Requests |-> Unasked]
  /\ reading = [p \in Readers |-> NotReading]

Version == Len(revisions)

\* Every change of the row appends the revision of its new version.
Revise(entry, by, after) ==
  /\ Version < MaxVersions
  /\ memory' = entry
  /\ revisions' = Append(revisions, [by |-> by, after |-> after, entry |-> entry])

-----------------------------------------------------------------------------
(* Writers *)

\* ConservativeMemoryPolicy.evaluate: what is not shown to be generic stays local.
EffectiveScope(scope, class) ==
  IF scope = "organization_role" /\ class # "generic" THEN "local" ELSE scope

\* create and update evaluate the policy and cite the source as their caller knows it; an
\* update must not narrow the entry's scope.
AskCreate(q, scope, class) ==
  /\ asking[q] = Unasked /\ source > 0
  /\ asking' = [asking EXCEPT ![q] =
       [action |-> "create", pc |-> "evaluated", expected |-> 0,
        scope |-> EffectiveScope(scope, class), class |-> class, cites |-> source]]
  /\ UNCHANGED <<source, memory, revisions, reading>>

AskUpdate(q, class) ==
  /\ asking[q] = Unasked /\ memory.status # "none" /\ source > 0
  /\ EffectiveScope(memory.scope, class) = memory.scope
  /\ asking' = [asking EXCEPT ![q] =
       [action |-> "update", pc |-> "evaluated", expected |-> Version,
        scope |-> memory.scope, class |-> class, cites |-> source]]
  /\ UNCHANGED <<source, memory, revisions, reading>>

AskRetire(q) ==
  /\ asking[q] = Unasked /\ memory.status # "none"
  /\ asking' = [asking EXCEPT ![q] =
       [Unasked EXCEPT !.action = "retire", !.pc = "verified", !.expected = Version]]
  /\ UNCHANGED <<source, memory, revisions, reading>>

Replayed(q) == \E i \in DOMAIN revisions : revisions[i].by = q

Answer(q) == asking' = [asking EXCEPT ![q].pc = "answered"]

\* The replay check and _require_current, before the transaction.
VerifySource(q) ==
  /\ asking[q].pc = "evaluated"
  /\ asking' = [asking EXCEPT ![q].pc =
       IF Replayed(q) \/ source # asking[q].cites THEN "answered" ELSE "verified"]
  /\ UNCHANGED <<source, memory, revisions, reading>>

Written(q) ==
  IF asking[q].action = "retire" THEN [memory EXCEPT !.status = "retired"]
  ELSE [status |-> "active", scope |-> asking[q].scope, class |-> asking[q].class,
        cites |-> asking[q].cites, state |-> "current", now |-> asking[q].cites]

\* Mutant: an update takes the row as it is.
ActiveNow(q) == IF asking[q].action = "create" THEN memory.status = "none"
                ELSE memory.status = "active"

\* create inserts a new row; update and retire compare the version they were given.
AsExpected(q) ==
  IF asking[q].action = "create" THEN memory.status = "none"
  ELSE memory.status = "active" /\ Version = asking[q].expected

\* The transaction of create, _mutate and retire.
Write(q) ==
  /\ asking[q].pc = "verified" /\ ~Replayed(q) /\ AsExpected(q)
  /\ Revise(Written(q), q, asking[q].expected)
  /\ Answer(q)
  /\ UNCHANGED <<source, reading>>

\* A replay returns the old revision; anything else is a conflict.
WriteRefused(q) ==
  /\ asking[q].pc = "verified" /\ (Replayed(q) \/ ~AsExpected(q))
  /\ Answer(q)
  /\ UNCHANGED <<source, memory, revisions, reading>>

\* The answer is lost, or the process died: the request is sent again.
RetryRequest(q) ==
  /\ asking[q].pc # "idle"
  /\ asking' = [asking EXCEPT ![q].pc =
       IF asking[q].action = "retire" THEN "verified" ELSE "evaluated"]
  /\ UNCHANGED <<source, memory, revisions, reading>>

-----------------------------------------------------------------------------
(* Readers: _refresh, which tries twice when the entry cites another source meanwhile. *)

BeginRefresh(p) ==
  /\ reading[p] = NotReading /\ memory.status # "none"
  /\ reading' = [reading EXCEPT ![p] = [NotReading EXCEPT !.pc = "check", !.entry = memory]]
  /\ UNCHANGED <<source, memory, revisions, asking>>

StateOf(entry, check) ==
  IF check = 0 THEN "removed" ELSE IF check = entry.cites THEN "current" ELSE "stale"

Known(entry, check) == entry.state = StateOf(entry, check) /\ entry.now = check

CheckSource(p) ==
  /\ reading[p].pc = "check"
  /\ reading' = [reading EXCEPT ![p] =
       IF Known(reading[p].entry, source) THEN NotReading
       ELSE [reading[p] EXCEPT !.pc = "record", !.check = source]]
  /\ UNCHANGED <<source, memory, revisions, asking>>

RecordCheck(p) ==
  LET check == reading[p].check
      same == memory.cites = reading[p].entry.cites
  IN
  /\ reading[p].pc = "record"
  /\ IF same /\ ~Known(memory, check)
     THEN Revise([memory EXCEPT !.state = StateOf(memory, check), !.now = check],
                 NoReading, Version)
     ELSE UNCHANGED <<memory, revisions>>
  /\ reading' = [reading EXCEPT ![p] =
       IF same \/ reading[p].again THEN NotReading
       ELSE [pc |-> "check", entry |-> memory, check |-> 0, again |-> TRUE]]
  /\ UNCHANGED <<source, asking>>

\* The source gets a new version, or is removed.
ChangeSource ==
  /\ source # 0 /\ source' \in {0} \cup {v \in {source + 1} : v <= MaxSource}
  /\ UNCHANGED <<memory, revisions, asking, reading>>

MemoryNext ==
  \/ ChangeSource
  \/ \E q \in Requests :
       \/ \E class \in Classes :
            AskUpdate(q, class) \/ \E scope \in Scopes : AskCreate(q, scope, class)
       \/ AskRetire(q) \/ VerifySource(q) \/ Write(q) \/ WriteRefused(q) \/ RetryRequest(q)
  \/ \E p \in Readers : BeginRefresh(p) \/ CheckSource(p) \/ RecordCheck(p)

-----------------------------------------------------------------------------
\* The history accounts for the entry: its last revision is the row, each request changed it
\* at most once and only from the very version its writer had read, whatever readers recorded
\* about the source in between, and nothing that is not known to be generic was ever shared
\* across projects (shared_memory.py _mutate, retire, _refresh; memory_policy.py evaluate).
RevisionTrail ==
  /\ memory = IF revisions = <<>> THEN NoEntry ELSE Last(revisions).entry
  /\ \A i \in DOMAIN revisions :
       /\ revisions[i].after = i - 1
       /\ revisions[i].by # NoReading =>
            \A j \in DOMAIN revisions : revisions[j].by = revisions[i].by => i = j
       /\ revisions[i].entry.scope = "organization_role" => revisions[i].entry.class = "generic"
=============================================================================
