------------------------------ MODULE ReadModel ------------------------------
(***************************************************************************)
(* The live read models of one project: transactions that change source     *)
(* rows, the trigger that appends a projection event for each change, the    *)
(* store that replays the events into entities, and the SSE streams that     *)
(* follow them (read_models.py, migration 0005, api.py live_events).         *)
(*                                                                         *)
(* Event ids come from an identity column when the row is written, and are   *)
(* seen by others when the transaction commits: two transactions may commit  *)
(* in the other order than they drew their ids, and a rollback leaves a gap. *)
(*                                                                         *)
(* An entity is made of source rows ("parts"): a work item or a role is its  *)
(* own row, a queue is its items, whose number is its payload.               *)
(***************************************************************************)
EXTENDS Naturals, FiniteSets, FiniteSetsExt

CONSTANTS
  Parts,      \* source rows
  Entities,
  EntityOf,   \* the entity a row belongs to
  Values,     \* what a row may hold
  Writers,    \* database sessions that change rows
  Streams,    \* SSE clients
  MaxEvents,  \* bound: projection events ever drawn
  Limits,     \* batch limits that are asked for
  Absent

ASSUME ReadModelAssumption ==
  /\ EntityOf \in [Parts -> Entities]
  /\ Absent \notin Values /\ "store" \notin Streams
  /\ MaxEvents \in Nat /\ Limits \subseteq Nat \ {0}

VARIABLES
  source,   \* committed value of each row, Absent when there is no row
  txn,      \* per writer: uncommitted rows and drawn events
  events,   \* committed projection events by id
  nextId,   \* the identity sequence
  model,    \* read_model_entities
  cursor,   \* read_model_cursors.last_event_id
  stream,   \* per client: last id received, ids received, rest of the batch being sent
  late      \* per reader: ids that became visible behind its position

readModelVars == <<source, txn, events, nextId, model, cursor, stream, late>>

PartsOf(e) == {p \in Parts : EntityOf[p] = e}

\* An aggregate stays when its last item goes: its event is an upsert of depth 0.
Aggregate(e) == Cardinality(PartsOf(e)) > 1

Payloads == UNION {[PartsOf(e) -> Values \cup {Absent}] : e \in Entities}

Event == [entity : Entities, payload : Payloads]

Ids == 1..MaxEvents

NoRow == [id |-> 0, payload |-> Absent]

Store == "store"

Drawn(w) == DOMAIN txn[w].events

ReadModelTypeOK ==
  /\ source \in [Parts -> Values \cup {Absent}]
  /\ \A w \in Writers :
       /\ DOMAIN txn[w].rows \subseteq Parts
       /\ Drawn(w) \subseteq 1..(nextId - 1) \ DOMAIN events
       /\ \A v \in Writers \ {w} : Drawn(v) \cap Drawn(w) = {}
  /\ DOMAIN events \subseteq 1..(nextId - 1)
  /\ \A n \in DOMAIN events : events[n] \in Event
  /\ nextId \in 1..(MaxEvents + 1)
  /\ DOMAIN model = Entities
  /\ \A e \in Entities : model[e] = NoRow \/ model[e].id \in DOMAIN events
  /\ cursor \in 0..MaxEvents
  /\ \A s \in Streams : stream[s].last \in 0..MaxEvents /\ stream[s].got \subseteq Ids
  /\ late \in [Streams \cup {Store} -> SUBSET Ids]

NoTxn == [rows |-> <<>>, events |-> <<>>]

ReadModelInit ==
  /\ source = [p \in Parts |-> Absent]
  /\ txn = [w \in Writers |-> NoTxn]
  /\ events = <<>>
  /\ nextId = 1
  /\ model = [e \in Entities |-> NoRow]
  /\ cursor = 0
  /\ stream = [s \in Streams |-> [last |-> 0, got |-> {}, batch |-> {}]]
  /\ late = [r \in Streams \cup {Store} |-> {}]

-----------------------------------------------------------------------------
(* Source transactions *)

\* f with the mappings of g, which win.
Over(f, g) == [x \in DOMAIN f \cup DOMAIN g |-> IF x \in DOMAIN g THEN g[x] ELSE f[x]]

\* What a statement of w sees: its own rows over the committed ones.
Visible(w) == Over(source, txn[w].rows)

\* Mutant: rows are changed without a row lock.
UnlockedAlways(w, p) == TRUE

\* Postgres lets one transaction at a time change a row.
Unlocked(w, p) == \A v \in Writers \ {w} : p \notin DOMAIN txn[v].rows

\* One INSERT, UPDATE or DELETE, with emit_read_model_event in the same transaction.
Write(w, p, value) ==
  LET rows == Over(txn[w].rows, [q \in {p} |-> value])
      e == EntityOf[p]
      event == [entity |-> e,
                payload |-> [q \in PartsOf(e) |-> Over(source, rows)[q]]]
  IN
  /\ Unlocked(w, p) /\ Visible(w)[p] # value
  /\ nextId <= MaxEvents
  /\ txn' = [txn EXCEPT ![w] =
       [rows |-> rows, events |-> Over(@.events, [n \in {nextId} |-> event])]]
  /\ nextId' = nextId + 1
  /\ UNCHANGED <<source, events, model, cursor, stream, late>>

Furthest(id, batch) == IF batch = {} THEN id ELSE Max(batch)

\* The last id a stream's server has read for its client.
Fetched(s) == Furthest(stream[s].last, stream[s].batch)

Position(r) == IF r = Store THEN cursor ELSE Fetched(r)

Commit(w) ==
  /\ txn[w] # NoTxn
  /\ source' = Visible(w)
  /\ events' = Over(events, txn[w].events)
  /\ late' = [r \in Streams \cup {Store} |->
       late[r] \cup {n \in Drawn(w) : n <= Position(r)}]
  /\ txn' = [txn EXCEPT ![w] = NoTxn]
  /\ UNCHANGED <<nextId, model, cursor, stream>>

\* A rollback, or a crash of the session: the drawn ids are never used again.
Rollback(w) ==
  /\ txn[w] # NoTxn
  /\ txn' = [txn EXCEPT ![w] = NoTxn]
  /\ UNCHANGED <<source, events, nextId, model, cursor, stream, late>>

-----------------------------------------------------------------------------
(* Replay *)

\* Mutant: the events are read without ORDER BY.
FirstUnordered(limit, S) ==
  IF Cardinality(S) <= limit THEN S
  ELSE {n \in S : Cardinality({m \in S : m > n}) < limit}

\* ORDER BY event_id LIMIT limit.
First(limit, S) == {n \in S : Cardinality({m \in S : m < n}) < limit}

After(id) == {n \in DOMAIN events : n > id}

\* _apply_available on rows: an entity takes its newest event of the batch; a delete
\* removes the row, an upsert replaces it.
Applied(rows, batch) ==
  [e \in Entities |->
    LET own == {n \in batch : events[n].entity = e}
        n == Max(own)
        gone == ~Aggregate(e) /\ \A p \in PartsOf(e) : events[n].payload[p] = Absent
    IN IF own = {} THEN rows[e]
       ELSE IF gone THEN NoRow
       ELSE [id |-> n, payload |-> events[n].payload]]

\* advance, also each batch of snapshot, under the project's advisory lock.
AdvanceStore(limit) ==
  LET batch == First(limit, After(cursor)) IN
  /\ batch # {}
  /\ model' = Applied(model, batch)
  /\ cursor' = Furthest(cursor, batch)
  /\ UNCHANGED <<source, txn, events, nextId, stream, late>>

\* Mutant: the entities are cleared, the cursor is not.
RebuildKeepsCursor ==
  LET batch == After(cursor) IN
  /\ model' = Applied([e \in Entities |-> NoRow], batch)
  /\ cursor' = Furthest(cursor, batch)
  /\ late' = [late EXCEPT ![Store] = {}]
  /\ UNCHANGED <<source, txn, events, nextId, stream>>

\* rebuild: both tables are cleared and every event is applied again.
Rebuild ==
  /\ model' = Applied([e \in Entities |-> NoRow], DOMAIN events)
  /\ cursor' = Furthest(0, DOMAIN events)
  /\ late' = [late EXCEPT ![Store] = {}]
  /\ UNCHANGED <<source, txn, events, nextId, stream>>

-----------------------------------------------------------------------------
(* Server-sent events *)

\* generate: one bounded read after the last id that was sent.
Fetch(s, limit) ==
  /\ stream[s].batch = {} /\ After(stream[s].last) # {}
  /\ stream' = [stream EXCEPT ![s].batch = First(limit, After(stream[s].last))]
  /\ UNCHANGED <<source, txn, events, nextId, model, cursor, late>>

\* The rows of the batch go out in the order of their ids.
Deliver(s) ==
  LET n == Min(stream[s].batch) IN
  /\ stream[s].batch # {}
  /\ stream' = [stream EXCEPT ![s] =
       [last |-> n, got |-> @.got \cup {n}, batch |-> @.batch \ {n}]]
  /\ UNCHANGED <<source, txn, events, nextId, model, cursor, late>>

\* The connection is lost with the rest of its batch, and the client comes back with
\* Last-Event-ID.  What became visible behind the lost batch only is not late.
Reconnect(s) ==
  /\ stream[s].batch # {}
  /\ stream' = [stream EXCEPT ![s].batch = {}]
  /\ late' = [late EXCEPT ![s] = {n \in @ : n <= stream[s].last}]
  /\ UNCHANGED <<source, txn, events, nextId, model, cursor>>

ReadModelNext ==
  \/ \E w \in Writers, p \in Parts, value \in Values \cup {Absent} : Write(w, p, value)
  \/ \E w \in Writers : Commit(w)
  \/ \E w \in Writers : Rollback(w)
  \/ \E limit \in Limits : AdvanceStore(limit)
  \/ Rebuild
  \/ \E s \in Streams, limit \in Limits : Fetch(s, limit)
  \/ \E s \in Streams : Deliver(s)
  \/ \E s \in Streams : Reconnect(s)

ReadModelSpec == ReadModelInit /\ [][ReadModelNext]_readModelVars

-----------------------------------------------------------------------------
(* Properties *)

EventsOf(e) == {n \in DOMAIN events : events[n].entity = e}

\* A row that is an entity of its own is what its newest event says, whoever else
\* wrote, committed or rolled back in between.
NewestIsSource ==
  \A p \in Parts : PartsOf(EntityOf[p]) = {p} =>
    LET own == EventsOf(EntityOf[p]) IN
    source[p] = IF own = {} THEN Absent ELSE events[Max(own)].payload[p]

\* Readers of the log have all of it up to where they are, but for events that became
\* visible behind their backs.  Batch after batch, or by a rebuild, the store arrives at what
\* one replay up to its cursor gives; and a client, however often it reconnects, received
\* every event up to the last it saw (read_models.py advance, rebuild; api.py live_events).
ReadersComplete ==
  LET replay == Applied([e \in Entities |-> NoRow], {n \in DOMAIN events : n <= cursor})
  IN /\ \A e \in Entities : EventsOf(e) \cap late[Store] = {} => model[e] = replay[e]
     /\ \A s \in Streams :
          \A n \in DOMAIN events \ late[s] : n <= stream[s].last => n \in stream[s].got

\* A rebuild that finds no transaction open makes up for the late events too: every
\* row that is an entity of its own then shows its source.
RebuildRepairs ==
  [][Rebuild /\ (\A w \in Writers : txn[w] = NoTxn)
       => /\ \A n \in DOMAIN events : n <= cursor'
          /\ \A p \in Parts : PartsOf(EntityOf[p]) = {p} =>
               model'[EntityOf[p]].payload =
                 IF source[p] = Absent THEN Absent ELSE [q \in {p} |-> source[p]]]_readModelVars

\* "reconnect resumes after the supplied ID without losing later committed project
\* events" (amv5-019): the code does not keep this, ids commit out of order.
NothingLost ==
  \A s \in Streams : \A n \in DOMAIN events : n <= stream[s].last => n \in stream[s].got

==============================================================================
