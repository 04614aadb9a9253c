------------------------------- MODULE PmMonitor -------------------------------
(***************************************************************************)
(* The continuation monitor (continuation.py, migration 0013): one leased    *)
(* process at a time sweeps all open work and makes sure that each item goes *)
(* on, waits for a sponsor, or is handed to its project manager.  A sweep is *)
(* one transaction, except that the gates it opens are committed at once; it *)
(* works from the rows it read at its start while the work moves on.         *)
(***************************************************************************)
EXTENDS Naturals, FiniteSets

CONSTANTS
  Monitors,     \* owners that run the monitor
  Works,        \* work items
  Sponsored,    \* the items whose project has a sponsor
  NoMonitor,
  MaxLeases,    \* bound: claims of the monitor lease
  MaxVersion    \* bound: version of an item

ASSUME MonitorAssumption ==
  /\ Sponsored \subseteq Works /\ NoMonitor \notin Monitors
  /\ MaxLeases \in Nat \ {0} /\ MaxVersion \in Nat \ {0}

VARIABLES
  monitor,      \* pm_monitor_lease
  held,         \* the token each owner was given last
  item,         \* work items, with what their queues and payload say about going on
  asked,        \* clarification gates, <<item, version>>, by whether they are pending
  pmQueue,      \* project-manager envelopes, with the lease that routed them
  pmRoutable,   \* whether the project-manager role has a queue
  disposition,  \* continuation_status
  sweep         \* the sweep in progress

monitorVars == <<monitor, held, item, asked, pmQueue, pmRoutable, disposition, sweep>>

Versions == 1..MaxVersion
Payloads == {"clear", "question", "vague"}

\* An open item is new, active, or gated by the monitor's question ("asked") or by someone's
\* gate.  Nothing in the system changes its payload once it has one.
Row == [status : {"new", "active", "asked", "gated", "done"}, version : Versions,
        payload : Payloads, continues : BOOLEAN]
Disposition == [kind : {"none", "progressing", "waiting_sponsor", "sponsor_question",
                        "pm_routed", "routing_blocked"},
                version : 0..MaxVersion, about : 0..MaxVersion]

Unseen == [kind |-> "none", version |-> 0, about |-> 0]
NoSweep == [owner |-> NoMonitor, rows |-> <<>>, todo |-> {}, found |-> <<>>, routes |-> {}]

MonitorTypeOK ==
  /\ monitor \in [owner : Monitors \cup {NoMonitor}, token : 0..MaxLeases, live : BOOLEAN]
  /\ held \in [Monitors -> 0..MaxLeases]
  /\ item \in [Works -> Row]
  /\ asked \in [Works \X Versions -> {"none", "pending", "decided"}]
  /\ pmQueue \subseteq Works \X Versions \X (1..MaxLeases)
  /\ pmRoutable \in BOOLEAN
  /\ disposition \in [Works -> Disposition]
  /\ sweep.owner = NoMonitor => sweep = NoSweep
  /\ sweep.owner # NoMonitor =>
       /\ sweep.owner = monitor.owner /\ sweep.todo \subseteq Works
       /\ sweep.rows \in [Works -> Row] /\ sweep.found \in [Works -> Disposition]

MonitorInit ==
  /\ monitor = [owner |-> NoMonitor, token |-> 0, live |-> FALSE]
  /\ held = [m \in Monitors |-> 0]
  /\ item \in [Works -> {[status |-> "new", version |-> 1, payload |-> p, continues |-> FALSE] :
                         p \in Payloads}]
  /\ asked = [k \in Works \X Versions |-> "none"]
  /\ pmQueue = {}
  /\ pmRoutable = TRUE
  /\ disposition = [w \in Works |-> Unseen]
  /\ sweep = NoSweep

-----------------------------------------------------------------------------
(* The lease.  A sweep keeps its row locked to its end, so nobody claims meanwhile. *)

ClaimMonitor(m) ==
  /\ ~monitor.live /\ sweep = NoSweep /\ monitor.token < MaxLeases
  /\ monitor' = [owner |-> m, token |-> monitor.token + 1, live |-> TRUE]
  /\ held' = [held EXCEPT ![m] = monitor.token + 1]
  /\ UNCHANGED <<item, asked, pmQueue, pmRoutable, disposition, sweep>>

LapseMonitor ==
  /\ monitor.live /\ monitor' = [monitor EXCEPT !.live = FALSE]
  /\ UNCHANGED <<held, item, asked, pmQueue, pmRoutable, disposition, sweep>>

-----------------------------------------------------------------------------
(* sweep *)

BeginSweep(m) ==
  /\ sweep = NoSweep
  /\ monitor.owner = m /\ monitor.token = held[m] /\ monitor.live
  /\ sweep' = [owner |-> m, rows |-> item, todo |-> {w \in Works : item[w].status # "done"},
               found |-> disposition, routes |-> {}]
  /\ UNCHANGED <<monitor, held, item, asked, pmQueue, pmRoutable, disposition>>

Found(w, kind, about) ==
  [sweep EXCEPT !.todo = @ \ {w},
                !.found[w] = [kind |-> kind, version |-> sweep.rows[w].version, about |-> about]]

\* With a pending gate: the monitor's question about the version before, or another gate.
ObserveGated(w) ==
  /\ w \in sweep.todo
  /\ \/ /\ sweep.rows[w].status = "asked"
        /\ sweep' = Found(w, "sponsor_question", sweep.rows[w].version - 1)
     \/ sweep.rows[w].status = "gated" /\ sweep' = Found(w, "waiting_sponsor", 0)
  /\ UNCHANGED <<monitor, held, item, asked, pmQueue, pmRoutable, disposition>>

Ambiguous(w) == sweep.rows[w].status = "active" /\ sweep.rows[w].payload # "clear"

\* open_gate is a transaction of its own: it checks the version and gates the item.
AskSponsor(w) ==
  LET v == sweep.rows[w].version IN
  /\ w \in sweep.todo /\ Ambiguous(w) /\ sweep.rows[w].payload = "question" /\ w \in Sponsored
  /\ item[w].version = v /\ item[w].status = "active" /\ v < MaxVersion
  /\ asked' = [asked EXCEPT ![<<w, v>>] = "pending"]
  /\ item' = [item EXCEPT ![w].status = "asked", ![w].version = v + 1]
  /\ sweep' = Found(w, "sponsor_question", v)
  /\ UNCHANGED <<monitor, held, pmQueue, pmRoutable, disposition>>

ObserveProgress(w) ==
  /\ w \in sweep.todo /\ sweep.rows[w].status \in {"new", "active"} /\ ~Ambiguous(w)
  /\ sweep.rows[w].continues
  /\ sweep' = Found(w, "progressing", 0)
  /\ UNCHANGED <<monitor, held, item, asked, pmQueue, pmRoutable, disposition>>

\* Mutant: the idempotency key names the lease, too.
RoutedByThisLease(w, v, token) == <<w, v, token>> \in pmQueue

\* The idempotency key of a route is the item and its version.
RoutedBefore(w, v, token) == \E t \in 1..token : <<w, v, t>> \in pmQueue

\* _route_pm: the item neither goes on nor waits, or its ambiguity has no question to ask.  The
\* envelope of an item that was routed before is found without a look at the manager's queue.
RouteToPm(w) ==
  LET v == sweep.rows[w].version IN
  /\ w \in sweep.todo /\ sweep.rows[w].status \in {"new", "active"}
  /\ IF Ambiguous(w) THEN sweep.rows[w].payload = "vague" \/ w \notin Sponsored
                     ELSE ~sweep.rows[w].continues
  /\ \/ /\ RoutedBefore(w, v, monitor.token)
        /\ sweep' = Found(w, "pm_routed", v)
     \/ /\ ~RoutedBefore(w, v, monitor.token) /\ pmRoutable
        /\ sweep' = [Found(w, "pm_routed", v) EXCEPT !.routes = @ \cup {<<w, v, monitor.token>>}]
     \/ /\ ~RoutedBefore(w, v, monitor.token) /\ ~pmRoutable
        /\ sweep' = Found(w, "routing_blocked", 0)
  /\ UNCHANGED <<monitor, held, item, asked, pmQueue, pmRoutable, disposition>>

CommitSweep ==
  /\ sweep # NoSweep /\ sweep.todo = {}
  /\ disposition' = sweep.found
  /\ pmQueue' = pmQueue \cup sweep.routes
  /\ sweep' = NoSweep
  /\ UNCHANGED <<monitor, held, item, asked, pmRoutable>>

\* A version conflict of open_gate, any other failure, or the process dies: the whole sweep
\* is rolled back, but for the gates.
AbortSweep ==
  /\ sweep # NoSweep /\ sweep' = NoSweep
  /\ UNCHANGED <<monitor, held, item, asked, pmQueue, pmRoutable, disposition>>

-----------------------------------------------------------------------------
(* The work goes on *)

\* The item's version moves on: it is taken up, taken further, gated, or finished.
MoveOn(w) ==
  /\ item[w].status \in {"new", "active"} /\ item[w].version < MaxVersion
  /\ \E status \in (IF item[w].status = "new" THEN {"active"} ELSE {"active", "gated", "done"}),
        c \in BOOLEAN :
       item' = [item EXCEPT ![w].status = status, ![w].version = @ + 1,
                            ![w].continues = c]
  /\ UNCHANGED <<monitor, held, asked, pmQueue, pmRoutable, disposition, sweep>>

\* A queue item of the work appears, or is gone.
MoveQueue(w) ==
  /\ item[w].status \in {"new", "active"}
  /\ item' = [item EXCEPT ![w].continues = ~@]
  /\ UNCHANGED <<monitor, held, asked, pmQueue, pmRoutable, disposition, sweep>>

\* decide_gate: the item is active again, with the payload that made the monitor ask.
DecideGates(w) ==
  /\ item[w].status \in {"asked", "gated"} /\ item[w].version < MaxVersion
  /\ asked' = [k \in Works \X Versions |->
       IF k[1] = w /\ asked[k] = "pending" THEN "decided" ELSE asked[k]]
  /\ item' = [item EXCEPT ![w].status = "active", ![w].version = @ + 1]
  /\ UNCHANGED <<monitor, held, pmQueue, pmRoutable, disposition, sweep>>

ChangeRoles ==
  /\ pmRoutable' = ~pmRoutable
  /\ UNCHANGED <<monitor, held, item, asked, pmQueue, disposition, sweep>>

MonitorNext ==
  \/ LapseMonitor \/ CommitSweep \/ AbortSweep \/ ChangeRoles
  \/ \E m \in Monitors : ClaimMonitor(m) \/ BeginSweep(m)
  \/ \E w \in Works :
       \/ ObserveGated(w) \/ AskSponsor(w) \/ ObserveProgress(w) \/ RouteToPm(w)
       \/ MoveOn(w) \/ MoveQueue(w) \/ DecideGates(w)

-----------------------------------------------------------------------------
\* What the monitor reports is backed by something durable, and done once: an item reported as
\* routed has exactly one envelope for that version in the project manager's queue, and one
\* reported as a sponsor question has that question's gate, over lapsed leases, takeovers,
\* aborted sweeps and work that moves on meanwhile (continuation.py _route_pm, _observe).
DispositionBacked ==
  \A w \in Works :
    /\ disposition[w].kind = "pm_routed" =>
         Cardinality({e \in pmQueue : e[1] = w /\ e[2] = disposition[w].version}) = 1
    /\ disposition[w].kind = "sponsor_question" => asked[<<w, disposition[w].about>>] # "none"

\* How the items map to GatedWork: the monitor's questions are gates it knows, others are not.
Question(w) == <<w, item[w].version - 1>>

Living(w) == IF item[w].status = "asked" THEN "gated" ELSE item[w].status

Holding(w) ==
  CASE item[w].status = "asked" -> Question(w)
    [] item[w].status = "gated" -> "other"
    [] OTHER -> "none"

ItemLife == [w \in Works |-> Living(w)]
ItemHeld == [w \in Works |-> Holding(w)]

MonitorGating == INSTANCE GatedWork WITH
  Work <- Works, Gates <- Works \X Versions, Unnamed <- "other", NoGate <- "none",
  Outcomes <- {"decided"}, Ends <- {"done"},
  life <- ItemLife, heldBy <- ItemHeld, outcome <- asked

\* Sweeps, which ask from rows that may be old, never put a second gate on work nor one on work
\* that is over, and a question is answered by the decision that releases its work
\* (continuation.py _observe; lifecycle.py open_gate).
MonitorGatesWork == MonitorGating!GatedSpec

=============================================================================
