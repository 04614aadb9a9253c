---------------------------- MODULE Notifications ----------------------------
(***************************************************************************)
(* What the sponsors see of one gate: the outbox of the event journal         *)
(* (events.py), the Teams adapter that delivers its rows, and the callback    *)
(* of an approval card (teams_notifications.py, teams_connector.py).          *)
(*                                                                         *)
(* A dispatcher delivers a row inside the transaction that will mark it: the   *)
(* sponsors get their messages one by one, and a failure at any of them, or   *)
(* after the last, leaves the row to be delivered again in full.  A callback   *)
(* that finds the gate overdue updates the cards itself, outside the outbox.   *)
(* available_at only delays a row, so any row that is left may come next.      *)
(***************************************************************************)
EXTENDS Naturals, FiniteSets

CONSTANTS
  Recipients,  \* the sponsors of the gate, who are also those of the project
  Posters      \* processes: dispatchers, callbacks and API requests

VARIABLES
  approval,  \* the gate: none, pending, approved, rejected or timed_out
  overdue,   \* its expires_at has passed
  inTime,    \* history: it was decided before that
  outbox,    \* per topic: absent, waiting or dispatched
  posted,    \* per sponsor: the messages Teams has, as <<topic, operation id>>
  card,      \* per sponsor: what the approval card shows
  job,       \* per process: what it is doing, and for which sponsors still
  blocked    \* the connector cannot send: binding, credential or installation

noticeVars == <<approval, overdue, inTime, outbox, posted, card, job, blocked>>

Topics == {"approval", "approval-status", "progress"}
Decisions == {"approved", "rejected"}

NoJob == [kind |-> "idle", todo |-> {}, status |-> "none"]

NoticeTypeOK ==
  /\ approval \in {"none", "pending", "timed_out"} \cup Decisions
  /\ overdue \in BOOLEAN /\ inTime \in BOOLEAN
  /\ outbox \in [Topics -> {"absent", "waiting", "dispatched"}]
  /\ DOMAIN posted = Recipients
  /\ card \in [Recipients -> {"none", "open", "expired"} \cup Decisions]
  /\ job \in [Posters -> [kind : {"idle", "expire", "decide", "deciding"} \cup Topics,
                          todo : SUBSET Recipients,
                          status : {"none", "expired"} \cup Decisions]]
  /\ blocked \in BOOLEAN
  /\ \A p \in Posters : job[p].kind \in Topics => outbox[job[p].kind] = "waiting"

NoticeInit ==
  /\ approval = "none" /\ overdue = FALSE /\ inTime = FALSE
  /\ outbox = [t \in Topics |-> "absent"]
  /\ posted = [r \in Recipients |-> {}]
  /\ card = [r \in Recipients |-> "none"]
  /\ job = [p \in Posters |-> NoJob]
  /\ blocked = FALSE

-----------------------------------------------------------------------------
(* What writes rows: append (events.py), in the transaction of the change it tells of *)

AppendEvent(topic) == outbox' = [outbox EXCEPT ![topic] = "waiting"]

RequestApproval ==
  /\ approval = "none"
  /\ approval' = "pending"
  /\ AppendEvent("approval")
  /\ UNCHANGED <<overdue, inTime, posted, card, job, blocked>>

Deadline ==
  /\ approval # "none" /\ ~overdue
  /\ overdue' = TRUE
  /\ UNCHANGED <<approval, inTime, outbox, posted, card, job, blocked>>

\* TeamsProgressPublisher.publish: under the checkpoint's lock, the second call for
\* it finds the first one's event.
PublishProgress ==
  /\ outbox["progress"] = "absent"
  /\ AppendEvent("progress")
  /\ UNCHANGED <<approval, overdue, inTime, posted, card, job, blocked>>

\* decide and timeout hold the gate's row while they work.
GateLocked == \E p \in Posters : job[p].kind = "deciding"

TimeoutGate ==
  /\ approval = "pending" /\ overdue /\ ~GateLocked
  /\ approval' = "timed_out"
  /\ AppendEvent("approval-status")
  /\ UNCHANGED <<overdue, inTime, posted, card, job, blocked>>

\* decide, from a card or from the API: the clock is asked once the row is locked, and
\* the deadline may pass before the commit.
BeginDecision(p) ==
  /\ job[p].kind = "decide" /\ ~GateLocked
  /\ job' = [job EXCEPT ![p] =
       IF approval = "pending" /\ ~overdue THEN [@ EXCEPT !.kind = "deciding"] ELSE NoJob]
  /\ UNCHANGED <<approval, overdue, inTime, outbox, posted, card, blocked>>

CommitDecision(p) ==
  /\ job[p].kind = "deciding"
  /\ approval' = job[p].status
  /\ inTime' = ~overdue
  /\ AppendEvent("approval-status")
  /\ job' = [job EXCEPT ![p] = NoJob]
  /\ UNCHANGED <<overdue, posted, card, blocked>>

RequestDecision(p, decision) ==
  /\ job[p].kind = "idle" /\ approval # "none"
  /\ job' = [job EXCEPT ![p] = [NoJob EXCEPT !.kind = "decide", !.status = decision]]
  /\ UNCHANGED <<approval, overdue, inTime, outbox, posted, card, blocked>>

-----------------------------------------------------------------------------
(* Delivery *)

\* The status of an approval row names what its cards are to show.
StatusOf == IF approval = "timed_out" THEN "expired" ELSE approval

\* _approval_delivery asks for a request that was dispatched: before that an update
\* fails, and its row waits for another attempt as if nothing had happened.
Deliverable(topic) ==
  /\ outbox[topic] = "waiting"
  /\ topic = "approval-status" => outbox["approval"] = "dispatched"

\* dispatch_one takes a row that no other dispatcher has locked.
Dispatch(p, topic) ==
  /\ job[p].kind = "idle"
  /\ Deliverable(topic)
  /\ \A q \in Posters : job[q].kind # topic
  /\ job' = [job EXCEPT ![p] = [kind |-> topic, todo |-> Recipients,
       status |-> IF topic = "approval-status" THEN StatusOf ELSE "none"]]
  /\ UNCHANGED <<approval, overdue, inTime, outbox, posted, card, blocked>>

\* Mutant: every process names its own operation.
OperationIdOfProcess(p, topic) == p

\* The operation id of a message is made of the row's idempotency key and the sponsor:
\* whoever sends it again sends the same one.
OperationId(p, topic) == topic

\* Teams answers an operation it knows with the message it made for it.
PostOnce(p, topic, r) ==
  posted' = [posted EXCEPT ![r] = @ \cup {<<topic, OperationId(p, topic)>>}]

\* send_personal_card and send_personal_message, for one sponsor of the row.
Post(p, r) ==
  LET topic == job[p].kind IN
  /\ topic \in {"approval", "progress"} /\ r \in job[p].todo /\ ~blocked
  /\ PostOnce(p, topic, r)
  /\ card' = IF topic = "approval" /\ card[r] = "none" THEN [card EXCEPT ![r] = "open"] ELSE card
  /\ job' = [job EXCEPT ![p].todo = @ \ {r}]
  /\ UNCHANGED <<approval, overdue, inTime, outbox, blocked>>

\* update_approval, for one sponsor: the original card is sent again under its old
\* operation id, which gives the id of the card to update.
UpdateCard(p, r) ==
  /\ job[p].kind \in {"approval-status", "expire"} /\ r \in job[p].todo /\ ~blocked
  /\ PostOnce(p, "approval", r)
  /\ card' = [card EXCEPT ![r] = job[p].status]
  /\ job' = [job EXCEPT ![p].todo = @ \ {r}]
  /\ UNCHANGED <<approval, overdue, inTime, outbox, blocked>>

\* deliver returned its receipt: the row is marked and the transaction commits.
MarkDispatched(p) ==
  /\ job[p].kind \in Topics /\ job[p].todo = {}
  /\ outbox' = [outbox EXCEPT ![job[p].kind] = "dispatched"]
  /\ job' = [job EXCEPT ![p] = NoJob]
  /\ UNCHANGED <<approval, overdue, inTime, posted, card, blocked>>

\* Whatever a process does may fail, after its last message as well.  An adapter that raised
\* only delays its row; a transaction that died leaves it alone.
FailJob(p) ==
  /\ job[p].kind # "idle"
  /\ job' = [job EXCEPT ![p] = NoJob]
  /\ UNCHANGED <<approval, overdue, inTime, outbox, posted, card, blocked>>

-----------------------------------------------------------------------------
(* The callback of a card *)

\* _expired: an unlocked read of the gate.
Expired == approval = "pending" /\ overdue

\* A sponsor answers the card: handle, up to what it does about it.
AnswerCard(p, decision) ==
  /\ job[p].kind = "idle"
  /\ outbox["approval"] = "dispatched"
  /\ job' = [job EXCEPT ![p] =
       IF Expired THEN [kind |-> "expire", todo |-> Recipients, status |-> "expired"]
       ELSE [kind |-> "decide", todo |-> {}, status |-> decision]]
  /\ UNCHANGED <<approval, overdue, inTime, outbox, posted, card, blocked>>

\* All cards are expired; the gate itself is left to its leader.
AnswerExpired(p) ==
  /\ job[p].kind = "expire" /\ job[p].todo = {}
  /\ job' = [job EXCEPT ![p] = NoJob]
  /\ UNCHANGED <<approval, overdue, inTime, outbox, posted, card, blocked>>

\* Binding, credential, installation or permission goes and comes back (_ready).
BlockOrUnblock ==
  /\ blocked' = ~blocked
  /\ UNCHANGED <<approval, overdue, inTime, outbox, posted, card, job>>

NoticeNext ==
  \/ RequestApproval \/ Deadline \/ PublishProgress \/ TimeoutGate \/ BlockOrUnblock
  \/ \E p \in Posters :
       \/ BeginDecision(p) \/ CommitDecision(p) \/ MarkDispatched(p) \/ FailJob(p)
       \/ AnswerExpired(p)
       \/ \E decision \in Decisions : RequestDecision(p, decision) \/ AnswerCard(p, decision)
       \/ \E t \in Topics : Dispatch(p, t)
       \/ \E r \in Recipients : Post(p, r) \/ UpdateCard(p, r)

-----------------------------------------------------------------------------
(* Properties *)

\* A row marked as dispatched reached every sponsor, and however often it was delivered,
\* by whichever process, each of them has one message of it (dispatch_one delivers again
\* after a failure; the operation ids keep Teams from repeating it).  A card never claims
\* a decision the gate did not take, and never says expired of a gate that was decided in
\* time, although a callback reads the gate without a lock (_expired) and updates the
\* cards behind the back of the outbox.
SponsorsTold ==
  \A r \in Recipients :
    /\ \A t \in {"approval", "progress"} :
         /\ Cardinality({m \in posted[r] : m[1] = t}) <= 1
         /\ outbox[t] = "dispatched" => \E m \in posted[r] : m[1] = t
    /\ outbox["approval-status"] = "dispatched" => card[r] \notin {"none", "open"}
    /\ card[r] \in Decisions => approval = card[r]
    /\ card[r] = "expired" => overdue /\ ~inTime

==============================================================================
