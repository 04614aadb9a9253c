----------------------------- MODULE Conversation -----------------------------
(***************************************************************************)
(* What the turns of a conversation promise to whoever relies on them,      *)
(* without the steps of run_once.  Many instances may be at it, but only one *)
(* operation is current; a turn counts if its operation was current from its *)
(* beginning to its end, on one thread and under one prompt.  An item is     *)
(* acknowledged once: after a turn of its own that counted, or because an    *)
(* earlier turn has recorded its attempt.  RoleTurn implements this.         *)
(***************************************************************************)
EXTENDS Naturals

CONSTANTS Items, Instances, Digests, None

VARIABLES
  thread,      \* the prompt digest and the generation of the conversation's thread
  current,     \* whose operation is under way
  turn,        \* per instance: its item, how far it is, and the thread it works on
  attempted,   \* items whose attempt is recorded
  acknowledged

conversationVars == <<thread, current, turn, attempted, acknowledged>>

NoThread == <<None, 0>>
Away == [item |-> None, stage |-> "away", on |-> NoThread]
TurnOf(k, stage, on) == [item |-> k, stage |-> stage, on |-> on]

ConversationInit ==
  /\ thread = NoThread /\ current = None
  /\ turn = [i \in Instances |-> Away]
  /\ attempted = {} /\ acknowledged = {}

Take(i, k) ==
  /\ turn[i] = Away /\ k \notin acknowledged
  /\ turn' = [turn EXCEPT ![i] = TurnOf(k, "ready", NoThread)]
  /\ UNCHANGED <<thread, current, attempted, acknowledged>>

\* On the thread there is, or on the first.
Start(i) ==
  /\ turn[i].stage = "ready" /\ current = None
  /\ current' = i
  /\ IF thread = NoThread THEN \E d \in Digests : thread' = <<d, 1>> ELSE UNCHANGED thread
  /\ turn' = [turn EXCEPT ![i] = TurnOf(turn[i].item, "working", thread')]
  /\ UNCHANGED <<attempted, acknowledged>>

\* A current operation may be given up for lost at any time; its instance may not know.
Supersede ==
  /\ current # None /\ current' = None
  /\ UNCHANGED <<thread, turn, attempted, acknowledged>>

Attempt(i) ==
  /\ turn[i].stage = "working"
  /\ attempted' = attempted \cup {turn[i].item}
  /\ UNCHANGED <<thread, current, turn, acknowledged>>

\* Only the current operation ends well, on the thread it began on.
Conclude(i) ==
  /\ turn[i].stage = "working" /\ current = i /\ turn[i].on = thread
  /\ current' = None
  /\ turn' = [turn EXCEPT ![i] = TurnOf(turn[i].item, "credited", NoThread)]
  /\ UNCHANGED <<thread, attempted, acknowledged>>

Confirm(i) ==
  /\ \/ turn[i].stage = "credited"
     \/ turn[i].stage = "ready" /\ turn[i].item \in attempted
  /\ turn[i].item \notin acknowledged
  /\ acknowledged' = acknowledged \cup {turn[i].item}
  /\ turn' = [turn EXCEPT ![i] = Away]
  /\ UNCHANGED <<thread, current, attempted>>

\* Whatever goes wrong, the turn counts no more.
Lose(i) ==
  /\ turn[i].stage \in {"ready", "working", "credited"}
  /\ turn' = [turn EXCEPT ![i] = TurnOf(turn[i].item, "lost", NoThread)]
  /\ UNCHANGED <<thread, current, attempted, acknowledged>>

\* An instance gives up or dies, and its operation stays current until it is superseded.
Leave(i) ==
  /\ turn[i] # Away
  /\ turn' = [turn EXCEPT ![i] = Away]
  /\ UNCHANGED <<thread, current, attempted, acknowledged>>

\* The conversation goes on under another prompt, on a thread seeded from this one.
Succeed(d) ==
  /\ current = None /\ thread # NoThread /\ thread[1] # d
  /\ thread' = <<d, thread[2] + 1>>
  /\ UNCHANGED <<current, turn, attempted, acknowledged>>

ConversationNext ==
  \/ \E i \in Instances :
       \/ \E k \in Items : Take(i, k)
       \/ Start(i) \/ Attempt(i) \/ Conclude(i) \/ Confirm(i) \/ Lose(i) \/ Leave(i)
  \/ Supersede
  \/ \E d \in Digests : Succeed(d)

ConversationSpec == ConversationInit /\ [][ConversationNext]_conversationVars

=============================================================================
