----------------------------- MODULE GovernedFlow -----------------------------
(***************************************************************************)
(* What the flow engine promises its users, without operations, handoffs,   *)
(* journals or restarts.  The work is in one state of the flow at a time.    *)
(* On entering it owes evidence: what the state asks of work as it is known  *)
(* at that moment.  What is owed only becomes less.  Owing nothing, it is    *)
(* known anew and departs along one route for what is known, the impact that *)
(* was assessed, arrives where it was bound for, or, where no route leaves,  *)
(* is completed and then ended.                                              *)
(* A departure, an arrival and an end are one step each.                     *)
(* FlowRun implements this specification.                                   *)
(***************************************************************************)
CONSTANTS
  Entry,     \* the state the work enters by
  Needs,     \* the kinds of evidence asked for, by state and what is known of the work
  Links,     \* the routes
  Verdicts,  \* the impacts that may be assessed
  Nothing    \* no destination, nothing known, or no impact assessed

VARIABLES
  phase,    \* absent, staying in a state, going to the next, or ended
  place,    \* the state it is in, or left last
  bound,    \* the state it is going to
  facts,    \* what is known of the work: its impact
  due,      \* the evidence the state asked for when it was entered
  owed,     \* the part of it that is missing
  verdict,  \* the impact that was assessed last
  work      \* open, completed by the flow, or elsewhere

gvars == <<phase, place, bound, facts, due, owed, verdict, work>>

GInit ==
  /\ phase = "absent" /\ place = Entry /\ bound = Nothing
  /\ facts = Nothing /\ due = {} /\ owed = {} /\ verdict = Nothing /\ work = "open"

Enter ==
  /\ phase = "absent"
  /\ phase' = "staying"
  /\ facts' \in Verdicts \cup {Nothing}
  /\ due' = Needs[place, facts'] /\ owed' = due'
  /\ UNCHANGED <<place, bound, verdict, work>>

\* Evidence is given, an assessment of the impact perhaps with it.
Supply ==
  /\ phase = "staying"
  /\ owed' \in SUBSET owed
  /\ verdict' \in Verdicts \cup {verdict}
  /\ UNCHANGED <<phase, place, bound, facts, due, work>>

\* What is known of work that owes nothing is settled, as it was assessed.
Settle ==
  /\ phase = "staying" /\ owed = {}
  /\ facts' \in Verdicts /\ verdict \in {Nothing, facts'}
  /\ UNCHANGED <<phase, place, bound, due, owed, verdict, work>>

Depart(link) ==
  /\ phase = "staying" /\ owed = {}
  /\ link.from = place /\ link.impact \in {"any", facts}
  /\ verdict \in {Nothing, facts}
  /\ phase' = "going" /\ bound' = link.to
  /\ UNCHANGED <<place, facts, due, owed, verdict, work>>

Arrive ==
  /\ phase = "going"
  /\ phase' = "staying" /\ place' = bound /\ bound' = Nothing
  /\ due' = Needs[bound, facts] /\ owed' = due'
  /\ UNCHANGED <<facts, verdict, work>>

AtEnd == phase = "staying" /\ owed = {} /\ \A link \in Links : link.from # place

Complete ==
  /\ work = "open" /\ AtEnd
  /\ work' = "completed"
  /\ UNCHANGED <<phase, place, bound, facts, due, owed, verdict>>

\* The flow is not the only one to complete work.
CompleteElsewhere ==
  /\ work = "open"
  /\ work' = "elsewhere"
  /\ UNCHANGED <<phase, place, bound, facts, due, owed, verdict>>

End ==
  /\ work = "completed" /\ AtEnd
  /\ phase' = "ended"
  /\ UNCHANGED <<place, bound, facts, due, owed, verdict, work>>

GNext ==
  \/ Enter \/ Supply \/ Settle \/ Arrive \/ Complete \/ CompleteElsewhere \/ End
  \/ \E link \in Links : Depart(link)

GSpec == GInit /\ [][GNext]_gvars

==============================================================================
