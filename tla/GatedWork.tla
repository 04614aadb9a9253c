------------------------------- MODULE GatedWork -------------------------------
(***************************************************************************)
(* What every component that opens or decides gates relies on, and owes the  *)
(* others.  Work is begun once, is held by one gate at a time, and ends once. *)
(* While it is held it cannot end, nothing but the resolution of the very    *)
(* gate that holds it lets it go on, and what a gate was resolved to stays.  *)
(* WorkLifecycle, FlowRun and PmMonitor, which each keep work items and gates *)
(* in the detail they need, implement this specification.                    *)
(***************************************************************************)
CONSTANTS
  Work,
  Gates,     \* the gates that a component knows by name
  Unnamed,   \* any gate of somebody else
  NoGate,
  Outcomes,  \* what a gate may be resolved to
  Ends       \* the ways in which work may end

VARIABLES
  life,      \* new, active, gated, or ended
  heldBy,    \* the gate that holds it
  outcome    \* of each gate: none, pending, or what it was resolved to

gatedVars == <<life, heldBy, outcome>>

GatedInit ==
  /\ \/ life = [w \in Work |-> "new"]
     \/ life = [w \in Work |-> "active"]
  /\ heldBy = [w \in Work |-> NoGate]
  /\ outcome = [g \in Gates |-> "none"]

Begin(w) ==
  /\ life[w] = "new"
  /\ life' = [life EXCEPT ![w] = "active"]
  /\ UNCHANGED <<heldBy, outcome>>

Hold(w, g) ==
  /\ life[w] = "active"
  /\ life' = [life EXCEPT ![w] = "gated"]
  /\ heldBy' = [heldBy EXCEPT ![w] = g]
  /\ \/ g = Unnamed /\ UNCHANGED outcome
     \/ /\ g \in Gates /\ outcome[g] = "none"
        /\ outcome' = [outcome EXCEPT ![g] = "pending"]

Resolve(w, o) ==
  /\ life[w] = "gated"
  /\ life' = [life EXCEPT ![w] = "active"]
  /\ heldBy' = [heldBy EXCEPT ![w] = NoGate]
  /\ \/ heldBy[w] = Unnamed /\ UNCHANGED outcome
     \/ /\ heldBy[w] \in Gates /\ outcome[heldBy[w]] = "pending"
        /\ outcome' = [outcome EXCEPT ![heldBy[w]] = o]

End(w, e) ==
  /\ life[w] = "active"
  /\ life' = [life EXCEPT ![w] = e]
  /\ UNCHANGED <<heldBy, outcome>>

GatedNext ==
  \E w \in Work :
    \/ Begin(w)
    \/ \E g \in Gates \cup {Unnamed} : Hold(w, g)
    \/ \E o \in Outcomes : Resolve(w, o)
    \/ \E e \in Ends : End(w, e)

GatedSpec == GatedInit /\ [][GatedNext]_gatedVars

=============================================================================
