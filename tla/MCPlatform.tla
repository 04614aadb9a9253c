----------------------------- MODULE MCPlatform -----------------------------
(* Components that share no state with each other, checked in one run: each   *)
(* behaviour exercises the one that part names.                               *)
(*   lifecycle: one work item, two gates in turn, two incidents in sequence.  *)
(*   flow: a flow of three states.  A sponsor approves its first; material    *)
(*         work then passes through an alignment, may come back from it, and  *)
(*         is reviewed for its release; other work asks for consultation.     *)
(*   reads: a work item and a queue of two items, written by two sessions.    *)
(*   ado: two milestones, the second of which needs the state the first asks  *)
(*        for, told by two publishers.                                        *)
EXTENDS WorkLifecycle, FlowRun, ReadModel, AdoProgress, TLC

VARIABLE part

\* The model values stand for other things in each part, so that a permutation serves all:
\* s1 and s2 are sponsors, calls and sessions, g1 and g2 gates and the items of the queue;
\* s1 and s2 are publishers as well.
CONSTANTS w1, g1, g2, s1, s2, a1, f1, f2, q1

MCFlowStates == {"shape", "align", "release"}
MCDuty(state, kind, impact) == [state |-> state, kind |-> kind, impact |-> impact]
MCDuties == {MCDuty("shape", "assessment", "any"), MCDuty("shape", "approval", "any"),
             MCDuty("align", "review", "any"), MCDuty("release", "inform", "any"),
             MCDuty("release", "consult", "no-material"), MCDuty("release", "review", "material")}
MCRoute(from, to, outcome, impact) ==
  [from |-> from, to |-> to, outcome |-> outcome, impact |-> impact]
MCRoutes == {MCRoute("shape", "release", "onward", "no-material"),
             MCRoute("shape", "align", "onward", "material"),
             MCRoute("align", "release", "onward", "any"),
             MCRoute("align", "shape", "rework", "any")}

MCParts == {w1, g1, g2}
MCEntityOf == [p \in MCParts |-> IF p = w1 THEN w1 ELSE q1]

MCSequenceOf == [m \in {f1, f2} |-> IF m = f1 THEN 1 ELSE 2]
MCTargetOf == [m \in {f1, f2} |-> IF m = f1 THEN "Active" ELSE "Resolved"]

PlatformInit ==
  /\ LifecycleInit /\ FlowInit /\ ReadModelInit /\ AdoInit
  /\ part \in {"lifecycle", "flow", "reads", "ado"}

PlatformNext ==
  \/ part = "lifecycle" /\ PolicyNext /\ UNCHANGED <<part, flowVars, readModelVars, adoVars>>
  \/ part = "flow" /\ FlowNext /\ UNCHANGED <<part, lifecycleVars, readModelVars, adoVars>>
  \/ part = "reads" /\ ReadModelNext /\ UNCHANGED <<part, lifecycleVars, flowVars, adoVars>>
  \/ part = "ado" /\ AdoNext /\ UNCHANGED <<part, lifecycleVars, flowVars, readModelVars>>

platformVars == <<part, lifecycleVars, flowVars, readModelVars, adoVars>>

PlatformSpec == PlatformInit /\ [][PlatformNext]_platformVars

\* One type invariant for all of them.
PlatformTypeOK == TypeOK /\ FlowTypeOK /\ ReadModelTypeOK /\ AdoTypeOK

MCSymmetry == {p @@ q : p \in Permutations({s1, s2}), q \in Permutations({g1, g2})}

=============================================================================
