------------------------------ MODULE WorkQueue ------------------------------
(***************************************************************************)
(* What the queues promise their users, without leases, clocks or           *)
(* transactions.  A piece of work waits, is held by one worker at a time,   *)
(* may fall back to waiting whenever its holder is lost, and is done once.  *)
(* Work its holder has delegated must be settled before it can be done.     *)
(* RoleQueue implements this specification.                                 *)
(***************************************************************************)
CONSTANTS Work, Workers, Nobody

VARIABLES
  phase,      \* how far each piece of work is
  holder,     \* who holds it
  unsettled   \* the delegated work nobody has accepted yet, per delegating work

wvars == <<phase, holder, unsettled>>

Held == {k \in Work : phase[k] = "held"}

WInit ==
  /\ phase = [k \in Work |-> "absent"]
  /\ holder = [k \in Work |-> Nobody]
  /\ unsettled = [k \in Work |-> {}]

Submit(k) ==
  /\ phase[k] = "absent"
  /\ phase' = [phase EXCEPT ![k] = "waiting"]
  /\ UNCHANGED <<holder, unsettled>>

\* Holders may be lost at any time, several at once.
Lapse(S) ==
  /\ S \subseteq Held
  /\ phase' = [k \in Work |-> IF k \in S THEN "waiting" ELSE phase[k]]
  /\ holder' = [k \in Work |-> IF k \in S THEN Nobody ELSE holder[k]]
  /\ UNCHANGED unsettled

\* Waiting work, or work whose holder was just lost, gets one holder.
Assign(S, k, w) ==
  /\ S \subseteq Held
  /\ phase[k] = "waiting" \/ k \in S
  /\ phase' = [j \in Work |-> IF j = k THEN "held"
                              ELSE IF j \in S THEN "waiting" ELSE phase[j]]
  /\ holder' = [j \in Work |-> IF j = k THEN w
                               ELSE IF j \in S THEN Nobody ELSE holder[j]]
  /\ UNCHANGED unsettled

\* The holder of k hands new work d on.
Delegate(k, d) ==
  /\ phase[k] = "held" /\ phase[d] = "absent"
  /\ phase' = [phase EXCEPT ![d] = "waiting"]
  /\ unsettled' = [unsettled EXCEPT ![k] = @ \cup {d}]
  /\ UNCHANGED holder

\* Somebody takes responsibility for d.
Settle(k, d) ==
  /\ d \in unsettled[k]
  /\ unsettled' = [unsettled EXCEPT ![k] = @ \ {d}]
  /\ UNCHANGED <<phase, holder>>

\* Only held work with nothing unsettled is ever done.
Finish(k) ==
  /\ phase[k] = "held" /\ unsettled[k] = {}
  /\ phase' = [phase EXCEPT ![k] = "done"]
  /\ holder' = [holder EXCEPT ![k] = Nobody]
  /\ UNCHANGED unsettled

WNext ==
  \/ \E k \in Work : Submit(k)
  \/ \E S \in SUBSET Work : Lapse(S)
  \/ \E S \in SUBSET Work, k \in Work, w \in Workers : Assign(S, k, w)
  \/ \E k, d \in Work : Delegate(k, d)
  \/ \E k, d \in Work : Settle(k, d)
  \/ \E k \in Work : Finish(k)

WSpec == WInit /\ [][WNext]_wvars

==============================================================================
