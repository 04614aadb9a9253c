------------------------------- MODULE FlowRun -------------------------------
(***************************************************************************)
(* One external flow over a work item: the flow engine's run with its two    *)
(* saga-like operations, prepare and complete (flow_engine.py), the evidence *)
(* that must be recorded before a state may be left (governance.py), and the *)
(* sponsor gates that hold the work meanwhile (sponsor_approvals.py).        *)
(*                                                                         *)
(* An action is one transaction.  prepare_transition and complete are three  *)
(* transactions each, so a call is at a step of its operation and may die    *)
(* there; verify_artifact and decide_gate look at the document before their  *)
(* transaction.  The work item and the handoff are the parts of WorkLifecycle *)
(* and RoleQueue that the engine reads and writes.                           *)
(***************************************************************************)
EXTENDS Naturals, Sequences, FiniteSets

CONSTANTS
  FlowStates,   \* states of the pinned flow
  EntryState,
  FlowDuties,   \* what its states ask for besides their artifact, and the impact it is asked under
  FlowRoutes,   \* its routes: from, to, outcome and the impact they are for
  Tags,         \* names clients choose for the operations on one version
  Supplied,     \* architecture impacts that clients put into the fields, or "none"
  FlowCalls,    \* executions of operations, repeated requests included
  Reviewers,    \* executions of verify_artifact and decide_gate
  SponsorGates, \* ids of sponsor gates
  MaxVersion,   \* bound: the run's version
  MaxLeases,    \* bound: leases of the source queue item, one after the other
  MaxEdits,     \* bound: edits of each document
  MaxDeaths     \* bound: calls that die between two transactions

Kinds == {"artifact", "consult", "inform", "review", "assessment", "approval"}
GateKinds == {"review", "assessment", "approval"}
Impacts == {"no-material", "material"}
Outcomes == {"onward", "rework"}

\* "none" stands for no state, no impact and no name.
ASSUME FlowAssumption ==
  /\ EntryState \in FlowStates /\ "none" \notin FlowStates
  /\ FlowDuties \subseteq [state : FlowStates, kind : Kinds \ {"artifact"},
                            impact : Impacts \cup {"any"}]
  /\ FlowRoutes \subseteq [from : FlowStates, to : FlowStates, outcome : Outcomes,
                            impact : Impacts \cup {"any"}]
  /\ Supplied \subseteq Impacts \cup {"none"}
  /\ MaxVersion \in Nat \ {0} /\ MaxLeases \in Nat \ {0}
  /\ MaxEdits \in Nat /\ MaxDeaths \in Nat

VARIABLES
  flow,      \* flow_runs
  duty,      \* flow_obligations of the current entry: their status
  proof,     \* governance_records of the current entry
  assessed,  \* governance_context: the architecture impact
  journal,   \* flow_transition_journal
  handover,  \* handoffs, by their idempotency key
  kernel,    \* the work item
  sgate,     \* managed sponsor gates
  resumed,   \* continuations the gates have routed
  document,  \* the etag of each state's artifact in the document store
  look,      \* what each reviewer saw in the store before its transaction
  call,      \* where each execution is, with its request and source lease
  holder,    \* the number of the source item's current lease
  deaths

engineVars == <<flow, duty, journal, kernel>>
governanceVars == <<proof, assessed, look>>
sponsorVars == <<sgate, resumed>>
sagaVars == <<handover, call, holder, deaths>>
flowVars == <<engineVars, governanceVars, sponsorVars, sagaVars, document>>

\* A request is the operation id (its tag, on one version) with what the digest covers;
\* the source lease is not part of it.
PrepareRequests ==
  [kind : {"prepare"}, tag : Tags, version : 1..MaxVersion, outcome : Outcomes, impact : Supplied]
OtherRequests == [kind : {"pickup", "complete"}, tag : Tags, version : 1..MaxVersion]
Requests == PrepareRequests \cup OtherRequests

NoRequest == [kind |-> "none", tag |-> "none", version |-> 0]
Id(r) == <<r.version, r.tag>>

\* The idempotency key of the handoff a prepare offers.
HandoverKeys == (1..MaxVersion) \X FlowStates
NoKey == <<0, "none">>

NoCall == [pc |-> "idle", op |-> NoRequest, lease |-> 0, target |-> "none"]
NoLook == [at |-> "none", etag |-> 0]
NoEntry == [k \in Kinds |-> "none"]
NoSponsorGate == [st |-> "none", entry |-> 0, expired |-> FALSE]

FlowTypeOK ==
  /\ flow \in [st : {"none", "active", "handoff_preparing", "handoff_pending",
                     "completion_preparing", "completed"},
               state : FlowStates, version : 0..MaxVersion,
               impact : Impacts \cup {"none"}, target : FlowStates \cup {"none"},
               op : Requests \cup {NoRequest}, handoff : HandoverKeys \cup {NoKey}]
  /\ (flow.st \in {"handoff_preparing", "handoff_pending"}) = (flow.target # "none")
  /\ (flow.st = "handoff_pending") = (flow.handoff # NoKey)
  /\ (flow.st \in {"none", "active", "completed"}) = (flow.op = NoRequest)
  /\ duty \in [Kinds -> {"none", "pending", "dispatched", "satisfied"}]
  /\ \A k \in Kinds : /\ duty[k] = "dispatched" => k \in {"consult", "inform"}
                      /\ duty[k] = "satisfied" => k \in {"artifact"} \cup GateKinds
  /\ proof \subseteq [kind : Kinds, etag : 0..MaxEdits,
                      decision : {"verified", "responded", "approved", "rejected", "exception"}]
  /\ assessed \in Impacts \cup {"none"}
  /\ journal \in Seq([action : {"start", "prepare", "pickup", "complete"},
                      id : {Id(r) : r \in Requests \cup {NoRequest}},
                      from : FlowStates, to : FlowStates,
                      handoff : HandoverKeys \cup {NoKey}])
  /\ handover \in [HandoverKeys ->
       [st : {"none", "offered", "claimed", "accepted"}, lease : 0..MaxLeases]]
  /\ kernel \in [st : {"active", "gated", "completed", "error"},
                 by : Requests \cup {NoRequest}]
  /\ sgate \in [SponsorGates ->
       [st : {"none", "pending", "approved", "rejected", "timed_out"},
        entry : 0..MaxVersion, expired : BOOLEAN]]
  /\ resumed \subseteq SponsorGates \X {"approved", "rejected", "timed_out"} \X {"owner", "pm"}
  /\ document \in [FlowStates -> 0..MaxEdits]
  /\ look \in [Reviewers -> [at : FlowStates \cup {"none"}, etag : 0..MaxEdits]]
  /\ call \in [FlowCalls ->
       [pc : {"idle", "offer", "record", "kernel", "finish"},
        op : Requests \cup {NoRequest}, lease : 0..MaxLeases, target : FlowStates \cup {"none"}]]
  /\ holder \in 1..MaxLeases /\ deaths \in 0..MaxDeaths

FlowInit ==
  /\ flow = [st |-> "none", state |-> EntryState, version |-> 0, impact |-> "none",
             target |-> "none", op |-> NoRequest, handoff |-> NoKey]
  /\ duty = NoEntry /\ proof = {} /\ assessed = "none" /\ journal = <<>>
  /\ handover = [k \in HandoverKeys |-> [st |-> "none", lease |-> 0]]
  /\ kernel = [st |-> "active", by |-> NoRequest]
  /\ sgate = [g \in SponsorGates |-> NoSponsorGate] /\ resumed = {}
  /\ document = [s \in FlowStates |-> 0]
  /\ look = [r \in Reviewers |-> NoLook]
  /\ call = [c \in FlowCalls |-> NoCall]
  /\ holder = 1 /\ deaths = 0

-----------------------------------------------------------------------------
(* Routes, readiness and the journal *)

Terminal(s) == \A r \in FlowRoutes : r.from # s

\* select_route: the routes that match; exactly one may.
Matching(s, outcome, impact) ==
  {r \in FlowRoutes : r.from = s /\ r.outcome = outcome /\ r.impact \in {"any", impact}}

\* FlowState.obligations: the artifact, and what applies to the fields as they are.
Needed(s, impact) ==
  {"artifact"} \cup {d.kind : d \in {x \in FlowDuties : x.state = s /\ x.impact \in {"any", impact}}}

\* Mutant: what is asked for under a condition is never asked for.
EnteredWithFixed(s, impact) ==
  [k \in Kinds |-> IF k \in Needed(s, "none") THEN "pending" ELSE "none"]

\* The obligations a state is entered with.
Entered(s, impact) == [k \in Kinds |-> IF k \in Needed(s, impact) THEN "pending" ELSE "none"]

Verified(etag) == [kind |-> "artifact", decision |-> "verified", etag |-> etag] \in proof

Decided(k, decisions) == \E p \in proof : p.kind = k /\ p.decision \in decisions

\* _require_ready: status and evidence of every current obligation.
Ready ==
  \A k \in Kinds : duty[k] # "none" =>
    CASE k = "artifact" -> duty[k] = "satisfied" /\ Decided(k, {"verified"})
      [] k \in GateKinds -> duty[k] = "satisfied" /\ Decided(k, {"approved", "exception"})
      [] k = "consult" -> \/ Decided(k, {"exception"})
                          \/ Decided(k, {"responded"}) /\ duty[k] = "dispatched"
      [] k = "inform" -> duty[k] = "dispatched"

\* _replay: the operation id is in the journal, for this request or for another one;
\* either way the call ends without a change.
Journaled(r) == \E i \in DOMAIN journal : journal[i].id = Id(r)

Row(action, r, to, handoff) ==
  [action |-> action, id |-> Id(r), from |-> flow.state, to |-> to, handoff |-> handoff]

\* _same_pending
SamePending(r) == flow.op = r

-----------------------------------------------------------------------------
(* start, dispatch *)

StartFlow(impact) ==
  /\ flow.st = "none" /\ kernel.st = "active"
  /\ flow' = [flow EXCEPT !.st = "active", !.version = 1, !.impact = impact]
  /\ duty' = Entered(EntryState, impact)
  /\ journal' = <<Row("start", NoRequest, EntryState, NoKey)>>
  /\ UNCHANGED <<kernel, governanceVars, sponsorVars, sagaVars, document>>

Dispatch(k) ==
  /\ k \in {"consult", "inform"}
  /\ flow.st = "active" /\ duty[k] = "pending"
  /\ duty' = [duty EXCEPT ![k] = "dispatched"]
  /\ UNCHANGED <<flow, journal, kernel, governanceVars, sponsorVars, sagaVars, document>>

-----------------------------------------------------------------------------
(* prepare_transition *)

At(c, pc) == call[c].pc = pc

GoOn(c, pc) == call' = [call EXCEPT ![c].pc = pc]

Return(c) == call' = [call EXCEPT ![c] = NoCall]

\* The impact routes are selected by: governance's, if it has assessed one, and a
\* conflicting one is refused.
Merged(r) == IF assessed # "none" THEN assessed
             ELSE IF r.impact # "none" THEN r.impact ELSE flow.impact

Conflicting(r) ==
  LET supplied == IF r.impact # "none" THEN r.impact ELSE flow.impact
  IN  assessed # "none" /\ supplied \notin {"none", assessed}

Begin(c, pc, r, l, target) ==
  call' = [call EXCEPT ![c] = [pc |-> pc, op |-> r, lease |-> l, target |-> target]]

\* First transaction, of an operation that is new.
Reserve(c, r, l) ==
  /\ At(c, "idle") /\ ~Journaled(r)
  /\ flow.st = "active" /\ flow.version = r.version /\ r.version + 2 <= MaxVersion
  /\ ~Conflicting(r) /\ Ready
  /\ \E route \in FlowRoutes :
       /\ Matching(flow.state, r.outcome, Merged(r)) = {route}
       /\ flow' = [flow EXCEPT !.st = "handoff_preparing", !.impact = Merged(r),
                               !.target = route.to, !.op = r]
       /\ Begin(c, "offer", r, l, route.to)
  /\ UNCHANGED <<duty, journal, kernel, governanceVars, sponsorVars, handover, holder,
                 deaths, document>>

\* The same for one that was begun before, by this or another client.  The route is
\* selected from what the run has stored, so it is the same again.
Retry(c, r, l) ==
  /\ At(c, "idle") /\ ~Journaled(r)
  /\ flow.st = "handoff_preparing" /\ SamePending(r)
  /\ Begin(c, "offer", r, l, flow.target)
  /\ UNCHANGED <<engineVars, governanceVars, sponsorVars, handover, holder, deaths, document>>

Key(r, target) == <<r.version, target>>

OfferOf(c) == handover[Key(call[c].op, call[c].target)]

\* A known key must come with the lease it was offered under (_fingerprint), a new one
\* with a lease that is active.
Offerable(c) ==
  call[c].lease = IF OfferOf(c).st = "none" THEN holder ELSE OfferOf(c).lease

\* Second: HandoffStore.offer.
OfferHandover(c) ==
  /\ At(c, "offer") /\ Offerable(c)
  /\ handover' = [handover EXCEPT ![Key(call[c].op, call[c].target)] =
                    IF @.st = "none" THEN [st |-> "offered", lease |-> holder] ELSE @]
  /\ GoOn(c, "record")
  /\ UNCHANGED <<engineVars, governanceVars, sponsorVars, holder, deaths, document>>

MayRecord(c) == ~Journaled(call[c].op) /\ SamePending(call[c].op)

\* Third: the run waits for the handoff.
RecordHandover(c) ==
  /\ At(c, "record") /\ MayRecord(c)
  /\ LET key == Key(call[c].op, call[c].target) IN
     /\ flow' = [flow EXCEPT !.st = "handoff_pending", !.handoff = key, !.version = @ + 1]
     /\ journal' = Append(journal, Row("prepare", call[c].op, call[c].target, key))
  /\ Return(c)
  /\ UNCHANGED <<duty, kernel, governanceVars, sponsorVars, handover, holder, deaths, document>>

-----------------------------------------------------------------------------
(* pickup_transition *)

\* Mutant: a handoff that is claimed will do.
TakenOnClaim(key) == handover[key].st \in {"claimed", "accepted"}

\* The exact target handoff has been accepted.
Taken(key) == handover[key].st = "accepted"

Arrived ==
  [flow EXCEPT !.st = "active", !.state = flow.target, !.version = @ + 1,
               !.target = "none", !.op = NoRequest, !.handoff = NoKey]

\* The target's owner works on an item of its own, with its own leases.
PickUp(r) ==
  /\ r.kind = "pickup" /\ ~Journaled(r)
  /\ flow.st = "handoff_pending" /\ flow.version = r.version
  /\ Taken(flow.handoff)
  /\ kernel.st = "active"
  /\ flow' = Arrived
  /\ duty' = Entered(flow.target, flow.impact)
  /\ proof' = {}
  /\ journal' = Append(journal, Row("pickup", r, flow.target, flow.handoff))
  /\ holder' = 1
  /\ UNCHANGED <<kernel, assessed, look, sponsorVars, handover, call, deaths, document>>

-----------------------------------------------------------------------------
(* complete *)

ReserveCompletion(c, r) ==
  /\ At(c, "idle") /\ r.kind = "complete" /\ ~Journaled(r)
  /\ \/ /\ flow.st = "active" /\ flow.version = r.version /\ r.version < MaxVersion
        /\ Terminal(flow.state) /\ Ready
        /\ flow' = [flow EXCEPT !.st = "completion_preparing", !.op = r]
     \/ /\ flow.st = "completion_preparing" /\ SamePending(r)
        /\ UNCHANGED flow
  /\ Begin(c, "kernel", r, 0, "none")
  /\ UNCHANGED <<duty, journal, kernel, governanceVars, sponsorVars, handover, holder,
                 deaths, document>>

\* The kernel's work item is completed now, or was with this very evidence.
Completing(c) == kernel.st = "active" \/ kernel = [st |-> "completed", by |-> call[c].op]

CompleteKernel(c) ==
  /\ At(c, "kernel") /\ Completing(c)
  /\ kernel' = [st |-> "completed", by |-> IF kernel.st = "active" THEN call[c].op ELSE kernel.by]
  /\ GoOn(c, "finish")
  /\ UNCHANGED <<flow, duty, journal, governanceVars, sponsorVars, handover, holder,
                 deaths, document>>

RecordCompletion(c) ==
  /\ At(c, "finish") /\ MayRecord(c)
  /\ flow' = [flow EXCEPT !.st = "completed", !.op = NoRequest, !.version = @ + 1]
  /\ journal' = Append(journal, Row("complete", call[c].op, flow.state, NoKey))
  /\ Return(c)
  /\ UNCHANGED <<duty, kernel, governanceVars, sponsorVars, handover, holder, deaths, document>>

\* A step that finds a conflict, or its operation done, ends the call.
GiveUp(c) ==
  /\ \/ At(c, "offer") /\ ~Offerable(c)
     \/ At(c, "kernel")  \* also when a failure of the work is unresolved
     \/ At(c, "record") /\ ~MayRecord(c)
     \/ At(c, "finish") /\ ~MayRecord(c)
  /\ Return(c)
  /\ UNCHANGED <<engineVars, governanceVars, sponsorVars, handover, holder, deaths, document>>

\* The process, or its connection, dies between two transactions.
Die(c) ==
  /\ ~At(c, "idle") /\ deaths < MaxDeaths
  /\ deaths' = deaths + 1 /\ Return(c)
  /\ UNCHANGED <<engineVars, governanceVars, sponsorVars, handover, holder, document>>

-----------------------------------------------------------------------------
(* Governance *)

Record(k, decision, etag) ==
  proof' = proof \cup {[kind |-> k, decision |-> decision, etag |-> etag]}

\* stat, outside any transaction; what for, verify_artifact or decide_gate, shows later.
Look(v) ==
  /\ flow.st = "active"
  /\ look' = [look EXCEPT ![v] = [at |-> flow.state, etag |-> document[flow.state]]]
  /\ UNCHANGED <<engineVars, proof, assessed, sponsorVars, sagaVars, document>>

VerifyArtifact(v) ==
  /\ flow.st = "active" /\ duty["artifact"] = "pending"
  /\ look[v].at = flow.state
  /\ Record("artifact", "verified", look[v].etag)
  /\ duty' = [duty EXCEPT !["artifact"] = "satisfied"]
  /\ look' = [look EXCEPT ![v] = NoLook]
  /\ UNCHANGED <<flow, journal, kernel, assessed, sponsorVars, sagaVars, document>>

RecordConsultation(decision) ==
  /\ flow.st = "active" /\ duty["consult"] # "none"
  /\ decision = "responded" => duty["consult"] = "dispatched"
  /\ Record("consult", decision, 0)
  /\ UNCHANGED <<engineVars, assessed, look, sponsorVars, sagaVars, document>>

\* _artifact_is_verified, for the version the reviewer saw.
Reviewed(v) ==
  duty["artifact"] = "satisfied" /\ look[v].at = flow.state /\ Verified(look[v].etag)

\* decide_gate; a rejection leaves the obligation pending.
DecideOwnerGate(v, k, decision, impact) ==
  /\ flow.st = "active" /\ duty[k] # "none"
  /\ look[v] # NoLook /\ Reviewed(v)
  /\ k = "assessment" =>
       decision # "exception" /\ (decision = "approved" => impact # "none")
  /\ k = "review" => impact = "none"
  /\ decision # "rejected" => duty[k] = "pending"
  /\ Record(k, decision, look[v].etag)
  /\ duty' = IF decision = "rejected" THEN duty ELSE [duty EXCEPT ![k] = "satisfied"]
  /\ assessed' = IF decision = "approved" /\ impact # "none" THEN impact ELSE assessed
  /\ look' = [look EXCEPT ![v] = NoLook]
  /\ UNCHANGED <<flow, journal, kernel, sponsorVars, sagaVars, document>>

-----------------------------------------------------------------------------
(* Sponsor gates *)

\* Mutant: the artifact may be verified later.
OpenableEarly == kernel.st = "active" /\ flow.st = "active" /\ duty["approval"] = "pending"

\* Active work and run, a pending obligation, and a verified artifact.
Openable ==
  /\ kernel.st = "active" /\ flow.st = "active" /\ duty["approval"] = "pending"
  /\ duty["artifact"] = "satisfied" /\ Decided("artifact", {"verified"})

OpenSponsorGate(g) ==
  /\ sgate[g].st = "none" /\ Openable
  /\ sgate' = [sgate EXCEPT ![g] = [st |-> "pending", entry |-> flow.version, expired |-> FALSE]]
  /\ kernel' = [kernel EXCEPT !.st = "gated"]
  /\ UNCHANGED <<flow, duty, journal, governanceVars, resumed, sagaVars, document>>

\* _lock_current: what the gate was opened for is still so.
Current(g) ==
  /\ kernel.st = "gated"
  /\ flow.st = "active" /\ flow.version = sgate[g].entry
  /\ duty["approval"] = "pending"
  /\ duty["artifact"] = "satisfied" /\ Decided("artifact", {"verified"})

Resolve(g, outcome, role) ==
  /\ sgate' = [sgate EXCEPT ![g].st = outcome]
  /\ resumed' = resumed \cup {<<g, outcome, role>>}
  /\ kernel' = [kernel EXCEPT !.st = "active"]

\* decide; the artifact's verified etag goes into the record, whatever it is by now.
ApproveSponsorGate(g) ==
  /\ sgate[g].st = "pending" /\ ~sgate[g].expired /\ Current(g)
  /\ \E p \in proof : p.decision = "verified" /\ Record("approval", "approved", p.etag)
  /\ duty' = [duty EXCEPT !["approval"] = "satisfied"]
  /\ Resolve(g, "approved", "owner")
  /\ UNCHANGED <<flow, journal, assessed, look, sagaVars, document>>

RejectSponsorGate(g) ==
  /\ sgate[g].st = "pending" /\ ~sgate[g].expired /\ Current(g)
  /\ \E p \in proof : p.decision = "verified" /\ Record("approval", "rejected", p.etag)
  /\ Resolve(g, "rejected", "pm")
  /\ UNCHANGED <<flow, duty, journal, assessed, look, sagaVars, document>>

TimeOutSponsorGate(g) ==
  /\ sgate[g].st = "pending" /\ sgate[g].expired /\ Current(g)
  /\ Resolve(g, "timed_out", "pm")
  /\ UNCHANGED <<flow, duty, journal, governanceVars, sagaVars, document>>

ExpireSponsorGate(g) ==
  /\ sgate[g].st = "pending" /\ ~sgate[g].expired
  /\ sgate' = [sgate EXCEPT ![g].expired = TRUE]
  /\ UNCHANGED <<engineVars, governanceVars, resumed, sagaVars, document>>

-----------------------------------------------------------------------------
(* What goes on around the run *)

\* The target role's workers claim and accept; RoleQueue has the detail.
ClaimHandover(k) ==
  /\ handover[k].st = "offered"
  /\ handover' = [handover EXCEPT ![k].st = "claimed"]
  /\ UNCHANGED <<engineVars, governanceVars, sponsorVars, call, holder, deaths, document>>

AcceptHandover(k) ==
  /\ handover[k].st = "claimed"
  /\ handover' = [handover EXCEPT ![k].st = "accepted"]
  /\ UNCHANGED <<engineVars, governanceVars, sponsorVars, call, holder, deaths, document>>

\* The source's lease expires, and another worker claims its item.  Only while a handoff
\* is prepared does it make a difference: a lease that was lost before the call began is
\* refused just like one that is lost now.
ReplaceHolder ==
  /\ holder < MaxLeases /\ flow.st = "handoff_preparing"
  /\ holder' = holder + 1
  /\ UNCHANGED <<engineVars, governanceVars, sponsorVars, handover, call, deaths, document>>

\* LifecycleStore's own gates hold the work and release it.
PlainGate ==
  /\ \A g \in SponsorGates : sgate[g].st # "pending"
  /\ kernel.st \in {"active", "gated"}
  /\ kernel' = [kernel EXCEPT !.st = IF @ = "active" THEN "gated" ELSE "active"]
  /\ UNCHANGED <<flow, duty, journal, governanceVars, sponsorVars, sagaVars, document>>

\* The work fails for good, or is completed past the flow.
KernelEnds(status) ==
  /\ kernel.st = "active"
  /\ kernel' = [st |-> status, by |-> NoRequest]
  /\ UNCHANGED <<flow, duty, journal, governanceVars, sponsorVars, sagaVars, document>>

\* Somebody edits the artifact; before a state is entered nobody looks at its artifact.
EditDocument ==
  /\ flow.st = "active" /\ document[flow.state] < MaxEdits
  /\ document' = [document EXCEPT ![flow.state] = @ + 1]
  /\ UNCHANGED <<engineVars, governanceVars, sponsorVars, sagaVars>>

CallStep(c) ==
  OfferHandover(c) \/ RecordHandover(c) \/ CompleteKernel(c) \/ RecordCompletion(c) \/ GiveUp(c)

FlowNext ==
  \/ \E impact \in Supplied : StartFlow(impact)
  \/ \E k \in Kinds : Dispatch(k)
  \/ \E c \in FlowCalls, r \in PrepareRequests, l \in 1..holder : Reserve(c, r, l)
  \/ \E c \in FlowCalls, r \in PrepareRequests, l \in 1..holder : Retry(c, r, l)
  \/ \E r \in OtherRequests : PickUp(r)
  \/ \E c \in FlowCalls, r \in OtherRequests : ReserveCompletion(c, r)
  \/ \E c \in FlowCalls : CallStep(c)
  \/ \E c \in FlowCalls : Die(c)
  \/ \E v \in Reviewers : Look(v)
  \/ \E v \in Reviewers : VerifyArtifact(v)
  \/ \E decision \in {"responded", "exception"} : RecordConsultation(decision)
  \/ \E v \in Reviewers, k \in {"review", "assessment"},
        decision \in {"approved", "rejected", "exception"}, impact \in Impacts \cup {"none"} :
       DecideOwnerGate(v, k, decision, impact)
  \/ \E g \in SponsorGates : OpenSponsorGate(g)
  \/ \E g \in SponsorGates : ApproveSponsorGate(g)
  \/ \E g \in SponsorGates : RejectSponsorGate(g)
  \/ \E g \in SponsorGates : TimeOutSponsorGate(g)
  \/ \E g \in SponsorGates : ExpireSponsorGate(g)
  \/ \E k \in HandoverKeys : ClaimHandover(k)
  \/ \E k \in HandoverKeys : AcceptHandover(k)
  \/ ReplaceHolder
  \/ PlainGate
  \/ \E status \in {"completed", "error"} : KernelEnds(status)
  \/ EditDocument

FlowSpec == FlowInit /\ [][FlowNext]_flowVars

-----------------------------------------------------------------------------
(* Properties *)

\* The evidence of an obligation: a verified artifact, a consultation answered after it
\* was asked for or excepted, and gates approved for a version that was verified.
Evidenced(k) ==
  \/ k = "inform" /\ duty[k] = "dispatched"
  \/ \E p \in proof :
       /\ p.kind = k
       /\ \/ p.decision = "verified"
          \/ p.decision = "responded" /\ duty[k] = "dispatched"
          \/ p.decision = "exception" /\ (k \in GateKinds => Verified(p.etag))
          \/ p.decision = "approved" /\ Verified(p.etag)

\* The obligations of the current entry.
Obliged == {k \in Kinds : duty[k] # "none"}

\* A state is entered with the obligations that apply to the fields as they are then, under
\* their conditions, and with no others until it is left.  It is not left, nor the flow
\* completed, without the evidence of each of them, whatever was recorded, retried or edited
\* since the operation began, and the state that follows is the one routed to for the impact
\* that governance assessed.
GovernedExit ==
  [][/\ IF flow.st # "active" /\ flow'.st = "active"
        THEN /\ Obliged' = Needed(flow'.state, flow'.impact)
             /\ assessed' \in {"none", flow'.impact}
        ELSE Obliged' = Obliged
     /\ flow.version > 0 /\ (flow'.state # flow.state \/ flow'.st # flow.st)
          /\ flow'.st \in {"active", "completed"} =>
        /\ \A k \in Obliged : Evidenced(k)
        /\ flow'.st = "active" =>
             [from |-> flow.state, to |-> flow'.state] \in
               {[from |-> r.from, to |-> r.to] :
                 r \in {x \in FlowRoutes : x.impact \in {"any", flow'.impact}}}
        /\ flow'.st = "completed" => kernel = [st |-> "completed", by |-> flow.op]]_flowVars

\* Restarts and replays neither lose, duplicate nor skip a transition: each version has
\* its journal row, rows follow each other, a transition is picked up by the accepted
\* handoff of the prepare before it, and no handoff was offered for nothing.
TransitionsChain ==
  /\ Len(journal) = flow.version
  /\ \A i \in 2..Len(journal) :
       LET row == journal[i]  before == journal[i - 1] IN
       CASE row.action = "pickup" ->
              /\ before.action = "prepare" /\ row.handoff = before.handoff
              /\ row.from = before.from /\ row.to = before.to
              /\ handover[row.handoff].st = "accepted"
         [] row.action \in {"prepare", "complete"} ->
              /\ before.action \in {"start", "pickup"} /\ row.from = before.to
              /\ \A j \in 1..(i - 1) : row.action = "prepare" => journal[j].handoff # row.handoff
         [] OTHER -> FALSE
  /\ \A k \in HandoverKeys : handover[k].st # "none" =>
       \/ \E i \in DOMAIN journal : journal[i].handoff = k
       \/ flow.st = "handoff_preparing" /\ k = <<flow.version, flow.target>>

\* A sponsor gate that waits can be resolved: nothing that happens meanwhile makes it
\* stale, so the gated work is always released.  A gate that was resolved has resumed
\* exactly one role: the owner after an approval, the project manager otherwise.
SponsorGateResolvable ==
  /\ \A g \in SponsorGates : sgate[g].st = "pending" =>
       /\ kernel.st = "gated" /\ flow.st = "active" /\ flow.version = sgate[g].entry
       /\ duty["approval"] = "pending" /\ \E etag \in 0..MaxEdits : Verified(etag)
       /\ \A h \in SponsorGates \ {g} : sgate[h].st # "pending"
  /\ \A g \in SponsorGates : sgate[g].st \notin {"none", "pending"} =>
       {c \in resumed : c[1] = g} =
         {<<g, sgate[g].st, IF sgate[g].st = "approved" THEN "owner" ELSE "pm">>}

\* How the run maps to GovernedFlow: an operation that is pending before its handoff is
\* recorded, or before the run is completed, has not happened yet.
Stay == CASE flow.st = "none" -> "absent"
          [] flow.st = "handoff_pending" -> "going"
          [] flow.st = "completed" -> "ended"
          [] OTHER -> "staying"

Destination == IF flow.st = "handoff_pending" THEN flow.target ELSE "none"

Owed == {k \in Obliged : ~Evidenced(k)}

\* What each state asks for, by what is known of the work.
NeededBy == [at \in FlowStates \X (Impacts \cup {"none"}) |-> Needed(at[1], at[2])]

WorkEnded == IF kernel.st # "completed" THEN "open"
             ELSE IF kernel.by # NoRequest THEN "completed" ELSE "elsewhere"

Governed == INSTANCE GovernedFlow WITH
  Entry <- EntryState, Needs <- NeededBy, Links <- FlowRoutes, Verdicts <- Impacts,
  Nothing <- "none", phase <- Stay, place <- flow.state, bound <- Destination,
  facts <- flow.impact, due <- Obliged, owed <- Owed, verdict <- assessed, work <- WorkEnded

\* The engine's operations of two and three transactions, with their retries, replays, dead
\* calls and calls of other clients in between, are governed steps taken at once.  A state is
\* entered owing what applies to the work as it is known then, the impact that governance has
\* assessed above all.  Nothing leaves a state, completes the work or ends the flow with evidence
\* of that missing, or along another route than one for the impact assessed (flow_engine.py
\* _insert_obligations, prepare_transition, pickup_transition, complete; governance.py).
ImplementsGovernedFlow == Governed!GSpec

\* How the work item and its gates map to GatedWork: gates of LifecycleStore have no name here.
Pending == {g \in SponsorGates : sgate[g].st = "pending"}

KernelHolder ==
  IF kernel.st # "gated" THEN "none"
  ELSE IF Pending = {} THEN "plain" ELSE CHOOSE g \in Pending : TRUE

KernelLife == [w \in {"kernel"} |-> kernel.st]
KernelHeld == [w \in {"kernel"} |-> KernelHolder]
KernelGates == [g \in SponsorGates |-> sgate[g].st]

KernelGating == INSTANCE GatedWork WITH
  Work <- {"kernel"}, Gates <- SponsorGates, Unnamed <- "plain", NoGate <- "none",
  Outcomes <- {"approved", "rejected", "timed_out"}, Ends <- {"completed", "error"},
  life <- KernelLife, heldBy <- KernelHeld, outcome <- KernelGates

\* What the flow does to the work item, and what it takes for possible around it, is what
\* WorkLifecycle and PmMonitor do, too: a managed gate holds the work until it is decided or
\* timed out, and neither the flow nor anybody else completes work that a gate holds
\* (sponsor_approvals.py open, decide, time_out; flow_engine.py complete).
FlowGatesWork == KernelGating!GatedSpec

\* Fairness: the holder of the source item retries an operation that is pending, calls go
\* on and handoffs are taken.  Only deaths and replacements are bounded.  It is strong
\* for the retry, since calls of others must not keep the holder from making one.
FlowFairness ==
  /\ SF_flowVars(\E c \in FlowCalls : Retry(c, flow.op, holder))
  /\ \A c \in FlowCalls : WF_flowVars(CallStep(c))
  /\ \A k \in HandoverKeys : WF_flowVars(ClaimHandover(k)) /\ WF_flowVars(AcceptHandover(k))

FairFlowSpec == FlowSpec /\ FlowFairness

\* "Restart and exact operation replay cannot lose ... a transition": an operation that
\* has begun is recorded some day, whoever has to carry it on.
TransitionRecorded == flow.st = "handoff_preparing" ~> flow.st # "handoff_preparing"

==============================================================================
