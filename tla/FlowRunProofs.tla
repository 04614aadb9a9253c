----------------------------- MODULE FlowRunProofs -----------------------------
(* Theorems about FlowRun: its journal, the evidence its states are left with, and *)
(* the sponsor gates that hold its work.                                          *)
EXTENDS FlowRun, TLAPS

\* A run that was not started has no history; an operation that is pending is one of the
\* version it began on, and leaves room for the versions it still makes.
RunSound ==
  /\ (flow.st = "none") = (flow.version = 0)
  /\ flow.st = "none" => flow.state = EntryState
  /\ flow.st = "handoff_preparing" =>
       /\ flow.op \in PrepareRequests /\ flow.op.version = flow.version
       /\ flow.version + 2 <= MaxVersion
  /\ flow.st = "handoff_pending" =>
       /\ flow.op \in PrepareRequests /\ flow.op.version + 1 = flow.version
       /\ flow.version + 1 <= MaxVersion
  /\ flow.st = "completion_preparing" =>
       /\ flow.op \in OtherRequests /\ flow.op.kind = "complete"
       /\ flow.op.version = flow.version /\ flow.version + 1 <= MaxVersion

\* The journal ends where the run is, and a key is younger than the row that names it.
JournalSound ==
  /\ Len(journal) = flow.version
  /\ \A i \in DOMAIN journal : journal[i].handoff[1] < i
  /\ flow.st \in {"active", "handoff_preparing", "completion_preparing"} =>
       /\ journal[flow.version].action \in {"start", "pickup"}
       /\ journal[flow.version].to = flow.state
  /\ flow.st = "handoff_pending" =>
       LET last == journal[flow.version] IN
       /\ last.action = "prepare" /\ last.id = Id(flow.op) /\ last.handoff = flow.handoff
       /\ last.from = flow.state /\ last.to = flow.target

\* A call that prepares is for the operation that is pending, or for one that was recorded,
\* whose handoff is there.
PreparesSound ==
  \A c \in FlowCalls : call[c].pc \in {"offer", "record"} =>
    /\ call[c].op \in PrepareRequests /\ call[c].target \in FlowStates
    /\ call[c].op.version <= flow.version
    /\ call[c].op.version = flow.version =>
         flow.st = "handoff_preparing" /\ flow.op = call[c].op /\ flow.target = call[c].target
    /\ call[c].pc = "record" \/ call[c].op.version < flow.version => OfferOf(c).st # "none"

\* A call that completes has its own completion in the kernel before it ends the run.
CompletionsSound ==
  \A c \in FlowCalls : call[c].pc \in {"kernel", "finish"} =>
    /\ call[c].op \in OtherRequests /\ call[c].op.kind = "complete"
    /\ call[c].pc = "finish" => kernel = [st |-> "completed", by |-> call[c].op]

\* A run that was not started has nothing to show, and nothing is approved but what was verified.
EvidenceSound ==
  /\ flow.st = "none" => duty = NoEntry /\ proof = {} /\ assessed = "none"
  /\ \A p \in proof :
       /\ p.decision = "verified" => p.kind = "artifact"
       /\ p.kind \in GateKinds /\ p.decision \in {"approved", "exception"} => Verified(p.etag)

\* What is pending has its evidence, and its route.
Leaving ==
  flow.st \in {"handoff_preparing", "handoff_pending", "completion_preparing"} =>
    /\ \A k \in Obliged : Evidenced(k)
    /\ flow.st # "completion_preparing" =>
         /\ assessed \in {"none", flow.impact}
         /\ \E r \in FlowRoutes : /\ r.from = flow.state /\ r.to = flow.target
                                  /\ r.impact \in {"any", flow.impact}

\* A gate that is not resolved has resumed nobody.
NobodyResumed ==
  \A g \in SponsorGates : sgate[g].st \in {"none", "pending"} => {c \in resumed : c[1] = g} = {}

\* The inductive invariant of the flow's run.
FlowInv ==
  /\ FlowTypeOK /\ RunSound
  /\ JournalSound /\ TransitionsChain /\ PreparesSound /\ CompletionsSound
  /\ EvidenceSound /\ Leaving
  /\ SponsorGateResolvable /\ NobodyResumed

\* The rows of the variables that hold records.
FlowRow ==
  [st : {"none", "active", "handoff_preparing", "handoff_pending",
         "completion_preparing", "completed"},
   state : FlowStates, version : 0..MaxVersion,
   impact : Impacts \cup {"none"}, target : FlowStates \cup {"none"},
   op : Requests \cup {NoRequest}, handoff : HandoverKeys \cup {NoKey}]

JournalRow ==
  [action : {"start", "prepare", "pickup", "complete"},
   id : {Id(r) : r \in Requests \cup {NoRequest}},
   from : FlowStates, to : FlowStates, handoff : HandoverKeys \cup {NoKey}]

CallRow ==
  [pc : {"idle", "offer", "record", "kernel", "finish"},
   op : Requests \cup {NoRequest}, lease : 0..MaxLeases, target : FlowStates \cup {"none"}]

HandoverRow == [st : {"none", "offered", "claimed", "accepted"}, lease : 0..MaxLeases]

ProofRow ==
  [kind : Kinds, etag : 0..MaxEdits,
   decision : {"verified", "responded", "approved", "rejected", "exception"}]

\* A run that fits its operation.
RunTyped ==
  /\ flow \in FlowRow
  /\ (flow.st \in {"handoff_preparing", "handoff_pending"}) = (flow.target # "none")
  /\ (flow.st = "handoff_pending") = (flow.handoff # NoKey)
  /\ (flow.st \in {"none", "active", "completed"}) = (flow.op = NoRequest)
  /\ journal \in Seq(JournalRow)

DutyTyped ==
  /\ duty \in [Kinds -> {"none", "pending", "dispatched", "satisfied"}]
  /\ \A k \in Kinds : /\ duty[k] = "dispatched" => k \in {"consult", "inform"}
                      /\ duty[k] = "satisfied" => k \in {"artifact"} \cup GateKinds
  /\ proof \subseteq ProofRow /\ assessed \in Impacts \cup {"none"}

GateTyped ==
  /\ kernel \in [st : {"active", "gated", "completed", "error"},
                 by : Requests \cup {NoRequest}]
  /\ sgate \in [SponsorGates ->
       [st : {"none", "pending", "approved", "rejected", "timed_out"},
        entry : 0..MaxVersion, expired : BOOLEAN]]
  /\ resumed \subseteq SponsorGates \X {"approved", "rejected", "timed_out"} \X {"owner", "pm"}

SagaTyped ==
  /\ handover \in [HandoverKeys -> HandoverRow]
  /\ call \in [FlowCalls -> CallRow]
  /\ holder \in 1..MaxLeases /\ deaths \in 0..MaxDeaths

DocumentTyped ==
  /\ document \in [FlowStates -> 0..MaxEdits]
  /\ look \in [Reviewers -> [at : FlowStates \cup {"none"}, etag : 0..MaxEdits]]

\* TransitionsChain by its parts: what a row follows, and what a handoff is offered for.
Follows(i) ==
  LET row == journal[i]  before == journal[i - 1] IN
  CASE row.action = "pickup" ->
         /\ before.action = "prepare" /\ row.handoff = before.handoff
         /\ row.from = before.from /\ row.to = before.to
         /\ handover[row.handoff].st = "accepted"
    [] row.action \in {"prepare", "complete"} ->
         /\ before.action \in {"start", "pickup"} /\ row.from = before.to
         /\ \A j \in 1..(i - 1) : row.action = "prepare" => journal[j].handoff # row.handoff
    [] OTHER -> FALSE

OfferedFor(k) ==
  \/ \E i \in DOMAIN journal : journal[i].handoff = k
  \/ flow.st = "handoff_preparing" /\ k = <<flow.version, flow.target>>

-----------------------------------------------------------------------------
(* What the types say *)

\* TransitionsChain is made of these.
LEMMA ChainParts ==
  /\ TransitionsChain <=>
       /\ Len(journal) = flow.version /\ \A i \in 2..Len(journal) : Follows(i)
       /\ \A k \in HandoverKeys : handover[k].st # "none" => OfferedFor(k)
  /\ TransitionsChain' <=>
       /\ Len(journal') = flow'.version /\ \A i \in 2..Len(journal') : Follows(i)'
       /\ \A k \in HandoverKeys : handover'[k].st # "none" => OfferedFor(k)'
<1>1. TransitionsChain <=>
        /\ Len(journal) = flow.version /\ \A i \in 2..Len(journal) : Follows(i)
        /\ \A k \in HandoverKeys : handover[k].st # "none" => OfferedFor(k)
  BY DEF TransitionsChain, Follows, OfferedFor
<1>2. TransitionsChain' <=>
        /\ Len(journal') = flow'.version /\ \A i \in 2..Len(journal') : Follows(i)'
        /\ \A k \in HandoverKeys : handover'[k].st # "none" => OfferedFor(k)'
  BY DEF TransitionsChain, Follows, OfferedFor
<1> QED
  BY <1>1, <1>2

\* While rows stay and accepted handoffs stay accepted, a row follows what it did.
LEMMA FollowsStill ==
  ASSUME NEW i, Follows(i), journal'[i] = journal[i], journal'[i - 1] = journal[i - 1],
         \A j \in 1..(i - 1) : journal'[j].handoff = journal[j].handoff,
         handover[journal[i].handoff].st = "accepted" => handover'[journal[i].handoff].st = "accepted"
  PROVE  Follows(i)'
BY DEF Follows


\* The type invariant, by the parts of the model that change together.
LEMMA Typed ==
  /\ FlowTypeOK <=> RunTyped /\ DutyTyped /\ GateTyped /\ SagaTyped /\ DocumentTyped
  /\ FlowTypeOK' <=> RunTyped' /\ DutyTyped' /\ GateTyped' /\ SagaTyped' /\ DocumentTyped'
<1>1. FlowTypeOK <=> RunTyped /\ DutyTyped /\ GateTyped /\ SagaTyped /\ DocumentTyped
  BY DEF FlowTypeOK, RunTyped, DutyTyped, GateTyped, SagaTyped, DocumentTyped, FlowRow, JournalRow,
     CallRow, HandoverRow, ProofRow
<1>2. FlowTypeOK' <=> RunTyped' /\ DutyTyped' /\ GateTyped' /\ SagaTyped' /\ DocumentTyped'
  BY DEF FlowTypeOK, RunTyped, DutyTyped, GateTyped, SagaTyped, DocumentTyped, FlowRow, JournalRow,
     CallRow, HandoverRow, ProofRow
<1> QED
  BY <1>1, <1>2

\* A request has a version; it is not the absence of one.
LEMMA RequestFacts ==
  ASSUME NEW r \in Requests
  PROVE  r.version \in 1..MaxVersion /\ r.kind \in {"prepare", "pickup", "complete"} /\ r # NoRequest
BY DEF Requests, PrepareRequests, OtherRequests, NoRequest

\* A prepare is no other operation.
LEMMA KindsOfRequests ==
  /\ \A r \in PrepareRequests : r \in Requests /\ r.kind = "prepare"
  /\ \A r \in OtherRequests : r \in Requests /\ r.kind \in {"pickup", "complete"}
BY DEF Requests, PrepareRequests, OtherRequests

\* What the journal holds when one more row is written.
LEMMA RowAdded ==
  ASSUME journal \in Seq(JournalRow), NEW row \in JournalRow, journal' = Append(journal, row)
  PROVE  /\ journal' \in Seq(JournalRow)
         /\ Len(journal) \in Nat /\ Len(journal') = Len(journal) + 1
         /\ DOMAIN journal = 1..Len(journal) /\ DOMAIN journal' = 1..(Len(journal) + 1)
         /\ journal'[Len(journal) + 1] = row
         /\ \A i \in 1..Len(journal) : journal'[i] = journal[i]
OBVIOUS

\* A run that waits for nothing is at the end of what it journaled.
LEMMA FlowBegins == FlowInit => FlowInv
<1> SUFFICES ASSUME FlowInit PROVE FlowInv
  OBVIOUS
<1> USE FlowAssumption
<1>1. RunTyped
  BY DEF FlowInit, RunTyped, FlowRow, NoRequest, NoKey, HandoverKeys
<1>2. DutyTyped /\ DocumentTyped
  BY DEF FlowInit, DutyTyped, DocumentTyped, NoEntry, NoLook
<1>3. GateTyped
  BY DEF FlowInit, GateTyped, NoSponsorGate
<1>4. SagaTyped
  BY DEF FlowInit, SagaTyped, HandoverRow, CallRow, NoCall
<1>5. RunSound /\ JournalSound /\ TransitionsChain
  BY DEF FlowInit, RunSound, JournalSound, TransitionsChain
<1>6. PreparesSound /\ CompletionsSound
  BY DEF FlowInit, PreparesSound, CompletionsSound, NoCall
<1>7. EvidenceSound /\ Leaving /\ SponsorGateResolvable /\ NobodyResumed
  BY DEF FlowInit, EvidenceSound, Leaving, SponsorGateResolvable, NobodyResumed, NoSponsorGate
<1> QED
  BY <1>1, <1>2, <1>3, <1>4, <1>5, <1>6, <1>7, Typed DEF FlowInv

-----------------------------------------------------------------------------
(* What a step leaves alone *)

\* A part of the invariant holds on where its variables stay.
LEMMA PartsStay ==
  ASSUME FlowInv
  PROVE  /\ UNCHANGED <<flow, journal>> => RunTyped' /\ RunSound' /\ JournalSound'
         /\ UNCHANGED <<flow, journal, handover>> => TransitionsChain'
         /\ UNCHANGED <<flow, handover, call>> => PreparesSound'
         /\ UNCHANGED <<kernel, call>> => CompletionsSound'
         /\ UNCHANGED <<duty, proof, assessed>> => DutyTyped'
         /\ UNCHANGED <<flow, duty, proof, assessed>> => EvidenceSound' /\ Leaving'
         /\ UNCHANGED <<kernel, sgate, resumed>> => GateTyped'
         /\ UNCHANGED <<flow, duty, proof, kernel, sgate, resumed>> => SponsorGateResolvable'
         /\ UNCHANGED <<sgate, resumed>> => NobodyResumed'
         /\ UNCHANGED sagaVars => SagaTyped'
         /\ UNCHANGED <<document, look>> => DocumentTyped'
<1>1. UNCHANGED <<flow, journal>> => RunTyped' /\ RunSound' /\ JournalSound'
  BY Typed DEF FlowInv, RunTyped, RunSound, JournalSound
<1>2. UNCHANGED <<flow, journal, handover>> => TransitionsChain'
  BY DEF FlowInv, TransitionsChain
<1>3. UNCHANGED <<flow, handover, call>> => PreparesSound'
  BY DEF FlowInv, PreparesSound, OfferOf
<1>4. UNCHANGED <<kernel, call>> => CompletionsSound'
  BY DEF FlowInv, CompletionsSound
<1>5. UNCHANGED <<duty, proof, assessed>> => DutyTyped'
  BY Typed DEF FlowInv, DutyTyped
<1>6. UNCHANGED <<flow, duty, proof, assessed>> => EvidenceSound' /\ Leaving'
  BY DEF FlowInv, EvidenceSound, Leaving, Obliged, Evidenced, Verified
<1>7. UNCHANGED <<kernel, sgate, resumed>> => GateTyped'
  BY Typed DEF FlowInv, GateTyped
<1>8. UNCHANGED <<flow, duty, proof, kernel, sgate, resumed>> => SponsorGateResolvable'
  BY DEF FlowInv, SponsorGateResolvable, Verified
<1>9. UNCHANGED <<sgate, resumed>> => NobodyResumed'
  BY DEF FlowInv, NobodyResumed
<1>10. UNCHANGED sagaVars => SagaTyped'
  BY Typed DEF FlowInv, SagaTyped, sagaVars
<1>11. UNCHANGED <<document, look>> => DocumentTyped'
  BY Typed DEF FlowInv, DocumentTyped
<1> QED
  BY <1>1, <1>2, <1>3, <1>4, <1>5, <1>6, <1>7, <1>8, <1>9, <1>10, <1>11

\* No gate waits: nothing else that changes can make one stale.
NoneWaits == \A g \in SponsorGates : sgate[g].st # "pending"

\* Then the property holds on where the gates stay.
LEMMA NoneStale ==
  ASSUME FlowInv, NoneWaits, UNCHANGED <<sgate, resumed>>
  PROVE  SponsorGateResolvable'
BY DEF FlowInv, NoneWaits, SponsorGateResolvable

\* While a gate waits the run is in a state whose approval is pending, and its work is held.
LEMMA NoneWaitsFor ==
  ASSUME FlowInv, \/ flow.st # "active" \/ kernel.st # "gated" \/ duty["approval"] # "pending"
  PROVE  NoneWaits
BY DEF FlowInv, NoneWaits, SponsorGateResolvable

\* Who may leave a state has the evidence of all its obligations.
LEMMA ReadyIsEvidenced ==
  ASSUME FlowInv, flow.st # "none", Ready
  PROVE  /\ \A k \in Obliged : Evidenced(k)
         /\ duty["approval"] # "pending"
<1>1. ASSUME NEW k \in Obliged
      PROVE  Evidenced(k)
  <2>1. k \in Kinds /\ duty[k] # "none"
    BY DEF Obliged
  <2>2. CASE k = "artifact"
    BY <2>1, <2>2 DEF Ready, Decided, Evidenced, GateKinds
  <2>3. CASE k \in GateKinds
    <3>1. Decided(k, {"approved", "exception"})
      BY <2>1, <2>3 DEF Ready, GateKinds
    <3>2. PICK p \in proof : p.kind = k /\ p.decision \in {"approved", "exception"}
      BY <3>1 DEF Decided
    <3>3. Verified(p.etag)
      BY <2>3, <3>2 DEF FlowInv, EvidenceSound
    <3> QED
      BY <3>2, <3>3 DEF Evidenced
  <2>4. CASE k = "consult"
    BY <2>1, <2>4 DEF Ready, Decided, Evidenced, GateKinds
  <2>5. CASE k = "inform"
    BY <2>1, <2>5 DEF Ready, Evidenced, GateKinds
  <2> QED
    BY <2>1, <2>2, <2>3, <2>4, <2>5 DEF Kinds, GateKinds
<1>2. duty["approval"] # "pending"
  BY DEF Ready, Kinds, GateKinds
<1> QED
  BY <1>1, <1>2

\* What a state asks for is among the kinds there are.
LEMMA NeededKinds ==
  ASSUME NEW s, NEW impact
  PROVE  Needed(s, impact) \subseteq Kinds
BY FlowAssumption DEF Needed, Kinds

\* A state that was just entered obliges to what it asks for, and nothing is done yet.
LEMMA JustEntered ==
  ASSUME NEW s, NEW impact, duty' = Entered(s, impact)
  PROVE  /\ Obliged' = Needed(s, impact)
         /\ \A k \in Kinds : duty'[k] \in {"none", "pending"}
         /\ \A k \in Kinds : duty'[k] # "satisfied" /\ duty'[k] # "dispatched"
<1>1. \A k \in Kinds : duty'[k] = IF k \in Needed(s, impact) THEN "pending" ELSE "none"
  BY DEF Entered
<1> QED
  BY <1>1, NeededKinds DEF Obliged

\* While the status of an obligation only moves on, there are no others.
LEMMA ObligedStay ==
  ASSUME \A k \in Kinds : (duty'[k] = "none") = (duty[k] = "none")
  PROVE  Obliged' = Obliged
BY DEF Obliged

-----------------------------------------------------------------------------
(* The run: start, dispatch and prepare *)

\* A flow starts in its entry state, with that state's obligations.
LEMMA StartRunKept ==
  ASSUME FlowInv, NEW impact \in Supplied, StartFlow(impact)
  PROVE  FlowInv'
<1> USE FlowAssumption
<1>1. flow \in FlowRow /\ journal \in Seq(JournalRow) /\ flow.version = 0 /\ flow.state \in FlowStates
  BY Typed DEF FlowInv, RunTyped, FlowRow, RunSound, StartFlow
<1>2. PICK row \in JournalRow :
        /\ journal' = <<row>> /\ row.action = "start" /\ row.handoff = NoKey /\ row.to = EntryState
  <2>1. Row("start", NoRequest, EntryState, NoKey) \in JournalRow
    BY <1>1 DEF Row, JournalRow
  <2> QED
    BY <2>1 DEF StartFlow, Row
<1>3. PICK v \in 0..MaxVersion : v = 1
  OBVIOUS
<1>4. /\ flow' = [flow EXCEPT !.st = "active", !.version = v, !.impact = impact]
      /\ flow.st = "none" /\ impact \in Impacts \cup {"none"}
  BY <1>3 DEF StartFlow
<1>5. flow' \in FlowRow /\ flow'.target = flow.target /\ flow'.handoff = flow.handoff /\ flow'.op = flow.op
  BY <1>1, <1>4 DEF FlowRow
<1>6. flow'.st = "active" /\ flow'.state = flow.state /\ flow'.version = 1
  BY <1>1, <1>3, <1>4 DEF FlowRow
<1>7. RunTyped'
  <2>1. journal' \in Seq(JournalRow)
    BY <1>2
  <2> QED
    BY <1>4, <1>5, <1>6, <2>1, Typed DEF FlowInv, RunTyped
<1>8. RunSound'
  BY <1>6 DEF RunSound
<1>9. JournalSound' /\ TransitionsChain'
  <2>1. Len(journal') = 1 /\ DOMAIN journal' = {1} /\ journal'[1] = row
    BY <1>2
  <2>2. flow.state = EntryState
    BY <1>4 DEF FlowInv, RunSound
  <2>3. JournalSound'
    BY <1>2, <1>6, <2>1, <2>2 DEF JournalSound, NoKey
  <2>4. \A k \in HandoverKeys : handover'[k].st = "none"
    BY <1>1, <1>4 DEF FlowInv, JournalSound, TransitionsChain, StartFlow, sagaVars
  <2> QED
    BY <1>6, <2>1, <2>3, <2>4 DEF TransitionsChain
<1>10. PreparesSound' /\ CompletionsSound'
  <2>1. \A c \in FlowCalls : call[c].pc \notin {"offer", "record"}
    <3>1. ASSUME NEW c \in FlowCalls, call[c].pc \in {"offer", "record"}
          PROVE  FALSE
      BY <1>1, <1>4, <3>1, KindsOfRequests, RequestFacts DEF FlowInv, PreparesSound
    <3> QED
      BY <3>1
  <2> QED
    BY <2>1, PartsStay DEF PreparesSound, StartFlow, sagaVars
<1>11. DutyTyped' /\ EvidenceSound' /\ Leaving'
  <2>1. /\ duty' = Entered(flow'.state, flow'.impact) /\ UNCHANGED <<proof, assessed>>
    <3>1. flow'.state = EntryState /\ flow'.impact = impact
      BY <1>1, <1>4, <1>6 DEF FlowInv, RunSound, FlowRow
    <3> QED
      BY <3>1 DEF StartFlow, governanceVars
  <2>3. DutyTyped'
    BY <2>1, Typed DEF FlowInv, DutyTyped, Entered
  <2>4. EvidenceSound'
    BY <1>4, <1>6, <2>1 DEF FlowInv, EvidenceSound, Verified
  <2> QED
    BY <1>6, <2>3, <2>4 DEF Leaving
<1>12. SponsorGateResolvable' /\ NobodyResumed' /\ GateTyped' /\ SagaTyped' /\ DocumentTyped'
  BY <1>4, NoneWaitsFor, NoneStale, PartsStay DEF StartFlow, sponsorVars, governanceVars
<1> QED
  BY <1>7, <1>8, <1>9, <1>10, <1>11, <1>12, Typed DEF FlowInv

\* A dispatch moves one obligation on.
LEMMA DispatchKept ==
  ASSUME FlowInv, NEW k \in Kinds, Dispatch(k)
  PROVE  FlowInv'
<1>1. /\ k \in {"consult", "inform"} /\ duty' = [duty EXCEPT ![k] = "dispatched"]
      /\ duty[k] = "pending" /\ flow.st = "active"
      /\ UNCHANGED <<flow, journal, kernel, proof, assessed, look, sgate, resumed, document>>
      /\ UNCHANGED sagaVars /\ UNCHANGED <<handover, call>>
  BY DEF Dispatch, governanceVars, sponsorVars, sagaVars
<1>2. DutyTyped'
  BY <1>1, Typed DEF FlowInv, DutyTyped
<1>3. /\ duty \in [Kinds -> {"none", "pending", "dispatched", "satisfied"}]
      /\ flow.state \in FlowStates
  BY Typed DEF FlowInv, DutyTyped, RunTyped, FlowRow
<1>4. EvidenceSound' /\ Leaving'
  BY <1>1, <1>3 DEF FlowInv, EvidenceSound, Leaving, Verified
<1>5. SponsorGateResolvable'
  BY <1>1, <1>3 DEF FlowInv, SponsorGateResolvable, Verified, Kinds
<1> QED
  BY <1>1, <1>2, <1>4, <1>5, PartsStay, Typed DEF FlowInv

\* The operation that prepares is of the version the run is at.
LEMMA ReserveKept ==
  ASSUME FlowInv, NEW c \in FlowCalls, NEW r \in PrepareRequests, NEW l \in 1..holder,
         Reserve(c, r, l)
  PROVE  FlowInv'
<1>1. PICK route \in FlowRoutes :
        /\ Matching(flow.state, r.outcome, Merged(r)) = {route}
        /\ flow' = [flow EXCEPT !.st = "handoff_preparing", !.impact = Merged(r),
                                !.target = route.to, !.op = r]
        /\ Begin(c, "offer", r, l, route.to)
  BY DEF Reserve
<1>2. /\ At(c, "idle") /\ flow.st = "active" /\ flow.version = r.version
      /\ r.version + 2 <= MaxVersion /\ Ready
      /\ UNCHANGED <<duty, journal, kernel, proof, assessed, look, sgate, resumed, handover,
                     holder, deaths, document>>
  BY DEF Reserve, governanceVars, sponsorVars
<1>3. /\ flow \in FlowRow /\ journal \in Seq(JournalRow) /\ flow.target = "none" /\ flow.handoff = NoKey
      /\ assessed \in Impacts \cup {"none"}
  BY <1>2, Typed DEF FlowInv, RunTyped, DutyTyped
<1>4. /\ route.from = flow.state /\ route.to \in FlowStates /\ route.impact \in {"any", Merged(r)}
      /\ route.to # "none"
  BY <1>1, FlowAssumption DEF Matching
<1>5. Merged(r) \in Impacts \cup {"none"} /\ assessed \in {"none", Merged(r)}
  BY <1>3, FlowAssumption DEF Merged, PrepareRequests, FlowRow
<1>6. r \in Requests /\ r # NoRequest
  BY KindsOfRequests, RequestFacts
<1>7. /\ flow' \in FlowRow /\ flow'.st = "handoff_preparing" /\ flow'.state = flow.state
      /\ flow'.version = flow.version /\ flow'.impact = Merged(r) /\ flow'.target = route.to
      /\ flow'.op = r /\ flow'.handoff = flow.handoff
  BY <1>1, <1>3, <1>4, <1>5, <1>6 DEF FlowRow
<1>8. /\ RunTyped' /\ RunSound'
  <2>1. flow.version \in 0..MaxVersion /\ flow.version # 0
    BY <1>2, <1>3 DEF FlowInv, RunSound, FlowRow
  <2> QED
    BY <1>2, <1>3, <1>4, <1>6, <1>7, <2>1 DEF RunTyped, RunSound
<1>9. JournalSound' /\ TransitionsChain'
  <2>1. JournalSound'
    BY <1>2, <1>7 DEF FlowInv, JournalSound
  <2>2. \A i \in 2..Len(journal') : Follows(i)'
    BY <1>2 DEF FlowInv, TransitionsChain, Follows
  <2>3. \A k \in HandoverKeys : handover[k].st # "none" => OfferedFor(k)
    BY ChainParts DEF FlowInv
  <2>4. \A k \in HandoverKeys : handover'[k].st # "none" => OfferedFor(k)'
    BY <1>2, <2>3 DEF OfferedFor
  <2>5. Len(journal') = flow'.version
    BY <1>2, <1>7 DEF FlowInv, JournalSound
  <2> QED
    BY <2>1, <2>2, <2>4, <2>5, ChainParts
<1>10. /\ call \in [FlowCalls -> CallRow] /\ l \in 0..MaxLeases
       /\ call' = [call EXCEPT ![c] = [pc |-> "offer", op |-> r, lease |-> l, target |-> route.to]]
  BY <1>1, Typed, FlowAssumption DEF FlowInv, SagaTyped, Begin
<1>11. SagaTyped'
  BY <1>2, <1>4, <1>6, <1>10, Typed DEF FlowInv, SagaTyped, CallRow
<1>12. PreparesSound'
  <2>1. \A d \in FlowCalls : call[d].pc \in {"offer", "record"} => call[d].op.version < flow.version
    <3>1. \A d \in FlowCalls : call[d].pc \in {"offer", "record"} =>
            call[d].op.version \in Nat /\ flow.version \in Nat
      BY <1>3, KindsOfRequests, RequestFacts DEF FlowInv, PreparesSound, FlowRow
    <3> QED
      BY <1>2, <3>1 DEF FlowInv, PreparesSound
  <2>2. \A d \in FlowCalls \ {c} : call'[d] = call[d]
    BY <1>10
  <2>3. /\ call'[c].op = r /\ call'[c].target = route.to /\ call'[c].pc = "offer"
        /\ r.version \in Nat
    BY <1>6, <1>10, RequestFacts
  <2>4. ASSUME NEW d \in FlowCalls, d # c, call'[d].pc \in {"offer", "record"}
        PROVE  /\ call'[d].op \in PrepareRequests /\ call'[d].target \in FlowStates
               /\ call'[d].op.version < flow'.version /\ OfferOf(d)'.st # "none"
    BY <1>2, <1>7, <2>1, <2>2, <2>4 DEF FlowInv, PreparesSound, OfferOf
  <2>5. ASSUME NEW d \in FlowCalls, d # c, call'[d].pc \in {"offer", "record"}
        PROVE  call'[d].op.version \in Nat /\ flow'.version \in Nat
    BY <1>3, <1>7, <2>4, <2>5, KindsOfRequests, RequestFacts DEF FlowRow
  <2> QED
    BY <1>2, <1>4, <1>7, <2>3, <2>4, <2>5 DEF PreparesSound
<1>13. CompletionsSound'
  BY <1>2, <1>10 DEF FlowInv, CompletionsSound
<1>14. EvidenceSound' /\ Leaving'
  <2>1. \A k \in Obliged : Evidenced(k)
    BY <1>2, ReadyIsEvidenced
  <2>2. \A k \in Obliged' : Evidenced(k)'
    BY <1>2, <1>7, <2>1 DEF Obliged, Evidenced, Verified
  <2>3. EvidenceSound'
    BY <1>2, <1>7 DEF FlowInv, EvidenceSound, Verified
  <2> QED
    BY <1>2, <1>4, <1>5, <1>7, <2>2, <2>3 DEF Leaving
<1>15. SponsorGateResolvable'
  BY <1>2, ReadyIsEvidenced, NoneWaitsFor, NoneStale
<1> QED
  BY <1>2, <1>8, <1>9, <1>11, <1>12, <1>13, <1>14, <1>15, PartsStay, Typed DEF FlowInv

\* A call that carries on what is pending is like the one that began it.
LEMMA RetryKept ==
  ASSUME FlowInv, NEW c \in FlowCalls, NEW r \in PrepareRequests, NEW l \in 1..holder,
         Retry(c, r, l)
  PROVE  FlowInv'
<1>1. /\ At(c, "idle") /\ flow.st = "handoff_preparing" /\ flow.op = r
      /\ call' = [call EXCEPT ![c] = [pc |-> "offer", op |-> r, lease |-> l, target |-> flow.target]]
      /\ UNCHANGED <<flow, duty, journal, kernel, proof, assessed, look, sgate, resumed, handover,
                     holder, deaths, document>>
  BY DEF Retry, SamePending, Begin, engineVars, governanceVars, sponsorVars
<1>2. /\ flow \in FlowRow /\ flow.target # "none" /\ flow.target \in FlowStates
      /\ flow.op.version = flow.version /\ flow.version \in Nat
      /\ call \in [FlowCalls -> CallRow] /\ l \in 0..MaxLeases
  BY <1>1, Typed, FlowAssumption DEF FlowInv, RunTyped, FlowRow, RunSound, SagaTyped
<1>3. SagaTyped'
  BY <1>1, <1>2, KindsOfRequests, Typed DEF FlowInv, SagaTyped, CallRow
<1>4. PreparesSound'
  <2>1. \A d \in FlowCalls \ {c} : call'[d] = call[d]
    BY <1>1, <1>2
  <2>2. call'[c].op = r /\ call'[c].target = flow.target /\ call'[c].pc = "offer"
    BY <1>1, <1>2
  <2>3. ASSUME NEW d \in FlowCalls, d # c, call'[d].pc \in {"offer", "record"}
        PROVE  /\ call'[d].op \in PrepareRequests /\ call'[d].target \in FlowStates
               /\ call'[d].op.version <= flow'.version
               /\ call'[d].op.version = flow'.version =>
                    /\ flow'.st = "handoff_preparing" /\ flow'.op = call'[d].op
                    /\ flow'.target = call'[d].target
               /\ call'[d].pc = "record" \/ call'[d].op.version < flow'.version =>
                    OfferOf(d)'.st # "none"
    BY <1>1, <2>1, <2>3 DEF FlowInv, PreparesSound, OfferOf
  <2> QED
    BY <1>1, <1>2, <2>2, <2>3 DEF PreparesSound
<1>5. CompletionsSound'
  BY <1>1, <1>2 DEF FlowInv, CompletionsSound
<1> QED
  BY <1>1, <1>3, <1>4, <1>5, PartsStay, Typed DEF FlowInv


\* The first offer of a prepare makes its handoff; a later one finds it.
LEMMA OfferKept ==
  ASSUME FlowInv, NEW c \in FlowCalls, OfferHandover(c)
  PROVE  FlowInv'
<1> DEFINE key == Key(call[c].op, call[c].target)
<1>1. /\ call[c].pc = "offer" /\ call \in [FlowCalls -> CallRow]
      /\ handover \in [HandoverKeys -> HandoverRow] /\ holder \in 0..MaxLeases
      /\ handover' = [handover EXCEPT ![key] =
                        IF @.st = "none" THEN [st |-> "offered", lease |-> holder] ELSE @]
      /\ call' = [call EXCEPT ![c].pc = "record"]
      /\ UNCHANGED <<flow, duty, journal, kernel, proof, assessed, look, sgate, resumed,
                     holder, deaths, document>>
  BY Typed, FlowAssumption
  DEF OfferHandover, At, GoOn, engineVars, governanceVars, sponsorVars, FlowInv, SagaTyped
<1>2. /\ call[c].op \in PrepareRequests /\ call[c].target \in FlowStates
      /\ call[c].op.version <= flow.version
      /\ call[c].op.version = flow.version =>
           flow.st = "handoff_preparing" /\ flow.op = call[c].op /\ flow.target = call[c].target
      /\ call[c].op.version < flow.version => OfferOf(c).st # "none"
  BY <1>1 DEF FlowInv, PreparesSound
<1>3. /\ key \in HandoverKeys /\ call[c].op.version \in 1..MaxVersion
      /\ flow.version \in 0..MaxVersion
      /\ key = <<call[c].op.version, call[c].target>> /\ OfferOf(c) = handover[key]
  BY <1>2, KindsOfRequests, RequestFacts, Typed
  DEF HandoverKeys, Key, OfferOf, FlowInv, RunTyped, FlowRow
<1> HIDE DEF key
<1>4. /\ handover' \in [HandoverKeys -> HandoverRow]
      /\ handover'[key].st # "none" /\ (handover[key].st # "none" => handover'[key] = handover[key])
      /\ \A k \in HandoverKeys \ {key} : handover'[k] = handover[k]
  BY <1>1, <1>3 DEF HandoverRow
<1>5. /\ call' \in [FlowCalls -> CallRow] /\ \A d \in FlowCalls \ {c} : call'[d] = call[d]
      /\ call'[c].op = call[c].op /\ call'[c].target = call[c].target /\ call'[c].pc = "record"
  BY <1>1 DEF CallRow
<1>6. SagaTyped'
  BY <1>1, <1>4, <1>5, Typed DEF FlowInv, SagaTyped
<1>7. \A k \in HandoverKeys : handover[k].st # "none" => handover'[k] = handover[k]
  BY <1>4
<1>8. TransitionsChain'
  <2>1. \A i \in 2..Len(journal') : Follows(i)'
    <3> SUFFICES ASSUME NEW i \in 2..Len(journal') PROVE Follows(i)'
      OBVIOUS
    <3>1. Follows(i)
      BY <1>1, ChainParts DEF FlowInv
    <3>2. handover[journal[i].handoff].st = "accepted" =>
            handover'[journal[i].handoff].st = "accepted"
      BY <1>1, <1>4
    <3> QED
      BY <1>1, <3>1, <3>2, FollowsStill
  <2>2. \A k \in HandoverKeys : handover'[k].st # "none" => OfferedFor(k)'
    <3>1. \A k \in HandoverKeys : handover[k].st # "none" => OfferedFor(k)
      BY ChainParts DEF FlowInv
    <3>2. handover[key].st = "none" =>
            flow.st = "handoff_preparing" /\ key = <<flow.version, flow.target>>
      BY <1>2, <1>3
    <3> QED
      BY <1>1, <1>4, <3>1, <3>2 DEF OfferedFor
  <2>3. Len(journal') = flow'.version
    BY <1>1 DEF FlowInv, JournalSound
  <2> QED
    BY <2>1, <2>2, <2>3, ChainParts
<1>9. PreparesSound'
  <2>1. OfferOf(c)' = handover'[key]
    BY <1>3, <1>5 DEF OfferOf, Key
  <2>2. ASSUME NEW d \in FlowCalls, d # c, call'[d].pc \in {"offer", "record"}
        PROVE  /\ call'[d].op \in PrepareRequests /\ call'[d].target \in FlowStates
               /\ call'[d].op.version <= flow'.version
               /\ call'[d].op.version = flow'.version =>
                    /\ flow'.st = "handoff_preparing" /\ flow'.op = call'[d].op
                    /\ flow'.target = call'[d].target
               /\ call'[d].pc = "record" \/ call'[d].op.version < flow'.version =>
                    OfferOf(d)'.st # "none"
    <3>1. /\ call[d].op \in PrepareRequests /\ call[d].target \in FlowStates
          /\ call[d].op.version <= flow.version
          /\ call[d].op.version = flow.version =>
               flow.st = "handoff_preparing" /\ flow.op = call[d].op /\ flow.target = call[d].target
          /\ call[d].pc = "record" \/ call[d].op.version < flow.version => OfferOf(d).st # "none"
      BY <1>5, <2>2 DEF FlowInv, PreparesSound
    <3>2. Key(call[d].op, call[d].target) \in HandoverKeys
      BY <3>1, KindsOfRequests, RequestFacts DEF Key, HandoverKeys
    <3>3. OfferOf(d).st # "none" => OfferOf(d)'.st # "none"
      BY <1>5, <1>7, <2>2, <3>2 DEF OfferOf
    <3> QED
      BY <1>1, <1>5, <2>2, <3>1, <3>3
  <2> QED
    BY <1>1, <1>2, <1>4, <1>5, <2>1, <2>2 DEF PreparesSound
<1>10. CompletionsSound'
  BY <1>1, <1>5 DEF FlowInv, CompletionsSound
<1> QED
  BY <1>1, <1>6, <1>8, <1>9, <1>10, PartsStay, Typed DEF FlowInv

\* A prepare is recorded once, by a call that has offered its handoff.
LEMMA RecordKept ==
  ASSUME FlowInv, NEW c \in FlowCalls, RecordHandover(c)
  PROVE  FlowInv'
<1> DEFINE key == Key(call[c].op, call[c].target)
           row == Row("prepare", call[c].op, call[c].target, key)
<1>1. /\ call[c].pc = "record" /\ call \in [FlowCalls -> CallRow]
      /\ ~Journaled(call[c].op) /\ flow.op = call[c].op
      /\ flow' = [flow EXCEPT !.st = "handoff_pending", !.handoff = key, !.version = @ + 1]
      /\ journal' = Append(journal, row)
      /\ call' = [call EXCEPT ![c] = NoCall]
      /\ UNCHANGED <<duty, kernel, proof, assessed, look, sgate, resumed, handover,
                     holder, deaths, document>>
  BY Typed
  DEF RecordHandover, At, Return, MayRecord, SamePending, governanceVars, sponsorVars, FlowInv,
      SagaTyped
<1>2. /\ flow.op \in PrepareRequests /\ flow.op \in Requests /\ flow.op # NoRequest
      /\ flow.op.version \in 1..MaxVersion /\ flow.op.kind = "prepare"
      /\ call[c].target \in FlowStates /\ call[c].op.version <= flow.version
  BY <1>1, KindsOfRequests, RequestFacts DEF FlowInv, PreparesSound
<1>3. /\ flow \in FlowRow /\ journal \in Seq(JournalRow) /\ flow.version \in 0..MaxVersion
      /\ DOMAIN journal = 1..Len(journal) /\ Len(journal) = flow.version
  BY Typed DEF FlowInv, RunTyped, FlowRow, JournalSound
<1>4. flow.st = "handoff_preparing"
  <2>1. flow.st # "handoff_pending"
    BY <1>1, <1>2, <1>3 DEF FlowInv, JournalSound, RunSound, Journaled
  <2>2. flow.st # "completion_preparing"
    BY <1>2 DEF FlowInv, RunSound
  <2> QED
    BY <1>2, <1>3, <2>1, <2>2, Typed DEF FlowInv, RunTyped, FlowRow
<1>5. /\ flow.op.version = flow.version /\ flow.version + 2 <= MaxVersion
      /\ flow.target = call[c].target /\ handover[key].st # "none"
      /\ key = <<flow.version, flow.target>> /\ key \in HandoverKeys /\ key # NoKey
      /\ key[1] = flow.version
  BY <1>1, <1>2, <1>4 DEF FlowInv, RunSound, PreparesSound, OfferOf, Key, HandoverKeys, NoKey
<1>6. /\ row \in JournalRow /\ row.action = "prepare" /\ row.id = Id(flow.op) /\ row.handoff = key
      /\ row.from = flow.state /\ row.to = flow.target
  <2>1. flow.state \in FlowStates
    BY <1>3 DEF FlowRow
  <2> QED
    BY <1>1, <1>2, <1>5, <2>1 DEF Row, JournalRow
<1> HIDE DEF key, row
<1>7. /\ flow' \in FlowRow /\ flow'.st = "handoff_pending" /\ flow'.handoff = key
      /\ flow'.version = flow.version + 1 /\ flow'.state = flow.state /\ flow'.op = flow.op
      /\ flow'.target = flow.target /\ flow'.impact = flow.impact
  <2>1. PICK v \in 0..MaxVersion : v = flow.version + 1
    BY <1>3, <1>5, FlowAssumption
  <2>2. flow' = [flow EXCEPT !.st = "handoff_pending", !.handoff = key, !.version = v]
    BY <1>1, <1>3, <2>1 DEF FlowRow
  <2> QED
    BY <1>3, <1>5, <2>1, <2>2 DEF FlowRow
<1>0. PICK n \in Nat : n = flow.version + 1
  BY <1>3
<1>8. /\ journal' \in Seq(JournalRow) /\ Len(journal') = flow.version + 1
      /\ DOMAIN journal' = 1..(flow.version + 1) /\ journal'[flow.version + 1] = row
      /\ \A i \in 1..flow.version : journal'[i] = journal[i]
  BY <1>1, <1>3, <1>6, RowAdded
<1>9. RunTyped' /\ RunSound'
  <2>1. RunTyped'
    BY <1>2, <1>4, <1>5, <1>7, <1>8, Typed DEF FlowInv, RunTyped
  <2> QED
    BY <1>2, <1>3, <1>5, <1>7, <2>1 DEF RunSound
<1>10. JournalSound'
  <2>1. \A i \in DOMAIN journal' : journal'[i].handoff[1] < i
    <3>1. journal'[flow.version + 1].handoff[1] < flow.version + 1
      BY <1>3, <1>5, <1>6, <1>8
    <3>2. \A i \in 1..flow.version : journal[i].handoff[1] < i
      BY <1>3 DEF FlowInv, JournalSound
    <3> QED
      BY <1>3, <1>8, <3>1, <3>2
  <2> QED
    BY <1>3, <1>6, <1>7, <1>8, <2>1 DEF JournalSound
<1>11. TransitionsChain'
  <2>1. ASSUME NEW i \in 2..flow.version
        PROVE  Follows(i)'
    <3>1. Follows(i)
      BY <1>3, ChainParts DEF FlowInv
    <3> QED
      BY <1>1, <1>3, <1>8, <3>1, FollowsStill
  <2>2. n \in 2..Len(journal') => Follows(n)'
    <3> SUFFICES ASSUME n >= 2
                 PROVE  Follows(n)'
      BY <1>0, <1>3, <1>8
    <3>1. /\ journal'[n] = row /\ journal'[n - 1] = journal[flow.version]
          /\ n - 1 = flow.version
      BY <1>0, <1>3, <1>8
    <3>2. /\ journal[flow.version].action \in {"start", "pickup"}
          /\ journal[flow.version].to = flow.state
      BY <1>4 DEF FlowInv, JournalSound
    <3>3. \A j \in 1..flow.version : journal'[j].handoff # key
      <4>1. \A j \in 1..flow.version : journal[j].handoff[1] < j
        BY <1>3 DEF FlowInv, JournalSound
      <4>2. ASSUME NEW j \in 1..flow.version, journal[j].handoff = key
            PROVE  FALSE
        BY <1>3, <1>5, <4>1, <4>2
      <4> QED
        BY <1>8, <4>2
    <3> QED
      BY <1>6, <3>1, <3>2, <3>3 DEF Follows
  <2>3. \A k \in HandoverKeys : handover'[k].st # "none" => OfferedFor(k)'
    <3>1. \A k \in HandoverKeys : handover[k].st # "none" => OfferedFor(k)
      BY ChainParts DEF FlowInv
    <3>2. flow.version + 1 \in DOMAIN journal' /\ journal'[flow.version + 1].handoff = key
      BY <1>3, <1>6, <1>8
    <3>3. \A i \in DOMAIN journal : i \in DOMAIN journal' /\ journal'[i] = journal[i]
      BY <1>3, <1>8
    <3> QED
      BY <1>1, <1>5, <3>1, <3>2, <3>3 DEF OfferedFor
  <2>4. ASSUME NEW i \in 2..Len(journal')
        PROVE  i = n \/ i \in 2..flow.version
    BY <1>0, <1>3, <1>8
  <2>5. n = flow.version + 1 /\ Len(journal') = flow'.version
    BY <1>0, <1>7, <1>8
  <2> QED
    BY <2>1, <2>2, <2>3, <2>4, <2>5, ChainParts
<1>12. SagaTyped'
  <2>1. NoCall \in CallRow
    BY FlowAssumption DEF NoCall, CallRow
  <2> QED
    BY <1>1, <2>1, Typed DEF FlowInv, SagaTyped
<1>13. PreparesSound'
  <2>1. ASSUME NEW d \in FlowCalls, call'[d].pc \in {"offer", "record"}
        PROVE  /\ call'[d].op \in PrepareRequests /\ call'[d].target \in FlowStates
               /\ call'[d].op.version <= flow.version
               /\ OfferOf(d)'.st # "none"
    <3>1. d # c /\ call'[d] = call[d]
      BY <1>1, <2>1 DEF NoCall
    <3>2. OfferOf(d)' = OfferOf(d)
      BY <1>1, <3>1 DEF OfferOf
    <3>3. /\ call[d].op \in PrepareRequests /\ call[d].target \in FlowStates
          /\ call[d].op.version <= flow.version
          /\ call[d].op.version = flow.version =>
               flow.op = call[d].op /\ flow.target = call[d].target
          /\ call[d].op.version < flow.version => OfferOf(d).st # "none"
      BY <2>1, <3>1 DEF FlowInv, PreparesSound
    <3>4. call[d].op.version \in Nat
      BY <3>3, KindsOfRequests, RequestFacts
    <3>5. call[d].op.version = flow.version => OfferOf(d) = OfferOf(c)
      BY <1>1, <1>5, <3>3 DEF OfferOf
    <3>6. OfferOf(c).st # "none"
      BY <1>1 DEF FlowInv, PreparesSound
    <3> QED
      BY <1>3, <3>1, <3>2, <3>3, <3>4, <3>5, <3>6
  <2>2. \A d \in FlowCalls : call'[d].pc \in {"offer", "record"} => call'[d].op.version \in Nat
    BY <2>1, KindsOfRequests, RequestFacts
  <2> QED
    BY <1>3, <1>7, <2>1, <2>2 DEF PreparesSound
<1>14. CompletionsSound'
  BY <1>1 DEF FlowInv, CompletionsSound, NoCall
<1>15. EvidenceSound' /\ Leaving'
  BY <1>1, <1>4, <1>7 DEF FlowInv, EvidenceSound, Leaving, Obliged, Evidenced, Verified
<1>16. SponsorGateResolvable'
  BY <1>1, <1>4, NoneWaitsFor, NoneStale
<1> QED
  BY <1>1, <1>9, <1>10, <1>11, <1>12, <1>13, <1>14, <1>15, <1>16, PartsStay, Typed DEF FlowInv

-----------------------------------------------------------------------------
(* The run: pickup and complete *)

\* The accepted handoff of the prepare before it takes the run to its target.
LEMMA PickUpKept ==
  ASSUME FlowInv, NEW r \in OtherRequests, PickUp(r)
  PROVE  FlowInv'
<1> DEFINE row == Row("pickup", r, flow.target, flow.handoff)
<1>1. /\ flow.st = "handoff_pending" /\ flow.version = r.version /\ kernel.st = "active"
      /\ handover[flow.handoff].st = "accepted"
      /\ flow' = [flow EXCEPT !.st = "active", !.state = flow.target, !.version = @ + 1,
                              !.target = "none", !.op = NoRequest, !.handoff = NoKey]
      /\ duty' = Entered(flow.target, flow.impact) /\ proof' = {} /\ journal' = Append(journal, row)
      /\ holder' = 1
      /\ UNCHANGED <<kernel, assessed, look, sgate, resumed, handover, call, deaths, document>>
  BY DEF PickUp, Taken, Arrived, sponsorVars
<1>2. /\ flow \in FlowRow /\ journal \in Seq(JournalRow) /\ flow.version \in 0..MaxVersion
      /\ DOMAIN journal = 1..Len(journal) /\ Len(journal) = flow.version
      /\ flow.target # "none" /\ flow.target \in FlowStates /\ flow.state \in FlowStates
      /\ flow.handoff \in HandoverKeys \cup {NoKey} /\ flow.version + 1 <= MaxVersion
      /\ r \in Requests
  BY <1>1, Typed, KindsOfRequests DEF FlowInv, RunTyped, FlowRow, JournalSound, RunSound
<1>3. /\ row \in JournalRow /\ row.action = "pickup" /\ row.handoff = flow.handoff
      /\ row.from = flow.state /\ row.to = flow.target
  BY <1>2 DEF Row, JournalRow
<1> HIDE DEF row
<1>0. PICK n \in Nat : n = flow.version + 1 /\ n \in 1..MaxVersion
  BY <1>2, FlowAssumption
<1>4. /\ flow' \in FlowRow /\ flow'.st = "active" /\ flow'.state = flow.target
      /\ flow'.version = n /\ flow'.target = "none" /\ flow'.op = NoRequest
      /\ flow'.handoff = NoKey
  <2>1. PICK to \in FlowStates : to = flow.target
    BY <1>2
  <2>2. flow' = [flow EXCEPT !.st = "active", !.state = to, !.version = n,
                             !.target = "none", !.op = NoRequest, !.handoff = NoKey]
    BY <1>0, <1>1, <2>1
  <2>3. n \in 0..MaxVersion
    BY <1>0
  <2> QED
    BY <1>2, <2>1, <2>2, <2>3 DEF FlowRow
<1>5. /\ journal' \in Seq(JournalRow) /\ Len(journal') = n /\ n - 1 = flow.version
      /\ DOMAIN journal' = 1..n /\ journal'[n] = row
      /\ \A i \in 1..(n - 1) : journal'[i] = journal[i]
  BY <1>0, <1>1, <1>2, <1>3, RowAdded
<1>6. RunTyped' /\ RunSound'
  BY <1>0, <1>4, <1>5 DEF RunTyped, RunSound
<1>7. LET last == journal[n - 1] IN
        /\ last.action = "prepare" /\ last.handoff = flow.handoff
        /\ last.from = flow.state /\ last.to = flow.target
  BY <1>1, <1>5 DEF FlowInv, JournalSound
<1>8. n >= 2
  BY <1>1, <1>2, <1>5 DEF FlowInv, RunSound
<1>9. JournalSound'
  <2>1. \A i \in 1..(n - 1) : journal[i].handoff[1] < i
    BY <1>2, <1>5 DEF FlowInv, JournalSound
  <2>2. journal[n - 1].handoff \in HandoverKeys \cup {NoKey}
    BY <1>2, <1>7
  <2>3. journal'[n].handoff[1] < n
    <3>1. journal[n - 1].handoff[1] < n - 1 /\ row.handoff = journal[n - 1].handoff
      BY <1>3, <1>7, <1>8, <2>1
    <3>2. row.handoff[1] \in 0..MaxVersion
      <4>1. NoKey[1] \in 0..MaxVersion
        BY FlowAssumption DEF NoKey
      <4>2. \A k \in HandoverKeys : k[1] \in 0..MaxVersion
        BY FlowAssumption DEF HandoverKeys
      <4> QED
        BY <2>2, <3>1, <4>1, <4>2
    <3> QED
      BY <1>5, <3>1, <3>2
  <2> QED
    BY <1>3, <1>4, <1>5, <2>1, <2>3 DEF JournalSound
<1>10. TransitionsChain'
  <2>1. ASSUME NEW i \in 2..(n - 1)
        PROVE  Follows(i)'
    <3>1. Follows(i)
      BY <1>2, <1>5, ChainParts DEF FlowInv
    <3>2. i \in 1..(n - 1) /\ i - 1 \in 1..(n - 1) /\ \A j \in 1..(i - 1) : j \in 1..(n - 1)
      BY <1>0
    <3>3. /\ journal'[i] = journal[i] /\ journal'[i - 1] = journal[i - 1]
          /\ \A j \in 1..(i - 1) : journal'[j].handoff = journal[j].handoff
          /\ handover' = handover
      BY <1>1, <1>5, <3>2
    <3> QED
      BY <3>1, <3>3, FollowsStill
  <2>2. Follows(n)'
    <3>1. journal'[n] = row /\ journal'[n - 1] = journal[n - 1]
      BY <1>5, <1>8
    <3> QED
      BY <1>1, <1>3, <1>7, <3>1 DEF Follows
  <2>3. \A k \in HandoverKeys : handover'[k].st # "none" => OfferedFor(k)'
    <3>1. \A k \in HandoverKeys : handover[k].st # "none" => \E i \in DOMAIN journal : journal[i].handoff = k
      BY <1>1, ChainParts DEF FlowInv, OfferedFor
    <3>2. \A i \in DOMAIN journal : i \in DOMAIN journal' /\ journal'[i] = journal[i]
      BY <1>2, <1>5
    <3> QED
      BY <1>1, <3>1, <3>2 DEF OfferedFor
  <2>4. \A i \in 2..Len(journal') : i = n \/ i \in 2..(n - 1)
    BY <1>5
  <2> QED
    BY <1>4, <1>5, <2>1, <2>2, <2>3, <2>4, ChainParts
<1>11. SagaTyped'
  BY <1>1, FlowAssumption, Typed DEF FlowInv, SagaTyped
<1>12. PreparesSound'
  <2>1. ASSUME NEW d \in FlowCalls, call[d].pc \in {"offer", "record"}
        PROVE  /\ call[d].op \in PrepareRequests /\ call[d].target \in FlowStates
               /\ call[d].op.version < n /\ OfferOf(d).st # "none"
    <3>1. /\ call[d].op \in PrepareRequests /\ call[d].target \in FlowStates
          /\ call[d].op.version <= flow.version /\ call[d].op.version # flow.version
          /\ call[d].op.version < flow.version => OfferOf(d).st # "none"
      BY <1>1, <2>1 DEF FlowInv, PreparesSound
    <3>2. call[d].op.version \in Nat
      BY <3>1, KindsOfRequests, RequestFacts
    <3> QED
      BY <1>0, <1>2, <3>1, <3>2
  <2>2. \A d \in FlowCalls : call[d].pc \in {"offer", "record"} => call[d].op.version \in Nat
    BY <2>1, KindsOfRequests, RequestFacts
  <2> QED
    BY <1>1, <1>4, <2>1, <2>2 DEF PreparesSound, OfferOf
<1>13. DutyTyped' /\ EvidenceSound' /\ Leaving'
  <2>1. DutyTyped'
    BY <1>1, Typed DEF FlowInv, DutyTyped, Entered
  <2> QED
    BY <1>1, <1>4, <2>1 DEF EvidenceSound, Leaving
<1>14. SponsorGateResolvable'
  BY <1>1, NoneWaitsFor, NoneStale
<1> QED
  BY <1>1, <1>6, <1>9, <1>10, <1>11, <1>12, <1>13, <1>14, PartsStay, Typed DEF FlowInv

\* A completion that begins, or is carried on, is of the version the run is at.
LEMMA ReserveCompletionKept ==
  ASSUME FlowInv, NEW c \in FlowCalls, NEW r \in OtherRequests, ReserveCompletion(c, r)
  PROVE  FlowInv'
<1>1. /\ At(c, "idle") /\ r.kind = "complete" /\ r \in Requests /\ r # NoRequest
      /\ r.version \in 1..MaxVersion
      /\ call' = [call EXCEPT ![c] = [pc |-> "kernel", op |-> r, lease |-> 0, target |-> "none"]]
      /\ UNCHANGED <<duty, journal, kernel, proof, assessed, look, sgate, resumed, handover, holder,
                     deaths, document>>
  BY KindsOfRequests, RequestFacts DEF ReserveCompletion, Begin, governanceVars, sponsorVars
<1>2. \/ /\ flow.st = "active" /\ flow.version = r.version /\ r.version < MaxVersion /\ Ready
         /\ flow' = [flow EXCEPT !.st = "completion_preparing", !.op = r]
      \/ UNCHANGED flow
  BY DEF ReserveCompletion
<1>3. /\ flow \in FlowRow /\ journal \in Seq(JournalRow) /\ call \in [FlowCalls -> CallRow]
  BY Typed DEF FlowInv, RunTyped, SagaTyped
<1>4. SagaTyped'
  <2>1. [pc |-> "kernel", op |-> r, lease |-> 0, target |-> "none"] \in CallRow
    BY <1>1, FlowAssumption DEF CallRow
  <2> QED
    BY <1>1, <2>1, Typed DEF FlowInv, SagaTyped
<1>5. CompletionsSound'
  BY <1>1, <1>3 DEF FlowInv, CompletionsSound
<1>6. CASE UNCHANGED flow
  <2>1. PreparesSound'
    BY <1>1, <1>3, <1>6 DEF FlowInv, PreparesSound, OfferOf
  <2> QED
    BY <1>1, <1>4, <1>5, <1>6, <2>1, PartsStay, Typed DEF FlowInv
<1>7. CASE /\ flow.st = "active" /\ flow.version = r.version /\ r.version < MaxVersion /\ Ready
           /\ flow' = [flow EXCEPT !.st = "completion_preparing", !.op = r]
  <2>1. /\ flow' \in FlowRow /\ flow'.st = "completion_preparing" /\ flow'.op = r
        /\ flow'.version = flow.version /\ flow'.state = flow.state /\ flow'.target = flow.target
        /\ flow'.handoff = flow.handoff
    BY <1>1, <1>3, <1>7 DEF FlowRow
  <2>2. RunTyped' /\ RunSound'
    BY <1>1, <1>3, <1>7, <2>1, Typed, FlowAssumption DEF FlowInv, RunTyped, RunSound
  <2>3. JournalSound'
    BY <1>1, <1>7, <2>1 DEF FlowInv, JournalSound
  <2>4. TransitionsChain'
    <3>1. \A i \in 2..Len(journal') : Follows(i)'
      BY <1>1, ChainParts DEF FlowInv, Follows
    <3>2. \A k \in HandoverKeys : handover[k].st # "none" => OfferedFor(k)
      BY ChainParts DEF FlowInv
    <3>3. \A k \in HandoverKeys : handover'[k].st # "none" => OfferedFor(k)'
      BY <1>1, <1>7, <3>2 DEF OfferedFor
    <3>4. Len(journal') = flow'.version
      BY <1>1, <2>1 DEF FlowInv, JournalSound
    <3> QED
      BY <3>1, <3>3, <3>4, ChainParts
  <2>5. PreparesSound'
    <3>1. ASSUME NEW d \in FlowCalls, call'[d].pc \in {"offer", "record"}
          PROVE  /\ call'[d].op \in PrepareRequests /\ call'[d].target \in FlowStates
                 /\ call'[d].op.version <= flow'.version
                 /\ call'[d].op.version # flow'.version /\ OfferOf(d)'.st # "none"
      <4>1. call'[d] = call[d]
        BY <1>1, <1>3, <3>1
      <4>2. /\ call[d].op \in PrepareRequests /\ call[d].target \in FlowStates
            /\ call[d].op.version <= flow.version /\ call[d].op.version # flow.version
            /\ call[d].op.version < flow.version => OfferOf(d).st # "none"
        BY <1>7, <3>1, <4>1 DEF FlowInv, PreparesSound
      <4>3. call[d].op.version \in Nat /\ flow.version \in Nat
        BY <1>1, <1>7, <4>2, KindsOfRequests, RequestFacts
      <4> QED
        BY <1>1, <2>1, <4>1, <4>2, <4>3 DEF OfferOf
    <3> QED
      BY <3>1 DEF PreparesSound
  <2>6. EvidenceSound' /\ Leaving'
    <3>1. \A k \in Obliged : Evidenced(k)
      BY <1>7, ReadyIsEvidenced
    <3>2. \A k \in Obliged' : Evidenced(k)'
      BY <1>1, <2>1, <3>1 DEF Obliged, Evidenced, Verified
    <3> QED
      BY <1>1, <1>7, <2>1, <3>2 DEF FlowInv, EvidenceSound, Leaving, Verified
  <2>7. SponsorGateResolvable'
    BY <1>1, <1>7, ReadyIsEvidenced, NoneWaitsFor, NoneStale
  <2> QED
    BY <1>1, <1>4, <1>5, <2>2, <2>3, <2>4, <2>5, <2>6, <2>7, PartsStay, Typed DEF FlowInv
<1> QED
  BY <1>2, <1>6, <1>7

\* The kernel's work is completed once, by the operation that will end the run.
LEMMA CompleteKernelKept ==
  ASSUME FlowInv, NEW c \in FlowCalls, CompleteKernel(c)
  PROVE  FlowInv'
<1>1. /\ call[c].pc = "kernel" /\ call \in [FlowCalls -> CallRow] /\ call[c].op \in Requests \cup {NoRequest}
      /\ kernel.st = "active" \/ kernel = [st |-> "completed", by |-> call[c].op]
      /\ kernel' = [st |-> "completed", by |-> IF kernel.st = "active" THEN call[c].op ELSE kernel.by]
      /\ call' = [call EXCEPT ![c].pc = "finish"]
      /\ UNCHANGED <<flow, duty, journal, proof, assessed, look, sgate, resumed, handover, holder,
                     deaths, document>>
  BY Typed
  DEF CompleteKernel, At, GoOn, Completing, governanceVars, sponsorVars, FlowInv, SagaTyped, CallRow
<1>2. kernel' = [st |-> "completed", by |-> call[c].op]
  BY <1>1
<1>3. GateTyped'
  BY <1>1, <1>2, Typed DEF FlowInv, GateTyped
<1>4. /\ call' \in [FlowCalls -> CallRow] /\ call'[c].op = call[c].op /\ call'[c].pc = "finish"
      /\ \A d \in FlowCalls \ {c} : call'[d] = call[d]
  BY <1>1 DEF CallRow
<1>5. SagaTyped' /\ PreparesSound'
  BY <1>1, <1>4, Typed DEF FlowInv, SagaTyped, PreparesSound, OfferOf
<1>6. CompletionsSound'
  <2>1. ASSUME NEW d \in FlowCalls \ {c}, call[d].pc = "finish"
        PROVE  kernel' = kernel
    BY <1>1, <1>2, <2>1 DEF FlowInv, CompletionsSound
  <2> QED
    BY <1>1, <1>2, <1>4, <2>1 DEF FlowInv, CompletionsSound
<1>7. SponsorGateResolvable'
  BY <1>1, NoneWaitsFor, NoneStale
<1> QED
  BY <1>1, <1>3, <1>5, <1>6, <1>7, PartsStay, Typed DEF FlowInv


\* The run ends with its completion, which the kernel has already.
LEMMA RecordCompletionKept ==
  ASSUME FlowInv, NEW c \in FlowCalls, RecordCompletion(c)
  PROVE  FlowInv'
<1> DEFINE row == Row("complete", call[c].op, flow.state, NoKey)
<1>1. /\ call[c].pc = "finish" /\ call \in [FlowCalls -> CallRow]
      /\ call[c].op \in Requests \cup {NoRequest}
      /\ flow.op = call[c].op
      /\ flow' = [flow EXCEPT !.st = "completed", !.op = NoRequest, !.version = @ + 1]
      /\ journal' = Append(journal, row)
      /\ call' = [call EXCEPT ![c] = NoCall]
      /\ UNCHANGED <<duty, kernel, proof, assessed, look, sgate, resumed, handover, holder,
                     deaths, document>>
  BY Typed
  DEF RecordCompletion, At, Return, MayRecord, SamePending, governanceVars, sponsorVars, FlowInv,
      SagaTyped, CallRow
<1>2. /\ flow \in FlowRow /\ journal \in Seq(JournalRow) /\ flow.version \in 0..MaxVersion
      /\ DOMAIN journal = 1..Len(journal) /\ Len(journal) = flow.version
      /\ flow.state \in FlowStates
  BY Typed DEF FlowInv, RunTyped, FlowRow, JournalSound
<1>3. flow.st = "completion_preparing"
  <2>1. flow.op \in OtherRequests /\ flow.op.kind = "complete" /\ flow.op # NoRequest
    BY <1>1, KindsOfRequests, RequestFacts DEF FlowInv, CompletionsSound
  <2>2. flow.st \notin {"handoff_preparing", "handoff_pending"}
    BY <2>1, KindsOfRequests DEF FlowInv, RunSound
  <2> QED
    BY <1>2, <2>1, <2>2, Typed DEF FlowInv, RunTyped, FlowRow
<1>4. /\ flow.op \in Requests /\ flow.version \in 1..MaxVersion /\ flow.version + 1 <= MaxVersion
      /\ flow.target = "none" /\ flow.handoff = NoKey
  BY <1>2, <1>3, KindsOfRequests, RequestFacts, Typed DEF FlowInv, RunSound, RunTyped
<1>5. /\ row \in JournalRow /\ row.action = "complete" /\ row.handoff = NoKey
      /\ row.from = flow.state
  BY <1>1, <1>2, <1>4 DEF Row, JournalRow
<1> HIDE DEF row
<1>0. PICK n \in Nat : n = flow.version + 1 /\ n \in 0..MaxVersion /\ n >= 2
  BY <1>2, <1>4, FlowAssumption
<1>6. /\ flow' \in FlowRow /\ flow'.st = "completed" /\ flow'.version = n /\ flow'.op = NoRequest
      /\ flow'.state = flow.state /\ flow'.target = "none" /\ flow'.handoff = NoKey
  <2>1. flow' = [flow EXCEPT !.st = "completed", !.op = NoRequest, !.version = n]
    BY <1>0, <1>1, <1>2
  <2> QED
    BY <1>0, <1>2, <1>4, <2>1 DEF FlowRow
<1>7. /\ journal' \in Seq(JournalRow) /\ Len(journal') = n /\ n - 1 = flow.version
      /\ DOMAIN journal' = 1..n /\ journal'[n] = row
      /\ \A i \in 1..(n - 1) : journal'[i] = journal[i]
  BY <1>0, <1>1, <1>2, <1>5, RowAdded
<1>8. RunTyped' /\ RunSound'
  BY <1>0, <1>6, <1>7 DEF RunTyped, RunSound
<1>9. JournalSound'
  <2>1. \A i \in 1..(n - 1) : journal[i].handoff[1] < i
    BY <1>2, <1>7 DEF FlowInv, JournalSound
  <2> QED
    BY <1>0, <1>5, <1>6, <1>7, <2>1 DEF JournalSound, NoKey
<1>10. TransitionsChain'
  <2>1. ASSUME NEW i \in 2..(n - 1)
        PROVE  Follows(i)'
    <3>1. Follows(i)
      BY <1>2, <1>7, ChainParts DEF FlowInv
    <3> QED
      BY <1>0, <1>1, <1>7, <3>1, FollowsStill
  <2>2. Follows(n)'
    <3>1. journal'[n] = row /\ journal'[n - 1] = journal[n - 1]
      BY <1>0, <1>7
    <3>2. /\ journal[n - 1].action \in {"start", "pickup"} /\ journal[n - 1].to = flow.state
      BY <1>3, <1>7 DEF FlowInv, JournalSound
    <3> QED
      BY <1>5, <3>1, <3>2 DEF Follows
  <2>3. \A k \in HandoverKeys : handover'[k].st # "none" => OfferedFor(k)'
    <3>1. \A k \in HandoverKeys : handover[k].st # "none" => \E i \in DOMAIN journal : journal[i].handoff = k
      BY <1>3, ChainParts DEF FlowInv, OfferedFor
    <3>2. \A i \in DOMAIN journal : i \in DOMAIN journal' /\ journal'[i] = journal[i]
      BY <1>0, <1>2, <1>7
    <3> QED
      BY <1>1, <3>1, <3>2 DEF OfferedFor
  <2>4. \A i \in 2..Len(journal') : i = n \/ i \in 2..(n - 1)
    BY <1>0, <1>7
  <2> QED
    BY <1>6, <1>7, <2>1, <2>2, <2>3, <2>4, ChainParts
<1>11. SagaTyped'
  <2>1. NoCall \in CallRow
    BY FlowAssumption DEF NoCall, CallRow
  <2> QED
    BY <1>1, <2>1, Typed DEF FlowInv, SagaTyped
<1>12. PreparesSound'
  <2>1. ASSUME NEW d \in FlowCalls, call'[d].pc \in {"offer", "record"}
        PROVE  /\ call'[d].op \in PrepareRequests /\ call'[d].target \in FlowStates
               /\ call'[d].op.version < n /\ OfferOf(d)'.st # "none"
    <3>1. d # c /\ call'[d] = call[d]
      BY <1>1, <2>1 DEF NoCall
    <3>2. /\ call[d].op \in PrepareRequests /\ call[d].target \in FlowStates
          /\ call[d].op.version <= flow.version /\ call[d].op.version # flow.version
          /\ call[d].op.version < flow.version => OfferOf(d).st # "none"
      BY <1>3, <2>1, <3>1 DEF FlowInv, PreparesSound
    <3>3. call[d].op.version \in Nat
      BY <3>2, KindsOfRequests, RequestFacts
    <3> QED
      BY <1>0, <1>1, <1>2, <3>1, <3>2, <3>3 DEF OfferOf
  <2>2. \A d \in FlowCalls : call'[d].pc \in {"offer", "record"} => call'[d].op.version \in Nat
    BY <2>1, KindsOfRequests, RequestFacts
  <2> QED
    BY <1>6, <2>1, <2>2 DEF PreparesSound
<1>13. CompletionsSound'
  BY <1>1 DEF FlowInv, CompletionsSound, NoCall
<1>14. EvidenceSound' /\ Leaving'
  BY <1>1, <1>3, <1>6 DEF FlowInv, EvidenceSound, Leaving, Verified
<1>15. SponsorGateResolvable'
  BY <1>1, <1>3, NoneWaitsFor, NoneStale
<1> QED
  BY <1>1, <1>8, <1>9, <1>10, <1>11, <1>12, <1>13, <1>14, <1>15, PartsStay, Typed DEF FlowInv

\* A call that ends, by itself or with its process, leaves the run as it is.
LEMMA CallEndsKept ==
  ASSUME FlowInv, NEW c \in FlowCalls, GiveUp(c) \/ Die(c)
  PROVE  FlowInv'
<1>1. /\ call \in [FlowCalls -> CallRow] /\ call' = [call EXCEPT ![c] = NoCall]
      /\ deaths' \in 0..MaxDeaths
      /\ UNCHANGED <<flow, duty, journal, kernel, proof, assessed, look, sgate, resumed, handover,
                     holder, document>>
  BY Typed, FlowAssumption
  DEF GiveUp, Die, Return, engineVars, governanceVars, sponsorVars, FlowInv, SagaTyped
<1>2. NoCall \in CallRow
  BY FlowAssumption DEF NoCall, CallRow
<1>3. SagaTyped' /\ CompletionsSound'
  BY <1>1, <1>2, Typed DEF FlowInv, SagaTyped, CompletionsSound, NoCall
<1>4. PreparesSound'
  BY <1>1 DEF FlowInv, PreparesSound, OfferOf, NoCall
<1> QED
  BY <1>1, <1>3, <1>4, PartsStay, Typed DEF FlowInv

-----------------------------------------------------------------------------
(* Governance *)

\* What a record adds, while the run is in its state.
LEMMA EvidenceRecorded ==
  ASSUME FlowInv, NEW p \in ProofRow, proof' = proof \cup {p}
  PROVE  /\ proof' \subseteq ProofRow
         /\ \A etag : Verified(etag) => Verified(etag)'
BY Typed DEF FlowInv, DutyTyped, Verified

\* A verification is of the etag that was seen.
LEMMA VerifyKept ==
  ASSUME FlowInv, NEW v \in Reviewers, VerifyArtifact(v)
  PROVE  FlowInv'
<1>1. /\ flow.st = "active" /\ duty["artifact"] = "pending"
      /\ duty' = [duty EXCEPT !["artifact"] = "satisfied"]
      /\ proof' = proof \cup {[kind |-> "artifact", decision |-> "verified", etag |-> look[v].etag]}
      /\ look' = [look EXCEPT ![v] = NoLook]
      /\ UNCHANGED <<flow, journal, kernel, assessed, sgate, resumed, document>>
      /\ UNCHANGED sagaVars /\ UNCHANGED <<handover, call>>
  BY DEF VerifyArtifact, Record, sponsorVars, sagaVars
<1>2. /\ duty \in [Kinds -> {"none", "pending", "dispatched", "satisfied"}]
      /\ look \in [Reviewers -> [at : FlowStates \cup {"none"}, etag : 0..MaxEdits]]
      /\ NoLook \in [at : FlowStates \cup {"none"}, etag : 0..MaxEdits]
      /\ flow.state \in FlowStates
  BY Typed, FlowAssumption DEF FlowInv, DutyTyped, DocumentTyped, NoLook, RunTyped, FlowRow
<1>3. PICK p \in ProofRow :
        /\ p.kind = "artifact" /\ p.decision = "verified" /\ proof' = proof \cup {p}
  <2>1. look[v].etag \in 0..MaxEdits
    BY <1>2
  <2> QED
    BY <1>1, <2>1 DEF ProofRow, Kinds
<1>4. DutyTyped' /\ DocumentTyped'
  BY <1>1, <1>2, <1>3, EvidenceRecorded, Typed DEF FlowInv, DutyTyped, DocumentTyped
<1>5. EvidenceSound' /\ Leaving'
  <2>1. \A k \in Kinds : (duty'[k] # "none") = (duty[k] # "none")
    BY <1>1, <1>2
  <2> QED
    BY <1>1, <1>3, <2>1, EvidenceRecorded DEF FlowInv, EvidenceSound, Leaving, GateKinds
<1>6. SponsorGateResolvable'
  <2>1. duty'["approval"] = duty["approval"]
    BY <1>1, <1>2 DEF Kinds
  <2> QED
    BY <1>1, <1>3, <2>1, EvidenceRecorded DEF FlowInv, SponsorGateResolvable
<1> QED
  BY <1>1, <1>4, <1>5, <1>6, PartsStay, Typed DEF FlowInv

\* A consultation is answered, or excepted.
LEMMA ConsultationKept ==
  ASSUME FlowInv, NEW decision \in {"responded", "exception"}, RecordConsultation(decision)
  PROVE  FlowInv'
<1>1. /\ flow.st = "active"
      /\ proof' = proof \cup {[kind |-> "consult", decision |-> decision, etag |-> 0]}
      /\ UNCHANGED <<flow, duty, journal, kernel, assessed, look, sgate, resumed, document>>
      /\ UNCHANGED sagaVars /\ UNCHANGED <<handover, call>>
  BY DEF RecordConsultation, Record, sponsorVars, sagaVars, engineVars
<1>2. PICK p \in ProofRow :
        /\ p.kind = "consult" /\ p.decision \in {"responded", "exception"}
        /\ proof' = proof \cup {p}
  <2>1. PICK etag \in 0..MaxEdits : etag = 0
    BY FlowAssumption
  <2> QED
    BY <1>1, <2>1 DEF ProofRow, Kinds
<1>3. DutyTyped'
  BY <1>1, <1>2, EvidenceRecorded, Typed DEF FlowInv, DutyTyped
<1>4. EvidenceSound' /\ Leaving'
  BY <1>1, <1>2, EvidenceRecorded DEF FlowInv, EvidenceSound, Leaving, GateKinds
<1>5. SponsorGateResolvable'
  BY <1>1, <1>2, EvidenceRecorded DEF FlowInv, SponsorGateResolvable
<1> QED
  BY <1>1, <1>3, <1>4, <1>5, PartsStay, Typed DEF FlowInv

\* An owner's gate is decided for a version that was verified.
LEMMA OwnerGateKept ==
  ASSUME FlowInv, NEW v \in Reviewers, NEW k \in {"review", "assessment"},
         NEW decision \in {"approved", "rejected", "exception"},
         NEW impact \in Impacts \cup {"none"}, DecideOwnerGate(v, k, decision, impact)
  PROVE  FlowInv'
<1>1. /\ flow.st = "active" /\ duty[k] # "none" /\ Verified(look[v].etag)
      /\ proof' = proof \cup {[kind |-> k, decision |-> decision, etag |-> look[v].etag]}
      /\ duty' = IF decision = "rejected" THEN duty ELSE [duty EXCEPT ![k] = "satisfied"]
      /\ assessed' = IF decision = "approved" /\ impact # "none" THEN impact ELSE assessed
      /\ look' = [look EXCEPT ![v] = NoLook]
      /\ UNCHANGED <<flow, journal, kernel, sgate, resumed, document>>
      /\ UNCHANGED sagaVars /\ UNCHANGED <<handover, call>>
  BY DEF DecideOwnerGate, Reviewed, Record, sponsorVars, sagaVars
<1>2. /\ duty \in [Kinds -> {"none", "pending", "dispatched", "satisfied"}]
      /\ look \in [Reviewers -> [at : FlowStates \cup {"none"}, etag : 0..MaxEdits]]
      /\ NoLook \in [at : FlowStates \cup {"none"}, etag : 0..MaxEdits]
      /\ flow.state \in FlowStates /\ k \in Kinds /\ k # "approval"
  BY Typed, FlowAssumption DEF FlowInv, DutyTyped, DocumentTyped, NoLook, RunTyped, FlowRow, Kinds
<1>3. PICK p \in ProofRow :
        /\ p.kind = k /\ p.decision = decision /\ p.etag = look[v].etag /\ proof' = proof \cup {p}
  <2>1. look[v].etag \in 0..MaxEdits
    BY <1>2
  <2> QED
    BY <1>1, <1>2, <2>1 DEF ProofRow
<1>4. /\ duty' \in [Kinds -> {"none", "pending", "dispatched", "satisfied"}]
      /\ duty'[k] \in {duty[k], "satisfied"} /\ \A j \in Kinds \ {k} : duty'[j] = duty[j]
  BY <1>1, <1>2
<1>5. DutyTyped' /\ DocumentTyped'
  <2>1. DutyTyped'
    BY <1>1, <1>2, <1>3, <1>4, EvidenceRecorded, Typed DEF FlowInv, DutyTyped, GateKinds
  <2> QED
    BY <1>1, <1>2, <2>1, Typed DEF FlowInv, DocumentTyped
<1>6. EvidenceSound' /\ Leaving'
  <2>1. \A j \in Kinds : (duty'[j] # "none") = (duty[j] # "none")
    BY <1>1, <1>4
  <2> QED
    BY <1>1, <1>2, <1>3, <2>1, EvidenceRecorded DEF FlowInv, EvidenceSound, Leaving
<1>7. SponsorGateResolvable'
  <2>1. duty'["approval"] = duty["approval"]
    BY <1>2, <1>4 DEF Kinds
  <2> QED
    BY <1>1, <1>3, <2>1, EvidenceRecorded DEF FlowInv, SponsorGateResolvable
<1> QED
  BY <1>1, <1>5, <1>6, <1>7, PartsStay, Typed DEF FlowInv

-----------------------------------------------------------------------------
(* Sponsor gates *)

\* A gate opens when no other one waits, for an approval that can be given.
LEMMA OpenKept ==
  ASSUME FlowInv, NEW g \in SponsorGates, OpenSponsorGate(g)
  PROVE  FlowInv'
<1>1. /\ sgate[g].st = "none" /\ kernel.st = "active" /\ flow.st = "active"
      /\ duty["approval"] = "pending" /\ Decided("artifact", {"verified"})
      /\ sgate' = [sgate EXCEPT ![g] = [st |-> "pending", entry |-> flow.version, expired |-> FALSE]]
      /\ kernel' = [kernel EXCEPT !.st = "gated"]
      /\ UNCHANGED <<flow, duty, journal, proof, assessed, look, resumed, document>>
      /\ UNCHANGED sagaVars /\ UNCHANGED <<handover, call>>
  BY DEF OpenSponsorGate, Openable, governanceVars, sagaVars
<1>2. NoneWaits
  BY <1>1, NoneWaitsFor
<1>3. /\ sgate \in [SponsorGates ->
           [st : {"none", "pending", "approved", "rejected", "timed_out"},
            entry : 0..MaxVersion, expired : BOOLEAN]]
      /\ kernel \in [st : {"active", "gated", "completed", "error"}, by : Requests \cup {NoRequest}]
      /\ flow.version \in 0..MaxVersion
  BY Typed DEF FlowInv, GateTyped, RunTyped, FlowRow
<1>4. /\ sgate'[g].st = "pending" /\ sgate'[g].entry = flow.version
      /\ \A h \in SponsorGates \ {g} : sgate'[h] = sgate[h]
      /\ kernel'.st = "gated"
  BY <1>1, <1>3
<1>5. GateTyped'
  BY <1>1, <1>3, Typed DEF FlowInv, GateTyped
<1>6. \E etag \in 0..MaxEdits : Verified(etag)
  <2>1. PICK p \in proof : p.kind = "artifact" /\ p.decision = "verified"
    BY <1>1 DEF Decided
  <2>2. p \in ProofRow
    BY <2>1, Typed DEF FlowInv, DutyTyped
  <2>3. p = [kind |-> "artifact", decision |-> "verified", etag |-> p.etag] /\ p.etag \in 0..MaxEdits
    BY <2>1, <2>2 DEF ProofRow
  <2> QED
    BY <2>1, <2>3 DEF Verified
<1>7. SponsorGateResolvable'
  <2>1. \A h \in SponsorGates : sgate'[h].st = "pending" => h = g
    BY <1>2, <1>4 DEF NoneWaits
  <2>2. \E etag \in 0..MaxEdits : Verified(etag)'
    BY <1>1, <1>6 DEF Verified
  <2>3. \A h \in SponsorGates : sgate'[h].st \notin {"none", "pending"} => sgate'[h] = sgate[h]
    BY <1>4
  <2> QED
    BY <1>1, <1>4, <2>1, <2>2, <2>3 DEF FlowInv, SponsorGateResolvable
<1>8. NobodyResumed'
  BY <1>1, <1>4 DEF FlowInv, NobodyResumed
<1>9. CompletionsSound'
  BY <1>1 DEF FlowInv, CompletionsSound
<1> QED
  BY <1>1, <1>5, <1>7, <1>8, <1>9, PartsStay, Typed DEF FlowInv

\* A gate that is resolved resumes one role, and releases the work.
LEMMA Resumed ==
  ASSUME FlowInv, NEW g \in SponsorGates, NEW outcome \in {"approved", "rejected", "timed_out"},
         NEW role \in {"owner", "pm"}, sgate[g].st = "pending", Resolve(g, outcome, role),
         role = "owner" <=> outcome = "approved", UNCHANGED call
  PROVE  SponsorGateResolvable' /\ NobodyResumed' /\ GateTyped' /\ CompletionsSound'
<1>1. /\ sgate' = [sgate EXCEPT ![g].st = outcome] /\ resumed' = resumed \cup {<<g, outcome, role>>}
      /\ kernel' = [kernel EXCEPT !.st = "active"] /\ kernel.st = "gated"
  BY DEF Resolve, FlowInv, SponsorGateResolvable
<1>2. /\ sgate \in [SponsorGates ->
           [st : {"none", "pending", "approved", "rejected", "timed_out"},
            entry : 0..MaxVersion, expired : BOOLEAN]]
      /\ kernel \in [st : {"active", "gated", "completed", "error"}, by : Requests \cup {NoRequest}]
  BY Typed DEF FlowInv, GateTyped
<1>3. sgate'[g].st = outcome /\ \A h \in SponsorGates \ {g} : sgate'[h] = sgate[h]
  BY <1>1, <1>2
<1>4. GateTyped'
  BY <1>1, <1>2, Typed DEF FlowInv, GateTyped
<1>5. \A h \in SponsorGates : sgate'[h].st # "pending"
  BY <1>3 DEF FlowInv, SponsorGateResolvable
<1>6. {c \in resumed : c[1] = g} = {}
  BY DEF FlowInv, NobodyResumed
<1>7. {c \in resumed' : c[1] = g} = {<<g, outcome, role>>}
  BY <1>1, <1>6
<1>8. \A h \in SponsorGates \ {g} : {c \in resumed' : c[1] = h} = {c \in resumed : c[1] = h}
  BY <1>1
<1>9. SponsorGateResolvable'
  <2>1. <<g, outcome, role>> =
          <<g, sgate'[g].st, IF sgate'[g].st = "approved" THEN "owner" ELSE "pm">>
    BY <1>3
  <2>2. ASSUME NEW h \in SponsorGates, sgate'[h].st \notin {"none", "pending"}
        PROVE  {c \in resumed' : c[1] = h} =
                 {<<h, sgate'[h].st, IF sgate'[h].st = "approved" THEN "owner" ELSE "pm">>}
    <3>1. CASE h = g
      BY <1>7, <2>1, <3>1
    <3>2. CASE h # g
      BY <1>3, <1>8, <2>2, <3>2 DEF FlowInv, SponsorGateResolvable
    <3> QED
      BY <3>1, <3>2
  <2> QED
    BY <1>5, <2>2 DEF SponsorGateResolvable
<1>10. NobodyResumed'
  BY <1>3, <1>8 DEF FlowInv, NobodyResumed
<1>11. CompletionsSound'
  BY <1>1 DEF FlowInv, CompletionsSound
<1> QED
  BY <1>4, <1>9, <1>10, <1>11

\* What a sponsor approves was verified; a rejection leaves the approval to be given.
LEMMA DecideKept ==
  ASSUME FlowInv, NEW g \in SponsorGates, ApproveSponsorGate(g) \/ RejectSponsorGate(g)
  PROVE  FlowInv'
<1>1. PICK outcome \in {"approved", "rejected"}, role \in {"owner", "pm"}, q \in proof :
        /\ role = "owner" <=> outcome = "approved"
        /\ Resolve(g, outcome, role) /\ q.decision = "verified"
        /\ proof' = proof \cup {[kind |-> "approval", decision |-> outcome, etag |-> q.etag]}
        /\ duty' = IF outcome = "approved" THEN [duty EXCEPT !["approval"] = "satisfied"] ELSE duty
  <2>1. CASE ApproveSponsorGate(g)
    <3>1. PICK q \in proof : q.decision = "verified" /\ Record("approval", "approved", q.etag)
      BY <2>1 DEF ApproveSponsorGate
    <3> QED
      BY <2>1, <3>1 DEF ApproveSponsorGate, Record
  <2>2. CASE RejectSponsorGate(g)
    <3>1. PICK q \in proof : q.decision = "verified" /\ Record("approval", "rejected", q.etag)
      BY <2>2 DEF RejectSponsorGate
    <3> QED
      BY <2>2, <3>1 DEF RejectSponsorGate, Record
  <2> QED
    BY <2>1, <2>2
<1>2. /\ sgate[g].st = "pending" /\ flow.st = "active" /\ duty["approval"] = "pending"
      /\ UNCHANGED <<flow, journal, assessed, look, document>> /\ UNCHANGED sagaVars
      /\ UNCHANGED <<handover, call>>
  BY DEF ApproveSponsorGate, RejectSponsorGate, Current, sagaVars
<1>3. /\ duty \in [Kinds -> {"none", "pending", "dispatched", "satisfied"}]
      /\ flow.state \in FlowStates /\ proof \subseteq ProofRow
  BY Typed DEF FlowInv, DutyTyped, RunTyped, FlowRow
<1>4. Verified(q.etag)
  <2>1. q.kind = "artifact" /\ q \in ProofRow
    BY <1>1, <1>3 DEF FlowInv, EvidenceSound
  <2>2. q = [kind |-> "artifact", decision |-> "verified", etag |-> q.etag]
    BY <1>1, <2>1 DEF ProofRow
  <2> QED
    BY <2>2 DEF Verified
<1>5. PICK p \in ProofRow :
        /\ p.kind = "approval" /\ p.decision = outcome /\ p.etag = q.etag
        /\ proof' = proof \cup {p}
  <2>1. q.etag \in 0..MaxEdits
    BY <1>3 DEF ProofRow
  <2> QED
    BY <1>1, <2>1 DEF ProofRow, Kinds
<1>6. DutyTyped'
  BY <1>1, <1>2, <1>3, <1>5, EvidenceRecorded, Typed DEF FlowInv, DutyTyped, GateKinds
<1>7. EvidenceSound' /\ Leaving'
  <2>1. \A j \in Kinds : (duty'[j] # "none") = (duty[j] # "none")
    BY <1>1, <1>2, <1>3
  <2> QED
    BY <1>2, <1>3, <1>4, <1>5, <2>1, EvidenceRecorded DEF FlowInv, EvidenceSound, Leaving
<1>8. SponsorGateResolvable' /\ NobodyResumed' /\ GateTyped' /\ CompletionsSound'
  BY <1>1, <1>2, Resumed
<1> QED
  BY <1>2, <1>6, <1>7, <1>8, PartsStay, Typed DEF FlowInv

\* A gate that has expired resumes the project manager.
LEMMA TimeOutKept ==
  ASSUME FlowInv, NEW g \in SponsorGates, TimeOutSponsorGate(g)
  PROVE  FlowInv'
<1>1. PICK outcome \in {"approved", "rejected", "timed_out"}, role \in {"owner", "pm"} :
        outcome = "timed_out" /\ role = "pm" /\ Resolve(g, outcome, role)
  BY DEF TimeOutSponsorGate
<1>2. /\ sgate[g].st = "pending"
      /\ UNCHANGED <<flow, duty, journal, proof, assessed, look, document>> /\ UNCHANGED sagaVars
      /\ UNCHANGED <<handover, call>>
  BY DEF TimeOutSponsorGate, governanceVars, sagaVars
<1>3. SponsorGateResolvable' /\ NobodyResumed' /\ GateTyped' /\ CompletionsSound'
  BY <1>1, <1>2, Resumed
<1> QED
  BY <1>2, <1>3, PartsStay, Typed DEF FlowInv

\* A gate that expires still waits, for somebody to time it out.
LEMMA ExpireGateKept ==
  ASSUME FlowInv, NEW g \in SponsorGates, ExpireSponsorGate(g)
  PROVE  FlowInv'
<1>1. /\ sgate' = [sgate EXCEPT ![g].expired = TRUE]
      /\ UNCHANGED <<flow, duty, journal, kernel, proof, assessed, look, resumed, document>>
      /\ UNCHANGED sagaVars /\ UNCHANGED <<handover, call>>
  BY DEF ExpireSponsorGate, engineVars, governanceVars, sagaVars
<1>2. sgate \in [SponsorGates ->
        [st : {"none", "pending", "approved", "rejected", "timed_out"},
         entry : 0..MaxVersion, expired : BOOLEAN]]
  BY Typed DEF FlowInv, GateTyped
<1>3. \A h \in SponsorGates : sgate'[h].st = sgate[h].st /\ sgate'[h].entry = sgate[h].entry
  BY <1>1, <1>2
<1>4. GateTyped'
  BY <1>1, <1>2, Typed DEF FlowInv, GateTyped
<1>5. SponsorGateResolvable' /\ NobodyResumed'
  <2>1. NobodyResumed'
    BY <1>1, <1>3 DEF FlowInv, NobodyResumed
  <2> QED
    BY <1>1, <1>3, <2>1 DEF FlowInv, SponsorGateResolvable, Verified
<1> QED
  BY <1>1, <1>4, <1>5, PartsStay, Typed DEF FlowInv

-----------------------------------------------------------------------------
(* What goes on around the run *)

\* A handoff goes from offered to claimed to accepted, and stays so.
LEMMA HandoverMoves ==
  ASSUME FlowInv, NEW k \in HandoverKeys, ClaimHandover(k) \/ AcceptHandover(k)
  PROVE  FlowInv'
<1>1. /\ handover[k].st \in {"offered", "claimed"}
      /\ \E st \in {"claimed", "accepted"} : handover' = [handover EXCEPT ![k].st = st]
      /\ UNCHANGED <<flow, duty, journal, kernel, proof, assessed, look, sgate, resumed, call,
                     holder, deaths, document>>
  BY DEF ClaimHandover, AcceptHandover, engineVars, governanceVars, sponsorVars
<1>2. handover \in [HandoverKeys -> HandoverRow]
  BY Typed DEF FlowInv, SagaTyped
<1>3. /\ handover' \in [HandoverKeys -> HandoverRow] /\ handover'[k].st # "none"
      /\ \A j \in HandoverKeys \ {k} : handover'[j] = handover[j]
  BY <1>1, <1>2 DEF HandoverRow
<1>4. SagaTyped'
  BY <1>1, <1>3, Typed DEF FlowInv, SagaTyped
<1>5. TransitionsChain'
  <2>1. \A i \in 2..Len(journal') : Follows(i)'
    <3> SUFFICES ASSUME NEW i \in 2..Len(journal') PROVE Follows(i)'
      OBVIOUS
    <3>1. Follows(i)
      BY <1>1, ChainParts DEF FlowInv
    <3>2. handover[journal[i].handoff].st = "accepted" =>
            handover'[journal[i].handoff].st = "accepted"
      BY <1>1, <1>2
    <3> QED
      BY <1>1, <3>1, <3>2, FollowsStill
  <2>2. \A j \in HandoverKeys : handover[j].st # "none" => OfferedFor(j)
    BY ChainParts DEF FlowInv
  <2>3. \A j \in HandoverKeys : handover'[j].st # "none" => OfferedFor(j)'
    BY <1>1, <1>3, <2>2 DEF OfferedFor
  <2>4. Len(journal') = flow'.version
    BY <1>1 DEF FlowInv, JournalSound
  <2> QED
    BY <2>1, <2>3, <2>4, ChainParts
<1>6. PreparesSound'
  <2>1. ASSUME NEW c \in FlowCalls, call[c].pc \in {"offer", "record"}, OfferOf(c).st # "none"
        PROVE  OfferOf(c)'.st # "none"
    <3>1. Key(call[c].op, call[c].target) \in HandoverKeys
      BY <2>1, KindsOfRequests, RequestFacts DEF FlowInv, PreparesSound, Key, HandoverKeys
    <3> QED
      BY <1>1, <1>3, <2>1, <3>1 DEF OfferOf
  <2> QED
    BY <1>1, <2>1 DEF FlowInv, PreparesSound
<1> QED
  BY <1>1, <1>4, <1>5, <1>6, PartsStay, Typed DEF FlowInv

\* Another worker holds the source's item.
LEMMA HolderReplaced ==
  ASSUME FlowInv, ReplaceHolder
  PROVE  FlowInv'
<1>1. /\ holder < MaxLeases /\ holder' = holder + 1
      /\ UNCHANGED <<flow, duty, journal, kernel, proof, assessed, look, sgate, resumed, handover,
                     call, deaths, document>>
  BY DEF ReplaceHolder, engineVars, governanceVars, sponsorVars
<1>2. SagaTyped'
  BY <1>1, FlowAssumption, Typed DEF FlowInv, SagaTyped
<1> QED
  BY <1>1, <1>2, PartsStay, Typed DEF FlowInv

\* The work is held and released, or ends, but not while a sponsor gate waits.
LEMMA KernelMoves ==
  ASSUME FlowInv, PlainGate \/ \E status \in {"completed", "error"} : KernelEnds(status)
  PROVE  FlowInv'
<1>1. /\ kernel.st \in {"active", "gated"} /\ NoneWaits
      /\ UNCHANGED <<flow, duty, journal, proof, assessed, look, sgate, resumed, document>>
      /\ UNCHANGED sagaVars /\ UNCHANGED <<handover, call>>
  BY NoneWaitsFor DEF PlainGate, KernelEnds, NoneWaits, governanceVars, sponsorVars, sagaVars
<1>2. GateTyped'
  BY <1>1, Typed DEF PlainGate, KernelEnds, FlowInv, GateTyped
<1>3. CompletionsSound'
  BY <1>1 DEF FlowInv, CompletionsSound
<1>4. SponsorGateResolvable'
  BY <1>1, NoneStale
<1> QED
  BY <1>1, <1>2, <1>3, <1>4, PartsStay, Typed DEF FlowInv

\* The document is looked at, or edited.
LEMMA DocumentMoves ==
  ASSUME FlowInv, EditDocument \/ \E v \in Reviewers : Look(v)
  PROVE  FlowInv'
<1>1. /\ UNCHANGED <<flow, duty, journal, kernel, proof, assessed, sgate, resumed>>
      /\ UNCHANGED sagaVars /\ UNCHANGED <<handover, call>>
  BY DEF EditDocument, Look, engineVars, governanceVars, sponsorVars, sagaVars
<1>2. /\ document \in [FlowStates -> 0..MaxEdits]
      /\ look \in [Reviewers -> [at : FlowStates \cup {"none"}, etag : 0..MaxEdits]]
      /\ flow.state \in FlowStates
  BY Typed DEF FlowInv, DocumentTyped, RunTyped, FlowRow
<1>3. DocumentTyped'
  BY <1>2, FlowAssumption DEF EditDocument, Look, DocumentTyped, governanceVars
<1> QED
  BY <1>1, <1>3, PartsStay, Typed DEF FlowInv

-----------------------------------------------------------------------------
(* Theorems *)

\* Every step keeps the invariant.
LEMMA FlowKept == FlowInv /\ [FlowNext]_flowVars => FlowInv'
<1> SUFFICES ASSUME FlowInv, [FlowNext]_flowVars PROVE FlowInv'
  OBVIOUS
<1>1. CASE UNCHANGED flowVars
  <2>1. PreparesSound'
    BY <1>1, PartsStay DEF flowVars, engineVars, sagaVars
  <2> QED
    BY <1>1, <2>1, PartsStay, Typed
    DEF FlowInv, flowVars, engineVars, governanceVars, sponsorVars, sagaVars
<1>2. CASE FlowNext
  <2>1. ASSUME NEW c \in FlowCalls, CallStep(c)
        PROVE  FlowInv'
    BY <2>1, OfferKept, RecordKept, CompleteKernelKept, RecordCompletionKept, CallEndsKept
    DEF CallStep
  <2> QED
    BY <1>2, <2>1, StartRunKept, DispatchKept, ReserveKept, RetryKept, PickUpKept, ReserveCompletionKept,
       CallEndsKept, DocumentMoves, VerifyKept, ConsultationKept, OwnerGateKept, OpenKept, DecideKept,
       TimeOutKept, ExpireGateKept, HandoverMoves, HolderReplaced, KernelMoves
    DEF FlowNext
<1> QED
  BY <1>1, <1>2

\* The inductive invariant holds in every reachable state of the flow's run.
THEOREM FlowInvariance == FlowSpec => []FlowInv
<1> QED
  BY FlowBegins, FlowKept, PTL DEF FlowSpec

\* Every variable keeps to its type: the versions stay within what an operation reserved, and
\* a target, an operation and a handoff are there exactly while one is pending.
THEOREM FlowTypes == FlowSpec => []FlowTypeOK
<1>1. FlowInv => FlowTypeOK
  BY DEF FlowInv
<1> QED
  BY <1>1, FlowInvariance, PTL

\* No transition is lost, made twice or skipped by restarts and replays of prepare_transition,
\* pickup_transition and complete.
THEOREM TransitionsChained == FlowSpec => []TransitionsChain
<1>1. FlowInv => TransitionsChain
  BY DEF FlowInv
<1> QED
  BY <1>1, FlowInvariance, PTL

\* A managed gate that waits can be resolved, and one that was resolved has resumed one role
\* (open, decide and timeout of sponsor_approvals.py).
THEOREM SponsorGatesResolvable == FlowSpec => []SponsorGateResolvable
<1>1. FlowInv => SponsorGateResolvable
  BY DEF FlowInv
<1> QED
  BY <1>1, FlowInvariance, PTL

\* Statuses that move on neither add an obligation nor drop one.
ObligationsMove == \A k \in Kinds : (duty'[k] = "none") = (duty[k] = "none")

\* The steps that change the run; the others move on at most the status of its obligations.
LEMMA StepsOfFlow ==
  ASSUME FlowInv, [FlowNext]_flowVars
  PROVE  \/ \E impact \in Supplied : StartFlow(impact)
         \/ \E r \in OtherRequests : PickUp(r)
         \/ \E c \in FlowCalls, r \in PrepareRequests, l \in 1..holder : Reserve(c, r, l)
         \/ \E c \in FlowCalls, r \in OtherRequests : ReserveCompletion(c, r)
         \/ \E c \in FlowCalls : RecordHandover(c) \/ RecordCompletion(c)
         \/ flow' = flow /\ ObligationsMove
<1>1. /\ duty \in [Kinds -> {"none", "pending", "dispatched", "satisfied"}]
      /\ {"artifact", "consult", "inform", "review", "assessment", "approval"} = Kinds
  BY Typed DEF FlowInv, DutyTyped, Kinds
<1>2. ASSUME \/ \E k \in Kinds : Dispatch(k)
             \/ \E v \in Reviewers : VerifyArtifact(v)
             \/ \E v \in Reviewers, k \in {"review", "assessment"},
                   decision \in {"approved", "rejected", "exception"},
                   impact \in Impacts \cup {"none"} : DecideOwnerGate(v, k, decision, impact)
             \/ \E g \in SponsorGates : ApproveSponsorGate(g)
      PROVE  flow' = flow /\ ObligationsMove
  <2>1. /\ flow' = flow
        /\ \/ duty' = duty
           \/ \E k \in Kinds, st \in {"dispatched", "satisfied"} :
                duty[k] # "none" /\ duty' = [duty EXCEPT ![k] = st]
    BY <1>1, <1>2
    DEF Dispatch, VerifyArtifact, DecideOwnerGate, ApproveSponsorGate, Current
  <2> QED
    BY <1>1, <2>1 DEF ObligationsMove
<1>3. ASSUME \/ UNCHANGED flowVars
             \/ \E c \in FlowCalls, r \in PrepareRequests, l \in 1..holder : Retry(c, r, l)
             \/ \E c \in FlowCalls : OfferHandover(c) \/ CompleteKernel(c) \/ GiveUp(c) \/ Die(c)
             \/ \E v \in Reviewers : Look(v)
             \/ \E decision \in {"responded", "exception"} : RecordConsultation(decision)
             \/ \E g \in SponsorGates : \/ OpenSponsorGate(g) \/ RejectSponsorGate(g)
                                        \/ TimeOutSponsorGate(g) \/ ExpireSponsorGate(g)
             \/ \E k \in HandoverKeys : ClaimHandover(k) \/ AcceptHandover(k)
             \/ ReplaceHolder \/ PlainGate \/ EditDocument
             \/ \E status \in {"completed", "error"} : KernelEnds(status)
      PROVE  flow' = flow /\ ObligationsMove
  <2>1. UNCHANGED <<flow, duty>>
    BY <1>3
    DEF flowVars, engineVars, Retry, OfferHandover, CompleteKernel, GiveUp, Die, Look,
        RecordConsultation, OpenSponsorGate, RejectSponsorGate, TimeOutSponsorGate,
        ExpireSponsorGate, ClaimHandover, AcceptHandover, ReplaceHolder, PlainGate, EditDocument,
        KernelEnds
  <2> QED
    BY <2>1 DEF ObligationsMove
<1> QED
  BY <1>2, <1>3 DEF FlowNext, CallStep

\* What a step that leaves a state, or ends the run, has behind it.
LEMMA ExitGoverned ==
  ASSUME FlowInv, [FlowNext]_flowVars, flow.version > 0,
         flow'.state # flow.state \/ flow'.st # flow.st, flow'.st \in {"active", "completed"}
  PROVE  /\ \A k \in Obliged : Evidenced(k)
         /\ flow'.st = "active" =>
              [from |-> flow.state, to |-> flow'.state] \in
                {[from |-> r.from, to |-> r.to] :
                  r \in {x \in FlowRoutes : x.impact \in {"any", flow'.impact}}}
         /\ flow'.st = "completed" => kernel = [st |-> "completed", by |-> flow.op]
<1>1. flow \in FlowRow
  BY Typed DEF FlowInv, RunTyped
<1>2. CASE \E r \in OtherRequests : PickUp(r)
  <2>1. /\ flow.st = "handoff_pending" /\ flow'.st = "active" /\ flow'.state = flow.target
        /\ flow'.impact = flow.impact
    BY <1>1, <1>2 DEF PickUp, Arrived, FlowRow
  <2>2. \A k \in Obliged : Evidenced(k)
    BY <2>1 DEF FlowInv, Leaving
  <2>3. PICK route \in FlowRoutes :
          route.from = flow.state /\ route.to = flow.target /\ route.impact \in {"any", flow.impact}
    BY <2>1 DEF FlowInv, Leaving
  <2> QED
    BY <2>1, <2>2, <2>3
<1>3. CASE \E c \in FlowCalls : RecordCompletion(c)
  <2>1. PICK c \in FlowCalls : RecordCompletion(c)
    BY <1>3
  <2>2. /\ call[c].pc = "finish" /\ flow.op = call[c].op /\ flow'.st = "completed"
    BY <1>1, <2>1 DEF RecordCompletion, At, MayRecord, SamePending, FlowRow
  <2>3. kernel = [st |-> "completed", by |-> flow.op] /\ flow.op \in OtherRequests
        /\ flow.op.kind = "complete"
    BY <2>2 DEF FlowInv, CompletionsSound
  <2>4. flow.st = "completion_preparing"
    <3>1. flow.op # NoRequest /\ flow.st \notin {"handoff_preparing", "handoff_pending"}
      BY <2>3, KindsOfRequests, RequestFacts DEF FlowInv, RunSound
    <3> QED
      BY <1>1, <3>1, Typed DEF FlowInv, RunTyped, FlowRow
  <2> QED
    BY <2>2, <2>3, <2>4 DEF FlowInv, Leaving
<1>4. CASE \/ \E c \in FlowCalls, r \in PrepareRequests, l \in 1..holder : Reserve(c, r, l)
           \/ \E c \in FlowCalls, r \in OtherRequests : ReserveCompletion(c, r)
           \/ \E c \in FlowCalls : RecordHandover(c)
  BY <1>1, <1>4 DEF Reserve, ReserveCompletion, RecordHandover, FlowRow
<1>5. CASE \E impact \in Supplied : StartFlow(impact)
  BY <1>5 DEF StartFlow, FlowInv, RunSound
<1>6. CASE UNCHANGED flow
  BY <1>6
<1> QED
  BY <1>2, <1>3, <1>4, <1>5, <1>6, StepsOfFlow

\* Only a state that is entered gets obligations, those that apply to the fields as they are.
LEMMA EntryGoverned ==
  ASSUME FlowInv, [FlowNext]_flowVars
  PROVE  IF flow.st # "active" /\ flow'.st = "active"
         THEN /\ Obliged' = Needed(flow'.state, flow'.impact)
              /\ assessed' \in {"none", flow'.impact}
         ELSE Obliged' = Obliged
<1>1. flow \in FlowRow /\ duty \in [Kinds -> {"none", "pending", "dispatched", "satisfied"}]
  BY Typed DEF FlowInv, RunTyped, DutyTyped
<1>2. CASE \E impact \in Supplied : StartFlow(impact)
  <2>1. PICK impact \in Supplied : StartFlow(impact)
    BY <1>2
  <2>2. /\ flow.st = "none" /\ flow'.st = "active" /\ flow'.impact = impact /\ flow'.state = EntryState
        /\ duty' = Entered(EntryState, impact) /\ assessed' = assessed /\ assessed = "none"
    BY <1>1, <2>1 DEF StartFlow, FlowInv, RunSound, EvidenceSound, FlowRow, governanceVars
  <2> QED
    BY <2>2, JustEntered
<1>3. CASE \E r \in OtherRequests : PickUp(r)
  <2>1. /\ flow.st = "handoff_pending" /\ flow'.st = "active" /\ flow'.state = flow.target
        /\ flow'.impact = flow.impact /\ duty' = Entered(flow.target, flow.impact)
        /\ assessed' = assessed
    BY <1>1, <1>3 DEF PickUp, Arrived, FlowRow
  <2>2. assessed \in {"none", flow.impact}
    BY <2>1 DEF FlowInv, Leaving
  <2> QED
    BY <2>1, <2>2, JustEntered
<1>4. CASE \/ \E c \in FlowCalls, r \in PrepareRequests, l \in 1..holder : Reserve(c, r, l)
           \/ \E c \in FlowCalls, r \in OtherRequests : ReserveCompletion(c, r)
           \/ \E c \in FlowCalls : RecordHandover(c) \/ RecordCompletion(c)
  <2>1. flow'.st # "active" \/ flow' = flow
    BY <1>1, <1>4 DEF Reserve, ReserveCompletion, RecordHandover, RecordCompletion, FlowRow
  <2>2. duty' = duty
    BY <1>4 DEF Reserve, ReserveCompletion, RecordHandover, RecordCompletion
  <2> QED
    BY <2>1, <2>2 DEF Obliged
<1>5. CASE flow' = flow /\ ObligationsMove
  BY <1>1, <1>5, ObligedStay DEF ObligationsMove
<1> QED
  BY <1>1, <1>2, <1>3, <1>4, <1>5, StepsOfFlow

\* A state is entered with the obligations that apply to the run's fields then, and none that
\* does not; until it is left they stay the same.  No state is left, nor the flow completed,
\* without the evidence of each of them and a route for the impact that was assessed
\* (_insert_obligations, _require_ready, select_route, complete).
THEOREM ExitsGoverned == FlowSpec => GovernedExit
<1>1. FlowInv /\ [FlowNext]_flowVars =>
        [/\ IF flow.st # "active" /\ flow'.st = "active"
            THEN /\ Obliged' = Needed(flow'.state, flow'.impact)
                 /\ assessed' \in {"none", flow'.impact}
            ELSE Obliged' = Obliged
         /\ flow.version > 0 /\ (flow'.state # flow.state \/ flow'.st # flow.st)
              /\ flow'.st \in {"active", "completed"} =>
            /\ \A k \in Obliged : Evidenced(k)
            /\ flow'.st = "active" =>
                 [from |-> flow.state, to |-> flow'.state] \in
                   {[from |-> r.from, to |-> r.to] :
                     r \in {x \in FlowRoutes : x.impact \in {"any", flow'.impact}}}
            /\ flow'.st = "completed" => kernel = [st |-> "completed", by |-> flow.op]]_flowVars
  BY EntryGoverned, ExitGoverned
<1> QED
  BY <1>1, FlowInvariance, PTL DEF FlowSpec, GovernedExit

-----------------------------------------------------------------------------
(* The flow that is promised *)

\* What GovernedFlow sees of the run's end, besides FlowInv: only where no route leaves is a
\* completion begun, a run that ended has completed the work, and no call is about to complete
\* the work of a run that is anywhere else.
EndsSound ==
  /\ flow.st = "completion_preparing" => Terminal(flow.state)
  /\ flow.st = "completed" => kernel.st = "completed" /\ kernel.by # NoRequest
  /\ \A c \in FlowCalls : call[c].pc \in {"kernel", "finish"} =>
       flow.st \in {"completion_preparing", "completed"}

\* Who records a handoff finds it prepared.
LEMMA RecordsPrepared ==
  ASSUME FlowInv, NEW c \in FlowCalls, RecordHandover(c)
  PROVE  /\ flow.st = "handoff_preparing" /\ flow.target # "none"
         /\ flow'.st = "handoff_pending" /\ flow'.state = flow.state /\ flow'.target = flow.target
         /\ flow'.impact = flow.impact
<1>1. flow.op = call[c].op /\ call[c].pc = "record" /\ ~Journaled(flow.op)
  BY DEF RecordHandover, At, MayRecord, SamePending
<1>2. flow.op \in PrepareRequests /\ flow.op \in Requests /\ flow.op # NoRequest
      /\ flow.op.kind = "prepare"
  BY <1>1, KindsOfRequests, RequestFacts DEF FlowInv, PreparesSound
<1>3. /\ flow \in FlowRow /\ flow.version \in 0..MaxVersion
      /\ DOMAIN journal = 1..Len(journal) /\ Len(journal) = flow.version
  BY Typed DEF FlowInv, RunTyped, FlowRow, JournalSound
<1>4. flow.st # "handoff_pending"
  BY <1>1, <1>2, <1>3 DEF FlowInv, JournalSound, RunSound, Journaled
<1>5. flow.st # "completion_preparing"
  BY <1>2 DEF FlowInv, RunSound
<1>6. flow.st = "handoff_preparing" /\ flow.target # "none"
  BY <1>2, <1>3, <1>4, <1>5, Typed DEF FlowInv, RunTyped, FlowRow
<1>7. /\ flow'.st = "handoff_pending" /\ flow'.state = flow.state /\ flow'.target = flow.target
      /\ flow'.impact = flow.impact
  BY <1>3 DEF RecordHandover, FlowRow
<1> QED
  BY <1>6, <1>7

\* Who records a completion finds it prepared, and the work completed by it.
LEMMA RecordsCompletion ==
  ASSUME FlowInv, NEW c \in FlowCalls, RecordCompletion(c)
  PROVE  /\ flow.st = "completion_preparing"
         /\ kernel.st = "completed" /\ kernel.by # NoRequest
         /\ flow'.st = "completed" /\ flow'.state = flow.state /\ flow'.impact = flow.impact
<1>1. flow \in FlowRow
  BY Typed DEF FlowInv, RunTyped
<1>2. call[c].pc = "finish" /\ flow.op = call[c].op
  BY DEF RecordCompletion, At, MayRecord, SamePending
<1>3. /\ kernel = [st |-> "completed", by |-> flow.op] /\ flow.op \in OtherRequests
      /\ flow.op \in Requests /\ flow.op.kind = "complete"
  BY <1>2, KindsOfRequests DEF FlowInv, CompletionsSound
<1>4. flow.op # NoRequest /\ flow.st \notin {"handoff_preparing", "handoff_pending"}
  BY <1>3, KindsOfRequests, RequestFacts DEF FlowInv, RunSound
<1>5. flow.st = "completion_preparing"
  BY <1>1, <1>4, Typed DEF FlowInv, RunTyped, FlowRow
<1>6. flow'.st = "completed" /\ flow'.state = flow.state /\ flow'.impact = flow.impact
  BY <1>1 DEF RecordCompletion, FlowRow
<1> QED
  BY <1>3, <1>4, <1>5, <1>6

LEMMA EndsKept ==
  ASSUME FlowInv, EndsSound, [FlowNext]_flowVars
  PROVE  EndsSound'
<1> DEFINE Ending(c) == call[c].pc \in {"kernel", "finish"}
<1>1. /\ flow \in FlowRow /\ call \in [FlowCalls -> CallRow]
      /\ kernel \in [st : {"active", "gated", "completed", "error"}, by : Requests \cup {NoRequest}]
  BY Typed DEF FlowInv, RunTyped, SagaTyped, GateTyped
<1>2. ASSUME flow' = flow, kernel.st = "completed" => kernel' = kernel,
             \A c \in FlowCalls : call'[c].pc \in {"kernel", "finish"} => Ending(c)
      PROVE  EndsSound'
  BY <1>2 DEF EndsSound, Terminal
<1>3. ASSUME NEW impact \in Supplied, StartFlow(impact) PROVE EndsSound'
  BY <1>1, <1>3 DEF EndsSound, StartFlow, FlowRow, sagaVars
<1>4. ASSUME NEW c \in FlowCalls, NEW r \in PrepareRequests, NEW l \in 1..holder, Reserve(c, r, l)
      PROVE  EndsSound'
  BY <1>1, <1>4 DEF EndsSound, Reserve, Begin, FlowRow
<1>5. ASSUME NEW c \in FlowCalls, RecordHandover(c) PROVE EndsSound'
  <2>1. flow.st = "handoff_preparing" /\ flow'.st = "handoff_pending"
    BY <1>5, RecordsPrepared
  <2> QED
    BY <1>1, <1>5, <2>1 DEF EndsSound, RecordHandover, Return, NoCall
<1>6. ASSUME NEW r \in OtherRequests, PickUp(r) PROVE EndsSound'
  BY <1>1, <1>6 DEF EndsSound, PickUp, Arrived, FlowRow
<1>7. ASSUME NEW c \in FlowCalls, NEW r \in OtherRequests, ReserveCompletion(c, r) PROVE EndsSound'
  BY <1>1, <1>7 DEF EndsSound, ReserveCompletion, Begin, FlowRow, Terminal
<1>8. ASSUME NEW c \in FlowCalls, RecordCompletion(c) PROVE EndsSound'
  <2>1. /\ flow.st = "completion_preparing" /\ flow'.st = "completed"
        /\ kernel.st = "completed" /\ kernel.by # NoRequest
    BY <1>8, RecordsCompletion
  <2> QED
    BY <1>1, <1>8, <2>1 DEF EndsSound, RecordCompletion, Return, NoCall
<1>9. ASSUME NEW c \in FlowCalls, CompleteKernel(c) PROVE EndsSound'
  <2>1. kernel.st = "completed" => kernel' = kernel
    BY <1>1, <1>9 DEF CompleteKernel
  <2> QED
    BY <1>1, <1>2, <1>9, <2>1 DEF CompleteKernel, At, GoOn
<1>10. ASSUME NEW c \in FlowCalls,
              \/ OfferHandover(c) \/ GiveUp(c) \/ Die(c)
              \/ \E r \in PrepareRequests, l \in 1..holder : Retry(c, r, l)
       PROVE  EndsSound'
  <2>1. flow' = flow /\ kernel' = kernel
    BY <1>10 DEF OfferHandover, GiveUp, Die, Retry, engineVars
  <2>2. \/ call' = [call EXCEPT ![c].pc = "record"]
        \/ call' = [call EXCEPT ![c] = NoCall]
        \/ \E r, l, t : call' = [call EXCEPT ![c] = [pc |-> "offer", op |-> r, lease |-> l, target |-> t]]
    BY <1>10 DEF OfferHandover, GiveUp, Die, Retry, GoOn, Return, Begin
  <2>3. \A d \in FlowCalls : call'[d].pc \in {"kernel", "finish"} => Ending(d)
    BY <1>1, <2>2 DEF NoCall, CallRow
  <2> QED
    BY <1>2, <2>1, <2>3
<1>11. CASE /\ UNCHANGED <<flow, call>> /\ (kernel.st = "completed" => kernel' = kernel)
  BY <1>2, <1>11
<1>12. ASSUME \/ \E g \in SponsorGates : \/ OpenSponsorGate(g) \/ ApproveSponsorGate(g)
                                        \/ RejectSponsorGate(g) \/ TimeOutSponsorGate(g)
              \/ PlainGate \/ \E status \in {"completed", "error"} : KernelEnds(status)
       PROVE  EndsSound'
  BY <1>11, <1>12
  DEF OpenSponsorGate, ApproveSponsorGate, RejectSponsorGate, TimeOutSponsorGate, PlainGate,
      KernelEnds, Openable, Current, sagaVars
<1>13. ASSUME \/ UNCHANGED flowVars
              \/ \E k \in Kinds : Dispatch(k)
              \/ \E v \in Reviewers : Look(v) \/ VerifyArtifact(v)
              \/ \E decision \in {"responded", "exception"} : RecordConsultation(decision)
              \/ \E v \in Reviewers, k \in {"review", "assessment"},
                    decision \in {"approved", "rejected", "exception"},
                    impact \in Impacts \cup {"none"} : DecideOwnerGate(v, k, decision, impact)
              \/ \E g \in SponsorGates : ExpireSponsorGate(g)
              \/ \E k \in HandoverKeys : ClaimHandover(k) \/ AcceptHandover(k)
              \/ ReplaceHolder \/ EditDocument
       PROVE  UNCHANGED <<flow, call, kernel>>
  BY <1>13
  DEF flowVars, engineVars, sagaVars, Dispatch, Look, VerifyArtifact, RecordConsultation,
      DecideOwnerGate, ExpireSponsorGate, ClaimHandover, AcceptHandover, ReplaceHolder, EditDocument
<1> QED
  BY <1>3, <1>4, <1>5, <1>6, <1>7, <1>8, <1>9, <1>10, <1>11, <1>12, <1>13
  DEF FlowNext, CallStep

\* What was given stays given while the run stays in its state.
LEMMA EvidenceStays ==
  ASSUME proof \subseteq proof', Obliged' = Obliged,
         \A k \in Kinds : duty[k] = "dispatched" => duty'[k] = "dispatched"
  PROVE  Owed' \in SUBSET Owed
<1>1. Obliged \subseteq Kinds
  BY DEF Obliged
<1>2. \A etag : Verified(etag) => Verified(etag)'
  BY DEF Verified
<1>3. \A k \in Kinds : Evidenced(k) => Evidenced(k)'
  BY <1>2 DEF Evidenced
<1> QED
  BY <1>1, <1>3 DEF Owed

\* Evidence and assessments are a Supply, or change nothing of what is owed.
LEMMA SuppliesGoverned ==
  ASSUME flow' = flow, flow.st = "active", Obliged' = Obliged, Owed' \in SUBSET Owed,
         assessed' \in Impacts \cup {assessed}, WorkEnded' = WorkEnded
  PROVE  Governed!GNext
<1>1. Governed!Supply
  BY DEF Governed!Supply, Stay, Destination
<1> QED
  BY <1>1 DEF Governed!GNext

\* What is not part of the flow's promise.
LEMMA GovernedStutters ==
  ASSUME Stay' = Stay, flow'.state = flow.state, flow'.impact = flow.impact,
         Destination' = Destination, UNCHANGED <<duty, proof, assessed>>, WorkEnded' = WorkEnded
  PROVE  UNCHANGED (Governed!gvars)
BY DEF Governed!gvars, Obliged, Owed, Evidenced, Verified

\* Nothing is owed any more once an operation is pending.
LEMMA NothingOwed ==
  ASSUME FlowInv, flow.st \in {"handoff_preparing", "handoff_pending", "completion_preparing"}
  PROVE  Owed = {}
BY DEF FlowInv, Leaving, Owed

\* A state is entered owing all it asks for.
LEMMA AllOwed ==
  ASSUME NEW s \in FlowStates, NEW impact \in Impacts \cup {"none"},
         duty' = Entered(s, impact), proof' = {}
  PROVE  Obliged' = NeededBy[s, impact] /\ Owed' = Obliged'
<1>1. Obliged' = Needed(s, impact) /\ \A k \in Kinds : duty'[k] # "dispatched"
  BY JustEntered
<1>2. NeededBy[s, impact] = Needed(s, impact)
  BY DEF NeededBy
<1>3. \A k \in Kinds : ~Evidenced(k)'
  BY <1>1 DEF Evidenced, Kinds
<1>4. Obliged' \subseteq Kinds
  BY DEF Obliged
<1> QED
  BY <1>1, <1>2, <1>3, <1>4 DEF Owed

LEMMA DepartureGoverned ==
  ASSUME FlowInv, NEW c \in FlowCalls, RecordHandover(c)
  PROVE  Governed!GNext
<1>1. /\ flow.st = "handoff_preparing" /\ flow.target # "none"
      /\ flow'.st = "handoff_pending" /\ flow'.state = flow.state /\ flow'.target = flow.target
      /\ flow'.impact = flow.impact
  BY RecordsPrepared
<1>2. UNCHANGED <<duty, kernel, proof, assessed>>
  BY DEF RecordHandover, governanceVars
<1>3. PICK r \in FlowRoutes :
        r.from = flow.state /\ r.to = flow.target /\ r.impact \in {"any", flow.impact}
  BY <1>1 DEF FlowInv, Leaving
<1>4. assessed \in {"none", flow.impact}
  BY <1>1 DEF FlowInv, Leaving
<1>5. Owed = {} /\ Owed' = Owed /\ Obliged' = Obliged
  BY <1>1, <1>2, NothingOwed DEF Obliged, Owed, Evidenced, Verified
<1>6. WorkEnded' = WorkEnded
  BY <1>2 DEF WorkEnded
<1>7. Governed!Depart(r)
  BY <1>1, <1>2, <1>3, <1>4, <1>5, <1>6 DEF Governed!Depart, Stay, Destination
<1> QED
  BY <1>7 DEF Governed!GNext

LEMMA ArrivalGoverned ==
  ASSUME FlowInv, NEW r \in OtherRequests, PickUp(r)
  PROVE  Governed!GNext
<1>1. flow \in FlowRow
  BY Typed DEF FlowInv, RunTyped
<1>2. /\ flow.st = "handoff_pending" /\ flow'.st = "active" /\ flow'.state = flow.target
      /\ flow'.impact = flow.impact /\ flow.impact \in Impacts \cup {"none"}
  BY <1>1 DEF PickUp, Arrived, FlowRow
<1>3. /\ duty' = Entered(flow.target, flow.impact) /\ proof' = {} /\ UNCHANGED <<kernel, assessed>>
  BY DEF PickUp
<1>4. flow.target \in FlowStates
  BY <1>1, <1>2, Typed DEF FlowInv, RunTyped, FlowRow
<1>5. Obliged' = NeededBy[flow.target, flow.impact] /\ Owed' = Obliged'
  BY <1>2, <1>3, <1>4, AllOwed
<1>6. WorkEnded' = WorkEnded
  BY <1>3 DEF WorkEnded
<1>7. Governed!Arrive
  BY <1>2, <1>3, <1>5, <1>6 DEF Governed!Arrive, Stay, Destination
<1> QED
  BY <1>7 DEF Governed!GNext

LEMMA CompletionGoverned ==
  ASSUME FlowInv, EndsSound, NEW c \in FlowCalls, CompleteKernel(c)
  PROVE  [Governed!GNext]_(Governed!gvars)
<1>1. /\ call[c].pc = "kernel" /\ call[c].op \in OtherRequests /\ call[c].op # NoRequest
  BY KindsOfRequests, RequestFacts DEF CompleteKernel, At, FlowInv, CompletionsSound
<1>2. UNCHANGED <<flow, duty, proof, assessed>>
  BY DEF CompleteKernel, governanceVars
<1>3. CASE kernel.st = "active"
  <2>1. flow.st = "completion_preparing" /\ Terminal(flow.state)
    BY <1>1, <1>3 DEF EndsSound
  <2>2. Owed = {} /\ Owed' = Owed /\ Obliged' = Obliged
    BY <1>2, <2>1, NothingOwed DEF Obliged, Owed, Evidenced, Verified
  <2>3. WorkEnded = "open" /\ WorkEnded' = "completed"
    BY <1>1, <1>3 DEF CompleteKernel, WorkEnded
  <2>4. Governed!Complete
    BY <1>2, <2>1, <2>2, <2>3 DEF Governed!Complete, Governed!AtEnd, Stay, Destination, Terminal
  <2> QED
    BY <2>4 DEF Governed!GNext
<1>4. CASE kernel.st # "active"
  <2>1. kernel = [st |-> "completed", by |-> call[c].op] /\ kernel' = kernel
    BY <1>4 DEF CompleteKernel, Completing
  <2>2. WorkEnded' = WorkEnded
    BY <2>1 DEF WorkEnded
  <2> QED
    BY <1>2, <2>2, GovernedStutters DEF Stay, Destination
<1> QED
  BY <1>3, <1>4

LEMMA EndGoverned ==
  ASSUME FlowInv, EndsSound, NEW c \in FlowCalls, RecordCompletion(c)
  PROVE  Governed!GNext
<1>1. /\ flow.st = "completion_preparing" /\ Terminal(flow.state)
      /\ kernel.st = "completed" /\ kernel.by # NoRequest
      /\ flow'.st = "completed" /\ flow'.state = flow.state /\ flow'.impact = flow.impact
  BY RecordsCompletion DEF EndsSound
<1>2. UNCHANGED <<duty, kernel, proof, assessed>>
  BY DEF RecordCompletion, governanceVars
<1>3. Owed = {} /\ Owed' = Owed /\ Obliged' = Obliged
  BY <1>1, <1>2, NothingOwed DEF Obliged, Owed, Evidenced, Verified
<1>4. WorkEnded = "completed" /\ WorkEnded' = WorkEnded
  BY <1>1, <1>2 DEF WorkEnded
<1>5. Governed!End
  BY <1>1, <1>2, <1>3, <1>4 DEF Governed!End, Governed!AtEnd, Stay, Destination, Terminal
<1> QED
  BY <1>5 DEF Governed!GNext

\* An operation that is reserved leaves the run where it is; at most it settles what is known.
LEMMA ReservationGoverned ==
  ASSUME FlowInv,
         \/ \E c \in FlowCalls, r \in PrepareRequests, l \in 1..holder : Reserve(c, r, l)
         \/ \E c \in FlowCalls, r \in OtherRequests : ReserveCompletion(c, r)
  PROVE  [Governed!GNext]_(Governed!gvars)
<1>1. flow \in FlowRow /\ assessed \in Impacts \cup {"none"}
  BY Typed DEF FlowInv, RunTyped, DutyTyped
<1>2. CASE \E c \in FlowCalls, r \in PrepareRequests, l \in 1..holder : Reserve(c, r, l)
  <2>1. PICK r \in PrepareRequests : \E c \in FlowCalls, l \in 1..holder : Reserve(c, r, l)
    BY <1>2
  <2>2. /\ flow.st = "active" /\ flow'.st = "handoff_preparing" /\ flow'.state = flow.state
        /\ flow'.impact = Merged(r) /\ UNCHANGED <<duty, kernel, proof, assessed>> /\ Ready
    BY <1>1, <2>1 DEF Reserve, FlowRow, governanceVars
  <2>3. WorkEnded' = WorkEnded /\ Obliged' = Obliged /\ Owed' = Owed
    BY <2>2 DEF WorkEnded, Obliged, Owed, Evidenced, Verified
  <2>4. Owed = {}
    BY <2>2, ReadyIsEvidenced DEF Owed
  <2>5. /\ Merged(r) \in Impacts \cup {flow.impact} /\ assessed \in {"none", Merged(r)}
    <3>1. r.impact \in Impacts \cup {"none"}
      BY FlowAssumption DEF PrepareRequests
    <3> QED
      BY <1>1, <3>1 DEF Merged
  <2>6. CASE Merged(r) = flow.impact
    BY <2>2, <2>3, <2>6, GovernedStutters DEF Stay, Destination
  <2>7. CASE Merged(r) \in Impacts
    <3>1. Governed!Settle
      BY <2>2, <2>3, <2>4, <2>5, <2>7 DEF Governed!Settle, Stay, Destination
    <3> QED
      BY <3>1 DEF Governed!GNext
  <2> QED
    BY <2>5, <2>6, <2>7
<1>3. CASE \E c \in FlowCalls, r \in OtherRequests : ReserveCompletion(c, r)
  <2>1. /\ flow'.state = flow.state /\ flow'.impact = flow.impact
        /\ UNCHANGED <<duty, kernel, proof, assessed>>
        /\ flow.st \in {"active", "completion_preparing"}
        /\ flow'.st \in {"active", "completion_preparing"}
    BY <1>1, <1>3 DEF ReserveCompletion, FlowRow, governanceVars
  <2>2. WorkEnded' = WorkEnded
    BY <2>1 DEF WorkEnded
  <2> QED
    BY <2>1, <2>2, GovernedStutters DEF Stay, Destination
<1> QED
  BY <1>2, <1>3

\* Every step of the run is a governed step, or none.
LEMMA FlowGoverned ==
  ASSUME FlowInv, EndsSound, [FlowNext]_flowVars
  PROVE  [Governed!GNext]_(Governed!gvars)
<1>1. /\ flow \in FlowRow /\ duty \in [Kinds -> {"none", "pending", "dispatched", "satisfied"}]
      /\ \A k \in Kinds : duty[k] = "dispatched" => k \in {"consult", "inform"}
  BY Typed DEF FlowInv, RunTyped, DutyTyped
<1>2. ASSUME flow' = flow, flow.st = "active", proof \subseteq proof',
             \A k \in Kinds : duty[k] = "dispatched" => duty'[k] = "dispatched",
             assessed' \in Impacts \cup {assessed}, WorkEnded' = WorkEnded
      PROVE  Governed!GNext
  <2>1. Obliged' = Obliged
    BY <1>2, EntryGoverned
  <2> QED
    BY <1>2, <2>1, EvidenceStays, SuppliesGoverned
<1>3. ASSUME NEW impact \in Supplied, StartFlow(impact) PROVE Governed!GNext
  <2>1. /\ flow.st = "none" /\ flow.state = EntryState /\ proof = {}
        /\ impact \in Impacts \cup {"none"}
    BY <1>3, FlowAssumption DEF StartFlow, FlowInv, RunSound, EvidenceSound
  <2>2. /\ flow'.st = "active" /\ flow'.state = flow.state /\ flow'.impact = impact
        /\ UNCHANGED <<kernel, proof, assessed>> /\ duty' = Entered(flow.state, impact)
    BY <1>1, <1>3, <2>1 DEF StartFlow, FlowRow, governanceVars
  <2>3. flow.state \in FlowStates
    BY <1>1 DEF FlowRow
  <2>4. Obliged' = NeededBy[flow.state, impact] /\ Owed' = Obliged'
    BY <2>1, <2>2, <2>3, AllOwed
  <2>5. WorkEnded' = WorkEnded
    BY <2>2 DEF WorkEnded
  <2>6. Governed!Enter
    BY <2>1, <2>2, <2>4, <2>5 DEF Governed!Enter, Stay, Destination
  <2> QED
    BY <2>6 DEF Governed!GNext
<1>4. ASSUME NEW k \in Kinds, Dispatch(k) PROVE Governed!GNext
  <2>1. /\ UNCHANGED <<flow, kernel, proof, assessed>> /\ flow.st = "active"
        /\ \A x \in Kinds : duty[x] = "dispatched" => duty'[x] = "dispatched"
    BY <1>1, <1>4 DEF Dispatch, governanceVars
  <2>2. WorkEnded' = WorkEnded
    BY <2>1 DEF WorkEnded
  <2> QED
    BY <1>2, <2>1, <2>2
<1>5. ASSUME NEW v \in Reviewers, VerifyArtifact(v) PROVE Governed!GNext
  <2>1. /\ UNCHANGED <<flow, kernel, assessed>> /\ flow.st = "active" /\ proof \subseteq proof'
        /\ \A x \in Kinds : duty[x] = "dispatched" => duty'[x] = "dispatched"
    BY <1>1, <1>5 DEF VerifyArtifact, Record
  <2>2. WorkEnded' = WorkEnded
    BY <2>1 DEF WorkEnded
  <2> QED
    BY <1>2, <2>1, <2>2
<1>6. ASSUME NEW decision \in {"responded", "exception"}, RecordConsultation(decision)
      PROVE  Governed!GNext
  <2>1. /\ UNCHANGED <<flow, kernel, assessed, duty>> /\ flow.st = "active" /\ proof \subseteq proof'
    BY <1>6 DEF RecordConsultation, Record, engineVars
  <2>2. WorkEnded' = WorkEnded
    BY <2>1 DEF WorkEnded
  <2> QED
    BY <1>2, <2>1, <2>2
<1>7. ASSUME NEW v \in Reviewers, NEW k \in {"review", "assessment"},
             NEW decision \in {"approved", "rejected", "exception"},
             NEW impact \in Impacts \cup {"none"}, DecideOwnerGate(v, k, decision, impact)
      PROVE  Governed!GNext
  <2>1. /\ UNCHANGED <<flow, kernel>> /\ flow.st = "active" /\ proof \subseteq proof'
        /\ assessed' \in Impacts \cup {assessed}
    BY <1>7 DEF DecideOwnerGate, Record
  <2>2. \A x \in Kinds : duty[x] = "dispatched" => duty'[x] = "dispatched"
    BY <1>1, <1>7 DEF DecideOwnerGate
  <2>3. WorkEnded' = WorkEnded
    BY <2>1 DEF WorkEnded
  <2> QED
    BY <1>2, <2>1, <2>2, <2>3
<1>8. ASSUME NEW g \in SponsorGates,
             \/ OpenSponsorGate(g) \/ ApproveSponsorGate(g)
             \/ RejectSponsorGate(g) \/ TimeOutSponsorGate(g)
      PROVE  Governed!GNext
  <2>1. /\ UNCHANGED <<flow, assessed>> /\ flow.st = "active" /\ proof \subseteq proof'
        /\ kernel.st \in {"active", "gated"} /\ kernel'.st \in {"active", "gated"}
    BY <1>8, Typed
    DEF OpenSponsorGate, ApproveSponsorGate, RejectSponsorGate, TimeOutSponsorGate, Openable,
        Current, Resolve, Record, governanceVars, FlowInv, GateTyped
  <2>2. \A x \in Kinds : duty[x] = "dispatched" => duty'[x] = "dispatched"
    BY <1>1, <1>8
    DEF OpenSponsorGate, ApproveSponsorGate, RejectSponsorGate, TimeOutSponsorGate
  <2>3. WorkEnded' = WorkEnded
    BY <2>1 DEF WorkEnded
  <2> QED
    BY <1>2, <2>1, <2>2, <2>3
<1>9. ASSUME NEW status \in {"completed", "error"}, KernelEnds(status)
      PROVE  [Governed!GNext]_(Governed!gvars)
  <2>1. /\ UNCHANGED <<flow, duty, proof, assessed>> /\ kernel.st = "active"
        /\ kernel' = [st |-> status, by |-> NoRequest]
    BY <1>9 DEF KernelEnds, governanceVars
  <2>2. CASE status = "completed"
    <3>1. WorkEnded = "open" /\ WorkEnded' = "elsewhere"
      BY <2>1, <2>2 DEF WorkEnded
    <3>2. Governed!CompleteElsewhere
      BY <2>1, <3>1
      DEF Governed!CompleteElsewhere, Stay, Destination, Obliged, Owed, Evidenced, Verified
    <3> QED
      BY <3>2 DEF Governed!GNext
  <2>3. CASE status = "error"
    <3>1. WorkEnded' = WorkEnded
      BY <2>1, <2>3 DEF WorkEnded
    <3> QED
      BY <2>1, <3>1, GovernedStutters DEF Stay, Destination
  <2> QED
    BY <2>2, <2>3
<1>10. ASSUME PlainGate PROVE UNCHANGED (Governed!gvars)
  <2>1. /\ UNCHANGED <<flow, duty, proof, assessed>>
        /\ kernel.st \in {"active", "gated"} /\ kernel'.st \in {"active", "gated"}
    BY <1>10, Typed DEF PlainGate, governanceVars, FlowInv, GateTyped
  <2>2. WorkEnded' = WorkEnded
    BY <2>1 DEF WorkEnded
  <2> QED
    BY <2>1, <2>2, GovernedStutters DEF Stay, Destination
<1>11. ASSUME \/ \E c \in FlowCalls, r \in PrepareRequests, l \in 1..holder : Reserve(c, r, l)
              \/ \E c \in FlowCalls, r \in OtherRequests : ReserveCompletion(c, r)
       PROVE  [Governed!GNext]_(Governed!gvars)
  BY <1>11, ReservationGoverned
<1>12. ASSUME \/ UNCHANGED flowVars
              \/ \E c \in FlowCalls, r \in PrepareRequests, l \in 1..holder : Retry(c, r, l)
              \/ \E c \in FlowCalls : OfferHandover(c) \/ GiveUp(c) \/ Die(c)
              \/ \E v \in Reviewers : Look(v)
              \/ \E g \in SponsorGates : ExpireSponsorGate(g)
              \/ \E k \in HandoverKeys : ClaimHandover(k) \/ AcceptHandover(k)
              \/ ReplaceHolder \/ EditDocument
       PROVE  UNCHANGED (Governed!gvars)
  <2>1. UNCHANGED <<flow, duty, kernel, proof, assessed>>
    BY <1>12
    DEF flowVars, engineVars, governanceVars, Retry, OfferHandover, GiveUp, Die, Look,
        ExpireSponsorGate, ClaimHandover, AcceptHandover, ReplaceHolder, EditDocument
  <2>2. WorkEnded' = WorkEnded
    BY <2>1 DEF WorkEnded
  <2> QED
    BY <2>1, <2>2, GovernedStutters DEF Stay, Destination
<1> QED
  BY <1>3, <1>4, <1>5, <1>6, <1>7, <1>8, <1>9, <1>10, <1>11, <1>12, DepartureGoverned,
     ArrivalGoverned, CompletionGoverned, EndGoverned
  DEF FlowNext, CallStep

\* The engine's protocol of several transactions is the flow it promises: whatever is retried,
\* replayed or dies in between, each state is left at once, owing nothing, along a route for the
\* assessed impact, and work is completed by the flow only where no route leaves
\* (prepare_transition, pickup_transition, complete, _require_ready, select_route).
THEOREM FlowImplementsGovernedFlow == FlowSpec => ImplementsGovernedFlow
<1>1. FlowInit => EndsSound /\ Governed!GInit
  <2>1. ASSUME FlowInit PROVE Obliged = {} /\ Owed = {}
    BY <2>1 DEF FlowInit, NoEntry, Obliged, Owed
  <2> QED
    BY <2>1 DEF FlowInit, EndsSound, NoCall, Governed!GInit, Stay, Destination, WorkEnded
<1>2. FlowInv /\ EndsSound /\ [FlowNext]_flowVars => EndsSound' /\ [Governed!GNext]_(Governed!gvars)
  BY EndsKept, FlowGoverned
<1> QED
  BY <1>1, <1>2, FlowInvariance, PTL DEF FlowSpec, ImplementsGovernedFlow, Governed!GSpec

-----------------------------------------------------------------------------
(* The refinement of GatedWork *)

\* What a step does to the one work item is what it does to the mapped variables.
LEMMA KernelMapped ==
  /\ \A x : x = kernel'.st => KernelLife' = [KernelLife EXCEPT !["kernel"] = x]
  /\ \A x : x = KernelHolder' => KernelHeld' = [KernelHeld EXCEPT !["kernel"] = x]
  /\ KernelLife["kernel"] = kernel.st /\ KernelHeld["kernel"] = KernelHolder
BY DEF KernelLife, KernelHeld

\* Nothing happens to the work while its status and the gates stay.
LEMMA KernelStays ==
  ASSUME kernel'.st = kernel.st, \A g \in SponsorGates : sgate'[g].st = sgate[g].st
  PROVE  UNCHANGED (KernelGating!gatedVars)
<1>1. Pending' = Pending
  BY DEF Pending
<1>2. KernelHolder' = KernelHolder
  BY <1>1 DEF KernelHolder
<1> QED
  BY <1>2 DEF KernelGating!gatedVars, KernelLife, KernelHeld, KernelGates

\* A managed gate opens on active work and holds it.
LEMMA OpenHolds ==
  ASSUME FlowInv, NEW g \in SponsorGates, OpenSponsorGate(g)
  PROVE  KernelGating!GatedNext
<1>1. /\ kernel.st = "active" /\ kernel'.st = "gated"
      /\ sgate[g].st = "none" /\ sgate'[g].st = "pending"
      /\ \A h \in SponsorGates \ {g} : sgate'[h] = sgate[h]
  BY Typed DEF OpenSponsorGate, Openable, FlowInv, GateTyped
<1>2. Pending = {}
  BY <1>1 DEF Pending, FlowInv, SponsorGateResolvable
<1>3. Pending' = {g}
  BY <1>1, <1>2 DEF Pending
<1>4. KernelHolder' = g
  BY <1>1, <1>3 DEF KernelHolder
<1>5. KernelGates' = [KernelGates EXCEPT ![g] = "pending"] /\ KernelGates[g] = "none"
  BY <1>1 DEF KernelGates
<1>6. KernelGating!Hold("kernel", g)
  BY <1>1, <1>4, <1>5, KernelMapped DEF KernelGating!Hold
<1> QED
  BY <1>6 DEF KernelGating!GatedNext

\* A sponsor's decision, or the end of its time, releases the work from the gate it is about.
LEMMA ResolveReleases ==
  ASSUME FlowInv, NEW g \in SponsorGates, NEW o \in {"approved", "rejected", "timed_out"},
         sgate[g].st = "pending", Current(g), \E role \in {"owner", "pm"} : Resolve(g, o, role)
  PROVE  KernelGating!GatedNext
<1>1. /\ kernel.st = "gated" /\ kernel'.st = "active" /\ sgate'[g].st = o
      /\ \A h \in SponsorGates \ {g} : sgate'[h] = sgate[h]
  BY Typed DEF Resolve, Current, FlowInv, GateTyped
<1>2. Pending = {g}
  BY DEF Pending, FlowInv, SponsorGateResolvable
<1>3. KernelHolder = g
  BY <1>1, <1>2 DEF KernelHolder
<1>4. KernelHolder' = "none"
  BY <1>1 DEF KernelHolder
<1>5. KernelGates' = [KernelGates EXCEPT ![g] = o] /\ KernelGates[g] = "pending"
  BY <1>1 DEF KernelGates
<1>6. KernelGating!Resolve("kernel", o)
  BY <1>1, <1>3, <1>4, <1>5, KernelMapped DEF KernelGating!Resolve
<1> QED
  BY <1>6 DEF KernelGating!GatedNext

\* Another gate holds the work and releases it, and never while a managed one waits.
LEMMA PlainGateHolds ==
  ASSUME FlowInv, PlainGate
  PROVE  KernelGating!GatedNext
<1>1. \/ kernel.st = "active" /\ kernel'.st = "gated"
      \/ kernel.st = "gated" /\ kernel'.st = "active"
  BY Typed DEF PlainGate, FlowInv, GateTyped
<1>2. Pending = {} /\ Pending' = {} /\ KernelGates' = KernelGates
  BY DEF PlainGate, sponsorVars, Pending, KernelGates
<1>3. CASE kernel.st = "active" /\ kernel'.st = "gated"
  <2>1. KernelHolder' = "plain"
    BY <1>2, <1>3 DEF KernelHolder
  <2>2. KernelGating!Hold("kernel", "plain")
    BY <1>2, <1>3, <2>1, KernelMapped DEF KernelGating!Hold
  <2> QED
    BY <2>2 DEF KernelGating!GatedNext
<1>4. CASE kernel.st = "gated" /\ kernel'.st = "active"
  <2>1. KernelHolder = "plain" /\ KernelHolder' = "none"
    BY <1>2, <1>4 DEF KernelHolder
  <2>2. KernelGating!Resolve("kernel", "approved")
    BY <1>2, <1>4, <2>1, KernelMapped DEF KernelGating!Resolve
  <2> QED
    BY <2>2 DEF KernelGating!GatedNext
<1> QED
  BY <1>1, <1>3, <1>4

\* Only active work ends, and it does so once.
LEMMA KernelEndsUnheld ==
  ASSUME FlowInv, NEW e \in {"completed", "error"}, kernel.st = "active", kernel'.st = e,
         UNCHANGED sgate
  PROVE  KernelGating!GatedNext
<1>1. KernelHolder = "none" /\ KernelHolder' = "none" /\ KernelGates' = KernelGates
  BY DEF KernelHolder, KernelGates
<1>2. KernelHeld' = KernelHeld
  BY <1>1 DEF KernelHeld
<1>3. KernelGating!End("kernel", e)
  BY <1>1, <1>2, KernelMapped DEF KernelGating!End
<1> QED
  BY <1>3 DEF KernelGating!GatedNext

\* Every step of the run is one of gated work, or none.
LEMMA FlowStepsGated ==
  ASSUME FlowInv, [FlowNext]_flowVars
  PROVE  [KernelGating!GatedNext]_(KernelGating!gatedVars)
<1>1. ASSUME NEW g \in SponsorGates, ApproveSponsorGate(g) \/ RejectSponsorGate(g)
             \/ TimeOutSponsorGate(g)
      PROVE  KernelGating!GatedNext
  BY <1>1, ResolveReleases DEF ApproveSponsorGate, RejectSponsorGate, TimeOutSponsorGate
<1>2. ASSUME NEW c \in FlowCalls, CompleteKernel(c)
      PROVE  [KernelGating!GatedNext]_(KernelGating!gatedVars)
  <2>1. /\ UNCHANGED sgate /\ kernel'.st = "completed"
        /\ kernel.st = "active" \/ kernel.st = "completed"
    BY <1>2 DEF CompleteKernel, Completing, sponsorVars
  <2>2. CASE kernel.st = "active"
    BY <2>1, <2>2, KernelEndsUnheld
  <2>3. CASE kernel.st = "completed"
    BY <2>1, <2>3, KernelStays
  <2> QED
    BY <2>1, <2>2, <2>3
<1>3. ASSUME NEW status \in {"completed", "error"}, KernelEnds(status)
      PROVE  KernelGating!GatedNext
  BY <1>3, KernelEndsUnheld DEF KernelEnds, sponsorVars
<1>4. ASSUME NEW g \in SponsorGates, ExpireSponsorGate(g)
      PROVE  UNCHANGED (KernelGating!gatedVars)
  <2>1. UNCHANGED kernel /\ \A h \in SponsorGates : sgate'[h].st = sgate[h].st
    BY <1>4, Typed DEF ExpireSponsorGate, engineVars, FlowInv, GateTyped
  <2> QED
    BY <2>1, KernelStays
<1>5. CASE UNCHANGED <<kernel, sgate>>
  BY <1>5, KernelStays
<1>6. ASSUME \/ \E impact \in Supplied : StartFlow(impact)
             \/ \E k \in Kinds : Dispatch(k)
             \/ \E c \in FlowCalls, r \in PrepareRequests, l \in 1..holder :
                  Reserve(c, r, l) \/ Retry(c, r, l)
             \/ \E c \in FlowCalls, r \in OtherRequests : ReserveCompletion(c, r)
             \/ \E r \in OtherRequests : PickUp(r)
             \/ \E c \in FlowCalls : \/ OfferHandover(c) \/ RecordHandover(c)
                                     \/ RecordCompletion(c) \/ GiveUp(c) \/ Die(c)
      PROVE  UNCHANGED <<kernel, sgate>>
  BY <1>6
  DEF StartFlow, Dispatch, Reserve, Retry, ReserveCompletion, PickUp, OfferHandover,
      RecordHandover, RecordCompletion, GiveUp, Die, engineVars, sponsorVars
<1>7. ASSUME \/ \E v \in Reviewers : Look(v) \/ VerifyArtifact(v)
             \/ \E decision \in {"responded", "exception"} : RecordConsultation(decision)
             \/ \E v \in Reviewers, k \in {"review", "assessment"},
                   decision \in {"approved", "rejected", "exception"},
                   impact \in Impacts \cup {"none"} : DecideOwnerGate(v, k, decision, impact)
             \/ \E k \in HandoverKeys : ClaimHandover(k) \/ AcceptHandover(k)
             \/ ReplaceHolder \/ EditDocument \/ UNCHANGED flowVars
      PROVE  UNCHANGED <<kernel, sgate>>
  BY <1>7
  DEF Look, VerifyArtifact, RecordConsultation, DecideOwnerGate, ClaimHandover, AcceptHandover,
      ReplaceHolder, EditDocument, flowVars, engineVars, sponsorVars
<1> QED
  BY <1>1, <1>2, <1>3, <1>4, <1>5, <1>6, <1>7, OpenHolds, PlainGateHolds
  DEF FlowNext, CallStep

\* A managed gate holds the work until it is decided or its time is up, and nobody completes
\* work that a gate holds, whatever engine calls are under way (sponsor_approvals.py open,
\* decide, time_out; flow_engine.py complete).
THEOREM FlowImplementsGatedWork == FlowSpec => FlowGatesWork
<1>1. FlowInit => KernelGating!GatedInit
  <2> SUFFICES ASSUME FlowInit PROVE KernelGating!GatedInit
    OBVIOUS
  <2>1. kernel.st = "active" /\ KernelHolder = "none"
    BY DEF FlowInit, KernelHolder
  <2>2. KernelGates = [g \in SponsorGates |-> "none"]
    BY DEF FlowInit, KernelGates, NoSponsorGate
  <2> QED
    BY <2>1, <2>2 DEF KernelGating!GatedInit, KernelLife, KernelHeld
<1> QED
  BY <1>1, FlowStepsGated, FlowInvariance, PTL
  DEF FlowSpec, FlowGatesWork, KernelGating!GatedSpec

=============================================================================
