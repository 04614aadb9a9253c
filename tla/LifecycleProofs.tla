---------------------------- MODULE LifecycleProofs ----------------------------
(* Theorems about WorkLifecycle: gates, the retry policy and terminal errors. *)
EXTENDS WorkLifecycle, FiniteSetTheorems, TLAPS

\* The gates that hold the work now.
HeldGates(w) == {g \in Gates : gate[g].w = w /\ gate[g].status = "pending"}

\* The gates of the work that sponsors have decided.
Resolved(w) == {g \in Gates : gate[g].w = w /\ gate[g].status \in {"approved", "rejected"}}

\* A gate is of some work once it was opened, nobody has decided it while it waits, and
\* exactly one of those asked has when it is resolved.
GatesSound ==
  \A g \in Gates :
    /\ gate[g].status # "none" => gate[g].w \in Works
    /\ gate[g].status = "pending" => gate[g].decision = [t \in Sponsors |-> "none"]
    /\ gate[g].status \in {"approved", "rejected"} =>
         \E s \in gate[g].asked :
           gate[g].decision = [[t \in Sponsors |-> "none"] EXCEPT ![s] = gate[g].status]

\* Gated work is held by exactly one waiting gate, and other work by none.
HeldByOne ==
  \A w \in Works : IF work[w].status = "gated" THEN \E g \in Gates : HeldGates(w) = {g}
                   ELSE HeldGates(w) = {}

\* The version counts what was done: two changes for each gate that was resolved, and those
\* that led to the status.
Base(status) ==
  CASE status = "none" -> 0 [] status = "new" -> 1 [] status = "active" -> 2 [] OTHER -> 3

\* Every version is that count.
VersionsCount ==
  \A w \in Works : work[w].version = 2 * Cardinality(Resolved(w)) + Base(work[w].status)

\* What a caller has read is of the past, and of one version.
SeenPast ==
  \A a \in Callers : seen[a].w # None =>
    /\ seen[a].row.version <= work[seen[a].w].version
    /\ seen[a].row.version = work[seen[a].w].version => seen[a].row = work[seen[a].w]

\* The inductive invariant of the gates.
GateInv == TypeOK /\ GatesSound /\ HeldByOne /\ VersionsCount /\ SeenPast

-----------------------------------------------------------------------------
(* Gates *)

\* Nothing was created, read or asked for at first.
LEMMA LifecycleBegins == LifecycleInit => GateInv
<1> SUFFICES ASSUME LifecycleInit PROVE GateInv
  OBVIOUS
<1>1. Cardinality(Gates) \in Nat
  BY FS_CardinalityType, LifecycleAssumption
<1>2. TypeOK
  BY <1>1 DEF LifecycleInit, TypeOK, NoWork, NoGate, NoIncident, WorkRow, Attempt, Envelopes
<1>3. \A w \in Works : HeldGates(w) = {} /\ Resolved(w) = {}
  BY DEF LifecycleInit, NoGate, HeldGates, Resolved
<1>4. GatesSound /\ SeenPast
  BY DEF LifecycleInit, NoGate, GatesSound, SeenPast, NoWork
<1>5. HeldByOne
  BY <1>3 DEF HeldByOne, LifecycleInit, NoWork
<1>6. VersionsCount
  <2>1. \A w \in Works : Cardinality(Resolved(w)) = 0
    BY <1>3, FS_EmptySet
  <2>2. \A w \in Works : work[w].status = "none" /\ work[w].version = 0
    BY DEF LifecycleInit, NoWork
  <2> QED
    BY <2>1, <2>2 DEF VersionsCount, Base
<1> QED
  BY <1>2, <1>4, <1>5, <1>6 DEF GateInv

\* The set of resolved gates is finite.
LEMMA ResolvedCount ==
  ASSUME NEW w
  PROVE  /\ IsFiniteSet(Resolved(w)) /\ Cardinality(Resolved(w)) \in Nat
         /\ Cardinality(Gates) \in Nat /\ Cardinality(Resolved(w)) <= Cardinality(Gates)
<1>1. Resolved(w) \subseteq Gates
  BY DEF Resolved
<1> QED
  BY <1>1, FS_Subset, FS_CardinalityType, LifecycleAssumption

\* A change of status moves the version on, so that what was read before is not current.
LEMMA SetStatusKept ==
  ASSUME TypeOK, SeenPast, NEW w \in Works, NEW status, SetStatus(w, status), UNCHANGED seen
  PROVE  /\ SeenPast'
         /\ work' = [work EXCEPT ![w] = [status |-> status, version |-> work[w].version + 1]]
         /\ work[w].version \in Nat
<1>1. /\ work' = [work EXCEPT ![w] = [status |-> status, version |-> work[w].version + 1]]
      /\ \A x \in Works : work[x].version \in Nat
  BY ResolvedCount DEF SetStatus, TypeOK, WorkRow
<1>2. \A a \in Callers : seen[a].row.version \in Nat /\ seen[a].w \in Works \cup {None}
  BY ResolvedCount DEF TypeOK, WorkRow
<1>3. SeenPast'
  <2> SUFFICES ASSUME NEW a \in Callers, seen[a].w # None
               PROVE  /\ seen[a].row.version <= work'[seen[a].w].version
                      /\ seen[a].row.version = work'[seen[a].w].version =>
                           seen[a].row = work'[seen[a].w]
    BY DEF SeenPast
  <2>1. CASE seen[a].w = w
    <3>1. work'[w].version = work[w].version + 1
      BY <1>1 DEF TypeOK
    <3> QED
      BY <1>1, <1>2, <2>1, <3>1 DEF SeenPast
  <2>2. CASE seen[a].w # w
    BY <1>1, <1>2, <2>2 DEF SeenPast, TypeOK
  <2> QED
    BY <2>1, <2>2
<1> QED
  BY <1>1, <1>3

\* Versions that count are within the bound of their type.
LEMMA VersionsTyped ==
  ASSUME NEW w \in Works, work[w].status \in {"none", "new", "active", "gated", "completed", "error"},
         work[w].version = 2 * Cardinality(Resolved(w)) + Base(work[w].status)
  PROVE  work[w].version \in 0..(4 + 2 * Cardinality(Gates))
BY ResolvedCount DEF Base

\* What the policy keeps has its type.
PolicyTyped ==
  /\ incident \in [Incidents ->
       [w : Works \cup {None},
        status : {"none", "active", "recovered", "terminal_eligible", "terminal"},
        stage : Stages \cup {"none"}, n : 0..3]]
  /\ attempts \in [Incidents -> SUBSET Attempt]
  /\ request \in [Incidents -> {"none", "pending", "succeeded", "failed"}]
  /\ routed \in SUBSET Envelopes
  /\ routable \in SUBSET {"owner", "pm"}

\* Where no gate is touched, work that is not gated may move on.
LEMMA StatusKept ==
  ASSUME GateInv, NEW w \in Works, NEW status \in {"new", "active", "completed", "error"},
         work[w].status # "gated", Base(status) = Base(work[w].status) + 1,
         SetStatus(w, status), UNCHANGED <<seen, gate>>, PolicyTyped'
  PROVE  GateInv'
<1> USE DEF GateInv
<1>1. /\ SeenPast'
      /\ work' = [work EXCEPT ![w] = [status |-> status, version |-> work[w].version + 1]]
      /\ work[w].version \in Nat
  BY SetStatusKept
<1>2. /\ \A x \in Works \ {w} : work'[x] = work[x]
      /\ work'[w] = [status |-> status, version |-> work[w].version + 1]
      /\ DOMAIN work' = Works
  BY <1>1 DEF TypeOK
<1>3. \A x \in Works : HeldGates(x)' = HeldGates(x) /\ Resolved(x)' = Resolved(x)
  BY DEF HeldGates, Resolved
<1>4. GatesSound'
  BY DEF GatesSound
<1>5. HeldByOne'
  BY <1>2, <1>3 DEF HeldByOne
<1>6. VersionsCount'
  <2>1. work'[w].version = 2 * Cardinality(Resolved(w)) + Base(status)
    BY <1>1, <1>2, ResolvedCount DEF VersionsCount, Base
  <2> QED
    BY <1>2, <1>3, <2>1 DEF VersionsCount
<1>7. TypeOK'
  <2>1. work'[w].version \in 0..(4 + 2 * Cardinality(Gates))
    BY <1>1, <1>2, <1>6, ResolvedCount DEF VersionsCount, Base
  <2>2. work' \in [Works -> WorkRow]
    BY <1>1, <1>2, <2>1 DEF TypeOK, WorkRow
  <2> QED
    BY <2>2 DEF TypeOK, PolicyTyped
<1> QED
  BY <1>1, <1>4, <1>5, <1>6, <1>7

\* A gate is opened on active work, which has none, and which it then holds.
LEMMA OpenGateKept ==
  ASSUME GateInv, NEW a \in Callers, NEW g \in Gates, NEW asked \in SUBSET Sponsors,
         OpenGate(a, g, asked)
  PROVE  GateInv'
<1> USE DEF GateInv
<1>0. PICK w \in Works : w = seen[a].w
  BY DEF OpenGate, Fresh, TypeOK
<1> DEFINE row == [NoGate EXCEPT !.status = "pending", !.w = w, !.asked = asked]
<1>1. /\ work[w].status = "active" /\ gate[g].status = "none"
      /\ SetStatus(w, "gated") /\ gate' = [gate EXCEPT ![g] = row]
      /\ UNCHANGED <<seen, policyVars>>
  BY <1>0 DEF OpenGate
<1>2. /\ row.status = "pending" /\ row.w = w /\ row.decision = [t \in Sponsors |-> "none"]
      /\ row \in [status : {"none", "pending", "approved", "rejected"},
                  w : Works \cup {None}, asked : SUBSET Sponsors,
                  decision : [Sponsors -> {"none", "approved", "rejected"}]]
  BY <1>1 DEF NoGate
<1> HIDE DEF row
<1>3. /\ SeenPast'
      /\ work' = [work EXCEPT ![w] = [status |-> "gated", version |-> work[w].version + 1]]
      /\ work[w].version \in Nat
  BY <1>1, SetStatusKept
<1>4. /\ \A x \in Works \ {w} : work'[x] = work[x]
      /\ work'[w] = [status |-> "gated", version |-> work[w].version + 1]
      /\ DOMAIN work' = Works
      /\ gate'[g] = row /\ \A h \in Gates \ {g} : gate'[h] = gate[h]
  BY <1>1, <1>3 DEF TypeOK
<1>5. /\ \A x \in Works : Resolved(x)' = Resolved(x)
      /\ \A x \in Works \ {w} : HeldGates(x)' = HeldGates(x)
      /\ HeldGates(w)' = HeldGates(w) \cup {g}
  BY <1>1, <1>2, <1>4 DEF HeldGates, Resolved
<1>6. GatesSound'
  <2>1. ASSUME NEW h \in Gates, h # g
        PROVE  gate'[h] = gate[h]
    BY <1>4, <2>1
  <2>2. gate'[g].status = "pending" /\ gate'[g].w \in Works
        /\ gate'[g].decision = [t \in Sponsors |-> "none"]
    BY <1>2, <1>4
  <2> QED
    BY <2>1, <2>2 DEF GatesSound
<1>7. HeldByOne'
  BY <1>1, <1>4, <1>5 DEF HeldByOne
<1>8. VersionsCount'
  <2>1. work'[w].version = 2 * Cardinality(Resolved(w)) + Base("gated")
    BY <1>1, <1>3, <1>4, ResolvedCount DEF VersionsCount, Base
  <2> QED
    BY <1>4, <1>5, <2>1 DEF VersionsCount
<1>9. TypeOK'
  <2>1. work'[w].version \in 0..(4 + 2 * Cardinality(Gates))
    BY <1>1, <1>4, <1>5, <1>8, ResolvedCount DEF VersionsCount, Base
  <2>2. work' \in [Works -> WorkRow]
    BY <1>1, <1>3, <1>4, <2>1 DEF TypeOK, WorkRow
  <2>3. gate' \in [Gates -> [status : {"none", "pending", "approved", "rejected"},
                  w : Works \cup {None}, asked : SUBSET Sponsors,
                  decision : [Sponsors -> {"none", "approved", "rejected"}]]]
    BY <1>1, <1>2 DEF TypeOK
  <2> QED
    BY <1>1, <2>2, <2>3 DEF TypeOK, policyVars
<1> QED
  BY <1>3, <1>6, <1>7, <1>8, <1>9

\* The decision resolves the only gate that holds the work.
LEMMA DecideGateKept ==
  ASSUME GateInv, NEW g \in Gates, NEW s \in Sponsors, NEW decision \in {"approved", "rejected"},
         DecideGate(g, s, decision)
  PROVE  GateInv'
<1> USE DEF GateInv
<1>0. PICK w \in Works : w = gate[g].w
  BY DEF DecideGate, Decidable, GatesSound
<1> DEFINE row == [gate[g] EXCEPT !.status = decision, !.decision =
                     [gate[g].decision EXCEPT ![s] = decision]]
<1>1. /\ gate[g].status = "pending" /\ s \in gate[g].asked /\ work[w].status = "gated"
      /\ SetStatus(w, "active") /\ gate' = [gate EXCEPT ![g] = row]
      /\ UNCHANGED <<seen, policyVars>>
  BY <1>0 DEF DecideGate, Decidable
<1>2. gate[g].decision = [t \in Sponsors |-> "none"]
  BY <1>1 DEF GatesSound
<1>3. /\ row.status = decision /\ row.w = w /\ row.asked = gate[g].asked
      /\ row.decision = [[t \in Sponsors |-> "none"] EXCEPT ![s] = decision]
      /\ row \in [status : {"none", "pending", "approved", "rejected"},
                  w : Works \cup {None}, asked : SUBSET Sponsors,
                  decision : [Sponsors -> {"none", "approved", "rejected"}]]
  <2>1. gate[g] \in [status : {"none", "pending", "approved", "rejected"},
                  w : Works \cup {None}, asked : SUBSET Sponsors,
                  decision : [Sponsors -> {"none", "approved", "rejected"}]]
    BY DEF TypeOK
  <2> QED
    BY <1>0, <1>2, <2>1
<1>4. gate[g].w = w
  BY <1>0
<1> HIDE DEF row
<1>5. /\ SeenPast'
      /\ work' = [work EXCEPT ![w] = [status |-> "active", version |-> work[w].version + 1]]
      /\ work[w].version \in Nat
  BY <1>1, <1>2, SetStatusKept
<1>6. /\ \A x \in Works \ {w} : work'[x] = work[x]
      /\ work'[w] = [status |-> "active", version |-> work[w].version + 1]
      /\ DOMAIN work' = Works
      /\ gate'[g] = row /\ \A h \in Gates \ {g} : gate'[h] = gate[h]
  BY <1>1, <1>2, <1>5 DEF TypeOK
<1>7. /\ \A x \in Works \ {w} : Resolved(x)' = Resolved(x) /\ HeldGates(x)' = HeldGates(x)
      /\ HeldGates(w)' = HeldGates(w) \ {g} /\ Resolved(w)' = Resolved(w) \cup {g}
      /\ g \in HeldGates(w) /\ g \notin Resolved(w)
  BY <1>1, <1>2, <1>3, <1>4, <1>6 DEF HeldGates, Resolved
<1>8. Cardinality(Resolved(w)') = Cardinality(Resolved(w)) + 1
  BY <1>7, FS_AddElement, ResolvedCount
<1>9. GatesSound'
  <2>1. \E t \in row.asked : row.decision = [[x \in Sponsors |-> "none"] EXCEPT ![t] = row.status]
    BY <1>1, <1>3
  <2>2. ASSUME NEW h \in Gates, h # g
        PROVE  gate'[h] = gate[h]
    BY <1>6, <2>2
  <2>3. /\ gate'[g].status = decision /\ gate'[g].w \in Works
        /\ \E t \in gate'[g].asked :
             gate'[g].decision = [[x \in Sponsors |-> "none"] EXCEPT ![t] = gate'[g].status]
    BY <1>3, <1>6, <2>1
  <2> QED
    BY <2>2, <2>3 DEF GatesSound
<1>10. HeldByOne'
  BY <1>1, <1>2, <1>6, <1>7 DEF HeldByOne
<1>11. VersionsCount'
  <2>1. work'[w].version = 2 * Cardinality(Resolved(w)') + Base("active")
    BY <1>1, <1>2, <1>5, <1>6, <1>8, ResolvedCount DEF VersionsCount, Base
  <2>2. ASSUME NEW x \in Works, x # w
        PROVE  work'[x].version = 2 * Cardinality(Resolved(x)') + Base(work'[x].status)
    <3>1. work'[x] = work[x] /\ Resolved(x)' = Resolved(x)
      BY <1>6, <1>7, <2>2
    <3> QED
      BY <3>1 DEF VersionsCount
  <2>3. work'[w].status = "active"
    BY <1>6
  <2> QED
    BY <2>1, <2>2, <2>3 DEF VersionsCount
<1>12. TypeOK'
  <2>1. Cardinality(Resolved(w)') <= Cardinality(Gates) /\ Cardinality(Resolved(w)') \in Nat
    <3>1. Resolved(w)' \subseteq Gates
      BY DEF Resolved
    <3> QED
      BY <3>1, FS_Subset, FS_CardinalityType, LifecycleAssumption
  <2>2. work'[w].version \in 0..(4 + 2 * Cardinality(Gates))
    BY <1>2, <1>6, <1>11, <2>1, ResolvedCount DEF VersionsCount, Base
  <2>3. work' \in [Works -> WorkRow]
    BY <1>1, <1>5, <1>6, <2>2 DEF TypeOK, WorkRow
  <2>4. gate' \in [Gates -> [status : {"none", "pending", "approved", "rejected"},
                  w : Works \cup {None}, asked : SUBSET Sponsors,
                  decision : [Sponsors -> {"none", "approved", "rejected"}]]]
    BY <1>1, <1>3 DEF TypeOK
  <2> QED
    BY <1>1, <2>3, <2>4 DEF TypeOK, policyVars
<1> QED
  BY <1>5, <1>9, <1>10, <1>11, <1>12

-----------------------------------------------------------------------------
(* The retry policy *)

\* The seven attempts in the order the policy asks for them.
Order(stage, n) ==
  CASE stage = "technical" -> n [] stage = "pm_correction" -> 3 + n [] OTHER -> 6 + n

\* The failures of all attempts before the k-th, with the corrections they tried.
FailedBefore(k) ==
  {t \in Attempt :
     /\ t.n <= Limit(t.stage) /\ Order(t.stage, t.n) < k
     /\ t.outcome = "failed" /\ t.correction = IF t.stage = "pm_correction" THEN t.n ELSE 0}

\* The attempts of an incident that is not recovered are exactly the failures that led to
\* where it is, and its request says whether recovery was asked for and how it went.
HistoryExact ==
  \A c \in Incidents :
    /\ incident[c].status = "none" => attempts[c] = {} /\ request[c] = "none"
    /\ incident[c].status # "none" => incident[c].w \in Works
    /\ incident[c].status = "active" =>
         /\ incident[c].stage \in Stages /\ incident[c].n \in 1..Limit(incident[c].stage)
         /\ attempts[c] = FailedBefore(Order(incident[c].stage, incident[c].n))
         /\ request[c] = IF incident[c].stage = "recovery" THEN "pending" ELSE "none"
    /\ incident[c].status \in {"terminal_eligible", "terminal"} =>
         attempts[c] = FailedBefore(8) /\ request[c] = "failed"
    /\ incident[c].status = "recovered" => request[c] \in {"none", "succeeded"}
    /\ request[c] \in {"succeeded", "failed"} <=> \E t \in attempts[c] : t.stage = "recovery"

\* The incident still blocks its work.
Open(c) == incident[c].status \in {"active", "terminal_eligible"}

\* Work with an open incident is not over, and has no other; it ended in error by a terminal one.
WorkOpen ==
  /\ \A c \in Incidents : Open(c) => work[incident[c].w].status \in {"active", "gated"}
  /\ \A c, d \in Incidents : Open(c) /\ Open(d) /\ incident[c].w = incident[d].w => c = d
  /\ \A w \in Works : work[w].status = "error" =>
       \E c \in Incidents : incident[c].w = w /\ incident[c].status = "terminal"

\* The inductive invariant of the retry policy.
PolicyInv == TypeOK /\ HistoryExact /\ WorkOpen /\ NeverStranded

\* No incident was reported at first.
LEMMA PolicyBegins == LifecycleInit => PolicyInv
<1> SUFFICES ASSUME LifecycleInit PROVE PolicyInv
  OBVIOUS
<1>1. HistoryExact /\ WorkOpen /\ NeverStranded
  BY DEF LifecycleInit, NoIncident, NoWork, HistoryExact, WorkOpen, Open, NeverStranded
<1> QED
  BY <1>1, LifecycleBegins DEF PolicyInv, GateInv

\* There are m numbers from 1 to m.
LEMMA IntervalCount ==
  ASSUME NEW m \in Nat
  PROVE  Cardinality(1..m) = m
<1>1. Cardinality(1..m) = IF 1 > m THEN 0 ELSE m - 1 + 1
  BY FS_Interval
<1> QED
  BY <1>1

\* The corrections tried before the k-th attempt are as many as the attempts that need one.
LEMMA CorrectionsTried ==
  ASSUME NEW c \in Incidents, NEW k \in 1..8, attempts[c] = FailedBefore(k)
  PROVE  Instructed(c) = 1..(IF k <= 4 THEN 0 ELSE IF k <= 7 THEN k - 4 ELSE 3)
<1> DEFINE m == IF k <= 4 THEN 0 ELSE IF k <= 7 THEN k - 4 ELSE 3
<1>1. m \in 0..3
  OBVIOUS
<1>2. ASSUME NEW i \in Instructed(c)
      PROVE  i \in 1..m
  BY <1>2 DEF Instructed, FailedBefore, Attempt, Order, Stages, Limit
<1>3. ASSUME NEW i \in 1..m
      PROVE  i \in Instructed(c)
  <2> DEFINE t == [stage |-> "pm_correction", n |-> i, outcome |-> "failed", correction |-> i]
  <2>1. i \in 1..3 /\ 3 + i < k
    OBVIOUS
  <2>2. t \in Attempt /\ t.stage = "pm_correction" /\ t.n = i /\ t.outcome = "failed"
        /\ t.correction = i
    BY <2>1 DEF Attempt, Stages
  <2>3. t \in FailedBefore(k)
    BY <2>1, <2>2 DEF FailedBefore, Limit, Order
  <2> HIDE DEF t
  <2> QED
    BY <2>1, <2>2, <2>3 DEF Instructed
<1> QED
  BY <1>2, <1>3

\* One more failure is all the failures before the attempt after it.
LEMMA FailureAdded ==
  ASSUME NEW stage \in Stages, NEW n \in 1..Limit(stage), NEW t \in Attempt,
         t = [stage |-> stage, n |-> n, outcome |-> "failed",
              correction |-> IF stage = "pm_correction" THEN n ELSE 0]
  PROVE  FailedBefore(Order(stage, n)) \cup {t} = FailedBefore(Order(stage, n) + 1)
<1>1. t \in FailedBefore(Order(stage, n) + 1)
  BY DEF FailedBefore, Order, Limit, Stages
<1>2. FailedBefore(Order(stage, n)) \subseteq FailedBefore(Order(stage, n) + 1)
  BY DEF FailedBefore, Order, Limit, Stages, Attempt
<1>3. ASSUME NEW u \in FailedBefore(Order(stage, n) + 1), u \notin FailedBefore(Order(stage, n))
      PROVE  u = t
  <2>1. u \in Attempt /\ u.stage = stage /\ u.n = n
    BY <1>3 DEF FailedBefore, Order, Limit, Stages, Attempt
  <2>2. u.outcome = t.outcome /\ u.correction = t.correction
    BY <2>1 DEF FailedBefore
  <2> QED
    BY <2>1, <2>2 DEF Attempt
<1> QED
  BY <1>1, <1>2, <1>3

\* What holds of the work, its gates and its incidents at any time.
LifecycleInv == GateInv /\ PolicyInv

\* The rows that an incident's variable holds.
IncidentRow ==
  [w : Works \cup {None},
   status : {"none", "active", "recovered", "terminal_eligible", "terminal"},
   stage : Stages \cup {"none"}, n : 0..3]

\* What an attempt that is due stands for.
LEMMA DueAttempt ==
  ASSUME PolicyInv, NEW c \in Incidents, NEW stage \in Stages, NEW correction \in 0..3,
         Due(c, stage), Instructs(c, stage, correction)
  PROVE  /\ incident[c] \in IncidentRow /\ incident[c].stage = stage
         /\ incident[c].status = "active" /\ incident[c].w \in Works
         /\ incident[c].n \in 1..Limit(stage)
         /\ attempts[c] = FailedBefore(Order(stage, incident[c].n))
         /\ correction = IF stage = "pm_correction" THEN incident[c].n ELSE 0
<1>1. /\ incident[c] \in IncidentRow /\ incident[c].stage = stage
      /\ incident[c].status = "active" /\ incident[c].w \in Works
      /\ incident[c].n \in 1..Limit(stage)
      /\ attempts[c] = FailedBefore(Order(stage, incident[c].n))
  BY DEF PolicyInv, HistoryExact, TypeOK, IncidentRow, Due
<1>2. CASE stage = "pm_correction"
  <2>1. incident[c].n \in 1..3 /\ Order(stage, incident[c].n) = 3 + incident[c].n
    BY <1>1, <1>2 DEF Order, Limit
  <2>2. PICK k \in 1..8 : k = Order(stage, incident[c].n)
    BY <2>1
  <2>3. Instructed(c) = 1..(IF k <= 4 THEN 0 ELSE IF k <= 7 THEN k - 4 ELSE 3)
    BY <1>1, <2>2, CorrectionsTried
  <2>4. (IF k <= 4 THEN 0 ELSE IF k <= 7 THEN k - 4 ELSE 3) = incident[c].n - 1
    BY <2>1, <2>2
  <2>5. Cardinality(1..(incident[c].n - 1)) = incident[c].n - 1
    BY <2>1, IntervalCount
  <2>6. Cardinality(Instructed(c)) = incident[c].n - 1
    BY <2>3, <2>4, <2>5
  <2> QED
    BY <1>1, <1>2, <2>1, <2>6 DEF Instructs
<1>3. CASE stage # "pm_correction"
  BY <1>1, <1>3 DEF Instructs
<1> QED
  BY <1>2, <1>3

\* The attempt that is recorded.
LEMMA RecordedTyped ==
  ASSUME PolicyInv, NEW c \in Incidents, NEW stage \in Stages, NEW correction \in 0..3,
         Due(c, stage), Instructs(c, stage, correction),
         NEW outcome \in {"succeeded", "failed"}, Recorded(c, outcome, correction)
  PROVE  /\ attempts' \in [Incidents -> SUBSET Attempt]
         /\ \A d \in Incidents \ {c} : attempts'[d] = attempts[d]
         /\ \E t \in Attempt :
              /\ attempts'[c] = attempts[c] \cup {t} /\ t.stage = stage /\ t.outcome = outcome
              /\ outcome = "failed" =>
                   attempts'[c] = FailedBefore(Order(stage, incident[c].n) + 1)
<1> DEFINE t == [stage |-> stage, n |-> incident[c].n, outcome |-> outcome,
                 correction |-> correction]
<1>1. /\ incident[c].stage = stage /\ incident[c].n \in 1..Limit(stage)
      /\ attempts[c] = FailedBefore(Order(stage, incident[c].n))
      /\ correction = IF stage = "pm_correction" THEN incident[c].n ELSE 0
  BY DueAttempt
<1>2. t \in Attempt
  BY <1>1 DEF Attempt, Limit
<1>3. attempts' = [attempts EXCEPT ![c] = attempts[c] \cup {t}]
  BY <1>1 DEF Recorded
<1>4. attempts \in [Incidents -> SUBSET Attempt]
  BY DEF PolicyInv, TypeOK
<1>5. outcome = "failed" => attempts[c] \cup {t} = FailedBefore(Order(stage, incident[c].n) + 1)
  BY <1>1, <1>2, FailureAdded
<1>6. t.stage = stage /\ t.outcome = outcome
  OBVIOUS
<1> HIDE DEF t
<1>7. attempts'[c] = attempts[c] \cup {t}
  BY <1>3, <1>4
<1>8. attempts' \in [Incidents -> SUBSET Attempt]
  BY <1>2, <1>3, <1>4
<1>9. \A d \in Incidents \ {c} : attempts'[d] = attempts[d]
  BY <1>3, <1>4
<1> QED
  BY <1>2, <1>5, <1>6, <1>7, <1>8, <1>9

\* What does not touch work, what was read and gates keeps the part of the invariant about them.
LEMMA GatesUntouched ==
  ASSUME GateInv, UNCHANGED <<work, seen, gate>>, PolicyTyped'
  PROVE  GateInv'
<1>1. TypeOK' /\ GatesSound'
  BY DEF GateInv, TypeOK, PolicyTyped, GatesSound, WorkRow
<1>2. HeldByOne' /\ VersionsCount' /\ SeenPast'
  BY DEF GateInv, HeldByOne, VersionsCount, SeenPast, HeldGates, Resolved
<1> QED
  BY <1>1, <1>2 DEF GateInv

\* A failure before recovery calls for the next attempt, and routes it or asks for recovery.
LEMMA AttemptFailedKept ==
  ASSUME LifecycleInv, NEW c \in Incidents, NEW stage \in Stages, NEW correction \in 0..3,
         AttemptFailed(c, stage, correction)
  PROVE  LifecycleInv'
<1> USE DEF LifecycleInv
<1> DEFINE to == NextAttempt(c)
           n == incident[c].n
           row == [[incident[c] EXCEPT !.stage = to.stage] EXCEPT !.n = to.n]
<1>1. /\ incident[c] \in IncidentRow /\ incident[c].stage = stage
      /\ incident[c].status = "active" /\ incident[c].w \in Works
      /\ n \in 1..3 /\ stage \in {"technical", "pm_correction"} /\ Limit(stage) = 3
      /\ UNCHANGED <<work, seen, gate, routable>>
  BY DueAttempt DEF AttemptFailed, Stages, Limit
<1>2. /\ attempts' \in [Incidents -> SUBSET Attempt]
      /\ \A d \in Incidents \ {c} : attempts'[d] = attempts[d]
      /\ attempts'[c] = FailedBefore(Order(stage, n) + 1)
  BY RecordedTyped DEF AttemptFailed
<1>3. /\ to = IF n < 3 THEN [stage |-> stage, n |-> n + 1]
               ELSE [stage |-> IF stage = "technical" THEN "pm_correction" ELSE "recovery", n |-> 1]
      /\ to.stage \in Stages /\ to.n \in 1..Limit(to.stage) /\ to.n \in 0..3
      /\ Order(to.stage, to.n) = Order(stage, n) + 1
  <2>1. to = IF n < 3 THEN [stage |-> stage, n |-> n + 1]
               ELSE [stage |-> IF stage = "technical" THEN "pm_correction" ELSE "recovery", n |-> 1]
    BY <1>1 DEF NextAttempt
  <2> HIDE DEF to
  <2> QED
    BY <1>1, <2>1 DEF Order, Limit, Stages
<1>4. /\ row \in IncidentRow /\ row.w = incident[c].w /\ row.status = "active"
      /\ row.stage = to.stage /\ row.n = to.n
  <2> HIDE DEF to
  <2> QED
    BY <1>1, <1>3 DEF IncidentRow
<1>5. /\ incident' = [incident EXCEPT ![c] = row]
      /\ incident \in [Incidents -> IncidentRow]
  BY DEF AttemptFailed, Advance, PolicyInv, TypeOK, IncidentRow
<1>6. /\ to.stage = "recovery" =>
           request' = [request EXCEPT ![c] = "pending"] /\ routed' = routed
      /\ to.stage # "recovery" =>
           request' = request /\ routed' = routed \cup {Envelope(c, to.stage, to.n)}
  BY DEF AttemptFailed, Routes
<1> HIDE DEF to, row, n
<1>7. /\ incident' \in [Incidents -> IncidentRow] /\ incident'[c] = row
      /\ \A d \in Incidents \ {c} : incident'[d] = incident[d]
  BY <1>4, <1>5
<1>8. /\ request' \in [Incidents -> {"none", "pending", "succeeded", "failed"}]
      /\ request'[c] = IF to.stage = "recovery" THEN "pending" ELSE "none"
      /\ \A d \in Incidents \ {c} : request'[d] = request[d]
  BY <1>1, <1>6 DEF PolicyInv, TypeOK, HistoryExact
<1>9. /\ routed' \subseteq Envelopes /\ routed \subseteq routed'
      /\ to.stage # "recovery" => Envelope(c, to.stage, to.n) \in routed'
  <2>1. to.stage # "recovery" => Envelope(c, to.stage, to.n) \in Envelopes
    BY <1>3 DEF Envelope, Envelopes, Limit, Stages
  <2> QED
    BY <1>6, <2>1 DEF PolicyInv, TypeOK
<1>10. PolicyTyped'
  BY <1>1, <1>2, <1>7, <1>8, <1>9 DEF PolicyTyped, PolicyInv, TypeOK, IncidentRow
<1>11. GateInv'
  BY <1>1, <1>10, GatesUntouched
<1>12. HistoryExact'
  <2>1. ASSUME NEW t \in attempts'[c]
        PROVE  t.stage # "recovery"
    BY <1>1, <1>2, <2>1 DEF FailedBefore, Order, Attempt
  <2>2. \A d \in Incidents \ {c} :
          /\ incident'[d] = incident[d] /\ attempts'[d] = attempts[d] /\ request'[d] = request[d]
    BY <1>2, <1>7, <1>8
  <2>3. /\ incident'[c].status = "active" /\ incident'[c].w \in Works
        /\ incident'[c].stage \in Stages /\ incident'[c].n \in 1..Limit(incident'[c].stage)
        /\ attempts'[c] = FailedBefore(Order(incident'[c].stage, incident'[c].n))
        /\ request'[c] = IF incident'[c].stage = "recovery" THEN "pending" ELSE "none"
    BY <1>1, <1>2, <1>3, <1>4, <1>7, <1>8
  <2>4. request'[c] \notin {"succeeded", "failed"}
    BY <1>8
  <2> QED
    BY <2>1, <2>2, <2>3, <2>4 DEF HistoryExact, PolicyInv
<1>13. WorkOpen'
  BY <1>1, <1>4, <1>7 DEF WorkOpen, Open, PolicyInv
<1>14. NeverStranded'
  BY <1>3, <1>4, <1>7, <1>8, <1>9 DEF NeverStranded, PolicyInv
<1> QED
  BY <1>11, <1>12, <1>13, <1>14 DEF GateInv, PolicyInv

\* The row of an incident that is over.
LEMMA ClosedRow ==
  ASSUME TypeOK, NEW c \in Incidents, NEW status,
         incident' = [incident EXCEPT ![c].status = status, ![c].stage = "none", ![c].n = 0]
  PROVE  incident' = [incident EXCEPT ![c] =
                        [w |-> incident[c].w, status |-> status, stage |-> "none", n |-> 0]]
<1> DEFINE row == [w |-> incident[c].w, status |-> status, stage |-> "none", n |-> 0]
<1>1. incident[c] \in [w : Works \cup {None}, status : {"none", "active", "recovered",
        "terminal_eligible", "terminal"}, stage : Stages \cup {"none"}, n : 0..3]
  BY DEF TypeOK
<1>2. PICK one : one = [incident[c] EXCEPT !.status = status]
  OBVIOUS
<1>3. one = [w |-> incident[c].w, status |-> status, stage |-> incident[c].stage,
             n |-> incident[c].n]
  BY <1>1, <1>2
<1>4. PICK two : two = [one EXCEPT !.stage = "none"]
  OBVIOUS
<1>5. two = [w |-> incident[c].w, status |-> status, stage |-> "none", n |-> incident[c].n]
  BY <1>3, <1>4
<1>6. [two EXCEPT !.n = 0] = row
  BY <1>5
<1>7. [[[incident[c] EXCEPT !.status = status] EXCEPT !.stage = "none"] EXCEPT !.n = 0] = row
  BY <1>2, <1>4, <1>6
<1> HIDE DEF row
<1>8. incident' = [incident EXCEPT ![c] = row]
  BY <1>7 DEF TypeOK
<1> QED
  BY <1>8 DEF row

\* The statuses of an incident and its work that an attempt's outcome leads to.
Closing(stage, outcome) ==
  IF stage = "recovery" /\ outcome = "failed" THEN "terminal_eligible" ELSE "recovered"

\* An attempt that is not followed by another one closes its incident: recovered, or
\* exhausted by the failure of the last.
LEMMA CloseKept ==
  ASSUME LifecycleInv, NEW c \in Incidents, NEW stage \in Stages, NEW correction \in 0..3,
         Due(c, stage), Instructs(c, stage, correction),
         NEW outcome \in {"succeeded", "failed"}, Recorded(c, outcome, correction),
         Close(c, Closing(stage, outcome)),
         request' = [request EXCEPT ![c] = IF stage = "recovery" THEN outcome ELSE "none"],
         routed \subseteq routed', routed' \subseteq Envelopes,
         stage = "recovery" /\ outcome = "succeeded" => Resume(c) \in routed',
         UNCHANGED <<work, seen, gate, routable>>
  PROVE  LifecycleInv'
<1> USE DEF LifecycleInv
<1>0. PICK status \in {"recovered", "terminal_eligible"},
           result \in {"none", "succeeded", "failed"} :
        /\ Close(c, status) /\ request' = [request EXCEPT ![c] = result]
        /\ status = "terminal_eligible" <=> stage = "recovery" /\ outcome = "failed"
        /\ result = IF stage = "recovery" THEN outcome ELSE "none"
        /\ result = "succeeded" => Resume(c) \in routed'
  BY DEF Closing
<1> DEFINE row == [w |-> incident[c].w, status |-> status, stage |-> "none", n |-> 0]
<1>1. /\ incident[c] \in IncidentRow /\ incident[c].stage = stage
      /\ incident[c].status = "active" /\ incident[c].w \in Works
      /\ incident[c].n \in 1..Limit(stage)
      /\ attempts[c] = FailedBefore(Order(stage, incident[c].n))
  BY DueAttempt
<1>2. /\ attempts' \in [Incidents -> SUBSET Attempt]
      /\ \A d \in Incidents \ {c} : attempts'[d] = attempts[d]
  BY RecordedTyped
<1>3. PICK t \in Attempt :
        /\ attempts'[c] = attempts[c] \cup {t} /\ t.stage = stage /\ t.outcome = outcome
        /\ outcome = "failed" =>
             attempts'[c] = FailedBefore(Order(stage, incident[c].n) + 1)
  BY RecordedTyped
<1>4. /\ row \in IncidentRow /\ row.w = incident[c].w /\ row.status = status
      /\ row.stage = "none" /\ row.n = 0
  BY <1>0, <1>1 DEF IncidentRow
<1>5. /\ incident' = [incident EXCEPT ![c] = row]
      /\ incident \in [Incidents -> IncidentRow]
  <2>1. incident' = [incident EXCEPT ![c].status = status, ![c].stage = "none", ![c].n = 0]
    BY <1>0 DEF Close
  <2>2. incident \in [Incidents -> IncidentRow]
    BY DEF PolicyInv, TypeOK, IncidentRow
  <2> QED
    BY <2>1, <2>2, ClosedRow DEF PolicyInv
<1> HIDE DEF row
<1>6. /\ incident' \in [Incidents -> IncidentRow] /\ incident'[c] = row
      /\ \A d \in Incidents \ {c} : incident'[d] = incident[d]
  BY <1>4, <1>5
<1>7. /\ request' \in [Incidents -> {"none", "pending", "succeeded", "failed"}]
      /\ request'[c] = result /\ \A d \in Incidents \ {c} : request'[d] = request[d]
  BY <1>0 DEF PolicyInv, TypeOK
<1>8. PolicyTyped'
  BY <1>2, <1>6, <1>7 DEF PolicyTyped, PolicyInv, TypeOK, IncidentRow
<1>9. GateInv'
  BY <1>8, GatesUntouched
<1>10. HistoryExact'
  <2>1. ASSUME NEW u \in attempts[c]
        PROVE  u.stage # "recovery"
    BY <1>1, <2>1 DEF FailedBefore, Order, Attempt, Limit, Stages
  <2>2. \A d \in Incidents \ {c} :
          /\ incident'[d] = incident[d] /\ attempts'[d] = attempts[d] /\ request'[d] = request[d]
    BY <1>2, <1>6, <1>7
  <2>3. request'[c] \in {"succeeded", "failed"} <=> \E u \in attempts'[c] : u.stage = "recovery"
    BY <1>0, <1>3, <1>7, <2>1
  <2>4. status = "terminal_eligible" => attempts'[c] = FailedBefore(8) /\ request'[c] = "failed"
    <3>1. stage = "recovery" => Order(stage, incident[c].n) + 1 = 8
      BY <1>1 DEF Order, Limit
    <3> QED
      BY <1>0, <1>3, <1>7, <3>1
  <2>5. status = "recovered" => request'[c] \in {"none", "succeeded"}
    BY <1>0, <1>7
  <2>6. incident'[c].w \in Works /\ incident'[c].status = status
    BY <1>1, <1>4, <1>6
  <2> QED
    BY <2>2, <2>3, <2>4, <2>5, <2>6 DEF HistoryExact, PolicyInv
<1>11. WorkOpen'
  BY <1>0, <1>1, <1>4, <1>6 DEF WorkOpen, Open, PolicyInv
<1>12. NeverStranded'
  BY <1>0, <1>4, <1>6, <1>7 DEF NeverStranded, PolicyInv
<1> QED
  BY <1>9, <1>10, <1>11, <1>12 DEF GateInv, PolicyInv

\* A retry or a correction that succeeds closes its incident as recovered.
LEMMA AttemptSucceededKept ==
  ASSUME LifecycleInv, NEW c \in Incidents, NEW stage \in Stages, NEW correction \in 0..3,
         AttemptSucceeded(c, stage, correction)
  PROVE  LifecycleInv'
<1>1. request[c] = "none"
  BY DEF AttemptSucceeded, Due, LifecycleInv, PolicyInv, HistoryExact
<1>2. request' = [request EXCEPT ![c] = "none"] /\ routed' = routed /\ routed \subseteq Envelopes
  BY <1>1 DEF AttemptSucceeded, LifecycleInv, PolicyInv, TypeOK
<1>3. Closing(stage, "succeeded") = "recovered" /\ stage # "recovery"
  BY DEF AttemptSucceeded, Closing
<1> QED
  BY <1>2, <1>3, CloseKept DEF AttemptSucceeded

\* A recovery that fails makes its incident eligible for the terminal error.
LEMMA RecoveryFailedKept ==
  ASSUME LifecycleInv, NEW c \in Incidents, RecoveryFailed(c)
  PROVE  LifecycleInv'
<1>1. PICK stage \in Stages : stage = "recovery"
  BY DEF Stages
<1>2. PICK outcome \in {"succeeded", "failed"} : outcome = "failed"
  OBVIOUS
<1>3. /\ Due(c, stage) /\ Instructs(c, stage, 0) /\ Recorded(c, outcome, 0)
      /\ Close(c, Closing(stage, outcome))
      /\ request' = [request EXCEPT ![c] = IF stage = "recovery" THEN outcome ELSE "none"]
      /\ routed \subseteq routed' /\ routed' \subseteq Envelopes
      /\ UNCHANGED <<work, seen, gate, routable>>
  BY <1>1, <1>2 DEF RecoveryFailed, Closing, Instructs, LifecycleInv, PolicyInv, TypeOK
<1>4. ~(stage = "recovery" /\ outcome = "succeeded")
  BY <1>2
<1>5. PICK correction \in 0..3 : correction = 0
  OBVIOUS
<1> QED
  BY <1>3, <1>4, <1>5, CloseKept

\* A recovery that succeeds closes its incident and resumes the work.
LEMMA RecoverySucceededKept ==
  ASSUME LifecycleInv, NEW c \in Incidents, RecoverySucceeded(c)
  PROVE  LifecycleInv'
<1>1. PICK stage \in Stages : stage = "recovery"
  BY DEF Stages
<1>2. PICK outcome \in {"succeeded", "failed"} : outcome = "succeeded"
  OBVIOUS
<1>3. Resume(c) \in Envelopes /\ routed' = routed \cup {Resume(c)} /\ routed \subseteq Envelopes
  BY DEF Resume, Envelopes, RecoverySucceeded, Routes, LifecycleInv, PolicyInv, TypeOK
<1>4. /\ Due(c, stage) /\ Instructs(c, stage, 0) /\ Recorded(c, outcome, 0)
      /\ Close(c, Closing(stage, outcome))
      /\ request' = [request EXCEPT ![c] = IF stage = "recovery" THEN outcome ELSE "none"]
      /\ UNCHANGED <<work, seen, gate, routable>>
  BY <1>1, <1>2 DEF RecoverySucceeded, Closing, Instructs
<1>5. PICK correction \in 0..3 : correction = 0
  OBVIOUS
<1>6. routed \subseteq routed' /\ routed' \subseteq Envelopes /\ Resume(c) \in routed'
  BY <1>3
<1> QED
  BY <1>4, <1>5, <1>6, CloseKept

\* A new incident of active work asks for the first attempt.
LEMMA StartKept ==
  ASSUME LifecycleInv, NEW c \in Incidents, NEW w \in Works, Start(c, w)
  PROVE  LifecycleInv'
<1> USE DEF LifecycleInv
<1> DEFINE row == [w |-> w, status |-> "active", stage |-> "technical", n |-> 1]
<1>1. /\ incident[c].status = "none" /\ work[w].status = "active"
      /\ incident' = [incident EXCEPT ![c] = row]
      /\ routed' = routed \cup {Envelope(c, "technical", 1)}
      /\ UNCHANGED <<work, seen, gate, attempts, request, routable>>
  BY DEF Start, Routes
<1>2. row \in IncidentRow
  BY DEF IncidentRow, Stages
<1>3. /\ incident' \in [Incidents -> IncidentRow] /\ incident'[c] = row
      /\ \A d \in Incidents \ {c} : incident'[d] = incident[d]
  BY <1>1, <1>2 DEF PolicyInv, TypeOK, IncidentRow
<1>4. attempts[c] = {} /\ request[c] = "none"
  BY <1>1 DEF PolicyInv, HistoryExact
<1>5. FailedBefore(Order("technical", 1)) = {}
  BY DEF FailedBefore, Order, Attempt, Stages, Limit
<1>6. routed' \subseteq Envelopes /\ routed \subseteq routed'
  BY <1>1 DEF PolicyInv, TypeOK, Envelope, Envelopes, Stages
<1>7. PolicyTyped'
  BY <1>1, <1>3, <1>6 DEF PolicyTyped, PolicyInv, TypeOK, IncidentRow
<1>8. GateInv'
  BY <1>1, <1>7, GatesUntouched
<1>9. HistoryExact'
  <2>1. \A d \in Incidents \ {c} :
          /\ incident'[d] = incident[d] /\ attempts'[d] = attempts[d] /\ request'[d] = request[d]
    BY <1>1, <1>3
  <2>2. /\ incident'[c].status = "active" /\ incident'[c].w \in Works
        /\ incident'[c].stage = "technical" /\ incident'[c].n = 1
        /\ attempts'[c] = FailedBefore(Order("technical", 1)) /\ request'[c] = "none"
        /\ ~\E t \in attempts'[c] : t.stage = "recovery"
    BY <1>1, <1>3, <1>4, <1>5
  <2>3. "technical" \in Stages /\ 1 \in 1..Limit("technical")
    BY DEF Stages, Limit
  <2> QED
    BY <2>1, <2>2, <2>3 DEF HistoryExact, PolicyInv
<1>10. WorkOpen'
  <2>1. \A d \in Incidents : Open(d) => incident[d].w # w
    BY DEF Start, Unresolved, Open
  <2> QED
    BY <1>1, <1>3, <2>1 DEF WorkOpen, Open, PolicyInv
<1>11. NeverStranded'
  BY <1>1, <1>3, <1>4, <1>6 DEF NeverStranded, PolicyInv
<1> QED
  BY <1>8, <1>9, <1>10, <1>11 DEF GateInv, PolicyInv

\* An exhausted incident is consumed by the terminal error of its work.
LEMMA FailKept ==
  ASSUME LifecycleInv, NEW a \in Callers, NEW c \in Incidents, Fail(a, c)
  PROVE  LifecycleInv'
<1> USE DEF LifecycleInv
<1>1. PICK w \in Works : w = seen[a].w
  BY DEF Fail, Fresh, GateInv, TypeOK
<1>2. /\ work[w].status = "active" /\ SetStatus(w, "error")
      /\ incident[c].w = w /\ incident[c].status = "terminal_eligible"
      /\ UNCHANGED <<seen, gate, attempts, request, routed, routable>>
  BY <1>1 DEF Fail, Exhausted, Unresolved
<1> DEFINE row == [w |-> incident[c].w, status |-> "terminal", stage |-> "none", n |-> 0]
<1>3. incident' = [incident EXCEPT ![c] = row] /\ incident \in [Incidents -> IncidentRow]
  <2>1. incident' = [incident EXCEPT ![c].status = "terminal", ![c].stage = "none", ![c].n = 0]
    BY DEF Fail
  <2> QED
    BY <2>1, ClosedRow DEF PolicyInv, TypeOK, IncidentRow
<1>4. row \in IncidentRow /\ row.w = w /\ row.status = "terminal" /\ row.stage = "none"
  BY <1>2 DEF IncidentRow
<1> HIDE DEF row
<1>5. /\ incident' \in [Incidents -> IncidentRow] /\ incident'[c] = row
      /\ \A d \in Incidents \ {c} : incident'[d] = incident[d]
  BY <1>3, <1>4
<1>6. PolicyTyped'
  BY <1>2, <1>5 DEF PolicyTyped, PolicyInv, TypeOK, IncidentRow
<1>7. GateInv'
  BY <1>2, <1>6, StatusKept DEF Base
<1>8. /\ work'[w].status = "error" /\ \A x \in Works \ {w} : work'[x] = work[x]
  BY <1>2 DEF SetStatus, GateInv, TypeOK
<1>9. HistoryExact'
  BY <1>2, <1>4, <1>5 DEF HistoryExact, PolicyInv
<1>10. WorkOpen'
  <2>1. \A d \in Incidents \ {c} : Open(d) => incident[d].w \in Works \ {w}
    BY <1>2 DEF WorkOpen, Open, PolicyInv, HistoryExact
  <2> QED
    BY <1>2, <1>4, <1>5, <1>8, <2>1 DEF WorkOpen, Open, PolicyInv
<1>11. NeverStranded'
  BY <1>2, <1>4, <1>5 DEF NeverStranded, PolicyInv
<1> QED
  BY <1>7, <1>9, <1>10, <1>11 DEF GateInv, PolicyInv

\* Steps of the work and of callers, which leave the policy alone.
LEMMA PolicyUntouched ==
  ASSUME LifecycleInv, GateInv', UNCHANGED policyVars, NEW w \in Works,
         \A x \in Works \ {w} : work'[x] = work[x],
         (\E c \in Incidents : Open(c) /\ incident[c].w = w) =>
           work'[w].status \in {"active", "gated"},
         work'[w].status = "error" => work[w].status = "error"
  PROVE  LifecycleInv'
<1> USE DEF LifecycleInv
<1>1. HistoryExact' /\ NeverStranded'
  BY DEF HistoryExact, NeverStranded, PolicyInv, policyVars
<1>2. WorkOpen'
  <2>1. \A c \in Incidents : Open(c) => incident[c].w \in Works
    BY DEF PolicyInv, HistoryExact, Open
  <2> QED
    BY <2>1 DEF WorkOpen, Open, PolicyInv, policyVars
<1> QED
  BY <1>1, <1>2 DEF GateInv, PolicyInv

\* Every step keeps the invariant.
LEMMA LifecycleKept ==
  ASSUME LifecycleInv, [PolicyNext]_lifecycleVars
  PROVE  LifecycleInv'
<1>0. PolicyTyped
  BY DEF LifecycleInv, PolicyInv, TypeOK, PolicyTyped
<1>1. ASSUME NEW w \in Works, CreateWorkItem(w) PROVE LifecycleInv'
  <2>1. GateInv'
    BY <1>0, <1>1, StatusKept DEF CreateWorkItem, policyVars, PolicyTyped, Base, LifecycleInv
  <2>2. /\ \A x \in Works \ {w} : work'[x] = work[x]
        /\ work'[w].status = "new" /\ work[w].status = "none" /\ UNCHANGED policyVars
    BY <1>1 DEF CreateWorkItem, SetStatus, LifecycleInv, GateInv, TypeOK
  <2> QED
    BY <2>1, <2>2, PolicyUntouched DEF LifecycleInv, PolicyInv, WorkOpen
<1>2. ASSUME NEW a \in Callers, NEW w \in Works, Read(a, w) PROVE LifecycleInv'
  <2>1. /\ seen' = [seen EXCEPT ![a] = [w |-> w, row |-> work[w]]]
        /\ UNCHANGED <<work, gate, incident, attempts, request, routed, routable>>
    BY <1>2 DEF Read, policyVars
  <2>2. TypeOK' /\ GatesSound' /\ HeldByOne' /\ VersionsCount'
    <3>1. [w |-> w, row |-> work[w]] \in [w : Works \cup {None}, row : WorkRow]
      BY DEF LifecycleInv, GateInv, TypeOK
    <3>2. seen' \in [Callers -> [w : Works \cup {None}, row : WorkRow]]
      BY <2>1, <3>1 DEF LifecycleInv, GateInv, TypeOK
    <3>3. TypeOK'
      BY <2>1, <3>2 DEF LifecycleInv, GateInv, TypeOK
    <3> QED
      BY <2>1, <3>3
      DEF LifecycleInv, GateInv, GatesSound, HeldByOne, VersionsCount, HeldGates, Resolved
  <2>3. SeenPast'
    <3>1. work[w].version \in Nat
      BY ResolvedCount DEF LifecycleInv, GateInv, TypeOK, WorkRow
    <3>2. /\ seen'[a].w = w /\ seen'[a].row = work[w]
          /\ \A b \in Callers \ {a} : seen'[b] = seen[b]
      BY <2>1 DEF LifecycleInv, GateInv, TypeOK
    <3> QED
      BY <2>1, <3>1, <3>2 DEF LifecycleInv, GateInv, SeenPast
  <2>4. HistoryExact' /\ WorkOpen' /\ NeverStranded'
    BY <2>1 DEF LifecycleInv, PolicyInv, HistoryExact, WorkOpen, Open, NeverStranded
  <2> QED
    BY <2>2, <2>3, <2>4 DEF LifecycleInv, GateInv, PolicyInv
<1>3. ASSUME NEW a \in Callers, Activate(a) PROVE LifecycleInv'
  <2>1. PICK w \in Works : w = seen[a].w
    BY <1>3 DEF Activate, Fresh, LifecycleInv, GateInv, TypeOK
  <2>2. GateInv'
    BY <1>0, <1>3, <2>1, StatusKept DEF Activate, policyVars, PolicyTyped, Base, LifecycleInv
  <2>3. /\ \A x \in Works \ {w} : work'[x] = work[x]
        /\ work'[w].status = "active" /\ UNCHANGED policyVars
    BY <1>3, <2>1 DEF Activate, SetStatus, LifecycleInv, GateInv, TypeOK
  <2> QED
    BY <2>2, <2>3, PolicyUntouched
<1>4. ASSUME NEW a \in Callers, Complete(a) PROVE LifecycleInv'
  <2>1. PICK w \in Works : w = seen[a].w
    BY <1>4 DEF Complete, Fresh, LifecycleInv, GateInv, TypeOK
  <2>2. GateInv'
    BY <1>0, <1>4, <2>1, StatusKept DEF Complete, policyVars, PolicyTyped, Base, LifecycleInv
  <2>3. /\ \A x \in Works \ {w} : work'[x] = work[x]
        /\ work'[w].status = "completed" /\ UNCHANGED policyVars
    BY <1>4, <2>1 DEF Complete, SetStatus, LifecycleInv, GateInv, TypeOK
  <2>4. \A c \in Incidents : Open(c) => incident[c].w # w
    BY <1>4, <2>1 DEF Complete, Completable, Unresolved, Open
  <2> QED
    BY <2>2, <2>3, <2>4, PolicyUntouched
<1>5. ASSUME NEW a \in Callers, NEW g \in Gates, NEW asked \in SUBSET Sponsors,
             OpenGate(a, g, asked)
      PROVE  LifecycleInv'
  <2>1. PICK w \in Works : w = seen[a].w
    BY <1>5 DEF OpenGate, Fresh, LifecycleInv, GateInv, TypeOK
  <2>2. GateInv'
    BY <1>5, OpenGateKept DEF LifecycleInv
  <2>3. /\ \A x \in Works \ {w} : work'[x] = work[x]
        /\ work'[w].status = "gated" /\ UNCHANGED policyVars
    BY <1>5, <2>1 DEF OpenGate, SetStatus, LifecycleInv, GateInv, TypeOK
  <2> QED
    BY <2>2, <2>3, PolicyUntouched
<1>6. ASSUME NEW g \in Gates, NEW s \in Sponsors, NEW decision \in {"approved", "rejected"},
             DecideGate(g, s, decision)
      PROVE  LifecycleInv'
  <2>1. PICK w \in Works : w = gate[g].w
    BY <1>6 DEF DecideGate, Decidable, GatesSound, LifecycleInv, GateInv
  <2>2. GateInv'
    BY <1>6, DecideGateKept DEF LifecycleInv
  <2>3. /\ \A x \in Works \ {w} : work'[x] = work[x]
        /\ work'[w].status = "active" /\ UNCHANGED policyVars
    BY <1>6, <2>1 DEF DecideGate, SetStatus, LifecycleInv, GateInv, TypeOK
  <2> QED
    BY <2>2, <2>3, PolicyUntouched
<1>7. ASSUME NEW role \in {"owner", "pm"}, SetRoutable(role) PROVE LifecycleInv'
  <2>1. /\ UNCHANGED <<work, seen, gate, incident, attempts, request, routed>>
        /\ routable' \in SUBSET {"owner", "pm"}
    BY <1>7 DEF SetRoutable, LifecycleInv, PolicyInv, TypeOK
  <2>2. GateInv'
    BY <1>0, <2>1, GatesUntouched DEF PolicyTyped, LifecycleInv
  <2>3. HistoryExact' /\ WorkOpen' /\ NeverStranded'
    BY <2>1 DEF LifecycleInv, PolicyInv, HistoryExact, WorkOpen, Open, NeverStranded
  <2> QED
    BY <2>2, <2>3 DEF LifecycleInv, GateInv, PolicyInv
<1>8. CASE UNCHANGED lifecycleVars
  <2>1. GateInv'
    BY <1>0, <1>8, GatesUntouched DEF PolicyTyped, LifecycleInv, lifecycleVars
  <2>2. HistoryExact' /\ WorkOpen' /\ NeverStranded'
    BY <1>8
    DEF LifecycleInv, PolicyInv, HistoryExact, WorkOpen, Open, NeverStranded, lifecycleVars
  <2> QED
    BY <2>1, <2>2 DEF LifecycleInv, GateInv, PolicyInv
<1> QED
  BY <1>1, <1>2, <1>3, <1>4, <1>5, <1>6, <1>7, <1>8, FailKept, StartKept, AttemptFailedKept,
     AttemptSucceededKept, RecoveryFailedKept, RecoverySucceededKept
  DEF PolicyNext, LifecycleNext

-----------------------------------------------------------------------------
(* What follows from the invariant *)

\* One gate holds gated work, which is the count of one.
LEMMA GatesHold == GateInv => GateHoldsWork
<1> SUFFICES ASSUME GateInv PROVE GateHoldsWork
  OBVIOUS
<1>1. \A w \in Works : Cardinality(HeldGates(w)) = IF work[w].status = "gated" THEN 1 ELSE 0
  BY FS_EmptySet, FS_Singleton DEF GateInv, HeldByOne
<1>2. \A a \in Callers : seen[a].w # None /\ seen[a].row.version = work[seen[a].w].version =>
        seen[a].row = work[seen[a].w]
  BY DEF GateInv, SeenPast
<1>3. \A g \in Gates : gate[g].status \in {"approved", "rejected"} =>
       \E s \in gate[g].asked :
         gate[g].decision = [[t \in Sponsors |-> "none"] EXCEPT ![s] = gate[g].status]
  BY DEF GateInv, GatesSound
<1> QED
  BY <1>1, <1>2, <1>3 DEF GateHoldsWork, HeldGates

\* The attempts of a terminal incident are all there are, and their corrections differ.
LEMMA ErrorsEarned == PolicyInv => TerminalEarned
<1> SUFFICES ASSUME PolicyInv PROVE TerminalEarned
  OBVIOUS
<1>1. ASSUME NEW w \in Works, work[w].status = "error"
      PROVE  \E c \in Incidents :
         /\ incident[c].w = w /\ incident[c].status = "terminal" /\ request[c] = "failed"
         /\ {<<t.stage, t.n>> : t \in attempts[c]} =
              ({"technical", "pm_correction"} \X (1..3)) \cup {<<"recovery", 1>>}
         /\ \A t \in attempts[c] : t.outcome = "failed"
         /\ Cardinality(Instructed(c)) = 3
  <2>1. PICK c \in Incidents : incident[c].w = w /\ incident[c].status = "terminal"
    BY <1>1 DEF PolicyInv, WorkOpen
  <2>2. attempts[c] = FailedBefore(8) /\ request[c] = "failed"
    BY <2>1 DEF PolicyInv, HistoryExact
  <2>3. Cardinality(Instructed(c)) = 3
    <3>1. PICK k \in 1..8 : k = 8
      OBVIOUS
    <3>2. Instructed(c) = 1..(IF k <= 4 THEN 0 ELSE IF k <= 7 THEN k - 4 ELSE 3)
      BY <2>2, <3>1, CorrectionsTried
    <3>3. Instructed(c) = 1..3
      BY <3>1, <3>2
    <3> QED
      BY <3>3, IntervalCount
  <2> DEFINE all == ({"technical", "pm_correction"} \X (1..3)) \cup {<<"recovery", 1>>}
  <2>4. ASSUME NEW t \in FailedBefore(8)
        PROVE  <<t.stage, t.n>> \in all /\ t.outcome = "failed"
    BY <2>4 DEF FailedBefore, Attempt, Limit, Stages
  <2>5. ASSUME NEW p \in all
        PROVE  \E t \in FailedBefore(8) : p = <<t.stage, t.n>>
    <3>1. PICK stage \in Stages, n \in 1..3 : p = <<stage, n>> /\ n <= Limit(stage)
      BY <2>5 DEF Stages, Limit
    <3> DEFINE t == [stage |-> stage, n |-> n, outcome |-> "failed",
                     correction |-> IF stage = "pm_correction" THEN n ELSE 0]
    <3>2. t \in Attempt /\ t.stage = stage /\ t.n = n /\ t.outcome = "failed"
          /\ t.correction = IF stage = "pm_correction" THEN n ELSE 0
      BY DEF Attempt
    <3> HIDE DEF t
    <3>3. t \in FailedBefore(8)
      BY <3>1, <3>2 DEF FailedBefore, Order, Limit, Stages
    <3> QED
      BY <3>1, <3>2, <3>3
  <2>6. {<<t.stage, t.n>> : t \in attempts[c]} = all
    <3> HIDE DEF all
    <3> QED
      BY <2>2, <2>4, <2>5
  <2> QED
    BY <2>1, <2>2, <2>3, <2>4, <2>6
<1>2. ASSUME NEW w \in Works, work[w].status = "completed"
      PROVE  Unresolved(w) = {}
  BY <1>2 DEF PolicyInv, WorkOpen, Open, Unresolved
<1> QED
  BY <1>1, <1>2 DEF TerminalEarned

\* The inductive invariant holds in every reachable state.
THEOREM LifecycleInvariance == LifecycleSpec => []LifecycleInv
<1>1. LifecycleInit => LifecycleInv
  BY LifecycleBegins, PolicyBegins DEF LifecycleInv
<1>2. LifecycleInv /\ [PolicyNext]_lifecycleVars => LifecycleInv'
  BY LifecycleKept
<1> QED
  BY <1>1, <1>2, PTL DEF LifecycleSpec

\* Work waits in exactly one pending gate, and a current version is the status that was read
\* (open_gate, decide_gate, transition_work_item).
THEOREM GatesHoldWork == LifecycleSpec => []GateHoldsWork
<1>1. LifecycleInv => GateHoldsWork
  BY GatesHold DEF LifecycleInv
<1> QED
  BY <1>1, LifecycleInvariance, PTL

\* An open failure always has somebody to go on with it (record_attempt, _route).
THEOREM FailuresAttended == LifecycleSpec => []NeverStranded
<1>1. LifecycleInv => NeverStranded
  BY DEF LifecycleInv, PolicyInv
<1> QED
  BY <1>1, LifecycleInvariance, PTL

\* Work ends in error only after the seven attempts, and completes without open failures
\* (transition_work_item, _advance_failed).
THEOREM TerminalErrorsEarned == LifecycleSpec => []TerminalEarned
<1>1. LifecycleInv => TerminalEarned
  BY ErrorsEarned DEF LifecycleInv
<1> QED
  BY <1>1, LifecycleInvariance, PTL

-----------------------------------------------------------------------------
(* The refinement of GatedWork *)

\* The mapped variables.
Lives == [w \in Works |-> LifeOf(w)]
Holders == [w \in Works |-> HolderOf(w)]
Results == [g \in Gates |-> gate[g].status]

\* The waiting gate of gated work is the one that is meant.
LEMMA HolderMeant ==
  ASSUME HeldByOne, NEW w \in Works, NEW g \in Gates, work[w].status = "gated",
         gate[g].w = w, gate[g].status = "pending"
  PROVE  HolderOf(w) = g
<1>1. HeldGates(w) = {g}
  BY DEF HeldByOne, HeldGates
<1>2. \A h \in Gates : gate[h].w = w /\ gate[h].status = "pending" <=> h = g
  BY <1>1 DEF HeldGates
<1> QED
  BY <1>2 DEF HolderOf

\* Steps of the policy and of readers are none of the work's.
LEMMA WorkUnmoved ==
  ASSUME UNCHANGED <<work, gate>>
  PROVE  UNCHANGED Gating!gatedVars
<1>1. Lives' = Lives /\ Holders' = Holders /\ Results' = Results
  BY DEF Lives, Holders, Results, LifeOf, HolderOf
<1> QED
  BY <1>1 DEF Gating!gatedVars, Lives, Holders, Results

\* Work that no gate holds goes from one state of its life to the next.
LEMMA LifeMoves ==
  ASSUME LifecycleInv, NEW w \in Works, work[w].status # "gated",
         NEW status \in {"new", "active", "completed", "error"}, SetStatus(w, status),
         UNCHANGED gate
  PROVE  /\ Lives' = [Lives EXCEPT ![w] = status]
         /\ Holders' = Holders /\ Results' = Results
         /\ Lives[w] = LifeOf(w)
<1>1. /\ work'[w].status = status /\ \A x \in Works \ {w} : work'[x] = work[x]
  BY DEF SetStatus, LifecycleInv, GateInv, TypeOK
<1>2. \A x \in Works : LifeOf(x)' = IF x = w THEN status ELSE LifeOf(x)
  BY <1>1 DEF LifeOf
<1>3. \A x \in Works : HolderOf(x)' = HolderOf(x)
  BY <1>1 DEF HolderOf
<1> QED
  BY <1>2, <1>3 DEF Lives, Holders, Results

\* A gate that opens holds the work.
LEMMA OpenGateHolds ==
  ASSUME LifecycleInv, LifecycleInv', NEW a \in Callers, NEW g \in Gates,
         NEW asked \in SUBSET Sponsors, OpenGate(a, g, asked)
  PROVE  Gating!GatedNext
<1>1. PICK w \in Works : w = seen[a].w
  BY DEF OpenGate, Fresh, LifecycleInv, GateInv, TypeOK
<1>2. /\ work[w].status = "active" /\ work'[w].status = "gated"
      /\ \A x \in Works \ {w} : work'[x] = work[x]
      /\ gate[g].status = "none" /\ gate'[g].status = "pending" /\ gate'[g].w = w
      /\ \A h \in Gates \ {g} : gate'[h] = gate[h]
  BY <1>1 DEF OpenGate, SetStatus, NoGate, LifecycleInv, GateInv, TypeOK
<1>3. HolderOf(w)' = g
  <2>1. g \in HeldGates(w)'
    BY <1>2 DEF HeldGates
  <2>2. HeldGates(w)' = {g}
    BY <1>2, <2>1 DEF LifecycleInv, GateInv, HeldByOne
  <2>3. \A h \in Gates : gate'[h].w = w /\ gate'[h].status = "pending" <=> h = g
    BY <2>2 DEF HeldGates
  <2> QED
    BY <1>2, <2>3 DEF HolderOf
<1>4. ASSUME NEW x \in Works, x # w
      PROVE  HolderOf(x)' = HolderOf(x) /\ LifeOf(x)' = LifeOf(x)
  <2>1. \A h \in Gates : gate'[h].w = x /\ gate'[h].status = "pending"
                       <=> gate[h].w = x /\ gate[h].status = "pending"
    BY <1>2, <1>4
  <2>2. CASE work[x].status = "gated"
    <3>1. PICK h \in Gates : HeldGates(x) = {h}
      BY <2>2 DEF LifecycleInv, GateInv, HeldByOne
    <3>2. \A k \in Gates : gate[k].w = x /\ gate[k].status = "pending" <=> k = h
      BY <3>1 DEF HeldGates
    <3>3. \A k \in Gates : gate'[k].w = x /\ gate'[k].status = "pending" <=> k = h
      BY <2>1, <3>2
    <3>4. HolderOf(x) = h /\ HolderOf(x)' = h
      BY <1>2, <1>4, <2>2, <3>2, <3>3 DEF HolderOf
    <3> QED
      BY <1>2, <1>4, <3>4 DEF LifeOf
  <2> QED
    BY <1>2, <1>4, <2>2 DEF HolderOf, LifeOf
<1>5. /\ Lives' = [Lives EXCEPT ![w] = "gated"] /\ Lives[w] = "active"
      /\ Holders' = [Holders EXCEPT ![w] = g]
      /\ Results' = [Results EXCEPT ![g] = "pending"] /\ Results[g] = "none"
  BY <1>2, <1>3, <1>4 DEF Lives, Holders, Results, LifeOf
<1>6. Gating!Hold(w, g)
  BY <1>5 DEF Gating!Hold, Lives, Holders, Results
<1> QED
  BY <1>6 DEF Gating!GatedNext

\* A decision resolves the gate that holds the work, which goes on.
LEMMA DecisionReleases ==
  ASSUME LifecycleInv, NEW g \in Gates, NEW s \in Sponsors,
         NEW decision \in {"approved", "rejected"}, DecideGate(g, s, decision)
  PROVE  Gating!GatedNext
<1>1. PICK w \in Works : w = gate[g].w
  BY DEF DecideGate, Decidable, GatesSound, LifecycleInv, GateInv
<1>2. /\ work[w].status = "gated" /\ work'[w].status = "active"
      /\ \A x \in Works \ {w} : work'[x] = work[x]
      /\ gate[g].status = "pending" /\ gate[g].w = w
      /\ gate'[g].status = decision /\ gate'[g].w = w
      /\ \A h \in Gates \ {g} : gate'[h] = gate[h]
  BY <1>1 DEF DecideGate, Decidable, SetStatus, LifecycleInv, GateInv, TypeOK
<1>3. HolderOf(w) = g /\ HolderOf(w)' = None
  BY <1>2, HolderMeant DEF HolderOf, LifecycleInv, GateInv
<1>4. ASSUME NEW x \in Works, x # w
      PROVE  HolderOf(x)' = HolderOf(x) /\ LifeOf(x)' = LifeOf(x)
  <2>1. \A h \in Gates : gate'[h].w = x /\ gate'[h].status = "pending"
                       <=> gate[h].w = x /\ gate[h].status = "pending"
    BY <1>2, <1>4
  <2>2. CASE work[x].status = "gated"
    <3>1. PICK h \in Gates : HeldGates(x) = {h}
      BY <2>2 DEF LifecycleInv, GateInv, HeldByOne
    <3>2. \A k \in Gates : gate[k].w = x /\ gate[k].status = "pending" <=> k = h
      BY <3>1 DEF HeldGates
    <3>3. \A k \in Gates : gate'[k].w = x /\ gate'[k].status = "pending" <=> k = h
      BY <2>1, <3>2
    <3>4. HolderOf(x) = h /\ HolderOf(x)' = h
      BY <1>2, <1>4, <2>2, <3>2, <3>3 DEF HolderOf
    <3> QED
      BY <1>2, <1>4, <3>4 DEF LifeOf
  <2> QED
    BY <1>2, <1>4, <2>2 DEF HolderOf, LifeOf
<1>5. /\ Lives' = [Lives EXCEPT ![w] = "active"] /\ Lives[w] = "gated"
      /\ Holders' = [Holders EXCEPT ![w] = None] /\ Holders[w] = g
      /\ Results' = [Results EXCEPT ![g] = decision] /\ Results[g] = "pending"
  BY <1>2, <1>3, <1>4 DEF Lives, Holders, Results, LifeOf
<1>6. Gating!Resolve(w, decision)
  BY <1>5 DEF Gating!Resolve, Lives, Holders, Results
<1> QED
  BY <1>6 DEF Gating!GatedNext

\* Every step of the lifecycle is one of gated work, or none.
LEMMA LifecycleStepsGated ==
  ASSUME LifecycleInv, LifecycleInv', [PolicyNext]_lifecycleVars
  PROVE  [Gating!GatedNext]_(Gating!gatedVars)
<1> USE DEF Gating!GatedNext
<1>1. ASSUME NEW w \in Works, CreateWorkItem(w) PROVE UNCHANGED Gating!gatedVars
  <2>1. /\ Lives' = [Lives EXCEPT ![w] = "new"] /\ Holders' = Holders /\ Results' = Results
        /\ Lives[w] = "new"
    BY <1>1, LifeMoves DEF CreateWorkItem, LifeOf
  <2>2. Lives' = Lives
    BY <2>1 DEF Lives
  <2> QED
    BY <2>1, <2>2 DEF Gating!gatedVars, Lives, Holders, Results
<1>2. ASSUME NEW a \in Callers, Activate(a) PROVE Gating!GatedNext
  <2>1. PICK w \in Works : w = seen[a].w
    BY <1>2 DEF Activate, Fresh, LifecycleInv, GateInv, TypeOK
  <2>2. /\ Lives' = [Lives EXCEPT ![w] = "active"] /\ Holders' = Holders /\ Results' = Results
        /\ Lives[w] = "new"
    BY <1>2, <2>1, LifeMoves DEF Activate, LifeOf
  <2>3. Gating!Begin(w)
    BY <2>2 DEF Gating!Begin, Lives, Holders, Results
  <2> QED
    BY <2>3
<1>3. ASSUME NEW w \in Works, NEW status \in {"completed", "error"}, work[w].status = "active",
             SetStatus(w, status), UNCHANGED gate
      PROVE  Gating!GatedNext
  <2>1. /\ Lives' = [Lives EXCEPT ![w] = status] /\ Holders' = Holders /\ Results' = Results
        /\ Lives[w] = "active"
    BY <1>3, LifeMoves DEF LifeOf
  <2>2. Gating!End(w, status)
    BY <2>1 DEF Gating!End, Lives, Holders, Results
  <2> QED
    BY <2>2
<1>4. ASSUME NEW a \in Callers, Complete(a) PROVE Gating!GatedNext
  <2>1. PICK w \in Works : w = seen[a].w
    BY <1>4 DEF Complete, Fresh, LifecycleInv, GateInv, TypeOK
  <2> QED
    BY <1>3, <1>4, <2>1 DEF Complete
<1>5. ASSUME NEW a \in Callers, NEW c \in Incidents, Fail(a, c) PROVE Gating!GatedNext
  <2>1. PICK w \in Works : w = seen[a].w
    BY <1>5 DEF Fail, Fresh, LifecycleInv, GateInv, TypeOK
  <2> QED
    BY <1>3, <1>5, <2>1 DEF Fail
<1>6. ASSUME NEW a \in Callers, NEW w \in Works, Read(a, w) PROVE UNCHANGED Gating!gatedVars
  BY <1>6, WorkUnmoved DEF Read
<1>7. ASSUME NEW c \in Incidents, NEW w \in Works, Start(c, w)
      PROVE  UNCHANGED Gating!gatedVars
  BY <1>7, WorkUnmoved DEF Start
<1>8. ASSUME NEW c \in Incidents, NEW stage \in Stages, NEW correction \in 0..3,
             AttemptFailed(c, stage, correction) \/ AttemptSucceeded(c, stage, correction)
      PROVE  UNCHANGED Gating!gatedVars
  BY <1>8, WorkUnmoved DEF AttemptFailed, AttemptSucceeded
<1>9. ASSUME NEW c \in Incidents, RecoveryFailed(c) \/ RecoverySucceeded(c)
      PROVE  UNCHANGED Gating!gatedVars
  BY <1>9, WorkUnmoved DEF RecoveryFailed, RecoverySucceeded
<1>10. ASSUME NEW role \in {"owner", "pm"}, SetRoutable(role) PROVE UNCHANGED Gating!gatedVars
  BY <1>10, WorkUnmoved DEF SetRoutable
<1>11. CASE UNCHANGED lifecycleVars
  BY <1>11, WorkUnmoved DEF lifecycleVars
<1> QED
  BY <1>1, <1>2, <1>4, <1>5, <1>6, <1>7, <1>8, <1>9, <1>10, <1>11, OpenGateHolds,
     DecisionReleases
  DEF PolicyNext, LifecycleNext

\* Work ends only when no gate holds it, and only the resolution of its gate lets it go on,
\* whatever version callers work from and whatever fails meanwhile
\* (lifecycle.py transition_work_item, open_gate, decide_gate).
THEOREM LifecycleImplementsGatedWork == LifecycleSpec => LifecycleGatesWork
<1>1. LifecycleInit => Gating!GatedInit
  BY DEF LifecycleInit, NoWork, NoGate, LifeOf, HolderOf, Gating!GatedInit
<1>2. LifecycleInv /\ LifecycleInv' /\ [PolicyNext]_lifecycleVars
        => [Gating!GatedNext]_(Gating!gatedVars)
  BY LifecycleStepsGated
<1> QED
  BY <1>1, <1>2, LifecycleInvariance, PTL
  DEF LifecycleSpec, LifecycleGatesWork, Gating!GatedSpec

=============================================================================
