--------------------------- MODULE ServicesProofs ---------------------------
(***************************************************************************)
(* Theorems about the services of projects and of their configuration, for   *)
(* all values of the constants: Registration, ProjectImport,                 *)
(* ConfigActivation, PmMonitor, SharedMemory and Accounting; and about        *)
(* MCServices, which has the turns of a role beside them.                     *)
(***************************************************************************)
EXTENDS MCServices, RoleTurnProofs, SequenceTheorems, FunctionTheorems, FiniteSetTheorems

-----------------------------------------------------------------------------
(* Registration: its types, and that projects stay apart. *)

\* A transaction holds locks only between its first lock and its commit, and once it has
\* checked for collisions it holds the lock of everything its manifest claims, so that what it
\* has found free of other projects' claims stays so.
LocksGuard ==
  /\ \A r \in Registrars, x \in Resources :
       resourceLock[x] = r => registering[r].pc \in {"resources", "switch"}
  /\ \A r \in Registrars : registering[r].pc = "switch" =>
       /\ \A x \in ResourcesOf[Asked(r)] : resourceLock[x] = r
       /\ \A q \in Projects \ {ProjectAsked(r)} : Claims(q) \cap ResourcesOf[Asked(r)] = {}

\* While no call has strayed, at most one is under way, and what it has done so far agrees.
OneAtATime ==
  ~strayed => \A r \in Registrars : registering[r].pc # "idle" =>
    /\ coordinating = r
    /\ registering[r].pc # "preflight" => BoundaryFits(r)
    /\ registering[r].pc \in {"roles", "boundary"} => activeManifest[ProjectAsked(r)] = Asked(r)
    /\ registering[r].pc = "boundary" => bound[ProjectAsked(r)] = Asked(r)

RegistrationInv ==
  /\ RegistrationTypeOK
  /\ LocksGuard
  /\ OneAtATime
  /\ ProjectsApart

-----------------------------------------------------------------------------
\* No call is under way at first, and nothing is registered.
LEMMA RegistrationBegins ==
  ASSUME RegistrationInit PROVE RegistrationInv
<1> USE RegistrationAssumption DEF RegistrationInit
<1>1. RegistrationTypeOK
  BY DEF RegistrationTypeOK, RegistrationSteps, NotRegistering, NoBoundary
<1>2. LocksGuard /\ OneAtATime
  BY DEF LocksGuard, OneAtATime, NotRegistering, Resources
<1>3. ProjectsApart
  <2>1. \A p \in Projects : Claims(p) = {}
    BY DEF Claims
  <2> QED
    BY <2>1 DEF ProjectsApart, Roles, NoBoundary
<1> QED
  BY <1>1, <1>2, <1>3 DEF RegistrationInv

-----------------------------------------------------------------------------
\* Every step keeps the columns' types, and a call under way knows what it was asked.
LEMMA RegistrationTyped ==
  ASSUME RegistrationTypeOK, [RegistrationNext]_registrationVars
  PROVE  RegistrationTypeOK'
<1> USE RegistrationAssumption DEF RegistrationTypeOK, RegistrationSteps
<1>1. CASE LoseRegistrationLock
  BY <1>1 DEF LoseRegistrationLock
<1>2. ASSUME NEW r \in Registrars, NEW m \in Manifests, NEW place \in Places,
             BeginRegistration(r, m, place)
      PROVE  RegistrationTypeOK'
  BY <1>2 DEF BeginRegistration
<1>3. ASSUME NEW r \in Registrars, PreflightBoundary(r)
      PROVE  RegistrationTypeOK'
  BY <1>3 DEF PreflightBoundary, Proceed
<1>4. ASSUME NEW r \in Registrars, EnsureProject(r)
      PROVE  RegistrationTypeOK'
  <2>1. ProjectAsked(r) \in Projects
    BY <1>4 DEF EnsureProject, ProjectAsked, Asked
  <2> QED
    BY <1>4, <2>1 DEF EnsureProject, Proceed
<1>5. ASSUME NEW r \in Registrars, LockProject(r)
      PROVE  RegistrationTypeOK'
  BY <1>5 DEF LockProject, Proceed
<1>6. ASSUME NEW r \in Registrars, LockResource(r)
      PROVE  RegistrationTypeOK'
  BY <1>6 DEF LockResource
<1>7. ASSUME NEW r \in Registrars, CheckCollisions(r)
      PROVE  RegistrationTypeOK'
  BY <1>7 DEF CheckCollisions, Proceed
<1>8. ASSUME NEW r \in Registrars, SwitchManifest(r)
      PROVE  RegistrationTypeOK'
  BY <1>8 DEF SwitchManifest, Proceed, WithoutLocksOf, Asked
<1>9. ASSUME NEW r \in Registrars, ActivateRoles(r)
      PROVE  RegistrationTypeOK'
  <2>1. roles' \in [Projects -> [Roles -> {"none", "active", "inactive"}]]
    BY <1>9 DEF ActivateRoles
  <2> QED
    BY <1>9, <2>1 DEF ActivateRoles, Proceed, Asked
<1>10. ASSUME NEW r \in Registrars, RegisterBoundary(r)
       PROVE  RegistrationTypeOK'
  BY <1>10 DEF RegisterBoundary, Leave, NotRegistering, Asked
<1>11. ASSUME NEW r \in Registrars, GiveUpRegistration(r)
       PROVE  RegistrationTypeOK'
  BY <1>11 DEF GiveUpRegistration, Leave, NotRegistering, WithoutLocksOf
<1>12. CASE UNCHANGED registrationVars
  BY <1>12 DEF registrationVars
<1> QED
  BY <1>1, <1>2, <1>3, <1>4, <1>5, <1>6, <1>7, <1>8, <1>9, <1>10, <1>11, <1>12
  DEF RegistrationNext

-----------------------------------------------------------------------------
\* What another project's locks and a switch of its manifest leave alone: r has the lock of
\* all it claims, so a call that switches to a manifest claiming some of it cannot exist.
LEMMA LocksGuardKept ==
  ASSUME RegistrationTypeOK, LocksGuard, [RegistrationNext]_registrationVars
  PROVE  LocksGuard'
<1> USE RegistrationAssumption DEF RegistrationTypeOK, RegistrationSteps, LocksGuard
<1>1. CASE LoseRegistrationLock
  BY <1>1 DEF LoseRegistrationLock, Asked, ProjectAsked, Claims
<1>2. ASSUME NEW r \in Registrars, NEW m \in Manifests, NEW place \in Places,
             BeginRegistration(r, m, place)
      PROVE  LocksGuard'
  BY <1>2 DEF BeginRegistration, Asked, ProjectAsked, Claims
<1>3. ASSUME NEW r \in Registrars, PreflightBoundary(r)
      PROVE  LocksGuard'
  BY <1>3 DEF PreflightBoundary, Proceed, Asked, ProjectAsked, Claims
<1>4. ASSUME NEW r \in Registrars, EnsureProject(r)
      PROVE  LocksGuard'
  BY <1>4 DEF EnsureProject, Proceed, Asked, ProjectAsked, Claims
<1>5. ASSUME NEW r \in Registrars, LockProject(r)
      PROVE  LocksGuard'
  BY <1>5 DEF LockProject, Proceed, Asked, ProjectAsked, Claims
<1>6. ASSUME NEW r \in Registrars, LockResource(r)
      PROVE  LocksGuard'
  BY <1>6 DEF LockResource, Asked, ProjectAsked, Claims
<1>7. ASSUME NEW r \in Registrars, CheckCollisions(r)
      PROVE  LocksGuard'
  BY <1>7 DEF CheckCollisions, Missing, LocksNeeded, Proceed, Asked, ProjectAsked, Claims
<1>8. ASSUME NEW r \in Registrars, SwitchManifest(r)
      PROVE  LocksGuard'
  <2>1. \A u \in Registrars : registering'[u].pc = "switch" =>
          u # r /\ registering[u].pc = "switch" /\ Asked(u)' = Asked(u)
    BY <1>8 DEF SwitchManifest, Proceed, Asked
  <2>2. \A u \in Registrars, x \in Resources : resourceLock'[x] = u =>
          u # r /\ resourceLock[x] = u
    BY <1>8 DEF SwitchManifest, WithoutLocksOf
  <2>3. ASSUME NEW u \in Registrars, registering'[u].pc = "switch"
        PROVE  \A x \in ResourcesOf[Asked(u)] : resourceLock'[x] = u
    <3>1. Asked(u) \in Manifests /\ ResourcesOf[Asked(u)] \subseteq Resources
      BY <2>1, <2>3 DEF Asked, Resources
    <3> QED
      BY <1>8, <2>1, <2>3, <3>1 DEF SwitchManifest, WithoutLocksOf
  <2>4. ASSUME NEW u \in Registrars, registering'[u].pc = "switch",
               NEW q \in Projects \ {ProjectAsked(u)}
        PROVE  Claims(q)' \cap ResourcesOf[Asked(u)] = {}
    <3>1. /\ \A x \in ResourcesOf[Asked(r)] : resourceLock[x] = r
          /\ \A x \in ResourcesOf[Asked(u)] : resourceLock[x] = u
          /\ u # r
      BY <1>8, <2>1, <2>4 DEF SwitchManifest
    <3>3. ResourcesOf[Asked(r)] \cap ResourcesOf[Asked(u)] = {}
      <4>1. SUFFICES ASSUME NEW x \in ResourcesOf[Asked(r)], x \in ResourcesOf[Asked(u)]
                     PROVE  FALSE
        OBVIOUS
      <4> QED
        BY <3>1, <4>1
    <3>2. Claims(q)' \in {Claims(q), ResourcesOf[Asked(r)]}
      BY <1>8 DEF SwitchManifest, Claims, Asked, ProjectAsked
    <3> QED
      BY <2>1, <2>4, <3>2, <3>3
  <2> QED
    BY <1>8, <2>1, <2>2, <2>3, <2>4 DEF SwitchManifest, Proceed, ProjectAsked
<1>9. ASSUME NEW r \in Registrars, ActivateRoles(r)
      PROVE  LocksGuard'
  BY <1>9 DEF ActivateRoles, Proceed, Asked, ProjectAsked, Claims
<1>10. ASSUME NEW r \in Registrars, RegisterBoundary(r)
       PROVE  LocksGuard'
  BY <1>10 DEF RegisterBoundary, Leave, NotRegistering, Asked, ProjectAsked, Claims
<1>11. ASSUME NEW r \in Registrars, GiveUpRegistration(r)
       PROVE  LocksGuard'
  <2>1. \A u \in Registrars : registering'[u].pc = "switch" =>
          u # r /\ registering[u] = registering'[u]
    BY <1>11 DEF GiveUpRegistration, Leave, NotRegistering
  <2>2. ASSUME NEW u \in Registrars, registering'[u].pc = "switch"
        PROVE  \A x \in ResourcesOf[Asked(u)] : resourceLock'[x] = u
    <3>1. Asked(u) \in Manifests /\ ResourcesOf[Asked(u)] \subseteq Resources
      BY <2>1, <2>2 DEF Asked, Resources
    <3> QED
      BY <1>11, <2>1, <2>2, <3>1 DEF GiveUpRegistration, WithoutLocksOf
  <2> QED
    BY <1>11, <2>1, <2>2
    DEF GiveUpRegistration, Leave, NotRegistering, WithoutLocksOf, Asked, ProjectAsked, Claims
<1>12. CASE UNCHANGED registrationVars
  BY <1>12 DEF registrationVars, Asked, ProjectAsked, Claims
<1> QED
  BY <1>1, <1>2, <1>3, <1>4, <1>5, <1>6, <1>7, <1>8, <1>9, <1>10, <1>11, <1>12
  DEF RegistrationNext

-----------------------------------------------------------------------------
\* Whoever is under way without having strayed has the session lock, so nobody else is.
LEMMA OneAtATimeKept ==
  ASSUME RegistrationTypeOK, OneAtATime, [RegistrationNext]_registrationVars
  PROVE  OneAtATime'
<1> USE RegistrationAssumption DEF RegistrationTypeOK, RegistrationSteps, OneAtATime
<1>1. CASE LoseRegistrationLock
  BY <1>1 DEF LoseRegistrationLock
<1>2. ASSUME NEW r \in Registrars, NEW m \in Manifests, NEW place \in Places,
             BeginRegistration(r, m, place)
      PROVE  OneAtATime'
  BY <1>2 DEF BeginRegistration, BoundaryFits, Asked, ProjectAsked
<1>3. ASSUME NEW r \in Registrars, PreflightBoundary(r)
      PROVE  OneAtATime'
  BY <1>3 DEF PreflightBoundary, Proceed, BoundaryFits, Asked, ProjectAsked
<1>4. ASSUME NEW r \in Registrars, EnsureProject(r)
      PROVE  OneAtATime'
  BY <1>4 DEF EnsureProject, Proceed, BoundaryFits, Asked, ProjectAsked
<1>5. ASSUME NEW r \in Registrars, LockProject(r)
      PROVE  OneAtATime'
  BY <1>5 DEF LockProject, Proceed, BoundaryFits, Asked, ProjectAsked
<1>6. ASSUME NEW r \in Registrars, LockResource(r)
      PROVE  OneAtATime'
  BY <1>6 DEF LockResource, Missing, BoundaryFits, Asked, ProjectAsked
<1>7. ASSUME NEW r \in Registrars, CheckCollisions(r)
      PROVE  OneAtATime'
  BY <1>7 DEF CheckCollisions, Proceed, BoundaryFits, Asked, ProjectAsked
<1>8. ASSUME NEW r \in Registrars, SwitchManifest(r)
      PROVE  OneAtATime'
  BY <1>8 DEF SwitchManifest, Proceed, BoundaryFits, Asked, ProjectAsked
<1>9. ASSUME NEW r \in Registrars, ActivateRoles(r)
      PROVE  OneAtATime'
  BY <1>9 DEF ActivateRoles, Proceed, BoundaryFits, Asked, ProjectAsked
<1>10. ASSUME NEW r \in Registrars, RegisterBoundary(r)
       PROVE  OneAtATime'
  BY <1>10 DEF RegisterBoundary, Leave, NotRegistering, BoundaryFits, Asked, ProjectAsked
<1>11. ASSUME NEW r \in Registrars, GiveUpRegistration(r)
       PROVE  OneAtATime'
  BY <1>11 DEF GiveUpRegistration, Leave, NotRegistering, BoundaryFits, Asked, ProjectAsked
<1>12. CASE UNCHANGED registrationVars
  BY <1>12 DEF registrationVars, BoundaryFits, Asked, ProjectAsked
<1> QED
  BY <1>1, <1>2, <1>3, <1>4, <1>5, <1>6, <1>7, <1>8, <1>9, <1>10, <1>11, <1>12
  DEF RegistrationNext

-----------------------------------------------------------------------------
\* Only three steps touch what ProjectsApart speaks of: a switch, which LocksGuard keeps from
\* clashing; new roles, which keep the manager; and a boundary, which fits.
LEMMA ProjectsApartKept ==
  ASSUME RegistrationInv, [RegistrationNext]_registrationVars
  PROVE  ProjectsApart'
<1> USE RegistrationAssumption
    DEF RegistrationInv, RegistrationTypeOK, RegistrationSteps, ProjectsApart
<1>1. ASSUME UNCHANGED <<activeManifest, bound, roles, boundary>>, strayed' = strayed
      PROVE  ProjectsApart'
  BY <1>1 DEF Claims
<1>2. ASSUME NEW r \in Registrars, SwitchManifest(r)
      PROVE  ProjectsApart'
  <2>1. PICK p \in Projects : p = ProjectAsked(r)
    BY <1>2 DEF SwitchManifest, Asked, ProjectAsked
  <2>2. PICK m \in Manifests : m = Asked(r)
    BY <1>2 DEF SwitchManifest, Asked
  <2>3. activeManifest' = [activeManifest EXCEPT ![p] = m]
    BY <1>2, <2>1, <2>2 DEF SwitchManifest
  <2>4. Claims(p)' = ResourcesOf[m] /\ \A q \in Projects \ {p} : Claims(q)' = Claims(q)
    BY <2>3 DEF Claims
  <2>5. \A q \in Projects \ {p} : Claims(q) \cap ResourcesOf[m] = {}
    BY <1>2, <2>1, <2>2 DEF SwitchManifest, LocksGuard
  <2>6. \A q \in Projects, u \in Projects : q # u => Claims(q)' \cap Claims(u)' = {}
    <3> SUFFICES ASSUME NEW q \in Projects, NEW u \in Projects \ {q}
                 PROVE  Claims(q)' \cap Claims(u)' = {}
      OBVIOUS
    <3>1. Claims(q) \cap Claims(u) = {}
      OBVIOUS
    <3>2. CASE q = p
      <4>1. Claims(u)' = Claims(u) /\ Claims(u) \cap ResourcesOf[m] = {}
        BY <2>4, <2>5, <3>2
      <4> QED
        BY <2>4, <3>2, <4>1
    <3>3. CASE u = p
      <4>1. Claims(q)' = Claims(q) /\ Claims(q) \cap ResourcesOf[m] = {}
        BY <2>4, <2>5, <3>3
      <4> QED
        BY <2>4, <3>3, <4>1
    <3>4. CASE q # p /\ u # p
      <4>1. Claims(q)' = Claims(q) /\ Claims(u)' = Claims(u)
        BY <2>4, <3>4
      <4> QED
        BY <3>1, <4>1
    <3> QED
      BY <3>2, <3>3, <3>4
  <2>7. boundary[p] # NoBoundary /\ ~strayed => boundary[p].manifest = m
    BY <1>2, <2>1, <2>2 DEF SwitchManifest, OneAtATime, BoundaryFits
  <2> QED
    BY <1>2, <2>3, <2>6, <2>7 DEF SwitchManifest
<1>3. ASSUME NEW r \in Registrars, ActivateRoles(r)
      PROVE  ProjectsApart'
  <2> DEFINE p == ProjectAsked(r)
  <2>1. Asked(r) \in Manifests /\ p \in Projects
    BY <1>3 DEF ActivateRoles, Asked, ProjectAsked
  <2>2. roles'[p][ProjectManager] # "inactive" /\ \A q \in Projects \ {p} : roles'[q] = roles[q]
    BY <1>3, <2>1 DEF ActivateRoles, Roles
  <2>3. boundary[p] # NoBoundary /\ ~strayed => boundary[p].manifest = Asked(r)
    BY <1>3, <2>1 DEF ActivateRoles, OneAtATime, BoundaryFits
  <2> QED
    BY <1>3, <2>1, <2>2, <2>3 DEF ActivateRoles, Claims
<1>4. ASSUME NEW r \in Registrars, RegisterBoundary(r)
      PROVE  ProjectsApart'
  <2> DEFINE p == ProjectAsked(r)
  <2>1. Asked(r) \in Manifests /\ p \in Projects /\ registering[r].place \in Places
    BY <1>4 DEF RegisterBoundary, Asked, ProjectAsked
  <2>2. \A q \in Projects \ {p} :
          boundary'[q] = boundary[q] /\ boundary[q].place # registering[r].place
    BY <1>4, <2>1 DEF RegisterBoundary, BoundaryFits
  <2>3. boundary'[p] = [manifest |-> Asked(r), place |-> registering[r].place]
    BY <1>4, <2>1 DEF RegisterBoundary
  <2>4. ~strayed => activeManifest[p] = Asked(r) /\ bound[p] = Asked(r)
    BY <1>4 DEF RegisterBoundary, OneAtATime
  <2> QED
    BY <1>4, <2>1, <2>2, <2>3, <2>4 DEF RegisterBoundary, Claims, NoBoundary
<1>5. CASE LoseRegistrationLock
  BY <1>5 DEF LoseRegistrationLock, Claims
<1>6. CASE UNCHANGED registrationVars
  BY <1>1, <1>6 DEF registrationVars
<1> QED
  BY <1>1, <1>2, <1>3, <1>4, <1>5, <1>6
  DEF RegistrationNext, BeginRegistration, PreflightBoundary, EnsureProject, LockProject,
      LockResource, CheckCollisions, GiveUpRegistration

-----------------------------------------------------------------------------
\* The inductive invariant holds in every reachable state.
THEOREM RegistrationInvariance == RegistrationSpec => []RegistrationInv
<1>1. RegistrationInit => RegistrationInv
  BY RegistrationBegins
<1>2. RegistrationInv /\ [RegistrationNext]_registrationVars => RegistrationInv'
  BY RegistrationTyped, LocksGuardKept, OneAtATimeKept, ProjectsApartKept DEF RegistrationInv
<1> QED
  BY <1>1, <1>2, PTL DEF RegistrationSpec

\* Projects never share a resource or a place, and what is registered agrees (register,
\* ProjectManifestStore.activate, RolePackActivator._activate).
THEOREM ProjectsStayApart == RegistrationSpec => []ProjectsApart
<1>1. RegistrationInv => ProjectsApart
  BY DEF RegistrationInv
<1> QED
  BY <1>1, RegistrationInvariance, PTL

-----------------------------------------------------------------------------
(* ProjectImport: only what was approved reaches the adapter. *)

Settled(r) == preview[r].status \in {"approved", "activated"}

\* Only the last preview can be approved, and it stays the last.
ApprovedLast ==
  \A r \in DOMAIN preview :
    /\ Settled(r) => r = Len(preview)
    /\ Settled(r) <=> preview[r].decision = "approved"

\* The one request an activation stands for.
Meant(q) ==
  /\ activation # NoActivation
  /\ q.operation = activation.operation /\ q.revision = activation.revision
  /\ q.by = activation.by /\ q.answers = preview[activation.revision].answers

\* The activation is of the approved preview, and whoever calls or called the adapter does so
\* with the request it stands for.
OneRequest ==
  /\ activation # NoActivation => Settled(activation.revision)
  /\ \A q \in delivered : Meant(q)
  /\ \A p \in Importers : importing[p] # NotImporting =>
       /\ Meant(importing[p].request)
       /\ importing[p].pc = "record" => importing[p].request \in delivered
  /\ activation.status = "activated" <=>
       \E r \in DOMAIN preview : preview[r].status = "activated"
  /\ activation.status = "activated" => delivered # {}

ImportInv == ImportTypeOK /\ ApprovedLast /\ OneRequest

-----------------------------------------------------------------------------
\* Nothing was proposed or asked of the adapter at first.
LEMMA ImportBegins == ImportInit => ImportInv
BY ImportAssumption
DEF ImportInit, ImportInv, ImportTypeOK, ApprovedLast, OneRequest, NoActivation, NotImporting

\* Requests that mean the same activation are the same.
LEMMA ApprovedFollows == ImportInv => ImportApproved
<1> SUFFICES ASSUME ImportInv PROVE ImportApproved
  OBVIOUS
<1> USE DEF ImportInv, ImportTypeOK
<1>1. \A q, other \in delivered : q = other
  BY DEF OneRequest, Meant, Request
<1>2. \A q \in delivered :
        /\ q.revision = Len(preview) /\ preview[q.revision].decision = "approved"
        /\ preview[q.revision].answers = q.answers
  BY DEF OneRequest, Meant, ApprovedLast, NoActivation
<1>3. (\E r \in DOMAIN preview : preview[r].status = "activated") =>
        preview[activation.revision].status = "activated"
  BY DEF OneRequest, ApprovedLast, Settled, NoActivation
<1> QED
  BY <1>1, <1>2, <1>3 DEF ImportApproved, OneRequest

\* Where the last preview is not settled, nothing was asked of the adapter.
LEMMA Unsettled ==
  ASSUME ImportInv, preview = <<>> \/ ~Settled(Len(preview))
  PROVE  /\ activation = NoActivation /\ delivered = {}
         /\ \A p \in Importers : importing[p] = NotImporting
         /\ \A r \in DOMAIN preview : ~Settled(r)
<1> USE DEF ImportInv, ImportTypeOK
<1>1. \A r \in DOMAIN preview : ~Settled(r)
  BY DEF ApprovedLast
<1>2. activation = NoActivation
  BY <1>1 DEF OneRequest
<1> QED
  BY <1>1, <1>2 DEF OneRequest, Meant

\* A preview that is added supersedes one that is not settled.
LEMMA CreateKept ==
  ASSUME ImportInv, NEW content \in Contents, CreatePreview(content)
  PROVE  ImportInv'
<1> USE ImportAssumption DEF ImportInv, ImportTypeOK
<1>1. preview = <<>> \/ ~Settled(Len(preview))
  BY DEF CreatePreview, Settled, Last
<1> DEFINE old == [r \in DOMAIN preview |->
                    IF r = Len(preview) THEN [preview[r] EXCEPT !.status = "superseded"]
                    ELSE preview[r]]
           new == [answers |-> session.version, content |-> content, status |-> "draft",
                   decision |-> "none"]
<1>2. old \in Seq(Preview) /\ Len(old) = Len(preview) /\ new \in Preview
  <2>1. \A r \in DOMAIN preview : old[r] \in Preview
    <3> SUFFICES ASSUME NEW r \in DOMAIN preview PROVE old[r] \in Preview
      OBVIOUS
    <3>1. preview[r] \in Preview
      OBVIOUS
    <3>2. [preview[r] EXCEPT !.status = "superseded"] \in Preview
      BY <3>1 DEF Preview
    <3> QED
      BY <3>1, <3>2
  <2>2. DOMAIN preview = 1..Len(preview) /\ Len(preview) \in Nat
    OBVIOUS
  <2>3. old = [r \in DOMAIN old |-> old[r]] /\ DOMAIN old = 1..Len(preview)
    BY <2>2
  <2>4. new \in Preview
    BY DEF Preview
  <2> HIDE DEF old, new
  <2>5. old \in [1..Len(preview) -> Preview]
    BY <2>1, <2>2, <2>3
  <2>6. old \in Seq(Preview)
    BY <2>2, <2>5, SeqDef
  <2> QED
    BY <2>2, <2>3, <2>4, <2>6
<1>3. preview' = Append(old, new) /\ UNCHANGED <<session, activation, locked, importing, delivered>>
  BY DEF CreatePreview
<1>4. /\ preview' \in Seq(Preview) /\ Len(preview') = Len(preview) + 1
      /\ \A r \in DOMAIN preview : preview'[r] = old[r]
      /\ preview'[Len(preview) + 1] = new
  <2> HIDE DEF old, new
  <2> QED
    BY <1>2, <1>3
<1>5. \A r \in DOMAIN preview' :
        /\ preview'[r].status \notin {"approved", "activated"}
        /\ preview'[r].decision # "approved"
  <2>1. \A r \in DOMAIN preview :
          /\ preview[r].status \notin {"approved", "activated"}
          /\ preview[r].decision # "approved"
    BY <1>1, Unsettled DEF ApprovedLast, Settled
  <2>2. \A r \in DOMAIN preview :
          /\ old[r].decision = preview[r].decision
          /\ old[r].status \in {preview[r].status, "superseded"}
    BY DEF Preview
  <2>3. DOMAIN preview' = DOMAIN preview \cup {Len(preview) + 1}
    BY <1>4
  <2>4. new.status = "draft" /\ new.decision = "none"
    OBVIOUS
  <2> HIDE DEF old, new
  <2> QED
    BY <1>4, <2>1, <2>2, <2>3, <2>4
<1>6. ApprovedLast'
  BY <1>5 DEF ApprovedLast, Settled
<1>7. OneRequest'
  BY <1>1, <1>3, <1>5, Unsettled DEF OneRequest, NoActivation
<1>8. ImportTypeOK'
  BY <1>1, <1>3, <1>4, Unsettled DEF CreatePreview
<1> QED
  BY <1>6, <1>7, <1>8

\* A sponsor decides the last preview, while nothing was asked of the adapter yet.
LEMMA DecideKept ==
  ASSUME ImportInv, NEW decision \in {"approved", "rejected"}, DecidePreview(decision)
  PROVE  ImportInv'
<1> USE ImportAssumption DEF ImportInv, ImportTypeOK
<1> DEFINE n == Len(preview)
<1>1. n \in DOMAIN preview /\ ~Settled(n) /\ preview # <<>>
  BY DEF DecidePreview, Settled
<1>2. /\ preview' = [preview EXCEPT ![n].status = decision, ![n].decision = decision]
      /\ UNCHANGED <<session, activation, locked, importing, delivered>>
  BY DEF DecidePreview
<1>3. /\ preview' \in Seq(Preview) /\ Len(preview') = n /\ DOMAIN preview' = DOMAIN preview
      /\ preview'[n].status = decision /\ preview'[n].decision = decision
      /\ \A r \in DOMAIN preview \ {n} : preview'[r] = preview[r]
  <2> DEFINE k == [[preview[n] EXCEPT !.status = decision] EXCEPT !.decision = decision]
  <2>1. preview[n] \in Preview
    BY <1>1
  <2>2. k \in Preview /\ k.status = decision /\ k.decision = decision
    BY <2>1 DEF Preview
  <2>3. preview' = [preview EXCEPT ![n] = k]
    BY <1>1, <1>2
  <2> HIDE DEF k
  <2> QED
    BY <1>1, <2>2, <2>3
<1>4. ApprovedLast'
  BY <1>1, <1>3, Unsettled DEF ApprovedLast, Settled
<1>5. OneRequest'
  BY <1>1, <1>2, <1>3, Unsettled DEF OneRequest, NoActivation, Settled
<1>6. ImportTypeOK'
  BY <1>1, <1>2, <1>3, Unsettled
<1> QED
  BY <1>4, <1>5, <1>6

\* What an activation means does not change once it was asked for.
LEMMA RequestKept ==
  ASSUME ImportInv, NEW p \in Importers, NEW o \in Activations, NEW r \in DOMAIN preview,
         RequestActivation(p, o, r)
  PROVE  ImportInv'
<1> USE ImportAssumption DEF ImportInv, ImportTypeOK
<1> DEFINE reserved == IF activation = NoActivation
                       THEN [status |-> "pending", revision |-> r, operation |-> o, by |-> p]
                       ELSE activation
           request == [operation |-> o, revision |-> r, answers |-> session.version,
                       by |-> reserved.by]
<1>1. /\ activation' = reserved
      /\ importing' = [importing EXCEPT ![p] = [pc |-> "call", request |-> request]]
      /\ locked' = p /\ UNCHANGED <<session, preview, delivered>>
      /\ preview[r].decision = "approved" /\ session.version = preview[r].answers
  BY DEF RequestActivation, StillCurrent
<1>2. /\ reserved \in [status : {"pending", "activated"}, revision : DOMAIN preview,
                       operation : Activations, by : Importers]
      /\ reserved.status = "pending" /\ reserved.revision = r /\ reserved.operation = o
      /\ reserved # NoActivation
  BY DEF RequestActivation, NoActivation
<1>3. activation # NoActivation => activation = reserved
  OBVIOUS
<1>4. Settled(r)
  BY <1>1 DEF ApprovedLast
<1>5. r = Len(preview)
  BY <1>4 DEF ApprovedLast
<1> HIDE DEF reserved
<1>6. request \in Request
  BY <1>1, <1>2, <1>5 DEF Request
<1>7. ImportTypeOK'
  BY <1>1, <1>2, <1>6
<1>8. ApprovedLast'
  BY <1>1 DEF ApprovedLast, Settled
<1>9. OneRequest'
  <2>1. \A q : Meant(q) => Meant(q)'
    BY <1>1, <1>3 DEF Meant
  <2>2. Settled(activation.revision)'
    BY <1>1, <1>2, <1>4 DEF Settled
  <2>3. PICK q \in Request : q = request
    BY <1>6
  <2>4. Meant(q)'
    BY <1>1, <1>2, <2>3 DEF Meant
  <2>5. /\ activation'.status # "activated"
        /\ ~\E x \in DOMAIN preview' : preview'[x].status = "activated"
    BY <1>1, <1>2, <1>3 DEF OneRequest, RequestActivation, ApprovedLast, Settled, NoActivation
  <2>6. \A x \in Importers : importing'[x] # NotImporting =>
          \/ importing'[x].request = q /\ importing'[x].pc = "call"
          \/ importing'[x] = importing[x]
    BY <1>1, <2>3
  <2>7. \A x \in Importers : (importing[x] # NotImporting => Meant(importing[x].request))'
    BY <2>1, <2>4, <2>6 DEF OneRequest, Meant
  <2>8. \A x \in Importers : importing'[x] # NotImporting /\ importing'[x].pc = "record" =>
          importing'[x].request \in delivered'
    BY <1>1, <2>6 DEF OneRequest
  <2> QED
    BY <1>1, <2>1, <2>2, <2>5, <2>7, <2>8 DEF OneRequest
<1> QED
  BY <1>7, <1>8, <1>9

\* The adapter gets what the activation means, or nothing.
LEMMA CallKept ==
  ASSUME ImportInv, NEW p \in Importers, CallActivator(p)
  PROVE  ImportInv'
<1> USE ImportAssumption DEF ImportInv, ImportTypeOK
<1>1. PICK q \in Request : q = importing[p].request /\ Meant(q)
  BY DEF CallActivator, OneRequest
<1>2. /\ delivered' \in {delivered, delivered \cup {q}}
      /\ UNCHANGED <<session, preview, activation>>
      /\ locked' \in Importers \cup {NoImporter}
  BY <1>1 DEF CallActivator
<1>3. \/ importing' = [importing EXCEPT ![p] = NotImporting]
      \/ importing' = [importing EXCEPT ![p].pc = "record"] /\ q \in delivered'
  BY <1>1 DEF CallActivator
<1>4. importing[p] \in [pc : {"call", "record"}, request : Request]
  BY DEF CallActivator
<1>5. \A x \in Importers : importing'[x] # NotImporting =>
        /\ importing[x] # NotImporting /\ importing'[x].request = importing[x].request
        /\ importing'[x].pc = "record" => importing'[x].request \in delivered'
  <2>1. ASSUME NEW x \in Importers, importing'[x] # NotImporting, x # p
        PROVE  importing'[x] = importing[x]
    BY <1>3, <2>1
  <2>2. ASSUME importing'[p] # NotImporting
        PROVE  importing'[p].request = q /\ q \in delivered'
    BY <1>1, <1>3, <1>4, <2>2
  <2>3. importing[p] # NotImporting /\ delivered \subseteq delivered'
    BY <1>2 DEF CallActivator
  <2> QED
    BY <1>1, <2>1, <2>2, <2>3 DEF OneRequest
<1>6. ImportTypeOK'
  <2>1. importing' \in
          [Importers -> {NotImporting} \cup [pc : {"call", "record"}, request : Request]]
    BY <1>3, <1>4
  <2> QED
    BY <1>2, <2>1
<1>7. ApprovedLast'
  BY <1>2 DEF ApprovedLast, Settled
<1>8. OneRequest'
  <2>1. \A d : Meant(d) => Meant(d)'
    BY <1>2 DEF Meant
  <2>2. \A d \in delivered' : Meant(d)'
    BY <1>1, <1>2, <2>1 DEF OneRequest
  <2>3. \A x \in Importers : (importing[x] # NotImporting => Meant(importing[x].request))'
    BY <1>2, <1>5 DEF OneRequest, Meant
  <2>4. activation.status = "activated" => delivered' # {}
    BY <1>2 DEF OneRequest
  <2> QED
    BY <1>2, <1>5, <2>2, <2>3, <2>4 DEF OneRequest, Settled
<1> QED
  BY <1>6, <1>7, <1>8

\* The receipt activates the preview that was approved, and nothing else.
LEMMA RecordKept ==
  ASSUME ImportInv, NEW p \in Importers, RecordActivation(p)
  PROVE  ImportInv'
<1> USE ImportAssumption DEF ImportInv, ImportTypeOK
<1> DEFINE r == activation.revision
<1>1. /\ importing[p].request.revision = r /\ importing[p].request \in delivered
      /\ activation # NoActivation /\ r \in DOMAIN preview /\ Settled(r) /\ r = Len(preview)
      /\ activation \in [status : {"pending", "activated"}, revision : DOMAIN preview,
                         operation : Activations, by : Importers]
  BY DEF RecordActivation, OneRequest, Meant, ApprovedLast
<1>2. PICK n \in DOMAIN preview : n = r
  BY <1>1
<1>3. /\ activation' = [activation EXCEPT !.status = "activated"]
      /\ preview' = [preview EXCEPT ![n].status = IF preview[n].status = "approved"
                                                THEN "activated" ELSE preview[n].status]
      /\ importing' = [importing EXCEPT ![p] = NotImporting]
      /\ UNCHANGED <<session, delivered>> /\ locked' = NoImporter
  BY <1>1, <1>2 DEF RecordActivation
<1>4. /\ preview' \in Seq(Preview)
      /\ Len(preview') = Len(preview) /\ DOMAIN preview' = DOMAIN preview
      /\ preview'[n] = [preview[n] EXCEPT !.status = "activated"]
      /\ \A x \in DOMAIN preview \ {n} : preview'[x] = preview[x]
  <2> DEFINE k == [preview[n] EXCEPT !.status = "activated"]
  <2>1. preview[n] \in Preview /\ preview[n].status \in {"approved", "activated"}
    BY <1>1, <1>2 DEF Settled
  <2>2. k \in Preview
    BY <2>1 DEF Preview
  <2>3. preview[n].status = "activated" => k = preview[n]
    BY <2>1 DEF Preview
  <2>4. preview' = [preview EXCEPT ![n] = k]
    BY <1>3, <2>1, <2>3
  <2> HIDE DEF k
  <2>5. /\ preview' \in Seq(Preview)
        /\ Len(preview') = Len(preview) /\ DOMAIN preview' = DOMAIN preview
        /\ preview'[n] = k /\ \A x \in DOMAIN preview \ {n} : preview'[x] = preview[x]
    BY <2>2, <2>4
  <2> QED
    BY <2>5 DEF k
<1>5. /\ preview'[n].status = "activated" /\ preview'[n].decision = preview[n].decision
      /\ preview'[n].answers = preview[n].answers
  BY <1>4 DEF Preview
<1>6. /\ activation'.status = "activated" /\ activation' # NoActivation
      /\ activation'.revision = n /\ activation'.operation = activation.operation
      /\ activation'.by = activation.by
  BY <1>1, <1>2, <1>3 DEF NoActivation
<1>7. ImportTypeOK'
  <2>1. activation' \in [status : {"pending", "activated"}, revision : DOMAIN preview',
                         operation : Activations, by : Importers]
    BY <1>1, <1>3, <1>4
  <2> QED
    BY <1>3, <1>4, <2>1
<1>8. ApprovedLast'
  <2>1. preview'[n].decision = "approved" /\ n = Len(preview)
    BY <1>1, <1>2, <1>5 DEF ApprovedLast
  <2> SUFFICES ASSUME NEW x \in DOMAIN preview
               PROVE  /\ preview'[x].status \in {"approved", "activated"} => x = Len(preview')
                      /\ preview'[x].status \in {"approved", "activated"} <=>
                           preview'[x].decision = "approved"
    BY <1>4 DEF ApprovedLast, Settled
  <2>2. CASE x = n
    BY <1>4, <1>5, <2>1, <2>2
  <2>3. CASE x # n
    BY <1>4, <2>3 DEF ApprovedLast, Settled
  <2> QED
    BY <2>2, <2>3
<1>9. OneRequest'
  <2>1. \A d : Meant(d) => Meant(d)'
    BY <1>2, <1>5, <1>6 DEF Meant
  <2>2. \A x \in Importers : (importing[x] # NotImporting => Meant(importing[x].request))'
    <3>1. \A x \in Importers : importing'[x] # NotImporting => importing'[x] = importing[x]
      BY <1>3
    <3> QED
      BY <1>2, <1>5, <1>6, <3>1 DEF OneRequest, Meant
  <2>3. Settled(activation.revision)'
    BY <1>5, <1>6 DEF Settled
  <2> QED
    BY <1>1, <1>2, <1>3, <1>4, <1>5, <1>6, <2>1, <2>2, <2>3 DEF OneRequest
<1> QED
  BY <1>7, <1>8, <1>9

\* Questions, deaths and lost sessions change nothing that matters.
LEMMA ImportKept ==
  ASSUME ImportInv, [ImportNext]_importVars
  PROVE  ImportInv'
<1> USE ImportAssumption DEF ImportInv
<1>1. ASSUME UNCHANGED <<preview, activation, delivered>>, ImportTypeOK',
             \A x \in Importers : importing'[x] \in {importing[x], NotImporting}
      PROVE  ImportInv'
  <2>1. ApprovedLast'
    BY <1>1 DEF ApprovedLast, Settled
  <2>2. OneRequest'
    BY <1>1 DEF OneRequest, Settled, Meant
  <2> QED
    BY <1>1, <2>1, <2>2
<1>2. CASE AddFollowup \/ AnswerQuestions
  <2>1. PICK ready \in BOOLEAN : ReviseSession(ready)
    BY <1>2 DEF AddFollowup, AnswerQuestions
  <2>2. session.version \in 1..MaxAnswers /\ session.version + 1 \in 1..MaxAnswers
    BY <2>1 DEF ReviseSession, ImportTypeOK
  <2>3. session' \in [ready : BOOLEAN, version : 1..MaxAnswers]
    BY <2>1, <2>2 DEF ReviseSession
  <2>4. ImportTypeOK'
    BY <2>1, <2>3 DEF ReviseSession, ImportTypeOK
  <2> QED
    BY <1>1, <2>1, <2>4 DEF ReviseSession
<1>3. CASE LoseSession
  BY <1>1, <1>3 DEF LoseSession, ImportTypeOK
<1>4. ASSUME NEW p \in Importers, AbandonImport(p)
      PROVE  ImportInv'
  BY <1>1, <1>4 DEF AbandonImport, ImportTypeOK
<1>5. CASE UNCHANGED importVars
  BY <1>1, <1>5 DEF importVars, ImportTypeOK
<1> QED
  BY <1>2, <1>3, <1>4, <1>5, CreateKept, DecideKept, RequestKept, CallKept, RecordKept
  DEF ImportNext

-----------------------------------------------------------------------------
\* Whoever repeats an activation, only the approved preview with the approved answers reaches
\* the adapter, and what counts as activated was (activate, _activation_request).
THEOREM OnlyApproved == ImportSpec => []ImportApproved
<1>1. ImportInit => ImportInv
  BY ImportBegins
<1>2. ImportInv /\ [ImportNext]_importVars => ImportInv'
  BY ImportKept
<1> QED
  BY <1>1, <1>2, ApprovedFollows, PTL DEF ImportSpec

-----------------------------------------------------------------------------
(* ConfigActivation: a draft only ever replaces the configuration it was made against. *)

\* The rows of the history, of the drafts and of the processes.
Event == [previous : Configs \cup {NoDigest}, target : Configs, draft : Drafts \cup {NoDraft}]
DraftRow ==
  [status : {"none", "draft", "pending_approval", "approved", "rejected", "activated"},
   baseline : Configs \cup {NoDigest}, digest : Configs \cup {NoDigest}]
ActivatorRow ==
  [pc : {"idle", "release", "check", "activate", "mark"}, draft : Drafts \cup {NoDraft},
   digest : Configs \cup {NoDigest}]

ConfigRows ==
  /\ packages \in [Drafts -> Configs \cup {NoDigest}]
  /\ draft \in [Drafts -> DraftRow]
  /\ releases \in SUBSET Configs
  /\ history \in Seq(Event) /\ Len(history) <= MaxRevisions
  /\ activator \in [Activators -> ActivatorRow]

\* An approved draft was validated, which its packages allowed.
Validated ==
  \A d \in Drafts :
    /\ draft[d].digest = NoDigest <=> draft[d].status \in {"none", "draft"}
    /\ draft[d].status # "none" => packages[d] \in Configs

\* The activations of the history replaced what their drafts were approved against.
HistorySound ==
  \A i \in DOMAIN history :
    /\ history[i].previous = (IF i = 1 THEN NoDigest ELSE history[i - 1].target)
    /\ history[i].target \in releases
    /\ history[i].draft # NoDraft =>
         /\ history[i].previous = draft[history[i].draft].baseline
         /\ draft[history[i].draft].status \in {"approved", "activated"}

\* A process activates an approved draft, and marks it once its digest was active.
Activating(p) ==
  /\ activator[p].pc # "idle" =>
       /\ activator[p].draft \in Drafts
       /\ draft[activator[p].draft].status \in {"approved", "activated"}
  /\ activator[p].pc \in {"check", "activate", "mark"} => activator[p].digest \in Configs
  /\ activator[p].pc = "mark" => \E i \in DOMAIN history : history[i].target = activator[p].digest

\* The inductive invariant of the configuration.
ConfigInv ==
  ConfigRows /\ Validated /\ HistorySound /\ \A p \in Activators : Activating(p)

\* At first nothing was drafted or active.
LEMMA ConfigBegins == ConfigInit => ConfigInv
<1> SUFFICES ASSUME ConfigInit PROVE ConfigInv
  OBVIOUS
<1>1. /\ draft \in [Drafts -> DraftRow]
      /\ \A d \in Drafts : draft[d].status = "none" /\ draft[d].digest = NoDigest
  BY DEF ConfigInit, DraftRow
<1>2. activator \in [Activators -> ActivatorRow] /\ \A p \in Activators : activator[p].pc = "idle"
  BY DEF ConfigInit, ActivatorRow, Waiting
<1>3. history \in Seq(Event) /\ Len(history) = 0 /\ DOMAIN history = {}
  BY DEF ConfigInit
<1> QED
  BY <1>1, <1>2, <1>3, ConfigAssumption
  DEF ConfigInit, ConfigInv, ConfigRows, Validated, HistorySound, Activating

\* What is active is the last target, and no draft's digest while there was none.
LEMMA ActiveLast ==
  ASSUME ConfigRows
  PROVE  /\ Active \in Configs \cup {NoDigest}
         /\ Active = IF Len(history) = 0 THEN NoDigest ELSE history[Len(history)].target
         /\ Active # NoDigest => \E i \in DOMAIN history : history[i].target = Active
<1>1. CASE history = <<>>
  BY <1>1 DEF Active
<1>2. CASE history # <<>>
  <2>1. Len(history) \in DOMAIN history /\ Len(history) # 0 /\ history[Len(history)] \in Event
    BY <1>2 DEF ConfigRows
  <2> QED
    BY <1>2, <2>1 DEF Active, Last, Event
<1> QED
  BY <1>1, <1>2

\* The pointer is moved, for no draft or for one that was approved against what is active.
LEMMA PointKept ==
  ASSUME ConfigRows, HistorySound, NEW digest \in Configs, NEW d \in Drafts \cup {NoDraft},
         Room, Point(digest, d), UNCHANGED <<draft, releases>>,
         d # NoDraft => Active = draft[d].baseline /\ draft[d].status \in {"approved", "activated"}
  PROVE  /\ history' \in Seq(Event) /\ Len(history') <= MaxRevisions
         /\ HistorySound'
         /\ \A x : (\E i \in DOMAIN history : history[i].target = x) \/ x = digest =>
              \E i \in DOMAIN history' : history'[i].target = x
<1>1. CASE Active = digest
  BY <1>1, ActiveLast, ConfigAssumption DEF Point, ConfigRows, HistorySound
<1>2. CASE Active # digest
  <2>1. Active \in Configs \cup {NoDigest}
    BY ActiveLast
  <2>2. PICK event \in Event : event = [previous |-> Active, target |-> digest, draft |-> d]
    BY <2>1 DEF Event
  <2>3. event.previous = Active /\ event.target = digest /\ event.draft = d
    BY <2>2
  <2>4. history' = Append(history, event) /\ digest \in releases
    BY <1>2, <2>2 DEF Point
  <2>5. /\ history' \in Seq(Event) /\ Len(history') = Len(history) + 1 /\ Len(history) \in Nat
        /\ DOMAIN history = 1..Len(history)
        /\ DOMAIN history' = DOMAIN history \cup {Len(history) + 1}
        /\ \A i \in DOMAIN history : history'[i] = history[i]
        /\ history'[Len(history) + 1] = event
    BY <2>4 DEF ConfigRows
  <2>6. Len(history') <= MaxRevisions
    BY <2>5, ConfigAssumption DEF Room
  <2>7. ASSUME NEW i \in DOMAIN history
        PROVE  /\ history'[i].previous = (IF i = 1 THEN NoDigest ELSE history'[i - 1].target)
               /\ history'[i].target \in releases'
               /\ history'[i].draft # NoDraft =>
                    /\ history'[i].previous = draft'[history'[i].draft].baseline
                    /\ draft'[history'[i].draft].status \in {"approved", "activated"}
    <3>1. i \in 1..Len(history) /\ (i # 1 => i - 1 \in DOMAIN history)
      BY <2>5
    <3> QED
      BY <2>5, <3>1 DEF HistorySound
  <2>8. event.previous = (IF Len(history) + 1 = 1 THEN NoDigest ELSE history'[Len(history)].target)
    <3>1. Len(history) # 0 => Len(history) \in DOMAIN history
      BY <2>5
    <3> QED
      BY <2>3, <2>5, <3>1, ActiveLast
  <2>9. HistorySound'
    <3>1. Len(history) + 1 - 1 = Len(history)
      BY <2>5
    <3>2. /\ event.target \in releases'
          /\ event.draft # NoDraft =>
               /\ event.previous = draft'[event.draft].baseline
               /\ draft'[event.draft].status \in {"approved", "activated"}
      BY <2>3, <2>4
    <3>3. ASSUME NEW i \in DOMAIN history', i \notin DOMAIN history
          PROVE  i = Len(history) + 1 /\ history'[i] = event /\ i - 1 = Len(history)
      BY <2>5, <3>1, <3>3
    <3>4. ASSUME NEW i \in DOMAIN history', i \notin DOMAIN history
          PROVE  history'[i].previous = (IF i = 1 THEN NoDigest ELSE history'[i - 1].target)
      BY <2>8, <3>3, <3>4
    <3> QED
      BY <2>7, <3>2, <3>3, <3>4 DEF HistorySound
  <2> QED
    BY <2>3, <2>5, <2>6, <2>9
<1> QED
  BY <1>1, <1>2

\* A release, or the pointer itself, from the command line.
LEMMA DirectKept ==
  ASSUME ConfigInv, NEW digest \in Configs,
         ReleaseDirectly(digest) \/ ActivateDirectly(digest) \/ RollBackTo(digest)
  PROVE  ConfigInv'
<1>1. CASE ReleaseDirectly(digest)
  BY <1>1 DEF ReleaseDirectly, ConfigInv, ConfigRows, Validated, HistorySound, Activating
<1>2. CASE ActivateDirectly(digest) \/ RollBackTo(digest)
  <2>1. Room /\ Point(digest, NoDraft) /\ UNCHANGED <<packages, draft, releases, activator>>
    BY <1>2 DEF ActivateDirectly, RollBackTo
  <2>2. /\ history' \in Seq(Event) /\ Len(history') <= MaxRevisions
        /\ HistorySound'
        /\ \A x : (\E i \in DOMAIN history : history[i].target = x) \/ x = digest =>
             \E i \in DOMAIN history' : history'[i].target = x
    BY <2>1, PointKept DEF ConfigInv
  <2>3. \A p \in Activators : Activating(p)'
    BY <2>1, <2>2 DEF ConfigInv, Activating
  <2> QED
    BY <2>1, <2>2, <2>3 DEF ConfigInv, ConfigRows, Validated
<1> QED
  BY <1>1, <1>2

\* A draft moves on before its activation, or its packages change.
LEMMA DraftKept ==
  ASSUME ConfigInv, NEW d \in Drafts, NEW row \in DraftRow, NEW resolved \in Configs \cup {NoDigest},
         draft' = [draft EXCEPT ![d] = row], packages' = [packages EXCEPT ![d] = resolved],
         UNCHANGED <<releases, history, activator>>,
         row.digest = NoDigest <=> row.status \in {"none", "draft"},
         row.status # "none" => resolved \in Configs,
         draft[d].status \in {"approved", "activated"} =>
           row.status \in {"approved", "activated"} /\ row.baseline = draft[d].baseline
  PROVE  ConfigInv'
<1>1. /\ draft' \in [Drafts -> DraftRow] /\ draft'[d] = row
      /\ \A x \in Drafts \ {d} : draft'[x] = draft[x]
      /\ packages' \in [Drafts -> Configs \cup {NoDigest}] /\ packages'[d] = resolved
      /\ \A x \in Drafts \ {d} : packages'[x] = packages[x]
  BY DEF ConfigInv, ConfigRows
<1>2. ConfigRows' /\ Validated'
  BY <1>1 DEF ConfigInv, ConfigRows, Validated
<1>3. \A i \in DOMAIN history : history[i].draft \in Drafts \cup {NoDraft}
  <2>1. \A i \in DOMAIN history : history[i] \in Event
    BY DEF ConfigInv, ConfigRows
  <2> QED
    BY <2>1 DEF Event
<1>4. HistorySound'
  BY <1>1, <1>3 DEF ConfigInv, HistorySound
<1>5. \A p \in Activators : Activating(p)'
  BY <1>1 DEF ConfigInv, Activating
<1> QED
  BY <1>2, <1>4, <1>5 DEF ConfigInv

\* Drafts are created, validated and decided, and packages edited.
LEMMA PromotionKept ==
  ASSUME ConfigInv, NEW d \in Drafts,
         \/ \E approval \in {"approved", "pending_approval"} : ValidateDraft(d, approval)
         \/ \E decision \in {"approved", "rejected"} : Decide(d, decision)
         \/ \E digest \in Configs : CreateDraft(d, digest) \/ EditPackages(d, digest)
  PROVE  ConfigInv'
<1>1. /\ draft \in [Drafts -> DraftRow] /\ draft[d] \in DraftRow
      /\ packages \in [Drafts -> Configs \cup {NoDigest}]
      /\ draft[d].digest = NoDigest <=> draft[d].status \in {"none", "draft"}
      /\ draft[d].status # "none" => packages[d] \in Configs
      /\ Active \in Configs \cup {NoDigest} /\ NoDigest \notin Configs
  BY ActiveLast, ConfigAssumption DEF ConfigInv, ConfigRows, Validated
<1>2. ASSUME NEW approval \in {"approved", "pending_approval"}, ValidateDraft(d, approval)
      PROVE  ConfigInv'
  <2>1. /\ draft[d].status = "draft" /\ packages' = packages
        /\ draft' = [draft EXCEPT ![d].status = approval, ![d].digest = packages[d]]
        /\ UNCHANGED <<releases, history, activator>>
    BY <1>2 DEF ValidateDraft
  <2>2. PICK resolved \in Configs : resolved = packages[d]
    BY <1>1, <2>1
  <2>3. PICK row \in DraftRow : row = [draft[d] EXCEPT !.status = approval, !.digest = resolved]
    BY <1>1 DEF DraftRow
  <2>4. row.status = approval /\ row.digest = resolved
    BY <1>1, <2>3 DEF DraftRow
  <2>5. draft' = [draft EXCEPT ![d] = row] /\ packages' = [packages EXCEPT ![d] = resolved]
    BY <1>1, <2>1, <2>2, <2>3
  <2>6. /\ row.digest # NoDigest /\ row.status \notin {"none", "draft"}
        /\ draft[d].status \notin {"approved", "activated"}
    BY <1>1, <2>1, <2>4
  <2>7. /\ row.digest = NoDigest <=> row.status \in {"none", "draft"}
        /\ row.status # "none" => resolved \in Configs
        /\ draft[d].status \in {"approved", "activated"} =>
             row.status \in {"approved", "activated"} /\ row.baseline = draft[d].baseline
        /\ resolved \in Configs \cup {NoDigest}
        /\ UNCHANGED <<releases, history, activator>>
    BY <2>1, <2>6
  <2> QED
    BY <2>5, <2>7, DraftKept
<1>3. ASSUME NEW decision \in {"approved", "rejected"}, Decide(d, decision)
      PROVE  ConfigInv'
  <2>1. /\ draft[d].status = "pending_approval" /\ packages' = packages
        /\ draft' = [draft EXCEPT ![d].status = decision]
        /\ UNCHANGED <<releases, history, activator>>
    BY <1>3 DEF Decide
  <2>2. PICK resolved \in Configs : resolved = packages[d]
    BY <1>1, <2>1
  <2>3. PICK row \in DraftRow : row = [draft[d] EXCEPT !.status = decision]
    BY <1>1 DEF DraftRow
  <2>4. row.status = decision /\ row.digest = draft[d].digest
    BY <1>1, <2>3 DEF DraftRow
  <2>5. draft' = [draft EXCEPT ![d] = row] /\ packages' = [packages EXCEPT ![d] = resolved]
    BY <1>1, <2>1, <2>2, <2>3
  <2>6. /\ row.digest # NoDigest /\ row.status \notin {"none", "draft"}
        /\ draft[d].status \notin {"approved", "activated"}
    BY <1>1, <2>1, <2>4
  <2>7. /\ row.digest = NoDigest <=> row.status \in {"none", "draft"}
        /\ row.status # "none" => resolved \in Configs
        /\ draft[d].status \in {"approved", "activated"} =>
             row.status \in {"approved", "activated"} /\ row.baseline = draft[d].baseline
        /\ resolved \in Configs \cup {NoDigest}
        /\ UNCHANGED <<releases, history, activator>>
    BY <2>1, <2>6
  <2> QED
    BY <2>5, <2>7, DraftKept
<1>4. ASSUME NEW digest \in Configs, CreateDraft(d, digest)
      PROVE  ConfigInv'
  <2>1. /\ draft[d].status = "none" /\ packages' = [packages EXCEPT ![d] = digest]
        /\ draft' = [draft EXCEPT ![d].status = "draft", ![d].baseline = Active]
        /\ UNCHANGED <<releases, history, activator>>
    BY <1>4 DEF CreateDraft
  <2>2. PICK active \in Configs \cup {NoDigest} : active = Active
    BY <1>1
  <2>3. PICK row \in DraftRow : row = [draft[d] EXCEPT !.status = "draft", !.baseline = active]
    BY <1>1 DEF DraftRow
  <2>4. row.status = "draft" /\ row.digest = draft[d].digest
    BY <1>1, <2>3 DEF DraftRow
  <2>5. draft' = [draft EXCEPT ![d] = row]
    BY <1>1, <2>1, <2>2, <2>3
  <2> QED
    BY <1>1, <2>1, <2>4, <2>5, DraftKept
<1>5. ASSUME NEW digest \in Configs, EditPackages(d, digest)
      PROVE  ConfigInv'
  <2>1. /\ draft[d].status # "none" /\ packages' = [packages EXCEPT ![d] = digest]
        /\ UNCHANGED <<draft, releases, history, activator>>
    BY <1>5 DEF EditPackages
  <2>2. PICK row \in DraftRow : row = draft[d]
    BY <1>1
  <2>3. draft' = [draft EXCEPT ![d] = row]
    BY <1>1, <2>1, <2>2
  <2> QED
    BY <1>1, <2>1, <2>2, <2>3, DraftKept
<1> QED
  BY <1>2, <1>3, <1>4, <1>5

\* A process takes its next step, and where the pointer or the draft moves, it may.
LEMMA ActivationKept ==
  ASSUME ConfigInv, NEW p \in Activators,
         \/ \E d \in Drafts : BeginActivation(p, d)
         \/ CreateRelease(p) \/ CheckActive(p) \/ ActivateDraft(p) \/ MarkActivated(p)
         \/ Abandon(p)
  PROVE  ConfigInv'
<1>1. /\ activator \in [Activators -> ActivatorRow] /\ activator[p] \in ActivatorRow
      /\ Waiting \in ActivatorRow /\ Waiting.pc = "idle"
      /\ packages \in [Drafts -> Configs \cup {NoDigest}] /\ draft \in [Drafts -> DraftRow]
      /\ Activating(p) /\ NoDigest \notin Configs
  BY ConfigAssumption DEF ConfigInv, ConfigRows, ActivatorRow, Waiting
<1>2. ASSUME NEW row \in ActivatorRow, activator' = [activator EXCEPT ![p] = row],
             UNCHANGED <<packages, draft>>, releases' \in SUBSET Configs, releases \subseteq releases',
             history' \in Seq(Event), Len(history') <= MaxRevisions, HistorySound',
             \A x : (\E i \in DOMAIN history : history[i].target = x) =>
               \E i \in DOMAIN history' : history'[i].target = x,
             row.pc # "idle" => row.draft \in Drafts /\ draft[row.draft].status \in {"approved", "activated"},
             row.pc \in {"check", "activate", "mark"} => row.digest \in Configs,
             row.pc = "mark" => \E i \in DOMAIN history' : history'[i].target = row.digest
      PROVE  ConfigInv'
  <2>1. /\ activator' \in [Activators -> ActivatorRow] /\ activator'[p] = row
        /\ \A o \in Activators \ {p} : activator'[o] = activator[o]
    BY <1>1, <1>2
  <2>2. \A o \in Activators : Activating(o)'
    BY <1>2, <2>1 DEF ConfigInv, Activating
  <2> QED
    BY <1>2, <2>1, <2>2 DEF ConfigInv, ConfigRows, Validated
<1>3. ASSUME UNCHANGED <<releases, history, draft>>
      PROVE  /\ releases' \in SUBSET Configs /\ releases \subseteq releases'
             /\ history' \in Seq(Event) /\ Len(history') <= MaxRevisions /\ HistorySound'
             /\ \A x : (\E i \in DOMAIN history : history[i].target = x) =>
                  \E i \in DOMAIN history' : history'[i].target = x
  BY <1>3 DEF ConfigInv, ConfigRows, HistorySound
<1>4. ASSUME NEW d \in Drafts, BeginActivation(p, d)
      PROVE  ConfigInv'
  <2>1. /\ draft[d].status = "approved" /\ UNCHANGED <<packages, draft, releases, history>>
        /\ activator' = [activator EXCEPT ![p] = [Waiting EXCEPT !.pc = "release", !.draft = d]]
    BY <1>4 DEF BeginActivation
  <2>2. PICK row \in ActivatorRow : row = [Waiting EXCEPT !.pc = "release", !.draft = d]
    BY <1>1 DEF ActivatorRow
  <2>3. row.pc = "release" /\ row.draft = d
    BY <1>1, <2>2 DEF ActivatorRow
  <2> QED
    BY <1>2, <1>3, <2>1, <2>2, <2>3
<1>5. CASE CreateRelease(p)
  <2>1. PICK d \in Drafts : d = activator[p].draft /\ draft[d].status \in {"approved", "activated"}
    BY <1>1, <1>5 DEF CreateRelease, Activating
  <2>2. PICK digest \in Configs : digest = packages[d]
    BY <1>1, <2>1 DEF ConfigInv, Validated
  <2>3. /\ releases' = releases \cup {digest} /\ UNCHANGED <<packages, draft, history>>
        /\ activator' = [activator EXCEPT ![p].pc = "check", ![p].digest = digest]
    BY <1>5, <2>1, <2>2 DEF CreateRelease
  <2>4. PICK row \in ActivatorRow : row = [activator[p] EXCEPT !.pc = "check", !.digest = digest]
    BY <1>1 DEF ActivatorRow
  <2>5. row.pc = "check" /\ row.digest = digest /\ row.draft = d
    BY <1>1, <2>1, <2>4 DEF ActivatorRow
  <2>6. activator' = [activator EXCEPT ![p] = row]
    BY <1>1, <2>3, <2>4
  <2>7. /\ releases' \in SUBSET Configs /\ releases \subseteq releases'
        /\ history' \in Seq(Event) /\ Len(history') <= MaxRevisions /\ HistorySound'
    BY <2>3 DEF ConfigInv, ConfigRows, HistorySound
  <2> QED
    BY <1>2, <2>1, <2>3, <2>5, <2>6, <2>7
<1>6. CASE CheckActive(p)
  <2>1. PICK pc \in {"mark", "activate"} :
          /\ pc = IF Active = activator[p].digest THEN "mark" ELSE "activate"
          /\ activator' = [activator EXCEPT ![p].pc = pc]
          /\ UNCHANGED <<packages, draft, releases, history>>
    BY <1>6 DEF CheckActive
  <2>2. PICK row \in ActivatorRow : row = [activator[p] EXCEPT !.pc = pc]
    BY <1>1 DEF ActivatorRow
  <2>3. row.pc = pc /\ row.draft = activator[p].draft /\ row.digest = activator[p].digest
    BY <1>1, <2>2 DEF ActivatorRow
  <2>4. /\ row.digest \in Configs /\ row.draft \in Drafts
        /\ draft[row.draft].status \in {"approved", "activated"}
    BY <1>1, <1>6, <2>3 DEF CheckActive, Activating
  <2>5. pc = "mark" => \E i \in DOMAIN history : history[i].target = row.digest
    BY <1>1, <2>1, <2>3, <2>4, ActiveLast DEF ConfigInv
  <2>6. activator' = [activator EXCEPT ![p] = row]
    BY <1>1, <2>1, <2>2
  <2> QED
    BY <1>2, <1>3, <2>1, <2>3, <2>4, <2>5, <2>6
<1>7. CASE ActivateDraft(p)
  <2>1. PICK d \in Drafts : d = activator[p].draft /\ draft[d].status \in {"approved", "activated"}
    BY <1>1, <1>7 DEF ActivateDraft, Activating
  <2>2. PICK digest \in Configs : digest = activator[p].digest
    BY <1>1, <1>7 DEF ActivateDraft, Activating
  <2>3. /\ Room /\ Active = draft[d].baseline /\ Point(digest, d)
        /\ UNCHANGED <<packages, draft, releases>> /\ activator' = [activator EXCEPT ![p].pc = "mark"]
    BY <1>7, <2>1, <2>2 DEF ActivateDraft, Expected
  <2>4. /\ history' \in Seq(Event) /\ Len(history') <= MaxRevisions
        /\ HistorySound'
        /\ \A x : (\E i \in DOMAIN history : history[i].target = x) \/ x = digest =>
             \E i \in DOMAIN history' : history'[i].target = x
    BY <2>1, <2>3, PointKept DEF ConfigInv
  <2>5. PICK row \in ActivatorRow : row = [activator[p] EXCEPT !.pc = "mark"]
    BY <1>1 DEF ActivatorRow
  <2>6. row.pc = "mark" /\ row.draft = d /\ row.digest = digest
    BY <1>1, <2>1, <2>2, <2>5 DEF ActivatorRow
  <2>7. activator' = [activator EXCEPT ![p] = row] /\ releases' = releases /\ releases \in SUBSET Configs
    BY <1>1, <2>3, <2>5 DEF ConfigInv, ConfigRows
  <2> QED
    BY <1>2, <2>1, <2>3, <2>4, <2>6, <2>7
<1>8. CASE MarkActivated(p)
  <2>1. PICK d \in Drafts : d = activator[p].draft /\ draft[d].status \in {"approved", "activated"}
    BY <1>1, <1>8 DEF MarkActivated, Activating
  <2>2. /\ draft' = [draft EXCEPT ![d].status = "activated"]
        /\ activator' = [activator EXCEPT ![p] = Waiting] /\ UNCHANGED <<packages, releases, history>>
    BY <1>8, <2>1 DEF MarkActivated
  <2>3. PICK row \in DraftRow : row = [draft[d] EXCEPT !.status = "activated"]
    BY <1>1 DEF DraftRow
  <2>4. /\ row.status = "activated" /\ row.baseline = draft[d].baseline /\ row.digest = draft[d].digest
    BY <1>1, <2>3 DEF DraftRow
  <2>5. /\ draft' \in [Drafts -> DraftRow] /\ draft'[d] = row
        /\ \A x \in Drafts \ {d} : draft'[x] = draft[x]
        /\ activator' \in [Activators -> ActivatorRow] /\ activator'[p].pc = "idle"
        /\ \A o \in Activators \ {p} : activator'[o] = activator[o]
    BY <1>1, <2>2, <2>3
  <2>6. ConfigRows' /\ Validated'
    BY <1>1, <2>1, <2>2, <2>4, <2>5 DEF ConfigInv, ConfigRows, Validated
  <2>7. \A i \in DOMAIN history : history[i].draft \in Drafts \cup {NoDraft}
    <3>1. \A i \in DOMAIN history : history[i] \in Event
      BY DEF ConfigInv, ConfigRows
    <3> QED
      BY <3>1 DEF Event
  <2>8. HistorySound'
    BY <2>1, <2>2, <2>4, <2>5, <2>7 DEF ConfigInv, HistorySound
  <2>9. \A o \in Activators : Activating(o)'
    BY <2>2, <2>4, <2>5 DEF ConfigInv, Activating
  <2> QED
    BY <2>6, <2>8, <2>9 DEF ConfigInv
<1>9. CASE Abandon(p)
  BY <1>1, <1>2, <1>3, <1>9 DEF Abandon
<1> QED
  BY <1>4, <1>5, <1>6, <1>7, <1>8, <1>9

\* Whatever activations, rollbacks and deaths come between a draft's validation and its
\* activation, it only replaces what it was approved against, and is only marked when its
\* release was active (config_activation.py _change_active; config_promotions.py activate).
THEOREM ReplacesItsBaseline ==
  ConfigInit /\ [][ConfigNext]_configVars => [](ConfigTypeOK /\ OnlyOverItsBaseline)
<1>1. ASSUME ConfigInv
      PROVE  ConfigTypeOK /\ OnlyOverItsBaseline
  <2>1. \A i \in DOMAIN history : history[i] \in Event
    BY <1>1 DEF ConfigInv, ConfigRows
  <2>2. ConfigTypeOK
    BY <1>1, <2>1 DEF ConfigInv, ConfigRows, Validated, ConfigTypeOK, Event, DraftRow, ActivatorRow
  <2>3. OnlyOverItsBaseline
    BY <1>1 DEF ConfigInv, HistorySound, Activating, OnlyOverItsBaseline
  <2> QED
    BY <2>2, <2>3
<1>2. ConfigInv /\ [ConfigNext]_configVars => ConfigInv'
  <2> SUFFICES ASSUME ConfigInv, [ConfigNext]_configVars PROVE ConfigInv'
    OBVIOUS
  <2>1. CASE UNCHANGED configVars
    BY <2>1 DEF configVars, ConfigInv, ConfigRows, Validated, HistorySound, Activating
  <2> QED
    BY <2>1, DirectKept, PromotionKept, ActivationKept DEF ConfigNext
<1> QED
  BY <1>1, <1>2, ConfigBegins, PTL

-----------------------------------------------------------------------------
(* PmMonitor: what a sweep reported has its question or its envelope. *)

Envelopes == Works \X Versions \X (1..MaxLeases)

\* A sweep under way.
Sweeping ==
  [owner : Monitors, rows : [Works -> Row], todo : SUBSET Works, found : [Works -> Disposition],
   routes : SUBSET Envelopes]

SweepTypeOK ==
  /\ MonitorTypeOK
  /\ sweep = NoSweep \/ sweep \in Sweeping
  /\ monitor.owner # NoMonitor => monitor.token \in 1..MaxLeases

\* An item that waits for the monitor's question has that question's gate, whatever the sweep
\* still takes it for.
QuestionsAsked(rows) ==
  \A w \in Works : rows[w].status = "asked" =>
    rows[w].version - 1 \in Versions /\ asked[<<w, rows[w].version - 1>>] # "none"

\* There is one envelope at most for a version of an item, and the sweep adds none to it.
RoutedOnce ==
  /\ \A e, f \in pmQueue : e[1] = f[1] /\ e[2] = f[2] => e = f
  /\ sweep # NoSweep =>
       /\ \A e \in sweep.routes : e[3] = monitor.token
       /\ \A e \in sweep.routes, f \in pmQueue : ~(e[1] = f[1] /\ e[2] = f[2])
  /\ \A e \in pmQueue : e[3] <= monitor.token

\* What was found, or is reported, is there.
Backed(found, queue) ==
  \A w \in Works :
    /\ found[w].kind = "pm_routed" => \E e \in queue : e[1] = w /\ e[2] = found[w].version
    /\ found[w].kind = "sponsor_question" =>
         found[w].about \in Versions /\ asked[<<w, found[w].about>>] # "none"

\* The inductive invariant of the monitor.
MonitorInv ==
  /\ SweepTypeOK
  /\ QuestionsAsked(item) /\ (sweep # NoSweep => QuestionsAsked(sweep.rows))
  /\ RoutedOnce
  /\ Backed(disposition, pmQueue)
  /\ sweep # NoSweep => Backed(sweep.found, pmQueue \cup sweep.routes)

\* At first nothing was asked, routed or reported.
LEMMA MonitorBegins == MonitorInit => MonitorInv
<1> SUFFICES ASSUME MonitorInit PROVE MonitorInv
  OBVIOUS
<1>1. /\ item \in [Works -> Row] /\ \A w \in Works : item[w].status = "new"
      /\ disposition \in [Works -> Disposition] /\ \A w \in Works : disposition[w].kind = "none"
  <2>1. \A w \in Works : item[w] \in Row /\ item[w].status = "new"
    <3>1. 1 \in Versions
      BY MonitorAssumption DEF Versions
    <3>2. \A p \in Payloads :
            [status |-> "new", version |-> 1, payload |-> p, continues |-> FALSE] \in Row
      BY <3>1 DEF Row, Payloads
    <3> DEFINE First == {[status |-> "new", version |-> 1, payload |-> p, continues |-> FALSE] :
                         p \in Payloads}
    <3>3. ASSUME NEW row \in First
          PROVE  row \in Row /\ row.status = "new"
      <4>1. PICK p \in Payloads :
              row = [status |-> "new", version |-> 1, payload |-> p, continues |-> FALSE]
        OBVIOUS
      <4> QED
        BY <3>2, <4>1
    <3>4. item \in [Works -> First]
      BY DEF MonitorInit
    <3> HIDE DEF First
    <3> QED
      BY <3>3, <3>4
  <2>2. Unseen \in Disposition /\ Unseen.kind = "none"
    BY MonitorAssumption DEF Unseen, Disposition
  <2> QED
    BY <2>1, <2>2 DEF MonitorInit
<1>2. SweepTypeOK
  BY <1>1, MonitorAssumption DEF MonitorInit, SweepTypeOK, MonitorTypeOK, NoSweep
<1> QED
  BY <1>1, <1>2 DEF MonitorInit, MonitorInv, QuestionsAsked, RoutedOnce, Backed

\* Gates are only added, or decided.
Kept(k) == asked[k] # "none" => asked'[k] # "none"

\* Work moves on outside the sweep.
LEMMA WorkKept ==
  ASSUME MonitorInv, UNCHANGED <<monitor, held, pmQueue, pmRoutable, disposition, sweep>>,
         item' \in [Works -> Row], asked' \in [Works \X Versions -> {"none", "pending", "decided"}],
         \A k \in Works \X Versions : Kept(k),
         QuestionsAsked(item)'
  PROVE  MonitorInv'
<1>1. SweepTypeOK'
  BY DEF MonitorInv, SweepTypeOK, MonitorTypeOK
<1>2. RoutedOnce'
  BY DEF MonitorInv, RoutedOnce
<1>3. sweep # NoSweep => QuestionsAsked(sweep.rows)'
  BY DEF MonitorInv, QuestionsAsked, Kept
<1>4. Backed(disposition, pmQueue)' /\ (sweep # NoSweep => Backed(sweep.found, pmQueue \cup sweep.routes)')
  BY DEF MonitorInv, Backed, Kept
<1> QED
  BY <1>1, <1>2, <1>3, <1>4 DEF MonitorInv

\* No such move makes an item wait for the monitor's question.
LEMMA MoveKept ==
  ASSUME MonitorInv, NEW w \in Works, MoveOn(w) \/ MoveQueue(w) \/ DecideGates(w)
  PROVE  MonitorInv'
<1>1. item \in [Works -> Row] /\ item[w] \in Row /\ asked \in [Works \X Versions -> {"none", "pending", "decided"}]
  BY DEF MonitorInv, SweepTypeOK, MonitorTypeOK
<1>2. UNCHANGED <<monitor, held, pmQueue, pmRoutable, disposition, sweep>>
  BY DEF MoveOn, MoveQueue, DecideGates
<1>3. PICK row \in Row : item' = [item EXCEPT ![w] = row] /\ row.status # "asked"
  <2>1. ASSUME MoveOn(w)
        PROVE  \E row \in Row : item' = [item EXCEPT ![w] = row] /\ row.status # "asked"
    <3>1. PICK status \in {"active", "gated", "done"}, c \in BOOLEAN :
            item' = [item EXCEPT ![w].status = status, ![w].version = @ + 1,
                                 ![w].continues = c]
      BY <2>1 DEF MoveOn
    <3>2. PICK v \in Versions : v = item[w].version + 1
      <4>1. item[w].version \in 1..MaxVersion /\ item[w].version < MaxVersion
        BY <1>1, <2>1 DEF MoveOn, Row, Versions
      <4> QED
        BY <4>1, MonitorAssumption DEF Versions
    <3>3. PICK row \in Row :
            row = [item[w] EXCEPT !.status = status, !.version = v, !.continues = c]
      BY <1>1 DEF Row
    <3>4. row.status # "asked"
      BY <1>1, <3>3 DEF Row
    <3> QED
      BY <1>1, <3>1, <3>2, <3>3, <3>4
  <2>2. ASSUME MoveQueue(w)
        PROVE  \E row \in Row : item' = [item EXCEPT ![w] = row] /\ row.status # "asked"
    <3>1. PICK row \in Row : row = [item[w] EXCEPT !.continues = ~item[w].continues]
      BY <1>1 DEF Row
    <3>2. row.status \in {"new", "active"}
      BY <1>1, <2>2, <3>1 DEF MoveQueue, Row
    <3> QED
      BY <1>1, <2>2, <3>1, <3>2 DEF MoveQueue
  <2>3. ASSUME DecideGates(w)
        PROVE  \E row \in Row : item' = [item EXCEPT ![w] = row] /\ row.status # "asked"
    <3>1. item[w].version + 1 \in Versions
      BY <1>1, <2>3, MonitorAssumption DEF DecideGates, Row, Versions
    <3>2. PICK v \in Versions : v = item[w].version + 1
      BY <3>1
    <3>3. PICK row \in Row :
            row = [item[w] EXCEPT !.status = "active", !.version = v]
      BY <1>1 DEF Row
    <3>4. row.status = "active"
      BY <1>1, <3>3 DEF Row
    <3> QED
      BY <1>1, <2>3, <3>2, <3>3, <3>4 DEF DecideGates
  <2> QED
    BY <2>1, <2>2, <2>3
<1>4. /\ item' \in [Works -> Row] /\ item'[w] = row
      /\ \A x \in Works \ {w} : item'[x] = item[x]
  BY <1>1, <1>3
<1>5. /\ asked' \in [Works \X Versions -> {"none", "pending", "decided"}]
      /\ \A k \in Works \X Versions : Kept(k)
  <2>1. CASE UNCHANGED asked
    BY <1>1, <2>1 DEF Kept
  <2>2. CASE DecideGates(w)
    BY <1>1, <2>2 DEF DecideGates, Kept
  <2> QED
    BY <2>1, <2>2 DEF MoveOn, MoveQueue
<1>6. QuestionsAsked(item)'
  BY <1>3, <1>4, <1>5 DEF MonitorInv, QuestionsAsked, Kept
<1> QED
  BY <1>2, <1>4, <1>5, <1>6, WorkKept

\* The sweep found row for an item, and routes more envelopes.
SweptTo(w, row, more) ==
  /\ sweep' \in Sweeping
  /\ sweep'.owner = sweep.owner /\ sweep'.rows = sweep.rows
  /\ sweep'.found[w] = row /\ \A x \in Works \ {w} : sweep'.found[x] = sweep.found[x]
  /\ sweep'.todo = sweep.todo \ {w} /\ sweep'.routes = sweep.routes \cup more

\* What was found of one item is there, and the rest as it was.
LEMMA FindingKept ==
  ASSUME MonitorInv, sweep \in Sweeping, NEW w \in Works, NEW row \in Disposition,
         NEW more \in SUBSET Envelopes, SweptTo(w, row, more),
         UNCHANGED <<monitor, held, pmQueue, pmRoutable, disposition>>,
         item' \in [Works -> Row], asked' \in [Works \X Versions -> {"none", "pending", "decided"}],
         \A k \in Works \X Versions : Kept(k),
         QuestionsAsked(item)',
         \A e \in more : e[3] = monitor.token,
         \A e \in more, f \in pmQueue : ~(e[1] = f[1] /\ e[2] = f[2]),
         row.kind = "pm_routed" => \E e \in pmQueue \cup more : e[1] = w /\ e[2] = row.version,
         row.kind = "sponsor_question" => row.about \in Versions /\ asked'[<<w, row.about>>] # "none"
  PROVE  MonitorInv'
<1>1. sweep # NoSweep /\ sweep' # NoSweep /\ sweep.owner # NoMonitor
  BY MonitorAssumption DEF SweptTo, Sweeping, NoSweep
<1>2. SweepTypeOK'
  BY <1>1 DEF MonitorInv, SweepTypeOK, MonitorTypeOK, SweptTo, Sweeping
<1>3. RoutedOnce'
  BY <1>1 DEF MonitorInv, RoutedOnce, SweptTo
<1>4. QuestionsAsked(sweep.rows)'
  BY <1>1 DEF MonitorInv, QuestionsAsked, SweptTo, Kept
<1>5. Backed(disposition, pmQueue)'
  BY DEF MonitorInv, Backed, Kept
<1>6. Backed(sweep.found, pmQueue \cup sweep.routes)'
  BY <1>1 DEF MonitorInv, Backed, Kept, SweptTo
<1> QED
  BY <1>2, <1>3, <1>4, <1>5, <1>6 DEF MonitorInv

\* What Found, and the routes of an item, make of the sweep.
LEMMA FoundSwept ==
  ASSUME sweep \in Sweeping, NEW w \in Works, NEW row \in Disposition,
         NEW more \in SUBSET Envelopes,
         sweep' = [sweep EXCEPT !.todo = @ \ {w}, !.found[w] = row, !.routes = @ \cup more]
  PROVE  SweptTo(w, row, more)
BY DEF SweptTo, Sweeping

\* A sweep that has something to do is under way, and its lease has a token.
LEMMA SweepUnderWay ==
  ASSUME MonitorInv, sweep # NoSweep
  PROVE  /\ sweep \in Sweeping /\ monitor.token \in 1..MaxLeases
         /\ sweep.rows \in [Works -> Row] /\ QuestionsAsked(sweep.rows)
BY MonitorAssumption DEF MonitorInv, SweepTypeOK, MonitorTypeOK, Sweeping

\* What the sweep finds of an item without a step of its own outside the sweep.
LEMMA FindKept ==
  ASSUME MonitorInv, NEW w \in Works, ObserveGated(w) \/ ObserveProgress(w) \/ RouteToPm(w)
  PROVE  MonitorInv'
<1>1. w \in sweep.todo /\ UNCHANGED <<monitor, held, item, asked, pmQueue, pmRoutable, disposition>>
  BY DEF ObserveGated, ObserveProgress, RouteToPm
<1>2. sweep # NoSweep
  BY <1>1 DEF NoSweep
<1>3. /\ sweep \in Sweeping /\ sweep.rows[w] \in Row /\ monitor.token \in 1..MaxLeases
      /\ QuestionsAsked(sweep.rows)
  BY <1>2, SweepUnderWay
<1>4. PICK v \in Versions : v = sweep.rows[w].version
  BY <1>3 DEF Row
<1>5. /\ v \in 0..MaxVersion /\ 0 \in 0..MaxVersion
      /\ item' \in [Works -> Row] /\ asked' \in [Works \X Versions -> {"none", "pending", "decided"}]
      /\ \A k \in Works \X Versions : Kept(k)
      /\ QuestionsAsked(item)'
  BY <1>1, MonitorAssumption
  DEF MonitorInv, SweepTypeOK, MonitorTypeOK, Versions, Kept, QuestionsAsked
<1>6. ASSUME NEW kind \in {"waiting_sponsor", "progressing", "routing_blocked"}, sweep' = Found(w, kind, 0)
      PROVE  MonitorInv'
  <2>1. PICK row \in Disposition : row = [kind |-> kind, version |-> v, about |-> 0]
    BY <1>5 DEF Disposition
  <2>2. row.kind # "pm_routed" /\ row.kind # "sponsor_question"
    BY <2>1
  <2>3. sweep' = [sweep EXCEPT !.todo = @ \ {w}, !.found[w] = row, !.routes = @ \cup {}]
    BY <1>3, <1>4, <1>6, <2>1 DEF Found, Sweeping
  <2>4. SweptTo(w, row, {})
    BY <1>3, <2>3, FoundSwept
  <2>5. {} \in SUBSET Envelopes /\ UNCHANGED <<monitor, held, pmQueue, pmRoutable, disposition>>
    BY <1>1
  <2> QED
    BY <1>3, <1>5, <2>2, <2>4, <2>5, FindingKept
<1>7. ASSUME sweep.rows[w].status = "asked", sweep' = Found(w, "sponsor_question", sweep.rows[w].version - 1)
      PROVE  MonitorInv'
  <2>1. v - 1 \in Versions /\ v - 1 \in 0..MaxVersion /\ asked[<<w, v - 1>>] # "none"
    BY <1>3, <1>4, <1>7, MonitorAssumption DEF QuestionsAsked, Versions
  <2>2. PICK row \in Disposition : row = [kind |-> "sponsor_question", version |-> v, about |-> v - 1]
    BY <1>5, <2>1 DEF Disposition
  <2>3. row.kind = "sponsor_question" /\ row.about = v - 1
    BY <2>2
  <2>4. sweep' = [sweep EXCEPT !.todo = @ \ {w}, !.found[w] = row, !.routes = @ \cup {}]
    BY <1>3, <1>4, <1>7, <2>2 DEF Found, Sweeping
  <2>5. SweptTo(w, row, {})
    BY <1>3, <2>4, FoundSwept
  <2> QED
    BY <1>1, <1>3, <1>5, <2>1, <2>3, <2>5, FindingKept
<1>8. ASSUME RouteToPm(w), RoutedBefore(w, v, monitor.token) \/ pmRoutable
      PROVE  MonitorInv'
  <2>1. PICK row \in Disposition : row = [kind |-> "pm_routed", version |-> v, about |-> v]
    BY <1>5 DEF Disposition
  <2>2. PICK more \in SUBSET Envelopes :
          more = IF RoutedBefore(w, v, monitor.token) THEN {} ELSE {<<w, v, monitor.token>>}
    <3>1. {<<w, v, monitor.token>>} \in SUBSET Envelopes
      BY <1>3 DEF Envelopes
    <3> QED
      BY <3>1
  <2>3. row.kind = "pm_routed" /\ row.version = v
    BY <2>1
  <2>4. IF RoutedBefore(w, v, monitor.token) THEN sweep' = Found(w, "pm_routed", v)
        ELSE sweep' = [Found(w, "pm_routed", v) EXCEPT !.routes = @ \cup {<<w, v, monitor.token>>}]
    BY <1>4, <1>8 DEF RouteToPm
  <2>5. sweep' = [sweep EXCEPT !.todo = @ \ {w}, !.found[w] = row, !.routes = @ \cup more]
    <3>1. Found(w, "pm_routed", v) = [sweep EXCEPT !.todo = @ \ {w}, !.found[w] = row]
      BY <1>3, <1>4, <2>1 DEF Found, Sweeping
    <3>2. CASE RoutedBefore(w, v, monitor.token)
      BY <1>3, <2>2, <2>4, <3>1, <3>2 DEF Sweeping
    <3>3. CASE ~RoutedBefore(w, v, monitor.token)
      BY <1>3, <2>2, <2>4, <3>1, <3>3 DEF Sweeping
    <3> QED
      BY <3>2, <3>3
  <2>6. SweptTo(w, row, more)
    BY <1>3, <2>5, FoundSwept
  <2>7. \A e \in pmQueue : e \in Envelopes /\ e[3] <= monitor.token
    BY DEF MonitorInv, SweepTypeOK, MonitorTypeOK, RoutedOnce, Envelopes
  <2>8. RoutedBefore(w, v, monitor.token) <=> \E e \in pmQueue : e[1] = w /\ e[2] = v
    <3>1. ASSUME NEW e \in pmQueue, e[1] = w, e[2] = v
          PROVE  RoutedBefore(w, v, monitor.token)
      <4>1. e = <<w, v, e[3]>> /\ e[3] \in 1..MaxLeases /\ e[3] <= monitor.token
        BY <2>7, <3>1 DEF Envelopes
      <4>2. e[3] \in 1..monitor.token
        BY <1>3, <4>1, MonitorAssumption
      <4> QED
        BY <4>1, <4>2 DEF RoutedBefore
    <3> QED
      BY <3>1 DEF RoutedBefore
  <2>9. /\ \A e \in more : e[3] = monitor.token
        /\ \A e \in more, f \in pmQueue : ~(e[1] = f[1] /\ e[2] = f[2])
        /\ \E e \in pmQueue \cup more : e[1] = w /\ e[2] = row.version
    BY <2>2, <2>3, <2>8
  <2> QED
    BY <1>1, <1>3, <1>5, <2>3, <2>6, <2>9, FindingKept
<1>9. ASSUME RouteToPm(w), ~RoutedBefore(w, v, monitor.token), ~pmRoutable
      PROVE  sweep' = Found(w, "routing_blocked", 0)
  BY <1>4, <1>9 DEF RouteToPm
<1> QED
  BY <1>6, <1>7, <1>8, <1>9 DEF ObserveGated, ObserveProgress

\* A gate is opened for the item the sweep asks about, whatever becomes of the sweep.
LEMMA AskKept ==
  ASSUME MonitorInv, NEW w \in Works, AskSponsor(w)
  PROVE  MonitorInv'
<1>1. w \in sweep.todo /\ UNCHANGED <<monitor, held, pmQueue, pmRoutable, disposition>>
  BY DEF AskSponsor
<1>2. sweep # NoSweep
  BY <1>1 DEF NoSweep
<1>3. /\ sweep \in Sweeping /\ sweep.rows[w] \in Row /\ item \in [Works -> Row] /\ item[w] \in Row
      /\ asked \in [Works \X Versions -> {"none", "pending", "decided"}]
  BY <1>2, SweepUnderWay DEF MonitorInv, SweepTypeOK, MonitorTypeOK
<1>4. PICK v \in Versions : v = sweep.rows[w].version
  BY <1>3 DEF Row
<1>5. PICK after \in Versions : after = v + 1
  BY <1>4, MonitorAssumption DEF AskSponsor, Versions
<1>6. /\ asked' = [asked EXCEPT ![<<w, v>>] = "pending"]
      /\ item' = [item EXCEPT ![w].status = "asked", ![w].version = after]
  BY <1>4, <1>5 DEF AskSponsor
<1>16. sweep' = Found(w, "sponsor_question", v)
  BY <1>4 DEF AskSponsor
<1>7. /\ asked' \in [Works \X Versions -> {"none", "pending", "decided"}]
      /\ asked'[<<w, v>>] = "pending"
      /\ \A k \in Works \X Versions : Kept(k)
  BY <1>3, <1>6 DEF Kept
<1>8. PICK row \in Row : row = [item[w] EXCEPT !.status = "asked", !.version = after]
  BY <1>3 DEF Row
<1>9. /\ item' \in [Works -> Row] /\ item'[w] = row /\ row.version = after
      /\ \A x \in Works \ {w} : item'[x] = item[x]
  BY <1>3, <1>6, <1>8 DEF Row
<1>10. after - 1 = v
  BY <1>5 DEF Versions
<1>11. QuestionsAsked(item)'
  BY <1>7, <1>9, <1>10 DEF MonitorInv, QuestionsAsked, Kept
<1>12. PICK found \in Disposition : found = [kind |-> "sponsor_question", version |-> v, about |-> v]
  <2>1. v \in 0..MaxVersion
    BY MonitorAssumption DEF Versions
  <2> QED
    BY <2>1 DEF Disposition
<1>13. found.kind = "sponsor_question" /\ found.about = v
  BY <1>12
<1>14. sweep' = [sweep EXCEPT !.todo = @ \ {w}, !.found[w] = found, !.routes = @ \cup {}]
  <2>1. sweep' = [sweep EXCEPT !.todo = @ \ {w}, !.found[w] = found]
    BY <1>4, <1>12, <1>16 DEF Found
  <2> QED
    BY <1>3, <2>1 DEF Sweeping
<1>15. SweptTo(w, found, {})
  BY <1>3, <1>14, FoundSwept
<1>17. asked'[<<w, found.about>>] # "none" /\ found.about \in Versions /\ found.kind # "pm_routed"
  BY <1>7, <1>13
<1>18. {} \in SUBSET Envelopes /\ item' \in [Works -> Row]
  BY <1>9
<1> QED
  BY <1>1, <1>3, <1>7, <1>11, <1>15, <1>17, <1>18, FindingKept

\* The lease, and the beginning and the end of a sweep.
LEMMA LeaseKept ==
  ASSUME MonitorInv, \/ LapseMonitor \/ CommitSweep \/ AbortSweep \/ ChangeRoles
                     \/ \E m \in Monitors : ClaimMonitor(m) \/ BeginSweep(m)
  PROVE  MonitorInv'
<1>1. /\ monitor \in [owner : Monitors \cup {NoMonitor}, token : 0..MaxLeases, live : BOOLEAN]
      /\ sweep # NoSweep => sweep \in Sweeping /\ sweep.owner # NoMonitor /\ sweep.owner = monitor.owner
      /\ NoSweep.owner = NoMonitor
  BY MonitorAssumption DEF MonitorInv, SweepTypeOK, MonitorTypeOK, Sweeping, NoSweep
<1>2. ASSUME LapseMonitor \/ ChangeRoles
      PROVE  MonitorInv'
  <2>1. /\ monitor' \in [owner : Monitors \cup {NoMonitor}, token : 0..MaxLeases, live : BOOLEAN]
        /\ monitor'.owner = monitor.owner /\ monitor'.token = monitor.token
        /\ pmRoutable' \in BOOLEAN
        /\ UNCHANGED <<held, item, asked, pmQueue, disposition, sweep>>
    BY <1>1, <1>2 DEF LapseMonitor, ChangeRoles, MonitorInv, SweepTypeOK, MonitorTypeOK
  <2>2. SweepTypeOK'
    BY <2>1 DEF MonitorInv, SweepTypeOK, MonitorTypeOK
  <2>3. RoutedOnce'
    BY <2>1 DEF MonitorInv, RoutedOnce
  <2> QED
    BY <2>1, <2>2, <2>3 DEF MonitorInv, QuestionsAsked, Backed
<1>3. CASE AbortSweep
  <2>1. sweep' = NoSweep /\ UNCHANGED <<monitor, held, item, asked, pmQueue, pmRoutable, disposition>>
    BY <1>3 DEF AbortSweep
  <2> QED
    BY <1>1, <2>1 DEF MonitorInv, SweepTypeOK, MonitorTypeOK, QuestionsAsked, Backed, RoutedOnce
<1>4. CASE CommitSweep
  <2>1. /\ sweep # NoSweep /\ sweep \in Sweeping
        /\ disposition' = sweep.found /\ pmQueue' = pmQueue \cup sweep.routes
        /\ sweep' = NoSweep /\ UNCHANGED <<monitor, held, item, asked, pmRoutable>>
    BY <1>1, <1>4 DEF CommitSweep
  <2>2. disposition' \in [Works -> Disposition] /\ sweep.routes \subseteq Envelopes
    BY <2>1 DEF Sweeping
  <2>3. SweepTypeOK'
    BY <1>1, <2>1, <2>2 DEF MonitorInv, SweepTypeOK, MonitorTypeOK, Envelopes
  <2>4. \A e \in sweep.routes : e[3] = monitor.token /\ e = <<e[1], e[2], e[3]>>
    BY <2>1, <2>2 DEF MonitorInv, RoutedOnce, Envelopes
  <2>5. RoutedOnce'
    <3>1. \A e, f \in pmQueue' : e[1] = f[1] /\ e[2] = f[2] => e = f
      BY <2>1, <2>4 DEF MonitorInv, RoutedOnce
    <3>2. \A e \in pmQueue' : e[3] <= monitor.token
      BY <1>1, <2>1, <2>4, MonitorAssumption DEF MonitorInv, RoutedOnce
    <3> QED
      BY <2>1, <3>1, <3>2 DEF RoutedOnce
  <2> QED
    BY <2>1, <2>3, <2>5 DEF MonitorInv, QuestionsAsked, Backed
<1>5. ASSUME NEW m \in Monitors, ClaimMonitor(m)
      PROVE  MonitorInv'
  <2>1. PICK token \in 1..MaxLeases : token = monitor.token + 1
    BY <1>1, <1>5, MonitorAssumption DEF ClaimMonitor
  <2>2. /\ sweep = NoSweep /\ monitor' = [owner |-> m, token |-> token, live |-> TRUE]
        /\ held' = [held EXCEPT ![m] = token]
        /\ UNCHANGED <<item, asked, pmQueue, pmRoutable, disposition, sweep>>
    BY <1>5, <2>1 DEF ClaimMonitor
  <2>3. /\ monitor' \in [owner : Monitors \cup {NoMonitor}, token : 0..MaxLeases, live : BOOLEAN]
        /\ monitor'.token = token /\ monitor.token <= token
    BY <1>1, <2>1, <2>2, MonitorAssumption
  <2>4. SweepTypeOK'
    BY <1>1, <2>1, <2>2, <2>3, MonitorAssumption DEF MonitorInv, SweepTypeOK, MonitorTypeOK
  <2>5. \A e \in pmQueue : e[3] \in 1..MaxLeases
    BY DEF MonitorInv, SweepTypeOK, MonitorTypeOK
  <2>6. RoutedOnce'
    BY <1>1, <2>1, <2>2, <2>3, <2>5, MonitorAssumption DEF MonitorInv, RoutedOnce
  <2> QED
    BY <2>2, <2>4, <2>6 DEF MonitorInv, QuestionsAsked, Backed
<1>6. ASSUME NEW m \in Monitors, BeginSweep(m)
      PROVE  MonitorInv'
  <2>1. /\ sweep = NoSweep /\ monitor.owner = m
        /\ sweep' = [owner |-> m, rows |-> item, todo |-> {w \in Works : item[w].status # "done"},
                     found |-> disposition, routes |-> {}]
        /\ UNCHANGED <<monitor, held, item, asked, pmQueue, pmRoutable, disposition>>
    BY <1>6 DEF BeginSweep
  <2>2. sweep' \in Sweeping
    BY <2>1 DEF MonitorInv, SweepTypeOK, MonitorTypeOK, Sweeping
  <2>3. /\ sweep'.owner = m /\ sweep'.rows = item /\ sweep'.found = disposition /\ sweep'.routes = {}
        /\ sweep'.todo \subseteq Works
    BY <2>1
  <2>4. SweepTypeOK'
    BY <1>1, <2>1, <2>2, <2>3, MonitorAssumption DEF MonitorInv, SweepTypeOK, MonitorTypeOK, Sweeping
  <2>5. RoutedOnce'
    BY <2>1, <2>3 DEF MonitorInv, RoutedOnce
  <2> QED
    BY <2>1, <2>3, <2>4, <2>5 DEF MonitorInv, QuestionsAsked, Backed
<1> QED
  BY <1>2, <1>3, <1>4, <1>5, <1>6

\* Every step keeps the invariant.
LEMMA MonitorKept == MonitorInv /\ [MonitorNext]_monitorVars => MonitorInv'
<1> SUFFICES ASSUME MonitorInv, [MonitorNext]_monitorVars PROVE MonitorInv'
  OBVIOUS
<1>1. CASE UNCHANGED monitorVars
  BY <1>1 DEF monitorVars, MonitorInv, SweepTypeOK, MonitorTypeOK, QuestionsAsked, Backed, RoutedOnce
<1> QED
  BY <1>1, LeaseKept, FindKept, AskKept, MoveKept DEF MonitorNext

\* Whatever leases lapse, sweeps abort and work moves on, an item that is reported as routed
\* has its one envelope, and one reported as a question its gate (continuation.py _route_pm,
\* _observe), for any number of monitors and items.
THEOREM ReportsBacked ==
  MonitorInit /\ [][MonitorNext]_monitorVars => [](MonitorTypeOK /\ DispositionBacked)
<1>1. ASSUME MonitorInv
      PROVE  MonitorTypeOK /\ DispositionBacked
  <2>1. ASSUME NEW w \in Works, disposition[w].kind = "pm_routed"
        PROVE  Cardinality({e \in pmQueue : e[1] = w /\ e[2] = disposition[w].version}) = 1
    <3>1. PICK f \in pmQueue : f[1] = w /\ f[2] = disposition[w].version
      BY <1>1, <2>1 DEF MonitorInv, Backed
    <3>2. {e \in pmQueue : e[1] = w /\ e[2] = disposition[w].version} = {f}
      BY <1>1, <3>1 DEF MonitorInv, RoutedOnce
    <3> QED
      BY <3>2, FS_Singleton
  <2> QED
    BY <1>1, <2>1 DEF MonitorInv, SweepTypeOK, Backed, DispositionBacked
<1> QED
  BY <1>1, MonitorKept, MonitorBegins, PTL

\* The monitor's question that waits is the one about the version before the item's, if the
\* item waits for one; nothing was asked yet about the version it has now or later ones.
Waits(w) ==
  \A v \in Versions :
    /\ asked[<<w, v>>] = "pending" <=> item[w].status = "asked" /\ v = item[w].version - 1
    /\ v >= item[w].version => asked[<<w, v>>] = "none"

QuestionsWait == \A w \in Works : Waits(w)

\* A question is about the version that the item has, and holds it.
LEMMA AskHolds ==
  ASSUME MonitorInv, QuestionsWait, NEW w \in Works, AskSponsor(w)
  PROVE  QuestionsWait' /\ MonitorGating!GatedNext
<1>0. /\ item \in [Works -> Row] /\ asked \in [Works \X Versions -> {"none", "pending", "decided"}]
      /\ item[w] \in Row
  BY DEF MonitorInv, SweepTypeOK, MonitorTypeOK
<1>1. PICK v \in Versions : v = item[w].version
  BY <1>0 DEF Row
<1>2. /\ item[w].status = "active"
      /\ asked' = [asked EXCEPT ![<<w, v>>] = "pending"]
      /\ item' = [item EXCEPT ![w].status = "asked", ![w].version = v + 1]
  BY <1>1 DEF AskSponsor
<1>3. /\ item'[w].status = "asked" /\ item'[w].version = v + 1
      /\ \A x \in Works \ {w} : item'[x] = item[x]
      /\ asked'[<<w, v>>] = "pending"
      /\ \A x \in Works, u \in Versions : <<x, u>> # <<w, v>> => asked'[<<x, u>>] = asked[<<x, u>>]
  BY <1>0, <1>1, <1>2 DEF Row
<1>4. asked[<<w, v>>] = "none"
  BY <1>1 DEF QuestionsWait, Waits, Versions
<1>5. QuestionsWait'
  <2>1. ASSUME NEW u \in Versions
        PROVE  /\ asked'[<<w, u>>] = "pending" <=> u = v
               /\ u >= v + 1 => asked'[<<w, u>>] = "none"
    BY <1>1, <1>2, <1>3 DEF QuestionsWait, Waits, Versions
  <2>2. ASSUME NEW x \in Works \ {w} PROVE Waits(x)'
    BY <1>3 DEF QuestionsWait, Waits
  <2>3. item'[w].status = "asked" /\ item'[w].version = v + 1 /\ item'[w].version - 1 = v
    BY <1>3 DEF Versions
  <2>4. Waits(w)'
    BY <2>1, <2>3 DEF Waits
  <2> QED
    BY <2>2, <2>4 DEF QuestionsWait
<1>6. /\ Holding(w)' = <<w, v>> /\ Living(w)' = "gated" /\ Living(w) = "active"
      /\ \A x \in Works \ {w} : Holding(x)' = Holding(x) /\ Living(x)' = Living(x)
  <2>1. item'[w].version - 1 = v
    BY <1>3 DEF Versions
  <2>2. Question(w)' = <<w, v>>
    BY <2>1 DEF Question
  <2>3. \A x \in Works \ {w} : Question(x)' = Question(x)
    BY <1>3 DEF Question
  <2> QED
    <3>1. Holding(w)' = <<w, v>> /\ Living(w)' = "gated" /\ Living(w) = "active"
      BY <1>2, <1>3, <2>2 DEF Holding, Living
    <3>2. ASSUME NEW x \in Works \ {w}
          PROVE  Holding(x)' = Holding(x) /\ Living(x)' = Living(x)
      <4>1. item'[x] = item[x] /\ Question(x)' = Question(x)
        BY <1>3, <2>3
      <4> QED
        BY <4>1 DEF Holding, Living
    <3> QED
      BY <3>1, <3>2
<1>7. /\ ItemLife' = [ItemLife EXCEPT ![w] = "gated"] /\ ItemLife[w] = "active"
      /\ ItemHeld' = [ItemHeld EXCEPT ![w] = <<w, v>>]
  <2>1. /\ \A x \in Works : Living(x)' = IF x = w THEN "gated" ELSE Living(x)
        /\ \A x \in Works : Holding(x)' = IF x = w THEN <<w, v>> ELSE Holding(x)
    BY <1>6
  <2> QED
    BY <1>6, <2>1 DEF ItemLife, ItemHeld
<1>8. MonitorGating!Hold(w, <<w, v>>)
  BY <1>2, <1>4, <1>7 DEF MonitorGating!Hold
<1> QED
  BY <1>5, <1>8 DEF MonitorGating!GatedNext

\* Work that nothing holds goes on, waits for a gate of somebody else, or ends.
LEMMA MoveGated ==
  ASSUME MonitorInv, QuestionsWait, NEW w \in Works, MoveOn(w) \/ MoveQueue(w)
  PROVE  QuestionsWait' /\ [MonitorGating!GatedNext]_(MonitorGating!gatedVars)
<1>0. item \in [Works -> Row] /\ item[w] \in Row /\ UNCHANGED asked
  BY DEF MonitorInv, SweepTypeOK, MonitorTypeOK, MoveOn, MoveQueue
<1>1. PICK v \in Versions : v = item[w].version
  BY <1>0 DEF Row
<1>2. /\ item[w].status \in {"new", "active"} /\ item'[w].version \in {v, v + 1}
      /\ \/ item'[w].status = item[w].status
         \/ item[w].status = "new" /\ item'[w].status = "active"
         \/ item[w].status = "active" /\ item'[w].status \in {"gated", "done"}
      /\ \A x \in Works \ {w} : item'[x] = item[x]
  <2>1. CASE MoveOn(w)
    <3>1. PICK status \in (IF item[w].status = "new" THEN {"active"} ELSE {"active", "gated", "done"}),
               c \in BOOLEAN :
            item' = [item EXCEPT ![w].status = status, ![w].version = @ + 1,
                                 ![w].continues = c]
      BY <2>1 DEF MoveOn
    <3>2. item[w].status \in {"new", "active"}
      BY <2>1 DEF MoveOn
    <3>3. item'[w].status = status /\ item'[w].version = v + 1
      BY <1>0, <1>1, <3>1 DEF Row
    <3> QED
      BY <1>0, <3>1, <3>2, <3>3
  <2>2. CASE MoveQueue(w)
    BY <1>0, <1>1, <2>2 DEF MoveQueue, Row
  <2> QED
    BY <2>1, <2>2
<1>3. QuestionsWait'
  <2>1. ASSUME NEW x \in Works \ {w} PROVE Waits(x)'
    BY <1>0, <1>2 DEF QuestionsWait, Waits
  <2>2. Waits(w)'
    BY <1>0, <1>1, <1>2 DEF QuestionsWait, Waits, Versions
  <2> QED
    BY <2>1, <2>2 DEF QuestionsWait
<1>4. /\ \A x \in Works \ {w} : Holding(x)' = Holding(x) /\ Living(x)' = Living(x)
      /\ Holding(w) = "none" /\ Living(w) = item[w].status
  BY <1>2 DEF Holding, Living, Question
<1>5. CASE item'[w].status = item[w].status
  <2>1. ItemLife' = ItemLife /\ ItemHeld' = ItemHeld
    BY <1>2, <1>4, <1>5 DEF ItemLife, ItemHeld, Living, Holding
  <2> QED
    BY <1>0, <1>3, <2>1 DEF MonitorGating!gatedVars
<1>6. CASE item[w].status = "new" /\ item'[w].status = "active"
  <2>1. /\ ItemLife' = [ItemLife EXCEPT ![w] = "active"] /\ ItemLife[w] = "new"
        /\ ItemHeld' = ItemHeld
    BY <1>2, <1>4, <1>6 DEF ItemLife, ItemHeld, Living, Holding
  <2>2. MonitorGating!Begin(w)
    BY <1>0, <2>1 DEF MonitorGating!Begin
  <2> QED
    BY <1>3, <2>2 DEF MonitorGating!GatedNext
<1>7. CASE item[w].status = "active" /\ item'[w].status = "gated"
  <2>1. /\ ItemLife' = [ItemLife EXCEPT ![w] = "gated"] /\ ItemLife[w] = "active"
        /\ ItemHeld' = [ItemHeld EXCEPT ![w] = "other"]
    BY <1>2, <1>4, <1>7 DEF ItemLife, ItemHeld, Living, Holding
  <2>2. MonitorGating!Hold(w, "other")
    BY <1>0, <2>1 DEF MonitorGating!Hold
  <2> QED
    BY <1>3, <2>2 DEF MonitorGating!GatedNext
<1>8. CASE item[w].status = "active" /\ item'[w].status = "done"
  <2>1. /\ ItemLife' = [ItemLife EXCEPT ![w] = "done"] /\ ItemLife[w] = "active"
        /\ ItemHeld' = ItemHeld
    BY <1>2, <1>4, <1>8 DEF ItemLife, ItemHeld, Living, Holding
  <2>2. MonitorGating!End(w, "done")
    BY <1>0, <2>1 DEF MonitorGating!End
  <2> QED
    BY <1>3, <2>2 DEF MonitorGating!GatedNext
<1> QED
  BY <1>2, <1>5, <1>6, <1>7, <1>8

\* The decision answers the question that holds the item, or resolves the other gate.
LEMMA DecideReleases ==
  ASSUME MonitorInv, QuestionsWait, NEW w \in Works, DecideGates(w)
  PROVE  QuestionsWait' /\ MonitorGating!GatedNext
<1>0. /\ item \in [Works -> Row] /\ item[w] \in Row
      /\ asked \in [Works \X Versions -> {"none", "pending", "decided"}]
  BY DEF MonitorInv, SweepTypeOK, MonitorTypeOK
<1>1. PICK v \in Versions : v = item[w].version
  BY <1>0 DEF Row
<1>2. /\ item[w].status \in {"asked", "gated"}
      /\ item'[w].status = "active" /\ item'[w].version = v + 1
      /\ \A x \in Works \ {w} : item'[x] = item[x]
      /\ asked' = [k \in Works \X Versions |->
           IF k[1] = w /\ asked[k] = "pending" THEN "decided" ELSE asked[k]]
  BY <1>0, <1>1 DEF DecideGates, Row
<1>3. \A x \in Works, u \in Versions : asked'[<<x, u>>] =
        IF x = w /\ asked[<<w, u>>] = "pending" THEN "decided" ELSE asked[<<x, u>>]
  BY <1>2
<1>4. QuestionsWait'
  <2>1. ASSUME NEW u \in Versions
        PROVE  asked'[<<w, u>>] # "pending" /\ (u >= v + 1 => asked'[<<w, u>>] = "none")
    BY <1>1, <1>3 DEF QuestionsWait, Waits, Versions
  <2>2. ASSUME NEW x \in Works \ {w} PROVE Waits(x)'
    BY <1>2, <1>3 DEF QuestionsWait, Waits
  <2>3. Waits(w)'
    BY <1>2, <2>1 DEF Waits
  <2> QED
    BY <2>2, <2>3 DEF QuestionsWait
<1>5. /\ ItemLife' = [ItemLife EXCEPT ![w] = "active"] /\ ItemLife[w] = "gated"
      /\ ItemHeld' = [ItemHeld EXCEPT ![w] = "none"]
  <2>1. /\ Holding(w)' = "none" /\ Living(w)' = "active" /\ Living(w) = "gated"
        /\ \A x \in Works \ {w} : Holding(x)' = Holding(x) /\ Living(x)' = Living(x)
    BY <1>2 DEF Holding, Living, Question
  <2> QED
    BY <2>1 DEF ItemLife, ItemHeld
<1>6. CASE item[w].status = "asked"
  <2>1. /\ v - 1 \in Versions /\ ItemHeld[w] = <<w, v - 1>> /\ asked[<<w, v - 1>>] = "pending"
    BY <1>1, <1>6 DEF ItemHeld, Holding, Question, MonitorInv, QuestionsAsked, QuestionsWait, Waits
  <2>2. asked' = [asked EXCEPT ![<<w, v - 1>>] = "decided"]
    <3>1. ASSUME NEW x \in Works, NEW u \in Versions
          PROVE  asked'[<<x, u>>] = IF <<x, u>> = <<w, v - 1>> THEN "decided" ELSE asked[<<x, u>>]
      BY <1>1, <1>3, <1>6, <2>1 DEF QuestionsWait, Waits
    <3>2. DOMAIN asked = Works \X Versions /\ DOMAIN asked' = Works \X Versions
      BY <1>0, <1>2
    <3> DEFINE after == [asked EXCEPT ![<<w, v - 1>>] = "decided"]
    <3>3. ASSUME NEW k \in Works \X Versions
          PROVE  asked'[k] = after[k]
      <4>1. PICK x \in Works, u \in Versions : k = <<x, u>>
        OBVIOUS
      <4> QED
        BY <2>1, <3>1, <3>2, <4>1
    <3> QED
      BY <1>0, <1>2, <3>2, <3>3
  <2>3. MonitorGating!Resolve(w, "decided")
    BY <1>5, <2>1, <2>2 DEF MonitorGating!Resolve
  <2> QED
    BY <1>4, <2>3 DEF MonitorGating!GatedNext
<1>7. CASE item[w].status = "gated"
  <2>1. ItemHeld[w] = "other"
    BY <1>7 DEF ItemHeld, Holding
  <2>2. \A k \in Works \X Versions : ~(k[1] = w /\ asked[k] = "pending")
    BY <1>7 DEF QuestionsWait, Waits
  <2>3. asked' = asked
    BY <1>0, <1>2, <2>2
  <2>4. MonitorGating!Resolve(w, "decided")
    BY <1>5, <2>1, <2>3 DEF MonitorGating!Resolve
  <2> QED
    BY <1>4, <2>4 DEF MonitorGating!GatedNext
<1> QED
  BY <1>2, <1>6, <1>7

\* Every step of the monitor is one of gated work, or none.
LEMMA MonitorStepsGated ==
  ASSUME MonitorInv, QuestionsWait, [MonitorNext]_monitorVars
  PROVE  QuestionsWait' /\ [MonitorGating!GatedNext]_(MonitorGating!gatedVars)
<1>1. CASE UNCHANGED <<item, asked>>
  <2>1. ItemLife' = ItemLife /\ ItemHeld' = ItemHeld /\ asked' = asked
    <3>1. \A w \in Works : Question(w)' = Question(w)
      BY <1>1 DEF Question
    <3>2. \A w \in Works : Living(w)' = Living(w) /\ Holding(w)' = Holding(w)
      BY <1>1, <3>1 DEF Living, Holding
    <3> QED
      BY <1>1, <3>2 DEF ItemLife, ItemHeld
  <2> QED
    BY <1>1, <2>1 DEF QuestionsWait, Waits, MonitorGating!gatedVars
<1>2. ASSUME \/ LapseMonitor \/ CommitSweep \/ AbortSweep \/ ChangeRoles
             \/ \E m \in Monitors : ClaimMonitor(m) \/ BeginSweep(m)
             \/ \E w \in Works : ObserveGated(w) \/ ObserveProgress(w) \/ RouteToPm(w)
      PROVE  UNCHANGED <<item, asked>>
  BY <1>2 DEF LapseMonitor, CommitSweep, AbortSweep, ChangeRoles, ClaimMonitor, BeginSweep,
              ObserveGated, ObserveProgress, RouteToPm
<1> QED
  BY <1>1, <1>2, AskHolds, MoveGated, DecideReleases DEF MonitorNext, monitorVars

\* Sweeps ask from rows that may be old, and yet no item is held twice or after its end, and a
\* question is answered by the decision that releases its item (continuation.py _observe,
\* lifecycle.py open_gate), for any number of monitors and items.
THEOREM MonitorImplementsGatedWork ==
  MonitorInit /\ [][MonitorNext]_monitorVars => MonitorGatesWork
<1>1. MonitorInit => MonitorGating!GatedInit /\ QuestionsWait
  <2> SUFFICES ASSUME MonitorInit PROVE MonitorGating!GatedInit /\ QuestionsWait
    OBVIOUS
  <2>1. \A w \in Works : item[w].status = "new" /\ item[w].version = 1
    BY DEF MonitorInit
  <2>2. \A w \in Works, v \in Versions : asked[<<w, v>>] = "none"
    BY DEF MonitorInit
  <2>3. QuestionsWait
    BY <2>1, <2>2 DEF QuestionsWait, Waits
  <2>4. asked = [k \in Works \X Versions |-> "none"]
    BY DEF MonitorInit
  <2> QED
    BY <2>1, <2>3, <2>4 DEF MonitorGating!GatedInit, ItemLife, ItemHeld, Living, Holding
<1>2. MonitorInv /\ QuestionsWait /\ [MonitorNext]_monitorVars
        => QuestionsWait' /\ [MonitorGating!GatedNext]_(MonitorGating!gatedVars)
  BY MonitorStepsGated
<1> QED
  BY <1>1, <1>2, MonitorKept, MonitorBegins, PTL DEF MonitorGatesWork, MonitorGating!GatedSpec

-----------------------------------------------------------------------------
(* SharedMemory: the trail of revisions is complete. *)

\* The rows of the history, of asking and of reading.
Revision == [by : Requests \cup {NoReading}, after : 0..MaxVersions, entry : Entry]
AskingRow ==
  [action : {"none", "create", "update", "retire"},
   pc : {"idle", "evaluated", "verified", "answered"}, expected : 0..MaxVersions,
   scope : Scopes, class : Classes, cites : 0..MaxSource]
ReadingRow ==
  [pc : {"idle", "check", "record"}, entry : Entry, check : 0..MaxSource, again : BOOLEAN]

\* What is shared across projects is generic.
Shareable(x) == x.scope = "organization_role" => x.class = "generic"

TrailTypeOK ==
  /\ source \in 0..MaxSource
  /\ memory \in Entry
  /\ revisions \in Seq(Revision) /\ Len(revisions) <= MaxVersions
  /\ asking \in [Requests -> AskingRow]
  /\ reading \in [Readers -> ReadingRow]

\* The history from its first revision to the row.
Trail ==
  /\ memory = IF revisions = <<>> THEN NoEntry ELSE Last(revisions).entry
  /\ \A i \in DOMAIN revisions :
       /\ revisions[i].after = i - 1
       /\ revisions[i].entry.status # "none" /\ Shareable(revisions[i].entry)
       /\ revisions[i].by # NoReading =>
            \A j \in DOMAIN revisions : revisions[j].by = revisions[i].by => i = j

\* What is asked may be written: nothing is shared that is not generic, and a new entry
\* follows nothing; and there is an entry for whoever reads it.
AskedSound ==
  /\ \A q \in Requests :
       /\ asking[q].action \in {"create", "update"} => Shareable(asking[q])
       /\ asking[q].action \in {"none", "create"} => asking[q].expected = 0
       /\ asking[q].action = "none" => asking[q].pc = "idle"
  /\ \A p \in Readers : reading[p].pc # "idle" => memory.status # "none"

\* The inductive invariant of the entry.
MemoryInv == TrailTypeOK /\ Trail /\ AskedSound

\* The constants are rows of their kind.
LEMMA MemoryRows ==
  /\ NoEntry \in Entry /\ Shareable(NoEntry) /\ NoEntry.status = "none"
  /\ Unasked \in AskingRow /\ NotReading \in ReadingRow /\ NotReading.pc = "idle"
  /\ 0 \in 0..MaxVersions /\ 0 \in 0..MaxSource /\ 1 \in 0..MaxSource
<1>1. 0 \in 0..MaxVersions /\ 0 \in 0..MaxSource /\ 1 \in 0..MaxSource
  BY MemoryAssumption
<1>2. NoEntry \in Entry /\ Shareable(NoEntry) /\ NoEntry.status = "none"
  BY <1>1 DEF NoEntry, Entry, Shareable, Scopes, Classes
<1>3. Unasked \in AskingRow
  BY <1>1 DEF Unasked, AskingRow, Scopes, Classes
<1>4. NotReading \in ReadingRow /\ NotReading.pc = "idle"
  BY <1>1, <1>2 DEF NotReading, ReadingRow
<1> QED
  BY <1>1, <1>2, <1>3, <1>4

\* At first nothing was written, or one entry that may be shared as it is.
LEMMA MemoryBegins == MemoryInit => MemoryInv
<1> SUFFICES ASSUME MemoryInit PROVE MemoryInv
  OBVIOUS
<1>1. /\ source \in 0..MaxSource
      /\ asking \in [Requests -> AskingRow] /\ \A q \in Requests : asking[q] = Unasked
      /\ reading \in [Readers -> ReadingRow] /\ \A p \in Readers : reading[p] = NotReading
  BY MemoryRows DEF MemoryInit
<1>2. AskedSound
  BY <1>1 DEF AskedSound, Unasked, NotReading, Shareable
<1>3. CASE memory = NoEntry /\ revisions = <<>>
  BY <1>1, <1>2, <1>3, MemoryRows, MemoryAssumption DEF MemoryInv, TrailTypeOK, Trail
<1>4. CASE /\ memory \in {CreatedBefore("local", "other"), CreatedBefore("organization_role", "generic")}
           /\ revisions = <<[by |-> NoReading, after |-> 0, entry |-> memory]>>
  <2>1. memory \in Entry /\ memory.status # "none" /\ Shareable(memory)
    BY <1>4, MemoryRows DEF CreatedBefore, Entry, Shareable, Scopes, Classes
  <2>2. PICK row \in Revision : row = [by |-> NoReading, after |-> 0, entry |-> memory]
    BY <2>1, MemoryRows DEF Revision
  <2>3. /\ revisions = <<row>> /\ revisions \in Seq(Revision) /\ Len(revisions) = 1
        /\ DOMAIN revisions = {1} /\ revisions[1] = row /\ revisions # <<>>
        /\ row.after = 0 /\ row.by = NoReading /\ row.entry = memory
    BY <1>4, <2>2
  <2>4. Trail
    BY <2>1, <2>3 DEF Trail, Last
  <2> QED
    BY <1>1, <1>2, <2>1, <2>3, <2>4, MemoryAssumption DEF MemoryInv, TrailTypeOK
<1> QED
  BY <1>3, <1>4 DEF MemoryInit

\* A revision that may be appended keeps the trail.
LEMMA RevisionKept ==
  ASSUME TrailTypeOK, Trail, NEW entry \in Entry, NEW by \in Requests \cup {NoReading},
         Revise(entry, by, Version), entry.status # "none", Shareable(entry),
         by # NoReading => ~Replayed(by)
  PROVE  /\ memory' \in Entry /\ memory'.status # "none"
         /\ revisions' \in Seq(Revision) /\ Len(revisions') <= MaxVersions
         /\ Trail'
<1>1. PICK row \in Revision : row = [by |-> by, after |-> Len(revisions), entry |-> entry]
  BY MemoryAssumption DEF TrailTypeOK, Revision, Revise, Version
<1>2. row.by = by /\ row.after = Len(revisions) /\ row.entry = entry
  BY <1>1
<1>3. memory' = entry /\ revisions' = Append(revisions, row) /\ Len(revisions) < MaxVersions
  BY <1>1 DEF Revise, Version
<1>4. /\ revisions' \in Seq(Revision) /\ Len(revisions') = Len(revisions) + 1
      /\ DOMAIN revisions' = DOMAIN revisions \cup {Len(revisions) + 1}
      /\ Len(revisions) + 1 \notin DOMAIN revisions
      /\ \A i \in DOMAIN revisions : revisions'[i] = revisions[i]
      /\ revisions'[Len(revisions) + 1] = row /\ revisions' # <<>>
      /\ Len(revisions) \in Nat
  BY <1>3 DEF TrailTypeOK
<1>5. Last(revisions') = row
  BY <1>4 DEF Last
<1>6. \A i \in DOMAIN revisions : by # NoReading => revisions[i].by # by
  BY DEF Replayed
<1>7. Trail'
  BY <1>2, <1>3, <1>4, <1>5, <1>6 DEF Trail
<1> QED
  BY <1>3, <1>4, <1>7, MemoryAssumption DEF TrailTypeOK

\* The row is one that may be shared as it is.
LEMMA RowShareable == TrailTypeOK /\ Trail => Shareable(memory)
<1> SUFFICES ASSUME TrailTypeOK, Trail PROVE Shareable(memory)
  OBVIOUS
<1>1. CASE revisions = <<>>
  BY <1>1, MemoryRows DEF Trail
<1>2. CASE revisions # <<>>
  <2>1. Len(revisions) \in DOMAIN revisions
    BY <1>2 DEF TrailTypeOK
  <2> QED
    BY <1>2, <2>1 DEF Trail, Last
<1> QED
  BY <1>1, <1>2

\* There is an entry exactly if the history is not empty.
LEMMA RowThere == TrailTypeOK /\ Trail => (memory.status = "none" <=> revisions = <<>>)
<1> SUFFICES ASSUME TrailTypeOK, Trail PROVE memory.status = "none" <=> revisions = <<>>
  OBVIOUS
<1>1. CASE revisions = <<>>
  BY <1>1, MemoryRows DEF Trail
<1>2. CASE revisions # <<>>
  <2>1. Len(revisions) \in DOMAIN revisions
    BY <1>2 DEF TrailTypeOK
  <2> QED
    BY <1>2, <2>1 DEF Trail, Last
<1> QED
  BY <1>1, <1>2

\* A writer asks, or gets on with what it asked, and writes nothing.
LEMMA AskingKept ==
  ASSUME MemoryInv, NEW q \in Requests, NEW row \in AskingRow,
         asking' = [asking EXCEPT ![q] = row],
         UNCHANGED <<source, memory, revisions, reading>>,
         row.action \in {"create", "update"} => Shareable(row),
         row.action \in {"none", "create"} => row.expected = 0,
         row.action # "none"
  PROVE  MemoryInv'
<1>1. /\ asking' \in [Requests -> AskingRow] /\ asking'[q] = row
      /\ \A o \in Requests \ {q} : asking'[o] = asking[o]
  BY DEF MemoryInv, TrailTypeOK
<1>2. AskedSound'
  BY <1>1 DEF MemoryInv, AskedSound, Shareable
<1> QED
  BY <1>1, <1>2 DEF MemoryInv, TrailTypeOK, Trail, Shareable

\* Whatever a writer does but write.
LEMMA WriterKept ==
  ASSUME MemoryInv, NEW q \in Requests,
         \/ \E class \in Classes :
              AskUpdate(q, class) \/ \E scope \in Scopes : AskCreate(q, scope, class)
         \/ AskRetire(q) \/ VerifySource(q) \/ WriteRefused(q) \/ RetryRequest(q)
  PROVE  MemoryInv'
<1>1. /\ asking[q] \in AskingRow /\ source \in 0..MaxSource /\ Len(revisions) \in 0..MaxVersions
      /\ memory \in Entry /\ Shareable(memory) /\ 0 \in 0..MaxVersions /\ Unasked \in AskingRow
  BY MemoryAssumption, MemoryRows, RowShareable DEF MemoryInv, TrailTypeOK
<1>2. ASSUME NEW class \in Classes, AskUpdate(q, class)
      PROVE  MemoryInv'
  <2>1. memory.scope \in Scopes
    BY <1>1 DEF Entry
  <2>2. PICK row \in AskingRow :
          row = [action |-> "update", pc |-> "evaluated", expected |-> Version,
                 scope |-> memory.scope, class |-> class, cites |-> source]
    BY <1>1, <2>1 DEF AskingRow, Version
  <2>3. row.action = "update" /\ row.scope = memory.scope /\ row.class = class
    BY <2>2
  <2>4. Shareable(row)
    BY <1>2, <2>3 DEF AskUpdate, EffectiveScope, Shareable
  <2> QED
    BY <1>2, <2>2, <2>3, <2>4, AskingKept DEF AskUpdate
<1>3. ASSUME NEW class \in Classes, NEW scope \in Scopes, AskCreate(q, scope, class)
      PROVE  MemoryInv'
  <2>1. EffectiveScope(scope, class) \in Scopes
    BY DEF EffectiveScope, Scopes
  <2>2. PICK row \in AskingRow :
          row = [action |-> "create", pc |-> "evaluated", expected |-> 0,
                 scope |-> EffectiveScope(scope, class), class |-> class, cites |-> source]
    BY <1>1, <2>1 DEF AskingRow
  <2>3. /\ row.action = "create" /\ row.expected = 0
        /\ row.scope = EffectiveScope(scope, class) /\ row.class = class
    BY <2>2
  <2>4. Shareable(row)
    BY <2>3 DEF EffectiveScope, Shareable
  <2> QED
    BY <1>3, <2>2, <2>3, <2>4, AskingKept DEF AskCreate
<1>4. CASE AskRetire(q)
  <2>1. PICK v \in 0..MaxVersions : v = Version
    BY <1>1 DEF Version
  <2>2. PICK row \in AskingRow :
          row = [Unasked EXCEPT !.action = "retire", !.pc = "verified", !.expected = v]
    BY <1>1 DEF AskingRow
  <2>3. row.action = "retire"
    BY <1>1, <2>2 DEF AskingRow
  <2> QED
    BY <1>4, <2>1, <2>2, <2>3, AskingKept DEF AskRetire
<1>5. ASSUME VerifySource(q) \/ WriteRefused(q) \/ RetryRequest(q)
      PROVE  MemoryInv'
  <2>1. PICK pc \in {"answered", "verified", "evaluated"} :
          asking' = [asking EXCEPT ![q].pc = pc]
    BY <1>5 DEF VerifySource, WriteRefused, RetryRequest, Answer
  <2>2. PICK row \in AskingRow : row = [asking[q] EXCEPT !.pc = pc]
    BY <1>1 DEF AskingRow
  <2>3. /\ row.action = asking[q].action /\ row.expected = asking[q].expected
        /\ row.scope = asking[q].scope /\ row.class = asking[q].class
    BY <1>1, <2>2 DEF AskingRow
  <2>4. asking' = [asking EXCEPT ![q] = row]
    BY <2>1, <2>2 DEF MemoryInv, TrailTypeOK
  <2>5. /\ asking[q].pc # "idle" /\ UNCHANGED <<source, memory, revisions, reading>>
    BY <1>5 DEF VerifySource, WriteRefused, RetryRequest
  <2>6. asking[q].action # "none"
    BY <2>5 DEF MemoryInv, AskedSound
  <2> QED
    BY <2>3, <2>4, <2>5, <2>6, AskingKept DEF MemoryInv, AskedSound, Shareable
<1> QED
  BY <1>2, <1>3, <1>4, <1>5

\* What is written follows the version its writer had read.
LEMMA WriteKept ==
  ASSUME MemoryInv, NEW q \in Requests, Write(q)
  PROVE  MemoryInv'
<1>1. /\ asking[q] \in AskingRow /\ memory \in Entry /\ Shareable(memory)
      /\ memory.status = "none" <=> revisions = <<>>
      /\ q # NoReading
  BY MemoryAssumption, RowShareable, RowThere DEF MemoryInv, TrailTypeOK
<1>2. asking[q].action \in {"create", "update", "retire"} /\ AsExpected(q)
  BY <1>1 DEF Write, MemoryInv, AskedSound, AskingRow
<1>3. asking[q].expected = Version
  BY <1>1, <1>2 DEF AsExpected, Version, MemoryInv, AskedSound
<1>4. PICK entry \in Entry : entry = Written(q)
  BY <1>1, <1>2 DEF Written, Entry, AskingRow
<1>5. entry.status # "none" /\ Shareable(entry)
  BY <1>1, <1>2, <1>4 DEF Written, Entry, Shareable, MemoryInv, AskedSound
<1>6. Revise(entry, q, Version) /\ ~Replayed(q)
  BY <1>3, <1>4 DEF Write
<1>7. /\ memory' \in Entry /\ memory'.status # "none"
      /\ revisions' \in Seq(Revision) /\ Len(revisions') <= MaxVersions
      /\ Trail'
  BY <1>5, <1>6, RevisionKept DEF MemoryInv
<1>8. PICK row \in AskingRow : row = [asking[q] EXCEPT !.pc = "answered"]
  BY <1>1 DEF AskingRow
<1>9. /\ row.action = asking[q].action /\ row.expected = asking[q].expected
      /\ row.scope = asking[q].scope /\ row.class = asking[q].class
  BY <1>1, <1>8 DEF AskingRow
<1>10. /\ asking' \in [Requests -> AskingRow] /\ asking'[q] = row
       /\ \A o \in Requests \ {q} : asking'[o] = asking[o]
       /\ UNCHANGED <<source, reading>>
  BY <1>8 DEF Write, Answer, MemoryInv, TrailTypeOK
<1>11. AskedSound'
  BY <1>2, <1>7, <1>9, <1>10 DEF MemoryInv, AskedSound, Shareable
<1> QED
  BY <1>7, <1>10, <1>11 DEF MemoryInv, TrailTypeOK

\* A reader records what it found of the source, if it is news of the row there is.
LEMMA ReaderKept ==
  ASSUME MemoryInv, NEW p \in Readers, BeginRefresh(p) \/ CheckSource(p) \/ RecordCheck(p)
  PROVE  MemoryInv'
<1>1. /\ reading[p] \in ReadingRow /\ memory \in Entry /\ Shareable(memory)
      /\ NotReading \in ReadingRow /\ NotReading.pc = "idle" /\ source \in 0..MaxSource
      /\ 0 \in 0..MaxSource
  BY MemoryRows, RowShareable DEF MemoryInv, TrailTypeOK
<1>2. ASSUME NEW row \in ReadingRow, reading' = [reading EXCEPT ![p] = row],
             memory'.status = "none" => memory.status = "none",
             row.pc # "idle" => memory'.status # "none",
             memory' \in Entry, revisions' \in Seq(Revision), Len(revisions') <= MaxVersions,
             Trail', UNCHANGED <<source, asking>>
      PROVE  MemoryInv'
  <2>1. /\ reading' \in [Readers -> ReadingRow] /\ reading'[p] = row
        /\ \A o \in Readers \ {p} : reading'[o] = reading[o]
    BY <1>2 DEF MemoryInv, TrailTypeOK
  <2>2. AskedSound'
    BY <1>2, <2>1 DEF MemoryInv, AskedSound, Shareable
  <2> QED
    BY <1>2, <2>1, <2>2 DEF MemoryInv, TrailTypeOK
<1>3. CASE BeginRefresh(p)
  <2>1. PICK row \in ReadingRow : row = [NotReading EXCEPT !.pc = "check", !.entry = memory]
    BY <1>1 DEF ReadingRow
  <2>2. UNCHANGED <<source, memory, revisions, asking>> /\ memory.status # "none"
    BY <1>3 DEF BeginRefresh
  <2>3. Trail' /\ memory' \in Entry /\ revisions' \in Seq(Revision) /\ Len(revisions') <= MaxVersions
    BY <2>2 DEF MemoryInv, Trail, TrailTypeOK, Shareable
  <2> QED
    BY <1>2, <1>3, <2>1, <2>2, <2>3 DEF BeginRefresh
<1>4. CASE CheckSource(p)
  <2>1. PICK row \in ReadingRow :
          row = IF Known(reading[p].entry, source) THEN NotReading
                ELSE [reading[p] EXCEPT !.pc = "record", !.check = source]
    BY <1>1 DEF ReadingRow
  <2>2. /\ UNCHANGED <<source, memory, revisions, asking>> /\ memory.status # "none"
        /\ reading' = [reading EXCEPT ![p] = row]
    BY <1>4, <2>1 DEF CheckSource, MemoryInv, AskedSound
  <2>3. Trail' /\ memory' \in Entry /\ revisions' \in Seq(Revision) /\ Len(revisions') <= MaxVersions
    BY <2>2 DEF MemoryInv, Trail, TrailTypeOK, Shareable
  <2> QED
    BY <1>2, <2>2, <2>3
<1>5. CASE RecordCheck(p)
  <2>1. reading[p].pc = "record" /\ memory.status # "none" /\ UNCHANGED <<source, asking>>
    BY <1>5 DEF RecordCheck, MemoryInv, AskedSound
  <2>2. PICK row \in ReadingRow : reading' = [reading EXCEPT ![p] = row]
    <3>1. [pc |-> "check", entry |-> memory, check |-> 0, again |-> TRUE] \in ReadingRow
      BY <1>1 DEF ReadingRow
    <3> QED
      BY <1>1, <1>5, <3>1 DEF RecordCheck
  <2>3. CASE UNCHANGED <<memory, revisions>>
    <3>1. Trail' /\ memory' \in Entry /\ revisions' \in Seq(Revision) /\ Len(revisions') <= MaxVersions
      BY <2>3 DEF MemoryInv, Trail, TrailTypeOK, Shareable
    <3> QED
      BY <1>2, <2>1, <2>2, <2>3, <3>1
  <2>4. CASE Revise([memory EXCEPT !.state = StateOf(memory, reading[p].check), !.now = reading[p].check],
                    NoReading, Version)
    <3>1. /\ reading[p].check \in 0..MaxSource
          /\ StateOf(memory, reading[p].check) \in {"removed", "current", "stale"}
      BY <1>1 DEF ReadingRow, StateOf
    <3>2. PICK entry \in Entry :
            entry = [memory EXCEPT !.state = StateOf(memory, reading[p].check), !.now = reading[p].check]
      BY <1>1, <3>1 DEF Entry
    <3>3. entry.status # "none" /\ Shareable(entry)
      BY <1>1, <2>1, <3>2 DEF Entry, Shareable
    <3>4. /\ memory' \in Entry /\ memory'.status # "none"
          /\ revisions' \in Seq(Revision) /\ Len(revisions') <= MaxVersions
          /\ Trail'
      BY <2>4, <3>2, <3>3, RevisionKept DEF MemoryInv
    <3> QED
      BY <1>2, <2>1, <2>2, <3>4
  <2> QED
    BY <1>5, <2>3, <2>4 DEF RecordCheck
<1> QED
  BY <1>3, <1>4, <1>5

\* Every step keeps the invariant.
LEMMA MemoryKept == MemoryInv /\ [MemoryNext]_memoryVars => MemoryInv'
<1> SUFFICES ASSUME MemoryInv, [MemoryNext]_memoryVars PROVE MemoryInv'
  OBVIOUS
<1>1. CASE UNCHANGED memoryVars
  BY <1>1 DEF memoryVars, MemoryInv, TrailTypeOK, Trail, AskedSound, Shareable
<1>2. CASE ChangeSource
  <2>1. source' \in 0..MaxSource
    BY <1>2, MemoryAssumption DEF ChangeSource, MemoryInv, TrailTypeOK
  <2> QED
    BY <1>2, <2>1 DEF ChangeSource, MemoryInv, TrailTypeOK, Trail, AskedSound, Shareable
<1> QED
  BY <1>1, <1>2, WriterKept, WriteKept, ReaderKept DEF MemoryNext

\* Whoever writes, reads, repeats a request or changes the source, the history of an entry
\* accounts for it: one revision per version, one per request, made from the version it names,
\* and nothing shared that is not generic (shared_memory.py _mutate, retire, _refresh).
THEOREM TrailComplete == MemoryInit /\ [][MemoryNext]_memoryVars => [](MemoryTypeOK /\ RevisionTrail)
<1>1. ASSUME MemoryInv
      PROVE  MemoryTypeOK /\ RevisionTrail
  <2>1. MemoryTypeOK
    <3>1. \A i \in DOMAIN revisions : revisions[i] \in Revision
      BY <1>1 DEF MemoryInv, TrailTypeOK
    <3> QED
      BY <1>1, <3>1 DEF MemoryInv, TrailTypeOK, MemoryTypeOK, Revision, AskingRow, ReadingRow
  <2>2. RevisionTrail
    BY <1>1 DEF MemoryInv, Trail, RevisionTrail, Shareable
  <2> QED
    BY <2>1, <2>2
<1> QED
  BY <1>1, MemoryBegins, MemoryKept, PTL

-----------------------------------------------------------------------------
(* Accounting: checkpoints, usage and capacity are counted once. *)

\* The rows of drafted and capture; lengths and stamps are numbers.
AuthorRow == [pc : {"idle", "sent", "over"}, previous : Nat]
CaptureRow == [pc : {"idle", "read", "stamped", "over"}, at : Nat]

\* What an author was told is so, and one that is still to be told is not.
ProgressInv ==
  /\ journal \in Seq(Authors)
  /\ drafted \in [Authors -> AuthorRow]
  /\ answer \in [Authors -> {"none", "recorded", "stale"}]
  /\ \A m, n \in DOMAIN journal : journal[m] = journal[n] => m = n
  /\ \A a \in Authors :
       /\ drafted[a].pc # "over" => answer[a] = "none"
       /\ answer[a] # "none" => (answer[a] = "recorded" <=> Recorded(a))

UsageInv ==
  /\ spent \in Nat /\ usage \in Nat /\ counted \in SUBSET Nat
  /\ \A tokens \in counted : tokens <= usage
  /\ usage # 0 => usage \in counted

CapacityInv ==
  /\ capture \in [Collectors -> CaptureRow]
  /\ capacity \in [by : Collectors \cup {Nil}, at : Nat] /\ clock \in Nat
  /\ \A c \in Collectors : capture[c].pc = "over" => capture[c].at <= capacity.at

\* The inductive invariant of the accounts.
AccountingInv == ProgressInv /\ UsageInv /\ CapacityInv

\* At first nothing was recorded.
LEMMA AccountingBegins == AccountingInit => AccountingInv
BY DEF AccountingInit, AccountingInv, ProgressInv, UsageInv, CapacityInv, AuthorRow, CaptureRow

\* A checkpoint is recorded at the end of the journal, or not at all.
LEMMA CheckpointKept ==
  ASSUME ProgressInv, NEW a \in Authors, NEW arrives \in BOOLEAN, RecordCheckpoint(a, arrives)
  PROVE  ProgressInv'
<1>1. drafted[a].pc = "sent" /\ answer[a] = "none"
  BY DEF RecordCheckpoint, ProgressInv
<1>2. /\ journal' \in Seq(Authors)
      /\ \A m, n \in DOMAIN journal' : journal'[m] = journal'[n] => m = n
      /\ \A b \in Authors \ {a} : Recorded(b)' <=> Recorded(b)
      /\ Recorded(a)' <=> Outcome(a) = "recorded"
  <2>1. CASE Outcome(a) = "recorded" /\ ~Recorded(a)
    <3>1. journal' = Append(journal, a)
      BY <2>1 DEF RecordCheckpoint
    <3>2. /\ journal' \in Seq(Authors) /\ DOMAIN journal' = DOMAIN journal \cup {Len(journal) + 1}
          /\ Len(journal) + 1 \notin DOMAIN journal
          /\ \A n \in DOMAIN journal : journal'[n] = journal[n]
          /\ journal'[Len(journal) + 1] = a
      BY <3>1 DEF ProgressInv
    <3> QED
      BY <2>1, <3>2 DEF ProgressInv, Recorded
  <2>2. CASE ~(Outcome(a) = "recorded" /\ ~Recorded(a))
    <3>1. journal' = journal
      BY <2>2 DEF RecordCheckpoint
    <3> QED
      BY <2>2, <3>1 DEF ProgressInv, Recorded, Outcome
  <2> QED
    BY <2>1, <2>2
<1>3. CASE arrives
  <2>1. Outcome(a) \in {"recorded", "stale"}
    BY DEF Outcome
  <2>2. /\ answer' \in [Authors -> {"none", "recorded", "stale"}]
        /\ drafted' \in [Authors -> AuthorRow]
        /\ answer'[a] = Outcome(a) /\ drafted'[a].pc = "over"
        /\ \A b \in Authors \ {a} : answer'[b] = answer[b] /\ drafted'[b] = drafted[b]
    BY <1>3, <2>1 DEF RecordCheckpoint, ProgressInv, AuthorRow
  <2> QED
    BY <1>2, <2>1, <2>2 DEF ProgressInv
<1>4. CASE ~arrives
  BY <1>1, <1>2, <1>4 DEF RecordCheckpoint, ProgressInv
<1> QED
  BY <1>3, <1>4

\* Every step keeps the invariant.
LEMMA AccountingKept == AccountingInv /\ [AccountingNext]_accountingVars => AccountingInv'
<1> SUFFICES ASSUME AccountingInv, [AccountingNext]_accountingVars PROVE AccountingInv'
  OBVIOUS
<1>1. CASE UNCHANGED accountingVars
  BY <1>1 DEF accountingVars, AccountingInv, ProgressInv, UsageInv, CapacityInv, Recorded
<1>2. ASSUME NEW a \in Authors, DraftCheckpoint(a) \/ DraftAgain(a)
      PROVE  AccountingInv'
  <2>1. /\ drafted' = [drafted EXCEPT ![a] = [pc |-> "sent", previous |-> Len(journal)]]
        /\ journal' = journal /\ UNCHANGED <<spent, usage, counted, capture, capacity, clock>>
        /\ answer' = [answer EXCEPT ![a] = "none"]
    BY <1>2 DEF DraftCheckpoint, DraftAgain, AccountingInv, ProgressInv
  <2>2. /\ drafted' \in [Authors -> AuthorRow] /\ drafted'[a].pc = "sent" /\ answer'[a] = "none"
        /\ answer' \in [Authors -> {"none", "recorded", "stale"}]
        /\ \A b \in Authors \ {a} : answer'[b] = answer[b] /\ drafted'[b] = drafted[b]
    BY <2>1 DEF AccountingInv, ProgressInv, AuthorRow
  <2>3. ProgressInv'
    BY <2>1, <2>2 DEF AccountingInv, ProgressInv, Recorded
  <2> QED
    BY <2>1, <2>3 DEF AccountingInv, UsageInv, CapacityInv
<1>3. ASSUME NEW a \in Authors, NEW arrives \in BOOLEAN, RecordCheckpoint(a, arrives)
      PROVE  AccountingInv'
  <2>1. UNCHANGED <<spent, usage, counted, capture, capacity, clock>>
    BY <1>3 DEF RecordCheckpoint
  <2> QED
    BY <1>3, <2>1, CheckpointKept DEF AccountingInv, UsageInv, CapacityInv
<1>4. ASSUME Spend \/ \E tokens \in 1..MaxTokens : RecordTurn(tokens)
      PROVE  AccountingInv'
  <2>1. UNCHANGED <<journal, drafted, answer, capture, capacity, clock>>
    BY <1>4 DEF Spend, RecordTurn
  <2>2. ProgressInv' /\ CapacityInv'
    BY <2>1 DEF AccountingInv, ProgressInv, CapacityInv, Recorded
  <2>3. Spend => UsageInv'
    BY DEF AccountingInv, UsageInv, Spend
  <2>4. ASSUME NEW tokens \in 1..MaxTokens, RecordTurn(tokens)
        PROVE  UsageInv'
    <3>1. /\ tokens \in Nat /\ tokens # 0 /\ usage' = tokens /\ counted' = counted \cup {tokens}
          /\ tokens >= usage /\ spent' = spent
      BY <2>4, AccountingAssumption DEF RecordTurn
    <3> QED
      BY <3>1 DEF AccountingInv, UsageInv
  <2>5. UsageInv'
    BY <1>4, <2>3, <2>4
  <2> QED
    BY <2>2, <2>5 DEF AccountingInv
<1>5. ASSUME NEW c \in Collectors, ReadCapacity(c) \/ StampCapacity(c) \/ RecordCapacity(c)
      PROVE  AccountingInv'
  <2>1. UNCHANGED <<journal, drafted, answer, spent, usage, counted>>
    BY <1>5 DEF ReadCapacity, StampCapacity, RecordCapacity
  <2>2. ProgressInv' /\ UsageInv'
    BY <2>1 DEF AccountingInv, ProgressInv, UsageInv, Recorded
  <2>3. CASE ReadCapacity(c)
    BY <2>2, <2>3 DEF ReadCapacity, AccountingInv, CapacityInv, CaptureRow
  <2>4. CASE StampCapacity(c)
    BY <2>2, <2>4 DEF StampCapacity, AccountingInv, CapacityInv, CaptureRow
  <2>5. CASE RecordCapacity(c)
    <3>1. /\ capture' \in [Collectors -> CaptureRow] /\ capture'[c].at = capture[c].at
          /\ \A d \in Collectors \ {c} : capture'[d] = capture[d]
          /\ capture[c].at \in Nat /\ capacity.at \in Nat /\ clock' = clock
      BY <2>5 DEF RecordCapacity, AccountingInv, CapacityInv, CaptureRow
    <3>2. /\ capacity' \in [by : Collectors \cup {Nil}, at : Nat]
          /\ capacity'.at >= capacity.at /\ capacity'.at >= capture[c].at
      BY <2>5, <3>1 DEF RecordCapacity, AccountingInv, CapacityInv
    <3> QED
      BY <2>2, <3>1, <3>2 DEF AccountingInv, CapacityInv, CaptureRow
  <2> QED
    BY <1>5, <2>3, <2>4, <2>5
<1> QED
  BY <1>1, <1>2, <1>3, <1>4, <1>5 DEF AccountingNext

\* However often a draft or an observation is sent again and however late it comes, it counts
\* once, for any number of authors, collectors and tokens (progress.py record; usage.py
\* record_turn, record_capacity).
THEOREM AccountsCountOnce ==
  AccountingInit /\ [][AccountingNext]_accountingVars => []CountedOnce
<1>1. AccountingInv => CountedOnce
  BY DEF AccountingInv, ProgressInv, UsageInv, CapacityInv, CountedOnce
<1> QED
  BY <1>1, AccountingBegins, AccountingKept, PTL

\* An author has seen no more than there is; what is counted was reported; the clock has
\* gone up once for each observation, none of which is stamped later.
AccountingBounds ==
  /\ \A a \in Authors : drafted[a].previous <= Len(journal)
  /\ spent <= MaxTokens /\ usage <= spent
  /\ clock = Cardinality({c \in Collectors : capture[c].pc \in {"stamped", "over"}})
  /\ \A c \in Collectors : capture[c].at <= clock
  /\ capacity.at <= clock

\* The bounds hold at first.
LEMMA BoundsBegin == AccountingInit => AccountingBounds
<1> SUFFICES ASSUME AccountingInit PROVE AccountingBounds
  OBVIOUS
<1>1. {c \in Collectors : capture[c].pc \in {"stamped", "over"}} = {}
  BY DEF AccountingInit
<1>2. clock = Cardinality({c \in Collectors : capture[c].pc \in {"stamped", "over"}})
  BY <1>1, FS_EmptySet DEF AccountingInit
<1> QED
  BY <1>2, AccountingAssumption DEF AccountingInit, AccountingBounds

\* A stamp is the only thing that puts the clock forward, and each observation gets one.
LEMMA BoundsKept ==
  AccountingInv /\ AccountingBounds /\ [AccountingNext]_accountingVars => AccountingBounds'
<1> SUFFICES ASSUME AccountingInv, AccountingBounds, [AccountingNext]_accountingVars
             PROVE  AccountingBounds'
  OBVIOUS
<1> DEFINE Stamped == {c \in Collectors : capture[c].pc \in {"stamped", "over"}}
<1>1. CASE UNCHANGED accountingVars
  BY <1>1 DEF accountingVars, AccountingBounds
<1>2. ASSUME NEW a \in Authors, DraftCheckpoint(a) \/ DraftAgain(a)
      PROVE  AccountingBounds'
  <2>1. /\ drafted' = [drafted EXCEPT ![a] = [pc |-> "sent", previous |-> Len(journal)]]
        /\ UNCHANGED <<journal, spent, usage, capture, capacity, clock>>
    BY <1>2 DEF DraftCheckpoint, DraftAgain
  <2>2. Len(journal) \in Nat
    BY DEF AccountingInv, ProgressInv
  <2>3. \A b \in Authors : drafted'[b].previous <= Len(journal')
    BY <2>1, <2>2 DEF AccountingInv, ProgressInv, AccountingBounds, AuthorRow
  <2> QED
    BY <2>1, <2>3 DEF AccountingBounds
<1>3. ASSUME NEW a \in Authors, NEW arrives \in BOOLEAN, RecordCheckpoint(a, arrives)
      PROVE  AccountingBounds'
  <2>1. UNCHANGED <<spent, usage, capture, capacity, clock>>
    BY <1>3 DEF RecordCheckpoint
  <2>2. Len(journal) \in Nat /\ Len(journal') \in Nat /\ Len(journal) <= Len(journal')
    BY <1>3 DEF RecordCheckpoint, AccountingInv, ProgressInv
  <2>3. \A b \in Authors : drafted'[b].previous = drafted[b].previous /\ drafted[b].previous \in Nat
    <3>1. \/ drafted' = drafted
          \/ drafted' = [drafted EXCEPT ![a].pc = "over"]
      BY <1>3 DEF RecordCheckpoint
    <3>2. drafted \in [Authors -> AuthorRow]
      BY DEF AccountingInv, ProgressInv
    <3> QED
      BY <3>1, <3>2 DEF AuthorRow
  <2>4. \A b \in Authors : drafted'[b].previous <= Len(journal')
    BY <2>2, <2>3 DEF AccountingBounds
  <2> QED
    BY <2>1, <2>4 DEF AccountingBounds
<1>4. ASSUME Spend \/ \E tokens \in 1..MaxTokens : RecordTurn(tokens)
      PROVE  AccountingBounds'
  <2>1. UNCHANGED <<journal, drafted, capture, capacity, clock>>
    BY <1>4 DEF Spend, RecordTurn
  <2>2. spent' <= MaxTokens /\ usage' <= spent'
    BY <1>4, AccountingAssumption DEF Spend, RecordTurn, AccountingInv, UsageInv, AccountingBounds
  <2> QED
    BY <2>1, <2>2 DEF AccountingBounds
<1>5. ASSUME NEW c \in Collectors, StampCapacity(c)
      PROVE  AccountingBounds'
  <2>1. /\ UNCHANGED <<journal, drafted, spent, usage, capacity>>
        /\ clock' = clock + 1 /\ capture'[c].at = clock + 1
        /\ \A d \in Collectors \ {c} : capture'[d] = capture[d]
    BY <1>5 DEF StampCapacity, AccountingInv, CapacityInv
  <2>2. Stamped' = Stamped \cup {c} /\ c \notin Stamped
    BY <1>5 DEF StampCapacity, AccountingInv, CapacityInv
  <2>3. IsFiniteSet(Stamped)
    BY AccountingAssumption, FS_Subset
  <2>4. Cardinality(Stamped') = clock'
    BY <2>1, <2>2, <2>3, FS_AddElement DEF AccountingBounds
  <2>5. clock \in Nat /\ capacity.at \in Nat /\ \A d \in Collectors : capture[d].at \in Nat
    BY DEF AccountingInv, CapacityInv, CaptureRow
  <2>6. \A d \in Collectors : capture'[d].at <= clock'
    BY <2>1, <2>5 DEF AccountingBounds
  <2>7. capacity'.at <= clock'
    BY <2>1, <2>5 DEF AccountingBounds
  <2> QED
    BY <2>1, <2>4, <2>6, <2>7 DEF AccountingBounds
<1>6. ASSUME NEW c \in Collectors, ReadCapacity(c) \/ RecordCapacity(c)
      PROVE  AccountingBounds'
  <2>1. /\ UNCHANGED <<journal, drafted, spent, usage, clock>>
        /\ \A d \in Collectors : capture'[d].at = capture[d].at
        /\ capacity' \in {capacity, [by |-> c, at |-> capture[c].at]}
    BY <1>6 DEF ReadCapacity, RecordCapacity, AccountingInv, CapacityInv, CaptureRow
  <2>2. Stamped' = Stamped
    BY <1>6 DEF ReadCapacity, RecordCapacity, AccountingInv, CapacityInv, CaptureRow
  <2>3. clock' = Cardinality(Stamped')
    BY <2>1, <2>2 DEF AccountingBounds
  <2>4. capacity'.at <= clock' /\ \A d \in Collectors : capture'[d].at <= clock'
    BY <2>1 DEF AccountingBounds
  <2> QED
    BY <2>1, <2>3, <2>4 DEF AccountingBounds
<1> QED
  BY <1>1, <1>2, <1>3, <1>4, <1>5, <1>6 DEF AccountingNext

\* There are no more checkpoints than authors, and no more stamps than collectors.
LEMMA AccountsTyped == AccountingInv /\ AccountingBounds => AccountingTypeOK
<1> SUFFICES ASSUME AccountingInv, AccountingBounds PROVE AccountingTypeOK
  OBVIOUS
<1> DEFINE Stamped == {c \in Collectors : capture[c].pc \in {"stamped", "over"}}
<1>1. /\ Len(journal) \in Nat /\ journal \in [1..Len(journal) -> Authors]
      /\ DOMAIN journal = 1..Len(journal)
  BY DEF AccountingInv, ProgressInv
<1>2. Cardinality(Authors) \in Nat /\ Len(journal) <= Cardinality(Authors)
  <2>1. journal \in Injection(1..Len(journal), Authors)
    <3>1. \A m, n \in 1..Len(journal) : journal[m] = journal[n] => m = n
      BY <1>1 DEF AccountingInv, ProgressInv
    <3> QED
      BY <1>1, <3>1, Fun_IsInj
  <2>2. Cardinality(1..Len(journal)) = Len(journal)
    BY <1>1, FS_Interval
  <2> QED
    BY <2>1, <2>2, FS_Injection, FS_CardinalityType, AccountingAssumption
<1>3. MaxStamp \in Nat /\ clock <= MaxStamp
  <2>1. Cardinality(Stamped) <= Cardinality(Collectors)
    BY FS_Subset, AccountingAssumption
  <2> QED
    BY <2>1, FS_CardinalityType, AccountingAssumption DEF MaxStamp, AccountingBounds
<1>4. journal \in UNION {[1..n -> Authors] : n \in 0..Cardinality(Authors)}
  BY <1>1, <1>2
<1>5. drafted \in [Authors -> [pc : {"idle", "sent", "over"}, previous : 0..Cardinality(Authors)]]
  BY <1>1, <1>2 DEF AccountingInv, ProgressInv, AuthorRow, AccountingBounds
<1>6. spent \in 0..MaxTokens /\ usage \in 0..MaxTokens /\ counted \in SUBSET (0..MaxTokens)
  BY AccountingAssumption DEF AccountingInv, UsageInv, AccountingBounds
<1>7. capture \in [Collectors -> [pc : {"idle", "read", "stamped", "over"}, at : 0..MaxStamp]]
  BY <1>3 DEF AccountingInv, CapacityInv, CaptureRow, AccountingBounds
<1>8. capacity \in [by : Collectors \cup {Nil}, at : 0..MaxStamp] /\ clock \in 0..MaxStamp
  BY <1>3 DEF AccountingInv, CapacityInv, AccountingBounds
<1> QED
  BY <1>4, <1>5, <1>6, <1>7, <1>8 DEF AccountingTypeOK, AccountingInv, ProgressInv

\* However many observations there are, the accounts keep their types and bounds.
LEMMA AccountsBounded ==
  AccountingInit /\ [][AccountingNext]_accountingVars => []AccountingTypeOK
  BY AccountingBegins, AccountingKept, BoundsBegin, BoundsKept, AccountsTyped, PTL

-----------------------------------------------------------------------------
(* All of them side by side *)

\* What one service does leaves the others alone, so that each keeps to its own
\* specification: what is proved of a service holds of MCServices.
THEOREM ServicesApart ==
  ServicesSpec =>
    /\ Spec /\ ImportSpec /\ RegistrationSpec
    /\ ConfigInit /\ [][ConfigNext]_configVars
    /\ MonitorInit /\ [][MonitorNext]_monitorVars
    /\ MemoryInit /\ [][MemoryNext]_memoryVars
    /\ AccountingInit /\ [][AccountingNext]_accountingVars
<1>1. ServicesInit => Init /\ ConfigInit /\ MonitorInit /\ MemoryInit /\ AccountingInit
                      /\ ImportInit /\ RegistrationInit
  BY DEF ServicesInit
<1>2. ASSUME [ServicesNext]_servicesVars
      PROVE  /\ [Next]_vars /\ [ConfigNext]_configVars /\ [MonitorNext]_monitorVars
             /\ [MemoryNext]_memoryVars /\ [AccountingNext]_accountingVars
             /\ [ImportNext]_importVars /\ [RegistrationNext]_registrationVars
  BY <1>2 DEF ServicesNext, OthersStill, AtRest, servicesVars
<1> QED
  BY <1>1, <1>2, PTL DEF ServicesSpec, Spec, ImportSpec, RegistrationSpec

\* Whatever runs has the types of its rows: of turns, drafts and releases, the monitor's
\* findings, shared memory, the accounts, an import and the registered projects.
THEOREM ServicesTyped == ServicesSpec => []ServicesTypeOK
<1> DEFINE Parts == {"turns", "configuration", "monitor", "memory", "accounting", "import",
                     "registration"}
<1>1. ServicesSpec => [](part \in Parts)
  <2>1. ServicesInit => part \in Parts
    BY DEF ServicesInit
  <2>2. part \in Parts /\ [ServicesNext]_servicesVars => (part \in Parts)'
    BY DEF ServicesNext, OthersStill, AtRest, servicesVars
  <2> QED
    BY <2>1, <2>2, PTL DEF ServicesSpec
<1>2. ImportSpec => []ImportTypeOK
  <2>1. ImportInv => ImportTypeOK
    BY DEF ImportInv
  <2>2. ImportInv /\ [ImportNext]_importVars => ImportInv'
    BY ImportKept
  <2> QED
    BY <2>1, <2>2, ImportBegins, PTL DEF ImportSpec
<1>3. RegistrationInv => RegistrationTypeOK
  BY DEF RegistrationInv
<1>4. /\ part \in Parts
      /\ TypeOK /\ ConfigTypeOK /\ MonitorTypeOK /\ MemoryTypeOK /\ AccountingTypeOK
      /\ ImportTypeOK /\ RegistrationTypeOK
      => ServicesTypeOK
  BY DEF ServicesTypeOK
<1> QED
  BY <1>1, <1>2, <1>3, <1>4, ServicesApart, HolderHasOperation, ReplacesItsBaseline,
     ReportsBacked, TrailComplete, AccountsBounded, RegistrationInvariance, PTL

=============================================================================
