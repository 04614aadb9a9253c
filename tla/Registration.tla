------------------------------ MODULE Registration ------------------------------
(***************************************************************************)
(* Registration of projects (project_registration.py, project_manifest.py,   *)
(* role_pack.py, migrations 0017, 0022 and 0025).  One call makes sure of    *)
(* the project, activates its manifest, activates its roles and pins the     *)
(* runtime boundary, in a transaction each.  A session lock keeps the calls   *)
(* apart, but it goes with its connection while the other connections of     *)
(* the call work on, and a call may die or be refused after any of its       *)
(* transactions.  What a manifest says never changes under its digest, so a  *)
(* manifest stands for its snapshot and its resource claims.                 *)
(***************************************************************************)
EXTENDS Naturals

CONSTANTS
  Projects,
  Manifests,    \* digests of validated manifests
  ProjectOf,    \* per manifest: its project
  ResourcesOf,  \* per manifest: what it claims as its own, numbered in the order of kind and key
  RolesOf,      \* per manifest: the roles it configures
  ProjectManager,
  Places,       \* install, state and workspace roots with image and revision; two of them
                \* are the same or do not overlap
  Registrars,   \* processes that call register
  NoManifest, NoPlace, NoRegistrar

ASSUME RegistrationAssumption ==
  /\ ProjectOf \in [Manifests -> Projects] /\ ResourcesOf \in [Manifests -> SUBSET Nat]
  /\ NoManifest \notin Manifests /\ NoPlace \notin Places /\ NoRegistrar \notin Registrars

VARIABLES
  known,         \* projects
  activeManifest,        \* project_manifest_active
  bound,         \* the manifest of the project's role bindings
  roles,         \* per project: the status of its roles; a paused queue goes with inactive
  boundary,      \* project_runtime_boundaries
  coordinating,  \* the call whose session holds "project-registration"
  resourceLock,  \* per resource: the transaction that holds its advisory lock
  registering,   \* per process: its call of register
  strayed        \* history: a call went on after it had lost the session lock

registrationVars ==
  <<known, activeManifest, bound, roles, boundary, coordinating, resourceLock, registering,
    strayed>>

Resources == UNION {ResourcesOf[m] : m \in Manifests}
Roles == {ProjectManager} \cup UNION {RolesOf[m] : m \in Manifests}
NoBoundary == [manifest |-> NoManifest, place |-> NoPlace]
NotRegistering == [pc |-> "idle", manifest |-> NoManifest, place |-> NoPlace]

RegistrationSteps ==
  {"idle", "preflight", "project", "manifest", "resources", "switch", "roles", "boundary"}

RegistrationTypeOK ==
  /\ known \subseteq Projects
  /\ activeManifest \in [Projects -> Manifests \cup {NoManifest}]
  /\ bound \in [Projects -> Manifests \cup {NoManifest}]
  /\ roles \in [Projects -> [Roles -> {"none", "active", "inactive"}]]
  /\ boundary \in
       [Projects -> [manifest : Manifests \cup {NoManifest}, place : Places \cup {NoPlace}]]
  /\ coordinating \in Registrars \cup {NoRegistrar}
  /\ resourceLock \in [Resources -> Registrars \cup {NoRegistrar}]
  /\ registering \in [Registrars ->
       [pc : RegistrationSteps, manifest : Manifests \cup {NoManifest},
        place : Places \cup {NoPlace}]]
  /\ strayed \in BOOLEAN
  /\ \A r \in Registrars : registering[r].pc # "idle" =>
       registering[r].manifest # NoManifest /\ registering[r].place # NoPlace

RegistrationInit ==
  /\ known = {}
  /\ activeManifest = [p \in Projects |-> NoManifest]
  /\ bound = [p \in Projects |-> NoManifest]
  /\ roles = [p \in Projects |-> [role \in Roles |-> "none"]]
  /\ boundary = [p \in Projects |-> NoBoundary]
  /\ coordinating = NoRegistrar
  /\ resourceLock = [x \in Resources |-> NoRegistrar]
  /\ registering = [r \in Registrars |-> NotRegistering]
  /\ strayed = FALSE

-----------------------------------------------------------------------------
Asked(r) == registering[r].manifest
ProjectAsked(r) == ProjectOf[Asked(r)]
Proceed(r, pc) == registering' = [registering EXCEPT ![r].pc = pc]

\* The call returns or raises: its session ends, and its transaction with it.
Leave(r) ==
  /\ registering' = [registering EXCEPT ![r] = NotRegistering]
  /\ coordinating' = IF coordinating = r THEN NoRegistrar ELSE coordinating

WithoutLocksOf(r) ==
  [x \in Resources |-> IF resourceLock[x] = r THEN NoRegistrar ELSE resourceLock[x]]

\* register, once it has the session lock.
BeginRegistration(r, m, place) ==
  /\ registering[r].pc = "idle" /\ coordinating = NoRegistrar
  /\ coordinating' = r
  /\ registering' = [registering EXCEPT
       ![r] = [pc |-> "preflight", manifest |-> m, place |-> place]]
  /\ UNCHANGED <<known, activeManifest, bound, roles, boundary, resourceLock, strayed>>

\* _validate_boundary_rows: the project has no boundary yet or exactly this one, and no other
\* project's overlaps it.
BoundaryFits(r) ==
  /\ boundary[ProjectAsked(r)] \in
       {NoBoundary, [manifest |-> Asked(r), place |-> registering[r].place]}
  /\ \A q \in Projects \ {ProjectAsked(r)} : boundary[q].place # registering[r].place

PreflightBoundary(r) ==
  /\ registering[r].pc = "preflight" /\ BoundaryFits(r)
  /\ Proceed(r, "project")
  /\ UNCHANGED <<known, activeManifest, bound, roles, boundary, coordinating, resourceLock,
                 strayed>>

EnsureProject(r) ==
  /\ registering[r].pc = "project"
  /\ known' = known \cup {ProjectAsked(r)}
  /\ Proceed(r, "manifest")
  /\ UNCHANGED <<activeManifest, bound, roles, boundary, coordinating, resourceLock, strayed>>

-----------------------------------------------------------------------------
(* ProjectManifestStore.activate and RolePackActivator._activate *)

\* FOR UPDATE of the project's row, which both transactions begin with.
ProjectRowFree(p) ==
  \A r \in Registrars : registering[r].pc \in {"resources", "switch"} => ProjectAsked(r) # p

LockProject(r) ==
  /\ registering[r].pc = "manifest" /\ ProjectRowFree(ProjectAsked(r))
  /\ Proceed(r, "resources")
  /\ UNCHANGED <<known, activeManifest, bound, roles, boundary, coordinating, resourceLock,
                 strayed>>

\* Mutant: the project's row is lock enough.
NoResources(m) == {}

LocksNeeded(m) == ResourcesOf[m]

Missing(r) == {x \in LocksNeeded(Asked(r)) : resourceLock[x] # r}

\* One lock after the other, in the one order all manifests have.
LockResource(r) ==
  /\ registering[r].pc = "resources"
  /\ \E x \in Missing(r) :
       /\ \A y \in Missing(r) : x <= y
       /\ resourceLock[x] = NoRegistrar
       /\ resourceLock' = [resourceLock EXCEPT ![x] = r]
  /\ UNCHANGED <<known, activeManifest, bound, roles, boundary, coordinating, registering, strayed>>

Claims(p) == IF activeManifest[p] = NoManifest THEN {} ELSE ResourcesOf[activeManifest[p]]

\* _authorize_active_collisions: register never grants anybody another project's resource.
CheckCollisions(r) ==
  /\ registering[r].pc = "resources" /\ Missing(r) = {}
  /\ \A q \in Projects \ {ProjectAsked(r)} : Claims(q) \cap ResourcesOf[Asked(r)] = {}
  /\ Proceed(r, "switch")
  /\ UNCHANGED <<known, activeManifest, bound, roles, boundary, coordinating, resourceLock,
                 strayed>>

SwitchManifest(r) ==
  /\ registering[r].pc = "switch"
  /\ activeManifest' = [activeManifest EXCEPT ![ProjectAsked(r)] = Asked(r)]
  /\ resourceLock' = WithoutLocksOf(r)
  /\ Proceed(r, "roles")
  /\ UNCHANGED <<known, bound, roles, boundary, coordinating, strayed>>

\* An established project manager cannot be removed; other roles become inactive.
ActivateRoles(r) ==
  LET p == ProjectAsked(r) IN
  /\ registering[r].pc = "roles" /\ ProjectRowFree(p)
  /\ activeManifest[p] = Asked(r)
  /\ roles[p][ProjectManager] # "none" => ProjectManager \in RolesOf[Asked(r)]
  /\ bound' = [bound EXCEPT ![p] = Asked(r)]
  /\ roles' = [roles EXCEPT ![p] = [role \in Roles |->
       IF role \in RolesOf[Asked(r)] THEN "active"
       ELSE IF @[role] = "none" THEN "none" ELSE "inactive"]]
  /\ Proceed(r, "boundary")
  /\ UNCHANGED <<known, activeManifest, boundary, coordinating, resourceLock, strayed>>

RegisterBoundary(r) ==
  /\ registering[r].pc = "boundary" /\ BoundaryFits(r)
  /\ boundary' = [boundary EXCEPT ![ProjectAsked(r)] =
       [manifest |-> Asked(r), place |-> registering[r].place]]
  /\ Leave(r)
  /\ UNCHANGED <<known, activeManifest, bound, roles, resourceLock, strayed>>

-----------------------------------------------------------------------------
\* A check refuses, a statement fails, or the process dies.
GiveUpRegistration(r) ==
  /\ registering[r].pc # "idle" /\ Leave(r)
  /\ resourceLock' = WithoutLocksOf(r)
  /\ UNCHANGED <<known, activeManifest, bound, roles, boundary, strayed>>

\* The connection with the session lock breaks; the call finds out when it wants to unlock.
LoseRegistrationLock ==
  /\ coordinating # NoRegistrar
  /\ coordinating' = NoRegistrar /\ strayed' = TRUE
  /\ UNCHANGED <<known, activeManifest, bound, roles, boundary, resourceLock, registering>>

RegistrationNext ==
  \/ LoseRegistrationLock
  \/ \E r \in Registrars :
       \/ \E m \in Manifests, place \in Places : BeginRegistration(r, m, place)
       \/ PreflightBoundary(r) \/ EnsureProject(r) \/ LockProject(r) \/ LockResource(r)
       \/ CheckCollisions(r) \/ SwitchManifest(r) \/ ActivateRoles(r) \/ RegisterBoundary(r)
       \/ GiveUpRegistration(r)

RegistrationSpec == RegistrationInit /\ [][RegistrationNext]_registrationVars

-----------------------------------------------------------------------------
\* However registrations die, repeat or run into each other, no two projects hold one
\* resource or one place, and a project keeps its manager; and while no call strays from
\* its lock, a registered boundary is that of the active manifest with its own roles,
\* although each is written in a transaction of its own (register, activate, _activate,
\* project_manifest.py:932, role_pack.py:277).
ProjectsApart ==
  \A p \in Projects :
    /\ \A q \in Projects \ {p} :
         /\ Claims(p) \cap Claims(q) = {}
         /\ boundary[p] # NoBoundary => boundary[p].place # boundary[q].place
    /\ roles[p][ProjectManager] # "inactive"
    /\ boundary[p] # NoBoundary /\ ~strayed =>
         activeManifest[p] = boundary[p].manifest /\ bound[p] = boundary[p].manifest

==============================================================================
