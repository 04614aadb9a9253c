------------------------------ MODULE MCServices ------------------------------
(* The turns of a role and the services around them that share no state with   *)
(* it, checked in one run: each behaviour exercises the one that part names.   *)
(*   turns: two instances take turns on two items of one conversation.         *)
(*   configuration: two drafts and two contents, activated by two processes.   *)
(*   monitor: one work item under two owners of the monitor.                   *)
(*   memory: one entry of shared memory, two requests and a reader.            *)
(*   accounting: two checkpoints, one turn's usage, two capacity readings.     *)
(*   import: the answers, previews and activations of one project's import.    *)
(*   registration: two projects, one of them with two manifests.              *)
EXTENDS RoleTurn, ConfigActivation, PmMonitor, SharedMemory, Accounting, ProjectImport,
  Registration, TLC

VARIABLE part

\* The model values stand for other things in each part, so that a permutation serves all:
\* i1 and i2 are instances, drafts and their activators, monitors, requests, authors, and the
\* operations of an import with the processes that ask for them, and the callers of register;
\* j1 and j2 are prompt digests, contents of the configuration or of a preview, collectors, and
\* the places of projects.
CONSTANTS i1, i2, j1, j2, k1, k2

\* Two manifests of project k1 and one of k2.  The second of k1 claims what k2 does, and lacks
\* the manager the first has.
MCProjectOf == [m \in 1..3 |-> IF m = 3 THEN k2 ELSE k1]
MCResourcesOf == [m \in 1..3 |-> CASE m = 1 -> {1} [] m = 2 -> {1, 2} [] m = 3 -> {2}]
MCRolesOf == [m \in 1..3 |-> IF m = 2 THEN {"developer"} ELSE {"manager"}]

ServicesInit ==
  /\ Init /\ ConfigInit /\ MonitorInit /\ MemoryInit /\ AccountingInit /\ ImportInit
  /\ RegistrationInit
  /\ part \in {"turns", "configuration", "monitor", "memory", "accounting", "import",
               "registration"}
  \* what does not run begins in one way only
  /\ part = "monitor" \/ \A w \in Works : item[w].payload = "clear"
  /\ part = "memory" \/ memory = NoEntry

OthersStill ==
  /\ UNCHANGED part
  /\ IF part = "turns" THEN TRUE ELSE UNCHANGED vars
  /\ IF part = "configuration" THEN TRUE ELSE UNCHANGED configVars
  /\ IF part = "monitor" THEN TRUE ELSE UNCHANGED monitorVars
  /\ IF part = "memory" THEN TRUE ELSE UNCHANGED memoryVars
  /\ IF part = "accounting" THEN TRUE ELSE UNCHANGED accountingVars
  /\ IF part = "import" THEN TRUE ELSE UNCHANGED importVars
  /\ IF part = "registration" THEN TRUE ELSE UNCHANGED registrationVars

servicesVars ==
  <<part, vars, configVars, monitorVars, memoryVars, accountingVars, importVars,
    registrationVars>>

\* All but the turns may have nothing left to do within their bounds.
AtRest == part # "turns" /\ UNCHANGED servicesVars

ServicesNext ==
  \/ part = "turns" /\ Next /\ OthersStill
  \/ part = "configuration" /\ ConfigNext /\ OthersStill
  \/ part = "monitor" /\ MonitorNext /\ OthersStill
  \/ part = "memory" /\ MemoryNext /\ OthersStill
  \/ part = "accounting" /\ AccountingNext /\ OthersStill
  \/ part = "import" /\ ImportNext /\ OthersStill
  \/ part = "registration" /\ RegistrationNext /\ OthersStill
  \/ AtRest

ServicesSpec == ServicesInit /\ [][ServicesNext]_servicesVars

\* One type invariant for all of them; only what runs can leave its type.
ServicesTypeOK ==
  \/ part = "turns" /\ TypeOK
  \/ part = "configuration" /\ ConfigTypeOK
  \/ part = "monitor" /\ MonitorTypeOK
  \/ part = "memory" /\ MemoryTypeOK
  \/ part = "accounting" /\ AccountingTypeOK
  \/ part = "import" /\ ImportTypeOK
  \/ part = "registration" /\ RegistrationTypeOK

\* What does not run stays as it began: it does not tell states apart.
MCView ==
  <<part,
    CASE part = "turns" -> vars
      [] part = "configuration" -> configVars
      [] part = "monitor" -> monitorVars
      [] part = "memory" -> memoryVars
      [] part = "accounting" -> accountingVars
      [] part = "import" -> importVars
      [] part = "registration" -> registrationVars>>

MCSymmetry == Permutations({i1, i2}) \cup Permutations({j1, j2})

==============================================================================
