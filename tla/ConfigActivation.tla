--------------------------- MODULE ConfigActivation ---------------------------
(***************************************************************************)
(* Promotion of package configuration (config_activation.py,                 *)
(* config_promotions.py): drafts that are validated against the active       *)
(* configuration, approved by a sponsor and activated, immutable releases,   *)
(* and one document with the active pointer and its history.  Every step     *)
(* holds the repository lock, but an activation is several of them, its      *)
(* process may die in between, and operators move the pointer directly, too. *)
(***************************************************************************)
EXTENDS Naturals, Sequences, SequencesExt

CONSTANTS
  Drafts,
  Configs,       \* what a configuration resolves to, one digest per content
  Activators,    \* processes that activate drafts
  NoDigest,
  NoDraft,
  MaxRevisions   \* bound: changes of the pointer

ASSUME ConfigAssumption ==
  NoDigest \notin Configs /\ NoDraft \notin Drafts /\ MaxRevisions \in Nat

VARIABLES
  packages,   \* what each draft's references resolve to now; nothing before its creation
  draft,      \* the draft records
  releases,   \* the release files
  history,    \* the activation document; the pointer is the last event's target.  The draft an
              \* event came from is kept for the properties only
  activator   \* per process: where ConfigPromotionStore.activate is

configVars == <<packages, draft, releases, history, activator>>

Waiting == [pc |-> "idle", draft |-> NoDraft, digest |-> NoDigest]

ConfigTypeOK ==
  /\ packages \in [Drafts -> Configs \cup {NoDigest}]
  /\ draft \in [Drafts ->
       [status : {"none", "draft", "pending_approval", "approved", "rejected", "activated"},
        baseline : Configs \cup {NoDigest}, digest : Configs \cup {NoDigest}]]
  /\ releases \subseteq Configs
  /\ Len(history) <= MaxRevisions
  /\ \A i \in DOMAIN history : history[i] \in
       [previous : Configs \cup {NoDigest}, target : Configs, draft : Drafts \cup {NoDraft}]
  /\ activator \in [Activators ->
       [pc : {"idle", "release", "check", "activate", "mark"},
        draft : Drafts \cup {NoDraft}, digest : Configs \cup {NoDigest}]]
  /\ \A d \in Drafts :
       draft[d].digest = NoDigest <=> draft[d].status \in {"none", "draft"}

ConfigInit ==
  /\ packages = [d \in Drafts |-> NoDigest]
  /\ draft = [d \in Drafts |-> [status |-> "none", baseline |-> NoDigest, digest |-> NoDigest]]
  /\ releases = {}
  /\ history = <<>>
  /\ activator = [p \in Activators |-> Waiting]

Active == IF history = <<>> THEN NoDigest ELSE Last(history).target

-----------------------------------------------------------------------------
(* ConfigActivationStore *)

\* Mutant: "nothing was active" counts as no expectation.
ExpectedIfAny(expected) == expected \in {NoDigest, Active}

\* The optimistic check of _change_active.
Expected(expected) == Active = expected

\* _change_active: pointer and history are one document, replaced at once.  The target's
\* release must exist; the pointer that is already there is no change.
Point(digest, d) ==
  /\ digest \in releases
  /\ history' = IF Active = digest THEN history
                ELSE Append(history, [previous |-> Active, target |-> digest, draft |-> d])

Room == Len(history) < MaxRevisions

\* The command line: a release of anything that resolves, and the pointer moved to it with or
\* without an expected one.  (With one, it is a special case of none.)
ReleaseDirectly(digest) ==
  /\ releases' = releases \cup {digest}
  /\ UNCHANGED <<packages, draft, history, activator>>

ActivateDirectly(digest) ==
  /\ Room /\ Point(digest, NoDraft)
  /\ UNCHANGED <<packages, draft, releases, activator>>

RollBackTo(digest) ==
  /\ Room /\ Active # NoDigest /\ Point(digest, NoDraft)
  /\ UNCHANGED <<packages, draft, releases, activator>>

-----------------------------------------------------------------------------
(* ConfigPromotionStore *)

\* create compares the caller's baseline with the pointer.
CreateDraft(d, digest) ==
  /\ draft[d].status = "none"
  /\ draft' = [draft EXCEPT ![d].status = "draft", ![d].baseline = Active]
  /\ packages' = [packages EXCEPT ![d] = digest]
  /\ UNCHANGED <<releases, history, activator>>

\* validate: a sponsor's own draft is approved with it.
ValidateDraft(d, approval) ==
  /\ draft[d].status = "draft" /\ Active = draft[d].baseline
  /\ draft' = [draft EXCEPT ![d].status = approval, ![d].digest = packages[d]]
  /\ UNCHANGED <<packages, releases, history, activator>>

Decide(d, decision) ==
  /\ draft[d].status = "pending_approval"
  /\ draft' = [draft EXCEPT ![d].status = decision]
  /\ UNCHANGED <<packages, releases, history, activator>>

\* activate: the draft is approved and its packages still resolve to what was validated.
BeginActivation(p, d) ==
  /\ activator[p] = Waiting
  /\ draft[d].status = "approved" /\ packages[d] = draft[d].digest
  /\ activator' = [activator EXCEPT ![p] = [Waiting EXCEPT !.pc = "release", !.draft = d]]
  /\ UNCHANGED <<packages, draft, releases, history>>

\* create_release resolves the packages again.
CreateRelease(p) ==
  /\ activator[p].pc = "release"
  /\ LET digest == packages[activator[p].draft]
     IN  /\ releases' = releases \cup {digest}
         /\ activator' = [activator EXCEPT ![p].pc = "check", ![p].digest = digest]
  /\ UNCHANGED <<packages, draft, history>>

CheckActive(p) ==
  /\ activator[p].pc = "check"
  /\ activator' = [activator EXCEPT ![p].pc =
       IF Active = activator[p].digest THEN "mark" ELSE "activate"]
  /\ UNCHANGED <<packages, draft, releases, history>>

ActivateDraft(p) ==
  /\ activator[p].pc = "activate" /\ Room
  /\ Expected(draft[activator[p].draft].baseline)
  /\ Point(activator[p].digest, activator[p].draft)
  /\ activator' = [activator EXCEPT ![p].pc = "mark"]
  /\ UNCHANGED <<packages, draft, releases>>

MarkActivated(p) ==
  /\ activator[p].pc = "mark"
  /\ draft' = [draft EXCEPT ![activator[p].draft].status = "activated"]
  /\ activator' = [activator EXCEPT ![p] = Waiting]
  /\ UNCHANGED <<packages, releases, history>>

\* The process dies or a step raises: the guardrails, or the expectation of the pointer.
Abandon(p) ==
  /\ activator[p] # Waiting
  /\ activator' = [activator EXCEPT ![p] = Waiting]
  /\ UNCHANGED <<packages, draft, releases, history>>

\* The repository's packages are edited.
EditPackages(d, digest) ==
  /\ draft[d].status # "none"
  /\ packages' = [packages EXCEPT ![d] = digest]
  /\ UNCHANGED <<draft, releases, history, activator>>

ConfigNext ==
  \/ \E digest \in Configs :
       ReleaseDirectly(digest) \/ ActivateDirectly(digest) \/ RollBackTo(digest)
  \/ \E d \in Drafts :
       \/ \E approval \in {"approved", "pending_approval"} : ValidateDraft(d, approval)
       \/ \E decision \in {"approved", "rejected"} : Decide(d, decision)
       \/ \E digest \in Configs : CreateDraft(d, digest) \/ EditPackages(d, digest)
  \/ \E p \in Activators :
       \/ \E d \in Drafts : BeginActivation(p, d)
       \/ CreateRelease(p) \/ CheckActive(p) \/ ActivateDraft(p) \/ MarkActivated(p)
       \/ Abandon(p)

-----------------------------------------------------------------------------
\* What the sponsor approved is a difference against a baseline: no activation of a draft ever
\* replaces anything else, however many activations, rollbacks and dead processes come between
\* the validation and the activation, and a draft is marked as activated only when what was
\* released for it is, or has been, the active configuration.  The history itself is one chain
\* over existing releases (config_activation.py _change_active; config_promotions.py activate).
OnlyOverItsBaseline ==
  /\ \A i \in DOMAIN history :
       /\ history[i].previous = (IF i = 1 THEN NoDigest ELSE history[i - 1].target)
       /\ history[i].target \in releases
       /\ history[i].draft # NoDraft =>
            /\ history[i].previous = draft[history[i].draft].baseline
            /\ draft[history[i].draft].status \in {"approved", "activated"}
  /\ \A p \in Activators : activator[p].pc = "mark" =>
       \E i \in DOMAIN history : history[i].target = activator[p].digest
=============================================================================
