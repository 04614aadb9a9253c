----------------------------- MODULE ProjectImport -----------------------------
(***************************************************************************)
(* Import of one project (import_questions.py, import_preview.py, migrations *)
(* 0030 and 0031): a versioned session of questions, previews pinned to the  *)
(* version whose answers they resolve, a sponsor's decision on the latest    *)
(* preview, and its activation by an external adapter that is called between *)
(* two transactions.  Questions are added and answers corrected at any time, *)
(* and a call of activate may fail, die, or lose the session with its lock   *)
(* anywhere on the way.  Every write compares the version its caller read,   *)
(* so that a caller who read an older one changes nothing.                   *)
(***************************************************************************)
EXTENDS Naturals, Sequences, SequencesExt

CONSTANTS
  Contents,    \* what a preview proposes: manifest, selections and candidates
  Activations, \* operation ids of activation requests
  Importers,   \* processes that call activate, each for an actor of its own
  NoImporter,
  MaxAnswers,  \* bound: versions of the session
  MaxPreviews  \* bound: revisions of the preview

ASSUME ImportAssumption ==
  /\ NoImporter \notin Importers /\ NoImporter \notin Activations
  /\ MaxAnswers \in Nat \ {0} /\ MaxPreviews \in Nat \ {0}

VARIABLES
  session,    \* the question session: whether all is answered, and its version
  preview,    \* project_import_previews by revision, with the decisions
  activation, \* the row of project_import_activations
  locked,     \* the call whose session holds the activation lock
  importing,  \* per process: its call of activate, with the request it made
  delivered   \* the requests the adapter was given

importVars == <<session, preview, activation, locked, importing, delivered>>

Preview == [answers : 1..MaxAnswers, content : Contents,
            status : {"draft", "superseded", "approved", "rejected", "activated"},
            decision : {"none", "approved", "rejected"}]

\* What is activated: a revision, with the sponsors the session named at that time.
Request == [operation : Activations, revision : 1..MaxPreviews, answers : 1..MaxAnswers,
            by : Importers]

NoActivation == [status |-> "none", revision |-> 0, operation |-> NoImporter, by |-> NoImporter]
NotImporting == [pc |-> "idle"]

ImportTypeOK ==
  /\ session \in [ready : BOOLEAN, version : 1..MaxAnswers]
  /\ preview \in Seq(Preview) /\ Len(preview) <= MaxPreviews
  /\ activation = NoActivation \/ activation \in
       [status : {"pending", "activated"}, revision : DOMAIN preview,
        operation : Activations, by : Importers]
  /\ locked \in Importers \cup {NoImporter}
  /\ importing \in
       [Importers -> {NotImporting} \cup [pc : {"call", "record"}, request : Request]]
  /\ delivered \subseteq Request

ImportInit ==
  /\ session = [ready |-> FALSE, version |-> 1]
  /\ preview = <<>>
  /\ activation = NoActivation
  /\ locked = NoImporter
  /\ importing = [p \in Importers |-> NotImporting]
  /\ delivered = {}

-----------------------------------------------------------------------------
(* Questions *)

\* add_followups reopens the session; an answer keeps it ready or may make it so, and what
\* changes nothing keeps the version as well.
ReviseSession(ready) ==
  /\ session.version < MaxAnswers
  /\ session' = [ready |-> ready, version |-> session.version + 1]
  /\ UNCHANGED <<preview, activation, locked, importing, delivered>>

AddFollowup == ReviseSession(FALSE)
AnswerQuestions == \E ready \in BOOLEAN : (session.ready => ready) /\ ReviseSession(ready)

-----------------------------------------------------------------------------
(* Previews *)

\* create_preview, under locks of the import, of the session, and of the latest revision.
\* No two revisions of an import have one digest, which covers content and answers.
CreatePreview(content) ==
  /\ session.ready /\ Len(preview) < MaxPreviews
  /\ preview # <<>> => Last(preview).status \notin {"approved", "activated"}
  /\ \A r \in DOMAIN preview :
       <<preview[r].answers, preview[r].content>> # <<session.version, content>>
  /\ preview' = Append(
       [r \in DOMAIN preview |-> IF r = Len(preview) THEN [preview[r] EXCEPT !.status = "superseded"]
                                 ELSE preview[r]],
       [answers |-> session.version, content |-> content, status |-> "draft", decision |-> "none"])
  /\ UNCHANGED <<session, activation, locked, importing, delivered>>

\* Mutant: that the answers are complete is enough.
StillReady(r) == session.ready

\* _ensure_preview_current
StillCurrent(r) == session.ready /\ session.version = preview[r].answers

DecidePreview(decision) ==
  LET r == Len(preview) IN
  /\ preview # <<>> /\ preview[r].status = "draft" /\ StillCurrent(r)
  /\ preview' = [preview EXCEPT ![r].status = decision, ![r].decision = decision]
  /\ UNCHANGED <<session, activation, locked, importing, delivered>>

-----------------------------------------------------------------------------
(* activate *)

\* _activation_request: one activation per import, which keeps its operation, its revision and
\* the actor who asked first.  One that is activated already is answered from its receipt.
RequestActivation(p, o, r) ==
  LET first == activation = NoActivation
      asked == IF first THEN [status |-> "pending", revision |-> r, operation |-> o, by |-> p]
               ELSE activation
  IN
  /\ importing[p] = NotImporting /\ locked = NoImporter
  /\ preview[r].decision = "approved"
  /\ IF first THEN preview[r].status = "approved"
     ELSE activation = [status |-> "pending", revision |-> r, operation |-> o, by |-> activation.by]
  /\ StillCurrent(r)
  /\ activation' = asked
  /\ importing' = [importing EXCEPT ![p] =
       [pc |-> "call",
        request |-> [operation |-> o, revision |-> r, answers |-> session.version,
                     by |-> asked.by]]]
  /\ locked' = p
  /\ UNCHANGED <<session, preview, delivered>>

\* The adapter is idempotent per operation id.  It answers with a receipt, or fails whether or
\* not it did what it was asked; last_error only describes the failure.
CallActivator(p) ==
  /\ importing[p] # NotImporting /\ importing[p].pc = "call"
  /\ \/ /\ delivered' = delivered \cup {importing[p].request}
        /\ importing' = [importing EXCEPT ![p].pc = "record"]
        /\ UNCHANGED locked
     \/ /\ delivered' \in {delivered, delivered \cup {importing[p].request}}
        /\ importing' = [importing EXCEPT ![p] = NotImporting]
        /\ locked' = IF locked = p THEN NoImporter ELSE locked
  /\ UNCHANGED <<session, preview, activation>>

\* The second transaction, on the connection that holds the lock.
RecordActivation(p) ==
  /\ importing[p] # NotImporting /\ importing[p].pc = "record" /\ locked = p
  /\ LET r == importing[p].request.revision IN
     /\ activation' = [activation EXCEPT !.status = "activated"]
     /\ preview' = [preview EXCEPT ![r].status = IF @ = "approved" THEN "activated" ELSE @]
  /\ importing' = [importing EXCEPT ![p] = NotImporting]
  /\ locked' = NoImporter
  /\ UNCHANGED <<session, delivered>>

\* The process dies, the receipt disagrees, or nothing can be recorded.
AbandonImport(p) ==
  /\ importing[p] # NotImporting
  /\ importing' = [importing EXCEPT ![p] = NotImporting]
  /\ locked' = IF locked = p THEN NoImporter ELSE locked
  /\ UNCHANGED <<session, preview, activation, delivered>>

\* The database session ends, its lock with it, while the call goes on.
LoseSession ==
  /\ locked # NoImporter /\ locked' = NoImporter
  /\ UNCHANGED <<session, preview, activation, importing, delivered>>

ImportNext ==
  \/ AddFollowup \/ AnswerQuestions \/ LoseSession
  \/ \E content \in Contents : CreatePreview(content)
  \/ \E decision \in {"approved", "rejected"} : DecidePreview(decision)
  \/ \E p \in Importers :
       \/ \E o \in Activations, r \in DOMAIN preview : RequestActivation(p, o, r)
       \/ CallActivator(p) \/ RecordActivation(p) \/ AbandonImport(p)

ImportSpec == ImportInit /\ [][ImportNext]_importVars

-----------------------------------------------------------------------------
\* Whoever repeats an activation, and whatever is asked, answered or proposed meanwhile, the
\* adapter only ever gets one request: the last preview, which a sponsor approved, with the
\* very answers it was approved for; and an import that counts as activated was (activate,
\* _activation_request, import_preview.py:552).
ImportApproved ==
  /\ \A q \in delivered :
       /\ q.revision = Len(preview)
       /\ preview[q.revision].decision = "approved" /\ preview[q.revision].answers = q.answers
       /\ \A other \in delivered : q = other
  /\ activation.status = "activated" \/ (\E r \in DOMAIN preview : preview[r].status = "activated") =>
       /\ delivered # {}
       /\ activation.status = "activated" /\ preview[activation.revision].status = "activated"
=============================================================================
