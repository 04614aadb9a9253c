---------------------------- MODULE AdoProgress -----------------------------
(***************************************************************************)
(* Milestones of one work item told to Azure DevOps: the publisher           *)
(* (ado_progress.py) and the two primitives it uses of the adapter, a        *)
(* comment with a marker and a conditional update (ado_adapter.py).          *)
(*                                                                         *)
(* A request to ADO may not arrive, or its answer may be lost; the adapter   *)
(* repeats it at once, a few times.  A publisher that fails or dies leaves   *)
(* its milestone pending, and publish is called again.  People edit the ADO  *)
(* item meanwhile.                                                          *)
(***************************************************************************)
EXTENDS Naturals, Sequences

CONSTANTS
  Milestones,
  SequenceOf,     \* the order of the work item's milestones
  TargetOf,       \* the ADO state a milestone asks for, or "none"
  Publishers,     \* executions of publish
  MaxTries,       \* the adapter's max_attempts
  MaxHumanEdits,  \* bound: edits of the ADO item by people
  MaxLost         \* bound: connections that are lost with the lock they hold

AdoStates == {"New", "Active", "Resolved", "Closed"}

\* _PREDECESSOR
Predecessor == [Active |-> "New", Resolved |-> "Active", Closed |-> "Resolved"]

ASSUME AdoAssumption ==
  /\ SequenceOf \in [Milestones -> Nat]
  /\ \A m, n \in Milestones : SequenceOf[m] = SequenceOf[n] => m = n
  /\ TargetOf \in [Milestones -> (AdoStates \ {"New"}) \cup {"none"}]
  /\ MaxTries \in Nat \ {0} /\ MaxHumanEdits \in Nat /\ MaxLost \in Nat

VARIABLES
  milestone,  \* work_item_ado_milestones: status and state disposition
  update,     \* work_item_ado_update_operations: a milestone's status
  ado,        \* the remote item: state and revision
  comments,   \* its comments, by the milestone whose marker they carry
  publisher,  \* where each execution is, what it has seen, the advisory locks it holds
  edits,
  lost

adoVars == <<milestone, update, ado, comments, publisher, edits, lost>>

Idle == [pc |-> "idle", of |-> "none", seen |-> "none", rev |-> 0, tries |-> 0, locks |-> {}]

Dispositions == {"not-requested", "already-current", "updated", "preserved-manual"}

AdoTypeOK ==
  /\ milestone \in [Milestones -> [st : {"none", "pending", "published", "suppressed"},
                                   disposition : Dispositions \cup {"none", "suppressed"}]]
  /\ \A m \in Milestones :
       /\ (milestone[m].st \in {"none", "pending"}) = (milestone[m].disposition = "none")
       /\ (milestone[m].st = "suppressed") = (milestone[m].disposition = "suppressed")
       /\ update[m] # "none" => TargetOf[m] # "none" /\ milestone[m].st # "none"
  /\ update \in [Milestones -> {"none", "pending", "succeeded", "conflicted"}]
  /\ ado.state \in AdoStates /\ ado.rev \in Nat
  /\ comments \in Seq(Milestones)
  /\ publisher \in [Publishers ->
       [pc : {"idle", "read", "scan", "post", "decide", "fetch", "patch", "reread"} \cup
             Dispositions,
        of : Milestones \cup {"none"}, seen : AdoStates \cup {"none"},
        rev : 0..ado.rev, tries : 0..MaxTries, locks : SUBSET {"item", "update"}]]
  /\ \A p, q \in Publishers :
       p # q => "item" \notin publisher[p].locks \cap publisher[q].locks
  /\ edits \in 0..MaxHumanEdits /\ lost \in 0..MaxLost

AdoInit ==
  /\ milestone = [m \in Milestones |-> [st |-> "none", disposition |-> "none"]]
  /\ update = [m \in Milestones |-> "none"]
  /\ ado = [state |-> "New", rev |-> 1]
  /\ comments = <<>>
  /\ publisher = [p \in Publishers |-> Idle]
  /\ edits = 0 /\ lost = 0

-----------------------------------------------------------------------------

Locked(lock, p) == \E q \in Publishers \ {p} : lock \in publisher[q].locks

Goes(p, pc) == publisher' = [publisher EXCEPT ![p].pc = pc, ![p].tries = 0]

\* The rest of publish needs neither what was seen nor the lock of the update.
Settles(p, pc) ==
  publisher' = [publisher EXCEPT ![p] =
    [Idle EXCEPT !.pc = pc, !.of = publisher[p].of, !.locks = publisher[p].locks \ {"update"}]]

Stale(m) ==
  \E n \in Milestones : milestone[n].st # "none" /\ SequenceOf[m] < SequenceOf[n]

\* Mutant: a milestone does not wait for earlier ones.
NeverBlocked(m) == FALSE

Blocked(m) ==
  \E n \in Milestones : milestone[n].st = "pending" /\ SequenceOf[n] < SequenceOf[m]

\* The lock of the item and _start in one step; a milestone that was started
\* before is resumed unless it is done.
Suppress(p, m) ==
  /\ publisher[p].pc = "idle" /\ ~Locked("item", p)
  /\ milestone[m].st = "none" /\ Stale(m)
  /\ milestone' = [milestone EXCEPT ![m] = [st |-> "suppressed", disposition |-> "suppressed"]]
  /\ UNCHANGED <<update, ado, comments, publisher, edits, lost>>

StartMilestone(p, m) ==
  /\ publisher[p].pc = "idle" /\ ~Locked("item", p)
  /\ \/ milestone[m].st = "none" /\ ~Stale(m) /\ ~Blocked(m)
     \/ milestone[m].st = "pending"
  /\ milestone' = [milestone EXCEPT ![m].st = "pending"]
  /\ publisher' = [publisher EXCEPT ![p] = [Idle EXCEPT !.pc = "read", !.of = m, !.locks = {"item"}]]
  /\ UNCHANGED <<update, ado, comments, edits, lost>>

\* The state that decides about the update is read before the comment is made.
ReadState(p) ==
  /\ publisher[p].pc = "read"
  /\ publisher' = [publisher EXCEPT ![p].pc = "scan", ![p].seen = ado.state]
  /\ UNCHANGED <<milestone, update, ado, comments, edits, lost>>

Marked(m) == \E i \in DOMAIN comments : comments[i] = m

\* comment_once looks through all pages for the marker.
ScanComments(p) ==
  /\ publisher[p].pc = "scan"
  /\ Goes(p, IF Marked(publisher[p].of) THEN "decide" ELSE "post")
  /\ UNCHANGED <<milestone, update, ado, comments, edits, lost>>

Repeats(p) ==
  /\ publisher[p].tries + 1 < MaxTries
  /\ publisher' = [publisher EXCEPT ![p].tries = @ + 1]

\* The POST, repeated without another look when no answer comes.
PostComment(p, arrives, answered) ==
  /\ publisher[p].pc = "post" /\ (answered => arrives)
  /\ comments' = IF arrives THEN Append(comments, publisher[p].of) ELSE comments
  /\ IF answered THEN Goes(p, "decide") ELSE Repeats(p)
  /\ UNCHANGED <<milestone, update, ado, edits, lost>>

Decide(p) ==
  /\ publisher[p].pc = "decide"
  /\ LET m == publisher[p].of  seen == publisher[p].seen  target == TargetOf[m] IN
     \/ target = "none" /\ Settles(p, "not-requested") /\ UNCHANGED update
     \/ target # "none" /\ seen = target /\ Settles(p, "already-current") /\ UNCHANGED update
     \/ /\ target # "none" /\ seen \notin {target, Predecessor[target]}
        /\ Settles(p, "preserved-manual") /\ UNCHANGED update
     \* _start_operation, under the lock of the operation
     \/ /\ target # "none" /\ seen = Predecessor[target]
        /\ \A q \in Publishers \ {p} :
             publisher[q].of = m => "update" \notin publisher[q].locks
        /\ update' = [update EXCEPT ![m] = IF @ = "none" THEN "pending" ELSE @]
        /\ publisher' = [publisher EXCEPT
             ![p].pc = CASE update[m] = "succeeded" -> "updated"
                         [] update[m] = "conflicted" -> "reread"
                         [] OTHER -> "fetch",
             ![p].seen = "none",
             ![p].locks = IF update[m] \in {"succeeded", "conflicted"} THEN @
                          ELSE @ \cup {"update"}]
  /\ UNCHANGED <<milestone, ado, comments, edits, lost>>

\* An operation that is pending may have been carried out.
FetchItem(p) ==
  /\ publisher[p].pc = "fetch"
  /\ LET m == publisher[p].of  target == TargetOf[m] IN
     \/ /\ ado.state = target
        /\ update' = [update EXCEPT ![m] = IF @ = "pending" THEN "succeeded" ELSE @]
        /\ Settles(p, "updated")
     \/ /\ ado.state \notin {target, Predecessor[target]}
        /\ update' = [update EXCEPT ![m] = IF @ = "pending" THEN "conflicted" ELSE @]
        /\ Settles(p, "reread")
     \/ /\ ado.state = Predecessor[target]
        /\ publisher' = [publisher EXCEPT ![p].pc = "patch", ![p].rev = ado.rev]
        /\ UNCHANGED update
  /\ UNCHANGED <<milestone, ado, comments, edits, lost>>

\* Mutant: the patch does not test the revision.
AnyRevision(p) == TRUE

\* The patch's test of /rev, in ADO.
Unrevised(p) == publisher[p].rev = ado.rev

PatchApplies(p, answered) ==
  /\ publisher[p].pc = "patch" /\ Unrevised(p)
  /\ ado' = [state |-> TargetOf[publisher[p].of], rev |-> ado.rev + 1]
  /\ IF answered
     THEN /\ update' = [update EXCEPT ![publisher[p].of] = IF @ = "pending" THEN "succeeded" ELSE @]
          /\ Settles(p, "updated")
     ELSE Repeats(p) /\ UNCHANGED update
  /\ UNCHANGED <<milestone, comments, edits, lost>>

\* 409 or 412, also when it was an unanswered patch of its own that changed the revision.
PatchConflicts(p) ==
  /\ publisher[p].pc = "patch" /\ ~Unrevised(p)
  /\ update' = [update EXCEPT ![publisher[p].of] = IF @ = "pending" THEN "conflicted" ELSE @]
  /\ Settles(p, "reread")
  /\ UNCHANGED <<milestone, ado, comments, edits, lost>>

ReadAgain(p) ==
  /\ publisher[p].pc = "reread"
  /\ Settles(p, IF ado.state = TargetOf[publisher[p].of] THEN "already-current"
                ELSE "preserved-manual")
  /\ UNCHANGED <<milestone, update, ado, comments, edits, lost>>

Finish(p) ==
  /\ publisher[p].pc \in Dispositions
  /\ milestone' = [milestone EXCEPT ![publisher[p].of] =
       IF @.st = "pending" THEN [st |-> "published", disposition |-> publisher[p].pc] ELSE @]
  /\ publisher' = [publisher EXCEPT ![p] = Idle]
  /\ UNCHANGED <<update, ado, comments, edits, lost>>

\* ADO stays unavailable, or the process dies: publish ends and its locks go with it.
Abort(p) ==
  /\ publisher[p].pc # "idle"
  /\ publisher' = [publisher EXCEPT ![p] = Idle]
  /\ UNCHANGED <<milestone, update, ado, comments, edits, lost>>

\* The database session that holds a lock ends while the process talks to ADO.
LoseLock(p, lock) ==
  /\ lost < MaxLost /\ lock \in publisher[p].locks
  /\ lost' = lost + 1
  /\ publisher' = [publisher EXCEPT ![p].locks = @ \ {lock}]
  /\ UNCHANGED <<milestone, update, ado, comments, edits>>

\* People change the state, or (with the same state) something else of the item.
HumanEdit(state) ==
  /\ edits < MaxHumanEdits
  /\ edits' = edits + 1
  /\ ado' = [state |-> state, rev |-> ado.rev + 1]
  /\ UNCHANGED <<milestone, update, comments, publisher, lost>>

AdoNext ==
  \/ \E p \in Publishers, m \in Milestones : Suppress(p, m)
  \/ \E p \in Publishers, m \in Milestones : StartMilestone(p, m)
  \/ \E p \in Publishers : ReadState(p)
  \/ \E p \in Publishers : ScanComments(p)
  \/ \E p \in Publishers, arrives, answered \in BOOLEAN : PostComment(p, arrives, answered)
  \/ \E p \in Publishers : Decide(p)
  \/ \E p \in Publishers : FetchItem(p)
  \/ \E p \in Publishers, answered \in BOOLEAN : PatchApplies(p, answered)
  \/ \E p \in Publishers : PatchConflicts(p)
  \/ \E p \in Publishers : ReadAgain(p)
  \/ \E p \in Publishers : Finish(p)
  \/ \E p \in Publishers : Abort(p)
  \/ \E p \in Publishers, lock \in {"item", "update"} : LoseLock(p, lock)
  \/ \E state \in AdoStates : HumanEdit(state)

AdoSpec == AdoInit /\ [][AdoNext]_adoVars

-----------------------------------------------------------------------------
(* Properties *)

\* What people made of the item stays: a publisher only ever moves it from the predecessor
\* of the state its milestone asks for, to that state.
HumanEditsKept ==
  [][ado'.state # ado.state /\ edits' = edits =>
       \E p \in Publishers :
         LET target == TargetOf[publisher[p].of] IN
         /\ publisher[p].pc = "patch"
         /\ ado.state = Predecessor[target] /\ ado'.state = target]_adoVars

\* Milestones reach ADO in their order, whatever publisher of them comes back or loses its lock
\* on the way: one that has a comment has it after all earlier ones that are not suppressed.
\* A published one has its comment, a suppressed one none.
MilestonesInOrder ==
  /\ \A i \in DOMAIN comments, m \in Milestones :
       milestone[m].st \in {"pending", "published"} /\ SequenceOf[m] < SequenceOf[comments[i]]
         => \E j \in 1..(i - 1) : comments[j] = m
  /\ \A m \in Milestones : /\ milestone[m].st = "published" => Marked(m)
                           /\ milestone[m].st \in {"none", "suppressed"} => ~Marked(m)

\* "Every supported milestone produces at most one useful ADO comment".
CommentedOnce ==
  \A i, j \in DOMAIN comments : comments[i] = comments[j] => i = j

=============================================================================
