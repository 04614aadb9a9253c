------------------------------ MODULE Accounting ------------------------------
(***************************************************************************)
(* What is recorded of the work while it runs: the progress checkpoints of a  *)
(* work item (ProgressStore, progress.py), the token usage of one provider     *)
(* turn and the capacity of the provider account (UsageStore and UsageCapture, *)
(* usage.py).  Each record is one transaction under a lock of its subject.     *)
(* Answers may be lost, so an author repeats its draft, and usage and capacity *)
(* observations may be recorded long after they were made, or twice.           *)
(***************************************************************************)
EXTENDS Naturals, Sequences, FiniteSets

CONSTANTS
  Authors,    \* each with one checkpoint to record
  Collectors, \* each with one capacity observation to make
  MaxTokens,  \* bound: the turn's usage counter
  Nil

ASSUME AccountingAssumption ==
  /\ Nil \notin Authors \cup Collectors /\ MaxTokens \in Nat
  /\ IsFiniteSet(Authors) /\ IsFiniteSet(Collectors)

VARIABLES
  journal,    \* the work item's checkpoints in sequence order, each its author's
  drafted,    \* per author: the sequence it has read, and how far it is
  answer,     \* per author: none, recorded or stale
  spent,      \* what the provider has reported of the turn so far
  usage,      \* the turn_usage row; 0 is none
  counted,    \* history: the observations record_turn accepted
  capture,    \* per collector: its step, and when its observation was stamped
  capacity,   \* the provider_capacity row: whose observation, and its stamp
  clock       \* the last stamp

accountingVars == <<journal, drafted, answer, spent, usage, counted, capture, capacity, clock>>

MaxStamp == Cardinality(Collectors)

AccountingTypeOK ==
  /\ journal \in UNION {[1..n -> Authors] : n \in 0..Cardinality(Authors)}
  /\ drafted \in [Authors -> [pc : {"idle", "sent", "over"}, previous : 0..Cardinality(Authors)]]
  /\ answer \in [Authors -> {"none", "recorded", "stale"}]
  /\ spent \in 0..MaxTokens /\ usage \in 0..MaxTokens /\ counted \in SUBSET (0..MaxTokens)
  /\ capture \in [Collectors -> [pc : {"idle", "read", "stamped", "over"}, at : 0..MaxStamp]]
  /\ capacity \in [by : Collectors \cup {Nil}, at : 0..MaxStamp]
  /\ clock \in 0..MaxStamp

AccountingInit ==
  /\ journal = <<>>
  /\ drafted = [a \in Authors |-> [pc |-> "idle", previous |-> 0]]
  /\ answer = [a \in Authors |-> "none"]
  /\ spent = 0 /\ usage = 0 /\ counted = {}
  /\ capture = [c \in Collectors |-> [pc |-> "idle", at |-> 0]]
  /\ capacity = [by |-> Nil, at |-> 0]
  /\ clock = 0

-----------------------------------------------------------------------------
(* Progress *)

\* An author drafts its checkpoint after the last one it sees.
DraftCheckpoint(a) ==
  /\ drafted[a].pc = "idle"
  /\ drafted' = [drafted EXCEPT ![a] = [pc |-> "sent", previous |-> Len(journal)]]
  /\ UNCHANGED <<journal, answer, spent, usage, counted, capture, capacity, clock>>

Recorded(a) == \E n \in DOMAIN journal : journal[n] = a

Extends(a) == drafted[a].previous = Len(journal)

\* Mutant: the sequence is compared before the checkpoint is looked up.
OutcomeStaleFirst(a) ==
  IF ~Extends(a) THEN "stale" ELSE "recorded"

\* record: a checkpoint that is there already is answered as recorded, whatever came
\* after it; only a new one must extend the sequence its author saw.
Outcome(a) ==
  IF Recorded(a) \/ Extends(a) THEN "recorded" ELSE "stale"

\* record, under the lock of the work item.  The answer may not arrive, and then the
\* draft is sent again as it is.
RecordCheckpoint(a, arrives) ==
  /\ drafted[a].pc = "sent"
  /\ journal' = IF Outcome(a) = "recorded" /\ ~Recorded(a) THEN Append(journal, a) ELSE journal
  /\ IF arrives
     THEN /\ answer' = [answer EXCEPT ![a] = Outcome(a)]
          /\ drafted' = [drafted EXCEPT ![a].pc = "over"]
     ELSE UNCHANGED <<answer, drafted>>
  /\ UNCHANGED <<spent, usage, counted, capture, capacity, clock>>

\* A stale author reads the sequence again and drafts anew, under another id.
DraftAgain(a) ==
  /\ answer[a] = "stale"
  /\ drafted' = [drafted EXCEPT ![a] = [pc |-> "sent", previous |-> Len(journal)]]
  /\ answer' = [answer EXCEPT ![a] = "none"]
  /\ UNCHANGED <<journal, spent, usage, counted, capture, capacity, clock>>

-----------------------------------------------------------------------------
(* Usage of a turn *)

\* The provider's counters are cumulative.
Spend ==
  /\ spent < MaxTokens
  /\ spent' = spent + 1
  /\ UNCHANGED <<journal, drafted, answer, usage, counted, capture, capacity, clock>>

\* record_turn: an observation of this turn arrives, late or again as it may be; one
\* that is lower than the row is refused, any other becomes the row.
RecordTurn(tokens) ==
  /\ tokens \in 1..spent /\ tokens >= usage
  /\ usage' = tokens
  /\ counted' = counted \cup {tokens}
  /\ UNCHANGED <<journal, drafted, answer, spent, capture, capacity, clock>>

-----------------------------------------------------------------------------
(* Capacity *)

\* capture_capacity: the provider is asked, or unknown is taken for its answer.
ReadCapacity(c) ==
  /\ capture[c].pc = "idle"
  /\ capture' = [capture EXCEPT ![c].pc = "read"]
  /\ UNCHANGED <<journal, drafted, answer, spent, usage, counted, capacity, clock>>

\* observed_at is the time after the answer.
StampCapacity(c) ==
  /\ capture[c].pc = "read"
  /\ clock' = clock + 1
  /\ capture' = [capture EXCEPT ![c] = [pc |-> "stamped", at |-> clock + 1]]
  /\ UNCHANGED <<journal, drafted, answer, spent, usage, counted, capacity>>

\* record_capacity: an observation older than the row changes nothing.
RecordCapacity(c) ==
  /\ capture[c].pc = "stamped"
  /\ capacity' = IF capture[c].at <= capacity.at THEN capacity
                 ELSE [by |-> c, at |-> capture[c].at]
  /\ capture' = [capture EXCEPT ![c].pc = "over"]
  /\ UNCHANGED <<journal, drafted, answer, spent, usage, counted, clock>>

AccountingNext ==
  \/ \E a \in Authors :
       \/ DraftCheckpoint(a) \/ DraftAgain(a)
       \/ \E arrives \in BOOLEAN : RecordCheckpoint(a, arrives)
  \/ Spend
  \/ \E tokens \in 1..MaxTokens : RecordTurn(tokens)
  \/ \E c \in Collectors : ReadCapacity(c) \/ StampCapacity(c) \/ RecordCapacity(c)

-----------------------------------------------------------------------------
(* Properties *)

\* However often a draft or an observation is sent again and however late it comes, it
\* counts once: a checkpoint is in the journal exactly if its author was told so, and
\* never twice; the turn's usage is the largest observation that was accepted; and the
\* capacity shown is the one stamped last of those recorded.
CountedOnce ==
  /\ \A m, n \in DOMAIN journal : journal[m] = journal[n] => m = n
  /\ \A a \in Authors : answer[a] # "none" => (answer[a] = "recorded" <=> Recorded(a))
  /\ \A tokens \in counted : tokens <= usage
  /\ usage # 0 => usage \in counted
  /\ \A c \in Collectors : capture[c].pc = "over" => capture[c].at <= capacity.at

==============================================================================
