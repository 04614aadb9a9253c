---------------------------- MODULE RoleTurnProofs ----------------------------
(* Theorems about RoleTurn: whose turn it is in a conversation, and who may       *)
(* acknowledge its items, however leases lapse and instances die, are overtaken   *)
(* and come back.                                                                 *)
EXTENDS RoleTurn, TLAPS

\* The steps at which an instance is inside an operation, and in its turn.
OperatingSteps == {"resume", "turn", "finish", "unwind"}
TurnSteps == {"resume", "turn", "finish"}

\* The conversation only ever had the item of this instance.
Alone(i) == \A k \in Items \ {proc[i].item} : phase[k] = "absent"

\* The operation that the row names has the row's digest and thread, and nobody overtook it;
\* and an instance that has the only item of the conversation is in nobody's way.
Sound(i) ==
  /\ aff.op = i /\ proc[i].pc \in OperatingSteps =>
       /\ aff.digest = proc[i].digest /\ aff.gen = proc[i].gen
       /\ ~proc[i].superseded
  /\ proc[i].pc \in {"idle", "claimed", "clear", "bind", "ack"} => ~proc[i].superseded
  /\ HoldsLease(i) /\ proc[i].pc \in TurnSteps /\ Alone(i) => aff.op = i /\ newer = {}

\* The inductive invariant of the turns.
TurnInv ==
  /\ TypeOK
  /\ \A k \in Items : phase[k] = "held" <=> holder[k] # None
  /\ aff.op # None => aff.st = "active"
  /\ \A i \in Instances : Sound(i)

\* At first nobody has anything.
LEMMA TurnsBegin == Init => TurnInv
<1> SUFFICES ASSUME Init PROVE TurnInv
  OBVIOUS
<1>1. IdleProc \in ProcRecord /\ IdleProc.pc = "idle" /\ ~IdleProc.superseded
  BY TurnAssumption DEF IdleProc, ProcRecord, Steps
<1>2. NoAffinity \in AffRecord /\ NoAffinity.op = None
  BY TurnAssumption DEF NoAffinity, AffRecord
<1>3. TypeOK
  BY <1>1, <1>2, TurnAssumption DEF Init, TypeOK
<1>4. \A i \in Instances : Sound(i)
  BY <1>1, <1>2, TurnAssumption DEF Init, Sound, TurnSteps, OperatingSteps
<1> QED
  BY <1>2, <1>3, <1>4 DEF Init, TurnInv

\* What an instance may do with its own record while the row of the conversation stays.
Onward(old, new) ==
  /\ new.pc \in {"idle", "claimed", "clear", "bind", "ack"} => ~new.superseded
  /\ new.pc \in OperatingSteps =>
       /\ old.pc \in OperatingSteps
       /\ new.digest = old.digest /\ new.gen = old.gen /\ new.superseded = old.superseded
  /\ new.pc \in TurnSteps => old.pc \in TurnSteps /\ new.item = old.item

\* An instance that does nothing is where it may be.
LEMMA Standing ==
  ASSUME TurnInv
  PROVE  \A i \in Instances : Onward(proc[i], proc[i])
BY DEF TurnInv, Sound, Onward

\* A step that leaves the row of the conversation alone.
LEMMA StepKept ==
  ASSUME TurnInv, UNCHANGED <<aff, newer>>,
         proc' \in [Instances -> ProcRecord], \A i \in Instances : Onward(proc[i], proc'[i]),
         phase' \in [Items -> {"absent", "waiting", "held", "done"}],
         holder' \in [Items -> Instances \cup {None}],
         \A k \in Items : phase'[k] = "held" <=> holder'[k] # None,
         \A k \in Items : phase'[k] = "absent" => phase[k] = "absent",
         \A k \in Items : holder'[k] \in {holder[k], None},
         config' \in Digests, recorded' \in SUBSET Retries, faults' \in 0..MaxFaults
  PROVE  TurnInv'
<1>1. TypeOK'
  BY DEF TurnInv, TypeOK
<1>2. ASSUME NEW i \in Instances
      PROVE  Sound(i)'
  <2>1. proc[i] \in ProcRecord /\ proc'[i] \in ProcRecord /\ Sound(i) /\ Onward(proc[i], proc'[i])
    BY DEF TurnInv, TypeOK
  <2>2. HoldsLease(i)' /\ proc'[i].pc \in TurnSteps /\ Alone(i)' => HoldsLease(i) /\ Alone(i)
    BY <2>1, TurnAssumption DEF HoldsLease, Alone, Onward, ProcRecord
  <2> QED
    BY <2>1, <2>2 DEF Sound, Onward
<1> QED
  BY <1>1, <1>2 DEF TurnInv

\* The same, for the record of one instance and nothing of the queue.
LEMMA OwnStepKept ==
  ASSUME TurnInv, NEW i \in Instances, NEW row \in ProcRecord, proc' = [proc EXCEPT ![i] = row],
         Onward(proc[i], row), UNCHANGED <<phase, holder, aff, newer, config>>,
         recorded' \in SUBSET Retries, faults' \in 0..MaxFaults
  PROVE  TurnInv'
<1>1. /\ proc' \in [Instances -> ProcRecord] /\ proc'[i] = row
      /\ \A j \in Instances \ {i} : proc'[j] = proc[j]
  BY DEF TurnInv, TypeOK
<1>2. \A j \in Instances : Onward(proc[j], proc'[j])
  BY <1>1, Standing
<1> QED
  BY <1>1, <1>2, StepKept DEF TurnInv, TypeOK

\* Somebody gives the operation back that was its own, or was older than its lease.
LEMMA ReleaseKept ==
  ASSUME TurnInv, NEW i \in Instances, aff.op = i \/ i \in newer,
         aff' = [aff EXCEPT !.op = None], newer' = {},
         NEW pc \in {"bind", "ack", "fail"}, proc' = [proc EXCEPT ![i].pc = pc],
         pc # "fail" => ~proc[i].superseded,
         UNCHANGED <<phase, holder, config, recorded, faults>>
  PROVE  TurnInv'
<1>1. aff \in AffRecord /\ proc[i] \in ProcRecord /\ proc \in [Instances -> ProcRecord]
  BY DEF TurnInv, TypeOK
<1>2. aff' \in AffRecord /\ aff'.op = None
  BY <1>1 DEF AffRecord
<1>3. PICK row \in ProcRecord : row = [proc[i] EXCEPT !.pc = pc]
  BY <1>1 DEF ProcRecord, Steps
<1>4. row.pc = pc /\ row.superseded = proc[i].superseded
  BY <1>1, <1>3 DEF ProcRecord
<1>5. /\ proc' \in [Instances -> ProcRecord] /\ proc'[i] = row
      /\ \A j \in Instances \ {i} : proc'[j] = proc[j]
  BY <1>1, <1>3
<1>6. TypeOK'
  BY <1>2, <1>5 DEF TurnInv, TypeOK
<1>7. Sound(i)'
  BY <1>2, <1>4, <1>5, TurnAssumption DEF Sound, TurnSteps, OperatingSteps
<1>8. ASSUME NEW j \in Instances \ {i}
      PROVE  Sound(j)'
  <2>1. proc'[j] = proc[j] /\ Sound(j) /\ aff'.op # j
    BY <1>2, <1>5, TurnAssumption DEF TurnInv
  <2>2. (HoldsLease(j)' <=> HoldsLease(j)) /\ (Alone(j)' <=> Alone(j))
    BY <2>1 DEF HoldsLease, Alone
  <2> QED
    BY <2>1, <2>2 DEF Sound
<1> QED
  BY <1>2, <1>6, <1>7, <1>8 DEF TurnInv

\* run_once ends with its item: done, released, or no longer its own.
LEMMA EndKept ==
  ASSUME TurnInv, NEW i \in Instances, UNCHANGED <<aff, newer, config, recorded, faults>>,
         \/ FinishItem(i)
         \/ TryRelease(i)
  PROVE  TurnInv'
<1>1. /\ proc \in [Instances -> ProcRecord] /\ proc[i] \in ProcRecord /\ IdleProc \in ProcRecord
      /\ IdleProc.pc = "idle" /\ ~IdleProc.superseded
      /\ phase \in [Items -> {"absent", "waiting", "held", "done"}]
      /\ holder \in [Items -> Instances \cup {None}]
  BY TurnAssumption DEF TurnInv, TypeOK, IdleProc, ProcRecord, Steps
<1>2. PICK pc \in {"idle", "fail"}, row \in ProcRecord :
        proc' = [proc EXCEPT ![i] = row] /\ row.pc = pc /\ (pc = "idle" => ~row.superseded)
  <2>1. PICK row \in ProcRecord : row = [proc[i] EXCEPT !.pc = "fail"]
    BY <1>1 DEF ProcRecord, Steps
  <2>2. row.pc = "fail"
    BY <1>1, <2>1 DEF ProcRecord
  <2>3. proc' = [proc EXCEPT ![i] = row] \/ proc' = [proc EXCEPT ![i] = IdleProc]
    BY <1>1, <2>1 DEF FinishItem, TryRelease, GoTo
  <2> QED
    BY <1>1, <2>2, <2>3
<1>3. /\ proc' \in [Instances -> ProcRecord]
      /\ \A j \in Instances : Onward(proc[j], proc'[j])
  <2>1. Onward(proc[i], row)
    BY <1>2 DEF Onward, OperatingSteps, TurnSteps
  <2> QED
    BY <1>1, <1>2, <2>1, Standing
<1>4. \/ UNCHANGED <<phase, holder>>
      \/ \E k \in Items, p \in {"done", "waiting"} :
           phase' = [phase EXCEPT ![k] = p] /\ holder' = [holder EXCEPT ![k] = None]
  BY <1>1 DEF FinishItem, TryRelease, HoldsLease, ProcRecord
<1>5. /\ phase' \in [Items -> {"absent", "waiting", "held", "done"}]
      /\ holder' \in [Items -> Instances \cup {None}]
      /\ \A k \in Items : phase'[k] = "held" <=> holder'[k] # None
      /\ \A k \in Items : phase'[k] = "absent" => phase[k] = "absent"
      /\ \A k \in Items : holder'[k] \in {holder[k], None}
  BY <1>1, <1>4 DEF TurnInv
<1> QED
  BY <1>3, <1>5, StepKept DEF TurnInv, TypeOK

\* Items come, are claimed, and are lost.
LEMMA QueueKept ==
  ASSUME TurnInv,
         \/ \E k \in Items : Enqueue(k) \/ LapseDead(k) \/ LapseLive(k)
         \/ \E i \in Instances, k \in Items : Claim(i, k)
  PROVE  TurnInv'
<1>1. /\ proc \in [Instances -> ProcRecord]
      /\ phase \in [Items -> {"absent", "waiting", "held", "done"}]
      /\ holder \in [Items -> Instances \cup {None}]
      /\ aff \in AffRecord /\ newer \in SUBSET Instances /\ faults \in 0..MaxFaults
  BY DEF TurnInv, TypeOK
<1>2. ASSUME NEW k \in Items, Enqueue(k) \/ LapseDead(k) \/ LapseLive(k)
      PROVE  TurnInv'
  <2>1. /\ phase' = [phase EXCEPT ![k] = "waiting"]
        /\ holder' = [holder EXCEPT ![k] = None] \/ (holder' = holder /\ phase[k] = "absent")
        /\ UNCHANGED <<proc, aff, newer, config, recorded>>
        /\ faults' \in 0..MaxFaults
    BY <1>1, <1>2, TurnAssumption DEF Enqueue, LapseDead, LapseLive
  <2>2. /\ phase' \in [Items -> {"absent", "waiting", "held", "done"}]
        /\ holder' \in [Items -> Instances \cup {None}]
        /\ \A x \in Items : phase'[x] = "held" <=> holder'[x] # None
        /\ \A x \in Items : phase'[x] = "absent" => phase[x] = "absent"
        /\ \A x \in Items : holder'[x] \in {holder[x], None}
    BY <1>1, <2>1 DEF TurnInv
  <2> QED
    BY <1>1, <2>1, <2>2, StepKept, Standing DEF TurnInv, TypeOK
<1>3. ASSUME NEW i \in Instances, NEW k \in Items, Claim(i, k)
      PROVE  TurnInv'
  <2>1. PICK row \in ProcRecord : row = [IdleProc EXCEPT !.pc = "claimed", !.item = k]
    <3>1. IdleProc \in ProcRecord
      BY TurnAssumption DEF IdleProc, ProcRecord, Steps
    <3> QED
      BY <3>1 DEF ProcRecord, Steps
  <2>2. row.pc = "claimed" /\ row.item = k /\ ~row.superseded
    BY <2>1 DEF IdleProc
  <2>3. /\ phase' = [phase EXCEPT ![k] = "held"] /\ holder' = [holder EXCEPT ![k] = i]
        /\ proc' = [proc EXCEPT ![i] = row]
        /\ newer' \in SUBSET Instances /\ UNCHANGED <<aff, config, recorded, faults>>
    BY <1>1, <1>3, <2>1 DEF Claim
  <2>4. /\ proc' \in [Instances -> ProcRecord] /\ proc'[i] = row
        /\ \A j \in Instances \ {i} : proc'[j] = proc[j]
        /\ phase' \in [Items -> {"absent", "waiting", "held", "done"}] /\ phase'[k] = "held"
        /\ \A x \in Items \ {k} : phase'[x] = phase[x] /\ holder'[x] = holder[x]
        /\ holder' \in [Items -> Instances \cup {None}] /\ holder'[k] = i
    BY <1>1, <2>3
  <2>5. TypeOK'
    BY <2>3, <2>4 DEF TurnInv, TypeOK
  <2>6. Sound(i)'
    BY <2>2, <2>4 DEF Sound, OperatingSteps, TurnSteps
  <2>7. ASSUME NEW j \in Instances \ {i}
        PROVE  Sound(j)'
    <3>1. proc'[j] = proc[j] /\ aff' = aff /\ Sound(j)
      BY <2>3, <2>4 DEF TurnInv
    <3>2. ~(HoldsLease(j)' /\ Alone(j)')
      BY <2>4, <3>1 DEF HoldsLease, Alone
    <3> QED
      BY <3>1, <3>2 DEF Sound
  <2> QED
    BY <2>3, <2>4, <2>5, <2>6, <2>7, TurnAssumption DEF TurnInv
<1> QED
  BY <1>2, <1>3

\* An instance enters its turn, and overtakes whoever is in one.
LEMMA BindKept ==
  ASSUME TurnInv, NEW i \in Instances, Bind(i)
  PROVE  TurnInv'
<1>1. /\ proc \in [Instances -> ProcRecord] /\ proc[i] \in ProcRecord /\ aff \in AffRecord
      /\ Sound(i) /\ i # None
  BY TurnAssumption DEF TurnInv, TypeOK
<1>2. aff.op = None /\ proc[i].pc = "bind" /\ ~proc[i].superseded
  BY <1>1 DEF Bind, CanBind, At, TurnInv, Sound
<1>3. PICK gen \in 0..MaxGen : gen = Bound(i).gen
  BY <1>1, TurnAssumption DEF Bound, AffRecord
<1>4. PICK step \in {"resume", "turn"} : step = IF aff.st = "active" THEN "resume" ELSE "turn"
  OBVIOUS
<1>5. PICK row \in ProcRecord : row = [proc[i] EXCEPT !.pc = step, !.gen = gen]
  BY <1>1 DEF ProcRecord, Steps
<1>6. /\ row.pc = step /\ row.gen = gen /\ row.digest = proc[i].digest
      /\ row.superseded = proc[i].superseded /\ row.item = proc[i].item
  BY <1>1, <1>5 DEF ProcRecord
<1>7. aff' = [st |-> "active", digest |-> proc[i].digest, op |-> i, gen |-> gen]
  BY <1>3 DEF Bind, Bound
<1>8. aff' \in AffRecord /\ aff'.st = "active" /\ aff'.op = i /\ aff'.gen = gen /\ aff'.digest = proc[i].digest
  BY <1>1, <1>7 DEF AffRecord, ProcRecord
<1>9. newer' = {} /\ UNCHANGED <<phase, holder, config, recorded, faults>>
  BY DEF Bind
<1>10. proc' = [j \in Instances |->
          IF j = i THEN row ELSE [proc[j] EXCEPT !.superseded = @ \/ Operating(j)]]
  BY <1>3, <1>4, <1>5 DEF Bind
<1>11. proc'[i] = row
  BY <1>10
<1>12. ASSUME NEW j \in Instances \ {i}
       PROVE  /\ proc'[j] \in ProcRecord /\ proc'[j].pc = proc[j].pc /\ proc'[j].item = proc[j].item
              /\ proc'[j].superseded => proc[j].superseded \/ proc[j].pc \in OperatingSteps
  <2>1. proc[j] \in ProcRecord /\ Operating(j) \in BOOLEAN
    BY <1>1 DEF Operating
  <2>2. PICK over \in BOOLEAN : over = (proc[j].superseded \/ Operating(j))
    BY <2>1
  <2>3. proc'[j] = [proc[j] EXCEPT !.superseded = over]
    BY <1>10, <2>2
  <2>4. /\ proc'[j] \in ProcRecord /\ proc'[j].pc = proc[j].pc /\ proc'[j].item = proc[j].item
        /\ proc'[j].superseded = over
    BY <2>1, <2>3 DEF ProcRecord
  <2> QED
    BY <2>2, <2>4 DEF Operating, OperatingSteps
<1>13. proc' \in [Instances -> ProcRecord]
  BY <1>10, <1>11, <1>12
<1>14. TypeOK'
  BY <1>8, <1>9, <1>13 DEF TurnInv, TypeOK
<1>15. Sound(i)'
  BY <1>2, <1>4, <1>6, <1>8, <1>9, <1>11 DEF Sound
<1>16. ASSUME NEW j \in Instances \ {i}
       PROVE  Sound(j)'
  <2>1. Sound(j) /\ aff'.op # j /\ aff.op # j
    BY <1>2, <1>8, TurnAssumption DEF TurnInv
  <2>2. (HoldsLease(j)' <=> HoldsLease(j)) /\ (Alone(j)' <=> Alone(j))
    BY <1>9, <1>12 DEF HoldsLease, Alone
  <2>3. proc[j].pc \in {"idle", "claimed", "clear", "bind", "ack"} => ~proc'[j].superseded
    BY <1>12, <2>1 DEF Sound, OperatingSteps
  <2> QED
    BY <1>12, <2>1, <2>2, <2>3 DEF Sound
<1> QED
  BY <1>8, <1>9, <1>14, <1>15, <1>16 DEF TurnInv

\* The affinity is reseeded while nobody has the operation, or another configuration bound.
LEMMA OperatorKept ==
  ASSUME TurnInv, NEW digest \in Digests, Reseed(digest) \/ Activate(digest)
  PROVE  TurnInv'
<1>1. CASE Reseed(digest)
  <2>1. /\ aff \in AffRecord /\ aff.op = None /\ aff.gen < MaxGen
        /\ aff' = [aff EXCEPT !.st = "pending_seed", !.digest = digest, !.gen = @ + 1]
        /\ UNCHANGED <<phase, holder, proc, newer, config, recorded, faults>>
    BY <1>1 DEF Reseed, TurnInv, TypeOK
  <2>2. PICK gen \in 0..MaxGen : gen = aff.gen + 1
    BY <2>1, TurnAssumption DEF AffRecord
  <2>3. aff' = [aff EXCEPT !.st = "pending_seed", !.digest = digest, !.gen = gen]
    BY <2>1, <2>2
  <2>4. aff' \in AffRecord /\ aff'.op = None
    BY <2>1, <2>3 DEF AffRecord
  <2>5. TypeOK'
    BY <2>1, <2>4 DEF TurnInv, TypeOK
  <2>6. ASSUME NEW i \in Instances
        PROVE  Sound(i)'
    <3>1. Sound(i) /\ aff.op # i /\ aff'.op # i
      BY <2>1, <2>4, TurnAssumption DEF TurnInv
    <3>2. (HoldsLease(i)' <=> HoldsLease(i)) /\ (Alone(i)' <=> Alone(i))
      BY <2>1 DEF HoldsLease, Alone
    <3> QED
      BY <2>1, <3>1, <3>2 DEF Sound
  <2> QED
    BY <2>1, <2>4, <2>5, <2>6 DEF TurnInv
<1>2. CASE Activate(digest)
  BY <1>2, StepKept, Standing DEF Activate, TurnInv, TypeOK
<1> QED
  BY <1>1, <1>2

\* A step of an instance within its turn, or of its heartbeat.
LEMMA TurnStepKept ==
  ASSUME TurnInv, NEW i \in Instances,
         \/ Progress(i) \/ RecordAttempt(i) \/ LeaseLost(i) \/ HeartbeatError(i)
         \/ \E completed \in BOOLEAN : TurnEnds(i, completed)
         \/ StepError(i) \/ Crash(i) \/ Prepare(i) \/ BindRefused(i) \/ Resume(i) \/ Refuse(i)
  PROVE  TurnInv'
<1>1. /\ proc \in [Instances -> ProcRecord] /\ proc[i] \in ProcRecord /\ IdleProc \in ProcRecord
      /\ IdleProc.pc = "idle" /\ ~IdleProc.superseded /\ config \in Digests
      /\ recorded \in SUBSET Retries /\ faults \in 0..MaxFaults
      /\ Onward(proc[i], proc[i])
  BY TurnAssumption, Standing DEF TurnInv, TypeOK, IdleProc, ProcRecord, Steps
<1>2. /\ UNCHANGED <<phase, holder, aff, newer, config>>
      /\ recorded' \in SUBSET Retries /\ faults' \in 0..MaxFaults
  BY <1>1, TurnAssumption
  DEF Progress, RecordAttempt, LeaseLost, HeartbeatError, TurnEnds, StepError, Crash, Prepare,
      BindRefused, Resume, Refuse
<1>3. ASSUME NEW row \in ProcRecord, row.item = proc[i].item, row.digest = proc[i].digest,
             row.gen = proc[i].gen, row.superseded = proc[i].superseded,
             proc' = [proc EXCEPT ![i] = row],
             \/ row.pc = proc[i].pc
             \/ row.pc = "fail"
             \/ row.pc = "unwind" /\ proc[i].pc \in TurnSteps
             \/ row.pc \in {"turn", "finish"} /\ proc[i].pc \in TurnSteps
      PROVE  TurnInv'
  <2>1. Onward(proc[i], row)
    BY <1>1, <1>3 DEF Onward, OperatingSteps, TurnSteps
  <2> QED
    BY <1>2, <1>3, <2>1, OwnStepKept
<1>4. CASE Progress(i) \/ LeaseLost(i) \/ HeartbeatError(i) \/ RecordAttempt(i)
  <2>1. PICK fresh \in BOOLEAN, hbError \in BOOLEAN :
          proc' = [proc EXCEPT ![i] = [proc[i] EXCEPT !.fresh = fresh, !.hbError = hbError]]
    <3>1. proc[i].fresh \in BOOLEAN /\ proc[i].hbError \in BOOLEAN
      BY <1>1 DEF ProcRecord
    <3>2. CASE Progress(i)
      <4>1. proc' = [proc EXCEPT ![i] = [proc[i] EXCEPT !.fresh = TRUE, !.hbError = proc[i].hbError]]
        BY <1>1, <3>2 DEF Progress, ProcRecord
      <4> QED
        BY <3>1, <4>1
    <3>3. CASE LeaseLost(i) \/ HeartbeatError(i)
      <4>1. proc' = [proc EXCEPT ![i] = [proc[i] EXCEPT !.fresh = proc[i].fresh, !.hbError = TRUE]]
        BY <1>1, <3>3 DEF LeaseLost, HeartbeatError, ProcRecord
      <4> QED
        BY <3>1, <4>1
    <3>4. CASE RecordAttempt(i)
      <4>1. proc' = [proc EXCEPT ![i] = [proc[i] EXCEPT !.fresh = proc[i].fresh, !.hbError = proc[i].hbError]]
        BY <1>1, <3>4 DEF RecordAttempt, ProcRecord
      <4> QED
        BY <3>1, <4>1
    <3> QED
      BY <1>4, <3>2, <3>3, <3>4
  <2>2. PICK row \in ProcRecord : row = [proc[i] EXCEPT !.fresh = fresh, !.hbError = hbError]
    BY <1>1 DEF ProcRecord
  <2>3. /\ row.item = proc[i].item /\ row.digest = proc[i].digest /\ row.gen = proc[i].gen
        /\ row.superseded = proc[i].superseded /\ row.pc = proc[i].pc
    BY <1>1, <2>2 DEF ProcRecord
  <2> QED
    BY <1>3, <2>1, <2>2, <2>3
<1>5. ASSUME NEW completed \in BOOLEAN, TurnEnds(i, completed)
      PROVE  TurnInv'
  <2>1. PICK done \in BOOLEAN : done = (completed /\ ~proc[i].hbError)
    OBVIOUS
  <2>2. PICK row \in ProcRecord : row = [proc[i] EXCEPT !.pc = "finish", !.completed = done]
    BY <1>1 DEF ProcRecord, Steps
  <2>3. /\ row.item = proc[i].item /\ row.digest = proc[i].digest /\ row.gen = proc[i].gen
        /\ row.superseded = proc[i].superseded /\ row.pc = "finish"
    BY <1>1, <2>2 DEF ProcRecord
  <2>4. proc[i].pc = "turn" /\ proc' = [proc EXCEPT ![i] = row]
    BY <1>1, <1>5, <2>1, <2>2 DEF TurnEnds, At
  <2> QED
    BY <1>3, <2>3, <2>4 DEF TurnSteps
<1>6. CASE StepError(i) \/ BindRefused(i) \/ Resume(i) \/ Refuse(i)
  <2>1. PICK pc \in {"fail", "unwind", "turn"} :
          /\ proc' = [proc EXCEPT ![i].pc = pc]
          /\ pc = "fail" \/ proc[i].pc \in TurnSteps
    BY <1>6 DEF StepError, BindRefused, Resume, Refuse, GoTo, At, TurnSteps
  <2>2. PICK row \in ProcRecord : row = [proc[i] EXCEPT !.pc = pc]
    BY <1>1 DEF ProcRecord, Steps
  <2>3. /\ row.item = proc[i].item /\ row.digest = proc[i].digest /\ row.gen = proc[i].gen
        /\ row.superseded = proc[i].superseded /\ row.pc = pc
    BY <1>1, <2>2 DEF ProcRecord
  <2>4. proc' = [proc EXCEPT ![i] = row]
    BY <1>1, <2>1, <2>2
  <2> QED
    BY <1>3, <2>1, <2>3, <2>4
<1>7. CASE Crash(i)
  <2>1. Onward(proc[i], IdleProc)
    BY <1>1 DEF Onward, OperatingSteps, TurnSteps
  <2> QED
    BY <1>1, <1>2, <1>7, <2>1, OwnStepKept DEF Crash
<1>8. CASE Prepare(i)
  <2>1. PICK row \in ProcRecord :
          row = [proc[i] EXCEPT !.pc = "clear", !.digest = config, !.fresh = FALSE]
    BY <1>1 DEF ProcRecord, Steps
  <2>2. row.pc = "clear" /\ row.superseded = proc[i].superseded /\ proc[i].pc = "claimed"
    BY <1>1, <1>8, <2>1 DEF ProcRecord, Prepare, At
  <2>3. Onward(proc[i], row)
    BY <1>1, <2>2 DEF Onward, OperatingSteps, TurnSteps
  <2> QED
    BY <1>1, <1>2, <1>8, <2>1, <2>3, OwnStepKept DEF Prepare
<1> QED
  BY <1>4, <1>5, <1>6, <1>7, <1>8

\* The operation is given back, its own or an older one, or is somebody else's by now.
LEMMA GivenBackKept ==
  ASSUME TurnInv, NEW i \in Instances, Clear(i) \/ ReleaseOperation(i) \/ Unwind(i)
  PROVE  TurnInv'
<1>1. PICK pc \in {"bind", "ack", "fail"} :
        /\ proc' = [proc EXCEPT ![i].pc = pc]
        /\ proc[i].pc = (CASE pc = "bind" -> "clear" [] pc = "ack" -> "finish" [] pc = "fail" -> proc[i].pc)
        /\ \/ /\ aff.op = i \/ i \in newer
              /\ pc = "ack" => aff.op = i
              /\ aff' = [aff EXCEPT !.op = None] /\ newer' = {}
           \/ UNCHANGED <<aff, newer>> /\ pc # "ack"
  BY DEF Clear, Supersedes, ReleaseOperation, Unwind, GoTo, At
<1>2. /\ UNCHANGED <<phase, holder, config, recorded, faults>>
      /\ proc[i] \in ProcRecord /\ Sound(i) /\ proc \in [Instances -> ProcRecord]
  BY DEF Clear, ReleaseOperation, Unwind, TurnInv, TypeOK
<1>3. /\ pc = "bind" => proc[i].pc = "clear"
      /\ pc = "ack" => proc[i].pc = "finish"
  BY <1>1
<1>4. CASE UNCHANGED <<aff, newer>> /\ pc # "ack"
  <2>1. PICK row \in ProcRecord : row = [proc[i] EXCEPT !.pc = pc]
    BY <1>2 DEF ProcRecord, Steps
  <2>2. row.pc = pc /\ row.superseded = proc[i].superseded /\ proc' = [proc EXCEPT ![i] = row]
    BY <1>1, <1>2, <2>1 DEF ProcRecord
  <2>3. Onward(proc[i], row)
    BY <1>2, <1>3, <1>4, <2>2 DEF Onward, Sound, OperatingSteps, TurnSteps
  <2>4. recorded' \in SUBSET Retries /\ faults' \in 0..MaxFaults
    BY <1>2 DEF TurnInv, TypeOK
  <2> QED
    BY <1>2, <1>4, <2>2, <2>3, <2>4, OwnStepKept
<1>5. CASE /\ aff.op = i \/ i \in newer
           /\ pc = "ack" => aff.op = i
           /\ aff' = [aff EXCEPT !.op = None] /\ newer' = {}
  <2>1. pc # "fail" => ~proc[i].superseded
    BY <1>2, <1>3, <1>5 DEF Sound, OperatingSteps
  <2> QED
    BY <1>1, <1>2, <1>5, <2>1, ReleaseKept
<1> QED
  BY <1>1, <1>4, <1>5

\* Every step keeps the invariant.
LEMMA TurnKept == TurnInv /\ [Next]_vars => TurnInv'
<1> SUFFICES ASSUME TurnInv, [Next]_vars PROVE TurnInv'
  OBVIOUS
<1>1. CASE UNCHANGED vars
  BY <1>1, StepKept, Standing DEF vars, TurnInv, TypeOK
<1>2. ASSUME NEW i \in Instances, ServiceStep(i)
      PROVE  TurnInv'
  <2>1. ASSUME SkipRecorded(i) \/ Acknowledge(i) \/ TryRelease(i)
        PROVE  TurnInv'
    BY <2>1, EndKept DEF SkipRecorded, Acknowledge, TryRelease
  <2> QED
    BY <1>2, <2>1, TurnStepKept, GivenBackKept, BindKept DEF ServiceStep
<1> QED
  BY <1>1, <1>2, QueueKept, TurnStepKept, OperatorKept DEF Next

\* The inductive invariant holds in every reachable state of run_once and the affinity it works
\* under (role_service.py, thread_affinity.py).
THEOREM TurnInvariance == Spec => []TurnInv
BY TurnsBegin, TurnKept, PTL DEF Spec

\* The operation of a conversation has the digest and the thread of its row, and who has the
\* only item of a conversation has its operation (thread_affinity.py bind_and_claim,
\* release_superseded_operation; role_service.py run_once), for any number of instances, items,
\* generations and faults.
THEOREM HolderHasOperation == Spec => [](TypeOK /\ HolderOperates)
<1>1. ASSUME TurnInv
      PROVE  TypeOK /\ HolderOperates
  <2>1. ASSUME NEW i \in Instances
        PROVE  /\ aff.op = i /\ Operating(i) =>
                    /\ aff.st = "active"
                    /\ <<proc[i].digest, proc[i].gen>> = <<aff.digest, aff.gen>>
               /\ /\ HoldsLease(i) /\ proc[i].pc \in {"resume", "turn", "finish"}
                  /\ \A k \in Items \ {proc[i].item} : phase[k] = "absent"
                  => aff.op = i
    <3>1. Sound(i) /\ i # None /\ (aff.op # None => aff.st = "active")
      BY <1>1, TurnAssumption DEF TurnInv
    <3> QED
      BY <3>1 DEF Sound, Operating, OperatingSteps, TurnSteps, Alone
  <2> QED
    BY <1>1, <2>1 DEF TurnInv, HolderOperates
<1> QED
  BY <1>1, TurnInvariance, PTL

\* An item is acknowledged by its holder alone, and by no turn that another one overtook
\* (role_service.py run_once, queues.complete).
THEOREM AcknowledgmentsEarned == Spec => AcknowledgedExclusive
<1>1. ASSUME TurnInv, [Next]_vars, NEW k \in Items, phase[k] # "done", phase'[k] = "done"
      PROVE  \E i \in Instances : Earned(k, i)
  <2>1. phase \in [Items -> {"absent", "waiting", "held", "done"}] /\ proc \in [Instances -> ProcRecord]
    BY <1>1 DEF TurnInv, TypeOK
  <2>2. ASSUME NEW i \in Instances, FinishItem(i)
        PROVE  holder[k] = i /\ proc[i].item = k
    BY <1>1, <2>1, <2>2 DEF FinishItem, HoldsLease
  <2>3. \E i \in Instances : SkipRecorded(i) \/ Acknowledge(i)
    BY <1>1, <2>1
    DEF vars, Next, ServiceStep, Enqueue, LapseDead, LapseLive, Claim, Prepare, Clear, Bind,
        BindRefused, Resume, ReleaseOperation, Unwind, Refuse, TryRelease, Progress,
        RecordAttempt, LeaseLost, HeartbeatError, TurnEnds, StepError, Crash, Reseed, Activate
  <2>4. ASSUME NEW i \in Instances, SkipRecorded(i)
        PROVE  Earned(k, i)
    BY <2>2, <2>4 DEF SkipRecorded, Earned, At
  <2>5. ASSUME NEW i \in Instances, Acknowledge(i)
        PROVE  Earned(k, i)
    BY <1>1, <2>2, <2>5 DEF Acknowledge, Acceptable, Earned, At, TurnInv, Sound
  <2> QED
    BY <2>3, <2>4, <2>5
<1>2. TurnInv /\ [Next]_vars =>
        [\A k \in Items : phase[k] # "done" /\ phase'[k] = "done"
           => \E i \in Instances : Earned(k, i)]_vars
  BY <1>1
<1> QED
  BY <1>2, TurnInvariance, PTL DEF Spec, AcknowledgedExclusive

-----------------------------------------------------------------------------
(* The queue that the turns assume *)

\* The turns' view of their queue: nothing they do is delegated.
Queue == INSTANCE WorkQueue WITH Work <- Items, Workers <- Instances, Nobody <- None,
                                 unsettled <- [k \in Items |-> {}]

\* A step that the queue does not notice.
LEMMA QueueStutters ==
  ASSUME UNCHANGED <<phase, holder>>
  PROVE  [Queue!WNext]_(Queue!wvars)
BY DEF Queue!wvars

\* An item goes back to waiting: its lease was released or lapsed.
LEMMA QueueLapses ==
  ASSUME TurnInv, NEW k \in Items, phase[k] = "held",
         phase' = [phase EXCEPT ![k] = "waiting"], holder' = [holder EXCEPT ![k] = None]
  PROVE  Queue!WNext
<1>1. phase \in [Items -> {"absent", "waiting", "held", "done"}] /\ holder \in [Items -> Instances \cup {None}]
  BY DEF TurnInv, TypeOK
<1>2. phase' = [j \in Items |-> IF j \in {k} THEN "waiting" ELSE phase[j]]
  BY <1>1
<1>3. holder' = [j \in Items |-> IF j \in {k} THEN None ELSE holder[j]]
  BY <1>1
<1>4. Queue!Lapse({k})
  BY <1>2, <1>3 DEF Queue!Lapse, Queue!Held
<1> QED
  BY <1>4 DEF Queue!WNext

\* An item is acknowledged by its holder, or nothing happens to it.
LEMMA QueueFinishes ==
  ASSUME TurnInv, NEW i \in Instances, FinishItem(i)
  PROVE  [Queue!WNext]_(Queue!wvars)
<1>1. CASE HoldsLease(i)
  <2>1. PICK k : k = proc[i].item
    OBVIOUS
  <2>2. k \in Items /\ holder[k] = i
    BY <1>1, <2>1 DEF HoldsLease, TurnInv, TypeOK, ProcRecord
  <2>3. phase[k] = "held"
    BY <2>2, TurnAssumption DEF TurnInv
  <2>4. phase' = [phase EXCEPT ![k] = "done"] /\ holder' = [holder EXCEPT ![k] = None]
    BY <1>1, <2>1 DEF FinishItem
  <2>5. Queue!Finish(k)
    BY <2>2, <2>3, <2>4 DEF Queue!Finish
  <2> QED
    BY <2>2, <2>5 DEF Queue!WNext
<1>2. CASE ~HoldsLease(i)
  BY <1>2, QueueStutters DEF FinishItem
<1> QED
  BY <1>1, <1>2

\* Every step of the turns is one the queue allows, or one it does not notice.
LEMMA QueueSteps ==
  ASSUME TurnInv, [Next]_vars
  PROVE  [Queue!WNext]_(Queue!wvars)
<1>1. ASSUME NEW k \in Items, Enqueue(k) PROVE Queue!WNext
  <2>1. Queue!Submit(k)
    BY <1>1 DEF Enqueue, Queue!Submit
  <2> QED
    BY <2>1 DEF Queue!WNext
<1>2. ASSUME NEW i \in Instances, NEW k \in Items, Claim(i, k) PROVE Queue!WNext
  <2>1. phase \in [Items -> {"absent", "waiting", "held", "done"}] /\ holder \in [Items -> Instances \cup {None}]
    BY DEF TurnInv, TypeOK
  <2>2. phase' = [j \in Items |-> IF j = k THEN "held" ELSE IF j \in {} THEN "waiting" ELSE phase[j]]
    BY <1>2, <2>1 DEF Claim
  <2>3. holder' = [j \in Items |-> IF j = k THEN i ELSE IF j \in {} THEN None ELSE holder[j]]
    BY <1>2, <2>1 DEF Claim
  <2>4. Queue!Assign({}, k, i)
    BY <1>2, <2>2, <2>3 DEF Claim, Queue!Assign
  <2>5. {} \in SUBSET Items
    OBVIOUS
  <2> QED
    BY <2>4, <2>5 DEF Queue!WNext
<1>3. ASSUME NEW k \in Items, LapseDead(k) \/ LapseLive(k) PROVE Queue!WNext
  BY <1>3, QueueLapses DEF LapseDead, LapseLive
<1>4. ASSUME NEW i \in Instances, SkipRecorded(i) \/ Acknowledge(i) PROVE [Queue!WNext]_(Queue!wvars)
  BY <1>4, QueueFinishes DEF SkipRecorded, Acknowledge
<1>5. ASSUME NEW i \in Instances, TryRelease(i) PROVE [Queue!WNext]_(Queue!wvars)
  <2>1. CASE HoldsLease(i)
    <3>1. PICK k : k = proc[i].item
      OBVIOUS
    <3>2. k \in Items /\ holder[k] = i
      BY <2>1, <3>1 DEF HoldsLease, TurnInv, TypeOK, ProcRecord
    <3>3. phase[k] = "held"
      BY <3>2, TurnAssumption DEF TurnInv
    <3>4. phase' = [phase EXCEPT ![k] = "waiting"] /\ holder' = [holder EXCEPT ![k] = None]
      BY <1>5, <2>1, <3>1 DEF TryRelease
    <3> QED
      BY <3>2, <3>3, <3>4, QueueLapses
  <2>2. CASE ~HoldsLease(i)
    BY <1>5, <2>2, QueueStutters DEF TryRelease
  <2> QED
    BY <2>1, <2>2
<1>6. ASSUME NEW i \in Instances,
             \/ Prepare(i) \/ Clear(i) \/ Bind(i) \/ BindRefused(i) \/ Resume(i)
             \/ ReleaseOperation(i) \/ Unwind(i) \/ Refuse(i)
             \/ Progress(i) \/ RecordAttempt(i) \/ LeaseLost(i) \/ HeartbeatError(i)
             \/ (\E completed \in BOOLEAN : TurnEnds(i, completed))
             \/ StepError(i) \/ Crash(i)
      PROVE  UNCHANGED <<phase, holder>>
  BY <1>6 DEF Prepare, Clear, Bind, BindRefused, Resume, ReleaseOperation, Unwind, Refuse,
              Progress, RecordAttempt, LeaseLost, HeartbeatError, TurnEnds, StepError, Crash
<1>7. ASSUME NEW digest \in Digests, Reseed(digest) \/ Activate(digest)
      PROVE  UNCHANGED <<phase, holder>>
  BY <1>7 DEF Reseed, Activate
<1>8. ASSUME UNCHANGED vars PROVE UNCHANGED <<phase, holder>>
  BY <1>8 DEF vars
<1> QED
  BY <1>1, <1>2, <1>3, <1>4, <1>5, <1>6, <1>7, <1>8, QueueStutters DEF Next, ServiceStep

\* What the turns assume of their queue is what RoleQueue is proved to promise: each claim,
\* lapse, release and acknowledgment of run_once is a step of WorkQueue, for any number of
\* instances and items, whatever crashes.
THEOREM TurnsUseWorkQueue == Spec => Queue!WSpec
<1>1. Init => Queue!WInit
  BY DEF Init, Queue!WInit
<1>2. TurnInv /\ [Next]_vars => [Queue!WNext]_(Queue!wvars)
  BY QueueSteps
<1> QED
  BY <1>1, <1>2, TurnInvariance, PTL DEF Spec, Queue!WSpec

-----------------------------------------------------------------------------
(* The refinement of Conversation *)

\* The row has a thread from its first operation on, and who binds it has a prompt.
ThreadKnown ==
  /\ IF aff.st = "none" THEN aff = NoAffinity ELSE aff.digest \in Digests /\ aff.gen \in 1..MaxGen
  /\ \A i \in Instances : proc[i].pc \in {"clear", "bind"} => proc[i].digest \in Digests

\* Only Bind and Reseed write the row's thread, and only Prepare chooses a prompt.
LEMMA ThreadKept ==
  ASSUME TurnInv, ThreadKnown, [Next]_vars
  PROVE  ThreadKnown'
<1>0. /\ aff \in AffRecord /\ proc \in [Instances -> ProcRecord] /\ config \in Digests
      /\ \A i \in Instances : proc[i] \in ProcRecord
  BY DEF TurnInv, TypeOK
<1>1. IF aff'.st = "none" THEN aff' = NoAffinity ELSE aff'.digest \in Digests /\ aff'.gen \in 1..MaxGen
  <2>1. CASE UNCHANGED <<aff.st, aff.digest, aff.gen>> /\ aff'.op \in {aff.op, None} /\ aff' \in AffRecord
    BY <1>0, <2>1 DEF ThreadKnown, NoAffinity, AffRecord
  <2>2. ASSUME NEW i \in Instances, Bind(i)
        PROVE  aff'.st = "active" /\ aff'.digest \in Digests /\ aff'.gen \in 1..MaxGen
    BY <2>2, TurnAssumption DEF Bind, Bound, At, ThreadKnown
  <2>3. ASSUME NEW digest \in Digests, Reseed(digest)
        PROVE  aff'.st = "pending_seed" /\ aff'.digest \in Digests /\ aff'.gen \in 1..MaxGen
    BY <1>0, <2>3, TurnAssumption DEF Reseed, ThreadKnown, AffRecord
  <2>4. ASSUME NEW i \in Instances, Clear(i) \/ ReleaseOperation(i) \/ Unwind(i)
        PROVE  /\ UNCHANGED <<aff.st, aff.digest, aff.gen>>
               /\ aff'.op \in {aff.op, None} /\ aff' \in AffRecord
    BY <1>0, <2>4 DEF Clear, ReleaseOperation, Unwind, AffRecord
  <2>5. ASSUME UNCHANGED aff
        PROVE  /\ UNCHANGED <<aff.st, aff.digest, aff.gen>>
               /\ aff'.op \in {aff.op, None} /\ aff' \in AffRecord
    BY <1>0, <2>5
  <2>6. \/ UNCHANGED aff
        \/ \E i \in Instances : Bind(i) \/ Clear(i) \/ ReleaseOperation(i) \/ Unwind(i)
        \/ \E digest \in Digests : Reseed(digest)
    BY DEF vars, Next, ServiceStep, Enqueue, LapseDead, LapseLive, Claim, SkipRecorded, Prepare,
           BindRefused, Resume, Acknowledge, Refuse, TryRelease, Progress, RecordAttempt,
           LeaseLost, HeartbeatError, TurnEnds, StepError, Crash, Activate
  <2> QED
    BY <2>1, <2>2, <2>3, <2>4, <2>5, <2>6
<1>2. ASSUME NEW i \in Instances, proc'[i].pc \in {"clear", "bind"}
      PROVE  proc'[i].digest \in Digests
  <2>1. CASE proc'[i].digest = proc[i].digest /\ proc[i].pc \in {"clear", "bind"}
    BY <2>1 DEF ThreadKnown
  <2>2. \/ proc'[i].digest = proc[i].digest /\ proc[i].pc \in {"clear", "bind"}
        \/ proc'[i].digest = config
    <3>1. CASE UNCHANGED proc
      BY <1>2, <3>1
    <3>2. ASSUME NEW j \in Instances, Clear(j) \/ BindRefused(j) \/ Resume(j)
                 \/ ReleaseOperation(j) \/ Unwind(j) \/ Refuse(j) \/ StepError(j)
          PROVE  proc'[i].digest = proc[i].digest /\ proc[i].pc \in {"clear", "bind"}
      <4>1. PICK pc \in Steps \ {"clear"} :
              proc' = [proc EXCEPT ![j].pc = pc] /\ (pc = "bind" => proc[j].pc = "clear")
        BY <3>2
        DEF Clear, BindRefused, Resume, ReleaseOperation, Unwind, Refuse, StepError, GoTo, At, Steps
      <4> QED
        BY <1>0, <1>2, <4>1 DEF ProcRecord
    <3>6. ASSUME NEW j \in Instances, Prepare(j) \/ Progress(j) \/ LeaseLost(j) \/ HeartbeatError(j)
                 \/ \E completed \in BOOLEAN : TurnEnds(j, completed)
          PROVE  \/ proc'[i].digest = proc[i].digest /\ proc[i].pc \in {"clear", "bind"}
                 \/ proc'[i].digest = config
      BY <1>0, <1>2, <3>6
      DEF Prepare, Progress, LeaseLost, HeartbeatError, TurnEnds, ProcRecord
    <3>3. ASSUME NEW j \in Instances, Bind(j)
          PROVE  proc'[i].digest = proc[i].digest /\ proc[i].pc \in {"clear", "bind"}
      BY <1>0, <1>2, <3>3 DEF Bind, ProcRecord
    <3>4. ASSUME NEW j \in Instances, SkipRecorded(j) \/ Acknowledge(j) \/ TryRelease(j) \/ Crash(j)
                 \/ \E k \in Items : Claim(j, k)
          PROVE  proc'[i].digest = proc[i].digest /\ proc[i].pc \in {"clear", "bind"}
      <4>1. \/ proc' = [proc EXCEPT ![j] = IdleProc]
            \/ proc' = [proc EXCEPT ![j].pc = "fail"]
            \/ \E k \in Items : proc' = [proc EXCEPT ![j] = [IdleProc EXCEPT !.pc = "claimed", !.item = k]]
        BY <3>4 DEF SkipRecorded, Acknowledge, FinishItem, TryRelease, Crash, Claim, GoTo
      <4>2. CASE proc' = [proc EXCEPT ![j] = IdleProc]
        BY <1>0, <1>2, <4>2 DEF IdleProc
      <4>3. CASE proc' = [proc EXCEPT ![j].pc = "fail"]
        BY <1>0, <1>2, <4>3 DEF ProcRecord
      <4>4. ASSUME NEW k \in Items,
                   proc' = [proc EXCEPT ![j] = [IdleProc EXCEPT !.pc = "claimed", !.item = k]]
            PROVE  proc'[i].digest = proc[i].digest /\ proc[i].pc \in {"clear", "bind"}
        BY <1>0, <1>2, <4>4 DEF IdleProc
      <4> QED
        BY <4>1, <4>2, <4>3, <4>4
    <3>5. UNCHANGED proc \/ \E j \in Instances :
            \/ Prepare(j) \/ Clear(j) \/ BindRefused(j) \/ Resume(j)
            \/ ReleaseOperation(j) \/ Unwind(j) \/ Refuse(j) \/ Progress(j)
            \/ LeaseLost(j) \/ HeartbeatError(j) \/ StepError(j)
            \/ (\E completed \in BOOLEAN : TurnEnds(j, completed)) \/ Bind(j)
            \/ SkipRecorded(j) \/ Acknowledge(j) \/ TryRelease(j) \/ Crash(j)
            \/ \E k \in Items : Claim(j, k)
      BY DEF vars, Next, ServiceStep, Enqueue, LapseDead, LapseLive, RecordAttempt, Activate, Reseed
    <3> QED
      BY <3>1, <3>2, <3>3, <3>4, <3>5, <3>6
  <2> QED
    BY <1>0, <2>1, <2>2
<1> QED
  BY <1>1, <1>2 DEF ThreadKnown

\* The step of one instance shows in its turn alone.
LEMMA TurnShown ==
  ASSUME TurnInv, NEW i \in Instances, NEW row, proc' = [proc EXCEPT ![i] = row]
  PROVE  /\ TurnsNow' = [TurnsNow EXCEPT ![i] = TurnNow(i)'] /\ TurnsNow[i] = TurnNow(i)
         /\ proc'[i] = row
<1>1. proc'[i] = row /\ \A j \in Instances \ {i} : proc'[j] = proc[j]
  BY DEF TurnInv, TypeOK
<1>2. \A j \in Instances \ {i} : TurnNow(j)' = TurnNow(j)
  BY <1>1 DEF TurnNow, Stage, At
<1> QED
  BY <1>1, <1>2 DEF TurnsNow

\* A step that takes an instance to another point of run_once.
LEMMA TurnGoes ==
  ASSUME TurnInv, NEW i \in Instances, NEW pc, proc' = [proc EXCEPT ![i].pc = pc]
  PROVE  /\ TurnsNow' = [TurnsNow EXCEPT ![i] = TurnNow(i)'] /\ TurnsNow[i] = TurnNow(i)
         /\ proc'[i].pc = pc /\ proc'[i].item = proc[i].item
         /\ proc'[i].digest = proc[i].digest /\ proc'[i].gen = proc[i].gen
<1>1. proc[i] \in ProcRecord
  BY DEF TurnInv, TypeOK
<1>2. proc' = [proc EXCEPT ![i] = [proc[i] EXCEPT !.pc = pc]]
  OBVIOUS
<1>3. proc'[i] = [proc[i] EXCEPT !.pc = pc]
  BY <1>2, TurnShown
<1> QED
  BY <1>1, <1>2, <1>3, TurnShown DEF ProcRecord

\* A step that neither a turn nor the conversation shows.
LEMMA TalkStutters ==
  ASSUME TurnsNow' = TurnsNow, Acknowledged' = Acknowledged, UNCHANGED <<aff, recorded>>
  PROVE  UNCHANGED Talk!conversationVars
BY DEF Talk!conversationVars, ThreadNow

\* What is done is only changed by an acknowledgment.
LEMMA NothingAcknowledged ==
  ASSUME \A k \in Items : (phase'[k] = "done") = (phase[k] = "done")
  PROVE  Acknowledged' = Acknowledged
BY DEF Acknowledged

\* A turn that goes wrong is lost, and nothing else happens.
LEMMA TalkLoses ==
  ASSUME TurnInv, NEW i \in Instances, proc[i].pc \notin {"idle", "unwind", "fail"},
         NEW pc \in {"unwind", "fail"}, proc' = [proc EXCEPT ![i].pc = pc],
         UNCHANGED <<phase, aff, recorded>>
  PROVE  Talk!ConversationNext
<1>1. /\ TurnsNow' = [TurnsNow EXCEPT ![i] = TurnNow(i)'] /\ TurnsNow[i] = TurnNow(i)
      /\ proc'[i].pc = pc /\ proc'[i].item = proc[i].item
  BY TurnGoes
<1>2. TurnNow(i)' = Talk!TurnOf(TurnNow(i).item, "lost", Talk!NoThread)
  BY <1>1 DEF TurnNow, Stage, At, Talk!TurnOf, Talk!NoThread
<1>3. TurnNow(i).stage \in {"ready", "working", "credited"}
  <2>1. proc[i].pc \in Steps
    BY DEF TurnInv, TypeOK, ProcRecord
  <2> QED
    BY <2>1 DEF TurnNow, Stage, At, Steps
<1>4. Talk!Lose(i)
  BY <1>1, <1>2, <1>3, NothingAcknowledged DEF Talk!Lose, ThreadNow
<1> QED
  BY <1>4 DEF Talk!ConversationNext

\* Who does not release its own operation leaves it, if there is one, to be superseded.
LEMMA TalkSupersedes ==
  ASSUME TurnInv, TurnsNow' = TurnsNow, aff.op # None, aff' = [aff EXCEPT !.op = None],
         UNCHANGED <<phase, recorded>>
  PROVE  Talk!ConversationNext
<1>1. aff' \in AffRecord /\ aff'.op = None /\ ThreadNow' = ThreadNow
  BY DEF TurnInv, TypeOK, AffRecord, ThreadNow
<1>2. Talk!Supersede
  BY <1>1, NothingAcknowledged DEF Talk!Supersede
<1> QED
  BY <1>2 DEF Talk!ConversationNext

\* An item is taken up from the queue.
LEMMA ClaimTakes ==
  ASSUME TurnInv, NEW i \in Instances, NEW k \in Items, Claim(i, k)
  PROVE  Talk!ConversationNext
<1>1. PICK row : row = [IdleProc EXCEPT !.pc = "claimed", !.item = k]
  OBVIOUS
<1>2. row.pc = "claimed" /\ row.item = k
  BY <1>1 DEF IdleProc
<1>3. proc' = [proc EXCEPT ![i] = row] /\ UNCHANGED <<aff, recorded>>
  BY <1>1 DEF Claim
<1>4. /\ TurnsNow' = [TurnsNow EXCEPT ![i] = TurnNow(i)'] /\ TurnsNow[i] = TurnNow(i)
      /\ proc'[i] = row
  BY <1>3, TurnShown
<1>5. TurnNow(i) = Talk!Away /\ TurnNow(i)' = Talk!TurnOf(k, "ready", Talk!NoThread)
  BY <1>2, <1>4 DEF Claim, TurnNow, Stage, At, Talk!Away, Talk!TurnOf, Talk!NoThread
<1>6. k \notin Acknowledged /\ Acknowledged' = Acknowledged
  BY DEF Claim, Acknowledged, TurnInv, TypeOK
<1>7. Talk!Take(i, k)
  BY <1>3, <1>4, <1>5, <1>6 DEF Talk!Take, ThreadNow
<1> QED
  BY <1>7 DEF Talk!ConversationNext

\* An acknowledgment by the holder counts; by somebody else it is refused.
LEMMA FinishConfirms ==
  ASSUME TurnInv, NEW i \in Instances, FinishItem(i), UNCHANGED <<aff, recorded>>,
         proc[i].pc = "ack" \/ (proc[i].pc = "claimed" /\ proc[i].item \in recorded)
  PROVE  Talk!ConversationNext
<1>1. CASE HoldsLease(i)
  <2>1. PICK k : k = proc[i].item
    OBVIOUS
  <2>2. k \in Items /\ phase[k] = "held" /\ phase \in [Items -> {"absent", "waiting", "held", "done"}]
    BY <1>1, <2>1, TurnAssumption DEF HoldsLease, TurnInv, TypeOK, ProcRecord
  <2>3. phase' = [phase EXCEPT ![k] = "done"] /\ proc' = [proc EXCEPT ![i] = IdleProc]
    BY <1>1, <2>1 DEF FinishItem
  <2>4. k \notin Acknowledged /\ Acknowledged' = Acknowledged \cup {k}
    BY <2>2, <2>3 DEF Acknowledged
  <2>5. /\ TurnsNow' = [TurnsNow EXCEPT ![i] = TurnNow(i)'] /\ TurnsNow[i] = TurnNow(i)
        /\ proc'[i] = IdleProc
    BY <2>3, TurnShown
  <2>6. TurnNow(i)' = Talk!Away
    BY <2>5 DEF TurnNow, At, IdleProc, Talk!Away, Talk!NoThread
  <2>7. /\ TurnNow(i).item = k
        /\ \/ TurnNow(i).stage = "credited"
           \/ TurnNow(i).stage = "ready" /\ TurnNow(i).item \in recorded
    BY <2>1 DEF TurnNow, Stage, At
  <2>8. Talk!Confirm(i)
    BY <2>4, <2>5, <2>6, <2>7 DEF Talk!Confirm, ThreadNow
  <2> QED
    BY <2>8 DEF Talk!ConversationNext
<1>2. CASE ~HoldsLease(i)
  <2>1. proc' = [proc EXCEPT ![i].pc = "fail"] /\ UNCHANGED phase
    BY <1>2 DEF FinishItem, GoTo
  <2> QED
    BY <2>1, TalkLoses
<1> QED
  BY <1>1, <1>2

\* The operation that is claimed works on the thread that the row names from then on.
LEMMA BindStarts ==
  ASSUME TurnInv, ThreadKnown, NEW i \in Instances, Bind(i)
  PROVE  Talk!ConversationNext
<1>0. /\ aff \in AffRecord /\ proc \in [Instances -> ProcRecord] /\ proc[i] \in ProcRecord
      /\ proc[i].pc = "bind" /\ UNCHANGED <<phase, recorded>>
  BY DEF TurnInv, TypeOK, Bind, At
<1>1. /\ aff.op = None /\ aff'.op = i
      /\ aff'.digest = proc[i].digest /\ aff'.gen = IF aff.st = "none" THEN 1 ELSE aff.gen
  BY DEF Bind, Bound, CanBind, ThreadKnown, NoAffinity
<1>2. IF ThreadNow = Talk!NoThread THEN \E d \in Digests : ThreadNow' = <<d, 1>>
                                    ELSE UNCHANGED ThreadNow
  <2>1. CASE aff.st = "none"
    <3>1. ThreadNow = <<None, 0>> /\ ThreadNow' = <<proc[i].digest, 1>>
      BY <1>1, <2>1 DEF ThreadNow, ThreadKnown, NoAffinity
    <3>2. proc[i].digest \in Digests
      BY <1>0 DEF ThreadKnown
    <3> QED
      BY <3>1, <3>2 DEF Talk!NoThread
  <2>2. CASE aff.st # "none"
    <3>1. aff.digest = proc[i].digest /\ aff.gen \in 1..MaxGen
      BY <2>2 DEF Bind, CanBind, ThreadKnown
    <3> QED
      BY <1>1, <2>2, <3>1 DEF ThreadNow, Talk!NoThread
  <2> QED
    BY <2>1, <2>2
<1>3. /\ proc'[i].pc \in {"resume", "turn"} /\ proc'[i].item = proc[i].item
      /\ proc'[i].digest = proc[i].digest /\ proc'[i].gen = aff'.gen
  BY <1>0, <1>1 DEF Bind, Bound, ProcRecord
<1>4. \A j \in Instances \ {i} : /\ proc'[j].pc = proc[j].pc /\ proc'[j].item = proc[j].item
                                 /\ proc'[j].digest = proc[j].digest /\ proc'[j].gen = proc[j].gen
  <2>1. ASSUME NEW j \in Instances, j # i
        PROVE  proc[j] \in ProcRecord /\ proc'[j] = [proc[j] EXCEPT !.superseded = @ \/ Operating(j)]
    BY <1>0, <2>1 DEF Bind
  <2> QED
    BY <2>1 DEF ProcRecord
<1>5. \A j \in Instances \ {i} : TurnNow(j)' = TurnNow(j)
  BY <1>4 DEF TurnNow, Stage, At
<1>6. TurnNow(i).stage = "ready" /\ TurnNow(i).item = proc[i].item
  BY <1>0 DEF TurnNow, Stage, At
<1>7. TurnNow(i)' = Talk!TurnOf(TurnNow(i).item, "working", ThreadNow')
  BY <1>1, <1>3, <1>6 DEF TurnNow, Stage, At, ThreadNow, Talk!TurnOf
<1>8. TurnsNow' = [TurnsNow EXCEPT ![i] = TurnNow(i)'] /\ TurnsNow[i] = TurnNow(i)
  BY <1>5 DEF TurnsNow
<1>9. Talk!Start(i)
  BY <1>0, <1>1, <1>2, <1>6, <1>7, <1>8, NothingAcknowledged DEF Talk!Start
<1> QED
  BY <1>9 DEF Talk!ConversationNext

\* The operation ends well if it is the one that the row names, and is lost otherwise.
LEMMA ReleaseConcludes ==
  ASSUME TurnInv, NEW i \in Instances, ReleaseOperation(i)
  PROVE  Talk!ConversationNext
<1>0. proc[i].pc = "finish" /\ UNCHANGED <<phase, recorded>>
  BY DEF ReleaseOperation, At
<1>1. CASE aff.op = i
  <2>1. proc' = [proc EXCEPT ![i].pc = "ack"] /\ aff' = [aff EXCEPT !.op = None]
    BY <1>1 DEF ReleaseOperation, GoTo
  <2>2. /\ TurnsNow' = [TurnsNow EXCEPT ![i] = TurnNow(i)'] /\ TurnsNow[i] = TurnNow(i)
        /\ proc'[i].pc = "ack" /\ proc'[i].item = proc[i].item
    BY <2>1, TurnGoes
  <2>3. aff'.op = None /\ ThreadNow' = ThreadNow
    BY <2>1 DEF TurnInv, TypeOK, AffRecord, ThreadNow
  <2>4. aff.digest = proc[i].digest /\ aff.gen = proc[i].gen
    BY <1>0, <1>1 DEF TurnInv, Sound, OperatingSteps
  <2>5. TurnNow(i).stage = "working" /\ TurnNow(i).item = proc[i].item /\ TurnNow(i).on = ThreadNow
    BY <1>0, <2>4 DEF TurnNow, Stage, At, ThreadNow
  <2>6. TurnNow(i)' = Talk!TurnOf(TurnNow(i).item, "credited", Talk!NoThread)
    BY <2>2, <2>5 DEF TurnNow, Stage, At, Talk!TurnOf, Talk!NoThread
  <2>7. Talk!Conclude(i)
    BY <1>0, <1>1, <2>2, <2>3, <2>5, <2>6, NothingAcknowledged DEF Talk!Conclude
  <2> QED
    BY <2>7 DEF Talk!ConversationNext
<1>2. CASE aff.op # i
  <2>1. proc' = [proc EXCEPT ![i].pc = "fail"] /\ UNCHANGED aff
    BY <1>2 DEF ReleaseOperation, GoTo
  <2> QED
    BY <1>0, <2>1, TalkLoses
<1> QED
  BY <1>1, <1>2

\* An instance that gives its item up, or dies, is in no turn any more.
LEMMA TurnLeaves ==
  ASSUME TurnInv, NEW i \in Instances, proc' = [proc EXCEPT ![i] = IdleProc],
         Acknowledged' = Acknowledged, UNCHANGED <<aff, recorded>>
  PROVE  [Talk!ConversationNext]_(Talk!conversationVars)
<1>1. /\ TurnsNow' = [TurnsNow EXCEPT ![i] = TurnNow(i)'] /\ TurnsNow[i] = TurnNow(i)
      /\ proc'[i] = IdleProc
  BY TurnShown
<1>2. TurnNow(i)' = Talk!Away
  BY <1>1 DEF TurnNow, At, IdleProc, Talk!Away, Talk!NoThread
<1>3. CASE TurnNow(i) = Talk!Away
  <2>1. TurnsNow' = TurnsNow
    BY <1>1, <1>2, <1>3 DEF TurnsNow
  <2> QED
    BY <2>1, TalkStutters
<1>4. CASE TurnNow(i) # Talk!Away
  <2>1. Talk!Leave(i)
    BY <1>1, <1>2, <1>4 DEF Talk!Leave, ThreadNow
  <2> QED
    BY <2>1 DEF Talk!ConversationNext
<1> QED
  BY <1>3, <1>4

\* Every step of run_once, of its heartbeat and of an operator is one of the conversation's
\* steps, or nothing that the conversation shows.
LEMMA TalkSteps ==
  ASSUME TurnInv, ThreadKnown, [Next]_vars
  PROVE  [Talk!ConversationNext]_(Talk!conversationVars)
<1>0. /\ aff \in AffRecord /\ proc \in [Instances -> ProcRecord]
      /\ \A i \in Instances : proc[i] \in ProcRecord
      /\ phase \in [Items -> {"absent", "waiting", "held", "done"}]
  BY DEF TurnInv, TypeOK
<1>1. ASSUME NEW k \in Items, Enqueue(k) \/ LapseDead(k) \/ LapseLive(k)
      PROVE  UNCHANGED Talk!conversationVars
  <2>1. UNCHANGED <<proc, aff, recorded>>
    BY <1>1 DEF Enqueue, LapseDead, LapseLive
  <2>2. \A m \in Items : (phase'[m] = "done") = (phase[m] = "done")
    BY <1>0, <1>1 DEF Enqueue, LapseDead, LapseLive
  <2>3. TurnsNow' = TurnsNow
    BY <2>1 DEF TurnsNow, TurnNow, Stage, At
  <2> QED
    BY <2>1, <2>2, <2>3, TalkStutters, NothingAcknowledged
<1>2. ASSUME NEW i \in Instances, Prepare(i) \/ Progress(i) \/ LeaseLost(i) \/ HeartbeatError(i)
                                  \/ \E completed \in BOOLEAN : TurnEnds(i, completed)
      PROVE  UNCHANGED Talk!conversationVars
  <2>1. \E row : proc' = [proc EXCEPT ![i] = row]
    BY <1>2 DEF Prepare, Progress, LeaseLost, HeartbeatError, TurnEnds
  <2>2. /\ TurnsNow' = [TurnsNow EXCEPT ![i] = TurnNow(i)'] /\ TurnsNow[i] = TurnNow(i)
    BY <2>1, TurnShown
  <2>3. TurnNow(i)' = TurnNow(i)
    <3>1. CASE Prepare(i)
      <4>1. proc[i].pc = "claimed" /\ proc'[i].pc = "clear" /\ proc'[i].item = proc[i].item
        BY <1>0, <3>1 DEF Prepare, At, ProcRecord
      <4> QED
        BY <4>1 DEF TurnNow, Stage, At
    <3>2. CASE Progress(i) \/ LeaseLost(i) \/ HeartbeatError(i)
      <4>1. /\ proc'[i].pc = proc[i].pc /\ proc'[i].item = proc[i].item
            /\ proc'[i].digest = proc[i].digest /\ proc'[i].gen = proc[i].gen
        BY <1>0, <3>2 DEF Progress, LeaseLost, HeartbeatError, ProcRecord
      <4> QED
        BY <4>1 DEF TurnNow, Stage, At
    <3>3. ASSUME NEW completed \in BOOLEAN, TurnEnds(i, completed)
          PROVE  TurnNow(i)' = TurnNow(i)
      <4>1. /\ proc[i].pc = "turn" /\ proc'[i].pc = "finish" /\ proc'[i].item = proc[i].item
            /\ proc'[i].digest = proc[i].digest /\ proc'[i].gen = proc[i].gen
        BY <1>0, <3>3 DEF TurnEnds, At, ProcRecord
      <4> QED
        BY <4>1 DEF TurnNow, Stage, At
    <3> QED
      BY <1>2, <3>1, <3>2, <3>3
  <2>4. TurnsNow' = TurnsNow
    BY <2>2, <2>3 DEF TurnsNow
  <2>5. UNCHANGED <<phase, aff, recorded>>
    BY <1>2 DEF Prepare, Progress, LeaseLost, HeartbeatError, TurnEnds
  <2> QED
    BY <2>4, <2>5, TalkStutters, NothingAcknowledged
<1>3. ASSUME NEW i \in Instances, Clear(i) \/ Unwind(i)
      PROVE  [Talk!ConversationNext]_(Talk!conversationVars)
  <2>1. PICK pc \in Steps : /\ proc' = [proc EXCEPT ![i].pc = pc]
                            /\ <<proc[i].pc, pc>> \in {<<"clear", "bind">>, <<"unwind", "fail">>}
    BY <1>3 DEF Clear, Unwind, GoTo, At, Steps
  <2>2. TurnNow(i)' = TurnNow(i)
    BY <2>1, TurnGoes DEF TurnNow, Stage, At
  <2>3. TurnsNow' = TurnsNow
    BY <2>1, <2>2, TurnGoes DEF TurnsNow
  <2>4. UNCHANGED <<phase, recorded>>
    BY <1>3 DEF Clear, Unwind
  <2>5. UNCHANGED aff \/ (aff.op # None /\ aff' = [aff EXCEPT !.op = None])
    <3>1. CASE Clear(i)
      BY <3>1 DEF Clear, Supersedes
    <3>2. CASE Unwind(i)
      BY <3>2, TurnAssumption DEF Unwind
    <3> QED
      BY <1>3, <3>1, <3>2
  <2> QED
    BY <2>3, <2>4, <2>5, TalkSupersedes, TalkStutters, NothingAcknowledged
<1>4. ASSUME NEW i \in Instances, BindRefused(i) \/ Refuse(i) \/ StepError(i) \/ Resume(i)
      PROVE  [Talk!ConversationNext]_(Talk!conversationVars)
  <2>1. UNCHANGED <<phase, aff, recorded>>
    BY <1>4 DEF BindRefused, Refuse, StepError, Resume
  <2>2. \/ \E pc \in {"unwind", "fail"} : proc' = [proc EXCEPT ![i].pc = pc]
        \/ proc[i].pc = "resume" /\ proc' = [proc EXCEPT ![i].pc = "turn"]
    BY <1>4 DEF BindRefused, Refuse, StepError, Resume, GoTo, At
  <2>3. proc[i].pc \notin {"idle", "unwind", "fail"}
    BY <1>4 DEF BindRefused, Refuse, StepError, Resume, At
  <2>4. ASSUME proc[i].pc = "resume", proc' = [proc EXCEPT ![i].pc = "turn"]
        PROVE  UNCHANGED Talk!conversationVars
    <3>1. TurnNow(i)' = TurnNow(i)
      BY <2>4, TurnGoes DEF TurnNow, Stage, At
    <3>2. TurnsNow' = TurnsNow
      BY <2>4, <3>1, TurnGoes DEF TurnsNow
    <3> QED
      BY <2>1, <3>2, TalkStutters, NothingAcknowledged
  <2> QED
    BY <2>1, <2>2, <2>3, <2>4, TalkLoses
<1>5. ASSUME NEW i \in Instances, RecordAttempt(i)
      PROVE  Talk!ConversationNext
  <2>1. proc[i].pc = "turn" /\ UNCHANGED <<phase, proc, aff>>
        /\ recorded' = recorded \cup {proc[i].item}
    BY <1>5 DEF RecordAttempt, At
  <2>2. TurnsNow' = TurnsNow /\ TurnsNow[i] = TurnNow(i)
    BY <2>1 DEF TurnsNow, TurnNow, Stage, At
  <2>3. TurnNow(i).stage = "working" /\ TurnNow(i).item = proc[i].item
    BY <2>1 DEF TurnNow, Stage, At
  <2>4. Talk!Attempt(i)
    BY <2>1, <2>2, <2>3, NothingAcknowledged DEF Talk!Attempt, ThreadNow
  <2> QED
    BY <2>4 DEF Talk!ConversationNext
<1>6. ASSUME NEW i \in Instances, SkipRecorded(i) \/ Acknowledge(i)
      PROVE  Talk!ConversationNext
  BY <1>6, FinishConfirms DEF SkipRecorded, Acknowledge, At
<1>7. ASSUME NEW i \in Instances, TryRelease(i) \/ Crash(i)
      PROVE  [Talk!ConversationNext]_(Talk!conversationVars)
  <2>1. proc' = [proc EXCEPT ![i] = IdleProc] /\ UNCHANGED <<aff, recorded>>
    BY <1>7 DEF TryRelease, Crash
  <2>2. \A k \in Items : (phase'[k] = "done") = (phase[k] = "done")
    <3>1. CASE UNCHANGED phase
      BY <3>1
    <3>2. CASE HoldsLease(i) /\ phase' = [phase EXCEPT ![proc[i].item] = "waiting"]
      <4>1. proc[i].item \in Items /\ holder[proc[i].item] = i
        BY <1>0, <3>2 DEF HoldsLease, ProcRecord
      <4>2. phase[proc[i].item] = "held"
        BY <4>1, TurnAssumption DEF TurnInv
      <4> QED
        BY <1>0, <3>2, <4>1, <4>2
    <3> QED
      BY <1>7, <3>1, <3>2 DEF TryRelease, Crash
  <2> QED
    BY <2>1, <2>2, TurnLeaves, NothingAcknowledged
<1>8. ASSUME NEW digest \in Digests, Reseed(digest)
      PROVE  Talk!ConversationNext
  <2>1. /\ aff.op = None /\ aff.digest # digest /\ aff.gen \in 1..MaxGen
        /\ UNCHANGED <<phase, proc, recorded>>
    BY <1>8 DEF Reseed, ThreadKnown
  <2>2. aff'.op = None /\ aff'.digest = digest /\ aff'.gen = aff.gen + 1
    BY <1>0, <1>8 DEF Reseed, AffRecord
  <2>3. TurnsNow' = TurnsNow
    BY <2>1 DEF TurnsNow, TurnNow, Stage, At
  <2>4. /\ ThreadNow # Talk!NoThread /\ ThreadNow[1] # digest
        /\ ThreadNow' = <<digest, ThreadNow[2] + 1>>
    BY <2>1, <2>2, TurnAssumption DEF ThreadNow, Talk!NoThread
  <2>5. Talk!Succeed(digest)
    BY <2>1, <2>2, <2>3, <2>4, NothingAcknowledged DEF Talk!Succeed
  <2> QED
    BY <2>5 DEF Talk!ConversationNext
<1>9. ASSUME UNCHANGED vars \/ \E digest \in Digests : Activate(digest)
      PROVE  UNCHANGED Talk!conversationVars
  <2>1. UNCHANGED <<phase, proc, aff, recorded>>
    BY <1>9 DEF vars, Activate
  <2>2. TurnsNow' = TurnsNow
    BY <2>1 DEF TurnsNow, TurnNow, Stage, At
  <2> QED
    BY <2>1, <2>2, TalkStutters, NothingAcknowledged
<1> QED
  BY <1>1, <1>2, <1>3, <1>4, <1>5, <1>6, <1>7, <1>8, <1>9, ClaimTakes, BindStarts, ReleaseConcludes
  DEF Next, ServiceStep

\* Whatever overlaps, lapses, crashes or comes late, an item of a conversation is acknowledged
\* once, by a turn that was current from its claim of the operation to its release, on one
\* thread and under one prompt, or because a turn recorded its attempt before: for any number
\* of instances, items, prompts, generations and faults.
THEOREM TurnsImplementConversation == Spec => ImplementsConversation
<1>1. Init => ThreadKnown /\ Talk!ConversationInit
  <2> SUFFICES ASSUME Init PROVE ThreadKnown /\ Talk!ConversationInit
    OBVIOUS
  <2>1. ThreadKnown /\ ThreadNow = Talk!NoThread /\ aff.op = None
    BY DEF Init, ThreadKnown, NoAffinity, IdleProc, ThreadNow, Talk!NoThread
  <2>2. TurnsNow = [i \in Instances |-> Talk!Away]
    BY DEF Init, IdleProc, TurnsNow, TurnNow, At, Talk!Away, Talk!NoThread
  <2>3. Acknowledged = {} /\ recorded = {}
    BY DEF Init, Acknowledged
  <2> QED
    BY <2>1, <2>2, <2>3 DEF Talk!ConversationInit
<1>2. TurnInv /\ ThreadKnown /\ [Next]_vars => ThreadKnown'
  BY ThreadKept
<1>3. TurnInv /\ ThreadKnown /\ [Next]_vars => [Talk!ConversationNext]_(Talk!conversationVars)
  BY TalkSteps
<1> QED
  BY <1>1, <1>2, <1>3, TurnInvariance, PTL DEF Spec, ImplementsConversation, Talk!ConversationSpec

==============================================================================
