--------------------------- MODULE RoleQueueProofs ---------------------------
(***************************************************************************)
(* Theorems about RoleQueue for every set of items, leases, instances and   *)
(* queues: its type invariant, the agreement of leases and item statuses,   *)
(* the handoff rule for completion, the ownership of handoffs, and that it  *)
(* implements WorkQueue.                                                    *)
(***************************************************************************)
EXTENDS RoleQueue, TLAPS

\* A claim in progress and a lease carry what ClaimBind checked: the instance is
\* of the role whose queue it claims from.
RolesMatch ==
  /\ \A i \in Instances : claimTx[i] # None => QueueRole[claimTx[i]] = InstanceRole[i]
  /\ \A l \in LeaseIds : lease[l].st # "none" =>
       /\ lease[l].item \in Items /\ lease[l].owner \in Instances
       /\ item[lease[l].item].st # "absent"
       /\ InstanceRole[lease[l].owner] = QueueRole[item[lease[l].item].queue]

\* A handoff links two items that exist, and an operation that is about to write
\* it is still looking at the row it locked.
HandoffLinks ==
  \A h \in Items :
    /\ handoff[h].st # "none" => item[h].st # "absent"
    /\ handoff[h].st = "none" => handoff[h].source = None
    /\ handoff[h].st # "none" => handoff[h].source \in Items
    /\ handoff[h].st \in {"claimed", "accepted"} => handoff[h].targetLease \in LeaseIds
    /\ handoffTx[h].op = "claim" => handoff[h].st \in {"offered", "claimed"}
    /\ handoffTx[h].op = "accept" =>
         handoff[h].st = "claimed" /\ handoff[h].targetLease = handoffTx[h].lease

IndInv ==
  /\ TypeOK
  /\ RolesMatch
  /\ LeaseConsistent
  /\ HandoffLinks
  /\ SourceAccepted
  /\ TargetOwnsHandoff

-----------------------------------------------------------------------------
(* Reclaiming *)

\* _reclaim_expired keeps the types of both tables, only releases expired active
\* leases, and only sends leased items back to ready.
LEMMA ReclaimLemma ==
  ASSUME TypeOK
  PROVE  /\ ReclaimedLeases \in [LeaseIds -> LeaseRecord]
         /\ ReclaimedItems \in [Items -> ItemRecord]
         /\ \A l \in LeaseIds :
              /\ ReclaimedLeases[l].item = lease[l].item
              /\ ReclaimedLeases[l].owner = lease[l].owner
              /\ ReclaimedLeases[l].st = IF l \in ExpiredLeases THEN "released"
                                         ELSE lease[l].st
         /\ \A k \in Items :
              /\ ReclaimedItems[k].queue = item[k].queue
              /\ ReclaimedItems[k].st =
                   IF item[k].st = "leased" /\ \E l \in ExpiredLeases : lease[l].item = k
                   THEN "ready" ELSE item[k].st
<1>1. \A l \in LeaseIds : lease[l] \in LeaseRecord
  BY DEF TypeOK
<1>2. \A k \in Items : item[k] \in ItemRecord
  BY DEF TypeOK
<1>3. \A l \in LeaseIds :
        /\ ReclaimedLeases[l] \in LeaseRecord
        /\ ReclaimedLeases[l].item = lease[l].item
        /\ ReclaimedLeases[l].owner = lease[l].owner
        /\ ReclaimedLeases[l].st = IF l \in ExpiredLeases THEN "released"
                                   ELSE lease[l].st
  BY <1>1 DEF ReclaimedLeases, LeaseRecord
<1>4. \A k \in Items :
        /\ ReclaimedItems[k] \in ItemRecord
        /\ ReclaimedItems[k].queue = item[k].queue
        /\ ReclaimedItems[k].st =
             IF item[k].st = "leased" /\ \E l \in ExpiredLeases : lease[l].item = k
             THEN "ready" ELSE item[k].st
  BY <1>2 DEF ReclaimedItems, ItemRecord
<1> QED
  BY <1>3, <1>4 DEF ReclaimedLeases, ReclaimedItems

-----------------------------------------------------------------------------
(* Types *)

\* Every step of the store writes rows of the columns' types.
LEMMA TypeInductive ==
  ASSUME TypeOK, [Next]_vars
  PROVE  TypeOK'
<1> USE DEF TypeOK, ItemRecord, LeaseRecord, HandoffRecord, HandoffStep, Idle
<1>1. ASSUME NEW k \in Items, NEW q \in Queues, Enqueue(k, q) PROVE TypeOK'
  BY <1>1 DEF Enqueue
<1>2. ASSUME NEW i \in Instances, NEW q \in Queues, ClaimBind(i, q) PROVE TypeOK'
  BY <1>2 DEF ClaimBind
<1>3. ASSUME NEW i \in Instances, ClaimLease(i) PROVE TypeOK'
  <2>1. PICK k \in Items, l \in LeaseIds :
          /\ lease' = [ReclaimedLeases EXCEPT
                         ![l] = [st |-> "active", expired |-> FALSE,
                                 item |-> k, owner |-> i]]
          /\ item' = [ReclaimedItems EXCEPT ![k].st = "leased"]
    BY <1>3 DEF ClaimLease, Candidates
  <2>2. /\ ReclaimedLeases \in [LeaseIds -> LeaseRecord]
        /\ ReclaimedItems \in [Items -> ItemRecord]
    BY ReclaimLemma
  <2>3. lease' \in [LeaseIds -> LeaseRecord]
    <3>1. [st |-> "active", expired |-> FALSE, item |-> k, owner |-> i] \in LeaseRecord
      OBVIOUS
    <3> QED
      BY <2>1, <2>2, <3>1
  <2>4. item' \in [Items -> ItemRecord]
    BY <2>1, <2>2
  <2> QED
    BY <1>3, <2>3, <2>4 DEF ClaimLease
<1>4. ASSUME NEW i \in Instances, ClaimNothing(i) PROVE TypeOK'
  <2>1. /\ ReclaimedLeases \in [LeaseIds -> LeaseRecord]
        /\ ReclaimedItems \in [Items -> ItemRecord]
    BY ReclaimLemma
  <2> QED
    BY <1>4, <2>1 DEF ClaimNothing
<1>5. ASSUME NEW l \in LeaseIds, Expire(l) PROVE TypeOK'
  BY <1>5 DEF Expire
<1>6. ASSUME NEW l \in LeaseIds, Complete(l) \/ Release(l) PROVE TypeOK'
  <2>1. PICK status \in {"completed", "ready"} : FinishLease(l, status)
    BY <1>6 DEF Complete, Release
  <2>2. lease' = [lease EXCEPT ![l].st = "released"]
    BY <2>1 DEF FinishLease
  <2>3. item' = [item EXCEPT ![lease[l].item].st = status]
    BY <2>1 DEF FinishLease
  <2>4. lease' \in [LeaseIds -> LeaseRecord]
    BY <2>2
  <2>5. item' \in [Items -> ItemRecord]
    <3>1. \A k \in Items : [item[k] EXCEPT !.st = status] \in ItemRecord
      OBVIOUS
    <3>2. \A k \in Items : item'[k] = IF k = lease[l].item
                                     THEN [item[k] EXCEPT !.st = status] ELSE item[k]
      BY <2>3
    <3> QED
      BY <2>3, <3>1, <3>2
  <2> QED
    BY <2>1, <2>4, <2>5 DEF FinishLease
<1>7. ASSUME NEW l \in LeaseIds, Forget(l) PROVE TypeOK'
  BY <1>7 DEF Forget, NoLease
<1>8. ASSUME NEW l \in LeaseIds, NEW h \in Items, NEW q \in Queues, Offer(l, h, q)
      PROVE TypeOK'
  BY <1>8 DEF Offer, Valid, Active
<1>9. ASSUME NEW h \in Items, NEW l \in LeaseIds,
             HandoffClaimCheck(h, l) \/ HandoffAcceptCheck(h, l)
      PROVE TypeOK'
  BY <1>9 DEF HandoffClaimCheck, HandoffAcceptCheck
<1>10. ASSUME NEW h \in Items, HandoffCommit(h) PROVE TypeOK'
  <2>1. handoffTx[h] \in HandoffStep
    BY <1>10 DEF HandoffCommit
  <2>2. /\ handoff[h] \in HandoffRecord
        /\ handoffTx[h].lease \in LeaseIds
    BY <2>1
  <2>3. [handoff[h] EXCEPT !.st = IF handoffTx[h].op = "claim" THEN "claimed" ELSE "accepted",
                           !.targetLease = handoffTx[h].lease] \in HandoffRecord
    BY <2>2
  <2>4. handoff' \in [Items -> HandoffRecord]
    BY <1>10, <2>3 DEF HandoffCommit
  <2> QED
    BY <1>10, <2>4 DEF HandoffCommit
<1>11. ASSUME NEW i \in Instances, SetRunning(i) PROVE TypeOK'
  BY <1>11 DEF SetRunning
<1>12. ASSUME NEW q \in Queues, SetPaused(q) PROVE TypeOK'
  BY <1>12 DEF SetPaused
<1>13. ASSUME NEW i \in Instances, RollbackClaim(i) PROVE TypeOK'
  BY <1>13 DEF RollbackClaim
<1>14. ASSUME NEW h \in Items, RollbackHandoff(h) PROVE TypeOK'
  BY <1>14 DEF RollbackHandoff
<1>15. CASE UNCHANGED vars
  BY <1>15 DEF vars
<1> QED
  BY <1>1, <1>2, <1>3, <1>4, <1>5, <1>6, <1>7, <1>8, <1>9, <1>10, <1>11, <1>12,
     <1>13, <1>14, <1>15 DEF Next

-----------------------------------------------------------------------------
(* Leases *)

\* Reclaiming alone keeps leases and items together: it releases every expired
\* lease and readies exactly the items those leases held.
LEMMA ReclaimConsistent ==
  ASSUME TypeOK, RolesMatch, LeaseConsistent
  PROVE  /\ \A l \in LeaseIds : ReclaimedLeases[l].st = "active"
               => ReclaimedItems[lease[l].item].st = "leased"
         /\ \A k \in Items : ReclaimedItems[k].st = "leased"
               => \E l \in LeaseIds : ReclaimedLeases[l].st = "active" /\ lease[l].item = k
         /\ \A k \in Items : ReclaimedItems[k].st = "absent" <=> item[k].st = "absent"
<1> USE ReclaimLemma
<1>1. ASSUME NEW l \in LeaseIds, ReclaimedLeases[l].st = "active"
      PROVE  ReclaimedItems[lease[l].item].st = "leased"
  <2>1. Active(l) /\ l \notin ExpiredLeases
    BY <1>1 DEF Active
  <2>2. lease[l].item \in Items /\ item[lease[l].item].st = "leased"
    BY <2>1 DEF RolesMatch, LeaseConsistent, Active
  <2>3. ~\E m \in ExpiredLeases : lease[m].item = lease[l].item
    BY <2>1 DEF LeaseConsistent, ExpiredLeases
  <2> QED
    BY <2>2, <2>3
<1>2. ASSUME NEW k \in Items, ReclaimedItems[k].st = "leased"
      PROVE  \E l \in LeaseIds : ReclaimedLeases[l].st = "active" /\ lease[l].item = k
  <2>1. item[k].st = "leased" /\ ~\E l \in ExpiredLeases : lease[l].item = k
    BY <1>2
  <2>2. PICK l \in LeaseIds : Active(l) /\ lease[l].item = k
    BY <2>1 DEF LeaseConsistent
  <2> QED
    BY <2>1, <2>2 DEF Active
<1>3. \A k \in Items : ReclaimedItems[k].st = "absent" <=> item[k].st = "absent"
  OBVIOUS
<1> QED
  BY <1>1, <1>2, <1>3

\* Claims, reclaims, finished and forgotten leases keep leases and item statuses
\* together, and a lease with the role of its item's queue.
LEMMA LeaseInductive ==
  ASSUME TypeOK, RolesMatch, LeaseConsistent, [Next]_vars
  PROVE  RolesMatch' /\ LeaseConsistent'
<1> USE DEF RolesMatch, LeaseConsistent, Active
<1>0. TypeOK'
  BY TypeInductive
<1>1. ASSUME NEW k \in Items, NEW q \in Queues, Enqueue(k, q)
      PROVE  RolesMatch' /\ LeaseConsistent'
  <2>1. \A j \in Items : item'[j] = IF j = k THEN [st |-> "ready", queue |-> q] ELSE item[j]
    BY <1>1 DEF Enqueue, TypeOK
  <2> QED
    BY <1>1, <2>1 DEF Enqueue
<1>2. ASSUME NEW i \in Instances, NEW q \in Queues, ClaimBind(i, q)
      PROVE  RolesMatch' /\ LeaseConsistent'
  BY <1>2 DEF ClaimBind, TypeOK
<1>3. ASSUME NEW i \in Instances, ClaimLease(i)
      PROVE  RolesMatch' /\ LeaseConsistent'
  <2>1. PICK k \in Items, l \in LeaseIds :
          /\ claimTx[i] # None
          /\ k \in Candidates(claimTx[i])
          /\ lease[l].st = "none"
          /\ lease' = [ReclaimedLeases EXCEPT
                         ![l] = [st |-> "active", expired |-> FALSE,
                                 item |-> k, owner |-> i]]
          /\ item' = [ReclaimedItems EXCEPT ![k].st = "leased"]
    BY <1>3 DEF ClaimLease, Candidates, IsNextLease
  <2>2. /\ ReclaimedItems[k].st = "ready" /\ item[k].queue = claimTx[i]
        /\ item[k].st # "absent"
    BY <2>1, ReclaimLemma, ReclaimConsistent DEF Candidates
  <2>3. \A m \in LeaseIds :
          /\ m # l => /\ lease'[m].item = lease[m].item
                      /\ lease'[m].owner = lease[m].owner
                      /\ lease'[m].st = ReclaimedLeases[m].st
          /\ m = l => lease'[m].st = "active" /\ lease'[m].item = k /\ lease'[m].owner = i
    BY <2>1, ReclaimLemma
  <2>4. \A j \in Items : /\ item'[j].queue = item[j].queue
                         /\ item'[j].st = IF j = k THEN "leased" ELSE ReclaimedItems[j].st
    BY <2>1, ReclaimLemma DEF ItemRecord
  <2>5. \A m \in LeaseIds : ReclaimedLeases[m].st = "none" <=> lease[m].st = "none"
    BY ReclaimLemma DEF ExpiredLeases
  <2>6. claimTx' = [claimTx EXCEPT ![i] = None]
    BY <1>3 DEF ClaimLease
  <2>7. \A m \in LeaseIds : ReclaimedLeases[m].st = "active" =>
          /\ lease[m].item \in Items /\ lease[m].item # k
          /\ Active(m)
    BY <2>2, ReclaimConsistent, ReclaimLemma DEF TypeOK
  <2>8. RolesMatch'
    <3>1. \A j \in Instances : claimTx'[j] # None
             => QueueRole[claimTx'[j]] = InstanceRole[j]
      BY <2>6 DEF TypeOK
    <3>2. QueueRole[item[k].queue] = InstanceRole[i]
      BY <2>1, <2>2
    <3> QED
      BY <2>2, <2>3, <2>4, <2>5, <3>1, <3>2, ReclaimConsistent
  <2>9. LeaseConsistent'
    <3>1. \A m \in LeaseIds : lease'[m].st = "active" => item'[lease'[m].item].st = "leased"
      BY <2>3, <2>4, <2>7, ReclaimConsistent
    <3>2. \A j \in Items : item'[j].st = "leased"
            => \E m \in LeaseIds : lease'[m].st = "active" /\ lease'[m].item = j
      <4>1. ASSUME NEW j \in Items, item'[j].st = "leased", j # k
            PROVE  \E m \in LeaseIds : lease'[m].st = "active" /\ lease'[m].item = j
        <5>1. PICK m \in LeaseIds : ReclaimedLeases[m].st = "active" /\ lease[m].item = j
          BY <4>1, <2>4, ReclaimConsistent
        <5>2. m # l
          BY <5>1, <2>1, <2>5
        <5> QED
          BY <5>1, <5>2, <2>3
      <4> QED
        BY <4>1, <2>3
    <3>3. \A m, n \in LeaseIds :
            lease'[m].st = "active" /\ lease'[n].st = "active"
              /\ lease'[m].item = lease'[n].item => m = n
      BY <2>3, <2>7
    <3> QED
      BY <3>1, <3>2, <3>3
  <2> QED
    BY <2>8, <2>9
<1>4. ASSUME NEW i \in Instances, ClaimNothing(i)
      PROVE  RolesMatch' /\ LeaseConsistent'
  <2>1. lease' = ReclaimedLeases /\ item' = ReclaimedItems
        /\ claimTx' = [claimTx EXCEPT ![i] = None]
    BY <1>4 DEF ClaimNothing
  <2>2. \A m \in LeaseIds : /\ ReclaimedLeases[m].st = "none" <=> lease[m].st = "none"
                            /\ ReclaimedLeases[m].st = "active" => Active(m)
    BY ReclaimLemma DEF ExpiredLeases
  <2>3. \A j \in Instances : claimTx'[j] # None => QueueRole[claimTx'[j]] = InstanceRole[j]
    BY <2>1 DEF TypeOK
  <2>4. RolesMatch'
    BY <2>1, <2>2, <2>3, ReclaimLemma, ReclaimConsistent
  <2>5. LeaseConsistent'
    BY <2>1, <2>2, ReclaimLemma, ReclaimConsistent
  <2> QED
    BY <2>4, <2>5
<1>5. ASSUME NEW l \in LeaseIds, Expire(l)
      PROVE  RolesMatch' /\ LeaseConsistent'
  <2>1. \A m \in LeaseIds : /\ lease'[m].st = lease[m].st
                            /\ lease'[m].item = lease[m].item
                            /\ lease'[m].owner = lease[m].owner
    BY <1>5 DEF Expire, TypeOK, LeaseRecord
  <2> QED
    BY <1>5, <2>1 DEF Expire
<1>6. ASSUME NEW l \in LeaseIds, Complete(l) \/ Release(l)
      PROVE  RolesMatch' /\ LeaseConsistent'
  <2>1. PICK status \in {"completed", "ready"} :
          /\ Valid(l)
          /\ lease' = [lease EXCEPT ![l].st = "released"]
          /\ item' = [item EXCEPT ![lease[l].item].st = status]
          /\ UNCHANGED claimTx
    BY <1>6 DEF Complete, Release, FinishLease
  <2>2. \A m \in LeaseIds : /\ lease'[m].st = IF m = l THEN "released" ELSE lease[m].st
                            /\ lease'[m].item = lease[m].item
                            /\ lease'[m].owner = lease[m].owner
    BY <2>1 DEF TypeOK, LeaseRecord
  <2>3. lease[l].item \in Items /\ lease[l].st = "active"
    BY <2>1 DEF Valid
  <2>4. \A j \in Items : /\ item'[j].queue = item[j].queue
                         /\ item'[j].st = IF j = lease[l].item THEN status ELSE item[j].st
    BY <2>1, <2>3 DEF TypeOK, ItemRecord
  <2>5. RolesMatch'
    BY <2>1, <2>2, <2>3, <2>4
  <2>6. LeaseConsistent'
    BY <2>2, <2>3, <2>4
  <2> QED
    BY <2>5, <2>6
<1>7. ASSUME NEW l \in LeaseIds, Forget(l)
      PROVE  RolesMatch' /\ LeaseConsistent'
  <2>1. \A m \in LeaseIds : lease'[m] = IF m = l THEN NoLease ELSE lease[m]
    BY <1>7 DEF Forget, TypeOK
  <2>2. lease[l].st = "released" /\ UNCHANGED <<item, claimTx>>
    BY <1>7 DEF Forget
  <2> QED
    BY <2>1, <2>2 DEF NoLease
<1>8. ASSUME NEW l \in LeaseIds, NEW h \in Items, NEW q \in Queues, Offer(l, h, q)
      PROVE  RolesMatch' /\ LeaseConsistent'
  <2>1. \A j \in Items : item'[j] = IF j = h THEN [st |-> "ready", queue |-> q] ELSE item[j]
    BY <1>8 DEF Offer, TypeOK
  <2> QED
    BY <1>8, <2>1 DEF Offer
<1>9. ASSUME NEW h \in Items, NEW l \in LeaseIds,
             HandoffClaimCheck(h, l) \/ HandoffAcceptCheck(h, l)
      PROVE  RolesMatch' /\ LeaseConsistent'
  BY <1>9 DEF HandoffClaimCheck, HandoffAcceptCheck
<1>10. ASSUME NEW h \in Items, HandoffCommit(h) PROVE RolesMatch' /\ LeaseConsistent'
  BY <1>10 DEF HandoffCommit
<1>11. ASSUME NEW i \in Instances, SetRunning(i) PROVE RolesMatch' /\ LeaseConsistent'
  BY <1>11 DEF SetRunning
<1>12. ASSUME NEW q \in Queues, SetPaused(q) PROVE RolesMatch' /\ LeaseConsistent'
  BY <1>12 DEF SetPaused
<1>13. ASSUME NEW i \in Instances, RollbackClaim(i) PROVE RolesMatch' /\ LeaseConsistent'
  BY <1>13 DEF RollbackClaim, TypeOK
<1>14. ASSUME NEW h \in Items, RollbackHandoff(h) PROVE RolesMatch' /\ LeaseConsistent'
  BY <1>14 DEF RollbackHandoff
<1>15. CASE UNCHANGED vars
  BY <1>15 DEF vars
<1> QED
  BY <1>1, <1>2, <1>3, <1>4, <1>5, <1>6, <1>7, <1>8, <1>9, <1>10, <1>11, <1>12,
     <1>13, <1>14, <1>15 DEF Next

-----------------------------------------------------------------------------
(* Handoffs *)

\* No step changes what lease, item or role a recorded handoff lease stands for,
\* and none forgets it while a handoff or an open operation names it.
LEMMA HandoffLeaseKept ==
  ASSUME TypeOK, RolesMatch, [Next]_vars,
         NEW h \in Items, NEW l \in LeaseIds, HandoffLease(h, l),
         handoff[h].targetLease = l \/ handoffTx[h].lease = l
  PROVE  HandoffLease(h, l)'
<1> USE DEF HandoffLease
<1>1. lease[l] \in LeaseRecord /\ item[h] \in ItemRecord
  BY DEF TypeOK
<1>2. item[h].st # "absent"
  BY DEF RolesMatch
<1>3. ASSUME NEW k \in Items, NEW q \in Queues, Enqueue(k, q) PROVE HandoffLease(h, l)'
  BY <1>2, <1>3 DEF Enqueue, TypeOK
<1>4. ASSUME NEW i \in Instances, ClaimLease(i) PROVE HandoffLease(h, l)'
  <2>1. PICK k \in Items, m \in LeaseIds :
          /\ lease[m].st = "none"
          /\ lease' = [ReclaimedLeases EXCEPT
                         ![m] = [st |-> "active", expired |-> FALSE,
                                 item |-> k, owner |-> i]]
          /\ item' = [ReclaimedItems EXCEPT ![k].st = "leased"]
    BY <1>4 DEF ClaimLease, Candidates, IsNextLease
  <2>2. lease'[l] = ReclaimedLeases[l]
    BY <2>1, ReclaimLemma
  <2>3. item'[h].queue = item[h].queue
    BY <2>1, ReclaimLemma DEF ItemRecord
  <2> QED
    BY <2>2, <2>3, ReclaimLemma DEF ExpiredLeases
<1>5. ASSUME NEW i \in Instances, ClaimNothing(i) PROVE HandoffLease(h, l)'
  BY <1>5, ReclaimLemma DEF ClaimNothing, ExpiredLeases
<1>6. ASSUME NEW m \in LeaseIds, Expire(m) PROVE HandoffLease(h, l)'
  BY <1>1, <1>6 DEF Expire, TypeOK, LeaseRecord
<1>7. ASSUME NEW m \in LeaseIds, Complete(m) \/ Release(m) PROVE HandoffLease(h, l)'
  <2>1. PICK status \in {"completed", "ready"} :
          /\ lease' = [lease EXCEPT ![m].st = "released"]
          /\ item' = [item EXCEPT ![lease[m].item].st = status]
    BY <1>7 DEF Complete, Release, FinishLease
  <2>2. /\ lease'[l].item = lease[l].item /\ lease'[l].owner = lease[l].owner
        /\ lease'[l].st # "none"
    BY <1>1, <2>1 DEF TypeOK, LeaseRecord
  <2>3. item'[h].queue = item[h].queue
    BY <1>1, <2>1 DEF TypeOK, ItemRecord
  <2> QED
    BY <2>2, <2>3
<1>8. ASSUME NEW m \in LeaseIds, Forget(m) PROVE HandoffLease(h, l)'
  BY <1>8 DEF Forget, TypeOK
<1>9. ASSUME NEW m \in LeaseIds, NEW g \in Items, NEW q \in Queues, Offer(m, g, q)
      PROVE  HandoffLease(h, l)'
  BY <1>2, <1>9 DEF Offer, TypeOK
<1>10. CASE UNCHANGED <<lease, item>>
  BY <1>10
<1> QED
  BY <1>3, <1>4, <1>5, <1>6, <1>7, <1>8, <1>9, <1>10
     DEF Next, vars, ClaimBind, HandoffClaimCheck, HandoffAcceptCheck, HandoffCommit,
         SetRunning, SetPaused, RollbackClaim, RollbackHandoff

\* A handoff keeps naming existing items and a lease of its own target, across the
\* gap between reading the target lease and recording it.
LEMMA HandoffInductive ==
  ASSUME IndInv, [Next]_vars
  PROVE  HandoffLinks' /\ TargetOwnsHandoff'
<1> USE DEF IndInv, HandoffLinks, TargetOwnsHandoff, Idle
<1>0. TypeOK'
  BY TypeInductive
<1>1. \A h \in Items : item[h].st # "absent" => item'[h].st # "absent"
  <2>1. ASSUME NEW l \in LeaseIds, Complete(l) \/ Release(l), NEW h \in Items,
               item[h].st # "absent"
        PROVE  item'[h].st # "absent"
    BY <2>1 DEF Complete, Release, FinishLease, TypeOK, ItemRecord
  <2>2. ASSUME NEW i \in Instances, ClaimLease(i), NEW h \in Items,
               item[h].st # "absent"
        PROVE  item'[h].st # "absent"
    BY <2>2, ReclaimLemma DEF ClaimLease, ItemRecord
  <2>3. ASSUME NEW i \in Instances, ClaimNothing(i), NEW h \in Items,
               item[h].st # "absent"
        PROVE  item'[h].st # "absent"
    BY <2>3, ReclaimLemma DEF ClaimNothing
  <2>4. ASSUME NEW k \in Items, NEW q \in Queues, Enqueue(k, q), NEW h \in Items,
               item[h].st # "absent"
        PROVE  item'[h].st # "absent"
    BY <2>4 DEF Enqueue, TypeOK
  <2>5. ASSUME NEW l \in LeaseIds, NEW g \in Items, NEW q \in Queues, Offer(l, g, q),
               NEW h \in Items, item[h].st # "absent"
        PROVE  item'[h].st # "absent"
    BY <2>5 DEF Offer, TypeOK
  <2>6. CASE UNCHANGED item
    BY <2>6
  <2> QED
    BY <2>1, <2>2, <2>3, <2>4, <2>5, <2>6
       DEF Next, vars, ClaimBind, HandoffClaimCheck, HandoffAcceptCheck, HandoffCommit,
           SetRunning, SetPaused, RollbackClaim, RollbackHandoff, Expire, Forget
<1>2. \A h \in Items, l \in LeaseIds :
        HandoffLease(h, l) /\ (handoff[h].targetLease = l \/ handoffTx[h].lease = l)
          => HandoffLease(h, l)'
  BY HandoffLeaseKept
<1>3. \A h \in Items : handoffTx[h] # Idle =>
        handoffTx[h].lease \in LeaseIds /\ handoffTx[h].op \in {"claim", "accept"}
  BY DEF TypeOK, HandoffStep
<1>4. CASE UNCHANGED <<handoff, handoffTx>>
  BY <1>1, <1>2, <1>3, <1>4
<1>5. ASSUME NEW m \in LeaseIds, NEW g \in Items, NEW q \in Queues, Offer(m, g, q)
      PROVE  HandoffLinks' /\ TargetOwnsHandoff'
  <2>1. \A h \in Items : handoff'[h] = IF h = g
                                       THEN [st |-> "offered", source |-> lease[m].item,
                                             targetLease |-> None]
                                       ELSE handoff[h]
    BY <1>5 DEF Offer, TypeOK
  <2>2. lease[m].item \in Items /\ handoff[g].st = "none" /\ UNCHANGED handoffTx
        /\ item'[g].st = "ready"
    BY <1>5 DEF Offer, Valid, Active, RolesMatch, TypeOK
  <2>3. HandoffLinks'
    BY <1>1, <2>1, <2>2
  <2>4. TargetOwnsHandoff'
    BY <1>2, <1>3, <2>1, <2>2
  <2> QED
    BY <2>3, <2>4
<1>6. ASSUME NEW g \in Items, NEW m \in LeaseIds,
             HandoffClaimCheck(g, m) \/ HandoffAcceptCheck(g, m)
      PROVE  HandoffLinks' /\ TargetOwnsHandoff'
  <2>1. PICK op \in {"claim", "accept"} :
          /\ handoffTx' = [handoffTx EXCEPT ![g] = [op |-> op, lease |-> m]]
          /\ op = "claim" => handoff[g].st \in {"offered", "claimed"}
          /\ op = "accept" => handoff[g].st = "claimed" /\ handoff[g].targetLease = m
          /\ HoldsTarget(m, g)
          /\ UNCHANGED <<item, lease, handoff>>
    BY <1>6 DEF HandoffClaimCheck, HandoffAcceptCheck
  <2>2. \A h \in Items : handoffTx'[h] = IF h = g THEN [op |-> op, lease |-> m]
                                         ELSE handoffTx[h]
    BY <2>1 DEF TypeOK
  <2>3. HandoffLease(g, m)
    BY <2>1 DEF HoldsTarget, HandoffLease, Valid, Active
  <2>4. HandoffLinks'
    BY <2>1, <2>2
  <2>5. TargetOwnsHandoff'
    BY <2>1, <2>2, <2>3 DEF HandoffLease
  <2> QED
    BY <2>4, <2>5
<1>7. ASSUME NEW g \in Items, HandoffCommit(g)
      PROVE  HandoffLinks' /\ TargetOwnsHandoff'
  <2>1. /\ handoffTx[g] # Idle /\ UNCHANGED <<item, lease>>
        /\ handoffTx' = [handoffTx EXCEPT ![g] = Idle]
        /\ handoff' = [handoff EXCEPT
                   ![g].st = IF handoffTx[g].op = "claim" THEN "claimed" ELSE "accepted",
                   ![g].targetLease = handoffTx[g].lease]
    BY <1>7 DEF HandoffCommit
  <2>2. \A h \in Items : handoffTx'[h] = IF h = g THEN Idle ELSE handoffTx[h]
    BY <2>1 DEF TypeOK
  <2>3. /\ \A h \in Items : h # g => handoff'[h] = handoff[h]
        /\ handoff'[g].st \in {"claimed", "accepted"}
        /\ handoff'[g].source = handoff[g].source
        /\ handoff'[g].targetLease = handoffTx[g].lease
    BY <2>1 DEF TypeOK, HandoffRecord
  <2>4. handoff[g].st \in {"offered", "claimed"}
    BY <1>3, <2>1
  <2>5. HandoffLinks'
    <3>1. handoff'[g].targetLease \in LeaseIds /\ handoffTx'[g].op = "idle"
      BY <1>3, <2>1, <2>2, <2>3
    <3>2. handoff'[g].source \in Items /\ item'[g].st # "absent"
      BY <2>1, <2>3, <2>4
    <3>3. \A h \in Items : h # g =>
            /\ handoff'[h] = handoff[h] /\ handoffTx'[h] = handoffTx[h]
            /\ item'[h] = item[h]
      BY <2>1, <2>2, <2>3
    <3>4. handoff'[g].st # "none"
      BY <2>3
    <3> QED
      BY <3>1, <3>2, <3>3, <3>4
  <2>6. TargetOwnsHandoff'
    <3>1. HandoffLease(g, handoff'[g].targetLease)
      BY <2>1, <2>3
    <3>2. \A h \in Items : \A l : HandoffLease(h, l)' = HandoffLease(h, l)
      BY <2>1 DEF HandoffLease
    <3> QED
      BY <2>2, <2>3, <3>1, <3>2
  <2> QED
    BY <2>5, <2>6
<1>8. ASSUME NEW g \in Items, RollbackHandoff(g)
      PROVE  HandoffLinks' /\ TargetOwnsHandoff'
  <2>1. \A h \in Items : handoffTx'[h] = IF h = g THEN Idle ELSE handoffTx[h]
    BY <1>8 DEF RollbackHandoff, TypeOK
  <2> QED
    BY <1>8, <2>1 DEF RollbackHandoff, HandoffLease
<1> QED
  BY <1>4, <1>5, <1>6, <1>7, <1>8
     DEF Next, vars, Enqueue, ClaimBind, ClaimLease, ClaimNothing, Expire, Complete,
         Release, FinishLease, Forget, SetRunning, SetPaused, RollbackClaim

\* A source completes only through its own lease while none of its handoffs is
\* pending, and only a leased item can offer one.
LEMMA SourceInductive ==
  ASSUME IndInv, [Next]_vars
  PROVE  SourceAccepted'
<1> USE DEF IndInv, SourceAccepted, PendingHandoff
<1>1. ASSUME NEW m \in LeaseIds, Complete(m) \/ Release(m) PROVE SourceAccepted'
  <2>1. PICK status \in {"completed", "ready"} :
          /\ status = "completed" => ~PendingHandoff(lease[m].item)
          /\ item' = [item EXCEPT ![lease[m].item].st = status]
          /\ UNCHANGED handoff
    BY <1>1 DEF Complete, Release, FinishLease
  <2>2. \A k \in Items : item'[k].st = IF k = lease[m].item THEN status ELSE item[k].st
    BY <2>1 DEF TypeOK, ItemRecord
  <2> QED
    BY <2>1, <2>2
<1>2. ASSUME NEW m \in LeaseIds, NEW g \in Items, NEW q \in Queues, Offer(m, g, q)
      PROVE  SourceAccepted'
  <2>1. \A h \in Items : handoff'[h] = IF h = g
                                       THEN [st |-> "offered", source |-> lease[m].item,
                                             targetLease |-> None]
                                       ELSE handoff[h]
    BY <1>2 DEF Offer, TypeOK
  <2>2. \A k \in Items : item'[k] = IF k = g THEN [st |-> "ready", queue |-> q]
                                    ELSE item[k]
    BY <1>2 DEF Offer, TypeOK
  <2>3. item[lease[m].item].st = "leased"
    BY <1>2 DEF Offer
  <2> QED
    BY <2>1, <2>2, <2>3
<1>3. ASSUME NEW g \in Items, HandoffCommit(g) PROVE SourceAccepted'
  <2>1. \A h \in Items : h # g => handoff'[h] = handoff[h]
    BY <1>3 DEF HandoffCommit, TypeOK
  <2>2. handoff'[g].source = handoff[g].source
    BY <1>3 DEF HandoffCommit, TypeOK, HandoffRecord
  <2>3. handoff[g].st \in {"offered", "claimed"}
    BY <1>3 DEF HandoffCommit, HandoffLinks, TypeOK, HandoffStep, Idle
  <2>4. UNCHANGED item
    BY <1>3 DEF HandoffCommit
  <2> QED
    BY <2>1, <2>2, <2>3, <2>4
<1>4. ASSUME NEW i \in Instances, ClaimLease(i) PROVE SourceAccepted'
  <2>1. \A k \in Items : item'[k].st = "completed" => item[k].st = "completed"
    BY <1>4, ReclaimLemma DEF ClaimLease, ItemRecord
  <2> QED
    BY <1>4, <2>1 DEF ClaimLease
<1>5. ASSUME NEW i \in Instances, ClaimNothing(i) PROVE SourceAccepted'
  <2>1. \A k \in Items : item'[k].st = "completed" => item[k].st = "completed"
    BY <1>5, ReclaimLemma DEF ClaimNothing
  <2> QED
    BY <1>5, <2>1 DEF ClaimNothing
<1>6. ASSUME NEW k \in Items, NEW q \in Queues, Enqueue(k, q) PROVE SourceAccepted'
  BY <1>6 DEF Enqueue, TypeOK
<1>7. CASE UNCHANGED <<item, handoff>>
  BY <1>7
<1> QED
  BY <1>1, <1>2, <1>3, <1>4, <1>5, <1>6, <1>7
     DEF Next, vars, ClaimBind, HandoffClaimCheck, HandoffAcceptCheck, Expire, Forget,
         SetRunning, SetPaused, RollbackClaim, RollbackHandoff

-----------------------------------------------------------------------------
(* The invariants *)

\* An empty store satisfies the inductive invariant.
LEMMA InitInv == Init => IndInv
<1> SUFFICES ASSUME Init PROVE IndInv
  OBVIOUS
<1> USE DEF Init, NoItem, NoLease, NoHandoff, Idle
<1>1. TypeOK
  BY DEF TypeOK, ItemRecord, LeaseRecord, HandoffRecord, HandoffStep
<1>2. RolesMatch /\ LeaseConsistent
  BY DEF RolesMatch, LeaseConsistent, Active
<1>3. HandoffLinks /\ SourceAccepted /\ TargetOwnsHandoff
  BY DEF HandoffLinks, SourceAccepted, PendingHandoff, TargetOwnsHandoff
<1> QED
  BY <1>1, <1>2, <1>3 DEF IndInv

\* Every step keeps the inductive invariant.
LEMMA NextInv == IndInv /\ [Next]_vars => IndInv'
<1> SUFFICES ASSUME IndInv, [Next]_vars PROVE IndInv'
  OBVIOUS
<1>1. TypeOK' /\ RolesMatch' /\ LeaseConsistent'
  BY TypeInductive, LeaseInductive DEF IndInv
<1>2. HandoffLinks' /\ TargetOwnsHandoff'
  BY HandoffInductive
<1>3. SourceAccepted'
  BY SourceInductive
<1> QED
  BY <1>1, <1>2, <1>3 DEF IndInv

\* The inductive invariant holds in every reachable state of the store, however the
\* transactions of its clients interleave.
THEOREM Invariance == Spec => []IndInv
  BY InitInv, NextInv, PTL DEF Spec

\* Every reachable state of the store has the columns' types.
THEOREM TypeCorrect == Spec => []TypeOK
<1>1. IndInv => TypeOK
  BY DEF IndInv
<1> QED
  BY <1>1, Invariance, PTL

\* An item is leased exactly while it has one active lease, for any number of
\* instances that claim, lose, release and complete leases.
THEOREM LeasesConsistent == Spec => []LeaseConsistent
<1>1. IndInv => LeaseConsistent
  BY DEF IndInv
<1> QED
  BY <1>1, Invariance, PTL

\* No source item is ever completed while a handoff offered from it is pending.
THEOREM SourcesAccepted == Spec => []SourceAccepted
<1>1. IndInv => SourceAccepted
  BY DEF IndInv
<1> QED
  BY <1>1, Invariance, PTL

\* A handoff is only ever claimed or accepted by a lease on its own item held by
\* an instance of the target role.
THEOREM TargetsOwnHandoffs == Spec => []TargetOwnsHandoff
<1>1. IndInv => TargetOwnsHandoff
  BY DEF IndInv
<1> QED
  BY <1>1, Invariance, PTL

-----------------------------------------------------------------------------
(* Refinement of WorkQueue *)

HolderFacts ==
  /\ \A k \in Items : item[k].st # "leased" => HolderOf(k) = None
  /\ \A l \in LeaseIds : Active(l) =>
       /\ lease[l].item \in Items /\ item[lease[l].item].st = "leased"
       /\ HolderOf(lease[l].item) = lease[l].owner
  /\ \A k \in Items : item[k].st = "leased" =>
       \E l \in LeaseIds : Active(l) /\ lease[l].item = k

\* The holder of leased work is the owner of its one active lease.
LEMMA HolderLemma == IndInv => HolderFacts
<1> SUFFICES ASSUME IndInv PROVE HolderFacts
  OBVIOUS
<1>1. \A k \in Items : item[k].st # "leased" => HolderOf(k) = None
  BY DEF HolderOf
<1>2. ASSUME NEW l \in LeaseIds, Active(l)
      PROVE  /\ lease[l].item \in Items /\ item[lease[l].item].st = "leased"
             /\ HolderOf(lease[l].item) = lease[l].owner
  <2>1. lease[l].item \in Items /\ item[lease[l].item].st = "leased"
    BY <1>2 DEF IndInv, RolesMatch, LeaseConsistent, Active
  <2>2. \A m \in LeaseIds : Active(m) /\ lease[m].item = lease[l].item => m = l
    BY <1>2 DEF IndInv, LeaseConsistent
  <2>3. (CHOOSE m \in LeaseIds : Active(m) /\ lease[m].item = lease[l].item) = l
    BY <1>2, <2>2
  <2> QED
    BY <2>1, <2>3 DEF HolderOf
<1>3. \A k \in Items : item[k].st = "leased" =>
        \E l \in LeaseIds : Active(l) /\ lease[l].item = k
  BY DEF IndInv, LeaseConsistent
<1> QED
  BY <1>1, <1>2, <1>3 DEF HolderFacts

\* Work that is leased under the same lease, or under none, before and after a
\* step has the same holder after it.
LEMMA HolderKept ==
  ASSUME HolderFacts, HolderFacts', NEW k \in Items,
         item'[k].st = "leased" <=> item[k].st = "leased",
         \A l \in LeaseIds : lease[l].st = "active" /\ lease[l].item = k =>
           /\ lease'[l].st = "active" /\ lease'[l].item = k
           /\ lease'[l].owner = lease[l].owner
  PROVE  HolderOf(k)' = HolderOf(k)
<1>1. CASE item[k].st # "leased"
  BY <1>1 DEF HolderFacts
<1>2. CASE item[k].st = "leased"
  <2>1. PICK l \in LeaseIds : lease[l].st = "active" /\ lease[l].item = k
    BY <1>2 DEF HolderFacts, Active
  <2>2. HolderOf(k) = lease[l].owner
    BY <2>1 DEF HolderFacts, Active
  <2>3. HolderOf(k)' = lease'[l].owner
    BY <2>1 DEF HolderFacts, Active
  <2> QED
    BY <2>1, <2>2, <2>3
<1> QED
  BY <1>1, <1>2

\* An empty store is a WorkQueue with no work in it.
LEMMA InitRefines == Init => Abstract!WInit
<1> SUFFICES ASSUME Init PROVE Abstract!WInit
  OBVIOUS
<1>1. \A k \in Items : item[k].st = "absent" /\ handoff[k].st = "none"
  BY DEF Init, NoItem, NoHandoff
<1>2. Phase = [k \in Items |-> "absent"]
  BY <1>1 DEF Phase, PhaseOf
<1>3. Holder = [k \in Items |-> None]
  BY <1>1 DEF Holder, HolderOf
<1>4. Unsettled = [k \in Items |-> {}]
  BY <1>1 DEF Unsettled, UnsettledOf
<1> QED
  BY <1>2, <1>3, <1>4 DEF Abstract!WInit

\* Stated once for every kind of step: what becomes of the abstract functions when
\* only one item changes its status.
LEMMA PhaseStep ==
  ASSUME TypeOK, NEW k \in Items, NEW st \in {"absent", "ready", "leased", "completed"},
         \A j \in Items : item'[j].st = IF j = k THEN st ELSE item[j].st
  PROVE  Phase' = [Phase EXCEPT ![k] = PhaseOf[st]]
<1>1. \A j \in Items : Phase'[j] = IF j = k THEN PhaseOf[st] ELSE Phase[j]
  BY DEF Phase
<1> QED
  BY <1>1 DEF Phase

\* An item that is enqueued or routed is work submitted.
LEMMA SubmitStep ==
  ASSUME IndInv, IndInv', NEW k \in Items, NEW q \in Queues, Enqueue(k, q)
  PROVE  Abstract!Submit(k)
<1>1. HolderFacts /\ HolderFacts'
  BY HolderLemma, PTL
<1>2. \A j \in Items : item'[j] = IF j = k THEN [st |-> "ready", queue |-> q] ELSE item[j]
  BY DEF Enqueue, IndInv, TypeOK
<1>3. item[k].st = "absent" /\ UNCHANGED <<lease, handoff>>
  BY DEF Enqueue
<1>4. \A j \in Items : HolderOf(j)' = HolderOf(j)
  BY <1>1, <1>2, <1>3, HolderKept
<1>5. Holder' = Holder
  BY <1>4 DEF Holder
<1>6. Phase' = [Phase EXCEPT ![k] = "waiting"]
  <2>1. \A j \in Items : item'[j].st = IF j = k THEN "ready" ELSE item[j].st
    BY <1>2
  <2>2. Phase' = [Phase EXCEPT ![k] = PhaseOf["ready"]]
    BY <2>1, PhaseStep DEF IndInv
  <2> QED
    BY <2>2 DEF PhaseOf
<1>7. Phase[k] = "absent"
  BY <1>3 DEF Phase, PhaseOf
<1>8. Unsettled' = Unsettled
  BY <1>3 DEF Unsettled, UnsettledOf
<1> QED
  BY <1>5, <1>6, <1>7, <1>8 DEF Abstract!Submit

\* A lease that completes finishes its item, which has no pending handoff.
LEMMA FinishStep ==
  ASSUME IndInv, IndInv', NEW l \in LeaseIds, Complete(l),
         NEW CONSTANT k, k = lease[l].item
  PROVE  Abstract!Finish(k)
<1>1. HolderFacts /\ HolderFacts'
  BY HolderLemma, PTL
<1>2. /\ Valid(l) /\ ~PendingHandoff(k) /\ UNCHANGED handoff
      /\ lease' = [lease EXCEPT ![l].st = "released"]
      /\ item' = [item EXCEPT ![k].st = "completed"]
  BY DEF Complete, FinishLease
<1>3. k \in Items /\ item[k].st = "leased"
  BY <1>1, <1>2 DEF HolderFacts, Valid
<1>4. \A j \in Items : item'[j].st = IF j = k THEN "completed" ELSE item[j].st
  BY <1>2, <1>3 DEF IndInv, TypeOK, ItemRecord
<1>5. \A m \in LeaseIds : m # l => lease'[m] = lease[m]
  BY <1>2 DEF IndInv, TypeOK
<1>6. \A j \in Items : j # k => HolderOf(j)' = HolderOf(j)
  BY <1>1, <1>4, <1>5, HolderKept
<1>7. HolderOf(k)' = None
  BY <1>1, <1>3, <1>4 DEF HolderFacts
<1>8. Holder' = [Holder EXCEPT ![k] = None]
  BY <1>6, <1>7 DEF Holder
<1>9. Phase' = [Phase EXCEPT ![k] = "done"] /\ Phase[k] = "held"
  <2>1. Phase' = [Phase EXCEPT ![k] = PhaseOf["completed"]]
    BY <1>3, <1>4, PhaseStep DEF IndInv
  <2> QED
    BY <1>3, <2>1 DEF PhaseOf, Phase
<1>10. Unsettled' = Unsettled /\ Unsettled[k] = {}
  BY <1>2, <1>3 DEF Unsettled, UnsettledOf, PendingHandoff
<1> QED
  BY <1>8, <1>9, <1>10 DEF Abstract!Finish

\* A lease that is released lets the work it held lapse.
LEMMA GiveBackStep ==
  ASSUME IndInv, IndInv', NEW l \in LeaseIds, Release(l),
         NEW CONSTANT k, k = lease[l].item
  PROVE  Abstract!Lapse({k})
<1>1. HolderFacts /\ HolderFacts'
  BY HolderLemma, PTL
<1>2. /\ Valid(l) /\ UNCHANGED handoff
      /\ lease' = [lease EXCEPT ![l].st = "released"]
      /\ item' = [item EXCEPT ![k].st = "ready"]
  BY DEF Release, FinishLease
<1>3. k \in Items /\ item[k].st = "leased"
  BY <1>1, <1>2 DEF HolderFacts, Valid
<1>4. \A j \in Items : item'[j].st = IF j = k THEN "ready" ELSE item[j].st
  BY <1>2, <1>3 DEF IndInv, TypeOK, ItemRecord
<1>5. \A m \in LeaseIds : m # l => lease'[m] = lease[m]
  BY <1>2 DEF IndInv, TypeOK
<1>6. \A j \in Items : j # k => HolderOf(j)' = HolderOf(j)
  BY <1>1, <1>4, <1>5, HolderKept
<1>7. HolderOf(k)' = None
  BY <1>1, <1>3, <1>4 DEF HolderFacts
<1>8. Holder' = [j \in Items |-> IF j \in {k} THEN None ELSE Holder[j]]
  BY <1>6, <1>7 DEF Holder
<1>9. Phase' = [j \in Items |-> IF j \in {k} THEN "waiting" ELSE Phase[j]]
  <2>1. Phase' = [Phase EXCEPT ![k] = PhaseOf["ready"]]
    BY <1>3, <1>4, PhaseStep DEF IndInv
  <2> QED
    BY <1>3, <2>1 DEF PhaseOf, Phase
<1>10. Unsettled' = Unsettled /\ Phase[k] = "held"
  BY <1>2, <1>3 DEF Unsettled, UnsettledOf, Phase, PhaseOf
<1> QED
  BY <1>3, <1>8, <1>9, <1>10 DEF Abstract!Lapse, Abstract!Held

\* An offer submits the target item and leaves the source unsettled by it.
LEMMA DelegateStep ==
  ASSUME IndInv, IndInv', NEW l \in LeaseIds, NEW h \in Items, NEW q \in Queues,
         Offer(l, h, q), NEW CONSTANT k, k = lease[l].item
  PROVE  Abstract!Delegate(k, h)
<1>1. HolderFacts /\ HolderFacts'
  BY HolderLemma, PTL
<1>2. /\ Valid(l) /\ UNCHANGED lease
      /\ handoff[h].st = "none" /\ item[h].st = "absent"
      /\ \A j \in Items : item'[j] = IF j = h THEN [st |-> "ready", queue |-> q] ELSE item[j]
      /\ \A j \in Items : handoff'[j] = IF j = h
           THEN [st |-> "offered", source |-> k, targetLease |-> None] ELSE handoff[j]
  BY DEF Offer, IndInv, TypeOK
<1>3. k \in Items /\ item[k].st = "leased"
  BY <1>1, <1>2 DEF HolderFacts, Valid
<1>4. \A j \in Items : HolderOf(j)' = HolderOf(j)
  BY <1>1, <1>2, HolderKept
<1>5. Holder' = Holder
  BY <1>4 DEF Holder
<1>6. Phase' = [Phase EXCEPT ![h] = "waiting"]
  <2>1. \A j \in Items : item'[j].st = IF j = h THEN "ready" ELSE item[j].st
    BY <1>2
  <2>2. Phase' = [Phase EXCEPT ![h] = PhaseOf["ready"]]
    BY <2>1, PhaseStep DEF IndInv
  <2> QED
    BY <2>2 DEF PhaseOf
<1>7. Phase[k] = "held" /\ Phase[h] = "absent"
  BY <1>2, <1>3 DEF Phase, PhaseOf
<1>8. Unsettled' = [Unsettled EXCEPT ![k] = @ \cup {h}]
  <2>1. \A j \in Items : UnsettledOf(j)' = IF j = k THEN UnsettledOf(k) \cup {h} ELSE UnsettledOf(j)
    BY <1>2, <1>3 DEF UnsettledOf
  <2> QED
    BY <1>3, <2>1 DEF Unsettled
<1> QED
  BY <1>5, <1>6, <1>7, <1>8 DEF Abstract!Delegate

\* A claim that commits changes nothing WorkQueue sees; an acceptance settles it.
LEMMA HandoffStepRefines ==
  ASSUME IndInv, NEW h \in Items, HandoffCommit(h)
  PROVE  UNCHANGED <<Phase, Holder, Unsettled>> \/ Abstract!Settle(handoff[h].source, h)
<1>1. /\ handoffTx[h] # Idle /\ UNCHANGED <<item, lease>>
      /\ handoff' = [handoff EXCEPT
                   ![h].st = IF handoffTx[h].op = "claim" THEN "claimed" ELSE "accepted",
                   ![h].targetLease = handoffTx[h].lease]
  BY DEF HandoffCommit
<1>2. handoffTx[h].op \in {"claim", "accept"}
  BY <1>1 DEF IndInv, TypeOK, HandoffStep
<1>3. handoff[h].st \in {"offered", "claimed"} /\ handoff[h].source \in Items
  BY <1>2 DEF IndInv, HandoffLinks
<1>4. /\ \A j \in Items : j # h => handoff'[j] = handoff[j]
      /\ handoff'[h].source = handoff[h].source
      /\ handoff'[h].st = IF handoffTx[h].op = "claim" THEN "claimed" ELSE "accepted"
  BY <1>1 DEF IndInv, TypeOK, HandoffRecord
<1>5. Phase' = Phase /\ Holder' = Holder
  BY <1>1 DEF Phase, Holder, HolderOf, Active
<1>6. CASE handoffTx[h].op = "claim"
  <2>1. Unsettled' = Unsettled
    BY <1>3, <1>4, <1>6 DEF Unsettled, UnsettledOf
  <2> QED
    BY <1>5, <2>1
<1>7. CASE handoffTx[h].op = "accept"
  <2>1. \A j \in Items : UnsettledOf(j)' = IF j = handoff[h].source
                                         THEN UnsettledOf(j) \ {h} ELSE UnsettledOf(j)
    BY <1>3, <1>4, <1>7 DEF UnsettledOf
  <2>2. Unsettled' = [Unsettled EXCEPT ![handoff[h].source] = @ \ {h}]
    BY <1>3, <2>1 DEF Unsettled
  <2>3. h \in Unsettled[handoff[h].source]
    BY <1>3 DEF Unsettled, UnsettledOf
  <2> QED
    BY <1>5, <2>2, <2>3 DEF Abstract!Settle
<1> QED
  BY <1>2, <1>6, <1>7

\* The work whose holders claim finds lost.
Lapsed == {k \in Items : item[k].st = "leased" /\ \E l \in ExpiredLeases : lease[l].item = k}

\* Reclaiming leaves the holder of everything it does not take back alone.
LEMMA ReclaimHolder ==
  ASSUME IndInv, IndInv',
         \A l \in LeaseIds : ReclaimedLeases[l].st = "active" =>
           /\ lease'[l].st = "active" /\ lease'[l].item = lease[l].item
           /\ lease'[l].owner = lease[l].owner,
         NEW j \in Items, j \notin Lapsed,
         item'[j].st = "leased" <=> item[j].st = "leased"
  PROVE  HolderOf(j)' = HolderOf(j)
<1>1. HolderFacts /\ HolderFacts'
  BY HolderLemma, PTL
<1>2. \A l \in LeaseIds : lease[l].st = "active" /\ lease[l].item = j =>
        l \notin ExpiredLeases
  BY <1>1 DEF HolderFacts, Lapsed, Active
<1>3. \A l \in LeaseIds : lease[l].st = "active" /\ lease[l].item = j =>
        ReclaimedLeases[l].st = "active"
  BY <1>2, ReclaimLemma DEF IndInv
<1> QED
  BY <1>1, <1>3, HolderKept

\* A claim that finds nothing lets go of the work of every expired lease.
LEMMA LapseStep ==
  ASSUME IndInv, IndInv', NEW i \in Instances, ClaimNothing(i)
  PROVE  Abstract!Lapse(Lapsed)
<1>1. HolderFacts /\ HolderFacts'
  BY HolderLemma, PTL
<1>2. lease' = ReclaimedLeases /\ item' = ReclaimedItems /\ UNCHANGED handoff
  BY DEF ClaimNothing
<1>3. \A j \in Items : item'[j].st = IF j \in Lapsed THEN "ready" ELSE item[j].st
  BY <1>2, ReclaimLemma DEF Lapsed, IndInv
<1>4. \A j \in Items : j \notin Lapsed => HolderOf(j)' = HolderOf(j)
  <2>1. \A l \in LeaseIds : /\ lease'[l].st = ReclaimedLeases[l].st
                            /\ lease'[l].item = lease[l].item
                            /\ lease'[l].owner = lease[l].owner
    BY <1>2, ReclaimLemma DEF IndInv
  <2> QED
    BY <1>3, <2>1, ReclaimHolder
<1>5. \A j \in Lapsed : HolderOf(j)' = None
  BY <1>1, <1>3 DEF HolderFacts, Lapsed
<1>6. Holder' = [j \in Items |-> IF j \in Lapsed THEN None ELSE Holder[j]]
  BY <1>4, <1>5 DEF Holder
<1>7. Phase' = [j \in Items |-> IF j \in Lapsed THEN "waiting" ELSE Phase[j]]
  BY <1>3 DEF Phase, PhaseOf
<1>8. Lapsed \subseteq Abstract!Held
  BY DEF Lapsed, Abstract!Held, Phase, PhaseOf
<1>9. Unsettled' = Unsettled
  BY <1>2 DEF Unsettled, UnsettledOf
<1> QED
  BY <1>6, <1>7, <1>8, <1>9 DEF Abstract!Lapse

\* A claim that leases an item lets go of the work of every expired lease and gives
\* the item, waiting or just lapsed, to the claiming instance.
LEMMA AssignStep ==
  ASSUME IndInv, IndInv', NEW i \in Instances, ClaimLease(i)
  PROVE  \E k \in Items : Abstract!Assign(Lapsed, k, i)
<1>1. HolderFacts /\ HolderFacts'
  BY HolderLemma, PTL
<1>2. PICK k \in Items, l \in LeaseIds :
        /\ k \in Candidates(claimTx[i])
        /\ lease[l].st = "none"
        /\ lease' = [ReclaimedLeases EXCEPT
                       ![l] = [st |-> "active", expired |-> FALSE,
                               item |-> k, owner |-> i]]
        /\ item' = [ReclaimedItems EXCEPT ![k].st = "leased"]
  BY DEF ClaimLease, Candidates, IsNextLease
<1>3. UNCHANGED handoff
  BY DEF ClaimLease
<1>4. ReclaimedItems[k].st = "ready"
  BY <1>2 DEF Candidates
<1>5. \A j \in Items : item'[j].st = IF j = k THEN "leased"
                                     ELSE IF j \in Lapsed THEN "ready" ELSE item[j].st
  BY <1>2, ReclaimLemma DEF Lapsed, IndInv, ItemRecord
<1>6. item[k].st = "ready" \/ k \in Lapsed
  BY <1>4, ReclaimLemma DEF Lapsed, IndInv
<1>7. lease'[l].st = "active" /\ lease'[l].item = k /\ lease'[l].owner = i
  BY <1>2, ReclaimLemma DEF IndInv
<1>8. HolderOf(k)' = i
  BY <1>1, <1>7 DEF HolderFacts, Active
<1>9. \A j \in Items : j # k /\ j \notin Lapsed => HolderOf(j)' = HolderOf(j)
  <2>1. \A m \in LeaseIds : ReclaimedLeases[m].st = "active" =>
          /\ lease'[m].st = "active" /\ lease'[m].item = lease[m].item
          /\ lease'[m].owner = lease[m].owner
    BY <1>2, ReclaimLemma DEF IndInv, ExpiredLeases
  <2> QED
    BY <1>5, <2>1, ReclaimHolder
<1>10. \A j \in Items : j # k /\ j \in Lapsed => HolderOf(j)' = None
  BY <1>1, <1>5 DEF HolderFacts
<1>11. Holder' = [j \in Items |-> IF j = k THEN i
                                  ELSE IF j \in Lapsed THEN None ELSE Holder[j]]
  BY <1>8, <1>9, <1>10 DEF Holder
<1>12. Phase' = [j \in Items |-> IF j = k THEN "held"
                                 ELSE IF j \in Lapsed THEN "waiting" ELSE Phase[j]]
  BY <1>5 DEF Phase, PhaseOf
<1>13. Lapsed \subseteq Abstract!Held
  BY DEF Lapsed, Abstract!Held, Phase, PhaseOf
<1>14. Phase[k] = "waiting" \/ k \in Lapsed
  BY <1>6 DEF Phase, PhaseOf
<1>15. Unsettled' = Unsettled
  BY <1>3 DEF Unsettled, UnsettledOf
<1> QED
  BY <1>11, <1>12, <1>13, <1>14, <1>15 DEF Abstract!Assign

\* What changes no item's status, no active lease and no handoff is invisible.
LEMMA StutterStep ==
  ASSUME IndInv, IndInv', UNCHANGED <<item, handoff>>,
         \A l \in LeaseIds : Active(l) =>
           /\ lease'[l].st = "active" /\ lease'[l].item = lease[l].item
           /\ lease'[l].owner = lease[l].owner
  PROVE  UNCHANGED <<Phase, Holder, Unsettled>>
<1>1. HolderFacts /\ HolderFacts'
  BY HolderLemma, PTL
<1>2. \A j \in Items : HolderOf(j)' = HolderOf(j)
  BY <1>1, HolderKept DEF Active
<1>3. Holder' = Holder
  BY <1>2 DEF Holder
<1>4. Phase' = Phase /\ Unsettled' = Unsettled
  BY DEF Phase, Unsettled, UnsettledOf
<1> QED
  BY <1>3, <1>4

\* Every step of the store is a step of WorkQueue or leaves it alone.
LEMMA StepRefines ==
  ASSUME IndInv, IndInv', [Next]_vars
  PROVE  [Abstract!WNext]_(Abstract!wvars)
<1> USE DEF Abstract!WNext, Abstract!wvars
<1>1. ASSUME NEW k \in Items, NEW q \in Queues, Enqueue(k, q)
      PROVE  Abstract!WNext
  BY <1>1, SubmitStep
<1>2. ASSUME NEW i \in Instances, ClaimLease(i) PROVE Abstract!WNext
  BY <1>2, AssignStep DEF Lapsed
<1>3. ASSUME NEW i \in Instances, ClaimNothing(i) PROVE Abstract!WNext
  BY <1>3, LapseStep DEF Lapsed
<1>4. ASSUME NEW l \in LeaseIds, Complete(l) PROVE Abstract!WNext
  <2>1. PICK k : k = lease[l].item
    OBVIOUS
  <2>2. k \in Items
    BY <1>4, <2>1, HolderLemma DEF Complete, FinishLease, Valid, HolderFacts
  <2> QED
    BY <1>4, <2>1, <2>2, FinishStep
<1>5. ASSUME NEW l \in LeaseIds, Release(l) PROVE Abstract!WNext
  <2>1. PICK k : k = lease[l].item
    OBVIOUS
  <2>2. k \in Items
    BY <1>5, <2>1, HolderLemma DEF Release, FinishLease, Valid, HolderFacts
  <2>3. Abstract!Lapse({k})
    BY <1>5, <2>1, GiveBackStep
  <2> QED
    BY <2>2, <2>3
<1>6. ASSUME NEW l \in LeaseIds, NEW h \in Items, NEW q \in Queues, Offer(l, h, q)
      PROVE  Abstract!WNext
  <2>1. PICK k : k = lease[l].item
    OBVIOUS
  <2>2. k \in Items
    BY <1>6, <2>1, HolderLemma DEF Offer, Valid, HolderFacts
  <2> QED
    BY <1>6, <2>1, <2>2, DelegateStep
<1>7. ASSUME NEW h \in Items, HandoffCommit(h)
      PROVE  Abstract!WNext \/ UNCHANGED <<Phase, Holder, Unsettled>>
  <2>1. handoffTx[h].op \in {"claim", "accept"}
    BY <1>7 DEF HandoffCommit, IndInv, TypeOK, HandoffStep
  <2>2. PICK k : k = handoff[h].source
    OBVIOUS
  <2>3. k \in Items
    BY <2>1, <2>2 DEF IndInv, HandoffLinks
  <2> QED
    BY <1>7, <2>2, <2>3, HandoffStepRefines
<1>8. ASSUME NEW l \in LeaseIds, Expire(l) \/ Forget(l)
      PROVE  UNCHANGED <<Phase, Holder, Unsettled>>
  <2>1. UNCHANGED <<item, handoff>>
    BY <1>8 DEF Expire, Forget
  <2>2. \A m \in LeaseIds : Active(m) =>
          /\ lease'[m].st = "active" /\ lease'[m].item = lease[m].item
          /\ lease'[m].owner = lease[m].owner
    <3>1. CASE Expire(l)
      BY <3>1 DEF Expire, Active, IndInv, TypeOK, LeaseRecord
    <3>2. CASE Forget(l)
      BY <3>2 DEF Forget, Active, IndInv, TypeOK, LeaseRecord
    <3> QED
      BY <1>8, <3>1, <3>2
  <2> QED
    BY <2>1, <2>2, StutterStep
<1>9. CASE UNCHANGED <<item, lease, handoff>>
  <2>1. UNCHANGED <<Phase, Holder, Unsettled>>
    BY <1>9, StutterStep DEF Active
  <2> QED
    BY <2>1
<1> QED
  BY <1>1, <1>2, <1>3, <1>4, <1>5, <1>6, <1>7, <1>8, <1>9
     DEF Next, vars, ClaimBind, HandoffClaimCheck, HandoffAcceptCheck, SetRunning,
         SetPaused, RollbackClaim, RollbackHandoff

\* The store implements WorkQueue: for any number of instances, leases and items,
\* work has one holder at a time, is done once, and never before what it handed
\* on was accepted.
THEOREM Refinement == Spec => ImplementsWorkQueue
<1>1. Init => Abstract!WInit
  BY InitRefines
<1>2. IndInv /\ IndInv' /\ [Next]_vars => [Abstract!WNext]_(Abstract!wvars)
  BY StepRefines
<1> QED
  BY <1>1, <1>2, Invariance, PTL DEF Spec, ImplementsWorkQueue, Abstract!WSpec
==============================================================================
