------------------------ MODULE AgentDeliveryProofs ------------------------
(***************************************************************************)
(* What holds of the way from an observation on the host to the control    *)
(* plane, for every set of detectors, changes, names and limits.           *)
(*                                                                         *)
(* The first part is about the encrypted queue alone, under any number of  *)
(* handles and any events, from QueueAssumption only: the type invariant,  *)
(* that no accepted event is lost (NothingLost) and how far the handles    *)
(* can overrun the limit together (OverrunBounded).  The second is about   *)
(* the Agent: it uses its queue as EncryptedQueue describes it (so that    *)
(* everything proved there holds here), the type invariant, that no change *)
(* is lost (NoChangeLost), that a change has one id (OneIdPerChange) and   *)
(* that a file leaves the queue's care for the store only (SentIsStored).  *)
(***************************************************************************)
EXTENDS AgentDelivery, FiniteSetTheorems, TLAPS

(* Opening and dropping a handle touches neither the directory nor the     *)
(* other handles (OpenEncryptedQueue, loadOrCreateQueueKey).               *)
LEMMA OpenInv ==
    ASSUME QueueInv, NEW h \in Handles, OpenStep(h) \/ CloseQueue(h)
    PROVE  QueueInv'
<1> USE QueueAssumption DEF QueuePC, Content
<1>1. CASE OpenExisting(h)
  BY <1>1 DEF QueueInv, QueueTypeOK, SlotInv, WriteInv, BatchInv, NothingLost, OpenExisting, Goto
<1>2. CASE OpenFails(h)
  BY <1>2 DEF QueueInv, QueueTypeOK, SlotInv, WriteInv, BatchInv, NothingLost, OpenFails, queueVars
<1>3. CASE OpenCreateKey(h)
  BY <1>3 DEF QueueInv, QueueTypeOK, SlotInv, WriteInv, BatchInv, NothingLost, OpenCreateKey, Goto
<1>4. CASE OpenWriteKey(h)
  BY <1>4 DEF QueueInv, QueueTypeOK, SlotInv, WriteInv, BatchInv, NothingLost, OpenWriteKey, Goto
<1>5. CASE OpenKeyFails(h)
  BY <1>5 DEF QueueInv, QueueTypeOK, SlotInv, WriteInv, BatchInv, NothingLost, OpenKeyFails, Goto
<1>6. CASE CloseQueue(h)
  BY <1>6 DEF QueueInv, QueueTypeOK, SlotInv, WriteInv, BatchInv, NothingLost, CloseQueue, Goto
<1> QED
  BY <1>1, <1>2, <1>3, <1>4, <1>5, <1>6 DEF OpenStep

(* Enqueue writes to a file that no other handle has listed, wrote or      *)
(* peeked, and only an unconfirmed one is removed when it fails.           *)
LEMMA EnqueueInv ==
    ASSUME QueueInv, NEW h \in Handles, EnqueueStep(h)
    PROVE  QueueInv'
<1> USE QueueAssumption DEF QueuePC, Content
<1>1. ASSUME NEW e \in Events, EnqueueCheck(h, e) PROVE QueueInv'
  <2>1. QueueTypeOK'
    BY <1>1 DEF QueueInv, QueueTypeOK, SlotInv, WriteInv, BatchInv, NothingLost, EnqueueCheck, Goto
  <2>2. SlotInv'
    BY <1>1 DEF QueueInv, QueueTypeOK, SlotInv, WriteInv, BatchInv, NothingLost, EnqueueCheck, Goto
  <2>3. WriteInv'
    BY <1>1 DEF QueueInv, QueueTypeOK, SlotInv, WriteInv, BatchInv, NothingLost, EnqueueCheck, Goto
  <2>4. BatchInv'
    BY <1>1 DEF QueueInv, QueueTypeOK, SlotInv, WriteInv, BatchInv, NothingLost, EnqueueCheck, Goto
  <2>5. NothingLost'
    BY <1>1 DEF QueueInv, QueueTypeOK, SlotInv, WriteInv, BatchInv, NothingLost, EnqueueCheck, Goto
  <2> QED BY <2>1, <2>2, <2>3, <2>4, <2>5 DEF QueueInv
<1>2. CASE EnqueueCreate(h)
  <2> PICK n \in FreshNames :
          /\ disk' = [disk EXCEPT ![n] = Torn]
          /\ slot' = [slot EXCEPT ![h] = n]
          /\ standing' = [standing EXCEPT ![n] = "none"]
    BY <1>2 DEF EnqueueCreate, Write
  <2>1. QueueTypeOK'
    BY <1>2 DEF QueueInv, QueueTypeOK, EnqueueCreate, Goto, FreshNames
  <2>2. SlotInv'
    BY <1>2 DEF QueueInv, QueueTypeOK, SlotInv, EnqueueCreate, Goto, FreshNames
  <2>3. WriteInv'
    BY <1>2 DEF QueueInv, QueueTypeOK, SlotInv, WriteInv, EnqueueCreate, Goto, FreshNames
  <2>4. BatchInv'
    BY <1>2 DEF QueueInv, QueueTypeOK, SlotInv, BatchInv, EnqueueCreate, Goto, FreshNames
  <2>5. NothingLost'
    BY DEF QueueInv, QueueTypeOK, NothingLost, FreshNames
  <2> QED BY <2>1, <2>2, <2>3, <2>4, <2>5 DEF QueueInv
<1>3. CASE EnqueueWrite(h)
  <2>1. QueueTypeOK'
    BY <1>3 DEF QueueInv, QueueTypeOK, SlotInv, WriteInv, BatchInv, NothingLost, EnqueueWrite, Goto, Write
  <2>2. SlotInv'
    BY <1>3 DEF QueueInv, QueueTypeOK, SlotInv, WriteInv, BatchInv, NothingLost, EnqueueWrite, Goto, Write
  <2>3. WriteInv'
    BY <1>3 DEF QueueInv, QueueTypeOK, SlotInv, WriteInv, BatchInv, NothingLost, EnqueueWrite, Goto, Write
  <2>4. BatchInv'
    BY <1>3 DEF QueueInv, QueueTypeOK, SlotInv, WriteInv, BatchInv, NothingLost, EnqueueWrite, Goto, Write
  <2>5. NothingLost'
    BY <1>3 DEF QueueInv, QueueTypeOK, SlotInv, WriteInv, BatchInv, NothingLost, EnqueueWrite, Goto, Write
  <2> QED BY <2>1, <2>2, <2>3, <2>4, <2>5 DEF QueueInv
<1>4. CASE EnqueueSync(h)
  <2>1. QueueTypeOK'
    BY <1>4 DEF QueueInv, QueueTypeOK, SlotInv, WriteInv, BatchInv, NothingLost, EnqueueSync, Goto
  <2>2. SlotInv'
    BY <1>4 DEF QueueInv, QueueTypeOK, SlotInv, WriteInv, BatchInv, NothingLost, EnqueueSync, Goto
  <2>3. WriteInv'
    BY <1>4 DEF QueueInv, QueueTypeOK, SlotInv, WriteInv, BatchInv, NothingLost, EnqueueSync, Goto
  <2>4. BatchInv'
    BY <1>4 DEF QueueInv, QueueTypeOK, SlotInv, WriteInv, BatchInv, NothingLost, EnqueueSync, Goto
  <2>5. NothingLost'
    BY <1>4 DEF QueueInv, QueueTypeOK, SlotInv, WriteInv, BatchInv, NothingLost, EnqueueSync, Goto
  <2> QED BY <2>1, <2>2, <2>3, <2>4, <2>5 DEF QueueInv
<1>5. CASE EnqueueFails(h)
  <2>1. QueueTypeOK'
    BY <1>5 DEF QueueInv, QueueTypeOK, SlotInv, WriteInv, BatchInv, NothingLost, EnqueueFails, Goto, Write
  <2>2. SlotInv'
    BY <1>5 DEF QueueInv, QueueTypeOK, SlotInv, WriteInv, BatchInv, NothingLost, EnqueueFails, Goto, Write
  <2>3. WriteInv'
    BY <1>5 DEF QueueInv, QueueTypeOK, SlotInv, WriteInv, BatchInv, NothingLost, EnqueueFails, Goto, Write
  <2>4. BatchInv'
    BY <1>5 DEF QueueInv, QueueTypeOK, SlotInv, WriteInv, BatchInv, NothingLost, EnqueueFails, Goto, Write
  <2>5. NothingLost'
    BY <1>5 DEF QueueInv, QueueTypeOK, SlotInv, WriteInv, BatchInv, NothingLost, EnqueueFails, Goto, Write
  <2> QED BY <2>1, <2>2, <2>3, <2>4, <2>5 DEF QueueInv
<1> QED
  BY <1>1, <1>2, <1>3, <1>4, <1>5 DEF EnqueueStep

(* Peek reads, and Ack removes only files whose event has been confirmed.  *)
LEMMA FlushInv ==
    ASSUME QueueInv, NEW h \in Handles, FlushStep(h)
    PROVE  QueueInv'
<1> USE QueueAssumption DEF QueuePC, Content
<1>1. CASE PeekList(h)
  BY <1>1 DEF QueueInv, QueueTypeOK, SlotInv, WriteInv, BatchInv, NothingLost, PeekList, Goto, FirstFiles, queueFiles
<1>2. CASE PeekRead(h)
  BY <1>2 DEF QueueInv, QueueTypeOK, SlotInv, WriteInv, BatchInv, NothingLost, PeekRead, Goto
<1>3. CASE PeekFails(h)
  BY <1>3 DEF QueueInv, QueueTypeOK, SlotInv, WriteInv, BatchInv, NothingLost, PeekFails, DropBatch, Goto
<1>4. CASE BatchSent(h)
  <2>1. /\ pc[h] = "held" /\ pc' = [pc EXCEPT ![h] = "ack"]
        /\ standing' = [n \in Names |-> IF n \in batch[h] THEN "sent" ELSE standing[n]]
        /\ UNCHANGED <<key, disk, arg, slot, batch, held>>
    BY <1>4 DEF BatchSent, Goto
  <2>2. QueueTypeOK' /\ SlotInv' /\ NothingLost'
    BY <2>1 DEF QueueInv, QueueTypeOK, SlotInv, WriteInv, BatchInv, NothingLost
  <2>3. WriteInv'
    <3> SUFFICES ASSUME NEW g \in Handles PROVE WriteInv!(g)'
      BY DEF WriteInv
    <3>1. pc[g] = "write" => slot[g] \notin batch[h]
      <4> SUFFICES ASSUME pc[g] = "write", slot[g] \in batch[h] PROVE FALSE
        OBVIOUS
      <4>1. disk[slot[g]] = Torn
        BY DEF QueueInv, WriteInv
      <4>2. disk[slot[g]] \in held[h] \cup {Absent}
        BY <2>1 DEF QueueInv, BatchInv
      <4>3. held[h] \subseteq Events
        BY DEF QueueInv, QueueTypeOK
      <4> QED BY <4>1, <4>2, <4>3
    <3>2. g # h => pc'[g] = pc[g]
      BY <2>1 DEF QueueInv, QueueTypeOK
    <3>3. CASE pc'[g] = "write"
      BY <2>1, <3>1, <3>2, <3>3 DEF QueueInv, QueueTypeOK, SlotInv, WriteInv
    <3>4. CASE pc'[g] = "sync"
      BY <2>1, <3>2, <3>4 DEF QueueInv, QueueTypeOK, SlotInv, WriteInv
    <3> QED BY <3>3, <3>4
  <2>4. BatchInv'
    <3> SUFFICES ASSUME NEW g \in Handles PROVE BatchInv!(g)'
      BY DEF BatchInv
    <3>1. CASE g = h
      BY <2>1, <3>1 DEF QueueInv, QueueTypeOK, SlotInv, BatchInv
    <3>2. CASE g # h
      BY <2>1, <3>2 DEF QueueInv, QueueTypeOK, SlotInv, BatchInv
    <3> QED BY <3>1, <3>2
  <2> QED BY <2>2, <2>3, <2>4 DEF QueueInv
<1>5. CASE BatchNotSent(h)
  BY <1>5 DEF QueueInv, QueueTypeOK, SlotInv, WriteInv, BatchInv, NothingLost, BatchNotSent, DropBatch, Goto
<1>6. CASE AckRemove(h)
  <2> PICK n \in batch[h] :
          /\ disk' = [disk EXCEPT ![n] = Absent]
          /\ batch' = [batch EXCEPT ![h] = @ \ {n}]
          /\ standing' = [standing EXCEPT ![n] =
                 IF @ = "sent" /\ \A g \in Handles : slot[g] # n THEN "none" ELSE @]
    BY <1>6 DEF AckRemove, Write
  <2>0. /\ pc[h] = "ack" /\ n \in Names /\ standing[n] # "owed"
        /\ \A g \in Handles : slot[g] = n => standing[n] = "sent"
        /\ UNCHANGED <<key, pc, arg, slot, held>>
    BY <1>6 DEF AckRemove, QueueInv, QueueTypeOK, BatchInv
  <2>1. QueueTypeOK'
    BY <2>0 DEF QueueInv, QueueTypeOK
  <2>2. SlotInv'
    BY <2>0 DEF QueueInv, SlotInv
  <2>3. WriteInv'
    BY <2>0 DEF QueueInv, QueueTypeOK, SlotInv, WriteInv
  <2>4. BatchInv'
    BY <2>0 DEF QueueInv, QueueTypeOK, BatchInv
  <2>5. NothingLost'
    BY <2>0 DEF QueueInv, QueueTypeOK, NothingLost
  <2> QED BY <2>1, <2>2, <2>3, <2>4, <2>5 DEF QueueInv
<1>7. CASE AckEnds(h)
  BY <1>7 DEF QueueInv, QueueTypeOK, SlotInv, WriteInv, BatchInv, NothingLost, AckEnds, DropBatch, Goto
<1> QED
  BY <1>1, <1>2, <1>3, <1>4, <1>5, <1>6, <1>7 DEF FlushStep

(* A dead process leaves its files behind; only unconfirmed ones suffer    *)
(* from a power loss.                                                      *)
LEMMA CrashInv ==
    ASSUME QueueInv, (\E H \in SUBSET Handles : ProcessDies(H)) \/ PowerLoss
    PROVE  QueueInv'
<1> USE QueueAssumption DEF QueuePC, Content
<1>1. ASSUME NEW H \in SUBSET Handles, ProcessDies(H) PROVE QueueInv'
  <2>1. QueueTypeOK' /\ SlotInv' /\ NothingLost'
    BY <1>1 DEF QueueInv, QueueTypeOK, SlotInv, NothingLost, ProcessDies, Forget
  <2>2. WriteInv'
    BY <1>1 DEF QueueInv, QueueTypeOK, SlotInv, WriteInv, ProcessDies, Forget
  <2>3. BatchInv'
    <3> SUFFICES ASSUME NEW g \in Handles PROVE BatchInv!(g)'
      BY DEF BatchInv
    <3>1. CASE g \in H
      BY <1>1, <3>1 DEF ProcessDies, Forget
    <3>2. CASE g \notin H
      <4>1. /\ pc'[g] = pc[g] /\ batch'[g] = batch[g] /\ held'[g] = held[g] /\ disk' = disk
        BY <1>1, <3>2 DEF ProcessDies, Forget
      <4>2. pc[g] = "ack" => \A n \in batch[g] : standing'[n] # "owed"
        BY <1>1 DEF QueueInv, QueueTypeOK, BatchInv, ProcessDies, Forget
      <4>3. ASSUME NEW f \in Handles, NEW n \in batch[g], slot'[f] = n, pc[g] = "ack"
            PROVE  standing'[n] = "sent"
        <5>1. n \in Names /\ f \notin H /\ slot[f] = n
          BY <1>1, <4>3 DEF QueueInv, QueueTypeOK, ProcessDies, Forget
        <5>2. \A x \in H : slot[x] # n
          BY <5>1 DEF QueueInv, SlotInv
        <5> QED BY <1>1, <4>3, <5>1, <5>2 DEF QueueInv, BatchInv, ProcessDies, Forget
      <4> QED BY <4>1, <4>2, <4>3 DEF QueueInv, BatchInv
    <3> QED BY <3>1, <3>2
  <2> QED BY <2>1, <2>2, <2>3 DEF QueueInv
<1>2. CASE PowerLoss
  <2>1. \A h \in Handles : /\ pc'[h] = "closed" /\ slot'[h] = Absent
                           /\ batch'[h] = {}
    BY <1>2 DEF PowerLoss, Forget
  <2>2. QueueTypeOK'
    BY <1>2 DEF QueueInv, QueueTypeOK, PowerLoss, Forget, queueFiles
  <2>3. SlotInv' /\ WriteInv' /\ BatchInv'
    BY <2>1 DEF SlotInv, WriteInv, BatchInv
  <2>4. NothingLost'
    <3> SUFFICES ASSUME NEW n \in Names, standing'[n] = "owed" PROVE disk'[n] \in Events
      BY DEF NothingLost
    <3>1. standing[n] = "owed" /\ \A h \in Handles : slot[h] # n
      BY <1>2 DEF PowerLoss, Forget
    <3>2. disk'[n] = disk[n]
      BY <1>2, <3>1 DEF PowerLoss
    <3> QED BY <3>1, <3>2 DEF QueueInv, NothingLost
  <2> QED BY <2>2, <2>3, <2>4 DEF QueueInv
<1> QED BY <1>1, <1>2

LEMMA QueueInvInductive == QueueInv /\ [QueueNext]_queueVars => QueueInv'
<1> SUFFICES ASSUME QueueInv, [QueueNext]_queueVars PROVE QueueInv'
  OBVIOUS
<1>1. ASSUME NEW h \in Handles,
             OpenStep(h) \/ CloseQueue(h) \/ EnqueueStep(h) \/ FlushStep(h)
      PROVE  QueueInv'
  BY <1>1, OpenInv, EnqueueInv, FlushInv
<1>2. CASE (\E H \in SUBSET Handles : ProcessDies(H)) \/ PowerLoss
  BY <1>2, CrashInv
<1>3. CASE UNCHANGED queueVars
  BY <1>3 DEF queueVars, QueueInv, QueueTypeOK, SlotInv, WriteInv, BatchInv, NothingLost
<1> QED BY <1>1, <1>2, <1>3 DEF QueueNext

LEMMA QueueInvHolds == QueueSpec => []QueueInv
<1>1. QueueInit => QueueInv
  BY QueueAssumption
  DEF QueueInit, QueueInv, QueueTypeOK, SlotInv, WriteInv, BatchInv, NothingLost,
      Content, QueuePC
<1> QED BY <1>1, QueueInvInductive, PTL DEF QueueSpec

(* Every state of the queue is well typed. *)
THEOREM QueueTypeCorrect == QueueSpec => []QueueTypeOK
BY QueueInvHolds, PTL DEF QueueInv

(* No event whose Enqueue returned nil is lost before the receiver has     *)
(* confirmed it, for any number of handles in any number of processes and  *)
(* any crashes and power losses among them.                                *)
THEOREM QueueLosesNothing == QueueSpec => []NothingLost
BY QueueInvHolds, PTL DEF QueueInv

----------------------------------------------------------------------------
(* The limit.  A handle between its capacity check and its creation of the *)
(* file holds a place that the check of another handle does not see.       *)
Creating == {h \in Handles : pc[h] = "create"}

PlacesInv ==
    Cardinality(queueFiles) + Cardinality(Creating) + 1
        <= maxQueueEntries + Cardinality(Handles)

LEMMA Sizes ==
    /\ IsFiniteSet(queueFiles) /\ Cardinality(queueFiles) \in Nat
    /\ IsFiniteSet(Creating) /\ Cardinality(Creating) \in Nat
    /\ Cardinality(Creating) <= Cardinality(Handles)
    /\ Cardinality(Handles) \in Nat
<1>1. queueFiles \subseteq Names /\ Creating \subseteq Handles
  BY DEF queueFiles, Creating
<1> QED BY <1>1, QueueAssumption, FS_Subset, FS_CardinalityType

(* A step that creates no file and passes no check frees places at most. *)
LEMMA PlacesShrink ==
    ASSUME PlacesInv, queueFiles' \subseteq queueFiles, Creating' \subseteq Creating
    PROVE  PlacesInv'
<1>1. /\ Cardinality(queueFiles') <= Cardinality(queueFiles)
      /\ Cardinality(queueFiles') \in Nat
      /\ Cardinality(Creating') <= Cardinality(Creating)
      /\ Cardinality(Creating') \in Nat
  BY Sizes, FS_Subset, FS_CardinalityType
<1> QED BY <1>1, Sizes, QueueAssumption DEF PlacesInv

LEMMA PlacesStep ==
    ASSUME QueueInv, PlacesInv, [QueueNext]_queueVars
    PROVE  PlacesInv'
<1> USE QueueAssumption
<1>1. ASSUME NEW h \in Handles, NEW e \in Events, EnqueueCheck(h, e) PROVE PlacesInv'
  <2>1. Cardinality(queueFiles) + 1 <= maxQueueEntries
    BY <1>1, Sizes DEF EnqueueCheck, QueueFull
  <2>2. queueFiles' = queueFiles
    BY <1>1 DEF EnqueueCheck, queueFiles
  <2>3. Creating' \subseteq Handles
    BY DEF Creating
  <2>4. Cardinality(Creating') <= Cardinality(Handles) /\ Cardinality(Creating') \in Nat
    BY <2>3, FS_Subset, FS_CardinalityType
  <2> QED BY <2>1, <2>2, <2>4, Sizes DEF PlacesInv
<1>2. ASSUME NEW h \in Handles, EnqueueCreate(h) PROVE PlacesInv'
  <2> PICK n \in FreshNames : disk' = [disk EXCEPT ![n] = Torn]
    BY <1>2 DEF EnqueueCreate, Write
  <2>1. n \in Names /\ n \notin queueFiles /\ queueFiles' = queueFiles \cup {n}
    BY DEF FreshNames, queueFiles, QueueInv, QueueTypeOK
  <2>2. h \in Creating /\ Creating' = Creating \ {h}
    BY <1>2 DEF Creating, EnqueueCreate, Goto, QueueInv, QueueTypeOK
  <2>3. Cardinality(queueFiles') = Cardinality(queueFiles) + 1
    BY <2>1, Sizes, FS_AddElement
  <2>4. Cardinality(Creating') = Cardinality(Creating) - 1
    BY <2>2, Sizes, FS_RemoveElement
  <2> QED BY <2>3, <2>4, Sizes DEF PlacesInv
<1>3. ASSUME NEW h \in Handles, OpenStep(h) \/ CloseQueue(h) \/ FlushStep(h)
      PROVE  PlacesInv'
  <2>1. queueFiles' \subseteq queueFiles
    BY <1>3 DEF OpenStep, OpenExisting, OpenFails, OpenCreateKey, OpenWriteKey,
                OpenKeyFails, CloseQueue, FlushStep, PeekList, PeekRead, PeekFails,
                BatchSent, BatchNotSent, AckRemove, AckEnds, DropBatch, Write,
                queueFiles, queueVars, QueueInv, QueueTypeOK
  <2>2. Creating' \subseteq Creating
    BY <1>3 DEF OpenStep, OpenExisting, OpenFails, OpenCreateKey, OpenWriteKey,
                OpenKeyFails, CloseQueue, FlushStep, PeekList, PeekRead, PeekFails,
                BatchSent, BatchNotSent, AckRemove, AckEnds, DropBatch, Goto,
                Creating, queueVars, QueueInv, QueueTypeOK
  <2> QED BY <2>1, <2>2, PlacesShrink
<1>4. ASSUME NEW h \in Handles, EnqueueWrite(h) \/ EnqueueSync(h) \/ EnqueueFails(h)
      PROVE  PlacesInv'
  <2>1. queueFiles' \subseteq queueFiles
    <3>1. CASE EnqueueWrite(h)
      <4>1. disk[slot[h]] = Torn /\ disk' = [disk EXCEPT ![slot[h]] = arg[h]]
        BY <3>1 DEF EnqueueWrite, Write, QueueInv, WriteInv
      <4> QED BY <4>1 DEF queueFiles, QueueInv, QueueTypeOK
    <3>2. CASE EnqueueSync(h)
      BY <3>2 DEF EnqueueSync, queueFiles
    <3>3. CASE EnqueueFails(h)
      BY <3>3 DEF EnqueueFails, Write, queueFiles, QueueInv, QueueTypeOK
    <3> QED BY <1>4, <3>1, <3>2, <3>3
  <2>2. Creating' \subseteq Creating
    BY <1>4 DEF EnqueueWrite, EnqueueSync, EnqueueFails, Goto, Creating,
                QueueInv, QueueTypeOK
  <2> QED BY <2>1, <2>2, PlacesShrink
<1>5. ASSUME NEW H \in SUBSET Handles, ProcessDies(H) PROVE PlacesInv'
  <2>1. queueFiles' \subseteq queueFiles /\ Creating' \subseteq Creating
    BY <1>5 DEF ProcessDies, Forget, queueFiles, Creating
  <2> QED BY <2>1, PlacesShrink
<1>6. CASE PowerLoss
  <2>1. queueFiles' \subseteq queueFiles
    <3> SUFFICES ASSUME NEW n \in Names, disk[n] = Absent PROVE disk'[n] = Absent
      BY DEF queueFiles
    <3>1. n \notin queueFiles
      BY DEF queueFiles
    <3> QED BY <1>6, <3>1 DEF PowerLoss
  <2>2. Creating' \subseteq Creating
    BY <1>6 DEF PowerLoss, Forget, Creating
  <2> QED BY <2>1, <2>2, PlacesShrink
<1>7. CASE UNCHANGED queueVars
  <2>1. queueFiles' \subseteq queueFiles /\ Creating' \subseteq Creating
    BY <1>7 DEF queueVars, queueFiles, Creating
  <2> QED BY <2>1, PlacesShrink
<1> QED BY <1>1, <1>2, <1>3, <1>4, <1>5, <1>6, <1>7 DEF QueueNext, EnqueueStep

(* The directory never exceeds the limit of Enqueue by more than one file  *)
(* for each further handle, although no two handles share a mutex.         *)
THEOREM QueueOverrunBounded == QueueSpec => []OverrunBounded
<1>1. QueueInit => PlacesInv
  <2> SUFFICES ASSUME QueueInit PROVE PlacesInv
    OBVIOUS
  <2>1. queueFiles = {} /\ Creating = {}
    BY DEF QueueInit, queueFiles, Creating
  <2> QED BY <2>1, FS_EmptySet, Sizes, QueueAssumption DEF PlacesInv
<1>2. QueueInv /\ PlacesInv /\ [QueueNext]_queueVars => PlacesInv'
  BY PlacesStep
<1>3. PlacesInv => OverrunBounded
  BY Sizes, QueueAssumption DEF PlacesInv, OverrunBounded
<1> QED BY <1>1, <1>2, <1>3, QueueInvHolds, PTL DEF QueueSpec

----------------------------------------------------------------------------
(* The event is in the store, or in a file that the queue must keep. *)
Queued(e) ==
    \/ e \in stored
    \/ \E n \in Names : disk[n] = e /\ standing[n] = "owed"

(* What the receiver has confirmed is in the store, also when the file was *)
(* confirmed and removed before its own Enqueue has returned.              *)
SentInv ==
    /\ \A n \in Names : standing[n] = "sent" /\ disk[n] \in Events => disk[n] \in stored
    /\ \A h \in Handles : pc[h] = "sync" /\ standing[slot[h]] = "sent" => arg[h] \in stored

(* Every change that a pending Commit will pass is queued or still to be,  *)
(* every change that a Commit has passed is queued.                        *)
PassedInv ==
    /\ at = "commit" => todo = {}
    /\ \A d \in Detectors : seen[d] # None =>
          \A c \in (baseline[d] + 1)..seen[d] :
              ChangeEvent(d, baseline[d], c) \in todo \/ Queued(ChangeEvent(d, baseline[d], c))
    /\ \A d \in Detectors : \A c \in 1..baseline[d] :
          \E g \in 0..MaxChanges : Queued(ChangeEvent(d, g, c))

(* The event is somewhere in the queue's directory or objects. *)
InQueue(e) ==
    \/ OnDisk(e)
    \/ \E h \in Handles : arg[h] = e \/ e \in held[h]

Known(e) == InQueue(e) \/ e \in stored \/ e \in todo

(* A scan sees no less than the scans before it; a change that is not      *)
(* committed is known under the generation of the baseline only.           *)
IdInv ==
    /\ \A d \in Detectors :
          /\ baseline[d] <= host[d]
          /\ seen[d] # None => baseline[d] <= seen[d] /\ seen[d] <= host[d]
    /\ \A d \in Detectors, g \in 0..MaxChanges, c \in 1..MaxChanges :
          Known(ChangeEvent(d, g, c)) =>
              /\ c <= host[d]
              /\ seen[d] # None => c <= seen[d]
              /\ c > baseline[d] => g = baseline[d]
              /\ \A k \in 0..MaxChanges : Known(ChangeEvent(d, k, c)) => k = g

DeliveryInv == QueueInv /\ DeliveryTypeOK /\ SentInv /\ PassedInv /\ IdInv

----------------------------------------------------------------------------
(* A step takes no file from the queue's care but for the store, and       *)
(* brings no events into the queue but those of S.                         *)
OwedKept ==
    \A n \in Names : standing[n] = "owed" =>
        (standing'[n] = "owed" /\ disk'[n] = disk[n]) \/ disk[n] \in stored'

NewInQueue(S) == \A e \in Events : InQueue(e)' => InQueue(e) \/ e \in S

(* What is queued stays queued over a step that keeps what it owes. *)
LEMMA QueuedStays ==
    ASSUME OwedKept, stored \subseteq stored', NEW e, Queued(e)
    PROVE  Queued(e)'
  BY DEF OwedKept, Queued

(* The operations that leave the directory as it is: opening and dropping  *)
(* the object, the capacity check, Peek, and a batch that is given up.     *)
LEMMA QuietStep ==
    ASSUME QueueInv, SentInv, stored \subseteq stored', NEW h \in Handles, NEW x \in Events,
           \/ OpenExisting(h) \/ CloseQueue(h) \/ EnqueueCheck(h, x)
           \/ PeekList(h) \/ PeekRead(h) \/ PeekFails(h) \/ BatchNotSent(h) \/ AckEnds(h)
    PROVE  SentInv' /\ OwedKept /\ NewInQueue({x}) /\ (~EnqueueCheck(h, x) => NewInQueue({}))
<1> USE QueueAssumption
<1>0. QueueTypeOK /\ BatchInv
  BY DEF QueueInv
<1>1. UNCHANGED <<disk, slot, standing>>
  BY DEF OpenExisting, CloseQueue, EnqueueCheck, PeekList, PeekRead, PeekFails, BatchNotSent,
     AckEnds, DropBatch
<1>2. OwedKept
  BY <1>1 DEF OwedKept
<1>3. /\ \A g \in Handles : pc'[g] = "sync" => pc[g] = "sync" /\ arg'[g] = arg[g]
      /\ \A g \in Handles : arg'[g] \in {arg[g], x}
      /\ ~EnqueueCheck(h, x) => \A g \in Handles : arg'[g] = arg[g]
  BY <1>0 DEF OpenExisting, CloseQueue, EnqueueCheck, PeekList, PeekRead, PeekFails,
     BatchNotSent, AckEnds, DropBatch, Goto, QueueTypeOK
<1>4. \A g \in Handles : \A e \in held'[g] : e \in held[g] \/ OnDisk(e)
  <2>1. CASE PeekRead(h)
    <3>1. held' = [held EXCEPT ![h] = {disk[n] : n \in batch[h]}] /\ batch[h] \subseteq Names
      BY <1>0, <2>1 DEF PeekRead, QueueTypeOK
    <3>2. \A e \in {disk[n] : n \in batch[h]} : OnDisk(e)
      BY <3>1 DEF OnDisk
    <3> QED BY <1>0, <3>1, <3>2 DEF QueueTypeOK
  <2>2. CASE held' = held
    BY <2>2
  <2>3. CASE held' = [held EXCEPT ![h] = {}]
    BY <1>0, <2>3 DEF QueueTypeOK
  <2> QED BY <2>1, <2>2, <2>3 DEF OpenExisting, CloseQueue, EnqueueCheck, PeekList, PeekFails,
       BatchNotSent, AckEnds, DropBatch
<1>5. SentInv'
  BY <1>1, <1>3 DEF SentInv
<1>6. \A e : OnDisk(e)' <=> OnDisk(e)
  BY <1>1 DEF OnDisk
<1>7. NewInQueue({x}) /\ (~EnqueueCheck(h, x) => NewInQueue({}))
  BY <1>3, <1>4, <1>6 DEF NewInQueue, InQueue
<1> QED BY <1>2, <1>5, <1>7

(* The file system calls of Enqueue.  They write to the handle's own file, *)
(* which nobody is owed yet.                                               *)
LEMMA WriteStep ==
    ASSUME QueueInv, SentInv, stored \subseteq stored', NEW h \in Handles,
           EnqueueCreate(h) \/ EnqueueWrite(h) \/ EnqueueSync(h) \/ EnqueueFails(h)
    PROVE  /\ SentInv' /\ OwedKept /\ NewInQueue({})
           /\ \A e \in Events : EnqueueSync(h) /\ e = arg[h] => Queued(e)'
<1> USE QueueAssumption
<1>0. QueueTypeOK /\ SlotInv /\ WriteInv /\ BatchInv /\ NothingLost
  BY DEF QueueInv
<1>1. ASSUME EnqueueCreate(h) PROVE SentInv' /\ OwedKept /\ NewInQueue({})
  <2>1. PICK n \in FreshNames :
            /\ disk' = [disk EXCEPT ![n] = Torn]
            /\ slot' = [slot EXCEPT ![h] = n]
            /\ standing' = [standing EXCEPT ![n] = "none"]
    BY <1>1 DEF EnqueueCreate, Write
  <2>2. pc[h] = "create" /\ pc' = [pc EXCEPT ![h] = "write"] /\ UNCHANGED <<arg, held>>
    BY <1>1 DEF EnqueueCreate, Goto
  <2>3. /\ n \in Names /\ disk[n] = Absent /\ standing[n] # "owed"
        /\ \A g \in Handles : slot[g] # n
    BY <1>0, <2>1 DEF FreshNames, NothingLost
  <2>4. /\ disk'[n] = Torn /\ standing'[n] = "none"
        /\ \A m \in Names : m # n => disk'[m] = disk[m] /\ standing'[m] = standing[m]
    BY <1>0, <2>1, <2>3 DEF QueueTypeOK
  <2>5. \A g \in Handles : pc'[g] = "sync" => pc[g] = "sync" /\ slot'[g] = slot[g]
    BY <1>0, <2>1, <2>2 DEF QueueTypeOK
  <2>6. SentInv'
    BY <1>0, <2>2, <2>3, <2>4, <2>5 DEF SentInv, SlotInv
  <2>7. OwedKept
    BY <2>3, <2>4 DEF OwedKept
  <2>8. NewInQueue({})
    BY <2>2, <2>4 DEF NewInQueue, InQueue, OnDisk
  <2> QED BY <2>6, <2>7, <2>8
<1>2. ASSUME EnqueueWrite(h) PROVE SentInv' /\ OwedKept /\ NewInQueue({})
  <2>1. /\ pc[h] = "write" /\ disk' = [disk EXCEPT ![slot[h]] = arg[h]]
        /\ pc' = [pc EXCEPT ![h] = "sync"] /\ UNCHANGED <<arg, slot, held, standing>>
    BY <1>2 DEF EnqueueWrite, Write, Goto
  <2>2. slot[h] \in Names /\ arg[h] \in Events /\ standing[slot[h]] = "none"
    BY <1>0, <2>1 DEF SlotInv, WriteInv
  <2>3. disk'[slot[h]] = arg[h] /\ \A m \in Names : m # slot[h] => disk'[m] = disk[m]
    BY <1>0, <2>1, <2>2 DEF QueueTypeOK
  <2>4. \A g \in Handles : g # h => pc'[g] = pc[g]
    BY <1>0, <2>1 DEF QueueTypeOK
  <2>5. SentInv'
    BY <2>1, <2>2, <2>3, <2>4 DEF SentInv
  <2>6. OwedKept
    BY <2>1, <2>2, <2>3 DEF OwedKept
  <2>7. NewInQueue({})
    BY <2>1, <2>2, <2>3 DEF NewInQueue, InQueue, OnDisk
  <2> QED BY <2>5, <2>6, <2>7
<1>3. ASSUME EnqueueSync(h)
      PROVE  /\ SentInv' /\ OwedKept /\ NewInQueue({})
             /\ \A e \in Events : e = arg[h] => Queued(e)'
  <2>1. /\ pc[h] = "sync" /\ pc' = [pc EXCEPT ![h] = "idle"]
        /\ arg' = [arg EXCEPT ![h] = Absent] /\ slot' = [slot EXCEPT ![h] = Absent]
        /\ UNCHANGED <<disk, held>>
        /\ standing' = [standing EXCEPT ![slot[h]] =
               IF standing[slot[h]] # "sent" THEN "owed"
               ELSE IF disk[slot[h]] = Absent THEN "none" ELSE "sent"]
    BY <1>3 DEF EnqueueSync, Goto
  <2>2. /\ slot[h] \in Names /\ arg[h] \in Events /\ standing[slot[h]] # "owed"
        /\ disk[slot[h]] \in {arg[h], Absent}
        /\ disk[slot[h]] = Absent => standing[slot[h]] = "sent"
        /\ \A g \in Handles : g # h => slot[g] # slot[h]
    BY <1>0, <2>1 DEF SlotInv, WriteInv
  <2>3. /\ \A m \in Names : m # slot[h] => standing'[m] = standing[m]
        /\ standing'[slot[h]] = IF standing[slot[h]] # "sent" THEN "owed"
                                ELSE IF disk[slot[h]] = Absent THEN "none" ELSE "sent"
        /\ \A g \in Handles : g # h => pc'[g] = pc[g] /\ slot'[g] = slot[g] /\ arg'[g] = arg[g]
        /\ pc'[h] = "idle" /\ arg'[h] = Absent
    BY <1>0, <2>1, <2>2 DEF QueueTypeOK
  <2>4. \A g \in Handles : pc[g] = "sync" => slot[g] \in Names
    BY <1>0 DEF SlotInv
  <2>5. SentInv'
    BY <2>1, <2>2, <2>3, <2>4 DEF SentInv
  <2>6. OwedKept
    BY <2>1, <2>2, <2>3 DEF OwedKept
  <2>7. NewInQueue({})
    BY <2>1, <2>3 DEF NewInQueue, InQueue, OnDisk
  <2>8. ASSUME NEW e \in Events, e = arg[h] PROVE Queued(e)'
    <3>1. CASE standing[slot[h]] = "sent"
      BY <2>1, <2>8, <3>1 DEF SentInv, Queued
    <3>2. CASE standing[slot[h]] # "sent"
      <4>1. disk'[slot[h]] = e /\ standing'[slot[h]] = "owed"
        BY <2>1, <2>2, <2>3, <2>8, <3>2
      <4> QED BY <2>2, <4>1 DEF Queued
    <3> QED BY <3>1, <3>2
  <2> QED BY <2>5, <2>6, <2>7, <2>8
<1>4. ASSUME EnqueueFails(h) PROVE SentInv' /\ OwedKept /\ NewInQueue({})
  <2>1. /\ pc[h] \in {"create", "write", "sync"} /\ pc' = [pc EXCEPT ![h] = "idle"]
        /\ arg' = [arg EXCEPT ![h] = Absent] /\ slot' = [slot EXCEPT ![h] = Absent]
        /\ UNCHANGED held
        /\ standing' = [n \in Names |-> IF n = slot[h] THEN "none" ELSE standing[n]]
    BY <1>4 DEF EnqueueFails, Goto
  <2>2. \A n \in Names : disk'[n] \in {disk[n], Absent} /\ (n # slot[h] => disk'[n] = disk[n])
    BY <1>0, <1>4 DEF EnqueueFails, Write, QueueTypeOK
  <2>3. slot[h] \in Names => standing[slot[h]] # "owed"
    BY <1>0, <2>1 DEF SlotInv, WriteInv
  <2>4. /\ \A g \in Handles : g # h => pc'[g] = pc[g] /\ slot'[g] = slot[g] /\ arg'[g] = arg[g]
        /\ pc'[h] = "idle" /\ arg'[h] = Absent
    BY <1>0, <2>1 DEF QueueTypeOK
  <2>5. \A g \in Handles : pc[g] = "sync" => slot[g] \in Names
    BY <1>0 DEF SlotInv
  <2>6. SentInv'
    BY <2>1, <2>2, <2>4, <2>5 DEF SentInv
  <2>7. OwedKept
    BY <2>1, <2>2, <2>3 DEF OwedKept
  <2>8. NewInQueue({})
    BY <2>1, <2>2, <2>4 DEF NewInQueue, InQueue, OnDisk
  <2> QED BY <2>6, <2>7, <2>8
<1> QED BY <1>1, <1>2, <1>3, <1>4

(* SendEvents has confirmed the batch: it is in the store.  A file of the  *)
(* batch whose Enqueue has not returned is in it as well.                  *)
LEMMA SentStep ==
    ASSUME QueueInv, SentInv, NEW h \in Handles, BatchSent(h),
           stored \subseteq stored', held[h] \subseteq stored'
    PROVE  SentInv' /\ OwedKept /\ NewInQueue({})
<1> USE QueueAssumption
<1>0. QueueTypeOK /\ SlotInv /\ WriteInv /\ BatchInv /\ NothingLost
  BY DEF QueueInv
<1>1. /\ pc[h] = "held" /\ pc' = [pc EXCEPT ![h] = "ack"]
      /\ standing' = [n \in Names |-> IF n \in batch[h] THEN "sent" ELSE standing[n]]
      /\ UNCHANGED <<disk, arg, slot, batch, held>>
  BY DEF BatchSent, Goto
<1>2. \A n \in batch[h] : disk[n] \in held[h] \cup {Absent}
  BY <1>0, <1>1 DEF BatchInv
<1>3. \A g \in Handles : pc'[g] = "sync" => pc[g] = "sync" /\ slot[g] \in Names
  BY <1>0, <1>1 DEF QueueTypeOK, SlotInv
<1>4. ASSUME NEW n \in Names, standing'[n] = "sent", disk'[n] \in Events PROVE disk'[n] \in stored'
  BY <1>1, <1>2, <1>4 DEF SentInv
<1>5. ASSUME NEW g \in Handles, pc'[g] = "sync", standing'[slot'[g]] = "sent"
      PROVE  arg'[g] \in stored'
  <2>1. /\ pc[g] = "sync" /\ slot[g] \in Names /\ disk[slot[g]] \in {arg[g], Absent}
        /\ disk[slot[g]] = Absent => standing[slot[g]] = "sent"
    BY <1>0, <1>3, <1>5 DEF WriteInv
  <2>2. CASE standing[slot[g]] = "sent"
    BY <1>1, <2>1, <2>2 DEF SentInv
  <2>3. CASE standing[slot[g]] # "sent"
    <3>1. slot[g] \in batch[h] /\ disk[slot[g]] = arg[g] /\ arg[g] # Absent
      BY <1>0, <1>1, <1>5, <2>1, <2>3 DEF SlotInv
    <3> QED BY <1>1, <1>2, <3>1
  <2> QED BY <2>2, <2>3
<1>6. SentInv'
  BY <1>4, <1>5 DEF SentInv
<1>7. OwedKept
  BY <1>0, <1>1, <1>2 DEF OwedKept, NothingLost
<1>8. NewInQueue({})
  BY <1>1 DEF NewInQueue, InQueue, OnDisk
<1> QED BY <1>6, <1>7, <1>8

(* Ack removes a file that was confirmed. *)
LEMMA AckStep ==
    ASSUME QueueInv, SentInv, NEW h \in Handles, AckRemove(h), stored \subseteq stored'
    PROVE  SentInv' /\ OwedKept /\ NewInQueue({})
<1> USE QueueAssumption
<1>0. QueueTypeOK /\ SlotInv /\ WriteInv /\ BatchInv
  BY DEF QueueInv
<1>1. PICK n \in batch[h] :
          /\ disk' = [disk EXCEPT ![n] = Absent]
          /\ standing' = [standing EXCEPT ![n] =
                 IF @ = "sent" /\ \A g \in Handles : slot[g] # n THEN "none" ELSE @]
  BY DEF AckRemove, Write
<1>2. pc[h] = "ack" /\ UNCHANGED <<pc, arg, slot, held>>
  BY DEF AckRemove
<1>3. n \in Names /\ standing[n] # "owed"
  BY <1>0, <1>1, <1>2 DEF QueueTypeOK, BatchInv
<1>4. /\ \A m \in Names : m # n => disk'[m] = disk[m] /\ standing'[m] = standing[m]
      /\ disk'[n] = Absent /\ standing'[n] \in {standing[n], "none"}
  BY <1>0, <1>1, <1>3 DEF QueueTypeOK
<1>5. \A g \in Handles : pc[g] = "sync" => slot[g] \in Names
  BY <1>0 DEF SlotInv
<1>6. SentInv'
  BY <1>2, <1>4, <1>5 DEF SentInv
<1>7. OwedKept
  BY <1>3, <1>4 DEF OwedKept
<1>8. NewInQueue({})
  BY <1>2, <1>4 DEF NewInQueue, InQueue, OnDisk
<1> QED BY <1>6, <1>7, <1>8

(* A crash or a power loss spares every file that is owed. *)
LEMMA CrashStep ==
    ASSUME QueueInv, SentInv, ProcessDies(Handles) \/ PowerLoss, stored \subseteq stored'
    PROVE  SentInv' /\ OwedKept /\ NewInQueue({})
<1> USE QueueAssumption
<1>0. QueueTypeOK /\ SlotInv /\ WriteInv
  BY DEF QueueInv
<1>1. Forget(Handles)
  BY DEF ProcessDies, PowerLoss
<1>2. /\ \A h \in Handles : pc'[h] = "closed" /\ arg'[h] = Absent /\ held'[h] = {}
      /\ \A n \in Names : standing'[n] = IF \E h \in Handles : slot[h] = n
                                         THEN "none" ELSE standing[n]
  BY <1>1 DEF Forget
<1>3. \A n \in Names :
        /\ disk'[n] \in {disk[n], Absent, Torn}
        /\ standing[n] # "none" /\ (\A h \in Handles : slot[h] # n) => disk'[n] = disk[n]
  <2>1. CASE ProcessDies(Handles)
    BY <2>1 DEF ProcessDies
  <2>2. CASE PowerLoss
    <3> DEFINE unsynced == {n \in queueFiles : \/ standing[n] = "none"
                                               \/ \E h \in Handles : slot[h] = n}
    <3>1. PICK gone \in SUBSET unsynced, torn \in SUBSET unsynced :
              disk' = [n \in Names |-> IF n \in gone THEN Absent
                                       ELSE IF n \in torn THEN Torn ELSE disk[n]]
      BY <2>2 DEF PowerLoss
    <3> QED BY <3>1
  <2> QED BY <2>1, <2>2
<1>4. \A n \in Names : standing[n] = "owed" => \A h \in Handles : slot[h] # n
  BY <1>0 DEF SlotInv, WriteInv
<1>5. SentInv'
  BY <1>2, <1>3 DEF SentInv
<1>6. OwedKept
  BY <1>2, <1>3, <1>4 DEF OwedKept
<1>7. NewInQueue({})
  BY <1>2, <1>3 DEF NewInQueue, InQueue, OnDisk
<1> QED BY <1>5, <1>6, <1>7

----------------------------------------------------------------------------
(* The events of the Agent are events of its queue. *)
LEMMA AgentEventType ==
    /\ ScanEvent \in Events
    /\ \A d \in Detectors : ErrorEvent(d) \in Events
    /\ \A g \in GatewayEvents : FeedEvent(g) \in Events
    /\ \A d \in Detectors, g \in 0..MaxChanges, c \in 1..MaxChanges : ChangeEvent(d, g, c) \in Events
  BY DeliveryAssumption DEF AgentEvents

(* The report of a change is told apart from every other event. *)
LEMMA ChangeEventDistinct ==
    ASSUME NEW d \in Detectors, NEW g, NEW c \in Nat \ {0}
    PROVE  /\ ChangeEvent(d, g, c) # ScanEvent
           /\ \A x \in Detectors : ChangeEvent(d, g, c) # ErrorEvent(x)
           /\ \A x \in GatewayEvents : ChangeEvent(d, g, c) # FeedEvent(x)
           /\ \A x, k, b : ChangeEvent(d, g, c) = ChangeEvent(x, k, b) => x = d /\ k = g /\ b = c
<1>1. \A x, k, b : ChangeEvent(d, g, c) = ChangeEvent(x, k, b) => x = d /\ k = g /\ b = c
  BY DEF ChangeEvent
<1>2. ChangeEvent(d, g, c).change = c /\ ChangeEvent(d, g, c).src = d
  BY DEF ChangeEvent
<1>3. \A x : ScanEvent.change = 0 /\ ErrorEvent(x).change = 0 /\ FeedEvent(x).src = x
  BY DEF ScanEvent, ErrorEvent, FeedEvent
<1>4. \A x \in GatewayEvents : x # d
  BY DeliveryAssumption
<1> QED BY <1>1, <1>2, <1>3, <1>4

----------------------------------------------------------------------------
(* What a step of the Agent does to the queue and to the store: nothing    *)
(* owed is dropped, the store only grows, by what the queue holds, and     *)
(* only what runCycle has observed or the feed has read is put in.         *)
QueueView ==
    /\ SentInv' /\ OwedKept /\ stored \subseteq stored'
    /\ \A e \in stored' : e \in stored \/ InQueue(e)
    /\ \A e \in Events : InQueue(e)' =>
          InQueue(e) \/ e \in todo \/ \E g \in GatewayEvents : e = FeedEvent(g)

(* The steps that use no operation of the queue. *)
LEMMA QueueUntouched ==
    ASSUME SentInv, UNCHANGED queueVars, UNCHANGED stored
    PROVE  QueueView
  BY DEF queueVars, SentInv, QueueView, OwedKept, InQueue, OnDisk

(* The steps that use one and leave the store as it is. *)
LEMMA QueueUsed ==
    ASSUME SentInv', OwedKept, NewInQueue({}), UNCHANGED stored
    PROVE  QueueView
  BY DEF QueueView, NewInQueue

(* Every step of the Agent is a step of its queue, or leaves it alone. *)
LEMMA AgentUsesQueue ==
    ASSUME DeliveryTypeOK, Next
    PROVE  QueueNext \/ UNCHANGED queueVars
<1>0. cycle \in Handles /\ feed \in Handles /\ Handles \in SUBSET Handles
  BY DeliveryAssumption
<1>1. CASE Start
  BY <1>0, <1>1 DEF Start, QueueNext, OpenStep
<1>2. CASE CycleStep
  <2>1. CASE BeginCycle
    BY <1>0, <2>1 DEF BeginCycle, QueueNext, OpenStep
  <2>2. CASE EnqueueObserved \/ Enqueued \/ EnqueueWrites(cycle)
    <3>1. \A e \in todo : e \in Events
      BY DEF DeliveryTypeOK
    <3> QED
      BY <1>0, <2>2, <3>1 DEF EnqueueObserved, Enqueued, EnqueueWrites, QueueNext, EnqueueStep
  <2>3. CASE Flush \/ PeekError \/ SendEvents \/ SendRefused \/ SendError \/ Acked
    BY <1>0, <2>3 DEF Flush, PeekError, SendEvents, SendRefused, SendError, Acked,
       QueueNext, FlushStep
  <2>4. CASE EndCycle
    BY <1>0, <2>4 DEF EndCycle, QueueNext
  <2>5. CASE \/ EnqueueRefused \/ AllQueued \/ (\E d \in Detectors : Commit(d)) \/ AllCommitted
             \/ LinkUp \/ LinkDown \/ QueueEmpty
    BY <2>5 DEF EnqueueRefused, AllQueued, Commit, AllCommitted, LinkUp, LinkDown, QueueEmpty
  <2> QED BY <1>2, <2>1, <2>2, <2>3, <2>4, <2>5 DEF CycleStep
<1>3. CASE FeedStep
  BY <1>0, <1>3 DEF FeedStep, EnqueueWrites, FeedQueued, QueueNext, EnqueueStep
<1>4. CASE RunReturns
  BY <1>0, <1>4 DEF RunReturns, QueueNext
<1>5. CASE FaultStep
  BY <1>0, <1>5 DEF FaultStep, EnqueueError, CommitError, AckError, FeedError, Crash,
     QueueNext, EnqueueStep, FlushStep
<1>6. CASE EnvStep
  <2>1. ASSUME NEW g \in GatewayEvents, FeedReceive(g) PROVE QueueNext \/ UNCHANGED queueVars
    BY <1>0, <2>1, AgentEventType DEF FeedReceive, QueueNext, EnqueueStep
  <2> QED BY <1>6, <2>1 DEF EnvStep, HostChange, ControlToggles, ClockCatchesUp
<1> QED BY <1>1, <1>2, <1>3, <1>4, <1>5, <1>6 DEF Next

(* The view of the queue, for every step of the Agent. *)
LEMMA AgentQueueView ==
    ASSUME DeliveryInv, Next
    PROVE  QueueView
<1> USE DeliveryAssumption, AgentEventType
<1>0. /\ QueueInv /\ SentInv /\ DeliveryTypeOK /\ cycle \in Handles /\ feed \in Handles
      /\ todo \subseteq Events /\ ScanEvent \in Events
  BY DEF DeliveryInv, DeliveryTypeOK
<1>1. CASE Start \/ BeginCycle \/ EndCycle
  <2>1. UNCHANGED stored
    BY <1>1 DEF Start, BeginCycle, EndCycle, controlVars
  <2>2. OpenExisting(feed) \/ OpenExisting(cycle) \/ CloseQueue(cycle)
    BY <1>1 DEF Start, BeginCycle, EndCycle
  <2>3. ASSUME NEW h \in Handles, OpenExisting(h) \/ CloseQueue(h)
        PROVE  SentInv' /\ OwedKept /\ NewInQueue({})
    <3>1. ~EnqueueCheck(h, ScanEvent)
      BY <1>0, <2>3 DEF OpenExisting, CloseQueue, EnqueueCheck, Goto, QueueInv, QueueTypeOK
    <3> QED BY <1>0, <2>1, <2>3, <3>1, QuietStep
  <2> QED BY <1>0, <2>1, <2>2, <2>3, QueueUsed
<1>2. CASE EnqueueObserved
  <2>1. PICK e \in todo : EnqueueCheck(cycle, e)
    BY <1>2 DEF EnqueueObserved
  <2>2. UNCHANGED stored
    BY <1>2 DEF EnqueueObserved, controlVars
  <2>3. SentInv' /\ OwedKept /\ NewInQueue({e})
    BY <1>0, <2>1, <2>2, QuietStep
  <2> QED BY <2>1, <2>2, <2>3 DEF QueueView, NewInQueue
<1>3. ASSUME NEW g \in GatewayEvents, FeedReceive(g) PROVE QueueView
  <2>1. UNCHANGED stored
    BY <1>3 DEF FeedReceive
  <2>2. CASE EnqueueCheck(feed, FeedEvent(g))
    <3>1. SentInv' /\ OwedKept /\ NewInQueue({FeedEvent(g)})
      BY <1>0, <2>1, <2>2, QuietStep
    <3> QED BY <2>1, <3>1 DEF QueueView, NewInQueue
  <2>3. CASE UNCHANGED queueVars
    BY <1>0, <2>1, <2>3, QueueUntouched
  <2> QED BY <1>3, <2>2, <2>3 DEF FeedReceive
<1>4. ASSUME NEW h \in Handles,
             EnqueueCreate(h) \/ EnqueueWrite(h) \/ EnqueueSync(h) \/ EnqueueFails(h),
             UNCHANGED stored
      PROVE  QueueView
  BY <1>0, <1>4, WriteStep, QueueUsed
<1>5. CASE Enqueued \/ EnqueueError \/ FeedQueued \/ FeedError
  BY <1>0, <1>4, <1>5 DEF Enqueued, EnqueueError, FeedQueued, FeedError, controlVars
<1>6. CASE EnqueueWrites(cycle) \/ EnqueueWrites(feed)
  BY <1>0, <1>4, <1>6 DEF EnqueueWrites, controlVars
<1>7. ASSUME PeekList(cycle) \/ PeekRead(cycle) \/ PeekFails(cycle)
             \/ BatchNotSent(cycle) \/ AckEnds(cycle),
             stored \subseteq stored', \A e \in stored' : e \in stored \/ InQueue(e)
      PROVE  QueueView
  <2>1. ~EnqueueCheck(cycle, ScanEvent)
    BY <1>0, <1>7 DEF PeekList, PeekRead, PeekFails, BatchNotSent, AckEnds, DropBatch,
       EnqueueCheck, Goto, QueueInv, QueueTypeOK
  <2>2. SentInv' /\ OwedKept /\ NewInQueue({})
    BY <1>0, <1>7, <2>1, QuietStep
  <2> QED BY <1>7, <2>2 DEF QueueView, NewInQueue
<1>8. CASE Flush
  <2>1. UNCHANGED stored
    BY <1>8 DEF Flush, controlVars
  <2>2. CASE AckRemove(cycle)
    BY <1>0, <2>1, <2>2, AckStep, QueueUsed
  <2> QED BY <1>7, <1>8, <2>1, <2>2 DEF Flush
<1>9. CASE PeekError \/ SendRefused \/ SendError \/ Acked \/ AckError
  <2>1. stored \subseteq stored' /\ \A e \in stored' : e \in stored \/ InQueue(e)
    BY <1>0, <1>9 DEF PeekError, SendRefused, SendError, Acked, AckError, controlVars, InQueue
  <2> QED BY <1>7, <1>9, <2>1 DEF PeekError, SendRefused, SendError, Acked, AckError
<1>10. CASE SendEvents
  <2>1. BatchSent(cycle) /\ stored' = stored \cup held[cycle]
    BY <1>10 DEF SendEvents
  <2>2. SentInv' /\ OwedKept /\ NewInQueue({})
    BY <1>0, <2>1, SentStep
  <2>3. \A e \in stored' : e \in stored \/ InQueue(e)
    BY <1>0, <2>1 DEF InQueue
  <2> QED BY <2>1, <2>2, <2>3 DEF QueueView, NewInQueue
<1>11. CASE RunReturns \/ Crash
  <2>1. UNCHANGED stored /\ (ProcessDies(Handles) \/ PowerLoss)
    BY <1>11 DEF RunReturns, Crash, Stopped, controlVars
  <2> QED BY <1>0, <2>1, CrashStep, QueueUsed
<1>12. CASE \/ EnqueueRefused \/ AllQueued \/ (\E d \in Detectors : Commit(d)) \/ AllCommitted
            \/ LinkUp \/ LinkDown \/ QueueEmpty \/ CommitError
            \/ (\E d \in Detectors : HostChange(d)) \/ ControlToggles \/ ClockCatchesUp
  <2>1. UNCHANGED queueVars /\ UNCHANGED stored
    BY <1>12 DEF EnqueueRefused, AllQueued, Commit, AllCommitted, LinkUp, LinkDown, QueueEmpty,
       CommitError, HostChange, ControlToggles, ClockCatchesUp, controlVars
  <2> QED BY <1>0, <2>1, QueueUntouched
<1> QED BY <1>1, <1>2, <1>3, <1>5, <1>6, <1>8, <1>9, <1>10, <1>11, <1>12
     DEF Next, CycleStep, FeedStep, FaultStep, EnvStep

----------------------------------------------------------------------------
(* What a scan leaves to be queued: the changes since the baseline, under  *)
(* the generation of the baseline, and events that report no change.       *)
LEMMA ScanShape ==
    ASSUME DeliveryTypeOK, BeginCycle
    PROVE  \E ok \in SUBSET Detectors :
              /\ seen' = [d \in Detectors |-> IF d \in ok THEN host[d] ELSE None]
              /\ \A e \in todo' :
                    \/ e = ScanEvent \/ \E d \in Detectors : e = ErrorEvent(d)
                    \/ \E d \in ok : \E c \in (baseline[d] + 1)..host[d] :
                          e = ChangeEvent(d, baseline[d], c)
              /\ \A d \in ok : \A c \in (baseline[d] + 1)..host[d] :
                    ChangeEvent(d, baseline[d], c) \in todo'
<1> DEFINE S(X) == [d \in Detectors |-> IF d \in X THEN host[d] ELSE None]
<1>0. PICK ok \in SUBSET Detectors, err \in SUBSET Detectors :
          /\ seen' = S(ok)
          /\ todo' = {ScanEvent} \cup {ErrorEvent(d) : d \in err}
                     \cup UNION {Observed(d, S(ok)) : d \in ok}
  BY Zenon DEF BeginCycle
<1> DEFINE s == S(ok)
<1>1. /\ seen' = s /\ s = [d \in Detectors |-> IF d \in ok THEN host[d] ELSE None]
      /\ todo' = {ScanEvent} \cup {ErrorEvent(d) : d \in err}
                 \cup UNION {Observed(d, s) : d \in ok}
  BY <1>0
<1> HIDE DEF s
<1>2. \A d \in ok : Observed(d, s) =
          {ChangeEvent(d, baseline[d], c) : c \in (baseline[d] + 1)..host[d]}
  BY <1>1 DEF Observed
<1>3. ASSUME NEW d \in ok, NEW c \in (baseline[d] + 1)..host[d]
      PROVE  ChangeEvent(d, baseline[d], c) \in todo'
  BY <1>1, <1>2
<1>4. ASSUME NEW e \in todo', e # ScanEvent, \A d \in Detectors : e # ErrorEvent(d)
      PROVE  \E d \in ok : \E c \in (baseline[d] + 1)..host[d] : e = ChangeEvent(d, baseline[d], c)
  <2>1. PICK d \in ok : e \in Observed(d, s)
    BY <1>1, <1>4
  <2> QED BY <1>2, <2>1
<1> QED BY <1>1, <1>3, <1>4

(* The type, for every step of the Agent. *)
LEMMA AgentTypeStep ==
    ASSUME DeliveryTypeOK, QueueTypeOK', Next
    PROVE  DeliveryTypeOK'
<1> USE DeliveryAssumption, AgentEventType
<1>0. /\ cycle \in Handles /\ at \in CyclePC /\ todo \in SUBSET Events
      /\ seen \in [Detectors -> 0..MaxChanges \cup {None}]
      /\ baseline \in [Detectors -> 0..MaxChanges] /\ host \in [Detectors -> 0..MaxChanges]
      /\ arrived \in SUBSET GatewayEvents /\ stored \in SUBSET Events /\ refused \in SUBSET Events
      /\ faults \in 0..MaxFaults /\ held[cycle] \subseteq Events
  BY DEF DeliveryTypeOK, QueueTypeOK
<1>1. /\ feedErr' \in {feedErr, TRUE, FALSE} /\ online' \in {online, ~online}
      /\ stored' \in {stored, stored \cup held[cycle]}
      /\ faults' = faults \/ Fault
      /\ (\E g \in GatewayEvents : FeedReceive(g)) \/ (UNCHANGED arrived /\ refused' \in {refused, {}})
  BY DEF Next, CycleStep, FeedStep, FaultStep, EnvStep, Start, BeginCycle, EnqueueObserved,
     EnqueueRefused, EnqueueWrites, Enqueued, EnqueueError, AllQueued, Commit, CommitError,
     AllCommitted, LinkUp, LinkDown, Flush, PeekError, SendEvents, SendRefused, SendError,
     Acked, AckError, QueueEmpty, EndCycle, FeedReceive, FeedQueued, FeedError, RunReturns,
     Crash, Stopped, HostChange, ControlToggles, ClockCatchesUp, feedVars, controlVars
<1>2. feedErr' \in BOOLEAN /\ online' \in BOOLEAN
  <2>1. feedErr \in BOOLEAN /\ online \in BOOLEAN
    BY DEF DeliveryTypeOK
  <2> QED BY <1>1, <2>1
<1>3. /\ stored' \in SUBSET Events /\ refused' \in SUBSET Events
      /\ arrived' \in SUBSET GatewayEvents /\ faults' \in 0..MaxFaults
  <2>1. ASSUME NEW g \in GatewayEvents, FeedReceive(g)
        PROVE  refused' \in SUBSET Events /\ arrived' \in SUBSET GatewayEvents
    BY <1>0, <2>1 DEF FeedReceive
  <2> QED BY <1>0, <1>1, <2>1 DEF Fault
<1>4. /\ at' \in CyclePC /\ todo' \in SUBSET Events
      /\ seen' \in [Detectors -> 0..MaxChanges \cup {None}]
      /\ baseline' \in [Detectors -> 0..MaxChanges] /\ host' \in [Detectors -> 0..MaxChanges]
  <2>1. CASE BeginCycle
    <3>1. PICK ok \in SUBSET Detectors :
              /\ seen' = [d \in Detectors |-> IF d \in ok THEN host[d] ELSE None]
              /\ \A e \in todo' :
                    \/ e = ScanEvent \/ \E d \in Detectors : e = ErrorEvent(d)
                    \/ \E d \in ok : \E c \in (baseline[d] + 1)..host[d] :
                          e = ChangeEvent(d, baseline[d], c)
      BY <2>1, ScanShape
    <3>2. \A d \in ok : baseline[d] \in 0..MaxChanges /\ host[d] \in 0..MaxChanges
      BY <1>0
    <3>3. \A d \in ok : (baseline[d] + 1)..host[d] \subseteq 1..MaxChanges
      BY <3>2
    <3>4. todo' \in SUBSET Events
      BY <3>1, <3>2, <3>3
    <3>5. at' = "enqueue" /\ UNCHANGED <<baseline, host>>
      BY <2>1 DEF BeginCycle, hostVars
    <3> QED BY <1>0, <3>1, <3>4, <3>5 DEF CyclePC
  <2>2. ASSUME NEW d \in Detectors, Commit(d) PROVE <1>4!:
    BY <1>0, <2>2 DEF Commit
  <2>3. ASSUME NEW d \in Detectors, HostChange(d) PROVE <1>4!:
    BY <1>0, <2>3 DEF HostChange, cycleVars
  <2>4. CASE \/ Start \/ EnqueueObserved \/ EnqueueWrites(cycle) \/ EnqueueWrites(feed) \/ Flush
             \/ SendEvents \/ Acked \/ FeedQueued \/ FeedError \/ ControlToggles
             \/ ClockCatchesUp \/ \E g \in GatewayEvents : FeedReceive(g)
    BY <1>0, <2>4 DEF Start, EnqueueObserved, EnqueueWrites, Flush, SendEvents, Acked,
       FeedQueued, FeedError, ControlToggles, ClockCatchesUp, FeedReceive, cycleVars, hostVars
  <2>5. CASE Enqueued \/ AllQueued \/ AllCommitted \/ LinkUp \/ EndCycle
    BY <1>0, <2>5 DEF Enqueued, AllQueued, AllCommitted, LinkUp, EndCycle, CyclePC, hostVars
  <2>6. CASE \/ EnqueueRefused \/ EnqueueError \/ CommitError \/ LinkDown \/ PeekError
             \/ SendRefused \/ SendError \/ AckError \/ QueueEmpty \/ RunReturns \/ Crash
    BY <1>0, <2>6 DEF EnqueueRefused, EnqueueError, CommitError, LinkDown, PeekError,
       SendRefused, SendError, AckError, QueueEmpty, RunReturns, Crash, Return, Stopped,
       CyclePC, hostVars
  <2> QED BY <2>1, <2>2, <2>3, <2>4, <2>5, <2>6
       DEF Next, CycleStep, FeedStep, FaultStep, EnvStep
<1> QED BY <1>2, <1>3, <1>4 DEF DeliveryTypeOK

----------------------------------------------------------------------------
(* The steps other than a scan and a Commit: the baselines stay, the host  *)
(* only moves on, and an event leaves todo when it is queued or when what  *)
(* was scanned is forgotten.                                               *)
Settled ==
    /\ baseline' = baseline /\ todo' \subseteq todo
    /\ \A d \in Detectors : host[d] <= host'[d] /\ seen'[d] \in {seen[d], None}
    /\ \A e \in todo : e \in todo' \/ Queued(e)' \/ \A d \in Detectors : seen'[d] = None
    /\ at' = "commit" => todo' = {}

(* A step makes no report of a change known but those it adds to todo. *)
LEMMA KnownStays ==
    ASSUME QueueView, NEW d \in Detectors, NEW g \in 0..MaxChanges, NEW c \in 1..MaxChanges,
           Known(ChangeEvent(d, g, c))'
    PROVE  Known(ChangeEvent(d, g, c)) \/ ChangeEvent(d, g, c) \in todo'
<1>1. ChangeEvent(d, g, c) \in Events /\ \A x \in GatewayEvents : ChangeEvent(d, g, c) # FeedEvent(x)
  BY AgentEventType, ChangeEventDistinct, DeliveryAssumption
<1>2. InQueue(ChangeEvent(d, g, c))' \/ ChangeEvent(d, g, c) \in stored' \cup todo'
  BY DEF Known
<1> QED BY <1>1, <1>2 DEF QueueView, Known

LEMMA SettledStep ==
    ASSUME DeliveryInv, DeliveryTypeOK', QueueView, Settled
    PROVE  PassedInv' /\ IdInv'
<1> USE DeliveryAssumption
<1>0. PassedInv /\ IdInv /\ DeliveryTypeOK /\ OwedKept /\ stored \subseteq stored'
  BY DEF DeliveryInv, QueueView
<1>1. \A e : Queued(e) => Queued(e)'
  BY <1>0, QueuedStays
<1>2. PassedInv'
  BY <1>0, <1>1 DEF Settled, PassedInv
<1>3. \A d \in Detectors : /\ host[d] \in Nat /\ host'[d] \in Nat /\ baseline[d] \in Nat
                           /\ seen[d] # None => seen[d] \in Nat
  BY <1>0 DEF DeliveryTypeOK
<1>4. \A d \in Detectors, g \in 0..MaxChanges, c \in 1..MaxChanges :
          Known(ChangeEvent(d, g, c))' => Known(ChangeEvent(d, g, c))
  BY KnownStays DEF Settled, Known
<1>5. IdInv'
  BY <1>0, <1>3, <1>4 DEF Settled, IdInv
<1> QED BY <1>2, <1>5

(* A scan: what it observes has the generation of the baseline, as every   *)
(* report of the same change that is known already has.                    *)
LEMMA ScanStep ==
    ASSUME DeliveryInv, DeliveryTypeOK', QueueView, BeginCycle
    PROVE  PassedInv' /\ IdInv'
<1> USE DeliveryAssumption
<1>0. PassedInv /\ IdInv /\ DeliveryTypeOK /\ OwedKept /\ stored \subseteq stored'
  BY DEF DeliveryInv, QueueView
<1>1. UNCHANGED <<baseline, host>> /\ at' = "enqueue"
  BY DEF BeginCycle, hostVars
<1>2. PICK ok \in SUBSET Detectors :
          /\ seen' = [d \in Detectors |-> IF d \in ok THEN host[d] ELSE None]
          /\ \A e \in todo' :
                \/ e = ScanEvent \/ \E d \in Detectors : e = ErrorEvent(d)
                \/ \E d \in ok : \E c \in (baseline[d] + 1)..host[d] :
                      e = ChangeEvent(d, baseline[d], c)
          /\ \A d \in ok : \A c \in (baseline[d] + 1)..host[d] :
                ChangeEvent(d, baseline[d], c) \in todo'
  BY <1>0, ScanShape
<1>3. \A d \in Detectors : host[d] \in Nat /\ baseline[d] \in Nat /\ host[d] # None
  BY <1>0 DEF DeliveryTypeOK
<1>4. \A e : Queued(e) => Queued(e)'
  BY <1>0, QueuedStays
<1>5. PassedInv'
  BY <1>0, <1>1, <1>2, <1>4 DEF PassedInv
<1>6. ASSUME NEW d \in Detectors, NEW g \in 0..MaxChanges, NEW c \in 1..MaxChanges,
             ChangeEvent(d, g, c) \in todo'
      PROVE  g = baseline[d] /\ c <= host[d]
  <2>1. PICK x \in ok : \E b \in (baseline[x] + 1)..host[x] :
            ChangeEvent(d, g, c) = ChangeEvent(x, baseline[x], b)
    BY <1>2, <1>6, ChangeEventDistinct
  <2>2. PICK b \in (baseline[x] + 1)..host[x] : ChangeEvent(d, g, c) = ChangeEvent(x, baseline[x], b)
    BY <2>1
  <2>3. x = d /\ baseline[x] = g /\ b = c
    BY <2>2, ChangeEventDistinct
  <2> QED BY <1>3, <2>2, <2>3
<1>7. \A d \in Detectors, g \in 0..MaxChanges, c \in 1..MaxChanges :
          Known(ChangeEvent(d, g, c))' =>
              /\ Known(ChangeEvent(d, g, c)) \/ (g = baseline[d] /\ c <= host[d])
              /\ c <= host[d] /\ (c > baseline[d] => g = baseline[d])
  BY <1>0, <1>6, KnownStays DEF IdInv
<1>8. ASSUME NEW d \in Detectors, NEW c \in 1..MaxChanges,
             NEW g \in 0..MaxChanges, Known(ChangeEvent(d, g, c))',
             NEW k \in 0..MaxChanges, Known(ChangeEvent(d, k, c))'
      PROVE  k = g
  <2>1. CASE c > baseline[d]
    BY <1>7, <1>8, <2>1
  <2>2. CASE ~(c > baseline[d])
    <3>1. Known(ChangeEvent(d, g, c)) /\ Known(ChangeEvent(d, k, c))
      <4>1. \A x \in 0..MaxChanges : ChangeEvent(d, x, c) \notin todo'
        <5> SUFFICES ASSUME NEW x \in 0..MaxChanges, ChangeEvent(d, x, c) \in todo' PROVE FALSE
          OBVIOUS
        <5>1. PICK y \in ok : \E b \in (baseline[y] + 1)..host[y] :
                  ChangeEvent(d, x, c) = ChangeEvent(y, baseline[y], b)
          BY <1>2, ChangeEventDistinct
        <5>2. PICK b \in (baseline[y] + 1)..host[y] :
                  ChangeEvent(d, x, c) = ChangeEvent(y, baseline[y], b)
          BY <5>1
        <5>3. y = d /\ b = c
          BY <5>2, ChangeEventDistinct
        <5> QED BY <1>3, <2>2, <5>2, <5>3
      <4> QED BY <1>8, <4>1, KnownStays
    <3> QED BY <1>0, <3>1 DEF IdInv
  <2> QED BY <2>1, <2>2
<1>9. IdInv'
  BY <1>0, <1>1, <1>2, <1>3, <1>7, <1>8 DEF IdInv
<1> QED BY <1>5, <1>9

(* A Commit passes what is queued, as todo is empty. *)
LEMMA CommitStep ==
    ASSUME DeliveryInv, NEW d \in Detectors, Commit(d)
    PROVE  PassedInv' /\ IdInv'
<1> USE DeliveryAssumption
<1>0. PassedInv /\ IdInv /\ DeliveryTypeOK
  BY DEF DeliveryInv
<1>1. /\ seen[d] # None /\ todo = {} /\ UNCHANGED <<queueVars, at, todo, host, stored>>
      /\ baseline' = [baseline EXCEPT ![d] = seen[d]] /\ seen' = [seen EXCEPT ![d] = None]
  BY <1>0 DEF Commit, PassedInv, controlVars
<1>2. /\ \A x \in Detectors : /\ host[x] \in Nat /\ baseline[x] \in 0..MaxChanges
                              /\ seen[x] # None => seen[x] \in 0..MaxChanges
      /\ baseline'[d] = seen[d] /\ seen'[d] = None
      /\ \A x \in Detectors : x # d => baseline'[x] = baseline[x] /\ seen'[x] = seen[x]
  BY <1>0, <1>1 DEF DeliveryTypeOK
<1>3. \A e : (Queued(e)' <=> Queued(e)) /\ (Known(e)' <=> Known(e))
  BY <1>1 DEF Queued, Known, InQueue, OnDisk, queueVars
<1>4. ASSUME NEW x \in Detectors, NEW c \in 1..baseline'[x]
      PROVE  \E g \in 0..MaxChanges : Queued(ChangeEvent(x, g, c))
  <2>1. CASE x = d /\ c \in (baseline[d] + 1)..seen[d]
    BY <1>0, <1>1, <1>2, <2>1 DEF PassedInv
  <2>2. CASE c \in 1..baseline[x]
    BY <1>0, <2>2 DEF PassedInv
  <2> QED BY <1>1, <1>2, <1>4, <2>1, <2>2
<1>5. PassedInv'
  BY <1>0, <1>1, <1>2, <1>3, <1>4 DEF PassedInv
<1>6. IdInv'
  BY <1>0, <1>1, <1>2, <1>3 DEF IdInv
<1> QED BY <1>5, <1>6

(* Every other step of the Agent settles what it leaves. *)
LEMMA OtherSteps ==
    ASSUME DeliveryInv, Next, ~BeginCycle, \A d \in Detectors : ~Commit(d)
    PROVE  Settled
<1> USE DeliveryAssumption
<1>0. /\ DeliveryTypeOK /\ PassedInv /\ QueueInv /\ SentInv /\ cycle \in Handles
      /\ \A d \in Detectors : host[d] \in Nat
      /\ at = "commit" => todo = {}
  BY DEF DeliveryInv, DeliveryTypeOK, PassedInv
<1>1. ASSUME NEW d \in Detectors, HostChange(d) PROVE Settled
  <2>1. /\ UNCHANGED <<at, todo, seen, baseline>>
        /\ \A x \in Detectors : host'[x] \in {host[x], host[x] + 1}
    BY <1>0, <1>1 DEF HostChange, cycleVars, DeliveryTypeOK
  <2> QED BY <1>0, <2>1 DEF Settled
<1>2. CASE \/ Start \/ EnqueueObserved \/ EnqueueWrites(cycle) \/ EnqueueWrites(feed) \/ Flush
           \/ SendEvents \/ Acked \/ FeedQueued \/ FeedError \/ ControlToggles
           \/ ClockCatchesUp \/ \E g \in GatewayEvents : FeedReceive(g)
  <2>1. UNCHANGED <<at, todo, seen, baseline, host>>
    BY <1>2 DEF Start, EnqueueObserved, EnqueueWrites, Flush, SendEvents, Acked, FeedQueued,
       FeedError, ControlToggles, ClockCatchesUp, FeedReceive, cycleVars, hostVars
  <2> QED BY <1>0, <2>1 DEF Settled
<1>3. CASE AllQueued \/ AllCommitted \/ LinkUp \/ EndCycle
  <2>1. UNCHANGED <<todo, seen, baseline, host>> /\ (at' = "commit" => todo = {})
    BY <1>3 DEF AllQueued, AllCommitted, LinkUp, EndCycle, hostVars
  <2> QED BY <1>0, <2>1 DEF Settled
<1>4. CASE \/ EnqueueRefused \/ EnqueueError \/ CommitError \/ LinkDown \/ PeekError
           \/ SendRefused \/ SendError \/ AckError \/ QueueEmpty \/ RunReturns \/ Crash
  <2>1. /\ UNCHANGED <<baseline, host>> /\ todo' = {} /\ at' # "commit"
        /\ seen' = [d \in Detectors |-> None]
    BY <1>4 DEF EnqueueRefused, EnqueueError, CommitError, LinkDown, PeekError, SendRefused,
       SendError, AckError, QueueEmpty, RunReturns, Crash, Return, Stopped, hostVars
  <2> QED BY <1>0, <2>1 DEF Settled
<1>5. CASE Enqueued
  <2>1. /\ EnqueueSync(cycle) /\ todo' = todo \ {arg[cycle]}
        /\ UNCHANGED <<at, seen, baseline, host, stored>>
    BY <1>5 DEF Enqueued, hostVars, controlVars
  <2>2. \A e \in Events : e = arg[cycle] => Queued(e)'
    BY <1>0, <2>1, WriteStep
  <2>3. \A e \in todo : e \in todo' \/ Queued(e)'
    BY <1>0, <2>1, <2>2 DEF DeliveryTypeOK
  <2> QED BY <1>0, <2>1, <2>3 DEF Settled
<1> QED BY <1>1, <1>2, <1>3, <1>4, <1>5 DEF Next, CycleStep, FeedStep, FaultStep, EnvStep

----------------------------------------------------------------------------
LEMMA DeliveryInvStarts == Init => DeliveryInv
<1> SUFFICES ASSUME Init PROVE DeliveryInv
  OBVIOUS
<1> USE DeliveryAssumption
<1>1. QueueInv
  BY QueueAssumption DEF Init, QueueInv, QueueTypeOK, SlotInv, WriteInv, BatchInv, NothingLost,
     Content, QueuePC
<1>2. feedErr \in BOOLEAN /\ online \in BOOLEAN
  BY DEF Init
<1>3. DeliveryTypeOK
  BY <1>1, <1>2 DEF Init, QueueInv, DeliveryTypeOK, CyclePC
<1>4. SentInv
  BY DEF Init, SentInv
<1>5. PassedInv
  BY DEF Init, PassedInv
<1>6. ASSUME NEW d \in Detectors, NEW g \in 0..MaxChanges, NEW c \in 1..MaxChanges
      PROVE  ~Known(ChangeEvent(d, g, c))
  <2>1. ChangeEvent(d, g, c) # Absent
    BY AgentEventType, QueueAssumption
  <2> QED BY <2>1 DEF Init, Known, InQueue, OnDisk
<1>7. IdInv
  BY <1>6 DEF Init, IdInv
<1> QED BY <1>1, <1>3, <1>4, <1>5, <1>7 DEF DeliveryInv

LEMMA DeliveryInvInductive == DeliveryInv /\ [Next]_vars => DeliveryInv'
<1> SUFFICES ASSUME DeliveryInv, [Next]_vars PROVE DeliveryInv'
  OBVIOUS
<1>1. CASE Next
  <2>1. QueueInv'
    BY <1>1, AgentUsesQueue, QueueInvInductive DEF DeliveryInv
  <2>2. DeliveryTypeOK'
    BY <1>1, <2>1, AgentTypeStep DEF DeliveryInv, QueueInv
  <2>3. QueueView
    BY <1>1, AgentQueueView
  <2>4. PassedInv' /\ IdInv'
    BY <1>1, <2>2, <2>3, ScanStep, CommitStep, OtherSteps, SettledStep
  <2> QED BY <2>1, <2>2, <2>3, <2>4 DEF DeliveryInv, QueueView
<1>2. CASE UNCHANGED vars
  <2>1. /\ UNCHANGED queueVars /\ UNCHANGED <<key, disk, pc, arg, slot, batch, held, standing>>
        /\ UNCHANGED <<at, todo, seen, baseline, host, arrived, feedErr, online, stored,
                       refused, faults>>
    BY <1>2 DEF vars, queueVars, cycleVars, hostVars, feedVars, controlVars
  <2>2. QueueInv'
    BY <2>1, QueueInvInductive DEF DeliveryInv
  <2>3. DeliveryTypeOK'
    BY <2>1, <2>2 DEF DeliveryInv, DeliveryTypeOK, QueueInv
  <2>4. SentInv'
    BY <2>1 DEF DeliveryInv, SentInv
  <2>5. PassedInv' /\ IdInv'
    <3>1. \A e : (Queued(e)' <=> Queued(e)) /\ (Known(e)' <=> Known(e))
      BY <2>1 DEF Queued, Known, InQueue, OnDisk
    <3> QED BY <2>1, <3>1 DEF DeliveryInv, PassedInv, IdInv
  <2> QED BY <2>2, <2>3, <2>4, <2>5 DEF DeliveryInv
<1> QED BY <1>1, <1>2

LEMMA DeliveryInvHolds == Spec => []DeliveryInv
  BY DeliveryInvStarts, DeliveryInvInductive, PTL DEF Spec

(* Type correctness of the whole Agent; a baseline is always a generation  *)
(* that some scan has produced.                                            *)
THEOREM DeliveryTypeCorrect == Spec => []DeliveryTypeOK
  BY DeliveryInvHolds, PTL DEF DeliveryInv

(* runCycle and the feed use the queue only as EncryptedQueue describes:   *)
(* every step of the Agent is a step of the queue, or leaves it alone.     *)
THEOREM AgentImplementsQueue == Spec => QueueSpec
<1>1. Init => QueueInit
  BY DEF Init, QueueInit
<1>2. DeliveryInv /\ [Next]_vars => [QueueNext]_queueVars
  BY AgentUsesQueue DEF DeliveryInv, vars
<1> QED BY <1>1, <1>2, DeliveryInvHolds, PTL DEF Spec, QueueSpec

(* No change that a baseline has passed is lost: its event is in a file    *)
(* that the queue must keep, or in the control plane's store.              *)
THEOREM NoChangeIsLost == Spec => []NoChangeLost
<1>1. DeliveryInv => NoChangeLost
  BY DEF DeliveryInv, PassedInv, Queued, NoChangeLost, OnDisk
<1> QED BY <1>1, DeliveryInvHolds, PTL

(* A change that is observed again, after a crash or an error between its  *)
(* Enqueue and its Commit, is reported under the id it already has.        *)
THEOREM OneIdForAChange == Spec => []OneIdPerChange
<1>1. DeliveryInv => OneIdPerChange
  BY DEF DeliveryInv, IdInv, OneIdPerChange, Known, InQueue
<1> QED BY <1>1, DeliveryInvHolds, PTL

(* A file leaves the queue's care only in a step after which its event is  *)
(* in the control plane's store.                                           *)
THEOREM SentEventsAreStored == Spec => SentIsStored
<1>1. DeliveryInv /\ [Next]_vars =>
        [\A n \in Names : standing[n] = "owed" /\ standing'[n] # "owed" => disk[n] \in stored']_vars
  BY AgentQueueView DEF QueueView, OwedKept
<1> QED BY <1>1, DeliveryInvHolds, PTL DEF Spec, SentIsStored

=============================================================================
