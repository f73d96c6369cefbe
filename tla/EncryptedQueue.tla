--------------------------- MODULE EncryptedQueue ---------------------------
(***************************************************************************)
(* The Agent's on-disk event queue (internal/agent/queue.go).              *)
(*                                                                         *)
(* A queue is a directory with one sealed file per event.  Several         *)
(* EncryptedQueue objects ("handles") are open on the same directory at    *)
(* the same time: agent.Run opens one for the Gateway feed and runCycle    *)
(* opens another one every cycle, and an operator may start a second       *)
(* process with --once.  The mutex is a field of the object, so it orders  *)
(* the operations of one handle only; between handles the operations       *)
(* interleave at the granularity of the file system calls, which is the    *)
(* granularity of the actions below.                                       *)
(*                                                                         *)
(* A file's content is abstracted to Absent (no directory entry), Torn     *)
(* (an entry that Peek cannot authenticate: empty or half written) or the  *)
(* event sealed in it.                                                     *)
(***************************************************************************)
EXTENDS Naturals, FiniteSets

CONSTANTS
    Events,           \* the events a caller may queue
    Handles,          \* the EncryptedQueue objects open on the directory
    Names,            \* file names; their order is the order of sort.Strings
    maxQueueEntries,  \* the safety limit of Enqueue
    BatchLimit,       \* the argument of Peek
    Absent, Torn      \* contents that are not an event

ASSUME QueueAssumption ==
    /\ Names \subseteq Nat
    /\ IsFiniteSet(Names)
    /\ IsFiniteSet(Handles)
    /\ maxQueueEntries \in Nat \ {0}
    /\ BatchLimit \in Nat
    /\ Absent \notin Events /\ Absent \notin Names
    /\ Torn \notin Events /\ Absent # Torn

VARIABLES
    key,      \* queue.key: "absent", "torn" or "whole"
    disk,     \* disk[n]: the content of the file n
    pc,       \* pc[h]: where handle h is in its current operation
    arg,      \* arg[h]: the event h is enqueuing
    slot,     \* slot[h]: the name of the file h is writing
    batch,    \* batch[h]: the files of the batch h has peeked
    held,     \* held[h]: the events of that batch
    standing  \* history: standing[n] is "owed" once the Enqueue that wrote n
              \* has returned nil, "sent" once the receiver has confirmed n

queueVars == <<key, disk, pc, arg, slot, batch, held, standing>>

Content == Events \cup {Absent, Torn}

QueuePC == {"closed", "key", "idle", "create", "write", "sync",
            "read", "held", "ack"}

(* The type of the queue's state: whatever a crash leaves in the directory, *)
(* Peek hands its caller events only, never a file it could not            *)
(* authenticate (the error return of Peek's aead.Open).                    *)
QueueTypeOK ==
    /\ key \in {"absent", "torn", "whole"}
    /\ disk \in [Names -> Content]
    /\ pc \in [Handles -> QueuePC]
    /\ arg \in [Handles -> Events \cup {Absent}]
    /\ slot \in [Handles -> Names \cup {Absent}]
    /\ batch \in [Handles -> SUBSET Names]
    /\ held \in [Handles -> SUBSET Events]
    /\ standing \in [Names -> {"none", "owed", "sent"}]

QueueInit ==
    /\ key \in {"absent", "whole"}
    /\ disk = [n \in Names |-> Absent]
    /\ pc = [h \in Handles |-> "closed"]
    /\ arg = [h \in Handles |-> Absent]
    /\ slot = [h \in Handles |-> Absent]
    /\ batch = [h \in Handles |-> {}]
    /\ held = [h \in Handles |-> {}]
    /\ standing = [n \in Names |-> "none"]

----------------------------------------------------------------------------
(* queueFiles: every regular file with the suffix is an entry, torn or not *)
queueFiles == {n \in Names : disk[n] # Absent}

(* Mutant: the limit is compared with > instead of >=. *)
QueueFull_OffByOne == Cardinality(queueFiles) > maxQueueEntries

QueueFull == Cardinality(queueFiles) >= maxQueueEntries

(* files[:limit] of the sorted listing *)
FirstFiles(S) == {n \in S : Cardinality({m \in S : m < n}) < BatchLimit}

(* A name is the wall clock in nanoseconds and eight random bytes: it is   *)
(* not a name in use.  The clock may be set back, so the order of the      *)
(* names is not the order of creation.                                     *)
FreshNames ==
    {n \in Names : /\ disk[n] = Absent
                   /\ \A h \in Handles : n # slot[h] /\ n \notin batch[h]}

Goto(h, to) == pc' = [pc EXCEPT ![h] = to]

Write(n, c) == disk' = [disk EXCEPT ![n] = c]

----------------------------------------------------------------------------
(* OpenEncryptedQueue and loadOrCreateQueueKey.  A key of the wrong length *)
(* is an error, and the file is left as it is: OpenFails.                  *)
OpenExisting(h) ==
    /\ pc[h] = "closed" /\ key = "whole"
    /\ Goto(h, "idle")
    /\ UNCHANGED <<key, disk, arg, slot, batch, held, standing>>

OpenFails(h) ==
    /\ pc[h] = "closed" /\ key = "torn"
    /\ UNCHANGED queueVars

OpenCreateKey(h) ==
    /\ pc[h] = "closed" /\ key = "absent"
    /\ key' = "torn"
    /\ Goto(h, "key")
    /\ UNCHANGED <<disk, arg, slot, batch, held, standing>>

OpenWriteKey(h) ==
    /\ pc[h] = "key"
    /\ key' = "whole"
    /\ Goto(h, "idle")
    /\ UNCHANGED <<disk, arg, slot, batch, held, standing>>

(* A write or sync error removes the key; a close error leaves it. *)
OpenKeyFails(h) ==
    /\ pc[h] = "key"
    /\ key' \in {"absent", "whole"}
    /\ Goto(h, "closed")
    /\ UNCHANGED <<disk, arg, slot, batch, held, standing>>

(* The object is dropped: runCycle does so when it returns. *)
CloseQueue(h) ==
    /\ pc[h] = "idle"
    /\ Goto(h, "closed")
    /\ UNCHANGED <<key, disk, arg, slot, batch, held, standing>>

----------------------------------------------------------------------------
(* Enqueue: the capacity check, the creation of the file under its final   *)
(* name, the write, and the sync are four calls.                           *)
EnqueueCheck(h, e) ==
    /\ pc[h] = "idle" /\ ~QueueFull
    /\ arg' = [arg EXCEPT ![h] = e]
    /\ Goto(h, "create")
    /\ UNCHANGED <<key, disk, slot, batch, held, standing>>

EnqueueCreate(h) ==
    /\ pc[h] = "create"
    /\ \E n \in FreshNames :
          /\ Write(n, Torn)
          /\ slot' = [slot EXCEPT ![h] = n]
          /\ standing' = [standing EXCEPT ![n] = "none"]
    /\ Goto(h, "write")
    /\ UNCHANGED <<key, arg, batch, held>>

EnqueueWrite(h) ==
    /\ pc[h] = "write"
    /\ Write(slot[h], arg[h])
    /\ Goto(h, "sync")
    /\ UNCHANGED <<key, arg, slot, batch, held, standing>>

(* Sync and Close succeed: Enqueue returns nil. *)
EnqueueSync(h) ==
    /\ pc[h] = "sync"
    /\ standing' = [standing EXCEPT ![slot[h]] =
                        IF @ # "sent" THEN "owed"
                        ELSE IF disk[slot[h]] = Absent THEN "none" ELSE "sent"]
    /\ arg' = [arg EXCEPT ![h] = Absent]
    /\ slot' = [slot EXCEPT ![h] = Absent]
    /\ Goto(h, "idle")
    /\ UNCHANGED <<key, disk, batch, held>>

(* One of the calls fails: the deferred function removes the file, and     *)
(* ignores an error of that removal.                                       *)
EnqueueFails(h) ==
    /\ \/ pc[h] = "create" /\ UNCHANGED disk
       \/ /\ pc[h] \in {"write", "sync"}
          /\ \E c \in {Absent, disk[slot[h]]} : Write(slot[h], c)
    /\ arg' = [arg EXCEPT ![h] = Absent]
    /\ slot' = [slot EXCEPT ![h] = Absent]
    /\ standing' = [n \in Names |-> IF n = slot[h] THEN "none" ELSE standing[n]]
    /\ Goto(h, "idle")
    /\ UNCHANGED <<key, batch, held>>

----------------------------------------------------------------------------
(* Peek lists the directory, then reads and authenticates each file of the *)
(* batch; one file it cannot read fails the whole call.                    *)
PeekList(h) ==
    /\ pc[h] = "idle" /\ queueFiles # {}
    /\ batch' = [batch EXCEPT ![h] = FirstFiles(queueFiles)]
    /\ Goto(h, "read")
    /\ UNCHANGED <<key, disk, arg, slot, held, standing>>

(* Mutant: a file that cannot be authenticated does not fail the call. *)
PeekRead_Unchecked(h) ==
    /\ pc[h] = "read"
    /\ held' = [held EXCEPT ![h] = {disk[n] : n \in batch[h]}]
    /\ Goto(h, "held")
    /\ UNCHANGED <<key, disk, arg, slot, batch, standing>>

PeekRead(h) ==
    /\ pc[h] = "read"
    /\ \A n \in batch[h] : disk[n] \in Events
    /\ held' = [held EXCEPT ![h] = {disk[n] : n \in batch[h]}]
    /\ Goto(h, "held")
    /\ UNCHANGED <<key, disk, arg, slot, batch, standing>>

DropBatch(h) ==
    /\ batch' = [batch EXCEPT ![h] = {}]
    /\ held' = [held EXCEPT ![h] = {}]
    /\ Goto(h, "idle")
    /\ UNCHANGED <<key, disk, arg, slot, standing>>

PeekFails(h) ==
    /\ pc[h] = "read"
    /\ \E n \in batch[h] : disk[n] \notin Events
    /\ DropBatch(h)

(* The caller has sent the batch and calls Ack, or gives the batch up. *)
BatchSent(h) ==
    /\ pc[h] = "held"
    /\ standing' = [n \in Names |-> IF n \in batch[h] THEN "sent" ELSE standing[n]]
    /\ Goto(h, "ack")
    /\ UNCHANGED <<key, disk, arg, slot, batch, held>>

(* Mutant: Ack is called although the send has failed. *)
BatchNotSent_Acks(h) ==
    /\ pc[h] = "held"
    /\ Goto(h, "ack")
    /\ UNCHANGED <<key, disk, arg, slot, batch, held, standing>>

BatchNotSent(h) == pc[h] = "held" /\ DropBatch(h)

(* Ack removes the files one by one; a missing file is not an error, any   *)
(* other failure ends the call with the rest of the files in place.        *)
AckRemove(h) ==
    /\ pc[h] = "ack"
    /\ \E n \in batch[h] :
          /\ \A m \in batch[h] : n <= m
          /\ Write(n, Absent)
          /\ batch' = [batch EXCEPT ![h] = @ \ {n}]
          /\ standing' = [standing EXCEPT ![n] =
                 IF @ = "sent" /\ \A g \in Handles : slot[g] # n THEN "none" ELSE @]
    /\ UNCHANGED <<key, pc, arg, slot, held>>

AckEnds(h) == pc[h] = "ack" /\ DropBatch(h)

----------------------------------------------------------------------------
(* What the handles of H keep in memory is gone. *)
Forget(H) ==
    /\ pc' = [h \in Handles |-> IF h \in H THEN "closed" ELSE pc[h]]
    /\ arg' = [h \in Handles |-> IF h \in H THEN Absent ELSE arg[h]]
    /\ slot' = [h \in Handles |-> IF h \in H THEN Absent ELSE slot[h]]
    /\ batch' = [h \in Handles |-> IF h \in H THEN {} ELSE batch[h]]
    /\ held' = [h \in Handles |-> IF h \in H THEN {} ELSE held[h]]
    /\ standing' = [n \in Names |->
          IF \E h \in H : slot[h] = n THEN "none" ELSE standing[n]]

(* The process that owns the handles of H is killed: files stay as the     *)
(* last system call left them, and nobody removes a half-written one.      *)
ProcessDies(H) == Forget(H) /\ UNCHANGED <<key, disk>>

(* The host loses power: every process dies, and a file whose Sync was not *)
(* confirmed survives as it was, torn, or not at all.                      *)
PowerLoss ==
    /\ LET unsynced == {n \in queueFiles : \/ standing[n] = "none"
                                           \/ \E h \in Handles : slot[h] = n}
       IN  \E gone \in SUBSET unsynced, torn \in SUBSET unsynced :
             disk' = [n \in Names |-> IF n \in gone THEN Absent
                                      ELSE IF n \in torn THEN Torn ELSE disk[n]]
    /\ key' \in (IF \E h \in Handles : pc[h] = "key"
                 THEN {"absent", "torn", "whole"} ELSE {key})
    /\ Forget(Handles)

----------------------------------------------------------------------------
OpenStep(h) ==
    OpenExisting(h) \/ OpenFails(h) \/ OpenCreateKey(h) \/ OpenWriteKey(h) \/ OpenKeyFails(h)

EnqueueStep(h) ==
    \/ \E e \in Events : EnqueueCheck(h, e)
    \/ EnqueueCreate(h) \/ EnqueueWrite(h) \/ EnqueueSync(h) \/ EnqueueFails(h)

FlushStep(h) ==
    \/ PeekList(h) \/ PeekRead(h) \/ PeekFails(h)
    \/ BatchSent(h) \/ BatchNotSent(h) \/ AckRemove(h) \/ AckEnds(h)

QueueNext ==
    \/ \E h \in Handles :
          OpenStep(h) \/ CloseQueue(h) \/ EnqueueStep(h) \/ FlushStep(h)
    \/ \E H \in SUBSET Handles : ProcessDies(H)
    \/ PowerLoss

QueueSpec == QueueInit /\ [][QueueNext]_queueVars

----------------------------------------------------------------------------
(* An event whose Enqueue returned nil stays readable in its file until    *)
(* the receiver has confirmed a batch that contained it: neither a crash,  *)
(* nor another handle's Ack, nor the removal of a failed write loses it    *)
(* (queue.go: Sync before "completed", Ack by name after SendEvents).      *)
NothingLost ==
    \A n \in Names :
        standing[n] = "owed" => disk[n] \in Events

(* Enqueue checks the limit before it creates the file, under a mutex that *)
(* the other handles do not share: the directory exceeds the limit by at   *)
(* most one file for each other handle, however the checks interleave.     *)
OverrunBounded ==
    Cardinality(queueFiles) + 1 <= maxQueueEntries + Cardinality(Handles)

----------------------------------------------------------------------------
(* The inductive invariant of the proofs: what a handle in the middle of   *)
(* an operation knows of the directory.                                    *)
SlotInv ==
    \A h \in Handles :
        /\ slot[h] \in Names <=> pc[h] \in {"write", "sync"}
        /\ pc[h] \in {"create", "write", "sync"} => arg[h] \in Events
        /\ \A g \in Handles : slot[h] \in Names /\ slot[g] = slot[h] => g = h

WriteInv ==
    \A h \in Handles :
        /\ pc[h] = "write" => disk[slot[h]] = Torn /\ standing[slot[h]] = "none"
        /\ pc[h] = "sync" =>
              /\ disk[slot[h]] \in {arg[h], Absent}
              /\ standing[slot[h]] # "owed"
              /\ disk[slot[h]] = Absent => standing[slot[h]] = "sent"

BatchInv ==
    \A h \in Handles :
        /\ pc[h] \notin {"read", "held", "ack"} => batch[h] = {}
        /\ pc[h] \in {"held", "ack"} =>
              \A n \in batch[h] : disk[n] \in held[h] \cup {Absent}
        /\ pc[h] = "ack" =>
              \A n \in batch[h] :
                  /\ standing[n] # "owed"
                  /\ \A g \in Handles : slot[g] = n => standing[n] = "sent"

QueueInv == QueueTypeOK /\ SlotInv /\ WriteInv /\ BatchInv /\ NothingLost
=============================================================================
