--------------------------- MODULE AgentDelivery ---------------------------
(***************************************************************************)
(* From an observation on the host to a row in the control plane: one      *)
(* Agent process (internal/agent/runner.go) with its two threads, the      *)
(* scan cycle and the Gateway feed, its encrypted queue (EncryptedQueue)   *)
(* and the detectors' baselines, against the event store of the control    *)
(* plane (internal/control/server.go: ingestEvents).                       *)
(*                                                                         *)
(* What a detector watches is a counter of changes, each on an object of   *)
(* its own; its baseline is the number of changes it has committed.  The   *)
(* id of a detector event is a hash of the baseline's generation and of    *)
(* the evidence, here the pair of both.  The scanner's event and the       *)
(* detectors' error events have random ids: nothing depends on which.      *)
(*                                                                         *)
(* Registration, certificates and policy, which runCycle handles between   *)
(* the commits and the flush, are one step here that passes or fails.      *)
(***************************************************************************)
EXTENDS EncryptedQueue

CONSTANTS
    cycle, feed,    \* the two handles: runCycle's and the Gateway feed's
    Detectors,      \* fileintegrity, sshauth, runtimewatch
    GatewayEvents,  \* what the Gateway sends over the local socket
    MaxChanges,     \* bound: changes on the host, for each detector
    MaxFaults,      \* bound: crashes, power losses, failing system calls and
                    \* events from a clock that is ahead
    None            \* no scan result

ScanEvent == [src |-> "scanner", gen |-> 0, change |-> 0]
ErrorEvent(d) == [src |-> d, gen |-> 0, change |-> 0]
ChangeEvent(d, g, c) == [src |-> d, gen |-> g, change |-> c]
FeedEvent(g) == [src |-> g, gen |-> 0, change |-> 0]

AgentEvents ==
    {ScanEvent} \cup {FeedEvent(g) : g \in GatewayEvents}
    \cup {ErrorEvent(d) : d \in Detectors}
    \cup {ChangeEvent(d, g, c) : d \in Detectors, g \in 0..MaxChanges, c \in 1..MaxChanges}

ASSUME DeliveryAssumption ==
    /\ {cycle, feed} \subseteq Handles /\ cycle # feed
    /\ AgentEvents \subseteq Events
    /\ Detectors \cap GatewayEvents = {}
    /\ "scanner" \notin Detectors \cup GatewayEvents
    /\ MaxChanges \in Nat /\ MaxFaults \in Nat
    /\ None \notin Nat

VARIABLES
    at,        \* where runCycle is
    todo,      \* the observed events runCycle has not yet queued
    seen,      \* seen[d]: the scan result whose Commit is pending, or None
    baseline,  \* baseline[d]: the persisted baseline
    host,      \* host[d]: how many changes have happened
    arrived,   \* the Gateway events the feed has read from its socket
    feedErr,   \* localfeed.Listen has returned an error
    online,    \* the control plane answers
    stored,    \* the control plane's event store
    refused,   \* the events ValidateEvent refuses, as their time is ahead
    faults     \* the faults so far

cycleVars == <<at, todo, seen>>
hostVars == <<baseline, host>>
feedVars == <<arrived, feedErr>>
controlVars == <<online, stored, refused>>
vars == <<queueVars, cycleVars, hostVars, feedVars, controlVars, faults>>

CyclePC == {"wait", "enqueue", "commit", "link", "flush", "return"}

(* The type of the whole state; in particular a baseline is always a        *)
(* generation some scan has produced, also when a detector failed or was   *)
(* disabled in the cycle that commits the others.                          *)
DeliveryTypeOK ==
    /\ QueueTypeOK
    /\ at \in CyclePC
    /\ todo \in SUBSET Events
    /\ seen \in [Detectors -> 0..MaxChanges \cup {None}]
    /\ baseline \in [Detectors -> 0..MaxChanges]
    /\ host \in [Detectors -> 0..MaxChanges]
    /\ arrived \in SUBSET GatewayEvents
    /\ feedErr \in BOOLEAN
    /\ online \in BOOLEAN
    /\ stored \in SUBSET Events
    /\ refused \in SUBSET Events
    /\ faults \in 0..MaxFaults

(* The installer has run the Agent once: the key exists and every detector *)
(* has a first baseline, which reports nothing.                            *)
Init ==
    /\ key = "whole"
    /\ disk = [n \in Names |-> Absent]
    /\ pc = [h \in Handles |-> "closed"]
    /\ arg = [h \in Handles |-> Absent]
    /\ slot = [h \in Handles |-> Absent]
    /\ batch = [h \in Handles |-> {}]
    /\ held = [h \in Handles |-> {}]
    /\ standing = [n \in Names |-> "none"]
    /\ at = "wait"
    /\ todo = {}
    /\ seen = [d \in Detectors |-> None]
    /\ baseline = [d \in Detectors |-> 0]
    /\ host = [d \in Detectors |-> 0]
    /\ arrived = {}
    /\ feedErr = FALSE
    /\ online = TRUE
    /\ stored = {}
    /\ refused = {}
    /\ faults = 0

----------------------------------------------------------------------------
(* The environment: the host changes, the control plane comes and goes. *)
HostChange(d) ==
    /\ host[d] < MaxChanges
    /\ host' = [host EXCEPT ![d] = @ + 1]
    /\ UNCHANGED <<queueVars, cycleVars, baseline, feedVars, controlVars, faults>>

ControlToggles ==
    /\ online' = ~online
    /\ UNCHANGED <<queueVars, cycleVars, hostVars, feedVars, stored, refused, faults>>

(* The control plane's clock reaches the times of the events. *)
ClockCatchesUp ==
    /\ refused # {} /\ refused' = {}
    /\ UNCHANGED <<queueVars, cycleVars, hostVars, feedVars, online, stored, faults>>

Fault == faults < MaxFaults /\ faults' = faults + 1

----------------------------------------------------------------------------
(* agent.Run opens the feed's queue, starts the feed and enters its loop. *)
Start ==
    /\ OpenExisting(feed)
    /\ feedErr' = FALSE
    /\ UNCHANGED <<cycleVars, hostVars, arrived, controlVars, faults>>

(* Mutant: the id is derived from the generation that is about to be       *)
(* committed, not from the one that is.                                    *)
Observed_NewGeneration(d, s) ==
    {ChangeEvent(d, s[d], c) : c \in (baseline[d] + 1)..s[d]}

(* The events of a Scan: one for each change since the baseline. *)
Observed(d, s) == {ChangeEvent(d, baseline[d], c) : c \in (baseline[d] + 1)..s[d]}

(* runCycle opens its own queue and scans.  A detector may be disabled by  *)
(* policy, or may fail: it then leaves an error event and no Commit.       *)
BeginCycle ==
    /\ at = "wait" /\ pc[feed] # "closed"
    /\ OpenExisting(cycle)
    /\ \E ok \in SUBSET Detectors : \E err \in SUBSET (Detectors \ ok) :
          LET s == [d \in Detectors |-> IF d \in ok THEN host[d] ELSE None]
          IN  /\ seen' = s
              /\ todo' = {ScanEvent} \cup {ErrorEvent(d) : d \in err}
                         \cup UNION {Observed(d, s) : d \in ok}
    /\ at' = "enqueue"
    /\ UNCHANGED <<hostVars, feedVars, controlVars, faults>>

(* An error return: what was scanned is forgotten, the queue is kept. *)
Return == at' = "return" /\ todo' = {} /\ seen' = [d \in Detectors |-> None]

EnqueueObserved ==
    /\ at = "enqueue"
    /\ \E e \in todo : EnqueueCheck(cycle, e)
    /\ UNCHANGED <<cycleVars, hostVars, feedVars, controlVars, faults>>

EnqueueRefused ==
    /\ at = "enqueue" /\ pc[cycle] = "idle" /\ todo # {} /\ QueueFull
    /\ Return
    /\ UNCHANGED <<queueVars, hostVars, feedVars, controlVars, faults>>

(* The file system calls of Enqueue, for either thread. *)
EnqueueWrites(h) ==
    /\ EnqueueCreate(h) \/ EnqueueWrite(h)
    /\ UNCHANGED <<cycleVars, hostVars, feedVars, controlVars, faults>>

Enqueued ==
    /\ EnqueueSync(cycle)
    /\ todo' = todo \ {arg[cycle]}
    /\ UNCHANGED <<at, seen, hostVars, feedVars, controlVars, faults>>

EnqueueError ==
    /\ EnqueueFails(cycle) /\ Fault
    /\ Return
    /\ UNCHANGED <<hostVars, feedVars, controlVars>>

(* Mutant: the commits run although events are still to be queued. *)
AllQueued_Early ==
    /\ at = "enqueue" /\ pc[cycle] = "idle"
    /\ at' = "commit"
    /\ UNCHANGED <<queueVars, todo, seen, hostVars, feedVars, controlVars, faults>>

AllQueued ==
    /\ at = "enqueue" /\ pc[cycle] = "idle" /\ todo = {}
    /\ at' = "commit"
    /\ UNCHANGED <<queueVars, todo, seen, hostVars, feedVars, controlVars, faults>>

(* Commit replaces the baseline file atomically (a temporary, a rename). *)
Commit(d) ==
    /\ at = "commit" /\ seen[d] # None
    /\ baseline' = [baseline EXCEPT ![d] = seen[d]]
    /\ seen' = [seen EXCEPT ![d] = None]
    /\ UNCHANGED <<queueVars, at, todo, host, feedVars, controlVars, faults>>

CommitError ==
    /\ at = "commit" /\ (\E d \in Detectors : seen[d] # None) /\ Fault
    /\ Return
    /\ UNCHANGED <<queueVars, hostVars, feedVars, controlVars>>

AllCommitted ==
    /\ at = "commit" /\ \A d \in Detectors : seen[d] = None
    /\ at' = "link"
    /\ UNCHANGED <<queueVars, todo, seen, hostVars, feedVars, controlVars, faults>>

(* Certificate, registration, policy, heartbeat: any failure is a return. *)
LinkUp ==
    /\ at = "link" /\ online
    /\ at' = "flush"
    /\ UNCHANGED <<queueVars, todo, seen, hostVars, feedVars, controlVars, faults>>

LinkDown ==
    /\ at = "link" /\ ~online
    /\ Return
    /\ UNCHANGED <<queueVars, hostVars, feedVars, controlVars, faults>>

----------------------------------------------------------------------------
(* The flush loop: Peek, SendEvents, Ack until the queue is empty. *)
Flush ==
    /\ at = "flush"
    /\ PeekList(cycle) \/ PeekRead(cycle) \/ AckRemove(cycle)
    /\ UNCHANGED <<cycleVars, hostVars, feedVars, controlVars, faults>>

PeekError ==
    /\ PeekFails(cycle)
    /\ Return
    /\ UNCHANGED <<hostVars, feedVars, controlVars, faults>>

(* Mutant: the batch is not stored in one transaction, and its first error *)
(* is not reported.                                                        *)
SendEvents_Partial ==
    /\ online
    /\ BatchSent(cycle)
    /\ \E some \in SUBSET held[cycle] : stored' = stored \cup some
    /\ UNCHANGED <<cycleVars, hostVars, feedVars, online, refused, faults>>

(* ingestEvents stores the batch in one transaction; an id it already has  *)
(* is ignored.                                                             *)
SendEvents ==
    /\ online /\ held[cycle] \cap refused = {}
    /\ BatchSent(cycle)
    /\ stored' = stored \cup held[cycle]
    /\ UNCHANGED <<cycleVars, hostVars, feedVars, online, refused, faults>>

(* One event that is refused has the whole batch refused.  A batch that is *)
(* larger than the body limit is refused the same way.                     *)
SendRefused ==
    /\ online /\ held[cycle] \cap refused # {}
    /\ BatchNotSent(cycle)
    /\ Return
    /\ UNCHANGED <<hostVars, feedVars, controlVars, faults>>

(* The control plane is gone before it has the request, or before the      *)
(* Agent has the answer.                                                   *)
SendError ==
    /\ ~online
    /\ BatchNotSent(cycle)
    /\ stored' \in {stored, stored \cup held[cycle]}
    /\ Return
    /\ UNCHANGED <<hostVars, feedVars, online, refused, faults>>

Acked ==
    /\ batch[cycle] = {} /\ AckEnds(cycle)
    /\ UNCHANGED <<cycleVars, hostVars, feedVars, controlVars, faults>>

AckError ==
    /\ batch[cycle] # {} /\ AckEnds(cycle) /\ Fault
    /\ Return
    /\ UNCHANGED <<hostVars, feedVars, controlVars>>

QueueEmpty ==
    /\ at = "flush" /\ pc[cycle] = "idle" /\ queueFiles = {}
    /\ Return
    /\ UNCHANGED <<queueVars, hostVars, feedVars, controlVars, faults>>

(* Mutant: a cycle that has failed ends the loop of Run. *)
EndCycle_Stops ==
    /\ at = "return"
    /\ CloseQueue(cycle)
    /\ at' = IF queueFiles = {} THEN "wait" ELSE "return"
    /\ UNCHANGED <<todo, seen, hostVars, feedVars, controlVars, faults>>

(* runCycle returns; its queue object is dropped. *)
EndCycle ==
    /\ at = "return"
    /\ CloseQueue(cycle)
    /\ at' = "wait"
    /\ UNCHANGED <<todo, seen, hostVars, feedVars, controlVars, faults>>

----------------------------------------------------------------------------
(* The feed: the handler queues what Listen has read; its error ends       *)
(* Listen, and the datagram is gone.  The clock of the host may be ahead   *)
(* of the control plane's by more than ValidateEvent allows.               *)
FeedReceive(g) ==
    /\ g \notin arrived /\ ~feedErr /\ pc[feed] = "idle"
    /\ arrived' = arrived \cup {g}
    /\ \/ /\ EnqueueCheck(feed, FeedEvent(g))
          /\ \/ UNCHANGED <<refused, faults>>
             \/ refused' = refused \cup {FeedEvent(g)} /\ Fault
          /\ UNCHANGED feedErr
       \/ QueueFull /\ feedErr' = TRUE /\ UNCHANGED <<queueVars, refused, faults>>
    /\ UNCHANGED <<cycleVars, hostVars, online, stored>>

FeedQueued ==
    /\ EnqueueSync(feed)
    /\ UNCHANGED <<cycleVars, hostVars, feedVars, controlVars, faults>>

FeedError ==
    /\ EnqueueFails(feed) /\ Fault
    /\ feedErr' = TRUE
    /\ UNCHANGED <<cycleVars, hostVars, arrived, controlVars>>

----------------------------------------------------------------------------
(* Run returns the feed's error once it is back in its select; systemd     *)
(* restarts the process.                                                   *)
Stopped ==
    /\ at' = "wait" /\ todo' = {} /\ seen' = [d \in Detectors |-> None]
    /\ feedErr' = FALSE
    /\ UNCHANGED <<hostVars, arrived, controlVars>>

RunReturns ==
    /\ at = "wait" /\ feedErr
    /\ ProcessDies(Handles)
    /\ Stopped /\ UNCHANGED faults

Crash ==
    /\ pc[feed] # "closed" /\ Fault
    /\ ProcessDies(Handles) \/ PowerLoss
    /\ Stopped

----------------------------------------------------------------------------
CycleStep ==
    \/ BeginCycle \/ EnqueueObserved \/ EnqueueRefused \/ Enqueued
    \/ EnqueueWrites(cycle) \/ AllQueued
    \/ (\E d \in Detectors : Commit(d)) \/ AllCommitted
    \/ LinkUp \/ LinkDown \/ Flush \/ PeekError \/ SendEvents \/ SendRefused \/ SendError
    \/ Acked \/ QueueEmpty \/ EndCycle

FeedStep == EnqueueWrites(feed) \/ FeedQueued

FaultStep == EnqueueError \/ CommitError \/ AckError \/ FeedError \/ Crash

EnvStep ==
    \/ \E d \in Detectors : HostChange(d)
    \/ \E g \in GatewayEvents : FeedReceive(g)
    \/ ControlToggles \/ ClockCatchesUp

Next == Start \/ CycleStep \/ FeedStep \/ RunReturns \/ FaultStep \/ EnvStep

Spec == Init /\ [][Next]_vars

(* The threads run, and systemd restarts the process; the host, the        *)
(* Gateway, the control plane and the faults owe nothing.  A cycle ends at *)
(* its select, where a pending feed error is chosen sooner or later.       *)
Fairness ==
    /\ WF_vars(Start) /\ WF_vars(CycleStep) /\ WF_vars(FeedStep)
    /\ SF_vars(RunReturns)

FairSpec == Spec /\ Fairness

----------------------------------------------------------------------------
OnDisk(e) == \E n \in Names : disk[n] = e

(* The baseline never moves past a change whose event is neither in the    *)
(* queue nor in the control plane, whatever crashes between the enqueue    *)
(* loop and the commits (the comment on fileintegrity.Result).             *)
NoChangeLost ==
    \A d \in Detectors : \A c \in 1..baseline[d] :
        \E g \in 0..MaxChanges :
            LET e == ChangeEvent(d, g, c) IN OnDisk(e) \/ e \in stored

(* A change is reported under one event id only, even when a crash between *)
(* the enqueue and the commit makes the detector observe it again: the id  *)
(* is derived from the generation, so the control plane sees a duplicate.  *)
OneIdPerChange ==
    \A d \in Detectors, c \in 1..MaxChanges, g1, g2 \in 0..MaxChanges :
        LET e1 == ChangeEvent(d, g1, c)
            e2 == ChangeEvent(d, g2, c)
        IN  (OnDisk(e1) \/ e1 \in stored) /\ (OnDisk(e2) \/ e2 \in stored) => g1 = g2

(* A file leaves the queue's care only when its event is in the control    *)
(* plane: runCycle acknowledges what SendEvents confirmed, and SendEvents  *)
(* confirms what was stored.                                               *)
SentIsStored ==
    [][\A n \in Names :
          standing[n] = "owed" /\ standing'[n] # "owed" => disk[n] \in stored']_vars

Drained == \A n \in Names : standing[n] # "owed"

(* Once the control plane stays reachable and refuses no event of the      *)
(* queue, the queue is emptied again and again unless it fills: a full     *)
(* queue is then the only state in which runCycle keeps failing before its *)
(* flush loop is through, whatever crashes, lost answers, refused batches  *)
(* and feed events came before.  (A torn file, and an event that stays     *)
(* refused, end in a full queue too: each cycle adds an event and sends    *)
(* none.)                                                                  *)
DrainsUnlessFull ==
    <>[](online /\ ~QueueFull /\ refused = {}) => []<>Drained

(* Once the control plane is back for good, what the queue has kept during *)
(* the outage is delivered: README.md line 201 promises that events are    *)
(* written to the local encrypted queue while the control service is       *)
(* offline and that the upload resumes when it is back.                    *)
RecoveryDrains == <>[]online => []<>Drained
=============================================================================
