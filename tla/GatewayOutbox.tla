---------------------------- MODULE GatewayOutbox ----------------------------
(***************************************************************************)
(* The way of a rule match from the gateway to the Agent: Outbox           *)
(* (internal/gatewayevents/outbox.go), which sends an event over the local *)
(* datagram socket and keeps it in a file when that fails, its goroutine   *)
(* Run that forwards the files, and the two ends of the socket, Send and   *)
(* Listen (internal/localfeed/localfeed.go).                               *)
(*                                                                         *)
(* Every event is emitted by a request of its own.  What the Agent does    *)
(* with an event it has read is AgentDelivery.                             *)
(***************************************************************************)
EXTENDS Naturals, Sequences, FiniteSets

CONSTANTS
    Events,     \* the rule matches, one Emit each
    Names,      \* file names: a name is free again once its file is gone
    MaxEvents,  \* the limit of the outbox
    FlushLimit, \* files a Flush takes
    SocketSize, \* datagrams the socket holds before a send blocks
    MaxFaults,  \* bound: crashes, failing file operations, a clock set back
    Absent, Torn, Run, Free

ASSUME OutboxAssumption ==
    /\ Names \in SUBSET Nat /\ MaxEvents \in Nat \ {0}
    /\ FlushLimit \in Nat \ {0} /\ SocketSize \in Nat \ {0} /\ MaxFaults \in Nat
    /\ Absent \notin Events /\ Torn \notin Events /\ Absent # Torn
    /\ Run \notin Events /\ Free \notin Events /\ Run # Free

VARIABLES
    file,      \* file[n]: the content of the file n, Absent or Torn
    mutex,     \* the holder of outbox.mu: Run, an event being kept, or Free
    emit,      \* emit[e]: where Emit(e) is, and how it returned
    slot,      \* slot[e]: the file persist has created for e
    run,       \* where the goroutine Run is
    todo,      \* the files its Flush has listed and not yet forwarded
    sock,      \* the datagrams in the socket, oldest first
    listening, \* the Agent has the socket open
    received,  \* the events Listen has given to its handler
    lost,      \* the events that were in the socket when it was closed, or
               \* that Listen has passed over
    faults

outbox == <<file, mutex, slot>>
socket == <<sock, listening, received, lost>>
vars == <<outbox, emit, run, todo, socket, faults>>

EmitPC == {"new", "send", "persist", "write", "nil", "error"}

(* The type of the state; no more datagrams than the socket holds, and     *)
(* only decoded events among them.                                         *)
OutboxTypeOK ==
    /\ file \in [Names -> Events \cup {Absent, Torn}]
    /\ mutex \in Events \cup {Run, Free}
    /\ emit \in [Events -> EmitPC]
    /\ slot \in [Events -> Names \cup {Absent}]
    /\ run \in {"tick", "flush", "sent", "stopped"}
    /\ todo \in SUBSET Names
    /\ sock \in Seq(Events) /\ Len(sock) <= SocketSize
    /\ listening \in BOOLEAN /\ received \in SUBSET Events /\ lost \in SUBSET Events
    /\ faults \in 0..MaxFaults

Init ==
    /\ file = [n \in Names |-> Absent]
    /\ mutex = Free
    /\ emit = [e \in Events |-> "new"]
    /\ slot = [e \in Events |-> Absent]
    /\ run = "tick" /\ todo = {}
    /\ sock = <<>> /\ listening \in BOOLEAN /\ received = {} /\ lost = {}
    /\ faults = 0

----------------------------------------------------------------------------
outboxFiles == {n \in Names : file[n] # Absent}

(* The first FlushLimit names in their order. *)
Listed == {n \in outboxFiles : Cardinality({m \in outboxFiles : m < n}) < FlushLimit}

First(S) == CHOOSE n \in S : \A m \in S : n <= m

(* Send: the datagram is in the socket as a whole or not at all; without a *)
(* listener, or with a full socket until the deadline, the send fails.     *)
CanSend == listening /\ Len(sock) < SocketSize
Send(e) == sock' = Append(sock, e) /\ UNCHANGED <<listening, received, lost>>

Fault == faults < MaxFaults /\ faults' = faults + 1

Becomes(e, pc) == emit' = [emit EXCEPT ![e] = pc]

----------------------------------------------------------------------------
(* A rule matches: emitRuleMatch calls Emit. *)
EmitBegin(e) ==
    /\ emit[e] = "new" /\ Becomes(e, "send")
    /\ UNCHANGED <<outbox, run, todo, socket, faults>>

(* Mutant: the event that has been sent is kept as well. *)
EmitSent_Persists(e) ==
    /\ emit[e] = "send" /\ CanSend
    /\ Send(e) /\ Becomes(e, "persist")
    /\ UNCHANGED <<outbox, run, todo, faults>>

EmitSent(e) ==
    /\ emit[e] = "send" /\ CanSend
    /\ Send(e) /\ Becomes(e, "nil")
    /\ UNCHANGED <<outbox, run, todo, faults>>

EmitNotSent(e) ==
    /\ emit[e] = "send" /\ ~CanSend
    /\ Becomes(e, "persist")
    /\ UNCHANGED <<outbox, run, todo, socket, faults>>

(* Mutant: persist does not take the mutex. *)
PersistCreate_NoLock(e) ==
    /\ emit[e] = "persist"
    /\ Cardinality(outboxFiles) < MaxEvents
    /\ \E n \in Names \ outboxFiles :
          /\ file' = [file EXCEPT ![n] = Torn]
          /\ slot' = [slot EXCEPT ![e] = n]
    /\ Becomes(e, "write")
    /\ UNCHANGED <<mutex, run, todo, socket, faults>>

(* Mutant: the limit is compared with <= . *)
PersistCreate_OffByOne(e) ==
    /\ emit[e] = "persist" /\ mutex = Free
    /\ Cardinality(outboxFiles) <= MaxEvents
    /\ \E n \in Names \ outboxFiles :
          /\ file' = [file EXCEPT ![n] = Torn]
          /\ slot' = [slot EXCEPT ![e] = n]
    /\ mutex' = e /\ Becomes(e, "write")
    /\ UNCHANGED <<run, todo, socket, faults>>

(* persist under the mutex: the limit, the file, its content. *)
PersistCreate(e) ==
    /\ emit[e] = "persist" /\ mutex = Free
    /\ Cardinality(outboxFiles) < MaxEvents
    /\ \E n \in Names \ outboxFiles :
          /\ file' = [file EXCEPT ![n] = Torn]
          /\ slot' = [slot EXCEPT ![e] = n]
    /\ mutex' = e /\ Becomes(e, "write")
    /\ UNCHANGED <<run, todo, socket, faults>>

PersistRefused(e) ==
    /\ emit[e] = "persist" /\ mutex = Free
    /\ Cardinality(outboxFiles) >= MaxEvents
    /\ Becomes(e, "error")
    /\ UNCHANGED <<outbox, run, todo, socket, faults>>

PersistReturns(e, content, result) ==
    /\ emit[e] = "write"
    /\ file' = [file EXCEPT ![slot[e]] = content]
    /\ slot' = [slot EXCEPT ![e] = Absent]
    /\ mutex' = Free /\ Becomes(e, result)
    /\ UNCHANGED <<run, todo, socket>>

PersistWrite(e) == PersistReturns(e, e, "nil") /\ UNCHANGED faults
PersistFails(e) == PersistReturns(e, Absent, "error") /\ Fault

----------------------------------------------------------------------------
(* Run calls Flush at every tick; Flush has the mutex until it returns.    *)
(* It returns nil when there is nothing left or the socket refuses, and    *)
(* any other error ends Run for good.                                      *)
FlushBegin ==
    /\ run = "tick" /\ mutex = Free /\ outboxFiles # {}
    /\ mutex' = Run /\ run' = "flush" /\ todo' = Listed
    /\ UNCHANGED <<file, slot, emit, socket, faults>>

(* Mutant: the mutex is not released when Flush fails. *)
FlushReturns_KeepsLock(pc) ==
    /\ run' = pc /\ todo' = {}
    /\ mutex' = IF pc = "stopped" THEN Run ELSE Free
    /\ UNCHANGED <<slot, emit>>

FlushReturns(pc) ==
    /\ run' = pc /\ todo' = {} /\ mutex' = Free
    /\ UNCHANGED <<slot, emit>>

FlushDone ==
    /\ run = "flush" /\ todo = {}
    /\ FlushReturns("tick")
    /\ UNCHANGED <<file, socket, faults>>

FlushUndecodable ==
    /\ run = "flush" /\ todo # {} /\ file[First(todo)] = Torn
    /\ FlushReturns("stopped")
    /\ UNCHANGED <<file, socket, faults>>

FlushSend ==
    /\ run = "flush" /\ todo # {} /\ file[First(todo)] # Torn /\ CanSend
    /\ Send(file[First(todo)])
    /\ run' = "sent"
    /\ UNCHANGED <<outbox, emit, todo, faults>>

(* Mutant: the file is removed although the socket has refused it. *)
FlushNotSent_Removes ==
    /\ run = "flush" /\ todo # {} /\ file[First(todo)] # Torn /\ ~CanSend
    /\ file' = [file EXCEPT ![First(todo)] = Absent]
    /\ FlushReturns("tick")
    /\ UNCHANGED <<socket, faults>>

FlushNotSent ==
    /\ run = "flush" /\ todo # {} /\ file[First(todo)] # Torn /\ ~CanSend
    /\ FlushReturns("tick")
    /\ UNCHANGED <<file, socket, faults>>

(* Mutant: the loop goes on without removing the file. *)
FlushRemove_Keeps ==
    /\ run = "sent"
    /\ todo' = todo \ {First(todo)}
    /\ run' = "flush"
    /\ UNCHANGED <<outbox, emit, socket, faults>>

FlushRemove ==
    /\ run = "sent"
    /\ file' = [file EXCEPT ![First(todo)] = Absent]
    /\ todo' = todo \ {First(todo)}
    /\ run' = "flush"
    /\ UNCHANGED <<mutex, slot, emit, socket, faults>>

(* A file cannot be read or removed, or the clock was set back by more     *)
(* than Validate allows.                                                   *)
FlushFails ==
    /\ run \in {"flush", "sent"} /\ todo # {} /\ Fault
    /\ FlushReturns("stopped")
    /\ UNCHANGED <<file, socket>>

----------------------------------------------------------------------------
(* Listen gives the datagrams to its handler, in their order; without a    *)
(* word it passes over one that Decode refuses, as when the clock was set  *)
(* back since Send has validated it.                                       *)
Receive ==
    /\ listening /\ sock # <<>> /\ sock' = Tail(sock)
    /\ \/ received' = received \cup {Head(sock)} /\ UNCHANGED <<lost, faults>>
       \/ lost' = lost \cup {Head(sock)} /\ Fault /\ UNCHANGED received
    /\ UNCHANGED <<outbox, emit, run, todo, listening>>

(* Listen returns, or the Agent dies: with the socket go its datagrams. *)
AgentStops ==
    /\ listening /\ listening' = FALSE
    /\ lost' = lost \cup {sock[i] : i \in DOMAIN sock}
    /\ sock' = <<>>
    /\ UNCHANGED <<outbox, emit, run, todo, received, faults>>

AgentStarts ==
    /\ ~listening /\ listening' = TRUE
    /\ UNCHANGED <<outbox, emit, run, todo, sock, received, lost, faults>>

(* The gateway dies and is restarted: the Emits under way never return, a  *)
(* file that was being written stays as it is.                             *)
GatewayRestarts ==
    /\ Fault
    /\ emit' = [e \in Events |-> IF emit[e] \in {"send", "persist", "write"}
                                 THEN "error" ELSE emit[e]]
    /\ slot' = [e \in Events |-> Absent]
    /\ mutex' = Free /\ run' = "tick" /\ todo' = {}
    /\ UNCHANGED <<file, socket>>

----------------------------------------------------------------------------
EmitStep(e) ==
    \/ EmitSent(e) \/ EmitNotSent(e)
    \/ PersistCreate(e) \/ PersistRefused(e) \/ PersistWrite(e)

FlushStep ==
    \/ FlushBegin \/ FlushDone \/ FlushUndecodable
    \/ FlushSend \/ FlushNotSent \/ FlushRemove

Next ==
    \/ \E e \in Events : EmitBegin(e) \/ EmitStep(e) \/ PersistFails(e)
    \/ FlushStep \/ FlushFails
    \/ Receive \/ AgentStops \/ AgentStarts \/ GatewayRestarts

Spec == Init /\ [][Next]_vars

(* Goroutines run, a mutex is handed on, the ticker ticks, the Agent reads *)
(* its socket.  Rule matches, faults and restarts owe nothing.             *)
FairSpec ==
    /\ Spec
    /\ \A e \in Events : SF_vars(EmitStep(e))
    /\ SF_vars(FlushStep)
    /\ WF_vars(Receive)

----------------------------------------------------------------------------
Kept(e) == \E n \in Names : file[n] = e
InSocket(e) == \E i \in DOMAIN sock : sock[i] = e

(* An event that Emit took is always somewhere, through a full socket, a   *)
(* crash between the send and the removal, and a restart of either side:   *)
(* in a file, in the socket, with the Agent, or lost: passed over by       *)
(* Listen, or with a socket that the Agent closed before it had read it    *)
(* (INTEGRATION_CHECKS.md line 122 promises that events are kept while the *)
(* Agent restarts).                                                        *)
EmittedAccounted ==
    \A e \in Events : emit[e] = "nil" =>
        \/ Kept(e) \/ InSocket(e)
        \/ e \in received \/ e \in lost

(* Emit keeps the outbox within its limit however many requests match at   *)
(* once and whatever a crash has left in it.                               *)
OutboxBounded == Cardinality(outboxFiles) <= MaxEvents

(* The goroutine Run ends only after a failure: Flush never meets a file   *)
(* that a concurrent Emit is still writing.                                *)
RunStopsOnlyOnFault == run = "stopped" => faults > 0

(* Without a failure an event is forwarded once: it is not left in the     *)
(* outbox when it has been sent, except while Flush is removing it.        *)
ForwardedOnce ==
    faults = 0 => \A n \in outboxFiles :
        /\ \/ run = "sent" /\ n = First(todo)
           \/ ~InSocket(file[n]) /\ file[n] \notin received \cup lost
        /\ \A m \in outboxFiles \ {n} : file[m] # file[n]

(* While the Agent listens and Run has not stopped, the outbox empties.    *)
DrainsUnlessStopped ==
    <>[](listening /\ run # "stopped") => <>[](outboxFiles = {})
=============================================================================
