---------------------------- MODULE GatewayProofs ----------------------------
(***************************************************************************)
(* What holds of the gateway for every number of requests, file names and  *)
(* limits.  For its outbox: the type invariant, the limit (OutboxBounded), *)
(* that no taken event disappears (EmittedAccounted), that Run ends only   *)
(* after a failure (RunStopsOnlyOnFault) and that an event is forwarded    *)
(* once (ForwardedOnce).  For the requests: that the gateway never gives   *)
(* an answer of its own to a request it sent on (AnswerTrue).              *)
(***************************************************************************)
EXTENDS Gateway, FiniteSetTheorems, WellFoundedInduction, SequenceTheorems, TLAPS

(* The mutex: an Emit that writes has it, and the file it writes is torn;  *)
(* a Flush has it from its listing to its return.                          *)
LockInv ==
    /\ \A e \in Events : (emit[e] = "write") <=> (mutex = e)
    /\ \A e \in Events : emit[e] = "write" => slot[e] \in Names /\ file[slot[e]] = Torn
    /\ run \in {"flush", "sent"} <=> mutex = Run

(* An event that was sent: in the socket, with the Agent, or lost. *)
OnTheWay(e) == InSocket(e) \/ e \in received \/ e \in lost

(* What a Flush has listed stays until it is removed; what it has sent is  *)
(* an event, and it is on its way to the Agent.                            *)
FlushInv ==
    /\ run \in {"flush", "sent"} => todo \subseteq outboxFiles
    /\ run = "sent" =>
          todo # {} /\ file[First(todo)] \in Events /\ OnTheWay(file[First(todo)])

(* As long as nothing has failed, a file is torn only while Emit writes    *)
(* it, Run runs, and an event has one place: its Emit, its file, or the    *)
(* way to the Agent.                                                       *)
NoFaultInv ==
    faults = 0 =>
        /\ run # "stopped"
        /\ \A n \in Names : file[n] = Torn => \E e \in Events : emit[e] = "write" /\ slot[e] = n
        /\ \A n \in Names : file[n] \in Events =>
              /\ emit[file[n]] = "nil"
              /\ (run = "sent" /\ n = First(todo)) \/ ~OnTheWay(file[n])
              /\ \A m \in Names \ {n} : file[m] # file[n]
        /\ \A e \in Events :
              emit[e] \in {"new", "send", "persist", "write"} => ~OnTheWay(e)

(* What Emit took is in a file or was sent. *)
TakenInv == \A e \in Events : emit[e] = "nil" => Kept(e) \/ OnTheWay(e)

SizeInv == IsFiniteSet(outboxFiles) /\ OutboxBounded

OutboxInv == OutboxTypeOK /\ LockInv /\ FlushInv /\ NoFaultInv /\ TakenInv /\ SizeInv

----------------------------------------------------------------------------
(* Flush takes the smallest name of its listing. *)
LEMMA FirstIsLeast ==
    ASSUME NEW S \in SUBSET Nat, S # {}
    PROVE  First(S) \in S /\ \A m \in S : First(S) <= m
<1>1. \E x \in S : \A y \in S : ~ (<<y, x>> \in OpToRel(<, Nat))
  BY NatLessThanWellFounded, WFMin
<1>2. PICK x \in S : \A y \in S : ~ (<<y, x>> \in OpToRel(<, Nat))
  BY <1>1
<1>3. \A y \in S : x <= y
  <2> TAKE y \in S
  <2>1. x \in Nat /\ y \in Nat
    OBVIOUS
  <2>2. ~(y < x)
    BY <1>2, <2>1 DEF OpToRel
  <2> QED BY <2>1, <2>2
<1> QED BY <1>3 DEF First

(* A send puts one more event on the way (localfeed.Send). *)
LEMMA SendOnTheWay ==
    ASSUME sock \in Seq(Events), NEW e \in Events, Send(e)
    PROVE  /\ sock' \in Seq(Events) /\ Len(sock') = Len(sock) + 1
           /\ \A x : OnTheWay(x)' <=> OnTheWay(x) \/ x = e
<1>1. /\ sock' = Append(sock, e) /\ received' = received /\ lost' = lost
  BY DEF Send
<1>2. /\ sock' \in Seq(Events) /\ Len(sock') = Len(sock) + 1
      /\ \A i \in 1..Len(sock) : sock'[i] = sock[i]
      /\ sock'[Len(sock) + 1] = e
  BY <1>1, AppendProperties
<1>3. /\ DOMAIN sock = 1..Len(sock) /\ DOMAIN sock' = 1..(Len(sock) + 1)
      /\ Len(sock) \in Nat
  BY <1>2, LenProperties
<1>4. ASSUME NEW x PROVE InSocket(x)' <=> InSocket(x) \/ x = e
  BY <1>2, <1>3 DEF InSocket
<1> QED BY <1>1, <1>2, <1>4 DEF OnTheWay

(* Listen and the end of Listen move events along, and account for all. *)
LEMMA ListenOnTheWay ==
    ASSUME sock \in Seq(Events), received \in SUBSET Events, lost \in SUBSET Events,
           Len(sock) <= SocketSize, SocketSize \in Nat,
           Receive \/ AgentStops
    PROVE  /\ sock' \in Seq(Events) /\ Len(sock') <= SocketSize
           /\ received' \in SUBSET Events /\ lost' \in SUBSET Events
           /\ \A x : OnTheWay(x)' <=> OnTheWay(x)
<1>0. DOMAIN sock = 1..Len(sock) /\ Len(sock) \in Nat /\ \A i \in 1..Len(sock) : sock[i] \in Events
  BY LenProperties, ElementOfSeq
<1>1. CASE Receive
  <2>1. /\ sock # <<>> /\ sock' = Tail(sock)
        /\ \/ lost' = lost /\ received' = received \cup {Head(sock)}
           \/ received' = received /\ lost' = lost \cup {Head(sock)}
    BY <1>1 DEF Receive
  <2>2. /\ sock' \in Seq(Events) /\ Len(sock') = Len(sock) - 1
        /\ \A i \in 1..Len(sock') : sock'[i] = sock[i + 1]
        /\ Head(sock) = sock[1] /\ Len(sock) > 0
    BY <2>1, HeadTailProperties, EmptySeq, <1>0
  <2>3. DOMAIN sock' = 1..Len(sock')
    BY <2>2, LenProperties
  <2>4. ASSUME NEW x PROVE InSocket(x) <=> InSocket(x)' \/ x = Head(sock)
    <3>1. ASSUME InSocket(x) PROVE InSocket(x)' \/ x = Head(sock)
      <4>1. PICK i \in 1..Len(sock) : sock[i] = x
        BY <3>1, <1>0 DEF InSocket
      <4>2. CASE i = 1
        BY <4>1, <4>2, <2>2
      <4>3. CASE i # 1
        <5>1. i - 1 \in 1..Len(sock') /\ sock'[i - 1] = sock[(i - 1) + 1]
          BY <4>3, <2>2, <1>0
        <5>2. (i - 1) + 1 = i
          BY <1>0
        <5> QED BY <5>1, <5>2, <4>1, <2>3 DEF InSocket
      <4> QED BY <4>2, <4>3
    <3>2. ASSUME InSocket(x)' PROVE InSocket(x)
      <4>1. PICK i \in 1..Len(sock') : sock'[i] = x
        BY <3>2, <2>3 DEF InSocket
      <4>2. i + 1 \in 1..Len(sock) /\ sock[i + 1] = x
        BY <4>1, <2>2, <1>0
      <4> QED BY <4>2, <1>0 DEF InSocket
    <3>3. ASSUME x = Head(sock) PROVE InSocket(x)
      <4>1. 1 \in DOMAIN sock /\ sock[1] = x
        BY <3>3, <2>2, <1>0
      <4> QED BY <4>1 DEF InSocket
    <3> QED BY <3>1, <3>2, <3>3
  <2>5. Head(sock) \in Events
    BY <2>2, <1>0
  <2> QED BY <2>1, <2>2, <2>4, <2>5, <1>0 DEF OnTheWay
<1>2. CASE AgentStops
  <2>1. /\ sock' = <<>> /\ received' = received
        /\ lost' = lost \cup {sock[i] : i \in DOMAIN sock}
    BY <1>2 DEF AgentStops
  <2>2. sock' \in Seq(Events) /\ Len(sock') = 0 /\ DOMAIN sock' = 1..0
    BY <2>1, EmptySeq, LenProperties
  <2>3. lost' \in SUBSET Events
    BY <2>1, <1>0
  <2>4. ASSUME NEW x PROVE OnTheWay(x)' <=> OnTheWay(x)
    BY <2>1, <2>2 DEF OnTheWay, InSocket
  <2> QED BY <2>1, <2>2, <2>3, <2>4
<1> QED BY <1>1, <1>2

----------------------------------------------------------------------------
(* An outbox that only loses files stays within its limit. *)
LEMMA SizeShrinks ==
    ASSUME SizeInv, outboxFiles' \subseteq outboxFiles
    PROVE  SizeInv'
<1>1. IsFiniteSet(outboxFiles') /\ Cardinality(outboxFiles') <= Cardinality(outboxFiles)
  BY FS_Subset DEF SizeInv
<1>2. Cardinality(outboxFiles') \in Nat /\ Cardinality(outboxFiles) \in Nat
  BY <1>1, FS_CardinalityType DEF SizeInv
<1> QED BY <1>1, <1>2, OutboxAssumption DEF SizeInv, OutboxBounded

(* The gateway starts with an empty outbox and no Emit. *)
LEMMA OutboxInit == Init => OutboxInv
<1> SUFFICES ASSUME Init PROVE OutboxInv
  OBVIOUS
<1> USE OutboxAssumption
<1>1. sock \in Seq(Events) /\ Len(sock) = 0 /\ DOMAIN sock = 1..0
  BY EmptySeq, LenProperties DEF Init
<1>2. OutboxTypeOK
  BY <1>1 DEF Init, OutboxTypeOK, EmitPC
<1>3. LockInv
  BY DEF Init, LockInv
<1>4. FlushInv
  BY DEF Init, FlushInv
<1>5. \A e : ~OnTheWay(e)
  BY <1>1 DEF Init, OnTheWay, InSocket
<1>6. NoFaultInv
  BY <1>5 DEF Init, NoFaultInv
<1>7. TakenInv
  BY DEF Init, TakenInv
<1>8. SizeInv
  <2>1. outboxFiles = {}
    BY DEF Init, outboxFiles
  <2> QED BY <2>1, FS_EmptySet DEF SizeInv, OutboxBounded
<1> QED BY <1>2, <1>3, <1>4, <1>6, <1>7, <1>8 DEF OutboxInv

(* The steps of Emit before its file and without one: the event goes into  *)
(* the socket or stays with Emit (Outbox.Emit, the refusal of persist).    *)
LEMMA EmitInv ==
    ASSUME OutboxInv, NEW e \in Events,
           EmitBegin(e) \/ EmitSent(e) \/ EmitNotSent(e) \/ PersistRefused(e)
    PROVE  OutboxInv'
<1> USE OutboxAssumption DEF EmitPC
<1>1. /\ UNCHANGED <<outbox, run, todo, received, lost, listening, faults>>
      /\ \E pc \in {"send", "persist", "nil", "error"} : emit' = [emit EXCEPT ![e] = pc]
      /\ emit[e] \in {"new", "send", "persist"}
  BY DEF EmitBegin, EmitSent, EmitNotSent, PersistRefused, Becomes, Send, socket
<1>2. /\ OutboxTypeOK /\ LockInv /\ FlushInv /\ NoFaultInv /\ TakenInv /\ SizeInv
  BY DEF OutboxInv
<1>3. emit \in [Events -> EmitPC] /\ emit' \in [Events -> EmitPC]
  BY <1>1, <1>2 DEF OutboxTypeOK
<1>4. \A x \in Events : x # e => emit'[x] = emit[x]
  BY <1>1, <1>3
<1>5. outboxFiles' = outboxFiles
  BY <1>1 DEF outboxFiles, outbox
<1>6. SizeInv'
  BY <1>2, <1>5, SizeShrinks
<1>7. LockInv'
  BY <1>1, <1>2, <1>3, <1>4 DEF LockInv, outbox
<1>8. CASE EmitSent(e)
  <2>1. /\ sock' \in Seq(Events) /\ Len(sock') = Len(sock) + 1
        /\ \A x : OnTheWay(x)' <=> OnTheWay(x) \/ x = e
    BY <1>2, <1>8, SendOnTheWay DEF EmitSent, OutboxTypeOK
  <2>2. Len(sock) \in Nat /\ Len(sock) < SocketSize /\ emit[e] = "send" /\ emit'[e] = "nil"
    BY <1>2, <1>3, <1>8, LenProperties DEF OutboxTypeOK, EmitSent, CanSend, Becomes
  <2>3. OutboxTypeOK'
    BY <1>1, <1>2, <1>3, <2>1, <2>2 DEF OutboxTypeOK, outbox
  <2>4. FlushInv'
    BY <1>1, <1>2, <1>5, <2>1 DEF FlushInv, outbox
  <2>5. NoFaultInv'
    BY <1>1, <1>2, <1>4, <2>1, <2>2 DEF NoFaultInv, outbox
  <2>6. TakenInv'
    BY <1>1, <1>2, <1>4, <2>1 DEF TakenInv, Kept, outbox
  <2> QED BY <1>6, <1>7, <2>3, <2>4, <2>5, <2>6 DEF OutboxInv
<1>9. CASE EmitBegin(e) \/ EmitNotSent(e) \/ PersistRefused(e)
  <2>1. emit'[e] \in {"send", "persist", "error"} /\ UNCHANGED sock
    BY <1>3, <1>9 DEF EmitBegin, EmitNotSent, PersistRefused, Becomes, socket
  <2>2. \A x : OnTheWay(x)' <=> OnTheWay(x)
    BY <1>1, <2>1 DEF OnTheWay, InSocket
  <2>3. OutboxTypeOK'
    BY <1>1, <1>2, <1>3, <2>1 DEF OutboxTypeOK, outbox
  <2>4. FlushInv'
    BY <1>1, <1>2, <1>5, <2>2 DEF FlushInv, outbox
  <2>5. NoFaultInv'
    BY <1>1, <1>2, <1>4, <2>1, <2>2 DEF NoFaultInv, outbox
  <2>6. TakenInv'
    BY <1>1, <1>2, <1>4, <2>1, <2>2 DEF TakenInv, Kept, outbox
  <2> QED BY <1>6, <1>7, <2>3, <2>4, <2>5, <2>6 DEF OutboxInv
<1> QED BY <1>8, <1>9

(* persist creates a file only below the limit, and under the mutex. *)
LEMMA PersistCreateInv ==
    ASSUME OutboxInv, NEW e \in Events, PersistCreate(e)
    PROVE  OutboxInv'
<1> USE OutboxAssumption DEF EmitPC
<1>1. /\ emit[e] = "persist" /\ mutex = Free /\ Cardinality(outboxFiles) < MaxEvents
      /\ mutex' = e /\ emit' = [emit EXCEPT ![e] = "write"]
      /\ UNCHANGED <<run, todo, sock, listening, received, lost, faults>>
  BY DEF PersistCreate, Becomes, socket
<1>2. PICK n \in Names \ outboxFiles :
          file' = [file EXCEPT ![n] = Torn] /\ slot' = [slot EXCEPT ![e] = n]
  BY DEF PersistCreate
<1>3. OutboxTypeOK /\ LockInv /\ FlushInv /\ NoFaultInv /\ TakenInv /\ SizeInv
  BY DEF OutboxInv
<1>4. /\ file[n] = Absent /\ file'[n] = Torn /\ slot'[e] = n /\ emit'[e] = "write"
      /\ \A m \in Names : m # n => file'[m] = file[m]
      /\ \A x \in Events : x # e => emit'[x] = emit[x] /\ slot'[x] = slot[x]
  BY <1>1, <1>2, <1>3 DEF OutboxTypeOK, outboxFiles
<1>5. \A x : OnTheWay(x)' <=> OnTheWay(x)
  BY <1>1 DEF OnTheWay, InSocket
<1>6. run \notin {"flush", "sent"} /\ \A x \in Events : emit[x] # "write"
  BY <1>1, <1>3 DEF LockInv
<1>7. OutboxTypeOK'
  BY <1>1, <1>2, <1>3 DEF OutboxTypeOK
<1>8. LockInv'
  BY <1>1, <1>2, <1>4, <1>6 DEF LockInv
<1>9. FlushInv'
  BY <1>1, <1>6 DEF FlushInv
<1>10. NoFaultInv'
  BY <1>1, <1>3, <1>4, <1>5, <1>6 DEF NoFaultInv, OutboxTypeOK
<1>11. TakenInv'
  <2> SUFFICES ASSUME NEW x \in Events, emit'[x] = "nil" PROVE Kept(x)' \/ OnTheWay(x)'
    BY DEF TakenInv
  <2>1. Kept(x) \/ OnTheWay(x)
    BY <1>3, <1>4 DEF TakenInv
  <2>2. Kept(x) => Kept(x)'
    BY <1>4 DEF Kept
  <2> QED BY <1>5, <2>1, <2>2
<1>12. SizeInv'
  <2>1. outboxFiles' = outboxFiles \cup {n}
    BY <1>4 DEF outboxFiles
  <2>2. IsFiniteSet(outboxFiles') /\ Cardinality(outboxFiles') = Cardinality(outboxFiles) + 1
    BY <1>2, <1>3, <2>1, FS_AddElement DEF SizeInv
  <2>3. Cardinality(outboxFiles) \in Nat
    BY <1>3, FS_CardinalityType DEF SizeInv
  <2> QED BY <1>1, <2>2, <2>3 DEF SizeInv, OutboxBounded
<1> QED BY <1>7, <1>8, <1>9, <1>10, <1>11, <1>12 DEF OutboxInv

(* persist returns: with the event in its file, or with the file removed. *)
LEMMA PersistReturnsInv ==
    ASSUME OutboxInv, NEW e \in Events, PersistWrite(e) \/ PersistFails(e)
    PROVE  OutboxInv'
<1> USE OutboxAssumption DEF EmitPC
<1>1. OutboxTypeOK /\ LockInv /\ FlushInv /\ NoFaultInv /\ TakenInv /\ SizeInv
  BY DEF OutboxInv
<1>2. PICK content \in {e, Absent}, result \in {"nil", "error"} :
          /\ PersistReturns(e, content, result)
          /\ content = e <=> result = "nil"
          /\ faults' \in 0..MaxFaults /\ (faults' = 0 => faults = 0 /\ content = e)
  BY <1>1 DEF PersistWrite, PersistFails, Fault, OutboxTypeOK
<1>3. /\ emit[e] = "write" /\ mutex' = Free
      /\ file' = [file EXCEPT ![slot[e]] = content] /\ slot' = [slot EXCEPT ![e] = Absent]
      /\ emit' = [emit EXCEPT ![e] = result]
      /\ UNCHANGED <<run, todo, sock, listening, received, lost>>
  BY <1>2 DEF PersistReturns, Becomes, socket
<1>4. /\ slot[e] \in Names /\ file[slot[e]] = Torn /\ mutex = e
      /\ run \notin {"flush", "sent"}
      /\ \A x \in Events : x # e => emit[x] # "write"
  BY <1>1, <1>3 DEF LockInv
<1>5. /\ file'[slot[e]] = content /\ emit'[e] = result
      /\ \A m \in Names : m # slot[e] => file'[m] = file[m]
      /\ \A x \in Events : x # e => emit'[x] = emit[x]
  BY <1>1, <1>3, <1>4 DEF OutboxTypeOK
<1>6. \A x : OnTheWay(x)' <=> OnTheWay(x)
  BY <1>3 DEF OnTheWay, InSocket
<1>7. OutboxTypeOK'
  BY <1>1, <1>2, <1>3, <1>4 DEF OutboxTypeOK
<1>8. LockInv'
  BY <1>3, <1>4, <1>5 DEF LockInv
<1>9. FlushInv'
  BY <1>3, <1>4 DEF FlushInv
<1>10. NoFaultInv'
  <2> SUFFICES ASSUME faults' = 0 PROVE NoFaultInv!2'
    BY DEF NoFaultInv
  <2>1. faults = 0 /\ content = e /\ result = "nil"
    BY <1>2
  <2>2. \A n \in Names : file[n] # e
    BY <1>1, <1>3, <2>1 DEF NoFaultInv
  <2>3. \A n \in Names : n # slot[e] => file[n] # Torn
    BY <1>1, <1>4, <2>1 DEF NoFaultInv
  <2>4. ~OnTheWay(e)
    BY <1>1, <1>3, <2>1 DEF NoFaultInv
  <2>5. run' # "stopped" /\ run' # "sent"
    BY <1>1, <1>3, <1>4, <2>1 DEF NoFaultInv
  <2>6. ASSUME NEW n \in Names PROVE file'[n] # Torn
    <3>1. CASE n = slot[e]
      BY <1>5, <2>1, <3>1
    <3>2. CASE n # slot[e]
      BY <1>5, <2>3, <3>2
    <3> QED BY <3>1, <3>2
  <2>7. ASSUME NEW n \in Names, file'[n] \in Events
        PROVE  /\ emit'[file'[n]] = "nil" /\ ~OnTheWay(file[n])'
               /\ \A m \in Names \ {n} : file'[m] # file'[n]
    <3>1. CASE n = slot[e]
      BY <1>5, <1>6, <2>1, <2>2, <2>4, <3>1
    <3>2. CASE n # slot[e]
      <4>1. /\ file'[n] = file[n] /\ file[n] # e /\ emit[file[n]] = "nil" /\ ~OnTheWay(file[n])
            /\ \A m \in Names \ {n} : file[m] # file[n]
        BY <1>1, <1>3, <1>4, <1>5, <2>1, <2>2, <2>7, <3>2 DEF NoFaultInv
      <4> QED BY <1>5, <1>6, <2>1, <2>7, <4>1
    <3> QED BY <3>1, <3>2
  <2>8. ASSUME NEW x \in Events, emit'[x] \in {"new", "send", "persist", "write"}
        PROVE  ~OnTheWay(x)'
    BY <1>1, <1>5, <1>6, <2>1, <2>8 DEF NoFaultInv
  <2> QED BY <2>5, <2>6, <2>7, <2>8
<1>11. TakenInv'
  <2> SUFFICES ASSUME NEW x \in Events, emit'[x] = "nil" PROVE Kept(x)' \/ OnTheWay(x)'
    BY DEF TakenInv
  <2>1. CASE x = e
    BY <1>2, <1>4, <1>5, <2>1 DEF Kept
  <2>2. CASE x # e
    <3>1. Kept(x) \/ OnTheWay(x)
      BY <1>1, <1>5, <2>2 DEF TakenInv
    <3>2. Kept(x) => Kept(x)'
      BY <1>4, <1>5 DEF Kept
    <3> QED BY <1>6, <3>1, <3>2
  <2> QED BY <2>1, <2>2
<1>12. SizeInv'
  <2>1. outboxFiles' \subseteq outboxFiles
    BY <1>4, <1>5 DEF outboxFiles
  <2> QED BY <1>1, <2>1, SizeShrinks
<1> QED BY <1>7, <1>8, <1>9, <1>10, <1>11, <1>12 DEF OutboxInv

(* Flush lists and returns: the outbox and the socket stay as they are. *)
LEMMA FlushReturnsInv ==
    ASSUME OutboxInv,
           FlushBegin \/ FlushDone \/ FlushUndecodable \/ FlushNotSent \/ FlushFails
    PROVE  OutboxInv'
<1> USE OutboxAssumption DEF EmitPC
<1>1. OutboxTypeOK /\ LockInv /\ FlushInv /\ NoFaultInv /\ TakenInv /\ SizeInv
  BY DEF OutboxInv
<1>2. UNCHANGED <<file, slot, emit, sock, listening, received, lost>>
  BY DEF FlushBegin, FlushDone, FlushUndecodable, FlushNotSent, FlushFails,
         FlushReturns, socket
<1>3. outboxFiles' = outboxFiles
  BY <1>2 DEF outboxFiles
<1>4. \A x : OnTheWay(x)' <=> OnTheWay(x)
  BY <1>2 DEF OnTheWay, InSocket
<1>5. SizeInv' /\ TakenInv'
  BY <1>1, <1>2, <1>3, <1>4, SizeShrinks DEF TakenInv, Kept
<1>6. CASE FlushBegin
  <2>1. /\ run = "tick" /\ mutex = Free /\ mutex' = Run /\ run' = "flush"
        /\ todo' = Listed /\ faults' = faults
    BY <1>6 DEF FlushBegin
  <2>2. Listed \subseteq outboxFiles /\ outboxFiles \subseteq Names
    BY DEF Listed, outboxFiles
  <2>3. OutboxTypeOK'
    BY <1>1, <1>2, <2>1, <2>2 DEF OutboxTypeOK
  <2>4. LockInv'
    BY <1>1, <1>2, <2>1 DEF LockInv
  <2>5. FlushInv'
    BY <1>3, <2>1, <2>2 DEF FlushInv
  <2>6. NoFaultInv'
    BY <1>1, <1>2, <1>4, <2>1 DEF NoFaultInv
  <2> QED BY <1>5, <2>3, <2>4, <2>5, <2>6 DEF OutboxInv
<1>7. CASE FlushDone \/ FlushUndecodable \/ FlushNotSent \/ FlushFails
  <2>1. /\ run \in {"flush", "sent"} /\ mutex' = Free /\ run' \in {"tick", "stopped"} /\ todo' = {}
        /\ faults' \in 0..MaxFaults
        /\ faults' = 0 => faults = 0 /\ run = "flush"
    BY <1>1, <1>7 DEF FlushDone, FlushUndecodable, FlushNotSent, FlushFails,
       FlushReturns, Fault, OutboxTypeOK
  <2>2. mutex = Run /\ \A x \in Events : emit[x] # "write"
    BY <1>1, <2>1 DEF LockInv
  <2>3. faults' = 0 => run' # "stopped"
    <3>1. CASE FlushUndecodable
      <4>1. todo # {} /\ todo \subseteq outboxFiles /\ file[First(todo)] = Torn
        BY <1>1, <3>1 DEF FlushUndecodable, FlushInv
      <4>2. First(todo) \in Names
        BY <4>1, FirstIsLeast DEF outboxFiles
      <4>3. faults # 0
        BY <1>1, <2>2, <4>1, <4>2 DEF NoFaultInv
      <4> QED BY <2>1, <4>3
    <3>2. CASE FlushDone \/ FlushNotSent
      BY <3>2 DEF FlushDone, FlushNotSent, FlushReturns
    <3>3. CASE FlushFails
      BY <1>1, <3>3 DEF FlushFails, Fault, OutboxTypeOK
    <3> QED BY <1>7, <3>1, <3>2, <3>3
  <2>4. OutboxTypeOK'
    BY <1>1, <1>2, <2>1 DEF OutboxTypeOK
  <2>5. LockInv'
    BY <1>1, <1>2, <2>1, <2>2 DEF LockInv
  <2>6. FlushInv'
    BY <2>1 DEF FlushInv
  <2>7. NoFaultInv'
    BY <1>1, <1>2, <1>4, <2>1, <2>3 DEF NoFaultInv
  <2> QED BY <1>5, <2>4, <2>5, <2>6, <2>7 DEF OutboxInv
<1> QED BY <1>6, <1>7

(* Flush sends the first file it has listed. *)
LEMMA FlushSendInv ==
    ASSUME OutboxInv, FlushSend
    PROVE  OutboxInv'
<1> USE OutboxAssumption DEF EmitPC
<1>1. OutboxTypeOK /\ LockInv /\ FlushInv /\ NoFaultInv /\ TakenInv /\ SizeInv
  BY DEF OutboxInv
<1>2. /\ run = "flush" /\ run' = "sent" /\ todo # {} /\ file[First(todo)] # Torn
      /\ UNCHANGED <<file, mutex, slot, emit, todo, faults>> /\ CanSend
      /\ Send(file[First(todo)])
  BY DEF FlushSend, outbox
<1>3. todo \subseteq outboxFiles
  BY <1>1, <1>2 DEF FlushInv
<1>4. First(todo) \in Names /\ file[First(todo)] # Absent
  BY <1>2, <1>3, FirstIsLeast DEF outboxFiles
<1>5. file[First(todo)] \in Events
  BY <1>1, <1>2, <1>4 DEF OutboxTypeOK
<1>6. /\ sock' \in Seq(Events) /\ Len(sock') = Len(sock) + 1
      /\ \A x : OnTheWay(x)' <=> OnTheWay(x) \/ x = file[First(todo)]
  BY <1>1, <1>2, <1>5, SendOnTheWay DEF OutboxTypeOK
<1>7. Len(sock) < SocketSize /\ Len(sock) \in Nat /\ UNCHANGED <<listening, received, lost>>
  BY <1>1, <1>2, LenProperties DEF CanSend, Send, OutboxTypeOK
<1>8. OutboxTypeOK'
  BY <1>1, <1>2, <1>6, <1>7 DEF OutboxTypeOK
<1>9. LockInv'
  BY <1>1, <1>2 DEF LockInv
<1>10. FlushInv'
  BY <1>2, <1>3, <1>5, <1>6 DEF FlushInv, outboxFiles
<1>11. NoFaultInv'
  <2> SUFFICES ASSUME faults' = 0 PROVE NoFaultInv!2'
    BY DEF NoFaultInv
  <2>1. faults = 0
    BY <1>2
  <2>2. emit[file[First(todo)]] = "nil"
    BY <1>1, <1>4, <1>5, <2>1 DEF NoFaultInv
  <2>3. ASSUME NEW n \in Names, file[n] \in Events
        PROVE  n = First(todo) \/ ~OnTheWay(file[n])'
    <3> SUFFICES ASSUME n # First(todo) PROVE ~OnTheWay(file[n])'
      OBVIOUS
    <3>1. ~OnTheWay(file[n]) /\ file[First(todo)] # file[n]
      BY <1>1, <1>2, <1>4, <2>1, <2>3 DEF NoFaultInv
    <3> QED BY <1>2, <1>6, <3>1
  <2>4. ASSUME NEW x \in Events, emit[x] \in {"new", "send", "persist", "write"}
        PROVE  ~OnTheWay(x)'
    BY <1>1, <1>6, <2>1, <2>2, <2>4 DEF NoFaultInv
  <2> QED BY <1>1, <1>2, <2>1, <2>3, <2>4 DEF NoFaultInv
<1>12. TakenInv'
  BY <1>1, <1>2, <1>6 DEF TakenInv, Kept
<1>13. SizeInv'
  BY <1>1, <1>2, SizeShrinks DEF outboxFiles
<1> QED BY <1>8, <1>9, <1>10, <1>11, <1>12, <1>13 DEF OutboxInv

(* Flush removes the file whose event it has sent. *)
LEMMA FlushRemoveInv ==
    ASSUME OutboxInv, FlushRemove
    PROVE  OutboxInv'
<1> USE OutboxAssumption DEF EmitPC
<1>1. OutboxTypeOK /\ LockInv /\ FlushInv /\ NoFaultInv /\ TakenInv /\ SizeInv
  BY DEF OutboxInv
<1> DEFINE f == First(todo)
<1>2. /\ run = "sent" /\ run' = "flush"
      /\ file' = [file EXCEPT ![f] = Absent] /\ todo' = todo \ {f}
      /\ UNCHANGED <<mutex, slot, emit, sock, listening, received, lost, faults>>
  BY DEF FlushRemove, socket
<1>3. todo \subseteq outboxFiles /\ file[f] \in Events /\ OnTheWay(file[f]) /\ todo # {}
  BY <1>1, <1>2 DEF FlushInv
<1>4. f \in Names
  BY <1>3, FirstIsLeast DEF outboxFiles
<1>5. file'[f] = Absent /\ \A n \in Names : n # f => file'[n] = file[n]
  BY <1>1, <1>2, <1>4 DEF OutboxTypeOK
<1> HIDE DEF f
<1>6. \A x : OnTheWay(x)' <=> OnTheWay(x)
  BY <1>2 DEF OnTheWay, InSocket
<1>7. \A x \in Events : emit[x] # "write"
  BY <1>1, <1>2 DEF LockInv
<1>8. OutboxTypeOK'
  BY <1>1, <1>2, <1>4 DEF OutboxTypeOK
<1>9. LockInv'
  BY <1>1, <1>2, <1>7 DEF LockInv
<1>10. FlushInv'
  BY <1>2, <1>3, <1>5 DEF FlushInv, outboxFiles
<1>11. NoFaultInv'
  <2> SUFFICES ASSUME faults' = 0 PROVE NoFaultInv!2'
    BY DEF NoFaultInv
  <2>1. faults = 0 /\ run' # "stopped"
    BY <1>2
  <2>2. ASSUME NEW n \in Names PROVE file'[n] # Torn
    BY <1>1, <1>5, <1>7, <2>1 DEF NoFaultInv
  <2>3. ASSUME NEW n \in Names, file'[n] \in Events
        PROVE  /\ emit'[file'[n]] = "nil" /\ ~OnTheWay(file[n])'
               /\ \A m \in Names \ {n} : file'[m] # file'[n]
    <3>1. n # f /\ file'[n] = file[n]
      BY <1>5, <2>3
    <3>2. /\ emit[file[n]] = "nil" /\ ~OnTheWay(file[n])
          /\ \A m \in Names \ {n} : file[m] # file[n]
      BY <1>1, <2>1, <2>3, <3>1 DEF NoFaultInv, f
    <3> QED BY <1>2, <1>5, <1>6, <2>3, <3>1, <3>2
  <2>4. \A x \in Events : emit'[x] \in {"new", "send", "persist", "write"} => ~OnTheWay(x)'
    BY <1>1, <1>2, <1>6, <2>1 DEF NoFaultInv
  <2> QED BY <2>1, <2>2, <2>3, <2>4
<1>12. TakenInv'
  <2> SUFFICES ASSUME NEW x \in Events, emit[x] = "nil" PROVE Kept(x)' \/ OnTheWay(x)'
    BY <1>2 DEF TakenInv
  <2>1. Kept(x) \/ OnTheWay(x)
    BY <1>1 DEF TakenInv
  <2>2. ASSUME NEW n \in Names, file[n] = x PROVE Kept(x)' \/ OnTheWay(x)
    BY <1>3, <1>5, <2>2 DEF Kept
  <2> QED BY <1>6, <2>1, <2>2 DEF Kept
<1>13. SizeInv'
  <2>1. outboxFiles' \subseteq outboxFiles
    BY <1>5 DEF outboxFiles
  <2> QED BY <1>1, <2>1, SizeShrinks
<1> QED BY <1>8, <1>9, <1>10, <1>11, <1>12, <1>13 DEF OutboxInv

(* The Agent's end of the socket: events on the way stay on the way. *)
LEMMA ListenInv ==
    ASSUME OutboxInv, Receive \/ AgentStops \/ AgentStarts
    PROVE  OutboxInv'
<1> USE OutboxAssumption DEF EmitPC
<1>1. OutboxTypeOK /\ LockInv /\ FlushInv /\ NoFaultInv /\ TakenInv /\ SizeInv
  BY DEF OutboxInv
<1>2. /\ UNCHANGED <<file, mutex, slot, emit, run, todo>>
      /\ faults' \in 0..MaxFaults /\ (faults' = 0 => faults = 0)
  BY <1>1 DEF Receive, Fault, AgentStops, AgentStarts, outbox, OutboxTypeOK
<1>3. /\ OutboxTypeOK'
      /\ \A x : OnTheWay(x)' <=> OnTheWay(x)
  <2>1. CASE Receive \/ AgentStops
    <3>1. /\ sock' \in Seq(Events) /\ Len(sock') <= SocketSize
          /\ received' \in SUBSET Events /\ lost' \in SUBSET Events
          /\ \A x : OnTheWay(x)' <=> OnTheWay(x)
      BY <1>1, <2>1, ListenOnTheWay DEF OutboxTypeOK
    <3>2. listening' \in BOOLEAN
      BY <1>1, <2>1 DEF OutboxTypeOK, Receive, AgentStops
    <3> QED BY <1>1, <1>2, <3>1, <3>2 DEF OutboxTypeOK
  <2>2. CASE AgentStarts
    BY <1>1, <1>2, <2>2 DEF OutboxTypeOK, AgentStarts, OnTheWay, InSocket
  <2> QED BY <2>1, <2>2
<1>4. LockInv'
  BY <1>1, <1>2 DEF LockInv
<1>5. FlushInv'
  BY <1>1, <1>2, <1>3 DEF FlushInv, outboxFiles
<1>6. NoFaultInv'
  BY <1>1, <1>2, <1>3 DEF NoFaultInv
<1>7. TakenInv'
  BY <1>1, <1>2, <1>3 DEF TakenInv, Kept
<1>8. SizeInv'
  BY <1>1, <1>2, SizeShrinks DEF outboxFiles
<1> QED BY <1>3, <1>4, <1>5, <1>6, <1>7, <1>8 DEF OutboxInv

(* A restart forgets what the Emits and the Flush were doing. *)
LEMMA RestartInv ==
    ASSUME OutboxInv, GatewayRestarts
    PROVE  OutboxInv'
<1> USE OutboxAssumption DEF EmitPC
<1>1. OutboxTypeOK /\ LockInv /\ FlushInv /\ NoFaultInv /\ TakenInv /\ SizeInv
  BY DEF OutboxInv
<1>2. /\ emit' = [e \in Events |-> IF emit[e] \in {"send", "persist", "write"}
                                   THEN "error" ELSE emit[e]]
      /\ slot' = [e \in Events |-> Absent]
      /\ mutex' = Free /\ run' = "tick" /\ todo' = {}
      /\ UNCHANGED <<file, sock, listening, received, lost>>
      /\ faults' \in 0..MaxFaults /\ faults' # 0
  BY <1>1 DEF GatewayRestarts, Fault, socket, OutboxTypeOK
<1>3. OutboxTypeOK'
  BY <1>1, <1>2 DEF OutboxTypeOK
<1>4. LockInv' /\ FlushInv' /\ NoFaultInv'
  BY <1>2 DEF LockInv, FlushInv, NoFaultInv
<1>5. TakenInv'
  BY <1>1, <1>2 DEF TakenInv, Kept, OnTheWay, InSocket
<1>6. SizeInv'
  BY <1>1, <1>2, SizeShrinks DEF outboxFiles
<1> QED BY <1>3, <1>4, <1>5, <1>6 DEF OutboxInv

(* Every step of the gateway's outbox and of the socket keeps the          *)
(* invariant.                                                              *)
LEMMA OutboxInvInductive == OutboxInv /\ [Next]_vars => OutboxInv'
<1> SUFFICES ASSUME OutboxInv, [Next]_vars PROVE OutboxInv'
  OBVIOUS
<1>1. ASSUME NEW e \in Events, EmitBegin(e) \/ EmitStep(e) \/ PersistFails(e) PROVE OutboxInv'
  BY <1>1, EmitInv, PersistCreateInv, PersistReturnsInv DEF EmitStep
<1>2. CASE FlushStep \/ FlushFails
  BY <1>2, FlushReturnsInv, FlushSendInv, FlushRemoveInv DEF FlushStep
<1>3. CASE Receive \/ AgentStops \/ AgentStarts \/ GatewayRestarts
  BY <1>3, ListenInv, RestartInv
<1>4. CASE UNCHANGED vars
  BY <1>4 DEF vars, outbox, socket, OutboxInv, OutboxTypeOK, LockInv, FlushInv, NoFaultInv,
     TakenInv, SizeInv, OutboxBounded, outboxFiles, OnTheWay, InSocket, Kept
<1> QED BY <1>1, <1>2, <1>3, <1>4 DEF Next

(* The invariant of the outbox holds always. *)
LEMMA OutboxInvHolds == Spec => []OutboxInv
<1> QED BY OutboxInit, OutboxInvInductive, PTL DEF Spec

(* The state of the outbox and the socket has its type, and the socket     *)
(* never holds more datagrams than it can (localfeed.Send).                *)
THEOREM OutboxTypeCorrect == Spec => []OutboxTypeOK
<1>1. OutboxInv => OutboxTypeOK
  BY DEF OutboxInv
<1> QED BY <1>1, OutboxInvHolds, PTL

(* No event that Emit took disappears between the gateway and the Agent    *)
(* (Outbox.Emit, persist, Flush; Send and Listen).                         *)
THEOREM EmittedStaysAccounted == Spec => []EmittedAccounted
<1>1. OutboxInv => EmittedAccounted
  BY DEF OutboxInv, TakenInv, EmittedAccounted, OnTheWay
<1> QED BY <1>1, OutboxInvHolds, PTL

(* The outbox never holds more files than its limit (persist). *)
THEOREM OutboxStaysBounded == Spec => []OutboxBounded
<1>1. OutboxInv => OutboxBounded
  BY DEF OutboxInv, SizeInv
<1> QED BY <1>1, OutboxInvHolds, PTL

(* Run never ends because of a file that an Emit is writing (Run, Flush). *)
THEOREM RunEndsOnlyOnFault == Spec => []RunStopsOnlyOnFault
<1>1. OutboxInv => RunStopsOnlyOnFault
  BY OutboxAssumption DEF OutboxInv, NoFaultInv, RunStopsOnlyOnFault, OutboxTypeOK
<1> QED BY <1>1, OutboxInvHolds, PTL

(* Without a failure no event is both kept and sent, but for the file that *)
(* Flush is about to remove, and none is kept twice (Emit, Flush).         *)
THEOREM EventsForwardedOnce == Spec => []ForwardedOnce
<1>1. ASSUME OutboxInv, faults = 0, NEW n \in outboxFiles
      PROVE  /\ \/ run = "sent" /\ n = First(todo)
                \/ ~InSocket(file[n]) /\ file[n] \notin received \cup lost
             /\ \A m \in outboxFiles \ {n} : file[m] # file[n]
  <2>1. OutboxTypeOK /\ LockInv /\ NoFaultInv /\ n \in Names
    BY <1>1 DEF OutboxInv, outboxFiles
  <2>2. CASE file[n] \in Events
    BY <1>1, <2>1, <2>2 DEF NoFaultInv, OnTheWay, outboxFiles
  <2>3. CASE file[n] = Torn
    <3>1. PICK e \in Events : emit[e] = "write" /\ slot[e] = n
      BY <1>1, <2>1, <2>3 DEF NoFaultInv
    <3>2. \A x \in Events : emit[x] = "write" => x = e
      BY <2>1, <3>1 DEF LockInv
    <3>3. \A m \in Names : file[m] = Torn => m = n
      BY <1>1, <2>1, <3>1, <3>2 DEF NoFaultInv
    <3>4. ~InSocket(Torn) /\ Torn \notin received \cup lost
      BY <2>1, OutboxAssumption, ElementOfSeq, LenProperties DEF OutboxTypeOK, InSocket
    <3> QED BY <2>3, <3>3, <3>4 DEF outboxFiles
  <2> QED BY <1>1, <2>1, <2>2, <2>3 DEF OutboxTypeOK, outboxFiles
<1>2. OutboxInv => ForwardedOnce
  BY <1>1 DEF ForwardedOnce
<1> QED BY <1>2, OutboxInvHolds, PTL

----------------------------------------------------------------------------
(* What a request that has an answer was told. *)
Told(e) ==
    \/ status[e] = "forbidden" /\ sent[e] = 0 /\ mode = "block"
    \/ status[e] = "unavailable" /\ sent[e] = 0 /\ policy = "fail_closed"
    \/ status[e] = "final" /\ sent[e] = 1 /\ answered[e] = "final"
    \/ status[e] = "bad gateway" /\ sent[e] = 1 /\ answered[e] = "error"
    \/ status[e] = "informational" /\ sent[e] = 1

(* Nobody has answered a request before the engine or the proxy returns,   *)
(* and it has been sent on exactly when the proxy was called.              *)
RequestInv ==
    \A e \in Events :
        /\ req[e] \in {"new", "inspect"} => status[e] = "none" /\ sent[e] = 0
        /\ req[e] \in {"forward", "direct"} => status[e] = "none" /\ sent[e] = 1
        /\ req[e] = "log" => (status[e] = "none" /\ sent[e] = 0) \/ Told(e)
        /\ req[e] = "done" => Told(e)

RequestTypeOK ==
    /\ mode \in {"bypass", "observe", "block"}
    /\ policy \in {"fail_open", "fail_closed"}
    /\ req \in [Events -> RequestPC]
    /\ status \in [Events -> Status]
    /\ sent \in [Events -> 0..1]
    /\ answered \in [Events -> {"none", "final", "error"}]

GatewayInv == RequestTypeOK /\ RequestInv

(* A step of one request touches no other request. *)
LEMMA OneRequest ==
    ASSUME GatewayInv, NEW e \in Events, UNCHANGED config, RequestTypeOK',
           \A x \in Events : x # e => /\ req'[x] = req[x] /\ status'[x] = status[x]
                                      /\ sent'[x] = sent[x] /\ answered'[x] = answered[x],
           RequestInv!(e)'
    PROVE  GatewayInv'
<1> SUFFICES ASSUME NEW x \in Events, x # e PROVE RequestInv!(x)'
  BY DEF GatewayInv, RequestInv
<1>1. RequestInv!(x)
  BY DEF GatewayInv, RequestInv
<1>2. Told(x) => Told(x)'
  BY DEF Told, config
<1> QED BY <1>1, <1>2

(* A call of the proxy sends the request on once (proxy.ServeHTTP). *)
LEMMA ProxySends ==
    ASSUME RequestTypeOK, NEW e \in Events, sent[e] = 0, NEW pc \in RequestPC, Proxy(e, pc)
    PROVE  /\ req' \in [Events -> RequestPC] /\ req' = [req EXCEPT ![e] = pc]
           /\ sent' \in [Events -> 0..1] /\ sent' = [sent EXCEPT ![e] = 1]
<1>1. req' = [req EXCEPT ![e] = pc] /\ sent' = [sent EXCEPT ![e] = sent[e] + 1]
  BY DEF Proxy, Goto
<1>2. sent[e] + 1 = 1
  OBVIOUS
<1>3. sent' = [sent EXCEPT ![e] = 1]
  BY <1>1, <1>2
<1> QED BY <1>1, <1>3 DEF RequestTypeOK

(* Request, the inspection, the proxy and the failure policy.  The status  *)
(* is written once, and only the call of the proxy counts as sent.         *)
LEMMA RequestStepInv ==
    ASSUME GatewayInv, NEW e \in Events, Request(e) \/ RequestStep(e)
    PROVE  GatewayInv'
<1> USE DEF RequestPC, Status, Goto
<1>1. RequestTypeOK /\ RequestInv!(e)
  BY DEF GatewayInv, RequestInv
<1>2. CASE Request(e)
  <2>1. RequestTypeOK' /\ UNCHANGED config
    BY <1>1, <1>2, ProxySends DEF Request, RequestTypeOK, config
  <2>2. \A x \in Events : x # e => /\ req'[x] = req[x] /\ status'[x] = status[x]
                                   /\ sent'[x] = sent[x] /\ answered'[x] = answered[x]
    BY <1>1, <1>2 DEF Request, Proxy, RequestTypeOK
  <2>3. RequestInv!(e)'
    BY <1>1, <1>2, ProxySends DEF Request, RequestTypeOK
  <2> QED BY <2>1, <2>2, <2>3, OneRequest
<1>3. CASE InspectionPasses(e) \/ InspectionBlocks(e) \/ InspectionFails(e)
  <2>1. RequestTypeOK' /\ UNCHANGED config
    BY <1>1, <1>3, ProxySends DEF InspectionPasses, InspectionBlocks, InspectionFails, Write,
       WriteHeader, RequestTypeOK, config
  <2>2. \A x \in Events : x # e => /\ req'[x] = req[x] /\ status'[x] = status[x]
                                   /\ sent'[x] = sent[x] /\ answered'[x] = answered[x]
    BY <1>1, <1>3 DEF Proxy, InspectionPasses, InspectionBlocks, InspectionFails, Write,
       RequestTypeOK
  <2>3. RequestInv!(e)'
    BY <1>1, <1>3, ProxySends DEF InspectionPasses, InspectionBlocks, InspectionFails, Write,
       WriteHeader, RequestTypeOK, Told, config
  <2> QED BY <2>1, <2>2, <2>3, OneRequest
<1>4. CASE UpstreamAnswers(e) \/ UpstreamFails(e)
  <2>1. RequestTypeOK' /\ UNCHANGED config
    BY <1>1, <1>4 DEF UpstreamAnswers, UpstreamFails, Answers, Write, WriteHeader,
       RequestTypeOK, config
  <2>2. \A x \in Events : x # e => /\ req'[x] = req[x] /\ status'[x] = status[x]
                                   /\ sent'[x] = sent[x] /\ answered'[x] = answered[x]
    BY <1>1, <1>4 DEF UpstreamAnswers, UpstreamFails, Answers, Write, RequestTypeOK
  <2>3. RequestInv!(e)'
    BY <1>1, <1>4 DEF UpstreamAnswers, UpstreamFails, Answers, Write, WriteHeader,
       RequestTypeOK, Told
  <2> QED BY <2>1, <2>2, <2>3, OneRequest
<1>5. CASE Returned(e)
  <2>1. RequestTypeOK' /\ UNCHANGED config
    BY <1>1, <1>5, ProxySends DEF Returned, Unanswered, Write, WriteHeader, RequestTypeOK, config, Told
  <2>2. \A x \in Events : x # e => /\ req'[x] = req[x] /\ status'[x] = status[x]
                                   /\ sent'[x] = sent[x] /\ answered'[x] = answered[x]
    BY <1>1, <1>5 DEF Returned, Proxy, Write, RequestTypeOK
  <2>3. RequestInv!(e)'
    BY <1>1, <1>5, ProxySends DEF Returned, Unanswered, Write, WriteHeader, RequestTypeOK, Told, config
  <2> QED BY <2>1, <2>2, <2>3, OneRequest
<1> QED BY <1>2, <1>3, <1>4, <1>5 DEF RequestStep

(* Every step of the gateway keeps the invariant of the requests; the      *)
(* steps of the channel do not touch them.                                 *)
LEMMA GatewayInvInductive == GatewayInv /\ [GatewayNext]_gatewayVars => GatewayInv'
<1> SUFFICES ASSUME GatewayInv, [GatewayNext]_gatewayVars PROVE GatewayInv'
  OBVIOUS
<1>1. ASSUME UNCHANGED <<config, requests>> PROVE GatewayInv'
  BY <1>1 DEF config, requests, GatewayInv, RequestTypeOK, RequestInv, Told
<1>2. ASSUME NEW e \in Events, Request(e) \/ RuleMatch(e) \/ RequestStep(e) \/ Emits(e)
      PROVE  GatewayInv'
  BY <1>1, <1>2, RequestStepInv DEF RuleMatch, Emits
<1>3. CASE Forwards \/ Listens \/ ChannelStep
  BY <1>1, <1>3 DEF Forwards, Listens, ChannelStep
<1>4. CASE GatewayDies
  BY <1>4 DEF GatewayDies, config, GatewayInv, RequestTypeOK, RequestInv, Told, RequestPC
<1>5. CASE UNCHANGED gatewayVars
  BY <1>1, <1>5 DEF gatewayVars
<1> QED BY <1>2, <1>3, <1>4, <1>5 DEF GatewayNext

(* Every step of the gateway is, for its outbox, a step of GatewayOutbox   *)
(* or none at all.                                                         *)
LEMMA GatewayStepIsOutboxStep == [GatewayNext]_gatewayVars => [Next]_vars
<1> SUFFICES ASSUME [GatewayNext]_gatewayVars PROVE [Next]_vars
  OBVIOUS
<1>1. ASSUME NEW e \in Events, Request(e) \/ RequestStep(e) PROVE UNCHANGED vars
  BY <1>1 DEF Request, RequestStep, InspectionPasses, InspectionBlocks, InspectionFails,
     UpstreamAnswers, UpstreamFails, Answers, Returned
<1>2. ASSUME NEW e \in Events, RuleMatch(e) \/ Emits(e) PROVE Next
  BY <1>2 DEF RuleMatch, Emits, Next
<1>3. CASE Forwards \/ Listens \/ ChannelStep \/ GatewayDies
  BY <1>3 DEF Forwards, Listens, ChannelStep, GatewayDies, Next
<1>4. CASE UNCHANGED gatewayVars
  BY <1>4 DEF gatewayVars
<1> QED BY <1>1, <1>2, <1>3, <1>4 DEF GatewayNext

(* The gateway with its requests implements the outbox: what is proved of  *)
(* the outbox holds while rules match inside requests (emitRuleMatch).     *)
THEOREM GatewayImplementsOutbox == GatewaySpec => Spec
<1>1. GatewayInit => Init
  BY DEF GatewayInit
<1> QED BY <1>1, GatewayStepIsOutboxStep, PTL DEF GatewaySpec, Spec

(* A request is sent on at most once (ServeHTTP), among the types. *)
THEOREM GatewayTypeCorrect == GatewaySpec => []GatewayTypeOK
<1>1. GatewayInit => GatewayInv
  BY DEF GatewayInit, GatewayInv, RequestTypeOK, RequestInv, RequestPC, Status
<1>2. GatewayInv /\ OutboxTypeOK => GatewayTypeOK
  BY DEF GatewayInv, RequestTypeOK, GatewayTypeOK
<1> QED
  BY <1>1, <1>2, GatewayInvInductive, GatewayImplementsOutbox, OutboxTypeCorrect, PTL
     DEF GatewaySpec

(* The gateway's own answers (403, 503) go only to requests the upstream   *)
(* never saw, and every other request that is done was sent on once and    *)
(* has the upstream's answer (ServeHTTP, responseStatus, ErrorHandler).    *)
THEOREM AnswersAreTrue == GatewaySpec => []AnswerTrue
<1>1. GatewayInit => GatewayInv
  BY DEF GatewayInit, GatewayInv, RequestTypeOK, RequestInv, RequestPC, Status
<1>2. GatewayInv => AnswerTrue
  BY DEF GatewayInv, RequestInv, Told, AnswerTrue
<1> QED BY <1>1, <1>2, GatewayInvInductive, PTL DEF GatewaySpec

=============================================================================
