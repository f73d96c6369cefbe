--------------------------- MODULE SQLStoreProofs ---------------------------
(***************************************************************************)
(* The SQL store implements the contract of the store, for any number of   *)
(* callers, Agents and events.  The argument is the inductive invariant    *)
(* SQLInv: a transaction holds the row lock of the policy it is about to   *)
(* write and has checked its revision under that lock, and it has inserted *)
(* exactly the events of the first part of its batch that are not          *)
(* committed by others.                                                    *)
(***************************************************************************)
EXTENDS SQLStore, FiniteSetTheorems, TLAPS

USE StoreAssumption

(* The request of a busy caller has the fields of its operation. *)
LEMMA RequestFields ==
    ASSUME TypeOK, NEW c \in Callers, Busy(c)
    PROVE  /\ request[c].agent \in AgentIDs
           /\ Op(c) = "CreateAgent" => request[c] \in CreateRequest
           /\ Op(c) = "UpdateHeartbeat" => request[c] \in HeartbeatRequest
           /\ Op(c) = "SaveEvents" => request[c] \in EventsRequest
           /\ Op(c) = "SavePolicyAndAudit" => request[c] \in PolicyRequest
<1>1. request[c] \in Request
  BY DEF TypeOK, Busy
<1> QED
  BY <1>1 DEF Op, Request, CreateRequest, HeartbeatRequest, EventsRequest, PolicyRequest

(* An answer to c, with or without an effect, is well typed and frees c. *)
LEMMA AnswerType ==
    ASSUME TypeOK, NEW c \in Callers, NEW s \in Status, NEW n \in Nat, Answer(c, s, n)
    PROVE  /\ request' \in [Callers -> Request \cup {None}]
           /\ reply' \in [Callers -> [status : Status, inserted : Nat]]
           /\ request'[c] = None
           /\ \A d \in Callers \ {c} : request'[d] = request[d]
BY DEF TypeOK, Answer

LEMMA InitInv == Init => SQLInv
<1> SUFFICES ASSUME Init PROVE SQLInv
  OBVIOUS
<1> USE DEF Init, StoreInit, Idle, TxAt
<1>1. TypeOK
  BY DEF TypeOK, Tx, TxPC, Status, PolicyRow
<1>2. TxInv /\ LockInv /\ EventInv
  BY DEF TxInv, EventInv, LockInv, At, Busy
<1>3. PolicyAudited
  BY DEF PolicyAudited
<1> QED
  BY <1>1, <1>2, <1>3 DEF SQLInv

(* What becomes of the transactions' part of the invariant when c leaves   *)
(* and the tables keep their policies and events.                          *)
LEMMA LeaveInv ==
    ASSUME SQLInv, NEW c \in Callers, Leave(c), UNCHANGED <<policies, events, audits>>,
           agents' \in [AgentIDs -> AgentRow \cup {None}],
           \A a \in AgentIDs : agents[a] # None => agents'[a] # None,
           NEW s \in Status, NEW n \in Nat, Answer(c, s, n)
    PROVE  SQLInv'
<1> USE DEF SQLInv, Leave
<1>1. TypeOK'
  BY AnswerType DEF TypeOK, Tx, TxPC, Idle, TxAt
<1>2. tx'[c] = Idle /\ request'[c] = None
  BY AnswerType DEF TypeOK
<1>3. \A d \in Callers \ {c} : tx'[d] = tx[d] /\ request'[d] = request[d]
  BY AnswerType DEF TypeOK
<1>4. TxInv'
  BY <1>2, <1>3, RequestFields DEF TxInv, At, Busy, Op, Idle, TxAt
<1>5. EventInv'
  BY <1>2, <1>3 DEF EventInv, At, Idle, TxAt
<1>6. LockInv'
  BY <1>2, <1>3 DEF LockInv, PolicyFree, Holds, At, Idle, TxAt
<1>7. PolicyAudited'
  BY DEF PolicyAudited
<1> QED
  BY <1>1, <1>4, <1>5, <1>6, <1>7

(* A transaction that goes on without touching the tables or its request. *)
LEMMA GotoInv ==
    ASSUME SQLInv, NEW c \in Callers, UNCHANGED storeVars, Busy(c), ~At(c, "insert"),
           NEW pc \in TxPC \ {"none", "agent", "heartbeat", "insert"}, Goto(c, pc),
           Op(c) = "SavePolicyAndAudit",
           pc = "create" => request[c].expected = 0,
           pc \in {"update", "audit", "commit"} =>
              /\ policies[request[c].agent].revision = request[c].expected
              /\ PolicyFree(c, request[c].agent)
    PROVE  SQLInv'
<1> USE DEF SQLInv, Goto, storeVars, tables
<1>1. TypeOK'
  BY DEF TypeOK, Tx, Idle, TxAt
<1>2. tx'[c] = [at |-> pc, todo |-> {}, ins |-> {}]
  BY DEF TypeOK, Idle, TxAt
<1>3. \A d \in Callers \ {c} : tx'[d] = tx[d]
  BY DEF TypeOK
<1>4. TxInv'
  BY <1>2, <1>3 DEF TxInv, At, Busy, Op, TxPC
<1>5. EventInv'
  BY <1>2, <1>3 DEF EventInv, At
<1>6. LockInv'
  BY <1>2, <1>3 DEF LockInv, PolicyFree, Holds, At
<1>7. PolicyAudited'
  BY DEF PolicyAudited
<1> QED
  BY <1>1, <1>4, <1>5, <1>6, <1>7

(* A failure without an effect is an answer. *)
LEMMA FailOne ==
    ASSUME TypeOK, NEW c \in Callers, Fail({c})
    PROVE  Answer(c, "error", 0) /\ UNCHANGED tables
BY DEF TypeOK, Fail, Answer

LEMMA BeginInv ==
    ASSUME SQLInv, NEW c \in Callers, Begin(c)
    PROVE  SQLInv'
<1> USE DEF SQLInv
<1>1. PICK q \in Request, t \in Tx :
         /\ Call(c, q) /\ tx' = [tx EXCEPT ![c] = t]
         /\ \/ q \in CreateRequest /\ t = [at |-> "agent", todo |-> {}, ins |-> {}]
            \/ q \in HeartbeatRequest /\ t = [at |-> "heartbeat", todo |-> {}, ins |-> {}]
            \/ q \in EventsRequest /\ t = [at |-> "insert", todo |-> q.batch, ins |-> {}]
            \/ q \in PolicyRequest /\ t = [at |-> "lock", todo |-> {}, ins |-> {}]
  <2> USE DEF TxAt, Tx, TxPC, Request, Goto
  <2>1. CASE \E q \in CreateRequest : Call(c, q) /\ Goto(c, "agent")
    BY <2>1
  <2>2. CASE \E q \in HeartbeatRequest : Call(c, q) /\ Goto(c, "heartbeat")
    BY <2>2
  <2>3. CASE \E q \in EventsRequest :
               Call(c, q) /\ tx' = [tx EXCEPT ![c] = TxAt("insert", q.batch, {})]
    <3>1. \A q \in EventsRequest : TxAt("insert", q.batch, {}) \in Tx
      BY DEF EventsRequest
    <3> QED
      BY <2>3, <3>1
  <2>4. CASE \E q \in PolicyRequest : Call(c, q) /\ Goto(c, "lock")
    BY <2>4
  <2> QED
    BY <2>1, <2>2, <2>3, <2>4 DEF Begin
<1> USE <1>1 DEF Call, tables
<1>4. TypeOK'
  BY DEF TypeOK, Status
<1>5. request'[c] = q /\ tx'[c] = t /\ q # None
  BY DEF TypeOK
<1>6. \A d \in Callers \ {c} : request'[d] = request[d] /\ tx'[d] = tx[d]
  BY DEF TypeOK
<1>7. TxInv'
  BY <1>5, <1>6 DEF TxInv, At, Busy, Op, CreateRequest, HeartbeatRequest, EventsRequest, PolicyRequest
<1>8. EventInv'
  BY <1>5, <1>6 DEF EventInv, At
<1>9. LockInv'
  BY <1>5, <1>6 DEF LockInv, PolicyFree, Holds, At
<1>10. PolicyAudited'
  BY DEF PolicyAudited
<1> QED
  BY <1>4, <1>7, <1>8, <1>9, <1>10

LEMMA AgentStepInv ==
    ASSUME SQLInv, NEW c \in Callers, InsertAgent(c) \/ UpdateAgent(c)
    PROVE  SQLInv'
<1> USE DEF SQLInv
<1>1. CASE InsertAgent(c) /\ Conflict(c)
  BY <1>1, LeaveInv DEF InsertAgent, Conflict, tables, TypeOK, Status
<1>2. CASE InsertAgent(c) /\ ~Conflict(c)
  <2>1. request[c] \in CreateRequest /\ request[c].agent \in AgentIDs
    BY <1>2, RequestFields DEF InsertAgent, CreateAgent
  <2>2. /\ agents' = [agents EXCEPT ![request[c].agent] =
               [machine |-> request[c].machine, version |-> request[c].version]]
        /\ Answer(c, "ok", 0) \/ Answer(c, "error", 0)
        /\ UNCHANGED <<events, policies, audits>>
        /\ Leave(c)
    BY <1>2 DEF InsertAgent, CreateAgent, Done
  <2>3. /\ agents' \in [AgentIDs -> AgentRow \cup {None}]
        /\ \A a \in AgentIDs : agents[a] # None => agents'[a] # None
    BY <2>1, <2>2 DEF TypeOK, CreateRequest, AgentRow
  <2> QED
    BY <2>2, <2>3, LeaveInv DEF Status
<1>3. CASE UpdateAgent(c)
  <2>1. /\ request[c] \in HeartbeatRequest /\ request[c].agent \in AgentIDs
        /\ agents[request[c].agent] \in AgentRow
    BY <1>3, RequestFields DEF UpdateAgent, UpdateHeartbeat, TxInv, TypeOK
  <2>2. /\ agents' = [agents EXCEPT ![request[c].agent] =
               [machine |-> @.machine, version |-> request[c].version]]
        /\ Answer(c, "ok", 0) \/ Answer(c, "error", 0)
        /\ UNCHANGED <<events, policies, audits>>
        /\ Leave(c)
    BY <1>3 DEF UpdateAgent, UpdateHeartbeat, Done
  <2>3. /\ agents' \in [AgentIDs -> AgentRow \cup {None}]
        /\ \A a \in AgentIDs : agents[a] # None => agents'[a] # None
    BY <2>1, <2>2 DEF TypeOK, HeartbeatRequest, AgentRow
  <2> QED
    BY <2>2, <2>3, LeaveInv DEF Status
<1> QED
  BY <1>1, <1>2, <1>3

LEMMA InsertEventInv ==
    ASSUME SQLInv, NEW c \in Callers, InsertEvent(c)
    PROVE  SQLInv'
<1> USE DEF SQLInv
<1>1. PICK e \in tx[c].todo :
         /\ \A d \in Callers \ {c} : e \notin tx[d].ins
         /\ tx' = [tx EXCEPT ![c] = TxAt("insert", @.todo \ {e},
                 IF events[e] = None THEN @.ins \cup {e} ELSE @.ins)]
  BY DEF InsertEvent
<1> USE DEF storeVars, tables
<1>2. UNCHANGED storeVars /\ At(c, "insert")
  BY DEF InsertEvent
<1>3. tx[c] \in Tx /\ e \in EventIDs
  BY <1>1 DEF TypeOK, Tx
<1>4. /\ tx'[c].at = "insert"
      /\ tx'[c].todo = tx[c].todo \ {e}
      /\ tx'[c].ins = IF events[e] = None THEN tx[c].ins \cup {e} ELSE tx[c].ins
      /\ tx'[c] \in Tx
  BY <1>1, <1>3 DEF TypeOK, TxAt, Tx, TxPC
<1>5. \A d \in Callers \ {c} : tx'[d] = tx[d]
  BY <1>1 DEF TypeOK
<1>6. TypeOK'
  <2>1. tx' \in [Callers -> Tx]
    BY <1>1, <1>4, <1>5 DEF TypeOK
  <2> QED
    BY <2>1, <1>2 DEF TypeOK
<1>7. TxInv'
  BY <1>2, <1>4, <1>5 DEF TxInv, At, Busy, Op
<1>8. EventInv'
  <2> SUFFICES ASSUME NEW d \in Callers PROVE EventInv!(d)'
    BY DEF EventInv
  <2>1. ~At(d, "insert")' => tx'[d].ins = {}
    BY <1>4, <1>5 DEF EventInv, At
  <2>2. At(d, "insert")' => EventInv!(d)!2!2'
    <3>1. CASE d = c
      <4>1. /\ tx[c].todo \subseteq request[c].batch
            /\ tx[c].ins \subseteq request[c].batch \ tx[c].todo
            /\ \A x \in request[c].batch \ tx[c].todo : x \in tx[c].ins <=> events[x] = None
        BY <1>2 DEF EventInv
      <4>2. request'[c] = request[c] /\ events' = events /\ e \in tx[c].todo
        BY <1>2
      <4>3. \A x \in request[c].batch \ (tx[c].todo \ {e}) :
               x = e \/ x \in request[c].batch \ tx[c].todo
        OBVIOUS
      <4>4. tx'[c].ins \subseteq request[c].batch \ tx'[c].todo
        BY <4>1, <4>2, <1>4
      <4>5. \A x \in request[c].batch \ tx'[c].todo : x \in tx'[c].ins <=> events[x] = None
        BY <4>1, <4>2, <4>3, <1>4
      <4> QED
        BY <3>1, <4>1, <4>2, <4>4, <4>5, <1>4
    <3>2. CASE d # c
      BY <3>2, <1>2, <1>5 DEF EventInv, At
    <3> QED
      BY <3>1, <3>2
  <2>3. \A g \in Callers \ {d} : tx'[d].ins \cap tx'[g].ins = {}
    <3>1. \A f, g \in Callers : f # g => tx[f].ins \cap tx[g].ins = {}
      BY DEF EventInv
    <3>2. \A g \in Callers \ {c} : tx'[c].ins \cap tx[g].ins = {}
      <4>1. \A g \in Callers \ {c} : e \notin tx[g].ins
        BY <1>1
      <4>2. tx'[c].ins \subseteq tx[c].ins \cup {e}
        BY <1>4
      <4> QED
        BY <4>1, <4>2, <3>1
    <3> QED
      BY <3>1, <3>2, <1>5
  <2> QED
    BY <2>1, <2>2, <2>3
<1>9. LockInv'
  BY <1>2, <1>4, <1>5 DEF LockInv, PolicyFree, Holds, At
<1>10. PolicyAudited'
  BY <1>2 DEF PolicyAudited
<1> QED
  BY <1>6, <1>7, <1>8, <1>9, <1>10

(* At its commit, a transaction has inserted the events of its batch that  *)
(* the table does not have, and only those.                                *)
LEMMA InsertedIsFresh ==
    ASSUME SQLInv, NEW c \in Callers, At(c, "insert"), tx[c].todo = {}
    PROVE  /\ Busy(c) /\ Op(c) = "SaveEvents"
           /\ tx[c].ins = {e \in request[c].batch : events[e] = None}
           /\ Cardinality(tx[c].ins) \in Nat
<1>1. Busy(c) /\ Op(c) = "SaveEvents"
  BY DEF SQLInv, TxInv, At
<1>2. tx[c].ins = {e \in request[c].batch : events[e] = None}
  BY DEF SQLInv, EventInv
<1>3. tx[c].ins \subseteq EventIDs
  BY DEF SQLInv, TypeOK, Tx
<1>4. IsFiniteSet(tx[c].ins)
  BY <1>3, FS_Subset
<1> QED
  BY <1>1, <1>2, <1>4, FS_CardinalityType

LEMMA CommitEventsInv ==
    ASSUME SQLInv, NEW c \in Callers, CommitEvents(c)
    PROVE  SQLInv'
<1> USE DEF SQLInv, CommitEvents
<1>1. /\ Busy(c) /\ Op(c) = "SaveEvents" /\ Cardinality(tx[c].ins) \in Nat
      /\ tx[c].ins \subseteq EventIDs
  BY InsertedIsFresh DEF TypeOK, Tx
<1>2. request[c].agent \in AgentIDs
  BY <1>1, RequestFields
<1>3. PICK s \in Status, n \in Nat : Answer(c, s, n)
  BY <1>1 DEF Done, Status
<1>4. tx'[c] = Idle /\ request'[c] = None
  BY <1>3, AnswerType DEF TypeOK, Leave
<1>5. \A d \in Callers \ {c} : tx'[d] = tx[d] /\ request'[d] = request[d]
  BY <1>3, AnswerType DEF TypeOK, Leave
<1>6. TypeOK'
  BY <1>2, <1>3, AnswerType DEF TypeOK, Leave, Idle, TxAt, Tx, TxPC
<1>7. TxInv'
  BY <1>4, <1>5 DEF TxInv, At, Busy, Op, Idle, TxAt
<1>8. EventInv'
  <2> SUFFICES ASSUME NEW d \in Callers PROVE EventInv!(d)'
    BY DEF EventInv
  <2>1. CASE d = c
    BY <2>1, <1>4, <1>5 DEF EventInv, At, Idle, TxAt
  <2>2. CASE d # c
    <3>1. tx[d].ins \cap tx[c].ins = {} /\ tx[d].ins \subseteq EventIDs
      BY <2>2 DEF EventInv, TypeOK, Tx
    <3>2. At(d, "insert") =>
             /\ \A e \in request[d].batch \ tx[d].todo :
                   e \in tx[d].ins <=> events[e] = None
             /\ request[d].batch \subseteq EventIDs
      BY RequestFields DEF EventInv, TxInv, EventsRequest, At
    <3>3. \A e \in EventIDs : events'[e] = IF e \in tx[c].ins THEN request[c].agent ELSE events[e]
      BY DEF TypeOK
    <3>4. At(d, "insert") =>
             \A e \in request[d].batch \ tx[d].todo :
                 e \in tx[d].ins <=> events'[e] = None
      BY <3>1, <3>2, <3>3, <1>1, <1>2
    <3> QED
      BY <2>2, <3>4, <1>4, <1>5 DEF EventInv, At, Idle, TxAt
  <2> QED
    BY <2>1, <2>2
<1>9. LockInv'
  BY <1>4, <1>5 DEF LockInv, PolicyFree, Holds, At, Idle, TxAt
<1>10. PolicyAudited'
  BY DEF PolicyAudited
<1> QED
  BY <1>6, <1>7, <1>8, <1>9, <1>10

(* A caller in SavePolicyAndAudit has a policy request. *)
LEMMA PolicyCaller ==
    ASSUME SQLInv, NEW c \in Callers,
           tx[c].at \in {"lock", "create", "update", "audit", "commit"}
    PROVE  /\ Busy(c) /\ Op(c) = "SavePolicyAndAudit" /\ ~At(c, "insert")
           /\ request[c] \in PolicyRequest /\ request[c].agent \in AgentIDs
<1>1. Busy(c) /\ Op(c) = "SavePolicyAndAudit" /\ ~At(c, "insert")
  BY DEF SQLInv, TxInv, At
<1> QED
  BY <1>1, RequestFields DEF SQLInv

LEMMA ConflictInv ==
    ASSUME SQLInv, NEW c \in Callers, Leave(c), Conflict(c)
    PROVE  SQLInv'
BY LeaveInv DEF SQLInv, TypeOK, Conflict, tables, Status

LEMMA PolicyStepInv ==
    ASSUME SQLInv, NEW c \in Callers,
           LockPolicy(c) \/ InsertPolicy(c) \/ UpdatePolicy(c) \/ InsertAudit(c)
    PROVE  SQLInv'
<1>1. CASE LockPolicy(c)
  <2>1. Busy(c) /\ Op(c) = "SavePolicyAndAudit" /\ ~At(c, "insert")
    BY <1>1, PolicyCaller DEF LockPolicy, At
  <2>2. \/ Leave(c) /\ Conflict(c)
        \/ Goto(c, "create") /\ UNCHANGED storeVars /\ request[c].expected = 0
        \/ /\ Goto(c, "update") /\ UNCHANGED storeVars
           /\ policies[request[c].agent].revision = request[c].expected
           /\ PolicyFree(c, request[c].agent)
    BY <1>1 DEF LockPolicy
  <2> QED
    BY <2>1, <2>2, ConflictInv, GotoInv DEF TxPC
<1>2. CASE InsertPolicy(c)
  <2>1. Busy(c) /\ Op(c) = "SavePolicyAndAudit" /\ ~At(c, "insert")
    BY <1>2, PolicyCaller DEF InsertPolicy, At
  <2>2. request[c].expected = 0
    BY <1>2 DEF SQLInv, LockInv, InsertPolicy, At
  <2>3. \/ Leave(c) /\ Conflict(c)
        \/ /\ Goto(c, "audit") /\ UNCHANGED storeVars
           /\ policies[request[c].agent].revision = request[c].expected
           /\ PolicyFree(c, request[c].agent)
    BY <1>2, <2>2 DEF InsertPolicy
  <2> QED
    BY <2>1, <2>3, ConflictInv, GotoInv DEF TxPC
<1>3. CASE UpdatePolicy(c)
  <2>1. Busy(c) /\ Op(c) = "SavePolicyAndAudit" /\ ~At(c, "insert")
    BY <1>3, PolicyCaller DEF UpdatePolicy, At
  <2>2. PolicyFree(c, request[c].agent)
    BY <1>3 DEF SQLInv, LockInv, UpdatePolicy, At
  <2> QED
    BY <1>3, <2>1, <2>2, ConflictInv, GotoInv DEF UpdatePolicy, TxPC
<1>4. CASE InsertAudit(c)
  <2>1. Busy(c) /\ Op(c) = "SavePolicyAndAudit" /\ ~At(c, "insert")
    BY <1>4, PolicyCaller DEF InsertAudit, At
  <2>2. /\ policies[request[c].agent].revision = request[c].expected
        /\ PolicyFree(c, request[c].agent)
    BY <1>4 DEF SQLInv, LockInv, InsertAudit, At
  <2> QED
    BY <1>4, <2>1, <2>2, GotoInv DEF InsertAudit, TxPC
<1> QED
  BY <1>1, <1>2, <1>3, <1>4

LEMMA CommitPolicyInv ==
    ASSUME SQLInv, NEW c \in Callers, CommitPolicy(c)
    PROVE  SQLInv'
<1> USE DEF SQLInv
<1> DEFINE a == request[c].agent
           r == request[c].expected
           b == request[c].body
           log == [previous |-> r, new |-> r + 1, body |-> b]
<1>1. /\ a \in AgentIDs /\ r \in 0..(MaxRevision - 1) /\ b \in Bodies
      /\ policies[a].revision = r /\ PolicyFree(c, a)
  BY PolicyCaller DEF CommitPolicy, At, PolicyRequest, LockInv
<1>2. PICK s \in Status, n \in Nat : Answer(c, s, n)
  BY DEF CommitPolicy, Done, Status
<1>3. tx'[c] = Idle /\ request'[c] = None
  BY <1>2, AnswerType DEF CommitPolicy, TypeOK, Leave
<1>4. \A d \in Callers \ {c} : tx'[d] = tx[d] /\ request'[d] = request[d]
  BY <1>2, AnswerType DEF CommitPolicy, TypeOK, Leave
<1>5. /\ policies' = [policies EXCEPT ![a] = [revision |-> r + 1, body |-> b]]
      /\ audits' = [audits EXCEPT ![a] = Append(@, log)]
      /\ UNCHANGED <<agents, events>>
      /\ tx' = [tx EXCEPT ![c] = Idle]
  BY DEF CommitPolicy, Leave
<1>6. log \in AuditLog /\ [revision |-> r + 1, body |-> b] \in PolicyRow
  BY <1>1 DEF AuditLog, PolicyRow
<1>7. TypeOK'
  <2>1. Append(audits[a], log) \in Seq(AuditLog)
    BY <1>1, <1>6 DEF TypeOK
  <2>2. policies' \in [AgentIDs -> PolicyRow] /\ audits' \in [AgentIDs -> Seq(AuditLog)]
    BY <1>5, <1>6, <2>1 DEF TypeOK
  <2>3. Idle \in Tx
    BY DEF Idle, TxAt, Tx, TxPC
  <2> QED
    BY <1>2, <1>5, <2>2, <2>3, AnswerType DEF TypeOK
<1>8. TxInv'
  BY <1>3, <1>4, <1>5 DEF TxInv, At, Busy, Op, Idle, TxAt
<1>9. EventInv'
  BY <1>3, <1>4, <1>5 DEF EventInv, At, Idle, TxAt
<1>10. LockInv'
  <2> SUFFICES ASSUME NEW d \in Callers, tx'[d].at \in {"update", "audit", "commit"}
               PROVE  /\ policies'[request'[d].agent].revision = request'[d].expected
                      /\ PolicyFree(d, request[d].agent)'
    BY <1>3, <1>4 DEF LockInv, At, Idle, TxAt
  <2>1. d # c /\ tx'[d] = tx[d] /\ request'[d] = request[d]
    BY <1>3, <1>4 DEF Idle, TxAt
  <2>2. /\ policies[request[d].agent].revision = request[d].expected
        /\ PolicyFree(d, request[d].agent)
    BY <2>1 DEF LockInv
  <2>3. request[d].agent # a /\ request[d].agent \in AgentIDs
    BY <2>1, <1>1, PolicyCaller DEF PolicyFree, Holds
  <2>4. PolicyFree(d, request[d].agent)'
    BY <2>1, <2>2, <1>3, <1>4 DEF PolicyFree, Holds, Idle, TxAt
  <2> QED
    BY <2>1, <2>2, <2>3, <2>4, <1>5 DEF TypeOK
<1>11. PolicyAudited'
  <2> SUFFICES ASSUME NEW x \in AgentIDs PROVE PolicyAudited!(x)'
    BY DEF PolicyAudited
  <2>1. CASE x # a
    BY <2>1, <1>5 DEF PolicyAudited, TypeOK
  <2>2. CASE x = a
    <3>1. /\ audits[a] \in Seq(AuditLog) /\ Len(audits[a]) = r
          /\ \A i \in 1..r : audits[a][i].previous = i - 1 /\ audits[a][i].new = i
      BY <1>1 DEF PolicyAudited, TypeOK
    <3>2. audits'[a] = Append(audits[a], log) /\ policies'[a] = [revision |-> r + 1, body |-> b]
      BY <1>1, <1>5 DEF TypeOK
    <3>3. /\ Len(audits'[a]) = r + 1
          /\ \A i \in 1..r : audits'[a][i] = audits[a][i]
          /\ audits'[a][r + 1] = log
      BY <3>1, <3>2, <1>1, <1>6
    <3>4. \A i \in 1..(r + 1) : i \in 1..r \/ i = r + 1
      BY <1>1
    <3>5. \A i \in 1..(r + 1) : audits'[a][i].previous = i - 1 /\ audits'[a][i].new = i
      <4> SUFFICES ASSUME NEW i \in 1..(r + 1)
                   PROVE  audits'[a][i].previous = i - 1 /\ audits'[a][i].new = i
        OBVIOUS
      <4>1. CASE i \in 1..r
        BY <4>1, <3>1, <3>3
      <4>2. CASE i = r + 1
        <5>1. audits'[a][i].previous = r /\ audits'[a][i].new = r + 1
          BY <4>2, <3>3
        <5> QED
          BY <5>1, <4>2, <1>1
      <4> QED
        BY <4>1, <4>2, <3>4
    <3> QED
      BY <2>2, <3>2, <3>3, <3>5
  <2> QED
    BY <2>1, <2>2
<1> QED
  BY <1>7, <1>8, <1>9, <1>10, <1>11

LEMMA FailureInv ==
    ASSUME SQLInv,
           \/ Restart
           \/ \E c \in Callers : StatementFails(c) \/ DeadlockVictim(c)
    PROVE  SQLInv'
<1> USE DEF SQLInv
<1>1. CASE Restart
  <2>1. \A c \in Callers : tx'[c] = Idle /\ request'[c] = None
    BY <1>1 DEF Restart, Fail, Busy
  <2>2. TypeOK'
    BY <1>1 DEF Restart, Fail, TypeOK, Idle, TxAt, Tx, TxPC, Status, tables
  <2>3. TxInv' /\ EventInv' /\ LockInv'
    BY <2>1 DEF TxInv, EventInv, LockInv, At, Busy, Idle, TxAt
  <2>4. PolicyAudited'
    BY <1>1 DEF Restart, Fail, PolicyAudited, tables
  <2> QED
    BY <2>2, <2>3, <2>4
<1>2. ASSUME NEW c \in Callers, StatementFails(c) \/ DeadlockVictim(c)
      PROVE  SQLInv'
  <2>1. Leave(c) /\ Answer(c, "error", 0) /\ UNCHANGED tables
    BY <1>2, FailOne DEF StatementFails, DeadlockVictim
  <2> QED
    BY <2>1, LeaveInv DEF tables, TypeOK, Status
<1> QED
  BY <1>1, <1>2

LEMMA SQLInvInductive == SQLInv /\ [Next]_vars => SQLInv'
<1> SUFFICES ASSUME SQLInv, [Next]_vars PROVE SQLInv'
  OBVIOUS
<1>1. CASE UNCHANGED vars
  BY <1>1 DEF vars, storeVars, tables, SQLInv, TypeOK, TxInv, EventInv, LockInv,
              PolicyAudited, PolicyFree, Holds, At, Busy, Op
<1>2. ASSUME NEW c \in Callers, Begin(c) \/ Step(c) PROVE SQLInv'
  BY <1>2, BeginInv, AgentStepInv, InsertEventInv, CommitEventsInv, PolicyStepInv,
     CommitPolicyInv DEF Step
<1> QED
  BY <1>1, <1>2, FailureInv DEF Next

LEMMA SQLInvHolds == Spec => []SQLInv
BY InitInv, SQLInvInductive, PTL DEF Spec

(* The tables and the transactions of the SQL store keep their types; in   *)
(* particular every audit record is complete.                              *)
THEOREM StoreTypeCorrect == Spec => []TypeOK
<1>1. SQLInv => TypeOK
  BY DEF SQLInv
<1> QED
  BY <1>1, SQLInvHolds, PTL

(* The audit log is the gapless history of every policy, however the       *)
(* transactions of SavePolicyAndAudit interleave, fail or are cut short.   *)
THEOREM PolicyAlwaysAudited == Spec => []PolicyAudited
<1>1. SQLInv => PolicyAudited
  BY DEF SQLInv
<1> QED
  BY <1>1, SQLInvHolds, PTL

(* Every step of the SQL store is a step of the contract, or changes       *)
(* nothing the contract knows of.                                          *)
LEMMA StepSimulation ==
    ASSUME SQLInv, NEW c \in Callers, Begin(c) \/ Step(c)
    PROVE  [StoreNext]_storeVars
<1>1. CASE Begin(c)
  <2>1. \E q \in Request : Call(c, q)
    BY <1>1 DEF Begin, Request
  <2> QED
    BY <2>1 DEF StoreNext
<1>2. CASE InsertAgent(c) \/ UpdateAgent(c)
  BY <1>2 DEF InsertAgent, UpdateAgent, StoreNext
<1>3. CASE InsertEvent(c) \/ InsertAudit(c)
  BY <1>3 DEF InsertEvent, InsertAudit
<1>4. CASE CommitEvents(c)
  <2>1. /\ Busy(c) /\ Op(c) = "SaveEvents"
        /\ tx[c].ins = {e \in request[c].batch : events[e] = None}
    BY <1>4, InsertedIsFresh DEF CommitEvents
  <2>2. SaveEvents(c)
    BY <1>4, <2>1 DEF CommitEvents, SaveEvents
  <2> QED
    BY <2>2 DEF StoreNext
<1>5. CASE LockPolicy(c) \/ InsertPolicy(c) \/ UpdatePolicy(c)
  <2>1. Busy(c) /\ Op(c) = "SavePolicyAndAudit"
    BY <1>5, PolicyCaller DEF LockPolicy, InsertPolicy, UpdatePolicy, At
  <2>2. InsertPolicy(c) => request[c].expected = 0
    BY DEF InsertPolicy, SQLInv, LockInv
  <2>3. \/ UNCHANGED storeVars
        \/ Conflict(c) /\ policies[request[c].agent].revision # request[c].expected
    BY <1>5, <2>2 DEF LockPolicy, InsertPolicy, UpdatePolicy
  <2>4. Conflict(c) /\ policies[request[c].agent].revision # request[c].expected
           => SavePolicyAndAudit(c)
    BY <2>1 DEF SavePolicyAndAudit
  <2> QED
    BY <2>3, <2>4 DEF StoreNext
<1>6. CASE CommitPolicy(c)
  <2>1. /\ Busy(c) /\ Op(c) = "SavePolicyAndAudit"
        /\ policies[request[c].agent].revision = request[c].expected
    BY <1>6, PolicyCaller DEF CommitPolicy, At, SQLInv, LockInv
  <2>2. SavePolicyAndAudit(c)
    BY <1>6, <2>1 DEF CommitPolicy, SavePolicyAndAudit
  <2> QED
    BY <2>2 DEF StoreNext
<1> QED
  BY <1>1, <1>2, <1>3, <1>4, <1>5, <1>6 DEF Step

LEMMA Simulation == SQLInv /\ [Next]_vars => [StoreNext]_storeVars
<1> SUFFICES ASSUME SQLInv, [Next]_vars PROVE [StoreNext]_storeVars
  OBVIOUS
<1>1. CASE UNCHANGED vars
  BY <1>1 DEF vars
<1>2. CASE Restart
  BY <1>2 DEF Restart, StoreNext
<1>3. ASSUME NEW c \in Callers, StatementFails(c) \/ DeadlockVictim(c)
      PROVE  [StoreNext]_storeVars
  <2>1. Busy(c)
    <3>1. StatementFails(c) => Busy(c)
      BY DEF StatementFails
    <3>2. DeadlockVictim(c) => ~At(c, "none")
      BY DEF DeadlockVictim, WaitsFor, At
    <3> QED
      BY <1>3, <3>1, <3>2 DEF SQLInv, TxInv
  <2>2. {c} \in SUBSET {d \in Callers : Busy(d)} /\ Fail({c})
    BY <1>3, <2>1 DEF StatementFails, DeadlockVictim
  <2> QED
    BY <2>2 DEF StoreNext
<1> QED
  BY <1>1, <1>2, <1>3, StepSimulation DEF Next

(* The SQL store implements the contract that Memory states: registration, *)
(* heartbeat, event and policy operations take effect in one step with the *)
(* result Memory would return, for any number of concurrent callers.       *)
THEOREM SQLStoreImplementsStore == Spec => Contract
<1>1. Init => StoreInit
  BY DEF Init
<1> QED
  BY <1>1, Simulation, SQLInvHolds, PTL DEF Spec, Contract, StoreSpec
=============================================================================
