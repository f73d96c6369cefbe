------------------------------ MODULE SQLStore ------------------------------
(***************************************************************************)
(* The SQL implementation of the store (internal/store/sqlstore), with one *)
(* step for each statement.  The tables hold what is committed; a          *)
(* transaction keeps what it has written to itself until its commit.       *)
(*                                                                         *)
(* The database is external and modelled as the code uses it: transactions *)
(* at the default isolation level, SELECT ... FOR UPDATE and UPDATE lock a *)
(* row and see its committed version, and an INSERT waits for the end of a *)
(* transaction that has written the same unique key.  A transaction that   *)
(* waits may be chosen as the victim of a deadlock.                        *)
(***************************************************************************)
EXTENDS Store

VARIABLE tx  \* tx[c]: where c is in its transaction, the events it has to
             \* insert and the events it has inserted
vars == <<storeVars, tx>>

TxAt(pc, todo, ins) == [at |-> pc, todo |-> todo, ins |-> ins]
Idle == TxAt("none", {}, {})

TxPC == {"none", "agent", "heartbeat", "insert", "lock", "create",
         "update", "audit", "commit"}

Tx == [at : TxPC, todo : SUBSET EventIDs, ins : SUBSET EventIDs]

(* The type of the tables and of the transactions; in particular every     *)
(* audit record has the settings it records and revisions of the policy.   *)
TypeOK ==
    /\ agents \in [AgentIDs -> AgentRow \cup {None}]
    /\ events \in [EventIDs -> AgentIDs \cup {None}]
    /\ policies \in [AgentIDs -> PolicyRow]
    /\ audits \in [AgentIDs -> Seq(AuditLog)]
    /\ request \in [Callers -> Request \cup {None}]
    /\ reply \in [Callers -> [status : Status, inserted : Nat]]
    /\ tx \in [Callers -> Tx]

Init == StoreInit /\ tx = [c \in Callers |-> Idle]

----------------------------------------------------------------------------
At(c, pc) == tx[c].at = pc

Goto(c, pc) == tx' = [tx EXCEPT ![c] = TxAt(pc, {}, {})]

(* The method returns: after a commit, or with the deferred Rollback. *)
Leave(c) == tx' = [tx EXCEPT ![c] = Idle]

(* The transactions that hold the row lock, or the unique key, of a policy *)
Holds(c, a) == tx[c].at \in {"update", "audit", "commit"} /\ request[c].agent = a

PolicyFree(c, a) == \A d \in Callers \ {c} : ~Holds(d, a)

(* A method is called, and is before its first statement. *)
Begin(c) ==
    \/ \E q \in CreateRequest : Call(c, q) /\ Goto(c, "agent")
    \/ \E q \in HeartbeatRequest : Call(c, q) /\ Goto(c, "heartbeat")
    \/ \E q \in EventsRequest :
          Call(c, q) /\ tx' = [tx EXCEPT ![c] = TxAt("insert", q.batch, {})]
    \/ \E q \in PolicyRequest : Call(c, q) /\ Goto(c, "lock")

----------------------------------------------------------------------------
(* Operations of one statement, which is a transaction of its own. *)
InsertAgent(c) ==
    /\ At(c, "agent")
    /\ CreateAgent(c)
    /\ Leave(c)

(* MySQL counts changed rows, so the method looks up the Agent of a        *)
(* heartbeat that changed nothing; rows are never deleted, and it is found.*)
UpdateAgent(c) ==
    /\ At(c, "heartbeat")
    /\ UpdateHeartbeat(c)
    /\ Leave(c)

----------------------------------------------------------------------------
(* SaveEvents: one INSERT for each event, which skips an id that exists. *)

(* Mutant: the INSERT does not wait for a rival's uncommitted row. *)
InsertEvent_NoWait(c) ==
    /\ At(c, "insert")
    /\ \E e \in tx[c].todo :
          tx' = [tx EXCEPT ![c] = TxAt("insert", @.todo \ {e},
                 IF events[e] = None THEN @.ins \cup {e} ELSE @.ins)]
    /\ UNCHANGED storeVars

InsertEvent(c) ==
    /\ At(c, "insert")
    /\ \E e \in tx[c].todo :
          /\ \A d \in Callers \ {c} : e \notin tx[d].ins
          /\ tx' = [tx EXCEPT ![c] = TxAt("insert", @.todo \ {e},
                 IF events[e] = None THEN @.ins \cup {e} ELSE @.ins)]
    /\ UNCHANGED storeVars

CommitEvents(c) ==
    /\ At(c, "insert") /\ tx[c].todo = {}
    /\ events' = [e \in EventIDs |->
           IF e \in tx[c].ins THEN request[c].agent ELSE events[e]]
    /\ Done(c, Cardinality(tx[c].ins))
    /\ Leave(c)
    /\ UNCHANGED <<agents, policies, audits>>

----------------------------------------------------------------------------
(* SavePolicyAndAudit *)

(* Mutant: a SELECT without FOR UPDATE takes no lock and waits for none,   *)
(* and the UPDATE relies on it.                                            *)
LockPolicy_NoLock(c) ==
    LET r == policies[request[c].agent].revision
    IN  /\ At(c, "lock")
        /\ \/ /\ r = request[c].expected
              /\ Goto(c, IF r = 0 THEN "create" ELSE "audit") /\ UNCHANGED storeVars
           \/ /\ r # request[c].expected
              /\ Conflict(c) /\ Leave(c)

(* SELECT revision ... FOR UPDATE.  No row is no lock; a row is locked     *)
(* once its holder has ended, and read as the holder has left it.          *)
LockPolicy(c) ==
    LET a == request[c].agent
        r == policies[a].revision
    IN  /\ At(c, "lock")
        /\ r # 0 => PolicyFree(c, a)
        /\ \/ /\ r = request[c].expected
              /\ Goto(c, IF r = 0 THEN "create" ELSE "update")
              /\ UNCHANGED storeVars
           \/ /\ r # request[c].expected
              /\ Conflict(c) /\ Leave(c)

(* The INSERT waits for a rival that has written the key, and then fails   *)
(* if the rival has committed.                                             *)
InsertPolicy(c) ==
    LET a == request[c].agent
    IN  /\ At(c, "create") /\ PolicyFree(c, a)
        /\ \/ /\ policies[a].revision = 0
              /\ Goto(c, "audit") /\ UNCHANGED storeVars
           \/ /\ policies[a].revision # 0
              /\ Conflict(c) /\ Leave(c)

(* UPDATE ... WHERE revision = expected, whose row count is checked. *)
UpdatePolicy(c) ==
    LET r == policies[request[c].agent].revision
    IN  /\ At(c, "update")
        /\ IF r = request[c].expected
           THEN Goto(c, "audit") /\ UNCHANGED storeVars
           ELSE Conflict(c) /\ Leave(c)

InsertAudit(c) ==
    /\ At(c, "audit")
    /\ Goto(c, "commit")
    /\ UNCHANGED storeVars

CommitPolicy(c) ==
    LET a == request[c].agent
        r == request[c].expected
        b == request[c].body
    IN  /\ At(c, "commit")
        /\ policies' = [policies EXCEPT ![a] = [revision |-> r + 1, body |-> b]]
        /\ audits' = [audits EXCEPT ![a] =
               Append(@, [previous |-> r, new |-> r + 1, body |-> b])]
        /\ Done(c, 0)
        /\ Leave(c)
        /\ UNCHANGED <<agents, events>>

----------------------------------------------------------------------------
(* A statement fails, a lock wait times out: the transaction is rolled     *)
(* back and the method returns an error that is not a conflict.            *)
StatementFails(c) ==
    /\ Busy(c)
    /\ Fail({c})
    /\ Leave(c)

(* Mutant: waits for an event's key are not part of the wait graph. *)
WaitsFor_PoliciesOnly(c, d) ==
    c # d /\ tx[c].at \in {"lock", "create"} /\ Holds(d, request[c].agent)

(* The database ends a circular wait between two transactions. *)
WaitsFor(c, d) ==
    /\ c # d
    /\ \/ tx[c].at = "insert" /\ tx[c].todo \cap tx[d].ins # {}
       \/ tx[c].at \in {"lock", "create"} /\ Holds(d, request[c].agent)

DeadlockVictim(c) ==
    /\ \E d \in Callers : WaitsFor(c, d) /\ WaitsFor(d, c)
    /\ Fail({c})
    /\ Leave(c)

(* The database or the control service dies: what is open is rolled back. *)
Restart ==
    /\ Fail({c \in Callers : Busy(c)})
    /\ tx' = [c \in Callers |-> Idle]

----------------------------------------------------------------------------
Step(c) ==
    \/ InsertAgent(c) \/ UpdateAgent(c)
    \/ InsertEvent(c) \/ CommitEvents(c)
    \/ LockPolicy(c) \/ InsertPolicy(c) \/ UpdatePolicy(c)
    \/ InsertAudit(c) \/ CommitPolicy(c)

Next ==
    \/ \E c \in Callers : Begin(c) \/ Step(c) \/ StatementFails(c) \/ DeadlockVictim(c)
    \/ Restart

Spec == Init /\ [][Next]_vars

(* A statement ends, a waiter is not passed over for ever when the lock it *)
(* waits for is released, and the database resolves deadlocks; nothing is  *)
(* assumed of the callers or of the failures.                              *)
FairSpec ==
    /\ Spec
    /\ \A c \in Callers : SF_vars(Step(c)) /\ WF_vars(DeadlockVictim(c))

----------------------------------------------------------------------------
(* The SQL store keeps the promise of the contract: every operation takes  *)
(* effect at one instant with the result Memory would give, whatever the   *)
(* interleaving of the statements (the comment on store.Store).            *)
Contract == StoreSpec

(* A policy is never changed without its audit record, nor recorded        *)
(* without being changed, and two administrators never save the same       *)
(* revision: the audit log is the gapless history of the policy            *)
(* (SavePolicyAndAudit, "Atomically update an Agent policy and append its  *)
(* audit record" in api/openapi.yaml).                                     *)
PolicyAudited ==
    \A a \in AgentIDs :
        /\ Len(audits[a]) = policies[a].revision
        /\ \A i \in 1..Len(audits[a]) :
              audits[a][i].previous = i - 1 /\ audits[a][i].new = i
        /\ policies[a].revision > 0 =>
              audits[a][Len(audits[a])].body = policies[a].body

(* Every method of the store returns, also when batches with events in     *)
(* common are inserted in opposite orders and wait for each other.         *)
EveryCallReturns == \A c \in Callers : Busy(c) ~> ~Busy(c)

----------------------------------------------------------------------------
(* The inductive invariant of the proofs: what a transaction knows of the  *)
(* committed tables, and what its locks keep from the others.              *)
TxInv ==
    \A c \in Callers :
        /\ At(c, "none") <=> ~Busy(c)
        /\ At(c, "agent") => Op(c) = "CreateAgent"
        /\ At(c, "heartbeat") =>
              Op(c) = "UpdateHeartbeat" /\ agents[request[c].agent] # None
        /\ At(c, "insert") => Op(c) = "SaveEvents"
        /\ tx[c].at \in {"lock", "create", "update", "audit", "commit"} =>
              Op(c) = "SavePolicyAndAudit"

EventInv ==
    \A c \in Callers :
        /\ ~At(c, "insert") => tx[c].ins = {}
        /\ At(c, "insert") =>
              /\ tx[c].todo \subseteq request[c].batch
              /\ tx[c].ins \subseteq request[c].batch \ tx[c].todo
              /\ \A e \in request[c].batch \ tx[c].todo :
                    e \in tx[c].ins <=> events[e] = None
        /\ \A d \in Callers \ {c} : tx[c].ins \cap tx[d].ins = {}

LockInv ==
    \A c \in Callers :
        /\ At(c, "create") => request[c].expected = 0
        /\ tx[c].at \in {"update", "audit", "commit"} =>
              /\ policies[request[c].agent].revision = request[c].expected
              /\ PolicyFree(c, request[c].agent)

SQLInv == TypeOK /\ TxInv /\ EventInv /\ LockInv /\ PolicyAudited
=============================================================================
