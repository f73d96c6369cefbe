------------------------------- MODULE Store -------------------------------
(***************************************************************************)
(* What the control plane's store promises its callers: the interface      *)
(* store.Store with the behaviour of store.Memory, whose mutex makes every *)
(* operation one step.  The comment on the interface asks the same of      *)
(* every database implementation; SQLStore is shown to implement this      *)
(* module.                                                                 *)
(*                                                                         *)
(* A database may fail: an operation may then report an error, but it has  *)
(* happened as a whole or not at all, and a conflict it reports is one.    *)
(***************************************************************************)
EXTENDS Naturals, Sequences, FiniteSets

CONSTANTS
    Callers,      \* the goroutines of the HTTP server
    AgentIDs, Machines, Versions, EventIDs,
    Bodies,       \* the settings of a policy, its revision apart
    MaxRevision,  \* bound: policy revisions
    None          \* no row, no request

CreateRequest ==
    [op : {"CreateAgent"}, agent : AgentIDs, machine : Machines, version : Versions]
HeartbeatRequest == [op : {"UpdateHeartbeat"}, agent : AgentIDs, version : Versions]
EventsRequest ==
    [op : {"SaveEvents"}, agent : AgentIDs, batch : SUBSET EventIDs \ {{}}]
PolicyRequest ==
    [op : {"SavePolicyAndAudit"}, agent : AgentIDs,
     expected : 0..(MaxRevision - 1), body : Bodies]
Request == CreateRequest \cup HeartbeatRequest \cup EventsRequest \cup PolicyRequest

AgentRow == [machine : Machines, version : Versions]
PolicyRow == [revision : 0..MaxRevision, body : Bodies \cup {None}]
AuditLog == [previous : 0..MaxRevision, new : 0..MaxRevision, body : Bodies]

ASSUME StoreAssumption ==
    /\ MaxRevision \in Nat \ {0}
    /\ None \notin AgentIDs /\ None \notin Bodies
    /\ None \notin AgentRow /\ None \notin Request
    /\ IsFiniteSet(EventIDs)

VARIABLES
    agents,    \* agents[a]: the row of Agent a, or None
    events,    \* events[e]: the Agent whose report of e was stored, or None
    policies,  \* policies[a]: the policy row; revision 0 stands for no row
    audits,    \* audits[a]: the audit records of a's policy, oldest first
    request,   \* request[c]: the operation c waits for, or None
    reply      \* reply[c]: what the last operation of c returned

tables == <<agents, events, policies, audits>>
storeVars == <<tables, request, reply>>

Status == {"none", "ok", "conflict", "error"}

StoreInit ==
    /\ agents = [a \in AgentIDs |-> None]
    /\ events = [e \in EventIDs |-> None]
    /\ policies = [a \in AgentIDs |-> [revision |-> 0, body |-> None]]
    /\ audits = [a \in AgentIDs |-> <<>>]
    /\ request = [c \in Callers |-> None]
    /\ reply = [c \in Callers |-> [status |-> "none", inserted |-> 0]]

----------------------------------------------------------------------------
Busy(c) == request[c] # None

Op(c) == request[c].op

Answer(c, s, n) ==
    /\ request' = [request EXCEPT ![c] = None]
    /\ reply' = [reply EXCEPT ![c] = [status |-> s, inserted |-> n]]

(* The operation has taken effect; the caller learns it, or gets an error  *)
(* because the connection is lost with the confirmation.                   *)
Done(c, n) == Answer(c, "ok", n) \/ Answer(c, "error", 0)

Conflict(c) == Answer(c, "conflict", 0) /\ UNCHANGED tables

(* The handlers have looked the Agent up before they save a heartbeat or   *)
(* events (in authorizeAgent) or a policy (in putAgentPolicy).             *)
Call(c, q) ==
    /\ ~Busy(c)
    /\ q \notin CreateRequest => agents[q.agent] # None
    /\ request' = [request EXCEPT ![c] = q]
    /\ reply' = [reply EXCEPT ![c] = [status |-> "none", inserted |-> 0]]
    /\ UNCHANGED tables

(* CreateAgent: the id and the machine id are unique. *)
Taken(a, m) ==
    agents[a] # None \/ \E b \in AgentIDs : agents[b] # None /\ agents[b].machine = m

CreateAgent(c) ==
    LET a == request[c].agent
        m == request[c].machine
    IN  /\ Busy(c) /\ Op(c) = "CreateAgent"
        /\ \/ /\ ~Taken(a, m)
              /\ agents' = [agents EXCEPT ![a] =
                     [machine |-> m, version |-> request[c].version]]
              /\ Done(c, 0)
              /\ UNCHANGED <<events, policies, audits>>
           \/ Taken(a, m) /\ Conflict(c)

(* UpdateHeartbeat: authorizeAgent has found the row, and no row is ever   *)
(* deleted, so ErrNotFound does not occur.                                 *)
UpdateHeartbeat(c) ==
    LET a == request[c].agent
    IN  /\ Busy(c) /\ Op(c) = "UpdateHeartbeat"
        /\ agents' = [agents EXCEPT ![a] =
               [machine |-> @.machine, version |-> request[c].version]]
        /\ Done(c, 0)
        /\ UNCHANGED <<events, policies, audits>>

(* SaveEvents: an id the store has is skipped; the others are counted. *)
SaveEvents(c) ==
    LET fresh == {e \in request[c].batch : events[e] = None}
    IN  /\ Busy(c) /\ Op(c) = "SaveEvents"
        /\ events' = [e \in EventIDs |->
               IF e \in fresh THEN request[c].agent ELSE events[e]]
        /\ Done(c, Cardinality(fresh))
        /\ UNCHANGED <<agents, policies, audits>>

(* SavePolicyAndAudit: compare and swap on the revision, with the audit    *)
(* record of the change.                                                   *)
SavePolicyAndAudit(c) ==
    LET a == request[c].agent
        r == request[c].expected
        b == request[c].body
    IN  /\ Busy(c) /\ Op(c) = "SavePolicyAndAudit"
        /\ \/ /\ policies[a].revision = r
              /\ policies' = [policies EXCEPT ![a] = [revision |-> r + 1, body |-> b]]
              /\ audits' = [audits EXCEPT ![a] =
                     Append(@, [previous |-> r, new |-> r + 1, body |-> b])]
              /\ Done(c, 0)
              /\ UNCHANGED <<agents, events>>
           \/ policies[a].revision # r /\ Conflict(c)

(* The operations of the callers in C fail without an effect. *)
Fail(C) ==
    /\ request' = [c \in Callers |-> IF c \in C THEN None ELSE request[c]]
    /\ reply' = [c \in Callers |->
          IF c \in C THEN [status |-> "error", inserted |-> 0] ELSE reply[c]]
    /\ UNCHANGED tables

StoreNext ==
    \/ \E c \in Callers :
          \/ \E q \in Request : Call(c, q)
          \/ CreateAgent(c) \/ UpdateHeartbeat(c)
          \/ SaveEvents(c) \/ SavePolicyAndAudit(c)
    \/ \E C \in SUBSET {c \in Callers : Busy(c)} : Fail(C)

StoreSpec == StoreInit /\ [][StoreNext]_storeVars
=============================================================================
