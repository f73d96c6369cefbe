------------------------------ MODULE Gateway ------------------------------
(***************************************************************************)
(* The way of a request through the gateway (internal/gateway/gateway.go): *)
(* the inspection by the Coraza engine, whose rule matches are emitted     *)
(* while the request waits (GatewayOutbox), the failure policy, the        *)
(* reverse proxy, and the response writer that remembers the status.       *)
(*                                                                         *)
(* A request has at most one rule match, the event of the same name.  The  *)
(* engine and the reverse proxy are libraries: the engine passes, blocks   *)
(* or gives up without an answer; the proxy writes what the upstream       *)
(* answers, informational responses included.                              *)
(***************************************************************************)
EXTENDS GatewayOutbox

VARIABLES
    mode,      \* Config.Mode
    policy,    \* Config.FailurePolicy
    req,       \* req[e]: where the request is
    status,    \* status[e]: responseStatus.status, "none" for 0
    sent,      \* sent[e]: how often it was sent to the upstream
    answered   \* answered[e]: what the upstream answered

config == <<mode, policy>>
requests == <<req, status, sent, answered>>
gatewayVars == <<vars, config, requests>>

RequestPC == {"new", "inspect", "forward", "log", "direct", "done", "dropped"}
Status == {"none", "informational", "final", "bad gateway", "forbidden",
           "unavailable"}

(* The type of the state; in particular no request is sent on twice. *)
GatewayTypeOK ==
    /\ OutboxTypeOK
    /\ mode \in {"bypass", "observe", "block"}
    /\ policy \in {"fail_open", "fail_closed"}
    /\ req \in [Events -> RequestPC]
    /\ status \in [Events -> Status]
    /\ sent \in [Events -> 0..1]
    /\ answered \in [Events -> {"none", "final", "error"}]

GatewayInit ==
    /\ Init
    /\ mode \in {"bypass", "observe", "block"}
    /\ policy \in {"fail_open", "fail_closed"}
    /\ req = [e \in Events |-> "new"]
    /\ status = [e \in Events |-> "none"]
    /\ sent = [e \in Events |-> 0]
    /\ answered = [e \in Events |-> "none"]

----------------------------------------------------------------------------
Goto(e, pc) == req' = [req EXCEPT ![e] = pc]

(* responseStatus.WriteHeader: the first status counts, later ones are     *)
(* dropped.                                                                *)
WriteHeader(e, s) == IF status[e] = "none" THEN s ELSE status[e]
Write(e, s) == status' = [status EXCEPT ![e] = WriteHeader(e, s)]

(* proxy.ServeHTTP begins, called by the engine ("forward") or without it  *)
(* ("direct"): the request goes to the upstream.                           *)
Proxy(e, pc) == Goto(e, pc) /\ sent' = [sent EXCEPT ![e] = @ + 1]

(* Emit is called by the engine, and returns to it. *)
Emitting(e) == emit[e] \in {"send", "persist", "write"}

Request(e) ==
    /\ req[e] = "new"
    /\ IF mode = "bypass" THEN Proxy(e, "direct") ELSE Goto(e, "inspect") /\ UNCHANGED sent
    /\ UNCHANGED <<vars, config, status, answered>>

(* A rule matches, during the inspection or in the logging phase after the *)
(* answer: the error callback calls emitRuleMatch.                         *)
RuleMatch(e) ==
    /\ req[e] \in {"inspect", "log"}
    /\ EmitBegin(e)
    /\ UNCHANGED <<config, requests>>

----------------------------------------------------------------------------
InspectionPasses(e) ==
    /\ req[e] = "inspect" /\ ~Emitting(e)
    /\ Proxy(e, "forward")
    /\ UNCHANGED <<vars, config, status, answered>>

(* SecRuleEngine On: the engine answers, the upstream is not asked. *)
InspectionBlocks(e) ==
    /\ req[e] = "inspect" /\ ~Emitting(e) /\ mode = "block"
    /\ Write(e, "forbidden") /\ Goto(e, "log")
    /\ UNCHANGED <<vars, config, sent, answered>>

(* Mutant: the failure of Emit is taken for a failure of the inspection. *)
InspectionFails_Emit(e) ==
    /\ req[e] = "inspect" /\ ~Emitting(e)
    /\ Goto(e, "log")
    /\ status' = [status EXCEPT ![e] =
           IF emit[e] = "error" THEN "unavailable" ELSE "none"]
    /\ UNCHANGED <<vars, config, sent, answered>>

(* The engine cannot process the request and returns without an answer. *)
InspectionFails(e) ==
    /\ req[e] = "inspect" /\ ~Emitting(e)
    /\ Goto(e, "log")
    /\ UNCHANGED <<vars, config, status, sent, answered>>

----------------------------------------------------------------------------
(* The upstream, through the reverse proxy: informational responses are    *)
(* written as they come, then the final one, or 502 by the ErrorHandler.   *)
Answers(e, result, s) ==
    /\ req[e] \in {"forward", "direct"}
    /\ answered' = [answered EXCEPT ![e] = result]
    /\ Write(e, s) \/ Write(e, "informational")
    /\ Goto(e, IF req[e] = "forward" THEN "log" ELSE "done")
    /\ UNCHANGED <<vars, config, sent>>

UpstreamAnswers(e) == Answers(e, "final", "final")
UpstreamFails(e) == Answers(e, "error", "bad gateway")

(* wafHandler.ServeHTTP returns without an answer: the failure policy. *)
Unanswered(e) == status[e] = "none"

Returned(e) ==
    /\ req[e] = "log" /\ ~Emitting(e)
    /\ \/ ~Unanswered(e) /\ Goto(e, "done") /\ UNCHANGED <<status, sent>>
       \/ /\ Unanswered(e) /\ policy = "fail_open"
          /\ Proxy(e, "direct") /\ UNCHANGED status
       \/ /\ Unanswered(e) /\ policy = "fail_closed"
          /\ Write(e, "unavailable") /\ Goto(e, "done") /\ UNCHANGED sent
    /\ UNCHANGED <<vars, config, answered>>

----------------------------------------------------------------------------
(* The process dies and is restarted: its connections are closed. *)
GatewayDies ==
    /\ GatewayRestarts
    /\ req' = [e \in Events |-> IF req[e] \in {"new", "done"} THEN req[e] ELSE "dropped"]
    /\ UNCHANGED <<config, status, sent, answered>>

RequestStep(e) ==
    \/ InspectionPasses(e) \/ InspectionBlocks(e) \/ InspectionFails(e)
    \/ UpstreamAnswers(e) \/ UpstreamFails(e) \/ Returned(e)

Emits(e) == EmitStep(e) /\ UNCHANGED <<config, requests>>
Forwards == FlushStep /\ UNCHANGED <<config, requests>>
Listens == Receive /\ UNCHANGED <<config, requests>>

ChannelStep ==
    /\ (\E e \in Events : PersistFails(e)) \/ FlushFails \/ AgentStops \/ AgentStarts
    /\ UNCHANGED <<config, requests>>

GatewayNext ==
    \/ \E e \in Events : Request(e) \/ RuleMatch(e) \/ RequestStep(e) \/ Emits(e)
    \/ Forwards \/ Listens \/ ChannelStep \/ GatewayDies

GatewaySpec == GatewayInit /\ [][GatewayNext]_gatewayVars

(* The goroutines run, and the proxy's transport gives up on an upstream   *)
(* that does not answer.  The mutex of the outbox is handed on, as in      *)
(* GatewayOutbox.                                                          *)
GatewayFairSpec ==
    /\ GatewaySpec
    /\ \A e \in Events : WF_gatewayVars(RequestStep(e)) /\ SF_gatewayVars(Emits(e))
    /\ WF_gatewayVars(Forwards)

----------------------------------------------------------------------------
(* A request is refused by the gateway, and then the upstream never saw    *)
(* it, or it was sent to the upstream once and the client has its answer:  *)
(* whether the engine blocked or gave up, whatever the failure policy, and *)
(* whether or not the channel took the event (INTEGRATION_CHECKS.md lines  *)
(* 52 and 122).  One answer is not passed on: after an informational       *)
(* response the final status is dropped, and the client reads 200.         *)
AnswerTrue ==
    \A e \in Events : req[e] = "done" =>
        CASE status[e] = "forbidden"   -> sent[e] = 0 /\ mode = "block"
          [] status[e] = "unavailable" -> sent[e] = 0 /\ policy = "fail_closed"
          [] status[e] = "final"       -> sent[e] = 1 /\ answered[e] = "final"
          [] status[e] = "bad gateway" -> sent[e] = 1 /\ answered[e] = "error"
          [] status[e] = "informational" -> sent[e] = 1
          [] OTHER -> FALSE

(* Every request that is taken is answered unless the gateway dies: the    *)
(* engine waits for Emit, and Emit for the mutex of the outbox, which a    *)
(* Flush, another request or a failing write may hold, but never for good. *)
RequestsAnswered ==
    \A e \in Events : req[e] = "inspect" ~> req[e] \in {"done", "dropped"}
=============================================================================
