------------------------------ MODULE MCOutbox ------------------------------
(* The gateway's outbox and the Agent's socket, for TLC. *)
EXTENDS GatewayOutbox

(* One name more than the limit: an outbox that overruns it can be seen. *)
FileNames == 1..(MaxEvents + 1)
=============================================================================
