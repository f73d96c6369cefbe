----------------------------- MODULE MCGateway -----------------------------
(* Two requests through the gateway, with its outbox and the socket, for   *)
(* TLC.  The outbox has room for one event.                                *)
EXTENDS Gateway

FileNames == 1..MaxEvents
=============================================================================
