----------------------------- MODULE MCDelivery -----------------------------
(* One Agent, its queue and the control plane's event store, for TLC. *)
EXTENDS AgentDelivery, TLC
=============================================================================
