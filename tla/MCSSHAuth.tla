----------------------------- MODULE MCSSHAuth -----------------------------
(* A host with a log and a journal, for TLC: lines about one source, and   *)
(* another of which the state may remember an attempt.                     *)
EXTENDS SSHAuth, TLC

CONSTANTS a, b

MCTexts == {[kind |-> k, ip |-> a] : k \in {"failed", "garbled", "accepted", "long"}}
=============================================================================
