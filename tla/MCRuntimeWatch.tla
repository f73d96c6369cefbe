--------------------------- MODULE MCRuntimeWatch ---------------------------
(* A host with four processes, of which two share a name and two an        *)
(* executable and one has a path that is not UTF-8, and two sockets of the *)
(* family that may be absent, for TLC.                                     *)
EXTENDS RuntimeWatch, TLC

MCProcs == {[name |-> "sshd", exe |-> 1, pid |-> 1], [name |-> "cron", exe |-> 1, pid |-> 2],
            [name |-> "sshd", exe |-> 3, pid |-> 3], [name |-> "cron", exe |-> 6, pid |-> 4]}
MCNameIdentity == [n \in {"sshd", "cron"} |-> IF n = "sshd" THEN 2 ELSE 5]
MCPorts == {[family |-> "tcp6", port |-> 22], [family |-> "tcp6", port |-> 80]}

(* An identity and a socket take a unit each. *)
MCBytes(s) == Cardinality(KnownIn(s)) + Cardinality(s.ports)
=============================================================================
