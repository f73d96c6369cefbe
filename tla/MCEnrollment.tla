---------------------------- MODULE MCEnrollment ----------------------------
(* One machine, its Agent processes and the control plane, for TLC. *)
EXTENDS Enrollment
=============================================================================
