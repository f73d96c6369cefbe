----------------------------- MODULE MCSQLStore -----------------------------
(* The SQL store with concurrent callers, for TLC. *)
EXTENDS SQLStore
=============================================================================
