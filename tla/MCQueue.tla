------------------------------ MODULE MCQueue ------------------------------
(* The encrypted queue with two handles on one directory, for TLC. *)
EXTENDS EncryptedQueue, TLC

(* The two handles run the same operations. *)
QueueSymmetry == Permutations(Handles) \cup Permutations(Events)
=============================================================================
