-------------------------- MODULE MCFileIntegrity --------------------------
(* A host with a few files under watch, for TLC. *)
EXTENDS FileIntegrity, TLC

(* An entry takes a unit, its hash another, as do the hash of the coverage *)
(* and the second digit of a generation that follows 3.                    *)
MCBytes(value) ==
    Count(value.entries) + Cardinality({p \in Paths : value.entries[p] \in Contents})
    + (IF value.coverage = {} THEN 0 ELSE 1) + (IF value.generation > 3 THEN 1 ELSE 0)
=============================================================================
