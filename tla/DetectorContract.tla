-------------------------- MODULE DetectorContract --------------------------
(***************************************************************************)
(* What runCycle promises for a detector, whatever it detects: facts are   *)
(* told first, by events in the queue, and settled afterwards, when a      *)
(* state that will not yield them again is committed.                      *)
(***************************************************************************)
VARIABLES
    told,     \* the facts the queued events have told
    settled   \* the facts the committed state has passed

Init == told = {} /\ settled = {}

(* Events are queued, in a cycle that may fail. *)
Tell == told \subseteq told' /\ settled' = settled

(* Commit: only what has been told. *)
Settle == settled \subseteq settled' /\ settled' \subseteq told /\ told' = told

Next == Tell \/ Settle

Spec == Init /\ [][Next]_<<told, settled>>
=============================================================================
