---------------------------- MODULE FileIntegrity ----------------------------
(***************************************************************************)
(* The file integrity detector (internal/detector/fileintegrity) under the *)
(* cycle that drives it: Scan compares what it captures with the baseline, *)
(* runCycle queues the events one by one and then calls Commit, and the    *)
(* process may die anywhere between.                                       *)
(*                                                                         *)
(* Every path is in a directory of its own, which may become unreadable;   *)
(* an entry (hash, size, mode) is abstracted to the content of the file,   *)
(* and a file too large to hash to its size, which all of them share.      *)
(* The walk is one step: paths are compared one by one, and a change that  *)
(* the walk has passed is found by the next one.                           *)
(***************************************************************************)
EXTENDS Naturals, FiniteSets

CONSTANTS
    Paths,          \* file names; their order is the order of the walk
    Contents,       \* what a file may hold
    Large,          \* the contents among them that exceed MaxFileSize
    MaxFiles,       \* the limit of capture and of a baseline
    MaxEvents,      \* the limit of change events in a cycle
    BadNames,       \* the paths whose name holds a CR or LF
    Bytes(_),       \* the length of a baseline once it is encoded
    MaxBytes,       \* the limit of that length (maxBaselineBytes)
    MaxGeneration,  \* the last generation (2^64 - 1 in the code)
    MaxChanges,     \* bound: changes of the environment and failed cycles
    None            \* no file, no baseline, no result

ASSUME FileIntegrityAssumption ==
    /\ Paths \in SUBSET Nat /\ IsFiniteSet(Paths) /\ BadNames \subseteq Paths
    /\ Large \subseteq Contents /\ MaxBytes \in Nat
    /\ MaxFiles \in Nat \ {0} /\ MaxEvents \in Nat \ {0}
    /\ MaxGeneration \in Nat \ {0} /\ MaxChanges \in Nat
    /\ None \notin Contents \cup {"size"}

VARIABLES
    fs,        \* fs[p]: the content of the file p, or None
    hidden,    \* the paths whose directory cannot be read
    watched,   \* the paths of the configuration, which a policy may replace
    baseline,  \* the baseline file, or None
    result,    \* the Result of the Scan of this cycle, or None
    queued,    \* the ids of the events ever queued
    closed,    \* history: those queued before the baseline was committed
    changes    \* the changes of the environment so far

vars == <<fs, hidden, watched, baseline, result, queued, closed, changes>>
env == <<fs, hidden, watched, changes>>

(* captureFile: what a baseline remembers of a file. *)
Entry(c) == IF c \in Large THEN "size" ELSE c
Entries == [Paths -> (Contents \ Large) \cup {"size", None}]
Issue == [path : Paths, reason : {"unreadable", "large"}]
Baseline == [generation : 1..MaxGeneration, coverage : SUBSET Issue, entries : Entries]

(* simpleEvent: the id is a hash of the kind, the generation and the       *)
(* evidence; here it is these three.                                       *)
Event(kind, g, evidence) == <<kind, g, evidence>>

Count(entries) == Cardinality({p \in Paths : entries[p] # None})

(* What saveBaseline and loadBaseline ask of a baseline. *)
validateBaseline(value) ==
    /\ value.generation > 0 /\ Count(value.entries) <= MaxFiles
    /\ \A p \in BadNames : value.entries[p] = None

(* saveBaseline also refuses one that is too long. *)
Saveable(value) == validateBaseline(value) /\ Bytes(value) <= MaxBytes

(* The type of the state; in particular a baseline on disk is one that     *)
(* loadBaseline accepts, in what it holds and in its length.               *)
FimTypeOK ==
    /\ fs \in [Paths -> Contents \cup {None}]
    /\ hidden \in SUBSET Paths /\ watched \in SUBSET Paths
    /\ changes \in 0..MaxChanges
    /\ baseline # None => baseline \in Baseline /\ Saveable(baseline)
    /\ result # None /\ result.next # None => result.next \in Baseline
    /\ closed \subseteq queued

Init ==
    /\ fs \in [Paths -> Contents \cup {None}]
    /\ hidden = {} /\ watched = Paths
    /\ baseline = None /\ result = None /\ queued = {} /\ closed = {}
    /\ changes = 0

----------------------------------------------------------------------------
(* The environment: files are written and removed, directories become      *)
(* unreadable and readable, a policy replaces the watched paths.           *)
Change == changes < MaxChanges /\ changes' = changes + 1

WriteFile(p) ==
    /\ Change
    /\ \E c \in Contents \cup {None} : c # fs[p] /\ fs' = [fs EXCEPT ![p] = c]
    /\ UNCHANGED <<hidden, watched, baseline, result, queued, closed>>

ChangeAccess(p) ==
    /\ Change
    /\ hidden' = IF p \in hidden THEN hidden \ {p} ELSE hidden \cup {p}
    /\ UNCHANGED <<fs, watched, baseline, result, queued, closed>>

ChangePolicy ==
    /\ Change
    /\ watched' \in SUBSET Paths \ {watched}
    /\ UNCHANGED <<fs, hidden, baseline, result, queued, closed>>

----------------------------------------------------------------------------
(* capture *)
Visible == {p \in watched \ hidden : fs[p] # None}
Captured == [p \in Paths |-> IF p \in Visible THEN Entry(fs[p]) ELSE None]
(* Mutant: the limit is compared with > instead of >=. *)
Limited_OffByOne == Cardinality(Visible) > MaxFiles + 1

(* captureFile meets one more file than the limit. *)
Limited == Cardinality(Visible) > MaxFiles
Issues == {i \in Issue : \/ i.reason = "unreadable" /\ i.path \in watched \cap hidden
                         \/ i.reason = "large" /\ i.path \in Visible /\ fs[i.path] \in Large}

(* Mutant: what cannot be read is taken to be gone. *)
preserveInaccessible_Dropped(previous, current) == current

(* An unreadable path keeps its entry. *)
preserveInaccessible(previous, current) ==
    [p \in Paths |-> IF p \in watched \cap hidden /\ current[p] = None
                     THEN previous[p] ELSE current[p]]

Changed(previous, current) == {p \in Paths : previous[p] # current[p]}

ChangeID(p, previous, current, g) ==
    Event("changed", g, <<p, previous[p], current[p]>>)
OverflowID(previous, current, g) ==
    Event("overflow", g, Cardinality(Changed(previous, current)))

(* The first MaxEvents changes, and an event for the overflow. *)
changeEvents(previous, current, g) ==
    LET changed == Changed(previous, current)
        first == {p \in changed : Cardinality({q \in changed : q < p}) < MaxEvents}
    IN  {ChangeID(p, previous, current, g) : p \in first}
        \cup IF Cardinality(changed) > MaxEvents
             THEN {OverflowID(previous, current, g)} ELSE {}

(* The event for a coverage that differs from the one of the baseline. *)
coverageEvents(previous, issues, g) ==
    IF issues = previous THEN {}
    ELSE IF issues # {} THEN {Event("coverage", g, issues)}
    ELSE {Event("restored", g, {})}

(* Mutant: the generation is not part of an id. *)
Generation_Constant == 0

(* The generation of the baseline, 0 when there is none. *)
Generation == IF baseline = None THEN 0 ELSE baseline.generation

(* Scan beyond the file limit: an event, and nothing to commit. *)
ScanLimited ==
    /\ result = None /\ Limited
    /\ result' = [events |-> {Event("limited", Generation, Issues)}, next |-> None]
    /\ UNCHANGED <<env, baseline, queued, closed>>

(* The first baseline reports no changes. *)
ScanFirst ==
    /\ result = None /\ ~Limited /\ baseline = None
    /\ result' = [events |-> coverageEvents({}, Issues, Generation),
                  next |-> [generation |-> 1, coverage |-> Issues, entries |-> Captured]]
    /\ UNCHANGED <<env, baseline, queued, closed>>

Scan ==
    /\ result = None /\ ~Limited /\ baseline # None
    /\ baseline.generation < MaxGeneration
    /\ LET current == preserveInaccessible(baseline.entries, Captured)
       IN  result' =
             [events |-> changeEvents(baseline.entries, current, Generation)
                         \cup coverageEvents(baseline.coverage, Issues, Generation),
              next |-> [generation |-> baseline.generation + 1,
                        coverage |-> Issues, entries |-> current]]
    /\ UNCHANGED <<env, baseline, queued, closed>>

ScanExhausted ==
    /\ result = None /\ ~Limited /\ baseline # None
    /\ baseline.generation = MaxGeneration
    /\ UNCHANGED vars

----------------------------------------------------------------------------
(* runCycle queues every event ... *)
Enqueue ==
    /\ result # None
    /\ \E e \in result.events :
          /\ queued' = queued \cup {e}
          /\ result' = [result EXCEPT !.events = @ \ {e}]
    /\ UNCHANGED <<env, baseline, closed>>

(* Mutant: Commit does not wait for the events. *)
Commit_Early ==
    /\ result # None /\ result.next # None
    /\ Saveable(result.next)
    /\ baseline' = result.next /\ result' = None /\ closed' = queued
    /\ UNCHANGED <<env, queued>>

(* ... before it calls Commit: saveBaseline, by a rename. *)
Commit ==
    /\ result # None /\ result.events = {} /\ result.next # None
    /\ Saveable(result.next)
    /\ baseline' = result.next /\ result' = None /\ closed' = queued
    /\ UNCHANGED <<env, queued>>

(* The Commit of a limited scan does nothing. *)
CommitNothing ==
    /\ result # None /\ result.events = {} /\ result.next = None
    /\ result' = None
    /\ UNCHANGED <<env, baseline, queued, closed>>

(* A baseline that is too long is refused, and one with a name that it may *)
(* not hold or with too many entries, of which the preserved ones count    *)
(* as well: captureFile keeps neither out.                                 *)
CommitRefused ==
    /\ result # None /\ result.events = {} /\ result.next # None
    /\ ~Saveable(result.next)
    /\ result' = None
    /\ UNCHANGED <<env, baseline, queued, closed>>

(* The cycle fails or the process dies: the result is forgotten. *)
Abandon ==
    /\ result # None /\ Change
    /\ result' = None
    /\ UNCHANGED <<fs, hidden, watched, baseline, queued, closed>>

----------------------------------------------------------------------------
CycleStep ==
    \/ ScanLimited \/ ScanFirst \/ Scan \/ ScanExhausted
    \/ Enqueue \/ Commit \/ CommitNothing \/ CommitRefused

Next ==
    \/ CycleStep \/ Abandon \/ ChangePolicy
    \/ \E p \in Paths : WriteFile(p) \/ ChangeAccess(p)

Spec == Init /\ [][Next]_vars

----------------------------------------------------------------------------
(* The baseline never moves past a change that was not reported: for each  *)
(* entry that a Commit replaces, an event is queued for it or an event     *)
(* that says how many changes there were; and a coverage that it replaces  *)
(* has an event too (the comment on Result).                               *)
NoSilentChange ==
    [][baseline # baseline' /\ baseline # None =>
        LET g == Generation
            old == baseline.entries
            new == baseline'.entries
        IN  /\ \A p \in Changed(old, new) :
                  ChangeID(p, old, new, g) \in queued \/ OverflowID(old, new, g) \in queued
            /\ baseline.coverage # baseline'.coverage =>
                  \E e \in queued : e[2] = g /\ e[1] \in {"coverage", "restored"}]_vars

(* An id stands for one change: a file that changes back and changes again *)
(* is reported under a new id, or the control plane would take the second  *)
(* report for a repetition of the first and drop it.                       *)
FreshIds ==
    [][result = None /\ result' # None => result'.events \cap closed = {}]_vars

(* A watched file is reported as deleted only if it is: not because its    *)
(* directory could not be read (preserveInaccessible).                     *)
NoFalseDeletion ==
    [][result = None /\ result' # None =>
        \A e \in result'.events :
            e[1] = "changed" /\ e[3][3] = None /\ e[3][1] \in watched =>
                e[3][1] \notin hidden /\ fs[e[3][1]] = None]_vars

(* A refused Commit fails the cycle after its enqueue loop, and so does    *)
(* every later one until the cause is gone; once there is a baseline the   *)
(* cause was reported before. Too many entries come from an unreadable     *)
(* directory, whose entries were preserved beside new files; a name with a *)
(* CR or LF belongs to a file created since the baseline; and a baseline   *)
(* grew too long by a change of a file or of the coverage, or by a digit   *)
(* of its generation. Before the first baseline nothing is reported.       *)
RefusalExplained ==
    result # None /\ result.next # None /\ baseline # None =>
        LET told == queued \cup result.events
            g == Generation
            old == baseline.entries
            new == result.next.entries
            issues == result.next.coverage
            Told(p) == {ChangeID(p, old, new, g), OverflowID(old, new, g)} \cap told # {}
            CoverageTold == \E e \in told : e[2] = g /\ e[1] \in {"coverage", "restored"}
        IN  /\ Count(new) > MaxFiles =>
                  /\ \E i \in issues : i.reason = "unreadable"
                  /\ baseline.coverage = issues \/ Event("coverage", g, issues) \in told
            /\ \A p \in BadNames : new[p] # None => old[p] = None /\ Told(p)
            /\ Bytes(result.next) > MaxBytes =>
                  \/ CoverageTold \/ \E p \in Changed(old, new) : Told(p)
                  \/ Bytes([baseline EXCEPT !.generation = g + 1]) > MaxBytes
=============================================================================
