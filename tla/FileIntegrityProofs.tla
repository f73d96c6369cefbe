------------------------ MODULE FileIntegrityProofs ------------------------
(***************************************************************************)
(* What holds of the file integrity detector for every set of paths and    *)
(* contents and for every limit: the type invariant with a baseline that   *)
(* loads again, when a Commit is refused (RefusalExplained), that no       *)
(* change goes unreported (NoSilentChange), that an id stands for one      *)
(* change (FreshIds) and that an unreadable file is not taken for a        *)
(* deleted one (NoFalseDeletion).                                          *)
(***************************************************************************)
EXTENDS FileIntegrity, FiniteSetTheorems, TLAPS

(* The result of a Scan is compared with the baseline that is still on     *)
(* disk: what it found is queued or about to be, and a baseline that is    *)
(* too large says that something could not be read.                        *)
ScanInv ==
    result # None =>
        /\ result = [events |-> result.events, next |-> result.next]
        /\ result.next # None =>
              /\ result.next.generation = Generation + 1
              /\ Count(result.next.entries) > MaxFiles =>
                    \E i \in result.next.coverage : i.reason = "unreadable"
              /\ baseline # None =>
                    /\ changeEvents(baseline.entries, result.next.entries, Generation)
                          \subseteq queued \cup result.events
                    /\ coverageEvents(baseline.coverage, result.next.coverage, Generation)
                          \subseteq queued \cup result.events

(* An id carries the generation of the baseline it was found against. *)
IdInv ==
    /\ result # None => \A e \in result.events : e[2] = Generation
    /\ \A e \in queued : e[2] \in 0..Generation
    /\ \A e \in closed : e[2] < Generation

FimInv == FimTypeOK /\ ScanInv /\ IdInv

----------------------------------------------------------------------------
(* The generation of the baseline is a number within its range. *)
LEMMA GenerationType ==
    ASSUME FimTypeOK
    PROVE  Generation \in 0..MaxGeneration /\ (baseline # None => Generation = baseline.generation)
  BY FileIntegrityAssumption DEF FimTypeOK, Generation, Baseline

(* What captureFile remembers of a file is never mistaken for no file. *)
LEMMA CapturedType ==
    ASSUME FimTypeOK
    PROVE  /\ Captured \in Entries
           /\ \A p \in Paths : Captured[p] # None <=> p \in Visible
           /\ Visible \subseteq Paths
<1> USE FileIntegrityAssumption
<1>1. \A p \in Visible : Entry(fs[p]) \in (Contents \ Large) \cup {"size"} /\ Entry(fs[p]) # None
  BY DEF Visible, Entry, FimTypeOK
<1>2. \A p \in Paths : Captured[p] = IF p \in Visible THEN Entry(fs[p]) ELSE None
  BY DEF Captured
<1>3. Captured \in Entries
  BY <1>1 DEF Captured, Entries
<1> QED BY <1>1, <1>2, <1>3 DEF Visible, FimTypeOK

(* preserveInaccessible adds entries only for what could not be read. *)
LEMMA PreservedType ==
    ASSUME FimTypeOK, NEW previous \in Entries
    PROVE  /\ preserveInaccessible(previous, Captured) \in Entries
           /\ \A p \in Paths : preserveInaccessible(previous, Captured)[p] =
                 IF p \in watched \cap hidden /\ Captured[p] = None THEN previous[p] ELSE Captured[p]
  BY CapturedType DEF preserveInaccessible, Entries

(* A capture within the limit fits into a baseline, unless entries were    *)
(* preserved; those were reported as unreadable.                           *)
LEMMA CountCaptured ==
    ASSUME FimTypeOK, ~Limited
    PROVE  /\ Count(Captured) \in Nat /\ Count(Captured) <= MaxFiles
           /\ \A previous \in Entries :
                 Count(preserveInaccessible(previous, Captured)) > MaxFiles
                 => \E i \in Issues : i.reason = "unreadable"
<1> USE FileIntegrityAssumption
<1>1. {p \in Paths : Captured[p] # None} = Visible
  BY CapturedType
<1>2. IsFiniteSet(Visible) /\ Cardinality(Visible) \in Nat
  BY CapturedType, FS_Subset, FS_CardinalityType
<1>3. Count(Captured) \in Nat /\ Count(Captured) <= MaxFiles
  BY <1>1, <1>2 DEF Count, Limited
<1>4. ASSUME NEW previous \in Entries,
             Count(preserveInaccessible(previous, Captured)) > MaxFiles
      PROVE  \E i \in Issues : i.reason = "unreadable"
  <2>1. CASE watched \cap hidden = {}
    <3>1. {p \in Paths : preserveInaccessible(previous, Captured)[p] # None} = Visible
      BY <1>1, <2>1, PreservedType
    <3>2. Count(preserveInaccessible(previous, Captured)) = Count(Captured)
      BY <1>1, <3>1 DEF Count
    <3>3. ~(Count(Captured) > MaxFiles)
      BY <1>3
    <3> QED BY <1>4, <3>2, <3>3
  <2>2. ASSUME NEW p \in watched \cap hidden PROVE \E i \in Issues : i.reason = "unreadable"
    <3>1. p \in Paths
      BY DEF FimTypeOK
    <3>2. [path |-> p, reason |-> "unreadable"] \in Issues
      BY <3>1 DEF Issues, Issue
    <3> QED BY <3>2
  <2> QED BY <2>1, <2>2
<1> QED BY <1>3, <1>4

(* A change has an event of its own, or it is one of more changes than a   *)
(* cycle reports, and then an event says how many there were.              *)
LEMMA ChangeTold ==
    ASSUME NEW old, NEW new, NEW g, NEW p \in Changed(old, new)
    PROVE  \/ ChangeID(p, old, new, g) \in changeEvents(old, new, g)
           \/ OverflowID(old, new, g) \in changeEvents(old, new, g)
<1> USE FileIntegrityAssumption
<1> DEFINE changed == Changed(old, new)
           before == {q \in changed : q < p}
<1>1. IsFiniteSet(changed)
  BY FS_Subset DEF Changed
<1>2. CASE Cardinality(before) < MaxEvents
  BY <1>2 DEF changeEvents
<1>3. CASE ~(Cardinality(before) < MaxEvents)
  <2>1. /\ IsFiniteSet(before) /\ Cardinality(before) <= Cardinality(changed)
        /\ Cardinality(changed) = Cardinality(before) => changed = before
    BY <1>1, FS_Subset
  <2>2. Cardinality(before) \in Nat /\ Cardinality(changed) \in Nat
    BY <1>1, <2>1, FS_CardinalityType
  <2>3. p \in changed /\ p \notin before
    BY DEF Changed
  <2>4. Cardinality(changed) > MaxEvents
    BY <1>3, <2>1, <2>2, <2>3
  <2> QED BY <2>4 DEF changeEvents
<1> QED BY <1>2, <1>3

(* The ids of a comparison carry its generation. *)
LEMMA EventGeneration ==
    ASSUME NEW old, NEW new, NEW g, NEW e \in changeEvents(old, new, g)
    PROVE  e[2] = g /\ (e[1] = "changed" => \E p \in Changed(old, new) : e = ChangeID(p, old, new, g))
<1>1. \/ \E p \in Changed(old, new) : e = ChangeID(p, old, new, g)
      \/ e = OverflowID(old, new, g)
  BY DEF changeEvents
<1>2. CASE e = OverflowID(old, new, g)
  BY <1>2 DEF OverflowID, Event
<1>3. ASSUME NEW p \in Changed(old, new), e = ChangeID(p, old, new, g) PROVE e[2] = g
  BY <1>3 DEF ChangeID, Event
<1> QED BY <1>1, <1>2, <1>3

(* The same of the events about the coverage. *)
LEMMA CoverageGeneration ==
    ASSUME NEW old, NEW new, NEW g, NEW e \in coverageEvents(old, new, g)
    PROVE  e[2] = g /\ e[1] \in {"coverage", "restored"}
  BY DEF coverageEvents, Event

----------------------------------------------------------------------------
(* There is no baseline, and nothing was reported. *)
LEMMA FimInit == Init => FimInv
<1> SUFFICES ASSUME Init PROVE FimInv
  OBVIOUS
<1>1. FimTypeOK
  BY FileIntegrityAssumption DEF Init, FimTypeOK
<1> QED BY <1>1 DEF Init, FimInv, ScanInv, IdInv

(* The environment touches neither the result nor the baseline. *)
LEMMA EnvironmentInv ==
    ASSUME FimInv,
           ChangePolicy \/ Abandon \/ \E p \in Paths : WriteFile(p) \/ ChangeAccess(p)
    PROVE  FimInv'
<1> USE FileIntegrityAssumption
<1>0. FimTypeOK /\ ScanInv /\ IdInv
  BY DEF FimInv
<1>1. UNCHANGED <<baseline, queued, closed>> /\ result' \in {result, None}
  BY DEF ChangePolicy, Abandon, WriteFile, ChangeAccess
<1>2. Generation' = Generation
  BY <1>1 DEF Generation
<1>3. fs' \in [Paths -> Contents \cup {None}]
  BY <1>0 DEF ChangePolicy, Abandon, WriteFile, ChangeAccess, FimTypeOK
<1>4. hidden' \in SUBSET Paths /\ watched' \in SUBSET Paths
  BY <1>0 DEF ChangePolicy, Abandon, WriteFile, ChangeAccess, FimTypeOK
<1>5. changes' \in 0..MaxChanges
  BY <1>0 DEF ChangePolicy, Abandon, WriteFile, ChangeAccess, FimTypeOK, Change
<1>6. FimTypeOK'
  BY <1>0, <1>1, <1>3, <1>4, <1>5 DEF FimTypeOK
<1>7. IdInv'
  BY <1>0, <1>1, <1>2 DEF IdInv
<1>8. ScanInv'
  BY <1>0, <1>1, <1>2 DEF ScanInv
<1> QED BY <1>6, <1>7, <1>8 DEF FimInv

(* What a Scan leaves, in each of its three outcomes. *)
LEMMA ScanOutcome ==
    ASSUME FimTypeOK, ScanLimited \/ ScanFirst \/ Scan
    PROVE  /\ UNCHANGED <<fs, hidden, watched, changes, baseline, queued, closed>>
           /\ result' = [events |-> result'.events, next |-> result'.next]
           /\ \A e \in result'.events :
                 /\ e[2] = Generation
                 /\ e[1] = "changed" =>
                       \E p \in Paths :
                          LET old == baseline.entries
                              new == preserveInaccessible(old, Captured)
                          IN  /\ baseline # None
                              /\ p \in Changed(old, new) /\ e = ChangeID(p, old, new, Generation)
           /\ result'.next # None =>
                 /\ result'.next \in Baseline
                 /\ result'.next.generation = Generation + 1
                 /\ Count(result'.next.entries) > MaxFiles =>
                       \E i \in result'.next.coverage : i.reason = "unreadable"
                 /\ baseline # None =>
                       /\ changeEvents(baseline.entries, result'.next.entries, Generation)
                             \subseteq result'.events
                       /\ coverageEvents(baseline.coverage, result'.next.coverage, Generation)
                             \subseteq result'.events
<1> USE FileIntegrityAssumption
<1>0. UNCHANGED <<fs, hidden, watched, changes, baseline, queued, closed>>
  BY DEF ScanLimited, ScanFirst, Scan, env
<1>1. CASE ScanLimited
  <2>1. result' = [events |-> {Event("limited", Generation, Issues)}, next |-> None]
    BY <1>1 DEF ScanLimited
  <2>2. \A e \in result'.events : e[1] = "limited" /\ e[2] = Generation
    BY <2>1 DEF Event
  <2> QED BY <1>0, <2>1, <2>2
<1>2. CASE ScanFirst
  <2> DEFINE next == [generation |-> 1, coverage |-> Issues, entries |-> Captured]
             events == coverageEvents({}, Issues, Generation)
  <2>1. result' = [events |-> events, next |-> next] /\ baseline = None /\ ~Limited
    BY <1>2 DEF ScanFirst
  <2>2. \A e \in events : e[2] = Generation /\ e[1] # "changed"
    BY CoverageGeneration
  <2>3. /\ next \in Baseline /\ next.generation = Generation + 1
        /\ ~(Count(next.entries) > MaxFiles)
    BY <2>1, CapturedType, CountCaptured DEF Baseline, Generation, Issues
  <2> HIDE DEF next, events
  <2> QED BY <1>0, <2>1, <2>2, <2>3
<1>3. CASE Scan
  <2> DEFINE old == baseline.entries
             new == preserveInaccessible(old, Captured)
             next == [generation |-> baseline.generation + 1, coverage |-> Issues, entries |-> new]
             events == changeEvents(old, new, Generation)
                       \cup coverageEvents(baseline.coverage, Issues, Generation)
  <2>1. /\ result' = [events |-> events, next |-> next] /\ baseline # None /\ ~Limited
        /\ baseline.generation < MaxGeneration
    BY <1>3 DEF Scan
  <2>2. baseline \in Baseline /\ old \in Entries /\ Generation = baseline.generation
    BY <2>1 DEF FimTypeOK, Baseline, Generation
  <2>3. /\ next \in Baseline /\ next.generation = Generation + 1
        /\ next.coverage = Issues /\ next.entries = new
    BY <2>1, <2>2, PreservedType DEF Baseline, Issues
  <2>4. ASSUME Count(new) > MaxFiles PROVE \E i \in Issues : i.reason = "unreadable"
    BY <2>1, <2>2, <2>4, CountCaptured
  <2>5. ASSUME NEW e \in events
        PROVE  /\ e[2] = Generation
               /\ e[1] = "changed" =>
                     \E p \in Changed(old, new) : e = ChangeID(p, old, new, Generation)
    BY EventGeneration, CoverageGeneration
  <2>6. Changed(old, new) \subseteq Paths
    BY DEF Changed
  <2> HIDE DEF next, events, new, old
  <2> QED BY <1>0, <2>1, <2>3, <2>4, <2>5, <2>6 DEF events, new, old
<1> QED BY <1>1, <1>2, <1>3

(* A Scan compares with the baseline on disk, and reports under its        *)
(* generation.                                                             *)
LEMMA ScanStepInv ==
    ASSUME FimInv, ScanLimited \/ ScanFirst \/ Scan
    PROVE  FimInv'
<1>0. FimTypeOK /\ ScanInv /\ IdInv
  BY DEF FimInv
<1>1. Generation' = Generation
  BY <1>0, ScanOutcome DEF Generation
<1>2. FimTypeOK'
  BY <1>0, ScanOutcome DEF FimTypeOK
<1>3. ScanInv'
  BY <1>0, <1>1, ScanOutcome DEF ScanInv
<1>4. IdInv'
  BY <1>0, <1>1, ScanOutcome DEF IdInv
<1> QED BY <1>2, <1>3, <1>4 DEF FimInv

(* An event moves from the result into the queue. *)
LEMMA EnqueueInv ==
    ASSUME FimInv, Enqueue
    PROVE  FimInv'
<1> USE FileIntegrityAssumption
<1>0. FimTypeOK /\ ScanInv /\ IdInv
  BY DEF FimInv
<1>1. result # None /\ UNCHANGED <<fs, hidden, watched, changes, baseline, closed>>
  BY DEF Enqueue, env
<1>2. PICK e \in result.events :
          queued' = queued \cup {e} /\ result' = [result EXCEPT !.events = @ \ {e}]
  BY DEF Enqueue
<1>3. result' = [events |-> result.events \ {e}, next |-> result.next]
  BY <1>0, <1>1, <1>2 DEF ScanInv
<1>4. Generation' = Generation /\ Generation \in Nat
  BY <1>0, <1>1, GenerationType DEF Generation
<1>5. queued' \cup result'.events = queued \cup result.events
  BY <1>2, <1>3
<1>6. result'.next = result.next
  BY <1>3
<1>7. FimTypeOK'
  BY <1>0, <1>1, <1>2, <1>6 DEF FimTypeOK
<1>8. ScanInv'
  BY <1>0, <1>1, <1>3, <1>4, <1>5, <1>6 DEF ScanInv
<1>9. IdInv'
  BY <1>0, <1>1, <1>2, <1>3, <1>4 DEF IdInv
<1> QED BY <1>7, <1>8, <1>9 DEF FimInv

(* The end of a cycle: the baseline of the next generation, or the old one *)
(* again.                                                                  *)
LEMMA CommitInv ==
    ASSUME FimInv, Commit \/ CommitNothing \/ CommitRefused
    PROVE  FimInv'
<1> USE FileIntegrityAssumption
<1>0. FimTypeOK /\ ScanInv /\ IdInv
  BY DEF FimInv
<1>1. UNCHANGED <<fs, hidden, watched, changes, queued>> /\ result' = None /\ result # None
  BY DEF Commit, CommitNothing, CommitRefused, env
<1>2. CASE Commit
  <2>1. /\ result.next # None /\ baseline' = result.next /\ closed' = queued
        /\ Saveable(result.next)
    BY <1>2 DEF Commit
  <2>2. result.next \in Baseline /\ Saveable(baseline')
    BY <1>0, <1>1, <2>1 DEF FimTypeOK
  <2>3. Generation' = Generation + 1 /\ Generation \in Nat
    BY <1>0, <1>1, <2>1, GenerationType DEF Generation, ScanInv
  <2>4. FimTypeOK'
    BY <1>0, <1>1, <2>1, <2>2 DEF FimTypeOK
  <2>5. IdInv'
    BY <1>0, <1>1, <2>1, <2>3 DEF IdInv
  <2> QED BY <1>1, <2>4, <2>5 DEF FimInv, ScanInv
<1>3. CASE CommitNothing \/ CommitRefused
  <2>1. UNCHANGED <<baseline, closed>>
    BY <1>3 DEF CommitNothing, CommitRefused
  <2>2. FimTypeOK'
    BY <1>0, <1>1, <2>1 DEF FimTypeOK
  <2>3. IdInv'
    BY <1>0, <1>1, <2>1 DEF IdInv, Generation
  <2> QED BY <1>1, <2>2, <2>3 DEF FimInv, ScanInv
<1> QED BY <1>2, <1>3

(* Every step keeps the invariant. *)
LEMMA FimInvInductive == FimInv /\ [Next]_vars => FimInv'
<1> SUFFICES ASSUME FimInv, [Next]_vars PROVE FimInv'
  OBVIOUS
<1>1. CASE ScanExhausted \/ UNCHANGED vars
  <2>1. UNCHANGED vars
    BY <1>1 DEF ScanExhausted
  <2> QED BY <2>1 DEF vars, FimInv, FimTypeOK, ScanInv, IdInv, Generation
<1>2. CASE CycleStep /\ ~ScanExhausted
  BY <1>2, ScanStepInv, EnqueueInv, CommitInv DEF CycleStep
<1>3. CASE ChangePolicy \/ Abandon \/ \E p \in Paths : WriteFile(p) \/ ChangeAccess(p)
  BY <1>3, EnvironmentInv
<1> QED BY <1>1, <1>2, <1>3 DEF Next, CycleStep

(* The invariant holds always. *)
LEMMA FimInvHolds == Spec => []FimInv
<1> QED BY FimInit, FimInvInductive, PTL DEF Spec

----------------------------------------------------------------------------
(* A baseline that was written is one that loadBaseline accepts. *)
THEOREM FimTypeCorrect == Spec => []FimTypeOK
<1>1. FimInv => FimTypeOK
  BY DEF FimInv
<1> QED BY <1>1, FimInvHolds, PTL

(* What saveBaseline refuses was reported: too many entries by the event   *)
(* about an unreadable directory, a name that a baseline may not hold by   *)
(* the event of its creation, since the baseline on disk holds no such     *)
(* name, and a length over the limit by the event of what changed, since   *)
(* the baseline on disk is within it.                                      *)
THEOREM RefusalIsExplained == Spec => []RefusalExplained
<1> DEFINE told == queued \cup result.events
           g == Generation
           old == baseline.entries
           new == result.next.entries
           issues == result.next.coverage
           Told(p) == {ChangeID(p, old, new, g), OverflowID(old, new, g)} \cap told # {}
           CoverageTold == \E e \in told : e[2] = g /\ e[1] \in {"coverage", "restored"}
<1>1. ASSUME FimInv, result # None, result.next # None, baseline # None
      PROVE  /\ Count(new) > MaxFiles =>
                   /\ \E i \in issues : i.reason = "unreadable"
                   /\ baseline.coverage = issues \/ Event("coverage", g, issues) \in told
             /\ \A p \in BadNames : new[p] # None => old[p] = None /\ Told(p)
             /\ Bytes(result.next) > MaxBytes =>
                   \/ CoverageTold \/ \E p \in Changed(old, new) : Told(p)
                   \/ Bytes([baseline EXCEPT !.generation = g + 1]) > MaxBytes
  <2>1. /\ Count(new) > MaxFiles => \E i \in issues : i.reason = "unreadable"
        /\ changeEvents(old, new, g) \subseteq told
        /\ coverageEvents(baseline.coverage, issues, g) \subseteq told
        /\ result.next.generation = g + 1
    BY <1>1 DEF FimInv, ScanInv
  <2>2. baseline \in Baseline /\ Saveable(baseline) /\ result.next \in Baseline
    BY <1>1 DEF FimInv, FimTypeOK
  <2>3. \A p \in Changed(old, new) : Told(p)
    BY <2>1, ChangeTold
  <2>4. ASSUME NEW p \in BadNames, new[p] # None PROVE old[p] = None /\ Told(p)
    <3>1. old[p] = None
      BY <2>2 DEF Saveable, validateBaseline
    <3>2. p \in Changed(old, new)
      BY <2>4, <3>1, FileIntegrityAssumption DEF Changed
    <3> QED BY <2>3, <3>1, <3>2
  <2>5. ASSUME baseline.coverage # issues PROVE CoverageTold
    <3>1. coverageEvents(baseline.coverage, issues, g) # {}
      BY <2>5 DEF coverageEvents
    <3> QED BY <2>1, <3>1, CoverageGeneration
  <2>6. ASSUME baseline.coverage = issues, Changed(old, new) = {}
        PROVE  result.next = [baseline EXCEPT !.generation = g + 1]
    <3>1. old \in Entries /\ new \in Entries /\ \A p \in Paths : old[p] = new[p]
      BY <2>2, <2>6 DEF Baseline, Changed
    <3>2. old = new
      BY <3>1 DEF Entries
    <3> QED BY <2>1, <2>2, <2>6, <3>2 DEF Baseline
  <2>7. Count(new) > MaxFiles =>
            baseline.coverage = issues \/ Event("coverage", g, issues) \in told
    BY <2>1 DEF coverageEvents
  <2>8. ASSUME Bytes(result.next) > MaxBytes
        PROVE  \/ CoverageTold \/ \E p \in Changed(old, new) : Told(p)
               \/ Bytes([baseline EXCEPT !.generation = g + 1]) > MaxBytes
    <3>1. CASE baseline.coverage # issues
      BY <2>5, <3>1
    <3>2. CASE baseline.coverage = issues /\ Changed(old, new) = {}
      BY <2>6, <2>8, <3>2
    <3>3. CASE Changed(old, new) # {}
      BY <2>3, <3>3
    <3> QED BY <3>1, <3>2, <3>3
  <2> QED BY <2>1, <2>4, <2>7, <2>8
<1>2. FimInv => RefusalExplained
  BY <1>1 DEF RefusalExplained
<1> QED BY <1>2, FimInvHolds, PTL

(* The baseline moves only past changes that are in the queue: runCycle    *)
(* calls Commit after its enqueue loop, in the same cycle as Scan.         *)
THEOREM NoChangeIsSilent == Spec => NoSilentChange
<1> DEFINE g == Generation
           old == baseline.entries
           new == baseline'.entries
           Told == /\ \A p \in Changed(old, new) :
                         ChangeID(p, old, new, g) \in queued \/ OverflowID(old, new, g) \in queued
                   /\ baseline.coverage # baseline'.coverage =>
                         \E e \in queued : e[2] = g /\ e[1] \in {"coverage", "restored"}
<1>1. ASSUME FimInv, Next, baseline # baseline', baseline # None PROVE Told
  <2>1. Commit
    BY <1>1 DEF Next, CycleStep, ScanLimited, ScanFirst, Scan, ScanExhausted, Enqueue,
       CommitNothing, CommitRefused, Abandon, ChangePolicy, WriteFile, ChangeAccess, vars
  <2>2. /\ result # None /\ result.events = {} /\ result.next # None
        /\ baseline' = result.next
    BY <2>1 DEF Commit
  <2>3. /\ changeEvents(old, new, g) \subseteq queued
        /\ coverageEvents(baseline.coverage, baseline'.coverage, g) \subseteq queued
    BY <1>1, <2>2 DEF FimInv, ScanInv
  <2>4. ASSUME NEW p \in Changed(old, new)
        PROVE  ChangeID(p, old, new, g) \in queued \/ OverflowID(old, new, g) \in queued
    BY <2>3, ChangeTold
  <2>5. ASSUME baseline.coverage # baseline'.coverage
        PROVE  \E e \in queued : e[2] = g /\ e[1] \in {"coverage", "restored"}
    <3>1. coverageEvents(baseline.coverage, baseline'.coverage, g) # {}
      BY <2>5 DEF coverageEvents
    <3> QED BY <2>3, <3>1, CoverageGeneration
  <2> QED BY <2>4, <2>5
<1>2. FimInv /\ [Next]_vars => [baseline # baseline' /\ baseline # None => Told]_vars
  BY <1>1
<1> QED BY <1>2, FimInvHolds, PTL DEF Spec, NoSilentChange

(* No Scan reports under an id that was queued for an earlier baseline     *)
(* (simpleEvent takes the generation into the id).                         *)
THEOREM IdsAreFresh == Spec => FreshIds
<1>1. ASSUME FimInv, Next, result = None, result' # None PROVE result'.events \cap closed = {}
  <2>1. ScanLimited \/ ScanFirst \/ Scan
    BY <1>1 DEF Next, CycleStep, ScanExhausted, Enqueue, Commit, CommitNothing,
       CommitRefused, Abandon, ChangePolicy, WriteFile, ChangeAccess, vars
  <2>2. \A e \in result'.events : e[2] = Generation
    BY <1>1, <2>1, ScanOutcome DEF FimInv
  <2>3. \A e \in closed : e[2] < Generation /\ e[2] \in 0..Generation
    BY <1>1 DEF FimInv, IdInv, FimTypeOK
  <2>4. Generation \in Nat
    BY <1>1, GenerationType, FileIntegrityAssumption DEF FimInv
  <2> QED BY <2>2, <2>3, <2>4
<1>2. FimInv /\ [Next]_vars =>
        [result = None /\ result' # None => result'.events \cap closed = {}]_vars
  BY <1>1
<1> QED BY <1>2, FimInvHolds, PTL DEF Spec, FreshIds

(* A file that could not be read keeps its entry, and is not reported as   *)
(* deleted (preserveInaccessible).                                         *)
THEOREM NoDeletionIsFalse == Spec => NoFalseDeletion
<1> DEFINE TrueDeletions ==
        \A e \in result'.events :
            e[1] = "changed" /\ e[3][3] = None /\ e[3][1] \in watched =>
                e[3][1] \notin hidden /\ fs[e[3][1]] = None
<1>1. ASSUME FimInv, Next, result = None, result' # None PROVE TrueDeletions
  <2>1. ScanLimited \/ ScanFirst \/ Scan
    BY <1>1 DEF Next, CycleStep, ScanExhausted, Enqueue, Commit, CommitNothing,
       CommitRefused, Abandon, ChangePolicy, WriteFile, ChangeAccess, vars
  <2> SUFFICES ASSUME NEW e \in result'.events,
                      e[1] = "changed", e[3][3] = None, e[3][1] \in watched
               PROVE  e[3][1] \notin hidden /\ fs[e[3][1]] = None
    OBVIOUS
  <2> DEFINE old == baseline.entries
             new == preserveInaccessible(old, Captured)
  <2>2. FimTypeOK
    BY <1>1 DEF FimInv
  <2>3. PICK p \in Paths : /\ baseline # None /\ p \in Changed(old, new)
                           /\ e = ChangeID(p, old, new, Generation)
    BY <2>1, <2>2, ScanOutcome
  <2>4. e[3][1] = p /\ new[p] = None /\ old[p] # None /\ p \in watched
    BY <2>3 DEF ChangeID, Event, Changed
  <2>5. old \in Entries
    BY <2>2, <2>3 DEF FimTypeOK, Baseline
  <2>6. ~(p \in hidden /\ Captured[p] = None) /\ Captured[p] = None
    BY <2>2, <2>4, <2>5, PreservedType
  <2>7. p \notin Visible
    BY <2>2, <2>6, CapturedType
  <2> QED BY <2>4, <2>6, <2>7 DEF Visible
<1>2. FimInv /\ [Next]_vars => [result = None /\ result' # None => TrueDeletions]_vars
  BY <1>1
<1> QED BY <1>2, FimInvHolds, PTL DEF Spec, NoFalseDeletion

=============================================================================
