----------------------------- MODULE RuntimeWatch -----------------------------
(***************************************************************************)
(* The process and port detector (internal/detector/runtimewatch) under    *)
(* the cycle that drives it: Scan captures /proc and compares it with the  *)
(* committed state, runCycle queues the events and then calls Commit.      *)
(*                                                                         *)
(* A process is its name, its executable and its place in the listing of   *)
(* /proc; the user id, which is part of every identity and name key, is    *)
(* the same for all.  Identities are hashes: numbers, as the code compares *)
(* them.  A capture is one step: its parts do not depend on each other,    *)
(* and what may happen to a process while it is read is a choice of the    *)
(* capture.                                                                *)
(***************************************************************************)
EXTENDS Naturals, FiniteSets, FiniteSetsExt

CONSTANTS
    Procs,          \* what may run: records with a name, an exe and a pid
    NameIdentity,   \* the identity of a name, for want of an executable
    Ports,          \* listening sockets: records with a family and a port
    MaxProcesses, MaxKnown, MaxEvents, MaxPorts,   \* the limits of Config
    Unloadable,     \* identities of paths that JSON makes longer than validExecutable allows
    LostNames,      \* the names that are not UTF-8: JSON replaces their bytes
    Bytes(_),       \* the length of a state once it is encoded
    MaxBytes,       \* the limit of that length (maxStateBytes)
    MaxGeneration,  \* bound: the generations of the state
    MaxChanges,     \* bound: changes of the host and abandoned cycles
    None            \* no identity, no state, no result

ProcNames == {p.name : p \in Procs}
Families == {"tcp4", "tcp6"}
Identities == {p.exe : p \in Procs} \cup {NameIdentity[n] : n \in ProcNames}

ASSUME RuntimeWatchAssumption ==
    /\ Identities \subseteq Nat \ {0} /\ IsFiniteSet(Procs) /\ IsFiniteSet(Ports)
    /\ \A p, q \in Procs : p.pid \in Nat /\ (p.pid = q.pid => p = q)
    /\ \A p \in Ports : p.family \in Families /\ p.port \in Nat
    /\ MaxProcesses \in Nat \ {0} /\ MaxKnown \in Nat /\ MaxKnown >= MaxProcesses
    /\ MaxEvents \in Nat \ {0} /\ MaxPorts \in Nat \ {0} /\ MaxBytes \in Nat
    /\ Unloadable \subseteq Identities /\ LostNames \subseteq ProcNames
    /\ MaxGeneration \in Nat \ {0} /\ MaxChanges \in Nat /\ None \notin Identities

VARIABLES
    procs,      \* procs[p]: whether p runs, is exiting, or neither
    listening,  \* the sockets that listen
    table,      \* access to /proc ("procs") and to the socket tables
    state,      \* the state file, or None
    result,     \* the Result of the Scan of this cycle, or None
    view,       \* history: the listening sockets the events describe
    doubt,      \* history: sockets of which the events may say too much or too little
    announced,  \* history: the identities told, with the generation
    absorbed,   \* history: the identities that became known without overflow
    lastFull,   \* history: what listened at the last complete capture of a family
    steady,     \* history: identities known once and running ever since
    calm,       \* history: nothing has changed since a complete capture was committed
    changes     \* the changes so far

host == <<procs, listening, table, changes>>
history == <<view, doubt, announced, absorbed, lastFull, steady, calm>>
vars == <<host, state, result, history>>

Issue == [area : Families \cup {"processes"}, reason : {"unreadable", "limit"}]
State == [generation : 1..MaxGeneration, coverage : SUBSET Issue,
          known : [Identities -> 0..MaxGeneration], names : [ProcNames -> Identities \cup {None}],
          ports : SUBSET Ports]

Event ==
    [kind : {"first_seen"}, what : Identities]
    \cup [kind : {"identity_changed"}, what : ProcNames \X Identities \X Identities]
    \cup [kind : {"opened", "closed"}, what : Ports]
    \cup [kind : {"coverage"}, what : SUBSET Issue]
    \cup [kind : {"overflow"}, what : {None}]
Result == [events : SUBSET Event, queued : SUBSET Event, next : State]

ASSUME NoneAssumption == None \notin State /\ None \notin Result

(* What a first scan compares with. *)
NewState == [generation |-> 0, coverage |-> {}, known |-> [i \in Identities |-> 0],
             names |-> [n \in ProcNames |-> None], ports |-> {}]

Previous == IF state = None THEN NewState ELSE state
KnownIn(s) == {i \in Identities : s.known[i] > 0}

(* validateState, before the state is encoded *)
Valid(s) ==
    /\ s.generation > 0 /\ Cardinality(KnownIn(s)) <= MaxKnown
    /\ \A n \in ProcNames : s.names[n] # None => s.names[n] \in KnownIn(s)

(* saveState also refuses a state that is too long. *)
Saveable(s) == Valid(s) /\ Bytes(s) <= MaxBytes

(* loadState, of what saveState wrote: every byte of a path that is not    *)
(* UTF-8 has become three, and validateState sees the longer path.         *)
Loads(s) == Valid(s) /\ KnownIn(s) \cap Unloadable = {}

(* The type of the state; in particular no limit, pruned identity or       *)
(* partial capture makes a state that validateState refuses, neither       *)
(* before Commit saves it nor when it is loaded again. What does stop the  *)
(* detector is a state that is too long (CommitRefused) and an executable  *)
(* whose path does not survive the encoding (ScanRefused).                 *)
RuntimeTypeOK ==
    /\ procs \in [Procs -> {"gone", "alive", "exiting"}]
    /\ listening \subseteq Ports /\ changes \in 0..MaxChanges
    /\ table \in [Families \cup {"procs"} -> {"ok", "unreadable", "missing"}]
    /\ state # None => state \in State /\ Valid(state)
    /\ result # None => result \in Result /\ Valid(result.next)
    /\ view \subseteq Ports /\ doubt \subseteq Ports /\ steady \subseteq Identities

Init ==
    /\ procs \in [Procs -> {"gone", "alive"}] /\ listening \in SUBSET Ports
    /\ table = [t \in Families \cup {"procs"} |-> "ok"]
    /\ state = None /\ result = None
    /\ view = {} /\ doubt = {} /\ announced = {} /\ absorbed = {}
    /\ lastFull = [f \in Families |-> {}] /\ steady = {} /\ calm = FALSE
    /\ changes = 0

----------------------------------------------------------------------------
(* The host: processes start, exit and are reaped, sockets open and close, *)
(* a part of /proc becomes unreadable, an address family is unloaded.      *)
(* Nothing from a Scan to its Commit looks at the host: what happens there *)
(* in between may as well happen afterwards.                               *)
Change == result = None /\ changes < MaxChanges /\ changes' = changes + 1 /\ calm' = FALSE

Running(ps) == {p.exe : p \in {p \in Procs : ps[p] = "alive"}}

ChangeProcess(p) ==
    /\ Change
    /\ \/ procs[p] = "gone" /\ procs' = [procs EXCEPT ![p] = "alive"]
       \/ procs[p] = "alive" /\ procs' = [procs EXCEPT ![p] = "exiting"]
       \/ procs[p] = "exiting" /\ procs' = [procs EXCEPT ![p] = "gone"]
    /\ steady' = steady \cap Running(procs')
    /\ UNCHANGED <<listening, table, state, result, view, doubt, announced, absorbed, lastFull>>

ChangePort(k) ==
    /\ Change
    /\ listening' = IF k \in listening THEN listening \ {k} ELSE listening \cup {k}
    /\ UNCHANGED <<procs, table, state, result, view, doubt, announced, absorbed, lastFull, steady>>

ChangeTable(t) ==
    /\ Change
    /\ \E a \in {"ok", "unreadable"} \cup IF t = "tcp6" THEN {"missing"} ELSE {} :
          a # table[t] /\ table' = [table EXCEPT ![t] = a]
    /\ UNCHANGED <<procs, listening, state, result, view, doubt, announced, absorbed, lastFull, steady>>

----------------------------------------------------------------------------
(* readProcess *)
Seen(p) == [identity |-> p.exe, name |-> p.name]
Nameless(p) == [identity |-> NameIdentity[p.name], name |-> p.name]

Pids == {p \in Procs : procs[p] # "gone"}

(* Mutant: a capture that met the process limit is taken for complete. *)
processComplete_Limited == table["procs"] = "ok"

processComplete == table["procs"] = "ok" /\ Cardinality(Pids) <= MaxProcesses

(* The first pids of the listing, up to the limit. *)
FirstPids == {p \in Pids : Cardinality({q \in Pids : q.pid < p.pid}) < MaxProcesses}

(* Of several processes with one identity the last one of the listing is   *)
(* kept.                                                                   *)
Entry(p, lost) == IF p \in lost THEN Nameless(p) ELSE Seen(p)
Kept(read, lost) ==
    {Entry(p, lost) : p \in {p \in read :
        \A q \in read : q.pid > p.pid => Entry(q, lost).identity # Entry(p, lost).identity}}

(* What a capture may hold: a process that exits has its executable still, *)
(* has lost it, or is gone.                                                *)
Captures ==
    LET exiting == {p \in Pids : procs[p] = "exiting"}
    IN  UNION {{Kept(FirstPids \ gone, lost) : lost \in SUBSET exiting} : gone \in SUBSET exiting}

Listening(f) == {k \in listening : k.family = f}
familyComplete(f) ==
    \/ table[f] = "missing"
    \/ table[f] = "ok" /\ Cardinality(Listening(f)) < MaxPorts

(* parseListeningPorts stops at the limit, wherever in the table it is. *)
parseListeningPorts(f) ==
    IF table[f] # "ok" THEN {{}}
    ELSE IF Cardinality(Listening(f)) < MaxPorts THEN {Listening(f)}
    ELSE {S \in SUBSET Listening(f) : Cardinality(S) = MaxPorts}

Issues ==
    {i \in Issue :
        LET t == IF i.area = "processes" THEN "procs" ELSE i.area
        IN  IF i.reason = "unreadable" THEN table[t] = "unreadable"
            ELSE table[t] = "ok" /\ (IF t = "procs" THEN ~processComplete ELSE ~familyComplete(t))}

----------------------------------------------------------------------------
(* Mutant: what is left of the known processes is not limited. *)
pruneKnown_Never(known, current) == known

(* The first n of some identities, in the order of their last sighting. *)
Oldest(known, ids, n) ==
    LET Older(i, j) == known[i] < known[j] \/ (known[i] = known[j] /\ i < j)
    IN  {i \in ids : Cardinality({j \in ids : Older(j, i)}) < n}

(* pruneKnown: beyond the limit the identities that are not running go,    *)
(* those that were not seen for the longest time first.                    *)
pruneKnown(known, current) ==
    LET all == {i \in Identities : known[i] > 0}
        excess == IF Cardinality(all) > MaxKnown THEN Cardinality(all) - MaxKnown ELSE 0
    IN  [i \in Identities |-> IF i \in Oldest(known, all \ current, excess) THEN 0 ELSE known[i]]

Current(E) == {e.identity : e \in E}

(* The index of names: the smallest identity of each. *)
currentNames(E) ==
    [n \in ProcNames |-> LET ids == {e.identity : e \in {e \in E : e.name = n}}
                         IN  IF ids = {} THEN None ELSE Min(ids)]

FirstSeen(i) == [kind |-> "first_seen", what |-> i]
Drift(n, old, new) == [kind |-> "identity_changed", what |-> <<n, old, new>>]
Opened(k) == [kind |-> "opened", what |-> k]
Closed(k) == [kind |-> "closed", what |-> k]
Coverage(issues) == [kind |-> "coverage", what |-> issues]
Overflow == [kind |-> "overflow", what |-> None]

(* The index of names as it was loaded: a name that is not UTF-8 came back *)
(* as another key, under which nobody looks.                               *)
previousName(n) == IF n \in LostNames THEN None ELSE state.names[n]

(* Mutant: every process is compared with the index of names, not the      *)
(* selected one of each name.                                              *)
processEvents_Each(E) ==
    IF state = None \/ ~processComplete THEN {}
    ELSE {FirstSeen(i) : i \in Current(E) \ KnownIn(state)}
         \cup {Drift(e.name, previousName(e.name), e.identity) :
                  e \in {e \in E : previousName(e.name) \notin {None, e.identity}}}

processEvents(E) ==
    IF state = None \/ ~processComplete THEN {}
    ELSE {FirstSeen(i) : i \in Current(E) \ KnownIn(state)}
         \cup {Drift(n, previousName(n), currentNames(E)[n]) :
                  n \in {n \in ProcNames : /\ previousName(n) # None /\ currentNames(E)[n] # None
                                           /\ previousName(n) # currentNames(E)[n]}}

portEvents(ports) ==
    IF state = None THEN {}
    ELSE {Opened(k) : k \in ports \ state.ports} \cup {Closed(k) : k \in state.ports \ ports}

(* The order in which events are appended; within one kind of process      *)
(* event the order of a Go map decides.                                    *)
Rank(e) ==
    CASE e.kind = "first_seen" -> <<1, 0, 0>>
      [] e.kind = "identity_changed" -> <<2, 0, 0>>
      [] e.kind \in {"opened", "closed"} -> <<3, IF e.what.family = "tcp4" THEN 4 ELSE 6, e.what.port>>
      [] e.kind = "coverage" -> <<4, 0, 0>>
      [] e.kind = "overflow" -> <<5, 0, 0>>
Before(e, f) ==
    LET r == Rank(e)
        s == Rank(f)
    IN  \/ r[1] < s[1]
        \/ r[1] = s[1] /\ r[2] < s[2]
        \/ r[1] = s[1] /\ r[2] = s[2] /\ r[3] < s[3]

(* appendBounded: the first of the events, up to the limit. *)
appendBounded(events) ==
    {K \in SUBSET events : /\ Cardinality(K) = Min({Cardinality(events), MaxEvents})
                           /\ \A e \in K, f \in events \ K : ~Before(f, e)}

coverageEvents(issues) == IF issues = Previous.coverage THEN {} ELSE {Coverage(issues)}

(* Mutant: the overflow is reported only beyond the limit, with what was   *)
(* kept counted instead of what there was.                                 *)
overflowEvents_Beyond(events) == IF Cardinality(events) > MaxEvents + 1 THEN {Overflow} ELSE {}

overflowEvents(events) == IF Cardinality(events) >= MaxEvents THEN {Overflow} ELSE {}

(* Mutant: the sockets of a table that was not read are taken for closed. *)
preserved_None(f) == {}

(* A family that was not captured completely keeps what it had. *)
preserved(f) == IF familyComplete(f) THEN {} ELSE {k \in Previous.ports : k.family = f}

Scan ==
    /\ result = None /\ (state # None => Loads(state))
    /\ Previous.generation < MaxGeneration
    /\ \E E \in Captures, p4 \in parseListeningPorts("tcp4"), p6 \in parseListeningPorts("tcp6") :
          LET g == Previous.generation + 1
              ports == p4 \cup p6 \cup preserved("tcp4") \cup preserved("tcp6")
              seen == [i \in Identities |-> IF i \in Current(E) THEN g ELSE Previous.known[i]]
              next == [generation |-> g, coverage |-> Issues, ports |-> ports,
                       known |-> IF processComplete THEN pruneKnown(seen, Current(E)) ELSE Previous.known,
                       names |-> IF processComplete THEN currentNames(E) ELSE Previous.names]
          IN  \E K \in appendBounded(processEvents(E) \cup portEvents(ports)) :
                 LET events == K \cup coverageEvents(Issues)
                 IN  result' = [events |-> events \cup overflowEvents(events), queued |-> {}, next |-> next]
    /\ UNCHANGED <<host, state, history>>

(* loadState refuses the state, in this cycle and in every later one;      *)
(* runCycle queues an event that says so and goes on.                      *)
ScanRefused ==
    /\ result = None /\ state # None /\ ~Loads(state)
    /\ UNCHANGED vars

ScanExhausted ==
    /\ result = None /\ Previous.generation = MaxGeneration
    /\ UNCHANGED vars

----------------------------------------------------------------------------
(* runCycle queues the events in their order ... *)
Enqueue ==
    /\ result # None
    /\ \E e \in result.events :
          /\ \A f \in result.events : ~Before(f, e)
          /\ result' = [result EXCEPT !.events = @ \ {e}, !.queued = @ \cup {e}]
          /\ view' = IF e.kind = "opened" THEN view \cup {e.what}
                     ELSE IF e.kind = "closed" THEN view \ {e.what} ELSE view
          /\ announced' = IF e.kind = "first_seen"
                          THEN announced \cup {<<Previous.generation, e.what>>} ELSE announced
    /\ UNCHANGED <<host, state, doubt, absorbed, lastFull, steady, calm>>

SaveState ==
    /\ state' = result.next /\ result' = None
    /\ view' = IF state = None THEN result.next.ports ELSE view
    /\ doubt' = IF Overflow \in result.queued THEN Ports ELSE doubt
    /\ absorbed' = IF state = None \/ Overflow \in result.queued THEN absorbed
                   ELSE absorbed \cup {<<state.generation, i>> : i \in KnownIn(result.next) \ KnownIn(state)}
    /\ lastFull' = [f \in Families |->
                      IF table[f] = "missing" THEN {}
                      ELSE IF familyComplete(f) THEN Listening(f) ELSE lastFull[f]]
    /\ steady' = (steady \cup KnownIn(result.next)) \cap Running(procs)
    /\ calm' = (/\ processComplete /\ \A f \in Families : familyComplete(f)
                /\ \A p \in Procs : procs[p] # "exiting")
    /\ UNCHANGED <<host, announced>>

(* Mutant: Commit does not wait for the events. *)
Commit_Early == result # None /\ Saveable(result.next) /\ SaveState

(* ... and then calls Commit, which replaces the state file by a rename. *)
Commit == result # None /\ result.events = {} /\ Saveable(result.next) /\ SaveState

(* The result is forgotten; what was queued of it stays queued. *)
Forget ==
    /\ result' = None
    /\ doubt' = doubt \cup {e.what : e \in {e \in result.queued : e.kind \in {"opened", "closed"}}}
    /\ UNCHANGED <<procs, listening, table, state, view, announced, absorbed, lastFull, steady, calm>>

(* saveState refuses: the cycle fails with its events queued. *)
CommitRefused ==
    result # None /\ result.events = {} /\ ~Saveable(result.next) /\ Forget /\ UNCHANGED changes

(* The cycle fails or the process dies. *)
Abandon == result # None /\ changes < MaxChanges /\ changes' = changes + 1 /\ Forget

----------------------------------------------------------------------------
CycleStep == Scan \/ ScanRefused \/ ScanExhausted \/ Enqueue \/ Commit \/ CommitRefused

Next ==
    \/ CycleStep \/ Abandon
    \/ \E p \in Procs : ChangeProcess(p)
    \/ \E k \in Ports : ChangePort(k)
    \/ \E t \in Families \cup {"procs"} : ChangeTable(t)

Spec == Init /\ [][Next]_vars

----------------------------------------------------------------------------
(* The events tell which sockets listen: whoever applies them in the order *)
(* they were queued has what the committed state has, except for sockets   *)
(* an abandoned cycle has reported, and all of them after an event that    *)
(* says that the limit was reached.                                        *)
EventsTellPorts ==
    result = None /\ state # None =>
        \A k \in Ports \ doubt : k \in view <=> k \in state.ports

(* A socket is reported as closed only if it does not listen, and as       *)
(* opened only if it listens and did not when its family was last captured *)
(* completely: an unreadable or overlong table is no change.               *)
PortEventsTrue ==
    [][result = None /\ result' # None =>
        \A e \in result'.events :
            /\ e.kind = "closed" => e.what \notin listening \/ table[e.what.family] = "missing"
            /\ e.kind = "opened" => e.what \in listening \ lastFull[e.what.family]]_vars

(* An identity that keeps running stays known, whatever the limits do: it  *)
(* is never reported as first seen again.                                  *)
RunningStaysKnown == state # None => steady \subseteq KnownIn(state)

(* A host that stands still is silent: a scan of what a committed, complete *)
(* capture has seen reports no process and no socket, whichever of several *)
(* executables a name stands for and whatever was pruned.                  *)
QuietHostSilent ==
    [][result = None /\ result' # None /\ calm =>
        \A e \in result'.events : e.kind \in {"coverage", "overflow"}]_vars

(* No identity becomes known without an event, unless one says that the    *)
(* limit was reached: the contract of a detector that reports before it    *)
(* commits.                                                                *)
Reports == INSTANCE DetectorContract WITH told <- announced, settled <- absorbed
ProcessesReported == Reports!Spec
=============================================================================
