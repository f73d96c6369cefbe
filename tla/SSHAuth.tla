------------------------------- MODULE SSHAuth -------------------------------
(***************************************************************************)
(* The SSH authentication detector (internal/detector/sshauth) under the   *)
(* cycle that drives it: Scan reads what the logs have grown by since the  *)
(* committed cursors, counts failures per source, runCycle queues the      *)
(* events and then calls Commit.  sshd, syslog and logrotate run beside    *)
(* it: they write, replace, remove and hide a log at any moment, also      *)
(* between the look at a log (Lstat and hashPrefix) and the read of it.    *)
(*                                                                         *)
(* A line has two halves, the second of which ends with the newline, and   *)
(* an offset counts halves: line k of a log has the halves 2k-1 and 2k.    *)
(* A line is known by its number in the order of writing, so no two logs   *)
(* begin with the same line, and the lines and the size of a prefix stand  *)
(* for its hash.                                                           *)
(* Times are ages, relative to the start of the last scan: nothing after   *)
(* Now() reads the clock, so time passes between scans only.  The          *)
(* generation of the state is the number of commits; it only makes ids of  *)
(* later scans differ.                                                     *)
(***************************************************************************)
EXTENDS Naturals, FiniteSets, Sequences, SequencesExt

CONSTANTS
    NumPaths,          \* the configured logs, in the order of their names
    IPs,               \* source addresses
    Texts,             \* what a line may say: records with a kind and an ip
    HasJournal,        \* whether there is a systemd journal to fall back to
    Threshold, Window, Suspicious,       \* the rules of applyRecord
    MaxRead, MaxLines, PrefixLimit,      \* limits of a read
    MaxFailureIPs, MaxAttemptsPerIP, MaxState,   \* limits of the state
    MaxWritten,        \* bound: lines ever written
    MaxFaults          \* bound: what happens to logs, journal and process

(* A garbled line is a failed one whose user is 43 to 128 bytes that are   *)
(* not UTF-8: validUser accepts it, and JSON makes it three times as long. *)
Kinds == {"failed", "garbled", "accepted", "other", "long"}

ASSUME SSHAuthAssumption ==
    /\ NumPaths \in Nat \ {0} /\ IsFiniteSet(IPs) /\ HasJournal \in BOOLEAN
    /\ \A t \in Texts : t.kind \in Kinds /\ t.ip \in IPs
    /\ Threshold \in Nat \ {0, 1} /\ Window \in Nat \ {0} /\ Suspicious \in Nat
    /\ MaxRead \in Nat \ {0, 1} /\ MaxLines \in Nat \ {0} /\ PrefixLimit \in Nat \ {0}
    /\ MaxFailureIPs \in Nat \ {0} /\ MaxAttemptsPerIP \in Nat /\ MaxAttemptsPerIP >= Threshold
    /\ MaxState \in Nat /\ MaxWritten \in Nat /\ MaxFaults \in Nat

VARIABLES
    log,       \* log[p]: the file at the path p: its access, its lines, and
               \* whether the second half of the last one is missing
    written,   \* the lines begun so far, wherever they are now
    journal,   \* the lines in the systemd journal
    state,     \* the state file; not saved: there is none
    scan,      \* the scan of this cycle
    told,      \* what the events queued so far have said
    counted,   \* history: how often a line of a file was counted, up to 2
    settled,   \* history: the logins whose lines a committed cursor has passed
    based,     \* history: the lines the first scan passed over
    upset,     \* history: the paths where a cursor may have been invalidated
    faults     \* the faults so far

vars == <<log, written, journal, state, scan, told, counted, settled, based, upset, faults>>
history == <<told, counted, settled, based>>
env == <<log, written, journal, upset, faults>>

Paths == 1..NumPaths
Ids == 1..MaxWritten
Line == [path : Paths, text : Texts]
Log == [access : {"ok", "absent", "denied"}, lines : Seq(Ids), half : BOOLEAN]
Text(id) == written[id].text

NoPrefix == [bytes |-> 0, lines |-> {}]
Cursor == [exists : BOOLEAN, offset : Nat, prefix : [bytes : Nat, lines : SUBSET Ids]]
NoCursor == [exists |-> FALSE, offset |-> 0, prefix |-> NoPrefix]

JournalPath == 0
Issue == [path : Paths \cup {JournalPath},
          reason : {"unreadable", "line_limit_reached", "read_limit_reached",
                    "oversized_line_skipped", "unavailable", "cursor_unavailable"}]

(* detectorState without its generation: the failures of a source are the  *)
(* ages of its attempts, alerted how long its alerts are suppressed yet,   *)
(* garbled the number of attempts from the last garbled one on.  Two       *)
(* fields are history: tried has the attempts of a source also once the    *)
(* limit of sources has made the detector forget them, forgotten the       *)
(* sources it did that to.                                                 *)
Expired == Window + 1
DetectorState ==
    [saved : BOOLEAN, files : [Paths -> Cursor], failures : [IPs -> Seq(0..Expired)],
     alerted : [IPs -> 0..Window], issues : SUBSET Issue, initialized : BOOLEAN, position : Nat,
     garbled : [IPs -> Nat], tried : [IPs -> Seq(0..Expired)], forgotten : SUBSET IPs]

(* The state a first scan starts from. *)
NewState ==
    [saved |-> FALSE, files |-> [p \in Paths |-> NoCursor], failures |-> [i \in IPs |-> <<>>],
     alerted |-> [i \in IPs |-> 0], issues |-> {}, initialized |-> FALSE, position |-> 0,
     garbled |-> [i \in IPs |-> 0], tried |-> [i \in IPs |-> <<>>], forgotten |-> {}]

(* A line that a scan has read: where, which, and whether from its start.  *)
Entry == [path : Paths \cup {JournalPath}, at : Nat, line : Ids, whole : BOOLEAN]

Event == [kind : {"succeeded"}, id : Ids, suspicious : BOOLEAN]
         \cup [kind : {"bruteforce"}, ip : IPs] \cup [kind : {"coverage"}, issues : SUBSET Issue]

(* The local variables of Scan. *)
Scan == [pc : {"idle", "look", "read", "apply", "report"}, path : 1..(NumPaths + 1),
         next : DetectorState, lines : SUBSET Entry, todo : SUBSET Entry, issues : SUBSET Issue,
         usable : BOOLEAN, based : SUBSET Ids, events : Seq(Event)]

NoScan == [pc |-> "idle", path |-> 1, next |-> NewState, lines |-> {}, todo |-> {}, issues |-> {},
           usable |-> FALSE, based |-> {}, events |-> <<>>]

Sources(s) == {i \in IPs : s.failures[i] # <<>>}
Attempts(s) == SumFunction([i \in IPs |-> Len(s.failures[i])])

(* What validateState asks of a state, and saveState of its size. *)
Valid(s) ==
    /\ Cardinality(Sources(s)) <= MaxFailureIPs
    /\ \A i \in IPs : Len(s.failures[i]) <= MaxAttemptsPerIP
    /\ \A p \in Paths : s.files[p].prefix.bytes <= PrefixLimit
Fits(s) == Attempts(s) <= MaxState

(* What loadState reads back is valid: no attempt is kept whose user JSON  *)
(* has made too long for validUser.                                        *)
Loads(s) == \A i \in IPs : s.garbled[i] \notin 1..Len(s.failures[i])

(* The type of the state; in particular the limits that validateState and  *)
(* the size of the file set hold of every state on disk, so that none of   *)
(* them ever keeps loadState from reading it back; a garbled user can.     *)
SSHTypeOK ==
    /\ log \in [Paths -> Log] /\ written \in Seq(Line) /\ Len(written) <= MaxWritten
    /\ journal \in Seq(Ids) /\ faults \in 0..MaxFaults
    /\ state \in DetectorState /\ Valid(state) /\ Fits(state)
    /\ scan \in Scan
    /\ told \in [logins : SUBSET Ids, alert : [IPs -> 0..(2 * Window + 1)]]
    /\ counted \in [Ids -> 0..2] /\ based \subseteq Ids /\ settled \subseteq Ids /\ upset \subseteq Paths

(* The detector has never run, or it has counted an attempt in a log that  *)
(* is gone since.                                                          *)
Init ==
    /\ log = [p \in Paths |-> [access |-> "ok", lines |-> <<>>, half |-> FALSE]]
    /\ written = <<>> /\ journal = <<>> /\ scan = NoScan
    /\ state \in {NewState} \cup {[NewState EXCEPT !.saved = TRUE, !.failures[i] = <<0>>, !.tried[i] = <<0>>] : i \in IPs}
    /\ Fits(state)
    /\ told = [logins |-> {}, alert |-> [i \in IPs |-> 2 * Window + 1]]
    /\ counted = [i \in Ids |-> 0] /\ settled = {} /\ based = {} /\ upset = {} /\ faults = 0

----------------------------------------------------------------------------
(* The host: sshd writes a line, which a reader may find half written, to  *)
(* one of the logs and to the journal.                                     *)
WriteHead(p) ==
    /\ Len(written) < MaxWritten
    /\ log[p].access # "absent" /\ ~log[p].half
    /\ \E t \in Texts : written' = Append(written, [path |-> p, text |-> t])
    /\ log' = [log EXCEPT ![p].lines = Append(@, Len(written) + 1), ![p].half = TRUE]
    /\ UNCHANGED <<journal, state, scan, history, upset, faults>>

WriteTail(p) ==
    /\ log[p].access # "absent" /\ log[p].half
    /\ log' = [log EXCEPT ![p].half = FALSE]
    /\ journal' = IF HasJournal THEN Append(journal, Last(log[p].lines)) ELSE journal
    /\ UNCHANGED <<written, state, scan, history, upset, faults>>

Fault == faults < MaxFaults /\ faults' = faults + 1

(* logrotate renames the log, or copies and truncates it; the new one is   *)
(* there at once or a moment later.                                        *)
Rotate(p) ==
    /\ Fault
    /\ \E a \in {"ok", "absent"} :
          log' = [log EXCEPT ![p] = [access |-> a, lines |-> <<>>, half |-> FALSE]]
    /\ upset' = upset \cup {p}
    /\ UNCHANGED <<written, journal, state, scan, history>>

(* The directory of the log is unmounted, the log loses its mode ... *)
Lose(p) ==
    /\ Fault /\ log[p].access = "ok"
    /\ \E a \in {"absent", "denied"} :
          /\ log' = [log EXCEPT ![p].access = a]
          /\ upset' = IF a = "absent" THEN upset \cup {p} ELSE upset
    /\ UNCHANGED <<written, journal, state, scan, history>>

(* ... and is there again. *)
Return(p) ==
    /\ log[p].access # "ok"
    /\ log' = [log EXCEPT ![p].access = "ok"]
    /\ UNCHANGED <<written, journal, state, scan, history, upset, faults>>

Older(age, max) == IF age < max THEN age + 1 ELSE age
Aged(f) == [k \in DOMAIN f |-> Older(f[k], Expired)]

(* Time passes between two scans. *)
Tick ==
    /\ scan.pc = "idle" /\ state.saved
    /\ state' = [state EXCEPT
          !.failures = [i \in IPs |-> Aged(state.failures[i])],
          !.tried = [i \in IPs |-> Aged(state.tried[i])],
          !.alerted = [i \in IPs |-> IF state.alerted[i] = 0 THEN 0 ELSE state.alerted[i] - 1]]
    /\ told' = [told EXCEPT !.alert = [i \in IPs |-> Older(told.alert[i], 2 * Window + 1)]]
    /\ UNCHANGED <<env, scan, counted, settled, based>>

----------------------------------------------------------------------------
(* Scan: one step to look at each log, one to read it. *)
StartScan ==
    /\ scan.pc = "idle" /\ Loads(state)
    /\ scan' = [NoScan EXCEPT !.pc = "look", !.next = state]
    /\ UNCHANGED <<env, state, history>>

(* loadState fails: runCycle queues an error event and goes on, and every  *)
(* later cycle meets the same state.                                       *)
ScanRefused == scan.pc = "idle" /\ ~Loads(state) /\ UNCHANGED vars

Remaining == MaxLines - Cardinality(scan.lines)
AtPath(pc, p) == scan.pc = pc /\ scan.path = p

(* readPath returns: the cursor to keep, and the issue met if there is one. *)
Skipped(p, cursor, reasons) ==
    [scan EXCEPT !.pc = "look", !.path = p + 1, !.next.files[p] = cursor,
                 !.issues = @ \cup {[path |-> p, reason |-> r] : r \in reasons}]

Size(p) == 2 * Len(log[p].lines) - (IF log[p].half THEN 1 ELSE 0)
Begun(p, n) == {log[p].lines[k] : k \in {k \in 1..Len(log[p].lines) : 2 * k - 1 <= n}}
Prefix(p, n) == [bytes |-> n, lines |-> Begun(p, n)]
AtMost(n, limit) == IF n < limit THEN n ELSE limit

(* The lines of this scan are used up, or there is no log. *)
LookPast(p) ==
    /\ AtPath("look", p) /\ (Remaining <= 0 \/ log[p].access = "absent")
    /\ scan' = IF Remaining <= 0 THEN Skipped(p, state.files[p], {"line_limit_reached"})
               ELSE Skipped(p, NoCursor, {})
    /\ UNCHANGED <<env, state, history>>

(* Mutant: the prefix follows the growth of the log. *)
PrefixBytes_Growing(p) == AtMost(Size(p), PrefixLimit)

(* How much of the log hashPrefix reads. *)
PrefixBytes(p) ==
    LET old == state.files[p]
    IN  IF ~old.exists \/ old.prefix.bytes = 0 THEN AtMost(Size(p), PrefixLimit) ELSE old.prefix.bytes

(* The log cannot be opened, or is shorter than the prefix remembered of   *)
(* it.                                                                     *)
LookUnreadable(p) ==
    /\ AtPath("look", p) /\ Remaining > 0
    /\ \/ log[p].access = "denied"
       \/ log[p].access = "ok" /\ Size(p) < PrefixBytes(p)
    /\ scan' = Skipped(p, state.files[p], {"unreadable"})
    /\ UNCHANGED <<env, state, history>>

(* The log is not the one the cursor belongs to. *)
Replaced(p) ==
    LET old == state.files[p]
    IN  ~old.exists \/ Size(p) < old.offset \/ Prefix(p, PrefixBytes(p)) # old.prefix

(* The first scan starts at the end of a log, a later one at the cursor,   *)
(* or at the beginning of a log it does not know.                          *)
Look(p) ==
    /\ AtPath("look", p) /\ Remaining > 0
    /\ log[p].access = "ok" /\ Size(p) >= PrefixBytes(p)
    /\ LET fresh == state.saved /\ Replaced(p)
           from == IF ~state.saved THEN Size(p) ELSE IF fresh THEN 0 ELSE state.files[p].offset
           n == IF fresh THEN AtMost(Size(p), PrefixLimit) ELSE PrefixBytes(p)
       IN  scan' = [scan EXCEPT !.pc = "read",
               !.next.files[p] = [exists |-> TRUE, offset |-> from, prefix |-> Prefix(p, n)],
               !.based = IF state.saved THEN @ ELSE @ \cup Begun(p, Size(p))]
    /\ UNCHANGED <<env, state, history>>

(* Mutant: the next offset is the end of the log, not of the last line.    *)
nextOffset_End(p, offset, taken) == Size(p)

(* Where the next scan goes on: behind the last line taken. *)
nextOffset(p, offset, taken) == IF taken = {} THEN offset ELSE 2 * Max(taken)

(* readLines: what lies behind the offset, up to the last newline within   *)
(* MaxRead, is split into parts; one that is too long is passed over, and  *)
(* the rest stays for the next scan once there are max lines.              *)
readLines(p, offset, max) ==
    LET lines == log[p].lines
        cut == Size(p) > offset + MaxRead
        ends == {k \in 1..Len(lines) : offset < 2 * k /\ 2 * k <= AtMost(Size(p), offset + MaxRead)}
        Whole(k) == offset < 2 * k - 1
        Long(k) == Whole(k) /\ Text(lines[k]).kind = "long"
        short == {k \in ends : ~Long(k)}
        taken == {k \in ends : Cardinality({j \in short : j <= k}) <= max}
    IN  IF ends = {}
        THEN [lines |-> {}, offset |-> IF cut THEN offset + MaxRead ELSE offset,
              limited |-> cut, oversized |-> cut]
        ELSE [lines |-> {[path |-> p, at |-> k, line |-> lines[k], whole |-> Whole(k)] : k \in short \cap taken},
              offset |-> nextOffset(p, offset, taken),
              limited |-> cut \/ taken # ends,
              oversized |-> \E k \in taken : Long(k)]

(* The log is opened once more; what is there now is read from the offset. *)
Read(p) ==
    /\ AtPath("read", p) /\ log[p].access = "ok"
    /\ LET cursor == scan.next.files[p]
           got == readLines(p, cursor.offset, Remaining)
           reasons == (IF got.limited THEN {"read_limit_reached"} ELSE {})
                      \cup (IF got.oversized THEN {"oversized_line_skipped"} ELSE {})
       IN  /\ scan' = [Skipped(p, [cursor EXCEPT !.offset = got.offset], reasons) EXCEPT
                          !.lines = @ \cup got.lines, !.usable = TRUE]
           /\ upset' = IF cursor.prefix.bytes = 0 /\ got.lines # {} THEN upset \cup {p} ELSE upset
    /\ UNCHANGED <<log, written, journal, state, history, faults>>

ReadFails(p) ==
    /\ AtPath("read", p) /\ log[p].access # "ok"
    /\ scan' = Skipped(p, state.files[p], {"unreadable"})
    /\ UNCHANGED <<env, state, history>>

----------------------------------------------------------------------------
(* readJournal, when no log could be read: the first time it remembers the *)
(* end of the journal, then it reads on from there; without an answer to   *)
(* that it starts from the end again.                                      *)
Journal(lines, reasons, initialized, position, failed) ==
    [lines |-> lines, issues |-> {[path |-> JournalPath, reason |-> r] : r \in reasons},
     initialized |-> initialized, position |-> position, failed |-> failed]

readAfter ==
    LET last == state.position + AtMost(Len(journal) - state.position, Remaining)
        good == {k \in (state.position + 1)..last : Text(journal[k]).kind # "long"}
    IN  Journal({[path |-> JournalPath, at |-> k, line |-> journal[k], whole |-> TRUE] : k \in good},
                IF Len(journal) > last THEN {"read_limit_reached"} ELSE {}, TRUE,
                IF good = {} THEN state.position ELSE Max(good), FALSE)

readJournal ==
    IF scan.usable THEN {Journal({}, {}, FALSE, 0, FALSE)}
    ELSE IF ~HasJournal
    THEN {Journal({}, {}, state.initialized, state.position, FALSE)}
    ELSE IF ~state.initialized
    THEN {Journal({}, {}, TRUE, Len(journal), FALSE),
          Journal({}, {"unavailable"}, FALSE, 0, TRUE)}
    ELSE {readAfter, Journal({}, {"cursor_unavailable"}, TRUE, Len(journal), TRUE),
          Journal({}, {"cursor_unavailable"}, TRUE, state.position, TRUE)}

(* Mutant: attempts never leave the state. *)
pruneFailures_None(s) == s

(* Attempts leave the window, the oldest first; a suppression that has run *)
(* out is the same as none.  A source without attempts is not forgotten.   *)
Pruned(f) == SubSeq(f, 1 + Cardinality({k \in DOMAIN f : f[k] > Window}), Len(f))
pruneFailures(s) ==
    [s EXCEPT !.failures = [i \in IPs |-> Pruned(s.failures[i])],
              !.tried = [i \in IPs |-> Pruned(s.tried[i])],
              !.forgotten = {i \in @ : Pruned(s.failures[i]) # <<>> \/ Pruned(s.tried[i]) # <<>>}]

(* Scan goes on: the journal, and what the state has to forget. *)
ReadJournal ==
    /\ scan.pc = "look" /\ scan.path > NumPaths
    /\ \E j \in readJournal :
          LET next == [scan.next EXCEPT !.initialized = j.initialized, !.position = j.position]
              lines == scan.lines \cup j.lines
          IN  /\ scan' = [scan EXCEPT !.pc = "apply", !.next = pruneFailures(next), !.lines = lines,
                              !.todo = lines, !.issues = @ \cup j.issues]
              /\ IF j.failed THEN Fault ELSE UNCHANGED faults
    /\ UNCHANGED <<log, written, journal, upset, state, history>>

----------------------------------------------------------------------------
(* The loop over the lines: log after log, each in its order. *)
Before(e, f) == e.path < f.path \/ (e.path = f.path /\ e.at <= f.at)
NextLine(e) == scan.pc = "apply" /\ e \in scan.todo /\ \A f \in scan.todo : Before(e, f)

Done(e, next, events) == [scan EXCEPT !.todo = @ \ {e}, !.next = next, !.events = events]

(* parseAuthLine: what the line is, if it was read from its start. *)
Says(e, kind) == e.whole /\ Text(e.line).kind = kind
Fails(e) == Says(e, "failed") \/ Says(e, "garbled")

SkipLine(e) ==
    /\ NextLine(e) /\ ~Fails(e) /\ ~Says(e, "accepted")
    /\ scan' = Done(e, scan.next, scan.events)
    /\ UNCHANGED <<env, state, history>>

Dropped(s, ip) == [s EXCEPT !.failures[ip] = <<>>, !.alerted[ip] = 0, !.garbled[ip] = 0]

(* applyRecord of a success: the source starts afresh. *)
Forgiven(s, ip) == [Dropped(s, ip) EXCEPT !.tried[ip] = <<>>, !.forgotten = @ \ {ip}]

ApplySuccess(e) ==
    /\ NextLine(e) /\ Says(e, "accepted")
    /\ LET ip == Text(e.line).ip
       IN  scan' = Done(e, Forgiven(scan.next, ip), Append(scan.events,
               [kind |-> "succeeded", id |-> e.line,
                suspicious |-> Len(scan.next.failures[ip]) >= Suspicious]))
    /\ UNCHANGED <<env, state, history>>

(* The attempts of a source with one more, no more than the limit. *)
attempts(f) ==
    LET all == Append(f, 0)
    IN  SubSeq(all, 1 + Len(all) - AtMost(Len(all), MaxAttemptsPerIP), Len(all))

(* Where the last garbled attempt is then. *)
garbledAt(s, ip, kind) ==
    IF kind = "garbled" THEN 1
    ELSE IF s.garbled[ip] \in 1..Len(s.failures[ip]) THEN s.garbled[ip] + 1 ELSE 0

(* pruneOldestIP: a source with the oldest last attempt is forgotten;      *)
(* among several the order of a Go map decides.                            *)
Oldest(s) == {i \in Sources(s) : \A j \in Sources(s) : Last(s.failures[i]) >= Last(s.failures[j])}
pruneOldestIP(s) == {[Dropped(s, i) EXCEPT !.forgotten = @ \cup {i}] : i \in Oldest(s)}

(* Mutant: the threshold has to be exceeded. *)
Quiet_OffByOne(s, ip, n) == n <= Threshold \/ s.alerted[ip] > 0

(* A failure that raises no alert. *)
Quiet(s, ip, n) == n < Threshold \/ s.alerted[ip] > 0

(* applyRecord of a failure; the alert does not ask whether pruneOldestIP  *)
(* has just forgotten the source itself.                                   *)
ApplyFailure(e) ==
    /\ NextLine(e) /\ Fails(e)
    /\ LET ip == Text(e.line).ip
           all == attempts(scan.next.failures[ip])
           added == [scan.next EXCEPT !.failures[ip] = all, !.tried[ip] = attempts(@),
                                      !.garbled[ip] = garbledAt(scan.next, ip, Text(e.line).kind)]
           kept == IF Cardinality(Sources(added)) > MaxFailureIPs THEN pruneOldestIP(added) ELSE {added}
       IN  \E s \in kept :
               scan' = IF Quiet(s, ip, Len(all)) THEN Done(e, s, scan.events)
                       ELSE Done(e, [s EXCEPT !.alerted[ip] = Window],
                                 Append(scan.events, [kind |-> "bruteforce", ip |-> ip]))
    /\ UNCHANGED <<env, state, history>>

(* The rest of Scan: an event for a coverage that differs from the one of  *)
(* the state.                                                              *)
Finish ==
    /\ scan.pc = "apply" /\ scan.todo = {}
    /\ scan' = [scan EXCEPT !.pc = "report", !.next.issues = scan.issues,
                    !.events = IF scan.issues = state.issues THEN @
                               ELSE Append(@, [kind |-> "coverage", issues |-> scan.issues])]
    /\ UNCHANGED <<env, state, history>>

----------------------------------------------------------------------------
(* runCycle queues the events in their order ... *)
Said(e) ==
    CASE e.kind = "succeeded" -> [told EXCEPT !.logins = @ \cup {e.id}]
      [] e.kind = "bruteforce" -> [told EXCEPT !.alert[e.ip] = 0]
      [] e.kind = "coverage" -> told

Enqueue ==
    /\ scan.pc = "report" /\ scan.events # <<>>
    /\ told' = Said(Head(scan.events))
    /\ scan' = [scan EXCEPT !.events = Tail(@)]
    /\ UNCHANGED <<env, state, counted, settled, based>>

(* The lines of the logs that a scan has counted, and the logins. *)
Applied == {e.line : e \in {e \in scan.lines : e.whole /\ e.path # JournalPath}}
Logins == {e.line : e \in {e \in scan.lines : Says(e, "accepted")}}

SaveState ==
    /\ state' = [scan.next EXCEPT !.saved = TRUE] /\ scan' = NoScan
    /\ counted' = [i \in Ids |-> IF i \in Applied THEN AtMost(counted[i] + 1, 2) ELSE counted[i]]
    /\ settled' = settled \cup Logins
    /\ based' = based \cup scan.based
    /\ UNCHANGED <<env, told>>

(* Mutant: Commit does not wait for the events. *)
Commit_Early ==
    /\ scan.pc = "report" /\ Fits(scan.next)
    /\ SaveState

(* ... and then calls Commit, which replaces the state file by a rename;   *)
(* saveState refuses a state that is too large, attempts make it so.       *)
Commit ==
    /\ scan.pc = "report" /\ scan.events = <<>>
    /\ Fits(scan.next)
    /\ SaveState

(* What a cycle has queued stays queued when it ends without a commit. *)
Forget ==
    /\ scan' = NoScan
    /\ UNCHANGED <<log, written, journal, upset, state, history>>

CommitRefused ==
    /\ scan.pc = "report" /\ scan.events = <<>>
    /\ ~Fits(scan.next)
    /\ Forget /\ UNCHANGED faults

(* The cycle fails or the process dies. *)
Abandon == scan.pc # "idle" /\ Fault /\ Forget

----------------------------------------------------------------------------
ReadStep(p) == LookPast(p) \/ LookUnreadable(p) \/ Look(p) \/ Read(p) \/ ReadFails(p)
ApplyStep(e) == SkipLine(e) \/ ApplySuccess(e) \/ ApplyFailure(e)

ScanStep ==
    \/ StartScan \/ ScanRefused \/ ReadJournal \/ Finish \/ Enqueue \/ Commit \/ CommitRefused
    \/ \E p \in Paths : ReadStep(p)
    \/ \E e \in scan.todo : ApplyStep(e)

Host == \E p \in Paths : WriteHead(p) \/ WriteTail(p) \/ Rotate(p) \/ Lose(p) \/ Return(p)

Next == ScanStep \/ Host \/ Abandon \/ Tick

Spec == Init /\ [][Next]_vars

(* The Agent runs a cycle after the other, and time passes between them. *)
FairSpec == Spec /\ WF_vars(ScanStep) /\ SF_vars(Tick)

----------------------------------------------------------------------------
(* The log is the one the committed cursor belongs to. *)
Known(p) ==
    LET cursor == state.files[p]
    IN  /\ state.saved /\ log[p].access = "ok" /\ cursor.prefix.bytes > 0
        /\ Size(p) >= cursor.offset /\ Size(p) >= cursor.prefix.bytes
        /\ Prefix(p, cursor.prefix.bytes) = cursor.prefix

(* A committed cursor never lies behind a line that was not counted: the   *)
(* lines before the offset of a log that readPath would take for its own   *)
(* were counted by a committed scan, belong to the history the first scan  *)
(* passes over, or are too long; a half written line, a read limit, a      *)
(* rotation between hashPrefix and readLines, a failed cycle lose none.    *)
NothingSkipped ==
    \A p \in Paths : Known(p) =>
        \A k \in 1..Len(log[p].lines) : 2 * k <= state.files[p].offset =>
            LET id == log[p].lines[k]
            IN  counted[id] > 0 \/ id \in based \/ Text(id).kind = "long"

(* A line is counted a second time only where the log was replaced or      *)
(* absent, or where it was empty when looked at and had lines when it was  *)
(* read, which leaves a cursor without a prefix: not because of a failed   *)
(* cycle, a read limit or a half written line.                             *)
CountedTwiceExplained ==
    \A p \in Paths \ upset : \A k \in 1..Len(log[p].lines) : counted[log[p].lines[k]] < 2

(* These attempts of a source are no burst, or an alert was queued within  *)
(* a window of the last of them.                                           *)
Answered(i, f) ==
    Len(f) >= Threshold /\ Last(f) <= Window => told.alert[i] < Last(f) + Window

(* A source with a threshold of failures in the window, among all that     *)
(* committed scans have counted since its last success, has been the       *)
(* subject of an alert: neither the suppression, the limit of attempts nor *)
(* a failed cycle hides a burst.  The limit of sources can: pruneOldestIP  *)
(* forgets attempts, in a tie also those of the source that has just       *)
(* failed.  Of such a source the property says this only of the attempts   *)
(* that the state still has.                                               *)
BruteForceReported ==
    \A i \in IPs :
        /\ Answered(i, state.failures[i])
        /\ i \notin state.forgotten => Answered(i, state.tried[i])

(* No committed cursor passes a login that was not reported: the detector  *)
(* implements the contract of one that reports before it commits.          *)
Reports == INSTANCE DetectorContract WITH told <- told.logins, settled <- settled
ReportsThenCommits == Reports!Spec

(* Every complete line of a log that is left alone is read: unless the log *)
(* is shorter than the prefix remembered of the one before it, when it is  *)
(* taken for unreadable until it has grown, or the state has an attempt    *)
(* with a garbled user, when it is never loaded again.                     *)
Unread(p, i) ==
    /\ log[p].access = "ok" /\ state.saved /\ Loads(state)
    /\ \E k \in 1..Len(log[p].lines) :
          log[p].lines[k] = i /\ 2 * k <= Size(p) /\ Text(i).kind # "long"
    /\ counted[i] = 0 /\ i \notin based
    /\ Size(p) >= state.files[p].prefix.bytes

LinesRead == []<>(\A p \in Paths, i \in Ids : ~Unread(p, i))
=============================================================================
