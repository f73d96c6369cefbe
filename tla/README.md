# TLA+ models of MySafe

MySafe is a host security system: an **Agent** watches a host and reports events,
a **Gateway** filters web requests and reports rule matches through the Agent, a
**control plane** registers Agents, stores events and distributes policies, and an
**installer** puts Agent and Gateway on a host and takes them off again. This
directory models the parts of the code in which order, concurrency, failure and
limits decide whether the system is correct; it checks them with TLC on small
instances and proves the central ones with TLAPS for all instances.

Contents: [1 Inventory](#1-inventory) · [2 Modules and code](#2-modules-and-code) ·
[3 Runs](#3-runs) · [4 Fairness](#4-fairness) · [5 Proofs](#5-proofs) ·
[6 Where code and documents disagree](#6-where-code-and-documents-disagree) ·
[7 Abstractions](#7-abstractions) · [8 Not modelled](#8-not-modelled) ·
[9 Plan](#9-plan) · [10 Running the checks](#10-running-the-checks)

## 1 Inventory

| Component | State | Operations | Correct when |
|---|---|---|---|
| Agent encrypted queue (`internal/agent/queue.go`) | a directory: `queue.key`, one sealed file per event; a mutex per object | open, `Enqueue`, `Peek`, `Ack` | an accepted event survives crashes and power losses until it is confirmed; the limit is kept up to the objects that share the directory |
| Agent cycle (`internal/agent/runner.go`) | detector baselines, the batch in flight | scan → enqueue → commit → connect → flush; feed handler; the loop of `Run` | a baseline never passes a change that is not queued; a change has one event id; everything queued is delivered |
| Identity and enrollment (`identity.go`, `policy.go`, `runner.go`, `internal/mtls`) | `machine.id`, client key, certificate, `credentials.json`, `policy.json` | enroll, renew, fetch and save the policy, heartbeat | one machine has one identity; files and control plane agree; the policy does not go back; the Agent connects |
| Agent CA of the control plane (`internal/mtls`) | CA key and certificate | `LoadOrCreateIssuer` at every start | a failed first start does not refuse the next one |
| Control plane handlers (`internal/control/server.go`) | none of their own, all in the store | `registerAgent`, `renewAgentCertificate`, `heartbeat`, `ingestEvents`, `putAgentPolicy` | retried and abandoned requests do no harm |
| Store (`internal/store`) | agents, events, policies, audit log | `CreateAgent`, `UpdateHeartbeat`, `SaveEvents`, `SavePolicyAndAudit` | each call is atomic; an event is stored once; the audit log is the policy's history |
| SQL store (`internal/store/sqlstore`) | the same as tables; open transactions and their locks | the same, statement by statement | it keeps the store's contract; every call returns |
| Gateway outbox (`internal/gatewayevents`) | a directory of event files, a mutex, the goroutine `Run` | `Emit`, `persist`, `Flush`, `Run` | an emitted event is in a file, in the socket, received, or was answered by an error |
| Gateway (`internal/gateway`) | the status of each response; mode and failure policy | inspect, emit rule matches, forward, answer | a request is answered once and truly, and does not wait for ever for the event channel |
| Local feed (`internal/localfeed`) | a Unix datagram socket | `Send`, `Listen` | what was read and validates reaches the queue |
| File integrity detector | the baseline file with its generation | `Scan`, `Commit` | no change passes unreported; no false deletion; ids are fresh |
| SSH detector (`internal/detector/sshauth`) | cursors with a hash of the log's prefix, failures and suppressions per source, journal cursor | `Scan` (look at, read and apply each log, else the journal), `Commit` | no line is skipped or counted twice, over rotation, half lines and limits; a burst is reported |
| Runtime detector (`internal/detector/runtimewatch`) | known processes, one identity per name, listening ports | `Scan`, `Commit` | reports are true and add up; a still host is silent; pruning keeps the state within its limits |
| Installer (`internal/installer`) | the transaction journal; files, services, accounts, nginx | `BuildPlan`, `Apply`, automatic and explicit rollback | the journal can undo what was done; a rollback restores the host |

How they interact. The Gateway's request handlers call `Emit`, which sends a datagram
to the Agent; the Agent's feed thread reads it and calls `Enqueue`. In the same Agent
process the scan cycle runs the detectors, enqueues what they observed, commits their
baselines, talks to the control plane (enrollment, renewal, policy, heartbeat) and
flushes the queue with `Peek` → `POST /events` → `Ack`. Feed and cycle each have a
queue object of their own on the one directory, so the object's mutex does not
order them. The control plane's handlers call the store; handlers of different
requests, and of requests whose client has given up, interleave.

What is hard here, and is therefore what the models are about:

- **Interleaving**: feed and cycle on one queue directory; sshd and logrotate at work while
  a log is read; requests that wait for the outbox; `agentd --once` beside the
  service on one state directory; concurrent emissions and the forwarder on one outbox;
  SQL transactions of concurrent handlers.
- **Crash and power loss** between any two file operations of the queue, of the cycle,
  of enrollment, of the outbox and of the installer.
- **Lost answers and retries**: a batch stored and sent again; a registration whose
  answer is lost; a batch that is refused each time it is sent.
- **Limits**: a full queue, a full outbox, a full socket, more files, lines, processes,
  ports or changes than a scan may handle or report, a state too large to save or one
  that is not loaded again as it was saved.
- **Partial failure**: one detector fails, one directory is unreadable, one undo step
  of a rollback fails, one statement of a transaction fails.
- **Liveness**: queue and outbox must drain, an Agent must connect, calls must return.

`PROJECT.json` lists every hazard at its line with the properties that cover it.

## 2 Modules and code

| Module | Models | Builds on |
|---|---|---|
| `EncryptedQueue` | the queue, any number of objects on one directory | |
| `AgentDelivery` | the cycle and the feed of one Agent, the queue, and event ingestion | EXTENDS `EncryptedQueue` |
| `Enrollment` | the connection part of `runCycle`, the state directory, the handlers it calls | |
| `Store` | the contract of `store.Store`, as `store.Memory` implements it | |
| `SQLStore` | the SQL store, one action per statement | EXTENDS `Store`; refines `StoreSpec` |
| `GatewayOutbox` | outbox, forwarder and local feed | |
| `Gateway` | the way of a request through the Gateway, with the outbox its events go to | EXTENDS `GatewayOutbox` |
| `DetectorContract` | what the cycle promises for any detector: told first, settled afterwards | |
| `SSHAuth` | the SSH detector, the logs it reads, and the part of the cycle that drives it | refines `DetectorContract` |
| `RuntimeWatch` | the process and port detector, likewise | refines `DetectorContract` |
| `FileIntegrity` | the detector, and the part of the cycle that drives it | |
| `Installer` | installation, journal and rollback on one host | |
| `AgentDeliveryProofs`, `EnrollmentProofs`, `SQLStoreProofs`, `GatewayProofs`, `FileIntegrityProofs`, `SSHAuthProofs`, `RuntimeWatchProofs`, `InstallerProofs` | theorems, section 5 | EXTENDS the module each is about; `AgentDeliveryProofs` is about `EncryptedQueue` too, `GatewayProofs` about `GatewayOutbox` |
| `MC*` | instances for TLC: symmetry sets and ordered names | |

**EncryptedQueue.** `disk[n]` is a file of the queue directory: `Absent`, `Torn` (an
entry that does not authenticate) or the event sealed in it. `pc[h]` is where the
object `h` is inside its current method; there is an action for each system call of
opening (key creation included), `Enqueue` (count, create, write, sync), `Peek` and
`Ack` (one removal at a time). The history `standing[n]` is `owed` from the return
of `Enqueue` until the receiver's confirmation. A process crash closes handles between
two calls; a power loss also tears what was not synced.

**AgentDelivery.** The composition: the cycle and the feed are two handles of the
queue, and each action of the cycle or the feed that touches the queue is a conjunction
of a queue action and a change of the Agent's own state. `at` is the position in
`runCycle`, `todo` the observed events still to be queued, `seen[d]` the scan results
whose `Commit` is pending, `baseline[d]` the committed baseline, `stored` the event
table of the control plane. All error returns of `runCycle` go through `Return`; a
failing feed handler ends the process, which systemd starts again. `refused` is the set of
events that `ingestEvents` answers with 400, for a time that lies too far ahead of the
control plane's clock or any other reason; one such event has its whole batch refused.

**Enrollment.** One variable per file of the state directory, `at[p]` the position of
process `p`, `rows` the Agents registered for the machine, `late` the handlers whose
client has given up after they looked the machine up. Lookup and insert of
`registerAgent` are separate steps, as are the saves of certificate and credentials,
and the comparison and replacement of the policy (`base[p]` is the policy `p` compared
with). `cakey`, `cacert` and `boot` are the control plane's first start: two files, each
created and then written, of which a failing start removes what it has made and a killed
one does not.

**Store / SQLStore.** `Store` has one atomic action per writing method; `request` and
`reply` are the interface. `SQLStore` adds `tx[c]`, the transaction of caller `c`:
its next statement, the rows it has inserted and not committed, and through them the
locks it holds. Unique keys make an insert wait for a transaction that has inserted
the same key; `SELECT ... FOR UPDATE` locks an existing policy row and nothing when
there is none. Any statement may fail, the server may restart, and one of two
transactions that wait for each other is rolled back.

**GatewayOutbox.** `emit[e]` is the position of the request that emits `e`, `mutex` the
holder of `outbox.mu`, `run` and `todo` the forwarder and the files its `Flush` has
listed, `sock` the datagrams in the socket. `Receive` hands a datagram to the queue, or
passes over one that `Decode` refuses, which it says to nobody.

**Gateway.** `req[e]` is where the request is that has the rule match `e`: in the engine,
at the upstream, in the engine's logging phase, or sent on without the engine. A rule
match calls `EmitBegin` of `GatewayOutbox`, and the request goes on when `Emit` has
returned. `status[e]` is `responseStatus.status`, which keeps the first status written.

**DetectorContract.** Two sets, `told` and `settled`: a cycle tells facts by queueing
events, and may fail; a commit settles only facts that were told. `SSHAuth` implements it
with the logins whose lines a committed cursor has passed, `RuntimeWatch` with the
identities that became known (`INSTANCE DetectorContract WITH told <- ..., settled <- ...`).

**SSHAuth.** `log[p]` is the log at a path: whether it can be read, its lines (numbers in
the order of writing, `written` has what each says) and whether the last one is half
written. A line has two halves and an offset counts halves, so that it may lie within a
line. A cursor has the offset and the prefix (its size, and the lines begun in it), a read
is a set of entries (`Entry`: path, place, line, and whether it was read from its start).
`scan` holds the local variables of `Scan`, which goes through the logs with two steps for
each: the look (`Lstat`, `hashPrefix`, the choice of the offset) and the read (`readLines`);
the host may act on any log before, between and after them. `ReadJournal` is the journal if
no log was usable, and the pruning. The loop over the lines takes a step for each, in their
order (`NextLine`): `SkipLine`, `ApplySuccess` or `ApplyFailure`, which together are
`parseAuthLine` and `applyRecord`. `Finish` is the coverage event. `Enqueue` and `Commit` are
the cycle's; `Commit` is refused when the state is too large. A `garbled` line is a failure whose
user is not UTF-8 and becomes too long for `validUser` once it has been through JSON; while a
committed state holds such an attempt (`garbled` counts the attempts since), `loadState` refuses it
(`ScanRefused`). Two fields of the state are history: `tried` has the attempts of a source as if
there were no limit of sources, `forgotten` the sources that `pruneOldestIP` has removed.

**RuntimeWatch.** `procs`, `listening` and `table` are the host and its `/proc`. A capture
reads the processes in the order of the listing, up to the limit (`FirstPids`), and of
several with one identity keeps the last (`Kept`); a process that exits may be seen with its
executable, without it, or not at all (`Captures`). `Scan` compares as the code does; the history
variables hold what a reader of the events would believe. What is saved need not come back:
`Saveable` has the size limit (`Bytes`, any function of the state), `Loads` refuses a state with an
executable of `Unloadable`, whose path JSON makes too long, and a name of `LostNames` is not
found again in the index of names.

**FileIntegrity.** `fs` and `hidden` are the watched files and the unreadable
directories, `baseline` the baseline file, `result` the scan in progress. The
comparison, the retention of entries of unreadable directories, the limits on files
and events, the overflow event, the derivation of ids and the refusals to commit (too many
entries, a path of `BadNames`, which holds a CR or LF, or a length of more than `MaxBytes`) are
those of the code.

**Installer.** `fs`, `live`, `enabled`, `running`, `groups`, `users` are the host;
`journal` is the record on disk and `mem` the one in memory. The phases run in the
order of `Apply` and of `rollbackInstallation`; within a phase there is an action per
command and file operation (back up, record, replace), any of which may fail or be
the last one before a crash. `UserGroups` says whether the host's `userdel` takes the group of
the same name along, as Debian and Ubuntu are set up; `made` is the history of the users that
installations have created.

`PROJECT.json` maps each definition to its source lines.

## 3 Runs

Runs that pass:

| Run | Configuration | Shows |
|---|---|---|
| `queue` | 2 objects, 2 events, 4 names, limit 2 | `NothingLost`: an accepted event is on disk in full until it is confirmed. `OverrunBounded`: the limit is exceeded by at most one file per other object. `QueueTypeOK`: `Peek` returns authenticated events only |
| `delivery` | 1 detector with 2 changes, 1 Gateway event, limit 2, 1 fault | `NoChangeLost`, `OneIdPerChange`, `SentIsStored`, over crashes and lost answers. `DrainsUnlessFull`: a full queue and a batch that goes on being refused are the only reasons for not draining |
| `sql_store` | 2 callers, 2 Agents, 2 events, 2 revisions | `Contract` (refinement of `Store`), `PolicyAudited`, `EveryCallReturns`, deadlocks included |
| `enrollment` | 2 processes, 2 ids, 2 revisions, an ageing certificate, 2 faults | `OneAgentPerMachine`, `IdentityConsistent`. `PolicyBackOnlyInRace`: only two racing processes take the policy back, a restored backup never does. `ConnectsUnlessStranded` names the four states from which no cycle gets through. `IssuerReady`: no failed start of the control plane blocks the next one, a killed one may |
| `outbox` | 3 events, limit 2, socket of 1, 2 faults | `EmittedAccounted`, `OutboxBounded`, `ForwardedOnce`, `RunStopsOnlyOnFault`, `DrainsUnlessStopped` |
| `gateway` | 2 requests, outbox limit 1, socket of 1, 1 fault, every mode and policy | `AnswerTrue`: refused and never sent on, or sent on once and answered as the upstream did. `RequestsAnswered`: no request waits for ever for the outbox |
| `ssh_auth` | 1 log, a journal, 2 sources, 2 lines of 4 kinds, 1 line and 3 half lines a read, threshold 2, 1 fault | `NothingSkipped`, `CountedTwiceExplained`, `BruteForceReported`, `ReportsThenCommits` (refinement of `DetectorContract`), `LinesRead` (liveness) |
| `runtime_watch` | 4 processes in two names, of which 2 share an executable and 1 has a path that is not UTF-8, 2 sockets, limits of 2, size limit 3, 3 generations, 3 changes | `EventsTellPorts`, `PortEventsTrue`, `RunningStaysKnown`, `QuietHostSilent`, `ProcessesReported` (refinement of `DetectorContract`); `RuntimeTypeOK`: no limit and no pruning makes a state that `validateState` refuses |
| `file_integrity` | 3 paths of which one may not be in a baseline, 2 contents of which one too large, limits of 1 file, 1 event and size 2, 4 generations, 3 changes | `NoSilentChange`, `FreshIds`, `NoFalseDeletion`, `RefusalExplained` |
| `installer` | 2 versions, 2 ports, 3 installations, 2 faults, `userdel` that takes groups along | `JournalCoversHost`, `RollbackRestores`, `AccountsKept` |

Why these bounds. Every limit of the code is a constant that is made as small as the
number of things that can meet it, so each run reaches the state below, at and above
its limit. Two objects, two processes and two transactions are the smallest sets that
race. Two
changes of one object, in two cycles, are needed for an id to be reused. Two faults
allow a failure during the recovery from a failure. The installer is run three times: the
host a third installation finds can hold a service that runs with an older file than is on
disk, as an upgrade leaves it. In
`ssh_auth` the second source is one of which the first state may hold an attempt, so
that the limit of one source is exceeded; the read limit of three half lines lets a read
end within a line, and the size limit of two attempts is below the three a source may
have. In `runtime_watch` four processes exceed the process limit of two and their
identities the limit of two known ones; each name has two processes and two share an executable, so that
both indexes have a choice to make; two identities and two sockets exceed the size limit. In
`file_integrity` a hash, an issue of coverage or a longer generation each can take a baseline
over its size limit. For every safety property of a passing run the proofs
remove the bounds.

Every property of a passing run has a mutant in `PROJECT.json`: a plausible slip in
one definition (a dropped guard, a swapped order, a missing check) under which TLC
finds the property violated, so that each property is known to depend on the code it
is about.

Each module has a type invariant. All are proved; two that say more than types
(`QueueTypeOK`, `RuntimeTypeOK`) are checked by a run as well.

Deadlock is checked in every run.

Runs that are expected to fail, one for each statement of a document that the code
does not keep, are in section 6.

## 4 Fairness

- `AgentDelivery`: weak fairness of the steps of cycle and feed, which are the steps
  of running threads, and of `Start`, because the unit has `Restart=on-failure`. Strong
  fairness of `RunReturns`: `Run` selects between the ticker and the feed's error, and
  Go chooses among ready cases at random, so it is not passed over for ever. Nothing is
  assumed of faults or of the control plane; that it stays reachable is a hypothesis of
  the properties.
- `Enrollment`: weak fairness of each process's steps, and of the control plane's start,
  whose unit has `Restart=on-failure` and `RestartSec=5s`.
- `SQLStore`: strong fairness of a caller's next statement, because the lock queues of
  the database are served in order, and weak fairness of choosing a deadlock victim.
- `GatewayOutbox`: strong fairness of emissions and of the forwarder, because both
  need `outbox.mu` and a Go mutex hands itself over to a waiter after a millisecond;
  weak fairness of the Agent's read.
- `Gateway`: strong fairness of emissions as above; weak fairness of the forwarder and of
  a request's own steps, since the transport has a timeout for the answer's header and
  `ErrorHandler` answers for it. Nothing is assumed of rule matches or the Agent.
- `SSHAuth`: weak fairness of the cycle's steps, and strong fairness of `Tick`: the ticker
  of `Run` puts time between two cycles, so attempts do leave the window. `LinesRead` also needs
  that the attempts of one scan fit into a state (`MaxState >= MaxLines`), as they do with the
  default limits of the code: 5000 lines, 4 MiB. Nothing is
  assumed of the host; a log that is written, rotated and hidden for ever is excluded by
  the bounds.

## 5 Proofs

`AgentDeliveryProofs`, first part: the queue (any number of objects, names and events, any
limit; from `QueueAssumption` alone):

- `QueueTypeCorrect`: `QueueSpec => []QueueTypeOK`.
- `QueueLosesNothing`: `QueueSpec => []NothingLost`. `NothingLost` alone is not
  inductive: it says nothing of the file an object is writing, or of the batch another
  object is about to remove. `QueueInv` adds `SlotInv` (a name being written belongs to
  one object and is not owed yet), `WriteInv` (what the file holds at each position of
  `Enqueue`, so that it is the whole event when `Enqueue` returns) and `BatchInv`
  (a batch about to be removed has been confirmed). The proof has a lemma for each of
  opening, enqueuing, flushing and crashing.
- `QueueOverrunBounded`: `QueueSpec => []OverrunBounded`. `PlacesInv` counts the files
  together with the places claimed by objects that have passed the check of the limit
  and not yet created their file. That sum is bounded; every step keeps it or lowers
  it, except a check that passes, which only passes below the limit.

`SQLStoreProofs` (any number of callers, agents, events and revisions):

- `StoreTypeCorrect`: `Spec => []TypeOK`.
- `PolicyAlwaysAudited`: `Spec => []PolicyAudited`. `SQLInv` adds `TxInv` (which
  statement belongs to which method), `EventInv` (what a batch has inserted so far is
  exactly what is not committed, and no two transactions have inserted the same key)
  and `LockInv` (between the locking read and the commit the policy has the expected
  revision and nobody else holds it).
- `SQLStoreImplementsStore`: `Spec => Contract`. The variables of `Store` are those of
  the committed tables, so the mapping is the identity on them and every statement but
  the last one of a method is a stutter. `EventInv` makes the number of rows a
  batch reports equal to the number it adds; `LockInv` makes a committed policy the
  successor of the one it replaces.

`AgentDeliveryProofs`, second part: the Agent (any set of detectors, changes, Gateway events,
names and faults; one cycle and one feed, as in the code, whatever other handles and events
there may be):

- `AgentImplementsQueue`: `Spec => QueueSpec`. Every action of the Agent that touches the
  queue is a conjunction with a queue action, so the mapping is the identity; the proof shows
  that the other conjuncts leave the queue's variables alone and that the Agent calls
  the queue only with arguments it allows. `QueueInv`, and with it the three theorems of the
  queue, holds in the Agent.
- `DeliveryTypeCorrect`: `Spec => []DeliveryTypeOK`.
- `NoChangeIsLost`: `Spec => []NoChangeLost`. `PassedInv` says of every change that a pending
  `Commit` will pass that its event is still to be queued, or is in a file the queue owes, or
  stored. `SentInv` is needed because a file may be confirmed and removed while its own
  `Enqueue` has not returned yet.
- `OneIdForAChange`: `Spec => []OneIdPerChange`. `IdInv` says that a change which is not
  committed is known only under the generation of the current baseline, wherever its event
  is: in the loop, in a file, in a batch or in the store.
- `SentEventsAreStored`: `Spec => SentIsStored`, an action property.

`EnrollmentProofs` (any number of processes on the state directory, any bounds):

- `EnrollmentTypeCorrect`, `OneAgent` (`[]OneAgentPerMachine`), `IdentityStaysConsistent`
  (`[]IdentityConsistent`). `IdentityInv` extends them from the files to what processes
  hold in memory: every identity anywhere is the registered one, and the certificate is
  saved before the credentials.
- `PolicyGoesBackOnlyInRace`: `Spec => PolicyBackOnlyInRace`, an action property. `ProcInv`
  keeps that a policy about to be written is newer than the one it was compared with.

`GatewayProofs` (any number of requests, names, limits and faults):

- `OutboxTypeCorrect`, `EmittedStaysAccounted`, `OutboxStaysBounded`, `RunEndsOnlyOnFault`,
  `EventsForwardedOnce`: `Spec => []...` for the outbox. One invariant carries them:
  `LockInv` (who holds the mutex is at which step, and what it writes is torn), `FlushInv`
  (what a flush has listed stays until it removes it), `NoFaultInv` (before any failure an
  event has one place) and `TakenInv`.
- `GatewayImplementsOutbox`: `GatewaySpec => Spec`. A request's steps are steps of the
  outbox or leave it alone, so the five theorems hold under the requests.
- `GatewayTypeCorrect`, `AnswersAreTrue` (`[]AnswerTrue`).

`FileIntegrityProofs` (any finite set of paths, any contents and limits):

- `FimTypeCorrect`, `RefusalIsExplained` (`[]RefusalExplained`), and the action properties
  `NoChangeIsSilent`, `IdsAreFresh`, `NoDeletionIsFalse`. `ScanInv` says that a result is still
  about the baseline on disk and that what it found is queued or about to be; `IdInv` that
  an id carries the generation it was found against. For `RefusalIsExplained` the cases are the
  three refusals: entries beyond the limit were preserved, a bad name cannot be in the
  baseline on disk, which was validated (`FimTypeOK`), so its file is new, and a next baseline
  without any change is the old one with the next generation. `Bytes` may be any
  operator: nothing is assumed of it.

`SSHAuthProofs` (any number of logs, lines and faults, any finite set of sources, all limits):

- `SSHTypeCorrect`: `Spec => []SSHTypeOK`, in which `Valid(state)` has the limits that `validateState`
  checks. So only the size can refuse a commit: the scan itself keeps the limits of sources,
  attempts and prefixes. It does not say that `loadState` accepts the state: a garbled
  user is the exception (`Loads`), and no theorem excludes it. `Base` adds `Valid` of the scan's state, `LogInv` (a log holds lines
  of its own, in the order of writing) and `EntryInv` (a scan has lines of the logs it has
  been through only, and none left to apply outside of the loop).
- `SSHNothingSkipped`: `Spec => []NothingSkipped`. The property speaks of the committed
  cursor, of a log that it recognises; a scan in progress decides at the look which log it
  has to do with and reads later what is there then. `SkipInv` says the same (`Good`) of the
  committed and of the scan's cursor of every path: the log that begins with a line of
  the remembered prefix is the one the prefix was taken from, and has only grown since
  (`CursorOK`); every line behind the offset was counted, is among the lines the scan will
  count, belongs to the first scan's history or is too long; and an offset divides a line
  only if the first scan put it there (`Covered`). That a look at one log and a read of another lose
  nothing follows because the cursor then belongs to neither. The lemma `ReadLinesFacts`
  says what `readLines` consumes, for all limits.
- `SSHCountedTwiceExplained`: `Spec => []CountedTwiceExplained`. `OnceInv` says of every path
  that was not upset that no counted line lies beyond the committed offset and that no line
  of the scan was counted before; the proof uses `SkipInv`.
- `SSHBruteForceReported`: `Spec => []BruteForceReported`. `AlertInv` relates three clocks of
  each source, the suppression that remains, the age of the last attempt and the age of the last
  alert queued (`Timely`), in the committed state and in the scan's, where an alert may be
  among the events still to be queued (`PendingAlert`). `RememberInv` carries it from the state to
  the history: of a source that was not forgotten the state has all attempts, or as many as the
  limit of a source allows (`Complete`), and the limit is no less than the threshold.
- `SSHReportsThenCommits`: `Spec => ReportsThenCommits`, the refinement of
  `DetectorContract`. `LoginInv` says of every login that the loop has passed that it was
  told of, or that an event of the scan will tell.

`RuntimeWatchProofs` (any finite sets of processes and sockets, all limits):

- `RuntimeTypeCorrect`: `Spec => []RuntimeTypeOK`, whose heart is that the next state is
  within the limits of `validateState`, not that it can be saved or loaded. `PruneKnown` proves it of `pruneKnown`: what runs fits (`CompleteCapture`, since
  `MaxKnown >= MaxProcesses`), and the `n` longest unseen identities are `n` (`OldestCount`,
  by a least counterexample).
- `RunningProcessesStayKnown` (`[]RunningStaysKnown`): a complete capture has every running
  executable, and pruning keeps what is current.
- `EventsAlwaysTellPorts` (`[]EventsTellPorts`). Between a scan and its commit the property says
  nothing, so `EventsInv` says that the events, queued or not, are about differences of the
  two states and that every difference has one unless one says overflow, and `ToldInv`
  what the queued ones have told so far.
- `PortEventsAreTrue`, `QuietHostIsSilent` (action properties): `StateInv` keeps that the
  committed sockets include those of the last complete capture, and that a `calm` host is
  the one the state describes.
- `ProcessesAreReported`: `Spec => ProcessesReported`, the refinement of `DetectorContract`.

`InstallerProofs` (any number of releases, ports, installations and faults):

- `InstallerTypeCorrect`, `AccountsAreKept` (`[]AccountsKept`), `JournalAlwaysCoversHost`
  (`[]JournalCoversHost`), `RollbackAlwaysRestores` (`[]RollbackRestores`). The invariant has a
  part for each kind of thing that is undone: `FileInv` (a file differs only if its record is
  on disk), `NginxInv`, `UnitInv` and `ServiceInv` (where the undoing is with each service),
  `AccountInv`, and `MarkedInv`; `RecordInv` relates the record in memory to the one on disk,
  which may hold less while an undoing goes on. `AccountInv` says that no
  record names an account that was there before the installation; the group of a user that was made is the exception
  of `AccountsKept` where `UserGroups` holds.

The assumptions are those of the modules, and TLC evaluates them in every run: sets that a
directory or a table holds are finite, limits are positive where the code's configuration
makes them so, and the markers for absence are not values (`NoneAssumption` of `Installer`
and `RuntimeWatch`, the last conjuncts of the others). `RuntimeWatchAssumption` also says what
the configuration checks, `MaxKnown >= MaxProcesses`, and that no two processes have one place
in the listing. `SSHAuthAssumption` has the ranges that `New` checks (`Threshold >= 2`, a
positive window and number of lines), that the limit of attempts of a source is no less than the
largest threshold (100 and 100), and `MaxRead >= 2`: a line that does not fit into one
read is one that counts as too long.

What the proofs, and reading the code again, changed. The first `RefusalExplained`, `RuntimeTypeOK`, `SSHTypeOK` and
`AccountsKept` were proved of models in which a saved state comes back as it was, a baseline has
no limit but its entries, and `userdel` deletes a user only. They claimed more than the code does; the models
now have what they left out, and the properties name what remains. `BruteForceReported` spoke only
of the sources still in the state; it now has a history of its own. An attempt to prove `JournalCoversHost` failed for a good reason. After
an upgrade a service runs with the file it was started with, which is no longer the one on
disk. When a later installation fails to record that service, its automatic rollback
stops the service and starts it again, now with the newer file; if marking the rollback
fails too, the journal is still open and has no record of the service that changed. The property now says that a service runs with what it ran with or with what
its file held (`RunsAsBefore`), and the run has the three installations this takes. An
attempt to prove `QuietHostSilent` failed where two names share one executable: the model let
a capture keep either process, while the code keeps the last of a sorted listing. Processes
have a place in the listing since. An attempt to prove `BruteForceReported` failed for a
threshold of 1, which the assumption of `SSHAuth` allowed: an attempt that the first state
remembers is then a burst that was never reported. `New` refuses a threshold below 2, and the
assumption now says so. It also said `MaxState >= MaxLines`, which `New` does not check; no
safety theorem needs it, and it is gone. And `SSHAuth` itself was rewritten to be reasoned about: a
scan used to apply its lines in one step, as a fold over a sequence that other folds had selected;
now the loop takes a step for each line, and which lines a read takes is a set with a
condition. What had seemed to need induction over the data became induction over steps.

Only model-checked: the liveness properties, which are beyond the prover:
`DrainsUnlessFull`, `ConnectsUnlessStranded`, `IssuerReady`, `EveryCallReturns`,
`DrainsUnlessStopped`, `RequestsAnswered`, `LinesRead`. Every invariant, action property and refinement of
a passing run is proved.

## 6 Where code and documents disagree

Each of these runs checks what a document of the repository says, and TLC finds a
behaviour of the code that does not keep it.

| Run | Document | Behaviour |
|---|---|---|
| `queue_full` (`RecoveryDrains`) | README.md:201, events are queued during an outage and uploaded after it | the enqueue loop precedes the flush, and its error ends the cycle: a full queue is never drained |
| `repeat_install` (`RepeatCompletes`) | INTEGRATION_CHECKS.md:68, repetition is idempotent | a second installation with a Gateway plans a new port, `enable --now` does not restart the running one, the health check fails |

The passing runs say how far these promises do hold (`DrainsUnlessFull`,
`RollbackRestores`). Other statements of the documents hold with exceptions, which the
properties of the passing runs name:

- README.md:697, the Agent registers and resumes. When the answer to a registration is
  lost, every retry is answered 409: `Unsaved` in `ConnectsUnlessStranded`.
- INTEGRATION_CHECKS.md:140, only monotone revisions of a policy are accepted. Two
  processes on one state directory can take it back: the exception of
  `PolicyBackOnlyInRace`.
- INTEGRATION_CHECKS.md:122, events are kept while the Agent restarts. A datagram in the
  socket counts as delivered and is lost with the socket, and one that the Agent's `Decode`
  refuses, as after the clock was set back, is passed over without a word: `EmittedAccounted`
  counts both.
- INTEGRATION_CHECKS.md:14, what is queued is uploaded. A file that a crash inside `Enqueue`
  leaves behind makes every later `Peek` fail: `DrainsUnlessFull` counts this as filling.
- INTEGRATION_CHECKS.md:70, a failed installation leaves nothing half installed. A rollback
  in which a step failed is marked `rolled_back` and cannot be run again:
  `RollbackRestores` excludes it.
- INTEGRATION_CHECKS.md:104, rotation and truncation keep the cursors safe. No line is
  skipped, but a new log shorter than the prefix remembered of the old one is reported as
  unreadable until it has grown (`Unread` in `LinesRead`), and a log that was absent for a
  scan, or empty when it was looked at, is read again from its beginning
  (`upset` in `CountedTwiceExplained`).
- INTEGRATION_CHECKS.md:104, a source that reaches the threshold raises an alert. Attempts of
  one scan have one time, so when all sources of a full state have failed in this scan
  `pruneOldestIP` may forget any of them, the one that has just failed included; its burst
  is then never seen: `forgotten` in `BruteForceReported`. And a failure whose user is 43 to 128 bytes
  that are not UTF-8 is saved in a form that `validUser` refuses, so every later scan fails with
  `ssh.auth.error`, until the state file is removed: `Loads` in `LinesRead`.
- INTEGRATION_CHECKS.md:113, gaps of coverage are reported. A process whose `status` cannot
  be read is passed over without an issue, and one that exits while it is read may be
  reported under the identity of its name: `QuietHostSilent` is about a host without
  such processes.

What no document speaks of. A file with a CR or LF in its name under a watched directory, or a
baseline that grows over its size limit, has every commit of the file integrity detector refused,
which ends each cycle behind the enqueue loop and before the flush, with the same
events queued under the same ids each time. `RefusalExplained` says that the cause is among them; before the first
baseline nothing is. The runtime detector's state is refused likewise when it exceeds 16 MiB, which 50,000
identities can (`CommitRefused`), and a path that JSON makes longer than the limit is saved
and refused by every later `loadState` (`ScanRefused`). On Debian and Ubuntu `userdel` takes the
group of the same name along: the `groupdel` that follows fails, so a rollback that has deleted everything
reports an error, and a group that was there without its user, such as an interrupted
installation leaves, goes with the user (`AccountsKept`). After an informational response the Gateway drops the
final status and the client reads 200 (`AnswerTrue`). A cycle that queues a coverage event
or a port event and then fails leaves the reader of the events with what the next scan
will not correct (`doubt` in `EventsTellPorts`). A detector's
event id does not contain the Agent, so equal reports of two hosts are one row in the
event table.

## 7 Abstractions

- **Queue.** Authenticated encryption is what a file opens to. `Peek` reads its batch in
  one step: a file it reads is either whole, and stays so until it is removed, or fails
  the call. A synced file keeps its directory entry over a power loss. A name is not
  reused while any object uses it (names carry random parts). The key is written and synced
  in one step (`OpenWriteKey`); in the code another object may read a key between the write
  (queue.go:219) and a sync that fails (224) and has it removed.
- **AgentDelivery.** A detector is a counter of changes, each on an object of its own,
  and has its first baseline. The order of events within the enqueue loop and of the
  commits is left open. A commit that is refused, as section 6 has them, is one that fails:
  it uses up a fault, so `DrainsUnlessFull` does not speak of one that is refused for ever. Enrollment, renewal and policy are one step that passes or fails.
- **SQLStore.** A heartbeat's `UPDATE` and the query that follows it when no row was
  affected are one statement each with its outcome. Foreign keys and gap locks are not
  modelled: a deadlock they cause is a statement that fails. Deadlocks involve two
  transactions. The id of a policy is left out.
- **Enrollment.** Processes crash, the machine does not lose power. A process uses the
  certificate that is on disk, where the code uses the one it loaded at the start of its
  cycle; the two differ only while another process renews it. Random ids do not collide.
  The machine id is written and synced in one step (`WriteMachineID`); in the code another
  process may read it between the write (identity.go:110) and a sync that fails and has
  the file removed (115).
- **GatewayOutbox.** Each event is emitted once, by a request of its own.
- **AgentDelivery, refusals.** An event that will be refused is a choice made when it comes
  in, and uses up a fault.
- **Gateway.** A request has at most one rule match. Steps that only concern one request
  are merged. Contents of requests, the health endpoint and the log line are left out.
- **SSHAuth.** No two logs begin alike, so a prefix stands for its hash. A line is its kind
  and its source; methods are left out, and so are users but for the garbled ones. Times are ages, which pass between scans
  only, because one scan uses one time; the clock does not go back, so the attempts of a
  source that leave the window are its first. The generation is left out, and the reasons
  `unreadable` and `unreadable_or_unsafe` are one. With the one
  log of the run, the branch of `LookPast` for lines used up by an earlier log is not taken.
- **RuntimeWatch.** A process keeps its place in the listing when it is started again. A capture is one step, and the host stands still between a scan and its
  commit, during which the code does not look at it. All processes have one user.
- **FileIntegrity.** The walk is one step, and each path has a directory of its own.
  Taking a path out of the policy reports its files as deleted, as in the code. File names
  are UTF-8: one that is not comes back from the baseline as another path, and would be
  reported as deleted and created in every cycle. A watched root is not replaced by a link.
- **Installer.** A component's file stands for its binary, unit and environment file.
  The items of a phase are handled in any order. Only the newest transaction is kept.
  `daemon-reload`, ownership and enrollment change nothing the properties speak of. An
  undo command that fails has no effect. `-upstream` and `-gateway-port`
  have their defaults.

## 8 Not modelled

- Which field of an event or a policy validation refuses, and body sizes: their outcome,
  a refused batch, is modelled.
- Evidence redaction: a pure recursive rewriting of a tree by key names, without state; a
  model would repeat the code's string matching.
- The Coraza engine, its rules, and the reverse proxy of the Go library: external.
- X.509 encoding and verification, release archives and their signatures, SQL migrations,
  the host scanner, parsing of `os-release` and of nginx configurations, flags and wiring
  of the programs: sequential code without state that outlives a call, or input and
  output only.
- The read-only queries and listing endpoints: they change nothing.

## 9 Plan

The order was that of importance: the way of an event to the control plane first, then
identity, then what feeds it, then the host. The modules of section 2 complete the models;
what is left out is left out for the reasons of section 8. The theorems of section 5 cover every
safety property of every passing run. What could follow:

1. Consequences across modules: that a change a detector has settled reaches the store, by
   `DetectorContract`, `NoChangeIsLost` and `SentEventsAreStored` together.
2. `SSHAuth` on two logs: a run that takes the branch of `LookPast` named in section 7, with
   fewer kinds of lines. The theorems hold for it already.

## 10 Running the checks

In this directory: `tlc -workers 2 -config MCQueue.cfg MCQueue` for a run (module and
configuration of each are in `PROJECT.json`), `tlapm` with a proof
module, such as `tlapm AgentDeliveryProofs.tla`, for the proofs. `InstallerProofs` and `SSHAuthProofs`
take the longest, several minutes each.
