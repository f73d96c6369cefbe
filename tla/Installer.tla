------------------------------ MODULE Installer ------------------------------
(***************************************************************************)
(* mysafe-installer install and rollback (internal/installer: apply.go,    *)
(* transaction.go, nginx.go) on one host.  An installation changes files,  *)
(* accounts, services and the configuration nginx runs with; it writes     *)
(* what it is about to change to a journal, and a failure, or the rollback *)
(* command, undoes what the journal says.                                  *)
(*                                                                         *)
(* A component's file stands for its binary, unit and environment file,    *)
(* which are installed alike.  A content is a release version and the port *)
(* it makes the Gateway listen on, or nginx forward to; 0 is the           *)
(* application itself.  The backup of a file is kept in its change.        *)
(* Files, services and accounts of a phase are handled in any order: the   *)
(* steps for different ones do not depend on each other.  Only the newest  *)
(* transaction is kept, as loadLatestTransaction reads no other.           *)
(***************************************************************************)
EXTENDS Integers, FiniteSets

CONSTANTS
    MaxVersion,      \* bound: releases are numbered 1..MaxVersion
    MaxPort,         \* the ports 18081..18180, numbered 1..MaxPort
    AllowDowngrade,  \* -allow-downgrade
    UserGroups,      \* USERGROUPS_ENAB of the host; TRUE on Debian and Ubuntu
    MaxInstalls,     \* bound: how often the installer is run to install
    MaxFaults,       \* bound: failing commands and file operations, crashes
    None             \* no file, no process, no record, no plan

ASSUME InstallerAssumption ==
    /\ MaxVersion \in Nat \ {0} /\ MaxPort \in Nat \ {0}
    /\ AllowDowngrade \in BOOLEAN /\ UserGroups \in BOOLEAN
    /\ MaxInstalls \in Nat /\ MaxFaults \in Nat

Components == {"agent", "gateway"}
Files == Components \cup {"release", "nginx"}
Content == [version : 0..MaxVersion, listen : 0..MaxPort]

VARIABLES
    fs,         \* fs[f]: the content of a file, or None
    live,       \* the configuration nginx runs with
    enabled,    \* the services that are enabled
    running,    \* running[c]: the content a service was started with, or None
    groups, users,
    journal,    \* the newest transaction record on disk, or None
    mem,        \* the record in the installer's memory, or None
    plan,       \* the plan of the installation
    phase,      \* where the installer is
    left,       \* what the phase has not handled yet
    item,       \* the file or account being handled
    failed,     \* history: an undo step failed, or a service's state was lost
    before,     \* history: the host when the newest transaction began
    made,       \* history: the users that useradd has made since then
    installs, faults

host == <<fs, live, enabled, running, groups, users>>
control == <<phase, left, item>>
vars == <<host, journal, mem, plan, control, failed, before, made, installs, faults>>

Host == [fs |-> fs, live |-> live, enabled |-> enabled, running |-> running, users |-> users, groups |-> groups]

ChangeRecord == [path : Files, old : Content \cup {None}]
ServiceChange == [name : Components, wasEnabled : BOOLEAN, wasActive : BOOLEAN]
TransactionRecord ==
    [status : {"applying", "complete", "rolled_back"}, changes : SUBSET ChangeRecord,
     users : SUBSET Components, groups : SUBSET Components,
     services : SUBSET ServiceChange, nginx : BOOLEAN]
Plan == [version : 1..MaxVersion, components : SUBSET Components, listen : 0..MaxPort]

ASSUME NoneAssumption ==
    None \notin Content /\ None \notin TransactionRecord /\ None \notin Plan

(* The phases of an installation and of its undoing, in their order. *)
Succ == [services |-> "accounts", accounts |-> "files", files |-> "start",
         start |-> "health", health |-> "nginx", nginx |-> "commit",
         stop |-> "restore", restore |-> "undo_nginx", undo_nginx |-> "enable",
         enable |-> "restart", restart |-> "userdel", userdel |-> "groupdel",
         groupdel |-> "mark"]
UndoCommands == {"stop", "undo_nginx", "enable", "restart", "userdel", "groupdel"}
UndoPhases == UndoCommands \cup {"restore", "mark"}
Phases == {"idle", "record_group", "user", "record_user", "write", "nginx_file",
           "reload", "commit"} \cup DOMAIN Succ \cup UndoPhases

(* The type of the state: in particular the Gateway's port is one of the    *)
(* range the installer may use, and 0 only when there is no Gateway.       *)
TypeOK ==
    /\ fs \in [Files -> Content \cup {None}]
    /\ live \in Content
    /\ enabled \in SUBSET Components
    /\ running \in [Components -> Content \cup {None}]
    /\ groups \in SUBSET Components /\ users \in SUBSET Components
    /\ journal \in TransactionRecord \cup {None}
    /\ mem \in TransactionRecord \cup {None}
    /\ plan \in Plan \cup {None}
    /\ plan # None => ("gateway" \in plan.components <=> plan.listen > 0)
    /\ phase \in Phases
    /\ left \in SUBSET (Files \cup {"journal"})
    /\ item \in Files \cup {None}
    /\ failed \in BOOLEAN /\ made \in SUBSET Components
    /\ installs \in 0..MaxInstalls /\ faults \in 0..MaxFaults

(* A host that was never installed on, with nginx in front of one          *)
(* application.                                                            *)
Init ==
    /\ fs = [f \in Files |-> IF f = "nginx" THEN [version |-> 0, listen |-> 0] ELSE None]
    /\ live = [version |-> 0, listen |-> 0]
    /\ enabled = {} /\ running = [c \in Components |-> None]
    /\ groups = {} /\ users = {}
    /\ journal = None /\ mem = None /\ plan = None
    /\ phase = "idle" /\ left = {} /\ item = None
    /\ failed = FALSE
    /\ before = Host /\ made = {}
    /\ installs = 0 /\ faults = 0

----------------------------------------------------------------------------
Names(services) == {s.name : s \in services}

(* What a phase has to handle, by the plan and by the record to undo. *)
Items(p, record) ==
    CASE p \in {"services", "accounts", "start"} -> plan.components
      [] p = "files" -> plan.components \cup {"release"}
      [] p = "health" -> plan.components \cap {"gateway"}
      [] p = "nginx" -> IF "gateway" \in plan.components THEN {"nginx"} ELSE {}
      [] p = "stop" -> Names(record.services)
      [] p = "restore" -> {c.path : c \in record.changes}
      [] p = "undo_nginx" -> IF record.nginx THEN {"nginx"} ELSE {}
      [] p = "enable" -> Names({s \in record.services : s.wasEnabled})
      [] p = "restart" -> Names({s \in record.services : s.wasActive})
      [] p = "userdel" -> record.users
      [] p = "groupdel" -> record.groups
      [] p \in {"commit", "mark"} -> {"journal"}

(* What the plan makes the content of a file. *)
NewContent(f) ==
    [version |-> IF f = "nginx" THEN 0 ELSE plan.version,
     listen |-> IF f \in {"gateway", "nginx"} THEN plan.listen ELSE 0]

Fault == faults < MaxFaults /\ faults' = faults + 1

Goto(p, rest) == phase' = p /\ left' = rest

(* Apply's fail: the record in memory is undone. *)
Undo(record) == Goto("stop", Items("stop", record)) /\ mem' = record

(* transaction.persist: on an error the memory is ahead of the journal. *)
Persist(record, p, rest) ==
    \/ /\ mem' = record /\ journal' = record
       /\ Goto(p, rest)
       /\ UNCHANGED faults
    \/ /\ Fault
       /\ Undo(record)
       /\ UNCHANGED journal

Advance ==
    /\ phase \in DOMAIN Succ /\ left = {}
    /\ Goto(Succ[phase], Items(Succ[phase], mem))
    /\ UNCHANGED <<host, journal, mem, plan, item, failed, before, made, installs, faults>>

----------------------------------------------------------------------------
firstFreePort(used) ==
    IF 1..MaxPort \subseteq used THEN 0
    ELSE CHOOSE p \in 1..MaxPort \ used : \A q \in 1..MaxPort \ used : p <= q

(* BuildPlan with the default options: the one proxy_pass of nginx is the   *)
(* upstream, its port and those that are listened on are taken.  Without a *)
(* free port the Gateway is left out.                                      *)
BuildPlan(v, gateway) ==
    LET used == {fs["nginx"].listen} \cup {running[c].listen : c \in {d \in Components : running[d] # None}}
        port == IF gateway THEN firstFreePort(used) ELSE 0
    IN  [version |-> v, listen |-> port, components |-> {"agent"} \cup (IF port > 0 THEN {"gateway"} ELSE {})]

(* Apply up to beginTransaction: the release is verified, an older release *)
(* than the installed one is refused.                                      *)
Apply(v, gateway) ==
    /\ phase = "idle" /\ installs < MaxInstalls
    /\ fs["release"] # None => v >= fs["release"].version \/ AllowDowngrade
    /\ plan' = BuildPlan(v, gateway)
    /\ mem' = [status |-> "applying", changes |-> {}, users |-> {}, groups |-> {}, services |-> {}, nginx |-> FALSE]
    /\ journal' = mem'
    /\ Goto("services", plan'.components)
    /\ before' = Host /\ made' = {}
    /\ installs' = installs + 1
    /\ UNCHANGED <<host, item, failed, faults>>

(* captureService and RecordService.  A query that fails is taken as "no". *)
RecordService(c) ==
    /\ phase = "services" /\ c \in left
    /\ Persist([mem EXCEPT !.services = @ \cup
                   {[name |-> c, wasEnabled |-> c \in enabled, wasActive |-> running[c] # None]}],
               "services", left \ {c})
    /\ UNCHANGED <<host, plan, item, failed, before, made, installs>>

CaptureFails(c) ==
    /\ phase = "services" /\ c \in left
    /\ Fault
    /\ mem' = [mem EXCEPT !.services = @ \cup {[name |-> c, wasEnabled |-> FALSE, wasActive |-> FALSE]}]
    /\ journal' = mem'
    /\ Goto("services", left \ {c})
    /\ failed' = TRUE
    /\ UNCHANGED <<host, plan, item, before, made, installs>>

(* Mutant: an account is recorded as created whether or not it existed. *)
EnsureGroup_RecordsAll(a) ==
    /\ phase = "accounts" /\ a \in left
    /\ item' = a
    /\ Goto("record_group", left)
    /\ groups' = groups \cup {a}
    /\ UNCHANGED <<fs, live, enabled, running, users, journal, mem, plan, failed, before, made, installs, faults>>

(* ensureAccount: getent group, groupadd. *)
EnsureGroup(a) ==
    /\ phase = "accounts" /\ a \in left
    /\ item' = a
    /\ Goto(IF a \in groups THEN "user" ELSE "record_group", left)
    /\ groups' = groups \cup {a}
    /\ UNCHANGED <<fs, live, enabled, running, users, journal, mem, plan, failed, before, made, installs, faults>>

RecordCreatedGroup ==
    /\ phase = "record_group"
    /\ Persist([mem EXCEPT !.groups = @ \cup {item}], "user", left)
    /\ UNCHANGED <<host, plan, item, failed, before, made, installs>>

(* ensureAccount: id, useradd. *)
EnsureUser ==
    /\ phase = "user"
    /\ IF item \in users THEN Goto("accounts", left \ {item}) ELSE Goto("record_user", left)
    /\ users' = users \cup {item} /\ made' = made \cup (users' \ users)
    /\ UNCHANGED <<fs, live, enabled, running, groups, journal, mem, plan, item, failed, before, installs, faults>>

RecordCreatedUser ==
    /\ phase = "record_user"
    /\ Persist([mem EXCEPT !.users = @ \cup {item}], "accounts", left \ {item})
    /\ UNCHANGED <<host, plan, item, failed, before, made, installs>>

(* Mutant: the file is replaced before the change is in the journal. *)
InstallBytes_WriteFirst(f) ==
    /\ phase \in {"files", "nginx_file"} /\ f \in left
    /\ fs' = [fs EXCEPT ![f] = NewContent(f)]
    /\ item' = f
    /\ Goto("write", left)
    /\ UNCHANGED <<live, enabled, running, groups, users, journal, mem, plan, failed, before, made, installs, faults>>

(* InstallBytes: the old file is copied, the change is recorded, and only  *)
(* then is the file replaced.                                              *)
InstallBytes(f) ==
    /\ phase \in {"files", "nginx_file"} /\ f \in left
    /\ Persist([mem EXCEPT !.changes = @ \cup {[path |-> f, old |-> fs[f]]}], "write", left)
    /\ item' = f
    /\ UNCHANGED <<host, plan, failed, before, made, installs>>

InstallWrite ==
    /\ phase = "write"
    /\ fs' = [fs EXCEPT ![item] = NewContent(item)]
    /\ Goto(IF item = "nginx" THEN "reload" ELSE "files", left \ {item})
    /\ UNCHANGED <<live, enabled, running, groups, users, journal, mem, plan, item, failed, before, made, installs, faults>>

(* systemctl enable --now: a service that runs is not restarted. *)
Enabled(c) == enabled' = enabled \cup {c} /\ running' = [running EXCEPT ![c] = IF @ = None THEN fs[c] ELSE @]

StartService(c) ==
    /\ phase = "start" /\ c \in left
    /\ Enabled(c)
    /\ Goto("start", left \ {c})
    /\ UNCHANGED <<fs, live, groups, users, journal, mem, plan, item, failed, before, made, installs, faults>>

(* waitForGateway: something answers on the planned port, or 15 s pass. *)
WaitForGateway ==
    /\ phase = "health" /\ left # {}
    /\ IF running["gateway"].listen = plan.listen
       THEN Goto("health", {}) /\ UNCHANGED mem
       ELSE Undo(mem)
    /\ UNCHANGED <<host, journal, plan, item, failed, before, made, installs, faults>>

RecordNginxChange ==
    /\ phase = "nginx" /\ left # {}
    /\ Persist([mem EXCEPT !.nginx = TRUE], "nginx_file", left)
    /\ UNCHANGED <<host, plan, item, failed, before, made, installs>>

(* nginx -t and systemctl reload nginx.service. *)
ReloadNginx ==
    /\ phase = "reload"
    /\ live' = fs["nginx"]
    /\ Goto("commit", {"journal"})
    /\ UNCHANGED <<fs, enabled, running, groups, users, journal, mem, plan, item, failed, before, made, installs, faults>>

Commit ==
    /\ phase = "commit"
    /\ LET done == [mem EXCEPT !.status = "complete"]
       IN  \/ journal' = done /\ mem' = None /\ Goto("idle", {}) /\ UNCHANGED faults
           \/ Fault /\ Undo(done) /\ UNCHANGED journal
    /\ UNCHANGED <<host, plan, item, failed, before, made, installs>>

(* A file operation of the installation fails. *)
FileFails ==
    /\ phase \in {"files", "write", "nginx", "nginx_file"} /\ left # {}
    /\ Fault
    /\ Undo(mem)
    /\ UNCHANGED <<host, journal, plan, item, failed, before, made, installs>>

(* What a command that fails may have done before it failed. *)
PartialEffect ==
    \/ phase = "accounts" /\ (\E a \in left : groups' = groups \cup {a}) /\ UNCHANGED <<live, enabled, running, users>>
    \/ phase = "user" /\ users' = users \cup {item} /\ UNCHANGED <<live, enabled, running, groups>>
    \/ phase = "start" /\ (\E c \in left : Enabled(c)) /\ UNCHANGED <<live, groups, users>>
    \/ phase = "reload" /\ live' = fs["nginx"] /\ UNCHANGED <<enabled, running, groups, users>>

(* A command of the installation fails: groupadd, useradd, chown,          *)
(* daemon-reload, the Agent's registration, enable --now, the health       *)
(* check, nginx -t, the reload of nginx.                                   *)
ApplyFails ==
    /\ phase \in {"accounts", "user", "start", "health", "reload"} /\ (phase = "reload" \/ left # {})
    /\ \/ PartialEffect
       \/ UNCHANGED <<live, enabled, running, groups, users>>
    /\ made' = made \cup (users' \ users)
    /\ Fault
    /\ Undo(mem)
    /\ UNCHANGED <<fs, journal, plan, item, failed, before, installs>>

----------------------------------------------------------------------------
(* mysafe-installer rollback. *)
RollbackLatest ==
    /\ phase = "idle" /\ journal # None
    /\ journal.status \in {"complete", "applying"}
    /\ Undo(journal)
    /\ UNCHANGED <<host, journal, plan, item, failed, before, made, installs, faults>>

(* A step of the undoing that does not fail; none of them stops the rest. *)
Undone(p, x) ==
    /\ phase = p /\ x \in left
    /\ left' = left \ {x}
    /\ UNCHANGED <<phase, journal, mem, plan, item, failed, before, made, installs>>

(* Mutant: a service keeps running while its files are restored. *)
StopService_KeepsRunning(c) ==
    /\ Undone("stop", c)
    /\ IF fs[c] = None THEN UNCHANGED enabled
       ELSE enabled' = enabled \ {c}
    /\ UNCHANGED <<fs, live, running, groups, users, faults>>

(* systemctl disable --now, which does nothing without a unit file. *)
StopService(c) ==
    /\ Undone("stop", c)
    /\ IF fs[c] = None THEN UNCHANGED <<enabled, running>>
       ELSE enabled' = enabled \ {c} /\ running' = [running EXCEPT ![c] = None]
    /\ UNCHANGED <<fs, live, groups, users, faults>>

(* rollbackChanges: the backup is put back, a new file is removed. *)
RestoreFile(f) ==
    /\ Undone("restore", f)
    /\ \E c \in mem.changes : c.path = f /\ fs' = [fs EXCEPT ![f] = c.old]
    /\ UNCHANGED <<live, enabled, running, groups, users, faults>>

UndoNginx ==
    /\ Undone("undo_nginx", "nginx")
    /\ live' = fs["nginx"]
    /\ UNCHANGED <<fs, enabled, running, groups, users, faults>>

EnableService(c) ==
    /\ Undone("enable", c)
    /\ enabled' = IF fs[c] = None THEN enabled ELSE enabled \cup {c}
    /\ UNCHANGED <<fs, live, running, groups, users, faults>>

RestartService(c) ==
    /\ Undone("restart", c)
    /\ running' = [running EXCEPT ![c] = IF @ = None THEN fs[c] ELSE @]
    /\ UNCHANGED <<fs, live, enabled, groups, users, faults>>

(* userdel, which takes the group of the same name along where the host is *)
(* configured so; it fails for a user that an earlier undoing has deleted. *)
UserDel(a) ==
    /\ Undone("userdel", a)
    /\ users' = users \ {a}
    /\ groups' = IF UserGroups /\ a \in users THEN groups \ {a} ELSE groups
    /\ UNCHANGED <<fs, live, enabled, running, faults>>

(* groupdel refuses the primary group of a user, and fails for a group     *)
(* that userdel took along.                                                *)
GroupDel(a) ==
    /\ Undone("groupdel", a)
    /\ groups' = IF a \in users THEN groups ELSE groups \ {a}
    /\ UNCHANGED <<fs, live, enabled, running, users, faults>>

(* A command, or the restoring of a file, fails: the undoing goes on. *)
UndoFails ==
    /\ phase \in UndoCommands \cup {"restore"}
    /\ \E x \in left : left' = left \ {x}
    /\ Fault
    /\ failed' = TRUE
    /\ UNCHANGED <<host, journal, mem, plan, phase, item, before, made, installs>>

(* The record is marked as rolled back whatever failed before. *)
MarkRolledBack ==
    /\ phase = "mark"
    /\ \/ journal' = [mem EXCEPT !.status = "rolled_back"] /\ UNCHANGED faults
       \/ Fault /\ UNCHANGED journal
    /\ mem' = None
    /\ Goto("idle", {})
    /\ UNCHANGED <<host, plan, item, failed, before, made, installs>>

(* The installer is killed.  What only its memory held is lost; for a      *)
(* service that is the state to restore.                                   *)
Crash ==
    /\ phase # "idle"
    /\ Fault
    /\ failed' = (failed \/ mem.services # journal.services)
    /\ mem' = None
    /\ Goto("idle", {})
    /\ UNCHANGED <<host, journal, plan, item, before, made, installs>>

ApplyStep ==
    \/ \E c \in Components : RecordService(c) \/ CaptureFails(c) \/ EnsureGroup(c) \/ StartService(c)
    \/ RecordCreatedGroup \/ EnsureUser \/ RecordCreatedUser
    \/ \E f \in Files : InstallBytes(f)
    \/ InstallWrite \/ WaitForGateway \/ RecordNginxChange \/ ReloadNginx \/ Commit
    \/ FileFails \/ ApplyFails

UndoStep ==
    \/ \E c \in Components : StopService(c) \/ EnableService(c) \/ RestartService(c) \/ UserDel(c) \/ GroupDel(c)
    \/ \E f \in Files : RestoreFile(f)
    \/ UndoNginx \/ UndoFails \/ MarkRolledBack

(* Nobody has to run the installer. *)
Idle == phase = "idle" /\ UNCHANGED vars

Next ==
    \/ Idle
    \/ \E v \in 1..MaxVersion, gateway \in BOOLEAN : Apply(v, gateway)
    \/ RollbackLatest \/ Advance \/ Crash
    \/ ApplyStep \/ UndoStep

Spec == Init /\ [][Next]_vars

----------------------------------------------------------------------------
(* A service runs as it did before, or was restarted since with the        *)
(* content its file had: a process may be older than its file.             *)
RunsAsBefore(c) ==
    running[c] \in IF before.running[c] = None THEN {None}
                   ELSE {before.running[c], before.fs[c]}

(* At any moment of an installation, and so after a crash at any moment,   *)
(* the journal on disk says how to undo every difference between the host  *)
(* and the host before: the old content of every file, the old state of    *)
(* every service, and that nginx, which runs neither its old configuration *)
(* nor the one that was on disk, is to be reloaded.                        *)
JournalCoversHost ==
    journal # None /\ journal.status # "rolled_back" /\ phase \notin UndoPhases /\ ~failed =>
        /\ \A f \in Files : fs[f] # before.fs[f] => [path |-> f, old |-> before.fs[f]] \in journal.changes
        /\ \A c \in Components :
              (c \in enabled) # (c \in before.enabled) \/ ~RunsAsBefore(c) =>
                 [name |-> c, wasEnabled |-> c \in before.enabled, wasActive |-> before.running[c] # None] \in journal.services
        /\ live \notin {before.live, before.fs["nginx"]} => journal.nginx

(* The host is as it was: its files, what is enabled, what runs and with   *)
(* which content, and what nginx runs with, up to a reload.                *)
Restored ==
    /\ fs = before.fs /\ enabled = before.enabled
    /\ live \in {before.live, fs["nginx"]}
    /\ \A c \in Components : RunsAsBefore(c)

(* A transaction that is marked as rolled back has been undone completely, *)
(* wherever the installation failed and however often the installer was    *)
(* killed on the way, unless a step of the undoing itself failed: then it  *)
(* is marked all the same, and RollbackLatest refuses to try again.        *)
RollbackRestores ==
    phase = "idle" /\ journal # None /\ journal.status = "rolled_back" /\ ~failed => Restored

(* No rollback removes a user that was there before, nor a group that was  *)
(* there before, but for one: where userdel takes the group of the same    *)
(* name along, a group without a user, such as a crash between groupadd    *)
(* and its record leaves, goes with the user that the installation made    *)
(* for it. Nothing but that userdel takes it.                              *)
AccountsKept ==
    /\ before.users \subseteq users
    /\ \A g \in before.groups \ groups : UserGroups /\ g \in made

(* INTEGRATION_CHECKS.md: running the installer again is idempotent.  So   *)
(* with nothing failing, an installation is undone only on request.        *)
RepeatCompletes ==
    faults = 0 /\ phase \in UndoPhases => journal.status = "complete"
=============================================================================
