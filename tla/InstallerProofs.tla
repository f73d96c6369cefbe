--------------------------- MODULE InstallerProofs ---------------------------
(***************************************************************************)
(* What holds of an installation and its undoing for every number of       *)
(* releases, ports, installations and faults: the type invariant, that no  *)
(* account of the host is removed, but for a group that userdel takes      *)
(* along (AccountsKept), that the journal says how to undo every           *)
(* difference (JournalCoversHost) and that what is marked as rolled back   *)
(* is undone (RollbackRestores).                                           *)
(***************************************************************************)
EXTENDS Installer, WellFoundedInduction, TLAPS

AccountPhases == {"record_group", "user", "record_user"}
Preparing == {"services", "accounts"} \cup AccountPhases
ApplyPhases ==
    {"services", "accounts", "files", "write", "start", "health", "nginx", "nginx_file",
     "reload", "commit"} \cup AccountPhases

Paths(changes) == {c.path : c \in changes}

(* The change and the service record that say how the host was before. *)
FileRecord(f) == [path |-> f, old |-> before.fs[f]]
ServiceRecord(c) ==
    [name |-> c, wasEnabled |-> c \in before.enabled, wasActive |-> before.running[c] # None]

HostType ==
    [fs : [Files -> Content \cup {None}], live : Content, enabled : SUBSET Components,
     running : [Components -> Content \cup {None}], users : SUBSET Components,
     groups : SUBSET Components]

(* nginx always has a configuration, in the host before as well. *)
HostInv ==
    /\ before \in HostType
    /\ fs["nginx"] # None /\ before.fs["nginx"] # None

(* The record in memory and the one on disk.  While the installation runs  *)
(* they agree; what is undone is at least what the disk says.              *)
RecordInv ==
    /\ phase # "idle" => mem # None /\ journal # None
    /\ phase \in ApplyPhases => mem = journal /\ plan # None
    /\ phase \in UndoPhases =>
          /\ journal.changes \subseteq mem.changes
          /\ journal.services \subseteq mem.services
          /\ journal.nginx => mem.nginx

(* What a phase has left is what its plan or its record gave it. *)
LeftInv ==
    /\ phase \in {"services", "accounts", "start"} \cup AccountPhases => left \subseteq plan.components
    /\ phase \in AccountPhases => item \in left
    /\ phase = "files" => left \subseteq plan.components \cup {"release"}
    /\ phase = "write" =>
          /\ item \in left
          /\ IF item = "nginx" THEN left = {"nginx"} ELSE left \subseteq plan.components \cup {"release"}
    /\ phase \in {"nginx", "nginx_file", "undo_nginx"} => left \subseteq {"nginx"}
    /\ phase = "stop" => left \subseteq Names(mem.services)
    /\ phase = "restore" => left \subseteq Paths(mem.changes)
    /\ phase = "enable" => left \subseteq Names({s \in mem.services : s.wasEnabled})
    /\ phase = "restart" => left \subseteq Names({s \in mem.services : s.wasActive})
    /\ phase = "userdel" => left \subseteq mem.users
    /\ phase = "groupdel" => left \subseteq mem.groups

TypeInv == TypeOK /\ HostInv /\ RecordInv /\ LeftInv

(* An account that is recorded as created was not there before, and a user *)
(* is one that useradd made.                                               *)
NewAccounts(r) ==
    r.users \subseteq made \ before.users /\ r.groups \cap before.groups = {}
AccountInv ==
    /\ AccountsKept
    /\ mem # None => NewAccounts(mem)
    /\ journal # None => NewAccounts(journal)
    /\ phase \in Preparing => before.groups \subseteq groups
    /\ phase = "record_group" => item \notin before.groups
    /\ phase = "record_user" => item \in made \ before.users

(* A recorded change has the content from before; a file is replaced after *)
(* its record is on disk, and recorded before it is replaced.              *)
FileInv ==
    /\ \A r \in {mem, journal} \ {None} : \A c \in r.changes : c = FileRecord(c.path)
    /\ journal # None => \A f \in Files : fs[f] # before.fs[f] => FileRecord(f) \in journal.changes
    /\ phase \in {"services", "accounts"} \cup AccountPhases => fs = before.fs
    /\ phase \in {"files", "write"} => \A f \in left : fs[f] = before.fs[f]
    /\ phase \in {"files", "start", "health", "nginx", "nginx_file"} => fs["nginx"] = before.fs["nginx"]
    /\ phase = "write" =>
          FileRecord(item) \in journal.changes /\ (item # "nginx" => fs["nginx"] = before.fs["nginx"])
    /\ phase \in {"undo_nginx", "enable", "restart", "userdel", "groupdel", "mark"} /\ ~failed =>
          fs = before.fs
    /\ phase = "restore" /\ ~failed => \A f \in Files \ left : fs[f] = before.fs[f]

(* nginx is reloaded when the record says so. *)
NginxInv ==
    /\ journal # None /\ live \notin {before.live, before.fs["nginx"]} /\ ~failed => journal.nginx
    /\ phase \in {"nginx_file", "reload"} => journal.nginx
    /\ phase = "write" /\ item = "nginx" => journal.nginx
    /\ phase \in {"enable", "restart", "userdel", "groupdel", "mark"} /\ ~failed =>
          live \in {before.live, before.fs["nginx"]}
    /\ phase = "undo_nginx" /\ ~failed => "nginx" \in left \/ live \in {before.live, before.fs["nginx"]}

(* A service whose unit file is gone is neither enabled nor running; a     *)
(* record of a change of a component comes with one of its service.        *)
UnitInv ==
    /\ \A c \in Components : fs[c] = None => c \notin enabled /\ running[c] = None
    /\ \A c \in Components : before.fs[c] = None => c \notin before.enabled /\ before.running[c] = None
    /\ \A r \in {mem, journal} \ {None} :
          /\ \A s \in r.services : s = ServiceRecord(s.name)
          /\ Paths(r.changes) \cap Components \subseteq Names(r.services)
    /\ phase = "services" =>
          /\ plan.components \subseteq left \cup Names(mem.services)
          /\ enabled = before.enabled /\ running = before.running
    /\ phase \in ApplyPhases \ {"services"} => plan.components \subseteq Names(mem.services)
    /\ phase = "files" => \A c \in plan.components \ left : fs[c] # None
    /\ phase = "write" /\ item # "nginx" => \A c \in plan.components \ left : fs[c] # None
    /\ phase = "start" => \A c \in plan.components : fs[c] # None

AsBefore(c) == (c \in enabled <=> c \in before.enabled) /\ RunsAsBefore(c)
Stopped(c) == c \notin enabled /\ running[c] = None

(* Where the undoing is with a service that is in its record. *)
UndoneInv(c) ==
    /\ phase = "stop" => c \in left \/ Stopped(c)
    /\ phase \in {"restore", "undo_nginx"} => Stopped(c)
    /\ phase = "enable" => running[c] = None /\ (c \in enabled <=> c \in before.enabled /\ c \notin left)
    /\ phase = "restart" =>
          /\ c \in enabled <=> c \in before.enabled
          /\ running[c] = None \/ RunsAsBefore(c)
          /\ c \in left \/ RunsAsBefore(c)
    /\ phase \in {"userdel", "groupdel", "mark"} => AsBefore(c)

(* The record r says how to undo every difference in a service. *)
Covered(r) == \A c \in Components : AsBefore(c) \/ ServiceRecord(c) \in r.services

ServiceInv ==
    /\ journal # None /\ phase \notin UndoPhases => Covered(journal)
    /\ phase \in UndoPhases => Covered(mem) /\ \A c \in Names(mem.services) : UndoneInv(c)

MarkedInv ==
    journal # None /\ journal.status = "rolled_back" => phase = "idle" /\ (~failed => Restored)

InstallerInv ==
    /\ TypeInv /\ AccountInv /\ FileInv /\ NginxInv
    /\ ~failed => UnitInv /\ ServiceInv
    /\ MarkedInv

----------------------------------------------------------------------------
(* Advance, phase by phase. *)
LEMMA AdvanceCases ==
    ASSUME Advance
    PROVE  \/ phase = "services" /\ phase' = "accounts" /\ left' = plan.components
           \/ phase = "accounts" /\ phase' = "files" /\ left' = plan.components \cup {"release"}
           \/ phase = "files" /\ phase' = "start" /\ left' = plan.components
           \/ phase = "start" /\ phase' = "health" /\ left' = plan.components \cap {"gateway"}
           \/ /\ phase = "health" /\ phase' = "nginx"
              /\ left' = IF "gateway" \in plan.components THEN {"nginx"} ELSE {}
           \/ phase = "nginx" /\ phase' = "commit" /\ left' = {"journal"}
           \/ phase = "stop" /\ phase' = "restore" /\ left' = Paths(mem.changes)
           \/ /\ phase = "restore" /\ phase' = "undo_nginx"
              /\ left' = IF mem.nginx THEN {"nginx"} ELSE {}
           \/ /\ phase = "undo_nginx" /\ phase' = "enable"
              /\ left' = Names({s \in mem.services : s.wasEnabled})
           \/ /\ phase = "enable" /\ phase' = "restart"
              /\ left' = Names({s \in mem.services : s.wasActive})
           \/ phase = "restart" /\ phase' = "userdel" /\ left' = mem.users
           \/ phase = "userdel" /\ phase' = "groupdel" /\ left' = mem.groups
           \/ phase = "groupdel" /\ phase' = "mark" /\ left' = {"journal"}
<1>1. phase \in DOMAIN Succ /\ phase' = Succ[phase] /\ left' = Items(Succ[phase], mem)
  BY DEF Advance, Goto
<1>2. DOMAIN Succ = {"services", "accounts", "files", "start", "health", "nginx", "stop",
                     "restore", "undo_nginx", "enable", "restart", "userdel", "groupdel"}
  BY DEF Succ
<1>3. CASE phase \in {"services", "accounts", "files", "start", "health", "nginx"}
  BY <1>1, <1>3 DEF Succ, Items
<1>4. CASE phase \in {"stop", "restore", "undo_nginx", "enable"}
  BY <1>1, <1>4 DEF Succ, Items, Paths
<1>5. CASE phase \in {"restart", "userdel", "groupdel"}
  BY <1>1, <1>5 DEF Succ, Items
<1> QED BY <1>1, <1>2, <1>3, <1>4, <1>5

(* A record of a transaction, its fields and its updates. *)
LEMMA RecordFields ==
    ASSUME NEW r \in TransactionRecord
    PROVE  /\ r.status \in {"applying", "complete", "rolled_back"} /\ r.changes \subseteq ChangeRecord
           /\ r.users \subseteq Components /\ r.groups \subseteq Components
           /\ r.services \subseteq ServiceChange /\ r.nginx \in BOOLEAN /\ r # None
           /\ Names(r.services) \subseteq Components /\ Paths(r.changes) \subseteq Files
<1>1. /\ r.status \in {"applying", "complete", "rolled_back"} /\ r.changes \subseteq ChangeRecord
      /\ r.users \subseteq Components /\ r.groups \subseteq Components
      /\ r.services \subseteq ServiceChange /\ r.nginx \in BOOLEAN
  BY Zenon DEF TransactionRecord
<1>2. r # None
  BY NoneAssumption
<1>3. Names(r.services) \subseteq Components /\ Paths(r.changes) \subseteq Files
  BY <1>1 DEF Names, Paths, ServiceChange, ChangeRecord
<1> QED BY <1>1, <1>2, <1>3

(* Two records agree in the fields that are not in F. *)
SameBut(q, r, F) ==
    /\ "status" \in F \/ q.status = r.status
    /\ "changes" \in F \/ q.changes = r.changes
    /\ "users" \in F \/ q.users = r.users
    /\ "groups" \in F \/ q.groups = r.groups
    /\ "services" \in F \/ q.services = r.services
    /\ "nginx" \in F \/ q.nginx = r.nginx

LEMMA RecordUpdates ==
    ASSUME NEW r \in TransactionRecord
    PROVE  /\ \A s \in ServiceChange : \A q : q = [r EXCEPT !.services = @ \cup {s}] =>
                 /\ q \in TransactionRecord /\ q.services = r.services \cup {s}
                 /\ SameBut(q, r, {"services"})
           /\ \A a \in Components : \A q : q = [r EXCEPT !.groups = @ \cup {a}] =>
                 /\ q \in TransactionRecord /\ q.groups = r.groups \cup {a}
                 /\ SameBut(q, r, {"groups"})
           /\ \A a \in Components : \A q : q = [r EXCEPT !.users = @ \cup {a}] =>
                 /\ q \in TransactionRecord /\ q.users = r.users \cup {a}
                 /\ SameBut(q, r, {"users"})
           /\ \A c \in ChangeRecord : \A q : q = [r EXCEPT !.changes = @ \cup {c}] =>
                 /\ q \in TransactionRecord /\ q.changes = r.changes \cup {c}
                 /\ SameBut(q, r, {"changes"})
           /\ \A q : q = [r EXCEPT !.nginx = TRUE] =>
                 /\ q \in TransactionRecord /\ q.nginx = TRUE /\ SameBut(q, r, {"nginx"})
           /\ \A t \in {"complete", "rolled_back"} : \A q : q = [r EXCEPT !.status = t] =>
                 /\ q \in TransactionRecord /\ q.status = t /\ SameBut(q, r, {"status"})
<1> USE DEF TransactionRecord, SameBut
<1>1. ASSUME NEW s \in ServiceChange, NEW q, q = [r EXCEPT !.services = @ \cup {s}]
      PROVE  /\ q \in TransactionRecord /\ q.services = r.services \cup {s}
             /\ SameBut(q, r, {"services"})
  BY <1>1
<1>2. ASSUME NEW a \in Components, NEW q, q = [r EXCEPT !.groups = @ \cup {a}]
      PROVE  q \in TransactionRecord /\ q.groups = r.groups \cup {a} /\ SameBut(q, r, {"groups"})
  BY <1>2
<1>3. ASSUME NEW a \in Components, NEW q, q = [r EXCEPT !.users = @ \cup {a}]
      PROVE  q \in TransactionRecord /\ q.users = r.users \cup {a} /\ SameBut(q, r, {"users"})
  BY <1>3
<1>4. ASSUME NEW c \in ChangeRecord, NEW q, q = [r EXCEPT !.changes = @ \cup {c}]
      PROVE  /\ q \in TransactionRecord /\ q.changes = r.changes \cup {c}
             /\ SameBut(q, r, {"changes"})
  BY <1>4
<1>5. ASSUME NEW q, q = [r EXCEPT !.nginx = TRUE]
      PROVE  q \in TransactionRecord /\ q.nginx = TRUE /\ SameBut(q, r, {"nginx"})
  BY <1>5
<1>6. ASSUME NEW t \in {"complete", "rolled_back"}, NEW q, q = [r EXCEPT !.status = t]
      PROVE  q \in TransactionRecord /\ q.status = t /\ SameBut(q, r, {"status"})
  BY <1>6
<1> HIDE DEF TransactionRecord, SameBut
<1> QED BY <1>1, <1>2, <1>3, <1>4, <1>5, <1>6

LEMMA LeastNatural ==
    ASSUME NEW S \in SUBSET Nat, S # {}
    PROVE  \E x \in S : \A y \in S : x <= y
<1>1. \E x \in S : \A y \in S : ~ (<<y, x>> \in OpToRel(<, Nat))
  BY NatLessThanWellFounded, WFMin
<1>2. PICK x \in S : \A y \in S : ~ (<<y, x>> \in OpToRel(<, Nat))
  BY <1>1
<1>3. ASSUME NEW y \in S PROVE x <= y
  <2>1. x \in Nat /\ y \in Nat
    OBVIOUS
  <2>2. ~(y < x)
    BY <1>2, <2>1 DEF OpToRel
  <2> QED BY <2>1, <2>2
<1> QED BY <1>3

(* The first free port is one of the range, or 0 when there is none. *)
LEMMA FirstFreePortType ==
    ASSUME NEW used
    PROVE  firstFreePort(used) \in 0..MaxPort
<1>1. CASE 1..MaxPort \subseteq used
  BY <1>1, InstallerAssumption DEF firstFreePort
<1>2. CASE ~(1..MaxPort \subseteq used)
  <2> DEFINE free == 1..MaxPort \ used
  <2>1. free # {} /\ free \in SUBSET Nat
    BY <1>2
  <2>2. \E p \in free : \A q \in free : p <= q
    BY <2>1, LeastNatural
  <2>3. (CHOOSE p \in free : \A q \in free : p <= q) \in free
    BY <2>2
  <2> QED BY <1>2, <2>3 DEF firstFreePort
<1> QED BY <1>1, <1>2

LEMMA BuildPlanType ==
    ASSUME NEW v \in 1..MaxVersion, NEW gateway \in BOOLEAN
    PROVE  /\ BuildPlan(v, gateway) \in Plan
           /\ "gateway" \in BuildPlan(v, gateway).components <=> BuildPlan(v, gateway).listen > 0
<1> DEFINE used == {fs["nginx"].listen} \cup {running[c].listen : c \in {d \in Components : running[d] # None}}
           port == IF gateway THEN firstFreePort(used) ELSE 0
           cs == {"agent"} \cup (IF port > 0 THEN {"gateway"} ELSE {})
<1>1. port \in 0..MaxPort
  BY FirstFreePortType, InstallerAssumption
<1>2. BuildPlan(v, gateway) = [version |-> v, listen |-> port, components |-> cs]
  BY DEF BuildPlan
<1>3. cs \in SUBSET Components /\ ("gateway" \in cs <=> port > 0)
  BY DEF Components
<1> HIDE DEF cs, port
<1> QED BY <1>1, <1>2, <1>3 DEF Plan

----------------------------------------------------------------------------
(* The steps that leave the host as it is. *)
RecordSteps ==
    \/ RollbackLatest \/ Advance \/ Crash \/ Idle
    \/ \E c \in Components : RecordService(c) \/ CaptureFails(c)
    \/ RecordCreatedGroup \/ RecordCreatedUser
    \/ \E f \in Files : InstallBytes(f)
    \/ WaitForGateway \/ RecordNginxChange \/ Commit \/ FileFails \/ UndoFails \/ MarkRolledBack

LEMMA RecordStepsKeepHost ==
    ASSUME RecordSteps
    PROVE  UNCHANGED <<fs, live, enabled, running, groups, users, before, made, installs>>
  BY DEF RecordSteps, RollbackLatest, Advance, Crash, Idle, RecordService, CaptureFails,
     RecordCreatedGroup, RecordCreatedUser, InstallBytes, WaitForGateway, RecordNginxChange,
     Commit, FileFails, UndoFails, MarkRolledBack, host, vars

(* The steps that change one thing of the host each. *)
HostSteps ==
    \/ \E c \in Components : EnsureGroup(c) \/ StartService(c)
    \/ EnsureUser \/ InstallWrite \/ ReloadNginx \/ ApplyFails
    \/ \E c \in Components :
          StopService(c) \/ EnableService(c) \/ RestartService(c) \/ UserDel(c) \/ GroupDel(c)
    \/ \E f \in Files : RestoreFile(f)
    \/ UndoNginx

LEMMA NextSteps ==
    ASSUME Next
    PROVE  RecordSteps \/ HostSteps \/ \E v \in 1..MaxVersion, gateway \in BOOLEAN : Apply(v, gateway)
  BY DEF Next, ApplyStep, UndoStep, RecordSteps, HostSteps

LEMMA NewContentType == ASSUME plan \in Plan, NEW f \in Files PROVE NewContent(f) \in Content
  BY InstallerAssumption DEF Plan, NewContent, Content

(* The type of the host. *)
HostTypes ==
    /\ fs \in [Files -> Content \cup {None}]
    /\ live \in Content
    /\ enabled \in SUBSET Components
    /\ running \in [Components -> Content \cup {None}]
    /\ groups \in SUBSET Components /\ users \in SUBSET Components

LEMMA ItemTypes ==
    ASSUME TypeOK, RecordInv, LeftInv
    PROVE  /\ phase \in ApplyPhases => plan \in Plan /\ plan.components \subseteq Components
           /\ phase \in ApplyPhases \cup UndoPhases => mem \in TransactionRecord /\ journal \in TransactionRecord
           /\ phase \in AccountPhases => item \in Components
           /\ phase = "write" => item \in Files
<1>1. phase \in ApplyPhases => plan \in Plan /\ plan.components \subseteq Components
  BY DEF TypeOK, RecordInv, Plan
<1>2. phase \in ApplyPhases \cup UndoPhases => mem \in TransactionRecord /\ journal \in TransactionRecord
  BY DEF TypeOK, RecordInv, ApplyPhases, AccountPhases, UndoPhases, UndoCommands
<1>3. phase \in AccountPhases => item \in Components
  BY <1>1 DEF LeftInv, ApplyPhases
<1>4. phase = "write" => item \in Files
  BY <1>1 DEF LeftInv, ApplyPhases, Files
<1> QED BY <1>1, <1>2, <1>3, <1>4

LEMMA HostStep ==
    ASSUME InstallerInv, Next
    PROVE  HostTypes' /\ HostInv'
<1> USE NoneAssumption
<1>0. HostTypes /\ TypeOK /\ HostInv /\ RecordInv /\ LeftInv
  BY DEF InstallerInv, TypeInv, TypeOK, HostTypes
<1>1. CASE RecordSteps
  BY <1>0, <1>1, RecordStepsKeepHost DEF HostTypes, HostInv
<1>2. ASSUME NEW v \in 1..MaxVersion, NEW gateway \in BOOLEAN, Apply(v, gateway)
      PROVE  HostTypes' /\ HostInv'
  <2>1. before' = Host /\ UNCHANGED <<fs, live, enabled, running, groups, users>>
    BY <1>2 DEF Apply, host
  <2>2. Host \in HostType /\ Host.fs = fs
    BY <1>0 DEF Host, HostType, HostTypes
  <2> QED BY <1>0, <2>1, <2>2 DEF HostTypes, HostInv
<1>3. ASSUME NEW c \in Components, EnsureGroup(c) PROVE HostTypes' /\ HostInv'
  BY <1>0, <1>3 DEF EnsureGroup, HostTypes, HostInv
<1>4. ASSUME NEW c \in Components, Enabled(c), UNCHANGED <<fs, live, groups, users, before>>
      PROVE  HostTypes' /\ HostInv'
  BY <1>0, <1>4 DEF Enabled, HostTypes, HostInv, Files
<1>5. ASSUME NEW c \in Components, StartService(c) PROVE HostTypes' /\ HostInv'
  BY <1>4, <1>5 DEF StartService
<1>6. CASE EnsureUser
  <2>1. item \in Components
    BY <1>0, <1>6, ItemTypes DEF EnsureUser, AccountPhases
  <2> QED BY <1>0, <1>6, <2>1 DEF EnsureUser, HostTypes, HostInv
<1>7. CASE InstallWrite
  <2>1. item \in Files /\ plan \in Plan
    BY <1>0, <1>7, ItemTypes DEF InstallWrite, ApplyPhases
  <2> QED BY <1>0, <1>7, <2>1, NewContentType DEF InstallWrite, HostTypes, HostInv
<1>8. CASE ReloadNginx \/ UndoNginx
  BY <1>0, <1>8 DEF ReloadNginx, UndoNginx, Undone, HostTypes, HostInv, Files
<1>9. CASE ApplyFails
  <2>1. UNCHANGED <<fs, before>>
    BY <1>9 DEF ApplyFails
  <2>2. CASE UNCHANGED <<live, enabled, running, groups, users>>
    BY <1>0, <2>1, <2>2 DEF HostTypes, HostInv
  <2>3. CASE PartialEffect
    <3>0. plan # None => plan.components \subseteq Components
      BY <1>0 DEF TypeOK, Plan
    <3>1. CASE phase = "accounts" /\ (\E a \in left : groups' = groups \cup {a}) /\ UNCHANGED <<live, enabled, running, users>>
      BY <1>0, <2>1, <3>0, <3>1 DEF HostTypes, HostInv, RecordInv, LeftInv, ApplyPhases
    <3>2. CASE phase = "user" /\ users' = users \cup {item} /\ UNCHANGED <<live, enabled, running, groups>>
      BY <1>0, <2>1, <3>0, <3>2 DEF HostTypes, HostInv, RecordInv, LeftInv, ApplyPhases, AccountPhases
    <3>3. CASE phase = "start" /\ (\E c \in left : Enabled(c)) /\ UNCHANGED <<live, groups, users>>
      BY <1>0, <1>4, <2>1, <3>0, <3>3 DEF RecordInv, LeftInv, ApplyPhases
    <3>4. CASE phase = "reload" /\ live' = fs["nginx"] /\ UNCHANGED <<enabled, running, groups, users>>
      BY <1>0, <2>1, <3>4 DEF HostTypes, HostInv, Files
    <3> QED BY <2>3, <3>1, <3>2, <3>3, <3>4 DEF PartialEffect
  <2> QED BY <1>9, <2>2, <2>3 DEF ApplyFails
<1>10. ASSUME NEW c \in Components,
              StopService(c) \/ EnableService(c) \/ RestartService(c) \/ UserDel(c) \/ GroupDel(c)
       PROVE  HostTypes' /\ HostInv'
  BY <1>0, <1>10 DEF StopService, EnableService, RestartService, UserDel, GroupDel, Undone,
     HostTypes, HostInv, Files
<1>11. ASSUME NEW f \in Files, RestoreFile(f) PROVE HostTypes' /\ HostInv'
  <2>1. PICK c \in mem.changes : c.path = f /\ fs' = [fs EXCEPT ![f] = c.old]
    BY <1>11 DEF RestoreFile
  <2>2. mem # None /\ mem \in TransactionRecord
    BY <1>0, <1>11 DEF RestoreFile, Undone, RecordInv, TypeOK
  <2>3. c = FileRecord(f)
    BY <2>1, <2>2 DEF InstallerInv, FileInv
  <2>4. c.old = before.fs[f] /\ before.fs[f] \in Content \cup {None}
    BY <1>0, <2>3 DEF FileRecord, HostInv, HostType
  <2> QED BY <1>0, <1>11, <2>1, <2>4 DEF RestoreFile, Undone, HostTypes, HostInv
<1> QED BY <1>1, <1>2, <1>3, <1>5, <1>6, <1>7, <1>8, <1>9, <1>10, <1>11, NextSteps DEF HostSteps

----------------------------------------------------------------------------
(* The undoing begins, with what q records. *)
Undoing(q) == mem' = q /\ journal' = journal /\ phase' = "stop" /\ left' = Names(q.services)

(* q becomes the record in memory, and the one on disk unless that fails,  *)
(* which begins the undoing.                                               *)
Persisted(q, p, rest) ==
    \/ mem' = q /\ journal' = q /\ phase' = p /\ left' = rest /\ faults' = faults
    \/ Undoing(q) /\ Fault

LEMMA PersistCases ==
    ASSUME NEW q, NEW p, NEW rest, Persist(q, p, rest)
    PROVE  Persisted(q, p, rest)
  BY DEF Persist, Undo, Goto, Items, Persisted, Undoing

(* The steps that record something, with the record they make. *)
LEMMA RecordServiceView ==
    ASSUME TypeInv, NEW c \in Components, RecordService(c)
    PROVE  \E q \in TransactionRecord :
              /\ q.services = mem.services \cup
                     {[name |-> c, wasEnabled |-> c \in enabled, wasActive |-> running[c] # None]}
              /\ SameBut(q, mem, {"services"})
              /\ Persisted(q, "services", left \ {c})
<1> DEFINE s == [name |-> c, wasEnabled |-> c \in enabled, wasActive |-> running[c] # None]
           q == [mem EXCEPT !.services = @ \cup {s}]
<1>1. phase = "services" /\ Persist(q, "services", left \ {c})
  BY DEF RecordService
<1>2. mem \in TransactionRecord
  BY <1>1, ItemTypes DEF TypeInv, ApplyPhases
<1>3. s \in ServiceChange
  BY DEF ServiceChange
<1> HIDE DEF s
<1>4. q \in TransactionRecord /\ q.services = mem.services \cup {s} /\ SameBut(q, mem, {"services"})
  BY <1>2, <1>3, RecordUpdates
<1> HIDE DEF q
<1>5. Persisted(q, "services", left \ {c})
  BY <1>1, PersistCases
<1> QED BY <1>4, <1>5 DEF s

LEMMA RecordGroupView ==
    ASSUME TypeInv, RecordCreatedGroup
    PROVE  \E q \in TransactionRecord :
              /\ q.groups = mem.groups \cup {item} /\ SameBut(q, mem, {"groups"})
              /\ Persisted(q, "user", left)
<1> DEFINE q == [mem EXCEPT !.groups = @ \cup {item}]
<1>1. phase = "record_group" /\ Persist(q, "user", left)
  BY DEF RecordCreatedGroup
<1>2. mem \in TransactionRecord /\ item \in Components
  BY <1>1, ItemTypes DEF TypeInv, ApplyPhases, AccountPhases
<1>3. q \in TransactionRecord /\ q.groups = mem.groups \cup {item} /\ SameBut(q, mem, {"groups"})
  BY <1>2, RecordUpdates
<1> HIDE DEF q
<1> QED BY <1>1, <1>3, PersistCases

LEMMA RecordUserView ==
    ASSUME TypeInv, RecordCreatedUser
    PROVE  \E q \in TransactionRecord :
              /\ q.users = mem.users \cup {item} /\ SameBut(q, mem, {"users"})
              /\ Persisted(q, "accounts", left \ {item})
<1> DEFINE q == [mem EXCEPT !.users = @ \cup {item}]
<1>1. phase = "record_user" /\ Persist(q, "accounts", left \ {item})
  BY DEF RecordCreatedUser
<1>2. mem \in TransactionRecord /\ item \in Components
  BY <1>1, ItemTypes DEF TypeInv, ApplyPhases, AccountPhases
<1>3. q \in TransactionRecord /\ q.users = mem.users \cup {item} /\ SameBut(q, mem, {"users"})
  BY <1>2, RecordUpdates
<1> HIDE DEF q
<1> QED BY <1>1, <1>3, PersistCases

LEMMA InstallBytesView ==
    ASSUME TypeInv, NEW f \in Files, InstallBytes(f)
    PROVE  \E q \in TransactionRecord :
              /\ q.changes = mem.changes \cup {[path |-> f, old |-> fs[f]]}
              /\ SameBut(q, mem, {"changes"})
              /\ Persisted(q, "write", left)
<1> DEFINE c == [path |-> f, old |-> fs[f]]
           q == [mem EXCEPT !.changes = @ \cup {c}]
<1>1. phase \in {"files", "nginx_file"} /\ Persist(q, "write", left)
  BY DEF InstallBytes
<1>2. mem \in TransactionRecord
  BY <1>1, ItemTypes DEF TypeInv, ApplyPhases
<1>3. c \in ChangeRecord
  BY DEF ChangeRecord, TypeInv, TypeOK
<1> HIDE DEF c
<1>4. q \in TransactionRecord /\ q.changes = mem.changes \cup {c} /\ SameBut(q, mem, {"changes"})
  BY <1>2, <1>3, RecordUpdates
<1> HIDE DEF q
<1>5. Persisted(q, "write", left)
  BY <1>1, PersistCases
<1> QED BY <1>4, <1>5 DEF c

LEMMA RecordNginxView ==
    ASSUME TypeInv, RecordNginxChange
    PROVE  \E q \in TransactionRecord :
              q.nginx = TRUE /\ SameBut(q, mem, {"nginx"}) /\ Persisted(q, "nginx_file", left)
<1> DEFINE q == [mem EXCEPT !.nginx = TRUE]
<1>1. phase = "nginx" /\ Persist(q, "nginx_file", left)
  BY DEF RecordNginxChange
<1>2. mem \in TransactionRecord
  BY <1>1, ItemTypes DEF TypeInv, ApplyPhases
<1>3. q \in TransactionRecord /\ q.nginx = TRUE /\ SameBut(q, mem, {"nginx"})
  BY <1>2, RecordUpdates
<1> HIDE DEF q
<1> QED BY <1>1, <1>3, PersistCases

LEMMA CommitView ==
    ASSUME TypeInv, Commit
    PROVE  \E q \in TransactionRecord :
              /\ q.status = "complete" /\ SameBut(q, mem, {"status"})
              /\ \/ /\ journal' = q /\ mem' = None /\ phase' = "idle" /\ left' = {}
                    /\ faults' = faults
                 \/ Undoing(q) /\ Fault
<1> DEFINE q == [mem EXCEPT !.status = "complete"]
<1>1. /\ phase = "commit"
      /\ \/ journal' = q /\ mem' = None /\ phase' = "idle" /\ left' = {} /\ faults' = faults
         \/ Undoing(q) /\ Fault
  BY DEF Commit, Undo, Undoing, Goto, Items
<1>2. mem \in TransactionRecord
  BY <1>1, ItemTypes DEF TypeInv, ApplyPhases
<1>3. q \in TransactionRecord /\ q.status = "complete" /\ SameBut(q, mem, {"status"})
  BY <1>2, RecordUpdates
<1> HIDE DEF q
<1> QED BY <1>1, <1>3

LEMMA MarkView ==
    ASSUME TypeInv, MarkRolledBack
    PROVE  \E q \in TransactionRecord :
              /\ q.status = "rolled_back" /\ SameBut(q, mem, {"status"})
              /\ mem' = None /\ phase' = "idle" /\ left' = {}
              /\ (journal' = q /\ faults' = faults) \/ (journal' = journal /\ Fault)
<1> DEFINE q == [mem EXCEPT !.status = "rolled_back"]
<1>1. /\ phase = "mark" /\ mem' = None /\ phase' = "idle" /\ left' = {}
      /\ (journal' = q /\ faults' = faults) \/ (journal' = journal /\ Fault)
  BY DEF MarkRolledBack, Goto
<1>2. mem \in TransactionRecord
  BY <1>1, ItemTypes DEF TypeInv, UndoPhases
<1>3. q \in TransactionRecord /\ q.status = "rolled_back" /\ SameBut(q, mem, {"status"})
  BY <1>2, RecordUpdates
<1> HIDE DEF q
<1> QED BY <1>1, <1>3

(* An installation begins. *)
Beginning ==
    /\ phase' = "services" /\ left' = plan'.components /\ before' = Host
    /\ mem' \in TransactionRecord /\ journal' = mem'
    /\ mem'.status = "applying" /\ mem'.changes = {} /\ mem'.users = {} /\ mem'.groups = {}
    /\ mem'.services = {} /\ mem'.nginx = FALSE

LEMMA ApplyView ==
    ASSUME NEW v, NEW gateway, Apply(v, gateway)
    PROVE  Beginning
  BY DEF Apply, Goto, Beginning, TransactionRecord

(* Only useradd makes a user. *)
LEMMA MadeCases ==
    ASSUME Next
    PROVE  made' \in {made, {}, made \cup (users' \ users)}
<1>1. CASE RecordSteps
  BY <1>1, RecordStepsKeepHost
<1>2. CASE HostSteps
  BY <1>2 DEF HostSteps, EnsureGroup, StartService, EnsureUser, InstallWrite, ReloadNginx,
     ApplyFails, StopService, EnableService, RestartService, UserDel, GroupDel, RestoreFile,
     UndoNginx, Undone
<1>3. CASE \E v \in 1..MaxVersion, gateway \in BOOLEAN : Apply(v, gateway)
  BY <1>3 DEF Apply
<1> QED BY <1>1, <1>2, <1>3, NextSteps

(* A failure begins the undoing. *)
LEMMA FailView ==
    ASSUME \/ FileFails \/ ApplyFails
           \/ WaitForGateway /\ running["gateway"].listen # plan.listen
    PROVE  Undoing(mem)
  BY DEF FileFails, ApplyFails, WaitForGateway, Undo, Undoing, Goto, Items

LEMMA CaptureView ==
    ASSUME TypeInv, NEW c \in Components, CaptureFails(c)
    PROVE  \E q \in TransactionRecord :
              /\ Names(q.services) = Names(mem.services) \cup {c} /\ SameBut(q, mem, {"services"})
              /\ mem' = q /\ journal' = q /\ phase' = "services" /\ left' = left \ {c}
<1> DEFINE s == [name |-> c, wasEnabled |-> FALSE, wasActive |-> FALSE]
           q == [mem EXCEPT !.services = @ \cup {s}]
<1>1. /\ phase = "services" /\ mem' = q /\ journal' = q
      /\ phase' = "services" /\ left' = left \ {c}
  BY DEF CaptureFails, Goto
<1>2. mem \in TransactionRecord
  BY <1>1, ItemTypes DEF TypeInv, ApplyPhases
<1>3. s \in ServiceChange /\ s.name = c
  BY DEF ServiceChange
<1> HIDE DEF s
<1>4. q \in TransactionRecord /\ q.services = mem.services \cup {s} /\ SameBut(q, mem, {"services"})
  BY <1>2, <1>3, RecordUpdates
<1> HIDE DEF q
<1> QED BY <1>1, <1>3, <1>4 DEF Names

----------------------------------------------------------------------------
(* The type of the installer's own state, with where it is. *)
ControlTypes ==
    /\ journal \in TransactionRecord \cup {None} /\ mem \in TransactionRecord \cup {None}
    /\ plan \in Plan \cup {None}
    /\ plan # None => ("gateway" \in plan.components <=> plan.listen > 0)
    /\ item \in Files \cup {None}
    /\ failed \in BOOLEAN
    /\ installs \in 0..MaxInstalls /\ faults \in 0..MaxFaults

(* What the steps do to the rest of the installer's variables. *)
LEMMA OtherVariables ==
    ASSUME Next
    PROVE  /\ failed' \in {failed, TRUE} \/ failed' = (failed \/ mem.services # journal.services)
           /\ installs' = installs \/ (installs < MaxInstalls /\ installs' = installs + 1)
           /\ item' = item \/ (\E a \in Components : item' = a) \/ \E f \in Files : item' = f
           /\ plan' = plan \/ \E v \in 1..MaxVersion, gateway \in BOOLEAN : plan' = BuildPlan(v, gateway)
<1>1. CASE RecordSteps
  <2>1. CASE \/ RollbackLatest \/ Advance \/ Idle \/ RecordCreatedGroup \/ RecordCreatedUser
             \/ WaitForGateway \/ RecordNginxChange \/ Commit \/ FileFails \/ UndoFails
             \/ MarkRolledBack \/ \E c \in Components : RecordService(c) \/ CaptureFails(c)
    BY <2>1 DEF RollbackLatest, Advance, Idle, RecordService, CaptureFails,
       RecordCreatedGroup, RecordCreatedUser, WaitForGateway, RecordNginxChange, Commit,
       FileFails, UndoFails, MarkRolledBack, vars, control
  <2>2. CASE \E f \in Files : InstallBytes(f)
    BY <2>2 DEF InstallBytes
  <2>3. CASE Crash
    BY <2>3, Zenon DEF Crash
  <2> QED BY <1>1, <2>1, <2>2, <2>3 DEF RecordSteps
<1>2. CASE HostSteps
  <2>1. CASE \E c \in Components : EnsureGroup(c)
    BY <2>1 DEF EnsureGroup
  <2> QED BY <1>2, <2>1 DEF HostSteps, StartService, EnsureUser, InstallWrite, ReloadNginx,
       ApplyFails, StopService, EnableService, RestartService, UserDel, GroupDel, RestoreFile,
       UndoNginx, Undone
<1>3. CASE \E v \in 1..MaxVersion, gateway \in BOOLEAN : Apply(v, gateway)
  BY <1>3 DEF Apply
<1> QED BY <1>1, <1>2, <1>3, NextSteps

LEMMA FailedStays ==
    ASSUME TypeOK, Next, ~failed'
    PROVE  ~failed
<1>1. failed \in BOOLEAN
  BY DEF TypeOK
<1>2. failed' \in {failed, TRUE} \/ failed' = (failed \/ mem.services # journal.services)
  BY OtherVariables
<1> QED BY <1>1, <1>2

LEMMA ControlStep ==
    ASSUME InstallerInv, Next
    PROVE  ControlTypes'
<1> USE InstallerAssumption, NoneAssumption
<1>0. TypeInv /\ TypeOK /\ HostInv /\ RecordInv /\ LeftInv /\ ControlTypes
  BY DEF InstallerInv, TypeInv, TypeOK, ControlTypes
<1>2. failed' \in BOOLEAN
  <2>1. failed \in BOOLEAN
    BY <1>0 DEF TypeOK
  <2> QED BY <2>1, OtherVariables
<1>3. faults' = faults \/ Fault
  <2>1. CASE RecordSteps
    BY <2>1 DEF RecordSteps, RollbackLatest, Advance, Crash, Idle, RecordService, CaptureFails,
       RecordCreatedGroup, RecordCreatedUser, InstallBytes, WaitForGateway, RecordNginxChange,
       Commit, FileFails, UndoFails, MarkRolledBack, Persist, vars
  <2>2. CASE HostSteps
    BY <2>2 DEF HostSteps, EnsureGroup, StartService, EnsureUser, InstallWrite, ReloadNginx,
       ApplyFails, StopService, EnableService, RestartService, UserDel, GroupDel, RestoreFile,
       UndoNginx
  <2> QED BY <2>1, <2>2, NextSteps DEF Apply
<1>4. /\ installs' \in 0..MaxInstalls /\ faults' \in 0..MaxFaults
      /\ item' \in Files \cup {None}
      /\ plan' \in Plan \cup {None}
      /\ (plan # None => ("gateway" \in plan.components <=> plan.listen > 0))'
  <2>1. /\ installs' \in 0..MaxInstalls /\ faults' \in 0..MaxFaults
        /\ item' \in Files \cup {None}
    BY <1>0, <1>3, OtherVariables DEF Fault, TypeOK, Files
  <2>2. CASE plan' = plan
    BY <1>0, <2>1, <2>2 DEF TypeOK
  <2>3. ASSUME NEW v \in 1..MaxVersion, NEW gateway \in BOOLEAN, plan' = BuildPlan(v, gateway)
        PROVE  /\ plan' \in Plan
               /\ "gateway" \in plan'.components <=> plan'.listen > 0
    BY <2>3, BuildPlanType
  <2> QED BY <2>1, <2>2, <2>3, OtherVariables
<1>5. journal' \in TransactionRecord \cup {None} /\ mem' \in TransactionRecord \cup {None}
  <2>0. journal \in TransactionRecord \cup {None} /\ mem \in TransactionRecord \cup {None}
    BY <1>0 DEF TypeOK
  <2>1. CASE (\E c \in Components : RecordService(c) \/ CaptureFails(c))
             \/ RecordCreatedGroup \/ RecordCreatedUser \/ (\E f \in Files : InstallBytes(f))
             \/ RecordNginxChange \/ Commit \/ MarkRolledBack
    BY <1>0, <2>0, <2>1, RecordServiceView, CaptureView, RecordGroupView, RecordUserView,
       InstallBytesView, RecordNginxView, CommitView, MarkView DEF Persisted, Undoing
  <2>2. CASE \E v \in 1..MaxVersion, gateway \in BOOLEAN : Apply(v, gateway)
    BY <2>2, ApplyView DEF Beginning
  <2>3. CASE RollbackLatest \/ Advance \/ Crash \/ Idle \/ WaitForGateway \/ FileFails \/ UndoFails
    BY <2>0, <2>3 DEF RollbackLatest, Advance, Crash, Idle, WaitForGateway, FileFails, UndoFails,
       Undo, vars
  <2>4. CASE HostSteps
    BY <2>0, <2>4 DEF HostSteps, EnsureGroup, StartService, EnsureUser, InstallWrite, ReloadNginx,
       ApplyFails, Undo, StopService, EnableService, RestartService, UserDel, GroupDel,
       RestoreFile, UndoNginx, Undone
  <2> QED BY <2>1, <2>2, <2>3, <2>4, NextSteps DEF RecordSteps
<1> QED BY <1>2, <1>4, <1>5 DEF ControlTypes

PhaseTypes == phase \in Phases /\ left \in SUBSET (Files \cup {"journal"})
PhaseInv == PhaseTypes /\ RecordInv /\ LeftInv

LEMMA UndoPhase ==
    ASSUME NEW q \in TransactionRecord, Undoing(q), journal # None,
           journal.changes \subseteq q.changes, journal.services \subseteq q.services,
           journal.nginx => q.nginx
    PROVE  PhaseInv'
<1>1. q # None /\ Names(q.services) \subseteq Components
  BY RecordFields
<1>2. PhaseTypes' /\ RecordInv'
  BY <1>1 DEF Undoing, PhaseTypes, Phases, UndoPhases, UndoCommands, RecordInv, ApplyPhases,
     AccountPhases, Files
<1>3. LeftInv'
  BY DEF Undoing, LeftInv, AccountPhases
<1> QED BY <1>2, <1>3 DEF PhaseInv

LEMMA PhaseStep ==
    ASSUME InstallerInv, Next
    PROVE  PhaseInv'
<1>0. TypeInv /\ TypeOK /\ RecordInv /\ LeftInv /\ PhaseTypes
  BY DEF InstallerInv, TypeInv, TypeOK, PhaseTypes
<1> USE DEF ApplyPhases, AccountPhases
<1>1. CASE Idle
  BY <1>0, <1>1 DEF Idle, vars, control, PhaseInv, PhaseTypes, RecordInv, LeftInv
<1>2. ASSUME NEW v \in 1..MaxVersion, NEW gateway \in BOOLEAN, Apply(v, gateway) PROVE PhaseInv'
  <2>1. Beginning /\ plan' \in Plan /\ mem' # None
    BY <1>2, ApplyView, BuildPlanType, RecordFields DEF Apply, Beginning
  <2>2. plan'.components \subseteq Components /\ plan' # None
    BY <2>1, NoneAssumption DEF Plan
  <2> QED BY <2>1, <2>2 DEF Beginning, PhaseInv, PhaseTypes, RecordInv, LeftInv, Phases, Succ,
       UndoPhases, UndoCommands, Files
<1>3. CASE RollbackLatest
  <2>1. journal \in TransactionRecord /\ Undoing(journal)
    BY <1>0, <1>3 DEF RollbackLatest, TypeOK, Undo, Undoing, Goto, Items
  <2> QED BY <1>3, <2>1, UndoPhase DEF RollbackLatest
<1>4. CASE Crash
  BY <1>0, <1>4 DEF Crash, Goto, PhaseInv, PhaseTypes, RecordInv, LeftInv, Phases, UndoPhases, UndoCommands
<1>5. CASE Advance
  <2>1. UNCHANGED <<journal, mem, plan, item>>
    BY <1>5 DEF Advance
  <2>2. phase \in ApplyPhases => plan.components \subseteq Components
    BY <1>0, ItemTypes
  <2>3. /\ phase \in UndoPhases => mem \in TransactionRecord
        /\ mem \in TransactionRecord => /\ Names(mem.services) \subseteq Components
                                        /\ Paths(mem.changes) \subseteq Files
                                        /\ mem.users \subseteq Components /\ mem.groups \subseteq Components
    BY <1>0, ItemTypes, RecordFields
  <2>4. \A S : Names({s \in mem.services : s.wasEnabled}) \subseteq Names(mem.services)
               /\ Names({s \in mem.services : s.wasActive}) \subseteq Names(mem.services)
    BY DEF Names
  <2>5. PhaseTypes'
    BY <1>5, <2>2, <2>3, <2>4, AdvanceCases DEF PhaseTypes, Phases, Succ, UndoPhases, UndoCommands, Files
  <2>6. RecordInv'
    BY <1>0, <1>5, <2>1, AdvanceCases DEF RecordInv, UndoPhases, UndoCommands
  <2>7. LeftInv'
    BY <1>5, <2>1, AdvanceCases DEF LeftInv
  <2> QED BY <2>5, <2>6, <2>7 DEF PhaseInv
<1>6. ASSUME NEW q \in TransactionRecord, NEW F \in SUBSET {"status", "users", "groups"},
             SameBut(q, mem, F), Undoing(q), phase \in ApplyPhases
      PROVE  PhaseInv'
  BY <1>0, <1>6, UndoPhase DEF SameBut, RecordInv
<1>7. ASSUME NEW c \in Components, RecordService(c) \/ CaptureFails(c) PROVE PhaseInv'
  <2>1. /\ phase = "services" /\ c \in left /\ UNCHANGED <<plan, item>>
    BY <1>7 DEF RecordService, CaptureFails
  <2>2. PICK q \in TransactionRecord :
            \/ mem' = q /\ journal' = q /\ phase' = "services" /\ left' = left \ {c}
            \/ Undoing(q) /\ SameBut(q, mem, {"services"}) /\ mem.services \subseteq q.services
    BY <1>0, <1>7, RecordServiceView, CaptureView DEF Persisted
  <2>3. CASE mem' = q /\ journal' = q /\ phase' = "services" /\ left' = left \ {c}
    BY <1>0, <2>1, <2>3, RecordFields DEF PhaseInv, PhaseTypes, RecordInv, LeftInv, Phases, Succ,
       UndoPhases, UndoCommands
  <2>4. CASE Undoing(q) /\ SameBut(q, mem, {"services"}) /\ mem.services \subseteq q.services
    BY <1>0, <2>1, <2>4, UndoPhase DEF SameBut, RecordInv
  <2> QED BY <2>2, <2>3, <2>4
<1>8. CASE RecordCreatedGroup \/ RecordCreatedUser
  <2>1. /\ phase \in {"record_group", "record_user"} /\ UNCHANGED <<plan, item>>
    BY <1>8 DEF RecordCreatedGroup, RecordCreatedUser
  <2>2. PICK q \in TransactionRecord :
            /\ SameBut(q, mem, {"users", "groups"})
            /\ \/ /\ mem' = q /\ journal' = q
                  /\ (phase' = "user" /\ left' = left) \/ (phase' = "accounts" /\ left' = left \ {item})
               \/ Undoing(q)
    BY <1>0, <1>8, RecordGroupView, RecordUserView DEF Persisted, SameBut
  <2>3. CASE Undoing(q)
    BY <1>6, <2>1, <2>2, <2>3
  <2>4. CASE /\ mem' = q /\ journal' = q
             /\ (phase' = "user" /\ left' = left) \/ (phase' = "accounts" /\ left' = left \ {item})
    BY <1>0, <2>1, <2>4, RecordFields DEF PhaseInv, PhaseTypes, RecordInv, LeftInv, Phases, Succ,
       UndoPhases, UndoCommands
  <2> QED BY <2>2, <2>3, <2>4
<1>9. ASSUME NEW f \in Files, InstallBytes(f) PROVE PhaseInv'
  <2>1. phase \in {"files", "nginx_file"} /\ f \in left /\ UNCHANGED plan /\ item' = f
    BY <1>9 DEF InstallBytes
  <2>2. PICK q \in TransactionRecord :
            /\ q.changes = mem.changes \cup {[path |-> f, old |-> fs[f]]}
            /\ SameBut(q, mem, {"changes"})
            /\ Persisted(q, "write", left)
    BY <1>0, <1>9, InstallBytesView
  <2>3. CASE Undoing(q)
    BY <1>0, <2>1, <2>2, <2>3, UndoPhase DEF SameBut, RecordInv
  <2>4. CASE mem' = q /\ journal' = q /\ phase' = "write" /\ left' = left
    <3>1. plan.components \subseteq Components /\ "nginx" \notin Components \cup {"release"}
      BY <1>0, <2>1, ItemTypes DEF Components
    <3> QED BY <1>0, <2>1, <2>4, <3>1, RecordFields DEF PhaseInv, PhaseTypes, RecordInv, LeftInv,
         Phases, Succ, UndoPhases, UndoCommands
  <2> QED BY <2>2, <2>3, <2>4 DEF Persisted
<1>10. CASE RecordNginxChange
  <2>1. phase = "nginx" /\ UNCHANGED <<plan, item>>
    BY <1>10 DEF RecordNginxChange
  <2>2. PICK q \in TransactionRecord :
            q.nginx = TRUE /\ SameBut(q, mem, {"nginx"}) /\ Persisted(q, "nginx_file", left)
    BY <1>0, <1>10, RecordNginxView
  <2>3. CASE Undoing(q)
    BY <1>0, <2>1, <2>2, <2>3, UndoPhase DEF SameBut, RecordInv
  <2>4. CASE mem' = q /\ journal' = q /\ phase' = "nginx_file" /\ left' = left
    BY <1>0, <2>1, <2>4, RecordFields DEF PhaseInv, PhaseTypes, RecordInv, LeftInv, Phases, Succ,
       UndoPhases, UndoCommands
  <2> QED BY <2>2, <2>3, <2>4 DEF Persisted
<1>11. CASE Commit \/ MarkRolledBack
  <2>1. phase \in {"commit", "mark"}
    BY <1>11 DEF Commit, MarkRolledBack
  <2>2. PICK q \in TransactionRecord :
            /\ SameBut(q, mem, {"status"})
            /\ \/ mem' = None /\ phase' = "idle" /\ left' = {}
               \/ Undoing(q) /\ Commit
    BY <1>0, <1>11, CommitView, MarkView
  <2>3. CASE Undoing(q) /\ Commit
    BY <1>6, <2>2, <2>3 DEF Commit
  <2>4. CASE mem' = None /\ phase' = "idle" /\ left' = {}
    BY <2>4 DEF PhaseInv, PhaseTypes, RecordInv, LeftInv, Phases, UndoPhases, UndoCommands
  <2> QED BY <2>2, <2>3, <2>4
<1>12. CASE \/ FileFails \/ ApplyFails
            \/ WaitForGateway /\ running["gateway"].listen # plan.listen
  <2>1. phase \in ApplyPhases /\ Undoing(mem)
    BY <1>12, FailView DEF FileFails, ApplyFails, WaitForGateway
  <2>2. mem \in TransactionRecord /\ mem = journal /\ journal # None
    BY <1>0, <2>1, ItemTypes DEF RecordInv
  <2> QED BY <2>1, <2>2, UndoPhase
<1>13. CASE WaitForGateway /\ running["gateway"].listen = plan.listen
  BY <1>0, <1>13 DEF WaitForGateway, Goto, PhaseInv, PhaseTypes, RecordInv, LeftInv, Phases, Succ,
     UndoPhases, UndoCommands
<1>14. CASE UndoFails
  BY <1>0, <1>14 DEF UndoFails, PhaseInv, PhaseTypes, RecordInv, LeftInv, UndoCommands
<1>15. ASSUME NEW c \in Components, EnsureGroup(c) \/ StartService(c) PROVE PhaseInv'
  BY <1>0, <1>15 DEF EnsureGroup, StartService, Goto, PhaseInv, PhaseTypes, RecordInv, LeftInv,
     Phases, Succ, UndoPhases, UndoCommands
<1>16. CASE EnsureUser \/ InstallWrite
  BY <1>0, <1>16 DEF EnsureUser, InstallWrite, Goto, PhaseInv, PhaseTypes, RecordInv, LeftInv,
     Phases, Succ, UndoPhases, UndoCommands
<1>17. CASE ReloadNginx
  BY <1>0, <1>17 DEF ReloadNginx, Goto, PhaseInv, PhaseTypes, RecordInv, LeftInv,
     Phases, Succ, UndoPhases, UndoCommands
<1>18. ASSUME NEW p \in UndoPhases, NEW x, Undone(p, x) PROVE PhaseInv'
  BY <1>0, <1>18 DEF Undone, PhaseInv, PhaseTypes, RecordInv, LeftInv, UndoPhases, UndoCommands
<1>19. CASE \/ \E c \in Components : \/ StopService(c) \/ EnableService(c) \/ RestartService(c)
                                     \/ UserDel(c) \/ GroupDel(c)
            \/ UndoNginx \/ \E f \in Files : RestoreFile(f)
  BY <1>18, <1>19 DEF StopService, EnableService, RestartService, UserDel, GroupDel, UndoNginx,
     RestoreFile, UndoPhases, UndoCommands
<1> QED BY <1>1, <1>2, <1>3, <1>4, <1>5, <1>7, <1>8, <1>9, <1>10, <1>11, <1>12, <1>13, <1>14,
       <1>15, <1>16, <1>17, <1>19, NextSteps DEF RecordSteps, HostSteps

LEMMA TypeStep ==
    ASSUME InstallerInv, Next
    PROVE  TypeInv'
<1>1. HostTypes' /\ HostInv' /\ ControlTypes' /\ PhaseInv'
  BY HostStep, ControlStep, PhaseStep
<1>2. made' \in SUBSET Components
  BY <1>1, MadeCases DEF InstallerInv, TypeInv, TypeOK, HostTypes
<1> QED BY <1>1, <1>2 DEF TypeInv, TypeOK, HostTypes, ControlTypes, PhaseInv, PhaseTypes

----------------------------------------------------------------------------
(* The accounts.  What userdel and groupdel remove is in the record, and   *)
(* what is in the record was not there before.                             *)
LEMMA AccountStep ==
    ASSUME InstallerInv, Next
    PROVE  AccountInv'
<1>0. TypeInv /\ TypeOK /\ RecordInv /\ LeftInv /\ AccountInv /\ HostInv
  BY DEF InstallerInv, TypeInv
<1> USE DEF ApplyPhases, AccountPhases, Preparing
<1>1. CASE \E v \in 1..MaxVersion, gateway \in BOOLEAN : Apply(v, gateway)
  <2>1. Beginning /\ UNCHANGED <<users, groups>>
    BY <1>1, ApplyView DEF Apply, host
  <2> QED BY <2>1 DEF Beginning, AccountInv, NewAccounts, AccountsKept, Host
<1>2. ASSUME UNCHANGED <<users, groups, before, made>>, phase' \notin {"record_group", "record_user"},
             phase' \in Preparing => phase \in Preparing,
             mem' # None => NewAccounts(mem'), journal' # None => NewAccounts(journal')
      PROVE  AccountInv'
  BY <1>0, <1>2 DEF AccountInv, NewAccounts, AccountsKept
<1>3. ASSUME NEW q \in TransactionRecord, SameBut(q, mem, {"status", "changes", "services", "nginx"}),
             mem # None
      PROVE  NewAccounts(q)
  BY <1>0, <1>3 DEF AccountInv, NewAccounts, SameBut
<1>4. CASE \/ Idle \/ Advance \/ Crash \/ UndoFails \/ WaitForGateway \/ FileFails \/ RollbackLatest
  <2>1. UNCHANGED <<users, groups, before, made>>
    BY <1>4, RecordStepsKeepHost DEF RecordSteps
  <2>2. mem' \in {mem, journal, None} /\ journal' = journal
    BY <1>4 DEF Idle, Advance, Crash, UndoFails, WaitForGateway, FileFails, RollbackLatest, Undo, vars
  <2>3. /\ phase' \notin {"record_group", "record_user"}
        /\ phase' \in Preparing => phase \in Preparing
    BY <1>4, AdvanceCases, FailView DEF Idle, Crash, UndoFails, UndoCommands, WaitForGateway,
       FileFails, RollbackLatest, Undo, Goto, vars, control
  <2> QED BY <1>0, <1>2, <2>1, <2>2, <2>3 DEF AccountInv
<1>5. CASE (\E c \in Components : RecordService(c) \/ CaptureFails(c))
           \/ (\E f \in Files : InstallBytes(f)) \/ RecordNginxChange \/ Commit \/ MarkRolledBack
  <2>1. UNCHANGED <<users, groups, before, made>>
    BY <1>5, RecordStepsKeepHost DEF RecordSteps
  <2>2. phase # "idle"
    BY <1>5 DEF RecordService, CaptureFails, InstallBytes, RecordNginxChange, Commit, MarkRolledBack
  <2>3. PICK q \in TransactionRecord :
            /\ SameBut(q, mem, {"status", "changes", "services", "nginx"})
            /\ mem' \in {q, None} /\ journal' \in {q, journal}
            /\ phase' \notin {"record_group", "record_user"}
    BY <1>0, <1>5, RecordServiceView, CaptureView, InstallBytesView, RecordNginxView, CommitView,
       MarkView DEF Persisted, Undoing, SameBut
  <2>4. NewAccounts(q)
    BY <1>0, <1>3, <2>2, <2>3 DEF RecordInv
  <2>5. phase' \in Preparing => phase \in Preparing
    BY <1>5 DEF RecordService, CaptureFails, InstallBytes, RecordNginxChange, Commit,
       MarkRolledBack, Persist, Undo, Goto
  <2> QED BY <1>0, <1>2, <2>1, <2>3, <2>4, <2>5 DEF AccountInv
<1>6. CASE RecordCreatedGroup \/ RecordCreatedUser
  <2>1. UNCHANGED <<users, groups, before, made>>
    BY <1>6, RecordStepsKeepHost DEF RecordSteps
  <2>2. mem # None /\ mem = journal /\ phase \in {"record_group", "record_user"}
    BY <1>0, <1>6 DEF RecordInv, RecordCreatedGroup, RecordCreatedUser
  <2>3. PICK q \in TransactionRecord :
            /\ \/ phase = "record_group" /\ q.groups = mem.groups \cup {item} /\ q.users = mem.users
               \/ phase = "record_user" /\ q.users = mem.users \cup {item} /\ q.groups = mem.groups
            /\ mem' = q /\ journal' \in {q, journal}
            /\ phase' \notin {"record_group", "record_user"} /\ phase \in Preparing
    BY <1>0, <1>6, RecordGroupView, RecordUserView DEF Persisted, Undoing, SameBut,
       RecordCreatedGroup, RecordCreatedUser
  <2>4. NewAccounts(q)
    BY <1>0, <2>2, <2>3 DEF AccountInv, NewAccounts
  <2> QED BY <1>0, <1>2, <2>1, <2>3, <2>4 DEF AccountInv
<1>7. CASE EnsureUser \/ \E c \in Components : EnsureGroup(c)
  <2>1. CASE EnsureUser
    <3>1. /\ UNCHANGED <<before, mem, journal, item, groups>> /\ users' = users \cup {item}
          /\ made' = made \cup ({item} \ users) /\ phase' \in {"accounts", "record_user"}
          /\ (phase' = "record_user" => item \notin users) /\ phase = "user"
      BY <2>1 DEF EnsureUser, Goto
    <3>2. before.users \subseteq users /\ made \subseteq made' /\ before.groups \subseteq groups
      BY <1>0, <3>1 DEF AccountInv, AccountsKept
    <3> QED BY <1>0, <3>1, <3>2 DEF AccountInv, NewAccounts, AccountsKept
  <2>2. ASSUME NEW c \in Components, EnsureGroup(c) PROVE AccountInv'
    <3>1. /\ UNCHANGED <<before, made, mem, journal, users>> /\ groups' = groups \cup {c} /\ item' = c
          /\ phase' \in {"user", "record_group"} /\ (phase' = "record_group" => c \notin groups)
      BY <2>2 DEF EnsureGroup, Goto
    <3>2. phase = "accounts"
      BY <2>2 DEF EnsureGroup
    <3>3. before.groups \subseteq groups
      BY <1>0, <3>2 DEF AccountInv
    <3> QED BY <1>0, <3>1, <3>3 DEF AccountInv, NewAccounts, AccountsKept
  <2> QED BY <1>7, <2>1, <2>2
<1>8. CASE \/ InstallWrite \/ ReloadNginx \/ UndoNginx \/ (\E f \in Files : RestoreFile(f))
           \/ \E c \in Components : StartService(c) \/ StopService(c) \/ EnableService(c) \/ RestartService(c)
  <2>1. UNCHANGED <<users, groups, before, made, mem, journal>> /\ phase' \notin Preparing
    BY <1>8 DEF InstallWrite, ReloadNginx, UndoNginx, RestoreFile, StartService, StopService,
       EnableService, RestartService, Undone, Goto
  <2> QED BY <1>0, <1>2, <2>1 DEF AccountInv
<1>9. CASE ApplyFails
  <2>1. Undoing(mem) /\ UNCHANGED before
    BY <1>9, FailView DEF ApplyFails
  <2>2. users \subseteq users' /\ groups \subseteq groups' /\ made \subseteq made'
    BY <1>9 DEF ApplyFails, PartialEffect
  <2>3. mem' = mem /\ journal' = journal /\ phase' \notin Preparing
    BY <1>9, <2>1 DEF ApplyFails, Undoing
  <2> QED BY <1>0, <2>1, <2>2, <2>3 DEF AccountInv, NewAccounts, AccountsKept
<1>10. ASSUME NEW c \in Components, UserDel(c) PROVE AccountInv'
  <2>1. /\ UNCHANGED <<before, made, mem, journal, phase>> /\ users' = users \ {c}
        /\ groups' = IF UserGroups /\ c \in users THEN groups \ {c} ELSE groups
        /\ phase = "userdel" /\ mem # None /\ c \in mem.users
    BY <1>0, <1>10 DEF UserDel, Undone, RecordInv, LeftInv
  <2>2. c \in made \ before.users
    BY <1>0, <2>1 DEF AccountInv, NewAccounts
  <2> QED BY <1>0, <2>1, <2>2 DEF AccountInv, NewAccounts, AccountsKept
<1>11. ASSUME NEW c \in Components, GroupDel(c) PROVE AccountInv'
  <2>1. /\ UNCHANGED <<before, made, mem, journal, phase, users>> /\ groups' \in {groups, groups \ {c}}
        /\ phase = "groupdel" /\ mem # None /\ c \in mem.groups
    BY <1>0, <1>11 DEF GroupDel, Undone, RecordInv, LeftInv
  <2>2. c \notin before.groups
    BY <1>0, <2>1 DEF AccountInv, NewAccounts
  <2> QED BY <1>0, <2>1, <2>2 DEF AccountInv, NewAccounts, AccountsKept
<1> QED BY <1>1, <1>4, <1>5, <1>6, <1>7, <1>8, <1>9, <1>10, <1>11, NextSteps DEF RecordSteps, HostSteps

----------------------------------------------------------------------------
(* The files. *)
LEMMA FileStep ==
    ASSUME InstallerInv, Next
    PROVE  FileInv'
<1>0. TypeInv /\ TypeOK /\ RecordInv /\ LeftInv /\ FileInv /\ HostInv
  BY DEF InstallerInv, TypeInv
<1>f. ~failed' => ~failed
  BY <1>0, FailedStays
<1> USE DEF ApplyPhases, AccountPhases
<1>1. CASE \E v \in 1..MaxVersion, gateway \in BOOLEAN : Apply(v, gateway)
  <2>1. Beginning /\ UNCHANGED fs
    BY <1>1, ApplyView DEF Apply, host
  <2>2. before'.fs = fs
    BY <2>1 DEF Beginning, Host
  <2> QED BY <2>1, <2>2 DEF Beginning, FileInv
<1>2. ASSUME UNCHANGED <<fs, before>>
      PROVE  \A f : FileRecord(f)' = FileRecord(f)
  BY <1>2 DEF FileRecord
(* The record grows by no change, and the phase asks for nothing new. *)
<1>3. CASE \/ Idle \/ Crash \/ UndoFails \/ WaitForGateway \/ FileFails \/ RollbackLatest \/ ApplyFails
  <2>1. UNCHANGED <<fs, before>>
    BY <1>3, RecordStepsKeepHost DEF RecordSteps, ApplyFails
  <2>2. mem' \in {mem, journal, None} /\ journal' = journal
    BY <1>3 DEF Idle, Crash, UndoFails, WaitForGateway, FileFails, RollbackLatest, ApplyFails, Undo, vars
  <2>3. \/ phase' \in {"idle", "stop"}
        \/ phase' = "health" /\ phase = "health"
        \/ phase' \in UndoPhases /\ failed'
    BY <1>3, FailView DEF Idle, Crash, UndoFails, UndoPhases, UndoCommands, WaitForGateway,
       FileFails, RollbackLatest, ApplyFails, Undo, Undoing, Goto, vars, control
  <2> QED BY <1>0, <1>2, <2>1, <2>2, <2>3 DEF FileInv, UndoPhases, UndoCommands
<1>4. CASE Advance
  <2>1. UNCHANGED <<fs, before, mem, journal, failed, item>> /\ left = {}
    BY <1>4 DEF Advance, host
  <2>2. CASE phase = "stop"
    <3>1. phase' = "restore" /\ left' = Paths(mem.changes)
      BY <1>4, <2>2, AdvanceCases
    <3>2. \A f \in Files : fs[f] # before.fs[f] => FileRecord(f) \in mem.changes
      BY <1>0, <2>2 DEF FileInv, RecordInv, UndoPhases, UndoCommands
    <3>3. \A f \in Files : FileRecord(f) \in mem.changes => f \in Paths(mem.changes)
      BY DEF FileRecord, Paths
    <3> QED BY <1>0, <1>2, <2>1, <3>1, <3>2, <3>3 DEF FileInv
  <2>3. CASE phase = "restore"
    <3>1. phase' = "undo_nginx"
      BY <1>4, <2>3, AdvanceCases
    <3>2. ~failed => fs = before.fs
      <4>1. fs \in [Files -> Content \cup {None}] /\ before.fs \in [Files -> Content \cup {None}]
        BY <1>0 DEF TypeOK, HostInv, HostType
      <4> QED BY <1>0, <2>1, <2>3, <4>1 DEF FileInv
    <3> QED BY <1>0, <1>2, <2>1, <3>1, <3>2 DEF FileInv
  <2>4. CASE phase \in {"services", "accounts", "files", "start", "health", "nginx"}
    <3>1. \/ phase = "services" /\ phase' = "accounts"
          \/ phase = "accounts" /\ phase' = "files"
          \/ phase = "files" /\ phase' = "start"
          \/ phase = "start" /\ phase' = "health"
          \/ phase = "health" /\ phase' = "nginx"
          \/ phase = "nginx" /\ phase' = "commit"
      BY <1>4, <2>4, AdvanceCases
    <3> QED BY <1>0, <1>2, <2>1, <3>1 DEF FileInv
  <2>5. CASE phase \in {"undo_nginx", "enable", "restart", "userdel", "groupdel"}
    <3>1. phase' \in {"enable", "restart", "userdel", "groupdel", "mark"}
      BY <1>4, <2>5, AdvanceCases
    <3> QED BY <1>0, <1>2, <2>1, <2>5, <3>1 DEF FileInv
  <2> QED BY <1>4, <2>2, <2>3, <2>4, <2>5, AdvanceCases
<1>5. CASE (\E c \in Components : RecordService(c) \/ CaptureFails(c)) \/ RecordCreatedGroup
           \/ RecordCreatedUser \/ RecordNginxChange \/ Commit \/ MarkRolledBack
  <2>1. UNCHANGED <<fs, before>>
    BY <1>5, RecordStepsKeepHost DEF RecordSteps
  <2>2. PICK q \in TransactionRecord :
            /\ q.changes = mem.changes /\ mem' \in {q, None} /\ journal' \in {q, journal}
            /\ \/ phase = "services" /\ phase' = "services"
               \/ phase \in {"record_group", "record_user"} /\ phase' \in {"user", "accounts"}
               \/ phase = "nginx" /\ phase' = "nginx_file"
               \/ phase \in ApplyPhases \cup {"mark"} /\ phase' \in {"idle", "stop"}
    BY <1>0, <1>5, RecordServiceView, CaptureView, RecordGroupView, RecordUserView,
       RecordNginxView, CommitView, MarkView
       DEF Persisted, Undoing, SameBut, RecordService, CaptureFails, RecordCreatedGroup,
           RecordCreatedUser, RecordNginxChange, Commit, MarkRolledBack
  <2>3. mem # None /\ journal # None /\ journal.changes \subseteq q.changes
    BY <1>0, <2>2 DEF RecordInv, UndoPhases
  <2> QED BY <1>0, <1>2, <2>1, <2>2, <2>3 DEF FileInv
<1>6. ASSUME NEW f \in Files, InstallBytes(f) PROVE FileInv'
  <2>1. UNCHANGED <<fs, before>> /\ phase \in {"files", "nginx_file"} /\ f \in left /\ item' = f
    BY <1>6, RecordStepsKeepHost DEF RecordSteps, InstallBytes
  <2>2. fs[f] = before.fs[f] /\ (phase = "nginx_file" => f = "nginx" /\ left = {"nginx"})
        /\ fs["nginx"] = before.fs["nginx"]
    BY <1>0, <2>1 DEF FileInv, LeftInv
  <2>3. [path |-> f, old |-> fs[f]] = FileRecord(f) /\ FileRecord(f).path = f
    BY <2>2 DEF FileRecord
  <2>4. PICK q \in TransactionRecord :
            q.changes = mem.changes \cup {FileRecord(f)} /\ Persisted(q, "write", left)
    BY <1>0, <1>6, <2>3, InstallBytesView
  <2>5. mem # None /\ journal = mem
    BY <1>0, <2>1 DEF RecordInv
  <2>6. CASE mem' = q /\ journal' = q /\ phase' = "write" /\ left' = left
    BY <1>0, <1>2, <2>1, <2>2, <2>3, <2>4, <2>5, <2>6 DEF FileInv
  <2>7. CASE Undoing(q)
    BY <1>0, <1>2, <2>1, <2>3, <2>4, <2>5, <2>7 DEF FileInv, Undoing
  <2> QED BY <2>4, <2>6, <2>7 DEF Persisted
<1>7. CASE InstallWrite
  <2>1. /\ phase = "write" /\ fs' = [fs EXCEPT ![item] = NewContent(item)]
        /\ left' = left \ {item} /\ phase' = IF item = "nginx" THEN "reload" ELSE "files"
        /\ UNCHANGED <<before, mem, journal, item>>
    BY <1>7 DEF InstallWrite, Goto
  <2>2. \A f \in Files : f # item => fs'[f] = fs[f]
    BY <1>0, <2>1 DEF TypeOK
  <2>3. \A f : FileRecord(f)' = FileRecord(f)
    BY <2>1 DEF FileRecord
  <2>4. left \subseteq Files \/ item = "nginx"
    BY <1>0, <2>1, ItemTypes DEF LeftInv, Files
  <2> QED BY <1>0, <2>1, <2>2, <2>3, <2>4 DEF FileInv, Files
<1>8. CASE \/ EnsureUser \/ ReloadNginx \/ UndoNginx
           \/ \E c \in Components : \/ EnsureGroup(c) \/ StartService(c) \/ StopService(c)
                                    \/ EnableService(c) \/ RestartService(c) \/ UserDel(c) \/ GroupDel(c)
  <2>1. UNCHANGED <<fs, before, mem, journal, failed>>
    BY <1>8 DEF EnsureUser, EnsureGroup, ReloadNginx, UndoNginx, StartService, StopService,
       EnableService, RestartService, UserDel, GroupDel, Undone
  <2>2. \/ phase \in {"accounts", "user"} /\ phase' \in {"user", "record_group", "accounts", "record_user"}
        \/ phase = "start" /\ phase' = "start"
        \/ phase' \in {"commit", "stop"}
        \/ phase' = phase /\ phase \in UndoPhases /\ phase # "restore"
    BY <1>8 DEF EnsureUser, EnsureGroup, ReloadNginx, UndoNginx, StartService, StopService,
       EnableService, RestartService, UserDel, GroupDel, Undone, Goto, UndoPhases, UndoCommands
  <2> QED BY <1>0, <1>2, <2>1, <2>2 DEF FileInv, UndoPhases, UndoCommands
<1>9. ASSUME NEW f \in Files, RestoreFile(f) PROVE FileInv'
  <2>1. phase = "restore" /\ phase' = "restore" /\ left' = left \ {f} /\ UNCHANGED <<before, mem, journal, failed>>
    BY <1>9 DEF RestoreFile, Undone
  <2>2. PICK c \in mem.changes : c.path = f /\ fs' = [fs EXCEPT ![f] = c.old]
    BY <1>9 DEF RestoreFile
  <2>3. c = FileRecord(f)
    BY <1>0, <2>1, <2>2 DEF FileInv, RecordInv
  <2>4. c.old = before.fs[f]
    BY <2>3 DEF FileRecord
  <2>5. fs'[f] = before.fs[f] /\ \A x \in Files : x # f => fs'[x] = fs[x]
    BY <1>0, <2>2, <2>4 DEF TypeOK
  <2>6. \A x : FileRecord(x)' = FileRecord(x)
    BY <2>1 DEF FileRecord
  <2> QED BY <1>0, <2>1, <2>5, <2>6 DEF FileInv
<1> QED BY <1>1, <1>3, <1>4, <1>5, <1>6, <1>7, <1>8, <1>9, NextSteps DEF RecordSteps, HostSteps

----------------------------------------------------------------------------
(* The configuration nginx runs with. *)
LEMMA NginxStep ==
    ASSUME InstallerInv, Next
    PROVE  NginxInv'
<1>0. TypeInv /\ TypeOK /\ RecordInv /\ LeftInv /\ FileInv /\ HostInv /\ NginxInv
  BY DEF InstallerInv, TypeInv
<1>f. ~failed' => ~failed
  BY <1>0, FailedStays
<1> USE DEF ApplyPhases, AccountPhases
<1>1. CASE \E v \in 1..MaxVersion, gateway \in BOOLEAN : Apply(v, gateway)
  <2>1. Beginning /\ UNCHANGED live
    BY <1>1, ApplyView DEF Apply, host
  <2> QED BY <2>1 DEF Beginning, NginxInv, Host
<1>2. CASE \/ Idle \/ Crash \/ UndoFails \/ WaitForGateway \/ FileFails \/ RollbackLatest
  <2>1. UNCHANGED <<live, before>>
    BY <1>2, RecordStepsKeepHost DEF RecordSteps
  <2>2. journal' = journal
    BY <1>2 DEF Idle, Crash, UndoFails, WaitForGateway, FileFails, RollbackLatest, Undo, vars
  <2>3. \/ phase' \in {"idle", "stop", "health"}
        \/ phase' \in UndoPhases /\ failed'
    BY <1>2, FailView DEF Idle, Crash, UndoFails, UndoPhases, UndoCommands, WaitForGateway,
       FileFails, RollbackLatest, Undo, Undoing, Goto, vars, control
  <2> QED BY <1>0, <1>f, <2>1, <2>2, <2>3 DEF NginxInv, UndoPhases, UndoCommands
<1>3. CASE Advance
  <2>1. UNCHANGED <<live, before, mem, journal, failed, item>> /\ left = {}
    BY <1>3 DEF Advance, host
  <2>2. CASE phase = "restore"
    <3>1. /\ phase' = "undo_nginx" /\ left' = IF mem.nginx THEN {"nginx"} ELSE {}
          /\ journal # None /\ (journal.nginx => mem.nginx)
      BY <1>0, <1>3, <2>2, AdvanceCases DEF RecordInv, UndoPhases
    <3> QED BY <1>0, <2>1, <3>1 DEF NginxInv
  <2>3. CASE phase # "restore"
    <3>1. \/ phase \in {"undo_nginx", "enable", "restart", "userdel", "groupdel"}
          \/ phase' \in {"accounts", "files", "start", "health", "nginx", "commit", "restore"}
      BY <1>3, <2>3, AdvanceCases
    <3>2. phase' \notin {"nginx_file", "reload", "write", "undo_nginx"}
      BY <1>3, <2>3, AdvanceCases
    <3> QED BY <1>0, <2>1, <3>1, <3>2 DEF NginxInv
  <2> QED BY <2>2, <2>3
<1>4. CASE (\E c \in Components : RecordService(c) \/ CaptureFails(c)) \/ RecordCreatedGroup
           \/ RecordCreatedUser \/ RecordNginxChange \/ Commit \/ MarkRolledBack
  <2>1. UNCHANGED <<live, before>>
    BY <1>4, RecordStepsKeepHost DEF RecordSteps
  <2>2. PICK q \in TransactionRecord :
            /\ mem.nginx => q.nginx
            /\ journal' \in {q, journal}
            /\ \/ phase' \in {"services", "user", "accounts", "idle", "stop"}
               \/ phase' = "nginx_file" /\ journal' = q /\ q.nginx
            /\ phase \in ApplyPhases \cup {"mark"}
    BY <1>0, <1>4, RecordServiceView, CaptureView, RecordGroupView, RecordUserView,
       RecordNginxView, CommitView, MarkView
       DEF Persisted, Undoing, SameBut, RecordService, CaptureFails, RecordCreatedGroup,
           RecordCreatedUser, RecordNginxChange, Commit, MarkRolledBack
  <2>3. journal # None /\ (journal.nginx => q.nginx)
    BY <1>0, <2>2 DEF RecordInv, UndoPhases
  <2> QED BY <1>0, <1>f, <2>1, <2>2, <2>3 DEF NginxInv
<1>5. ASSUME NEW f \in Files, InstallBytes(f) PROVE NginxInv'
  <2>1. /\ UNCHANGED <<live, before, failed>> /\ item' = f
        /\ phase \in {"files", "nginx_file"} /\ (phase = "files" => f # "nginx")
    <3>1. phase = "files" => left \subseteq Components \cup {"release"}
      BY <1>0, ItemTypes DEF LeftInv
    <3> QED BY <1>5, <3>1, RecordStepsKeepHost DEF RecordSteps, InstallBytes, Components
  <2>2. PICK q \in TransactionRecord : q.nginx = mem.nginx /\ Persisted(q, "write", left)
    BY <1>0, <1>5, InstallBytesView DEF SameBut
  <2>3. mem = journal /\ journal # None /\ journal' \in {q, journal} /\ phase' \in {"write", "stop"}
        /\ (phase' = "write" => journal' = q)
    BY <1>0, <2>1, <2>2 DEF RecordInv, Persisted, Undoing
  <2> QED BY <1>0, <2>1, <2>2, <2>3 DEF NginxInv
<1>6. CASE ReloadNginx
  <2>1. phase = "reload" /\ phase' = "commit" /\ UNCHANGED <<journal, before>>
    BY <1>6 DEF ReloadNginx, Goto
  <2> QED BY <1>0, <2>1 DEF NginxInv
<1>7. CASE ApplyFails
  <2>1. phase' = "stop" /\ UNCHANGED <<journal, before, failed>> /\ (live' = live \/ phase = "reload")
    BY <1>7 DEF ApplyFails, PartialEffect, Undo, Goto
  <2> QED BY <1>0, <2>1 DEF NginxInv
<1>8. CASE UndoNginx
  <2>1. phase = "undo_nginx" /\ phase' = phase /\ live' = fs["nginx"] /\ UNCHANGED <<journal, before, failed>>
    BY <1>8 DEF UndoNginx, Undone
  <2>2. ~failed => live' = before.fs["nginx"]
    BY <1>0, <2>1 DEF FileInv
  <2> QED BY <1>0, <2>1, <2>2 DEF NginxInv
<1>9. CASE \/ InstallWrite \/ EnsureUser \/ (\E f \in Files : RestoreFile(f))
           \/ \E c \in Components : \/ EnsureGroup(c) \/ StartService(c) \/ StopService(c)
                                    \/ EnableService(c) \/ RestartService(c) \/ UserDel(c) \/ GroupDel(c)
  <2>1. /\ UNCHANGED <<live, before, journal, failed>>
        /\ \/ phase' \in {"accounts", "record_group", "user", "record_user", "start", "stop", "restore", "files"}
           \/ phase' = phase /\ phase \in {"enable", "restart", "userdel", "groupdel"}
           \/ phase' = "reload" /\ phase = "write" /\ item = "nginx"
    BY <1>9 DEF InstallWrite, EnsureUser, RestoreFile, EnsureGroup, StartService, StopService,
       EnableService, RestartService, UserDel, GroupDel, Undone, Goto
  <2> QED BY <1>0, <2>1 DEF NginxInv
<1> QED BY <1>1, <1>2, <1>3, <1>4, <1>5, <1>6, <1>7, <1>8, <1>9, NextSteps DEF RecordSteps, HostSteps

----------------------------------------------------------------------------
(* The unit files, and the services that are recorded with them. *)
LEMMA NamesAndPaths ==
    /\ \A S, x : Names(S \cup {x}) = Names(S) \cup {x.name}
    /\ \A S, x : Paths(S \cup {x}) = Paths(S) \cup {x.path}
    /\ Names({}) = {} /\ Paths({}) = {}
  BY DEF Names, Paths

(* What a record says of the services. *)
ServicesOf(r) ==
    /\ \A s \in r.services : s = ServiceRecord(s.name)
    /\ Paths(r.changes) \cap Components \subseteq Names(r.services)

(* Where the phases ask for a unit file or for a record of a service. *)
UnitPhase ==
    /\ phase = "services" =>
          /\ plan.components \subseteq left \cup Names(mem.services)
          /\ enabled = before.enabled /\ running = before.running
    /\ phase \in ApplyPhases \ {"services"} => plan.components \subseteq Names(mem.services)
    /\ phase = "files" => \A c \in plan.components \ left : fs[c] # None
    /\ phase = "write" /\ item # "nginx" => \A c \in plan.components \ left : fs[c] # None
    /\ phase = "start" => \A c \in plan.components : fs[c] # None

UnitFiles == \A c \in Components : fs[c] = None => c \notin enabled /\ running[c] = None

LEMMA UnitParts ==
    UnitInv <=> /\ UnitFiles
                /\ \A c \in Components : before.fs[c] = None => c \notin before.enabled /\ before.running[c] = None
                /\ \A r \in {mem, journal} \ {None} : ServicesOf(r)
                /\ UnitPhase
  BY DEF UnitInv, UnitFiles, ServicesOf, UnitPhase

LEMMA UnitStep ==
    ASSUME InstallerInv, Next, ~failed'
    PROVE  UnitInv'
<1>0. /\ TypeInv /\ TypeOK /\ RecordInv /\ LeftInv /\ FileInv /\ HostInv /\ UnitInv /\ ServiceInv
      /\ UnitFiles /\ UnitPhase
  BY FailedStays, UnitParts DEF InstallerInv, TypeInv
<1> USE DEF ApplyPhases, AccountPhases
<1>1. CASE \E v \in 1..MaxVersion, gateway \in BOOLEAN : Apply(v, gateway)
  <2>1. Beginning /\ UNCHANGED <<fs, enabled, running>>
    BY <1>1, ApplyView DEF Apply, host
  <2>2. before'.fs = fs /\ before'.enabled = enabled /\ before'.running = running
    BY <2>1 DEF Beginning, Host
  <2>3. UnitFiles'
    BY <1>0, <2>1 DEF UnitFiles
  <2> QED BY <2>1, <2>2, <2>3, NamesAndPaths DEF UnitFiles, Beginning, UnitInv
<1>2. ASSUME before' = before, UnitFiles', UnitPhase',
             \A r \in {mem', journal'} \ {None} : ServicesOf(r)
      PROVE  UnitInv'
  BY <1>0, <1>2 DEF UnitInv, UnitFiles, UnitPhase, ServicesOf, ServiceRecord
<1>3. \A r \in {mem, journal} \ {None} : ServicesOf(r)
  BY <1>0, UnitParts
<1>4. CASE RecordSteps
  <2>1. UNCHANGED <<fs, enabled, running, before>> /\ UnitFiles'
    BY <1>0, <1>4, RecordStepsKeepHost DEF UnitFiles
  <2>2. CASE \/ Idle \/ Crash \/ WaitForGateway \/ FileFails \/ RollbackLatest
    <3>1. mem' \in {mem, journal, None} /\ journal' = journal
      BY <2>2 DEF Idle, Crash, WaitForGateway, FileFails, RollbackLatest, Undo, vars
    <3>2. phase' \in {"idle", "stop"} \/ (phase' = "health" /\ phase = "health" /\ UNCHANGED <<mem, plan>>)
      BY <2>2, FailView DEF Idle, Crash, WaitForGateway, FileFails, RollbackLatest, Undo,
         Undoing, Goto, vars, control
    <3>3. UnitPhase'
      BY <1>0, <3>2 DEF UnitPhase
    <3> QED BY <1>2, <1>3, <2>1, <3>1, <3>3
  <2>3. CASE UndoFails
    BY <2>3 DEF UndoFails
  <2>4. CASE Advance
    <3>1. UNCHANGED <<mem, journal, plan, item>> /\ left = {}
      BY <2>4 DEF Advance
    <3>2. UnitPhase'
      <4>1. \/ phase = "services" /\ phase' = "accounts"
            \/ phase = "accounts" /\ phase' = "files" /\ left' = plan.components \cup {"release"}
            \/ phase = "files" /\ phase' = "start"
            \/ phase \in {"start", "health", "nginx"} /\ phase' \in {"health", "nginx", "commit"}
            \/ phase' \in UndoPhases
        BY <2>4, AdvanceCases DEF UndoPhases, UndoCommands
      <4> QED BY <1>0, <2>1, <3>1, <4>1 DEF UnitPhase, UndoPhases, UndoCommands
    <3> QED BY <1>2, <1>3, <2>1, <3>1, <3>2
  <2>5. ASSUME NEW c \in Components, RecordService(c) PROVE UnitInv'
    <3>1. phase = "services" /\ c \in left /\ UNCHANGED plan /\ mem # None
      BY <1>0, <2>5 DEF RecordService, RecordInv
    <3>2. [name |-> c, wasEnabled |-> c \in enabled, wasActive |-> running[c] # None] = ServiceRecord(c)
      BY <1>0, <3>1 DEF UnitPhase, ServiceRecord
    <3>3. PICK q \in TransactionRecord :
              /\ q.services = mem.services \cup {ServiceRecord(c)} /\ q.changes = mem.changes
              /\ mem' = q /\ journal' \in {q, journal}
              /\ (phase' = "services" /\ left' = left \ {c}) \/ phase' = "stop"
      BY <1>0, <2>5, <3>2, RecordServiceView DEF Persisted, Undoing, SameBut
    <3>4. ServiceRecord(c).name = c /\ Names(q.services) = Names(mem.services) \cup {c}
      <4>1. ServiceRecord(c).name = c
        BY DEF ServiceRecord
      <4> QED BY <3>3, <4>1, NamesAndPaths
    <3>5. ServicesOf(q)
      BY <1>3, <3>1, <3>3, <3>4 DEF ServicesOf
    <3>6. UnitPhase'
      BY <1>0, <2>1, <3>1, <3>3, <3>4 DEF UnitPhase
    <3> QED BY <1>2, <1>3, <2>1, <3>3, <3>5, <3>6
  <2>6. CASE \E c \in Components : CaptureFails(c)
    BY <2>6 DEF CaptureFails
  <2>7. CASE RecordCreatedGroup \/ RecordCreatedUser \/ RecordNginxChange \/ Commit \/ MarkRolledBack
    <3>1. UNCHANGED plan
      BY <2>7 DEF RecordCreatedGroup, RecordCreatedUser, RecordNginxChange, Commit, MarkRolledBack
    <3>2. PICK q \in TransactionRecord :
              /\ q.services = mem.services /\ q.changes = mem.changes
              /\ mem' \in {q, None} /\ journal' \in {q, journal}
              /\ \/ phase \in ApplyPhases \ {"services"} /\ phase' \in {"user", "accounts", "nginx_file"} /\ mem' = q
                 \/ phase' \in {"idle", "stop"}
              /\ phase # "idle"
      BY <1>0, <2>7, RecordGroupView, RecordUserView, RecordNginxView, CommitView, MarkView
         DEF Persisted, Undoing, SameBut, RecordCreatedGroup, RecordCreatedUser,
             RecordNginxChange, Commit, MarkRolledBack
    <3>3. ServicesOf(q)
      BY <1>0, <1>3, <3>2 DEF ServicesOf, RecordInv
    <3>4. UnitPhase'
      BY <1>0, <3>1, <3>2 DEF UnitPhase
    <3> QED BY <1>2, <1>3, <2>1, <3>2, <3>3, <3>4
  <2>8. ASSUME NEW f \in Files, InstallBytes(f) PROVE UnitInv'
    <3>1. /\ phase \in {"files", "nginx_file"} /\ f \in left /\ item' = f /\ UNCHANGED plan /\ mem # None
          /\ phase = "nginx_file" => f = "nginx"
          /\ f \in Components => f \in plan.components
      BY <1>0, <2>8 DEF InstallBytes, RecordInv, LeftInv, Components
    <3>2. PICK q \in TransactionRecord :
              /\ q.services = mem.services /\ Paths(q.changes) = Paths(mem.changes) \cup {f}
              /\ mem' = q /\ journal' \in {q, journal}
              /\ (phase' = "write" /\ left' = left) \/ phase' = "stop"
      <4>1. PICK q \in TransactionRecord :
                /\ q.changes = mem.changes \cup {[path |-> f, old |-> fs[f]]}
                /\ SameBut(q, mem, {"changes"})
                /\ Persisted(q, "write", left)
        BY <1>0, <2>8, InstallBytesView
      <4>2. Paths(q.changes) = Paths(mem.changes) \cup {[path |-> f, old |-> fs[f]].path}
        BY <4>1, NamesAndPaths
      <4>3. q.services = mem.services /\ Paths(q.changes) = Paths(mem.changes) \cup {f}
        BY <4>1, <4>2 DEF SameBut
      <4> QED BY <4>1, <4>3 DEF Persisted, Undoing
    <3>3. ServicesOf(q)
      BY <1>0, <1>3, <3>1, <3>2 DEF ServicesOf, UnitPhase
    <3>4. UnitPhase'
      BY <1>0, <2>1, <3>1, <3>2 DEF UnitPhase
    <3> QED BY <1>2, <1>3, <2>1, <3>2, <3>3, <3>4
  <2> QED BY <1>4, <2>2, <2>3, <2>4, <2>5, <2>6, <2>7, <2>8 DEF RecordSteps
<1>5. CASE InstallWrite
  <2>1. /\ phase = "write" /\ fs' = [fs EXCEPT ![item] = NewContent(item)]
        /\ left' = left \ {item} /\ phase' = IF item = "nginx" THEN "reload" ELSE "files"
        /\ UNCHANGED <<before, mem, journal, item, plan, enabled, running>>
    BY <1>5 DEF InstallWrite, Goto
  <2>2. /\ item \in Files /\ NewContent(item) # None
        /\ plan.components \subseteq Components
    BY <1>0, <2>1, ItemTypes, NewContentType, NoneAssumption
  <2>3. fs'[item] # None /\ \A c \in Components : c # item => fs'[c] = fs[c]
    BY <1>0, <2>1, <2>2 DEF TypeOK, Files
  <2>4. UnitFiles' /\ UnitPhase'
    BY <1>0, <2>1, <2>2, <2>3 DEF UnitFiles, UnitPhase
  <2> QED BY <1>2, <1>3, <2>1, <2>4
<1>6. ASSUME NEW c \in Components, Enabled(c), phase = "start", c \in left, fs' = fs PROVE UnitFiles'
  <2>1. fs[c] # None
    BY <1>0, <1>6 DEF UnitPhase, LeftInv
  <2> QED BY <1>0, <1>6, <2>1 DEF UnitFiles, Enabled, TypeOK
<1>7. ASSUME NEW c \in Components, StartService(c) PROVE UnitInv'
  <2>1. /\ phase = "start" /\ c \in left /\ phase' = "start" /\ Enabled(c)
        /\ UNCHANGED <<fs, before, mem, journal, plan>>
    BY <1>7 DEF StartService, Goto
  <2>2. UnitPhase'
    BY <1>0, <2>1 DEF UnitPhase
  <2> QED BY <1>2, <1>3, <1>6, <2>1, <2>2
<1>8. CASE ApplyFails
  <2>1. phase' = "stop" /\ UNCHANGED <<fs, before, mem, journal>>
    BY <1>8, FailView DEF ApplyFails, Undoing
  <2>2. UnitFiles'
    <3>1. CASE UNCHANGED <<enabled, running>>
      BY <1>0, <2>1, <3>1 DEF UnitFiles
    <3>2. CASE phase = "start" /\ \E c \in left : Enabled(c)
      <4>1. left \subseteq Components
        BY <1>0, <3>2, ItemTypes DEF LeftInv
      <4> QED BY <1>6, <2>1, <3>2, <4>1
    <3> QED BY <1>8, <3>1, <3>2 DEF ApplyFails, PartialEffect
  <2>3. UnitPhase'
    BY <2>1 DEF UnitPhase
  <2> QED BY <1>2, <1>3, <2>1, <2>2, <2>3
<1>9. CASE EnsureUser \/ ReloadNginx \/ \E c \in Components : EnsureGroup(c)
  <2>1. /\ UNCHANGED <<fs, before, mem, journal, plan, enabled, running>>
        /\ phase \in ApplyPhases \ {"services"}
        /\ phase' \in {"accounts", "user", "record_group", "record_user", "commit"}
    BY <1>9 DEF EnsureUser, ReloadNginx, EnsureGroup, Goto
  <2>2. UnitFiles' /\ UnitPhase'
    BY <1>0, <2>1 DEF UnitFiles, UnitPhase
  <2> QED BY <1>2, <1>3, <2>1, <2>2
<1>10. CASE \/ UndoNginx
            \/ \E c \in Components : \/ StopService(c) \/ EnableService(c) \/ RestartService(c)
                                     \/ UserDel(c) \/ GroupDel(c)
  <2>1. UNCHANGED <<fs, before, mem, journal>> /\ phase' \in UndoPhases
    BY <1>10 DEF UndoNginx, StopService, EnableService, RestartService, UserDel, GroupDel, Undone,
       UndoPhases, UndoCommands
  <2>2. UnitFiles'
    BY <1>0, <1>10, <2>1 DEF UnitFiles, UndoNginx, StopService, EnableService, RestartService,
       UserDel, GroupDel, TypeOK
  <2>3. UnitPhase'
    BY <2>1 DEF UnitPhase, UndoPhases, UndoCommands
  <2> QED BY <1>2, <1>3, <2>1, <2>2, <2>3
<1>11. ASSUME NEW f \in Files, RestoreFile(f) PROVE UnitInv'
  <2>1. /\ phase = "restore" /\ phase' = "restore" /\ f \in left /\ mem # None
        /\ UNCHANGED <<before, mem, journal, enabled, running>>
    BY <1>0, <1>11 DEF RestoreFile, Undone, RecordInv
  <2>2. \A x \in Files : x # f => fs'[x] = fs[x]
    BY <1>0, <1>11 DEF RestoreFile, TypeOK
  <2>3. f \in Components => f \notin enabled /\ running[f] = None
    <3>1. f \in Components => f \in Names(mem.services)
      BY <1>0, <1>3, <2>1 DEF LeftInv, ServicesOf
    <3> QED BY <1>0, <2>1, <3>1 DEF ServiceInv, UndoneInv, Stopped, UndoPhases
  <2>4. UnitFiles' /\ UnitPhase'
    BY <1>0, <2>1, <2>2, <2>3 DEF UnitFiles, UnitPhase, Files
  <2> QED BY <1>2, <1>3, <2>1, <2>4
<1> QED BY <1>1, <1>4, <1>5, <1>7, <1>8, <1>9, <1>10, <1>11, NextSteps DEF HostSteps

----------------------------------------------------------------------------
(* The services, while they are changed and while that is undone. *)
LEMMA RecordedService ==
    ASSUME UnitInv, NEW r \in {mem, journal} \ {None}
    PROVE  /\ \A c \in Names(r.services) : ServiceRecord(c) \in r.services
           /\ \A c \in Names({s \in r.services : s.wasEnabled}) : c \in before.enabled
           /\ \A c \in Names({s \in r.services : s.wasActive}) : before.running[c] # None
           /\ \A c \in Names(r.services) :
                 /\ c \in before.enabled => c \in Names({s \in r.services : s.wasEnabled})
                 /\ before.running[c] # None => c \in Names({s \in r.services : s.wasActive})
<1>1. \A s \in r.services : s = ServiceRecord(s.name)
  BY DEF UnitInv
<1>2. \A c : /\ ServiceRecord(c).name = c
             /\ ServiceRecord(c).wasEnabled <=> c \in before.enabled
             /\ ServiceRecord(c).wasActive <=> before.running[c] # None
  BY DEF ServiceRecord
<1>3. \A c \in Names(r.services) : ServiceRecord(c) \in r.services
  BY <1>1 DEF Names
<1> QED BY <1>1, <1>2, <1>3 DEF Names

LEMMA ServiceStep ==
    ASSUME InstallerInv, Next, ~failed'
    PROVE  ServiceInv'
<1>0. /\ TypeInv /\ TypeOK /\ RecordInv /\ LeftInv /\ FileInv /\ HostInv /\ UnitInv /\ ServiceInv
      /\ ~failed
  BY FailedStays DEF InstallerInv, TypeInv
<1> USE DEF ApplyPhases, AccountPhases, UndoPhases, UndoCommands
<1>1. CASE \E v \in 1..MaxVersion, gateway \in BOOLEAN : Apply(v, gateway)
  <2>1. Beginning /\ UNCHANGED <<fs, enabled, running>>
    BY <1>1, ApplyView DEF Apply, host
  <2>2. before'.fs = fs /\ before'.enabled = enabled /\ before'.running = running
    BY <2>1 DEF Beginning, Host
  <2>3. \A c \in Components : AsBefore(c)'
    BY <2>1, <2>2 DEF AsBefore, RunsAsBefore
  <2> QED BY <2>1, <2>3 DEF ServiceInv, Covered, Beginning
<1>2. ASSUME UNCHANGED <<enabled, running, before>>
      PROVE  /\ \A r : Covered(r)' <=> Covered(r)
             /\ \A c : /\ AsBefore(c)' <=> AsBefore(c)
                       /\ RunsAsBefore(c)' <=> RunsAsBefore(c)
                       /\ Stopped(c)' <=> Stopped(c)
  BY <1>2 DEF Covered, AsBefore, RunsAsBefore, Stopped, ServiceRecord
<1>3. ASSUME NEW q, Undoing(q), Covered(q)' PROVE ServiceInv'
  BY <1>3 DEF ServiceInv, UndoneInv, Undoing, Covered
<1>4. ASSUME NEW q, NEW r, Covered(q), q.services \subseteq r.services PROVE Covered(r)
  BY <1>4 DEF Covered
<1>5. phase \in ApplyPhases => mem = journal /\ journal # None /\ Covered(mem)
  BY <1>0 DEF RecordInv, ServiceInv
<1>6. CASE RecordSteps
  <2>1. UNCHANGED <<fs, enabled, running, before>>
    BY <1>6, RecordStepsKeepHost
  <2>2. ASSUME NEW q \in TransactionRecord, mem.services \subseteq q.services, phase \in ApplyPhases,
               Undoing(q) \/ (journal' = q /\ phase' \notin UndoPhases)
        PROVE  ServiceInv'
    <3>1. Covered(q)'
      BY <1>2, <1>4, <1>5, <2>1, <2>2
    <3>2. CASE Undoing(q)
      BY <1>3, <3>1, <3>2
    <3>3. CASE journal' = q /\ phase' \notin UndoPhases
      BY <3>1, <3>3 DEF ServiceInv, Covered
    <3> QED BY <2>2, <3>2, <3>3
  <2>3. CASE \/ \E c \in Components : RecordService(c)
             \/ RecordCreatedGroup \/ RecordCreatedUser \/ (\E f \in Files : InstallBytes(f))
             \/ RecordNginxChange \/ Commit
    <3>1. phase \in ApplyPhases
      BY <2>3 DEF RecordService, RecordCreatedGroup, RecordCreatedUser, InstallBytes,
         RecordNginxChange, Commit
    <3>2. \E q \in TransactionRecord :
              /\ mem.services \subseteq q.services
              /\ Undoing(q) \/ (journal' = q /\ phase' \notin UndoPhases)
      <4>1. CASE \E c \in Components : RecordService(c)
        BY <1>0, <4>1, RecordServiceView DEF Persisted
      <4>2. CASE \E f \in Files : InstallBytes(f)
        BY <1>0, <4>2, InstallBytesView DEF Persisted, SameBut
      <4>3. CASE RecordCreatedGroup \/ RecordCreatedUser \/ RecordNginxChange
        BY <1>0, <4>3, RecordGroupView, RecordUserView, RecordNginxView DEF Persisted, SameBut
      <4>4. CASE Commit
        BY <1>0, <4>4, CommitView DEF SameBut
      <4> QED BY <2>3, <4>1, <4>2, <4>3, <4>4
    <3> QED BY <2>2, <3>1, <3>2
  <2>4. CASE FileFails \/ (WaitForGateway /\ running["gateway"].listen # plan.listen)
    <3>1. phase \in ApplyPhases /\ Undoing(mem)
      BY <2>4, FailView DEF FileFails, WaitForGateway
    <3> QED BY <1>2, <1>3, <1>5, <2>1, <3>1
  <2>5. CASE Idle \/ (WaitForGateway /\ running["gateway"].listen = plan.listen)
    <3>1. UNCHANGED <<phase, journal>> /\ phase \notin UndoPhases
      BY <2>5 DEF Idle, WaitForGateway, Goto, vars, control
    <3> QED BY <1>0, <1>2, <2>1, <3>1 DEF ServiceInv
  <2>6. CASE RollbackLatest
    <3>1. Undoing(journal) /\ journal # None /\ phase = "idle"
      BY <2>6 DEF RollbackLatest, Undo, Undoing, Goto, Items
    <3>2. Covered(journal)
      BY <1>0, <3>1 DEF ServiceInv
    <3> QED BY <1>2, <1>3, <2>1, <3>1, <3>2
  <2>7. CASE Crash
    <3>1. UNCHANGED journal /\ phase' = "idle" /\ phase # "idle"
      BY <2>7 DEF Crash, Goto
    <3>2. mem.services = journal.services
      BY <2>7, Zenon DEF Crash
    <3>3. phase \in UndoPhases => Covered(mem)
      BY <1>0 DEF ServiceInv
    <3>4. journal # None => Covered(journal)
      BY <1>0, <1>4, <3>2, <3>3 DEF ServiceInv
    <3> QED BY <1>2, <2>1, <3>1, <3>4 DEF ServiceInv
  <2>8. CASE MarkRolledBack
    <3>1. phase = "mark" /\ phase' = "idle" /\ mem # None
      BY <1>0, <2>8 DEF MarkRolledBack, Goto, RecordInv
    <3>2. \A c \in Components : AsBefore(c)
      <4>1. \A c : ServiceRecord(c) \in mem.services => c \in Names(mem.services)
        BY DEF ServiceRecord, Names
      <4> QED BY <1>0, <3>1, <4>1 DEF ServiceInv, Covered, UndoneInv
    <3>3. \A c \in Components : AsBefore(c)'
      BY <1>2, <2>1, <3>2
    <3> QED BY <3>1, <3>3 DEF ServiceInv, Covered
  <2>9. CASE UndoFails \/ \E c \in Components : CaptureFails(c)
    BY <2>9 DEF UndoFails, CaptureFails
  <2>10. CASE Advance
    <3>1. UNCHANGED <<mem, journal>> /\ left = {}
      BY <2>10 DEF Advance
    <3>2. CASE phase \in ApplyPhases
      <4>1. phase' \in ApplyPhases
        BY <2>10, <3>2, AdvanceCases
      <4> QED BY <1>2, <1>5, <2>1, <3>1, <3>2, <4>1 DEF ServiceInv
    <3>3. CASE phase \in UndoPhases
      <4>1. phase' \in UndoPhases /\ mem # None
        BY <1>0, <2>10, <3>3, AdvanceCases DEF RecordInv
      <4>2. ASSUME NEW c \in Names(mem.services) PROVE UndoneInv(c)'
        <5>1. UndoneInv(c)
          BY <1>0, <3>3 DEF ServiceInv
        <5>2. /\ c \in before.enabled => c \in Names({s \in mem.services : s.wasEnabled})
              /\ before.running[c] # None => c \in Names({s \in mem.services : s.wasActive})
          BY <1>0, <4>1, RecordedService
        <5>3. running[c] = None /\ before.running[c] = None => RunsAsBefore(c)
          BY DEF RunsAsBefore
        <5>4. CASE phase \in {"stop", "restore"}
          BY <1>2, <2>1, <2>10, <3>1, <5>1, <5>4, AdvanceCases DEF UndoneInv
        <5>5. CASE phase = "undo_nginx"
          BY <2>1, <2>10, <3>1, <5>1, <5>2, <5>5, AdvanceCases DEF UndoneInv, Stopped
        <5>6. CASE phase = "enable"
          BY <1>2, <2>1, <2>10, <3>1, <5>1, <5>2, <5>3, <5>6, AdvanceCases DEF UndoneInv
        <5>7. CASE phase \in {"restart", "userdel", "groupdel"}
          BY <1>2, <2>1, <2>10, <3>1, <5>1, <5>7, AdvanceCases DEF UndoneInv, AsBefore
        <5> QED BY <2>10, <3>3, <5>4, <5>5, <5>6, <5>7, AdvanceCases
      <4>3. Covered(mem)
        BY <1>0, <3>3 DEF ServiceInv
      <4> QED BY <1>2, <2>1, <3>1, <4>1, <4>2, <4>3 DEF ServiceInv
    <3> QED BY <2>10, <3>2, <3>3, AdvanceCases
  <2> QED BY <1>6, <2>3, <2>4, <2>5, <2>6, <2>7, <2>8, <2>9, <2>10 DEF RecordSteps
<1>7. ASSUME NEW c \in Components, NEW r, r = mem, mem # None, ServiceRecord(c) \in r.services, Covered(r),
             \A d \in Components \ {c} : (d \in enabled' <=> d \in enabled) /\ running'[d] = running[d],
             before' = before
      PROVE  Covered(r)'
  <2>1. \A d : ServiceRecord(d)' = ServiceRecord(d)
    BY <1>7 DEF ServiceRecord
  <2>2. \A d \in Components \ {c} : AsBefore(d)' <=> AsBefore(d)
    BY <1>7 DEF AsBefore, RunsAsBefore
  <2> QED BY <1>7, <2>1, <2>2 DEF Covered
<1>8. ASSUME NEW c \in Components, Enabled(c), phase = "start", c \in left, before' = before,
             NEW r, r = mem
      PROVE  Covered(r)'
  <2>1. c \in Names(mem.services) /\ mem # None
    BY <1>0, <1>8 DEF LeftInv, UnitInv, RecordInv
  <2>2. ServiceRecord(c) \in mem.services
    BY <1>0, <2>1, RecordedService
  <2>3. \A d \in Components \ {c} : (d \in enabled' <=> d \in enabled) /\ running'[d] = running[d]
    BY <1>0, <1>8 DEF Enabled, TypeOK
  <2> QED BY <1>5, <1>7, <1>8, <2>1, <2>2, <2>3
<1>9. ASSUME NEW c \in Components, StartService(c) PROVE ServiceInv'
  <2>1. /\ phase = "start" /\ c \in left /\ phase' = "start" /\ Enabled(c)
        /\ UNCHANGED <<before, mem, journal>>
    BY <1>9 DEF StartService, Goto
  <2>2. \A r : r = mem => Covered(r)'
    BY <1>8, <2>1
  <2>3. mem = journal
    BY <1>5, <2>1
  <2> QED BY <2>1, <2>2, <2>3 DEF ServiceInv
<1>10. CASE ApplyFails
  <2>1. Undoing(mem) /\ before' = before /\ phase \in ApplyPhases
    BY <1>10, FailView DEF ApplyFails
  <2>2. \A r : r = mem => Covered(r)'
    <3>1. CASE UNCHANGED <<enabled, running>>
      BY <1>2, <1>5, <2>1, <3>1
    <3>2. CASE phase = "start" /\ \E c \in left : Enabled(c)
      <4>1. left \subseteq Components
        BY <1>0, <3>2, ItemTypes DEF LeftInv
      <4> QED BY <1>8, <2>1, <3>2, <4>1
    <3> QED BY <1>10, <3>1, <3>2 DEF ApplyFails, PartialEffect
  <2> QED BY <1>3, <2>1, <2>2
<1>11. CASE EnsureUser \/ ReloadNginx \/ InstallWrite \/ \E c \in Components : EnsureGroup(c)
  <2>1. /\ UNCHANGED <<before, journal, enabled, running>>
        /\ phase \in ApplyPhases /\ phase' \in ApplyPhases
    BY <1>11 DEF EnsureUser, ReloadNginx, EnsureGroup, InstallWrite, Goto
  <2> QED BY <1>2, <1>5, <2>1 DEF ServiceInv
<1>12. CASE \/ UndoNginx \/ \E f \in Files : RestoreFile(f)
            \/ \E c \in Components : UserDel(c) \/ GroupDel(c)
  <2>1. /\ UNCHANGED <<before, journal, mem, enabled, running, phase>>
        /\ phase \in {"restore", "undo_nginx", "userdel", "groupdel"}
    BY <1>12 DEF UndoNginx, RestoreFile, UserDel, GroupDel, Undone
  <2>2. Covered(mem) /\ \A c \in Names(mem.services) : UndoneInv(c)
    BY <1>0, <2>1 DEF ServiceInv
  <2>3. \A c \in Names(mem.services) : UndoneInv(c)'
    BY <1>2, <2>1, <2>2 DEF UndoneInv
  <2> QED BY <1>2, <2>1, <2>2, <2>3 DEF ServiceInv
<1>13. ASSUME NEW c \in Components, StopService(c) \/ EnableService(c) \/ RestartService(c)
       PROVE  ServiceInv'
  <2>1. /\ phase \in {"stop", "enable", "restart"} /\ c \in left /\ left' = left \ {c}
        /\ UNCHANGED <<fs, before, journal, mem, phase>>
    BY <1>13 DEF StopService, EnableService, RestartService, Undone
  <2>2. mem # None /\ Covered(mem) /\ \A d \in Names(mem.services) : UndoneInv(d)
    BY <1>0, <2>1 DEF ServiceInv, RecordInv
  <2>3. c \in Names(mem.services)
    BY <1>0, <2>1 DEF LeftInv, Names
  <2>4. ServiceRecord(c) \in mem.services
    BY <1>0, <2>2, <2>3, RecordedService
  <2>5. \A d \in Components \ {c} : (d \in enabled' <=> d \in enabled) /\ running'[d] = running[d]
    BY <1>0, <1>13 DEF StopService, EnableService, RestartService, TypeOK
  <2>6. \A r : r = mem => Covered(r)'
    BY <1>7, <2>1, <2>2, <2>4, <2>5
  <2>7. Names(mem.services) \subseteq Components
    BY <1>0, <2>1, ItemTypes, RecordFields
  <2>8. ASSUME NEW d \in Names(mem.services) \ {c} PROVE UndoneInv(d)'
    <3>1. UndoneInv(d) /\ d \in Components
      BY <2>2, <2>7
    <3>2. RunsAsBefore(d)' <=> RunsAsBefore(d)
      BY <2>1, <2>5, <3>1 DEF RunsAsBefore
    <3> QED BY <2>1, <2>5, <3>1, <3>2 DEF UndoneInv, Stopped
  <2>9. UndoneInv(c)'
    <3>1. UndoneInv(c)
      BY <2>2, <2>3
    <3>2. CASE StopService(c)
      <4>1. phase = "stop"
        BY <3>2 DEF StopService, Undone
      <4>2. fs[c] = None => Stopped(c)
        BY <1>0 DEF UnitInv, Stopped
      <4>3. Stopped(c)'
        BY <1>0, <3>2, <4>2 DEF StopService, Stopped, TypeOK
      <4> QED BY <2>1, <4>1, <4>3 DEF UndoneInv
    <3>3. CASE EnableService(c)
      <4>1. phase = "enable"
        BY <3>3 DEF EnableService, Undone
      <4>2. c \in before.enabled
        BY <1>0, <2>1, <2>2, <4>1, RecordedService DEF LeftInv
      <4>3. fs[c] # None
        BY <1>0, <4>1, <4>2 DEF UnitInv, FileInv
      <4>4. enabled' = enabled \cup {c} /\ running' = running
        BY <3>3, <4>3 DEF EnableService
      <4> QED BY <2>1, <3>1, <4>1, <4>2, <4>4 DEF UndoneInv
    <3>4. CASE RestartService(c)
      <4>1. phase = "restart" /\ enabled' = enabled
        BY <3>4 DEF RestartService, Undone
      <4>2. before.running[c] # None
        BY <1>0, <2>1, <2>2, <4>1, RecordedService DEF LeftInv
      <4>3. running'[c] = IF running[c] = None THEN before.fs[c] ELSE running[c]
        BY <1>0, <3>4, <4>1 DEF RestartService, FileInv, TypeOK
      <4>4. RunsAsBefore(c)'
        BY <2>1, <3>1, <4>1, <4>2, <4>3 DEF RunsAsBefore, UndoneInv
      <4> QED BY <2>1, <3>1, <4>1, <4>4 DEF UndoneInv
    <3> QED BY <1>13, <3>2, <3>3, <3>4
  <2> QED BY <2>1, <2>6, <2>8, <2>9 DEF ServiceInv
<1> QED BY <1>1, <1>6, <1>9, <1>10, <1>11, <1>12, <1>13, NextSteps DEF HostSteps

----------------------------------------------------------------------------
(* What is marked as rolled back. *)
LEMMA MarkedStep ==
    ASSUME InstallerInv, Next
    PROVE  MarkedInv'
<1>0. TypeInv /\ TypeOK /\ RecordInv /\ FileInv /\ NginxInv /\ HostInv /\ MarkedInv
  BY DEF InstallerInv, TypeInv
<1>1. ASSUME journal' = None \/ journal'.status # "rolled_back" PROVE MarkedInv'
  BY <1>1 DEF MarkedInv
<1>2. phase # "idle" => journal # None /\ journal.status # "rolled_back"
  BY <1>0 DEF MarkedInv, RecordInv
<1>3. CASE MarkRolledBack
  <2>1. phase = "mark" /\ phase' = "idle" /\ mem # None /\ UNCHANGED <<fs, live, enabled, running, before, failed>>
    BY <1>0, <1>3 DEF MarkRolledBack, Goto, RecordInv, host
  <2>2. ASSUME ~failed PROVE Restored
    <3>1. fs = before.fs /\ live \in {before.live, fs["nginx"]}
      BY <1>0, <2>1, <2>2 DEF FileInv, NginxInv
    <3>2. \A c : ServiceRecord(c) \in mem.services => c \in Names(mem.services)
      BY DEF ServiceRecord, Names
    <3>3. \A c \in Components : AsBefore(c)
      BY <2>1, <2>2, <3>2 DEF InstallerInv, ServiceInv, Covered, UndoneInv, UndoPhases
    <3>4. enabled \subseteq Components /\ before.enabled \subseteq Components
      BY <1>0 DEF TypeOK, HostInv, HostType
    <3> QED BY <3>1, <3>3, <3>4 DEF Restored, AsBefore
  <2>3. Restored' <=> Restored
    BY <2>1 DEF Restored, RunsAsBefore
  <2>4. ~failed' => Restored'
    BY <2>1, <2>2, <2>3
  <2> QED BY <2>1, <2>4 DEF MarkedInv
<1>4. CASE Idle
  <2>1. UNCHANGED <<journal, phase, failed, fs, live, enabled, running, before>>
    BY <1>4 DEF Idle, vars, host, control
  <2>2. Restored' <=> Restored
    BY <2>1 DEF Restored, RunsAsBefore
  <2> QED BY <1>0, <2>1, <2>2 DEF MarkedInv
<1>5. CASE RollbackLatest
  BY <1>1, <1>5 DEF RollbackLatest
<1>6. CASE \E v \in 1..MaxVersion, gateway \in BOOLEAN : Apply(v, gateway)
  BY <1>1, <1>6, ApplyView DEF Beginning
<1>7. CASE \/ \E c \in Components : RecordService(c) \/ CaptureFails(c)
           \/ RecordCreatedGroup \/ RecordCreatedUser \/ (\E f \in Files : InstallBytes(f))
           \/ RecordNginxChange \/ Commit
  <2>1. phase \in ApplyPhases /\ phase # "idle"
    BY <1>7 DEF RecordService, CaptureFails, RecordCreatedGroup, RecordCreatedUser, InstallBytes,
       RecordNginxChange, Commit, ApplyPhases, AccountPhases
  <2>2. mem = journal /\ journal.status # "rolled_back"
    BY <1>0, <1>2, <2>1 DEF RecordInv
  <2>3. \E q \in TransactionRecord : q.status \in {mem.status, "complete"} /\ journal' \in {q, journal}
    <3>1. CASE \E c \in Components : RecordService(c)
      BY <1>0, <3>1, RecordServiceView DEF Persisted, Undoing, SameBut
    <3>2. CASE \E c \in Components : CaptureFails(c)
      BY <1>0, <3>2, CaptureView DEF SameBut
    <3>3. CASE \E f \in Files : InstallBytes(f)
      BY <1>0, <3>3, InstallBytesView DEF Persisted, Undoing, SameBut
    <3>4. CASE RecordCreatedGroup \/ RecordCreatedUser \/ RecordNginxChange
      BY <1>0, <3>4, RecordGroupView, RecordUserView, RecordNginxView DEF Persisted, Undoing, SameBut
    <3>5. CASE Commit
      BY <1>0, <3>5, CommitView DEF Undoing
    <3> QED BY <1>7, <3>1, <3>2, <3>3, <3>4, <3>5
  <2> QED BY <1>1, <2>2, <2>3
<1>8. CASE Advance \/ Crash \/ WaitForGateway \/ FileFails \/ UndoFails
  <2>1. journal' = journal /\ phase # "idle"
    BY <1>8 DEF Advance, Crash, WaitForGateway, FileFails, UndoFails, Succ, UndoCommands
  <2> QED BY <1>1, <1>2, <2>1
<1>9. CASE HostSteps
  <2>1. journal' = journal /\ phase # "idle"
    BY <1>9 DEF HostSteps, EnsureGroup, StartService, EnsureUser, InstallWrite, ReloadNginx,
       ApplyFails, StopService, EnableService, RestartService, UserDel, GroupDel, RestoreFile,
       UndoNginx, Undone
  <2> QED BY <1>1, <1>2, <2>1
<1> QED BY <1>3, <1>4, <1>5, <1>6, <1>7, <1>8, <1>9, NextSteps DEF RecordSteps

----------------------------------------------------------------------------
LEMMA InitInv == Init => InstallerInv
<1> SUFFICES ASSUME Init PROVE InstallerInv
  OBVIOUS
<1> USE NoneAssumption, InstallerAssumption
<1>1. /\ journal = None /\ mem = None /\ plan = None /\ phase = "idle" /\ left = {} /\ item = None
      /\ enabled = {} /\ running = [c \in Components |-> None] /\ groups = {} /\ users = {}
      /\ failed = FALSE /\ made = {} /\ installs = 0 /\ faults = 0
  BY DEF Init
<1>2. fs \in [Files -> Content \cup {None}] /\ live \in Content /\ fs["nginx"] \in Content
  BY DEF Init, Content, Files
<1>3. TypeOK
  <2>1. failed \in BOOLEAN
    BY <1>1
  <2>2. phase \in Phases /\ left \in SUBSET (Files \cup {"journal"}) /\ item \in Files \cup {None}
    BY <1>1 DEF Phases
  <2>3. running \in [Components -> Content \cup {None}]
    BY <1>1
  <2>4. installs \in 0..MaxInstalls /\ faults \in 0..MaxFaults
    BY <1>1
  <2> QED BY <1>1, <1>2, <2>1, <2>2, <2>3, <2>4 DEF TypeOK
<1>4. /\ before \in HostType /\ before.fs = fs /\ before.users = {} /\ before.groups = {}
      /\ before.enabled = {} /\ before.running = running
  <2>1. before = Host
    BY DEF Init
  <2> QED BY <1>1, <1>2, <2>1 DEF Host, HostType
<1>5. TypeInv /\ AccountInv /\ FileInv /\ NginxInv /\ MarkedInv
  BY <1>1, <1>2, <1>3, <1>4 DEF TypeInv, HostInv, RecordInv, LeftInv, AccountInv, AccountsKept,
     NewAccounts, Preparing, FileInv, NginxInv, MarkedInv, ApplyPhases, AccountPhases, UndoPhases, UndoCommands
<1>6. UnitInv /\ ServiceInv
  BY <1>1, <1>4 DEF UnitInv, ServiceInv, ApplyPhases, AccountPhases, UndoPhases, UndoCommands
<1> QED BY <1>5, <1>6 DEF InstallerInv

LEMMA InstallerInvInductive == InstallerInv /\ [Next]_vars => InstallerInv'
<1>1. ASSUME InstallerInv, Next PROVE InstallerInv'
  BY <1>1, TypeStep, AccountStep, FileStep, NginxStep, UnitStep, ServiceStep, MarkedStep
     DEF InstallerInv
<1>2. ASSUME InstallerInv, UNCHANGED vars PROVE InstallerInv'
  <2>1. UNCHANGED <<fs, live, enabled, running, groups, users, journal, mem, plan, phase, left,
                    item, failed, before, made, installs, faults>>
    BY <1>2 DEF vars, host, control
  <2>2. TypeInv'
    BY <1>2, <2>1 DEF InstallerInv, TypeInv, TypeOK, HostInv, RecordInv, LeftInv
  <2>3. AccountInv' /\ NginxInv'
    BY <1>2, <2>1 DEF InstallerInv, AccountInv, NewAccounts, AccountsKept, NginxInv
  <2>4. FileInv'
    BY <1>2, <2>1 DEF InstallerInv, FileInv, FileRecord
  <2>5. ~failed' => UnitInv'
    BY <1>2, <2>1 DEF InstallerInv, UnitInv, ServiceRecord
  <2>6. ~failed' => ServiceInv'
    BY <1>2, <2>1 DEF InstallerInv, ServiceInv, Covered, UndoneInv, AsBefore, RunsAsBefore,
       Stopped, ServiceRecord
  <2>7. MarkedInv'
    BY <1>2, <2>1 DEF InstallerInv, MarkedInv, Restored, RunsAsBefore
  <2> QED BY <2>2, <2>3, <2>4, <2>5, <2>6, <2>7 DEF InstallerInv
<1> QED BY <1>1, <1>2

LEMMA InstallerInvHolds == Spec => []InstallerInv
  BY InitInv, InstallerInvInductive, PTL DEF Spec

----------------------------------------------------------------------------
(* The state always has its type: in particular the plan's port lies in    *)
(* the installer's range and is 0 exactly when the plan has no Gateway     *)
(* (BuildPlan, firstFreePort).                                             *)
THEOREM InstallerTypeCorrect == Spec => []TypeOK
<1>1. InstallerInv => TypeOK
  BY DEF InstallerInv, TypeInv
<1> QED BY <1>1, InstallerInvHolds, PTL

(* Neither ensureAccount nor a rollback, however often the installer is    *)
(* killed or a command fails, takes away a user that was there before, and *)
(* a group that was goes only where userdel takes the group of the same    *)
(* name along, with a user that the installation made.                     *)
THEOREM AccountsAreKept == Spec => []AccountsKept
<1>1. InstallerInv => AccountsKept
  BY DEF InstallerInv, AccountInv
<1> QED BY <1>1, InstallerInvHolds, PTL

(* Until the undoing begins, the journal on disk says how to undo every    *)
(* difference of a file, a service or nginx to the host before (persist    *)
(* comes before each change, apply.go and transaction.go).                 *)
THEOREM JournalAlwaysCoversHost == Spec => []JournalCoversHost
<1>1. InstallerInv => JournalCoversHost
  <2> SUFFICES ASSUME InstallerInv, journal # None, phase \notin UndoPhases, ~failed
               PROVE  /\ \A f \in Files : fs[f] # before.fs[f] => FileRecord(f) \in journal.changes
                      /\ \A c \in Components :
                            (c \in enabled) # (c \in before.enabled) \/ ~RunsAsBefore(c) =>
                               ServiceRecord(c) \in journal.services
                      /\ live \notin {before.live, before.fs["nginx"]} => journal.nginx
    BY DEF JournalCoversHost, FileRecord, ServiceRecord
  <2>1. \A f \in Files : fs[f] # before.fs[f] => FileRecord(f) \in journal.changes
    BY DEF InstallerInv, FileInv
  <2>2. Covered(journal)
    BY DEF InstallerInv, ServiceInv
  <2>3. \A c \in Components : AsBefore(c) => ((c \in enabled) = (c \in before.enabled)) /\ RunsAsBefore(c)
    BY DEF AsBefore
  <2>4. live \notin {before.live, before.fs["nginx"]} => journal.nginx
    BY DEF InstallerInv, NginxInv
  <2> QED BY <2>1, <2>2, <2>3, <2>4 DEF Covered
<1> QED BY <1>1, InstallerInvHolds, PTL

(* A transaction that is marked as rolled back left the host as it was     *)
(* before (rollbackChanges, MarkRolledBack), unless a step of the undoing  *)
(* failed or the state of a service was lost.                              *)
THEOREM RollbackAlwaysRestores == Spec => []RollbackRestores
<1>1. InstallerInv => RollbackRestores
  BY DEF InstallerInv, MarkedInv, RollbackRestores
<1> QED BY <1>1, InstallerInvHolds, PTL
=============================================================================
