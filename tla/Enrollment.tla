----------------------------- MODULE Enrollment -----------------------------
(***************************************************************************)
(* How an Agent obtains and keeps its identity: the second part of         *)
(* runCycle (internal/agent/runner.go), with the files of its state        *)
(* directory (identity.go, policy.go, internal/mtls), against the          *)
(* registration, renewal, policy and heartbeat handlers of the control     *)
(* plane (internal/control/server.go).                                     *)
(*                                                                         *)
(* Several processes may share the state directory: the service and an     *)
(* operator's --once.  A file is "absent", "torn" (created, not yet        *)
(* written) or "whole"; files that are replaced by a rename are never      *)
(* torn.  Between the steps below runCycle scans, queues and commits,      *)
(* which is AgentDelivery; after them it flushes.                          *)
(***************************************************************************)
EXTENDS Naturals, FiniteSets

CONSTANTS
    Procs,        \* Agent processes on one state directory
    IDs,          \* the ids registerAgent may draw
    MaxRevision,  \* bound: policy revisions
    MaxAge,       \* the age at which a certificate has expired, or 0: it
                  \* does not age.  It is renewed when it is one short of it
    MaxFaults,    \* bound: crashes, failing writes, lost answers, restores
    None

ASSUME EnrollmentAssumption ==
    /\ MaxRevision \in Nat /\ MaxAge \in Nat /\ MaxFaults \in Nat
    /\ None \notin IDs /\ "torn" \notin IDs
    /\ None # "torn" /\ None \notin [agent : IDs, age : 0..MaxAge]

VARIABLES
    machine,   \* machine.id
    ckey,      \* agent-client-key.pem
    cred,      \* credentials.json: None, "torn" or the Agent id in it
    cert,      \* agent-client-cert.pem: None, or whose it is and how old
    policy,    \* policy.json: its revision, 0 when there is none
    at,        \* at[p]: where p is in its cycle
    me,        \* me[p]: the identity p has loaded or been given, or None
    got,       \* got[p]: the policy revision p has fetched
    base,      \* history: base[p]: the saved revision p has compared it with
    rows,      \* the control plane: the Agents registered for the machine
    late,      \* handlers of abandoned requests, past their lookup
    revision,  \* the revision of the policy in the control plane
    online,    \* it runs and can be reached
    cakey,     \* agent-ca-key.pem
    cacert,    \* agent-ca.pem
    boot,      \* where its first start is, "off" when it is in none
    killed,    \* history: it was killed in one
    faults

disk == <<machine, ckey, cred, cert, policy>>
procs == <<at, me, got, base>>
issuer == <<cakey, cacert, boot, killed>>
control == <<rows, late, revision, online, issuer>>
vars == <<disk, procs, control, faults>>

PC == {"idle", "machine", "load", "csr", "key", "lookup", "create", "issued",
       "save", "saving", "renew", "fetch", "compare", "replace", "heartbeat",
       "connected"}

FileState == {"absent", "torn", "whole"}

(* The type of the state; in particular a certificate in use is always     *)
(* one the control plane has issued, and its age is in range.              *)
TypeOK ==
    /\ machine \in FileState /\ ckey \in FileState
    /\ cred \in IDs \cup {None, "torn"}
    /\ cert \in [agent : IDs, age : 0..MaxAge] \cup {None}
    /\ policy \in 0..MaxRevision
    /\ at \in [Procs -> PC]
    /\ me \in [Procs -> IDs \cup {None}]
    /\ got \in [Procs -> 0..MaxRevision]
    /\ base \in [Procs -> 0..MaxRevision]
    /\ rows \in SUBSET IDs /\ late \in 0..1 /\ revision \in 0..MaxRevision
    /\ cakey \in FileState /\ cacert \in FileState
    /\ boot \in {"off", "key", "pair", "cert"}
    /\ online \in BOOLEAN /\ killed \in BOOLEAN /\ faults \in 0..MaxFaults

Init ==
    /\ machine = "absent" /\ ckey = "absent" /\ cred = None /\ cert = None
    /\ policy = 0
    /\ at = [p \in Procs |-> "idle"]
    /\ me = [p \in Procs |-> None]
    /\ got = [p \in Procs |-> 0]
    /\ base = [p \in Procs |-> 0]
    /\ rows = {} /\ late = 0 /\ revision = 0
    /\ online = FALSE /\ cakey = "absent" /\ cacert = "absent"
    /\ boot = "off" /\ killed = FALSE
    /\ faults = 0

----------------------------------------------------------------------------
Goto(p, pc) == at' = [at EXCEPT ![p] = pc] /\ UNCHANGED <<me, got, base>>

Become(p, pc, a) ==
    /\ at' = [at EXCEPT ![p] = pc] /\ me' = [me EXCEPT ![p] = a]
    /\ UNCHANGED <<got, base>>

(* The cycle returns, with an error or at its end. *)
Return(p) ==
    /\ at' = [at EXCEPT ![p] = "idle"]
    /\ me' = [me EXCEPT ![p] = None]
    /\ got' = [got EXCEPT ![p] = 0]
    /\ base' = [base EXCEPT ![p] = 0]

Fault == faults < MaxFaults /\ faults' = faults + 1

Expired == cert # None /\ MaxAge > 0 /\ cert.age = MaxAge
Renewable == cert # None /\ MaxAge > 0 /\ cert.age = MaxAge - 1

(* authorizeAgent: the credential is known and, as production requires,    *)
(* the connection has a valid certificate of the same Agent.               *)
Authorized(p) == me[p] \in rows /\ cert # None /\ cert.agent = me[p] /\ ~Expired

----------------------------------------------------------------------------
(* LoadOrCreateIssuer, which the control plane calls before it listens:    *)
(* the two files of the CA must exist together and be readable.  With      *)
(* neither, generateCA writes the key and then the certificate.            *)
IssuerLoads == cakey = "whole" /\ cacert = "whole" /\ boot = "off"

CreateCAKey ==
    /\ boot = "off" /\ cakey = "absent" /\ cacert = "absent"
    /\ cakey' = "torn" /\ boot' = "key"
    /\ UNCHANGED <<cacert, online>>

WriteCAKey ==
    /\ boot = "key"
    /\ cakey' = "whole" /\ boot' = "pair"
    /\ UNCHANGED <<cacert, online>>

CreateCACertificate ==
    /\ boot = "pair"
    /\ cacert' = "torn" /\ boot' = "cert"
    /\ UNCHANGED <<cakey, online>>

WriteCACertificate ==
    /\ boot = "cert"
    /\ cacert' = "whole" /\ boot' = "off" /\ online' = TRUE
    /\ UNCHANGED cakey

IssuerStep ==
    /\ CreateCAKey \/ WriteCAKey \/ CreateCACertificate \/ WriteCACertificate
    /\ UNCHANGED <<disk, procs, rows, late, revision, killed, faults>>

(* Mutant: the key stays when the certificate cannot be written. *)
generateCAFails_KeepsKey ==
    /\ boot # "off" /\ Fault
    /\ boot' = "off" /\ cacert' = "absent"
    /\ cakey' = IF boot = "key" THEN "absent" ELSE cakey
    /\ UNCHANGED <<disk, procs, rows, late, revision, online, killed>>

(* A write fails: what has been created is removed, the key too. *)
generateCAFails ==
    /\ boot # "off" /\ Fault
    /\ boot' = "off" /\ cakey' = "absent" /\ cacert' = "absent"
    /\ UNCHANGED <<disk, procs, rows, late, revision, online, killed>>

ControlKilled ==
    /\ boot # "off" /\ Fault
    /\ boot' = "off" /\ killed' = TRUE
    /\ UNCHANGED <<disk, procs, rows, late, revision, online, cakey, cacert>>

----------------------------------------------------------------------------
(* loadOrCreateMachineID.  An empty file is an error: the cycle ends where *)
(* it began.                                                               *)
BeginCycle(p) ==
    /\ at[p] = "idle"
    /\ \/ machine = "whole" /\ Goto(p, "load") /\ UNCHANGED machine
       \/ machine = "absent" /\ machine' = "torn" /\ Goto(p, "machine")
       \/ machine = "torn" /\ UNCHANGED <<machine, procs>>
    /\ UNCHANGED <<ckey, cred, cert, policy, control, faults>>

WriteMachineID(p) ==
    /\ at[p] = "machine"
    /\ machine' = "whole"
    /\ Goto(p, "load")
    /\ UNCHANGED <<ckey, cred, cert, policy, control, faults>>

(* LoadIdentity, then LoadClientCertificate: a torn credentials file and   *)
(* an expired certificate each end the cycle.                              *)
LoadIdentity(p) ==
    /\ at[p] = "load"
    /\ \/ cred = "torn" /\ Return(p)
       \/ cred = None /\ Goto(p, "csr")
       \/ cred \in IDs /\ Expired /\ Return(p)
       \/ cred \in IDs /\ Renewable /\ Become(p, "renew", cred)
       \/ cred \in IDs /\ ~Expired /\ ~Renewable /\ Become(p, "fetch", cred)
    /\ UNCHANGED <<disk, control, faults>>

(* A key file that does not parse ends the cycle. *)
EnsureClientCSR(p) ==
    /\ at[p] = "csr"
    /\ \/ ckey = "whole" /\ Goto(p, "lookup") /\ UNCHANGED ckey
       \/ ckey = "torn" /\ Return(p) /\ UNCHANGED ckey
       \/ ckey = "absent" /\ ckey' = "torn" /\ Goto(p, "key")
    /\ UNCHANGED <<machine, cred, cert, policy, control, faults>>

WriteClientKey(p) ==
    /\ at[p] = "key"
    /\ ckey' = "whole"
    /\ Goto(p, "lookup")
    /\ UNCHANGED <<machine, cred, cert, policy, control, faults>>

----------------------------------------------------------------------------
(* registerAgent: the lookup of the machine id and the insertion are two   *)
(* operations of the store; the machine id is unique in the table.         *)
RegisterLookup(p) ==
    /\ at[p] = "lookup" /\ online
    /\ \/ rows # {} /\ Return(p)
       \/ rows = {} /\ Goto(p, "create")
    /\ UNCHANGED <<disk, control, faults>>

(* Mutant: the table has no unique machine id, only the lookup checks it. *)
CreateAgent_NotUnique(a) == rows' = rows \cup {a}

CreateAgent(a) == rows = {} /\ rows' = {a}

RegisterCreate(p) ==
    /\ at[p] = "create" /\ online
    /\ \/ \E a \in IDs \ rows : CreateAgent(a) /\ Become(p, "issued", a)
       \/ rows # {} /\ Return(p) /\ UNCHANGED rows
    /\ UNCHANGED <<disk, late, revision, online, issuer, faults>>

(* The Agent is registered, and the answer with its only credential lost. *)
RegisterAnswerLost(p) ==
    /\ at[p] = "create" /\ Fault
    /\ \E a \in IDs \ rows : CreateAgent(a)
    /\ Return(p)
    /\ UNCHANGED <<disk, late, revision, online, issuer>>

(* The client gives up while the handler is between its two operations. *)
RegisterTimeout(p) ==
    /\ at[p] = "create" /\ late = 0 /\ Fault
    /\ late' = 1
    /\ Return(p)
    /\ UNCHANGED <<disk, rows, revision, online, issuer>>

LateCreate ==
    /\ late = 1
    /\ late' = 0
    /\ (\E a \in IDs \ rows : CreateAgent(a)) \/ (rows # {} /\ UNCHANGED rows)
    /\ UNCHANGED <<disk, procs, revision, online, issuer, faults>>

(* Mutant: an error of SaveIssuedClientCertificate is ignored. *)
SaveCertificate_ErrorIgnored(p) ==
    /\ at[p] = "issued"
    /\ cert' \in {cert, [agent |-> me[p], age |-> 0]}
    /\ Goto(p, "save")
    /\ UNCHANGED <<machine, ckey, cred, policy, control, faults>>

(* SaveIssuedClientCertificate, then SaveCredentials, which creates the    *)
(* file and fails if there is one.                                         *)
SaveCertificate(p) ==
    /\ at[p] = "issued"
    /\ cert' = [agent |-> me[p], age |-> 0]
    /\ Goto(p, "save")
    /\ UNCHANGED <<machine, ckey, cred, policy, control, faults>>

SaveCredentials(p) ==
    /\ at[p] = "save"
    /\ IF cred = None
       THEN cred' = "torn" /\ Goto(p, "saving")
       ELSE Return(p) /\ UNCHANGED cred
    /\ UNCHANGED <<machine, ckey, cert, policy, control, faults>>

WriteCredentials(p) ==
    /\ at[p] = "saving"
    /\ cred' = me[p]
    /\ Goto(p, "fetch")
    /\ UNCHANGED <<machine, ckey, cert, policy, control, faults>>

----------------------------------------------------------------------------
(* A request to the control plane that is not authorized, or that has no   *)
(* answer, ends the cycle.                                                 *)
Refused(p) ==
    /\ at[p] \in {"renew", "fetch", "heartbeat"}
    /\ ~online \/ ~Authorized(p)
    /\ Return(p)
    /\ UNCHANGED <<disk, control, faults>>

RegisterOffline(p) ==
    /\ at[p] \in {"lookup", "create"} /\ ~online
    /\ Return(p)
    /\ UNCHANGED <<disk, control, faults>>

(* The key of the first request serves again, and the new certificate      *)
(* replaces the old one by a rename.                                       *)
RenewCertificate(p) ==
    /\ at[p] = "renew" /\ online /\ Authorized(p)
    /\ cert' = [agent |-> me[p], age |-> 0]
    /\ Goto(p, "fetch")
    /\ UNCHANGED <<machine, ckey, cred, policy, control, faults>>

FetchPolicy(p) ==
    /\ at[p] = "fetch" /\ online /\ Authorized(p)
    /\ at' = [at EXCEPT ![p] = IF revision = 0 THEN "heartbeat" ELSE "compare"]
    /\ got' = [got EXCEPT ![p] = revision]
    /\ UNCHANGED <<disk, me, base, control, faults>>

Replace(p) ==
    /\ at' = [at EXCEPT ![p] = "replace"]
    /\ base' = [base EXCEPT ![p] = policy]
    /\ UNCHANGED <<me, got>>

(* Mutant: the revision it already has is stale. *)
ComparePolicy_EqualIsStale(p) ==
    /\ at[p] = "compare"
    /\ \/ got[p] > policy /\ Replace(p)
       \/ got[p] <= policy /\ Return(p)
    /\ UNCHANGED <<disk, control, faults>>

(* Mutant: any other revision is saved, whether newer or older. *)
ComparePolicy_Different(p) ==
    /\ at[p] = "compare"
    /\ \/ got[p] # policy /\ Replace(p)
       \/ got[p] = policy /\ Goto(p, "heartbeat")
    /\ UNCHANGED <<disk, control, faults>>

(* A newer policy is saved, an older one ends the cycle. *)
ComparePolicy(p) ==
    /\ at[p] = "compare"
    /\ \/ got[p] > policy /\ Replace(p)
       \/ got[p] = policy /\ Goto(p, "heartbeat")
       \/ got[p] < policy /\ Return(p)
    /\ UNCHANGED <<disk, control, faults>>

SavePolicy(p) ==
    /\ at[p] = "replace"
    /\ policy' = got[p]
    /\ at' = [at EXCEPT ![p] = "heartbeat"]
    /\ base' = [base EXCEPT ![p] = 0]
    /\ UNCHANGED <<machine, ckey, cred, cert, me, got, control, faults>>

Heartbeat(p) ==
    /\ at[p] = "heartbeat" /\ online /\ Authorized(p)
    /\ Goto(p, "connected")
    /\ UNCHANGED <<disk, control, faults>>

EndCycle(p) ==
    /\ at[p] = "connected"
    /\ Return(p)
    /\ UNCHANGED <<disk, control, faults>>

----------------------------------------------------------------------------
(* A write fails: the file that was created is removed again, and the      *)
(* target of a rename stays as it was.                                     *)
WriteFails(p) ==
    /\ Fault
    /\ \/ at[p] = "machine" /\ machine' = "absent" /\ UNCHANGED <<ckey, cred>>
       \/ at[p] = "key" /\ ckey' = "absent" /\ UNCHANGED <<machine, cred>>
       \/ at[p] = "saving" /\ cred' = None /\ UNCHANGED <<machine, ckey>>
       \/ at[p] \in {"issued", "save", "renew", "replace"}
          /\ UNCHANGED <<machine, ckey, cred>>
    /\ Return(p)
    /\ UNCHANGED <<cert, policy, control>>

(* The process dies; nobody removes what it has not finished. *)
Crash(p) ==
    /\ at[p] # "idle" /\ Fault
    /\ Return(p)
    /\ UNCHANGED <<disk, control>>

(* An administrator saves a policy; the policies are restored from an      *)
(* older backup; a certificate grows old; the control plane comes and goes *)
PutPolicy ==
    /\ rows # {} /\ revision < MaxRevision
    /\ revision' = revision + 1
    /\ UNCHANGED <<disk, procs, rows, late, online, issuer, faults>>

RestoreBackup ==
    /\ Fault
    /\ revision' \in {r \in 0..MaxRevision : r < revision}
    /\ UNCHANGED <<disk, procs, rows, late, online, issuer>>

Age ==
    /\ cert # None /\ cert.age < MaxAge
    /\ cert' = [agent |-> cert.agent, age |-> cert.age + 1]
    /\ UNCHANGED <<machine, ckey, cred, policy, procs, control, faults>>

ControlToggles ==
    /\ online \/ IssuerLoads
    /\ online' = ~online
    /\ UNCHANGED <<disk, procs, rows, late, revision, issuer, faults>>

----------------------------------------------------------------------------
CycleStep(p) ==
    \/ BeginCycle(p) \/ WriteMachineID(p) \/ LoadIdentity(p)
    \/ EnsureClientCSR(p) \/ WriteClientKey(p)
    \/ RegisterLookup(p) \/ RegisterCreate(p) \/ RegisterOffline(p)
    \/ SaveCertificate(p) \/ SaveCredentials(p) \/ WriteCredentials(p)
    \/ Refused(p) \/ RenewCertificate(p)
    \/ FetchPolicy(p) \/ ComparePolicy(p) \/ SavePolicy(p)
    \/ Heartbeat(p) \/ EndCycle(p)

Next ==
    \/ \E p \in Procs :
          \/ CycleStep(p)
          \/ RegisterAnswerLost(p) \/ RegisterTimeout(p) \/ WriteFails(p) \/ Crash(p)
    \/ IssuerStep \/ generateCAFails \/ ControlKilled
    \/ LateCreate \/ PutPolicy \/ RestoreBackup \/ Age \/ ControlToggles

Spec == Init /\ [][Next]_vars

(* Every process runs its cycles, and systemd starts the control plane     *)
(* again when it has failed; whether it is reached, the administrator, the *)
(* calendar and the faults owe nothing.                                    *)
FairSpec ==
    /\ Spec /\ WF_vars(IssuerStep)
    /\ \A p \in Procs : WF_vars(CycleStep(p))

----------------------------------------------------------------------------
(* One machine never has two identities, although registerAgent looks it   *)
(* up long before it inserts it: concurrent processes, and a request whose *)
(* client has given up, race for the same row.                             *)
OneAgentPerMachine == Cardinality(rows) <= 1

(* What the state directory says the Agent is, the control plane accepts:  *)
(* saved credentials belong to a registered Agent, and the certificate     *)
(* saved before them is of the same Agent, whichever process saved which.  *)
IdentityConsistent ==
    cred \in IDs => cred \in rows /\ cert # None /\ cert.agent = cred

(* The saved policy goes back to an older revision only in a race: another *)
(* process on the directory has replaced it between this one's comparison  *)
(* and its write.  In particular a control plane that was restored from a  *)
(* backup, and serves older revisions, never takes an Agent back.  (The    *)
(* race contradicts INTEGRATION_CHECKS.md line 140, which says that an     *)
(* Agent accepts a policy only if its revision is monotonic.)              *)
PolicyBackOnlyInRace ==
    [][policy' < policy =>
          \E p \in Procs : at[p] = "replace" /\ base[p] # policy]_vars

(* The states from which no cycle gets through: registered but the answer  *)
(* was lost or not saved, a file that a crash has left torn, a certificate *)
(* that expired before it could be renewed, a control plane that has       *)
(* forgotten the latest policy.                                            *)
Unsaved == rows # {} /\ cred = None
TornFile == machine = "torn" \/ ckey = "torn" \/ cred = "torn"
Forgotten == 0 < revision /\ revision < policy
Stranded == Unsaved \/ TornFile \/ Expired \/ Forgotten

Connected == \E p \in Procs : at[p] = "connected"

(* Those are the only ones: once the control plane stays reachable, an     *)
(* Agent that is not stranded gets a heartbeat through again and again.    *)
ConnectsUnlessStranded == <>[](online /\ ~Stranded) => []<>Connected

(* The control plane gets its CA and listens, although each of the writes  *)
(* of its first start may fail: a failed start leaves nothing that refuses *)
(* the next one.  The exception is a start that is killed between the two  *)
(* files; the half pair that it leaves makes every later start fail.       *)
IssuerReady == <>(IssuerLoads \/ killed)
=============================================================================
