-------------------------- MODULE EnrollmentProofs --------------------------
(***************************************************************************)
(* What holds of enrollment for every number of processes on the state     *)
(* directory, and for every bound on ids, revisions and faults: one Agent  *)
(* per machine (OneAgentPerMachine), saved credentials that the control    *)
(* plane accepts (IdentityConsistent), and a saved policy that goes back   *)
(* only in a race (PolicyBackOnlyInRace).                                  *)
(***************************************************************************)
EXTENDS Enrollment, FiniteSetTheorems, TLAPS

(* Every identity that a process, a file or a certificate has is the one   *)
(* registered for the machine, and a certificate is saved before the       *)
(* credentials are.                                                        *)
IdentityInv ==
    /\ \A a, b \in rows : a = b
    /\ \A p \in Procs : me[p] # None => me[p] \in rows
    /\ cert # None => cert.agent \in rows
    /\ cred \in IDs => cred \in rows /\ cert # None

(* What a process has at the steps that save it; what it is about to write *)
(* as its policy is newer than the one it has compared it with.            *)
ProcInv ==
    \A p \in Procs :
        /\ at[p] \in {"issued", "save", "saving"} => me[p] # None
        /\ at[p] \in {"save", "saving"} => cert # None
        /\ at[p] = "replace" => base[p] < got[p]

EnrollmentInv == TypeOK /\ IdentityInv /\ ProcInv

(* The part of the invariant about the processes. *)
CycleInv ==
    /\ IdentityInv /\ ProcInv
    /\ at \in [Procs -> PC] /\ me \in [Procs -> IDs \cup {None}]
    /\ got \in [Procs -> 0..MaxRevision] /\ base \in [Procs -> 0..MaxRevision]

----------------------------------------------------------------------------
(* The machine is not registered and nobody has an identity. *)
LEMMA EnrollmentInit == Init => EnrollmentInv
<1> SUFFICES ASSUME Init PROVE EnrollmentInv
  OBVIOUS
<1> USE EnrollmentAssumption
<1>1. TypeOK
  <2>1. online \in BOOLEAN /\ killed \in BOOLEAN
    BY DEF Init
  <2> QED BY <2>1 DEF Init, TypeOK, FileState, PC
<1>2. IdentityInv
  BY DEF Init, IdentityInv
<1>3. ProcInv
  BY DEF Init, ProcInv
<1> QED BY <1>1, <1>2, <1>3 DEF EnrollmentInv

(* Where the steps of a process leave it: at another step with what it     *)
(* had, with an identity, or at the start of a cycle without one.          *)
LEMMA GotoProc ==
    ASSUME TypeOK, NEW p \in Procs, NEW pc \in PC, Goto(p, pc)
    PROVE  /\ at' \in [Procs -> PC] /\ at'[p] = pc
           /\ \A q \in Procs : q # p => at'[q] = at[q]
           /\ UNCHANGED <<me, got, base>>
  BY DEF TypeOK, Goto

(* As above, for an identity that is loaded or given. *)
LEMMA BecomeProc ==
    ASSUME TypeOK, NEW p \in Procs, NEW pc \in PC, NEW a \in IDs, Become(p, pc, a)
    PROVE  /\ at' \in [Procs -> PC] /\ at'[p] = pc
           /\ me' \in [Procs -> IDs \cup {None}] /\ me'[p] = a
           /\ \A q \in Procs : q # p => at'[q] = at[q] /\ me'[q] = me[q]
           /\ UNCHANGED <<got, base>>
  BY DEF TypeOK, Become

(* As above, for the end of a cycle. *)
LEMMA ReturnProc ==
    ASSUME TypeOK, NEW p \in Procs, Return(p)
    PROVE  /\ at' \in [Procs -> PC] /\ at'[p] = "idle"
           /\ me' \in [Procs -> IDs \cup {None}] /\ me'[p] = None
           /\ got' \in [Procs -> 0..MaxRevision] /\ base' \in [Procs -> 0..MaxRevision]
           /\ \A q \in Procs : q # p => /\ at'[q] = at[q] /\ me'[q] = me[q]
                                        /\ got'[q] = got[q] /\ base'[q] = base[q]
  BY EnrollmentAssumption DEF TypeOK, Return, PC

(* A cycle that ends, while the registrations and the files of the         *)
(* identity stay, keeps the invariant.                                     *)
LEMMA ReturnInv ==
    ASSUME EnrollmentInv, NEW p \in Procs, Return(p), UNCHANGED <<cred, cert, rows>>
    PROVE  CycleInv'
<1>1. TypeOK /\ IdentityInv /\ ProcInv
  BY DEF EnrollmentInv
<1>2. IdentityInv'
  BY <1>1, ReturnProc DEF IdentityInv
<1>3. ProcInv'
  BY <1>1, ReturnProc DEF ProcInv
<1> QED BY <1>1, <1>2, <1>3, ReturnProc DEF CycleInv

(* A process that moves on with what it has, to a step that needs no more. *)
LEMMA GotoInv ==
    ASSUME EnrollmentInv, NEW p \in Procs,
           NEW pc \in PC \ {"issued", "save", "saving", "replace"}, Goto(p, pc),
           UNCHANGED <<cred, cert, rows>>
    PROVE  CycleInv'
<1>1. TypeOK /\ IdentityInv /\ ProcInv
  BY DEF EnrollmentInv
<1>2. IdentityInv'
  BY <1>1, GotoProc DEF IdentityInv
<1>3. ProcInv'
  BY <1>1, GotoProc DEF ProcInv
<1> QED BY <1>1, <1>2, <1>3, GotoProc DEF CycleInv, TypeOK

----------------------------------------------------------------------------
(* The steps before the registration: machine id, saved identity, key. *)
LEMMA LoadStepInv ==
    ASSUME EnrollmentInv, NEW p \in Procs,
           \/ BeginCycle(p) \/ WriteMachineID(p) \/ LoadIdentity(p)
           \/ EnsureClientCSR(p) \/ WriteClientKey(p)
    PROVE  EnrollmentInv'
<1> USE EnrollmentAssumption
<1>0. TypeOK /\ IdentityInv /\ ProcInv
  BY DEF EnrollmentInv
<1>1. UNCHANGED <<cred, cert, policy, rows, late, revision, online, cakey, cacert, boot, killed, faults>>
  BY DEF BeginCycle, WriteMachineID, LoadIdentity, EnsureClientCSR, WriteClientKey,
     control, issuer, disk
<1>2. machine' \in FileState /\ ckey' \in FileState
  BY <1>0 DEF BeginCycle, WriteMachineID, LoadIdentity, EnsureClientCSR, WriteClientKey,
     disk, TypeOK, FileState
<1>3. CycleInv'
  <2>1. ASSUME Return(p) PROVE CycleInv'
    BY <1>1, <2>1, ReturnInv
  <2>2. ASSUME NEW pc \in {"machine", "load", "csr", "key", "lookup"}, Goto(p, pc) PROVE CycleInv'
    BY <1>1, <2>2, GotoInv DEF PC
  <2>3. ASSUME NEW pc \in {"renew", "fetch"}, cred \in IDs, Become(p, pc, cred) PROVE CycleInv'
    <3>1. /\ at' \in [Procs -> PC] /\ at'[p] = pc
          /\ me' \in [Procs -> IDs \cup {None}] /\ me'[p] = cred
          /\ \A q \in Procs : q # p => at'[q] = at[q] /\ me'[q] = me[q]
          /\ UNCHANGED <<got, base>>
      BY <1>0, <2>3, BecomeProc DEF PC
    <3>2. IdentityInv'
      BY <1>0, <1>1, <2>3, <3>1 DEF IdentityInv
    <3>3. ProcInv'
      BY <1>0, <1>1, <2>3, <3>1 DEF ProcInv
    <3> QED BY <1>0, <3>1, <3>2, <3>3 DEF TypeOK, CycleInv
  <2>4. ASSUME UNCHANGED procs PROVE CycleInv'
    BY <1>0, <1>1, <2>4 DEF procs, TypeOK, IdentityInv, ProcInv, CycleInv
  <2>5. CASE BeginCycle(p) \/ WriteMachineID(p)
    BY <2>2, <2>4, <2>5 DEF BeginCycle, WriteMachineID
  <2>6. CASE LoadIdentity(p)
    BY <2>1, <2>2, <2>3, <2>6 DEF LoadIdentity
  <2>7. CASE EnsureClientCSR(p) \/ WriteClientKey(p)
    BY <2>1, <2>2, <2>7 DEF EnsureClientCSR, WriteClientKey
  <2> QED BY <2>5, <2>6, <2>7
<1>4. TypeOK'
  BY <1>0, <1>1, <1>2, <1>3 DEF TypeOK, CycleInv
<1> QED BY <1>3, <1>4 DEF EnrollmentInv, CycleInv

(* An insertion into the table of Agents, whose machine id is unique:      *)
(* nobody had an identity before it, and there is one afterwards.          *)
LEMMA CreateAgentIdentity ==
    ASSUME EnrollmentInv, NEW a \in IDs, CreateAgent(a), UNCHANGED <<cred, cert>>,
           \A q \in Procs : me'[q] \in {me[q], a, None}
    PROVE  IdentityInv' /\ rows' \in SUBSET IDs
  BY DEF EnrollmentInv, IdentityInv, CreateAgent, TypeOK

(* registerAgent, whoever waits for its answer: a second insertion fails. *)
LEMMA RegisterStepInv ==
    ASSUME EnrollmentInv,
           \/ LateCreate
           \/ \E p \in Procs : \/ RegisterLookup(p) \/ RegisterCreate(p) \/ RegisterOffline(p)
                               \/ RegisterAnswerLost(p) \/ RegisterTimeout(p)
    PROVE  EnrollmentInv'
<1> USE EnrollmentAssumption
<1>0. TypeOK /\ IdentityInv /\ ProcInv
  BY DEF EnrollmentInv
<1>1. UNCHANGED <<machine, ckey, cred, cert, policy, revision, online, cakey, cacert, boot, killed>>
  BY DEF LateCreate, RegisterLookup, RegisterCreate, RegisterOffline, RegisterAnswerLost,
     RegisterTimeout, control, issuer, disk
<1>2. late' \in 0..1 /\ faults' \in 0..MaxFaults
  BY <1>0 DEF LateCreate, RegisterLookup, RegisterCreate, RegisterOffline,
     RegisterAnswerLost, RegisterTimeout, Fault, TypeOK, control, issuer
<1>3. CycleInv' /\ rows' \in SUBSET IDs
  <2>1. ASSUME NEW p \in Procs, Return(p), UNCHANGED rows PROVE CycleInv' /\ rows' \in SUBSET IDs
    BY <1>0, <1>1, <2>1, ReturnInv DEF TypeOK
  <2>2. ASSUME NEW p \in Procs, Return(p), NEW a \in IDs, CreateAgent(a) PROVE CycleInv' /\ rows' \in SUBSET IDs
    <3>1. IdentityInv' /\ rows' \in SUBSET IDs
      BY <1>0, <1>1, <2>2, ReturnProc, CreateAgentIdentity
    <3>2. ProcInv'
      BY <1>0, <1>1, <2>2, ReturnProc DEF ProcInv
    <3> QED BY <1>0, <2>2, <3>1, <3>2, ReturnProc DEF CycleInv
  <2>3. ASSUME NEW p \in Procs, NEW a \in IDs, CreateAgent(a), Become(p, "issued", a)
        PROVE  CycleInv' /\ rows' \in SUBSET IDs
    <3>1. /\ at' \in [Procs -> PC] /\ at'[p] = "issued"
          /\ me' \in [Procs -> IDs \cup {None}] /\ me'[p] = a
          /\ \A q \in Procs : q # p => at'[q] = at[q] /\ me'[q] = me[q]
          /\ UNCHANGED <<got, base>>
      BY <1>0, <2>3, BecomeProc DEF PC
    <3>2. IdentityInv' /\ rows' \in SUBSET IDs
      BY <1>1, <2>3, <3>1, CreateAgentIdentity
    <3>3. ProcInv'
      BY <1>0, <1>1, <3>1 DEF ProcInv
    <3> QED BY <1>0, <3>1, <3>2, <3>3 DEF TypeOK, CycleInv
  <2>4. ASSUME NEW p \in Procs, Goto(p, "create"), UNCHANGED rows PROVE CycleInv' /\ rows' \in SUBSET IDs
    BY <1>0, <1>1, <2>4, GotoInv DEF PC, TypeOK
  <2>5. ASSUME UNCHANGED procs, (\E a \in IDs : CreateAgent(a)) \/ UNCHANGED rows PROVE CycleInv' /\ rows' \in SUBSET IDs
    <3>1. IdentityInv' /\ rows' \in SUBSET IDs
      BY <1>0, <1>1, <2>5, CreateAgentIdentity DEF procs, IdentityInv, TypeOK
    <3> QED BY <1>0, <1>1, <2>5, <3>1 DEF procs, TypeOK, ProcInv, CycleInv
  <2>6. CASE LateCreate
    BY <2>5, <2>6 DEF LateCreate
  <2>7. ASSUME NEW p \in Procs, \/ RegisterLookup(p) \/ RegisterOffline(p) \/ RegisterTimeout(p)
        PROVE  CycleInv' /\ rows' \in SUBSET IDs
    BY <2>1, <2>4, <2>7 DEF RegisterLookup, RegisterOffline, RegisterTimeout, control
  <2>8. ASSUME NEW p \in Procs, RegisterCreate(p) \/ RegisterAnswerLost(p) PROVE CycleInv' /\ rows' \in SUBSET IDs
    BY <2>1, <2>2, <2>3, <2>8 DEF RegisterCreate, RegisterAnswerLost
  <2> QED BY <2>6, <2>7, <2>8
<1>4. TypeOK'
  BY <1>0, <1>1, <1>2, <1>3 DEF TypeOK, CycleInv
<1> QED BY <1>3, <1>4 DEF EnrollmentInv, CycleInv

(* The issued certificate, and then the credentials, are saved. *)
LEMMA SaveStepInv ==
    ASSUME EnrollmentInv, NEW p \in Procs,
           \/ SaveCertificate(p) \/ SaveCredentials(p) \/ WriteCredentials(p)
           \/ RenewCertificate(p)
    PROVE  EnrollmentInv'
<1> USE EnrollmentAssumption
<1>0. TypeOK /\ IdentityInv /\ ProcInv
  BY DEF EnrollmentInv
<1>1. UNCHANGED <<machine, ckey, policy, rows, late, revision, online, cakey, cacert, boot, killed, faults>>
  BY DEF SaveCertificate, SaveCredentials, WriteCredentials, RenewCertificate, control, issuer
<1>2. CASE SaveCertificate(p) \/ RenewCertificate(p)
  <2>1. PICK pc \in {"save", "fetch"} : Goto(p, pc)
    BY <1>2 DEF SaveCertificate, RenewCertificate
  <2>2. /\ cert' = [agent |-> me[p], age |-> 0] /\ cred' = cred
    BY <1>2 DEF SaveCertificate, RenewCertificate
  <2>3. me[p] \in rows /\ me[p] \in IDs /\ me[p] # None
    BY <1>0, <1>2 DEF SaveCertificate, RenewCertificate, Authorized, IdentityInv, ProcInv, TypeOK
  <2>4. cert' \in [agent : IDs, age : 0..MaxAge] /\ cert' # None /\ cert'.agent = me[p]
    BY <2>2, <2>3
  <2>5. /\ at' \in [Procs -> PC] /\ at'[p] = pc
        /\ \A q \in Procs : q # p => at'[q] = at[q]
        /\ UNCHANGED <<me, got, base>>
    BY <1>0, <2>1, GotoProc DEF PC
  <2>6. IdentityInv'
    BY <1>0, <1>1, <2>2, <2>3, <2>4, <2>5 DEF IdentityInv
  <2>7. ProcInv'
    BY <1>0, <2>3, <2>4, <2>5 DEF ProcInv
  <2>8. TypeOK'
    BY <1>0, <1>1, <2>2, <2>4, <2>5 DEF TypeOK
  <2> QED BY <2>6, <2>7, <2>8 DEF EnrollmentInv
<1>3. CASE SaveCredentials(p)
  <2>1. CASE cred = None
    <3>1. cred' = "torn" /\ Goto(p, "saving") /\ cert' = cert
      BY <1>3, <2>1 DEF SaveCredentials
    <3>2. /\ at' \in [Procs -> PC] /\ at'[p] = "saving"
          /\ \A q \in Procs : q # p => at'[q] = at[q]
          /\ UNCHANGED <<me, got, base>>
      BY <1>0, <3>1, GotoProc DEF PC
    <3>3. at[p] = "save"
      BY <1>3 DEF SaveCredentials
    <3>4. IdentityInv'
      BY <1>0, <1>1, <3>1, <3>2 DEF IdentityInv
    <3>5. ProcInv'
      BY <1>0, <3>1, <3>2, <3>3 DEF ProcInv
    <3>6. TypeOK'
      BY <1>0, <1>1, <3>1, <3>2 DEF TypeOK
    <3> QED BY <3>4, <3>5, <3>6 DEF EnrollmentInv
  <2>2. CASE cred # None
    <3>1. Return(p) /\ UNCHANGED <<cred, cert>>
      BY <1>3, <2>2 DEF SaveCredentials
    <3>2. CycleInv'
      BY <1>1, <3>1, ReturnInv
    <3>3. TypeOK'
      BY <1>0, <1>1, <3>1, <3>2 DEF TypeOK, CycleInv
    <3> QED BY <3>2, <3>3 DEF EnrollmentInv, CycleInv
  <2> QED BY <2>1, <2>2
<1>4. CASE WriteCredentials(p)
  <2>1. at[p] = "saving" /\ cred' = me[p] /\ Goto(p, "fetch") /\ cert' = cert
    BY <1>4 DEF WriteCredentials
  <2>2. /\ at' \in [Procs -> PC] /\ at'[p] = "fetch"
        /\ \A q \in Procs : q # p => at'[q] = at[q]
        /\ UNCHANGED <<me, got, base>>
    BY <1>0, <2>1, GotoProc DEF PC
  <2>3. me[p] \in rows /\ me[p] \in IDs /\ cert # None
    BY <1>0, <2>1 DEF IdentityInv, ProcInv, TypeOK
  <2>4. IdentityInv'
    BY <1>0, <1>1, <2>1, <2>2, <2>3 DEF IdentityInv
  <2>5. ProcInv'
    BY <1>0, <2>1, <2>2 DEF ProcInv
  <2>6. TypeOK'
    BY <1>0, <1>1, <2>1, <2>2, <2>3 DEF TypeOK
  <2> QED BY <2>4, <2>5, <2>6 DEF EnrollmentInv
<1> QED BY <1>2, <1>3, <1>4

(* The policy and the heartbeat: only a newer revision is about to be      *)
(* written.                                                                *)
LEMMA PolicyStepInv ==
    ASSUME EnrollmentInv, NEW p \in Procs,
           \/ Refused(p) \/ FetchPolicy(p) \/ ComparePolicy(p) \/ SavePolicy(p)
           \/ Heartbeat(p) \/ EndCycle(p)
    PROVE  EnrollmentInv'
<1> USE EnrollmentAssumption
<1>0. TypeOK /\ IdentityInv /\ ProcInv
  BY DEF EnrollmentInv
<1>1. UNCHANGED <<machine, ckey, cred, cert, rows, late, revision, online, cakey, cacert, boot, killed, faults>>
  BY DEF Refused, FetchPolicy, ComparePolicy, SavePolicy, Heartbeat, EndCycle,
     control, issuer, disk
<1>2. policy' \in 0..MaxRevision
  BY <1>0 DEF Refused, FetchPolicy, ComparePolicy, SavePolicy, Heartbeat, EndCycle, disk, TypeOK
<1>3. CycleInv'
  <2>1. ASSUME Return(p) PROVE CycleInv'
    BY <1>1, <2>1, ReturnInv
  <2>2. ASSUME NEW pc \in {"heartbeat", "connected"}, Goto(p, pc) PROVE CycleInv'
    BY <1>1, <2>2, GotoInv DEF PC
  <2>3. CASE FetchPolicy(p)
    <3>1. PICK pc \in {"heartbeat", "compare"} : at' = [at EXCEPT ![p] = pc]
      BY <2>3 DEF FetchPolicy
    <3>2. got' = [got EXCEPT ![p] = revision] /\ UNCHANGED <<me, base>>
      BY <2>3 DEF FetchPolicy
    <3>3. /\ at' \in [Procs -> PC] /\ at'[p] = pc /\ got' \in [Procs -> 0..MaxRevision]
          /\ \A q \in Procs : q # p => at'[q] = at[q] /\ got'[q] = got[q]
      BY <1>0, <3>1, <3>2 DEF TypeOK, PC
    <3>4. IdentityInv' /\ ProcInv'
      BY <1>0, <1>1, <3>2, <3>3 DEF IdentityInv, ProcInv
    <3> QED BY <1>0, <3>2, <3>3, <3>4 DEF CycleInv, TypeOK
  <2>4. ASSUME Replace(p), got[p] > policy PROVE CycleInv'
    <3>1. /\ at' = [at EXCEPT ![p] = "replace"] /\ base' = [base EXCEPT ![p] = policy]
          /\ UNCHANGED <<me, got>>
      BY <2>4 DEF Replace
    <3>2. /\ at' \in [Procs -> PC] /\ at'[p] = "replace"
          /\ base' \in [Procs -> 0..MaxRevision] /\ base'[p] = policy
          /\ \A q \in Procs : q # p => at'[q] = at[q] /\ base'[q] = base[q]
      BY <1>0, <3>1 DEF TypeOK, PC
    <3>3. policy < got[p]
      BY <1>0, <2>4 DEF TypeOK
    <3>4. IdentityInv' /\ ProcInv'
      BY <1>0, <1>1, <3>1, <3>2, <3>3 DEF IdentityInv, ProcInv
    <3> QED BY <1>0, <3>1, <3>2, <3>4 DEF CycleInv, TypeOK
  <2>5. CASE SavePolicy(p)
    <3>1. /\ at' = [at EXCEPT ![p] = "heartbeat"] /\ base' = [base EXCEPT ![p] = 0]
          /\ UNCHANGED <<me, got>>
      BY <2>5 DEF SavePolicy
    <3>2. /\ at' \in [Procs -> PC] /\ at'[p] = "heartbeat" /\ base' \in [Procs -> 0..MaxRevision]
          /\ \A q \in Procs : q # p => at'[q] = at[q] /\ base'[q] = base[q]
      BY <1>0, <3>1 DEF TypeOK, PC
    <3>3. IdentityInv' /\ ProcInv'
      BY <1>0, <1>1, <3>1, <3>2 DEF IdentityInv, ProcInv
    <3> QED BY <1>0, <3>1, <3>2, <3>3 DEF CycleInv, TypeOK
  <2>6. CASE ComparePolicy(p)
    BY <2>1, <2>2, <2>4, <2>6 DEF ComparePolicy
  <2>7. CASE Refused(p) \/ Heartbeat(p) \/ EndCycle(p)
    BY <2>1, <2>2, <2>7 DEF Refused, Heartbeat, EndCycle
  <2> QED BY <2>3, <2>5, <2>6, <2>7
<1>4. TypeOK'
  BY <1>0, <1>1, <1>2, <1>3 DEF TypeOK, CycleInv
<1> QED BY <1>3, <1>4 DEF EnrollmentInv, CycleInv

(* A write that fails and a process that dies: the credentials file may be *)
(* removed again, an identity that was saved may not.                      *)
LEMMA FailureInv ==
    ASSUME EnrollmentInv, NEW p \in Procs, WriteFails(p) \/ Crash(p)
    PROVE  EnrollmentInv'
<1> USE EnrollmentAssumption
<1>0. TypeOK /\ IdentityInv /\ ProcInv
  BY DEF EnrollmentInv
<1>1. /\ UNCHANGED <<cert, policy, rows, late, revision, online, cakey, cacert, boot, killed>>
      /\ Return(p) /\ cred' \in {cred, None}
      /\ machine' \in FileState /\ ckey' \in FileState /\ faults' \in 0..MaxFaults
  BY <1>0 DEF WriteFails, Crash, Fault, control, issuer, disk, FileState, TypeOK
<1>2. ProcInv'
  BY <1>0, <1>1, ReturnProc DEF ProcInv
<1>3. IdentityInv'
  BY <1>0, <1>1, ReturnProc DEF IdentityInv
<1>4. TypeOK'
  BY <1>0, <1>1, ReturnProc DEF TypeOK
<1> QED BY <1>2, <1>3, <1>4 DEF EnrollmentInv

(* The control plane's own files, its administrator and the calendar. *)
LEMMA ControlInv ==
    ASSUME EnrollmentInv,
           \/ IssuerStep \/ generateCAFails \/ ControlKilled
           \/ PutPolicy \/ RestoreBackup \/ Age \/ ControlToggles
    PROVE  EnrollmentInv'
<1> USE EnrollmentAssumption
<1>0. TypeOK /\ IdentityInv /\ ProcInv
  BY DEF EnrollmentInv
<1>1. UNCHANGED <<machine, ckey, cred, policy, at, me, got, base, rows, late>>
  BY DEF IssuerStep, generateCAFails, ControlKilled, PutPolicy, RestoreBackup, Age,
     ControlToggles, disk, procs, control
<1>2. /\ cakey' \in FileState /\ cacert' \in FileState
      /\ boot' \in {"off", "key", "pair", "cert"}
  BY <1>0 DEF IssuerStep, CreateCAKey, WriteCAKey, CreateCACertificate, WriteCACertificate,
     generateCAFails, ControlKilled, PutPolicy, RestoreBackup, Age,
     ControlToggles, control, issuer, FileState, TypeOK
<1>3. online' \in BOOLEAN /\ killed' \in BOOLEAN
  BY <1>0 DEF IssuerStep, CreateCAKey, WriteCAKey, CreateCACertificate, WriteCACertificate,
     generateCAFails, ControlKilled, PutPolicy, RestoreBackup, Age,
     ControlToggles, control, issuer, TypeOK
<1>4. revision' \in 0..MaxRevision /\ faults' \in 0..MaxFaults
  BY <1>0 DEF IssuerStep, generateCAFails, ControlKilled, PutPolicy, RestoreBackup, Age,
     ControlToggles, control, Fault, TypeOK
<1>5. /\ cert' \in [agent : IDs, age : 0..MaxAge] \cup {None}
      /\ (cert' = None) <=> (cert = None)
      /\ cert' # None => cert'.agent = cert.agent
  <2>1. CASE Age
    BY <1>0, <2>1 DEF Age, TypeOK
  <2>2. CASE cert' = cert
    BY <1>0, <2>2 DEF TypeOK
  <2> QED BY <2>1, <2>2 DEF IssuerStep, generateCAFails, ControlKilled, PutPolicy,
     RestoreBackup, ControlToggles, disk
<1>6. IdentityInv' /\ ProcInv'
  BY <1>0, <1>1, <1>5 DEF IdentityInv, ProcInv
<1>7. TypeOK'
  BY <1>0, <1>1, <1>2, <1>3, <1>4, <1>5 DEF TypeOK
<1> QED BY <1>6, <1>7 DEF EnrollmentInv

(* Every step keeps the invariant. *)
LEMMA EnrollmentInvInductive == EnrollmentInv /\ [Next]_vars => EnrollmentInv'
<1> SUFFICES ASSUME EnrollmentInv, [Next]_vars PROVE EnrollmentInv'
  OBVIOUS
<1>1. ASSUME NEW p \in Procs, CycleStep(p) PROVE EnrollmentInv'
  BY <1>1, LoadStepInv, RegisterStepInv, SaveStepInv, PolicyStepInv DEF CycleStep
<1>2. ASSUME NEW p \in Procs,
             RegisterAnswerLost(p) \/ RegisterTimeout(p) \/ WriteFails(p) \/ Crash(p)
      PROVE  EnrollmentInv'
  BY <1>2, RegisterStepInv, FailureInv
<1>3. CASE LateCreate
  BY <1>3, RegisterStepInv
<1>4. CASE \/ IssuerStep \/ generateCAFails \/ ControlKilled
           \/ PutPolicy \/ RestoreBackup \/ Age \/ ControlToggles
  BY <1>4, ControlInv
<1>5. CASE UNCHANGED vars
  BY <1>5 DEF vars, disk, procs, control, issuer, EnrollmentInv, TypeOK, IdentityInv, ProcInv
<1> QED BY <1>1, <1>2, <1>3, <1>4, <1>5 DEF Next

(* The invariant holds always. *)
LEMMA EnrollmentInvHolds == Spec => []EnrollmentInv
<1> QED BY EnrollmentInit, EnrollmentInvInductive, PTL DEF Spec

----------------------------------------------------------------------------
(* The state has its type: a certificate that is in use was issued to a    *)
(* registered Agent, and a torn credentials file is never loaded.          *)
THEOREM EnrollmentTypeCorrect == Spec => []TypeOK
<1>1. EnrollmentInv => TypeOK
  BY DEF EnrollmentInv
<1> QED BY <1>1, EnrollmentInvHolds, PTL

(* However many processes and abandoned requests race between the lookup   *)
(* and the insertion of registerAgent, a machine has one Agent.            *)
THEOREM OneAgent == Spec => []OneAgentPerMachine
<1>1. ASSUME EnrollmentInv PROVE OneAgentPerMachine
  <2>1. CASE rows = {}
    BY <2>1, FS_EmptySet DEF OneAgentPerMachine
  <2>2. ASSUME NEW a \in rows PROVE OneAgentPerMachine
    <3>1. rows = {a}
      BY <1>1, <2>2 DEF EnrollmentInv, IdentityInv
    <3>2. Cardinality({a}) = 1
      BY FS_Singleton
    <3> QED BY <3>1, <3>2 DEF OneAgentPerMachine
  <2> QED BY <2>1, <2>2
<1> QED BY <1>1, EnrollmentInvHolds, PTL

(* Saved credentials are those of the registered Agent, and the saved      *)
(* certificate is its certificate, whichever process saved which           *)
(* (SaveIssuedClientCertificate, SaveCredentials, renewal).                *)
THEOREM IdentityStaysConsistent == Spec => []IdentityConsistent
<1>1. EnrollmentInv => IdentityConsistent
  BY DEF EnrollmentInv, IdentityInv, IdentityConsistent
<1> QED BY <1>1, EnrollmentInvHolds, PTL

(* The saved policy goes back only when another process has replaced it    *)
(* between the comparison and the write (syncPolicy, SavePolicy).          *)
THEOREM PolicyGoesBackOnlyInRace == Spec => PolicyBackOnlyInRace
<1>1. ASSUME EnrollmentInv, Next, policy' < policy
      PROVE  \E p \in Procs : at[p] = "replace" /\ base[p] # policy
  <2>1. ASSUME NEW p \in Procs, SavePolicy(p) PROVE at[p] = "replace" /\ base[p] # policy
    <3>1. at[p] = "replace" /\ policy' = got[p]
      BY <2>1 DEF SavePolicy
    <3>2. base[p] < got[p] /\ base[p] \in Nat /\ got[p] \in Nat /\ policy \in Nat
      BY <1>1, <3>1, EnrollmentAssumption DEF EnrollmentInv, ProcInv, TypeOK
    <3> QED BY <1>1, <3>1, <3>2
  <2>2. policy' # policy
    BY <1>1, EnrollmentAssumption DEF EnrollmentInv, TypeOK
  <2>3. ASSUME NEW p \in Procs, CycleStep(p) PROVE SavePolicy(p)
    BY <2>2, <2>3 DEF CycleStep, BeginCycle, WriteMachineID, LoadIdentity, EnsureClientCSR,
       WriteClientKey, RegisterLookup, RegisterCreate, RegisterOffline, SaveCertificate,
       SaveCredentials, WriteCredentials, Refused, RenewCertificate, FetchPolicy,
       ComparePolicy, Heartbeat, EndCycle, disk
  <2>4. ASSUME NEW p \in Procs,
               RegisterAnswerLost(p) \/ RegisterTimeout(p) \/ WriteFails(p) \/ Crash(p)
        PROVE  FALSE
    BY <2>2, <2>4 DEF RegisterAnswerLost, RegisterTimeout, WriteFails, Crash, disk
  <2>5. \/ \E p \in Procs : CycleStep(p)
    BY <1>1, <2>2, <2>4 DEF Next, IssuerStep, generateCAFails, ControlKilled, LateCreate,
       PutPolicy, RestoreBackup, Age, ControlToggles, disk
  <2> QED BY <2>1, <2>3, <2>5
<1>2. EnrollmentInv /\ [Next]_vars =>
        [policy' < policy => \E p \in Procs : at[p] = "replace" /\ base[p] # policy]_vars
  BY <1>1
<1> QED BY <1>2, EnrollmentInvHolds, PTL DEF Spec, PolicyBackOnlyInRace

=============================================================================
