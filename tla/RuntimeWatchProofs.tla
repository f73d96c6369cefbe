-------------------------- MODULE RuntimeWatchProofs --------------------------
(***************************************************************************)
(* What holds of the process and port detector for every set of processes  *)
(* and sockets and for all of its limits: the state it saves is one that   *)
(* validateState accepts, what runs stays known, the events tell which     *)
(* sockets listen, no event is false, a still host is silent, and an       *)
(* identity becomes known only after the event about it is queued.         *)
(***************************************************************************)
EXTENDS RuntimeWatch, FiniteSetTheorems, WellFoundedInduction, TLAPS

(* Nothing is missing from a capture, and nothing happens during it. *)
Still ==
    /\ processComplete /\ \A f \in Families : familyComplete(f)
    /\ \A p \in Procs : procs[p] # "exiting"

(* The state s is what a capture of the host sees. *)
Describes(s) ==
    /\ s.ports = {k \in listening : table[k.family] = "ok"}
    /\ \A E \in Captures : Current(E) \subseteq KnownIn(s) /\ s.names = currentNames(E)

(* What the history variables say of the committed state. *)
StateInv ==
    /\ lastFull \in [Families -> SUBSET Ports]
    /\ \A f \in Families : \A k \in lastFull[f] : k.family = f /\ k \in Previous.ports
    /\ state = None => steady = {}
    /\ RunningStaysKnown
    /\ absorbed \subseteq announced
    /\ calm => state # None /\ Still /\ Describes(state)

(* The state that a result is about to save covers what is running, what   *)
(* listens and what was saved before, and describes a host that is still.  *)
NextInv ==
    result # None =>
        /\ steady \cap Running(procs) \subseteq KnownIn(result.next)
        /\ \A f \in Families :
              table[f] # "missing" =>
                 (IF familyComplete(f) THEN Listening(f) ELSE lastFull[f]) \subseteq result.next.ports
        /\ Still => Describes(result.next)

(* The events of a result are about differences between the two states,    *)
(* and all differences have one unless an event says so.                   *)
AllEvents == result.events \cup result.queued

EventsInv ==
    result # None =>
        /\ \A k \in Ports :
              /\ Opened(k) \in AllEvents => k \in result.next.ports \ Previous.ports
              /\ Closed(k) \in AllEvents => k \in Previous.ports \ result.next.ports
        /\ state # None /\ Overflow \notin AllEvents =>
              /\ \A k \in result.next.ports \ state.ports : Opened(k) \in AllEvents
              /\ \A k \in state.ports \ result.next.ports : Closed(k) \in AllEvents
              /\ \A i \in KnownIn(result.next) \ KnownIn(state) : FirstSeen(i) \in AllEvents

(* What the queued events have told. *)
ToldInv ==
    result # None =>
        /\ state # None => \A k \in Ports \ doubt :
              k \in view <=> Opened(k) \in result.queued \/ (k \in state.ports /\ Closed(k) \notin result.queued)
        /\ \A i \in Identities : FirstSeen(i) \in result.queued => <<Previous.generation, i>> \in announced

RuntimeInv ==
    RuntimeTypeOK /\ StateInv /\ EventsTellPorts /\ NextInv /\ EventsInv /\ ToldInv

----------------------------------------------------------------------------
(* Finite sets of natural numbers. *)
LEMMA LeastNatural ==
    ASSUME NEW S \in SUBSET Nat, S # {}
    PROVE  \E x \in S : \A y \in S : x <= y
<1>1. PICK x \in S : \A y \in S : ~ (<<y, x>> \in OpToRel(<, Nat))
  BY NatLessThanWellFounded, WFMin
<1>2. ASSUME NEW y \in S PROVE x <= y
  <2>1. x \in Nat /\ y \in Nat
    OBVIOUS
  <2>2. ~(y < x)
    BY <1>1, <2>1 DEF OpToRel
  <2> QED BY <2>1, <2>2
<1> QED BY <1>2

LEMMA MinIsMember ==
    ASSUME NEW S \in SUBSET Nat, S # {}
    PROVE  Min(S) \in S
<1>1. \E x \in S : \A y \in S : x =< y
  BY LeastNatural
<1> QED BY <1>1 DEF Min

LEMMA GreatestNatural ==
    ASSUME NEW S \in SUBSET Nat, IsFiniteSet(S), S # {}
    PROVE  \E x \in S : \A y \in S : y <= x
<1> DEFINE Greatest(T) == \E x \in T : \A y \in T : y <= x
           C == {n \in Nat : \E T \in SUBSET S : T # {} /\ Cardinality(T) = n /\ ~Greatest(T)}
<1>1. \A T \in SUBSET S : IsFiniteSet(T) /\ Cardinality(T) \in Nat
  BY FS_Subset, FS_CardinalityType
<1>2. ASSUME C # {} PROVE FALSE
  <2>1. PICK n \in C : \A m \in C : n <= m
    <3>1. C \in SUBSET Nat
      OBVIOUS
    <3> HIDE DEF C
    <3> QED BY <1>2, <3>1, LeastNatural
  <2>2. PICK T \in SUBSET S : T # {} /\ Cardinality(T) = n /\ ~Greatest(T)
    OBVIOUS
  <2>3. PICK x : x \in T
    BY <2>2
  <2>4. Cardinality(T \ {x}) = n - 1 /\ Cardinality(T \ {x}) \in Nat
    BY <1>1, <2>2, <2>3, FS_RemoveElement
  <2>5. T \ {x} # {}
    BY <2>2, <2>3
  <2>6. Greatest(T \ {x})
    BY <2>1, <2>4, <2>5
  <2>7. PICK y \in T \ {x} : \A z \in T \ {x} : z <= y
    BY <2>6
  <2>8. x \in Nat /\ y \in Nat /\ T \subseteq Nat
    BY <2>3, <2>7
  <2>9. \A z \in T : z <= IF x <= y THEN y ELSE x
    BY <2>7, <2>8
  <2> QED BY <2>2, <2>3, <2>7, <2>8, <2>9
<1> QED BY <1>1, <1>2

LEMMA ImageFinite ==
    ASSUME NEW S, IsFiniteSet(S), NEW f
    PROVE  LET T == {f[x] : x \in S} IN IsFiniteSet(T) /\ Cardinality(T) <= Cardinality(S)
<1> DEFINE T == {f[x] : x \in S}
           g == [x \in S |-> f[x]]
<1>1. g \in Surjection(S, T)
  BY DEF Surjection
<1> QED BY <1>1, FS_Surjection

(* n of the identities, where there are so many, are the first n. *)
LEMMA OldestCount ==
    ASSUME NEW D \in SUBSET Nat, IsFiniteSet(D), NEW known, \A i \in D : known[i] \in Nat,
           NEW k \in 0..Cardinality(D)
    PROVE  Cardinality(Oldest(known, D, k)) >= k
<1> DEFINE Older(i, j) == known[i] < known[j] \/ (known[i] = known[j] /\ i < j)
           First(n) == Oldest(known, D, n)
           C == {n \in 0..Cardinality(D) : Cardinality(First(n)) < n}
<1>0. Cardinality(D) \in Nat
  BY FS_CardinalityType
<1>1. \A n \in Nat : First(n) \subseteq D /\ IsFiniteSet(First(n)) /\ Cardinality(First(n)) \in Nat
  BY FS_Subset, FS_CardinalityType DEF Oldest
<1>2. ASSUME C # {} PROVE FALSE
  <2>1. PICK n \in C : \A m \in C : n <= m
    <3>1. C \in SUBSET Nat
      BY <1>0
    <3> HIDE DEF C
    <3> QED BY <1>2, <3>1, LeastNatural
  <2>2. n \in Nat /\ n # 0 /\ n - 1 \in Nat /\ n <= Cardinality(D) /\ Cardinality(First(n)) < n
    BY <1>0, <1>1, <2>1
  <2>3. Cardinality(First(n - 1)) >= n - 1
    BY <1>0, <1>1, <2>1, <2>2
  <2>4. First(n - 1) \subseteq First(n)
    <3> DEFINE rank == [i \in D |-> Cardinality({j \in D : Older(j, i)})]
    <3>1. \A i \in D : rank[i] \in Nat
      BY FS_Subset, FS_CardinalityType
    <3>2. First(n - 1) = {i \in D : rank[i] < n - 1} /\ First(n) = {i \in D : rank[i] < n}
      BY DEF Oldest
    <3> HIDE DEF rank, First, C
    <3>3. \A r \in Nat : r < n - 1 => r < n
      BY <2>2
    <3> QED BY <3>1, <3>2, <3>3, Zenon
  <2>5. First(n - 1) = First(n) /\ Cardinality(First(n - 1)) = n - 1
    <3>1. Cardinality(First(n - 1)) <= Cardinality(First(n))
      BY <1>1, <2>2, <2>4, FS_Subset
    <3>2. Cardinality(First(n - 1)) = n - 1 /\ Cardinality(First(n)) = n - 1
      BY <1>1, <2>2, <2>3, <3>1
    <3> QED BY <1>1, <2>2, <2>4, <3>2, FS_Subset
  <2>6. PICK x \in D \ First(n) : \A j \in D \ First(n) : ~Older(j, x)
    <3> DEFINE rest == D \ First(n)
               keys == {known[i] : i \in rest}
    <3>1. rest # {} /\ rest \subseteq Nat
      <4>1. First(n) # D
        BY <1>0, <2>2
      <4>2. First(n) \subseteq D
        BY <1>1, <2>2
      <4> HIDE DEF First
      <4> QED BY <4>1, <4>2
    <3>2. PICK a \in keys : \A b \in keys : a <= b
      <4>1. keys \in SUBSET Nat /\ keys # {}
        BY <3>1
      <4> HIDE DEF keys
      <4> QED BY <4>1, LeastNatural
    <3> DEFINE same == {i \in rest : known[i] = a}
    <3>3. PICK x \in same : \A y \in same : x <= y
      <4>1. same \in SUBSET Nat /\ same # {}
        BY <3>1, <3>2
      <4> HIDE DEF same
      <4> QED BY <4>1, LeastNatural
    <3>4. \A j \in rest : ~Older(j, x)
      <4> SUFFICES ASSUME NEW j \in rest PROVE ~Older(j, x)
        OBVIOUS
      <4>1. known[j] \in Nat /\ known[x] = a /\ a <= known[j] /\ a \in Nat /\ x \in Nat /\ j \in Nat
        BY <3>1, <3>2, <3>3
      <4>2. known[j] = a => x <= j
        BY <3>3
      <4> QED BY <4>1, <4>2
    <3> QED BY <3>3, <3>4
  <2>7. {j \in D : Older(j, x)} \subseteq First(n - 1)
    BY <2>5, <2>6
  <2>8. Cardinality({j \in D : Older(j, x)}) < n
    <3>1. /\ Cardinality({j \in D : Older(j, x)}) <= Cardinality(First(n - 1))
          /\ Cardinality({j \in D : Older(j, x)}) \in Nat
      BY <1>1, <2>2, <2>7, FS_Subset, FS_CardinalityType
    <3> QED BY <2>2, <2>5, <3>1
  <2>9. x \in First(n)
    BY <2>6, <2>8 DEF Oldest
  <2> QED BY <2>6, <2>9
<1>3. Cardinality(First(k)) \in Nat /\ k \in Nat /\ ~(Cardinality(First(k)) < k)
  BY <1>0, <1>1, <1>2
<1> QED BY <1>3

----------------------------------------------------------------------------
LEMMA HostIsFinite ==
    /\ IsFiniteSet(ProcNames) /\ IsFiniteSet(Identities) /\ Identities \subseteq Nat
    /\ \A S \in SUBSET Identities : IsFiniteSet(S) /\ Cardinality(S) \in Nat
    /\ \A S \in SUBSET Procs : IsFiniteSet(S) /\ Cardinality(S) \in Nat
    /\ \A S \in SUBSET Ports : IsFiniteSet(S) /\ Cardinality(S) \in Nat
<1> USE RuntimeWatchAssumption
<1>1. IsFiniteSet({p.name : p \in Procs})
  <2> DEFINE f == [p \in Procs |-> p.name]
  <2>1. IsFiniteSet({f[p] : p \in Procs})
    <3> HIDE DEF f
    <3> QED BY ImageFinite
  <2>2. {f[p] : p \in Procs} = {p.name : p \in Procs}
    OBVIOUS
  <2> QED BY <2>1, <2>2
<1>2. IsFiniteSet({p.exe : p \in Procs})
  <2> DEFINE f == [p \in Procs |-> p.exe]
  <2>1. IsFiniteSet({f[p] : p \in Procs})
    <3> HIDE DEF f
    <3> QED BY ImageFinite
  <2>2. {f[p] : p \in Procs} = {p.exe : p \in Procs}
    OBVIOUS
  <2> QED BY <2>1, <2>2
<1>3. IsFiniteSet(ProcNames) /\ IsFiniteSet({NameIdentity[n] : n \in ProcNames})
  BY <1>1, ImageFinite DEF ProcNames
<1>4. IsFiniteSet(Identities)
  BY <1>2, <1>3, FS_Union DEF Identities
<1> QED BY <1>3, <1>4, FS_Subset, FS_CardinalityType

(* pruneKnown keeps what is current, invents nothing and keeps the limit. *)
LEMMA PruneKnown ==
    ASSUME NEW known \in [Identities -> Nat], NEW current \in SUBSET Identities,
           Cardinality(current) <= MaxKnown,
           NEW pruned, pruned = pruneKnown(known, current)
    PROVE  /\ pruned \in [Identities -> Nat]
           /\ \A i \in Identities : pruned[i] \in {0, known[i]}
           /\ \A i \in current : pruned[i] = known[i]
           /\ Cardinality({i \in Identities : pruned[i] > 0}) <= MaxKnown
<1> DEFINE all == {i \in Identities : known[i] > 0}
           idle == all \ current
           excess == IF Cardinality(all) > MaxKnown THEN Cardinality(all) - MaxKnown ELSE 0
           gone == Oldest(known, idle, excess)
<1>1. pruned = [i \in Identities |-> IF i \in gone THEN 0 ELSE known[i]]
  BY DEF pruneKnown
<1>2. gone \subseteq idle /\ idle \subseteq Identities
  BY DEF Oldest
<1>3. /\ Cardinality(all) \in Nat /\ Cardinality(idle) \in Nat /\ Cardinality(gone) \in Nat
      /\ Cardinality(current) \in Nat /\ Cardinality(all \cap current) \in Nat
      /\ IsFiniteSet(all) /\ IsFiniteSet(idle) /\ IsFiniteSet(current) /\ MaxKnown \in Nat
  <2>1. all \in SUBSET Identities /\ idle \in SUBSET Identities /\ gone \in SUBSET Identities
        /\ all \cap current \in SUBSET Identities
    BY <1>2
  <2> HIDE DEF all, idle, gone
  <2> QED BY <2>1, HostIsFinite, RuntimeWatchAssumption
<1>4. excess \in 0..Cardinality(idle)
  <2>1. Cardinality(idle) = Cardinality(all) - Cardinality(all \cap current)
    BY <1>3, FS_Difference
  <2>2. Cardinality(all \cap current) <= Cardinality(current)
    BY <1>3, FS_Intersection
  <2> HIDE DEF all, idle
  <2> QED BY <1>3, <2>1, <2>2
<1>5. Cardinality(gone) >= excess
  <2>1. idle \in SUBSET Nat /\ \A i \in idle : known[i] \in Nat
    BY <1>2, HostIsFinite
  <2> HIDE DEF idle, excess
  <2> QED BY <1>3, <1>4, <2>1, OldestCount
<1>6. {i \in Identities : pruned[i] > 0} = all \ gone
  BY <1>1
<1>7. Cardinality(all \ gone) = Cardinality(all) - Cardinality(gone)
  <2>1. all \cap gone = gone
    BY <1>2
  <2> HIDE DEF all, gone
  <2> QED BY <1>3, <2>1, FS_Difference
<1>8. Cardinality({i \in Identities : pruned[i] > 0}) <= MaxKnown
  <2> HIDE DEF all, gone
  <2> QED BY <1>3, <1>5, <1>6, <1>7
<1> HIDE DEF gone
<1> QED BY <1>1, <1>2, <1>8

(* The processes of a capture. *)
LEMMA CaptureView ==
    ASSUME NEW E \in Captures
    PROVE  \E lost \in SUBSET {p \in Pids : procs[p] = "exiting"},
              gone \in SUBSET {p \in Pids : procs[p] = "exiting"} : E = Kept(FirstPids \ gone, lost)
  BY DEF Captures

LEMMA CaptureTypes ==
    ASSUME NEW E \in Captures
    PROVE  \A e \in E : e.identity \in Identities /\ e.name \in ProcNames
<1>1. \A p \in Procs : \A lost : /\ Entry(p, lost).identity \in Identities
                                 /\ Entry(p, lost).name \in ProcNames
  BY DEF Entry, Seen, Nameless, Identities, ProcNames
<1>2. PICK read \in SUBSET Procs, lost \in SUBSET Procs : E = Kept(read, lost)
  BY CaptureView DEF FirstPids, Pids
<1> QED BY <1>1, <1>2 DEF Kept

LEMMA CompleteCapture ==
    ASSUME processComplete, NEW E \in Captures
    PROVE  /\ Current(E) \in SUBSET Identities /\ Cardinality(Current(E)) <= MaxProcesses
           /\ Running(procs) \subseteq Current(E)
<1>0. Pids \subseteq Procs /\ Cardinality(Pids) <= MaxProcesses /\ MaxProcesses \in Nat
      /\ \A p \in Procs : p.pid \in Nat
  BY RuntimeWatchAssumption DEF processComplete, Pids
<1>1. FirstPids = Pids
  <2> SUFFICES ASSUME NEW p \in Pids PROVE Cardinality({q \in Pids : q.pid < p.pid}) < MaxProcesses
    BY DEF FirstPids
  <2> DEFINE earlier == {q \in Pids : q.pid < p.pid}
  <2>1. earlier \subseteq Pids /\ p \notin earlier /\ earlier # Pids
    BY <1>0
  <2>2. /\ Cardinality(earlier) <= Cardinality(Pids) /\ Cardinality(earlier) # Cardinality(Pids)
        /\ Cardinality(earlier) \in Nat /\ Cardinality(Pids) \in Nat
    <3> HIDE DEF earlier
    <3> QED BY <1>0, <2>1, HostIsFinite, FS_Subset
  <2> QED BY <1>0, <2>2
<1>2. PICK lost \in SUBSET {p \in Pids : procs[p] = "exiting"},
           gone \in SUBSET {p \in Pids : procs[p] = "exiting"} : E = Kept(Pids \ gone, lost)
  BY <1>1, CaptureView
<1> DEFINE read == Pids \ gone
           ident == [p \in Procs |-> Entry(p, lost).identity]
<1>3. read \subseteq Pids /\ read \subseteq Procs
  BY <1>0
<1>4. Current(E) \subseteq {ident[p] : p \in read}
  BY <1>2, <1>3 DEF Current, Kept
<1>5. Current(E) \in SUBSET Identities
  BY CaptureTypes DEF Current
<1>6. Cardinality(Current(E)) <= MaxProcesses
  <2> HIDE DEF read, ident
  <2>1. IsFiniteSet(read) /\ Cardinality(read) <= Cardinality(Pids) /\ Cardinality(read) \in Nat
        /\ Cardinality(Pids) \in Nat
    BY <1>0, <1>3, HostIsFinite, FS_Subset
  <2> DEFINE T == {ident[p] : p \in read}
  <2>2. IsFiniteSet(T) /\ Cardinality(T) <= Cardinality(read) /\ Cardinality(T) \in Nat
    BY <2>1, ImageFinite, FS_CardinalityType
  <2>3. Cardinality(Current(E)) <= Cardinality(T) /\ Cardinality(Current(E)) \in Nat
    <3> HIDE DEF T
    <3>1. Current(E) \subseteq T
      BY <1>4 DEF T
    <3> QED BY <1>5, <2>2, <3>1, FS_Subset, HostIsFinite
  <2> HIDE DEF T
  <2> QED BY <1>0, <2>1, <2>2, <2>3
<1>7. ASSUME NEW p \in Procs, procs[p] = "alive" PROVE p.exe \in Current(E)
  <2>1. p \in read /\ p \notin lost /\ ident[p] = p.exe
    BY <1>2, <1>7 DEF Pids, Entry, Seen
  <2> DEFINE same == {q \in read : ident[q] = p.exe}
             pids == {q.pid : q \in same}
  <2>2. p \in same /\ same \in SUBSET Procs
    BY <1>3, <2>1
  <2>3. pids \in SUBSET Nat /\ pids # {}
    BY <1>0, <2>2
  <2>4. IsFiniteSet(pids)
    <3> DEFINE f == [q \in Procs |-> q.pid]
    <3>1. pids = {f[q] : q \in same}
      BY <2>2
    <3>2. IsFiniteSet(same)
      BY <2>2, HostIsFinite
    <3> HIDE DEF f, same, pids
    <3> QED BY <3>1, <3>2, ImageFinite
  <2>5. PICK m \in pids : \A n \in pids : n <= m
    <3> HIDE DEF pids
    <3> QED BY <2>3, <2>4, GreatestNatural
  <2>6. PICK q \in same : q.pid = m
    BY <2>5
  <2>7. \A r \in read : r.pid > q.pid => ident[r] # ident[q]
    <3> SUFFICES ASSUME NEW r \in read, ident[r] = ident[q] PROVE ~(r.pid > q.pid)
      OBVIOUS
    <3>1. r \in same
      BY <2>6
    <3>2. r.pid <= m /\ r.pid \in Nat /\ q.pid \in Nat
      BY <1>0, <2>2, <2>5, <2>6, <3>1
    <3> QED BY <2>6, <3>2
  <2>8. Entry(q, lost) \in E /\ Entry(q, lost).identity = p.exe
    BY <1>2, <1>3, <2>2, <2>6, <2>7 DEF Kept
  <2> QED BY <2>8 DEF Current
<1>8. Running(procs) \subseteq Current(E)
  BY <1>7 DEF Running
<1> QED BY <1>5, <1>6, <1>8

(* When nothing exits there is one capture. *)
LEMMA StillCapture ==
    ASSUME Still, NEW E \in Captures, NEW F \in Captures
    PROVE  E = F
<1>1. {p \in Pids : procs[p] = "exiting"} = {}
  BY DEF Still, Pids
<1>2. \A G \in Captures : G = Kept(FirstPids \ {}, {})
  BY <1>1, CaptureView
<1> QED BY <1>2

LEMMA NamesOfCapture ==
    ASSUME NEW E \in Captures
    PROVE  /\ currentNames(E) \in [ProcNames -> Identities \cup {None}]
           /\ \A n \in ProcNames : currentNames(E)[n] # None => currentNames(E)[n] \in Current(E)
<1> SUFFICES ASSUME NEW n \in ProcNames
             PROVE  currentNames(E)[n] \in (Current(E) \cap Identities) \cup {None}
  BY DEF currentNames
<1> DEFINE ids == {e.identity : e \in {e \in E : e.name = n}}
<1>1. ids \subseteq Current(E) /\ ids \subseteq Identities
  BY CaptureTypes DEF Current
<1>2. currentNames(E)[n] = IF ids = {} THEN None ELSE Min(ids)
  BY DEF currentNames
<1>3. ids # {} => Min(ids) \in ids
  <2>1. ids \in SUBSET Nat
    BY <1>1, HostIsFinite
  <2> HIDE DEF ids
  <2> QED BY <2>1, MinIsMember
<1> HIDE DEF ids
<1> QED BY <1>1, <1>2, <1>3

----------------------------------------------------------------------------
(* What Scan compares with, and what it finds. *)
LEMMA PreviousFacts ==
    ASSUME RuntimeTypeOK
    PROVE  /\ Previous.generation \in 0..MaxGeneration
           /\ Previous.known \in [Identities -> 0..MaxGeneration]
           /\ Previous.names \in [ProcNames -> Identities \cup {None}]
           /\ Previous.ports \subseteq Ports
           /\ Cardinality(KnownIn(Previous)) <= MaxKnown
           /\ \A n \in ProcNames : Previous.names[n] # None => Previous.names[n] \in KnownIn(Previous)
           /\ state = None => KnownIn(Previous) = {} /\ Previous.ports = {}
<1>1. CASE state = None
  <2>1. Previous = NewState
    BY <1>1 DEF Previous
  <2>2. /\ Previous.generation = 0 /\ Previous.known = [i \in Identities |-> 0]
        /\ Previous.names = [n \in ProcNames |-> None] /\ Previous.ports = {}
    BY <2>1 DEF NewState
  <2>3. KnownIn(Previous) = {}
    BY <2>2 DEF KnownIn
  <2>4. Cardinality(KnownIn(Previous)) <= MaxKnown
    BY <2>3, FS_EmptySet, RuntimeWatchAssumption
  <2> QED BY <1>1, <2>2, <2>3, <2>4, RuntimeWatchAssumption
<1>2. CASE state # None
  <2>1. Previous = state /\ state \in State /\ Valid(state)
    BY <1>2 DEF Previous, RuntimeTypeOK
  <2> QED BY <1>2, <2>1 DEF State, Valid
<1> QED BY <1>1, <1>2

NextPorts(p4, p6) == p4 \cup p6 \cup preserved("tcp4") \cup preserved("tcp6")
SeenKnown(E) ==
    [i \in Identities |-> IF i \in Current(E) THEN Previous.generation + 1 ELSE Previous.known[i]]
NextState(E, ports) ==
    [generation |-> Previous.generation + 1, coverage |-> Issues, ports |-> ports,
     known |-> IF processComplete THEN pruneKnown(SeenKnown(E), Current(E)) ELSE Previous.known,
     names |-> IF processComplete THEN currentNames(E) ELSE Previous.names]
ScanEvents(K) == K \cup coverageEvents(Issues) \cup overflowEvents(K \cup coverageEvents(Issues))

LEMMA ScanView ==
    ASSUME Scan
    PROVE  /\ result = None /\ Previous.generation < MaxGeneration
           /\ UNCHANGED <<host, state, history>>
           /\ \E E \in Captures, p4 \in parseListeningPorts("tcp4"), p6 \in parseListeningPorts("tcp6") :
              \E K \in appendBounded(processEvents(E) \cup portEvents(NextPorts(p4, p6))) :
                 result' = [events |-> ScanEvents(K), queued |-> {},
                            next |-> NextState(E, NextPorts(p4, p6))]
  BY DEF Scan, NextPorts, NextState, SeenKnown, ScanEvents

(* The sockets of the next state. *)
LEMMA PortFacts ==
    ASSUME RuntimeTypeOK, NEW p4 \in parseListeningPorts("tcp4"), NEW p6 \in parseListeningPorts("tcp6"),
           NEW ports, ports = NextPorts(p4, p6)
    PROVE  /\ ports \subseteq Ports
           /\ \A k \in ports \ Previous.ports : k \in listening
           /\ \A k \in Previous.ports \ ports : k \notin listening \/ table[k.family] = "missing"
           /\ \A f \in Families :
                 /\ ~familyComplete(f) => {k \in Previous.ports : k.family = f} \subseteq ports
                 /\ familyComplete(f) /\ table[f] # "missing" => Listening(f) \subseteq ports
           /\ Still => ports = {k \in listening : table[k.family] = "ok"}
<1>1. ASSUME NEW f \in Families, NEW S \in parseListeningPorts(f)
      PROVE  /\ S \subseteq Listening(f)
             /\ familyComplete(f) /\ table[f] = "ok" => S = Listening(f)
             /\ table[f] # "ok" => S = {}
  <2>1. CASE table[f] # "ok"
    BY <1>1, <2>1 DEF parseListeningPorts
  <2>2. CASE table[f] = "ok" /\ Cardinality(Listening(f)) < MaxPorts
    BY <1>1, <2>2 DEF parseListeningPorts
  <2>3. CASE table[f] = "ok" /\ ~(Cardinality(Listening(f)) < MaxPorts)
    BY <1>1, <2>3 DEF parseListeningPorts, familyComplete
  <2> QED BY <2>1, <2>2, <2>3
<1>2. /\ listening \subseteq Ports /\ Previous.ports \subseteq Ports
      /\ \A k \in Ports : k.family \in Families
      /\ \A f \in Families : Listening(f) = {k \in listening : k.family = f}
  BY PreviousFacts, RuntimeWatchAssumption DEF RuntimeTypeOK, Listening
<1>3. \A f \in Families : /\ table[f] \in {"ok", "unreadable", "missing"}
                          /\ table[f] = "unreadable" => ~familyComplete(f)
                          /\ table[f] = "missing" => familyComplete(f)
                          /\ preserved(f) = IF familyComplete(f) THEN {} ELSE {k \in Previous.ports : k.family = f}
  BY DEF RuntimeTypeOK, familyComplete, preserved
<1>4. /\ p4 \subseteq Listening("tcp4") /\ (familyComplete("tcp4") /\ table["tcp4"] = "ok" => p4 = Listening("tcp4"))
      /\ p6 \subseteq Listening("tcp6") /\ (familyComplete("tcp6") /\ table["tcp6"] = "ok" => p6 = Listening("tcp6"))
      /\ table["tcp4"] # "ok" => p4 = {}
      /\ table["tcp6"] # "ok" => p6 = {}
  BY <1>1 DEF Families
<1>5. \A k : k \in ports <=> k \in p4 \/ k \in p6 \/ k \in preserved("tcp4") \/ k \in preserved("tcp6")
  BY DEF NextPorts
<1>6. ports \subseteq Ports /\ \A k \in ports \ Previous.ports : k \in listening
  BY <1>2, <1>3, <1>4, <1>5 DEF Families
<1>7. \A f \in Families :
         /\ ~familyComplete(f) => {k \in Previous.ports : k.family = f} \subseteq ports
         /\ familyComplete(f) /\ table[f] # "missing" => Listening(f) \subseteq ports
  BY <1>3, <1>4, <1>5 DEF Families
<1>8. \A k \in Previous.ports \ ports : k \notin listening \/ table[k.family] = "missing"
  <2> SUFFICES ASSUME NEW k \in Previous.ports \ ports PROVE k \notin listening \/ table[k.family] = "missing"
    OBVIOUS
  <2>1. k.family \in Families
    BY <1>2
  <2>2. familyComplete(k.family)
    BY <1>7, <2>1
  <2> QED BY <1>2, <1>7, <2>1, <2>2
<1>9. ASSUME Still PROVE ports = {k \in listening : table[k.family] = "ok"}
  <2>1. familyComplete("tcp4") /\ familyComplete("tcp6")
    BY <1>9 DEF Still, Families
  <2>2. preserved("tcp4") = {} /\ preserved("tcp6") = {}
    BY <1>3, <2>1 DEF Families
  <2>3. p4 = {k \in listening : k.family = "tcp4" /\ table["tcp4"] = "ok"}
    BY <1>2, <1>4, <2>1 DEF Families
  <2>4. p6 = {k \in listening : k.family = "tcp6" /\ table["tcp6"] = "ok"}
    BY <1>2, <1>4, <2>1 DEF Families
  <2> QED BY <1>2, <1>5, <2>2, <2>3, <2>4 DEF Families
<1> QED BY <1>6, <1>7, <1>8, <1>9

(* The next state is one that loadState accepts. *)
LEMMA NextStateFacts ==
    ASSUME RuntimeTypeOK, Previous.generation < MaxGeneration, NEW E \in Captures,
           NEW ports \in SUBSET Ports, NEW s, s = NextState(E, ports)
    PROVE  /\ s \in State /\ Valid(s) /\ s.ports = ports
           /\ processComplete => /\ Current(E) \subseteq KnownIn(s) /\ s.names = currentNames(E)
                                 /\ KnownIn(s) \subseteq Current(E) \cup KnownIn(Previous)
           /\ ~processComplete => KnownIn(s) = KnownIn(Previous)
<1> DEFINE g == Previous.generation + 1
<1>0. /\ g \in 1..MaxGeneration /\ Issues \in SUBSET Issue /\ MaxGeneration \in Nat
  BY PreviousFacts, RuntimeWatchAssumption DEF Issues
<1>1. /\ s.generation = g /\ s.ports = ports /\ s.coverage = Issues
      /\ s.known = IF processComplete THEN pruneKnown(SeenKnown(E), Current(E)) ELSE Previous.known
      /\ s.names = IF processComplete THEN currentNames(E) ELSE Previous.names
  BY DEF NextState
<1>2. ASSUME s.known \in [Identities -> 0..MaxGeneration],
             s.names \in [ProcNames -> Identities \cup {None}]
      PROVE  s \in State
  <2>1. s = [generation |-> s.generation, coverage |-> s.coverage, ports |-> s.ports,
             known |-> s.known, names |-> s.names]
    BY <1>1 DEF NextState
  <2> HIDE DEF g
  <2> QED BY <1>0, <1>1, <1>2, <2>1 DEF State
<1>3. CASE ~processComplete
  <2>1. s.known = Previous.known /\ s.names = Previous.names
    BY <1>1, <1>3
  <2>2. KnownIn(s) = KnownIn(Previous)
    BY <2>1 DEF KnownIn
  <2> QED BY <1>0, <1>1, <1>2, <1>3, <2>1, <2>2, PreviousFacts DEF Valid
<1>4. CASE processComplete
  <2> DEFINE known == SeenKnown(E)
  <2>1. Current(E) \in SUBSET Identities /\ Cardinality(Current(E)) <= MaxKnown
    <3>1. Cardinality(Current(E)) <= MaxProcesses /\ Current(E) \in SUBSET Identities
      BY <1>4, CompleteCapture
    <3>2. Cardinality(Current(E)) \in Nat
      BY <3>1, HostIsFinite
    <3> QED BY <3>1, <3>2, RuntimeWatchAssumption
  <2>2. /\ known \in [Identities -> 0..MaxGeneration]
        /\ \A i \in Identities : known[i] = IF i \in Current(E) THEN g ELSE Previous.known[i]
    BY <1>0, PreviousFacts DEF SeenKnown
  <2> HIDE DEF known, g
  <2>3. known \in [Identities -> Nat]
    BY <1>0, <2>2
  <2>4. s.known = pruneKnown(known, Current(E)) /\ s.names = currentNames(E)
    BY <1>1, <1>4 DEF known
  <2>5. /\ s.known \in [Identities -> Nat]
        /\ \A i \in Identities : s.known[i] \in {0, known[i]}
        /\ \A i \in Current(E) : s.known[i] = known[i]
        /\ Cardinality(KnownIn(s)) <= MaxKnown
    BY <2>1, <2>3, <2>4, PruneKnown DEF KnownIn
  <2>6. s.known \in [Identities -> 0..MaxGeneration]
    BY <1>0, <2>2, <2>5
  <2>7. Current(E) \subseteq KnownIn(s) /\ KnownIn(s) \subseteq Current(E) \cup KnownIn(Previous)
    BY <1>0, <2>1, <2>2, <2>5 DEF KnownIn
  <2>8. /\ s.names \in [ProcNames -> Identities \cup {None}]
        /\ \A n \in ProcNames : s.names[n] # None => s.names[n] \in Current(E)
    BY <2>4, NamesOfCapture
  <2>9. s \in State
    BY <1>2, <2>6, <2>8
  <2>10. Valid(s)
    BY <1>0, <1>1, <2>5, <2>7, <2>8 DEF Valid
  <2> QED BY <1>1, <1>4, <2>4, <2>7, <2>9, <2>10
<1> QED BY <1>3, <1>4

----------------------------------------------------------------------------
(* The events of a scan. *)
LEMMA EventForms ==
    ASSUME NEW e \in Event
    PROVE  /\ e.kind = "opened" => e.what \in Ports /\ e = Opened(e.what)
           /\ e.kind = "closed" => e.what \in Ports /\ e = Closed(e.what)
           /\ e.kind = "first_seen" => e.what \in Identities /\ e = FirstSeen(e.what)
  BY DEF Event, Opened, Closed, FirstSeen

LEMMA FoundEvents ==
    ASSUME RuntimeTypeOK, NEW E \in Captures, NEW ports \in SUBSET Ports
    PROVE  LET found == processEvents(E) \cup portEvents(ports)
           IN  found \subseteq Event /\ IsFiniteSet(found)
<1>1. CASE state = None
  <2>1. processEvents(E) \cup portEvents(ports) = {}
    BY <1>1 DEF processEvents, portEvents
  <2> QED BY <2>1, FS_EmptySet
<1>2. CASE state # None
  <2> DEFINE new == Current(E) \ KnownIn(state)
             moved == {n \in ProcNames : /\ previousName(n) # None /\ currentNames(E)[n] # None
                                         /\ previousName(n) # currentNames(E)[n]}
             f == [i \in Identities |-> FirstSeen(i)]
             g == [n \in ProcNames |-> Drift(n, previousName(n), currentNames(E)[n])]
             o == [k \in Ports |-> Opened(k)]
             c == [k \in Ports |-> Closed(k)]
  <2>1. /\ new \in SUBSET Identities /\ moved \in SUBSET ProcNames
        /\ ports \ state.ports \in SUBSET Ports /\ state.ports \ ports \in SUBSET Ports
    <3>1. Current(E) \subseteq Identities /\ state.ports \subseteq Ports
      BY <1>2, CaptureTypes DEF Current, RuntimeTypeOK, State
    <3> QED BY <3>1
  <2>2. /\ \A n \in moved : previousName(n) \in Identities /\ currentNames(E)[n] \in Identities
    BY <1>2, NamesOfCapture DEF RuntimeTypeOK, State, previousName
  <2>3. processEvents(E) \subseteq {f[i] : i \in new} \cup {g[n] : n \in moved}
    BY <1>2, <2>1 DEF processEvents
  <2>4. portEvents(ports) = {o[k] : k \in ports \ state.ports} \cup {c[k] : k \in state.ports \ ports}
    BY <1>2, <2>1 DEF portEvents
  <2>5. /\ \A i \in new : f[i] \in Event
        /\ \A k \in Ports : o[k] \in Event /\ c[k] \in Event
    BY <2>1 DEF Event, FirstSeen, Opened, Closed
  <2>6. \A n \in moved : g[n] \in Event
    <3> SUFFICES ASSUME NEW n \in moved PROVE g[n] \in Event
      OBVIOUS
    <3>1. <<n, previousName(n), currentNames(E)[n]>> \in ProcNames \X Identities \X Identities
      BY <2>1, <2>2
    <3>2. g[n] = [kind |-> "identity_changed", what |-> <<n, previousName(n), currentNames(E)[n]>>]
      BY <2>1 DEF Drift
    <3> QED BY <3>1, <3>2 DEF Event
  <2> DEFINE A == {f[i] : i \in new}
             B == {g[n] : n \in moved}
             C == {o[k] : k \in ports \ state.ports}
             D == {c[k] : k \in state.ports \ ports}
  <2>7. IsFiniteSet(A) /\ IsFiniteSet(B) /\ IsFiniteSet(C) /\ IsFiniteSet(D)
    <3>1. /\ IsFiniteSet(new) /\ IsFiniteSet(moved)
          /\ IsFiniteSet(ports \ state.ports) /\ IsFiniteSet(state.ports \ ports)
      <4> HIDE DEF new, moved
      <4> QED BY <2>1, HostIsFinite, FS_Subset
    <3> HIDE DEF f, g, o, c, new, moved
    <3> QED BY <3>1, ImageFinite
  <2>8. A \subseteq Event /\ B \subseteq Event /\ C \subseteq Event /\ D \subseteq Event
    <3> HIDE DEF f, g, o, c, new, moved
    <3> QED BY <2>1, <2>5, <2>6
  <2>9. processEvents(E) \cup portEvents(ports) \in SUBSET (A \cup B \cup C \cup D)
    BY <2>3, <2>4
  <2> HIDE DEF A, B, C, D
  <2>10. IsFiniteSet(A \cup B \cup C \cup D)
    BY <2>7, FS_Union
  <2> QED BY <2>8, <2>9, <2>10, FS_Subset
<1> QED BY <1>1, <1>2

LEMMA ScanEventFacts ==
    ASSUME RuntimeTypeOK, NEW E \in Captures, NEW ports \in SUBSET Ports,
           NEW K \in appendBounded(processEvents(E) \cup portEvents(ports)),
           NEW all, all = ScanEvents(K)
    PROVE  /\ all \subseteq Event
           /\ \A e \in all : e.kind \in {"coverage", "overflow"} \/ e \in processEvents(E) \cup portEvents(ports)
           /\ Overflow \notin all => processEvents(E) \cup portEvents(ports) \subseteq all
<1> DEFINE found == processEvents(E) \cup portEvents(ports)
           events == K \cup coverageEvents(Issues)
<1>1. found \subseteq Event /\ IsFiniteSet(found)
  BY FoundEvents
<1>2. K \subseteq found /\ Cardinality(K) = Min({Cardinality(found), MaxEvents})
  BY DEF appendBounded
<1>3. /\ coverageEvents(Issues) \subseteq {Coverage(Issues)} /\ Coverage(Issues) \in Event
      /\ Coverage(Issues).kind = "coverage"
  <2>1. Issues \in SUBSET Issue
    BY DEF Issues
  <2> QED BY <2>1 DEF coverageEvents, Coverage, Event
<1>4. overflowEvents(events) \subseteq {Overflow} /\ Overflow \in Event /\ Overflow.kind = "overflow"
  BY DEF overflowEvents, Overflow, Event
<1>5. all = events \cup overflowEvents(events)
  BY DEF ScanEvents
<1>6. ASSUME Overflow \notin all PROVE K = found
  <2>1. ~(Cardinality(events) >= MaxEvents)
    BY <1>5, <1>6 DEF overflowEvents
  <2>2. IsFiniteSet(K) /\ Cardinality(K) \in Nat /\ Cardinality(found) \in Nat
    <3> HIDE DEF found
    <3> QED BY <1>1, <1>2, FS_Subset, FS_CardinalityType
  <2>3. IsFiniteSet(events)
    <3>1. IsFiniteSet(coverageEvents(Issues))
      BY FS_EmptySet, FS_Singleton DEF coverageEvents
    <3> QED BY <2>2, <3>1, FS_Union
  <2>4. Cardinality(K) <= Cardinality(events) /\ Cardinality(events) \in Nat
    <3>1. K \in SUBSET events
      OBVIOUS
    <3> HIDE DEF events
    <3> QED BY <2>3, <3>1, FS_Subset, FS_CardinalityType
  <2>5. Cardinality(K) \in {Cardinality(found), MaxEvents} /\ MaxEvents \in Nat
    <3> HIDE DEF found
    <3>1. MaxEvents \in Nat
      BY RuntimeWatchAssumption
    <3>2. {Cardinality(found), MaxEvents} \in SUBSET Nat /\ {Cardinality(found), MaxEvents} # {}
      BY <2>2, <3>1
    <3> QED BY <1>2, <3>1, <3>2, MinIsMember
  <2>6. Cardinality(K) = Cardinality(found)
    <3> HIDE DEF found, events
    <3> QED BY <2>1, <2>2, <2>4, <2>5
  <2> HIDE DEF found
  <2> QED BY <1>1, <1>2, <2>6, FS_Subset
<1> HIDE DEF found
<1>7. all \subseteq Event
  BY <1>1, <1>2, <1>3, <1>4, <1>5
<1>8. \A e \in all : e.kind \in {"coverage", "overflow"} \/ e \in found
  BY <1>2, <1>3, <1>4, <1>5
<1>9. Overflow \notin all => found \subseteq all
  BY <1>5, <1>6
<1> QED BY <1>7, <1>8, <1>9 DEF found

(* Which differences the events of a scan are about. *)
LEMMA FoundFacts ==
    ASSUME NEW E \in Captures, NEW ports \in SUBSET Ports
    PROVE  LET found == processEvents(E) \cup portEvents(ports)
           IN  /\ \A k : Opened(k) \in found => state # None /\ k \in ports \ Previous.ports
               /\ \A k : Closed(k) \in found => state # None /\ k \in Previous.ports \ ports
               /\ state # None => /\ \A k \in ports \ state.ports : Opened(k) \in found
                                  /\ \A k \in state.ports \ ports : Closed(k) \in found
               /\ state # None /\ processComplete =>
                     \A i \in Current(E) \ KnownIn(state) : FirstSeen(i) \in found
<1>1. CASE state = None
  BY <1>1 DEF processEvents, portEvents
<1>2. CASE state # None
  <2>1. Previous = state
    BY <1>2 DEF Previous
  <2>2. \A k, j : /\ Opened(k) = Opened(j) => k = j
                  /\ Closed(k) = Closed(j) => k = j
                  /\ Opened(k) # Closed(j)
    BY DEF Opened, Closed
  <2>3. \A e \in processEvents(E) : e.kind \in {"first_seen", "identity_changed"}
    BY DEF processEvents, FirstSeen, Drift
  <2>4. \A k : Opened(k) \notin processEvents(E) /\ Closed(k) \notin processEvents(E)
    BY <2>3 DEF Opened, Closed
  <2>5. portEvents(ports) = {Opened(k) : k \in ports \ state.ports} \cup {Closed(k) : k \in state.ports \ ports}
    BY <1>2 DEF portEvents
  <2>6. processComplete => \A i \in Current(E) \ KnownIn(state) : FirstSeen(i) \in processEvents(E)
    BY <1>2 DEF processEvents
  <2> QED BY <1>2, <2>1, <2>2, <2>4, <2>5, <2>6
<1> QED BY <1>1, <1>2

----------------------------------------------------------------------------
(* A step that leaves the host alone leaves alone what a capture may see.  *)
LEMMA HostFrame ==
    ASSUME UNCHANGED <<procs, listening, table>>
    PROVE  /\ Captures' = Captures /\ Running(procs)' = Running(procs)
           /\ (processComplete' <=> processComplete) /\ (Still' <=> Still)
           /\ \A f \in Families : (familyComplete(f)' <=> familyComplete(f)) /\ Listening(f)' = Listening(f)
           /\ \A s : s = state' => (Describes(state)' <=> Describes(s))
           /\ \A s : s = result'.next => (Describes(result.next)' <=> Describes(s))
<1>1. Pids' = Pids /\ Running(procs)' = Running(procs)
  BY DEF Pids, Running
<1>2. FirstPids' = FirstPids
  BY <1>1 DEF FirstPids
<1>3. Captures' = Captures
  BY <1>1, <1>2 DEF Captures
<1>4. processComplete' <=> processComplete
  BY <1>1 DEF processComplete
<1>5. \A f \in Families : (familyComplete(f)' <=> familyComplete(f)) /\ Listening(f)' = Listening(f)
  BY DEF familyComplete, Listening
<1>6. Still' <=> Still
  BY <1>4, <1>5 DEF Still
<1>7. \A s : s = state' => (Describes(state)' <=> Describes(s))
  BY <1>3 DEF Describes
<1>8. \A s : s = result'.next => (Describes(result.next)' <=> Describes(s))
  BY <1>3 DEF Describes
<1> QED BY <1>1, <1>3, <1>4, <1>5, <1>6, <1>7, <1>8

(* The invariant does not depend on changes, except for its bound. *)
LEMMA StateFrame ==
    ASSUME StateInv, UNCHANGED <<procs, listening, table, state, announced, absorbed, lastFull, steady, calm>>
    PROVE  StateInv'
<1>1. /\ Previous' = Previous /\ (Still' <=> Still) /\ (Describes(state)' <=> Describes(state))
  BY HostFrame DEF Previous
<1> QED BY <1>1 DEF StateInv, RunningStaysKnown

----------------------------------------------------------------------------
LEMMA RuntimeInit == Init => RuntimeInv
<1> SUFFICES ASSUME Init PROVE RuntimeInv
  OBVIOUS
<1> USE DEF Init
<1>1. RuntimeTypeOK
  BY RuntimeWatchAssumption DEF RuntimeTypeOK
<1>2. StateInv
  BY DEF StateInv, RunningStaysKnown
<1>3. EventsTellPorts /\ NextInv /\ EventsInv /\ ToldInv
  BY DEF EventsTellPorts, NextInv, EventsInv, ToldInv
<1> QED BY <1>1, <1>2, <1>3 DEF RuntimeInv

(* What a scan finds is told by its events and kept by its next state. *)
LEMMA ScanStep ==
    ASSUME RuntimeInv, Scan
    PROVE  RuntimeInv'
<1>1. /\ result = None /\ Previous.generation < MaxGeneration
      /\ UNCHANGED <<procs, listening, table, changes, state>>
      /\ UNCHANGED <<view, doubt, announced, absorbed, lastFull, steady, calm>>
  BY ScanView DEF host, history
<1>2. RuntimeTypeOK /\ StateInv /\ EventsTellPorts
  BY DEF RuntimeInv
<1>3. PICK E \in Captures, p4 \in parseListeningPorts("tcp4"), p6 \in parseListeningPorts("tcp6") :
      \E K \in appendBounded(processEvents(E) \cup portEvents(NextPorts(p4, p6))) :
         result' = [events |-> ScanEvents(K), queued |-> {}, next |-> NextState(E, NextPorts(p4, p6))]
  BY ScanView
<1> DEFINE ports == NextPorts(p4, p6)
           found == processEvents(E) \cup portEvents(ports)
<1>4. PICK K \in appendBounded(found) :
         result' = [events |-> ScanEvents(K), queued |-> {}, next |-> NextState(E, ports)]
  BY <1>3
<1> DEFINE s == NextState(E, ports)
           all == ScanEvents(K)
<1>5. result'.events = all /\ result'.queued = {} /\ result'.next = s
  BY <1>4
<1>6. /\ ports \in SUBSET Ports
      /\ \A f \in Families :
            /\ ~familyComplete(f) => {k \in Previous.ports : k.family = f} \subseteq ports
            /\ familyComplete(f) /\ table[f] # "missing" => Listening(f) \subseteq ports
      /\ Still => ports = {k \in listening : table[k.family] = "ok"}
  BY <1>2, PortFacts
<1> HIDE DEF ports
<1>7. /\ s \in State /\ Valid(s) /\ s.ports = ports
      /\ processComplete => /\ Current(E) \subseteq KnownIn(s) /\ s.names = currentNames(E)
                            /\ KnownIn(s) \subseteq Current(E) \cup KnownIn(Previous)
      /\ ~processComplete => KnownIn(s) = KnownIn(Previous)
  BY <1>1, <1>2, <1>6, NextStateFacts
<1>8. /\ all \subseteq Event
      /\ \A e \in all : e.kind \in {"coverage", "overflow"} \/ e \in found
      /\ Overflow \notin all => found \subseteq all
  BY <1>2, <1>6, ScanEventFacts
<1>9. /\ \A k : Opened(k) \in found => state # None /\ k \in ports \ Previous.ports
      /\ \A k : Closed(k) \in found => state # None /\ k \in Previous.ports \ ports
      /\ state # None => /\ \A k \in ports \ state.ports : Opened(k) \in found
                         /\ \A k \in state.ports \ ports : Closed(k) \in found
      /\ state # None /\ processComplete =>
            \A i \in Current(E) \ KnownIn(state) : FirstSeen(i) \in found
  BY <1>6, FoundFacts
<1> HIDE DEF found, s, all
<1>10. Previous' = Previous /\ (state # None => Previous = state)
  BY <1>1 DEF Previous
<1>11. result' # None
  BY <1>4, <1>7, <1>8, NoneAssumption DEF Result, s, all
<1>12. RuntimeTypeOK'
  <2>1. result' \in Result /\ Valid(result.next)'
    <3>1. result' \in Result
      BY <1>4, <1>7, <1>8 DEF Result, s, all
    <3>2. Valid(result.next)' <=> Valid(s)
      BY <1>5 DEF Valid, KnownIn
    <3> QED BY <1>7, <3>1, <3>2
  <2> QED BY <1>1, <1>2, <2>1 DEF RuntimeTypeOK
<1>13. StateInv'
  BY <1>1, <1>2, StateFrame
<1>14. EventsTellPorts'
  BY <1>11 DEF EventsTellPorts
<1>15. NextInv'
  <2>1. steady \cap Running(procs) \subseteq KnownIn(s)
    <3>1. CASE processComplete
      BY <1>7, <3>1, CompleteCapture
    <3>2. CASE ~processComplete
      <4>1. steady \subseteq KnownIn(Previous)
        BY <1>2, <1>10 DEF StateInv, RunningStaysKnown
      <4> QED BY <1>7, <3>2, <4>1
    <3> QED BY <3>1, <3>2
  <2>2. \A f \in Families :
           table[f] # "missing" =>
              (IF familyComplete(f) THEN Listening(f) ELSE lastFull[f]) \subseteq s.ports
    <3> SUFFICES ASSUME NEW f \in Families, table[f] # "missing"
                 PROVE  (IF familyComplete(f) THEN Listening(f) ELSE lastFull[f]) \subseteq s.ports
      OBVIOUS
    <3>1. lastFull[f] \subseteq {k \in Previous.ports : k.family = f}
      BY <1>2 DEF StateInv
    <3> QED BY <1>6, <1>7, <3>1
  <2>3. ASSUME Still PROVE Describes(s)
    <3>1. processComplete
      BY <2>3 DEF Still
    <3>2. \A F \in Captures : F = E
      BY <2>3, StillCapture
    <3> QED BY <1>6, <1>7, <2>3, <3>1, <3>2 DEF Describes
  <2>4. /\ (Still' <=> Still) /\ (Describes(result.next)' <=> Describes(s))
        /\ \A f \in Families : (familyComplete(f)' <=> familyComplete(f)) /\ Listening(f)' = Listening(f)
        /\ Running(procs)' = Running(procs)
    BY <1>1, <1>5, HostFrame
  <2>5. KnownIn(result.next)' = KnownIn(s)
    BY <1>5 DEF KnownIn
  <2> QED BY <1>1, <1>5, <2>1, <2>2, <2>3, <2>4, <2>5 DEF NextInv
<1>16. EventsInv'
  <2>1. AllEvents' = all
    BY <1>5 DEF AllEvents
  <2>2. \A k : Opened(k) \in all => Opened(k) \in found
    BY <1>8 DEF Opened
  <2>3. \A k : Closed(k) \in all => Closed(k) \in found
    BY <1>8 DEF Closed
  <2>4. state # None => KnownIn(s) \ KnownIn(state) \subseteq Current(E) \ KnownIn(state)
        /\ (KnownIn(s) \ KnownIn(state) # {} => processComplete)
    BY <1>7, <1>10
  <2>5. KnownIn(result.next)' = KnownIn(s) /\ KnownIn(state)' = KnownIn(state)
    BY <1>1, <1>5 DEF KnownIn
  <2>6. /\ \A k \in Ports : /\ Opened(k) \in all => k \in s.ports \ Previous.ports
                            /\ Closed(k) \in all => k \in Previous.ports \ s.ports
        /\ state # None /\ Overflow \notin all =>
              /\ \A k \in s.ports \ state.ports : Opened(k) \in all
              /\ \A k \in state.ports \ s.ports : Closed(k) \in all
              /\ \A i \in KnownIn(s) \ KnownIn(state) : FirstSeen(i) \in all
    BY <1>7, <1>8, <1>9, <2>2, <2>3, <2>4
  <2> QED BY <1>1, <1>5, <1>10, <2>1, <2>5, <2>6 DEF EventsInv
<1>17. ToldInv'
  BY <1>1, <1>2, <1>5, <1>10 DEF ToldInv, EventsTellPorts
<1> QED BY <1>12, <1>13, <1>14, <1>15, <1>16, <1>17 DEF RuntimeInv

(* Queueing moves an event from what is left to what is told. *)
LEMMA EnqueueStep ==
    ASSUME RuntimeInv, Enqueue
    PROVE  RuntimeInv'
<1>1. /\ result # None
      /\ UNCHANGED <<procs, listening, table, changes, state, doubt, absorbed, lastFull, steady, calm>>
  BY DEF Enqueue, host
<1>2. PICK e \in result.events :
         /\ result' = [result EXCEPT !.events = @ \ {e}, !.queued = @ \cup {e}]
         /\ view' = IF e.kind = "opened" THEN view \cup {e.what}
                    ELSE IF e.kind = "closed" THEN view \ {e.what} ELSE view
         /\ announced' = IF e.kind = "first_seen"
                         THEN announced \cup {<<Previous.generation, e.what>>} ELSE announced
  BY DEF Enqueue
<1>3. RuntimeTypeOK /\ StateInv /\ NextInv /\ EventsInv /\ ToldInv
  BY DEF RuntimeInv
<1>4. result \in Result /\ e \in Event
  BY <1>1, <1>3 DEF RuntimeTypeOK, Result
<1>5. /\ result'.events = result.events \ {e} /\ result'.queued = result.queued \cup {e}
      /\ result'.next = result.next /\ result' \in Result
  BY <1>2, <1>4 DEF Result
<1>6. result' # None
  BY <1>5, NoneAssumption
<1>7. AllEvents' = AllEvents /\ Previous' = Previous /\ e \in AllEvents
  BY <1>1, <1>2, <1>5 DEF AllEvents, Previous
<1>8. /\ e.kind = "opened" => e.what \in Ports /\ e = Opened(e.what)
      /\ e.kind = "closed" => e.what \in Ports /\ e = Closed(e.what)
      /\ e.kind = "first_seen" => e.what \in Identities /\ e = FirstSeen(e.what)
  BY <1>4, EventForms
<1>9. /\ \A k : Opened(k).kind = "opened" /\ Opened(k).what = k
      /\ \A k : Closed(k).kind = "closed" /\ Closed(k).what = k
      /\ \A k : FirstSeen(k).kind = "first_seen" /\ FirstSeen(k).what = k
  BY DEF Opened, Closed, FirstSeen
<1>10. RuntimeTypeOK'
  <2>1. Valid(result.next)' <=> Valid(result.next)
    BY <1>5 DEF Valid, KnownIn
  <2>2. view' \subseteq Ports
    BY <1>2, <1>3, <1>8 DEF RuntimeTypeOK
  <2> QED BY <1>1, <1>3, <1>5, <2>1, <2>2 DEF RuntimeTypeOK
<1>11. StateInv'
  <2>1. announced \subseteq announced'
    BY <1>2
  <2>2. (Still' <=> Still) /\ (Describes(state)' <=> Describes(state))
    BY <1>1, HostFrame
  <2> QED BY <1>1, <1>3, <1>7, <2>1, <2>2 DEF StateInv, RunningStaysKnown
<1>12. EventsTellPorts'
  BY <1>6 DEF EventsTellPorts
<1>13. NextInv'
  <2>1. /\ (Still' <=> Still) /\ (Describes(result.next)' <=> Describes(result.next))
        /\ \A f \in Families : (familyComplete(f)' <=> familyComplete(f)) /\ Listening(f)' = Listening(f)
        /\ Running(procs)' = Running(procs)
    BY <1>1, <1>5, HostFrame
  <2>2. KnownIn(result.next)' = KnownIn(result.next)
    BY <1>5 DEF KnownIn
  <2> QED BY <1>1, <1>3, <1>5, <2>1, <2>2 DEF NextInv
<1>14. EventsInv'
  <2>1. KnownIn(result.next)' = KnownIn(result.next) /\ KnownIn(state)' = KnownIn(state)
    BY <1>1, <1>5 DEF KnownIn
  <2> QED BY <1>1, <1>3, <1>5, <1>7, <2>1 DEF EventsInv
<1>15. ToldInv'
  <2>1. ASSUME state # None, NEW k \in Ports \ doubt
        PROVE  k \in view' <=> \/ Opened(k) \in result'.queued
                               \/ k \in state.ports /\ Closed(k) \notin result'.queued
    <3>1. k \in view <=> Opened(k) \in result.queued \/ (k \in state.ports /\ Closed(k) \notin result.queued)
      BY <1>1, <1>3, <2>1 DEF ToldInv
    <3>2. CASE e = Opened(k)
      BY <1>2, <1>5, <1>9, <3>2
    <3>3. CASE e = Closed(k)
      <4>1. Opened(k) \notin result.queued
        BY <1>1, <1>3, <1>7, <2>1, <3>3 DEF EventsInv, AllEvents
      <4>2. Opened(k) # e
        BY <1>9, <3>3
      <4> QED BY <1>2, <1>5, <1>9, <3>3, <4>1, <4>2
    <3>4. CASE e # Opened(k) /\ e # Closed(k)
      <4>1. k \in view' <=> k \in view
        BY <1>2, <1>8, <3>4
      <4> QED BY <1>5, <3>1, <3>4, <4>1
    <3> QED BY <3>2, <3>3, <3>4
  <2>2. ASSUME NEW i \in Identities, FirstSeen(i) \in result'.queued
        PROVE  <<Previous.generation, i>> \in announced'
    <3>1. CASE FirstSeen(i) = e
      BY <1>2, <1>9, <3>1
    <3>2. CASE FirstSeen(i) # e
      BY <1>1, <1>2, <1>3, <1>5, <2>2, <3>2 DEF ToldInv
    <3> QED BY <3>1, <3>2
  <2> QED BY <1>1, <1>7, <2>1, <2>2 DEF ToldInv
<1> QED BY <1>10, <1>11, <1>12, <1>13, <1>14, <1>15 DEF RuntimeInv

(* When no event is left, the queued ones have told what Commit settles. *)
LEMMA CommitStep ==
    ASSUME RuntimeInv, Commit
    PROVE  RuntimeInv'
<1>1. /\ result # None /\ result.events = {} /\ Valid(result.next)
      /\ state' = result.next /\ result' = None
      /\ view' = (IF state = None THEN result.next.ports ELSE view)
      /\ doubt' = (IF Overflow \in result.queued THEN Ports ELSE doubt)
  BY DEF Commit, SaveState, Saveable
<1>2. /\ absorbed' = IF state = None \/ Overflow \in result.queued THEN absorbed
                     ELSE absorbed \cup {<<state.generation, i>> : i \in KnownIn(result.next) \ KnownIn(state)}
      /\ lastFull' = [f \in Families |->
                         IF table[f] = "missing" THEN {}
                         ELSE IF familyComplete(f) THEN Listening(f) ELSE lastFull[f]]
      /\ steady' = (steady \cup KnownIn(result.next)) \cap Running(procs)
      /\ UNCHANGED <<procs, listening, table, changes, announced>>
  BY DEF Commit, SaveState, host
<1>3. calm' <=> Still
  BY DEF Commit, SaveState, Still
<1>4. RuntimeTypeOK /\ StateInv /\ NextInv /\ EventsInv /\ ToldInv
  BY DEF RuntimeInv
<1>5. result.next \in State /\ state' # None /\ result.next.ports \subseteq Ports
  BY <1>1, <1>4, NoneAssumption DEF RuntimeTypeOK, Result, State
<1>6. AllEvents = result.queued
  BY <1>1 DEF AllEvents
<1>7. Previous' = result.next /\ (state # None => Previous = state)
  BY <1>1, <1>5 DEF Previous
<1>8. KnownIn(state)' = KnownIn(result.next) /\ KnownIn(result.next) \subseteq Identities
  BY <1>1 DEF KnownIn
<1>9. RuntimeTypeOK'
  <2>1. Valid(state)'
    <3>1. Valid(state)' <=> Valid(result.next)
      BY <1>1 DEF Valid, KnownIn
    <3> QED BY <1>1, <3>1
  <2>2. view' \subseteq Ports /\ doubt' \subseteq Ports /\ steady' \subseteq Identities
    BY <1>1, <1>2, <1>4, <1>5, <1>8 DEF RuntimeTypeOK
  <2>3. state' \in State
    BY <1>1, <1>5
  <2> QED BY <1>1, <1>2, <1>4, <2>1, <2>2, <2>3 DEF RuntimeTypeOK
<1>10. EventsTellPorts'
  <2> SUFFICES ASSUME NEW k \in Ports \ doubt'
               PROVE  k \in view' <=> k \in result.next.ports
    BY <1>1 DEF EventsTellPorts
  <2>1. CASE state = None
    BY <1>1, <2>1
  <2>2. CASE state # None
    <3>1. Overflow \notin result.queued /\ k \notin doubt /\ view' = view
      BY <1>1, <2>2
    <3>2. k \in view <=> Opened(k) \in result.queued \/ (k \in state.ports /\ Closed(k) \notin result.queued)
      BY <1>1, <1>4, <2>2, <3>1 DEF ToldInv
    <3>3. /\ Opened(k) \in result.queued => k \in result.next.ports \ state.ports
          /\ Closed(k) \in result.queued => k \in state.ports \ result.next.ports
          /\ k \in result.next.ports \ state.ports => Opened(k) \in result.queued
          /\ k \in state.ports \ result.next.ports => Closed(k) \in result.queued
      BY <1>1, <1>4, <1>6, <1>7, <2>2, <3>1 DEF EventsInv
    <3> QED BY <3>1, <3>2, <3>3
  <2> QED BY <2>1, <2>2
<1>11. StateInv'
  <2>1. lastFull' \in [Families -> SUBSET Ports]
    <3>1. \A f \in Families : Listening(f) \subseteq Ports /\ lastFull[f] \subseteq Ports
      BY <1>4 DEF RuntimeTypeOK, StateInv, Listening
    <3> QED BY <1>2, <3>1
  <2>2. \A f \in Families : \A k \in lastFull'[f] : k.family = f /\ k \in result.next.ports
    <3> SUFFICES ASSUME NEW f \in Families, NEW k \in lastFull'[f]
                 PROVE  k.family = f /\ k \in result.next.ports
      OBVIOUS
    <3>1. table[f] # "missing" /\ k \in IF familyComplete(f) THEN Listening(f) ELSE lastFull[f]
      BY <1>2
    <3>2. k \in result.next.ports
      BY <1>1, <1>4, <3>1 DEF NextInv
    <3>3. k.family = f
      BY <1>4, <3>1 DEF Listening, StateInv
    <3> QED BY <3>2, <3>3
  <2>3. RunningStaysKnown'
    BY <1>1, <1>2, <1>4, <1>8 DEF NextInv, RunningStaysKnown
  <2>4. absorbed' \subseteq announced'
    <3>1. CASE state = None \/ Overflow \in result.queued
      BY <1>2, <1>4, <3>1 DEF StateInv
    <3>2. CASE state # None /\ Overflow \notin result.queued
      <4>1. \A i \in KnownIn(result.next) \ KnownIn(state) : FirstSeen(i) \in result.queued
        BY <1>1, <1>4, <1>6, <3>2 DEF EventsInv
      <4>2. \A i \in KnownIn(result.next) \ KnownIn(state) : <<state.generation, i>> \in announced
        BY <1>1, <1>4, <1>7, <1>8, <3>2, <4>1 DEF ToldInv
      <4> QED BY <1>2, <1>4, <3>2, <4>2 DEF StateInv
    <3> QED BY <3>1, <3>2
  <2>5. ASSUME calm' PROVE Still' /\ Describes(state)'
    <3>1. Still /\ Describes(result.next)
      BY <1>1, <1>3, <1>4, <2>5 DEF NextInv
    <3>2. (Still' <=> Still) /\ (Describes(state)' <=> Describes(result.next))
      BY <1>1, <1>2, HostFrame
    <3> QED BY <3>1, <3>2
  <2> QED BY <1>5, <1>7, <2>1, <2>2, <2>3, <2>4, <2>5 DEF StateInv
<1>12. NextInv' /\ EventsInv' /\ ToldInv'
  BY <1>1 DEF NextInv, EventsInv, ToldInv
<1> QED BY <1>9, <1>10, <1>11, <1>12 DEF RuntimeInv

(* A cycle that fails leaves in doubt what it has told. *)
LEMMA ForgetStep ==
    ASSUME RuntimeInv, result # None, Forget, changes' \in 0..MaxChanges
    PROVE  RuntimeInv'
<1>1. /\ result # None /\ result' = None
      /\ doubt' = doubt \cup {e.what : e \in {e \in result.queued : e.kind \in {"opened", "closed"}}}
      /\ UNCHANGED <<procs, listening, table, state, view, announced, absorbed, lastFull, steady, calm>>
  BY DEF Forget
<1>2. RuntimeTypeOK /\ StateInv /\ ToldInv
  BY DEF RuntimeInv
<1>3. doubt' \subseteq Ports
  <2>1. result.queued \subseteq Event
    BY <1>1, <1>2 DEF RuntimeTypeOK, Result
  <2>2. \A e \in result.queued : e.kind \in {"opened", "closed"} => e.what \in Ports
    BY <2>1, EventForms
  <2> QED BY <1>1, <1>2, <2>2 DEF RuntimeTypeOK
<1>4. RuntimeTypeOK'
  <2>1. state' # None => state' \in State /\ Valid(state)'
    BY <1>1, <1>2 DEF RuntimeTypeOK, Valid, KnownIn
  <2> QED BY <1>1, <1>2, <1>3, <2>1 DEF RuntimeTypeOK
<1>5. StateInv'
  BY <1>1, <1>2, StateFrame
<1>6. EventsTellPorts'
  <2> SUFFICES ASSUME state # None, NEW k \in Ports \ doubt'
               PROVE  k \in view <=> k \in state.ports
    BY <1>1 DEF EventsTellPorts
  <2>1. k \notin doubt /\ Opened(k) \notin result.queued /\ Closed(k) \notin result.queued
    <3>1. \A e \in result.queued : e.kind \in {"opened", "closed"} => e.what # k
      BY <1>1
    <3> QED BY <1>1, <3>1 DEF Opened, Closed
  <2> QED BY <1>1, <1>2, <2>1 DEF ToldInv
<1>7. NextInv' /\ EventsInv' /\ ToldInv'
  BY <1>1 DEF NextInv, EventsInv, ToldInv
<1> QED BY <1>4, <1>5, <1>6, <1>7 DEF RuntimeInv

(* The host changes between two cycles. *)
LEMMA ChangeStep ==
    ASSUME RuntimeInv, Change,
           UNCHANGED <<state, result, view, doubt, announced, absorbed, lastFull>>,
           procs' \in [Procs -> {"gone", "alive", "exiting"}], listening' \subseteq Ports,
           table' \in [Families \cup {"procs"} -> {"ok", "unreadable", "missing"}],
           steady' \subseteq steady
    PROVE  RuntimeInv'
<1>1. result = None /\ changes < MaxChanges /\ changes' = changes + 1 /\ ~calm'
  BY DEF Change
<1>2. RuntimeTypeOK /\ StateInv /\ EventsTellPorts
  BY DEF RuntimeInv
<1>3. RuntimeTypeOK'
  <2>1. changes' \in 0..MaxChanges
    BY <1>1, <1>2, RuntimeWatchAssumption DEF RuntimeTypeOK
  <2>2. state' # None => state' \in State /\ Valid(state)'
    BY <1>2 DEF RuntimeTypeOK, Valid, KnownIn
  <2>3. result' = None /\ steady' \subseteq Identities
    BY <1>1, <1>2 DEF RuntimeTypeOK
  <2> QED BY <1>2, <2>1, <2>2, <2>3 DEF RuntimeTypeOK
<1>4. StateInv'
  <2>1. Previous' = Previous /\ KnownIn(state)' = KnownIn(state)
    BY DEF Previous, KnownIn
  <2> QED BY <1>1, <1>2, <2>1 DEF StateInv, RunningStaysKnown
<1>5. EventsTellPorts' /\ NextInv' /\ EventsInv' /\ ToldInv'
  BY <1>1, <1>2 DEF EventsTellPorts, NextInv, EventsInv, ToldInv
<1> QED BY <1>3, <1>4, <1>5 DEF RuntimeInv

LEMMA RuntimeStutter ==
    ASSUME RuntimeInv, UNCHANGED vars
    PROVE  RuntimeInv'
<1>1. UNCHANGED <<procs, listening, table, changes, state, result>> /\
      UNCHANGED <<view, doubt, announced, absorbed, lastFull, steady, calm>>
  BY DEF vars, host, history
<1>2. RuntimeTypeOK /\ StateInv /\ EventsTellPorts /\ NextInv /\ EventsInv /\ ToldInv
  BY DEF RuntimeInv
<1>3. Previous' = Previous /\ AllEvents' = AllEvents
  BY <1>1 DEF Previous, AllEvents
<1>4. RuntimeTypeOK'
  BY <1>1, <1>2 DEF RuntimeTypeOK, Valid, KnownIn
<1>5. StateInv'
  BY <1>1, <1>2, StateFrame
<1>6. NextInv'
  <2>1. /\ (Still' <=> Still) /\ (Describes(result.next)' <=> Describes(result.next))
        /\ \A f \in Families : (familyComplete(f)' <=> familyComplete(f)) /\ Listening(f)' = Listening(f)
        /\ Running(procs)' = Running(procs)
    BY <1>1, HostFrame
  <2>2. KnownIn(result.next)' = KnownIn(result.next)
    BY <1>1 DEF KnownIn
  <2> QED BY <1>1, <1>2, <2>1, <2>2 DEF NextInv
<1>7. EventsTellPorts' /\ ToldInv'
  BY <1>1, <1>2, <1>3 DEF EventsTellPorts, ToldInv
<1>8. EventsInv'
  <2>1. KnownIn(result.next)' = KnownIn(result.next) /\ KnownIn(state)' = KnownIn(state)
    BY <1>1 DEF KnownIn
  <2> QED BY <1>1, <1>2, <1>3, <2>1 DEF EventsInv
<1> QED BY <1>4, <1>5, <1>6, <1>7, <1>8 DEF RuntimeInv

----------------------------------------------------------------------------
LEMMA ProcessStep ==
    ASSUME RuntimeInv, NEW p \in Procs, ChangeProcess(p)
    PROVE  RuntimeInv'
<1>1. procs \in [Procs -> {"gone", "alive", "exiting"}] /\ listening \subseteq Ports
      /\ table \in [Families \cup {"procs"} -> {"ok", "unreadable", "missing"}]
  BY DEF RuntimeInv, RuntimeTypeOK
<1>2. /\ Change /\ UNCHANGED <<state, result, view, doubt, announced, absorbed, lastFull>>
      /\ UNCHANGED <<listening, table>> /\ steady' \subseteq steady
  BY DEF ChangeProcess
<1>3. procs' \in [Procs -> {"gone", "alive", "exiting"}]
  BY <1>1 DEF ChangeProcess
<1> QED BY <1>1, <1>2, <1>3, ChangeStep

LEMMA PortStep ==
    ASSUME RuntimeInv, NEW k \in Ports, ChangePort(k)
    PROVE  RuntimeInv'
<1>1. procs \in [Procs -> {"gone", "alive", "exiting"}] /\ listening \subseteq Ports
      /\ table \in [Families \cup {"procs"} -> {"ok", "unreadable", "missing"}]
  BY DEF RuntimeInv, RuntimeTypeOK
<1>2. /\ Change /\ UNCHANGED <<state, result, view, doubt, announced, absorbed, lastFull>>
      /\ UNCHANGED <<procs, table, steady>> /\ listening' \subseteq Ports
  BY <1>1 DEF ChangePort
<1> QED BY <1>1, <1>2, ChangeStep

LEMMA TableStep ==
    ASSUME RuntimeInv, NEW t \in Families \cup {"procs"}, ChangeTable(t)
    PROVE  RuntimeInv'
<1>1. procs \in [Procs -> {"gone", "alive", "exiting"}] /\ listening \subseteq Ports
      /\ table \in [Families \cup {"procs"} -> {"ok", "unreadable", "missing"}]
  BY DEF RuntimeInv, RuntimeTypeOK
<1>2. /\ Change /\ UNCHANGED <<state, result, view, doubt, announced, absorbed, lastFull>>
      /\ UNCHANGED <<procs, listening, steady>>
  BY DEF ChangeTable
<1>3. table' \in [Families \cup {"procs"} -> {"ok", "unreadable", "missing"}]
  BY <1>1 DEF ChangeTable
<1> QED BY <1>1, <1>2, <1>3, ChangeStep

(* The invariant is inductive. *)
LEMMA RuntimeInductive == RuntimeInv /\ [Next]_vars => RuntimeInv'
<1> SUFFICES ASSUME RuntimeInv, [Next]_vars PROVE RuntimeInv'
  OBVIOUS
<1>1. CASE Scan
  BY <1>1, ScanStep
<1>2. CASE Enqueue
  BY <1>2, EnqueueStep
<1>3. CASE Commit
  BY <1>3, CommitStep
<1>4. CASE Abandon \/ CommitRefused
  <2>1. result # None /\ Forget
    BY <1>4 DEF Abandon, CommitRefused
  <2>2. changes' \in 0..MaxChanges
    BY <1>4, RuntimeWatchAssumption DEF Abandon, CommitRefused, RuntimeInv, RuntimeTypeOK
  <2> QED BY <2>1, <2>2, ForgetStep
<1>5. CASE \E p \in Procs : ChangeProcess(p)
  BY <1>5, ProcessStep
<1>6. CASE \E k \in Ports : ChangePort(k)
  BY <1>6, PortStep
<1>7. CASE \E t \in Families \cup {"procs"} : ChangeTable(t)
  BY <1>7, TableStep
<1>8. CASE ScanRefused \/ ScanExhausted \/ UNCHANGED vars
  BY <1>8, RuntimeStutter DEF ScanRefused, ScanExhausted
<1> QED BY <1>1, <1>2, <1>3, <1>4, <1>5, <1>6, <1>7, <1>8 DEF Next, CycleStep

LEMMA RuntimeHolds == Spec => []RuntimeInv
  BY RuntimeInit, RuntimeInductive, PTL DEF Spec

----------------------------------------------------------------------------
(* Only a scan gives a result. *)
LEMMA ResultFromScan ==
    ASSUME [Next]_vars, result = None, result' # None
    PROVE  Scan
<1>1. ~Enqueue /\ ~Commit /\ ~CommitRefused /\ ~Abandon
  BY DEF Enqueue, Commit, CommitRefused, Abandon
<1>2. ~ScanRefused /\ ~ScanExhausted /\ ~UNCHANGED vars
  BY DEF ScanRefused, ScanExhausted, vars
<1>3. /\ \A p \in Procs : ~ChangeProcess(p)
      /\ \A k \in Ports : ~ChangePort(k)
      /\ \A t \in Families \cup {"procs"} : ~ChangeTable(t)
  BY DEF ChangeProcess, ChangePort, ChangeTable
<1> QED BY <1>1, <1>2, <1>3 DEF Next, CycleStep

(* What the events of a scan say of the host. *)
LEMMA ScanTellsTruth ==
    ASSUME RuntimeInv, Scan
    PROVE  /\ \A e \in result'.events :
                 /\ e.kind = "closed" => e.what \notin listening \/ table[e.what.family] = "missing"
                 /\ e.kind = "opened" => e.what \in listening \ lastFull[e.what.family]
           /\ calm => \A e \in result'.events : e.kind \in {"coverage", "overflow"}
<1>1. RuntimeTypeOK /\ StateInv
  BY DEF RuntimeInv
<1>2. PICK E \in Captures, p4 \in parseListeningPorts("tcp4"), p6 \in parseListeningPorts("tcp6") :
      \E K \in appendBounded(processEvents(E) \cup portEvents(NextPorts(p4, p6))) :
         result' = [events |-> ScanEvents(K), queued |-> {}, next |-> NextState(E, NextPorts(p4, p6))]
  BY ScanView
<1> DEFINE ports == NextPorts(p4, p6)
           found == processEvents(E) \cup portEvents(ports)
<1>3. PICK K \in appendBounded(found) :
         result' = [events |-> ScanEvents(K), queued |-> {}, next |-> NextState(E, ports)]
  BY <1>2
<1>4. /\ ports \in SUBSET Ports
      /\ \A k \in ports \ Previous.ports : k \in listening
      /\ \A k \in Previous.ports \ ports : k \notin listening \/ table[k.family] = "missing"
      /\ Still => ports = {k \in listening : table[k.family] = "ok"}
  BY <1>1, PortFacts
<1> HIDE DEF ports
<1> DEFINE all == ScanEvents(K)
<1>5. /\ result'.events = all /\ all \subseteq Event
      /\ \A e \in all : e.kind \in {"coverage", "overflow"} \/ e \in found
  BY <1>1, <1>3, <1>4, ScanEventFacts
<1>6. /\ \A k : Opened(k) \in found => k \in ports \ Previous.ports
      /\ \A k : Closed(k) \in found => k \in Previous.ports \ ports
  BY <1>4, FoundFacts
<1>7. ASSUME calm PROVE found = {}
  <2>1. /\ state # None /\ state.ports = ports
        /\ Current(E) \subseteq KnownIn(state) /\ state.names = currentNames(E)
    BY <1>1, <1>4, <1>7 DEF StateInv, Describes
  <2>2. processEvents(E) = {}
    BY <2>1 DEF processEvents, previousName
  <2>3. portEvents(ports) = {}
    BY <2>1 DEF portEvents
  <2> QED BY <2>2, <2>3
<1> HIDE DEF found, all
<1>8. ASSUME NEW e \in all, e.kind = "closed"
      PROVE  e.what \notin listening \/ table[e.what.family] = "missing"
  <2>1. Closed(e.what) \in found
    BY <1>5, <1>8, EventForms
  <2> QED BY <1>4, <1>6, <2>1
<1>9. ASSUME NEW e \in all, e.kind = "opened"
      PROVE  e.what \in listening \ lastFull[e.what.family]
  <2>1. Opened(e.what) \in found /\ e.what \in Ports
    BY <1>5, <1>9, EventForms
  <2>2. e.what.family \in Families
    BY <2>1, RuntimeWatchAssumption
  <2>3. e.what \notin lastFull[e.what.family]
    BY <1>1, <1>6, <2>1, <2>2 DEF StateInv
  <2> QED BY <1>4, <1>6, <2>1, <2>3
<1> QED BY <1>5, <1>7, <1>8, <1>9

(* Every step tells events, or settles what they have told, or neither. *)
LEMMA StepReports ==
    ASSUME RuntimeInv, RuntimeInv', [Next]_vars
    PROVE  [Reports!Next]_<<announced, absorbed>>
<1>1. CASE Enqueue
  <2>1. announced \subseteq announced' /\ absorbed' = absorbed
    BY <1>1 DEF Enqueue
  <2> QED BY <2>1 DEF Reports!Next, Reports!Tell
<1>2. CASE Commit
  <2>1. absorbed \subseteq absorbed' /\ announced' = announced
    BY <1>2 DEF Commit, SaveState
  <2>2. absorbed' \subseteq announced'
    BY DEF RuntimeInv, StateInv
  <2> QED BY <2>1, <2>2 DEF Reports!Next, Reports!Settle
<1>3. CASE Scan \/ ScanRefused \/ ScanExhausted \/ UNCHANGED vars
  BY <1>3 DEF Scan, ScanRefused, ScanExhausted, vars, history
<1>4. CASE Abandon \/ CommitRefused
  BY <1>4 DEF Abandon, CommitRefused, Forget
<1>5. CASE \E p \in Procs : ChangeProcess(p)
  BY <1>5 DEF ChangeProcess
<1>6. CASE \E k \in Ports : ChangePort(k)
  BY <1>6 DEF ChangePort
<1>7. CASE \E t \in Families \cup {"procs"} : ChangeTable(t)
  BY <1>7 DEF ChangeTable
<1> QED BY <1>1, <1>2, <1>3, <1>4, <1>5, <1>6, <1>7 DEF Next, CycleStep

----------------------------------------------------------------------------
(* validateState accepts the state that Commit is about to save and the    *)
(* one on disk, whatever the limits, the pruning and the partial captures  *)
(* of Scan do. It says nothing of the length of the encoded state and of   *)
(* paths that JSON makes longer, which saveState and loadState refuse.     *)
THEOREM RuntimeTypeCorrect == Spec => []RuntimeTypeOK
<1>1. RuntimeInv => RuntimeTypeOK
  BY DEF RuntimeInv
<1> QED BY <1>1, RuntimeHolds, PTL

(* pruneKnown never forgets an identity that has kept running since it     *)
(* became known.                                                           *)
THEOREM RunningProcessesStayKnown == Spec => []RunningStaysKnown
<1>1. RuntimeInv => RunningStaysKnown
  BY DEF RuntimeInv, StateInv
<1> QED BY <1>1, RuntimeHolds, PTL

(* Whoever applies the port events of runCycle in order has the sockets of *)
(* the committed state, but for abandoned cycles and the event limit.      *)
THEOREM EventsAlwaysTellPorts == Spec => []EventsTellPorts
<1>1. RuntimeInv => EventsTellPorts
  BY DEF RuntimeInv
<1> QED BY <1>1, RuntimeHolds, PTL

(* Scan reports a socket as closed or opened only if it is, whatever part  *)
(* of the tables could be read.                                            *)
THEOREM PortEventsAreTrue == Spec => PortEventsTrue
<1> DEFINE Truth == result = None /\ result' # None =>
              \A e \in result'.events :
                 /\ e.kind = "closed" => e.what \notin listening \/ table[e.what.family] = "missing"
                 /\ e.kind = "opened" => e.what \in listening \ lastFull[e.what.family]
<1>1. RuntimeInv /\ [Next]_vars => [Truth]_vars
  BY ResultFromScan, ScanTellsTruth
<1> QED BY <1>1, RuntimeHolds, PTL DEF Spec, PortEventsTrue

(* A scan of a host on which nothing has happened since a complete capture *)
(* was committed reports no process and no socket.                         *)
THEOREM QuietHostIsSilent == Spec => QuietHostSilent
<1> DEFINE Silence == result = None /\ result' # None /\ calm =>
              \A e \in result'.events : e.kind \in {"coverage", "overflow"}
<1>1. RuntimeInv /\ [Next]_vars => [Silence]_vars
  BY ResultFromScan, ScanTellsTruth
<1> QED BY <1>1, RuntimeHolds, PTL DEF Spec, QuietHostSilent

(* Commit makes an identity known only after runCycle has queued the event *)
(* about it: the detector implements the contract of a detector.           *)
THEOREM ProcessesAreReported == Spec => ProcessesReported
<1>1. Init => Reports!Init
  BY DEF Init, Reports!Init
<1>2. RuntimeInv /\ RuntimeInv' /\ [Next]_vars => [Reports!Next]_<<announced, absorbed>>
  BY StepReports
<1> QED BY <1>1, <1>2, RuntimeHolds, PTL DEF Spec, ProcessesReported, Reports!Spec
=============================================================================
