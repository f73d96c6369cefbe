--------------------------- MODULE SSHAuthProofs ---------------------------
(***************************************************************************)
(* What holds of the SSH authentication detector for every number of logs, *)
(* sources and lines and for every limit.                                  *)
(***************************************************************************)
EXTENDS SSHAuth, FiniteSetTheorems, WellFoundedInduction, SequenceTheorems, TLAPS

(* The lines there are. *)
LineNumbers == 1..Len(written)

(* A log holds lines of its own path in the order of their writing. *)
LogInv ==
    /\ \A p \in Paths : log[p].half => log[p].lines # <<>>
    /\ \A p \in Paths : \A k \in 1..Len(log[p].lines) :
          log[p].lines[k] \in LineNumbers /\ written[log[p].lines[k]].path = p
    /\ \A p \in Paths : \A j, k \in 1..Len(log[p].lines) : j < k => log[p].lines[j] < log[p].lines[k]
    /\ \A k \in 1..Len(journal) : journal[k] \in LineNumbers
    /\ \A i \in Ids : counted[i] > 0 => i \in LineNumbers

(* The lines of a scan come from the logs it has been through. *)
EntryInv ==
    /\ IsFiniteSet(scan.lines) /\ scan.todo \subseteq scan.lines
    /\ scan.pc # "apply" => scan.todo = {}
    /\ \A e \in scan.lines :
          /\ e.line \in LineNumbers
          /\ e.path # JournalPath => written[e.line].path = e.path
          /\ scan.pc \in {"look", "read"} => e.path \in 1..(scan.path - 1)

Base == SSHTypeOK /\ Valid(scan.next) /\ LogInv /\ EntryInv

----------------------------------------------------------------------------
(* Facts about numbers and sequences. *)
LEMMA Parity ==
    ASSUME NEW n \in Nat
    PROVE  \E k \in Nat : n = 2 * k \/ n = 2 * k + 1
<1> WITNESS n \div 2 \in Nat
<1> QED OBVIOUS

LEMMA LeastNatural ==
    ASSUME NEW S \in SUBSET Nat, S # {}
    PROVE  \E x \in S : \A y \in S : x <= y
<1>1. PICK x \in S : \A y \in S : ~ (<<y, x>> \in OpToRel(<, Nat))
  BY NatLessThanWellFounded, WFMin
<1>2. ASSUME NEW y \in S PROVE x <= y
  <2>1. x \in Nat /\ y \in Nat
    OBVIOUS
  <2>2. ~(y < x)
    BY <1>1, <2>1 DEF OpToRel
  <2> QED BY <2>1, <2>2
<1> QED BY <1>2

(* A set of numbers with a bound has a greatest one. *)
LEMMA MaxIsGreatest ==
    ASSUME NEW n \in Nat, NEW S \in SUBSET (0..n), S # {}
    PROVE  Max(S) \in S /\ \A x \in S : x <= Max(S)
<1> DEFINE B == {m \in Nat : \A x \in S : x <= m}
<1>1. n \in B
  OBVIOUS
<1>2. PICK m \in B : \A b \in B : m <= b
  BY <1>1, LeastNatural
<1>3. m \in S
  <2>1. SUFFICES ASSUME m \notin S PROVE FALSE
    OBVIOUS
  <2>2. PICK x \in S : TRUE
    OBVIOUS
  <2>3. m # 0 /\ \A y \in S : y <= m - 1
    BY <2>1, <2>2
  <2>4. m - 1 \in B
    BY <2>3
  <2> QED BY <1>2, <2>4
<1>4. m \in S /\ \A x \in S : m >= x
  BY <1>3
<1> QED BY <1>4 DEF Max

(* What is left of the attempts when the first ones are dropped. *)
LEMMA LaterAttempts ==
    ASSUME NEW f \in Seq(0..Expired), NEW n \in Nat
    PROVE  LET g == SubSeq(f, 1 + n, Len(f))
           IN  /\ g \in Seq(0..Expired) /\ Len(g) <= Len(f) /\ Len(g) \in Nat
               /\ n <= Len(f) => Len(g) = Len(f) - n
               /\ g # <<>> => Len(g) > 0 /\ f # <<>> /\ Last(g) = Last(f) /\ Last(f) \in 0..Expired
<1> DEFINE S == 0..Expired
           g == SubSeq(f, 1 + n, Len(f))
<1> HIDE DEF S
<1>0. f \in Seq(S)
  BY DEF S
<1>1. CASE n < Len(f)
  <2>1. g \in Seq(S) /\ Len(g) = Len(f) - n /\ \A i \in 1..(Len(f) - n) : g[i] = f[n + i]
    <3>1. \A i \in (1 + n)..Len(f) : f[i] \in S
      BY <1>0
    <3>2. 1 + n \in Int /\ Len(f) \in Int
      OBVIOUS
    <3>3. /\ g \in Seq(S) /\ Len(g) = IF 1 + n <= Len(f) THEN Len(f) - (1 + n) + 1 ELSE 0
          /\ \A i \in 1..(Len(f) - (1 + n) + 1) : g[i] = f[(1 + n) + i - 1]
      BY <3>1, <3>2, SubSeqProperties
    <3>4. \A i \in 1..(Len(f) - n) : g[i] = f[n + i]
      <4> TAKE i \in 1..(Len(f) - n)
      <4>1. i \in 1..(Len(f) - (1 + n) + 1) /\ (1 + n) + i - 1 = n + i
        OBVIOUS
      <4> QED BY <3>3, <4>1
    <3> HIDE DEF g
    <3> QED BY <1>1, <3>3, <3>4
  <2>2. Last(g) = f[Len(f)] /\ Last(f) = f[Len(f)] /\ f # <<>>
    <3>1. Len(f) - n \in 1..(Len(f) - n) /\ n + (Len(f) - n) = Len(f) /\ Len(f) # 0
      BY <1>1
    <3> HIDE DEF g
    <3> QED BY <2>1, <3>1 DEF Last
  <2> QED BY <1>0, <1>1, <2>1, <2>2 DEF S
<1>2. CASE n >= Len(f)
  <2>1. g = <<>>
    BY <1>2, SubSeqEmpty
  <2> QED BY <1>2, <2>1
<1> QED BY <1>1, <1>2

LEMMA ImageFinite ==
    ASSUME NEW S, IsFiniteSet(S), NEW f
    PROVE  LET T == {f[x] : x \in S} IN IsFiniteSet(T) /\ Cardinality(T) <= Cardinality(S)
<1> DEFINE T == {f[x] : x \in S}
           g == [x \in S |-> f[x]]
<1>1. g \in Surjection(S, T)
  BY DEF Surjection
<1> QED BY <1>1, FS_Surjection

----------------------------------------------------------------------------
(* The types of what the actions compute. *)
LEMMA SizeType ==
    ASSUME Base, NEW p \in Paths
    PROVE  /\ Size(p) \in Nat /\ log[p].lines \in Seq(Ids) /\ Len(log[p].lines) \in Nat
           /\ log[p].half \in BOOLEAN /\ log[p].access \in {"ok", "absent", "denied"}
           /\ \A k \in 1..Len(log[p].lines) : log[p].lines[k] \in Ids
           /\ Size(p) = 2 * Len(log[p].lines) \/ Size(p) = 2 * Len(log[p].lines) - 1
           /\ Size(p) = 0 <=> log[p].lines = <<>>
           /\ Size(p) <= 2 * Len(log[p].lines) /\ 2 * Len(log[p].lines) - 1 <= Size(p)
<1>1. /\ log[p] \in Log /\ (log[p].half => log[p].lines # <<>>)
  BY DEF Base, SSHTypeOK, LogInv
<1>2. /\ log[p].lines \in Seq(Ids) /\ log[p].half \in BOOLEAN
      /\ log[p].access \in {"ok", "absent", "denied"}
  BY <1>1 DEF Log
<1>3. Len(log[p].lines) \in Nat /\ (log[p].lines = <<>> <=> Len(log[p].lines) = 0)
  BY <1>2
<1>4. CASE log[p].half
  BY <1>1, <1>2, <1>3, <1>4 DEF Size
<1>5. CASE ~log[p].half
  BY <1>1, <1>2, <1>3, <1>5 DEF Size
<1> QED BY <1>4, <1>5

LEMMA BegunType ==
    ASSUME Base, NEW p \in Paths, NEW n \in Nat
    PROVE  /\ Begun(p, n) \subseteq LineNumbers /\ LineNumbers \subseteq Ids
           /\ Prefix(p, n) \in [bytes : Nat, lines : SUBSET Ids]
           /\ n <= Size(p) => (n = 0 <=> Begun(p, n) = {})
           /\ n > 0 /\ log[p].lines # <<>> => log[p].lines[1] \in Begun(p, n)
<1>1. /\ \A k \in 1..Len(log[p].lines) : log[p].lines[k] \in LineNumbers
      /\ Len(written) \in Nat /\ Len(written) <= MaxWritten /\ MaxWritten \in Nat
  BY SSHAuthAssumption DEF Base, SSHTypeOK, LogInv
<1>2. LineNumbers \subseteq Ids
  BY <1>1 DEF LineNumbers, Ids
<1>3. Begun(p, n) \subseteq LineNumbers
  BY <1>1 DEF Begun
<1>4. Prefix(p, n) \in [bytes : Nat, lines : SUBSET Ids]
  BY <1>2, <1>3 DEF Prefix
<1>5. ASSUME n > 0, log[p].lines # <<>> PROVE log[p].lines[1] \in Begun(p, n)
  <2>1. 1 \in 1..Len(log[p].lines) /\ 2 * 1 - 1 <= n
    BY <1>5, SizeType
  <2> QED BY <2>1 DEF Begun
<1>6. n = 0 => Begun(p, n) = {}
  BY SizeType DEF Begun
<1>7. n <= Size(p) /\ n # 0 => log[p].lines # <<>>
  BY SizeType
<1> QED BY <1>2, <1>3, <1>4, <1>5, <1>6, <1>7

LEMMA StateType ==
    ASSUME Base
    PROVE  /\ state \in DetectorState /\ scan.next \in DetectorState
           /\ \A p \in Paths : state.files[p] \in Cursor /\ scan.next.files[p] \in Cursor
  BY DEF Base, SSHTypeOK, Scan, DetectorState

LEMMA NewStateType ==
    ASSUME TRUE
    PROVE  /\ NewState \in DetectorState /\ NoScan \in Scan /\ NoCursor \in Cursor /\ Valid(NewState)
           /\ NoScan.next = NewState
<1>1. NoCursor \in Cursor
  BY DEF NoCursor, Cursor, NoPrefix
<1>2. NewState \in DetectorState
  BY <1>1, SSHAuthAssumption DEF NewState, DetectorState
<1>3. NoScan \in Scan
  BY <1>2, SSHAuthAssumption DEF NoScan, Scan
<1>4. Valid(NewState)
  <2>1. Sources(NewState) = {}
    BY DEF Sources, NewState
  <2>2. Cardinality(Sources(NewState)) = 0
    BY <2>1, FS_EmptySet
  <2> QED BY <2>2, SSHAuthAssumption DEF Valid, NewState, NoCursor, NoPrefix
<1> QED BY <1>1, <1>2, <1>3, <1>4 DEF NoScan

LEMMA RemainingType ==
    ASSUME Base
    PROVE  Remaining \in Int /\ Remaining <= MaxLines
<1>1. IsFiniteSet(scan.lines)
  BY DEF Base, EntryInv
<1>2. Cardinality(scan.lines) \in Nat
  BY <1>1, FS_CardinalityType
<1> QED BY <1>2, SSHAuthAssumption DEF Remaining

(* Of a source that was not forgotten the state has every attempt. *)
Complete(s) == \A i \in IPs : i \notin s.forgotten => s.tried[i] = s.failures[i]

(* A cursor put in the place of another. *)
Moved(p, c) == [scan.next EXCEPT !.files[p] = c]

LEMMA MovedType ==
    ASSUME Base, NEW p \in Paths, NEW c \in Cursor, c.prefix.bytes <= PrefixLimit
    PROVE  /\ Moved(p, c) \in DetectorState /\ Valid(Moved(p, c))
           /\ Moved(p, c).files = [scan.next.files EXCEPT ![p] = c]
           /\ Moved(p, c).failures = scan.next.failures
           /\ Moved(p, c).alerted = scan.next.alerted
           /\ Complete(scan.next) => Complete(Moved(p, c))
<1>1. scan.next \in DetectorState /\ Valid(scan.next)
  BY StateType DEF Base
<1>2. /\ Moved(p, c) \in DetectorState
      /\ Moved(p, c).files = [scan.next.files EXCEPT ![p] = c]
      /\ Moved(p, c).failures = scan.next.failures
      /\ Moved(p, c).alerted = scan.next.alerted
      /\ Moved(p, c).tried = scan.next.tried /\ Moved(p, c).forgotten = scan.next.forgotten
  BY <1>1 DEF Moved, DetectorState
<1>3. Sources(Moved(p, c)) = Sources(scan.next)
  BY <1>2 DEF Sources
<1>4. Valid(Moved(p, c))
  BY <1>1, <1>2, <1>3 DEF Valid, DetectorState
<1>5. Complete(scan.next) => Complete(Moved(p, c))
  BY <1>2 DEF Complete
<1> QED BY <1>2, <1>4, <1>5

LEMMA SkippedType ==
    ASSUME Base, NEW p \in Paths, NEW c \in Cursor, c.prefix.bytes <= PrefixLimit,
           NEW reasons \in SUBSET {"unreadable", "line_limit_reached", "read_limit_reached",
                                   "oversized_line_skipped"}
    PROVE  LET r == Skipped(p, c, reasons)
           IN  /\ r \in Scan /\ r.pc = "look" /\ r.path = p + 1 /\ r.next = Moved(p, c)
               /\ r.lines = scan.lines /\ r.todo = scan.todo /\ r.based = scan.based
               /\ r.usable = scan.usable /\ r.events = scan.events
<1>1. scan \in Scan /\ Moved(p, c) \in DetectorState
  BY MovedType DEF Base, SSHTypeOK
<1>2. {[path |-> p, reason |-> x] : x \in reasons} \in SUBSET Issue
  BY DEF Issue
<1>3. p + 1 \in 1..(NumPaths + 1)
  BY SSHAuthAssumption DEF Paths
<1> QED BY <1>1, <1>2, <1>3 DEF Skipped, Scan, Moved

(* readLines: the new offset is the old one or the end of a line, the      *)
(* lines it returns are those between the two offsets, but for the long    *)
(* ones, and all of them are whole but one that the old offset divides.    *)
Consumed(p, offset, got) ==
    /\ got.offset \in Nat /\ offset <= got.offset
    /\ offset <= Size(p) => got.offset <= Size(p)
    /\ got.lines \in SUBSET Entry /\ IsFiniteSet(got.lines)
    /\ \A e \in got.lines :
          /\ e.path = p /\ e.at \in 1..Len(log[p].lines) /\ e.line = log[p].lines[e.at]
          /\ offset < 2 * e.at /\ 2 * e.at <= got.offset
    /\ \A k \in 1..Len(log[p].lines) : offset < 2 * k /\ 2 * k <= got.offset =>
          \/ Text(log[p].lines[k]).kind = "long" \/ offset = 2 * k - 1
          \/ \E e \in got.lines : e.line = log[p].lines[k] /\ e.whole
    /\ \A k \in 1..Len(log[p].lines) : 2 * k - 1 = got.offset => got.offset = offset

LEMMA ReadLinesFacts ==
    ASSUME Base, NEW p \in Paths, NEW offset \in Nat, NEW max \in Int,
           NEW got, got = readLines(p, offset, max)
    PROVE  Consumed(p, offset, got)
<1> SUFFICES /\ got.offset \in Nat /\ offset <= got.offset
             /\ offset <= Size(p) => got.offset <= Size(p)
             /\ got.lines \in SUBSET Entry /\ IsFiniteSet(got.lines)
             /\ \A e \in got.lines :
                   /\ e.path = p /\ e.at \in 1..Len(log[p].lines) /\ e.line = log[p].lines[e.at]
                   /\ offset < 2 * e.at /\ 2 * e.at <= got.offset
             /\ \A k \in 1..Len(log[p].lines) : offset < 2 * k /\ 2 * k <= got.offset =>
                   \/ Text(log[p].lines[k]).kind = "long" \/ offset = 2 * k - 1
                   \/ \E e \in got.lines : e.line = log[p].lines[k] /\ e.whole
             /\ \A k \in 1..Len(log[p].lines) : 2 * k - 1 = got.offset => got.offset = offset
  BY DEF Consumed
<1> DEFINE lines == log[p].lines
           cut == Size(p) > offset + MaxRead
           ends == {k \in 1..Len(lines) : offset < 2 * k /\ 2 * k <= AtMost(Size(p), offset + MaxRead)}
           Whole(k) == offset < 2 * k - 1
           Long(k) == Whole(k) /\ Text(lines[k]).kind = "long"
           short == {k \in ends : ~Long(k)}
           taken == {k \in ends : Cardinality({j \in short : j <= k}) <= max}
           E(k) == [path |-> p, at |-> k, line |-> lines[k], whole |-> Whole(k)]
           entries == {E(k) : k \in short \cap taken}
<1>0. /\ Len(lines) \in Nat /\ Size(p) \in Nat /\ MaxRead \in Nat /\ MaxRead >= 2
      /\ Size(p) <= 2 * Len(lines) /\ \A k \in 1..Len(lines) : lines[k] \in Ids
  BY SizeType, SSHAuthAssumption
<1>9. IsFiniteSet(1..Len(lines))
  <2>1. 1 \in Int /\ Len(lines) \in Int
    BY <1>0
  <2> HIDE DEF lines
  <2> QED BY <2>1, FS_Interval
<1>1. /\ AtMost(Size(p), offset + MaxRead) \in Nat
      /\ AtMost(Size(p), offset + MaxRead) <= Size(p)
      /\ AtMost(Size(p), offset + MaxRead) <= offset + MaxRead
      /\ cut => AtMost(Size(p), offset + MaxRead) = offset + MaxRead
  BY <1>0 DEF AtMost
<1>2. ends = {} => ~cut
  <2>1. SUFFICES ASSUME cut PROVE ends # {}
    OBVIOUS
  <2>2. PICK h \in Nat : offset = 2 * h \/ offset = 2 * h + 1
    BY Parity
  <2>3. h + 1 \in 1..Len(lines) /\ offset < 2 * (h + 1) /\ 2 * (h + 1) <= offset + MaxRead
    BY <1>0, <2>1, <2>2
  <2>4. h + 1 \in ends
    BY <1>1, <2>1, <2>3
  <2> QED BY <2>4
<1>3. CASE ends = {}
  <2>1. got.lines = {} /\ got.offset = offset
    BY <1>2, <1>3 DEF readLines
  <2>2. \A k \in 1..Len(lines) : ~(offset < 2 * k /\ 2 * k <= got.offset)
    BY <1>0, <2>1
  <2> HIDE DEF ends
  <2> QED BY <2>1, <2>2, FS_EmptySet
<1>4. CASE ends # {}
  <2>1. got.lines = entries /\ got.offset = nextOffset(p, offset, taken)
    BY <1>4 DEF readLines
  <2>2. /\ ends \subseteq 1..Len(lines) /\ ends \subseteq 0..Len(lines)
        /\ taken \subseteq ends /\ short \subseteq ends /\ taken \in SUBSET (0..Len(lines))
        /\ \A k \in ends : offset < 2 * k /\ 2 * k <= Size(p)
    BY <1>0, <1>1
  <2>3. /\ \A e \in entries : \E k \in short \cap taken : e = E(k)
        /\ \A k \in short \cap taken : E(k) \in entries
    OBVIOUS
  <2>4. entries \in SUBSET Entry
    <3>1. \A k \in 1..Len(lines) : k \in Nat /\ lines[k] \in Ids /\ Whole(k) \in BOOLEAN
      BY <1>0
    <3>2. \A k \in 1..Len(lines) : E(k) \in Entry
      BY <3>1 DEF Entry
    <3> QED BY <2>2, <3>2
  <2>5. IsFiniteSet(entries)
    <3>2. short \cap taken \subseteq 1..Len(lines)
      BY <2>2
    <3>3. IsFiniteSet(short \cap taken)
      BY <1>9, <3>2, FS_Subset
    <3> DEFINE T == short \cap taken
               f == [k \in T |-> E(k)]
    <3>4. entries = {f[k] : k \in T}
      OBVIOUS
    <3> HIDE DEF f, T, entries
    <3>5. IsFiniteSet(T)
      BY <3>3 DEF T
    <3> QED BY <3>4, <3>5, ImageFinite
  <2>6. CASE taken = {}
    <3>1. entries = {} /\ got.offset = offset
      BY <2>1, <2>6 DEF nextOffset
    <3>2. \A k \in 1..Len(lines) : ~(offset < 2 * k /\ 2 * k <= got.offset)
      BY <1>0, <3>1
    <3> HIDE DEF entries, taken, ends, short
    <3> QED BY <2>1, <2>4, <2>5, <3>1, <3>2
  <2>7. CASE taken # {}
    <3> DEFINE m == Max(taken)
    <3> HIDE DEF taken, short, ends, entries
    <3>1. m \in taken /\ \A k \in taken : k <= m
      BY <1>0, <2>2, <2>7, MaxIsGreatest
    <3> HIDE DEF m
    <3>2. /\ got.offset = 2 * m /\ m \in 1..Len(lines) /\ m \in Nat
          /\ offset < 2 * m /\ 2 * m <= Size(p)
      <4>1. got.offset = 2 * m
        BY <2>1, <2>7 DEF nextOffset, m
      <4> QED BY <1>0, <2>2, <3>1, <4>1
    <3>3. \A k \in 1..Len(lines) : offset < 2 * k /\ k <= m => k \in taken
      <4> TAKE k \in 1..Len(lines)
      <4> HAVE offset < 2 * k /\ k <= m
      <4>1. m \in ends /\ Cardinality({j \in short : j <= m}) <= max
        BY <3>1 DEF taken
      <4>2. 2 * m <= AtMost(Size(p), offset + MaxRead)
        BY <4>1 DEF ends
      <4>3. k \in ends
        BY <1>0, <1>1, <3>2, <4>2 DEF ends
      <4>4. {j \in short : j <= k} \subseteq {j \in short : j <= m}
        <5>1. \A j \in short : j \in Nat
          BY <1>0, <2>2
        <5> QED BY <3>2, <5>1
      <4>5. IsFiniteSet({j \in short : j <= m})
        <5>1. {j \in short : j <= m} \subseteq 1..Len(lines)
          BY <2>2
        <5> QED BY <1>9, <5>1, FS_Subset
      <4>6. /\ Cardinality({j \in short : j <= k}) <= Cardinality({j \in short : j <= m})
            /\ Cardinality({j \in short : j <= k}) \in Nat
            /\ Cardinality({j \in short : j <= m}) \in Nat
        BY <4>4, <4>5, FS_Subset, FS_CardinalityType
      <4>7. Cardinality({j \in short : j <= k}) <= max
        BY <4>1, <4>6
      <4> QED BY <4>3, <4>7 DEF taken
    <3>4. \A e \in got.lines :
             /\ e.path = p /\ e.at \in 1..Len(lines) /\ e.line = lines[e.at]
             /\ offset < 2 * e.at /\ 2 * e.at <= got.offset
      <4> TAKE e \in got.lines
      <4>1. PICK k \in short \cap taken : e = E(k)
        BY <2>1, <2>3
      <4>2. k \in 1..Len(lines) /\ offset < 2 * k /\ k <= m /\ k \in Nat
        BY <1>0, <2>2, <3>1, <4>1
      <4>3. e.path = p /\ e.at = k /\ e.line = lines[k]
        BY <4>1
      <4> QED BY <3>2, <4>2, <4>3
    <3>5. ASSUME NEW k \in 1..Len(lines), offset < 2 * k, 2 * k <= got.offset
          PROVE  \/ Text(lines[k]).kind = "long" \/ offset = 2 * k - 1
                 \/ \E e \in got.lines : e.line = lines[k] /\ e.whole
      <4>1. k \in taken
        BY <1>0, <3>2, <3>3, <3>5
      <4>2. CASE k \in short
        <5>1. E(k) \in got.lines /\ E(k).line = lines[k] /\ E(k).whole = Whole(k)
          BY <2>1, <2>3, <4>1, <4>2
        <5>2. ~Whole(k) => offset = 2 * k - 1
          <6>1. k \in Nat /\ offset < 2 * k
            BY <1>0, <3>5
          <6> QED BY <6>1
        <5> QED BY <5>1, <5>2
      <4>3. CASE k \notin short
        BY <2>2, <4>1, <4>3 DEF short
      <4> QED BY <4>2, <4>3
    <3>6. \A k \in 1..Len(lines) : 2 * k - 1 # got.offset
      BY <1>0, <3>2
    <3>7. got.offset \in Nat /\ offset <= got.offset /\ got.offset <= Size(p)
      BY <1>0, <3>2
    <3>8. got.lines \in SUBSET Entry /\ IsFiniteSet(got.lines)
      BY <2>1, <2>4, <2>5
    <3> QED BY <3>4, <3>5, <3>6, <3>7, <3>8
  <2> QED BY <2>6, <2>7
<1> QED BY <1>3, <1>4

----------------------------------------------------------------------------
(* The steps of readPath change one cursor, add lines of that log and, in  *)
(* the first scan, lines to pass over.                                     *)
CursorStep(p, c, new, passed) ==
    /\ scan.pc \in {"look", "read"} /\ scan.path = p
    /\ scan' \in Scan /\ scan'.pc \in {"look", "read"} /\ scan'.next = Moved(p, c)
    /\ scan'.path \in {p, p + 1} /\ (new # {} => scan'.path = p + 1)
    /\ scan'.lines = scan.lines \cup new /\ scan'.based = scan.based \cup passed
    /\ scan'.todo = scan.todo /\ scan'.events = scan.events
    /\ UNCHANGED <<log, written, journal, faults, state, history>>

(* A look that ends the matter keeps the cursor, or has none for an absent *)
(* log.                                                                    *)
LEMMA KeepEffect ==
    ASSUME Base, NEW p \in Paths, LookPast(p) \/ LookUnreadable(p) \/ ReadFails(p)
    PROVE  \E c \in {state.files[p], NoCursor} :
              /\ CursorStep(p, c, {}, {}) /\ c \in Cursor /\ c.prefix.bytes <= PrefixLimit
              /\ c = NoCursor => c = state.files[p] \/ log[p].access = "absent"
              /\ upset' = upset
<1>1. /\ state.files[p] \in Cursor /\ state.files[p].prefix.bytes <= PrefixLimit
      /\ NoCursor \in Cursor /\ NoCursor.prefix.bytes <= PrefixLimit
  <2>1. state.files[p] \in Cursor /\ state.files[p].prefix.bytes <= PrefixLimit
    BY StateType DEF Base, SSHTypeOK, Valid
  <2> QED BY <2>1, NewStateType, SSHAuthAssumption DEF NoCursor, NoPrefix
<1>2. ASSUME NEW c \in {state.files[p], NoCursor},
             NEW reasons \in SUBSET {"unreadable", "line_limit_reached"},
             scan.pc \in {"look", "read"}, scan.path = p,
             scan' = Skipped(p, c, reasons), UNCHANGED <<env, state, history>>
      PROVE  CursorStep(p, c, {}, {}) /\ upset' = upset
  <2>0. scan' = Skipped(p, c, reasons) /\ UNCHANGED <<env, state, history>>
    BY <1>2
  <2>1. /\ scan' \in Scan /\ scan'.pc = "look" /\ scan'.path = p + 1 /\ scan'.next = Moved(p, c)
        /\ scan'.lines = scan.lines /\ scan'.todo = scan.todo /\ scan'.based = scan.based
        /\ scan'.events = scan.events
    <3>1. reasons \in SUBSET {"unreadable", "line_limit_reached", "read_limit_reached",
                              "oversized_line_skipped"}
      OBVIOUS
    <3>2. c \in Cursor /\ c.prefix.bytes <= PrefixLimit
      BY <1>1
    <3> QED BY <2>0, <3>1, <3>2, SkippedType
  <2> QED BY <1>2, <2>0, <2>1 DEF CursorStep, env
<1>3. CASE LookPast(p)
  <2>1. CASE Remaining <= 0
    <3>1. CursorStep(p, state.files[p], {}, {}) /\ upset' = upset
      BY <1>2, <1>3, <2>1 DEF LookPast, AtPath
    <3> QED BY <1>1, <3>1
  <2>2. CASE ~(Remaining <= 0)
    <3>1. CursorStep(p, NoCursor, {}, {}) /\ upset' = upset /\ log[p].access = "absent"
      BY <1>2, <1>3, <2>2 DEF LookPast, AtPath
    <3> QED BY <1>1, <3>1
  <2> QED BY <2>1, <2>2
<1>4. CASE LookUnreadable(p)
  <2>1. CursorStep(p, state.files[p], {}, {}) /\ upset' = upset
    BY <1>2, <1>4 DEF LookUnreadable, AtPath
  <2> QED BY <1>1, <2>1
<1>5. CASE ReadFails(p)
  <2>1. CursorStep(p, state.files[p], {}, {}) /\ upset' = upset
    BY <1>2, <1>5 DEF ReadFails, AtPath
  <2> QED BY <1>1, <2>1
<1> QED BY <1>3, <1>4, <1>5

(* A look that is followed by a read takes the prefix of the log there is, *)
(* and starts at its end, its beginning or where the cursor was.           *)
Looked(p, c) ==
    /\ c.exists /\ c.prefix = Prefix(p, c.prefix.bytes) /\ c.prefix.bytes <= Size(p)
    /\ Size(p) > 0 => c.prefix.bytes > 0
    /\ \/ ~state.saved /\ c.offset = Size(p)
       \/ state.saved /\ Replaced(p) /\ c.offset = 0
       \/ /\ state.saved /\ ~Replaced(p)
          /\ c.offset = state.files[p].offset /\ c.prefix = state.files[p].prefix
          /\ c.offset <= Size(p)

LEMMA LookEffect ==
    ASSUME Base, NEW p \in Paths, Look(p)
    PROVE  \E c \in Cursor :
              /\ CursorStep(p, c, {}, IF state.saved THEN {} ELSE Begun(p, Size(p)))
              /\ c.prefix.bytes <= PrefixLimit /\ Looked(p, c) /\ scan'.path = p /\ upset' = upset
<1> DEFINE old == state.files[p]
           fresh == state.saved /\ Replaced(p)
           from == IF ~state.saved THEN Size(p) ELSE IF fresh THEN 0 ELSE old.offset
           n == IF fresh THEN AtMost(Size(p), PrefixLimit) ELSE PrefixBytes(p)
           c == [exists |-> TRUE, offset |-> from, prefix |-> Prefix(p, n)]
           passed == IF state.saved THEN {} ELSE Begun(p, Size(p))
<1>1. /\ old \in Cursor /\ old.prefix.bytes <= PrefixLimit /\ state.saved \in BOOLEAN
      /\ old.offset \in Nat /\ old.prefix.bytes \in Nat /\ old.exists \in BOOLEAN
  <2>1. old \in Cursor /\ old.prefix.bytes <= PrefixLimit
    BY StateType DEF Base, SSHTypeOK, Valid
  <2> QED BY <2>1, StateType DEF Cursor, DetectorState
<1>2. Size(p) \in Nat /\ PrefixLimit \in Nat /\ PrefixLimit > 0
  BY SizeType, SSHAuthAssumption
<1>3. /\ AtMost(Size(p), PrefixLimit) \in Nat /\ AtMost(Size(p), PrefixLimit) <= PrefixLimit
      /\ AtMost(Size(p), PrefixLimit) <= Size(p)
      /\ Size(p) > 0 => AtMost(Size(p), PrefixLimit) > 0
  BY <1>2 DEF AtMost
<1>4. /\ Size(p) >= PrefixBytes(p) /\ AtPath("look", p) /\ UNCHANGED <<env, state, history>>
      /\ scan' = [scan EXCEPT !.pc = "read", !.next.files[p] = c,
                     !.based = IF state.saved THEN @ ELSE @ \cup Begun(p, Size(p))]
  BY DEF Look
<1>5. /\ PrefixBytes(p) \in Nat /\ PrefixBytes(p) <= PrefixLimit
      /\ Size(p) > 0 => PrefixBytes(p) > 0
  BY <1>1, <1>2, <1>3 DEF PrefixBytes
<1>6. n \in Nat /\ n <= PrefixLimit /\ n <= Size(p) /\ (Size(p) > 0 => n > 0)
  BY <1>3, <1>4, <1>5
<1>7. Prefix(p, n) \in [bytes : Nat, lines : SUBSET Ids] /\ Prefix(p, n).bytes = n
  <2> HIDE DEF n
  <2> QED BY <1>6, BegunType DEF Prefix
<1>8. from \in Nat
  BY <1>1, <1>2
<1>9. c \in Cursor /\ c.prefix = Prefix(p, n) /\ c.offset = from /\ c.exists
  <2> HIDE DEF n, from
  <2> QED BY <1>7, <1>8 DEF Cursor
<1>10. passed \in SUBSET Ids
  BY <1>2, BegunType
<1>11. CursorStep(p, c, {}, passed) /\ scan'.path = p /\ upset' = upset
  <2>1. scan \in Scan /\ Moved(p, c) \in DetectorState /\ Begun(p, Size(p)) \in SUBSET Ids
    <3>1. c.prefix.bytes <= PrefixLimit
      <4> HIDE DEF n, from
      <4> QED BY <1>6, <1>7
    <3> HIDE DEF c
    <3> QED BY <1>2, <1>9, <3>1, BegunType, MovedType DEF Base, SSHTypeOK
  <2> HIDE DEF c
  <2>2. /\ scan' \in Scan /\ scan'.pc = "read" /\ scan'.path = scan.path /\ scan'.next = Moved(p, c)
        /\ scan'.lines = scan.lines /\ scan'.todo = scan.todo /\ scan'.events = scan.events
        /\ scan'.based = scan.based \cup passed
    BY <1>1, <1>4, <2>1 DEF Scan, Moved
  <2> QED BY <1>4, <2>2 DEF CursorStep, AtPath, env
<1>12. Looked(p, c)
  <2>1. CASE ~state.saved
    <3> HIDE DEF n
    <3> QED BY <1>6, <1>7, <1>9, <2>1 DEF Looked
  <2>2. CASE state.saved /\ Replaced(p)
    <3> HIDE DEF n
    <3> QED BY <1>6, <1>7, <1>9, <2>2 DEF Looked
  <2>3. CASE state.saved /\ ~Replaced(p)
    <3>1. n = PrefixBytes(p) /\ c.prefix = old.prefix /\ c.offset = old.offset /\ old.offset <= Size(p)
      BY <1>1, <1>2, <1>9, <2>3 DEF Replaced
    <3> HIDE DEF n, c
    <3> QED BY <1>6, <1>7, <1>9, <2>3, <3>1 DEF Looked
  <2> QED BY <1>1, <2>1, <2>2, <2>3
<1>13. c.prefix.bytes <= PrefixLimit
  <2> HIDE DEF n
  <2> QED BY <1>6, <1>7, <1>9
<1> HIDE DEF c
<1> QED BY <1>9, <1>11, <1>12, <1>13

(* A read adds the lines that readLines returns. *)
LEMMA ReadEffect ==
    ASSUME Base, NEW p \in Paths, Read(p)
    PROVE  LET old == scan.next.files[p]
               got == readLines(p, old.offset, Remaining)
               c == [old EXCEPT !.offset = got.offset]
           IN  /\ CursorStep(p, c, got.lines, {}) /\ scan.pc = "read"
               /\ old \in Cursor /\ c \in Cursor /\ c.prefix.bytes <= PrefixLimit
               /\ c.prefix = old.prefix /\ c.offset = got.offset /\ c.exists = old.exists
               /\ upset' = IF old.prefix.bytes = 0 /\ got.lines # {} THEN upset \cup {p} ELSE upset
<1> DEFINE old == scan.next.files[p]
           got == readLines(p, old.offset, Remaining)
           c == [old EXCEPT !.offset = got.offset]
           reasons == (IF got.limited THEN {"read_limit_reached"} ELSE {})
                      \cup (IF got.oversized THEN {"oversized_line_skipped"} ELSE {})
           r == Skipped(p, c, reasons)
<1>1. old \in Cursor /\ old.prefix.bytes <= PrefixLimit /\ old.offset \in Nat
  <2>1. old \in Cursor /\ old.prefix.bytes <= PrefixLimit
    BY StateType DEF Base, Valid
  <2> QED BY <2>1 DEF Cursor
<1>2. got.offset \in Nat /\ got.lines \in SUBSET Entry
  BY <1>1, RemainingType, ReadLinesFacts DEF Consumed
<1>3. /\ AtPath("read", p) /\ UNCHANGED <<log, written, journal, state, history, faults>>
      /\ scan' = [r EXCEPT !.lines = @ \cup got.lines, !.usable = TRUE]
      /\ upset' = IF old.prefix.bytes = 0 /\ got.lines # {} THEN upset \cup {p} ELSE upset
  BY DEF Read
<1> HIDE DEF got
<1>4. c \in Cursor /\ c.prefix = old.prefix /\ c.offset = got.offset /\ c.exists = old.exists
  BY <1>1, <1>2 DEF Cursor
<1>5. reasons \in SUBSET {"unreadable", "line_limit_reached", "read_limit_reached",
                          "oversized_line_skipped"}
  OBVIOUS
<1> HIDE DEF c, reasons
<1>6. /\ r \in Scan /\ r.pc = "look" /\ r.path = p + 1 /\ r.next = Moved(p, c)
      /\ r.lines = scan.lines /\ r.todo = scan.todo /\ r.based = scan.based /\ r.events = scan.events
  BY <1>1, <1>4, <1>5, SkippedType
<1> HIDE DEF r
<1>7. /\ scan' \in Scan /\ scan'.pc = "look" /\ scan'.path = p + 1 /\ scan'.next = Moved(p, c)
      /\ scan'.lines = scan.lines \cup got.lines /\ scan'.todo = scan.todo
      /\ scan'.based = scan.based /\ scan'.events = scan.events
  BY <1>2, <1>3, <1>6 DEF Scan
<1>8. CursorStep(p, c, got.lines, {}) /\ scan.pc = "read"
  BY <1>3, <1>7 DEF CursorStep, AtPath
<1>9. c.prefix.bytes <= PrefixLimit
  BY <1>1, <1>4
<1> QED BY <1>1, <1>3, <1>4, <1>8, <1>9 DEF c, got

(* Such a step keeps the types and the shape of the scan. *)
LEMMA CursorStepBase ==
    ASSUME Base, NEW p \in Paths, NEW c \in Cursor, c.prefix.bytes <= PrefixLimit,
           NEW new \in SUBSET Entry, NEW passed, CursorStep(p, c, new, passed),
           IsFiniteSet(new), \A e \in new : e.path = p /\ \E k \in 1..Len(log[p].lines) : e.line = log[p].lines[k],
           upset' \subseteq Paths
    PROVE  Base'
<1>1. SSHTypeOK'
  BY DEF CursorStep, Base, SSHTypeOK, history, Log, Line, Ids, Valid, Fits, Sources, Attempts
<1>2. Valid(scan.next)'
  <2>1. Valid(Moved(p, c)) /\ scan'.next = Moved(p, c)
    BY MovedType DEF CursorStep
  <2> QED BY <2>1 DEF Valid, Sources
<1>3. LogInv'
  BY DEF CursorStep, Base, LogInv, LineNumbers, history
<1>4. EntryInv'
  <2>1. /\ scan.pc \in {"look", "read"} /\ scan.path = p /\ scan'.pc \in {"look", "read"}
        /\ scan'.path \in {p, p + 1} /\ (new # {} => scan'.path = p + 1)
        /\ scan'.lines = scan.lines \cup new /\ scan'.todo = scan.todo
        /\ UNCHANGED <<log, written>>
    BY DEF CursorStep
  <2>2. IsFiniteSet(scan'.lines)
    <3>1. IsFiniteSet(scan.lines)
      BY DEF Base, EntryInv
    <3> QED BY <2>1, <3>1, FS_Union
  <2>3. scan'.todo = {}
    BY <2>1 DEF Base, EntryInv
  <2>4. \A e \in scan.lines : /\ e.line \in LineNumbers /\ e.path \in 1..(p - 1)
                              /\ e.path # JournalPath => written[e.line].path = e.path
    BY <2>1 DEF Base, EntryInv
  <2>5. \A e \in new : /\ e.line \in LineNumbers /\ e.path = p /\ scan'.path = p + 1
                       /\ written[e.line].path = e.path
    BY <2>1 DEF Base, LogInv
  <2>6. LineNumbers' = LineNumbers
    BY <2>1 DEF LineNumbers
  <2>7. p \in Nat /\ p >= 1
    BY SSHAuthAssumption DEF Paths
  <2>8. \A e \in scan'.lines : /\ e.line \in LineNumbers' /\ e.path \in 1..(scan'.path - 1)
                               /\ e.path # JournalPath => written'[e.line].path = e.path
    BY <2>1, <2>4, <2>5, <2>6, <2>7
  <2> QED BY <2>1, <2>2, <2>3, <2>8 DEF EntryInv
<1> QED BY <1>1, <1>2, <1>3, <1>4 DEF Base

----------------------------------------------------------------------------
(* readJournal adds lines of the journal; its position is a number.        *)
LEMMA JournalFacts ==
    ASSUME Base, NEW j \in readJournal
    PROVE  /\ j.initialized \in BOOLEAN /\ j.position \in Nat /\ j.issues \in SUBSET Issue
           /\ j.lines \in SUBSET Entry /\ IsFiniteSet(j.lines) /\ j.failed \in BOOLEAN
           /\ \A e \in j.lines : e.path = JournalPath /\ e.line \in LineNumbers /\ e.whole
<1>1. /\ state.initialized \in BOOLEAN /\ state.position \in Nat
      /\ journal \in Seq(Ids) /\ Len(journal) \in Nat
  BY StateType DEF DetectorState, Base, SSHTypeOK
<1>2. ASSUME NEW lines \in SUBSET Entry, IsFiniteSet(lines),
             \A e \in lines : e.path = JournalPath /\ e.line \in LineNumbers /\ e.whole,
             NEW reasons \in SUBSET {"read_limit_reached", "unavailable", "cursor_unavailable"},
             NEW init \in BOOLEAN, NEW position \in Nat, NEW failed \in BOOLEAN,
             j = Journal(lines, reasons, init, position, failed)
      PROVE  /\ j.initialized \in BOOLEAN /\ j.position \in Nat /\ j.issues \in SUBSET Issue
             /\ j.lines \in SUBSET Entry /\ IsFiniteSet(j.lines) /\ j.failed \in BOOLEAN
             /\ \A e \in j.lines : e.path = JournalPath /\ e.line \in LineNumbers /\ e.whole
  <2>1. {[path |-> JournalPath, reason |-> x] : x \in reasons} \in SUBSET Issue
    <3>1. \A x \in reasons : x \in {"read_limit_reached", "unavailable", "cursor_unavailable"}
      OBVIOUS
    <3>2. \A x \in reasons : [path |-> JournalPath, reason |-> x] \in Issue
      BY <3>1 DEF Issue
    <3> QED BY <3>2
  <2>2. /\ j.initialized = init /\ j.position = position /\ j.lines = lines /\ j.failed = failed
        /\ j.issues = {[path |-> JournalPath, reason |-> x] : x \in reasons}
    BY <1>2 DEF Journal
  <2> QED BY <1>2, <2>1, <2>2
<1>3. ASSUME NEW reasons \in SUBSET {"read_limit_reached", "unavailable", "cursor_unavailable"},
             NEW init \in BOOLEAN, NEW position \in Nat, NEW failed \in BOOLEAN,
             j = Journal({}, reasons, init, position, failed)
      PROVE  /\ j.initialized \in BOOLEAN /\ j.position \in Nat /\ j.issues \in SUBSET Issue
             /\ j.lines \in SUBSET Entry /\ IsFiniteSet(j.lines) /\ j.failed \in BOOLEAN
             /\ \A e \in j.lines : e.path = JournalPath /\ e.line \in LineNumbers /\ e.whole
  <2>1. {} \in SUBSET Entry /\ IsFiniteSet({})
    BY FS_EmptySet
  <2> QED BY <1>2, <1>3, <2>1
<1>4. CASE j = readAfter
  <2> DEFINE last == state.position + AtMost(Len(journal) - state.position, Remaining)
             good == {k \in (state.position + 1)..last : Text(journal[k]).kind # "long"}
             E(k) == [path |-> JournalPath, at |-> k, line |-> journal[k], whole |-> TRUE]
             lines == {E(k) : k \in good}
             reasons == IF Len(journal) > last THEN {"read_limit_reached"} ELSE {}
             position == IF good = {} THEN state.position ELSE Max(good)
  <2>1. last \in Int /\ last <= Len(journal)
    BY <1>1, RemainingType DEF AtMost
  <2>2. good \subseteq 1..Len(journal) /\ good \in SUBSET (0..Len(journal))
    BY <1>1, <2>1
  <2>3. IsFiniteSet(good)
    <3>1. IsFiniteSet(1..Len(journal))
      BY <1>1, FS_Interval
    <3> HIDE DEF good
    <3> QED BY <2>2, <3>1, FS_Subset
  <2>4. \A k \in good : k \in Nat /\ journal[k] \in Ids /\ journal[k] \in LineNumbers
    BY <1>1, <2>2 DEF Base, LogInv
  <2> HIDE DEF good
  <2>5. lines \in SUBSET Entry
    <3>1. \A k \in good : E(k) \in Entry
      BY <2>4 DEF Entry
    <3> QED BY <3>1
  <2>6. IsFiniteSet(lines)
    <3> DEFINE f == [k \in good |-> E(k)]
    <3>1. lines = {f[k] : k \in good}
      OBVIOUS
    <3> HIDE DEF f, lines, E
    <3> QED BY <2>3, <3>1, ImageFinite
  <2>7. position \in Nat
    <3>1. good # {} => Max(good) \in good
      BY <1>1, <2>2, MaxIsGreatest
    <3> QED BY <1>1, <2>4, <3>1
  <2>8. j = Journal(lines, reasons, TRUE, position, FALSE)
    BY <1>4 DEF readAfter, good
  <2>9. \A e \in lines : e.path = JournalPath /\ e.line \in LineNumbers /\ e.whole
    BY <2>4
  <2>10. reasons \in SUBSET {"read_limit_reached", "unavailable", "cursor_unavailable"}
    OBVIOUS
  <2> HIDE DEF lines, reasons, position
  <2> QED BY <1>2, <2>5, <2>6, <2>7, <2>8, <2>9, <2>10
<1>5. CASE scan.usable
  <2>1. j = Journal({}, {}, FALSE, 0, FALSE)
    BY <1>5 DEF readJournal
  <2> QED BY <1>3, <2>1
<1>6. CASE ~scan.usable /\ ~HasJournal
  <2>1. j = Journal({}, {}, state.initialized, state.position, FALSE)
    BY <1>6 DEF readJournal
  <2> QED BY <1>1, <1>3, <2>1
<1>7. CASE ~scan.usable /\ HasJournal /\ ~state.initialized
  <2>1. \/ j = Journal({}, {}, TRUE, Len(journal), FALSE)
        \/ j = Journal({}, {"unavailable"}, FALSE, 0, TRUE)
    BY <1>7 DEF readJournal
  <2> QED BY <1>1, <1>3, <2>1
<1>8. CASE ~scan.usable /\ HasJournal /\ state.initialized
  <2>1. \/ j = readAfter
        \/ j = Journal({}, {"cursor_unavailable"}, TRUE, Len(journal), TRUE)
        \/ j = Journal({}, {"cursor_unavailable"}, TRUE, state.position, TRUE)
    BY <1>8 DEF readJournal
  <2> QED BY <1>1, <1>3, <1>4, <2>1
<1> QED BY <1>5, <1>6, <1>7, <1>8

(* pruneFailures keeps the last attempts of a source, if any. *)
LEMMA PrunedFacts ==
    ASSUME NEW f \in Seq(0..Expired)
    PROVE  /\ Pruned(f) \in Seq(0..Expired) /\ Len(Pruned(f)) <= Len(f) /\ Len(Pruned(f)) \in Nat
           /\ Pruned(f) # <<>> => f # <<>> /\ Last(Pruned(f)) = Last(f)
<1> DEFINE K == {k \in DOMAIN f : f[k] > Window}
<1>1. IsFiniteSet(1..Len(f)) /\ DOMAIN f = 1..Len(f) /\ Len(f) \in Nat
  BY FS_Interval
<1>2. K \subseteq 1..Len(f)
  BY <1>1
<1> HIDE DEF K
<1>3. Cardinality(K) \in Nat
  BY <1>1, <1>2, FS_Subset, FS_CardinalityType
<1>4. Pruned(f) = SubSeq(f, 1 + Cardinality(K), Len(f))
  BY DEF Pruned, K
<1> DEFINE n == Cardinality(K)
<1>5. n \in Nat /\ Pruned(f) = SubSeq(f, 1 + n, Len(f))
  BY <1>3, <1>4
<1> HIDE DEF n
<1> QED BY <1>5, LaterAttempts

LEMMA SourcesFinite ==
    ASSUME NEW s
    PROVE  IsFiniteSet(Sources(s)) /\ Cardinality(Sources(s)) \in Nat /\ Sources(s) \subseteq IPs
<1>1. IsFiniteSet(IPs) /\ Sources(s) \subseteq IPs
  BY SSHAuthAssumption DEF Sources
<1> QED BY <1>1, FS_Subset, FS_CardinalityType

LEMMA FewerSources ==
    ASSUME NEW s, NEW t, Sources(t) \subseteq Sources(s), Cardinality(Sources(s)) <= MaxFailureIPs
    PROVE  Cardinality(Sources(t)) <= MaxFailureIPs
<1>1. Cardinality(Sources(t)) <= Cardinality(Sources(s))
  BY SourcesFinite, FS_Subset
<1> QED BY <1>1, SourcesFinite, SSHAuthAssumption

(* What ReadJournal does to the scan. *)
LEMMA JournalEffect ==
    ASSUME Base, ReadJournal
    PROVE  \E new \in SUBSET Entry :
              /\ IsFiniteSet(new)
              /\ \A e \in new : e.path = JournalPath /\ e.line \in LineNumbers /\ e.whole
              /\ scan.pc = "look" /\ scan' \in Scan /\ scan'.pc = "apply"
              /\ scan'.lines = scan.lines \cup new /\ scan'.todo = scan'.lines
              /\ scan'.based = scan.based /\ scan'.events = scan.events
              /\ Valid(scan'.next) /\ scan'.next.files = scan.next.files
              /\ scan'.next.alerted = scan.next.alerted
              /\ scan'.next.failures = [i \in IPs |-> Pruned(scan.next.failures[i])]
              /\ Complete(scan.next) => Complete(scan'.next)
              /\ faults' \in 0..MaxFaults /\ UNCHANGED <<log, written, journal, upset, state, history>>
<1>1. PICK j \in readJournal :
          LET next == [scan.next EXCEPT !.initialized = j.initialized, !.position = j.position]
              lines == scan.lines \cup j.lines
          IN  /\ scan' = [scan EXCEPT !.pc = "apply", !.next = pruneFailures(next), !.lines = lines,
                              !.todo = lines, !.issues = @ \cup j.issues]
              /\ IF j.failed THEN Fault ELSE UNCHANGED faults
  BY DEF ReadJournal
<1> DEFINE next == [scan.next EXCEPT !.initialized = j.initialized, !.position = j.position]
           t == pruneFailures(next)
<1>2. /\ j.initialized \in BOOLEAN /\ j.position \in Nat /\ j.issues \in SUBSET Issue
      /\ j.lines \in SUBSET Entry /\ IsFiniteSet(j.lines) /\ j.failed \in BOOLEAN
      /\ \A e \in j.lines : e.path = JournalPath /\ e.line \in LineNumbers /\ e.whole
  BY JournalFacts
<1>3. scan.next \in DetectorState /\ scan \in Scan /\ Valid(scan.next)
  BY StateType DEF Base, SSHTypeOK
<1>4. /\ next \in DetectorState /\ next.files = scan.next.files /\ next.failures = scan.next.failures
      /\ next.alerted = scan.next.alerted
      /\ next.tried = scan.next.tried /\ next.forgotten = scan.next.forgotten
  BY <1>2, <1>3 DEF DetectorState
<1>5. \A i \in IPs : next.failures[i] \in Seq(0..Expired) /\ next.tried[i] \in Seq(0..Expired)
  BY <1>4 DEF DetectorState
<1> DEFINE F == [i \in IPs |-> Pruned(next.failures[i])]
           T == [i \in IPs |-> Pruned(next.tried[i])]
           G == {i \in next.forgotten : Pruned(next.failures[i]) # <<>> \/ Pruned(next.tried[i]) # <<>>}
<1>6. t = [next EXCEPT !.failures = F, !.tried = T, !.forgotten = G]
  BY DEF pruneFailures
<1>7. F \in [IPs -> Seq(0..Expired)] /\ T \in [IPs -> Seq(0..Expired)] /\ G \in SUBSET IPs
  BY <1>4, <1>5, PrunedFacts DEF DetectorState
<1> HIDE DEF next, t
<1>8. /\ t \in DetectorState /\ t.files = scan.next.files /\ t.alerted = scan.next.alerted
      /\ t.failures = [i \in IPs |-> Pruned(scan.next.failures[i])]
      /\ Complete(scan.next) => Complete(t)
  <2> HIDE DEF F, T, G
  <2>1. /\ t \in DetectorState /\ t.files = next.files /\ t.alerted = next.alerted
        /\ t.failures = F /\ t.tried = T /\ t.forgotten = G
    BY <1>4, <1>6, <1>7 DEF DetectorState
  <2>2. ASSUME Complete(scan.next), NEW i \in IPs, i \notin G PROVE T[i] = F[i]
    <3>1. CASE i \in next.forgotten
      BY <2>2, <3>1 DEF F, T, G
    <3>2. CASE i \notin next.forgotten
      <4>1. next.tried[i] = next.failures[i]
        BY <1>4, <2>2, <3>2 DEF Complete
      <4> QED BY <4>1 DEF F, T
    <3> QED BY <3>1, <3>2
  <2>3. Complete(scan.next) => Complete(t)
    BY <2>1, <2>2 DEF Complete
  <2>4. F = [i \in IPs |-> Pruned(scan.next.failures[i])]
    BY <1>4 DEF F
  <2> QED BY <1>4, <2>1, <2>3, <2>4
<1>9. Valid(t)
  <2>1. \A i \in IPs : /\ Len(Pruned(scan.next.failures[i])) <= Len(scan.next.failures[i])
                       /\ Len(Pruned(scan.next.failures[i])) \in Nat
                       /\ Len(scan.next.failures[i]) \in Nat
                       /\ Pruned(scan.next.failures[i]) # <<>> => scan.next.failures[i] # <<>>
    BY <1>4, <1>5, PrunedFacts
  <2>2. Sources(t) \subseteq Sources(scan.next)
    BY <1>8, <2>1 DEF Sources
  <2>3. Cardinality(Sources(t)) <= MaxFailureIPs
    BY <1>3, <2>2, FewerSources DEF Valid
  <2>4. \A i \in IPs : Len(t.failures[i]) <= MaxAttemptsPerIP
    <3>1. \A i \in IPs : Len(scan.next.failures[i]) <= MaxAttemptsPerIP
      BY <1>3 DEF Valid
    <3> QED BY <1>8, <2>1, <3>1, SSHAuthAssumption
  <2> QED BY <1>3, <1>8, <2>3, <2>4 DEF Valid
<1>10. scan' = [scan EXCEPT !.pc = "apply", !.next = t, !.lines = scan.lines \cup j.lines,
                    !.todo = scan.lines \cup j.lines, !.issues = scan.issues \cup j.issues]
  BY <1>1 DEF t, next
<1>11. /\ scan' \in Scan /\ scan'.pc = "apply" /\ scan'.next = t
       /\ scan'.lines = scan.lines \cup j.lines /\ scan'.todo = scan'.lines
       /\ scan'.based = scan.based /\ scan'.events = scan.events
  BY <1>2, <1>3, <1>8, <1>10 DEF Scan
<1>12. faults' \in 0..MaxFaults
  <2>1. faults \in 0..MaxFaults /\ MaxFaults \in Nat /\ (Fault \/ faults' = faults)
    BY <1>1, SSHAuthAssumption DEF Base, SSHTypeOK
  <2> QED BY <2>1 DEF Fault
<1> QED BY <1>2, <1>8, <1>9, <1>11, <1>12 DEF ReadJournal

----------------------------------------------------------------------------
(* A step of the loop over the lines. *)
RecordStep(e, next, events) ==
    /\ scan.pc = "apply" /\ e \in scan.todo
    /\ scan' \in Scan /\ scan'.pc = "apply" /\ scan'.next = next /\ scan'.events = events
    /\ scan'.lines = scan.lines /\ scan'.todo = scan.todo \ {e} /\ scan'.based = scan.based
    /\ UNCHANGED <<env, state, history>>

LEMMA DoneEffect ==
    ASSUME Base, NEW e, NextLine(e), NEW next \in DetectorState, NEW events \in Seq(Event),
           scan' = Done(e, next, events), UNCHANGED <<env, state, history>>
    PROVE  RecordStep(e, next, events)
<1>1. scan \in Scan /\ scan.pc = "apply" /\ e \in scan.todo
  BY DEF Base, SSHTypeOK, NextLine
<1>2. /\ scan' \in Scan /\ scan'.pc = scan.pc /\ scan'.next = next /\ scan'.events = events
      /\ scan'.lines = scan.lines /\ scan'.todo = scan.todo \ {e} /\ scan'.based = scan.based
  BY <1>1 DEF Done, Scan
<1> QED BY <1>1, <1>2 DEF RecordStep

LEMMA LineFacts ==
    ASSUME Base, NEW e \in scan.lines
    PROVE  Text(e.line).ip \in IPs /\ e \in Entry /\ e.line \in Ids
<1>1. /\ e.line \in LineNumbers /\ written \in Seq(Line) /\ e \in Entry
  BY DEF Base, SSHTypeOK, EntryInv, Scan
<1>2. written[e.line] \in Line
  BY <1>1 DEF LineNumbers
<1>3. written[e.line].text \in Texts
  BY <1>2 DEF Line
<1> QED BY <1>1, <1>3, SSHAuthAssumption DEF Text, Entry

LEMMA DroppedFacts ==
    ASSUME NEW s \in DetectorState, NEW i \in IPs
    PROVE  /\ Dropped(s, i) \in DetectorState /\ Dropped(s, i).files = s.files
           /\ Dropped(s, i).failures = [s.failures EXCEPT ![i] = <<>>]
           /\ Dropped(s, i).alerted = [s.alerted EXCEPT ![i] = 0]
           /\ Dropped(s, i).tried = s.tried /\ Dropped(s, i).forgotten = s.forgotten
<1>1. /\ s.failures \in [IPs -> Seq(0..Expired)] /\ s.alerted \in [IPs -> 0..Window] /\ 0 \in 0..Window
      /\ s.garbled \in [IPs -> Nat]
  BY SSHAuthAssumption DEF DetectorState
<1> DEFINE F == [s.failures EXCEPT ![i] = <<>>]
           A == [s.alerted EXCEPT ![i] = 0]
           G == [s.garbled EXCEPT ![i] = 0]
<1>2. F \in [IPs -> Seq(0..Expired)] /\ A \in [IPs -> 0..Window] /\ G \in [IPs -> Nat]
  BY <1>1
<1>3. Dropped(s, i) = [s EXCEPT !.failures = F, !.alerted = A, !.garbled = G]
  BY DEF Dropped, DetectorState
<1> HIDE DEF F, A, G
<1>4. /\ Dropped(s, i) \in DetectorState /\ Dropped(s, i).files = s.files
      /\ Dropped(s, i).failures = F /\ Dropped(s, i).alerted = A
      /\ Dropped(s, i).tried = s.tried /\ Dropped(s, i).forgotten = s.forgotten
  BY <1>2, <1>3 DEF DetectorState
<1> QED BY <1>4 DEF F, A

LEMMA DroppedSources ==
    ASSUME NEW s \in DetectorState, NEW t, NEW i \in IPs, t.failures = [s.failures EXCEPT ![i] = <<>>]
    PROVE  Sources(t) = Sources(s) \ {i}
<1>1. s.failures \in [IPs -> Seq(0..Expired)]
  BY DEF DetectorState
<1> QED BY <1>1 DEF Sources

LEMMA ForgivenFacts ==
    ASSUME NEW s \in DetectorState, NEW i \in IPs
    PROVE  /\ Forgiven(s, i) \in DetectorState /\ Forgiven(s, i).files = s.files
           /\ Forgiven(s, i).failures = [s.failures EXCEPT ![i] = <<>>]
           /\ Forgiven(s, i).alerted = [s.alerted EXCEPT ![i] = 0]
           /\ Sources(Forgiven(s, i)) = Sources(s) \ {i}
           /\ Complete(s) => Complete(Forgiven(s, i))
<1> DEFINE d == Dropped(s, i)
           T == [d.tried EXCEPT ![i] = <<>>]
           G == d.forgotten \ {i}
<1>1. /\ d \in DetectorState /\ d.files = s.files
      /\ d.failures = [s.failures EXCEPT ![i] = <<>>] /\ d.alerted = [s.alerted EXCEPT ![i] = 0]
      /\ d.tried = s.tried /\ d.forgotten = s.forgotten
  BY DroppedFacts
<1> HIDE DEF d
<1>2. /\ d.tried \in [IPs -> Seq(0..Expired)] /\ d.forgotten \in SUBSET IPs
      /\ s.failures \in [IPs -> Seq(0..Expired)] /\ s.tried \in [IPs -> Seq(0..Expired)]
  BY <1>1 DEF DetectorState
<1>3. T \in [IPs -> Seq(0..Expired)] /\ G \in SUBSET IPs
  BY <1>2
<1>4. Forgiven(s, i) = [d EXCEPT !.tried = T, !.forgotten = G]
  BY <1>1 DEF Forgiven, d, DetectorState
<1> HIDE DEF T, G
<1>5. /\ Forgiven(s, i) \in DetectorState /\ Forgiven(s, i).files = d.files
      /\ Forgiven(s, i).failures = d.failures /\ Forgiven(s, i).alerted = d.alerted
      /\ Forgiven(s, i).tried = T /\ Forgiven(s, i).forgotten = G
  BY <1>1, <1>3, <1>4 DEF DetectorState
<1>6. Sources(Forgiven(s, i)) = Sources(s) \ {i}
  BY <1>1, <1>5, DroppedSources
<1>7. ASSUME Complete(s), NEW j \in IPs, j \notin G PROVE T[j] = d.failures[j]
  <2>1. CASE j = i
    BY <1>1, <1>2, <2>1 DEF T
  <2>2. CASE j # i
    <3>1. s.tried[j] = s.failures[j]
      BY <1>1, <1>7, <2>2 DEF Complete, G
    <3> QED BY <1>1, <1>2, <2>2, <3>1 DEF T
  <2> QED BY <2>1, <2>2
<1>8. Complete(s) => Complete(Forgiven(s, i))
  BY <1>5, <1>7 DEF Complete
<1> QED BY <1>1, <1>5, <1>6, <1>8

(* Validity depends on the attempts and the cursors. *)
LEMMA StillValid ==
    ASSUME NEW s \in DetectorState, Valid(s), NEW t \in DetectorState, t.files = s.files,
           Cardinality(Sources(t)) <= MaxFailureIPs,
           \A i \in IPs : t.failures[i] = s.failures[i] \/ Len(t.failures[i]) <= MaxAttemptsPerIP
    PROVE  Valid(t)
  BY DEF Valid

LEMMA SkipEffect ==
    ASSUME Base, NEW e, SkipLine(e)
    PROVE  RecordStep(e, scan.next, scan.events) /\ ~Says(e, "accepted")
<1>1. scan.next \in DetectorState /\ scan.events \in Seq(Event)
  BY DEF Base, SSHTypeOK, Scan
<1> QED BY <1>1, DoneEffect DEF SkipLine

LEMMA SuccessEffect ==
    ASSUME Base, NEW e, ApplySuccess(e)
    PROVE  \E ip \in IPs, event \in Event :
              /\ RecordStep(e, Forgiven(scan.next, ip), Append(scan.events, event))
              /\ event.kind = "succeeded" /\ event.id = e.line
              /\ Valid(Forgiven(scan.next, ip))
<1> DEFINE ip == Text(e.line).ip
           event == [kind |-> "succeeded", id |-> e.line,
                     suspicious |-> Len(scan.next.failures[ip]) >= Suspicious]
<1>1. /\ e \in scan.lines /\ NextLine(e) /\ UNCHANGED <<env, state, history>>
      /\ scan' = Done(e, Forgiven(scan.next, ip), Append(scan.events, event))
  BY DEF ApplySuccess, NextLine, Base, EntryInv
<1>2. ip \in IPs /\ e.line \in Ids
  BY <1>1, LineFacts
<1>3. scan.next \in DetectorState /\ scan.events \in Seq(Event) /\ Valid(scan.next)
  BY DEF Base, SSHTypeOK, Scan
<1>4. event.suspicious \in BOOLEAN
  <2>1. scan.next.failures[ip] \in Seq(0..Expired)
    BY <1>2, <1>3 DEF DetectorState
  <2>2. Len(scan.next.failures[ip]) \in Nat
    BY <2>1
  <2> QED BY <2>2, SSHAuthAssumption
<1>5. event.kind = "succeeded" /\ event.id = e.line /\ event \in Event
  BY <1>2, <1>4 DEF Event
<1> HIDE DEF event, ip
<1>6. Append(scan.events, event) \in Seq(Event)
  BY <1>3, <1>5
<1>7. RecordStep(e, Forgiven(scan.next, ip), Append(scan.events, event))
  BY <1>1, <1>2, <1>3, <1>6, ForgivenFacts, DoneEffect
<1>8. Valid(Forgiven(scan.next, ip))
  <2>0. Sources(Forgiven(scan.next, ip)) = Sources(scan.next) \ {ip}
    BY <1>2, <1>3, ForgivenFacts
  <2>1. Sources(Forgiven(scan.next, ip)) \subseteq Sources(scan.next)
    BY <2>0
  <2>2. Cardinality(Sources(Forgiven(scan.next, ip))) <= MaxFailureIPs
    BY <1>3, <2>1, FewerSources DEF Valid
  <2>3. Forgiven(scan.next, ip).failures = [scan.next.failures EXCEPT ![ip] = <<>>]
    BY <1>2, <1>3, ForgivenFacts
  <2>4. \A i \in IPs : \/ Forgiven(scan.next, ip).failures[i] = scan.next.failures[i]
                       \/ Len(Forgiven(scan.next, ip).failures[i]) <= MaxAttemptsPerIP
    BY <1>2, <1>3, <2>3, SSHAuthAssumption DEF DetectorState
  <2> QED BY <1>2, <1>3, <2>2, <2>4, ForgivenFacts, StillValid
<1> QED BY <1>2, <1>5, <1>7, <1>8

LEMMA AttemptsFacts ==
    ASSUME NEW f \in Seq(0..Expired)
    PROVE  /\ attempts(f) \in Seq(0..Expired) /\ Len(attempts(f)) \in Nat
           /\ Len(attempts(f)) <= MaxAttemptsPerIP /\ attempts(f) # <<>> /\ Last(attempts(f)) = 0
<1> DEFINE all == Append(f, 0)
           n == Len(all) - AtMost(Len(all), MaxAttemptsPerIP)
<1>1. f \in Seq(0..Expired) /\ 0 \in 0..Expired
  BY SSHAuthAssumption DEF Expired
<1>2. /\ all \in Seq(0..Expired) /\ Len(all) = Len(f) + 1 /\ Len(f) \in Nat /\ all[Len(f) + 1] = 0
  BY <1>1
<1>3. /\ n \in Nat /\ n <= Len(all) /\ Len(all) - n <= MaxAttemptsPerIP /\ Len(all) - n > 0
      /\ 1 + n = 1 + Len(all) - AtMost(Len(all), MaxAttemptsPerIP)
  <2>1. Len(all) \in Nat /\ Len(all) > 0
    BY <1>2
  <2>2. MaxAttemptsPerIP \in Nat /\ MaxAttemptsPerIP > 0
    BY SSHAuthAssumption
  <2> HIDE DEF all
  <2> QED BY <2>1, <2>2 DEF AtMost
<1>4. attempts(f) = SubSeq(all, 1 + n, Len(all))
  <2>1. attempts(f) = SubSeq(all, 1 + Len(all) - AtMost(Len(all), MaxAttemptsPerIP), Len(all))
    BY DEF attempts
  <2> HIDE DEF all, n
  <2> QED BY <1>3, <2>1
<1>5. Last(all) = 0
  BY <1>2 DEF Last
<1> HIDE DEF all, n
<1>6. /\ attempts(f) \in Seq(0..Expired) /\ Len(attempts(f)) = Len(all) - n
      /\ attempts(f) # <<>> => Last(attempts(f)) = Last(all)
  <2>1. all \in Seq(0..Expired) /\ n \in Nat /\ n <= Len(all)
    BY <1>2, <1>3
  <2>2. LET g == SubSeq(all, 1 + n, Len(all))
        IN  /\ g \in Seq(0..Expired) /\ Len(g) = Len(all) - n
            /\ g # <<>> => Last(g) = Last(all)
    BY <2>1, LaterAttempts
  <2> QED BY <1>4, <2>2
<1>7. attempts(f) # <<>>
  BY <1>3, <1>6
<1> QED BY <1>3, <1>5, <1>6, <1>7, SSHAuthAssumption

(* What a failed attempt from ip makes of the scan's state: other sources  *)
(* stay or are forgotten; ip is forgotten, has one attempt more without    *)
(* need of an alert, or an alert is added to the events.                   *)
Failed(t, ip, events) ==
    /\ t \in DetectorState /\ Valid(t) /\ t.files = scan.next.files
    /\ \A i \in IPs \ {ip} :
          \/ t.failures[i] = scan.next.failures[i] /\ t.alerted[i] = scan.next.alerted[i]
          \/ t.failures[i] = <<>> /\ t.alerted[i] = 0
    /\ \/ events = Append(scan.events, [kind |-> "bruteforce", ip |-> ip])
       \/ events = scan.events /\ t.failures[ip] = <<>> /\ t.alerted[ip] = 0
       \/ /\ events = scan.events /\ t.failures[ip] = attempts(scan.next.failures[ip])
          /\ t.alerted[ip] = scan.next.alerted[ip]
          /\ Len(t.failures[ip]) < Threshold \/ t.alerted[ip] > 0
    /\ Complete(scan.next) => Complete(t)

LEMMA FailureEffect ==
    ASSUME Base, NEW e, ApplyFailure(e)
    PROVE  \E ip \in IPs, t \in DetectorState, events \in Seq(Event) :
              RecordStep(e, t, events) /\ Failed(t, ip, events) /\ ~Says(e, "accepted")
<1> DEFINE ip == Text(e.line).ip
           f == attempts(scan.next.failures[ip])
           added == [scan.next EXCEPT !.failures[ip] = f, !.tried[ip] = attempts(@),
                                      !.garbled[ip] = garbledAt(scan.next, ip, Text(e.line).kind)]
           kept == IF Cardinality(Sources(added)) > MaxFailureIPs THEN pruneOldestIP(added) ELSE {added}
           alert == [kind |-> "bruteforce", ip |-> ip]
<1>1. PICK s \in kept :
          scan' = IF Quiet(s, ip, Len(f)) THEN Done(e, s, scan.events)
                  ELSE Done(e, [s EXCEPT !.alerted[ip] = Window], Append(scan.events, alert))
  BY DEF ApplyFailure
<1>2. NextLine(e) /\ UNCHANGED <<env, state, history>> /\ e \in scan.lines /\ ~Says(e, "accepted")
  BY DEF ApplyFailure, NextLine, Base, EntryInv, Says, Fails
<1>3. ip \in IPs
  BY <1>2, LineFacts
<1>4. scan.next \in DetectorState /\ scan.events \in Seq(Event) /\ Valid(scan.next)
  BY DEF Base, SSHTypeOK, Scan
<1>5. /\ f \in Seq(0..Expired) /\ Len(f) \in Nat /\ Len(f) <= MaxAttemptsPerIP /\ f # <<>>
  <2>1. scan.next.failures[ip] \in Seq(0..Expired)
    BY <1>3, <1>4 DEF DetectorState
  <2> QED BY <2>1, AttemptsFacts
<1> HIDE DEF ip, f
<1>6. /\ added \in DetectorState /\ added.files = scan.next.files
      /\ added.failures = [scan.next.failures EXCEPT ![ip] = f] /\ added.alerted = scan.next.alerted
      /\ Complete(scan.next) => Complete(added)
  <2> DEFINE g == garbledAt(scan.next, ip, Text(e.line).kind)
             h == attempts(scan.next.tried[ip])
             F == [scan.next.failures EXCEPT ![ip] = f]
             T == [scan.next.tried EXCEPT ![ip] = h]
             G == [scan.next.garbled EXCEPT ![ip] = g]
  <2>1. /\ scan.next.failures \in [IPs -> Seq(0..Expired)] /\ scan.next.tried \in [IPs -> Seq(0..Expired)]
        /\ scan.next.garbled \in [IPs -> Nat]
    BY <1>4 DEF DetectorState
  <2>2. g \in Nat
    BY <1>3, <2>1 DEF garbledAt
  <2>3. h \in Seq(0..Expired)
    BY <1>3, <2>1, AttemptsFacts
  <2> HIDE DEF g, h
  <2>4. F \in [IPs -> Seq(0..Expired)] /\ T \in [IPs -> Seq(0..Expired)] /\ G \in [IPs -> Nat]
    BY <1>5, <2>1, <2>2, <2>3
  <2>5. added = [scan.next EXCEPT !.failures = F, !.tried = T, !.garbled = G]
    BY <1>4 DEF g, h, DetectorState
  <2> HIDE DEF F, T, G, added
  <2>6. /\ added \in DetectorState /\ added.files = scan.next.files /\ added.failures = F
        /\ added.alerted = scan.next.alerted /\ added.tried = T
        /\ added.forgotten = scan.next.forgotten
    BY <1>4, <2>4, <2>5 DEF DetectorState
  <2>7. ASSUME Complete(scan.next), NEW i \in IPs, i \notin scan.next.forgotten PROVE T[i] = F[i]
    <3>1. scan.next.tried[i] = scan.next.failures[i]
      BY <2>7 DEF Complete
    <3>2. CASE i = ip
      <4>1. h = f
        BY <3>1, <3>2 DEF h, f
      <4> QED BY <2>1, <3>2, <4>1 DEF T, F
    <3>3. CASE i # ip
      BY <2>1, <3>1, <3>3 DEF T, F
    <3> QED BY <3>2, <3>3
  <2>8. Complete(scan.next) => Complete(added)
    BY <2>6, <2>7 DEF Complete
  <2>9. F = [scan.next.failures EXCEPT ![ip] = f]
    BY DEF F
  <2> HIDE DEF kept
  <2> QED BY <2>6, <2>8, <2>9
<1>7. Sources(added) = Sources(scan.next) \cup {ip}
  <2> HIDE DEF added, kept
  <2>1. scan.next.failures \in [IPs -> Seq(0..Expired)]
    BY <1>4 DEF DetectorState
  <2> QED BY <1>3, <1>5, <1>6, <2>1 DEF Sources
<1>8. Cardinality(Sources(added)) \in Nat /\ Cardinality(Sources(added)) <= MaxFailureIPs + 1
  <2>1. Cardinality(Sources(scan.next)) <= MaxFailureIPs /\ MaxFailureIPs \in Nat
    BY <1>4, SSHAuthAssumption DEF Valid
  <2>2. Cardinality(Sources(scan.next) \cup {ip}) <= Cardinality(Sources(scan.next)) + 1
    <3>1. IsFiniteSet(Sources(scan.next)) /\ Cardinality(Sources(scan.next)) \in Nat
      BY SourcesFinite
    <3>2. Cardinality(Sources(scan.next) \cup {ip})
             = IF ip \in Sources(scan.next) THEN Cardinality(Sources(scan.next))
               ELSE Cardinality(Sources(scan.next)) + 1
      BY <3>1, FS_AddElement
    <3> QED BY <3>1, <3>2
  <2> HIDE DEF added
  <2>3. Cardinality(Sources(scan.next)) \in Nat /\ Cardinality(Sources(added)) \in Nat
    BY SourcesFinite
  <2>4. Cardinality(Sources(added)) <= Cardinality(Sources(scan.next)) + 1
    BY <1>7, <2>2
  <2> QED BY <2>1, <2>3, <2>4
<1> HIDE DEF added
<1>9. /\ s \in DetectorState /\ s.files = scan.next.files
      /\ Cardinality(Sources(s)) <= MaxFailureIPs
      /\ \/ s.failures = added.failures /\ s.alerted = added.alerted
         \/ \E i \in IPs : /\ s.failures = [added.failures EXCEPT ![i] = <<>>]
                           /\ s.alerted = [added.alerted EXCEPT ![i] = 0]
      /\ Complete(scan.next) => Complete(s)
  <2>1. CASE Cardinality(Sources(added)) > MaxFailureIPs
    <3>1. PICK i \in Oldest(added) : s = [Dropped(added, i) EXCEPT !.forgotten = @ \cup {i}]
      BY <1>1, <2>1 DEF pruneOldestIP
    <3>2. i \in Sources(added) /\ i \in IPs
      BY <3>1 DEF Oldest, Sources
    <3>3. /\ s \in DetectorState /\ s.files = added.files
          /\ s.failures = [added.failures EXCEPT ![i] = <<>>]
          /\ s.alerted = [added.alerted EXCEPT ![i] = 0]
          /\ s.tried = added.tried /\ s.forgotten = added.forgotten \cup {i}
          /\ Sources(s) = Sources(added) \ {i}
      <4> DEFINE d == Dropped(added, i)
      <4>1. /\ d \in DetectorState /\ d.files = added.files
            /\ d.failures = [added.failures EXCEPT ![i] = <<>>] /\ d.alerted = [added.alerted EXCEPT ![i] = 0]
            /\ d.tried = added.tried /\ d.forgotten = added.forgotten
        BY <1>6, <3>2, DroppedFacts
      <4>2. s = [d EXCEPT !.forgotten = d.forgotten \cup {i}]
        BY <3>1, <4>1 DEF DetectorState
      <4> HIDE DEF d
      <4>3. d.forgotten \cup {i} \in SUBSET IPs
        BY <3>2, <4>1 DEF DetectorState
      <4>4. /\ s \in DetectorState /\ s.files = d.files /\ s.failures = d.failures /\ s.alerted = d.alerted
            /\ s.tried = d.tried /\ s.forgotten = d.forgotten \cup {i}
        BY <4>1, <4>2, <4>3 DEF DetectorState
      <4>5. Sources(s) = Sources(added) \ {i}
        BY <1>6, <3>2, <4>1, <4>4, DroppedSources
      <4> QED BY <4>1, <4>4, <4>5
    <3>4. Cardinality(Sources(s)) = Cardinality(Sources(added)) - 1
      BY <3>2, <3>3, SourcesFinite, FS_RemoveElement
    <3>5. Cardinality(Sources(s)) <= MaxFailureIPs
      BY <1>8, <3>4, SSHAuthAssumption
    <3>6. Complete(added) => Complete(s)
      <4>1. added.failures \in [IPs -> Seq(0..Expired)]
        BY <1>6 DEF DetectorState
      <4> QED BY <3>2, <3>3, <4>1 DEF Complete
    <3> QED BY <1>6, <3>2, <3>3, <3>5, <3>6
  <2>2. CASE ~(Cardinality(Sources(added)) > MaxFailureIPs)
    <3>1. s = added
      BY <1>1, <2>2
    <3>2. Cardinality(Sources(s)) <= MaxFailureIPs
      BY <1>8, <2>2, <3>1, SSHAuthAssumption
    <3> QED BY <1>6, <3>1, <3>2
  <2> QED BY <2>1, <2>2
<1>10. /\ scan.next.failures \in [IPs -> Seq(0..Expired)] /\ scan.next.alerted \in [IPs -> 0..Window]
       /\ s.failures \in [IPs -> Seq(0..Expired)] /\ s.alerted \in [IPs -> 0..Window]
  BY <1>4, <1>9 DEF DetectorState
<1>11. \A i \in IPs \ {ip} :
          \/ s.failures[i] = scan.next.failures[i] /\ s.alerted[i] = scan.next.alerted[i]
          \/ s.failures[i] = <<>> /\ s.alerted[i] = 0
  BY <1>3, <1>6, <1>9, <1>10
<1>12. \/ s.failures[ip] = f /\ s.alerted[ip] = scan.next.alerted[ip]
       \/ s.failures[ip] = <<>> /\ s.alerted[ip] = 0
  BY <1>3, <1>6, <1>9, <1>10
<1>13. \A i \in IPs : Len(s.failures[i]) <= MaxAttemptsPerIP
  <2>1. Len(<<>>) <= MaxAttemptsPerIP /\ \A i \in IPs : Len(scan.next.failures[i]) <= MaxAttemptsPerIP
    BY <1>4, SSHAuthAssumption DEF Valid
  <2> QED BY <1>5, <1>11, <1>12, <2>1
<1>14. Valid(s)
  BY <1>4, <1>9, <1>13, StillValid
<1>15. CASE Quiet(s, ip, Len(f))
  <2>1. RecordStep(e, s, scan.events)
    BY <1>1, <1>2, <1>4, <1>9, <1>15, DoneEffect
  <2>2. Len(f) < Threshold \/ s.alerted[ip] > 0
    BY <1>15 DEF Quiet
  <2>3. \/ s.failures[ip] = <<>> /\ s.alerted[ip] = 0
        \/ /\ s.failures[ip] = attempts(scan.next.failures[ip]) /\ s.alerted[ip] = scan.next.alerted[ip]
           /\ Len(s.failures[ip]) < Threshold \/ s.alerted[ip] > 0
    BY <1>12, <2>2 DEF f
  <2>4. Failed(s, ip, scan.events)
    BY <1>9, <1>11, <1>14, <2>3 DEF Failed
  <2> QED BY <1>2, <1>3, <1>4, <1>9, <2>1, <2>4
<1>16. CASE ~Quiet(s, ip, Len(f))
  <2> DEFINE t == [s EXCEPT !.alerted[ip] = Window]
             events == Append(scan.events, alert)
  <2>1. /\ t \in DetectorState /\ t.files = s.files /\ t.failures = s.failures
        /\ t.alerted = [s.alerted EXCEPT ![ip] = Window]
        /\ t.tried = s.tried /\ t.forgotten = s.forgotten
    <3> DEFINE A == [s.alerted EXCEPT ![ip] = Window]
    <3>1. A \in [IPs -> 0..Window]
      BY <1>3, <1>10, SSHAuthAssumption
    <3>2. t = [s EXCEPT !.alerted = A]
      BY <1>9 DEF DetectorState
    <3> HIDE DEF A, t
    <3>3. /\ t \in DetectorState /\ t.files = s.files /\ t.failures = s.failures /\ t.alerted = A
          /\ t.tried = s.tried /\ t.forgotten = s.forgotten
      BY <1>9, <3>1, <3>2 DEF DetectorState
    <3> QED BY <3>3 DEF A
  <2>2. events \in Seq(Event)
    <3>1. alert \in Event
      BY <1>3 DEF Event
    <3> HIDE DEF alert
    <3> QED BY <1>4, <3>1
  <2>3. scan' = Done(e, t, events)
    BY <1>1, <1>16
  <2> HIDE DEF t
  <2>4. RecordStep(e, t, events)
    <3> HIDE DEF events
    <3> QED BY <1>2, <2>1, <2>2, <2>3, DoneEffect
  <2>5. Valid(t)
    <3>1. Sources(t) = Sources(s)
      BY <2>1 DEF Sources
    <3> QED BY <1>9, <1>14, <2>1, <3>1, StillValid
  <2>6. \A i \in IPs \ {ip} : t.alerted[i] = s.alerted[i]
    BY <1>3, <1>10, <2>1
  <2>7. Complete(scan.next) => Complete(t)
    BY <1>9, <2>1 DEF Complete
  <2>8. Failed(t, ip, events)
    BY <1>9, <1>11, <2>1, <2>5, <2>6, <2>7 DEF Failed
  <2> HIDE DEF events
  <2> QED BY <1>2, <1>3, <2>1, <2>2, <2>4, <2>8
<1> QED BY <1>15, <1>16

(* The loop keeps the types and the shape of the scan. *)
LEMMA RecordStepBase ==
    ASSUME Base, NEW e, NEW next, NEW events, RecordStep(e, next, events), Valid(next)
    PROVE  Base'
<1>1. SSHTypeOK'
  BY DEF RecordStep, Base, SSHTypeOK, env, history, Log, Line, Ids, Valid, Fits, Sources, Attempts
<1>2. Valid(scan.next)'
  BY DEF RecordStep, Valid, Sources
<1>3. LogInv'
  BY DEF RecordStep, Base, LogInv, LineNumbers, env, history
<1>4. EntryInv'
  <2>1. /\ scan.pc = "apply" /\ scan'.pc = "apply" /\ scan'.lines = scan.lines
        /\ scan'.todo = scan.todo \ {e} /\ written' = written
    BY DEF RecordStep, env
  <2> QED BY <2>1 DEF Base, EntryInv, LineNumbers
<1> QED BY <1>1, <1>2, <1>3, <1>4 DEF Base
----------------------------------------------------------------------------
(* The other steps of a cycle. *)
LEMMA StartEffect ==
    ASSUME Base, StartScan
    PROVE  /\ scan' \in Scan /\ scan'.pc = "look" /\ scan'.path = 1 /\ scan'.next = state
           /\ scan'.lines = {} /\ scan'.todo = {} /\ scan'.based = {} /\ scan'.events = <<>>
           /\ UNCHANGED <<env, state, history>>
<1>1. state \in DetectorState /\ NoScan \in Scan
  BY StateType, NewStateType
<1>2. scan' = [NoScan EXCEPT !.pc = "look", !.next = state] /\ UNCHANGED <<env, state, history>>
  BY DEF StartScan
<1> QED BY <1>1, <1>2 DEF NoScan, Scan

LEMMA StartBase ==
    ASSUME Base, StartScan
    PROVE  Base'
<1>0. /\ scan' \in Scan /\ scan'.next = state /\ scan'.lines = {} /\ scan'.todo = {}
      /\ UNCHANGED <<env, state, history>>
  BY StartEffect
<1>1. SSHTypeOK'
  BY <1>0 DEF Base, SSHTypeOK, env, history, Log, Line, Ids, Valid, Fits, Sources, Attempts
<1>2. Valid(scan.next)'
  BY <1>0 DEF Base, SSHTypeOK, Valid, Sources
<1>3. LogInv'
  BY <1>0 DEF Base, LogInv, LineNumbers, env, history
<1>4. EntryInv'
  BY <1>0, FS_EmptySet DEF EntryInv
<1> QED BY <1>1, <1>2, <1>3, <1>4 DEF Base

LEMMA JournalBase ==
    ASSUME Base, ReadJournal
    PROVE  Base'
<1>0. PICK new \in SUBSET Entry :
          /\ IsFiniteSet(new)
          /\ \A e \in new : e.path = JournalPath /\ e.line \in LineNumbers /\ e.whole
          /\ scan' \in Scan /\ scan'.pc = "apply"
          /\ scan'.lines = scan.lines \cup new /\ scan'.todo = scan'.lines
          /\ Valid(scan'.next) /\ faults' \in 0..MaxFaults
          /\ UNCHANGED <<log, written, journal, upset, state, history>>
  BY JournalEffect
<1>1. SSHTypeOK'
  BY <1>0 DEF Base, SSHTypeOK, history, Log, Line, Ids, Valid, Fits, Sources, Attempts
<1>2. Valid(scan.next)'
  BY <1>0 DEF Valid, Sources
<1>3. LogInv'
  BY <1>0 DEF Base, LogInv, LineNumbers, history
<1>4. EntryInv'
  <2>1. IsFiniteSet(scan'.lines)
    <3>1. IsFiniteSet(scan.lines)
      BY DEF Base, EntryInv
    <3> QED BY <1>0, <3>1, FS_Union
  <2> QED BY <1>0, <2>1 DEF Base, EntryInv, LineNumbers
<1> QED BY <1>1, <1>2, <1>3, <1>4 DEF Base

(* Scan ends with at most an event about the coverage. *)
LEMMA FinishEffect ==
    ASSUME Base, Finish
    PROVE  /\ scan.pc = "apply" /\ scan.todo = {} /\ scan' \in Scan /\ scan'.pc = "report"
           /\ scan'.lines = scan.lines /\ scan'.todo = scan.todo /\ scan'.based = scan.based
           /\ \/ scan'.events = scan.events
              \/ \E event \in Event : event.kind = "coverage" /\ scan'.events = Append(scan.events, event)
           /\ Valid(scan'.next) /\ scan'.next.files = scan.next.files
           /\ scan'.next.failures = scan.next.failures /\ scan'.next.alerted = scan.next.alerted
           /\ Complete(scan.next) => Complete(scan'.next)
           /\ UNCHANGED <<env, state, history>>
<1> DEFINE event == [kind |-> "coverage", issues |-> scan.issues]
           next == [scan.next EXCEPT !.issues = scan.issues]
<1>1. scan \in Scan /\ scan.next \in DetectorState /\ scan.issues \in SUBSET Issue /\ Valid(scan.next)
      /\ scan.events \in Seq(Event)
  BY DEF Base, SSHTypeOK, Scan
<1>2. /\ next \in DetectorState /\ next.files = scan.next.files
      /\ next.failures = scan.next.failures /\ next.alerted = scan.next.alerted
      /\ Complete(scan.next) => Complete(next)
  BY <1>1 DEF DetectorState, Complete
<1>3. Valid(next)
  <2>1. Sources(next) = Sources(scan.next)
    BY <1>2 DEF Sources
  <2> HIDE DEF next
  <2> QED BY <1>1, <1>2, <2>1 DEF Valid
<1>4. event \in Event /\ event.kind = "coverage"
  BY <1>1 DEF Event
<1>5. scan' = [scan EXCEPT !.pc = "report", !.next = next,
                  !.events = IF scan.issues = state.issues THEN scan.events ELSE Append(scan.events, event)]
  BY <1>1 DEF Finish, Scan
<1>6. scan.pc = "apply" /\ scan.todo = {} /\ UNCHANGED <<env, state, history>>
  BY DEF Finish
<1> HIDE DEF event, next
<1>7. Append(scan.events, event) \in Seq(Event)
  BY <1>1, <1>4
<1>8. /\ scan' \in Scan /\ scan'.pc = "report" /\ scan'.next = next
      /\ scan'.lines = scan.lines /\ scan'.todo = scan.todo /\ scan'.based = scan.based
      /\ scan'.events = scan.events \/ scan'.events = Append(scan.events, event)
  BY <1>1, <1>2, <1>5, <1>7 DEF Scan
<1> QED BY <1>2, <1>3, <1>4, <1>6, <1>8

LEMMA FinishBase ==
    ASSUME Base, Finish
    PROVE  Base'
<1>0. /\ scan.pc = "apply" /\ scan.todo = {} /\ scan' \in Scan /\ scan'.pc = "report"
      /\ scan'.lines = scan.lines /\ scan'.todo = scan.todo
      /\ Valid(scan'.next) /\ UNCHANGED <<env, state, history>>
  BY FinishEffect
<1>1. SSHTypeOK'
  BY <1>0 DEF Base, SSHTypeOK, env, history, Log, Line, Ids, Valid, Fits, Sources, Attempts
<1>2. Valid(scan.next)'
  BY <1>0 DEF Valid, Sources
<1>3. LogInv'
  BY <1>0 DEF Base, LogInv, LineNumbers, env, history
<1>4. EntryInv'
  BY <1>0 DEF Base, EntryInv, LineNumbers, env
<1> QED BY <1>1, <1>2, <1>3, <1>4 DEF Base

(* An event that is queued is the first one there is. *)
LEMMA EnqueueEffect ==
    ASSUME Base, Enqueue
    PROVE  LET event == Head(scan.events)
           IN  /\ scan.pc = "report" /\ scan.events # <<>> /\ event \in Event
               /\ scan' \in Scan /\ scan'.pc = scan.pc /\ scan'.path = scan.path /\ scan'.next = scan.next
               /\ scan'.lines = scan.lines /\ scan'.todo = scan.todo /\ scan'.based = scan.based
               /\ scan'.events = Tail(scan.events)
               /\ told' \in [logins : SUBSET Ids, alert : [IPs -> 0..(2 * Window + 1)]]
               /\ told.logins \subseteq told'.logins
               /\ event.kind = "succeeded" => event.id \in told'.logins
               /\ \A i \in IPs : \/ told'.alert[i] = told.alert[i]
                                 \/ event.kind = "bruteforce" /\ told'.alert[i] = 0
               /\ event.kind = "bruteforce" => told'.alert[event.ip] = 0
               /\ UNCHANGED <<env, state, counted, settled, based>>
<1> DEFINE event == Head(scan.events)
           alerts == [IPs -> 0..(2 * Window + 1)]
<1>1. /\ scan \in Scan /\ scan.events \in Seq(Event)
      /\ told \in [logins : SUBSET Ids, alert : alerts]
  BY DEF Base, SSHTypeOK, Scan
<1>2. /\ scan.pc = "report" /\ scan.events # <<>> /\ told' = Said(event)
      /\ scan' = [scan EXCEPT !.events = Tail(@)]
      /\ UNCHANGED <<env, state, counted, settled, based>>
  BY DEF Enqueue
<1>3. event \in Event /\ Tail(scan.events) \in Seq(Event)
  BY <1>1, <1>2
<1> HIDE DEF event
<1>4. /\ scan' \in Scan /\ scan'.pc = scan.pc /\ scan'.path = scan.path /\ scan'.next = scan.next
      /\ scan'.lines = scan.lines /\ scan'.todo = scan.todo /\ scan'.based = scan.based
      /\ scan'.events = Tail(scan.events)
  BY <1>1, <1>2, <1>3 DEF Scan
<1>5. \/ event.kind = "succeeded" /\ event.id \in Ids
      \/ event.kind = "bruteforce" /\ event.ip \in IPs
      \/ event.kind = "coverage"
  BY <1>3 DEF Event
<1>6. 0 \in 0..(2 * Window + 1)
  BY SSHAuthAssumption
<1> HIDE DEF alerts
<1>7. CASE event.kind = "succeeded" /\ event.id \in Ids
  <2>1. told' = [told EXCEPT !.logins = @ \cup {event.id}]
    BY <1>2, <1>7 DEF Said
  <2>2. /\ told' \in [logins : SUBSET Ids, alert : alerts]
        /\ told'.logins = told.logins \cup {event.id} /\ told'.alert = told.alert
    BY <1>1, <1>7, <2>1
  <2> QED BY <1>2, <1>3, <1>4, <1>7, <2>2 DEF event, alerts
<1>8. CASE event.kind = "bruteforce" /\ event.ip \in IPs
  <2> DEFINE A == [told.alert EXCEPT ![event.ip] = 0]
  <2>1. told' = [told EXCEPT !.alert = A]
    BY <1>1, <1>2, <1>8 DEF Said
  <2>2. A \in alerts
    BY <1>1, <1>6 DEF alerts
  <2>3. told.alert \in [IPs -> 0..(2 * Window + 1)]
    BY <1>1 DEF alerts
  <2>4. \A i \in IPs : A[i] = told.alert[i] \/ A[i] = 0
    BY <2>3
  <2>5. A[event.ip] = 0
    BY <1>8, <2>3
  <2> HIDE DEF A
  <2>6. /\ told' \in [logins : SUBSET Ids, alert : alerts]
        /\ told'.logins = told.logins /\ told'.alert = A
    BY <1>1, <2>1, <2>2
  <2> QED BY <1>2, <1>3, <1>4, <1>8, <2>4, <2>5, <2>6 DEF event, alerts
<1>9. CASE event.kind = "coverage"
  <2>1. told' = told
    BY <1>2, <1>9 DEF Said
  <2> QED BY <1>1, <1>2, <1>3, <1>4, <1>9, <2>1 DEF event, alerts
<1> QED BY <1>5, <1>7, <1>8, <1>9

LEMMA EnqueueBase ==
    ASSUME Base, Enqueue
    PROVE  Base'
<1>0. /\ scan' \in Scan /\ scan'.pc = scan.pc /\ scan'.path = scan.path /\ scan'.next = scan.next
      /\ scan'.lines = scan.lines /\ scan'.todo = scan.todo
      /\ told' \in [logins : SUBSET Ids, alert : [IPs -> 0..(2 * Window + 1)]]
      /\ UNCHANGED <<env, state, counted, settled, based>>
  BY EnqueueEffect
<1>1. SSHTypeOK'
  BY <1>0 DEF Base, SSHTypeOK, env, Log, Line, Ids, Valid, Fits, Sources, Attempts
<1>2. Valid(scan.next)'
  BY <1>0 DEF Base, Valid, Sources
<1>3. LogInv'
  BY <1>0 DEF Base, LogInv, LineNumbers, env
<1>4. EntryInv'
  BY <1>0 DEF Base, EntryInv, LineNumbers, env
<1> QED BY <1>1, <1>2, <1>3, <1>4 DEF Base

(* A commit makes the state of the scan the one on disk. *)
LEMMA CommitEffect ==
    ASSUME Base, Commit
    PROVE  /\ scan.pc = "report" /\ scan.events = <<>> /\ scan' = NoScan
           /\ state' \in DetectorState /\ state'.saved /\ state'.files = scan.next.files
           /\ state'.failures = scan.next.failures /\ state'.alerted = scan.next.alerted
           /\ Complete(scan.next) => Complete(state')
           /\ counted' \in [Ids -> 0..2]
           /\ \A i \in Ids : \/ i \notin Applied /\ counted'[i] = counted[i]
                             \/ i \in Applied /\ counted'[i] = AtMost(counted[i] + 1, 2)
           /\ settled' = settled \cup Logins /\ based' = based \cup scan.based
           /\ Applied \subseteq LineNumbers /\ Logins \subseteq LineNumbers
           /\ UNCHANGED <<env, told>>
<1>1. /\ scan.next \in DetectorState /\ counted \in [Ids -> 0..2]
  BY DEF Base, SSHTypeOK, Scan
<1>2. /\ scan.pc = "report" /\ scan.events = <<>> /\ scan' = NoScan
      /\ state' = [scan.next EXCEPT !.saved = TRUE]
      /\ counted' = [i \in Ids |-> IF i \in Applied THEN AtMost(counted[i] + 1, 2) ELSE counted[i]]
      /\ settled' = settled \cup Logins /\ based' = based \cup scan.based /\ UNCHANGED <<env, told>>
  BY DEF Commit, SaveState
<1>3. /\ state' \in DetectorState /\ state'.saved /\ state'.files = scan.next.files
      /\ state'.failures = scan.next.failures /\ state'.alerted = scan.next.alerted
      /\ Complete(scan.next) => Complete(state')
  BY <1>1, <1>2 DEF DetectorState, Complete
<1>4. \A i \in Ids : counted[i] \in 0..2 /\ AtMost(counted[i] + 1, 2) \in 0..2
  BY <1>1 DEF AtMost
<1>5. counted' \in [Ids -> 0..2]
  BY <1>2, <1>4
<1>6. Applied \subseteq LineNumbers /\ Logins \subseteq LineNumbers
  BY DEF Applied, Logins, Base, EntryInv
<1> QED BY <1>2, <1>3, <1>5, <1>6

LEMMA CommitBase ==
    ASSUME Base, Commit
    PROVE  Base'
<1>0. /\ scan' = NoScan
      /\ state' \in DetectorState /\ state'.files = scan.next.files
      /\ state'.failures = scan.next.failures
      /\ counted' \in [Ids -> 0..2]
      /\ \A i \in Ids : \/ i \notin Applied /\ counted'[i] = counted[i]
                        \/ i \in Applied /\ counted'[i] = AtMost(counted[i] + 1, 2)
      /\ settled' = settled \cup Logins /\ based' = based \cup scan.based
      /\ Applied \subseteq LineNumbers /\ Logins \subseteq LineNumbers
      /\ UNCHANGED <<env, told>>
  BY CommitEffect
<1>1. Valid(state)'
  BY <1>0 DEF Base, Valid, Sources
<1>2. Fits(state)'
  <2>1. Fits(scan.next)
    BY DEF Commit
  <2> QED BY <1>0, <2>1 DEF Fits, Attempts
<1>3. LineNumbers \subseteq Ids /\ scan.based \subseteq Ids
  <2>1. written \in Seq(Line) /\ Len(written) \in Nat /\ Len(written) <= MaxWritten /\ scan.based \subseteq Ids
    BY DEF Base, SSHTypeOK, Scan
  <2> QED BY <2>1, SSHAuthAssumption DEF LineNumbers, Ids
<1>4. settled' \subseteq Ids /\ based' \subseteq Ids
  BY <1>0, <1>3 DEF Base, SSHTypeOK
<1>5. scan' \in Scan /\ Valid(scan.next)'
  <2>1. Valid(NewState) /\ NoScan \in Scan /\ NoScan.next = NewState
    BY NewStateType
  <2> QED BY <1>0, <2>1 DEF Valid, Sources
<1>6. SSHTypeOK'
  BY <1>0, <1>1, <1>2, <1>4, <1>5 DEF Base, SSHTypeOK, env, Log, Line, Ids
<1>7. LogInv'
  <2>1. \A i \in Ids : counted'[i] > 0 => i \in LineNumbers
    BY <1>0 DEF Base, LogInv
  <2> QED BY <1>0, <2>1 DEF Base, LogInv, LineNumbers, env
<1>8. EntryInv'
  BY <1>0, FS_EmptySet DEF EntryInv, NoScan
<1> QED BY <1>5, <1>6, <1>7, <1>8 DEF Base

(* A cycle that ends without a commit. *)
LEMMA ForgetEffect ==
    ASSUME Base, CommitRefused \/ Abandon
    PROVE  /\ scan' = NoScan /\ faults' \in 0..MaxFaults
           /\ UNCHANGED <<log, written, journal, upset, state, history>>
<1>1. /\ scan' = NoScan /\ UNCHANGED <<log, written, journal, upset, state, history>>
      /\ faults' = faults \/ Fault
  BY DEF CommitRefused, Abandon, Forget
<1>2. faults \in 0..MaxFaults /\ MaxFaults \in Nat
  BY SSHAuthAssumption DEF Base, SSHTypeOK
<1> QED BY <1>1, <1>2 DEF Fault

LEMMA ForgetBase ==
    ASSUME Base, CommitRefused \/ Abandon
    PROVE  Base'
<1>0. /\ scan' = NoScan /\ faults' \in 0..MaxFaults
      /\ UNCHANGED <<log, written, journal, upset, state, history>>
  BY ForgetEffect
<1>1. scan' \in Scan /\ Valid(scan.next)'
  <2>1. Valid(NewState) /\ NoScan \in Scan /\ NoScan.next = NewState
    BY NewStateType
  <2> QED BY <1>0, <2>1 DEF Valid, Sources
<1>2. SSHTypeOK'
  BY <1>0, <1>1 DEF Base, SSHTypeOK, history, Log, Line, Ids, Valid, Fits, Sources, Attempts
<1>3. LogInv'
  BY <1>0 DEF Base, LogInv, LineNumbers, history
<1>4. EntryInv'
  BY <1>0, FS_EmptySet DEF EntryInv, NoScan
<1> QED BY <1>1, <1>2, <1>3, <1>4 DEF Base

----------------------------------------------------------------------------
(* Time makes every attempt older, and leaves as many of them. *)
LEMMA AgedFacts ==
    ASSUME NEW f \in Seq(0..Expired)
    PROVE  /\ Aged(f) \in Seq(0..Expired) /\ Len(Aged(f)) = Len(f) /\ Len(f) \in Nat
           /\ Aged(f) # <<>> <=> f # <<>>
           /\ f # <<>> => Last(Aged(f)) = Older(Last(f), Expired) /\ Last(f) \in 0..Expired
<1>0. Expired \in Nat
  BY SSHAuthAssumption DEF Expired
<1>1. \A a \in 0..Expired : Older(a, Expired) \in 0..Expired
  BY <1>0 DEF Older
<1>2. DOMAIN f = 1..Len(f) /\ Len(f) \in Nat /\ \A k \in 1..Len(f) : f[k] \in 0..Expired
  <2> DEFINE S == 0..Expired
  <2>1. f \in Seq(S)
    OBVIOUS
  <2> HIDE DEF S
  <2>2. DOMAIN f = 1..Len(f) /\ Len(f) \in Nat /\ \A k \in 1..Len(f) : f[k] \in S
    BY <2>1
  <2> QED BY <2>2 DEF S
<1>3. Aged(f) = [k \in 1..Len(f) |-> Older(f[k], Expired)]
  BY <1>2 DEF Aged
<1>4. \A k \in 1..Len(f) : Older(f[k], Expired) \in 0..Expired
  BY <1>1, <1>2
<1>5. Aged(f) \in Seq(0..Expired) /\ Len(Aged(f)) = Len(f)
  <2> DEFINE S == 0..Expired
  <2>1. Aged(f) \in [1..Len(f) -> S]
    BY <1>3, <1>4
  <2> HIDE DEF S
  <2>2. Aged(f) \in Seq(S) /\ Len(Aged(f)) = Len(f)
    BY <1>2, <1>3, <2>1
  <2> QED BY <2>2 DEF S
<1>6. Aged(f) # <<>> <=> f # <<>>
  BY <1>2, <1>5
<1>7. ASSUME f # <<>> PROVE Last(Aged(f)) = Older(Last(f), Expired) /\ Last(f) \in 0..Expired
  <2>1. Len(f) \in 1..Len(f)
    BY <1>2, <1>7
  <2>2. Aged(f)[Len(f)] = Older(f[Len(f)], Expired) /\ f[Len(f)] \in 0..Expired
    BY <1>2, <1>3, <2>1
  <2> QED BY <1>5, <2>2 DEF Last
<1> QED BY <1>2, <1>5, <1>6, <1>7

LEMMA TickEffect ==
    ASSUME Base, Tick
    PROVE  /\ scan.pc = "idle" /\ state' \in DetectorState
           /\ state'.saved = state.saved /\ state'.files = state.files
           /\ state'.failures = [i \in IPs |-> Aged(state.failures[i])]
           /\ state'.alerted = [i \in IPs |-> IF state.alerted[i] = 0 THEN 0 ELSE state.alerted[i] - 1]
           /\ Complete(state) => Complete(state')
           /\ told' \in [logins : SUBSET Ids, alert : [IPs -> 0..(2 * Window + 1)]]
           /\ told'.logins = told.logins
           /\ told'.alert = [i \in IPs |-> Older(told.alert[i], 2 * Window + 1)]
           /\ UNCHANGED <<env, scan, counted, settled, based>>
<1> DEFINE F == [i \in IPs |-> Aged(state.failures[i])]
           R == [i \in IPs |-> Aged(state.tried[i])]
           A == [i \in IPs |-> IF state.alerted[i] = 0 THEN 0 ELSE state.alerted[i] - 1]
           T == [i \in IPs |-> Older(told.alert[i], 2 * Window + 1)]
           alerts == [IPs -> 0..(2 * Window + 1)]
<1>1. /\ state \in DetectorState /\ told \in [logins : SUBSET Ids, alert : alerts]
  BY DEF Base, SSHTypeOK
<1>2. /\ \A i \in IPs : state.failures[i] \in Seq(0..Expired) /\ state.alerted[i] \in 0..Window
      /\ \A i \in IPs : state.tried[i] \in Seq(0..Expired)
      /\ \A i \in IPs : told.alert[i] \in 0..(2 * Window + 1)
      /\ Window \in Nat
  BY <1>1, SSHAuthAssumption DEF DetectorState
<1>3. F \in [IPs -> Seq(0..Expired)] /\ R \in [IPs -> Seq(0..Expired)]
  BY <1>2, AgedFacts
<1>4. A \in [IPs -> 0..Window]
  BY <1>2
<1>5. T \in alerts
  BY <1>2 DEF Older
<1>6. /\ scan.pc = "idle" /\ UNCHANGED <<env, scan, counted, settled, based>>
      /\ state' = [state EXCEPT !.failures = F, !.tried = R, !.alerted = A]
      /\ told' = [told EXCEPT !.alert = T]
  BY DEF Tick
<1> HIDE DEF F, R, A, T, alerts
<1>7. /\ state' \in DetectorState /\ state'.saved = state.saved /\ state'.files = state.files
      /\ state'.failures = F /\ state'.alerted = A
      /\ state'.tried = R /\ state'.forgotten = state.forgotten
  BY <1>1, <1>3, <1>4, <1>6 DEF DetectorState
<1>9. Complete(state) => Complete(state')
  BY <1>7 DEF Complete, F, R
<1>8. /\ told' \in [logins : SUBSET Ids, alert : alerts] /\ told'.logins = told.logins /\ told'.alert = T
  BY <1>1, <1>5, <1>6
<1> QED BY <1>6, <1>7, <1>8, <1>9 DEF F, A, T, alerts

LEMMA TickBase ==
    ASSUME Base, Tick
    PROVE  Base'
<1>0. /\ state' \in DetectorState /\ state'.files = state.files
      /\ state'.failures = [i \in IPs |-> Aged(state.failures[i])]
      /\ told' \in [logins : SUBSET Ids, alert : [IPs -> 0..(2 * Window + 1)]]
      /\ UNCHANGED <<env, scan, counted, settled, based>>
  BY TickEffect
<1>1. \A i \in IPs : state.failures[i] \in Seq(0..Expired)
  BY StateType DEF DetectorState
<1>2. \A i \in IPs : /\ Len(state'.failures[i]) = Len(state.failures[i])
                     /\ state'.failures[i] # <<>> <=> state.failures[i] # <<>>
  BY <1>0, <1>1, AgedFacts
<1>3. Sources(state') = Sources(state)
  BY <1>2 DEF Sources
<1>4. Valid(state)'
  BY <1>0, <1>2, <1>3 DEF Base, SSHTypeOK, Valid, Sources
<1>5. Fits(state)'
  <2>1. [i \in IPs |-> Len(state'.failures[i])] = [i \in IPs |-> Len(state.failures[i])]
    BY <1>2
  <2>2. Fits(state)
    BY DEF Base, SSHTypeOK
  <2> QED BY <2>1, <2>2 DEF Fits, Attempts
<1>6. SSHTypeOK'
  BY <1>0, <1>4, <1>5 DEF Base, SSHTypeOK, env, Log, Line, Ids
<1>7. Valid(scan.next)'
  BY <1>0 DEF Base, Valid, Sources
<1>8. LogInv'
  BY <1>0 DEF Base, LogInv, LineNumbers, env
<1>9. EntryInv'
  BY <1>0 DEF Base, EntryInv, LineNumbers, env
<1> QED BY <1>6, <1>7, <1>8, <1>9 DEF Base

----------------------------------------------------------------------------
(* A log grows, or is left alone: what it held it holds, and a line that   *)
(* was not there before is one that did not exist.                         *)
Grown(p) ==
    /\ Len(log[p].lines) <= Len(log'[p].lines) /\ Size(p) <= Size(p)'
    /\ \A k \in 1..Len(log[p].lines) : log'[p].lines[k] = log[p].lines[k]
    /\ \A k \in 1..Len(log'[p].lines) : k > Len(log[p].lines) =>
          log'[p].lines[k] \notin LineNumbers /\ log'[p].lines[k] \in Ids /\ 2 * k - 1 > Size(p)
    /\ p \notin upset' => (log[p].access # "absent" => log'[p].access # "absent")

(* The steps of the host leave the detector alone: logs grow, or one is    *)
(* emptied.                                                                *)
HostStep ==
    /\ LineNumbers \subseteq LineNumbers' /\ \A i \in LineNumbers : written'[i] = written[i]
    /\ \A p \in Paths : Grown(p) \/ (log'[p].lines = <<>> /\ p \in upset')
    /\ upset \subseteq upset'
    /\ UNCHANGED <<state, scan, history>>

LEMMA SameGrown ==
    ASSUME Base, NEW p \in Paths, log'[p] = log[p]
    PROVE  Grown(p)
<1>1. Len(log[p].lines) \in Nat /\ Size(p) \in Nat
  BY SizeType
<1>2. Size(p)' = Size(p)
  BY DEF Size
<1> QED BY <1>1, <1>2 DEF Grown

LEMMA HeadEffect ==
    ASSUME Base, NEW p \in Paths, WriteHead(p)
    PROVE  Base' /\ HostStep
<1> DEFINE n == Len(written) + 1
<1>1. PICK t \in Texts : written' = Append(written, [path |-> p, text |-> t])
  BY DEF WriteHead
<1>2. /\ Len(written) < MaxWritten /\ log[p].access # "absent" /\ ~log[p].half
      /\ log' = [log EXCEPT ![p].lines = Append(@, n), ![p].half = TRUE]
      /\ UNCHANGED <<journal, state, scan, history, upset, faults>>
  BY DEF WriteHead
<1>3. /\ written \in Seq(Line) /\ Len(written) \in Nat /\ MaxWritten \in Nat /\ log \in [Paths -> Log]
  BY SSHAuthAssumption DEF Base, SSHTypeOK
<1>4. n \in Ids /\ n \notin LineNumbers /\ n \in Nat
  BY <1>2, <1>3 DEF Ids, LineNumbers
<1>5. /\ written' \in Seq(Line) /\ Len(written') = n /\ written'[n].path = p
      /\ \A i \in LineNumbers : written'[i] = written[i]
  <2>1. [path |-> p, text |-> t] \in Line
    BY DEF Line
  <2> DEFINE x == [path |-> p, text |-> t]
  <2>2. x.path = p
    OBVIOUS
  <2> HIDE DEF x
  <2> QED BY <1>1, <1>3, <2>1, <2>2 DEF LineNumbers, x
<1>6. LineNumbers' = 1..n /\ LineNumbers \subseteq 1..n
  BY <1>3, <1>5 DEF LineNumbers
<1> HIDE DEF n
<1>7. /\ log' \in [Paths -> Log] /\ \A q \in Paths \ {p} : log'[q] = log[q]
      /\ log'[p].access = log[p].access /\ log'[p].lines = Append(log[p].lines, n) /\ log'[p].half = TRUE
  <2>1. log[p] \in Log /\ log[p].lines \in Seq(Ids) /\ Append(log[p].lines, n) \in Seq(Ids)
    BY <1>3, <1>4 DEF Log
  <2>2. log' = [log EXCEPT ![p] = [log[p] EXCEPT !.lines = Append(log[p].lines, n), !.half = TRUE]]
    BY <1>2, <1>3
  <2> DEFINE l == Append(log[p].lines, n)
             r == [log[p] EXCEPT !.lines = l, !.half = TRUE]
  <2> HIDE DEF l
  <2>3. r \in Log /\ r.access = log[p].access /\ r.lines = l /\ r.half = TRUE
    BY <2>1 DEF Log, l
  <2>4. log' = [log EXCEPT ![p] = r]
    BY <2>2 DEF l
  <2> HIDE DEF r
  <2> QED BY <1>3, <2>3, <2>4 DEF l
<1>8. /\ log[p].lines \in Seq(Ids) /\ Len(log[p].lines) \in Nat /\ Size(p) = 2 * Len(log[p].lines)
  <2>1. log[p].lines \in Seq(Ids) /\ Len(log[p].lines) \in Nat
    BY SizeType
  <2> QED BY <1>2, <2>1 DEF Size
<1>9. /\ Len(log'[p].lines) = Len(log[p].lines) + 1 /\ log'[p].lines[Len(log[p].lines) + 1] = n
      /\ \A k \in 1..Len(log[p].lines) : log'[p].lines[k] = log[p].lines[k]
  BY <1>4, <1>7, <1>8
<1>10. Grown(p)
  <2>1. Size(p)' = 2 * (Len(log[p].lines) + 1) - 1
    BY <1>7, <1>9 DEF Size
  <2>2. Size(p) <= Size(p)'
    BY <1>8, <2>1
  <2>3. \A k \in 1..Len(log'[p].lines) : k > Len(log[p].lines) =>
            log'[p].lines[k] = n /\ 2 * k - 1 > Size(p)
    BY <1>8, <1>9
  <2> QED BY <1>4, <1>7, <1>8, <1>9, <2>2, <2>3 DEF Grown
<1>11. HostStep
  <2>1. \A q \in Paths \ {p} : Grown(q)
    BY <1>7, SameGrown
  <2> QED BY <1>2, <1>5, <1>6, <1>10, <2>1 DEF HostStep
<1>12. SSHTypeOK'
  <2>1. Len(written)' <= MaxWritten
    BY <1>2, <1>3, <1>5 DEF n
  <2> QED BY <1>2, <1>5, <1>7, <2>1 DEF Base, SSHTypeOK, history, Ids, Valid, Fits, Sources, Attempts
<1>13. LogInv'
  <2>1. \A q \in Paths : log'[q].half => log'[q].lines # <<>>
    <3>1. log'[p].lines # <<>>
      BY <1>7, <1>8, <1>9
    <3> QED BY <1>7, <3>1 DEF Base, LogInv
  <2>2. \A q \in Paths : \A k \in 1..Len(log[q].lines) :
            /\ log[q].lines[k] \in LineNumbers /\ written[log[q].lines[k]].path = q
    BY DEF Base, LogInv
  <2>3. \A q \in Paths : \A k \in 1..Len(log[q].lines) :
            log[q].lines[k] \in LineNumbers' /\ written'[log[q].lines[k]].path = q
    BY <1>5, <1>6, <2>2
  <2>4. \A k \in 1..Len(log'[p].lines) : k \in 1..Len(log[p].lines) \/ k = Len(log[p].lines) + 1
    BY <1>8, <1>9
  <2>5. n \in LineNumbers' /\ written'[n].path = p
    BY <1>4, <1>5, <1>6 DEF n
  <2>6. \A q \in Paths : \A k \in 1..Len(log'[q].lines) :
            log'[q].lines[k] \in LineNumbers' /\ written'[log'[q].lines[k]].path = q
    <3> TAKE q \in Paths
    <3>1. CASE q = p
      BY <1>9, <2>3, <2>4, <2>5, <3>1
    <3>2. CASE q # p
      BY <1>7, <2>3, <3>2
    <3> QED BY <3>1, <3>2
  <2>7. \A q \in Paths : \A j, k \in 1..Len(log'[q].lines) : j < k => log'[q].lines[j] < log'[q].lines[k]
    <3> TAKE q \in Paths
    <3>1. CASE q = p
      <4> TAKE j, k \in 1..Len(log'[q].lines)
      <4> HAVE j < k
      <4>1. CASE k \in 1..Len(log[p].lines)
        <5>1. j \in 1..Len(log[p].lines)
          BY <1>8, <4>1
        <5> QED BY <1>9, <3>1, <4>1, <5>1 DEF Base, LogInv
      <4>2. CASE k = Len(log[p].lines) + 1
        <5>1. j \in 1..Len(log[p].lines)
          BY <1>8, <1>9, <3>1, <4>2
        <5>2. log'[p].lines[j] \in LineNumbers /\ log'[p].lines[k] = n
          BY <1>9, <2>2, <4>2, <5>1
        <5> QED BY <1>3, <3>1, <5>2 DEF LineNumbers, n
      <4> QED BY <2>4, <3>1, <4>1, <4>2
    <3>2. CASE q # p
      BY <1>7, <3>2 DEF Base, LogInv
    <3> QED BY <3>1, <3>2
  <2>8. \A k \in 1..Len(journal') : journal'[k] \in LineNumbers'
    BY <1>2, <1>6 DEF Base, LogInv
  <2>9. \A i \in Ids : counted'[i] > 0 => i \in LineNumbers'
    BY <1>2, <1>6 DEF Base, LogInv, history
  <2> QED BY <2>1, <2>6, <2>7, <2>8, <2>9 DEF LogInv
<1>14. Valid(scan.next)'
  BY <1>2 DEF Base, Valid, Sources
<1>15. EntryInv'
  <2>1. \A e \in scan.lines : /\ e.line \in LineNumbers
                              /\ e.path # JournalPath => written[e.line].path = e.path
    BY DEF Base, EntryInv
  <2>2. \A e \in scan.lines : /\ e.line \in LineNumbers'
                              /\ e.path # JournalPath => written'[e.line].path = e.path
    BY <1>5, <1>6, <2>1
  <2> QED BY <1>2, <2>2 DEF Base, EntryInv
<1> QED BY <1>11, <1>12, <1>13, <1>14, <1>15 DEF Base

(* A step that puts l in the place of a log and writes no line. *)
LEMMA ReplaceEffect ==
    ASSUME Base, NEW p \in Paths, NEW l \in Log, log' = [log EXCEPT ![p] = l], written' = written,
           l.half => l.lines # <<>>,
           \/ l.lines = log[p].lines /\ (l.half => log[p].half)
              /\ (p \notin upset' => (log[p].access # "absent" => l.access # "absent"))
           \/ l.lines = <<>> /\ p \in upset',
           journal' \in Seq(Ids), \A k \in 1..Len(journal') : journal'[k] \in LineNumbers,
           faults' \in 0..MaxFaults, upset' \subseteq Paths, upset \subseteq upset',
           UNCHANGED <<state, scan, history>>
    PROVE  Base' /\ HostStep
<1>1. /\ log \in [Paths -> Log] /\ log' \in [Paths -> Log] /\ log'[p] = l
      /\ \A q \in Paths \ {p} : log'[q] = log[q]
  BY DEF Base, SSHTypeOK
<1>2. LineNumbers' = LineNumbers
  BY DEF LineNumbers
<1>3. SSHTypeOK'
  BY <1>1 DEF Base, SSHTypeOK, history, Ids, Valid, Fits, Sources, Attempts
<1>4. Valid(scan.next)'
  BY DEF Base, Valid, Sources
<1>5. EntryInv'
  BY <1>2 DEF Base, EntryInv
<1>6. /\ Len(log[p].lines) \in Nat /\ log[p].half \in BOOLEAN /\ l.half \in BOOLEAN /\ Size(p) \in Nat
      /\ Len(<<>>) = 0
  BY SizeType DEF Log
<1>7. LogInv'
  <2>1. \A q \in Paths : log'[q].half => log'[q].lines # <<>>
    BY <1>1 DEF Base, LogInv
  <2>2. \A q \in Paths : \A k \in 1..Len(log'[q].lines) :
            k \in 1..Len(log[q].lines) /\ log'[q].lines[k] = log[q].lines[k]
    <3> TAKE q \in Paths
    <3>1. CASE q = p
      BY <1>1, <1>6, <3>1
    <3>2. CASE q # p
      BY <1>1, <3>2
    <3> QED BY <3>1, <3>2
  <2>3. \A q \in Paths : \A k \in 1..Len(log'[q].lines) :
            log'[q].lines[k] \in LineNumbers' /\ written'[log'[q].lines[k]].path = q
    BY <1>2, <2>2 DEF Base, LogInv
  <2>4. \A q \in Paths : \A j, k \in 1..Len(log'[q].lines) : j < k => log'[q].lines[j] < log'[q].lines[k]
    BY <2>2 DEF Base, LogInv
  <2>5. \A i \in Ids : counted'[i] > 0 => i \in LineNumbers'
    BY <1>2 DEF Base, LogInv, history
  <2> QED BY <1>2, <2>1, <2>3, <2>4, <2>5 DEF LogInv
<1>8. CASE l.lines = <<>> /\ p \in upset'
  <2>1. \A q \in Paths \ {p} : Grown(q)
    BY <1>1, SameGrown
  <2> QED BY <1>1, <1>2, <1>3, <1>4, <1>5, <1>7, <1>8, <2>1 DEF HostStep, Base
<1>9. CASE /\ l.lines = log[p].lines /\ (l.half => log[p].half)
           /\ (p \notin upset' => (log[p].access # "absent" => l.access # "absent"))
  <2>1. \A q \in Paths \ {p} : Grown(q)
    BY <1>1, SameGrown
  <2>2. Size(p) <= Size(p)'
    <3>1. /\ Size(p)' = 2 * Len(log[p].lines) - (IF l.half THEN 1 ELSE 0)
          /\ Size(p) = 2 * Len(log[p].lines) - (IF log[p].half THEN 1 ELSE 0)
      BY <1>1, <1>9 DEF Size
    <3> QED BY <1>6, <1>9, <3>1
  <2>3. log'[p].lines = log[p].lines
    BY <1>1, <1>9
  <2>4. \A k \in 1..Len(log[p].lines) : ~(k > Len(log[p].lines))
    BY <1>6
  <2>5. Grown(p)
    BY <1>1, <1>6, <1>9, <2>2, <2>3, <2>4 DEF Grown
  <2> QED BY <1>1, <1>2, <1>3, <1>4, <1>5, <1>7, <2>1, <2>5 DEF HostStep, Base
<1> QED BY <1>8, <1>9

LEMMA TailEffect ==
    ASSUME Base, NEW p \in Paths, WriteTail(p)
    PROVE  Base' /\ HostStep
<1> DEFINE l == [log[p] EXCEPT !.half = FALSE]
           x == Last(log[p].lines)
<1>1. /\ log[p].access # "absent" /\ log[p].half
      /\ log' = [log EXCEPT ![p] = l]
      /\ journal' = IF HasJournal THEN Append(journal, x) ELSE journal
      /\ UNCHANGED <<written, state, scan, history, upset, faults>>
  BY DEF WriteTail
<1>2. /\ log[p] \in Log /\ journal \in Seq(Ids) /\ Len(journal) \in Nat /\ (log[p].half => log[p].lines # <<>>)
      /\ faults \in 0..MaxFaults /\ upset \subseteq Paths
      /\ \A k \in 1..Len(journal) : journal[k] \in LineNumbers
      /\ \A k \in 1..Len(log[p].lines) : log[p].lines[k] \in LineNumbers
  BY DEF Base, SSHTypeOK, LogInv
<1>3. l \in Log /\ l.half = FALSE /\ l.lines = log[p].lines /\ l.access = log[p].access
  BY <1>2 DEF Log
<1>4. x \in LineNumbers /\ x \in Ids
  <2>1. Len(log[p].lines) \in 1..Len(log[p].lines) /\ \A k \in 1..Len(log[p].lines) : log[p].lines[k] \in Ids
    BY <1>1, <1>2, SizeType
  <2> QED BY <1>2, <2>1 DEF Last
<1> HIDE DEF l, x
<1>5. journal' \in Seq(Ids) /\ \A k \in 1..Len(journal') : journal'[k] \in LineNumbers
  <2>1. CASE HasJournal
    <3>1. /\ journal' \in Seq(Ids) /\ Len(journal') = Len(journal) + 1 /\ journal'[Len(journal) + 1] = x
          /\ \A k \in 1..Len(journal) : journal'[k] = journal[k]
      BY <1>1, <1>2, <1>4, <2>1
    <3>2. \A k \in 1..(Len(journal) + 1) : k \in 1..Len(journal) \/ k = Len(journal) + 1
      BY <1>2
    <3> QED BY <1>2, <1>4, <3>1, <3>2
  <2>2. CASE ~HasJournal
    BY <1>1, <1>2, <2>2
  <2> QED BY <2>1, <2>2
<1> QED BY <1>1, <1>2, <1>3, <1>5, ReplaceEffect

LEMMA FaultType ==
    ASSUME Base, Fault
    PROVE  faults' \in 0..MaxFaults
<1>1. faults \in 0..MaxFaults /\ MaxFaults \in Nat
  BY SSHAuthAssumption DEF Base, SSHTypeOK
<1> QED BY <1>1 DEF Fault

LEMMA RotateEffect ==
    ASSUME Base, NEW p \in Paths, Rotate(p)
    PROVE  Base' /\ HostStep
<1>1. PICK a \in {"ok", "absent"} :
          log' = [log EXCEPT ![p] = [access |-> a, lines |-> <<>>, half |-> FALSE]]
  BY DEF Rotate
<1> DEFINE l == [access |-> a, lines |-> <<>>, half |-> FALSE]
<1>2. l \in Log /\ l.half = FALSE /\ l.lines = <<>>
  BY DEF Log
<1>3. /\ upset' = upset \cup {p} /\ UNCHANGED <<written, journal, state, scan, history>>
      /\ faults' \in 0..MaxFaults
  BY FaultType DEF Rotate
<1>4. upset \subseteq Paths /\ journal \in Seq(Ids) /\ \A k \in 1..Len(journal) : journal[k] \in LineNumbers
  BY DEF Base, SSHTypeOK, LogInv
<1> HIDE DEF l
<1>5. log' = [log EXCEPT ![p] = l]
  BY <1>1 DEF l
<1> QED BY <1>2, <1>3, <1>4, <1>5, ReplaceEffect

LEMMA AccessEffect ==
    ASSUME Base, NEW p \in Paths, Lose(p) \/ Return(p)
    PROVE  Base' /\ HostStep
<1>1. PICK a \in {"ok", "absent", "denied"} :
          log' = [log EXCEPT ![p].access = a] /\ (a = "absent" => p \in upset')
  BY DEF Lose, Return
<1> DEFINE l == [log[p] EXCEPT !.access = a]
<1>2. /\ log[p] \in Log /\ upset \subseteq Paths /\ journal \in Seq(Ids)
      /\ \A k \in 1..Len(journal) : journal[k] \in LineNumbers
      /\ log[p].half => log[p].lines # <<>>
  BY DEF Base, SSHTypeOK, LogInv
<1>3. l \in Log /\ l.half = log[p].half /\ l.lines = log[p].lines /\ l.access = a
  BY <1>2 DEF Log
<1>4. /\ UNCHANGED <<written, journal, state, scan, history>>
      /\ upset' = upset \/ upset' = upset \cup {p}
      /\ faults' = faults \/ Fault
  BY DEF Lose, Return
<1>5. faults' \in 0..MaxFaults
  BY <1>4, FaultType DEF Base, SSHTypeOK
<1>6. log' = [log EXCEPT ![p] = l]
  BY <1>1
<1> HIDE DEF l
<1> QED BY <1>1, <1>2, <1>3, <1>4, <1>5, <1>6, ReplaceEffect

LEMMA HostEffect ==
    ASSUME Base, Host
    PROVE  Base' /\ HostStep
<1>1. PICK p \in Paths : WriteHead(p) \/ WriteTail(p) \/ Rotate(p) \/ Lose(p) \/ Return(p)
  BY DEF Host
<1> QED BY <1>1, HeadEffect, TailEffect, RotateEffect, AccessEffect

----------------------------------------------------------------------------
(* The steps of readPath, one by one and together. *)
LEMMA KeepBase ==
    ASSUME Base, NEW p \in Paths, LookPast(p) \/ LookUnreadable(p) \/ ReadFails(p)
    PROVE  Base'
<1>1. PICK c \in {state.files[p], NoCursor} :
          CursorStep(p, c, {}, {}) /\ c \in Cursor /\ c.prefix.bytes <= PrefixLimit /\ upset' = upset
  BY KeepEffect
<1>2. upset' \subseteq Paths /\ IsFiniteSet({})
  BY <1>1, FS_EmptySet DEF Base, SSHTypeOK
<1> QED BY <1>1, <1>2, CursorStepBase

LEMMA LookBase ==
    ASSUME Base, NEW p \in Paths, Look(p)
    PROVE  Base'
<1>1. PICK c \in Cursor :
          /\ CursorStep(p, c, {}, IF state.saved THEN {} ELSE Begun(p, Size(p)))
          /\ c.prefix.bytes <= PrefixLimit /\ upset' = upset
  BY LookEffect
<1>2. upset' \subseteq Paths /\ IsFiniteSet({})
  BY <1>1, FS_EmptySet DEF Base, SSHTypeOK
<1> QED BY <1>1, <1>2, CursorStepBase

LEMMA ReadBase ==
    ASSUME Base, NEW p \in Paths, Read(p)
    PROVE  Base'
<1> DEFINE old == scan.next.files[p]
           got == readLines(p, old.offset, Remaining)
           c == [old EXCEPT !.offset = got.offset]
<1>1. /\ CursorStep(p, c, got.lines, {}) /\ old \in Cursor /\ c \in Cursor /\ c.prefix.bytes <= PrefixLimit
      /\ upset' = IF old.prefix.bytes = 0 /\ got.lines # {} THEN upset \cup {p} ELSE upset
  BY ReadEffect
<1>2. upset' \subseteq Paths
  BY <1>1 DEF Base, SSHTypeOK
<1>3. old.offset \in Nat /\ Remaining \in Int
  BY <1>1, RemainingType DEF Cursor
<1>4. /\ got.lines \in SUBSET Entry /\ IsFiniteSet(got.lines)
      /\ \A e \in got.lines : e.path = p /\ \E k \in 1..Len(log[p].lines) : e.line = log[p].lines[k]
  <2> HIDE DEF old
  <2>1. /\ got.lines \in SUBSET Entry /\ IsFiniteSet(got.lines)
        /\ \A e \in got.lines : e.path = p /\ e.at \in 1..Len(log[p].lines) /\ e.line = log[p].lines[e.at]
    BY <1>3, ReadLinesFacts DEF Consumed
  <2> HIDE DEF got
  <2> QED BY <2>1
<1> HIDE DEF old, got, c
<1> QED BY <1>1, <1>2, <1>4, CursorStepBase

LEMMA SuccessBase ==
    ASSUME Base, NEW e, ApplySuccess(e)
    PROVE  Base'
  BY SuccessEffect, RecordStepBase

LEMMA FailureBase ==
    ASSUME Base, NEW e, ApplyFailure(e)
    PROVE  Base'
<1>1. PICK ip \in IPs, t \in DetectorState, events \in Seq(Event) :
          RecordStep(e, t, events) /\ Failed(t, ip, events)
  BY FailureEffect
<1> QED BY <1>1, RecordStepBase DEF Failed

LEMMA SkipBase ==
    ASSUME Base, NEW e, SkipLine(e)
    PROVE  Base'
<1>1. RecordStep(e, scan.next, scan.events) /\ Valid(scan.next)
  BY SkipEffect DEF Base
<1> QED BY <1>1, RecordStepBase

LEMMA BaseInit ==
    ASSUME Init
    PROVE  Base
<1>0. /\ log = [p \in Paths |-> [access |-> "ok", lines |-> <<>>, half |-> FALSE]]
      /\ written = <<>> /\ journal = <<>> /\ scan = NoScan /\ Fits(state)
      /\ told = [logins |-> {}, alert |-> [i \in IPs |-> 2 * Window + 1]]
      /\ counted = [i \in Ids |-> 0] /\ settled = {} /\ based = {} /\ upset = {} /\ faults = 0
  BY DEF Init
<1>1. /\ NewState \in DetectorState /\ NoScan \in Scan /\ Valid(NewState) /\ NoScan.next = NewState
  BY NewStateType
<1>2. state \in DetectorState /\ Valid(state)
  <2>1. CASE state = NewState
    BY <1>1, <2>1
  <2>2. ASSUME NEW i \in IPs,
               state = [NewState EXCEPT !.saved = TRUE, !.failures[i] = << 0 >>, !.tried[i] = << 0 >>]
        PROVE  state \in DetectorState /\ Valid(state)
    <3> DEFINE F == [NewState.failures EXCEPT ![i] = << 0 >>]
    <3>1. state = [NewState EXCEPT !.saved = TRUE, !.failures = F, !.tried = F]
      BY <2>2 DEF NewState
    <3>2. NewState.failures = [j \in IPs |-> <<>>]
      BY DEF NewState
    <3>3. 0 \in 0..Expired
      BY SSHAuthAssumption DEF Expired
    <3>4. << 0 >> \in Seq(0..Expired) /\ Len(<< 0 >>) = 1 /\ Len(<<>>) = 0
      BY <3>3
    <3>5. F = [j \in IPs |-> IF j = i THEN << 0 >> ELSE <<>>]
      BY <3>2
    <3>6. F \in [IPs -> Seq(0..Expired)] /\ \A j \in IPs : F[j] = IF j = i THEN << 0 >> ELSE <<>>
      <4> DEFINE S == Seq(0..Expired)
      <4>1. << 0 >> \in S /\ <<>> \in S
        BY <3>4
      <4> HIDE DEF S
      <4>2. F \in [IPs -> S]
        BY <3>5, <4>1
      <4> QED BY <3>5, <4>2 DEF S
    <3> HIDE DEF F
    <3>7. state \in DetectorState /\ state.failures = F /\ state.files = NewState.files
      BY <1>1, <3>1, <3>6 DEF DetectorState
    <3>8. Sources(state) = {i}
      <4>1. << 0 >> # <<>>
        OBVIOUS
      <4>2. \A j \in IPs : state.failures[j] # <<>> <=> j = i
        BY <3>6, <3>7, <4>1
      <4> QED BY <4>2 DEF Sources
    <3>9. Cardinality(Sources(state)) = 1
      BY <3>8, FS_Singleton
    <3>10. \A j \in IPs : Len(state.failures[j]) <= MaxAttemptsPerIP
      <4>1. \A j \in IPs : state.failures[j] = << 0 >> \/ state.failures[j] = <<>>
        BY <3>6, <3>7
      <4>2. 1 <= MaxAttemptsPerIP /\ 0 <= MaxAttemptsPerIP
        BY SSHAuthAssumption
      <4> QED BY <3>4, <4>1, <4>2
    <3> QED BY <1>1, <3>7, <3>9, <3>10, SSHAuthAssumption DEF Valid
  <2> QED BY <2>1, <2>2 DEF Init
<1>3. SSHTypeOK
  <2>1. log \in [Paths -> Log]
    <3>1. [access |-> "ok", lines |-> <<>>, half |-> FALSE] \in Log
      BY DEF Log
    <3> QED BY <1>0, <3>1
  <2>2. told \in [logins : SUBSET Ids, alert : [IPs -> 0..(2 * Window + 1)]]
    <3>1. 2 * Window + 1 \in 0..(2 * Window + 1)
      BY SSHAuthAssumption
    <3> QED BY <1>0, <3>1
  <2>3. written \in Seq(Line) /\ Len(written) <= MaxWritten /\ journal \in Seq(Ids) /\ faults \in 0..MaxFaults
    BY <1>0, SSHAuthAssumption
  <2>4. counted \in [Ids -> 0..2] /\ based \subseteq Ids /\ settled \subseteq Ids /\ upset \subseteq Paths
    BY <1>0
  <2>5. scan \in Scan /\ Fits(state)
    BY <1>0, <1>1
  <2> QED BY <1>2, <2>1, <2>2, <2>3, <2>4, <2>5 DEF SSHTypeOK
<1>4. LogInv
  BY <1>0 DEF LogInv
<1>5. Valid(scan.next) /\ EntryInv
  <2>1. scan.lines = {} /\ scan.todo = {} /\ scan.next = NewState
    BY <1>0, <1>1 DEF NoScan
  <2> QED BY <1>1, <2>1, FS_EmptySet DEF EntryInv
<1> QED BY <1>3, <1>4, <1>5 DEF Base

LEMMA BaseStep ==
    ASSUME Base, [Next]_vars
    PROVE  Base'
<1>1. CASE UNCHANGED vars
  BY <1>1 DEF vars, Base, SSHTypeOK, LogInv, EntryInv, LineNumbers, Valid, Fits, Sources, Attempts
<1>2. CASE StartScan
  BY <1>2, StartBase
<1>3. CASE ReadJournal
  BY <1>3, JournalBase
<1>4. CASE Finish
  BY <1>4, FinishBase
<1>5. CASE Enqueue
  BY <1>5, EnqueueBase
<1>6. CASE Commit
  BY <1>6, CommitBase
<1>7. CASE CommitRefused \/ Abandon
  BY <1>7, ForgetBase
<1>8. ASSUME NEW p \in Paths, ReadStep(p) PROVE Base'
  BY <1>8, KeepBase, LookBase, ReadBase DEF ReadStep
<1>9. ASSUME NEW e \in scan.todo, ApplyStep(e) PROVE Base'
  BY <1>9, SkipBase, SuccessBase, FailureBase DEF ApplyStep
<1>10. CASE Host
  BY <1>10, HostEffect
<1>11. CASE Tick
  BY <1>11, TickBase
<1> QED BY <1>1, <1>2, <1>3, <1>4, <1>5, <1>6, <1>7, <1>8, <1>9, <1>10, <1>11 DEF Next, ScanStep, ScanRefused

(* The state keeps its type: in particular, whatever the logs do and       *)
(* however a cycle ends, the limits that validateState sets hold of the    *)
(* state file, and it is no larger than loadState reads.  That it is       *)
(* loaded again follows but for an attempt with a garbled user.            *)
THEOREM SSHTypeCorrect == Spec => []SSHTypeOK
<1>1. Init => Base
  BY BaseInit
<1>2. Base /\ [Next]_vars => Base'
  BY BaseStep
<1>3. Base => SSHTypeOK
  BY DEF Base
<1> QED BY <1>1, <1>2, <1>3, PTL DEF Spec

----------------------------------------------------------------------------
(* The log at the path p is the one whose prefix the cursor c remembers. *)
Own(p, c) == log[p].lines # <<>> /\ log[p].lines[1] \in c.prefix.lines

(* A cursor has a prefix of lines that were written; the log it belongs to *)
(* only grows.                                                             *)
CursorOK(p, c) ==
    /\ c.prefix.lines \subseteq LineNumbers
    /\ c.prefix.bytes = 0 <=> c.prefix.lines = {}
    /\ c.prefix.bytes > 0 => c.exists
    /\ Own(p, c) => /\ c.prefix.bytes <= Size(p) /\ c.offset <= Size(p)
                    /\ c.prefix = Prefix(p, c.prefix.bytes)

(* A line was counted, is about to be, or need not be. *)
Accounted(id, lines, base) ==
    \/ counted[id] > 0 \/ id \in base \/ Text(id).kind = "long"
    \/ \E e \in lines : e.line = id /\ e.whole /\ e.path # JournalPath

(* So is every line behind the offset of its log; a line that the offset   *)
(* divides is one that the first scan passed over.                         *)
Covered(p, c, lines, base) ==
    Own(p, c) => \A k \in 1..Len(log[p].lines) :
        /\ 2 * k <= c.offset => Accounted(log[p].lines[k], lines, base)
        /\ 2 * k - 1 = c.offset => log[p].lines[k] \in base

Good(p, c, lines, base) == CursorOK(p, c) /\ Covered(p, c, lines, base)

SkipInv ==
    \A p \in Paths : /\ Good(p, state.files[p], {}, based)
                     /\ Good(p, scan.next.files[p], scan.lines, based \cup scan.based)

LEMMA NoCursorGood ==
    ASSUME NEW p \in Paths, NEW lines, NEW base
    PROVE  Good(p, NoCursor, lines, base)
<1>1. NoCursor.prefix.lines = {} /\ NoCursor.prefix.bytes = 0
  BY DEF NoCursor, NoPrefix
<1> QED BY <1>1 DEF Good, CursorOK, Covered, Own

LEMMA GoodMonotone ==
    ASSUME NEW p \in Paths, NEW c, NEW lines, NEW base, Good(p, c, lines, base),
           NEW more, NEW wider, lines \subseteq more, base \subseteq wider
    PROVE  Good(p, c, more, wider)
  BY DEF Good, Covered, Accounted

(* A step that leaves the logs and the committed state alone. *)
Still == UNCHANGED <<log, written, counted, based>>

LEMMA GoodStill ==
    ASSUME Still, NEW p \in Paths, NEW c, NEW lines, NEW base, Good(p, c, lines, base)
    PROVE  Good(p, c, lines, base)'
  BY DEF Still, Good, CursorOK, Covered, Accounted, Own, Size, Prefix, Begun, LineNumbers, Text

(* What has to be shown after a step. *)
LEMMA SkipInvNext ==
    ASSUME \A p \in Paths : \E c, d, lines, base, base2 :
              /\ Good(p, c, {}, base)' /\ c = state'.files[p] /\ base = based'
              /\ Good(p, d, lines, base2)' /\ d = scan'.next.files[p] /\ lines = scan'.lines
              /\ base2 = based' \cup scan'.based
    PROVE  SkipInv'
<1> SUFFICES ASSUME NEW p \in Paths
             PROVE  /\ Good(p, state.files[p], {}, based)'
                    /\ Good(p, scan.next.files[p], scan.lines, based \cup scan.based)'
  BY DEF SkipInv
<1>1. PICK c, d, lines, base, base2 :
          /\ Good(p, c, {}, base)' /\ c = state'.files[p] /\ base = based'
          /\ Good(p, d, lines, base2)' /\ d = scan'.next.files[p] /\ lines = scan'.lines
          /\ base2 = based' \cup scan'.based
  OBVIOUS
<1>2. Good(p, state.files[p], {}, based)'
  BY <1>1 DEF Good, CursorOK, Covered, Accounted, Own
<1>3. Good(p, scan.next.files[p], scan.lines, based \cup scan.based)'
  BY <1>1 DEF Good, CursorOK, Covered, Accounted, Own
<1> QED BY <1>2, <1>3

LEMMA StillSkip ==
    ASSUME Base, SkipInv, Still, state'.files = state.files,
           \A p \in Paths : Good(p, scan'.next.files[p], scan'.lines, based \cup scan'.based)
    PROVE  SkipInv'
<1> SUFFICES ASSUME NEW p \in Paths
             PROVE  \E c, d, lines, base, base2 :
                      /\ Good(p, c, {}, base)' /\ c = state'.files[p] /\ base = based'
                      /\ Good(p, d, lines, base2)' /\ d = scan'.next.files[p] /\ lines = scan'.lines
                      /\ base2 = based' \cup scan'.based
  BY SkipInvNext
<1>1. PICK c, d, lines, base, base2 :
          /\ c = state.files[p] /\ d = scan'.next.files[p] /\ lines = scan'.lines
          /\ base = based /\ base2 = based \cup scan'.based
  OBVIOUS
<1>2. Good(p, c, {}, base) /\ Good(p, d, lines, base2)
  BY <1>1 DEF SkipInv
<1>3. Good(p, c, {}, base)' /\ Good(p, d, lines, base2)'
  BY <1>2, GoodStill
<1> QED BY <1>1, <1>3 DEF Still

LEMMA CursorStepSkip ==
    ASSUME Base, SkipInv, NEW p \in Paths, NEW c \in Cursor, NEW new, NEW passed,
           CursorStep(p, c, new, passed),
           Good(p, c, scan.lines \cup new, (based \cup scan.based) \cup passed)
    PROVE  SkipInv'
<1>1. /\ Still /\ state' = state /\ scan'.next = Moved(p, c)
      /\ scan'.lines = scan.lines \cup new /\ scan'.based = scan.based \cup passed
  BY DEF CursorStep, Still, history
<1>2. Moved(p, c).files = [scan.next.files EXCEPT ![p] = c] /\ scan.next.files \in [Paths -> Cursor]
  BY StateType DEF Moved, DetectorState
<1>3. based \cup scan'.based = (based \cup scan.based) \cup passed
  BY <1>1
<1>4. ASSUME NEW q \in Paths
      PROVE  Good(q, scan'.next.files[q], scan'.lines, based \cup scan'.based)
  <2>1. CASE q = p
    BY <1>1, <1>2, <1>3, <2>1
  <2>2. CASE q # p
    <3>1. scan'.next.files[q] = scan.next.files[q]
      BY <1>1, <1>2, <2>2
    <3>2. Good(q, scan.next.files[q], scan.lines, based \cup scan.based)
      BY DEF SkipInv
    <3>3. scan.lines \subseteq scan'.lines /\ based \cup scan.based \subseteq based \cup scan'.based
      BY <1>1
    <3> QED BY <3>1, <3>2, <3>3, GoodMonotone
  <2> QED BY <2>1, <2>2
<1> QED BY <1>1, <1>4, StillSkip

LEMMA KeepSkip ==
    ASSUME Base, SkipInv, NEW p \in Paths, LookPast(p) \/ LookUnreadable(p) \/ ReadFails(p)
    PROVE  SkipInv'
<1>1. PICK c \in {state.files[p], NoCursor} : CursorStep(p, c, {}, {}) /\ c \in Cursor
  BY KeepEffect
<1>2. Good(p, state.files[p], {}, based)
  BY DEF SkipInv
<1>3. Good(p, state.files[p], scan.lines \cup {}, (based \cup scan.based) \cup {})
  <2>1. {} \subseteq scan.lines \cup {} /\ based \subseteq (based \cup scan.based) \cup {}
    OBVIOUS
  <2> QED BY <1>2, <2>1, GoodMonotone
<1>4. Good(p, c, scan.lines \cup {}, (based \cup scan.based) \cup {})
  BY <1>3, NoCursorGood
<1> QED BY <1>1, <1>4, CursorStepSkip

LEMMA LookSkip ==
    ASSUME Base, SkipInv, NEW p \in Paths, Look(p)
    PROVE  SkipInv'
<1> DEFINE passed == IF state.saved THEN {} ELSE Begun(p, Size(p))
           wider == (based \cup scan.based) \cup passed
<1>1. PICK c \in Cursor : CursorStep(p, c, {}, passed) /\ Looked(p, c)
  BY LookEffect
<1>2. c.offset \in Nat /\ c.prefix.bytes \in Nat /\ Size(p) \in Nat
  BY SizeType DEF Cursor
<1>3. /\ c.exists /\ c.prefix = Prefix(p, c.prefix.bytes) /\ c.prefix.bytes <= Size(p)
      /\ c.prefix.lines = Begun(p, c.prefix.bytes)
      /\ \/ ~state.saved /\ c.offset = Size(p)
         \/ state.saved /\ c.offset = 0
         \/ /\ state.saved /\ c.offset = state.files[p].offset
            /\ c.prefix = state.files[p].prefix /\ c.offset <= Size(p)
  BY <1>1 DEF Looked, Prefix
<1>4. CursorOK(p, c)
  <2>1. c.prefix.lines \subseteq LineNumbers /\ (c.prefix.bytes = 0 <=> c.prefix.lines = {})
    BY <1>2, <1>3, BegunType
  <2>2. c.offset <= Size(p)
    BY <1>2, <1>3
  <2> QED BY <1>3, <2>1, <2>2 DEF CursorOK
<1>5. Covered(p, c, scan.lines \cup {}, wider)
  <2>1. CASE ~state.saved /\ c.offset = Size(p)
    <3>1. ASSUME NEW k \in 1..Len(log[p].lines), 2 * k <= c.offset \/ 2 * k - 1 = c.offset
          PROVE  log[p].lines[k] \in wider
      <4>1. 2 * k - 1 <= Size(p)
        <5>1. k \in Nat
          BY SizeType
        <5> QED BY <1>2, <2>1, <3>1, <5>1
      <4>2. log[p].lines[k] \in Begun(p, Size(p))
        BY <4>1 DEF Begun
      <4> QED BY <2>1, <4>2
    <3> QED BY <3>1 DEF Covered, Accounted
  <2>2. CASE c.offset = 0
    <3>1. \A k \in 1..Len(log[p].lines) : ~(2 * k <= 0) /\ 2 * k - 1 # 0
      BY SizeType
    <3> QED BY <2>2, <3>1 DEF Covered
  <2>3. CASE c.offset = state.files[p].offset /\ c.prefix = state.files[p].prefix
    <3>1. Covered(p, state.files[p], {}, based)
      BY DEF SkipInv, Good
    <3>2. Own(p, c) <=> Own(p, state.files[p])
      BY <2>3 DEF Own
    <3> QED BY <2>3, <3>1, <3>2 DEF Covered, Accounted
  <2> QED BY <1>3, <2>1, <2>2, <2>3
<1>6. Good(p, c, scan.lines \cup {}, wider)
  BY <1>4, <1>5 DEF Good
<1> HIDE DEF passed
<1> QED BY <1>1, <1>6, CursorStepSkip

LEMMA ReadSkip ==
    ASSUME Base, SkipInv, NEW p \in Paths, Read(p)
    PROVE  SkipInv'
<1> DEFINE old == scan.next.files[p]
           got == readLines(p, old.offset, Remaining)
           c == [old EXCEPT !.offset = got.offset]
           all == scan.lines \cup got.lines
           base == based \cup scan.based
<1>1. /\ CursorStep(p, c, got.lines, {}) /\ old \in Cursor /\ c \in Cursor
      /\ c.prefix = old.prefix /\ c.offset = got.offset /\ c.exists = old.exists
  BY ReadEffect
<1>2. old.offset \in Nat /\ Remaining \in Int /\ Size(p) \in Nat
  BY <1>1, RemainingType, SizeType DEF Cursor
<1>3. CursorOK(p, old) /\ Covered(p, old, scan.lines, base)
  BY DEF SkipInv, Good
<1> HIDE DEF old
<1>4. /\ got.offset \in Nat /\ old.offset <= got.offset
      /\ old.offset <= Size(p) => got.offset <= Size(p)
      /\ \A e \in got.lines : e.path = p
      /\ \A k \in 1..Len(log[p].lines) : old.offset < 2 * k /\ 2 * k <= got.offset =>
            \/ Text(log[p].lines[k]).kind = "long" \/ old.offset = 2 * k - 1
            \/ \E e \in got.lines : e.line = log[p].lines[k] /\ e.whole
      /\ \A k \in 1..Len(log[p].lines) : 2 * k - 1 = got.offset => got.offset = old.offset
  <2>1. Consumed(p, old.offset, got)
    BY <1>2, ReadLinesFacts
  <2> HIDE DEF got
  <2> QED BY <2>1 DEF Consumed
<1> HIDE DEF got, c
<1>5. Own(p, c) <=> Own(p, old)
  BY <1>1 DEF Own
<1>6. CursorOK(p, c)
  BY <1>1, <1>3, <1>4, <1>5 DEF CursorOK
<1>7. Covered(p, c, all, base \cup {})
  <2> SUFFICES ASSUME Own(p, c), NEW k \in 1..Len(log[p].lines)
               PROVE  /\ 2 * k <= c.offset => Accounted(log[p].lines[k], all, base)
                      /\ 2 * k - 1 = c.offset => log[p].lines[k] \in base
    BY DEF Covered, Accounted
  <2>1. /\ 2 * k <= old.offset => Accounted(log[p].lines[k], scan.lines, base)
        /\ 2 * k - 1 = old.offset => log[p].lines[k] \in base
    BY <1>3, <1>5 DEF Covered
  <2>2. ASSUME 2 * k <= old.offset PROVE Accounted(log[p].lines[k], all, base)
    BY <2>1, <2>2 DEF Accounted
  <2>3. ASSUME old.offset < 2 * k, 2 * k <= got.offset PROVE Accounted(log[p].lines[k], all, base)
    <3>1. p # JournalPath
      BY SSHAuthAssumption DEF Paths, JournalPath
    <3>2. \/ Text(log[p].lines[k]).kind = "long" \/ old.offset = 2 * k - 1
          \/ \E e \in got.lines : e.line = log[p].lines[k] /\ e.whole
      BY <1>4, <2>3
    <3> QED BY <1>4, <2>1, <3>1, <3>2 DEF Accounted
  <2>4. 2 * k - 1 = c.offset => log[p].lines[k] \in base
    BY <1>1, <1>4, <2>1
  <2>5. k \in Nat
    BY SizeType
  <2>6. 2 * k <= old.offset \/ old.offset < 2 * k
    BY <1>2, <2>5
  <2> QED BY <1>1, <2>2, <2>3, <2>4, <2>6
<1>8. Good(p, c, all, base \cup {})
  BY <1>6, <1>7 DEF Good
<1> QED BY <1>1, <1>8, CursorStepSkip

(* A step after the last read leaves the cursors alone. *)
LEMMA SameFilesSkip ==
    ASSUME Base, SkipInv, Still, state'.files = state.files, scan'.next.files = scan.next.files,
           scan.lines \subseteq scan'.lines, scan'.based = scan.based
    PROVE  SkipInv'
<1>1. ASSUME NEW p \in Paths PROVE Good(p, scan'.next.files[p], scan'.lines, based \cup scan'.based)
  <2>1. Good(p, scan.next.files[p], scan.lines, based \cup scan.based)
    BY DEF SkipInv
  <2>2. based \cup scan.based \subseteq based \cup scan'.based
    OBVIOUS
  <2> QED BY <2>1, <2>2, GoodMonotone
<1> QED BY <1>1, StillSkip

LEMMA StartSkip ==
    ASSUME Base, SkipInv, StartScan
    PROVE  SkipInv'
<1>1. /\ scan'.next = state /\ scan'.lines = {} /\ scan'.based = {} /\ UNCHANGED <<env, state, history>>
  BY StartEffect
<1>2. ASSUME NEW p \in Paths PROVE Good(p, scan'.next.files[p], scan'.lines, based \cup scan'.based)
  <2>1. Good(p, state.files[p], {}, based)
    BY DEF SkipInv
  <2>2. based \cup scan'.based = based
    BY <1>1
  <2> QED BY <1>1, <2>1, <2>2
<1>3. Still
  BY <1>1 DEF Still, env, history
<1> QED BY <1>1, <1>2, <1>3, StillSkip

LEMMA ForgetSkip ==
    ASSUME Base, SkipInv, CommitRefused \/ Abandon
    PROVE  SkipInv'
<1>1. scan' = NoScan /\ UNCHANGED <<log, written, journal, upset, state, history>>
  BY ForgetEffect
<1>2. \A p \in Paths : scan'.next.files[p] = NoCursor
  BY <1>1 DEF NoScan, NewState
<1>3. \A p \in Paths : Good(p, scan'.next.files[p], scan'.lines, based \cup scan'.based)
  BY <1>2, NoCursorGood
<1>4. Still
  BY <1>1 DEF Still, history
<1> QED BY <1>1, <1>3, <1>4, StillSkip

LEMMA CommitSkip ==
    ASSUME Base, SkipInv, Commit
    PROVE  SkipInv'
<1>1. /\ scan' = NoScan /\ state'.files = scan.next.files
      /\ \A i \in Ids : \/ i \notin Applied /\ counted'[i] = counted[i]
                        \/ i \in Applied /\ counted'[i] = AtMost(counted[i] + 1, 2)
      /\ based' = based \cup scan.based /\ UNCHANGED <<env, told>>
  BY CommitEffect
<1>2. UNCHANGED <<log, written>>
  BY <1>1 DEF env
<1>3. \A i \in Ids : counted[i] \in 0..2
  BY DEF Base, SSHTypeOK
<1>4. \A i \in Ids : counted[i] > 0 \/ i \in Applied => counted'[i] > 0
  BY <1>1, <1>3 DEF AtMost
<1> SUFFICES ASSUME NEW p \in Paths
             PROVE  \E c, d, lines, base, base2 :
                      /\ Good(p, c, {}, base)' /\ c = state'.files[p] /\ base = based'
                      /\ Good(p, d, lines, base2)' /\ d = scan'.next.files[p] /\ lines = scan'.lines
                      /\ base2 = based' \cup scan'.based
  BY SkipInvNext
<1>5. PICK c, base, lines : c = scan.next.files[p] /\ base = based \cup scan.based /\ lines = scan'.lines
  OBVIOUS
<1>6. Good(p, c, scan.lines, base)
  BY <1>5 DEF SkipInv
<1>7. Good(p, c, {}, base)'
  <2>1. CursorOK(p, c)'
    BY <1>2, <1>6 DEF Good, CursorOK, Own, Size, Prefix, Begun, LineNumbers
  <2>2. ASSUME NEW k \in 1..Len(log[p].lines), Accounted(log[p].lines[k], scan.lines, base)
        PROVE  \/ counted'[log[p].lines[k]] > 0 \/ log[p].lines[k] \in base
               \/ Text(log[p].lines[k]).kind = "long"
    <3>1. log[p].lines[k] \in Ids
      BY SizeType
    <3>2. ASSUME NEW e \in scan.lines, e.line = log[p].lines[k], e.whole, e.path # JournalPath
          PROVE  log[p].lines[k] \in Applied
      BY <3>2 DEF Applied
    <3> QED BY <1>4, <2>2, <3>1, <3>2 DEF Accounted
  <2>3. Covered(p, c, scan.lines, base)
    BY <1>6 DEF Good
  <2>4. Covered(p, c, {}, base)'
    BY <1>2, <2>2, <2>3 DEF Covered, Accounted, Own, Text
  <2> QED BY <2>1, <2>4 DEF Good
<1>8. PICK d, base2 : d = NoCursor /\ base2 = base
  OBVIOUS
<1>9. Good(p, d, lines, base2)'
  <2>1. d.prefix.lines = {} /\ d.prefix.bytes = 0
    BY <1>8 DEF NoCursor, NoPrefix
  <2> QED BY <2>1 DEF Good, CursorOK, Covered, Own
<1>10. d = scan'.next.files[p] /\ base2 = based' \cup scan'.based
  BY <1>1, <1>5, <1>8 DEF NoScan, NewState
<1> QED BY <1>1, <1>5, <1>7, <1>9, <1>10

LEMMA NextSizeType ==
    ASSUME Base', NEW p \in Paths
    PROVE  /\ log'[p].lines \in Seq(Ids) /\ Len(log'[p].lines) \in Nat /\ Size(p)' \in Nat
<1>1. log'[p] \in Log /\ (log'[p].half => log'[p].lines # <<>>)
  BY DEF Base, SSHTypeOK, LogInv, Log, Ids
<1>2. log'[p].lines \in Seq(Ids) /\ log'[p].half \in BOOLEAN
  BY <1>1 DEF Log
<1>3. Len(log'[p].lines) \in Nat /\ (log'[p].lines = <<>> <=> Len(log'[p].lines) = 0)
  BY <1>2
<1>4. Size(p)' = 2 * Len(log'[p].lines) - (IF log'[p].half THEN 1 ELSE 0)
  BY DEF Size
<1> QED BY <1>1, <1>2, <1>3, <1>4

(* A log that grows is still the one of the cursor, or is still not. *)
LEMMA GrownFacts ==
    ASSUME Base, Base', NEW p \in Paths, Grown(p)
    PROVE  /\ \A k \in 1..Len(log[p].lines) : k \in 1..Len(log'[p].lines) /\ log'[p].lines[k] = log[p].lines[k]
           /\ \A k \in 1..Len(log'[p].lines) : 2 * k - 1 <= Size(p) \/ 2 * k <= Size(p) =>
                 k \in 1..Len(log[p].lines)
           /\ \A k \in 1..Len(log'[p].lines) :
                 k \in 1..Len(log[p].lines) \/ log'[p].lines[k] \notin LineNumbers
<1>1. /\ Len(log[p].lines) \in Nat /\ Size(p) \in Nat
  BY SizeType
<1>2. Len(log'[p].lines) \in Nat
  BY NextSizeType
<1>3. Len(log[p].lines) <= Len(log'[p].lines)
  BY DEF Grown
<1>4. \A k \in 1..Len(log[p].lines) : k \in 1..Len(log'[p].lines) /\ log'[p].lines[k] = log[p].lines[k]
  BY <1>1, <1>2, <1>3 DEF Grown
<1>5. \A k \in 1..Len(log'[p].lines) : k \in 1..Len(log[p].lines) \/ k > Len(log[p].lines)
  BY <1>1, <1>2
<1>6. \A k \in 1..Len(log'[p].lines) : k > Len(log[p].lines) =>
          log'[p].lines[k] \notin LineNumbers /\ ~(2 * k - 1 <= Size(p)) /\ ~(2 * k <= Size(p))
  <2> TAKE k \in 1..Len(log'[p].lines)
  <2> HAVE k > Len(log[p].lines)
  <2>1. log'[p].lines[k] \notin LineNumbers /\ 2 * k - 1 > Size(p) /\ k \in Nat
    BY <1>2 DEF Grown
  <2> QED BY <1>1, <2>1
<1> QED BY <1>4, <1>5, <1>6

LEMMA GrownOwn ==
    ASSUME Base, Base', NEW p \in Paths, Grown(p), NEW c, c.prefix.lines \subseteq LineNumbers
    PROVE  /\ Own(p, c)' <=> Own(p, c)
           /\ \A n \in Nat : n <= Size(p) => Prefix(p, n)' = Prefix(p, n)
<1>1. /\ Len(log[p].lines) \in Nat /\ Size(p) \in Nat /\ log[p].lines \in Seq(Ids)
  BY SizeType
<1>2. Len(log'[p].lines) \in Nat /\ log'[p].lines \in Seq(Ids)
  BY NextSizeType
<1>3. /\ \A k \in 1..Len(log[p].lines) : k \in 1..Len(log'[p].lines) /\ log'[p].lines[k] = log[p].lines[k]
      /\ \A k \in 1..Len(log'[p].lines) : 2 * k - 1 <= Size(p) => k \in 1..Len(log[p].lines)
      /\ \A k \in 1..Len(log'[p].lines) : k \in 1..Len(log[p].lines) \/ log'[p].lines[k] \notin LineNumbers
  BY GrownFacts
<1>4. Own(p, c)' <=> Own(p, c)
  <2>1. log[p].lines # <<>> <=> 1 \in 1..Len(log[p].lines)
    BY <1>1
  <2>2. log'[p].lines # <<>> <=> 1 \in 1..Len(log'[p].lines)
    BY <1>2
  <2> QED BY <1>3, <2>1, <2>2 DEF Own
<1>5. ASSUME NEW n \in Nat, n <= Size(p) PROVE Prefix(p, n)' = Prefix(p, n)
  <2>1. {k \in 1..Len(log'[p].lines) : 2 * k - 1 <= n} = {k \in 1..Len(log[p].lines) : 2 * k - 1 <= n}
    <3>1. \A k \in 1..Len(log'[p].lines) : 2 * k - 1 <= n => 2 * k - 1 <= Size(p)
      BY <1>1, <1>2, <1>5
    <3> QED BY <1>3, <3>1
  <2>2. Begun(p, n)' = Begun(p, n)
    BY <1>3, <2>1 DEF Begun
  <2> QED BY <2>2 DEF Prefix
<1> QED BY <1>4, <1>5

LEMMA HostGood ==
    ASSUME Base, Base', HostStep, NEW p \in Paths, NEW c \in Cursor, NEW lines, NEW base,
           Good(p, c, lines, base)
    PROVE  Good(p, c, lines, base)'
<1>1. /\ LineNumbers \subseteq LineNumbers' /\ \A i \in LineNumbers : written'[i] = written[i]
      /\ counted' = counted
  BY DEF HostStep, history
<1>2. /\ c.prefix.lines \subseteq LineNumbers
      /\ c.prefix.bytes = 0 <=> c.prefix.lines = {}
      /\ c.prefix.bytes > 0 => c.exists
      /\ Own(p, c) => /\ c.prefix.bytes <= Size(p) /\ c.offset <= Size(p)
                      /\ c.prefix = Prefix(p, c.prefix.bytes)
  BY DEF Good, CursorOK
<1>3. Covered(p, c, lines, base)
  BY DEF Good
<1>4. CASE log'[p].lines = <<>>
  BY <1>1, <1>2, <1>4 DEF Good, CursorOK, Covered, Own
<1>5. CASE Grown(p)
  <2>1. c.prefix.bytes \in Nat /\ c.offset \in Nat
    BY DEF Cursor
  <2>2. Own(p, c)' <=> Own(p, c)
    BY <1>2, <1>5, GrownOwn
  <2>3. \A n \in Nat : n <= Size(p) => Prefix(p, n)' = Prefix(p, n)
    BY <1>2, <1>5, GrownOwn
  <2>4. Size(p) \in Nat /\ Size(p)' \in Nat /\ Size(p) <= Size(p)'
    <3>1. Size(p)' \in Nat
      BY NextSizeType
    <3> QED BY <1>5, <3>1, SizeType DEF Grown
  <2>5. CursorOK(p, c)'
    <3>1. Own(p, c) => c.prefix.bytes <= Size(p)' /\ c.offset <= Size(p)'
      BY <1>2, <2>1, <2>4
    <3>2. Own(p, c) => c.prefix = Prefix(p, c.prefix.bytes)'
      BY <1>2, <2>1, <2>3
    <3> QED BY <1>1, <1>2, <2>2, <3>1, <3>2 DEF CursorOK
  <2>6. ASSUME Own(p, c), NEW k \in 1..Len(log'[p].lines)
        PROVE  /\ 2 * k <= c.offset => Accounted(log[p].lines[k], lines, base)
               /\ 2 * k - 1 = c.offset => log[p].lines[k] \in base
               /\ 2 * k <= c.offset \/ 2 * k - 1 = c.offset =>
                     log'[p].lines[k] = log[p].lines[k] /\ log[p].lines[k] \in LineNumbers
    <3>0. k \in Nat
      BY NextSizeType
    <3>1. 2 * k <= c.offset \/ 2 * k - 1 = c.offset => 2 * k <= Size(p) \/ 2 * k - 1 <= Size(p)
      <4>1. c.offset <= Size(p) /\ c.offset \in Nat /\ Size(p) \in Nat
        BY <1>2, <2>1, <2>4, <2>6
      <4> QED BY <3>0, <4>1
    <3>2. 2 * k <= c.offset \/ 2 * k - 1 = c.offset => k \in 1..Len(log[p].lines)
      BY <1>5, <3>1, GrownFacts
    <3>3. k \in 1..Len(log[p].lines) =>
             log'[p].lines[k] = log[p].lines[k] /\ log[p].lines[k] \in LineNumbers
      <4>1. k \in 1..Len(log[p].lines) => log'[p].lines[k] = log[p].lines[k]
        BY <1>5, GrownFacts
      <4>2. k \in 1..Len(log[p].lines) => log[p].lines[k] \in LineNumbers
        BY DEF Base, LogInv
      <4> QED BY <4>1, <4>2
    <3> QED BY <1>3, <2>6, <3>2, <3>3 DEF Covered
  <2>7. \A i \in LineNumbers : Accounted(i, lines, base) => Accounted(i, lines, base)'
    BY <1>1 DEF Accounted, Text
  <2>8. Covered(p, c, lines, base)'
    <3> SUFFICES ASSUME Own(p, c), NEW k \in 1..Len(log'[p].lines)
                 PROVE  /\ 2 * k <= c.offset => Accounted(log[p].lines[k], lines, base)'
                        /\ 2 * k - 1 = c.offset => log'[p].lines[k] \in base
      BY <2>2 DEF Covered
    <3>1. PICK i : i = log[p].lines[k]
      OBVIOUS
    <3>2. 2 * k <= c.offset => Accounted(i, lines, base)' /\ log'[p].lines[k] = i
      BY <2>6, <2>7, <3>1
    <3>3. 2 * k <= c.offset => Accounted(log[p].lines[k], lines, base)'
      BY <3>2 DEF Accounted, Text
    <3> QED BY <2>6, <3>3
  <2> QED BY <2>5, <2>8 DEF Good
<1> QED BY <1>4, <1>5 DEF HostStep

LEMMA HostSkip ==
    ASSUME Base, SkipInv, Host
    PROVE  SkipInv'
<1>1. Base' /\ HostStep
  BY HostEffect
<1>2. UNCHANGED <<state, scan, based>>
  BY <1>1 DEF HostStep, history
<1> SUFFICES ASSUME NEW p \in Paths
             PROVE  \E c, d, lines, base, base2 :
                      /\ Good(p, c, {}, base)' /\ c = state'.files[p] /\ base = based'
                      /\ Good(p, d, lines, base2)' /\ d = scan'.next.files[p] /\ lines = scan'.lines
                      /\ base2 = based' \cup scan'.based
  BY SkipInvNext
<1>3. PICK c, d, lines, base, base2 :
          /\ c = state.files[p] /\ d = scan.next.files[p] /\ lines = scan.lines
          /\ base = based /\ base2 = based \cup scan.based
  OBVIOUS
<1>4. Good(p, c, {}, base) /\ Good(p, d, lines, base2) /\ c \in Cursor /\ d \in Cursor
  BY <1>3, StateType DEF SkipInv
<1>5. Good(p, c, {}, base)' /\ Good(p, d, lines, base2)'
  BY <1>1, <1>4, HostGood
<1> QED BY <1>2, <1>3, <1>5

LEMMA SkipInvInit ==
    ASSUME Init
    PROVE  SkipInv
<1>1. \A p \in Paths : state.files[p] = NoCursor /\ scan.next.files[p] = NoCursor
  <2>1. state.files = NewState.files
    <3>1. CASE state = NewState
      BY <3>1
    <3>2. ASSUME NEW i \in IPs,
                 state = [NewState EXCEPT !.saved = TRUE, !.failures[i] = << 0 >>, !.tried[i] = << 0 >>]
          PROVE  state.files = NewState.files
      BY <3>2 DEF NewState
    <3> QED BY <3>1, <3>2 DEF Init
  <2>2. scan = NoScan
    BY DEF Init
  <2> QED BY <2>1, <2>2 DEF NoScan, NewState
<1> QED BY <1>1, NoCursorGood DEF SkipInv

LEMMA SkipInvStep ==
    ASSUME Base, SkipInv, [Next]_vars
    PROVE  SkipInv'
<1>1. CASE UNCHANGED vars
  <2>1. Still /\ UNCHANGED <<state, scan>>
    BY <1>1 DEF vars, Still
  <2> QED BY <2>1, SameFilesSkip
<1>2. CASE StartScan
  BY <1>2, StartSkip
<1>3. CASE ReadJournal
  <2>1. /\ scan'.next.files = scan.next.files /\ scan.lines \subseteq scan'.lines /\ scan'.based = scan.based
        /\ UNCHANGED <<log, written, state, history>>
    BY <1>3, JournalEffect
  <2>2. Still
    BY <2>1 DEF Still, history
  <2> QED BY <2>1, <2>2, SameFilesSkip
<1>4. CASE Finish
  <2>1. /\ scan'.next.files = scan.next.files /\ scan'.lines = scan.lines /\ scan'.based = scan.based
        /\ UNCHANGED <<env, state, history>>
    BY <1>4, FinishEffect
  <2>2. Still
    BY <2>1 DEF Still, env, history
  <2> QED BY <2>1, <2>2, SameFilesSkip
<1>5. CASE Enqueue
  <2>1. /\ scan'.next = scan.next /\ scan'.lines = scan.lines /\ scan'.based = scan.based
        /\ UNCHANGED <<env, state, counted, settled, based>>
    BY <1>5, EnqueueEffect
  <2>2. Still
    BY <2>1 DEF Still, env
  <2> QED BY <2>1, <2>2, SameFilesSkip
<1>6. CASE Commit
  BY <1>6, CommitSkip
<1>7. CASE CommitRefused \/ Abandon
  BY <1>7, ForgetSkip
<1>8. ASSUME NEW p \in Paths, ReadStep(p) PROVE SkipInv'
  BY <1>8, KeepSkip, LookSkip, ReadSkip DEF ReadStep
<1>9. ASSUME NEW e \in scan.todo, ApplyStep(e) PROVE SkipInv'
  <2>1. /\ scan'.next.files = scan.next.files /\ scan'.lines = scan.lines /\ scan'.based = scan.based
        /\ UNCHANGED <<env, state, history>>
    <3>1. CASE SkipLine(e)
      BY <3>1, SkipEffect DEF RecordStep
    <3>2. CASE ApplySuccess(e)
      <4>1. PICK ip \in IPs, event \in Event : RecordStep(e, Forgiven(scan.next, ip), Append(scan.events, event))
        BY <3>2, SuccessEffect
      <4>2. Forgiven(scan.next, ip).files = scan.next.files
        BY StateType, ForgivenFacts
      <4> QED BY <4>1, <4>2 DEF RecordStep
    <3>3. CASE ApplyFailure(e)
      <4>1. PICK ip \in IPs, t \in DetectorState, events \in Seq(Event) :
                RecordStep(e, t, events) /\ Failed(t, ip, events)
        BY <3>3, FailureEffect
      <4>2. t.files = scan.next.files
        BY <4>1 DEF Failed
      <4> QED BY <4>1, <4>2 DEF RecordStep
    <3> QED BY <1>9, <3>1, <3>2, <3>3 DEF ApplyStep
  <2>2. Still
    BY <2>1 DEF Still, env, history
  <2> QED BY <2>1, <2>2, SameFilesSkip
<1>10. CASE Host
  BY <1>10, HostSkip
<1>11. CASE Tick
  <2>1. state'.files = state.files /\ UNCHANGED <<env, scan, counted, settled, based>>
    BY <1>11, TickEffect
  <2>2. Still
    BY <2>1 DEF Still, env
  <2> QED BY <2>1, <2>2, SameFilesSkip
<1> QED BY <1>1, <1>2, <1>3, <1>4, <1>5, <1>6, <1>7, <1>8, <1>9, <1>10, <1>11 DEF Next, ScanStep, ScanRefused

LEMMA SkipInvImplies ==
    ASSUME Base, SkipInv
    PROVE  NothingSkipped
<1> SUFFICES ASSUME NEW p \in Paths, Known(p), NEW k \in 1..Len(log[p].lines),
                    2 * k <= state.files[p].offset
             PROVE  \/ counted[log[p].lines[k]] > 0 \/ log[p].lines[k] \in based
                    \/ Text(log[p].lines[k]).kind = "long"
  BY DEF NothingSkipped
<1> DEFINE c == state.files[p]
<1>1. /\ c.prefix.bytes > 0 /\ Size(p) >= c.prefix.bytes /\ Prefix(p, c.prefix.bytes) = c.prefix
  BY DEF Known
<1>2. c.prefix.bytes \in Nat /\ Size(p) \in Nat
  BY StateType, SizeType DEF Cursor
<1>3. log[p].lines # <<>>
  BY <1>1, <1>2, SizeType
<1>4. c.prefix.lines = Begun(p, c.prefix.bytes)
  BY <1>1 DEF Prefix
<1>5. Own(p, c)
  <2> HIDE DEF c
  <2> QED BY <1>1, <1>2, <1>3, <1>4, BegunType DEF Own
<1>6. Covered(p, c, {}, based)
  BY DEF SkipInv, Good
<1>7. Accounted(log[p].lines[k], {}, based)
  BY <1>5, <1>6 DEF Covered
<1> QED BY <1>7 DEF Accounted

(* No committed cursor has passed a line that was not counted, for any     *)
(* number of logs and lines and any limit of a read: what readPath and     *)
(* Commit do to a cursor loses no line to a partial write, a rotation      *)
(* between its look and its read, a limit or a cycle that fails.           *)
THEOREM SSHNothingSkipped == Spec => []NothingSkipped
<1>1. Init => Base /\ SkipInv
  BY BaseInit, SkipInvInit
<1>2. Base /\ SkipInv /\ [Next]_vars => (Base /\ SkipInv)'
  BY BaseStep, SkipInvStep
<1>3. Base /\ SkipInv => NothingSkipped
  BY SkipInvImplies
<1> QED BY <1>1, <1>2, <1>3, PTL DEF Spec

----------------------------------------------------------------------------
(* The cursor of a log that was neither replaced nor absent is its own,    *)
(* and a line behind which it is not yet was not counted.                  *)
Once(p, c, lines) ==
    /\ c.prefix.bytes > 0 => Own(p, c)
    /\ \A k \in 1..Len(log[p].lines) : c.prefix.bytes = 0 \/ 2 * k > c.offset =>
          counted[log[p].lines[k]] = 0 /\ \A e \in lines : e.path = p => e.line # log[p].lines[k]

OnceAt(p) ==
    /\ log[p].access # "absent"
    /\ \A k \in 1..Len(log[p].lines) : counted[log[p].lines[k]] <= 1
    /\ Once(p, state.files[p], {})
    /\ scan.pc # "idle" => Once(p, scan.next.files[p], scan.lines)
    /\ \A e \in scan.lines : e.path = p => counted[e.line] = 0

OnceInv ==
    /\ ~state.saved => \A p \in Paths : state.files[p].prefix.bytes = 0
    /\ \A p \in Paths \ upset : OnceAt(p)

(* A scan that has not come to a log has no line of it, one that is at it  *)
(* neither.                                                                *)
LEMMA NoneYet ==
    ASSUME Base, NEW p \in Paths, scan.pc \in {"look", "read"}, scan.path = p
    PROVE  \A e \in scan.lines : e.path # p
<1>1. \A e \in scan.lines : e.path \in 1..(p - 1)
  BY DEF Base, EntryInv
<1>2. p \in Nat
  BY SSHAuthAssumption DEF Paths
<1> QED BY <1>1, <1>2

LEMMA CursorStepOnce ==
    ASSUME Base, OnceInv, NEW p \in Paths, NEW c \in Cursor, NEW new, NEW passed,
           CursorStep(p, c, new, passed), upset \subseteq upset',
           \A e \in new : e.path = p,
           p \notin upset' => Once(p, c, scan.lines \cup new) /\ \A e \in new : counted[e.line] = 0
    PROVE  OnceInv'
<1>1. /\ UNCHANGED <<log, counted>> /\ state' = state /\ scan'.next = Moved(p, c)
      /\ scan'.lines = scan.lines \cup new /\ scan.pc # "idle"
  BY DEF CursorStep, history
<1>2. Moved(p, c).files = [scan.next.files EXCEPT ![p] = c] /\ scan.next.files \in [Paths -> Cursor]
  BY StateType DEF Moved, DetectorState
<1>3. ASSUME NEW q \in Paths \ upset' PROVE OnceAt(q)'
  <2>1. /\ log[q].access # "absent"
        /\ \A k \in 1..Len(log[q].lines) : counted[log[q].lines[k]] <= 1
        /\ Once(q, state.files[q], {})
        /\ Once(q, scan.next.files[q], scan.lines)
        /\ \A e \in scan.lines : e.path = q => counted[e.line] = 0
    BY <1>1 DEF OnceInv, OnceAt
  <2>2. CASE q = p
    <3>1. scan'.next.files[q] = c
      BY <1>1, <1>2, <2>2
    <3>2. Once(q, scan.next.files[q], scan.lines)'
      BY <1>1, <2>2, <3>1 DEF Once, Own
    <3>3. Once(q, state.files[q], {})'
      BY <1>1, <2>1 DEF Once, Own
    <3>4. \A e \in scan'.lines : e.path = q => counted'[e.line] = 0
      BY <1>1, <2>1, <2>2
    <3> QED BY <1>1, <2>1, <3>2, <3>3, <3>4 DEF OnceAt
  <2>3. CASE q # p
    <3>1. scan'.next.files[q] = scan.next.files[q] /\ \A e \in new : e.path # q
      BY <1>1, <1>2, <2>3
    <3>2. Once(q, scan.next.files[q], scan.lines)'
      BY <1>1, <2>1, <3>1 DEF Once, Own
    <3>3. Once(q, state.files[q], {})'
      BY <1>1, <2>1 DEF Once, Own
    <3>4. \A e \in scan'.lines : e.path = q => counted'[e.line] = 0
      BY <1>1, <2>1, <3>1
    <3> QED BY <1>1, <2>1, <3>2, <3>3, <3>4 DEF OnceAt
  <2> QED BY <2>2, <2>3
<1>4. ~state'.saved => \A q \in Paths : state'.files[q].prefix.bytes = 0
  BY <1>1 DEF OnceInv
<1> QED BY <1>3, <1>4 DEF OnceInv

LEMMA KeepOnce ==
    ASSUME Base, SkipInv, OnceInv, NEW p \in Paths, LookPast(p) \/ LookUnreadable(p) \/ ReadFails(p)
    PROVE  OnceInv'
<1>1. PICK c \in {state.files[p], NoCursor} :
          /\ CursorStep(p, c, {}, {}) /\ c \in Cursor /\ upset' = upset
          /\ c = NoCursor => c = state.files[p] \/ log[p].access = "absent"
  BY KeepEffect
<1>2. \A e \in scan.lines : e.path # p
  BY <1>1, NoneYet DEF CursorStep
<1>3. ASSUME p \notin upset' PROVE Once(p, c, scan.lines \cup {})
  <2>1. log[p].access # "absent" /\ Once(p, state.files[p], {})
    BY <1>1, <1>3 DEF OnceInv, OnceAt
  <2>2. c = state.files[p]
    BY <1>1, <2>1
  <2> QED BY <1>2, <2>1, <2>2 DEF Once
<1> QED BY <1>1, <1>3, CursorStepOnce

LEMMA LookOnce ==
    ASSUME Base, SkipInv, OnceInv, NEW p \in Paths, Look(p)
    PROVE  OnceInv'
<1> DEFINE passed == IF state.saved THEN {} ELSE Begun(p, Size(p))
           old == state.files[p]
<1>1. PICK c \in Cursor : CursorStep(p, c, {}, passed) /\ Looked(p, c) /\ upset' = upset
  BY LookEffect
<1>2. c.offset \in Nat /\ c.prefix.bytes \in Nat /\ Size(p) \in Nat
  BY SizeType DEF Cursor
<1>3. \A e \in scan.lines : e.path # p
  BY <1>1, NoneYet DEF CursorStep
<1>4. /\ c.prefix = Prefix(p, c.prefix.bytes) /\ c.prefix.bytes <= Size(p)
      /\ Size(p) > 0 => c.prefix.bytes > 0
  BY <1>1 DEF Looked
<1>5. c.prefix.bytes > 0 => Own(p, c)
  <2>1. c.prefix.bytes > 0 => log[p].lines # <<>>
    BY <1>2, <1>4, SizeType
  <2>2. c.prefix.bytes > 0 => log[p].lines[1] \in Begun(p, c.prefix.bytes)
    BY <1>2, <2>1, BegunType
  <2>3. c.prefix.lines = Begun(p, c.prefix.bytes)
    BY <1>4 DEF Prefix
  <2> QED BY <2>1, <2>2, <2>3 DEF Own
<1>6. c.prefix.bytes = 0 => log[p].lines = <<>>
  BY <1>2, <1>4, SizeType
<1>7. ASSUME p \notin upset' PROVE Once(p, c, scan.lines \cup {})
  <2>1. Once(p, old, {}) /\ (~state.saved => old.prefix.bytes = 0)
    BY <1>1, <1>7 DEF OnceInv, OnceAt
  <2>2. ASSUME NEW k \in 1..Len(log[p].lines), 2 * k > c.offset PROVE counted[log[p].lines[k]] = 0
    <3>1. CASE old.prefix.bytes = 0
      BY <2>1, <3>1 DEF Once
    <3>2. CASE old.prefix.bytes # 0
      <4>1. old.prefix.bytes > 0 /\ old.prefix.bytes \in Nat /\ old.offset \in Nat
        BY <3>2, StateType DEF Cursor
      <4>2. Own(p, old) /\ CursorOK(p, old)
        BY <2>1, <4>1 DEF Once, SkipInv, Good
      <4>3. /\ old.exists /\ old.prefix.bytes <= Size(p) /\ old.offset <= Size(p)
            /\ old.prefix = Prefix(p, old.prefix.bytes)
        BY <4>1, <4>2 DEF CursorOK
      <4>4. PrefixBytes(p) = old.prefix.bytes
        BY <3>2, <4>3 DEF PrefixBytes
      <4>5. ~Replaced(p)
        BY <1>2, <4>1, <4>3, <4>4 DEF Replaced
      <4>6. state.saved
        BY <2>1, <3>2
      <4>7. c.offset = old.offset
        BY <1>1, <4>5, <4>6 DEF Looked
      <4> QED BY <2>1, <2>2, <4>7 DEF Once
    <3> QED BY <3>1, <3>2
  <2>3. \A k \in 1..Len(log[p].lines) : c.prefix.bytes # 0
    BY <1>6
  <2> QED BY <1>3, <1>5, <2>2, <2>3 DEF Once
<1> HIDE DEF passed
<1> QED BY <1>1, <1>7, CursorStepOnce

LEMMA ReadOnce ==
    ASSUME Base, SkipInv, OnceInv, NEW p \in Paths, Read(p)
    PROVE  OnceInv'
<1> DEFINE old == scan.next.files[p]
           got == readLines(p, old.offset, Remaining)
           c == [old EXCEPT !.offset = got.offset]
<1>1. /\ CursorStep(p, c, got.lines, {}) /\ old \in Cursor /\ c \in Cursor /\ scan.pc = "read"
      /\ c.prefix = old.prefix /\ c.offset = got.offset
      /\ upset' = IF old.prefix.bytes = 0 /\ got.lines # {} THEN upset \cup {p} ELSE upset
  BY ReadEffect
<1>2. old.offset \in Nat /\ Remaining \in Int
  BY <1>1, RemainingType DEF Cursor
<1>3. /\ got.offset \in Nat /\ old.offset <= got.offset
      /\ \A e \in got.lines :
            /\ e.path = p /\ e.at \in 1..Len(log[p].lines) /\ e.line = log[p].lines[e.at]
            /\ old.offset < 2 * e.at /\ 2 * e.at <= got.offset
  <2>1. Consumed(p, old.offset, got)
    BY <1>2, ReadLinesFacts
  <2> HIDE DEF got
  <2> QED BY <2>1 DEF Consumed
<1> DEFINE new == got.lines
<1>0. /\ new = got.lines /\ \A e \in new : e.path = p
  BY <1>3
<1> HIDE DEF old, got, c
<1>4. ASSUME p \notin upset'
      PROVE  Once(p, c, scan.lines \cup new) /\ \A e \in new : counted[e.line] = 0
  <2>1. Once(p, old, scan.lines)
    BY <1>1, <1>4 DEF OnceInv, OnceAt, old
  <2>2. old.prefix.bytes = 0 => new = {}
    BY <1>1, <1>4
  <2>3. ASSUME NEW e \in new PROVE counted[e.line] = 0
    <3>1. 2 * e.at > old.offset /\ e.at \in 1..Len(log[p].lines) /\ e.line = log[p].lines[e.at]
      <4>1. e.at \in Nat /\ old.offset < 2 * e.at
        BY <1>3, SizeType
      <4> QED BY <1>2, <1>3, <4>1
    <3> QED BY <2>1, <3>1 DEF Once
  <2>4. ASSUME NEW k \in 1..Len(log[p].lines), c.prefix.bytes = 0 \/ 2 * k > c.offset
        PROVE  /\ counted[log[p].lines[k]] = 0
               /\ \A e \in scan.lines \cup new : e.path = p => e.line # log[p].lines[k]
    <3>0. k \in Nat
      BY SizeType
    <3>1. old.prefix.bytes = 0 \/ 2 * k > old.offset
      BY <1>1, <1>2, <1>3, <2>4, <3>0
    <3>2. /\ counted[log[p].lines[k]] = 0
          /\ \A e \in scan.lines : e.path = p => e.line # log[p].lines[k]
      BY <2>1, <3>1 DEF Once
    <3>3. ASSUME NEW e \in new PROVE e.line # log[p].lines[k]
      <4>1. 2 * k > got.offset /\ 2 * e.at <= got.offset /\ e.at \in 1..Len(log[p].lines)
            /\ e.line = log[p].lines[e.at]
        BY <1>1, <1>3, <2>2, <2>4, <3>3
      <4>2. e.at \in Nat
        BY <4>1, SizeType
      <4>3. e.at < k
        BY <1>3, <3>0, <4>1, <4>2
      <4>4. log[p].lines[e.at] < log[p].lines[k]
        <5>1. \A i, j \in 1..Len(log[p].lines) : i < j => log[p].lines[i] < log[p].lines[j]
          BY DEF Base, LogInv
        <5> QED BY <4>1, <4>3, <5>1
      <4>5. log[p].lines[e.at] \in Nat /\ log[p].lines[k] \in Nat
        <5>1. log[p].lines[e.at] \in Ids /\ log[p].lines[k] \in Ids
          BY <4>1, SizeType
        <5> QED BY <5>1, SSHAuthAssumption DEF Ids
      <4> QED BY <4>1, <4>4, <4>5
    <3> QED BY <3>2, <3>3
  <2>5. c.prefix.bytes > 0 => Own(p, c)
    BY <1>1, <2>1 DEF Once, Own
  <2> QED BY <2>3, <2>4, <2>5 DEF Once
<1>5. upset \subseteq upset'
  BY <1>1
<1> HIDE DEF new
<1>6. CursorStep(p, c, new, {})
  BY <1>0, <1>1
<1> QED BY <1>0, <1>1, <1>4, <1>5, <1>6, CursorStepOnce

(* A step after the last read leaves the cursors alone. *)
LEMMA SameFilesOnce ==
    ASSUME Base, OnceInv, UNCHANGED <<log, counted>>, upset \subseteq upset',
           state'.files = state.files, state'.saved = state.saved,
           scan'.pc = "idle" \/ (scan.pc # "idle" /\ scan'.next.files = scan.next.files),
           \A e \in scan'.lines : e \in scan.lines \/ e.path = JournalPath
    PROVE  OnceInv'
<1>1. ASSUME NEW p \in Paths \ upset' PROVE OnceAt(p)'
  <2>1. /\ log[p].access # "absent"
        /\ \A k \in 1..Len(log[p].lines) : counted[log[p].lines[k]] <= 1
        /\ Once(p, state.files[p], {})
        /\ scan.pc # "idle" => Once(p, scan.next.files[p], scan.lines)
        /\ \A e \in scan.lines : e.path = p => counted[e.line] = 0
    BY DEF OnceInv, OnceAt
  <2>2. p # JournalPath
    BY SSHAuthAssumption DEF Paths, JournalPath
  <2>3. \A e \in scan'.lines : e.path = p => e \in scan.lines
    BY <2>2
  <2>4. Once(p, state.files[p], {})'
    BY <2>1 DEF Once, Own
  <2>5. scan'.pc # "idle" => Once(p, scan.next.files[p], scan.lines)'
    BY <2>1, <2>3 DEF Once, Own
  <2> QED BY <2>1, <2>3, <2>4, <2>5 DEF OnceAt
<1>2. ~state'.saved => \A q \in Paths : state'.files[q].prefix.bytes = 0
  BY DEF OnceInv
<1> QED BY <1>1, <1>2 DEF OnceInv

LEMMA StartOnce ==
    ASSUME Base, OnceInv, StartScan
    PROVE  OnceInv'
<1>1. /\ scan'.next = state /\ scan'.lines = {} /\ UNCHANGED <<env, state, history>>
  BY StartEffect
<1>2. ASSUME NEW p \in Paths \ upset' PROVE OnceAt(p)'
  <2>1. /\ log[p].access # "absent"
        /\ \A k \in 1..Len(log[p].lines) : counted[log[p].lines[k]] <= 1
        /\ Once(p, state.files[p], {})
    BY <1>1 DEF OnceInv, OnceAt, env
  <2>2. Once(p, state.files[p], {})' /\ Once(p, scan.next.files[p], scan.lines)'
    BY <1>1, <2>1 DEF Once, Own, env, history
  <2> QED BY <1>1, <2>1, <2>2 DEF OnceAt, env, history
<1> QED BY <1>1, <1>2 DEF OnceInv

(* A commit counts every line of the scan for the first time. *)
LEMMA CommitOnce ==
    ASSUME Base, OnceInv, Commit
    PROVE  OnceInv'
<1>1. /\ scan.pc = "report" /\ scan' = NoScan /\ state'.saved /\ state'.files = scan.next.files
      /\ \A i \in Ids : \/ i \notin Applied /\ counted'[i] = counted[i]
                        \/ i \in Applied /\ counted'[i] = AtMost(counted[i] + 1, 2)
      /\ UNCHANGED <<env, told>>
  BY CommitEffect
<1>2. UNCHANGED <<log, upset>> /\ scan'.lines = {} /\ scan'.pc = "idle"
  BY <1>1 DEF env, NoScan
<1>3. ASSUME NEW p \in Paths \ upset' PROVE OnceAt(p)'
  <2>1. /\ log[p].access # "absent"
        /\ \A k \in 1..Len(log[p].lines) : counted[log[p].lines[k]] <= 1
        /\ Once(p, scan.next.files[p], scan.lines)
        /\ \A e \in scan.lines : e.path = p => counted[e.line] = 0
    BY <1>1, <1>2 DEF OnceInv, OnceAt
  <2>2. \A k \in 1..Len(log[p].lines) : /\ log[p].lines[k] \in Ids
                                        /\ written[log[p].lines[k]].path = p
    <3>1. \A k \in 1..Len(log[p].lines) : log[p].lines[k] \in Ids
      BY SizeType
    <3>2. \A k \in 1..Len(log[p].lines) : written[log[p].lines[k]].path = p
      BY DEF Base, LogInv
    <3> QED BY <3>1, <3>2
  <2>3. ASSUME NEW k \in 1..Len(log[p].lines), log[p].lines[k] \in Applied
        PROVE  \E e \in scan.lines : e.path = p /\ e.line = log[p].lines[k]
    <3>1. PICK e \in scan.lines : e.line = log[p].lines[k] /\ e.path # JournalPath
      BY <2>3 DEF Applied
    <3>2. written[e.line].path = e.path
      BY <3>1 DEF Base, EntryInv
    <3> QED BY <2>2, <3>1, <3>2
  <2>4. \A k \in 1..Len(log[p].lines) : counted'[log[p].lines[k]] <= 1
    <3> TAKE k \in 1..Len(log[p].lines)
    <3>1. CASE log[p].lines[k] \in Applied
      <4>1. counted[log[p].lines[k]] = 0
        BY <2>1, <2>3, <3>1
      <4>2. counted'[log[p].lines[k]] = AtMost(0 + 1, 2)
        BY <1>1, <2>2, <3>1, <4>1
      <4> QED BY <4>2 DEF AtMost
    <3>2. CASE log[p].lines[k] \notin Applied
      BY <1>1, <2>1, <2>2, <3>2
    <3> QED BY <3>1, <3>2
  <2>5. Once(p, state.files[p], {})'
    <3>1. ASSUME NEW k \in 1..Len(log[p].lines),
                 scan.next.files[p].prefix.bytes = 0 \/ 2 * k > scan.next.files[p].offset
          PROVE  counted'[log[p].lines[k]] = 0
      <4>1. /\ counted[log[p].lines[k]] = 0
            /\ \A e \in scan.lines : e.path = p => e.line # log[p].lines[k]
        BY <2>1, <3>1 DEF Once
      <4>2. log[p].lines[k] \notin Applied
        BY <2>3, <4>1
      <4> QED BY <1>1, <2>2, <4>1, <4>2
    <3>2. scan.next.files[p].prefix.bytes > 0 => Own(p, scan.next.files[p])
      BY <2>1 DEF Once
    <3> QED BY <1>1, <1>2, <3>1, <3>2 DEF Once, Own
  <2> QED BY <1>2, <2>1, <2>4, <2>5 DEF OnceAt
<1> QED BY <1>1, <1>3 DEF OnceInv

(* A line that is new to a log was not counted and is in no scan. *)
LEMMA HostOnce ==
    ASSUME Base, SkipInv, OnceInv, Host
    PROVE  OnceInv'
<1>1. Base' /\ HostStep
  BY HostEffect
<1>2. UNCHANGED <<state, scan, counted>> /\ upset \subseteq upset'
  BY <1>1 DEF HostStep, history
<1>3. ASSUME NEW p \in Paths \ upset' PROVE OnceAt(p)'
  <2>1. /\ log[p].access # "absent"
        /\ \A k \in 1..Len(log[p].lines) : counted[log[p].lines[k]] <= 1
        /\ Once(p, state.files[p], {})
        /\ scan.pc # "idle" => Once(p, scan.next.files[p], scan.lines)
        /\ \A e \in scan.lines : e.path = p => counted[e.line] = 0
    BY <1>2 DEF OnceInv, OnceAt
  <2>2. Grown(p)
    BY <1>1 DEF HostStep
  <2>3. log'[p].access # "absent"
    BY <2>1, <2>2 DEF Grown
  <2>4. \A k \in 1..Len(log'[p].lines) :
            \/ k \in 1..Len(log[p].lines) /\ log'[p].lines[k] = log[p].lines[k]
            \/ counted[log'[p].lines[k]] = 0 /\ \A e \in scan.lines : e.line # log'[p].lines[k]
    <3> TAKE k \in 1..Len(log'[p].lines)
    <3>1. CASE k \in 1..Len(log[p].lines)
      BY <1>1, <2>2, <3>1, GrownFacts
    <3>2. CASE k \notin 1..Len(log[p].lines)
      <4>1. log'[p].lines[k] \notin LineNumbers
        BY <1>1, <2>2, <3>2, GrownFacts
      <4>2. log'[p].lines[k] \in Ids
        BY <1>1, NextSizeType
      <4>3. counted[log'[p].lines[k]] \in 0..2 /\ ~(counted[log'[p].lines[k]] > 0)
        BY <4>1, <4>2 DEF Base, SSHTypeOK, LogInv
      <4>4. \A e \in scan.lines : e.line \in LineNumbers
        BY DEF Base, EntryInv
      <4> QED BY <4>1, <4>3, <4>4
    <3> QED BY <3>1, <3>2
  <2>5. ASSUME NEW c, c.prefix.lines \subseteq LineNumbers, NEW lines \in SUBSET scan.lines, Once(p, c, lines)
        PROVE  Once(p, c, lines)'
    <3>1. Own(p, c)' <=> Own(p, c)
      BY <1>1, <2>2, <2>5, GrownOwn
    <3> QED BY <1>2, <2>4, <2>5, <3>1 DEF Once
  <2>6. state.files[p].prefix.lines \subseteq LineNumbers /\ scan.next.files[p].prefix.lines \subseteq LineNumbers
    BY DEF SkipInv, Good, CursorOK
  <2>7. Once(p, state.files[p], {})'
    <3>1. PICK c : c = state.files[p]
      OBVIOUS
    <3>2. Once(p, c, {})'
      BY <2>1, <2>5, <2>6, <3>1
    <3> QED BY <1>2, <3>1, <3>2 DEF Once, Own
  <2>8. scan.pc # "idle" => Once(p, scan.next.files[p], scan.lines)'
    <3>1. PICK c, lines : c = scan.next.files[p] /\ lines = scan.lines
      OBVIOUS
    <3>2. scan.pc # "idle" => Once(p, c, lines)'
      BY <2>1, <2>5, <2>6, <3>1
    <3> QED BY <1>2, <3>1, <3>2 DEF Once, Own
  <2>9. \A k \in 1..Len(log'[p].lines) : counted'[log'[p].lines[k]] <= 1
    BY <1>2, <2>1, <2>4
  <2> QED BY <1>2, <2>1, <2>3, <2>7, <2>8, <2>9 DEF OnceAt
<1> QED BY <1>2, <1>3 DEF OnceInv

LEMMA OnceInvInit ==
    ASSUME Init
    PROVE  OnceInv
<1>1. \A p \in Paths : state.files[p] = NoCursor
  <2>1. state.files = NewState.files
    <3>1. CASE state = NewState
      BY <3>1
    <3>2. ASSUME NEW i \in IPs,
                 state = [NewState EXCEPT !.saved = TRUE, !.failures[i] = << 0 >>, !.tried[i] = << 0 >>]
          PROVE  state.files = NewState.files
      BY <3>2 DEF NewState
    <3> QED BY <3>1, <3>2 DEF Init
  <2> QED BY <2>1 DEF NewState
<1>2. /\ log = [p \in Paths |-> [access |-> "ok", lines |-> <<>>, half |-> FALSE]] /\ scan = NoScan
  BY DEF Init
<1>3. \A p \in Paths : log[p].lines = <<>> /\ log[p].access = "ok"
  BY <1>2
<1>4. scan.pc = "idle" /\ scan.lines = {}
  BY <1>2 DEF NoScan
<1>5. NoCursor.prefix.bytes = 0
  BY DEF NoCursor, NoPrefix
<1>6. ASSUME NEW p \in Paths PROVE OnceAt(p)
  <2>1. \A k \in 1..Len(log[p].lines) : FALSE
    BY <1>3
  <2> QED BY <1>1, <1>3, <1>4, <1>5, <2>1 DEF OnceAt, Once
<1> QED BY <1>1, <1>5, <1>6 DEF OnceInv

LEMMA OnceInvStep ==
    ASSUME Base, SkipInv, OnceInv, [Next]_vars
    PROVE  OnceInv'
<1>1. CASE UNCHANGED vars
  <2>1. UNCHANGED <<log, counted, upset, state, scan>>
    BY <1>1 DEF vars
  <2> QED BY <2>1, SameFilesOnce
<1>2. CASE StartScan
  BY <1>2, StartOnce
<1>3. CASE ReadJournal
  <2>1. PICK new \in SUBSET Entry :
            /\ \A e \in new : e.path = JournalPath
            /\ scan.pc = "look" /\ scan'.lines = scan.lines \cup new /\ scan'.next.files = scan.next.files
            /\ UNCHANGED <<log, upset, state, history>>
    BY <1>3, JournalEffect
  <2>2. \A e \in scan'.lines : e \in scan.lines \/ e.path = JournalPath
    BY <2>1
  <2> QED BY <2>1, <2>2, SameFilesOnce DEF history
<1>4. CASE Finish
  <2>1. /\ scan.pc = "apply" /\ scan'.next.files = scan.next.files /\ scan'.lines = scan.lines
        /\ UNCHANGED <<env, state, history>>
    BY <1>4, FinishEffect
  <2> QED BY <2>1, SameFilesOnce DEF env, history
<1>5. CASE Enqueue
  <2>1. /\ scan.pc = "report" /\ scan'.next = scan.next /\ scan'.lines = scan.lines
        /\ UNCHANGED <<env, state, counted, settled, based>>
    BY <1>5, EnqueueEffect
  <2> QED BY <2>1, SameFilesOnce DEF env
<1>6. CASE Commit
  BY <1>6, CommitOnce
<1>7. CASE CommitRefused \/ Abandon
  <2>1. scan' = NoScan /\ UNCHANGED <<log, written, journal, upset, state, history>>
    BY <1>7, ForgetEffect
  <2>2. scan'.pc = "idle" /\ scan'.lines = {}
    BY <2>1 DEF NoScan
  <2>3. UNCHANGED <<log, counted, upset, state>>
    BY <2>1 DEF history
  <2>4. \A e \in scan'.lines : e \in scan.lines \/ e.path = JournalPath
    BY <2>2
  <2>5. /\ UNCHANGED <<log, counted>> /\ upset \subseteq upset'
        /\ state'.files = state.files /\ state'.saved = state.saved
    BY <2>3
  <2>6. scan'.pc = "idle" \/ (scan.pc # "idle" /\ scan'.next.files = scan.next.files)
    BY <2>2
  <2> QED BY <2>4, <2>5, <2>6, SameFilesOnce
<1>8. ASSUME NEW p \in Paths, ReadStep(p) PROVE OnceInv'
  BY <1>8, KeepOnce, LookOnce, ReadOnce DEF ReadStep
<1>9. ASSUME NEW e \in scan.todo, ApplyStep(e) PROVE OnceInv'
  <2>1. /\ scan.pc = "apply" /\ scan'.next.files = scan.next.files /\ scan'.lines = scan.lines
        /\ UNCHANGED <<env, state, history>>
    <3>1. CASE SkipLine(e)
      BY <3>1, SkipEffect DEF RecordStep
    <3>2. CASE ApplySuccess(e)
      <4>1. PICK ip \in IPs, event \in Event : RecordStep(e, Forgiven(scan.next, ip), Append(scan.events, event))
        BY <3>2, SuccessEffect
      <4>2. Forgiven(scan.next, ip).files = scan.next.files
        BY StateType, ForgivenFacts
      <4> QED BY <4>1, <4>2 DEF RecordStep
    <3>3. CASE ApplyFailure(e)
      <4>1. PICK ip \in IPs, t \in DetectorState, events \in Seq(Event) :
                RecordStep(e, t, events) /\ Failed(t, ip, events)
        BY <3>3, FailureEffect
      <4>2. t.files = scan.next.files
        BY <4>1 DEF Failed
      <4> QED BY <4>1, <4>2 DEF RecordStep
    <3> QED BY <1>9, <3>1, <3>2, <3>3 DEF ApplyStep
  <2> QED BY <2>1, SameFilesOnce DEF env, history
<1>10. CASE Host
  BY <1>10, HostOnce
<1>11. CASE Tick
  <2>1. /\ scan.pc = "idle" /\ state'.saved = state.saved /\ state'.files = state.files
        /\ UNCHANGED <<env, scan, counted, settled, based>>
    BY <1>11, TickEffect
  <2>2. \A e \in scan'.lines : e \in scan.lines
    BY <2>1
  <2>3. UNCHANGED <<log, counted, upset>> /\ scan'.pc = "idle"
    BY <2>1 DEF env
  <2> QED BY <2>1, <2>2, <2>3, SameFilesOnce
<1> QED BY <1>1, <1>2, <1>3, <1>4, <1>5, <1>6, <1>7, <1>8, <1>9, <1>10, <1>11 DEF Next, ScanStep, ScanRefused

(* A line is counted a second time only where a log was replaced, absent   *)
(* or read without a prefix to know it by: the cursors of readPath and the *)
(* order of Commit and Scan repeat none for a failed cycle or a limit.     *)
THEOREM SSHCountedTwiceExplained == Spec => []CountedTwiceExplained
<1>1. Init => Base /\ SkipInv /\ OnceInv
  BY BaseInit, SkipInvInit, OnceInvInit
<1>2. Base /\ SkipInv /\ OnceInv /\ [Next]_vars => (Base /\ SkipInv /\ OnceInv)'
  BY BaseStep, SkipInvStep, OnceInvStep
<1>3. Base /\ OnceInv => CountedTwiceExplained
  <2> SUFFICES ASSUME Base, OnceInv, NEW p \in Paths \ upset, NEW k \in 1..Len(log[p].lines)
               PROVE  counted[log[p].lines[k]] < 2
    BY DEF CountedTwiceExplained
  <2>1. counted[log[p].lines[k]] <= 1
    BY DEF OnceInv, OnceAt
  <2>2. log[p].lines[k] \in Ids
    BY SizeType
  <2>3. counted[log[p].lines[k]] \in 0..2
    BY <2>2 DEF Base, SSHTypeOK
  <2> QED BY <2>1, <2>3
<1> QED BY <1>1, <1>2, <1>3, PTL DEF Spec

----------------------------------------------------------------------------
(* The suppression of a source, its attempts and the age of its last alert *)
(* fit together.                                                           *)
Timely(suppressed, attempted, age) ==
    /\ suppressed > 0 => age + suppressed <= Window
    /\ Len(attempted) >= Threshold /\ Last(attempted) <= Window => age < Last(attempted) + Window

Alerted(s, i) == Timely(s.alerted[i], s.failures[i], told.alert[i])

PendingAlert(i) ==
    \E k \in 1..Len(scan.events) : scan.events[k].kind = "bruteforce" /\ scan.events[k].ip = i

(* They do in the committed state, and in a scan's where no alert is due. *)
AlertInv ==
    \A i \in IPs : /\ Alerted(state, i)
                   /\ scan.pc # "idle" => PendingAlert(i) \/ Alerted(scan.next, i)

LEMMA AlertType ==
    ASSUME Base, NEW i \in IPs
    PROVE  /\ state.alerted[i] \in 0..Window /\ state.failures[i] \in Seq(0..Expired)
           /\ scan.next.alerted[i] \in 0..Window /\ scan.next.failures[i] \in Seq(0..Expired)
           /\ told.alert[i] \in 0..(2 * Window + 1) /\ Window \in Nat \ {0} /\ Threshold \in Nat \ {0, 1}
<1>1. /\ state \in DetectorState /\ scan.next \in DetectorState
      /\ told \in [logins : SUBSET Ids, alert : [IPs -> 0..(2 * Window + 1)]]
  BY StateType DEF Base, SSHTypeOK
<1> QED BY <1>1, SSHAuthAssumption DEF DetectorState

(* A source without attempts needs no alert, and just after one there is   *)
(* no other to raise.                                                      *)
LEMMA TimelyForgiven ==
    ASSUME NEW age
    PROVE  Timely(0, <<>>, age)
  BY SSHAuthAssumption DEF Timely

LEMMA TimelyNow ==
    ASSUME NEW a \in 0..Window, NEW f \in Seq(0..Expired)
    PROVE  Timely(a, f, 0)
<1>1. Window \in Nat \ {0} /\ Threshold \in Nat \ {0, 1}
  BY SSHAuthAssumption
<1>2. Len(f) >= Threshold => Last(f) \in 0..Expired
  <2>1. Len(f) >= Threshold => Len(f) \in 1..Len(f)
    BY <1>1
  <2>2. \A k \in 1..Len(f) : f[k] \in 0..Expired
    <3> DEFINE S == 0..Expired
    <3>1. f \in Seq(S)
      OBVIOUS
    <3> HIDE DEF S
    <3>2. \A k \in 1..Len(f) : f[k] \in S
      BY <3>1
    <3> QED BY <3>2 DEF S
  <2> QED BY <2>1, <2>2 DEF Last
<1>3. \A x \in 0..Expired : 0 < x + Window
  BY <1>1 DEF Expired
<1>4. a > 0 => 0 + a <= Window
  BY <1>1
<1> QED BY <1>2, <1>3, <1>4 DEF Timely

LEMMA TimelyPruned ==
    ASSUME NEW a, NEW f \in Seq(0..Expired), NEW age, Timely(a, f, age)
    PROVE  Timely(a, Pruned(f), age)
<1>1. /\ Len(Pruned(f)) <= Len(f) /\ Len(Pruned(f)) \in Nat /\ Pruned(f) \in Seq(0..Expired)
      /\ Pruned(f) # <<>> => Last(Pruned(f)) = Last(f)
  BY PrunedFacts
<1>2. Len(f) \in Nat /\ Threshold \in Nat \ {0, 1}
  BY SSHAuthAssumption
<1>3. Len(Pruned(f)) >= Threshold => Pruned(f) # <<>> /\ Len(f) >= Threshold
  BY <1>1, <1>2
<1> QED BY <1>1, <1>3 DEF Timely

LEMMA TimelyAged ==
    ASSUME NEW a \in 0..Window, NEW f \in Seq(0..Expired), NEW age \in 0..(2 * Window + 1), Timely(a, f, age)
    PROVE  Timely(IF a = 0 THEN 0 ELSE a - 1, Aged(f), Older(age, 2 * Window + 1))
<1>1. /\ Len(Aged(f)) = Len(f) /\ Len(f) \in Nat
      /\ f # <<>> => Last(Aged(f)) = Older(Last(f), Expired) /\ Last(f) \in 0..Expired
  BY AgedFacts
<1>2. Window \in Nat \ {0} /\ Threshold \in Nat \ {0} /\ Expired = Window + 1
  BY SSHAuthAssumption DEF Expired
<1>3. Older(age, 2 * Window + 1) \in Nat /\ Older(age, 2 * Window + 1) <= age + 1
  BY <1>2 DEF Older
<1> DEFINE b == IF a = 0 THEN 0 ELSE a - 1
<1>4. b > 0 => Older(age, 2 * Window + 1) + b <= Window
  <2>1. a > 0 => age + a <= Window
    BY DEF Timely
  <2>2. b > 0 => a > 0 /\ b = a - 1
    BY <1>2
  <2> QED BY <1>2, <1>3, <2>1, <2>2
<1>5. ASSUME Len(Aged(f)) >= Threshold, Last(Aged(f)) <= Window
      PROVE  Older(age, 2 * Window + 1) < Last(Aged(f)) + Window
  <2>1. f # <<>> /\ Len(f) >= Threshold
    BY <1>1, <1>2, <1>5
  <2>2. Last(f) \in 0..(Window + 1) /\ Older(Last(f), Window + 1) <= Window /\ Last(Aged(f)) = Older(Last(f), Window + 1)
    BY <1>1, <1>2, <1>5, <2>1
  <2>3. Last(f) <= Window /\ Last(Aged(f)) = Last(f) + 1
    BY <1>2, <2>2 DEF Older
  <2>4. age < Last(f) + Window
    BY <2>1, <2>3 DEF Timely
  <2> QED BY <1>2, <1>3, <2>2, <2>3, <2>4
<1> QED BY <1>4, <1>5 DEF Timely

(* What has to be shown of a step that neither queues an event nor ages    *)
(* anything.                                                               *)
LEMMA SameToldAlert ==
    ASSUME AlertInv, UNCHANGED told,
           state' = state,
           \A i \in IPs : \/ scan'.pc = "idle"
                          \/ PendingAlert(i)'
                          \/ Timely(scan'.next.alerted[i], scan'.next.failures[i], told.alert[i])
    PROVE  AlertInv'
<1> SUFFICES ASSUME NEW i \in IPs
             PROVE  Alerted(state, i)' /\ (scan'.pc # "idle" => PendingAlert(i)' \/ Alerted(scan.next, i)')
  BY DEF AlertInv
<1>1. Alerted(state, i)'
  BY DEF AlertInv, Alerted
<1> QED BY <1>1 DEF Alerted

(* An alert that is due stays due. *)
LEMMA StillPending ==
    ASSUME scan.events \in Seq(Event), NEW i \in IPs, PendingAlert(i),
           scan'.events = scan.events \/ \E event \in Event : scan'.events = Append(scan.events, event)
    PROVE  PendingAlert(i)'
<1>1. PICK k \in 1..Len(scan.events) : scan.events[k].kind = "bruteforce" /\ scan.events[k].ip = i
  BY DEF PendingAlert
<1>2. k \in 1..Len(scan'.events) /\ scan'.events[k] = scan.events[k]
  <2>1. CASE scan'.events = scan.events
    BY <2>1
  <2>2. ASSUME NEW event \in Event, scan'.events = Append(scan.events, event)
        PROVE  k \in 1..Len(scan'.events) /\ scan'.events[k] = scan.events[k]
    BY <2>2
  <2> QED BY <2>1, <2>2
<1> QED BY <1>1, <1>2 DEF PendingAlert

LEMMA CursorStepAlert ==
    ASSUME Base, AlertInv, NEW p \in Paths, NEW c \in Cursor, c.prefix.bytes <= PrefixLimit,
           NEW new, NEW passed, CursorStep(p, c, new, passed)
    PROVE  AlertInv'
<1>1. /\ scan.pc # "idle" /\ scan'.next = Moved(p, c) /\ scan'.events = scan.events
      /\ UNCHANGED <<told, state>>
  BY DEF CursorStep, history
<1>2. scan'.next.failures = scan.next.failures /\ scan'.next.alerted = scan.next.alerted
  BY <1>1, MovedType
<1>3. ASSUME NEW i \in IPs
      PROVE  PendingAlert(i)' \/ Timely(scan'.next.alerted[i], scan'.next.failures[i], told.alert[i])
  BY <1>1, <1>2 DEF AlertInv, Alerted, PendingAlert
<1> QED BY <1>1, <1>3, SameToldAlert

LEMMA ReadStepAlert ==
    ASSUME Base, AlertInv, NEW p \in Paths, ReadStep(p)
    PROVE  AlertInv'
<1>1. CASE LookPast(p) \/ LookUnreadable(p) \/ ReadFails(p)
  BY <1>1, KeepEffect, CursorStepAlert
<1>2. CASE Look(p)
  <2>1. PICK c \in Cursor :
            /\ CursorStep(p, c, {}, IF state.saved THEN {} ELSE Begun(p, Size(p)))
            /\ c.prefix.bytes <= PrefixLimit
    BY <1>2, LookEffect
  <2> QED BY <2>1, CursorStepAlert
<1>3. CASE Read(p)
  <2> DEFINE old == scan.next.files[p]
             got == readLines(p, old.offset, Remaining)
             c == [old EXCEPT !.offset = got.offset]
  <2>1. CursorStep(p, c, got.lines, {}) /\ c \in Cursor /\ c.prefix.bytes <= PrefixLimit
    BY <1>3, ReadEffect
  <2> HIDE DEF got, c
  <2> QED BY <2>1, CursorStepAlert
<1> QED BY <1>1, <1>2, <1>3 DEF ReadStep

LEMMA JournalAlert ==
    ASSUME Base, AlertInv, ReadJournal
    PROVE  AlertInv'
<1>1. /\ scan.pc = "look" /\ scan'.events = scan.events
      /\ scan'.next.alerted = scan.next.alerted
      /\ scan'.next.failures = [i \in IPs |-> Pruned(scan.next.failures[i])]
      /\ UNCHANGED <<log, written, journal, upset, state, history>>
  BY JournalEffect
<1>2. UNCHANGED <<told, state>>
  BY <1>1 DEF history
<1>3. ASSUME NEW i \in IPs
      PROVE  PendingAlert(i)' \/ Timely(scan'.next.alerted[i], scan'.next.failures[i], told.alert[i])
  <2>1. PendingAlert(i) \/ Timely(scan.next.alerted[i], scan.next.failures[i], told.alert[i])
    BY <1>1 DEF AlertInv, Alerted
  <2>2. PendingAlert(i) => PendingAlert(i)'
    BY <1>1 DEF PendingAlert
  <2>3. scan.next.failures[i] \in Seq(0..Expired)
    BY AlertType
  <2>4. Timely(scan.next.alerted[i], scan.next.failures[i], told.alert[i])
           => Timely(scan.next.alerted[i], Pruned(scan.next.failures[i]), told.alert[i])
    BY <2>3, TimelyPruned
  <2> QED BY <1>1, <2>1, <2>2, <2>4
<1> QED BY <1>2, <1>3, SameToldAlert

LEMMA SuccessAlert ==
    ASSUME Base, AlertInv, NEW e, ApplySuccess(e)
    PROVE  AlertInv'
<1>1. PICK ip \in IPs, event \in Event :
          RecordStep(e, Forgiven(scan.next, ip), Append(scan.events, event))
  BY SuccessEffect
<1>2. /\ scan.pc = "apply" /\ scan'.next = Forgiven(scan.next, ip)
      /\ scan'.events = Append(scan.events, event) /\ UNCHANGED <<told, state>>
  BY <1>1 DEF RecordStep, history
<1>3. /\ scan'.next.failures = [scan.next.failures EXCEPT ![ip] = <<>>]
      /\ scan'.next.alerted = [scan.next.alerted EXCEPT ![ip] = 0]
  <2>1. scan.next \in DetectorState
    BY StateType
  <2>2. /\ Forgiven(scan.next, ip).failures = [scan.next.failures EXCEPT ![ip] = <<>>]
        /\ Forgiven(scan.next, ip).alerted = [scan.next.alerted EXCEPT ![ip] = 0]
    BY <2>1, ForgivenFacts
  <2> QED BY <1>2, <2>2
<1>4. /\ scan.next.failures \in [IPs -> Seq(0..Expired)] /\ scan.next.alerted \in [IPs -> 0..Window]
      /\ scan.events \in Seq(Event)
  BY StateType DEF DetectorState, Base, SSHTypeOK, Scan
<1>5. ASSUME NEW i \in IPs
      PROVE  PendingAlert(i)' \/ Timely(scan'.next.alerted[i], scan'.next.failures[i], told.alert[i])
  <2>1. CASE i = ip
    <3>1. scan'.next.alerted[i] = 0 /\ scan'.next.failures[i] = <<>>
      BY <1>3, <1>4, <2>1
    <3> QED BY <3>1, TimelyForgiven
  <2>2. CASE i # ip
    <3>1. scan'.next.alerted[i] = scan.next.alerted[i] /\ scan'.next.failures[i] = scan.next.failures[i]
      BY <1>3, <1>4, <2>2
    <3>2. PendingAlert(i) \/ Timely(scan.next.alerted[i], scan.next.failures[i], told.alert[i])
      BY <1>2 DEF AlertInv, Alerted
    <3>3. PendingAlert(i) => PendingAlert(i)'
      BY <1>2, <1>4, StillPending
    <3> QED BY <3>1, <3>2, <3>3
  <2> QED BY <2>1, <2>2
<1> QED BY <1>2, <1>5, SameToldAlert

(* A failure that raises no alert: there are too few, or there was one. *)
LEMMA FailureAlert ==
    ASSUME Base, AlertInv, NEW e, ApplyFailure(e)
    PROVE  AlertInv'
<1>1. PICK ip \in IPs, t \in DetectorState, events \in Seq(Event) :
          RecordStep(e, t, events) /\ Failed(t, ip, events)
  BY FailureEffect
<1>2. /\ scan.pc = "apply" /\ scan'.next = t /\ scan'.events = events /\ UNCHANGED <<told, state>>
  BY <1>1 DEF RecordStep, history
<1>3. scan.events \in Seq(Event) /\ Len(scan.events) \in Nat
  BY DEF Base, SSHTypeOK, Scan
<1> DEFINE alert == [kind |-> "bruteforce", ip |-> ip]
<1>4. alert \in Event /\ alert.kind = "bruteforce" /\ alert.ip = ip
  BY DEF Event
<1>5. scan'.events = scan.events \/ scan'.events = Append(scan.events, alert)
  BY <1>1, <1>2 DEF Failed
<1> HIDE DEF alert
<1>6. \A i \in IPs : PendingAlert(i) => PendingAlert(i)'
  BY <1>3, <1>4, <1>5, StillPending
<1>7. \A i \in IPs : PendingAlert(i) \/ Timely(scan.next.alerted[i], scan.next.failures[i], told.alert[i])
  BY <1>2 DEF AlertInv, Alerted
<1>8. ASSUME NEW i \in IPs \ {ip}
      PROVE  PendingAlert(i)' \/ Timely(t.alerted[i], t.failures[i], told.alert[i])
  <2>1. \/ t.failures[i] = scan.next.failures[i] /\ t.alerted[i] = scan.next.alerted[i]
        \/ t.failures[i] = <<>> /\ t.alerted[i] = 0
    BY <1>1 DEF Failed
  <2> QED BY <1>6, <1>7, <2>1, TimelyForgiven
<1>9. PendingAlert(ip)' \/ Timely(t.alerted[ip], t.failures[ip], told.alert[ip])
  <2>1. CASE events = Append(scan.events, alert)
    <3>1. Len(scan'.events) = Len(scan.events) + 1 /\ scan'.events[Len(scan.events) + 1] = alert
      BY <1>2, <1>3, <1>4, <2>1
    <3>2. Len(scan.events) + 1 \in 1..Len(scan'.events)
      BY <1>3, <3>1
    <3> QED BY <1>4, <3>1, <3>2 DEF PendingAlert
  <2>2. CASE t.failures[ip] = <<>> /\ t.alerted[ip] = 0
    BY <2>2, TimelyForgiven
  <2>3. CASE /\ t.failures[ip] = attempts(scan.next.failures[ip]) /\ t.alerted[ip] = scan.next.alerted[ip]
             /\ Len(t.failures[ip]) < Threshold \/ t.alerted[ip] > 0
    <3>1. CASE PendingAlert(ip)
      BY <1>6, <3>1
    <3>2. CASE ~PendingAlert(ip)
      <4>1. t.alerted[ip] > 0 => told.alert[ip] + t.alerted[ip] <= Window
        BY <1>7, <2>3, <3>2 DEF Timely
      <4>2. Len(t.failures[ip]) \in Nat /\ Last(t.failures[ip]) = 0
        BY <2>3, AlertType, AttemptsFacts
      <4>3. /\ told.alert[ip] \in Nat /\ t.alerted[ip] \in Nat /\ Window \in Nat /\ Threshold \in Nat
        BY <2>3, AlertType
      <4>4. Len(t.failures[ip]) >= Threshold => told.alert[ip] < 0 + Window
        BY <2>3, <4>1, <4>2, <4>3
      <4> QED BY <2>3, <4>1, <4>2, <4>4 DEF Timely
    <3> QED BY <3>1, <3>2
  <2> QED BY <1>1, <2>1, <2>2, <2>3 DEF Failed, alert
<1>10. \A i \in IPs : PendingAlert(i)' \/ Timely(scan'.next.alerted[i], scan'.next.failures[i], told.alert[i])
  BY <1>2, <1>8, <1>9
<1> QED BY <1>2, <1>10, SameToldAlert

(* The first event is told: an alert for a source makes the age of its     *)
(* last one nothing.                                                       *)
LEMMA EnqueueAlert ==
    ASSUME Base, AlertInv, Enqueue
    PROVE  AlertInv'
<1> DEFINE event == Head(scan.events)
<1>1. /\ scan.pc = "report" /\ scan.events # <<>> /\ scan'.next = scan.next
      /\ scan'.events = Tail(scan.events) /\ state' = state
      /\ \A i \in IPs : told'.alert[i] = told.alert[i] \/ told'.alert[i] = 0
      /\ event.kind = "bruteforce" => told'.alert[event.ip] = 0
  BY EnqueueEffect
<1>2. scan.events \in Seq(Event) /\ Len(scan.events) \in Nat /\ event = scan.events[1]
  BY <1>1 DEF Base, SSHTypeOK, Scan
<1> HIDE DEF event
<1>3. ASSUME NEW i \in IPs, NEW a \in 0..Window, NEW f \in Seq(0..Expired), Timely(a, f, told.alert[i])
      PROVE  Timely(a, f, told'.alert[i])
  BY <1>1, <1>3, TimelyNow
<1>4. ASSUME NEW i \in IPs PROVE Alerted(state, i)' /\ (PendingAlert(i)' \/ Alerted(scan.next, i)')
  <2>1. Alerted(state, i) /\ (PendingAlert(i) \/ Alerted(scan.next, i))
    BY <1>1 DEF AlertInv
  <2>2. /\ state.alerted[i] \in 0..Window /\ state.failures[i] \in Seq(0..Expired)
        /\ scan.next.alerted[i] \in 0..Window /\ scan.next.failures[i] \in Seq(0..Expired)
    BY AlertType
  <2>3. Timely(state.alerted[i], state.failures[i], told'.alert[i])
    BY <1>3, <2>1, <2>2 DEF Alerted
  <2>4. CASE Alerted(scan.next, i)
    <3>1. Timely(scan.next.alerted[i], scan.next.failures[i], told'.alert[i])
      BY <1>3, <2>2, <2>4 DEF Alerted
    <3> QED BY <1>1, <2>3, <3>1 DEF Alerted
  <2>5. CASE PendingAlert(i)
    <3>1. PICK k \in 1..Len(scan.events) : scan.events[k].kind = "bruteforce" /\ scan.events[k].ip = i
      BY <2>5 DEF PendingAlert
    <3>2. CASE k = 1
      <4>1. told'.alert[i] = 0
        BY <1>1, <1>2, <3>1, <3>2
      <4>2. Timely(scan.next.alerted[i], scan.next.failures[i], told'.alert[i])
        BY <2>2, <4>1, TimelyNow
      <4> QED BY <1>1, <2>3, <4>2 DEF Alerted
    <3>3. CASE k # 1
      <4>1. k - 1 \in 1..Len(scan'.events) /\ scan'.events[k - 1] = scan.events[k]
        BY <1>1, <1>2, <3>3
      <4>2. PendingAlert(i)'
        BY <3>1, <4>1 DEF PendingAlert
      <4> QED BY <1>1, <2>3, <4>2 DEF Alerted
    <3> QED BY <3>2, <3>3
  <2> QED BY <2>1, <2>4, <2>5
<1> QED BY <1>4 DEF AlertInv

LEMMA AlertInvInit ==
    ASSUME Init
    PROVE  AlertInv
<1>1. Base /\ scan.pc = "idle"
  BY BaseInit DEF Init, NoScan
<1>2. told.alert = [i \in IPs |-> 2 * Window + 1]
  BY DEF Init
<1>3. ASSUME NEW i \in IPs PROVE Alerted(state, i)
  <2>1. state.alerted[i] = 0 /\ (state.failures[i] = <<>> \/ state.failures[i] = << 0 >>)
    <3>1. CASE state = NewState
      BY <3>1 DEF NewState
    <3>2. ASSUME NEW j \in IPs,
                 state = [NewState EXCEPT !.saved = TRUE, !.failures[j] = << 0 >>, !.tried[j] = << 0 >>]
          PROVE  state.alerted[i] = 0 /\ (state.failures[i] = <<>> \/ state.failures[i] = << 0 >>)
      BY <3>2 DEF NewState
    <3> QED BY <3>1, <3>2 DEF Init
  <2>2. Threshold \in Nat /\ Threshold > 1 /\ Len(<< 0 >>) = 1 /\ Len(<<>>) = 0
    BY SSHAuthAssumption
  <2>3. Len(state.failures[i]) = 0 \/ Len(state.failures[i]) = 1
    BY <2>1, <2>2
  <2>4. ~(Len(state.failures[i]) >= Threshold)
    <3> DEFINE n == Len(state.failures[i])
    <3>1. n = 0 \/ n = 1
      BY <2>3
    <3>2. Threshold \in Nat /\ Threshold > 1
      BY <2>2
    <3> HIDE DEF n
    <3>3. ~(n >= Threshold)
      BY <3>1, <3>2
    <3> QED BY <3>3 DEF n
  <2> QED BY <2>1, <2>4 DEF Alerted, Timely
<1> QED BY <1>1, <1>3 DEF AlertInv

LEMMA AlertInvStep ==
    ASSUME Base, AlertInv, [Next]_vars
    PROVE  AlertInv'
<1>1. CASE UNCHANGED <<told, state, scan>>
  BY <1>1 DEF AlertInv, Alerted, PendingAlert
<1>2. CASE StartScan
  <2>1. scan'.next = state /\ UNCHANGED <<told, state>>
    BY <1>2, StartEffect DEF history
  <2>2. \A i \in IPs : Timely(scan'.next.alerted[i], scan'.next.failures[i], told.alert[i])
    BY <2>1 DEF AlertInv, Alerted
  <2> QED BY <2>1, <2>2, SameToldAlert
<1>3. CASE ReadJournal
  BY <1>3, JournalAlert
<1>4. CASE Finish
  <2>1. /\ scan.pc = "apply" /\ UNCHANGED <<told, state>>
        /\ scan'.next.failures = scan.next.failures /\ scan'.next.alerted = scan.next.alerted
        /\ scan'.events = scan.events \/ \E event \in Event : scan'.events = Append(scan.events, event)
    BY <1>4, FinishEffect DEF history
  <2>2. \A i \in IPs : PendingAlert(i) => PendingAlert(i)'
    <3>1. scan.events \in Seq(Event)
      BY DEF Base, SSHTypeOK, Scan
    <3> QED BY <2>1, <3>1, StillPending
  <2>3. \A i \in IPs : PendingAlert(i) \/ Timely(scan.next.alerted[i], scan.next.failures[i], told.alert[i])
    BY <2>1 DEF AlertInv, Alerted
  <2>4. \A i \in IPs : PendingAlert(i)' \/ Timely(scan'.next.alerted[i], scan'.next.failures[i], told.alert[i])
    BY <2>1, <2>2, <2>3
  <2> QED BY <2>1, <2>4, SameToldAlert
<1>5. CASE Enqueue
  BY <1>5, EnqueueAlert
<1>6. CASE Commit
  <2>1. /\ scan.pc = "report" /\ scan.events = <<>> /\ scan' = NoScan /\ told' = told
        /\ state'.failures = scan.next.failures /\ state'.alerted = scan.next.alerted
    BY <1>6, CommitEffect
  <2>2. \A i \in IPs : Alerted(scan.next, i)
    <3>1. \A i \in IPs : ~PendingAlert(i)
      BY <2>1 DEF PendingAlert
    <3> QED BY <2>1, <3>1 DEF AlertInv
  <2>3. scan'.pc = "idle"
    BY <2>1 DEF NoScan
  <2>4. \A i \in IPs : Alerted(state, i)'
    BY <2>1, <2>2 DEF Alerted
  <2> QED BY <2>3, <2>4 DEF AlertInv
<1>7. CASE CommitRefused \/ Abandon
  <2>1. scan' = NoScan /\ UNCHANGED <<told, state>>
    BY <1>7, ForgetEffect DEF history
  <2>2. scan'.pc = "idle"
    BY <2>1 DEF NoScan
  <2> QED BY <2>1, <2>2, SameToldAlert
<1>8. ASSUME NEW p \in Paths, ReadStep(p) PROVE AlertInv'
  BY <1>8, ReadStepAlert
<1>9. ASSUME NEW e \in scan.todo, ApplyStep(e) PROVE AlertInv'
  <2>1. CASE SkipLine(e)
    <3>1. /\ scan.pc = "apply" /\ scan'.next = scan.next /\ scan'.events = scan.events
          /\ UNCHANGED <<told, state>>
      BY <2>1, SkipEffect DEF RecordStep, history
    <3>2. \A i \in IPs : PendingAlert(i)' \/ Timely(scan'.next.alerted[i], scan'.next.failures[i], told.alert[i])
      BY <3>1 DEF AlertInv, Alerted, PendingAlert
    <3> QED BY <3>1, <3>2, SameToldAlert
  <2> QED BY <1>9, <2>1, SuccessAlert, FailureAlert DEF ApplyStep
<1>10. CASE Host
  <2>1. UNCHANGED <<told, state, scan>>
    BY <1>10, HostEffect DEF HostStep, history
  <2> QED BY <1>1, <2>1
<1>11. CASE Tick
  <2>1. /\ scan.pc = "idle" /\ scan' = scan
        /\ state'.failures = [i \in IPs |-> Aged(state.failures[i])]
        /\ state'.alerted = [i \in IPs |-> IF state.alerted[i] = 0 THEN 0 ELSE state.alerted[i] - 1]
        /\ told'.alert = [i \in IPs |-> Older(told.alert[i], 2 * Window + 1)]
    BY <1>11, TickEffect
  <2>2. ASSUME NEW i \in IPs PROVE Alerted(state, i)'
    <3>1. Timely(state.alerted[i], state.failures[i], told.alert[i])
      BY DEF AlertInv, Alerted
    <3>2. /\ state.alerted[i] \in 0..Window /\ state.failures[i] \in Seq(0..Expired)
          /\ told.alert[i] \in 0..(2 * Window + 1)
      BY AlertType
    <3>3. Timely(IF state.alerted[i] = 0 THEN 0 ELSE state.alerted[i] - 1,
                 Aged(state.failures[i]), Older(told.alert[i], 2 * Window + 1))
      BY <3>1, <3>2, TimelyAged
    <3> QED BY <2>1, <3>3 DEF Alerted
  <2> QED BY <2>1, <2>2 DEF AlertInv
<1>12. CASE UNCHANGED vars
  BY <1>1, <1>12 DEF vars
<1> QED BY <1>2, <1>3, <1>4, <1>5, <1>6, <1>7, <1>8, <1>9, <1>10, <1>11, <1>12 DEF Next, ScanStep, ScanRefused

(* No attempt is missing from the states of a source but by pruneOldestIP. *)
RememberInv == Complete(state) /\ (scan.pc # "idle" => Complete(scan.next))

LEMMA RememberInvInit ==
    ASSUME Init
    PROVE  RememberInv
<1>1. scan.pc = "idle"
  BY DEF Init, NoScan
<1>2. Complete(state)
  <2>1. CASE state = NewState
    BY <2>1 DEF Complete, NewState
  <2>2. ASSUME NEW j \in IPs,
               state = [NewState EXCEPT !.saved = TRUE, !.failures[j] = << 0 >>, !.tried[j] = << 0 >>]
        PROVE  Complete(state)
    BY <2>2 DEF Complete, NewState
  <2> QED BY <2>1, <2>2 DEF Init
<1> QED BY <1>1, <1>2 DEF RememberInv

(* What the steps have to show. *)
LEMMA RememberInvNext ==
    ASSUME Complete(state'), scan'.pc # "idle" => Complete(scan'.next)
    PROVE  RememberInv'
  BY DEF RememberInv, Complete

LEMMA CursorStepRemember ==
    ASSUME Base, RememberInv, NEW p \in Paths, NEW c \in Cursor, c.prefix.bytes <= PrefixLimit,
           NEW new, NEW passed, CursorStep(p, c, new, passed)
    PROVE  RememberInv'
<1>1. scan.pc # "idle" /\ scan'.next = Moved(p, c) /\ state' = state
  BY DEF CursorStep, history
<1>2. Complete(scan.next) => Complete(Moved(p, c))
  BY MovedType
<1>3. Complete(state) /\ Complete(scan.next)
  BY <1>1 DEF RememberInv
<1> QED BY <1>1, <1>2, <1>3, RememberInvNext

LEMMA ReadStepRemember ==
    ASSUME Base, RememberInv, NEW p \in Paths, ReadStep(p)
    PROVE  RememberInv'
<1>1. CASE LookPast(p) \/ LookUnreadable(p) \/ ReadFails(p)
  BY <1>1, KeepEffect, CursorStepRemember
<1>2. CASE Look(p)
  <2>1. PICK c \in Cursor :
            /\ CursorStep(p, c, {}, IF state.saved THEN {} ELSE Begun(p, Size(p)))
            /\ c.prefix.bytes <= PrefixLimit
    BY <1>2, LookEffect
  <2> QED BY <2>1, CursorStepRemember
<1>3. CASE Read(p)
  <2> DEFINE old == scan.next.files[p]
             got == readLines(p, old.offset, Remaining)
             c == [old EXCEPT !.offset = got.offset]
  <2>1. CursorStep(p, c, got.lines, {}) /\ c \in Cursor /\ c.prefix.bytes <= PrefixLimit
    BY <1>3, ReadEffect
  <2> HIDE DEF got, c
  <2> QED BY <2>1, CursorStepRemember
<1> QED BY <1>1, <1>2, <1>3 DEF ReadStep

LEMMA RememberInvStep ==
    ASSUME Base, RememberInv, [Next]_vars
    PROVE  RememberInv'
<1>1. CASE UNCHANGED <<state, scan>>
  BY <1>1 DEF RememberInv, Complete
<1>2. CASE StartScan
  <2>1. scan'.next = state /\ state' = state
    BY <1>2, StartEffect
  <2>2. Complete(state)
    BY DEF RememberInv
  <2> QED BY <2>1, <2>2, RememberInvNext
<1>3. CASE ReadJournal
  <2>1. scan.pc # "idle" /\ (Complete(scan.next) => Complete(scan'.next)) /\ state' = state
    BY <1>3, JournalEffect
  <2>2. Complete(state) /\ Complete(scan.next)
    BY <2>1 DEF RememberInv
  <2> QED BY <2>1, <2>2, RememberInvNext
<1>4. CASE Finish
  <2>1. scan.pc # "idle" /\ (Complete(scan.next) => Complete(scan'.next)) /\ state' = state
    BY <1>4, FinishEffect
  <2>2. Complete(state) /\ Complete(scan.next)
    BY <2>1 DEF RememberInv
  <2> QED BY <2>1, <2>2, RememberInvNext
<1>5. CASE Enqueue
  <2>1. scan.pc # "idle" /\ scan'.next = scan.next /\ state' = state
    BY <1>5, EnqueueEffect
  <2>2. Complete(state) /\ Complete(scan.next)
    BY <2>1 DEF RememberInv
  <2> QED BY <2>1, <2>2, RememberInvNext
<1>6. CASE Commit
  <2>1. scan.pc # "idle" /\ (Complete(scan.next) => Complete(state')) /\ scan' = NoScan
    BY <1>6, CommitEffect
  <2>2. Complete(scan.next) /\ scan'.pc = "idle"
    BY <2>1 DEF RememberInv, NoScan
  <2> QED BY <2>1, <2>2, RememberInvNext
<1>7. CASE CommitRefused \/ Abandon
  <2>1. scan' = NoScan /\ state' = state
    BY <1>7, ForgetEffect
  <2>2. Complete(state) /\ scan'.pc = "idle"
    BY <2>1 DEF RememberInv, NoScan
  <2> QED BY <2>1, <2>2, RememberInvNext
<1>8. ASSUME NEW p \in Paths, ReadStep(p) PROVE RememberInv'
  BY <1>8, ReadStepRemember
<1>9. ASSUME NEW e \in scan.todo, ApplyStep(e) PROVE RememberInv'
  <2>1. scan.pc = "apply" /\ state' = state /\ (Complete(scan.next) => Complete(scan'.next))
    <3>1. CASE SkipLine(e)
      BY <3>1, SkipEffect DEF RecordStep
    <3>2. CASE ApplySuccess(e)
      <4>1. PICK ip \in IPs, event \in Event :
                RecordStep(e, Forgiven(scan.next, ip), Append(scan.events, event))
        BY <3>2, SuccessEffect
      <4>2. Complete(scan.next) => Complete(Forgiven(scan.next, ip))
        BY StateType, ForgivenFacts
      <4> QED BY <4>1, <4>2 DEF RecordStep
    <3>3. CASE ApplyFailure(e)
      <4>1. PICK ip \in IPs, t \in DetectorState, events \in Seq(Event) :
                RecordStep(e, t, events) /\ Failed(t, ip, events)
        BY <3>3, FailureEffect
      <4> QED BY <4>1 DEF RecordStep, Failed
    <3> QED BY <1>9, <3>1, <3>2, <3>3 DEF ApplyStep
  <2>2. Complete(state) /\ Complete(scan.next)
    BY <2>1 DEF RememberInv
  <2> QED BY <2>1, <2>2, RememberInvNext
<1>10. CASE Host
  <2>1. UNCHANGED <<state, scan>>
    BY <1>10, HostEffect DEF HostStep, history
  <2> QED BY <1>1, <2>1
<1>11. CASE Tick
  <2>1. scan.pc = "idle" /\ scan' = scan /\ (Complete(state) => Complete(state'))
    BY <1>11, TickEffect
  <2>2. Complete(state)
    BY DEF RememberInv
  <2> QED BY <2>1, <2>2, RememberInvNext
<1>12. CASE UNCHANGED vars
  BY <1>1, <1>12 DEF vars
<1> QED BY <1>2, <1>3, <1>4, <1>5, <1>6, <1>7, <1>8, <1>9, <1>10, <1>11, <1>12 DEF Next, ScanStep, ScanRefused

(* A burst among all the failures of a source that committed scans have    *)
(* counted since its last success has been the subject of an alert no more *)
(* than a window before its last attempt, unless pruneOldestIP has         *)
(* forgotten the source; of a forgotten one this holds for the attempts    *)
(* that the state still has.  The suppression of applyRecord,              *)
(* pruneFailures, the limit of attempts or a cycle that fails hides none,  *)
(* for any threshold, window and limit that New accepts.                   *)
THEOREM SSHBruteForceReported == Spec => []BruteForceReported
<1>1. Init => Base /\ AlertInv /\ RememberInv
  BY BaseInit, AlertInvInit, RememberInvInit
<1>2. Base /\ AlertInv /\ RememberInv /\ [Next]_vars => (Base /\ AlertInv /\ RememberInv)'
  BY BaseStep, AlertInvStep, RememberInvStep
<1>3. AlertInv /\ RememberInv => BruteForceReported
  <2> SUFFICES ASSUME AlertInv, RememberInv, NEW i \in IPs
               PROVE  /\ Answered(i, state.failures[i])
                      /\ i \notin state.forgotten => Answered(i, state.tried[i])
    BY DEF BruteForceReported
  <2>1. Answered(i, state.failures[i])
    BY DEF AlertInv, Alerted, Timely, Answered
  <2>2. i \notin state.forgotten => state.tried[i] = state.failures[i]
    BY DEF RememberInv, Complete
  <2> QED BY <2>1, <2>2
<1> QED BY <1>1, <1>2, <1>3, PTL DEF Spec

----------------------------------------------------------------------------
(* A login that the loop has passed was told of, or an event will tell. *)
PendingLogin(id) ==
    \E k \in 1..Len(scan.events) : scan.events[k].kind = "succeeded" /\ scan.events[k].id = id

LoginInv ==
    /\ settled \subseteq told.logins
    /\ scan.pc \in {"apply", "report"} => \A e \in scan.lines \ scan.todo :
          Says(e, "accepted") => e.line \in told.logins \/ PendingLogin(e.line)

LEMMA LoginStays ==
    ASSUME scan.events \in Seq(Event), NEW id, PendingLogin(id),
           scan'.events = scan.events \/ \E event \in Event : scan'.events = Append(scan.events, event)
    PROVE  PendingLogin(id)'
<1>1. PICK k \in 1..Len(scan.events) : scan.events[k].kind = "succeeded" /\ scan.events[k].id = id
  BY DEF PendingLogin
<1>2. k \in 1..Len(scan'.events) /\ scan'.events[k] = scan.events[k]
  <2>1. CASE scan'.events = scan.events
    BY <2>1
  <2>2. ASSUME NEW event \in Event, scan'.events = Append(scan.events, event)
        PROVE  k \in 1..Len(scan'.events) /\ scan'.events[k] = scan.events[k]
    BY <2>2
  <2> QED BY <2>1, <2>2
<1> QED BY <1>1, <1>2 DEF PendingLogin

(* A step of the loop, or its end: what it adds to the lines passed is no  *)
(* login, or its event is there.                                           *)
LEMMA LoopLogin ==
    ASSUME Base, LoginInv, UNCHANGED <<told, settled, written>>, scan.pc = "apply",
           scan'.lines = scan.lines,
           scan'.events = scan.events \/ \E event \in Event : scan'.events = Append(scan.events, event),
           \A e \in scan.todo \ scan'.todo : Says(e, "accepted") => PendingLogin(e.line)'
    PROVE  LoginInv'
<1>1. scan.events \in Seq(Event)
  BY DEF Base, SSHTypeOK, Scan
<1>2. ASSUME NEW e \in scan.lines \ scan'.todo, Says(e, "accepted")
      PROVE  e.line \in told.logins \/ PendingLogin(e.line)'
  <2>1. CASE e \in scan.todo
    BY <1>2, <2>1
  <2>2. CASE e \notin scan.todo
    <3>1. PICK id : id = e.line
      OBVIOUS
    <3>2. id \in told.logins \/ PendingLogin(id)
      BY <1>2, <2>2, <3>1 DEF LoginInv
    <3>3. id \in told.logins \/ PendingLogin(id)'
      BY <1>1, <3>2, LoginStays
    <3> QED BY <3>1, <3>3 DEF PendingLogin
  <2> QED BY <2>1, <2>2
<1>3. \A e \in scan'.lines \ scan'.todo :
          Says(e, "accepted")' => e.line \in told'.logins \/ PendingLogin(e.line)'
  BY <1>2 DEF Says, Text
<1>4. settled' \subseteq told'.logins
  BY DEF LoginInv
<1> QED BY <1>3, <1>4 DEF LoginInv

LEMMA LoginInvStep ==
    ASSUME Base, LoginInv, [Next]_vars
    PROVE  LoginInv' /\ [Reports!Next]_<<told.logins, settled>>
<1>1. CASE UNCHANGED vars
  <2>1. UNCHANGED <<told, settled, scan, written>>
    BY <1>1 DEF vars
  <2>2. LoginInv'
    BY <2>1 DEF LoginInv, PendingLogin, Says, Text
  <2> QED BY <2>1, <2>2
<1>2. ASSUME UNCHANGED <<told, settled>>, LoginInv'
      PROVE  LoginInv' /\ [Reports!Next]_<<told.logins, settled>>
  BY <1>2
<1>3. CASE StartScan
  <2>1. scan'.pc = "look" /\ UNCHANGED <<told, settled>>
    BY <1>3, StartEffect DEF history
  <2>2. LoginInv'
    BY <2>1 DEF LoginInv
  <2> QED BY <1>2, <2>1, <2>2
<1>4. CASE ReadJournal
  <2>1. scan'.todo = scan'.lines /\ UNCHANGED <<told, settled>>
    BY <1>4, JournalEffect DEF history
  <2>2. LoginInv'
    BY <2>1 DEF LoginInv
  <2> QED BY <1>2, <2>1, <2>2
<1>5. CASE Finish
  <2>1. /\ scan.pc = "apply" /\ scan'.lines = scan.lines /\ scan'.todo = scan.todo
        /\ scan'.events = scan.events \/ \E event \in Event : scan'.events = Append(scan.events, event)
        /\ UNCHANGED <<told, settled, written>>
    BY <1>5, FinishEffect DEF history, env
  <2>2. LoginInv'
    BY <2>1, LoopLogin
  <2> QED BY <1>2, <2>1, <2>2
<1>6. CASE Enqueue
  <2> DEFINE event == Head(scan.events)
  <2>1. /\ scan.pc = "report" /\ scan.events # <<>> /\ scan'.pc = scan.pc
        /\ scan'.lines = scan.lines /\ scan'.todo = scan.todo /\ scan'.events = Tail(scan.events)
        /\ told.logins \subseteq told'.logins
        /\ event.kind = "succeeded" => event.id \in told'.logins
        /\ UNCHANGED <<settled, written>>
    BY <1>6, EnqueueEffect DEF env
  <2>2. scan.events \in Seq(Event) /\ Len(scan.events) \in Nat /\ event = scan.events[1]
    BY <2>1 DEF Base, SSHTypeOK, Scan
  <2> HIDE DEF event
  <2>3. ASSUME NEW id, PendingLogin(id) PROVE id \in told'.logins \/ PendingLogin(id)'
    <3>1. PICK k \in 1..Len(scan.events) : scan.events[k].kind = "succeeded" /\ scan.events[k].id = id
      BY <2>3 DEF PendingLogin
    <3>2. CASE k = 1
      BY <2>1, <2>2, <3>1, <3>2
    <3>3. CASE k # 1
      <4>1. k - 1 \in 1..Len(scan'.events) /\ scan'.events[k - 1] = scan.events[k]
        BY <2>1, <2>2, <3>3
      <4> QED BY <3>1, <4>1 DEF PendingLogin
    <3> QED BY <3>2, <3>3
  <2>4. ASSUME NEW e \in scan.lines \ scan.todo, Says(e, "accepted")
        PROVE  e.line \in told'.logins \/ PendingLogin(e.line)'
    <3>1. PICK id : id = e.line
      OBVIOUS
    <3>2. id \in told.logins \/ PendingLogin(id)
      BY <2>1, <2>4, <3>1 DEF LoginInv
    <3>3. id \in told'.logins \/ PendingLogin(id)'
      BY <2>1, <2>3, <3>2
    <3> QED BY <3>1, <3>3 DEF PendingLogin
  <2>5. \A e \in scan'.lines \ scan'.todo :
            Says(e, "accepted")' => e.line \in told'.logins \/ PendingLogin(e.line)'
    BY <2>1, <2>4 DEF Says, Text
  <2>6. settled' \subseteq told'.logins
    BY <2>1 DEF LoginInv
  <2>7. LoginInv'
    BY <2>5, <2>6 DEF LoginInv
  <2> QED BY <2>1, <2>7 DEF Reports!Next, Reports!Tell
<1>7. CASE Commit
  <2>1. /\ scan.pc = "report" /\ scan.events = <<>> /\ scan' = NoScan
        /\ settled' = settled \cup Logins /\ told' = told
    BY <1>7, CommitEffect
  <2>2. Logins \subseteq told.logins
    <3>1. scan.todo = {}
      BY <2>1 DEF Base, EntryInv
    <3>2. \A id : ~PendingLogin(id)
      BY <2>1 DEF PendingLogin
    <3> QED BY <2>1, <3>1, <3>2 DEF LoginInv, Logins
  <2>3. settled \subseteq told.logins
    BY DEF LoginInv
  <2>4. scan'.pc = "idle"
    BY <2>1 DEF NoScan
  <2>5. LoginInv'
    BY <2>1, <2>2, <2>3, <2>4 DEF LoginInv
  <2> QED BY <2>1, <2>2, <2>3, <2>5 DEF Reports!Next, Reports!Settle
<1>8. CASE CommitRefused \/ Abandon
  <2>1. scan' = NoScan /\ UNCHANGED <<told, settled>>
    BY <1>8, ForgetEffect DEF history
  <2>2. scan'.pc = "idle"
    BY <2>1 DEF NoScan
  <2>3. LoginInv'
    BY <2>1, <2>2 DEF LoginInv
  <2> QED BY <1>2, <2>1, <2>3
<1>9. ASSUME NEW p \in Paths, ReadStep(p)
      PROVE  LoginInv' /\ [Reports!Next]_<<told.logins, settled>>
  <2>1. scan'.pc \in {"look", "read"} /\ UNCHANGED <<told, settled>>
    <3>1. CASE LookPast(p) \/ LookUnreadable(p) \/ ReadFails(p)
      BY <3>1, KeepEffect DEF CursorStep, history
    <3>2. CASE Look(p)
      BY <3>2, LookEffect DEF CursorStep, history
    <3>3. CASE Read(p)
      BY <3>3, ReadEffect DEF CursorStep, history
    <3> QED BY <1>9, <3>1, <3>2, <3>3 DEF ReadStep
  <2>2. LoginInv'
    BY <2>1 DEF LoginInv
  <2> QED BY <1>2, <2>1, <2>2
<1>10. ASSUME NEW e \in scan.todo, ApplyStep(e)
       PROVE  LoginInv' /\ [Reports!Next]_<<told.logins, settled>>
  <2>1. CASE SkipLine(e)
    <3>1. /\ scan.pc = "apply" /\ scan'.lines = scan.lines /\ scan'.todo = scan.todo \ {e}
          /\ scan'.events = scan.events /\ UNCHANGED <<told, settled, written>> /\ ~Says(e, "accepted")
      BY <2>1, SkipEffect DEF RecordStep, history, env
    <3>2. LoginInv'
      BY <3>1, LoopLogin
    <3> QED BY <1>2, <3>1, <3>2
  <2>2. CASE ApplySuccess(e)
    <3>1. PICK ip \in IPs, event \in Event :
              /\ RecordStep(e, Forgiven(scan.next, ip), Append(scan.events, event))
              /\ event.kind = "succeeded" /\ event.id = e.line
      BY <2>2, SuccessEffect
    <3>2. /\ scan.pc = "apply" /\ scan'.lines = scan.lines /\ scan'.todo = scan.todo \ {e}
          /\ scan'.events = Append(scan.events, event) /\ UNCHANGED <<told, settled, written>>
      BY <3>1 DEF RecordStep, history, env
    <3>3. scan.events \in Seq(Event) /\ Len(scan.events) \in Nat
      BY DEF Base, SSHTypeOK, Scan
    <3>4. Len(scan'.events) = Len(scan.events) + 1 /\ scan'.events[Len(scan.events) + 1] = event
      BY <3>2, <3>3
    <3>5. Len(scan.events) + 1 \in 1..Len(scan'.events)
      BY <3>3, <3>4
    <3>6. PendingLogin(e.line)'
      BY <3>1, <3>4, <3>5 DEF PendingLogin
    <3>7. \A f \in scan.todo \ scan'.todo : Says(f, "accepted") => PendingLogin(f.line)'
      BY <3>2, <3>6
    <3>8. LoginInv'
      BY <3>2, <3>7, LoopLogin
    <3> QED BY <1>2, <3>2, <3>8
  <2>3. CASE ApplyFailure(e)
    <3>1. PICK ip \in IPs, t \in DetectorState, events \in Seq(Event) :
              RecordStep(e, t, events) /\ Failed(t, ip, events) /\ ~Says(e, "accepted")
      BY <2>3, FailureEffect
    <3>2. /\ scan.pc = "apply" /\ scan'.lines = scan.lines /\ scan'.todo = scan.todo \ {e}
          /\ scan'.events = events /\ UNCHANGED <<told, settled, written>>
      BY <3>1 DEF RecordStep, history, env
    <3>3. scan'.events = scan.events \/ \E event \in Event : scan'.events = Append(scan.events, event)
      <4>1. [kind |-> "bruteforce", ip |-> ip] \in Event
        BY DEF Event
      <4> QED BY <3>1, <3>2, <4>1 DEF Failed
    <3>4. LoginInv'
      BY <3>1, <3>2, <3>3, LoopLogin
    <3> QED BY <1>2, <3>2, <3>4
  <2> QED BY <1>10, <2>1, <2>2, <2>3 DEF ApplyStep
<1>11. CASE Host
  <2>1. /\ UNCHANGED <<told, settled, scan>> /\ \A i \in LineNumbers : written'[i] = written[i]
    BY <1>11, HostEffect DEF HostStep, history
  <2>2. \A e \in scan.lines : e.line \in LineNumbers
    BY DEF Base, EntryInv
  <2>3. LoginInv'
    BY <2>1, <2>2 DEF LoginInv, PendingLogin, Says, Text
  <2> QED BY <1>2, <2>1, <2>3
<1>12. CASE Tick
  <2>1. scan.pc = "idle" /\ scan' = scan /\ told'.logins = told.logins /\ settled' = settled
    BY <1>12, TickEffect
  <2>2. LoginInv'
    BY <2>1 DEF LoginInv
  <2> QED BY <2>1, <2>2
<1> QED BY <1>1, <1>3, <1>4, <1>5, <1>6, <1>7, <1>8, <1>9, <1>10, <1>11, <1>12 DEF Next, ScanStep, ScanRefused

(* No committed cursor has passed a login that was not queued: the         *)
(* detector under runCycle implements the contract of DetectorContract,    *)
(* whatever cycle fails and whatever Commit refuses.                       *)
THEOREM SSHReportsThenCommits == Spec => ReportsThenCommits
<1>1. Init => Base /\ LoginInv /\ Reports!Init
  <2> SUFFICES ASSUME Init PROVE Base /\ LoginInv /\ Reports!Init
    OBVIOUS
  <2>1. Base
    BY BaseInit
  <2>2. scan = NoScan /\ told.logins = {} /\ settled = {}
    BY DEF Init
  <2>3. scan.pc = "idle"
    BY <2>2 DEF NoScan
  <2>4. LoginInv
    BY <2>2, <2>3 DEF LoginInv
  <2>5. Reports!Init
    BY <2>2 DEF Reports!Init
  <2> QED BY <2>1, <2>4, <2>5
<1>2. Base /\ LoginInv /\ [Next]_vars => (Base /\ LoginInv)' /\ [Reports!Next]_<<told.logins, settled>>
  BY BaseStep, LoginInvStep
<1> QED BY <1>1, <1>2, PTL DEF Spec, ReportsThenCommits, Reports!Spec
=============================================================================
