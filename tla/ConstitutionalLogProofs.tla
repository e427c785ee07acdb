---------------------- MODULE ConstitutionalLogProofs ----------------------
(***************************************************************************)
(* Theorems about ConstitutionalLog, for every set of callers, every bound *)
(* and, where no discipline is assumed, every misbehaviour of the disk.    *)
(***************************************************************************)
EXTENDS ConstitutionalLog, SequenceTheorems, FiniteSetTheorems, TLAPS

Line == Record \cup {Torn}

(* Sequences whose elements are all in S. *)
LEMMA ElementsInSeq ==
  ASSUME NEW S, NEW T, NEW s \in Seq(T), \A i \in 1..Len(s) : s[i] \in S
  PROVE  s \in Seq(S)
<1>1. Len(s) \in Nat /\ DOMAIN s = 1..Len(s) /\ s \in [1..Len(s) -> T]
  BY LenProperties
<1>2. s \in [1..Len(s) -> S]
  BY <1>1
<1>3. QED
  BY <1>1, <1>2, SeqDef

(* What a replay puts into memory is made of records, if every line parses. *)
LEMMA ReplayType ==
  ASSUME TypeOK, ~HasTorn(wal)
  PROVE  wal \in Seq(Record)
<1>1. wal \in Seq(Line)
  BY DEF TypeOK, Line
<1>2. \A i \in 1..Len(wal) : wal[i] \in Record
  BY <1>1, LenProperties, ElementOfSeq DEF HasTorn, Line
<1>3. QED
  BY <1>1, <1>2, ElementsInSeq

(* Two facts the solvers do not find under a concrete Record. *)
LEMMA EmptyTyped == <<>> \in Seq(Record) /\ <<>> \in Seq(Record \cup {Torn})
BY EmptySeq

LEMMA AppendTyped ==
  ASSUME NEW S, NEW s \in Seq(S), NEW x \in S
  PROVE  Append(s, x) \in Seq(S) \ {<<>>}
<1>1. Append(s, x) \in Seq(S) /\ Append(s, x) # <<>>
  BY AppendProperties, Zenon
<1>2. QED
  BY <1>1, Zenon

LEMMA PairAppended ==
  ASSUME NEW S, NEW s \in Seq(S), NEW x \in S, NEW y \in S
  PROVE  s \o <<x, y>> = Append(Append(s, x), y)
OBVIOUS

LEMMA PairTyped ==
  ASSUME NEW S, NEW s \in Seq(S), NEW x \in S, NEW y \in S
  PROVE  s \o <<x, y>> \in Seq(S)
<1>1. <<x, y>> \in Seq(S)
  <2>1. \A i \in 1..2 : <<x, y>>[i] \in S
    OBVIOUS
  <2>2. QED
    BY SMT
<1>2. QED
  BY <1>1, ConcatProperties, Zenon

(* A record made after a well-typed log is a record. *)
LEMMA NewRecordType ==
  ASSUME NEW log \in Seq(Record), NEW n, made + n \in Ids, NEW b \in BOOLEAN
  PROVE  NewRecord(log, n, b) \in Record
<1>1. CASE log = <<>>
  BY <1>1 DEF TailId, NewRecord, Record
<1>2. CASE log # <<>>
  <2>1. log[Len(log)] \in Record
    BY <1>2, EmptySeq, LenProperties, ElementOfSeq
  <2>2. TailId(log) \in Ids
    BY <1>2, <2>1 DEF TailId, Record
  <2>3. QED
    BY <2>2 DEF NewRecord, Record
<1>3. QED
  BY <1>1, <1>2

(* Appending to a well-typed file, whole or cut short, leaves one. *)
LEMMA LandedType ==
  ASSUME NEW lines \in Seq(Line), NEW newline \in BOOLEAN, NEW r \in Record,
         newline \/ lines # <<>>
  PROVE  /\ Landed(lines, newline, r) \in Seq(Line) \ {<<>>}
         /\ WriteCutShort(lines, newline, r) =>
              /\ wal' \in Seq(Line)
              /\ eol' \in BOOLEAN
              /\ ~eol' => wal' # <<>>
<1>1. ~newline => [lines EXCEPT ![Len(lines)] = Torn] \in Seq(Line) \ {<<>>}
  <2> SUFFICES ASSUME lines # <<>>
               PROVE  [lines EXCEPT ![Len(lines)] = Torn] \in Seq(Line) \ {<<>>}
    OBVIOUS
  <2>1. Len(lines) \in 1..Len(lines)
    BY EmptySeq
  <2>2. /\ [lines EXCEPT ![Len(lines)] = Torn] \in Seq(Line)
        /\ Len([lines EXCEPT ![Len(lines)] = Torn]) = Len(lines)
    BY <2>1, ExceptSeq DEF Line
  <2>3. QED
    BY <2>1, <2>2, EmptySeq
<1>2. /\ Append(lines, r) \in Seq(Line) \ {<<>>}
      /\ Append(lines, Torn) \in Seq(Line) \ {<<>>}
  BY DEF Line
<1>3. Landed(lines, newline, r) \in Seq(Line) \ {<<>>}
  BY <1>1, <1>2 DEF Landed
<1>4. WriteCutShort(lines, newline, r) =>
        wal' \in Seq(Line) /\ eol' \in BOOLEAN /\ (~eol' => wal' # <<>>)
  <2>1. CASE wal' = lines /\ eol' = newline
    BY <2>1
  <2>2. CASE newline /\ wal' \in {Append(lines, Torn), Append(lines, r)} /\ eol' = FALSE
    BY <2>2, <1>2
  <2>3. CASE ~newline /\ wal' = [lines EXCEPT ![Len(lines)] = Torn] /\ eol' = FALSE
    BY <2>3, <1>1
  <2>4. QED
    BY <2>1, <2>2, <2>3 DEF WriteCutShort
<1>5. QED
  BY <1>3, <1>4

----------------------------------------------------------------------------
(* Type correctness.  An unterminated file holds at least one line.         *)

TypeInv == TypeOK /\ (~eol => wal # <<>>)

(* recordCSR keeps the types, whether its write succeeds or is cut short. *)
LEMMA PushType ==
  ASSUME TypeInv, NEW r \in Record, Push(r) \/ PushUnwritten(r)
  PROVE  /\ mem' \in Seq(Record)
         /\ wal' \in Seq(Line)
         /\ eol' \in BOOLEAN
         /\ ~eol' => wal' # <<>>
         /\ acked' \subseteq Ids
<1>1. mem \in Seq(Record) /\ wal \in Seq(Line) /\ eol \in BOOLEAN /\ acked \subseteq Ids
  BY DEF TypeInv, TypeOK, Line
<1>2. Append(mem, r) \in Seq(Record) /\ r.id \in Ids
  BY <1>1 DEF Record
<1>3. QED
  BY <1>1, <1>2, LandedType DEF Push, PushUnwritten, TypeInv

(* The two records of a reconciliation are records. *)
LEMMA ReconcileRecords ==
  ASSUME TypeInv, NEW k \in 1..Len(mem), ReconcileNew(k)
  PROVE  LET fork == [id |-> made + 1, prev |-> mem[k].id, seed |-> FALSE]
             note == NewRecord(Append(mem, fork), 2, FALSE)
         IN  /\ made + 2 \in 0..MaxRecords
             /\ fork \in Record
             /\ note \in Record
<1> DEFINE fork == [id |-> made + 1, prev |-> mem[k].id, seed |-> FALSE]
           note == NewRecord(Append(mem, fork), 2, FALSE)
<1>1. mem \in Seq(Record) /\ made \in 0..MaxRecords /\ MaxRecords \in Nat
  BY LogAssumption DEF TypeInv, TypeOK
<1>2. made + 1 \in Ids /\ made + 2 \in Ids
  <2>1. Cardinality(Callers) \in Nat
    BY LogAssumption, FS_CardinalityType
  <2>2. made + 2 + Cardinality(Callers) <= MaxRecords
    BY DEF ReconcileNew, Room
  <2>3. QED
    BY <1>1, <2>1, <2>2 DEF Ids
<1>3. fork \in Record
  <2>1. mem[k] \in Record
    BY <1>1, LenProperties, ElementOfSeq
  <2>2. QED
    BY <1>2, <2>1 DEF Record
<1>4. Append(mem, fork) \in Seq(Record)
  BY <1>1, <1>3, AppendTyped
<1>5. note \in Record
  BY <1>2, <1>4, NewRecordType
<1>6. made + 2 \in 0..MaxRecords
  BY <1>1, <1>2 DEF Ids
<1>7. QED
  BY <1>3, <1>5, <1>6

(* reconcileCsrFork keeps the types. *)
LEMMA ReconcileType ==
  ASSUME TypeInv, NEW k \in 1..Len(mem), ReconcileNew(k)
  PROVE  TypeInv'
<1> DEFINE fork == [id |-> made + 1, prev |-> mem[k].id, seed |-> FALSE]
           note == NewRecord(Append(mem, fork), 2, FALSE)
<1>1. /\ mem \in Seq(Record) /\ wal \in Seq(Line) /\ eol \in BOOLEAN /\ acked \subseteq Ids
      /\ (eol \/ wal # <<>>)
  BY DEF TypeInv, TypeOK, Line
<1>3. made + 2 \in 0..MaxRecords /\ fork \in Record /\ note \in Record
  BY ReconcileRecords
<1>5. note \in Record
  BY <1>3
<1>6. mem \o <<fork, note>> \in Seq(Record)
  BY <1>1, <1>3, <1>5, PairTyped
<1>7. Landed(wal, eol, fork) \in Seq(Line) \ {<<>>}
  BY <1>1, <1>3, LandedType
<1>8. fork.id \in Ids /\ note.id \in Ids
  BY <1>3, <1>5 DEF Record
<1>9. /\ mem' \in Seq(Record) /\ wal' \in Seq(Line) /\ eol' \in BOOLEAN
      /\ acked' \subseteq Ids /\ (~eol' => wal' # <<>>)
  <2>1. CASE /\ mem' = mem \o <<fork, note>>
             /\ wal' = Append(Landed(wal, eol, fork), note)
             /\ eol' = TRUE
             /\ acked' = acked \cup {fork.id, note.id}
    <3>1. wal' \in Seq(Line) /\ wal' # <<>>
      <4>1. note \in Line /\ Landed(wal, eol, fork) \in Seq(Line)
        BY <1>5, <1>7 DEF Line
      <4>2. Append(Landed(wal, eol, fork), note) \in Seq(Line) \ {<<>>}
        BY <4>1, AppendTyped
      <4>3. QED
        BY <2>1, <4>2
    <3>2. QED
      BY <2>1, <3>1, <1>1, <1>6, <1>8
  <2>2. CASE PushUnwritten(fork)
    BY <2>2, <1>3, PushType
  <2>3. CASE /\ mem' = mem \o <<fork, note>>
             /\ WriteCutShort(Landed(wal, eol, fork), TRUE, note)
             /\ acked' = acked \cup {fork.id}
    BY <2>3, <1>1, <1>5, <1>6, <1>7, <1>8, LandedType
  <2>4. QED
    BY <2>1, <2>2, <2>3 DEF ReconcileNew
<1>10. made' \in 0..MaxRecords
  BY <1>3 DEF ReconcileNew
<1>11. QED
  BY <1>9, <1>10 DEF ReconcileNew, TypeInv, TypeOK, Line

(* An operation with room for its record makes one with a fresh identity. *)
LEMMA RoomForOne ==
  ASSUME TypeInv, Room(1)
  PROVE  made + 1 \in Ids
<1>1. Cardinality(Callers) \in Nat
  BY LogAssumption, FS_CardinalityType
<1>2. QED
  BY <1>1, LogAssumption DEF TypeInv, TypeOK, Room, Ids

LEMMA FreshRecord ==
  ASSUME TypeInv, NEW c \in Callers, SeedEndFresh(c)
  PROVE  NewRecord(mem, 1, TRUE) \in Record
<1>1. made + 1 \in Ids
  BY LogAssumption DEF SeedEndFresh, TypeInv, TypeOK, Ids
<1>2. QED
  BY <1>1, NewRecordType DEF TypeInv, TypeOK

LEMMA TypeStep == TypeInv /\ [Next]_vars => TypeInv'
<1> SUFFICES ASSUME TypeInv, [Next]_vars
             PROVE  TypeInv'
  OBVIOUS
<1> USE DEF TypeInv, TypeOK, Line
<1>1. ASSUME NEW c \in Callers, SeedBegin(c)
      PROVE  TypeInv'
  BY <1>1, ReplayType DEF SeedBegin
<1>2. ASSUME NEW c \in Callers, SeedEndFresh(c)
      PROVE  TypeInv'
  <2>1. made + 1 \in Ids
    BY <1>2, LogAssumption DEF SeedEndFresh, Ids
  <2>2. NewRecord(mem, 1, TRUE) \in Record
    BY <2>1, NewRecordType
  <2>3. /\ mem' \in Seq(Record) /\ wal' \in Seq(Line) /\ eol' \in BOOLEAN
        /\ (~eol' => wal' # <<>>) /\ acked' \subseteq Ids
    BY <1>2, <2>2, PushType DEF SeedEndFresh
  <2>4. made' \in 0..MaxRecords
    BY <1>2, <2>1 DEF SeedEndFresh, Ids
  <2>5. seeded' \in BOOLEAN
    BY <1>2 DEF SeedEndFresh
  <2>6. QED
    BY <1>2, <2>3, <2>4, <2>5 DEF SeedEndFresh
<1>3. ASSUME NEW c \in Callers, SeedEndReplayed(c)
      PROVE  TypeInv'
  BY <1>3 DEF SeedEndReplayed
<1>4. CASE RecordCSR
  <2>1. made + 1 \in Ids
    BY <1>4, RoomForOne DEF RecordCSR
  <2>2. NewRecord(mem, 1, FALSE) \in Record
    BY <2>1, NewRecordType
  <2>3. /\ mem' \in Seq(Record) /\ wal' \in Seq(Line) /\ eol' \in BOOLEAN
        /\ (~eol' => wal' # <<>>) /\ acked' \subseteq Ids
    BY <1>4, <2>2, PushType DEF RecordCSR
  <2>4. made' \in 0..MaxRecords
    BY <1>4, <2>1 DEF RecordCSR, Ids
  <2>5. QED
    BY <1>4, <2>3, <2>4 DEF RecordCSR
<1>5. ASSUME NEW k \in 1..Len(mem), ReconcileNew(k)
      PROVE  TypeInv'
  BY <1>5, ReconcileType
<1>6. CASE ResetKernel
  BY <1>6, EmptyTyped DEF ResetKernel
<1>7. CASE Crash
  BY <1>7, EmptyTyped DEF Crash, Restart
<1>8. CASE CrashInAppend
  <2>1. made + 1 \in Ids
    BY <1>8, RoomForOne DEF CrashInAppend
  <2>2. PICK isSeed \in BOOLEAN : WriteCutShort(wal, eol, NewRecord(mem, 1, isSeed))
    BY <1>8 DEF CrashInAppend
  <2>3. NewRecord(mem, 1, isSeed) \in Record
    BY <2>1, NewRecordType
  <2>4. wal' \in Seq(Line) /\ eol' \in BOOLEAN /\ (~eol' => wal' # <<>>)
    BY <2>2, <2>3, LandedType
  <2>5. made' \in 0..MaxRecords
    BY <1>8, <2>1 DEF CrashInAppend, Ids
  <2>6. QED
    BY <1>8, <2>4, <2>5, EmptyTyped DEF CrashInAppend, Restart
<1>9. CASE UNCHANGED vars
  BY <1>9 DEF vars
<1>10. QED
  BY <1>1, <1>2, <1>3, <1>4, <1>5, <1>6, <1>7, <1>8, <1>9 DEF Next

LEMMA TypeInvariant == Spec => []TypeInv
<1>1. Init => TypeInv
  <2>1. 0 \in 0..MaxRecords
    BY LogAssumption
  <2>2. QED
    BY <2>1, EmptyTyped DEF Init, TypeInv, TypeOK
<1>2. QED
  BY <1>1, TypeStep, PTL DEF Spec

(* Whatever the disk does and whoever races, every variable keeps the type *)
(* the code gives it; in particular a torn line never reaches memory.      *)
THEOREM TypeCorrect == Spec => []TypeOK
<1>1. TypeInv => TypeOK
  BY DEF TypeInv
<1>2. QED
  BY <1>1, TypeInvariant, PTL

----------------------------------------------------------------------------
(* A seeded kernel shows every confirmed record.                            *)

(* Appending a line loses no line, and no tear. *)
LEMMA AppendKeeps ==
  ASSUME NEW log \in Seq(Line), NEW x \in Line
  PROVE  /\ HasTorn(log) => HasTorn(Append(log, x))
         /\ IdsOf(log) \subseteq IdsOf(Append(log, x))
         /\ x # Torn => x.id \in IdsOf(Append(log, x))
         /\ x = Torn => HasTorn(Append(log, x))
<1> DEFINE longer == Append(log, x)
<1>1. /\ Len(log) \in Nat
      /\ DOMAIN log = 1..Len(log)
      /\ DOMAIN longer = 1..(Len(log) + 1)
      /\ \A i \in 1..Len(log) : longer[i] = log[i]
      /\ longer[Len(log) + 1] = x
  BY AppendProperties, LenProperties
<1> HIDE DEF longer
<1>2. /\ DOMAIN log \subseteq DOMAIN longer
      /\ \A i \in DOMAIN log : longer[i] = log[i]
      /\ Len(log) + 1 \in DOMAIN longer
  BY <1>1
<1>3. HasTorn(log) => HasTorn(longer)
  BY <1>2 DEF HasTorn
<1>4. IdsOf(log) \subseteq IdsOf(longer)
  BY <1>2 DEF IdsOf
<1>5. x # Torn => x.id \in IdsOf(longer)
  BY <1>1, <1>2 DEF IdsOf
<1>6. x = Torn => HasTorn(longer)
  BY <1>1, <1>2 DEF HasTorn
<1>7. QED
  BY <1>3, <1>4, <1>5, <1>6 DEF longer

(* Concatenation shows what either log shows. *)
LEMMA ConcatKeeps ==
  ASSUME NEW a \in Seq(Line), NEW b \in Seq(Line)
  PROVE  IdsOf(a) \cup IdsOf(b) \subseteq IdsOf(a \o b)
<1>1. /\ Len(a) \in Nat /\ Len(b) \in Nat
      /\ DOMAIN a = 1..Len(a) /\ DOMAIN b = 1..Len(b)
      /\ DOMAIN (a \o b) = 1..(Len(a) + Len(b))
      /\ \A i \in 1..Len(a) : (a \o b)[i] = a[i]
      /\ \A i \in 1..Len(b) : (a \o b)[Len(a) + i] = b[i]
  BY ConcatProperties, LenProperties
<1>2. ASSUME NEW i \in DOMAIN a, a[i] # Torn
      PROVE  a[i].id \in IdsOf(a \o b)
  BY <1>1, <1>2 DEF IdsOf
<1>3. ASSUME NEW i \in DOMAIN b, b[i] # Torn
      PROVE  b[i].id \in IdsOf(a \o b)
  <2>1. Len(a) + i \in DOMAIN (a \o b) /\ (a \o b)[Len(a) + i] = b[i]
    BY <1>1
  <2>2. QED
    BY <1>3, <2>1 DEF IdsOf
<1>4. QED
  BY <1>2, <1>3 DEF IdsOf

(* Gluing a record to an unterminated last line tears the file. *)
LEMMA GluedTears ==
  ASSUME NEW lines \in Seq(Line), lines # <<>>
  PROVE  HasTorn([lines EXCEPT ![Len(lines)] = Torn])
<1>1. Len(lines) \in DOMAIN lines
  BY EmptySeq, LenProperties
<1>2. QED
  BY <1>1 DEF HasTorn

(* What a file shows or is torn, it shows or is torn after an append. *)
LEMMA LandedKeeps ==
  ASSUME NEW lines \in Seq(Line), NEW newline \in BOOLEAN, newline \/ lines # <<>>,
         NEW r \in Record, NEW ids, HasTorn(lines) \/ ids \subseteq IdsOf(lines)
  PROVE  /\ \/ HasTorn(Landed(lines, newline, r))
            \/ ids \cup {r.id} \subseteq IdsOf(Landed(lines, newline, r))
         /\ WriteCutShort(lines, newline, r) =>
              HasTorn(wal') \/ ids \subseteq IdsOf(wal')
<1>1. r \in Line /\ r # Torn /\ Torn \in Line
  BY LogAssumption DEF Line
<1>2. \/ HasTorn(Append(lines, r))
      \/ ids \cup {r.id} \subseteq IdsOf(Append(lines, r))
  BY <1>1, AppendKeeps
<1>3. HasTorn(Append(lines, Torn))
  BY <1>1, AppendKeeps
<1>4. ~newline => HasTorn([lines EXCEPT ![Len(lines)] = Torn])
  BY GluedTears
<1>5. WriteCutShort(lines, newline, r) =>
        \/ wal' = lines \/ wal' = Append(lines, r) \/ wal' = Append(lines, Torn)
        \/ ~newline /\ wal' = [lines EXCEPT ![Len(lines)] = Torn]
  BY DEF WriteCutShort
<1>6. QED
  BY <1>2, <1>3, <1>4, <1>5 DEF Landed

(* Confirmed records are in a file that parses, and in the memory of every  *)
(* process that has replayed the file: seeded, or about to be.              *)
SeenInv ==
  /\ HasTorn(wal) \/ acked \subseteq IdsOf(wal)
  /\ SeededSeesAcked
  /\ \A c \in Callers : pc[c] = "awaiting" => acked \subseteq IdsOf(mem)

(* recordCSR keeps it, whether its write succeeds or is cut short. *)
LEMMA PushSeen ==
  ASSUME TypeInv, SeenInv, NEW r \in Record, Push(r) \/ PushUnwritten(r)
  PROVE  /\ HasTorn(wal') \/ acked' \subseteq IdsOf(wal')
         /\ acked \subseteq IdsOf(mem) => acked' \subseteq IdsOf(mem')
<1>1. mem \in Seq(Line) /\ wal \in Seq(Line) /\ eol \in BOOLEAN /\ (eol \/ wal # <<>>)
  BY SeqMonotonic DEF TypeInv, TypeOK, Line
<1>2. r \in Line /\ r # Torn
  BY LogAssumption DEF Line
<1>3. IdsOf(mem) \cup {r.id} \subseteq IdsOf(Append(mem, r))
  BY <1>1, <1>2, AppendKeeps
<1>4. HasTorn(wal) \/ acked \subseteq IdsOf(wal)
  BY DEF SeenInv
<1>5. CASE Push(r)
  BY <1>1, <1>3, <1>4, <1>5, LandedKeeps DEF Push
<1>6. CASE PushUnwritten(r)
  BY <1>1, <1>3, <1>4, <1>6, LandedKeeps DEF PushUnwritten
<1>7. QED
  BY <1>5, <1>6

LEMMA ReconcileSeen ==
  ASSUME TypeInv, SeenInv, NEW k \in 1..Len(mem), ReconcileNew(k)
  PROVE  /\ HasTorn(wal') \/ acked' \subseteq IdsOf(wal')
         /\ acked \subseteq IdsOf(mem) => acked' \subseteq IdsOf(mem')
<1> DEFINE fork == [id |-> made + 1, prev |-> mem[k].id, seed |-> FALSE]
           note == NewRecord(Append(mem, fork), 2, FALSE)
<1>1. /\ mem \in Seq(Record) /\ mem \in Seq(Line) /\ wal \in Seq(Line)
      /\ eol \in BOOLEAN /\ (eol \/ wal # <<>>)
  BY SeqMonotonic DEF TypeInv, TypeOK, Line
<1>2. fork \in Record /\ note \in Record
  BY ReconcileRecords
<1>3. fork \in Line /\ note \in Line /\ fork # Torn /\ note # Torn
  BY <1>2, LogAssumption DEF Line
<1>4. HasTorn(wal) \/ acked \subseteq IdsOf(wal)
  BY DEF SeenInv
<1>5. mem \o <<fork, note>> = Append(Append(mem, fork), note)
  <2>1. \A x, y \in Record : mem \o <<x, y>> = Append(Append(mem, x), y)
    BY <1>1, PairAppended
  <2> HIDE DEF fork, note
  <2>2. QED
    BY <1>2, <2>1
<1>6. CASE PushUnwritten(fork)
  BY <1>2, <1>6, PushSeen
<1>7. ASSUME mem' = mem \o <<fork, note>>
      PROVE  IdsOf(mem) \cup {fork.id, note.id} \subseteq IdsOf(mem')
  <2>1. Append(mem, fork) \in Seq(Line)
    BY <1>1, <1>3, AppendTyped
  <2>2. QED
    BY <2>1, <1>1, <1>3, <1>5, <1>7, AppendKeeps
<1> DEFINE landed == Landed(wal, eol, fork)
<1>8. /\ landed \in Seq(Line)
      /\ HasTorn(landed) \/ acked \cup {fork.id} \subseteq IdsOf(landed)
  BY <1>1, <1>2, <1>4, LandedKeeps, LandedType
<1> HIDE DEF landed, fork, note
<1>9. /\ \/ HasTorn(Append(landed, note))
         \/ acked \cup {fork.id, note.id} \subseteq IdsOf(Append(landed, note))
      /\ WriteCutShort(landed, TRUE, note) =>
           HasTorn(wal') \/ acked \cup {fork.id} \subseteq IdsOf(wal')
  <2>1. TRUE \in BOOLEAN
    OBVIOUS
  <2>2. Landed(landed, TRUE, note) = Append(landed, note)
    BY DEF Landed
  <2>3. QED
    BY <2>1, <2>2, <1>2, <1>8, LandedKeeps
<1>10. CASE /\ mem' = mem \o <<fork, note>>
            /\ wal' = Append(landed, note)
            /\ acked' = acked \cup {fork.id, note.id}
  BY <1>7, <1>9, <1>10
<1>11. CASE /\ mem' = mem \o <<fork, note>>
            /\ WriteCutShort(landed, TRUE, note)
            /\ acked' = acked \cup {fork.id}
  BY <1>7, <1>9, <1>11
<1>12. QED
  BY <1>6, <1>10, <1>11 DEF ReconcileNew, landed, fork, note

LEMMA SeenStep == TypeInv /\ SeenInv /\ [Next]_vars => SeenInv'
<1> SUFFICES ASSUME TypeInv, SeenInv, [Next]_vars
             PROVE  SeenInv'
  OBVIOUS
<1>1. mem \in Seq(Line) /\ wal \in Seq(Line) /\ eol \in BOOLEAN /\ (eol \/ wal # <<>>)
  BY SeqMonotonic DEF TypeInv, TypeOK, Line
<1>2. pc \in [Callers -> {"idle", "awaiting"}]
  BY DEF TypeInv, TypeOK
<1>3. ASSUME NEW c \in Callers, SeedBegin(c)
      PROVE  SeenInv'
  <2>1. acked \subseteq IdsOf(mem')
    BY <1>1, <1>3, ConcatKeeps DEF SeedBegin, SeenInv
  <2>2. QED
    BY <1>3, <2>1 DEF SeedBegin, SeenInv, SeededSeesAcked
<1>4. ASSUME NEW c \in Callers, SeedEndFresh(c)
      PROVE  SeenInv'
  <2>1. NewRecord(mem, 1, TRUE) \in Record
    BY <1>4, FreshRecord
  <2>2. acked \subseteq IdsOf(mem)
    BY <1>4 DEF SeedEndFresh, SeenInv
  <2>3. (HasTorn(wal') \/ acked' \subseteq IdsOf(wal')) /\ acked' \subseteq IdsOf(mem')
    BY <1>4, <2>1, <2>2, PushSeen DEF SeedEndFresh
  <2>4. QED
    BY <2>3 DEF SeenInv, SeededSeesAcked
<1>5. ASSUME NEW c \in Callers, SeedEndReplayed(c)
      PROVE  SeenInv'
  BY <1>2, <1>5 DEF SeedEndReplayed, SeenInv, SeededSeesAcked
<1>6. ASSUME \/ RecordCSR
             \/ \E k \in 1..Len(mem) : ReconcileNew(k)
      PROVE  SeenInv'
  <2>1. /\ HasTorn(wal') \/ acked' \subseteq IdsOf(wal')
        /\ acked \subseteq IdsOf(mem) => acked' \subseteq IdsOf(mem')
    <3>1. CASE RecordCSR
      <4>1. NewRecord(mem, 1, FALSE) \in Record
        BY <3>1, RoomForOne, NewRecordType DEF RecordCSR, TypeInv, TypeOK
      <4>2. QED
        BY <3>1, <4>1, PushSeen DEF RecordCSR
    <3>2. CASE \E k \in 1..Len(mem) : ReconcileNew(k)
      BY <3>2, ReconcileSeen
    <3>3. QED
      BY <1>6, <3>1, <3>2
  <2>2. seeded' = seeded /\ pc' = pc
    BY <1>6 DEF RecordCSR, ReconcileNew
  <2>3. QED
    BY <2>1, <2>2 DEF SeenInv, SeededSeesAcked
<1>7. CASE ResetKernel
  BY <1>7 DEF ResetKernel, SeenInv, SeededSeesAcked
<1>8. CASE Crash
  BY <1>8 DEF Crash, Restart, SeenInv, SeededSeesAcked
<1>9. CASE CrashInAppend
  <2>1. PICK isSeed \in BOOLEAN : WriteCutShort(wal, eol, NewRecord(mem, 1, isSeed))
    BY <1>9 DEF CrashInAppend
  <2>2. NewRecord(mem, 1, isSeed) \in Record
    BY <1>9, RoomForOne, NewRecordType DEF CrashInAppend, TypeInv, TypeOK
  <2>3. HasTorn(wal') \/ acked \subseteq IdsOf(wal')
    BY <1>1, <2>1, <2>2, LandedKeeps DEF SeenInv
  <2>4. QED
    BY <1>9, <2>3 DEF CrashInAppend, Restart, SeenInv, SeededSeesAcked
<1>10. CASE UNCHANGED vars
  BY <1>10 DEF vars, SeenInv, SeededSeesAcked
<1>11. QED
  BY <1>3, <1>4, <1>5, <1>6, <1>7, <1>8, <1>9, <1>10 DEF Next

LEMMA SeenInvariant == Spec => []SeenInv
<1>1. Init => SeenInv
  BY DEF Init, SeenInv, SeededSeesAcked
<1>2. QED
  BY <1>1, TypeInvariant, SeenStep, PTL DEF Spec

(* A kernel that calls itself seeded shows every record it ever confirmed: *)
(* with any number of racing seedKernel callers, writes before seeding,    *)
(* failed and torn writes, crashes and stray forks.                        *)
THEOREM SeededSees == Spec => []SeededSeesAcked
<1>1. SeenInv => SeededSeesAcked
  BY DEF SeenInv
<1>2. QED
  BY <1>1, SeenInvariant, PTL

----------------------------------------------------------------------------
(* No record is on disk twice.                                              *)

(* The identities on these lines differ and are at most m. *)
Distinct(lines, m) ==
  /\ \A i \in DOMAIN lines : lines[i] # Torn => lines[i].id <= m
  /\ \A i, j \in DOMAIN lines :
       lines[i] # Torn /\ lines[j] # Torn /\ lines[i].id = lines[j].id => i = j

LEMMA IdsAreIntegers ==
  ASSUME NEW lines \in Seq(Line)
  PROVE  /\ DOMAIN lines = 1..Len(lines) /\ Len(lines) \in Nat
         /\ \A i \in DOMAIN lines : lines[i] # Torn => lines[i].id \in Nat
<1>1. \A i \in DOMAIN lines : lines[i] \in Line
  BY LenProperties, ElementOfSeq
<1>2. \A r \in Record : r.id \in Nat
  BY LogAssumption DEF Record, Ids
<1>3. QED
  BY <1>1, <1>2, LenProperties DEF Line

(* Appending a line with a higher identity, or a torn one. *)
LEMMA DistinctAppend ==
  ASSUME NEW lines \in Seq(Line), NEW x \in Line, NEW m \in Nat, NEW n \in Nat, m < n,
         Distinct(lines, m), x = Torn \/ x.id = n
  PROVE  Distinct(Append(lines, x), n)
<1> DEFINE longer == Append(lines, x)
<1>1. /\ DOMAIN longer = 1..(Len(lines) + 1)
      /\ \A i \in 1..Len(lines) : longer[i] = lines[i]
      /\ longer[Len(lines) + 1] = x
  BY AppendProperties
<1> HIDE DEF longer
<1>2. /\ DOMAIN longer = DOMAIN lines \cup {Len(lines) + 1}
      /\ \A i \in DOMAIN lines : longer[i] = lines[i]
  BY <1>1, IdsAreIntegers
<1>3. \A i \in DOMAIN lines : lines[i] # Torn => lines[i].id <= n /\ lines[i].id # n
  BY IdsAreIntegers DEF Distinct
<1>4. QED
  BY <1>1, <1>2, <1>3 DEF Distinct, longer

LEMMA DistinctTorn ==
  ASSUME NEW lines \in Seq(Line), lines # <<>>, NEW m, Distinct(lines, m)
  PROVE  Distinct([lines EXCEPT ![Len(lines)] = Torn], m)
BY DEF Distinct

LEMMA DistinctWeaker ==
  ASSUME NEW lines \in Seq(Line), NEW m \in Nat, NEW n \in Nat, m <= n, Distinct(lines, m)
  PROVE  Distinct(lines, n)
BY IdsAreIntegers DEF Distinct

LEMMA LandedDistinct ==
  ASSUME NEW lines \in Seq(Line), NEW newline \in BOOLEAN, newline \/ lines # <<>>,
         NEW r \in Record, NEW m \in Nat, m < r.id, Distinct(lines, m)
  PROVE  /\ Distinct(Landed(lines, newline, r), r.id)
         /\ WriteCutShort(lines, newline, r) => Distinct(wal', r.id)
<1>1. r \in Line /\ Torn \in Line /\ r.id \in Nat /\ m <= r.id
  BY LogAssumption DEF Line, Record, Ids
<1>2. Distinct(Append(lines, r), r.id) /\ Distinct(Append(lines, Torn), r.id)
  BY <1>1, DistinctAppend
<1>3. Distinct(lines, r.id)
  BY <1>1, DistinctWeaker
<1>4. ~newline => Distinct([lines EXCEPT ![Len(lines)] = Torn], r.id)
  BY <1>3, DistinctTorn
<1>5. WriteCutShort(lines, newline, r) =>
        \/ wal' = lines \/ wal' = Append(lines, r) \/ wal' = Append(lines, Torn)
        \/ ~newline /\ wal' = [lines EXCEPT ![Len(lines)] = Torn]
  BY DEF WriteCutShort
<1>6. QED
  BY <1>2, <1>3, <1>4, <1>5 DEF Landed

LEMMA PushDistinct ==
  ASSUME TypeInv, Distinct(wal, made), NEW r \in Record, r.id = made + 1,
         Push(r) \/ PushUnwritten(r)
  PROVE  Distinct(wal', made + 1)
<1>1. wal \in Seq(Line) /\ eol \in BOOLEAN /\ (eol \/ wal # <<>>) /\ made \in Nat
  BY LogAssumption DEF TypeInv, TypeOK, Line
<1>2. made < r.id
  BY <1>1
<1>3. QED
  BY <1>1, <1>2, LandedDistinct DEF Push, PushUnwritten

LEMMA ReconcileDistinct ==
  ASSUME TypeInv, Distinct(wal, made), NEW k \in 1..Len(mem), ReconcileNew(k)
  PROVE  Distinct(wal', made')
<1> DEFINE fork == [id |-> made + 1, prev |-> mem[k].id, seed |-> FALSE]
           note == NewRecord(Append(mem, fork), 2, FALSE)
           landed == Landed(wal, eol, fork)
<1>1. /\ wal \in Seq(Line) /\ eol \in BOOLEAN /\ (eol \/ wal # <<>>) /\ made \in Nat
      /\ made' = made + 2
  BY LogAssumption DEF TypeInv, TypeOK, Line, ReconcileNew
<1>2. fork \in Record /\ note \in Record /\ fork.id = made + 1 /\ note.id = made + 2
  BY ReconcileRecords DEF NewRecord
<1>3. \/ wal' = Append(landed, note)
      \/ PushUnwritten(fork)
      \/ WriteCutShort(landed, TRUE, note)
  BY DEF ReconcileNew
<1> HIDE DEF fork, note
<1>4. landed \in Seq(Line) /\ Distinct(landed, fork.id) /\ fork.id \in Nat
  BY <1>1, <1>2, LandedType, LandedDistinct
<1> HIDE DEF landed
<1>5. Landed(landed, TRUE, note) = Append(landed, note)
  BY DEF Landed
<1>6. /\ Distinct(Append(landed, note), made + 2)
      /\ WriteCutShort(landed, TRUE, note) => Distinct(wal', made + 2)
  <2>1. fork.id < note.id /\ TRUE \in BOOLEAN
    BY <1>1, <1>2
  <2>2. QED
    BY <1>2, <1>4, <1>5, <2>1, LandedDistinct
<1>7. PushUnwritten(fork) => Distinct(wal', made + 2)
  <2> SUFFICES ASSUME PushUnwritten(fork)
               PROVE  Distinct(wal', made + 2)
    OBVIOUS
  <2>1. Distinct(wal', made + 1) /\ wal' \in Seq(Line)
    BY <1>2, PushDistinct, PushType
  <2>2. QED
    BY <1>1, <2>1, DistinctWeaker
<1>8. QED
  BY <1>1, <1>3, <1>6, <1>7

LEMMA DistinctStep == TypeInv /\ Distinct(wal, made) /\ [Next]_vars => Distinct(wal, made)'
<1> SUFFICES ASSUME TypeInv, Distinct(wal, made), [Next]_vars
             PROVE  Distinct(wal', made')
  OBVIOUS
<1>1. ASSUME NEW c \in Callers, SeedEndFresh(c)
      PROVE  Distinct(wal', made')
  <2>1. NewRecord(mem, 1, TRUE) \in Record /\ NewRecord(mem, 1, TRUE).id = made + 1
    BY <1>1, FreshRecord DEF NewRecord
  <2>2. QED
    BY <1>1, <2>1, PushDistinct DEF SeedEndFresh
<1>2. CASE RecordCSR
  <2>1. NewRecord(mem, 1, FALSE) \in Record /\ NewRecord(mem, 1, FALSE).id = made + 1
    BY <1>2, RoomForOne, NewRecordType DEF RecordCSR, TypeInv, TypeOK, NewRecord
  <2>2. QED
    BY <1>2, <2>1, PushDistinct DEF RecordCSR
<1>3. ASSUME NEW k \in 1..Len(mem), ReconcileNew(k)
      PROVE  Distinct(wal', made')
  BY <1>3, ReconcileDistinct
<1>4. CASE ResetKernel
  BY <1>4 DEF ResetKernel, Distinct
<1>5. CASE CrashInAppend
  <2>1. PICK isSeed \in BOOLEAN : WriteCutShort(wal, eol, NewRecord(mem, 1, isSeed))
    BY <1>5 DEF CrashInAppend
  <2>2. NewRecord(mem, 1, isSeed) \in Record /\ NewRecord(mem, 1, isSeed).id = made + 1
    BY <1>5, RoomForOne, NewRecordType DEF CrashInAppend, TypeInv, TypeOK, NewRecord
  <2>3. wal \in Seq(Line) /\ eol \in BOOLEAN /\ (eol \/ wal # <<>>) /\ made \in Nat
    BY LogAssumption DEF TypeInv, TypeOK, Line
  <2>4. made < made + 1
    BY <2>3
  <2>5. QED
    BY <1>5, <2>1, <2>2, <2>3, <2>4, LandedDistinct DEF CrashInAppend
<1>6. CASE UNCHANGED <<wal, made>>
  BY <1>6
<1>7. QED
  BY <1>1, <1>2, <1>3, <1>4, <1>5, <1>6
  DEF Next, SeedBegin, SeedEndReplayed, Crash, vars

(* Replaying, crashing and racing never write a record a second time.       *)
THEOREM NothingTwiceOnDisk == Spec => []NoDuplicateOnDisk
<1>1. Init => Distinct(wal, made)
  BY DEF Init, Distinct
<1>2. Distinct(wal, made) => NoDuplicateOnDisk
  BY DEF Distinct, NoDuplicateOnDisk
<1>3. QED
  BY <1>1, <1>2, TypeInvariant, DistinctStep, PTL DEF Spec

----------------------------------------------------------------------------
(* Only a tear loses a confirmed record, and only the disk tears.           *)

(* Whatever raced and however badly the disk behaved, a confirmed record is *)
(* in the file; it can be missing from what replayWal returns only because  *)
(* a line does not parse and replayWal throws.                              *)
THEOREM OnlyTearsLose == Spec => [](HasTorn(wal) \/ acked \subseteq IdsOf(wal))
<1>1. SeenInv => HasTorn(wal) \/ acked \subseteq IdsOf(wal)
  BY DEF SeenInv
<1>2. QED
  BY <1>1, SeenInvariant, PTL

(* What a file holds, it goes on holding; only its last line may be torn,   *)
(* and only while that line lacks its newline.                              *)
KeepsLines(lines, newline, new) ==
  /\ Len(lines) <= Len(new)
  /\ \A i \in 1..Len(lines) :
       new[i] = lines[i] \/ (i = Len(lines) /\ ~newline /\ new[i] = Torn)

(* An append, whole or cut short, does not touch what lies before the end.  *)
LEMMA LandedKeepsLines ==
  ASSUME NEW lines \in Seq(Line), NEW newline \in BOOLEAN, newline \/ lines # <<>>,
         NEW r \in Record
  PROVE  /\ KeepsLines(lines, newline, Landed(lines, newline, r))
         /\ WriteCutShort(lines, newline, r) => KeepsLines(lines, newline, wal')
<1>1. Len(lines) \in Nat /\ DOMAIN lines = 1..Len(lines)
  OBVIOUS
<1>2. ASSUME NEW x \in Line PROVE KeepsLines(lines, newline, Append(lines, x))
  BY <1>1, AppendProperties DEF KeepsLines
<1>3. ~newline => KeepsLines(lines, newline, [lines EXCEPT ![Len(lines)] = Torn])
  <2> DEFINE glued == [lines EXCEPT ![Len(lines)] = Torn]
  <2>1. Len(glued) = Len(lines)
    BY <1>1
  <2>2. \A i \in 1..Len(lines) : glued[i] = IF i = Len(lines) THEN Torn ELSE lines[i]
    BY <1>1
  <2> HIDE DEF glued
  <2>3. Len(lines) <= Len(glued)
    BY <1>1, <2>1
  <2>4. QED
    BY <2>2, <2>3 DEF KeepsLines, glued
<1>4. KeepsLines(lines, newline, lines)
  BY <1>1 DEF KeepsLines
<1>5. r \in Line /\ Torn \in Line
  BY DEF Line
<1>6. QED
  BY <1>2, <1>3, <1>4, <1>5 DEF Landed, WriteCutShort

LEMMA KeptLinesStay ==
  ASSUME NEW a \in Seq(Line), NEW newline \in BOOLEAN, NEW b \in Seq(Line), NEW c \in Seq(Line),
         KeepsLines(a, newline, b), KeepsLines(b, TRUE, c)
  PROVE  KeepsLines(a, newline, c)
<1>1. Len(a) \in Nat /\ Len(b) \in Nat /\ Len(c) \in Nat
  OBVIOUS
<1>2. ASSUME NEW i \in 1..Len(a)
      PROVE  c[i] = a[i] \/ (i = Len(a) /\ ~newline /\ c[i] = Torn)
  <2>1. i \in 1..Len(b)
    BY <1>1 DEF KeepsLines
  <2>2. QED
    BY <2>1 DEF KeepsLines
<1>3. QED
  BY <1>1, <1>2 DEF KeepsLines

(* The fork and its note, as far as they get.                               *)
LEMMA ReconcileKeepsLines ==
  ASSUME TypeInv, NEW k \in 1..Len(mem), ReconcileNew(k)
  PROVE  KeepsLines(wal, eol, wal')
<1> DEFINE fork == [id |-> made + 1, prev |-> mem[k].id, seed |-> FALSE]
           note == NewRecord(Append(mem, fork), 2, FALSE)
<1>1. fork \in Record /\ note \in Record
  BY ReconcileRecords DEF ReconcileNew
<1>2. /\ wal \in Seq(Line) /\ eol \in BOOLEAN /\ (eol \/ wal # <<>>)
  BY DEF TypeInv, TypeOK, Line
<1>3. \/ wal' = Append(Landed(wal, eol, fork), note)
      \/ WriteCutShort(wal, eol, fork)
      \/ WriteCutShort(Landed(wal, eol, fork), TRUE, note)
  BY DEF ReconcileNew, PushUnwritten
<1> HIDE DEF fork, note
<1>4. Landed(wal, eol, fork) \in Seq(Line) /\ KeepsLines(wal, eol, Landed(wal, eol, fork))
  BY <1>1, <1>2, LandedType, LandedKeepsLines
<1>5. /\ Append(Landed(wal, eol, fork), note) \in Seq(Line)
      /\ KeepsLines(Landed(wal, eol, fork), TRUE, Append(Landed(wal, eol, fork), note))
  <2>1. Landed(Landed(wal, eol, fork), TRUE, note) = Append(Landed(wal, eol, fork), note)
    BY DEF Landed
  <2>2. QED
    BY <1>1, <1>4, <2>1, LandedType, LandedKeepsLines
<1>6. WriteCutShort(Landed(wal, eol, fork), TRUE, note) =>
        wal' \in Seq(Line) /\ KeepsLines(Landed(wal, eol, fork), TRUE, wal')
  BY <1>1, <1>4, LandedType, LandedKeepsLines
<1>7. CASE wal' = Append(Landed(wal, eol, fork), note)
  <2>1. KeepsLines(wal, eol, Append(Landed(wal, eol, fork), note))
    BY <1>2, <1>4, <1>5, KeptLinesStay
  <2>2. QED
    BY <1>7, <2>1
<1>8. CASE WriteCutShort(wal, eol, fork)
  BY <1>1, <1>2, <1>8, LandedKeepsLines
<1>9. CASE WriteCutShort(Landed(wal, eol, fork), TRUE, note)
  BY <1>2, <1>4, <1>6, <1>9, KeptLinesStay
<1>10. QED
  BY <1>3, <1>7, <1>8, <1>9

LEMMA LinesStep ==
  ASSUME TypeInv, [Next]_vars
  PROVE  [ResetKernel \/ KeepsLines(wal, eol, wal')]_vars
<1>1. wal \in Seq(Line) /\ eol \in BOOLEAN /\ (eol \/ wal # <<>>) /\ mem \in Seq(Record)
  BY DEF TypeInv, TypeOK, Line
<1>2. KeepsLines(wal, eol, wal)
  <2>1. Len(wal) \in Nat
    BY <1>1
  <2>2. QED
    BY <2>1 DEF KeepsLines
<1>3. ASSUME NEW r \in Record, Push(r) \/ PushUnwritten(r)
      PROVE  KeepsLines(wal, eol, wal')
  BY <1>1, <1>3, LandedKeepsLines DEF Push, PushUnwritten
<1>4. ASSUME NEW c \in Callers, SeedBegin(c) \/ SeedEndFresh(c) \/ SeedEndReplayed(c)
      PROVE  KeepsLines(wal, eol, wal')
  <2>1. CASE SeedEndFresh(c)
    <3>1. NewRecord(mem, 1, TRUE) \in Record
      BY <2>1, FreshRecord
    <3>2. QED
      BY <2>1, <3>1, <1>3 DEF SeedEndFresh
  <2>2. QED
    BY <1>2, <1>4, <2>1 DEF SeedBegin, SeedEndReplayed
<1>5. CASE RecordCSR
  <2>1. NewRecord(mem, 1, FALSE) \in Record
    BY <1>1, <1>5, NewRecordType, RoomForOne DEF RecordCSR
  <2>2. QED
    BY <1>5, <2>1, <1>3 DEF RecordCSR
<1>6. ASSUME NEW k \in 1..Len(mem), ReconcileNew(k) PROVE KeepsLines(wal, eol, wal')
  BY <1>6, ReconcileKeepsLines
<1>7. CASE Crash
  BY <1>2, <1>7 DEF Crash
<1>8. CASE CrashInAppend
  <2>1. PICK isSeed \in BOOLEAN : WriteCutShort(wal, eol, NewRecord(mem, 1, isSeed))
    BY <1>8 DEF CrashInAppend
  <2>2. NewRecord(mem, 1, isSeed) \in Record
    BY <1>1, <1>8, NewRecordType, RoomForOne DEF CrashInAppend
  <2>3. QED
    BY <1>1, <2>1, <2>2, LandedKeepsLines
<1>9. QED
  BY <1>4, <1>5, <1>6, <1>7, <1>8 DEF Next

(* csr.wal is only ever appended to: whatever races, dies or fails, nothing *)
(* but resetKernel removes a line, and a fault can spoil the last one only. *)
THEOREM FileOnlyGrows == Spec => [][ResetKernel \/ KeepsLines(wal, eol, wal')]_vars
BY TypeInvariant, LinesStep, PTL DEF Spec

Untorn == eol /\ ~HasTorn(wal)

(* A whole line at the end of a whole file. *)
LEMMA AppendUntorn ==
  ASSUME NEW lines \in Seq(Line), ~HasTorn(lines), NEW r \in Record
  PROVE  ~HasTorn(Append(lines, r)) /\ Append(lines, r) \in Seq(Line)
<1> DEFINE longer == Append(lines, r)
<1>1. r \in Line /\ r # Torn
  BY LogAssumption DEF Line
<1>2. /\ longer \in Seq(Line)
      /\ DOMAIN lines = 1..Len(lines)
      /\ DOMAIN longer = 1..(Len(lines) + 1)
      /\ \A i \in 1..Len(lines) : longer[i] = lines[i]
      /\ longer[Len(lines) + 1] = r
  BY <1>1, AppendProperties, LenProperties
<1> HIDE DEF longer
<1>3. \A i \in DOMAIN longer : longer[i] # Torn
  <2> TAKE i \in DOMAIN longer
  <2>1. CASE i = Len(lines) + 1
    BY <1>1, <1>2, <2>1
  <2>2. CASE i # Len(lines) + 1
    <3>1. Len(lines) \in Nat
      BY LenProperties
    <3>2. i \in 1..Len(lines)
      BY <1>2, <2>2, <3>1
    <3>3. QED
      BY <1>2, <3>2 DEF HasTorn
  <2>3. QED
    BY <2>1, <2>2
<1>4. QED
  BY <1>2, <1>3 DEF HasTorn, longer

(* On a working disk operations append whole lines, to any whole file.      *)
LEMMA WholeLines ==
  ASSUME WorkingDisk, TypeInv, Untorn,
         \/ RecordCSR
         \/ \E k \in 1..Len(mem) : ReconcileNew(k)
         \/ \E c \in Callers : SeedEndFresh(c)
  PROVE  /\ eol'
         /\ \/ \E r \in Record : wal' = Append(wal, r)
            \/ \E r, q \in Record : wal' = Append(Append(wal, r), q)
<1>1. CASE RecordCSR
  <2>1. NewRecord(mem, 1, FALSE) \in Record
    BY <1>1, RoomForOne, NewRecordType DEF RecordCSR, TypeInv, TypeOK
  <2>2. QED
    BY <1>1, <2>1 DEF RecordCSR, Push, PushUnwritten, Landed, WorkingDisk, Untorn
<1>2. ASSUME NEW k \in 1..Len(mem), ReconcileNew(k)
      PROVE  eol' /\ \E r, q \in Record : wal' = Append(Append(wal, r), q)
  <2> DEFINE fork == [id |-> made + 1, prev |-> mem[k].id, seed |-> FALSE]
             note == NewRecord(Append(mem, fork), 2, FALSE)
  <2>1. fork \in Record /\ note \in Record
    BY <1>2, ReconcileRecords
  <2>2. eol' /\ wal' = Append(Append(wal, fork), note)
    BY <1>2 DEF ReconcileNew, PushUnwritten, Landed, WorkingDisk, Untorn
  <2>3. QED
    BY <2>1, <2>2
<1>3. ASSUME NEW c \in Callers, SeedEndFresh(c)
      PROVE  eol' /\ \E r \in Record : wal' = Append(wal, r)
  <2>1. NewRecord(mem, 1, TRUE) \in Record
    BY <1>3, FreshRecord
  <2>2. QED
    BY <1>3, <2>1 DEF SeedEndFresh, Push, PushUnwritten, Landed, WorkingDisk, Untorn
<1>4. QED
  BY <1>1, <1>2, <1>3

LEMMA UntornStep ==
  ASSUME WorkingDisk, TypeInv, Untorn, [Next]_vars
  PROVE  Untorn'
<1>1. wal \in Seq(Line)
  BY DEF TypeInv, TypeOK, Line
<1>2. ASSUME \/ RecordCSR
             \/ \E k \in 1..Len(mem) : ReconcileNew(k)
             \/ \E c \in Callers : SeedEndFresh(c)
      PROVE  Untorn'
  BY <1>1, <1>2, WholeLines, AppendUntorn DEF Untorn, HasTorn
<1>3. ASSUME NEW c \in Callers, SeedBegin(c) \/ SeedEndReplayed(c)
      PROVE  Untorn'
  BY <1>3 DEF SeedBegin, SeedEndReplayed, Untorn, HasTorn
<1>4. CASE ResetKernel
  BY <1>4 DEF ResetKernel, Untorn, HasTorn
<1>5. CASE Crash
  BY <1>5 DEF Crash, Untorn, HasTorn
<1>6. CASE UNCHANGED vars
  BY <1>6 DEF vars, Untorn, HasTorn
<1>7. ~CrashInAppend
  BY DEF WorkingDisk, CrashInAppend
<1>8. QED
  BY <1>2, <1>3, <1>4, <1>5, <1>6, <1>7 DEF Next

LEMMA UntornInvariant ==
  ASSUME WorkingDisk
  PROVE  Spec => []Untorn
<1>1. Init => Untorn
  BY DEF Init, Untorn, HasTorn
<1>2. TypeInv /\ Untorn /\ [Next]_vars => Untorn'
  BY UntornStep
<1>3. QED
  BY <1>1, <1>2, TypeInvariant, PTL DEF Spec

(* On a disk that does what it is told, what recordCSR confirmed is on disk *)
(* and readable, across any number of crashes: however many callers race to *)
(* seed the kernel, whoever records before it is seeded, whatever forks are *)
(* merged.                                                                  *)
THEOREM ConfirmedIsDurable ==
  ASSUME WorkingDisk
  PROVE  Spec => []AckedDurable
<1>1. Untorn /\ (HasTorn(wal) \/ acked \subseteq IdsOf(wal)) => AckedDurable
  BY DEF Untorn, AckedDurable
<1>2. QED
  BY <1>1, UntornInvariant, OnlyTearsLose, PTL

----------------------------------------------------------------------------
(* The constitution is founded once.                                        *)

(* Only the first of these lines is a kernel-seed record. *)
SeedHeads(lines) == \A i \in DOMAIN lines : lines[i] # Torn /\ lines[i].seed => i = 1

(* A sole caller finds the file after its awaits as it was before them.     *)
FoundingInv ==
  /\ SeedHeads(wal)
  /\ \A c \in Callers : pc[c] = "awaiting" => ~seeded /\ (sawEmpty[c] => wal = <<>>)

LEMMA AppendHeads ==
  ASSUME NEW lines \in Seq(Line), SeedHeads(lines), NEW x \in Line,
         x = Torn \/ ~x.seed \/ lines = <<>>
  PROVE  SeedHeads(Append(lines, x))
<1> DEFINE longer == Append(lines, x)
<1>1. /\ DOMAIN lines = 1..Len(lines)
      /\ DOMAIN longer = 1..(Len(lines) + 1)
      /\ \A i \in 1..Len(lines) : longer[i] = lines[i]
      /\ longer[Len(lines) + 1] = x
      /\ Len(lines) \in Nat
      /\ lines = <<>> => Len(lines) = 0
  BY AppendProperties, LenProperties
<1> HIDE DEF longer
<1> SUFFICES ASSUME NEW i \in DOMAIN longer, longer[i] # Torn, longer[i].seed
             PROVE  i = 1
  BY DEF SeedHeads, longer
<1>2. CASE i = Len(lines) + 1
  BY <1>1, <1>2
<1>3. CASE i # Len(lines) + 1
  <2>1. i \in DOMAIN lines /\ longer[i] = lines[i]
    BY <1>1, <1>3
  <2>2. QED
    BY <2>1 DEF SeedHeads
<1>4. QED
  BY <1>2, <1>3

LEMMA TornHeads ==
  ASSUME NEW lines \in Seq(Line), lines # <<>>, SeedHeads(lines)
  PROVE  SeedHeads([lines EXCEPT ![Len(lines)] = Torn])
BY LenProperties, ExceptSeq DEF SeedHeads

(* An append of a record that is no seed, or of a seed to nothing.          *)
LEMMA LandedHeads ==
  ASSUME NEW lines \in Seq(Line), NEW newline \in BOOLEAN, newline \/ lines # <<>>,
         SeedHeads(lines), NEW r \in Record, ~r.seed \/ lines = <<>>
  PROVE  /\ SeedHeads(Landed(lines, newline, r))
         /\ WriteCutShort(lines, newline, r) => SeedHeads(wal')
<1>1. r \in Line /\ Torn \in Line
  BY DEF Line
<1>2. SeedHeads(Append(lines, r)) /\ SeedHeads(Append(lines, Torn))
  BY <1>1, AppendHeads
<1>3. QED
  BY <1>2, TornHeads DEF Landed, WriteCutShort

(* What recording does to a file: Push, PushUnwritten, and the two appends  *)
(* of a reconciliation.                                                     *)
LEMMA OperationHeads ==
  ASSUME TypeInv, SeedHeads(wal),
         RecordCSR \/ \E k \in 1..Len(mem) : ReconcileNew(k)
  PROVE  SeedHeads(wal')
<1>1. wal \in Seq(Line) /\ eol \in BOOLEAN /\ (eol \/ wal # <<>>)
  BY DEF TypeInv, TypeOK, Line
<1>2. CASE RecordCSR
  <2> DEFINE r == NewRecord(mem, 1, FALSE)
  <2>1. r \in Record /\ ~r.seed
    BY <1>2, RoomForOne, NewRecordType DEF RecordCSR, TypeInv, TypeOK, NewRecord
  <2>2. wal' = Landed(wal, eol, r) \/ WriteCutShort(wal, eol, r)
    BY <1>2 DEF RecordCSR, Push, PushUnwritten
  <2> HIDE DEF r
  <2>3. QED
    BY <1>1, <2>1, <2>2, LandedHeads
<1>3. ASSUME NEW k \in 1..Len(mem), ReconcileNew(k)
      PROVE  SeedHeads(wal')
  <2> DEFINE fork == [id |-> made + 1, prev |-> mem[k].id, seed |-> FALSE]
             note == NewRecord(Append(mem, fork), 2, FALSE)
             landed == Landed(wal, eol, fork)
  <2>1. fork \in Record /\ note \in Record
    BY <1>3, ReconcileRecords
  <2>2. ~fork.seed /\ ~note.seed
    BY DEF NewRecord
  <2>3. \/ wal' = Append(landed, note)
        \/ WriteCutShort(wal, eol, fork)
        \/ WriteCutShort(landed, TRUE, note)
    BY <1>3 DEF ReconcileNew, PushUnwritten
  <2> HIDE DEF fork, note
  <2>4. landed \in Seq(Line) /\ SeedHeads(landed)
    BY <1>1, <2>1, <2>2, LandedType, LandedHeads
  <2> HIDE DEF landed
  <2>5. note \in Line
    BY <2>1 DEF Line
  <2>6. SeedHeads(Append(landed, note))
    BY <2>2, <2>4, <2>5, AppendHeads
  <2>7. WriteCutShort(landed, TRUE, note) => SeedHeads(wal')
    BY <2>1, <2>2, <2>4, LandedHeads
  <2>8. QED
    BY <1>1, <2>1, <2>2, <2>3, <2>6, <2>7, LandedHeads
<1>4. QED
  BY <1>2, <1>3

LEMMA FoundingStep ==
  ASSUME SoleCaller, ~EarlyRecords, TypeInv, FoundingInv, [Next]_vars
  PROVE  FoundingInv'
<1>1. /\ wal \in Seq(Line) /\ eol \in BOOLEAN /\ (eol \/ wal # <<>>)
      /\ pc \in [Callers -> {"idle", "awaiting"}] /\ sawEmpty \in [Callers -> BOOLEAN]
  BY DEF TypeInv, TypeOK, Line
<1>2. ASSUME NEW c \in Callers, SeedBegin(c)
      PROVE  FoundingInv'
  <2>1. \A d \in Callers : d = c
    BY DEF SoleCaller
  <2>2. sawEmpty'[c] => wal = <<>>
    BY <1>1, <1>2 DEF SeedBegin
  <2>3. QED
    BY <1>2, <2>1, <2>2 DEF SeedBegin, FoundingInv, SeedHeads
<1>3. ASSUME NEW c \in Callers, SeedEndFresh(c)
      PROVE  FoundingInv'
  <2> DEFINE r == NewRecord(mem, 1, TRUE)
  <2>1. wal = <<>> /\ r \in Record
    BY <1>3, FreshRecord DEF SeedEndFresh, FoundingInv
  <2>2. wal' = Landed(wal, eol, r) \/ WriteCutShort(wal, eol, r)
    BY <1>3 DEF SeedEndFresh, Push, PushUnwritten
  <2> HIDE DEF r
  <2>3. SeedHeads(wal')
    BY <1>1, <2>1, <2>2, LandedHeads DEF FoundingInv
  <2>4. \A d \in Callers : pc'[d] = "idle"
    BY <1>1, <1>3 DEF SeedEndFresh, SoleCaller
  <2>5. QED
    BY <2>3, <2>4 DEF FoundingInv, SeedHeads
<1>4. ASSUME NEW c \in Callers, SeedEndReplayed(c)
      PROVE  FoundingInv'
  <2>1. \A d \in Callers : pc'[d] = "idle"
    BY <1>1, <1>4 DEF SeedEndReplayed, SoleCaller
  <2>2. QED
    BY <1>4, <2>1 DEF SeedEndReplayed, FoundingInv, SeedHeads
<1>5. ASSUME RecordCSR \/ \E k \in 1..Len(mem) : ReconcileNew(k)
      PROVE  FoundingInv'
  <2>1. SeedHeads(wal')
    BY <1>5, OperationHeads DEF FoundingInv
  <2>2. UNCHANGED <<seeded, pc, sawEmpty>> /\ seeded
    BY <1>5 DEF RecordCSR, ReconcileNew
  <2>3. \A c \in Callers : pc'[c] # "awaiting"
    BY <2>2 DEF FoundingInv
  <2>4. QED
    BY <2>1, <2>3 DEF FoundingInv, SeedHeads
<1>6. CASE ResetKernel
  BY <1>6 DEF ResetKernel, FoundingInv, SeedHeads
<1>7. CASE Crash
  BY <1>7 DEF Crash, Restart, FoundingInv, SeedHeads
<1>8. CASE CrashInAppend
  <2>1. PICK isSeed \in BOOLEAN :
          /\ isSeed => \E c \in Callers : pc[c] = "awaiting" /\ sawEmpty[c]
          /\ WriteCutShort(wal, eol, NewRecord(mem, 1, isSeed))
    BY <1>8 DEF CrashInAppend
  <2> DEFINE r == NewRecord(mem, 1, isSeed)
  <2>2. r \in Record /\ r.seed = isSeed
    BY <1>8, RoomForOne, NewRecordType DEF CrashInAppend, TypeInv, TypeOK, NewRecord
  <2>3. isSeed => wal = <<>>
    BY <2>1 DEF FoundingInv
  <2> HIDE DEF r
  <2>4. WriteCutShort(wal, eol, r)
    BY <2>1 DEF r
  <2>5. SeedHeads(wal')
    BY <1>1, <2>2, <2>3, <2>4, LandedHeads DEF FoundingInv
  <2>6. QED
    BY <1>8, <2>5 DEF CrashInAppend, Restart, FoundingInv, SeedHeads
<1>9. CASE UNCHANGED vars
  BY <1>9 DEF vars, FoundingInv, SeedHeads
<1>10. QED
  BY <1>2, <1>3, <1>4, <1>5, <1>6, <1>7, <1>8, <1>9 DEF Next

(* A kernel-seed record heads its file, whatever the disk does and whatever *)
(* forks are merged: that a sole caller seeds the kernel before anything is *)
(* recorded is enough.                                                      *)
THEOREM SeedComesFirst ==
  ASSUME SoleCaller, ~EarlyRecords
  PROVE  Spec => []SeedRecordHeadsLog
<1>1. Init => FoundingInv
  BY DEF Init, FoundingInv, SeedHeads
<1>2. TypeInv /\ FoundingInv /\ [Next]_vars => FoundingInv'
  BY FoundingStep
<1>3. FoundingInv => SeedRecordHeadsLog
  BY DEF FoundingInv, SeedHeads, SeedRecordHeadsLog
<1>4. QED
  BY <1>1, <1>2, <1>3, TypeInvariant, PTL DEF Spec

----------------------------------------------------------------------------
(* The chain.  A crash may tear the file: until then memory is the file     *)
(* from the moment a caller has replayed it until the process dies, and     *)
(* after it memory alone is in order, for nobody can replay the file.       *)

Orderly == SoleCaller /\ ~EarlyRecords /\ ~FaultyDisk /\ ~StrayForks

Mirrored == CsrIntegrity(mem) /\ (~HasTorn(wal) => mem = wal)

ChainInv ==
  /\ ~HasTorn(wal) => CsrIntegrity(wal)
  /\ \A c \in Callers : pc[c] = "awaiting" => ~seeded /\ mem = wal /\ (sawEmpty[c] => wal = <<>>)
  /\ seeded => Mirrored
  /\ ~seeded /\ (\A c \in Callers : pc[c] = "idle") => mem = <<>>

LEMMA RecordsUntorn ==
  ASSUME NEW log \in Seq(Record)
  PROVE  /\ ~HasTorn(log)
         /\ log \in Seq(Line)
         /\ Len(log) \in Nat /\ DOMAIN log = 1..Len(log)
<1>1. log \in Seq(Line)
  BY SeqMonotonic DEF Line
<1>2. \A i \in DOMAIN log : log[i] \in Record
  BY LenProperties, ElementOfSeq
<1>3. QED
  BY <1>1, <1>2, LenProperties, LogAssumption DEF HasTorn

(* A chain extended by a record that names its tail.                        *)
LEMMA ChainAppend ==
  ASSUME NEW log \in Seq(Record), NEW r \in Record, r.prev = TailId(log), CsrIntegrity(log)
  PROVE  /\ Append(log, r) \in Seq(Record)
         /\ CsrIntegrity(Append(log, r))
         /\ TailId(Append(log, r)) = r.id
<1> DEFINE longer == Append(log, r)
<1>1. longer \in Seq(Record)
  BY AppendTyped
<1>2. /\ Len(log) \in Nat
      /\ Len(longer) = Len(log) + 1
      /\ \A i \in 1..Len(log) : longer[i] = log[i]
      /\ longer[Len(log) + 1] = r
      /\ longer # <<>>
  BY AppendProperties, LenProperties
<1>3. log # <<>> => r.prev = log[Len(log)].id
  BY DEF TailId
<1>4. log = <<>> <=> Len(log) = 0
  BY EmptySeq
<1> HIDE DEF longer
<1>5. CsrIntegrity(longer)
  <2> SUFFICES ASSUME NEW i \in 2..Len(longer)
               PROVE  longer[i].prev = longer[i - 1].id
    BY DEF CsrIntegrity
  <2>1. CASE i = Len(log) + 1
    BY <1>2, <1>3, <1>4, <2>1
  <2>2. CASE i # Len(log) + 1
    <3>1. i \in 2..Len(log) /\ i \in 1..Len(log) /\ i - 1 \in 1..Len(log)
      BY <1>2, <2>2
    <3>2. QED
      BY <1>2, <3>1 DEF CsrIntegrity
  <2>3. QED
    BY <2>1, <2>2
<1>6. TailId(longer) = r.id
  BY <1>2 DEF TailId
<1>7. QED
  BY <1>1, <1>5, <1>6 DEF longer

(* The lines after an append parse only if they did before, the file ended  *)
(* in a newline, and the line is whole.                                     *)
LEMMA LandedWhole ==
  ASSUME NEW lines \in Seq(Line), NEW newline \in BOOLEAN, newline \/ lines # <<>>,
         NEW r \in Record
  PROVE  /\ ~HasTorn(Landed(lines, newline, r))
              => ~HasTorn(lines) /\ Landed(lines, newline, r) = Append(lines, r)
         /\ WriteCutShort(lines, newline, r) /\ ~HasTorn(wal')
              => ~HasTorn(lines) /\ (wal' = lines \/ wal' = Append(lines, r))
<1>1. r \in Line /\ Torn \in Line
  BY DEF Line
<1>2. /\ HasTorn(lines) => HasTorn(Append(lines, r))
      /\ HasTorn(lines) => HasTorn(Append(lines, Torn))
      /\ HasTorn(Append(lines, Torn))
  BY <1>1, AppendKeeps
<1>3. lines # <<>> => HasTorn([lines EXCEPT ![Len(lines)] = Torn])
  BY GluedTears
<1>4. QED
  BY <1>2, <1>3 DEF Landed, WriteCutShort

LEMMA PushMirrors ==
  ASSUME TypeInv, Mirrored, NEW r \in Record, r.prev = TailId(mem), Push(r)
  PROVE  Mirrored'
<1>1. mem \in Seq(Record) /\ wal \in Seq(Line) /\ eol \in BOOLEAN /\ (eol \/ wal # <<>>)
  BY DEF TypeInv, TypeOK, Line
<1>2. CsrIntegrity(mem')
  BY <1>1, ChainAppend DEF Push, Mirrored
<1>3. ~HasTorn(wal') => mem' = wal'
  BY <1>1, LandedWhole DEF Push, Mirrored
<1>4. QED
  BY <1>2, <1>3 DEF Mirrored, HasTorn

LEMMA OperationMirrors ==
  ASSUME Orderly, TypeInv, Mirrored,
         RecordCSR \/ \E k \in 1..Len(mem) : ReconcileNew(k)
  PROVE  Mirrored'
<1>1. mem \in Seq(Record) /\ wal \in Seq(Line) /\ eol \in BOOLEAN /\ (eol \/ wal # <<>>)
  BY DEF TypeInv, TypeOK, Line
<1>2. CASE RecordCSR
  <2> DEFINE r == NewRecord(mem, 1, FALSE)
  <2>1. r \in Record
    BY <1>2, RoomForOne, NewRecordType DEF RecordCSR, TypeInv, TypeOK
  <2>2. r.prev = TailId(mem) /\ Push(r)
    BY <1>2 DEF NewRecord, RecordCSR, PushUnwritten, Orderly
  <2> HIDE DEF r
  <2>3. QED
    BY <2>1, <2>2, PushMirrors
<1>3. ASSUME NEW k \in 1..Len(mem), ReconcileNew(k)
      PROVE  Mirrored'
  <2> DEFINE fork == [id |-> made + 1, prev |-> mem[k].id, seed |-> FALSE]
             note == NewRecord(Append(mem, fork), 2, FALSE)
             merged == Append(mem, fork)
             landed == Landed(wal, eol, fork)
  <2>1. fork \in Record /\ note \in Record
    BY <1>3, ReconcileRecords
  <2>2. mem' = mem \o <<fork, note>> /\ wal' = Append(landed, note) /\ k = Len(mem)
    BY <1>3 DEF ReconcileNew, PushUnwritten, Orderly
  <2>3. fork.prev = TailId(mem)
    BY <1>1, <2>2, EmptySeq DEF TailId
  <2>4. note.prev = TailId(merged)
    BY DEF NewRecord
  <2>5. mem' = Append(merged, note)
    <3>1. \A x, y \in Record : mem \o <<x, y>> = Append(Append(mem, x), y)
      BY <1>1, PairAppended
    <3> HIDE DEF fork, note
    <3>2. QED
      BY <2>1, <2>2, <3>1
  <2> HIDE DEF fork, note
  <2>6. merged \in Seq(Record) /\ CsrIntegrity(merged)
    BY <1>1, <2>1, <2>3, ChainAppend DEF Mirrored
  <2>7. ~HasTorn(landed) => merged = landed
    BY <1>1, <2>1, LandedWhole DEF Mirrored
  <2>8. landed \in Seq(Line)
    BY <1>1, <2>1, LandedType
  <2> HIDE DEF merged, landed
  <2>9. CsrIntegrity(mem')
    BY <2>1, <2>4, <2>5, <2>6, ChainAppend
  <2>10. HasTorn(landed) => HasTorn(wal')
    BY <2>1, <2>2, <2>8, AppendKeeps DEF Line
  <2>11. ~HasTorn(wal') => mem' = wal'
    BY <2>2, <2>5, <2>7, <2>10
  <2>12. QED
    BY <2>9, <2>11 DEF Mirrored, HasTorn
<1>4. QED
  BY <1>2, <1>3

LEMMA ChainStep ==
  ASSUME Orderly, TypeInv, ChainInv, [Next]_vars
  PROVE  ChainInv'
<1>1. /\ mem \in Seq(Record) /\ wal \in Seq(Line) /\ eol \in BOOLEAN /\ (eol \/ wal # <<>>)
      /\ pc \in [Callers -> {"idle", "awaiting"}] /\ sawEmpty \in [Callers -> BOOLEAN]
  BY DEF TypeInv, TypeOK, Line
<1>2. CsrIntegrity(<<>>) /\ ~HasTorn(<<>>)
  BY DEF CsrIntegrity, HasTorn
<1>3. ASSUME NEW c \in Callers, SeedBegin(c)
      PROVE  ChainInv'
  <2>1. \A d \in Callers : d = c /\ pc[d] = "idle"
    BY <1>3 DEF Orderly, SoleCaller, SeedBegin
  <2>2. mem = <<>>
    BY <1>3, <2>1 DEF ChainInv, SeedBegin
  <2>3. mem' = wal
    BY <1>1, <1>3, <2>2, ConcatEmptySeq DEF SeedBegin
  <2>4. (sawEmpty'[c] => wal = <<>>) /\ pc'[c] = "awaiting"
    BY <1>1, <1>3 DEF SeedBegin
  <2>5. QED
    BY <1>3, <2>1, <2>3, <2>4 DEF SeedBegin, ChainInv, Mirrored, HasTorn
<1>4. ASSUME NEW c \in Callers, SeedEndFresh(c)
      PROVE  ChainInv'
  <2> DEFINE r == NewRecord(mem, 1, TRUE)
  <2>1. mem = wal /\ wal = <<>> /\ Push(r) /\ seeded'
    BY <1>4 DEF Orderly, SeedEndFresh, PushUnwritten, ChainInv
  <2>2. r \in Record /\ r.prev = TailId(mem)
    BY <1>4, FreshRecord DEF NewRecord
  <2> HIDE DEF r
  <2>3. Mirrored
    BY <1>2, <2>1 DEF Mirrored
  <2>4. Mirrored'
    BY <2>1, <2>2, <2>3, PushMirrors
  <2>5. \A d \in Callers : pc'[d] = "idle"
    BY <1>1, <1>4 DEF SeedEndFresh, Orderly, SoleCaller
  <2>6. QED
    BY <2>1, <2>4, <2>5 DEF ChainInv, Mirrored, HasTorn
<1>5. ASSUME NEW c \in Callers, SeedEndReplayed(c)
      PROVE  ChainInv'
  <2>1. \A d \in Callers : pc'[d] = "idle"
    BY <1>1, <1>5 DEF SeedEndReplayed, Orderly, SoleCaller
  <2>2. ~HasTorn(wal) /\ mem = wal
    BY <1>1, <1>5, RecordsUntorn DEF SeedEndReplayed, ChainInv
  <2>3. QED
    BY <1>5, <2>1, <2>2 DEF SeedEndReplayed, ChainInv, Mirrored, HasTorn
<1>6. ASSUME RecordCSR \/ \E k \in 1..Len(mem) : ReconcileNew(k)
      PROVE  ChainInv'
  <2>1. UNCHANGED <<seeded, pc, sawEmpty>> /\ seeded
    BY <1>6 DEF RecordCSR, ReconcileNew, Orderly
  <2>2. Mirrored'
    BY <1>6, <2>1, OperationMirrors DEF ChainInv
  <2>3. QED
    BY <2>1, <2>2 DEF ChainInv, Mirrored, HasTorn
<1>7. CASE ResetKernel
  <2>1. wal' = <<>> /\ mem' = <<>> /\ ~seeded'
    BY <1>7 DEF ResetKernel
  <2>2. UNCHANGED <<pc, sawEmpty>>
    BY <1>7 DEF ResetKernel
  <2>3. QED
    BY <1>2, <2>1, <2>2 DEF ChainInv
<1>8. CASE Crash
  BY <1>8 DEF Crash, Restart, ChainInv, HasTorn
<1>9. CASE CrashInAppend
  <2>1. PICK isSeed \in BOOLEAN :
          /\ IF isSeed THEN \E c \in Callers : pc[c] = "awaiting" /\ sawEmpty[c]
             ELSE seeded \/ EarlyRecords
          /\ WriteCutShort(wal, eol, NewRecord(mem, 1, isSeed))
    BY <1>9 DEF CrashInAppend
  <2> DEFINE r == NewRecord(mem, 1, isSeed)
  <2>2. r \in Record /\ r.prev = TailId(mem)
    BY <1>9, RoomForOne, NewRecordType DEF CrashInAppend, TypeInv, TypeOK, NewRecord
  <2>3. ~HasTorn(wal) => mem = wal
    BY <2>1 DEF ChainInv, Mirrored, Orderly
  <2> HIDE DEF r
  <2>4. WriteCutShort(wal, eol, r)
    BY <2>1 DEF r
  <2>5. ~HasTorn(wal') => CsrIntegrity(wal')
    <3> SUFFICES ASSUME ~HasTorn(wal')
                 PROVE  CsrIntegrity(wal')
      OBVIOUS
    <3>1. ~HasTorn(wal) /\ (wal' = wal \/ wal' = Append(wal, r))
      BY <1>1, <2>2, <2>4, LandedWhole
    <3>2. CsrIntegrity(wal)
      BY <3>1 DEF ChainInv
    <3>3. CsrIntegrity(Append(wal, r))
      BY <1>1, <2>2, <2>3, <3>1, <3>2, ChainAppend
    <3>4. QED
      BY <3>1, <3>2, <3>3
  <2>6. \A c \in Callers : pc'[c] = "idle"
    BY <1>9 DEF CrashInAppend, Restart
  <2>7. ~seeded' /\ mem' = <<>>
    BY <1>9 DEF CrashInAppend, Restart
  <2>8. QED
    BY <2>5, <2>6, <2>7 DEF ChainInv, HasTorn
<1>10. CASE UNCHANGED vars
  BY <1>10 DEF vars, ChainInv, Mirrored, HasTorn
<1>11. QED
  BY <1>3, <1>4, <1>5, <1>6, <1>7, <1>8, <1>9, <1>10 DEF Next

LEMMA ChainInvariant ==
  ASSUME Orderly
  PROVE  Spec => []ChainInv
<1>1. Init => ChainInv
  BY DEF Init, ChainInv, CsrIntegrity
<1>2. TypeInv /\ ChainInv /\ [Next]_vars => ChainInv'
  BY ChainStep
<1>3. QED
  BY <1>1, <1>2, TypeInvariant, PTL DEF Spec

(* P-I005: with one caller of seedKernel, nothing recorded before it is     *)
(* done, appends that do not throw, and forks that start at the tail, the   *)
(* chain never has a gap, also when crashes tear the file and the process   *)
(* goes on with a memory that nobody will read back.                        *)
THEOREM ChainStaysIntact ==
  ASSUME Orderly
  PROVE  Spec => []ChainIntact
<1>1. ASSUME TypeInv, ChainInv
      PROVE  CsrIntegrity(mem)
  <2>1. CASE seeded
    BY <1>1, <2>1 DEF ChainInv, Mirrored
  <2>2. ASSUME NEW c \in Callers, pc[c] = "awaiting"
        PROVE  CsrIntegrity(mem)
    BY <1>1, <2>2, RecordsUntorn DEF ChainInv, TypeInv, TypeOK
  <2>3. CASE ~seeded /\ \A c \in Callers : pc[c] = "idle"
    BY <1>1, <2>3 DEF ChainInv, CsrIntegrity
  <2>4. QED
    BY <1>1, <2>1, <2>2, <2>3 DEF TypeInv, TypeOK
<1>2. TypeInv /\ ChainInv => ChainIntact
  BY <1>1 DEF ChainIntact
<1>3. QED
  BY <1>2, TypeInvariant, ChainInvariant, PTL

----------------------------------------------------------------------------
(* Under the discipline the log implements the abstract journal.            *)

LEMMA AppendExtends ==
  ASSUME NEW log \in Seq(Line), NEW r \in Line
  PROVE  /\ Append(log, r) \in Seq(Line)
         /\ LogAsJournal!Extends(log, Append(log, r))
BY AppendProperties, LenProperties DEF LogAsJournal!Extends

LEMMA JournalStep ==
  ASSUME Disciplined, TypeInv, Untorn, Untorn', ChainInv, ChainInv', [Next]_vars
  PROVE  [LogAsJournal!Next]_(LogAsJournal!jvars)
<1> USE DEF LogAsJournal!jvars
<1>1. wal \in Seq(Line)
  BY DEF TypeInv, TypeOK, Line
<1>2. seeded => mem = wal
  BY DEF Untorn, ChainInv, Mirrored
<1>3. seeded' => mem' = wal' /\ LogAsJournal!Chained(wal')
  BY DEF Untorn, ChainInv, Mirrored, HasTorn, CsrIntegrity, LogAsJournal!Chained
<1>4. ASSUME NEW c \in Callers, SeedBegin(c)
      PROVE  UNCHANGED LogAsJournal!jvars
  BY <1>4 DEF SeedBegin
<1>5. ASSUME NEW c \in Callers, SeedEndFresh(c)
      PROVE  LogAsJournal!Open
  <2>1. wal = <<>> /\ ~seeded /\ seeded' = TRUE
    BY <1>5 DEF Disciplined, WorkingDisk, SeedEndFresh, PushUnwritten, ChainInv
  <2>2. wal' = Append(<<>>, NewRecord(mem, 1, TRUE))
    BY <1>5, <2>1 DEF SeedEndFresh, Push, PushUnwritten, Landed, Untorn, Disciplined, WorkingDisk
  <2>3. Len(wal') = 1
    BY <2>2
  <2>4. QED
    BY <1>3, <2>1, <2>3 DEF LogAsJournal!Open
<1>6. ASSUME NEW c \in Callers, SeedEndReplayed(c)
      PROVE  LogAsJournal!Open
  BY <1>6 DEF SeedEndReplayed, ChainInv, LogAsJournal!Open
<1>7. ASSUME RecordCSR \/ \E k \in 1..Len(mem) : ReconcileNew(k)
      PROVE  LogAsJournal!Extend
  <2>1. \/ \E r \in Record : wal' = Append(wal, r)
        \/ \E r, q \in Record : wal' = Append(Append(wal, r), q)
    BY <1>7, WholeLines DEF Disciplined
  <2>2. LogAsJournal!Extends(wal, wal')
    <3>1. ASSUME NEW r \in Record, NEW q \in Record
          PROVE  /\ LogAsJournal!Extends(wal, Append(wal, r))
                 /\ LogAsJournal!Extends(wal, Append(Append(wal, r), q))
      <4> DEFINE longer == Append(wal, r)
                 longest == Append(longer, q)
      <4>1. r \in Line /\ q \in Line
        BY DEF Line
      <4>2. longer \in Seq(Line) /\ LogAsJournal!Extends(wal, longer)
        BY <1>1, <4>1, AppendExtends
      <4> HIDE DEF longer
      <4>3. longest \in Seq(Line) /\ LogAsJournal!Extends(longer, longest)
        BY <4>1, <4>2, AppendExtends
      <4>4. Len(wal) \in Nat /\ Len(longer) \in Nat /\ Len(longest) \in Nat
        BY <1>1, <4>2, <4>3, LenProperties
      <4> HIDE DEF longest
      <4>5. LogAsJournal!Extends(wal, longest)
        BY <4>2, <4>3, <4>4 DEF LogAsJournal!Extends
      <4>6. QED
        BY <4>2, <4>5 DEF longer, longest
    <3>2. QED
      BY <2>1, <3>1
  <2>3. seeded /\ seeded' = seeded
    BY <1>7 DEF RecordCSR, ReconcileNew, Disciplined
  <2>4. QED
    BY <1>3, <2>2, <2>3 DEF LogAsJournal!Extend
<1>8. CASE ResetKernel
  BY <1>8 DEF ResetKernel, LogAsJournal!Erase, LogAsJournal!Next
<1>9. CASE Crash
  BY <1>9 DEF Crash, Restart, LogAsJournal!Close, LogAsJournal!Next
<1>10. CASE UNCHANGED vars
  BY <1>10 DEF vars
<1>11. ~CrashInAppend
  BY DEF Disciplined, WorkingDisk, CrashInAppend
<1>12. QED
  BY <1>4, <1>5, <1>6, <1>7, <1>8, <1>9, <1>10, <1>11 DEF Next, LogAsJournal!Next

(* Refinement: read through the flag seeded, the kernel's log is the        *)
(* journal.  It shows exactly what is durable, only grows, and outlives     *)
(* crashes.                                                                 *)
THEOREM LogImplementsJournal ==
  ASSUME Disciplined
  PROVE  Spec => ImplementsJournal
<1>1. Init => LogAsJournal!Init
  BY DEF Init, LogAsJournal!Init
<1>2. Spec => []Untorn
  BY UntornInvariant DEF Disciplined
<1>3. Spec => []ChainInv
  BY ChainInvariant DEF Disciplined, Orderly, WorkingDisk
<1>4. TypeInv /\ Untorn /\ Untorn' /\ ChainInv /\ ChainInv' /\ [Next]_vars
        => [LogAsJournal!Next]_(LogAsJournal!jvars)
  BY JournalStep
<1>5. QED
  BY <1>1, <1>2, <1>3, <1>4, TypeInvariant, PTL
  DEF Spec, ImplementsJournal, LogAsJournal!Spec

=============================================================================
