------------------------- MODULE ConstitutionalLog -------------------------
(***************************************************************************)
(* The Constitutional State Record (CSR) of the Sovereign X kernel: the    *)
(* hash-chained log in memory, its write-ahead file csr.wal, and the       *)
(* asynchronous seedKernel that rebuilds the one from the other.           *)
(*                                                                         *)
(* Simplifications:                                                        *)
(*  - A record is its identity, the identity its previousHash names, and   *)
(*    whether it is the kernel-seed record.  SHA-256 is collision free and *)
(*    no record is altered after it is made, so the hash of a record is    *)
(*    its identity; the seven strings of its content do not matter here.   *)
(*  - Everything between two awaits is one action: Node runs it without    *)
(*    interruption.  seedKernel awaits once per invariant; between those   *)
(*    awaits it touches no shared state, so they are one gap.              *)
(*  - A crash ends the process; the next one starts with empty memory and  *)
(*    the file as the disk holds it.                                       *)
(* The registries that seedKernel also rebuilds are in IntentGovernance.   *)
(***************************************************************************)
EXTENDS Integers, Sequences, FiniteSets

CONSTANTS
  Callers,       \* concurrent callers of the asynchronous seedKernel
  Torn,          \* a line of the file that JSON.parse rejects
  MaxRecords,    \* bound: records made over all lives of the process
  EarlyRecords,  \* is recordCSR reached before seedKernel has finished?
  FaultyDisk,    \* can appendFileSync throw, the line written in part?
  TornCrashes,   \* can a crash interrupt appendFileSync?
  StrayForks     \* are forks reconciled that do not start at the tail?

Ids == 1..MaxRecords
Genesis == 0
Record == [id : Ids, prev : Ids \cup {Genesis}, seed : BOOLEAN]

ASSUME LogAssumption ==
  /\ IsFiniteSet(Callers)
  /\ MaxRecords \in Nat
  /\ {EarlyRecords, FaultyDisk, TornCrashes, StrayForks} \subseteq BOOLEAN
  /\ Torn \notin Record

VARIABLES
  mem,       \* CSR_LEDGER
  wal,       \* the lines of csr.wal
  eol,       \* does csr.wal end in a newline (or hold nothing)?
  seeded,    \* the kernel's seeded flag
  pc,        \* pc[c]: where caller c is in seedKernel
  sawEmpty,  \* sawEmpty[c]: c's walRecords.length === 0
  made,      \* how many records were ever made (uuid() never repeats)
  acked      \* records whose recordCSR returned to its caller

vars == <<mem, wal, eol, seeded, pc, sawEmpty, made, acked>>

----------------------------------------------------------------------------
(* The chain and the file *)

IdsOf(log) == {log[i].id : i \in {j \in DOMAIN log : log[j] # Torn}}

\* Mutant: a replay that hands on lines it cannot parse.
HasTornUnseen(lines) == FALSE

\* Does replayWal throw on these lines?
HasTorn(lines) == \E i \in DOMAIN lines : lines[i] = Torn

\* Mutant: the chain is extended from the record before the tail.
TailIdStale(log) == IF Len(log) < 2 THEN Genesis ELSE log[Len(log) - 1].id

\* The hash the next record of a log names as its previousHash.
TailId(log) == IF log = <<>> THEN Genesis ELSE log[Len(log)].id

\* The n-th record from now, appended to log.
NewRecord(log, n, isSeed) == [id |-> made + n, prev |-> TailId(log), seed |-> isSeed]

\* verifyCsrIntegrity: every record names its predecessor.
CsrIntegrity(log) == \A i \in 2..Len(log) : log[i].prev = log[i - 1].id

\* Mutant: the file is written over instead of appended to.
LandedOver(lines, newline, r) == <<r>>

\* The lines after r was appended whole.  A file whose last line lacks its
\* newline gets r glued to that line, which then parses no more.
Landed(lines, newline, r) ==
  IF newline THEN Append(lines, r) ELSE [lines EXCEPT ![Len(lines)] = Torn]

\* What an append of r to these lines leaves when it is cut short: nothing, a
\* part of the line, or the whole line without its newline.
WriteCutShort(lines, newline, r) ==
  \/ wal' = lines /\ eol' = newline
  \/ /\ newline
     /\ wal' \in {Append(lines, Torn), Append(lines, r)}
     /\ eol' = FALSE
  \/ /\ ~newline
     /\ wal' = [lines EXCEPT ![Len(lines)] = Torn]
     /\ eol' = FALSE

\* Bound: operations leave identities for the seeds still to come.
Room(n) == made + n + Cardinality(Callers) <= MaxRecords

----------------------------------------------------------------------------

Init ==
  /\ mem = <<>>
  /\ wal = <<>>
  /\ eol = TRUE
  /\ seeded = FALSE
  /\ pc = [c \in Callers |-> "idle"]
  /\ sawEmpty = [c \in Callers |-> FALSE]
  /\ made = 0
  /\ acked = {}

\* Mutant: the record is kept in memory only.
PushVolatile(r) ==
  /\ mem' = Append(mem, r)
  /\ acked' = acked \cup {r.id}
  /\ UNCHANGED <<wal, eol>>

\* recordCSR: push to memory, then append to the file.
Push(r) ==
  /\ mem' = Append(mem, r)
  /\ wal' = Landed(wal, eol, r)
  /\ eol' = TRUE
  /\ acked' = acked \cup {r.id}

\* recordCSR when appendFileSync throws: the push is not taken back.
PushUnwritten(r) ==
  /\ FaultyDisk
  /\ mem' = Append(mem, r)
  /\ WriteCutShort(wal, eol, r)
  /\ UNCHANGED acked

\* Mutant: a memory that holds records already is not replayed into.
SeedBeginOnce(c) ==
  /\ pc[c] = "idle"
  /\ ~seeded
  /\ ~HasTorn(wal)
  /\ mem' = IF mem = <<>> THEN wal ELSE mem
  /\ sawEmpty' = [sawEmpty EXCEPT ![c] = (wal = <<>>)]
  /\ pc' = [pc EXCEPT ![c] = "awaiting"]
  /\ UNCHANGED <<wal, eol, seeded, made, acked>>

\* Mutant: emptiness is asked of the memory, before the replay.
SeedBeginBlind(c) ==
  /\ pc[c] = "idle"
  /\ ~seeded
  /\ ~HasTorn(wal)
  /\ mem' = mem \o wal
  /\ sawEmpty' = [sawEmpty EXCEPT ![c] = (mem = <<>>)]
  /\ pc' = [pc EXCEPT ![c] = "awaiting"]
  /\ UNCHANGED <<wal, eol, seeded, made, acked>>

\* Mutant: a file that holds records counts as seeded already.
SeedBeginFreshOnly(c) ==
  /\ pc[c] = "idle"
  /\ ~seeded
  /\ wal = <<>>
  /\ sawEmpty' = [sawEmpty EXCEPT ![c] = TRUE]
  /\ pc' = [pc EXCEPT ![c] = "awaiting"]
  /\ UNCHANGED <<mem, wal, eol, seeded, made, acked>>

\* seedKernel up to its awaits.  Two early exits leave everything as it is
\* and are no steps: the kernel is seeded, or replayWal throws on a torn line.
SeedBegin(c) ==
  /\ pc[c] = "idle"
  /\ ~seeded
  /\ ~HasTorn(wal)
  /\ mem' = mem \o wal
  /\ sawEmpty' = [sawEmpty EXCEPT ![c] = (wal = <<>>)]
  /\ pc' = [pc EXCEPT ![c] = "awaiting"]
  /\ UNCHANGED <<wal, eol, seeded, made, acked>>

\* seedKernel after its awaits, on a log that was empty before them.
SeedEndFresh(c) ==
  /\ pc[c] = "awaiting"
  /\ sawEmpty[c]
  /\ made < MaxRecords
  /\ made' = made + 1
  /\ \/ Push(NewRecord(mem, 1, TRUE)) /\ seeded' = TRUE
     \/ PushUnwritten(NewRecord(mem, 1, TRUE)) /\ UNCHANGED seeded
  /\ pc' = [pc EXCEPT ![c] = "idle"]
  /\ UNCHANGED sawEmpty

\* Mutant: what was replayed is persisted again.
SeedEndRewritten(c) ==
  /\ pc[c] = "awaiting"
  /\ ~sawEmpty[c]
  /\ seeded' = TRUE
  /\ wal' = wal \o mem
  /\ pc' = [pc EXCEPT ![c] = "idle"]
  /\ UNCHANGED <<mem, eol, sawEmpty, made, acked>>

\* seedKernel after its awaits, on a log it replayed.
SeedEndReplayed(c) ==
  /\ pc[c] = "awaiting"
  /\ ~sawEmpty[c]
  /\ seeded' = TRUE
  /\ pc' = [pc EXCEPT ![c] = "idle"]
  /\ UNCHANGED <<mem, wal, eol, sawEmpty, made, acked>>

\* Any kernel operation that logs one transition; reconcileCsrFork of a fork
\* that memory already holds is one of them.
RecordCSR ==
  /\ seeded \/ EarlyRecords
  /\ Room(1)
  /\ made' = made + 1
  /\ \/ Push(NewRecord(mem, 1, FALSE))
     \/ PushUnwritten(NewRecord(mem, 1, FALSE))
  /\ UNCHANGED <<seeded, pc, sawEmpty>>

----------------------------------------------------------------------------
(* reconcileCsrFork, for forks of one record.  Empty forks and forks with   *)
(* no common ancestor change nothing and are no steps.                      *)

\* A foreign record whose predecessor is the k-th of memory: it is merged at
\* the end of memory and file, then the reconciliation is logged.
ReconcileNew(k) ==
  /\ seeded \/ EarlyRecords
  /\ Room(2)
  /\ k = Len(mem) \/ StrayForks
  /\ LET fork == [id |-> made + 1, prev |-> mem[k].id, seed |-> FALSE]
         note == NewRecord(Append(mem, fork), 2, FALSE)
     IN \/ /\ mem' = mem \o <<fork, note>>
           /\ wal' = Append(Landed(wal, eol, fork), note)
           /\ eol' = TRUE
           /\ acked' = acked \cup {fork.id, note.id}
        \/ PushUnwritten(fork)
        \/ /\ FaultyDisk
           /\ mem' = mem \o <<fork, note>>
           /\ WriteCutShort(Landed(wal, eol, fork), TRUE, note)
           /\ acked' = acked \cup {fork.id}
  /\ made' = made + 2
  /\ UNCHANGED <<seeded, pc, sawEmpty>>

----------------------------------------------------------------------------

\* resetKernel.  Callers inside seedKernel go on with what they have read.
ResetKernel ==
  /\ Room(0)
  /\ mem' = <<>>
  /\ wal' = <<>>
  /\ eol' = TRUE
  /\ seeded' = FALSE
  /\ acked' = {}
  /\ UNCHANGED <<pc, sawEmpty, made>>

\* The process dies and a new one starts.
Restart ==
  /\ mem' = <<>>
  /\ seeded' = FALSE
  /\ pc' = [c \in Callers |-> "idle"]
  /\ sawEmpty' = [c \in Callers |-> FALSE]

Crash ==
  /\ Restart
  /\ UNCHANGED <<wal, eol, made, acked>>

\* The process dies inside the appendFileSync of a record.
CrashInAppend ==
  /\ TornCrashes
  /\ Room(1)
  /\ \E isSeed \in BOOLEAN :
       /\ IF isSeed THEN \E c \in Callers : pc[c] = "awaiting" /\ sawEmpty[c]
          ELSE seeded \/ EarlyRecords
       /\ WriteCutShort(wal, eol, NewRecord(mem, 1, isSeed))
  /\ made' = made + 1
  /\ Restart
  /\ UNCHANGED acked

Next ==
  \/ \E c \in Callers : SeedBegin(c) \/ SeedEndFresh(c) \/ SeedEndReplayed(c)
  \/ RecordCSR
  \/ \E k \in 1..Len(mem) : ReconcileNew(k)
  \/ ResetKernel
  \/ Crash
  \/ CrashInAppend

Spec == Init /\ [][Next]_vars

\* The event loop resumes what it suspended, and whoever finds the kernel
\* unseeded (the boot sequence, kernelGovernAction) seeds it.
Fairness ==
  \A c \in Callers :
    /\ WF_vars(SeedBegin(c))
    /\ WF_vars(SeedEndFresh(c))
    /\ WF_vars(SeedEndReplayed(c))

FairSpec == Spec /\ Fairness

\* What the kernel is written for: a single caller seeds it before anything else
\* runs, the disk does what it is told, and a fork starts where this log ends.
SoleCaller == \A c, d \in Callers : c = d
WorkingDisk == ~FaultyDisk /\ ~TornCrashes
Disciplined == SoleCaller /\ ~EarlyRecords /\ WorkingDisk /\ ~StrayForks

----------------------------------------------------------------------------
(* Properties *)

\* Every variable has the type the code gives it.
TypeOK ==
  /\ mem \in Seq(Record)
  /\ wal \in Seq(Record \cup {Torn})
  /\ eol \in BOOLEAN
  /\ seeded \in BOOLEAN
  /\ pc \in [Callers -> {"idle", "awaiting"}]
  /\ sawEmpty \in [Callers -> BOOLEAN]
  /\ made \in 0..MaxRecords
  /\ acked \subseteq Ids

\* verifyCsrIntegrity finds no gap, at any moment, across restarts and
\* reconciled forks.  It needs the discipline: two callers inside seedKernel
\* both replay the file into memory.
ChainIntact == CsrIntegrity(mem)

\* What recordCSR confirmed to its caller can be read back by the replayWal of
\* any later process.
AckedDurable == acked \subseteq (IF HasTorn(wal) THEN {} ELSE IdsOf(wal))

\* A kernel that calls itself seeded shows every record that was ever
\* confirmed, whatever raced with its seeding and however badly the disk
\* behaved in this life or an earlier one.
SeededSeesAcked == seeded => acked \subseteq IdsOf(mem)

\* However often memory is rebuilt from the file and whoever races to do so,
\* no record is on disk twice.
NoDuplicateOnDisk ==
  \A i, j \in DOMAIN wal :
    /\ wal[i] # Torn
    /\ wal[j] # Torn
    /\ wal[i].id = wal[j].id
    => i = j

\* The kernel-seed record is only ever the first of the log: a restart finds
\* the file and does not found the constitution anew.
SeedRecordHeadsLog ==
  \A i \in DOMAIN wal : wal[i] # Torn /\ wal[i].seed => i = 1

\* The log refines the abstract journal: a seeded kernel reads exactly what is
\* durable, and between erasures the chain only grows.
LogAsJournal ==
  INSTANCE Journal WITH journal <- wal,
                        view <- IF seeded THEN mem ELSE <<>>,
                        open <- seeded

ImplementsJournal == LogAsJournal!Spec

\* Once crashes and resets have ceased, an unseeded kernel gets seeded again.
SeedsAgain ==
  <>[][~(Crash \/ CrashInAppend \/ ResetKernel)]_vars => (~seeded ~> seeded)
============================================================================
