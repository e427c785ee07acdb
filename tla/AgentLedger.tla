---------------------------- MODULE AgentLedger ----------------------------
(***************************************************************************)
(* The receipts of the agents: recordReceipt chains a receipt to the tail   *)
(* of an array and appends it to ledger.wal.jsonl, as well as it can.  The  *)
(* array is filled from the file at its first use in a process; a failed    *)
(* append is swallowed.                                                     *)
(*                                                                          *)
(* Loading stops at the first line that does not parse, and nothing ever    *)
(* repairs the file, so that what lies behind such a line does not matter:  *)
(* the file is the lines before it and the state of what follows.  Left     *)
(* out: clearLedger, which only tests call, and the hooks, whose errors are *)
(* swallowed and whose effects are elsewhere.                               *)
(***************************************************************************)
EXTENDS Integers, Sequences, FiniteSets

CONSTANTS
  Subjects,      \* what receipts are about
  MaxReceipts    \* bound on the receipts made over all lives of the process

ASSUME LedgerAssumption == MaxReceipts \in Nat

VARIABLES
  ledger,      \* the array
  loaded,      \* was the array filled from the file?
  readable,    \* the lines of the file up to the first that does not parse
  ending,      \* "clean", "unended" (no newline) or "garbled": what follows them
  issued,      \* history: how many receipts were made (uuid() never repeats)
  recorded,    \* history: the receipts whose recordReceipt returned
  uncertain    \* history: the receipts whose append threw

ledgerVars == <<ledger, loaded, readable, ending, issued, recorded, uncertain>>

Genesis == 0
Ids == 1..MaxReceipts
Receipt == [id : Ids, prev : {Genesis} \cup Ids, about : Subjects]

IdsIn(log) == {log[i].id : i \in DOMAIN log}

\* ensureLoaded: what the array holds whenever it is used.
EnsureLoaded == IF loaded THEN ledger ELSE readable

\* getLedgerTailHash of these receipts.
TailHash(log) == IF log = <<>> THEN Genesis ELSE log[Len(log)].id

\* A receipt that was made now.
NewReceipt(about) ==
  [id |-> issued + 1, prev |-> TailHash(EnsureLoaded), about |-> about]

AgentLedgerInit ==
  /\ ledger = <<>>
  /\ loaded = FALSE
  /\ readable = <<>>
  /\ ending = "clean"
  /\ issued = 0
  /\ recorded = {}
  /\ uncertain = {}

\* What appending a line does to a file whose last line lacks its newline: the
\* two become one that does not parse.
Glued ==
  /\ readable' = SubSeq(readable, 1, Len(readable) - 1)
  /\ ending' = "garbled"

\* Mutant: nothing is written to a file that exists already.
WrittenOnce(r) ==
  /\ readable' = IF readable = <<>> THEN <<r>> ELSE readable
  /\ UNCHANGED ending

\* appendWal of r: lost on every reader when the file is garbled already.
Written(r) ==
  \/ /\ ending = "clean"
     /\ readable' = Append(readable, r)
     /\ UNCHANGED ending
  \/ ending = "unended" /\ Glued
  \/ ending = "garbled" /\ UNCHANGED <<readable, ending>>

\* appendFileSync of r stops before its end: nothing, a part, or all but the
\* newline is in the file.
WrittenInPart(r) ==
  \/ UNCHANGED <<readable, ending>>
  \/ /\ ending = "clean"
     /\ \/ readable' = readable /\ ending' = "garbled"
        \/ readable' = Append(readable, r) /\ ending' = "unended"
  \/ ending = "unended" /\ Glued

\* getLedger and whatever reads the ledger first.
LoadLedger ==
  /\ ~loaded
  /\ ledger' = EnsureLoaded
  /\ loaded' = TRUE
  /\ UNCHANGED <<readable, ending, issued, recorded, uncertain>>

\* recordReceipt from its await on.  The receipt is chained, pushed and
\* written in one go; whether the append works or throws, it returns.
RecordReceipt(about) ==
  /\ issued < MaxReceipts
  /\ LET r == NewReceipt(about)
     IN /\ ledger' = Append(EnsureLoaded, r)
        /\ recorded' = recorded \cup {r.id}
        /\ \/ Written(r) /\ UNCHANGED uncertain
           \/ WrittenInPart(r) /\ uncertain' = uncertain \cup {r.id}
  /\ loaded' = TRUE
  /\ issued' = issued + 1

\* The process dies between two steps, or inside the append of a receipt.
LedgerCrash ==
  /\ ledger' = <<>>
  /\ loaded' = FALSE
  /\ \/ UNCHANGED <<readable, ending, issued>>
     \/ /\ issued < MaxReceipts
        /\ \E about \in Subjects : WrittenInPart(NewReceipt(about))
        /\ issued' = issued + 1
  /\ UNCHANGED <<recorded, uncertain>>

AgentLedgerNext ==
  \/ LoadLedger
  \/ \E about \in Subjects : RecordReceipt(about)
  \/ LedgerCrash

AgentLedgerSpec == AgentLedgerInit /\ [][AgentLedgerNext]_ledgerVars

----------------------------------------------------------------------------
(* Properties *)

\* Every variable has the type the code gives it.
AgentLedgerTypeOK ==
  /\ ledger \in Seq(Receipt)
  /\ loaded \in BOOLEAN
  /\ readable \in Seq(Receipt)
  /\ ending \in {"clean", "unended", "garbled"}
  /\ issued \in 0..MaxReceipts
  /\ recorded \subseteq Ids
  /\ uncertain \subseteq Ids

\* Whatever crashed or was torn in this life or an earlier one, the receipts a
\* reader is shown form a chain from the first on; it has a gap only behind a
\* receipt whose append threw.
GapsAreFailedWrites ==
  \A i \in DOMAIN EnsureLoaded :
    LET before == TailHash(SubSeq(EnsureLoaded, 1, i - 1))
    IN EnsureLoaded[i].prev = before \/ EnsureLoaded[i].prev \in uncertain

\* As long as every line of the file parses, no confirmed receipt is missing
\* from it, except those whose append threw.
CleanFileKeepsAll == ending # "garbled" => recorded \ uncertain \subseteq IdsIn(readable)

\* What the file shows of the receipts after any crashes and torn lines: an
\* unbroken chain, or one broken where a write failed, and all of the confirmed
\* ones as long as its lines parse.
FileTellsTheTruth == GapsAreFailedWrites /\ CleanFileKeepsAll
============================================================================
