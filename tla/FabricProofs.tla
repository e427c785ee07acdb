---------------------------- MODULE FabricProofs ----------------------------
(***************************************************************************)
(* Theorems about the ledger of the agents and the compute fabric, for any  *)
(* number of receipts, nodes, tasks and overlapping launches.               *)
(***************************************************************************)
EXTENDS ComputeFabric, SequenceTheorems, FiniteSetTheorems, TLAPS

Endings == {"clean", "unended", "garbled"}

\* The hash that the i-th receipt should name.
Before(log, i) == IF i = 1 THEN Genesis ELSE log[i - 1].id

\* Gaps of a log are behind receipts of this set.
Chained(log, set) ==
  \A i \in DOMAIN log : log[i].prev = Before(log, i) \/ log[i].prev \in set

\* The inductive invariant.  While the file can be read to its end, it ends
\* like the array, unless the append of the last receipt threw.
LedgerInv ==
  /\ AgentLedgerTypeOK
  /\ Chained(ledger, uncertain)
  /\ Chained(readable, uncertain)
  /\ loaded /\ ending # "garbled" =>
       TailHash(ledger) = TailHash(readable) \/ TailHash(ledger) \in uncertain
  /\ ~loaded => ledger = <<>>
  /\ ending = "unended" => readable # <<>>
  /\ CleanFileKeepsAll

LEMMA TailHashTyped ==
  ASSUME NEW log \in Seq(Receipt) PROVE TailHash(log) \in {Genesis} \cup Ids
<1>1. CASE log = <<>>
  BY <1>1 DEF TailHash
<1>2. CASE log # <<>>
  <2>1. Len(log) \in 1..Len(log) /\ Len(log) \in Nat
    BY <1>2, EmptySeq
  <2>2. log[Len(log)] \in Receipt
    BY <2>1, ElementOfSeq
  <2>3. QED
    BY <1>2, <2>2 DEF TailHash, Receipt
<1>3. QED
  BY <1>1, <1>2

\* A receipt that names the tail of a log, or one whose append threw, continues it.
LEMMA ChainGrows ==
  ASSUME NEW log \in Seq(Receipt), NEW r \in Receipt, NEW set, Chained(log, set),
         r.prev = TailHash(log) \/ r.prev \in set
  PROVE  /\ Append(log, r) \in Seq(Receipt)
         /\ Chained(Append(log, r), set)
         /\ TailHash(Append(log, r)) = r.id
         /\ IdsIn(Append(log, r)) = IdsIn(log) \cup {r.id}
<1> DEFINE new == Append(log, r)
<1>1. /\ new \in Seq(Receipt)
      /\ Len(new) = Len(log) + 1
      /\ new[Len(log) + 1] = r
      /\ \A i \in 1..Len(log) : new[i] = log[i]
      /\ new # <<>>
  BY AppendProperties
<1>2. DOMAIN log = 1..Len(log) /\ DOMAIN new = 1..(Len(log) + 1) /\ Len(log) \in Nat
  BY <1>1
<1> HIDE DEF new
<1>3. Chained(new, set)
  <2> SUFFICES ASSUME NEW i \in DOMAIN new
               PROVE  new[i].prev = Before(new, i) \/ new[i].prev \in set
    BY DEF Chained
  <2>1. CASE i \in 1..Len(log)
    <3>1. i # 1 => i - 1 \in 1..Len(log)
      BY <2>1, <1>2
    <3>2. Before(new, i) = Before(log, i)
      BY <3>1, <1>1 DEF Before
    <3>3. QED
      BY <2>1, <3>2, <1>1, <1>2 DEF Chained
  <2>2. CASE i = Len(log) + 1
    <3>1. Before(new, i) = TailHash(log)
      <4>1. CASE log = <<>>
        BY <2>2, <4>1 DEF Before, TailHash
      <4>2. CASE log # <<>>
        <5>1. Len(log) # 0
          BY <4>2, EmptySeq
        <5>2. i # 1 /\ i - 1 = Len(log) /\ Len(log) \in 1..Len(log)
          BY <2>2, <5>1, <1>2
        <5>3. QED
          BY <4>2, <5>2, <1>1 DEF Before, TailHash
      <4>3. QED
        BY <4>1, <4>2
    <3>2. QED
      BY <2>2, <3>1, <1>1
  <2>3. QED
    BY <2>1, <2>2, <1>2
<1>4. TailHash(new) = r.id
  BY <1>1 DEF TailHash
<1>5. IdsIn(new) = IdsIn(log) \cup {r.id}
  <2>1. \A i : i \in 1..(Len(log) + 1) <=> i \in 1..Len(log) \/ i = Len(log) + 1
    BY <1>2
  <2>2. QED
    BY <2>1, <1>1, <1>2 DEF IdsIn
<1>6. QED
  BY <1>1, <1>3, <1>4, <1>5 DEF new

\* A log without its last receipt is a log.
LEMMA ChainShrinks ==
  ASSUME NEW log \in Seq(Receipt), NEW set, Chained(log, set), Len(log) # 0
  PROVE  /\ SubSeq(log, 1, Len(log) - 1) \in Seq(Receipt)
         /\ Chained(SubSeq(log, 1, Len(log) - 1), set)
<1> DEFINE new == SubSeq(log, 1, Len(log) - 1)
<1>1. Len(log) \in Nat /\ DOMAIN log = 1..Len(log) /\ Len(log) - 1 \in 0..Len(log)
  OBVIOUS
<1>2. /\ new \in Seq(Receipt)
      /\ Len(new) = Len(log) - 1
      /\ \A i \in 1..(Len(log) - 1) : new[i] = log[i]
  BY <1>1, SubSeqProperties
<1>3. DOMAIN new = 1..(Len(log) - 1)
  BY <1>2
<1> HIDE DEF new
<1>4. ASSUME NEW i \in DOMAIN new PROVE new[i].prev = Before(new, i) \/ new[i].prev \in set
  <2>1. i \in 1..(Len(log) - 1) /\ i \in DOMAIN log /\ (i # 1 => i - 1 \in 1..(Len(log) - 1))
    BY <1>1, <1>3
  <2>2. Before(new, i) = Before(log, i)
    BY <2>1, <1>2 DEF Before
  <2>3. QED
    BY <2>1, <2>2, <1>2 DEF Chained
<1>5. QED
  BY <1>2, <1>4 DEF Chained, new

LEMMA ChainedMore ==
  ASSUME NEW log, NEW set, NEW more, Chained(log, set), set \subseteq more
  PROVE  Chained(log, more)
BY DEF Chained

\* The receipt that is made now, and what it names.
LEMMA ReceiptMade ==
  ASSUME LedgerInv, NEW about \in Subjects, issued < MaxReceipts
  PROVE  /\ EnsureLoaded \in Seq(Receipt)
         /\ Chained(EnsureLoaded, uncertain)
         /\ NewReceipt(about) \in Receipt
         /\ NewReceipt(about).id = issued + 1
         /\ NewReceipt(about).about = about
         /\ NewReceipt(about).prev = TailHash(EnsureLoaded)
         /\ issued + 1 \in Ids /\ issued + 1 \in 0..MaxReceipts
         /\ ending # "garbled" => NewReceipt(about).prev = TailHash(readable)
                                  \/ NewReceipt(about).prev \in uncertain
<1>1. EnsureLoaded \in Seq(Receipt) /\ Chained(EnsureLoaded, uncertain)
  BY DEF LedgerInv, AgentLedgerTypeOK, EnsureLoaded
<1>2. TailHash(EnsureLoaded) \in {Genesis} \cup Ids
  BY <1>1, TailHashTyped
<1>3. issued + 1 \in Ids /\ issued + 1 \in 0..MaxReceipts
  BY LedgerAssumption DEF LedgerInv, AgentLedgerTypeOK, Ids
<1>4. /\ NewReceipt(about) \in Receipt
      /\ NewReceipt(about).id = issued + 1
      /\ NewReceipt(about).about = about
      /\ NewReceipt(about).prev = TailHash(EnsureLoaded)
  BY <1>2, <1>3 DEF NewReceipt, Receipt
<1>5. ending # "garbled" => TailHash(EnsureLoaded) = TailHash(readable)
                            \/ TailHash(EnsureLoaded) \in uncertain
  BY DEF LedgerInv, EnsureLoaded
<1>6. QED
  BY <1>1, <1>3, <1>4, <1>5

\* What is common to all that an append may leave in the file.
FileGrew ==
  /\ readable' \in Seq(Receipt)
  /\ ending' \in Endings
  /\ Chained(readable', uncertain)
  /\ ending' = "unended" => readable' # <<>>
  /\ ending' # "garbled" => ending # "garbled" /\ IdsIn(readable) \subseteq IdsIn(readable')

LEMMA GluedLines ==
  ASSUME LedgerInv, ending = "unended", Glued PROVE FileGrew
<1>1. readable \in Seq(Receipt) /\ readable # <<>> /\ Chained(readable, uncertain)
  BY DEF LedgerInv, AgentLedgerTypeOK
<1>2. Len(readable) # 0
  BY <1>1, EmptySeq
<1>3. QED
  BY <1>1, <1>2, ChainShrinks DEF Glued, FileGrew, Endings

LEMMA AppendedLine ==
  ASSUME LedgerInv, NEW r \in Receipt, ending = "clean", ending' \in {"clean", "unended"},
         readable' = Append(readable, r), r.prev = TailHash(readable) \/ r.prev \in uncertain
  PROVE  /\ FileGrew
         /\ TailHash(readable') = r.id
         /\ IdsIn(readable') = IdsIn(readable) \cup {r.id}
<1>1. readable \in Seq(Receipt) /\ Chained(readable, uncertain)
  BY DEF LedgerInv, AgentLedgerTypeOK
<1>2. /\ readable' \in Seq(Receipt)
      /\ Chained(readable', uncertain)
      /\ TailHash(readable') = r.id
      /\ IdsIn(readable') = IdsIn(readable) \cup {r.id}
  BY <1>1, ChainGrows
<1>3. readable' # <<>>
  BY <1>1, AppendProperties
<1>4. QED
  BY <1>2, <1>3 DEF FileGrew, Endings

LEMMA UnchangedFile ==
  ASSUME LedgerInv, UNCHANGED <<readable, ending>> PROVE FileGrew
BY DEF LedgerInv, AgentLedgerTypeOK, FileGrew, Endings

LEMMA WrittenLine ==
  ASSUME LedgerInv, NEW about \in Subjects, issued < MaxReceipts, Written(NewReceipt(about))
  PROVE  /\ FileGrew
         /\ ending' # "garbled" => /\ TailHash(readable') = issued + 1
                                   /\ issued + 1 \in IdsIn(readable')
<1> DEFINE r == NewReceipt(about)
<1>1. /\ r \in Receipt
      /\ r.id = issued + 1
      /\ ending # "garbled" => r.prev = TailHash(readable) \/ r.prev \in uncertain
  BY ReceiptMade
<1> HIDE DEF r
<1>2. CASE ending = "clean" /\ readable' = Append(readable, r) /\ ending' = ending
  BY <1>1, <1>2, AppendedLine
<1>3. CASE ending = "unended" /\ Glued
  BY <1>3, GluedLines DEF Glued
<1>4. CASE ending = "garbled" /\ UNCHANGED <<readable, ending>>
  BY <1>4, UnchangedFile
<1>5. QED
  BY <1>2, <1>3, <1>4 DEF Written, r

LEMMA LineCutShort ==
  ASSUME LedgerInv, NEW about \in Subjects, issued < MaxReceipts,
         WrittenInPart(NewReceipt(about))
  PROVE  FileGrew
<1> DEFINE r == NewReceipt(about)
<1>1. /\ r \in Receipt
      /\ ending # "garbled" => r.prev = TailHash(readable) \/ r.prev \in uncertain
  BY ReceiptMade
<1> HIDE DEF r
<1>2. CASE UNCHANGED <<readable, ending>>
  BY <1>2, UnchangedFile
<1>3. CASE ending = "clean" /\ readable' = readable /\ ending' = "garbled"
  BY <1>3 DEF FileGrew, Endings, LedgerInv, AgentLedgerTypeOK
<1>4. CASE ending = "clean" /\ readable' = Append(readable, r) /\ ending' = "unended"
  BY <1>1, <1>4, AppendedLine
<1>5. CASE ending = "unended" /\ Glued
  BY <1>5, GluedLines
<1>6. QED
  BY <1>2, <1>3, <1>4, <1>5 DEF WrittenInPart, r

\* Recording a receipt, whether its append works or throws.
LEMMA RecordReceiptKeeps ==
  ASSUME LedgerInv, NEW about \in Subjects, RecordReceipt(about)
  PROVE  LedgerInv'
<1> DEFINE r == NewReceipt(about)
<1>1. /\ issued < MaxReceipts
      /\ ledger' = Append(EnsureLoaded, r)
      /\ recorded' = recorded \cup {r.id}
      /\ loaded' = TRUE
      /\ issued' = issued + 1
      /\ \/ Written(r) /\ uncertain' = uncertain
         \/ WrittenInPart(r) /\ uncertain' = uncertain \cup {r.id}
  BY DEF RecordReceipt
<1>2. /\ EnsureLoaded \in Seq(Receipt)
      /\ Chained(EnsureLoaded, uncertain)
      /\ r \in Receipt
      /\ r.id = issued + 1
      /\ r.prev = TailHash(EnsureLoaded)
      /\ issued + 1 \in Ids /\ issued + 1 \in 0..MaxReceipts
  BY <1>1, ReceiptMade
<1>3. FileGrew
  BY <1>1, WrittenLine, LineCutShort
<1>4. \/ uncertain' = uncertain /\ (ending' # "garbled" => /\ TailHash(readable') = issued + 1
                                                          /\ issued + 1 \in IdsIn(readable'))
      \/ uncertain' = uncertain \cup {issued + 1}
  BY <1>1, <1>2, WrittenLine
<1> HIDE DEF r
<1>5. /\ ledger' \in Seq(Receipt)
      /\ Chained(ledger', uncertain)
      /\ TailHash(ledger') = issued + 1
  BY <1>1, <1>2, ChainGrows
<1>6. uncertain \subseteq uncertain' /\ uncertain' \subseteq Ids
  BY <1>2, <1>4 DEF LedgerInv, AgentLedgerTypeOK
<1>7. AgentLedgerTypeOK'
  BY <1>1, <1>2, <1>3, <1>5, <1>6 DEF AgentLedgerTypeOK, LedgerInv, FileGrew, Endings
<1>8. Chained(ledger', uncertain') /\ Chained(readable', uncertain')
  BY <1>3, <1>5, <1>6, ChainedMore DEF FileGrew
<1>9. ending' # "garbled" => TailHash(ledger') = TailHash(readable') \/ TailHash(ledger') \in uncertain'
  BY <1>4, <1>5
<1>10. CleanFileKeepsAll'
  <2> SUFFICES ASSUME ending' # "garbled", NEW x \in recorded' \ uncertain'
               PROVE  x \in IdsIn(readable')
    BY DEF CleanFileKeepsAll
  <2>1. ending # "garbled" /\ IdsIn(readable) \subseteq IdsIn(readable')
    BY <1>3 DEF FileGrew
  <2>2. CASE x \in recorded
    BY <2>1, <2>2, <1>6 DEF LedgerInv, CleanFileKeepsAll
  <2>3. CASE x = issued + 1
    BY <2>3, <1>4
  <2>4. QED
    BY <2>2, <2>3, <1>1, <1>2
<1>11. QED
  BY <1>1, <1>3, <1>7, <1>8, <1>9, <1>10 DEF LedgerInv, FileGrew

LEMMA LoadLedgerKeeps == ASSUME LedgerInv, LoadLedger PROVE LedgerInv'
<1>1. /\ ledger' = readable /\ loaded' = TRUE
      /\ UNCHANGED <<readable, ending, issued, recorded, uncertain>>
  BY DEF LoadLedger, EnsureLoaded
<1>2. AgentLedgerTypeOK'
  BY <1>1 DEF LedgerInv, AgentLedgerTypeOK
<1>3. CleanFileKeepsAll'
  BY <1>1 DEF LedgerInv, CleanFileKeepsAll
<1>4. QED
  BY <1>1, <1>2, <1>3 DEF LedgerInv

LEMMA LedgerCrashKeeps == ASSUME LedgerInv, LedgerCrash PROVE LedgerInv'
<1>1. ledger' = <<>> /\ loaded' = FALSE /\ UNCHANGED <<recorded, uncertain>>
  BY DEF LedgerCrash
<1>2. FileGrew /\ issued' \in 0..MaxReceipts
  <2>1. CASE UNCHANGED <<readable, ending, issued>>
    BY <2>1, UnchangedFile DEF LedgerInv, AgentLedgerTypeOK
  <2>2. CASE /\ issued < MaxReceipts
             /\ \E about \in Subjects : WrittenInPart(NewReceipt(about))
             /\ issued' = issued + 1
    <3>1. PICK about \in Subjects : WrittenInPart(NewReceipt(about))
      BY <2>2
    <3>2. FileGrew
      BY <2>2, <3>1, LineCutShort
    <3>3. issued + 1 \in 0..MaxReceipts
      BY <2>2, LedgerAssumption DEF LedgerInv, AgentLedgerTypeOK
    <3>4. QED
      BY <2>2, <3>2, <3>3
  <2>3. QED
    BY <2>1, <2>2 DEF LedgerCrash
<1>3. <<>> \in Seq(Receipt)
  BY EmptySeq
<1>4. AgentLedgerTypeOK'
  BY <1>1, <1>2, <1>3 DEF LedgerInv, AgentLedgerTypeOK, FileGrew, Endings
<1>5. Chained(<<>>, uncertain)
  BY DEF Chained
<1>6. CleanFileKeepsAll'
  BY <1>1, <1>2 DEF LedgerInv, CleanFileKeepsAll, FileGrew
<1>7. QED
  BY <1>1, <1>2, <1>4, <1>5, <1>6 DEF LedgerInv, FileGrew

LEMMA LedgerInitially == AgentLedgerInit => LedgerInv
<1> SUFFICES ASSUME AgentLedgerInit PROVE LedgerInv
  OBVIOUS
<1> USE DEF AgentLedgerInit
<1>1. <<>> \in Seq(Receipt) /\ 0 \in 0..MaxReceipts
  BY EmptySeq, LedgerAssumption
<1>2. AgentLedgerTypeOK
  BY <1>1 DEF AgentLedgerTypeOK
<1>3. Chained(<<>>, {})
  BY DEF Chained
<1>4. CleanFileKeepsAll
  BY DEF CleanFileKeepsAll
<1>5. QED
  BY <1>2, <1>3, <1>4 DEF LedgerInv

LEMMA LedgerStutters == ASSUME LedgerInv, UNCHANGED ledgerVars PROVE LedgerInv'
BY DEF LedgerInv, ledgerVars, AgentLedgerTypeOK, CleanFileKeepsAll

LEMMA LedgerKeeps == LedgerInv /\ [AgentLedgerNext]_ledgerVars => LedgerInv'
<1> SUFFICES ASSUME LedgerInv, [AgentLedgerNext]_ledgerVars PROVE LedgerInv'
  OBVIOUS
<1>1. CASE AgentLedgerNext
  BY <1>1, LoadLedgerKeeps, RecordReceiptKeeps, LedgerCrashKeeps DEF AgentLedgerNext
<1>2. QED
  BY <1>1, LedgerStutters

LEMMA LedgerInvariant == AgentLedgerSpec => []LedgerInv
BY LedgerInitially, LedgerKeeps, PTL DEF AgentLedgerSpec

\* Crashes and torn writes included, array and file hold receipts.
THEOREM LedgerTypeCorrect == AgentLedgerSpec => []AgentLedgerTypeOK
<1>1. LedgerInv => AgentLedgerTypeOK
  BY DEF LedgerInv
<1>2. QED
  BY LedgerInvariant, <1>1, PTL

\* A file whose lines all parse has lost no receipt but one whose append threw.
THEOREM CleanFilesKeepAll == AgentLedgerSpec => []CleanFileKeepsAll
<1>1. LedgerInv => CleanFileKeepsAll
  BY DEF LedgerInv
<1>2. QED
  BY LedgerInvariant, <1>1, PTL

LEMMA GapsExplained == LedgerInv => GapsAreFailedWrites
<1> SUFFICES ASSUME LedgerInv, NEW i \in DOMAIN EnsureLoaded
             PROVE  \/ EnsureLoaded[i].prev = TailHash(SubSeq(EnsureLoaded, 1, i - 1))
                    \/ EnsureLoaded[i].prev \in uncertain
  BY DEF GapsAreFailedWrites
<1>1. EnsureLoaded \in Seq(Receipt) /\ Chained(EnsureLoaded, uncertain)
  BY DEF LedgerInv, AgentLedgerTypeOK, EnsureLoaded
<1> DEFINE log == EnsureLoaded
<1> HIDE DEF log
<1>2. log \in Seq(Receipt) /\ Chained(log, uncertain) /\ i \in DOMAIN log
  BY <1>1 DEF log
<1>3. Len(log) \in Nat /\ DOMAIN log = 1..Len(log) /\ i \in 1..Len(log)
  BY <1>2
<1>4. TailHash(SubSeq(log, 1, i - 1)) = Before(log, i)
  <2>1. CASE i = 1
    <3>1. SubSeq(log, 1, i - 1) = <<>>
      BY <1>2, <2>1, SubSeqEmpty
    <3>2. QED
      BY <2>1, <3>1 DEF TailHash, Before
  <2>2. CASE i # 1
    <3>1. /\ i - 1 \in 1..Len(log)
      BY <1>3, <2>2
    <3>2. /\ SubSeq(log, 1, i - 1) \in Seq(Receipt)
          /\ Len(SubSeq(log, 1, i - 1)) = i - 1
          /\ SubSeq(log, 1, i - 1)[i - 1] = log[i - 1]
      BY <1>2, <3>1, SubSeqProperties
    <3>3. SubSeq(log, 1, i - 1) # <<>>
      BY <3>1, <3>2, EmptySeq
    <3>4. QED
      BY <2>2, <3>2, <3>3 DEF TailHash, Before
  <2>3. QED
    BY <2>1, <2>2
<1>5. log[i].prev = TailHash(SubSeq(log, 1, i - 1)) \/ log[i].prev \in uncertain
  BY <1>2, <1>4 DEF Chained
<1>6. QED
  BY <1>5 DEF log

\* Whatever was torn and whenever the process died, gaps in the chain are
\* behind receipts whose append threw.
THEOREM GapsAreExplained == AgentLedgerSpec => []GapsAreFailedWrites
BY LedgerInvariant, GapsExplained, PTL

\* Two ways to read the file of the ledger, for gaps in the chain and for lines
\* that do not parse, and neither hides a receipt whose append did not throw.
THEOREM FileIsTruthful == AgentLedgerSpec => []FileTellsTheTruth
<1>1. GapsAreFailedWrites /\ CleanFileKeepsAll => FileTellsTheTruth
  BY DEF FileTellsTheTruth
<1>2. QED
  BY <1>1, GapsAreExplained, CleanFilesKeepAll, PTL

\* The receipts shown include none whose append threw.
NoneThrew == loaded /\ IdsIn(ledger) \cap uncertain = {}

\* The file holds what is shown from its first receipt on.
FileIsBeginning == \A i \in DOMAIN readable : i \in DOMAIN ledger /\ ledger[i] = readable[i]

\* What the next process would show, if this one died now: the beginning of
\* what this one shows, and all of it unless a line does not parse.
RestartShowsTheSame == NoneThrew => /\ FileIsBeginning
                                    /\ ending # "garbled" => ledger = readable

LEMMA ShownGrows ==
  ASSUME LedgerInv, RestartShowsTheSame, NEW about \in Subjects, RecordReceipt(about)
  PROVE  RestartShowsTheSame'
<1> DEFINE r == NewReceipt(about)
<1> SUFFICES ASSUME NoneThrew'
             PROVE  FileIsBeginning' /\ (ending' # "garbled" => ledger' = readable')
  BY DEF RestartShowsTheSame
<1>1. /\ issued < MaxReceipts
      /\ ledger' = Append(EnsureLoaded, r)
      /\ \/ Written(r) /\ uncertain' = uncertain
         \/ uncertain' = uncertain \cup {r.id}
  BY DEF RecordReceipt
<1>2. /\ EnsureLoaded \in Seq(Receipt) /\ Chained(EnsureLoaded, uncertain)
      /\ r \in Receipt /\ r.prev = TailHash(EnsureLoaded)
      /\ readable \in Seq(Receipt)
  BY <1>1, ReceiptMade DEF LedgerInv, AgentLedgerTypeOK
<1> HIDE DEF r
<1>3. IdsIn(ledger') = IdsIn(EnsureLoaded) \cup {r.id}
  BY <1>1, <1>2, ChainGrows
<1>4. Written(r) /\ uncertain' = uncertain /\ IdsIn(EnsureLoaded) \cap uncertain = {}
  BY <1>1, <1>3 DEF NoneThrew
<1>5. /\ \A i \in DOMAIN readable : i \in DOMAIN EnsureLoaded /\ EnsureLoaded[i] = readable[i]
      /\ ending # "garbled" => EnsureLoaded = readable
  BY <1>4 DEF EnsureLoaded, RestartShowsTheSame, NoneThrew, FileIsBeginning
<1>6. /\ Len(EnsureLoaded) \in Nat /\ DOMAIN EnsureLoaded = 1..Len(EnsureLoaded)
      /\ DOMAIN ledger' = 1..(Len(EnsureLoaded) + 1)
      /\ \A i \in 1..Len(EnsureLoaded) : ledger'[i] = EnsureLoaded[i]
  BY <1>1, <1>2, AppendProperties
<1>7. \A i \in DOMAIN readable : i \in DOMAIN ledger' /\ ledger'[i] = readable[i]
  BY <1>5, <1>6
<1>8. CASE ending = "clean" /\ readable' = Append(readable, r) /\ ending' = ending
  BY <1>1, <1>5, <1>8 DEF FileIsBeginning
<1>9. CASE ending = "unended" /\ Glued
  <2>1. readable # <<>>
    BY <1>9 DEF LedgerInv
  <2>2. Len(readable) \in Nat /\ DOMAIN readable = 1..Len(readable) /\ Len(readable) # 0
    BY <1>2, <2>1, EmptySeq
  <2>3. /\ DOMAIN readable' = 1..(Len(readable) - 1)
        /\ \A i \in 1..(Len(readable) - 1) : readable'[i] = readable[i]
    BY <1>2, <1>9, <2>2, SubSeqProperties DEF Glued
  <2>4. \A i \in DOMAIN readable' : i \in DOMAIN readable /\ readable'[i] = readable[i]
    BY <2>2, <2>3
  <2>5. QED
    BY <1>7, <1>9, <2>4 DEF Glued, FileIsBeginning
<1>10. CASE ending = "garbled" /\ UNCHANGED <<readable, ending>>
  BY <1>7, <1>10 DEF FileIsBeginning
<1>11. QED
  BY <1>4, <1>8, <1>9, <1>10 DEF Written

\* recordReceipt swallows the error of an append, and so do the readers of the
\* ledger.  As long as no append threw for what is shown, the process that
\* follows this one shows the beginning of it, and all of it unless a line was
\* torn: nothing is reordered, inserted or taken from the middle.
THEOREM RestartsShowTheSame == AgentLedgerSpec => []RestartShowsTheSame
<1>1. AgentLedgerInit => RestartShowsTheSame
  BY DEF AgentLedgerInit, RestartShowsTheSame, NoneThrew
<1>2. ASSUME LedgerInv, RestartShowsTheSame, [AgentLedgerNext]_ledgerVars
      PROVE  RestartShowsTheSame'
  <2>1. CASE UNCHANGED ledgerVars
    BY <1>2, <2>1 DEF ledgerVars, RestartShowsTheSame, NoneThrew, FileIsBeginning
  <2>2. CASE LoadLedger
    BY <1>2, <2>2 DEF LoadLedger, EnsureLoaded, RestartShowsTheSame, FileIsBeginning
  <2>3. ASSUME NEW about \in Subjects, RecordReceipt(about) PROVE RestartShowsTheSame'
    BY <1>2, <2>3, ShownGrows
  <2>4. CASE LedgerCrash
    BY <2>4 DEF LedgerCrash, RestartShowsTheSame, NoneThrew
  <2>5. QED
    BY <1>2, <2>1, <2>2, <2>3, <2>4 DEF AgentLedgerNext
<1>3. QED
  BY <1>1, <1>2, LedgerInvariant, PTL DEF AgentLedgerSpec

----------------------------------------------------------------------------

\* Is this invocation past its authorization?
Held(c) == launch[c].at \in {"recording", "recorded"}
Authorized(id, n, auth) == auth \in DOMAIN auths /\ auths[auth] = [id |-> id, node |-> n]
Receipted(auth) == \E k \in DOMAIN ledger : ledger[k].about = auth

FabricTypes ==
  /\ node \in [Nodes -> {"absent", "up", "suspended"}]
  /\ auths \in Seq(Authorization)
  /\ launch \in [Launches -> {Idle} \cup Launching]
  /\ tasks \in Seq(Task)
  /\ prongs \in Seq(Prong)

\* The authorization of an invocation is its own: no other invocation and no
\* task has it, and its receipt is recorded before the task is made.
LaunchesAreAuthorized ==
  \A c \in Launches :
    Held(c) =>
      /\ Authorized(launch[c].id, launch[c].node, launch[c].auth)
      /\ launch[c].at = "recorded" => Receipted(launch[c].auth)
      /\ \A d \in Launches : Held(d) /\ launch[d].auth = launch[c].auth => d = c
      /\ \A i \in DOMAIN tasks : tasks[i].auth # launch[c].auth

\* The forms of an invocation.
LEMMA LaunchForms ==
  ASSUME FabricTypes, NEW c \in Launches
  PROVE  /\ launch[c].at = "routing" =>
              launch[c].id \in TaskIds /\ launch[c].node \in Nodes
         /\ Held(c) =>
              /\ launch[c].id \in TaskIds /\ launch[c].node \in Nodes
              /\ launch[c].auth \in 1..MaxAuthorizations
         /\ launch[c] = Idle => ~Held(c)
<1>1. launch[c] = Idle \/ launch[c] \in Launching
  BY DEF FabricTypes
<1>2. CASE launch[c] = Idle
  BY <1>2 DEF Idle, Held
<1>3. CASE launch[c] \in [at : {"routing"}, id : TaskIds, node : Nodes]
  BY <1>3 DEF Held, Idle
<1>4. CASE launch[c] \in [at : {"recording", "recorded"}, id : TaskIds, node : Nodes,
                          auth : 1..MaxAuthorizations]
  BY <1>4 DEF Held, Idle
<1>5. QED
  BY <1>1, <1>2, <1>3, <1>4 DEF Launching

\* A receipt that is in the array stays there, and a new one gets in.
LEMMA ReceiptsStay ==
  ASSUME LedgerInv, NEW about \in Subjects, RecordReceipt(about)
  PROVE  /\ Receipted(about)'
         /\ \A x : Receipted(x) => Receipted(x)'
<1> DEFINE r == NewReceipt(about)
<1>1. issued < MaxReceipts /\ ledger' = Append(EnsureLoaded, r)
  BY DEF RecordReceipt
<1>2. EnsureLoaded \in Seq(Receipt) /\ r \in Receipt /\ r.about = about
  BY <1>1, ReceiptMade
<1> HIDE DEF r
<1>3. /\ Len(ledger') = Len(EnsureLoaded) + 1
      /\ ledger'[Len(EnsureLoaded) + 1] = r
      /\ \A i \in 1..Len(EnsureLoaded) : ledger'[i] = EnsureLoaded[i]
      /\ ledger' \in Seq(Receipt)
  BY <1>1, <1>2, AppendProperties
<1>4. DOMAIN ledger' = 1..(Len(EnsureLoaded) + 1) /\ Len(EnsureLoaded) \in Nat
  BY <1>2, <1>3
<1>5. Receipted(about)'
  <2>1. Len(EnsureLoaded) + 1 \in DOMAIN ledger'
    BY <1>4
  <2>2. QED
    BY <2>1, <1>2, <1>3 DEF Receipted
<1>6. ASSUME NEW x, Receipted(x) PROVE Receipted(x)'
  <2>1. PICK k \in DOMAIN ledger : ledger[k].about = x
    BY <1>6 DEF Receipted
  <2>2. ledger # <<>>
    BY <2>1
  <2>3. EnsureLoaded = ledger
    BY <2>2 DEF LedgerInv, EnsureLoaded
  <2>4. k \in 1..Len(EnsureLoaded)
    BY <2>1, <2>3, <1>2
  <2>5. k \in DOMAIN ledger' /\ ledger'[k].about = x
    BY <1>3, <1>4, <2>1, <2>3, <2>4
  <2>6. QED
    BY <2>5 DEF Receipted
<1>7. QED
  BY <1>5, <1>6

LEMMA LoadingLosesNothing ==
  ASSUME LedgerInv, LoadLedger
  PROVE  \A x : Receipted(x) => Receipted(x)'
<1>1. ledger = <<>>
  BY DEF LoadLedger, LedgerInv
<1>2. \A x : ~Receipted(x)
  BY <1>1 DEF Receipted
<1>3. QED
  BY <1>2

LEMMA AppendTyped ==
  ASSUME NEW S, NEW log \in Seq(S), NEW x \in S PROVE Append(log, x) \in Seq(S)
BY AppendProperties

LEMMA ExceptTyped ==
  ASSUME NEW S, NEW log \in Seq(S), NEW i \in DOMAIN log, NEW x \in S
  PROVE  [log EXCEPT ![i] = x] \in Seq(S)
BY ExceptSeq

LEMMA FabricTypesStep ==
  ASSUME FabricTypes, FabricNext PROVE FabricTypes'
<1>1. ASSUME NEW n \in Nodes, RegisterNode(n) \/ UpdateNodeHeartbeat(n) \/ SuspendNode(n)
      PROVE  FabricTypes'
  BY <1>1 DEF RegisterNode, UpdateNodeHeartbeat, SuspendNode, FabricTypes
<1>2. ASSUME NEW c \in Launches, NEW id \in TaskIds, NEW n \in Nodes, ExecuteFabricTask(c, id, n)
      PROVE  FabricTypes'
  <2>1. [at |-> "routing", id |-> id, node |-> n] \in {Idle} \cup Launching
    BY DEF Launching
  <2>2. QED
    BY <1>2, <2>1 DEF ExecuteFabricTask, FabricTypes
<1>3. ASSUME NEW c \in Launches, AuthorizeCompute(c) PROVE FabricTypes'
  <2>1. launch[c].id \in TaskIds /\ launch[c].node \in Nodes
    BY <1>3, LaunchForms DEF AuthorizeCompute
  <2>2. [id |-> launch[c].id, node |-> launch[c].node] \in Authorization
    BY <2>1 DEF Authorization
  <2>3. auths' \in Seq(Authorization)
    BY <1>3, <2>2, AppendProperties DEF AuthorizeCompute, FabricTypes
  <2>4. Len(auths) + 1 \in 1..MaxAuthorizations
    BY <1>3, FabricAssumption DEF AuthorizeCompute, FabricTypes
  <2>5. [at |-> "recording", id |-> launch[c].id, node |-> launch[c].node,
         auth |-> Len(auths) + 1] \in {Idle} \cup Launching
    BY <2>1, <2>4 DEF Launching
  <2>6. launch' \in [Launches -> {Idle} \cup Launching]
    BY <1>3, <2>5 DEF AuthorizeCompute, FabricTypes
  <2>7. QED
    BY <1>3, <2>3, <2>6 DEF AuthorizeCompute, FabricTypes
<1>4. ASSUME NEW c \in Launches, RecordAuthorization(c) PROVE FabricTypes'
  <2>1. launch[c] \in [at : {"recording", "recorded"}, id : TaskIds, node : Nodes,
                       auth : 1..MaxAuthorizations]
    BY <1>4 DEF RecordAuthorization, FabricTypes, Launching, Idle
  <2>2. [launch[c] EXCEPT !.at = "recorded"] \in {Idle} \cup Launching
    BY <2>1 DEF Launching
  <2>3. QED
    BY <1>4, <2>2 DEF RecordAuthorization, FabricTypes
<1>5. ASSUME NEW c \in Launches, LaunchTask(c) PROVE FabricTypes'
  <2>1. /\ launch[c].id \in TaskIds /\ launch[c].node \in Nodes
        /\ launch[c].auth \in 1..MaxAuthorizations
    BY <1>5, LaunchForms DEF LaunchTask, Held
  <2>2. NewTask(c, "running") \in Task /\ NewTask(c, "pending") \in Task
    BY <2>1 DEF NewTask, Task
  <2>3. [id |-> launch[c].id, status |-> "pending", output |-> FALSE] \in Prong
    BY <2>1 DEF Prong
  <2>4. tasks' \in Seq(Task)
    <3>1. /\ Append(tasks, NewTask(c, "running")) \in Seq(Task)
          /\ Append(tasks, NewTask(c, "pending")) \in Seq(Task)
      BY <2>2, AppendTyped DEF FabricTypes
    <3>2. QED
      BY <1>5, <3>1 DEF LaunchTask
  <2>5. prongs' \in Seq(Prong)
    <3>1. prongs \in Seq(Prong)
      BY DEF FabricTypes
    <3>2. Append(prongs, [id |-> launch[c].id, status |-> "pending", output |-> FALSE]) \in Seq(Prong)
      BY <2>3, <3>1, AppendTyped
    <3>3. QED
      BY <1>5, <3>1, <3>2 DEF LaunchTask
  <2>6. launch' \in [Launches -> {Idle} \cup Launching]
    BY <1>5 DEF LaunchTask, FabricTypes
  <2>7. QED
    BY <1>5, <2>4, <2>5, <2>6 DEF LaunchTask, FabricTypes
<1>6. ASSUME NEW k \in DOMAIN prongs, EndProng(k) PROVE FabricTypes'
  <2>1. prongs[k] \in Prong
    BY ElementOfSeq DEF FabricTypes
  <2>2. /\ [prongs[k] EXCEPT !.status = "done", !.output = TRUE] \in Prong
        /\ [prongs[k] EXCEPT !.status = "failed"] \in Prong
    BY <2>1 DEF Prong
  <2>3. \/ prongs' = [prongs EXCEPT ![k] = [prongs[k] EXCEPT !.status = "done", !.output = TRUE]]
        \/ prongs' = [prongs EXCEPT ![k] = [prongs[k] EXCEPT !.status = "failed"]]
    BY <1>6 DEF EndProng
  <2>4. prongs' \in Seq(Prong)
    <3>1. prongs \in Seq(Prong)
      BY DEF FabricTypes
    <3>2. /\ [prongs EXCEPT ![k] = [prongs[k] EXCEPT !.status = "done", !.output = TRUE]] \in Seq(Prong)
          /\ [prongs EXCEPT ![k] = [prongs[k] EXCEPT !.status = "failed"]] \in Seq(Prong)
      BY <2>2, <3>1, ExceptTyped
    <3>3. QED
      BY <2>3, <3>2
  <2>5. QED
    BY <1>6, <2>4 DEF EndProng, FabricTypes
<1>7. ASSUME NEW i \in DOMAIN tasks, NEW how \in {"completed", "failed"}, EndFabricTask(i, how)
      PROVE  FabricTypes'
  <2>1. tasks[i] \in Task
    BY ElementOfSeq DEF FabricTypes
  <2>2. [tasks[i] EXCEPT !.status = how] \in Task
    BY <2>1 DEF Task
  <2>3. tasks' \in Seq(Task)
    <3>1. tasks \in Seq(Task)
      BY DEF FabricTypes
    <3>2. [tasks EXCEPT ![i] = [tasks[i] EXCEPT !.status = how]] \in Seq(Task)
      BY <2>2, <3>1, ExceptTyped
    <3>3. tasks' = [tasks EXCEPT ![i] = [tasks[i] EXCEPT !.status = how]]
      BY <1>7 DEF EndFabricTask
    <3>4. QED
      BY <3>2, <3>3
  <2>4. QED
    BY <1>7, <2>3 DEF EndFabricTask, FabricTypes
<1>8. ASSUME NEW i \in DOMAIN tasks, RevertFabricTask(i) PROVE FabricTypes'
  <2>1. tasks[i] \in Task
    BY ElementOfSeq DEF FabricTypes
  <2>2. [tasks[i] EXCEPT !.status = "reverted"] \in Task
    BY <2>1 DEF Task
  <2>3. tasks' \in Seq(Task)
    <3>1. tasks \in Seq(Task)
      BY DEF FabricTypes
    <3>2. [tasks EXCEPT ![i] = [tasks[i] EXCEPT !.status = "reverted"]] \in Seq(Task)
      BY <2>2, <3>1, ExceptTyped
    <3>3. tasks' = [tasks EXCEPT ![i] = [tasks[i] EXCEPT !.status = "reverted"]]
      BY <1>8 DEF RevertFabricTask
    <3>4. QED
      BY <3>2, <3>3
  <2>4. prongs' \in Seq(Prong)
    <3>1. Len(prongs) \in Nat /\ DOMAIN prongs = 1..Len(prongs)
      BY DEF FabricTypes
    <3>2. \A k \in 1..Len(prongs) : prongs[k] \in Prong
      BY ElementOfSeq DEF FabricTypes
    <3>3. \A k \in 1..Len(prongs) : [prongs[k] EXCEPT !.status = "pending", !.output = FALSE] \in Prong
      BY <3>2 DEF Prong
    <3>4. prongs' \in [1..Len(prongs) -> Prong]
      BY <1>8, <3>1, <3>2, <3>3 DEF RevertFabricTask
    <3>5. QED
      BY <3>1, <3>4, SeqDef
  <2>5. QED
    BY <1>8, <2>3, <2>4 DEF RevertFabricTask, FabricTypes
<1>9. CASE LedgerStep
  BY <1>9 DEF LedgerStep, fabricVars, FabricTypes
<1>10. CASE FabricCrash
  <2>1. <<>> \in Seq(Authorization) /\ <<>> \in Seq(Task) /\ <<>> \in Seq(Prong)
    BY EmptySeq
  <2>2. QED
    BY <1>10, <2>1 DEF FabricCrash, FabricTypes
<1>11. CASE ResetFabric
  <2>1. <<>> \in Seq(Task) /\ <<>> \in Seq(Prong)
    BY EmptySeq
  <2>2. QED
    BY <1>11, <2>1 DEF ResetFabric, FabricTypes
<1>12. QED
  BY <1>1, <1>2, <1>3, <1>4, <1>5, <1>6, <1>7, <1>8, <1>9, <1>10, <1>11 DEF FabricNext

LEMMA FabricTypesInitially == FabricInit => FabricTypes
<1>1. <<>> \in Seq(Authorization) /\ <<>> \in Seq(Task) /\ <<>> \in Seq(Prong)
  BY EmptySeq
<1>2. QED
  BY <1>1 DEF FabricInit, FabricTypes

\* To the agent ledger, a step of the fabric is a step of its own or none.
LEMMA FabricUsesLedger ==
  ASSUME FabricTypes, FabricNext PROVE [AgentLedgerNext]_ledgerVars
<1>1. ASSUME NEW n \in Nodes, RegisterNode(n) \/ UpdateNodeHeartbeat(n) \/ SuspendNode(n)
      PROVE  UNCHANGED ledgerVars
  BY <1>1 DEF RegisterNode, UpdateNodeHeartbeat, SuspendNode
<1>2. ASSUME NEW c \in Launches, NEW id \in TaskIds, NEW n \in Nodes, ExecuteFabricTask(c, id, n)
      PROVE  UNCHANGED ledgerVars
  BY <1>2 DEF ExecuteFabricTask
<1>3. ASSUME NEW c \in Launches, AuthorizeCompute(c) \/ LaunchTask(c) PROVE UNCHANGED ledgerVars
  BY <1>3 DEF AuthorizeCompute, LaunchTask
<1>4. ASSUME NEW c \in Launches, RecordAuthorization(c) PROVE AgentLedgerNext
  <2>1. launch[c].auth \in Subjects
    BY <1>4, LaunchForms, FabricAssumption DEF RecordAuthorization, Held
  <2>2. QED
    BY <1>4, <2>1 DEF RecordAuthorization, AgentLedgerNext
<1>5. ASSUME NEW k \in DOMAIN prongs, EndProng(k) PROVE UNCHANGED ledgerVars
  BY <1>5 DEF EndProng
<1>6. ASSUME NEW i \in DOMAIN tasks, NEW how, EndFabricTask(i, how) PROVE UNCHANGED ledgerVars
  BY <1>6 DEF EndFabricTask
<1>7. ASSUME NEW i \in DOMAIN tasks, RevertFabricTask(i) PROVE UNCHANGED ledgerVars
  BY <1>7 DEF RevertFabricTask
<1>8. CASE LedgerStep
  <2>1. 0 \in Subjects
    BY FabricAssumption
  <2>2. QED
    BY <1>8, <2>1 DEF LedgerStep, AgentLedgerNext
<1>9. CASE FabricCrash
  BY <1>9 DEF FabricCrash, AgentLedgerNext
<1>10. CASE ResetFabric
  BY <1>10 DEF ResetFabric
<1>11. QED
  BY <1>1, <1>2, <1>3, <1>4, <1>5, <1>6, <1>7, <1>8, <1>9, <1>10 DEF FabricNext

LEMMA FabricInvariant == FabricSpec => [](FabricTypes /\ LedgerInv)
<1>1. FabricInit => FabricTypes /\ LedgerInv
  BY FabricTypesInitially, LedgerInitially DEF FabricInit
<1>2. ASSUME FabricTypes, LedgerInv, [FabricNext]_<<fabricVars, ledgerVars>>
      PROVE  FabricTypes' /\ LedgerInv'
  <2>1. CASE FabricNext
    BY <1>2, <2>1, FabricTypesStep, FabricUsesLedger, LedgerKeeps
  <2>2. CASE UNCHANGED <<fabricVars, ledgerVars>>
    <3>1. FabricTypes'
      BY <1>2, <2>2 DEF FabricTypes, fabricVars
    <3>2. QED
      BY <1>2, <2>2, <3>1, LedgerStutters
  <2>3. QED
    BY <1>2, <2>1, <2>2
<1>3. QED
  BY <1>1, <1>2, PTL DEF FabricSpec

\* What the ledger promises, it promises below the fabric: the fabric uses it
\* by its own operations only.
THEOREM FabricImplementsLedger == FabricSpec => AgentLedgerSpec
<1>1. FabricInit => AgentLedgerInit
  BY DEF FabricInit
<1>2. ASSUME FabricTypes, [FabricNext]_<<fabricVars, ledgerVars>>
      PROVE  [AgentLedgerNext]_ledgerVars
  <2>1. CASE FabricNext
    BY <1>2, <2>1, FabricUsesLedger
  <2>2. CASE UNCHANGED <<fabricVars, ledgerVars>>
    BY <2>2
  <2>3. QED
    BY <1>2, <2>1, <2>2
<1>3. QED
  BY <1>1, <1>2, FabricInvariant, PTL DEF FabricSpec, AgentLedgerSpec

\* The fabric and the ledger hold values of their types, whatever overlaps.
THEOREM FabricTypeCorrect == FabricSpec => []FabricTypeOK
<1>1. FabricTypes /\ LedgerInv => FabricTypeOK
  BY DEF FabricTypes, LedgerInv, FabricTypeOK
<1>2. QED
  BY <1>1, FabricInvariant, PTL

----------------------------------------------------------------------------

\* Entries are found by their ids: a list with the same ids finds the same.
LEMMA SameFound ==
  ASSUME NEW old, NEW new, DOMAIN new = DOMAIN old,
         \A i \in DOMAIN old : new[i].id = old[i].id
  PROVE  \A i : Found(new, i) <=> Found(old, i)
BY DEF Found

\* A new entry at the end hides no other.
LEMMA AppendFound ==
  ASSUME NEW S, NEW log \in Seq(S), NEW x \in S, NEW i \in DOMAIN log
  PROVE  /\ i \in DOMAIN Append(log, x)
         /\ Append(log, x)[i] = log[i]
         /\ Found(log, i) => Found(Append(log, x), i)
<1> DEFINE new == Append(log, x)
<1>1. /\ Len(new) = Len(log) + 1 /\ new \in Seq(S)
      /\ \A j \in 1..Len(log) : new[j] = log[j]
  BY AppendProperties
<1>2. DOMAIN new = 1..(Len(log) + 1) /\ DOMAIN log = 1..Len(log) /\ Len(log) \in Nat
  BY <1>1
<1> HIDE DEF new
<1>3. i \in DOMAIN new /\ new[i] = log[i]
  BY <1>1, <1>2
<1>4. ASSUME Found(log, i), NEW j \in DOMAIN new, new[j].id = new[i].id PROVE i <= j
  <2>1. CASE j \in DOMAIN log
    BY <1>1, <1>2, <1>3, <1>4, <2>1 DEF Found
  <2>2. CASE j = Len(log) + 1
    BY <1>2, <2>2
  <2>3. QED
    BY <1>2, <2>1, <2>2
<1>5. QED
  BY <1>3, <1>4 DEF Found, new

\* The last entry of a list that grew.
LEMMA AppendLast ==
  ASSUME NEW S, NEW log \in Seq(S), NEW x \in S
  PROVE  /\ DOMAIN Append(log, x) = DOMAIN log \cup {Len(log) + 1}
         /\ Append(log, x)[Len(log) + 1] = x
         /\ Len(log) + 1 \notin DOMAIN log
<1>1. /\ Len(Append(log, x)) = Len(log) + 1 /\ Append(log, x) \in Seq(S)
      /\ Append(log, x)[Len(log) + 1] = x
  BY AppendProperties
<1>2. DOMAIN log = 1..Len(log) /\ Len(log) \in Nat
  OBVIOUS
<1>3. DOMAIN Append(log, x) = 1..(Len(log) + 1)
  BY <1>1
<1>4. QED
  BY <1>1, <1>2, <1>3

Unended == {"pending", "running"}
HiddenTasks == \A i \in DOMAIN tasks : ~Found(tasks, i) => tasks[i].status \in Unended
HiddenProngs == \A k \in DOMAIN prongs : ~Found(prongs, k) => prongs[k].status = "pending"

\* What one step makes of tasks and prongs: it adds one at the end, ends one
\* that is found, or reverts.
LEMMA HiddenStay ==
  ASSUME FabricTypes, FabricNext, HiddenTasks, HiddenProngs, PendingHasNoOutput
  PROVE  HiddenTasks' /\ HiddenProngs' /\ PendingHasNoOutput'
<1> USE DEF HiddenTasks, HiddenProngs, PendingHasNoOutput
<1>1. ASSUME UNCHANGED <<tasks, prongs>> PROVE HiddenTasks' /\ HiddenProngs' /\ PendingHasNoOutput'
  BY <1>1 DEF Found
<1>2. ASSUME NEW n \in Nodes, RegisterNode(n) \/ UpdateNodeHeartbeat(n) \/ SuspendNode(n)
      PROVE  UNCHANGED <<tasks, prongs>>
  BY <1>2 DEF RegisterNode, UpdateNodeHeartbeat, SuspendNode
<1>3. ASSUME NEW c \in Launches, NEW id \in TaskIds, NEW n \in Nodes, ExecuteFabricTask(c, id, n)
      PROVE  UNCHANGED <<tasks, prongs>>
  BY <1>3 DEF ExecuteFabricTask
<1>4. ASSUME NEW c \in Launches, AuthorizeCompute(c) \/ RecordAuthorization(c)
      PROVE  UNCHANGED <<tasks, prongs>>
  BY <1>4 DEF AuthorizeCompute, RecordAuthorization
<1>5. ASSUME NEW c \in Launches, LaunchTask(c)
      PROVE  HiddenTasks' /\ HiddenProngs' /\ PendingHasNoOutput'
  <2>1. /\ launch[c].id \in TaskIds /\ launch[c].node \in Nodes
        /\ launch[c].auth \in 1..MaxAuthorizations
    BY <1>5, LaunchForms DEF LaunchTask, Held
  <2>2. PICK st \in Unended : tasks' = Append(tasks, NewTask(c, st))
    BY <1>5 DEF LaunchTask, Unended
  <2>3. NewTask(c, st) \in Task /\ NewTask(c, st).status = st
    BY <2>1 DEF NewTask, Task, Unended
  <2> DEFINE new == NewTask(c, st)
             prong == [id |-> launch[c].id, status |-> "pending", output |-> FALSE]
  <2>4. prong \in Prong /\ prong.status = "pending" /\ ~prong.output
    BY <2>1 DEF Prong
  <2>5. tasks \in Seq(Task) /\ prongs \in Seq(Prong)
    BY DEF FabricTypes
  <2>6. tasks' = Append(tasks, new) /\ new \in Task /\ new.status \in Unended
    BY <2>2, <2>3
  <2>7. prongs' = Append(prongs, prong) \/ prongs' = prongs
    BY <1>5 DEF LaunchTask
  <2> HIDE DEF new, prong
  <2>8. HiddenTasks'
    BY <2>5, <2>6, AppendFound, AppendLast
  <2>9. CASE prongs' = Append(prongs, prong)
    <3>1. HiddenProngs'
      BY <2>4, <2>5, <2>9, AppendFound, AppendLast
    <3>2. PendingHasNoOutput'
      BY <2>4, <2>5, <2>9, AppendFound, AppendLast
    <3>3. QED
      BY <2>8, <3>1, <3>2
  <2>10. CASE prongs' = prongs
    BY <2>8, <2>10 DEF Found
  <2>11. QED
    BY <2>7, <2>9, <2>10
<1>6. ASSUME NEW k \in DOMAIN prongs, EndProng(k)
      PROVE  HiddenTasks' /\ HiddenProngs' /\ PendingHasNoOutput'
  <2>1. /\ DOMAIN prongs' = DOMAIN prongs
        /\ \A j \in DOMAIN prongs : j # k => prongs'[j] = prongs[j]
    BY <1>6 DEF EndProng
  <2>2. prongs[k] \in Prong
    BY ElementOfSeq DEF FabricTypes
  <2>3. prongs'[k].id = prongs[k].id /\ prongs'[k].status \in {"done", "failed"}
    BY <1>6, <2>2 DEF EndProng, Prong
  <2>4. \A j : Found(prongs', j) <=> Found(prongs, j)
    BY <2>1, <2>3, SameFound
  <2>5. tasks' = tasks /\ Found(prongs, k)
    BY <1>6 DEF EndProng
  <2>6. HiddenProngs'
    BY <2>1, <2>4, <2>5
  <2>7. PendingHasNoOutput'
    BY <2>1, <2>3
  <2>8. QED
    BY <2>5, <2>6, <2>7 DEF Found
<1>7. ASSUME NEW i \in DOMAIN tasks, NEW how \in {"completed", "failed"}, EndFabricTask(i, how)
      PROVE  HiddenTasks' /\ HiddenProngs' /\ PendingHasNoOutput'
  <2>1. /\ DOMAIN tasks' = DOMAIN tasks
        /\ \A j \in DOMAIN tasks : j # i => tasks'[j] = tasks[j]
        /\ tasks'[i] = [tasks[i] EXCEPT !.status = how]
    BY <1>7 DEF EndFabricTask
  <2>2. tasks[i] \in Task
    BY ElementOfSeq DEF FabricTypes
  <2>3. tasks'[i].id = tasks[i].id
    BY <2>1, <2>2 DEF Task
  <2>4. \A j : Found(tasks', j) <=> Found(tasks, j)
    BY <2>1, <2>3, SameFound
  <2>5. prongs' = prongs /\ Found(tasks, i)
    BY <1>7 DEF EndFabricTask
  <2>6. HiddenTasks'
    BY <2>1, <2>4, <2>5
  <2>7. QED
    BY <2>5, <2>6 DEF Found
<1>8. ASSUME NEW i \in DOMAIN tasks, RevertFabricTask(i)
      PROVE  HiddenTasks' /\ HiddenProngs' /\ PendingHasNoOutput'
  <2>1. /\ DOMAIN tasks' = DOMAIN tasks
        /\ \A j \in DOMAIN tasks : j # i => tasks'[j] = tasks[j]
        /\ tasks'[i] = [tasks[i] EXCEPT !.status = "reverted"]
        /\ Found(tasks, i)
    BY <1>8 DEF RevertFabricTask
  <2>2. tasks[i] \in Task
    BY ElementOfSeq DEF FabricTypes
  <2>3. tasks'[i].id = tasks[i].id
    BY <2>1, <2>2 DEF Task
  <2>4. \A j : Found(tasks', j) <=> Found(tasks, j)
    BY <2>1, <2>3, SameFound
  <2>5. HiddenTasks'
    BY <2>1, <2>4
  <2>6. /\ DOMAIN prongs' = DOMAIN prongs
        /\ \A k \in DOMAIN prongs :
             \/ prongs'[k] = prongs[k]
             \/ prongs'[k] = [prongs[k] EXCEPT !.status = "pending", !.output = FALSE]
    BY <1>8 DEF RevertFabricTask
  <2>7. \A k \in DOMAIN prongs : prongs[k] \in Prong
    BY ElementOfSeq DEF FabricTypes
  <2>8. \A k \in DOMAIN prongs :
          /\ prongs'[k].id = prongs[k].id
          /\ \/ prongs'[k] = prongs[k]
             \/ prongs'[k].status = "pending" /\ prongs'[k].output = FALSE
    BY <2>6, <2>7 DEF Prong
  <2>9. \A k : Found(prongs', k) <=> Found(prongs, k)
    BY <2>6, <2>8, SameFound
  <2>10. HiddenProngs' /\ PendingHasNoOutput'
    BY <2>6, <2>8, <2>9
  <2>11. QED
    BY <2>5, <2>10
<1>9. CASE LedgerStep
  BY <1>9, <1>1 DEF LedgerStep, fabricVars
<1>10. CASE FabricCrash
  BY <1>10 DEF FabricCrash
<1>11. CASE ResetFabric
  BY <1>11 DEF ResetFabric
<1>12. QED
  BY <1>1, <1>2, <1>3, <1>4, <1>5, <1>6, <1>7, <1>8, <1>9, <1>10, <1>11 DEF FabricNext

LEMMA HiddenInvariant == FabricSpec => [](HiddenTasks /\ HiddenProngs /\ PendingHasNoOutput)
<1>1. FabricInit => HiddenTasks /\ HiddenProngs /\ PendingHasNoOutput
  BY DEF FabricInit, HiddenTasks, HiddenProngs, PendingHasNoOutput
<1>2. ASSUME FabricTypes, HiddenTasks, HiddenProngs, PendingHasNoOutput,
             [FabricNext]_<<fabricVars, ledgerVars>>
      PROVE  HiddenTasks' /\ HiddenProngs' /\ PendingHasNoOutput'
  <2>1. CASE FabricNext
    BY <1>2, <2>1, HiddenStay
  <2>2. CASE UNCHANGED <<fabricVars, ledgerVars>>
    BY <1>2, <2>2 DEF fabricVars, HiddenTasks, HiddenProngs, PendingHasNoOutput, Found
  <2>3. QED
    BY <1>2, <2>1, <2>2
<1>3. QED
  BY <1>1, <1>2, FabricInvariant, PTL DEF FabricSpec

\* However many tasks share an id and however late their ends are reported,
\* only the first of them is seen to end.
THEOREM HiddenTasksNeverEnd == FabricSpec => []ShadowedNeverEnds
<1>1. HiddenTasks /\ HiddenProngs => ShadowedNeverEnds
  BY DEF HiddenTasks, HiddenProngs, Unended, ShadowedNeverEnds
<1>2. QED
  BY <1>1, HiddenInvariant, PTL

\* Completions, failures and reverts in any order leave no output in a prong
\* that has yet to run.
THEOREM RevertsClearOutput == FabricSpec => []PendingHasNoOutput
BY HiddenInvariant, PTL

\* Ends that are reported late, or for an id that two tasks share, reach the
\* first task of that id and its prongs, and leave the others as they are.
THEOREM LateCallsAreSafe == FabricSpec => []LateCallsReachTheFirst
<1>1. ShadowedNeverEnds /\ PendingHasNoOutput => LateCallsReachTheFirst
  BY DEF LateCallsReachTheFirst
<1>2. QED
  BY <1>1, HiddenTasksNeverEnd, RevertsClearOutput, PTL

----------------------------------------------------------------------------

\* The authorization of a task is its own and is receipted.
TaskIsAuthorized(i) ==
  /\ Authorized(tasks[i].id, tasks[i].node, tasks[i].auth)
  /\ Receipted(tasks[i].auth)
  /\ \A j \in DOMAIN tasks : tasks[j].auth = tasks[i].auth => i = j

AllAuthorized == LaunchesAreAuthorized /\ \A i \in DOMAIN tasks : TaskIsAuthorized(i)

\* A step that adds no task, takes no authorization, and loses no receipt.
LEMMA AuthorizationsStay ==
  ASSUME AllAuthorized,
         DOMAIN tasks' = DOMAIN tasks,
         \A i \in DOMAIN tasks : /\ tasks'[i].id = tasks[i].id
                                 /\ tasks'[i].node = tasks[i].node
                                 /\ tasks'[i].auth = tasks[i].auth,
         \A id, n, x : Authorized(id, n, x) => Authorized(id, n, x)',
         \A x : Receipted(x) => Receipted(x)'
  PROVE  \A i \in DOMAIN tasks' : TaskIsAuthorized(i)'
<1> SUFFICES ASSUME NEW i \in DOMAIN tasks PROVE TaskIsAuthorized(i)'
  OBVIOUS
<1>1. TaskIsAuthorized(i)
  BY DEF AllAuthorized
<1>2. Authorized(tasks[i].id, tasks[i].node, tasks[i].auth)'
  BY <1>1 DEF TaskIsAuthorized
<1>3. Receipted(tasks[i].auth)'
  BY <1>1 DEF TaskIsAuthorized
<1>4. \A j \in DOMAIN tasks' : tasks'[j].auth = tasks'[i].auth => i = j
  BY <1>1 DEF TaskIsAuthorized
<1>5. QED
  BY <1>2, <1>3, <1>4 DEF TaskIsAuthorized

\* Invocations that keep or give up what they hold, while no task comes in.
LEMMA HoldersStay ==
  ASSUME AllAuthorized,
         DOMAIN tasks' = DOMAIN tasks,
         \A i \in DOMAIN tasks : tasks'[i].auth = tasks[i].auth,
         \A id, n, x : Authorized(id, n, x) => Authorized(id, n, x)',
         \A x : Receipted(x) => Receipted(x)',
         \A d \in Launches : Held(d)' => launch'[d] = launch[d]
  PROVE  LaunchesAreAuthorized'
<1> SUFFICES ASSUME NEW c \in Launches, Held(c)'
             PROVE  /\ Authorized(launch[c].id, launch[c].node, launch[c].auth)'
                    /\ launch'[c].at = "recorded" => Receipted(launch[c].auth)'
                    /\ \A d \in Launches : Held(d)' /\ launch'[d].auth = launch'[c].auth => d = c
                    /\ \A i \in DOMAIN tasks' : tasks'[i].auth # launch'[c].auth
  BY DEF LaunchesAreAuthorized
<1>1. \A d \in Launches : Held(d)' => Held(d) /\ launch'[d] = launch[d]
  BY DEF Held
<1>2. /\ Authorized(launch[c].id, launch[c].node, launch[c].auth)
      /\ launch[c].at = "recorded" => Receipted(launch[c].auth)
      /\ \A d \in Launches : Held(d) /\ launch[d].auth = launch[c].auth => d = c
      /\ \A i \in DOMAIN tasks : tasks[i].auth # launch[c].auth
  BY <1>1 DEF AllAuthorized, LaunchesAreAuthorized
<1>3. Authorized(launch[c].id, launch[c].node, launch[c].auth)'
  BY <1>1, <1>2
<1>4. launch'[c].at = "recorded" => Receipted(launch[c].auth)'
  BY <1>1, <1>2
<1>5. \A d \in Launches : Held(d)' /\ launch'[d].auth = launch'[c].auth => d = c
  BY <1>1, <1>2
<1>6. \A i \in DOMAIN tasks' : tasks'[i].auth # launch'[c].auth
  BY <1>1, <1>2
<1>7. QED
  BY <1>3, <1>4, <1>5, <1>6

\* What a new authorization is: the next number, that nobody has.
LEMMA NewAuthorization ==
  ASSUME FabricTypes, AllAuthorized, NEW c \in Launches, AuthorizeCompute(c)
  PROVE  AllAuthorized'
<1>0. PICK id, n, x : id = launch[c].id /\ n = launch[c].node /\ x = Len(auths) + 1
  OBVIOUS
<1>1. id \in TaskIds /\ n \in Nodes
  BY <1>0, LaunchForms DEF AuthorizeCompute
<1>2. [id |-> id, node |-> n] \in Authorization
  BY <1>1 DEF Authorization
<1>3. auths \in Seq(Authorization) /\ auths' = Append(auths, [id |-> id, node |-> n])
  BY <1>0 DEF FabricTypes, AuthorizeCompute
<1>4. /\ x \notin DOMAIN auths
      /\ Authorized(id, n, x)'
  BY <1>0, <1>2, <1>3, AppendLast DEF Authorized
<1>5. \A i, m, y : Authorized(i, m, y) => Authorized(i, m, y)'
  BY <1>2, <1>3, AppendFound DEF Authorized
<1>6. UNCHANGED tasks /\ \A y : Receipted(y)' <=> Receipted(y)
  BY DEF AuthorizeCompute, ledgerVars, Receipted
<1>7. \A i \in DOMAIN tasks : tasks[i].auth \in DOMAIN auths
  BY DEF AllAuthorized, TaskIsAuthorized, Authorized
<1>8. \A d \in Launches : Held(d) => launch[d].auth \in DOMAIN auths
  BY DEF AllAuthorized, LaunchesAreAuthorized, Authorized
<1>9. \A i \in DOMAIN tasks' : TaskIsAuthorized(i)'
  BY <1>5, <1>6, AuthorizationsStay
<1>10. LaunchesAreAuthorized'
  <2>1. CASE launch' = [launch EXCEPT ![c] = Idle]
    <3>1. \A d \in Launches : Held(d)' => launch'[d] = launch[d]
      BY <2>1 DEF FabricTypes, Held, Idle
    <3>2. QED
      BY <1>5, <1>6, <3>1, HoldersStay
  <2>2. CASE launch' = [launch EXCEPT ![c] = [at |-> "recording", id |-> id, node |-> n, auth |-> x]]
    <3>1. /\ launch'[c].at = "recording" /\ launch'[c].auth = x
          /\ launch'[c].id = id /\ launch'[c].node = n
          /\ \A d \in Launches : d # c => launch'[d] = launch[d]
      BY <2>2 DEF FabricTypes
    <3>2. \A d \in Launches : d # c /\ Held(d)' => Held(d)
      BY <3>1 DEF Held
    <3> SUFFICES ASSUME NEW d \in Launches, Held(d)'
                 PROVE  /\ Authorized(launch[d].id, launch[d].node, launch[d].auth)'
                        /\ launch'[d].at = "recorded" => Receipted(launch[d].auth)'
                        /\ \A e \in Launches : Held(e)' /\ launch'[e].auth = launch'[d].auth => e = d
                        /\ \A i \in DOMAIN tasks' : tasks'[i].auth # launch'[d].auth
      BY DEF LaunchesAreAuthorized
    <3>3. CASE d = c
      <4>1. Authorized(launch[d].id, launch[d].node, launch[d].auth)'
        BY <3>1, <3>3, <1>4
      <4>2. \A e \in Launches : Held(e)' /\ launch'[e].auth = launch'[d].auth => e = d
        BY <3>1, <3>2, <3>3, <1>4, <1>8
      <4>3. \A i \in DOMAIN tasks' : tasks'[i].auth # launch'[d].auth
        BY <3>1, <3>3, <1>4, <1>6, <1>7
      <4>4. QED
        BY <3>1, <3>3, <4>1, <4>2, <4>3
    <3>4. CASE d # c
      <4>1. launch'[d] = launch[d] /\ Held(d)
        BY <3>1, <3>2, <3>4
      <4>2. /\ Authorized(launch[d].id, launch[d].node, launch[d].auth)
            /\ launch[d].at = "recorded" => Receipted(launch[d].auth)
            /\ \A e \in Launches : Held(e) /\ launch[e].auth = launch[d].auth => e = d
            /\ \A i \in DOMAIN tasks : tasks[i].auth # launch[d].auth
        BY <4>1 DEF AllAuthorized, LaunchesAreAuthorized
      <4>3. Authorized(launch[d].id, launch[d].node, launch[d].auth)'
        BY <4>1, <4>2, <1>5
      <4>4. \A e \in Launches : Held(e)' /\ launch'[e].auth = launch'[d].auth => e = d
        BY <3>1, <3>2, <4>1, <4>2, <1>4, <1>8
      <4>5. QED
        BY <4>1, <4>2, <4>3, <4>4, <1>6
    <3>5. QED
      BY <3>3, <3>4
  <2>3. QED
    BY <1>0, <2>1, <2>2 DEF AuthorizeCompute
<1>11. QED
  BY <1>9, <1>10 DEF AllAuthorized

\* The receipt of an authorization comes in.
LEMMA AuthorizationRecorded ==
  ASSUME FabricTypes, LedgerInv, AllAuthorized, NEW c \in Launches, RecordAuthorization(c)
  PROVE  AllAuthorized'
<1>0. PICK x : x = launch[c].auth
  OBVIOUS
<1>1. x \in Subjects /\ Held(c)
  BY <1>0, LaunchForms, FabricAssumption DEF RecordAuthorization, Held
<1>2. UNCHANGED <<auths, tasks>> /\ RecordReceipt(x)
  BY <1>0 DEF RecordAuthorization
<1>3. Receipted(x)' /\ \A y : Receipted(y) => Receipted(y)'
  BY <1>1, <1>2, ReceiptsStay
<1>4. \A i, m, y : Authorized(i, m, y)' <=> Authorized(i, m, y)
  BY <1>2 DEF Authorized
<1>5. launch[c] \in [at : {"recording", "recorded"}, id : TaskIds, node : Nodes,
                     auth : 1..MaxAuthorizations]
  BY DEF RecordAuthorization, FabricTypes, Launching, Idle
<1>6. /\ launch'[c] = [launch[c] EXCEPT !.at = "recorded"]
      /\ \A d \in Launches : d # c => launch'[d] = launch[d]
  BY DEF RecordAuthorization, FabricTypes
<1>7. /\ launch'[c].id = launch[c].id /\ launch'[c].node = launch[c].node
      /\ launch'[c].auth = x
  BY <1>0, <1>5, <1>6
<1>8. \A d \in Launches : /\ launch'[d].id = launch[d].id /\ launch'[d].node = launch[d].node
                          /\ launch'[d].auth = launch[d].auth
                          /\ Held(d)' => Held(d)
                          /\ d # c => launch'[d] = launch[d]
  BY <1>0, <1>1, <1>6, <1>7 DEF Held
<1>9. ASSUME NEW d \in Launches, Held(d)'
      PROVE  /\ Authorized(launch[d].id, launch[d].node, launch[d].auth)'
             /\ launch'[d].at = "recorded" => Receipted(launch[d].auth)'
             /\ \A e \in Launches : Held(e)' /\ launch'[e].auth = launch'[d].auth => e = d
             /\ \A i \in DOMAIN tasks' : tasks'[i].auth # launch'[d].auth
  <2>1. /\ Authorized(launch[d].id, launch[d].node, launch[d].auth)
        /\ launch[d].at = "recorded" => Receipted(launch[d].auth)
        /\ \A e \in Launches : Held(e) /\ launch[e].auth = launch[d].auth => e = d
        /\ \A i \in DOMAIN tasks : tasks[i].auth # launch[d].auth
    BY <1>8, <1>9 DEF AllAuthorized, LaunchesAreAuthorized
  <2>2. Authorized(launch[d].id, launch[d].node, launch[d].auth)'
    BY <1>4, <1>8, <2>1
  <2>3. launch'[d].at = "recorded" => Receipted(launch[d].auth)'
    <3>1. CASE d = c
      BY <1>3, <1>7, <3>1
    <3>2. CASE d # c
      BY <1>3, <1>8, <2>1, <3>2
    <3>3. QED
      BY <3>1, <3>2
  <2>4. \A e \in Launches : Held(e)' /\ launch'[e].auth = launch'[d].auth => e = d
    BY <1>8, <2>1
  <2>5. \A i \in DOMAIN tasks' : tasks'[i].auth # launch'[d].auth
    BY <1>2, <1>8, <2>1
  <2>6. QED
    BY <2>2, <2>3, <2>4, <2>5
<1>10. \A i \in DOMAIN tasks' : TaskIsAuthorized(i)'
  BY <1>2, <1>3, <1>4, AuthorizationsStay
<1>11. QED
  BY <1>9, <1>10 DEF AllAuthorized, LaunchesAreAuthorized

\* The task takes the authorization over from its invocation.
LEMMA AuthorizationUsed ==
  ASSUME FabricTypes, AllAuthorized, NEW c \in Launches, LaunchTask(c)
  PROVE  AllAuthorized'
<1> DEFINE x == launch[c].auth
           k == Len(tasks) + 1
<1>1. /\ launch[c].id \in TaskIds /\ launch[c].node \in Nodes /\ x \in 1..MaxAuthorizations
      /\ Held(c) /\ launch[c].at = "recorded"
  BY LaunchForms DEF LaunchTask, Held
<1>2. PICK st \in Unended : tasks' = Append(tasks, NewTask(c, st))
  BY DEF LaunchTask, Unended
<1> DEFINE new == NewTask(c, st)
<1>3. /\ new \in Task
      /\ new.id = launch[c].id /\ new.node = launch[c].node /\ new.auth = x
  BY <1>1 DEF NewTask, Task, Unended
<1>4. tasks \in Seq(Task) /\ tasks' = Append(tasks, new)
  BY <1>2 DEF FabricTypes
<1>5. UNCHANGED <<auths, ledger>>
  BY DEF LaunchTask, ledgerVars
<1>6. /\ \A i, m, y : Authorized(i, m, y)' <=> Authorized(i, m, y)
      /\ \A y : Receipted(y)' <=> Receipted(y)
  BY <1>5 DEF Authorized, Receipted
<1>7. /\ launch'[c] = Idle
      /\ \A d \in Launches : d # c => launch'[d] = launch[d]
  BY DEF LaunchTask, FabricTypes
<1>8. \A d \in Launches : Held(d)' => d # c /\ Held(d) /\ launch'[d] = launch[d]
  BY <1>7 DEF Held, Idle
<1>9. /\ Authorized(launch[c].id, launch[c].node, x)
      /\ Receipted(x)
      /\ \A d \in Launches : Held(d) /\ launch[d].auth = x => d = c
      /\ \A i \in DOMAIN tasks : tasks[i].auth # x
  BY <1>1 DEF AllAuthorized, LaunchesAreAuthorized
<1> HIDE DEF x, k, new
<1>10. /\ DOMAIN tasks' = DOMAIN tasks \cup {k}
       /\ tasks'[k] = new
       /\ \A i \in DOMAIN tasks : tasks'[i] = tasks[i]
  BY <1>3, <1>4, AppendLast, AppendFound DEF k
<1>11. ASSUME NEW i \in DOMAIN tasks' PROVE TaskIsAuthorized(i)'
  <2>1. CASE i = k
    <3>1. Authorized(tasks[i].id, tasks[i].node, tasks[i].auth)'
      BY <1>3, <1>6, <1>9, <1>10, <2>1
    <3>2. Receipted(tasks[i].auth)'
      BY <1>3, <1>6, <1>9, <1>10, <2>1
    <3>3. \A j \in DOMAIN tasks' : tasks'[j].auth = tasks'[i].auth => i = j
      BY <1>3, <1>9, <1>10, <2>1
    <3>4. QED
      BY <3>1, <3>2, <3>3 DEF TaskIsAuthorized
  <2>2. CASE i \in DOMAIN tasks
    <3>1. TaskIsAuthorized(i) /\ tasks'[i] = tasks[i]
      BY <1>10, <2>2 DEF AllAuthorized
    <3>2. Authorized(tasks[i].id, tasks[i].node, tasks[i].auth)'
      BY <1>6, <3>1 DEF TaskIsAuthorized
    <3>3. Receipted(tasks[i].auth)'
      BY <1>6, <3>1 DEF TaskIsAuthorized
    <3>4. \A j \in DOMAIN tasks' : tasks'[j].auth = tasks'[i].auth => i = j
      BY <1>3, <1>9, <1>10, <2>2, <3>1 DEF TaskIsAuthorized
    <3>5. QED
      BY <3>2, <3>3, <3>4 DEF TaskIsAuthorized
  <2>3. QED
    BY <1>10, <2>1, <2>2
<1>12. ASSUME NEW d \in Launches, Held(d)'
       PROVE  /\ Authorized(launch[d].id, launch[d].node, launch[d].auth)'
              /\ launch'[d].at = "recorded" => Receipted(launch[d].auth)'
              /\ \A e \in Launches : Held(e)' /\ launch'[e].auth = launch'[d].auth => e = d
              /\ \A i \in DOMAIN tasks' : tasks'[i].auth # launch'[d].auth
  <2>1. d # c /\ Held(d) /\ launch'[d] = launch[d]
    BY <1>8, <1>12
  <2>2. /\ Authorized(launch[d].id, launch[d].node, launch[d].auth)
        /\ launch[d].at = "recorded" => Receipted(launch[d].auth)
        /\ \A e \in Launches : Held(e) /\ launch[e].auth = launch[d].auth => e = d
        /\ \A i \in DOMAIN tasks : tasks[i].auth # launch[d].auth
    BY <2>1 DEF AllAuthorized, LaunchesAreAuthorized
  <2>3. Authorized(launch[d].id, launch[d].node, launch[d].auth)'
    BY <1>6, <2>1, <2>2
  <2>4. launch'[d].at = "recorded" => Receipted(launch[d].auth)'
    BY <1>6, <2>1, <2>2
  <2>5. \A e \in Launches : Held(e)' /\ launch'[e].auth = launch'[d].auth => e = d
    BY <1>8, <2>1, <2>2
  <2>6. \A i \in DOMAIN tasks' : tasks'[i].auth # launch'[d].auth
    <3>1. launch[d].auth # x
      BY <1>9, <2>1
    <3>2. QED
      BY <1>3, <1>10, <2>1, <2>2, <3>1
  <2>7. QED
    BY <2>3, <2>4, <2>5, <2>6
<1>13. QED
  BY <1>11, <1>12 DEF AllAuthorized, LaunchesAreAuthorized

\* Steps of the others: tasks keep what they were made with, launches what they hold.
LEMMA OthersLeaveAuthorizations ==
  ASSUME AllAuthorized,
         UNCHANGED auths,
         DOMAIN tasks' = DOMAIN tasks,
         \A i \in DOMAIN tasks : /\ tasks'[i].id = tasks[i].id
                                 /\ tasks'[i].node = tasks[i].node
                                 /\ tasks'[i].auth = tasks[i].auth,
         \A x : Receipted(x) => Receipted(x)',
         \A d \in Launches : Held(d)' => launch'[d] = launch[d]
  PROVE  AllAuthorized'
<1>1. \A id, n, x : Authorized(id, n, x) => Authorized(id, n, x)'
  BY DEF Authorized
<1>2. \A i \in DOMAIN tasks' : TaskIsAuthorized(i)'
  BY <1>1, AuthorizationsStay
<1>3. LaunchesAreAuthorized'
  BY <1>1, HoldersStay
<1>4. QED
  BY <1>2, <1>3 DEF AllAuthorized

LEMMA SameLedger ==
  ASSUME UNCHANGED ledgerVars PROVE \A x : Receipted(x) => Receipted(x)'
BY DEF Receipted, ledgerVars

LEMMA TasksKeepAuthorization ==
  ASSUME FabricTypes, NEW i \in DOMAIN tasks, NEW how,
         tasks' = [tasks EXCEPT ![i].status = how]
  PROVE  /\ DOMAIN tasks' = DOMAIN tasks
         /\ \A j \in DOMAIN tasks : /\ tasks'[j].id = tasks[j].id
                                    /\ tasks'[j].node = tasks[j].node
                                    /\ tasks'[j].auth = tasks[j].auth
<1>1. tasks[i] \in Task
  BY ElementOfSeq DEF FabricTypes
<1>2. tasks'[i] = [tasks[i] EXCEPT !.status = how] /\ DOMAIN tasks' = DOMAIN tasks
  OBVIOUS
<1>3. /\ tasks'[i].id = tasks[i].id
      /\ tasks'[i].node = tasks[i].node
      /\ tasks'[i].auth = tasks[i].auth
  BY <1>1, <1>2 DEF Task
<1>4. \A j \in DOMAIN tasks : j # i => tasks'[j] = tasks[j]
  OBVIOUS
<1>5. QED
  BY <1>2, <1>3, <1>4

LEMMA AuthorizedStep ==
  ASSUME FabricTypes, LedgerInv, AllAuthorized, FabricNext PROVE AllAuthorized'
<1>1. ASSUME UNCHANGED <<auths, tasks, launch, ledgerVars>> PROVE AllAuthorized'
  BY <1>1, SameLedger, OthersLeaveAuthorizations
<1>2. ASSUME NEW n \in Nodes, RegisterNode(n) \/ UpdateNodeHeartbeat(n) \/ SuspendNode(n)
      PROVE  AllAuthorized'
  BY <1>1, <1>2 DEF RegisterNode, UpdateNodeHeartbeat, SuspendNode
<1>3. ASSUME NEW c \in Launches, NEW id \in TaskIds, NEW n \in Nodes, ExecuteFabricTask(c, id, n)
      PROVE  AllAuthorized'
  <2>1. /\ launch' = [launch EXCEPT ![c] = [at |-> "routing", id |-> id, node |-> n]]
        /\ UNCHANGED <<auths, tasks, ledgerVars>>
    BY <1>3 DEF ExecuteFabricTask
  <2>2. \A d \in Launches : Held(d)' => launch'[d] = launch[d]
    BY <2>1 DEF FabricTypes, Held
  <2>3. QED
    BY <2>1, <2>2, SameLedger, OthersLeaveAuthorizations
<1>4. ASSUME NEW c \in Launches, AuthorizeCompute(c) \/ RecordAuthorization(c) \/ LaunchTask(c)
      PROVE  AllAuthorized'
  BY <1>4, NewAuthorization, AuthorizationRecorded, AuthorizationUsed
<1>5. ASSUME NEW k \in DOMAIN prongs, EndProng(k) PROVE AllAuthorized'
  BY <1>1, <1>5 DEF EndProng
<1>6. ASSUME NEW i \in DOMAIN tasks, NEW how \in {"completed", "failed"}, EndFabricTask(i, how)
      PROVE  AllAuthorized'
  <2>1. /\ tasks' = [tasks EXCEPT ![i].status = how]
        /\ UNCHANGED <<auths, launch, ledgerVars>>
    BY <1>6 DEF EndFabricTask
  <2>2. QED
    BY <2>1, TasksKeepAuthorization, SameLedger, OthersLeaveAuthorizations
<1>7. ASSUME NEW i \in DOMAIN tasks, RevertFabricTask(i) PROVE AllAuthorized'
  <2>1. /\ tasks' = [tasks EXCEPT ![i].status = "reverted"]
        /\ UNCHANGED <<auths, launch, ledgerVars>>
    BY <1>7 DEF RevertFabricTask
  <2>2. QED
    BY <2>1, TasksKeepAuthorization, SameLedger, OthersLeaveAuthorizations
<1>8. CASE LedgerStep
  <2>1. \A x : Receipted(x) => Receipted(x)'
    BY <1>8, LoadingLosesNothing, ReceiptsStay, FabricAssumption DEF LedgerStep
  <2>2. QED
    BY <1>8, <2>1, OthersLeaveAuthorizations DEF LedgerStep, fabricVars
<1>9. CASE FabricCrash
  BY <1>9 DEF FabricCrash, AllAuthorized, LaunchesAreAuthorized, Held, Idle
<1>10. CASE ResetFabric
  <2>1. tasks' = <<>> /\ UNCHANGED <<auths, launch, ledgerVars>>
    BY <1>10 DEF ResetFabric
  <2>2. QED
    BY <2>1 DEF AllAuthorized, LaunchesAreAuthorized, Held, Authorized, Receipted, ledgerVars
<1>11. QED
  BY <1>2, <1>3, <1>4, <1>5, <1>6, <1>7, <1>8, <1>9, <1>10 DEF FabricNext

\* Whatever overlaps in the awaits of executeFabricTask, every task has an
\* authorization and a receipt that no other task has.
THEOREM TasksAreGoverned == FabricSpec => []TasksAreAuthorized
<1>1. FabricInit => AllAuthorized
  BY DEF FabricInit, AllAuthorized, LaunchesAreAuthorized, Held, Idle
<1>2. ASSUME FabricTypes, LedgerInv, AllAuthorized, [FabricNext]_<<fabricVars, ledgerVars>>
      PROVE  AllAuthorized'
  <2>1. CASE FabricNext
    BY <1>2, <2>1, AuthorizedStep
  <2>2. CASE UNCHANGED <<fabricVars, ledgerVars>>
    BY <1>2, <2>2, SameLedger, OthersLeaveAuthorizations DEF fabricVars
  <2>3. QED
    BY <1>2, <2>1, <2>2
<1>3. AllAuthorized => TasksAreAuthorized
  BY DEF AllAuthorized, TaskIsAuthorized, Authorized, Receipted, TasksAreAuthorized
<1>4. QED
  BY <1>1, <1>2, <1>3, FabricInvariant, PTL DEF FabricSpec

----------------------------------------------------------------------------

\* The work of a node is made of two finite sets.
TasksOn(n) == {i \in DOMAIN tasks : tasks[i].node = n}
LaunchesOn(n) == {c \in Launches : launch[c] # Idle /\ launch[c].node = n}

LEMMA WorkIsFinite ==
  ASSUME FabricTypes, NEW n
  PROVE  /\ IsFiniteSet(TasksOn(n)) /\ Cardinality(TasksOn(n)) \in Nat
         /\ IsFiniteSet(LaunchesOn(n)) /\ Cardinality(LaunchesOn(n)) \in Nat
         /\ Work(n) = Cardinality(TasksOn(n)) + Cardinality(LaunchesOn(n))
<1>1. Len(tasks) \in Nat /\ DOMAIN tasks = 1..Len(tasks)
  BY DEF FabricTypes
<1>2. IsFiniteSet(1..Len(tasks))
  BY <1>1, FS_Interval
<1>3. TasksOn(n) \subseteq 1..Len(tasks)
  BY <1>1 DEF TasksOn
<1>4. LaunchesOn(n) \subseteq Launches /\ IsFiniteSet(Launches)
  BY FabricAssumption DEF LaunchesOn
<1>5. IsFiniteSet(TasksOn(n)) /\ IsFiniteSet(LaunchesOn(n))
  BY <1>2, <1>3, <1>4, FS_Subset
<1>6. Work(n) = Cardinality(TasksOn(n)) + Cardinality(LaunchesOn(n))
  BY DEF Work, TasksOn, LaunchesOn
<1>7. QED
  BY <1>5, <1>6, FS_CardinalityType

\* Work does not grow when no launch and no task comes to the node, nor when a
\* task takes the place of its launch.
LEMMA WorkShrinks ==
  ASSUME FabricTypes, FabricTypes', NEW n,
         TasksOn(n)' = TasksOn(n), LaunchesOn(n)' \subseteq LaunchesOn(n)
  PROVE  Work(n)' <= Work(n)
<1>1. Cardinality(LaunchesOn(n)') <= Cardinality(LaunchesOn(n))
  BY WorkIsFinite, FS_Subset
<1>2. Cardinality(LaunchesOn(n)') \in Nat
  BY WorkIsFinite, FS_Subset, FS_CardinalityType
<1>3. Work(n)' = Cardinality(TasksOn(n)') + Cardinality(LaunchesOn(n)')
  BY DEF Work, TasksOn, LaunchesOn
<1>4. QED
  BY <1>1, <1>2, <1>3, WorkIsFinite

LEMMA WorkMoves ==
  ASSUME FabricTypes, FabricTypes', NEW n, NEW k, NEW c \in LaunchesOn(n),
         TasksOn(n)' = TasksOn(n) \cup {k}, LaunchesOn(n)' = LaunchesOn(n) \ {c}
  PROVE  Work(n)' <= Work(n)
<1>1. /\ IsFiniteSet(TasksOn(n)) /\ Cardinality(TasksOn(n)) \in Nat
      /\ IsFiniteSet(LaunchesOn(n)) /\ Cardinality(LaunchesOn(n)) \in Nat
      /\ Work(n) = Cardinality(TasksOn(n)) + Cardinality(LaunchesOn(n))
  BY WorkIsFinite
<1>2. /\ IsFiniteSet(TasksOn(n)')
      /\ Cardinality(TasksOn(n)') \in Nat
      /\ Cardinality(TasksOn(n)') <= Cardinality(TasksOn(n)) + 1
  <2>1. /\ IsFiniteSet(TasksOn(n) \cup {k})
        /\ Cardinality(TasksOn(n) \cup {k}) =
             IF k \in TasksOn(n) THEN Cardinality(TasksOn(n)) ELSE Cardinality(TasksOn(n)) + 1
    BY <1>1, FS_AddElement
  <2>2. QED
    BY <1>1, <2>1
<1>3. Cardinality(LaunchesOn(n)') = Cardinality(LaunchesOn(n)) - 1
  BY <1>1, FS_RemoveElement
<1>4. Work(n)' = Cardinality(TasksOn(n)') + Cardinality(LaunchesOn(n)')
  BY DEF Work, TasksOn, LaunchesOn
<1>5. QED
  BY <1>1, <1>2, <1>3, <1>4

LEMMA SuspendedStep ==
  ASSUME FabricTypes, FabricTypes', FabricNext, NEW n \in Nodes,
         node[n] = "suspended", node'[n] = "suspended"
  PROVE  Work(n)' <= Work(n)
<1>1. ASSUME UNCHANGED <<tasks, launch>> PROVE Work(n)' <= Work(n)
  BY <1>1, WorkShrinks DEF TasksOn, LaunchesOn
<1>2. ASSUME NEW m \in Nodes, RegisterNode(m) \/ UpdateNodeHeartbeat(m) \/ SuspendNode(m)
      PROVE  Work(n)' <= Work(n)
  BY <1>1, <1>2 DEF RegisterNode, UpdateNodeHeartbeat, SuspendNode
<1>3. ASSUME NEW c \in Launches, NEW id \in TaskIds, NEW m \in Nodes, ExecuteFabricTask(c, id, m)
      PROVE  Work(n)' <= Work(n)
  <2>1. m # n /\ UNCHANGED tasks
    BY <1>3 DEF ExecuteFabricTask
  <2>2. /\ launch'[c].node = m
        /\ \A d \in Launches : d # c => launch'[d] = launch[d]
    BY <1>3 DEF ExecuteFabricTask, FabricTypes
  <2>3. LaunchesOn(n)' \subseteq LaunchesOn(n) /\ TasksOn(n)' = TasksOn(n)
    BY <2>1, <2>2 DEF LaunchesOn, TasksOn
  <2>4. QED
    BY <2>3, WorkShrinks
<1>4. ASSUME NEW c \in Launches, AuthorizeCompute(c) \/ RecordAuthorization(c)
      PROVE  Work(n)' <= Work(n)
  <2>1. /\ UNCHANGED tasks
        /\ launch'[c] = Idle \/ launch'[c].node = launch[c].node
        /\ \A d \in Launches : d # c => launch'[d] = launch[d]
    <3>1. CASE AuthorizeCompute(c)
      BY <3>1 DEF AuthorizeCompute, FabricTypes
    <3>2. CASE RecordAuthorization(c)
      <4>1. launch[c] \in [at : {"recording", "recorded"}, id : TaskIds, node : Nodes,
                           auth : 1..MaxAuthorizations]
        BY <3>2 DEF RecordAuthorization, FabricTypes, Launching, Idle
      <4>2. launch' = [launch EXCEPT ![c] = [launch[c] EXCEPT !.at = "recorded"]] /\ UNCHANGED tasks
        BY <3>2 DEF RecordAuthorization
      <4>3. launch'[c] = [launch[c] EXCEPT !.at = "recorded"]
        BY <4>2 DEF FabricTypes
      <4>4. [launch[c] EXCEPT !.at = "recorded"].node = launch[c].node
        BY <4>1
      <4>5. QED
        BY <4>2, <4>3, <4>4 DEF FabricTypes
    <3>3. QED
      BY <1>4, <3>1, <3>2
  <2>2. launch[c] # Idle
    BY <1>4 DEF AuthorizeCompute, RecordAuthorization, Idle
  <2>3. LaunchesOn(n)' \subseteq LaunchesOn(n) /\ TasksOn(n)' = TasksOn(n)
    BY <2>1, <2>2 DEF LaunchesOn, TasksOn
  <2>4. QED
    BY <2>3, WorkShrinks
<1>5. ASSUME NEW c \in Launches, LaunchTask(c) PROVE Work(n)' <= Work(n)
  <2>1. /\ launch[c].id \in TaskIds /\ launch[c].node \in Nodes
        /\ launch[c].auth \in 1..MaxAuthorizations /\ launch[c] # Idle
    BY <1>5, LaunchForms DEF LaunchTask, Held, Idle
  <2>2. PICK st \in Unended : tasks' = Append(tasks, NewTask(c, st))
    BY <1>5 DEF LaunchTask, Unended
  <2>3. NewTask(c, st) \in Task /\ NewTask(c, st).node = launch[c].node
    BY <2>1 DEF NewTask, Task, Unended
  <2>4. PICK k : k = Len(tasks) + 1
    OBVIOUS
  <2>5. /\ DOMAIN tasks' = DOMAIN tasks \cup {k}
        /\ tasks'[k].node = launch[c].node
        /\ k \notin DOMAIN tasks
        /\ \A i \in DOMAIN tasks : tasks'[i] = tasks[i]
    BY <2>2, <2>3, <2>4, AppendLast, AppendFound DEF FabricTypes
  <2>6. /\ launch'[c] = Idle
        /\ \A d \in Launches : d # c => launch'[d] = launch[d]
    BY <1>5 DEF LaunchTask, FabricTypes
  <2>7. CASE launch[c].node = n
    <3>1. c \in LaunchesOn(n) /\ LaunchesOn(n)' = LaunchesOn(n) \ {c}
      BY <2>1, <2>6, <2>7 DEF LaunchesOn
    <3>2. TasksOn(n)' = TasksOn(n) \cup {k}
      BY <2>5, <2>7 DEF TasksOn
    <3>3. QED
      BY <3>1, <3>2, WorkMoves
  <2>8. CASE launch[c].node # n
    <3>1. LaunchesOn(n)' \subseteq LaunchesOn(n) /\ TasksOn(n)' = TasksOn(n)
      BY <2>5, <2>6, <2>8 DEF LaunchesOn, TasksOn
    <3>2. QED
      BY <3>1, WorkShrinks
  <2>9. QED
    BY <2>7, <2>8
<1>6. ASSUME NEW k \in DOMAIN prongs, EndProng(k) PROVE Work(n)' <= Work(n)
  BY <1>1, <1>6 DEF EndProng
<1>7. ASSUME NEW i \in DOMAIN tasks, NEW how, tasks' = [tasks EXCEPT ![i].status = how],
             UNCHANGED launch
      PROVE  Work(n)' <= Work(n)
  <2>1. TasksOn(n)' = TasksOn(n) /\ LaunchesOn(n)' = LaunchesOn(n)
    BY <1>7, TasksKeepAuthorization DEF TasksOn, LaunchesOn
  <2>2. QED
    BY <2>1, WorkShrinks
<1>8. ASSUME NEW i \in DOMAIN tasks, NEW how \in {"completed", "failed"},
             EndFabricTask(i, how) \/ RevertFabricTask(i)
      PROVE  Work(n)' <= Work(n)
  BY <1>7, <1>8 DEF EndFabricTask, RevertFabricTask
<1>9. CASE LedgerStep
  BY <1>1, <1>9 DEF LedgerStep, fabricVars
<1>10. CASE FabricCrash
  BY <1>10 DEF FabricCrash
<1>11. CASE ResetFabric
  BY <1>11 DEF ResetFabric
<1>12. QED
  BY <1>2, <1>3, <1>4, <1>5, <1>6, <1>8, <1>9, <1>10, <1>11 DEF FabricNext

\* A suspended node gets no new work, although its status is read before two
\* awaits and not after them.
THEOREM SuspensionHolds == FabricSpec => SuspensionAdmitsNothing
<1>1. ASSUME FabricTypes, FabricTypes', [FabricNext]_<<fabricVars, ledgerVars>>
      PROVE  [\A n \in Nodes : node[n] = "suspended" /\ node'[n] = "suspended"
                => Work(n)' <= Work(n)]_<<fabricVars, ledgerVars>>
  <2>1. CASE FabricNext
    BY <1>1, <2>1, SuspendedStep
  <2>2. QED
    BY <1>1, <2>1
<1>2. QED
  BY <1>1, FabricInvariant, PTL DEF FabricSpec, SuspensionAdmitsNothing
============================================================================
