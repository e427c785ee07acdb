--------------------------- MODULE ServiceProofs ---------------------------
(***************************************************************************)
(* Theorems about the governance runtime, the amendment pipeline, the trust *)
(* scores and the choice of models, for any number of executions,           *)
(* amendments, nodes and requests.                                          *)
(*                                                                          *)
(* runConstitutionalAmendment makes several steps at once, so that the      *)
(* invariant of the amendments is stated of any list of them, any ledger    *)
(* and any version: each of its steps preserves it, and so does their       *)
(* composition.                                                             *)
(***************************************************************************)
EXTENDS GovernanceRuntime, AmendmentPipeline, TrustScores, ModelAccess, SequenceTheorems, TLAPS

\* Whatever is reported of the executions, the runtime stays within its types.
THEOREM RuntimeTypeCorrect == RuntimeSpec => []RuntimeTypeOK
<1>1. RuntimeInit => RuntimeTypeOK
  BY DEF RuntimeInit, RuntimeTypeOK
<1>2. RuntimeTypeOK /\ [RuntimeNext]_runtimeVars => RuntimeTypeOK'
  <2> SUFFICES ASSUME RuntimeTypeOK, [RuntimeNext]_runtimeVars PROVE RuntimeTypeOK'
    OBVIOUS
  <2> USE DEF RuntimeTypeOK
  <2>1. ASSUME NEW e \in Executions, ExecuteWorkflow(e) PROVE RuntimeTypeOK'
    BY <2>1 DEF ExecuteWorkflow
  <2>2. ASSUME NEW e \in Executions, ExecutionJudged(e) PROVE RuntimeTypeOK'
    BY <2>2 DEF ExecutionJudged
  <2>3. ASSUME NEW e \in Executions, CompleteExecution(e) PROVE RuntimeTypeOK'
    BY <2>3 DEF CompleteExecution, EndExecution
  <2>4. ASSUME NEW e \in Executions, FailExecution(e) PROVE RuntimeTypeOK'
    BY <2>4 DEF FailExecution, EndExecution
  <2>5. ASSUME UNCHANGED runtimeVars PROVE RuntimeTypeOK'
    BY <2>5 DEF runtimeVars
  <2>6. QED
    BY <2>1, <2>2, <2>3, <2>4, <2>5 DEF RuntimeNext
<1>3. QED
  BY <1>1, <1>2, PTL DEF RuntimeSpec

\* The flag of the runtime tells the truth about one execution at least,
\* however many share it, unless the last operation threw half-way.
THEOREM FlagIsTruthful == RuntimeSpec => []FlagShowsSomeone
<1>1. RuntimeInit => FlagShowsSomeone
  BY DEF RuntimeInit, FlagShowsSomeone
<1>2. RuntimeTypeOK /\ FlagShowsSomeone /\ [RuntimeNext]_runtimeVars => FlagShowsSomeone'
  <2> SUFFICES ASSUME RuntimeTypeOK, FlagShowsSomeone, [RuntimeNext]_runtimeVars
               PROVE  FlagShowsSomeone'
    OBVIOUS
  <2>1. ASSUME NEW e \in Executions, execution'[e] = Shown' PROVE FlagShowsSomeone'
    BY <2>1 DEF FlagShowsSomeone
  <2>2. ASSUME halfway' = TRUE PROVE FlagShowsSomeone'
    BY <2>2 DEF FlagShowsSomeone
  <2>3. ASSUME UNCHANGED <<execution, runtimeStatus, halfway>> PROVE FlagShowsSomeone'
    BY <2>3 DEF FlagShowsSomeone, Shown
  <2>4. ASSUME NEW e \in Executions, NEW status \in {"running", "completed", "failed"},
               execution' = [execution EXCEPT ![e] = status],
               \/ status = "running" /\ runtimeStatus' = "executing"
               \/ status = "completed" /\ runtimeStatus' = "idle"
               \/ status = "failed" /\ runtimeStatus' = "error"
        PROVE  FlagShowsSomeone'
    <3>1. execution'[e] = status
      BY <2>4 DEF RuntimeTypeOK
    <3>2. Shown' = status
      BY <2>4 DEF Shown
    <3>3. QED
      BY <3>1, <3>2, <2>1
  <2>5. ASSUME NEW e \in Executions, ExecuteWorkflow(e) PROVE FlagShowsSomeone'
    BY <2>5, <2>2, <2>4 DEF ExecuteWorkflow
  <2>6. ASSUME NEW e \in Executions, ExecutionJudged(e) PROVE FlagShowsSomeone'
    BY <2>6, <2>3, <2>4 DEF ExecutionJudged
  <2>7. ASSUME NEW e \in Executions, CompleteExecution(e) PROVE FlagShowsSomeone'
    BY <2>7, <2>2, <2>4 DEF CompleteExecution, EndExecution
  <2>8. ASSUME NEW e \in Executions, FailExecution(e) PROVE FlagShowsSomeone'
    BY <2>8, <2>2, <2>4 DEF FailExecution, EndExecution
  <2>9. ASSUME UNCHANGED runtimeVars PROVE FlagShowsSomeone'
    BY <2>9, <2>3 DEF runtimeVars
  <2>10. QED
    BY <2>5, <2>6, <2>7, <2>8, <2>9 DEF RuntimeNext
<1>3. QED
  BY <1>1, <1>2, RuntimeTypeCorrect, PTL DEF RuntimeSpec

----------------------------------------------------------------------------
(* Amendments. *)

InForce == {"committed", "restarted"}
Logged(log, i) == \E n \in DOMAIN log : log[n].about = i

\* The inductive invariant, part by part.
Typed(list, log, version) ==
  /\ list \in Seq(Amendment)
  /\ log \in Seq(Entry)
  /\ version \in Inputs \cup {Original}
Repeats(list) == \A a \in DOMAIN list : ~First(list, a) => list[a].status = "draft"
JudgedByInput(list, log) ==
  \A a \in DOMAIN list :
    /\ list[a].status = "rejected" => list[a].input \in Dangerous
    /\ list[a].status \in Validated => list[a].input \notin Dangerous /\ Logged(log, list[a].input)
Active(list, version) ==
  version # Original =>
    /\ version \notin Dangerous
    /\ \E a \in DOMAIN list : list[a].input = version /\ list[a].status \in InForce
Sound(list, log, version) ==
  /\ Typed(list, log, version)
  /\ Linked(log)
  /\ Repeats(list)
  /\ JudgedByInput(list, log)
  /\ Active(list, version)

\* A proposal adds a draft.
LEMMA ProposalKeeps ==
  ASSUME NEW list, NEW log, NEW version, Sound(list, log, version), NEW i \in Inputs
  PROVE  Sound(Append(list, Draft(i)), log, version)
<1> DEFINE new == Append(list, Draft(i))
<1>1. list \in Seq(Amendment) /\ Draft(i) \in Amendment
  BY DEF Sound, Typed, Draft, Amendment, AmendmentStatus
<1>2. /\ new \in Seq(Amendment)
      /\ Len(new) = Len(list) + 1
      /\ new[Len(new)] = Draft(i)
      /\ \A a \in 1..Len(list) : new[a] = list[a]
  BY <1>1, AppendProperties
<1>3. DOMAIN list = 1..Len(list) /\ DOMAIN new = 1..(Len(list) + 1) /\ Len(list) \in Nat
  BY <1>1, <1>2
<1> HIDE DEF new
<1>4. new[Len(list) + 1].status = "draft"
  BY <1>2 DEF Draft
<1>5. \A a \in 1..Len(list) : First(list, a) => First(new, a)
  BY <1>2, <1>3 DEF First
<1>6. Repeats(new)
  BY <1>2, <1>3, <1>4, <1>5 DEF Sound, Repeats
<1>7. JudgedByInput(new, log)
  <2> SUFFICES ASSUME NEW a \in DOMAIN new
               PROVE  /\ new[a].status = "rejected" => new[a].input \in Dangerous
                      /\ new[a].status \in Validated
                           => new[a].input \notin Dangerous /\ Logged(log, new[a].input)
    BY DEF JudgedByInput
  <2>1. CASE a \in 1..Len(list)
    BY <2>1, <1>2, <1>3 DEF Sound, JudgedByInput
  <2>2. CASE a = Len(list) + 1
    BY <2>2, <1>4 DEF Validated
  <2>3. QED
    BY <2>1, <2>2, <1>3
<1>8. Active(new, version)
  BY <1>2, <1>3 DEF Sound, Active
<1>9. QED
  BY <1>2, <1>6, <1>7, <1>8 DEF Sound, Typed, new

\* A receipt keeps the ledger linked and is in it.
LEMMA ReceiptKeeps ==
  ASSUME NEW list, NEW log, NEW version, Sound(list, log, version),
         NEW about \in Inputs \cup {Original}
  PROVE  /\ Sound(list, Appended(log, about), version)
         /\ Logged(Appended(log, about), about)
<1> DEFINE e == [about |-> about, hash |-> Len(log) + 1,
                 prevHash |-> IF log = <<>> THEN 0 ELSE log[Len(log)].hash]
           new == Appended(log, about)
<1>1. log \in Seq(Entry) /\ Len(log) \in Nat /\ DOMAIN log = 1..Len(log)
  BY DEF Sound, Typed
<1>2. e \in Entry
  <2>1. CASE log = <<>>
    BY <2>1, <1>1 DEF Entry
  <2>2. CASE log # <<>>
    <3>1. Len(log) \in 1..Len(log)
      BY <1>1, <2>2, EmptySeq
    <3>2. log[Len(log)] \in Entry
      BY <1>1, <3>1, ElementOfSeq
    <3>3. QED
      BY <1>1, <2>2, <3>2 DEF Entry
  <2>3. QED
    BY <2>1, <2>2
<1>3. new = Append(log, e)
  BY DEF Appended
<1>4. e.about = about /\ (log # <<>> => e.prevHash = log[Len(log)].hash)
  OBVIOUS
<1> HIDE DEF e, new
<1>5. /\ new \in Seq(Entry)
      /\ Len(new) = Len(log) + 1
      /\ new[Len(new)] = e
      /\ \A n \in 1..Len(log) : new[n] = log[n]
  BY <1>1, <1>2, <1>3, AppendProperties
<1>6. DOMAIN new = 1..(Len(log) + 1)
  BY <1>5
<1>7. Linked(new)
  <2> SUFFICES ASSUME NEW n \in 2..(Len(log) + 1) PROVE new[n].prevHash = new[n - 1].hash
    BY <1>5 DEF Linked
  <2>1. CASE n \in 2..Len(log)
    <3>1. n \in 1..Len(log) /\ n - 1 \in 1..Len(log)
      BY <2>1, <1>1
    <3>2. QED
      BY <2>1, <3>1, <1>5 DEF Sound, Linked
  <2>2. CASE n = Len(log) + 1
    <3>1. Len(log) \in 1..Len(log) /\ n - 1 = Len(log)
      BY <2>2, <1>1
    <3>2. log # <<>>
      BY <3>1, <1>1, EmptySeq
    <3>3. QED
      BY <2>2, <3>1, <3>2, <1>4, <1>5
  <2>3. QED
    BY <2>1, <2>2, <1>1
<1>8. \A i : Logged(log, i) => Logged(new, i)
  BY <1>1, <1>5, <1>6 DEF Logged
<1>9. Logged(new, about)
  <2>1. Len(log) + 1 \in DOMAIN new
    BY <1>1, <1>6
  <2>2. QED
    BY <2>1, <1>4, <1>5 DEF Logged
<1>10. JudgedByInput(list, new)
  BY <1>8 DEF Sound, JudgedByInput
<1>11. QED
  BY <1>5, <1>7, <1>9, <1>10 DEF Sound, Typed, new

\* The conditions under which a status and a version may be set.
MaySet(list, log, version, a, status, next) ==
  /\ status \in AmendmentStatus
  /\ status = "rejected" => list[a].input \in Dangerous
  /\ status \in Validated => list[a].input \notin Dangerous /\ Logged(log, list[a].input)
  /\ \/ next = version /\ (list[a].status \in InForce => status \in InForce)
     \/ next = list[a].input /\ status \in InForce

\* A step of one amendment keeps the invariant under these conditions.
LEMMA StatusKeeps ==
  ASSUME NEW list, NEW log, NEW version, Sound(list, log, version),
         NEW a, First(list, a), NEW status, NEW next,
         MaySet(list, log, version, a, status, next)
  PROVE  Sound([list EXCEPT ![a].status = status], log, next)
<1> DEFINE new == [list EXCEPT ![a].status = status]
<1>1. list \in Seq(Amendment) /\ DOMAIN list = 1..Len(list) /\ Len(list) \in Nat
  BY DEF Sound, Typed
<1>2. a \in DOMAIN list
  BY DEF First
<1>3. \A b \in DOMAIN list : list[b] \in Amendment
  BY <1>1, ElementOfSeq
<1>4. [list[a] EXCEPT !.status = status] \in Amendment
  BY <1>2, <1>3 DEF Amendment, MaySet
<1>5. new \in Seq(Amendment) /\ DOMAIN new = DOMAIN list
  BY <1>1, <1>2, <1>4, ExceptSeq
<1>6. \A b \in DOMAIN list : new[b].input = list[b].input
  BY <1>2, <1>3 DEF Amendment
<1>7. new[a].status = status
  BY <1>2, <1>3 DEF Amendment
<1>8. \A b \in DOMAIN list : b # a => new[b] = list[b]
  BY <1>2
<1> HIDE DEF new
<1>9. \A b \in DOMAIN list : First(new, b) <=> First(list, b)
  BY <1>5, <1>6 DEF First
<1>10. Repeats(new)
  BY <1>5, <1>8, <1>9 DEF Sound, Repeats
<1>11. JudgedByInput(new, log)
  <2> SUFFICES ASSUME NEW b \in DOMAIN list
               PROVE  /\ new[b].status = "rejected" => new[b].input \in Dangerous
                      /\ new[b].status \in Validated
                           => new[b].input \notin Dangerous /\ Logged(log, new[b].input)
    BY <1>5 DEF JudgedByInput
  <2>1. CASE b = a
    BY <2>1, <1>2, <1>6, <1>7 DEF MaySet
  <2>2. CASE b # a
    BY <2>2, <1>8 DEF Sound, JudgedByInput
  <2>3. QED
    BY <2>1, <2>2
<1>12. Active(new, next)
  <2>1. CASE next = version /\ (list[a].status \in InForce => status \in InForce)
    <3> SUFFICES ASSUME version # Original
                 PROVE  /\ version \notin Dangerous
                        /\ \E b \in DOMAIN list : new[b].input = version /\ new[b].status \in InForce
      BY <2>1, <1>5 DEF Active
    <3>1. PICK b \in DOMAIN list : list[b].input = version /\ list[b].status \in InForce
      BY DEF Sound, Active
    <3>2. new[b].input = version /\ new[b].status \in InForce
      BY <2>1, <3>1, <1>6, <1>7, <1>8
    <3>3. QED
      BY <3>2 DEF Sound, Active
  <2>2. CASE next = list[a].input /\ status \in InForce
    <3>1. status \in Validated
      BY <2>2 DEF InForce, Validated
    <3>2. next \notin Dangerous
      BY <2>2, <3>1 DEF MaySet
    <3>3. QED
      BY <2>2, <3>2, <1>2, <1>5, <1>6, <1>7 DEF Active
  <2>3. QED
    BY <2>1, <2>2 DEF MaySet
<1>13. next \in Inputs \cup {Original}
  BY <1>2, <1>3 DEF MaySet, Sound, Typed, Amendment
<1>14. QED
  BY <1>5, <1>10, <1>11, <1>12, <1>13 DEF Sound, Typed, new

----------------------------------------------------------------------------

AmendmentInv == Sound(amendments, crk2Ledger, activeVersion) /\ frozen \in BOOLEAN

\* With no amendments and the original version the invariant is one of the
\* ledger only.
LEMMA NoneIsSound ==
  ASSUME NEW log \in Seq(Entry), Linked(log)
  PROVE  Sound(<<>>, log, Original)
<1>1. Typed(<<>>, log, Original)
  BY EmptySeq DEF Typed
<1>2. DOMAIN <<>> = {}
  OBVIOUS
<1>3. Repeats(<<>>) /\ JudgedByInput(<<>>, log) /\ Active(<<>>, Original)
  BY <1>2 DEF Repeats, JudgedByInput, Active
<1>4. QED
  BY <1>1, <1>3 DEF Sound

LEMMA AmendmentInitially == AmendmentInit => AmendmentInv
<1> SUFFICES ASSUME AmendmentInit PROVE AmendmentInv
  OBVIOUS
<1>1. amendments = <<>> /\ crk2Ledger = <<>> /\ activeVersion = Original /\ frozen = FALSE
  BY DEF AmendmentInit
<1>2. <<>> \in Seq(Entry)
  BY EmptySeq
<1>3. 2..Len(<<>>) = {}
  OBVIOUS
<1>4. Linked(<<>>)
  BY <1>3 DEF Linked
<1>5. Sound(<<>>, <<>>, Original)
  BY <1>2, <1>4, NoneIsSound
<1>6. QED
  BY <1>1, <1>5 DEF AmendmentInv

\* A call that is about one amendment and sets its status.
LEMMA CallKeeps ==
  ASSUME AmendmentInv, NEW a, NEW allowed, Required(a, allowed), NEW status,
         MaySet(amendments, crk2Ledger, activeVersion, a, status, activeVersion'),
         Becomes(a, status), UNCHANGED crk2Ledger, frozen' \in BOOLEAN
  PROVE  AmendmentInv'
<1>1. First(amendments, a)
  BY DEF Required
<1>2. amendments' = [amendments EXCEPT ![a].status = status]
  BY DEF Becomes
<1>3. Sound([amendments EXCEPT ![a].status = status], crk2Ledger, activeVersion')
  BY <1>1, StatusKeeps DEF AmendmentInv
<1>4. QED
  BY <1>2, <1>3 DEF AmendmentInv

\* A validation: the receipt first, then the verdict.
LEMMA ValidationKeeps ==
  ASSUME AmendmentInv, NEW a, ValidateAmendment(a)
  PROVE  AmendmentInv'
<1> DEFINE i == amendments[a].input
           log == Appended(crk2Ledger, i)
           status == IF Valid(i, log) THEN "validated" ELSE "rejected"
<1>1. First(amendments, a) /\ a \in DOMAIN amendments /\ amendments[a].status = "applied"
  BY DEF ValidateAmendment, Required, First
<1>2. amendments[a] \in Amendment
  BY <1>1, ElementOfSeq DEF AmendmentInv, Sound, Typed
<1>3. i \in Inputs \cup {Original}
  BY <1>2 DEF Amendment
<1> HIDE DEF i
<1>4. Sound(amendments, log, activeVersion) /\ Logged(log, i)
  BY <1>3, ReceiptKeeps DEF AmendmentInv
<1>5. /\ crk2Ledger' = log
      /\ amendments' = [amendments EXCEPT ![a].status = status]
      /\ UNCHANGED <<frozen, activeVersion>>
  BY DEF ValidateAmendment, Becomes, i
<1> HIDE DEF log
<1>6. Linked(log)
  BY <1>4 DEF Sound
<1>7. status = "rejected" => i \in Dangerous
  BY <1>6 DEF Valid
<1>8. status \in Validated => i \notin Dangerous
  BY DEF Valid, Validated
<1>9. MaySet(amendments, log, activeVersion, a, status, activeVersion)
  BY <1>1, <1>4, <1>7, <1>8 DEF MaySet, AmendmentStatus, Validated, InForce, i
<1> HIDE DEF status
<1>10. Sound([amendments EXCEPT ![a].status = status], log, activeVersion)
  BY <1>1, <1>4, <1>9, StatusKeeps
<1>11. QED
  BY <1>5, <1>10 DEF AmendmentInv

\* The whole pipeline: the proposal, the receipt, the last status.
LEMMA RunKeeps ==
  ASSUME AmendmentInv, NEW i \in Inputs, RunConstitutionalAmendment(i)
  PROVE  AmendmentInv'
<1> DEFINE proposed == Append(amendments, Draft(i))
           log == Appended(crk2Ledger, i)
           status == IF Valid(i, log) THEN "restarted" ELSE "rejected"
           next == IF Valid(i, log) THEN i ELSE activeVersion
<1>1. PICK a \in 1..(Len(amendments) + 1) :
        /\ First(proposed, a)
        /\ proposed[a].input = i
        /\ \/ /\ proposed[a].status # "draft"
              /\ amendments' = proposed
              /\ frozen' = TRUE
              /\ UNCHANGED <<activeVersion, crk2Ledger>>
           \/ /\ proposed[a].status = "draft"
              /\ crk2Ledger' = log
              /\ frozen' = FALSE
              /\ amendments' = [proposed EXCEPT ![a].status = status]
              /\ activeVersion' = next
  BY DEF RunConstitutionalAmendment
<1>2. Sound(proposed, crk2Ledger, activeVersion)
  BY ProposalKeeps DEF AmendmentInv
<1>3. Sound(proposed, log, activeVersion) /\ Logged(log, i)
  BY <1>2, ReceiptKeeps
<1> HIDE DEF proposed, log
<1>4. CASE proposed[a].status # "draft"
  BY <1>1, <1>2, <1>4 DEF AmendmentInv
<1>5. CASE proposed[a].status = "draft"
  <2>1. Linked(log)
    BY <1>3 DEF Sound
  <2>2. MaySet(proposed, log, activeVersion, a, status, next)
    <3>1. CASE Valid(i, log)
      <4>1. status = "restarted" /\ next = i
        BY <3>1
      <4>2. QED
        BY <1>1, <1>3, <3>1, <4>1 DEF Valid, MaySet, AmendmentStatus, Validated, InForce
    <3>2. CASE ~Valid(i, log)
      <4>1. status = "rejected" /\ next = activeVersion /\ i \in Dangerous
        BY <2>1, <3>2 DEF Valid
      <4>2. QED
        BY <1>1, <1>5, <4>1 DEF MaySet, AmendmentStatus, Validated, InForce
    <3>3. QED
      BY <3>1, <3>2
  <2> HIDE DEF status, next
  <2>3. Sound([proposed EXCEPT ![a].status = status], log, next)
    BY <1>1, <1>3, <2>2, StatusKeeps
  <2>4. QED
    BY <1>1, <1>5, <2>3 DEF AmendmentInv
<1>6. QED
  BY <1>4, <1>5

LEMMA AmendmentStep == AmendmentInv /\ [AmendmentNext]_amendmentVars => AmendmentInv'
<1> SUFFICES ASSUME AmendmentInv, [AmendmentNext]_amendmentVars PROVE AmendmentInv'
  OBVIOUS
<1>1. CASE UNCHANGED amendmentVars
  BY <1>1 DEF amendmentVars, AmendmentInv
<1>2. CASE SyncReceipt
  <2>1. Sound(amendments, Appended(crk2Ledger, Original), activeVersion)
    BY ReceiptKeeps DEF AmendmentInv
  <2>2. QED
    BY <1>2, <2>1 DEF SyncReceipt, AmendmentInv
<1>3. CASE FreezeForAmendment
  BY <1>3 DEF FreezeForAmendment, AmendmentInv
<1>4. ASSUME NEW i \in Inputs, ProposeAmendment(i) PROVE AmendmentInv'
  <2>1. Sound(Append(amendments, Draft(i)), crk2Ledger, activeVersion)
    BY ProposalKeeps DEF AmendmentInv
  <2>2. QED
    BY <1>4, <2>1 DEF ProposeAmendment, AmendmentInv
<1>5. ASSUME NEW i \in Inputs, RunConstitutionalAmendment(i) PROVE AmendmentInv'
  BY <1>5, RunKeeps
<1>6. ASSUME NEW a \in DOMAIN amendments, MarkAmendmentFrozen(a) PROVE AmendmentInv'
  <2>1. MaySet(amendments, crk2Ledger, activeVersion, a, "frozen", activeVersion')
    BY <1>6 DEF MarkAmendmentFrozen, Required, MaySet, AmendmentStatus, Validated, InForce
  <2>2. QED
    BY <1>6, <2>1, CallKeeps DEF MarkAmendmentFrozen, AmendmentInv
<1>7. ASSUME NEW a \in DOMAIN amendments, ExportConstitutionalState(a) PROVE AmendmentInv'
  <2>1. MaySet(amendments, crk2Ledger, activeVersion, a, "exported", activeVersion')
    BY <1>7 DEF ExportConstitutionalState, Required, MaySet, AmendmentStatus, Validated, InForce
  <2>2. QED
    BY <1>7, <2>1, CallKeeps DEF ExportConstitutionalState, AmendmentInv
<1>8. ASSUME NEW a \in DOMAIN amendments, ApplyAmendment(a) PROVE AmendmentInv'
  <2>1. MaySet(amendments, crk2Ledger, activeVersion, a, "applied", activeVersion')
    BY <1>8 DEF ApplyAmendment, Required, MaySet, AmendmentStatus, Validated, InForce
  <2>2. QED
    BY <1>8, <2>1, CallKeeps DEF ApplyAmendment, AmendmentInv
<1>9. ASSUME NEW a \in DOMAIN amendments, ValidateAmendment(a) PROVE AmendmentInv'
  BY <1>9, ValidationKeeps
<1>10. ASSUME NEW a \in DOMAIN amendments, CommitAmendment(a) PROVE AmendmentInv'
  <2>1. amendments[a].status = "validated" /\ activeVersion' = amendments[a].input
    BY <1>10 DEF CommitAmendment, Required
  <2>2. amendments[a].input \notin Dangerous /\ Logged(crk2Ledger, amendments[a].input)
    BY <2>1 DEF AmendmentInv, Sound, JudgedByInput, Validated
  <2>3. MaySet(amendments, crk2Ledger, activeVersion, a, "committed", activeVersion')
    BY <2>1, <2>2 DEF MaySet, AmendmentStatus, Validated, InForce
  <2>4. QED
    BY <1>10, <2>3, CallKeeps DEF CommitAmendment, AmendmentInv
<1>11. ASSUME NEW a \in DOMAIN amendments, RestartUnderCRK2(a) PROVE AmendmentInv'
  <2>1. amendments[a].status = "committed" /\ activeVersion' = activeVersion
    BY <1>11 DEF RestartUnderCRK2, Required
  <2>2. amendments[a].input \notin Dangerous /\ Logged(crk2Ledger, amendments[a].input)
    BY <2>1 DEF AmendmentInv, Sound, JudgedByInput, Validated
  <2>3. MaySet(amendments, crk2Ledger, activeVersion, a, "restarted", activeVersion')
    BY <2>1, <2>2 DEF MaySet, AmendmentStatus, Validated, InForce
  <2>4. QED
    BY <1>11, <2>3, CallKeeps DEF RestartUnderCRK2
<1>12. CASE ResetAmendments
  <2>1. Sound(<<>>, crk2Ledger, Original)
    BY NoneIsSound DEF AmendmentInv, Sound, Typed
  <2>2. QED
    BY <1>12, <2>1 DEF ResetAmendments, AmendmentInv
<1>13. QED
  BY <1>1, <1>2, <1>3, <1>4, <1>5, <1>6, <1>7, <1>8, <1>9, <1>10, <1>11, <1>12 DEF AmendmentNext

LEMMA AmendmentInvariant == AmendmentSpec => []AmendmentInv
BY AmendmentInitially, AmendmentStep, PTL DEF AmendmentSpec

\* Whatever calls are made in whatever order, the pipeline stays within its types.
THEOREM AmendmentTypeCorrect == AmendmentSpec => []AmendmentTypeOK
<1>1. AmendmentInv => AmendmentTypeOK
  BY DEF AmendmentInv, AmendmentTypeOK, Sound, Typed
<1>2. QED
  BY AmendmentInvariant, <1>1, PTL

\* The version in force was validated, however many amendments are in flight.
THEOREM VersionInForceIsSound == AmendmentSpec => []ActiveWasValidated
<1>1. AmendmentInv => ActiveWasValidated
  BY DEF AmendmentInv, ActiveWasValidated, Sound, Active, InForce
<1>2. QED
  BY AmendmentInvariant, <1>1, PTL

\* An amendment proposed a second time never gets past its draft.
THEOREM RepetitionsAreIgnored == AmendmentSpec => []RepeatedStaysDraft
<1>1. AmendmentInv => RepeatedStaysDraft
  BY DEF AmendmentInv, RepeatedStaysDraft, Sound, Repeats
<1>2. QED
  BY AmendmentInvariant, <1>1, PTL

\* Amendments fail for what they say and for nothing else.
THEOREM VerdictsAreOnContent == AmendmentSpec => []VerdictIsOnContent
<1>1. AmendmentInv => VerdictIsOnContent
  BY DEF AmendmentInv, VerdictIsOnContent, Sound, JudgedByInput, Logged
<1>2. QED
  BY AmendmentInvariant, <1>1, PTL

\* The version in force has a receipt in the ledger, whatever was reset or
\* proposed again since.
THEOREM VersionInForceIsLogged ==
  AmendmentSpec => [](activeVersion # Original => Logged(crk2Ledger, activeVersion))
<1>1. AmendmentInv => (activeVersion # Original => Logged(crk2Ledger, activeVersion))
  BY DEF AmendmentInv, Sound, Active, JudgedByInput, InForce, Validated
<1>2. QED
  BY AmendmentInvariant, <1>1, PTL

\* What becomes of an amendment follows from what it says and from whether it
\* was proposed before, never from the calls around it.
THEOREM ContentIsDecisive == AmendmentSpec => []ContentDecides
<1>1. RepeatedStaysDraft /\ VerdictIsOnContent => ContentDecides
  BY DEF ContentDecides
<1>2. QED
  BY <1>1, RepetitionsAreIgnored, VerdictsAreOnContent, PTL

\* The discipline that the one freeze flag asks for: nobody lifts the freeze
\* while an amendment is between its export and its application.
Waiting == \E a \in DOMAIN amendments : amendments[a].status = "exported"
LiftsInTurn == [][frozen /\ ~frozen' => ~Waiting]_amendmentVars

FreezeInv == Waiting => frozen

\* A call that sets the status of one amendment makes at most that one wait.
LEMMA WaitingAfter ==
  ASSUME NEW list \in Seq(Amendment), NEW a \in DOMAIN list, NEW status,
         NEW b \in DOMAIN [list EXCEPT ![a].status = status],
         [list EXCEPT ![a].status = status][b].status = "exported"
  PROVE  status = "exported" \/ (b \in DOMAIN list /\ list[b].status = "exported")
<1>1. list[a] \in Amendment
  BY ElementOfSeq
<1>2. CASE b = a
  BY <1>1, <1>2 DEF Amendment
<1>3. CASE b # a
  BY <1>3
<1>4. QED
  BY <1>2, <1>3

\* A proposal makes none wait.
LEMMA WaitingAfterProposal ==
  ASSUME NEW list \in Seq(Amendment), NEW i \in Inputs,
         NEW b \in DOMAIN Append(list, Draft(i)), Append(list, Draft(i))[b].status = "exported"
  PROVE  b \in DOMAIN list /\ list[b].status = "exported"
<1> DEFINE new == Append(list, Draft(i))
<1>1. Draft(i) \in Amendment /\ Draft(i).status = "draft"
  BY DEF Draft, Amendment, AmendmentStatus
<1>2. /\ new \in Seq(Amendment) /\ Len(new) = Len(list) + 1
      /\ new[Len(list) + 1] = Draft(i) /\ \A a \in 1..Len(list) : new[a] = list[a]
  BY <1>1, AppendProperties
<1>3. DOMAIN list = 1..Len(list) /\ DOMAIN new = 1..(Len(list) + 1) /\ Len(list) \in Nat
  BY <1>2
<1> HIDE DEF new
<1>4. b \in DOMAIN new /\ new[b].status = "exported"
  BY DEF new
<1>5. QED
  BY <1>1, <1>2, <1>3, <1>4

LEMMA FreezeStep ==
  ASSUME AmendmentInv, FreezeInv, [AmendmentNext]_amendmentVars,
         frozen /\ ~frozen' => ~Waiting
  PROVE  FreezeInv'
<1>1. amendments \in Seq(Amendment) /\ frozen \in BOOLEAN
  BY DEF AmendmentInv, Sound, Typed
<1>2. ASSUME NEW b \in DOMAIN amendments', amendments'[b].status = "exported", ~frozen'
      PROVE  FALSE
  <2>1. ~Waiting
    BY <1>2 DEF FreezeInv
  <2>2. CASE UNCHANGED amendments
    BY <1>2, <2>1, <2>2 DEF Waiting
  <2>3. ASSUME NEW i \in Inputs, amendments' = Append(amendments, Draft(i))
        PROVE  FALSE
    <3>1. amendments[b].status = "exported" /\ b \in DOMAIN amendments
      BY <1>1, <1>2, <2>3, WaitingAfterProposal
    <3>2. QED
      BY <2>1, <3>1 DEF Waiting
  <2>4. ASSUME NEW a \in DOMAIN amendments, NEW status, status # "exported", Becomes(a, status)
        PROVE  FALSE
    <3>1. b \in DOMAIN amendments /\ amendments[b].status = "exported"
      BY <1>1, <1>2, <2>4, WaitingAfter DEF Becomes
    <3>2. QED
      BY <2>1, <3>1 DEF Waiting
  <2>5. ASSUME NEW i \in Inputs, RunConstitutionalAmendment(i)
        PROVE  FALSE
    <3> DEFINE proposed == Append(amendments, Draft(i))
    <3>1. Draft(i) \in Amendment
      BY DEF Draft, Amendment, AmendmentStatus
    <3>2. proposed \in Seq(Amendment)
      BY <1>1, <3>1, AppendProperties
    <3>3. PICK a \in DOMAIN proposed, status \in {"restarted", "rejected"} :
            \/ amendments' = proposed
            \/ amendments' = [proposed EXCEPT ![a].status = status]
      BY <2>5 DEF RunConstitutionalAmendment, First
    <3>4. CASE amendments' = proposed
      BY <2>3, <3>4
    <3>5. CASE amendments' = [proposed EXCEPT ![a].status = status]
      <4> HIDE DEF proposed
      <4>1. b \in DOMAIN proposed /\ proposed[b].status = "exported"
        BY <1>2, <3>2, <3>3, <3>5, WaitingAfter
      <4>2. b \in DOMAIN amendments /\ amendments[b].status = "exported"
        BY <1>1, <4>1, WaitingAfterProposal DEF proposed
      <4>3. QED
        BY <2>1, <4>2 DEF Waiting
    <3>6. QED
      BY <3>3, <3>4, <3>5
  <2>6. CASE ResetAmendments
    BY <1>2, <2>6 DEF ResetAmendments
  <2>7. ASSUME NEW a \in DOMAIN amendments,
               \/ MarkAmendmentFrozen(a) \/ ExportConstitutionalState(a) \/ ApplyAmendment(a)
               \/ ValidateAmendment(a) \/ CommitAmendment(a) \/ RestartUnderCRK2(a)
        PROVE  FALSE
    <3>1. ~ExportConstitutionalState(a)
      BY <1>2 DEF ExportConstitutionalState
    <3>2. PICK status : status # "exported" /\ Becomes(a, status)
      <4>1. CASE MarkAmendmentFrozen(a)
        BY <4>1 DEF MarkAmendmentFrozen
      <4>2. CASE ApplyAmendment(a)
        BY <4>2 DEF ApplyAmendment
      <4>3. CASE ValidateAmendment(a)
        BY <4>3 DEF ValidateAmendment
      <4>4. CASE CommitAmendment(a)
        BY <4>4 DEF CommitAmendment
      <4>5. CASE RestartUnderCRK2(a)
        BY <4>5 DEF RestartUnderCRK2
      <4>6. QED
        BY <2>7, <3>1, <4>1, <4>2, <4>3, <4>4, <4>5
    <3>3. QED
      BY <2>4, <3>2
  <2>8. QED
    BY <2>2, <2>3, <2>5, <2>6, <2>7
    DEF AmendmentNext, amendmentVars, SyncReceipt, FreezeForAmendment, ProposeAmendment
<1>3. QED
  BY <1>2 DEF FreezeInv, Waiting

\* Nothing but applyAmendment makes an amendment applied.
LEMMA AppliesOnlyByApply ==
  ASSUME AmendmentInv, AmendmentNext,
         NEW a \in DOMAIN amendments \cap DOMAIN amendments',
         amendments'[a].status = "applied", amendments[a].status # "applied"
  PROVE  \E b \in DOMAIN amendments : ApplyAmendment(b)
<1>1. amendments \in Seq(Amendment)
  BY DEF AmendmentInv, Sound, Typed
<1>2. ASSUME NEW list \in Seq(Amendment), list[a] = amendments[a], NEW b \in DOMAIN list,
             NEW status, amendments' = [list EXCEPT ![b].status = status]
      PROVE  status = "applied"
  <2>1. list[b] \in Amendment
    BY <1>2, ElementOfSeq
  <2>2. CASE a = b
    BY <1>2, <2>1, <2>2 DEF Amendment
  <2>3. CASE a # b
    BY <1>2, <2>3
  <2>4. QED
    BY <2>2, <2>3
<1>3. ASSUME NEW i \in Inputs
      PROVE  /\ Append(amendments, Draft(i)) \in Seq(Amendment)
             /\ Append(amendments, Draft(i))[a] = amendments[a]
  <2>1. Draft(i) \in Amendment
    BY DEF Draft, Amendment, AmendmentStatus
  <2>2. a \in 1..Len(amendments)
    BY <1>1
  <2>3. QED
    BY <1>1, <2>1, <2>2, AppendProperties
<1>4. CASE SyncReceipt \/ FreezeForAmendment \/ ResetAmendments
             \/ \E i \in Inputs : ProposeAmendment(i)
  BY <1>3, <1>4 DEF SyncReceipt, FreezeForAmendment, ResetAmendments, ProposeAmendment
<1>5. ASSUME NEW i \in Inputs, RunConstitutionalAmendment(i)
      PROVE  FALSE
  <2> DEFINE proposed == Append(amendments, Draft(i))
  <2>1. PICK b \in DOMAIN proposed, status \in {"restarted", "rejected"} :
          \/ amendments' = proposed
          \/ amendments' = [proposed EXCEPT ![b].status = status]
    BY <1>5 DEF RunConstitutionalAmendment, First
  <2>2. proposed \in Seq(Amendment) /\ proposed[a] = amendments[a]
    BY <1>3
  <2> HIDE DEF proposed
  <2>3. QED
    BY <1>2, <2>1, <2>2
<1>6. ASSUME NEW b \in DOMAIN amendments,
             \/ MarkAmendmentFrozen(b) \/ ExportConstitutionalState(b)
             \/ ValidateAmendment(b) \/ CommitAmendment(b) \/ RestartUnderCRK2(b)
      PROVE  FALSE
  <2>1. PICK status : status # "applied" /\ Becomes(b, status)
    <3>1. CASE MarkAmendmentFrozen(b)
      BY <3>1 DEF MarkAmendmentFrozen
    <3>2. CASE ExportConstitutionalState(b)
      BY <3>2 DEF ExportConstitutionalState
    <3>3. CASE ValidateAmendment(b)
      BY <3>3 DEF ValidateAmendment
    <3>4. CASE CommitAmendment(b)
      BY <3>4 DEF CommitAmendment
    <3>5. CASE RestartUnderCRK2(b)
      BY <3>5 DEF RestartUnderCRK2
    <3>6. QED
      BY <1>6, <3>1, <3>2, <3>3, <3>4, <3>5
  <2>2. QED
    BY <1>1, <1>2, <2>1 DEF Becomes
<1>7. QED
  BY <1>4, <1>5, <1>6 DEF AmendmentNext

\* The specification of CRK-2 says that no amendment is applied without freeze.
\* applyAmendment does not ask for it, and AppliesUnderFreeze can be violated;
\* it holds of all callers who lift the freeze in turn.
THEOREM AppliedInTurn == AmendmentSpec /\ LiftsInTurn => AppliesUnderFreeze
<1>1. AmendmentInit => FreezeInv
  BY DEF AmendmentInit, FreezeInv, Waiting
<1>2. AmendmentInv /\ FreezeInv /\ [AmendmentNext]_amendmentVars
      /\ [frozen /\ ~frozen' => ~Waiting]_amendmentVars => FreezeInv'
  <2>1. ASSUME UNCHANGED amendmentVars
        PROVE  frozen' = frozen
    BY <2>1 DEF amendmentVars
  <2>2. QED
    BY <2>1, FreezeStep
<1>3. AmendmentInv /\ FreezeInv /\ [AmendmentNext]_amendmentVars =>
        [\A a \in DOMAIN amendments \cap DOMAIN amendments' :
           amendments'[a].status = "applied" /\ amendments[a].status # "applied"
           => frozen]_amendmentVars
  <2> SUFFICES ASSUME AmendmentInv, FreezeInv, AmendmentNext,
                      NEW a \in DOMAIN amendments \cap DOMAIN amendments',
                      amendments'[a].status = "applied", amendments[a].status # "applied"
               PROVE  frozen
    OBVIOUS
  <2>1. PICK b \in DOMAIN amendments : ApplyAmendment(b)
    BY AppliesOnlyByApply
  <2>2. amendments[b].status = "exported"
    BY <2>1 DEF ApplyAmendment, Required
  <2>3. QED
    BY <2>2 DEF FreezeInv, Waiting
<1>4. QED
  BY <1>1, <1>2, <1>3, AmendmentInvariant, PTL DEF AmendmentSpec, LiftsInTurn, AppliesUnderFreeze

----------------------------------------------------------------------------

\* What computing a score does to the record of one node.
LEMMA ComputedScore ==
  ASSUME TrustTypeOK, NEW p \in Peers, NEW rank \in Ranks, Computed(p, rank)
  PROVE  /\ TrustTypeOK'
         /\ trust'[p] = [vector |-> rank, composite |-> rank, tier |-> rank]
         /\ lifted'[p] = FALSE
         /\ \A q \in Peers \ {p} : trust'[q] = trust[q] /\ lifted'[q] = lifted[q]
<1> DEFINE new == [vector |-> rank, composite |-> rank, tier |-> rank]
<1>1. new \in Score
  BY DEF Score
<1>2. new # Unknown
  BY DEF Unknown, Ranks
<1>3. trust' = [trust EXCEPT ![p] = new] /\ appeal' = appeal
  BY DEF Computed
<1>4. lifted' = [lifted EXCEPT ![p] = FALSE]
  BY DEF Computed
<1> HIDE DEF new
<1>5. TrustTypeOK'
  <2>1. trust' \in [Peers -> Score \cup {Unknown}] /\ lifted' \in [Peers -> BOOLEAN]
    BY <1>1, <1>3, <1>4 DEF TrustTypeOK
  <2>2. \A q \in Peers : appeal'[q] # "none" => Known(q)'
    BY <1>2, <1>3 DEF TrustTypeOK, Known, Unknown
  <2>3. QED
    BY <2>1, <2>2, <1>3 DEF TrustTypeOK
<1>6. trust'[p] = new /\ \A q \in Peers \ {p} : trust'[q] = trust[q]
  BY <1>3 DEF TrustTypeOK
<1>7. lifted'[p] = FALSE /\ \A q \in Peers \ {p} : lifted'[q] = lifted[q]
  BY <1>4 DEF TrustTypeOK
<1>8. QED
  BY <1>5, <1>6, <1>7 DEF new

\* What changing one field of a score does to the record of one node.
LEMMA ChangedScore ==
  ASSUME TrustTypeOK, NEW p \in Peers, NEW new \in Score, Known(p),
         trust' = [trust EXCEPT ![p] = new], UNCHANGED <<appeal, lifted>>
  PROVE  /\ TrustTypeOK'
         /\ trust'[p] = new
         /\ \A q \in Peers \ {p} : trust'[q] = trust[q]
<1>1. trust'[p] = new /\ \A q \in Peers \ {p} : trust'[q] = trust[q]
  BY DEF TrustTypeOK
<1>2. new # Unknown
  BY DEF Score, Unknown, Ranks
<1>3. trust' \in [Peers -> Score \cup {Unknown}]
  BY DEF TrustTypeOK
<1>4. \A q \in Peers : appeal'[q] # "none" => Known(q)'
  BY <1>1, <1>2 DEF TrustTypeOK, Known, Unknown
<1>5. QED
  BY <1>1, <1>3, <1>4 DEF TrustTypeOK

\* The ranks of a node that has a score.
LEMMA KnownScore ==
  ASSUME TrustTypeOK, NEW p \in Peers, Known(p)
  PROVE  /\ trust[p] \in Score
         /\ trust[p].vector \in Ranks /\ trust[p].composite \in Ranks /\ trust[p].tier \in Ranks
<1>1. trust[p] \in Score
  BY DEF TrustTypeOK, Known
<1>2. QED
  BY <1>1 DEF Score

\* A node has a score, or the ranks of one that has none.
LEMMA AnyScore ==
  ASSUME TrustTypeOK, NEW p \in Peers
  PROVE  trust[p].vector \in -1..4 /\ trust[p].composite \in -1..4 /\ trust[p].tier \in -1..4
<1>1. CASE Known(p)
  BY <1>1, KnownScore DEF Ranks
<1>2. CASE ~Known(p)
  BY <1>2 DEF Known, Unknown
<1>3. QED
  BY <1>1, <1>2

\* A review changes nothing but the tier of the node, and says so.
LEMMA ReviewedScore ==
  ASSUME TrustTypeOK, NEW p \in Peers, NEW approved \in BOOLEAN, NEW countersigned \in BOOLEAN,
         ReviewTrustAppeal(p, approved, countersigned)
  PROVE  \E tier \in Ranks :
           /\ TrustTypeOK'
           /\ trust'[p] = [trust[p] EXCEPT !.tier = tier]
           /\ lifted'[p] = (lifted[p] \/ tier # trust[p].tier)
           /\ tier >= trust[p].tier
           /\ \A q \in Peers \ {p} : trust'[q] = trust[q] /\ lifted'[q] = lifted[q]
<1> DEFINE tier == IF approved THEN Granted(trust[p].tier, countersigned) ELSE trust[p].tier
           new == [trust[p] EXCEPT !.tier = tier]
<1>1. Known(p) /\ trust[p] \in Score /\ trust[p].tier \in Ranks
  BY KnownScore DEF ReviewTrustAppeal, TrustTypeOK
<1>2. tier \in Ranks /\ tier >= trust[p].tier
  <2>1. /\ Granted(trust[p].tier, countersigned) \in Ranks
        /\ Granted(trust[p].tier, countersigned) >= trust[p].tier
    BY <1>1, SMT DEF Granted, Ranks, Expelled, Quarantined, Provisional, Verified
  <2>2. QED
    BY <2>1, <1>1 DEF Ranks
<1>3. /\ trust' = [trust EXCEPT ![p] = new]
      /\ lifted' = [lifted EXCEPT ![p] = lifted[p] \/ tier # trust[p].tier]
  BY DEF ReviewTrustAppeal
<1>4. appeal' = [appeal EXCEPT ![p] = IF approved THEN "APPROVED" ELSE "DENIED"]
  BY DEF ReviewTrustAppeal
<1> HIDE DEF tier
<1>5. new \in Score
  BY <1>1, <1>2 DEF Score
<1>6. new # Unknown
  BY <1>5 DEF Score, Unknown, Ranks
<1> HIDE DEF new
<1>7. trust'[p] = new /\ \A q \in Peers \ {p} : trust'[q] = trust[q]
  BY <1>3 DEF TrustTypeOK
<1>8. /\ lifted'[p] = (lifted[p] \/ tier # trust[p].tier)
      /\ \A q \in Peers \ {p} : lifted'[q] = lifted[q]
  BY <1>3 DEF TrustTypeOK
<1>9. TrustTypeOK'
  <2>1. trust' \in [Peers -> Score \cup {Unknown}]
    BY <1>3, <1>5 DEF TrustTypeOK
  <2>2. appeal' \in [Peers -> {"none", "PENDING", "APPROVED", "DENIED"}]
    BY <1>4 DEF TrustTypeOK
  <2>3. lifted' \in [Peers -> BOOLEAN]
    BY <1>3 DEF TrustTypeOK
  <2>4. \A q \in Peers : appeal'[q] # "none" => Known(q)'
    <3>1. \A q \in Peers \ {p} : appeal'[q] = appeal[q]
      BY <1>4 DEF TrustTypeOK
    <3>2. QED
      BY <3>1, <1>6, <1>7 DEF TrustTypeOK, Known, Unknown
  <2>5. QED
    BY <2>1, <2>2, <2>3, <2>4 DEF TrustTypeOK
<1>10. trust'[p] = [trust[p] EXCEPT !.tier = tier]
  BY <1>7 DEF new
<1>11. QED
  BY <1>2, <1>7, <1>8, <1>9, <1>10

\* How a step treats one record: what holds of it afterwards, and that it does
\* not plunge unless an appeal had lifted it.
Earned(p) ==
  /\ trust[p].composite <= trust[p].vector
  /\ lifted[p] \/ trust[p].tier <= trust[p].composite
NoPlunge(p) == trust[p].tier - trust'[p].tier >= 3 /\ Known(p)' => lifted[p]

\* Each operation keeps the types and what is earned, and plunges no score
\* but a lifted one.
LEMMA TrustStep ==
  ASSUME TrustTypeOK, StandingIsEarned, NEW p \in Peers,
         \/ CreateInitialTrustScore(p)
         \/ UpdateTrustDimension(p)
         \/ ApplyLegacyModePenalty(p)
         \/ PropagateTrustScores(p)
         \/ EnforceLegacyModeCap(p)
         \/ SubmitTrustAppeal(p)
         \/ \E approved, countersigned \in BOOLEAN : ReviewTrustAppeal(p, approved, countersigned)
  PROVE  /\ TrustTypeOK'
         /\ Earned(p)'
         /\ NoPlunge(p)
         /\ \A q \in Peers \ {p} : trust'[q] = trust[q] /\ lifted'[q] = lifted[q]
<1> DEFINE Goal == /\ TrustTypeOK'
                   /\ Earned(p)'
                   /\ NoPlunge(p)
                   /\ \A q \in Peers \ {p} : trust'[q] = trust[q] /\ lifted'[q] = lifted[q]
<1>1. /\ trust[p].composite <= trust[p].vector
      /\ lifted[p] \/ trust[p].tier <= trust[p].composite
  BY DEF StandingIsEarned
<1>2. trust[p].vector \in -1..4 /\ trust[p].composite \in -1..4 /\ trust[p].tier \in -1..4
  BY AnyScore
<1>3. ASSUME NEW rank \in Ranks, Computed(p, rank), rank >= trust[p].vector - 2
      PROVE  Goal
  <2>1. /\ TrustTypeOK'
        /\ trust'[p] = [vector |-> rank, composite |-> rank, tier |-> rank]
        /\ \A q \in Peers \ {p} : trust'[q] = trust[q] /\ lifted'[q] = lifted[q]
    BY <1>3, ComputedScore
  <2>2. Earned(p)'
    BY <2>1 DEF Earned, Ranks
  <2>3. NoPlunge(p)
    BY <1>1, <1>2, <1>3, <2>1 DEF NoPlunge, Ranks
  <2>4. QED
    BY <2>1, <2>2, <2>3
<1> DEFINE Fits(new) ==
      /\ new.composite = trust[p].composite
      /\ new.composite <= new.vector
      /\ new.tier <= trust[p].tier
      /\ new.tier >= trust[p].tier - 2
<1>4. ASSUME NEW new \in Score, Known(p), Fits(new),
             trust' = [trust EXCEPT ![p] = new], UNCHANGED <<appeal, lifted>>
      PROVE  Goal
  <2>1. /\ TrustTypeOK'
        /\ trust'[p] = new
        /\ \A q \in Peers \ {p} : trust'[q] = trust[q]
    BY <1>4, ChangedScore
  <2>2. new.tier \in Ranks /\ new.composite \in Ranks /\ new.vector \in Ranks
    BY DEF Score
  <2>3. Earned(p)'
    BY <1>1, <1>2, <1>4, <2>1, <2>2 DEF Earned, Ranks
  <2>4. NoPlunge(p)
    BY <1>2, <1>4, <2>1, <2>2 DEF NoPlunge, Ranks
  <2>5. QED
    BY <1>4, <2>1, <2>3, <2>4
<1>5. CASE CreateInitialTrustScore(p)
  <2>1. CASE Known(p)
    <3>1. Provisional \in Ranks /\ Provisional >= trust[p].vector - 2
      BY <1>2 DEF Provisional, Ranks
    <3>2. QED
      BY <1>3, <1>5, <3>1 DEF CreateInitialTrustScore
  <2>2. CASE ~Known(p)
    <3>1. Provisional \in Ranks /\ Provisional >= trust[p].vector - 2
      BY <1>2 DEF Provisional, Ranks
    <3>2. QED
      BY <1>3, <1>5, <3>1 DEF CreateInitialTrustScore
  <2>3. QED
    BY <2>1, <2>2
<1>6. CASE UpdateTrustDimension(p)
  <2>1. PICK rank \in Ranks : rank - trust[p].vector \in -2..2 /\ Computed(p, rank)
    BY <1>6 DEF UpdateTrustDimension
  <2>2. rank >= trust[p].vector - 2
    BY <2>1, <1>2 DEF Ranks
  <2>3. QED
    BY <1>3, <2>1, <2>2
<1>7. CASE ApplyLegacyModePenalty(p)
  <2>1. PICK rank \in Ranks : rank - trust[p].vector \in -1..0 /\ Computed(p, rank)
    BY <1>7 DEF ApplyLegacyModePenalty
  <2>2. rank >= trust[p].vector - 2
    BY <2>1, <1>2 DEF Ranks
  <2>3. QED
    BY <1>3, <2>1, <2>2
<1>8. CASE PropagateTrustScores(p)
  <2>1. PICK rank \in Ranks :
          rank - trust[p].vector \in 0..2 /\ trust' = [trust EXCEPT ![p].vector = rank]
    BY <1>8 DEF PropagateTrustScores
  <2> DEFINE new == [trust[p] EXCEPT !.vector = rank]
  <2>2. Known(p) /\ trust[p] \in Score
    BY <1>8, KnownScore DEF PropagateTrustScores
  <2>3. new \in Score
    BY <2>2 DEF Score
  <2>4. new.vector = rank /\ new.composite = trust[p].composite /\ new.tier = trust[p].tier
    BY <2>2 DEF Score
  <2>5. trust' = [trust EXCEPT ![p] = new]
    BY <2>1
  <2>6. UNCHANGED <<appeal, lifted>>
    BY <1>8 DEF PropagateTrustScores
  <2> HIDE DEF new
  <2>7. new.composite <= new.vector
    BY <1>1, <1>2, <2>1, <2>4 DEF Ranks
  <2>8. Fits(new)
    BY <1>2, <2>4, <2>7
  <2> HIDE DEF Fits
  <2>9. QED
    BY <1>4, <2>2, <2>3, <2>5, <2>6, <2>8
<1>9. CASE EnforceLegacyModeCap(p)
  <2> DEFINE new == [trust[p] EXCEPT !.tier = Provisional]
  <2>1. Known(p) /\ trust[p] \in Score
    BY <1>9, KnownScore DEF EnforceLegacyModeCap
  <2>2. new \in Score
    BY <2>1 DEF Score, Provisional, Ranks
  <2>3. new.vector = trust[p].vector /\ new.composite = trust[p].composite /\ new.tier = Provisional
    BY <2>1 DEF Score
  <2>4. trust' = [trust EXCEPT ![p] = new] /\ UNCHANGED <<appeal, lifted>>
    BY <1>9 DEF EnforceLegacyModeCap
  <2>5. new.tier <= trust[p].tier /\ new.tier >= trust[p].tier - 2
    BY <1>2, <1>9, <2>3 DEF EnforceLegacyModeCap, Provisional, Verified
  <2>6. new.composite <= new.vector
    BY <1>1, <2>3
  <2>7. Fits(new)
    BY <2>3, <2>5, <2>6
  <2> HIDE DEF new, Fits
  <2>8. QED
    BY <1>4, <2>1, <2>2, <2>4, <2>7
<1>10. CASE SubmitTrustAppeal(p)
  <2>1. appeal' = [appeal EXCEPT ![p] = "PENDING"] /\ UNCHANGED <<trust, lifted>> /\ Known(p)
    BY <1>10 DEF SubmitTrustAppeal
  <2>2. TrustTypeOK'
    BY <2>1 DEF TrustTypeOK, Known
  <2>3. Earned(p)' /\ NoPlunge(p)
    BY <1>1, <1>2, <2>1 DEF Earned, NoPlunge
  <2>4. QED
    BY <2>1, <2>2, <2>3
<1>11. ASSUME NEW approved \in BOOLEAN, NEW countersigned \in BOOLEAN,
              ReviewTrustAppeal(p, approved, countersigned)
       PROVE  Goal
  <2>1. PICK tier \in Ranks :
          /\ TrustTypeOK'
          /\ trust'[p] = [trust[p] EXCEPT !.tier = tier]
          /\ lifted'[p] = (lifted[p] \/ tier # trust[p].tier)
          /\ tier >= trust[p].tier
          /\ \A q \in Peers \ {p} : trust'[q] = trust[q] /\ lifted'[q] = lifted[q]
    BY <1>11, ReviewedScore
  <2>2. trust[p] \in Score
    BY <1>11, KnownScore DEF ReviewTrustAppeal, TrustTypeOK
  <2>3. /\ trust'[p].vector = trust[p].vector
        /\ trust'[p].composite = trust[p].composite
        /\ trust'[p].tier = tier
    BY <2>1, <2>2 DEF Score
  <2>4. Earned(p)'
    BY <1>1, <2>1, <2>3 DEF Earned
  <2>5. NoPlunge(p)
    BY <1>2, <2>1, <2>3 DEF NoPlunge, Ranks
  <2>6. QED
    BY <2>1, <2>4, <2>5
<1>12. QED
  BY <1>5, <1>6, <1>7, <1>8, <1>9, <1>10, <1>11

\* The same for any step.
LEMMA TrustNextStep ==
  ASSUME TrustTypeOK, StandingIsEarned, [TrustNext]_trustVars
  PROVE  TrustTypeOK' /\ StandingIsEarned' /\ \A q \in Peers : NoPlunge(q)
<1>1. CASE UNCHANGED trustVars
  <2>1. TrustTypeOK' /\ StandingIsEarned'
    BY <1>1 DEF trustVars, TrustTypeOK, StandingIsEarned, Known
  <2>2. ASSUME NEW q \in Peers PROVE NoPlunge(q)
    BY <1>1, AnyScore DEF trustVars, NoPlunge
  <2>3. QED
    BY <2>1, <2>2
<1>2. CASE TrustNext /\ ~ResetFTSS
  <2>1. PICK p \in Peers :
          /\ TrustTypeOK'
          /\ Earned(p)'
          /\ NoPlunge(p)
          /\ \A q \in Peers \ {p} : trust'[q] = trust[q] /\ lifted'[q] = lifted[q]
    BY <1>2, TrustStep DEF TrustNext
  <2>2. ASSUME NEW q \in Peers, q # p PROVE Earned(q)' /\ NoPlunge(q)
    <3>1. trust'[q] = trust[q] /\ lifted'[q] = lifted[q]
      BY <2>1, <2>2
    <3>2. Earned(q)'
      BY <3>1 DEF StandingIsEarned, Earned
    <3>3. NoPlunge(q)
      BY <3>1, AnyScore DEF NoPlunge
    <3>4. QED
      BY <3>2, <3>3
  <2>3. \A q \in Peers : Earned(q)' /\ NoPlunge(q)
    BY <2>1, <2>2
  <2>4. StandingIsEarned'
    BY <2>3 DEF StandingIsEarned, Earned
  <2>5. QED
    BY <2>1, <2>3, <2>4
<1>3. CASE ResetFTSS
  <2>1. TrustTypeOK' /\ StandingIsEarned'
    BY <1>3 DEF ResetFTSS, TrustTypeOK, StandingIsEarned, Unknown
  <2>2. \A q \in Peers : ~Known(q)'
    BY <1>3 DEF ResetFTSS, Known
  <2>3. QED
    BY <2>1, <2>2 DEF NoPlunge
<1>4. QED
  BY <1>1, <1>2, <1>3

LEMMA TrustInitially == TrustInit => TrustTypeOK /\ StandingIsEarned
<1> SUFFICES ASSUME TrustInit PROVE TrustTypeOK /\ StandingIsEarned
  OBVIOUS
<1>1. TrustTypeOK
  BY DEF TrustInit, TrustTypeOK
<1>2. StandingIsEarned
  BY DEF TrustInit, StandingIsEarned, Unknown
<1>3. QED
  BY <1>1, <1>2

\* Whatever is updated, propagated, capped and appealed, no tier stands above
\* what the score earns, unless an appeal gave it.
THEOREM TiersAreEarned == TrustSpec => [](TrustTypeOK /\ StandingIsEarned)
<1>1. TrustTypeOK /\ StandingIsEarned /\ [TrustNext]_trustVars
        => TrustTypeOK' /\ StandingIsEarned'
  BY TrustNextStep
<1>2. QED
  BY TrustInitially, <1>1, PTL DEF TrustSpec

\* Only a node that an appeal had lifted ever loses three tiers in one event.
THEOREM OnlyAppealsPlunge == TrustSpec => PlungeIsAppealed
<1>1. TrustTypeOK /\ StandingIsEarned /\ [TrustNext]_trustVars
        => [\A p \in Peers :
              trust[p].tier - trust'[p].tier >= 3 /\ Known(p)' => lifted[p]]_trustVars
  BY TrustNextStep DEF NoPlunge
<1>2. QED
  BY TiersAreEarned, <1>1, PTL DEF TrustSpec, PlungeIsAppealed

----------------------------------------------------------------------------
(* The requests that choose a model. *)

\* Where a request is agrees with how often it was resumed.
Positioned ==
  /\ \A i \in 1..Len(microtasks) : request[microtasks[i]].at = "selecting"
  /\ \A r \in Requests :
       /\ request[r].at = "new" => hop[r] = 0
       /\ request[r].at = "selecting" => \E i \in 1..Len(microtasks) : microtasks[i] = r
       /\ request[r].at \in {"asking", "answered"} => hop[r] = 3

\* Of two requests, resumed h and k times, the first came first and has the older
\* record, or the second did and is ahead.
Older(h, o, k, s) ==
  /\ h >= k /\ k > 0 => o < s
  /\ h < k /\ h > 0 => s < o

\* The queue is fair: a request is ahead of one that came later by a resumption,
\* or is next in turn, and has the older record.
InTurn ==
  \A i, j \in 1..Len(microtasks) :
    i < j => /\ microtasks[i] # microtasks[j]
             /\ Older(hop[microtasks[i]], own[microtasks[i]],
                      hop[microtasks[j]], own[microtasks[j]])

\* The variable has the newest of the records of those who set it, and all
\* others will set it to a newer one.
Newest ==
  /\ lastModelSelectionReceipt <= selections
  /\ \A r \in Requests :
       /\ own[r] <= selections
       /\ hop[r] > 0 => own[r] > 0
       /\ hop[r] = 1 => own[r] > lastModelSelectionReceipt
       /\ hop[r] > 1 => own[r] <= lastModelSelectionReceipt
       /\ request[r].cites # 0 => hop[r] = 3
       /\ request[r].cites # 0 =>
            own[r] <= request[r].cites /\ request[r].cites <= lastModelSelectionReceipt

AccessInv == AccessTypeOK /\ Positioned /\ InTurn /\ Newest

LEMMA NewIsTyped == New \in Request
BY AccessAssumption DEF AccessAssumption, New, Request, Endpoints

LEMMA AccessStarts == AccessInit => AccessInv
<1> SUFFICES ASSUME AccessInit PROVE AccessInv
  OBVIOUS
<1>1. microtasks = <<>> /\ Len(microtasks) = 0
  BY DEF AccessInit
<1>2. AccessTypeOK
  BY <1>1, NewIsTyped DEF AccessInit, AccessTypeOK
<1>3. Positioned /\ InTurn
  BY <1>1 DEF AccessInit, Positioned, InTurn, New
<1>4. Newest
  BY DEF AccessInit, Newest, New
<1>5. QED
  BY <1>2, <1>3, <1>4 DEF AccessInv

\* The queue when its head waits again.
LEMMA Rotated ==
  ASSUME NEW S, NEW q \in Seq(S), q # <<>>, NEW p, p = Append(Tail(q), Head(q))
  PROVE  /\ Head(q) = q[1] /\ q[1] \in S
         /\ p \in Seq(S)
         /\ Len(p) = Len(q) /\ Len(q) \in Nat \ {0}
         /\ p[Len(q)] = q[1]
         /\ \A i \in 1..Len(q) : i # Len(q) => i + 1 \in 1..Len(q) /\ p[i] = q[i + 1]
         /\ \A i \in 1..Len(q) : q[i] \in S
<1> DEFINE t == Tail(q)
<1>1. t \in Seq(S) /\ Len(t) = Len(q) - 1 /\ Len(q) \in Nat \ {0} /\ Len(t) \in Nat
  OBVIOUS
<1>2. \A i \in 1..Len(q) - 1 : t[i] = q[i + 1]
  OBVIOUS
<1>3. Head(q) = q[1] /\ q[1] \in S /\ \A i \in 1..Len(q) : q[i] \in S
  BY <1>1
<1>4. p = Append(t, q[1])
  BY <1>3
<1> HIDE DEF t
<1>5. p \in Seq(S) /\ Len(p) = Len(t) + 1 /\ p[Len(t) + 1] = q[1]
  BY <1>1, <1>3, <1>4
<1>6. \A i \in 1..Len(t) : p[i] = t[i]
  BY <1>1, <1>3, <1>4
<1>7. Len(p) = Len(q) /\ p[Len(q)] = q[1]
  BY <1>1, <1>5
<1>8. ASSUME NEW i \in 1..Len(q), i # Len(q) PROVE i + 1 \in 1..Len(q) /\ p[i] = q[i + 1]
  <2>1. i \in 1..Len(t) /\ i \in 1..Len(q) - 1 /\ i + 1 \in 1..Len(q)
    BY <1>1, <1>8
  <2>2. QED
    BY <1>2, <1>6, <2>1
<1>9. QED
  BY <1>1, <1>3, <1>5, <1>7, <1>8

\* A resumption after which the request waits again.
LEMMA ResumptionPositioned ==
  ASSUME AccessInv, NEW n \in 0..2, ResumedAgain(n)
  PROVE  Positioned'
<1> DEFINE q == microtasks
<1>1. q \in Seq(Requests) /\ q # <<>> /\ microtasks' = Append(Tail(q), Head(q))
  BY DEF ResumedAgain, AccessInv, AccessTypeOK
<1>2. /\ Head(q) = q[1] /\ q[1] \in Requests
      /\ Len(microtasks') = Len(q) /\ Len(q) \in Nat \ {0}
      /\ microtasks'[Len(q)] = q[1]
      /\ \A i \in 1..Len(q) : i # Len(q) => i + 1 \in 1..Len(q) /\ microtasks'[i] = q[i + 1]
      /\ \A i \in 1..Len(q) : q[i] \in Requests
  BY <1>1, Rotated
<1>3. \A i \in 1..Len(q) : request[microtasks'[i]].at = "selecting"
  <2>1. 1 \in 1..Len(q) /\ \A i \in 1..Len(q) : request[q[i]].at = "selecting"
    BY <1>2 DEF AccessInv, Positioned
  <2>2. QED
    BY <1>2, <2>1
<1>4. ASSUME NEW r \in Requests, request[r].at = "selecting"
      PROVE  \E i \in 1..Len(q) : microtasks'[i] = r
  <2>1. PICK i \in 1..Len(q) : q[i] = r
    BY <1>4 DEF AccessInv, Positioned
  <2>2. CASE i = 1
    BY <1>2, <2>1, <2>2
  <2>3. CASE i # 1
    <3>1. i - 1 \in 1..Len(q) /\ i - 1 # Len(q) /\ (i - 1) + 1 = i
      BY <1>2, <2>3
    <3>2. microtasks'[i - 1] = q[(i - 1) + 1]
      BY <1>2, <3>1
    <3>3. QED
      BY <2>1, <3>1, <3>2
  <2>4. QED
    BY <2>2, <2>3
<1>5. /\ hop' = [hop EXCEPT ![q[1]] = n + 1] /\ UNCHANGED request
      /\ hop \in [Requests -> 0..3] /\ request[q[1]].at = "selecting"
  <2>1. hop \in [Requests -> 0..3] /\ \A i \in 1..Len(q) : request[q[i]].at = "selecting"
    BY DEF AccessInv, AccessTypeOK, Positioned
  <2>2. hop' = [hop EXCEPT ![Head(q)] = n + 1] /\ UNCHANGED request
    BY DEF ResumedAgain
  <2>3. 1 \in 1..Len(q)
    BY <1>2
  <2>4. QED
    BY <1>2, <2>1, <2>2, <2>3
<1>6. QED
  BY <1>2, <1>3, <1>4, <1>5 DEF AccessInv, Positioned

\* It stays in turn, provided that a record made by it is the newest one.
LEMMA ResumptionInTurn ==
  ASSUME AccessInv, NEW n \in 0..2, ResumedAgain(n),
         own' \in [Requests -> Nat],
         \A r \in Requests : r # Head(microtasks) => own'[r] = own[r],
         n = 0 => own'[Head(microtasks)] = selections + 1,
         n # 0 => own'[Head(microtasks)] = own[Head(microtasks)]
  PROVE  InTurn'
<1> DEFINE q == microtasks
           p == microtasks'
<1>1. q \in Seq(Requests) /\ q # <<>> /\ p = Append(Tail(q), Head(q))
  BY DEF ResumedAgain, AccessInv, AccessTypeOK
<1>2. /\ Head(q) = q[1] /\ q[1] \in Requests
      /\ Len(p) = Len(q) /\ Len(q) \in Nat \ {0}
      /\ p[Len(q)] = q[1]
      /\ \A i \in 1..Len(q) : i # Len(q) => i + 1 \in 1..Len(q) /\ p[i] = q[i + 1]
      /\ \A i \in 1..Len(q) : q[i] \in Requests
  BY <1>1, Rotated
<1>3. /\ hop \in [Requests -> 0..3] /\ hop[q[1]] = n /\ hop' = [hop EXCEPT ![q[1]] = n + 1]
      /\ own \in [Requests -> Nat] /\ selections \in Nat
  <2>1. hop \in [Requests -> 0..3] /\ own \in [Requests -> Nat] /\ selections \in Nat
    BY DEF AccessInv, AccessTypeOK
  <2>2. hop[Head(q)] = n /\ hop' = [hop EXCEPT ![Head(q)] = n + 1]
    BY DEF ResumedAgain
  <2>3. QED
    BY <1>2, <2>1, <2>2
<1>4. \A r \in Requests : own[r] <= selections
  BY DEF AccessInv, Newest
<1>5. \A i, j \in 1..Len(q) :
        i < j => q[i] # q[j] /\ Older(hop[q[i]], own[q[i]], hop[q[j]], own[q[j]])
  BY DEF AccessInv, InTurn
<1>6. \A i \in 1..Len(q) :
        1 < i => /\ q[1] # q[i] /\ q[i] \in Requests
                 /\ hop'[q[i]] = hop[q[i]] /\ own'[q[i]] = own[q[i]]
  BY <1>2, <1>3, <1>5
<1> SUFFICES ASSUME NEW i \in 1..Len(q), NEW j \in 1..Len(q), i < j
    PROVE  p[i] # p[j] /\ Older(hop'[p[i]], own'[p[i]], hop'[p[j]], own'[p[j]])
  BY <1>2 DEF InTurn
<1>7. i # Len(q) /\ i + 1 \in 1..Len(q) /\ p[i] = q[i + 1] /\ 1 < i + 1
  BY <1>2
<1>8. CASE j = Len(q)
  <2>1. p[j] = q[1] /\ 1 \in 1..Len(q)
    BY <1>2, <1>8
  <2>2. Older(n, own[q[1]], hop[q[i + 1]], own[q[i + 1]])
    BY <1>3, <1>5, <1>7, <2>1
  <2>3. /\ hop[q[i + 1]] \in 0..3 /\ own[q[i + 1]] \in Nat /\ own[q[1]] \in Nat
        /\ own'[q[1]] \in Nat /\ own[q[i + 1]] <= selections /\ hop'[q[1]] = n + 1
    BY <1>2, <1>3, <1>4, <1>6, <1>7
  <2>4. (n = 0 => own'[q[1]] > own[q[i + 1]]) /\ (n # 0 => own'[q[1]] = own[q[1]])
    <3>1. Head(microtasks) = q[1]
      BY <1>2
    <3>2. (n = 0 => own'[q[1]] = selections + 1) /\ (n # 0 => own'[q[1]] = own[q[1]])
      BY <3>1, Zenon
    <3>3. selections \in Nat /\ own[q[i + 1]] \in Nat /\ own[q[i + 1]] <= selections
      BY <1>3, <2>3
    <3>4. QED
      BY <3>2, <3>3
  <2>5. Older(hop[q[i + 1]], own[q[i + 1]], n + 1, own'[q[1]])
    BY <2>2, <2>3, <2>4 DEF Older
  <2>6. QED
    BY <1>6, <1>7, <2>1, <2>3, <2>5, p[i] = q[i + 1], p[j] = q[1]
<1>9. CASE j # Len(q)
  <2>1. /\ j + 1 \in 1..Len(q) /\ p[j] = q[j + 1]
        /\ i + 1 < j + 1 /\ 1 < j + 1
    <3>1. j + 1 \in 1..Len(q) /\ p[j] = q[j + 1]
      BY <1>2, <1>9
    <3>2. i \in Nat /\ j \in Nat /\ 1 <= i /\ i < j
      BY <1>2
    <3>3. QED
      BY <3>1, <3>2
  <2>2. /\ q[i + 1] # q[j + 1]
        /\ Older(hop[q[i + 1]], own[q[i + 1]], hop[q[j + 1]], own[q[j + 1]])
    BY <1>5, <1>7, <2>1
  <2>3. /\ hop'[q[i + 1]] = hop[q[i + 1]] /\ own'[q[i + 1]] = own[q[i + 1]]
        /\ hop'[q[j + 1]] = hop[q[j + 1]] /\ own'[q[j + 1]] = own[q[j + 1]]
    BY <1>6, <1>7, <2>1
  <2>4. QED
    BY <1>7, <2>1, <2>2, <2>3
<1>10. QED
  BY <1>8, <1>9

LEMMA ResumptionTyped ==
  ASSUME AccessInv, NEW n \in 0..2, ResumedAgain(n)
  PROVE  /\ microtasks' \in Seq(Requests) /\ hop' \in [Requests -> 0..3]
         /\ request' = request
         /\ Head(microtasks) \in Requests /\ hop[Head(microtasks)] = n
         /\ hop' = [hop EXCEPT ![Head(microtasks)] = n + 1]
         /\ request[Head(microtasks)].at = "selecting"
<1>1. /\ microtasks \in Seq(Requests) /\ microtasks # <<>>
      /\ microtasks' = Append(Tail(microtasks), Head(microtasks))
  BY DEF ResumedAgain, AccessInv, AccessTypeOK
<1>2. /\ Head(microtasks) \in Requests /\ microtasks' \in Seq(Requests)
      /\ Head(microtasks) = microtasks[1] /\ 1 \in 1..Len(microtasks)
  BY <1>1, Rotated
<1>3. \A i \in 1..Len(microtasks) : request[microtasks[i]].at = "selecting"
  BY DEF AccessInv, Positioned
<1>4. QED
  BY <1>2, <1>3 DEF ResumedAgain, AccessInv, AccessTypeOK

\* Of the requests whose record is made and not yet set, the next in turn has the
\* oldest.
LEMMA NextIsOldest ==
  ASSUME AccessInv, microtasks # <<>>, hop[Head(microtasks)] = 1,
         NEW r \in Requests, hop[r] = 1, r # Head(microtasks)
  PROVE  own[Head(microtasks)] < own[r]
<1>1. microtasks \in Seq(Requests) /\ Head(microtasks) = microtasks[1] /\ 1 \in 1..Len(microtasks)
  BY Rotated DEF AccessInv, AccessTypeOK
<1>2. request[r].at = "selecting"
  <2>1. request[r].at \in {"new", "selecting", "asking", "answered"}
    BY DEF AccessInv, AccessTypeOK, Request
  <2>2. QED
    BY <2>1 DEF AccessInv, Positioned
<1>3. PICK i \in 1..Len(microtasks) : microtasks[i] = r
  BY <1>2 DEF AccessInv, Positioned
<1>4. 1 < i
  BY <1>1, <1>3
<1>5. Older(hop[microtasks[1]], own[microtasks[1]], hop[microtasks[i]], own[microtasks[i]])
  BY <1>1, <1>4 DEF AccessInv, InTurn
<1>6. QED
  BY <1>1, <1>3, <1>5 DEF Older

LEMMA RecordStep == ASSUME AccessInv, RecordSelection PROVE AccessInv'
<1> DEFINE h == Head(microtasks)
<1>1. ResumedAgain(0)
  BY DEF RecordSelection
<1>2. /\ microtasks' \in Seq(Requests) /\ hop' \in [Requests -> 0..3]
      /\ request' = request
      /\ h \in Requests /\ hop[h] = 0 /\ hop' = [hop EXCEPT ![h] = 1]
      /\ request[h].at = "selecting"
  BY <1>1, ResumptionTyped
<1>3. /\ own \in [Requests -> Nat] /\ selections \in Nat /\ lastModelSelectionReceipt \in Nat
      /\ own' = [own EXCEPT ![h] = selections + 1] /\ selections' = selections + 1
      /\ UNCHANGED lastModelSelectionReceipt /\ hop \in [Requests -> 0..3]
  BY DEF RecordSelection, AccessInv, AccessTypeOK
<1>4. AccessTypeOK'
  BY <1>2, <1>3 DEF AccessInv, AccessTypeOK
<1>5. Positioned'
  BY <1>1, ResumptionPositioned
<1>6. InTurn'
  BY <1>1, <1>2, <1>3, ResumptionInTurn
<1>7. Newest'
  <2>1. lastModelSelectionReceipt' <= selections'
    BY <1>3 DEF AccessInv, Newest
  <2>2. ASSUME NEW r \in Requests
        PROVE  /\ own'[r] <= selections'
               /\ hop'[r] > 0 => own'[r] > 0
               /\ hop'[r] = 1 => own'[r] > lastModelSelectionReceipt'
               /\ hop'[r] > 1 => own'[r] <= lastModelSelectionReceipt'
               /\ request'[r].cites # 0 => hop'[r] = 3
               /\ request'[r].cites # 0 =>
                    own'[r] <= request'[r].cites /\ request'[r].cites <= lastModelSelectionReceipt'
    <3>1. /\ lastModelSelectionReceipt <= selections /\ own[r] <= selections
          /\ hop[r] > 0 => own[r] > 0
          /\ hop[r] = 1 => own[r] > lastModelSelectionReceipt
          /\ hop[r] > 1 => own[r] <= lastModelSelectionReceipt
          /\ request[r].cites # 0 => hop[r] = 3
          /\ request[r].cites # 0 =>
               own[r] <= request[r].cites /\ request[r].cites <= lastModelSelectionReceipt
      BY DEF AccessInv, Newest
    <3>2. CASE r = h
      BY <1>2, <1>3, <3>1, <3>2
    <3>3. CASE r # h
      BY <1>2, <1>3, <3>1, <3>3
    <3>4. QED
      BY <3>2, <3>3
  <2>3. QED
    BY <2>1, <2>2 DEF Newest
<1>8. QED
  BY <1>4, <1>5, <1>6, <1>7 DEF AccessInv

LEMMA EmitStep == ASSUME AccessInv, EmitSelection PROVE AccessInv'
<1> DEFINE h == Head(microtasks)
<1>1. ResumedAgain(1)
  BY DEF EmitSelection
<1>2. /\ microtasks' \in Seq(Requests) /\ hop' \in [Requests -> 0..3]
      /\ request' = request
      /\ h \in Requests /\ hop[h] = 1 /\ hop' = [hop EXCEPT ![h] = 2]
      /\ microtasks # <<>>
  BY <1>1, ResumptionTyped DEF ResumedAgain
<1>3. /\ own \in [Requests -> Nat] /\ selections \in Nat /\ lastModelSelectionReceipt \in Nat
      /\ own' = own /\ selections' = selections
      /\ lastModelSelectionReceipt' = own[h] /\ hop \in [Requests -> 0..3]
  BY DEF EmitSelection, AccessInv, AccessTypeOK
<1>4. AccessTypeOK'
  BY <1>2, <1>3 DEF AccessInv, AccessTypeOK
<1>5. Positioned'
  BY <1>1, ResumptionPositioned
<1>6. InTurn'
  BY <1>1, <1>2, <1>3, ResumptionInTurn
<1>7. Newest'
  <2>1. own[h] <= selections /\ own[h] > lastModelSelectionReceipt
    BY <1>2 DEF AccessInv, Newest
  <2>2. ASSUME NEW r \in Requests
        PROVE  /\ own'[r] <= selections'
               /\ hop'[r] > 0 => own'[r] > 0
               /\ hop'[r] = 1 => own'[r] > lastModelSelectionReceipt'
               /\ hop'[r] > 1 => own'[r] <= lastModelSelectionReceipt'
               /\ request'[r].cites # 0 => hop'[r] = 3
               /\ request'[r].cites # 0 =>
                    own'[r] <= request'[r].cites /\ request'[r].cites <= lastModelSelectionReceipt'
    <3>1. /\ own[r] <= selections /\ own[r] \in Nat
          /\ hop[r] > 0 => own[r] > 0
          /\ hop[r] > 1 => own[r] <= lastModelSelectionReceipt
          /\ request[r].cites # 0 => hop[r] = 3
          /\ request[r].cites # 0 =>
               own[r] <= request[r].cites /\ request[r].cites <= lastModelSelectionReceipt
      BY <1>3 DEF AccessInv, Newest
    <3>2. request[r].cites \in Nat
      BY DEF AccessInv, AccessTypeOK, Request
    <3>3. CASE r = h
      BY <1>2, <1>3, <2>1, <3>1, <3>2, <3>3
    <3>4. CASE r # h
      <4>1. hop'[r] = hop[r] /\ (hop[r] = 1 => own[h] < own[r])
        BY <1>2, <3>4, NextIsOldest
      <4>2. QED
        BY <1>2, <1>3, <2>1, <3>1, <3>2, <4>1
    <3>5. QED
      BY <3>3, <3>4
  <2>3. QED
    BY <1>3, <2>1, <2>2 DEF Newest
<1>8. QED
  BY <1>4, <1>5, <1>6, <1>7 DEF AccessInv

LEMMA ReturnStep == ASSUME AccessInv, ReturnConfig PROVE AccessInv'
<1> DEFINE h == Head(microtasks)
<1>1. ResumedAgain(2)
  BY DEF ReturnConfig
<1>2. /\ microtasks' \in Seq(Requests) /\ hop' \in [Requests -> 0..3]
      /\ request' = request
      /\ h \in Requests /\ hop[h] = 2 /\ hop' = [hop EXCEPT ![h] = 3]
  BY <1>1, ResumptionTyped
<1>3. /\ own \in [Requests -> Nat] /\ hop \in [Requests -> 0..3]
      /\ UNCHANGED <<own, selections, lastModelSelectionReceipt>>
  BY DEF ReturnConfig, AccessInv, AccessTypeOK
<1>4. AccessTypeOK'
  BY <1>2, <1>3 DEF AccessInv, AccessTypeOK
<1>5. Positioned'
  BY <1>1, ResumptionPositioned
<1>6. InTurn'
  BY <1>1, <1>2, <1>3, ResumptionInTurn
<1>7. \A r \in Requests : hop'[r] = hop[r] \/ (hop[r] = 2 /\ hop'[r] = 3)
  BY <1>2, <1>3
<1>8. Newest'
  BY <1>2, <1>3, <1>7 DEF AccessInv, Newest
<1>9. QED
  BY <1>4, <1>5, <1>6, <1>8 DEF AccessInv

LEMMA SelectStep ==
  ASSUME AccessInv, NEW r \in Requests, NEW endpoint \in Endpoints, SelectModel(r, endpoint)
  PROVE  AccessInv'
<1> DEFINE q == microtasks
           p == microtasks'
<1>1. /\ q \in Seq(Requests) /\ hop \in [Requests -> 0..3] /\ own \in [Requests -> Nat]
      /\ selections \in Nat /\ lastModelSelectionReceipt \in Nat
      /\ request \in [Requests -> Request]
  BY DEF AccessInv, AccessTypeOK
<1>2. /\ request[r].at = "new" /\ hop[r] = 0 /\ p = Append(q, r)
      /\ request' = [request EXCEPT ![r].at = "selecting", ![r].endpoint = endpoint]
      /\ UNCHANGED <<hop, selections, own, lastModelSelectionReceipt>>
  BY DEF SelectModel, AccessInv, Positioned
<1>3. /\ p \in Seq(Requests) /\ Len(p) = Len(q) + 1 /\ Len(q) \in Nat
      /\ p[Len(q) + 1] = r /\ \A i \in 1..Len(q) : p[i] = q[i] /\ q[i] \in Requests
  BY <1>1, <1>2
<1>4. /\ \A i \in 1..Len(q) : request[q[i]].at = "selecting"
      /\ \A i \in 1..Len(q) : q[i] # r
  BY <1>2 DEF AccessInv, Positioned
<1>5. /\ request' \in [Requests -> Request]
      /\ request'[r].at = "selecting" /\ request'[r].cites = request[r].cites
      /\ \A s \in Requests : s # r => request'[s] = request[s]
  <2>1. request[r] \in Request
    BY <1>1
  <2>2. [request[r] EXCEPT !.at = "selecting", !.endpoint = endpoint] \in Request
    BY <2>1 DEF Request
  <2>3. request' = [request EXCEPT ![r] = [@ EXCEPT !.at = "selecting", !.endpoint = endpoint]]
    BY <1>2
  <2>4. QED
    BY <1>1, <2>1, <2>2, <2>3 DEF Request
<1>6. AccessTypeOK'
  BY <1>1, <1>2, <1>3, <1>5 DEF AccessTypeOK
<1>7. Positioned'
  <2>1. \A i \in 1..Len(p) : request'[p[i]].at = "selecting"
    <3>1. TAKE i \in 1..Len(p)
    <3>2. CASE i = Len(q) + 1
      BY <1>3, <1>5, <3>2
    <3>3. CASE i # Len(q) + 1
      <4>1. i \in 1..Len(q)
        BY <1>3, <3>3
      <4>2. p[i] = q[i] /\ q[i] # r /\ q[i] \in Requests /\ request[q[i]].at = "selecting"
        BY <1>3, <1>4, <4>1
      <4>3. QED
        BY <1>5, <4>2
    <3>4. QED
      BY <3>2, <3>3
  <2>2. ASSUME NEW s \in Requests
        PROVE  /\ request'[s].at = "new" => hop'[s] = 0
               /\ request'[s].at = "selecting" => \E i \in 1..Len(p) : p[i] = s
               /\ request'[s].at \in {"asking", "answered"} => hop'[s] = 3
    <3>1. CASE s = r
      <4>1. Len(q) + 1 \in 1..Len(p)
        BY <1>3
      <4>2. QED
        BY <1>3, <1>5, <3>1, <4>1
    <3>2. CASE s # r
      <4>1. request'[s] = request[s] /\ hop'[s] = hop[s]
        BY <1>2, <1>5, <3>2
      <4>2. 1..Len(q) \subseteq 1..Len(p)
        BY <1>3
      <4>3. request[s].at = "selecting" => \E i \in 1..Len(q) : q[i] = s
        BY DEF AccessInv, Positioned
      <4>4. request[s].at = "selecting" => \E i \in 1..Len(p) : p[i] = s
        BY <1>3, <4>2, <4>3
      <4>5. QED
        BY <4>1, <4>4 DEF AccessInv, Positioned
    <3>3. QED
      BY <3>1, <3>2
  <2>3. QED
    BY <2>1, <2>2 DEF Positioned
<1>8. InTurn'
  <2> SUFFICES ASSUME NEW i \in 1..Len(p), NEW j \in 1..Len(p), i < j
      PROVE  p[i] # p[j] /\ Older(hop[p[i]], own[p[i]], hop[p[j]], own[p[j]])
    BY <1>2 DEF InTurn
  <2>1. i \in 1..Len(q)
    BY <1>3
  <2>2. CASE j = Len(q) + 1
    <3>1. p[i] # r /\ p[j] = r /\ hop[p[i]] \in 0..3
      BY <1>1, <1>3, <1>4, <2>1, <2>2
    <3>2. QED
      BY <1>2, <3>1 DEF Older
  <2>3. CASE j # Len(q) + 1
    <3>1. j \in 1..Len(q)
      BY <1>3, <2>3
    <3>2. q[i] # q[j] /\ Older(hop[q[i]], own[q[i]], hop[q[j]], own[q[j]])
      BY <2>1, <3>1 DEF AccessInv, InTurn
    <3>3. QED
      BY <1>3, <2>1, <3>1, <3>2
  <2>4. QED
    BY <2>2, <2>3
<1>9. \A s \in Requests : request'[s].cites = request[s].cites
  BY <1>5
<1>10. Newest'
  BY <1>2, <1>9 DEF AccessInv, Newest
<1>11. QED
  BY <1>6, <1>7, <1>8, <1>10 DEF AccessInv

LEMMA TakeStep == ASSUME AccessInv, TakeConfig PROVE AccessInv'
<1> DEFINE q == microtasks
           p == microtasks'
           h == Head(microtasks)
           at == IF request[h].endpoint = "select" THEN "answered" ELSE "asking"
           cites == IF request[h].endpoint = "complete" THEN 0 ELSE lastModelSelectionReceipt
<1>1. /\ q \in Seq(Requests) /\ hop \in [Requests -> 0..3] /\ own \in [Requests -> Nat]
      /\ selections \in Nat /\ lastModelSelectionReceipt \in Nat
      /\ request \in [Requests -> Request]
  BY DEF AccessInv, AccessTypeOK
<1>2. /\ q # <<>> /\ hop[h] = 3 /\ p = Tail(q)
      /\ request' = [request EXCEPT ![h].at = at, ![h].cites = cites]
      /\ UNCHANGED <<hop, selections, own, lastModelSelectionReceipt>>
  BY DEF TakeConfig
<1>3. /\ p \in Seq(Requests) /\ Len(p) = Len(q) - 1 /\ Len(q) \in Nat \ {0}
      /\ h = q[1] /\ h \in Requests
      /\ \A i \in 1..Len(p) : p[i] = q[i + 1] /\ i + 1 \in 1..Len(q) /\ 1 < i + 1
      /\ \A i \in 1..Len(q) : q[i] \in Requests
  BY <1>1, <1>2
<1>4. \A i, j \in 1..Len(q) :
        i < j => q[i] # q[j] /\ Older(hop[q[i]], own[q[i]], hop[q[j]], own[q[j]])
  BY DEF AccessInv, InTurn
<1>5. \A i \in 1..Len(p) : p[i] # h
  BY <1>3, <1>4
<1>6. /\ request' \in [Requests -> Request]
      /\ request'[h].at \in {"asking", "answered"}
      /\ request'[h].cites \in {0, lastModelSelectionReceipt}
      /\ \A s \in Requests : s # h => request'[s] = request[s]
  <2>1. request[h] \in Request
    BY <1>1, <1>3
  <2>2. at \in {"asking", "answered"} /\ cites \in {0, lastModelSelectionReceipt} /\ cites \in Nat
    BY <1>1
  <2> HIDE DEF at, cites
  <2>3. [request[h] EXCEPT !.at = at, !.cites = cites] \in Request
    BY <2>1, <2>2 DEF Request
  <2>4. request' = [request EXCEPT ![h] = [@ EXCEPT !.at = at, !.cites = cites]]
    BY <1>2
  <2>5. [request[h] EXCEPT !.at = at, !.cites = cites].at = at
        /\ [request[h] EXCEPT !.at = at, !.cites = cites].cites = cites
    BY <2>1 DEF Request
  <2>6. QED
    BY <1>1, <1>3, <2>2, <2>3, <2>4, <2>5
<1>7. AccessTypeOK'
  BY <1>1, <1>2, <1>3, <1>6 DEF AccessTypeOK
<1>8. Positioned'
  <2>1. \A i \in 1..Len(q) : request[q[i]].at = "selecting"
    BY DEF AccessInv, Positioned
  <2>2. \A i \in 1..Len(p) : request'[p[i]].at = "selecting"
    BY <1>3, <1>5, <1>6, <2>1
  <2>3. ASSUME NEW s \in Requests
        PROVE  /\ request'[s].at = "new" => hop'[s] = 0
               /\ request'[s].at = "selecting" => \E i \in 1..Len(p) : p[i] = s
               /\ request'[s].at \in {"asking", "answered"} => hop'[s] = 3
    <3>1. CASE s = h
      BY <1>2, <1>6, <3>1
    <3>2. CASE s # h
      <4>1. request'[s] = request[s] /\ hop'[s] = hop[s]
        BY <1>2, <1>6, <3>2
      <4>2. ASSUME request[s].at = "selecting" PROVE \E i \in 1..Len(p) : p[i] = s
        <5>1. PICK i \in 1..Len(q) : q[i] = s
          BY <4>2 DEF AccessInv, Positioned
        <5>2. i # 1
          BY <1>3, <3>2, <5>1
        <5>3. i - 1 \in 1..Len(p) /\ (i - 1) + 1 = i
          BY <1>3, <5>2
        <5>4. p[i - 1] = q[(i - 1) + 1]
          BY <1>3, <5>3
        <5>5. QED
          BY <5>1, <5>3, <5>4
      <4>3. QED
        BY <4>1, <4>2 DEF AccessInv, Positioned
    <3>3. QED
      BY <3>1, <3>2
  <2>4. QED
    BY <2>2, <2>3 DEF Positioned
<1>9. InTurn'
  <2> SUFFICES ASSUME NEW i \in 1..Len(p), NEW j \in 1..Len(p), i < j
      PROVE  p[i] # p[j] /\ Older(hop[p[i]], own[p[i]], hop[p[j]], own[p[j]])
    BY <1>2 DEF InTurn
  <2>1. /\ p[i] = q[i + 1] /\ i + 1 \in 1..Len(q)
        /\ p[j] = q[j + 1] /\ j + 1 \in 1..Len(q) /\ i + 1 < j + 1
    BY <1>3
  <2>2. QED
    BY <1>4, <2>1
<1>10. Newest'
  <2>1. \A s \in Requests : s # h => request'[s].cites = request[s].cites
    BY <1>6
  <2>2. own[h] <= lastModelSelectionReceipt
    BY <1>2, <1>3 DEF AccessInv, Newest
  <2>3. QED
    BY <1>1, <1>2, <1>3, <1>6, <2>1, <2>2 DEF AccessInv, Newest
<1>11. QED
  BY <1>7, <1>8, <1>9, <1>10 DEF AccessInv

\* What concerns one request that is past selectModel leaves the queue alone.
LEMMA AskingStep ==
  ASSUME AccessInv, NEW r \in Requests, request[r].at = "asking",
         request' \in [Requests -> Request],
         \A s \in Requests : s # r => request'[s] = request[s],
         request'[r].at \in {"asking", "answered"},
         request'[r].cites \in {0, request[r].cites, lastModelSelectionReceipt},
         UNCHANGED <<microtasks, hop, selections, own, lastModelSelectionReceipt>>
  PROVE  AccessInv'
<1>1. hop[r] = 3 /\ own[r] <= lastModelSelectionReceipt
  BY DEF AccessInv, AccessTypeOK, Positioned, Newest
<1>2. AccessTypeOK'
  BY DEF AccessInv, AccessTypeOK
<1>3. \A i \in 1..Len(microtasks) : microtasks[i] # r /\ microtasks[i] \in Requests
  BY DEF AccessInv, AccessTypeOK, Positioned
<1>4. Positioned'
  BY <1>1, <1>3 DEF AccessInv, Positioned
<1>5. InTurn'
  BY DEF AccessInv, InTurn
<1>6. lastModelSelectionReceipt \in Nat
  BY DEF AccessInv, AccessTypeOK
<1>7. Newest'
  BY <1>1, <1>6 DEF AccessInv, Newest
<1>8. QED
  BY <1>2, <1>4, <1>5, <1>7 DEF AccessInv

LEMMA AnswerStep ==
  ASSUME AccessInv, NEW r \in Requests,
         NEW cites \in {0, request[r].cites, lastModelSelectionReceipt}, Answer(r, cites)
  PROVE  AccessInv'
<1>1. request[r].at = "asking" /\ request[r] \in Request /\ cites \in Nat
  BY DEF Answer, AccessInv, AccessTypeOK, Request
<1>2. [request[r] EXCEPT !.at = "answered", !.cites = cites] \in Request
      /\ [request[r] EXCEPT !.at = "answered", !.cites = cites].at = "answered"
      /\ [request[r] EXCEPT !.at = "answered", !.cites = cites].cites = cites
  BY <1>1 DEF Request
<1>3. request' = [request EXCEPT ![r] = [@ EXCEPT !.at = "answered", !.cites = cites]]
      /\ request \in [Requests -> Request]
      /\ UNCHANGED <<microtasks, hop, selections, own, lastModelSelectionReceipt>>
  BY DEF Answer, AccessInv, AccessTypeOK
<1>4. QED
  BY <1>1, <1>2, <1>3, AskingStep

LEMMA RetryStep ==
  ASSUME AccessInv, NEW r \in Requests,
         NEW prompt \in {"continue", "fill"}, NEW tries \in 0..MaxRetries - 1,
         request[r].at = "asking",
         request' = [request EXCEPT ![r].prompt = prompt, ![r].tries = tries],
         UNCHANGED <<microtasks, hop, selections, own, lastModelSelectionReceipt>>
  PROVE  AccessInv'
<1> DEFINE new == [request[r] EXCEPT !.prompt = prompt, !.tries = tries]
<1>1. request[r] \in Request /\ request \in [Requests -> Request]
  BY DEF AccessInv, AccessTypeOK
<1>2. new \in Request /\ new.at = "asking" /\ new.cites = request[r].cites
  BY <1>1 DEF Request
<1>3. request' = [request EXCEPT ![r] = new]
  OBVIOUS
<1>4. QED
  BY <1>1, <1>2, <1>3, AskingStep

LEMMA AccessInvariant == AccessSpec => []AccessInv
<1>1. AccessInv /\ [AccessNext]_accessVars => AccessInv'
  <2> SUFFICES ASSUME AccessInv, [AccessNext]_accessVars PROVE AccessInv'
    OBVIOUS
  <2>1. ASSUME NEW r \in Requests, NEW endpoint \in Endpoints, SelectModel(r, endpoint)
        PROVE  AccessInv'
    BY <2>1, SelectStep
  <2>2. CASE RecordSelection \/ EmitSelection \/ ReturnConfig \/ TakeConfig
    BY <2>2, RecordStep, EmitStep, ReturnStep, TakeStep
  <2>3. ASSUME NEW r \in Requests, CompletionAnswered(r) \/ CompletionFails(r) PROVE AccessInv'
    BY <2>3, AnswerStep DEF CompletionAnswered, CompletionFails
  <2>4. ASSUME NEW r \in Requests, SuggestionAnswered(r) PROVE AccessInv'
    BY <2>4, AnswerStep DEF SuggestionAnswered
  <2>5. ASSUME NEW r \in Requests, Retry(r) PROVE AccessInv'
    <3>1. request[r] \in Request /\ request \in [Requests -> Request]
      BY DEF AccessInv, AccessTypeOK
    <3>2. request[r].prompt \in {"continue", "fill"} /\ request[r].tries + 1 \in 0..MaxRetries - 1
      BY <2>5, <3>1, AccessAssumption DEF Retry, Request, AccessAssumption
    <3>3. request' = [request EXCEPT ![r].prompt = request[r].prompt,
                                     ![r].tries = request[r].tries + 1]
      BY <2>5, <3>1 DEF Retry, Request
    <3>4. QED
      BY <2>5, <3>2, <3>3, RetryStep DEF Retry
  <2>6. ASSUME NEW r \in Requests, PromptFails(r) PROVE AccessInv'
    <3>1. 0 \in 0..MaxRetries - 1
      BY AccessAssumption DEF AccessAssumption
    <3>2. CASE request[r].prompt = "fill" /\ Answer(r, 0)
      BY <3>2, AnswerStep
    <3>3. CASE ~(request[r].prompt = "fill" /\ Answer(r, 0))
      BY <2>6, <3>1, <3>3, RetryStep DEF PromptFails
    <3>4. QED
      BY <3>2, <3>3
  <2>7. CASE UNCHANGED accessVars
    BY <2>7 DEF accessVars, AccessInv, AccessTypeOK, Positioned, InTurn, Newest
  <2>8. QED
    BY <2>1, <2>2, <2>3, <2>4, <2>5, <2>6, <2>7 DEF AccessNext
<1>2. QED
  BY <1>1, AccessStarts, PTL DEF AccessSpec

\* The requests, the queue and the shared receipt keep their types.
THEOREM AccessTypeCorrect == AccessSpec => []AccessTypeOK
BY AccessInvariant, PTL DEF AccessInv

\* However many requests overlap in selectModel, and however long they wait for
\* their models, none cites a selection made before its own.
THEOREM CitationsAreCurrent == AccessSpec => []CitesNoneBefore
<1>1. ASSUME AccessInv, NEW r \in Requests, request[r].cites # 0
      PROVE  own[r] \in 1..request[r].cites /\ request[r].cites <= selections
  <2>1. /\ own[r] \in Nat /\ request[r].cites \in Nat
        /\ lastModelSelectionReceipt \in Nat /\ selections \in Nat
    BY <1>1 DEF AccessInv, AccessTypeOK, Request
  <2>2. hop[r] = 3
    BY <1>1 DEF AccessInv, Newest
  <2>3. /\ own[r] > 0 /\ own[r] <= request[r].cites
        /\ request[r].cites <= lastModelSelectionReceipt /\ lastModelSelectionReceipt <= selections
    BY <1>1, <2>2 DEF AccessInv, Newest
  <2>4. QED
    BY <2>1, <2>3
<1>2. AccessInv => CitesNoneBefore
  BY <1>1 DEF CitesNoneBefore
<1>3. QED
  BY <1>2, AccessInvariant, PTL

\* lastModelSelectionReceipt never goes back to an older selection, although the
\* requests that set it wait twice between recording a selection and setting it:
\* the queue resumes them in the order in which they recorded.
THEOREM NewestSelectionStays ==
  AccessSpec => [][lastModelSelectionReceipt <= lastModelSelectionReceipt']_accessVars
<1>1. AccessInv /\ [AccessNext]_accessVars
        => [lastModelSelectionReceipt <= lastModelSelectionReceipt']_accessVars
  <2> SUFFICES ASSUME AccessInv, AccessNext
               PROVE  lastModelSelectionReceipt <= lastModelSelectionReceipt'
    OBVIOUS
  <2>1. lastModelSelectionReceipt \in Nat
    BY DEF AccessInv, AccessTypeOK
  <2>2. CASE EmitSelection
    <3>1. ResumedAgain(1) /\ lastModelSelectionReceipt' = own[Head(microtasks)]
      BY <2>2 DEF EmitSelection
    <3>2. Head(microtasks) \in Requests /\ hop[Head(microtasks)] = 1
      BY <3>1, ResumptionTyped
    <3>3. own[Head(microtasks)] \in Nat /\ own[Head(microtasks)] > lastModelSelectionReceipt
      BY <3>2 DEF AccessInv, AccessTypeOK, Newest
    <3>4. QED
      BY <2>1, <3>1, <3>3
  <2>3. CASE ~EmitSelection
    <3>1. lastModelSelectionReceipt' = lastModelSelectionReceipt
      BY <2>3 DEF AccessNext, SelectModel, RecordSelection, ReturnConfig, TakeConfig, Answer,
                  CompletionAnswered, CompletionFails, SuggestionAnswered, Retry, PromptFails
    <3>2. QED
      BY <2>1, <3>1
  <2>4. QED
    BY <2>2, <2>3
<1>2. QED
  BY <1>1, AccessInvariant, PTL DEF AccessSpec
============================================================================
