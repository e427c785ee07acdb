------------------------- MODULE AmendmentPipeline -------------------------
(***************************************************************************)
(* CA-2: amendments that pass freeze, export, apply, validate, commit and   *)
(* restart, by single calls in any order and by runConstitutionalAmendment, *)
(* which makes them all.  There is one freeze flag and no await.            *)
(*                                                                          *)
(* The id of an amendment is the hash of its input, so that the input       *)
(* stands for it, and also for its version.  dLAP refuses an input whose    *)
(* version contains one of the patterns of the invariant engine: Dangerous. *)
(* Its other checks, the PIT band and the cluster view hold for every       *)
(* amendment; snapshots are not looked at again.                            *)
(***************************************************************************)
EXTENDS Integers, Sequences

CONSTANTS
  Inputs,         \* what proposeAmendment is called with
  Dangerous,      \* the inputs that dLAP refuses
  Original,       \* "CRK-2.0.0"
  MaxAmendments,  \* bound on the amendments proposed
  MaxEntries      \* bound on the entries of the CRK-2 ledger

ASSUME AmendmentAssumption ==
  /\ Dangerous \subseteq Inputs
  /\ Original \notin Inputs
  /\ MaxAmendments \in Nat
  /\ MaxEntries \in Nat

VARIABLES
  amendments,      \* the array, oldest first
  frozen,          \* the flag
  activeVersion,   \* the version in force
  crk2Ledger       \* the ledger of CRK-2

amendmentVars == <<amendments, frozen, activeVersion, crk2Ledger>>

Validated == {"validated", "committed", "restarted"}
AmendmentStatus == {"draft", "frozen", "exported", "applied", "rejected"} \cup Validated
Amendment == [input : Inputs, status : AmendmentStatus]
\* An entry is what it is about (an amendment, or Original for a receipt of an
\* agent), its hash and the hash it names; the hash of the n-th entry is n.
Entry == [about : Inputs \cup {Original}, hash : Nat, prevHash : Nat]

Draft(i) == [input |-> i, status |-> "draft"]

\* Is the a-th amendment the one that requireAmendment finds?
First(list, a) ==
  a \in DOMAIN list /\ \A b \in DOMAIN list : list[b].input = list[a].input => a <= b

\* The a-th amendment is found and has one of these statuses.
Required(a, allowed) == First(amendments, a) /\ amendments[a].status \in allowed

Becomes(a, status) == amendments' = [amendments EXCEPT ![a].status = status]

\* Mutant: entries name the head of the ledger.
AppendedToHead(log, about) ==
  Append(log, [about |-> about, hash |-> Len(log) + 1, prevHash |-> IF log = <<>> THEN 0 ELSE 1])

\* appendReceipt of the CRK-2 ledger.
Appended(log, about) ==
  Append(log, [about |-> about, hash |-> Len(log) + 1,
               prevHash |-> IF log = <<>> THEN 0 ELSE log[Len(log)].hash])

Linked(log) == \A n \in 2..Len(log) : log[n].prevHash = log[n - 1].hash

AmendmentInit ==
  /\ amendments = <<>>
  /\ frozen = FALSE
  /\ activeVersion = Original
  /\ crk2Ledger = <<>>

\* syncReceiptToObservability: the receipts of agents enter the same ledger.
SyncReceipt ==
  /\ Len(crk2Ledger) < MaxEntries
  /\ crk2Ledger' = Appended(crk2Ledger, Original)
  /\ UNCHANGED <<amendments, frozen, activeVersion>>

ProposeAmendment(i) ==
  /\ Len(amendments) < MaxAmendments
  /\ amendments' = Append(amendments, Draft(i))
  /\ UNCHANGED <<frozen, activeVersion, crk2Ledger>>

FreezeForAmendment ==
  /\ frozen' = TRUE
  /\ UNCHANGED <<amendments, activeVersion, crk2Ledger>>

MarkAmendmentFrozen(a) ==
  /\ frozen
  /\ Required(a, {"draft"})
  /\ Becomes(a, "frozen")
  /\ UNCHANGED <<frozen, activeVersion, crk2Ledger>>

ExportConstitutionalState(a) ==
  /\ frozen
  /\ Required(a, {"draft", "frozen"})
  /\ Becomes(a, "exported")
  /\ UNCHANGED <<frozen, activeVersion, crk2Ledger>>

\* applyAmendment asks for the export, not for the freeze.
ApplyAmendment(a) ==
  /\ Required(a, {"exported"})
  /\ Becomes(a, "applied")
  /\ UNCHANGED <<frozen, activeVersion, crk2Ledger>>

\* The verdict of validateAmendment on an amendment with this input, once its
\* receipt is in the ledger.
Valid(i, log) == i \notin Dangerous /\ Linked(log)

ValidateAmendment(a) ==
  /\ Required(a, {"applied"})
  /\ Len(crk2Ledger) < MaxEntries
  /\ crk2Ledger' = Appended(crk2Ledger, amendments[a].input)
  /\ Becomes(a, IF Valid(amendments[a].input, crk2Ledger') THEN "validated" ELSE "rejected")
  /\ UNCHANGED <<frozen, activeVersion>>

\* Mutant: an applied amendment may be committed.
CommitAmendmentEarly(a) ==
  /\ Required(a, {"applied", "validated"})
  /\ activeVersion' = amendments[a].input
  /\ Becomes(a, "committed")
  /\ UNCHANGED <<frozen, crk2Ledger>>

CommitAmendment(a) ==
  /\ Required(a, {"validated"})
  /\ activeVersion' = amendments[a].input
  /\ Becomes(a, "committed")
  /\ UNCHANGED <<frozen, crk2Ledger>>

RestartUnderCRK2(a) ==
  /\ Required(a, {"committed"})
  /\ Becomes(a, "restarted")
  /\ frozen' = FALSE
  /\ UNCHANGED <<activeVersion, crk2Ledger>>

\* runConstitutionalAmendment.  What it proposes is then looked up by its id:
\* an earlier amendment of the same input is found in its place, and if that
\* is no draft any more, markAmendmentFrozen throws and the freeze remains.
RunConstitutionalAmendment(i) ==
  /\ Len(amendments) < MaxAmendments
  /\ \E a \in 1..(Len(amendments) + 1) :
       LET proposed == Append(amendments, Draft(i))
           log == Appended(crk2Ledger, i)
       IN /\ First(proposed, a)
          /\ proposed[a].input = i
          /\ \/ /\ proposed[a].status # "draft"
                /\ amendments' = proposed
                /\ frozen' = TRUE
                /\ UNCHANGED <<activeVersion, crk2Ledger>>
             \/ /\ proposed[a].status = "draft"
                /\ Len(crk2Ledger) < MaxEntries
                /\ crk2Ledger' = log
                /\ frozen' = FALSE
                /\ amendments' = [proposed EXCEPT ![a].status =
                                    IF Valid(i, log) THEN "restarted" ELSE "rejected"]
                /\ activeVersion' = IF Valid(i, log) THEN i ELSE activeVersion

\* resetAmendments: the ledger stays.
ResetAmendments ==
  /\ amendments' = <<>>
  /\ frozen' = FALSE
  /\ activeVersion' = Original
  /\ UNCHANGED crk2Ledger

AmendmentNext ==
  \/ SyncReceipt
  \/ ResetAmendments
  \/ FreezeForAmendment
  \/ \E i \in Inputs : ProposeAmendment(i) \/ RunConstitutionalAmendment(i)
  \/ \E a \in DOMAIN amendments :
       \/ MarkAmendmentFrozen(a) \/ ExportConstitutionalState(a) \/ ApplyAmendment(a)
       \/ ValidateAmendment(a) \/ CommitAmendment(a) \/ RestartUnderCRK2(a)

AmendmentSpec == AmendmentInit /\ [][AmendmentNext]_amendmentVars

----------------------------------------------------------------------------
(* Properties *)

\* Every variable has the type the code gives it.
AmendmentTypeOK ==
  /\ amendments \in Seq(Amendment)
  /\ frozen \in BOOLEAN
  /\ activeVersion \in Inputs \cup {Original}
  /\ crk2Ledger \in Seq(Entry)

\* The version in force is the original one or that of an amendment that was
\* validated and committed, however the steps of several amendments mix.
ActiveWasValidated ==
  activeVersion # Original =>
    /\ activeVersion \notin Dangerous
    /\ \E a \in DOMAIN amendments :
         amendments[a].input = activeVersion /\ amendments[a].status \in {"committed", "restarted"}

\* An amendment proposed with the input of an earlier one never gets past its
\* draft, by single calls or by runConstitutionalAmendment: its id is taken.
RepeatedStaysDraft ==
  \A a \in DOMAIN amendments : ~First(amendments, a) => amendments[a].status = "draft"

\* A validation fails for what the amendment says and for nothing else: the
\* receipts that agents and other amendments put into the ledger never break
\* the chain it checks; and what it let pass is in the ledger.
VerdictIsOnContent ==
  \A a \in DOMAIN amendments :
    /\ amendments[a].status = "rejected" => amendments[a].input \in Dangerous
    /\ amendments[a].status \in Validated =>
         /\ amendments[a].input \notin Dangerous
         /\ \E n \in DOMAIN crk2Ledger : crk2Ledger[n].about = amendments[a].input

\* Who an amendment is, and what becomes of it, depends on its content alone: a
\* repetition goes nowhere, and what passes or fails does so for what it says.
ContentDecides == RepeatedStaysDraft /\ VerdictIsOnContent

\* docs/CRK-2-SPEC.md, section 8: "No amendment apply without freeze + export
\* hash".  The freeze is one flag, which the end of another amendment clears.
AppliesUnderFreeze ==
  [][\A a \in DOMAIN amendments \cap DOMAIN amendments' :
       amendments'[a].status = "applied" /\ amendments[a].status # "applied" => frozen]_amendmentVars
============================================================================
