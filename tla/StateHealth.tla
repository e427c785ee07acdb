---------------------------- MODULE StateHealth ----------------------------
(***************************************************************************)
(* RPDS: the state of a kernel is compared with a baseline; what differs    *)
(* decides on a remedy, and each remedy leaves a signed chain of proof.     *)
(*                                                                          *)
(* Fractions are in hundredths; what is divided by the number of            *)
(* constraints is compared in multiples of that number (Parts), so that     *)
(* nothing is rounded.  The weights of a state are one weight between 0     *)
(* and 1, every state has the same constraints, and its hashes and its      *)
(* persona are numbers, 0 for none.  Every operation calls recordCSR after  *)
(* it has changed its arrays, so that a failure of it changes nothing here. *)
(***************************************************************************)
EXTENDS Integers, Sequences, FiniteSets

CONSTANTS
  Kernels,
  Constraints,       \* the names of the constraints
  ExecutionStates,   \* the states that are evaluated
  NoBaseline,
  MaxReports         \* bound on the reports kept of a kernel

ExecutionState ==
  [weight : 0..100, context : Nat, kept : SUBSET Constraints, persona : Nat,
   causal : Nat, federation : Nat, consensus : 0..100]

ASSUME HealthAssumption ==
  /\ IsFiniteSet(Constraints)
  /\ ExecutionStates \subseteq ExecutionState
  /\ NoBaseline \notin ExecutionState
  /\ MaxReports \in Nat

Remedies == {"ESCALATE_TO_CIEMS", "ROLLBACK", "ISOLATE", "HARD_RESET"}
\* A report is the remedy it recommends.
Report == {"NONE"} \cup Remedies
\* A chain of proof refers to the array of reports of its kernel, and its
\* signature covers what was in it.
Chain == [kernel : Kernels, action : Remedies, signed : Seq(Report)]

VARIABLES
  baseline,   \* BASELINE_STATES
  reports,    \* HEALTH_REPORTS
  chains      \* PROOF_CHAINS

healthVars == <<baseline, reports, chains>>

HealthInit ==
  /\ baseline = [k \in Kernels |-> NoBaseline]
  /\ reports = [k \in Kernels |-> <<>>]
  /\ chains = <<>>

----------------------------------------------------------------------------
(* What differs between a baseline b and a state c, and what is done about  *)
(* it.                                                                      *)

Gap(x, y) == IF x < y THEN y - x ELSE x - y
Differs(x, y) == IF x = y THEN 0 ELSE 100
\* In how many parts a fraction of the constraints is counted.
Parts == IF Constraints = {} THEN 1 ELSE Cardinality(Constraints)
\* n of the constraints, in hundredths of them all, times Parts.
Share(n, ofNone) == IF Constraints = {} THEN ofNone ELSE 100 * n

WeightDrift(b, c) == Gap(b.weight, c.weight)
ConstraintErosion(b, c) == Share(Cardinality(b.kept \ c.kept), 0)
ConstraintIntegrity(b, c) == Share(Cardinality(b.kept \cap c.kept), 100)
Corrupted(c) == c.causal = 0

Detected(b, c) ==
  [WEIGHT_DRIFT |-> WeightDrift(b, c) > 15,
   CONTEXT_CONTAMINATION |-> b.context # c.context,
   CONSTRAINT_EROSION |-> ConstraintErosion(b, c) > 10 * Parts,
   IDENTITY_SUBSTITUTION |-> b.persona # c.persona,
   TEMPORAL_ANCHOR_LOSS |-> b.causal # c.causal,
   FEDERATION_BLEED |-> b.federation # 0 /\ c.federation # 0 /\ b.federation # c.federation,
   REPLAY_CORRUPTION |-> Corrupted(c),
   CONSENSUS_DRIFT |-> b.consensus # c.consensus]

Vectors(b, c) == LET d == Detected(b, c) IN {v \in DOMAIN d : d[v]}

\* Seven times the deviation from the baseline, without its constraints.
PlainDeviation(b, c) ==
  WeightDrift(b, c) + Differs(b.context, c.context) + Differs(b.persona, c.persona)
    + Differs(b.causal, c.causal) + Differs(b.federation, c.federation)
    + Gap(b.consensus, c.consensus)

\* Seven times the deviation, times Parts.
Deviation7(b, c) == Parts * PlainDeviation(b, c) + ConstraintErosion(b, c)

Remediation(b, c) ==
  LET n == Cardinality(Vectors(b, c))
      Exceeds(hundredths) == Deviation7(b, c) > 7 * hundredths * Parts
      KeepsLess(hundredths) == ConstraintIntegrity(b, c) < hundredths * Parts
  IN  IF n = 0 /\ Deviation7(b, c) < 7 * 5 * Parts THEN "NONE"
      ELSE IF n >= 3 \/ Exceeds(70) \/ KeepsLess(30) THEN "HARD_RESET"
      ELSE IF n >= 2 \/ Exceeds(50) \/ KeepsLess(50) \/ b.persona # c.persona THEN "ISOLATE"
      ELSE IF n >= 1 \/ Exceeds(30) \/ KeepsLess(70) THEN "ROLLBACK"
      ELSE "ESCALATE_TO_CIEMS"

----------------------------------------------------------------------------

RegisterBaseline(k, s) ==
  /\ baseline' = [baseline EXCEPT ![k] = s]
  /\ UNCHANGED <<reports, chains>>

\* Mutant: the chain is made before the report is kept.
RemediedEarly(k, r) == [kernel |-> k, action |-> r, signed |-> reports[k]]
Remedied(k, r) == [kernel |-> k, action |-> r, signed |-> Append(reports[k], r)]

\* evaluateState: without a baseline the state becomes the baseline, whatever it
\* is, and the report is not kept.
EvaluateState(k, s) ==
  IF baseline[k] = NoBaseline
  THEN RegisterBaseline(k, s)
  ELSE LET r == Remediation(baseline[k], s)
       IN  /\ Len(reports[k]) < MaxReports
           /\ reports' = [reports EXCEPT ![k] = Append(@, r)]
           /\ chains' = IF r = "NONE" THEN chains ELSE Append(chains, Remedied(k, r))
           /\ UNCHANGED baseline

\* The state it evaluates is the baseline itself.
ActivateTriggeredMode(k) ==
  baseline[k] # NoBaseline /\ EvaluateState(k, baseline[k])

ClearRPDS ==
  /\ baseline' = [k \in Kernels |-> NoBaseline]
  /\ reports' = [k \in Kernels |-> <<>>]
  /\ chains' = <<>>

HealthNext ==
  \/ \E k \in Kernels, s \in ExecutionStates : RegisterBaseline(k, s) \/ EvaluateState(k, s)
  \/ \E k \in Kernels : ActivateTriggeredMode(k)
  \/ ClearRPDS

HealthSpec == HealthInit /\ [][HealthNext]_healthVars

----------------------------------------------------------------------------
(* Properties *)

\* Every variable has the type the code gives it.
HealthTypeOK ==
  /\ baseline \in [Kernels -> ExecutionStates \cup {NoBaseline}]
  /\ reports \in [Kernels -> Seq(Report)]
  /\ chains \in Seq(Chain)

UpTo(k, i) == SubSeq(reports[k], 1, i)

\* Every kept alarm has a chain whose signature covers the reports up to and
\* with that alarm, and no signature covers anything else.  The array that the
\* chain refers to goes on growing: its signature holds for a beginning of it.
AlarmsAreSigned ==
  /\ \A k \in Kernels : \A i \in DOMAIN reports[k] :
       reports[k][i] # "NONE" =>
         \E j \in DOMAIN chains : chains[j].kernel = k /\ chains[j].signed = UpTo(k, i)
  /\ \A j \in DOMAIN chains :
       \E i \in DOMAIN reports[chains[j].kernel] :
         /\ chains[j].signed = UpTo(chains[j].kernel, i)
         /\ chains[j].action = reports[chains[j].kernel][i]
============================================================================
