----------------------------- MODULE EpochKeys -----------------------------
(***************************************************************************)
(* QIGEM: the epoch of the algorithms, the keys of that epoch, the history  *)
(* of its advances and the alerts.  Every operation changes its arrays and  *)
(* then calls recordCSR, which may throw: the caller is told of a failure   *)
(* and calls again.  Left out: the keys themselves, sessions and tokens,    *)
(* which are computed and kept nowhere.                                     *)
(***************************************************************************)
EXTENDS Integers, Sequences, FiniteSets

CONSTANTS
  EpochKeyIds,
  MaxAlerts      \* bound on the alerts of one process

ASSUME EpochAssumption == MaxAlerts \in Nat /\ IsFiniteSet(EpochKeyIds)

LastEpoch == 2
Epochs == 0..LastEpoch

VARIABLES
  epoch,      \* CURRENT_EPOCH and CURRENT_EPOCH_NUMBER, which move together
  keyEpoch,   \* KEY_REGISTRY: the epoch of each key, -1 when there is none
  history,    \* EPOCH_HISTORY
  alerts      \* THREAT_ALERTS: is it countersigned?

epochVars == <<epoch, keyEpoch, history, alerts>>

EpochInit ==
  /\ epoch = 0
  /\ keyEpoch = [k \in EpochKeyIds |-> -1]
  /\ history = <<>>
  /\ alerts = <<>>

RegisteredKeys == {k \in EpochKeyIds : keyEpoch[k] >= 0}

\* A key of the same id is replaced.
GenerateKeyRecord(k) ==
  /\ keyEpoch' = [keyEpoch EXCEPT ![k] = epoch]
  /\ UNCHANGED <<epoch, history, alerts>>

\* The participants are counted; nobody asks who they are.
MayAdvance(ciemsConfirmed, asilBroadcast, ftssThresholdMet, participants) ==
  /\ epoch < LastEpoch
  /\ ciemsConfirmed
  /\ epoch = 0 => asilBroadcast
  /\ epoch = 1 => ftssThresholdMet /\ 4 * participants >= 3 * Cardinality(RegisteredKeys)
  \* The ratio is taken of one key when there is none.
  /\ epoch = 1 /\ RegisteredKeys = {} => participants >= 1

\* Mutant: the event is kept only when recordCSR has returned.
AdvancedIfLogged ==
  history' = Append(history, <<epoch, epoch + 1>>) \/ UNCHANGED history
\* The event is kept whether recordCSR throws or not.
Advanced == history' = Append(history, <<epoch, epoch + 1>>)

AdvanceEpoch ==
  /\ \E c, a, f \in BOOLEAN, n \in 0..Cardinality(EpochKeyIds) + 1 : MayAdvance(c, a, f, n)
  /\ epoch' = epoch + 1
  /\ keyEpoch' = [k \in EpochKeyIds |-> IF k \in RegisteredKeys THEN epoch + 1 ELSE -1]
  /\ Advanced
  /\ UNCHANGED alerts

\* emitQuantumThreatAlert; one that goes to the whole federation with confidence
\* counts as countersigned at once.
EmitQuantumThreatAlert(wideAndConfident) ==
  /\ Len(alerts) < MaxAlerts
  /\ alerts' = Append(alerts, wideAndConfident)
  /\ UNCHANGED <<epoch, keyEpoch, history>>

CountersignQuantumThreatAlert(i) ==
  /\ alerts' = [alerts EXCEPT ![i] = TRUE]
  /\ UNCHANGED <<epoch, keyEpoch, history>>

ResetQIGEM ==
  /\ epoch' = 0
  /\ keyEpoch' = [k \in EpochKeyIds |-> -1]
  /\ history' = <<>>
  /\ alerts' = <<>>

EpochNext ==
  \/ \E k \in EpochKeyIds : GenerateKeyRecord(k)
  \/ AdvanceEpoch
  \/ \E w \in BOOLEAN : EmitQuantumThreatAlert(w)
  \/ \E i \in DOMAIN alerts : CountersignQuantumThreatAlert(i)
  \/ ResetQIGEM

EpochSpec == EpochInit /\ [][EpochNext]_epochVars

----------------------------------------------------------------------------
(* Properties *)

\* Every variable has the type the code gives it.
EpochTypeOK ==
  /\ epoch \in Epochs
  /\ keyEpoch \in [EpochKeyIds -> {-1} \cup Epochs]
  /\ history \in Seq(Epochs \X Epochs)
  /\ alerts \in Seq(BOOLEAN)

\* The history leads from the first epoch to the current one without a gap, and
\* no key is left behind in an earlier epoch, whatever calls fail half-way.
HistoryLeadsHere ==
  /\ Len(history) = epoch
  /\ \A i \in DOMAIN history : history[i] = <<i - 1, i>>
  /\ \A k \in RegisteredKeys : keyEpoch[k] = epoch
============================================================================
