---------------------------- MODULE ThreatScreen ----------------------------
(***************************************************************************)
(* APID, the screen that every action of an agent passes before the kernel  *)
(* looks at it.  Its patterns are left out: an input is the set of classes  *)
(* whose patterns match.  Scores are in hundredths.  That a class is seen   *)
(* often is written to the console and has no other effect.                 *)
(***************************************************************************)
EXTENDS Integers, Sequences

CONSTANTS
  Screened,    \* the agents
  Capacity     \* THREAT_LEDGER_CAPACITY

ASSUME ScreenAssumption == Capacity \in Nat \ {0}

Threats ==
  {"DIRECT_INJECTION", "SEMANTIC_SMUGGLING", "ROLE_ESCALATION_ATTACK", "LINEAGE_POISONING",
   "RECURSIVE_SELF_REFERENCE", "SHADOW_INSTRUCTION", "FEDERATED_RELAY_ATTACK"}

\* The weight of a class, and what its flag adds.
ClassWeight ==
  [DIRECT_INJECTION |-> 35, SEMANTIC_SMUGGLING |-> 25, ROLE_ESCALATION_ATTACK |-> 40,
   LINEAGE_POISONING |-> 45, RECURSIVE_SELF_REFERENCE |-> 30, SHADOW_INSTRUCTION |-> 15,
   FEDERATED_RELAY_ATTACK |-> 30]
FlagWeight ==
  [DIRECT_INJECTION |-> 10, SEMANTIC_SMUGGLING |-> 5, ROLE_ESCALATION_ATTACK |-> 15,
   LINEAGE_POISONING |-> 10, RECURSIVE_SELF_REFERENCE |-> 5, SHADOW_INSTRUCTION |-> 5,
   FEDERATED_RELAY_ATTACK |-> 10]

Adds(threat, found) ==
  IF threat \in found THEN ClassWeight[threat] + FlagWeight[threat] ELSE 0

Total(found) ==
  Adds("DIRECT_INJECTION", found) + Adds("SEMANTIC_SMUGGLING", found)
    + Adds("ROLE_ESCALATION_ATTACK", found) + Adds("LINEAGE_POISONING", found)
    + Adds("RECURSIVE_SELF_REFERENCE", found) + Adds("SHADOW_INSTRUCTION", found)
    + Adds("FEDERATED_RELAY_ATTACK", found)

ThreatScore(found) == IF Total(found) > 100 THEN 100 ELSE Total(found)

Dispositions == {"PASS", "QUARANTINE", "REJECT", "ESCALATE_TO_ASIL"}

Disposition(score) ==
  IF score <= 29 THEN "PASS"
  ELSE IF score <= 59 THEN "QUARANTINE"
  ELSE IF score <= 89 THEN "REJECT"
  ELSE "ESCALATE_TO_ASIL"

Severity == [PASS |-> 0, QUARANTINE |-> 1, REJECT |-> 2, ESCALATE_TO_ASIL |-> 3]
Judged(found) == Disposition(ThreatScore(found))

VARIABLE threatLedger      \* the reports of each agent, oldest first

ThreatReport == [found : SUBSET Threats, disposition : Dispositions]

ScreenInit == threatLedger = [a \in Screened |-> <<>>]

\* updateThreatLedger: one report too many drops the oldest.
Kept(entries) == IF Len(entries) > Capacity THEN Tail(entries) ELSE entries

\* apidMiddleware with createAPIDReport; the action is allowed if it passes.
ApidMiddleware(a, found) ==
  threatLedger' =
    [threatLedger EXCEPT
       ![a] = Kept(Append(@, [found |-> found, disposition |-> Judged(found)]))]

ClearThreatLedger(agents) ==
  threatLedger' = [a \in Screened |-> IF a \in agents THEN <<>> ELSE threatLedger[a]]

ScreenNext ==
  \/ \E a \in Screened, found \in SUBSET Threats : ApidMiddleware(a, found)
  \/ \E a \in Screened : ClearThreatLedger({a})
  \/ ClearThreatLedger(Screened)

ScreenSpec == ScreenInit /\ [][ScreenNext]_threatLedger

----------------------------------------------------------------------------
(* Properties *)

\* The ledger holds reports, and of no agent more than its capacity.
ScreenTypeOK ==
  /\ threatLedger \in [Screened -> Seq(ThreatReport)]
  /\ \A a \in Screened : Len(threatLedger[a]) <= Capacity
=============================================================================
