------------------------ MODULE MCIntentGovernance -------------------------
(* Model checking of IntentGovernance: ids are interchangeable.             *)
EXTENDS IntentGovernance, TLC

IdSymmetry == Permutations(Intents) \cup Permutations(Evidences) \cup Permutations(Calls)
              \cup Permutations(Agents)
============================================================================
