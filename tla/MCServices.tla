----------------------------- MODULE MCServices -----------------------------
(***************************************************************************)
(* Components that share no state, checked in one run: each behaviour takes *)
(* the steps of one of them, its focus, so that the states add up and do    *)
(* not multiply.                                                            *)
(***************************************************************************)
EXTENDS ComputeFabric, GovernanceRuntime, AmendmentPipeline, FederatedWorlds,
        TreatyExchange, TrustScores, CockpitFeed, IdentityKeys, EpochKeys,
        StateHealth, ThreatScreen, ModelAccess, TLC

CONSTANT FabricReceipts    \* bound on the receipts made while fabric tasks run

VARIABLE focus

Components ==
  {"ledger", "fabric", "runtime", "amendments", "worlds", "exchange", "trust", "feed",
   "identity", "epochs", "health", "screen", "access"}

ServicesInit ==
  /\ focus \in Components
  /\ FabricInit
  /\ RuntimeInit
  /\ AmendmentInit
  /\ FederationInit
  /\ ExchangeInit
  /\ TrustInit
  /\ FeedInit
  /\ IdentityInit
  /\ EpochInit
  /\ HealthInit
  /\ ScreenInit
  /\ AccessInit

\* Components other than the focus stand still.
Still(fs, vs) == IF focus \in fs THEN TRUE ELSE UNCHANGED vs
OthersStill ==
  /\ UNCHANGED focus
  /\ Still({"ledger", "fabric"}, ledgerVars)
  /\ Still({"fabric"}, fabricVars)
  /\ Still({"runtime"}, runtimeVars)
  /\ Still({"amendments"}, amendmentVars)
  /\ Still({"worlds"}, federationVars)
  /\ Still({"exchange"}, exchangeVars)
  /\ Still({"trust"}, trustVars)
  /\ Still({"feed"}, feedVars)
  /\ Still({"identity"}, identityVars)
  /\ Still({"epochs"}, epochVars)
  /\ Still({"health"}, healthVars)
  /\ Still({"screen"}, threatLedger)
  /\ Still({"access"}, accessVars)

ServicesNext ==
  /\ \/ focus = "ledger" /\ AgentLedgerNext
     \/ focus = "fabric" /\ FabricNext /\ issued' <= FabricReceipts
     \/ focus = "runtime" /\ RuntimeNext
     \/ focus = "amendments" /\ AmendmentNext
     \/ focus = "worlds" /\ FederationNext
     \/ focus = "exchange" /\ ExchangeNext
     \/ focus = "trust" /\ TrustNext
     \/ focus = "feed" /\ FeedNext
     \/ focus = "identity" /\ IdentityNext
     \/ focus = "epochs" /\ EpochNext
     \/ focus = "health" /\ HealthNext
     \/ focus = "screen" /\ ScreenNext
     \/ focus = "access" /\ AccessNext
  /\ OthersStill

allVars ==
  <<focus, ledgerVars, fabricVars, runtimeVars, amendmentVars, federationVars, exchangeVars,
    trustVars, feedVars, identityVars, epochVars, healthVars, threatLedger, accessVars>>

ServicesSpec == ServicesInit /\ [][ServicesNext]_allVars

\* Each of these sets has members that nothing tells apart; nothing in the run
\* is about liveness.
Interchangeable ==
  Permutations(Nodes) \cup Permutations(Launches) \cup Permutations(Polls)

\* States of a kernel: a sound one, and others that drifted, left the federation,
\* or are corrupt.
SoundState ==
  [weight |-> 50, context |-> 1, kept |-> Constraints, persona |-> 1, causal |-> 1,
   federation |-> 1, consensus |-> 60]
SampleStates ==
  {SoundState, [SoundState EXCEPT !.weight = 70],
   [SoundState EXCEPT !.federation = 0], [SoundState EXCEPT !.causal = 0, !.kept = {}]}

\* Every variable of every component has the type the code gives it.
ServicesTypeOK ==
  /\ FabricTypeOK
  /\ RuntimeTypeOK
  /\ AmendmentTypeOK
  /\ FederationTypeOK
  /\ ExchangeTypeOK
  /\ TrustTypeOK
  /\ FeedTypeOK
  /\ IdentityTypeOK
  /\ EpochTypeOK
  /\ HealthTypeOK
  /\ ScreenTypeOK
  /\ AccessTypeOK
=============================================================================
