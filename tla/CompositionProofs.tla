------------------------- MODULE CompositionProofs -------------------------
(***************************************************************************)
(* Theorems about the services together: they share no state, so that each  *)
(* of them behaves as its own specification says whatever the others do, and *)
(* what is proved of one of them holds of all of them side by side.         *)
(***************************************************************************)
EXTENDS MCServices, ServiceProofs, FederationProofs, FabricProofs, RegistryProofs

\* Is the fabric used, or no more of it than its ledger?
FabricUsed == focus # "ledger"

\* A step of the services is a step of each of them, or leaves it alone.
LEMMA EveryoneMoves ==
  ASSUME [ServicesNext]_allVars
  PROVE  /\ UNCHANGED focus
         /\ FabricUsed => [FabricNext]_<<fabricVars, ledgerVars>>
         /\ ~FabricUsed => [AgentLedgerNext]_ledgerVars /\ UNCHANGED fabricVars
         /\ [RuntimeNext]_runtimeVars
         /\ [AmendmentNext]_amendmentVars
         /\ [FederationNext]_federationVars
         /\ [ExchangeNext]_exchangeVars
         /\ [TrustNext]_trustVars
         /\ [FeedNext]_feedVars
         /\ [IdentityNext]_identityVars
         /\ [EpochNext]_epochVars
         /\ [HealthNext]_healthVars
         /\ [ScreenNext]_threatLedger
         /\ [AccessNext]_accessVars
<1>1. CASE UNCHANGED allVars
  BY <1>1 DEF allVars
<1>2. CASE ServicesNext
  BY <1>2 DEF ServicesNext, OthersStill, Still, FabricUsed
<1>3. QED
  BY <1>1, <1>2

\* Side by side, each of the services still is what its own specification says
\* it is: none can be driven into a state by what another one does.  Only when
\* the ledger is used without the fabric does the fabric stand still.
THEOREM ServicesAreIndependent ==
  ServicesSpec => /\ FabricUsed => FabricSpec
                  /\ AgentLedgerSpec
                  /\ RuntimeSpec
                  /\ AmendmentSpec
                  /\ FederationSpec
                  /\ ExchangeSpec
                  /\ TrustSpec
                  /\ FeedSpec
                  /\ IdentitySpec
                  /\ EpochSpec
                  /\ HealthSpec
                  /\ ScreenSpec
                  /\ AccessSpec
<1>1. ServicesSpec => /\ RuntimeSpec /\ AmendmentSpec /\ FederationSpec /\ ExchangeSpec
                      /\ TrustSpec /\ FeedSpec /\ IdentitySpec /\ EpochSpec /\ HealthSpec
                      /\ ScreenSpec /\ AccessSpec
  <2>1. ServicesInit => /\ RuntimeInit /\ AmendmentInit /\ FederationInit /\ ExchangeInit
                        /\ TrustInit /\ FeedInit /\ IdentityInit /\ EpochInit /\ HealthInit
                        /\ ScreenInit /\ AccessInit
    BY DEF ServicesInit
  <2>2. QED
    BY <2>1, EveryoneMoves, PTL
       DEF ServicesSpec, RuntimeSpec, AmendmentSpec, FederationSpec, ExchangeSpec, TrustSpec,
           FeedSpec, IdentitySpec, EpochSpec, HealthSpec, ScreenSpec, AccessSpec
<1>2. ServicesSpec /\ FabricUsed => FabricSpec
  <2>1. ServicesInit => FabricInit
    BY DEF ServicesInit
  <2>2. FabricUsed /\ [ServicesNext]_allVars => FabricUsed' /\ [FabricNext]_<<fabricVars, ledgerVars>>
    BY EveryoneMoves DEF FabricUsed
  <2>3. QED
    BY <2>1, <2>2, PTL DEF ServicesSpec, FabricSpec
<1>3. ServicesSpec /\ ~FabricUsed => AgentLedgerSpec
  <2>1. ServicesInit => AgentLedgerInit
    BY DEF ServicesInit, FabricInit
  <2>2. ~FabricUsed /\ [ServicesNext]_allVars => ~FabricUsed' /\ [AgentLedgerNext]_ledgerVars
    BY EveryoneMoves DEF FabricUsed
  <2>3. QED
    BY <2>1, <2>2, PTL DEF ServicesSpec, AgentLedgerSpec
<1>4. QED
  BY <1>1, <1>2, <1>3, FabricImplementsLedger, PTL

\* A fabric that nobody uses.
FabricAsleep ==
  /\ node = [n \in Nodes |-> "absent"]
  /\ auths = <<>>
  /\ launch = [c \in Launches |-> Idle]
  /\ tasks = <<>>
  /\ prongs = <<>>

LEMMA FabricSleeps == ServicesSpec /\ ~FabricUsed => [](~FabricUsed /\ FabricAsleep)
<1>1. ServicesInit => FabricAsleep
  BY DEF ServicesInit, FabricInit, FabricAsleep
<1>2. ~FabricUsed /\ FabricAsleep /\ [ServicesNext]_allVars
        => ~FabricUsed' /\ FabricAsleep'
  BY EveryoneMoves DEF fabricVars, FabricAsleep, FabricUsed
<1>3. QED
  BY <1>1, <1>2, PTL DEF ServicesSpec

\* A fabric that sleeps has none of the troubles of one that works.
LEMMA AsleepIsSound ==
  ASSUME FabricAsleep
  PROVE  /\ FabricTypes
         /\ TasksAreAuthorized
         /\ LateCallsReachTheFirst
<1>2. FabricTypes
  BY DEF FabricAsleep, FabricTypes
<1>3. TasksAreAuthorized
  BY DEF FabricAsleep, TasksAreAuthorized
<1>4. LateCallsReachTheFirst
  BY DEF FabricAsleep, LateCallsReachTheFirst, ShadowedNeverEnds, PendingHasNoOutput
<1>5. QED
  BY <1>2, <1>3, <1>4

\* Every variable of every service keeps its type, whichever of them are used.
THEOREM ServicesTypeCorrect == ServicesSpec => []ServicesTypeOK
<1>1. ServicesSpec /\ FabricUsed => []FabricTypeOK
  BY ServicesAreIndependent, FabricTypeCorrect, PTL
<1>2. ServicesSpec /\ ~FabricUsed => []FabricTypeOK
  <2>1. AgentLedgerTypeOK /\ FabricAsleep => FabricTypeOK
    BY AsleepIsSound DEF FabricTypes, FabricTypeOK
  <2>2. QED
    BY <2>1, ServicesAreIndependent, LedgerTypeCorrect, FabricSleeps, PTL
<1>3. ServicesSpec => [](/\ RuntimeTypeOK /\ AmendmentTypeOK /\ FederationTypeOK
                         /\ ExchangeTypeOK /\ TrustTypeOK /\ FeedTypeOK /\ IdentityTypeOK
                         /\ EpochTypeOK /\ HealthTypeOK /\ ScreenTypeOK /\ AccessTypeOK)
  BY ServicesAreIndependent, RuntimeTypeCorrect, AmendmentTypeCorrect, FederationTypeCorrect,
     ExchangeTypeCorrect, TiersAreEarned, FeedTypeCorrect, IdentityTypeCorrect,
     EpochsFollowEachOther, HealthTypes, LedgersAreBounded, AccessTypeCorrect, PTL
<1>4. FabricTypeOK /\ RuntimeTypeOK /\ AmendmentTypeOK /\ FederationTypeOK
      /\ ExchangeTypeOK /\ TrustTypeOK /\ FeedTypeOK /\ IdentityTypeOK
      /\ EpochTypeOK /\ HealthTypeOK /\ ScreenTypeOK /\ AccessTypeOK => ServicesTypeOK
  BY DEF ServicesTypeOK
<1>5. QED
  BY <1>1, <1>2, <1>3, <1>4, PTL

\* What the services promise each by itself they promise together: the state
\* each of them is found in is a sound one, whichever of them are used.
ServicesSafe ==
  /\ FileTellsTheTruth
  /\ TasksAreAuthorized
  /\ LateCallsReachTheFirst
  /\ FlagShowsSomeone
  /\ ActiveWasValidated
  /\ ContentDecides
  /\ HistoryLeadsHere
  /\ MissedInTheGap
  /\ FirstUseCostsOne
  /\ AlarmsAreSigned
  /\ CitesNoneBefore

\* The safety invariants of every service hold of all of them side by side.
THEOREM ServicesAreSafe == ServicesSpec => []ServicesSafe
<1>1. ServicesSpec /\ FabricUsed => [](TasksAreAuthorized /\ LateCallsReachTheFirst)
  BY ServicesAreIndependent, TasksAreGoverned, LateCallsAreSafe, PTL
<1>2. ServicesSpec /\ ~FabricUsed => [](TasksAreAuthorized /\ LateCallsReachTheFirst)
  BY FabricSleeps, AsleepIsSound, PTL
<1>3. ServicesSpec => [](/\ FileTellsTheTruth /\ FlagShowsSomeone /\ ActiveWasValidated
                         /\ ContentDecides /\ HistoryLeadsHere /\ MissedInTheGap
                         /\ FirstUseCostsOne /\ AlarmsAreSigned /\ CitesNoneBefore)
  BY ServicesAreIndependent, FileIsTruthful, FlagIsTruthful, VersionInForceIsSound,
     ContentIsDecisive, EpochsFollowEachOther, OnlyTheGapIsMissed, FirstUsesAreCheap,
     AlarmsStaySigned, CitationsAreCurrent, PTL
<1>4. TasksAreAuthorized /\ LateCallsReachTheFirst
      /\ FileTellsTheTruth /\ FlagShowsSomeone /\ ActiveWasValidated
      /\ ContentDecides /\ HistoryLeadsHere /\ MissedInTheGap
      /\ FirstUseCostsOne /\ AlarmsAreSigned /\ CitesNoneBefore => ServicesSafe
  BY DEF ServicesSafe
<1>5. QED
  BY <1>1, <1>2, <1>3, <1>4, PTL

\* What no step of a service may do, no step of the services does: suspended
\* nodes get no work, countersignatures are final, and so on; and the worlds
\* still implement the contract of the federation.
THEOREM ServicesStepsAreSafe ==
  ServicesSpec => /\ SuspensionAdmitsNothing
                  /\ ImplementsContract
                  /\ CountersignatureFinal
                  /\ PlungeIsAppealed
                  /\ StatusGoesBackIfOvertaken
<1>1. ServicesSpec /\ FabricUsed => SuspensionAdmitsNothing
  BY ServicesAreIndependent, SuspensionHolds, PTL
<1>2. ServicesSpec /\ ~FabricUsed => SuspensionAdmitsNothing
  <2>1. FabricAsleep
          => [\A n \in Nodes : node[n] = "suspended" /\ node'[n] = "suspended"
                => Work(n)' <= Work(n)]_<<fabricVars, ledgerVars>>
    BY DEF FabricAsleep
  <2>2. QED
    BY <2>1, FabricSleeps, PTL DEF SuspensionAdmitsNothing
<1>3. QED
  BY <1>1, <1>2, ServicesAreIndependent, FederationImplementsContract,
     CountersignaturesAreFinal, OnlyAppealsPlunge, StatusIsOvertaken, PTL
============================================================================
