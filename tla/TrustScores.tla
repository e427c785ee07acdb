---------------------------- MODULE TrustScores ----------------------------
(***************************************************************************)
(* The trust score of each node, its tier and its appeals.                   *)
(*                                                                          *)
(* Tiers are ranks, from 0 EXPELLED to 4 SOVEREIGN, and a composite score   *)
(* is the tier that scoreToTier gives it.  The six dimensions are not kept: *)
(* no weight exceeds 0.25 and the narrowest inner tier spans 0.20, so that  *)
(* a change of one dimension moves the composite by two ranks at most.      *)
(* The weight multiplier is always that of the tier; a second appeal, 200   *)
(* days after the first, has the effects of reviewing the first again.  The *)
(* graph of the federation decides only whom a score is propagated to, which *)
(* is any node here.                                                        *)
(***************************************************************************)
EXTENDS Integers

CONSTANT Peers

VARIABLES
  trust,     \* TRUST_SCORES
  appeal,    \* the status of the appeal of each node
  lifted     \* history: was the tier given by a review, and not computed since?

trustVars == <<trust, appeal, lifted>>

Ranks == 0..4
Expelled == 0
Quarantined == 1
Provisional == 2
Verified == 3

\* vector: the rank of what the dimensions amount to now; composite: that of
\* the stored score.
Score == [vector : Ranks, composite : Ranks, tier : Ranks]
Unknown == [vector |-> -1, composite |-> -1, tier |-> -1]
Known(p) == trust[p] # Unknown

TrustInit ==
  /\ trust = [p \in Peers |-> Unknown]
  /\ appeal = [p \in Peers |-> "none"]
  /\ lifted = [p \in Peers |-> FALSE]

\* The score of p and its tier are computed from a vector of this rank.
Computed(p, rank) ==
  /\ trust' = [trust EXCEPT ![p] = [vector |-> rank, composite |-> rank, tier |-> rank]]
  /\ lifted' = [lifted EXCEPT ![p] = FALSE]
  /\ UNCHANGED appeal

\* All dimensions are 0.5, for a node that has a score already, too.
CreateInitialTrustScore(p) == Computed(p, Provisional)

\* updateTrustDimension and the six record functions, which all end in it.
UpdateTrustDimension(p) ==
  /\ Known(p)
  /\ \E rank \in Ranks :
       /\ rank - trust[p].vector \in -2..2
       /\ Computed(p, rank)

\* The penalty lowers the score by 0.008 at most.
ApplyLegacyModePenalty(p) ==
  /\ Known(p)
  /\ \E rank \in Ranks :
       /\ rank - trust[p].vector \in -1..0
       /\ Computed(p, rank)

\* Mutant: the score of a neighbour may lower the dimension.
PropagateTrustScoresDown(p) ==
  /\ Known(p)
  /\ \E rank \in Ranks :
       /\ rank - trust[p].vector \in -2..2
       /\ trust' = [trust EXCEPT ![p].vector = rank]
  /\ UNCHANGED <<appeal, lifted>>

\* propagateTrustScores raises one dimension of the neighbours and leaves
\* their scores as they are; what it does to two nodes is done one by one.
PropagateTrustScores(p) ==
  /\ Known(p)
  /\ \E rank \in Ranks :
       /\ rank - trust[p].vector \in 0..2
       /\ trust' = [trust EXCEPT ![p].vector = rank]
  /\ UNCHANGED <<appeal, lifted>>

\* enforceLegacyModeCap: the score stays, so that the next update undoes it.
EnforceLegacyModeCap(p) ==
  /\ Known(p)
  /\ trust[p].tier >= Verified
  /\ trust' = [trust EXCEPT ![p].tier = Provisional]
  /\ UNCHANGED <<appeal, lifted>>

\* Mutant: anyone may appeal.
SubmitTrustAppealUnknown(p) ==
  /\ appeal[p] = "none"
  /\ appeal' = [appeal EXCEPT ![p] = "PENDING"]
  /\ UNCHANGED <<trust, lifted>>

SubmitTrustAppeal(p) ==
  /\ Known(p)
  /\ appeal[p] = "none"
  /\ appeal' = [appeal EXCEPT ![p] = "PENDING"]
  /\ UNCHANGED <<trust, lifted>>

\* The tier that an approved appeal gives.
Granted(tier, countersigned) ==
  CASE countersigned /\ tier \in {Quarantined, Provisional} -> Verified
    [] ~countersigned /\ tier \in {Expelled, Quarantined} -> Provisional
    [] OTHER -> tier

\* reviewTrustAppeal, of an appeal that was reviewed already, too.
ReviewTrustAppeal(p, approved, countersigned) ==
  /\ appeal[p] # "none"
  /\ appeal' = [appeal EXCEPT ![p] = IF approved THEN "APPROVED" ELSE "DENIED"]
  /\ LET tier == IF approved THEN Granted(trust[p].tier, countersigned) ELSE trust[p].tier
     IN /\ trust' = [trust EXCEPT ![p].tier = tier]
        /\ lifted' = [lifted EXCEPT ![p] = @ \/ tier # trust[p].tier]

ResetFTSS ==
  /\ trust' = [p \in Peers |-> Unknown]
  /\ appeal' = [p \in Peers |-> "none"]
  /\ lifted' = [p \in Peers |-> FALSE]

TrustNext ==
  \/ ResetFTSS
  \/ \E p \in Peers :
       \/ CreateInitialTrustScore(p)
       \/ UpdateTrustDimension(p)
       \/ ApplyLegacyModePenalty(p)
       \/ PropagateTrustScores(p)
       \/ EnforceLegacyModeCap(p)
       \/ SubmitTrustAppeal(p)
       \/ \E approved, countersigned \in BOOLEAN : ReviewTrustAppeal(p, approved, countersigned)

TrustSpec == TrustInit /\ [][TrustNext]_trustVars

----------------------------------------------------------------------------
(* Properties *)

\* Every variable has the type the code gives it, and appeals are of nodes
\* that have a score.
TrustTypeOK ==
  /\ trust \in [Peers -> Score \cup {Unknown}]
  /\ appeal \in [Peers -> {"none", "PENDING", "APPROVED", "DENIED"}]
  /\ lifted \in [Peers -> BOOLEAN]
  /\ \A p \in Peers : appeal[p] # "none" => Known(p)

\* The tier of a node is never above what its score earns, and the score never
\* above what the dimensions amount to, unless an appeal gave the tier:
\* whatever was propagated, capped and penalised in between.
StandingIsEarned ==
  \A p \in Peers :
    /\ trust[p].composite <= trust[p].vector
    /\ lifted[p] \/ trust[p].tier <= trust[p].composite

\* One event takes a node down three tiers only if an appeal had given it its
\* tier: the appeal raises the tier and not the score, so that the next event,
\* a good one too, takes all of it back.
PlungeIsAppealed ==
  [][\A p \in Peers :
       trust[p].tier - trust'[p].tier >= 3 /\ Known(p)' => lifted[p]]_trustVars
============================================================================
