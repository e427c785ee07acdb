-------------------------- MODULE FederatedWorlds --------------------------
(***************************************************************************)
(* Worlds, the treaties between them and the actions they federate.         *)
(*                                                                          *)
(* An action is hashed with its two worlds, so that the action stands for   *)
(* its hash in the lineage.  Every operation calls recordCSR last, so that  *)
(* a failure of it changes nothing here.  Left out: the status of a world,  *)
(* which nothing consults, the comparison of lineages, which reads only,    *)
(* and resetWorlds, which only resetSovereignX and tests call.              *)
(***************************************************************************)
EXTENDS Integers, Sequences, FiniteSets

CONSTANTS
  Worlds, Treaties, Actions,
  Nothing,         \* no such treaty or action
  MaxExecutions    \* bound on the executions of each world

Statuses == {"proposed", "aligned", "executed", "rejected", "reverted"}
Treaty == [worlds : SUBSET Worlds, active : BOOLEAN]
FederatedAction == [source : Worlds, target : Worlds, status : Statuses]

ASSUME FederationAssumption ==
  /\ Nothing \notin Treaty \cup FederatedAction
  /\ MaxExecutions \in Nat

VARIABLES
  worlds,     \* the worlds that were created
  treaty,     \* each treaty: its worlds and whether it is active
  action,     \* each federated action: its worlds and its status
  lineage     \* crossWorldHashes of each world

federationVars == <<worlds, treaty, action, lineage>>

FederationInit ==
  /\ worlds = {}
  /\ treaty = [t \in Treaties |-> Nothing]
  /\ action = [a \in Actions |-> Nothing]
  /\ lineage = [w \in Worlds |-> <<>>]

CreateWorld(w) ==
  /\ w \notin worlds
  /\ worlds' = worlds \cup {w}
  /\ UNCHANGED <<treaty, action, lineage>>

SignTreaty(t, members) ==
  /\ treaty[t] = Nothing
  /\ members \subseteq worlds
  /\ treaty' = [treaty EXCEPT ![t] = [worlds |-> members, active |-> TRUE]]
  /\ UNCHANGED <<worlds, action, lineage>>

ExpireTreaty(t) ==
  /\ treaty[t] # Nothing
  /\ treaty' = [treaty EXCEPT ![t].active = FALSE]
  /\ UNCHANGED <<worlds, action, lineage>>

ProposeFederatedAction(a, source, target) ==
  /\ action[a] = Nothing
  /\ {source, target} \subseteq worlds
  /\ action' = [action EXCEPT ![a] = [source |-> source, target |-> target, status |-> "proposed"]]
  /\ UNCHANGED <<worlds, treaty, lineage>>

\* Is there an active treaty between the worlds of a?
CommonTreaty(a) ==
  \E t \in Treaties :
    /\ treaty[t] # Nothing
    /\ treaty[t].active
    /\ {action[a].source, action[a].target} \subseteq treaty[t].worlds

Set(a, status) ==
  /\ action[a] # Nothing
  /\ action' = [action EXCEPT ![a].status = status]

\* Mutant: a treaty that has expired will do.
AlignUnderAnyTreaty(a) ==
  /\ Set(a, "aligned")
  /\ \E t \in Treaties :
       treaty[t] # Nothing /\ {action[a].source, action[a].target} \subseteq treaty[t].worlds
  /\ UNCHANGED <<worlds, treaty, lineage>>

\* The status is not asked for: an ended action is aligned again.
AlignFederatedAction(a) ==
  /\ Set(a, "aligned")
  /\ CommonTreaty(a)
  /\ UNCHANGED <<worlds, treaty, lineage>>

\* The treaty is not asked for: it may have expired since the alignment.
ExecuteFederatedAction(a) ==
  /\ action[a] # Nothing /\ action[a].status = "aligned"
  /\ Len(lineage[action[a].source]) < MaxExecutions
  /\ Set(a, "executed")
  /\ lineage' = [lineage EXCEPT ![action[a].source] = Append(@, a)]
  /\ UNCHANGED <<worlds, treaty>>

\* rejectFederatedAction and revertFederatedAction, whatever the status.
EndFederatedAction(a, how) ==
  /\ Set(a, how)
  /\ UNCHANGED <<worlds, treaty, lineage>>

FederationNext ==
  \/ \E w \in Worlds : CreateWorld(w)
  \/ \E t \in Treaties :
       ExpireTreaty(t) \/ \E members \in SUBSET worlds \ {{}} : SignTreaty(t, members)
  \/ \E a \in Actions :
       \/ \E source, target \in worlds : ProposeFederatedAction(a, source, target)
       \/ AlignFederatedAction(a)
       \/ ExecuteFederatedAction(a)
       \/ \E how \in {"rejected", "reverted"} : EndFederatedAction(a, how)

FederationSpec == FederationInit /\ [][FederationNext]_federationVars

----------------------------------------------------------------------------
(* Properties *)

\* Every variable has the type the code gives it.
FederationTypeOK ==
  /\ worlds \subseteq Worlds
  /\ treaty \in [Treaties -> Treaty \cup {Nothing}]
  /\ action \in [Actions -> FederatedAction \cup {Nothing}]
  /\ lineage \in [Worlds -> Seq(Actions)]

\* How often an action was executed, by the lineages.
Executed(a) ==
  IF action[a] = Nothing THEN 0
  ELSE Cardinality({i \in DOMAIN lineage[action[a].source] : lineage[action[a].source][i] = a})

\* The refinement mapping.
Covered == {a \in Actions : action[a] # Nothing /\ CommonTreaty(a)}
Consented == {a \in Actions : action[a] # Nothing /\ action[a].status = "aligned"}
Done == [a \in Actions |-> Executed(a)]

\* However actions are rejected, reverted, aligned again and executed again
\* while treaties come and go, the lineage of the source world records one
\* execution per alignment, and each alignment was made under a treaty that
\* was active then.
Contract ==
  INSTANCE FederationContract
    WITH Strict <- FALSE, covered <- Covered, consented <- Consented, done <- Done
ImplementsContract == Contract!Spec

\* P-I007 as modelChecker.ts words it, "Federated actions require an active
\* treaty between worlds": the same, and the treaty is still active, or another
\* one is, when the action is executed.
StrictContract ==
  INSTANCE FederationContract
    WITH Strict <- TRUE, covered <- Covered, consented <- Consented, done <- Done
ImplementsStrictContract == StrictContract!Spec
============================================================================
