---------------------------- MODULE CmasWorkflow ----------------------------
(***************************************************************************)
(* executeFullWorkflow of the CMAS orchestrator: five stages (architect,   *)
(* builder, implementor, validator, reviewer), each governed by the kernel *)
(* under the intent of the workflow's session, run by the bridge of        *)
(* cmas-integration.ts.  Several workflows run concurrently, beside other  *)
(* users of the kernel's exported functions.                               *)
(*                                                                         *)
(* Simplifications:                                                        *)
(*  - A workflow names its intent, and a stage of it its call and the      *)
(*    agent spawned for it: all of them are fresh ids.                     *)
(*  - The five boundaries, registered together, are one boundary, of Team: *)
(*    the action of each stage is in the boundary of its role, and none is *)
(*    an edit.                                                             *)
(*  - What the agents and the services they call produce is left out; that *)
(*    one of them throws or fails its check is CloseSession at that point. *)
(*  - A failure before the session is opened rejects the promise and       *)
(*    leaves the workflow where it is: such a workflow takes no more steps *)
(*    and is left out.                                                     *)
(***************************************************************************)
EXTENDS IntentGovernance

CONSTANTS
  Workflows,       \* by id, which stands for that of the intent as well
  Team,            \* the role that stands for the five
  Obstacles,       \* can the work of a stage fail, APID or validation refuse?
  OutsideTargets   \* statuses that others than the bridge give transitionIntent

Stages == 1..5
Validator == 4

\* stageStatusMap: the status that each finished stage asks for.
StageTarget == <<"evidenced", "authorized", "executing", "validating", "completed">>

ASSUME WorkflowAssumption ==
  /\ Workflows \subseteq Intents
  /\ Workflows \X Stages \subseteq Calls \cap Agents
  /\ Team \in Roles
  /\ Obstacles \in BOOLEAN
  /\ OutsideTargets \cup {StageTarget[n] : n \in Stages} \cup {"rejected"} \subseteq RawTargets

VARIABLES
  pc,               \* pc[w]: where executeFullWorkflow is in workflow w
  stage,            \* stage[w]: the stage it works on
  kernelSeeded,     \* isKernelSeeded()
  sxosInitialized   \* the orchestrator's flag

wvars == <<pc, stage, kernelSeeded, sxosInitialized>>
allvars == <<vars, wvars>>

WorkflowInit ==
  /\ Init
  /\ pc = [w \in Workflows |-> "new"]
  /\ stage = [w \in Workflows |-> 1]
  /\ kernelSeeded = FALSE
  /\ sxosInitialized = FALSE

Goto(w, where) == pc' = [pc EXCEPT ![w] = where]

----------------------------------------------------------------------------
(* initializeSXOS *)

\* createWorkflow, and initializeSXOS up to its first await: it returns at
\* once when somebody has seeded the kernel.
Begin(w) ==
  /\ pc[w] = "new"
  /\ ~sxosInitialized
  /\ Goto(w, IF kernelSeeded THEN "ready" ELSE "seeding")
  /\ UNCHANGED <<vars, stage, kernelSeeded, sxosInitialized>>

\* The seedKernel that initializeSXOS awaits has finished.
Seed(w) ==
  /\ pc[w] = "seeding"
  /\ Goto(w, "registering")
  /\ kernelSeeded' = TRUE
  /\ UNCHANGED <<vars, stage, sxosInitialized>>

RegisterRoles(w) ==
  /\ pc[w] = "registering"
  /\ RegisterBoundary(Team, {"inspect"})
  /\ Goto(w, "ready")
  /\ UNCHANGED <<stage, kernelSeeded, sxosInitialized>>

\* Mutant: a session whose intent is not registered.
OpenUnregistered(w) ==
  /\ pc[w] = "ready" \/ (pc[w] = "new" /\ sxosInitialized)
  /\ sxosInitialized' = TRUE
  /\ Goto(w, "working")
  /\ UNCHANGED <<vars, stage, kernelSeeded>>

\* The orchestrator goes on: sxosInitialized is set, openSession creates the
\* intent of the session.
Open(w) ==
  /\ pc[w] = "ready" \/ (pc[w] = "new" /\ sxosInitialized)
  /\ sxosInitialized' = TRUE
  /\ CreateIntent(w)
  /\ Goto(w, "working")
  /\ UNCHANGED <<stage, kernelSeeded>>

----------------------------------------------------------------------------
(* One stage: governAction, then stageTransition *)

\* kernelGovernAction up to the await of validateAction.
GovernStage(w) ==
  LET c == <<w, stage[w]>> IN
  /\ pc[w] = "working"
  /\ Govern(c, c, Team, "inspect", w)
  /\ Goto(w, IF call'[c] = Idle THEN "blocked" ELSE "validating")
  /\ UNCHANGED <<stage, kernelSeeded, sxosInitialized>>

\* kernelGovernAction refuses early: by APID, by the boundary, or because the
\* intent is not executable.
BlockStage(w) ==
  /\ pc[w] = "working"
  /\ \/ Obstacles
     \/ "inspect" \notin boundary[Team]
     \/ status[w] \notin Executable \cup {"evidenced"}
  /\ Goto(w, "blocked")
  /\ UNCHANGED <<vars, stage, kernelSeeded, sxosInitialized>>

\* The rest of kernelGovernAction.
Judge(w, verdict) ==
  /\ pc[w] = "validating"
  /\ verdict = "refused" => Obstacles
  /\ Finish(<<w, stage[w]>>, verdict)
  /\ Goto(w, IF verdict = "approved" THEN "approved" ELSE "blocked")
  /\ UNCHANGED <<stage, kernelSeeded, sxosInitialized>>

\* Does enforceILC move the intent?
CanAdvance(i) ==
  /\ status[i] \notin Terminal \cup {"absent"}
  /\ status[i] = "proposed" => evidence[i] # {}

\* Mutant: an approval does not advance the intent.
AdvanceIntentNot(w) ==
  /\ pc[w] = "approved"
  /\ Goto(w, "advanced")
  /\ UNCHANGED <<vars, stage, kernelSeeded, sxosInitialized>>

\* The rest of governAction: an approval advances the intent by enforceILC.
AdvanceIntent(w) ==
  /\ pc[w] = "approved"
  /\ IF CanAdvance(w) THEN EnforceILC(w) ELSE UNCHANGED vars
  /\ Goto(w, "advanced")
  /\ UNCHANGED <<stage, kernelSeeded, sxosInitialized>>

\* stageTransition: refused as a regression, or a raw transition.  Its own
\* note in the log is no transition.
StageTransition(w, target) ==
  \/ TransitionIntent(w, target)
  \/ /\ Rank(target) < Rank(status[w])
     /\ target # "rejected"
     /\ UNCHANGED vars

\* The orchestrator after an approved governAction.
StageDone(w) ==
  /\ pc[w] = "advanced"
  /\ StageTransition(w, StageTarget[stage[w]])
  /\ IF stage[w] < 5
     THEN stage' = [stage EXCEPT ![w] = @ + 1] /\ Goto(w, "working")
     ELSE UNCHANGED stage /\ Goto(w, "closing")
  /\ UNCHANGED <<kernelSeeded, sxosInitialized>>

\* Mutant: only what throws or fails a check is caught, a refusal is not.
GivesUpOnErrorOnly(w) ==
  /\ Obstacles
  /\ \/ pc[w] \in {"working", "closing"}
     \/ pc[w] = "advanced" /\ stage[w] = Validator

\* May the workflow give up here?  It does when it was blocked; it may when
\* the work of a stage, the closing one or the validator's report fails.
GivesUp(w) ==
  \/ pc[w] = "blocked"
  \/ Obstacles /\ pc[w] \in {"working", "closing"}
  \/ Obstacles /\ pc[w] = "advanced" /\ stage[w] = Validator

\* Mutant: the session of a failed workflow is left open.
CloseSessionHalf(w, outcome) ==
  /\ \/ outcome = "failed" /\ GivesUp(w) /\ UNCHANGED vars
     \/ outcome = "completed" /\ pc[w] = "closing" /\ StageTransition(w, "completed")
  /\ Goto(w, outcome)
  /\ UNCHANGED <<stage, kernelSeeded, sxosInitialized>>

\* Mutant: the status is set without a record of the transition.
CloseSessionUnlogged(w, outcome) ==
  /\ \/ outcome = "failed" /\ GivesUp(w) /\ status' = [status EXCEPT ![w] = "rejected"]
     \/ outcome = "completed" /\ pc[w] = "closing" /\ status' = [status EXCEPT ![w] = "completed"]
  /\ Goto(w, outcome)
  /\ UNCHANGED <<reached, first, portals, limits, budgets, call, restarts>>
  /\ UNCHANGED <<stage, kernelSeeded, sxosInitialized>>

\* closeSession, and the status of the workflow with it.
CloseSession(w, outcome) ==
  /\ \/ outcome = "failed" /\ GivesUp(w) /\ StageTransition(w, "rejected")
     \/ outcome = "completed" /\ pc[w] = "closing" /\ StageTransition(w, "completed")
  /\ Goto(w, outcome)
  /\ UNCHANGED <<stage, kernelSeeded, sxosInitialized>>

----------------------------------------------------------------------------

\* The other users of the kernel, on the intents of workflows.
Outside ==
  \/ /\ kernelSeeded' = TRUE
     /\ UNCHANGED <<vars, pc, stage, sxosInitialized>>
  \/ /\ \E w \in Workflows :
          \/ \E e \in Evidences : SubmitEvidence(w, e)
          \/ EnforceILC(w)
          \/ \E s \in OutsideTargets : TransitionIntent(w, s)
     /\ UNCHANGED wvars

\* What a workflow that has begun does next.
Continue(w) ==
  \/ Seed(w)
  \/ RegisterRoles(w)
  \/ GovernStage(w)
  \/ BlockStage(w)
  \/ \E v \in {"approved", "refused"} : Judge(w, v)
  \/ AdvanceIntent(w)
  \/ StageDone(w)
  \/ \E outcome \in {"failed", "completed"} : CloseSession(w, outcome)

WorkflowNext ==
  \/ \E w \in Workflows : Begin(w) \/ Open(w) \/ Continue(w)
  \/ Outside

WorkflowSpec == WorkflowInit /\ [][WorkflowNext]_allvars

\* The event loop resumes a workflow whatever it awaits.
Fairness ==
  \A w \in Workflows : WF_allvars(Continue(w)) /\ WF_allvars(Open(w) /\ pc[w] = "ready")

FairWorkflowSpec == WorkflowSpec /\ Fairness

\* Others may end an intent, and otherwise leave the lifecycle to enforceILC.
OutsidersOnlyEnd == OutsideTargets \subseteq {"rejected", "reverted"}

----------------------------------------------------------------------------
(* Properties *)

Ended == {"failed", "completed"}
BeforeSession == {"new", "seeding", "registering", "ready"}

\* Types, those of the kernel included; a workflow past openSession has an
\* intent in the registry, and it waits for the kernel exactly while the call of
\* its stage is validated.
WorkflowTypeOK ==
  /\ TypeOK
  /\ pc \in [Workflows -> BeforeSession \cup Ended \cup
              {"working", "validating", "approved", "advanced", "blocked", "closing"}]
  /\ stage \in [Workflows -> Stages]
  /\ kernelSeeded \in BOOLEAN
  /\ sxosInitialized \in BOOLEAN
  /\ \A w \in Workflows :
       /\ pc[w] \notin BeforeSession => status[w] # "absent"
       /\ pc[w] = "validating" <=> call[<<w, stage[w]>>].pc = "validating"

\* A workflow that gave up has ended its intent, and no later call of anybody
\* opens that intent again.
FailedIsEnded == \A w \in Workflows : pc[w] = "failed" => status[w] \in Terminal

\* Every approved stage has moved the intent, whatever others do to it: at
\* stage n > 1 the intent has ended or is at least n + 1 steps on.  It follows
\* that the validator's stage finds it ended.
StageAdvancesIntent ==
  \A w \in Workflows :
    stage[w] > 1 => status[w] \in Terminal \/ Rank(status[w]) >= stage[w] + 1

\* Consequence: the reviewer's stage is never reached and no workflow is
\* completed, with or without obstacles.
NeverReviewed ==
  \A w \in Workflows : stage[w] <= Validator /\ pc[w] \notin {"closing", "completed"}

\* stageTransition asks neither for order nor for evidence, and yet an intent
\* of a workflow goes through the lifecycle without a gap, and nowhere without
\* evidence, until it is rejected or reverted.
NoGapNoGuess ==
  \A w \in Workflows :
    /\ \A s \in reached[w] \ {"rejected", "reverted"}, t \in Statuses :
         Rank(t) <= Rank(s) => t \in reached[w]
    /\ reached[w] \subseteq {"proposed", "rejected", "reverted"} \/ evidence[w] # {}

\* A workflow that began comes to an end.
WorkflowsEnd ==
  \A w \in Workflows : pc[w] \notin {"new"} \cup Ended ~> pc[w] \in Ended

\* Whatever a workflow does to the kernel is what the kernel allows its users:
\* all that is shown of IntentGovernance holds here.
ImplementsGovernance == Spec

\* CMAS-FIVE-AGENT-SPEC.md, the unified workflow: with nothing in its way, a
\* workflow goes through all five stages.
EveryStageIsReached == \A w \in Workflows : pc[w] = "failed" => stage[w] = 5
============================================================================
