------------------------- MODULE CmasWorkflowProofs -------------------------
(***************************************************************************)
(* Theorems about CmasWorkflow, for any number of workflows and whatever   *)
(* others do to the intents of workflows.                                  *)
(***************************************************************************)
EXTENDS CmasWorkflow, IntentGovernanceProofs

----------------------------------------------------------------------------
(* Every step of a workflow, or of the others, is a step of the kernel.     *)

Places == BeforeSession \cup Ended \cup
          {"working", "validating", "approved", "advanced", "blocked", "closing"}

LocalType ==
  /\ pc \in [Workflows -> Places]
  /\ stage \in [Workflows -> Stages]
  /\ kernelSeeded \in BOOLEAN
  /\ sxosInitialized \in BOOLEAN

LEMMA WorkflowNames ==
  ASSUME NEW w \in Workflows, NEW n \in Stages
  PROVE  w \in Intents /\ <<w, n>> \in Calls /\ <<w, n>> \in Agents
BY WorkflowAssumption

LEMMA LocalTypeStep == LocalType /\ [WorkflowNext]_allvars => LocalType'
<1> SUFFICES ASSUME LocalType, [WorkflowNext]_allvars
             PROVE  LocalType'
  OBVIOUS
<1> USE DEF LocalType, Places, BeforeSession, Ended, Goto
<1>1. ASSUME NEW w \in Workflows, Begin(w)
      PROVE  LocalType'
  BY <1>1 DEF Begin
<1>2. ASSUME NEW w \in Workflows, Open(w)
      PROVE  LocalType'
  BY <1>2 DEF Open
<1>3. ASSUME NEW w \in Workflows, Seed(w) \/ RegisterRoles(w)
      PROVE  LocalType'
  BY <1>3 DEF Seed, RegisterRoles
<1>4. ASSUME NEW w \in Workflows, GovernStage(w) \/ BlockStage(w)
      PROVE  LocalType'
  BY <1>4 DEF GovernStage, BlockStage
<1>5. ASSUME NEW w \in Workflows, NEW v \in {"approved", "refused"}, Judge(w, v)
      PROVE  LocalType'
  BY <1>5 DEF Judge
<1>6. ASSUME NEW w \in Workflows, AdvanceIntent(w)
      PROVE  LocalType'
  BY <1>6 DEF AdvanceIntent
<1>7. ASSUME NEW w \in Workflows, StageDone(w)
      PROVE  LocalType'
  <2>1. CASE stage[w] < 5
    <3>1. stage[w] + 1 \in Stages
      BY <2>1 DEF Stages
    <3>2. QED
      BY <1>7, <2>1, <3>1 DEF StageDone
  <2>2. CASE ~(stage[w] < 5)
    BY <1>7, <2>2 DEF StageDone
  <2>3. QED
    BY <2>1, <2>2
<1>8. ASSUME NEW w \in Workflows, NEW outcome \in {"failed", "completed"},
             CloseSession(w, outcome)
      PROVE  LocalType'
  BY <1>8 DEF CloseSession
<1>9. ASSUME Outside
      PROVE  LocalType'
  BY <1>9 DEF Outside, wvars
<1>10. CASE UNCHANGED allvars
  BY <1>10 DEF allvars, wvars
<1>11. QED
  BY <1>1, <1>2, <1>3, <1>4, <1>5, <1>6, <1>7, <1>8, <1>9, <1>10 DEF WorkflowNext, Continue

(* What each action does to the kernel.  Living is a step of a process that *)
(* is not restarted.                                                        *)
Living == [Next]_vars /\ restarts' = restarts

LEMMA TransitionLives ==
  ASSUME NEW w \in Workflows, NEW target, StageTransition(w, target)
  PROVE  Living
<1>1. CASE TransitionIntent(w, target)
  <2>1. target \in Statuses /\ w \in Intents
    BY <1>1, GovernanceAssumption, WorkflowAssumption DEF TransitionIntent
  <2>2. QED
    BY <1>1, <2>1 DEF TransitionIntent, Next, Living
<1>2. CASE UNCHANGED vars
  BY <1>2 DEF vars, Living
<1>3. QED
  BY <1>1, <1>2 DEF StageTransition

LEMMA WorkflowStepLives == LocalType /\ [WorkflowNext]_allvars => Living
<1> SUFFICES ASSUME LocalType, [WorkflowNext]_allvars
             PROVE  Living
  OBVIOUS
<1>1. ASSUME NEW w \in Workflows, Begin(w) \/ Seed(w) \/ BlockStage(w)
      PROVE  Living
  BY <1>1 DEF Begin, Seed, BlockStage, vars, Living
<1>2. ASSUME NEW w \in Workflows, Open(w)
      PROVE  Living
  <2>1. CreateIntent(w) /\ w \in Intents
    BY <1>2, WorkflowAssumption DEF Open
  <2>2. QED
    BY <2>1 DEF CreateIntent, Next, Living
<1>3. ASSUME NEW w \in Workflows, RegisterRoles(w)
      PROVE  Living
  <2>1. RegisterBoundary(Team, {"inspect"}) /\ Team \in Roles /\ {"inspect"} \in SUBSET Types
    BY <1>3, WorkflowAssumption DEF RegisterRoles, Types
  <2>2. \E r \in Roles, allowed \in SUBSET Types : RegisterBoundary(r, allowed)
    BY <2>1
  <2>3. restarts' = restarts
    BY <2>1 DEF RegisterBoundary
  <2>4. QED
    BY <2>2, <2>3 DEF Next, Living
<1>4. ASSUME NEW w \in Workflows, GovernStage(w)
      PROVE  Living
  <2> DEFINE c == <<w, stage[w]>>
  <2>1. c \in Calls /\ c \in Agents /\ w \in Intents
    BY WorkflowNames DEF LocalType
  <2>2. Govern(c, c, Team, "inspect", w) /\ Team \in Roles /\ "inspect" \in Types
    BY <1>4, WorkflowAssumption DEF GovernStage, Types
  <2> HIDE DEF c
  <2>3. \E d \in Calls, a \in Agents, r \in Roles, t \in Types, i \in Intents : Govern(d, a, r, t, i)
    BY <2>1, <2>2
  <2>4. restarts' = restarts
    BY <2>2 DEF Govern
  <2>5. QED
    BY <2>3, <2>4 DEF Next, Living
<1>5. ASSUME NEW w \in Workflows, NEW v \in {"approved", "refused"}, Judge(w, v)
      PROVE  Living
  <2>1. Finish(<<w, stage[w]>>, v) /\ <<w, stage[w]>> \in Calls
    BY <1>5, WorkflowNames DEF Judge, LocalType
  <2>2. restarts' = restarts
    BY <2>1 DEF Finish
  <2>3. QED
    BY <2>1, <2>2 DEF Next, Living
<1>6. ASSUME NEW w \in Workflows, EnforceILC(w)
      PROVE  Living
  <2>1. w \in Intents
    BY WorkflowAssumption
  <2>2. QED
    BY <1>6, <2>1 DEF EnforceILC, Next, Living
<1>7. ASSUME NEW w \in Workflows, AdvanceIntent(w)
      PROVE  Living
  BY <1>6, <1>7 DEF AdvanceIntent, vars, Living
<1>8. ASSUME NEW w \in Workflows, StageDone(w)
      PROVE  Living
  BY <1>8, TransitionLives DEF StageDone
<1>9. ASSUME NEW w \in Workflows, NEW outcome \in {"failed", "completed"},
             CloseSession(w, outcome)
      PROVE  Living
  BY <1>9, TransitionLives DEF CloseSession
<1>10. ASSUME Outside
       PROVE  Living
  <2>1. CASE UNCHANGED vars
    BY <2>1 DEF vars, Living
  <2>2. ASSUME NEW w \in Workflows, NEW e \in Evidences, SubmitEvidence(w, e)
        PROVE  Living
    <3>1. w \in Intents
      BY WorkflowAssumption
    <3>2. QED
      BY <2>2, <3>1 DEF SubmitEvidence, Next, Living
  <2>3. ASSUME NEW w \in Workflows, NEW s, TransitionIntent(w, s)
        PROVE  Living
    BY <2>3, TransitionLives DEF StageTransition
  <2>4. QED
    BY <1>6, <1>10, <2>1, <2>2, <2>3 DEF Outside
<1>11. CASE UNCHANGED allvars
  BY <1>11 DEF allvars, vars, Living
<1>12. QED
  BY <1>1, <1>2, <1>3, <1>4, <1>5, <1>7, <1>8, <1>9, <1>10, <1>11 DEF WorkflowNext, Continue

LEMMA LocalTypes == WorkflowSpec => []LocalType
<1>1. WorkflowInit => LocalType
  <2>1. 1 \in Stages /\ "new" \in Places
    BY DEF Stages, Places, BeforeSession
  <2>2. QED
    BY <2>1, Zenon DEF WorkflowInit, LocalType
<1>2. QED
  BY <1>1, LocalTypeStep, PTL DEF WorkflowSpec

(* What workflows and the others do to the kernel is what the kernel allows *)
(* its users: every theorem about IntentGovernance holds of its workflows.  *)
THEOREM WorkflowsImplementGovernance == WorkflowSpec => ImplementsGovernance
<1>1. WorkflowInit => Init
  BY DEF WorkflowInit
<1>2. LocalType /\ [WorkflowNext]_allvars => [Next]_vars
  BY WorkflowStepLives DEF Living
<1>3. QED
  BY <1>1, <1>2, LocalTypes, PTL DEF WorkflowSpec, Spec, ImplementsGovernance

LEMMA KernelInvariants == WorkflowSpec => [](LocalType /\ TypeOK /\ LogInv)
BY LocalTypes, WorkflowsImplementGovernance, TypeCorrect, LogInvariant, PTL
DEF ImplementsGovernance

----------------------------------------------------------------------------
(* While the process lives, no step takes an intent back: it ends, or its   *)
(* rank stays or grows, whoever makes the step.                             *)

Moved(i, k) == status[i] \in Terminal \/ (status[i] # "absent" /\ Rank(status[i]) >= k)

LEMMA LivingMoves ==
  ASSUME TypeOK, Living
  PROVE  \A j \in Intents, k \in Nat : Moved(j, k) => Moved(j, k)'
<1> SUFFICES ASSUME NEW j \in Intents, NEW k \in Nat, Moved(j, k)
             PROVE  Moved(j, k)'
  OBVIOUS
<1>1. CASE status[j] \in Terminal
  BY <1>1, EndedStep DEF Living, StaysEnded, Moved
<1>2. CASE status[j] \notin Terminal
  <2>1. status[j] # "absent" /\ status[j] # "reverted" /\ Rank(status[j]) >= k
    BY <1>2 DEF Moved, Terminal
  <2>2. status'[j] # "absent" /\ Rank(status'[j]) >= Rank(status[j])
    BY <2>1, ForwardStep DEF Living, GoesForward
  <2>3. status[j] \in Statuses /\ status'[j] \in Statuses
    BY <2>1, <2>2, TypeStep DEF TypeOK, Living
  <2>4. QED
    BY <2>1, <2>2, <2>3, Ranks DEF Moved
<1>3. QED
  BY <1>1, <1>2

----------------------------------------------------------------------------
(* A step is one of a workflow w, or leaves w and its calls alone.          *)

OfWorkflow(w) == Begin(w) \/ Open(w) \/ Continue(w)

Apart(w) ==
  /\ pc'[w] = pc[w] /\ stage'[w] = stage[w]
  /\ \A n \in Stages : call'[<<w, n>>] = call[<<w, n>>]

LEMMA StepApart ==
  ASSUME LocalType, TypeOK, [WorkflowNext]_allvars, NEW w \in Workflows, ~OfWorkflow(w)
  PROVE  Apart(w)
<1>1. CASE Outside
  BY <1>1 DEF Outside, Apart, wvars, vars, SubmitEvidence, EnforceILC, TransitionIntent
<1>2. CASE UNCHANGED allvars
  BY <1>2 DEF allvars, wvars, vars, Apart
<1>3. ASSUME NEW u \in Workflows, OfWorkflow(u)
      PROVE  Apart(w)
  <2>1. u # w
    BY <1>3
  <2>2. pc'[w] = pc[w] /\ stage'[w] = stage[w]
    BY <1>3, <2>1
    DEF LocalType, OfWorkflow, Continue, Begin, Open, Seed, RegisterRoles, GovernStage, BlockStage,
        Judge, AdvanceIntent, StageDone, CloseSession, Goto
  <2>3. CASE UNCHANGED call
    BY <2>2, <2>3 DEF Apart
  <2>4. CASE GovernStage(u) \/ \E v \in {"approved", "refused"} : Judge(u, v)
    <3>1. \A n \in Stages : <<w, n>> # <<u, stage[u]>>
      BY <2>1
    <3>2. UNCHANGED call \/ \E x : call' = [call EXCEPT ![<<u, stage[u]>>] = x]
      BY <2>4 DEF GovernStage, Judge, Govern, Finish
    <3>3. \A n \in Stages : <<w, n>> \in Calls
      BY WorkflowNames
    <3>4. QED
      BY <2>2, <3>1, <3>2, <3>3 DEF Apart, TypeOK
  <2>5. QED
    BY <1>3, <2>3, <2>4
    DEF OfWorkflow, Continue, Begin, Open, Seed, RegisterRoles, BlockStage, AdvanceIntent,
        StageDone, CloseSession, StageTransition, CreateIntent, RegisterBoundary, EnforceILC,
        TransitionIntent, vars
<1>4. QED
  BY <1>1, <1>2, <1>3 DEF WorkflowNext, OfWorkflow

----------------------------------------------------------------------------
(* A workflow and what it left in the kernel.  Of all calls of a workflow,  *)
(* not only that of its stage, the one that is validated is known.          *)

FlowInv(w) ==
  /\ pc[w] \notin BeforeSession => Moved(w, 0)
  /\ pc[w] = "failed" => status[w] \in Terminal
  /\ \A n \in Stages :
       call[<<w, n>>].pc = "validating" <=> pc[w] = "validating" /\ n = stage[w]

LEMMA FlowApart ==
  ASSUME LocalType, TypeOK, Living, NEW w \in Workflows, FlowInv(w), Apart(w)
  PROVE  FlowInv(w)'
<1>1. w \in Intents
  BY WorkflowAssumption
<1>2. Moved(w, 0) => Moved(w, 0)'
  BY <1>1, LivingMoves
<1>3. status[w] \in Terminal => status'[w] \in Terminal
  BY <1>1, EndedStep DEF Living, StaysEnded
<1>4. QED
  BY <1>2, <1>3 DEF FlowInv, Apart

LEMMA FlowOwn ==
  ASSUME LocalType, TypeOK, Living, NEW w \in Workflows, FlowInv(w), OfWorkflow(w)
  PROVE  FlowInv(w)'
<1> DEFINE c == <<w, stage[w]>>
<1>1. w \in Intents /\ c \in Calls /\ \A n \in Stages : <<w, n>> \in Calls
  BY WorkflowNames DEF LocalType
<1>2. Moved(w, 0) => Moved(w, 0)'
  BY <1>1, LivingMoves
<1>3. ASSUME UNCHANGED call, pc[w] # "validating", pc'[w] # "validating",
             pc'[w] \in BeforeSession \/ Moved(w, 0)',
             pc'[w] = "failed" => status'[w] \in Terminal
      PROVE  FlowInv(w)'
  BY <1>3 DEF FlowInv
<1>4. ASSUME Begin(w) \/ Seed(w) \/ RegisterRoles(w)
      PROVE  FlowInv(w)'
  <2>1. UNCHANGED call /\ pc[w] \in BeforeSession /\ pc'[w] \in BeforeSession
    BY <1>4 DEF Begin, Seed, RegisterRoles, RegisterBoundary, vars, Goto, LocalType, BeforeSession
  <2>2. QED
    BY <1>3, <2>1 DEF BeforeSession
<1>5. ASSUME Open(w)
      PROVE  FlowInv(w)'
  <2>1. UNCHANGED call /\ pc[w] # "validating" /\ pc'[w] = "working"
    BY <1>5 DEF Open, CreateIntent, Goto, LocalType
  <2>2. status'[w] = "proposed"
    BY <1>1, <1>5 DEF Open, CreateIntent, TypeOK
  <2>3. Moved(w, 0)'
    BY <2>2 DEF Moved, Rank
  <2>4. QED
    BY <1>3, <2>1, <2>3
<1>6. ASSUME BlockStage(w) \/ AdvanceIntent(w) \/ StageDone(w)
      PROVE  FlowInv(w)'
  <2>1. UNCHANGED call /\ pc[w] \in {"working", "approved", "advanced"}
        /\ pc'[w] \in {"blocked", "advanced", "working", "closing"}
    BY <1>6 DEF BlockStage, AdvanceIntent, StageDone, StageTransition, EnforceILC,
                TransitionIntent, vars, Goto, LocalType
  <2>2. Moved(w, 0)'
    BY <1>2, <2>1 DEF FlowInv, BeforeSession
  <2>3. QED
    BY <1>3, <2>1, <2>2
<1>7. ASSUME GovernStage(w)
      PROVE  FlowInv(w)'
  <2>1. call[c] = Idle /\ pc[w] = "working" /\ stage'[w] = stage[w]
        /\ pc'[w] = (IF call'[c] = Idle THEN "blocked" ELSE "validating")
    BY <1>7 DEF GovernStage, Govern, Goto, LocalType
  <2>2. Moved(w, 0)'
    BY <1>2, <2>1 DEF FlowInv, BeforeSession
  <2>3. CASE UNCHANGED call
    BY <1>3, <2>1, <2>2, <2>3
  <2>4. CASE \E b : call' = [call EXCEPT ![c] =
               [pc |-> "validating", agent |-> c, role |-> Team, type |-> "inspect",
                intent |-> w, budget |-> b]]
    <3>1. call'[c].pc = "validating" /\ \A d \in Calls \ {c} : call'[d] = call[d]
      BY <1>1, <2>4 DEF TypeOK
    <3>2. pc'[w] = "validating"
      BY <2>1, <3>1 DEF Idle
    <3>3. ASSUME NEW n \in Stages
          PROVE  call'[<<w, n>>].pc = "validating" <=> n = stage[w]
      <4>1. CASE n = stage[w]
        BY <3>1, <4>1
      <4>2. CASE n # stage[w]
        <5>1. call'[<<w, n>>] = call[<<w, n>>]
          BY <1>1, <3>1, <4>2
        <5>2. QED
          BY <2>1, <4>2, <5>1 DEF FlowInv
      <4>3. QED
        BY <4>1, <4>2
    <3>4. QED
      BY <2>1, <2>2, <3>2, <3>3 DEF FlowInv
  <2>5. QED
    BY <1>7, <2>3, <2>4 DEF GovernStage, Govern
<1>8. ASSUME NEW v \in {"approved", "refused"}, Judge(w, v)
      PROVE  FlowInv(w)'
  <2>1. /\ pc[w] = "validating" /\ pc'[w] \in {"approved", "blocked"} /\ stage'[w] = stage[w]
        /\ call' = [call EXCEPT ![c] = [call[c] EXCEPT !.pc = v]]
    BY <1>8 DEF Judge, Finish, Goto, LocalType
  <2>2. Moved(w, 0)'
    BY <1>2, <2>1 DEF FlowInv, BeforeSession
  <2>3. call'[c].pc = v /\ \A d \in Calls \ {c} : call'[d] = call[d]
    BY <1>1, <2>1 DEF TypeOK, CallRecord
  <2>4. ASSUME NEW n \in Stages
        PROVE  call'[<<w, n>>].pc # "validating"
    <3>1. CASE n = stage[w]
      BY <2>3, <3>1
    <3>2. CASE n # stage[w]
      BY <1>1, <2>3, <3>2 DEF FlowInv
    <3>3. QED
      BY <3>1, <3>2
  <2>5. QED
    BY <2>1, <2>2, <2>4 DEF FlowInv, BeforeSession
<1>9. ASSUME NEW outcome \in {"failed", "completed"}, CloseSession(w, outcome)
      PROVE  FlowInv(w)'
  <2>1. /\ UNCHANGED call /\ pc'[w] = outcome
        /\ pc[w] \in {"blocked", "working", "closing", "advanced"}
    BY <1>9 DEF CloseSession, GivesUp, StageTransition, TransitionIntent, vars, Goto, LocalType
  <2>2. Moved(w, 0)'
    BY <1>2, <2>1 DEF FlowInv, BeforeSession
  <2>3. outcome = "failed" => status'[w] = "rejected"
    <3>1. outcome = "failed" => TransitionIntent(w, "rejected")
      BY <1>9 DEF CloseSession, StageTransition
    <3>2. QED
      BY <1>1, <3>1 DEF TransitionIntent, Transition, TypeOK
  <2>4. QED
    BY <1>3, <2>1, <2>2, <2>3 DEF Terminal
<1>10. QED
  BY <1>4, <1>5, <1>6, <1>7, <1>8, <1>9 DEF OfWorkflow, Continue

LEMMA FlowInvariant == WorkflowSpec => [](\A w \in Workflows : FlowInv(w))
<1>1. WorkflowInit => \A w \in Workflows : FlowInv(w)
  BY WorkflowNames DEF WorkflowInit, Init, FlowInv, BeforeSession, Idle
<1>2. LocalType /\ TypeOK /\ (\A w \in Workflows : FlowInv(w)) /\ [WorkflowNext]_allvars
      => (\A w \in Workflows : FlowInv(w))'
  BY WorkflowStepLives, StepApart, FlowApart, FlowOwn
<1>3. QED
  BY <1>1, <1>2, KernelInvariants, PTL DEF WorkflowSpec

(* Types, and that a workflow past openSession has an intent and waits for  *)
(* the kernel exactly while the call of its stage is validated.             *)
THEOREM WorkflowTypes == WorkflowSpec => []WorkflowTypeOK
<1>1. LocalType /\ TypeOK /\ (\A w \in Workflows : FlowInv(w)) => WorkflowTypeOK
  BY DEF LocalType, Places, FlowInv, Moved, Terminal, WorkflowTypeOK
<1>2. QED
  BY <1>1, KernelInvariants, FlowInvariant, PTL

(* The intent of a workflow that gave up has ended, and nobody opens it     *)
(* again, whatever statuses others ask for.                                 *)
THEOREM FailedStaysEnded == WorkflowSpec => []FailedIsEnded
<1>1. (\A w \in Workflows : FlowInv(w)) => FailedIsEnded
  BY DEF FlowInv, FailedIsEnded
<1>2. QED
  BY <1>1, FlowInvariant, PTL

----------------------------------------------------------------------------
(* Every approval moves the intent: what StageAdvancesIntent says between   *)
(* two stages, StageInv says at every point of one.                         *)

StageInv(w) ==
  /\ stage[w] > 1 => Moved(w, stage[w] + 1)
  /\ pc[w] \in {"validating", "approved"} => stage[w] <= 3 /\ Moved(w, stage[w] + 1)
  /\ pc[w] = "advanced" => stage[w] <= 3 /\ Moved(w, stage[w] + 2)
  /\ stage[w] <= Validator
  /\ pc[w] \notin {"closing", "completed"}

LEMMA StageApart ==
  ASSUME LocalType, TypeOK, Living, NEW w \in Workflows, StageInv(w), Apart(w)
  PROVE  StageInv(w)'
<1>1. w \in Intents /\ stage[w] + 1 \in Nat /\ stage[w] + 2 \in Nat
  BY WorkflowAssumption DEF LocalType, Stages
<1>2. /\ Moved(w, stage[w] + 1) => status'[w] \in Terminal
           \/ (status'[w] # "absent" /\ Rank(status'[w]) >= stage[w] + 1)
      /\ Moved(w, stage[w] + 2) => status'[w] \in Terminal
           \/ (status'[w] # "absent" /\ Rank(status'[w]) >= stage[w] + 2)
  BY <1>1, LivingMoves DEF Moved
<1>3. QED
  BY <1>2 DEF StageInv, Apart, Moved

LEMMA StageOwn ==
  ASSUME LocalType, TypeOK, Living, NEW w \in Workflows, StageInv(w), OfWorkflow(w)
  PROVE  StageInv(w)'
<1> DEFINE n == stage[w]
           On(k) == status'[w] \in Terminal \/ (status'[w] # "absent" /\ Rank(status'[w]) >= k)
<1>1. w \in Intents /\ n \in Stages /\ n + 1 \in Nat /\ n + 2 \in Nat
  BY WorkflowAssumption DEF LocalType, Stages
<1>2. (Moved(w, n + 1) => On(n + 1)) /\ (Moved(w, n + 2) => On(n + 2))
  BY <1>1, LivingMoves DEF Moved
<1>3. ASSUME stage'[w] = n,
             pc'[w] \in BeforeSession \cup {"working", "blocked", "failed"}
      PROVE  StageInv(w)'
  BY <1>2, <1>3 DEF StageInv, Moved, BeforeSession
<1>4. ASSUME Begin(w) \/ Open(w) \/ Seed(w) \/ RegisterRoles(w) \/ BlockStage(w)
      PROVE  StageInv(w)'
  <2>1. stage'[w] = n /\ pc'[w] \in BeforeSession \cup {"working", "blocked", "failed"}
    BY <1>4 DEF Begin, Open, Seed, RegisterRoles, BlockStage, Goto, LocalType, BeforeSession
  <2>2. QED
    BY <1>3, <2>1
<1>5. ASSUME GovernStage(w)
      PROVE  StageInv(w)'
  <2>1. /\ stage'[w] = n /\ pc[w] = "working" /\ Advance(w, "inspect")
        /\ pc'[w] \in {"blocked", "validating"}
    BY <1>5 DEF GovernStage, Govern, Goto, LocalType
  <2>2. n <= 3 /\ On(n + 1)
    <3>1. n > 1 => Moved(w, n + 1)
      BY DEF StageInv
    <3>2. CASE status[w] \in Executable /\ UNCHANGED registry
      <4>1. status[w] \notin Terminal /\ Rank(status[w]) \in 2..4 /\ status'[w] = status[w]
        BY <3>2 DEF Executable, Terminal, Rank, registry
      <4>2. n > 1 => Rank(status[w]) >= n + 1
        BY <3>1, <4>1 DEF Moved
      <4>3. Rank(status[w]) >= n + 1 /\ n <= 3
        BY <1>1, <4>1, <4>2 DEF Stages
      <4>4. QED
        BY <3>2, <4>1, <4>3 DEF Executable
    <3>3. CASE status[w] = "evidenced" /\ Transition(w, "authorized", "authorized")
      <4>1. n = 1
        BY <1>1, <3>1, <3>3 DEF Moved, Terminal, Rank, Stages
      <4>2. status'[w] = "authorized"
        BY <1>1, <3>3 DEF Transition, TypeOK
      <4>3. QED
        BY <4>1, <4>2 DEF Rank
    <3>4. QED
      BY <2>1, <3>2, <3>3 DEF Advance
  <2>3. QED
    BY <1>1, <2>1, <2>2 DEF StageInv, Moved, Stages, Validator
<1>6. ASSUME NEW v \in {"approved", "refused"}, Judge(w, v)
      PROVE  StageInv(w)'
  <2>1. stage'[w] = n /\ pc[w] = "validating" /\ pc'[w] \in {"approved", "blocked"}
    BY <1>6 DEF Judge, Goto, LocalType
  <2>2. n <= 3 /\ On(n + 1)
    BY <1>2, <2>1 DEF StageInv
  <2>3. QED
    BY <1>1, <2>1, <2>2 DEF StageInv, Moved, Stages, Validator
<1>7. ASSUME AdvanceIntent(w)
      PROVE  StageInv(w)'
  <2>1. stage'[w] = n /\ pc[w] = "approved" /\ pc'[w] = "advanced"
    BY <1>7 DEF AdvanceIntent, Goto, LocalType
  <2>2. n <= 3 /\ Moved(w, n + 1) /\ On(n + 1)
    BY <1>2, <2>1 DEF StageInv
  <2>3. On(n + 2)
    <3>1. CASE status[w] \in Terminal
      BY <1>1, <3>1, EndedStep DEF Living, StaysEnded
    <3>2. CASE status[w] \notin Terminal
      <4>1. status[w] \in Statuses /\ Rank(status[w]) >= n + 1 /\ status[w] # "proposed"
        <5>1. status[w] \in Statuses /\ Rank(status[w]) >= n + 1
          BY <1>1, <2>2, <3>2 DEF Moved, TypeOK
        <5>2. Rank("proposed") = 0 /\ n \in 1..5
          BY <1>1 DEF Rank, Stages
        <5>3. QED
          BY <1>1, <5>1, <5>2, Ranks
      <4>2. EnforceILC(w)
        BY <1>7, <3>2, <4>1 DEF AdvanceIntent, CanAdvance, Statuses
      <4>3. PICK next \in Statuses : Rank(next) = Rank(status[w]) + 1 /\ Transition(w, next, next)
        BY <4>2 DEF EnforceILC
      <4>4. status'[w] = next /\ next # "absent"
        BY <1>1, <4>3 DEF Transition, TypeOK, Statuses
      <4>5. Rank(next) >= n + 2
        BY <1>1, <4>1, <4>3, Ranks DEF Stages
      <4>6. QED
        BY <4>4, <4>5
    <3>3. QED
      BY <3>1, <3>2
  <2>4. QED
    BY <1>1, <2>1, <2>2, <2>3 DEF StageInv, Moved, Stages, Validator
<1>8. ASSUME StageDone(w)
      PROVE  StageInv(w)'
  <2>1. pc[w] = "advanced" /\ n <= 3 /\ On(n + 2)
    BY <1>2, <1>8 DEF StageDone, StageInv
  <2>2. stage'[w] = n + 1 /\ pc'[w] = "working"
    BY <1>1, <1>8, <2>1 DEF StageDone, Goto, LocalType, Stages
  <2>3. n + 1 <= Validator /\ n + 1 + 1 = n + 2
    BY <1>1, <2>1 DEF Stages, Validator
  <2>4. QED
    BY <2>1, <2>2, <2>3 DEF StageInv, Moved
<1>9. ASSUME NEW outcome \in {"failed", "completed"}, CloseSession(w, outcome)
      PROVE  StageInv(w)'
  <2>1. outcome = "failed" /\ pc'[w] = "failed" /\ stage'[w] = n
    BY <1>9 DEF CloseSession, StageInv, Goto, LocalType
  <2>2. QED
    BY <1>3, <2>1
<1>10. QED
  BY <1>4, <1>5, <1>6, <1>7, <1>8, <1>9 DEF OfWorkflow, Continue

LEMMA StageInvariant == WorkflowSpec => [](\A w \in Workflows : StageInv(w))
<1>1. WorkflowInit => \A w \in Workflows : StageInv(w)
  BY DEF WorkflowInit, StageInv, Validator
<1>2. LocalType /\ TypeOK /\ (\A w \in Workflows : StageInv(w)) /\ [WorkflowNext]_allvars
      => (\A w \in Workflows : StageInv(w))'
  BY WorkflowStepLives, StepApart, StageApart, StageOwn
<1>3. QED
  BY <1>1, <1>2, KernelInvariants, PTL DEF WorkflowSpec

(* Every approved stage has moved the intent by one, or it has ended,       *)
(* whatever others ask transitionIntent for.                                *)
THEOREM StagesAdvance == WorkflowSpec => []StageAdvancesIntent
<1>1. (\A w \in Workflows : StageInv(w)) => StageAdvancesIntent
  BY DEF StageInv, Moved, StageAdvancesIntent
<1>2. QED
  BY <1>1, StageInvariant, PTL

(* The stage of the reviewer is never reached and no workflow completed,    *)
(* whatever others do to its intent.                                        *)
THEOREM ReviewerNeverCalled == WorkflowSpec => []NeverReviewed
<1>1. (\A w \in Workflows : StageInv(w)) => NeverReviewed
  BY DEF StageInv, NeverReviewed
<1>2. QED
  BY <1>1, StageInvariant, PTL

----------------------------------------------------------------------------
(* The lifecycle without a discipline: the bridge asks transitionIntent for *)
(* a status that the intent is always past, so that the request is refused. *)

LifecycleKept ==
  \A i \in Intents :
    /\ \A s \in reached[i] \ Ending, t \in Statuses : Rank(t) <= Rank(s) => t \in reached[i]
    /\ reached[i] \subseteq {"proposed"} \cup Ending \/ evidence[i] # {}

(* The steps of the kernel that workflows and such others are left with.    *)
Lawful ==
  \/ \E i \in Intents : CreateIntent(i) \/ EnforceILC(i)
  \/ \E i \in Intents, s \in Ending : TransitionIntent(i, s)
  \/ \E i \in Intents, e \in Evidences : SubmitEvidence(i, e)
  \/ \E c \in Calls, a \in Agents, r \in Roles, i \in Intents : Govern(c, a, r, "inspect", i)
  \/ UNCHANGED <<status, reached, evidence>>

(* A transition to the next status, on evidence, leaves no gap.             *)
LEMMA NextKeepsLifecycle ==
  ASSUME TypeOK, LogInv, LifecycleKept, NEW i \in Intents, NEW next \in Statuses,
         Transition(i, next, next), evidence' = evidence,
         status[i] \in Statuses \ Terminal, Rank(next) = Rank(status[i]) + 1,
         status[i] = "proposed" => evidence[i] # {}
  PROVE  LifecycleKept'
<1>1. status[i] \in reached[i] \ Ending /\ reached[i] \in SUBSET Statuses
  BY DEF LogInv, Terminal, Ending, TypeOK, Statuses
<1>2. evidence[i] # {}
  BY <1>1 DEF LifecycleKept, Ending
<1>3. \A t \in Statuses : Rank(t) <= Rank(next) => t \in reached[i] \cup {next}
  <2>1. \A t \in Statuses : Rank(t) = Rank(next) => t = next
    BY DEF Statuses, Rank
  <2>2. \A t \in Statuses : Rank(t) <= Rank(status[i]) => t \in reached[i]
    BY <1>1 DEF LifecycleKept
  <2>3. QED
    BY <2>1, <2>2, Ranks
<1>4. reached' = [reached EXCEPT ![i] = @ \cup {next}]
  BY DEF Transition, TypeOK
<1>5. ASSUME NEW j \in Intents
      PROVE  /\ \A s \in reached'[j] \ Ending, t \in Statuses : Rank(t) <= Rank(s) => t \in reached'[j]
             /\ reached'[j] \subseteq {"proposed"} \cup Ending \/ evidence'[j] # {}
  <2>1. CASE j = i
    <3>1. reached'[j] = reached[i] \cup {next}
      BY <1>4, <2>1 DEF TypeOK
    <3>2. \A s \in reached[i] \ Ending, t \in Statuses : Rank(t) <= Rank(s) => t \in reached[i]
      BY DEF LifecycleKept
    <3>3. QED
      BY <1>2, <1>3, <2>1, <3>1, <3>2
  <2>2. CASE j # i
    BY <1>4, <2>2 DEF TypeOK, LifecycleKept
  <2>3. QED
    BY <2>1, <2>2
<1>6. QED
  BY <1>5 DEF LifecycleKept

LEMMA LifecycleKeptStep == TypeOK /\ LogInv /\ LifecycleKept /\ Lawful => LifecycleKept'
<1> SUFFICES ASSUME TypeOK, LogInv, LifecycleKept, Lawful
             PROVE  LifecycleKept'
  OBVIOUS
<1>1. ASSUME NEW i \in Intents, CreateIntent(i)
      PROVE  LifecycleKept'
  <2>1. /\ reached' = [reached EXCEPT ![i] = {"proposed"}] /\ evidence' = evidence
        /\ \A t \in Statuses : Rank(t) <= Rank("proposed") => t = "proposed"
    BY <1>1 DEF CreateIntent, portals, Statuses, Rank
  <2>2. QED
    BY <2>1 DEF TypeOK, LifecycleKept
<1>2. ASSUME NEW i \in Intents, EnforceILC(i)
      PROVE  LifecycleKept'
  <2>1. PICK next \in Statuses : Rank(next) = Rank(status[i]) + 1 /\ Transition(i, next, next)
    BY <1>2 DEF EnforceILC
  <2>2. /\ status[i] \in Statuses \ Terminal /\ evidence' = evidence
        /\ status[i] = "proposed" => evidence[i] # {}
    BY <1>2 DEF EnforceILC, TypeOK, portals
  <2>3. QED
    BY <2>1, <2>2, NextKeepsLifecycle
<1>3. ASSUME NEW i \in Intents, NEW s \in Ending, TransitionIntent(i, s)
      PROVE  LifecycleKept'
  <2>1. evidence' = evidence /\ reached' = [reached EXCEPT ![i] = @ \cup {s}]
    BY <1>3 DEF TransitionIntent, Transition, TypeOK, portals
  <2>2. QED
    BY <2>1 DEF TypeOK, LifecycleKept
<1>4. ASSUME NEW i \in Intents, NEW e \in Evidences, SubmitEvidence(i, e)
      PROVE  LifecycleKept'
  BY <1>4 DEF SubmitEvidence, registry, TypeOK, LifecycleKept
<1>5. ASSUME NEW c \in Calls, NEW a \in Agents, NEW r \in Roles, NEW i \in Intents,
             Govern(c, a, r, "inspect", i)
      PROVE  LifecycleKept'
  <2>1. Advance(i, "inspect") /\ evidence' = evidence
    BY <1>5 DEF Govern, portals
  <2>2. CASE UNCHANGED registry
    BY <2>1, <2>2 DEF registry, LifecycleKept
  <2>3. CASE status[i] = "evidenced" /\ Transition(i, "authorized", "authorized")
    <3>1. /\ "authorized" \in Statuses /\ Rank("authorized") = Rank("evidenced") + 1
          /\ "evidenced" \in Statuses \ Terminal
      BY DEF Statuses, Terminal, Rank
    <3>2. QED
      BY <2>1, <2>3, <3>1, NextKeepsLifecycle
  <2>4. QED
    BY <2>1, <2>2, <2>3 DEF Advance
<1>6. CASE UNCHANGED <<status, reached, evidence>>
  BY <1>6 DEF LifecycleKept
<1>7. QED
  BY <1>1, <1>2, <1>3, <1>4, <1>5, <1>6 DEF Lawful

(* After an approved stage the intent is past the status it asks for.       *)
LEMMA TransitionRefused ==
  ASSUME LocalType, TypeOK, NEW w \in Workflows, StageInv(w), StageDone(w)
  PROVE  UNCHANGED vars
<1>1. stage[w] \in {1, 2, 3} /\ Moved(w, stage[w] + 2)
  BY DEF StageDone, StageInv, LocalType, Stages
<1>2. /\ Rank(StageTarget[stage[w]]) = stage[w]
      /\ StageTarget[stage[w]] \in Statuses \ Terminal
  BY <1>1 DEF StageTarget, Rank, Statuses, Terminal
<1>3. Rank(status[w]) > stage[w]
  <2>1. CASE status[w] \in Terminal
    BY <1>1, <2>1 DEF Terminal, Rank
  <2>2. CASE Rank(status[w]) >= stage[w] + 2 /\ status[w] # "absent"
    <3>1. Rank(status[w]) \in 0..7
      BY <2>2, Ranks, WorkflowAssumption DEF TypeOK
    <3>2. QED
      BY <1>1, <2>2, <3>1
  <2>3. QED
    BY <1>1, <2>1, <2>2 DEF Moved
<1>4. ~TransitionIntent(w, StageTarget[stage[w]])
  <2>1. ~(Rank(StageTarget[stage[w]]) >= Rank(status[w]))
    <3>1. Rank(status[w]) \in 0..7
      BY <1>1, Ranks, WorkflowAssumption DEF Moved, Terminal, Statuses, TypeOK
    <3>2. QED
      BY <1>1, <1>2, <1>3, <3>1
  <2>2. QED
    BY <1>2, <2>1 DEF TransitionIntent, Terminal
<1>5. QED
  BY <1>4 DEF StageDone, StageTransition

LEMMA WorkflowStepLawful ==
  ASSUME OutsidersOnlyEnd, LocalType, TypeOK, \A w \in Workflows : StageInv(w),
         [WorkflowNext]_allvars
  PROVE  Lawful
<1>1. ASSUME NEW w \in Workflows, Begin(w) \/ Seed(w) \/ BlockStage(w) \/ RegisterRoles(w)
                                  \/ \E v \in {"approved", "refused"} : Judge(w, v)
      PROVE  Lawful
  BY <1>1 DEF Begin, Seed, BlockStage, RegisterRoles, RegisterBoundary, Judge, Finish,
              vars, registry, portals, Lawful
<1>2. ASSUME NEW w \in Workflows, Open(w) \/ AdvanceIntent(w)
      PROVE  Lawful
  BY <1>2, WorkflowAssumption DEF Open, AdvanceIntent, vars, registry, portals, Lawful
<1>3. ASSUME NEW w \in Workflows, GovernStage(w)
      PROVE  Lawful
  <2> DEFINE c == <<w, stage[w]>>
  <2>1. c \in Calls /\ c \in Agents /\ w \in Intents /\ Team \in Roles
    BY WorkflowNames, WorkflowAssumption DEF LocalType
  <2>2. Govern(c, c, Team, "inspect", w)
    BY <1>3 DEF GovernStage
  <2> HIDE DEF c
  <2>3. QED
    BY <2>1, <2>2 DEF Lawful
<1>4. ASSUME NEW w \in Workflows, StageDone(w)
      PROVE  Lawful
  BY <1>4, TransitionRefused DEF vars, registry, portals, Lawful
<1>5. ASSUME NEW w \in Workflows, NEW outcome \in {"failed", "completed"},
             CloseSession(w, outcome)
      PROVE  Lawful
  <2>1. StageTransition(w, "rejected")
    BY <1>5 DEF CloseSession, StageInv
  <2>2. QED
    BY <2>1, WorkflowAssumption DEF StageTransition, Lawful, Ending
<1>6. ASSUME Outside
      PROVE  Lawful
  <2>1. CASE UNCHANGED vars
    BY <2>1 DEF vars, registry, portals, Lawful
  <2>2. ASSUME NEW w \in Workflows, EnforceILC(w) \/ \E e \in Evidences : SubmitEvidence(w, e)
        PROVE  Lawful
    BY <2>2, WorkflowAssumption DEF Lawful
  <2>3. ASSUME NEW w \in Workflows, NEW s \in OutsideTargets, TransitionIntent(w, s)
        PROVE  Lawful
    BY <2>3, WorkflowAssumption DEF OutsidersOnlyEnd, Ending, Lawful
  <2>4. QED
    BY <1>6, <2>1, <2>2, <2>3 DEF Outside
<1>7. CASE UNCHANGED allvars
  BY <1>7 DEF allvars, vars, registry, portals, Lawful
<1>8. QED
  BY <1>1, <1>2, <1>3, <1>4, <1>5, <1>6, <1>7 DEF WorkflowNext, Continue

(* Although the bridge asks for statuses out of turn, an intent of a        *)
(* workflow goes through the lifecycle without a gap and on evidence, as    *)
(* long as others who use transitionIntent only end intents with it.        *)
THEOREM NoGapsOrGuesses ==
  ASSUME OutsidersOnlyEnd
  PROVE  WorkflowSpec => []NoGapNoGuess
<1>1. WorkflowInit => LifecycleKept
  BY DEF WorkflowInit, Init, LifecycleKept
<1>2. LocalType /\ TypeOK /\ LogInv /\ (\A w \in Workflows : StageInv(w)) /\ LifecycleKept
      /\ [WorkflowNext]_allvars => LifecycleKept'
  BY WorkflowStepLawful, LifecycleKeptStep
<1>3. LifecycleKept => NoGapNoGuess
  <2>1. ASSUME LifecycleKept, NEW w \in Workflows
        PROVE  w \in Intents
    BY WorkflowAssumption
  <2>2. {"proposed"} \cup Ending = {"proposed", "rejected", "reverted"}
    BY DEF Ending
  <2>3. QED
    BY <2>1, <2>2 DEF LifecycleKept, NoGapNoGuess, Ending
<1>4. QED
  BY <1>1, <1>2, <1>3, KernelInvariants, StageInvariant, PTL DEF WorkflowSpec

----------------------------------------------------------------------------
(* Each stage that a workflow has behind it went through the kernel.        *)

(* The call of a stage is made by nobody but its workflow, for its own      *)
(* agent and intent.                                                        *)
OfStage(w, n, c) ==
  c = Idle \/ (c.agent = <<w, n>> /\ c.role = Team /\ c.type = "inspect" /\ c.intent = w)

CallInv(w) ==
  \A n \in Stages :
    /\ OfStage(w, n, call[<<w, n>>])
    /\ n < stage[w] \/ (n = stage[w] /\ pc[w] \in {"approved", "advanced"})
       => call[<<w, n>>].pc = "approved"

LEMMA CallApart ==
  ASSUME NEW w \in Workflows, CallInv(w), Apart(w)
  PROVE  CallInv(w)'
BY DEF CallInv, OfStage, Apart

LEMMA CallOwn ==
  ASSUME LocalType, TypeOK, NEW w \in Workflows, CallInv(w), OfWorkflow(w)
  PROVE  CallInv(w)'
<1> DEFINE c == <<w, stage[w]>>
<1>1. c \in Calls /\ stage[w] \in Stages /\ \A n \in Stages : <<w, n>> \in Calls
  BY WorkflowNames DEF LocalType
<1>2. ASSUME UNCHANGED call, stage'[w] = stage[w],
             pc'[w] \in {"approved", "advanced"} => pc[w] \in {"approved", "advanced"}
      PROVE  CallInv(w)'
  BY <1>2 DEF CallInv, OfStage
<1>3. ASSUME Begin(w) \/ Open(w) \/ Seed(w) \/ RegisterRoles(w) \/ BlockStage(w)
             \/ AdvanceIntent(w)
      PROVE  CallInv(w)'
  <2>1. UNCHANGED call /\ stage'[w] = stage[w]
    BY <1>3 DEF Begin, Open, Seed, RegisterRoles, BlockStage, AdvanceIntent, CreateIntent,
                RegisterBoundary, EnforceILC, vars
  <2>2. pc'[w] \in {"approved", "advanced"} => pc[w] \in {"approved", "advanced"}
    BY <1>3 DEF Begin, Open, Seed, RegisterRoles, BlockStage, AdvanceIntent, Goto, LocalType
  <2>3. QED
    BY <1>2, <2>1, <2>2
<1>4. ASSUME NEW outcome \in {"failed", "completed"}, CloseSession(w, outcome)
      PROVE  CallInv(w)'
  <2>1. UNCHANGED call /\ stage'[w] = stage[w] /\ pc'[w] = outcome
    BY <1>4 DEF CloseSession, StageTransition, TransitionIntent, vars, Goto, LocalType
  <2>2. QED
    BY <1>2, <2>1
<1>5. ASSUME StageDone(w)
      PROVE  CallInv(w)'
  <2>1. UNCHANGED call /\ pc[w] = "advanced" /\ pc'[w] \in {"working", "closing"}
    BY <1>5 DEF StageDone, StageTransition, TransitionIntent, vars, Goto, LocalType
  <2>2. stage'[w] = stage[w] \/ stage'[w] = stage[w] + 1
    BY <1>5 DEF StageDone, LocalType
  <2>3. \A n \in Stages : n < stage'[w] => n < stage[w] \/ n = stage[w]
    BY <1>1, <2>2 DEF Stages
  <2>4. QED
    BY <2>1, <2>3 DEF CallInv, OfStage
<1>6. ASSUME GovernStage(w)
      PROVE  CallInv(w)'
  <2>1. /\ pc'[w] \in {"blocked", "validating"} /\ stage'[w] = stage[w] /\ call[c] = Idle
        /\ UNCHANGED call \/ \E b : call' = [call EXCEPT ![c] =
             [pc |-> "validating", agent |-> c, role |-> Team, type |-> "inspect",
              intent |-> w, budget |-> b]]
    BY <1>6 DEF GovernStage, Govern, Goto, LocalType
  <2>2. CASE UNCHANGED call
    BY <1>2, <2>1, <2>2
  <2>3. ASSUME NEW b, call' = [call EXCEPT ![c] =
             [pc |-> "validating", agent |-> c, role |-> Team, type |-> "inspect",
              intent |-> w, budget |-> b]]
        PROVE  CallInv(w)'
    <3>1. /\ call'[c].agent = c /\ call'[c].role = Team /\ call'[c].type = "inspect"
          /\ call'[c].intent = w /\ \A d \in Calls \ {c} : call'[d] = call[d]
      BY <1>1, <2>3 DEF TypeOK
    <3>2. ASSUME NEW n \in Stages
          PROVE  /\ OfStage(w, n, call'[<<w, n>>])
                 /\ n < stage[w] => call'[<<w, n>>].pc = "approved"
      <4>1. CASE n = stage[w]
        BY <1>1, <3>1, <4>1 DEF OfStage, Stages
      <4>2. CASE n # stage[w]
        <5>1. call'[<<w, n>>] = call[<<w, n>>]
          BY <1>1, <3>1, <4>2
        <5>2. QED
          BY <5>1 DEF CallInv
      <4>3. QED
        BY <4>1, <4>2
    <3>3. QED
      BY <2>1, <3>2 DEF CallInv, OfStage, Idle
  <2>4. QED
    BY <2>1, <2>2, <2>3
<1>7. ASSUME NEW v \in {"approved", "refused"}, Judge(w, v)
      PROVE  CallInv(w)'
  <2>1. /\ pc'[w] = (IF v = "approved" THEN "approved" ELSE "blocked") /\ stage'[w] = stage[w]
        /\ call[c].pc = "validating" /\ call' = [call EXCEPT ![c] = [call[c] EXCEPT !.pc = v]]
    BY <1>7 DEF Judge, Finish, Goto, LocalType
  <2>2. /\ call'[c] = [call[c] EXCEPT !.pc = v]
        /\ \A d \in Calls \ {c} : call'[d] = call[d]
    BY <1>1, <2>1 DEF TypeOK
  <2>3. OfStage(w, stage[w], call'[c]) /\ call'[c].pc = v
    <3>1. OfStage(w, stage[w], call[c]) /\ call[c] # Idle /\ call[c] \in CallRecord
      BY <1>1, <2>1 DEF CallInv, Idle, TypeOK
    <3>2. QED
      BY <2>2, <3>1 DEF OfStage, CallRecord
  <2>4. ASSUME NEW n \in Stages
        PROVE  /\ OfStage(w, n, call'[<<w, n>>])
               /\ n < stage[w] \/ (n = stage[w] /\ v = "approved")
                  => call'[<<w, n>>].pc = "approved"
    <3>1. CASE n = stage[w]
      BY <1>1, <2>3, <3>1 DEF Stages
    <3>2. CASE n # stage[w]
      <4>1. call'[<<w, n>>] = call[<<w, n>>]
        BY <1>1, <2>2, <3>2
      <4>2. QED
        BY <3>2, <4>1 DEF CallInv
    <3>3. QED
      BY <3>1, <3>2
  <2>5. QED
    BY <2>1, <2>4 DEF CallInv, OfStage, Idle
<1>8. QED
  BY <1>3, <1>4, <1>5, <1>6, <1>7 DEF OfWorkflow, Continue

LEMMA CallInvariant == WorkflowSpec => [](\A w \in Workflows : CallInv(w))
<1>1. WorkflowInit => \A w \in Workflows : CallInv(w)
  <2>1. ASSUME WorkflowInit, NEW w \in Workflows, NEW n \in Stages
        PROVE  call[<<w, n>>] = Idle /\ pc[w] = "new" /\ ~(n < stage[w])
    <3>1. call[<<w, n>>] = Idle
      BY <2>1, WorkflowNames DEF WorkflowInit, Init
    <3>2. pc[w] = "new" /\ stage[w] = 1
      BY <2>1 DEF WorkflowInit
    <3>3. QED
      BY <3>1, <3>2 DEF Stages
  <2>2. QED
    BY <2>1 DEF CallInv, OfStage
<1>2. LocalType /\ TypeOK /\ (\A w \in Workflows : CallInv(w)) /\ [WorkflowNext]_allvars
      => (\A w \in Workflows : CallInv(w))'
  BY StepApart, CallApart, CallOwn
<1>3. QED
  BY <1>1, <1>2, KernelInvariants, PTL DEF WorkflowSpec

StagesWereGoverned ==
  \A w \in Workflows, n \in Stages :
    n < stage[w] =>
      /\ call[<<w, n>>].pc = "approved"
      /\ call[<<w, n>>].intent = w /\ call[<<w, n>>].agent = <<w, n>>
      /\ reached[w] \cap Executable # {}
      /\ "inspect" \in charter[Team]

(* No stage is left but by an approval: the call of each stage behind a     *)
(* workflow was approved, under the intent of that workflow and for the     *)
(* agent of that stage; that intent had authority on the log and the role   *)
(* a boundary for it, whatever others did to the intent in between.         *)
THEOREM StagesAreGoverned == WorkflowSpec => []StagesWereGoverned
<1>1. ASSUME \A w \in Workflows : CallInv(w), ApprovedHadAuthority, ApprovedInCharter,
             NEW w \in Workflows, NEW n \in Stages, n < stage[w]
      PROVE  /\ call[<<w, n>>].pc = "approved"
             /\ call[<<w, n>>].intent = w /\ call[<<w, n>>].agent = <<w, n>>
             /\ reached[w] \cap Executable # {}
             /\ "inspect" \in charter[Team]
  <2>1. w \in Intents /\ <<w, n>> \in Calls /\ None \notin Intents
    BY WorkflowNames, GovernanceAssumption
  <2>2. call[<<w, n>>].pc = "approved" /\ OfStage(w, n, call[<<w, n>>])
    BY <1>1 DEF CallInv
  <2>3. /\ call[<<w, n>>].intent = w /\ call[<<w, n>>].agent = <<w, n>>
        /\ call[<<w, n>>].role = Team /\ call[<<w, n>>].type = "inspect"
    BY <2>2 DEF OfStage, Idle
  <2>4. QED
    BY <1>1, <2>1, <2>2, <2>3 DEF ApprovedHadAuthority, ApprovedInCharter
<1>2. (\A w \in Workflows : CallInv(w)) /\ ApprovedHadAuthority /\ ApprovedInCharter
      => StagesWereGoverned
  BY <1>1 DEF StagesWereGoverned
<1>3. QED
  BY <1>2, CallInvariant, WorkflowsImplementGovernance, ApprovalsAuthorized, ApprovalsChartered,
     PTL DEF ImplementsGovernance

(* What is proved of every use of the kernel holds of its workflows: the    *)
(* log accounts for the registry, approvals had authority and a boundary,   *)
(* nothing is overdrawn, an ended intent stays ended.                       *)
THEOREM WorkflowsKeepGovernance ==
  WorkflowSpec => /\ [](RegistryLogged /\ ApprovedHadAuthority /\ ApprovedInCharter)
                  /\ [](ChargesCovered /\ OneLiveAccount)
                  /\ TerminalClosed
<1>1. ImplementsGovernance => TerminalClosed
  BY EndedStaysEnded DEF ImplementsGovernance
<1>2. ImplementsGovernance =>
        [](RegistryLogged /\ ApprovedHadAuthority /\ ApprovedInCharter)
  BY StatusesLogged, ApprovalsAuthorized, ApprovalsChartered, PTL DEF ImplementsGovernance
<1>3. ImplementsGovernance => [](ChargesCovered /\ OneLiveAccount)
  BY ChargesAreCovered, AgentsHaveOneAccount, PTL DEF ImplementsGovernance
<1>4. QED
  BY <1>1, <1>2, <1>3, WorkflowsImplementGovernance, PTL

=============================================================================
