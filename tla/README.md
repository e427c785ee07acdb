# Verification of the Sovereign X governance kernel and its services

TLA+ models, TLC runs and TLAPS proofs for the part of this repository that decides
whether an agent may act and remembers that it did, the Sovereign X kernel
(`agent/sovereign-x/`), and for the services around it: the agent ledger, the compute
fabric, the federation, constitutional amendments, trust scores, keys, the input screen,
the choice of models and the bridge to the cockpit. Paths are relative to the root of the
repository; files named without a directory are in `agent/sovereign-x/`.

## 1. Inventory

The program is TypeScript on Node. There are no threads: concurrency comes from
`await`. What lies between two awaits runs without interruption; everything else
(several HTTP requests, several workflows, the boot sequence and the first request)
interleaves at the awaits. Promises that are settled already are resumed in the order in
which they were awaited, which `ModelAccess` relies on. State is kept in module-level arrays and maps; three things
are on disk: the write-ahead file of the constitutional record, that of the agent
ledger, and a database of the web application.

| Component | State | Operations | Interacts with | What makes it hard; what makes it correct |
|---|---|---|---|---|
| Constitutional record (CSR), `kernel.ts` | `CSR_LEDGER`, `seeded` | `recordCSR`, `seedKernel`, `resetKernel`, `verifyCsrIntegrity`, `reconcileCsrFork` | everything that changes state calls `recordCSR`; writes through `storage.ts` | flag tested before and set after an await; push before append; forks. The chain has no gap, a confirmed record is never lost, seeding shows all of it |
| Storage, `storage.ts` | `csr.wal` | `appendWal`, `replayWal`, `truncateWal`, `persistKey` | the kernel | a process that dies in an append; a line that does not parse. What was appended is replayed |
| Intents, evidence, boundaries, `kernel.ts` | `INTENT_REGISTRY`, `EVIDENCE_REGISTRY`, `BOUNDARIES` | `createIntent`, `transitionIntent`, `enforceILC`, `submitEvidence`, `verifyEvidence`, `registerBoundary` | called by the CMAS bridge, by tests, by `kernelGovernAction` | calls in any order; a restart recovers intents and nothing else. Statuses go forward one at a time, on evidence |
| Action governance, `kernelGovernAction` | calls in flight | one call per action of an agent | APID, boundaries, intents, budgets, `validateAction`, agent ledger | checks before an await, approval after it. What is approved had authority and budget |
| Accounting, `accounting.ts` | `BUDGETS`, `CONSUMPTIONS` | `createBudget`, `getAgentBudget`, `consumeResource`, `resetBudget` | `kernelGovernAction` | concurrent charges at the limit, several budgets of one agent. Nobody overdraws |
| Arbitration and compute authorization, `kernel.ts` | `ARBITRATION_DOCKET`, `COMPUTE_AUTHORIZATIONS` | `arbitrateConflict`, `authorizeCompute` | the fabric | append-only; an authorization belongs to the task it was given for |
| CMAS bridge, `cmas-integration.ts` | sessions | `initializeSXOS`, `openSession`, `governAction`, `stageTransition`, `closeSession` | kernel, CMAS | two ways to advance one intent; initialization skipped when somebody else seeded |
| CMAS workflow, `agent/cmas/` | `workflows`, `sxosInitialized` | `executeFullWorkflow`: architect, builder, implementor, validator, reviewer | bridge, agent ledger | five governed stages, each of which may fail; a workflow that fails ends its intent, and every workflow ends |
| Federated worlds, `worlds.ts` | worlds, treaties, federated actions, lineages | create, sign, expire; propose, align, execute, reject, revert | CSR | alignment checked once and used later; no status check but one. Each execution uses up one alignment, made under a treaty |
| Treaty exchange, `treatyProtocol.ts` | signed blobs | create, countersign, export, import, verify | other processes | an export arrives late or twice. Copies agree; a countersignature is final |
| Compute fabric, `fabric.ts`, `kernel.ts` | nodes, tasks, prongs, `COMPUTE_AUTHORIZATIONS` | register, heartbeat, suspend; execute, complete, fail, revert; `authorizeCompute` | agent ledger | node checked before two awaits; late completions; ids that repeat. Every task has its own recorded authorization |
| Governance runtime, `runtime.ts`, `sandbox.ts` | executions, one status flag, sandboxes | start, complete, fail | `kernelGovernAction` | a flag shared by concurrent executions, which must not lie about all of them; a `recordCSR` that throws between an execution and the flag |
| CA-2 amendments, `crk2/amendment/ca2.ts` | amendments, `frozen`, active version, the ledger of CRK-2 | propose, freeze, export, apply, validate, commit, restart, or all at once | receipts of agents enter the same ledger | several amendments and one freeze flag; ids that repeat. The version in force was validated |
| Agent ledger, `agent/governance/` | receipts, `ledger.wal.jsonl`, hooks | `recordReceipt`, `appendToLedger`, loading at first use | every governed action | best-effort durability over crashes and torn lines. What is shown is a chain; what is missing was never written |
| Trust scores, `ftss.ts` | scores, tiers, appeals | update, penalty, cap, propagate, appeal, review | federation | tiers and scores change apart. A tier is earned or given by an appeal |
| Input screen (APID), `apid.ts` | reports per agent, bounded | `apidMiddleware`, clear | `kernelGovernAction` | scores at the thresholds; a ring at its limit |
| Identity graphs (IGEM), `igem.ts` | keys, graphs, tokens, transmissions | create keys and graphs, add, issue, validate, send, receive | other nodes | the first call of `getMasterKey` in a process returns another key than all later ones |
| Epochs (QIGEM), `qigem.ts` | epoch, keys, history, alerts | generate, advance, alert, countersign | CSR | a throw after the change; a retry. History and keys agree with the epoch |
| State health (RPDS), `rpds.ts` | baselines, reports, chains of proof | register, evaluate, trigger, clear | CSR | signatures over an array that goes on growing |
| Cockpit bridge, `cockpit/src/bridge/` | stream, intervals, what the screen shows | connect, disconnect, poll, event | `GET /api/events` of the backend | a stream and polls beside each other, answers out of order. What is missed, and why |
| Model access, `src/model/`, `src/completion/` | `lastModelSelectionReceipt`, requests under way | `selectModel`, `runCompletion`, suggestions in an editor | agent ledger | a variable shared by all requests and read after awaits; retries. No answer cites an older selection |
| Agent loops, `agent/core/` | plan, steps | plan, execute, retry | tools | sequential; see section 5 |
| CRK-2 engines, federated messages | receipts | pure builders and checks | | sequential |
| Backend, control tower, cockpit panels, persistence, adapters | requests, caches | routing, rendering, HTTP | all of the above | mostly I/O |

## 2. Modules

| Module | What it is |
|---|---|
| `Journal` | abstract: a durable, chained log that is opened, extended, closed and erased |
| `ConstitutionalLog` | the CSR, its file and `seedKernel`, with crashes and disk faults; implements `Journal` under a stated discipline |
| `ConstitutionalLogProofs` | theorems about it |
| `IntentGovernance` | intents, evidence, boundaries, budgets and concurrent `kernelGovernAction` calls |
| `IntentGovernanceProofs` | theorems about it |
| `CmasWorkflow` | concurrent five-stage workflows over `IntentGovernance`, which it extends and implements |
| `CmasWorkflowProofs` | theorems about it |
| `AgentLedger` | the receipts of the agents, their file, crashes and torn lines |
| `ComputeFabric` | nodes, tasks and prongs over `AgentLedger`, which it extends and implements |
| `AmendmentPipeline` | several CA-2 amendments, the freeze flag and the ledger of CRK-2 |
| `FederationContract` | abstract: an action is done on a consent, a consent is given under a treaty; in its strict form the action needs the treaty, too |
| `FederatedWorlds` | worlds, treaties, actions and lineages; implements `FederationContract` in its plain form, not in its strict one |
| `TreatyExchange` | signed blobs at several sites that export, import and restart |
| `GovernanceRuntime` | concurrent executions and the flag they share |
| `TrustScores` | scores as ranks, tiers, propagation, appeals |
| `ThreatScreen` | APID: threat classes, scores, dispositions, the bounded ledger |
| `IdentityKeys` | IGEM: the two master keys and what is encrypted under each |
| `EpochKeys` | QIGEM: epochs, keys, history, alerts |
| `StateHealth` | RPDS: comparisons, remedies, reports and chains of proof |
| `CockpitFeed` | the event stream and the polls by which a cockpit follows the backend |
| `ModelAccess` | requests that choose a model, and the shared variable their answers cite |
| `FabricProofs`, `FederationProofs`, `ServiceProofs`, `RegistryProofs` | theorems about these: ledger and fabric; worlds and treaty exchange; amendments, runtime, trust and model access; cockpit, keys, epochs, health and screen |
| `MCConstitutionalLog`, `MCIntentGovernance`, `MCCmasWorkflow` | symmetry sets and calls for TLC |
| `MCServices` | composes the thirteen components that share no state into one run |
| `CompositionProofs` | theorems about that composition: each component keeps its specification and its properties in it |

`ConstitutionalLog` and `IntentGovernance` are two modules because they meet at one operation only: everything in
`IntentGovernance` logs by `recordCSR`. What recovery reads back from the log is kept
there as `reached`, `first` and `charter`; that the log itself is what was confirmed is
the subject of `ConstitutionalLog`.

### ConstitutionalLog

`mem` is `CSR_LEDGER`, `wal` the lines of `csr.wal`, `eol` whether the last line has its
newline, `seeded` the flag. `pc[c]` and `sawEmpty[c]` are the local state of caller `c`
suspended inside `seedKernel`. `made` and `acked` are history: the identities given out
so far (`uuid()` never repeats) and the records whose `recordCSR` returned.

A record is its identity, the identity its `previousHash` names and whether it is the
`kernel-seed`. Taking the hash to be the identity says that SHA-256 has no collisions
and that nobody edits a record after it was made.

| Action | Code |
|---|---|
| `SeedBegin(c)` | `seedKernel` up to its awaits: early return when seeded, replay, push of every record |
| `SeedEndFresh(c)`, `SeedEndReplayed(c)` | `seedKernel` after its awaits: `kernel-seed` if the file was empty, then `seeded = true` |
| `RecordCSR` | any operation that logs one transition |
| `ReconcileNew(k)` | `reconcileCsrFork` with one foreign record whose predecessor is the `k`-th record |
| `ResetKernel` | `resetKernel`: memory and file emptied |
| `Crash`, `CrashInAppend` | the process dies, between two steps or inside `appendFileSync` |

An append that is cut short leaves nothing, a part of the line, or the line without its
newline (`WriteCutShort`); the next append is then glued to the last line, which parses
no more (`Landed`). The awaits of `seedKernel` (one per invariant) are one gap: between
them it touches nothing that is shared.

The switches `EarlyRecords`, `FaultyDisk`, `TornCrashes` and `StrayForks` turn parts of
the environment on; `Disciplined` is the environment the kernel is written for: one
caller seeds it before anything else runs, the disk works, a fork starts where this log
ends.

### IntentGovernance

`status`, `evidence`, `verified`, `boundary` and `budgets` are the registries; `call[c]`
is the `c`-th invocation of `kernelGovernAction`: idle, validating (suspended at its only
await), approved, refused, or lost in a crash. `reached[i]` is the set of statuses that
records of the log name intent `i` to have had, `first[i]` the target of its first logged
transition, `charter[r]` the action types that logged boundaries of role `r` list.

| Action | Code |
|---|---|
| `CreateIntent`, `SubmitEvidence`, `VerifyEvidence`, `RegisterBoundary` | the functions of these names |
| `TransitionIntent(i, s)` | `transitionIntent` called from outside `enforceILC`, with a status of `RawTargets` (`stageTransition` of the CMAS bridge, tests) |
| `EnforceILC(i)` | `enforceILC` |
| `CreateBudget`, `ConsumeResource`, `ResetBudget` | the functions of these names |
| `Govern`, `GovernUnbound` | `kernelGovernAction` up to its await, with an intent and with `null` |
| `Finish` | the rest of it: `validateAction` decides |
| `Restart` | a crash and the `seedKernel` of the next process |

`Govern` contains both calls of `enforceILC` that the code may make: the object `intent`
is the one in the registry, so that the second test sees the status the first call left,
and an edit takes an evidenced intent to `executing` at once. Over budget, the call ends
and these transitions stand, as in the code.

The kernel is seeded throughout; `resetKernel`, which only tests and `resetSovereignX` call,
is left out. Calls refused before they touch intent or budget change nothing here and
are no steps. There are two types of actions, `edit` (also `create`) and the others; every budget
has one limit, on the unit `calls`, the only one the kernel charges. `Orderly` is the
discipline under which the lifecycle is one: `RawTargets` is empty and the process is not
restarted.

### CmasWorkflow

`pc[w]` is the point at which `executeFullWorkflow` is in workflow `w`, `stage[w]` the
stage it works on, `sxosInitialized` the flag of the orchestrator, `kernelSeeded` what
`isKernelSeeded` returns. All the rest is the state of `IntentGovernance`: a workflow
uses the kernel by its operations, and a stage has a call and an agent of its own.

| Action | Code |
|---|---|
| `Begin`, `Seed`, `RegisterRoles` | `initializeSXOS`, up to its await, the await, and the rest |
| `Open` | `sxosInitialized = true` and `openSession` |
| `GovernStage`, `BlockStage` | `governAction` up to the await of `validateAction`, let pass or refused |
| `Judge` | the verdict of `kernelGovernAction` |
| `AdvanceIntent` | the `enforceILC` in `governAction` |
| `StageDone` | `stageTransition`, and on to the next stage |
| `CloseSession` | `closeSession`, after the last stage, a refusal or a failure |
| `Outside` | others who use the exported functions of the kernel on the same intents |

What agents and services produce is a free choice of success or failure (`Obstacles`).
The boundaries of the five roles are one (`Team`), which is registered or is not: the
code registers the five in one step and the action of each stage is in the boundary of
its role. `OutsideTargets` are the statuses others give `transitionIntent`;
`OutsidersOnlyEnd` says that they are `rejected` and `reverted`.

The kernel is not restarted under a workflow: the process would take the workflow with it.

### AgentLedger and ComputeFabric

`ledger` is the array, `loaded` whether it was filled from the file, `readable` the lines
of the file up to the first that does not parse, `ending` what follows them. Nothing ever
repairs the file and loading stops at that line, so that what lies behind it does not matter.
`issued`, `recorded` and `uncertain` are history: the receipts made, those whose
`recordReceipt` returned, and those whose append threw. Chaining, push and append of one receipt are one step,
as there is no await between them; a failed append is swallowed.

| Action | Code |
|---|---|
| `LoadLedger` | `ensureLoaded`, at the first use in a process |
| `RecordReceipt` | `recordReceipt` from its await on, with `appendToLedger`; the append works, fails, or is cut short |
| `LedgerCrash` | the process dies between two steps or in an append |
| `RegisterNode`, `UpdateNodeHeartbeat`, `SuspendNode` | the functions of these names |
| `ExecuteFabricTask` | `executeFabricTask` up to its first await, behind which the node is not looked at again |
| `AuthorizeCompute`, `RecordAuthorization` | `authorizeCompute` up to the await of its receipt, and the receipt |
| `LaunchTask` | the rest of `executeFabricTask`; with a `recordCSR` that throws, a task without prong |
| `EndProng`, `EndFabricTask`, `RevertFabricTask` | completions, failures and reverts, by id, in any status |
| `LedgerStep`, `FabricCrash`, `ResetFabric` | others use the ledger; the process dies; `resetFabric` while something is suspended |

A node that calls itself idle or active is `up`: nothing in the fabric tells the two apart. Prongs of a task differ
in their index only, and one stands for all. The hardware router approves every
task (`hardwareRouter.ts:204`), so that no authorization is refused.

### AmendmentPipeline

`amendments` is the array, `frozen` the flag, `activeVersion` the version in force,
`crk2Ledger` the ledger that agents and amendments share. The id of an amendment is the hash of its
input, so that the input stands for it: two amendments with one input have one id, and the
functions find the first (`First`). `Dangerous` are the inputs that dLAP refuses.

| Action | Code |
|---|---|
| `ProposeAmendment`, `FreezeForAmendment`, `MarkAmendmentFrozen`, `ExportConstitutionalState`, `ApplyAmendment`, `ValidateAmendment`, `CommitAmendment`, `RestartUnderCRK2` | the functions of these names, in any order their guards allow |
| `RunConstitutionalAmendment` | all of them in one call, with the throw that leaves the freeze when the input was proposed before |
| `SyncReceipt` | a receipt of an agent enters the ledger |
| `ResetAmendments` | `resetAmendments` |

### FederatedWorlds and TreatyExchange

`action[a].status` is changed without looking at it, except by `ExecuteFederatedAction`, which asks for `aligned`, and
the treaty is looked at by `AlignFederatedAction` only. `lineage[w]` is the list
of hashes of executed actions of `w`, where the action stands for its hash. Under the
refinement mapping a consent is the status `aligned`, the actions covered are those
with an active treaty between their worlds, and `done` counts the executions in the lineage.
`Contract` is what the code keeps; `StrictContract` is P-I007 of `modelChecker.ts`, by which the treaty must be active when the
action is executed, and which `worlds_expired` refutes.

`blob[s][b]` is the blob as site `s` holds it: the target world and who has countersigned;
`transfers` are the exports given out, which arrive at any time, late or repeatedly, at any site. The signature of
the source differs between blobs only in the target it names, and stands for it.

### GovernanceRuntime, TrustScores, ThreatScreen

In `GovernanceRuntime`, `ExecuteWorkflow` is `executeWorkflow` up to its awaits and `ExecutionJudged` the rest;
`CompleteExecution` and `FailExecution` may come before it, as the code allows. Each of them calls `recordCSR`, which throws when the log cannot
be written. `executeWorkflow` has set the flag when `createSandbox` throws, and then there is no execution; when the record of the
start throws there is one that is not in `judging` and runs until somebody ends it. `EndExecution` changes the status of the execution, and the
flag only if the record between the two does not throw. `halfway` (history) says that the last operation was cut short in one of these ways.

In `TrustScores` tiers are ranks from 0 (expelled) to 4 (sovereign) and a score is the rank
that `scoreToTier` gives it, so that no floating point is left. No weight exceeds 0.25 and the narrowest inner tier spans
0.20: a change of one dimension moves the score by two ranks at most. `vector` is what the
dimensions amount to now, `composite` the stored score, `lifted` (history) whether the tier was given by a
review. Propagation changes the first only, the cap and reviews the tier only.

In `ThreatScreen` an input is the set of threat classes whose patterns match; weights, flags, the
cap of the score at 100, the dispositions and the bounded ledger of each agent are those of the code.

### IdentityKeys, EpochKeys, StateHealth

`master` says whether the record of the master key is registered. As long as it is not, `getMasterKey` returns a random key
and registers a record; from then on it derives the same key in every process. What
is encrypted is known by the kind of key it is under. `spoiled` (history) counts the transmissions of
one life that nobody can read, or that were refused though they could be read.

In `EpochKeys` every operation changes its arrays and then calls `recordCSR`, which may throw: the
caller is told of a failure after the change. Confirmations and participants of `AdvanceEpoch` are free choices.

`StateHealth` keeps the eight comparisons of `evaluateState`, the remedy they lead to and the chain of
proof, whose signature covers the reports as they were when it was made. Fractions are
in hundredths; those of constraints are multiplied by their number (`Parts`), so that nothing is rounded.

### CockpitFeed

Receipts are numbered as the backend records them. `stream` is what was sent over the
event stream and has not arrived, `timers` the intervals that run, `cleanup` what the
closure of that name would stop, `poll` the polls in flight with the status that was shown
when they were started. `opened` and `polled` are history.

| Action | Code |
|---|---|
| `ConnectClusterBridge`, `DisconnectClusterBridge` | the functions of these names, with `EventSource` and without |
| `Subscribe`, `RecordForFeed` | the backend: `GET /api/events`, and the hook that sends each receipt to whoever is subscribed |
| `Arrive`, `StreamFails` | the handlers of the stream; `onerror` closes it for good and starts hard polls |
| `TimerFires`, `AnswerPoll`, `PollLands`, `PollFails` | a round of polls, and its answers in any order, also after a disconnect |

### ModelAccess

Between the call of `selectModel` and its return a request is suspended four times on
promises that are settled already. `microtasks` is the queue in which it waits, `hop[r]`
how often it was resumed: the steps are `SelectModel` (the handler up to the first await), `RecordSelection`, `EmitSelection`,
`ReturnConfig` and `TakeConfig` (the handler goes on), and are taken in the order of the queue, not in any
order. The model itself takes any time. `request[r]` is where a request is, which of
the two prompts of a suggestion it tries, how often, and the receipt its answer cites.
`CompletionAnswered`, `CompletionFails` and `SuggestionAnswered` end it; `Retry` and
`PromptFails` are the attempts of `llmGenerate`. `/api/generate` chooses a model, too, and
cites nothing, like a completion that fails.

## 3. Runs

| Run | Distinct states | Question |
|---|---|---|
| `csr_disciplined` | 274 | under the discipline: no gap in the chain, confirmed records durable, one founding, `Journal` implemented, seeded again after each crash |
| `csr_adverse` | 62 540 | two callers, early records, failing and torn appends, stray forks: what still holds |
| `csr_race` | violation | two callers inside `seedKernel` break the chain |
| `csr_torn` | violation | a crash inside an append makes every confirmed record unreadable |
| `intent_ilc` | 1.0 million | the lifecycle, evidence and budgets with two agents and two concurrent calls |
| `intent_open` | 1.5 million | raw transitions and a restart: what still holds |
| `intent_recovery` | violation | recovery takes an intent back to its first transition |
| `cmas_workflows` | 279 543 | two workflows, failures at every stage, others who file evidence, enforce and revert: what a workflow leaves behind, how far it gets, that it ends, and that it implements `IntentGovernance` |
| `cmas_stages` | violation | with nothing in its way a workflow fails at its first stage |
| `services` | 1.1 million | thirteen components that share no state: what each promises under overlap, repetition, late calls, failures half-way and crashes |
| `amendment_thaw` | violation | the end of one amendment lifts the freeze under which another was exported, and that one is applied without it |
| `worlds_expired` | violation | a federated action is executed after the treaty of its alignment has expired |

What `services` checks of each component, and how much of it there is:

| Focus | Distinct states | Properties beside the types |
|---|---|---|
| agent ledger alone | 19 887 | `FileTellsTheTruth`: what is shown is a chain with gaps only behind failed writes; a file that parses keeps all that was confirmed |
| fabric over the ledger | 718 558 | `TasksAreAuthorized`, `LateCallsReachTheFirst`, `SuspensionAdmitsNothing` |
| runtime | 1 622 | `FlagShowsSomeone`: the flag is true of at least one execution, unless a `recordCSR` has just thrown half-way |
| amendments | 128 483 | `ActiveWasValidated`, `ContentDecides` |
| worlds | 68 282 | `ImplementsContract`: one execution per alignment, alignments under active treaties only |
| treaty exchange | 2 025 | `CountersignatureFinal` |
| trust scores | 17 689 | `PlungeIsAppealed` |
| cockpit bridge | 55 080 | `MissedInTheGap`, `StatusGoesBackIfOvertaken` |
| identity keys | 5 520 | `FirstUseCostsOne` |
| epochs | 168 | `HistoryLeadsHere`: history and keys agree with the epoch, after calls that failed half-way, too |
| state health | 20 185 | `AlarmsAreSigned` |
| input screen | 129 | (types; see section 4) |
| model access | 58 529 | `CitesNoneBefore` |

These components share no variable, so that composing them freely would multiply their
states and show nothing more. `MCServices` chooses one of them as `focus` in the initial state
and lets it alone take steps: the states add up. The fabric and the ledger do share the ledger and are composed in
`ComputeFabric`; the focus `ledger` is the ledger without the fabric, with larger bounds.

Bounds. `MaxRecords` bounds the records made over all lives of the process; 9 allow
several restarts, resets and reconciliations in one behaviour, 6 suffice for two seeds, a
double replay, a torn line and what follows. Two callers are all that the race needs; a
third repeats it. `Room` keeps identities for the seeds that are still to come, so that
the bound does not stop a seeding half-way. In `IntentGovernance` one intent and one portal suffice, as intents do
not influence each other except through budgets; two calls of two agents with a limit of
two meet at the limit and on budgets that were reset and made anew, and two budgets per
process let one agent have both. `intent_open` exchanges the second agent for a restart
and four raw targets: one that is inside the lifecycle and the three that end it.
In `cmas_workflows` two workflows race for `sxosInitialized` and the seeding and for the
boundary; their intents and agents are apart, so that a third adds nothing. Two portals
let each intent have its evidence, six budgets are more than the stages that can be let
pass (three of each workflow), so that this bound stops nobody.
In `services`: four receipts are a torn line, a receipt glued to it, one before and one behind; under the
fabric two (`FabricReceipts`), one for each of two overlapping invocations, with one task id, so that
both tasks have the same, and two nodes, one to be suspended. Three amendments
over three inputs are two that differ, a repetition and a dangerous one; three entries let receipts of agents come
between. Two worlds, treaties and actions with two executions of each world are an action executed twice, a treaty that expires under it
and two actions that differ. Two sites and two blobs: a copy, and a blob that stays. Two polls
in flight are one round, or two that overtake each other; three receipts are one before the
poll, one in the gap and one after. Two transmissions and keys: one under each kind of
master key. Three keys make three quarters of the participants a proper fraction. In `worlds_expired` one treaty that expires suffices. `SampleStates` are a sound
state and one for each way in which a state is judged differently; two reports of a
kernel let one follow the chain of another. `Capacity` 1 is reached by the second report.
Three requests are one whose record lies between those of two others; two attempts are
a retry and its failure. Nodes, launches and polls are symmetric sets; two of the three requests
carry the names of the two polls and are exchanged with them, which is sound since the two components share no variable.
Deadlock is checked for the log; in the other runs calls, budgets, workflows, receipts and
ids are bounded and run out, and a bounded system stops.

Fairness. `FairSpec` assumes that a suspended caller is resumed (Node's event loop
resumes what awaits a settled promise, and the invariants it awaits settle) and that an
unseeded kernel finds a caller: the boot sequence, `initializeSXOS`, and
`kernelGovernAction` (`kernel.ts:447`), which tests the flag in every call. Nothing is assumed of
crashes, operations or the disk. `FairWorkflowSpec` assumes that a workflow that began is
resumed whenever it can go on: what it awaits settles, by a result or by an error. Nothing is assumed of
the others, and a workflow need not begin.

Nothing is said of liveness in `services`: completions, polls, answers and appeals come from outside, and no
code waits for them.

Findings. The six violation runs are statements of the repository (`modelChecker.ts`
P-I002, P-I007 and the chain invariant; `tests/sovereign_x_v2.test.ts`; the workflow of
`docs/CMAS-FIVE-AGENT-SPEC.md`; section 8 of `docs/CRK-2-SPEC.md`) that the code does not keep: the double
replay, the torn line, the recovery of the first transition instead of the last, the workflow
that does not get past its first stage, the amendment applied while nothing is frozen, and the federated action executed after its
treaty expired. One more statement is not kept and needs no run to show: P-I004 (`modelChecker.ts:54`) wants the evidence of an
authorized intent verified, and `enforceILC` (`kernel.ts:231`) counts evidence and never looks at `verified`.

## 4. Proofs

Everything the passing runs check as safety is also proved, for any values of the
constants that meet the named assumptions of the modules. Below are the results and the
argument of each; of those that no run checks, most were first tried out with TLC on the
instances of the runs.

`ConstitutionalLogProofs`
- `TypeCorrect`: by one lemma per action.
- `SeededSees`: `SeededSeesAcked` is not inductive: it speaks of seeded kernels only,
  while the danger is in the gap of `seedKernel`. `SeenInv` adds that the memory of a
  kernel in which some caller is suspended already holds everything confirmed, and that
  the file, as long as it parses, holds it too (from there the next seeding takes it).
  It needs no discipline, and `OnlyTearsLose` is the half of it that is about the file.
- `FileOnlyGrows`: an action property without discipline: an append, whole or cut short, touches nothing before the last line (`LandedKeepsLines`), and
  the two appends of a reconciliation do so one after the other (`KeptLinesStay`).
- `NothingTwiceOnDisk`: `Distinct` adds that identities on disk are at most `made`.
  It needs no discipline.
- Of the parts of `Disciplined`, each of the following theorems assumes what it needs
  and no more: over all 32 combinations of the switches and of one or two callers, with five records, TLC
  finds the statement violated whenever a part it assumes is missing.

  | Theorem | one caller | no early records | disk works | no torn crashes | no stray forks |
  |---|---|---|---|---|---|
  | `ConfirmedIsDurable` | | | yes | yes | |
  | `SeedComesFirst` | yes | yes | | | |
  | `ChainStaysIntact` | yes | yes | yes | | yes |
  | `LogImplementsJournal` | yes | yes | yes | yes | yes |

  A crash that tears the last line does not break the chain, since replay then finds nothing
  at all; it breaks durability. A race does the opposite. `LogImplementsJournal`: the file parses, is chained, holds whatever was
  confirmed and a seed at its head only, and memory is equal to the file once seeding has begun and empty before; every step of the
  log is then a step of `Journal` or a stutter (`Extend`, for records and forks).

`IntentGovernanceProofs`
- `TypeCorrect`.
- `StatusesLogged`, `ApprovalsAuthorized`, `ApprovalsChartered`: `LogInv` extends the
  three to the calls that are still validating, whose authority was
  looked at before the await, and ties `first` to `reached`, which a restart needs.
- `EndedStaysEnded`: an action property, from the types and one lemma per action.
- `OnlyRestartsRegress`: P-I002 of `modelChecker.ts`, which `intent_recovery` refutes, holds between two
  restarts, whatever statuses callers ask `transitionIntent` for. The one move it has to allow is from reverted to rejected. `Ranks` is the
  lemma behind it: `ILC_ORDER` in pairs.
- `LifecycleInOrder`, `EvidenceComesFirst`: under `Orderly`, `LifecycleInv` has both,
  since a step from `proposed` needs the one for the other.
- `RestartsLeaveNoGap`, `RestartsRevokeAuthority`: when others only reject and revert, with any number of restarts. `RecoveryInv` says that what the log
  names of an intent is an initial part of the lifecycle and an end, and that its first logged step leads to `evidenced` or to an end. The evidence itself
  is lost in a restart, so that `EvidenceComesFirst` has no such extension.
- `ChargesAreCovered`, `AgentsHaveOneAccount`: `BudgetInv` says of every live budget that
  it has paid for the calls charged to it, and that it is the
  first live budget of its agent if any call is charged to it. Both need finite cardinalities, of `Calls` only.

`CmasWorkflowProofs`
- `WorkflowsImplementGovernance`: one lemma says that each action is a step of the kernel
  in a process that is not restarted; with it the invariants of `IntentGovernance` are
  at hand for workflows. `WorkflowsKeepGovernance` states them.
- `WorkflowTypes`, which includes the types of the kernel under it, and `FailedStaysEnded`: `FlowInv` speaks of all five calls of a workflow,
  since those of the other stages must be known not to be validated when the
  stage changes. That nobody reopens the intent is `EndedStep` of the kernel.
- `StagesAdvance`, `ReviewerNeverCalled`: `StageInv` says at each point of a stage how far
  the intent has come. It rests on `LivingMoves`: in a living process no step, of whomever,
  takes an intent back unless it ends it. No assumption on others.
- `StagesAreGoverned`: `CallInv` says that a call keeps the intent, agent and action it was made with, and that the call of each stage behind the current one
  was approved; with `ApprovalsAuthorized` and `ApprovalsChartered` its authority and its boundary are on the log.
- `NoGapsOrGuesses`: under `OutsidersOnlyEnd`. By `StageInv` the intent is always past the
  status that `stageTransition` asks for (`TransitionRefused`), so that what moves
  intents is left to `enforceILC` and `kernelGovernAction`.

`FabricProofs`
- `LedgerTypeCorrect`, `CleanFilesKeepAll`, `GapsAreExplained`, `FileIsTruthful`: `LedgerInv`
  speaks of the file and of the array, both of which are chained. While the file can be read to its end, it ends like the array,
  unless the last append threw (`TailHash`); that is what the next receipt, and the next process, chain to.
- `RestartsShowTheSame`: the file is a beginning of what is shown, and all of it while it parses, as long as nothing that is shown was lost in an append that threw.
- `FabricImplementsLedger`: every step of the fabric is one of the ledger or a stutter, so that the ledger's invariants hold under it.
- `TasksAreGoverned`: not inductive for tasks alone. `AllAuthorized` says the same of invocations that are still suspended
  and that no two of them, nor one and a task, hold one authorization.
- `HiddenTasksNeverEnd`, `RevertsClearOutput`, `LateCallsAreSafe`: `HiddenTasks`, which no late call disturbs since
  appending to the list never changes which entry is first.
- `SuspensionHolds`: an action property. A launch turns one suspended invocation into one task, so that the work
  of a node is kept; cardinalities are of `Launches` and of the indices of `tasks`.

`FederationProofs`
- `FederationTypeCorrect`.
- `FederationImplementsContract`: each step is a consent, its withdrawal, a change of cover, an execution, or a stutter of the
  contract. `Unproposed` is what it needs to be inductive: an action that was not proposed is in no lineage. `AppendCounts` counts
  the executions in a lineage that grows.
- `ExecutedUnderTreaty`: the strict contract, of callers who let no treaty expire from under an aligned action (`ExpiresInTurn`): every step keeps
  `ConsentIsCovered`, and where it holds a step of the plain contract is one of the strict (`CoveredIsStrict`).
- `NothingWithoutTreaty`: `AgreedInv` ties the lineages to the registries: whatever is aligned has a treaty on record that names both worlds, and whatever is in a lineage was aligned once.
- `ExchangeTypeCorrect`, `CopiesNeverDiverge` (with `TransfersAgree`: the exports under way have the target of all copies),
  `CountersignaturesAreFinal`.

`ServiceProofs`
- `AmendmentTypeCorrect`, `VersionInForceIsSound`, `RepetitionsAreIgnored`, `VerdictsAreOnContent`,
  `ContentIsDecisive`, `VersionInForceIsLogged`: the inductive invariant `Sound` ties the status of each
  amendment to the ledger, whose entries are linked by their hashes whoever appends them; so no validation ever fails on the chain. The lemmas
  say what one amendment moving on, or one being appended, leaves of it.
- `AppliedInTurn`: the property that `amendment_thaw` refutes, of callers who lift the freeze only while no amendment waits between export and
  application (`LiftsInTurn`). The invariant is then `FreezeInv`: what waits, waits frozen.
- `RuntimeTypeCorrect`, `FlagIsTruthful`: inductive with the types, since each operation that goes through sets the flag to what it
  makes of its own execution, and one that is cut short sets `halfway`.
- `TiersAreEarned` (`StandingIsEarned` is inductive with the types), and from it `OnlyAppealsPlunge`, an action property.
- `AccessTypeCorrect`, `CitationsAreCurrent`: `AccessInv` says which requests stand in the queue (`Positioned`), that the queue is
  fair, so that of two requests the one that came first has the older record and is resumed first (`InTurn`), and that the shared variable
  has the newest record of those who set it, while all others will set it to a newer one (`Newest`). So the variable never goes back (`NewestSelectionStays`).

`RegistryProofs`
- `FeedTypeCorrect`, `DisconnectStopsAll` (`CleanupReachesAll`: whatever runs is in `cleanup`), `OnlyTheGapIsMissed`
  (`PolledIsShown`), `StatusIsOvertaken` (`AnswersAreLater`: an answer is at least what the screen showed when it was asked for).
- `IdentityTypeCorrect`, `FirstUsesAreCheap` (`IdentityInv`: no key was registered before the master key); `EpochsFollowEachOther`; `AlarmsStaySigned`; `LedgersAreBounded`, of the input screen.
- About operators rather than behaviours: `MoreThreatsAreNeverMilder` and `OnlyShadowsPass` (of all sets of classes),
  `TriggeredModeIsBlind` and `OnlyFederationEscalates` (of all states: `evaluateState` orders CIEMS for a federation that was joined or left, which has no vector of its own).

`CompositionProofs`
- `ServicesAreIndependent`: a step of `MCServices` is, for each component, one of its own steps or a stutter (`EveryoneMoves`). So each component satisfies its
  own specification, and what the modules above prove of it holds side by side: `ServicesTypeCorrect`, `ServicesAreSafe`, `ServicesStepsAreSafe`. When only the ledger is
  used the fabric does not satisfy its specification together with it, but sleeps (`FabricAsleep`).

Only model-checked: `SeedsAgain` and `WorkflowsEnd`, since liveness under fairness is beyond the prover,
and the violations, which are counterexamples.

## 5. Not modelled

In the parts that are modelled:
- kernel: fork detection, lineage certificates and drift detection (they read and report); the arbitration
  docket (append-only, no decision reads it back); the receipt of each governed action on the agent ledger;
  persistence of the signing key; consumption records; the units other than `calls`; forks of several records;
- agent ledger: the hooks, whose errors are swallowed and whose effects are elsewhere, and `clearLedger`, which only tests call;
- `resetWorlds`, `resetRuntime` and `resetAccounting`, which only `resetSovereignX` and tests call; the status of a world, which nothing
  consults; the comparison of lineages (`verifyWorldLineage`) and their certificates, which read only; the list of sandboxes, which nothing reads, and `executeInSandbox`, which runs a child process and keeps nothing;
- the patterns of the input screen; keys, ciphertexts, seals and signatures (only which key was used, and what
  was signed, is kept); the six dimensions of a trust score;
- which provider `selectModel` chooses, the prompts, and the HTTP clients of the providers; polls of the cluster, which are like those of the kernel.

Of the rest of the inventory:
- the agent loop (`agent/core/agenticLoop.ts`) works on a plan of its own in which only the first step has a tool
  call, `get_context`, which reads; its retries repeat nothing that changes state;
- the control tower composes kernel and fabric by their exported functions; its overlapping `seedKernel` is a caller of
  `ConstitutionalLog`. `submitGovernedTask` gives its task id where an intent id is expected and is refused at once;
- the signer, the invariant predicates, CRK-2's engines and the federated messages are pure functions; the HTTP layer, panels, persistence,
  adapters, tools and start scripts consist of I/O and rendering; ULX, INAS and the nested copy are other products or an older copy of parts of this one.

Most of the repository's lines are of this last kind, so that the models can stand for a small part of its
lines only. They stand for the part that keeps state that several callers share.

## 6. What is left

To prove, where it says more than what is there: that an epoch never goes back (`EpochKeys`), also when `recordCSR` throws; what the
abstract specifications `Journal` and `FederationContract` promise their readers, as theorems about them. To model, in the
order of what it would add:

1. The error handler of `/api/generate` (`backend/server.ts:69-79`), which answers with the last receipt of the ledger if that
   is blocked, although it may be of another request: `ModelAccess` with the ledger's contents.
2. The fallback over providers in `selectModel` (`src/model/router.ts`) as a pure function, against a reference
   definition of which providers are eligible.
3. `SubstrateRegistry` and `TrustLedger` of ULX (`ulx/ulx.py`), a second implementation of registries and scores.
4. A composition of workflows with the fabric, once the code connects the two: today a workflow authorizes no compute.
