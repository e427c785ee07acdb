--------------------------- MODULE ComputeFabric ---------------------------
(***************************************************************************)
(* Tasks on the nodes of the fabric.  executeFabricTask looks at the node,  *)
(* awaits authorizeCompute, which awaits a receipt in the agent ledger, and *)
(* then creates the task and its prongs; completions, failures and reverts  *)
(* come from outside, by the ids that callers gave.                         *)
(*                                                                          *)
(* What a node calls idle and active is "up" here: no operation of the       *)
(* fabric tells them apart.                                                 *)
(*                                                                          *)
(* Prongs of a task differ in their index only and are independent, so that *)
(* one stands for all.  The governor of the hardware router approves every  *)
(* task (hardwareRouter.ts:204), so that no authorization is refused.       *)
(***************************************************************************)
EXTENDS AgentLedger

CONSTANTS
  Nodes,
  TaskIds,
  Launches,            \* invocations of executeFabricTask that overlap
  MaxAuthorizations    \* bound on the authorizations of one process

ASSUME FabricAssumption ==
  /\ MaxAuthorizations \in Nat
  /\ 0..MaxAuthorizations \subseteq Subjects
  /\ IsFiniteSet(Launches)

VARIABLES
  node,      \* the status of each node
  auths,     \* COMPUTE_AUTHORIZATIONS
  launch,    \* where each invocation is suspended
  tasks,     \* FABRIC_TASKS
  prongs     \* PRONGS

fabricVars == <<node, auths, launch, tasks, prongs>>

Idle == [at |-> "idle"]
Launching == [at : {"routing"}, id : TaskIds, node : Nodes]
             \cup [at : {"recording", "recorded"}, id : TaskIds, node : Nodes, auth : 1..MaxAuthorizations]
Authorization == [id : TaskIds, node : Nodes]
Task == [id : TaskIds, node : Nodes, auth : 1..MaxAuthorizations,
         status : {"pending", "running", "completed", "failed", "reverted"}]
Prong == [id : TaskIds, status : {"pending", "done", "failed"}, output : BOOLEAN]

\* Mutant: the last entry with this id instead of the first.
FoundLast(list, i) == i \in DOMAIN list /\ \A j \in DOMAIN list : list[j].id = list[i].id => j <= i

\* Is the i-th entry the one that find returns for its id?
Found(list, i) == i \in DOMAIN list /\ \A j \in DOMAIN list : list[j].id = list[i].id => i <= j

FabricInit ==
  /\ AgentLedgerInit
  /\ node = [n \in Nodes |-> "absent"]
  /\ auths = <<>>
  /\ launch = [c \in Launches |-> Idle]
  /\ tasks = <<>>
  /\ prongs = <<>>

RegisterNode(n) ==
  /\ node[n] = "absent"
  /\ node' = [node EXCEPT ![n] = "up"]
  /\ UNCHANGED <<auths, launch, tasks, prongs, ledgerVars>>

\* A heartbeat also takes a suspended node up again.
UpdateNodeHeartbeat(n) ==
  /\ node[n] # "absent"
  /\ node' = [node EXCEPT ![n] = "up"]
  /\ UNCHANGED <<auths, launch, tasks, prongs, ledgerVars>>

SuspendNode(n) ==
  /\ node[n] # "absent"
  /\ node' = [node EXCEPT ![n] = "suspended"]
  /\ UNCHANGED <<auths, launch, tasks, prongs, ledgerVars>>

\* Mutant: a suspended node is not turned away.
ExecuteFabricTaskAnywhere(c, id, n) ==
  /\ launch[c] = Idle
  /\ node[n] # "absent"
  /\ launch' = [launch EXCEPT ![c] = [at |-> "routing", id |-> id, node |-> n]]
  /\ UNCHANGED <<node, auths, tasks, prongs, ledgerVars>>

\* executeFabricTask up to the first await, the import in authorizeCompute.
ExecuteFabricTask(c, id, n) ==
  /\ launch[c] = Idle
  /\ node[n] \notin {"absent", "suspended"}
  /\ launch' = [launch EXCEPT ![c] = [at |-> "routing", id |-> id, node |-> n]]
  /\ UNCHANGED <<node, auths, tasks, prongs, ledgerVars>>

\* Mutant: the receipt is not waited for.
AuthorizeComputeUnrecorded(c) ==
  /\ launch[c].at = "routing"
  /\ Len(auths) < MaxAuthorizations
  /\ auths' = Append(auths, [id |-> launch[c].id, node |-> launch[c].node])
  /\ launch' = [launch EXCEPT ![c] = [at |-> "recorded", id |-> launch[c].id,
                                      node |-> launch[c].node, auth |-> Len(auths) + 1]]
  /\ UNCHANGED <<node, tasks, prongs, ledgerVars>>

\* authorizeCompute from the import to the await of its receipt.  When
\* recordCSR throws, the authorization stays and nobody will use it.
AuthorizeCompute(c) ==
  /\ launch[c].at = "routing"
  /\ Len(auths) < MaxAuthorizations
  /\ auths' = Append(auths, [id |-> launch[c].id, node |-> launch[c].node])
  /\ \/ launch' = [launch EXCEPT ![c] = [at |-> "recording", id |-> launch[c].id,
                                         node |-> launch[c].node, auth |-> Len(auths) + 1]]
     \/ launch' = [launch EXCEPT ![c] = Idle]
  /\ UNCHANGED <<node, tasks, prongs, ledgerVars>>

\* The recordReceipt of authorizeCompute.
RecordAuthorization(c) ==
  /\ launch[c].at = "recording"
  /\ RecordReceipt(launch[c].auth)
  /\ launch' = [launch EXCEPT ![c].at = "recorded"]
  /\ UNCHANGED <<node, auths, tasks, prongs>>

\* The task an invocation creates.
NewTask(c, status) ==
  [id |-> launch[c].id, node |-> launch[c].node, auth |-> launch[c].auth, status |-> status]

\* The rest of executeFabricTask: the node is not looked at again.  When the
\* first recordCSR throws, the task is there and will never have a prong.
LaunchTask(c) ==
  /\ launch[c].at = "recorded"
  /\ \/ /\ tasks' = Append(tasks, NewTask(c, "running"))
        /\ prongs' = Append(prongs, [id |-> launch[c].id, status |-> "pending", output |-> FALSE])
     \/ /\ tasks' = Append(tasks, NewTask(c, "pending"))
        /\ UNCHANGED prongs
  /\ launch' = [launch EXCEPT ![c] = Idle]
  /\ UNCHANGED <<node, auths, ledgerVars>>

\* completeProng and failProng, in whatever state the prong is.
EndProng(k) ==
  /\ Found(prongs, k)
  /\ \/ prongs' = [prongs EXCEPT ![k].status = "done", ![k].output = TRUE]
     \/ prongs' = [prongs EXCEPT ![k].status = "failed"]
  /\ UNCHANGED <<node, auths, launch, tasks, ledgerVars>>

\* completeFabricTask and failFabricTask: the prongs are not looked at.
EndFabricTask(i, how) ==
  /\ Found(tasks, i)
  /\ tasks' = [tasks EXCEPT ![i].status = how]
  /\ UNCHANGED <<node, auths, launch, prongs, ledgerVars>>

\* revertFabricTask: the prongs of every task of this id start over.
RevertFabricTask(i) ==
  /\ Found(tasks, i)
  /\ tasks' = [tasks EXCEPT ![i].status = "reverted"]
  /\ prongs' = [k \in DOMAIN prongs |->
                  IF prongs[k].id = tasks[i].id
                  THEN [prongs[k] EXCEPT !.status = "pending", !.output = FALSE]
                  ELSE prongs[k]]
  /\ UNCHANGED <<node, auths, launch, ledgerVars>>

\* The agent ledger is used by others, or the process dies: the fabric is lost.
LedgerStep ==
  /\ LoadLedger \/ RecordReceipt(0)
  /\ UNCHANGED fabricVars

FabricCrash ==
  /\ LedgerCrash
  /\ node' = [n \in Nodes |-> "absent"]
  /\ auths' = <<>>
  /\ launch' = [c \in Launches |-> Idle]
  /\ tasks' = <<>>
  /\ prongs' = <<>>

\* resetFabric, also while executeFabricTask is suspended: the authorizations
\* are not touched, and what is suspended goes on.
ResetFabric ==
  /\ node' = [n \in Nodes |-> "absent"]
  /\ tasks' = <<>>
  /\ prongs' = <<>>
  /\ UNCHANGED <<auths, launch, ledgerVars>>

FabricNext ==
  \/ \E n \in Nodes : RegisterNode(n) \/ UpdateNodeHeartbeat(n) \/ SuspendNode(n)
  \/ \E c \in Launches, id \in TaskIds, n \in Nodes : ExecuteFabricTask(c, id, n)
  \/ \E c \in Launches : AuthorizeCompute(c) \/ RecordAuthorization(c) \/ LaunchTask(c)
  \/ \E k \in DOMAIN prongs : EndProng(k)
  \/ \E i \in DOMAIN tasks, how \in {"completed", "failed"} : EndFabricTask(i, how)
  \/ \E i \in DOMAIN tasks : RevertFabricTask(i)
  \/ LedgerStep
  \/ ResetFabric
  \/ FabricCrash

FabricSpec == FabricInit /\ [][FabricNext]_<<fabricVars, ledgerVars>>

----------------------------------------------------------------------------
(* Properties *)

\* Every variable has the type the code gives it.
FabricTypeOK ==
  /\ AgentLedgerTypeOK
  /\ node \in [Nodes -> {"absent", "up", "suspended"}]
  /\ auths \in Seq(Authorization)
  /\ launch \in [Launches -> {Idle} \cup Launching]
  /\ tasks \in Seq(Task)
  /\ prongs \in Seq(Prong)

\* Every task has an authorization of its own, given for its id and its node,
\* and the agent ledger holds the receipt of that authorization: whatever
\* overlapped in the two awaits, and however many tasks share an id.
TasksAreAuthorized ==
  \A i \in DOMAIN tasks :
    /\ tasks[i].auth \in DOMAIN auths
    /\ auths[tasks[i].auth] = [id |-> tasks[i].id, node |-> tasks[i].node]
    /\ \E k \in DOMAIN ledger : ledger[k].about = tasks[i].auth
    /\ \A j \in DOMAIN tasks : tasks[j].auth = tasks[i].auth => i = j

\* Ids are given by callers and looked up from the front: of two tasks with
\* one id the second is never seen to end, nor does a prong of it get done.
ShadowedNeverEnds ==
  /\ \A i \in DOMAIN tasks : ~Found(tasks, i) => tasks[i].status \in {"pending", "running"}
  /\ \A k \in DOMAIN prongs : ~Found(prongs, k) => prongs[k].status = "pending"

\* After any mix of late completions, failures and reverts, a prong that counts
\* as not yet run has no output.
PendingHasNoOutput == \A k \in DOMAIN prongs : prongs[k].status = "pending" => ~prongs[k].output

\* Calls that end, fail or revert tasks, however late and in whatever order,
\* reach the first task of their id and leave no half-cleared prong.
LateCallsReachTheFirst == ShadowedNeverEnds /\ PendingHasNoOutput

\* The work of a node: its tasks and the invocations on their way to it.
Work(n) ==
  Cardinality({i \in DOMAIN tasks : tasks[i].node = n})
  + Cardinality({c \in Launches : launch[c] # Idle /\ launch[c].node = n})

\* A node that is and stays suspended gets no task but those that had passed
\* the check of its status before, in the awaits of executeFabricTask.
SuspensionAdmitsNothing ==
  [][\A n \in Nodes : node[n] = "suspended" /\ node'[n] = "suspended" => Work(n)' <= Work(n)]_<<fabricVars, ledgerVars>>
============================================================================
