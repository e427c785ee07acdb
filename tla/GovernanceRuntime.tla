------------------------- MODULE GovernanceRuntime -------------------------
(***************************************************************************)
(* Executions of the governance runtime, which share one status flag.  The  *)
(* verdict of kernelGovernAction, called without an intent, is a free       *)
(* choice; completions and failures come from outside at any time.          *)
(*                                                                          *)
(* Every operation calls recordCSR, which throws when the log cannot be     *)
(* written; what was changed before the throw stays changed, and what comes *)
(* after it is not done.                                                    *)
(***************************************************************************)

CONSTANT Executions

VARIABLES
  execution,       \* the status of each entry of EXECUTIONS
  judging,         \* the executions whose kernelGovernAction has not returned
  runtimeStatus,   \* the flag
  halfway          \* history: did the last operation that changed any of these
                   \* throw between an execution and the flag?

runtimeVars == <<execution, judging, runtimeStatus, halfway>>

RuntimeInit ==
  /\ execution = [e \in Executions |-> "absent"]
  /\ judging = {}
  /\ runtimeStatus = "idle"
  /\ halfway = FALSE

\* executeWorkflow up to its awaits.  The flag is set first.  When createSandbox
\* throws there is no execution; when the record of the start throws there is
\* one that nobody judges.
ExecuteWorkflow(e) ==
  /\ execution[e] = "absent"
  /\ runtimeStatus' = "executing"
  /\ \/ /\ halfway' = TRUE
        /\ UNCHANGED <<execution, judging>>
     \/ /\ execution' = [execution EXCEPT ![e] = "running"]
        /\ judging' \in {judging, judging \cup {e}}
        /\ halfway' = FALSE

\* Mutant: an execution that has ended is left alone, the flag is not.
ExecutionJudgedIfRunning(e) ==
  /\ e \in judging
  /\ judging' = judging \ {e}
  /\ \/ UNCHANGED <<execution, runtimeStatus, halfway>>
     \/ /\ execution' = [execution EXCEPT ![e] = IF @ = "running" THEN "failed" ELSE @]
        /\ runtimeStatus' = "error"
        /\ halfway' = FALSE

\* The rest of executeWorkflow: the execution goes on, or kernelGovernAction
\* throws, which changes as little; or it is blocked, whatever was reported of
\* it meanwhile, and recordCSR comes after both changes.
ExecutionJudged(e) ==
  /\ e \in judging
  /\ judging' = judging \ {e}
  /\ \/ UNCHANGED <<execution, runtimeStatus, halfway>>
     \/ /\ execution' = [execution EXCEPT ![e] = "failed"]
        /\ runtimeStatus' = "error"
        /\ halfway' = FALSE

\* The status of the execution, then recordCSR, then the flag.
EndExecution(e, status, flag) ==
  /\ execution[e] # "absent"
  /\ execution' = [execution EXCEPT ![e] = status]
  /\ \/ runtimeStatus' = flag /\ halfway' = FALSE
     \/ UNCHANGED runtimeStatus /\ halfway' = TRUE
  /\ UNCHANGED judging

CompleteExecution(e) == EndExecution(e, "completed", "idle")
FailExecution(e) == EndExecution(e, "failed", "error")

RuntimeNext ==
  \E e \in Executions :
    ExecuteWorkflow(e) \/ ExecutionJudged(e) \/ CompleteExecution(e) \/ FailExecution(e)

RuntimeSpec == RuntimeInit /\ [][RuntimeNext]_runtimeVars

----------------------------------------------------------------------------
(* Properties *)

\* Every variable has the type the code gives it; "paused" is never set.
RuntimeTypeOK ==
  /\ execution \in [Executions -> {"absent", "running", "completed", "failed"}]
  /\ judging \subseteq Executions
  /\ runtimeStatus \in {"idle", "executing", "error"}
  /\ halfway \in BOOLEAN

Shown == CASE runtimeStatus = "executing" -> "running"
           [] runtimeStatus = "error" -> "failed"
           [] OTHER -> "completed"

\* The flag shared by all executions tells the truth about one of them at least:
\* something runs when it says so, something has failed when it says so, also
\* when executions are judged after they were reported to have ended, and
\* reported again.  Only a recordCSR that throws half-way makes it false of
\* every execution, and only until the next operation that goes further.
FlagShowsSomeone ==
  \/ halfway
  \/ \E e \in Executions : execution[e] = Shown
  \/ runtimeStatus = "idle" /\ \A e \in Executions : execution[e] = "absent"
============================================================================
