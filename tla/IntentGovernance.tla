------------------------- MODULE IntentGovernance --------------------------
(***************************************************************************)
(* How the Sovereign X kernel governs actions: the intent registry and its *)
(* lifecycle (ILC), the evidence portals, the role boundaries, the         *)
(* resource budgets, and kernelGovernAction, which consults all of them,   *)
(* awaits validateAction and only then approves.                           *)
(*                                                                         *)
(* Simplifications:                                                        *)
(*  - What the CSR holds about an intent is the set of statuses its        *)
(*    transition records name as reached and the target of the first of    *)
(*    them, which is all that recovery looks at; what it holds about a     *)
(*    role is the set of action types its boundary records list.  The log  *)
(*    itself, its file and the races of seedKernel are ConstitutionalLog.  *)
(*  - The kernel is seeded.  A crash and the seeding after it are one      *)
(*    step, Restart.  resetKernel, which only tests call, is left out.     *)
(*  - A call that is refused before it touches intent or budget (by APID,  *)
(*    by the boundary, for a missing or a not executable intent) changes   *)
(*    nothing here and is no step.                                         *)
(*  - Budgets count the unit "calls" only; every budget has one limit.     *)
(***************************************************************************)
EXTENDS Integers, Sequences, FiniteSets

CONSTANTS
  Intents,         \* the ids that uuid() gives to intents
  Evidences,       \* the ids that uuid() gives to evidence portals
  Agents,          \* agents, by agentId
  Roles,           \* agent roles, each with its boundary
  Calls,           \* bound: invocations of kernelGovernAction
  None,            \* null: no intent, no record
  Limit,           \* limits["calls"] of every budget
  RawTargets,      \* statuses that transitionIntent is called with from
                   \* outside enforceILC
  MaxBudgets,      \* bound: budgets made in one life of the process
  MaxRestarts      \* bound: restarts

Types == {"edit", "inspect"}   \* "edit" and "create"; every other type

Statuses == {"proposed", "evidenced", "authorized", "executing", "validating",
             "completed", "rejected", "reverted"}
Executable == {"authorized", "executing", "validating"}
Terminal == {"completed", "rejected", "reverted"}

\* ILC_ORDER.indexOf
Rank(s) ==
  CASE s = "proposed"   -> 0
    [] s = "evidenced"  -> 1
    [] s = "authorized" -> 2
    [] s = "executing"  -> 3
    [] s = "validating" -> 4
    [] s = "completed"  -> 5
    [] s = "rejected"   -> 6
    [] s = "reverted"   -> 7

ASSUME GovernanceAssumption ==
  /\ Limit \in Nat \ {0}
  /\ MaxBudgets \in Nat
  /\ MaxRestarts \in Nat
  /\ RawTargets \subseteq Statuses
  /\ None \notin Intents \cup Statuses
  /\ IsFiniteSet(Calls)

VARIABLES
  status,    \* INTENT_REGISTRY: the status of each intent, or "absent"
  reached,   \* reached[i]: statuses the CSR names i to have had
  first,     \* first[i]: target of the first transition of i in the CSR
  evidence,  \* EVIDENCE_REGISTRY: the portals of each intent
  verified,  \* the portals whose verified flag is set
  boundary,  \* BOUNDARIES: the allowedActions of each role
  charter,   \* charter[r]: action types the CSR's boundaries of r list
  budgets,   \* BUDGETS, in insertion order
  call,      \* call[c]: what becomes of the c-th kernelGovernAction
  restarts   \* how often the process was restarted

registry == <<status, reached, first>>
portals == <<evidence, verified>>
limits == <<boundary, charter>>
vars == <<registry, portals, limits, budgets, call, restarts>>

Idle == [pc |-> "idle", agent |-> None, role |-> None, type |-> None,
         intent |-> None, budget |-> 0]

----------------------------------------------------------------------------

Init ==
  /\ status = [i \in Intents |-> "absent"]
  /\ reached = [i \in Intents |-> {}]
  /\ first = [i \in Intents |-> None]
  /\ evidence = [i \in Intents |-> {}]
  /\ verified = {}
  /\ boundary = [r \in Roles |-> {}]
  /\ charter = [r \in Roles |-> {}]
  /\ budgets = <<>>
  /\ call = [c \in Calls |-> Idle]
  /\ restarts = 0

----------------------------------------------------------------------------
(* The intent lifecycle *)

\* createIntent.  Its record is no transition: recovery does not see it.
CreateIntent(i) ==
  /\ status[i] = "absent"
  /\ reached[i] = {}
  /\ status' = [status EXCEPT ![i] = "proposed"]
  /\ reached' = [reached EXCEPT ![i] = {"proposed"}]
  /\ UNCHANGED <<first, portals, limits, budgets, call, restarts>>

\* Mutant: the status is set and recordCSR not called.
TransitionUnlogged(i, via, next) ==
  /\ status' = [status EXCEPT ![i] = next]
  /\ UNCHANGED <<reached, first>>

\* transitionIntent, once for next and, when via is another status, once for
\* via before it.  Each sets the status and logs the transition.
Transition(i, via, next) ==
  /\ status' = [status EXCEPT ![i] = next]
  /\ reached' = [reached EXCEPT ![i] = @ \cup {via, next}]
  /\ first' = [first EXCEPT ![i] = IF @ = None THEN via ELSE @]

\* Mutant: no test against regression.
TransitionIntentAnywhere(i, next) ==
  /\ next \in RawTargets
  /\ status[i] # "absent"
  /\ Transition(i, next, next)
  /\ UNCHANGED <<portals, limits, budgets, call, restarts>>

\* transitionIntent as its exported callers use it, with any status.
TransitionIntent(i, next) ==
  /\ next \in RawTargets
  /\ status[i] # "absent"
  /\ Rank(next) >= Rank(status[i]) \/ next \in {"reverted", "rejected"}
  /\ Transition(i, next, next)
  /\ UNCHANGED <<portals, limits, budgets, call, restarts>>

\* Mutant: a proposed intent needs no evidence.
EnforceILCBlindly(i) ==
  /\ status[i] \notin Terminal \cup {"absent"}
  /\ \E next \in Statuses :
       Rank(next) = Rank(status[i]) + 1 /\ Transition(i, next, next)
  /\ UNCHANGED <<portals, limits, budgets, call, restarts>>

\* enforceILC: one status further, from "proposed" only with evidence.
EnforceILC(i) ==
  /\ status[i] \notin Terminal \cup {"absent"}
  /\ status[i] = "proposed" => evidence[i] # {}
  /\ \E next \in Statuses :
       Rank(next) = Rank(status[i]) + 1 /\ Transition(i, next, next)
  /\ UNCHANGED <<portals, limits, budgets, call, restarts>>

\* submitEvidence, for an id that createIntent gave out: it does not ask
\* whether the registry still holds the intent.
SubmitEvidence(i, e) ==
  /\ reached[i] # {}
  /\ \A j \in Intents : e \notin evidence[j]
  /\ evidence' = [evidence EXCEPT ![i] = @ \cup {e}]
  /\ UNCHANGED <<registry, verified, limits, budgets, call, restarts>>

VerifyEvidence(e) ==
  /\ \E i \in Intents : e \in evidence[i]
  /\ verified' = verified \cup {e}
  /\ UNCHANGED <<registry, evidence, limits, budgets, call, restarts>>

\* registerBoundary replaces the boundary of the role.
RegisterBoundary(r, allowed) ==
  /\ boundary' = [boundary EXCEPT ![r] = allowed]
  /\ charter' = [charter EXCEPT ![r] = @ \cup allowed]
  /\ UNCHANGED <<registry, portals, budgets, call, restarts>>

----------------------------------------------------------------------------
(* Budgets *)

Budget == [agent : Agents, used : 0..Limit, live : BOOLEAN]

NewBudget(a) == [agent |-> a, used |-> 0, live |-> TRUE]

CreateBudget(a) ==
  /\ Len(budgets) < MaxBudgets
  /\ budgets' = Append(budgets, NewBudget(a))
  /\ UNCHANGED <<registry, portals, limits, call, restarts>>

\* Mutant: any budget that is not overdrawn yet has room.
HasRoomLoosely(bs, b, n) == bs[b].used <= Limit

\* consumeResource has room for n more; otherwise it changes no budget.
HasRoom(bs, b, n) == bs[b].used + n <= Limit

Charged(bs, b, n) == [bs EXCEPT ![b].used = @ + n]

\* consumeResource as its exported callers use it, on any budget.
ConsumeResource(b, n) ==
  /\ HasRoom(budgets, b, n)
  /\ budgets' = Charged(budgets, b, n)
  /\ UNCHANGED <<registry, portals, limits, call, restarts>>

\* resetBudget: emptied, and no longer found by getAgentBudget.
ResetBudget(b) ==
  /\ budgets' = [budgets EXCEPT ![b].used = 0, ![b].live = FALSE]
  /\ UNCHANGED <<registry, portals, limits, call, restarts>>

LiveBudgets(bs, a) == {b \in DOMAIN bs : bs[b].agent = a /\ bs[b].live}

\* Mutant: the newest live budget is taken.
IsNewestBudget(bs, a, b) ==
  /\ b \in LiveBudgets(bs, a)
  /\ \A d \in LiveBudgets(bs, a) : d <= b

\* getAgentBudget(a): the first in insertion order.
IsAgentBudget(bs, a, b) ==
  /\ b \in LiveBudgets(bs, a)
  /\ \A d \in LiveBudgets(bs, a) : b <= d

\* getAgentBudget(a) ?? createBudget(a)
WithBudget(a) ==
  IF LiveBudgets(budgets, a) = {} THEN Append(budgets, NewBudget(a)) ELSE budgets

----------------------------------------------------------------------------
(* kernelGovernAction *)

\* Mutant: an evidenced intent is let pass without being authorized.
AdvanceLeniently(i, type) ==
  /\ status[i] \in Executable \cup {"evidenced"}
  /\ UNCHANGED registry

\* Mutant: an evidenced intent is moved to "executing" at once.
AdvanceSkipping(i, type) ==
  \/ /\ status[i] \in Executable
     /\ UNCHANGED registry
  \/ /\ status[i] = "evidenced"
     /\ Transition(i, "executing", "executing")

\* What it does to the intent of a call that it lets pass.
Advance(i, type) ==
  \/ /\ status[i] \in Executable
     /\ UNCHANGED registry
  \/ /\ status[i] = "evidenced"
     /\ Transition(i, "authorized", IF type = "edit" THEN "executing" ELSE "authorized")

\* Up to the await of validateAction, for an action under an intent.  Over
\* budget the call ends here, and the transitions of the intent stand.
Govern(c, a, r, type, i) ==
  /\ call[c] = Idle
  /\ type \in boundary[r]
  /\ Advance(i, type)
  /\ Len(WithBudget(a)) <= MaxBudgets
  /\ \E b \in DOMAIN WithBudget(a) :
       /\ IsAgentBudget(WithBudget(a), a, b)
       /\ \/ /\ HasRoom(WithBudget(a), b, 1)
             /\ budgets' = Charged(WithBudget(a), b, 1)
             /\ call' = [call EXCEPT ![c] =
                  [pc |-> "validating", agent |-> a, role |-> r, type |-> type,
                   intent |-> i, budget |-> b]]
          \/ /\ ~HasRoom(WithBudget(a), b, 1)
             /\ budgets' = WithBudget(a)
             /\ UNCHANGED call
  /\ UNCHANGED <<portals, limits, restarts>>

\* Mutant: the boundary is asked only for actions under an intent.
GovernUnboundFreely(c, a, r, type) ==
  /\ call[c] = Idle
  /\ call' = [call EXCEPT ![c] =
       [pc |-> "validating", agent |-> a, role |-> r, type |-> type,
        intent |-> None, budget |-> 0]]
  /\ UNCHANGED <<registry, portals, limits, budgets, restarts>>

\* Up to the await, for an action under no intent: no budget is charged.
GovernUnbound(c, a, r, type) ==
  /\ call[c] = Idle
  /\ type \in boundary[r]
  /\ call' = [call EXCEPT ![c] =
       [pc |-> "validating", agent |-> a, role |-> r, type |-> type,
        intent |-> None, budget |-> 0]]
  /\ UNCHANGED <<registry, portals, limits, budgets, restarts>>

\* After the await: the verdict is validateAction's alone.
Finish(c, verdict) ==
  /\ call[c].pc = "validating"
  /\ call' = [call EXCEPT ![c].pc = verdict]
  /\ UNCHANGED <<registry, portals, limits, budgets, restarts>>

----------------------------------------------------------------------------

\* The status that the replay of the log gives intent i: its regular
\* expression matches the first transition, later records find i registered.
Recovered(i) == IF first[i] = None THEN "absent" ELSE first[i]

\* A crash, and the seedKernel of the next process, which recovers intents and
\* nothing else.
Restart ==
  /\ restarts < MaxRestarts
  /\ restarts' = restarts + 1
  /\ status' = [i \in Intents |-> Recovered(i)]
  /\ evidence' = [i \in Intents |-> {}]
  /\ verified' = {}
  /\ boundary' = [r \in Roles |-> {}]
  /\ budgets' = <<>>
  /\ call' = [c \in Calls |-> IF call[c].pc = "idle" THEN Idle
                              ELSE [call[c] EXCEPT !.pc =
                                      IF @ = "validating" THEN "lost" ELSE @,
                                    !.budget = 0]]
  /\ UNCHANGED <<reached, first, charter>>

Next ==
  \/ \E i \in Intents : CreateIntent(i) \/ EnforceILC(i)
  \/ \E i \in Intents, s \in Statuses : TransitionIntent(i, s)
  \/ \E i \in Intents, e \in Evidences : SubmitEvidence(i, e)
  \/ \E e \in Evidences : VerifyEvidence(e)
  \/ \E r \in Roles, allowed \in SUBSET Types : RegisterBoundary(r, allowed)
  \/ \E a \in Agents : CreateBudget(a)
  \/ \E b \in DOMAIN budgets : ResetBudget(b) \/ \E n \in 1..Limit : ConsumeResource(b, n)
  \/ \E c \in Calls, a \in Agents, r \in Roles, t \in Types :
       GovernUnbound(c, a, r, t) \/ \E i \in Intents : Govern(c, a, r, t, i)
  \/ \E c \in Calls, v \in {"approved", "refused"} : Finish(c, v)
  \/ Restart

Spec == Init /\ [][Next]_vars

\* The discipline under which the lifecycle is one: only enforceILC and
\* kernelGovernAction move intents, and the process is not restarted.
Orderly == RawTargets = {} /\ MaxRestarts = 0

----------------------------------------------------------------------------
(* Properties *)

CallRecord ==
  [pc : {"idle", "validating", "approved", "refused", "lost"},
   agent : Agents \cup {None}, role : Roles \cup {None}, type : Types \cup {None},
   intent : Intents \cup {None}, budget : Nat]

\* Every variable has the type the code gives it.
TypeOK ==
  /\ status \in [Intents -> Statuses \cup {"absent"}]
  /\ reached \in [Intents -> SUBSET Statuses]
  /\ first \in [Intents -> Statuses \cup {None}]
  /\ evidence \in [Intents -> SUBSET Evidences]
  /\ verified \subseteq Evidences
  /\ boundary \in [Roles -> SUBSET Types]
  /\ charter \in [Roles -> SUBSET Types]
  /\ budgets \in Seq(Budget)
  /\ call \in [Calls -> CallRecord]
  /\ restarts \in 0..MaxRestarts

\* The registry shows only what the log can account for: a status no record
\* names is never shown, recovered or not (SXK-I004).
RegistryLogged == \A i \in Intents : status[i] # "absent" => status[i] \in reached[i]

\* An intent that ended stays ended, whatever is called on it in whatever
\* order, as long as the process lives.
TerminalClosed ==
  [][restarts' = restarts =>
       \A i \in Intents : status[i] \in Terminal => status'[i] \in Terminal]_vars

\* An approved action under an intent was preceded by the authorization of that
\* intent on the log, even when the intent moved on, ended or was recovered
\* while the action was being validated (SXK-I001).
ApprovedHadAuthority ==
  \A c \in Calls :
    call[c].pc = "approved" /\ call[c].intent # None
    => reached[call[c].intent] \cap Executable # {}

\* An approved action is of a type that a logged boundary of its role allowed,
\* even when the boundary was replaced meanwhile (SXK-I002).
ApprovedInCharter ==
  \A c \in Calls : call[c].pc = "approved" => call[c].type \in charter[call[c].role]

\* Calls charged to budget b and not yet forgotten with it.
ChargedTo(b) == {c \in Calls : call[c].budget = b /\ call[c].pc # "idle"}

\* Concurrent calls never overdraw: whatever is granted, in validation or
\* refused late on a live budget is paid for, and within the limit (P-I008).
ChargesCovered ==
  \A b \in DOMAIN budgets :
    /\ budgets[b].used <= Limit
    /\ budgets[b].live => Cardinality(ChargedTo(b)) <= budgets[b].used

\* An agent with several live budgets draws on one of them only, so that more
\* budgets do not make a higher limit.
OneLiveAccount ==
  \A c, d \in Calls :
    /\ call[c].budget # 0 /\ budgets[call[c].budget].live
    /\ call[d].budget # 0 /\ budgets[call[d].budget].live
    /\ call[c].agent = call[d].agent
    => call[c].budget = call[d].budget

\* With every transition made by enforceILC or kernelGovernAction, and no
\* restart, an intent has had exactly the statuses up to its own: none was
\* skipped or taken back, however calls interleave (P-I002, P-I003).
StepByStep ==
  \A i \in Intents :
    status[i] # "absent" => reached[i] = {s \in Statuses : Rank(s) <= Rank(status[i])}

\* Under the same discipline nothing beyond "proposed" lacks evidence (P-I001).
EvidenceBeforeAuthority ==
  \A i \in Intents : status[i] \notin {"absent", "proposed"} => evidence[i] # {}

\* P-I002 as modelChecker.ts words it: the status of an intent never regresses.
NeverRegresses ==
  [][\A i \in Intents :
       status[i] # "absent" /\ status'[i] # "absent"
       => Rank(status'[i]) >= Rank(status[i])]_vars
=============================================================================
