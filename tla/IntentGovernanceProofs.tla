---------------------- MODULE IntentGovernanceProofs -----------------------
(***************************************************************************)
(* Theorems about IntentGovernance, for any number of intents, portals,    *)
(* agents, roles, concurrent calls and restarts.                           *)
(***************************************************************************)
EXTENDS IntentGovernance, SequenceTheorems, FiniteSetTheorems, TLAPS

----------------------------------------------------------------------------
(* Type correctness *)

RegistryType ==
  /\ status \in [Intents -> Statuses \cup {"absent"}]
  /\ reached \in [Intents -> SUBSET Statuses]
  /\ first \in [Intents -> Statuses \cup {None}]

(* A transition keeps the types of the registry. *)
LEMMA TransitionType ==
  ASSUME RegistryType, NEW i \in Intents, NEW via \in Statuses, NEW next \in Statuses,
         Transition(i, via, next)
  PROVE  RegistryType'
BY DEF RegistryType, Transition

LEMMA AdvanceType ==
  ASSUME RegistryType, NEW i \in Intents, NEW type \in Types, Advance(i, type)
  PROVE  RegistryType'
<1>1. CASE UNCHANGED registry
  BY <1>1 DEF registry, RegistryType
<1>2. CASE Transition(i, "authorized", IF type = "edit" THEN "executing" ELSE "authorized")
  <2>1. /\ "authorized" \in Statuses
        /\ (IF type = "edit" THEN "executing" ELSE "authorized") \in Statuses
    BY DEF Statuses
  <2>2. QED
    BY <1>2, <2>1, TransitionType
<1>3. QED
  BY <1>1, <1>2 DEF Advance

(* Budgets keep their type when one is added, charged or reset. *)
LEMMA BudgetType ==
  ASSUME NEW bs \in Seq(Budget)
  PROVE  /\ \A a \in Agents : Append(bs, NewBudget(a)) \in Seq(Budget)
         /\ \A b \in DOMAIN bs, n \in Nat :
              HasRoom(bs, b, n) => Charged(bs, b, n) \in Seq(Budget)
         /\ \A b \in DOMAIN bs :
              [bs EXCEPT ![b].used = 0, ![b].live = FALSE] \in Seq(Budget)
<1>1. \A a \in Agents : NewBudget(a) \in Budget
  BY GovernanceAssumption DEF NewBudget, Budget
<1>2. \A a \in Agents : Append(bs, NewBudget(a)) \in Seq(Budget)
  BY <1>1
<1>3. DOMAIN bs = 1..Len(bs) /\ \A b \in DOMAIN bs : bs[b] \in Budget
  BY LenProperties, ElementOfSeq
<1>4. ASSUME NEW b \in DOMAIN bs, NEW n \in Nat, HasRoom(bs, b, n)
      PROVE  Charged(bs, b, n) \in Seq(Budget)
  <2>1. [bs[b] EXCEPT !.used = @ + n] \in Budget
    BY <1>3, <1>4, GovernanceAssumption DEF HasRoom, Budget
  <2>2. Charged(bs, b, n) = [bs EXCEPT ![b] = [bs[b] EXCEPT !.used = @ + n]]
    BY DEF Charged
  <2>3. QED
    BY <1>3, <2>1, <2>2, ExceptSeq
<1>5. ASSUME NEW b \in DOMAIN bs
      PROVE  [bs EXCEPT ![b].used = 0, ![b].live = FALSE] \in Seq(Budget)
  <2>1. [bs[b] EXCEPT !.used = 0, !.live = FALSE] \in Budget
    <3>1. bs[b] \in Budget /\ 0 \in 0..Limit
      BY <1>3, <1>5, GovernanceAssumption
    <3>2. QED
      BY <3>1, Zenon DEF Budget
  <2>2. [bs EXCEPT ![b].used = 0, ![b].live = FALSE]
        = [bs EXCEPT ![b] = [bs[b] EXCEPT !.used = 0, !.live = FALSE]]
    BY <1>3, <1>5
  <2>3. QED
    BY <1>3, <2>1, <2>2, ExceptSeq
<1>6. QED
  BY <1>2, <1>4, <1>5

LEMMA WithBudgetType ==
  ASSUME budgets \in Seq(Budget), NEW a \in Agents
  PROVE  WithBudget(a) \in Seq(Budget)
BY BudgetType DEF WithBudget

LEMMA IdleType == Idle \in CallRecord
BY DEF Idle, CallRecord

LEMMA CallType ==
  ASSUME NEW a \in Agents, NEW r \in Roles, NEW t \in Types,
         NEW i \in Intents \cup {None}, NEW b \in Nat
  PROVE  [pc |-> "validating", agent |-> a, role |-> r, type |-> t,
          intent |-> i, budget |-> b] \in CallRecord
BY DEF CallRecord

LEMMA GovernType ==
  ASSUME TypeOK, NEW c \in Calls, NEW a \in Agents, NEW r \in Roles, NEW t \in Types,
         NEW i \in Intents, Govern(c, a, r, t, i)
  PROVE  TypeOK'
<1>1. RegistryType'
  BY AdvanceType DEF TypeOK, RegistryType, Govern
<1>2. WithBudget(a) \in Seq(Budget)
  BY WithBudgetType DEF TypeOK
<1>3. PICK b \in DOMAIN WithBudget(a) :
        \/ /\ HasRoom(WithBudget(a), b, 1)
           /\ budgets' = Charged(WithBudget(a), b, 1)
           /\ call' = [call EXCEPT ![c] =
                [pc |-> "validating", agent |-> a, role |-> r, type |-> t,
                 intent |-> i, budget |-> b]]
        \/ budgets' = WithBudget(a) /\ UNCHANGED call
  BY DEF Govern
<1>4. budgets' \in Seq(Budget)
  <2>1. CASE HasRoom(WithBudget(a), b, 1) /\ budgets' = Charged(WithBudget(a), b, 1)
    <3>1. \A d \in DOMAIN WithBudget(a), n \in Nat :
            HasRoom(WithBudget(a), d, n) => Charged(WithBudget(a), d, n) \in Seq(Budget)
      BY <1>2, BudgetType
    <3>2. QED
      BY <2>1, <3>1
  <2>2. QED
    BY <1>2, <1>3, <2>1
<1>5. call' \in [Calls -> CallRecord]
  <2>1. b \in Nat
    BY <1>2, LenProperties
  <2>2. [pc |-> "validating", agent |-> a, role |-> r, type |-> t,
         intent |-> i, budget |-> b] \in CallRecord
    BY <2>1, CallType
  <2>3. QED
    BY <1>3, <2>2 DEF TypeOK
<1>6. QED
  BY <1>1, <1>4, <1>5 DEF Govern, TypeOK, RegistryType, portals, limits

LEMMA RestartType ==
  ASSUME TypeOK, Restart
  PROVE  TypeOK'
<1>1. status' \in [Intents -> Statuses \cup {"absent"}]
  BY DEF Restart, TypeOK, Recovered
<1>2. call' \in [Calls -> CallRecord]
  <2>1. ASSUME NEW c \in Calls
        PROVE  [call[c] EXCEPT !.pc = IF @ = "validating" THEN "lost" ELSE @,
                               !.budget = 0] \in CallRecord
    BY DEF TypeOK, CallRecord
  <2>2. QED
    BY <2>1, IdleType DEF Restart
<1>3. restarts' \in 0..MaxRestarts
  <2>1. restarts \in 0..MaxRestarts /\ restarts < MaxRestarts /\ restarts' = restarts + 1
    BY DEF Restart, TypeOK
  <2>2. QED
    BY <2>1, GovernanceAssumption
<1>4. budgets' \in Seq(Budget)
  BY EmptySeq DEF Restart
<1>5. QED
  BY <1>1, <1>2, <1>3, <1>4 DEF Restart, TypeOK

LEMMA TypeStep == TypeOK /\ [Next]_vars => TypeOK'
<1> SUFFICES ASSUME TypeOK, [Next]_vars
             PROVE  TypeOK'
  OBVIOUS
<1> USE DEF portals, limits
<1>1. ASSUME NEW i \in Intents, CreateIntent(i)
      PROVE  TypeOK'
  <2>1. "proposed" \in Statuses
    BY DEF Statuses
  <2>2. QED
    BY <1>1, <2>1 DEF CreateIntent, TypeOK
<1>2. ASSUME NEW i \in Intents, EnforceILC(i) \/ \E s \in Statuses : TransitionIntent(i, s)
      PROVE  TypeOK'
  <2>1. RegistryType'
    BY <1>2, TransitionType DEF EnforceILC, TransitionIntent, TypeOK, RegistryType
  <2>2. QED
    BY <1>2, <2>1 DEF EnforceILC, TransitionIntent, TypeOK, RegistryType
<1>3. ASSUME NEW i \in Intents, NEW e \in Evidences, SubmitEvidence(i, e)
      PROVE  TypeOK'
  BY <1>3 DEF SubmitEvidence, TypeOK, registry
<1>4. ASSUME NEW e \in Evidences, VerifyEvidence(e)
      PROVE  TypeOK'
  BY <1>4 DEF VerifyEvidence, TypeOK, registry
<1>5. ASSUME NEW r \in Roles, NEW allowed \in SUBSET Types, RegisterBoundary(r, allowed)
      PROVE  TypeOK'
  BY <1>5 DEF RegisterBoundary, TypeOK, registry
<1>6. ASSUME NEW a \in Agents, CreateBudget(a)
      PROVE  TypeOK'
  BY <1>6, BudgetType DEF CreateBudget, TypeOK, registry
<1>7. ASSUME NEW b \in DOMAIN budgets, ResetBudget(b) \/ \E n \in 1..Limit : ConsumeResource(b, n)
      PROVE  TypeOK'
  <2>1. budgets' \in Seq(Budget)
    <3>1. /\ \A n \in Nat : HasRoom(budgets, b, n) => Charged(budgets, b, n) \in Seq(Budget)
          /\ [budgets EXCEPT ![b].used = 0, ![b].live = FALSE] \in Seq(Budget)
      BY BudgetType DEF TypeOK
    <3>2. \A n \in 1..Limit : n \in Nat
      BY GovernanceAssumption
    <3>3. QED
      BY <1>7, <3>1, <3>2, Zenon DEF ResetBudget, ConsumeResource
  <2>2. QED
    BY <1>7, <2>1 DEF ResetBudget, ConsumeResource, TypeOK, registry
<1>8. ASSUME NEW c \in Calls, NEW a \in Agents, NEW r \in Roles, NEW t \in Types,
             GovernUnbound(c, a, r, t)
      PROVE  TypeOK'
  BY <1>8, CallType DEF GovernUnbound, TypeOK, registry
<1>9. ASSUME NEW c \in Calls, NEW v \in {"approved", "refused"}, Finish(c, v)
      PROVE  TypeOK'
  <2>1. [call[c] EXCEPT !.pc = v] \in CallRecord
    BY DEF TypeOK, CallRecord
  <2>2. call' = [call EXCEPT ![c] = [call[c] EXCEPT !.pc = v]]
    BY <1>9 DEF Finish
  <2>3. QED
    BY <1>9, <2>1, <2>2 DEF Finish, TypeOK, registry
<1>10. CASE UNCHANGED vars
  BY <1>10 DEF vars, TypeOK, registry
<1>11. QED
  BY <1>1, <1>2, <1>3, <1>4, <1>5, <1>6, <1>7, <1>8, <1>9, <1>10,
     GovernType, RestartType DEF Next

(* Every variable keeps the type the code gives it. *)
THEOREM TypeCorrect == Spec => []TypeOK
<1>1. Init => TypeOK
  <2> SUFFICES ASSUME Init PROVE TypeOK
    OBVIOUS
  <2>1. call \in [Calls -> CallRecord]
    BY IdleType DEF Init
  <2>2. budgets \in Seq(Budget) /\ restarts \in 0..MaxRestarts
    BY EmptySeq, GovernanceAssumption DEF Init
  <2>3. QED
    BY <2>1, <2>2 DEF Init, TypeOK
<1>2. QED
  BY <1>1, TypeStep, PTL DEF Spec

----------------------------------------------------------------------------
(* What the log can account for.  The log of an intent and of a role only   *)
(* grows, so that what it justified when a call was let pass it justifies   *)
(* when the call is approved.                                               *)

Pending == {"validating", "approved"}

LogInv ==
  /\ \A i \in Intents : status[i] # "absent" => status[i] \in reached[i]
  /\ \A i \in Intents : first[i] # None => first[i] \in reached[i]
  /\ \A r \in Roles : boundary[r] \subseteq charter[r]
  /\ \A c \in Calls :
       call[c].pc \in Pending =>
         /\ call[c].role \in Roles /\ call[c].type \in charter[call[c].role]
         /\ call[c].intent # None => reached[call[c].intent] \cap Executable # {}

(* Each step leaves the logs and settled calls, adds to the logs, or lets  *)
(* one more call pass.                                                     *)
LogGrows ==
  /\ \A i \in Intents : reached[i] \subseteq reached'[i]
  /\ \A r \in Roles : charter[r] \subseteq charter'[r]

LEMMA TransitionLogged ==
  ASSUME TypeOK, LogInv, NEW i \in Intents, NEW via \in Statuses, NEW next \in Statuses,
         Transition(i, via, next)
  PROVE  /\ \A j \in Intents : reached[j] \subseteq reached'[j]
         /\ \A j \in Intents : status'[j] # "absent" => status'[j] \in reached'[j]
         /\ \A j \in Intents : first'[j] # None => first'[j] \in reached'[j]
         /\ next \in reached'[i]
BY DEF TypeOK, LogInv, Transition

LEMMA AdvanceLogged ==
  ASSUME TypeOK, LogInv, NEW i \in Intents, NEW type \in Types, Advance(i, type)
  PROVE  /\ \A j \in Intents : reached[j] \subseteq reached'[j]
         /\ \A j \in Intents : status'[j] # "absent" => status'[j] \in reached'[j]
         /\ \A j \in Intents : first'[j] # None => first'[j] \in reached'[j]
         /\ reached'[i] \cap Executable # {}
<1>1. CASE status[i] \in Executable /\ UNCHANGED registry
  BY <1>1 DEF LogInv, registry, Executable
<1>2. CASE Transition(i, "authorized", IF type = "edit" THEN "executing" ELSE "authorized")
  <2> DEFINE next == IF type = "edit" THEN "executing" ELSE "authorized"
  <2>1. next \in Statuses /\ next \in Executable /\ "authorized" \in Statuses
    BY DEF Statuses, Executable
  <2> HIDE DEF next
  <2>2. Transition(i, "authorized", next)
    BY <1>2 DEF next
  <2>3. QED
    BY <2>1, <2>2, TransitionLogged
<1>3. QED
  BY <1>1, <1>2 DEF Advance

(* A call that is not touched stays justified by logs that only grow. *)
LEMMA CallKept ==
  ASSUME TypeOK, LogInv, LogGrows, NEW c \in Calls,
         call'[c] = call[c] \/ call'[c].pc \notin Pending
  PROVE  call'[c].pc \in Pending =>
           /\ call'[c].role \in Roles /\ call'[c].type \in charter'[call'[c].role]
           /\ call'[c].intent # None => reached'[call'[c].intent] \cap Executable # {}
<1>1. call[c].intent \in Intents \cup {None}
  BY DEF TypeOK, CallRecord
<1>2. QED
  BY <1>1 DEF LogInv, LogGrows

LEMMA GovernLogged ==
  ASSUME TypeOK, LogInv, NEW c \in Calls, NEW a \in Agents, NEW r \in Roles, NEW t \in Types,
         NEW i \in Intents, Govern(c, a, r, t, i)
  PROVE  LogInv'
<1>1. /\ \A j \in Intents : reached[j] \subseteq reached'[j]
      /\ \A j \in Intents : status'[j] # "absent" => status'[j] \in reached'[j]
      /\ \A j \in Intents : first'[j] # None => first'[j] \in reached'[j]
      /\ reached'[i] \cap Executable # {}
  BY AdvanceLogged DEF Govern
<1>2. /\ t \in boundary[r] /\ boundary' = boundary /\ charter' = charter
  BY DEF Govern, limits
<1>3. LogGrows
  BY <1>1, <1>2 DEF LogGrows
<1>4. ASSUME NEW d \in Calls
      PROVE  call'[d].pc \in Pending =>
               /\ call'[d].role \in Roles /\ call'[d].type \in charter'[call'[d].role]
               /\ call'[d].intent # None => reached'[call'[d].intent] \cap Executable # {}
  <2>1. CASE call'[d] = call[d]
    BY <1>3, <2>1, CallKept
  <2>2. CASE call'[d] # call[d]
    <3>1. PICK b \in DOMAIN WithBudget(a) :
            call' = [call EXCEPT ![c] =
              [pc |-> "validating", agent |-> a, role |-> r, type |-> t,
               intent |-> i, budget |-> b]]
      BY <2>2 DEF Govern
    <3>2. d = c /\ call'[d].role = r /\ call'[d].type = t /\ call'[d].intent = i
      BY <2>2, <3>1 DEF TypeOK
    <3>3. QED
      BY <1>1, <1>2, <3>2 DEF LogInv
  <2>3. QED
    BY <2>1, <2>2
<1>5. QED
  BY <1>1, <1>2, <1>4 DEF LogInv

LEMMA LogStep == TypeOK /\ LogInv /\ [Next]_vars => LogInv'
<1> SUFFICES ASSUME TypeOK, LogInv, [Next]_vars
             PROVE  LogInv'
  OBVIOUS
<1> USE DEF registry, limits
<1>1. ASSUME NEW i \in Intents, CreateIntent(i)
      PROVE  LogInv'
  <2>1. /\ LogGrows
        /\ \A j \in Intents : status'[j] # "absent" => status'[j] \in reached'[j]
        /\ \A j \in Intents : first'[j] # None => first'[j] \in reached'[j]
    BY <1>1 DEF CreateIntent, LogGrows, TypeOK, LogInv
  <2>2. QED
    BY <1>1, <2>1, CallKept DEF CreateIntent, LogInv
<1>2. ASSUME NEW i \in Intents, EnforceILC(i) \/ \E s \in Statuses : TransitionIntent(i, s)
      PROVE  LogInv'
  <2>1. PICK s \in Statuses : Transition(i, s, s)
    BY <1>2 DEF EnforceILC, TransitionIntent
  <2>2. /\ \A j \in Intents : reached[j] \subseteq reached'[j]
        /\ \A j \in Intents : status'[j] # "absent" => status'[j] \in reached'[j]
        /\ \A j \in Intents : first'[j] # None => first'[j] \in reached'[j]
    BY <2>1, TransitionLogged
  <2>3. UNCHANGED <<limits, call>>
    BY <1>2 DEF EnforceILC, TransitionIntent
  <2>4. LogGrows
    BY <2>2, <2>3 DEF LogGrows
  <2>5. QED
    BY <2>2, <2>3, <2>4, CallKept DEF LogInv
<1>3. ASSUME NEW r \in Roles, NEW allowed \in SUBSET Types, RegisterBoundary(r, allowed)
      PROVE  LogInv'
  <2>1. LogGrows /\ \A q \in Roles : boundary'[q] \subseteq charter'[q]
    BY <1>3 DEF RegisterBoundary, LogGrows, TypeOK, LogInv
  <2>2. QED
    BY <1>3, <2>1, CallKept DEF RegisterBoundary, LogInv
<1>4. ASSUME UNCHANGED <<registry, limits, call>>
      PROVE  LogInv'
  BY <1>4 DEF LogInv
<1>5. ASSUME \/ \E i \in Intents, e \in Evidences : SubmitEvidence(i, e)
             \/ \E e \in Evidences : VerifyEvidence(e)
             \/ \E a \in Agents : CreateBudget(a)
             \/ \E b \in DOMAIN budgets :
                   ResetBudget(b) \/ \E n \in 1..Limit : ConsumeResource(b, n)
      PROVE  LogInv'
  <2>1. UNCHANGED <<registry, limits, call>>
    BY <1>5 DEF SubmitEvidence, VerifyEvidence, CreateBudget, ResetBudget, ConsumeResource
  <2>2. QED
    BY <2>1, <1>4
<1>6. ASSUME NEW c \in Calls, NEW a \in Agents, NEW r \in Roles, NEW t \in Types,
             GovernUnbound(c, a, r, t)
      PROVE  LogInv'
  BY <1>6 DEF GovernUnbound, LogInv, TypeOK
<1>7. ASSUME NEW c \in Calls, NEW v \in {"approved", "refused"}, Finish(c, v)
      PROVE  LogInv'
  <2>1. call' = [call EXCEPT ![c] = [call[c] EXCEPT !.pc = v]]
    BY <1>7 DEF Finish
  <2>2. /\ call'[c].role = call[c].role /\ call'[c].type = call[c].type
        /\ call'[c].intent = call[c].intent /\ call[c].pc \in Pending
    BY <1>7, <2>1 DEF TypeOK, CallRecord, Finish, Pending
  <2>3. \A d \in Calls \ {c} : call'[d] = call[d]
    BY <2>1 DEF TypeOK
  <2>4. QED
    BY <1>7, <2>2, <2>3 DEF Finish, LogInv
<1>8. CASE Restart
  <2>1. LogGrows
    BY <1>8 DEF Restart, LogGrows
  <2>2. \A i \in Intents : status'[i] # "absent" => status'[i] \in reached'[i]
    BY <1>8 DEF Restart, Recovered, LogInv
  <2>3. ASSUME NEW c \in Calls, call'[c].pc \in Pending
        PROVE  /\ call'[c].role = call[c].role /\ call'[c].type = call[c].type
               /\ call'[c].intent = call[c].intent /\ call[c].pc \in Pending
    BY <1>8, <2>3 DEF Restart, TypeOK, CallRecord, Pending, Idle
  <2>4. QED
    BY <1>8, <2>2, <2>3 DEF Restart, LogInv
<1>9. CASE UNCHANGED vars
  BY <1>9, <1>4 DEF vars
<1>10. QED
  BY <1>1, <1>2, <1>3, <1>5, <1>6, <1>7, <1>8, <1>9, GovernLogged DEF Next

LEMMA LogInvariant == Spec => []LogInv
<1>1. Init => LogInv
  BY DEF Init, LogInv, Idle, Pending
<1>2. QED
  BY <1>1, TypeCorrect, LogStep, PTL DEF Spec

(* SXK-I004: the registry never shows a status that the log does not name, *)
(* before a crash or after the recovery from one.                          *)
THEOREM StatusesLogged == Spec => []RegistryLogged
<1>1. LogInv => RegistryLogged
  BY DEF LogInv, RegistryLogged
<1>2. QED
  BY <1>1, LogInvariant, PTL

(* SXK-I001: whatever happened to its intent while it was validated, an    *)
(* approved action under an intent has that intent's authorization on the  *)
(* log.                                                                    *)
THEOREM ApprovalsAuthorized == Spec => []ApprovedHadAuthority
<1>1. LogInv => ApprovedHadAuthority
  BY DEF LogInv, ApprovedHadAuthority, Pending
<1>2. QED
  BY <1>1, LogInvariant, PTL

(* SXK-I002: an approved action is of a type that a logged boundary of its *)
(* role allowed.                                                           *)
THEOREM ApprovalsChartered == Spec => []ApprovedInCharter
<1>1. LogInv => ApprovedInCharter
  BY DEF LogInv, ApprovedInCharter, Pending
<1>2. QED
  BY <1>1, LogInvariant, PTL

----------------------------------------------------------------------------
(* An intent that ended stays ended.                                        *)

StaysEnded ==
  restarts' = restarts =>
    \A i \in Intents : status[i] \in Terminal => status'[i] \in Terminal

LEMMA EndedStep == TypeOK /\ [Next]_vars => StaysEnded
<1> SUFFICES ASSUME TypeOK, [Next]_vars, restarts' = restarts
             PROVE  \A i \in Intents : status[i] \in Terminal => status'[i] \in Terminal
  BY DEF StaysEnded
<1>1. status \in [Intents -> Statuses \cup {"absent"}]
  BY DEF TypeOK
<1>2. ASSUME NEW i \in Intents, CreateIntent(i)
      PROVE  \A j \in Intents : status[j] \in Terminal => status'[j] \in Terminal
  BY <1>1, <1>2 DEF CreateIntent, Terminal
<1>3. ASSUME NEW i \in Intents, EnforceILC(i)
      PROVE  \A j \in Intents : status[j] \in Terminal => status'[j] \in Terminal
  BY <1>1, <1>3 DEF EnforceILC, Transition
<1>4. ASSUME NEW i \in Intents, NEW s \in Statuses, TransitionIntent(i, s)
      PROVE  \A j \in Intents : status[j] \in Terminal => status'[j] \in Terminal
  <2>1. status' = [status EXCEPT ![i] = s]
    BY <1>4 DEF TransitionIntent, Transition
  <2>2. status[i] \in Terminal => s \in Terminal
    BY <1>1, <1>4 DEF TransitionIntent, Terminal, Statuses, Rank
  <2>3. QED
    BY <1>1, <2>1, <2>2
<1>5. ASSUME NEW c \in Calls, NEW a \in Agents, NEW r \in Roles, NEW t \in Types,
             NEW i \in Intents, Govern(c, a, r, t, i)
      PROVE  \A j \in Intents : status[j] \in Terminal => status'[j] \in Terminal
  <2>1. Advance(i, t)
    BY <1>5 DEF Govern
  <2>2. CASE UNCHANGED registry
    BY <2>2 DEF registry
  <2>3. CASE status[i] = "evidenced" /\ \E s : status' = [status EXCEPT ![i] = s]
    BY <1>1, <2>3 DEF Terminal
  <2>4. QED
    BY <2>1, <2>2, <2>3 DEF Advance, Transition
<1>6. CASE UNCHANGED status
  BY <1>6
<1>7. ~Restart
  <2>1. restarts \in 0..MaxRestarts /\ MaxRestarts \in Nat
    BY GovernanceAssumption DEF TypeOK
  <2>2. restarts + 1 # restarts
    BY <2>1
  <2>3. Restart => restarts' = restarts + 1
    BY DEF Restart
  <2>4. QED
    BY <2>2, <2>3
<1>8. ASSUME \/ \E i \in Intents, e \in Evidences : SubmitEvidence(i, e)
             \/ \E e \in Evidences : VerifyEvidence(e)
             \/ \E r \in Roles, allowed \in SUBSET Types : RegisterBoundary(r, allowed)
             \/ \E a \in Agents : CreateBudget(a)
             \/ \E b \in DOMAIN budgets :
                   ResetBudget(b) \/ \E n \in 1..Limit : ConsumeResource(b, n)
             \/ \E c \in Calls, a \in Agents, r \in Roles, t \in Types :
                   GovernUnbound(c, a, r, t)
             \/ \E c \in Calls, v \in {"approved", "refused"} : Finish(c, v)
             \/ UNCHANGED vars
      PROVE  UNCHANGED status
  BY <1>8 DEF vars, registry, SubmitEvidence, VerifyEvidence, RegisterBoundary, CreateBudget,
              ResetBudget, ConsumeResource, GovernUnbound, Finish
<1>9. QED
  BY <1>2, <1>3, <1>4, <1>5, <1>6, <1>7, <1>8 DEF Next

(* Nothing reopens an intent that was completed, rejected or reverted while *)
(* the process lives (a restart does: see the run intent_recovery).         *)
THEOREM EndedStaysEnded == Spec => TerminalClosed
<1>1. TypeOK /\ [Next]_vars => [StaysEnded]_vars
  BY EndedStep
<1>2. QED
  BY <1>1, TypeCorrect, PTL DEF Spec, TerminalClosed, StaysEnded

(* What NeverRegresses promises, as far as it is kept.                      *)
GoesForward ==
  restarts' = restarts =>
    \A i \in Intents :
      status[i] # "absent" =>
        /\ status'[i] # "absent"
        /\ \/ Rank(status'[i]) >= Rank(status[i])
           \/ status[i] = "reverted" /\ status'[i] = "rejected"

LEMMA Ranks == \A s \in Statuses : Rank(s) \in 0..7
BY DEF Statuses, Rank

LEMMA ForwardStep == TypeOK /\ [Next]_vars => GoesForward
<1> SUFFICES ASSUME TypeOK, [Next]_vars, restarts' = restarts,
                    NEW j \in Intents, status[j] # "absent"
             PROVE  /\ status'[j] # "absent"
                    /\ \/ Rank(status'[j]) >= Rank(status[j])
                       \/ status[j] = "reverted" /\ status'[j] = "rejected"
  BY DEF GoesForward
<1> DEFINE Onward == /\ status'[j] # "absent"
                     /\ \/ Rank(status'[j]) >= Rank(status[j])
                        \/ status[j] = "reverted" /\ status'[j] = "rejected"
<1>1. status \in [Intents -> Statuses \cup {"absent"}] /\ status[j] \in Statuses
  BY DEF TypeOK
<1>2. CASE status'[j] = status[j]
  BY <1>1, <1>2, Ranks
<1>3. ASSUME NEW next \in Statuses, NEW via, Transition(j, via, next),
             Rank(next) >= Rank(status[j])
      PROVE  Onward
  BY <1>1, <1>3 DEF Transition, Statuses
<1>4. ASSUME NEW i \in Intents, CreateIntent(i)
      PROVE  Onward
  BY <1>1, <1>2, <1>4 DEF CreateIntent
<1>5. ASSUME NEW i \in Intents, EnforceILC(i)
      PROVE  Onward
  <2>1. PICK next \in Statuses : Rank(next) = Rank(status[i]) + 1 /\ Transition(i, next, next)
    BY <1>5 DEF EnforceILC
  <2>2. CASE i = j
    BY <1>1, <1>3, <2>1, <2>2, Ranks
  <2>3. CASE i # j
    BY <1>1, <1>2, <2>1, <2>3 DEF Transition
  <2>4. QED
    BY <2>2, <2>3
<1>6. ASSUME NEW i \in Intents, NEW s \in Statuses, TransitionIntent(i, s)
      PROVE  Onward
  <2>1. Transition(i, s, s) /\ (Rank(s) >= Rank(status[i]) \/ s \in {"reverted", "rejected"})
    BY <1>6 DEF TransitionIntent
  <2>2. CASE i # j
    BY <1>1, <1>2, <2>1, <2>2 DEF Transition
  <2>3. CASE i = j /\ Rank(s) >= Rank(status[j])
    BY <1>3, <2>1, <2>3
  <2>4. CASE i = j /\ ~(Rank(s) >= Rank(status[j]))
    <3>1. status[j] = "reverted" /\ s = "rejected"
      BY <1>1, <2>1, <2>4 DEF Rank, Statuses
    <3>2. QED
      BY <1>1, <2>1, <2>4, <3>1 DEF Transition
  <2>5. QED
    BY <2>2, <2>3, <2>4
<1>7. ASSUME NEW c \in Calls, NEW a \in Agents, NEW r \in Roles, NEW t \in Types,
             NEW i \in Intents, Govern(c, a, r, t, i)
      PROVE  Onward
  <2> DEFINE next == IF t = "edit" THEN "executing" ELSE "authorized"
  <2>1. Advance(i, t)
    BY <1>7 DEF Govern
  <2>2. CASE UNCHANGED registry
    BY <1>2, <2>2 DEF registry
  <2>3. CASE i # j /\ Transition(i, "authorized", next)
    BY <1>1, <1>2, <2>3 DEF Transition
  <2>4. CASE i = j /\ status[i] = "evidenced" /\ Transition(i, "authorized", next)
    <3>1. next \in Statuses /\ Rank(next) >= Rank("evidenced")
      BY DEF Statuses, Rank
    <3> HIDE DEF next
    <3>2. QED
      BY <1>3, <2>4, <3>1
  <2>5. QED
    BY <2>1, <2>2, <2>3, <2>4 DEF Advance
<1>8. ~Restart
  <2>1. restarts \in 0..MaxRestarts /\ MaxRestarts \in Nat
    BY GovernanceAssumption DEF TypeOK
  <2>2. restarts + 1 # restarts
    BY <2>1
  <2>3. QED
    BY <2>2 DEF Restart
<1>9. ASSUME \/ \E i \in Intents, e \in Evidences : SubmitEvidence(i, e)
             \/ \E e \in Evidences : VerifyEvidence(e)
             \/ \E r \in Roles, allowed \in SUBSET Types : RegisterBoundary(r, allowed)
             \/ \E a \in Agents : CreateBudget(a)
             \/ \E b \in DOMAIN budgets :
                   ResetBudget(b) \/ \E n \in 1..Limit : ConsumeResource(b, n)
             \/ \E c \in Calls, a \in Agents, r \in Roles, t \in Types :
                   GovernUnbound(c, a, r, t)
             \/ \E c \in Calls, v \in {"approved", "refused"} : Finish(c, v)
             \/ UNCHANGED vars
      PROVE  UNCHANGED status
  BY <1>9 DEF vars, registry, SubmitEvidence, VerifyEvidence, RegisterBoundary, CreateBudget,
              ResetBudget, ConsumeResource, GovernUnbound, Finish
<1>10. QED
  BY <1>2, <1>4, <1>5, <1>6, <1>7, <1>8, <1>9 DEF Next

(* P-I002, as far as the code keeps it: whatever statuses transitionIntent  *)
(* is asked for, nothing but a restart takes an intent back, or out of the  *)
(* registry; and nothing but a rejection after a revert comes out of turn.  *)
THEOREM OnlyRestartsRegress == Spec => [][GoesForward]_vars
<1>1. TypeOK /\ [Next]_vars => [GoesForward]_vars
  BY ForwardStep
<1>2. QED
  BY <1>1, TypeCorrect, PTL DEF Spec

----------------------------------------------------------------------------
(* The lifecycle, step by step, under the discipline that makes it one.     *)

UpTo(s) == {t \in Statuses : Rank(t) <= Rank(s)}

LifecycleInv ==
  \A i \in Intents :
    /\ status[i] # "absent" => reached[i] = UpTo(status[i])
    /\ status[i] \notin {"absent", "proposed"} => evidence[i] # {}

(* Adding the next status to the statuses so far. *)
LEMMA UpToNext ==
  ASSUME NEW s \in Statuses, NEW next \in Statuses, Rank(next) = Rank(s) + 1
  PROVE  UpTo(s) \cup {next} = UpTo(next)
<1>1. \A t \in Statuses : Rank(t) \in 0..7
  BY DEF Statuses, Rank
<1>2. \A t \in Statuses : Rank(t) = Rank(next) => t = next
  BY DEF Statuses, Rank
<1>3. QED
  BY <1>1, <1>2 DEF UpTo

LEMMA LifecycleStep ==
  ASSUME Orderly, TypeOK, LifecycleInv, [Next]_vars
  PROVE  LifecycleInv'
<1>1. status \in [Intents -> Statuses \cup {"absent"}] /\ reached \in [Intents -> SUBSET Statuses]
  BY DEF TypeOK
<1>2. ASSUME NEW i \in Intents, CreateIntent(i)
      PROVE  LifecycleInv'
  <2>1. UpTo("proposed") = {"proposed"}
    BY DEF UpTo, Statuses, Rank
  <2>2. QED
    BY <1>1, <1>2, <2>1 DEF CreateIntent, LifecycleInv, portals
<1>3. ASSUME NEW i \in Intents, EnforceILC(i)
      PROVE  LifecycleInv'
  <2>1. PICK next \in Statuses : Rank(next) = Rank(status[i]) + 1 /\ Transition(i, next, next)
    BY <1>3 DEF EnforceILC
  <2>2. status[i] \in Statuses /\ evidence[i] # {} /\ reached[i] = UpTo(status[i])
    BY <1>1, <1>3 DEF EnforceILC, LifecycleInv
  <2>3. reached[i] \cup {next} = UpTo(next)
    BY <2>1, <2>2, UpToNext
  <2>4. QED
    BY <1>1, <1>3, <2>1, <2>2, <2>3 DEF EnforceILC, Transition, LifecycleInv, portals
<1>4. ASSUME NEW i \in Intents, NEW e \in Evidences, SubmitEvidence(i, e)
      PROVE  LifecycleInv'
  BY <1>4 DEF SubmitEvidence, LifecycleInv, registry, TypeOK
<1>5. ASSUME NEW c \in Calls, NEW a \in Agents, NEW r \in Roles, NEW t \in Types,
             NEW i \in Intents, Govern(c, a, r, t, i)
      PROVE  LifecycleInv'
  <2>1. Advance(i, t) /\ evidence' = evidence
    BY <1>5 DEF Govern, portals
  <2>2. CASE UNCHANGED registry
    BY <2>1, <2>2 DEF registry, LifecycleInv
  <2>3. CASE /\ status[i] = "evidenced"
             /\ Transition(i, "authorized", IF t = "edit" THEN "executing" ELSE "authorized")
    <3>1. UpTo("evidenced") \cup {"authorized"} = UpTo("authorized")
      BY UpToNext DEF Statuses, Rank
    <3>2. UpTo("authorized") \cup {"executing"} = UpTo("executing")
      BY UpToNext DEF Statuses, Rank
    <3>3. reached[i] = UpTo("evidenced") /\ evidence[i] # {}
      BY <2>3 DEF LifecycleInv
    <3>4. CASE t = "edit"
      BY <1>1, <2>1, <2>3, <3>1, <3>2, <3>3, <3>4 DEF Transition, LifecycleInv
    <3>5. CASE t # "edit"
      BY <1>1, <2>1, <2>3, <3>1, <3>3, <3>5 DEF Transition, LifecycleInv
    <3>6. QED
      BY <3>4, <3>5
  <2>4. QED
    BY <2>1, <2>2, <2>3 DEF Advance
<1>6. CASE UNCHANGED <<status, reached, evidence>>
  BY <1>6 DEF LifecycleInv
<1>7. ~Restart /\ \A i \in Intents, s \in Statuses : ~TransitionIntent(i, s)
  BY DEF Orderly, Restart, TransitionIntent, TypeOK
<1>8. QED
  BY <1>2, <1>3, <1>4, <1>5, <1>6, <1>7
  DEF Next, vars, registry, portals, VerifyEvidence, RegisterBoundary, CreateBudget,
      ResetBudget, ConsumeResource, GovernUnbound, Finish

LEMMA LifecycleInvariant ==
  ASSUME Orderly
  PROVE  Spec => []LifecycleInv
<1>1. Init => LifecycleInv
  BY DEF Init, LifecycleInv
<1>2. TypeOK /\ LifecycleInv /\ [Next]_vars => LifecycleInv'
  BY LifecycleStep
<1>3. QED
  BY <1>1, <1>2, TypeCorrect, PTL DEF Spec

(* P-I002 and P-I003: driven by the kernel alone, an intent has had exactly *)
(* the statuses up to its own.                                              *)
THEOREM LifecycleInOrder ==
  ASSUME Orderly
  PROVE  Spec => []StepByStep
<1>1. LifecycleInv => StepByStep
  BY DEF LifecycleInv, StepByStep, UpTo
<1>2. QED
  BY <1>1, LifecycleInvariant, PTL

(* P-I001: under the same discipline no intent gets beyond "proposed"       *)
(* without evidence.                                                        *)
THEOREM EvidenceComesFirst ==
  ASSUME Orderly
  PROVE  Spec => []EvidenceBeforeAuthority
<1>1. LifecycleInv => EvidenceBeforeAuthority
  BY DEF LifecycleInv, EvidenceBeforeAuthority
<1>2. QED
  BY <1>1, LifecycleInvariant, PTL

----------------------------------------------------------------------------
(* The lifecycle across restarts.  An intent is recovered with the target   *)
(* of its first transition, so that it goes through later statuses again.   *)

Ending == {"rejected", "reverted"}

(* Others may end an intent, and otherwise leave it to the kernel.          *)
OthersOnlyEnd == RawTargets \subseteq Ending

(* No status before one of these is left out. *)
Gapless(statuses) ==
  \A s \in statuses \ Ending, t \in Statuses : Rank(t) <= Rank(s) => t \in statuses

RecoveryInv ==
  \A i \in Intents :
    /\ Gapless(reached[i])
    /\ first[i] \in {None, "evidenced"} \cup Ending
    /\ first[i] = None /\ status[i] # "absent" => status[i] = "proposed"

LEMMA GaplessNext ==
  ASSUME NEW statuses \in SUBSET Statuses, Gapless(statuses), NEW s \in statuses \ Ending,
         NEW next \in Statuses, Rank(next) = Rank(s) + 1
  PROVE  Gapless(statuses \cup {next})
<1>1. \A t \in Statuses : Rank(t) \in 0..7
  BY DEF Statuses, Rank
<1>2. \A t \in Statuses : Rank(t) = Rank(next) => t = next
  BY DEF Statuses, Rank
<1>3. \A t \in Statuses : Rank(t) <= Rank(next) => t \in statuses \cup {next}
  BY <1>1, <1>2 DEF Gapless
<1>4. QED
  BY <1>3 DEF Gapless

LEMMA RecoveryStep ==
  ASSUME OthersOnlyEnd, TypeOK, LogInv, RecoveryInv, [Next]_vars
  PROVE  RecoveryInv'
<1>1. /\ status \in [Intents -> Statuses \cup {"absent"}]
      /\ reached \in [Intents -> SUBSET Statuses]
      /\ first \in [Intents -> Statuses \cup {None}]
      /\ None \notin Statuses
  BY GovernanceAssumption DEF TypeOK
<1>2. ASSUME NEW i \in Intents, CreateIntent(i)
      PROVE  RecoveryInv'
  <2>1. Gapless({"proposed"})
    BY DEF Gapless, Statuses, Rank
  <2>2. QED
    BY <1>1, <1>2, <2>1 DEF CreateIntent, RecoveryInv
<1>3. ASSUME NEW i \in Intents, EnforceILC(i)
      PROVE  RecoveryInv'
  <2>1. PICK next \in Statuses : Rank(next) = Rank(status[i]) + 1 /\ Transition(i, next, next)
    BY <1>3 DEF EnforceILC
  <2>2. status[i] \in reached[i] \ Ending
    BY <1>1, <1>3 DEF EnforceILC, LogInv, Terminal, Ending
  <2>3. Gapless(reached[i] \cup {next})
    BY <1>1, <2>1, <2>2, GaplessNext DEF RecoveryInv
  <2>4. first[i] = None => next = "evidenced"
    <3>1. first[i] = None => status[i] = "proposed"
      BY <1>3 DEF EnforceILC, RecoveryInv
    <3>2. \A t \in Statuses : Rank(t) = Rank("proposed") + 1 => t = "evidenced"
      BY DEF Statuses, Rank
    <3>3. QED
      BY <2>1, <3>1, <3>2
  <2>5. first'[i] \in {"evidenced"} \cup Ending
    BY <1>1, <2>1, <2>4 DEF Transition, RecoveryInv
  <2>6. QED
    BY <1>1, <2>1, <2>3, <2>5 DEF Transition, RecoveryInv, Ending
<1>4. ASSUME NEW i \in Intents, NEW s \in Statuses, TransitionIntent(i, s)
      PROVE  RecoveryInv'
  <2>1. s \in Ending /\ Transition(i, s, s)
    BY <1>4 DEF TransitionIntent, OthersOnlyEnd
  <2>2. Gapless(reached[i] \cup {s})
    BY <2>1 DEF RecoveryInv, Gapless
  <2>3. first'[i] \in {"evidenced"} \cup Ending
    BY <1>1, <2>1 DEF Transition, RecoveryInv
  <2>4. QED
    BY <1>1, <2>1, <2>2, <2>3 DEF Transition, RecoveryInv, Ending
<1>5. ASSUME NEW c \in Calls, NEW a \in Agents, NEW r \in Roles, NEW t \in Types,
             NEW i \in Intents, Govern(c, a, r, t, i)
      PROVE  RecoveryInv'
  <2>1. Advance(i, t)
    BY <1>5 DEF Govern
  <2>2. CASE UNCHANGED registry
    BY <2>2 DEF registry, RecoveryInv
  <2>3. CASE /\ status[i] = "evidenced"
             /\ Transition(i, "authorized", IF t = "edit" THEN "executing" ELSE "authorized")
    <3>1. "evidenced" \in reached[i] \ Ending
      BY <2>3 DEF LogInv, Ending
    <3>2. Gapless(reached[i] \cup {"authorized"})
      <4>1. "authorized" \in Statuses /\ Rank("authorized") = Rank("evidenced") + 1
        BY DEF Statuses, Rank
      <4>2. Gapless(reached[i]) /\ reached[i] \in SUBSET Statuses
        BY <1>1 DEF RecoveryInv
      <4>3. QED
        BY <3>1, <4>1, <4>2, GaplessNext
    <3>3. Gapless(reached[i] \cup {"authorized"} \cup {"executing"})
      <4> DEFINE longer == reached[i] \cup {"authorized"}
      <4>1. longer \in SUBSET Statuses /\ "authorized" \in longer \ Ending
        BY <1>1 DEF Statuses, Ending
      <4>2. "executing" \in Statuses /\ Rank("executing") = Rank("authorized") + 1
        BY DEF Statuses, Rank
      <4> HIDE DEF longer
      <4>3. Gapless(longer)
        BY <3>2 DEF longer
      <4>4. Gapless(longer \cup {"executing"})
        BY <4>1, <4>2, <4>3, GaplessNext
      <4>5. QED
        BY <4>4 DEF longer
    <3>4. first[i] # None
      BY <2>3 DEF RecoveryInv
    <3>5. /\ first' = first
          /\ \/ reached' = [reached EXCEPT ![i] = @ \cup {"authorized"}]
             \/ reached' = [reached EXCEPT ![i] = @ \cup {"authorized"} \cup {"executing"}]
      BY <1>1, <2>3, <3>4 DEF Transition
    <3>6. QED
      BY <1>1, <2>3, <3>2, <3>3, <3>4, <3>5 DEF Transition, RecoveryInv
  <2>4. QED
    BY <2>1, <2>2, <2>3 DEF Advance
<1>6. CASE Restart
  BY <1>6 DEF Restart, Recovered, RecoveryInv
<1>7. CASE UNCHANGED registry
  BY <1>7 DEF registry, RecoveryInv
<1>8. QED
  BY <1>2, <1>3, <1>4, <1>5, <1>6, <1>7
  DEF Next, vars, registry, SubmitEvidence, VerifyEvidence, RegisterBoundary, CreateBudget,
      ResetBudget, ConsumeResource, GovernUnbound, Finish

LEMMA RecoveryInvariant ==
  ASSUME OthersOnlyEnd
  PROVE  Spec => []RecoveryInv
<1>1. Init => RecoveryInv
  BY DEF Init, RecoveryInv, Gapless
<1>2. TypeOK /\ LogInv /\ RecoveryInv /\ [Next]_vars => RecoveryInv'
  BY RecoveryStep
<1>3. QED
  BY <1>1, <1>2, TypeCorrect, LogInvariant, PTL DEF Spec

(* P-I003, with restarts: on the log no intent ever skips a status, however *)
(* often the process dies and takes the evidence, the boundaries and what   *)
(* the intent had become with it.                                           *)
THEOREM RestartsLeaveNoGap ==
  ASSUME OthersOnlyEnd
  PROVE  Spec => [](\A i \in Intents : Gapless(reached[i]))
<1>1. RecoveryInv => \A i \in Intents : Gapless(reached[i])
  BY DEF RecoveryInv
<1>2. QED
  BY <1>1, RecoveryInvariant, PTL

(* No authority outlives a process: an intent is recovered as evidenced or  *)
(* ended, so that no action goes on under it until it is authorized again.  *)
THEOREM RestartsRevokeAuthority ==
  ASSUME OthersOnlyEnd
  PROVE  Spec => [][Restart => \A i \in Intents :
                                 status'[i] \in {"absent", "evidenced"} \cup Ending]_vars
<1>1. RecoveryInv
        => [Restart => \A i \in Intents :
                         status'[i] \in {"absent", "evidenced"} \cup Ending]_vars
  BY DEF RecoveryInv, Restart, Recovered
<1>2. QED
  BY <1>1, RecoveryInvariant, PTL

----------------------------------------------------------------------------
(* Budgets: the books balance while calls race, budgets multiply and are    *)
(* reset.  Accounts and Covered speak of the books bs, because Govern opens *)
(* a budget before it charges one.                                          *)

(* A charged budget is its agent's, and none of the agent's live budgets is *)
(* older: the reason why an agent draws on one live budget only.            *)
Accounts(bs) ==
  \A c \in Calls :
    call[c].budget # 0 =>
      /\ call[c].pc # "idle"
      /\ call[c].budget \in DOMAIN bs
      /\ bs[call[c].budget].agent = call[c].agent
      /\ bs[call[c].budget].live =>
           \A d \in LiveBudgets(bs, call[c].agent) : call[c].budget <= d

Covered(bs) ==
  \A b \in DOMAIN bs : bs[b].live => Cardinality(ChargedTo(b)) <= bs[b].used

BudgetInv == Accounts(budgets) /\ Covered(budgets)

LEMMA ChargedFinite ==
  ASSUME NEW b
  PROVE  IsFiniteSet(ChargedTo(b)) /\ Cardinality(ChargedTo(b)) \in Nat
<1>1. ChargedTo(b) \subseteq Calls
  BY DEF ChargedTo
<1>2. QED
  BY <1>1, GovernanceAssumption, FS_Subset, FS_CardinalityType

(* A new budget is younger than every other, and no call is charged to it. *)
LEMMA NewBudgetBalances ==
  ASSUME TypeOK, BudgetInv, NEW a \in Agents
  PROVE  LET bs == Append(budgets, NewBudget(a)) IN Accounts(bs) /\ Covered(bs)
<1> DEFINE bs == Append(budgets, NewBudget(a))
           new == Len(budgets) + 1
<1>1. budgets \in Seq(Budget) /\ NewBudget(a) \in Budget
  BY GovernanceAssumption DEF TypeOK, NewBudget, Budget
<1>2. /\ DOMAIN budgets = 1..Len(budgets) /\ Len(budgets) \in Nat
      /\ DOMAIN bs = 1..new
      /\ \A b \in DOMAIN budgets : bs[b] = budgets[b]
      /\ bs[new] = NewBudget(a)
  BY <1>1, AppendProperties, LenProperties
<1> HIDE DEF bs
<1>3. DOMAIN bs = DOMAIN budgets \cup {new} /\ \A b \in DOMAIN budgets : b < new
  BY <1>2
<1>4. Accounts(bs)
  <2> SUFFICES ASSUME NEW c \in Calls, call[c].budget # 0
               PROVE  /\ call[c].pc # "idle"
                      /\ call[c].budget \in DOMAIN bs
                      /\ bs[call[c].budget].agent = call[c].agent
                      /\ bs[call[c].budget].live =>
                           \A d \in LiveBudgets(bs, call[c].agent) : call[c].budget <= d
    BY DEF Accounts
  <2>1. /\ call[c].pc # "idle"
        /\ call[c].budget \in DOMAIN budgets
        /\ budgets[call[c].budget].agent = call[c].agent
        /\ budgets[call[c].budget].live =>
             \A d \in LiveBudgets(budgets, call[c].agent) : call[c].budget <= d
    BY DEF BudgetInv, Accounts
  <2>2. LiveBudgets(bs, call[c].agent) \subseteq LiveBudgets(budgets, call[c].agent) \cup {new}
    BY <1>2, <1>3 DEF LiveBudgets
  <2>3. QED
    BY <1>2, <1>3, <2>1, <2>2
<1>5. Covered(bs)
  <2>1. ChargedTo(new) = {}
    BY <1>2, <1>3 DEF BudgetInv, Accounts, ChargedTo
  <2>2. Cardinality(ChargedTo(new)) <= bs[new].used
    <3>1. bs[new].used = 0
      BY <1>2 DEF NewBudget
    <3>2. Cardinality(ChargedTo(new)) = 0
      BY <2>1, FS_EmptySet
    <3>3. QED
      BY <3>1, <3>2
  <2>3. QED
    BY <1>2, <1>3, <2>2 DEF BudgetInv, Covered
<1>6. QED
  BY <1>4, <1>5 DEF bs

LEMMA WithBudgetBalances ==
  ASSUME TypeOK, BudgetInv, NEW a \in Agents
  PROVE  Accounts(WithBudget(a)) /\ Covered(WithBudget(a))
BY NewBudgetBalances DEF BudgetInv, WithBudget

(* Charging the budget that getAgentBudget found, for one more call. *)
LEMMA ChargeBalances ==
  ASSUME TypeOK, NEW bs \in Seq(Budget), Accounts(bs), Covered(bs),
         NEW c \in Calls, call[c] = Idle, NEW a \in Agents, NEW r \in Roles, NEW t \in Types,
         NEW i \in Intents, NEW b \in DOMAIN bs, IsAgentBudget(bs, a, b),
         budgets' = Charged(bs, b, 1),
         call' = [call EXCEPT ![c] =
           [pc |-> "validating", agent |-> a, role |-> r, type |-> t,
            intent |-> i, budget |-> b]]
  PROVE  BudgetInv'
<1>1. DOMAIN bs = 1..Len(bs) /\ \A d \in DOMAIN bs : bs[d] \in Budget
  BY LenProperties, ElementOfSeq
<1>2. /\ DOMAIN budgets' = DOMAIN bs
      /\ \A d \in DOMAIN bs : budgets'[d].agent = bs[d].agent /\ budgets'[d].live = bs[d].live
      /\ \A d \in DOMAIN bs \ {b} : budgets'[d] = bs[d]
      /\ budgets'[b].used = bs[b].used + 1
  BY <1>1 DEF Charged, Budget
<1>3. /\ call'[c].pc = "validating" /\ call'[c].agent = a /\ call'[c].budget = b
      /\ \A d \in Calls \ {c} : call'[d] = call[d]
  BY DEF TypeOK
<1>4. ASSUME NEW x
      PROVE  LiveBudgets(budgets, x)' = LiveBudgets(bs, x)
  BY <1>2 DEF LiveBudgets
<1>5. Accounts(budgets)'
  <2> SUFFICES ASSUME NEW d \in Calls, call'[d].budget # 0
               PROVE  /\ call'[d].pc # "idle"
                      /\ call'[d].budget \in DOMAIN budgets'
                      /\ budgets'[call'[d].budget].agent = call'[d].agent
                      /\ budgets'[call'[d].budget].live =>
                           \A e \in LiveBudgets(budgets, call[d].agent)' : call'[d].budget <= e
    BY DEF Accounts
  <2>1. CASE d = c
    BY <1>2, <1>3, <1>4, <2>1 DEF IsAgentBudget, LiveBudgets
  <2>2. CASE d # c
    <3>1. /\ call'[d] = call[d]
          /\ call[d].pc # "idle"
          /\ call[d].budget \in DOMAIN bs
          /\ bs[call[d].budget].agent = call[d].agent
          /\ bs[call[d].budget].live =>
               \A e \in LiveBudgets(bs, call[d].agent) : call[d].budget <= e
      BY <1>3, <2>2 DEF Accounts
    <3>2. QED
      BY <1>2, <1>4, <3>1
  <2>3. QED
    BY <2>1, <2>2
<1>6. ChargedTo(b)' = ChargedTo(b) \cup {c}
  BY <1>3 DEF ChargedTo
<1>7. \A d \in DOMAIN bs \ {b} : ChargedTo(d)' = ChargedTo(d)
  BY <1>3 DEF ChargedTo, Idle
<1>8. Covered(budgets)'
  <2> SUFFICES ASSUME NEW d \in DOMAIN bs, budgets'[d].live
               PROVE  Cardinality(ChargedTo(d)') <= budgets'[d].used
    BY <1>2 DEF Covered
  <2>1. Cardinality(ChargedTo(d)) <= bs[d].used
    BY <1>2 DEF Covered
  <2>2. CASE d = b
    <3> DEFINE n == Cardinality(ChargedTo(b))
               m == Cardinality(ChargedTo(b) \cup {c})
    <3>1. IsFiniteSet(ChargedTo(b)) /\ n \in Nat
      BY ChargedFinite
    <3>2. m = IF c \in ChargedTo(b) THEN n ELSE n + 1
      BY <3>1, FS_AddElement
    <3>3. bs[b].used \in Int
      <4>1. bs[b] \in Budget
        BY <1>1
      <4>2. QED
        BY <4>1, GovernanceAssumption DEF Budget
    <3>4. Cardinality(ChargedTo(b)') = m
      BY <1>6
    <3>5. n <= bs[b].used /\ budgets'[b].used = bs[b].used + 1
      BY <1>2, <2>1, <2>2
    <3> HIDE DEF n, m
    <3>6. m <= bs[b].used + 1
      BY <3>1, <3>2, <3>3, <3>5
    <3>7. QED
      BY <2>2, <3>4, <3>5, <3>6
  <2>3. CASE d # b
    BY <1>2, <1>7, <2>1, <2>3
  <2>4. QED
    BY <2>2, <2>3
<1>9. QED
  BY <1>5, <1>8 DEF BudgetInv

LEMMA GovernBalances ==
  ASSUME TypeOK, BudgetInv, NEW c \in Calls, NEW a \in Agents, NEW r \in Roles, NEW t \in Types,
         NEW i \in Intents, Govern(c, a, r, t, i)
  PROVE  BudgetInv'
<1>1. /\ WithBudget(a) \in Seq(Budget)
      /\ Accounts(WithBudget(a)) /\ Covered(WithBudget(a))
  BY WithBudgetType, WithBudgetBalances DEF TypeOK
<1>2. PICK b \in DOMAIN WithBudget(a) :
        /\ IsAgentBudget(WithBudget(a), a, b)
        /\ \/ /\ budgets' = Charged(WithBudget(a), b, 1)
              /\ call' = [call EXCEPT ![c] =
                   [pc |-> "validating", agent |-> a, role |-> r, type |-> t,
                    intent |-> i, budget |-> b]]
           \/ budgets' = WithBudget(a) /\ call' = call
  BY DEF Govern
<1>3. CASE /\ budgets' = Charged(WithBudget(a), b, 1)
           /\ call' = [call EXCEPT ![c] =
                [pc |-> "validating", agent |-> a, role |-> r, type |-> t,
                 intent |-> i, budget |-> b]]
  <2>1. call[c] = Idle
    BY DEF Govern
  <2>2. QED
    BY <1>1, <1>2, <1>3, <2>1, ChargeBalances
<1>4. CASE budgets' = WithBudget(a) /\ call' = call
  <2> DEFINE bs == WithBudget(a)
  <2>1. Accounts(bs) /\ Covered(bs) /\ budgets' = bs
    BY <1>1, <1>4
  <2> HIDE DEF bs
  <2>2. QED
    BY <1>4, <2>1 DEF BudgetInv, Accounts, Covered, ChargedTo, LiveBudgets
<1>5. QED
  BY <1>2, <1>3, <1>4

LEMMA BudgetStep == TypeOK /\ BudgetInv /\ [Next]_vars => BudgetInv'
<1> SUFFICES ASSUME TypeOK, BudgetInv, [Next]_vars
             PROVE  BudgetInv'
  OBVIOUS
<1>0. /\ budgets \in Seq(Budget) /\ DOMAIN budgets = 1..Len(budgets)
      /\ \A d \in DOMAIN budgets : budgets[d] \in Budget
  BY LenProperties, ElementOfSeq DEF TypeOK
<1>1. ASSUME UNCHANGED <<budgets, call>>
      PROVE  BudgetInv'
  BY <1>1 DEF BudgetInv, Accounts, Covered, ChargedTo, LiveBudgets
<1>2. ASSUME \/ \E i \in Intents : CreateIntent(i) \/ EnforceILC(i)
             \/ \E i \in Intents, s \in Statuses : TransitionIntent(i, s)
             \/ \E i \in Intents, e \in Evidences : SubmitEvidence(i, e)
             \/ \E e \in Evidences : VerifyEvidence(e)
             \/ \E r \in Roles, allowed \in SUBSET Types : RegisterBoundary(r, allowed)
             \/ UNCHANGED vars
      PROVE  UNCHANGED <<budgets, call>>
  BY <1>2 DEF CreateIntent, EnforceILC, TransitionIntent, SubmitEvidence, VerifyEvidence,
              RegisterBoundary, vars
<1>3. ASSUME NEW a \in Agents, CreateBudget(a)
      PROVE  BudgetInv'
  <2> DEFINE bs == Append(budgets, NewBudget(a))
  <2>1. Accounts(bs) /\ Covered(bs) /\ budgets' = bs /\ call' = call
    BY <1>3, NewBudgetBalances DEF CreateBudget
  <2> HIDE DEF bs
  <2>2. QED
    BY <2>1 DEF BudgetInv, Accounts, Covered, ChargedTo, LiveBudgets
<1>4. ASSUME NEW b \in DOMAIN budgets, ResetBudget(b)
      PROVE  BudgetInv'
  <2>1. /\ DOMAIN budgets' = DOMAIN budgets /\ call' = call
        /\ \A d \in DOMAIN budgets : budgets'[d].agent = budgets[d].agent
        /\ \A d \in DOMAIN budgets \ {b} : budgets'[d] = budgets[d]
        /\ ~budgets'[b].live
    BY <1>0, <1>4 DEF ResetBudget, Budget
  <2>2. \A x : LiveBudgets(budgets, x)' \subseteq LiveBudgets(budgets, x)
    BY <2>1 DEF LiveBudgets
  <2>3. QED
    BY <2>1, <2>2 DEF BudgetInv, Accounts, Covered, ChargedTo
<1>5. ASSUME NEW b \in DOMAIN budgets, NEW n \in 1..Limit, ConsumeResource(b, n)
      PROVE  BudgetInv'
  <2>1. /\ DOMAIN budgets' = DOMAIN budgets /\ call' = call
        /\ \A d \in DOMAIN budgets : /\ budgets'[d].agent = budgets[d].agent
                                    /\ budgets'[d].live = budgets[d].live
        /\ \A d \in DOMAIN budgets \ {b} : budgets'[d] = budgets[d]
        /\ budgets'[b].used = budgets[b].used + n
    BY <1>0, <1>5 DEF ConsumeResource, Charged, Budget
  <2>2. \A x : LiveBudgets(budgets, x)' = LiveBudgets(budgets, x)
    BY <2>1 DEF LiveBudgets
  <2>3. Accounts(budgets)'
    BY <2>1, <2>2 DEF BudgetInv, Accounts
  <2>4. ASSUME NEW d \in DOMAIN budgets
        PROVE  /\ budgets'[d].used \in Int /\ budgets[d].used \in Int
               /\ budgets[d].used <= budgets'[d].used
    <3>1. budgets[d].used \in Nat /\ n \in Nat
      <4>1. budgets[d] \in Budget
        BY <1>0
      <4>2. QED
        BY <4>1, GovernanceAssumption DEF Budget
    <3>2. CASE d = b
      BY <2>1, <3>1, <3>2
    <3>3. CASE d # b
      BY <2>1, <3>1, <3>3
    <3>4. QED
      BY <3>2, <3>3
  <2>5. \A d : ChargedTo(d)' = ChargedTo(d)
    BY <2>1 DEF ChargedTo
  <2>6. Covered(budgets)'
    BY <2>1, <2>4, <2>5, ChargedFinite DEF BudgetInv, Covered
  <2>7. QED
    BY <2>3, <2>6 DEF BudgetInv
<1>6. ASSUME NEW c \in Calls, NEW a \in Agents, NEW r \in Roles, NEW t \in Types,
             GovernUnbound(c, a, r, t)
      PROVE  BudgetInv'
  <2>1. /\ budgets' = budgets /\ call'[c].budget = 0 /\ call[c].budget = 0
        /\ \A d \in Calls \ {c} : call'[d] = call[d]
    BY <1>6 DEF GovernUnbound, TypeOK, Idle
  <2>2. \A b \in DOMAIN budgets : ChargedTo(b)' = ChargedTo(b)
    BY <1>0, <2>1 DEF ChargedTo
  <2>3. QED
    BY <2>1, <2>2 DEF BudgetInv, Accounts, Covered, LiveBudgets
<1>7. ASSUME NEW c \in Calls, NEW v \in {"approved", "refused"}, Finish(c, v)
      PROVE  BudgetInv'
  <2>1. call' = [call EXCEPT ![c] = [call[c] EXCEPT !.pc = v]]
    BY <1>7 DEF Finish
  <2>2. /\ budgets' = budgets /\ call[c].pc # "idle" /\ v # "idle"
        /\ \A d \in Calls : /\ call'[d].budget = call[d].budget
                            /\ call'[d].agent = call[d].agent
                            /\ call'[d].pc = IF d = c THEN v ELSE call[d].pc
    BY <1>7, <2>1 DEF Finish, TypeOK, CallRecord
  <2>3. \A b : ChargedTo(b)' = ChargedTo(b)
    BY <2>2 DEF ChargedTo
  <2>4. QED
    BY <2>2, <2>3 DEF BudgetInv, Accounts, Covered, LiveBudgets
<1>8. CASE Restart
  <2>1. \A c \in Calls : call'[c].budget = 0
    BY <1>8 DEF Restart, TypeOK, CallRecord, Idle
  <2>2. DOMAIN budgets' = {}
    <3>1. budgets' = <<>>
      BY <1>8 DEF Restart
    <3>2. QED
      BY <3>1
  <2>3. QED
    BY <2>1, <2>2 DEF BudgetInv, Accounts, Covered
<1>9. QED
  BY <1>1, <1>2, <1>3, <1>4, <1>5, <1>6, <1>7, <1>8, GovernBalances DEF Next

LEMMA BudgetInvariant == Spec => []BudgetInv
<1>1. Init => BudgetInv
  BY DEF Init, BudgetInv, Accounts, Covered, Idle
<1>2. QED
  BY <1>1, TypeCorrect, BudgetStep, PTL DEF Spec

(* P-I008: however calls race, what is granted or in validation on a live   *)
(* budget is charged to it, and no budget is overdrawn.                     *)
THEOREM ChargesAreCovered == Spec => []ChargesCovered
<1>1. TypeOK /\ BudgetInv => ChargesCovered
  <2> SUFFICES ASSUME TypeOK, BudgetInv, NEW b \in DOMAIN budgets
               PROVE  budgets[b].used <= Limit
    BY DEF BudgetInv, Covered, ChargesCovered
  <2>1. budgets[b] \in Budget
    BY LenProperties, ElementOfSeq DEF TypeOK
  <2>2. QED
    BY <2>1, GovernanceAssumption DEF Budget
<1>2. QED
  BY <1>1, TypeCorrect, BudgetInvariant, PTL

(* However many budgets an agent is given, it draws on one live one.        *)
THEOREM AgentsHaveOneAccount == Spec => []OneLiveAccount
<1>1. TypeOK /\ BudgetInv => OneLiveAccount
  <2> SUFFICES ASSUME TypeOK, BudgetInv, NEW c \in Calls, NEW d \in Calls,
                      call[c].budget # 0, budgets[call[c].budget].live,
                      call[d].budget # 0, budgets[call[d].budget].live,
                      call[c].agent = call[d].agent
               PROVE  call[c].budget = call[d].budget
    BY DEF OneLiveAccount
  <2>1. /\ call[c].budget \in LiveBudgets(budgets, call[c].agent)
        /\ call[d].budget \in LiveBudgets(budgets, call[c].agent)
    BY DEF BudgetInv, Accounts, LiveBudgets
  <2>2. call[c].budget <= call[d].budget /\ call[d].budget <= call[c].budget
    BY <2>1 DEF BudgetInv, Accounts
  <2>3. call[c].budget \in Nat /\ call[d].budget \in Nat
    BY DEF TypeOK, CallRecord
  <2>4. QED
    BY <2>2, <2>3
<1>2. QED
  BY <1>1, TypeCorrect, BudgetInvariant, PTL

=============================================================================
