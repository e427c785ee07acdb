------------------------ MODULE FederationContract -------------------------
(***************************************************************************)
(* What a federation promises of an action between two worlds: it is done   *)
(* only on a consent, a consent is given only while a treaty covers the     *)
(* action, it can be withdrawn, and it is used up when the action is done.  *)
(*                                                                          *)
(* In its strict form the treaty must cover the action when it is done,     *)
(* too, as P-I007 of modelChecker.ts has it.  The other form is what        *)
(* executeFederatedAction keeps, which looks at no treaty.                  *)
(***************************************************************************)
EXTENDS Integers

CONSTANTS
  Actions,
  Strict       \* must a treaty cover an action when it is done?

VARIABLES
  covered,     \* the actions between worlds that now share an active treaty
  consented,   \* the actions with a consent that is neither used nor withdrawn
  done         \* how often each action was done

contractVars == <<covered, consented, done>>

Init ==
  /\ covered = {}
  /\ consented = {}
  /\ done = [a \in Actions |-> 0]

TreatiesChange ==
  /\ covered' \subseteq Actions
  /\ UNCHANGED <<consented, done>>

Consent(a) ==
  /\ a \in covered
  /\ consented' = consented \cup {a}
  /\ UNCHANGED <<covered, done>>

Withdraw(a) ==
  /\ consented' = consented \ {a}
  /\ UNCHANGED <<covered, done>>

Do(a) ==
  /\ a \in consented
  /\ Strict => a \in covered
  /\ consented' = consented \ {a}
  /\ done' = [done EXCEPT ![a] = @ + 1]
  /\ UNCHANGED covered

Next == TreatiesChange \/ \E a \in Actions : Consent(a) \/ Withdraw(a) \/ Do(a)

Spec == Init /\ [][Next]_contractVars
============================================================================
