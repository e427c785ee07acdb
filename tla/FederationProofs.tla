-------------------------- MODULE FederationProofs --------------------------
(***************************************************************************)
(* Theorems about federated worlds and the exchange of their treaties, for  *)
(* any worlds, actions, sites and blobs: that every step of the worlds is a *)
(* step of the federation contract or changes nothing it speaks of, under   *)
(* which discipline the contract is the strict one, and that the copies of  *)
(* a treaty agree.                                                          *)
(***************************************************************************)
EXTENDS FederatedWorlds, TreatyExchange, SequenceTheorems, FiniteSetTheorems, TLAPS

\* An action has its three fields.
LEMMA ActionFields ==
  ASSUME FederationTypeOK, NEW a \in Actions, action[a] # Nothing
  PROVE  /\ action[a] \in FederatedAction
         /\ action[a].source \in Worlds
         /\ action[a].target \in Worlds
         /\ action[a].status \in Statuses
<1>1. action[a] \in FederatedAction
  BY DEF FederationTypeOK
<1>2. QED
  BY <1>1 DEF FederatedAction

\* Setting a status changes the status of one action and nothing else.
LEMMA SetStatus ==
  ASSUME FederationTypeOK, NEW a \in Actions, NEW status \in Statuses, Set(a, status)
  PROVE  /\ action' \in [Actions -> FederatedAction \cup {Nothing}]
         /\ action[a] # Nothing /\ action'[a] # Nothing
         /\ action'[a].status = status
         /\ action'[a].source = action[a].source
         /\ action'[a].target = action[a].target
         /\ \A b \in Actions \ {a} : action'[b] = action[b]
<1> DEFINE new == [action[a] EXCEPT !.status = status]
<1>1. action[a] # Nothing /\ action' = [action EXCEPT ![a] = new]
  BY DEF Set
<1>2. action[a] \in FederatedAction
  BY <1>1, ActionFields
<1>3. new \in FederatedAction
  BY <1>2 DEF FederatedAction
<1>4. /\ new.status = status
      /\ new.source = action[a].source
      /\ new.target = action[a].target
  BY <1>2 DEF FederatedAction
<1>5. new # Nothing
  BY <1>3, FederationAssumption
<1> HIDE DEF new
<1>6. action'[a] = new /\ \A b \in Actions \ {a} : action'[b] = action[b]
  BY <1>1 DEF FederationTypeOK
<1>7. action' \in [Actions -> FederatedAction \cup {Nothing}]
  BY <1>1, <1>3 DEF FederationTypeOK
<1>8. QED
  BY <1>1, <1>4, <1>5, <1>6, <1>7

\* An execution appends one hash to the lineage of one world.
LEMMA ExecutionAppends ==
  ASSUME FederationTypeOK, NEW a \in Actions, ExecuteFederatedAction(a)
  PROVE  LET w == action[a].source
         IN /\ w \in Worlds
            /\ lineage' \in [Worlds -> Seq(Actions)]
            /\ lineage'[w] = Append(lineage[w], a)
            /\ \A z \in Worlds \ {w} : lineage'[z] = lineage[z]
<1>1. action[a].source \in Worlds
  BY ActionFields DEF ExecuteFederatedAction
<1>2. lineage' = [lineage EXCEPT ![action[a].source] = Append(lineage[action[a].source], a)]
  BY DEF ExecuteFederatedAction
<1>3. lineage[action[a].source] \in Seq(Actions)
  BY <1>1 DEF FederationTypeOK
<1>4. Append(lineage[action[a].source], a) \in Seq(Actions)
  BY <1>3, AppendProperties
<1>5. QED
  BY <1>1, <1>2, <1>4 DEF FederationTypeOK

\* What a new action looks like.
LEMMA ProposalAdds ==
  ASSUME FederationTypeOK, NEW a \in Actions, NEW source \in worlds, NEW target \in worlds,
         ProposeFederatedAction(a, source, target)
  PROVE  /\ action[a] = Nothing
         /\ action' \in [Actions -> FederatedAction \cup {Nothing}]
         /\ action'[a] # Nothing /\ action'[a].status = "proposed"
         /\ \A b \in Actions \ {a} : action'[b] = action[b]
<1> DEFINE new == [source |-> source, target |-> target, status |-> "proposed"]
<1>1. action[a] = Nothing /\ action' = [action EXCEPT ![a] = new]
  BY DEF ProposeFederatedAction
<1>2. source \in Worlds /\ target \in Worlds
  BY DEF FederationTypeOK
<1>3. new \in FederatedAction /\ new.status = "proposed"
  BY <1>2 DEF FederatedAction, Statuses
<1>4. new # Nothing
  BY <1>3, FederationAssumption
<1> HIDE DEF new
<1>5. QED
  BY <1>1, <1>3, <1>4 DEF FederationTypeOK

LEMMA FederationTypeStep ==
  FederationTypeOK /\ [FederationNext]_federationVars => FederationTypeOK'
<1> SUFFICES ASSUME FederationTypeOK, [FederationNext]_federationVars PROVE FederationTypeOK'
  OBVIOUS
<1>1. ASSUME NEW w \in Worlds, CreateWorld(w) PROVE FederationTypeOK'
  BY <1>1 DEF CreateWorld, FederationTypeOK
<1>2. ASSUME NEW t \in Treaties, NEW members \in SUBSET worlds, SignTreaty(t, members)
      PROVE  FederationTypeOK'
  <2>1. [worlds |-> members, active |-> TRUE] \in Treaty
    BY DEF Treaty, FederationTypeOK
  <2>2. QED
    BY <1>2, <2>1 DEF SignTreaty, FederationTypeOK
<1>3. ASSUME NEW t \in Treaties, ExpireTreaty(t) PROVE FederationTypeOK'
  <2>1. treaty[t] \in Treaty
    BY <1>3 DEF ExpireTreaty, FederationTypeOK
  <2>2. [treaty[t] EXCEPT !.active = FALSE] \in Treaty
    BY <2>1 DEF Treaty
  <2>3. QED
    BY <1>3, <2>2 DEF ExpireTreaty, FederationTypeOK
<1>4. ASSUME NEW a \in Actions, NEW source \in worlds, NEW target \in worlds,
             ProposeFederatedAction(a, source, target)
      PROVE  FederationTypeOK'
  <2>1. action' \in [Actions -> FederatedAction \cup {Nothing}]
    BY <1>4, ProposalAdds
  <2>2. QED
    BY <1>4, <2>1 DEF ProposeFederatedAction, FederationTypeOK
<1>5. ASSUME NEW a \in Actions, AlignFederatedAction(a) PROVE FederationTypeOK'
  <2>1. action' \in [Actions -> FederatedAction \cup {Nothing}]
    BY <1>5, SetStatus DEF AlignFederatedAction, Statuses
  <2>2. QED
    BY <1>5, <2>1 DEF AlignFederatedAction, FederationTypeOK
<1>6. ASSUME NEW a \in Actions, ExecuteFederatedAction(a) PROVE FederationTypeOK'
  <2>1. action' \in [Actions -> FederatedAction \cup {Nothing}]
    BY <1>6, SetStatus DEF ExecuteFederatedAction, Statuses
  <2>2. lineage' \in [Worlds -> Seq(Actions)]
    BY <1>6, ExecutionAppends
  <2>3. QED
    BY <1>6, <2>1, <2>2 DEF ExecuteFederatedAction, FederationTypeOK
<1>7. ASSUME NEW a \in Actions, NEW how \in {"rejected", "reverted"}, EndFederatedAction(a, how)
      PROVE  FederationTypeOK'
  <2>1. action' \in [Actions -> FederatedAction \cup {Nothing}]
    BY <1>7, SetStatus DEF EndFederatedAction, Statuses
  <2>2. QED
    BY <1>7, <2>1 DEF EndFederatedAction, FederationTypeOK
<1>8. CASE UNCHANGED federationVars
  BY <1>8 DEF federationVars, FederationTypeOK
<1>9. QED
  BY <1>1, <1>2, <1>3, <1>4, <1>5, <1>6, <1>7, <1>8 DEF FederationNext

LEMMA FederationTypeInitially == FederationInit => FederationTypeOK
<1>1. <<>> \in Seq(Actions)
  BY EmptySeq
<1>2. QED
  BY <1>1 DEF FederationInit, FederationTypeOK

\* Worlds, treaties, actions and lineages have the form the code gives them.
THEOREM FederationTypeCorrect == FederationSpec => []FederationTypeOK
BY FederationTypeInitially, FederationTypeStep, PTL DEF FederationSpec

----------------------------------------------------------------------------

Times(log, a) == Cardinality({i \in DOMAIN log : log[i] = a})

\* What the refinement needs to be inductive: an action that was not proposed
\* is in no lineage, so that it starts from none when it is.
Unproposed ==
  \A a \in Actions, w \in Worlds :
    action[a] = Nothing => \A i \in DOMAIN lineage[w] : lineage[w][i] # a

\* An appended action occurs once more, and every other as often as before.
LEMMA AppendCounts ==
  ASSUME NEW log \in Seq(Actions), NEW a \in Actions, NEW b \in Actions
  PROVE  Times(Append(log, a), b) = IF a = b THEN Times(log, b) + 1 ELSE Times(log, b)
<1> DEFINE new == Append(log, a)
           old == {i \in DOMAIN log : log[i] = b}
<1>1. /\ Len(new) = Len(log) + 1
      /\ new[Len(log) + 1] = a
      /\ \A i \in 1..Len(log) : new[i] = log[i]
      /\ new \in Seq(Actions)
  BY AppendProperties
<1>2. DOMAIN log = 1..Len(log) /\ DOMAIN new = 1..(Len(log) + 1) /\ Len(log) \in Nat
  BY <1>1
<1>3. IsFiniteSet(old)
  <2>1. IsFiniteSet(1..Len(log))
    BY <1>2, FS_Interval
  <2>2. old \subseteq 1..Len(log)
    BY <1>2
  <2>3. QED
    BY <2>1, <2>2, FS_Subset
<1> HIDE DEF new
<1>4. CASE a = b
  <2>1. {i \in DOMAIN new : new[i] = b} = old \cup {Len(log) + 1}
    BY <1>1, <1>2, <1>4
  <2>2. Len(log) + 1 \notin old
    BY <1>2
  <2>3. Cardinality(old \cup {Len(log) + 1}) = Cardinality(old) + 1
    BY <1>3, <2>2, FS_AddElement
  <2>4. QED
    BY <1>4, <2>1, <2>3 DEF Times, new
<1>5. CASE a # b
  <2>1. {i \in DOMAIN new : new[i] = b} = old
    BY <1>1, <1>2, <1>5
  <2>2. QED
    BY <1>5, <2>1 DEF Times, new
<1>6. QED
  BY <1>4, <1>5

\* How often an action was executed, in terms of the lineage of its source.
LEMMA ExecutedTimes ==
  \A a \in Actions :
    Executed(a) = IF action[a] = Nothing THEN 0 ELSE Times(lineage[action[a].source], a)
BY DEF Executed, Times

\* The same after a step.
LEMMA ExecutedTimesNext ==
  \A a \in Actions :
    Executed(a)' = IF action'[a] = Nothing THEN 0 ELSE Times(lineage'[action'[a].source], a)
BY DEF Executed, Times

LEMMA UnproposedInitially == FederationInit => Unproposed
BY DEF FederationInit, Unproposed

LEMMA UnproposedStep ==
  FederationTypeOK /\ Unproposed /\ [FederationNext]_federationVars => Unproposed'
<1> SUFFICES ASSUME FederationTypeOK, Unproposed, [FederationNext]_federationVars
             PROVE  Unproposed'
  OBVIOUS
<1>1. ASSUME lineage' = lineage, \A b \in Actions : action'[b] = Nothing => action[b] = Nothing
      PROVE  Unproposed'
  BY <1>1 DEF Unproposed
<1>2. ASSUME NEW w \in Worlds, CreateWorld(w) PROVE Unproposed'
  BY <1>2, <1>1 DEF CreateWorld
<1>3. ASSUME NEW t \in Treaties, NEW members \in SUBSET worlds,
             SignTreaty(t, members) \/ ExpireTreaty(t)
      PROVE  Unproposed'
  BY <1>3, <1>1 DEF SignTreaty, ExpireTreaty
<1>4. ASSUME NEW a \in Actions, NEW source \in worlds, NEW target \in worlds,
             ProposeFederatedAction(a, source, target)
      PROVE  Unproposed'
  <2>1. \A b \in Actions : action'[b] = Nothing => action[b] = Nothing
    BY <1>4, ProposalAdds
  <2>2. QED
    BY <1>4, <1>1, <2>1 DEF ProposeFederatedAction
<1>5. ASSUME NEW a \in Actions, NEW status \in Statuses, Set(a, status)
      PROVE  \A b \in Actions : action'[b] = Nothing => action[b] = Nothing /\ b # a
  BY <1>5, SetStatus
<1>6. ASSUME NEW a \in Actions, AlignFederatedAction(a) PROVE Unproposed'
  BY <1>6, <1>1, <1>5 DEF AlignFederatedAction, Statuses
<1>7. ASSUME NEW a \in Actions, NEW how \in {"rejected", "reverted"}, EndFederatedAction(a, how)
      PROVE  Unproposed'
  BY <1>7, <1>1, <1>5 DEF EndFederatedAction, Statuses
<1>8. ASSUME NEW a \in Actions, ExecuteFederatedAction(a) PROVE Unproposed'
  <2> DEFINE w == action[a].source
  <2>1. /\ w \in Worlds
        /\ lineage'[w] = Append(lineage[w], a)
        /\ \A z \in Worlds \ {w} : lineage'[z] = lineage[z]
    BY <1>8, ExecutionAppends
  <2> HIDE DEF w
  <2>2. \A b \in Actions : action'[b] = Nothing => action[b] = Nothing /\ b # a
    BY <1>8, <1>5 DEF ExecuteFederatedAction, Statuses
  <2>3. /\ lineage[w] \in Seq(Actions)
        /\ Len(lineage'[w]) = Len(lineage[w]) + 1
        /\ lineage'[w][Len(lineage[w]) + 1] = a
        /\ \A i \in 1..Len(lineage[w]) : lineage'[w][i] = lineage[w][i]
        /\ DOMAIN lineage'[w] = 1..(Len(lineage[w]) + 1)
    <3>1. lineage[w] \in Seq(Actions)
      BY <2>1 DEF FederationTypeOK
    <3>2. QED
      BY <2>1, <3>1, AppendProperties
  <2>4. ASSUME NEW b \in Actions, action'[b] = Nothing, NEW i \in DOMAIN lineage'[w]
        PROVE  lineage'[w][i] # b
    <3>1. action[b] = Nothing /\ b # a
      BY <2>2, <2>4
    <3>2. CASE i = Len(lineage[w]) + 1
      BY <2>3, <3>1, <3>2
    <3>3. CASE i \in 1..Len(lineage[w])
      <4>1. i \in DOMAIN lineage[w]
        BY <2>3, <3>3
      <4>2. lineage[w][i] # b
        BY <2>1, <3>1, <4>1 DEF Unproposed
      <4>3. QED
        BY <2>3, <3>3, <4>2
    <3>4. QED
      BY <2>3, <2>4, <3>2, <3>3
  <2>5. ASSUME NEW b \in Actions, NEW z \in Worlds, action'[b] = Nothing,
               NEW i \in DOMAIN lineage'[z]
        PROVE  lineage'[z][i] # b
    <3>1. CASE z = w
      BY <2>4, <2>5, <3>1
    <3>2. CASE z # w
      BY <2>1, <2>2, <2>5, <3>2 DEF Unproposed
    <3>3. QED
      BY <3>1, <3>2
  <2>6. QED
    BY <2>5 DEF Unproposed
<1>9. CASE UNCHANGED federationVars
  BY <1>9, <1>1 DEF federationVars
<1>10. QED
  BY <1>2, <1>3, <1>4, <1>6, <1>7, <1>8, <1>9 DEF FederationNext

\* When no execution is recorded and no proposed action is changed but in its
\* status, the counts stay.
LEMMA CountsStay ==
  ASSUME lineage' = lineage,
         \A b \in Actions : (action[b] = Nothing <=> action'[b] = Nothing)
                            /\ (action[b] # Nothing => action'[b].source = action[b].source)
  PROVE  Done' = Done
<1>1. ASSUME NEW b \in Actions PROVE Executed(b)' = Executed(b)
  BY <1>1, ExecutedTimes, ExecutedTimesNext
<1>2. QED
  BY <1>1 DEF Done

\* The same coverage, as long as treaties and the worlds of actions stay.
LEMMA CoverageStays ==
  ASSUME treaty' = treaty,
         \A b \in Actions : /\ action[b] = Nothing <=> action'[b] = Nothing
                            /\ action[b] # Nothing => /\ action'[b].source = action[b].source
                                                      /\ action'[b].target = action[b].target
  PROVE  Covered' = Covered
<1>1. ASSUME NEW b \in Actions, action[b] # Nothing PROVE CommonTreaty(b)' <=> CommonTreaty(b)
  BY <1>1 DEF CommonTreaty
<1>2. QED
  BY <1>1 DEF Covered

\* Setting a status withdraws a consent or gives it, and leaves the rest.
LEMMA StatusMaps ==
  ASSUME FederationTypeOK, NEW a \in Actions, NEW status \in Statuses, Set(a, status),
         treaty' = treaty
  PROVE  /\ Covered' = Covered
         /\ Consented' = IF status = "aligned" THEN Consented \cup {a} ELSE Consented \ {a}
         /\ lineage' = lineage => Done' = Done
<1>1. /\ action[a] # Nothing /\ action'[a] # Nothing
      /\ action'[a].status = status
      /\ action'[a].source = action[a].source
      /\ action'[a].target = action[a].target
      /\ \A b \in Actions \ {a} : action'[b] = action[b]
  BY SetStatus
<1>2. \A b \in Actions : /\ action[b] = Nothing <=> action'[b] = Nothing
                         /\ action[b] # Nothing => /\ action'[b].source = action[b].source
                                                   /\ action'[b].target = action[b].target
  BY <1>1
<1>3. Covered' = Covered
  BY <1>2, CoverageStays
<1>4. Consented' = IF status = "aligned" THEN Consented \cup {a} ELSE Consented \ {a}
  BY <1>1 DEF Consented
<1>5. lineage' = lineage => Done' = Done
  BY <1>2, CountsStay
<1>6. QED
  BY <1>3, <1>4, <1>5

\* An execution uses its consent up and counts once.
LEMMA ExecutionMaps ==
  ASSUME FederationTypeOK, NEW a \in Actions, ExecuteFederatedAction(a)
  PROVE  /\ a \in Consented
         /\ Covered' = Covered
         /\ Consented' = Consented \ {a}
         /\ Done' = [Done EXCEPT ![a] = @ + 1]
<1> DEFINE w == action[a].source
<1>1. /\ w \in Worlds
      /\ lineage'[w] = Append(lineage[w], a)
      /\ \A z \in Worlds \ {w} : lineage'[z] = lineage[z]
  BY ExecutionAppends
<1>2. /\ action[a] # Nothing /\ action'[a] # Nothing
      /\ action'[a].source = w
      /\ \A b \in Actions \ {a} : action'[b] = action[b]
  BY SetStatus DEF ExecuteFederatedAction, Statuses
<1>3. a \in Consented
  BY DEF ExecuteFederatedAction, Consented
<1>4. Covered' = Covered /\ Consented' = Consented \ {a}
  BY StatusMaps DEF ExecuteFederatedAction, Statuses
<1>5. \A b \in Actions : action[b] # Nothing => action[b].source \in Worlds
  BY ActionFields
<1> HIDE DEF w
<1>6. lineage[w] \in Seq(Actions)
  BY <1>1 DEF FederationTypeOK
<1>7. ASSUME NEW b \in Actions PROVE Executed(b)' = IF b = a THEN Executed(b) + 1 ELSE Executed(b)
  <2>1. CASE b = a
    <3>1. Executed(a) = Times(lineage[w], a) /\ Executed(a)' = Times(lineage'[w], a)
      BY <1>2, ExecutedTimes, ExecutedTimesNext DEF w
    <3>2. Times(lineage'[w], a) = Times(lineage[w], a) + 1
      BY <1>1, <1>6, AppendCounts
    <3>3. QED
      BY <2>1, <3>1, <3>2
  <2>2. CASE b # a /\ action[b] = Nothing
    BY <2>2, <1>2, ExecutedTimes, ExecutedTimesNext
  <2>3. CASE b # a /\ action[b] # Nothing
    <3>1. action'[b] = action[b] /\ action[b].source \in Worlds
      BY <2>3, <1>2, <1>5
    <3>2. /\ Executed(b) = Times(lineage[action[b].source], b)
          /\ Executed(b)' = Times(lineage'[action[b].source], b)
      BY <2>3, <3>1, ExecutedTimes, ExecutedTimesNext
    <3>3. Times(lineage'[action[b].source], b) = Times(lineage[action[b].source], b)
      <4>1. CASE action[b].source = w
        <5>1. Times(lineage'[w], b) = Times(lineage[w], b)
          BY <1>1, <1>6, <2>3, AppendCounts
        <5>2. QED
          BY <4>1, <5>1
      <4>2. CASE action[b].source # w
        BY <1>1, <3>1, <4>2
      <4>3. QED
        BY <4>1, <4>2
    <3>4. QED
      BY <2>3, <3>2, <3>3
  <2>4. QED
    BY <2>1, <2>2, <2>3
<1>8. Done' = [Done EXCEPT ![a] = @ + 1]
  BY <1>7 DEF Done
<1>9. QED
  BY <1>3, <1>4, <1>8

\* A proposal may change what is covered, and gives no consent.
LEMMA ProposalMaps ==
  ASSUME FederationTypeOK, Unproposed, NEW a \in Actions, NEW source \in worlds,
         NEW target \in worlds, ProposeFederatedAction(a, source, target)
  PROVE  Consented' = Consented /\ Done' = Done
<1>1. /\ action[a] = Nothing
      /\ action'[a] # Nothing /\ action'[a].status = "proposed"
      /\ action' \in [Actions -> FederatedAction \cup {Nothing}]
      /\ \A b \in Actions \ {a} : action'[b] = action[b]
  BY ProposalAdds
<1>2. lineage' = lineage
  BY DEF ProposeFederatedAction
<1>3. Consented' = Consented
  BY <1>1 DEF Consented
<1>4. action'[a].source \in Worlds
  BY <1>1 DEF FederatedAction
<1>5. \A w \in Worlds : Times(lineage[w], a) = 0
  <2> SUFFICES ASSUME NEW w \in Worlds PROVE Times(lineage[w], a) = 0
    OBVIOUS
  <2>1. {i \in DOMAIN lineage[w] : lineage[w][i] = a} = {}
    BY <1>1 DEF Unproposed
  <2>2. QED
    BY <2>1, FS_EmptySet DEF Times
<1>6. Executed(a)' = 0 /\ Executed(a) = 0
  BY <1>1, <1>2, <1>4, <1>5, ExecutedTimes, ExecutedTimesNext
<1>7. ASSUME NEW b \in Actions, b # a PROVE Executed(b)' = Executed(b)
  BY <1>1, <1>2, <1>7, ExecutedTimes, ExecutedTimesNext
<1>8. \A b \in Actions : Executed(b)' = Executed(b)
  BY <1>6, <1>7
<1>9. QED
  BY <1>3, <1>8 DEF Done

LEMMA ContractInitially == FederationInit => Contract!Init
<1> SUFFICES ASSUME FederationInit PROVE Contract!Init
  OBVIOUS
<1>1. \A a \in Actions : action[a] = Nothing
  BY DEF FederationInit
<1>2. Covered = {} /\ Consented = {}
  BY <1>1 DEF Covered, Consented
<1>3. Done = [a \in Actions |-> 0]
  BY <1>1 DEF Done, Executed
<1>4. QED
  BY <1>2, <1>3 DEF Contract!Init

LEMMA ContractStep ==
  FederationTypeOK /\ Unproposed /\ [FederationNext]_federationVars
    => [Contract!Next]_(Contract!contractVars)
<1> SUFFICES ASSUME FederationTypeOK, Unproposed, [FederationNext]_federationVars
             PROVE  [Contract!Next]_(Contract!contractVars)
  OBVIOUS
<1>1. ASSUME Consented' = Consented, Done' = Done PROVE Contract!Next
  <2>1. Covered' \subseteq Actions
    BY DEF Covered
  <2>2. QED
    BY <1>1, <2>1 DEF Contract!Next, Contract!TreatiesChange
<1>2. ASSUME NEW w \in Worlds, CreateWorld(w) PROVE Contract!Next
  <2>1. action' = action /\ lineage' = lineage
    BY <1>2 DEF CreateWorld
  <2>2. Consented' = Consented /\ Done' = Done
    BY <2>1, CountsStay DEF Consented
  <2>3. QED
    BY <1>1, <2>2
<1>3. ASSUME NEW t \in Treaties, NEW members \in SUBSET worlds,
             SignTreaty(t, members) \/ ExpireTreaty(t)
      PROVE  Contract!Next
  <2>1. action' = action /\ lineage' = lineage
    BY <1>3 DEF SignTreaty, ExpireTreaty
  <2>2. Consented' = Consented /\ Done' = Done
    BY <2>1, CountsStay DEF Consented
  <2>3. QED
    BY <1>1, <2>2
<1>4. ASSUME NEW a \in Actions, NEW source \in worlds, NEW target \in worlds,
             ProposeFederatedAction(a, source, target)
      PROVE  Contract!Next
  BY <1>1, <1>4, ProposalMaps
<1>5. ASSUME NEW a \in Actions, AlignFederatedAction(a) PROVE Contract!Next
  <2>1. Covered' = Covered /\ Consented' = Consented \cup {a} /\ Done' = Done
    BY <1>5, StatusMaps DEF AlignFederatedAction, Statuses
  <2>2. a \in Covered
    BY <1>5 DEF AlignFederatedAction, Set, Covered
  <2>3. Contract!Consent(a)
    BY <2>1, <2>2 DEF Contract!Consent
  <2>4. QED
    BY <2>3 DEF Contract!Next
<1>6. ASSUME NEW a \in Actions, ExecuteFederatedAction(a) PROVE Contract!Next
  <2>1. Contract!Do(a)
    BY <1>6, ExecutionMaps DEF Contract!Do
  <2>2. QED
    BY <2>1 DEF Contract!Next
<1>7. ASSUME NEW a \in Actions, NEW how \in {"rejected", "reverted"}, EndFederatedAction(a, how)
      PROVE  Contract!Next
  <2>1. how \in Statuses /\ how # "aligned"
    BY DEF Statuses
  <2>2. Set(a, how) /\ treaty' = treaty /\ lineage' = lineage
    BY <1>7 DEF EndFederatedAction
  <2>3. Covered' = Covered /\ Consented' = Consented \ {a} /\ Done' = Done
    BY <2>1, <2>2, StatusMaps
  <2>4. Contract!Withdraw(a)
    BY <2>3 DEF Contract!Withdraw
  <2>5. QED
    BY <2>4 DEF Contract!Next
<1>8. CASE UNCHANGED federationVars
  <2>1. action' = action /\ lineage' = lineage
    BY <1>8 DEF federationVars
  <2>2. Consented' = Consented /\ Done' = Done
    BY <2>1, CountsStay DEF Consented
  <2>3. QED
    BY <1>1, <2>2
<1>9. QED
  BY <1>2, <1>3, <1>4, <1>5, <1>6, <1>7, <1>8 DEF FederationNext

\* Every execution of a federated action uses up a consent that was given under
\* a treaty, for any number of worlds, treaties and actions.
THEOREM FederationImplementsContract == FederationSpec => ImplementsContract
<1>1. FederationSpec => []Unproposed
  BY UnproposedInitially, UnproposedStep, FederationTypeCorrect, PTL DEF FederationSpec
<1>2. QED
  BY <1>1, ContractInitially, ContractStep, FederationTypeCorrect, PTL
     DEF FederationSpec, ImplementsContract, Contract!Spec

\* Callers of expireTreaty who let no treaty expire under which an action is
\* aligned, unless another one covers it.
ExpiresInTurn ==
  [][\A t \in Treaties : ExpireTreaty(t) => Consented \subseteq Covered']_federationVars

ConsentIsCovered == Consented \subseteq Covered

LEMMA CoverStep ==
  FederationTypeOK /\ ConsentIsCovered /\ [FederationNext]_federationVars
  /\ [\A t \in Treaties : ExpireTreaty(t) => Consented \subseteq Covered']_federationVars
    => ConsentIsCovered'
<1> SUFFICES ASSUME FederationTypeOK, ConsentIsCovered, [FederationNext]_federationVars,
                    [\A t \in Treaties :
                       ExpireTreaty(t) => Consented \subseteq Covered']_federationVars
             PROVE  Consented' \subseteq Covered'
  BY DEF ConsentIsCovered
<1>1. Consented \subseteq Covered
  BY DEF ConsentIsCovered
<1>2. ASSUME treaty' = treaty, action' = action PROVE Consented' \subseteq Covered'
  BY <1>1, <1>2 DEF Consented, Covered, CommonTreaty
<1>3. ASSUME NEW w \in Worlds, CreateWorld(w) PROVE Consented' \subseteq Covered'
  BY <1>2, <1>3 DEF CreateWorld
<1>4. ASSUME NEW t \in Treaties, NEW members \in SUBSET worlds, SignTreaty(t, members)
      PROVE  Consented' \subseteq Covered'
  <2>1. Consented' = Consented
    BY <1>4 DEF SignTreaty, Consented
  <2>2. \A u \in Treaties : treaty[u] # Nothing => treaty'[u] = treaty[u]
    BY <1>4 DEF SignTreaty, FederationTypeOK
  <2>3. Covered \subseteq Covered'
    BY <1>4, <2>2 DEF SignTreaty, Covered, CommonTreaty
  <2>4. QED
    BY <1>1, <2>1, <2>3
<1>5. ASSUME NEW t \in Treaties, ExpireTreaty(t) PROVE Consented' \subseteq Covered'
  <2>1. Consented' = Consented
    BY <1>5 DEF ExpireTreaty, Consented
  <2>2. CASE UNCHANGED federationVars
    BY <1>2, <2>2 DEF federationVars
  <2>3. QED
    BY <1>5, <2>1, <2>2
<1>6. ASSUME NEW a \in Actions, NEW source \in worlds, NEW target \in worlds,
             ProposeFederatedAction(a, source, target)
      PROVE  Consented' \subseteq Covered'
  <2>1. /\ action'[a].status = "proposed"
        /\ \A b \in Actions \ {a} : action'[b] = action[b]
        /\ treaty' = treaty
    BY <1>6, ProposalAdds DEF ProposeFederatedAction
  <2>2. QED
    BY <1>1, <2>1 DEF Consented, Covered, CommonTreaty
<1>7. ASSUME NEW a \in Actions, AlignFederatedAction(a) PROVE Consented' \subseteq Covered'
  <2>1. Covered' = Covered /\ Consented' = Consented \cup {a}
    BY <1>7, StatusMaps DEF AlignFederatedAction, Statuses
  <2>2. a \in Covered
    BY <1>7 DEF AlignFederatedAction, Set, Covered
  <2>3. QED
    BY <1>1, <2>1, <2>2
<1>8. ASSUME NEW a \in Actions, ExecuteFederatedAction(a) PROVE Consented' \subseteq Covered'
  BY <1>1, <1>8, ExecutionMaps
<1>9. ASSUME NEW a \in Actions, NEW how \in {"rejected", "reverted"}, EndFederatedAction(a, how)
      PROVE  Consented' \subseteq Covered'
  <2>1. how \in Statuses /\ how # "aligned"
    BY DEF Statuses
  <2>2. Covered' = Covered /\ Consented' = Consented \ {a}
    BY <1>9, <2>1, StatusMaps DEF EndFederatedAction
  <2>3. QED
    BY <1>1, <2>2
<1>10. CASE UNCHANGED federationVars
  BY <1>2, <1>10 DEF federationVars
<1>11. QED
  BY <1>3, <1>4, <1>5, <1>6, <1>7, <1>8, <1>9, <1>10 DEF FederationNext

\* What is done only where it is covered is done as the strict contract wants.
LEMMA CoveredIsStrict ==
  ConsentIsCovered /\ [Contract!Next]_(Contract!contractVars)
    => [StrictContract!Next]_(StrictContract!contractVars)
BY DEF ConsentIsCovered, Contract!Next, Contract!TreatiesChange, Contract!Consent,
       Contract!Withdraw, Contract!Do, Contract!contractVars, StrictContract!Next,
       StrictContract!TreatiesChange, StrictContract!Consent, StrictContract!Withdraw,
       StrictContract!Do, StrictContract!contractVars

\* P-I007 of modelChecker.ts, that a federated action requires an active treaty.
\* executeFederatedAction does not ask for one, and ImplementsStrictContract can
\* be violated; it holds of callers who let treaties expire in turn.
THEOREM ExecutedUnderTreaty ==
  FederationSpec /\ ExpiresInTurn => ImplementsStrictContract
<1>1. FederationInit => ConsentIsCovered /\ StrictContract!Init
  BY ContractInitially DEF Contract!Init, StrictContract!Init, ConsentIsCovered
<1>2. FederationSpec /\ ExpiresInTurn => []ConsentIsCovered
  BY <1>1, CoverStep, FederationTypeCorrect, PTL DEF FederationSpec, ExpiresInTurn
<1>3. FederationSpec => Contract!Spec
  BY FederationImplementsContract DEF ImplementsContract
<1>4. FederationInit => StrictContract!Init
  BY <1>1
<1>5. QED
  BY <1>2, <1>3, <1>4, CoveredIsStrict, PTL
     DEF FederationSpec, ImplementsStrictContract, Contract!Spec, StrictContract!Spec

----------------------------------------------------------------------------
(* Agreements. *)

\* Was there ever a treaty between the worlds of a?
Agreed(a) ==
  \E t \in Treaties :
    treaty[t] # Nothing /\ {action[a].source, action[a].target} \subseteq treaty[t].worlds

Recorded(w, a) == \E i \in DOMAIN lineage[w] : lineage[w][i] = a

AgreedInv ==
  /\ \A a \in Actions :
       action[a] # Nothing /\ action[a].status \in {"aligned", "executed"} => Agreed(a)
  /\ \A w \in Worlds, a \in Actions :
       Recorded(w, a) => action[a] # Nothing /\ action[a].source = w /\ Agreed(a)

\* An agreement is for ever: treaties expire, and are neither deleted nor
\* given other members, and an action keeps its worlds.
LEMMA AgreementStays ==
  ASSUME FederationTypeOK, [FederationNext]_federationVars, NEW a \in Actions, action[a] # Nothing
  PROVE  /\ action'[a] # Nothing /\ action'[a].source = action[a].source
         /\ Agreed(a) => Agreed(a)'
<1>1. /\ action'[a] # Nothing
      /\ action'[a].source = action[a].source /\ action'[a].target = action[a].target
  <2>1. ASSUME NEW b \in Actions, NEW status \in Statuses, Set(b, status)
        PROVE  /\ action'[a] # Nothing
               /\ action'[a].source = action[a].source /\ action'[a].target = action[a].target
    BY <2>1, SetStatus
  <2>2. ASSUME NEW b \in Actions, NEW source \in worlds, NEW target \in worlds,
               ProposeFederatedAction(b, source, target)
        PROVE  action'[a] = action[a]
    BY <2>2, ProposalAdds
  <2>3. CASE action' = action
    BY <2>3
  <2>4. QED
    BY <2>1, <2>2, <2>3
    DEF FederationNext, federationVars, CreateWorld, SignTreaty, ExpireTreaty,
        AlignFederatedAction, ExecuteFederatedAction, EndFederatedAction, Statuses
<1>2. ASSUME NEW t \in Treaties, treaty[t] # Nothing
      PROVE  treaty'[t] # Nothing /\ treaty'[t].worlds = treaty[t].worlds
  <2>1. treaty[t] \in Treaty
    BY <1>2 DEF FederationTypeOK
  <2>2. CASE treaty' = treaty
    BY <1>2, <2>2
  <2>3. ASSUME NEW u \in Treaties, NEW members, SignTreaty(u, members)
        PROVE  treaty'[t] = treaty[t]
    BY <1>2, <2>3 DEF SignTreaty, FederationTypeOK
  <2>4. ASSUME NEW u \in Treaties, ExpireTreaty(u)
        PROVE  treaty'[t] # Nothing /\ treaty'[t].worlds = treaty[t].worlds
    <3>1. [treaty[t] EXCEPT !.active = FALSE] \in Treaty
      BY <2>1 DEF Treaty
    <3>2. /\ [treaty[t] EXCEPT !.active = FALSE] # Nothing
          /\ [treaty[t] EXCEPT !.active = FALSE].worlds = treaty[t].worlds
      BY <2>1, <3>1, FederationAssumption DEF Treaty
    <3>3. treaty'[t] \in {treaty[t], [treaty[t] EXCEPT !.active = FALSE]}
      BY <2>4 DEF ExpireTreaty, FederationTypeOK
    <3>4. QED
      BY <1>2, <3>2, <3>3
  <2>5. QED
    BY <1>2, <2>2, <2>3, <2>4
    DEF FederationNext, federationVars, CreateWorld, ProposeFederatedAction,
        AlignFederatedAction, ExecuteFederatedAction, EndFederatedAction
<1>3. QED
  BY <1>1, <1>2 DEF Agreed

LEMMA AgreedStep ==
  FederationTypeOK /\ AgreedInv /\ [FederationNext]_federationVars => AgreedInv'
<1> SUFFICES ASSUME FederationTypeOK, AgreedInv, [FederationNext]_federationVars
             PROVE  AgreedInv'
  OBVIOUS
<1>1. ASSUME NEW a \in Actions, action'[a] # Nothing, action'[a].status \in {"aligned", "executed"}
      PROVE  Agreed(a)'
  <2>1. CASE action[a] # Nothing /\ action[a].status \in {"aligned", "executed"}
    BY <2>1, AgreementStays DEF AgreedInv
  <2>2. CASE action[a] # Nothing /\ AlignFederatedAction(a)
    <3>1. Agreed(a)
      BY <2>2 DEF AlignFederatedAction, CommonTreaty, Agreed
    <3>2. QED
      BY <2>2, <3>1, AgreementStays
  <2>3. CASE /\ action[a] = Nothing \/ action[a].status \notin {"aligned", "executed"}
             /\ ~(action[a] # Nothing /\ AlignFederatedAction(a))
    <3>1. CASE action' = action
      BY <1>1, <2>3, <3>1
    <3>2. ASSUME NEW b \in Actions, NEW source \in worlds, NEW target \in worlds,
                 ProposeFederatedAction(b, source, target)
          PROVE  FALSE
      BY <1>1, <2>3, <3>2, ProposalAdds
    <3>3. ASSUME NEW b \in Actions, AlignFederatedAction(b)
          PROVE  FALSE
      <4>1. b # a
        BY <2>3, <3>3 DEF AlignFederatedAction, Set
      <4>2. QED
        BY <1>1, <2>3, <3>3, <4>1, SetStatus DEF AlignFederatedAction, Statuses
    <3>4. ASSUME NEW b \in Actions, ExecuteFederatedAction(b)
          PROVE  FALSE
      <4>1. b # a
        BY <2>3, <3>4 DEF ExecuteFederatedAction
      <4>2. QED
        BY <1>1, <2>3, <3>4, <4>1, SetStatus DEF ExecuteFederatedAction, Statuses
    <3>5. ASSUME NEW b \in Actions, NEW how \in {"rejected", "reverted"}, EndFederatedAction(b, how)
          PROVE  FALSE
      <4>1. how \in Statuses /\ how \notin {"aligned", "executed"} /\ Set(b, how)
        BY <3>5 DEF EndFederatedAction, Statuses
      <4>2. QED
        BY <1>1, <2>3, <4>1, SetStatus
    <3>6. QED
      BY <3>1, <3>2, <3>3, <3>4, <3>5
      DEF FederationNext, federationVars, CreateWorld, SignTreaty, ExpireTreaty
  <2>4. QED
    BY <2>1, <2>2, <2>3
<1>2. ASSUME NEW w \in Worlds, NEW a \in Actions, Recorded(w, a)'
      PROVE  action'[a] # Nothing /\ action'[a].source = w /\ Agreed(a)'
  <2>1. ASSUME action[a] # Nothing, action[a].source = w, Agreed(a)
        PROVE  action'[a] # Nothing /\ action'[a].source = w /\ Agreed(a)'
    BY <2>1, AgreementStays
  <2>2. CASE Recorded(w, a)
    BY <2>1, <2>2 DEF AgreedInv
  <2>3. CASE lineage' = lineage
    BY <1>2, <2>2, <2>3 DEF Recorded
  <2>4. ASSUME NEW b \in Actions, ExecuteFederatedAction(b), ~Recorded(w, a)
        PROVE  a = b /\ action[a] # Nothing /\ action[a].source = w /\ Agreed(a)
    <3>1. /\ action[b].source \in Worlds
          /\ lineage'[action[b].source] = Append(lineage[action[b].source], b)
          /\ \A z \in Worlds \ {action[b].source} : lineage'[z] = lineage[z]
      BY <2>4, ExecutionAppends
    <3>2. w = action[b].source
      BY <1>2, <2>4, <3>1 DEF Recorded
    <3>3. a = b
      <4>1. PICK i \in DOMAIN Append(lineage[w], b) : Append(lineage[w], b)[i] = a
        BY <1>2, <3>1, <3>2 DEF Recorded
      <4>2. lineage[w] \in Seq(Actions)
        BY DEF FederationTypeOK
      <4>3. i \in DOMAIN lineage[w] => lineage[w][i] = a
        BY <4>1, <4>2
      <4>4. i \in DOMAIN lineage[w] \/ Append(lineage[w], b)[i] = b
        BY <4>1, <4>2
      <4>5. QED
        BY <2>4, <4>1, <4>3, <4>4 DEF Recorded
    <3>4. action[b] # Nothing /\ Agreed(b)
      BY <2>4 DEF ExecuteFederatedAction, AgreedInv
    <3>5. QED
      BY <3>2, <3>3, <3>4
  <2>5. QED
    BY <2>1, <2>2, <2>3, <2>4
    DEF FederationNext, federationVars, CreateWorld, SignTreaty, ExpireTreaty,
        ProposeFederatedAction, AlignFederatedAction, EndFederatedAction
<1>3. QED
  BY <1>1, <1>2 DEF AgreedInv

ExecutionsWereAgreed ==
  \A w \in Worlds, a \in Actions :
    Recorded(w, a) => action[a] # Nothing /\ action[a].source = w /\ Agreed(a)

\* Whatever expires, is reverted or is aligned again: a world has executed
\* nothing but actions of its own, and each with a world that some treaty, in
\* force or expired, names together with it.
THEOREM NothingWithoutTreaty == FederationSpec => []ExecutionsWereAgreed
<1>1. FederationInit => AgreedInv
  BY DEF FederationInit, AgreedInv, Recorded
<1>2. AgreedInv => ExecutionsWereAgreed
  BY DEF AgreedInv, ExecutionsWereAgreed
<1>3. QED
  BY <1>1, <1>2, AgreedStep, FederationTypeCorrect, PTL DEF FederationSpec

----------------------------------------------------------------------------
(* The exchange of treaties. *)

\* Whatever is created, signed, exported and imported, blobs and exports have
\* the form the code gives them.
THEOREM ExchangeTypeCorrect == ExchangeSpec => []ExchangeTypeOK
<1>1. ExchangeInit => ExchangeTypeOK
  BY DEF ExchangeInit, ExchangeTypeOK
<1>2. ExchangeTypeOK /\ [ExchangeNext]_exchangeVars => ExchangeTypeOK'
  <2> SUFFICES ASSUME ExchangeTypeOK, [ExchangeNext]_exchangeVars PROVE ExchangeTypeOK'
    OBVIOUS
  <2> USE DEF ExchangeTypeOK
  <2>1. ASSUME NEW s \in Sites, NEW b \in Blobs, NEW new \in Blob \cup {Absent},
               blob' = [blob EXCEPT ![s][b] = new]
        PROVE  blob' \in [Sites -> [Blobs -> Blob \cup {Absent}]]
    BY <2>1
  <2>2. ASSUME NEW s \in Sites, NEW b \in Blobs, NEW w \in Members, CreateTreatyBlob(s, b, w)
        PROVE  ExchangeTypeOK'
    <3>1. [target |-> w, countersigned |-> Absent] \in Blob \cup {Absent}
      BY DEF Blob
    <3>2. QED
      BY <2>2, <3>1, <2>1 DEF CreateTreatyBlob
  <2>3. ASSUME NEW s \in Sites, NEW b \in Blobs, NEW w \in Members, CountersignTreatyBlob(s, b, w)
        PROVE  ExchangeTypeOK'
    <3>1. blob[s][b] \in Blob
      BY <2>3 DEF CountersignTreatyBlob
    <3>2. [blob[s][b] EXCEPT !.countersigned = w] \in Blob \cup {Absent}
      BY <3>1 DEF Blob
    <3>3. blob' = [blob EXCEPT ![s][b] = [blob[s][b] EXCEPT !.countersigned = w]]
      BY <2>3 DEF CountersignTreatyBlob
    <3>4. QED
      BY <2>3, <3>2, <3>3, <2>1 DEF CountersignTreatyBlob
  <2>4. ASSUME NEW s \in Sites, NEW b \in Blobs, ExportTreaty(s, b) PROVE ExchangeTypeOK'
    <3>1. blob[s][b] \in Blob
      BY <2>4 DEF ExportTreaty
    <3>2. [blob |-> b, target |-> blob[s][b].target] \in Transfer
      BY <3>1 DEF Blob, Transfer
    <3>3. QED
      BY <2>4, <3>2 DEF ExportTreaty
  <2>5. ASSUME NEW s \in Sites, NEW x \in transfers, ImportTreaty(s, x) PROVE ExchangeTypeOK'
    <3>1. x.blob \in Blobs /\ x.target \in Members
      BY DEF Transfer
    <3>2. [target |-> x.target, countersigned |-> Absent] \in Blob \cup {Absent}
      BY <3>1 DEF Blob
    <3>3. QED
      BY <2>5, <3>1, <3>2, <2>1 DEF ImportTreaty
  <2>6. ASSUME NEW s \in Sites, SiteRestarts(s) PROVE ExchangeTypeOK'
    BY <2>6 DEF SiteRestarts
  <2>7. ASSUME UNCHANGED exchangeVars PROVE ExchangeTypeOK'
    BY <2>7 DEF exchangeVars
  <2>8. QED
    BY <2>2, <2>3, <2>4, <2>5, <2>6, <2>7 DEF ExchangeNext
<1>3. QED
  BY <1>1, <1>2, PTL DEF ExchangeSpec

\* What CopiesAgree needs to be inductive: an export that is still on its way
\* has the target of every copy, and of every other export of the blob, which
\* may outlive all copies.
TransfersAgree ==
  \A x \in transfers :
    /\ \A y \in transfers : y.blob = x.blob => y.target = x.target
    /\ \A s \in Sites : blob[s][x.blob] # Absent => blob[s][x.blob].target = x.target

\* All copies of a blob have one target, in whatever order exports arrive.
THEOREM CopiesNeverDiverge == ExchangeSpec => []CopiesAgree
<1>1. ExchangeInit => CopiesAgree /\ TransfersAgree
  BY DEF ExchangeInit, CopiesAgree, TransfersAgree
<1>2. ExchangeTypeOK /\ CopiesAgree /\ TransfersAgree /\ [ExchangeNext]_exchangeVars
        => CopiesAgree' /\ TransfersAgree'
  <2> SUFFICES ASSUME ExchangeTypeOK, CopiesAgree, TransfersAgree, [ExchangeNext]_exchangeVars
               PROVE  CopiesAgree' /\ TransfersAgree'
    OBVIOUS
  <2> USE DEF ExchangeTypeOK
  <2>1. ASSUME NEW s \in Sites, NEW b \in Blobs, blob[s][b] # Absent
        PROVE  blob[s][b] \in Blob
    BY <2>1
  <2> DEFINE Fits(b, new) ==
        /\ \A z \in Sites : blob[z][b] # Absent => new.target = blob[z][b].target
        /\ \A x \in transfers : x.blob = b => x.target = new.target
  <2>2. ASSUME NEW s \in Sites, NEW b \in Blobs, NEW new \in Blob, Fits(b, new),
               blob' = [blob EXCEPT ![s][b] = new], transfers' = transfers
        PROVE  CopiesAgree' /\ TransfersAgree'
    <3>0. new # Absent
      BY ExchangeAssumption
    <3>1. \A z \in Sites, c \in Blobs :
            blob'[z][c] = IF z = s /\ c = b THEN new ELSE blob[z][c]
      BY <2>2
    <3>2. CopiesAgree'
      BY <2>2, <3>0, <3>1 DEF CopiesAgree
    <3>3. \A x \in transfers : x.blob \in Blobs
      BY DEF Transfer
    <3>4. TransfersAgree'
      BY <2>2, <3>0, <3>1, <3>3 DEF TransfersAgree
    <3>5. QED
      BY <3>2, <3>4
  <2>3. ASSUME NEW s \in Sites, NEW b \in Blobs, NEW w \in Members, CreateTreatyBlob(s, b, w)
        PROVE  CopiesAgree' /\ TransfersAgree'
    <3> DEFINE new == [target |-> w, countersigned |-> Absent]
    <3>1. new \in Blob /\ new.target = w
      BY DEF Blob
    <3>2. blob' = [blob EXCEPT ![s][b] = new] /\ transfers' = transfers
      BY <2>3 DEF CreateTreatyBlob
    <3>3. \A z \in Sites : blob[z][b] = Absent
      BY <2>3 DEF CreateTreatyBlob
    <3>4. \A x \in transfers : x.blob # b
      BY <2>3 DEF CreateTreatyBlob
    <3> HIDE DEF new
    <3>5. Fits(b, new)
      BY <3>3, <3>4
    <3> HIDE DEF Fits
    <3>6. QED
      BY <3>1, <3>2, <3>5, <2>2
  <2>4. ASSUME NEW s \in Sites, NEW b \in Blobs, NEW w \in Members, CountersignTreatyBlob(s, b, w)
        PROVE  CopiesAgree' /\ TransfersAgree'
    <3> DEFINE new == [blob[s][b] EXCEPT !.countersigned = w]
    <3>1. blob[s][b] # Absent /\ blob[s][b] \in Blob
      BY <2>4, <2>1 DEF CountersignTreatyBlob
    <3>2. new \in Blob /\ new.target = blob[s][b].target
      BY <3>1 DEF Blob
    <3>3. blob' = [blob EXCEPT ![s][b] = new] /\ transfers' = transfers
      BY <2>4 DEF CountersignTreatyBlob
    <3> HIDE DEF new
    <3>5. \A z \in Sites : blob[z][b] # Absent => new.target = blob[z][b].target
      BY <3>1, <3>2 DEF CopiesAgree
    <3>6. \A x \in transfers : x.blob = b => x.target = new.target
      BY <3>1, <3>2 DEF TransfersAgree
    <3>7. Fits(b, new)
      BY <3>5, <3>6
    <3> HIDE DEF Fits
    <3>8. QED
      BY <3>2, <3>3, <3>7, <2>2
  <2>5. ASSUME NEW s \in Sites, NEW b \in Blobs, ExportTreaty(s, b)
        PROVE  CopiesAgree' /\ TransfersAgree'
    <3> DEFINE x == [blob |-> b, target |-> blob[s][b].target]
    <3>1. transfers' = transfers \cup {x} /\ UNCHANGED blob /\ blob[s][b] # Absent
      BY <2>5 DEF ExportTreaty
    <3>2. x.blob = b /\ x.target = blob[s][b].target
      OBVIOUS
    <3> HIDE DEF x
    <3>3. \A z \in Sites : blob[z][b] # Absent => blob[z][b].target = x.target
      BY <3>1, <3>2 DEF CopiesAgree
    <3>4. \A y \in transfers : y.blob = b => y.target = x.target
      BY <3>1, <3>2 DEF TransfersAgree
    <3>5. QED
      BY <3>1, <3>2, <3>3, <3>4 DEF CopiesAgree, TransfersAgree
  <2>6. ASSUME NEW s \in Sites, NEW x \in transfers, ImportTreaty(s, x)
        PROVE  CopiesAgree' /\ TransfersAgree'
    <3> DEFINE new == [target |-> x.target, countersigned |-> Absent]
    <3>1. x.blob \in Blobs /\ x.target \in Members
      BY DEF Transfer
    <3>2. new \in Blob /\ new.target = x.target
      BY <3>1 DEF Blob
    <3>3. blob' = [blob EXCEPT ![s][x.blob] = new] /\ transfers' = transfers
      BY <2>6 DEF ImportTreaty
    <3> HIDE DEF new
    <3>5. \A z \in Sites : blob[z][x.blob] # Absent => new.target = blob[z][x.blob].target
      BY <3>2 DEF TransfersAgree
    <3>6. \A y \in transfers : y.blob = x.blob => y.target = new.target
      BY <3>2 DEF TransfersAgree
    <3>7. Fits(x.blob, new)
      BY <3>5, <3>6
    <3> HIDE DEF Fits
    <3>8. QED
      BY <3>1, <3>2, <3>3, <3>7, <2>2
  <2>7. ASSUME NEW s \in Sites, SiteRestarts(s) PROVE CopiesAgree' /\ TransfersAgree'
    <3>1. \A z \in Sites, b \in Blobs : blob'[z][b] = IF z = s THEN Absent ELSE blob[z][b]
      BY <2>7 DEF SiteRestarts
    <3>2. transfers' = transfers /\ \A x \in transfers : x.blob \in Blobs
      BY <2>7 DEF SiteRestarts, Transfer
    <3>3. QED
      BY <3>1, <3>2 DEF CopiesAgree, TransfersAgree
  <2>8. ASSUME UNCHANGED exchangeVars PROVE CopiesAgree' /\ TransfersAgree'
    BY <2>8 DEF exchangeVars, CopiesAgree, TransfersAgree
  <2>9. QED
    BY <2>3, <2>4, <2>5, <2>6, <2>7, <2>8 DEF ExchangeNext
<1>3. QED
  BY <1>1, <1>2, ExchangeTypeCorrect, PTL DEF ExchangeSpec

\* A countersignature is never replaced by another, only forgotten by an import
\* or with all that its site held.
THEOREM CountersignaturesAreFinal == ExchangeSpec => CountersignatureFinal
<1> DEFINE Final(s, b) ==
      blob[s][b] # Absent /\ blob[s][b].countersigned # Absent =>
        \/ blob'[s][b] = blob[s][b]
        \/ \A c \in Blobs : blob'[s][c] = Absent
        \/ /\ blob'[s][b].countersigned = Absent
           /\ \E x \in transfers : x.blob = b /\ x.target = blob'[s][b].target
<1>1. ExchangeTypeOK /\ [ExchangeNext]_exchangeVars
        => [\A s \in Sites, b \in Blobs : Final(s, b)]_exchangeVars
  <2> SUFFICES ASSUME ExchangeTypeOK, ExchangeNext, NEW s \in Sites, NEW b \in Blobs
               PROVE  Final(s, b)
    OBVIOUS
  <2> USE DEF ExchangeTypeOK
  <2>1. ASSUME NEW z \in Sites, NEW c \in Blobs, NEW w \in Members, CreateTreatyBlob(z, c, w)
        PROVE  Final(s, b)
    <3>1. blob[s][b] # Absent => c # b
      BY <2>1 DEF CreateTreatyBlob
    <3>2. c # b => blob'[s][b] = blob[s][b]
      BY <2>1 DEF CreateTreatyBlob
    <3>3. QED
      BY <3>1, <3>2
  <2>2. ASSUME NEW z \in Sites, NEW c \in Blobs, NEW w \in Members, CountersignTreatyBlob(z, c, w)
        PROVE  Final(s, b)
    <3>1. blob[z][c].countersigned = Absent
      BY <2>2 DEF CountersignTreatyBlob
    <3>2. ~(z = s /\ c = b) => blob'[s][b] = blob[s][b]
      BY <2>2 DEF CountersignTreatyBlob
    <3>3. QED
      BY <3>1, <3>2
  <2>3. ASSUME NEW z \in Sites, NEW c \in Blobs, ExportTreaty(z, c) PROVE Final(s, b)
    BY <2>3 DEF ExportTreaty
  <2>4. ASSUME NEW z \in Sites, NEW x \in transfers, ImportTreaty(z, x) PROVE Final(s, b)
    <3>1. x.blob \in Blobs
      BY DEF Transfer
    <3>2. blob'[s][b] = IF z = s /\ x.blob = b
                       THEN [target |-> x.target, countersigned |-> Absent] ELSE blob[s][b]
      BY <2>4, <3>1 DEF ImportTreaty
    <3>3. QED
      BY <3>2
  <2>5. ASSUME NEW z \in Sites, SiteRestarts(z) PROVE Final(s, b)
    BY <2>5 DEF SiteRestarts
  <2>6. QED
    BY <2>1, <2>2, <2>3, <2>4, <2>5 DEF ExchangeNext
<1>2. QED
  BY <1>1, ExchangeTypeCorrect, PTL DEF ExchangeSpec, CountersignatureFinal
============================================================================
