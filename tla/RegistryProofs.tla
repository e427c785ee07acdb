--------------------------- MODULE RegistryProofs ---------------------------
(***************************************************************************)
(* Proofs about the feed of the cockpit and about the registries of the     *)
(* kernel's services: identity keys, epochs, states of health, threats.     *)
(***************************************************************************)
EXTENDS CockpitFeed, IdentityKeys, EpochKeys, StateHealth, ThreatScreen, FiniteSetTheorems, TLAPS

(* The feed of the cockpit. *)

LEMMA FreePollTyped == Free \in PollInFlight
BY FeedAssumption DEF FeedAssumption, Free, PollInFlight

LEMMA AskedPollTyped ==
  ASSUME status \in 0..MaxRecorded, NEW what \in {"kernel", "receipts"}
  PROVE  Asked(what) \in PollInFlight
BY FeedAssumption DEF FeedAssumption, Asked, PollInFlight

\* The variables keep their types, for any number of polls and receipts.
THEOREM FeedTypeCorrect == FeedSpec => []FeedTypeOK
<1> USE FeedAssumption DEF FeedAssumption
<1>1. FeedInit => FeedTypeOK
  <2> SUFFICES ASSUME FeedInit PROVE FeedTypeOK
    OBVIOUS
  <2>1. poll \in [Polls -> PollInFlight]
    BY FreePollTyped DEF FeedInit
  <2>2. stream \in Seq(1..MaxRecorded)
    BY DEF FeedInit
  <2>3. /\ made \in 0..MaxRecorded /\ status \in 0..MaxRecorded
        /\ opened \in 0..MaxRecorded /\ polled \in 0..MaxRecorded
    BY DEF FeedInit
  <2>4. screen \subseteq 1..MaxRecorded /\ timers \subseteq {"soft", "hard"}
        /\ cleanup \subseteq {"source", "soft", "hard"}
    BY DEF FeedInit
  <2>5. QED
    BY <2>1, <2>2, <2>3, <2>4 DEF FeedInit, FeedTypeOK
<1>2. FeedTypeOK /\ [FeedNext]_feedVars => FeedTypeOK'
  <2> SUFFICES ASSUME FeedTypeOK, [FeedNext]_feedVars PROVE FeedTypeOK'
    OBVIOUS
  <2> USE DEF FeedTypeOK
  <2>1. CASE RecordForFeed
    <3>1. made + 1 \in 1..MaxRecorded
      BY <2>1 DEF RecordForFeed
    <3>2. Append(stream, made + 1) \in Seq(1..MaxRecorded)
      BY <3>1
    <3>3. stream' \in Seq(1..MaxRecorded)
      BY <2>1, <3>2 DEF RecordForFeed
    <3>4. QED
      BY <2>1, <3>1, <3>3 DEF RecordForFeed
  <2>2. PollBoth => poll' \in [Polls -> PollInFlight]
    BY AskedPollTyped DEF PollBoth
  <2>3. PollKernel => poll' \in [Polls -> PollInFlight]
    BY AskedPollTyped DEF PollKernel
  <2>4. CASE ConnectClusterBridge
    BY <2>2, <2>4 DEF ConnectClusterBridge
  <2>5. CASE Subscribe
    BY <2>5 DEF Subscribe
  <2>6. CASE Arrive
    <3>1. Head(stream) \in 1..MaxRecorded /\ Tail(stream) \in Seq(1..MaxRecorded)
      BY <2>6 DEF Arrive
    <3>2. QED
      BY <2>6, <3>1 DEF Arrive
  <2>7. CASE StreamFails
    <3>1. <<>> \in Seq(1..MaxRecorded)
      OBVIOUS
    <3>2. QED
      BY <2>2, <2>7, <3>1 DEF StreamFails
  <2>8. CASE DisconnectClusterBridge
    <3>1. <<>> \in Seq(1..MaxRecorded)
      OBVIOUS
    <3>2. QED
      BY <2>8, <3>1 DEF DisconnectClusterBridge
  <2>9. CASE \E t \in {"soft", "hard"} : TimerFires(t)
    BY <2>2, <2>3, <2>9 DEF TimerFires
  <2>10. ASSUME NEW p \in Polls, AnswerPoll(p) PROVE FeedTypeOK'
    <3>1. [poll[p] EXCEPT !.answer = made] \in PollInFlight
      <4>1. made \in -1..MaxRecorded /\ poll[p] \in PollInFlight
        OBVIOUS
      <4>2. QED
        BY <4>1 DEF PollInFlight
    <3>2. poll' = [poll EXCEPT ![p] = [poll[p] EXCEPT !.answer = made]]
      BY <2>10 DEF AnswerPoll, PollInFlight
    <3>3. poll' \in [Polls -> PollInFlight]
      BY <3>1, <3>2
    <3>4. QED
      BY <2>10, <3>3 DEF AnswerPoll
  <2>11. ASSUME NEW p \in Polls, PollLands(p) PROVE FeedTypeOK'
    <3>1. /\ poll[p].answer \in 0..MaxRecorded
          /\ 1..poll[p].answer \subseteq 1..MaxRecorded
      BY <2>11 DEF PollLands, PollInFlight
    <3>2. poll' \in [Polls -> PollInFlight]
      BY <2>11, FreePollTyped DEF PollLands
    <3>3. CASE poll[p].of = "kernel"
      BY <2>11, <3>1, <3>2, <3>3 DEF PollLands
    <3>4. CASE poll[p].of # "kernel"
      BY <2>11, <3>1, <3>2, <3>4 DEF PollLands
    <3>5. QED
      BY <3>3, <3>4
  <2>12. ASSUME NEW p \in Polls, PollFails(p) PROVE FeedTypeOK'
    BY <2>12, FreePollTyped DEF PollFails
  <2>13. CASE UNCHANGED feedVars
    BY <2>13 DEF feedVars
  <2>14. QED
    BY <2>1, <2>4, <2>5, <2>6, <2>7, <2>8, <2>9, <2>10, <2>11, <2>12, <2>13 DEF FeedNext
<1>3. QED
  BY <1>1, <1>2, PTL DEF FeedSpec

\* The closure called cleanup reaches everything that runs.
CleanupReachesAll ==
  /\ timers \subseteq cleanup
  /\ source # "none" => "source" \in cleanup
  /\ NothingOutlivesDisconnect

\* Whatever streams failed and whatever was connected again, a disconnect stops
\* the stream and every interval.
THEOREM DisconnectStopsAll == FeedSpec => []NothingOutlivesDisconnect
<1> DEFINE Inv == CleanupReachesAll
<1>1. FeedInit => Inv
  BY DEF FeedInit, CleanupReachesAll, NothingOutlivesDisconnect
<1>2. Inv /\ [FeedNext]_feedVars => Inv'
  <2> SUFFICES ASSUME Inv, [FeedNext]_feedVars PROVE Inv'
    OBVIOUS
  <2> USE DEF CleanupReachesAll, NothingOutlivesDisconnect
  <2>1. CASE RecordForFeed
    BY <2>1 DEF RecordForFeed
  <2>2. CASE ConnectClusterBridge
    BY <2>2 DEF ConnectClusterBridge
  <2>3. CASE Subscribe
    BY <2>3 DEF Subscribe
  <2>4. CASE Arrive
    BY <2>4 DEF Arrive
  <2>5. CASE StreamFails
    BY <2>5 DEF StreamFails
  <2>6. CASE DisconnectClusterBridge
    BY <2>6 DEF DisconnectClusterBridge
  <2>7. CASE \E t \in {"soft", "hard"} : TimerFires(t)
    BY <2>7 DEF TimerFires
  <2>8. CASE \E p \in Polls : AnswerPoll(p) \/ PollLands(p) \/ PollFails(p)
    BY <2>8 DEF AnswerPoll, PollLands, PollFails
  <2>9. CASE UNCHANGED feedVars
    BY <2>9 DEF feedVars
  <2>10. QED
    BY <2>1, <2>2, <2>3, <2>4, <2>5, <2>6, <2>7, <2>8, <2>9 DEF FeedNext
<1>3. Inv => NothingOutlivesDisconnect
  BY DEF CleanupReachesAll
<1>4. QED
  BY <1>1, <1>2, <1>3, PTL DEF FeedSpec

\* What polls brought is on the screen, and nobody brought more than was made.
PolledIsShown ==
  /\ 1..polled \subseteq screen
  /\ polled <= made /\ opened <= made
  /\ \A p \in Polls : poll[p].answer <= made

\* While a stream is open, what is missing was recorded between the last answer
\* to a poll of receipts and the subscription.
THEOREM OnlyTheGapIsMissed == FeedSpec => []MissedInTheGap
<1> DEFINE Inv == PolledIsShown /\ MissedInTheGap
<1> USE FeedAssumption DEF FeedAssumption
<1>1. FeedInit => Inv
  BY DEF FeedInit, PolledIsShown, MissedInTheGap, Free
<1>2. FeedTypeOK /\ Inv /\ [FeedNext]_feedVars => Inv'
  <2> SUFFICES ASSUME FeedTypeOK, Inv, [FeedNext]_feedVars PROVE Inv'
    OBVIOUS
  <2>0. /\ made \in Nat /\ polled \in Nat /\ opened \in Nat /\ stream \in Seq(1..MaxRecorded)
        /\ poll \in [Polls -> PollInFlight] /\ screen \subseteq 1..MaxRecorded
    BY DEF FeedTypeOK
  <2>1. CASE RecordForFeed
    <3>1. /\ made' = made + 1
          /\ UNCHANGED <<source, polled, opened, poll, screen>>
          /\ stream' = IF source = "open" THEN Append(stream, made + 1) ELSE stream
      BY <2>1 DEF RecordForFeed
    <3>2. PolledIsShown'
      <4>1. ASSUME NEW p \in Polls PROVE poll[p].answer <= made + 1
        <5>1. poll[p].answer \in Int /\ poll[p].answer <= made
          BY <2>0 DEF PollInFlight, PolledIsShown
        <5>2. QED
          BY <5>1, <2>0
      <4>2. QED
        BY <2>0, <3>1, <4>1 DEF PolledIsShown
    <3>3. ASSUME source = "open", NEW r \in 1..(made + 1)
          PROVE  \/ r \in screen
                 \/ \E i \in DOMAIN stream' : stream'[i] = r
                 \/ polled < r /\ r <= opened
      <4>1. stream' = Append(stream, made + 1)
        BY <3>1, <3>3
      <4>2. CASE r = made + 1
        <5>1. Len(stream) + 1 \in DOMAIN stream' /\ stream'[Len(stream) + 1] = r
          BY <2>0, <4>1, <4>2
        <5>2. QED
          BY <5>1
      <4>3. CASE r \in 1..made
        <5>1. ASSUME NEW i \in DOMAIN stream, stream[i] = r
              PROVE  i \in DOMAIN stream' /\ stream'[i] = r
          BY <2>0, <4>1, <5>1
        <5>2. QED
          BY <3>3, <4>3, <5>1 DEF MissedInTheGap
      <4>4. QED
        BY <2>0, <4>2, <4>3
    <3>4. QED
      BY <3>1, <3>2, <3>3 DEF MissedInTheGap
  <2>2. ASSUME PollBoth \/ PollKernel PROVE \A p \in Polls : poll'[p].answer <= made
    <3>1. ASSUME NEW p \in Polls PROVE poll'[p] = poll[p] \/ poll'[p].answer = -1
      BY <2>0, <2>2 DEF PollBoth, PollKernel, Asked
    <3>2. QED
      BY <2>0, <3>1 DEF PolledIsShown
  <2>3. CASE ConnectClusterBridge
    BY <2>2, <2>3 DEF ConnectClusterBridge, PolledIsShown, MissedInTheGap
  <2>4. CASE Subscribe
    <3>1. /\ opened' = made
          /\ UNCHANGED <<made, stream, poll, screen, polled>>
      BY <2>4 DEF Subscribe
    <3>2. PolledIsShown'
      BY <2>0, <3>1 DEF PolledIsShown
    <3>3. ASSUME NEW r \in 1..made PROVE r \in screen \/ (polled < r /\ r <= made)
      BY <2>0 DEF PolledIsShown
    <3>4. QED
      BY <3>1, <3>2, <3>3 DEF MissedInTheGap
  <2>5. CASE Arrive
    <3>1. /\ stream # <<>>
          /\ screen' = screen \cup {Head(stream)}
          /\ stream' = Tail(stream)
          /\ UNCHANGED <<made, source, poll, opened, polled>>
      BY <2>5 DEF Arrive
    <3>2. PolledIsShown'
      BY <3>1 DEF PolledIsShown
    <3>3. ASSUME NEW i \in DOMAIN stream
          PROVE  stream[i] \in screen' \/ \E j \in DOMAIN stream' : stream'[j] = stream[i]
      <4>1. CASE i = 1
        BY <2>0, <3>1, <4>1
      <4>2. CASE i # 1
        <5>1. i - 1 \in DOMAIN stream' /\ stream'[i - 1] = stream[i]
          BY <2>0, <3>1, <4>2
        <5>2. QED
          BY <5>1
      <4>3. QED
        BY <4>1, <4>2
    <3>4. ASSUME source = "open", NEW r \in 1..made
          PROVE  \/ r \in screen'
                 \/ \E j \in DOMAIN stream' : stream'[j] = r
                 \/ polled < r /\ r <= opened
      BY <3>1, <3>3, <3>4 DEF MissedInTheGap
    <3>5. QED
      BY <3>1, <3>2, <3>4 DEF MissedInTheGap
  <2>6. CASE StreamFails
    BY <2>2, <2>6 DEF StreamFails, PolledIsShown, MissedInTheGap
  <2>7. CASE DisconnectClusterBridge
    <3>1. /\ UNCHANGED <<made, poll, screen, opened, polled>>
          /\ source' = "none" \/ (source' = source /\ stream' = stream)
      <4>1. CASE "source" \in cleanup
        BY <2>7, <4>1 DEF DisconnectClusterBridge
      <4>2. CASE "source" \notin cleanup
        BY <2>7, <4>2 DEF DisconnectClusterBridge
      <4>3. QED
        BY <4>1, <4>2
    <3>2. QED
      BY <3>1 DEF PolledIsShown, MissedInTheGap
  <2>8. CASE \E t \in {"soft", "hard"} : TimerFires(t)
    BY <2>2, <2>8 DEF TimerFires, PolledIsShown, MissedInTheGap
  <2>9. ASSUME NEW p \in Polls, AnswerPoll(p) PROVE Inv'
    <3>1. poll' = [poll EXCEPT ![p].answer = made]
          /\ UNCHANGED <<made, source, stream, screen, opened, polled>>
      BY <2>9 DEF AnswerPoll
    <3>2. ASSUME NEW q \in Polls PROVE poll'[q].answer <= made
      <4>1. CASE q = p
        <5>1. poll[p] \in PollInFlight
          BY <2>0
        <5>2. poll'[p].answer = made
          BY <2>0, <3>1, <5>1 DEF PollInFlight
        <5>3. QED
          BY <2>0, <4>1, <5>2
      <4>2. CASE q # p
        BY <2>0, <3>1, <4>2 DEF PolledIsShown
      <4>3. QED
        BY <4>1, <4>2
    <3>3. QED
      BY <3>1, <3>2 DEF PolledIsShown, MissedInTheGap
  <2>10. ASSUME NEW p \in Polls, PollLands(p) \/ PollFails(p)
         PROVE  \A q \in Polls : poll'[q].answer <= made
    <3>1. ASSUME NEW q \in Polls PROVE poll'[q] = poll[q] \/ poll'[q].answer = -1
      BY <2>0, <2>10 DEF PollLands, PollFails, Free
    <3>2. QED
      BY <2>0, <3>1 DEF PolledIsShown
  <2>11. ASSUME NEW p \in Polls, PollLands(p) PROVE Inv'
    <3>1. UNCHANGED <<made, source, stream, opened>>
      BY <2>11 DEF PollLands
    <3>2. CASE poll[p].of = "kernel"
      BY <2>10, <2>11, <3>1, <3>2 DEF PollLands, PolledIsShown, MissedInTheGap
    <3>3. CASE poll[p].of # "kernel"
      <4>1. /\ screen' = screen \cup 1..poll[p].answer
            /\ polled' = IF poll[p].answer > polled THEN poll[p].answer ELSE polled
            /\ poll[p].answer \in Nat /\ poll[p].answer <= made
        BY <2>0, <2>11, <3>3 DEF PollLands, PollInFlight, PolledIsShown
      <4>2. 1..polled' \subseteq screen' /\ polled' <= made
        BY <2>0, <4>1 DEF PolledIsShown
      <4>3. ASSUME NEW r \in 1..made, polled < r /\ r <= opened
            PROVE  r \in screen' \/ (polled' < r /\ r <= opened)
        BY <2>0, <4>1, <4>3
      <4>4. MissedInTheGap'
        BY <3>1, <4>1, <4>3 DEF MissedInTheGap
      <4>5. QED
        BY <2>10, <2>11, <3>1, <4>2, <4>4 DEF PolledIsShown
    <3>4. QED
      BY <3>2, <3>3
  <2>12. ASSUME NEW p \in Polls, PollFails(p) PROVE Inv'
    BY <2>10, <2>12 DEF PollFails, PolledIsShown, MissedInTheGap
  <2>13. CASE UNCHANGED feedVars
    BY <2>13 DEF feedVars, PolledIsShown, MissedInTheGap
  <2>14. QED
    BY <2>1, <2>3, <2>4, <2>5, <2>6, <2>7, <2>8, <2>9, <2>11, <2>12, <2>13 DEF FeedNext
<1>3. QED
  BY <1>1, <1>2, FeedTypeCorrect, PTL DEF FeedSpec

\* An answer is at least what the screen showed when it was asked for.
AnswersAreLater ==
  /\ status <= made
  /\ \A p \in Polls : /\ poll[p].before <= made
                      /\ poll[p].answer = -1 \/ poll[p].before <= poll[p].answer
                      /\ poll[p].answer <= made

\* The status shown goes back only for an answer that a later one overtook.
THEOREM StatusIsOvertaken == FeedSpec => StatusGoesBackIfOvertaken
<1> USE FeedAssumption DEF FeedAssumption
<1>1. FeedInit => AnswersAreLater
  BY DEF FeedInit, AnswersAreLater, Free
<1>2. FeedTypeOK /\ AnswersAreLater /\ [FeedNext]_feedVars => AnswersAreLater'
  <2> SUFFICES ASSUME FeedTypeOK, AnswersAreLater, [FeedNext]_feedVars PROVE AnswersAreLater'
    OBVIOUS
  <2>0. /\ made \in Nat /\ status \in Nat /\ poll \in [Polls -> PollInFlight]
        /\ \A p \in Polls : poll[p].answer \in Int /\ poll[p].before \in Nat
    BY DEF FeedTypeOK, PollInFlight
  <2>1. CASE RecordForFeed
    BY <2>0, <2>1 DEF RecordForFeed, AnswersAreLater
  <2>2. ASSUME UNCHANGED <<made, status>>,
               \A p \in Polls : poll'[p] \in {poll[p], Free, Asked("kernel"), Asked("receipts")}
        PROVE  AnswersAreLater'
    <3>1. ASSUME NEW p \in Polls
          PROVE  /\ poll'[p].before <= made
                 /\ poll'[p].answer = -1 \/ poll'[p].before <= poll'[p].answer
                 /\ poll'[p].answer <= made
      <4>1. CASE poll'[p] = poll[p]
        BY <4>1 DEF AnswersAreLater
      <4>2. CASE poll'[p] = Free
        BY <2>0, <4>2 DEF Free
      <4>3. CASE poll'[p] \in {Asked("kernel"), Asked("receipts")}
        BY <2>0, <4>3 DEF Asked, AnswersAreLater
      <4>4. QED
        BY <2>2, <4>1, <4>2, <4>3
    <3>2. QED
      BY <2>2, <3>1 DEF AnswersAreLater
  <2>3. PollBoth \/ PollKernel =>
          \A p \in Polls : poll'[p] \in {poll[p], Free, Asked("kernel"), Asked("receipts")}
    BY <2>0 DEF PollBoth, PollKernel
  <2>4. CASE ConnectClusterBridge
    BY <2>2, <2>3, <2>4 DEF ConnectClusterBridge
  <2>5. CASE StreamFails
    BY <2>2, <2>3, <2>5 DEF StreamFails
  <2>6. CASE \E t \in {"soft", "hard"} : TimerFires(t)
    BY <2>2, <2>3, <2>6 DEF TimerFires
  <2>7. CASE Subscribe \/ Arrive \/ DisconnectClusterBridge \/ UNCHANGED feedVars
    BY <2>2, <2>7 DEF Subscribe, Arrive, DisconnectClusterBridge, feedVars
  <2>8. ASSUME NEW p \in Polls, AnswerPoll(p) PROVE AnswersAreLater'
    <3>1. poll' = [poll EXCEPT ![p].answer = made] /\ UNCHANGED <<made, status>>
      BY <2>8 DEF AnswerPoll
    <3>2. poll'[p].answer = made /\ poll'[p].before = poll[p].before
      <4>1. poll[p] \in PollInFlight
        BY <2>0
      <4>2. QED
        BY <2>0, <3>1, <4>1 DEF PollInFlight
    <3>3. \A q \in Polls : q # p => poll'[q] = poll[q]
      BY <2>0, <3>1
    <3>4. QED
      BY <2>0, <3>1, <3>2, <3>3 DEF AnswersAreLater
  <2>9. ASSUME NEW p \in Polls, PollLands(p) PROVE AnswersAreLater'
    <3>1. \A q \in Polls : poll'[q] = poll[q] \/ poll'[q] = Free
      BY <2>0, <2>9 DEF PollLands
    <3>2. made' = made
      BY <2>9 DEF PollLands
    <3>3. \A q \in Polls : /\ poll'[q].before <= made'
                           /\ poll'[q].answer = -1 \/ poll'[q].before <= poll'[q].answer
                           /\ poll'[q].answer <= made'
      BY <2>0, <3>1, <3>2 DEF AnswersAreLater, Free
    <3>4. status' <= made'
      <4>1. CASE poll[p].of = "kernel"
        BY <2>0, <2>9, <3>2, <4>1 DEF PollLands, AnswersAreLater
      <4>2. CASE poll[p].of # "kernel"
        BY <2>9, <3>2, <4>2 DEF PollLands, AnswersAreLater
      <4>3. QED
        BY <4>1, <4>2
    <3>5. QED
      BY ONLY <3>3, <3>4 DEF AnswersAreLater
  <2>10. ASSUME NEW p \in Polls, PollFails(p) PROVE AnswersAreLater'
    BY <2>0, <2>2, <2>10 DEF PollFails
  <2>11. QED
    BY <2>1, <2>4, <2>5, <2>6, <2>7, <2>8, <2>9, <2>10 DEF FeedNext
<1>3. FeedTypeOK /\ AnswersAreLater /\ [FeedNext]_feedVars =>
        (status' < status =>
           \E p \in Polls : poll[p].of = "kernel" /\ poll[p].answer = status' /\ poll[p].before < status)
  <2> SUFFICES ASSUME FeedTypeOK, AnswersAreLater, [FeedNext]_feedVars, status' < status
               PROVE  \E p \in Polls :
                        poll[p].of = "kernel" /\ poll[p].answer = status' /\ poll[p].before < status
    OBVIOUS
  <2>0. /\ status \in Nat
        /\ \A p \in Polls : poll[p].answer \in Int /\ poll[p].before \in Nat
    BY DEF FeedTypeOK, PollInFlight
  <2>1. status' # status
    BY <2>0
  <2>2. PICK p \in Polls : PollLands(p)
    BY <2>1 DEF FeedNext, feedVars, RecordForFeed, ConnectClusterBridge, Subscribe, Arrive,
                StreamFails, DisconnectClusterBridge, TimerFires, AnswerPoll, PollFails
  <2>3. poll[p].of = "kernel" /\ status' = poll[p].answer /\ poll[p].answer >= 0
    BY <2>1, <2>2 DEF PollLands
  <2>4. poll[p].before < status
    BY <2>0, <2>3 DEF AnswersAreLater
  <2>5. QED
    BY <2>3, <2>4
<1>4. QED
  BY <1>1, <1>2, <1>3, FeedTypeCorrect, PTL DEF FeedSpec, StatusGoesBackIfOvertaken

----------------------------------------------------------------------------
(* Identity keys. *)

\* What is registered was registered after the master key.
IdentityInv ==
  /\ IdentityTypeOK
  /\ FirstUseCostsOne
  /\ keys # {} => master

LEMMA IdentityInvariant == IdentitySpec => []IdentityInv
<1> USE DEF IdentityInv, IdentityTypeOK, FirstUseCostsOne
<1>1. IdentityInit => IdentityInv
  <2> SUFFICES ASSUME IdentityInit PROVE IdentityInv
    OBVIOUS
  <2>1. holds \in [GraphIds -> SUBSET Encrypted]
    BY DEF IdentityInit
  <2>2. token \in [TokenIds -> {"absent", "fresh", "used", "expired"}]
    BY DEF IdentityInit
  <2>3. envelope \in [Envelopes -> {"absent", "expired"} \cup Secret]
    BY DEF IdentityInit
  <2>4. FirstUseCostsOne /\ (keys # {} => master)
    BY DEF IdentityInit
  <2>5. master \in BOOLEAN /\ keys \subseteq KeyIds /\ graphs \subseteq GraphIds /\ spoiled \in Nat
    BY DEF IdentityInit
  <2>6. QED
    BY <2>1, <2>2, <2>3, <2>4, <2>5
<1>2. IdentityInv /\ [IdentityNext]_identityVars => IdentityInv'
  <2> SUFFICES ASSUME IdentityInv, [IdentityNext]_identityVars PROVE IdentityInv'
    OBVIOUS
  <2>1. CASE InitializeIGEM
    BY <2>1 DEF InitializeIGEM, GetMasterKey
  <2>2. ASSUME NEW k \in KeyIds, CreateIdentityKey(k) PROVE IdentityInv'
    BY <2>2 DEF CreateIdentityKey, GetMasterKey
  <2>3. ASSUME NEW g \in GraphIds, CreateIdentityGraph(g) PROVE IdentityInv'
    BY <2>3 DEF CreateIdentityGraph
  <2>4. ASSUME NEW g \in GraphIds, NEW k \in KeyIds, AddToGraph(g, k) PROVE IdentityInv'
    <3>1. MasterKey = "derived" /\ k \in keys
      BY <2>4 DEF AddToGraph, MasterKey
    <3>2. [key |-> k, under |-> "derived"] \in Encrypted
      BY DEF Encrypted, Secret
    <3>3. holds' = [holds EXCEPT ![g] = @ \cup {[key |-> k, under |-> "derived"]}]
          /\ UNCHANGED <<keys, graphs, token, envelope, spoiled>> /\ master'
      BY <2>4, <3>1 DEF AddToGraph, GetMasterKey
    <3>4. holds' \in [GraphIds -> SUBSET Encrypted]
      BY <3>2, <3>3
    <3>5. ASSUME NEW h \in graphs, NEW x \in holds'[h] PROVE x.under = "derived" /\ x.key \in keys
      <4>1. h \in GraphIds /\ (x \in holds[h] \/ x = [key |-> k, under |-> "derived"])
        BY <3>3, <3>5
      <4>2. QED
        BY <3>1, <4>1
    <3>6. QED
      BY <3>3, <3>4, <3>5
  <2>5. ASSUME NEW t \in TokenIds, NEW g \in GraphIds, IssueTraversalToken(t, g) PROVE IdentityInv'
    BY <2>5 DEF IssueTraversalToken, GetMasterKey
  <2>6. ASSUME NEW t \in TokenIds, ValidateTraversalToken(t) PROVE IdentityInv'
    BY <2>6 DEF ValidateTraversalToken
  <2>7. ASSUME NEW e \in Envelopes, CreateFederatedTransmission(e) PROVE IdentityInv'
    BY <2>7 DEF CreateFederatedTransmission, GetMasterKey, MasterKey, Secret
  <2>8. ASSUME NEW e \in Envelopes, ReceiveFederatedTransmission(e) PROVE IdentityInv'
    BY <2>8 DEF ReceiveFederatedTransmission, GetMasterKey, MasterKey
  <2>9. CASE HourEnds
    BY <2>9 DEF HourEnds
  <2>10. CASE ResetIGEM
    <3>1. holds' \in [GraphIds -> SUBSET Encrypted]
      BY <2>10 DEF ResetIGEM
    <3>2. token' \in [TokenIds -> {"absent", "fresh", "used", "expired"}]
      BY <2>10 DEF ResetIGEM
    <3>3. FirstUseCostsOne' /\ (keys' # {} => master')
      BY <2>10 DEF ResetIGEM
    <3>4. /\ master' \in BOOLEAN /\ keys' \subseteq KeyIds /\ graphs' \subseteq GraphIds
          /\ spoiled' \in Nat /\ envelope' \in [Envelopes -> {"absent", "expired"} \cup Secret]
      BY <2>10 DEF ResetIGEM
    <3>5. QED
      BY <3>1, <3>2, <3>3, <3>4
  <2>11. CASE UNCHANGED identityVars
    BY <2>11 DEF identityVars
  <2>12. QED
    BY <2>1, <2>2, <2>3, <2>4, <2>5, <2>6, <2>7, <2>8, <2>9, <2>10, <2>11 DEF IdentityNext
<1>3. QED
  BY <1>1, <1>2, PTL DEF IdentitySpec

\* The registry of keys stays within its types, for any number of keys, graphs,
\* tokens and transmissions.
THEOREM IdentityTypeCorrect == IdentitySpec => []IdentityTypeOK
<1>1. IdentityInv => IdentityTypeOK
  BY DEF IdentityInv
<1>2. QED
  BY <1>1, IdentityInvariant, PTL

\* The random first key costs each life of a process one transmission at most,
\* and no graph anything.
THEOREM FirstUsesAreCheap == IdentitySpec => []FirstUseCostsOne
<1>1. IdentityInv => FirstUseCostsOne
  BY DEF IdentityInv
<1>2. QED
  BY <1>1, IdentityInvariant, PTL

----------------------------------------------------------------------------
(* Epochs. *)

EpochInv == EpochTypeOK /\ HistoryLeadsHere

\* The history leads from the first epoch to the current one, and every key is of
\* the current one, for any number of keys and alerts.
THEOREM EpochsFollowEachOther == EpochSpec => [](EpochTypeOK /\ HistoryLeadsHere)
<1> USE DEF EpochInv, EpochTypeOK, HistoryLeadsHere, Epochs, LastEpoch, RegisteredKeys
<1>1. EpochInit => EpochInv
  BY DEF EpochInit
<1>2. EpochInv /\ [EpochNext]_epochVars => EpochInv'
  <2> SUFFICES ASSUME EpochInv, [EpochNext]_epochVars PROVE EpochInv'
    OBVIOUS
  <2>1. ASSUME NEW k \in EpochKeyIds, GenerateKeyRecord(k) PROVE EpochInv'
    BY <2>1 DEF GenerateKeyRecord
  <2>2. CASE AdvanceEpoch
    <3>1. epoch < 2 /\ epoch' = epoch + 1 /\ history' = Append(history, <<epoch, epoch + 1>>)
          /\ UNCHANGED alerts
          /\ keyEpoch' = [k \in EpochKeyIds |-> IF k \in RegisteredKeys THEN epoch + 1 ELSE -1]
      BY <2>2 DEF AdvanceEpoch, Advanced, MayAdvance
    <3>2. epoch' \in 0..2 /\ <<epoch, epoch + 1>> \in Epochs \X Epochs
      BY <3>1
    <3>3. history' \in Seq(Epochs \X Epochs) /\ Len(history') = epoch'
      BY <3>1, <3>2
    <3>4. ASSUME NEW i \in DOMAIN history' PROVE history'[i] = <<i - 1, i>>
      <4>1. CASE i = Len(history) + 1
        BY <3>1, <4>1
      <4>2. CASE i \in DOMAIN history
        BY <3>1, <4>2
      <4>3. QED
        BY <3>1, <3>3, <4>1, <4>2
    <3>5. keyEpoch' \in [EpochKeyIds -> {-1} \cup Epochs]
      BY <3>1
    <3>6. \A k \in EpochKeyIds : keyEpoch'[k] >= 0 => keyEpoch'[k] = epoch'
      BY <3>1
    <3>7. QED
      BY <3>1, <3>2, <3>3, <3>4, <3>5, <3>6
  <2>3. ASSUME NEW w \in BOOLEAN, EmitQuantumThreatAlert(w) PROVE EpochInv'
    <3>1. Append(alerts, w) \in Seq(BOOLEAN)
      OBVIOUS
    <3>2. QED
      BY <2>3, <3>1 DEF EmitQuantumThreatAlert
  <2>4. ASSUME NEW i \in DOMAIN alerts, CountersignQuantumThreatAlert(i) PROVE EpochInv'
    <3>1. [alerts EXCEPT ![i] = TRUE] \in Seq(BOOLEAN)
      OBVIOUS
    <3>2. QED
      BY <2>4, <3>1 DEF CountersignQuantumThreatAlert
  <2>5. CASE ResetQIGEM
    BY <2>5 DEF ResetQIGEM
  <2>6. CASE UNCHANGED epochVars
    BY <2>6 DEF epochVars
  <2>7. QED
    BY <2>1, <2>2, <2>3, <2>4, <2>5, <2>6 DEF EpochNext
<1>3. EpochInv => EpochTypeOK /\ HistoryLeadsHere
  BY DEF EpochInv
<1>4. QED
  BY <1>1, <1>2, <1>3, PTL DEF EpochSpec

----------------------------------------------------------------------------
(* The screen of threats. *)

\* More matches never make a milder judgement: what is added to an input cannot
\* get it past the screen.
THEOREM MoreThreatsAreNeverMilder ==
  ASSUME NEW found \in SUBSET Threats, NEW more \in SUBSET Threats, found \subseteq more
  PROVE  Severity[Judged(found)] <= Severity[Judged(more)]
<1>1. \A t \in Threats : /\ Adds(t, found) \in Nat
                        /\ Adds(t, more) \in Nat
                        /\ Adds(t, found) <= Adds(t, more)
  BY DEF Adds, Threats, ClassWeight, FlagWeight
<1>2. Total(found) \in Nat /\ Total(more) \in Nat /\ Total(found) <= Total(more)
  BY <1>1 DEF Total, Threats
<1>3. /\ ThreatScore(found) \in Nat /\ ThreatScore(more) \in Nat
      /\ ThreatScore(found) <= ThreatScore(more)
  BY <1>2 DEF ThreatScore
<1>4. QED
  BY <1>3 DEF Judged, Disposition, Severity

\* What passes matches nothing, or shadow instructions and nothing else.
THEOREM OnlyShadowsPass ==
  ASSUME NEW found \in SUBSET Threats
  PROVE  Judged(found) = "PASS" <=> found \subseteq {"SHADOW_INSTRUCTION"}
<1>1. \A t \in Threats : Adds(t, found) \in Nat
  BY DEF Adds, Threats, ClassWeight, FlagWeight
<1>2. ASSUME NEW t \in found, t # "SHADOW_INSTRUCTION" PROVE Adds(t, found) >= 30
  BY <1>2 DEF Adds, Threats, ClassWeight, FlagWeight
<1>3. ASSUME NEW t \in found, t # "SHADOW_INSTRUCTION" PROVE Total(found) >= 30
  BY <1>1, <1>2, <1>3 DEF Total, Threats
<1>4. ASSUME found \subseteq {"SHADOW_INSTRUCTION"} PROVE Total(found) <= 20
  BY <1>4 DEF Total, Adds, ClassWeight, FlagWeight
<1>5. Total(found) \in Nat
  BY <1>1 DEF Total, Threats
<1>6. QED
  BY <1>3, <1>4, <1>5 DEF Judged, Disposition, ThreatScore

\* No agent has more reports than the capacity, however many actions it takes.
THEOREM LedgersAreBounded == ScreenSpec => []ScreenTypeOK
<1>1. ScreenInit => ScreenTypeOK
  BY ScreenAssumption DEF ScreenAssumption, ScreenInit, ScreenTypeOK
<1>2. ScreenTypeOK /\ [ScreenNext]_threatLedger => ScreenTypeOK'
  <2> SUFFICES ASSUME ScreenTypeOK, [ScreenNext]_threatLedger PROVE ScreenTypeOK'
    OBVIOUS
  <2> USE ScreenAssumption DEF ScreenAssumption, ScreenTypeOK
  <2>1. ASSUME NEW a \in Screened, NEW found \in SUBSET Threats, ApidMiddleware(a, found)
        PROVE  ScreenTypeOK'
    <3> DEFINE r == [found |-> found, disposition |-> Judged(found)]
    <3>1. r \in ThreatReport
      BY DEF ThreatReport, Judged, Disposition, Dispositions
    <3>2. Append(threatLedger[a], r) \in Seq(ThreatReport)
          /\ Len(Append(threatLedger[a], r)) = Len(threatLedger[a]) + 1
      BY <3>1
    <3>3. Kept(Append(threatLedger[a], r)) \in Seq(ThreatReport)
          /\ Len(Kept(Append(threatLedger[a], r))) <= Capacity
      BY <3>2 DEF Kept
    <3>4. threatLedger' = [threatLedger EXCEPT ![a] = Kept(Append(threatLedger[a], r))]
      BY <2>1 DEF ApidMiddleware
    <3>5. QED
      BY <3>3, <3>4
  <2>2. ASSUME NEW agents, ClearThreatLedger(agents) PROVE ScreenTypeOK'
    BY <2>2 DEF ClearThreatLedger
  <2>3. CASE UNCHANGED threatLedger
    BY <2>3
  <2>4. QED
    BY <2>1, <2>2, <2>3 DEF ScreenNext
<1>3. QED
  BY <1>1, <1>2, PTL DEF ScreenSpec

----------------------------------------------------------------------------
(* States of health. *)

LEMMA RemediationTyped == \A b, c : Remediation(b, c) \in Report
BY DEF Remediation, Report, Remedies

\* There is at least one part, and what is counted in parts keeps its order.
LEMMA PartsCount ==
  /\ Parts \in Nat \ {0}
  /\ \A x, y \in Nat : x <= y => Parts * x <= Parts * y
<1>1. Parts \in Nat \ {0}
  BY HealthAssumption, FS_CardinalityType, FS_EmptySet DEF HealthAssumption, Parts
<1>2. \A p, x, y \in Nat : x <= y => p * x <= p * y
  OBVIOUS
<1>3. QED
  BY <1>1, <1>2

\* What triggered mode evaluates, a baseline against itself, differs in nothing:
\* it finds no poisoning, unless the baseline was corrupt when it was registered.
THEOREM TriggeredModeIsBlind ==
  ASSUME NEW s \in ExecutionStates, ~Corrupted(s)
  PROVE  Remediation(s, s) = "NONE"
<1>1. s \in ExecutionState
  BY HealthAssumption DEF HealthAssumption
<1>2. WeightDrift(s, s) = 0 /\ Gap(s.consensus, s.consensus) = 0
  BY <1>1 DEF WeightDrift, Gap, ExecutionState
<1>3. ConstraintErosion(s, s) = 0
  <2>1. s.kept \ s.kept = {}
    OBVIOUS
  <2>2. Cardinality(s.kept \ s.kept) = 0
    BY <2>1, FS_EmptySet
  <2>3. QED
    BY <2>2 DEF ConstraintErosion, Share
<1>4. Deviation7(s, s) = 0
  <2>1. PlainDeviation(s, s) = 0
    BY <1>2 DEF PlainDeviation, Differs
  <2>2. QED
    BY <1>3, <2>1, PartsCount DEF Deviation7
<1>5. Vectors(s, s) = {}
  <2>1. ~(WeightDrift(s, s) > 15) /\ ~(ConstraintErosion(s, s) > 10 * Parts)
    BY <1>2, <1>3, PartsCount
  <2>2. ASSUME NEW v \in DOMAIN Detected(s, s) PROVE ~Detected(s, s)[v]
    <3>1. v \in {"WEIGHT_DRIFT", "CONTEXT_CONTAMINATION", "CONSTRAINT_EROSION",
                 "IDENTITY_SUBSTITUTION", "TEMPORAL_ANCHOR_LOSS", "FEDERATION_BLEED",
                 "REPLAY_CORRUPTION", "CONSENSUS_DRIFT"}
      BY <2>2 DEF Detected
    <3>2. CASE v = "WEIGHT_DRIFT"
      BY <2>1, <3>2 DEF Detected
    <3>3. CASE v = "CONSTRAINT_EROSION"
      BY <2>1, <3>3 DEF Detected
    <3>4. CASE v \in {"CONTEXT_CONTAMINATION", "IDENTITY_SUBSTITUTION", "TEMPORAL_ANCHOR_LOSS",
                      "FEDERATION_BLEED", "CONSENSUS_DRIFT"}
      <4>1. CASE v = "CONTEXT_CONTAMINATION"
        BY <4>1 DEF Detected
      <4>2. CASE v = "IDENTITY_SUBSTITUTION"
        BY <4>2 DEF Detected
      <4>3. CASE v = "TEMPORAL_ANCHOR_LOSS"
        BY <4>3 DEF Detected
      <4>4. CASE v = "FEDERATION_BLEED"
        BY <4>4 DEF Detected
      <4>5. CASE v = "CONSENSUS_DRIFT"
        BY <4>5 DEF Detected
      <4>6. QED
        BY <3>4, <4>1, <4>2, <4>3, <4>4, <4>5
    <3>5. CASE v = "REPLAY_CORRUPTION"
      BY <3>5 DEF Detected
    <3>6. QED
      BY <3>1, <3>2, <3>3, <3>4, <3>5
  <2>3. QED
    BY <2>2 DEF Vectors
<1>6. Cardinality(Vectors(s, s)) = 0
  BY <1>5, FS_EmptySet
<1>7. QED
  BY <1>4, <1>6, PartsCount DEF Remediation

\* The vectors are finitely many, and each is found on its condition alone.
LEMMA VectorsFound ==
  ASSUME NEW b, NEW c
  PROVE  /\ Cardinality(Vectors(b, c)) \in Nat
         /\ Cardinality(Vectors(b, c)) = 0 <=> Vectors(b, c) = {}
         /\ Vectors(b, c) = {} => /\ ~(WeightDrift(b, c) > 15)
                                  /\ ~(ConstraintErosion(b, c) > 10 * Parts)
                                  /\ b.context = c.context /\ b.persona = c.persona
                                  /\ b.causal = c.causal /\ b.consensus = c.consensus
                                  /\ 0 \in {b.federation, c.federation}
                                     \/ b.federation = c.federation
<1> DEFINE Names == {"WEIGHT_DRIFT", "CONTEXT_CONTAMINATION", "CONSTRAINT_EROSION",
                     "IDENTITY_SUBSTITUTION", "TEMPORAL_ANCHOR_LOSS", "FEDERATION_BLEED",
                     "REPLAY_CORRUPTION", "CONSENSUS_DRIFT"}
<1>1. Vectors(b, c) \subseteq Names
  BY DEF Vectors, Detected
<1>2. IsFiniteSet(Names)
  <2>1. ASSUME NEW S, IsFiniteSet(S), NEW x
        PROVE  IsFiniteSet(S \cup {x})
    BY <2>1, FS_AddElement
  <2> DEFINE Three == {"WEIGHT_DRIFT"} \cup {"CONTEXT_CONTAMINATION"} \cup {"CONSTRAINT_EROSION"}
             Six == Three \cup {"IDENTITY_SUBSTITUTION"} \cup {"TEMPORAL_ANCHOR_LOSS"}
                          \cup {"FEDERATION_BLEED"}
             All == Six \cup {"REPLAY_CORRUPTION"} \cup {"CONSENSUS_DRIFT"}
  <2>2. IsFiniteSet(Three)
    BY <2>1, FS_Singleton
  <2> HIDE DEF Three
  <2>3. IsFiniteSet(Six)
    BY <2>1, <2>2
  <2> HIDE DEF Six
  <2>4. IsFiniteSet(All)
    BY <2>1, <2>3
  <2>5. Names = All
    BY DEF Three, Six
  <2>6. QED
    BY <2>4, <2>5
<1>3. IsFiniteSet(Vectors(b, c))
  BY <1>1, <1>2, FS_Subset
<1>4. ASSUME Vectors(b, c) = {}
      PROVE  /\ ~(WeightDrift(b, c) > 15) /\ ~(ConstraintErosion(b, c) > 10 * Parts)
             /\ b.context = c.context /\ b.persona = c.persona
             /\ b.causal = c.causal /\ b.consensus = c.consensus
             /\ 0 \in {b.federation, c.federation} \/ b.federation = c.federation
  <2>1. ASSUME NEW v \in DOMAIN Detected(b, c)
        PROVE  ~Detected(b, c)[v]
    BY <1>4 DEF Vectors
  <2>2. ~(WeightDrift(b, c) > 15)
    <3>1. ~Detected(b, c)["WEIGHT_DRIFT"]
      BY <2>1 DEF Detected
    <3>2. QED
      BY <3>1 DEF Detected
  <2>3. ~(ConstraintErosion(b, c) > 10 * Parts)
    <3>1. ~Detected(b, c)["CONSTRAINT_EROSION"]
      BY <2>1 DEF Detected
    <3>2. QED
      BY <3>1 DEF Detected
  <2>4. b.context = c.context
    <3>1. ~Detected(b, c)["CONTEXT_CONTAMINATION"]
      BY <2>1 DEF Detected
    <3>2. QED
      BY <3>1 DEF Detected
  <2>5. b.persona = c.persona
    <3>1. ~Detected(b, c)["IDENTITY_SUBSTITUTION"]
      BY <2>1 DEF Detected
    <3>2. QED
      BY <3>1 DEF Detected
  <2>6. b.causal = c.causal
    <3>1. ~Detected(b, c)["TEMPORAL_ANCHOR_LOSS"]
      BY <2>1 DEF Detected
    <3>2. QED
      BY <3>1 DEF Detected
  <2>7. b.consensus = c.consensus
    <3>1. ~Detected(b, c)["CONSENSUS_DRIFT"]
      BY <2>1 DEF Detected
    <3>2. QED
      BY <3>1 DEF Detected
  <2>8. 0 \in {b.federation, c.federation} \/ b.federation = c.federation
    <3>1. ~Detected(b, c)["FEDERATION_BLEED"]
      BY <2>1 DEF Detected
    <3>2. QED
      BY <3>1 DEF Detected
  <2>9. QED
    BY <2>2, <2>3, <2>4, <2>5, <2>6, <2>7, <2>8
<1>5. Cardinality(Vectors(b, c)) \in Nat /\ (Cardinality(Vectors(b, c)) = 0 <=> Vectors(b, c) = {})
  BY <1>3, FS_CardinalityType, FS_EmptySet
<1>6. QED
  BY <1>4, <1>5

\* The share of the constraints that are gone is counted in hundredths.
LEMMA ErosionTyped ==
  ASSUME NEW b \in ExecutionStates, NEW c \in ExecutionStates
  PROVE  ConstraintErosion(b, c) \in Nat
<1>1. b.kept \ c.kept \subseteq Constraints
  BY HealthAssumption DEF HealthAssumption, ExecutionState
<1>2. IsFiniteSet(Constraints) /\ IsFiniteSet(b.kept \ c.kept)
  BY <1>1, HealthAssumption, FS_Subset DEF HealthAssumption
<1>3. Cardinality(b.kept \ c.kept) \in Nat
  BY <1>2, FS_CardinalityType
<1>4. QED
  BY <1>3 DEF ConstraintErosion, Share

\* Of all that the deviation from a baseline sums up, only one thing can count
\* that is no vector of its own: that the kernel joined or left a federation.
\* A state is healthy when it has no vector and its federation is the same;
\* CIEMS is asked only about a federation that was joined or left; and any
\* vector costs at least a rollback.
THEOREM OnlyFederationEscalates ==
  ASSUME NEW b \in ExecutionStates, NEW c \in ExecutionStates
  PROVE  /\ Remediation(b, c) = "NONE" <=> Vectors(b, c) = {} /\ b.federation = c.federation
         /\ Remediation(b, c) = "ESCALATE_TO_CIEMS" =>
              /\ Vectors(b, c) = {}
              /\ b.federation # c.federation /\ 0 \in {b.federation, c.federation}
         /\ Vectors(b, c) # {} => Remediation(b, c) \in {"ROLLBACK", "ISOLATE", "HARD_RESET"}
<1>1. b \in ExecutionState /\ c \in ExecutionState
  BY HealthAssumption DEF HealthAssumption
<1>2. WeightDrift(b, c) \in Nat /\ Gap(b.consensus, c.consensus) \in Nat
  <2>1. /\ b.weight \in 0..100 /\ c.weight \in 0..100
        /\ b.consensus \in 0..100 /\ c.consensus \in 0..100
    BY <1>1 DEF ExecutionState
  <2>2. \A x, y \in 0..100 : Gap(x, y) \in Nat
    BY DEF Gap
  <2>3. QED
    BY <2>1, <2>2 DEF WeightDrift
<1>3. /\ Vectors(b, c) = {} /\ b.federation = c.federation => Deviation7(b, c) < 35 * Parts
      /\ Vectors(b, c) = {} /\ b.federation # c.federation => Deviation7(b, c) >= 100 * Parts
  <2> SUFFICES ASSUME Vectors(b, c) = {}
               PROVE  /\ b.federation = c.federation => Deviation7(b, c) < 35 * Parts
                      /\ b.federation # c.federation => Deviation7(b, c) >= 100 * Parts
    OBVIOUS
  <2>1. /\ WeightDrift(b, c) \in 0..15
        /\ ConstraintErosion(b, c) \in Nat /\ ConstraintErosion(b, c) <= 10 * Parts
        /\ b.context = c.context /\ b.persona = c.persona
        /\ b.causal = c.causal /\ b.consensus = c.consensus
    BY <1>2, ErosionTyped, VectorsFound, PartsCount
  <2>2. Gap(b.consensus, c.consensus) = 0
    BY <1>1, <2>1 DEF Gap, ExecutionState
  <2>3. /\ PlainDeviation(b, c) \in Nat
        /\ b.federation = c.federation => PlainDeviation(b, c) <= 15
        /\ b.federation # c.federation => PlainDeviation(b, c) >= 100
    BY <2>1, <2>2 DEF PlainDeviation, Differs
  <2>4. /\ Parts * PlainDeviation(b, c) \in Nat
        /\ b.federation = c.federation => Parts * PlainDeviation(b, c) <= Parts * 15
        /\ b.federation # c.federation => Parts * PlainDeviation(b, c) >= Parts * 100
    BY <2>3, PartsCount
  <2> DEFINE plain == Parts * PlainDeviation(b, c)
  <2>5. Deviation7(b, c) = plain + ConstraintErosion(b, c)
    BY DEF Deviation7
  <2> HIDE DEF plain
  <2>6. /\ plain \in Nat
        /\ b.federation = c.federation => plain <= 15 * Parts
        /\ b.federation # c.federation => plain >= 100 * Parts
    BY <2>4, PartsCount DEF plain
  <2>7. QED
    BY <2>1, <2>5, <2>6, PartsCount
<1>4. Deviation7(b, c) \in Nat
  <2>1. PlainDeviation(b, c) \in Nat
    BY <1>2 DEF PlainDeviation, Differs
  <2>2. QED
    BY <2>1, ErosionTyped, PartsCount DEF Deviation7
<1>5. Cardinality(Vectors(b, c)) \in Nat /\ (Cardinality(Vectors(b, c)) = 0 <=> Vectors(b, c) = {})
  BY VectorsFound
<1>6. Remediation(b, c) = "NONE" <=> Vectors(b, c) = {} /\ b.federation = c.federation
  BY <1>3, <1>4, <1>5, PartsCount DEF Remediation
<1>7. Vectors(b, c) # {} => Remediation(b, c) \in {"ROLLBACK", "ISOLATE", "HARD_RESET"}
  BY <1>5 DEF Remediation
<1>8. ASSUME Remediation(b, c) = "ESCALATE_TO_CIEMS"
      PROVE  /\ Vectors(b, c) = {}
             /\ b.federation # c.federation /\ 0 \in {b.federation, c.federation}
  <2>1. Vectors(b, c) = {}
    BY <1>7, <1>8
  <2>2. b.federation # c.federation
    BY <1>6, <1>8, <2>1
  <2>3. QED
    BY <2>1, <2>2, VectorsFound
<1>9. QED
  BY <1>6, <1>7, <1>8

LEMMA WholeSequence ==
  ASSUME NEW S, NEW q \in Seq(S)
  PROVE  SubSeq(q, 1, Len(q)) = q
OBVIOUS

LEMMA HealthTypes == HealthSpec => []HealthTypeOK
<1>1. HealthInit => HealthTypeOK
  <2> SUFFICES ASSUME HealthInit PROVE HealthTypeOK
    OBVIOUS
  <2>1. reports \in [Kernels -> Seq(Report)] /\ chains \in Seq(Chain)
    BY DEF HealthInit
  <2>2. baseline \in [Kernels -> ExecutionStates \cup {NoBaseline}]
    BY DEF HealthInit
  <2>3. QED
    BY <2>1, <2>2 DEF HealthTypeOK
<1>2. HealthTypeOK /\ [HealthNext]_healthVars => HealthTypeOK'
  <2> SUFFICES ASSUME HealthTypeOK, [HealthNext]_healthVars PROVE HealthTypeOK'
    OBVIOUS
  <2> USE DEF HealthTypeOK
  <2>1. ASSUME NEW k \in Kernels, NEW s \in ExecutionStates, RegisterBaseline(k, s)
        PROVE  HealthTypeOK'
    BY <2>1 DEF RegisterBaseline
  <2>2. ASSUME NEW k \in Kernels, NEW s \in ExecutionStates \cup {NoBaseline},
               baseline[k] # NoBaseline, EvaluateState(k, s)
        PROVE  HealthTypeOK'
    <3> DEFINE r == Remediation(baseline[k], s)
    <3>1. /\ reports' = [reports EXCEPT ![k] = Append(@, r)]
          /\ chains' = IF r = "NONE" THEN chains ELSE Append(chains, Remedied(k, r))
          /\ UNCHANGED baseline
      BY <2>2 DEF EvaluateState
    <3>2. r \in Report /\ Append(reports[k], r) \in Seq(Report)
      BY RemediationTyped
    <3> HIDE DEF r
    <3>3. r # "NONE" => Remedied(k, r) \in Chain
      BY <3>2 DEF Remedied, Chain, Report
    <3>4. chains' \in Seq(Chain)
      BY <3>1, <3>3
    <3>5. reports' \in [Kernels -> Seq(Report)]
      BY <3>1, <3>2
    <3>6. QED
      BY <3>1, <3>4, <3>5
  <2>3. ASSUME NEW k \in Kernels, NEW s \in ExecutionStates, EvaluateState(k, s)
        PROVE  HealthTypeOK'
    <3>1. CASE baseline[k] = NoBaseline
      BY <2>1, <2>3, <3>1 DEF EvaluateState
    <3>2. CASE baseline[k] # NoBaseline
      BY <2>2, <2>3, <3>2
    <3>3. QED
      BY <3>1, <3>2
  <2>4. ASSUME NEW k \in Kernels, ActivateTriggeredMode(k) PROVE HealthTypeOK'
    BY <2>2, <2>4 DEF ActivateTriggeredMode
  <2>5. CASE ClearRPDS
    <3>1. /\ baseline' \in [Kernels -> ExecutionStates \cup {NoBaseline}]
          /\ reports' \in [Kernels -> Seq(Report)]
          /\ chains' \in Seq(Chain)
      BY <2>5 DEF ClearRPDS
    <3>2. QED
      BY <3>1
  <2>6. CASE UNCHANGED healthVars
    BY <2>6 DEF healthVars
  <2>7. QED
    BY <2>1, <2>3, <2>4, <2>5, <2>6 DEF HealthNext
<1>3. QED
  BY <1>1, <1>2, PTL DEF HealthSpec

\* The alarm at i of a kernel has a chain, and the chain at j has an alarm.
HasChain(k, i) == \E j \in DOMAIN chains : chains[j].kernel = k /\ chains[j].signed = UpTo(k, i)
HasAlarm(j) ==
  \E i \in DOMAIN reports[chains[j].kernel] :
    /\ chains[j].signed = UpTo(chains[j].kernel, i)
    /\ chains[j].action = reports[chains[j].kernel][i]

\* The signatures are about the reports up to an alarm, and every alarm has one,
\* for any kernels, constraints and states.
THEOREM AlarmsStaySigned == HealthSpec => []AlarmsAreSigned
<1>1. HealthInit => AlarmsAreSigned
  BY DEF HealthInit, AlarmsAreSigned
<1>2. HealthTypeOK /\ AlarmsAreSigned /\ [HealthNext]_healthVars => AlarmsAreSigned'
  <2> SUFFICES ASSUME HealthTypeOK, AlarmsAreSigned, [HealthNext]_healthVars
               PROVE  AlarmsAreSigned'
    OBVIOUS
  <2>1. CASE UNCHANGED <<reports, chains>>
    BY <2>1 DEF AlarmsAreSigned, UpTo
  <2>2. ASSUME NEW k \in Kernels, NEW r \in Report,
               reports' = [reports EXCEPT ![k] = Append(@, r)],
               chains' = IF r = "NONE" THEN chains ELSE Append(chains, Remedied(k, r))
        PROVE  AlarmsAreSigned'
    <3>1. reports \in [Kernels -> Seq(Report)] /\ chains \in Seq(Chain)
      BY DEF HealthTypeOK
    <3>2. reports[k] \in Seq(Report) /\ reports'[k] = Append(reports[k], r)
      BY <2>2, <3>1
    <3>3. ASSUME NEW h \in Kernels, NEW i \in DOMAIN reports[h]
          PROVE  /\ i \in DOMAIN reports'[h]
                 /\ reports'[h][i] = reports[h][i]
                 /\ SubSeq(reports'[h], 1, i) = SubSeq(reports[h], 1, i)
      <4>1. CASE h = k
        BY <3>2, <3>3, <4>1
      <4>2. CASE h # k
        BY <2>2, <3>1, <3>3, <4>2
      <4>3. QED
        BY <4>1, <4>2
    <3>4. ASSUME NEW j \in DOMAIN chains PROVE j \in DOMAIN chains' /\ chains'[j] = chains[j]
      BY <2>2, <3>1, <3>4
    <3>5. SubSeq(reports'[k], 1, Len(reports[k]) + 1) = Append(reports[k], r)
      <4>1. reports'[k] \in Seq(Report) /\ Len(reports'[k]) = Len(reports[k]) + 1
        BY <3>2
      <4>2. QED
        BY <3>2, <4>1, WholeSequence
    <3>6. ASSUME r # "NONE"
          PROVE  /\ Len(chains) + 1 \in DOMAIN chains'
                 /\ chains'[Len(chains) + 1] = Remedied(k, r)
      BY <2>2, <3>1, <3>6
    <3>7. ASSUME NEW h \in Kernels, NEW i \in DOMAIN reports'[h], reports'[h][i] # "NONE"
          PROVE  HasChain(h, i)'
      <4>1. CASE i \in DOMAIN reports[h]
        <5>1. HasChain(h, i)
          BY <3>3, <3>7, <4>1 DEF AlarmsAreSigned, HasChain
        <5>2. PICK j \in DOMAIN chains :
                chains[j].kernel = h /\ chains[j].signed = SubSeq(reports[h], 1, i)
          BY <5>1 DEF HasChain, UpTo
        <5>3. j \in DOMAIN chains' /\ chains'[j] = chains[j]
          BY <3>4
        <5>4. chains'[j].kernel = h /\ chains'[j].signed = SubSeq(reports'[h], 1, i)
          BY <3>3, <4>1, <5>2, <5>3
        <5>5. QED
          BY <5>3, <5>4 DEF HasChain, UpTo
      <4>2. CASE i \notin DOMAIN reports[h]
        <5>1. h = k
          BY <2>2, <3>1, <3>7, <4>2
        <5>2. i = Len(reports[k]) + 1 /\ reports'[k][i] = r
          BY <3>2, <3>7, <4>2, <5>1
        <5>3. QED
          <6>1. /\ Len(chains) + 1 \in DOMAIN chains'
                /\ chains'[Len(chains) + 1].kernel = h
                /\ chains'[Len(chains) + 1].signed = SubSeq(reports'[h], 1, i)
            <7>1. r # "NONE"
              BY <3>7, <5>1, <5>2
            <7>2. chains'[Len(chains) + 1] = Remedied(k, r)
              BY <3>6, <7>1
            <7>3. i = Len(reports[k]) + 1
              BY <5>2
            <7>4. Remedied(k, r).kernel = k /\ Remedied(k, r).signed = Append(reports[k], r)
              BY DEF Remedied
            <7>5. QED
              BY <3>5, <3>6, <5>1, <7>1, <7>2, <7>3, <7>4
          <6>2. QED
            BY <6>1 DEF HasChain, UpTo
      <4>3. QED
        BY <4>1, <4>2
    <3>8. ASSUME NEW j \in DOMAIN chains' PROVE HasAlarm(j)'
      <4>1. CASE j \in DOMAIN chains
        <5>1. chains'[j] = chains[j] /\ chains[j].kernel \in Kernels
          <6>1. chains[j] \in Chain
            BY <3>1, <4>1
          <6>2. QED
            BY <3>4, <4>1, <6>1 DEF Chain
        <5>2. HasAlarm(j)
          BY <4>1 DEF AlarmsAreSigned, HasAlarm
        <5>3. PICK i \in DOMAIN reports[chains[j].kernel] :
                /\ chains[j].signed = SubSeq(reports[chains[j].kernel], 1, i)
                /\ chains[j].action = reports[chains[j].kernel][i]
          BY <5>2 DEF HasAlarm, UpTo
        <5> DEFINE h == chains[j].kernel
        <5>5. /\ i \in DOMAIN reports'[h]
              /\ reports'[h][i] = reports[h][i]
              /\ SubSeq(reports'[h], 1, i) = SubSeq(reports[h], 1, i)
          BY <3>3, <5>1, <5>3
        <5>6. /\ i \in DOMAIN reports'[chains'[j].kernel]
              /\ chains'[j].signed = SubSeq(reports'[chains'[j].kernel], 1, i)
              /\ chains'[j].action = reports'[chains'[j].kernel][i]
          BY <5>1, <5>3, <5>5
        <5>7. QED
          BY <5>6 DEF HasAlarm, UpTo
      <4>2. CASE j \notin DOMAIN chains
        <5>1. r # "NONE" /\ j = Len(chains) + 1
          BY <2>2, <3>1, <3>8, <4>2
        <5>2. chains'[j] = Remedied(k, r)
          BY <3>6, <5>1
        <5>3. /\ Len(reports[k]) + 1 \in DOMAIN reports'[k]
              /\ reports'[k][Len(reports[k]) + 1] = r
          BY <3>2
        <5>4. /\ Len(reports[k]) + 1 \in DOMAIN reports'[chains'[j].kernel]
              /\ chains'[j].signed = SubSeq(reports'[chains'[j].kernel], 1, Len(reports[k]) + 1)
              /\ chains'[j].action = reports'[chains'[j].kernel][Len(reports[k]) + 1]
          BY <3>5, <5>2, <5>3 DEF Remedied
        <5>5. QED
          BY <5>4 DEF HasAlarm, UpTo
      <4>3. QED
        BY <4>1, <4>2
    <3>9. QED
      BY <3>7, <3>8 DEF AlarmsAreSigned, HasChain, HasAlarm
  <2>3. ASSUME NEW k \in Kernels, NEW s, EvaluateState(k, s) PROVE AlarmsAreSigned'
    <3>1. CASE baseline[k] = NoBaseline
      BY <2>1, <2>3, <3>1 DEF EvaluateState, RegisterBaseline
    <3>2. CASE baseline[k] # NoBaseline
      BY <2>2, <2>3, <3>2, RemediationTyped DEF EvaluateState
    <3>3. QED
      BY <3>1, <3>2
  <2>4. CASE ClearRPDS
    BY <2>4 DEF ClearRPDS, AlarmsAreSigned
  <2>5. QED
    BY <2>1, <2>3, <2>4 DEF HealthNext, RegisterBaseline, ActivateTriggeredMode, healthVars
<1>3. QED
  BY <1>1, <1>2, HealthTypes, PTL DEF HealthSpec
=============================================================================
