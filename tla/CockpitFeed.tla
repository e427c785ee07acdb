---------------------------- MODULE CockpitFeed ----------------------------
(***************************************************************************)
(* How a cockpit learns of receipts and of the status of the kernel: from   *)
(* the event stream of the backend and from polls beside it, which go on    *)
(* alone, and at a faster pace, once the stream has failed.                 *)
(*                                                                          *)
(* Receipts are numbered as the backend records them; the status of the     *)
(* kernel is how many there are.  A screen shows a set of receipts: the     *)
(* store keeps one entry for each time a receipt arrives.  Left out: polls  *)
(* of the cluster, which are like those of the kernel, events other than    *)
(* receipts, receipts of remote agents that the backend only observes, and  *)
(* the cockpit's own kernel, which writes the status too.                   *)
(***************************************************************************)
EXTENDS Integers, Sequences

CONSTANTS
  Polls,          \* slots for polls in flight
  MaxRecorded     \* bound on the receipts recorded

ASSUME FeedAssumption == MaxRecorded \in Nat

VARIABLES
  made,         \* receipts recorded by the backend
  connected,    \* the flag of the bridge
  source,       \* the EventSource: "none" (or closed), "connecting", "open"
  stream,       \* receipts sent over it that have not arrived
  timers,       \* the intervals that run: "soft" beside a stream, "hard"
  cleanup,      \* what the closure called cleanup would stop
  poll,         \* the polls in flight
  screen,       \* receipts on the screen
  status,       \* status on the screen
  opened,       \* history: made when the backend subscribed the stream
  polled        \* history: the latest answer that a poll of receipts brought

feedVars == <<made, connected, source, stream, timers, cleanup, poll,
              screen, status, opened, polled>>

PollInFlight ==
  [of : {"none", "kernel", "receipts"}, answer : -1..MaxRecorded, before : 0..MaxRecorded]
Free == [of |-> "none", answer |-> -1, before |-> 0]
\* before: the status on the screen when the poll was started.
Asked(what) == [of |-> what, answer |-> -1, before |-> status]

FeedInit ==
  /\ made = 0
  /\ connected = FALSE
  /\ source = "none"
  /\ stream = <<>>
  /\ timers = {}
  /\ cleanup = {}
  /\ poll = [p \in Polls |-> Free]
  /\ screen = {}
  /\ status = 0
  /\ opened = 0
  /\ polled = 0

\* A receipt is recorded, and the hook of the backend sends it to whoever is
\* subscribed.
RecordForFeed ==
  /\ made < MaxRecorded
  /\ made' = made + 1
  /\ stream' = IF source = "open" THEN Append(stream, made + 1) ELSE stream
  /\ UNCHANGED <<connected, source, timers, cleanup, poll, screen, status, opened, polled>>

\* A round of polls: the kernel's and the receipts'.
PollBoth ==
  \E k, r \in Polls :
    /\ k # r
    /\ poll[k] = Free /\ poll[r] = Free
    /\ poll' = [poll EXCEPT ![k] = Asked("kernel"), ![r] = Asked("receipts")]

PollKernel ==
  \E k \in Polls : poll[k] = Free /\ poll' = [poll EXCEPT ![k] = Asked("kernel")]

\* connectClusterBridge: a stream with soft polls beside it or, when there is no
\* EventSource, hard polls alone.
ConnectClusterBridge ==
  /\ ~connected
  /\ connected' = TRUE
  /\ PollBoth
  /\ \/ /\ source' = "connecting"
        /\ timers' = timers \cup {"soft"}
        /\ cleanup' = {"source", "soft"}
     \/ /\ source' = source
        /\ timers' = timers \cup {"hard"}
        /\ cleanup' = cleanup \cup {"hard"}
  /\ UNCHANGED <<made, stream, screen, status, opened, polled>>

\* The backend handles GET /api/events.
Subscribe ==
  /\ source = "connecting"
  /\ source' = "open"
  /\ opened' = made
  /\ UNCHANGED <<made, connected, stream, timers, cleanup, poll, screen, status, polled>>

\* A receipt arrives over the stream.
Arrive ==
  /\ stream # <<>>
  /\ screen' = screen \cup {Head(stream)}
  /\ stream' = Tail(stream)
  /\ UNCHANGED <<made, connected, source, timers, cleanup, poll, status, opened, polled>>

\* onerror: the stream is closed for good, what was under way is lost, and hard
\* polls begin beside the soft ones.
StreamFails ==
  /\ source # "none"
  /\ source' = "none"
  /\ stream' = <<>>
  /\ timers' = timers \cup {"hard"}
  /\ cleanup' = cleanup \cup {"hard"}
  /\ PollBoth
  /\ UNCHANGED <<made, connected, screen, status, opened, polled>>

\* An interval elapses; answers of the round before may be outstanding.
TimerFires(t) ==
  /\ t \in timers
  /\ IF t = "hard" THEN PollBoth ELSE PollKernel
  /\ UNCHANGED <<made, connected, source, stream, timers, cleanup, screen, status, opened, polled>>

\* Mutant: the backend answers from a cache.
AnswerCached(p) ==
  /\ poll[p].of # "none" /\ poll[p].answer = -1
  /\ \E n \in 0..made : poll' = [poll EXCEPT ![p].answer = n]
  /\ UNCHANGED <<made, connected, source, stream, timers, cleanup, screen, status, opened, polled>>

\* The backend answers a poll.
AnswerPoll(p) ==
  /\ poll[p].of # "none" /\ poll[p].answer = -1
  /\ poll' = [poll EXCEPT ![p].answer = made]
  /\ UNCHANGED <<made, connected, source, stream, timers, cleanup, screen, status, opened, polled>>

\* Mutant: the answer replaces what the screen shows.
PollLandsInPlace(p) ==
  /\ poll[p].answer >= 0
  /\ poll' = [poll EXCEPT ![p] = Free]
  /\ IF poll[p].of = "kernel"
     THEN status' = poll[p].answer /\ UNCHANGED <<screen, polled>>
     ELSE /\ screen' = 1..poll[p].answer
          /\ polled' = IF poll[p].answer > polled THEN poll[p].answer ELSE polled
          /\ UNCHANGED status
  /\ UNCHANGED <<made, connected, source, stream, timers, cleanup, opened>>

\* An answer arrives, in any order, and after a disconnect, too.
PollLands(p) ==
  /\ poll[p].answer >= 0
  /\ poll' = [poll EXCEPT ![p] = Free]
  /\ IF poll[p].of = "kernel"
     THEN status' = poll[p].answer /\ UNCHANGED <<screen, polled>>
     ELSE /\ screen' = screen \cup 1..poll[p].answer
          /\ polled' = IF poll[p].answer > polled THEN poll[p].answer ELSE polled
          /\ UNCHANGED status
  /\ UNCHANGED <<made, connected, source, stream, timers, cleanup, opened>>

\* No answer, or an error: it is swallowed.
PollFails(p) ==
  /\ poll[p].of # "none"
  /\ poll' = [poll EXCEPT ![p] = Free]
  /\ UNCHANGED <<made, connected, source, stream, timers, cleanup, screen, status, opened, polled>>

DisconnectClusterBridge ==
  /\ source' = IF "source" \in cleanup THEN "none" ELSE source
  /\ stream' = IF "source" \in cleanup THEN <<>> ELSE stream
  /\ timers' = timers \ cleanup
  /\ cleanup' = {}
  /\ connected' = FALSE
  /\ UNCHANGED <<made, poll, screen, status, opened, polled>>

FeedNext ==
  \/ RecordForFeed
  \/ ConnectClusterBridge \/ Subscribe \/ Arrive \/ StreamFails
  \/ DisconnectClusterBridge
  \/ \E t \in {"soft", "hard"} : TimerFires(t)
  \/ \E p \in Polls : AnswerPoll(p) \/ PollLands(p) \/ PollFails(p)

FeedSpec == FeedInit /\ [][FeedNext]_feedVars

----------------------------------------------------------------------------
(* Properties *)

\* Every variable has the type the code gives it.
FeedTypeOK ==
  /\ made \in 0..MaxRecorded
  /\ connected \in BOOLEAN
  /\ source \in {"none", "connecting", "open"}
  /\ stream \in Seq(1..MaxRecorded)
  /\ timers \subseteq {"soft", "hard"}
  /\ cleanup \subseteq {"source", "soft", "hard"}
  /\ poll \in [Polls -> PollInFlight]
  /\ screen \subseteq 1..MaxRecorded
  /\ status \in 0..MaxRecorded
  /\ opened \in 0..MaxRecorded
  /\ polled \in 0..MaxRecorded

\* The cleanup of a bridge that lost its stream, and of one that was connected
\* again, stops all that runs: after a disconnect there is neither a stream nor
\* an interval.
NothingOutlivesDisconnect == ~connected => source = "none" /\ timers = {}

\* While the stream is open, a receipt that is neither on the screen nor on its
\* way was recorded in one gap: after the answer to the last poll of receipts
\* that arrived, and before the backend subscribed the stream.  Nothing but a
\* failure of the stream will close that gap: soft polls do not ask for
\* receipts.
MissedInTheGap ==
  source = "open" =>
    \A r \in 1..made :
      \/ r \in screen
      \/ \E i \in DOMAIN stream : stream[i] = r
      \/ polled < r /\ r <= opened

\* The status on the screen goes back only when a poll arrives that had been
\* started before the status it replaces was shown.
StatusGoesBackIfOvertaken ==
  [][status' < status =>
       \E p \in Polls : poll[p].of = "kernel" /\ poll[p].answer = status' /\ poll[p].before < status]_feedVars
============================================================================
