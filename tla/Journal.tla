------------------------------ MODULE Journal ------------------------------
(***************************************************************************)
(* What a durable, hash-chained governance log promises its readers.  While *)
(* the log is open, reading it shows exactly what is durable; it grows only *)
(* at its end, each record naming its predecessor; closing it (a crash)     *)
(* loses nothing, and only erasing it removes a record.                     *)
(***************************************************************************)
EXTENDS Integers, Sequences

VARIABLES
  journal,   \* the durable records, oldest first
  view,      \* what a reader is shown
  open       \* may the log be read and extended?

jvars == <<journal, view, open>>

Chained(log) == \A i \in 2..Len(log) : log[i].prev = log[i - 1].id

\* log2 is log with records added at its end.
Extends(log, log2) ==
  /\ Len(log) <= Len(log2)
  /\ \A i \in 1..Len(log) : log2[i] = log[i]

Init ==
  /\ journal = <<>>
  /\ view = <<>>
  /\ open = FALSE

\* Opening an empty journal may write its first record.
Open ==
  /\ ~open
  /\ open' = TRUE
  /\ \/ journal' = journal
     \/ journal = <<>> /\ Len(journal') = 1
  /\ view' = journal'

Extend ==
  /\ open
  /\ Extends(journal, journal')
  /\ Chained(journal')
  /\ view' = journal'
  /\ UNCHANGED open

Close ==
  /\ open' = FALSE
  /\ view' = <<>>
  /\ UNCHANGED journal

Erase ==
  /\ journal' = <<>>
  /\ view' = <<>>
  /\ open' = FALSE

Next == Open \/ Extend \/ Close \/ Erase

Spec == Init /\ [][Next]_jvars
============================================================================
