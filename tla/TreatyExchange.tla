--------------------------- MODULE TreatyExchange ---------------------------
(***************************************************************************)
(* Signed treaty blobs, which travel between processes by export and        *)
(* import.  All that differs between the two signatures of a blob is the    *)
(* target world they name, so that a signature is that world.               *)
(***************************************************************************)
CONSTANTS
  Members,      \* worlds
  Sites,        \* processes
  Blobs,
  Absent        \* no such blob, no signature

Blob == [target : Members, countersigned : Members \cup {Absent}]
Transfer == [blob : Blobs, target : Members]

ASSUME ExchangeAssumption == Absent \notin Members \cup Blob

VARIABLES
  blob,       \* SIGNED_TREATIES of each site: target and countersignature
  transfers   \* what exportTreatyForTransfer gave out

exchangeVars == <<blob, transfers>>

ExchangeInit ==
  /\ blob = [s \in Sites |-> [b \in Blobs |-> Absent]]
  /\ transfers = {}

\* The id of a blob is a uuid: no site has it yet, nor does any export.
CreateTreatyBlob(s, b, target) ==
  /\ \A site \in Sites : blob[site][b] = Absent
  /\ \A x \in transfers : x.blob # b
  /\ blob' = [blob EXCEPT ![s][b] = [target |-> target, countersigned |-> Absent]]
  /\ UNCHANGED transfers

\* Mutant: a blob is countersigned anew.
CountersignAgain(s, b, signer) ==
  /\ blob[s][b] # Absent
  /\ blob' = [blob EXCEPT ![s][b].countersigned = signer]
  /\ UNCHANGED transfers

\* The signer is the world the caller names, be it the target of the blob or not.
CountersignTreatyBlob(s, b, signer) ==
  /\ blob[s][b] # Absent
  /\ blob[s][b].countersigned = Absent
  /\ blob' = [blob EXCEPT ![s][b].countersigned = signer]
  /\ UNCHANGED transfers

\* The export has the signature of the source, not that of the target.
ExportTreaty(s, b) ==
  /\ blob[s][b] # Absent
  /\ transfers' = transfers \cup {[blob |-> b, target |-> blob[s][b].target]}
  /\ UNCHANGED blob

\* An export arrives at any site, the one it came from included, late or more
\* than once, and replaces what is held there.
ImportTreaty(s, x) ==
  /\ x \in transfers
  /\ blob' = [blob EXCEPT ![s][x.blob] = [target |-> x.target, countersigned |-> Absent]]
  /\ UNCHANGED transfers

\* The blobs of a site are in memory only: the process ends, or
\* resetTreatyProtocol is called, and they are gone; exports of them are not.
SiteRestarts(s) ==
  /\ blob' = [blob EXCEPT ![s] = [b \in Blobs |-> Absent]]
  /\ UNCHANGED transfers

ExchangeNext ==
  \E s \in Sites :
    \/ SiteRestarts(s)
    \/ \E b \in Blobs :
         \/ \E w \in Members : CreateTreatyBlob(s, b, w) \/ CountersignTreatyBlob(s, b, w)
         \/ ExportTreaty(s, b)
    \/ \E x \in transfers : ImportTreaty(s, x)

ExchangeSpec == ExchangeInit /\ [][ExchangeNext]_exchangeVars

----------------------------------------------------------------------------
(* Properties *)

\* Every variable has the type the code gives it.
ExchangeTypeOK ==
  /\ blob \in [Sites -> [Blobs -> Blob \cup {Absent}]]
  /\ transfers \subseteq Transfer

\* A countersignature is final, the one that names a wrong world too: only an
\* import, which forgets it, lets the blob be countersigned again; else it goes
\* with the blob, and with all the blobs of its site.
CountersignatureFinal ==
  [][\A s \in Sites, b \in Blobs :
       blob[s][b] # Absent /\ blob[s][b].countersigned # Absent =>
         \/ blob'[s][b] = blob[s][b]
         \/ \A c \in Blobs : blob'[s][c] = Absent
         \/ /\ blob'[s][b].countersigned = Absent
            /\ \E x \in transfers : x.blob = b /\ x.target = blob'[s][b].target]_exchangeVars

\* All copies of a blob have one target and so one valid signature of the
\* source, whatever was exported, imported and countersigned in between.
CopiesAgree ==
  \A s, z \in Sites, b \in Blobs :
    blob[s][b] # Absent /\ blob[z][b] # Absent => blob[s][b].target = blob[z][b].target
============================================================================
