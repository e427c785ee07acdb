---------------------------- MODULE IdentityKeys ----------------------------
(***************************************************************************)
(* IGEM: the keys of identity graphs, what is encrypted under them, tokens  *)
(* for traversal, and transmissions between nodes.                          *)
(*                                                                          *)
(* Everything hangs on the master key.  The first call of getMasterKey in   *)
(* the life of a process makes up a random one and registers a record; from *)
(* then on the key is derived from fixed strings, in every process the      *)
(* same.  An encryption is therefore known by the kind of key it is under.  *)
(* Left out: what is encrypted, seals, signatures, which always verify with *)
(* the public key that travels with them, and the session key of a token,   *)
(* which nobody decrypts.                                                   *)
(***************************************************************************)
EXTENDS Integers

CONSTANTS
  KeyIds,       \* of node keys and edge keys
  GraphIds,
  TokenIds,
  Envelopes

Secret == {"random", "derived"}
\* A node or an edge of a graph: the key it refers to, and the master key that
\* its own key was derived from.
Encrypted == [key : KeyIds, under : Secret]

VARIABLES
  master,     \* is the record of the master key in KEY_REGISTRY?
  keys,       \* the other keys in it
  graphs,     \* the graphs in IDENTITY_GRAPHS
  holds,      \* and the nodes and edges of each
  token,      \* the tokens: "absent", "fresh", "used" or "expired"
  envelope,   \* each transmission: "absent", the key it is under, or "expired"
  spoiled     \* history: in this life, transmissions sent that nobody can read
              \* and readable ones that were refused

identityVars == <<master, keys, graphs, holds, token, envelope, spoiled>>

IdentityInit ==
  /\ master = FALSE
  /\ keys = {}
  /\ graphs = {}
  /\ holds = [g \in GraphIds |-> {}]
  /\ token = [t \in TokenIds |-> "absent"]
  /\ envelope = [e \in Envelopes |-> "absent"]
  /\ spoiled = 0

\* getMasterKey: what it returns, and what it leaves.
MasterKey == IF master THEN "derived" ELSE "random"
\* Mutant: the record is made and not registered.
GetMasterKeyUnregistered == master' = master
GetMasterKey == master' = TRUE

\* Also a transmission that fails, for want of a sound public key.
InitializeIGEM ==
  /\ GetMasterKey
  /\ UNCHANGED <<keys, graphs, holds, token, envelope, spoiled>>

\* createNodeKey and createEdgeKey; an id that is there is replaced.
CreateIdentityKey(k) ==
  /\ GetMasterKey
  /\ keys' = keys \cup {k}
  /\ UNCHANGED <<graphs, holds, token, envelope, spoiled>>

\* A graph of the same id is replaced, with all it holds.
CreateIdentityGraph(g) ==
  /\ graphs' = graphs \cup {g}
  /\ holds' = [holds EXCEPT ![g] = {}]
  /\ UNCHANGED <<master, keys, token, envelope, spoiled>>

\* addNodeToGraph and addEdgeToGraph.
AddToGraph(g, k) ==
  /\ g \in graphs
  /\ k \in keys
  /\ GetMasterKey
  /\ holds' = [holds EXCEPT ![g] = @ \cup {[key |-> k, under |-> MasterKey]}]
  /\ UNCHANGED <<keys, graphs, token, envelope, spoiled>>

IssueTraversalToken(t, g) ==
  /\ g \in graphs
  /\ token[t] = "absent"
  /\ GetMasterKey
  /\ token' = [token EXCEPT ![t] = "fresh"]
  /\ UNCHANGED <<keys, graphs, holds, envelope, spoiled>>

ValidateTraversalToken(t) ==
  /\ token[t] = "fresh"
  /\ token' = [token EXCEPT ![t] = "used"]
  /\ UNCHANGED <<master, keys, graphs, holds, envelope, spoiled>>

CreateFederatedTransmission(e) ==
  /\ envelope[e] = "absent"
  /\ GetMasterKey
  /\ envelope' = [envelope EXCEPT ![e] = MasterKey]
  /\ spoiled' = IF MasterKey = "random" THEN spoiled + 1 ELSE spoiled
  /\ UNCHANGED <<keys, graphs, holds, token>>

\* It may be received again, by this process or another one; one that expired is
\* refused after it has been decrypted.
ReceiveFederatedTransmission(e) ==
  /\ envelope[e] # "absent"
  /\ GetMasterKey
  /\ spoiled' = IF envelope[e] = "derived" /\ MasterKey = "random" THEN spoiled + 1 ELSE spoiled
  /\ UNCHANGED <<keys, graphs, holds, token, envelope>>

\* Time passes: an hour ends for a token or a transmission.
HourEnds ==
  /\ \/ /\ \E t \in TokenIds : token[t] = "fresh" /\ token' = [token EXCEPT ![t] = "expired"]
        /\ UNCHANGED envelope
     \/ /\ \E e \in Envelopes :
             envelope[e] \in Secret /\ envelope' = [envelope EXCEPT ![e] = "expired"]
        /\ UNCHANGED token
  /\ UNCHANGED <<master, keys, graphs, holds, spoiled>>

\* resetIGEM, or another process: transmissions under way are not affected.
ResetIGEM ==
  /\ master' = FALSE
  /\ keys' = {}
  /\ graphs' = {}
  /\ holds' = [g \in GraphIds |-> {}]
  /\ token' = [t \in TokenIds |-> "absent"]
  /\ spoiled' = 0
  /\ UNCHANGED envelope

IdentityNext ==
  \/ InitializeIGEM
  \/ \E k \in KeyIds : CreateIdentityKey(k)
  \/ \E g \in GraphIds : CreateIdentityGraph(g)
  \/ \E g \in GraphIds, k \in KeyIds : AddToGraph(g, k)
  \/ \E t \in TokenIds, g \in GraphIds : IssueTraversalToken(t, g)
  \/ \E t \in TokenIds : ValidateTraversalToken(t)
  \/ \E e \in Envelopes : CreateFederatedTransmission(e) \/ ReceiveFederatedTransmission(e)
  \/ HourEnds
  \/ ResetIGEM

IdentitySpec == IdentityInit /\ [][IdentityNext]_identityVars

----------------------------------------------------------------------------
(* Properties *)

\* Every variable has the type the code gives it.
IdentityTypeOK ==
  /\ master \in BOOLEAN
  /\ keys \subseteq KeyIds
  /\ graphs \subseteq GraphIds
  /\ holds \in [GraphIds -> SUBSET Encrypted]
  /\ token \in [TokenIds -> {"absent", "fresh", "used", "expired"}]
  /\ envelope \in [Envelopes -> {"absent", "expired"} \cup Secret]
  /\ spoiled \in Nat

\* The random key of a first call costs each life of a process one
\* transmission at most, be it sent or received; and the graphs nothing: all
\* they hold was encrypted under the derived key, so that it can be read as long
\* as its key is registered.
FirstUseCostsOne ==
  /\ spoiled <= 1
  /\ spoiled = 1 => master
  /\ \A g \in graphs : \A x \in holds[g] : x.under = "derived" /\ x.key \in keys
=============================================================================
