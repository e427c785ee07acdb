----------------------------- MODULE ModelAccess -----------------------------
(***************************************************************************)
(* Requests of the backend that choose a language model and ask it.  Each   *)
(* choice is recorded on the agent ledger, and the variable                 *)
(* lastModelSelectionReceipt, shared by all requests, tells which record an *)
(* answer is to cite.                                                       *)
(*                                                                          *)
(* Between the call of selectModel and its return a request is suspended    *)
(* four times on promises that are settled already: such a request waits in *)
(* the queue of microtasks and is resumed in its turn.  Which provider is   *)
(* chosen is left out, and so is the provider that the request names and    *)
(* the backend does not have: its answer cites nothing.  /api/generate asks *)
(* a model, too, and cites nothing, like a completion that fails.           *)
(***************************************************************************)
EXTENDS Integers, Sequences

CONSTANTS
  Requests,      \* the requests of one life of the backend
  MaxRetries     \* MAX_RETRIES

ASSUME AccessAssumption == MaxRetries \in Nat \ {0}

\* /api/llm/select, /api/llm/complete, and /api/complete for completions in an
\* editor.
Endpoints == {"select", "complete", "inline"}

VARIABLES
  microtasks,                 \* the requests inside selectModel, next one first
  hop,                        \* how often each was resumed there
  selections,                 \* how many selections the ledger holds
  own,                        \* the record of the selection of each request, or 0
  lastModelSelectionReceipt,  \* the record to cite, or 0
  request                     \* where each request is, and what its answer cites

accessVars == <<microtasks, hop, selections, own, lastModelSelectionReceipt, request>>

\* tries and prompt are those of generateCompletion.  What cites is 0 cites nothing.
Request ==
  [at : {"new", "selecting", "asking", "answered"}, endpoint : Endpoints,
   prompt : {"continue", "fill"}, tries : 0..MaxRetries - 1, cites : Nat]

New == [at |-> "new", endpoint |-> "select", prompt |-> "continue", tries |-> 0, cites |-> 0]

AccessInit ==
  /\ microtasks = <<>>
  /\ hop = [r \in Requests |-> 0]
  /\ selections = 0
  /\ own = [r \in Requests |-> 0]
  /\ lastModelSelectionReceipt = 0
  /\ request = [r \in Requests |-> New]

\* A request comes in: its handler runs up to the await in recordReceipt.
SelectModel(r, endpoint) ==
  /\ request[r].at = "new"
  /\ request' = [request EXCEPT ![r].at = "selecting", ![r].endpoint = endpoint]
  /\ microtasks' = Append(microtasks, r)
  /\ UNCHANGED <<hop, selections, own, lastModelSelectionReceipt>>

\* The request next in turn is resumed for the n-th time, and waits again.
ResumedAgain(n) ==
  /\ microtasks # <<>>
  /\ hop[Head(microtasks)] = n
  /\ hop' = [hop EXCEPT ![Head(microtasks)] = n + 1]
  /\ microtasks' = Append(Tail(microtasks), Head(microtasks))
  /\ UNCHANGED request

\* The rest of recordReceipt, which appends to the ledger.
RecordSelection ==
  /\ ResumedAgain(0)
  /\ selections' = selections + 1
  /\ own' = [own EXCEPT ![Head(microtasks)] = selections + 1]
  /\ UNCHANGED lastModelSelectionReceipt

\* The rest of emitModelSelectionReceipt.
\* Mutant: the variable keeps the receipt it has.
EmitSelectionOnce ==
  /\ ResumedAgain(1)
  /\ lastModelSelectionReceipt' =
       IF lastModelSelectionReceipt = 0 THEN own[Head(microtasks)] ELSE lastModelSelectionReceipt
  /\ UNCHANGED <<selections, own>>
EmitSelection ==
  /\ ResumedAgain(1)
  /\ lastModelSelectionReceipt' = own[Head(microtasks)]
  /\ UNCHANGED <<selections, own>>

\* The rest of selectModel.
ReturnConfig == ResumedAgain(2) /\ UNCHANGED <<selections, own, lastModelSelectionReceipt>>

\* The handler goes on: a selection is answered at once, and a completion in an
\* editor reads now what its label will cite.
TakeConfig ==
  LET r == Head(microtasks)
      endpoint == request[r].endpoint
  IN /\ microtasks # <<>>
     /\ hop[r] = 3
     /\ microtasks' = Tail(microtasks)
     /\ request' =
          [request EXCEPT
             ![r].at = IF endpoint = "select" THEN "answered" ELSE "asking",
             ![r].cites = IF endpoint = "complete" THEN 0 ELSE lastModelSelectionReceipt]
     /\ UNCHANGED <<hop, selections, own, lastModelSelectionReceipt>>

Answer(r, cites) ==
  /\ request[r].at = "asking"
  /\ request' = [request EXCEPT ![r].at = "answered", ![r].cites = cites]
  /\ UNCHANGED <<microtasks, hop, selections, own, lastModelSelectionReceipt>>

\* The model answered a completion in full, through runCompletion.
CompletionAnswered(r) ==
  request[r].endpoint = "complete" /\ Answer(r, lastModelSelectionReceipt)

\* The provider or the database failed: an error without citation.
CompletionFails(r) == request[r].endpoint = "complete" /\ Answer(r, 0)

\* The model answered a completion in an editor: only the first prompt labels
\* its suggestion with the citation, and no suggestion has no label.
SuggestionAnswered(r) ==
  /\ request[r].endpoint = "inline"
  /\ \/ request[r].prompt = "continue" /\ Answer(r, request[r].cites)
     \/ Answer(r, 0)

\* llmGenerate: status 429 or 5xx, and another attempt is left.
Retry(r) ==
  /\ request[r].at = "asking"
  /\ request[r].endpoint = "inline"
  /\ request[r].tries + 1 < MaxRetries
  /\ request' = [request EXCEPT ![r].tries = @ + 1]
  /\ UNCHANGED <<microtasks, hop, selections, own, lastModelSelectionReceipt>>

\* llmGenerate throws, after the last attempt or on what is never retried:
\* the other prompt is tried, and after it there is no suggestion.
PromptFails(r) ==
  /\ request[r].endpoint = "inline"
  /\ \/ /\ request[r].at = "asking"
        /\ request[r].prompt = "continue"
        /\ request' = [request EXCEPT ![r].prompt = "fill", ![r].tries = 0]
        /\ UNCHANGED <<microtasks, hop, selections, own, lastModelSelectionReceipt>>
     \/ request[r].prompt = "fill" /\ Answer(r, 0)

AccessNext ==
  \/ \E r \in Requests, endpoint \in Endpoints : SelectModel(r, endpoint)
  \/ RecordSelection \/ EmitSelection \/ ReturnConfig \/ TakeConfig
  \/ \E r \in Requests :
       \/ CompletionAnswered(r) \/ CompletionFails(r)
       \/ SuggestionAnswered(r) \/ Retry(r) \/ PromptFails(r)

AccessSpec == AccessInit /\ [][AccessNext]_accessVars

----------------------------------------------------------------------------
(* Properties *)

\* Every variable has the type the code gives it.
AccessTypeOK ==
  /\ microtasks \in Seq(Requests)
  /\ hop \in [Requests -> 0..3]
  /\ selections \in Nat
  /\ own \in [Requests -> Nat]
  /\ lastModelSelectionReceipt \in Nat
  /\ request \in [Requests -> Request]

\* The variable is shared, so that an answer may cite the selection of another
\* request; but only one that is on the ledger and was recorded after its own:
\* however requests overlap and however long their models take, no answer cites
\* a selection that was made before the one it stands for.
CitesNoneBefore ==
  \A r \in Requests :
    request[r].cites # 0 => own[r] \in 1..request[r].cites /\ request[r].cites <= selections

=============================================================================
