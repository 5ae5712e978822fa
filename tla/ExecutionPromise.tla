-------------------------- MODULE ExecutionPromise --------------------------
(***************************************************************************)
(* What the execution broker promises its callers within one process       *)
(* (src/docs/EXECUTION_BROKER.md, "Idempotency"): an identified request    *)
(* reaches the game at most once, and the first answer given for it is the *)
(* answer, whatever is asked again.                                        *)
(***************************************************************************)
EXTENDS Integers

CONSTANTS
  Ids,        \* request_id values
  Answers,    \* the results a request can end with
  None        \* no answer yet

VARIABLES
  reached,    \* how often a request was handed to the game
  answer      \* the answer a request has got

Init == reached = [i \in Ids |-> 0] /\ answer = [i \in Ids |-> None]

\* A request nobody has answered is handed over.
HandOver(i) ==
  /\ reached[i] = 0 /\ answer[i] = None
  /\ reached' = [reached EXCEPT ![i] = 1]
  /\ UNCHANGED answer

\* One or several requests (the steps of a sequence) are answered for good.
Settle ==
  /\ answer' \in [Ids -> Answers \cup {None}]
  /\ \A i \in Ids : answer[i] # None => answer'[i] = answer[i]
  /\ UNCHANGED reached

Next == Settle \/ \E i \in Ids : HandOver(i)

Spec == Init /\ [][Next]_<<reached, answer>>
=============================================================================
