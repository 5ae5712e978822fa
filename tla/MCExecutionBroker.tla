------------------------- MODULE MCExecutionBroker --------------------------
(* Two callers, two actions that also occur as the steps of a sequence, and *)
(* requests that reuse an id with another payload or as a sequence.         *)
EXTENDS ExecutionBroker

CONSTANTS a, b, s   \* request ids

Single(i, p)  == [kind |-> "single", id |-> i, steps |-> <<[id |-> i, payload |-> p]>>]
Ordered(i, x) == [kind |-> "sequence", id |-> i, steps |-> x]
Step(i, p)    == [id |-> i, payload |-> p]

MCRequests ==
  {Single(a, 1), Single(b, 1), Single(a, 2), Single(s, 1),
   Ordered(s, <<Step(a, 1), Step(b, 1)>>), Ordered(s, <<Step(b, 1)>>)}

\* After an eviction the broker promises nothing: such states are checked but
\* not explored further.
NothingEvicted == ~evicted
=============================================================================
