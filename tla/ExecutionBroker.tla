--------------------------- MODULE ExecutionBroker --------------------------
(***************************************************************************)
(* The boundary between the Applications and the game                      *)
(* (src/src/iag/stellaris/execution/broker.py): requests carry an id, are  *)
(* validated, dispatched through one backend under a process-wide lock and *)
(* remembered, so that a repeated id is answered from memory.  An ordered  *)
(* sequence is dispatched step by step, by the session proxy controller    *)
(* (session_proxy_controller.py, arm_sequence_and_wait), and stops at the  *)
(* first step that is not confirmed.                                       *)
(*                                                                         *)
(* Validation, the choice of a backend and the game's verdict are          *)
(* nondeterministic.  A payload stands for the fingerprint of an action.   *)
(***************************************************************************)
EXTENDS Integers, Sequences, FiniteSets

CONSTANTS
  Callers,    \* threads that use a broker of this process
  Nobody,     \* the lock is free
  Ids,        \* request_id values, of actions and of sequences
  Payloads,   \* fingerprints of semantic actions
  None,       \* no cache entry
  Requests,   \* what callers may ask: [kind, id, steps]
  Limit       \* _IDEMPOTENCY_LIMIT

Action  == [id: Ids, payload: Payloads]
Request == [kind: {"single", "sequence"}, id: Ids, steps: Seq(Action)]

(* A step's outcome, as _proxy_status and the native backend normalise it. *)
Statuses == {"confirmed_by_packet", "provisional_pending_save", "rejected",
             "cancelled", "failed"}
Result   == [status: Statuses, attempted: Nat]
Entry    == [print: Seq(Action), result: Result]

\* PreparedAction and OrderedActionSequence: one action, or steps of distinct ids.
ASSUME BrokerAssumption ==
  /\ Requests # {} /\ Requests \subseteq Request
  /\ Nobody \notin Callers /\ None \notin Entry
  /\ Limit \in Nat \ {0}
  /\ \A r \in Requests :
       /\ r.kind = "single" => Len(r.steps) = 1 /\ r.steps[1].id = r.id
       /\ Len(r.steps) >= 1
       /\ \A i, j \in DOMAIN r.steps : r.steps[i].id = r.steps[j].id => i = j
       /\ r.kind = "sequence" => \A i \in DOMAIN r.steps : r.steps[i].id # r.id

VARIABLES
  done,       \* _COMPLETED_REQUESTS: [entry, order]
  doneSeqs,   \* _COMPLETED_SEQUENCES
  lock,       \* holder of _SIDE_EFFECT_LOCK
  pc, call,   \* per caller: where it is, and in which request
  step,       \* per caller: steps handed to the backend so far
  out,        \* per caller: the step outcomes the backend will return
  sent,       \* how often an id was handed to the game (0, 1, or 2 for more)
  evicted,    \* history: an entry was dropped for lack of room
  lost,       \* history: an exception hid steps that may be in the game
  told        \* history: the first answer a request was given

vars == <<done, doneSeqs, lock, pc, call, step, out, sent, evicted, lost, told>>

Empty == [entry |-> [i \in Ids |-> None], order |-> <<>>]
Rest  == CHOOSE r \in Requests : TRUE

Init ==
  /\ done = Empty /\ doneSeqs = Empty
  /\ lock = Nobody
  /\ pc = [c \in Callers |-> "idle"] /\ call = [c \in Callers |-> Rest]
  /\ step = [c \in Callers |-> 0] /\ out = [c \in Callers |-> <<>>]
  /\ sent = [i \in Ids |-> 0]
  /\ evicted = FALSE /\ lost = FALSE
  /\ told = [r \in Requests |-> None]

-----------------------------------------------------------------------------
(* The two caches: ordered dictionaries with a bound.                      *)

Cached(c, i) == c.entry[i] # None

Touch(c, i) ==
  [entry |-> c.entry, order |-> Append(SelectSeq(c.order, LAMBDA j : j # i), i)]

\* Several new entries, in the order of the ids.
PutAll(c, new, order) ==
  [entry |-> [i \in Ids |-> IF i \in DOMAIN new THEN new[i] ELSE c.entry[i]],
   order |-> c.order \o order]

Overflow(c) == IF Len(c.order) > Limit THEN Len(c.order) - Limit ELSE 0

(* popitem(last=False) until the limit is kept.                            *)
Trim(c) ==
  LET gone == {c.order[k] : k \in 1..Overflow(c)}
  IN [entry |-> [i \in Ids |-> IF i \in gone THEN None ELSE c.entry[i]],
      order |-> SubSeq(c.order, Overflow(c) + 1, Len(c.order))]

-----------------------------------------------------------------------------
LockFree == lock = Nobody

(* A caller enters execute() or execute_sequence() and takes the lock.     *)
Enter(c, r) ==
  /\ pc[c] = "idle" /\ LockFree
  /\ lock' = c
  /\ pc' = [pc EXCEPT ![c] = "locked"]
  /\ call' = [call EXCEPT ![c] = r]
  /\ UNCHANGED <<done, doneSeqs, step, out, sent, evicted, lost, told>>

Leave(c) ==
  /\ lock' = Nobody
  /\ pc' = [pc EXCEPT ![c] = "idle"]
  /\ call' = [call EXCEPT ![c] = Rest]
  /\ step' = [step EXCEPT ![c] = 0]
  /\ out' = [out EXCEPT ![c] = <<>>]

\* An answer goes back to the caller.
Tell(r, result) ==
  told' = IF told[r] = None THEN [told EXCEPT ![r] = result] ELSE told

Mine(r)   == IF r.kind = "single" THEN done ELSE doneSeqs
Others(r) == IF r.kind = "single" THEN doneSeqs ELSE done

(* A step of a sequence that is not yet cached was completed elsewhere.    *)
StepIdUsed(r) ==
  r.kind = "sequence" /\ \E k \in DOMAIN r.steps :
    Cached(done, r.steps[k].id) \/ Cached(doneSeqs, r.steps[k].id)

SamePayload(r) == Mine(r).entry[r.id].print = r.steps

(* IdempotencyConflict.                                                    *)
Conflict(r) ==
  \/ Cached(Others(r), r.id)
  \/ IF Cached(Mine(r), r.id) THEN ~SamePayload(r) ELSE StepIdUsed(r)

Refuse(c) ==
  /\ pc[c] = "locked" /\ Conflict(call[c])
  /\ Leave(c)
  /\ UNCHANGED <<done, doneSeqs, sent, evicted, lost, told>>

(* The cached truth is returned, and becomes the most recent entry.        *)
Replay(c) ==
  LET r == call[c]
  IN /\ pc[c] = "locked" /\ ~Conflict(r) /\ Cached(Mine(r), r.id)
     /\ Tell(r, Mine(r).entry[r.id].result)
     /\ IF r.kind = "single"
        THEN done' = Touch(done, r.id) /\ UNCHANGED doneSeqs
        ELSE doneSeqs' = Touch(doneSeqs, r.id) /\ UNCHANGED done
     /\ Leave(c)
     /\ UNCHANGED <<sent, evicted, lost>>

(* A new request passes validation and gets a backend.                     *)
Dispatch(c) ==
  /\ pc[c] = "locked" /\ ~Conflict(call[c]) /\ ~Cached(Mine(call[c]), call[c].id)
  /\ pc' = [pc EXCEPT ![c] = "sending"]
  /\ UNCHANGED <<done, doneSeqs, lock, call, step, out, sent, evicted, lost, told>>

MoreSteps(c) ==
  /\ step[c] < Len(call[c].steps)
  /\ \A k \in DOMAIN out[c] : out[c][k] = "confirmed_by_packet"

Sending(c) ==
  /\ step' = [step EXCEPT ![c] = @ + 1]
  /\ sent' = [sent EXCEPT ![call[c].steps[step[c] + 1].id] = IF @ = 0 THEN 1 ELSE 2]

(* The backend hands one step to the game and gets its outcome.            *)
SendStep(c) ==
  /\ pc[c] = "sending" /\ MoreSteps(c)
  /\ Sending(c)
  /\ \E s \in Statuses : out' = [out EXCEPT ![c] = Append(@, s)]
  /\ UNCHANGED <<done, doneSeqs, lock, pc, call, evicted, lost, told>>

(* SessionProxyError, before or after the step has gone out: the results   *)
(* collected so far are lost with the exception, and what a sequence has   *)
(* sent will not be remembered.                                            *)
Raise(c) ==
  /\ pc[c] = "sending" /\ MoreSteps(c)
  /\ Sending(c) \/ UNCHANGED <<step, sent>>
  /\ out' = [out EXCEPT ![c] = <<>>]
  /\ pc' = [pc EXCEPT ![c] = "raised"]
  /\ lost' = (lost \/ (call[c].kind = "sequence" /\ step'[c] > 0))
  /\ UNCHANGED <<done, doneSeqs, lock, call, evicted, told>>

\* Defect: the number of results is not compared with the number of steps.
StatusOfPrefix(statuses, n) ==
  IF \A k \in DOMAIN statuses : statuses[k] = "confirmed_by_packet"
  THEN "confirmed_by_packet" ELSE "failed"

(* _sequence_status.                                                       *)
SequenceStatus(statuses, n) ==
  LET Some(s) == \E k \in DOMAIN statuses : statuses[k] = s
  IN IF Len(statuses) # n THEN "failed"
     ELSE IF \A k \in DOMAIN statuses : statuses[k] = "confirmed_by_packet"
          THEN "confirmed_by_packet"
     ELSE IF Some("failed") THEN "failed"
     ELSE IF Some("rejected") THEN "rejected"
     ELSE IF Some("cancelled") THEN "cancelled"
     ELSE "provisional_pending_save"

(* What is remembered of a single action, and of each step of a sequence   *)
(* the backend returned a result for.                                      *)
StepEntry(a, s) == [print |-> <<a>>, result |-> [status |-> s, attempted |-> 1]]

\* Defect: only the sequence itself is remembered.
NoStepEntries(r, results) == [i \in {} |-> None]

StepEntries(r, results) ==
  [i \in {r.steps[k].id : k \in DOMAIN results} |->
     LET k == CHOOSE k \in DOMAIN results : r.steps[k].id = i
     IN StepEntry(r.steps[k], results[k])]

StepIds(r, results) == [k \in DOMAIN results |-> r.steps[k].id]

(* The end of a dispatched or rejected request: remember, trim, answer.    *)
Remember(c, r, results, result) ==
  LET whole  == [print |-> r.steps, result |-> result]
      asked  == PutAll(done, StepEntries(r, results), StepIds(r, results))
      single == PutAll(done, [i \in {r.id} |-> whole], <<r.id>>)
      newReq == IF r.kind = "single" THEN single ELSE asked
      newSeq == IF r.kind = "single" THEN doneSeqs
                ELSE PutAll(doneSeqs, [i \in {r.id} |-> whole], <<r.id>>)
  IN /\ done' = Trim(newReq)
     /\ doneSeqs' = Trim(newSeq)
     /\ evicted' = (evicted \/ Overflow(newReq) # 0 \/ Overflow(newSeq) # 0)
     /\ Tell(r, result)
     /\ Leave(c)
     /\ UNCHANGED <<sent, lost>>

(* Validation, or the choice of a backend, fails before anything is sent.  *)
Reject(c) ==
  /\ pc[c] = "locked" /\ ~Conflict(call[c]) /\ ~Cached(Mine(call[c]), call[c].id)
  /\ Remember(c, call[c], <<>>,
              [status |-> "rejected",
               attempted |-> IF call[c].kind = "single" THEN 1 ELSE 0])

Finish(c) ==
  /\ \/ pc[c] = "sending" /\ ~MoreSteps(c)
     \/ pc[c] = "raised"
  /\ LET r == call[c]
     IN Remember(c, r, out[c],
          IF r.kind = "single"
          THEN [status |-> IF out[c] = <<>> THEN "failed" ELSE out[c][1], attempted |-> 1]
          ELSE [status |-> SequenceStatus(out[c], Len(r.steps)),
                attempted |-> Len(out[c])])

Next ==
  \E c \in Callers :
    \/ \E r \in Requests : Enter(c, r)
    \/ Refuse(c) \/ Replay(c) \/ Reject(c)
    \/ Dispatch(c) \/ SendStep(c) \/ Raise(c) \/ Finish(c)

Spec == Init /\ [][Next]_vars

-----------------------------------------------------------------------------
\* Everything that was handed to the game is still remembered.
Remembers == ~evicted /\ ~lost

(* As long as everything handed to the game is remembered, no request id -  *)
(* of a single action or of a step of a sequence - is handed to the game    *)
(* twice (execute: "repeating an identical request id returns cached        *)
(* truth").                                                                *)
AtMostOnce == Remembers => \A i \in Ids : sent[i] <= 1

(* A request that is answered has never been in the game under an id whose  *)
(* cached payload is another one: an id names one payload (the fingerprint  *)
(* comparison of execute and execute_sequence).                             *)
IdNamesOnePayload ==
  ~evicted => \A r, q \in Requests :
    r.id = q.id /\ told[r] # None /\ told[q] # None => r = q

(* "confirmed" is only said of a request all of whose steps have been in    *)
(* the game, however the backend failed (_sequence_status).                 *)
ConfirmedMeansAll ==
  [][\A c \in Callers :
       LET r == call[c]
           e == IF r.kind = "single" THEN done'.entry[r.id] ELSE doneSeqs'.entry[r.id]
       IN /\ pc[c] \in {"sending", "raised"} /\ pc'[c] = "idle"
          /\ e # None /\ e.result.status = "confirmed_by_packet"
          => step[c] = Len(r.steps)]_vars

\* The answer an id has got, as far as it is remembered.
Answered == [i \in Ids |-> IF Cached(done, i) THEN done.entry[i].result ELSE None]

Promise == INSTANCE ExecutionPromise WITH
  Answers <- Result, reached <- sent, answer <- Answered

(* As long as everything is remembered the broker implements the promise    *)
(* its callers rely on: an id is handed over once, and its answer stands.   *)
PromiseKept ==
  Promise!Init /\ [][Remembers' => Promise!Next]_<<sent, Answered>>
=============================================================================
