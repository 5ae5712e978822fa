---------------------------- MODULE NativeRuntime ---------------------------
(***************************************************************************)
(* The runtime inside the game process                                     *)
(* (src/services/stellaris_native_runtime/runtime.cpp) and its client      *)
(* (native_runtime.py, NativeRuntimeBackend of broker.py).  A socket thread *)
(* serves one connection after the other and keeps at most one request in  *)
(* a slot; the game thread, hooked into CGameIdler::Idle, prepares the     *)
(* request, posts its command and watches for its effect.  The two meet    *)
(* under g_request_mutex only; the game thread works on a copy in between. *)
(*                                                                         *)
(* Both threads have timeouts, and so has the client, which hangs up.      *)
(* runtime_windows.cpp has the same core: there a request is not failed    *)
(* after an exception (Raises = FALSE) and the client does not hang up.    *)
(***************************************************************************)
EXTENDS Integers, Sequences

CONSTANTS
  Ids,          \* request ids
  Payloads,     \* action, country and target: what RequestFingerprint joins
  Malformed,    \* payloads the parser refuses
  Zeroth,       \* payloads of the country with id 0
  None,
  Raises,       \* a handler may throw
  MaxCalls      \* bound: connections made by clients

(* Outcomes on the wire; "late" is the pending of a response timeout, which *)
(* names no country and no target.                                         *)
Decided  == {"confirmed", "rejected", "failed", "pending"}
Statuses == {"confirmed_by_packet", "provisional_pending_save", "rejected",
             "failed"}

Ask     == [id: Ids, payload: Payloads]
Call    == [id: Ids, payload: Payloads, status: Statuses \cup {"waiting"}]
Active  == [gen: Nat, ask: Ask, phase: {"pending", "posted", "done"},
            result: Decided \cup {None}]
Cached  == [ask: Ask, result: Decided]

ASSUME NativeAssumption ==
  /\ Malformed \subseteq Payloads /\ Zeroth \subseteq Payloads
  /\ Raises \in BOOLEAN /\ MaxCalls \in Nat
  /\ None \notin Decided /\ None \notin Active /\ None \notin Cached

VARIABLES
  calls,       \* per connection: what was asked and what the broker was told
  queue,       \* connections not yet accepted
  server,      \* the socket thread: 0, or the connection it waits for
  awaited,     \* the generation it waits for
  slot,        \* g_active_request
  last,        \* g_last_result
  generation,  \* g_generation
  game,        \* the game thread: where it is, and its copy of the request
  posted,      \* history: how often a request was posted
  forgotten    \* history: ids whose result was replaced in the cache

vars == <<calls, queue, server, awaited, slot, last, generation, game, posted,
          forgotten>>

Stages  == {"idle", "prepare", "post", "update", "verify"}

Init ==
  /\ calls = <<>> /\ queue = <<>> /\ server = 0 /\ awaited = 0
  /\ slot = None /\ last = None /\ generation = 0
  /\ game = [at |-> "idle", copy |-> None]
  /\ posted = [a \in Ask |-> 0] /\ forgotten = {}

-----------------------------------------------------------------------------
(* The client.                                                             *)

\* execute() sends its line; nobody has accepted the connection yet.
Connect(i, p) ==
  /\ Len(calls) < MaxCalls
  /\ calls' = Append(calls, [id |-> i, payload |-> p, status |-> "waiting"])
  /\ queue' = Append(queue, Len(calls) + 1)
  /\ UNCHANGED <<server, awaited, slot, last, generation, game, posted, forgotten>>

\* The socket times out: NativeRuntimeError, a failed result.  The line stays
\* in the connection, and the request, if it was accepted, in the slot.
HangUp(n) ==
  /\ calls[n].status = "waiting"
  /\ calls' = [calls EXCEPT ![n].status = "failed"]
  /\ UNCHANGED <<queue, server, awaited, slot, last, generation, game, posted,
                 forgotten>>

(* _parse_response and _normalize: a late answer echoes country 0, which is *)
(* an error unless that was the country asked for.                         *)
Normalize(outcome, p) ==
  CASE outcome = "confirmed" -> "confirmed_by_packet"
    [] outcome = "pending" \/ (outcome = "late" /\ p \in Zeroth) -> "provisional_pending_save"
    [] outcome \in {"rejected", "conflict"} -> "rejected"
    [] outcome \in {"failed", "busy"} \/ (outcome = "late" /\ p \notin Zeroth) -> "failed"

\* The server answers connection n; a client that hung up does not hear it.
Answer(n, outcome) ==
  calls' = IF calls[n].status = "waiting"
           THEN [calls EXCEPT ![n].status = Normalize(outcome, calls[n].payload)]
           ELSE calls

-----------------------------------------------------------------------------
(* The socket thread: HandleRequest up to the wait.                        *)

Line     == Head(queue)
Asked(n) == [id |-> calls[n].id, payload |-> calls[n].payload]
Accepts  == server = 0 /\ queue # <<>>

\* Defect: a result that is still open is not remembered.
RememberedIfFinal(a) ==
  last # None /\ last.ask.id = a.id /\ last.result # "pending"

Remembered(a) == last # None /\ last.ask.id = a.id
InSlot(a)     == slot # None /\ slot.ask.id = a.id

\* Defect: a request joins the active one of the same id whatever it asks.
SameId(a) == slot.ask.id = a.id

SameRequest(a) == slot.ask = a

Parsed == Accepts /\ Asked(Line).payload \notin Malformed

\* The line is answered at once.
Reply(outcome) ==
  /\ Answer(Line, outcome)
  /\ queue' = Tail(queue)
  /\ UNCHANGED <<server, awaited, slot, last, generation, game, posted, forgotten>>

Refuse == Accepts /\ Asked(Line).payload \in Malformed /\ Reply("rejected")

Replay ==
  /\ Parsed /\ Remembered(Asked(Line)) /\ last.ask = Asked(Line)
  /\ Reply(last.result)

\* The id is known, with another payload.
Conflict ==
  /\ Parsed
  /\ IF Remembered(Asked(Line)) THEN last.ask # Asked(Line)
     ELSE InSlot(Asked(Line)) /\ ~SameRequest(Asked(Line))
  /\ Reply("conflict")

\* Another request holds the slot.
Busy ==
  /\ Parsed /\ ~Remembered(Asked(Line))
  /\ slot # None /\ ~InSlot(Asked(Line))
  /\ Reply("busy")

Wait(gen) == server' = Line /\ awaited' = gen /\ queue' = Tail(queue)

\* A request that is already in the slot is waited for again.
Join ==
  /\ Parsed /\ ~Remembered(Asked(Line))
  /\ InSlot(Asked(Line)) /\ SameRequest(Asked(Line))
  /\ Wait(slot.gen)
  /\ UNCHANGED <<calls, slot, last, generation, game, posted, forgotten>>

Activate ==
  /\ Parsed /\ ~Remembered(Asked(Line)) /\ slot = None
  /\ generation' = generation + 1
  /\ slot' = [gen |-> generation + 1, ask |-> Asked(Line), phase |-> "pending",
              result |-> None]
  /\ Wait(generation + 1)
  /\ UNCHANGED <<calls, last, game, posted, forgotten>>

-----------------------------------------------------------------------------
(* The socket thread: after the wait.                                      *)

Completed == slot # None /\ slot.gen = awaited /\ slot.phase = "done"

FreeSlot == slot' = None

Respond ==
  /\ server # 0 /\ Completed
  /\ Answer(server, slot.result)
  /\ forgotten' = IF last = None THEN forgotten ELSE forgotten \cup {last.ask.id}
  /\ last' = [ask |-> slot.ask, result |-> slot.result]
  /\ FreeSlot
  /\ server' = 0 /\ awaited' = 0
  /\ UNCHANGED <<queue, generation, game, posted>>

\* Defect: a request that took too long is dropped.
SlotAfterTimeoutFreed == None

SlotAfterTimeout == slot

\* wait_for gives up after kResponseTimeout; the request stays active.
ResponseTimeout ==
  /\ server # 0 /\ ~Completed
  /\ Answer(server, "late")
  /\ slot' = SlotAfterTimeout
  /\ server' = 0 /\ awaited' = 0
  /\ UNCHANGED <<queue, last, generation, game, posted, forgotten>>

-----------------------------------------------------------------------------
(* The game thread: one call of CGameIdler::Idle(true).                    *)

GameOnly == UNCHANGED <<calls, queue, server, awaited, last, generation, forgotten>>
Goes(stage) == game' = [at |-> stage, copy |-> None]

DoneWith(result) == [slot EXCEPT !.phase = "done", !.result = result]

\* FinishRequest: only for the generation that was copied.
Finish(result) ==
  slot' = IF slot # None /\ slot.gen = game.copy.gen THEN DoneWith(result) ELSE slot

\* FailActiveRequest: for whatever request is active.
FailActive ==
  slot' = IF slot # None /\ slot.phase # "done" THEN DoneWith("failed") ELSE slot

Pending == slot # None /\ slot.phase = "pending"

CopyPending ==
  /\ game.at = "idle" /\ Pending
  /\ game' = [at |-> "prepare", copy |-> slot]
  /\ GameOnly /\ UNCHANGED <<slot, posted>>

NothingPending ==
  /\ game.at = "idle" /\ ~Pending
  /\ Goes("update")
  /\ GameOnly /\ UNCHANGED <<slot, posted>>

\* No country, another country, or Prepare refuses or returns no command.
PrepareRefuses(result) ==
  /\ game.at = "prepare" /\ Finish(result)
  /\ Goes("update")
  /\ GameOnly /\ UNCHANGED posted

\* Prepare made a command: the phase is set first, under the lock.
MarkPosted ==
  /\ game.at = "prepare"
  /\ IF slot # None /\ slot.gen = game.copy.gen
     THEN /\ slot' = [slot EXCEPT !.phase = "posted"]
          /\ game' = [game EXCEPT !.at = "post"]
     ELSE slot' = slot /\ Goes("update")
  /\ GameOnly /\ UNCHANGED posted

PostCommand ==
  /\ game.at = "post"
  /\ posted' = [posted EXCEPT ![game.copy.ask] = @ + 1]
  /\ Goes("update")
  /\ GameOnly /\ UNCHANGED slot

\* After the game's own update: look for a posted request.
CopyPosted ==
  /\ game.at = "update" /\ slot # None /\ slot.phase = "posted"
  /\ game' = [at |-> "verify", copy |-> slot]
  /\ GameOnly /\ UNCHANGED <<slot, posted>>

NothingPosted ==
  /\ game.at = "update" /\ ~(slot # None /\ slot.phase = "posted")
  /\ Goes("idle")
  /\ GameOnly /\ UNCHANGED <<slot, posted>>

\* Verify sees the effect, or the deadline has passed.
Verified(result) ==
  /\ game.at = "verify" /\ Finish(result)
  /\ Goes("idle")
  /\ GameOnly /\ UNCHANGED posted

NotYet ==
  /\ game.at = "verify"
  /\ Goes("idle")
  /\ GameOnly /\ UNCHANGED <<slot, posted>>

\* An exception out of Prepare or Verify ends that half of the hook.
Throw ==
  /\ Raises /\ game.at \in {"prepare", "verify"}
  /\ FailActive
  /\ Goes(IF game.at = "prepare" THEN "update" ELSE "idle")
  /\ GameOnly /\ UNCHANGED posted

-----------------------------------------------------------------------------
Client == \/ \E i \in Ids, p \in Payloads : Connect(i, p)
          \/ \E n \in DOMAIN calls : HangUp(n)

SocketThread ==
  Refuse \/ Replay \/ Conflict \/ Busy \/ Join \/ Activate \/ Respond \/ ResponseTimeout

GameThread ==
  \/ CopyPending \/ NothingPending \/ MarkPosted \/ PostCommand
  \/ \E r \in {"rejected", "failed"} : PrepareRefuses(r)
  \/ CopyPosted \/ NothingPosted \/ NotYet \/ Throw
  \/ \E r \in {"confirmed", "pending"} : Verified(r)

Next == Client \/ SocketThread \/ GameThread

Spec == Init /\ [][Next]_vars

-----------------------------------------------------------------------------
(* While the game thread works on its copy outside the lock, the active     *)
(* request stands still, so a command that was prepared is the one posted   *)
(* and no result lands on another request (the generation checks of         *)
(* FinishRequest and ProcessPendingBeforeUpdate, and the comment at          *)
(* runtime_windows.cpp:342, which calls a change impossible).               *)
SlotStandsStill ==
  /\ game.at = "prepare" => slot = game.copy
  /\ game.at = "post" => slot = [game.copy EXCEPT !.phase = "posted"]
  /\ game.at = "verify" => slot = game.copy

(* Process-local idempotency: two commands under one id only if another     *)
(* request's result has replaced that of the first (g_last_result holds one).*)
PostedOnce ==
  \A a, b \in Ask :
    /\ posted[a] > 1 => a.id \in forgotten
    /\ posted[a] > 0 /\ posted[b] > 0 /\ a.id = b.id /\ a # b => a.id \in forgotten

(* What the broker is told is true: a confirmed request was posted with      *)
(* exactly that payload, and a rejected one was not and never will be under  *)
(* its id while the id is remembered.                                       *)
AnswerIsTrue ==
  \A n \in DOMAIN calls :
    /\ calls[n].status = "confirmed_by_packet" => posted[Asked(n)] > 0
    /\ calls[n].status = "rejected" => posted[Asked(n)] = 0 \/ calls[n].id \in forgotten

=============================================================================
