------------------------- MODULE NativeRuntimeProofs ------------------------
(***************************************************************************)
(* What the native runtime guarantees for any ids, payloads and number of   *)
(* connections.  The argument: the socket thread empties the slot only when *)
(* the request in it is done, the game thread alone makes it done and has    *)
(* no copy then, so the slot stands still under the game thread; a request   *)
(* gets into the slot only if its id is not in the cache, so whatever was    *)
(* posted under that id has been forgotten.                                 *)
(***************************************************************************)
EXTENDS NativeRuntime, TLAPS

GameTypes ==
  /\ game = [at |-> game.at, copy |-> game.copy]
  /\ game.at \in Stages
  /\ game.at \in {"prepare", "post", "verify"} => game.copy \in Active

Types ==
  /\ calls \in Seq(Call)
  /\ queue \in Seq(Nat) /\ \A k \in 1..Len(queue) : queue[k] \in 1..Len(calls)
  /\ server \in 0..Len(calls)
  /\ slot \in Active \cup {None} /\ last \in Cached \cup {None}
  /\ generation \in Nat
  /\ GameTypes
  /\ posted \in [Ask -> Nat] /\ forgotten \subseteq Ids

\* SlotStandsStill with the phase the copy was taken in.
CopyIsSlot ==
  /\ game.at = "prepare" => slot = game.copy /\ game.copy.phase = "pending"
  /\ game.at = "post" => /\ slot = [game.copy EXCEPT !.phase = "posted"]
                         /\ game.copy.phase = "pending"
  /\ game.at = "verify" => slot = game.copy /\ game.copy.phase = "posted"

\* The id in the slot is not the one in the cache.
Apart == slot # None /\ last # None => slot.ask.id # last.ask.id

\* The request in the slot has not been handed to the game yet.
Unposted == slot # None /\ (slot.phase = "pending" \/ game.at = "post")

FreshUntilPosted ==
  Unposted => \A a \in Ask : a.id = slot.ask.id /\ posted[a] > 0 => a.id \in forgotten

\* A command in the game belongs to the slot, to the cache, or is forgotten.
Accounted ==
  \A a \in Ask : posted[a] > 0 =>
    a.id \in forgotten \/ (slot # None /\ slot.ask = a) \/ (last # None /\ last.ask = a)

\* Results in the slot and in the cache are true.
True(ask, result) ==
  /\ result = "confirmed" => posted[ask] > 0
  /\ result = "rejected" => posted[ask] = 0 \/ ask.id \in forgotten

ResultsTrue ==
  /\ slot # None /\ slot.phase = "posted" /\ game.at # "post" => posted[slot.ask] > 0
  /\ slot # None /\ slot.phase = "done" => slot.result \in Decided /\ True(slot.ask, slot.result)
  /\ last # None => True(last.ask, last.result)

\* Why a request that was refused cannot be posted while its id is remembered.
Settled(a) ==
  \/ a.payload \in Malformed \/ a.id \in forgotten
  \/ slot # None /\ slot.ask.id = a.id /\ slot.ask # a
  \/ last # None /\ last.ask.id = a.id /\ (last.ask # a \/ last.result = "rejected")

Answered ==
  \A n \in 1..Len(calls) :
    /\ calls[n].status = "confirmed_by_packet" => posted[Asked(n)] > 0
    /\ calls[n].status = "rejected" => Settled(Asked(n))

\* The request the socket thread waits for is the one in the slot.
Waiting == server # 0 => slot # None /\ slot.ask = Asked(server)

WellFormed ==
  /\ \A a \in Ask : a.payload \in Malformed => posted[a] = 0
  /\ slot # None => slot.ask.payload \notin Malformed

NInv == /\ Types /\ CopyIsSlot /\ Apart /\ FreshUntilPosted /\ Accounted
        /\ PostedOnce /\ ResultsTrue /\ Answered /\ WellFormed /\ Waiting

-----------------------------------------------------------------------------
LEMMA AskTypes ==
  ASSUME Types
  PROVE  /\ \A n \in 1..Len(calls) : calls[n] \in Call /\ Asked(n) \in Ask
         /\ slot # None => slot \in Active /\ slot.ask \in Ask
         /\ last # None => last \in Cached /\ last.ask \in Ask
<1>1. \A n \in 1..Len(calls) : calls[n] \in Call
  BY DEF Types
<1>2. \A n \in 1..Len(calls) : Asked(n) \in Ask
  BY <1>1 DEF Asked, Call, Ask
<1>3. slot # None => slot \in Active /\ slot.ask \in Ask
  BY DEF Types, Active
<1>4. last # None => last \in Cached /\ last.ask \in Ask
  BY DEF Types, Cached
<1> QED BY <1>1, <1>2, <1>3, <1>4

(* What a client is told (_parse_response, _normalize).                    *)
LEMMA Told ==
  ASSUME NEW outcome \in Decided \cup {"conflict", "busy", "late"}, NEW p
  PROVE  /\ Normalize(outcome, p) \in Statuses
         /\ Normalize(outcome, p) = "confirmed_by_packet" => outcome = "confirmed"
         /\ Normalize(outcome, p) = "rejected" => outcome \in {"rejected", "conflict"}
BY DEF Normalize, Decided, Statuses

(* An answer changes the status of one connection and nothing else.        *)
LEMMA AnswerEffect ==
  ASSUME calls \in Seq(Call), NEW n \in 1..Len(calls),
         NEW outcome \in Decided \cup {"conflict", "busy", "late"},
         Answer(n, outcome)
  PROVE  /\ calls' \in Seq(Call) /\ Len(calls') = Len(calls)
         /\ \A m \in 1..Len(calls) : Asked(m)' = Asked(m)
         /\ \A m \in 1..Len(calls) :
              \/ calls'[m].status = calls[m].status
              \/ m = n /\ calls'[m].status = Normalize(outcome, calls[n].payload)
<1>1. CASE calls[n].status # "waiting"
  BY <1>1 DEF Answer, Asked
<1>2. CASE calls[n].status = "waiting"
  <2> DEFINE told == [calls[n] EXCEPT !.status = Normalize(outcome, calls[n].payload)]
  <2>1. calls' = [calls EXCEPT ![n] = told]
    BY <1>2 DEF Answer
  <2>2. calls[n] \in Call
    OBVIOUS
  <2>3. told \in Call /\ told.id = calls[n].id /\ told.payload = calls[n].payload
        /\ told.status = Normalize(outcome, calls[n].payload)
    BY <2>2, Told DEF Call
  <2> HIDE DEF told
  <2>4. calls' \in Seq(Call) /\ Len(calls') = Len(calls)
    BY <2>1, <2>3
  <2>5. \A m \in 1..Len(calls) : calls'[m] = IF m = n THEN told ELSE calls[m]
    BY <2>1
  <2> QED BY <2>3, <2>4, <2>5 DEF Asked
<1> QED BY <1>1, <1>2

(* A refused request was not posted under an id that is remembered.        *)
LEMMA SettledNotPosted ==
  ASSUME NInv, NEW a \in Ask, Settled(a)
  PROVE  posted[a] = 0 \/ a.id \in forgotten
<1>0. posted[a] \in Nat
  BY DEF NInv, Types
<1>1. CASE a.payload \in Malformed
  BY <1>1 DEF NInv, WellFormed
<1>2. CASE slot # None /\ slot.ask.id = a.id /\ slot.ask # a
  BY <1>0, <1>2 DEF NInv, Accounted, Apart
<1>3. CASE last # None /\ last.ask.id = a.id /\ last.ask # a
  BY <1>0, <1>3 DEF NInv, Accounted, Apart
<1>4. CASE last # None /\ last.ask.id = a.id /\ last.ask = a /\ last.result = "rejected"
  BY <1>4 DEF NInv, ResultsTrue, True
<1> QED BY <1>1, <1>2, <1>3, <1>4 DEF Settled

-----------------------------------------------------------------------------
(* Clients and the answers they get leave everything but calls and queue.  *)
LEMMA OnlyCalls ==
  ASSUME NInv, calls' \in Seq(Call), queue' \in Seq(Nat),
         \A k \in 1..Len(queue') : queue'[k] \in 1..Len(calls'),
         server' \in 0..Len(calls'), Answered', Waiting',
         UNCHANGED <<slot, last, generation, game, posted, forgotten>>
  PROVE  NInv'
<1>1. Types'
  BY DEF NInv, Types, GameTypes
<1>2. CopyIsSlot' /\ Apart' /\ PostedOnce'
  BY DEF NInv, CopyIsSlot, Apart, PostedOnce
<1>3. FreshUntilPosted' /\ Accounted'
  BY DEF NInv, FreshUntilPosted, Unposted, Accounted
<1>4. ResultsTrue' /\ WellFormed'
  BY DEF NInv, ResultsTrue, True, WellFormed
<1> QED BY <1>1, <1>2, <1>3, <1>4 DEF NInv

LEMMA ConnectKeeps ==
  ASSUME NInv, NEW i \in Ids, NEW p \in Payloads, Connect(i, p)
  PROVE  NInv'
<1> DEFINE new == [id |-> i, payload |-> p, status |-> "waiting"]
<1>1. new \in Call /\ new.status = "waiting"
  BY DEF Call
<1>2. calls' = Append(calls, new) /\ queue' = Append(queue, Len(calls) + 1)
  BY DEF Connect
<1> HIDE DEF new
<1>3. calls \in Seq(Call) /\ queue \in Seq(Nat) /\ server \in 0..Len(calls)
      /\ \A k \in 1..Len(queue) : queue[k] \in 1..Len(calls)
  BY DEF NInv, Types
<1>4. calls' \in Seq(Call) /\ Len(calls') = Len(calls) + 1 /\ calls'[Len(calls) + 1] = new
      /\ \A n \in 1..Len(calls) : calls'[n] = calls[n]
  BY <1>1, <1>2, <1>3
<1>5. queue' \in Seq(Nat) /\ \A k \in 1..Len(queue') : queue'[k] \in 1..Len(calls')
  BY <1>2, <1>3, <1>4
<1>6. UNCHANGED <<server, slot, last, generation, game, posted, forgotten>>
  BY DEF Connect
<1>7. Answered'
  <2> SUFFICES ASSUME NEW n \in 1..Len(calls')
               PROVE  /\ calls'[n].status = "confirmed_by_packet" => posted'[Asked(n)'] > 0
                      /\ calls'[n].status = "rejected" => Settled(Asked(n))'
    BY DEF Answered, Settled, Asked
  <2>1. CASE n = Len(calls) + 1
    BY <2>1, <1>1, <1>4
  <2>2. CASE n \in 1..Len(calls)
    BY <2>2, <1>4, <1>6 DEF NInv, Answered, Settled, Asked
  <2> QED BY <2>1, <2>2, <1>3, <1>4
<1>8. Waiting'
  BY <1>3, <1>4, <1>6 DEF NInv, Waiting, Asked
<1> QED BY <1>3, <1>4, <1>5, <1>6, <1>7, <1>8, OnlyCalls

LEMMA HangUpKeeps ==
  ASSUME NInv, NEW n \in DOMAIN calls, HangUp(n)
  PROVE  NInv'
<1> DEFINE failed == [calls[n] EXCEPT !.status = "failed"]
<1>1. calls \in Seq(Call) /\ n \in 1..Len(calls) /\ calls' = [calls EXCEPT ![n] = failed]
  BY DEF NInv, Types, HangUp
<1>2. failed \in Call /\ failed.status = "failed"
      /\ failed.id = calls[n].id /\ failed.payload = calls[n].payload
  <2>1. calls[n] \in Call
    BY <1>1
  <2> QED BY <2>1 DEF Call, Statuses
<1> HIDE DEF failed
<1>3. calls' \in Seq(Call) /\ Len(calls') = Len(calls)
      /\ \A m \in 1..Len(calls) : calls'[m] = IF m = n THEN failed ELSE calls[m]
  BY <1>1, <1>2
<1>4. UNCHANGED <<queue, server, slot, last, generation, game, posted, forgotten>>
  BY DEF HangUp
<1>5. Answered'
  <2> SUFFICES ASSUME NEW m \in 1..Len(calls)
               PROVE  /\ calls'[m].status = "confirmed_by_packet" => posted[Asked(m)'] > 0
                      /\ calls'[m].status = "rejected" => Settled(Asked(m))'
    BY <1>3, <1>4 DEF Answered
  <2>1. Asked(m)' = Asked(m)
    BY <1>2, <1>3 DEF Asked
  <2>2. Settled(Asked(m))' <=> Settled(Asked(m))
    BY <1>4, <2>1 DEF Settled
  <2> QED BY <1>2, <1>3, <2>1, <2>2 DEF NInv, Answered
<1>6. Waiting'
  <2> SUFFICES ASSUME server # 0 PROVE slot # None /\ slot.ask = Asked(server)'
    BY <1>4 DEF Waiting
  <2>1. server \in 1..Len(calls) /\ slot # None /\ slot.ask = Asked(server)
    BY DEF NInv, Types, Waiting
  <2>2. calls'[server].id = calls[server].id /\ calls'[server].payload = calls[server].payload
    BY <1>2, <1>3, <2>1
  <2> QED BY <1>4, <2>1, <2>2 DEF Asked
<1> QED BY <1>3, <1>4, <1>5, <1>6, OnlyCalls DEF NInv, Types

(* The first line of the queue is a connection; the rest are, too.         *)
LEMMA HeadLine ==
  ASSUME Types, Accepts
  PROVE  /\ Line \in 1..Len(calls) /\ Line # 0
         /\ Tail(queue) \in Seq(Nat)
         /\ \A k \in 1..Len(Tail(queue)) : Tail(queue)[k] \in 1..Len(calls)
<1>1. queue \in Seq(Nat) /\ queue # <<>> /\ \A k \in 1..Len(queue) : queue[k] \in 1..Len(calls)
  BY DEF Types, Accepts
<1>2. Len(queue) \in Nat /\ Len(queue) >= 1 /\ Head(queue) = queue[1]
  BY <1>1
<1>3. Tail(queue) \in Seq(Nat) /\ Len(Tail(queue)) = Len(queue) - 1
      /\ \A k \in 1..Len(Tail(queue)) : Tail(queue)[k] = queue[k + 1]
  BY <1>1
<1>4. Len(calls) \in Nat
  BY DEF Types
<1> QED BY <1>1, <1>2, <1>3, <1>4 DEF Line

(* An answer is in order if a confirmation was earned and a refusal settled. *)
LEMMA AnswerKeepsAnswered ==
  ASSUME NInv, NEW n \in 1..Len(calls),
         NEW outcome \in Decided \cup {"conflict", "busy", "late"}, Answer(n, outcome),
         posted' = posted, \A a \in Ask : Settled(a) => Settled(a)',
         outcome = "confirmed" => posted[Asked(n)] > 0,
         outcome \in {"rejected", "conflict"} => Settled(Asked(n))'
  PROVE  Answered' /\ calls' \in Seq(Call) /\ Len(calls') = Len(calls)
<1>1. calls \in Seq(Call)
  BY DEF NInv, Types
<1>2. /\ calls' \in Seq(Call) /\ Len(calls') = Len(calls)
      /\ \A m \in 1..Len(calls) : Asked(m)' = Asked(m)
      /\ \A m \in 1..Len(calls) :
           \/ calls'[m].status = calls[m].status
           \/ m = n /\ calls'[m].status = Normalize(outcome, calls[n].payload)
  BY <1>1, AnswerEffect
<1>3. ASSUME NEW m \in 1..Len(calls')
      PROVE  /\ calls'[m].status = "confirmed_by_packet" => posted'[Asked(m)'] > 0
             /\ calls'[m].status = "rejected" => Settled(Asked(m))'
  <2>1. m \in 1..Len(calls) /\ Asked(m)' = Asked(m) /\ Asked(m) \in Ask
    BY <1>2, AskTypes DEF NInv
  <2>2. Settled(Asked(m)) => Settled(Asked(m))'
    BY <2>1
  <2>3. CASE calls'[m].status = calls[m].status
    BY <2>1, <2>2, <2>3 DEF NInv, Answered
  <2>4. CASE m = n /\ calls'[m].status = Normalize(outcome, calls[n].payload)
    BY <2>1, <2>4, Told
  <2> QED BY <1>2, <2>1, <2>3, <2>4
<1>4. Answered'
  BY <1>3 DEF Answered
<1> QED BY <1>2, <1>4

-----------------------------------------------------------------------------
(* The socket thread.                                                      *)
LEMMA ReplyKeeps ==
  ASSUME NInv, Accepts, NEW outcome \in Decided \cup {"conflict", "busy", "late"},
         Reply(outcome),
         outcome = "confirmed" => posted[Asked(Line)] > 0,
         outcome \in {"rejected", "conflict"} => Settled(Asked(Line))
  PROVE  NInv'
<1>1. PICK n \in 1..Len(calls) : n = Line
  BY HeadLine DEF NInv
<1>2. Tail(queue) \in Seq(Nat)
      /\ \A k \in 1..Len(Tail(queue)) : Tail(queue)[k] \in 1..Len(calls)
  BY HeadLine DEF NInv
<1>3. Answer(n, outcome) /\ queue' = Tail(queue)
      /\ UNCHANGED <<server, slot, last, generation, game, posted, forgotten>>
  BY <1>1 DEF Reply
<1>4. calls \in Seq(Call) /\ server \in 0..Len(calls)
  BY DEF NInv, Types
<1>5. \A a \in Ask : Settled(a) => Settled(a)'
  BY <1>3 DEF Settled
<1>6. Asked(n)' = Asked(n)
  BY <1>3, <1>4, AnswerEffect
<1>7. ASSUME outcome \in {"rejected", "conflict"} PROVE Settled(Asked(n))'
  BY <1>1, <1>3, <1>6, <1>7 DEF Settled
<1>8. Answered' /\ calls' \in Seq(Call) /\ Len(calls') = Len(calls)
  BY <1>1, <1>3, <1>5, <1>7, AnswerKeepsAnswered
<1>9. Waiting'
  BY <1>3 DEF Accepts, Waiting
<1> QED BY <1>2, <1>3, <1>4, <1>8, <1>9, OnlyCalls

\* Asked(Line) and what the invariant says of it.
LEMMA FirstAsk ==
  ASSUME NInv, Accepts
  PROVE  Asked(Line) \in Ask
BY HeadLine, AskTypes DEF NInv

LEMMA RefuseKeeps ==
  ASSUME NInv, Refuse
  PROVE  NInv'
<1>1. Settled(Asked(Line)) /\ Accepts /\ Reply("rejected")
  BY DEF Refuse, Settled
<1> QED BY <1>1, ReplyKeeps DEF Decided

LEMMA ReplayKeeps ==
  ASSUME NInv, Replay
  PROVE  NInv'
<1>1. Accepts /\ last # None /\ last.ask = Asked(Line) /\ Reply(last.result)
  BY DEF Replay, Parsed, Remembered
<1>2. last.result \in Decided /\ True(last.ask, last.result)
  BY <1>1, AskTypes DEF NInv, ResultsTrue, Cached
<1>3. last.result = "confirmed" => posted[Asked(Line)] > 0
  BY <1>1, <1>2 DEF True
<1>4. last.result = "rejected" => Settled(Asked(Line))
  BY <1>1 DEF Settled
<1>5. last.result # "conflict"
  BY <1>2 DEF Decided
<1>6. PICK outcome \in Decided : outcome = last.result
  BY <1>2
<1> QED BY <1>1, <1>3, <1>4, <1>5, <1>6, ReplyKeeps

LEMMA ConflictKeeps ==
  ASSUME NInv, Conflict
  PROVE  NInv'
<1>1. Accepts /\ Reply("conflict") /\ Settled(Asked(Line))
  BY DEF Conflict, Parsed, Remembered, InSlot, SameRequest, Settled
<1> QED BY <1>1, ReplyKeeps

LEMMA BusyKeeps ==
  ASSUME NInv, Busy
  PROVE  NInv'
<1>1. Accepts /\ Reply("busy")
  BY DEF Busy, Parsed
<1> QED BY <1>1, ReplyKeeps

LEMMA JoinKeeps ==
  ASSUME NInv, Join
  PROVE  NInv'
<1>1. Accepts
  BY DEF Join, Parsed
<1>2. Line \in 1..Len(calls) /\ Tail(queue) \in Seq(Nat)
      /\ \A k \in 1..Len(Tail(queue)) : Tail(queue)[k] \in 1..Len(calls)
  BY <1>1, HeadLine DEF NInv
<1>3. server' = Line /\ queue' = Tail(queue)
      /\ UNCHANGED <<calls, slot, last, generation, game, posted, forgotten>>
  BY DEF Join, Wait
<1>4. Answered'
  BY <1>3 DEF NInv, Answered, Settled, Asked
<1>5. calls \in Seq(Call) /\ Len(calls) \in Nat
  BY DEF NInv, Types
<1>6. Waiting'
  BY <1>3 DEF Join, InSlot, SameRequest, Waiting, Asked
<1> QED BY <1>2, <1>3, <1>4, <1>5, <1>6, OnlyCalls

LEMMA ActivateKeeps ==
  ASSUME NInv, Activate
  PROVE  NInv'
<1> DEFINE ask == Asked(Line)
<1>1. /\ Accepts /\ slot = None /\ ask.payload \notin Malformed
      /\ last = None \/ last.ask.id # ask.id
  BY DEF Activate, Parsed, Remembered
<1>2. ask \in Ask
  BY <1>1, FirstAsk
<1>3. Line \in 1..Len(calls) /\ Tail(queue) \in Seq(Nat)
      /\ \A k \in 1..Len(Tail(queue)) : Tail(queue)[k] \in 1..Len(calls)
  BY <1>1, HeadLine DEF NInv
<1>4. /\ slot' = [gen |-> generation + 1, ask |-> ask, phase |-> "pending", result |-> None]
      /\ generation' = generation + 1 /\ server' = Line /\ queue' = Tail(queue)
      /\ UNCHANGED <<calls, last, game, posted, forgotten>>
  BY DEF Activate, Wait
<1> HIDE DEF ask
<1>5. slot' \in Active /\ slot' # None /\ slot'.ask = ask /\ slot'.phase = "pending"
  <2>1. generation + 1 \in Nat
    BY DEF NInv, Types
  <2>2. slot' \in Active
    BY <1>2, <1>4, <2>1 DEF Active
  <2> QED BY <1>4, <2>2, NativeAssumption
<1>6. game.at \notin {"prepare", "post", "verify"}
  BY <1>1, NativeAssumption DEF NInv, Types, GameTypes, CopyIsSlot, Active
<1>7. Types'
  BY <1>3, <1>4, <1>5 DEF NInv, Types, GameTypes
<1>8. CopyIsSlot' /\ Apart'
  BY <1>1, <1>4, <1>5, <1>6 DEF CopyIsSlot, Apart
<1>9. FreshUntilPosted'
  <2> SUFFICES ASSUME NEW a \in Ask, a.id = ask.id, posted[a] > 0 PROVE a.id \in forgotten
    BY <1>4, <1>5 DEF FreshUntilPosted
  <2>1. a.id \in forgotten \/ (last # None /\ last.ask = a)
    BY <1>1 DEF NInv, Accounted
  <2> QED BY <1>1, <2>1
<1>10. Accounted' /\ PostedOnce'
  BY <1>1, <1>4 DEF NInv, Accounted, PostedOnce
<1>11. ResultsTrue' /\ WellFormed'
  BY <1>1, <1>4, <1>5 DEF NInv, ResultsTrue, True, WellFormed
<1>12. Answered'
  BY <1>1, <1>4 DEF NInv, Answered, Settled, Asked
<1>13. Waiting'
  BY <1>4, <1>5 DEF ask, Waiting, Asked
<1> QED BY <1>7, <1>8, <1>9, <1>10, <1>11, <1>12, <1>13 DEF NInv

LEMMA RespondKeeps ==
  ASSUME NInv, Respond
  PROVE  NInv'
<1>1. /\ slot # None /\ slot \in Active /\ slot.ask \in Ask /\ slot.phase = "done"
      /\ slot.result \in Decided /\ True(slot.ask, slot.result)
  BY AskTypes DEF NInv, Respond, Completed, ResultsTrue
<1>2. /\ server \in 1..Len(calls) /\ Answer(server, slot.result)
      /\ forgotten' = (IF last = None THEN forgotten ELSE forgotten \cup {last.ask.id})
      /\ last' = [ask |-> slot.ask, result |-> slot.result] /\ slot' = None /\ server' = 0
      /\ UNCHANGED <<queue, generation, game, posted>>
  BY DEF Respond, FreeSlot, NInv, Types
<1>3. last' \in Cached /\ last' # None /\ last'.ask = slot.ask /\ last'.result = slot.result
  <2>1. last' \in Cached
    BY <1>1, <1>2 DEF Cached
  <2> QED BY <1>2, <2>1, NativeAssumption
<1>4. /\ forgotten \subseteq forgotten' /\ forgotten' \subseteq Ids
      /\ last # None => last.ask.id \in forgotten'
  BY <1>2, AskTypes DEF NInv, Types, Ask
<1>5. game.at \notin {"prepare", "post", "verify"}
  BY <1>1 DEF NInv, Types, GameTypes, CopyIsSlot, Active
<1>6. \A a \in Ask : Settled(a) => Settled(a)'
  BY <1>1, <1>2, <1>3, <1>4 DEF Settled
<1>7. PICK n \in 1..Len(calls) : n = server
  BY <1>2
<1>8. PICK outcome \in Decided : outcome = slot.result
  BY <1>1
<1>9. Asked(n) \in Ask /\ Asked(n) = slot.ask /\ calls \in Seq(Call) /\ Answer(n, outcome)
  BY <1>2, <1>7, <1>8, AskTypes DEF NInv, Types, Waiting
<1>10. Asked(n)' = Asked(n)
  BY <1>8, <1>9, AnswerEffect
<1>11. outcome = "confirmed" => posted[Asked(n)] > 0
  BY <1>1, <1>8, <1>9 DEF True
<1>12. outcome \in {"rejected", "conflict"} => Settled(Asked(n))'
  BY <1>3, <1>8, <1>9, <1>10 DEF Settled, Decided
<1>13. posted' = posted
  BY <1>2
<1>14. Answered' /\ calls' \in Seq(Call) /\ Len(calls') = Len(calls)
  BY <1>6, <1>9, <1>11, <1>12, <1>13, AnswerKeepsAnswered
<1>15. Types'
  <2>1. calls' \in Seq(Call) /\ server' \in 0..Len(calls')
    BY <1>2, <1>14
  <2>2. queue' \in Seq(Nat) /\ \A k \in 1..Len(queue') : queue'[k] \in 1..Len(calls')
    BY <1>2, <1>14 DEF NInv, Types
  <2>3. UNCHANGED <<game, generation, posted>>
    BY <1>2
  <2>4. GameTypes'
    BY <2>3 DEF NInv, Types, GameTypes
  <2>5. generation \in Nat /\ posted \in [Ask -> Nat] /\ slot' = None
    BY <1>2 DEF NInv, Types
  <2>6. generation' \in Nat /\ posted' \in [Ask -> Nat]
    BY <2>3, <2>5
  <2>7. slot' \in Active \cup {None} /\ last' \in Cached \cup {None} /\ forgotten' \subseteq Ids
    BY <1>3, <1>4, <2>5
  <2> QED BY <2>1, <2>2, <2>4, <2>6, <2>7 DEF Types
<1>16. CopyIsSlot' /\ Apart' /\ FreshUntilPosted' /\ WellFormed' /\ Waiting'
  BY <1>2, <1>5 DEF NInv, CopyIsSlot, Apart, FreshUntilPosted, Unposted, WellFormed, Waiting
<1>17. Accounted' /\ PostedOnce'
  BY <1>1, <1>2, <1>3, <1>4 DEF NInv, Accounted, PostedOnce
<1>18. ResultsTrue'
  BY <1>1, <1>2, <1>3, <1>4 DEF ResultsTrue, True
<1> QED BY <1>14, <1>15, <1>16, <1>17, <1>18 DEF NInv

LEMMA ResponseTimeoutKeeps ==
  ASSUME NInv, ResponseTimeout
  PROVE  NInv'
<1>1. /\ server \in 1..Len(calls) /\ Answer(server, "late") /\ server' = 0
      /\ UNCHANGED <<queue, slot, last, generation, game, posted, forgotten>>
  BY DEF ResponseTimeout, SlotAfterTimeout, NInv, Types
<1>2. PICK n \in 1..Len(calls) : n = server
  BY <1>1
<1>3. \A a \in Ask : Settled(a) => Settled(a)'
  BY <1>1 DEF Settled
<1>4. Answered' /\ calls' \in Seq(Call) /\ Len(calls') = Len(calls)
  BY <1>1, <1>2, <1>3, AnswerKeepsAnswered
<1>5. Waiting'
  BY <1>1 DEF Waiting
<1>6. queue' \in Seq(Nat) /\ (\A k \in 1..Len(queue') : queue'[k] \in 1..Len(calls'))
      /\ server' \in 0..Len(calls')
  BY <1>1, <1>4 DEF NInv, Types
<1> QED BY <1>1, <1>4, <1>5, <1>6, OnlyCalls

-----------------------------------------------------------------------------
(* The game thread changes the slot's phase and result, and posts; it never *)
(* changes what is asked, so the answers given stay in order.              *)
GameFrame == UNCHANGED <<calls, queue, server, last, generation, forgotten>>

LEMMA GameKeepsAnswers ==
  ASSUME NInv, GameFrame, slot # None <=> slot' # None,
         slot # None => slot'.ask = slot.ask,
         \A a \in Ask : posted'[a] \in Nat /\ posted'[a] >= posted[a]
  PROVE  Answered' /\ Waiting'
<1>1. \A n \in 1..Len(calls) : Asked(n) \in Ask /\ Asked(n)' = Asked(n)
  BY AskTypes DEF NInv, GameFrame, Asked
<1>2. \A a \in Ask : Settled(a) => Settled(a)'
  BY DEF Settled, GameFrame
<1>3. \A a \in Ask : posted[a] \in Nat
  BY DEF NInv, Types
<1>4. Waiting'
  BY <1>1 DEF NInv, Types, Waiting, GameFrame, Asked
<1>5. ASSUME NEW n \in 1..Len(calls)
      PROVE  /\ calls'[n].status = "confirmed_by_packet" => posted'[Asked(n)'] > 0
             /\ calls'[n].status = "rejected" => Settled(Asked(n))'
  <2>1. Settled(Asked(n)) => Settled(Asked(n))'
    BY <1>1, <1>2
  <2> QED BY <1>1, <1>3, <2>1 DEF NInv, Answered, GameFrame
<1>6. Answered'
  BY <1>5 DEF Answered, GameFrame
<1> QED BY <1>4, <1>6

\* The game thread moves on and leaves the slot alone.
LEMMA OnlyGame ==
  ASSUME NInv, GameFrame, UNCHANGED <<slot, posted>>, GameTypes', CopyIsSlot',
         game.at # "post", game'.at # "post"
  PROVE  NInv'
<1>1. UNCHANGED <<calls, queue, server, last, generation, forgotten, slot, posted>>
  BY DEF GameFrame
<1>2. Answered' /\ Waiting'
  <2>1. \A a \in Ask : posted'[a] \in Nat /\ posted'[a] >= posted[a]
    BY <1>1 DEF NInv, Types
  <2> QED BY <1>1, <2>1, GameKeepsAnswers
<1>3. Types'
  BY <1>1 DEF NInv, Types
<1>4. Apart' /\ PostedOnce' /\ Accounted' /\ WellFormed'
  BY <1>1 DEF NInv, Apart, PostedOnce, Accounted, WellFormed
<1>5. FreshUntilPosted' /\ ResultsTrue'
  BY <1>1 DEF NInv, FreshUntilPosted, Unposted, ResultsTrue, True
<1> QED BY <1>2, <1>3, <1>4, <1>5 DEF NInv

\* The game thread goes on to a stage in which it has no copy.
LEMMA GoesOn ==
  ASSUME NEW stage \in {"idle", "update"}, Goes(stage)
  PROVE  GameTypes' /\ CopyIsSlot' /\ game'.at = stage
BY DEF Goes, GameTypes, CopyIsSlot, Stages

LEMMA NothingToDoKeeps ==
  ASSUME NInv, NothingPending \/ NothingPosted \/ NotYet
  PROVE  NInv'
<1>1. GameFrame /\ UNCHANGED <<slot, posted>> /\ game.at # "post"
  BY DEF NothingPending, NothingPosted, NotYet, GameOnly, GameFrame
<1>2. Goes("idle") \/ Goes("update")
  BY DEF NothingPending, NothingPosted, NotYet
<1>3. GameTypes' /\ CopyIsSlot' /\ game'.at # "post"
  BY <1>2, GoesOn
<1> QED BY <1>1, <1>3, OnlyGame

LEMMA CopyKeeps ==
  ASSUME NInv, CopyPending \/ CopyPosted
  PROVE  NInv'
<1>1. GameFrame /\ UNCHANGED <<slot, posted>> /\ game.at # "post" /\ slot \in Active
  BY AskTypes DEF NInv, CopyPending, Pending, CopyPosted, GameOnly, GameFrame
<1>2. \/ slot.phase = "pending" /\ game' = [at |-> "prepare", copy |-> slot]
      \/ slot.phase = "posted" /\ game' = [at |-> "verify", copy |-> slot]
  BY DEF CopyPending, Pending, CopyPosted
<1>3. GameTypes' /\ CopyIsSlot' /\ game'.at # "post"
  BY <1>1, <1>2 DEF GameTypes, CopyIsSlot, Stages
<1> QED BY <1>1, <1>3, OnlyGame

(* A request is done when its result is stored, and the result is true.    *)
LEMMA DoneKeeps ==
  ASSUME NInv, GameFrame, UNCHANGED posted, slot # None, NEW result \in Decided,
         slot' = DoneWith(result), True(slot.ask, result),
         GameTypes', CopyIsSlot', game'.at # "post"
  PROVE  NInv'
<1>1. slot \in Active
  BY AskTypes DEF NInv
<1>2. slot' \in Active /\ slot'.ask = slot.ask /\ slot'.phase = "done" /\ slot'.result = result
  BY <1>1 DEF DoneWith, Active
<1>3. slot' # None
  BY <1>2, NativeAssumption
<1>4. UNCHANGED <<calls, queue, server, last, generation, forgotten, posted>>
  BY DEF GameFrame
<1>5. Answered' /\ Waiting'
  <2>1. \A a \in Ask : posted'[a] \in Nat /\ posted'[a] >= posted[a]
    BY <1>4 DEF NInv, Types
  <2> QED BY <1>2, <1>3, <2>1, GameKeepsAnswers
<1>6. Types'
  BY <1>2, <1>4 DEF NInv, Types
<1>7. Apart' /\ PostedOnce' /\ Accounted' /\ WellFormed'
  BY <1>2, <1>3, <1>4 DEF NInv, Apart, PostedOnce, Accounted, WellFormed
<1>8. FreshUntilPosted'
  BY <1>2 DEF FreshUntilPosted, Unposted
<1>9. ResultsTrue'
  BY <1>2, <1>3, <1>4 DEF NInv, ResultsTrue, True
<1> QED BY <1>5, <1>6, <1>7, <1>8, <1>9 DEF NInv

LEMMA PrepareRefusesKeeps ==
  ASSUME NInv, NEW r \in {"rejected", "failed"}, PrepareRefuses(r)
  PROVE  NInv'
<1>1. slot = game.copy /\ slot \in Active /\ slot # None /\ slot.phase = "pending"
  BY NativeAssumption DEF NInv, PrepareRefuses, CopyIsSlot, Types, GameTypes
<1>2. slot' = DoneWith(r) /\ Goes("update") /\ GameFrame /\ UNCHANGED posted
  BY <1>1 DEF PrepareRefuses, Finish, GameOnly, GameFrame
<1>3. True(slot.ask, r)
  <2>1. slot.ask \in Ask /\ posted[slot.ask] \in Nat
    BY <1>1, AskTypes DEF NInv, Types
  <2>2. posted[slot.ask] > 0 => slot.ask.id \in forgotten
    BY <1>1, <2>1 DEF NInv, FreshUntilPosted, Unposted
  <2> QED BY <2>1, <2>2 DEF True
<1>4. GameTypes' /\ CopyIsSlot' /\ game'.at # "post"
  BY <1>2, GoesOn
<1>5. r \in Decided
  BY DEF Decided
<1> QED BY <1>1, <1>2, <1>3, <1>4, <1>5, DoneKeeps

LEMMA VerifiedKeeps ==
  ASSUME NInv, NEW r \in {"confirmed", "pending"}, Verified(r)
  PROVE  NInv'
<1>1. slot = game.copy /\ slot \in Active /\ slot # None /\ slot.phase = "posted"
  BY NativeAssumption DEF NInv, Verified, CopyIsSlot, Types, GameTypes
<1>2. slot' = DoneWith(r) /\ Goes("idle") /\ GameFrame /\ UNCHANGED posted /\ game.at = "verify"
  BY <1>1 DEF Verified, Finish, GameOnly, GameFrame
<1>3. True(slot.ask, r)
  BY <1>1, <1>2 DEF NInv, ResultsTrue, True
<1>4. GameTypes' /\ CopyIsSlot' /\ game'.at # "post"
  BY <1>2, GoesOn
<1>5. r \in Decided
  BY DEF Decided
<1> QED BY <1>1, <1>2, <1>3, <1>4, <1>5, DoneKeeps

LEMMA ThrowKeeps ==
  ASSUME NInv, Throw
  PROVE  NInv'
<1>1. slot \in Active /\ slot # None /\ slot.phase # "done"
  BY NativeAssumption DEF NInv, Throw, CopyIsSlot, Types, GameTypes
<1>2. slot' = DoneWith("failed") /\ GameFrame /\ UNCHANGED posted
  BY <1>1 DEF Throw, FailActive, GameOnly, GameFrame
<1>3. Goes("update") \/ Goes("idle")
  BY DEF Throw
<1>4. GameTypes' /\ CopyIsSlot' /\ game'.at # "post"
  BY <1>3, GoesOn
<1>5. True(slot.ask, "failed") /\ "failed" \in Decided
  BY DEF True, Decided
<1> QED BY <1>1, <1>2, <1>4, <1>5, DoneKeeps

LEMMA MarkPostedKeeps ==
  ASSUME NInv, MarkPosted
  PROVE  NInv'
<1>1. slot = game.copy /\ slot \in Active /\ slot # None /\ slot.phase = "pending"
  BY NativeAssumption DEF NInv, MarkPosted, CopyIsSlot, Types, GameTypes
<1>2. /\ slot' = [slot EXCEPT !.phase = "posted"] /\ game' = [game EXCEPT !.at = "post"]
      /\ UNCHANGED <<calls, queue, server, last, generation, forgotten, posted>>
  BY <1>1 DEF MarkPosted, GameOnly
<1>3. game' = [at |-> "post", copy |-> slot]
  BY <1>1, <1>2 DEF NInv, Types, GameTypes
<1>4. slot' \in Active /\ slot'.ask = slot.ask /\ slot'.phase = "posted"
  BY <1>1, <1>2 DEF Active
<1>5. slot' # None
  BY <1>4, NativeAssumption
<1>6. GameTypes' /\ CopyIsSlot'
  BY <1>1, <1>2, <1>3 DEF GameTypes, CopyIsSlot, Stages
<1>7. Answered' /\ Waiting'
  <2>1. \A a \in Ask : posted'[a] \in Nat /\ posted'[a] >= posted[a]
    BY <1>2 DEF NInv, Types
  <2> QED BY <1>1, <1>2, <1>4, <1>5, <2>1, GameKeepsAnswers DEF GameFrame
<1>8. Types'
  BY <1>2, <1>4, <1>6 DEF NInv, Types
<1>9. Apart' /\ PostedOnce' /\ Accounted' /\ WellFormed'
  BY <1>1, <1>2, <1>4, <1>5 DEF NInv, Apart, PostedOnce, Accounted, WellFormed
<1>10. FreshUntilPosted'
  BY <1>1, <1>2, <1>4 DEF NInv, FreshUntilPosted, Unposted
<1>11. ResultsTrue'
  BY <1>2, <1>3, <1>4 DEF NInv, ResultsTrue, True
<1> QED BY <1>6, <1>7, <1>8, <1>9, <1>10, <1>11 DEF NInv

LEMMA PostCommandKeeps ==
  ASSUME NInv, PostCommand
  PROVE  NInv'
<1>1. game.at = "post" /\ game.copy \in Active /\ slot = [game.copy EXCEPT !.phase = "posted"]
  BY DEF NInv, PostCommand, CopyIsSlot, Types, GameTypes
<1>2. slot \in Active /\ slot # None /\ slot.phase = "posted" /\ slot.ask = game.copy.ask
  <2>1. slot.phase = "posted" /\ slot.ask = game.copy.ask /\ slot \in Active
    BY <1>1 DEF Active
  <2> QED BY <2>1, NativeAssumption
<1>3. PICK ask \in Ask : ask = slot.ask
  BY <1>2 DEF Active
<1>4. /\ posted' = [posted EXCEPT ![ask] = posted[ask] + 1] /\ Goes("update")
      /\ UNCHANGED <<calls, queue, server, last, generation, forgotten, slot>>
  BY <1>2, <1>3 DEF PostCommand, GameOnly
<1>5. posted \in [Ask -> Nat]
  BY DEF NInv, Types
<1>6. /\ posted' \in [Ask -> Nat] /\ posted'[ask] = posted[ask] + 1
      /\ \A a \in Ask : a # ask => posted'[a] = posted[a]
  BY <1>4, <1>5
<1>7. \A a \in Ask : posted[a] \in Nat /\ posted'[a] \in Nat /\ posted'[a] >= posted[a]
  BY <1>5, <1>6
<1>8. GameTypes' /\ CopyIsSlot' /\ game'.at = "update"
  BY <1>4, GoesOn
<1>9. Answered' /\ Waiting'
  BY <1>4, <1>7, GameKeepsAnswers DEF GameFrame
<1>10. \A a \in Ask : a.id = ask.id /\ posted[a] > 0 => a.id \in forgotten
  BY <1>1, <1>2, <1>3 DEF NInv, FreshUntilPosted, Unposted
<1>11. Types'
  BY <1>4, <1>6, <1>8 DEF NInv, Types
<1>12. Apart' /\ FreshUntilPosted'
  BY <1>2, <1>4, <1>8 DEF NInv, Apart, FreshUntilPosted, Unposted
<1>13. Accounted'
  BY <1>2, <1>3, <1>4, <1>6 DEF NInv, Accounted
<1>14. PostedOnce'
  <2> SUFFICES ASSUME NEW a \in Ask, NEW b \in Ask
               PROVE  /\ posted'[a] > 1 => a.id \in forgotten
                      /\ posted'[a] > 0 /\ posted'[b] > 0 /\ a.id = b.id /\ a # b
                           => a.id \in forgotten
    BY <1>4 DEF PostedOnce
  <2>1. /\ posted[a] > 1 => a.id \in forgotten
        /\ posted[a] > 0 /\ posted[b] > 0 /\ a.id = b.id /\ a # b => a.id \in forgotten
    BY DEF NInv, PostedOnce
  <2> QED BY <1>6, <1>7, <1>10, <2>1
<1>15. WellFormed'
  BY <1>2, <1>3, <1>4, <1>6 DEF NInv, WellFormed
<1>16. ResultsTrue'
  <2>1. last # None => last.ask \in Ask /\ last.ask # ask
    BY <1>2, <1>3, AskTypes DEF NInv, Apart
  <2>2. last # None => True(last.ask, last.result)'
    BY <1>4, <1>6, <1>7, <2>1 DEF NInv, ResultsTrue, True
  <2>3. posted'[slot.ask] > 0
    BY <1>3, <1>6, <1>7
  <2> QED BY <1>2, <1>4, <2>2, <2>3 DEF ResultsTrue
<1> QED BY <1>8, <1>9, <1>11, <1>12, <1>13, <1>14, <1>15, <1>16 DEF NInv

-----------------------------------------------------------------------------
LEMMA InitEstablishes ==
  ASSUME Init
  PROVE  NInv
<1>1. calls = <<>> /\ queue = <<>> /\ server = 0 /\ slot = None /\ last = None
      /\ generation = 0 /\ game = [at |-> "idle", copy |-> None]
      /\ posted = [a \in Ask |-> 0] /\ forgotten = {}
  BY DEF Init
<1>2. Types
  BY <1>1 DEF Types, GameTypes, Stages
<1>3. CopyIsSlot /\ Apart /\ FreshUntilPosted /\ Accounted
  BY <1>1 DEF CopyIsSlot, Apart, FreshUntilPosted, Unposted, Accounted
<1>4. PostedOnce /\ ResultsTrue /\ Answered /\ WellFormed /\ Waiting
  BY <1>1 DEF PostedOnce, ResultsTrue, Answered, WellFormed, Waiting
<1> QED BY <1>2, <1>3, <1>4 DEF NInv

LEMMA StutterKeeps ==
  ASSUME NInv, UNCHANGED vars
  PROVE  NInv'
BY DEF vars, NInv, Types, GameTypes, CopyIsSlot, Apart, FreshUntilPosted, Unposted, Accounted,
       PostedOnce, ResultsTrue, True, Answered, Settled, Asked, WellFormed, Waiting

LEMMA StepKeeps ==
  ASSUME NInv, [Next]_vars
  PROVE  NInv'
<1>1. CASE Client
  BY <1>1, ConnectKeeps, HangUpKeeps DEF Client
<1>2. CASE SocketThread
  BY <1>2, RefuseKeeps, ReplayKeeps, ConflictKeeps, BusyKeeps, JoinKeeps, ActivateKeeps,
     RespondKeeps, ResponseTimeoutKeeps DEF SocketThread
<1>3. CASE GameThread
  BY <1>3, CopyKeeps, NothingToDoKeeps, MarkPostedKeeps, PostCommandKeeps, PrepareRefusesKeeps,
     VerifiedKeeps, ThrowKeeps DEF GameThread
<1>4. CASE UNCHANGED vars
  BY <1>4, StutterKeeps
<1> QED BY <1>1, <1>2, <1>3, <1>4 DEF Next

LEMMA Invariance == Spec => []NInv
BY InitEstablishes, StepKeeps, PTL DEF Spec

(* While the game thread works on its copy outside the lock, the request in *)
(* the slot is that copy: CompleteActive, FinishRequest and FailActive      *)
(* cannot have touched another one (runtime.cpp, g_request_mutex).          *)
THEOREM NativeSlotStandsStill == Spec => []SlotStandsStill
<1>1. NInv => SlotStandsStill
  BY DEF NInv, CopyIsSlot, SlotStandsStill
<1> QED BY <1>1, Invariance, PTL

(* A second command under an id needs another result to have replaced the   *)
(* first in g_last_result, for any number of ids, payloads and connections. *)
THEOREM NativePostedOnce == Spec => []PostedOnce
<1>1. NInv => PostedOnce
  BY DEF NInv
<1> QED BY <1>1, Invariance, PTL

(* What HandleRequest answered and _normalize made of it is true of the     *)
(* commands in the game: confirmed ones are there, refused ones are not.    *)
THEOREM NativeAnswersTrue == Spec => []AnswerIsTrue
<1>1. ASSUME NInv PROVE AnswerIsTrue
  <2>1. DOMAIN calls = 1..Len(calls)
    BY <1>1 DEF NInv, Types
  <2>2. ASSUME NEW n \in 1..Len(calls)
        PROVE  /\ calls[n].status = "confirmed_by_packet" => posted[Asked(n)] > 0
               /\ calls[n].status = "rejected" => posted[Asked(n)] = 0 \/ calls[n].id \in forgotten
    <3>1. Asked(n) \in Ask /\ Asked(n).id = calls[n].id
      BY <1>1, AskTypes DEF NInv, Asked
    <3>2. Settled(Asked(n)) => posted[Asked(n)] = 0 \/ Asked(n).id \in forgotten
      BY <1>1, <3>1, SettledNotPosted
    <3> QED BY <1>1, <3>1, <3>2 DEF NInv, Answered
  <2> QED BY <2>1, <2>2 DEF AnswerIsTrue
<1> QED BY <1>1, Invariance, PTL
=============================================================================
