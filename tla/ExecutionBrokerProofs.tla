----------------------- MODULE ExecutionBrokerProofs ------------------------
(***************************************************************************)
(* What the execution broker guarantees for any callers, ids, payloads and *)
(* requests, until an entry has been evicted: no id reaches the game twice *)
(* and the broker does what its promise says (unless an exception has      *)
(* hidden what a sequence sent), an id names one payload, and "confirmed"  *)
(* is remembered only of what was sent whole.  BrokerInv says who accounts *)
(* for an id that is in the game: the cache, or the one caller that holds  *)
(* the lock and has just sent it; AnswersInv says what the caches hold of  *)
(* the requests that were answered.                                        *)
(***************************************************************************)
EXTENDS ExecutionBroker, TLAPS

\* The part of a cache the argument looks at.
IsCache(c) ==
  /\ c = [entry |-> c.entry, order |-> c.order]
  /\ c.entry \in [Ids -> Entry \cup {None}]

Types ==
  /\ IsCache(done) /\ IsCache(doneSeqs)
  /\ pc \in [Callers -> {"idle", "locked", "sending", "raised"}]
  /\ call \in [Callers -> Requests]
  /\ step \in [Callers -> Nat]
  /\ out \in [Callers -> Seq(Statuses)]
  /\ sent \in [Ids -> 0..2]
  /\ evicted \in BOOLEAN /\ lost \in BOOLEAN

(* Only the holder of the lock is inside a request; before the dispatch     *)
(* nothing has been sent; every step that was sent has its outcome, unless  *)
(* an exception has taken the outcomes away.                               *)
OneInside ==
  \A c \in Callers :
    /\ pc[c] # "idle" => lock = c
    /\ pc[c] \in {"idle", "locked"} => step[c] = 0 /\ out[c] = <<>>
    /\ pc[c] = "sending" => Len(out[c]) = step[c]
    /\ pc[c] = "raised" => out[c] = <<>>
    /\ step[c] <= Len(call[c].steps)

\* A sequence that raised after a step is what has been lost.
LostKnown ==
  \A c \in Callers :
    pc[c] = "raised" /\ call[c].kind = "sequence" /\ step[c] > 0 => lost

Dispatched(c) == pc[c] \in {"sending", "raised"}

\* No id of the request that was dispatched has an answer yet.
FreshWhileSending ==
  \A c \in Callers : Dispatched(c) =>
    \A k \in DOMAIN call[c].steps : done.entry[call[c].steps[k].id] = None

\* Every id in the game is remembered or is a step just sent.
Accounted ==
  \A i \in Ids : sent[i] > 0 =>
    \/ done.entry[i] # None
    \/ \E c \in Callers : Dispatched(c) /\ \E k \in 1..step[c] : call[c].steps[k].id = i

BrokerInv ==
  /\ Types /\ OneInside /\ LostKnown /\ FreshWhileSending
  /\ Remembers => Accounted /\ \A i \in Ids : sent[i] <= 1

-----------------------------------------------------------------------------
(* What a request looks like (PreparedAction, OrderedActionSequence).      *)
LEMMA RequestShape ==
  ASSUME NEW r \in Requests
  PROVE  /\ r.id \in Ids /\ r.steps \in Seq(Action)
         /\ r.kind \in {"single", "sequence"}
         /\ \A k \in DOMAIN r.steps : r.steps[k] \in Action /\ r.steps[k].id \in Ids
         /\ \A j, k \in DOMAIN r.steps : r.steps[j].id = r.steps[k].id => j = k
         /\ r.kind = "single" => DOMAIN r.steps = 1..1 /\ r.steps[1].id = r.id
<1>1. r \in Request
  BY BrokerAssumption
<1>2. r.id \in Ids /\ r.steps \in Seq(Action) /\ r.kind \in {"single", "sequence"}
  BY <1>1 DEF Request
<1>3. \A k \in DOMAIN r.steps : r.steps[k] \in Action /\ r.steps[k].id \in Ids
  <2> TAKE k \in DOMAIN r.steps
  <2>1. r.steps[k] \in Action
    BY <1>2
  <2> QED BY <2>1 DEF Action
<1> QED
  BY <1>2, <1>3, BrokerAssumption

(* Trimming a cache forgets entries and changes none; when nothing is over  *)
(* the limit it forgets none (the popitem loop of execute).                 *)
LEMMA TrimForgets ==
  ASSUME NEW c, c.entry \in [Ids -> Entry \cup {None}]
  PROVE  /\ IsCache(Trim(c))
         /\ \A i \in Ids : Trim(c).entry[i] \in {c.entry[i], None}
         /\ Overflow(c) = 0 => Trim(c).entry = c.entry
<1> DEFINE gone == {c.order[k] : k \in 1..Overflow(c)}
           kept == [i \in Ids |-> IF i \in gone THEN None ELSE c.entry[i]]
<1>1. Trim(c) = [entry |-> kept, order |-> SubSeq(c.order, Overflow(c) + 1, Len(c.order))]
  BY DEF Trim
<1>2. kept \in [Ids -> Entry \cup {None}]
  OBVIOUS
<1>3. ASSUME Overflow(c) = 0 PROVE kept = c.entry
  <2>1. 1..Overflow(c) = {}
    BY <1>3 DEF Overflow
  <2> QED BY <2>1
<1> QED
  BY <1>1, <1>2, <1>3 DEF IsCache

(* Entries put into a cache are there, and replace nothing else.           *)
LEMMA PutKeeps ==
  ASSUME NEW c, c.entry \in [Ids -> Entry \cup {None}],
         NEW new, NEW order, \A i \in DOMAIN new : new[i] \in Entry
  PROVE  /\ PutAll(c, new, order).entry \in [Ids -> Entry \cup {None}]
         /\ \A i \in Ids : PutAll(c, new, order).entry[i] =
              IF i \in DOMAIN new THEN new[i] ELSE c.entry[i]
  BY DEF PutAll

(* Making an entry the most recent one changes no entry (move_to_end).     *)
LEMMA TouchKeeps ==
  ASSUME NEW c, IsCache(c), NEW i \in Ids
  PROVE  IsCache(Touch(c, i)) /\ Touch(c, i).entry = c.entry
  BY DEF Touch, IsCache

(* The entries of the steps of a request the backend answered for.         *)
LEMMA StepEntriesShape ==
  ASSUME NEW r \in Requests, NEW results \in Seq(Statuses),
         Len(results) <= Len(r.steps)
  PROVE  /\ DOMAIN StepEntries(r, results) = {r.steps[k].id : k \in 1..Len(results)}
         /\ \A i \in DOMAIN StepEntries(r, results) : StepEntries(r, results)[i] \in Entry
<1>1. DOMAIN results = 1..Len(results)
  OBVIOUS
<1>2. ASSUME NEW i \in {r.steps[k].id : k \in DOMAIN results}
      PROVE  StepEntries(r, results)[i] \in Entry
  <2> DEFINE k == CHOOSE k \in DOMAIN results : r.steps[k].id = i
  <2>1. k \in DOMAIN results
    BY <1>2
  <2>2. results[k] \in Statuses
    BY <2>1
  <2>3. r.steps \in Seq(Action) /\ k \in 1..Len(r.steps)
    BY <1>1, <2>1, RequestShape
  <2>4. r.steps[k] \in Action
    BY <2>3
  <2>5. <<r.steps[k]>> \in Seq(Action)
    BY <2>4
  <2>6. StepEntry(r.steps[k], results[k]) \in Entry
    BY <2>2, <2>5 DEF StepEntry, Entry, Result
  <2>7. StepEntries(r, results)[i] = StepEntry(r.steps[k], results[k])
    BY <1>2 DEF StepEntries
  <2> QED BY <2>6, <2>7
<1> QED
  BY <1>1, <1>2 DEF StepEntries

\* The ids that get an entry when a request ends.
Settled(r, results) ==
  IF r.kind = "single" THEN {r.id} ELSE {r.steps[k].id : k \in 1..Len(results)}

(* The end of a request: its ids are remembered, no other answer changes    *)
(* unless something is evicted, and the caller leaves (Remember).           *)
LEMMA RememberEffect ==
  ASSUME Types, NEW c \in Callers, NEW r \in Requests, NEW results \in Seq(Statuses),
         NEW result \in Result, Len(results) <= Len(r.steps),
         Remember(c, r, results, result)
  PROVE  /\ IsCache(done') /\ IsCache(doneSeqs') /\ evicted' \in BOOLEAN
         /\ sent' = sent /\ lost' = lost /\ Leave(c)
         /\ ~evicted' => /\ ~evicted
                         /\ \A i \in Ids :
                              IF i \in Settled(r, results) THEN done'.entry[i] \in Entry
                              ELSE done'.entry[i] = done.entry[i]
<1> DEFINE whole  == [print |-> r.steps, result |-> result]
           steps  == StepEntries(r, results)
           one    == [i \in {r.id} |-> whole]
           asked  == PutAll(done, steps, StepIds(r, results))
           single == PutAll(done, one, <<r.id>>)
           newReq == IF r.kind = "single" THEN single ELSE asked
           newSeq == IF r.kind = "single" THEN doneSeqs ELSE PutAll(doneSeqs, one, <<r.id>>)
<1>1. whole \in Entry
  BY RequestShape DEF Entry
<1>2. done.entry \in [Ids -> Entry \cup {None}] /\ doneSeqs.entry \in [Ids -> Entry \cup {None}]
  BY DEF Types, IsCache
<1>3. \A i \in DOMAIN one : one[i] \in Entry
  BY <1>1
<1>4. /\ DOMAIN steps = {r.steps[k].id : k \in 1..Len(results)}
      /\ \A i \in DOMAIN steps : steps[i] \in Entry
  BY StepEntriesShape
<1> HIDE DEF whole, steps
<1>5. /\ asked.entry \in [Ids -> Entry \cup {None}]
      /\ \A i \in Ids : asked.entry[i] = IF i \in DOMAIN steps THEN steps[i] ELSE done.entry[i]
  BY <1>2, <1>4, PutKeeps
<1>6. /\ single.entry \in [Ids -> Entry \cup {None}]
      /\ \A i \in Ids : single.entry[i] = IF i \in DOMAIN one THEN one[i] ELSE done.entry[i]
  BY <1>2, <1>3, PutKeeps
<1>7. PutAll(doneSeqs, one, <<r.id>>).entry \in [Ids -> Entry \cup {None}]
  BY <1>2, <1>3, PutKeeps
<1>8. newReq.entry \in [Ids -> Entry \cup {None}] /\ newSeq.entry \in [Ids -> Entry \cup {None}]
  BY <1>2, <1>5, <1>6, <1>7
<1>9. \A i \in Ids : IF i \in Settled(r, results) THEN newReq.entry[i] \in Entry
                     ELSE newReq.entry[i] = done.entry[i]
  BY <1>3, <1>4, <1>5, <1>6 DEF Settled
<1>10. /\ done' = Trim(newReq) /\ doneSeqs' = Trim(newSeq)
       /\ evicted' = (evicted \/ Overflow(newReq) # 0 \/ Overflow(newSeq) # 0)
       /\ Leave(c) /\ sent' = sent /\ lost' = lost
  BY DEF Remember, whole, steps
<1> HIDE DEF newReq, newSeq
<1>11. IsCache(Trim(newReq)) /\ IsCache(Trim(newSeq))
  BY <1>8, TrimForgets
<1>12. Overflow(newReq) = 0 => Trim(newReq).entry = newReq.entry
  BY <1>8, TrimForgets
<1> QED
  BY <1>9, <1>10, <1>11, <1>12 DEF Types

(* The same for the invariant: a request ends with everything it sent       *)
(* remembered.                                                             *)
LEMMA RememberKeeps ==
  ASSUME BrokerInv, NEW c \in Callers, pc[c] # "idle",
         NEW results \in Seq(Statuses), NEW result \in Result,
         Len(results) <= Len(call[c].steps),
         call[c].kind = "single" \/ Len(results) = step[c] \/ lost,
         Remember(c, call[c], results, result)
  PROVE  BrokerInv'
<1> DEFINE r == call[c]
<1>1. r \in Requests
  BY DEF BrokerInv, Types
<1>2. /\ IsCache(done') /\ IsCache(doneSeqs') /\ evicted' \in BOOLEAN
      /\ sent' = sent /\ lost' = lost /\ Leave(c)
      /\ ~evicted' => /\ ~evicted
                      /\ \A i \in Ids :
                           IF i \in Settled(r, results) THEN done'.entry[i] \in Entry
                           ELSE done'.entry[i] = done.entry[i]
  <2> HIDE DEF r
  <2>1. Types
    BY DEF BrokerInv
  <2>2. Len(results) <= Len(r.steps) /\ Remember(c, r, results, result)
    BY DEF r
  <2> QED BY <1>1, <2>1, <2>2, RememberEffect
<1>3. Rest \in Requests
  BY BrokerAssumption DEF Rest
<1>4. Types'
  BY <1>2, <1>3 DEF BrokerInv, Types, Leave
<1>5. \A d \in Callers : d # c => pc[d] = "idle"
  BY DEF BrokerInv, OneInside
<1>6. \A d \in Callers : pc'[d] = "idle"
  BY <1>2, <1>5 DEF BrokerInv, Types, Leave
<1>7. OneInside'
  <2> SUFFICES ASSUME NEW d \in Callers
               PROVE  step'[d] = 0 /\ out'[d] = <<>> /\ Len(call'[d].steps) \in Nat
    BY <1>6 DEF OneInside
  <2>1. step'[d] = 0 /\ out'[d] = <<>>
    BY <1>2, <1>5 DEF BrokerInv, Types, OneInside, Leave
  <2>2. call'[d] \in Requests
    BY <1>4 DEF Types
  <2>3. call'[d].steps \in Seq(Action)
    BY <2>2, RequestShape
  <2> QED BY <2>1, <2>3
<1>8. FreshWhileSending' /\ LostKnown'
  BY <1>6 DEF FreshWhileSending, Dispatched, LostKnown
<1>9. ASSUME Remembers'
      PROVE  Accounted' /\ \A i \in Ids : sent'[i] <= 1
  <2>1. ~evicted' /\ ~lost /\ Remembers
    BY <1>2, <1>9 DEF Remembers
  <2>2. Accounted /\ \A i \in Ids : sent[i] <= 1
    BY <2>1 DEF BrokerInv
  <2>3. ASSUME NEW i \in Ids, sent'[i] > 0
        PROVE  done'.entry[i] # None
    <3>1. done.entry[i] # None \/ \E k \in 1..step[c] : r.steps[k].id = i
      BY <1>2, <1>5, <2>2, <2>3 DEF Accounted, Dispatched
    <3>2. CASE done.entry[i] # None
      BY <1>2, <2>1, <3>2, BrokerAssumption
    <3>3. CASE \E k \in 1..step[c] : r.steps[k].id = i
      <4>1. i \in Settled(r, results)
        <5>1. CASE r.kind = "single"
          <6>1. r.steps[1].id = r.id /\ Len(r.steps) = 1
            BY <1>1, <5>1, BrokerAssumption
          <6>2. step[c] \in Nat /\ step[c] <= 1
            BY <6>1 DEF BrokerInv, Types, OneInside
          <6> HIDE DEF r
          <6> QED BY <3>3, <5>1, <6>1, <6>2 DEF Settled
        <5>2. CASE r.kind # "single"
          <6>1. Len(results) = step[c]
            BY <2>1, <5>2
          <6> HIDE DEF r
          <6> QED BY <3>3, <5>2, <6>1 DEF Settled
        <5> QED BY <5>1, <5>2
      <4> QED BY <1>2, <2>1, <4>1, BrokerAssumption
    <3> QED BY <3>1, <3>2, <3>3
  <2> QED BY <1>2, <2>2, <2>3 DEF Accounted
<1> QED
  BY <1>4, <1>7, <1>8, <1>9 DEF BrokerInv

(* BrokerInv holds at the start and is kept by every step.                 *)
LEMMA BrokerInvInit ==
  ASSUME Init PROVE BrokerInv
<1>1. Rest \in Requests
  BY BrokerAssumption DEF Rest
<1>2. Rest.steps \in Seq(Action)
  BY <1>1, RequestShape
<1>3. Types
  <2>1. IsCache(done) /\ IsCache(doneSeqs)
    BY DEF Init, Empty, IsCache
  <2>2. pc \in [Callers -> {"idle", "locked", "sending", "raised"}]
    BY DEF Init
  <2>3. call \in [Callers -> Requests] /\ step \in [Callers -> Nat]
        /\ evicted \in BOOLEAN /\ lost \in BOOLEAN
    BY <1>1 DEF Init
  <2>4. out \in [Callers -> Seq(Statuses)] /\ sent \in [Ids -> 0..2]
    BY DEF Init
  <2> QED BY <2>1, <2>2, <2>3, <2>4 DEF Types
<1>4. OneInside /\ LostKnown /\ FreshWhileSending
  BY <1>2 DEF Init, OneInside, LostKnown, FreshWhileSending, Dispatched
<1>5. Accounted /\ \A i \in Ids : sent[i] <= 1
  BY DEF Init, Accounted
<1> QED
  BY <1>3, <1>4, <1>5 DEF BrokerInv

(* The next step of a request has never been in the game.                  *)
LEMMA SendsFresh ==
  ASSUME BrokerInv, Remembers, NEW c \in Callers, pc[c] = "sending", MoreSteps(c)
  PROVE  LET i == call[c].steps[step[c] + 1].id
         IN i \in Ids /\ sent[i] = 0 /\ done.entry[i] = None
<1> DEFINE k == step[c] + 1
           i == call[c].steps[k].id
<1>1. call[c] \in Requests /\ step[c] \in Nat
  BY DEF BrokerInv, Types
<1>2. call[c].steps \in Seq(Action)
  BY <1>1, RequestShape
<1>3. k \in DOMAIN call[c].steps
  BY <1>1, <1>2 DEF MoreSteps
<1>4. i \in Ids /\ done.entry[i] = None
  BY <1>1, <1>3, RequestShape DEF BrokerInv, FreshWhileSending, Dispatched
<1>5. \A d \in Callers : Dispatched(d) => d = c
  BY DEF BrokerInv, OneInside, Dispatched
<1>6. \A m \in 1..step[c] : m \in DOMAIN call[c].steps /\ m # k
  BY <1>1, <1>2, <1>3
<1>7. \A m \in 1..step[c] : call[c].steps[m].id # i
  BY <1>1, <1>3, <1>6, RequestShape
<1>8. ~(sent[i] > 0)
  BY <1>4, <1>5, <1>7 DEF BrokerInv, Accounted
<1>9. sent[i] \in 0..2
  BY <1>4 DEF BrokerInv, Types
<1> QED BY <1>4, <1>8, <1>9

(* Handing a step to the game keeps every id accounted for, whether the     *)
(* backend answers or raises afterwards (SendStep, Raise).                  *)
LEMMA SendingKeeps ==
  ASSUME BrokerInv, NEW c \in Callers, pc[c] = "sending", MoreSteps(c), Sending(c),
         UNCHANGED <<done, call>>, Dispatched(c)'
  PROVE  /\ sent' \in [Ids -> 0..2] /\ step' = [step EXCEPT ![c] = @ + 1]
         /\ step[c] + 1 <= Len(call[c].steps)
         /\ Remembers => Accounted' /\ \A i \in Ids : sent'[i] <= 1
<1> DEFINE k == step[c] + 1
           i == call[c].steps[k].id
           v == IF sent[i] = 0 THEN 1 ELSE 2
<1>1. /\ call[c] \in Requests /\ step[c] \in Nat
      /\ sent \in [Ids -> 0..2] /\ step \in [Callers -> Nat]
  BY DEF BrokerInv, Types
<1>2. call[c].steps \in Seq(Action)
  BY <1>1, RequestShape
<1>3. k \in DOMAIN call[c].steps /\ k <= Len(call[c].steps) /\ k \in Nat
  BY <1>1, <1>2 DEF MoreSteps
<1>4. i \in Ids
  BY <1>1, <1>3, RequestShape
<1>5. sent' = [sent EXCEPT ![i] = v] /\ step' = [step EXCEPT ![c] = k]
  BY DEF Sending
<1>6. v \in 0..2 /\ (sent[i] = 0 => v = 1)
  OBVIOUS
<1>7. sent' \in [Ids -> 0..2]
  <2> HIDE DEF v, i
  <2> QED BY <1>1, <1>4, <1>5, <1>6
<1>8. ASSUME Remembers
      PROVE  Accounted' /\ \A j \in Ids : sent'[j] <= 1
  <2>1. sent[i] = 0
    BY <1>8, SendsFresh
  <2>2. \A j \in Ids : sent'[j] = IF j = i THEN 1 ELSE sent[j]
    <3>1. v = 1
      BY <1>6, <2>1
    <3> HIDE DEF v, i
    <3> QED BY <1>1, <1>5, <3>1
  <2>3. Accounted /\ \A j \in Ids : sent[j] <= 1
    BY <1>8 DEF BrokerInv
  <2>4. \A d \in Callers : Dispatched(d) => d = c
    BY DEF BrokerInv, OneInside, Dispatched
  <2>5. step'[c] = k /\ k \in 1..step'[c] /\ \A m \in 1..step[c] : m \in 1..step'[c]
    BY <1>1, <1>5
  <2>6. ASSUME NEW j \in Ids, sent'[j] > 0, done'.entry[j] = None
        PROVE  \E m \in 1..step'[c] : call'[c].steps[m].id = j
    <3>1. CASE j = i
      BY <2>5, <3>1
    <3>2. CASE j # i
      <4>1. sent[j] > 0 /\ done.entry[j] = None
        BY <2>2, <2>6, <3>2
      <4>2. \E m \in 1..step[c] : call[c].steps[m].id = j
        BY <2>3, <2>4, <4>1 DEF Accounted
      <4> QED BY <2>5, <4>2
    <3> QED BY <3>1, <3>2
  <2> HIDE DEF i
  <2> QED BY <2>2, <2>3, <2>6 DEF Accounted
<1> QED
  BY <1>1, <1>3, <1>5, <1>7, <1>8

\* The answer to a request that ends after its dispatch.
EndOf(c) ==
  IF call[c].kind = "single"
  THEN [status |-> IF out[c] = <<>> THEN "failed" ELSE out[c][1], attempted |-> 1]
  ELSE [status |-> SequenceStatus(out[c], Len(call[c].steps)), attempted |-> Len(out[c])]

(* A request that was dispatched ends with the outcomes of the steps that   *)
(* were sent, at most one for each (Finish).                                *)
LEMMA FinishResult ==
  ASSUME BrokerInv, NEW c \in Callers, Finish(c)
  PROVE  /\ out[c] \in Seq(Statuses) /\ Len(out[c]) <= Len(call[c].steps)
         /\ EndOf(c) \in Result /\ Remember(c, call[c], out[c], EndOf(c))
<1>1. /\ call[c] \in Requests /\ out[c] \in Seq(Statuses) /\ step[c] \in Nat
      /\ Dispatched(c)
  BY DEF BrokerInv, Types, Finish, Dispatched
<1>2. Len(call[c].steps) \in Nat
  BY <1>1, RequestShape
<1>3. Len(out[c]) <= Len(call[c].steps)
  BY <1>1, <1>2 DEF BrokerInv, OneInside, Dispatched
<1>4. SequenceStatus(out[c], Len(call[c].steps)) \in Statuses
  BY DEF SequenceStatus, Statuses
<1>5. (IF out[c] = <<>> THEN "failed" ELSE out[c][1]) \in Statuses
  BY <1>1 DEF Statuses
<1>6. EndOf(c) \in Result
  BY <1>1, <1>4, <1>5 DEF EndOf, Result
<1>7. Remember(c, call[c], out[c], EndOf(c))
  BY DEF Finish, EndOf
<1> QED BY <1>1, <1>3, <1>6, <1>7

(* Every step keeps what is accounted for (execute and execute_sequence,     *)
(* under _SIDE_EFFECT_LOCK).                                                *)
LEMMA BrokerInvStep ==
  ASSUME BrokerInv, [Next]_vars
  PROVE  BrokerInv'
<1> USE DEF BrokerInv
<1>1. CASE UNCHANGED vars
  BY <1>1 DEF vars, Types, IsCache, OneInside, LostKnown, FreshWhileSending,
              Dispatched, Accounted, Remembers
<1>2. ASSUME NEW c \in Callers, NEW r \in Requests, Enter(c, r)
      PROVE  BrokerInv'
  <2>1. \A d \in Callers : pc[d] = "idle"
    BY <1>2, BrokerAssumption DEF Enter, LockFree, OneInside, Types
  <2>2. r.steps \in Seq(Action)
    BY RequestShape
  <2>3. Types'
    BY <1>2 DEF Enter, Types, IsCache
  <2>4. OneInside'
    BY <1>2, <2>1, <2>2 DEF Enter, Types, OneInside
  <2>5. LostKnown' /\ FreshWhileSending' /\ (Accounted => Accounted')
    BY <1>2, <2>1 DEF Enter, Types, LostKnown, FreshWhileSending, Dispatched, Accounted
  <2> QED BY <1>2, <2>3, <2>4, <2>5 DEF Enter, Remembers
<1>3. ASSUME NEW c \in Callers, pc[c] = "locked", Leave(c), UNCHANGED <<sent, evicted, lost>>,
             IsCache(done'), IsCache(doneSeqs'), done'.entry = done.entry
      PROVE  BrokerInv'
  <2>1. Rest \in Requests
    BY BrokerAssumption DEF Rest
  <2>2. Rest.steps \in Seq(Action)
    BY <2>1, RequestShape
  <2>3. Types'
    BY <1>3, <2>1 DEF Leave, Types
  <2>4. OneInside'
    BY <1>3, <2>2 DEF Leave, Types, OneInside
  <2>5. /\ pc'[c] = "idle" /\ UNCHANGED <<sent, lost>> /\ done'.entry = done.entry
        /\ \A d \in Callers \ {c} : pc'[d] = pc[d] /\ call'[d] = call[d] /\ step'[d] = step[d]
    BY <1>3 DEF Leave, Types
  <2>6. LostKnown'
    BY <2>5 DEF LostKnown
  <2>7. FreshWhileSending'
    BY <2>5 DEF FreshWhileSending, Dispatched
  <2>8. Accounted => Accounted'
    BY <1>3, <2>5 DEF Accounted, Dispatched
  <2> QED BY <1>3, <2>3, <2>4, <2>6, <2>7, <2>8 DEF Remembers
<1>4. ASSUME NEW c \in Callers, Refuse(c)
      PROVE  BrokerInv'
  BY <1>3, <1>4 DEF Refuse, Types, IsCache
<1>5. ASSUME NEW c \in Callers, Replay(c)
      PROVE  BrokerInv'
  <2>1. call[c].id \in Ids
    BY RequestShape DEF Types
  <2>2. IsCache(done') /\ IsCache(doneSeqs') /\ done'.entry = done.entry
    BY <1>5, <2>1, TouchKeeps DEF Replay, Types
  <2> QED BY <1>3, <1>5, <2>2 DEF Replay
<1>6. ASSUME NEW c \in Callers, Reject(c)
      PROVE  BrokerInv'
  <2>1. <<>> \in Seq(Statuses) /\ Len(<<>>) = 0
    OBVIOUS
  <2>2. step[c] = 0 /\ Len(call[c].steps) \in Nat
    BY <1>6, RequestShape DEF Reject, OneInside, Types
  <2> DEFINE result == [status |-> "rejected",
                        attempted |-> IF call[c].kind = "single" THEN 1 ELSE 0]
  <2>3. result \in Result
    BY DEF Result, Statuses
  <2>4. Remember(c, call[c], <<>>, result) /\ pc[c] # "idle"
    BY <1>6 DEF Reject
  <2> HIDE DEF result
  <2>5. Len(<<>>) = step[c] /\ Len(<<>>) <= Len(call[c].steps)
    BY <2>1, <2>2
  <2> HIDE DEF BrokerInv
  <2> QED BY <2>1, <2>3, <2>4, <2>5, RememberKeeps
<1>7. ASSUME NEW c \in Callers, Dispatch(c)
      PROVE  BrokerInv'
  <2>1. \A k \in DOMAIN call[c].steps : done.entry[call[c].steps[k].id] = None
    <3>1. call[c] \in Requests
      BY DEF Types
    <3>2. CASE call[c].kind = "single"
      BY <1>7, <3>1, <3>2, RequestShape DEF Dispatch, Mine, Cached
    <3>3. CASE call[c].kind = "sequence"
      BY <1>7, <3>3 DEF Dispatch, Conflict, StepIdUsed, Cached
    <3> QED BY <3>1, <3>2, <3>3, RequestShape
  <2>2. Types'
    BY <1>7 DEF Dispatch, Types, IsCache
  <2>3. OneInside'
    <3>1. step[c] = 0 /\ out[c] = <<>>
      BY <1>7 DEF Dispatch, OneInside
    <3> QED BY <1>7, <3>1 DEF Dispatch, Types, OneInside
  <2>4. LostKnown' /\ FreshWhileSending' /\ (Accounted => Accounted')
    <3>1. LostKnown'
      BY <1>7 DEF Dispatch, Types, LostKnown
    <3>2. FreshWhileSending'
      BY <1>7, <2>1 DEF Dispatch, Types, FreshWhileSending, Dispatched
    <3>3. \A d \in Callers : Dispatched(d) => Dispatched(d)'
      BY <1>7 DEF Dispatch, Types, Dispatched
    <3>4. Accounted => Accounted'
      BY <1>7, <3>3 DEF Dispatch, Accounted
    <3> QED BY <3>1, <3>2, <3>4
  <2> QED BY <1>7, <2>2, <2>3, <2>4 DEF Dispatch, Remembers
<1>8. ASSUME NEW c \in Callers, SendStep(c)
      PROVE  BrokerInv'
  <2>1. /\ UNCHANGED <<done, doneSeqs, lock, pc, call, evicted, lost>>
        /\ pc[c] = "sending" /\ Dispatched(c)'
    BY <1>8 DEF SendStep, Dispatched
  <2>2. PICK s \in Statuses : out' = [out EXCEPT ![c] = Append(@, s)]
    BY <1>8 DEF SendStep
  <2>3. Append(out[c], s) \in Seq(Statuses) /\ Len(Append(out[c], s)) = Len(out[c]) + 1
    BY DEF Types
  <2>4. /\ sent' \in [Ids -> 0..2] /\ step' = [step EXCEPT ![c] = @ + 1]
        /\ step[c] + 1 <= Len(call[c].steps)
        /\ Remembers => Accounted' /\ \A i \in Ids : sent'[i] <= 1
    <3> HIDE DEF BrokerInv
    <3> QED BY <1>8, <2>1, SendingKeeps DEF SendStep
  <2>5. Types'
    BY <2>1, <2>2, <2>3, <2>4 DEF Types, IsCache
  <2>6. OneInside' /\ LostKnown'
    BY <2>1, <2>2, <2>3, <2>4 DEF Types, OneInside, LostKnown
  <2>7. FreshWhileSending'
    BY <2>1 DEF FreshWhileSending, Dispatched
  <2> QED BY <2>1, <2>4, <2>5, <2>6, <2>7 DEF Remembers
<1>9. ASSUME NEW c \in Callers, Raise(c)
      PROVE  BrokerInv'
  <2>1. /\ UNCHANGED <<done, doneSeqs, lock, call, evicted>> /\ pc[c] = "sending"
        /\ pc' = [pc EXCEPT ![c] = "raised"] /\ out' = [out EXCEPT ![c] = <<>>]
        /\ lost' = (lost \/ (call[c].kind = "sequence" /\ step'[c] > 0))
    BY <1>9 DEF Raise
  <2>2. pc'[c] = "raised" /\ Dispatched(c)' /\ <<>> \in Seq(Statuses)
    BY <2>1 DEF Types, Dispatched
  <2>3. \A d \in Callers : Dispatched(d)' <=> Dispatched(d)
    BY <2>1, <2>2 DEF Types, Dispatched
  <2>4. /\ sent' \in [Ids -> 0..2] /\ step' \in [Callers -> Nat]
        /\ step'[c] <= Len(call[c].steps)
        /\ \A d \in Callers : d # c => step'[d] = step[d]
        /\ Remembers => Accounted' /\ \A i \in Ids : sent'[i] <= 1
    <3>1. CASE Sending(c)
      <4>1. /\ sent' \in [Ids -> 0..2] /\ step' = [step EXCEPT ![c] = @ + 1]
            /\ step[c] + 1 <= Len(call[c].steps)
            /\ Remembers => Accounted' /\ \A i \in Ids : sent'[i] <= 1
        <5> HIDE DEF BrokerInv
        <5> QED BY <1>9, <2>1, <2>2, <3>1, SendingKeeps DEF Raise
      <4> QED BY <4>1 DEF Types
    <3>2. CASE UNCHANGED <<step, sent>>
      <4>1. Accounted => Accounted'
        BY <2>1, <2>3, <3>2 DEF Accounted
      <4> QED BY <3>2, <4>1 DEF Types, OneInside
    <3> QED BY <1>9, <3>1, <3>2 DEF Raise
  <2>5. Types'
    BY <2>1, <2>2, <2>4 DEF Types, IsCache
  <2>6. OneInside' /\ LostKnown'
    BY <2>1, <2>2, <2>4 DEF Types, OneInside, LostKnown
  <2>7. FreshWhileSending'
    BY <2>1, <2>3 DEF FreshWhileSending
  <2> QED BY <2>1, <2>4, <2>5, <2>6, <2>7 DEF Remembers
<1>10. ASSUME NEW c \in Callers, Finish(c)
       PROVE  BrokerInv'
  <2>1. call[c] \in Requests /\ step[c] \in Nat /\ Dispatched(c) /\ pc[c] # "idle"
    BY <1>10 DEF Types, Finish, Dispatched
  <2>2. call[c].kind = "single" \/ Len(out[c]) = step[c] \/ lost
    BY <2>1, RequestShape DEF OneInside, LostKnown, Dispatched
  <2> HIDE DEF BrokerInv
  <2> QED BY <1>10, <2>1, <2>2, FinishResult, RememberKeeps
<1> QED
  BY <1>1, <1>2, <1>4, <1>5, <1>6, <1>7, <1>8, <1>9, <1>10 DEF Next

(* As long as everything handed to the game is remembered - nothing has     *)
(* been evicted, no exception has hidden the steps of a sequence - no       *)
(* request id is handed to the game twice (execute, execute_sequence).      *)
THEOREM BrokerAtMostOnce ==
  Spec => []AtMostOnce
<1>1. Init => BrokerInv
  BY BrokerInvInit
<1>2. BrokerInv /\ [Next]_vars => BrokerInv'
  BY BrokerInvStep
<1>3. BrokerInv => AtMostOnce
  BY DEF BrokerInv, AtMostOnce
<1> QED
  BY <1>1, <1>2, <1>3, PTL DEF Spec

-----------------------------------------------------------------------------
(* The implementation of the promise.                                      *)

(* The answers of the promise are the entries of actions (the truth that     *)
(* execute returns for a repeated id).                                      *)
LEMMA SameAnswers ==
  ASSUME done'.entry = done.entry
  PROVE  Answered' = Answered
  BY DEF Answered, Cached

(* The end of a new request is a step of the promise: answers are added,     *)
(* none is changed (Remember).                                              *)
LEMMA RememberSettles ==
  ASSUME Types, NEW c \in Callers, NEW r \in Requests, NEW results \in Seq(Statuses),
         NEW result \in Result, Len(results) <= Len(r.steps),
         Remember(c, r, results, result), ~evicted',
         \A i \in Settled(r, results) : done.entry[i] = None
  PROVE  Promise!Settle
<1>1. /\ IsCache(done') /\ sent' = sent
      /\ \A i \in Ids : IF i \in Settled(r, results) THEN done'.entry[i] \in Entry
                         ELSE done'.entry[i] = done.entry[i]
  BY RememberEffect
<1>2. \A e \in Entry : e.result \in Result
  BY DEF Entry
<1>3. Answered' \in [Ids -> Result \cup {None}]
  BY <1>1, <1>2 DEF Answered, Cached, IsCache
<1>4. \A i \in Ids : Answered[i] # None => Answered'[i] = Answered[i]
  BY <1>1 DEF Answered, Cached
<1> QED
  BY <1>1, <1>3, <1>4 DEF Promise!Settle

(* Each step of execute and execute_sequence is a step of the promise, or    *)
(* changes nothing the promise speaks of.                                   *)
LEMMA PromiseStep ==
  ASSUME BrokerInv, [Next]_vars, Remembers'
  PROVE  [Promise!Next]_<<sent, Answered>>
<1>1. CASE UNCHANGED vars
  BY <1>1, SameAnswers DEF vars
<1>0. ~evicted'
  BY DEF Remembers
<1>2. ASSUME NEW c \in Callers, NEW r \in Requests, Enter(c, r)
      PROVE  UNCHANGED <<sent, Answered>>
  BY <1>2, SameAnswers DEF Enter
<1>3. ASSUME NEW c \in Callers, Refuse(c)
      PROVE  UNCHANGED <<sent, Answered>>
  BY <1>3, SameAnswers DEF Refuse
<1>4. ASSUME NEW c \in Callers, Replay(c)
      PROVE  UNCHANGED <<sent, Answered>>
  <2>1. call[c].id \in Ids /\ IsCache(done)
    BY RequestShape DEF BrokerInv, Types
  <2>2. done'.entry = done.entry
    BY <1>4, <2>1, TouchKeeps DEF Replay
  <2> QED BY <1>4, <2>2, SameAnswers DEF Replay
<1>5. ASSUME NEW c \in Callers, Dispatch(c)
      PROVE  UNCHANGED <<sent, Answered>>
  BY <1>5, SameAnswers DEF Dispatch
<1>6. ASSUME NEW c \in Callers, pc[c] = "sending", MoreSteps(c), Sending(c), Remembers,
             UNCHANGED done
      PROVE  Promise!Next
  <2> DEFINE i == call[c].steps[step[c] + 1].id
  <2>1. i \in Ids /\ sent[i] = 0 /\ done.entry[i] = None
    BY <1>6, SendsFresh
  <2>2. sent' = [sent EXCEPT ![i] = 1]
    BY <1>6, <2>1 DEF Sending
  <2>3. Answered[i] = None /\ Answered' = Answered
    BY <1>6, <2>1, SameAnswers DEF Answered, Cached
  <2> HIDE DEF i
  <2> QED BY <2>1, <2>2, <2>3 DEF Promise!Next, Promise!HandOver
<1>11. ASSUME NEW c \in Callers, SendStep(c)
       PROVE  Promise!Next
  BY <1>6, <1>11 DEF SendStep, Remembers
<1>9. ASSUME NEW c \in Callers, Raise(c)
      PROVE  Promise!Next \/ UNCHANGED <<sent, Answered>>
  <2>1. UNCHANGED done /\ pc[c] = "sending" /\ MoreSteps(c) /\ (lost => lost')
        /\ UNCHANGED evicted
    BY <1>9 DEF Raise
  <2>2. Remembers
    BY <2>1 DEF Remembers
  <2>3. CASE Sending(c)
    BY <1>6, <2>1, <2>2, <2>3
  <2>4. CASE UNCHANGED <<step, sent>>
    BY <2>1, <2>4, SameAnswers
  <2> QED BY <1>9, <2>3, <2>4 DEF Raise
<1>7. ASSUME NEW c \in Callers, Reject(c)
      PROVE  Promise!Settle
  <2> DEFINE result == [status |-> "rejected",
                        attempted |-> IF call[c].kind = "single" THEN 1 ELSE 0]
  <2>1. result \in Result
    BY DEF Result, Statuses
  <2>2. Types /\ call[c] \in Requests
    BY DEF BrokerInv, Types
  <2>3. <<>> \in Seq(Statuses) /\ Len(<<>>) <= Len(call[c].steps)
    BY <2>2, RequestShape
  <2>4. \A i \in Settled(call[c], <<>>) : done.entry[i] = None
    BY <1>7 DEF Reject, Settled, Mine, Cached
  <2>5. Remember(c, call[c], <<>>, result)
    BY <1>7 DEF Reject
  <2> HIDE DEF result
  <2> QED BY <1>0, <2>1, <2>2, <2>3, <2>4, <2>5, RememberSettles
<1>8. ASSUME NEW c \in Callers, Finish(c)
      PROVE  Promise!Settle
  <2>1. Types /\ call[c] \in Requests /\ Dispatched(c)
    BY <1>8 DEF BrokerInv, Types, Finish, Dispatched
  <2>2. call[c].steps \in Seq(Action) /\ Len(call[c].steps) \in Nat
    BY <2>1, RequestShape
  <2>3. /\ out[c] \in Seq(Statuses) /\ Len(out[c]) <= Len(call[c].steps)
        /\ EndOf(c) \in Result /\ Remember(c, call[c], out[c], EndOf(c))
    BY <1>8, FinishResult
  <2>4. \A i \in Settled(call[c], out[c]) : done.entry[i] = None
    <3>1. \A k \in DOMAIN call[c].steps : done.entry[call[c].steps[k].id] = None
      BY <2>1 DEF BrokerInv, FreshWhileSending
    <3>2. \A k \in 1..Len(out[c]) : k \in DOMAIN call[c].steps
      BY <2>2, <2>3
    <3>3. call[c].kind = "single" =>
            1 \in DOMAIN call[c].steps /\ call[c].steps[1].id = call[c].id
      BY <2>1, RequestShape
    <3> QED BY <3>1, <3>2, <3>3 DEF Settled
  <2> QED BY <1>0, <2>1, <2>3, <2>4, RememberSettles
<1> QED
  BY <1>1, <1>2, <1>3, <1>4, <1>5, <1>7, <1>8, <1>9, <1>11 DEF Next, Promise!Next

(* As long as everything handed to the game is remembered, the broker does  *)
(* what ExecutionPromise says, for every set of callers, ids and requests:  *)
(* each step is a step of the promise or changes nothing it speaks of.      *)
THEOREM BrokerKeepsPromise ==
  Spec => PromiseKept
<1>1. Init => BrokerInv
  BY BrokerInvInit
<1>2. BrokerInv /\ [Next]_vars => BrokerInv'
  BY BrokerInvStep
<1>3. Init => Promise!Init
  BY DEF Init, Empty, Answered, Cached, Promise!Init
<1>4. BrokerInv /\ [Next]_vars => [Remembers' => Promise!Next]_<<sent, Answered>>
  BY PromiseStep
<1> QED
  BY <1>1, <1>2, <1>3, <1>4, PTL DEF Spec, PromiseKept
-----------------------------------------------------------------------------
(* What the caches hold of the requests that were answered.                *)

\* The request is remembered under its id, with its payloads.
Whole(r) == Cached(Mine(r), r.id) /\ SamePayload(r)

(* A request that was dispatched is new to the caches for as long as it is  *)
(* inside the lock (the lookups at the head of execute, execute_sequence).  *)
Unanswered ==
  \A c \in Callers : Dispatched(c) =>
    ~Conflict(call[c]) /\ ~Cached(Mine(call[c]), call[c].id)

\* No id is remembered of an action and of a sequence.
Apart == \A i \in Ids : ~(Cached(done, i) /\ Cached(doneSeqs, i))

AnswersInv ==
  /\ told = [r \in Requests |-> told[r]]
  /\ Unanswered
  /\ ~evicted => Apart /\ \A r \in Requests : told[r] # None => Whole(r)

(* Answers are read from the entries alone, so what changes none of them    *)
(* changes no answer (the order of the dictionaries says nothing).          *)
LEMMA SameEntries ==
  ASSUME done'.entry = done.entry, doneSeqs'.entry = doneSeqs.entry, NEW r \in Requests
  PROVE  /\ Whole(r)' <=> Whole(r)
         /\ Conflict(r)' <=> Conflict(r)
         /\ Cached(Mine(r), r.id)' <=> Cached(Mine(r), r.id)
         /\ Apart' <=> Apart
  BY DEF Whole, SamePayload, Conflict, StepIdUsed, Mine, Others, Cached, Apart

(* A new request touches only entries that were empty: its own id, and the  *)
(* ids of its steps (the two branches of Conflict).                         *)
LEMMA NewRequestIsFresh ==
  ASSUME NEW r \in Requests, NEW results \in Seq(Statuses), Len(results) <= Len(r.steps),
         ~Conflict(r), ~Cached(Mine(r), r.id)
  PROVE  /\ ~Cached(done, r.id) /\ ~Cached(doneSeqs, r.id)
         /\ \A i \in Settled(r, results) : ~Cached(done, i) /\ ~Cached(doneSeqs, i)
         /\ r.kind = "sequence" => r.id \notin Settled(r, results)
<1>1. r.kind \in {"single", "sequence"} /\ r.steps \in Seq(Action)
  BY RequestShape
<1>2. ~Cached(done, r.id) /\ ~Cached(doneSeqs, r.id)
  BY <1>1 DEF Conflict, Mine, Others
<1>3. CASE r.kind = "single"
  BY <1>2, <1>3 DEF Settled
<1>4. CASE r.kind = "sequence"
  <2>1. \A k \in 1..Len(results) : k \in DOMAIN r.steps
    BY <1>1
  <2>2. \A k \in DOMAIN r.steps : /\ ~Cached(done, r.steps[k].id)
                                  /\ ~Cached(doneSeqs, r.steps[k].id)
    BY <1>4 DEF Conflict, StepIdUsed
  <2>3. \A k \in DOMAIN r.steps : r.steps[k].id # r.id
    BY <1>4, BrokerAssumption
  <2> QED BY <1>2, <1>4, <2>1, <2>2, <2>3 DEF Settled
<1> QED BY <1>1, <1>3, <1>4

(* The entries after a request has ended, when nothing was evicted: its own *)
(* one is there, those of others stand (Remember).                          *)
LEMMA RememberEntries ==
  ASSUME Types, NEW c \in Callers, NEW r \in Requests, NEW results \in Seq(Statuses),
         NEW result \in Result, Len(results) <= Len(r.steps),
         Remember(c, r, results, result)
  PROVE  LET own == IF r.kind = "single" THEN done'.entry[r.id] ELSE doneSeqs'.entry[r.id]
         IN /\ own \in {None, [print |-> r.steps, result |-> result]}
            /\ ~evicted' =>
                 /\ own = [print |-> r.steps, result |-> result]
                 /\ \A i \in Ids \ Settled(r, results) : done'.entry[i] = done.entry[i]
                 /\ \A i \in Ids : r.kind = "single" \/ i # r.id =>
                      doneSeqs'.entry[i] = doneSeqs.entry[i]
<1> DEFINE whole  == [print |-> r.steps, result |-> result]
           steps  == StepEntries(r, results)
           one    == [i \in {r.id} |-> whole]
           asked  == PutAll(done, steps, StepIds(r, results))
           single == PutAll(done, one, <<r.id>>)
           seqs   == PutAll(doneSeqs, one, <<r.id>>)
           newReq == IF r.kind = "single" THEN single ELSE asked
           newSeq == IF r.kind = "single" THEN doneSeqs ELSE seqs
<1>1. whole \in Entry /\ r.id \in Ids
  BY RequestShape DEF Entry
<1>2. done.entry \in [Ids -> Entry \cup {None}] /\ doneSeqs.entry \in [Ids -> Entry \cup {None}]
  BY DEF Types, IsCache
<1>3. \A i \in DOMAIN one : one[i] \in Entry
  BY <1>1
<1>4. /\ DOMAIN steps = {r.steps[k].id : k \in 1..Len(results)}
      /\ \A i \in DOMAIN steps : steps[i] \in Entry
  BY StepEntriesShape
<1>5. DOMAIN one = {r.id} /\ one[r.id] = whole
  OBVIOUS
<1> HIDE DEF whole, steps, one
<1>6. /\ asked.entry \in [Ids -> Entry \cup {None}]
      /\ \A i \in Ids : asked.entry[i] = IF i \in DOMAIN steps THEN steps[i] ELSE done.entry[i]
  BY <1>2, <1>4, PutKeeps
<1>7. /\ single.entry \in [Ids -> Entry \cup {None}]
      /\ \A i \in Ids : single.entry[i] = IF i \in DOMAIN one THEN one[i] ELSE done.entry[i]
  BY <1>2, <1>3, PutKeeps
<1>8. /\ seqs.entry \in [Ids -> Entry \cup {None}]
      /\ \A i \in Ids : seqs.entry[i] = IF i \in DOMAIN one THEN one[i] ELSE doneSeqs.entry[i]
  BY <1>2, <1>3, PutKeeps
<1> HIDE DEF asked, single, seqs
<1>9. /\ newReq.entry \in [Ids -> Entry \cup {None}]
      /\ newSeq.entry \in [Ids -> Entry \cup {None}]
  BY <1>2, <1>6, <1>7, <1>8
<1>10. \A i \in Ids \ Settled(r, results) : newReq.entry[i] = done.entry[i]
  BY <1>4, <1>5, <1>6, <1>7 DEF Settled
<1>11. \A i \in Ids : r.kind = "single" \/ i # r.id => newSeq.entry[i] = doneSeqs.entry[i]
  BY <1>5, <1>8
<1>12. (IF r.kind = "single" THEN newReq.entry[r.id] ELSE newSeq.entry[r.id]) = whole
  BY <1>1, <1>5, <1>7, <1>8
<1>13. /\ done' = Trim(newReq) /\ doneSeqs' = Trim(newSeq)
       /\ evicted' = (evicted \/ Overflow(newReq) # 0 \/ Overflow(newSeq) # 0)
  BY DEF Remember, whole, steps, one, asked, single, seqs
<1> HIDE DEF newReq, newSeq
<1>14. /\ \A i \in Ids : Trim(newReq).entry[i] \in {newReq.entry[i], None}
       /\ Overflow(newReq) = 0 => Trim(newReq).entry = newReq.entry
  BY <1>9, TrimForgets
<1>15. /\ \A i \in Ids : Trim(newSeq).entry[i] \in {newSeq.entry[i], None}
       /\ Overflow(newSeq) = 0 => Trim(newSeq).entry = newSeq.entry
  BY <1>9, TrimForgets
<1>16. whole = [print |-> r.steps, result |-> result]
  BY DEF whole
<1>17. (IF r.kind = "single" THEN done'.entry[r.id] ELSE doneSeqs'.entry[r.id])
         \in {None, whole}
  BY <1>1, <1>12, <1>13, <1>14, <1>15
<1>18. ASSUME ~evicted'
       PROVE  done'.entry = newReq.entry /\ doneSeqs'.entry = newSeq.entry
  BY <1>13, <1>14, <1>15, <1>18
<1> QED BY <1>10, <1>11, <1>12, <1>16, <1>17, <1>18

(* A new request ends with an answer that is remembered whole, and without  *)
(* disturbing another answer (Remember).                                    *)
LEMMA RememberAnswers ==
  ASSUME BrokerInv, AnswersInv, NEW c \in Callers, pc[c] # "idle",
         NEW results \in Seq(Statuses), NEW result \in Result,
         Len(results) <= Len(call[c].steps),
         ~Conflict(call[c]), ~Cached(Mine(call[c]), call[c].id),
         Remember(c, call[c], results, result)
  PROVE  AnswersInv'
<1> DEFINE r == call[c]
           whole == [print |-> r.steps, result |-> result]
<1>1. Types /\ r \in Requests
  BY DEF BrokerInv, Types
<1>2. Leave(c) /\ Tell(r, result)
  BY DEF Remember
<1>3. \A d \in Callers : pc'[d] = "idle"
  <2>1. \A d \in Callers : d # c => pc[d] = "idle"
    BY DEF BrokerInv, OneInside
  <2> QED BY <1>1, <1>2, <2>1 DEF Types, Leave
<1>4. Unanswered'
  BY <1>3 DEF Unanswered, Dispatched
<1>5. /\ told' = [q \in Requests |-> told'[q]]
      /\ \A q \in Requests : told'[q] # None => told[q] # None \/ q = r
  <2>1. told = [q \in Requests |-> told[q]]
    BY DEF AnswersInv
  <2> HIDE DEF r
  <2> QED BY <1>1, <1>2, <2>1 DEF Tell
<1>6. /\ r.kind \in {"single", "sequence"} /\ r.id \in Ids
      /\ \A q \in Requests : q.kind \in {"single", "sequence"} /\ q.id \in Ids
  BY <1>1, RequestShape
<1>7. whole \in Entry /\ whole # None /\ whole.print = r.steps
  BY <1>1, RequestShape, BrokerAssumption DEF Entry
<1>8. ASSUME ~evicted'
      PROVE  Apart' /\ \A q \in Requests : told'[q] # None => Whole(q)'
  <2>1. /\ (IF r.kind = "single" THEN done'.entry[r.id] ELSE doneSeqs'.entry[r.id]) = whole
        /\ \A i \in Ids \ Settled(r, results) : done'.entry[i] = done.entry[i]
        /\ \A i \in Ids : r.kind = "single" \/ i # r.id =>
             doneSeqs'.entry[i] = doneSeqs.entry[i]
    <3> HIDE DEF r
    <3>1. Len(results) <= Len(r.steps) /\ Remember(c, r, results, result)
      BY DEF r
    <3> QED BY <1>1, <1>8, <3>1, RememberEntries
  <2>2. /\ ~Cached(done, r.id) /\ ~Cached(doneSeqs, r.id)
        /\ \A i \in Settled(r, results) : ~Cached(done, i) /\ ~Cached(doneSeqs, i)
        /\ r.kind = "sequence" => r.id \notin Settled(r, results)
    <3> HIDE DEF r
    <3>1. Len(results) <= Len(r.steps) /\ ~Conflict(r) /\ ~Cached(Mine(r), r.id)
      BY DEF r
    <3> QED BY <1>1, <3>1, NewRequestIsFresh
  <2>3. ~evicted
    BY <1>8 DEF Remember
  <2>4. Apart /\ \A q \in Requests : told[q] # None => Whole(q)
    BY <2>3 DEF AnswersInv
  <2>5. r.kind = "single" => Settled(r, results) = {r.id}
    BY DEF Settled
  <2> HIDE DEF r, whole
  <2>6. Apart'
    BY <1>6, <2>1, <2>2, <2>4, <2>5 DEF Apart, Cached
  <2>7. ASSUME NEW q \in Requests, q = r
        PROVE  Whole(q)'
    BY <1>6, <1>7, <2>1, <2>7 DEF Whole, SamePayload, Mine, Cached
  <2>8. ASSUME NEW q \in Requests, Whole(q)
        PROVE  Whole(q)'
    <3>1. CASE q.kind = "single"
      <4>1. done'.entry[q.id] = done.entry[q.id]
        BY <1>6, <2>1, <2>2, <2>8, <3>1 DEF Whole, Mine, Cached
      <4> QED BY <2>8, <3>1, <4>1 DEF Whole, SamePayload, Mine, Cached
    <3>2. CASE q.kind = "sequence"
      <4>1. doneSeqs'.entry[q.id] = doneSeqs.entry[q.id]
        BY <1>6, <2>1, <2>2, <2>8, <3>2 DEF Whole, Mine, Cached
      <4> QED BY <2>8, <3>2, <4>1 DEF Whole, SamePayload, Mine, Cached
    <3> QED BY <1>6, <3>1, <3>2
  <2> QED BY <1>5, <2>4, <2>6, <2>7, <2>8
<1> QED BY <1>4, <1>5, <1>8 DEF AnswersInv

(* Every step keeps what was answered (the lock is held from the lookup to  *)
(* the record, so no answer to another request falls between them).         *)
LEMMA AnswersStep ==
  ASSUME BrokerInv, AnswersInv, [Next]_vars
  PROVE  AnswersInv'
<1>0. call \in [Callers -> Requests] /\ pc \in [Callers -> {"idle", "locked", "sending", "raised"}]
  BY DEF BrokerInv, Types
<1>1. ASSUME done'.entry = done.entry, doneSeqs'.entry = doneSeqs.entry,
             UNCHANGED <<evicted, told>>,
             \A d \in Callers : Dispatched(d)' => Dispatched(d) /\ call'[d] = call[d]
      PROVE  AnswersInv'
  <2>1. Unanswered'
    <3> SUFFICES ASSUME NEW d \in Callers, Dispatched(d)'
                 PROVE  ~Conflict(call[d])' /\ ~Cached(Mine(call[d]), call[d].id)'
      BY DEF Unanswered
    <3> DEFINE r == call[d]
    <3>1. r \in Requests /\ ~Conflict(r) /\ ~Cached(Mine(r), r.id) /\ r' = r
      BY <1>0, <1>1 DEF AnswersInv, Unanswered
    <3> QED BY <1>1, <3>1 DEF Conflict, StepIdUsed, SamePayload, Mine, Others, Cached
  <2>2. (Apart' <=> Apart) /\ \A r \in Requests : Whole(r)' <=> Whole(r)
    BY <1>1, SameEntries DEF Apart, Cached
  <2> QED BY <1>1, <2>1, <2>2 DEF AnswersInv
<1>2. CASE UNCHANGED vars
  BY <1>1, <1>2 DEF vars, Dispatched
<1>3. ASSUME NEW c \in Callers, NEW r \in Requests, Enter(c, r)
      PROVE  AnswersInv'
  BY <1>0, <1>1, <1>3 DEF Enter, Dispatched
<1>4. ASSUME NEW c \in Callers, Refuse(c)
      PROVE  AnswersInv'
  BY <1>0, <1>1, <1>4 DEF Refuse, Leave, Dispatched
<1>5. ASSUME NEW c \in Callers, Replay(c)
      PROVE  AnswersInv'
  <2> DEFINE r == call[c]
  <2>1. r \in Requests /\ r.id \in Ids
    BY <1>0, RequestShape
  <2>2. done'.entry = done.entry /\ doneSeqs'.entry = doneSeqs.entry /\ UNCHANGED evicted
    BY <1>5, <2>1, TouchKeeps DEF Replay, BrokerInv, Types
  <2>3. Unanswered'
    <3> SUFFICES ASSUME NEW d \in Callers, Dispatched(d)'
                 PROVE  FALSE
      BY DEF Unanswered
    <3>1. pc[c] = "locked" /\ pc' = [pc EXCEPT ![c] = "idle"]
      BY <1>5 DEF Replay, Leave
    <3>2. d # c => pc[d] = "idle"
      BY <3>1 DEF BrokerInv, OneInside
    <3> QED BY <1>0, <3>1, <3>2 DEF Dispatched
  <2>4. Whole(r)
    BY <1>5 DEF Replay, Whole, Conflict
  <2>5. /\ told' = [q \in Requests |-> told'[q]]
        /\ \A q \in Requests : told'[q] # None => told[q] # None \/ q = r
    <3>1. Tell(r, Mine(r).entry[r.id].result) /\ told = [q \in Requests |-> told[q]]
      BY <1>5 DEF Replay, AnswersInv
    <3> HIDE DEF r
    <3> QED BY <2>1, <3>1 DEF Tell
  <2>6. (Apart' <=> Apart) /\ \A q \in Requests : Whole(q)' <=> Whole(q)
    BY <2>2, SameEntries DEF Apart, Cached
  <2> HIDE DEF r
  <2> QED BY <2>1, <2>2, <2>3, <2>4, <2>5, <2>6 DEF AnswersInv
<1>6. ASSUME NEW c \in Callers, Dispatch(c)
      PROVE  AnswersInv'
  <2>1. /\ UNCHANGED <<done, doneSeqs, call, evicted, told>>
        /\ ~Conflict(call[c]) /\ ~Cached(Mine(call[c]), call[c].id)
        /\ \A d \in Callers : Dispatched(d)' => Dispatched(d) \/ d = c
    BY <1>0, <1>6 DEF Dispatch, Dispatched
  <2>2. Unanswered'
    <3>1. done' = done /\ doneSeqs' = doneSeqs /\ call' = call
      BY <2>1
    <3>2. \A q : Conflict(q)' <=> Conflict(q)
      BY <3>1, Zenon DEF Conflict, StepIdUsed, SamePayload, Mine, Others, Cached
    <3>3. \A q : Cached(Mine(q), q.id)' <=> Cached(Mine(q), q.id)
      BY <3>1, Zenon DEF Cached, Mine
    <3> QED BY <2>1, <3>1, <3>2, <3>3 DEF AnswersInv, Unanswered
  <2>3. (Apart' <=> Apart) /\ \A q \in Requests : Whole(q)' <=> Whole(q)
    BY <2>1, SameEntries DEF Apart, Cached
  <2> QED BY <2>1, <2>2, <2>3 DEF AnswersInv
<1>7. ASSUME NEW c \in Callers, SendStep(c)
      PROVE  AnswersInv'
  BY <1>1, <1>7 DEF SendStep, Dispatched
<1>8. ASSUME NEW c \in Callers, Raise(c)
      PROVE  AnswersInv'
  BY <1>0, <1>1, <1>8 DEF Raise, Dispatched
<1>9. ASSUME NEW c \in Callers, Reject(c)
      PROVE  AnswersInv'
  <2> DEFINE result == [status |-> "rejected",
                        attempted |-> IF call[c].kind = "single" THEN 1 ELSE 0]
  <2>1. result \in Result
    BY DEF Result, Statuses
  <2>2. <<>> \in Seq(Statuses) /\ Len(<<>>) <= Len(call[c].steps)
    BY <1>0, RequestShape
  <2>3. Remember(c, call[c], <<>>, result) /\ pc[c] # "idle"
        /\ ~Conflict(call[c]) /\ ~Cached(Mine(call[c]), call[c].id)
    BY <1>9 DEF Reject
  <2> HIDE DEF result
  <2> QED BY <2>1, <2>2, <2>3, RememberAnswers
<1>10. ASSUME NEW c \in Callers, Finish(c)
       PROVE  AnswersInv'
  <2>1. /\ Dispatched(c) /\ pc[c] # "idle"
        /\ ~Conflict(call[c]) /\ ~Cached(Mine(call[c]), call[c].id)
    BY <1>10 DEF Finish, Dispatched, AnswersInv, Unanswered
  <2>2. /\ out[c] \in Seq(Statuses) /\ Len(out[c]) <= Len(call[c].steps)
        /\ EndOf(c) \in Result /\ Remember(c, call[c], out[c], EndOf(c))
    BY <1>10, FinishResult
  <2> QED BY <2>1, <2>2, RememberAnswers
<1> QED
  BY <1>2, <1>3, <1>4, <1>5, <1>6, <1>7, <1>8, <1>9, <1>10 DEF Next

(* An id names one payload: two requests that were answered under the same  *)
(* id are the same request, until an entry has been evicted (the            *)
(* fingerprint comparison of execute and execute_sequence).                 *)
THEOREM BrokerIdNamesOnePayload ==
  Spec => []IdNamesOnePayload
<1>1. Init => BrokerInv /\ AnswersInv
  <2> SUFFICES ASSUME Init PROVE AnswersInv
    BY BrokerInvInit
  <2>1. \A i \in Ids : ~Cached(done, i)
    BY DEF Init, Empty, Cached
  <2> QED BY <2>1 DEF Init, AnswersInv, Unanswered, Dispatched, Apart
<1>2. BrokerInv /\ AnswersInv /\ [Next]_vars => (BrokerInv /\ AnswersInv)'
  BY BrokerInvStep, AnswersStep
<1>3. AnswersInv => IdNamesOnePayload
  <2> SUFFICES ASSUME AnswersInv, ~evicted, NEW r \in Requests, NEW q \in Requests,
                      r.id = q.id, told[r] # None, told[q] # None
               PROVE  r = q
    BY DEF IdNamesOnePayload
  <2>1. Apart /\ Whole(r) /\ Whole(q)
    BY DEF AnswersInv
  <2>2. r \in Request /\ q \in Request /\ r.id \in Ids
    BY BrokerAssumption, RequestShape
  <2>3. r.kind = q.kind
    BY <2>1, <2>2 DEF Whole, Apart, Mine, Cached, Request
  <2>4. r.steps = q.steps
    BY <2>1, <2>3 DEF Whole, SamePayload, Mine
  <2> QED BY <2>2, <2>3, <2>4 DEF Request
<1> QED
  BY <1>1, <1>2, <1>3, PTL DEF Spec

(* "confirmed" is remembered only of a request whose steps have all been    *)
(* handed to the game, however the backend failed (_sequence_status).       *)
THEOREM BrokerConfirmedMeansAll ==
  Spec => ConfirmedMeansAll
<1> DEFINE Own(c) == LET r == call[c]
                     IN IF r.kind = "single" THEN done'.entry[r.id] ELSE doneSeqs'.entry[r.id]
<1>1. ASSUME BrokerInv, Next, NEW c \in Callers, Dispatched(c), pc'[c] = "idle",
             Own(c) # None, Own(c).result.status = "confirmed_by_packet"
      PROVE  step[c] = Len(call[c].steps)
  <2>1. Types /\ call[c] \in Requests /\ pc[c] \in {"sending", "raised"} /\ lock = c
    BY <1>1 DEF BrokerInv, Types, OneInside, Dispatched
  <2>2. Finish(c)
    <3>1. ASSUME NEW d \in Callers, \E r \in Requests : Enter(d, r)
          PROVE  FALSE
      BY <2>1, <3>1, BrokerAssumption DEF Enter, LockFree
    <3>2. ASSUME NEW d \in Callers, pc[d] # "idle"
          PROVE  d = c
      BY <1>1, <2>1, <3>2 DEF BrokerInv, OneInside
    <3>3. ~Refuse(c) /\ ~Replay(c) /\ ~Reject(c) /\ ~Dispatch(c)
      BY <2>1 DEF Refuse, Replay, Reject, Dispatch
    <3>4. ~SendStep(c) /\ ~Raise(c)
      BY <1>1, <2>1 DEF SendStep, Raise, Types
    <3>5. ASSUME NEW d \in Callers,
                 Refuse(d) \/ Replay(d) \/ Reject(d) \/ Dispatch(d) \/ SendStep(d) \/ Raise(d)
                 \/ Finish(d)
          PROVE  d = c
      BY <3>2, <3>5 DEF Refuse, Replay, Reject, Dispatch, SendStep, Raise, Finish
    <3> QED BY <1>1, <3>1, <3>3, <3>4, <3>5 DEF Next
  <2>3. /\ out[c] \in Seq(Statuses) /\ Len(out[c]) <= Len(call[c].steps)
        /\ EndOf(c) \in Result /\ Remember(c, call[c], out[c], EndOf(c))
    BY <1>1, <2>2, FinishResult
  <2>4. Own(c) = [print |-> call[c].steps, result |-> EndOf(c)]
    BY <1>1, <2>1, <2>3, RememberEntries
  <2>5. EndOf(c).status = "confirmed_by_packet"
    BY <1>1, <2>4
  <2>6. out[c] # <<>> /\ (call[c].kind = "sequence" => Len(out[c]) = Len(call[c].steps))
    <3>1. CASE call[c].kind = "single"
      BY <2>5, <3>1 DEF EndOf
    <3>2. CASE call[c].kind # "single"
      <4>1. Len(out[c]) = Len(call[c].steps) /\ Len(call[c].steps) >= 1
        BY <2>1, <2>5, <3>2, BrokerAssumption DEF EndOf, SequenceStatus
      <4> QED BY <4>1
    <3> QED BY <3>1, <3>2
  <2>7. pc[c] = "sending" /\ Len(out[c]) = step[c] /\ step[c] \in Nat
    BY <1>1, <2>1, <2>6 DEF BrokerInv, OneInside, Types
  <2>8. CASE call[c].kind = "single"
    <3>1. Len(call[c].steps) = 1 /\ Len(out[c]) >= 1
      BY <2>1, <2>3, <2>6, <2>8, BrokerAssumption
    <3> QED BY <2>3, <2>7, <3>1
  <2>9. CASE call[c].kind # "single"
    BY <2>1, <2>6, <2>7, <2>9, RequestShape
  <2> QED BY <2>8, <2>9
<1>2. BrokerInv /\ [Next]_vars =>
        [\A c \in Callers :
           LET r == call[c]
               e == IF r.kind = "single" THEN done'.entry[r.id] ELSE doneSeqs'.entry[r.id]
           IN /\ pc[c] \in {"sending", "raised"} /\ pc'[c] = "idle"
              /\ e # None /\ e.result.status = "confirmed_by_packet"
              => step[c] = Len(r.steps)]_vars
  BY <1>1 DEF Dispatched
<1>3. Init => BrokerInv
  BY BrokerInvInit
<1>4. BrokerInv /\ [Next]_vars => BrokerInv'
  BY BrokerInvStep
<1> QED
  BY <1>2, <1>3, <1>4, PTL DEF Spec, ConfirmedMeansAll
=============================================================================
