--------------------------- MODULE ProxyRequests ---------------------------
(***************************************************************************)
(* One request from the controller to the host's answer.                   *)
(* (src/iag/stellaris/execution/session_proxy_controller.py, start, stop,  *)
(* _arm_and_wait_locked; session_proxy.py, the loop of run and             *)
(* finish_request.)                                                        *)
(*                                                                         *)
(* The controller, in the agent, writes the request to arm.json and polls  *)
(* the worker's status file.  The worker, another process, reads arm.json  *)
(* when a packet passes, puts the record into the stream, and recognises   *)
(* the host's broadcast of it.  The broadcast names the target, not the    *)
(* request.  What happens to the stream itself is StreamProxy's matter.    *)
(***************************************************************************)
EXTENDS Integers, Sequences, FiniteSets

CONSTANTS
  Targets,        \* what an action may be about
  MaxRequests,    \* bound: requests armed
  MaxFaults,      \* bound: files the worker cannot write or remove
  FreshTargets,   \* no two requests are about the same target
  HostRepeats     \* the host's broadcasts may reach the worker again

ASSUME RequestAssumption ==
  /\ Targets # {} /\ {MaxRequests, MaxFaults} \subseteq Nat
  /\ {FreshTargets, HostRepeats} \subseteq BOOLEAN

VARIABLES
  targets,   \* targets of the requests, in the order they were armed
  caller,    \* the controller: where it is and for which request
  reported,  \* history: what each call returned or raised
  armFile,   \* the request in arm.json, 0 when there is none
  status,    \* the worker's status file
  worker,    \* the worker's arm_request, injected_at, last_request ...
  rejected,  \* arm_error_signature
  stopping,  \* stop has checked and not yet ended the worker
  wire,      \* requests put into the stream of this room
  executed,  \* history: requests the host has executed
  echoes,    \* host broadcasts that have not reached the worker yet
  settled,   \* history: the outcome the worker gave each request
  inserted,  \* history: how often each request was put into the stream
  kept,      \* history: requests settled whose file could not be removed
  faults     \* how often a file could not be written or removed, for the bound

callerVars == <<targets, caller, reported>>
hostVars == <<wire, executed, echoes>>
history == <<settled, inserted, kept, faults>>
vars == <<callerVars, armFile, status, worker, rejected, stopping, hostVars,
          history>>

Ids == 1 .. MaxRequests
None == [id |-> 0, outcome |-> "none"]
WorkerOutcomes == {"confirmed", "carrier_timeout", "response_timeout"}
Errors == {"deadline", "worker_gone"}

Loop == worker.up /\ worker.pc = "loop"

NoStatus == [armed |-> FALSE, last |-> None, insertions |-> 0]

\* retagged: response_retagged; missed, a history: the status file is behind.
NewWorker == [up |-> TRUE, pc |-> "loop", holding |-> 0, injected |-> FALSE,
              retagged |-> FALSE, missed |-> FALSE, last |-> None,
              insertions |-> 0]

\* ------------------------------------------------------------- the controller

\* status(): is a process there, and what does its file say?
Check ==
  /\ caller.at = "idle" /\ ~stopping
  /\ worker.up /\ ~status.armed
  /\ Len(targets) < MaxRequests
  /\ caller' = [caller EXCEPT !.at = "arming"]
  /\ UNCHANGED <<targets, reported, armFile, status, worker, rejected, stopping,
                 hostVars, history>>

\* arm.json is replaced, whatever it held.
ArmWrite ==
  /\ caller.at = "arming"
  /\ \E t \in Targets :
       /\ FreshTargets => \A i \in DOMAIN targets : targets[i] # t
       /\ targets' = Append(targets, t)
  /\ armFile' = Len(targets')
  /\ caller' = [at |-> "waiting", id |-> Len(targets')]
  /\ UNCHANGED <<reported, status, worker, rejected, stopping, hostVars,
                 history>>

Return(outcome) ==
  /\ reported' = [reported EXCEPT ![caller.id] = outcome]
  /\ caller' = [at |-> "idle", id |-> 0]
  /\ UNCHANGED <<targets, armFile, status, worker, rejected, stopping, hostVars,
                 history>>

\* Defect: whatever was finished last is taken for the answer.
AnyAnswer(id) == status.last.id # 0

IsAnswer(id) == status.last.id = id

Poll ==
  /\ caller.at = "waiting"
  /\ \/ ~worker.up /\ Return("worker_gone")
     \/ worker.up /\ IsAnswer(caller.id) /\ Return(status.last.outcome)

\* The deadline passes, before or after the worker's own timeouts: both clocks
\* run by themselves.  arm.json is left as it is.
Deadline ==
  /\ caller.at = "waiting"
  /\ Return("deadline")

\* stop(): refused once the status file counts an insertion.
StopCheck ==
  /\ caller.at # "arming" /\ ~stopping
  /\ worker.up
  /\ status.insertions = 0
  /\ stopping' = TRUE
  /\ UNCHANGED <<callerVars, armFile, status, worker, rejected, hostVars,
                 history>>

StopKill ==
  /\ stopping
  /\ stopping' = FALSE
  /\ worker' = [worker EXCEPT !.up = FALSE]
  /\ UNCHANGED <<callerVars, armFile, status, rejected, hostVars, history>>

\* start(): the files of the last worker are removed; it is a new room.
Start ==
  /\ ~worker.up
  /\ caller.at # "arming" /\ ~stopping
  /\ worker' = NewWorker
  /\ status' = NoStatus
  /\ armFile' = 0
  /\ rejected' = 0
  /\ wire' = {} /\ echoes' = {}
  /\ UNCHANGED <<callerVars, executed, stopping, history>>

\* ----------------------------------------------------------------- the worker

\* A packet passes while nothing is held: the arm file is read, or refused and
\* remembered by its signature.
ReadArm ==
  /\ Loop
  /\ worker.holding = 0
  /\ armFile # 0 /\ armFile # rejected
  /\ \/ /\ worker' = [worker EXCEPT !.holding = armFile, !.pc = "publish"]
        /\ UNCHANGED rejected
     \/ /\ rejected' = armFile
        /\ UNCHANGED worker
  /\ UNCHANGED <<callerVars, armFile, status, stopping, hostVars, history>>

Fault == faults < MaxFaults /\ faults' = faults + 1

WriteStatus ==
  /\ worker' = [worker EXCEPT !.pc = "loop", !.missed = FALSE]
  /\ status' = [armed |-> worker.holding # 0, last |-> worker.last,
                insertions |-> worker.insertions]
  /\ UNCHANGED <<callerVars, armFile, rejected, stopping, hostVars, history>>

\* The status file is written after what it tells of has happened.
Publish ==
  /\ worker.up /\ worker.pc = "publish"
  /\ WriteStatus

\* A reader has the file open at all three attempts, or noting the event in the
\* log raised before: nobody looks whether the status was written.
PublishFails ==
  /\ worker.up /\ worker.pc = "publish"
  /\ Fault
  /\ worker' = [worker EXCEPT !.pc = "loop", !.missed = TRUE]
  /\ UNCHANGED <<callerVars, armFile, status, rejected, stopping, hostVars,
                 settled, inserted, kept>>

\* A later write of the status, for a command of the game that is observed.
Republish ==
  /\ Loop /\ worker.missed
  /\ WriteStatus

NeedsCarrier == worker.holding # 0 /\ ~worker.injected

\* A pure acknowledgement passes: the record goes out behind it.
Inject ==
  /\ Loop /\ NeedsCarrier
  /\ worker' = [worker EXCEPT !.injected = TRUE, !.insertions = @ + 1,
                              !.pc = "publish"]
  /\ wire' = wire \union {worker.holding}
  /\ inserted' = [inserted EXCEPT ![worker.holding] = @ + 1]
  /\ UNCHANGED <<callerVars, armFile, status, rejected, stopping, executed,
                 echoes, settled, kept, faults>>

\* Defect: the arm file outlives the request it held.
FileKept == armFile

FileAfterFinish == 0

\* Defect: the status file is not written.
ReleasedSilently(outcome) ==
  [worker EXCEPT !.holding = 0, !.injected = FALSE, !.retagged = FALSE,
                 !.last = [id |-> worker.holding, outcome |-> outcome]]

Released(outcome) ==
  [worker EXCEPT !.holding = 0, !.injected = FALSE, !.retagged = FALSE,
                 !.pc = "publish",
                 !.last = [id |-> worker.holding, outcome |-> outcome]]

\* finish_request: the request is let go and arm.json removed, whichever
\* request it holds by now.
Finish(outcome) ==
  /\ worker' = Released(outcome)
  /\ settled' = [settled EXCEPT ![worker.holding] = outcome]
  /\ armFile' = FileAfterFinish
  /\ rejected' = 0
  /\ UNCHANGED <<callerVars, status, stopping, wire, executed, inserted, kept,
                 faults>>

CarrierTimeout ==
  /\ Loop /\ NeedsCarrier
  /\ Finish("carrier_timeout")
  /\ UNCHANGED echoes

ResponseTimeout ==
  /\ Loop
  /\ worker.holding # 0 /\ worker.injected /\ ~worker.retagged
  /\ Finish("response_timeout")
  /\ UNCHANGED echoes

\* Defect: the target of the broadcast is not compared.
AnyTarget(id) == TRUE

SameTarget(id) == targets[id] = targets[worker.holding]

\* retag_matching_response: actor and target agree with the request held.
Matches(id) ==
  /\ worker.insertions > 0
  /\ worker.holding # 0 /\ ~worker.retagged
  /\ SameTarget(id)

\* Noting the match in the log raised: the request is held and matched, and is
\* never settled.
MatchRaised ==
  /\ Fault
  /\ worker' = [worker EXCEPT !.retagged = TRUE]
  /\ UNCHANGED <<callerVars, armFile, status, rejected, stopping, wire, executed,
                 settled, inserted, kept>>

\* Removing arm.json raised inside finish_request: the request is let go, the
\* status is not written, and the file is read once more.
RemovalRaised ==
  /\ Fault
  /\ worker' = [Released("confirmed") EXCEPT !.pc = "loop", !.missed = TRUE]
  /\ settled' = [settled EXCEPT ![worker.holding] = "confirmed"]
  /\ kept' = kept \union {worker.holding}
  /\ rejected' = 0
  /\ UNCHANGED <<callerVars, armFile, status, stopping, wire, executed, inserted>>

\* A broadcast of the host passes.  One that matches gets the host's actor and
\* settles the request; any other goes on to the game as it is.
Echo(id) ==
  /\ Loop
  /\ id \in echoes
  /\ \/ echoes' = echoes \ {id}
     \/ HostRepeats /\ UNCHANGED echoes
  /\ \/ Matches(id) /\ Finish("confirmed")
     \/ Matches(id) /\ (MatchRaised \/ RemovalRaised)
     \/ /\ ~Matches(id)
        /\ UNCHANGED <<callerVars, armFile, status, worker, rejected, stopping,
                       wire, executed, history>>

\* session_seconds, a fault, or the machine: the worker is gone.
WorkerEnds ==
  /\ worker.up
  /\ worker' = [worker EXCEPT !.up = FALSE]
  /\ UNCHANGED <<callerVars, armFile, status, rejected, stopping, hostVars,
                 history>>

\* ------------------------------------------------------------------- the host

HostExecutes(id) ==
  /\ id \in wire \ executed
  /\ executed' = executed \union {id}
  /\ echoes' = echoes \union {id}
  /\ UNCHANGED <<callerVars, armFile, status, worker, rejected, stopping, wire,
                 history>>

Init ==
  /\ targets = <<>>
  /\ caller = [at |-> "idle", id |-> 0]
  /\ reported = [i \in Ids |-> "none"]
  /\ armFile = 0 /\ rejected = 0
  /\ status = NoStatus /\ worker = NewWorker
  /\ stopping = FALSE
  /\ wire = {} /\ executed = {} /\ echoes = {}
  /\ settled = [i \in Ids |-> "none"]
  /\ inserted = [i \in Ids |-> 0]
  /\ kept = {} /\ faults = 0

WorkerStep ==
  \/ ReadArm \/ Publish \/ PublishFails \/ Republish
  \/ Inject \/ CarrierTimeout \/ ResponseTimeout
  \/ \E id \in Ids : Echo(id)

Next ==
  \/ Check \/ ArmWrite \/ Poll \/ Deadline
  \/ StopCheck \/ StopKill \/ Start
  \/ WorkerStep \/ WorkerEnds
  \/ \E id \in Ids : HostExecutes(id)

Spec == Init /\ [][Next]_vars

\* Packets of the game keep passing, so the worker goes through its loop, reads
\* what is armed, tries to write its status and counts out its timeouts; the
\* caller polls.  Nothing says that a packet is a carrier, that the host answers,
\* or that a status that could not be written is written later.
FairSpec ==
  /\ Spec
  /\ WF_vars(ReadArm) /\ WF_vars(Publish \/ PublishFails)
  /\ WF_vars(CarrierTimeout)
  /\ WF_vars(ResponseTimeout) /\ WF_vars(Poll) /\ WF_vars(ArmWrite)

-----------------------------------------------------------------------------
(* Properties *)

\* What the caller is told "confirmed" was executed by the host: the broadcast
\* that settled the request was one of this request.
\* (retag_matching_response and finish_request("confirmed").)
ConfirmedMeansExecuted ==
  \A i \in Ids : reported[i] = "confirmed" => i \in executed

\* The answer a call returns is the outcome the worker gave that very request,
\* though callers give up, files are replaced and the status lags behind or is
\* not written.  A request whose file could not be removed is taken up once more
\* and may get a second outcome.  (_arm_and_wait_locked's poll of last_request.)
AnswerIsForCall ==
  \A i \in Ids \ kept : reported[i] \in WorkerOutcomes => reported[i] = settled[i]

\* A request is put into the stream at most once, and never after the worker
\* settled it: a carrier timeout reported means nothing was sent and nothing
\* will be.  The one exception is a request whose file could not be removed when
\* it was confirmed.  (finish_request, the injection branch of run.)
InsertedOnce ==
  \A i \in Ids \ kept : /\ inserted[i] <= 1
                        /\ settled[i] = "carrier_timeout" => inserted[i] = 0

\* A call has given up at its own deadline, and left its request behind.
GaveUp == \E j \in Ids : reported[j] = "deadline"

\* The worker cannot answer request i: the status that tells of its outcome could
\* not be written (write_json gives up), or its match could not be noted and the
\* request is never settled.
AnswerMissed(i) ==
  \/ worker.missed /\ worker.last.id = i
  \/ worker.retagged /\ worker.holding = i

\* While the worker lives, a call whose request it has taken, or finds in the
\* file and accepts, returns by the worker's answer alone, unless that answer
\* could not be written: neither a carrier nor a broadcast has to come.  (The
\* worker's two timeouts, and the status written after each.)
ReturnsWithoutDeadline ==
  \A i \in Ids :
    (caller.at = "waiting" /\ caller.id = i /\ i \in {armFile, worker.holding})
       ~> \/ caller.id # i \/ ~worker.up \/ rejected = i \/ GaveUp \/ kept # {}
          \/ AnswerMissed(i)
=============================================================================
