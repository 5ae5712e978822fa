----------------------------- MODULE HostBridge ------------------------------
(***************************************************************************)
(* One construction through the Windows host bridge: the supervisor        *)
(* (stellaris/execution/iag_supervisor.py) publishes a request, the host   *)
(* takes it from a heartbeat, opens an interceptor and says READY, only    *)
(* then the supervisor clicks a carrier, and the interceptor rewrites the  *)
(* carrier and reports what it saw.                                        *)
(* (stellaris/execution/host_executor_protocol.py for the documents both   *)
(* sides meet in, apps/host_bridge/iag_save_uploader.py and                *)
(* iag_host_interceptor.py for the host.)                                  *)
(*                                                                         *)
(* A run is executed once and has one request, so the run names it.  What  *)
(* a carrier and its rewriting contain is left out; the player clicks no   *)
(* carrier.                                                                *)
(***************************************************************************)
EXTENDS Integers, FiniteSets

CONSTANTS
  Runs,       \* run directories
  NoRun,
  MaxFaults,  \* bound: restarts, lost answers, late clicks, late heartbeats together
  MaxStops    \* bound: emergency stops

ASSUME HostBridgeAssumption ==
  /\ NoRun \notin Runs
  /\ MaxFaults \in Nat /\ MaxStops \in Nat

VARIABLES
  sup,       \* sup[r]: where the execution of run r is
  lock,      \* the run that created execution.lock
  active,    \* the request active.json points to
  docs,      \* docs[r]: files in the directory of the request
  result,    \* result[r]: what result.json says
  offer,     \* the request in the answer to the host's heartbeat
  host,      \* the executor thread of the host: [pc, run, report]
  handled,   \* handled_executor_ids
  carriers,  \* runs whose carrier is on its way to the host
  echoes,    \* runs whose command the host broadcasts
  rewritten, \* history: <<r, q>>, the command of r in the carrier of q was carried out
  raw,       \* history: runs whose carrier the game has carried out unchanged
  stop,      \* the file emergency_stop
  stops, faults,
  disturbed  \* history: runs a fault or a stop may have reached

supVars  == <<sup, lock>>
docVars  == <<active, docs, result>>
hostVars == <<offer, host, handled>>
gameVars == <<carriers, echoes, rewritten, raw>>
bounds   == <<stop, stops, faults, disturbed>>
bridgeVars == <<supVars, docVars, hostVars, gameVars, bounds>>

Silent == [success |-> FALSE, rewritten |-> FALSE, pending |-> FALSE]
NoHost == [pc |-> "idle", run |-> NoRun, report |-> Silent]

Ended == {"confirmed", "pending", "failed", "died"}

(* Runs that are under way: what a fault may reach.                        *)
UnderWay == {r \in Runs : sup[r] \notin {"new"} \cup Ended}
            \cup ({host.run} \ {NoRun})

Disturb == disturbed' = disturbed \cup UnderWay

Fault == faults < MaxFaults /\ faults' = faults + 1 /\ Disturb /\ UNCHANGED <<stop, stops>>

BridgeInit ==
  /\ sup = [r \in Runs |-> "new"] /\ lock = NoRun
  /\ active = NoRun /\ docs = [r \in Runs |-> {}] /\ result = [r \in Runs |-> Silent]
  /\ offer = NoRun /\ host = NoHost /\ handled = {}
  /\ carriers = {} /\ echoes = {} /\ rewritten = {} /\ raw = {}
  /\ stop = FALSE /\ stops = 0 /\ faults = 0 /\ disturbed = {}

(* read_active_request: a result or a cancellation ends a request, and so  *)
(* does its time.                                                          *)
IsActive(r) == active = r /\ docs[r] \cap {"result", "cancelled", "expired"} = {}

Move(r, pc) == sup' = [sup EXCEPT ![r] = pc]

-----------------------------------------------------------------------------
(* The supervisor.                                                         *)

TakeLock(r) ==
  /\ sup[r] = "new"
  /\ IF lock = NoRun /\ ~stop THEN Move(r, "locked") /\ lock' = r
     ELSE Move(r, "failed") /\ UNCHANGED lock
  /\ UNCHANGED <<docVars, hostVars, gameVars, bounds>>

(* begin_host_execution: one request is active at a time.                  *)
Begin(r) ==
  /\ sup[r] = "locked"
  /\ IF active # NoRun /\ IsActive(active)
     THEN Move(r, "failed") /\ lock' = NoRun /\ UNCHANGED <<active, docs>>
     ELSE /\ Move(r, "begun") /\ UNCHANGED lock
          /\ active' = r /\ docs' = [docs EXCEPT ![r] = {"request"}]
  /\ UNCHANGED <<result, hostVars, gameVars, bounds>>

\* Defect: the click does not wait for READY.
Published(r) == "request" \in docs[r]

Ready(r) == "ready" \in docs[r]

(* wait_for_host_ready has READY; the stop file is not looked at again     *)
(* before the click.                                                       *)
SeeReady(r) ==
  /\ sup[r] = "begun" /\ Ready(r) /\ Move(r, "ready")
  /\ UNCHANGED <<lock, docVars, hostVars, gameVars, bounds>>

Click(r) ==
  /\ sup[r] = "ready" /\ Move(r, "clicked")
  /\ carriers' = carriers \cup {r}
  /\ UNCHANGED <<lock, docVars, hostVars, echoes, rewritten, raw, bounds>>

ClickFails(r) ==
  /\ sup[r] = "ready" /\ faults < MaxFaults /\ Fault
  /\ Move(r, "cancelling")
  /\ UNCHANGED <<lock, docVars, hostVars, gameVars>>

(* A stop, a cancellation, or a result before READY.                       *)
WaitFails(r) ==
  /\ \/ sup[r] \in {"begun", "clicked"} /\ stop
     \/ sup[r] = "begun" /\ "result" \in docs[r] /\ ~Ready(r)
  /\ Move(r, "cancelling")
  /\ UNCHANGED <<lock, docVars, hostVars, gameVars, bounds>>

(* host_executor_ready_timeout_seconds, which the host keeps unless it is  *)
(* busy or disturbed; and the time for the result, which is longer than    *)
(* all deadlines of the interceptor together.                              *)
WaitTimesOut(r) ==
  /\ \/ sup[r] = "begun" /\ ~Ready(r) /\ (r \in disturbed \/ host.run \notin {r, NoRun})
     \/ sup[r] = "clicked" /\ "result" \notin docs[r] /\ host.run # r
  /\ Move(r, "cancelling")
  /\ UNCHANGED <<lock, docVars, hostVars, gameVars, bounds>>

(* The thread that sends the heartbeats also uploads the saves, and waits  *)
(* up to a minute after uploads that failed: READY comes too late.         *)
HostIsLate(r) ==
  /\ sup[r] = "begun" /\ ~Ready(r) /\ Fault
  /\ Move(r, "cancelling")
  /\ UNCHANGED <<lock, docVars, hostVars, gameVars>>

(* cancel_host_execution, then the lock file goes with the exception.      *)
Cancel(r) ==
  /\ sup[r] = "cancelling"
  /\ docs' = IF "result" \in docs[r] THEN docs ELSE [docs EXCEPT ![r] = @ \cup {"cancelled"}]
  /\ active' = IF active = r THEN NoRun ELSE active
  /\ Move(r, "failed") /\ lock' = NoRun
  /\ UNCHANGED <<result, hostVars, gameVars, bounds>>

\* Defect: whatever the host could not confirm is left to the next save.
PendingUnlessConfirmed(s) == IF s.success THEN "confirmed" ELSE "pending"

(* confirmed_by_packet, pending_save_confirmation or failed.               *)
Outcome(s) == IF s.success THEN "confirmed" ELSE IF s.pending THEN "pending" ELSE "failed"

Complete(r) ==
  /\ sup[r] = "clicked" /\ "result" \in docs[r]
  /\ Move(r, Outcome(result[r])) /\ lock' = NoRun
  /\ active' = IF active = r THEN NoRun ELSE active
  /\ UNCHANGED <<docs, result, hostVars, gameVars, bounds>>

(* The console process dies; its lock file and its request stay.           *)
SupervisorDies(r) ==
  /\ sup[r] \notin {"new"} \cup Ended /\ Fault
  /\ Move(r, "died")
  /\ UNCHANGED <<lock, docVars, hostVars, gameVars>>

(* "Inspect it before removal": the player removes the lock file.          *)
LockRemoved ==
  /\ lock # NoRun /\ sup[lock] = "died" /\ lock' = NoRun
  /\ UNCHANGED <<sup, docVars, hostVars, gameVars, bounds>>

(* expires_epoch lies behind every deadline of the supervisor and the host.*)
Expire(r) ==
  /\ sup[r] = "died" /\ docs[r] # {} /\ host.run # r
  /\ docs' = [docs EXCEPT ![r] = @ \cup {"expired"}]
  /\ UNCHANGED <<supVars, active, result, hostVars, gameVars, bounds>>

EmergencyStop ==
  /\ stops < MaxStops /\ ~stop
  /\ stop' = TRUE /\ stops' = stops + 1 /\ Disturb
  /\ UNCHANGED <<supVars, docVars, hostVars, gameVars, faults>>

(* clear_emergency_stop: only when no job is running.                      *)
ClearStop ==
  /\ stop /\ \A r \in Runs : sup[r] \in {"new"} \cup Ended
  /\ stop' = FALSE
  /\ UNCHANGED <<supVars, docVars, hostVars, gameVars, stops, faults, disturbed>>

-----------------------------------------------------------------------------
(* The host.                                                               *)

(* A heartbeat is answered with the active request.                        *)
Heartbeat ==
  /\ offer = NoRun /\ active # NoRun /\ IsActive(active)
  /\ offer' = active
  /\ UNCHANGED <<supVars, docVars, host, handled, gameVars, bounds>>

\* Defect: the thread of a request that is over stays the active one.
HostAfter == [NoHost EXCEPT !.run = host.run]

HostIdle == NoHost

Accept ==
  /\ offer # NoRun
  /\ IF offer \in handled \/ host.run # NoRun THEN UNCHANGED host
     ELSE host' = [NoHost EXCEPT !.pc = "open", !.run = offer]
  /\ offer' = NoRun
  /\ UNCHANGED <<supVars, docVars, handled, gameVars, bounds>>

Report(success, changed, pending) ==
  [success |-> success, rewritten |-> changed, pending |-> pending]

EndWatch(report) == host' = [host EXCEPT !.pc = "report", !.report = report]

(* The handle is open; record_host_ready takes READY while the request is  *)
(* active, and otherwise its refusal ends the interceptor.                 *)
AnnounceReady ==
  /\ host.pc = "open"
  /\ IF IsActive(host.run)
     THEN /\ docs' = [docs EXCEPT ![host.run] = @ \cup {"ready"}]
          /\ host' = [host EXCEPT !.pc = "watch"]
     ELSE EndWatch(Silent) /\ UNCHANGED docs
  /\ UNCHANGED <<supVars, active, result, offer, handled, gameVars, bounds>>

(* No administrator, no ports; or READY is recorded and its answer is lost.*)
ReadyFails ==
  /\ host.pc = "open" /\ Fault /\ EndWatch(Silent)
  /\ \/ UNCHANGED docs
     \/ IsActive(host.run) /\ docs' = [docs EXCEPT ![host.run] = @ \cup {"ready"}]
  /\ UNCHANGED <<supVars, active, result, offer, handled, gameVars>>

Watching == host.pc = "watch" /\ ~host.report.rewritten

(* The first carrier is rewritten, whoever clicked it; without an          *)
(* interceptor, or behind the first, a carrier reaches the game as it is.  *)
CarrierRewritten(r) ==
  /\ r \in carriers /\ Watching
  /\ carriers' = carriers \ {r}
  /\ rewritten' = rewritten \cup {<<host.run, r>>} /\ echoes' = echoes \cup {host.run}
  /\ host' = [host EXCEPT !.report.rewritten = TRUE]
  /\ UNCHANGED <<supVars, docVars, offer, handled, raw, bounds>>

CarrierPasses(r) ==
  /\ r \in carriers /\ ~Watching
  /\ carriers' = carriers \ {r} /\ raw' = raw \cup {r}
  /\ UNCHANGED <<supVars, docVars, hostVars, echoes, rewritten, bounds>>

(* A carrier that cannot be rewritten is dropped and ends the interceptor; *)
(* the game sends it again.                                                *)
RewriteFails(r) ==
  /\ r \in carriers /\ Watching /\ Fault
  /\ EndWatch(Silent)
  /\ UNCHANGED <<supVars, docVars, offer, handled, gameVars>>

(* The broadcast is recognised while the interceptor is open, or not.      *)
EchoSeen(r) ==
  /\ r \in echoes /\ echoes' = echoes \ {r}
  /\ IF host.pc = "watch" /\ host.run = r /\ host.report.rewritten
     THEN EndWatch(Report(TRUE, TRUE, FALSE)) ELSE UNCHANGED host
  /\ UNCHANGED <<supVars, docVars, offer, handled, carriers, rewritten, raw, bounds>>

EchoMissed(r) ==
  /\ r \in echoes /\ echoes' = echoes \ {r}
  /\ UNCHANGED <<supVars, docVars, hostVars, carriers, rewritten, raw, bounds>>

ReportUnconfirmed == Report(FALSE, TRUE, TRUE)

(* observe_seconds after the rewriting.                                    *)
ObserveEnds ==
  /\ host.pc = "watch" /\ host.report.rewritten /\ host.run \notin echoes
  /\ EndWatch(ReportUnconfirmed)
  /\ UNCHANGED <<supVars, docVars, offer, handled, gameVars, bounds>>

(* The deadline without a carrier, when there is none and nobody clicks.   *)
DeadlinePasses ==
  /\ Watching /\ sup[host.run] \in Ended \cup {"clicked"} /\ host.run \notin carriers
  /\ EndWatch(Silent)
  /\ UNCHANGED <<supVars, docVars, offer, handled, gameVars, bounds>>

(* The same while the click sequence is still looking for its button.      *)
ClickIsLate ==
  /\ Watching /\ sup[host.run] \notin Ended \cup {"clicked"} /\ Fault
  /\ EndWatch(Silent)
  /\ UNCHANGED <<supVars, docVars, offer, handled, gameVars>>

(* record_host_result, refused when the request is not active any more.    *)
PostResult ==
  /\ host.pc = "report"
  /\ IF IsActive(host.run)
     THEN /\ docs' = [docs EXCEPT ![host.run] = @ \cup {"result"}]
          /\ result' = [result EXCEPT ![host.run] = host.report]
     ELSE UNCHANGED <<docs, result>>
  /\ handled' = handled \cup {host.run} /\ host' = HostIdle
  /\ UNCHANGED <<supVars, active, offer, gameVars, bounds>>

(* The post fails and is only logged.                                      *)
ResultLost ==
  /\ host.pc = "report" /\ Fault
  /\ handled' = handled \cup {host.run} /\ host' = HostIdle
  /\ UNCHANGED <<supVars, docVars, offer, gameVars>>

(* The bridge is stopped or restarted: what it handled is forgotten, and   *)
(* the request is accepted again while it is active.                       *)
HostRestarts ==
  /\ Fault
  /\ host' = NoHost /\ handled' = {} /\ offer' = NoRun
  /\ UNCHANGED <<supVars, docVars, gameVars>>

-----------------------------------------------------------------------------
Supervisor(r) ==
  \/ TakeLock(r) \/ Begin(r) \/ SeeReady(r) \/ Click(r) \/ WaitFails(r)
  \/ WaitTimesOut(r) \/ Cancel(r) \/ Complete(r)

HostThread == AnnounceReady \/ ObserveEnds \/ DeadlinePasses \/ PostResult

Packets == \E r \in Runs : CarrierRewritten(r) \/ CarrierPasses(r) \/ EchoSeen(r) \/ EchoMissed(r)

BridgeNext ==
  \/ \E r \in Runs : Supervisor(r) \/ ClickFails(r) \/ HostIsLate(r) \/ SupervisorDies(r) \/ Expire(r)
  \/ LockRemoved \/ EmergencyStop \/ ClearStop
  \/ Heartbeat \/ Accept \/ HostThread \/ ClickIsLate \/ ReadyFails \/ ResultLost \/ HostRestarts
  \/ Packets
  \/ \E r \in Runs : RewriteFails(r)

(* Both programs poll, and packets arrive.                                 *)
BridgeSpec ==
  /\ BridgeInit /\ [][BridgeNext]_bridgeVars
  /\ \A r \in Runs : WF_bridgeVars(Supervisor(r))
  /\ WF_bridgeVars(Heartbeat) /\ WF_bridgeVars(Accept) /\ WF_bridgeVars(HostThread)
  /\ WF_bridgeVars(Packets)

-----------------------------------------------------------------------------
CarriedOut(r) == \E q \in Runs : <<r, q>> \in rewritten

(* A run that is confirmed, or left to the next save, was rewritten into   *)
(* its own command and the game carried that out: no restart, no lost      *)
(* answer and no late report makes it up (the outcome in                   *)
(* execute_via_windows_host_bridge).                                       *)
OutcomeIsTrue ==
  \A r \in Runs : sup[r] \in {"confirmed", "pending"} => CarriedOut(r)

(* A run out of step with the host: a fault or a stop fell into it, or its *)
(* command went into the carrier of another run.                           *)
Mixed(r) == r \in disturbed \/ \E q \in Runs \ {r} : <<r, q>> \in rewritten

(* A carrier is carried out unchanged, or takes the command of another     *)
(* run, or a run fails although its command was carried out, only in a run *)
(* that a restart, a lost answer, a late click or an emergency stop has    *)
(* reached, or whose interceptor such a carrier met first; and without     *)
(* such a fault no command meets the carrier of another run at all: READY  *)
(* before the click keeps what drop_unrewritable_carrier promises.         *)
OnlyFaultsMixRuns ==
  /\ \A p \in rewritten : p[1] # p[2] => Mixed(p[2]) /\ disturbed # {}
  /\ \A r \in Runs : r \in raw \/ (sup[r] = "failed" /\ CarriedOut(r)) => Mixed(r)

(* A request that is published gets its answer: the run is confirmed or    *)
(* left to the next save, unless a fault or a stop fell into it or the     *)
(* host is still busy with an earlier request; and the host is never busy  *)
(* with one request for ever.                                              *)
CleanRunSucceeds ==
  /\ \A r \in Runs :
       sup[r] = "begun" ~> \/ sup[r] \in {"confirmed", "pending"}
                           \/ r \in disturbed
                           \/ host.run \notin {r, NoRun}
  /\ host.run # NoRun ~> host.run = NoRun
===============================================================================
