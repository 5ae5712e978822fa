-------------------------- MODULE HostBridgeProofs --------------------------
(* Theorems about HostBridge for any number of runs, faults and stops.       *)
EXTENDS HostBridge, TLAPS

USE DEF supVars, docVars, hostVars, gameVars, bounds, bridgeVars, Move

SupStates == {"new", "locked", "begun", "ready", "clicked", "cancelling"} \cup Ended

ReportSet == [success : BOOLEAN, rewritten : BOOLEAN, pending : BOOLEAN]

HostSet == [pc : {"idle", "open", "watch", "report"}, run : Runs \cup {NoRun},
            report : ReportSet]

BridgeTypeOK ==
  /\ sup \in [Runs -> SupStates]
  /\ lock \in Runs \cup {NoRun} /\ active \in Runs \cup {NoRun}
  /\ offer \in Runs \cup {NoRun}
  /\ docs \in [Runs -> SUBSET {"request", "ready", "result", "cancelled", "expired"}]
  /\ result \in [Runs -> ReportSet]
  /\ host \in HostSet /\ (host.pc = "idle" <=> host.run = NoRun)
  /\ carriers \subseteq Runs /\ echoes \subseteq Runs /\ raw \subseteq Runs
  /\ rewritten \subseteq Runs \X Runs /\ disturbed \subseteq Runs
  /\ stop \in BOOLEAN

(* A report that claims something: confirmed, rewritten or pending.          *)
Says(s) == s.success \/ s.rewritten \/ s.pending

(* What the host thread, a result document and an outcome claim is so.       *)
ReportsAreTrue ==
  /\ Says(host.report) => CarriedOut(host.run)
  /\ \A r \in Runs : Says(result[r]) => CarriedOut(r)
  /\ OutcomeIsTrue

(* No carrier of the run is or was on its way.                               *)
Untouched(r) ==
  /\ r \notin carriers /\ r \notin raw
  /\ \A q \in Runs : <<r, q>> \notin rewritten

(* The host has not heard of the run (before begin_host_execution).          *)
Unpublished(r) ==
  /\ docs[r] = {} /\ active # r /\ offer # r /\ host.run # r
  /\ Untouched(r)

(* The run has its request out and waits for READY or has it: the host that  *)
(* said so is still watching for this run (wait_for_host_ready).             *)
Waits(r) ==
  /\ ~stop /\ IsActive(r) /\ Untouched(r)
  /\ Ready(r) => host.run = r /\ host.pc = "watch"
  /\ host.run = r => host.pc \in {"open", "watch"}

(* The carrier was rewritten, and the host says so or is about to.           *)
Answered(r) ==
  /\ CarriedOut(r)
  /\ \/ IsActive(r) /\ host.run = r
        /\ \/ host.pc = "watch" /\ host.report.rewritten
           \/ host.pc = "report" /\ (host.report.success \/ host.report.pending)
     \/ "result" \in docs[r] /\ (result[r].success \/ result[r].pending)

(* The carrier was clicked: it is on its way to an interceptor that has this *)
(* run, or was rewritten into the run's own command.                         *)
Sent(r) ==
  /\ ~stop /\ r \notin raw
  /\ \/ r \in carriers /\ IsActive(r)
        /\ host.run = r /\ Watching
     \/ r \notin carriers /\ Answered(r)

(* Where a run that nothing disturbed is in step with the host.              *)
CleanState(r) ==
  /\ sup[r] \in {"new", "locked"} => Untouched(r)
  /\ sup[r] = "locked" => ~stop
  /\ sup[r] = "begun" => Waits(r)
  /\ sup[r] = "ready" => Waits(r) /\ Ready(r)
  /\ sup[r] = "clicked" => Sent(r)
  /\ sup[r] \in {"cancelling", "failed"} => Untouched(r)
  /\ sup[r] \in {"confirmed", "pending"} => r \notin carriers /\ r \notin raw
  /\ sup[r] # "died"

(* The inductive invariant: a run that is not in CleanState was disturbed,   *)
(* or its carrier took the command of a run that was.                        *)
BridgeInv ==
  /\ ReportsAreTrue
  /\ \A r \in Runs : sup[r] \in {"new", "locked"} => Unpublished(r)
  /\ \A r \in Runs : ~Mixed(r) => CleanState(r)
  /\ \A p \in rewritten : p[1] # p[2] => Mixed(p[2]) /\ disturbed # {}

-----------------------------------------------------------------------------
(* What the host thread is after it took a request, asked for READY, or     *)
(* stopped watching (executor_heartbeat, run_interceptor).                  *)
LEMMA ReportFacts ==
  /\ Silent \in ReportSet
  /\ \A a, b, c \in BOOLEAN : Report(a, b, c) \in ReportSet
  BY DEF Silent, Report, ReportSet

(* A request is taken only by an idle thread (executor_heartbeat).           *)
LEMMA AcceptFacts ==
  ASSUME BridgeTypeOK, Accept
  PROVE  \/ host' = host
         \/ /\ host' = [pc |-> "open", run |-> offer, report |-> Silent]
            /\ offer \in Runs /\ host.run = NoRun /\ offer \notin handled
  BY HostBridgeAssumption DEF BridgeTypeOK, Accept, NoHost

(* An interceptor that ends leaves its report with the run it had            *)
(* (run_interceptor).                                                        *)
LEMMA EndWatchFacts ==
  ASSUME BridgeTypeOK, host.pc # "idle", NEW s \in ReportSet, EndWatch(s)
  PROVE  /\ host' = [pc |-> "report", run |-> host.run, report |-> s]
         /\ host.run \in Runs /\ host' \in HostSet /\ host'.pc = "report"
         /\ host'.run = host.run /\ host'.run # NoRun /\ host'.report = s
  BY HostBridgeAssumption DEF BridgeTypeOK, HostSet, EndWatch

(* READY is recorded for the active request, or the interceptor ends without *)
(* a word (record_host_ready).                                               *)
LEMMA AnnounceFacts ==
  ASSUME BridgeTypeOK, AnnounceReady
  PROVE  /\ host.run \in Runs /\ host' \in HostSet
         /\ host'.run = host.run /\ host'.pc # "idle"
         /\ IF IsActive(host.run) THEN host'.pc = "watch" /\ host'.report = host.report
            ELSE host'.pc = "report" /\ host'.report = Silent
<1>1. host.run \in Runs
  BY HostBridgeAssumption DEF BridgeTypeOK, HostSet, AnnounceReady
<1>2. CASE IsActive(host.run)
  BY <1>1, <1>2 DEF BridgeTypeOK, HostSet, AnnounceReady
<1>3. CASE ~IsActive(host.run)
  BY <1>1, <1>3, EndWatchFacts, ReportFacts DEF AnnounceReady
<1> QED BY <1>2, <1>3

(* What runs have gone through is never taken back: commands carried out    *)
(* and runs disturbed stay recorded (rewritten, disturbed).                 *)
LEMMA HistoryGrows ==
  ASSUME BridgeTypeOK, [BridgeNext]_bridgeVars
  PROVE  /\ rewritten \subseteq rewritten' /\ disturbed \subseteq disturbed'
         /\ \A r \in Runs : CarriedOut(r) => CarriedOut(r)'
         /\ \A r \in Runs : Mixed(r) => Mixed(r)'
<1> DEFINE Grown == rewritten \subseteq rewritten' /\ disturbed \subseteq disturbed'
<1>a. Grown
  <2>1. ASSUME NEW q \in Runs, TakeLock(q)
        PROVE  Grown
    BY <2>1 DEF TakeLock
  <2>2. ASSUME NEW q \in Runs, Begin(q)
        PROVE  Grown
    BY <2>2 DEF Begin
  <2>3. ASSUME NEW q \in Runs, SeeReady(q)
        PROVE  Grown
    BY <2>3 DEF SeeReady, Ready
  <2>4. ASSUME NEW q \in Runs, Click(q)
        PROVE  Grown
    BY <2>4 DEF Click
  <2>5. ASSUME NEW q \in Runs, WaitFails(q)
        PROVE  Grown
    BY <2>5 DEF WaitFails
  <2>6. ASSUME NEW q \in Runs, WaitTimesOut(q)
        PROVE  Grown
    BY <2>6 DEF WaitTimesOut
  <2>7. ASSUME NEW q \in Runs, Cancel(q)
        PROVE  Grown
    BY <2>7 DEF Cancel
  <2>8. ASSUME NEW q \in Runs, Complete(q)
        PROVE  Grown
    BY <2>8 DEF Complete
  <2>9. ASSUME NEW q \in Runs, ClickFails(q)
        PROVE  Grown
    BY <2>9 DEF ClickFails, Fault, Disturb
  <2>10. ASSUME NEW q \in Runs, HostIsLate(q)
         PROVE  Grown
    BY <2>10 DEF HostIsLate, Fault, Disturb
  <2>11. ASSUME NEW q \in Runs, SupervisorDies(q)
         PROVE  Grown
    BY <2>11 DEF SupervisorDies, Fault, Disturb
  <2>12. ASSUME NEW q \in Runs, Expire(q)
         PROVE  Grown
    BY <2>12 DEF Expire
  <2>13. ASSUME NEW q \in Runs, CarrierRewritten(q)
         PROVE  Grown
    BY <2>13 DEF CarrierRewritten
  <2>14. ASSUME NEW q \in Runs, CarrierPasses(q)
         PROVE  Grown
    BY <2>14 DEF CarrierPasses
  <2>15. ASSUME NEW q \in Runs, EchoSeen(q)
         PROVE  Grown
    BY <2>15 DEF EchoSeen
  <2>16. ASSUME NEW q \in Runs, EchoMissed(q)
         PROVE  Grown
    BY <2>16 DEF EchoMissed
  <2>17. ASSUME NEW q \in Runs, RewriteFails(q)
         PROVE  Grown
    BY <2>17 DEF RewriteFails, Fault, Disturb
  <2>18. CASE LockRemoved
    BY <2>18 DEF LockRemoved
  <2>19. CASE EmergencyStop
    BY <2>19 DEF EmergencyStop, Disturb
  <2>20. CASE ClearStop
    BY <2>20 DEF ClearStop
  <2>21. CASE Heartbeat
    BY <2>21 DEF Heartbeat
  <2>22. CASE Accept
    BY <2>22 DEF Accept
  <2>23. CASE AnnounceReady
    BY <2>23 DEF AnnounceReady
  <2>24. CASE ObserveEnds
    BY <2>24 DEF ObserveEnds
  <2>25. CASE DeadlinePasses
    BY <2>25 DEF DeadlinePasses
  <2>26. CASE PostResult
    BY <2>26 DEF PostResult
  <2>27. CASE ClickIsLate
    BY <2>27 DEF ClickIsLate, Fault, Disturb
  <2>28. CASE ReadyFails
    BY <2>28 DEF ReadyFails, Fault, Disturb
  <2>29. CASE ResultLost
    BY <2>29 DEF ResultLost, Fault, Disturb
  <2>30. CASE HostRestarts
    BY <2>30 DEF HostRestarts, Fault, Disturb
  <2>31. CASE UNCHANGED bridgeVars
    BY <2>31
  <2> QED
    BY <2>1, <2>2, <2>3, <2>4, <2>5, <2>6, <2>7, <2>8, <2>9, <2>10, <2>11, <2>12,
       <2>13, <2>14, <2>15, <2>16, <2>17, <2>18, <2>19, <2>20, <2>21, <2>22, <2>23,
       <2>24, <2>25, <2>26, <2>27, <2>28, <2>29, <2>30, <2>31
    DEF BridgeNext, Supervisor, HostThread, Packets
<1> QED BY <1>a DEF CarriedOut, Mixed

(* Every variable keeps its type, and the host thread is idle exactly when  *)
(* it has no request (pc and run are the two halves of one thread).         *)
LEMMA BridgeTypeStep ==
  ASSUME BridgeTypeOK, [BridgeNext]_bridgeVars
  PROVE  BridgeTypeOK'
<1> USE HostBridgeAssumption
<1>1. ASSUME NEW q \in Runs, TakeLock(q)
      PROVE  BridgeTypeOK'
  BY <1>1 DEF TakeLock, BridgeTypeOK, SupStates, Ended
<1>2. ASSUME NEW q \in Runs, Begin(q)
      PROVE  BridgeTypeOK'
  BY <1>2 DEF Begin, BridgeTypeOK, HostSet, SupStates, Ended
<1>3. ASSUME NEW q \in Runs, SeeReady(q)
      PROVE  BridgeTypeOK'
  BY <1>3 DEF SeeReady, Ready, BridgeTypeOK, SupStates
<1>4. ASSUME NEW q \in Runs, Click(q)
      PROVE  BridgeTypeOK'
  BY <1>4 DEF Click, BridgeTypeOK, SupStates
<1>5. ASSUME NEW q \in Runs, WaitFails(q)
      PROVE  BridgeTypeOK'
  BY <1>5 DEF WaitFails, BridgeTypeOK, SupStates
<1>6. ASSUME NEW q \in Runs, WaitTimesOut(q)
      PROVE  BridgeTypeOK'
  BY <1>6 DEF WaitTimesOut, BridgeTypeOK, SupStates
<1>7. ASSUME NEW q \in Runs, Cancel(q)
      PROVE  BridgeTypeOK'
  BY <1>7 DEF Cancel, BridgeTypeOK, SupStates, Ended
<1>8. ASSUME NEW q \in Runs, Complete(q)
      PROVE  BridgeTypeOK'
  BY <1>8 DEF Complete, Outcome, BridgeTypeOK, SupStates, Ended
<1>9. ASSUME NEW q \in Runs, ClickFails(q)
      PROVE  BridgeTypeOK'
  BY <1>9 DEF ClickFails, Fault, Disturb, BridgeTypeOK, HostSet, SupStates, UnderWay
<1>10. ASSUME NEW q \in Runs, HostIsLate(q)
       PROVE  BridgeTypeOK'
  BY <1>10 DEF HostIsLate, Fault, Disturb, BridgeTypeOK, HostSet, SupStates, UnderWay
<1>11. ASSUME NEW q \in Runs, SupervisorDies(q)
       PROVE  BridgeTypeOK'
  BY <1>11
    DEF SupervisorDies, Fault, Disturb, BridgeTypeOK, HostSet, SupStates, Ended,
        UnderWay
<1>12. ASSUME NEW q \in Runs, Expire(q)
       PROVE  BridgeTypeOK'
  BY <1>12 DEF Expire, BridgeTypeOK
<1>13. ASSUME NEW q \in Runs, CarrierRewritten(q)
       PROVE  BridgeTypeOK'
  <2>1. host' \in HostSet /\ (host'.pc = "idle" <=> host'.run = NoRun)
    BY <1>13 DEF CarrierRewritten, BridgeTypeOK, HostSet, ReportSet
  <2>2. host.run \in Runs
    BY <1>13 DEF CarrierRewritten, BridgeTypeOK, HostSet, Watching
  <2> QED
    BY <1>13, <2>1, <2>2 DEF CarrierRewritten, BridgeTypeOK
<1>14. ASSUME NEW q \in Runs, CarrierPasses(q)
       PROVE  BridgeTypeOK'
  BY <1>14 DEF CarrierPasses, BridgeTypeOK
<1>15. ASSUME NEW q \in Runs, EchoSeen(q)
       PROVE  BridgeTypeOK'
  <2>1. host' \in HostSet /\ (host'.pc = "idle" <=> host'.run = NoRun)
    BY <1>15, EndWatchFacts, ReportFacts DEF EchoSeen, BridgeTypeOK
  <2> QED
    BY <1>15, <2>1 DEF EchoSeen, BridgeTypeOK
<1>16. ASSUME NEW q \in Runs, EchoMissed(q)
       PROVE  BridgeTypeOK'
  BY <1>16 DEF EchoMissed, BridgeTypeOK
<1>17. ASSUME NEW q \in Runs, RewriteFails(q)
       PROVE  BridgeTypeOK'
  BY <1>17
    DEF RewriteFails, Watching, EndWatch, Fault, Disturb, BridgeTypeOK, HostSet,
        ReportSet, Silent, UnderWay
<1>18. CASE LockRemoved
  BY <1>18 DEF LockRemoved, BridgeTypeOK
<1>19. CASE EmergencyStop
  BY <1>19 DEF EmergencyStop, Disturb, BridgeTypeOK, HostSet, UnderWay
<1>20. CASE ClearStop
  BY <1>20 DEF ClearStop, BridgeTypeOK
<1>21. CASE Heartbeat
  BY <1>21 DEF Heartbeat, BridgeTypeOK
<1>22. CASE Accept
  <2>1. host' \in HostSet /\ (host'.pc = "idle" <=> host'.run = NoRun)
    <3>1. CASE host' = host
      BY <3>1 DEF BridgeTypeOK
    <3>2. CASE /\ host' = [pc |-> "open", run |-> offer, report |-> Silent]
               /\ offer \in Runs
      BY <3>2, ReportFacts DEF HostSet
    <3> QED BY <1>22, <3>1, <3>2, AcceptFacts
  <2> QED
    BY <1>22, <2>1 DEF Accept, BridgeTypeOK
<1>23. CASE AnnounceReady
  <2>1. host' \in HostSet /\ (host'.pc = "idle" <=> host'.run = NoRun)
    BY <1>23, AnnounceFacts
  <2> QED
    BY <1>23, <2>1 DEF AnnounceReady, BridgeTypeOK
<1>24. CASE ObserveEnds
  BY <1>24
    DEF ObserveEnds, EndWatch, ReportUnconfirmed, Report, BridgeTypeOK, HostSet,
        ReportSet
<1>25. CASE DeadlinePasses
  BY <1>25
    DEF DeadlinePasses, Watching, EndWatch, BridgeTypeOK, HostSet, ReportSet, Silent
<1>26. CASE PostResult
  BY <1>26 DEF PostResult, HostIdle, BridgeTypeOK, HostSet, ReportSet, NoHost, Silent
<1>27. CASE ClickIsLate
  BY <1>27
    DEF ClickIsLate, Watching, EndWatch, Fault, Disturb, BridgeTypeOK, HostSet,
        ReportSet, Silent, UnderWay
<1>28. CASE ReadyFails
  <2>1. host' \in HostSet /\ (host'.pc = "idle" <=> host'.run = NoRun)
    BY <1>28, EndWatchFacts, ReportFacts DEF ReadyFails
  <2>2. docs' \in [Runs -> SUBSET {"request", "ready", "result", "cancelled", "expired"}]
    BY <1>28 DEF ReadyFails, BridgeTypeOK
  <2>3. disturbed' \subseteq Runs
    BY <1>28 DEF ReadyFails, Fault, Disturb, UnderWay, BridgeTypeOK, HostSet
  <2> QED
    BY <1>28, <2>1, <2>2, <2>3 DEF ReadyFails, Fault, BridgeTypeOK
<1>29. CASE ResultLost
  BY <1>29
    DEF ResultLost, HostIdle, Fault, Disturb, BridgeTypeOK, HostSet, ReportSet,
        NoHost, Silent, UnderWay
<1>30. CASE HostRestarts
  BY <1>30
    DEF HostRestarts, Fault, Disturb, BridgeTypeOK, HostSet, ReportSet, NoHost,
        Silent, UnderWay
<1>31. CASE UNCHANGED bridgeVars
  BY <1>31 DEF BridgeTypeOK
<1> QED
  BY <1>1, <1>2, <1>3, <1>4, <1>5, <1>6, <1>7, <1>8, <1>9, <1>10, <1>11, <1>12,
     <1>13, <1>14, <1>15, <1>16, <1>17, <1>18, <1>19, <1>20, <1>21, <1>22, <1>23,
     <1>24, <1>25, <1>26, <1>27, <1>28, <1>29, <1>30, <1>31
  DEF BridgeNext, Supervisor, HostThread, Packets

(* A report, a stored result and an outcome only ever say what the game did *)
(* for that run: each step of the host and of the supervisor passes it on.  *)
LEMMA ReportsStep ==
  ASSUME BridgeTypeOK, ReportsAreTrue, [BridgeNext]_bridgeVars
  PROVE  ReportsAreTrue'
<1> USE HistoryGrows
<1>1. ASSUME NEW q \in Runs, TakeLock(q)
      PROVE  ReportsAreTrue'
  BY <1>1 DEF TakeLock, ReportsAreTrue, OutcomeIsTrue, Says, CarriedOut, BridgeTypeOK
<1>2. ASSUME NEW q \in Runs, Begin(q)
      PROVE  ReportsAreTrue'
  <2>1. \A r \in Runs : sup'[r] \in {"confirmed", "pending"} => sup'[r] = sup[r]
    BY <1>2 DEF Begin, BridgeTypeOK
  <2> QED
    BY <1>2, <2>1 DEF Begin, ReportsAreTrue, OutcomeIsTrue, CarriedOut
<1>3. ASSUME NEW q \in Runs, SeeReady(q)
      PROVE  ReportsAreTrue'
  BY <1>3 DEF SeeReady, Ready, ReportsAreTrue, OutcomeIsTrue, CarriedOut
<1>4. ASSUME NEW q \in Runs, Click(q)
      PROVE  ReportsAreTrue'
  BY <1>4 DEF Click, ReportsAreTrue, OutcomeIsTrue, CarriedOut
<1>5. ASSUME NEW q \in Runs, WaitFails(q)
      PROVE  ReportsAreTrue'
  BY <1>5 DEF WaitFails, ReportsAreTrue, OutcomeIsTrue, CarriedOut
<1>6. ASSUME NEW q \in Runs, WaitTimesOut(q)
      PROVE  ReportsAreTrue'
  BY <1>6 DEF WaitTimesOut, ReportsAreTrue, OutcomeIsTrue, CarriedOut
<1>7. ASSUME NEW q \in Runs, Cancel(q)
      PROVE  ReportsAreTrue'
  BY <1>7 DEF Cancel, ReportsAreTrue, OutcomeIsTrue, CarriedOut
<1>8. ASSUME NEW q \in Runs, Complete(q)
      PROVE  ReportsAreTrue'
  BY <1>8 DEF Complete, Outcome, ReportsAreTrue, OutcomeIsTrue, Says, CarriedOut
<1>9. ASSUME NEW q \in Runs, ClickFails(q)
      PROVE  ReportsAreTrue'
  BY <1>9 DEF ClickFails, ReportsAreTrue, OutcomeIsTrue, CarriedOut
<1>10. ASSUME NEW q \in Runs, HostIsLate(q)
       PROVE  ReportsAreTrue'
  BY <1>10 DEF HostIsLate, ReportsAreTrue, OutcomeIsTrue, CarriedOut
<1>11. ASSUME NEW q \in Runs, SupervisorDies(q)
       PROVE  ReportsAreTrue'
  BY <1>11 DEF SupervisorDies, ReportsAreTrue, OutcomeIsTrue, CarriedOut
<1>12. ASSUME NEW q \in Runs, Expire(q)
       PROVE  ReportsAreTrue'
  BY <1>12 DEF Expire, ReportsAreTrue, OutcomeIsTrue, CarriedOut
<1>13. ASSUME NEW q \in Runs, CarrierRewritten(q)
       PROVE  ReportsAreTrue'
  BY <1>13 DEF CarrierRewritten, ReportsAreTrue, OutcomeIsTrue, CarriedOut
<1>14. ASSUME NEW q \in Runs, CarrierPasses(q)
       PROVE  ReportsAreTrue'
  BY <1>14 DEF CarrierPasses, ReportsAreTrue, OutcomeIsTrue, CarriedOut
<1>15. ASSUME NEW q \in Runs, EchoSeen(q)
       PROVE  ReportsAreTrue'
  BY <1>15
    DEF EchoSeen, EndWatch, ReportsAreTrue, OutcomeIsTrue, Says, CarriedOut,
        BridgeTypeOK, HostSet
<1>16. ASSUME NEW q \in Runs, EchoMissed(q)
       PROVE  ReportsAreTrue'
  BY <1>16 DEF EchoMissed, ReportsAreTrue, OutcomeIsTrue, CarriedOut
<1>17. ASSUME NEW q \in Runs, RewriteFails(q)
       PROVE  ReportsAreTrue'
  BY <1>17 DEF RewriteFails, EndWatch, ReportsAreTrue, OutcomeIsTrue, Says, Silent
<1>18. CASE LockRemoved
  BY <1>18 DEF LockRemoved, ReportsAreTrue, OutcomeIsTrue, CarriedOut
<1>19. CASE EmergencyStop
  BY <1>19 DEF EmergencyStop, ReportsAreTrue, OutcomeIsTrue, CarriedOut
<1>20. CASE ClearStop
  BY <1>20 DEF ClearStop, ReportsAreTrue, OutcomeIsTrue, CarriedOut
<1>21. CASE Heartbeat
  BY <1>21 DEF Heartbeat, ReportsAreTrue, OutcomeIsTrue, CarriedOut
<1>22. CASE Accept
  <2>1. Says(host'.report) => CarriedOut(host'.run)
    BY <1>22, AcceptFacts DEF ReportsAreTrue, Says, Silent, Accept
  <2> QED
    BY <1>22, <2>1 DEF Accept, ReportsAreTrue, OutcomeIsTrue, CarriedOut
<1>23. CASE AnnounceReady
  <2>1. (Says(host.report) => CarriedOut(host.run))'
    BY <1>23, AnnounceFacts DEF ReportsAreTrue, Says, Silent, AnnounceReady
  <2> QED
    BY <1>23, <2>1 DEF AnnounceReady, ReportsAreTrue, OutcomeIsTrue
<1>24. CASE ObserveEnds
  BY <1>24
    DEF ObserveEnds, EndWatch, ReportsAreTrue, OutcomeIsTrue, Says, BridgeTypeOK,
        HostSet
<1>25. CASE DeadlinePasses
  BY <1>25 DEF DeadlinePasses, EndWatch, ReportsAreTrue, OutcomeIsTrue, Says, Silent
<1>26. CASE PostResult
  BY <1>26
    DEF PostResult, HostIdle, ReportsAreTrue, OutcomeIsTrue, Says, BridgeTypeOK,
        NoHost, Silent
<1>27. CASE ClickIsLate
  BY <1>27 DEF ClickIsLate, EndWatch, ReportsAreTrue, OutcomeIsTrue, Says, Silent
<1>28. CASE ReadyFails
  BY <1>28 DEF ReadyFails, EndWatch, ReportsAreTrue, OutcomeIsTrue, Says, Silent
<1>29. CASE ResultLost
  BY <1>29 DEF ResultLost, HostIdle, ReportsAreTrue, OutcomeIsTrue, Says, NoHost, Silent
<1>30. CASE HostRestarts
  BY <1>30 DEF HostRestarts, ReportsAreTrue, OutcomeIsTrue, Says, NoHost, Silent
<1>31. CASE UNCHANGED bridgeVars
  BY <1>31 DEF ReportsAreTrue, OutcomeIsTrue, CarriedOut
<1> QED
  BY <1>1, <1>2, <1>3, <1>4, <1>5, <1>6, <1>7, <1>8, <1>9, <1>10, <1>11, <1>12,
     <1>13, <1>14, <1>15, <1>16, <1>17, <1>18, <1>19, <1>20, <1>21, <1>22, <1>23,
     <1>24, <1>25, <1>26, <1>27, <1>28, <1>29, <1>30, <1>31
  DEF BridgeNext, Supervisor, HostThread, Packets

(* Before its request is written nothing outside the supervisor knows of a  *)
(* run (begin_host_execution is where the host first hears of it).          *)
LEMMA UnpublishedStep ==
  ASSUME BridgeTypeOK, NEW r \in Runs, sup[r] \in {"new", "locked"} => Unpublished(r),
         [BridgeNext]_bridgeVars
  PROVE  (sup[r] \in {"new", "locked"} => Unpublished(r))'
<1> USE HostBridgeAssumption
<1>1. ASSUME NEW q \in Runs, TakeLock(q)
      PROVE  (sup[r] \in {"new", "locked"} => Unpublished(r))'
  BY <1>1 DEF TakeLock, Unpublished, Untouched, BridgeTypeOK
<1>2. ASSUME NEW q \in Runs, Begin(q)
      PROVE  (sup[r] \in {"new", "locked"} => Unpublished(r))'
  BY <1>2 DEF Begin, Unpublished, Untouched, BridgeTypeOK
<1>3. ASSUME NEW q \in Runs, SeeReady(q)
      PROVE  (sup[r] \in {"new", "locked"} => Unpublished(r))'
  BY <1>3 DEF SeeReady, Ready, Unpublished, Untouched
<1>4. ASSUME NEW q \in Runs, Click(q)
      PROVE  (sup[r] \in {"new", "locked"} => Unpublished(r))'
  BY <1>4 DEF Click, Unpublished, Untouched
<1>5. ASSUME NEW q \in Runs, WaitFails(q)
      PROVE  (sup[r] \in {"new", "locked"} => Unpublished(r))'
  BY <1>5 DEF WaitFails, Unpublished, Untouched
<1>6. ASSUME NEW q \in Runs, WaitTimesOut(q)
      PROVE  (sup[r] \in {"new", "locked"} => Unpublished(r))'
  BY <1>6 DEF WaitTimesOut, Unpublished, Untouched
<1>7. ASSUME NEW q \in Runs, Cancel(q)
      PROVE  (sup[r] \in {"new", "locked"} => Unpublished(r))'
  BY <1>7 DEF Cancel, Unpublished, Untouched
<1>8. ASSUME NEW q \in Runs, Complete(q)
      PROVE  (sup[r] \in {"new", "locked"} => Unpublished(r))'
  BY <1>8 DEF Complete, Outcome, Unpublished, Untouched
<1>9. ASSUME NEW q \in Runs, ClickFails(q)
      PROVE  (sup[r] \in {"new", "locked"} => Unpublished(r))'
  BY <1>9 DEF ClickFails, Unpublished, Untouched
<1>10. ASSUME NEW q \in Runs, HostIsLate(q)
       PROVE  (sup[r] \in {"new", "locked"} => Unpublished(r))'
  BY <1>10 DEF HostIsLate, Unpublished, Untouched
<1>11. ASSUME NEW q \in Runs, SupervisorDies(q)
       PROVE  (sup[r] \in {"new", "locked"} => Unpublished(r))'
  BY <1>11 DEF SupervisorDies, Unpublished, Untouched
<1>12. ASSUME NEW q \in Runs, Expire(q)
       PROVE  (sup[r] \in {"new", "locked"} => Unpublished(r))'
  BY <1>12 DEF Expire, Unpublished, Untouched
<1>13. ASSUME NEW q \in Runs, CarrierRewritten(q)
       PROVE  (sup[r] \in {"new", "locked"} => Unpublished(r))'
  BY <1>13 DEF CarrierRewritten, Unpublished, Untouched
<1>14. ASSUME NEW q \in Runs, CarrierPasses(q)
       PROVE  (sup[r] \in {"new", "locked"} => Unpublished(r))'
  BY <1>14 DEF CarrierPasses, Unpublished, Untouched
<1>15. ASSUME NEW q \in Runs, EchoSeen(q)
       PROVE  (sup[r] \in {"new", "locked"} => Unpublished(r))'
  <2>1. host'.run = host.run
    BY <1>15, EndWatchFacts, ReportFacts DEF EchoSeen
  <2> QED
    BY <1>15, <2>1 DEF EchoSeen, Unpublished, Untouched
<1>16. ASSUME NEW q \in Runs, EchoMissed(q)
       PROVE  (sup[r] \in {"new", "locked"} => Unpublished(r))'
  BY <1>16 DEF EchoMissed, Unpublished, Untouched
<1>17. ASSUME NEW q \in Runs, RewriteFails(q)
       PROVE  (sup[r] \in {"new", "locked"} => Unpublished(r))'
  BY <1>17 DEF RewriteFails, EndWatch, Unpublished, Untouched
<1>18. CASE LockRemoved
  BY <1>18 DEF LockRemoved, Unpublished, Untouched
<1>19. CASE EmergencyStop
  BY <1>19 DEF EmergencyStop, Unpublished, Untouched
<1>20. CASE ClearStop
  BY <1>20 DEF ClearStop, Unpublished, Untouched
<1>21. CASE Heartbeat
  BY <1>21 DEF Heartbeat, Unpublished, Untouched
<1>22. CASE Accept
  BY <1>22 DEF Accept, Unpublished, Untouched, NoHost
<1>23. CASE AnnounceReady
  <2>1. host.run \in Runs /\ host'.run = host.run
    BY <1>23, AnnounceFacts
  <2> QED
    BY <1>23, <2>1 DEF AnnounceReady, Unpublished, Untouched, BridgeTypeOK
<1>24. CASE ObserveEnds
  BY <1>24 DEF ObserveEnds, EndWatch, Unpublished, Untouched
<1>25. CASE DeadlinePasses
  BY <1>25 DEF DeadlinePasses, EndWatch, Unpublished, Untouched
<1>26. CASE PostResult
  BY <1>26 DEF PostResult, HostIdle, Unpublished, Untouched, BridgeTypeOK, NoHost
<1>27. CASE ClickIsLate
  BY <1>27 DEF ClickIsLate, EndWatch, Unpublished, Untouched
<1>28. CASE ReadyFails
  BY <1>28 DEF ReadyFails, EndWatch, Unpublished, Untouched, BridgeTypeOK
<1>29. CASE ResultLost
  BY <1>29 DEF ResultLost, HostIdle, Unpublished, Untouched, NoHost
<1>30. CASE HostRestarts
  BY <1>30 DEF HostRestarts, Unpublished, Untouched, NoHost
<1>31. CASE UNCHANGED bridgeVars
  BY <1>31 DEF Unpublished, Untouched
<1> QED
  BY <1>1, <1>2, <1>3, <1>4, <1>5, <1>6, <1>7, <1>8, <1>9, <1>10, <1>11, <1>12,
     <1>13, <1>14, <1>15, <1>16, <1>17, <1>18, <1>19, <1>20, <1>21, <1>22, <1>23,
     <1>24, <1>25, <1>26, <1>27, <1>28, <1>29, <1>30, <1>31
  DEF BridgeNext, Supervisor, HostThread, Packets

(* A run that nothing disturbed stays in step with the host.                *)
LEMMA CleanStep ==
  ASSUME BridgeTypeOK, BridgeInv, [BridgeNext]_bridgeVars,
         NEW r \in Runs, ~Mixed(r)'
  PROVE  CleanState(r)'
<1>a. ~Mixed(r) /\ CleanState(r)
  BY HistoryGrows DEF BridgeInv
<1>b. /\ sup[r] \in {"new", "locked"} => Unpublished(r)
      /\ Says(host.report) => CarriedOut(host.run)
  BY DEF BridgeInv, ReportsAreTrue
<1> USE HostBridgeAssumption
<1>1. ASSUME NEW q \in Runs, TakeLock(q)
      PROVE  CleanState(r)'
  <2>1. CASE q = r
    BY <1>1, <2>1, <1>b DEF TakeLock, CleanState, Unpublished, Untouched, BridgeTypeOK
  <2>2. CASE q # r
    BY <1>1, <2>2, <1>a
      DEF TakeLock, CleanState, Waits, Untouched, Sent, Answered, Watching, IsActive,
          Ready, CarriedOut, BridgeTypeOK
  <2> QED BY <2>1, <2>2
<1>2. ASSUME NEW q \in Runs, Begin(q)
      PROVE  CleanState(r)'
  <2>1. CASE q = r
    <3>1. Unpublished(r) /\ ~stop
      BY <1>2, <2>1, <1>a, <1>b DEF Begin, CleanState
    <3>2. CASE sup'[r] = "failed"
      BY <1>2, <2>1, <3>1, <3>2 DEF Begin, CleanState, Unpublished, Untouched
    <3>3. CASE sup'[r] = "begun"
      BY <1>2, <2>1, <3>1, <3>3
        DEF Begin, CleanState, Waits, Unpublished, Untouched, IsActive, Ready,
            BridgeTypeOK
    <3> QED
      BY <1>2, <2>1, <3>2, <3>3 DEF Begin, BridgeTypeOK
  <2>2. CASE q # r
    <3>1. /\ sup'[r] = sup[r] /\ docs'[r] = docs[r]
          /\ IsActive(r) => IsActive(r)'
      BY <1>2, <2>2 DEF Begin, IsActive, BridgeTypeOK
    <3> QED
      BY <1>2, <3>1, <1>a
        DEF Begin, CleanState, Waits, Untouched, Sent, Answered, Watching, Ready,
            CarriedOut
  <2> QED BY <2>1, <2>2
<1>3. ASSUME NEW q \in Runs, SeeReady(q)
      PROVE  CleanState(r)'
  BY <1>3, <1>a, <1>b
    DEF SeeReady, Ready, CleanState, Waits, Untouched, Sent, Answered, Watching,
        IsActive, CarriedOut
<1>4. ASSUME NEW q \in Runs, Click(q)
      PROVE  CleanState(r)'
  BY <1>4, <1>a, <1>b
    DEF Click, CleanState, Waits, Untouched, Sent, Answered, Watching, IsActive,
        Ready, CarriedOut, Says, BridgeTypeOK
<1>5. ASSUME NEW q \in Runs, WaitFails(q)
      PROVE  CleanState(r)'
  BY <1>5, <1>a, <1>b
    DEF WaitFails, Ready, CleanState, Waits, Untouched, Sent, Answered, Watching,
        IsActive, CarriedOut
<1>6. ASSUME NEW q \in Runs, WaitTimesOut(q)
      PROVE  CleanState(r)'
  BY <1>6, <1>a, <1>b
    DEF WaitTimesOut, Ready, CleanState, Waits, Untouched, Sent, Answered, Watching,
        IsActive, CarriedOut
<1>7. ASSUME NEW q \in Runs, Cancel(q)
      PROVE  CleanState(r)'
  BY <1>7, <1>a, <1>b
    DEF Cancel, CleanState, Waits, Untouched, Sent, Answered, Watching, IsActive,
        Ready, CarriedOut
<1>8. ASSUME NEW q \in Runs, Complete(q)
      PROVE  CleanState(r)'
  BY <1>8, <1>a, <1>b
    DEF Complete, Outcome, CleanState, Waits, Untouched, Sent, Answered, Watching,
        IsActive, Ready, CarriedOut, BridgeTypeOK
<1>9. ASSUME NEW q \in Runs, ClickFails(q)
      PROVE  CleanState(r)'
  BY <1>9, <1>a, <1>b
    DEF ClickFails, Fault, CleanState, Waits, Untouched, Sent, Answered, Watching,
        IsActive, Ready, CarriedOut
<1>10. ASSUME NEW q \in Runs, HostIsLate(q)
       PROVE  CleanState(r)'
  BY <1>10, <1>a, <1>b
    DEF HostIsLate, Fault, Disturb, CleanState, Untouched, Mixed, UnderWay, Ended
<1>11. ASSUME NEW q \in Runs, SupervisorDies(q)
       PROVE  CleanState(r)'
  BY <1>11, <1>a, <1>b
    DEF SupervisorDies, Fault, Disturb, CleanState, Untouched, Mixed, UnderWay, Ended
<1>12. ASSUME NEW q \in Runs, Expire(q)
       PROVE  CleanState(r)'
  BY <1>12, <1>a, <1>b
    DEF Expire, CleanState, Waits, Untouched, Sent, Answered, Watching, IsActive,
        Ready, CarriedOut
<1>13. ASSUME NEW q \in Runs, CarrierRewritten(q)
       PROVE  CleanState(r)'
  BY <1>13, <1>a, <1>b
    DEF CarrierRewritten, Watching, CleanState, Waits, Untouched, Sent, Answered,
        IsActive, Ready, CarriedOut, Mixed, BridgeTypeOK, HostSet, ReportSet
<1>14. ASSUME NEW q \in Runs, CarrierPasses(q)
       PROVE  CleanState(r)'
  BY <1>14, <1>a, <1>b
    DEF CarrierPasses, CleanState, Waits, Untouched, Sent, Answered, IsActive, Ready,
        CarriedOut
<1>15. ASSUME NEW q \in Runs, EchoSeen(q)
       PROVE  CleanState(r)'
  <2>1. CASE UNCHANGED host
    BY <1>15, <2>1, <1>a
      DEF EchoSeen, CleanState, Waits, Untouched, Sent, Answered, Watching, IsActive,
          Ready, CarriedOut
  <2>2. CASE /\ host.pc = "watch" /\ host.run = q /\ host.report.rewritten
             /\ EndWatch(Report(TRUE, TRUE, FALSE))
    <3>1. host'.pc = "report" /\ host'.run = q /\ host'.report.success
      <4>1. Report(TRUE, TRUE, FALSE) \in ReportSet
        BY ReportFacts
      <4>2. host'.pc = "report" /\ host'.run = q
        BY <2>2, <4>1, EndWatchFacts
      <4>3. host'.report = Report(TRUE, TRUE, FALSE)
        BY <2>2, <4>1, EndWatchFacts
      <4> QED BY <4>2, <4>3 DEF Report
    <3>2. CarriedOut(q)
      BY <2>2, <1>b DEF Says
    <3> QED
      BY <1>15, <2>2, <3>1, <3>2, <1>a
        DEF EchoSeen, CleanState, Waits, Untouched, Sent, Answered, Watching,
            IsActive, Ready, CarriedOut
  <2> QED
    BY <1>15, <2>1, <2>2 DEF EchoSeen
<1>16. ASSUME NEW q \in Runs, EchoMissed(q)
       PROVE  CleanState(r)'
  BY <1>16, <1>a, <1>b
    DEF EchoMissed, CleanState, Waits, Untouched, Sent, Answered, Watching, IsActive,
        Ready, CarriedOut
<1>17. ASSUME NEW q \in Runs, RewriteFails(q)
       PROVE  CleanState(r)'
  BY <1>17, <1>a, <1>b
    DEF RewriteFails, Fault, Disturb, CleanState, Untouched, Mixed, UnderWay, Ended
<1>18. CASE LockRemoved
  BY <1>18, <1>a, <1>b
    DEF LockRemoved, CleanState, Waits, Untouched, Sent, Answered, Watching, IsActive,
        Ready, CarriedOut
<1>19. CASE EmergencyStop
  BY <1>19, <1>a, <1>b
    DEF EmergencyStop, Disturb, CleanState, Untouched, Mixed, UnderWay, Ended
<1>20. CASE ClearStop
  BY <1>20, <1>a, <1>b DEF ClearStop, CleanState, Untouched, Ended
<1>21. CASE Heartbeat
  BY <1>21, <1>a, <1>b
    DEF Heartbeat, IsActive, CleanState, Waits, Untouched, Sent, Answered, Watching,
        Ready, CarriedOut
<1>22. CASE Accept
  BY <1>22, <1>a, <1>b
    DEF Accept, CleanState, Waits, Untouched, Sent, Answered, Watching, IsActive,
        Ready, CarriedOut, NoHost
<1>23. CASE AnnounceReady
  <2>1. /\ host.pc = "open" /\ host'.run = host.run
        /\ UNCHANGED <<sup, stop, active, result, carriers, rewritten, raw>>
        /\ IF IsActive(host.run) THEN host'.pc = "watch" ELSE host'.pc = "report"
    BY <1>23, AnnounceFacts DEF AnnounceReady
  <2>2. IF IsActive(r) /\ host.run = r THEN docs'[r] = docs[r] \cup {"ready"}
        ELSE docs'[r] = docs[r]
    BY <1>23 DEF AnnounceReady, BridgeTypeOK
  <2>3. /\ Untouched(r)' <=> Untouched(r)
        /\ CarriedOut(r)' <=> CarriedOut(r)
        /\ IsActive(r)' <=> IsActive(r)
        /\ Ready(r)' => Ready(r) \/ (host.run = r /\ IsActive(r))
        /\ Ready(r) => Ready(r)'
    BY <2>1, <2>2 DEF Untouched, CarriedOut, IsActive, Ready
  <2>4. Waits(r) => Waits(r)'
    BY <2>1, <2>3 DEF Waits
  <2>5. Sent(r) => Sent(r)'
    BY <2>1, <2>2, <2>3 DEF Sent, Watching, Answered
  <2> QED BY <1>a, <2>1, <2>3, <2>4, <2>5 DEF CleanState
<1>24. CASE ObserveEnds
  BY <1>24, <1>a, <1>b
    DEF ObserveEnds, EndWatch, ReportUnconfirmed, Report, CleanState, Waits,
        Untouched, Sent, Answered, Watching, IsActive, Ready, CarriedOut, Says,
        BridgeTypeOK, HostSet
<1>25. CASE DeadlinePasses
  BY <1>25, <1>a, <1>b
    DEF DeadlinePasses, Watching, EndWatch, CleanState, Waits, Untouched, Sent,
        Answered, IsActive, Ready, CarriedOut, Ended
<1>26. CASE PostResult
  <2>1. host.run \in Runs /\ host'.run = NoRun /\ sup' = sup
    BY <1>26 DEF PostResult, HostIdle, NoHost, BridgeTypeOK, HostSet
  <2>2. CASE host.run = r /\ IsActive(r)
    <3>1. "result" \in docs'[r] /\ result'[r] = host.report
      BY <1>26, <2>1, <2>2 DEF PostResult, BridgeTypeOK
    <3> QED
      BY <1>26, <1>a, <2>1, <2>2, <3>1
        DEF PostResult, CleanState, Waits, Untouched, Sent, Answered, Watching,
            CarriedOut, IsActive
  <2>3. CASE host.run = r /\ ~IsActive(r)
    BY <1>26, <1>a, <2>1, <2>3
      DEF PostResult, CleanState, Waits, Untouched, Sent, Answered, CarriedOut
  <2>4. CASE host.run # r
    <3>1. docs'[r] = docs[r] /\ result'[r] = result[r]
      BY <1>26, <2>1, <2>4 DEF PostResult, BridgeTypeOK
    <3> QED
      BY <1>26, <1>a, <2>1, <2>4, <3>1
        DEF PostResult, CleanState, Waits, Untouched, Sent, Answered, CarriedOut,
            IsActive, Ready
  <2> QED BY <2>2, <2>3, <2>4
<1>27. CASE ClickIsLate
  BY <1>27, <1>a, <1>b
    DEF ClickIsLate, Fault, Disturb, CleanState, Untouched, Mixed, UnderWay, Ended
<1>28. CASE ReadyFails
  BY <1>28, <1>a, <1>b
    DEF ReadyFails, Fault, Disturb, CleanState, Untouched, Ready, Mixed, UnderWay,
        Ended
<1>29. CASE ResultLost
  BY <1>29, <1>a, <1>b
    DEF ResultLost, Fault, Disturb, CleanState, Untouched, Mixed, UnderWay, Ended
<1>30. CASE HostRestarts
  BY <1>30, <1>a, <1>b
    DEF HostRestarts, Fault, Disturb, CleanState, Untouched, Mixed, UnderWay, Ended
<1>31. CASE UNCHANGED bridgeVars
  BY <1>31, <1>a, <1>b
    DEF CleanState, Waits, Untouched, Sent, Answered, Watching, IsActive, Ready,
        CarriedOut
<1> QED
  BY <1>1, <1>2, <1>3, <1>4, <1>5, <1>6, <1>7, <1>8, <1>9, <1>10, <1>11, <1>12,
     <1>13, <1>14, <1>15, <1>16, <1>17, <1>18, <1>19, <1>20, <1>21, <1>22, <1>23,
     <1>24, <1>25, <1>26, <1>27, <1>28, <1>29, <1>30, <1>31
  DEF BridgeNext, Supervisor, HostThread, Packets

(* A command meets the carrier of another run only if that run is out of    *)
(* step itself.                                                             *)
LEMMA MixStep ==
  ASSUME BridgeTypeOK, BridgeInv, [BridgeNext]_bridgeVars
  PROVE  (\A p \in rewritten : p[1] # p[2] => Mixed(p[2]) /\ disturbed # {})'
<1>a. \A p \in rewritten : p[1] # p[2] => Mixed(p[2])' /\ disturbed' # {}
  BY HistoryGrows DEF BridgeInv, BridgeTypeOK
<1>b. CASE rewritten' = rewritten
  BY <1>a, <1>b
<1>c. ASSUME NEW q \in Runs, CarrierRewritten(q)
      PROVE  (\A p \in rewritten : p[1] # p[2] => Mixed(p[2]) /\ disturbed # {})'
  <2>1. CASE host.run = q
    BY <1>a, <1>c, <2>1 DEF CarrierRewritten
  <2>2. CASE host.run # q
    <3>1. Mixed(q)
      BY <1>c, <2>2 DEF CarrierRewritten, BridgeInv, CleanState, Sent, Waits, Untouched,
         Watching, BridgeTypeOK, HostSet, SupStates, Ended
    <3>2. disturbed # {}
      BY <3>1 DEF Mixed, BridgeInv
    <3> QED BY <1>a, <1>c, <3>1, <3>2, HistoryGrows DEF CarrierRewritten
  <2> QED BY <2>1, <2>2
<1>d. rewritten' = rewritten \/ \E q \in Runs : CarrierRewritten(q)
  <2> USE DEF BridgeNext, Supervisor, HostThread, Packets

  <2> QED BY DEF TakeLock, Begin, SeeReady, Click, WaitFails, WaitTimesOut, Cancel, Complete,
         ClickFails, HostIsLate, SupervisorDies, Expire, CarrierPasses, EchoSeen, EchoMissed,
         RewriteFails, LockRemoved, EmergencyStop, ClearStop, Heartbeat, Accept,
         AnnounceReady, ObserveEnds, DeadlinePasses, PostResult, ClickIsLate, ReadyFails,
         ResultLost, HostRestarts
<1> QED BY <1>b, <1>c, <1>d

-----------------------------------------------------------------------------
(* Types and the invariant hold in every state of the bridge (execute and    *)
(* run_interceptor in any order).                                            *)
LEMMA BridgeInvariance == BridgeSpec => [](BridgeTypeOK /\ BridgeInv)
<1>1. BridgeInit => BridgeTypeOK /\ BridgeInv
  <2> SUFFICES ASSUME BridgeInit PROVE BridgeTypeOK /\ BridgeInv
    OBVIOUS
  <2>1. BridgeTypeOK
    BY HostBridgeAssumption
       DEF BridgeInit, BridgeTypeOK, HostSet, SupStates, ReportSet, NoHost, Silent
  <2>2. ReportsAreTrue
    BY DEF BridgeInit, ReportsAreTrue, OutcomeIsTrue, Says, NoHost, Silent
  <2>3. \A r \in Runs : Unpublished(r) /\ CleanState(r)
    BY HostBridgeAssumption DEF BridgeInit, Unpublished, CleanState, Untouched, NoHost
  <2> QED BY <2>1, <2>2, <2>3 DEF BridgeInv, BridgeInit
<1>2. BridgeTypeOK /\ BridgeInv /\ [BridgeNext]_bridgeVars => (BridgeTypeOK /\ BridgeInv)'
  <2> SUFFICES ASSUME BridgeTypeOK, BridgeInv, [BridgeNext]_bridgeVars
               PROVE  (BridgeTypeOK /\ BridgeInv)'
    OBVIOUS
  <2>1. ReportsAreTrue'
    BY ReportsStep DEF BridgeInv
  <2>2. ASSUME NEW r \in Runs
        PROVE  (sup[r] \in {"new", "locked"} => Unpublished(r))'
    BY UnpublishedStep DEF BridgeInv
  <2>3. \A r \in Runs : (~Mixed(r) => CleanState(r))'
    BY CleanStep
  <2> QED BY <2>1, <2>2, <2>3, BridgeTypeStep, MixStep DEF BridgeInv
<1> QED BY <1>1, <1>2, PTL DEF BridgeSpec

(* An outcome that says the command was sent is true: a confirmed run, and   *)
(* one left to the next save, was rewritten into its own command, whatever   *)
(* restarts, lost posts, stops and late clicks there were.                   *)
THEOREM BridgeOutcomeIsTrue == BridgeSpec => []OutcomeIsTrue
<1>1. BridgeInv => OutcomeIsTrue
  BY DEF BridgeInv, ReportsAreTrue
<1> QED BY <1>1, BridgeInvariance, PTL

(* With READY before the click, carriers are carried out unchanged, meet the *)
(* command of another run, or run on in a failed run only when a fault or a  *)
(* stop has thrown a run out of step with the host.                          *)
THEOREM BridgeOnlyFaultsMixRuns == BridgeSpec => []OnlyFaultsMixRuns
<1>1. BridgeTypeOK /\ BridgeInv => OnlyFaultsMixRuns
  <2> SUFFICES ASSUME BridgeTypeOK, BridgeInv, NEW r \in Runs, ~Mixed(r)
               PROVE  r \notin raw /\ (sup[r] = "failed" => ~CarriedOut(r))
    BY DEF OnlyFaultsMixRuns, BridgeInv
  <2>1. CleanState(r)
    BY DEF BridgeInv
  <2>2. sup[r] \in SupStates
    BY DEF BridgeTypeOK
  <2> QED BY <2>1, <2>2 DEF CleanState, Waits, Sent, Untouched, CarriedOut, SupStates, Ended
<1> QED BY <1>1, BridgeInvariance, PTL
=============================================================================
