------------------------ MODULE CompatibilityControl -------------------------
(***************************************************************************)
(* The self-test of the packet formats that a player walks through in the  *)
(* console (src/src/iag/stellaris/execution/                               *)
(* protocol_compatibility_control.py): a plan is checked offline, then     *)
(* tried live in a room that may be thrown away, one scenario at a time,   *)
(* each judged by the player.  Requests come from the threads of the       *)
(* console; one lock guards every operation, except that executing a       *)
(* scenario lets go of it while the session proxy works.  Around it the    *)
(* console (src/apps/control_center/web_console.py) keeps jobs and manual  *)
(* starts and stops of the proxy out while the live part is on.            *)
(*                                                                         *)
(* A plan stands for its document and for its hash; whether its commands   *)
(* can be built is a property of the plan.  Every run of a check has a     *)
(* directory of its own, and a scenario the same id in every plan.         *)
(***************************************************************************)
EXTENDS Naturals, Sequences, FiniteSets

CONSTANTS
  Scenarios,   \* the scenarios of the catalogue
  Plans,       \* plans the player may save
  Enabled,     \* Enabled[p]: the enabled scenarios of plan p, in its order
  Buildable,   \* plans whose enabled commands can all be built
  Configured,  \* plans whose targets are filled in and acknowledged
  NoPlan,      \* no plan is stored
  MaxRuns,     \* bound: reports that are begun
  MaxRestarts  \* bound: restarts of the console

Runs == 1..MaxRuns

ASSUME CompatibilityAssumption ==
  /\ Enabled \in [Plans -> Seq(Scenarios)]
  /\ \A p \in Plans : \A i, j \in DOMAIN Enabled[p] : Enabled[p][i] = Enabled[p][j] => i = j
  /\ Buildable \subseteq Plans /\ Configured \subseteq Plans /\ NoPlan \notin Plans
  /\ MaxRuns \in Nat /\ MaxRestarts \in Nat

VARIABLES
  plan,       \* plan.json
  control,    \* control.json
  reports,    \* reports[r]: report.json in the directory of run r
  baseline,   \* the run whose report is baseline.json; 0: none
  calls,      \* threads in execute_current that have let go of the lock
  proxy,      \* the worker of the session proxy and the status it publishes
  holder,     \* who holds the conversation lock: "none", "job", "live"
  busy,       \* a model job is running
  manual,     \* a manual start or stop that found no live round: "none", "start", "stop"
  restarts,   \* restarts of the console so far
  asked,      \* history: requests handed to the controller
  approved,   \* history: requests the host confirmed
  strayed     \* history: runs into whose report a result came that was not awaited

documents == <<plan, control, reports, baseline>>
others    == <<holder, busy, manual>>
testament == <<asked, approved, strayed>>
suiteVars == <<plan, control, reports, baseline, calls, proxy, holder, busy, manual,
               restarts, asked, approved, strayed>>

LivePhases == {"waiting_for_room", "ready_for_action", "executing_action",
               "awaiting_operator_verdict", "halted", "completed"}

\* "unconfirmed" stands for what classify_network_result says of any result
\* but a confirmed one, "rejected" for the three verdicts other than passed.
Outcomes == {"network_confirmed", "unconfirmed"}
Failures == {"unconfirmed", "controller_error"}
Verdicts == {"passed", "rejected"}

Request(run, s) == <<run, s>>
Idle == <<>>     \* no request

Unrun == [s \in Scenarios |-> "not_run"]
Unjudged == [s \in Scenarios |-> "not_checked"]
BlankReport == [mode |-> "none", status |-> "none", enabled |-> {},
                stage |-> Unrun, verdict |-> Unjudged]

Written(r) == r \in Runs /\ reports[r].mode # "none"
HasReport == Written(control.run)

EnabledIn(p) == {Enabled[p][i] : i \in DOMAIN Enabled[p]}

NewReport(mode, status) ==
  [mode |-> mode, status |-> status, enabled |-> EnabledIn(plan),
   stage |-> Unrun, verdict |-> Unjudged]

ProxyOff == [running |-> FALSE, flow |-> FALSE, armed |-> Idle, last |-> Idle, outcome |-> "none"]

Stage(phase, checked) ==
  [phase |-> phase, checked |-> checked, run |-> 0, enabled |-> <<>>, index |-> 0]

CompatibilityInit ==
  /\ plan = NoPlan /\ control = Stage("idle", NoPlan)
  /\ reports = [r \in Runs |-> BlankReport] /\ baseline = 0
  /\ calls = {} /\ proxy = ProxyOff
  /\ holder = "none" /\ busy = FALSE /\ manual = "none" /\ restarts = 0
  /\ asked = {} /\ approved = {} /\ strayed = {}

LiveActive == control.phase \in LivePhases

\* _current_scenario
HasCurrent == control.index < Len(control.enabled)
Current == control.enabled[control.index + 1]

\* A restart leaves the documents and the worker of the proxy.
Restarted ==
  /\ restarts < MaxRestarts /\ restarts' = restarts + 1
  /\ calls' = {} /\ holder' = "none" /\ busy' = FALSE /\ manual' = "none"

Alive == UNCHANGED <<calls, others, restarts>>

(* control.json is written last; the console may die before it is.         *)
Advance(state) ==
  \/ control' = state /\ Alive
  \/ UNCHANGED control /\ Restarted

File(report) == reports' = [reports EXCEPT ![control.run] = report]

-----------------------------------------------------------------------------
(* The plan and the offline check.                                         *)

(* new_plan, save_plan                                                     *)
SavePlan(p) ==
  /\ ~LiveActive
  /\ plan' = p
  /\ Advance(Stage("plan_ready", NoPlan))
  /\ UNCHANGED <<reports, baseline, proxy, testament>>

NewRun == {r \in Runs : ~Written(r) /\ \A q \in 1..(r - 1) : Written(q)}

Verified == plan \in Buildable

(* offline_check: the phase is stored before the check and its result      *)
(* after it.                                                               *)
OfflineCheck ==
  /\ ~LiveActive /\ plan # NoPlan
  /\ \E r \in NewRun :
       LET checked == [reports EXCEPT
                         ![r] = NewReport("offline", IF Verified THEN "passed" ELSE "failed")]
       IN \/ /\ reports' = checked
             /\ control' = [control EXCEPT
                  !.phase = IF Verified THEN "offline_passed" ELSE "offline_failed",
                  !.checked = IF Verified THEN plan ELSE NoPlan, !.run = r]
             /\ Alive
          \/ /\ reports' \in {reports, checked}
             /\ control' = [control EXCEPT !.phase = "offline_running", !.run = r]
             /\ Restarted
  /\ UNCHANGED <<plan, baseline, proxy, testament>>

-----------------------------------------------------------------------------
(* The live round.                                                         *)

\* Defect: the console takes the conversation lock and looks for no job.
LiveLockedOnly == holder = "none"

LiveMayBegin == holder = "none" /\ ~busy

(* start_protocol_compatibility_live: no job, under the conversation lock. *)
BeginLive ==
  /\ LiveMayBegin
  /\ holder' = "live"
  /\ UNCHANGED <<documents, calls, proxy, busy, manual, restarts, testament>>

PlanIsChecked == plan # NoPlan /\ control.checked = plan

(* start_live.  When the console dies in it the worker is left behind.     *)
StartLive ==
  /\ holder = "live" /\ ~LiveActive
  /\ PlanIsChecked /\ plan \in Configured /\ Enabled[plan] # <<>> /\ ~proxy.running
  /\ proxy' = [ProxyOff EXCEPT !.running = TRUE]
  /\ \E r \in NewRun :
       LET opened == [reports EXCEPT ![r] = NewReport("live", "running")]
       IN \/ /\ reports' = opened
             /\ control' = [control EXCEPT !.phase = "waiting_for_room", !.run = r,
                                           !.enabled = Enabled[plan], !.index = 0]
             /\ holder' = "none" /\ UNCHANGED <<calls, busy, manual, restarts>>
          \/ reports' \in {reports, opened} /\ UNCHANGED control /\ Restarted
  /\ UNCHANGED <<plan, baseline, testament>>

(* A check fails, or the worker does not come up.                          *)
StartLiveFails ==
  /\ holder = "live"
  /\ holder' = "none"
  /\ UNCHANGED <<documents, calls, proxy, busy, manual, restarts, testament>>

ConfirmRoom ==
  /\ control.phase = "waiting_for_room" /\ proxy.running /\ proxy.flow /\ HasReport
  /\ Advance([control EXCEPT !.phase = "ready_for_action"])
  /\ UNCHANGED <<plan, reports, baseline, proxy, testament>>

\* Defect: a scenario may be started while one is under way.
ExecutableOrBusy == control.phase \in {"ready_for_action", "executing_action"}

Executable == control.phase = "ready_for_action"

(* execute_current until it lets go of the lock.  The status it reads is   *)
(* the last one published: a worker that has ended still shows its flow.   *)
Execute ==
  /\ Executable /\ HasReport /\ HasCurrent
  /\ proxy.flow /\ proxy.armed = Idle
  /\ control' = [control EXCEPT !.phase = "executing_action"]
  /\ calls' = calls \cup {[run |-> control.run, scenario |-> Current, stage |-> "begun"]}
  /\ asked' = asked \cup {Request(control.run, Current)}
  /\ UNCHANGED <<plan, reports, baseline, proxy, others, restarts, approved, strayed>>

Becomes(c, stage) ==
  /\ calls' = (calls \ {c}) \cup {[c EXCEPT !.stage = stage]}
  /\ UNCHANGED <<documents, others, restarts, testament>>

(* arm_and_wait, one at a time: the request is put into arm.json ...       *)
Arm(c) ==
  /\ c.stage = "begun" /\ \A d \in calls : d.stage # "armed"
  /\ proxy.running /\ proxy.flow /\ proxy.armed = Idle
  /\ proxy' = [proxy EXCEPT !.armed = Request(c.run, c.scenario)]
  /\ Becomes(c, "armed")

(* ... its result is read from the status, as classify_network_result      *)
(* names it ...                                                            *)
ReadResult(c) ==
  /\ c.stage = "armed" /\ proxy.running
  /\ proxy.outcome # "none" /\ proxy.last = Request(c.run, c.scenario)
  /\ Becomes(c, proxy.outcome)
  /\ UNCHANGED proxy

(* ... or it raises: refused, the worker gone, or out of time.             *)
CallFails(c) ==
  /\ c.stage \in {"begun", "armed"}
  /\ Becomes(c, "controller_error")
  /\ UNCHANGED proxy

\* Defect: only what the proxy reports is put before the player.
PhaseIfReported(c) ==
  IF c.stage = "controller_error" THEN control.phase ELSE "awaiting_operator_verdict"

\* The phase after a call, whatever came of it.
PhaseAfter(c) == "awaiting_operator_verdict"

Awaited(c) ==
  /\ control.phase = "executing_action" /\ HasCurrent
  /\ c.run = control.run /\ c.scenario = Current

Resolved(c) == c.stage \in Outcomes \cup Failures

(* The rest of execute_current, on the state and the report there are now. *)
ExecuteEnds(c) ==
  /\ Resolved(c) /\ HasReport
  /\ strayed' = IF Awaited(c) THEN strayed ELSE strayed \cup {control.run}
  /\ File([reports[control.run] EXCEPT !.stage[c.scenario] = c.stage])
  /\ \/ /\ control' = [control EXCEPT !.phase = PhaseAfter(c)]
        /\ calls' = calls \ {c} /\ UNCHANGED <<others, restarts>>
     \/ UNCHANGED control /\ Restarted
  /\ UNCHANGED <<plan, baseline, proxy, asked, approved>>

(* The report is gone: the call raises and changes nothing.                *)
ExecuteLost(c) ==
  /\ Resolved(c) /\ ~HasReport
  /\ calls' = calls \ {c}
  /\ UNCHANGED <<documents, proxy, others, restarts, testament>>

\* The state when the current scenario is done with.
Onward == [control EXCEPT
  !.index = control.index + 1,
  !.phase = IF control.index + 1 >= Len(control.enabled) THEN "completed" ELSE "ready_for_action"]

\* Defect: what the player saw is enough to go on.
SeenToWork(stage, verdict) == verdict = "passed"

Succeeded(stage, verdict) == stage = "network_confirmed" /\ verdict = "passed"

RecordVerdict(v) ==
  /\ control.phase = "awaiting_operator_verdict" /\ HasReport /\ HasCurrent
  /\ File([reports[control.run] EXCEPT !.verdict[Current] = v])
  /\ Advance(IF Succeeded(reports[control.run].stage[Current], v) THEN Onward
             ELSE [control EXCEPT !.phase = "halted"])
  /\ UNCHANGED <<plan, baseline, proxy, testament>>

SkipCurrent ==
  /\ control.phase = "ready_for_action" /\ HasReport /\ HasCurrent
  /\ File([reports[control.run] EXCEPT !.stage[Current] = "skipped_by_operator",
                                       !.verdict[Current] = "skipped"])
  /\ Advance(Onward)
  /\ UNCHANGED <<plan, baseline, proxy, testament>>

\* Defect: the verdicts alone decide whether a round has passed.
AllApproved(report) ==
  report.enabled # {} /\ \A s \in report.enabled : report.verdict[s] = "passed"

AllSucceeded(report) ==
  report.enabled # {} /\ \A s \in report.enabled : Succeeded(report.stage[s], report.verdict[s])

SomeFailed(report) ==
  \E s \in report.enabled : report.stage[s] \in Failures \/ report.verdict[s] = "rejected"

StatusOf(report) ==
  IF AllSucceeded(report) THEN "passed" ELSE IF SomeFailed(report) THEN "failed" ELSE "incomplete"

(* finish: the player has left the room; the worker is stopped, the report *)
(* closed, and kept as baseline when all passed.                           *)
Finish ==
  /\ LiveActive
  /\ proxy' = [proxy EXCEPT !.running = FALSE]
  /\ LET status == StatusOf(reports[control.run])
         kept == IF status = "passed" THEN control.run ELSE baseline
     IN IF HasReport
        THEN /\ File([reports[control.run] EXCEPT !.status = status])
             /\ baseline' = kept \/ (baseline' = baseline /\ Restarted)
        ELSE UNCHANGED <<reports, baseline>>
  /\ Advance([control EXCEPT !.phase = "finished"])
  /\ UNCHANGED <<plan, testament>>

Reset ==
  /\ ~proxy.running
  /\ control' = [control EXCEPT
       !.phase = IF PlanIsChecked THEN "offline_passed"
                 ELSE IF plan # NoPlan THEN "plan_ready" ELSE "idle",
       !.enabled = <<>>, !.index = 0]
  /\ UNCHANGED <<plan, reports, baseline, calls, proxy, others, restarts, testament>>

-----------------------------------------------------------------------------
(* The rest of the console: jobs, and the proxy started or stopped by hand.*)

(* Who calls _start_job holds the conversation lock; _start_job looks for  *)
(* a live round first and for a running job then.                          *)
BeginJob ==
  /\ holder = "none" /\ ~LiveActive
  /\ holder' = "job"
  /\ UNCHANGED <<documents, calls, proxy, busy, manual, restarts, testament>>

StartJob ==
  /\ holder = "job"
  /\ holder' = "none" /\ busy' = TRUE
  /\ UNCHANGED <<documents, calls, proxy, manual, restarts, testament>>

JobEnds ==
  /\ busy
  /\ busy' = FALSE
  /\ UNCHANGED <<documents, calls, proxy, holder, manual, restarts, testament>>

(* start_session_proxy and stop_session_proxy look for a live round and    *)
(* then call the controller, under no lock that spans both.                *)
BeginManual ==
  /\ manual = "none" /\ ~LiveActive
  /\ manual' \in {"start", "stop"}
  /\ UNCHANGED <<documents, calls, proxy, holder, busy, restarts, testament>>

Started == IF proxy.running THEN proxy ELSE [ProxyOff EXCEPT !.running = TRUE]
Stopped == [proxy EXCEPT !.running = FALSE]

ManualEnds ==
  /\ manual # "none"
  /\ manual' = "none"
  /\ proxy' \in {proxy, IF manual = "stop" THEN Stopped ELSE Started}
  /\ UNCHANGED <<documents, calls, holder, busy, restarts, testament>>

(* The console ends at any moment and is started again.                    *)
ConsoleRestarts ==
  /\ Restarted
  /\ UNCHANGED <<documents, proxy, testament>>

-----------------------------------------------------------------------------
(* The worker of the session proxy.                                        *)

LockFlow ==
  /\ proxy.running /\ ~proxy.flow
  /\ proxy' = [proxy EXCEPT !.flow = TRUE]
  /\ UNCHANGED <<documents, calls, others, restarts, testament>>

(* It is done with the request it was given.                               *)
Answer(outcome) ==
  /\ proxy.running /\ proxy.armed # Idle
  /\ proxy' = [proxy EXCEPT !.last = proxy.armed, !.outcome = outcome, !.armed = Idle]
  /\ approved' = IF outcome = "network_confirmed" THEN approved \cup {proxy.armed} ELSE approved
  /\ UNCHANGED <<documents, calls, others, restarts, asked, strayed>>

(* It ends by itself: its session is over, or it fails.                    *)
WorkerEnds ==
  /\ proxy.running
  /\ proxy' = Stopped
  /\ UNCHANGED <<documents, calls, others, restarts, testament>>

-----------------------------------------------------------------------------
Preparing == (\E p \in Plans : SavePlan(p)) \/ OfflineCheck \/ Reset

LiveRound ==
  \/ BeginLive \/ StartLive \/ StartLiveFails \/ ConfirmRoom \/ Execute
  \/ \E c \in calls : Arm(c) \/ ReadResult(c) \/ CallFails(c) \/ ExecuteEnds(c) \/ ExecuteLost(c)
  \/ \E v \in Verdicts : RecordVerdict(v)
  \/ SkipCurrent \/ Finish

Console == BeginJob \/ StartJob \/ JobEnds \/ BeginManual \/ ManualEnds \/ ConsoleRestarts

Worker == LockFlow \/ (\E o \in Outcomes : Answer(o)) \/ WorkerEnds

CompatibilityNext == Preparing \/ LiveRound \/ Console \/ Worker

\* A thread that waits for the proxy gives up in time, and goes on.
GivingUp == \E c \in calls : CallFails(c)
Ending   == \E c \in calls : ExecuteEnds(c) \/ ExecuteLost(c)

CompatibilitySpec ==
  CompatibilityInit /\ [][CompatibilityNext]_suiteVars
  /\ WF_suiteVars(GivingUp) /\ WF_suiteVars(Ending)

-----------------------------------------------------------------------------
ControlDoc == [
  phase: LivePhases \cup {"idle", "plan_ready", "offline_running", "offline_passed",
                          "offline_failed", "finished"},
  checked: Plans \cup {NoPlan}, run: Runs \cup {0}, enabled: Seq(Scenarios), index: Nat]

ScenarioStages == {"not_run", "skipped_by_operator"} \cup Outcomes \cup Failures

ReportDoc == [
  mode: {"none", "offline", "live"},
  status: {"none", "running", "passed", "failed", "incomplete"},
  enabled: SUBSET Scenarios,
  stage: [Scenarios -> ScenarioStages],
  verdict: [Scenarios -> {"not_checked", "skipped"} \cup Verdicts]]

Call == [run: Runs, scenario: Scenarios, stage: {"begun", "armed"} \cup Outcomes \cup Failures]

ProxyStatus == [
  running: BOOLEAN, flow: BOOLEAN, armed: (Runs \X Scenarios) \cup {Idle},
  last: (Runs \X Scenarios) \cup {Idle}, outcome: Outcomes \cup {"none"}]

(* What each file and the console hold: the documents as their writers     *)
(* leave them, and a run number only of a report that was begun.           *)
CompatibilityTypeOK ==
  /\ plan \in Plans \cup {NoPlan} /\ control \in ControlDoc
  /\ reports \in [Runs -> ReportDoc] /\ baseline \in Runs \cup {0}
  /\ calls \subseteq Call /\ proxy \in ProxyStatus
  /\ holder \in {"none", "job", "live"} /\ busy \in BOOLEAN
  /\ manual \in {"none", "start", "stop"} /\ restarts \in 0..MaxRestarts
  /\ asked \subseteq Runs \X Scenarios /\ approved \subseteq Runs \X Scenarios
  /\ strayed \subseteq Runs

(* A live report that passed, and the baseline, were earned: every         *)
(* scenario that was enabled was confirmed by the host in this very run.   *)
(* finish counts what the threads of execute_current wrote into the report *)
(* after they had let go of the lock.  Runs that the late result of        *)
(* another call was written into are set apart.                            *)
Earned(r) == \A s \in reports[r].enabled : Request(r, s) \in approved

PassedIsEarned ==
  \A r \in Runs \ strayed :
    (reports[r].mode = "live" /\ reports[r].status = "passed") \/ baseline = r => Earned(r)

(* The scenario that is executed belongs to the plan that passed the       *)
(* offline check and that the player sees: from the start of a round on    *)
(* nobody changes the plan (start_live compares the hashes once, save_plan *)
(* and offline_check are refused until the round is over).                 *)
LiveOnlyChecked ==
  LiveActive /\ control.run \notin strayed =>
    /\ plan \in Buildable \cap Configured /\ control.checked = plan
    /\ control.enabled = Enabled[plan]
    /\ reports[control.run].mode = "live" /\ reports[control.run].enabled = EnabledIn(plan)

(* No job runs while a live round is on: start_live looks for a job, and   *)
(* _start_job for a live round, both under the conversation lock, though   *)
(* the round itself goes on without it.  Excepted are strayed runs, which  *)
(* the result of another round has put back into a phase of their own.     *)
JobsExcluded ==
  busy /\ LiveActive => control.run \in strayed

(* A scenario is executed only when each one before it succeeded or was    *)
(* skipped: after a failure the round does not go on, whatever the player  *)
(* asks for and wherever the console died between the report and           *)
(* control.json (record_verdict, skip_current).                            *)
Passable(report, s) ==
  \/ report.stage[s] = "network_confirmed" /\ report.verdict[s] = "passed"
  \/ report.stage[s] = "skipped_by_operator"

StopsAtFailure ==
  [][\A c \in calls' \ calls : c.stage = "begun" /\ c.run \notin strayed =>
       \A i \in 1..control.index :
         Passable(reports[c.run], control.enabled[i])]_suiteVars

(* A scenario is handed to the controller once in a run, and alone: not    *)
(* again after its result, nor while another of the run is under way.      *)
AskedOnce ==
  [][\A c \in calls' \ calls : c.stage = "begun" /\ c.run \notin strayed =>
       /\ Request(c.run, c.scenario) \notin asked
       /\ \A d \in calls : d.run # c.run]_suiteVars

(* A scenario under way ends: whatever the proxy does, the round leaves    *)
(* "executing_action" unless the console is restarted in the middle.  The  *)
(* documents are taken to be writable once the lock is held again.         *)
ExecutionEnds ==
  \A k \in 0..MaxRestarts :
    (control.phase = "executing_action" /\ calls # {} /\ restarts = k)
      ~> (control.phase # "executing_action" \/ restarts # k)
=============================================================================
