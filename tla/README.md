# Imperial Auto Governor: formal models

Imperial Auto Governor (IAG) lets language models govern a Stellaris empire. Three specialist
*Applications* (economy, fleet, research) read facts from save games, keep a plan each, and act
in a running multiplayer game through an execution broker. The game has no interface for that:
actions are inserted into the network stream between the local game and the host by a session
proxy, or posted inside the game process by a native runtime. Everything hard about the program
comes from there: facts are old when they are used, three agents and a player work at once on
shared state, an answer may never come, and whatever was done to the game cannot be undone.

This directory holds TLA+ models of that core, TLC runs that check them on small instances, and
TLAPS proofs for every value of the constants. Paths below are relative to the repository root
(`src/` in the `map` of PROJECT.json); `iag/` abbreviates `src/iag/`.

1. [The system](#1-the-system)
2. [Modules and how they correspond to the code](#2-modules-and-how-they-correspond-to-the-code)
3. [What is checked](#3-what-is-checked)
4. [Bounds and fairness](#4-bounds-and-fairness)
5. [What is proved](#5-what-is-proved)
6. [Disagreements found, and known limits](#6-disagreements-found-and-known-limits)
7. [Not modelled, and the plan](#7-not-modelled-and-the-plan)

## 1. The system

| component | state it keeps | operations | what is hard | what makes it correct |
| --- | --- | --- | --- | --- |
| **Plan book** `iag/core/application_plan.py` | one plan per Application: node graph, revision, runtime memory (facts seen, waivers, acted and provisional nodes), an inbox of review directives; all in the conversation store | create, edit, evaluate, execute_due_action, accept_localized_anomaly, queue/complete_external_reviews | edits between evaluation and execution, verdicts that come with a later save, three editors of one graph | graph sound, completed work stays, actions only on the plan and save they were decided on, no silent deviation |
| **Agent turns** `iag/applications/specialist_conversation_agent.py`, `plan_advisor.py` | a pinned snapshot, the decision of the evaluation | autonomous turn, chat turn, fast adviser, main model | saves arriving during a turn, a crash between acting and recording | see plan book; directives reach a model |
| **Resource ledger** `iag/core/resource_ledger.py` | reservation rows (SQLite) | reserve, release, supersede by a newer save | three spenders, stale snapshots | never over-reserved, exclusive means alone |
| **Execution broker** `iag/stellaris/execution/broker.py` | two idempotency caches, one process-wide lock | execute, execute_sequence | repeats, renamed requests, exceptions in the middle of a sequence, full cache | an id reaches the game once and has one answer |
| **Session proxy, stream** `session_proxy.py`, `packet/iag_stream_command_injector.py` | translators of inserted bytes, carrier cache, serials | rewrite packets both ways, insert a record | lost, repeated, reordered packets; both ends must not notice | host gets every byte once in order, acknowledgements are honest |
| **Session proxy, requests** `session_proxy_controller.py`, `session_proxy.py` | `arm.json`, status file, the request held | start, stop, arm_and_wait, finish_request | two processes that share files, four timeouts, broadcasts that name no request | an answer belongs to its request and is true |
| **Native runtime** `services/stellaris_native_runtime/runtime*.cpp`, `iag/stellaris/execution/native_runtime.py` | one request slot, one cached result | HandleRequest, game-thread prepare and verify | socket thread against game thread, two timeouts | posted once, answers true, the slot stands still under the game thread |
| **World snapshot** `iag/stellaris/state/world_snapshot.py` | memo of parsed saves, pinned identities | pin, assert_current | a save replaced while it is read | a pin names one save, and a turn that passes the check has not been overtaken |
| **Save ingest** `apps/host_bridge/iag_save_uploader.py`, `iag/stellaris/state/save_ingest.py` | the uploader's state file; stored saves, a manifest per campaign and the current one | scan, upload, receive, resolve | a file the game rewrites under the uploader, three writes one after the other, retries, two campaigns | a manifest names a whole stored save, a revision one save, the newest save arrives |
| **Spending agents** `economy_governance/agent_tools.py`, `fleet_operations/agent_tools.py` | prepared actions, reservations, unconfirmed constructions | prepare, execute, reconcile, release | two turns and the player at once, old snapshots, answers nobody can read | what is sent is reserved, what is kept fits the save |
| **Joint plan review** `joint_plan_review.py` | due month, directives | run_if_due | queueing that fails half way | directives owed are due |
| **Save continuations** `save_continuations.py` | attempts, consumed save, pending work | probe, run | a crash between an order and its record, a save that arrives meanwhile | one order per save, tried once per save |
| **Console and autonomy** `apps/control_center/web_console.py`, `iag/core/autonomy.py` | one job, scheduler thread, review schedule, emergency stop | start job, autonomous round, continuation, stop | one job at a time; continuations, rounds, chats and settings compete for it | rounds see what continuations ordered, move on, and happen |
| **Host bridge** `apps/host_bridge`, `iag_supervisor.py`, `host_executor_protocol.py` | lock file, request documents, emergency stop file | begin, ready, click, rewrite, result, cancel | two machines that meet in files and packets, restarts, lost answers | a reported outcome is true; undisturbed runs succeed and are not mixed up |
| **Read tasks** `iag/core/read_tasks.py` | worker generations | run, replace | a timed-out read that still runs | answers of the right generation |
| **Model pool** `iag/infrastructure/llm/model_pool_runtime.py` | endpoint health, cooldowns | execute with failover | unsafe replays, a pool replaced during a call | only safe failures are replayed |
| **Protocol compatibility** `protocol_compatibility_control.py` | a persisted self-test: plan, rounds, verdicts | offline check, start live, execute, judge, skip, finish, reset | `execute_current` lets go of the lock while the proxy works; the console dies between two documents; `finish` while an action waits | what is reported as passed was confirmed by the host; a failed round does not go on; one request per scenario; no job beside a live round |
| **Stores and strategy** `conversation_store.py`, `campaign_strategy.py`, `context_window.py` | SQLite rows | append, get/set state | | |

How they interact. The console starts a *job*: a chat turn, or a round in which the
Applications take an autonomous turn each on one pinned snapshot. A turn evaluates its plan book
and then executes the due action, asks the fast adviser, or calls the main model, which acts by
tools. Tools that spend take a reservation from the ledger and call the broker; the broker
calls the session proxy's controller (or the native runtime), which writes `arm.json` for the
worker process and polls its status file; the worker puts the record into the stream and waits
for the host's broadcast. What became of an action is known for certain only from a later save,
which `evaluate` compares with the provisional runs of the plan. After a round the joint review
may queue directives into the inboxes of the plan books. Work that takes several saves (a new fleet,
a recruitment, a campaign) is carried on by *continuations*, which the console runs on each new
save before it spends a round on it. Saves come from the player's machine: an uploader watches the
game's directory and posts what is stable, and the same program takes requests to rewrite a
carrier packet there.

## 2. Modules and how they correspond to the code

```
ResourceLedger <- SpendingAgents --- SpendingAgentsProofs
PlanBook <- PlanTurns --- PlanTurnsProofs
ExecutionPromise <= ExecutionBroker --- ExecutionBrokerProofs      (<= : refinement)
StreamProxy --- SessionProxyProofs       the stream of one connection
ProxyRequests --- SessionProxyProofs     one request between controller, worker and host
NativeRuntime --- NativeRuntimeProofs
SavePath --- SavePathProofs              from the game's file to the snapshot of a turn
SaveRounds --- ConsoleProofs             what the console does with each save
CompatibilityControl --- ConsoleProofs   the self-test of the packet formats in the console
HostBridge --- HostBridgeProofs          one request between console, host and game
MC*                instances for TLC
```

**ResourceLedger** (`resource_ledger.py`). `rows` is the reservation table; `Reserve` and
`Release` are the two public methods, each one SQLite transaction, `Superseding` the update of
stale rows that both begin with. An insufficient or exclusive request is refused by the
guard `MayInsert`; amounts are natural numbers.

**SpendingAgents** (`economy_governance/agent_tools.py`, `fleet_operations/agent_tools.py`) extends the
ledger with the two toolboxes that use it. `eco` and `fleet` are the turns of one round, each in a
thread; `lock` is the execution lock both tools take. The economy turn first settles what earlier
turns left open (`EcoReconcile`, `Verdict`), carries reservations over to its save (`EcoCarry`), then
prepares, reserves, sends and reads an answer; `EcoRefresh` is the one retry with a newer save. The
fleet turn checks permissions when it prepares and again when it executes, and each of its actions
has the number of steps and the kind of price the code gives it (`StepsOf`, `CostOf`, `Exclusive`).
`GameSaves`, `SaveArrives` and `PlayerSetsPermissions` happen at any time, without a lock. The game writes a
save (`written`) some time before it arrives at the console (`head`), and the console dates it by its arrival.
Executing a fleet order is three steps: `FleetCheck` reads the permissions, `FleetSend` builds the order anew,
reserves and sends, `FleetAnswer` reads the outcome; the player may take a permission back between the
first two. Which actions a save offers is a constant.

**PlanBook** (`application_plan.py`). `plan` is the stored plan (id, status, revision, nodes,
resume node), `rt` the runtime document, `inbox` the review queue. A condition is the fact it
reads and the observations it accepts, so comparison operators and tolerances are gone and what
is left is which node fails, at which value. `Edit` is the whole of `edit`: revision check,
invalidation with dependents, removal, upsert, cycle check, forgetting of the runtime of changed
nodes. `Evaluate` and `Decision` are `evaluate`, split into the named sets the code builds in one
loop (`Affected`, `Engaged`, `FailingNodes`, `RejectedNodes`, `Due`).

**PlanTurns** (`specialist_conversation_agent.py`, `plan_advisor.py`, `execute_due_action`). One
Application's autonomous turn, step by step where anything else can come between: `BeginTurn`
pins the snapshot, `EvaluateTurn` evaluates and branches, `ActPrepare`, `ActCommit`, `ActExecute`,
`ActRecord` are the phases of `execute_due_action` with its two snapshot checks, then the adviser
(`AdviserContinues`, `AdviserPatches` with `_scoped_patch`, `AdviserEscalates`) and the main model
(`ModelEdits`, `ModelCreates`, `ModelFinishes`, `ModelFails`). Around it: `NewSave` (facts move,
a submitted run turns out confirmed or rejected), `Deliver` (joint review), the chat turn
(`ChatInspect`, `ChatEdit`, `ChatCreate`) and `Crash`, which loses `turn` and keeps the stored
plan. An id may be used for plan after plan; `made` counts the plans and `mistaken` remembers that an action was
started on a plan that had replaced the evaluated one under the same id and revision, which the code cannot
tell apart. `Concurrent` says whether the chat may edit *during* a turn. The plan book promises to stand
that (a lock per database, revision checks, and tests for both:
`iag/core/tests/test_application_plan.py:200` and `:300`); the console that ships with it does not
do it, `_start_job` refuses a second job. The properties are checked and proved with the wider
promise; the disagreement `plan_rejection` is shown under the narrower schedule.

**ExecutionPromise** is what a caller of the broker relies on, in two actions: an id is handed to
the game at most once, and its answer never changes. **ExecutionBroker** (`broker.py`,
`arm_sequence_and_wait`) has the two ordered caches with their limit, `_SIDE_EFFECT_LOCK`, and per
caller the steps of the request it is in. `SendStep` is one step through the backend with any
outcome; `Raise` is a `SessionProxyError` before or after the step went out, which drops the
results collected so far. `PromiseKept` is the refinement.

**StreamProxy** (`session_proxy.py: run`, `iag_stream_command_injector.py`). Game, worker, network
and host on one reliable stream. One byte stands for one command and for one part of an inserted
record; offsets wrap at `Modulus` and are compared by half of it, as with 24 bits. `Outbound` is
the loop body for one packet of the game with its four branches (not translating, known carrier,
injection, translation) and `HearAck`, `HearAckRaised` for one acknowledgement of the host. `WriteRaised`,
`RetransmitRaised` and `KeepAliveRaised` are a packet of the game whose handling raises: the original goes out,
with a beginning of the record that was being sent (`ForwardRaised`, `ReplayRaised`, `InjectRaised`). The
translators are applied one after the other by recursive functions (`SenderVia`, `LocalVia`), outbound in
the order of the insertions, inbound from the newest back.

**ProxyRequests** (`session_proxy_controller.py`, `session_proxy.py: run, finish_request`). The
controller's check, write and poll are separate actions because another process acts between
them; so are the worker's change and the `Publish` of its status file. The file is written at best:
`PublishFails` is a reader that keeps it open through all attempts, or an error before, and `Republish` a later
write that makes up for it. `MatchRaised` and `RemovalRaised` are the two errors that leave a request half
settled: its match could not be noted, or its `arm.json` not removed, so that it is read once more
(`kept`). The broadcast of the host names a target, not a request; `Matches` is `retag_matching_response`.

**NativeRuntime** (`runtime.cpp`, `native_runtime.py`, `NativeRuntimeBackend` of `broker.py`). Three
actors: clients, which connect and hang up (`calls`, `queue`); the socket thread, which takes one
line after the other and answers at once or waits (`server`, `awaited`); and the game thread, which
does its work in the hook around `CGameIdler::Idle` (`game`, with the copy it took of the
request). The two threads share `slot`, `last` (the one cached result) and `generation` under
`g_request_mutex`; an action is one critical section or one piece of work between two of them.
`Normalize` is what client and broker make of an answer. `posted` and `forgotten` are
histories. `runtime_windows.cpp` has the same core; there a handler's exception is not caught
(`Raises = FALSE` takes those steps away, and leaves the rest).

**SavePath** (`iag_save_uploader.py`, `save_ingest.py`, `world_snapshot.py`). Four actors: the game,
which writes a file in two steps; the uploader, whose `Scan`, `Digest` and `Send` each read the file
anew; the console, which stores the save and then writes the manifest of the campaign and the current
one, in three steps a crash may fall between; and a turn, which resolves the manifest twice to pin a
snapshot and again to check it. A stamp stands for the file's modification time, which is part of an
identity. `UploaderRestarts`, `UploadFails`, `ConsoleRestarts` are the faults.

**SaveRounds** (`web_console.py`, `autonomy.py`, `save_continuations.py`, `joint_plan_review.py`, and the
`continue_*` and `reconcile_*` methods of the fleet tools). `job` is the console's one job: a
continuation, a round or a chat, step by step. Saves are numbered in the order of arrival, months are
their dates. `Age` makes the newest save too old for a round (`stale`) until the next one arrives. `Blocks`, `DueWork` and `Consumed` are `probe_save_continuations`; `SendConfirmed` and
`SendUnconfirmed` are the outcome of the order a handler makes on the newest save. `AgentOrders` is a model
that starts such work in a turn. The last part of a round is the joint review: `JointAnswer` decides,
`QueueDirective` delivers (as `Deliver` of PlanTurns takes it), `JointFails` at either point postpones.

**HostBridge** (`iag_supervisor.py`, `host_executor_protocol.py`, `iag_save_uploader.py`,
`iag_host_interceptor.py`). Both programs meet in documents (`docs`, `active`, `result`) and in packets
(`carriers`, `echoes`). The supervisor publishes a request, waits for READY, clicks, waits for a result,
and cancels when anything fails; the host takes a request from the answer to its heartbeat,
watches for a carrier, rewrites it and reports. A carrier that finds no interceptor reaches the game as it
is. `disturbed` remembers which runs a fault or an emergency stop fell into.

The modules with RECURSIVE operators: none. Recursive functions and folds are used instead, so
that every module can be reasoned about by TLAPS.

**CompatibilityControl** (`protocol_compatibility_control.py`, with what `web_console.py` does around it). The
state is what the files hold: `plan` (plan.json and its hash), `control` (control.json: phase, hash of the
plan checked, run, order and index), `reports[r]` (report.json of run `r`), `baseline` (baseline.json, by
the run whose report it is). `calls` are the threads in `execute_current` that have let go of the lock,
each with what it has got so far; `proxy` is the worker with the status it publishes last. `holder` is the
conversation lock, held only while a job or a round is begun, `busy` a model job, `manual` a start or stop of
the proxy that has passed its check for a live round and not yet acted. Every operation of the class is one
action, since one lock spans it; the exception is executing: `Execute` up to where it lets go,
`Arm`, `ReadResult` or `CallFails` in the controller, and `ExecuteEnds` (or `ExecuteLost`) on the state there is *then*.
`Advance` writes control.json last, or the console dies before it and `Restarted` follows; `OfflineCheck`,
`StartLive` and `Finish` may die between any two of their files. `strayed` is a history: the runs into which a result came
that the round was not waiting for. Folded together or left out: the checks of the running version, of the configuration and of a
paused autonomy (`StartLiveFails`), the wait for READY within `start_live` (one step, in which `proxy` comes up or not),
the lag of the worker's "armed" status. Run ids are names by the second in the code; here every run has a directory of
its own.

## 3. What is checked

Each run is one question. `pass` runs hold in the whole state space of their bounds; `violation`
runs show a place where the code does not do what the repository says (section 6).

| run | config | question |
| --- | --- | --- |
| `spending` | SpendingAgents.cfg | With both turns, the player and newer saves in any order: does a reservation outlive its save or share the ledger with an exclusive one, is something sent without one, do the orders reported as done cost more than the save holds, is a construction written off that was built? |
| `plan_turns` | PlanTurns.cfg | Two turns with a chat, the adviser, directives, crashes and a further save: are completed nodes left alone, does an action that reaches the game fit the plan and the save, is it repeated, does a rejected run go on, is a directive lost unseen? |
| `plan_rejection` (violation) | PlanRejection.cfg | Can a node whose run the save rejected count as success? |
| `broker` | ExecutionBroker.cfg | With repeats, renamed and split requests and exceptions anywhere: is an id dispatched twice or answered in two ways, is a half-done sequence called confirmed? |
| `stream` | StreamProxy.cfg | Under loss, repetition and reordering, with two insertions: does the host get every byte once and in order, with dense serials, is the game told the truth, and does the stream move on? |
| `requests` | ProxyRequests.cfg | Does an answer belong to its request and tell what happened, and does it come without the caller's own deadline? |
| `proxy_repeated_echo` (violation) | ProxyRepeatedEcho.cfg | Can the broadcast of one request confirm another that was never sent? |
| `native` | NativeRuntime.cfg | With every timeout at any moment and requests repeated, renamed and abandoned: does a request change under the game thread, is one posted twice, is an answer false? |
| `saves` | SavePath.cfg | While the game writes, the uploader retries and either program restarts: is a torn or missing save ever named, does a revision name two saves, does a turn pass the check after another save was current, does the newest save arrive? |
| `bridge` | HostBridge.cfg | With two faults and an emergency stop anywhere: is a reported outcome true, when is a carrier carried out unchanged or for another run, does an undisturbed run succeed? |
| `rounds` | SaveRounds.cfg | With continuations, rounds, chats, settings, stops and crashes: is a save used for two orders, work tried twice, a round spent on a save that is out of date or again, a directive lost; is the newest save served? |
| `compatibility` | CompatibilityControl.cfg | With a restart between any two documents, jobs, the proxy started or stopped by hand, and rounds finished or reset while a scenario is under way: is a round called passed that was not, gone on with after a failure, a scenario asked for twice, a job run beside a round; does a scenario under way end? |

Properties worth a comment:

- `KeptWithinStock` sums what was *reported* as done or as waiting, over all turns that planned on a
  save; it is violated by releasing the reservation of an answer nobody could read.
- `RejectedWasLost` excepts the verdict of a save that the game wrote before the answer and that arrived after it:
  the code compares the answer with the arrival (section 6). It is stronger than it looks: a save only shows how many constructions a slot has, and
  of two open commands for one slot it could not tell which was lost. It holds because a slot with an
  unanswered command is not offered (`EcoMayPrepare`). The converse is not claimed: a command reported
  as failed may have landed, and the save that shows it then confirms a later one.
- `ActsOnCurrentPlan` speaks of the plan *as it is when the tool changes the game*, not as it was
  when it was evaluated; and of the save at the second snapshot check, because a save that comes in
  after it cannot be helped by the code.
- `ActsOnCurrentPlan`, `RecordedOnceStays`, `RejectionBlocks` and `CompletedStays` except what follows when an action
  is started on a plan mistaken for an earlier one (`mistaken`, section 6); `PlanTurns.cfg` reaches that case.
- `ReviewKept`: a directive leaves the inbox only when a model has been given it or a newer one pushes it
  out, and a turn goes on from its evaluation only when it is given all that are queued, whatever
  the plan has due.
- `PromiseKept` is the refinement of `ExecutionPromise`; it holds while everything dispatched is remembered
  (`Remembers`): an eviction from the bounded cache and an exception in the middle of a sequence
  end the promise. Both are recorded by history variables. `AtMostOnce` and `IdNamesOnePayload` say parts
  of it as invariants and are proved (section 5) instead of run.
- `GameStreamIntact` compares what the host has with the order in which the game wrote and the
  proxy inserted, for every interleaving; it is not a copy of the translation. It, `AckSound` and
  `SerialsDense` speak of a stream of less than half the range (`WithinHalf`; 8 MB with 24 bits): beyond it
  the code's comparison takes late offsets for early ones (section 6). The run stays far below, with
  six parts of sixteen. Each also ends where an error lets out what the proxy does not map (`untranslated`): a packet of
  the game as it was sent, or part of a record nobody knows of. Nothing repairs the stream then (section 6).
  Errors at a carrier that is repeated, or before the first part of a record is out, do no harm, and no property
  excepts them.
- `ConfirmedMeansExecuted` holds as long as no two requests are about the same target
  (`FreshTargets`); without that, `proxy_repeated_echo` violates it.
- `ReturnsWithoutDeadline` is stated until a caller gives up at its own deadline, which leaves a
  request behind in the file; and for requests whose answer could be written (`AnswerMissed`). `InsertedOnce` and
  `AnswerIsForCall` except a request whose `arm.json` could not be removed (`kept`): it is read again and inserted
  a second time.
- `NewestIsServed`: a round is not spent on a save that grew too old while the job slot was taken, so that is excused
  beside work that holds rounds back; that continuations are given the save is claimed however old it is.
- `SlotStandsStill` holds because a timeout does not free the slot: its defect, which does, lets the
  game thread prepare one request and mark another. The price is that after a timeout others are
  told "busy".
- `AnswerIsTrue` reads "rejected" with its whole future: as long as the runtime remembers the id, no
  command goes out under it with that payload.
- `PassedMeansUnmoved` covers the return of the same bytes as a new upload (a rollback in the game):
  content and path are equal then, and only revision and stamp differ.
- `OutcomeIsTrue` is about what the console believes; `OnlyFaultsMixRuns` about what happened in the
  game. The second says how far READY before the click carries: to mix runs up takes a fault. One is
  enough to throw several runs out of step, one after the other (`Mixed`): with three runs, the carrier
  of a disturbed one meets the second's interceptor and the second's the third's.
- `RoundsSeeOrders`, `OneOrderPerSave` and `TriedOncePerSave` except a save that arrives while a
  continuation runs, because the code notes the save of the probe (section 6), and saves whose job a
  crash ended.
- `PassedIsEarned` claims of a passed report that the host confirmed each scenario *in that run*; that the
  player approved each is not claimed: a verdict is recorded once more when the console died after
  the report and before control.json, and may differ the second time. Like `StopsAtFailure`, `AskedOnce`
  and `JobsExcluded` it sets apart runs that a stray result was written into (`strayed`, section 6).
- `StopsAtFailure` and `AskedOnce` compare a step of `Execute` with all that was written about the scenarios before
  it. That a restart can neither repeat a request nor skip a failure rests on the order in which the code
  writes its two documents.
- `ExecutionEnds` excuses restarts: a scenario that was under way stays "executing" after one, until the
  player finishes the round.

Every property is paired in PROJECT.json with a defect of the code it would notice; the defective
operators stand before the right ones, marked `Defect`.

## 4. Bounds and fairness

| run | bounds | why they are enough |
| --- | --- | --- |
| `spending` | three saves, the second one poor; one construction, a paid recruitment and an upgrade of unknown price; three run identifiers (`RunLimit`); both policies | two spenders compete for one unit and a third wants all of it; a construction can be reserved on one save, unreadable on it, and settled or carried over on either of the next, and each of these may be written before the answer and arrive after it |
| `plan_turns` | two nodes, four node documents an editor may put in, two plans under one of two ids each, one fact (high, low), one further save, revisions up to two, two directives and an inbox of one | one edit and one save can fall into every gap of a turn; a second turn repeats an action; a second plan may take the id and revision of the first; a cycle needs two nodes; one directive too many |
| `plan_rejection` | two saves, no edits, `Concurrent = FALSE` | the shortest history that shows it, in the console's own schedule |
| `broker` | two callers, six requests (four actions, two sequences) over three ids and two payloads, cache of two (states after an eviction are not explored) | a sequence shares a step id with a single action and with another sequence |
| `stream` | two commands, two insertions of two parts, one part per packet, modulus 32, one loss, one acknowledgement heard at a time, four events | two translators compose, a record needs two fragments, anything may be lost, repeated or reordered once |
| `requests` | three requests and targets, one fault | one given up, one in the file, one being armed, with one write, match or removal that fails |
| `native` | two ids (symmetric), three payloads (country 0, another country, malformed), four connections | one request in the slot, one in the cache and a repetition of either; the fourth asks again for what was replaced |
| `saves` | two campaigns with one file each, two contents, two further writes, one fault | a save is overwritten under the uploader, the other campaign takes over, and the same content returns |
| `bridge` | two runs, two faults, one emergency stop | a fault in one run and one in the next; with one run after the other or both at the lock |
| `rounds` | three saves in three calendars (month by month, with a month left out, after a rollback), two directives, two events (a save that grows too old is one) | a continuation on one save, another that arrives while it runs, and one more; a piece of work started again, or a crash after it |
| `compatibility` | a plan of two scenarios and one that cannot be built, two runs of a check, one restart | an offline check and one live round, in which the first scenario may fail, be skipped or succeed before the second, with a restart at any one point. A second live round needs a third run, which TLC does not finish in reasonable time; the theorems speak of any number |

`stream` stops exploring when the worker has left a stream it had changed, or an error has let out what it does not
map (`StillPromised`): nothing is
promised then, and `StreamMovesOn` excuses such behaviours itself, so the constraint hides none that
could violate it. `broker` likewise stops at an eviction. Two constraints only choose among equal behaviours, since
targets and plan ids differ by name alone: `InOrder` of `requests` gives the targets in one order, `FirstIsP` of
`plan_turns` gives the first plan the id "p".

Fairness. `StreamProxy`: the game repeats what is not acknowledged
and keeps acknowledging, packets that are not lost arrive, the host answers; these are the
properties of the game's reliable transport that the proxy relies on. Handling a packet does not raise every time:
the fair actions are those that do not raise, and the others have no fairness. No fairness for the proxy's
own requests. `ProxyRequests`: packets keep passing, so the worker runs its loop and counts its
timeouts, and the controller polls; nothing says that a packet suits as carrier or that a broadcast
ever comes. `SavePath`: the uploader's loop and the console's handler go on and a file the game began is
finished (weak); a file that has stopped changing is stable at some scan (strong, because the
uploader is in other steps in between). `SaveRounds`: a job that runs ends (weak), and the scheduler,
which polls, finds the slot free in spite of chats the player starts (strong for `StartContinuation` and
`StartRound`: a poll cannot fall into a chat every time). `HostBridge`: both programs poll and packets
arrive (weak); nothing is assumed of faults. `CompatibilityControl`: a thread that waits for the proxy raises in
time (`arm_and_wait` has a deadline) and a thread that has its result goes on (weak); nothing is assumed of the
worker, the player or the host. All other runs are safety checks with stuttering.

The broker and the native runtime are checked for deadlock: a request can always be
made, or the game thread goes round; so are the spending agents, whose player and rounds never stop, and
the self-test, where a job or a manual start is always possible or ends. In the other
models the bounds on saves, revisions, commands and requests let the system stop, and deadlock
checking is off.

## 5. What is proved

All theorems hold for every value of the constants that meets the named assumption of the module;
the assumptions (`LedgerAssumption`, `SpendingAssumption`, `PlanAssumption`, `TurnAssumption`,
`BrokerAssumption`, `StreamAssumption`, `RequestAssumption`, `NativeAssumption`, `SavePathAssumption`,
`HostBridgeAssumption`, `SaveRoundsAssumption`, `CompatibilityAssumption`) say that bounds are numbers, inputs well formed, and sets the
program enumerates (files, campaigns) finite. TLC evaluates each in the runs of its module.

- `SpendingAgentsProofs`, first about the ledger alone: `LedgerTypeCorrect`, `LedgerOneActiveSave`,
  `LedgerExclusiveIsAlone`, `LedgerClosedRowsStay`, whatever its callers do. A reservation is inserted
  only after the stale ones are superseded, so active rows share the new save.
  Then about the agents. `SpendingImplementsLedger` is the refinement: every step of both turns is a
  step of the ledger or leaves it alone, so its theorems hold during rounds (`SpendingLedgerHolds`).
  `SpendingTypeCorrect`, `SpendingKeptWithinStock`, `SpendingSentIsReserved` and `SpendingRejectedWasLost`
  come from one invariant, `SpendingInv`, whose parts are:
  - what is sent: `Locked` (the lock is held exactly while a turn reserves and sends), `Pinned` (both
    turns of a round plan from one save, and no reservation is for a later one), `Sending` (the
    command in flight has its row, active, for that save). Without `Pinned` the reservation of one
    turn could supersede that of the other, which is what happens when the lock is not taken;
  - what is kept: `WithinStock` bounds not the active rows but all that *have counted* for a save, those
    superseded later included, and `KeptCounts` says that what was reported is among them; a reported
    order is never released since its identifier is new (`RunsAreNew`) and no longer the current one
    (`Prepared`). `KeptWithinStock` is then a smaller sum;
  - what is written off: `Shown` says that a construction that landed is in every save the game wrote after its
    answer, arrived or not, `Settled` that identifiers of settled ones are not used again.
  The sums are the community modules' `MapThenSumSet`, a recursion over finite sets. Induction theorems
  cannot be instantiated here, so the lemmas about it (`TotalsAgree`, `TotalsExist`, `TotalStep`,
  `TotalIsNat`, `TotalAdd`, `TotalMonotone`, `TotalSame`) take a *smallest* set that would violate them,
  which exists because strict inclusion of finite sets is well founded (`SmallestSet`).
- `PlanTurnsProofs`: `PlanGraphAlwaysSound` (no reference to a missing node and no cycle, stated as: every
  non-empty set of nodes has one that refers to none of the set; only proved, no run checks it),
  `CompletedNodesStay`, `ActionsFitThePlan`, `RecordedOnceIsNotRepeated`, `RejectionStopsThePlan` and
  `ReviewsKept`. The invariant is
  `Inv == Shape /\ ValidGraph /\ RunsInv /\ SnapshotKnown /\ DueInv /\ LockInv`.
  `ActsOnCurrentPlan` is an action property about a step late in the turn, so the facts found by the
  evaluation have to be carried to it: `DueInv` says that as long as the stored plan is the one the turn evaluated,
  by creation and revision, the due node is open, ready, and not barred by a recorded or
  rejected run; `LockInv` says that from preparation on nobody can have changed them, because
  editors need the plan lock, and that the plan is that very one unless it was `mistaken` for it. Nothing is
  assumed of the ids models choose: the code compares id and revision only, the theorems say what holds in
  spite of it, and except the plan an action of another was started on, up to the next new plan (section 6). The
  proof has one lemma per action. `ReviewsKept` has no exception; it rests on an invariant of its own,
  `InboxInv` (the inbox is within its limit), and on `WithoutKeeps`, which says what the recursive function
  `Without` leaves of the inbox, proved by least counterexample.
- `ExecutionBrokerProofs`: `BrokerAtMostOnce` and `BrokerKeepsPromise`. The invariant is
  `Types /\ OneInside /\ LostKnown /\ FreshWhileSending /\ (Remembers => Accounted /\ sent <= 1)`:
  one caller is inside the lock; the ids still to be sent by the caller inside are new to the
  game and to the caches; and every id that reached the game is either in a cache or among the
  steps of the caller inside. `AtMostOnce` alone is not inductive, since a dispatch is only safe
  because a cache lookup has failed some steps earlier. The refinement
  `Spec => PromiseKept` is proved from the same invariant, action by action.
  `BrokerIdNamesOnePayload` and `BrokerConfirmedMeansAll` are about what is answered. `AnswersInv` says
  that a request inside the lock that is being sent is new to both caches (`Unanswered`), that no id is
  in both (`Apart`), and that a request that was answered is still remembered with its payloads (`Whole`).
- `NativeRuntimeProofs`: `NativeSlotStandsStill`, `NativePostedOnce`, `NativeAnswersTrue`. The
  invariant `NInv` joins three arguments. The slot: only a request that is done leaves it, the game
  thread alone makes it done, and has no copy then (`CopyIsSlot`, `Waiting`). Posting: an id gets
  into the slot only when it is not in the cache (`Apart`), so whatever was posted under it is
  forgotten (`FreshUntilPosted`, `Accounted`). Answers: a refusal given earlier stays justified by
  the slot or the cache until the id is forgotten (`Settled`, `Answered`), because the slot's
  result and the cached one are true (`ResultsTrue`). One lemma per action of the socket thread; the
  game thread's share `OnlyGame` and `DoneKeeps`.
- `ConsoleProofs`, about SaveRounds: `AtMostOneOrderPerSave`, `WorkTriedOncePerSave`, `OwedDirectivesAreDue`,
  `RoundsKnowTheOrders`, `RoundsAlwaysMoveOn`, for any number of saves, any calendar and any intervals. The
  invariant `IInv == Base /\ JobOnSave /\ Tried /\ Ordered /\ Held /\ Moved /\ Owed` has one part per theorem.
  None of the properties is inductive: an order is made many steps after the probe that allowed it, so
  `JobOnSave` carries the noted attempt to the order, unless another save crosses it; `Tried` and
  `Ordered` say that an order on the newest save is noted as attempt, as consumed save, or in the record of
  the work, so that no later probe allows a second; `Held` that such an order holds rounds back;
  `Moved` that the newest save is out of the schedule once a round is done with it, for which
  `AdvancedIsLater` shows that skipping passed boundaries always gives a later month.
  One lemma per part, one step per action.
- `ConsoleProofs`, about CompatibilityControl: `SuiteTypesHold`, `SuitePassedIsEarned`, `SuiteLiveOnlyChecked`,
  `SuiteJobsExcluded`, `SuiteStopsAtFailure`, `SuiteAskedOnce`, for any catalogue, any plans, any number of runs and
  restarts. `SuiteInv` joins six parts to the types. `AnswersKnown`: a confirmation that a call or a status shows is of the
  request it names, and the host gave it. `RunsWritten`: requests, calls and the baseline are of runs that have a report, so
  a new run has none of them. `RoundOfPlan`: while a round is on, the plan checked is the plan stored, and
  the report is of its scenarios. `RoundInOrder`: scenarios before the index succeeded or were skipped, those after
  it have not been asked for, and the one at the index only once the phase is past "ready"; nothing is said of its
  result and verdict in the report, since a console that died between the two documents is ahead there.
  `CallsOfRound`: a run has one call at most, of its current scenario, and the phase says so. `JobsApart`: who
  holds the lock to begin a job has seen no live round, and who holds it to begin a round no job.
  All parts about a round except strayed runs, because a stray result is written without a look at phase or
  run; `PassedIsEarned` and `JobsExcluded` are not inductive without them, the two action properties follow from
  `RoundInOrder` and `CallsOfRound`.
- `SessionProxyProofs`, about StreamProxy: `StreamTypeCorrect`, `StreamStaysIntact`, `StreamAcksSound`,
  `StreamSerialsDense`, for any modulus, any record lengths and fragment size, and any number of commands,
  insertions, losses and repetitions, as long as the stream is shorter than half the range, the worker has not left
  it, and no error has let out what is not mapped. The
  invariant `StreamInv == StreamTypes /\ (Covered => StreamParts)` compares everything with `log`, the history
  of what was written and inserted. `Mapped`: the sender offset of a written command is its place in
  `log`, that of a new one is the end of `log`, and an acknowledgement covers a command for the game exactly when
  it covers its place for the host, so the two translations fit together though neither undoes the
  other. `PacketsInPlace`, `ReceivedInPlace`: whatever is under way, kept for a repetition or received
  has at each offset what `log` has there. `AcksMapped`: an acknowledgement, under way or taken, is of bytes
  the host has. `SerialsMapped`: a serial is the number of commands begun up to its place.
  It is needed because the properties look at what the host has, and a packet is received long
  after it was translated, with other translators in force.
  About translations: `RunsExist` and `RunsMeet` describe a translation through any list of translators, and
  `OneMoreTranslation` what one more adds; with induction theorems out of reach they
  are proved by least counterexample (`LeastNumber`). `DistanceFacts` is the comparison modulo the range.
- `SessionProxyProofs`, about ProxyRequests: `RequestAnswerIsForCall`, `RequestInsertedOnce` and
  `RequestConfirmedTargetExecuted`. `RequestInv` ties three documents together that two processes
  write at different times: a status that names a request tells what the worker decided of it
  (`OutcomesAgree`); a request is counted as inserted only while held or once it is settled with an outcome
  an insertion allows (`InsertionsAgree`); and a confirmation comes from a broadcast about the
  request's target (`ConfirmationsAgree`); each but for requests whose file could not be removed. That is all a
  broadcast can say: that the *request* was executed
  follows only if no two have the same target, which nothing in the code sees to. It is checked for that case
  (`ConfirmedMeansExecuted` under `FreshTargets`) and not proved; `RequestConfirmedTargetExecuted` is what holds always.
- `SavePathProofs`: `SavePathManifestsNameStoredSaves`, `SavePathRevisionNamesOneSave`,
  `SavePathPassedMeansUnmoved`. `SavePathInv` follows one upload through the console's three writes
  (`Uploading`: the file is stored whole before a manifest may name it, and the revision was computed
  from a campaign manifest nobody else has changed since), bounds what was published by the manifests
  (`Manifests`: a revision beyond them is unused, so the next names one save), and says of a turn
  (`Pinned`) that once another save was current the revision it pinned is behind. None survives alone:
  between two of the three writes each manifest lags behind what was published.
- `HostBridgeProofs`: `BridgeOutcomeIsTrue`, `BridgeOnlyFaultsMixRuns`. `BridgeInv` describes what each
  document and packet can say (`ReportsAreTrue`, `Says`), and which combinations of supervisor and host an
  undisturbed run can be in (`Waits`, `Sent`, `Unpublished`): READY is only seen while the host
  watches for that very run. The proof attempt showed the former statement of `OnlyFaultsMixRuns` to be
  false for three runs, which two cannot show: a run that no fault fell into itself can be thrown out of
  step by the carrier of the one before and pass that on. It is stated with `Mixed` now, and TLC
  agrees for three runs with one fault and one stop (about 620,000 states; the listed run keeps two runs
  and two faults).

Only model-checked: liveness (`StreamMovesOn`, `ReturnsWithoutDeadline`, `NewestSaveArrives`,
`CleanRunSucceeds`, `NewestIsServed`, `ExecutionEnds`), which is out of the prover's reach, and
`ConfirmedMeansExecuted`, which is stated for requests of different targets. Every other safety property of a
passing run is stated by a theorem. The other way round, some theorems state what no run checks any more, because
the proof covers every instance and the run's time is spent on something else: `LedgerExclusiveIsAlone`,
`LedgerClosedRowsStay`, `BrokerAtMostOnce`, `BrokerIdNamesOnePayload`,
`PlanGraphAlwaysSound`, `SuiteLiveOnlyChecked`, `RequestConfirmedTargetExecuted`, and the type theorems.

## 6. Disagreements found, and known limits

Shown by a run each (details and quotes in PROJECT.json, `findings`):

- `plan_rejection`: a node with completion conditions is completed by them while its submitted run
  still waits for a verdict; completed nodes are not looked at again, so a rejection by the next
  save is never reported and dependent nodes act. `accept_localized_anomaly` says that such a run
  can never count as success.
- `proxy_repeated_echo`: any broadcast with the same target confirms the request held, also one
  of an earlier request.

Known limits met while modelling; the models contain the behaviour, and the properties are stated
so that they say exactly how far the code goes:

- An exception at a later step of a sequence loses the results of the earlier ones, so their ids are not
  cached and a request with one of them is dispatched again, although the step is in the game
  (docs/EXECUTION_BROKER.md:133-134; `Remembers` sets such ids apart).
- The same exception makes the broker report `attempted_steps = 0` although earlier steps were
  confirmed, where docs/EXECUTION_BROKER.md:90-91 speaks of the attempted prefix.
- A plan replaced by one with the same id and revision passes for the plan that was evaluated
  (`mistaken`; application_plan.py:1474-1480): `create` restarts at revision 1 and accepts any id. The action of the old
  plan runs and its result is written to the node of that name in the new one.
- A construction is written off on the first other save whose archive is newer than the answer. The archive is as
  old as its arrival (save_ingest.py:344), so a save that the game wrote before the answer and that was uploaded after
  it counts, though economy_governance/agent_tools.py:497 asks for a save written after the observation
  (`ArrivedLate`): the construction may be in the game and is ordered again.
- Executing a fleet order reads the permission first and then builds, reserves and sends
  (fleet_operations/agent_tools.py:3329, 3609): a permission taken back in between is not seen. Likewise a tool
  call looks whether its snapshot is current before it waits for the execution lock; under it only the economy
  looks again, and only for a plan that is too many saves behind (`Stale`).
- A save older than `autonomy_require_fresh_save_seconds` (15 minutes by default) is never given to a round: after
  a job that took longer, rounds wait for the next save, though this one was not reviewed.
- `evaluate` checks expectations only of nodes that a changed fact affects, but collects due
  actions from all: a node whose failure was reported and neither accepted nor repaired acts at
  the next turn while the facts stand still (README.md:57-59 speaks of a plan that goes on while it
  is within tolerance).
- Of several `each_state_change` actions only the first due one runs, and the change counts as
  seen for all.
- `_waiver_matches` (application_plan.py:411) answers yes for a missing waiver and a fact that is
  present with value null, so such a deviation counts as accepted. The runs have no null facts.
- A save that arrives while a continuation runs is not the one that is noted: the order is made on
  it, the attempt and the consumed save name the one before, so a second continuation may order on the same
  save (docs/ARCHITECTURE.md:114 promises at most one). `crossed` marks such saves.
- A continuation whose order was sent and not confirmed leaves the save to a round, though the order may be in the
  game; and a crash between an order and its record leaves no trace but the attempt.
- Work in some states (a campaign whose source fleet is missing or whose inhibitor needs review or that waits for
  intelligence, an army that waits for transports) blocks rounds on every save it has looked at, and only
  completing the work ends that.
- A second `recruit_armies` replaces a recruitment that is pending. Reconciling a recruitment reads,
  changes and writes all fleet permissions (fleet_operations/agent_tools.py:2214-2220) while the player may
  save one (web_console.py:2858-2886): the player's is lost.
- Saving the settings undoes the coalescing of missed boundaries. A rollback of the game's date postpones due
  months. A joint review that failed half way queues its earlier directives again under new ids.
- That a save is "fresh" to a construction means only that its hash differs.
- docs/FLEET_OPERATIONS.md:152-156 release a reservation when an order failed before it was sent; an
  exception after sending releases it as well (`FleetFails`), and the orders that are not reported as done
  are outside `KeptWithinStock`.
- Host bridge: an interceptor that is armed when its request is cancelled still rewrites the next carrier; a
  carrier that cannot be rewritten is dropped and sent again by the game; a READY whose answer is lost ends
  the interceptor though the supervisor clicks; a lost result is only logged; a restarted bridge has
  forgotten what it handled; execution.lock stays after a crash until the player removes it; the thread that
  sends heartbeats also uploads and backs off for up to a minute, longer than READY is waited for
  (`HostIsLate`).
- An action whose process dies, or whose tool raises, after the game changed is due again.
- Stream: a command the game sends again after an insertion is shifted like a new one and takes
  the serial of the insertion; a lost fragment is only repaired by an exact repetition of its
  carrier; half the offset range after an insertion offsets are no longer moved; an error while a
  packet is handled lets the original through, unmapped (session_proxy.py:3156-3158): an acknowledgement that
  covers more than the host has, a command at an offset of its own and with the serial of an
  insertion, and, when the error falls between two parts of a record, a beginning of it that no translator covers and
  that a later insertion overlaps; the worker ends after
  `session_seconds` whatever it has inserted (docs/SESSION_PROXY_MODE.md:9-17, 97-100 promise
  otherwise).
- Requests: `stop` looks at a status file that lags behind and ends the worker later, so an armed
  request may be inserted in between; a broadcast that comes after the response timeout reaches
  the game under the host's actor; `finish_request` removes `arm.json` whatever it holds. The status file is
  written at best (`write_json`, session_proxy.py:238): an outcome that could not be published reaches the
  caller with the next write only, which may come after its deadline. When the match of a request cannot be noted in
  the log, the request is held as matched and never settled; when its
  `arm.json` cannot be removed, it is read again and inserted a second time.
- Native runtime: after a response timeout the request stays in the only slot, and every other id is
  told "busy" until the same id is asked again, which the broker, having cached an answer, does not
  do. That late answer names country 0, so the client takes it for an error and the broker reports
  "failed" for any other country, as it does after its own timeout, though the command may be
  posted (docs/runtime/NATIVE_RUNTIME_ACTION_CONTRIBUTING.md:89-91 speaks of pending). An exception
  while the effect is awaited is "failed" though the command was posted. The cache holds one
  result: an id asked again after another is posted again.
- Self-test: `finish`, and after it `reset`, are allowed while a scenario is under way. The rest of
  `execute_current` then works on whatever state there is: it sets "awaiting_operator_verdict" again in a round that is
  over, or in a later one, and writes its result into the later report (`strayed`).
- Self-test: a manual start or stop of the proxy looks for a live round before it acts, under no lock, so it may still
  act in a round that began meanwhile (docs/protocol/PROTOCOL_COMPATIBILITY_SUITE.md:51-52 speaks of both
  as frozen). A restart while a scenario is under way leaves the phase "executing_action", which only `finish` ends.

## 7. Not modelled, and the plan

Abstracted in the modelled parts: record formats and their builders, actor and target discovery,
audit records, titles and texts, timestamps (timeouts are nondeterministic), the model loop's
reading tools, and context compaction. StreamProxy has one actor and one origin; ProxyRequests
counts inserted records and leaves their bytes to StreamProxy; CompatibilityControl builds no commands and writes its documents without failing; HostBridge leaves out how a button is
found on the screen and the interceptor that runs without a bridge.

What has no model:

- *Model pool*: failover and cooldowns. To its callers a call answers or fails, as the models here assume.
  Two orders are worth a model: a pool replaced during a call makes the answer's bookkeeping fail on an
  endpoint that is gone, and a late success clears a cooldown another call has just set.
- *Read task pool*: reads change nothing, so a lost one shows in waiting only; items queued in a generation
  that was retired are not run, and their batch waits out its timeout.
- *Flow discovery*: which UDP flow is the room is decided by counting; StreamProxy starts with the flow locked.
- *Research agent, domain planners, profiles, campaign routes, save extraction, game knowledge, packet
  builders*: more than half of the code. These are functions from one save to facts, candidates
  or bytes, without state, concurrency or failure; what could be said of them is what their tests say,
  value by value, and a model of them would be a copy. The models take their results as choices.
- *Model providers, configuration, user interfaces, overlay, scripts*: input and output.
- *Conversation store*: trusted to make each call atomic and durable, which SQLite with a transaction per call
  does.

This is why the models stand for a minor part of the lines: they cover the part that keeps state between steps and
shares it between actors.

Next: a model of `ModelPool` as above, with its proofs beside it.
