------------------------------ MODULE SaveRounds -----------------------------
(***************************************************************************)
(* What the control center does with each new save, on its own: fixed      *)
(* continuations of started work first, then a round of all Applications   *)
(* with the joint review of their plans, one job at a time.                *)
(* (apps/control_center/web_console.py, _autonomy_loop and the jobs it     *)
(* starts; core/autonomy.py; applications/save_continuations.py,           *)
(* joint_plan_review.py and the continuations of                           *)
(* fleet_operations/agent_tools.py.)                                       *)
(*                                                                         *)
(* Saves are numbered as they arrive and differ in content.  What a save   *)
(* says about the work under way is a choice made when it is read.  Every  *)
(* write to the store is a step; a crash keeps the store and loses the job.*)
(***************************************************************************)
EXTENDS Integers, Sequences, FiniteSets

CONSTANTS
  MaxSaves,
  Calendars,     \* months the saves may have, by number
  Interval,      \* review_interval_months
  JointInterval, \* joint_plan_review_months
  Domains,       \* Applications a joint review may address
  MaxEvents      \* bound: pieces of work the models start, crashes, changed
                 \* settings, emergency stops and saves grown old together

Works == {"fleet", "army", "campaign"}   \* BUILTIN_HANDLERS
NoSave == 0
Saves == 1..MaxSaves

ASSUME SaveRoundsAssumption ==
  /\ MaxSaves \in Nat \ {0}
  /\ Calendars \subseteq [Saves -> Nat \ {0}]
  /\ Interval \in Nat \ {0} /\ JointInterval \in Nat \ {0}
  /\ MaxEvents \in Nat

VARIABLES
  save, months,  \* the newest save; the month of each
  mode, stop,    \* autonomy_mode, emergency_stop
  stale,         \* the newest save is older than the rounds accept
  work,          \* the pending workflows: [phase, acted, checked]
  attempts,      \* save_continuation_attempts
  consumed,      \* last_mutating_save_continuation
  reviewed,      \* last_autonomy_source
  next,          \* next_review: [source, due], months
  jointDue,      \* next_due_month_index of the joint review
  job,           \* the one job: [kind, pc, source, work, at, recorded]
  sent,          \* history: orders of continuations by work and save
  confirmed,     \* history: those the host has confirmed
  crossed,       \* history: saves that arrived while a continuation ran
  struck,        \* history: saves whose job a crash ended
  floor,         \* history: the newest save the rounds so far are done with
  owed,          \* directives of the last answer that are not queued yet
  owedAt,        \* history: the month of the last attempt at a review
  events

world   == <<save, months, mode, stop, stale>>
records == <<work, attempts, consumed>>
reviews == <<reviewed, next>>
joint   == <<jointDue, owed, owedAt>>
orders  == <<sent, confirmed>>
marks   == <<crossed, struck, floor>>
vars == <<world, records, reviews, joint, orders, marks, events, job>>

NoWork == [phase |-> "none", acted |-> NoSave, checked |-> NoSave]
NoJob == [kind |-> "none", pc |-> "none", source |-> NoSave, work |-> "fleet",
          at |-> NoSave, recorded |-> FALSE]

Init ==
  /\ save = NoSave /\ months \in Calendars
  /\ mode = "execute" /\ stop = FALSE /\ stale = FALSE
  /\ work = [w \in Works |-> NoWork] /\ attempts = [w \in Works |-> NoSave]
  /\ consumed = NoSave /\ reviewed = NoSave
  /\ next = [source |-> 0, due |-> 0] /\ jointDue = 0
  /\ job = NoJob
  /\ sent = [w \in Works |-> [s \in Saves |-> 0]] /\ confirmed = [s \in Saves |-> 0]
  /\ crossed = {} /\ struck = {} /\ floor = NoSave
  /\ owed = {} /\ owedAt = 0
  /\ events = 0

At(pc) == job.pc = pc
Goto(pc) == job' = [job EXCEPT !.pc = pc]
Over == job' = NoJob

Event == events < MaxEvents /\ events' = events + 1

-----------------------------------------------------------------------------
(* The world around the scheduler.                                         *)

Upload ==
  /\ save < MaxSaves /\ save' = save + 1 /\ stale' = FALSE
  /\ crossed' = IF job.kind = "continuation" THEN crossed \cup {save'} ELSE crossed
  /\ UNCHANGED <<months, mode, stop, records, reviews, joint, orders, struck, floor, events, job>>

(* autonomy_require_fresh_save_seconds have passed since it arrived.  They  *)
(* may never pass: a value of 0 switches the limit off.                    *)
Age ==
  /\ save # NoSave /\ ~stale /\ Event
  /\ stale' = TRUE
  /\ UNCHANGED <<save, months, mode, stop, records, reviews, joint, orders, marks, job>>

(* save_autonomy_settings, refused while a job runs: the due month is      *)
(* counted from the last review again.                                     *)
SaveSettings ==
  /\ job.kind = "none" /\ Event
  /\ mode' \in {"paused", "advisory", "execute"}
  /\ next' = IF next.source = 0 THEN next ELSE [next EXCEPT !.due = next.source + Interval]
  /\ floor' = reviewed
  /\ UNCHANGED <<save, months, stop, stale, records, reviewed, joint, orders, crossed, struck, job>>

EmergencyStop ==
  /\ ~stop /\ Event
  /\ stop' = TRUE
  /\ UNCHANGED <<save, months, mode, stale, records, reviews, joint, orders, marks, job>>

ClearStop ==
  /\ stop /\ job.kind = "none"
  /\ stop' = FALSE
  /\ UNCHANGED <<save, months, mode, stale, records, reviews, joint, orders, marks, events, job>>

Crash ==
  /\ job.kind # "none" /\ Event
  /\ struck' = IF job.kind = "continuation"
               THEN struck \cup ({job.source, job.at} \ {NoSave}) ELSE struck
  /\ Over
  /\ UNCHANGED <<world, records, reviews, joint, orders, crossed, floor>>

-----------------------------------------------------------------------------
(* probe_save_continuations.                                               *)

Pending(w) == work[w].phase # "none"

\* Defect: that work has acted on this save is not looked at.
NeverWaits(w) == FALSE

(* The work has acted on this save, or has looked at it already.           *)
Waiting(w) == work[w].acted = save
Evaluated(w) == w # "fleet" /\ work[w].checked = save

\* Defect: a failed attempt is not remembered.
NeverAttempted(w) == FALSE

Attempted(w) == attempts[w] = save

Untried(w) == Pending(w) /\ ~Waiting(w) /\ ~Evaluated(w) /\ ~Attempted(w)

DueWork(w) == Untried(w) /\ mode = "execute" /\ ~stop

(* "permission" stands for the phases that wait for the player.            *)
Blocks(w) ==
  /\ Pending(w)
  /\ \/ Waiting(w)
     \/ Evaluated(w) /\ work[w].phase # "permission"
     \/ Untried(w) /\ mode = "execute"

\* Defect: one continuation after the other is run on a save.
NeverConsumed == FALSE

Consumed == consumed # NoSave /\ consumed = save

DueWorks == IF save = NoSave \/ Consumed THEN {} ELSE {w \in Works : DueWork(w)}

Blocked == save # NoSave /\ (Consumed \/ \E w \in Works : Blocks(w))

(* The first in the order of BUILTIN_HANDLERS.                             *)
First(W) == IF "fleet" \in W THEN "fleet" ELSE IF "army" \in W THEN "army" ELSE "campaign"

(* autonomy_probe: a save that is too old is left alone.  The probe of the *)
(* continuations has no such limit.                                        *)
DueSave ==
  /\ mode # "paused" /\ save # NoSave /\ reviewed # save /\ ~stale
  /\ months[save] >= next.due

-----------------------------------------------------------------------------
(* _autonomy_loop: a job is started with what the probe saw.               *)

StartContinuation ==
  /\ job.kind = "none" /\ DueWorks # {}
  /\ job' = [NoJob EXCEPT !.kind = "continuation", !.pc = "probe", !.source = save]
  /\ UNCHANGED <<world, records, reviews, joint, orders, marks, events>>

StartRound ==
  /\ job.kind = "none" /\ ~Blocked /\ DueSave
  /\ job' = [NoJob EXCEPT !.kind = "round", !.pc = "pin"]
  /\ UNCHANGED <<world, records, reviews, joint, orders, marks, events>>

(* The player's message starts a turn in which a model may start work.     *)
StartChat ==
  /\ job.kind = "none" /\ save # NoSave /\ \E w \in Works : ~Pending(w)
  /\ job' = [NoJob EXCEPT !.kind = "chat", !.pc = "agents", !.at = save]
  /\ UNCHANGED <<world, records, reviews, joint, orders, marks, events>>

-----------------------------------------------------------------------------
(* run_save_continuations.                                                 *)

\* Defect: the attempt is noted once the handler has returned.
MarkLater(w) == attempts

MarkAttempt(w) == [attempts EXCEPT ![w] = save]

(* It probes once more, and notes the attempt before the handler runs.     *)
Probe ==
  /\ At("probe")
  /\ IF DueWorks = {} THEN Over /\ UNCHANGED attempts
     ELSE LET w == First(DueWorks) IN
          /\ attempts' = MarkAttempt(w)
          /\ job' = [job EXCEPT !.pc = "read", !.work = w, !.at = save]
  /\ UNCHANGED <<world, work, consumed, reviews, joint, orders, marks, events>>

(* The handler's own save is the newest one when it reads.                 *)
Reading(w) ==
  /\ At("read") /\ job.work = w
  /\ UNCHANGED <<world, attempts, consumed, reviews, joint, orders, marks, events>>

Concluded(w, phase) ==
  /\ work' = [work EXCEPT ![w] = IF phase = "none" THEN NoWork
                                 ELSE [@ EXCEPT !.phase = phase, !.checked = save]]
  /\ Over

(* continue_pending_new_fleet_from_save: confirmed, or nothing fresh, or   *)
(* tried on this save, or not to be resolved, or on to the configuration.  *)
ReadFleet ==
  /\ Reading("fleet")
  /\ \/ Concluded("fleet", "none") /\ work["fleet"].phase = "fleet" /\ ~Waiting("fleet")
     \/ Over /\ UNCHANGED work /\ (Waiting("fleet") \/ work["fleet"].checked = save)
     \/ /\ ~Waiting("fleet") /\ work["fleet"].checked # save
        /\ work' = [work EXCEPT !["fleet"].checked = save]
        /\ Over \/ Goto("send")

(* reconcile_pending_army_recruitment_from_save sends nothing.             *)
ReadArmy ==
  /\ Reading("army")
  /\ \E phase \in {"none", "waiting", "permission"} : Concluded("army", phase)

(* continue_pending_campaign_from_save: at its target, waiting, or ready;  *)
(* a plan that is ready is only stored after the order.                    *)
ReadCampaign ==
  /\ Reading("campaign")
  /\ IF Waiting("campaign") THEN Over /\ UNCHANGED work
     ELSE \/ \E phase \in {"none", "waiting", "permission"} : Concluded("campaign", phase)
          \/ Goto("send") /\ UNCHANGED work

(* The order is validated against the newest save and goes to the game.    *)
Sending(w) == sent' = [sent EXCEPT ![w][save] = @ + 1]

SendConfirmed ==
  /\ At("send") /\ Sending(job.work)
  /\ confirmed' = [confirmed EXCEPT ![save] = @ + 1]
  /\ job' = [job EXCEPT !.pc = "record", !.at = save]
  /\ UNCHANGED <<world, records, reviews, joint, marks, events>>

(* Nothing is confirmed, whether or not the game has it: the configuration *)
(* of a fleet still notes the save.                                        *)
SendUnconfirmed ==
  /\ At("send") /\ Sending(job.work)
  /\ work' = IF job.work = "fleet" THEN [work EXCEPT !["fleet"].acted = save] ELSE work
  /\ Over
  /\ UNCHANGED <<world, attempts, consumed, reviews, joint, confirmed, marks, events>>

(* Refused by the tool or the ledger before anything is sent.              *)
Refused ==
  /\ At("send") /\ Over
  /\ UNCHANGED <<world, records, reviews, joint, orders, marks, events>>

(* The record of a confirmed order; only a complete configuration waits    *)
(* for its fleet.                                                          *)
RecordOrder ==
  /\ At("record") /\ Goto("consume")
  /\ \E phase \in IF job.work = "fleet" THEN {"template", "fleet"} ELSE {"waiting"} :
       work' = [work EXCEPT ![job.work].phase = phase, ![job.work].acted = job.at]
  /\ UNCHANGED <<world, attempts, consumed, reviews, joint, orders, marks, events>>

(* The save is the one of the attempt, not the one the order was made on.  *)
Consume ==
  /\ At("consume") /\ Goto("close")
  /\ consumed' = attempts[job.work]
  /\ UNCHANGED <<world, work, attempts, reviews, joint, orders, marks, events>>

(* _run_save_continuation_job: no round is spent on the save of the probe. *)
Close ==
  /\ At("close") /\ Over
  /\ reviewed' = job.source
  /\ UNCHANGED <<world, records, next, joint, orders, marks, events>>

-----------------------------------------------------------------------------
(* _run_autonomous_suite, and a turn of the chat.                          *)

Pin ==
  /\ At("pin") /\ job' = [job EXCEPT !.pc = "agents", !.at = save]
  /\ UNCHANGED <<world, records, reviews, joint, orders, marks, events>>

(* A model starts work with an order made on the pinned save, while that   *)
(* is the newest one; a recruitment does not ask whether one is pending.   *)
AgentOrders(w) ==
  /\ At("agents") /\ mode = "execute" /\ ~stop /\ job.at = save
  /\ ~Pending(w) \/ w = "army"
  /\ Event
  /\ work' = [work EXCEPT ![w] = [phase |-> IF w = "fleet" THEN "template" ELSE "waiting",
                                  acted |-> job.at, checked |-> NoSave]]
  /\ attempts' = [attempts EXCEPT ![w] = NoSave]
  /\ UNCHANGED <<world, consumed, reviews, joint, orders, marks, job>>

(* The economy turn notes when it is to be repeated, or it fails.          *)
AgentsDone ==
  /\ At("agents")
  /\ \E recorded \in BOOLEAN :
       /\ job' = [job EXCEPT !.recorded = recorded,
                             !.pc = IF job.kind = "round" THEN "joint" ELSE "coalesce"]
       /\ next' = IF recorded THEN [source |-> months[job.at], due |-> months[job.at] + Interval]
                  ELSE next
  /\ UNCHANGED <<world, records, reviewed, joint, orders, marks, events>>

(* run_if_due: the first round only sets the schedule.                     *)
JointNotDue ==
  /\ At("joint") /\ Goto("reviewed")
  /\ \/ jointDue = 0 /\ jointDue' = months[job.at] + JointInterval
     \/ jointDue > months[job.at] /\ UNCHANGED jointDue
  /\ UNCHANGED <<world, records, reviews, owed, owedAt, orders, marks, events>>

JointAnswer ==
  /\ At("joint") /\ jointDue # 0 /\ jointDue <= months[job.at]
  /\ Goto("queue")
  /\ owed' \in SUBSET Domains
  /\ owedAt' = months[job.at]
  /\ UNCHANGED <<world, records, reviews, jointDue, orders, marks, events>>

QueueDirective(d) ==
  /\ At("queue") /\ d \in owed
  /\ owed' = owed \ {d}
  /\ UNCHANGED <<world, records, reviews, jointDue, owedAt, orders, marks, events, job>>

\* Defect: a review that failed is not due before the next interval.
RetryNextTime == months[job.at] + JointInterval + 1

RetryMonth == months[job.at] + 1

(* No answer, an answer that cannot be used, or a directive that cannot be *)
(* queued: the whole review is due again next month.                       *)
JointFails ==
  /\ \/ At("joint") /\ jointDue # 0 /\ jointDue <= months[job.at]
     \/ At("queue") /\ owed # {}
  /\ Goto("reviewed") /\ jointDue' = RetryMonth
  /\ owedAt' = months[job.at]
  /\ UNCHANGED <<world, records, reviews, owed, orders, marks, events>>

(* _advance_due: the first boundary that is not in the past.               *)
Advanced(due, by, now) == due + by * ((now - due) \div by + 1)

JointDone ==
  /\ At("queue") /\ owed = {} /\ Goto("reviewed")
  /\ jointDue' = Advanced(jointDue, JointInterval, months[job.at])
  /\ UNCHANGED <<world, records, reviews, owed, owedAt, orders, marks, events>>

NoteReviewed ==
  /\ At("reviewed") /\ Goto("coalesce")
  /\ reviewed' = job.at
  /\ UNCHANGED <<world, records, next, joint, orders, marks, events>>

\* Defect: the boundaries crossed during the turn are not skipped.
DueAsRecorded == next.due

(* coalesce_next_review_after_turn.                                        *)
CoalescedDue ==
  IF job.recorded /\ next.due <= months[save]
  THEN Advanced(next.due, Interval, months[save]) ELSE next.due

Coalesce ==
  /\ At("coalesce") /\ Over
  /\ next' = [next EXCEPT !.due = CoalescedDue]
  /\ floor' = IF job.recorded THEN save ELSE IF job.kind = "round" THEN job.at ELSE floor
  /\ UNCHANGED <<world, records, reviewed, joint, orders, crossed, struck, events>>

-----------------------------------------------------------------------------
Continuation ==
  \/ Probe \/ ReadFleet \/ ReadArmy \/ ReadCampaign
  \/ SendConfirmed \/ SendUnconfirmed \/ Refused \/ RecordOrder \/ Consume \/ Close

Round ==
  \/ Pin \/ AgentsDone \/ JointNotDue \/ JointAnswer \/ JointFails \/ JointDone
  \/ NoteReviewed \/ Coalesce
  \/ \E d \in Domains : QueueDirective(d)

Next ==
  \/ Upload \/ Age \/ SaveSettings \/ EmergencyStop \/ ClearStop \/ Crash
  \/ StartContinuation \/ StartRound \/ StartChat
  \/ Continuation \/ Round
  \/ \E w \in Works : AgentOrders(w)

(* The scheduler polls, and finds the job slot free again and again though *)
(* the player writes messages; a job ends.                                 *)
Spec ==
  /\ Init /\ [][Next]_vars
  /\ SF_vars(StartContinuation) /\ SF_vars(StartRound)
  /\ WF_vars(Continuation) /\ WF_vars(Round)

-----------------------------------------------------------------------------
(* ARCHITECTURE.md: each save leads to at most one continuation that       *)
(* changes the game, whatever work is pending, is restarted by a model or  *)
(* fails; except for a save that arrives while a continuation runs, which  *)
(* is not the one noted, and one whose job a crash ended.                  *)
(* (probe_save_continuations and run_save_continuations.)                  *)
OneOrderPerSave == \A s \in Saves \ (crossed \cup struck) : confirmed[s] <= 1

(* FLEET_OPERATIONS.md: work is tried once on a save.  A crash between the *)
(* order and its record changes nothing about it, for the attempt is noted *)
(* before; a save that arrives meanwhile is again not the one noted.       *)
(* (run_save_continuations, the attempts.)                                 *)
TriedOncePerSave == \A s \in Saves \ crossed, w \in Works : sent[w][s] <= 1

(* No round is spent on a save that is out of date by a continuation's own *)
(* order, also when that save arrived while the continuation ran and the   *)
(* job notes another one.  (_run_save_continuation_job, blocks_autonomy.)  *)
RoundsSeeOrders ==
  [][At("pin") /\ job'.pc = "agents" => save \in struck \/ confirmed[save] = 0]_vars

(* Rounds move on: a save that a round was spent on, or that was there     *)
(* when a round ended with a new date, is not reviewed afterwards, unless  *)
(* the player changes the settings or a crash ended the round.             *)
(* (_record_turn_completion and coalesce_next_review_after_turn.)          *)
RoundsMoveOn ==
  [][At("pin") /\ job'.pc = "agents" => save > floor]_vars

(* A directive the last joint review decided on and did not queue is not   *)
(* lost: the review is due again in the next month at the latest, though   *)
(* queueing fails half way or the process dies.  (run_if_due.)             *)
OwedIsDue == owed # {} => At("queue") \/ jointDue <= owedAt + 1

(* When no save comes any more, the newest one has been given to all work  *)
(* that waits for it, however old it is; and it has been reviewed, unless  *)
(* it is not due, work that has looked at it holds rounds back, or it grew *)
(* too old before the job slot came free: the console then waits for the   *)
(* next save.  (_autonomy_loop, autonomy_probe.)                           *)
NewestIsServed ==
  []<>(/\ DueWorks = {}
       /\ Blocked \/ stale \/ ~DueSave)
===============================================================================
