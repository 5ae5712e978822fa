----------------------------- MODULE PlanTurns ------------------------------
(***************************************************************************)
(* The turns of one specialist agent around its plan book                  *)
(* (src/src/iag/applications/specialist_conversation_agent.py, run_turn,   *)
(* src/src/iag/applications/plan_advisor.py, and execute_due_action): an   *)
(* autonomous turn pins a snapshot, evaluates the plan and executes,       *)
(* consults the fast adviser or calls the main model; a chat turn edits    *)
(* the same plan, new saves arrive at any time, and the process may die    *)
(* between any two steps.                                                  *)
(*                                                                         *)
(* The plan book promises to be safe under concurrent editors (its lock    *)
(* and its revision checks); the console that ships with it starts a chat  *)
(* turn only between autonomous rounds (_start_job). The constant          *)
(* Concurrent chooses between the two.                                     *)
(***************************************************************************)
EXTENDS PlanBook

CONSTANTS
  Upserts,        \* sets of node documents an editor may write, as functions
  Snapshots,      \* what a new save may say of the watched facts
  MaxSaves,       \* bound: saves that arrive
  MaxRevision,    \* bound: edits of one plan
  MaxPlans,       \* bound: plans that are created
  Resumes,        \* the resume points the chat may set, as sets of at most one node
  MayCrash,       \* whether the process may die and be restarted
  AdviserOn,      \* whether a fast adviser profile is configured
  Concurrent      \* whether the chat may edit while a turn runs, as the book allows

ASSUME TurnAssumption ==
  /\ Snapshots \subseteq [Facts -> Values] /\ Snapshots # {}
  /\ MaxSaves \in Nat /\ MaxRevision \in Nat /\ MaxPlans \in Nat
  /\ \A u \in Upserts : DOMAIN u \subseteq Nodes /\ u \in [DOMAIN u -> NodeDocs]
  /\ \A r \in Resumes : r \subseteq Nodes /\ Cardinality(r) <= 1
  /\ MayCrash \in BOOLEAN /\ AdviserOn \in BOOLEAN /\ Concurrent \in BOOLEAN

VARIABLES
  world,      \* the latest save: number, facts, fate of the submitted runs
  turn,       \* the autonomous turn
  chat,       \* plan identity and revision the chat turn last read
  made,       \* history: how many plans have been created
  mistaken    \* history: an action of an earlier plan was started on this one

turnVars == <<world, turn, chat>>
history  == <<made, mistaken>>
vars == <<plan, rt, inbox, world, turn, chat, history>>

Fates == {"pending", "confirmed", "rejected"}
Worlds == [save: 0..MaxSaves, facts: [Facts -> Values], outcome: [Nodes -> Fates]]

Decisions == {"external_review", "no_active_plan", "localized_anomaly", "model_decision",
              "execute", "continue"}
PCs == {"idle", "evaluate", "act", "prepared", "executing", "in_game", "advise", "model"}

\* The failures an evaluation reports, reduced to what a waiver keeps.
Reports == [node: Nodes, kind: Kinds, fact: Facts, value: Values]

\* Between turns nothing of the last one is left in memory.
Idle == [pc |-> "idle", decision |-> "continue", id |-> NoPlan.id, rev |-> 0,
         seen |-> [save |-> 0, facts |-> CHOOSE f \in Snapshots : TRUE,
                   outcome |-> [n \in Nodes |-> "pending"]],
         due |-> {}, report |-> {}, rejected |-> {}, invalid |-> {}, reviews |-> {},
         made |-> 0]

Init ==
  /\ BookInit
  /\ \E f \in Snapshots :
       world = [save |-> 0, facts |-> f, outcome |-> [n \in Nodes |-> "pending"]]
  /\ turn = Idle
  /\ chat = [id |-> plan.id, rev |-> 0]
  /\ made = 0 /\ mistaken = FALSE

-----------------------------------------------------------------------------
(* Nodes whose last run still waits for a verdict of the save.             *)
Submitted == rt.provisional \cup (IF turn.pc = "in_game" THEN turn.due ELSE {})

(* The game uploads a save: facts move, and a submitted run may turn out   *)
(* confirmed or rejected.                                                  *)
NewSave ==
  /\ world.save < MaxSaves
  /\ \E f \in Snapshots, fate \in [Nodes -> Fates] :
       /\ \A n \in Nodes \ Submitted : fate[n] = "pending"
       /\ world' = [save |-> world.save + 1, facts |-> f, outcome |-> fate]
  /\ UNCHANGED <<plan, rt, inbox, turn, chat, history>>

(* While execute_due_action runs, the plan lock is held.                   *)
PlanUnlocked == turn.pc \notin {"prepared", "executing", "in_game"}

(* _start_job refuses a second job while one runs.                         *)
EditorMayAct == PlanUnlocked /\ (Concurrent \/ turn.pc = "idle")

(* The joint review delivers a directive to this Application.              *)
Deliver(r) ==
  /\ EditorMayAct
  /\ QueueReview(r)
  /\ UNCHANGED <<history, turnVars>>

-----------------------------------------------------------------------------
(* The chat turn: it inspects the plan, and later edits or creates one.    *)

ChatInspect ==
  /\ chat' = [id |-> plan.id, rev |-> plan.rev]
  /\ UNCHANGED <<plan, rt, inbox, world, turn, history>>

(* A model chooses the plan id; nothing in create() compares it with the   *)
(* ids of earlier plans, and every plan starts at revision 1.              *)
NewPlan(p, d) ==
  /\ made < MaxPlans
  /\ Create(p, d)
  /\ made' = made + 1 /\ mistaken' = FALSE

ChatCreate ==
  /\ EditorMayAct
  /\ \E p \in PlanIds, d \in Drafts : NewPlan(p, d)
  /\ UNCHANGED turnVars

ChatEdit ==
  /\ EditorMayAct
  /\ chat.rev < MaxRevision
  /\ \E inv, remove \in SUBSET DOMAIN plan.nodes, ups \in Upserts,
        resume \in Resumes,
        status \in {plan.status, "suspended", "active", "completed"} :
       Edit(chat.id, chat.rev, inv, {}, remove, ups, resume, status)
  /\ UNCHANGED <<history, turnVars>>

-----------------------------------------------------------------------------
(* The autonomous turn.                                                    *)

Goto(pc) == turn' = [turn EXCEPT !.pc = pc]

EndTurn == turn' = Idle

(* run_turn: the toolbox is built on the snapshot the round was given.     *)
BeginTurn ==
  /\ turn.pc = "idle"
  /\ turn' = [turn EXCEPT !.pc = "evaluate", !.seen = world]
  /\ UNCHANGED <<plan, rt, inbox, world, chat, history>>

(* evaluate() and the branch run_turn takes on its decision.               *)
EvaluateTurn ==
  /\ turn.pc = "evaluate"
  /\ LET g   == plan.nodes
         dec == Decision(g, rt, turn.seen)
         bad == Anomalous(g, rt, turn.seen)
     IN turn' = [turn EXCEPT
          !.pc = CASE dec \in {"continue", "execute"} -> "act"
                   [] dec = "localized_anomaly" -> "advise"
                   [] OTHER -> "model",
          !.decision = dec, !.id = plan.id, !.rev = plan.rev, !.made = made,
          !.due = IF dec = "execute" THEN FirstDue(Due(g, rt, turn.seen), plan.resume) ELSE {},
          !.report = {r \in Reports :
             /\ r.node \in FailingNodes(g, rt, turn.seen)
             /\ r.value = turn.seen.facts[r.fact]
             /\ \E f \in Unwaived(rt, r.node, g[r.node], turn.seen.facts) :
                  f[1] = r.kind /\ f[2].fact = r.fact},
          !.rejected = IF dec = "localized_anomaly" THEN RejectedNodes(g, rt, turn.seen) ELSE {},
          !.invalid = IF dec = "localized_anomaly" THEN Dependents(g, bad) ELSE {},
          !.reviews = IF dec = "external_review" THEN Queued(inbox) ELSE {}]
  /\ Evaluate(turn.seen)
  /\ UNCHANGED <<world, chat, history>>

\* Defect: the plan may have been edited since it was evaluated.
EvaluatedOnce == TRUE

SamePlanAsEvaluated ==
  plan.status # "none" /\ plan.id = turn.id /\ plan.rev = turn.rev

\* Another plan has taken the place of the one evaluated, maybe under its id.
Replaced == turn.made # made

(* assert_world_snapshot_current.                                          *)
SnapshotCurrent == turn.seen.save = world.save

(* execute_due_action with nothing due, or up to the prepare tool.         *)
ActContinue ==
  /\ turn.pc = "act" /\ turn.decision = "continue"
  /\ EndTurn
  /\ UNCHANGED <<plan, rt, inbox, world, chat, history>>

ActPrepare ==
  /\ turn.pc = "act" /\ turn.decision = "execute"
  /\ SamePlanAsEvaluated /\ SnapshotCurrent
  /\ Goto("prepared")
  /\ mistaken' = (mistaken \/ Replaced)
  /\ UNCHANGED <<plan, rt, inbox, world, chat, made>>

(* The second look at the snapshot, after the preparation.                 *)
ActCommit ==
  /\ turn.pc = "prepared"
  /\ SnapshotCurrent
  /\ Goto("executing")
  /\ UNCHANGED <<plan, rt, inbox, world, chat, history>>

(* The execute tool changes the game; a save may have come in meanwhile.   *)
ActExecute ==
  /\ turn.pc = "executing"
  /\ Goto("in_game")
  /\ UNCHANGED <<plan, rt, inbox, world, chat, history>>

(* In advisory mode the due action is reported, not run.                   *)
ActAdvisory ==
  /\ turn.pc = "act" /\ turn.decision = "execute"
  /\ SamePlanAsEvaluated
  /\ EndTurn
  /\ UNCHANGED <<plan, rt, inbox, world, chat, history>>

(* Any error: a changed revision, a stale snapshot, a refused preparation, *)
(* a tool that reports failure - also one that did change the game.        *)
ActError ==
  /\ turn.pc \in {"act", "prepared", "executing", "in_game"} /\ turn.decision = "execute"
  /\ Goto("model")
  /\ UNCHANGED <<plan, rt, inbox, world, chat, history>>

(* The caller learns whether the change is confirmed or awaits a save.     *)
ActRecord ==
  /\ turn.pc = "in_game"
  /\ \E n \in turn.due, provisional \in BOOLEAN : RecordAction(n, provisional)
  /\ EndTurn
  /\ UNCHANGED <<world, chat, history>>

(* The fast adviser accepts the deviation, or patches the branch it was    *)
(* shown, or hands over to the main model; without a profile, and on any   *)
(* error, the main model is next.                                          *)
AdviserContinues ==
  /\ turn.pc = "advise" /\ AdviserOn
  /\ AcceptAnomaly(turn.id, turn.report, turn.rejected)
  /\ EndTurn
  /\ UNCHANGED <<world, chat, history>>

(* _scoped_patch: changed nodes lie in the affected branch, and new ones   *)
(* are children of it (or of what it hangs from) and depend on nothing     *)
(* else.                                                                   *)
PatchInScope(inv, remove, ups, resume) ==
  LET g       == plan.nodes
      fresh   == DOMAIN ups \ DOMAIN g
      anchors == UNION {Refs(g[n]) : n \in turn.invalid \cap DOMAIN g}
      allowed == turn.invalid \cup fresh \cup anchors
  IN /\ inv \cup remove \cup (DOMAIN ups \cap DOMAIN g) \subseteq turn.invalid
     /\ \A n \in fresh : ups[n].parent # {} /\ Refs(ups[n]) \subseteq allowed
     /\ resume \subseteq allowed

AdviserPatches ==
  /\ turn.pc = "advise" /\ AdviserOn /\ turn.rev < MaxRevision
  /\ \E inv, remove \in SUBSET DOMAIN plan.nodes, ups \in Upserts, resume \in Resumes :
       /\ PatchInScope(inv, remove, ups, resume)
       /\ Edit(turn.id, turn.rev, inv, {}, remove, ups, resume, plan.status)
  /\ EndTurn
  /\ UNCHANGED <<world, chat, history>>

AdviserEscalates ==
  /\ turn.pc = "advise"
  /\ Goto("model")
  /\ UNCHANGED <<plan, rt, inbox, world, chat, history>>

(* The main model may edit the plan, with the revision it was told.        *)
ModelEdits ==
  /\ turn.pc = "model" /\ turn.rev < MaxRevision
  /\ \E inv, remove \in SUBSET DOMAIN plan.nodes, ups \in Upserts, resume \in Resumes :
       Edit(turn.id, turn.rev, inv, {}, remove, ups, resume, plan.status)
  /\ turn' = [turn EXCEPT !.rev = @ + 1]
  /\ UNCHANGED <<world, chat, history>>

(* A turn without plan context may create one.                             *)
ModelCreates ==
  /\ turn.pc = "model" /\ turn.decision = "no_active_plan"
  /\ \E p \in PlanIds, d \in Drafts :
       /\ NewPlan(p, d)
       /\ turn' = [turn EXCEPT !.id = p, !.rev = 1]
  /\ UNCHANGED <<world, chat>>

(* The model's last answer: the directives it was given are done with.     *)
ModelFinishes ==
  /\ turn.pc = "model"
  /\ CompleteReviews(turn.reviews)
  /\ EndTurn
  /\ UNCHANGED <<world, chat, history>>

(* The model call fails: the turn ends and the directives stay queued.     *)
ModelFails ==
  /\ turn.pc = "model"
  /\ EndTurn
  /\ UNCHANGED <<plan, rt, inbox, world, chat, history>>

(* The process dies and is started again; only the store survives.         *)
Crash ==
  /\ MayCrash /\ turn.pc # "idle"
  /\ EndTurn
  /\ UNCHANGED <<plan, rt, inbox, world, chat, history>>

TurnStep ==
  \/ BeginTurn \/ EvaluateTurn
  \/ ActContinue \/ ActAdvisory \/ ActPrepare \/ ActCommit \/ ActExecute \/ ActError \/ ActRecord
  \/ AdviserContinues \/ AdviserPatches \/ AdviserEscalates
  \/ ModelEdits \/ ModelCreates \/ ModelFinishes \/ ModelFails

Next ==
  \/ NewSave
  \/ \E r \in Reviews : Deliver(r)
  \/ ChatInspect \/ ChatCreate \/ ChatEdit
  \/ TurnStep
  \/ Crash

Spec == Init /\ [][Next]_vars

-----------------------------------------------------------------------------
\* The action of node n reaches the game.
Acts(n) == turn.pc = "executing" /\ turn'.pc = "in_game" /\ n \in turn.due

(* When a tool finally changes the game, the plan as it is now - whatever   *)
(* the chat turn has done since the evaluation - is active and still has    *)
(* the node open with its dependencies complete; and when the tool was      *)
(* called, the latest save met the node's activation conditions             *)
(* (execute_due_action's two checks, under the plan lock).  Excepted is a   *)
(* plan with the id and the revision of the one it replaced after the       *)
(* evaluation: the check takes it for that one.                             *)
ActsOnCurrentPlan ==
  [][~mistaken =>
     /\ \A n \in Nodes : Acts(n) =>
          /\ plan.status = "active"
          /\ n \in DOMAIN plan.nodes
          /\ plan.nodes[n].status \in {"planned", "active"}
          /\ DepsComplete(plan.nodes, n)
     /\ turn.pc = "prepared" /\ turn'.pc = "executing" =>
          \A n \in turn.due :
            n \in DOMAIN plan.nodes /\ AllHold(plan.nodes[n].activation, world.facts)]_vars

(* Whatever is edited, by whom and with which node documents, the plan      *)
(* graph keeps every reference resolved and has no cycle (_validate_graph). *)
PlanGraphSound ==
  LET g == plan.nodes
  IN /\ \A n \in DOMAIN g : g[n].deps \cup g[n].parent \subseteq DOMAIN g
     /\ \A S \in SUBSET DOMAIN g :
          S # {} => \E n \in S : (g[n].deps \cup g[n].parent) \cap S = {}

(* Within one plan a completed node is never changed, reopened or removed   *)
(* by edits, patches, evaluations or late action results - those of its own *)
(* actions, not of a plan it was mistaken for.                              *)
CompletedStays ==
  [][\A n \in DOMAIN plan.nodes :
       plan.nodes[n].status = "completed" /\ made' = made /\ ~mistaken =>
         n \in DOMAIN plan'.nodes /\ plan'.nodes[n] = plan.nodes[n]]_vars

(* An action recorded for cadence "once" never reaches the game again       *)
(* unless an editor has replaced or invalidated its node.                   *)
RecordedOnceStays ==
  [][\A n \in Nodes : Acts(n) /\ n \in rt.acted /\ ~mistaken => plan.nodes[n].cadence # "once"]_vars

(* While the save says that a submitted run was rejected, no node of the    *)
(* plan acts: the rejection is reported again at every evaluation until an  *)
(* edit takes the node in hand (the provisional branch of evaluate).  A     *)
(* node that its completion conditions closed meanwhile is not looked at.   *)
RejectionBlocks ==
  [][\A n \in Nodes : Acts(n) /\ ~mistaken =>
       \A m \in rt.provisional :
         turn.seen.outcome[m] = "rejected" => plan.nodes[m].status = "completed"]_vars

(* A directive of the joint review is neither lost nor passed over: it      *)
(* leaves the inbox only after a model turn was given it, or when a new one *)
(* pushes it out of a full inbox, and a turn goes on from its evaluation    *)
(* only when it is given all that are queued, whatever the plan has due.    *)
(* (complete_external_reviews, and the first branch of evaluate.)           *)
ReviewKept ==
  [][/\ \A r \in Queued(inbox) \ Queued(inbox)' :
          \/ r \in turn.reviews
          \/ Len(inbox) = InboxLimit /\ Queued(inbox)' \ Queued(inbox) # {}
     /\ turn.pc = "evaluate" /\ turn'.pc \notin {"idle", "evaluate"} =>
          Queued(inbox) \subseteq turn'.reviews]_vars

(* What accept_localized_anomaly says of runs the save rejected - they are   *)
(* never successful - with the completion conditions counted as well: no    *)
(* node acts while a completed node's own run is known to be rejected.      *)
RejectedNeverSucceeds ==
  [][\A n \in Nodes : Acts(n) =>
       \A m \in rt.provisional : turn.seen.outcome[m] # "rejected"]_vars
=============================================================================
