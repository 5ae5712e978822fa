------------------------------ MODULE PlanBook ------------------------------
(***************************************************************************)
(* One Application's executable plan (src/src/iag/core/application_plan.py,*)
(* class ApplicationPlanBook): a graph of nodes with conditions on watched *)
(* facts, edited by revision, evaluated against a snapshot of the facts,   *)
(* and advanced one deterministic action at a time.                        *)
(*                                                                         *)
(* Every public method runs under the plan lock shared by all books of the *)
(* same conversation, so create, edit, accept, queue, complete and evaluate*)
(* are one step each; execute_due_action is split in PlanTurns, where the  *)
(* game can change between its parts.                                      *)
(*                                                                         *)
(* A condition is the fact it reads and the set of observations it accepts:*)
(* that is all the rest of the book sees of the thirteen operators.  An    *)
(* observation is a value or Absent (the path is missing); Null is the     *)
(* value of a path that is present and null.                               *)
(***************************************************************************)
EXTENDS Integers, FiniteSets, Sequences

CONSTANTS
  Nodes,      \* node_id values; their order is the order of plan["nodes"]
  Facts,      \* fact paths
  Values,     \* observations of a fact, Absent and Null included
  Absent,     \* the observation "not in facts"
  Null,       \* the observation "present and null"
  NoVal,      \* no observation recorded: never watched, or no waiver
  PlanIds,    \* plan_id values
  Drafts,     \* the node graphs a model may create a plan with
  NodeDocs,   \* the node documents a draft or an upsert may contain
  Reviews,    \* review_id values of joint-review directives
  InboxLimit  \* directives kept (20 in the code)

Conditions == [fact: Facts, pass: SUBSET Values]

Statuses     == {"planned", "active", "completed", "blocked", "cancelled"}
PlanStatuses == {"none", "active", "completed", "suspended", "cancelled"}
Kinds        == {"expectation_failed", "stop_condition_met"}

NodeDoc == [status: Statuses, parent: SUBSET Nodes, deps: SUBSET Nodes,
            activation: SUBSET Conditions, expect: SUBSET Conditions,
            stop: SUBSET Conditions, complete: SUBSET Conditions,
            policy: {"deterministic", "model_on_activation"},
            cadence: {"no_action", "once", "each_state_change"},
            mode: {"after_success", "wait_for_conditions"}]

ASSUME PlanAssumption ==
  /\ Nodes \subseteq Nat /\ InboxLimit \in Nat \ {0}
  /\ {Absent, Null} \subseteq Values /\ Absent # Null /\ NoVal \notin Values
  /\ NodeDocs \subseteq NodeDoc /\ PlanIds # {}
  /\ \A d \in Drafts : DOMAIN d \subseteq Nodes /\ d \in [DOMAIN d -> NodeDocs]

VARIABLES
  plan,       \* the document under the state key: id, status, revision, nodes, resume
  rt,         \* plan["runtime"]
  inbox       \* queued review directives, oldest first

bookVars == <<plan, rt, inbox>>

NoFacts   == [f \in Facts |-> NoVal]
NoWaivers == [n \in Nodes |-> [k \in Kinds |-> NoFacts]]

FreshRuntime ==
  [evaluated |-> FALSE, last |-> NoFacts, factRev |-> 0, waivers |-> NoWaivers,
   acted |-> {}, actedRev |-> [n \in Nodes |-> 0], provisional |-> {}]

NoPlan == [id |-> CHOOSE p \in PlanIds : TRUE, status |-> "none", rev |-> 0,
           nodes |-> <<>>, resume |-> {}]

BookInit == plan = NoPlan /\ rt = FreshRuntime /\ inbox = <<>>

-----------------------------------------------------------------------------
(* The graph.                                                              *)

Refs(doc) == doc.deps \cup doc.parent

(* _dependents: the least set with the seeds that is closed under being a  *)
(* child or a dependent of a member.                                       *)
Dependents(g, seeds) ==
  {n \in DOMAIN g : \A S \in SUBSET DOMAIN g :
     seeds \subseteq S /\ (\A m \in DOMAIN g : Refs(g[m]) \cap S # {} => m \in S) => n \in S}

(* _validate_graph: every reference resolves, and some node of every       *)
(* non-empty set refers to no other node of the set (there is no cycle).   *)
ValidGraph(g) ==
  /\ \A n \in DOMAIN g : Refs(g[n]) \subseteq DOMAIN g
  /\ \A S \in SUBSET DOMAIN g : S # {} => \E n \in S : Refs(g[n]) \cap S = {}

-----------------------------------------------------------------------------
(* create, edit, and the inbox.                                            *)

Create(p, d) ==
  /\ plan.status \notin {"active", "suspended"}
  /\ ValidGraph(d)
  /\ plan' = [id |-> p, status |-> "active", rev |-> 1, nodes |-> d, resume |-> {}]
  /\ rt' = FreshRuntime
  /\ UNCHANGED inbox

\* Defect: an edit may replace a node that is already completed.
MayReplaceAny(g, n) == TRUE

(* A completed node is neither removed nor replaced by an edit.            *)
MayReplace(g, n) == n \in DOMAIN g => g[n].status # "completed"

SameRevision(id, rev) == plan.status # "none" /\ id = plan.id /\ rev = plan.rev

(* The graph after an edit: removed nodes go, invalidated ones are blocked *)
(* unless completed, upserted ones are added or replaced.                  *)
Edited(g, invalid, remove, ups) ==
  [n \in (DOMAIN g \ remove) \cup DOMAIN ups |->
     IF n \in DOMAIN ups THEN ups[n]
     ELSE IF n \in invalid /\ g[n].status # "completed"
          THEN [g[n] EXCEPT !.status = "blocked"]
          ELSE g[n]]

(* Popping runtime["nodes"][n]: what the book remembered of an action.     *)
Forgetting(r, ns) ==
  [r EXCEPT !.acted = @ \ ns, !.provisional = @ \ ns,
            !.actedRev = [n \in Nodes |-> IF n \in ns THEN 0 ELSE @[n]]]

Edit(id, rev, invalidate, preserve, remove, ups, resume, status) ==
  LET g       == plan.nodes
      invalid == Dependents(g, invalidate) \ remove
      after   == Edited(g, invalid, remove, ups)
  IN /\ SameRevision(id, rev)
     /\ invalidate \cup preserve \cup remove \subseteq DOMAIN g
     /\ (invalidate \cup invalid \cup remove) \cap preserve = {}
     /\ \A n \in remove : MayReplace(g, n)
     /\ \A n \in DOMAIN ups : n \notin remove => MayReplace(g, n)
     /\ ValidGraph(after)
     /\ resume \subseteq DOMAIN after
     /\ plan' = [plan EXCEPT !.nodes = after, !.rev = @ + 1, !.resume = resume,
                             !.status = status]
     /\ rt' = Forgetting(rt, invalid \cup remove \cup DOMAIN ups)
     /\ UNCHANGED inbox

Queued(q) == {q[i] : i \in DOMAIN q}

(* queue_external_review: once per review_id, and only the last InboxLimit *)
(* directives are kept.                                                    *)
QueueReview(r) ==
  /\ inbox' = IF r \in Queued(inbox) THEN inbox
              ELSE LET q == Append(inbox, r)
                   IN IF Len(q) > InboxLimit THEN Tail(q) ELSE q
  /\ UNCHANGED <<plan, rt>>

\* Defect: completing one turn's reviews empties the inbox.
EmptiedInbox(rs) == <<>>

(* The directives of q that are not among rs, in their order.              *)
Without(q, rs) ==
  LET kept[k \in 0 .. Len(q)] ==
        IF k = 0 THEN <<>>
        ELSE IF q[k] \in rs THEN kept[k - 1] ELSE Append(kept[k - 1], q[k])
  IN kept[Len(q)]

RemainingInbox(rs) == Without(inbox, rs)

CompleteReviews(rs) ==
  /\ inbox' = RemainingInbox(rs)
  /\ UNCHANGED <<plan, rt>>

-----------------------------------------------------------------------------
(* Conditions, seen through one snapshot of the facts.                     *)

Holds(c, facts) == facts[c.fact] \in c.pass
AllHold(cs, facts) == \A c \in cs : Holds(c, facts)

WatchedBy(doc) ==
  {c.fact : c \in doc.activation \cup doc.expect \cup doc.stop \cup doc.complete}

Watched(g) == UNION {WatchedBy(g[n]) : n \in DOMAIN g}

ChangedFacts(g, r, facts) == {f \in Watched(g) : r.last[f] # facts[f]}

(* _waiver_matches: the observation a failure was accepted for.  With no   *)
(* waiver at all the comparison is still made, against None.               *)
WaiverMatches(w, seen) == IF w = NoVal THEN seen = Null ELSE w = seen

(* What a node in charge is held to: <<kind, condition>> pairs that fail   *)
(* and are not waived at the value observed.                               *)
Failures(r, n, doc, facts) ==
  {<<"expectation_failed", c>> : c \in {e \in doc.expect : ~Holds(e, facts)}}
  \cup {<<"stop_condition_met", c>> : c \in {e \in doc.stop : Holds(e, facts)}}

Unwaived(r, n, doc, facts) ==
  {f \in Failures(r, n, doc, facts) :
     ~WaiverMatches(r.waivers[n][f[1]][f[2].fact], facts[f[2].fact])}

DepsComplete(g, n) == \A d \in g[n].deps : g[d].status = "completed"

-----------------------------------------------------------------------------
(* evaluate(): r is the runtime, seen the snapshot: its facts, and what it *)
(* says of the run a node submitted ("confirmed", "rejected", "pending").  *)

\* Defect: a provisional action is only looked at when a fact changes.
ProvisionalIgnored(r) == {}

AlwaysReconsidered(r) == r.provisional

(* Nodes whose facts changed (all of them the first time) or that await    *)
(* confirmation, with everything that hangs below them.                    *)
Affected(g, r, facts) ==
  Dependents(g, {n \in DOMAIN g : \/ ~r.evaluated
                                  \/ WatchedBy(g[n]) \cap ChangedFacts(g, r, facts) # {}}
                \cup (AlwaysReconsidered(r) \cap DOMAIN g))

(* The nodes the loop works on: affected, open, and startable or started.  *)
Engaged(g, r, facts) ==
  {n \in Affected(g, r, facts) :
     \/ g[n].status = "active"
     \/ g[n].status = "planned" /\ DepsComplete(g, n) /\ AllHold(g[n].activation, facts)}

Says(r, seen, n) == IF n \in r.provisional THEN seen.outcome[n] ELSE "none"

RejectedNodes(g, r, seen) ==
  {n \in Engaged(g, r, seen.facts) : Says(r, seen, n) = "rejected"}

ConfirmedNodes(g, r, seen) ==
  {n \in Engaged(g, r, seen.facts) : Says(r, seen, n) = "confirmed"}

(* Confirmed by the save, and nothing else to wait for.                    *)
ClosedBySave(g, r, seen) ==
  {n \in ConfirmedNodes(g, r, seen) :
     g[n].cadence # "no_action" /\ g[n].mode = "after_success" /\ g[n].complete = {}}

FailingNodes(g, r, seen) ==
  {n \in Engaged(g, r, seen.facts) \ (RejectedNodes(g, r, seen) \cup ClosedBySave(g, r, seen)) :
     Unwaived(r, n, g[n], seen.facts) # {}}

Anomalous(g, r, seen) == RejectedNodes(g, r, seen) \cup FailingNodes(g, r, seen)

Finished(g, r, seen) ==
  ClosedBySave(g, r, seen)
  \cup {n \in Engaged(g, r, seen.facts) \ Anomalous(g, r, seen) :
          g[n].complete # {} /\ AllHold(g[n].complete, seen.facts)}

(* Statuses after the loop; they are saved even when there is an anomaly.  *)
Advanced(g, r, seen) ==
  [n \in DOMAIN g |->
     IF n \in Finished(g, r, seen) THEN [g[n] EXCEPT !.status = "completed"]
     ELSE IF n \in Engaged(g, r, seen.facts) THEN [g[n] EXCEPT !.status = "active"]
     ELSE g[n]]

Remembered(g, facts) == [f \in Facts |-> IF f \in Watched(g) THEN facts[f] ELSE NoVal]

(* Nodes that could act or decide now, whether or not a fact of theirs     *)
(* changed; dependencies count as complete only if they were before.       *)
Runnable(g, r, seen) ==
  {n \in DOMAIN g : /\ Advanced(g, r, seen)[n].status \in {"planned", "active"}
                    /\ DepsComplete(g, n)
                    /\ AllHold(g[n].activation, seen.facts)}

Deciding(g, r, seen) == {n \in Runnable(g, r, seen) : g[n].policy = "model_on_activation"}

NextFactRev(g, r, facts) == r.factRev + (IF ChangedFacts(g, r, facts) # {} THEN 1 ELSE 0)

\* Defect: the record of the last action is not consulted.
ActsAgain(g, r, facts, n) == TRUE

(* The cadence rules for a node that has run before.                       *)
MayActAgain(g, r, facts, n) ==
  \/ n \notin r.acted
  \/ /\ g[n].cadence = "each_state_change"
     /\ ChangedFacts(g, r, facts) # {}
     /\ r.actedRev[n] # NextFactRev(g, r, facts)

Due(g, r, seen) ==
  {n \in Runnable(g, r, seen) \ Deciding(g, r, seen) :
     g[n].cadence # "no_action" /\ MayActAgain(g, r, seen.facts, n)}

(* due_nodes[:1]: the resume point goes first, then plan order.            *)
FirstDue(due, resume) ==
  IF due \cap resume # {} THEN due \cap resume ELSE {n \in due : \A m \in due : n <= m}

(* What evaluate() returns: the first of these that applies.                *)
Decision(g, r, seen) ==
  IF Queued(inbox) # {} THEN "external_review"
  ELSE IF plan.status # "active" THEN "no_active_plan"
  ELSE IF Anomalous(g, r, seen) # {} THEN "localized_anomaly"
  ELSE IF Deciding(g, r, seen) # {} THEN "model_decision"
  ELSE IF Due(g, r, seen) # {} THEN "execute"
  ELSE "continue"

(* What evaluate() saves.  An anomaly leaves the fact revision as it was.  *)
Evaluate(seen) ==
  LET g   == plan.nodes
      dec == Decision(g, rt, seen)
  IN IF dec \in {"external_review", "no_active_plan"}
     THEN UNCHANGED bookVars
     ELSE /\ plan' = [plan EXCEPT !.nodes = Advanced(g, rt, seen)]
          /\ rt' = [rt EXCEPT !.evaluated = TRUE,
                              !.last = Remembered(g, seen.facts),
                              !.provisional = @ \ ConfirmedNodes(g, rt, seen),
                              !.factRev = IF dec = "localized_anomaly" THEN @
                                          ELSE NextFactRev(g, rt, seen.facts)]
          /\ UNCHANGED inbox

(* accept_localized_anomaly: waive what was observed, for every failure    *)
(* reported; a rejection by the save cannot be waived.                     *)
AcceptAnomaly(id, report, rejected) ==
  /\ plan.status # "none" /\ id = plan.id
  /\ rejected = {}
  /\ rt' = [rt EXCEPT !.waivers =
              [n \in Nodes |-> [k \in Kinds |-> [f \in Facts |->
                 LET seen == {x.value : x \in {y \in report : y.node = n /\ y.kind = k /\ y.fact = f}}
                 IN IF seen # {} THEN CHOOSE v \in seen : TRUE ELSE @[n][k][f]]]]]
  /\ UNCHANGED <<plan, inbox>>

(* The last part of execute_due_action: the result is written into the     *)
(* document as it is now, found by node_id.                                *)
RecordAction(n, provisional) ==
  /\ rt' = [rt EXCEPT !.acted = @ \cup {n}, !.actedRev[n] = rt.factRev,
                      !.provisional = IF provisional THEN @ \cup {n} ELSE @ \ {n}]
  /\ plan' = IF n \in DOMAIN plan.nodes
             THEN [plan EXCEPT !.nodes[n].status =
                     IF provisional THEN "active"
                     ELSE IF plan.nodes[n].mode = "after_success" THEN "completed"
                     ELSE @]
             ELSE plan
  /\ UNCHANGED inbox
=============================================================================
