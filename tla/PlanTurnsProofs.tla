-------------------------- MODULE PlanTurnsProofs --------------------------
(* Theorems about PlanTurns for every set of nodes, facts, observations,     *)
(* node documents and snapshots, and any number of saves and edits.          *)
EXTENDS PlanTurns, WellFoundedInduction, TLAPS

USE DEF vars, bookVars, turnVars, history

(* The shape of every variable.                                              *)
Graph == UNION {[S -> NodeDoc] : S \in SUBSET Nodes}

PlanDoc == [id: PlanIds, status: PlanStatuses, rev: Nat, nodes: Graph, resume: SUBSET Nodes]

Observed == [Facts -> Values \cup {NoVal}]

Runtime == [evaluated: BOOLEAN, last: Observed, factRev: Nat,
            waivers: [Nodes -> [Kinds -> Observed]], acted: SUBSET Nodes,
            actedRev: [Nodes -> Nat], provisional: SUBSET Nodes]

(* The directives a turn was given have no type here: InboxInv is about them. *)
TurnDoc == [pc: PCs, decision: Decisions, id: PlanIds, rev: Nat, seen: Worlds,
            due: SUBSET Nodes, report: SUBSET Reports, rejected: SUBSET Nodes,
            invalid: SUBSET Nodes, reviews: {turn.reviews}, made: Nat]

BookShape == plan \in PlanDoc /\ rt \in Runtime

Shape == /\ BookShape /\ world \in Worlds /\ turn \in TurnDoc
         /\ chat \in [id: PlanIds, rev: Nat]
         /\ made \in Nat /\ mistaken \in BOOLEAN

(* Submitted runs belong to nodes of the plan that are open or completed.    *)
RunsKnown ==
  /\ rt.provisional \subseteq rt.acted /\ rt.acted \subseteq DOMAIN plan.nodes
  /\ \A n \in rt.provisional : plan.nodes[n].status \in {"active", "completed"}

-----------------------------------------------------------------------------
(* Lemmas about graphs.                                                      *)

LEMMA SeedsAreAffected ==
  ASSUME NEW g, NEW seeds, seeds \subseteq DOMAIN g
  PROVE  seeds \subseteq Dependents(g, seeds)
BY DEF Dependents

(* Soundness of a graph depends on its references only.                      *)
LEMMA SameReferences ==
  ASSUME NEW g, NEW h, DOMAIN h = DOMAIN g,
         \A n \in DOMAIN g : Refs(h[n]) = Refs(g[n]), ValidGraph(g)
  PROVE  ValidGraph(h)
<1>1. \A n \in DOMAIN h : Refs(h[n]) \subseteq DOMAIN h
  BY DEF ValidGraph
<1>2. ASSUME NEW S \in SUBSET DOMAIN h, S # {}
      PROVE  \E n \in S : Refs(h[n]) \cap S = {}
  <2>1. PICK n \in S : Refs(g[n]) \cap S = {}
    BY <1>2 DEF ValidGraph
  <2> QED BY <2>1
<1> QED BY <1>1, <1>2 DEF ValidGraph

LEMMA GraphShape ==
  ASSUME NEW g \in Graph
  PROVE  /\ DOMAIN g \subseteq Nodes /\ g = [n \in DOMAIN g |-> g[n]]
         /\ \A n \in DOMAIN g : g[n] \in NodeDoc
BY DEF Graph

LEMMA GraphOf ==
  ASSUME NEW S \in SUBSET Nodes, NEW g, g \in [S -> NodeDoc]
  PROVE  g \in Graph /\ DOMAIN g = S
BY DEF Graph

(* A changed status leaves the rest of a document alone.                     *)
LEMMA StatusChange ==
  ASSUME NEW doc \in NodeDoc, NEW st \in Statuses
  PROVE  /\ [doc EXCEPT !.status = st] \in NodeDoc
         /\ [doc EXCEPT !.status = st].status = st
         /\ Refs([doc EXCEPT !.status = st]) = Refs(doc)
         /\ [doc EXCEPT !.status = st].deps = doc.deps
         /\ [doc EXCEPT !.status = st].activation = doc.activation
         /\ [doc EXCEPT !.status = st].cadence = doc.cadence
BY DEF NodeDoc, Refs

(* The loop of evaluate() only changes the status of open nodes.             *)
LEMMA AdvancedGraph ==
  ASSUME NEW g \in Graph, NEW r, NEW seen
  PROVE  LET h == Advanced(g, r, seen)
         IN /\ h \in Graph /\ DOMAIN h = DOMAIN g
            /\ ValidGraph(g) => ValidGraph(h)
            /\ \A n \in DOMAIN g : /\ h[n].deps = g[n].deps
                                   /\ h[n].activation = g[n].activation
                                   /\ h[n].cadence = g[n].cadence
                                   /\ g[n].status = "completed" => h[n] = g[n]
                                   /\ g[n].status = "active" => h[n].status \in {"active", "completed"}
<1> DEFINE h == Advanced(g, r, seen)
<1>1. DOMAIN h = DOMAIN g
  BY DEF Advanced
<1>2. ASSUME NEW n \in DOMAIN g
      PROVE  /\ h[n] \in NodeDoc /\ Refs(h[n]) = Refs(g[n])
             /\ h[n].deps = g[n].deps /\ h[n].activation = g[n].activation
             /\ h[n].cadence = g[n].cadence
             /\ g[n].status = "completed" => h[n] = g[n]
             /\ g[n].status = "active" => h[n].status \in {"active", "completed"}
  <2>1. g[n] \in NodeDoc
    BY GraphShape
  <2>2. "active" \in Statuses /\ "completed" \in Statuses
    BY DEF Statuses
  <2>3. \/ h[n] = g[n]
        \/ /\ n \in Engaged(g, r, seen.facts)
           /\ \E st \in {"active", "completed"} : h[n] = [g[n] EXCEPT !.status = st]
    BY DEF Advanced, Finished, ClosedBySave, ConfirmedNodes
  <2>4. n \in Engaged(g, r, seen.facts) => g[n].status # "completed"
    BY DEF Engaged
  <2>5. CASE h[n] = g[n]
    BY <2>1, <2>5
  <2>6. ASSUME NEW st \in {"active", "completed"}, h[n] = [g[n] EXCEPT !.status = st],
               n \in Engaged(g, r, seen.facts)
        PROVE  /\ h[n] \in NodeDoc /\ Refs(h[n]) = Refs(g[n])
               /\ h[n].deps = g[n].deps /\ h[n].activation = g[n].activation
               /\ h[n].cadence = g[n].cadence
               /\ g[n].status = "completed" => h[n] = g[n]
               /\ g[n].status = "active" => h[n].status \in {"active", "completed"}
    <3>1. st \in Statuses
      BY <2>2
    <3>2. /\ h[n] \in NodeDoc /\ Refs(h[n]) = Refs(g[n]) /\ h[n].status = st
          /\ h[n].deps = g[n].deps /\ h[n].activation = g[n].activation
          /\ h[n].cadence = g[n].cadence
      BY <2>1, <3>1, <2>6, StatusChange
    <3> QED BY <3>2, <2>4, <2>6
  <2> QED BY <2>3, <2>5, <2>6
<1>3. h \in [DOMAIN g -> NodeDoc]
  <2>1. h = [n \in DOMAIN g |-> h[n]]
    BY DEF Advanced
  <2> QED BY <1>2, <2>1
<1>4. h \in Graph
  BY <1>3, GraphShape, GraphOf
<1>5. ValidGraph(g) => ValidGraph(h)
  BY <1>1, <1>2, SameReferences
<1> HIDE DEF h
<1> QED BY <1>1, <1>2, <1>4, <1>5 DEF h

-----------------------------------------------------------------------------
(* What the operations of the book keep.                                     *)

BookInv == BookShape /\ ValidGraph(plan.nodes)

LEMMA FreshRuntimeShape == FreshRuntime \in Runtime
BY DEF FreshRuntime, Runtime, NoFacts, NoWaivers, Observed

LEMMA CreateStep ==
  ASSUME BookInv, NEW p \in PlanIds, NEW d \in Drafts, Create(p, d)
  PROVE  BookInv' /\ RunsKnown' /\ plan'.rev = 1
<1>1. d \in [DOMAIN d -> NodeDoc] /\ DOMAIN d \subseteq Nodes
  BY PlanAssumption
<1>2. d \in Graph
  BY <1>1, GraphOf
<1>3. BookShape'
  BY <1>2, FreshRuntimeShape DEF Create, BookShape, PlanDoc, PlanStatuses
<1>4. ValidGraph(plan'.nodes)
  BY DEF Create
<1>5. RunsKnown'
  BY DEF Create, RunsKnown, FreshRuntime
<1> QED BY <1>3, <1>4, <1>5 DEF Create, BookInv

(* An edit replaces or blocks no completed node, and what is remembered of   *)
(* runs afterwards belongs to nodes it left alone.                           *)
LEMMA EditStep ==
  ASSUME BookInv, NEW id, NEW rev, NEW inv, NEW remove,
         NEW ups \in Upserts, NEW resume, NEW status \in PlanStatuses,
         Edit(id, rev, inv, {}, remove, ups, resume, status)
  PROVE  /\ BookInv' /\ plan.status # "none" /\ (RunsKnown => RunsKnown')
         /\ plan.id = id /\ plan.rev = rev
         /\ plan'.id = plan.id /\ plan'.rev = plan.rev + 1 /\ plan'.status = status
         /\ \A n \in DOMAIN plan.nodes :
              plan.nodes[n].status = "completed" =>
                n \in DOMAIN plan'.nodes /\ plan'.nodes[n] = plan.nodes[n]
<1> DEFINE g       == plan.nodes
           invalid == Dependents(g, inv) \ remove
           after   == Edited(g, invalid, remove, ups)
<1>1. /\ plan \in PlanDoc /\ rt \in Runtime /\ g \in Graph
      /\ DOMAIN g \subseteq Nodes
      /\ \A n \in DOMAIN g : g[n] \in NodeDoc
  BY GraphShape DEF BookInv, BookShape, PlanDoc
<1>2. /\ SameRevision(id, rev) /\ ValidGraph(after)
      /\ \A n \in remove : MayReplace(g, n)
      /\ \A n \in DOMAIN ups : n \notin remove => MayReplace(g, n)
      /\ resume \subseteq DOMAIN after
      /\ plan' = [plan EXCEPT !.nodes = after, !.rev = @ + 1, !.resume = resume,
                              !.status = status]
      /\ rt' = Forgetting(rt, invalid \cup remove \cup DOMAIN ups)
      /\ inv \cup remove \subseteq DOMAIN g
  BY DEF Edit
<1>3. DOMAIN ups \subseteq Nodes /\ \A n \in DOMAIN ups : ups[n] \in NodeDoc
  <2>1. DOMAIN ups \subseteq Nodes /\ ups \in [DOMAIN ups -> NodeDocs]
    BY TurnAssumption
  <2> QED BY <2>1, PlanAssumption
<1>4. DOMAIN after = (DOMAIN g \ remove) \cup DOMAIN ups
  BY DEF Edited
<1>5. \A n \in DOMAIN after :
        after[n] = IF n \in DOMAIN ups THEN ups[n]
                   ELSE IF n \in invalid /\ g[n].status # "completed"
                        THEN [g[n] EXCEPT !.status = "blocked"] ELSE g[n]
  BY DEF Edited
<1>6. after \in Graph
  <2>1. ASSUME NEW n \in DOMAIN after
        PROVE  after[n] \in NodeDoc
    <3>1. n \in DOMAIN ups => after[n] \in NodeDoc
      BY <2>1, <1>3, <1>5
    <3>2. n \notin DOMAIN ups => n \in DOMAIN g /\ g[n] \in NodeDoc
      BY <2>1, <1>1, <1>4
    <3>3. "blocked" \in Statuses
      BY DEF Statuses
    <3>4. n \notin DOMAIN ups => [g[n] EXCEPT !.status = "blocked"] \in NodeDoc
      BY <3>2, <3>3, StatusChange
    <3> QED BY <2>1, <3>1, <3>2, <3>4, <1>5
  <2>2. after \in [DOMAIN after -> NodeDoc]
    <3>1. after = [n \in DOMAIN after |-> after[n]]
      BY DEF Edited
    <3> QED BY <2>1, <3>1
  <2>3. DOMAIN after \subseteq Nodes
    BY <1>1, <1>3, <1>4
  <2> QED BY <2>2, <2>3, GraphOf
<1> HIDE DEF after
<1>7. BookShape'
  <2>1. resume \subseteq Nodes
    BY <1>1, <1>2, <1>3, <1>4
  <2>2. plan' \in PlanDoc
    <3>1. /\ plan \in PlanDoc /\ resume \in SUBSET Nodes
          /\ plan' = [plan EXCEPT !.nodes = after, !.rev = @ + 1, !.resume = resume,
                                  !.status = status]
      BY <2>1, <1>1, <1>2
    <3>2. plan' = [id |-> plan.id, status |-> status, rev |-> plan.rev + 1,
                   nodes |-> after, resume |-> resume]
      BY <3>1 DEF PlanDoc
    <3>3. plan.id \in PlanIds /\ plan.rev + 1 \in Nat
      BY <3>1 DEF PlanDoc
    <3> QED BY <3>1, <3>2, <3>3, <1>6 DEF PlanDoc
  <2>3. rt' \in Runtime
    BY <1>1, <1>2 DEF Runtime, Forgetting
  <2> QED BY <2>2, <2>3 DEF BookShape
<1>8. plan'.nodes = after /\ plan'.id = plan.id /\ plan'.rev = plan.rev + 1 /\ plan'.status = status
  BY <1>1, <1>2 DEF PlanDoc
<1>9. /\ rt'.provisional = rt.provisional \ (invalid \cup remove \cup DOMAIN ups)
      /\ rt'.acted = rt.acted \ (invalid \cup remove \cup DOMAIN ups)
  BY <1>1, <1>2 DEF Runtime, Forgetting
<1>10. \A n \in DOMAIN g \ (invalid \cup remove \cup DOMAIN ups) :
         n \in DOMAIN after /\ after[n] = g[n]
  BY <1>4, <1>5
<1>11. RunsKnown => RunsKnown'
  BY <1>8, <1>9, <1>10 DEF RunsKnown
<1>12. \A n \in DOMAIN g :
         g[n].status = "completed" => n \in DOMAIN after /\ after[n] = g[n]
  BY <1>2, <1>4, <1>5 DEF MayReplace
<1> QED BY <1>2, <1>7, <1>8, <1>11, <1>12 DEF BookInv, SameRevision

(* A node that may act, seen through facts, with r remembered of past runs.  *)
ReadyIn(g, r, n, facts) ==
  /\ n \in DOMAIN g /\ g[n].status \in {"planned", "active"}
  /\ DepsComplete(g, n) /\ AllHold(g[n].activation, facts)
  /\ n \in r.acted => g[n].cadence # "once"

(* Known rejections concern nodes that their conditions completed.           *)
RejectionsClosed(g, r, seen) ==
  \A m \in r.provisional : seen.outcome[m] = "rejected" => g[m].status = "completed"

LEMMA RememberedShape ==
  ASSUME NEW g, NEW facts \in [Facts -> Values]
  PROVE  Remembered(g, facts) \in Observed
BY DEF Remembered, Observed

(* A rejection that is known and open is an anomaly.                         *)
LEMMA OpenRejectionIsAnomaly ==
  ASSUME RunsKnown, NEW seen, NEW m \in rt.provisional,
         seen.outcome[m] = "rejected", plan.nodes[m].status # "completed"
  PROVE  Anomalous(plan.nodes, rt, seen) # {}
<1> DEFINE g == plan.nodes
           seeds == {n \in DOMAIN g : \/ ~rt.evaluated
                                      \/ WatchedBy(g[n]) \cap ChangedFacts(g, rt, seen.facts) # {}}
                    \cup (AlwaysReconsidered(rt) \cap DOMAIN g)
<1>1. m \in DOMAIN g /\ g[m].status = "active"
  BY DEF RunsKnown
<1>2. m \in seeds
  BY <1>1 DEF AlwaysReconsidered
<1>3. m \in Dependents(g, seeds)
  <2>1. seeds \subseteq DOMAIN g
    OBVIOUS
  <2> HIDE DEF seeds
  <2> QED BY <1>2, <2>1, SeedsAreAffected
<1>4. m \in Engaged(g, rt, seen.facts)
  BY <1>1, <1>3 DEF Engaged, Affected
<1>5. m \in RejectedNodes(g, rt, seen)
  BY <1>4 DEF RejectedNodes, Says
<1> QED BY <1>5 DEF Anomalous

LEMMA EvaluateStep ==
  ASSUME BookInv, NEW seen \in Worlds, Evaluate(seen)
  PROVE  /\ BookInv' /\ (RunsKnown => RunsKnown')
         /\ plan'.id = plan.id /\ plan'.rev = plan.rev /\ plan'.status = plan.status
         /\ DOMAIN plan'.nodes = DOMAIN plan.nodes
         /\ \A n \in DOMAIN plan.nodes :
              plan.nodes[n].status = "completed" => plan'.nodes[n] = plan.nodes[n]
         /\ Decision(plan.nodes, rt, seen) = "execute" =>
              /\ plan.status = "active"
              /\ \A n \in Due(plan.nodes, rt, seen) : ReadyIn(plan'.nodes, rt', n, seen.facts)
              /\ RunsKnown => RejectionsClosed(plan'.nodes, rt', seen)
<1> DEFINE g == plan.nodes
           h == Advanced(g, rt, seen)
           dec == Decision(g, rt, seen)
<1>1. /\ plan \in PlanDoc /\ rt \in Runtime /\ g \in Graph /\ ValidGraph(g)
      /\ seen.facts \in [Facts -> Values]
  BY DEF BookInv, BookShape, PlanDoc, Worlds
<1>2. CASE dec \in {"external_review", "no_active_plan"}
  <2>1. UNCHANGED <<plan, rt>>
    BY <1>2 DEF Evaluate
  <2>2. BookInv' /\ (RunsKnown => RunsKnown')
    BY <2>1 DEF BookInv, BookShape, RunsKnown, PlanDoc, Runtime
  <2> QED BY <1>2, <2>1, <2>2
<1>3. CASE dec \notin {"external_review", "no_active_plan"}
  <2>1. /\ plan' = [plan EXCEPT !.nodes = h]
        /\ rt' = [rt EXCEPT !.evaluated = TRUE,
                            !.last = Remembered(g, seen.facts),
                            !.provisional = @ \ ConfirmedNodes(g, rt, seen),
                            !.factRev = IF dec = "localized_anomaly" THEN @
                                        ELSE NextFactRev(g, rt, seen.facts)]
    BY <1>3 DEF Evaluate
  <2>2. /\ h \in Graph /\ DOMAIN h = DOMAIN g /\ ValidGraph(h)
        /\ \A n \in DOMAIN g : /\ h[n].deps = g[n].deps
                               /\ h[n].activation = g[n].activation
                               /\ h[n].cadence = g[n].cadence
                               /\ g[n].status = "completed" => h[n] = g[n]
                               /\ g[n].status = "active" => h[n].status \in {"active", "completed"}
    BY <1>1, AdvancedGraph
  <2> HIDE DEF h, dec
  <2>3. plan' = [id |-> plan.id, status |-> plan.status, rev |-> plan.rev,
                 nodes |-> h, resume |-> plan.resume]
    BY <1>1, <2>1 DEF PlanDoc
  <2>4. plan' \in PlanDoc
    BY <1>1, <2>2, <2>3 DEF PlanDoc
  <2>5. /\ rt' \in Runtime /\ rt'.provisional \subseteq rt.provisional /\ rt'.acted = rt.acted
    <3>1. Remembered(g, seen.facts) \in Observed
      BY <1>1, RememberedShape
    <3>2. NextFactRev(g, rt, seen.facts) \in Nat
      BY <1>1 DEF NextFactRev, Runtime
    <3> QED BY <1>1, <2>1, <3>1, <3>2 DEF Runtime
  <2>6. RunsKnown => RunsKnown'
    BY <1>1, <2>2, <2>3, <2>5 DEF RunsKnown
  <2>7. ASSUME dec = "execute"
        PROVE  /\ plan.status = "active"
               /\ \A n \in Due(g, rt, seen) : ReadyIn(h, rt', n, seen.facts)
               /\ RunsKnown => RejectionsClosed(h, rt', seen)
    <3>1. plan.status = "active" /\ Anomalous(g, rt, seen) = {}
      BY <2>7 DEF dec, Decision
    <3>2. ASSUME NEW n \in Due(g, rt, seen)
          PROVE  ReadyIn(h, rt', n, seen.facts)
      <4>1. /\ n \in DOMAIN g /\ h[n].status \in {"planned", "active"}
            /\ DepsComplete(g, n) /\ AllHold(g[n].activation, seen.facts)
            /\ MayActAgain(g, rt, seen.facts, n)
        BY DEF Due, Runnable, h
      <4>2. DepsComplete(h, n)
        <5>1. Refs(g[n]) \subseteq DOMAIN g
          BY <1>1, <4>1 DEF ValidGraph
        <5> QED BY <2>2, <4>1, <5>1 DEF DepsComplete, Refs
      <4>3. n \in rt'.acted => h[n].cadence # "once"
        BY <2>2, <2>5, <4>1 DEF MayActAgain
      <4> QED BY <2>2, <4>1, <4>2, <4>3 DEF ReadyIn
    <3>3. RunsKnown => RejectionsClosed(h, rt', seen)
      BY <1>1, <2>2, <2>5, <3>1, OpenRejectionIsAnomaly DEF RejectionsClosed, RunsKnown
    <3> QED BY <3>1, <3>2, <3>3
  <2> QED BY <2>2, <2>3, <2>4, <2>5, <2>6, <2>7 DEF BookInv, BookShape, dec
<1> QED BY <1>2, <1>3

(* The result of an action is written to a node, if the plan still has it;   *)
(* an open one stays known.                                                  *)
LEMMA RecordStep ==
  ASSUME BookInv, NEW n \in Nodes, NEW provisional \in BOOLEAN, RecordAction(n, provisional),
         n \in DOMAIN plan.nodes
  PROVE  /\ BookInv'
         /\ plan.nodes[n].status \in {"planned", "active"} =>
              /\ RunsKnown => RunsKnown'
              /\ DOMAIN plan'.nodes = DOMAIN plan.nodes
              /\ \A k \in DOMAIN plan.nodes :
                   plan.nodes[k].status = "completed" => plan'.nodes[k] = plan.nodes[k]
<1> DEFINE g  == plan.nodes
           st == IF provisional THEN "active"
                 ELSE IF g[n].mode = "after_success" THEN "completed" ELSE g[n].status
           h  == [g EXCEPT ![n] = [g[n] EXCEPT !.status = st]]
<1>1. /\ plan \in PlanDoc /\ rt \in Runtime /\ g \in Graph /\ ValidGraph(g)
      /\ DOMAIN g \subseteq Nodes /\ \A k \in DOMAIN g : g[k] \in NodeDoc
      /\ g = [k \in DOMAIN g |-> g[k]]
  BY GraphShape DEF BookInv, BookShape, PlanDoc
<1>2. st \in Statuses
  BY <1>1 DEF Statuses, NodeDoc
<1>3. plan' = [plan EXCEPT !.nodes = h]
  BY DEF RecordAction
<1>4. /\ h[n] = [g[n] EXCEPT !.status = st] /\ DOMAIN h = DOMAIN g
      /\ \A k \in DOMAIN g : k # n => h[k] = g[k]
  BY <1>1
<1>5. /\ h[n] \in NodeDoc /\ h[n].status = st /\ Refs(h[n]) = Refs(g[n])
  BY <1>1, <1>2, <1>4, StatusChange
<1>6. st \in {"active", "completed"} \/ (st = g[n].status /\ ~provisional)
  OBVIOUS
<1>7. h \in Graph
  <2>1. h = [k \in DOMAIN g |-> h[k]]
    BY <1>1
  <2> HIDE DEF h
  <2>2. h \in [DOMAIN g -> NodeDoc]
    BY <1>1, <1>4, <1>5, <2>1
  <2> QED BY <1>1, <2>2, GraphOf
<1> HIDE DEF h
<1>8. ValidGraph(h)
  <2>1. \A k \in DOMAIN g : Refs(h[k]) = Refs(g[k])
    BY <1>4, <1>5
  <2> QED BY <1>1, <1>4, <2>1, SameReferences
<1>9. plan' = [id |-> plan.id, status |-> plan.status, rev |-> plan.rev,
               nodes |-> h, resume |-> plan.resume]
  BY <1>1, <1>3 DEF PlanDoc
<1>10. plan' \in PlanDoc
  BY <1>1, <1>7, <1>9 DEF PlanDoc
<1>11. /\ rt' \in Runtime /\ rt'.acted = rt.acted \cup {n}
       /\ rt'.provisional = IF provisional THEN rt.provisional \cup {n} ELSE rt.provisional \ {n}
  BY <1>1 DEF RecordAction, Runtime
<1>12. RunsKnown => RunsKnown'
  <2> SUFFICES ASSUME RunsKnown PROVE RunsKnown'
    OBVIOUS
  <2>1. provisional => st = "active"
    OBVIOUS
  <2>2. plan'.nodes = h
    BY <1>9
  <2> HIDE DEF st
  <2>3. rt'.provisional \subseteq rt'.acted /\ rt'.acted \subseteq DOMAIN h
    BY <1>1, <1>4, <1>11 DEF RunsKnown
  <2>4. ASSUME NEW k \in rt'.provisional
        PROVE  h[k].status \in {"active", "completed"}
    <3>1. CASE k = n
      BY <1>5, <1>11, <2>1, <3>1
    <3>2. CASE k # n
      BY <1>1, <1>4, <1>11, <3>2 DEF RunsKnown
    <3> QED BY <3>1, <3>2
  <2> QED BY <2>2, <2>3, <2>4 DEF RunsKnown
<1> QED BY <1>4, <1>8, <1>9, <1>10, <1>11, <1>12 DEF BookInv, BookShape

LEMMA RecordElsewhere ==
  ASSUME BookInv, NEW n \in Nodes, NEW provisional \in BOOLEAN, RecordAction(n, provisional),
         n \notin DOMAIN plan.nodes
  PROVE  BookInv'
<1>1. plan' = plan
  BY DEF RecordAction
<1>2. rt' \in Runtime
  BY DEF RecordAction, Runtime, BookInv, BookShape
<1> QED BY <1>1, <1>2 DEF BookInv, BookShape, ValidGraph, Refs, PlanDoc

LEMMA AcceptStep ==
  ASSUME BookInv, NEW id, NEW report \in SUBSET Reports, NEW rejected,
         AcceptAnomaly(id, report, rejected)
  PROVE  BookInv' /\ (RunsKnown => RunsKnown') /\ plan' = plan
<1> DEFINE w == [n \in Nodes |-> [k \in Kinds |-> [f \in Facts |->
                 LET seen == {x.value : x \in {y \in report : y.node = n /\ y.kind = k /\ y.fact = f}}
                 IN IF seen # {} THEN CHOOSE v \in seen : TRUE ELSE rt.waivers[n][k][f]]]]
<1>1. rt \in Runtime /\ plan' = plan /\ rt' = [rt EXCEPT !.waivers = w]
  BY DEF AcceptAnomaly, BookInv, BookShape
<1>2. ASSUME NEW n \in Nodes, NEW k \in Kinds, NEW f \in Facts
      PROVE  w[n][k][f] \in Values \cup {NoVal}
  <2> DEFINE seen == {x.value : x \in {y \in report : y.node = n /\ y.kind = k /\ y.fact = f}}
  <2>1. seen \subseteq Values
    BY DEF Reports
  <2>2. w[n][k][f] = IF seen # {} THEN CHOOSE v \in seen : TRUE ELSE rt.waivers[n][k][f]
    OBVIOUS
  <2>3. rt.waivers[n][k][f] \in Values \cup {NoVal}
    BY <1>1 DEF Runtime, Observed
  <2>4. seen # {} => (CHOOSE v \in seen : TRUE) \in seen
    OBVIOUS
  <2> HIDE DEF seen, w
  <2> QED BY <2>1, <2>2, <2>3, <2>4
<1>3. w \in [Nodes -> [Kinds -> Observed]]
  <2>1. \A n \in Nodes : \A k \in Kinds : w[n][k] \in [Facts -> Values \cup {NoVal}]
    <3>1. \A n \in Nodes : \A k \in Kinds : w[n][k] = [f \in Facts |-> w[n][k][f]]
      OBVIOUS
    <3> HIDE DEF w
    <3> QED BY <1>2, <3>1
  <2>2. w = [n \in Nodes |-> [k \in Kinds |-> w[n][k]]]
    OBVIOUS
  <2> HIDE DEF w
  <2> QED BY <2>1, <2>2 DEF Observed
<1> HIDE DEF w
<1>4. rt' \in Runtime /\ rt'.acted = rt.acted /\ rt'.provisional = rt.provisional
  BY <1>1, <1>3 DEF Runtime
<1> QED BY <1>1, <1>4 DEF BookInv, BookShape, RunsKnown

-----------------------------------------------------------------------------
(* The inductive invariant.  What makes a late action safe is the revision:  *)
(* it only grows while the plan is the same, so the same revision of the     *)
(* same plan is the plan evaluated.  A new plan starts at revision 1 and may *)
(* have the id of the old one: an action that takes it for the old one marks *)
(* it, and of a marked plan only the shape of its graph is known.            *)

ActPCs == {"act", "prepared", "executing", "in_game"}

RunsInv == ~mistaken => RunsKnown

SnapshotKnown ==
  turn.pc # "idle" =>
    /\ turn.seen.save <= world.save
    /\ turn.seen.save = world.save => turn.seen = world

DueFits ==
  /\ plan.status = "active"
  /\ \A n \in turn.due : ReadyIn(plan.nodes, rt, n, turn.seen.facts)
  /\ RejectionsClosed(plan.nodes, rt, turn.seen)

DueInv ==
  /\ turn.made <= made
  /\ turn.pc \in ActPCs /\ turn.due # {} /\ turn.made = made =>
       /\ turn.rev <= plan.rev
       /\ turn.rev = plan.rev /\ ~mistaken => DueFits

LockInv ==
  turn.pc \in {"prepared", "executing", "in_game"} =>
    turn.rev = plan.rev /\ (~mistaken => turn.made = made)

Inv == /\ Shape /\ ValidGraph(plan.nodes) /\ RunsInv
       /\ SnapshotKnown /\ DueInv /\ LockInv

-----------------------------------------------------------------------------
(* Steps of the turn that leave the book alone.                              *)

LEMMA IdleShape ==
  turn' = Idle => turn' \in TurnDoc' /\ turn'.pc = "idle" /\ turn'.made = 0
<1>1. (CHOOSE p \in PlanIds : TRUE) \in PlanIds
  BY PlanAssumption
<1>2. (CHOOSE f \in Snapshots : TRUE) \in [Facts -> Values]
  BY TurnAssumption
<1>3. 0 \in 0..MaxSaves
  BY TurnAssumption
<1> QED BY <1>1, <1>2, <1>3
        DEF Idle, TurnDoc, PCs, Decisions, Worlds, Fates, NoPlan

LEMMA GotoShape ==
  ASSUME turn \in TurnDoc, NEW pc \in PCs, turn' = [turn EXCEPT !.pc = pc]
  PROVE  /\ turn' \in TurnDoc' /\ turn'.pc = pc
         /\ turn'.made = turn.made /\ turn'.id = turn.id /\ turn'.rev = turn.rev /\ turn'.seen = turn.seen
         /\ turn'.due = turn.due /\ turn'.decision = turn.decision
BY DEF TurnDoc

(* A step between acting states, with the book and the world as they are.    *)
LEMMA GotoStep ==
  ASSUME Inv, NEW pc \in PCs, Goto(pc),
         UNCHANGED <<plan, rt, world, chat, made>>, turn.pc # "idle",
         mistaken' \in BOOLEAN, mistaken => mistaken',
         pc \in ActPCs => turn.pc \in ActPCs,
         pc \in {"prepared", "executing", "in_game"} =>
           turn.rev = plan.rev /\ (~mistaken' => turn.made = made)
  PROVE  Inv'
<1>1. /\ turn' \in TurnDoc' /\ turn'.pc = pc
      /\ turn'.made = turn.made /\ turn'.rev = turn.rev /\ turn'.seen = turn.seen
      /\ turn'.due = turn.due
  BY GotoShape DEF Inv, Shape, Goto
<1>2. Shape'
  BY <1>1 DEF Inv, Shape, BookShape, PlanDoc, Runtime, Worlds
<1>3. SnapshotKnown'
  BY <1>1 DEF Inv, SnapshotKnown
<1>4. DueInv'
  BY <1>1 DEF Inv, DueInv, DueFits, ReadyIn, RejectionsClosed, DepsComplete, AllHold, Holds
<1>5. LockInv'
  BY <1>1 DEF Inv, LockInv
<1> QED BY <1>2, <1>3, <1>4, <1>5 DEF Inv, RunsInv, RunsKnown, ValidGraph, Refs

(* The end of a turn, when the book is sound afterwards.                     *)
LEMMA EndStep ==
  ASSUME Inv, EndTurn, BookInv', RunsInv', UNCHANGED <<world, chat, history>>
  PROVE  Inv'
<1>1. turn' \in TurnDoc' /\ turn'.pc = "idle" /\ turn'.made = 0
  BY IdleShape DEF EndTurn
<1>2. Shape'
  BY <1>1 DEF Inv, Shape, BookInv, Worlds
<1> QED BY <1>1, <1>2 DEF Inv, Shape, BookInv, SnapshotKnown, DueInv, LockInv, ActPCs

LEMMA BookOfInv == Inv => BookInv
BY DEF Inv, Shape, BookInv

LEMMA SameBook ==
  BookInv /\ UNCHANGED <<plan, rt>> => BookInv' /\ (RunsKnown => RunsKnown')
BY DEF BookInv, BookShape, PlanDoc, Runtime, ValidGraph, Refs, RunsKnown

(* The turn once the chat or a model has changed the plan: what it has due    *)
(* belongs to an older revision or to another plan.                          *)
LEMMA OutdatedStep ==
  ASSUME Inv, BookInv', RunsInv', UNCHANGED <<world, turn>>,
         chat' \in [id: PlanIds, rev: Nat], mistaken' \in BOOLEAN,
         turn.pc \notin {"prepared", "executing", "in_game"},
         \/ made' = made /\ plan'.rev = plan.rev + 1
         \/ made' = made + 1
  PROVE  Inv'
<1>1. Shape'
  <2>1. turn' \in TurnDoc' /\ made' \in Nat
    BY DEF Inv, Shape, TurnDoc
  <2> QED BY <2>1 DEF Inv, Shape, BookInv, Worlds
<1>2. SnapshotKnown' /\ LockInv'
  BY DEF Inv, SnapshotKnown, LockInv
<1>3. DueInv'
  <2>1. /\ plan.rev \in Nat /\ turn.rev \in Nat /\ made \in Nat /\ turn.made \in Nat
        /\ turn.made <= made
    BY DEF Inv, Shape, BookShape, PlanDoc, TurnDoc, DueInv
  <2>2. /\ turn.made <= made'
        /\ turn.pc \in ActPCs /\ turn.due # {} /\ turn.made = made' =>
             turn.rev <= plan'.rev /\ turn.rev # plan'.rev
    BY <2>1 DEF Inv, DueInv
  <2>3. turn' = turn
    OBVIOUS
  <2> QED BY <2>2, <2>3 DEF DueInv
<1> QED BY <1>1, <1>2, <1>3 DEF Inv, BookInv

LEMMA InvInit == Init => Inv
<1> SUFFICES ASSUME Init PROVE Inv
  OBVIOUS
<1>1. (CHOOSE p \in PlanIds : TRUE) \in PlanIds
  BY PlanAssumption
<1>2. (CHOOSE f \in Snapshots : TRUE) \in [Facts -> Values]
  BY TurnAssumption
<1>3. 0 \in 0..MaxSaves
  BY TurnAssumption
<1>4. turn \in TurnDoc
  BY <1>1, <1>2, <1>3 DEF Init, Idle, TurnDoc, PCs, Decisions, Worlds, Fates, NoPlan
<1>5. plan \in PlanDoc /\ DOMAIN plan.nodes = {} /\ plan.status = "none" /\ plan.id \in PlanIds
  <2>1. <<>> \in Graph /\ DOMAIN <<>> = {}
    <3>1. <<>> \in [{} -> NodeDoc] /\ DOMAIN <<>> = {}
      OBVIOUS
    <3> QED BY <3>1, GraphOf
  <2> QED BY <1>1, <2>1 DEF Init, BookInit, NoPlan, PlanDoc, PlanStatuses
<1>6. rt = FreshRuntime /\ rt \in Runtime
  BY FreshRuntimeShape DEF Init, BookInit
<1>7. world \in Worlds
  BY <1>3, TurnAssumption DEF Init, Worlds, Fates
<1>8. Shape
  BY <1>4, <1>5, <1>6, <1>7 DEF Init, Shape, BookShape
<1>9. ValidGraph(plan.nodes) /\ RunsKnown
  BY <1>5, <1>6 DEF ValidGraph, RunsKnown, FreshRuntime
<1> QED BY <1>8, <1>9 DEF Inv, Init, Idle, RunsInv, SnapshotKnown, DueInv, LockInv, ActPCs

-----------------------------------------------------------------------------
(* The steps that may change the book; each also keeps completed nodes.      *)

CompletedKept ==
  \A n \in DOMAIN plan.nodes :
    plan.nodes[n].status = "completed" /\ made' = made /\ ~mistaken =>
      n \in DOMAIN plan'.nodes /\ plan'.nodes[n] = plan.nodes[n]

(* A new plan is another plan, whatever its id.                              *)
LEMMA NewPlanStep ==
  ASSUME Inv, NEW p \in PlanIds, NEW d \in Drafts, NewPlan(p, d)
  PROVE  BookInv' /\ RunsInv' /\ CompletedKept /\ made' = made + 1 /\ mistaken' = FALSE
<1>1. Create(p, d) /\ made' = made + 1 /\ mistaken' = FALSE /\ made \in Nat
  BY DEF NewPlan, Inv, Shape
<1>2. BookInv' /\ RunsKnown'
  BY <1>1, BookOfInv, CreateStep
<1>3. made' # made
  BY <1>1
<1> QED BY <1>1, <1>2, <1>3 DEF RunsInv, CompletedKept

LEMMA ChatCreateStep ==
  ASSUME Inv, ChatCreate PROVE Inv' /\ CompletedKept
<1>1. PICK p \in PlanIds, d \in Drafts : NewPlan(p, d)
  BY DEF ChatCreate
<1>2. BookInv' /\ RunsInv' /\ CompletedKept /\ made' = made + 1 /\ mistaken' = FALSE
  BY <1>1, NewPlanStep
<1>3. chat' \in [id: PlanIds, rev: Nat] /\ mistaken' \in BOOLEAN
  BY <1>2 DEF Inv, Shape, ChatCreate
<1> QED BY <1>2, <1>3, OutdatedStep DEF ChatCreate, EditorMayAct, PlanUnlocked

LEMMA ModelCreatesStep ==
  ASSUME Inv, ModelCreates PROVE Inv' /\ CompletedKept
<1>1. PICK p \in PlanIds, d \in Drafts :
        NewPlan(p, d) /\ turn' = [turn EXCEPT !.id = p, !.rev = 1]
  BY DEF ModelCreates
<1>2. BookInv' /\ RunsInv' /\ CompletedKept /\ made' = made + 1 /\ mistaken' = FALSE
  BY <1>1, NewPlanStep
<1>3. /\ turn' \in TurnDoc' /\ turn'.pc = "model" /\ turn'.seen = turn.seen
      /\ turn'.made = turn.made /\ turn.made \in Nat /\ made \in Nat
  <2>1. turn \in TurnDoc /\ made \in Nat /\ turn.pc = "model"
    BY DEF Inv, Shape, ModelCreates
  <2> QED BY <1>1, <2>1 DEF TurnDoc
<1>4. /\ world' \in Worlds' /\ chat' \in [id: PlanIds, rev: Nat]
      /\ made' \in Nat /\ mistaken' \in BOOLEAN
  <2>1. world \in Worlds /\ chat \in [id: PlanIds, rev: Nat]
    BY DEF Inv, Shape
  <2>2. world' = world /\ chat' = chat
    BY DEF ModelCreates
  <2>3. world' \in Worlds'
    BY <2>1, <2>2 DEF Worlds
  <2>4. made' \in Nat
    BY <1>2, <1>3
  <2> QED BY <1>2, <2>1, <2>2, <2>3, <2>4
<1>5. Shape'
  BY <1>2, <1>3, <1>4 DEF Shape, BookInv
<1>6. SnapshotKnown' /\ DueInv' /\ LockInv'
  BY <1>2, <1>3 DEF Inv, SnapshotKnown, DueInv, LockInv, ActPCs, ModelCreates
<1> QED BY <1>2, <1>5, <1>6 DEF Inv, BookInv

LEMMA EditInv ==
  ASSUME Inv, NEW id, NEW rev, NEW inv, NEW remove, NEW ups \in Upserts, NEW resume,
         NEW status, status = plan.status \/ status \in {"suspended", "active", "completed"},
         Edit(id, rev, inv, {}, remove, ups, resume, status), UNCHANGED history
  PROVE  BookInv' /\ RunsInv' /\ CompletedKept /\ plan'.rev = plan.rev + 1
<1>1. status \in PlanStatuses
  BY DEF Inv, Shape, BookShape, PlanDoc, PlanStatuses
<1>2. /\ BookInv' /\ (RunsKnown => RunsKnown') /\ plan'.rev = plan.rev + 1
      /\ \A n \in DOMAIN plan.nodes :
           plan.nodes[n].status = "completed" =>
             n \in DOMAIN plan'.nodes /\ plan'.nodes[n] = plan.nodes[n]
  BY <1>1, BookOfInv, EditStep
<1> QED BY <1>2 DEF CompletedKept, Inv, RunsInv

LEMMA ChatEditStep ==
  ASSUME Inv, ChatEdit PROVE Inv' /\ CompletedKept
<1>1. PICK inv, remove \in SUBSET DOMAIN plan.nodes, ups \in Upserts, resume \in Resumes,
          status \in {plan.status, "suspended", "active", "completed"} :
        Edit(chat.id, chat.rev, inv, {}, remove, ups, resume, status)
  BY DEF ChatEdit
<1>2. UNCHANGED <<world, turn, chat, history>> /\ turn.pc \notin {"prepared", "executing", "in_game"}
  BY DEF ChatEdit, EditorMayAct, PlanUnlocked
<1>3. BookInv' /\ RunsInv' /\ CompletedKept /\ plan'.rev = plan.rev + 1
  BY <1>1, <1>2, EditInv
<1>4. chat' \in [id: PlanIds, rev: Nat] /\ mistaken' \in BOOLEAN
  BY <1>2 DEF Inv, Shape
<1> QED BY <1>2, <1>3, <1>4, OutdatedStep

LEMMA ModelEditsStep ==
  ASSUME Inv, ModelEdits PROVE Inv' /\ CompletedKept
<1>1. PICK inv, remove \in SUBSET DOMAIN plan.nodes, ups \in Upserts, resume \in Resumes :
        Edit(turn.id, turn.rev, inv, {}, remove, ups, resume, plan.status)
  BY DEF ModelEdits
<1>2. turn.pc = "model" /\ turn' = [turn EXCEPT !.rev = @ + 1] /\ UNCHANGED <<world, chat, history>>
  BY DEF ModelEdits
<1>3. BookInv' /\ RunsInv' /\ CompletedKept
  BY <1>1, <1>2, EditInv
<1>4. /\ turn' \in TurnDoc' /\ turn'.pc = "model" /\ turn'.seen = turn.seen
      /\ turn'.made = turn.made
  BY <1>2 DEF Inv, Shape, TurnDoc
<1>5. Shape'
  BY <1>2, <1>3, <1>4 DEF Inv, Shape, BookInv, Worlds
<1>6. SnapshotKnown' /\ DueInv' /\ LockInv'
  BY <1>2, <1>4 DEF Inv, SnapshotKnown, DueInv, LockInv, ActPCs
<1> QED BY <1>3, <1>5, <1>6 DEF Inv, BookInv

LEMMA AdviserPatchesStep ==
  ASSUME Inv, AdviserPatches PROVE Inv' /\ CompletedKept
<1>1. PICK inv, remove \in SUBSET DOMAIN plan.nodes, ups \in Upserts, resume \in Resumes :
        Edit(turn.id, turn.rev, inv, {}, remove, ups, resume, plan.status)
  BY DEF AdviserPatches
<1>2. EndTurn /\ UNCHANGED <<world, chat, history>>
  BY DEF AdviserPatches
<1>3. BookInv' /\ RunsInv' /\ CompletedKept
  BY <1>1, <1>2, EditInv
<1> QED BY <1>2, <1>3, EndStep

LEMMA AdviserContinuesStep ==
  ASSUME Inv, AdviserContinues PROVE Inv' /\ CompletedKept
<1>1. turn.report \in SUBSET Reports
  BY DEF Inv, Shape, TurnDoc
<1>2. BookInv' /\ (RunsKnown => RunsKnown') /\ plan' = plan
  BY <1>1, BookOfInv, AcceptStep DEF AdviserContinues
<1>3. RunsInv'
  BY <1>2 DEF Inv, RunsInv, AdviserContinues
<1>4. EndTurn /\ UNCHANGED <<world, chat, history>>
  BY DEF AdviserContinues
<1> QED BY <1>2, <1>3, <1>4, EndStep DEF CompletedKept

LEMMA ActRecordStep ==
  ASSUME Inv, ActRecord PROVE Inv' /\ CompletedKept
<1>1. PICK n \in turn.due, provisional \in BOOLEAN : RecordAction(n, provisional)
  BY DEF ActRecord
<1>2. turn.pc = "in_game" /\ EndTurn /\ UNCHANGED <<world, chat, history>>
  BY DEF ActRecord
<1>3. /\ n \in Nodes
      /\ ~mistaken => n \in DOMAIN plan.nodes /\ plan.nodes[n].status \in {"planned", "active"}
  BY <1>2 DEF Inv, Shape, TurnDoc, DueInv, LockInv, DueFits, ReadyIn, ActPCs
<1>4. BookInv'
  BY <1>1, <1>3, BookOfInv, RecordStep, RecordElsewhere
<1>5. ~mistaken =>
        /\ RunsKnown => RunsKnown'
        /\ DOMAIN plan'.nodes = DOMAIN plan.nodes
        /\ \A k \in DOMAIN plan.nodes :
             plan.nodes[k].status = "completed" => plan'.nodes[k] = plan.nodes[k]
  BY <1>1, <1>3, BookOfInv, RecordStep
<1>6. RunsInv' /\ CompletedKept
  BY <1>2, <1>5 DEF Inv, RunsInv, CompletedKept
<1> QED BY <1>2, <1>4, <1>6, EndStep

(* The evaluation: what it makes due fits the plan it leaves behind.         *)
LEMMA EvaluateTurnStep ==
  ASSUME Inv, EvaluateTurn PROVE Inv' /\ CompletedKept
<1> DEFINE g   == plan.nodes
           dec == Decision(g, rt, turn.seen)
           due == Due(g, rt, turn.seen)
<1>1. /\ turn \in TurnDoc /\ turn.pc = "evaluate" /\ turn.seen \in Worlds
      /\ UNCHANGED <<world, chat, history>> /\ BookInv
      /\ plan \in PlanDoc /\ DOMAIN g \subseteq Nodes
  BY BookOfInv, GraphShape DEF Inv, Shape, TurnDoc, EvaluateTurn, BookShape, PlanDoc
<1>2. /\ BookInv' /\ (RunsKnown => RunsKnown') /\ plan'.id = plan.id /\ plan'.rev = plan.rev /\ plan'.status = plan.status
      /\ DOMAIN plan'.nodes = DOMAIN plan.nodes
      /\ \A n \in DOMAIN plan.nodes :
           plan.nodes[n].status = "completed" => plan'.nodes[n] = plan.nodes[n]
      /\ dec = "execute" =>
           /\ plan.status = "active"
           /\ \A n \in due : ReadyIn(plan'.nodes, rt', n, turn.seen.facts)
           /\ RunsKnown => RejectionsClosed(plan'.nodes, rt', turn.seen)
  BY <1>1, EvaluateStep DEF EvaluateTurn
<1>3. /\ turn'.pc \in {"act", "advise", "model"} /\ turn'.made = made /\ turn'.rev = plan.rev
      /\ turn'.seen = turn.seen
      /\ turn'.due = IF dec = "execute" THEN FirstDue(due, plan.resume) ELSE {}
      /\ turn' \in TurnDoc'
  <2>1. dec \in Decisions
    BY DEF Decision, Decisions
  <2>2. (IF dec = "execute" THEN FirstDue(due, plan.resume) ELSE {}) \subseteq DOMAIN g
    BY DEF FirstDue, Due, Runnable
  <2>3. /\ RejectedNodes(g, rt, turn.seen) \subseteq DOMAIN g
        /\ Dependents(g, Anomalous(g, rt, turn.seen)) \subseteq DOMAIN g
    BY DEF RejectedNodes, Engaged, Affected, Dependents
  <2>4. plan.id \in PlanIds /\ plan.rev \in Nat /\ made \in Nat
    BY <1>1 DEF PlanDoc, Inv, Shape
  <2> HIDE DEF dec, due
  <2>5. /\ turn'.pc = CASE dec \in {"continue", "execute"} -> "act"
                        [] dec = "localized_anomaly" -> "advise"
                        [] OTHER -> "model"
        /\ turn'.decision = dec /\ turn'.id = plan.id /\ turn'.rev = plan.rev
        /\ turn'.made = made
        /\ turn'.due = IF dec = "execute" THEN FirstDue(due, plan.resume) ELSE {}
        /\ turn'.report \subseteq Reports
        /\ turn'.rejected \subseteq DOMAIN g /\ turn'.invalid \subseteq DOMAIN g
        /\ turn'.seen = turn.seen
        /\ turn' = [pc |-> turn'.pc, decision |-> turn'.decision, id |-> turn'.id,
                    rev |-> turn'.rev, seen |-> turn'.seen, due |-> turn'.due,
                    report |-> turn'.report, rejected |-> turn'.rejected,
                    invalid |-> turn'.invalid, reviews |-> turn'.reviews,
                    made |-> turn'.made]
    BY <1>1, <2>3 DEF EvaluateTurn, TurnDoc, dec, due
  <2>6. turn'.pc \in {"act", "advise", "model"}
    BY <2>5
  <2>7. turn' \in TurnDoc'
    BY <1>1, <2>1, <2>2, <2>4, <2>5, <2>6 DEF TurnDoc, PCs
  <2> QED BY <2>5, <2>6, <2>7
<1> HIDE DEF dec, due
<1>4. turn'.due \subseteq due /\ (turn'.due # {} => dec = "execute")
  BY <1>3 DEF FirstDue
<1>5. Shape'
  BY <1>1, <1>2, <1>3 DEF Inv, Shape, BookInv, Worlds
<1>6. SnapshotKnown' /\ LockInv'
  BY <1>1, <1>3 DEF Inv, SnapshotKnown, LockInv
<1>7. DueInv'
  <2>1. plan'.rev \in Nat /\ made \in Nat
    BY <1>2 DEF BookInv, BookShape, PlanDoc, Inv, Shape
  <2>2. turn'.due # {} /\ ~mistaken => DueFits'
    BY <1>2, <1>3, <1>4 DEF DueFits, Inv, RunsInv
  <2> QED BY <1>1, <1>2, <1>3, <2>1, <2>2 DEF DueInv
<1>8. RunsInv' /\ CompletedKept
  BY <1>1, <1>2 DEF Inv, RunsInv, CompletedKept
<1> QED BY <1>2, <1>5, <1>6, <1>7, <1>8 DEF Inv, BookInv

(* The world, the chat's reading and a new turn.                             *)

LEMMA NewSaveStep ==
  ASSUME Inv, NewSave PROVE Inv'
<1>1. UNCHANGED <<plan, rt, turn, chat, history>> /\ world.save < MaxSaves
  BY DEF NewSave
<1>2. PICK f \in Snapshots, fate \in [Nodes -> Fates] :
        world' = [save |-> world.save + 1, facts |-> f, outcome |-> fate]
  BY DEF NewSave
<1>3. f \in [Facts -> Values] /\ MaxSaves \in Nat /\ world.save \in 0..MaxSaves
  BY TurnAssumption DEF Inv, Shape, Worlds
<1>4. world' \in Worlds /\ world'.save = world.save + 1
  BY <1>1, <1>2, <1>3 DEF Worlds
<1>5. Shape'
  BY <1>1, <1>4 DEF Inv, Shape, BookShape, PlanDoc, Runtime, TurnDoc
<1>6. SnapshotKnown'
  <2>1. turn.seen.save \in 0..MaxSaves
    BY DEF Inv, Shape, TurnDoc, Worlds
  <2> QED BY <1>1, <1>3, <1>4, <2>1 DEF Inv, SnapshotKnown
<1>7. DueInv' /\ LockInv'
  BY <1>1 DEF Inv, DueInv, DueFits, LockInv, ReadyIn, RejectionsClosed, DepsComplete, AllHold, Holds
<1> QED BY <1>1, <1>5, <1>6, <1>7, SameBook, BookOfInv DEF Inv, BookInv, RunsInv

LEMMA BeginTurnStep ==
  ASSUME Inv, BeginTurn PROVE Inv'
<1>1. UNCHANGED <<plan, rt, world, chat, history>>
      /\ turn' = [turn EXCEPT !.pc = "evaluate", !.seen = world]
  BY DEF BeginTurn
<1>2. /\ turn' \in TurnDoc' /\ turn'.pc = "evaluate" /\ turn'.seen = world
      /\ turn'.made = turn.made
  BY <1>1 DEF Inv, Shape, TurnDoc, PCs
<1>3. Shape'
  BY <1>1, <1>2 DEF Inv, Shape, BookShape, PlanDoc, Runtime, Worlds
<1>4. world.save \in Int
  BY DEF Inv, Shape, Worlds
<1>5. SnapshotKnown' /\ DueInv' /\ LockInv'
  BY <1>1, <1>2, <1>4 DEF Inv, SnapshotKnown, DueInv, LockInv, ActPCs
<1> QED BY <1>1, <1>3, <1>5, SameBook, BookOfInv DEF Inv, BookInv, RunsInv

LEMMA UnchangedStep ==
  ASSUME Inv, UNCHANGED <<plan, rt, world, turn, history>>,
         chat' \in [id: PlanIds, rev: Nat]
  PROVE  Inv'
<1>1. Shape'
  BY DEF Inv, Shape, BookShape, PlanDoc, Runtime, TurnDoc, Worlds
<1>2. SnapshotKnown' /\ DueInv' /\ LockInv'
  BY DEF Inv, SnapshotKnown, DueInv, LockInv, DueFits, ReadyIn, RejectionsClosed,
         DepsComplete, AllHold, Holds
<1> QED BY <1>1, <1>2, SameBook, BookOfInv DEF Inv, BookInv, RunsInv

(* Ends of a turn, and errors, that leave the plan as it is.                 *)
LEMMA QuietEndStep ==
  ASSUME Inv, EndTurn, UNCHANGED <<plan, rt, world, chat, history>>
  PROVE  Inv'
BY SameBook, BookOfInv, EndStep DEF Inv, RunsInv

LEMMA SamePlanKept == UNCHANGED plan => CompletedKept
BY DEF CompletedKept

LEMMA InvStep ==
  ASSUME Inv, [Next]_vars
  PROVE  Inv' /\ CompletedKept
<1>1. CASE NewSave
  BY <1>1, NewSaveStep, SamePlanKept DEF NewSave
<1>2. ASSUME NEW r \in Reviews, Deliver(r) PROVE Inv' /\ CompletedKept
  <2>1. UNCHANGED <<plan, rt, world, turn, chat, history>>
    BY <1>2 DEF Deliver, QueueReview
  <2> QED BY <2>1, UnchangedStep, SamePlanKept DEF Inv, Shape
<1>3. CASE ChatInspect
  <2>1. chat' \in [id: PlanIds, rev: Nat] /\ UNCHANGED <<plan, rt, world, turn, history>>
    BY <1>3 DEF ChatInspect, Inv, Shape, BookShape, PlanDoc
  <2> QED BY <2>1, UnchangedStep, SamePlanKept
<1>4. CASE ChatCreate
  BY <1>4, ChatCreateStep
<1>5. CASE ChatEdit
  BY <1>5, ChatEditStep
<1>6. CASE BeginTurn
  BY <1>6, BeginTurnStep, SamePlanKept DEF BeginTurn
<1>7. CASE EvaluateTurn
  BY <1>7, EvaluateTurnStep
<1>8. CASE ActContinue \/ ActAdvisory \/ ModelFails \/ Crash
  BY <1>8, QuietEndStep, SamePlanKept DEF ActContinue, ActAdvisory, ModelFails, Crash
<1>9. CASE ActPrepare
  <2>1. "prepared" \in PCs /\ turn.pc = "act" /\ Goto("prepared")
        /\ turn.rev = plan.rev /\ mistaken' = (mistaken \/ Replaced)
        /\ UNCHANGED <<plan, rt, world, chat, made>>
    BY <1>9 DEF ActPrepare, SamePlanAsEvaluated, PCs
  <2> QED BY <2>1, GotoStep, SamePlanKept DEF ActPCs, Inv, Shape, Replaced
<1>10. CASE ActCommit
  <2>1. "executing" \in PCs /\ turn.pc = "prepared" /\ Goto("executing")
        /\ turn.rev = plan.rev /\ (~mistaken => turn.made = made)
        /\ UNCHANGED <<plan, rt, world, chat, history>>
    BY <1>10 DEF ActCommit, PCs, Inv, LockInv
  <2> QED BY <2>1, GotoStep, SamePlanKept DEF ActPCs, Inv, Shape
<1>11. CASE ActExecute
  <2>1. "in_game" \in PCs /\ turn.pc = "executing" /\ Goto("in_game")
        /\ turn.rev = plan.rev /\ (~mistaken => turn.made = made)
        /\ UNCHANGED <<plan, rt, world, chat, history>>
    BY <1>11 DEF ActExecute, PCs, Inv, LockInv
  <2> QED BY <2>1, GotoStep, SamePlanKept DEF ActPCs, Inv, Shape
<1>12. CASE ActError \/ AdviserEscalates
  <2>1. "model" \in PCs /\ turn.pc # "idle" /\ Goto("model")
        /\ UNCHANGED <<plan, rt, world, chat, history>>
    BY <1>12 DEF ActError, AdviserEscalates, PCs
  <2> QED BY <2>1, GotoStep, SamePlanKept DEF ActPCs, Inv, Shape
<1>13. CASE ActRecord
  BY <1>13, ActRecordStep
<1>14. CASE AdviserContinues
  BY <1>14, AdviserContinuesStep
<1>15. CASE AdviserPatches
  BY <1>15, AdviserPatchesStep
<1>16. CASE ModelEdits
  BY <1>16, ModelEditsStep
<1>17. CASE ModelCreates
  BY <1>17, ModelCreatesStep
<1>18. CASE ModelFinishes
  <2>1. EndTurn /\ UNCHANGED <<plan, rt, world, chat, history>>
    BY <1>18 DEF ModelFinishes, CompleteReviews
  <2> QED BY <2>1, QuietEndStep, SamePlanKept
<1>19. CASE UNCHANGED vars
  BY <1>19, UnchangedStep, SamePlanKept DEF Inv, Shape
<1> QED BY <1>1, <1>2, <1>3, <1>4, <1>5, <1>6, <1>7, <1>8, <1>9, <1>10, <1>11, <1>12,
           <1>13, <1>14, <1>15, <1>16, <1>17, <1>18, <1>19 DEF Next, TurnStep

(* The invariant is kept by every step, whoever takes it.                    *)
THEOREM InvAlways == Spec => []Inv
<1>1. Inv /\ [Next]_vars => Inv'
  BY InvStep
<1> QED BY InvInit, <1>1, PTL DEF Spec

-----------------------------------------------------------------------------
(* No sequence of edits, patches, evaluations and results makes the graph    *)
(* dangling or cyclic (_validate_graph at every write of the plan).          *)
THEOREM PlanGraphAlwaysSound == Spec => []PlanGraphSound
<1>1. Inv => PlanGraphSound
  BY DEF Inv, ValidGraph, PlanGraphSound, Refs
<1> QED BY InvAlways, <1>1, PTL

(* Completed nodes are immutable, against late results of actions too        *)
(* (edit's refusals, and the loop of evaluate).                              *)
THEOREM CompletedNodesStay == Spec => CompletedStays
<1>1. Inv /\ [Next]_vars =>
        [\A n \in DOMAIN plan.nodes :
           plan.nodes[n].status = "completed" /\ made' = made /\ ~mistaken =>
             n \in DOMAIN plan'.nodes /\ plan'.nodes[n] = plan.nodes[n]]_vars
  BY InvStep DEF CompletedKept
<1> QED BY InvAlways, <1>1, PTL DEF Spec, CompletedStays

(* What the invariant says of an action at the moment it reaches the game.   *)
LEMMA ActingFits ==
  ASSUME Inv, ~mistaken, NEW n \in Nodes, Acts(n)
  PROVE  DueFits /\ ReadyIn(plan.nodes, rt, n, turn.seen.facts)
BY DEF Acts, Inv, DueInv, LockInv, DueFits, ActPCs

(* An action reaches the game on behalf of the plan as it is at that moment, *)
(* and is started only on the latest save (the two checks of                 *)
(* execute_due_action, and the plan lock it holds).                          *)
THEOREM ActionsFitThePlan == Spec => ActsOnCurrentPlan
<1>1. ASSUME Inv, [Next]_vars
      PROVE  [~mistaken =>
              /\ \A n \in Nodes : Acts(n) =>
                   /\ plan.status = "active"
                   /\ n \in DOMAIN plan.nodes
                   /\ plan.nodes[n].status \in {"planned", "active"}
                   /\ DepsComplete(plan.nodes, n)
              /\ turn.pc = "prepared" /\ turn'.pc = "executing" =>
                   \A n \in turn.due :
                     n \in DOMAIN plan.nodes /\ AllHold(plan.nodes[n].activation, world.facts)]_vars
  <2> SUFFICES ASSUME ~mistaken
               PROVE  /\ \A n \in Nodes : Acts(n) =>
                           /\ plan.status = "active"
                           /\ n \in DOMAIN plan.nodes
                           /\ plan.nodes[n].status \in {"planned", "active"}
                           /\ DepsComplete(plan.nodes, n)
                      /\ turn.pc = "prepared" /\ turn'.pc = "executing" =>
                           \A n \in turn.due :
                             /\ n \in DOMAIN plan.nodes
                             /\ AllHold(plan.nodes[n].activation, world.facts)
    OBVIOUS
  <2>1. \A n \in Nodes : Acts(n) =>
          /\ plan.status = "active"
          /\ n \in DOMAIN plan.nodes
          /\ plan.nodes[n].status \in {"planned", "active"}
          /\ DepsComplete(plan.nodes, n)
    BY <1>1, ActingFits DEF DueFits, ReadyIn
  <2>2. ASSUME turn.pc = "prepared", turn'.pc = "executing", NEW n \in turn.due
        PROVE  n \in DOMAIN plan.nodes /\ AllHold(plan.nodes[n].activation, world.facts)
    <3>1. SnapshotCurrent
      <4>1. turn' # turn
        BY <2>2
      <4>2. turn' # Idle
        BY <2>2 DEF Idle
      <4>3. \A pc \in PCs : Goto(pc) => pc = "executing"
        BY <1>1, <2>2, GotoShape DEF Goto, Inv, Shape
      <4>4. ~Goto("prepared") /\ ~Goto("in_game") /\ ~Goto("model")
        BY <4>3 DEF PCs
      <4> QED BY <1>1, <2>2, <4>1, <4>2, <4>4
              DEF Next, TurnStep, NewSave, Deliver, ChatInspect, ChatCreate, ChatEdit,
                  BeginTurn, EvaluateTurn, ActContinue, ActAdvisory, ActPrepare, ActCommit,
                  ActExecute, ActError, ActRecord, AdviserContinues, AdviserPatches,
                  AdviserEscalates, ModelEdits, ModelCreates, ModelFinishes, ModelFails,
                  Crash, EndTurn
    <3>2. turn.seen = world
      BY <1>1, <2>2, <3>1 DEF SnapshotCurrent, Inv, SnapshotKnown
    <3>3. ReadyIn(plan.nodes, rt, n, turn.seen.facts)
      BY <1>1, <2>2 DEF Inv, DueInv, LockInv, DueFits, ActPCs
    <3> QED BY <3>2, <3>3 DEF ReadyIn
  <2> QED BY <2>1, <2>2
<1>2. Inv /\ [Next]_vars =>
        [~mistaken =>
         /\ \A n \in Nodes : Acts(n) =>
              /\ plan.status = "active"
              /\ n \in DOMAIN plan.nodes
              /\ plan.nodes[n].status \in {"planned", "active"}
              /\ DepsComplete(plan.nodes, n)
         /\ turn.pc = "prepared" /\ turn'.pc = "executing" =>
              \A n \in turn.due :
                n \in DOMAIN plan.nodes /\ AllHold(plan.nodes[n].activation, world.facts)]_vars
  BY <1>1
<1> QED BY InvAlways, <1>2, PTL DEF Spec, ActsOnCurrentPlan

(* A "once" action that has been recorded does not reach the game again      *)
(* (the cadence rules of evaluate, and the runtime an edit pops).            *)
THEOREM RecordedOnceIsNotRepeated == Spec => RecordedOnceStays
<1>1. Inv /\ [Next]_vars =>
        [\A n \in Nodes : Acts(n) /\ n \in rt.acted /\ ~mistaken => plan.nodes[n].cadence # "once"]_vars
  BY ActingFits DEF ReadyIn
<1> QED BY InvAlways, <1>1, PTL DEF Spec, RecordedOnceStays

(* Nothing acts while an open node's own run is known to be rejected.        *)
THEOREM RejectionStopsThePlan == Spec => RejectionBlocks
<1>1. Inv /\ [Next]_vars =>
        [\A n \in Nodes : Acts(n) /\ ~mistaken =>
           \A m \in rt.provisional :
             turn.seen.outcome[m] = "rejected" => plan.nodes[m].status = "completed"]_vars
  BY ActingFits DEF DueFits, RejectionsClosed
<1> QED BY InvAlways, <1>1, PTL DEF Spec, RejectionBlocks

-----------------------------------------------------------------------------
(* What remains of the inbox (complete_external_reviews).                    *)

(* Of natural numbers one is least.                                          *)
LEMMA LeastNumber ==
  ASSUME NEW B \in SUBSET Nat, B # {}
  PROVE  \E k \in B : \A m \in B : k <= m
<1>1. PICK k \in B : \A m \in B : <<m, k>> \notin OpToRel(<, Nat)
  BY NatLessThanWellFounded, WFMin
<1>2. \A m \in B : m \in Nat /\ k \in Nat /\ ~(m < k)
  BY <1>1 DEF OpToRel
<1> QED BY <1>2

(* f takes up the directives of q one by one, but for those of rs.           *)
Filters(f, q, rs, n) ==
  f = [k \in 0 .. n |->
         IF k = 0 THEN <<>>
         ELSE IF q[k] \in rs THEN f[k - 1] ELSE Append(f[k - 1], q[k])]

LEMMA FilterExists ==
  ASSUME NEW q, NEW rs, NEW n \in Nat
  PROVE  \E f : Filters(f, q, rs, n)
<1> DEFINE B == {m \in Nat : ~\E f : Filters(f, q, rs, m)}
<1>1. ASSUME B # {}
      PROVE  FALSE
  <2>1. PICK m \in B : \A l \in B : m <= l
    <3>1. B \in SUBSET Nat
      OBVIOUS
    <3> HIDE DEF B
    <3> QED BY <1>1, <3>1, LeastNumber
  <2>2. m \in Nat /\ ~\E f : Filters(f, q, rs, m)
    BY <2>1
  <2>3. m # 0
    <3> DEFINE f == [k \in 0 .. 0 |-> <<>>]
    <3>1. Filters(f, q, rs, 0)
      BY DEF Filters
    <3> QED BY <2>2, <3>1
  <2>4. m - 1 \in Nat /\ m - 1 \notin B
    BY <2>1, <2>2, <2>3
  <2>5. PICK g : Filters(g, q, rs, m - 1)
    BY <2>4
  <2> HIDE DEF B
  <2> DEFINE last == IF q[m] \in rs THEN g[m - 1] ELSE Append(g[m - 1], q[m])
             f    == [k \in 0 .. m |-> IF k < m THEN g[k] ELSE last]
             next == [k \in 0 .. m |->
                        IF k = 0 THEN <<>>
                        ELSE IF q[k] \in rs THEN f[k - 1] ELSE Append(f[k - 1], q[k])]
  <2>6. \A k \in 0 .. m - 1 :
          g[k] = IF k = 0 THEN <<>>
                 ELSE IF q[k] \in rs THEN g[k - 1] ELSE Append(g[k - 1], q[k])
    BY <2>5 DEF Filters
  <2>7. ASSUME NEW k \in 0 .. m
        PROVE  f[k] = next[k]
    <3>1. CASE k = 0
      BY <2>2, <2>3, <2>4, <2>6, <3>1
    <3>2. CASE k \in 1 .. m - 1
      <4>1. f[k] = g[k] /\ f[k - 1] = g[k - 1]
        BY <2>2, <3>2
      <4> HIDE DEF f
      <4> QED BY <2>2, <2>6, <3>2, <4>1
    <3>3. CASE k = m
      <4>1. f[m] = last /\ f[m - 1] = g[m - 1]
        BY <2>2, <2>3
      <4> HIDE DEF f
      <4> QED BY <2>2, <2>3, <3>3, <4>1
    <3> QED BY <2>2, <3>1, <3>2, <3>3
  <2>8. f = [k \in 0 .. m |-> f[k]] /\ next = [k \in 0 .. m |-> next[k]]
    OBVIOUS
  <2>9. f = next
    <3> HIDE DEF f, next
    <3> QED BY <2>7, <2>8
  <2>10. Filters(f, q, rs, m)
    <3> HIDE DEF f, last
    <3> QED BY <2>9 DEF Filters
  <2> QED BY <2>2, <2>10
<1> QED BY <1>1

(* The outcome of such a run.                                                *)
LEMMA WithoutRuns ==
  ASSUME NEW q, NEW rs, Len(q) \in Nat
  PROVE  \E f : Filters(f, q, rs, Len(q)) /\ Without(q, rs) = f[Len(q)]
<1> DEFINE P(f) == f = [k \in 0 .. Len(q) |->
                          IF k = 0 THEN <<>>
                          ELSE IF q[k] \in rs THEN f[k - 1] ELSE Append(f[k - 1], q[k])]
           h == CHOOSE f : P(f)
<1>1. \A f : Filters(f, q, rs, Len(q)) <=> P(f)
  BY DEF Filters
<1>2. \E f : P(f)
  <2> HIDE DEF P
  <2> QED BY <1>1, FilterExists
<1>3. P(h)
  <2> HIDE DEF P
  <2> QED BY <1>2
<1>4. Without(q, rs) = h[Len(q)]
  BY DEF Without
<1> HIDE DEF P, h
<1> QED BY <1>1, <1>3, <1>4

(* Nothing else is taken away, and the inbox does not grow.                  *)
LEMMA WithoutKeeps ==
  ASSUME NEW T, NEW q \in Seq(T), NEW rs
  PROVE  /\ Without(q, rs) \in Seq(T) /\ Len(Without(q, rs)) <= Len(q)
         /\ Queued(q) \ rs \subseteq Queued(Without(q, rs))
<1> DEFINE n == Len(q)
<1>1. n \in Nat /\ \A k \in 1 .. n : q[k] \in T
  OBVIOUS
<1>2. PICK f : Filters(f, q, rs, n) /\ Without(q, rs) = f[n]
  BY <1>1, WithoutRuns
<1> DEFINE Good(k) == /\ f[k] \in Seq(T) /\ Len(f[k]) <= k
                      /\ \A i \in 1 .. k : q[i] \in rs \/ q[i] \in Queued(f[k])
           B == {k \in Nat : k <= n /\ ~Good(k)}
<1>3. f[0] = <<>>
  BY <1>1, <1>2 DEF Filters
<1>4. ASSUME NEW k \in 1 .. n
      PROVE  f[k] = IF q[k] \in rs THEN f[k - 1] ELSE Append(f[k - 1], q[k])
  <2>1. k \in 0 .. n /\ k # 0
    BY <1>1
  <2> HIDE DEF n
  <2>2. \A i \in 0 .. n :
          f[i] = IF i = 0 THEN <<>>
                 ELSE IF q[i] \in rs THEN f[i - 1] ELSE Append(f[i - 1], q[i])
    BY <1>2 DEF Filters
  <2> QED BY <2>1, <2>2
<1>5. Good(0)
  BY <1>3
<1>6. ASSUME NEW k \in 1 .. n, Good(k - 1)
      PROVE  Good(k)
  <2>1. CASE q[k] \in rs
    BY <1>1, <1>4, <1>6, <2>1
  <2>2. CASE q[k] \notin rs
    <3>1. PICK s \in Seq(T) : s = f[k - 1]
      BY <1>6
    <3>2. f[k] = Append(s, q[k]) /\ q[k] \in T
      BY <1>1, <1>4, <2>2, <3>1
    <3>3. /\ Append(s, q[k]) \in Seq(T) /\ Len(Append(s, q[k])) = Len(s) + 1
          /\ \A i \in 1 .. Len(s) : Append(s, q[k])[i] = s[i]
          /\ Append(s, q[k])[Len(s) + 1] = q[k]
          /\ DOMAIN Append(s, q[k]) = 1 .. Len(s) + 1 /\ DOMAIN s = 1 .. Len(s)
          /\ Len(s) \in Nat
      BY <3>2
    <3>4. Queued(s) \subseteq Queued(Append(s, q[k]))
      BY <3>3 DEF Queued
    <3>5. q[k] \in Queued(Append(s, q[k]))
      BY <3>3 DEF Queued
    <3>6. \A i \in 1 .. k : i \in 1 .. k - 1 \/ i = k
      BY <1>1
    <3>7. \A i \in 1 .. k - 1 : q[i] \in rs \/ q[i] \in Queued(s)
      BY <1>6, <3>1
    <3>8. Len(s) <= k - 1
      BY <1>6, <3>1
    <3> QED BY <1>1, <3>2, <3>3, <3>4, <3>5, <3>6, <3>7, <3>8
  <2> QED BY <2>1, <2>2
<1>7. ASSUME B # {}
      PROVE  FALSE
  <2>1. PICK k \in B : \A l \in B : k <= l
    <3>1. B \in SUBSET Nat
      OBVIOUS
    <3> HIDE DEF B
    <3> QED BY <1>7, <3>1, LeastNumber
  <2> HIDE DEF Good
  <2>2. k \in Nat /\ k <= n /\ ~Good(k)
    BY <2>1
  <2>3. k # 0
    BY <1>5, <2>2
  <2>4. k - 1 \in Nat /\ k - 1 <= n /\ k - 1 \notin B
    BY <1>1, <2>1, <2>2, <2>3
  <2>5. Good(k - 1)
    BY <2>4
  <2> QED BY <1>1, <1>6, <2>2, <2>3, <2>5
<1>8. Good(n)
  <2> HIDE DEF Good
  <2> QED BY <1>1, <1>7
<1>9. Queued(q) \ rs \subseteq Queued(f[n])
  BY <1>1, <1>8 DEF Queued
<1> QED BY <1>1, <1>2, <1>8, <1>9

-----------------------------------------------------------------------------
(* The joint review's directives.                                            *)

TurnRecord == [pc: {turn.pc}, decision: {turn.decision}, id: {turn.id}, rev: {turn.rev},
               seen: {turn.seen}, due: {turn.due}, report: {turn.report},
               rejected: {turn.rejected}, invalid: {turn.invalid}, reviews: {turn.reviews},
               made: {turn.made}]

(* The inbox holds directives of the review, and never more than its limit.  *)
InboxInv == turn \in TurnRecord /\ inbox \in Seq(Reviews) /\ Len(inbox) <= InboxLimit

(* What ReviewKept says of one step.                                         *)
NotLost ==
  \A r \in Queued(inbox) \ Queued(inbox)' :
    \/ r \in turn.reviews
    \/ Len(inbox) = InboxLimit /\ Queued(inbox)' \ Queued(inbox) # {}

GivenAll ==
  turn.pc = "evaluate" /\ turn'.pc \notin {"idle", "evaluate"} =>
    Queued(inbox) \subseteq turn'.reviews

LEMMA InboxInit == Init => InboxInv
<1> SUFFICES ASSUME Init PROVE InboxInv
  OBVIOUS
<1>1. turn \in TurnRecord
  BY DEF Init, Idle, TurnRecord
<1>2. inbox = <<>> /\ InboxLimit \in Nat
  BY PlanAssumption DEF Init, BookInit
<1> QED BY <1>1, <1>2 DEF InboxInv

(* A new directive pushes the oldest out of a full inbox.                    *)
LEMMA DeliverStep ==
  ASSUME InboxInv, NEW r \in Reviews, Deliver(r)
  PROVE  InboxInv' /\ NotLost /\ GivenAll
<1>1. turn' = turn /\ InboxLimit \in Nat \ {0}
  BY PlanAssumption DEF Deliver
<1>2. turn' \in TurnRecord' /\ GivenAll
  BY <1>1 DEF InboxInv, TurnRecord, GivenAll
<1>3. CASE r \in Queued(inbox)
  <2>1. inbox' = inbox
    BY <1>3 DEF Deliver, QueueReview
  <2> QED BY <1>2, <2>1 DEF InboxInv, NotLost, Queued
<1>4. CASE r \notin Queued(inbox)
  <2> DEFINE q == Append(inbox, r)
             n == Len(inbox)
  <2>1. /\ n \in Nat /\ n <= InboxLimit /\ DOMAIN inbox = 1 .. n
        /\ q \in Seq(Reviews) /\ Len(q) = n + 1 /\ DOMAIN q = 1 .. n + 1
        /\ \A i \in 1 .. n : q[i] = inbox[i]
        /\ q[n + 1] = r /\ q # <<>>
    <3>1. inbox \in Seq(Reviews) /\ Len(inbox) <= InboxLimit
      BY DEF InboxInv
    <3>2. /\ Len(inbox) \in Nat /\ DOMAIN inbox = 1 .. Len(inbox)
          /\ Append(inbox, r) \in Seq(Reviews)
          /\ Len(Append(inbox, r)) = Len(inbox) + 1
      BY <3>1
    <3>3. /\ \A i \in 1 .. Len(inbox) : Append(inbox, r)[i] = inbox[i]
          /\ Append(inbox, r)[Len(inbox) + 1] = r
      BY <3>1
    <3>4. DOMAIN Append(inbox, r) = 1 .. Len(inbox) + 1 /\ Append(inbox, r) # <<>>
      BY <3>2
    <3> QED BY <3>1, <3>2, <3>3, <3>4
  <2>2. inbox' = IF Len(q) > InboxLimit THEN Tail(q) ELSE q
    BY <1>4 DEF Deliver, QueueReview
  <2> HIDE DEF q, n
  <2>3. CASE n = InboxLimit
    <3>1. inbox' = Tail(q)
      BY <2>1, <2>2, <2>3
    <3>2. /\ Tail(q) \in Seq(Reviews) /\ Len(Tail(q)) = n /\ DOMAIN Tail(q) = 1 .. n
          /\ n \in 1 .. n /\ Tail(q)[n] = q[n + 1]
      BY <1>1, <2>1, <2>3
    <3>3. r \in Queued(inbox)'
      BY <2>1, <3>1, <3>2 DEF Queued
    <3>4. NotLost
      BY <1>4, <2>3, <3>3 DEF NotLost, n
    <3> QED BY <1>2, <2>3, <3>1, <3>2, <3>4 DEF InboxInv
  <2>4. CASE n # InboxLimit
    <3>1. inbox' = q /\ Len(q) <= InboxLimit
      BY <1>1, <2>1, <2>2, <2>4
    <3>2. Queued(inbox) \subseteq Queued(inbox)'
      BY <2>1, <3>1 DEF Queued
    <3> QED BY <1>2, <2>1, <3>1, <3>2 DEF InboxInv, NotLost
  <2> QED BY <2>3, <2>4
<1> QED BY <1>3, <1>4

(* The model's last answer takes away what the turn was given, nothing else. *)
LEMMA FinishStep ==
  ASSUME InboxInv, ModelFinishes
  PROVE  InboxInv' /\ NotLost /\ GivenAll
<1>1. /\ inbox' = Without(inbox, turn.reviews)
      /\ turn' = Idle /\ turn.pc = "model"
  BY DEF ModelFinishes, CompleteReviews, RemainingInbox, EndTurn
<1>2. turn' \in TurnRecord' /\ GivenAll
  BY <1>1 DEF Idle, TurnRecord, GivenAll
<1>3. inbox \in Seq(Reviews) /\ Len(inbox) <= InboxLimit /\ InboxLimit \in Nat
  BY PlanAssumption DEF InboxInv
<1>4. /\ inbox' \in Seq(Reviews) /\ Len(inbox') <= Len(inbox)
      /\ Queued(inbox) \ turn.reviews \subseteq Queued(inbox')
  BY <1>1, <1>3, WithoutKeeps
<1>5. Len(inbox') \in Nat /\ Len(inbox) \in Nat
  BY <1>3, <1>4
<1>6. Queued(inbox)' = Queued(inbox')
  BY DEF Queued
<1> QED BY <1>2, <1>3, <1>4, <1>5, <1>6 DEF InboxInv, NotLost

(* A turn is given the whole inbox as soon as there is anything in it.       *)
LEMMA GivenStep ==
  ASSUME InboxInv, EvaluateTurn
  PROVE  turn' \in TurnRecord' /\ inbox' = inbox /\ GivenAll
<1> DEFINE dec == Decision(plan.nodes, rt, turn.seen)
<1>1. inbox' = inbox
  BY DEF EvaluateTurn, Evaluate
<1>2. turn'.reviews = IF dec = "external_review" THEN Queued(inbox) ELSE {}
  BY DEF EvaluateTurn, InboxInv, TurnRecord
<1>3. dec # "external_review" => Queued(inbox) = {}
  BY DEF Decision
<1>4. turn' \in TurnRecord'
  BY DEF EvaluateTurn, InboxInv, TurnRecord
<1> HIDE DEF dec
<1> QED BY <1>1, <1>2, <1>3, <1>4 DEF GivenAll

(* edit leaves the inbox alone.                                              *)
LEMMA EditLeavesInbox ==
  ASSUME NEW id, NEW rev, NEW inv, NEW preserve, NEW remove, NEW ups, NEW resume,
         NEW status, Edit(id, rev, inv, preserve, remove, ups, resume, status)
  PROVE  inbox' = inbox
BY DEF Edit

LEMMA InboxStep ==
  ASSUME InboxInv, [Next]_vars
  PROVE  InboxInv' /\ NotLost /\ GivenAll
<1>1. ASSUME inbox' = inbox, turn' \in TurnRecord'
      PROVE  InboxInv' /\ NotLost
  BY <1>1 DEF InboxInv, NotLost, Queued
<1>2. turn' = turn => turn' \in TurnRecord' /\ GivenAll
  BY DEF InboxInv, TurnRecord, GivenAll
<1>3. turn' = Idle => turn' \in TurnRecord' /\ GivenAll
  BY DEF Idle, TurnRecord, GivenAll
<1>4. ASSUME NEW pc, turn' = [turn EXCEPT !.pc = pc], turn.pc # "evaluate"
      PROVE  turn' \in TurnRecord' /\ GivenAll
  BY <1>4 DEF InboxInv, TurnRecord, GivenAll
<1>5. CASE NewSave \/ ChatInspect \/ UNCHANGED vars
  BY <1>1, <1>2, <1>5 DEF NewSave, ChatInspect
<1>6. ASSUME NEW r \in Reviews, Deliver(r) PROVE InboxInv' /\ NotLost /\ GivenAll
  BY <1>6, DeliverStep
<1>7. CASE ChatCreate \/ ChatEdit
  <2>1. turn' = turn
    BY <1>7 DEF ChatCreate, ChatEdit
  <2>2. inbox' = inbox
    <3>1. ASSUME ChatCreate
          PROVE  inbox' = inbox
      BY <3>1 DEF ChatCreate, NewPlan, Create
    <3>2. ASSUME ChatEdit
          PROVE  inbox' = inbox
      BY <3>2, EditLeavesInbox DEF ChatEdit
    <3> QED BY <1>7, <3>1, <3>2
  <2> QED BY <1>1, <1>2, <2>1, <2>2
<1>8. CASE BeginTurn
  <2>1. turn' \in TurnRecord' /\ GivenAll /\ inbox' = inbox
    BY <1>8 DEF BeginTurn, InboxInv, TurnRecord, GivenAll
  <2> QED BY <1>1, <2>1
<1>9. CASE EvaluateTurn
  BY <1>1, <1>9, GivenStep
<1>10. CASE ActContinue \/ ActAdvisory \/ ActRecord \/ AdviserContinues \/ AdviserPatches
            \/ ModelFails \/ Crash
  <2>1. turn' = Idle
    BY <1>10 DEF ActContinue, ActAdvisory, ActRecord, AdviserContinues, AdviserPatches,
                 ModelFails, Crash, EndTurn
  <2>2. inbox' = inbox
    <3>1. ASSUME AdviserPatches
          PROVE  inbox' = inbox
      BY <3>1, EditLeavesInbox DEF AdviserPatches
    <3>2. ASSUME ActRecord
          PROVE  inbox' = inbox
      BY <3>2 DEF ActRecord, RecordAction
    <3>3. ASSUME AdviserContinues
          PROVE  inbox' = inbox
      BY <3>3 DEF AdviserContinues, AcceptAnomaly
    <3> QED BY <1>10, <3>1, <3>2, <3>3 DEF ActContinue, ActAdvisory, ModelFails, Crash
  <2> QED BY <1>1, <1>3, <2>1, <2>2
<1>11. CASE ActPrepare \/ ActCommit \/ ActExecute \/ ActError \/ AdviserEscalates
  <2>1. PICK pc : turn' = [turn EXCEPT !.pc = pc]
    BY <1>11 DEF ActPrepare, ActCommit, ActExecute, ActError, AdviserEscalates, Goto
  <2>2. turn.pc # "evaluate" /\ inbox' = inbox
    BY <1>11 DEF ActPrepare, ActCommit, ActExecute, ActError, AdviserEscalates
  <2> QED BY <1>1, <1>4, <2>1, <2>2
<1>12. CASE ModelEdits
  <2>1. turn' = [turn EXCEPT !.rev = @ + 1] /\ turn.pc = "model" /\ inbox' = inbox
    BY <1>12, EditLeavesInbox DEF ModelEdits
  <2>2. turn' \in TurnRecord' /\ GivenAll
    BY <2>1 DEF InboxInv, TurnRecord, GivenAll
  <2> QED BY <1>1, <2>1, <2>2
<1>13. CASE ModelCreates
  <2>1. PICK p \in PlanIds : turn' = [turn EXCEPT !.id = p, !.rev = 1]
    BY <1>13 DEF ModelCreates
  <2>2. turn.pc = "model" /\ inbox' = inbox
    BY <1>13 DEF ModelCreates, NewPlan, Create
  <2>3. turn' \in TurnRecord' /\ GivenAll
    BY <2>1, <2>2 DEF InboxInv, TurnRecord, GivenAll
  <2> QED BY <1>1, <2>2, <2>3
<1>14. CASE ModelFinishes
  BY <1>14, FinishStep
<1> QED BY <1>5, <1>6, <1>7, <1>8, <1>9, <1>10, <1>11, <1>12, <1>13, <1>14
        DEF Next, TurnStep

(* No directive is lost or passed over, whatever plan ids the models choose  *)
(* (complete_external_reviews, and the first branch of evaluate).            *)
THEOREM ReviewsKept == Spec => ReviewKept
<1>1. InboxInv /\ [Next]_vars => InboxInv'
  BY InboxStep
<1>2. InboxInv /\ [Next]_vars =>
        [/\ \A r \in Queued(inbox) \ Queued(inbox)' :
              \/ r \in turn.reviews
              \/ Len(inbox) = InboxLimit /\ Queued(inbox)' \ Queued(inbox) # {}
         /\ turn.pc = "evaluate" /\ turn'.pc \notin {"idle", "evaluate"} =>
              Queued(inbox) \subseteq turn'.reviews]_vars
  BY InboxStep DEF NotLost, GivenAll
<1> QED BY InboxInit, <1>1, <1>2, PTL DEF Spec, ReviewKept
=============================================================================
