---------------------------- MODULE MCPlanTurns -----------------------------
(* Bounded instances of PlanTurns: two nodes, one watched fact.     *)
EXTENDS PlanTurns, TLC

Cond(f, vs) == [fact |-> f, pass |-> vs]

Node == [status |-> "planned", parent |-> {}, deps |-> {}, activation |-> {},
         expect |-> {}, stop |-> {}, complete |-> {},
         policy |-> "deterministic", cadence |-> "no_action", mode |-> "after_success"]

High   == Cond("f", {"hi"})
Either    == Cond("f", {"hi", "lo"})

(* A node that acts once while f is high.                                   *)
ActOnce   == [Node EXCEPT !.cadence = "once", !.expect = {High}]
(* A follow-up of node 1 that acts at each change of f.                     *)
Follow    == [Node EXCEPT !.deps = {1}, !.cadence = "each_state_change",
                          !.mode = "wait_for_conditions", !.stop = {Cond("f", {"lo"})}]
(* The same, free-standing, and one that only decides.                      *)
Repeat    == [Node EXCEPT !.cadence = "each_state_change",
                          !.mode = "wait_for_conditions", !.expect = {Either}]
Decide    == [Node EXCEPT !.parent = {1}, !.policy = "model_on_activation",
                          !.activation = {Cond("f", {"lo"})}, !.complete = {High}]
(* A replacement an editor writes: node 1 made a follower of 2, a cycle     *)
(* when 2 follows 1.                                                        *)
Swap      == [Node EXCEPT !.deps = {2}, !.cadence = "once"]

(* Acts once and is complete when f is high; and one that follows it.       *)
ActUntil  == [Node EXCEPT !.cadence = "once", !.mode = "wait_for_conditions", !.complete = {High}]
Successor   == [Node EXCEPT !.deps = {1}, !.cadence = "once"]

MCDocs    == {ActUntil, Successor, ActOnce, Follow, Repeat, Decide, Swap}
MCDrafts  == {<<ActOnce, Decide>>}
HighLow   == {"f" :> "hi", "f" :> "lo"}

OneUpserts  == {<<>>, 1 :> Swap, 2 :> Repeat, 2 :> Follow}
NoUpserts   == {<<>>}
UntilDraft  == {<<ActUntil, Successor>>}

(* The ids are alike but for their names: the first plan takes "p", the     *)
(* second one "p" again, or "q".                                            *)
FirstIsP == made = 1 => plan.id = "p"
=============================================================================
