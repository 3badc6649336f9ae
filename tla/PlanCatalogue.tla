---------------------------- MODULE PlanCatalogue -----------------------------
(***************************************************************************)
(* Finite sets of accepted plans to run the executors on: every tree of a  *)
(* given size over a menu of tasks and fan-out policies that compile_plan  *)
(* accepts, in both slot layouts.  A leaf's fan-out policy has no effect   *)
(* and is fixed.                                                           *)
(***************************************************************************)
EXTENDS CompiledPlan

MenuTask(kind, specs) == [kind |-> kind, type |-> "T", specs |-> specs, retry |-> FALSE]

LevelSequences(size) ==
  {levels \in [1 .. size -> 0 .. size - 1] :
     \A k \in 1 .. size :
       AppendLevelValid([j \in 1 .. k - 1 |-> [level |-> levels[j]]], levels[k])}

NodeSequences(size, tasks, fanouts) ==
  {[k \in 1 .. size |-> [level |-> levels[k], task |-> choice[k], fanout |-> fan[k]]] :
     levels \in LevelSequences(size), choice \in [1 .. size -> tasks], fan \in [1 .. size -> fanouts]}

IsLeaf(recorded, k) == k = Len(recorded) \/ recorded[k + 1].level <= recorded[k].level

AcceptedPlans(size, tasks, fanouts, layouts) ==
  {CompilePlan(recorded, layout) :
     layout \in layouts,
     recorded \in {r \in NodeSequences(size, tasks, fanouts) :
                     /\ \A k \in 1 .. size : IsLeaf(r, k) => r[k].fanout = "auto"
                     /\ Compiles(r)}}

-------------------------------------------------------------------------------
(* Every result protocol, and every way the parent's output is reached.    *)
MCTasks ==
  { MenuTask("step", <<>>),
    MenuTask("value", <<>>),
    MenuTask("task_result", <<>>),
    MenuTask("direct_out", <<>>),
    MenuTask("value", <<"consume">>),
    MenuTask("task_result", <<"copy">>),
    MenuTask("forward_prev", <<"borrow_mut">>) }

(* Fewer tasks, for deeper and wider trees.                                *)
MCFewTasks ==
  { MenuTask("task_result", <<>>),
    MenuTask("value", <<"consume">>),
    MenuTask("direct_out", <<"copy">>),
    MenuTask("forward_prev", <<"borrow_mut">>) }

MCFanouts == {"auto", "consume_with_copies"}

MCPlans ==
  AcceptedPlans(3, MCTasks, MCFanouts, LayoutPolicies)
    \cup AcceptedPlans(4, MCFewTasks, MCFanouts, LayoutPolicies)

===============================================================================
