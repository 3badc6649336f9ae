--------------------------- MODULE MCPlanExecSlots ----------------------------
(* Values for model-checking PlanExecSlots.                                *)
EXTENDS PlanExecSlots

P == INSTANCE PlanCatalogue

(* Four nodes let a forwarding node's owner share its slot with a sibling. *)
StorageTasks ==
  { P!MenuTask("step", <<>>),
    P!MenuTask("value", <<>>),
    P!MenuTask("task_result", <<>>),
    P!MenuTask("forward_prev", <<"borrow_mut">>) }

StoragePlans ==
  P!AcceptedPlans(3, P!MCTasks, {"auto"}, LayoutPolicies)
    \cup P!AcceptedPlans(4, StorageTasks, {"auto"}, LayoutPolicies)


===============================================================================
