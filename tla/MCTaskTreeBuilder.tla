-------------------------- MODULE MCTaskTreeBuilder ---------------------------
(***************************************************************************)
(* Small instances of the task-tree builder.                               *)
(***************************************************************************)
EXTENDS TaskTreeBuilder

MCTask(kind, type, specs, retry) ==
  [kind |-> kind, type |-> type, specs |-> specs, retry |-> retry]

(* One task: the shapes of the trees are what matters.                     *)
MCShapeTasks == {MCTask("value", "T", <<>>, FALSE)}

(* Every result protocol and every way of using the parent's output.       *)
MCRuleTasks ==
  { MCTask("value", "T", <<>>, FALSE),
    MCTask("step", "T", <<>>, FALSE),
    MCTask("task_result", "U", <<"borrow">>, FALSE),
    MCTask("value", "T", <<"copy">>, FALSE),
    MCTask("direct_out", "T", <<"consume">>, FALSE),
    MCTask("forward_prev", "T", <<"borrow_mut">>, FALSE) }

MCMenu(tasks, fanouts, max_nodes) ==
  [tasks |-> tasks, fanouts |-> fanouts, max_nodes |-> max_nodes]

(* All shapes of larger trees, and every rule on smaller ones.             *)
MCMenus == {MCMenu(MCShapeTasks, {"auto"}, 7), MCMenu(MCRuleTasks, FanoutPolicies, 4)}

(* Fan-outs that are all automatic.                                        *)
MCAutoMenus == {MCMenu(MCRuleTasks, {"auto"}, 3)}

===============================================================================
