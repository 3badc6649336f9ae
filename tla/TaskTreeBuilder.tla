--------------------------- MODULE TaskTreeBuilder ----------------------------
(***************************************************************************)
(* Recording a task tree and compiling it.                                 *)
(*                                                                         *)
(* The fluent builder grows a node sequence one node at a time; an append  *)
(* whose level does not continue the tree is rejected.  compile_plan turns *)
(* the sequence into static tables and accepts it only if ValidatePlan     *)
(* reports "ok".                                                           *)
(***************************************************************************)
EXTENDS CompiledPlan

(* What one program writes: the tasks and fan-out policies it gives its    *)
(* nodes and, as a bound for model checking only, the most nodes.  A task  *)
(* that forwards its parent's output is bound to it once, as a mutable     *)
(* borrow; binding refuses any other.                                      *)
CONSTANT Menus

ASSUME MenuAssumption ==
  \A m \in Menus :
    /\ \A t \in m.tasks :
         /\ t.kind \in Kinds
         /\ t.specs \in Seq(PrevAccessKinds)
         /\ t.kind = "forward_prev" => t.specs = <<"borrow_mut">>
    /\ m.fanouts \subseteq FanoutPolicies
    /\ m.max_nodes \in Nat \ {0}

VARIABLES
  menu,     \* what this program writes; chosen once
  nodes,    \* the builder's recorded nodes
  verdict   \* "building", or what compiling reported

vars == <<menu, nodes, verdict>>

Init ==
  /\ menu \in Menus
  /\ nodes = <<>>
  /\ verdict = "building"

AppendNode(level, task, fanout) ==
  /\ verdict = "building"
  /\ Len(nodes) < menu.max_nodes
  /\ AppendLevelValid(nodes, level)
  /\ nodes' = Append(nodes, [level |-> level, task |-> task, fanout |-> fanout])
  /\ UNCHANGED <<menu, verdict>>

Compile ==
  /\ verdict = "building"
  /\ nodes # <<>>
  /\ verdict' = ValidatePlan(CompiledTables(nodes))
  /\ UNCHANGED <<menu, nodes>>

Next ==
  \/ \E level \in 0 .. menu.max_nodes - 1, task \in menu.tasks, fanout \in menu.fanouts :
       AppendNode(level, task, fanout)
  \/ Compile

Spec == Init /\ [][Next]_vars

-------------------------------------------------------------------------------
(* Properties of everything that can be recorded, and of what compiling    *)
(* accepts.                                                                *)

Recorded == nodes # <<>>
Accepted == verdict = "ok"

tables == CompiledTables(nodes)

(* The tables computed from levels alone are the tree that was written:    *)
(* the flattened child ranges list exactly the nodes whose recovered       *)
(* parent is theirs, one level deeper, and walking them depth first visits *)
(* the nodes in recording order: a node's first child follows it directly, *)
(* each later child the last descendant of the child before it, and the    *)
(* walk from the first node reaches them all.                              *)
ChildRangesArePreorder ==
  Recorded =>
    LET t == tables
    IN  /\ Subtree(t, 0) = NodesOf(t)
        /\ \A i \in NodesOf(t) :
             /\ Children(t, i) = {c \in NodesOf(t) : t.parent[c] = i}
             /\ \A c \in Children(t, i) : t.level[c] = t.level[i] + 1
             /\ \A ord \in 0 .. t.child_counts[i] - 1 :
                  ChildAt(t, i, ord) =
                    1 + IF ord = 0 THEN i ELSE Largest(Subtree(t, ChildAt(t, i, ord - 1)))

(* The tables of an accepted plan have, in both layouts, everything the     *)
(* executors and the theorems about them rely on.                          *)
AcceptedPlansAreWellFormed ==
  Accepted => \A layout \in LayoutPolicies : WellFormed(CompilePlan(nodes, layout))

(* Two payloads that can be live together, those of a node and of one of   *)
(* its ancestors, never share a physical slot in either layout; and the    *)
(* compact layout allocates no more slots than some root path fills.       *)
PathSlotsAreDistinct ==
  Accepted =>
    \A layout \in LayoutPolicies :
      LET p == CompilePlan(nodes, layout)
      IN  /\ \A i, j \in NodesOf(p) :
               /\ PayloadNode(p, i) /\ PayloadNode(p, j)
               /\ i # j /\ i \in RootPath(p, j)
               => p.slot[i] # p.slot[j]
          /\ layout = "compact" /\ p.n_slots > 0 =>
               \E j \in NodesOf(p) :
                 p.n_slots = Cardinality({i \in RootPath(p, j) : PayloadNode(p, i)})

(* Every task of an accepted plan that reads its parent's output finds one *)
(* of its own type: the canonical owner is an owned payload on its root    *)
(* path, reached through forward-prev nodes only.                          *)
ReadersHaveASource ==
  Accepted =>
    \A d \in NodesOf(tables) :
      UsesPrevAccess(tables.task[d]) =>
        /\ tables.parent[d] # tables.n
        /\ LET o == CanonicalOwners(tables)[tables.parent[d]]
           IN  /\ o \in RootPath(tables, tables.parent[d])
               /\ PayloadNode(tables, o)
               /\ \A f \in RootPath(tables, tables.parent[d]) :
                    f > o => /\ IsForwardPrev(tables.task[f])
                             /\ tables.task[f].type = tables.task[o].type

(* In an accepted plan a task that consumes a payload is the last of its   *)
(* direct readers to run: nobody reads a moved-from object, whichever      *)
(* forward-prev nodes lie between the readers and the owner.               *)
ConsumerReadsLast == Accepted => ConsumersReadLast(tables)

(* compile_plan and run_plan check the same rules, each in its own way, and *)
(* agree: every plan that compiles can be run, and but for the one rule     *)
(* that only compile_plan has, on the types of forwarded outputs, no plan   *)
(* that does not compile would pass run_plan's.                             *)
ValidatorsAgree ==
  verdict # "building" =>
    /\ Accepted => RunPlanAccepts(tables)
    /\ RunPlanRules(tables) => Accepted \/ verdict = "forward_prev_parent_type_mismatch"

-------------------------------------------------------------------------------
(* What the comment on fanout_auto_policy promises: a node at most one of  *)
(* whose direct children uses prev access lets that child use any access.  *)
DocumentedAutoFanoutValid(p, i) ==
  LET readers == {c \in Children(p, i) : UsesPrevAccess(p.task[c])}
  IN  Cardinality(readers) <= 1 \/ ExclusiveChildren(p, i) = {}

(* A plan whose fan-outs are all automatic is rejected for its fan-out     *)
(* only if it breaks the documented rule.                                  *)
AutoFanoutAsDocumented ==
  verdict = "fanout_policy_invalid"
    => \E i \in NodesOf(tables) :
         tables.fanout[i] # "auto" \/ ~DocumentedAutoFanoutValid(tables, i)

===============================================================================
