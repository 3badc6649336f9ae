----------------------------- MODULE CompiledPlan -----------------------------
(***************************************************************************)
(* The static side of a run: everything compile_plan and run_plan derive   *)
(* from a recorded node sequence and a slot layout policy before the first *)
(* task starts.                                                            *)
(***************************************************************************)
EXTENDS PlanLayout, SlotLayout

(* The static tables of a compiled_plan.                                   *)
CompiledTables(nodes) ==
  LET n       == Len(nodes)
      levels  == MakeLevelArray(nodes)
      parents == MakeParentIndexArray(levels, n)
      kids    == MakeChildLayout(parents, n)
  IN  [ n             |-> n,
        max_level     |-> MaxLevel(levels),
        level         |-> levels,
        parent        |-> parents,
        child_counts  |-> kids.counts,
        child_offsets |-> kids.offsets,
        child_indices |-> kids.indices,
        task          |-> [i \in 0 .. n - 1 |-> nodes[i + 1].task],
        fanout        |-> [i \in 0 .. n - 1 |-> nodes[i + 1].fanout] ]

(* What run_plan<LayoutPolicy> instantiates over a compiled plan p: the    *)
(* node -> canonical owner and node -> slot tables, the slot policies, and *)
(* the two staging predicates.                                             *)
RunTables(p, layout) ==
  [ n |-> p.n, max_level |-> p.max_level, level |-> p.level, parent |-> p.parent,
    child_counts  |-> p.child_counts,
    child_offsets |-> p.child_offsets,
    child_indices |-> p.child_indices,
    task          |-> p.task,
    fanout        |-> p.fanout,
    layout        |-> layout,
    owner         |-> CanonicalOwners(p),
    slot          |-> PhysicalSlotIndices(p, layout),
    n_slots       |-> PhysicalSlotCount(p, layout),
    slot_policy   |-> PhysicalSlotPolicies(p, layout),
    staging       |-> [i \in NodesOf(p) |-> RequiresFanoutStaging(p, i)],
    staged_copy   |-> [i \in NodesOf(p) |-> UsesStagedCopyPrev(p, i)] ]

CompilePlan(nodes, layout) == RunTables(CompiledTables(nodes), layout)

(* compile_plan and run_plan accept a node sequence.                       *)
Compiles(nodes) == nodes # <<>> /\ ValidatePlan(CompiledTables(nodes)) = "ok"

-------------------------------------------------------------------------------
(* Reference notions of the tree, for properties.                          *)

(* The nodes from the root to node i, both included.                       *)
RootPath(p, i) ==
  LET path[j \in NodesOf(p)] ==
        {j} \cup (IF p.parent[j] = p.n THEN {} ELSE path[p.parent[j]])
  IN  path[i]

Subtree(p, i) == {j \in NodesOf(p) : i \in RootPath(p, j)}

(* The nodes that read a payload straight from canonical owner o, and not  *)
(* from a staged copy.                                                     *)
DirectReaders(p, o) ==
  {d \in NodesOf(p) :
     /\ UsesPrevAccess(p.task[d])
     /\ p.parent[d] # p.n
     /\ CanonicalOwners(p)[p.parent[d]] = o
     /\ ~UsesStagedCopyPrev(p, d)}

(* Nobody reads a payload after it has been consumed.                      *)
ConsumersReadLast(p) ==
  \A o \in NodesOf(p) :
    \A c, d \in DirectReaders(p, o) :
      c # d /\ ConsumeOnly(p.task[c]) => d < c

-------------------------------------------------------------------------------
(* What the executors rely on in the tables of an accepted plan.           *)

(* Following child ranges goes one level down and back up to the parent,   *)
(* every node but the root is in its parent's range, and the nodes are     *)
(* numbered in preorder: children in rising order after their parent, and  *)
(* a subtree without gaps.                                                 *)
TreeWellFormed(p) ==
  /\ p.n \in Nat \ {0}
  /\ p.max_level \in Nat
  /\ p.level \in [NodesOf(p) -> 0 .. p.max_level]
  /\ p.level[0] = 0
  /\ p.parent \in [NodesOf(p) -> 0 .. p.n]
  /\ p.child_counts \in [NodesOf(p) -> Nat]
  /\ \A i \in NodesOf(p) : \A ord \in 0 .. p.child_counts[i] - 1 :
       /\ ChildAt(p, i, ord) \in NodesOf(p)
       /\ p.parent[ChildAt(p, i, ord)] = i
       /\ p.level[ChildAt(p, i, ord)] = p.level[i] + 1
       /\ \A later \in ord + 1 .. p.child_counts[i] - 1 :
            ChildAt(p, i, ord) < ChildAt(p, i, later)
  /\ \A i \in NodesOf(p) : p.parent[i] = p.n <=> i = 0
  /\ \A i \in NodesOf(p) \ {0} : p.parent[i] < i /\ i \in Children(p, p.parent[i])
  /\ \A i, j \in NodesOf(p) :
       p.parent[j] < i /\ i < j => p.parent[i] # p.n /\ p.parent[j] <= p.parent[i]

(* Owned payloads have slots, with a flag where a payload may be missing.  *)
(* In a one-to-one layout no two share one, and a slot has a flag only if  *)
(* its node needs it; in a compact one they are numbered by the owned      *)
(* payloads above them.                                                    *)
SlotsWellFormed(p) ==
  /\ p.layout \in LayoutPolicies
  /\ p.n_slots \in Nat
  /\ p.slot_policy \in [0 .. p.n_slots - 1 -> {"must_payload", "maybe_payload"}]
  /\ \A i \in NodesOf(p) : PayloadNode(p, i) => p.slot[i] \in 0 .. p.n_slots - 1
  /\ \A i \in NodesOf(p) :
       PayloadNode(p, i) /\ p.task[i].kind # "value"
         => p.slot_policy[p.slot[i]] = "maybe_payload"
  /\ p.layout = "compact" =>
       \A i \in NodesOf(p) : PayloadNode(p, i) => p.slot[i] = PayloadDepths(p)[i] - 1
  /\ p.layout = "one_to_one" =>
       \A i \in NodesOf(p) : PayloadNode(p, i) =>
         /\ p.slot_policy[p.slot[i]] = SlotLogicalPolicy(p.task[i])
         /\ \A j \in NodesOf(p) : PayloadNode(p, j) /\ p.slot[i] = p.slot[j] => i = j

(* Tasks are known, a task that needs its parent's output has a parent     *)
(* with one, and a payload is consumed by the last task that reads it.     *)
TasksWellFormed(p) ==
  /\ p.owner = CanonicalOwners(p)
  /\ p.staging = [i \in NodesOf(p) |-> RequiresFanoutStaging(p, i)]
  /\ p.staged_copy = [i \in NodesOf(p) |-> UsesStagedCopyPrev(p, i)]
  /\ \A i \in NodesOf(p) :
       /\ p.task[i].kind \in Kinds
       /\ p.task[i].specs \in Seq(PrevAccessKinds)
       /\ UsesPrevAccess(p.task[i]) \/ IsForwardPrev(p.task[i]) => HasParentOutput(p, i)
  /\ ConsumersReadLast(p)

WellFormed(p) == TreeWellFormed(p) /\ SlotsWellFormed(p) /\ TasksWellFormed(p)

===============================================================================
