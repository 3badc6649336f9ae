------------------------------ MODULE PlanTraits ------------------------------
(***************************************************************************)
(* What a compiled plan knows statically about its tasks: where a task's   *)
(* output lives, how it uses its direct parent's output, and the rules     *)
(* compile_plan and run_plan enforce before anything runs.                 *)
(*                                                                         *)
(* A task is a record                                                      *)
(*   kind  : the result protocol ("void", "step", "value", "task_result",  *)
(*           "direct_out" or "forward_prev")                               *)
(*   type  : its logical output type (meaningful when the output is not    *)
(*           void)                                                         *)
(*   specs : the prev-access specs of its parameters and receiver, by      *)
(*           position, each "borrow", "borrow_mut", "copy" or "consume"    *)
(*   retry : whether a retry adapter wraps it                              *)
(* and p is a plan with fields n, parent, child_counts, child_offsets,     *)
(* child_indices, task and fanout.                                         *)
(***************************************************************************)
EXTENDS Integers, Sequences, FiniteSets

Kinds == {"void", "step", "value", "task_result", "direct_out", "forward_prev"}

PrevAccessKinds == {"borrow", "borrow_mut", "copy", "consume"}

FanoutPolicies == {"auto", "shared_readonly", "consume_with_copies"}

-------------------------------------------------------------------------------
(* Output storage.                                                         *)

OutputIsVoid(task) == task.kind \in {"void", "step"}

OutputStorageMode(task) ==
  CASE OutputIsVoid(task)          -> "none"
    [] task.kind = "forward_prev"  -> "forwarded_prev"
    [] OTHER                       -> "owned"

SlotLogicalPolicy(task) ==
  CASE task.kind = "value"                       -> "must_payload"
    [] task.kind \in {"task_result", "direct_out"} -> "maybe_payload"
    [] OTHER                                     -> "none"

(* The statuses an invocation of the task can report to the executor:      *)
(* only tasks that return a step can report anything but success.          *)
TaskStatuses(task) ==
  IF task.kind \in {"void", "value"}
    THEN {"success"}
    ELSE {"success", "failure", "retry", "abort_branch", "abort_execution"}

-------------------------------------------------------------------------------
(* Prev-access summary of one task.                                        *)

PrevCount(task, kinds) ==
  Cardinality({k \in DOMAIN task.specs : task.specs[k] \in kinds})

UsesPrevAccess(task)      == PrevCount(task, PrevAccessKinds) # 0
ExclusiveCount(task)      == PrevCount(task, {"borrow_mut", "consume"})
UsesExclusivePrev(task)   == ExclusiveCount(task) # 0
ConsumeOnly(task)         == PrevCount(task, {"consume"}) # 0

CopyOnly(task) ==
  /\ PrevCount(task, {"copy"}) # 0
  /\ PrevCount(task, PrevAccessKinds \ {"copy"}) = 0

(* Fault: retrying is not looked at.                                       *)
TaskPrevAccessValidOnce(task) ==
  \/ ExclusiveCount(task) = 0
  \/ ExclusiveCount(task) = 1 /\ PrevCount(task, PrevAccessKinds) = 1

(* Locally valid: an exclusive access is the task's only prev access, and  *)
(* a retried task does not consume.                                        *)
TaskPrevAccessValid(task) ==
  /\ \/ ExclusiveCount(task) = 0
     \/ ExclusiveCount(task) = 1 /\ PrevCount(task, PrevAccessKinds) = 1
  /\ task.retry => PrevCount(task, {"consume"}) = 0

-------------------------------------------------------------------------------
(* Fan-out.                                                                *)

NodesOf(p) == 0 .. p.n - 1

ChildAt(p, i, ord) == p.child_indices[p.child_offsets[i] + ord]

Children(p, i) == {ChildAt(p, i, ord) : ord \in 0 .. p.child_counts[i] - 1}

(* Fault: consume is not counted as exclusive.                             *)
MutablyBorrowingChildren(p, i) ==
  {c \in Children(p, i) : PrevCount(p.task[c], {"borrow_mut"}) # 0}

ExclusiveChildren(p, i) == {c \in Children(p, i) : UsesExclusivePrev(p.task[c])}
CopyOnlyChildren(p, i)  == {c \in Children(p, i) : CopyOnly(p.task[c])}
ConsumeChildren(p, i)   == {c \in Children(p, i) : ConsumeOnly(p.task[c])}

ParentFanoutPolicyValid(p, i) ==
  \/ p.child_counts[i] = 0
  \/ /\ p.fanout[i] = "auto"
     /\ p.child_counts[i] <= 1 \/ ExclusiveChildren(p, i) = {}
  \/ /\ p.fanout[i] = "shared_readonly"
     /\ ExclusiveChildren(p, i) = {}
  \/ /\ p.fanout[i] = "consume_with_copies"
     /\ \A c \in Children(p, i) :
          UsesPrevAccess(p.task[c]) => CopyOnly(p.task[c]) \/ ConsumeOnly(p.task[c])
     /\ Cardinality(ConsumeChildren(p, i)) <= 1

(* The parent's payload is copied aside before its children start.         *)
RequiresFanoutStaging(p, i) ==
  /\ p.fanout[i] = "consume_with_copies"
  /\ Cardinality(ConsumeChildren(p, i)) = 1
  /\ CopyOnlyChildren(p, i) # {}

UsesStagedCopyPrev(p, i) ==
  /\ p.parent[i] # p.n
  /\ RequiresFanoutStaging(p, p.parent[i])
  /\ CopyOnly(p.task[i])

-------------------------------------------------------------------------------
(* Whole-plan validation, in the order the errors are reported.            *)

IsForwardPrev(task) == task.kind = "forward_prev"

RootPrevAccess(p, i) ==
  /\ ~IsForwardPrev(p.task[i])
  /\ UsesPrevAccess(p.task[i])
  /\ p.parent[i] = p.n

(* Fault: a parent that returns a bare step counts as having an output.    *)
VoidReturningParentPrevAccess(p, i) ==
  /\ ~IsForwardPrev(p.task[i])
  /\ UsesPrevAccess(p.task[i])
  /\ p.parent[i] # p.n
  /\ p.task[p.parent[i]].kind = "void"

VoidParentPrevAccess(p, i) ==
  /\ ~IsForwardPrev(p.task[i])
  /\ UsesPrevAccess(p.task[i])
  /\ p.parent[i] # p.n
  /\ OutputIsVoid(p.task[p.parent[i]])

RootForwardPrev(p, i) == IsForwardPrev(p.task[i]) /\ p.parent[i] = p.n

VoidParentForwardPrev(p, i) ==
  /\ IsForwardPrev(p.task[i])
  /\ p.parent[i] # p.n
  /\ OutputIsVoid(p.task[p.parent[i]])

(* Fault: only parents that return a plain value are compared.             *)
MismatchedForwardPrevValueParentType(p, i) ==
  /\ IsForwardPrev(p.task[i])
  /\ p.parent[i] # p.n
  /\ p.task[p.parent[i]].kind = "value"
  /\ p.task[i].type # p.task[p.parent[i]].type

MismatchedForwardPrevParentType(p, i) ==
  /\ IsForwardPrev(p.task[i])
  /\ p.parent[i] # p.n
  /\ ~OutputIsVoid(p.task[p.parent[i]])
  /\ p.task[i].type # p.task[p.parent[i]].type

ValidatePlan(p) ==
  LET some(Bad(_, _)) == \E i \in NodesOf(p) : Bad(p, i)
  IN  IF some(RootPrevAccess)             THEN "prev_access_root_node"
      ELSE IF some(VoidParentPrevAccess)  THEN "prev_access_void_parent"
      ELSE IF some(RootForwardPrev)       THEN "forward_prev_root_node"
      ELSE IF some(VoidParentForwardPrev) THEN "forward_prev_void_parent"
      ELSE IF some(MismatchedForwardPrevParentType)
                                          THEN "forward_prev_parent_type_mismatch"
      ELSE IF \E i \in NodesOf(p) : ~TaskPrevAccessValid(p.task[i])
                                          THEN "prev_access_mode_invalid"
      ELSE IF \E i \in NodesOf(p) : ~ParentFanoutPolicyValid(p, i)
                                          THEN "fanout_policy_invalid"
      ELSE "ok"

-------------------------------------------------------------------------------
(* The rules run_plan asks for once more, rule by rule instead of error by *)
(* error.                                                                  *)

HasParentOutput(p, i) == p.parent[i] # p.n /\ ~OutputIsVoid(p.task[p.parent[i]])

(* A forward-prev task is left to the next rule.                           *)
NodePrevSourceValid(p, i) ==
  UsesPrevAccess(p.task[i]) => IsForwardPrev(p.task[i]) \/ HasParentOutput(p, i)

(* Fault: what the parent forwards itself does not count as its output.    *)
NodeForwardPrevOwnedSourceValid(p, i) ==
  IsForwardPrev(p.task[i]) =>
    p.parent[i] # p.n /\ OutputStorageMode(p.task[p.parent[i]]) = "owned"

NodeForwardPrevSourceValid(p, i) == IsForwardPrev(p.task[i]) => HasParentOutput(p, i)

RunPlanRules(p) ==
  \A i \in NodesOf(p) :
    /\ NodePrevSourceValid(p, i)
    /\ TaskPrevAccessValid(p.task[i])
    /\ NodeForwardPrevSourceValid(p, i)
    /\ ParentFanoutPolicyValid(p, i)

RunPlanAccepts(p) == p.n > 0 /\ ValidatePlan(p) = "ok" /\ RunPlanRules(p)

===============================================================================
