------------------------------- MODULE RunPlan --------------------------------
(***************************************************************************)
(* The state of one run_plan call and the operations an executor performs  *)
(* on it.                                                                  *)
(*                                                                         *)
(* run_plan creates the payload slots and the fan-out stages, hands them   *)
(* to the selected executor, and on the way out (return or exception)      *)
(* destroys first the fan-out state, then the slots.  The executors extend *)
(* this module with their traversal.                                       *)
(*                                                                         *)
(* Only payload construction can throw: the library requires noexcept      *)
(* tasks, but moving a returned payload into its slot and copying a        *)
(* payload into a fan-out stage use the payload's own constructors.        *)
(***************************************************************************)
EXTENDS CompiledPlan

CONSTANTS
  Plans,      \* the plans and slot layouts that may be run
  MayThrow    \* whether payload constructors may throw

ASSUME PlansAssumption == \A p \in Plans : WellFormed(p)
ASSUME MayThrowAssumption == MayThrow \in BOOLEAN

VARIABLES
  plan,         \* the plan being run, with its layout; never changes
  pc,           \* "dfs", "fanout_dtor", "slots_dtor" or "done"
  result,       \* what run_plan returns; "exception" if it throws
  slots,        \* physical slots
  live_slots,   \* the one-to-one backend's per-node flags
  stage,        \* whether a node's fan-out stage holds a copy
  cleanup,      \* next node of destroy_active_slots
  outcome       \* history: what each node's task reported in this run

storage  == <<slots, live_slots, stage>>
run_vars == <<plan, pc, result, slots, live_slots, stage, cleanup, outcome>>

Statuses == {"success", "failure", "retry", "abort_branch", "abort_execution"}

nodes == NodesOf(plan)

(* What is in a slot's raw storage: a node's object, nothing, or, after    *)
(* constructing over a live object or destroying one that is not there,    *)
(* nothing that can be relied on.                                          *)
NoObject == -1
Poisoned == -2

EmptyCell ==
  [obj |-> NoObject, moved |-> FALSE, engaged |-> FALSE, owner |-> NoPhysicalSlot]

RunInit ==
  /\ plan \in Plans
  /\ pc = "dfs"
  /\ result = "none"
  /\ slots = [s \in 0 .. plan.n_slots - 1 |-> EmptyCell]
  /\ live_slots = [i \in nodes |-> FALSE]
  /\ stage = [i \in nodes |-> FALSE]
  /\ cleanup = 0
  /\ outcome = [i \in nodes |-> "none"]

-------------------------------------------------------------------------------
(* Slot operations.                                                        *)

(* Node i's physical slot carries an engagement flag.                      *)
FlaggedSlot(i) == plan.slot_policy[plan.slot[i]] = "maybe_payload"

(* emplace<I>: construct the object, then set the slot's flag and, in an   *)
(* erased slot, record the owner.                                          *)
Emplace(cells, i) ==
  [cells EXCEPT ![plan.slot[i]] =
    [ obj     |-> IF @.obj = NoObject THEN i ELSE Poisoned,
      moved   |-> FALSE,
      engaged |-> FlaggedSlot(i),
      owner   |-> IF plan.layout = "compact" THEN i ELSE NoPhysicalSlot ]]

(* Whether destroy<I> reaches the destructor.                              *)
DestroyRuns(cells, flags, i) ==
  CASE FlaggedSlot(i)                                  -> cells[plan.slot[i]].engaged
    [] ~FlaggedSlot(i) /\ plan.layout = "compact"      -> TRUE
    [] ~FlaggedSlot(i) /\ plan.layout = "one_to_one"   -> flags[i]

(* Fault: the slot still names its last owner.                             *)
DestroyKeepingOwner(cells, flags, i) ==
  IF PayloadNode(plan, i) /\ DestroyRuns(cells, flags, i)
    THEN [cells EXCEPT ![plan.slot[i]].obj = IF @ = i THEN NoObject ELSE Poisoned,
                       ![plan.slot[i]].engaged = FALSE]
    ELSE cells

Destroy(cells, flags, i) ==
  IF PayloadNode(plan, i) /\ DestroyRuns(cells, flags, i)
    THEN [cells EXCEPT ![plan.slot[i]] =
           [EmptyCell EXCEPT !.obj = IF cells[plan.slot[i]].obj = i THEN NoObject ELSE Poisoned]]
    ELSE cells

(* Fault: the flags are never written.                                     *)
KeepLive(flags, i, live) == flags

(* live_slots_ exists in the one-to-one backend only.                      *)
SetLive(flags, i, live) ==
  IF PayloadNode(plan, i) /\ plan.layout = "one_to_one"
    THEN [flags EXCEPT ![i] = live]
    ELSE flags

(* The owned node behind the output of i's parent.                         *)
PrevOwner(i) == plan.owner[plan.parent[i]]

(* Fault: every exclusive access moves from the object.                    *)
MoveExclusivePrev(cells, i) ==
  IF UsesExclusivePrev(plan.task[i])
    THEN [cells EXCEPT ![plan.slot[PrevOwner(i)]].moved = TRUE]
    ELSE cells

(* A consume_prev argument moves from the object behind the parent's       *)
(* output before the task body runs.                                       *)
ConsumePrev(cells, i) ==
  IF ConsumeOnly(plan.task[i])
    THEN [cells EXCEPT ![plan.slot[PrevOwner(i)]].moved = TRUE]
    ELSE cells

-------------------------------------------------------------------------------
(* Node entry.                                                             *)

PayloadLive(i, status) == status = "success" /\ PayloadNode(plan, i)

(* Fault: a payload emplaced before a non-success report is kept.          *)
EnterDirectOutputKeeping(i, status, emplaced) ==
  LET cells == ConsumePrev(slots, i)
  IN  /\ plan.task[i].kind = "direct_out"
      /\ status = "success" => emplaced
      /\ slots' = IF emplaced THEN Emplace(cells, i) ELSE cells
      /\ UNCHANGED live_slots

(* A direct-output task may emplace and still report non-success, in which *)
(* case the payload is destroyed at once; success without a payload fails  *)
(* the executor's assertion and is not a legal report.                     *)
EnterDirectOutput(i, status, emplaced) ==
  LET cells == ConsumePrev(slots, i)
      built == IF emplaced THEN Emplace(cells, i) ELSE cells
  IN  /\ plan.task[i].kind = "direct_out"
      /\ status = "success" => emplaced
      /\ IF status = "success"
           THEN slots' = built /\ UNCHANGED live_slots
           ELSE /\ slots' = Destroy(built, live_slots, i)
                /\ live_slots' = SetLive(live_slots, i, FALSE)

EnterReturningPayload(i, status) ==
  LET cells == ConsumePrev(slots, i)
  IN  /\ plan.task[i].kind \in {"value", "task_result"}
      /\ IF status = "success"
           THEN /\ slots' = Emplace(cells, i)
                /\ live_slots' = SetLive(live_slots, i, TRUE)
           ELSE slots' = cells /\ UNCHANGED live_slots

EnterWithoutPayload(i) ==
  /\ plan.task[i].kind \in {"void", "step", "forward_prev"}
  /\ slots' = ConsumePrev(slots, i)
  /\ UNCHANGED live_slots

(* enter_node<I> runs node i's task, which reports `status`.               *)
EnterNode(i, status) ==
  /\ status \in TaskStatuses(plan.task[i])
  /\ \/ \E emplaced \in BOOLEAN : EnterDirectOutput(i, status, emplaced)
     \/ EnterReturningPayload(i, status)
     \/ EnterWithoutPayload(i)
  /\ outcome' = [outcome EXCEPT ![i] = status]
  /\ UNCHANGED stage

(* enter_node<I> throws while moving the returned payload into its slot:   *)
(* no flag is set and no owner recorded.                                   *)
EnterNodeThrows(i) ==
  /\ MayThrow
  /\ plan.task[i].kind \in {"value", "task_result"}
  /\ slots' = ConsumePrev(slots, i)
  /\ outcome' = [outcome EXCEPT ![i] = "threw"]
  /\ UNCHANGED <<live_slots, stage>>

-------------------------------------------------------------------------------
(* Fan-out staging.                                                        *)

(* Fault: only a payload of the node's own is staged.                      *)
PrepareOwnedStaging(i) ==
  stage' = IF plan.staging[i] /\ PayloadNode(plan, i)
             THEN [stage EXCEPT ![i] = TRUE]
             ELSE stage

PrepareFanoutStaging(i) ==
  stage' = IF plan.staging[i] THEN [stage EXCEPT ![i] = TRUE] ELSE stage

DestroyFanoutStaging(i) ==
  stage' = IF plan.staging[i] THEN [stage EXCEPT ![i] = FALSE] ELSE stage

-------------------------------------------------------------------------------
(* Leaving run_plan.                                                       *)

DestroyFanoutState ==
  /\ pc = "fanout_dtor"
  /\ pc' = "slots_dtor"
  /\ stage' = [i \in nodes |-> FALSE]
  /\ UNCHANGED <<plan, result, slots, live_slots, cleanup, outcome>>

(* destroy_active_slots visits the nodes in index order.                   *)
DestroyTypedSlot(i) ==
  /\ plan.layout = "one_to_one"
  /\ slots' = Destroy(slots, live_slots, i)
  /\ live_slots' = SetLive(live_slots, i, FALSE)

(* The compact backend destroys a node's object only if the slot records   *)
(* that node as its owner.                                                 *)
DestroyErasedSlot(i) ==
  /\ plan.layout = "compact"
  /\ slots' = IF PayloadNode(plan, i) /\ slots[plan.slot[i]].owner = i
                THEN Destroy(slots, live_slots, i)
                ELSE slots
  /\ UNCHANGED live_slots

DestroyActiveSlot ==
  /\ pc = "slots_dtor"
  /\ cleanup < plan.n
  /\ DestroyTypedSlot(cleanup) \/ DestroyErasedSlot(cleanup)
  /\ cleanup' = cleanup + 1
  /\ pc' = IF cleanup + 1 = plan.n THEN "done" ELSE pc
  /\ UNCHANGED <<plan, result, stage, outcome>>

LeaveRunPlan == DestroyFanoutState \/ DestroyActiveSlot

-------------------------------------------------------------------------------
(* Properties every executor must have.                                    *)

Cell ==
  [ obj : nodes \cup {NoObject, Poisoned}, moved : BOOLEAN, engaged : BOOLEAN,
    owner : nodes \cup {NoPhysicalSlot} ]

RunTypeOK ==
  /\ pc \in {"dfs", "fanout_dtor", "slots_dtor", "done"}
  /\ result \in Statuses \cup {"none", "exception"}
  /\ slots \in [0 .. plan.n_slots - 1 -> Cell]
  /\ live_slots \in [nodes -> BOOLEAN]
  /\ stage \in [nodes -> BOOLEAN]
  /\ cleanup \in 0 .. plan.n
  /\ outcome \in [nodes -> Statuses \cup {"none", "threw"}]

Stored       == {slots[s].obj : s \in DOMAIN slots} \ {NoObject}
LivePayloads == {slots[s].obj : s \in DOMAIN slots} \cap nodes

(* What a caller can tell of the result so far.                            *)
ReportedResult ==
  IF result = "exception" THEN "exception"
  ELSE IF pc = "done" THEN result ELSE "running"

(* What a run promises, read off its state: the stored objects are the live *)
(* payloads.                                                               *)
Promise == INSTANCE PlanRun WITH live <- Stored, result <- ReportedResult

(* The backends' bookkeeping (engagement flags, recorded owners, the       *)
(* one-to-one live flags) always tells the truth about which object is in  *)
(* a slot: nothing is ever constructed over a live payload, destroyed      *)
(* twice, or destroyed as the wrong node's type.                           *)
BookkeepingIsTruthful ==
  \A i \in nodes : PayloadNode(plan, i) =>
    LET cell == slots[plan.slot[i]]
    IN  /\ cell.obj # Poisoned
        /\ FlaggedSlot(i) => cell.engaged = (cell.obj # NoObject)
        /\ plan.layout = "compact" => cell.owner = cell.obj
        /\ plan.layout = "one_to_one" /\ ~FlaggedSlot(i) =>
             live_slots[i] = (cell.obj = i)

(* However a run ends, no payload and no staged copy outlives it.          *)
NothingOutlivesTheRun ==
  pc = "done" => LivePayloads = {} /\ \A i \in nodes : ~stage[i]

(* A payload is destroyed only after the payloads of all its descendants:  *)
(* what a task stored may refer to what its ancestors stored.              *)
DestroyedChildFirst ==
  \A i \in LivePayloads \ LivePayloads' : \A j \in LivePayloads' : i \notin RootPath(plan, j)

NestedLifetimes == [][DestroyedChildFirst]_run_vars

(* What the README says of failures: a failed task stops the subtree below *)
(* it, and whether another subtree runs depends on its own parent chain    *)
(* alone.  (Runs in which some task asked for more are left out.)          *)
FailureStopsOnlyItsSubtree ==
  pc = "done" /\ (\A i \in nodes : outcome[i] \in {"none", "success", "failure"}) =>
    \A i \in nodes :
      (\A a \in RootPath(plan, i) \ {i} : outcome[a] = "success") => outcome[i] # "none"

(* The object node i's prev view refers to exists, is the one its parent   *)
(* provides and, if i's task reads it, has not been moved from.  The view  *)
(* is formed for every node whose parent has an output.                    *)
PrevIsReadable(i) ==
  plan.parent[i] # plan.n /\ ~OutputIsVoid(plan.task[plan.parent[i]]) =>
    IF plan.staged_copy[i]
      THEN stage[plan.parent[i]]
      ELSE LET cell == slots[plan.slot[PrevOwner(i)]]
           IN  /\ cell.obj = PrevOwner(i)
               /\ UsesPrevAccess(plan.task[i]) => ~cell.moved

(* The payload staged for node i's copying children exists and is intact.  *)
StagingSourceIsReadable(i) ==
  plan.staging[i] =>
    LET o == plan.owner[i] IN slots[plan.slot[o]].obj = o /\ ~slots[plan.slot[o]].moved

===============================================================================
