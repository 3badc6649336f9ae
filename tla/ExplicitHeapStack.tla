-------------------------- MODULE ExplicitHeapStack ---------------------------
(***************************************************************************)
(* The explicit-heap-stack executor: serial depth-first traversal with one *)
(* heap-allocated frame per active node.                                   *)
(*                                                                         *)
(* One iteration of the source's loop is split at the points where it      *)
(* calls into a node: entering it, preparing its fan-out, and descending   *)
(* or finishing are separate steps.  The loop is sequential, so nothing    *)
(* can happen between them.                                                *)
(***************************************************************************)
EXTENDS RunPlan

VARIABLES
  frames,            \* the frame vector, root first
  current_step,      \* result of the subtree that finished last
  subtree_complete   \* leaving the top frame rather than descending into it

loop == <<frames, current_step, subtree_complete>>
vars == <<run_vars, loop>>

Frame(i) ==
  [ node_index |-> i, next_child_ordinal |-> 0, entered |-> FALSE, payload_live |-> FALSE,
    requires_fanout_staging |-> plan.staging[i], fanout_prepared |-> FALSE ]

(* Fault: no room for the root.                                            *)
FrameCapacityBelowRoot == plan.max_level

(* What the vector reserves before the loop.                               *)
FrameCapacity == plan.max_level + 1

Init ==
  /\ RunInit
  /\ frames = <<Frame(0)>>
  /\ current_step = "success"
  /\ subtree_complete = FALSE

top == Len(frames)
Node == frames[top].node_index

Descending == pc = "dfs" /\ frames # <<>> /\ ~subtree_complete

(* First visit: execute the node; non-success ends its subtree at once.    *)
EnterTop ==
  /\ Descending
  /\ ~frames[top].entered
  /\ \E status \in Statuses :
       /\ EnterNode(Node, status)
       /\ frames' = [frames EXCEPT ![top].entered = TRUE,
                                   ![top].payload_live = PayloadLive(Node, status)]
       /\ IF status = "success"
            THEN UNCHANGED <<current_step, subtree_complete>>
            ELSE current_step' = status /\ subtree_complete' = TRUE
  /\ UNCHANGED <<plan, pc, result, cleanup>>

StagingPending == frames[top].requires_fanout_staging /\ ~frames[top].fanout_prepared

PrepareTop ==
  /\ Descending
  /\ frames[top].entered
  /\ StagingPending
  /\ PrepareFanoutStaging(Node)
  /\ frames' = [frames EXCEPT ![top].fanout_prepared = TRUE]
  /\ UNCHANGED <<plan, pc, result, slots, live_slots, cleanup, outcome>>
  /\ UNCHANGED <<current_step, subtree_complete>>

FinishTop ==
  /\ Descending
  /\ frames[top].entered
  /\ ~StagingPending
  /\ frames[top].next_child_ordinal = plan.child_counts[Node]
  /\ current_step' = "success"
  /\ subtree_complete' = TRUE
  /\ UNCHANGED <<run_vars, frames>>

(* Fault: the ordinal advances on the way down.                            *)
DescendAdvancing ==
  /\ Descending
  /\ frames[top].entered
  /\ ~StagingPending
  /\ frames[top].next_child_ordinal # plan.child_counts[Node]
  /\ frames' = Append([frames EXCEPT ![top].next_child_ordinal = @ + 1],
                      Frame(ChildAt(plan, Node, frames[top].next_child_ordinal)))
  /\ UNCHANGED <<run_vars, current_step, subtree_complete>>

Descend ==
  /\ Descending
  /\ frames[top].entered
  /\ ~StagingPending
  /\ frames[top].next_child_ordinal # plan.child_counts[Node]
  /\ frames' = Append(frames, Frame(ChildAt(plan, Node, frames[top].next_child_ordinal)))
  /\ UNCHANGED <<run_vars, current_step, subtree_complete>>

-------------------------------------------------------------------------------
(* Unwinding.                                                              *)

(* Fault: a frame that staged copies keeps its payload.                    *)
DestroyTopStageOrPayload ==
  IF frames[top].requires_fanout_staging /\ frames[top].fanout_prepared
    THEN DestroyFanoutStaging(Node) /\ UNCHANGED <<slots, live_slots>>
    ELSE /\ UNCHANGED stage
         /\ IF frames[top].payload_live
              THEN /\ slots' = Destroy(slots, live_slots, Node)
                   /\ live_slots' = SetLive(live_slots, Node, FALSE)
              ELSE UNCHANGED <<slots, live_slots>>

(* Leaving a frame destroys its stage, then its payload.                   *)
DestroyTop ==
  /\ IF frames[top].requires_fanout_staging /\ frames[top].fanout_prepared
       THEN DestroyFanoutStaging(Node)
       ELSE UNCHANGED stage
  /\ IF frames[top].payload_live
       THEN /\ slots' = Destroy(slots, live_slots, Node)
            /\ live_slots' = SetLive(live_slots, Node, FALSE)
       ELSE UNCHANGED <<slots, live_slots>>

(* Fault: abort_branch ends the run.                                       *)
ConsumableSuccess == current_step = "success"

Consumable == current_step \in {"success", "abort_branch"}

(* The root's frame leaves: the loop returns.                              *)
LeaveRoot ==
  /\ pc = "dfs"
  /\ Len(frames) = 1
  /\ subtree_complete
  /\ DestroyTop
  /\ frames' = <<>>
  /\ result' = current_step
  /\ pc' = "fanout_dtor"
  /\ UNCHANGED <<plan, cleanup, outcome, current_step, subtree_complete>>

(* Fault: the ordinal of the finished frame advances, not its parent's.    *)
LeaveAndAdvanceFinished ==
  /\ pc = "dfs"
  /\ Len(frames) > 1
  /\ subtree_complete
  /\ Consumable
  /\ DestroyTop
  /\ frames' = SubSeq(frames, 1, top - 1)
  /\ subtree_complete' = FALSE
  /\ UNCHANGED <<plan, pc, result, cleanup, outcome, current_step>>

(* Another frame leaves and its parent consumes success and abort_branch:  *)
(* it moves to the next child or, after the last one, completes too.       *)
LeaveAndAdvance ==
  /\ pc = "dfs"
  /\ Len(frames) > 1
  /\ subtree_complete
  /\ Consumable
  /\ DestroyTop
  /\ LET parent == frames[top - 1]
         next   == parent.next_child_ordinal + 1
         last   == next = plan.child_counts[parent.node_index]
     IN  /\ frames' = [SubSeq(frames, 1, top - 1) EXCEPT ![top - 1].next_child_ordinal = next]
         /\ current_step' = IF last THEN "success" ELSE current_step
         /\ subtree_complete' = last
  /\ UNCHANGED <<plan, pc, result, cleanup, outcome>>

(* Any other result keeps unwinding.                                       *)
LeaveAndUnwind ==
  /\ pc = "dfs"
  /\ Len(frames) > 1
  /\ subtree_complete
  /\ ~Consumable
  /\ DestroyTop
  /\ frames' = SubSeq(frames, 1, top - 1)
  /\ UNCHANGED <<plan, pc, result, cleanup, outcome, current_step, subtree_complete>>

-------------------------------------------------------------------------------
(* Exceptions leave the loop without running the unwinding code: the frame *)
(* vector is gone and only run_plan's own destructors remain.              *)

EscapeLoop ==
  /\ result' = "exception"
  /\ pc' = "fanout_dtor"
  /\ frames' = <<>>
  /\ UNCHANGED <<plan, cleanup, current_step, subtree_complete>>

EnterTopThrows ==
  /\ Descending
  /\ ~frames[top].entered
  /\ EnterNodeThrows(Node)
  /\ EscapeLoop

PrepareTopThrows ==
  /\ Descending
  /\ MayThrow
  /\ frames[top].entered
  /\ StagingPending
  /\ EscapeLoop
  /\ UNCHANGED <<slots, live_slots, stage, outcome>>

Leave == LeaveRunPlan /\ UNCHANGED loop

Done == pc = "done" /\ UNCHANGED vars

Step ==
  \/ EnterTop
  \/ PrepareTop
  \/ FinishTop
  \/ Descend
  \/ LeaveRoot
  \/ LeaveAndAdvance
  \/ LeaveAndUnwind
  \/ EnterTopThrows
  \/ PrepareTopThrows
  \/ Leave

Next == Step \/ Done

Spec == Init /\ [][Next]_vars

(* The executor is one thread that runs until run_plan returns.            *)
FairSpec == Spec /\ WF_vars(Step)

-------------------------------------------------------------------------------
(* Properties.                                                             *)

FrameType ==
  [ node_index : nodes, next_child_ordinal : Nat, entered : BOOLEAN, payload_live : BOOLEAN,
    requires_fanout_staging : BOOLEAN, fanout_prepared : BOOLEAN ]

(* The type invariant of the run's state and of the loop's own variables;  *)
(* the loop is never left without a result.                                *)
TypeOK ==
  /\ RunTypeOK
  /\ frames \in Seq(FrameType)
  /\ current_step \in Statuses
  /\ subtree_complete \in BOOLEAN
  /\ pc # "dfs" => result # "none"

(* The reserve(max_level + 1) before the loop is enough: the vector never  *)
(* reallocates, so the references the loop holds into it stay valid.       *)
FramesStayReserved == Len(frames) <= FrameCapacity

(* The frames are the path from the root to the current node: each frame's *)
(* node is the child its parent's ordinal points at, and no ordinal passes *)
(* the child count it is compared with for equality.                       *)
FramesAreAPath ==
  /\ frames # <<>> => frames[1].node_index = 0
  /\ \A k \in 1 .. Len(frames) :
       frames[k].next_child_ordinal <= plan.child_counts[frames[k].node_index]
  /\ \A k \in 1 .. Len(frames) - 1 :
       /\ frames[k].entered
       /\ frames[k].next_child_ordinal < plan.child_counts[frames[k].node_index]
       /\ frames[k + 1].node_index =
            ChildAt(plan, frames[k].node_index, frames[k].next_child_ordinal)

(* While the traversal runs, the live payloads are exactly those of the    *)
(* frames flagged payload_live: nothing is lost when a subtree completes,  *)
(* and sibling subtrees that share compact slots never overlap.            *)
PayloadsMatchFrames ==
  pc = "dfs" =>
    LivePayloads = {frames[k].node_index : k \in {j \in DOMAIN frames : frames[j].payload_live}}

(* A task about to run finds its parent's output alive and intact, and a   *)
(* payload about to be staged is still there to be copied.                 *)
PrevReadable ==
  Descending =>
    /\ ~frames[top].entered => PrevIsReadable(Node)
    /\ frames[top].entered /\ StagingPending => StagingSourceIsReadable(Node)

-------------------------------------------------------------------------------
(* The executor implements PlanRun up to and including the throw of an     *)
(* exception; what is left then is not destroyed child first.              *)

StepOfPlanRun == result # "exception" => [Promise!Next]_(Promise!vars)

ImplementsPlanRun == Promise!Init /\ [][StepOfPlanRun]_vars

(* Every run ends.                                                         *)
Terminates == <>(pc = "done")

===============================================================================
