----------------------------- MODULE RecursiveDfs -----------------------------
(***************************************************************************)
(* The recursive executor: run_node<I> enters its node and calls           *)
(* run_children<I>, which calls run_node for each child in turn.           *)
(*                                                                         *)
(* The C++ call stack is the sequence `calls`, one activation per node     *)
(* being run; it stands for run_node<I> and the chain of run_children<I,   *)
(* Ord> calls below it, of which only the first one's guard is ever armed. *)
(* Both guards of an activation are destroyed when it is left, by return   *)
(* or by exception.                                                        *)
(***************************************************************************)
EXTENDS RunPlan

VARIABLES
  calls,      \* the call stack, root first
  returned    \* status returned to the top activation, "none" if it is running

vars == <<run_vars, calls, returned>>

(* phase is where the activation is: about to call enter_node, about to    *)
(* prepare its fan-out, or enumerating its children.                       *)
Activation(i) ==
  [node |-> i, ord |-> 0, phase |-> "enter", slot_guard |-> FALSE, fanout_guard |-> FALSE]

Init ==
  /\ RunInit
  /\ calls = <<Activation(0)>>
  /\ returned = "none"

top == Len(calls)
I == calls[top].node

Running(phase) ==
  /\ pc = "dfs" /\ result # "exception"
  /\ calls # <<>> /\ returned = "none"
  /\ calls[top].phase = phase

PopCall == SubSeq(calls, 1, top - 1)

(* The C++ functions that activation k has on the native stack: run_node,  *)
(* which is still in enter_node or has called run_children<I>, and one     *)
(* more run_children for each child that has returned, since each is       *)
(* called from the one before.                                             *)
Functions(k) == IF calls[k].phase = "enter" THEN 1 ELSE 2 + calls[k].ord

NativeFrames ==
  LET frames[k \in 0 .. top] == IF k = 0 THEN 0 ELSE frames[k - 1] + Functions(k)
  IN  frames[top]

-------------------------------------------------------------------------------
(* run_node: a node that does not succeed returns before its guards exist. *)

RunNodeSucceeds ==
  /\ Running("enter")
  /\ EnterNode(I, "success")
  /\ calls' = [calls EXCEPT ![top].phase = "prepare",
                            ![top].slot_guard = PayloadLive(I, "success")]
  /\ UNCHANGED <<plan, pc, result, cleanup, returned>>

RunNodeFails ==
  /\ Running("enter")
  /\ \E status \in Statuses \ {"success"} :
       /\ EnterNode(I, status)
       /\ returned' = status
  /\ calls' = PopCall
  /\ UNCHANGED <<plan, pc, result, cleanup>>

-------------------------------------------------------------------------------
(* run_children.                                                           *)

Prepare ==
  /\ Running("prepare")
  /\ PrepareFanoutStaging(I)
  /\ calls' = [calls EXCEPT ![top].phase = "children", ![top].fanout_guard = TRUE]
  /\ UNCHANGED <<plan, pc, result, slots, live_slots, cleanup, outcome, returned>>

(* Fault: the child's index is the node's own.                             *)
CallItself ==
  /\ Running("children")
  /\ calls[top].ord # plan.child_counts[I]
  /\ calls' = Append(calls, Activation(I))
  /\ UNCHANGED <<run_vars, returned>>

CallChild ==
  /\ Running("children")
  /\ calls[top].ord # plan.child_counts[I]
  /\ calls' = Append(calls, Activation(ChildAt(plan, I, calls[top].ord)))
  /\ UNCHANGED <<run_vars, returned>>

(* The guards of the top activation: the stage, then the payload.          *)
DestroyGuards ==
  /\ IF calls[top].fanout_guard THEN DestroyFanoutStaging(I) ELSE UNCHANGED stage
  /\ IF calls[top].slot_guard
       THEN /\ slots' = Destroy(slots, live_slots, I)
            /\ live_slots' = SetLive(live_slots, I, FALSE)
       ELSE UNCHANGED <<slots, live_slots>>

ReturnSuccess ==
  /\ Running("children")
  /\ calls[top].ord = plan.child_counts[I]
  /\ DestroyGuards
  /\ calls' = PopCall
  /\ returned' = "success"
  /\ UNCHANGED <<plan, pc, result, cleanup, outcome>>

Returning == pc = "dfs" /\ calls # <<>> /\ returned # "none"

(* Fault: the same child is called again.                                  *)
SameChild ==
  /\ Returning
  /\ returned \in {"success", "abort_branch"}
  /\ returned' = "none"
  /\ UNCHANGED <<run_vars, calls>>

(* A child's success or abort_branch is consumed: on to the next child.    *)
NextChild ==
  /\ Returning
  /\ returned \in {"success", "abort_branch"}
  /\ calls' = [calls EXCEPT ![top].ord = @ + 1]
  /\ returned' = "none"
  /\ UNCHANGED run_vars

(* Any other status is returned further up.                                *)
ReturnStep ==
  /\ Returning
  /\ returned \notin {"success", "abort_branch"}
  /\ DestroyGuards
  /\ calls' = PopCall
  /\ UNCHANGED <<plan, pc, result, cleanup, outcome, returned>>

ReturnFromRoot ==
  /\ pc = "dfs" /\ calls = <<>> /\ returned # "none"
  /\ result' = returned
  /\ pc' = "fanout_dtor"
  /\ UNCHANGED <<plan, storage, cleanup, outcome, calls, returned>>

-------------------------------------------------------------------------------
(* Exceptions.                                                             *)

RunNodeThrows ==
  /\ Running("enter")
  /\ EnterNodeThrows(I)
  /\ result' = "exception"
  /\ calls' = PopCall
  /\ UNCHANGED <<plan, pc, cleanup, returned>>

PrepareThrows ==
  /\ Running("prepare")
  /\ MayThrow
  /\ plan.staging[I]
  /\ result' = "exception"
  /\ UNCHANGED <<plan, pc, storage, cleanup, outcome, calls, returned>>

Unwind ==
  /\ pc = "dfs" /\ result = "exception"
  /\ IF calls = <<>>
       THEN pc' = "fanout_dtor" /\ UNCHANGED <<storage, calls>>
       ELSE DestroyGuards /\ calls' = PopCall /\ UNCHANGED pc
  /\ UNCHANGED <<plan, result, cleanup, outcome, returned>>

-------------------------------------------------------------------------------
Leave == LeaveRunPlan /\ UNCHANGED <<calls, returned>>

Done == pc = "done" /\ UNCHANGED vars

Step ==
  \/ RunNodeSucceeds
  \/ RunNodeFails
  \/ Prepare
  \/ CallChild
  \/ ReturnSuccess
  \/ NextChild
  \/ ReturnStep
  \/ ReturnFromRoot
  \/ RunNodeThrows
  \/ PrepareThrows
  \/ Unwind
  \/ Leave

Next == Step \/ Done

Spec == Init /\ [][Next]_vars

(* One thread, running until run_plan returns.                             *)
FairSpec == Spec /\ WF_vars(Step)

-------------------------------------------------------------------------------
(* Properties.                                                             *)

(* A task about to run finds its parent's output alive and intact, and a   *)
(* payload about to be staged is still there to be copied.                 *)
PrevReadable ==
  /\ Running("enter") => PrevIsReadable(I)
  /\ Running("prepare") => StagingSourceIsReadable(I)

(* The executor implements PlanRun, exceptions included.                   *)
ImplementsPlanRun == Promise!Spec

(* The native stack never holds more functions than the plan has nodes and *)
(* levels together, whatever is reported or thrown: it is at its highest   *)
(* in the last leaf of the deepest path, behind all its elder siblings.    *)
StackFitsThePlan == NativeFrames <= plan.n + plan.max_level + 1

(* Every run ends.                                                         *)
Terminates == <>(pc = "done")

===============================================================================
