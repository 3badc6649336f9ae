------------------------------- MODULE PlanRun --------------------------------
(***************************************************************************)
(* What running a plan promises, whichever executor and slot layout is     *)
(* used.                                                                   *)
(*                                                                         *)
(* Tasks run one at a time in recording order, each at most once and only  *)
(* below tasks that succeeded; abort_branch closes a subtree, any other    *)
(* non-success ends the run and is its result.  When a task runs, the live *)
(* payloads are exactly those of its ancestors, and each is released once  *)
(* nothing below its task can run any more, children before parents.       *)
(***************************************************************************)
EXTENDS CompiledPlan

CONSTANT MayThrow   \* whether payload constructors may throw

VARIABLES
  plan,      \* the plan being run, any that compiling accepts
  outcome,   \* what each task reported: "none" if it has not run
  live,      \* nodes whose payload is live
  result     \* "running", a status, or "exception"

vars == <<plan, outcome, live, result>>

nodes == NodesOf(plan)
Ancestors(i) == RootPath(plan, i) \ {i}

EndsRun(status) == status \in {"failure", "retry", "abort_execution", "threw"}
Ended == result = "exception" \/ \E i \in nodes : EndsRun(outcome[i])

(* Tasks that are still due unless the run ends first.                     *)
Due == {i \in nodes :
          outcome[i] = "none" /\ \A a \in Ancestors(i) : outcome[a] = "success"}

Init ==
  /\ WellFormed(plan)
  /\ outcome = [i \in nodes |-> "none"]
  /\ live = {}
  /\ result = "running"

NextDue(i) == ~Ended /\ i \in Due /\ \A j \in Due : i <= j

AncestorPayloads(i) == {a \in Ancestors(i) : PayloadNode(plan, a)}

RunTask(i, status) ==
  /\ NextDue(i)
  /\ live = AncestorPayloads(i)
  /\ status \in TaskStatuses(plan.task[i])
  /\ outcome' = [outcome EXCEPT ![i] = status]
  /\ live' = IF status = "success" /\ PayloadNode(plan, i) THEN live \cup {i} ELSE live
  /\ UNCHANGED <<plan, result>>

(* Storing a payload throws.                                               *)
ThrowFromTask(i) ==
  /\ MayThrow
  /\ NextDue(i)
  /\ PayloadNode(plan, i)
  /\ live = AncestorPayloads(i)
  /\ outcome' = [outcome EXCEPT ![i] = "threw"]
  /\ result' = "exception"
  /\ UNCHANGED <<plan, live>>

(* Copying a payload aside for its children throws, before any of them ran. *)
ThrowFromStaging(i) ==
  /\ MayThrow
  /\ ~Ended
  /\ plan.staging[i]
  /\ outcome[i] = "success"
  /\ \A c \in Children(plan, i) : outcome[c] = "none"
  /\ result' = "exception"
  /\ UNCHANGED <<plan, outcome, live>>

Release(i) ==
  /\ i \in live
  /\ Subtree(plan, i) \cap live = {i}
  /\ Ended \/ Subtree(plan, i) \cap Due = {}
  /\ live' = live \ {i}
  /\ UNCHANGED <<plan, outcome, result>>

Verdict ==
  IF Ended
    THEN outcome[CHOOSE i \in nodes : EndsRun(outcome[i])]
    ELSE IF outcome[0] = "abort_branch" THEN "abort_branch" ELSE "success"

Return ==
  /\ result = "running"
  /\ live = {}
  /\ Ended \/ Due = {}
  /\ result' = Verdict
  /\ UNCHANGED <<plan, outcome, live>>

Next ==
  \/ \E i \in nodes, status \in {"success", "failure", "retry", "abort_branch", "abort_execution"} :
       RunTask(i, status)
  \/ \E i \in nodes : ThrowFromTask(i) \/ ThrowFromStaging(i) \/ Release(i)
  \/ Return

Spec == Init /\ [][Next]_vars

===============================================================================
