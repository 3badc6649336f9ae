---------------------------- MODULE PlanExecSlots -----------------------------
(***************************************************************************)
(* plan_exec_slots used directly, without an executor.  It is public: a    *)
(* program may put payloads into a plan's slots and destroy them in any    *)
(* order, through the node-indexed functions or through the direct_out     *)
(* sink of a node, and then destroy the whole object.                      *)
(*                                                                         *)
(* The caller respects what emplace asserts, that the slot is empty.  Of   *)
(* destroy the comments only say that it destroys the node's payload if    *)
(* the node has one; a blind caller relies on that, a careful one destroys *)
(* only payloads it has put there.                                         *)
(***************************************************************************)
EXTENDS RunPlan

CONSTANT BlindLayouts   \* the slot layouts whose caller is blind

ASSUME BlindAssumption == BlindLayouts \subseteq LayoutPolicies

Logical(i) == SlotLogicalPolicy(plan.task[i])

Init == RunInit

InUse       == pc = "dfs"
SlotIsFree(i) == slots[plan.slot[i]].obj = NoObject
MayDestroy(i) ==
  PayloadNode(plan, i) => plan.layout \in BlindLayouts \/ slots[plan.slot[i]].obj = i

OnlyStorageChanges == UNCHANGED <<plan, pc, result, stage, cleanup, outcome>>

-------------------------------------------------------------------------------
(* The erased backend, for compact layouts.                                *)

EmplaceErased(i) ==
  /\ InUse /\ plan.layout = "compact"
  /\ PayloadNode(plan, i) /\ SlotIsFree(i)
  /\ slots' = Emplace(slots, i)
  /\ UNCHANGED live_slots
  /\ OnlyStorageChanges

DestroyErased(i) ==
  /\ InUse /\ plan.layout = "compact"
  /\ MayDestroy(i)
  /\ slots' = Destroy(slots, live_slots, i)
  /\ UNCHANGED live_slots
  /\ OnlyStorageChanges

(* Fault: the node's own policy decides, not that of the slot it shares.   *)
ErasedHasValueByNode(i) ==
  /\ ~OutputIsVoid(plan.task[i])
  /\ Logical(plan.owner[i]) = "maybe_payload" => slots[plan.slot[plan.owner[i]]].engaged

(* Asked of a forwarding node, the answer is that of the node it forwards. *)
ErasedHasValue(i) ==
  /\ ~OutputIsVoid(plan.task[i])
  /\ FlaggedSlot(plan.owner[i]) => slots[plan.slot[plan.owner[i]]].engaged

-------------------------------------------------------------------------------
(* The typed backend, for the one-to-one layout.                           *)

EmplaceTyped(i) ==
  /\ InUse /\ plan.layout = "one_to_one"
  /\ PayloadNode(plan, i) /\ SlotIsFree(i)
  /\ slots' = Emplace(slots, i)
  /\ live_slots' = SetLive(live_slots, i, TRUE)
  /\ OnlyStorageChanges

(* Fault: a payload that is always there is destroyed without asking.      *)
DestroyTypedUnchecked(i) ==
  /\ InUse /\ plan.layout = "one_to_one"
  /\ MayDestroy(i)
  /\ slots' = Destroy(slots, [live_slots EXCEPT ![i] = TRUE], i)
  /\ live_slots' = SetLive(live_slots, i, FALSE)
  /\ OnlyStorageChanges

DestroyTyped(i) ==
  /\ InUse /\ plan.layout = "one_to_one"
  /\ MayDestroy(i)
  /\ slots' = Destroy(slots, live_slots, i)
  /\ live_slots' = SetLive(live_slots, i, FALSE)
  /\ OnlyStorageChanges

TypedHasValue(i) ==
  /\ ~OutputIsVoid(plan.task[i])
  /\ Logical(plan.owner[i]) = "maybe_payload" => slots[plan.slot[plan.owner[i]]].engaged

HasValue(i) == IF plan.layout = "compact" THEN ErasedHasValue(i) ELSE TypedHasValue(i)

-------------------------------------------------------------------------------
(* The sink that out<I> returns is a view of the node's slot.  It works    *)
(* past the backend: no live flag is set or reset.                         *)

HasSink(i) == PayloadNode(plan, i) /\ Logical(i) = "maybe_payload"

EmplaceInSink(i) ==
  /\ InUse
  /\ HasSink(i) /\ SlotIsFree(i)
  /\ slots' = Emplace(slots, i)
  /\ UNCHANGED live_slots
  /\ OnlyStorageChanges

DestroyInSink(i) ==
  /\ InUse
  /\ HasSink(i) /\ MayDestroy(i)
  /\ slots' = Destroy(slots, live_slots, i)
  /\ UNCHANGED live_slots
  /\ OnlyStorageChanges

-------------------------------------------------------------------------------
(* The destructor sweeps the nodes as at the end of a run.                 *)

Destruct ==
  /\ InUse
  /\ pc' = "slots_dtor"
  /\ UNCHANGED <<plan, result, slots, live_slots, stage, cleanup, outcome>>

Gone == pc = "done" /\ UNCHANGED run_vars

Next ==
  \/ \E i \in nodes :
       \/ EmplaceErased(i) \/ EmplaceTyped(i) \/ EmplaceInSink(i)
       \/ DestroyErased(i) \/ DestroyTyped(i) \/ DestroyInSink(i)
  \/ Destruct
  \/ DestroyActiveSlot
  \/ Gone

Spec == Init /\ [][Next]_run_vars

-------------------------------------------------------------------------------
(* Properties.                                                             *)

(* Both backends are the storage they promise to be, though the compact    *)
(* one keeps several nodes' payloads in one slot and neither can see what  *)
(* a sink does: a call changes the named node's payload only, none is      *)
(* constructed over another or destroyed twice, the destructor leaves none.*)
Store ==
  INSTANCE PayloadStore WITH
    nodes <- nodes,
    live  <- Stored,
    state <- CASE pc = "dfs" -> "open" [] pc = "done" -> "closed" [] OTHER -> "closing"

ImplementsStore == Store!Spec

(* The object in the slot behind node i's output.                          *)
HeldFor(i) == slots[plan.slot[plan.owner[i]]].obj

(* has_value may be asked of every node whose payload may be missing, and  *)
(* of a forwarding node it is asked of another's.  It never denies the     *)
(* payload the output names, and where the slot has a flag it never claims *)
(* one in an empty slot, whichever of the nodes that share the slot made   *)
(* or destroyed the last.  Without a flag it always says yes, and of a     *)
(* slot that holds another node's payload nothing is said here.            *)
HasValueIsHonest ==
  InUse => \A i \in nodes :
    ~OutputIsVoid(plan.task[i]) /\ Logical(i) # "must_payload" =>
      /\ HeldFor(i) = plan.owner[i] => HasValue(i)
      /\ FlaggedSlot(plan.owner[i]) /\ HeldFor(i) = NoObject => ~HasValue(i)

(* What its comment says: has_value reports whether maybe-payload node i   *)
(* currently stores a value.  In the compact layout it reports whether     *)
(* some node that shares the slot does.                                    *)
HasValueReportsTheNode ==
  InUse => \A i \in nodes :
    PayloadNode(plan, i) /\ Logical(i) = "maybe_payload" =>
      HasValue(i) = (slots[plan.slot[i]].obj = i)

===============================================================================
