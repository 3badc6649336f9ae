------------------------------ MODULE SlotLayout ------------------------------
(***************************************************************************)
(* How a plan's outputs are laid out in physical slots.  "one_to_one"      *)
(* gives every owned payload its own slot; "compact" numbers owned payloads *)
(* by their depth among the owned payloads of the root path, so siblings'  *)
(* subtrees reuse slots.                                                   *)
(***************************************************************************)
EXTENDS PlanTraits

LayoutPolicies == {"one_to_one", "compact"}

(* Sentinel for "no storage" and for "no node owns this erased slot".      *)
NoPhysicalSlot == -1

PayloadNode(p, i) == OutputStorageMode(p.task[i]) = "owned"

PayloadNodeCount(p) == Cardinality({i \in NodesOf(p) : PayloadNode(p, i)})

(* The node whose storage holds node i's output; p.n when it has none.     *)
CanonicalOwners(p) ==
  LET owner[i \in NodesOf(p)] ==
        IF OutputIsVoid(p.task[i]) THEN p.n
        ELSE IF IsForwardPrev(p.task[i]) THEN owner[p.parent[i]]
        ELSE i
  IN  owner

OneToOneIndices(p) ==
  [i \in NodesOf(p) |->
    IF PayloadNode(p, i)
      THEN Cardinality({j \in 0 .. i - 1 : PayloadNode(p, j)})
      ELSE NoPhysicalSlot]

(* Fault: the depth starts again below a node without a payload.           *)
PayloadDepthsBelowPayloads(p) ==
  LET depth[i \in NodesOf(p)] ==
        IF ~PayloadNode(p, i) THEN 0
        ELSE 1 + (IF p.parent[i] = p.n THEN 0 ELSE depth[p.parent[i]])
  IN  depth

(* Owned payloads on the path from the root to each node, itself included. *)
PayloadDepths(p) ==
  LET depth[i \in NodesOf(p)] ==
        (IF p.parent[i] = p.n THEN 0 ELSE depth[p.parent[i]])
          + (IF PayloadNode(p, i) THEN 1 ELSE 0)
  IN  depth

CompactIndices(p) ==
  LET depths == PayloadDepths(p)
  IN  [i \in NodesOf(p) |->
        IF PayloadNode(p, i) THEN depths[i] - 1 ELSE NoPhysicalSlot]

PhysicalSlotIndices(p, layout) ==
  IF layout = "compact" THEN CompactIndices(p) ELSE OneToOneIndices(p)

PhysicalSlotCount(p, layout) ==
  IF layout = "compact"
    THEN LET depths == PayloadDepths(p)
         IN  CHOOSE m \in 0 .. p.n :
               /\ \A i \in NodesOf(p) : PayloadNode(p, i) => depths[i] <= m
               /\ m = 0 \/ \E i \in NodesOf(p) : PayloadNode(p, i) /\ depths[i] = m
    ELSE PayloadNodeCount(p)

(* One owner's logical policy joined into a physical slot's policy.        *)
JoinSlotPhysicalPolicy(left, right) ==
  IF right = "none" THEN left
  ELSE IF left = "none" THEN right
  ELSE IF "maybe_payload" \in {left, right} THEN "maybe_payload"
  ELSE "must_payload"

(* The policies of all slots, joined node by node: `joined[k]` is what the *)
(* first k nodes make of them.                                             *)
PhysicalSlotPolicies(p, layout) ==
  LET index == PhysicalSlotIndices(p, layout)
      joined[k \in 0 .. p.n] ==
        IF k = 0 THEN [s \in 0 .. PhysicalSlotCount(p, layout) - 1 |-> "none"]
        ELSE IF index[k - 1] = NoPhysicalSlot THEN joined[k - 1]
        ELSE [joined[k - 1] EXCEPT ![index[k - 1]] =
                JoinSlotPhysicalPolicy(@, SlotLogicalPolicy(p.task[k - 1]))]
  IN  joined[p.n]

===============================================================================
