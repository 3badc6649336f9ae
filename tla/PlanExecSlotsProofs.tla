------------------------- MODULE PlanExecSlotsProofs --------------------------
(***************************************************************************)
(* Proofs about PlanExecSlots, for every set of well-formed plans in both  *)
(* slot layouts: whatever the order of calls, the slots are a store with   *)
(* one payload per node.  The caller of a compact layout is careful; one   *)
(* of a one-to-one layout may be blind (see PlanExecSlots).                *)
(***************************************************************************)
EXTENDS PlanExecSlots, RunPlanProofs

-------------------------------------------------------------------------------
(* The invariant.                                                          *)

(* The slots are sound: flags and owners tell which object is where, each  *)
(* object is at home, and the destructor's sweep leaves nothing behind.    *)
(* An object that cannot be relied on is nowhere, not even in a slot that  *)
(* no node uses.                                                           *)
StoreInv ==
  /\ plan \in Plans
  /\ pc \in {"dfs", "slots_dtor", "done"}
  /\ cleanup \in 0 .. plan.n
  /\ \A i \in nodes : ~stage[i]
  /\ Sound(slots, live_slots)
  /\ \A s \in 0 .. plan.n_slots - 1 : slots[s].obj # Poisoned
  /\ CleanupProgress

(* Node i's payload is put into its slot, which was empty.                 *)
Filled(i) ==
  /\ PayloadNode(plan, i)
  /\ slots[plan.slot[i]].obj = NoObject
  /\ \A s \in 0 .. plan.n_slots - 1 :
       slots'[s].obj = IF s = plan.slot[i] THEN i ELSE slots[s].obj

(* Node i's payload, if it is anywhere, is destroyed.                      *)
Emptied(i) ==
  \A s \in 0 .. plan.n_slots - 1 :
    slots'[s].obj = IF slots[s].obj = i THEN NoObject ELSE slots[s].obj

(* A payload is stored if and only if it is in its own slot.               *)
LEMMA StoredAtHome ==
  ASSUME StoreInv, NEW i \in nodes
  PROVE  /\ \A s \in 0 .. plan.n_slots - 1 :
              slots[s].obj = i => PayloadNode(plan, i) /\ s = plan.slot[i]
         /\ i \in Stored <=> PayloadNode(plan, i) /\ slots[plan.slot[i]].obj = i
         /\ Stored \subseteq nodes
  <1>1. /\ DOMAIN slots = 0 .. plan.n_slots - 1
        /\ \A s \in 0 .. plan.n_slots - 1 : slots[s].obj \in nodes \cup {NoObject}
    <2>1. slots \in [0 .. plan.n_slots - 1 -> Cell]
      BY DEF StoreInv, Sound, Cells
    <2>2. \A s \in 0 .. plan.n_slots - 1 : slots[s].obj \in nodes \cup {NoObject, Poisoned}
      BY <2>1 DEF Cell
    <2> QED BY <2>1, <2>2 DEF StoreInv
  <1>2. \A s \in 0 .. plan.n_slots - 1 :
          slots[s].obj = i => PayloadNode(plan, i) /\ s = plan.slot[i]
    BY DEF StoreInv, Sound, AtHome
  <1>3. i # NoObject
    BY RootIsANode DEF StoreInv, NoObject
  <1>4. PayloadNode(plan, i) => plan.slot[i] \in 0 .. plan.n_slots - 1
    BY SlotOfPayload DEF StoreInv
  <1> QED BY <1>1, <1>2, <1>3, <1>4 DEF Stored

LEMMA StoreInvInit == Init => StoreInv
  <1> SUFFICES ASSUME Init PROVE StoreInv
    OBVIOUS
  <1>1. /\ RunInit
        /\ plan \in Plans /\ pc = "dfs" /\ cleanup = 0 /\ stage = [i \in nodes |-> FALSE]
    BY DEF Init, RunInit
  <1>2. cleanup \in 0 .. plan.n
    BY <1>1, RootIsANode
  <1>3. /\ Sound(slots, live_slots)
        /\ \A s \in 0 .. plan.n_slots - 1 : slots[s].obj = NoObject
    BY <1>1, RunInitIsSound
  <1>4. NoObject # Poisoned
    BY DEF NoObject, Poisoned
  <1> QED BY <1>1, <1>2, <1>3, <1>4 DEF StoreInv, CleanupProgress

-------------------------------------------------------------------------------
(* The calls.                                                              *)

(* What the calls on one node have in common.                              *)
LEMMA CallKeepsStoreInv ==
  ASSUME StoreInv, pc = "dfs", OnlyStorageChanges,
         Sound(slots', live_slots'),
         NEW i \in nodes,
         \A s \in 0 .. plan.n_slots - 1 : slots'[s].obj \in {i, NoObject, slots[s].obj}
  PROVE  StoreInv'
  <1>1. UNCHANGED <<plan, pc, stage, cleanup>>
    BY DEF OnlyStorageChanges
  <1>2. Sound(slots, live_slots)'
    BY <1>1, SoundNext
  <1>3. i # Poisoned /\ NoObject # Poisoned
    BY RootIsANode DEF StoreInv, NoObject, Poisoned
  <1>4. \A s \in 0 .. plan.n_slots - 1 : slots'[s].obj # Poisoned
    BY <1>3 DEF StoreInv
  <1>5. CleanupProgress'
    BY <1>1 DEF StoreInv, CleanupProgress
  <1> QED BY <1>1, <1>2, <1>4, <1>5 DEF StoreInv, nodes

(* Emplacing through the backend or, where the slot has a flag, through    *)
(* the sink.                                                               *)
LEMMA EmplacingFills ==
  ASSUME StoreInv, NEW i \in nodes, PayloadNode(plan, i), SlotIsFree(i),
         pc = "dfs", OnlyStorageChanges,
         slots' = Emplace(slots, i),
         live_slots' = SetLive(live_slots, i, TRUE) \/ (FlaggedSlot(i) /\ live_slots' = live_slots)
  PROVE  StoreInv' /\ Filled(i)
  <1>1. plan \in Plans /\ Sound(slots, live_slots) /\ slots[plan.slot[i]].obj = NoObject
    BY DEF StoreInv, SlotIsFree
  <1>2. PICK set : set = live_slots'
    OBVIOUS
  <1>3. set = SetLive(live_slots, i, TRUE) \/ (FlaggedSlot(i) /\ set = live_slots)
    BY <1>2
  <1>4. /\ Sound(Emplace(slots, i), set)
        /\ \A s \in 0 .. plan.n_slots - 1 :
             Emplace(slots, i)[s].obj = IF s = plan.slot[i] THEN i ELSE slots[s].obj
    BY <1>1, <1>3, EmplacingKeepsSound
  <1>5. /\ Sound(slots', live_slots')
        /\ \A s \in 0 .. plan.n_slots - 1 :
             slots'[s].obj = IF s = plan.slot[i] THEN i ELSE slots[s].obj
    BY <1>2, <1>4
  <1> QED BY <1>1, <1>5, CallKeepsStoreInv DEF Filled

(* Destroying through the backend or, where the slot has a flag, through   *)
(* the sink.                                                               *)
LEMMA DestroyingEmpties ==
  ASSUME BlindLayouts \subseteq {"one_to_one"},
         StoreInv, NEW i \in nodes, PayloadNode(plan, i), MayDestroy(i),
         pc = "dfs", OnlyStorageChanges,
         slots' = Destroy(slots, live_slots, i),
         live_slots' = SetLive(live_slots, i, FALSE) \/ (FlaggedSlot(i) /\ live_slots' = live_slots)
  PROVE  StoreInv' /\ Emptied(i)
  <1>1. plan \in Plans /\ Sound(slots, live_slots)
    BY DEF StoreInv
  <1>2. /\ plan.slot[i] \in 0 .. plan.n_slots - 1
        /\ plan.layout = "one_to_one" =>
             \A j \in nodes : PayloadNode(plan, j) /\ plan.slot[j] = plan.slot[i] => j = i
    BY <1>1, SlotOfPayload
  <1>3. slots[plan.slot[i]].obj = i \/ plan.layout = "one_to_one"
    BY DEF MayDestroy
  <1>4. slots[plan.slot[i]].obj \in {i, NoObject}
    <2>1. slots[plan.slot[i]].obj \in nodes \cup {NoObject}
      BY <1>2 DEF StoreInv, Sound, Cells, Cell
    <2>2. slots[plan.slot[i]].obj \in nodes =>
            PayloadNode(plan, slots[plan.slot[i]].obj)
            /\ plan.slot[slots[plan.slot[i]].obj] = plan.slot[i]
      BY <1>1, <1>2 DEF Sound, AtHome
    <2> QED BY <1>2, <1>3, <2>1, <2>2
  <1>5. /\ Sound(Destroy(slots, live_slots, i), SetLive(live_slots, i, FALSE))
        /\ Destroy(slots, live_slots, i)[plan.slot[i]].obj = NoObject
        /\ \A s \in 0 .. plan.n_slots - 1 : s # plan.slot[i] =>
             Destroy(slots, live_slots, i)[s].obj = slots[s].obj
    BY <1>1, <1>3, <1>4, DestroyingKeepsSound
  <1>6. Sound(slots', live_slots')
    <2>1. CASE live_slots' = SetLive(live_slots, i, FALSE)
      BY <1>5, <2>1
    <2>2. CASE FlaggedSlot(i) /\ live_slots' = live_slots
      <3>1. live_slots \in [nodes -> BOOLEAN]
        BY <1>1 DEF Sound
      <3>2. \A j \in nodes : j # i => SetLive(live_slots, i, FALSE)[j] = live_slots[j]
        BY <3>1 DEF SetLive
      <3> QED BY <1>5, <2>2, <3>1, <3>2 DEF Sound, Truthful
    <2> QED BY <2>1, <2>2
  <1>7. \A s \in 0 .. plan.n_slots - 1 : slots[s].obj = i => s = plan.slot[i]
    BY StoredAtHome
  <1>8. \A s \in 0 .. plan.n_slots - 1 :
          slots'[s].obj = IF slots[s].obj = i THEN NoObject ELSE slots[s].obj
    BY <1>2, <1>4, <1>5, <1>7
  <1> QED BY <1>6, <1>8, CallKeepsStoreInv DEF Emptied

(* Destroying the payload of a node that owns none changes nothing.        *)
LEMMA DestroyingNothing ==
  ASSUME NEW i \in nodes, ~PayloadNode(plan, i)
  PROVE  Destroy(slots, live_slots, i) = slots /\ SetLive(live_slots, i, FALSE) = live_slots
  BY DEF Destroy, SetLive

(* A node with a sink has a flag in its slot.                              *)
LEMMA SinksAreFlagged ==
  ASSUME plan \in Plans, NEW i \in nodes, HasSink(i)
  PROVE  PayloadNode(plan, i) /\ FlaggedSlot(i)
  <1>1. PayloadNode(plan, i) /\ plan.task[i].kind # "value"
    BY DEF HasSink, Logical, SlotLogicalPolicy
  <1> QED BY <1>1, WellFormedPlan DEF SlotsWellFormed, FlaggedSlot, nodes

(* Each step, as seen from outside: a payload is put, one is dropped, or   *)
(* the destructor starts.                                                  *)
StoreStep ==
  \/ pc = "dfs" /\ pc' = "dfs" /\ plan' = plan /\ \E i \in nodes : Filled(i)
  \/ pc = "dfs" /\ pc' = "dfs" /\ plan' = plan /\ \E i \in nodes : Emptied(i)
  \/ pc = "dfs" /\ pc' = "slots_dtor" /\ UNCHANGED <<plan, slots>>
  \/ /\ pc = "slots_dtor" /\ plan' = plan
     /\ \E i \in nodes : Emptied(i)
     /\ pc' \in {"slots_dtor", "done"}
  \/ UNCHANGED <<plan, pc, slots>>

LEMMA StoreInvStep ==
  ASSUME BlindLayouts \subseteq {"one_to_one"}, StoreInv, [Next]_run_vars
  PROVE  StoreInv' /\ StoreStep
  <1>1. ASSUME NEW i \in nodes, EmplaceErased(i) PROVE StoreInv' /\ StoreStep
    <2>1. SetLive(live_slots, i, TRUE) = live_slots
      BY <1>1 DEF EmplaceErased, SetLive
    <2>2. StoreInv' /\ Filled(i)
      BY <1>1, <2>1, EmplacingFills DEF EmplaceErased, InUse
    <2> QED BY <1>1, <2>2 DEF StoreStep, EmplaceErased, InUse, OnlyStorageChanges
  <1>2. ASSUME NEW i \in nodes, EmplaceTyped(i) PROVE StoreInv' /\ StoreStep
    <2>1. StoreInv' /\ Filled(i)
      BY <1>2, EmplacingFills DEF EmplaceTyped, InUse
    <2> QED BY <1>2, <2>1 DEF StoreStep, EmplaceTyped, InUse, OnlyStorageChanges
  <1>3. ASSUME NEW i \in nodes, EmplaceInSink(i) PROVE StoreInv' /\ StoreStep
    <2>1. PayloadNode(plan, i) /\ FlaggedSlot(i)
      BY <1>3, SinksAreFlagged DEF EmplaceInSink, StoreInv
    <2>2. StoreInv' /\ Filled(i)
      BY <1>3, <2>1, EmplacingFills DEF EmplaceInSink, InUse
    <2> QED BY <1>3, <2>2 DEF StoreStep, EmplaceInSink, InUse, OnlyStorageChanges
  <1>4. ASSUME NEW i \in nodes, DestroyErased(i) PROVE StoreInv' /\ StoreStep
    <2>1. SetLive(live_slots, i, FALSE) = live_slots
      BY <1>4 DEF DestroyErased, SetLive
    <2>2. CASE PayloadNode(plan, i)
      <3>1. StoreInv' /\ Emptied(i)
        BY <1>4, <2>1, <2>2, DestroyingEmpties DEF DestroyErased, InUse
      <3> QED BY <1>4, <3>1 DEF StoreStep, DestroyErased, InUse, OnlyStorageChanges
    <2>3. CASE ~PayloadNode(plan, i)
      <3>1. UNCHANGED <<plan, pc, stage, cleanup, slots, live_slots>>
        BY <1>4, <2>3, DestroyingNothing DEF DestroyErased, OnlyStorageChanges
      <3>2. StoreInv'
        BY <3>1, SoundNext DEF StoreInv, CleanupProgress, nodes
      <3> QED BY <3>1, <3>2 DEF StoreStep
    <2> QED BY <2>2, <2>3
  <1>5. ASSUME NEW i \in nodes, DestroyTyped(i) PROVE StoreInv' /\ StoreStep
    <2>1. CASE PayloadNode(plan, i)
      <3>1. StoreInv' /\ Emptied(i)
        BY <1>5, <2>1, DestroyingEmpties DEF DestroyTyped, InUse
      <3> QED BY <1>5, <3>1 DEF StoreStep, DestroyTyped, InUse, OnlyStorageChanges
    <2>2. CASE ~PayloadNode(plan, i)
      <3>1. UNCHANGED <<plan, pc, stage, cleanup, slots, live_slots>>
        BY <1>5, <2>2, DestroyingNothing DEF DestroyTyped, OnlyStorageChanges
      <3>2. StoreInv'
        BY <3>1, SoundNext DEF StoreInv, CleanupProgress, nodes
      <3> QED BY <3>1, <3>2 DEF StoreStep
    <2> QED BY <2>1, <2>2
  <1>6. ASSUME NEW i \in nodes, DestroyInSink(i) PROVE StoreInv' /\ StoreStep
    <2>1. PayloadNode(plan, i) /\ FlaggedSlot(i)
      BY <1>6, SinksAreFlagged DEF DestroyInSink, StoreInv
    <2>2. StoreInv' /\ Emptied(i)
      BY <1>6, <2>1, DestroyingEmpties DEF DestroyInSink, InUse
    <2> QED BY <1>6, <2>2 DEF StoreStep, DestroyInSink, InUse, OnlyStorageChanges
  <1>7. CASE Destruct
    <2>1. /\ pc = "dfs" /\ pc' = "slots_dtor"
          /\ UNCHANGED <<plan, slots, live_slots, stage, cleanup>>
      BY <1>7 DEF Destruct, InUse
    <2>2. cleanup = 0 /\ \A i \in nodes : i >= 0
      BY <2>1, RootIsANode DEF StoreInv, CleanupProgress
    <2>3. CleanupProgress'
      BY <2>1, <2>2 DEF StoreInv, CleanupProgress, nodes
    <2>4. StoreInv'
      BY <2>1, <2>3, SoundNext DEF StoreInv, nodes
    <2> QED BY <2>1, <2>4 DEF StoreStep
  <1>8. CASE DestroyActiveSlot
    <2>1. /\ Sound(slots', live_slots') /\ CleanupProgress'
          /\ cleanup \in nodes
          /\ \A s \in 0 .. plan.n_slots - 1 :
               slots'[s].obj = IF slots[s].obj = cleanup THEN NoObject ELSE slots[s].obj
      BY <1>8, CleanupKeepsStorage DEF StoreInv
    <2>2. /\ pc = "slots_dtor" /\ pc' \in {"slots_dtor", "done"}
          /\ plan' = plan /\ stage' = stage /\ cleanup' = cleanup + 1
      BY <1>8 DEF DestroyActiveSlot
    <2>3. cleanup' \in 0 .. plan.n
      BY <2>1, <2>2, RootIsANode DEF StoreInv
    <2>4. \A s \in 0 .. plan.n_slots - 1 : slots'[s].obj # Poisoned
      BY <2>1 DEF StoreInv, NoObject, Poisoned
    <2>5. StoreInv'
      BY <2>1, <2>2, <2>3, <2>4, SoundNext DEF StoreInv, nodes
    <2> QED BY <2>1, <2>2, <2>5 DEF StoreStep, Emptied
  <1>9. CASE Gone \/ UNCHANGED run_vars
    <2>1. UNCHANGED run_vars
      BY <1>9 DEF Gone
    <2>2. StoreInv'
      BY <2>1, SoundNext DEF run_vars, StoreInv, CleanupProgress, nodes
    <2> QED BY <2>1, <2>2 DEF run_vars, StoreStep
  <1> QED BY <1>1, <1>2, <1>3, <1>4, <1>5, <1>6, <1>7, <1>8, <1>9 DEF Next

-------------------------------------------------------------------------------
(* has_value.                                                              *)

(* Which object is in the slot of a payload's owner is what its flag says, *)
(* in either backend.                                                      *)
LEMMA HasValueTellsTheTruth ==
  ASSUME StoreInv, NEW i \in nodes, ~OutputIsVoid(plan.task[i])
  PROVE  /\ ~SlotIsFree(plan.owner[i]) => HasValue(i)
         /\ FlaggedSlot(plan.owner[i]) => HasValue(i) = ~SlotIsFree(plan.owner[i])
  <1>1. plan \in Plans /\ Truthful(slots, live_slots) /\ slots \in Cells
    BY DEF StoreInv, Sound
  <1>2. PICK o \in nodes : o = plan.owner[i] /\ PayloadNode(plan, o)
    BY <1>1, OwnersOwnPayloads
  <1>3. /\ plan.slot[o] \in 0 .. plan.n_slots - 1
        /\ plan.layout \in {"one_to_one", "compact"}
    BY <1>1, <1>2, SlotOfPayload
  <1>4. FlaggedSlot(o) => slots[plan.slot[o]].engaged = ~SlotIsFree(o)
    BY <1>1, <1>2 DEF Truthful, SlotIsFree
  <1>5. slots[plan.slot[o]].engaged \in BOOLEAN
    BY <1>1, <1>3 DEF Cells, Cell
  <1>6. CASE plan.layout = "compact"
    BY <1>2, <1>4, <1>5, <1>6 DEF HasValue, ErasedHasValue, SlotIsFree
  <1>7. CASE plan.layout = "one_to_one"
    <2>1. plan.slot_policy[plan.slot[o]] = SlotLogicalPolicy(plan.task[o])
      BY <1>1, <1>2, <1>7, WellFormedPlan DEF SlotsWellFormed, nodes
    <2>2. FlaggedSlot(o) <=> Logical(o) = "maybe_payload"
      BY <2>1 DEF FlaggedSlot, Logical
    <2> QED BY <1>2, <1>4, <1>5, <1>7, <2>2 DEF HasValue, TypedHasValue, SlotIsFree
  <1> QED BY <1>3, <1>6, <1>7

-------------------------------------------------------------------------------
(* The abstract store.                                                     *)

(* What filling and emptying a slot does to the set of stored payloads.    *)
LEMMA FillingPuts ==
  ASSUME StoreInv, StoreInv', plan' = plan, NEW i \in nodes, Filled(i)
  PROVE  i \notin Stored /\ Stored' = Stored \cup {i}
  <1>1. nodes' = nodes
    BY DEF nodes
  <1>2. PayloadNode(plan, i) /\ plan.slot[i] \in 0 .. plan.n_slots - 1
    BY SlotOfPayload DEF StoreInv, Filled
  <1>3. i # NoObject
    BY RootIsANode DEF StoreInv, NoObject
  <1>4. DOMAIN slots = 0 .. plan.n_slots - 1 /\ DOMAIN slots' = 0 .. plan.n_slots - 1
    BY DEF StoreInv, Sound, Cells
  <1>5. i \notin Stored
    BY <1>3, StoredAtHome DEF Filled
  <1>6. ASSUME NEW x PROVE x \in Stored' <=> x \in Stored \/ x = i
    BY <1>2, <1>3, <1>4 DEF Stored, Filled
  <1> QED BY <1>5, <1>6

LEMMA EmptyingDrops ==
  ASSUME StoreInv, StoreInv', plan' = plan, NEW i \in nodes, Emptied(i)
  PROVE  Stored' = Stored \ {i}
  <1>1. DOMAIN slots = 0 .. plan.n_slots - 1 /\ DOMAIN slots' = 0 .. plan.n_slots - 1
    BY DEF StoreInv, Sound, Cells
  <1>2. ASSUME NEW x PROVE x \in Stored' <=> x \in Stored /\ x # i
    BY <1>1 DEF Stored, Emptied
  <1> QED BY <1>2

(* The sweep has dropped the last payload when it ends.                    *)
LEMMA SweptStoreIsEmpty ==
  ASSUME StoreInv, pc = "done"
  PROVE  Stored = {}
  <1>1. cleanup = plan.n
    BY DEF StoreInv, CleanupProgress
  <1>2. \A s \in DOMAIN slots : slots[s].obj \in nodes => slots[s].obj >= plan.n
    BY <1>1 DEF StoreInv, CleanupProgress, Sound, Cells
  <1>3. \A i \in nodes : ~(i >= plan.n)
    BY RootIsANode DEF StoreInv
  <1>4. \A i \in nodes : i \notin Stored
    BY <1>2, <1>3 DEF Stored
  <1>5. PICK i \in nodes : TRUE
    BY RootIsANode DEF StoreInv
  <1>6. Stored \subseteq nodes
    BY <1>5, StoredAtHome
  <1> QED BY <1>4, <1>6

LEMMA InitIsAStore == Init => Store!Init
  <1> SUFFICES ASSUME Init PROVE Store!Init
    OBVIOUS
  <1>1. \A s \in 0 .. plan.n_slots - 1 : slots[s].obj = NoObject
    BY RunInitIsSound DEF Init
  <1>2. DOMAIN slots = 0 .. plan.n_slots - 1 /\ pc = "dfs"
    BY DEF Init, RunInit
  <1> QED BY <1>1, <1>2 DEF Store!Init, Stored

LEMMA StepsAreStoreSteps ==
  ASSUME StoreInv, StoreInv', StoreStep
  PROVE  [Store!Next]_(Store!vars)
  <1>1. plan' = plan /\ nodes' = nodes
    BY DEF StoreStep, nodes
  <1>2. ASSUME pc = "dfs", pc' = "dfs", NEW i \in nodes, Filled(i)
        PROVE  Store!Put(i)
    <2>1. i \notin Stored /\ Stored' = Stored \cup {i}
      BY <1>1, <1>2, FillingPuts
    <2> QED BY <1>1, <1>2, <2>1 DEF Store!Put
  <1>3. ASSUME pc = "dfs", pc' = "dfs", NEW i \in nodes, Emptied(i)
        PROVE  Store!Drop(i)
    <2>1. Stored' = Stored \ {i}
      BY <1>1, <1>3, EmptyingDrops
    <2> QED BY <1>1, <1>3, <2>1 DEF Store!Drop
  <1>4. ASSUME pc = "dfs", pc' = "slots_dtor", UNCHANGED <<plan, slots>>
        PROVE  Store!Close
    <2>1. Stored' = Stored
      BY <1>4 DEF Stored
    <2> QED BY <1>1, <1>4, <2>1 DEF Store!Close
  <1>5. ASSUME pc = "slots_dtor", NEW i \in nodes, Emptied(i), pc' = "slots_dtor"
        PROVE  Store!Drop(i)
    <2>1. Stored' = Stored \ {i}
      BY <1>1, <1>5, EmptyingDrops
    <2> QED BY <1>1, <1>5, <2>1 DEF Store!Drop
  <1>6. ASSUME pc = "slots_dtor", NEW i \in nodes, Emptied(i), pc' = "done"
        PROVE  Store!DropLast(i)
    <2>1. Stored' = Stored \ {i}
      BY <1>1, <1>6, EmptyingDrops
    <2>2. Stored' = {}
      <3>1. (StoreInv /\ pc = "done" => Stored = {})'
        BY SweptStoreIsEmpty, PTL
      <3> QED BY <1>6, <3>1
    <2>3. Stored \subseteq {i}
      BY <2>1, <2>2
    <2> QED BY <1>1, <1>6, <2>2, <2>3 DEF Store!DropLast
  <1>7. ASSUME UNCHANGED <<plan, pc, slots>>
        PROVE  UNCHANGED Store!vars
    <2>1. Stored' = Stored
      BY <1>7 DEF Stored
    <2> QED BY <1>1, <1>7, <2>1 DEF Store!vars
  <1> QED BY <1>2, <1>3, <1>4, <1>5, <1>6, <1>7 DEF StoreStep, Store!Next

-------------------------------------------------------------------------------
(* The results.                                                            *)

LEMMA StoreInvHolds ==
  ASSUME BlindLayouts \subseteq {"one_to_one"}
  PROVE  Spec => []StoreInv
  <1>1. Init => StoreInv
    BY StoreInvInit
  <1>2. StoreInv /\ [Next]_run_vars => StoreInv'
    BY StoreInvStep
  <1> QED BY <1>1, <1>2, PTL DEF Spec

(* Whatever the order of emplace, destroy and the sinks' calls, in either  *)
(* backend, flags and recorded owners tell the truth: nothing is ever      *)
(* constructed over a payload, destroyed twice or as another node's.       *)
THEOREM AnyUseKeepsTheBooks ==
  ASSUME BlindLayouts \subseteq {"one_to_one"}
  PROVE  Spec => []BookkeepingIsTruthful
  <1>1. StoreInv => BookkeepingIsTruthful
    BY SoundAndEmptied DEF StoreInv
  <1> QED BY <1>1, StoreInvHolds, PTL

(* has_value, though asked of another node's slot for a forwarding node    *)
(* and possibly of a slot without a flag, never denies the payload that    *)
(* the node's output names, and where there is a flag it never claims one  *)
(* in an empty slot.                                                       *)
THEOREM HasValueIsRight ==
  ASSUME BlindLayouts \subseteq {"one_to_one"}
  PROVE  Spec => []HasValueIsHonest
  <1>1. ASSUME StoreInv, NEW i \in nodes, ~OutputIsVoid(plan.task[i])
        PROVE  /\ HeldFor(i) = plan.owner[i] => HasValue(i)
               /\ FlaggedSlot(plan.owner[i]) /\ HeldFor(i) = NoObject => ~HasValue(i)
    <2>1. plan \in Plans
      BY <1>1 DEF StoreInv, Sound
    <2>2. plan.owner[i] # NoObject
      BY <1>1, <2>1, OwnersOwnPayloads, RootIsANode DEF NoObject
    <2>3. HeldFor(i) = plan.owner[i] => ~SlotIsFree(plan.owner[i])
      BY <2>2 DEF HeldFor, SlotIsFree
    <2>4. HeldFor(i) = NoObject <=> SlotIsFree(plan.owner[i])
      BY DEF HeldFor, SlotIsFree
    <2> QED BY <1>1, <2>3, <2>4, HasValueTellsTheTruth
  <1>2. StoreInv => HasValueIsHonest
    BY <1>1 DEF HasValueIsHonest
  <1> QED BY <1>2, StoreInvHolds, PTL

(* Both backends implement the store they promise to be: every call, and   *)
(* every step of the destructor's sweep, puts or drops one node's payload  *)
(* and no other, and the sweep drops them all.                             *)
THEOREM SlotsImplementTheStore ==
  ASSUME BlindLayouts \subseteq {"one_to_one"}
  PROVE  Spec => ImplementsStore
  <1>1. Init => Store!Init
    BY InitIsAStore
  <1>2. StoreInv /\ StoreInv' /\ [Next]_run_vars => [Store!Next]_(Store!vars)
    BY StoreInvStep, StepsAreStoreSteps
  <1> QED BY <1>1, <1>2, StoreInvHolds, PTL DEF Spec, ImplementsStore, Store!Spec

===============================================================================
