-------------------------- MODULE RecursiveDfsProofs --------------------------
(***************************************************************************)
(* Proofs about the recursive executor, for every set Plans of well-formed *)
(* plans and both settings of MayThrow.                                    *)
(*                                                                         *)
(* Four inductive invariants, each resting on the one before: CallInv is   *)
(* about the call stack, StorageInv about what the slots hold, ReadInv     *)
(* about what tasks find there, and PromiseInv about which tasks are still *)
(* due.  The last one gives the refinement of PlanRun, and a bound on the  *)
(* number of steps a run can take.  The calls are a walk of RunPlanProofs. *)
(***************************************************************************)
EXTENDS RecursiveDfs, RunPlanProofs

-------------------------------------------------------------------------------
(* The call stack.                                                         *)

ActivationType ==
  [ node : nodes, ord : Nat, phase : {"enter", "prepare", "children"},
    slot_guard : BOOLEAN, fanout_guard : BOOLEAN ]

(* An activation whose child has returned or is running is enumerating     *)
(* children, and no ordinal passes the child count it is compared with.    *)
CallsAreAPath ==
  /\ Len(calls) # 0 => calls[1].node = 0
  /\ \A k \in 1 .. Len(calls) :
       /\ calls[k].ord <= plan.child_counts[calls[k].node]
       /\ calls[k].phase # "children" => calls[k].ord = 0
       /\ calls[k].slot_guard => calls[k].phase # "enter"
       /\ k = Len(calls) /\ returned # "none" =>
            /\ calls[k].phase = "children"
            /\ calls[k].ord < plan.child_counts[calls[k].node]
  /\ \A k \in 1 .. Len(calls) - 1 :
       /\ calls[k].phase = "children"
       /\ calls[k].ord < plan.child_counts[calls[k].node]
       /\ calls[k + 1].node = ChildAt(plan, calls[k].node, calls[k].ord)

CallInv ==
  /\ plan \in Plans
  /\ calls \in Seq(ActivationType)
  /\ returned \in Statuses \cup {"none"}
  /\ result = "exception" => returned = "none"
  /\ pc # "dfs" => calls = <<>>
  /\ CallsAreAPath

(* The calls as a walk: its nodes, and the children they go on to.         *)
Path     == [k \in 1 .. Len(calls) |-> calls[k].node]
Ordinals == [k \in 1 .. Len(calls) |-> calls[k].ord]

(* The call stack is a walk from the root.                                 *)
LEMMA CallsAreAWalk ==
  ASSUME CallInv
  PROVE  /\ IsWalk(Path, Ordinals, Len(calls))
         /\ plan \in Plans
         /\ Len(calls) \in Nat
         /\ calls # <<>> <=> Len(calls) # 0
         /\ \A k \in 1 .. Len(calls) :
              /\ calls[k] \in ActivationType
              /\ Path[k] = calls[k].node /\ Path[k] \in nodes
              /\ Ordinals[k] = calls[k].ord /\ Ordinals[k] \in Nat
         /\ calls # <<>> => /\ top = Len(calls) /\ top \in 1 .. Len(calls)
                            /\ I = Path[Len(calls)] /\ I \in nodes
  <1>1. Len(calls) \in Nat /\ \A k \in 1 .. Len(calls) : calls[k] \in ActivationType
    BY LenProperties, ElementOfSeq DEF CallInv
  <1>2. calls # <<>> <=> Len(calls) # 0
    BY EmptySeq DEF CallInv
  <1>3. \A k \in 1 .. Len(calls) :
          /\ Path[k] = calls[k].node /\ Path[k] \in nodes
          /\ Ordinals[k] = calls[k].ord /\ Ordinals[k] \in Nat
    BY <1>1 DEF Path, Ordinals, ActivationType
  <1>4. Len(calls) # 0 => Path[1] = 0
    BY <1>1 DEF CallInv, CallsAreAPath, Path
  <1>5. \A k \in 1 .. Len(calls) - 1 :
          /\ Ordinals[k] < plan.child_counts[Path[k]]
          /\ Path[k + 1] = ChildAt(plan, Path[k], Ordinals[k])
    BY <1>1 DEF CallInv, CallsAreAPath, Path, Ordinals
  <1>6. IsWalk(Path, Ordinals, Len(calls))
    BY <1>1, <1>3, <1>4, <1>5 DEF IsWalk
  <1> QED BY <1>1, <1>2, <1>3, <1>6 DEF CallInv, top, I

-------------------------------------------------------------------------------
(* What the actions do to the call stack.                                  *)

(* The top activation moves on.                                            *)
TopMoves(phase, ord, slot, fanout) ==
  /\ Len(calls') = Len(calls)
  /\ \A k \in 1 .. Len(calls) - 1 : calls'[k] = calls[k]
  /\ calls'[Len(calls)].node = I
  /\ calls'[Len(calls)].ord = ord
  /\ calls'[Len(calls)].phase = phase
  /\ calls'[Len(calls)].slot_guard = slot
  /\ calls'[Len(calls)].fanout_guard = fanout

(* The top activation is left.                                             *)
TopLeaves ==
  /\ Len(calls') = Len(calls) - 1
  /\ \A k \in 1 .. Len(calls) - 1 : calls'[k] = calls[k]

(* Rewriting the top activation.                                           *)
LEMMA RewrittenTop ==
  ASSUME CallInv, calls # <<>>, plan' = plan, NEW f \in ActivationType,
         calls' = [calls EXCEPT ![top] = f]
  PROVE  /\ calls' \in Seq(ActivationType)'
         /\ Len(calls') = Len(calls)
         /\ \A k \in 1 .. Len(calls) - 1 : calls'[k] = calls[k]
         /\ calls'[Len(calls)] = f
  <1>1. top = Len(calls) /\ top \in 1 .. Len(calls) /\ Len(calls) \in Nat
    BY CallsAreAWalk
  <1>2. ActivationType' = ActivationType
    BY DEF ActivationType, nodes
  <1>3. /\ calls' \in Seq(ActivationType)
        /\ Len(calls') = Len(calls)
        /\ \A k \in 1 .. Len(calls) : calls'[k] = IF k = top THEN f ELSE calls[k]
    BY <1>1, SequenceUpdate DEF CallInv
  <1> QED BY <1>1, <1>2, <1>3

(* A node that succeeded goes on to prepare its fan-out, its payload       *)
(* guarded.                                                                *)
LEMMA SucceedingMovesTheTop ==
  ASSUME CallInv, calls # <<>>, plan' = plan, NEW guard \in BOOLEAN,
         calls' = [calls EXCEPT ![top].phase = "prepare", ![top].slot_guard = guard]
  PROVE  /\ calls' \in Seq(ActivationType)'
         /\ TopMoves("prepare", calls[top].ord, guard, calls[top].fanout_guard)
  <1>1. top = Len(calls) /\ top \in 1 .. Len(calls) /\ calls[top] \in ActivationType
    BY CallsAreAWalk
  <1>2. calls \in [1 .. Len(calls) -> ActivationType]
    BY LenProperties DEF CallInv
  <1>3. PICK f : f = [calls[top] EXCEPT !.phase = "prepare", !.slot_guard = guard]
    OBVIOUS
  <1>4. f \in ActivationType
    BY <1>1, <1>3 DEF ActivationType
  <1>5. calls' = [calls EXCEPT ![top] = f]
    BY <1>1, <1>2, <1>3
  <1>6. calls' \in Seq(ActivationType)' /\ Len(calls') = Len(calls)
        /\ calls'[Len(calls)] = f
        /\ \A k \in 1 .. Len(calls) - 1 : calls'[k] = calls[k]
    BY <1>4, <1>5, RewrittenTop
  <1>7. /\ f.node = I /\ f.ord = calls[top].ord /\ f.phase = "prepare"
        /\ f.slot_guard = guard /\ f.fanout_guard = calls[top].fanout_guard
    BY <1>1, <1>3 DEF ActivationType, I
  <1> QED BY <1>1, <1>6, <1>7 DEF TopMoves

(* A prepared node goes on to its children, its stage guarded.             *)
LEMMA PreparingMovesTheTop ==
  ASSUME CallInv, calls # <<>>, plan' = plan,
         calls' = [calls EXCEPT ![top].phase = "children", ![top].fanout_guard = TRUE]
  PROVE  /\ calls' \in Seq(ActivationType)'
         /\ TopMoves("children", calls[top].ord, calls[top].slot_guard, TRUE)
  <1>1. top = Len(calls) /\ top \in 1 .. Len(calls) /\ calls[top] \in ActivationType
    BY CallsAreAWalk
  <1>2. calls \in [1 .. Len(calls) -> ActivationType]
    BY LenProperties DEF CallInv
  <1>3. PICK f : f = [calls[top] EXCEPT !.phase = "children", !.fanout_guard = TRUE]
    OBVIOUS
  <1>4. f \in ActivationType
    BY <1>1, <1>3 DEF ActivationType
  <1>5. calls' = [calls EXCEPT ![top] = f]
    BY <1>1, <1>2, <1>3
  <1>6. calls' \in Seq(ActivationType)' /\ Len(calls') = Len(calls)
        /\ calls'[Len(calls)] = f
        /\ \A k \in 1 .. Len(calls) - 1 : calls'[k] = calls[k]
    BY <1>4, <1>5, RewrittenTop
  <1>7. /\ f.node = I /\ f.ord = calls[top].ord /\ f.phase = "children"
        /\ f.slot_guard = calls[top].slot_guard /\ f.fanout_guard = TRUE
    BY <1>1, <1>3 DEF ActivationType, I
  <1> QED BY <1>1, <1>6, <1>7 DEF TopMoves

(* A child that returned moves its parent's ordinal on.                    *)
LEMMA AdvancingMovesTheTop ==
  ASSUME CallInv, calls # <<>>, plan' = plan, calls[top].phase = "children",
         calls' = [calls EXCEPT ![top].ord = @ + 1]
  PROVE  /\ calls' \in Seq(ActivationType)'
         /\ TopMoves("children", calls[top].ord + 1, calls[top].slot_guard,
                     calls[top].fanout_guard)
  <1>1. top = Len(calls) /\ top \in 1 .. Len(calls) /\ calls[top] \in ActivationType
    BY CallsAreAWalk
  <1>2. calls \in [1 .. Len(calls) -> ActivationType]
    BY LenProperties DEF CallInv
  <1>3. PICK f : f = [calls[top] EXCEPT !.ord = calls[top].ord + 1]
    OBVIOUS
  <1>4. f \in ActivationType
    BY <1>1, <1>3 DEF ActivationType
  <1>5. calls' = [calls EXCEPT ![top] = f]
    BY <1>1, <1>2, <1>3
  <1>6. calls' \in Seq(ActivationType)' /\ Len(calls') = Len(calls)
        /\ calls'[Len(calls)] = f
        /\ \A k \in 1 .. Len(calls) - 1 : calls'[k] = calls[k]
    BY <1>4, <1>5, RewrittenTop
  <1>7. /\ f.node = I /\ f.ord = calls[top].ord + 1 /\ f.phase = "children"
        /\ f.slot_guard = calls[top].slot_guard
        /\ f.fanout_guard = calls[top].fanout_guard
    BY <1>1, <1>3 DEF ActivationType, I
  <1> QED BY <1>1, <1>6, <1>7 DEF TopMoves

(* Returning leaves the top activation.                                    *)
LEMMA PoppingLeavesTheRest ==
  ASSUME CallInv, calls # <<>>, plan' = plan, calls' = PopCall
  PROVE  calls' \in Seq(ActivationType)' /\ TopLeaves
  <1>1. /\ Len(calls) \in Nat \ {0} /\ top = Len(calls)
        /\ \A k \in 1 .. Len(calls) : calls[k] \in ActivationType
    BY CallsAreAWalk
  <1>2. ActivationType' = ActivationType
    BY DEF ActivationType, nodes
  <1>3. /\ SubSeq(calls, 1, top - 1) \in Seq(ActivationType)
        /\ Len(SubSeq(calls, 1, top - 1)) = Len(calls) - 1
        /\ \A k \in 1 .. Len(calls) - 1 : SubSeq(calls, 1, top - 1)[k] = calls[k]
    BY <1>1, SubSeqProperties
  <1> QED BY <1>2, <1>3 DEF PopCall, TopLeaves

(* Calling a child pushes its activation.                                  *)
LEMMA CallingPushes ==
  ASSUME CallInv, calls # <<>>, plan' = plan, NEW i \in nodes,
         calls' = Append(calls, Activation(i))
  PROVE  /\ calls' \in Seq(ActivationType)'
         /\ Len(calls') = Len(calls) + 1
         /\ \A k \in 1 .. Len(calls) : calls'[k] = calls[k]
         /\ calls'[Len(calls) + 1] = Activation(i)
  <1>1. Activation(i) \in ActivationType
    BY DEF Activation, ActivationType
  <1>2. ActivationType' = ActivationType
    BY DEF ActivationType, nodes
  <1> QED BY <1>1, <1>2, AppendProperties DEF CallInv

-------------------------------------------------------------------------------
(* The calls follow the tree.                                              *)

(* The run starts in the root's activation.                                *)
LEMMA CallInvInit == Init => CallInv
  <1> SUFFICES ASSUME Init PROVE CallInv
    OBVIOUS
  <1>1. plan \in Plans /\ calls = <<Activation(0)>> /\ returned = "none" /\ pc = "dfs"
    BY DEF Init, RunInit
  <1>2. Activation(0) \in ActivationType
    BY <1>1, RootIsANode DEF Activation, ActivationType
  <1>3. calls \in Seq(ActivationType) /\ Len(calls) = 1 /\ calls[1] = Activation(0)
    BY <1>1, <1>2
  <1>4. plan.child_counts[0] \in Nat
    BY <1>1, WellFormedPlan, RootIsANode DEF TreeWellFormed, nodes
  <1> QED BY <1>1, <1>3, <1>4 DEF CallInv, CallsAreAPath, Activation

(* Moving the top activation on keeps the calls a path.                    *)
LEMMA MovingKeepsThePath ==
  ASSUME CallInv, plan' = plan, calls # <<>>, returned' = "none",
         NEW phase, NEW ord \in Nat, NEW slot \in BOOLEAN, NEW fanout \in BOOLEAN,
         TopMoves(phase, ord, slot, fanout),
         ord <= plan.child_counts[I],
         phase # "children" => ord = 0,
         slot => phase # "enter"
  PROVE  CallsAreAPath'
  <1>1. /\ Len(calls) \in Nat \ {0} /\ top = Len(calls)
        /\ CallsAreAPath
    BY CallsAreAWalk DEF CallInv
  <1>2. /\ \A k \in 1 .. Len(calls) - 1 : calls'[k] = calls[k]
        /\ calls'[Len(calls)].node = I
        /\ calls'[Len(calls)].ord = ord
        /\ calls'[Len(calls)].phase = phase
        /\ calls'[Len(calls)].slot_guard = slot
        /\ Len(calls') = Len(calls)
    BY DEF TopMoves
  <1>3. \A k \in 1 .. Len(calls) : calls'[k].node = calls[k].node
    BY <1>1, <1>2 DEF I
  <1>4. Len(calls') # 0 => calls'[1].node = 0
    BY <1>1, <1>2, <1>3 DEF CallsAreAPath
  <1>5. ASSUME NEW k \in 1 .. Len(calls)
        PROVE  /\ calls'[k].ord <= plan.child_counts[calls'[k].node]
               /\ calls'[k].phase # "children" => calls'[k].ord = 0
               /\ calls'[k].slot_guard => calls'[k].phase # "enter"
    <2>1. CASE k = Len(calls)
      BY <1>2, <2>1
    <2>2. CASE k # Len(calls)
      <3>1. k \in 1 .. Len(calls) - 1
        BY <1>1, <2>2
      <3> QED BY <1>1, <1>2, <3>1 DEF CallsAreAPath
    <2> QED BY <2>1, <2>2
  <1>6. \A k \in 1 .. Len(calls) - 1 :
          /\ calls'[k].phase = "children"
          /\ calls'[k].ord < plan.child_counts[calls'[k].node]
          /\ calls'[k + 1].node = ChildAt(plan, calls'[k].node, calls'[k].ord)
    BY <1>1, <1>2, <1>3 DEF CallsAreAPath
  <1> QED BY <1>2, <1>4, <1>5, <1>6 DEF CallsAreAPath

(* Leaving the top activation keeps the calls a path: the one below is     *)
(* enumerating its children.                                               *)
LEMMA PoppingKeepsThePath ==
  ASSUME CallInv, plan' = plan, calls # <<>>, TopLeaves
  PROVE  CallsAreAPath'
  <1>1. Len(calls) \in Nat \ {0} /\ CallsAreAPath
    BY CallsAreAWalk DEF CallInv
  <1>2. \A k \in 1 .. Len(calls) - 1 : calls'[k] = calls[k] /\ k \in 1 .. Len(calls)
    BY <1>1 DEF TopLeaves
  <1>3. Len(calls') = Len(calls) - 1
    BY DEF TopLeaves
  <1>4. Len(calls') # 0 => calls'[1].node = 0
    BY <1>1, <1>2, <1>3 DEF CallsAreAPath
  <1>5. ASSUME NEW k \in 1 .. Len(calls')
        PROVE  /\ calls'[k].ord <= plan.child_counts[calls'[k].node]
               /\ calls'[k].phase # "children" => calls'[k].ord = 0
               /\ calls'[k].slot_guard => calls'[k].phase # "enter"
               /\ calls'[k].phase = "children"
               /\ calls'[k].ord < plan.child_counts[calls'[k].node]
    BY <1>1, <1>2, <1>3 DEF CallsAreAPath
  <1>6. ASSUME NEW k \in 1 .. Len(calls') - 1
        PROVE  calls'[k + 1].node = ChildAt(plan, calls'[k].node, calls'[k].ord)
    <2>1. k \in 1 .. Len(calls) - 1 /\ k + 1 \in 1 .. Len(calls) - 1
      BY <1>1, <1>3
    <2> QED BY <1>1, <1>2, <2>1 DEF CallsAreAPath
  <1>7. \A k \in 1 .. Len(calls') - 1 : k \in 1 .. Len(calls')
    BY <1>1, <1>3
  <1> QED BY <1>4, <1>5, <1>6, <1>7 DEF CallsAreAPath

(* Calling the child that the ordinal selects extends the path.            *)
LEMMA CallingKeepsThePath ==
  ASSUME CallInv, CallChild
  PROVE  /\ calls' \in Seq(ActivationType)'
         /\ CallsAreAPath'
         /\ \E c \in nodes :
              /\ c = ChildAt(plan, I, calls[top].ord)
              /\ Len(calls') = Len(calls) + 1
              /\ \A k \in 1 .. Len(calls) : calls'[k] = calls[k]
              /\ calls'[Len(calls) + 1] = Activation(c)
         /\ calls[top].ord < plan.child_counts[I]
  <1>1. /\ calls # <<>> /\ plan' = plan /\ returned' = "none"
        /\ calls[top].phase = "children"
        /\ calls[top].ord # plan.child_counts[I]
        /\ calls' = Append(calls, Activation(ChildAt(plan, I, calls[top].ord)))
    BY DEF CallChild, Running, run_vars
  <1>2. /\ Len(calls) \in Nat \ {0} /\ top = Len(calls) /\ top \in 1 .. Len(calls)
        /\ I \in nodes /\ I = calls[top].node /\ calls[top].ord \in Nat
        /\ CallsAreAPath /\ plan \in Plans
    BY <1>1, CallsAreAWalk DEF CallInv
  <1>3. plan.child_counts[I] \in Nat
    BY <1>2, WellFormedPlan DEF TreeWellFormed, nodes
  <1>4. calls[top].ord < plan.child_counts[I]
    BY <1>1, <1>2, <1>3 DEF CallsAreAPath
  <1>5. PICK c \in nodes : c = ChildAt(plan, I, calls[top].ord)
    BY <1>2, <1>4, ChildIsANode
  <1>6. plan.child_counts[c] \in Nat
    BY <1>2, WellFormedPlan DEF TreeWellFormed, nodes
  <1>7. /\ calls' \in Seq(ActivationType)'
        /\ Len(calls') = Len(calls) + 1
        /\ \A k \in 1 .. Len(calls) : calls'[k] = calls[k]
        /\ calls'[Len(calls) + 1] = Activation(c)
    BY <1>1, <1>5, CallingPushes
  <1>8. /\ Activation(c).node = c /\ Activation(c).ord = 0
        /\ Activation(c).phase = "enter" /\ Activation(c).slot_guard = FALSE
    BY DEF Activation
  <1>9. CallsAreAPath'
    <2>1. Len(calls') # 0 => calls'[1].node = 0
      BY <1>2, <1>7 DEF CallsAreAPath
    <2>2. ASSUME NEW k \in 1 .. Len(calls')
          PROVE  /\ calls'[k].ord <= plan.child_counts[calls'[k].node]
                 /\ calls'[k].phase # "children" => calls'[k].ord = 0
                 /\ calls'[k].slot_guard => calls'[k].phase # "enter"
      <3>1. CASE k \in 1 .. Len(calls)
        BY <1>2, <1>7, <3>1 DEF CallsAreAPath
      <3>2. CASE k = Len(calls) + 1
        BY <1>6, <1>7, <1>8, <3>2
      <3> QED BY <1>2, <1>7, <3>1, <3>2
    <2>3. ASSUME NEW k \in 1 .. Len(calls)
          PROVE  /\ calls'[k].phase = "children"
                 /\ calls'[k].ord < plan.child_counts[calls'[k].node]
                 /\ calls'[k + 1].node = ChildAt(plan, calls'[k].node, calls'[k].ord)
      <3>1. CASE k = Len(calls)
        BY <1>1, <1>2, <1>4, <1>5, <1>7, <1>8, <3>1
      <3>2. CASE k # Len(calls)
        <4>1. k \in 1 .. Len(calls) - 1 /\ k + 1 \in 1 .. Len(calls)
          BY <1>2, <3>2
        <4> QED BY <1>2, <1>7, <4>1 DEF CallsAreAPath
      <3> QED BY <3>1, <3>2
    <2>4. Len(calls') - 1 = Len(calls)
      BY <1>2, <1>7
    <2> QED BY <1>1, <2>1, <2>2, <2>3, <2>4 DEF CallsAreAPath
  <1> QED BY <1>4, <1>5, <1>7, <1>9


-------------------------------------------------------------------------------
(* The actions, by what they do to the call stack.                         *)

(* A node that does not succeed is left before its guards exist.           *)
Failing == RunNodeFails \/ RunNodeThrows

(* An activation whose guards exist is left through their destructors.     *)
Leaving == calls # <<>> /\ (ReturnSuccess \/ ReturnStep \/ Unwind)

(* Nothing of the stack or the storage changes.                            *)
Standing == ReturnFromRoot \/ PrepareThrows \/ (Unwind /\ calls = <<>>) \/ Done

(* The node that is entered and succeeds.                                  *)
LEMMA Succeeding ==
  ASSUME CallInv, RunNodeSucceeds
  PROVE  /\ calls # <<>> /\ I \in nodes /\ top = Len(calls) /\ top \in 1 .. Len(calls)
         /\ pc = "dfs" /\ result # "exception" /\ returned = "none" /\ returned' = "none"
         /\ calls[top].phase = "enter"
         /\ UNCHANGED <<plan, pc, result, cleanup>>
         /\ EnterNode(I, "success")
         /\ calls' \in Seq(ActivationType)'
         /\ \E live \in BOOLEAN :
              /\ live = PayloadLive(I, "success")
              /\ TopMoves("prepare", calls[top].ord, live, calls[top].fanout_guard)
         /\ CallsAreAPath'
  <1>1. /\ calls # <<>> /\ pc = "dfs" /\ result # "exception" /\ returned = "none"
        /\ returned' = "none" /\ calls[top].phase = "enter"
        /\ UNCHANGED <<plan, pc, result, cleanup>>
        /\ EnterNode(I, "success")
        /\ calls' = [calls EXCEPT ![top].phase = "prepare",
                                  ![top].slot_guard = PayloadLive(I, "success")]
    BY DEF RunNodeSucceeds, Running
  <1>2. PICK live \in BOOLEAN : live = PayloadLive(I, "success")
    BY DEF PayloadLive
  <1>3. /\ calls' \in Seq(ActivationType)'
        /\ TopMoves("prepare", calls[top].ord, live, calls[top].fanout_guard)
    BY <1>1, <1>2, SucceedingMovesTheTop
  <1>4. /\ I \in nodes /\ top = Len(calls) /\ top \in 1 .. Len(calls)
        /\ calls[top] \in ActivationType /\ I = calls[top].node
    BY <1>1, CallsAreAWalk DEF I
  <1>5. /\ calls[top].ord = 0 /\ calls[top].ord \in Nat /\ calls[top].fanout_guard \in BOOLEAN
        /\ calls[top].ord <= plan.child_counts[I]
    BY <1>1, <1>4 DEF CallInv, CallsAreAPath, ActivationType
  <1>6. CallsAreAPath'
    BY <1>1, <1>3, <1>5, MovingKeepsThePath
  <1> QED BY <1>1, <1>2, <1>3, <1>4, <1>6

(* The node whose fan-out is prepared.                                     *)
LEMMA Preparing ==
  ASSUME CallInv, Prepare
  PROVE  /\ calls # <<>> /\ I \in nodes /\ top = Len(calls) /\ top \in 1 .. Len(calls)
         /\ pc = "dfs" /\ result # "exception" /\ returned = "none" /\ returned' = "none"
         /\ calls[top].phase = "prepare"
         /\ UNCHANGED <<plan, pc, result, cleanup, slots, live_slots, outcome>>
         /\ PrepareFanoutStaging(I)
         /\ calls' \in Seq(ActivationType)'
         /\ TopMoves("children", calls[top].ord, calls[top].slot_guard, TRUE)
         /\ CallsAreAPath'
  <1>1. /\ calls # <<>> /\ pc = "dfs" /\ result # "exception" /\ returned = "none"
        /\ returned' = "none" /\ calls[top].phase = "prepare"
        /\ UNCHANGED <<plan, pc, result, cleanup, slots, live_slots, outcome>>
        /\ PrepareFanoutStaging(I)
        /\ calls' = [calls EXCEPT ![top].phase = "children", ![top].fanout_guard = TRUE]
    BY DEF Prepare, Running
  <1>2. /\ calls' \in Seq(ActivationType)'
        /\ TopMoves("children", calls[top].ord, calls[top].slot_guard, TRUE)
    BY <1>1, PreparingMovesTheTop
  <1>3. /\ I \in nodes /\ top = Len(calls) /\ top \in 1 .. Len(calls)
        /\ calls[top] \in ActivationType /\ I = calls[top].node
    BY <1>1, CallsAreAWalk DEF I
  <1>4. /\ calls[top].ord \in Nat /\ calls[top].slot_guard \in BOOLEAN
        /\ calls[top].ord <= plan.child_counts[I]
    BY <1>1, <1>3 DEF CallInv, CallsAreAPath, ActivationType
  <1>5. CallsAreAPath'
    <2>1. PICK fanout \in BOOLEAN : fanout = TRUE
      OBVIOUS
    <2>2. TopMoves("children", calls[top].ord, calls[top].slot_guard, fanout)
      BY <1>2, <2>1
    <2> QED BY <1>1, <1>4, <2>2, MovingKeepsThePath
  <1> QED BY <1>1, <1>2, <1>3, <1>5

(* The node whose child has returned.                                      *)
LEMMA Advancing ==
  ASSUME CallInv, NextChild
  PROVE  /\ calls # <<>> /\ I \in nodes /\ top = Len(calls) /\ top \in 1 .. Len(calls)
         /\ pc = "dfs" /\ result # "exception" /\ returned # "none" /\ returned' = "none"
         /\ calls[top].phase = "children"
         /\ UNCHANGED <<plan, pc, result, cleanup, slots, live_slots, stage, outcome>>
         /\ calls' \in Seq(ActivationType)'
         /\ TopMoves("children", calls[top].ord + 1, calls[top].slot_guard,
                     calls[top].fanout_guard)
         /\ CallsAreAPath'
  <1>1. /\ calls # <<>> /\ pc = "dfs" /\ returned # "none" /\ returned' = "none"
        /\ UNCHANGED <<plan, pc, result, cleanup, slots, live_slots, stage, outcome>>
        /\ calls' = [calls EXCEPT ![top].ord = @ + 1]
    BY DEF NextChild, Returning, run_vars
  <1>2. /\ I \in nodes /\ top = Len(calls) /\ top \in 1 .. Len(calls)
        /\ calls[top] \in ActivationType /\ I = calls[top].node /\ plan \in Plans
    BY <1>1, CallsAreAWalk DEF I
  <1>3. /\ calls[top].ord \in Nat /\ calls[top].slot_guard \in BOOLEAN
        /\ calls[top].fanout_guard \in BOOLEAN
        /\ calls[top].phase = "children" /\ calls[top].ord < plan.child_counts[I]
        /\ result # "exception"
    BY <1>1, <1>2 DEF CallInv, CallsAreAPath, ActivationType
  <1>4. /\ calls' \in Seq(ActivationType)'
        /\ TopMoves("children", calls[top].ord + 1, calls[top].slot_guard,
                    calls[top].fanout_guard)
    BY <1>1, <1>3, AdvancingMovesTheTop
  <1>5. plan.child_counts[I] \in Nat
    BY <1>2, WellFormedPlan DEF TreeWellFormed, nodes
  <1>6. CallsAreAPath'
    BY <1>1, <1>3, <1>4, <1>5, MovingKeepsThePath
  <1> QED BY <1>1, <1>2, <1>3, <1>4, <1>6

(* The node that is entered and does not succeed, or throws.               *)
LEMMA FailingPops ==
  ASSUME CallInv, Failing
  PROVE  /\ calls # <<>> /\ I \in nodes /\ top = Len(calls) /\ top \in 1 .. Len(calls)
         /\ pc = "dfs" /\ result # "exception" /\ returned = "none"
         /\ calls[top].phase = "enter"
         /\ UNCHANGED <<plan, pc, cleanup>>
         /\ \/ /\ \E status \in Statuses \ {"success"} :
                    EnterNode(I, status) /\ returned' = status
               /\ result' = result
            \/ EnterNodeThrows(I) /\ returned' = "none" /\ result' = "exception"
         /\ calls' \in Seq(ActivationType)'
         /\ TopLeaves
         /\ CallsAreAPath'
  <1>1. /\ calls # <<>> /\ pc = "dfs" /\ result # "exception" /\ returned = "none"
        /\ calls[top].phase = "enter"
        /\ UNCHANGED <<plan, pc, cleanup>>
        /\ calls' = PopCall
        /\ \/ /\ \E status \in Statuses \ {"success"} :
                   EnterNode(I, status) /\ returned' = status
              /\ result' = result
           \/ EnterNodeThrows(I) /\ returned' = "none" /\ result' = "exception"
    BY DEF Failing, RunNodeFails, RunNodeThrows, Running
  <1>2. calls' \in Seq(ActivationType)' /\ TopLeaves
    BY <1>1, PoppingLeavesTheRest
  <1>3. CallsAreAPath'
    BY <1>1, <1>2, PoppingKeepsThePath
  <1> QED BY <1>1, <1>2, <1>3, CallsAreAWalk

(* The activation that is left, by return or by exception.                 *)
LEMMA LeavingPops ==
  ASSUME CallInv, Leaving
  PROVE  /\ calls # <<>> /\ I \in nodes /\ top = Len(calls) /\ top \in 1 .. Len(calls)
         /\ pc = "dfs"
         /\ UNCHANGED <<plan, pc, result, cleanup, outcome>>
         /\ DestroyGuards
         /\ \/ result # "exception" /\ returned' # "none" /\ returned' \in Statuses
            \/ result = "exception" /\ returned' = "none"
         /\ calls' \in Seq(ActivationType)'
         /\ TopLeaves
         /\ CallsAreAPath'
  <1>1. /\ calls # <<>> /\ pc = "dfs"
        /\ UNCHANGED <<plan, pc, result, cleanup, outcome>>
        /\ DestroyGuards
        /\ calls' = PopCall
        /\ \/ ReturnSuccess /\ result # "exception" /\ returned' = "success"
           \/ ReturnStep /\ returned # "none" /\ returned' = returned
           \/ Unwind /\ result = "exception" /\ returned' = returned
    BY DEF Leaving, ReturnSuccess, ReturnStep, Unwind, Running, Returning
  <1>2. \/ result # "exception" /\ returned' # "none" /\ returned' \in Statuses
        \/ result = "exception" /\ returned' = "none"
    BY <1>1 DEF CallInv, Statuses
  <1>3. calls' \in Seq(ActivationType)' /\ TopLeaves
    BY <1>1, PoppingLeavesTheRest
  <1>4. CallsAreAPath'
    BY <1>1, <1>3, PoppingKeepsThePath
  <1> QED BY <1>1, <1>2, <1>3, <1>4, CallsAreAWalk

(* Where the stack stands still, so does the storage.                      *)
LEMMA StandingStill ==
  ASSUME CallInv, Standing \/ UNCHANGED vars
  PROVE  /\ UNCHANGED <<plan, slots, live_slots, stage, cleanup, outcome, calls, returned>>
         /\ \/ UNCHANGED <<pc, result>>
            \/ pc = "dfs" /\ pc' = "fanout_dtor" /\ calls = <<>>
                 /\ result' \in {result, returned} /\ (result' = "exception" => returned = "none")
            \/ pc = "dfs" /\ pc' = "dfs" /\ result' = "exception" /\ returned = "none"
  <1>1. CASE ReturnFromRoot
    BY <1>1 DEF ReturnFromRoot, storage, CallInv, Statuses
  <1>2. CASE PrepareThrows
    BY <1>2 DEF PrepareThrows, storage, Running
  <1>3. CASE Unwind /\ calls = <<>>
    BY <1>3 DEF Unwind, storage, CallInv
  <1>4. CASE Done \/ UNCHANGED vars
    BY <1>4 DEF Done, vars, run_vars
  <1> QED BY <1>1, <1>2, <1>3, <1>4 DEF Standing

(* The groups cover the actions.                                           *)
LEMMA StepsOfTheRun ==
  ASSUME [Next]_vars
  PROVE  \/ RunNodeSucceeds \/ Failing \/ Prepare \/ CallChild \/ NextChild
         \/ Leaving \/ Leave \/ Standing \/ UNCHANGED vars
  <1>1. ReturnSuccess \/ ReturnStep => calls # <<>>
    BY DEF ReturnSuccess, ReturnStep, Running, Returning
  <1> QED BY <1>1 DEF Next, Step, Failing, Leaving, Standing

(* Every step keeps the call stack a path of the tree.                     *)
LEMMA CallInvStep ==
  ASSUME CallInv, [Next]_vars
  PROVE  CallInv'
  <1>1. ASSUME plan' = plan, calls' \in Seq(ActivationType)',
               returned' \in Statuses \cup {"none"},
               result' = "exception" => returned' = "none",
               pc' = "dfs", CallsAreAPath'
        PROVE  CallInv'
    BY <1>1 DEF CallInv, Statuses
  <1>2. CASE RunNodeSucceeds
    BY <1>1, <1>2, Succeeding
  <1>3. CASE Failing
    <2>1. /\ plan' = plan /\ pc' = "dfs" /\ calls' \in Seq(ActivationType)' /\ CallsAreAPath'
      BY <1>3, FailingPops
    <2>2. /\ returned' \in Statuses \cup {"none"}
          /\ result' = "exception" => returned' = "none"
      BY <1>3, FailingPops
    <2> QED BY <1>1, <2>1, <2>2
  <1>4. CASE Prepare
    BY <1>1, <1>4, Preparing
  <1>5. CASE NextChild
    BY <1>1, <1>5, Advancing
  <1>6. CASE CallChild
    <2>1. plan' = plan /\ pc' = "dfs" /\ returned' = "none"
      BY <1>6 DEF CallChild, Running, run_vars
    <2>2. calls' \in Seq(ActivationType)' /\ CallsAreAPath'
      BY <1>6, CallingKeepsThePath
    <2> QED BY <1>1, <2>1, <2>2
  <1>7. CASE Leaving
    BY <1>1, <1>7, LeavingPops
  <1>8. CASE Leave
    <2>1. UNCHANGED <<plan, result, calls, returned>> /\ pc # "dfs"
      BY <1>8 DEF Leave, LeaveRunPlan, DestroyFanoutState, DestroyActiveSlot
    <2>2. calls = <<>>
      BY <2>1 DEF CallInv
    <2> QED BY <2>1, <2>2 DEF CallInv, CallsAreAPath, ActivationType, Statuses, nodes
  <1>9. CASE Standing \/ UNCHANGED vars
    <2>1. /\ UNCHANGED <<plan, calls, returned>>
          /\ result' = "exception" => returned = "none"
          /\ pc' # "dfs" => calls = <<>>
      BY <1>9, StandingStill DEF CallInv
    <2> QED BY <2>1 DEF CallInv, CallsAreAPath, ActivationType, Statuses, nodes
  <1> QED BY <1>2, <1>3, <1>4, <1>5, <1>6, <1>7, <1>8, <1>9, StepsOfTheRun

(* CallInv holds throughout every run.                                     *)
LEMMA CallInvHolds == Spec => []CallInv
  <1>1. CallInv /\ [Next]_vars => CallInv'
    BY CallInvStep
  <1> QED BY <1>1, CallInvInit, PTL DEF Spec

-------------------------------------------------------------------------------
(* The height of the native stack.                                         *)

(* A running total of naturals exists.                                     *)
LEMMA RunningTotal ==
  ASSUME NEW len \in Nat, NEW g, \A k \in 1 .. len : g[k] \in Nat
  PROVE  \E f \in [0 .. len -> Nat] :
           \A k \in 0 .. len : f[k] = IF k = 0 THEN 0 ELSE f[k - 1] + g[k]
  <1> DEFINE Totals(f, m) == \A k \in 0 .. m : f[k] = IF k = 0 THEN 0 ELSE f[k - 1] + g[k]
             S == {m \in 0 .. len : \E f \in [0 .. m -> Nat] : Totals(f, m)}
  <1>1. ASSUME NEW m \in 0 .. len, \A k \in 0 .. m - 1 : k \in S
        PROVE  m \in S
    <2>1. CASE m = 0
      <3>1. PICK f : f = [k \in 0 .. m |-> 0]
        OBVIOUS
      <3>2. f \in [0 .. m -> Nat] /\ Totals(f, m)
        BY <2>1, <3>1
      <3> QED BY <3>2
    <2>2. CASE m # 0
      <3>1. m - 1 \in S /\ m \in Nat /\ m \in 1 .. len
        <4>1. m - 1 \in 0 .. m - 1 /\ m \in Nat /\ m \in 1 .. len
          BY <2>2
        <4> HIDE DEF S
        <4> QED BY <4>1, <1>1
      <3>2. PICK f \in [0 .. m - 1 -> Nat] : Totals(f, m - 1)
        BY <3>1
      <3>3. PICK v \in Nat : v = f[m - 1] + g[m]
        BY <3>1, <3>2
      <3> DEFINE h == [k \in 0 .. m |-> IF k = m THEN v ELSE f[k]]
      <3>4. h \in [0 .. m -> Nat]
        BY <3>1, <3>2
      <3>5. /\ \A k \in 0 .. m - 1 : k \in 0 .. m /\ k # m /\ h[k] = f[k]
            /\ h[m] = v
        BY <3>1
      <3>6. ASSUME NEW k \in 0 .. m
            PROVE  h[k] = IF k = 0 THEN 0 ELSE h[k - 1] + g[k]
        <4>1. CASE k = m
          <5>1. h[m - 1] = f[m - 1] /\ k # 0
            BY <3>1, <3>5, <4>1
          <5> HIDE DEF h
          <5> QED BY <3>3, <3>5, <4>1, <5>1
        <4>2. CASE k # m
          <5>1. k \in 0 .. m - 1 /\ (k # 0 => k - 1 \in 0 .. m - 1)
            BY <3>1, <4>2
          <5>2. h[k] = f[k] /\ (k # 0 => h[k - 1] = f[k - 1])
            BY <3>5, <5>1
          <5> HIDE DEF h
          <5> QED BY <3>2, <5>1, <5>2
        <4> QED BY <4>1, <4>2
      <3>7. Totals(h, m)
        <4> HIDE DEF h
        <4> QED BY <3>6
      <3> HIDE DEF h, Totals
      <3> QED BY <3>4, <3>7
    <2> QED BY <2>1, <2>2
  <1>2. len \in S
    <2> HIDE DEF S
    <2>1. \A k \in 0 .. len : k \in S
      BY <1>1, UpTo
    <2> QED BY <2>1
  <1> QED BY <1>2

(* Siblings have indices of their own, behind their parent's.              *)
LEMMA ChildrenAreApart ==
  ASSUME plan \in Plans, NEW i \in nodes, NEW ord \in Nat, ord < plan.child_counts[i]
  PROVE  i + 1 + ord <= ChildAt(plan, i, ord)
  <1> DEFINE S == {o \in Nat : i + 1 + o <= ChildAt(plan, i, o)}
  <1>1. /\ i \in Nat /\ plan.child_counts[i] \in Nat
        /\ \A j \in nodes : j \in Nat
    BY RootIsANode, WellFormedPlan DEF TreeWellFormed, nodes
  <1>2. ASSUME NEW o \in 0 .. ord, \A p \in 0 .. o - 1 : p \in S
        PROVE  o \in S
    <2>1. o \in Nat /\ o < plan.child_counts[i]
      BY <1>1
    <2>2. ChildAt(plan, i, o) \in Nat /\ i < ChildAt(plan, i, o)
      BY <1>1, <2>1, ChildIsANode
    <2>3. CASE o = 0
      BY <1>1, <2>2, <2>3
    <2>4. CASE o # 0
      <3>1. PICK p \in Nat : p = o - 1
        BY <2>1, <2>4
      <3>2. p \in 0 .. o - 1 /\ p < plan.child_counts[i] /\ p < o
        BY <1>1, <2>1, <3>1
      <3>3. p \in S
        <4> HIDE DEF S
        <4> QED BY <1>2, <3>2
      <3>4. i + 1 + p <= ChildAt(plan, i, p)
        BY <3>3
      <3>5. ChildAt(plan, i, p) \in Nat /\ ChildAt(plan, i, p) < ChildAt(plan, i, o)
        BY <1>1, <2>1, <3>2, ChildIsANode
      <3> QED BY <1>1, <2>1, <2>2, <3>1, <3>4, <3>5
    <2> QED BY <2>3, <2>4
  <1>3. ord \in S
    <2> HIDE DEF S
    <2>1. \A o \in 0 .. ord : o \in S
      BY <1>2, UpTo
    <2> QED BY <2>1
  <1> QED BY <1>3

(* A node with as many children as `ord` says is that far from the end of  *)
(* the plan.                                                               *)
LEMMA ChildrenFitThePlan ==
  ASSUME plan \in Plans, NEW i \in nodes, NEW ord \in Nat, ord <= plan.child_counts[i]
  PROVE  i + ord < plan.n
  <1>1. i \in Nat /\ i < plan.n /\ plan.n \in Nat /\ \A j \in nodes : j \in Nat /\ j < plan.n
    BY RootIsANode
  <1>2. CASE ord = 0
    BY <1>1, <1>2
  <1>3. CASE ord # 0
    <2>1. PICK last \in Nat : last = ord - 1
      BY <1>3
    <2>2. plan.child_counts[i] \in Nat
      BY WellFormedPlan DEF TreeWellFormed, nodes
    <2>3. last < plan.child_counts[i]
      BY <2>1, <2>2
    <2>4. ChildAt(plan, i, last) \in nodes /\ i + 1 + last <= ChildAt(plan, i, last)
      BY <2>3, ChildIsANode, ChildrenAreApart
    <2>5. PICK c \in Nat : c = ChildAt(plan, i, last) /\ c < plan.n /\ i + 1 + last <= c
      BY <1>1, <2>4
    <2>6. i \in Nat /\ plan.n \in Nat
      BY <1>1
    <2> QED BY <2>1, <2>5, <2>6
  <1> QED BY <1>2, <1>3

(* The functions of the activations above the top one are paid for by the  *)
(* index of the node they lead to.                                         *)
LEMMA StackIsPaidFor ==
  ASSUME CallInv,
         NEW f \in [0 .. Len(calls) -> Nat],
         \A k \in 0 .. Len(calls) : f[k] = IF k = 0 THEN 0 ELSE f[k - 1] + Functions(k)
  PROVE  \A k \in 1 .. Len(calls) : f[k - 1] <= Path[k] + k - 1
  <1> DEFINE S == {k \in 1 .. Len(calls) : f[k - 1] <= Path[k] + k - 1}
  <1>1. /\ IsWalk(Path, Ordinals, Len(calls)) /\ plan \in Plans /\ Len(calls) \in Nat
        /\ \A k \in 1 .. Len(calls) :
             /\ calls[k] \in ActivationType
             /\ Path[k] = calls[k].node /\ Path[k] \in nodes
             /\ Ordinals[k] = calls[k].ord /\ Ordinals[k] \in Nat
    BY CallsAreAWalk
  <1>2. \A j \in nodes : j \in Nat
    BY <1>1, RootIsANode
  <1>3. ASSUME NEW m \in 1 .. Len(calls), \A k \in 1 .. m - 1 : k \in S
        PROVE  m \in S
    <2>1. Path[m] \in Nat
      BY <1>1, <1>2
    <2>2. CASE m = 1
      BY <1>1, <2>1, <2>2
    <2>3. CASE m # 1
      <3>1. PICK k \in 1 .. Len(calls) - 1 : m = k + 1
        <4>1. m - 1 \in 1 .. Len(calls) - 1 /\ m = (m - 1) + 1
          BY <1>1, <2>3
        <4> QED BY <4>1
      <3>2. k \in 1 .. Len(calls) /\ k \in 1 .. m - 1 /\ k \in Nat
        BY <1>1, <3>1
      <3>3. f[k - 1] <= Path[k] + k - 1
        <4>1. k \in S
          <5> HIDE DEF S
          <5> QED BY <1>3, <3>2
        <4> QED BY <4>1
      <3>4. Functions(k) = 2 + Ordinals[k]
        BY <1>1, <3>1, <3>2 DEF Functions, CallInv, CallsAreAPath
      <3>5. f[k] = f[k - 1] + 2 + Ordinals[k]
        <4>1. k \in 0 .. Len(calls) /\ k # 0 /\ k - 1 \in 0 .. Len(calls)
          BY <1>1, <3>2
        <4>2. f[k] = f[k - 1] + Functions(k) /\ f[k - 1] \in Nat
          BY <4>1
        <4>3. PICK o \in Nat : o = Ordinals[k]
          BY <1>1, <3>2
        <4>4. PICK below \in Nat : below = f[k - 1]
          BY <4>2
        <4>5. f[k] = below + (2 + o)
          BY <3>4, <4>2, <4>3, <4>4
        <4>6. f[k] = below + 2 + o
          BY <4>5
        <4> QED BY <4>3, <4>4, <4>6
      <3>6. Path[k] + 1 + Ordinals[k] <= Path[m]
        <4>1. Ordinals[k] < plan.child_counts[Path[k]] /\ Path[m] = ChildAt(plan, Path[k], Ordinals[k])
          BY <1>1, <3>1 DEF IsWalk
        <4> QED BY <1>1, <3>2, <4>1, ChildrenAreApart
      <3>7. f[k - 1] \in Nat /\ Path[k] \in Nat /\ Ordinals[k] \in Nat
        <4>1. k - 1 \in 0 .. Len(calls)
          BY <1>1, <3>2
        <4> QED BY <1>1, <1>2, <3>2, <4>1
      <3>8. f[k] <= Path[m] + k
        <4>1. PICK below \in Nat : below = f[k - 1]
          BY <3>7
        <4>2. PICK own \in Nat : own = Path[k]
          BY <3>7
        <4>3. PICK o \in Nat : o = Ordinals[k]
          BY <3>7
        <4>4. PICK next \in Nat : next = Path[m]
          BY <2>1
        <4>5. below <= own + k - 1
          BY <3>3, <4>1, <4>2
        <4>6. own + 1 + o <= next
          BY <3>6, <4>2, <4>3, <4>4
        <4>7. below + 2 + o <= next + k
          BY <3>2, <4>5, <4>6
        <4> QED BY <3>5, <4>1, <4>3, <4>4, <4>7
      <3> QED BY <1>1, <3>1, <3>2, <3>8
    <2> QED BY <2>2, <2>3
  <1>4. \A k \in 1 .. Len(calls) : k \in S
    <2> HIDE DEF S
    <2> QED BY <1>1, <1>3, WalkInduction
  <1> QED BY <1>4

(* A total over the activations never exceeds nodes and levels together.   *)
LEMMA TotalFitsThePlan ==
  ASSUME CallInv,
         NEW f \in [0 .. Len(calls) -> Nat],
         \A k \in 0 .. Len(calls) : f[k] = IF k = 0 THEN 0 ELSE f[k - 1] + Functions(k)
  PROVE  f[Len(calls)] <= plan.n + plan.max_level + 1
  <1>1. /\ IsWalk(Path, Ordinals, Len(calls)) /\ plan \in Plans /\ Len(calls) \in Nat
        /\ \A k \in 1 .. Len(calls) :
             /\ calls[k] \in ActivationType
             /\ Path[k] = calls[k].node /\ Path[k] \in nodes
             /\ Ordinals[k] = calls[k].ord /\ Ordinals[k] \in Nat
    BY CallsAreAWalk
  <1>2. /\ plan.n \in Nat /\ plan.max_level \in Nat
        /\ \A j \in nodes : j \in Nat /\ plan.level[j] \in 0 .. plan.max_level
    BY <1>1, RootIsANode, WellFormedPlan DEF TreeWellFormed, nodes
  <1>3. CASE Len(calls) = 0
    <2>1. f[Len(calls)] = 0
      BY <1>1, <1>3
    <2> QED BY <1>2, <2>1
  <1>4. CASE Len(calls) # 0
    <2>1. Len(calls) \in 1 .. Len(calls) /\ Len(calls) \in 0 .. Len(calls)
          /\ Len(calls) - 1 \in 0 .. Len(calls)
      BY <1>1, <1>4
    <2>2. f[Len(calls) - 1] <= Path[Len(calls)] + Len(calls) - 1
      BY <2>1, StackIsPaidFor
    <2>3. Functions(Len(calls)) \in Nat /\ Functions(Len(calls)) <= 2 + Ordinals[Len(calls)]
      BY <1>1, <2>1 DEF Functions
    <2>4. f[Len(calls)] = f[Len(calls) - 1] + Functions(Len(calls))
          /\ f[Len(calls) - 1] \in Nat
      BY <1>4, <2>1
    <2>5. Path[Len(calls)] + Ordinals[Len(calls)] < plan.n
      <3>1. Ordinals[Len(calls)] <= plan.child_counts[Path[Len(calls)]]
        BY <1>1, <2>1 DEF CallInv, CallsAreAPath
      <3> QED BY <1>1, <2>1, <3>1, ChildrenFitThePlan
    <2>6. Len(calls) - 1 <= plan.max_level
      <3>1. plan.level[Path[Len(calls)]] = Len(calls) - 1
        BY <1>1, <2>1, WalkGoesDown
      <3> QED BY <1>1, <1>2, <2>1, <3>1
    <2>7. Path[Len(calls)] \in Nat /\ Ordinals[Len(calls)] \in Nat
      BY <1>1, <1>2, <2>1
    <2>8. ASSUME NEW total \in Nat, NEW below \in Nat, NEW own \in Nat, NEW node \in Nat,
                 NEW ord \in Nat, NEW len \in Nat,
                 below <= node + len - 1, own <= 2 + ord, total = below + own,
                 node + ord < plan.n, len - 1 <= plan.max_level
          PROVE  total <= plan.n + plan.max_level + 1
      <3>1. plan.n \in Nat /\ plan.max_level \in Nat
        BY <1>2
      <3> QED BY <2>8, <3>1
    <2>9. f[Len(calls)] \in Nat
      BY <2>1
    <2> QED BY <1>1, <2>2, <2>3, <2>4, <2>5, <2>6, <2>7, <2>8, <2>9
  <1> QED BY <1>3, <1>4

(* The native stack never holds more functions than the plan has nodes and *)
(* levels together: run_children's recursion over the siblings is paid for *)
(* once per node, for plans of any size and shape.                         *)
THEOREM NativeStackIsBounded == Spec => []StackFitsThePlan
  <1>1. ASSUME CallInv PROVE StackFitsThePlan
    <2> DEFINE Def(frames) ==
                 [k \in 0 .. top |-> IF k = 0 THEN 0 ELSE frames[k - 1] + Functions(k)]
    <2>1. /\ Len(calls) \in Nat
          /\ \A k \in 1 .. Len(calls) : calls[k].ord \in Nat
      BY <1>1, CallsAreAWalk DEF ActivationType
    <2>2. \A k \in 1 .. Len(calls) : Functions(k) \in Nat
      BY <2>1 DEF Functions
    <2>3. PICK g : g = [k \in 1 .. Len(calls) |-> Functions(k)]
      OBVIOUS
    <2>4. PICK f \in [0 .. Len(calls) -> Nat] :
            \A k \in 0 .. Len(calls) : f[k] = IF k = 0 THEN 0 ELSE f[k - 1] + g[k]
      <3>1. \A k \in 1 .. Len(calls) : g[k] \in Nat
        BY <2>2, <2>3
      <3> QED BY <2>1, <3>1, RunningTotal
    <2>5. f = Def(f)
      <3>1. \A k \in 0 .. Len(calls) : k # 0 => g[k] = Functions(k)
        BY <2>1, <2>3
      <3> QED BY <2>4, <3>1 DEF top
    <2>6. PICK frames : /\ frames = Def(frames)
                        /\ NativeFrames = frames[top]
      <3>1. NativeFrames = (CHOOSE frames : frames = Def(frames))[top]
        BY DEF NativeFrames
      <3> HIDE DEF Def
      <3> QED BY <2>5, <3>1
    <2>7. \A k \in 0 .. Len(calls) :
            frames[k] = IF k = 0 THEN 0 ELSE frames[k - 1] + Functions(k)
      BY <2>6 DEF top
    <2>8. frames \in [0 .. Len(calls) -> Nat]
      <3> DEFINE T == {k \in Nat : frames[k] \in Nat}
      <3>1. ASSUME NEW k \in 0 .. Len(calls), \A j \in 0 .. k - 1 : j \in T
            PROVE  k \in T
        <4>1. k # 0 => k - 1 \in 0 .. k - 1 /\ k \in 1 .. Len(calls)
          BY <2>1
        <4>2. k # 0 => frames[k - 1] \in Nat
          BY <3>1, <4>1
        <4> QED BY <2>2, <2>7, <4>1, <4>2
      <3>2. \A k \in 0 .. Len(calls) : k \in T
        <4> HIDE DEF T
        <4> QED BY <2>1, <3>1, UpTo
      <3>3. DOMAIN frames = 0 .. Len(calls) /\ frames = [k \in 0 .. Len(calls) |-> frames[k]]
        BY <2>6 DEF top
      <3> QED BY <3>2, <3>3
    <2>9. frames[Len(calls)] <= plan.n + plan.max_level + 1
      BY <1>1, <2>7, <2>8, TotalFitsThePlan
    <2> QED BY <2>6, <2>9 DEF StackFitsThePlan, top
  <1> QED BY <1>1, CallInvHolds, PTL

-------------------------------------------------------------------------------
(* What the slots hold.                                                    *)

Guards == [k \in 1 .. Len(calls) |-> calls[k].slot_guard]

(* The payloads in the slots are those of the activations whose slot guard *)
(* is armed.                                                               *)
GuardsHoldPayloads == Held(slots, Path, Guards, Len(calls))

TypeInv == CallInv /\ RunTypeOK

StorageInv ==
  /\ TypeInv
  /\ Sound(slots, live_slots)
  /\ CleanupProgress
  /\ pc = "dfs" => GuardsHoldPayloads

(* Destroying the guards of an activation keeps the storage well typed.    *)
LEMMA DestroyGuardsIsTyped ==
  ASSUME RunTypeOK, I \in nodes, DestroyGuards
  PROVE  /\ slots' \in Cells
         /\ live_slots' \in [nodes -> BOOLEAN]
         /\ stage' \in [nodes -> BOOLEAN]
  <1>1. slots \in Cells /\ live_slots \in [nodes -> BOOLEAN] /\ stage \in [nodes -> BOOLEAN]
    BY DEF RunTypeOK, Cells
  <1>2. Destroy(slots, live_slots, I) \in Cells
    BY <1>1, SlotOperationsAreTyped
  <1>3. SetLive(live_slots, I, FALSE) \in [nodes -> BOOLEAN]
    BY <1>1, LiveFlagsAreTyped
  <1> QED BY <1>1, <1>2, <1>3 DEF DestroyGuards, DestroyFanoutStaging

(* Every step keeps the state of the run well typed.                       *)
LEMMA TypeInvStep ==
  ASSUME TypeInv, [Next]_vars
  PROVE  TypeInv'
  <1>1. CallInv' /\ CallInv /\ RunTypeOK /\ plan \in Plans
    BY CallInvStep DEF TypeInv, CallInv
  <1>2. /\ slots \in Cells /\ live_slots \in [nodes -> BOOLEAN] /\ stage \in [nodes -> BOOLEAN]
        /\ outcome \in [nodes -> Statuses \cup {"none", "threw"}]
        /\ pc \in {"dfs", "fanout_dtor", "slots_dtor", "done"}
        /\ result \in Statuses \cup {"none", "exception"}
        /\ cleanup \in 0 .. plan.n
        /\ returned \in Statuses \cup {"none"}
    BY <1>1 DEF RunTypeOK, Cells, CallInv
  <1>3. CASE RunNodeSucceeds
    <2>1. /\ I \in nodes /\ EnterNode(I, "success")
          /\ UNCHANGED <<plan, pc, result, cleanup>>
      BY <1>1, <1>3, Succeeding
    <2>2. "success" \in Statuses
      BY DEF Statuses
    <2>3. /\ slots' \in Cells /\ live_slots' \in [nodes -> BOOLEAN]
          /\ stage' \in [nodes -> BOOLEAN]
          /\ outcome' \in [nodes -> Statuses \cup {"none", "threw"}]
      BY <1>1, <2>1, <2>2, EnterNodeIsTyped
    <2> QED BY <1>1, <1>2, <2>1, <2>3, RunTypeNext DEF TypeInv
  <1>4. CASE Failing
    <2>1. I \in nodes /\ UNCHANGED <<plan, pc, cleanup>>
      BY <1>1, <1>4, FailingPops
    <2>2. /\ slots' \in Cells /\ live_slots' \in [nodes -> BOOLEAN]
          /\ stage' \in [nodes -> BOOLEAN]
          /\ outcome' \in [nodes -> Statuses \cup {"none", "threw"}]
          /\ result' \in {result, "exception"}
      <3>1. CASE EnterNodeThrows(I) /\ result' = "exception"
        <4>1. /\ slots' = ConsumePrev(slots, I)
              /\ outcome' = [outcome EXCEPT ![I] = "threw"]
              /\ UNCHANGED <<live_slots, stage>>
          BY <3>1 DEF EnterNodeThrows
        <4>2. slots' \in Cells
          BY <1>2, <2>1, <4>1, SlotOperationsAreTyped
        <4> QED BY <1>2, <3>1, <4>1, <4>2
      <3>2. CASE \E status \in Statuses \ {"success"} : EnterNode(I, status) /\ result' = result
        <4>1. PICK status \in Statuses : EnterNode(I, status) /\ result' = result
          BY <3>2
        <4> QED BY <1>1, <2>1, <4>1, EnterNodeIsTyped
      <3> QED BY <1>1, <1>4, <3>1, <3>2, FailingPops
    <2> QED BY <1>1, <1>2, <2>1, <2>2, RunTypeNext DEF TypeInv
  <1>5. CASE Prepare
    <2>1. /\ I \in nodes /\ PrepareFanoutStaging(I)
          /\ UNCHANGED <<plan, pc, result, cleanup, slots, live_slots, outcome>>
      BY <1>1, <1>5, Preparing
    <2>2. stage' \in [nodes -> BOOLEAN]
      BY <1>2, <2>1 DEF PrepareFanoutStaging
    <2> QED BY <1>1, <1>2, <2>1, <2>2, RunTypeNext DEF TypeInv
  <1>6. CASE CallChild \/ NextChild
    <2>1. UNCHANGED run_vars
      BY <1>6 DEF CallChild, NextChild
    <2> QED BY <1>1, <1>2, <2>1, RunTypeNext DEF TypeInv, run_vars
  <1>7. CASE Leaving
    <2>1. I \in nodes /\ DestroyGuards /\ UNCHANGED <<plan, pc, result, cleanup, outcome>>
      BY <1>1, <1>7, LeavingPops
    <2>2. /\ slots' \in Cells /\ live_slots' \in [nodes -> BOOLEAN]
          /\ stage' \in [nodes -> BOOLEAN]
      BY <1>1, <2>1, DestroyGuardsIsTyped
    <2> QED BY <1>1, <1>2, <2>1, <2>2, RunTypeNext DEF TypeInv
  <1>8. CASE Leave
    BY <1>1, <1>8, LeaveRunPlanIsTyped DEF Leave, TypeInv
  <1>9. CASE Standing \/ UNCHANGED vars
    <2>1. /\ UNCHANGED <<plan, slots, live_slots, stage, cleanup, outcome>>
          /\ pc' \in {pc, "dfs", "fanout_dtor"}
          /\ result' \in {result, returned, "exception"}
      BY <1>1, <1>9, StandingStill
    <2> QED BY <1>1, <1>2, <2>1, RunTypeNext DEF TypeInv
  <1> QED BY <1>3, <1>4, <1>5, <1>6, <1>7, <1>8, <1>9, StepsOfTheRun

(* A run starts with empty slots.                                          *)
LEMMA StorageInvInit == Init => StorageInv
  <1> SUFFICES ASSUME Init PROVE StorageInv
    OBVIOUS
  <1>1. TypeInv
    BY CallInvInit, RunInitIsTyped DEF TypeInv, Init
  <1>2. /\ Sound(slots, live_slots)
        /\ \A s \in 0 .. plan.n_slots - 1 : slots[s].obj = NoObject
        /\ plan \in Plans /\ pc = "dfs" /\ cleanup = 0
    BY RunInitIsSound DEF Init, RunInit
  <1>3. Len(calls) = 1 /\ calls[1].slot_guard = FALSE
    BY DEF Init, Activation
  <1>4. \A k \in 1 .. Len(calls) : ~Guards[k]
    BY <1>3 DEF Guards
  <1>5. NoObject \notin nodes
    BY <1>2, RootIsANode DEF NoObject
  <1>6. GuardsHoldPayloads
    BY <1>2, <1>4, <1>5 DEF GuardsHoldPayloads, Held
  <1> QED BY <1>1, <1>2, <1>6 DEF StorageInv, CleanupProgress

(* A step that keeps the plan translates a fact about the next state.      *)
LEMMA GuardsHoldNext ==
  ASSUME plan' = plan, Held(slots', Path', Guards', Len(calls'))
  PROVE  GuardsHoldPayloads'
  BY DEF GuardsHoldPayloads, Held, nodes

(* What the invariants give about the stack while the traversal runs.      *)
LEMMA GuardedCalls ==
  ASSUME StorageInv, pc = "dfs"
  PROVE  /\ CallInv /\ plan \in Plans /\ Sound(slots, live_slots)
         /\ IsWalk(Path, Ordinals, Len(calls)) /\ Len(calls) \in Nat
         /\ Held(slots, Path, Guards, Len(calls))
         /\ \A k \in 1 .. Len(calls) :
              /\ calls[k] \in ActivationType
              /\ Path[k] = calls[k].node /\ Path[k] \in nodes
              /\ Guards[k] = calls[k].slot_guard /\ Guards[k] \in BOOLEAN
  <1>1. CallInv /\ Sound(slots, live_slots) /\ Held(slots, Path, Guards, Len(calls))
    BY DEF StorageInv, TypeInv, GuardsHoldPayloads
  <1>2. /\ IsWalk(Path, Ordinals, Len(calls)) /\ Len(calls) \in Nat /\ plan \in Plans
        /\ \A k \in 1 .. Len(calls) : /\ calls[k] \in ActivationType
                                      /\ Path[k] = calls[k].node /\ Path[k] \in nodes
    BY <1>1, CallsAreAWalk
  <1>3. \A k \in 1 .. Len(calls) : Guards[k] = calls[k].slot_guard /\ Guards[k] \in BOOLEAN
    BY <1>2 DEF Guards, ActivationType
  <1> QED BY <1>1, <1>2, <1>3

(* A task that is run fills its slot if it leaves a payload.               *)
LEMMA EnteringFillsTheSlot ==
  ASSUME StorageInv, Running("enter"), NEW status \in Statuses, EnterNode(I, status)
  PROVE  /\ Sound(slots', live_slots')
         /\ PayloadNode(plan, I) => slots[plan.slot[I]].obj = NoObject
         /\ \A s \in 0 .. plan.n_slots - 1 :
              slots'[s].obj = IF PayloadLive(I, status) /\ s = plan.slot[I]
                                THEN I ELSE slots[s].obj
  <1>1. /\ CallInv /\ pc = "dfs" /\ calls # <<>> /\ calls[top].phase = "enter"
    BY DEF StorageInv, TypeInv, Running
  <1>2. /\ plan \in Plans /\ Sound(slots, live_slots)
        /\ IsWalk(Path, Ordinals, Len(calls)) /\ Len(calls) \in Nat
        /\ Held(slots, Path, Guards, Len(calls))
        /\ \A k \in 1 .. Len(calls) :
             /\ Path[k] = calls[k].node /\ Guards[k] = calls[k].slot_guard
    BY <1>1, GuardedCalls
  <1>3. Len(calls) # 0 /\ I \in nodes /\ top = Len(calls) /\ top \in 1 .. Len(calls)
    BY <1>1, CallsAreAWalk
  <1>4. Path[Len(calls)] = I /\ ~Guards[Len(calls)]
    BY <1>1, <1>2, <1>3 DEF CallInv, CallsAreAPath, I
  <1>5. PayloadNode(plan, I) => slots[plan.slot[I]].obj = NoObject
    BY <1>2, <1>3, <1>4, SlotIsFreeAtTheEnd
  <1> QED BY <1>2, <1>3, <1>5, EnterNodeFillsTheSlot

(* One that throws moves from its input at most.                           *)
LEMMA ThrowingFillsNoSlot ==
  ASSUME StorageInv, Running("enter"), EnterNodeThrows(I)
  PROVE  /\ Sound(slots', live_slots')
         /\ \A s \in 0 .. plan.n_slots - 1 : slots'[s].obj = slots[s].obj
  <1>1. /\ CallInv /\ pc = "dfs" /\ calls # <<>> /\ Sound(slots, live_slots)
    BY DEF StorageInv, TypeInv, Running
  <1>2. I \in nodes /\ plan \in Plans
    BY <1>1, CallsAreAWalk
  <1>3. slots' = ConsumePrev(slots, I) /\ live_slots' = live_slots
    BY DEF EnterNodeThrows
  <1> QED BY <1>1, <1>2, <1>3, ConsumingKeepsSound

(* The slot guard of an activation that is left empties its slot.          *)
LEMMA GuardEmptiesTheSlot ==
  ASSUME StorageInv, Leaving
  PROVE  /\ Sound(slots', live_slots')
         /\ calls[top].slot_guard => PayloadNode(plan, I) /\ slots[plan.slot[I]].obj = I
         /\ \A s \in 0 .. plan.n_slots - 1 :
              slots'[s].obj = IF calls[top].slot_guard /\ s = plan.slot[I]
                                THEN NoObject ELSE slots[s].obj
  <1>1. CallInv /\ pc = "dfs"
    BY LeavingPops DEF StorageInv, TypeInv
  <1>2. /\ plan \in Plans /\ Sound(slots, live_slots)
        /\ Held(slots, Path, Guards, Len(calls))
        /\ \A k \in 1 .. Len(calls) :
             /\ Path[k] = calls[k].node /\ Guards[k] = calls[k].slot_guard
             /\ Guards[k] \in BOOLEAN
    BY <1>1, GuardedCalls
  <1>3. /\ I \in nodes /\ top = Len(calls) /\ top \in 1 .. Len(calls) /\ DestroyGuards
    BY <1>1, LeavingPops
  <1>4. PICK holds \in BOOLEAN : holds = Guards[Len(calls)] /\ holds = calls[top].slot_guard
    BY <1>2, <1>3
  <1>5. holds => PayloadNode(plan, I) /\ slots[plan.slot[I]].obj = I
    BY <1>2, <1>3, <1>4 DEF Held, I
  <1>6. IF holds THEN /\ slots' = Destroy(slots, live_slots, I)
                      /\ live_slots' = SetLive(live_slots, I, FALSE)
                 ELSE UNCHANGED <<slots, live_slots>>
    BY <1>3, <1>4 DEF DestroyGuards
  <1>7. /\ Sound(slots', live_slots')
        /\ \A s \in 0 .. plan.n_slots - 1 :
             slots'[s].obj = IF holds /\ s = plan.slot[I] THEN NoObject ELSE slots[s].obj
    BY <1>2, <1>3, <1>5, <1>6, LeavingEmptiesTheSlot
  <1> QED BY <1>4, <1>5, <1>7

(* A node that is entered fills its slot if and only if its guard is armed.*)
LEMMA SucceedingKeepsStorage ==
  ASSUME StorageInv, RunNodeSucceeds
  PROVE  Sound(slots, live_slots)' /\ GuardsHoldPayloads'
  <1>1. CallInv /\ pc = "dfs"
    BY DEF StorageInv, TypeInv, RunNodeSucceeds, Running
  <1>2. /\ plan \in Plans /\ Sound(slots, live_slots)
        /\ IsWalk(Path, Ordinals, Len(calls)) /\ Len(calls) \in Nat
        /\ Held(slots, Path, Guards, Len(calls))
        /\ \A k \in 1 .. Len(calls) :
             /\ Path[k] = calls[k].node /\ Guards[k] = calls[k].slot_guard
    BY <1>1, GuardedCalls
  <1>3. /\ calls # <<>> /\ I \in nodes /\ top = Len(calls) /\ top \in 1 .. Len(calls)
        /\ calls[top].phase = "enter" /\ plan' = plan
        /\ EnterNode(I, "success")
    BY <1>1, Succeeding
  <1>4. PICK live \in BOOLEAN :
          /\ live = PayloadLive(I, "success")
          /\ TopMoves("prepare", calls[top].ord, live, calls[top].fanout_guard)
    BY <1>1, Succeeding
  <1>5. Len(calls) # 0 /\ Path[Len(calls)] = I /\ ~Guards[Len(calls)]
    BY <1>1, <1>2, <1>3 DEF CallInv, CallsAreAPath, I
  <1>6. live => PayloadNode(plan, I)
    BY <1>4 DEF PayloadLive
  <1>7. /\ Sound(slots', live_slots')
        /\ \A s \in 0 .. plan.n_slots - 1 :
             slots'[s].obj = IF live /\ s = plan.slot[I] THEN I ELSE slots[s].obj
    <2>1. "success" \in Statuses /\ Running("enter")
      BY DEF Statuses, RunNodeSucceeds
    <2> QED BY <1>3, <1>4, <2>1, EnteringFillsTheSlot
  <1>8. /\ Len(calls') = Len(calls)
        /\ \A k \in 1 .. Len(calls) - 1 : calls'[k] = calls[k]
        /\ calls'[Len(calls)].node = I /\ calls'[Len(calls)].slot_guard = live
    BY <1>4 DEF TopMoves
  <1>9. /\ Path' = Path
        /\ Guards'[Len(calls)] = live
        /\ \A k \in 1 .. Len(calls) - 1 : Guards'[k] = Guards[k]
    <2>1. \A k \in 1 .. Len(calls) : calls'[k].node = calls[k].node
      BY <1>2, <1>3, <1>8 DEF I
    <2>2. Path' = Path
      BY <1>8, <2>1 DEF Path
    <2> QED BY <1>2, <1>3, <1>8, <2>2 DEF Guards
  <1>10. Held(slots', Path, Guards', Len(calls))
    <2>1. live => PayloadNode(plan, Path[Len(calls)])
      BY <1>5, <1>6
    <2>2. \A s \in 0 .. plan.n_slots - 1 :
            slots'[s].obj = IF live /\ s = plan.slot[Path[Len(calls)]]
                              THEN Path[Len(calls)] ELSE slots[s].obj
      BY <1>5, <1>7
    <2>3. /\ plan \in Plans /\ IsWalk(Path, Ordinals, Len(calls)) /\ Len(calls) # 0
          /\ Held(slots, Path, Guards, Len(calls)) /\ ~Guards[Len(calls)]
          /\ Guards'[Len(calls)] = live
          /\ \A k \in 1 .. Len(calls) - 1 : Guards'[k] = Guards[k]
      BY <1>2, <1>5, <1>9
    <2> QED BY <2>1, <2>2, <2>3, FillingKeepsHeld
  <1> QED BY <1>3, <1>7, <1>8, <1>9, <1>10, GuardsHoldNext, SoundNext

(* Leaving the top activation keeps what the ones below it hold.           *)
LEMMA PoppingKeepsGuards ==
  ASSUME plan' = plan, CallInv, calls # <<>>, TopLeaves,
         Held(slots', Path, Guards, Len(calls) - 1)
  PROVE  GuardsHoldPayloads'
  <1>1. Len(calls) \in Nat
    BY CallsAreAWalk
  <1>2. /\ Len(calls') = Len(calls) - 1
        /\ \A k \in 1 .. Len(calls) - 1 : Path'[k] = Path[k] /\ Guards'[k] = Guards[k]
    BY <1>1 DEF TopLeaves, Path, Guards
  <1>3. Held(slots', Path', Guards', Len(calls'))
    BY <1>2 DEF Held
  <1> QED BY <1>3, GuardsHoldNext

(* A node that is left before its guards exist has stored nothing.         *)
LEMMA FailingKeepsStorage ==
  ASSUME StorageInv, Failing
  PROVE  Sound(slots, live_slots)' /\ GuardsHoldPayloads'
  <1>1. CallInv /\ pc = "dfs"
    BY FailingPops DEF StorageInv, TypeInv
  <1>2. /\ plan \in Plans /\ Sound(slots, live_slots)
        /\ IsWalk(Path, Ordinals, Len(calls)) /\ Len(calls) \in Nat
        /\ Held(slots, Path, Guards, Len(calls))
        /\ \A k \in 1 .. Len(calls) :
             /\ Path[k] = calls[k].node /\ Guards[k] = calls[k].slot_guard
    BY <1>1, GuardedCalls
  <1>3. /\ calls # <<>> /\ I \in nodes /\ top = Len(calls) /\ top \in 1 .. Len(calls)
        /\ calls[top].phase = "enter" /\ plan' = plan /\ TopLeaves
    BY <1>1, FailingPops
  <1>4. Len(calls) # 0 /\ Path[Len(calls)] = I /\ ~Guards[Len(calls)]
    BY <1>1, <1>2, <1>3 DEF CallInv, CallsAreAPath, I
  <1>5. Running("enter")
    BY <1>1, FailingPops DEF Running
  <1>6. /\ Sound(slots', live_slots')
        /\ \A s \in 0 .. plan.n_slots - 1 : slots'[s].obj = slots[s].obj
    <2>1. CASE EnterNodeThrows(I)
      BY <1>5, <2>1, ThrowingFillsNoSlot
    <2>2. CASE \E status \in Statuses \ {"success"} : EnterNode(I, status)
      <3>1. PICK status \in Statuses \ {"success"} : EnterNode(I, status)
        BY <2>2
      <3>2. ~PayloadLive(I, status)
        BY <3>1 DEF PayloadLive
      <3>3. /\ Sound(slots', live_slots')
            /\ \A s \in 0 .. plan.n_slots - 1 :
                 slots'[s].obj = IF PayloadLive(I, status) /\ s = plan.slot[I]
                                   THEN I ELSE slots[s].obj
        BY <1>5, <3>1, EnteringFillsTheSlot
      <3> QED BY <3>2, <3>3
    <2> QED BY <1>1, <2>1, <2>2, FailingPops
  <1>7. Held(slots', Path, Guards, Len(calls) - 1)
    <2>1. \A s \in 0 .. plan.n_slots - 1 :
            slots'[s].obj = IF Guards[Len(calls)] /\ s = plan.slot[Path[Len(calls)]]
                              THEN NoObject ELSE slots[s].obj
      BY <1>4, <1>6
    <2> QED BY <1>2, <1>4, <2>1, EmptyingKeepsHeld
  <1> QED BY <1>1, <1>3, <1>6, <1>7, PoppingKeepsGuards, SoundNext

(* The slot guard of an activation that is left empties its slot.          *)
LEMMA LeavingKeepsStorage ==
  ASSUME StorageInv, Leaving
  PROVE  Sound(slots, live_slots)' /\ GuardsHoldPayloads'
  <1>1. CallInv /\ pc = "dfs"
    BY LeavingPops DEF StorageInv, TypeInv
  <1>2. /\ plan \in Plans /\ Sound(slots, live_slots)
        /\ IsWalk(Path, Ordinals, Len(calls)) /\ Len(calls) \in Nat
        /\ Held(slots, Path, Guards, Len(calls))
        /\ \A k \in 1 .. Len(calls) :
             /\ Path[k] = calls[k].node /\ Guards[k] = calls[k].slot_guard
             /\ Guards[k] \in BOOLEAN
    BY <1>1, GuardedCalls
  <1>3. /\ calls # <<>> /\ top = Len(calls) /\ top \in 1 .. Len(calls)
        /\ plan' = plan /\ TopLeaves
    BY <1>1, LeavingPops
  <1>4. Len(calls) # 0 /\ Path[Len(calls)] = I
    BY <1>2, <1>3 DEF I
  <1>5. PICK holds \in BOOLEAN : holds = Guards[Len(calls)] /\ holds = calls[top].slot_guard
    BY <1>2, <1>3
  <1>6. /\ Sound(slots', live_slots')
        /\ \A s \in 0 .. plan.n_slots - 1 :
             slots'[s].obj = IF holds /\ s = plan.slot[I] THEN NoObject ELSE slots[s].obj
    BY <1>5, GuardEmptiesTheSlot
  <1>7. Held(slots', Path, Guards, Len(calls) - 1)
    <2>1. \A s \in 0 .. plan.n_slots - 1 :
            slots'[s].obj = IF Guards[Len(calls)] /\ s = plan.slot[Path[Len(calls)]]
                              THEN NoObject ELSE slots[s].obj
      BY <1>4, <1>5, <1>6
    <2> QED BY <1>2, <1>4, <2>1, EmptyingKeepsHeld
  <1> QED BY <1>1, <1>3, <1>6, <1>7, PoppingKeepsGuards, SoundNext

(* Moving on without touching the slots keeps what they hold.              *)
LEMMA MovingKeepsStorage ==
  ASSUME StorageInv, Prepare \/ NextChild
  PROVE  Sound(slots, live_slots)' /\ GuardsHoldPayloads'
  <1>1. CallInv /\ pc = "dfs"
    BY Preparing, Advancing DEF StorageInv, TypeInv
  <1>2. /\ Sound(slots, live_slots) /\ Len(calls) \in Nat
        /\ Held(slots, Path, Guards, Len(calls))
    BY <1>1, GuardedCalls
  <1>3. /\ UNCHANGED <<plan, slots, live_slots>>
        /\ top = Len(calls) /\ top \in 1 .. Len(calls)
        /\ Len(calls') = Len(calls)
        /\ \A k \in 1 .. Len(calls) - 1 : calls'[k] = calls[k]
        /\ calls'[top].node = calls[top].node
        /\ calls'[top].slot_guard = calls[top].slot_guard
    BY <1>1, Preparing, Advancing DEF TopMoves, I
  <1>4. \A k \in 1 .. Len(calls) : /\ calls'[k].node = calls[k].node
                                   /\ calls'[k].slot_guard = calls[k].slot_guard
    BY <1>2, <1>3
  <1>5. Path' = Path /\ Guards' = Guards
    BY <1>3, <1>4 DEF Path, Guards
  <1> QED BY <1>2, <1>3, <1>5, GuardsHoldNext, SoundNext

(* Calling a child stores nothing.                                         *)
LEMMA CallingKeepsStorage ==
  ASSUME StorageInv, CallChild
  PROVE  Sound(slots, live_slots)' /\ GuardsHoldPayloads'
  <1>1. CallInv /\ pc = "dfs" /\ UNCHANGED <<plan, slots, live_slots>>
    BY DEF StorageInv, TypeInv, CallChild, Running, run_vars
  <1>2. /\ Sound(slots, live_slots) /\ Len(calls) \in Nat
        /\ Held(slots, Path, Guards, Len(calls))
    BY <1>1, GuardedCalls
  <1>3. PICK c \in nodes :
          /\ Len(calls') = Len(calls) + 1
          /\ \A k \in 1 .. Len(calls) : calls'[k] = calls[k]
          /\ calls'[Len(calls) + 1] = Activation(c)
    BY <1>1, CallingKeepsThePath
  <1>4. ~Activation(c).slot_guard
    BY DEF Activation
  <1>5. /\ \A k \in 1 .. Len(calls) : Path'[k] = Path[k] /\ Guards'[k] = Guards[k]
        /\ ~Guards'[Len(calls) + 1]
    BY <1>2, <1>3, <1>4 DEF Path, Guards
  <1>6. Held(slots', Path', Guards', Len(calls'))
    BY <1>1, <1>2, <1>3, <1>5 DEF Held
  <1> QED BY <1>1, <1>2, <1>6, GuardsHoldNext, SoundNext

(* Every step keeps slots, flags and guards in agreement.                  *)
LEMMA StorageInvStep ==
  ASSUME StorageInv, [Next]_vars
  PROVE  StorageInv'
  <1>1. /\ CallInv /\ plan \in Plans /\ RunTypeOK
        /\ Sound(slots, live_slots)
        /\ CleanupProgress
        /\ cleanup \in 0 .. plan.n
    BY DEF StorageInv, TypeInv, CallInv, RunTypeOK
  <1>2. TypeInv'
    BY TypeInvStep DEF StorageInv
  <1>3. ASSUME pc = "dfs", pc' \in {"dfs", "fanout_dtor"}, cleanup' = cleanup
        PROVE  CleanupProgress'
    BY <1>1, <1>3 DEF CleanupProgress
  <1>4. CASE RunNodeSucceeds
    BY <1>1, <1>2, <1>3, <1>4, Succeeding, SucceedingKeepsStorage DEF StorageInv
  <1>5. CASE Failing
    BY <1>1, <1>2, <1>3, <1>5, FailingPops, FailingKeepsStorage DEF StorageInv
  <1>6. CASE Prepare \/ NextChild
    BY <1>1, <1>2, <1>3, <1>6, Preparing, Advancing, MovingKeepsStorage DEF StorageInv
  <1>7. CASE CallChild
    <2>1. pc = "dfs" /\ UNCHANGED <<pc, cleanup>>
      BY <1>7 DEF CallChild, Running, run_vars
    <2> QED BY <1>2, <1>3, <1>7, <2>1, CallingKeepsStorage DEF StorageInv
  <1>8. CASE Leaving
    BY <1>1, <1>2, <1>3, <1>8, LeavingPops, LeavingKeepsStorage DEF StorageInv
  <1>9. CASE Leave
    <2>1. LeaveRunPlan
      BY <1>9 DEF Leave
    <2>2. pc' # "dfs"
      BY <1>1, <2>1, LeaveRunPlanIsTyped
    <2> QED BY <1>1, <1>2, <2>1, <2>2, LeaveRunPlanKeepsStorage DEF StorageInv
  <1>10. CASE Standing \/ UNCHANGED vars
    <2>1. /\ UNCHANGED <<plan, slots, live_slots, stage, cleanup, calls>>
          /\ pc' = pc \/ (pc = "dfs" /\ pc' \in {"dfs", "fanout_dtor"})
      BY <1>1, <1>10, StandingStill
    <2>2. CleanupProgress'
      <3>1. CASE pc' = pc
        BY <1>1, <2>1, <3>1 DEF CleanupProgress, nodes
      <3>2. CASE pc = "dfs" /\ pc' \in {"dfs", "fanout_dtor"}
        BY <1>3, <2>1, <3>2
      <3> QED BY <2>1, <3>1, <3>2
    <2>3. Path' = Path /\ Guards' = Guards
      BY <2>1 DEF Path, Guards
    <2>4. pc' = "dfs" => GuardsHoldPayloads'
      BY <2>1, <2>3, GuardsHoldNext DEF StorageInv, GuardsHoldPayloads
    <2> QED BY <1>1, <1>2, <2>1, <2>2, <2>4, SoundNext DEF StorageInv
  <1> QED BY <1>4, <1>5, <1>6, <1>7, <1>8, <1>9, <1>10, StepsOfTheRun

(* StorageInv holds throughout every run.                                  *)
LEMMA StorageInvHolds == Spec => []StorageInv
  <1>1. StorageInv /\ [Next]_vars => StorageInv'
    BY StorageInvStep
  <1> QED BY <1>1, StorageInvInit, PTL DEF Spec

(* The backends' flags and recorded owners agree with what the slots hold, *)
(* whatever is returned or thrown through the activations' guards.         *)
THEOREM BookkeepingIsCorrectHere == Spec => []BookkeepingIsTruthful
  <1>1. StorageInv => BookkeepingIsTruthful
    BY SoundAndEmptied DEF StorageInv, TypeInv, CallInv
  <1> QED BY <1>1, StorageInvHolds, PTL

(* When run_plan has returned or thrown, no payload and no staged copy is  *)
(* left.                                                                   *)
THEOREM GuardsDestroyEverything == Spec => []NothingOutlivesTheRun
  <1>1. StorageInv => NothingOutlivesTheRun
    BY SoundAndEmptied DEF StorageInv, TypeInv, CallInv
  <1> QED BY <1>1, StorageInvHolds, PTL

-------------------------------------------------------------------------------
(* What tasks read.                                                        *)

(* The next child of each activation that is still to be called.           *)
Following ==
  [k \in 1 .. Len(calls) |-> IF k < Len(calls) \/ returned # "none"
                               THEN Ordinals[k] + 1 ELSE Ordinals[k]]

(* An activation past its node's entry guards the payload, and one that    *)
(* enumerates children has its stage.                                      *)
ActivationIsServed(k) ==
  /\ calls[k].phase # "enter" /\ PayloadNode(plan, calls[k].node) => calls[k].slot_guard
  /\ calls[k].phase = "children" /\ plan.staging[calls[k].node] => stage[calls[k].node]

CallsAreServed == \A k \in 1 .. Len(calls) : ActivationIsServed(k)

(* What was consumed was consumed by a task that ran, and what ran is in   *)
(* front of what will.                                                     *)
InPreorder ==
  /\ ConsumedBy(slots, Ran)
  /\ Ahead(Ran, Path, Following, Len(calls))
  /\ Len(calls) # 0 /\ calls[Len(calls)].phase = "enter" => \A j \in Ran : j < Path[Len(calls)]

ReadInv ==
  /\ StorageInv
  /\ pc = "dfs" /\ result # "exception" => CallsAreServed /\ InPreorder

(* What the invariants give about the calls until something throws.        *)
LEMMA ServedCalls ==
  ASSUME ReadInv, pc = "dfs", result # "exception"
  PROVE  /\ plan \in Plans /\ CallInv /\ StorageInv
         /\ CallsAreServed /\ InPreorder
         /\ Len(calls) \in Nat
         /\ IsWalk(Path, Ordinals, Len(calls))
         /\ \A k \in 1 .. Len(calls) :
              /\ calls[k] \in ActivationType
              /\ Path[k] = calls[k].node /\ Path[k] \in nodes
              /\ Ordinals[k] = calls[k].ord /\ Ordinals[k] \in Nat
              /\ Following[k] \in Nat
              /\ k < Len(calls) => calls[k].phase = "children"
         /\ \A k \in 1 .. Len(calls) - 1 : Following[k] = Ordinals[k] + 1
         /\ slots \in Cells
         /\ stage \in [nodes -> BOOLEAN]
         /\ outcome \in [nodes -> Statuses \cup {"none", "threw"}]
         /\ Ran \in SUBSET nodes
  <1>1. /\ plan \in Plans /\ CallInv
        /\ CallsAreServed /\ InPreorder
        /\ slots \in Cells
        /\ stage \in [nodes -> BOOLEAN]
        /\ outcome \in [nodes -> Statuses \cup {"none", "threw"}]
    BY DEF ReadInv, StorageInv, TypeInv, CallInv, RunTypeOK, Cells
  <1>2. /\ IsWalk(Path, Ordinals, Len(calls))
        /\ Len(calls) \in Nat
        /\ \A k \in 1 .. Len(calls) :
             /\ calls[k] \in ActivationType
             /\ Path[k] = calls[k].node /\ Path[k] \in nodes
             /\ Ordinals[k] = calls[k].ord /\ Ordinals[k] \in Nat
    BY <1>1, CallsAreAWalk
  <1>3. /\ \A k \in 1 .. Len(calls) : Following[k] \in Nat
        /\ \A k \in 1 .. Len(calls) - 1 : Following[k] = Ordinals[k] + 1
    BY <1>2 DEF Following
  <1>4. \A k \in 1 .. Len(calls) : k < Len(calls) => calls[k].phase = "children"
    BY <1>1, <1>2 DEF CallInv, CallsAreAPath
  <1> QED BY <1>1, <1>2, <1>3, <1>4 DEF Ran, ReadInv

(* Activations past their node's entry have their payloads in their slots. *)
LEMMA ServedCallsHoldPayloads ==
  ASSUME ReadInv, pc = "dfs", result # "exception", NEW k \in 1 .. Len(calls),
         calls[k].phase # "enter", PayloadNode(plan, Path[k])
  PROVE  slots[plan.slot[Path[k]]].obj = Path[k]
  <1>1. ActivationIsServed(k) /\ Path[k] = calls[k].node /\ StorageInv
    BY ServedCalls DEF CallsAreServed
  <1>2. Guards[k] /\ Held(slots, Path, Guards, Len(calls))
    BY <1>1, GuardedCalls DEF ActivationIsServed
  <1> QED BY <1>2 DEF Held

(* The task of a node about to be entered finds its parent's output.       *)
LEMMA TaskFindsItsInput ==
  ASSUME ReadInv, Running("enter")
  PROVE  PrevIsReadable(I)
  <1>1. /\ pc = "dfs" /\ result # "exception" /\ calls # <<>> /\ calls[top].phase = "enter"
    BY DEF Running
  <1>2. /\ plan \in Plans /\ CallInv
        /\ CallsAreServed /\ InPreorder
        /\ Len(calls) \in Nat
        /\ IsWalk(Path, Ordinals, Len(calls))
        /\ \A k \in 1 .. Len(calls) :
             /\ Path[k] = calls[k].node
             /\ k < Len(calls) => calls[k].phase = "children"
    BY <1>1, ServedCalls
  <1>3. Len(calls) # 0 /\ top = Len(calls) /\ Path[Len(calls)] = I
    BY <1>1, <1>2, CallsAreAWalk
  <1>4. ASSUME NEW k \in 1 .. Len(calls) - 1
        PROVE  /\ PayloadNode(plan, Path[k]) => slots[plan.slot[Path[k]]].obj = Path[k]
               /\ plan.staging[Path[k]] => stage[Path[k]]
    <2>1. k \in 1 .. Len(calls) /\ calls[k].phase = "children"
      BY <1>2
    <2>2. ActivationIsServed(k)
      BY <1>2, <2>1 DEF CallsAreServed
    <2> QED BY <1>1, <1>2, <2>1, <2>2, ServedCallsHoldPayloads DEF ActivationIsServed
  <1>5. (\A j \in Ran : j < Path[Len(calls)]) /\ ConsumedBy(slots, Ran)
    BY <1>1, <1>2, <1>3 DEF InPreorder
  <1>6. PrevIsReadable(Path[Len(calls)])
    BY <1>2, <1>3, <1>4, <1>5, OutputIsReadable
  <1> QED BY <1>3, <1>6

(* A payload about to be staged has not been consumed: no child ran yet.   *)
LEMMA StagingFindsItsSource ==
  ASSUME ReadInv, Running("prepare")
  PROVE  StagingSourceIsReadable(I)
  <1>1. /\ pc = "dfs" /\ result # "exception" /\ calls # <<>> /\ returned = "none"
        /\ calls[top].phase = "prepare"
    BY DEF Running
  <1>2. /\ plan \in Plans /\ CallInv /\ InPreorder
        /\ Len(calls) \in Nat
        /\ IsWalk(Path, Ordinals, Len(calls))
        /\ \A k \in 1 .. Len(calls) :
             /\ Path[k] = calls[k].node
             /\ Ordinals[k] = calls[k].ord /\ Ordinals[k] \in Nat
             /\ k < Len(calls) => calls[k].phase = "children"
    BY <1>1, ServedCalls
  <1>3. /\ Len(calls) # 0 /\ top = Len(calls) /\ Path[Len(calls)] = I
        /\ Len(calls) \in 1 .. Len(calls)
    BY <1>1, <1>2, CallsAreAWalk
  <1>4. \A k \in 1 .. Len(calls) :
          PayloadNode(plan, Path[k]) => slots[plan.slot[Path[k]]].obj = Path[k]
    <2>1. \A k \in 1 .. Len(calls) : calls[k].phase # "enter"
      BY <1>1, <1>2, <1>3
    <2> QED BY <1>1, <2>1, ServedCallsHoldPayloads
  <1>5. Following[Len(calls)] = 0
    <2>1. Ordinals[Len(calls)] = 0
      BY <1>1, <1>2, <1>3 DEF CallInv, CallsAreAPath
    <2> QED BY <1>1, <1>3, <2>1 DEF Following
  <1>6. Ahead(Ran, Path, Following, Len(calls)) /\ ConsumedBy(slots, Ran)
    BY <1>2 DEF InPreorder
  <1>7. \A o \in Nat : o < plan.child_counts[Path[Len(calls)]] =>
          \A j \in Ran : j < ChildAt(plan, Path[Len(calls)], o)
    BY <1>3, <1>5, <1>6 DEF Ahead
  <1>8. StagingSourceIsReadable(Path[Len(calls)])
    BY <1>2, <1>3, <1>4, <1>6, <1>7, StagedPayloadIsReadable
  <1> QED BY <1>3, <1>8

(* A step that keeps the plan translates a fact about the next state.      *)
LEMMA InPreorderNext ==
  ASSUME plan' = plan, ConsumedBy(slots, Ran)',
         Ahead(Ran', Path', Following', Len(calls')),
         Len(calls') # 0 /\ calls'[Len(calls')].phase = "enter" =>
           \A j \in Ran' : j < Path'[Len(calls')]
  PROVE  InPreorder'
  BY DEF InPreorder, Ahead

(* A task that ran leaves everything that was ahead still ahead, whatever  *)
(* it reports.                                                             *)
LEMMA RunningATaskKeepsReads ==
  ASSUME ReadInv, Running("enter"), NEW status \in Statuses, EnterNode(I, status), plan' = plan
  PROVE  /\ ConsumedBy(slots, Ran)'
         /\ Ahead(Ran', Path, Following, Len(calls))
  <1>1. pc = "dfs" /\ result # "exception" /\ calls # <<>>
    BY DEF Running
  <1>2. /\ plan \in Plans /\ CallInv /\ InPreorder
        /\ Len(calls) \in Nat
        /\ IsWalk(Path, Ordinals, Len(calls))
        /\ \A k \in 1 .. Len(calls) : Following[k] \in Nat
        /\ \A k \in 1 .. Len(calls) - 1 : Following[k] = Ordinals[k] + 1
        /\ slots \in Cells
        /\ outcome \in [nodes -> Statuses \cup {"none", "threw"}]
    BY <1>1, ServedCalls
  <1>3. Len(calls) # 0 /\ Path[Len(calls)] = I /\ I \in nodes
    BY <1>1, <1>2, CallsAreAWalk
  <1>4. ConsumedBy(slots, Ran) /\ Ahead(Ran, Path, Following, Len(calls))
    BY <1>2 DEF InPreorder
  <1>5. PrevIsReadable(I)
    BY TaskFindsItsInput
  <1>6. Ran' = Ran \cup {I} /\ ConsumedBy(slots, Ran)'
    BY <1>2, <1>3, <1>4, <1>5, EnteringKeepsConsumedBy
  <1>7. Ahead(Ran \cup {Path[Len(calls)]}, Path, Following, Len(calls))
    BY <1>2, <1>3, <1>4, EnteringKeepsAhead
  <1> QED BY <1>3, <1>6, <1>7

(* A node that succeeded is served by the guard it goes on with.           *)
LEMMA SucceedingKeepsReads ==
  ASSUME ReadInv, RunNodeSucceeds
  PROVE  CallsAreServed' /\ InPreorder'
  <1>1. CallInv /\ pc = "dfs" /\ result # "exception" /\ Running("enter")
    BY DEF ReadInv, StorageInv, TypeInv, RunNodeSucceeds, Running
  <1>2. /\ calls # <<>> /\ I \in nodes /\ top = Len(calls) /\ top \in 1 .. Len(calls)
        /\ returned = "none" /\ returned' = "none" /\ plan' = plan
        /\ EnterNode(I, "success")
    BY <1>1, Succeeding
  <1>3. PICK live \in BOOLEAN :
          /\ live = PayloadLive(I, "success")
          /\ TopMoves("prepare", calls[top].ord, live, calls[top].fanout_guard)
    BY <1>1, Succeeding
  <1>4. CallsAreServed /\ Len(calls) \in Nat
    BY <1>1, ServedCalls
  <1>5. /\ Len(calls') = Len(calls)
        /\ \A k \in 1 .. Len(calls) - 1 : calls'[k] = calls[k]
        /\ calls'[Len(calls)].node = I /\ calls'[Len(calls)].slot_guard = live
        /\ calls'[Len(calls)].ord = calls[Len(calls)].ord
        /\ calls'[Len(calls)].phase = "prepare"
    BY <1>2, <1>3 DEF TopMoves
  <1>6. stage' = stage
    BY <1>2 DEF EnterNode
  <1>7. CallsAreServed'
    <2>1. SUFFICES ASSUME NEW k \in 1 .. Len(calls) PROVE ActivationIsServed(k)'
      BY <1>5 DEF CallsAreServed
    <2>2. CASE k = Len(calls)
      <3>1. PayloadNode(plan, I) => live
        BY <1>3 DEF PayloadLive
      <3> QED BY <1>2, <1>5, <2>2, <3>1 DEF ActivationIsServed
    <2>3. CASE k # Len(calls)
      <3>1. calls'[k] = calls[k] /\ ActivationIsServed(k)
        BY <1>4, <1>5, <2>3 DEF CallsAreServed
      <3> QED BY <1>2, <1>6, <3>1 DEF ActivationIsServed
    <2> QED BY <2>2, <2>3
  <1>8. Path' = Path /\ Following' = Following
    <2>1. \A k \in 1 .. Len(calls) :
            calls'[k].node = calls[k].node /\ calls'[k].ord = calls[k].ord
      BY <1>2, <1>4, <1>5 DEF I
    <2>2. Path' = Path /\ Ordinals' = Ordinals
      BY <1>5, <2>1 DEF Path, Ordinals
    <2> QED BY <1>2, <1>5, <2>2 DEF Following
  <1>9. "success" \in Statuses
    BY DEF Statuses
  <1>10. ConsumedBy(slots, Ran)' /\ Ahead(Ran', Path, Following, Len(calls))
    BY <1>1, <1>2, <1>9, RunningATaskKeepsReads
  <1> QED BY <1>2, <1>5, <1>7, <1>8, <1>10, InPreorderNext

(* Leaving an activation: its caller's next child was already counted.     *)
LEMMA PoppingKeepsReads ==
  ASSUME ReadInv, pc = "dfs", result # "exception", calls # <<>>, TopLeaves, plan' = plan,
         \A i \in nodes : i # I => stage'[i] = stage[i],
         ConsumedBy(slots, Ran)', Ahead(Ran', Path, Following, Len(calls)),
         returned' # "none"
  PROVE  CallsAreServed' /\ InPreorder'
  <1>1. /\ plan \in Plans /\ CallInv /\ CallsAreServed
        /\ Len(calls) \in Nat
        /\ IsWalk(Path, Ordinals, Len(calls))
        /\ \A k \in 1 .. Len(calls) :
             /\ Path[k] = calls[k].node /\ Path[k] \in nodes
             /\ Ordinals[k] = calls[k].ord
             /\ k < Len(calls) => calls[k].phase = "children"
        /\ \A k \in 1 .. Len(calls) - 1 : Following[k] = Ordinals[k] + 1
    BY ServedCalls
  <1>2. Len(calls) # 0 /\ Len(calls) \in 1 .. Len(calls) /\ Path[Len(calls)] = I /\ I \in nodes
    BY <1>1, CallsAreAWalk
  <1>3. /\ Len(calls') = Len(calls) - 1
        /\ \A k \in 1 .. Len(calls) - 1 : calls'[k] = calls[k]
    BY DEF TopLeaves
  <1>4. \A k \in 1 .. Len(calls) - 1 : Path[k] # I /\ stage'[Path[k]] = stage[Path[k]]
    <2>1. \A k \in 1 .. Len(calls) - 1 : Path[k] < Path[Len(calls)]
      BY <1>1, <1>2, WalkRises
    <2>2. \A k \in 1 .. Len(calls) - 1 : Path[k] \in nodes /\ Path[k] \in Nat /\ Path[k] # I
      BY <1>1, <1>2, <2>1, RootIsANode
    <2> QED BY <2>2
  <1>5. CallsAreServed'
    <2>1. SUFFICES ASSUME NEW k \in 1 .. Len(calls) - 1 PROVE ActivationIsServed(k)'
      BY <1>3 DEF CallsAreServed
    <2>2. k \in 1 .. Len(calls) /\ ActivationIsServed(k) /\ Path[k] = calls[k].node
      BY <1>1 DEF CallsAreServed
    <2> QED BY <1>3, <1>4, <2>2 DEF ActivationIsServed
  <1>6. \A k \in 1 .. Len(calls) - 1 :
          Path'[k] = Path[k] /\ Following'[k] = Following[k] /\ k \in 1 .. Len(calls)
    <2>1. \A k \in 1 .. Len(calls) - 1 :
            Path'[k] = Path[k] /\ Ordinals'[k] = Ordinals[k] /\ k \in 1 .. Len(calls)
      BY <1>1, <1>3 DEF Path, Ordinals
    <2>2. \A k \in 1 .. Len(calls) - 1 : Following'[k] = Ordinals'[k] + 1
      BY <1>3 DEF Following
    <2> QED BY <1>1, <2>1, <2>2
  <1>7. Ahead(Ran', Path', Following', Len(calls'))
    BY <1>3, <1>6 DEF Ahead
  <1>8. Len(calls') # 0 => calls'[Len(calls')].phase # "enter"
    BY <1>1, <1>3
  <1> QED BY <1>5, <1>7, <1>8, InPreorderNext

(* Preparing a fan-out sets the stage its children read.                   *)
LEMMA PreparingKeepsReads ==
  ASSUME ReadInv, Prepare
  PROVE  CallsAreServed' /\ InPreorder'
  <1>1. CallInv /\ pc = "dfs" /\ result # "exception"
    BY DEF ReadInv, StorageInv, TypeInv, Prepare, Running
  <1>2. /\ calls # <<>> /\ I \in nodes /\ top = Len(calls) /\ top \in 1 .. Len(calls)
        /\ returned = "none" /\ returned' = "none" /\ calls[top].phase = "prepare"
        /\ UNCHANGED <<plan, slots, outcome>>
        /\ PrepareFanoutStaging(I)
        /\ TopMoves("children", calls[top].ord, calls[top].slot_guard, TRUE)
    BY <1>1, Preparing
  <1>3. CallsAreServed /\ InPreorder /\ Len(calls) \in Nat /\ stage \in [nodes -> BOOLEAN]
        /\ \A k \in 1 .. Len(calls) : calls[k].node \in nodes
    BY <1>1, ServedCalls
  <1>4. /\ Len(calls') = Len(calls)
        /\ \A k \in 1 .. Len(calls) - 1 : calls'[k] = calls[k]
        /\ calls'[Len(calls)].node = I
        /\ calls'[Len(calls)].slot_guard = calls[Len(calls)].slot_guard
        /\ calls'[Len(calls)].ord = calls[Len(calls)].ord
        /\ calls'[Len(calls)].phase = "children"
    BY <1>2 DEF TopMoves
  <1>5. /\ \A i \in nodes : stage[i] => stage'[i]
        /\ plan.staging[I] => stage'[I]
    BY <1>2, <1>3 DEF PrepareFanoutStaging
  <1>6. CallsAreServed'
    <2>1. SUFFICES ASSUME NEW k \in 1 .. Len(calls) PROVE ActivationIsServed(k)'
      BY <1>4 DEF CallsAreServed
    <2>2. ActivationIsServed(k) /\ calls[k].node \in nodes
      BY <1>3 DEF CallsAreServed
    <2>3. CASE k = Len(calls)
      <3>1. calls[k].node = I /\ calls[k].phase = "prepare"
        BY <1>2, <2>3 DEF I
      <3> QED BY <1>2, <1>4, <1>5, <2>2, <2>3, <3>1 DEF ActivationIsServed
    <2>4. CASE k # Len(calls)
      <3>1. calls'[k] = calls[k]
        BY <1>3, <1>4, <2>4
      <3> QED BY <1>2, <1>5, <2>2, <3>1 DEF ActivationIsServed
    <2> QED BY <2>3, <2>4
  <1>7. Path' = Path /\ Following' = Following
    <2>1. \A k \in 1 .. Len(calls) :
            calls'[k].node = calls[k].node /\ calls'[k].ord = calls[k].ord
      BY <1>2, <1>3, <1>4 DEF I
    <2>2. Path' = Path /\ Ordinals' = Ordinals
      BY <1>4, <2>1 DEF Path, Ordinals
    <2> QED BY <1>2, <1>4, <2>2 DEF Following
  <1>8. Ran' = Ran /\ ConsumedBy(slots, Ran)'
    BY <1>2, <1>3 DEF Ran, nodes, InPreorder, ConsumedBy
  <1>9. Ahead(Ran', Path', Following', Len(calls'))
    BY <1>3, <1>4, <1>7, <1>8 DEF InPreorder
  <1> QED BY <1>2, <1>4, <1>6, <1>8, <1>9, InPreorderNext

(* A child that returned was already counted as called.                    *)
LEMMA AdvancingKeepsReads ==
  ASSUME ReadInv, NextChild
  PROVE  CallsAreServed' /\ InPreorder'
  <1>1. CallInv
    BY DEF ReadInv, StorageInv, TypeInv
  <1>2. /\ calls # <<>> /\ I \in nodes /\ top = Len(calls) /\ top \in 1 .. Len(calls)
        /\ pc = "dfs" /\ result # "exception"
        /\ returned # "none" /\ returned' = "none" /\ calls[top].phase = "children"
        /\ UNCHANGED <<plan, slots, stage, outcome>>
        /\ TopMoves("children", calls[top].ord + 1, calls[top].slot_guard,
                    calls[top].fanout_guard)
    BY <1>1, Advancing
  <1>3. CallsAreServed /\ InPreorder /\ Len(calls) \in Nat
        /\ \A k \in 1 .. Len(calls) : Path[k] = calls[k].node /\ Ordinals[k] = calls[k].ord
    BY <1>2, ServedCalls
  <1>4. /\ Len(calls') = Len(calls)
        /\ \A k \in 1 .. Len(calls) - 1 : calls'[k] = calls[k]
        /\ calls'[Len(calls)].node = I
        /\ calls'[Len(calls)].slot_guard = calls[Len(calls)].slot_guard
        /\ calls'[Len(calls)].ord = calls[Len(calls)].ord + 1
        /\ calls'[Len(calls)].phase = "children"
    BY <1>2 DEF TopMoves
  <1>5. CallsAreServed'
    <2>1. SUFFICES ASSUME NEW k \in 1 .. Len(calls) PROVE ActivationIsServed(k)'
      BY <1>4 DEF CallsAreServed
    <2>2. ActivationIsServed(k)
      BY <1>3 DEF CallsAreServed
    <2>3. /\ calls'[k].node = calls[k].node /\ calls'[k].phase = calls[k].phase
          /\ calls'[k].slot_guard = calls[k].slot_guard
      BY <1>2, <1>3, <1>4 DEF I
    <2> QED BY <1>2, <2>2, <2>3 DEF ActivationIsServed
  <1>6. Path' = Path
    <2>1. \A k \in 1 .. Len(calls) : calls'[k].node = calls[k].node
      BY <1>2, <1>3, <1>4 DEF I
    <2> QED BY <1>4, <2>1 DEF Path
  <1>7. \A k \in 1 .. Len(calls) : Following'[k] = Following[k]
    <2>1. SUFFICES ASSUME NEW k \in 1 .. Len(calls) PROVE Following'[k] = Following[k]
      OBVIOUS
    <2>2. Following[k] = Ordinals[k] + 1
      BY <1>2 DEF Following
    <2>3. CASE k = Len(calls)
      <3>1. Ordinals'[k] = Ordinals[k] + 1
        BY <1>3, <1>4, <2>3 DEF Ordinals
      <3>2. Following'[k] = Ordinals'[k]
        BY <1>2, <1>3, <1>4, <2>3 DEF Following
      <3> QED BY <2>2, <3>1, <3>2
    <2>4. CASE k # Len(calls)
      <3>1. Ordinals'[k] = Ordinals[k] /\ k < Len(calls)
        BY <1>3, <1>4, <2>4 DEF Ordinals
      <3>2. Following'[k] = Ordinals'[k] + 1
        BY <1>4, <3>1 DEF Following
      <3> QED BY <2>2, <3>1, <3>2
    <2> QED BY <2>3, <2>4
  <1>8. Ran' = Ran /\ ConsumedBy(slots, Ran)'
    BY <1>2, <1>3 DEF Ran, nodes, InPreorder, ConsumedBy
  <1>9. Ahead(Ran', Path', Following', Len(calls'))
    BY <1>3, <1>4, <1>6, <1>7, <1>8 DEF InPreorder, Ahead
  <1> QED BY <1>2, <1>4, <1>5, <1>8, <1>9, InPreorderNext

(* Going down: the child is behind everything that ran.                    *)
LEMMA CallingKeepsReads ==
  ASSUME ReadInv, CallChild
  PROVE  CallsAreServed' /\ InPreorder'
  <1>1. /\ CallInv /\ pc = "dfs" /\ result # "exception" /\ calls # <<>>
        /\ returned = "none" /\ returned' = "none" /\ calls[top].phase = "children"
        /\ UNCHANGED <<plan, slots, stage, outcome>>
    BY DEF CallChild, Running, run_vars, ReadInv, StorageInv, TypeInv
  <1>2. /\ plan \in Plans /\ CallsAreServed /\ InPreorder
        /\ Len(calls) \in Nat
        /\ IsWalk(Path, Ordinals, Len(calls))
        /\ \A k \in 1 .. Len(calls) :
             /\ Path[k] = calls[k].node
             /\ Ordinals[k] = calls[k].ord /\ Ordinals[k] \in Nat
        /\ \A k \in 1 .. Len(calls) - 1 : Following[k] = Ordinals[k] + 1
        /\ Ran \in SUBSET nodes
    BY <1>1, ServedCalls
  <1>3. /\ Len(calls) # 0 /\ top = Len(calls) /\ Path[Len(calls)] = I
        /\ Len(calls) \in 1 .. Len(calls)
        /\ calls[top].ord = Ordinals[Len(calls)]
    BY <1>1, <1>2, CallsAreAWalk
  <1>4. PICK c \in nodes :
          /\ c = ChildAt(plan, I, calls[top].ord)
          /\ Len(calls') = Len(calls) + 1
          /\ \A k \in 1 .. Len(calls) : calls'[k] = calls[k]
          /\ calls'[Len(calls) + 1] = Activation(c)
    BY <1>1, CallingKeepsThePath
  <1>5. Ordinals[Len(calls)] < plan.child_counts[Path[Len(calls)]]
    BY <1>1, <1>3, CallingKeepsThePath
  <1>6. /\ Activation(c).node = c /\ Activation(c).ord = 0 /\ Activation(c).phase = "enter"
    BY DEF Activation
  <1>7. PICK more \in Nat : more = Len(calls) + 1
    BY <1>2
  <1>8. CallsAreServed'
    <2>1. ASSUME NEW k \in 1 .. Len(calls) PROVE ActivationIsServed(k)'
      <3>1. ActivationIsServed(k) /\ calls'[k] = calls[k]
        BY <1>2, <1>4 DEF CallsAreServed
      <3> QED BY <1>1, <3>1 DEF ActivationIsServed
    <2>2. ActivationIsServed(more)'
      <3>1. calls'[more] = Activation(c)
        BY <1>4, <1>7
      <3> QED BY <1>6, <3>1 DEF ActivationIsServed
    <2>3. \A k \in 1 .. Len(calls') : k \in 1 .. Len(calls) \/ k = more
      BY <1>2, <1>4, <1>7
    <2> QED BY <2>1, <2>2, <2>3 DEF CallsAreServed
  <1>9. /\ \A k \in 1 .. Len(calls) : Path'[k] = Path[k] /\ Ordinals'[k] = Ordinals[k]
        /\ Path'[more] = ChildAt(plan, Path[Len(calls)], Ordinals[Len(calls)])
    BY <1>2, <1>3, <1>4, <1>6, <1>7 DEF Path, Ordinals
  <1>10. \A k \in 1 .. Len(calls) : Following'[k] = Ordinals[k] + 1
    BY <1>2, <1>4, <1>9 DEF Following
  <1>11. /\ Following[Len(calls)] = Ordinals[Len(calls)]
         /\ Ahead(Ran, Path, Following, Len(calls))
    BY <1>1, <1>2, <1>3 DEF Following, InPreorder
  <1>12. GoesDown(Path, Ordinals, Following, Len(calls), Path', Following', more)
    <2>1. \A k \in 1 .. Len(calls) - 1 : Following'[k] = Following[k]
      BY <1>2, <1>10
    <2>2. Following'[Len(calls)] = Ordinals[Len(calls)] + 1
      BY <1>3, <1>10
    <2> QED BY <1>7, <1>9, <2>1, <2>2 DEF GoesDown
  <1>13. /\ Ahead(Ran, Path', Following', more)
         /\ \A j \in Ran : j < Path'[more]
    <2>1. /\ plan \in Plans /\ Ran \in SUBSET nodes
          /\ IsWalk(Path, Ordinals, Len(calls)) /\ Len(calls) # 0
          /\ Ahead(Ran, Path, Following, Len(calls))
          /\ Following[Len(calls)] = Ordinals[Len(calls)]
          /\ Ordinals[Len(calls)] < plan.child_counts[Path[Len(calls)]]
      BY <1>2, <1>3, <1>5, <1>11
    <2>2. Ahead(Ran, Path', Following', more)
      BY <1>12, <2>1, DescendingKeepsAhead
    <2>3. \A j \in Ran : j < Path'[more]
      BY <1>9, <2>1, NextChildIsAhead
    <2> QED BY <2>2, <2>3
  <1>14. Ran' = Ran /\ ConsumedBy(slots, Ran)'
    BY <1>1, <1>2 DEF Ran, nodes, InPreorder, ConsumedBy
  <1>15. Len(calls') = more
    BY <1>4, <1>7
  <1> QED BY <1>1, <1>8, <1>13, <1>14, <1>15, InPreorderNext

(* ReadInv holds at the start: nothing has run.                            *)
LEMMA ReadInvInit == Init => ReadInv
  <1> SUFFICES ASSUME Init PROVE ReadInv
    OBVIOUS
  <1>1. StorageInv
    BY StorageInvInit
  <1>2. Len(calls) = 1 /\ calls[1] = Activation(0) /\ plan \in Plans
    BY DEF Init, RunInit
  <1>3. Ran = {}
    BY DEF Ran, Init, RunInit
  <1>4. CallsAreServed
    BY <1>2 DEF CallsAreServed, ActivationIsServed, Activation
  <1>5. \A s \in 0 .. plan.n_slots - 1 : slots[s].obj \notin nodes
    BY <1>2, RunInitIsSound, RootIsANode DEF Init, NoObject
  <1>6. InPreorder
    BY <1>3, <1>5 DEF InPreorder, ConsumedBy, Ahead
  <1> QED BY <1>1, <1>4, <1>6 DEF ReadInv

(* Every step keeps what tasks read in place.                              *)
LEMMA ReadInvStep ==
  ASSUME ReadInv, [Next]_vars
  PROVE  ReadInv'
  <1>1. StorageInv' /\ CallInv
    BY StorageInvStep DEF ReadInv, StorageInv, TypeInv
  <1>2. CASE RunNodeSucceeds
    BY <1>1, <1>2, SucceedingKeepsReads DEF ReadInv
  <1>3. CASE Prepare
    BY <1>1, <1>3, PreparingKeepsReads DEF ReadInv
  <1>4. CASE NextChild
    BY <1>1, <1>4, AdvancingKeepsReads DEF ReadInv
  <1>5. CASE CallChild
    BY <1>1, <1>5, CallingKeepsReads DEF ReadInv
  <1>6. CASE Failing
    <2>1. /\ pc = "dfs" /\ result # "exception" /\ calls # <<>> /\ returned = "none"
          /\ calls[top].phase = "enter" /\ plan' = plan /\ TopLeaves
      BY <1>1, <1>6, FailingPops
    <2>2. CASE result' = "exception"
      BY <1>1, <2>2 DEF ReadInv
    <2>3. CASE result' # "exception"
      <3>1. PICK status \in Statuses \ {"success"} : EnterNode(I, status) /\ returned' = status
        BY <1>1, <1>6, <2>3, FailingPops
      <3>2. stage' = stage /\ returned' # "none"
        BY <3>1 DEF EnterNode, Statuses
      <3>3. Running("enter")
        BY <2>1 DEF Running
      <3>4. ConsumedBy(slots, Ran)' /\ Ahead(Ran', Path, Following, Len(calls))
        BY <2>1, <3>1, <3>3, RunningATaskKeepsReads
      <3>5. CallsAreServed' /\ InPreorder'
        BY <2>1, <3>2, <3>4, PoppingKeepsReads
      <3> QED BY <1>1, <3>5 DEF ReadInv
    <2> QED BY <2>2, <2>3
  <1>7. CASE Leaving
    <2>1. /\ pc = "dfs" /\ calls # <<>> /\ I \in nodes
          /\ UNCHANGED <<plan, result, outcome>> /\ TopLeaves /\ DestroyGuards
          /\ result # "exception" => returned' # "none"
      BY <1>1, <1>7, LeavingPops
    <2>2. CASE result = "exception"
      BY <1>1, <2>1, <2>2 DEF ReadInv
    <2>3. CASE result # "exception"
      <3>1. slots \in Cells /\ InPreorder /\ stage \in [nodes -> BOOLEAN]
        BY <2>1, <2>3, ServedCalls
      <3>2. slots' \in {slots, Destroy(slots, live_slots, I)}
        BY <2>1 DEF DestroyGuards
      <3>3. ConsumedBy(slots, Ran)' /\ Ran' = Ran
        BY <2>1, <3>1, <3>2, LeavingKeepsConsumedBy DEF InPreorder, Ran, nodes
      <3>4. \A i \in nodes : i # I => stage'[i] = stage[i]
        BY <2>1, <3>1 DEF DestroyGuards, DestroyFanoutStaging
      <3>5. Ahead(Ran', Path, Following, Len(calls))
        BY <3>1, <3>3 DEF InPreorder
      <3>6. CallsAreServed' /\ InPreorder'
        BY <2>1, <2>3, <3>3, <3>4, <3>5, PoppingKeepsReads
      <3> QED BY <1>1, <3>6 DEF ReadInv
    <2> QED BY <2>2, <2>3
  <1>8. CASE Leave
    <2>1. pc' # "dfs"
      BY <1>1, <1>8, LeaveRunPlanIsTyped DEF Leave, ReadInv, StorageInv, TypeInv, CallInv
    <2> QED BY <1>1, <2>1 DEF ReadInv
  <1>9. CASE Standing \/ UNCHANGED vars
    <2>1. /\ UNCHANGED <<plan, slots, stage, outcome, calls, returned>>
          /\ \/ UNCHANGED <<pc, result>>
             \/ pc' = "fanout_dtor"
             \/ result' = "exception"
      BY <1>1, <1>9, StandingStill
    <2>2. CASE UNCHANGED <<pc, result>>
      BY <1>1, <2>1, <2>2 DEF ReadInv, CallsAreServed, ActivationIsServed, InPreorder, ConsumedBy,
                              Ahead, Ran, nodes, Path, Ordinals, Following
    <2> QED BY <1>1, <2>1, <2>2 DEF ReadInv
  <1> QED BY <1>2, <1>3, <1>4, <1>5, <1>6, <1>7, <1>8, <1>9, StepsOfTheRun

(* A task about to run finds its parent's output alive and not moved from  *)
(* by an earlier reader, and a payload about to be staged is still intact: *)
(* for plans of any size and shape, whatever tasks report or throw.        *)
THEOREM CallsFindTheirInputs == Spec => []PrevReadable
  <1>1. ReadInv /\ [Next]_vars => ReadInv'
    BY ReadInvStep
  <1>2. ReadInv => PrevReadable
    BY TaskFindsItsInput, StagingFindsItsSource DEF PrevReadable
  <1> QED BY <1>1, <1>2, ReadInvInit, PTL DEF Spec

-------------------------------------------------------------------------------
(* What a run promises.                                                    *)

(* The top activation is about to run its node's task.                     *)
Entering == Len(calls) # 0 /\ calls[Len(calls)].phase = "enter"

(* No task has ended the run: those above the activations succeeded, and   *)
(* what is due is what the activations go on to.                           *)
Proceeding ==
  /\ \A i \in nodes : outcome[i] \notin Ending
  /\ \A k \in 1 .. Len(calls) : calls[k].phase # "enter" => outcome[Path[k]] = "success"
  /\ Frontier(outcome, Path, Following, Len(calls), Entering)
  /\ calls = <<>> => (outcome[0] = "abort_branch" <=> returned = "abort_branch")

PromiseInv ==
  /\ ReadInv
  /\ OnlyPayloads
  /\ result # "exception" =>
       /\ result = IF pc = "dfs" THEN "none" ELSE returned
       /\ calls = <<>> => returned # "none"
       /\ IF returned \in Ending THEN EndReported(returned) ELSE Proceeding

(* What the invariants give until something throws.                        *)
LEMMA PromisedCalls ==
  ASSUME PromiseInv, result # "exception"
  PROVE  /\ plan \in Plans /\ CallInv /\ StorageInv /\ ReadInv
         /\ Len(calls) \in Nat /\ (calls = <<>> <=> Len(calls) = 0)
         /\ IsWalk(Path, Ordinals, Len(calls))
         /\ \A k \in 1 .. Len(calls) :
              /\ Path[k] = calls[k].node /\ Path[k] \in nodes
              /\ Ordinals[k] = calls[k].ord /\ Ordinals[k] \in Nat
              /\ Following[k] \in Nat
              /\ Following[k] = IF k < Len(calls) \/ returned # "none"
                                  THEN Ordinals[k] + 1 ELSE Ordinals[k]
         /\ \A k \in 1 .. Len(calls) - 1 : Following[k] = Ordinals[k] + 1
         /\ outcome \in [nodes -> Statuses \cup {"none", "threw"}]
  <1>1. /\ plan \in Plans /\ CallInv /\ StorageInv /\ ReadInv
        /\ outcome \in [nodes -> Statuses \cup {"none", "threw"}]
    BY DEF PromiseInv, ReadInv, StorageInv, TypeInv, CallInv, RunTypeOK
  <1>2. /\ IsWalk(Path, Ordinals, Len(calls))
        /\ Len(calls) \in Nat /\ (calls = <<>> <=> Len(calls) = 0)
        /\ \A k \in 1 .. Len(calls) :
             /\ Path[k] = calls[k].node /\ Path[k] \in nodes
             /\ Ordinals[k] = calls[k].ord /\ Ordinals[k] \in Nat
    BY <1>1, CallsAreAWalk
  <1>3. /\ \A k \in 1 .. Len(calls) :
             /\ Following[k] \in Nat
             /\ Following[k] = IF k < Len(calls) \/ returned # "none"
                                 THEN Ordinals[k] + 1 ELSE Ordinals[k]
        /\ \A k \in 1 .. Len(calls) - 1 : Following[k] = Ordinals[k] + 1
    BY <1>2 DEF Following
  <1> QED BY <1>1, <1>2, <1>3

(* The payloads in the slots are those whose guards are armed.             *)
LEMMA StoredAreGuarded ==
  ASSUME StorageInv, OnlyPayloads, pc = "dfs"
  PROVE  Stored = {Path[k] : k \in {m \in 1 .. Len(calls) : Guards[m]}}
  <1>1. /\ Held(slots, Path, Guards, Len(calls)) /\ slots \in Cells /\ plan \in Plans
        /\ \A k \in 1 .. Len(calls) : Path[k] \in nodes
    BY GuardedCalls DEF Sound
  <1> QED BY <1>1, StoredAreHeld DEF OnlyPayloads

-------------------------------------------------------------------------------
(* What each step does to what is stored.                                  *)

(* A task that leaves a payload adds it to what is stored.                 *)
LEMMA StoredAfterEntering ==
  ASSUME StorageInv, Running("enter"), NEW status \in Statuses, EnterNode(I, status)
  PROVE  Stored' = IF PayloadLive(I, status) THEN Stored \cup {I} ELSE Stored
  <1>1. I \in nodes /\ plan \in Plans
    BY CallsAreAWalk DEF StorageInv, TypeInv, Running
  <1>2. PICK live \in BOOLEAN : live = PayloadLive(I, status)
    BY DEF PayloadLive
  <1>3. /\ slots \in Cells /\ slots' \in Cells
        /\ live => PayloadNode(plan, I) /\ slots[plan.slot[I]].obj = NoObject
        /\ \A s \in 0 .. plan.n_slots - 1 :
             slots'[s].obj = IF live /\ s = plan.slot[I] THEN I ELSE slots[s].obj
    BY <1>2, EnteringFillsTheSlot DEF StorageInv, Sound, PayloadLive
  <1>4. Stored' = IF live THEN Stored \cup {I} ELSE Stored
    BY <1>1, <1>3, FillingStores
  <1> QED BY <1>2, <1>4

(* One that throws stores nothing.                                         *)
LEMMA StoredAfterThrowing ==
  ASSUME StorageInv, Running("enter"), EnterNodeThrows(I)
  PROVE  Stored' = Stored
  <1>1. /\ slots \in Cells /\ slots' \in Cells
        /\ \A s \in 0 .. plan.n_slots - 1 : slots'[s].obj = slots[s].obj
    BY ThrowingFillsNoSlot DEF StorageInv, Sound
  <1>2. /\ Stored = {slots[s].obj : s \in 0 .. plan.n_slots - 1} \ {NoObject}
        /\ Stored' = {slots'[s].obj : s \in 0 .. plan.n_slots - 1} \ {NoObject}
    BY <1>1, StoredInSlots DEF Stored
  <1> QED BY <1>1, <1>2

(* An activation that is left takes its payload with it.                   *)
LEMMA StoredAfterLeaving ==
  ASSUME StorageInv, Leaving
  PROVE  /\ Stored' = IF calls[top].slot_guard THEN Stored \ {I} ELSE Stored
         /\ calls[top].slot_guard => I \in Stored
  <1>1. /\ slots \in Cells /\ AtHome(slots) /\ plan \in Plans /\ I \in nodes
        /\ calls[top].slot_guard \in BOOLEAN
    <2>1. pc = "dfs" /\ I \in nodes /\ top \in 1 .. Len(calls)
      BY LeavingPops DEF StorageInv, TypeInv
    <2> QED BY <2>1, GuardedCalls DEF Sound
  <1>2. PICK live \in BOOLEAN : live = calls[top].slot_guard
    BY <1>1
  <1>3. /\ slots' \in Cells
        /\ live => PayloadNode(plan, I) /\ slots[plan.slot[I]].obj = I
        /\ \A s \in 0 .. plan.n_slots - 1 :
             slots'[s].obj = IF live /\ s = plan.slot[I] THEN NoObject ELSE slots[s].obj
    BY <1>2, GuardEmptiesTheSlot DEF StorageInv, Sound
  <1>4. Stored' = (IF live THEN Stored \ {I} ELSE Stored) /\ (live => I \in Stored)
    BY <1>1, <1>3, EmptyingUnstores
  <1> QED BY <1>2, <1>4

(* A traversal that has left its last activation leaves nothing stored.    *)
LEMMA NothingIsLeftBehind ==
  ASSUME StorageInv, OnlyPayloads, calls = <<>>
  PROVE  \A s \in 0 .. plan.n_slots - 1 : slots[s].obj = NoObject
  <1>1. SUFFICES ASSUME pc = "dfs", NEW s \in 0 .. plan.n_slots - 1
                 PROVE  slots[s].obj = NoObject
    BY DEF OnlyPayloads, StorageInv, TypeInv, RunTypeOK
  <1>2. Held(slots, Path, Guards, 0) /\ slots \in Cells
    <2>1. Held(slots, Path, Guards, Len(calls)) /\ slots \in Cells /\ Len(calls) = 0
      BY <1>1, GuardedCalls, CallsAreAWalk DEF Sound
    <2> QED BY <2>1
  <1> QED BY <1>2, NothingIsHeld DEF OnlyPayloads

(* Every step leaves only payloads in the slots.                           *)
LEMMA OnlyPayloadsStep ==
  ASSUME StorageInv, OnlyPayloads, [Next]_vars
  PROVE  OnlyPayloads'
  <1>1. /\ CallInv /\ plan \in Plans /\ RunTypeOK /\ Sound(slots, live_slots)
        /\ CleanupProgress /\ cleanup \in 0 .. plan.n
    BY DEF StorageInv, TypeInv, CallInv, RunTypeOK
  <1>2. NoObject # Poisoned /\ \A i \in nodes : i # Poisoned
    BY <1>1, RootIsANode DEF NoObject, Poisoned
  <1>3. ASSUME pc' = "dfs", plan' = plan,
               \A s \in 0 .. plan.n_slots - 1 : slots'[s].obj # Poisoned
        PROVE  OnlyPayloads'
    BY <1>3 DEF OnlyPayloads
  <1>4. CASE RunNodeSucceeds
    <2>1. /\ Running("enter") /\ EnterNode(I, "success") /\ I \in nodes
          /\ plan' = plan /\ pc' = "dfs"
      BY <1>1, <1>4, Succeeding DEF RunNodeSucceeds
    <2>2. "success" \in Statuses
      BY DEF Statuses
    <2> QED BY <1>2, <1>3, <2>1, <2>2, EnteringFillsTheSlot DEF OnlyPayloads
  <1>5. CASE Failing
    <2>1. Running("enter") /\ I \in nodes /\ plan' = plan /\ pc' = "dfs"
      BY <1>1, <1>5, FailingPops DEF Running
    <2>2. CASE EnterNodeThrows(I)
      BY <1>3, <2>1, <2>2, ThrowingFillsNoSlot DEF OnlyPayloads
    <2>3. CASE \E status \in Statuses \ {"success"} : EnterNode(I, status)
      BY <1>2, <1>3, <2>1, <2>3, EnteringFillsTheSlot DEF OnlyPayloads
    <2> QED BY <1>1, <1>5, <2>2, <2>3, FailingPops
  <1>6. CASE Prepare \/ CallChild \/ NextChild
    <2>1. UNCHANGED <<plan, pc, slots>>
      BY <1>6 DEF Prepare, CallChild, NextChild, run_vars
    <2> QED BY <2>1 DEF OnlyPayloads
  <1>7. CASE Leaving
    <2>1. plan' = plan /\ pc' = "dfs"
      BY <1>1, <1>7, LeavingPops
    <2> QED BY <1>2, <1>3, <1>7, <2>1, GuardEmptiesTheSlot DEF OnlyPayloads
  <1>8. CASE Leave
    <2>1. pc # "dfs" /\ plan' = plan /\ LeaveRunPlan
      BY <1>1, <1>8, LeaveRunPlanIsTyped DEF Leave
    <2>2. \A s \in 0 .. plan.n_slots - 1 : slots'[s].obj = NoObject
      BY <1>1, <2>1, LeavingStoresNothing DEF OnlyPayloads
    <2> QED BY <1>2, <2>1, <2>2 DEF OnlyPayloads
  <1>9. CASE Standing \/ UNCHANGED vars
    <2>1. /\ UNCHANGED <<plan, slots>>
          /\ pc' = pc \/ calls = <<>> \/ pc' = "dfs"
      BY <1>1, <1>9, StandingStill
    <2>2. CASE calls = <<>>
      BY <1>2, <2>1, <2>2, NothingIsLeftBehind DEF OnlyPayloads
    <2> QED BY <2>1, <2>2 DEF OnlyPayloads
  <1> QED BY <1>4, <1>5, <1>6, <1>7, <1>8, <1>9, StepsOfTheRun

-------------------------------------------------------------------------------
(* What is being returned, step by step.                                   *)

(* A step that keeps the plan translates a fact about the next state.      *)
LEMMA ProceedingNext ==
  ASSUME plan' = plan,
         \A i \in nodes : outcome'[i] \notin Ending,
         \A k \in 1 .. Len(calls') : calls'[k].phase # "enter" => outcome'[Path'[k]] = "success",
         NEW entering \in BOOLEAN, entering => Entering',
         Frontier(outcome', Path', Following', Len(calls'), entering),
         calls' = <<>> => (outcome'[0] = "abort_branch" <=> returned' = "abort_branch")
  PROVE  Proceeding'
  <1>1. nodes' = nodes
    BY DEF nodes
  <1>2. Frontier(outcome, Path, Following, Len(calls), Entering)'
    BY <1>1 DEF Frontier, Pending
  <1> QED BY <1>1, <1>2 DEF Proceeding, Ending

(* The invariant of the next state, from its parts.                        *)
LEMMA PromiseNext ==
  ASSUME ReadInv', OnlyPayloads',
         result' = IF pc' = "dfs" THEN "none" ELSE returned',
         calls' = <<>> => returned' # "none",
         IF returned' \in Ending THEN EndReported(returned)' ELSE Proceeding'
  PROVE  PromiseInv'
  BY DEF PromiseInv, Ending

(* A task's report, as seen in the history.                                *)
LEMMA EnteringReports ==
  ASSUME outcome \in [nodes -> Statuses \cup {"none", "threw"}], I \in nodes,
         NEW status, outcome' = [outcome EXCEPT ![I] = status]
  PROVE  Reports(outcome, I, status, outcome')
  BY DEF Reports

(* What the invariants give about the node whose task is about to run.     *)
LEMMA PromisedEntry ==
  ASSUME PromiseInv, Running("enter")
  PROVE  /\ plan \in Plans /\ I \in nodes
         /\ Len(calls) \in Nat /\ Len(calls) # 0 /\ Len(calls) \in 1 .. Len(calls)
         /\ top = Len(calls)
         /\ IsWalk(Path, Ordinals, Len(calls))
         /\ Path[Len(calls)] = I
         /\ Following[Len(calls)] = 0
         /\ Proceeding
         /\ Frontier(outcome, Path, Following, Len(calls), TRUE)
         /\ outcome \in [nodes -> Statuses \cup {"none", "threw"}]
         /\ result = "none"
  <1>1. /\ pc = "dfs" /\ result # "exception" /\ calls # <<>> /\ returned = "none"
        /\ calls[top].phase = "enter"
    BY DEF Running
  <1>2. /\ plan \in Plans /\ CallInv
        /\ Len(calls) \in Nat /\ Len(calls) # 0
        /\ IsWalk(Path, Ordinals, Len(calls))
        /\ \A k \in 1 .. Len(calls) : Ordinals[k] = calls[k].ord
        /\ \A k \in 1 .. Len(calls) :
             Following[k] = IF k < Len(calls) \/ returned # "none"
                              THEN Ordinals[k] + 1 ELSE Ordinals[k]
        /\ outcome \in [nodes -> Statuses \cup {"none", "threw"}]
    BY <1>1, PromisedCalls
  <1>3. /\ top = Len(calls) /\ Len(calls) \in 1 .. Len(calls)
        /\ Path[Len(calls)] = I /\ I \in nodes
    BY <1>1, <1>2, CallsAreAWalk
  <1>4. Following[Len(calls)] = 0
    <2>1. calls[Len(calls)].ord = 0
      BY <1>1, <1>2, <1>3 DEF CallInv, CallsAreAPath
    <2> QED BY <1>1, <1>2, <1>3, <2>1
  <1>5. Proceeding /\ result = "none"
    BY <1>1 DEF PromiseInv, Ending
  <1>6. Frontier(outcome, Path, Following, Len(calls), TRUE)
    BY <1>5 DEF Proceeding, Frontier
  <1> QED BY <1>1, <1>2, <1>3, <1>4, <1>5, <1>6

(* Leaving the top activation: the ones below it have their next children  *)
(* as before.                                                              *)
LEMMA PoppingKeepsTheStart ==
  ASSUME CallInv, calls # <<>>, TopLeaves, returned = "none", returned' # "none"
  PROVE  /\ SameStart(Path, Following, Len(calls) - 1, Path', Following')
         /\ \A k \in 1 .. Len(calls') : /\ k \in 1 .. Len(calls) /\ calls'[k] = calls[k]
                                        /\ Path'[k] = Path[k]
         /\ Len(calls') = Len(calls) - 1
         /\ calls' = <<>> => I = 0
  <1>1. /\ Len(calls) \in Nat /\ Len(calls) # 0 /\ I = Path[Len(calls)]
        /\ IsWalk(Path, Ordinals, Len(calls))
        /\ \A k \in 1 .. Len(calls) : Ordinals[k] \in Nat
    BY CallsAreAWalk
  <1>2. /\ Len(calls') = Len(calls) - 1
        /\ \A k \in 1 .. Len(calls) - 1 : calls'[k] = calls[k]
    BY DEF TopLeaves
  <1>3. \A k \in 1 .. Len(calls) - 1 :
          k \in 1 .. Len(calls) /\ Path'[k] = Path[k] /\ Ordinals'[k] = Ordinals[k]
    BY <1>1, <1>2 DEF Path, Ordinals
  <1>4. \A k \in 1 .. Len(calls) - 1 : Following'[k] = Following[k]
    <2>1. SUFFICES ASSUME NEW k \in 1 .. Len(calls) - 1 PROVE Following'[k] = Following[k]
      OBVIOUS
    <2>2. Following'[k] = Ordinals'[k] + 1
      BY <1>2 DEF Following
    <2>3. Following[k] = Ordinals[k] + 1
      BY <1>1 DEF Following
    <2> QED BY <1>3, <2>2, <2>3
  <1>5. calls' = <<>> => I = 0
    <2>1. calls' = <<>> => Len(calls) = 1
      BY <1>1, <1>2
    <2> QED BY <1>1, <2>1 DEF IsWalk
  <1> QED BY <1>2, <1>3, <1>4, <1>5 DEF SameStart

(* The run starts with the root about to be entered.                       *)
LEMMA PromiseInvInit == Init => PromiseInv
  <1> SUFFICES ASSUME Init PROVE PromiseInv
    OBVIOUS
  <1>1. /\ plan \in Plans /\ pc = "dfs" /\ result = "none" /\ returned = "none"
        /\ calls = <<Activation(0)>> /\ outcome = [i \in nodes |-> "none"]
    BY DEF Init, RunInit
  <1>2. /\ Len(calls) = 1 /\ calls[1] = Activation(0) /\ calls # <<>>
        /\ Activation(0).node = 0 /\ Activation(0).phase = "enter" /\ Activation(0).ord = 0
    BY <1>1 DEF Activation
  <1>3. \A s \in 0 .. plan.n_slots - 1 : slots[s].obj = NoObject
    BY RunInitIsSound DEF Init
  <1>4. OnlyPayloads
    BY <1>3 DEF OnlyPayloads, NoObject, Poisoned
  <1>5. Path[1] = 0 /\ Following[1] = 0
    BY <1>1, <1>2 DEF Path, Following, Ordinals
  <1>6. \A j \in nodes : j # 0 => plan.parent[j] # plan.n /\ plan.parent[j] \in nodes
    BY <1>1, ParentIsANode, WellFormedPlan DEF TreeWellFormed, nodes
  <1>7. Frontier(outcome, Path, Following, Len(calls), Entering)
    BY <1>1, <1>2, <1>5, <1>6 DEF Frontier, Entering
  <1>8. Proceeding
    BY <1>1, <1>2, <1>7 DEF Proceeding, Ending
  <1> QED BY <1>1, <1>2, <1>4, <1>8, ReadInvInit DEF PromiseInv, Ending

(* A task that succeeds.                                                   *)
LEMMA SucceedingKeepsPromise ==
  ASSUME PromiseInv, ReadInv', OnlyPayloads', RunNodeSucceeds
  PROVE  PromiseInv'
  <1>1. Running("enter") /\ CallInv
    BY DEF RunNodeSucceeds, PromiseInv, ReadInv, StorageInv, TypeInv
  <1>2. /\ plan \in Plans /\ I \in nodes
        /\ Len(calls) \in Nat /\ Len(calls) # 0 /\ Len(calls) \in 1 .. Len(calls)
        /\ top = Len(calls)
        /\ IsWalk(Path, Ordinals, Len(calls)) /\ Path[Len(calls)] = I
        /\ Following[Len(calls)] = 0
        /\ Proceeding
        /\ Frontier(outcome, Path, Following, Len(calls), TRUE)
        /\ outcome \in [nodes -> Statuses \cup {"none", "threw"}]
        /\ result = "none"
    BY <1>1, PromisedEntry
  <1>3. /\ EnterNode(I, "success") /\ UNCHANGED <<plan, pc, result>>
        /\ returned = "none" /\ returned' = "none" /\ pc = "dfs"
    BY <1>1, Succeeding
  <1>4. PICK live \in BOOLEAN : TopMoves("prepare", calls[top].ord, live, calls[top].fanout_guard)
    BY <1>1, Succeeding
  <1>5. /\ Len(calls') = Len(calls)
        /\ \A k \in 1 .. Len(calls) - 1 : calls'[k] = calls[k]
        /\ calls'[Len(calls)].node = I
        /\ calls'[Len(calls)].ord = calls[Len(calls)].ord
    BY <1>2, <1>4 DEF TopMoves
  <1>6. Path' = Path /\ Following' = Following
    <2>1. \A k \in 1 .. Len(calls) :
            calls'[k].node = calls[k].node /\ calls'[k].ord = calls[k].ord
      BY <1>2, <1>5 DEF I
    <2>2. Path' = Path /\ Ordinals' = Ordinals
      BY <1>5, <2>1 DEF Path, Ordinals
    <2> QED BY <1>3, <1>5, <2>2 DEF Following
  <1>7. Reports(outcome, I, "success", outcome')
    BY <1>2, <1>3, EnteringReports DEF EnterNode
  <1>8. Frontier(outcome', Path', Following', Len(calls'), FALSE)
    BY <1>2, <1>5, <1>6, <1>7, SuccessKeepsFrontier
  <1>9. \A i \in nodes : outcome'[i] \notin Ending
    BY <1>2, <1>7 DEF Reports, Proceeding, Ending
  <1>10. \A k \in 1 .. Len(calls') : calls'[k].phase # "enter" => outcome'[Path'[k]] = "success"
    <2>1. SUFFICES ASSUME NEW k \in 1 .. Len(calls), calls'[k].phase # "enter"
                   PROVE  outcome'[Path[k]] = "success"
      BY <1>5, <1>6
    <2>2. Path[k] \in nodes
      BY <1>2 DEF IsWalk
    <2>3. CASE Path[k] = I
      BY <1>7, <2>3 DEF Reports
    <2>4. CASE Path[k] # I
      <3>1. calls[k].phase # "enter"
        BY <1>2, <1>5, <2>1, <2>4
      <3> QED BY <1>2, <1>7, <2>2, <2>4, <3>1 DEF Proceeding, Reports
    <2> QED BY <2>3, <2>4
  <1>11. calls' # <<>>
    BY <1>2, <1>5
  <1>12. Proceeding'
    BY <1>3, <1>8, <1>9, <1>10, <1>11, ProceedingNext
  <1> QED BY <1>2, <1>3, <1>11, <1>12, PromiseNext DEF Ending

(* A task that reports something else, or throws.                          *)
LEMMA FailingKeepsPromise ==
  ASSUME PromiseInv, ReadInv', OnlyPayloads', Failing
  PROVE  PromiseInv'
  <1>1. CallInv
    BY DEF PromiseInv, ReadInv, StorageInv, TypeInv
  <1>2. SUFFICES ASSUME result' # "exception" PROVE PromiseInv'
    BY DEF PromiseInv
  <1>3. /\ Running("enter") /\ UNCHANGED <<plan, pc>> /\ TopLeaves
        /\ calls # <<>> /\ returned = "none" /\ pc = "dfs"
    BY <1>1, FailingPops DEF Running
  <1>4. PICK status \in Statuses \ {"success"} :
          EnterNode(I, status) /\ returned' = status /\ result' = result
    BY <1>1, <1>2, FailingPops
  <1>5. /\ plan \in Plans /\ I \in nodes /\ Len(calls) # 0
        /\ IsWalk(Path, Ordinals, Len(calls)) /\ Path[Len(calls)] = I
        /\ Following[Len(calls)] = 0
        /\ Proceeding
        /\ Frontier(outcome, Path, Following, Len(calls), TRUE)
        /\ outcome \in [nodes -> Statuses \cup {"none", "threw"}]
        /\ result = "none"
    BY <1>3, PromisedEntry
  <1>6. Reports(outcome, I, status, outcome')
    BY <1>4, <1>5, EnteringReports DEF EnterNode
  <1>7. /\ SameStart(Path, Following, Len(calls) - 1, Path', Following')
        /\ \A k \in 1 .. Len(calls') : /\ k \in 1 .. Len(calls) /\ calls'[k] = calls[k]
                                       /\ Path'[k] = Path[k]
        /\ Len(calls') = Len(calls) - 1
        /\ calls' = <<>> => I = 0
    BY <1>1, <1>3, <1>4, PoppingKeepsTheStart DEF Statuses
  <1>8. result' = "none" /\ pc' = "dfs" /\ returned' # "none"
    BY <1>3, <1>4, <1>5 DEF Statuses
  <1>9. CASE status = "abort_branch"
    <2>1. Frontier(outcome', Path', Following', Len(calls'), FALSE)
      <3>1. status \notin {"none", "success"} /\ Following[Len(calls)] \in Nat
        BY <1>5, <1>9
      <3>2. Reports(outcome, Path[Len(calls)], status, outcome')
        BY <1>5, <1>6
      <3>3. Frontier(outcome', Path', Following', Len(calls) - 1, FALSE)
        BY <1>5, <1>7, <3>1, <3>2, RefusalKeepsFrontier
      <3> QED BY <1>7, <3>3
    <2>2. \A i \in nodes : outcome'[i] \notin Ending
      BY <1>5, <1>6, <1>9 DEF Reports, Proceeding, Ending
    <2>3. \A k \in 1 .. Len(calls') : calls'[k].phase # "enter" => outcome'[Path'[k]] = "success"
      <3>1. SUFFICES ASSUME NEW k \in 1 .. Len(calls'), calls'[k].phase # "enter"
                     PROVE  outcome'[Path'[k]] = "success"
        OBVIOUS
      <3>2. k \in 1 .. Len(calls) - 1 /\ Path[k] \in nodes /\ Path'[k] = Path[k]
            /\ calls[k].phase # "enter"
        BY <1>5, <1>7, <3>1 DEF IsWalk
      <3>3. Path[k] # I
        <4>1. Len(calls) \in 1 .. Len(calls) /\ Path[k] \in Nat
          BY <1>5, <3>2, RootIsANode DEF IsWalk
        <4>2. Path[k] < Path[Len(calls)]
          BY <1>5, <3>2, <4>1, WalkRises
        <4> QED BY <1>5, <4>1, <4>2
      <3>4. outcome[Path[k]] = "success"
        BY <1>5, <1>7, <3>1, <3>2 DEF Proceeding
      <3> QED BY <1>6, <3>2, <3>3, <3>4 DEF Reports
    <2>4. calls' = <<>> => outcome'[0] = "abort_branch"
      BY <1>6, <1>7, <1>9 DEF Reports
    <2>5. Proceeding'
      BY <1>3, <1>4, <1>9, <2>1, <2>2, <2>3, <2>4, ProceedingNext
    <2> QED BY <1>4, <1>8, <1>9, <2>5, PromiseNext DEF Ending
  <1>10. CASE status # "abort_branch"
    <2>1. status \in Ending
      BY <1>10 DEF Statuses, Ending
    <2>2. EndReported(returned)'
      <3>1. nodes' = nodes
        BY <1>3 DEF nodes
      <3>2. outcome'[I] = returned' /\ \A i \in nodes : i # I => outcome'[i] \notin Ending
        BY <1>4, <1>5, <1>6 DEF Reports, Proceeding
      <3> QED BY <1>4, <1>5, <2>1, <3>1, <3>2 DEF EndReported, Ending
    <2> QED BY <1>4, <1>8, <2>1, <2>2, PromiseNext
  <1> QED BY <1>9, <1>10

(* A node that goes on to its children, or to the next of them.            *)
LEMMA MovingKeepsPromise ==
  ASSUME PromiseInv, ReadInv', OnlyPayloads', Prepare \/ NextChild
  PROVE  PromiseInv'
  <1>1. CallInv
    BY DEF PromiseInv, ReadInv, StorageInv, TypeInv
  <1>2. /\ calls # <<>> /\ pc = "dfs" /\ result # "exception"
        /\ top = Len(calls) /\ top \in 1 .. Len(calls)
        /\ UNCHANGED <<plan, pc, result, outcome>> /\ returned' = "none"
        /\ returned \in {"none", "success", "abort_branch"}
        /\ calls[top].phase \in {"prepare", "children"}
        /\ calls[top].phase = "children" => returned # "none"
        /\ calls[top].phase = "prepare" => returned = "none"
        /\ Len(calls') = Len(calls)
        /\ \A k \in 1 .. Len(calls) - 1 : calls'[k] = calls[k]
        /\ calls'[Len(calls)].node = I
        /\ calls'[Len(calls)].ord = IF returned = "none" THEN calls[top].ord ELSE calls[top].ord + 1
        /\ calls'[Len(calls)].phase = "children"
    <2>1. CASE Prepare
      BY <1>1, <2>1, Preparing DEF TopMoves
    <2>2. CASE NextChild
      BY <1>1, <2>2, Advancing DEF TopMoves, NextChild
    <2> QED BY <2>1, <2>2
  <1>3. /\ Len(calls) \in Nat
        /\ \A k \in 1 .. Len(calls) :
             /\ Path[k] = calls[k].node /\ Ordinals[k] = calls[k].ord /\ Ordinals[k] \in Nat
             /\ Following[k] = IF k < Len(calls) \/ returned # "none"
                                 THEN Ordinals[k] + 1 ELSE Ordinals[k]
    BY <1>2, PromisedCalls
  <1>4. Proceeding /\ ~Entering /\ result = "none"
    BY <1>2 DEF PromiseInv, Ending, Entering
  <1>5. \A k \in 1 .. Len(calls) : calls'[k].node = calls[k].node
    BY <1>2, <1>3 DEF I
  <1>6. Path' = Path
    BY <1>2, <1>5 DEF Path
  <1>7. \A k \in 1 .. Len(calls) : Following'[k] = Following[k]
    <2>1. SUFFICES ASSUME NEW k \in 1 .. Len(calls) PROVE Following'[k] = Following[k]
      OBVIOUS
    <2>2. CASE k = Len(calls)
      <3>1. Following'[k] = calls'[k].ord
        BY <1>2, <1>3, <2>2 DEF Following, Ordinals
      <3>2. Following[k] = IF returned = "none" THEN calls[top].ord ELSE calls[top].ord + 1
        BY <1>2, <1>3, <2>2
      <3> QED BY <1>2, <2>2, <3>1, <3>2
    <2>3. CASE k # Len(calls)
      <3>1. k < Len(calls) /\ calls'[k] = calls[k]
        BY <1>2, <1>3, <2>3
      <3>2. Following'[k] = calls'[k].ord + 1
        BY <1>2, <3>1 DEF Following, Ordinals
      <3> QED BY <1>3, <3>1, <3>2
    <2> QED BY <2>2, <2>3
  <1>8. Frontier(outcome', Path', Following', Len(calls'), FALSE)
    BY <1>2, <1>4, <1>6, <1>7 DEF Proceeding, Frontier, Pending
  <1>9. \A k \in 1 .. Len(calls') : calls'[k].phase # "enter" => outcome'[Path'[k]] = "success"
    <2>1. \A k \in 1 .. Len(calls) : calls'[k].phase # "enter" => calls[k].phase # "enter"
      BY <1>2, <1>3
    <2> QED BY <1>2, <1>4, <1>6, <2>1 DEF Proceeding
  <1>10. \A i \in nodes : outcome'[i] \notin Ending
    BY <1>2, <1>4 DEF Proceeding
  <1>11. calls' # <<>>
    BY <1>2, <1>3
  <1>12. Proceeding'
    BY <1>2, <1>8, <1>9, <1>10, <1>11, ProceedingNext
  <1> QED BY <1>2, <1>4, <1>11, <1>12, PromiseNext DEF Ending

(* Going down to a child.                                                  *)
LEMMA CallingKeepsPromise ==
  ASSUME PromiseInv, ReadInv', OnlyPayloads', CallChild
  PROVE  PromiseInv'
  <1>1. /\ CallInv /\ pc = "dfs" /\ result # "exception" /\ calls # <<>>
        /\ returned = "none" /\ returned' = "none" /\ calls[top].phase = "children"
        /\ UNCHANGED <<plan, pc, result, outcome>>
    BY DEF CallChild, Running, run_vars, PromiseInv, ReadInv, StorageInv, TypeInv
  <1>2. /\ plan \in Plans /\ Len(calls) \in Nat
        /\ IsWalk(Path, Ordinals, Len(calls))
        /\ \A k \in 1 .. Len(calls) :
             /\ Path[k] = calls[k].node
             /\ Ordinals[k] = calls[k].ord /\ Ordinals[k] \in Nat
             /\ Following[k] = IF k < Len(calls) \/ returned # "none"
                                 THEN Ordinals[k] + 1 ELSE Ordinals[k]
    BY <1>1, PromisedCalls
  <1>3. /\ Len(calls) # 0 /\ top = Len(calls) /\ Path[Len(calls)] = I
        /\ Len(calls) \in 1 .. Len(calls)
    BY <1>1, <1>2, CallsAreAWalk
  <1>4. PICK c \in nodes :
          /\ c = ChildAt(plan, I, calls[top].ord)
          /\ Len(calls') = Len(calls) + 1
          /\ \A k \in 1 .. Len(calls) : calls'[k] = calls[k]
          /\ calls'[Len(calls) + 1] = Activation(c)
    BY <1>1, CallingKeepsThePath
  <1>5. Activation(c).node = c /\ Activation(c).phase = "enter"
    BY DEF Activation
  <1>6. PICK more \in Nat : more = Len(calls) + 1
    BY <1>2
  <1>7. /\ \A k \in 1 .. Len(calls) : Path'[k] = Path[k] /\ Ordinals'[k] = Ordinals[k]
        /\ Path'[more] = ChildAt(plan, Path[Len(calls)], Ordinals[Len(calls)])
    BY <1>2, <1>3, <1>4, <1>5, <1>6 DEF Path, Ordinals
  <1>8. \A k \in 1 .. Len(calls) : Following'[k] = Ordinals[k] + 1
    BY <1>2, <1>4, <1>7 DEF Following
  <1>9. GoesDown(Path, Ordinals, Following, Len(calls), Path', Following', more)
    <2>1. \A k \in 1 .. Len(calls) - 1 : Following'[k] = Following[k]
      BY <1>2, <1>8
    <2>2. Following'[Len(calls)] = Ordinals[Len(calls)] + 1
      BY <1>3, <1>8
    <2> QED BY <1>6, <1>7, <2>1, <2>2 DEF GoesDown
  <1>10. Proceeding /\ ~Entering /\ result = "none"
    BY <1>1, <1>3 DEF PromiseInv, Ending, Entering
  <1>11. Frontier(outcome', Path', Following', Len(calls'), TRUE)
    <2>1. Frontier(outcome, Path, Following, Len(calls), FALSE)
      BY <1>10 DEF Proceeding, Frontier
    <2>2. Following[Len(calls)] = Ordinals[Len(calls)]
      BY <1>1, <1>2, <1>3
    <2>3. Frontier(outcome, Path', Following', more, TRUE)
      BY <1>2, <1>3, <1>9, <2>1, <2>2, DescendingKeepsFrontier
    <2> QED BY <1>1, <1>4, <1>6, <2>3
  <1>12. Entering' /\ calls' # <<>>
    BY <1>2, <1>4, <1>5 DEF Entering
  <1>13. \A k \in 1 .. Len(calls') : calls'[k].phase # "enter" => outcome'[Path'[k]] = "success"
    <2>1. SUFFICES ASSUME NEW k \in 1 .. Len(calls'), calls'[k].phase # "enter"
                   PROVE  outcome'[Path'[k]] = "success"
      OBVIOUS
    <2>2. k \in 1 .. Len(calls)
      BY <1>2, <1>4, <1>5, <2>1
    <2> QED BY <1>1, <1>4, <1>7, <1>10, <2>1, <2>2 DEF Proceeding
  <1>14. Proceeding'
    BY <1>1, <1>10, <1>11, <1>12, <1>13, ProceedingNext DEF Proceeding
  <1> QED BY <1>1, <1>10, <1>12, <1>14, PromiseNext DEF Ending

(* What the invariants give about a node whose children are all visited.   *)
LEMMA PromisedReturn ==
  ASSUME PromiseInv, ReturnSuccess
  PROVE  /\ plan \in Plans /\ I \in nodes
         /\ IsWalk(Path, Ordinals, Len(calls)) /\ Len(calls) # 0 /\ Path[Len(calls)] = I
         /\ \A k \in 1 .. Len(calls) - 1 : Following[k] = Ordinals[k] + 1
         /\ Following[Len(calls)] \in Nat
         /\ Following[Len(calls)] >= plan.child_counts[Path[Len(calls)]]
         /\ Proceeding
         /\ Frontier(outcome, Path, Following, Len(calls), FALSE)
         /\ outcome[I] = "success"
         /\ result = "none" /\ returned = "none" /\ returned' = "success"
         /\ calls[top].phase = "children"
  <1>1. /\ pc = "dfs" /\ result # "exception" /\ calls # <<>> /\ returned = "none"
        /\ calls[top].phase = "children" /\ calls[top].ord = plan.child_counts[I]
        /\ returned' = "success"
    BY DEF ReturnSuccess, Running
  <1>2. /\ plan \in Plans /\ CallInv
        /\ Len(calls) \in Nat /\ Len(calls) # 0
        /\ IsWalk(Path, Ordinals, Len(calls))
        /\ \A k \in 1 .. Len(calls) :
             /\ Ordinals[k] = calls[k].ord /\ Ordinals[k] \in Nat
             /\ Following[k] \in Nat
             /\ Following[k] = IF k < Len(calls) \/ returned # "none"
                                 THEN Ordinals[k] + 1 ELSE Ordinals[k]
        /\ \A k \in 1 .. Len(calls) - 1 : Following[k] = Ordinals[k] + 1
    BY <1>1, PromisedCalls
  <1>3. /\ top = Len(calls) /\ Len(calls) \in 1 .. Len(calls)
        /\ Path[Len(calls)] = I /\ I \in nodes
    BY <1>1, <1>2, CallsAreAWalk
  <1>4. Proceeding /\ ~Entering /\ result = "none"
    BY <1>1, <1>3 DEF PromiseInv, Ending, Entering
  <1>5. Frontier(outcome, Path, Following, Len(calls), FALSE)
    BY <1>4 DEF Proceeding, Frontier
  <1>6. outcome[I] = "success"
    BY <1>1, <1>3, <1>4 DEF Proceeding
  <1>7. Following[Len(calls)] >= plan.child_counts[Path[Len(calls)]]
    <2>1. Following[Len(calls)] = plan.child_counts[Path[Len(calls)]]
      BY <1>1, <1>2, <1>3
    <2> QED BY <1>2, <1>3, <2>1
  <1> QED BY <1>1, <1>2, <1>3, <1>4, <1>5, <1>6, <1>7

(* Returning from an activation, successfully or not.                      *)
LEMMA LeavingKeepsPromise ==
  ASSUME PromiseInv, ReadInv', OnlyPayloads', Leaving
  PROVE  PromiseInv'
  <1>1. CallInv
    BY DEF PromiseInv, ReadInv, StorageInv, TypeInv
  <1>2. SUFFICES ASSUME result' # "exception" PROVE PromiseInv'
    BY DEF PromiseInv
  <1>3. /\ UNCHANGED <<plan, pc, result, outcome>> /\ TopLeaves
        /\ calls # <<>> /\ pc = "dfs" /\ result # "exception" /\ returned' # "none"
    BY <1>1, <1>2, LeavingPops
  <1>4. CASE ReturnSuccess
    <2>1. /\ plan \in Plans
          /\ IsWalk(Path, Ordinals, Len(calls)) /\ Len(calls) # 0 /\ Path[Len(calls)] = I
          /\ Following[Len(calls)] \in Nat
          /\ Following[Len(calls)] >= plan.child_counts[Path[Len(calls)]]
          /\ Proceeding
          /\ Frontier(outcome, Path, Following, Len(calls), FALSE)
          /\ outcome[I] = "success"
          /\ result = "none" /\ returned = "none" /\ returned' = "success"
      BY <1>4, PromisedReturn
    <2>2. /\ SameStart(Path, Following, Len(calls) - 1, Path', Following')
          /\ \A k \in 1 .. Len(calls') : /\ k \in 1 .. Len(calls) /\ calls'[k] = calls[k]
                                         /\ Path'[k] = Path[k]
          /\ Len(calls') = Len(calls) - 1
          /\ calls' = <<>> => I = 0
      BY <1>1, <1>3, <2>1, PoppingKeepsTheStart
    <2>3. Frontier(outcome, Path', Following', Len(calls) - 1, FALSE)
      BY <2>1, <2>2, LeavingKeepsFrontier
    <2>4. Frontier(outcome', Path', Following', Len(calls'), FALSE)
      BY <1>3, <2>2, <2>3
    <2>5. \A k \in 1 .. Len(calls') : calls'[k].phase # "enter" => outcome'[Path'[k]] = "success"
      BY <1>3, <2>1, <2>2 DEF Proceeding
    <2>6. calls' = <<>> => outcome'[0] # "abort_branch"
      BY <1>3, <2>1, <2>2
    <2>7. Proceeding'
      BY <1>3, <2>1, <2>4, <2>5, <2>6, ProceedingNext DEF Proceeding
    <2> QED BY <1>3, <2>1, <2>7, PromiseNext DEF Ending
  <1>5. CASE ~ReturnSuccess
    <2>1. /\ returned' = returned /\ returned \in Ending
      BY <1>1, <1>3, <1>5 DEF Leaving, ReturnStep, Unwind, Returning, CallInv, Statuses, Ending
    <2>2. EndReported(returned) /\ result = "none"
      BY <1>3, <2>1 DEF PromiseInv
    <2>3. EndReported(returned)'
      BY <1>3, <2>1, <2>2 DEF EndReported, nodes
    <2> QED BY <1>3, <2>1, <2>2, <2>3, PromiseNext DEF Ending
  <1> QED BY <1>4, <1>5

(* Where the stack stands still, what was reported and returned does too.  *)
LEMMA StandingKeepsPromise ==
  ASSUME PromiseInv, ReadInv', OnlyPayloads', Leave \/ Standing \/ UNCHANGED vars
  PROVE  PromiseInv'
  <1>1. CallInv /\ plan \in Plans /\ RunTypeOK
    BY DEF PromiseInv, ReadInv, StorageInv, TypeInv, CallInv
  <1>2. SUFFICES ASSUME result' # "exception" PROVE PromiseInv'
    BY DEF PromiseInv
  <1>3. /\ UNCHANGED <<plan, outcome, calls, returned>>
        /\ result # "exception"
        /\ result' = IF pc' = "dfs" THEN "none" ELSE returned
    <2>1. CASE Leave
      <3>1. LeaveRunPlan /\ UNCHANGED <<calls, returned>>
        BY <2>1 DEF Leave
      <3>2. UNCHANGED <<plan, result, outcome>> /\ pc # "dfs" /\ pc' # "dfs"
        BY <1>1, <3>1, LeaveRunPlanIsTyped
      <3> QED BY <1>2, <3>1, <3>2 DEF PromiseInv
    <2>2. CASE ReturnFromRoot
      <3>1. /\ UNCHANGED <<plan, outcome, calls, returned>>
            /\ pc' = "fanout_dtor" /\ result' = returned /\ returned # "none" /\ pc = "dfs"
        BY <2>2 DEF ReturnFromRoot
      <3> QED BY <1>1, <3>1 DEF CallInv, Statuses
    <2>3. CASE PrepareThrows \/ Unwind
      BY <1>2, <2>3 DEF PrepareThrows, Unwind
    <2>4. CASE Done \/ UNCHANGED vars
      BY <1>2, <2>4 DEF Done, vars, run_vars, PromiseInv
    <2> QED BY <2>1, <2>2, <2>3, <2>4 DEF Standing
  <1>4. Path' = Path /\ Following' = Following /\ Entering' = Entering /\ nodes' = nodes
    BY <1>3 DEF Path, Following, Ordinals, Entering, nodes
  <1>5. /\ calls = <<>> => returned # "none"
        /\ IF returned \in Ending THEN EndReported(returned) ELSE Proceeding
    BY <1>3 DEF PromiseInv
  <1>6. IF returned' \in Ending THEN EndReported(returned)' ELSE Proceeding'
    BY <1>3, <1>4, <1>5 DEF EndReported, Proceeding, Frontier, Pending, Ending
  <1> QED BY <1>3, <1>5, <1>6, PromiseNext

(* Every step keeps the promise.                                           *)
LEMMA PromiseInvStep ==
  ASSUME PromiseInv, [Next]_vars
  PROVE  PromiseInv'
  <1>1. ReadInv' /\ OnlyPayloads'
    BY ReadInvStep, OnlyPayloadsStep DEF PromiseInv, ReadInv
  <1> QED BY <1>1, StepsOfTheRun, SucceedingKeepsPromise, FailingKeepsPromise,
             MovingKeepsPromise, CallingKeepsPromise, LeavingKeepsPromise, StandingKeepsPromise

(* PromiseInv holds throughout every run.                                  *)
LEMMA PromiseInvHolds == Spec => []PromiseInv
  <1>1. PromiseInv /\ [Next]_vars => PromiseInv'
    BY PromiseInvStep
  <1> QED BY <1>1, PromiseInvInit, PTL DEF Spec

-------------------------------------------------------------------------------
(* Every step is one that was promised.                                    *)

(* The run has ended if it is unwinding or is returning what ended it.     *)
LEMMA PromisedEnd ==
  ASSUME PromiseInv
  PROVE  /\ result = "exception" => Promise!Ended
         /\ result # "exception" => (Promise!Ended <=> returned \in Ending)
  BY PromisedState DEF PromiseInv, EndReported, Proceeding

(* The node about to be entered is the next one due, and what is stored is *)
(* what its ancestors left.                                                *)
LEMMA NodeIsPromised ==
  ASSUME PromiseInv, Running("enter")
  PROVE  I \in nodes /\ Promise!NextDue(I) /\ Stored = Promise!AncestorPayloads(I)
  <1>1. /\ pc = "dfs" /\ result # "exception" /\ returned = "none" /\ calls # <<>>
        /\ calls[top].phase = "enter" /\ ReadInv /\ StorageInv /\ OnlyPayloads
    BY DEF Running, PromiseInv, ReadInv
  <1>2. /\ plan \in Plans /\ I \in nodes
        /\ Len(calls) \in Nat /\ Len(calls) # 0 /\ Len(calls) \in 1 .. Len(calls)
        /\ top = Len(calls)
        /\ IsWalk(Path, Ordinals, Len(calls)) /\ Path[Len(calls)] = I
        /\ Following[Len(calls)] = 0
        /\ Proceeding
        /\ Frontier(outcome, Path, Following, Len(calls), TRUE)
    BY PromisedEntry
  <1>3. /\ CallsAreServed /\ InPreorder /\ CallInv
        /\ \A k \in 1 .. Len(calls) :
             /\ Path[k] = calls[k].node
             /\ k < Len(calls) => calls[k].phase = "children"
        /\ \A k \in 1 .. Len(calls) - 1 : Following[k] = Ordinals[k] + 1
    BY <1>1, ServedCalls
  <1>4. \A k \in 1 .. Len(calls) - 1 :
          Following[k] = Ordinals[k] + 1 /\ outcome[Path[k]] = "success"
    BY <1>2, <1>3 DEF Proceeding
  <1>5. \A j \in Ran : j < Path[Len(calls)]
    BY <1>1, <1>2, <1>3 DEF InPreorder
  <1>6. ~Promise!Ended
    BY <1>1, PromisedEnd DEF Ending
  <1>7. Stored = {Path[k] : k \in {m \in 1 .. Len(calls) : Guards[m]}}
    BY <1>1, StoredAreGuarded
  <1>8. /\ Held(slots, Path, Guards, Len(calls))
        /\ \A k \in 1 .. Len(calls) : Guards[k] = calls[k].slot_guard
    BY <1>1, GuardedCalls
  <1>9. ~Guards[Len(calls)]
    BY <1>1, <1>2, <1>3, <1>8 DEF CallInv, CallsAreAPath
  <1>10. \A k \in 1 .. Len(calls) - 1 : Guards[k] <=> PayloadNode(plan, Path[k])
    BY <1>2, <1>3, <1>8 DEF Held, CallsAreServed, ActivationIsServed
  <1>11. /\ Promise!NextDue(Path[Len(calls)])
         /\ Stored = Promise!AncestorPayloads(Path[Len(calls)])
    <2>1. Following[Len(calls)] \in Nat
      BY <1>2
    <2>2. /\ plan \in Plans /\ IsWalk(Path, Ordinals, Len(calls)) /\ Len(calls) # 0
          /\ Frontier(outcome, Path, Following, Len(calls), TRUE)
      BY <1>2
    <2> QED BY <1>4, <1>5, <1>6, <1>7, <1>9, <1>10, <2>1, <2>2, EnteredIsPromised, Zenon
  <1> QED BY <1>2, <1>11

(* A task that reports is run as promised.                                 *)
LEMMA RunNodeIsPromised ==
  ASSUME PromiseInv, Running("enter"), NEW status \in Statuses, EnterNode(I, status),
         UNCHANGED <<plan, pc, result>>
  PROVE  Promise!Next
  <1>1. I \in nodes /\ Promise!NextDue(I) /\ Stored = Promise!AncestorPayloads(I)
    BY NodeIsPromised
  <1>2. Stored' = IF PayloadLive(I, status) THEN Stored \cup {I} ELSE Stored
    BY StoredAfterEntering DEF PromiseInv, ReadInv
  <1> QED BY <1>1, <1>2, ReportIsPromised

(* A task that throws does so as promised.                                 *)
LEMMA RunNodeThrowsAsPromised ==
  ASSUME PromiseInv, RunNodeThrows
  PROVE  Promise!Next
  <1>1. /\ Running("enter") /\ EnterNodeThrows(I) /\ plan' = plan /\ result' = "exception"
    BY DEF RunNodeThrows
  <1>2. I \in nodes /\ Promise!NextDue(I) /\ Stored = Promise!AncestorPayloads(I)
    BY <1>1, NodeIsPromised
  <1>3. Stored' = Stored /\ plan \in Plans
    BY <1>1, StoredAfterThrowing DEF PromiseInv, ReadInv, StorageInv, TypeInv, CallInv
  <1> QED BY <1>1, <1>2, <1>3, ThrowIsPromised

(* Staging throws before any child ran.                                    *)
LEMMA PrepareThrowsAsPromised ==
  ASSUME PromiseInv, PrepareThrows
  PROVE  Promise!Next
  <1>1. /\ pc = "dfs" /\ result # "exception" /\ calls # <<>> /\ returned = "none"
        /\ calls[top].phase = "prepare" /\ MayThrow /\ plan.staging[I]
        /\ result' = "exception" /\ UNCHANGED <<plan, slots, outcome>>
        /\ ReadInv
    BY DEF PrepareThrows, Running, storage, PromiseInv
  <1>2. /\ plan \in Plans /\ CallInv
        /\ Len(calls) \in Nat
        /\ \A k \in 1 .. Len(calls) :
             /\ Ordinals[k] = calls[k].ord
             /\ Following[k] = IF k < Len(calls) \/ returned # "none"
                                 THEN Ordinals[k] + 1 ELSE Ordinals[k]
    BY <1>1, PromisedCalls
  <1>3. /\ top = Len(calls) /\ Len(calls) \in 1 .. Len(calls)
        /\ Path[Len(calls)] = I /\ I \in nodes
    BY <1>1, <1>2, CallsAreAWalk
  <1>4. Following[Len(calls)] = 0
    <2>1. calls[Len(calls)].ord = 0
      BY <1>1, <1>2, <1>3 DEF CallInv, CallsAreAPath
    <2> QED BY <1>1, <1>2, <1>3, <2>1
  <1>5. outcome[I] = "success"
    BY <1>1, <1>3 DEF PromiseInv, Proceeding, Ending
  <1>6. \A o \in Nat : o < plan.child_counts[I] => \A j \in Ran : j < ChildAt(plan, I, o)
    <2>1. Ahead(Ran, Path, Following, Len(calls))
      BY <1>1 DEF ReadInv, InPreorder
    <2> QED BY <1>3, <1>4, <2>1 DEF Ahead
  <1>7. ~Promise!Ended
    BY <1>1, PromisedEnd DEF Ending
  <1> QED BY <1>1, <1>2, <1>3, <1>5, <1>6, <1>7, StagingThrowIsPromised

(* A guard releases a payload below which nothing is stored or due.        *)
LEMMA LeavingIsPromised ==
  ASSUME PromiseInv, Leaving
  PROVE  Promise!Next \/ UNCHANGED Promise!vars
  <1>1. StorageInv /\ OnlyPayloads /\ CallInv
    BY DEF PromiseInv, ReadInv, StorageInv, TypeInv
  <1>2. /\ calls # <<>> /\ pc = "dfs" /\ UNCHANGED <<plan, pc, result, outcome>>
    BY <1>1, LeavingPops
  <1>3. /\ Stored' = IF calls[top].slot_guard THEN Stored \ {I} ELSE Stored
        /\ calls[top].slot_guard => I \in Stored
    BY <1>1, StoredAfterLeaving
  <1>4. ReportedResult' = ReportedResult
    BY <1>2 DEF ReportedResult
  <1>5. CASE ~calls[top].slot_guard
    BY <1>2, <1>3, <1>4, <1>5 DEF Promise!vars
  <1>6. CASE calls[top].slot_guard
    <2>1. /\ plan \in Plans /\ Len(calls) # 0
          /\ IsWalk(Path, Ordinals, Len(calls)) /\ Path[Len(calls)] = I
      BY <1>1, <1>2, CallsAreAWalk
    <2>2. \A i \in Stored : \E k \in 1 .. Len(calls) : i = Path[k]
      <3>1. Stored = {Path[k] : k \in {m \in 1 .. Len(calls) : Guards[m]}}
        BY <1>1, <1>2, StoredAreGuarded
      <3> QED BY <3>1
    <2>3. Promise!Ended \/ \A j \in DueOf(outcome) : Path[Len(calls)] \notin RootPath(plan, j)
      <3>1. CASE ReturnSuccess
        <4>1. /\ \A k \in 1 .. Len(calls) - 1 : Following[k] = Ordinals[k] + 1
              /\ Following[Len(calls)] \in Nat
              /\ Following[Len(calls)] >= plan.child_counts[Path[Len(calls)]]
              /\ Frontier(outcome, Path, Following, Len(calls), FALSE)
          BY <3>1, PromisedReturn
        <4>2. SameStart(Path, Following, Len(calls) - 1, Path, Following)
          BY DEF SameStart
        <4>3. Frontier(outcome, Path, Following, Len(calls) - 1, FALSE)
          BY <2>1, <4>1, <4>2, LeavingKeepsFrontier
        <4> QED BY <2>1, <4>1, <4>3, NothingIsDueBelow
      <3>2. CASE ~ReturnSuccess
        <4>1. result = "exception" \/ returned \in Ending
          BY <1>1, <1>2, <3>2
             DEF Leaving, ReturnStep, Unwind, Returning, CallInv, Statuses, Ending
        <4> QED BY <4>1, PromisedEnd
      <3> QED BY <3>1, <3>2
    <2> QED BY <1>2, <1>3, <1>4, <1>6, <2>1, <2>2, <2>3, ReleaseIsPromised
  <1> QED BY <1>5, <1>6

(* Once the root has returned, nothing is due any more, and what it        *)
(* returned is the promise's verdict.                                      *)
LEMMA LeaveIsPromised ==
  ASSUME PromiseInv, Leave
  PROVE  Promise!Next \/ UNCHANGED Promise!vars
  <1>1. /\ StorageInv /\ CallInv /\ plan \in Plans /\ RunTypeOK /\ CleanupProgress
        /\ Sound(slots, live_slots) /\ LeaveRunPlan
    BY DEF PromiseInv, ReadInv, StorageInv, TypeInv, CallInv, Leave
  <1>2. pc # "dfs" /\ calls = <<>> /\ Len(calls) = 0
    BY <1>1, LeaveRunPlanIsTyped DEF CallInv
  <1>3. \A s \in 0 .. plan.n_slots - 1 : slots[s].obj = NoObject
    BY <1>1, <1>2, NothingIsLeftBehind DEF PromiseInv
  <1>4. ASSUME result # "exception"
        PROVE  /\ Promise!Ended \/ Promise!Due = {}
               /\ result = Promise!Verdict
    <2>1. /\ result = returned /\ returned \in Statuses
          /\ IF returned \in Ending THEN EndReported(returned) ELSE Proceeding
      BY <1>1, <1>2, <1>4 DEF PromiseInv, CallInv
    <2>2. CASE returned \in Ending
      <3>1. returned = Promise!Verdict
        BY <1>4, <2>1, <2>2, VerdictIsPromised
      <3> QED BY <1>4, <2>1, <2>2, <3>1, PromisedEnd
    <2>3. CASE returned \notin Ending
      <3>1. Frontier(outcome, Path, Following, 0, FALSE)
        BY <1>2, <2>1, <2>3 DEF Proceeding, Frontier, Entering
      <3>2. DueOf(outcome) = {}
        <4>1. \A j \in DueOf(outcome) : Pending(Path, Following, 0, j)
          BY <1>1, <3>1, DueIsPending
        <4> QED BY <4>1 DEF Pending
      <3>3. /\ \A i \in nodes : outcome[i] \notin Ending
            /\ returned = IF outcome[0] = "abort_branch" THEN "abort_branch" ELSE "success"
        BY <1>2, <2>1, <2>3 DEF Proceeding, Statuses, Ending
      <3>4. returned = Promise!Verdict
        BY <1>4, <2>3, <3>3, VerdictIsPromised
      <3> QED BY <2>1, <3>2, <3>4, PromisedState
    <2> QED BY <2>2, <2>3
  <1> QED BY <1>1, <1>3, <1>4, ReturnIsPromised

(* Every step of the executor is one of the promise's, or a stutter.       *)
LEMMA StepIsPromised ==
  ASSUME PromiseInv, [Next]_vars
  PROVE  [Promise!Next]_(Promise!vars)
  <1>1. CallInv
    BY DEF PromiseInv, ReadInv, StorageInv, TypeInv
  <1>2. CASE RunNodeSucceeds
    <2>1. /\ Running("enter") /\ EnterNode(I, "success") /\ UNCHANGED <<plan, pc, result>>
          /\ "success" \in Statuses
      BY <1>2 DEF RunNodeSucceeds, Statuses
    <2> QED BY <2>1, RunNodeIsPromised
  <1>3. CASE RunNodeFails
    <2>1. PICK status \in Statuses : EnterNode(I, status)
      BY <1>3 DEF RunNodeFails
    <2>2. Running("enter") /\ UNCHANGED <<plan, pc, result>>
      BY <1>3 DEF RunNodeFails
    <2> QED BY <2>1, <2>2, RunNodeIsPromised
  <1>4. CASE RunNodeThrows
    BY <1>4, RunNodeThrowsAsPromised
  <1>5. CASE Prepare \/ CallChild \/ NextChild
    <2>1. UNCHANGED <<plan, outcome, slots, result, pc>>
      BY <1>5 DEF Prepare, CallChild, NextChild, run_vars
    <2> QED BY <2>1, StutterIsPromised
  <1>6. CASE Leaving
    BY <1>6, LeavingIsPromised
  <1>7. CASE Leave
    BY <1>7, LeaveIsPromised
  <1>8. CASE PrepareThrows
    BY <1>8, PrepareThrowsAsPromised
  <1>9. CASE ReturnFromRoot
    <2>1. /\ UNCHANGED <<plan, outcome, slots>> /\ pc = "dfs" /\ pc' = "fanout_dtor"
          /\ result' = returned
      BY <1>9 DEF ReturnFromRoot, storage
    <2>2. returned # "exception"
      BY <1>1 DEF CallInv, Statuses
    <2>3. result # "exception"
      BY <1>1, <1>9 DEF CallInv, ReturnFromRoot
    <2>4. Stored' = Stored /\ ReportedResult' = ReportedResult
      BY <2>1, <2>2, <2>3 DEF Stored, ReportedResult
    <2> QED BY <2>1, <2>4 DEF Promise!vars
  <1>10. CASE Unwind /\ calls = <<>>
    <2>1. UNCHANGED <<plan, outcome, slots, result>> /\ result = "exception"
      BY <1>10 DEF Unwind, storage
    <2> QED BY <2>1, StutterIsPromised
  <1>11. CASE Done \/ UNCHANGED vars
    <2>1. UNCHANGED <<plan, outcome, slots, result, pc>>
      BY <1>11 DEF Done, vars, run_vars
    <2> QED BY <2>1, StutterIsPromised
  <1> QED BY <1>2, <1>3, <1>4, <1>5, <1>6, <1>7, <1>8, <1>9, <1>10, <1>11, StepsOfTheRun
          DEF Failing, Standing

(* The recursive executor keeps the promise of PlanRun: for plans of any   *)
(* size and shape, tasks run in order below tasks that succeeded, each     *)
(* sees exactly its ancestors' payloads, payloads are released children    *)
(* first once nothing below can run, and the verdict is that of the one    *)
(* task that ended the run, if any did.                                    *)
THEOREM RecursionKeepsThePromise == Spec => ImplementsPlanRun
  <1>1. PromiseInv /\ [Next]_vars => [Promise!Next]_(Promise!vars)
    BY StepIsPromised
  <1>2. Init => Promise!Init
    BY RunInitIsPromised DEF Init
  <1> QED BY <1>1, <1>2, PromiseInvHolds, PTL DEF Spec, ImplementsPlanRun, Promise!Spec

-------------------------------------------------------------------------------
(* How long a run can take.                                                *)

(* What is left to do where control is, before it enters, leaves or goes   *)
(* back to another activation: a stack that unwinds, one that is returned  *)
(* to, or one whose top is about to enter, to prepare or to go on.         *)
Work ==
  IF result = "exception" THEN 3
  ELSE IF returned # "none" THEN 4
  ELSE IF calls[Len(calls)].phase = "enter" THEN 0
  ELSE IF calls[Len(calls)].phase = "prepare" THEN 4
  ELSE 3

(* A bound on the steps still to come: five for each task that has not     *)
(* run, two for each activation, and the work at hand.                     *)
StepsLeft ==
  IF pc = "dfs" THEN plan.n + 5 * Cardinality(NotYetRun) + 2 * Len(calls) + Work
  ELSE StepsToLeave

(* The bound is a number of steps.                                         *)
LEMMA StepsLeftInNat ==
  ASSUME ReadInv
  PROVE  /\ plan \in Plans /\ plan.n \in Nat
         /\ Cardinality(NotYetRun) \in Nat
         /\ Len(calls) \in Nat
         /\ Work \in {0, 3, 4}
         /\ StepsLeft \in Nat
         /\ RunTypeOK /\ CallInv
  <1>1. plan \in Plans /\ RunTypeOK /\ CallInv
    BY DEF ReadInv, StorageInv, TypeInv, CallInv
  <1>2. /\ plan.n \in Nat /\ Cardinality(NotYetRun) \in Nat /\ StepsToLeave \in Nat
        /\ Len(calls) \in Nat
    BY <1>1, RootIsANode, CountOfNotYetRun, LeavingCountsDown, CallsAreAWalk
  <1>3. Work \in {0, 3, 4}
    BY DEF Work
  <1>4. StepsLeft \in Nat
    BY <1>2, <1>3 DEF StepsLeft
  <1> QED BY <1>1, <1>2, <1>3, <1>4

(* While the executor runs, what a step leaves to be done depends on the   *)
(* tasks run, the number of activations and the work at hand.              *)
LEMMA StepsLeftInCalls ==
  ASSUME ReadInv, pc = "dfs", pc' = "dfs", plan' = plan,
         NEW ran \in Nat, Cardinality(NotYetRun)' = Cardinality(NotYetRun) - ran,
         NEW len \in Int, Len(calls') = Len(calls) + len,
         NEW work \in Nat, Work' = work, work + 2 * len < 5 * ran + Work
  PROVE  StepsLeft' < StepsLeft
  <1> DEFINE u == Cardinality(NotYetRun)
  <1>1. plan.n \in Nat /\ u \in Nat /\ Len(calls) \in Nat /\ Work \in {0, 3, 4}
    BY StepsLeftInNat
  <1>2. StepsLeft = plan.n + 5 * u + 2 * Len(calls) + Work
    BY DEF StepsLeft
  <1>3. StepsLeft' = plan.n + 5 * (u - ran) + 2 * (Len(calls) + len) + work
    BY DEF StepsLeft
  <1> HIDE DEF u
  <1> QED BY <1>1, <1>2, <1>3

(* Every step leaves fewer steps than there were.                          *)
LEMMA StepMakesProgress ==
  ASSUME ReadInv, Step
  PROVE  StepsLeft' < StepsLeft
  <1>0. /\ plan \in Plans /\ RunTypeOK /\ CallInv /\ plan.n \in Nat
        /\ Cardinality(NotYetRun) \in Nat /\ Len(calls) \in Nat
        /\ Work' \in {0, 3, 4} /\ Work \in {0, 3, 4}
        /\ outcome \in [nodes -> Statuses \cup {"none", "threw"}]
    BY StepsLeftInNat DEF Work, RunTypeOK
  <1>1. ASSUME pc = "dfs", result # "exception", calls # <<>>, calls[top].phase = "enter"
        PROVE  I \in nodes /\ I \notin Ran
    <2>1. Len(calls) # 0 /\ top = Len(calls) /\ I = Path[Len(calls)] /\ I \in nodes
      BY <1>0, <1>1, CallsAreAWalk
    <2>2. \A j \in Ran : j < I
      BY <1>1, <2>1 DEF ReadInv, InPreorder
    <2>3. I \in Int
      BY <1>0, <2>1, RootIsANode
    <2> QED BY <2>1, <2>2, <2>3
  <1>2. CASE RunNodeSucceeds
    <2>1. /\ calls # <<>> /\ top = Len(calls) /\ pc = "dfs" /\ result # "exception"
          /\ returned = "none" /\ returned' = "none" /\ calls[top].phase = "enter"
          /\ UNCHANGED <<plan, pc, result>> /\ EnterNode(I, "success")
      BY <1>0, <1>2, Succeeding
    <2>2. Cardinality(NotYetRun)' = Cardinality(NotYetRun) - 1
      <3>1. "success" \in Statuses
        BY DEF Statuses
      <3> QED BY <1>0, <1>1, <2>1, <3>1, RunningCountsOff DEF EnterNode
    <2>3. Len(calls') = Len(calls) + 0 /\ calls'[Len(calls)].phase = "prepare"
      BY <1>0, <1>2, Succeeding DEF TopMoves
    <2>4. Work = 0 /\ Work' = 4
      BY <2>1, <2>3 DEF Work
    <2> QED BY <2>1, <2>2, <2>3, <2>4, StepsLeftInCalls
  <1>3. CASE Failing
    <2>1. /\ calls # <<>> /\ top = Len(calls) /\ pc = "dfs" /\ result # "exception"
          /\ returned = "none" /\ calls[top].phase = "enter"
          /\ UNCHANGED <<plan, pc>>
          /\ \E report \in Statuses \cup {"threw"} : outcome' = [outcome EXCEPT ![I] = report]
      BY <1>0, <1>3, FailingPops DEF EnterNode, EnterNodeThrows
    <2>2. Cardinality(NotYetRun)' = Cardinality(NotYetRun) - 1
      BY <1>0, <1>1, <2>1, RunningCountsOff
    <2>3. Len(calls') = Len(calls) + (-1)
      BY <1>0, <1>3, FailingPops DEF TopLeaves
    <2>4. PICK work \in {0, 3, 4} : Work' = work
      BY <1>0
    <2>5. Work = 0
      BY <2>1 DEF Work
    <2> QED BY <2>1, <2>2, <2>3, <2>4, <2>5, StepsLeftInCalls
  <1>4. CASE Prepare
    <2>1. /\ calls # <<>> /\ top = Len(calls) /\ pc = "dfs" /\ result # "exception"
          /\ returned = "none" /\ returned' = "none" /\ calls[top].phase = "prepare"
          /\ UNCHANGED <<plan, pc, result, outcome>>
          /\ Len(calls') = Len(calls) + 0 /\ calls'[Len(calls)].phase = "children"
      BY <1>0, <1>4, Preparing DEF TopMoves
    <2>2. Cardinality(NotYetRun)' = Cardinality(NotYetRun) - 0
      BY <1>0, <2>1, CountOfNotYetRun
    <2>3. Work = 4 /\ Work' = 3
      BY <2>1 DEF Work
    <2> QED BY <2>1, <2>2, <2>3, StepsLeftInCalls
  <1>5. CASE CallChild
    <2>1. /\ pc = "dfs" /\ pc' = "dfs" /\ result # "exception" /\ calls # <<>>
          /\ UNCHANGED <<plan, result, outcome, returned>> /\ returned = "none"
          /\ calls[top].phase = "children"
      BY <1>5 DEF CallChild, Running, run_vars
    <2>2. PICK i : calls' = Append(calls, Activation(i))
      BY <1>5 DEF CallChild
    <2>3. top = Len(calls) /\ calls \in Seq(ActivationType)
      BY <1>0, <2>1, CallsAreAWalk DEF CallInv
    <2>4. Len(calls') = Len(calls) + 1 /\ calls'[Len(calls')] = Activation(i)
      BY <2>2, <2>3
    <2>5. Cardinality(NotYetRun)' = Cardinality(NotYetRun) - 0
      BY <1>0, <2>1, CountOfNotYetRun
    <2>6. Work = 3 /\ Work' = 0
      BY <2>1, <2>3, <2>4 DEF Work, Activation
    <2> QED BY <2>1, <2>4, <2>5, <2>6, StepsLeftInCalls
  <1>6. CASE NextChild
    <2>1. /\ pc = "dfs" /\ result # "exception" /\ returned # "none" /\ returned' = "none"
          /\ UNCHANGED <<plan, pc, result, outcome>>
          /\ Len(calls') = Len(calls) + 0 /\ calls'[Len(calls)].phase = "children"
      BY <1>0, <1>6, Advancing DEF TopMoves
    <2>2. Cardinality(NotYetRun)' = Cardinality(NotYetRun) - 0
      BY <1>0, <2>1, CountOfNotYetRun
    <2>3. Work = 4 /\ Work' = 3
      BY <2>1 DEF Work
    <2> QED BY <2>1, <2>2, <2>3, StepsLeftInCalls
  <1>7. CASE Leaving
    <2>1. /\ pc = "dfs" /\ UNCHANGED <<plan, pc, result, outcome>>
          /\ \/ result # "exception" /\ returned' # "none"
             \/ result = "exception"
      BY <1>0, <1>7, LeavingPops
    <2>2. Len(calls') = Len(calls) + (-1)
      BY <1>0, <1>7, LeavingPops DEF TopLeaves
    <2>3. Cardinality(NotYetRun)' = Cardinality(NotYetRun) - 0
      BY <1>0, <2>1, CountOfNotYetRun
    <2>4. CASE result = "exception"
      <3>1. Work = 3 /\ Work' = 3
        BY <2>1, <2>4 DEF Work
      <3> QED BY <2>1, <2>2, <2>3, <3>1, StepsLeftInCalls
    <2>5. CASE result # "exception"
      <3>1. Work \in {3, 4} /\ Work' = 4
        <4>1. ReturnSuccess \/ ReturnStep
          BY <1>7, <2>5 DEF Leaving, Unwind
        <4>2. calls[top].phase # "enter" \/ returned # "none"
          BY <4>1 DEF ReturnSuccess, ReturnStep, Running, Returning
        <4>3. top = Len(calls)
          BY DEF top
        <4> QED BY <2>1, <2>5, <4>2, <4>3 DEF Work
      <3> QED BY <2>1, <2>2, <2>3, <3>1, StepsLeftInCalls
    <2> QED BY <2>4, <2>5
  <1>8. CASE ReturnFromRoot \/ (Unwind /\ calls = <<>>)
    <2>1. pc = "dfs" /\ pc' = "fanout_dtor" /\ plan' = plan /\ Work \in {3, 4}
      BY <1>8 DEF ReturnFromRoot, Unwind, Work
    <2>2. StepsLeft = plan.n + 5 * Cardinality(NotYetRun) + 2 * Len(calls) + Work
      BY <2>1 DEF StepsLeft
    <2>3. StepsLeft' = plan.n + 1
      BY <2>1 DEF StepsLeft, StepsToLeave
    <2> QED BY <1>0, <2>1, <2>2, <2>3
  <1>9. CASE PrepareThrows
    <2>1. /\ pc = "dfs" /\ UNCHANGED <<plan, pc, outcome, calls>> /\ result' = "exception"
          /\ result # "exception" /\ returned = "none" /\ calls[top].phase = "prepare"
      BY <1>9 DEF PrepareThrows, Running, run_vars
    <2>2. Cardinality(NotYetRun)' = Cardinality(NotYetRun)
      BY <1>0, <2>1, CountOfNotYetRun
    <2>3. Work = 4 /\ Work' = 3
      BY <2>1 DEF Work, top
    <2>4. /\ StepsLeft = plan.n + 5 * Cardinality(NotYetRun) + 2 * Len(calls) + 4
          /\ StepsLeft' = plan.n + 5 * Cardinality(NotYetRun) + 2 * Len(calls) + 3
      BY <2>1, <2>2, <2>3 DEF StepsLeft
    <2> QED BY <1>0, <2>4
  <1>10. CASE Leave
    BY <1>0, <1>10, LeavingCountsDown DEF Leave, StepsLeft
  <1>11. ReturnSuccess \/ ReturnStep => calls # <<>>
    BY DEF ReturnSuccess, ReturnStep, Running, Returning
  <1> QED
    BY <1>2, <1>3, <1>4, <1>5, <1>6, <1>7, <1>8, <1>9, <1>10, <1>11 DEF Step, Failing, Leaving

(* A run of n nodes takes at most 6 n + 2 steps, whatever its tasks report *)
(* and wherever an exception is thrown, unwinding included: every step     *)
(* leaves fewer to take.  With a thread that keeps running this is why     *)
(* every run ends.                                                         *)
THEOREM RecursionTakesFewSteps ==
  Spec => /\ StepsLeft = 6 * plan.n + 2
          /\ []( StepsLeft \in Nat )
          /\ [][StepsLeft' < StepsLeft]_vars
  <1>1. Init => StepsLeft = 6 * plan.n + 2
    <2> SUFFICES ASSUME Init PROVE StepsLeft = 6 * plan.n + 2
      OBVIOUS
    <2>1. /\ plan \in Plans /\ pc = "dfs" /\ RunInit /\ calls = <<Activation(0)>>
          /\ returned = "none" /\ result = "none"
      BY DEF Init, RunInit
    <2>2. Cardinality(NotYetRun) = plan.n /\ plan.n \in Nat
      BY <2>1, CountOfNotYetRun, RootIsANode
    <2>3. Len(calls) = 1 /\ Work = 0
      BY <2>1 DEF Work, Activation
    <2> QED BY <2>1, <2>2, <2>3 DEF StepsLeft
  <1>2. ReadInv => StepsLeft \in Nat
    BY StepsLeftInNat
  <1>3. ReadInv /\ [Next]_vars => [StepsLeft' < StepsLeft]_vars
    BY StepMakesProgress DEF Next, Done
  <1>4. Spec => []ReadInv
    BY PromiseInvHolds, PTL DEF PromiseInv
  <1> QED BY <1>1, <1>2, <1>3, <1>4, PTL DEF Spec

===============================================================================
