----------------------- MODULE ExplicitHeapStackProofs ------------------------
(***************************************************************************)
(* Proofs about the explicit-heap-stack executor, for every set Plans of   *)
(* well-formed plans and both settings of MayThrow.                        *)
(*                                                                         *)
(* Four inductive invariants, each resting on the one before: FrameInv is  *)
(* about the frame vector, StorageInv about what the slots hold, ReadInv   *)
(* about what tasks find there, and PromiseInv about which tasks are still *)
(* due.  The last one gives the refinement of PlanRun, and a bound on the  *)
(* number of steps a run can take.  The frame vector is a walk of          *)
(* RunPlanProofs, which holds what both executors need.                    *)
(***************************************************************************)
EXTENDS ExplicitHeapStack, RunPlanProofs

-------------------------------------------------------------------------------
(* The frame vector.                                                       *)

(* Every frame the loop pushes is well typed.                              *)
LEMMA FrameIsTyped ==
  ASSUME plan \in Plans, NEW i \in nodes
  PROVE  Frame(i) \in FrameType
  <1>1. plan.staging[i] \in BOOLEAN
    BY WellFormedPlan DEF TasksWellFormed, nodes, RequiresFanoutStaging
  <1> QED BY <1>1 DEF Frame, FrameType

(* While there are frames, the top one is a frame of some node.            *)
LEMMA TopFrame ==
  ASSUME frames \in Seq(FrameType), frames # <<>>
  PROVE  /\ top \in 1 .. Len(frames)
         /\ Len(frames) \in Nat \ {0}
         /\ frames[top] \in FrameType
         /\ Node \in nodes
         /\ frames[top].next_child_ordinal \in Nat
  <1>1. Len(frames) \in Nat \ {0}
    BY EmptySeq
  <1>2. top \in 1 .. Len(frames)
    BY <1>1 DEF top
  <1>3. frames[top] \in FrameType
    BY <1>2, ElementOfSeq
  <1> QED BY <1>1, <1>2, <1>3 DEF Node, FrameType

(* Rewriting the top frame changes nothing else of the vector.             *)
LEMMA RewrittenTop ==
  ASSUME frames \in Seq(FrameType), frames # <<>>, plan' = plan,
         NEW f \in FrameType, frames' = [frames EXCEPT ![top] = f]
  PROVE  /\ frames' \in Seq(FrameType)'
         /\ Len(frames') = Len(frames)
         /\ frames' # <<>>
         /\ \A k \in 1 .. Len(frames) : frames'[k] = IF k = top THEN f ELSE frames[k]
  <1>1. top \in 1 .. Len(frames) /\ Len(frames) \in Nat \ {0}
    BY TopFrame
  <1>2. FrameType' = FrameType
    BY DEF FrameType, nodes
  <1>3. /\ frames' \in Seq(FrameType)
        /\ Len(frames') = Len(frames)
        /\ \A k \in 1 .. Len(frames) : frames'[k] = IF k = top THEN f ELSE frames[k]
    BY <1>1, SequenceUpdate
  <1>4. frames' # <<>>
    BY <1>1, <1>3, EmptySeq
  <1> QED BY <1>2, <1>3, <1>4

(* Entering the top node marks its frame.                                  *)
LEMMA EnteredTop ==
  ASSUME frames \in Seq(FrameType), frames # <<>>, plan' = plan, NEW live \in BOOLEAN,
         frames' = [frames EXCEPT ![top].entered = TRUE, ![top].payload_live = live]
  PROVE  /\ frames' \in Seq(FrameType)'
         /\ Len(frames') = Len(frames)
         /\ frames' # <<>>
         /\ \A k \in 1 .. Len(frames) : k # top => frames'[k] = frames[k]
         /\ frames'[top] = [frames[top] EXCEPT !.entered = TRUE, !.payload_live = live]
  <1>1. top \in 1 .. Len(frames) /\ frames[top] \in FrameType
    BY TopFrame
  <1>2. frames \in [1 .. Len(frames) -> FrameType]
    BY LenProperties
  <1>3. [frames[top] EXCEPT !.entered = TRUE, !.payload_live = live] \in FrameType
    BY <1>1 DEF FrameType
  <1>4. PICK f \in FrameType : f = [frames[top] EXCEPT !.entered = TRUE, !.payload_live = live]
    BY <1>3
  <1>5. frames' = [frames EXCEPT ![top] = f]
    BY <1>1, <1>2, <1>4
  <1> QED BY <1>1, <1>4, <1>5, RewrittenTop

(* Preparing the top frame's fan-out marks the frame.                      *)
LEMMA PreparedTop ==
  ASSUME frames \in Seq(FrameType), frames # <<>>, plan' = plan,
         frames' = [frames EXCEPT ![top].fanout_prepared = TRUE]
  PROVE  /\ frames' \in Seq(FrameType)'
         /\ Len(frames') = Len(frames)
         /\ frames' # <<>>
         /\ \A k \in 1 .. Len(frames) : k # top => frames'[k] = frames[k]
         /\ frames'[top] = [frames[top] EXCEPT !.fanout_prepared = TRUE]
  <1>1. top \in 1 .. Len(frames) /\ frames[top] \in FrameType
    BY TopFrame
  <1>2. frames \in [1 .. Len(frames) -> FrameType]
    BY LenProperties
  <1>3. [frames[top] EXCEPT !.fanout_prepared = TRUE] \in FrameType
    BY <1>1 DEF FrameType
  <1>4. PICK f \in FrameType : f = [frames[top] EXCEPT !.fanout_prepared = TRUE]
    BY <1>3
  <1>5. frames' = [frames EXCEPT ![top] = f]
    BY <1>1, <1>2, <1>4
  <1> QED BY <1>1, <1>4, <1>5, RewrittenTop

(* Descending pushes the frame of a node.                                  *)
LEMMA PushedFrame ==
  ASSUME plan \in Plans, frames \in Seq(FrameType), frames # <<>>, plan' = plan,
         NEW i \in nodes, frames' = Append(frames, Frame(i))
  PROVE  /\ frames' \in Seq(FrameType)'
         /\ Len(frames') = Len(frames) + 1
         /\ frames' # <<>>
         /\ \A k \in 1 .. Len(frames) : frames'[k] = frames[k]
         /\ frames'[Len(frames) + 1] = Frame(i)
  <1>1. Frame(i) \in FrameType
    BY FrameIsTyped
  <1>2. FrameType' = FrameType
    BY DEF FrameType, nodes
  <1> QED BY <1>1, <1>2, AppendProperties

(* Leaving pops the top frame, and may advance its parent's ordinal.       *)
LEMMA PoppedFrame ==
  ASSUME frames \in Seq(FrameType), Len(frames) > 1, plan' = plan,
         frames' = SubSeq(frames, 1, top - 1)
  PROVE  /\ frames' \in Seq(FrameType)'
         /\ Len(frames') = Len(frames) - 1
         /\ frames' # <<>>
         /\ \A k \in 1 .. Len(frames) - 1 : frames'[k] = frames[k]
  <1>1. Len(frames) \in Nat /\ \A k \in 1 .. Len(frames) : frames[k] \in FrameType
    BY LenProperties, ElementOfSeq
  <1>2. FrameType' = FrameType
    BY DEF FrameType, nodes
  <1>3. /\ SubSeq(frames, 1, top - 1) \in Seq(FrameType)
        /\ Len(SubSeq(frames, 1, top - 1)) = Len(frames) - 1
        /\ \A k \in 1 .. Len(frames) - 1 : SubSeq(frames, 1, top - 1)[k] = frames[k]
    BY <1>1, SubSeqProperties DEF top
  <1>4. SubSeq(frames, 1, top - 1) # <<>>
    BY <1>1, <1>3, EmptySeq
  <1> QED BY <1>2, <1>3, <1>4

(* Popping and advancing the parent's ordinal changes only that ordinal.   *)
LEMMA PoppedAndAdvanced ==
  ASSUME frames \in Seq(FrameType), Len(frames) > 1, plan' = plan, NEW ord \in Nat,
         frames' = [SubSeq(frames, 1, top - 1) EXCEPT ![top - 1].next_child_ordinal = ord]
  PROVE  /\ frames' \in Seq(FrameType)'
         /\ Len(frames') = Len(frames) - 1
         /\ frames' # <<>>
         /\ \A k \in 1 .. Len(frames) - 1 : k # top - 1 => frames'[k] = frames[k]
         /\ frames'[top - 1] = [frames[top - 1] EXCEPT !.next_child_ordinal = ord]
  <1> DEFINE popped == SubSeq(frames, 1, top - 1)
  <1>1. Len(frames) \in Nat /\ \A k \in 1 .. Len(frames) : frames[k] \in FrameType
    BY LenProperties, ElementOfSeq
  <1>2. FrameType' = FrameType
    BY DEF FrameType, nodes
  <1>3. /\ popped \in Seq(FrameType)
        /\ Len(popped) = Len(frames) - 1
        /\ \A k \in 1 .. Len(frames) - 1 : popped[k] = frames[k]
    BY <1>1, SubSeqProperties DEF top
  <1>4. PICK rest \in Seq(FrameType) : rest = popped
    BY <1>3
  <1>5. /\ Len(rest) = Len(frames) - 1
        /\ \A k \in 1 .. Len(frames) - 1 : rest[k] = frames[k]
        /\ frames' = [rest EXCEPT ![top - 1].next_child_ordinal = ord]
    BY <1>3, <1>4
  <1> HIDE DEF popped
  <1>6. /\ rest \in [1 .. Len(rest) -> FrameType]
        /\ top - 1 \in 1 .. Len(rest)
        /\ rest[top - 1] = frames[top - 1]
    BY <1>1, <1>5, LenProperties DEF top
  <1>7. [frames[top - 1] EXCEPT !.next_child_ordinal = ord] \in FrameType
    BY <1>6 DEF FrameType
  <1>8. PICK f \in FrameType : f = [frames[top - 1] EXCEPT !.next_child_ordinal = ord]
    BY <1>7
  <1>9. frames' = [rest EXCEPT ![top - 1] = f]
    BY <1>5, <1>6, <1>8
  <1>10. /\ frames' \in Seq(FrameType)
         /\ Len(frames') = Len(rest)
         /\ \A k \in 1 .. Len(rest) : frames'[k] = IF k = top - 1 THEN f ELSE rest[k]
    BY <1>6, <1>9, SequenceUpdate
  <1>11. frames' # <<>>
    BY <1>1, <1>5, <1>10, EmptySeq
  <1> QED BY <1>1, <1>2, <1>5, <1>6, <1>8, <1>10, <1>11

-------------------------------------------------------------------------------
(* The frame vector follows the tree.                                      *)

FrameInv ==
  /\ plan \in Plans
  /\ frames \in Seq(FrameType)
  /\ FramesAreAPath

(* The frames as a walk: its nodes, and the children it goes on to.        *)
Path     == [k \in 1 .. Len(frames) |-> frames[k].node_index]
Ordinals == [k \in 1 .. Len(frames) |-> frames[k].next_child_ordinal]

(* The frame vector is a walk from the root.                               *)
LEMMA FramesAreAWalk ==
  ASSUME FrameInv
  PROVE  /\ IsWalk(Path, Ordinals, Len(frames))
         /\ plan \in Plans
         /\ Len(frames) \in Nat
         /\ \A k \in 1 .. Len(frames) : frames[k] \in FrameType
  <1>1. Len(frames) \in Nat /\ \A k \in 1 .. Len(frames) : frames[k] \in FrameType
    BY LenProperties, ElementOfSeq DEF FrameInv
  <1>2. \A k \in 1 .. Len(frames) : Path[k] \in nodes /\ Ordinals[k] \in Nat
    BY <1>1 DEF Path, Ordinals, FrameType
  <1>3. Len(frames) # 0 => Path[1] = 0
    BY <1>1, EmptySeq DEF FrameInv, FramesAreAPath, Path
  <1>4. \A k \in 1 .. Len(frames) - 1 :
          /\ Ordinals[k] < plan.child_counts[Path[k]]
          /\ Path[k + 1] = ChildAt(plan, Path[k], Ordinals[k])
    BY <1>1 DEF FrameInv, FramesAreAPath, Path, Ordinals
  <1> QED BY <1>1, <1>2, <1>3, <1>4 DEF IsWalk, FrameInv

(* The loop starts with the root's frame alone.                            *)
LEMMA FrameInvInit == Init => FrameInv
  <1> SUFFICES ASSUME Init PROVE FrameInv
    OBVIOUS
  <1>1. plan \in Plans /\ frames = <<Frame(0)>>
    BY DEF Init, RunInit
  <1>2. Frame(0) \in FrameType
    BY <1>1, RootIsANode, FrameIsTyped
  <1>3. frames \in Seq(FrameType) /\ Len(frames) = 1 /\ frames[1] = Frame(0)
    BY <1>1, <1>2
  <1>4. plan.child_counts[0] \in Nat
    BY <1>1, WellFormedPlan, RootIsANode DEF TreeWellFormed, nodes
  <1> QED BY <1>1, <1>3, <1>4 DEF FrameInv, FramesAreAPath, Frame

(* A vector that repeats node and ordinal of every frame still is a path.  *)
LEMMA MarkingKeepsFrameInv ==
  ASSUME FrameInv, plan' = plan, frames # <<>>, frames' # <<>>,
         frames' \in Seq(FrameType)', Len(frames') = Len(frames),
         \A k \in 1 .. Len(frames) : k # top => frames'[k] = frames[k],
         frames'[top].node_index = frames[top].node_index,
         frames'[top].next_child_ordinal = frames[top].next_child_ordinal
  PROVE  FrameInv'
  <1>1. top \in 1 .. Len(frames) /\ Len(frames) \in Nat \ {0}
    BY TopFrame DEF FrameInv
  <1>2. \A k \in 1 .. Len(frames) :
          /\ frames'[k].node_index = frames[k].node_index
          /\ frames'[k].next_child_ordinal = frames[k].next_child_ordinal
    BY <1>1
  <1>3. \A k \in 1 .. Len(frames) - 1 : frames'[k] = frames[k]
    BY <1>1 DEF top
  <1>4. FramesAreAPath'
    BY <1>1, <1>2, <1>3 DEF FrameInv, FramesAreAPath
  <1> QED BY <1>4 DEF FrameInv

(* Pushing the child that the top frame's ordinal selects extends the path.*)
LEMMA DescendKeepsFrameInv ==
  ASSUME FrameInv, Descend
  PROVE  /\ FrameInv'
         /\ \E c \in nodes :
              /\ c = ChildAt(plan, Node, frames[top].next_child_ordinal)
              /\ Len(frames') = Len(frames) + 1
              /\ \A k \in 1 .. Len(frames) : frames'[k] = frames[k]
              /\ frames'[Len(frames) + 1] = Frame(c)
         /\ frames[top].next_child_ordinal < plan.child_counts[Node]
  <1> DEFINE child == ChildAt(plan, Node, frames[top].next_child_ordinal)
  <1>1. /\ plan' = plan
        /\ frames # <<>>
        /\ frames[top].entered
        /\ frames[top].next_child_ordinal # plan.child_counts[Node]
        /\ frames' = Append(frames, Frame(child))
    BY DEF Descend, Descending, run_vars
  <1>2. /\ top \in 1 .. Len(frames)
        /\ Len(frames) \in Nat \ {0}
        /\ Node \in nodes
        /\ frames[top].next_child_ordinal \in Nat
    BY <1>1, TopFrame DEF FrameInv
  <1>3. plan.child_counts[Node] \in Nat
    BY <1>2, WellFormedPlan DEF FrameInv, TreeWellFormed, nodes
  <1>4. frames[top].next_child_ordinal < plan.child_counts[Node]
    BY <1>1, <1>2, <1>3 DEF FrameInv, FramesAreAPath, Node
  <1>5. /\ child \in nodes
        /\ plan.child_counts[child] \in Nat
    BY <1>2, <1>4, ChildIsANode DEF FrameInv
  <1>6. PICK c \in nodes : c = child
    BY <1>5
  <1>7. /\ frames' \in Seq(FrameType)'
        /\ Len(frames') = Len(frames) + 1
        /\ frames' # <<>>
        /\ \A k \in 1 .. Len(frames) : frames'[k] = frames[k]
        /\ frames'[Len(frames) + 1] = Frame(c)
    BY <1>1, <1>6, PushedFrame DEF FrameInv
  <1>8. /\ Frame(c).node_index = c
        /\ Frame(c).next_child_ordinal = 0
    BY DEF Frame
  <1>9. FramesAreAPath'
    BY <1>1, <1>2, <1>4, <1>5, <1>6, <1>7, <1>8 DEF FrameInv, FramesAreAPath, Node, top
  <1> QED BY <1>1, <1>4, <1>6, <1>7, <1>9 DEF FrameInv

(* Dropping the top frame leaves a path, if its parent's ordinal does not  *)
(* pass the child count.                                                   *)
LEMMA PoppingKeepsFrameInv ==
  ASSUME FrameInv, plan' = plan, Len(frames) > 1,
         frames' \in Seq(FrameType)', Len(frames') = Len(frames) - 1, frames' # <<>>,
         \A k \in 1 .. Len(frames) - 1 : k # top - 1 => frames'[k] = frames[k],
         frames'[top - 1].node_index = frames[top - 1].node_index,
         frames'[top - 1].next_child_ordinal
           <= plan.child_counts[frames[top - 1].node_index]
  PROVE  FrameInv'
  <1>1. Len(frames) \in Nat /\ top - 1 \in 1 .. Len(frames) - 1
    BY LenProperties DEF FrameInv, top
  <1>2. /\ \A k \in 1 .. Len(frames) - 2 : frames'[k] = frames[k]
        /\ \A k \in 1 .. Len(frames) - 1 : frames'[k].node_index = frames[k].node_index
    BY <1>1 DEF top
  <1>3. FramesAreAPath'
    <2>1. frames'[1].node_index = 0
      BY <1>1, <1>2 DEF FrameInv, FramesAreAPath
    <2>2. \A k \in 1 .. Len(frames) - 1 :
            frames'[k].next_child_ordinal <= plan.child_counts[frames'[k].node_index]
      BY <1>1, <1>2 DEF FrameInv, FramesAreAPath, top
    <2>3. \A k \in 1 .. Len(frames) - 2 :
            /\ frames'[k].entered
            /\ frames'[k].next_child_ordinal < plan.child_counts[frames'[k].node_index]
            /\ frames'[k + 1].node_index =
                 ChildAt(plan, frames'[k].node_index, frames'[k].next_child_ordinal)
      BY <1>1, <1>2 DEF FrameInv, FramesAreAPath
    <2> QED BY <1>1, <2>1, <2>2, <2>3 DEF FramesAreAPath
  <1> QED BY <1>3 DEF FrameInv

(* What popping leaves of the frames below the top one.                    *)
BelowTopKept ==
  /\ Len(frames') = Len(frames) - 1
  /\ \A k \in 1 .. Len(frames) - 1 :
       /\ frames'[k].node_index = frames[k].node_index
       /\ frames'[k].entered = frames[k].entered
       /\ frames'[k].payload_live = frames[k].payload_live
       /\ frames'[k].requires_fanout_staging = frames[k].requires_fanout_staging
       /\ frames'[k].fanout_prepared = frames[k].fanout_prepared
  /\ \A k \in 1 .. Len(frames) - 2 :
       frames'[k].next_child_ordinal = frames[k].next_child_ordinal

(* Popping alone leaves the parent's ordinal where it was.                 *)
LEMMA UnwindKeepsFrameInv ==
  ASSUME FrameInv, plan' = plan, Len(frames) > 1,
         frames' = SubSeq(frames, 1, top - 1)
  PROVE  /\ FrameInv'
         /\ BelowTopKept
         /\ frames'[top - 1].next_child_ordinal = frames[top - 1].next_child_ordinal
  <1>1. /\ frames' \in Seq(FrameType)'
        /\ Len(frames') = Len(frames) - 1
        /\ frames' # <<>>
        /\ \A k \in 1 .. Len(frames) - 1 : frames'[k] = frames[k]
    BY PoppedFrame DEF FrameInv
  <1>2. Len(frames) \in Nat /\ top - 1 \in 1 .. Len(frames) - 1
    BY LenProperties DEF FrameInv, top
  <1>3. frames'[top - 1] = frames[top - 1]
    BY <1>1, <1>2
  <1>4. frames[top - 1].next_child_ordinal <= plan.child_counts[frames[top - 1].node_index]
    BY <1>2 DEF FrameInv, FramesAreAPath
  <1>5. FrameInv'
    BY <1>1, <1>3, <1>4, PoppingKeepsFrameInv
  <1> QED BY <1>1, <1>2, <1>3, <1>5 DEF BelowTopKept

(* The parent's ordinal was below its child count, so it may advance.      *)
LEMMA AdvanceKeepsFrameInv ==
  ASSUME FrameInv, plan' = plan, Len(frames) > 1,
         frames' = [SubSeq(frames, 1, top - 1) EXCEPT
                     ![top - 1].next_child_ordinal = frames[top - 1].next_child_ordinal + 1]
  PROVE  /\ FrameInv'
         /\ BelowTopKept
         /\ frames'[top - 1].next_child_ordinal = frames[top - 1].next_child_ordinal + 1
  <1>1. Len(frames) \in Nat /\ top - 1 \in 1 .. Len(frames) - 1
    BY LenProperties DEF FrameInv, top
  <1>2. frames[top - 1] \in FrameType
    BY <1>1, ElementOfSeq DEF FrameInv
  <1>3. /\ frames[top - 1].next_child_ordinal \in Nat
        /\ frames[top - 1].node_index \in nodes
    BY <1>2 DEF FrameType
  <1>4. plan.child_counts[frames[top - 1].node_index] \in Nat
    BY <1>3, WellFormedPlan DEF FrameInv, TreeWellFormed, nodes
  <1>5. frames[top - 1].next_child_ordinal + 1 <= plan.child_counts[frames[top - 1].node_index]
    BY <1>1, <1>3, <1>4 DEF FrameInv, FramesAreAPath
  <1>6. PICK ord \in Nat : ord = frames[top - 1].next_child_ordinal + 1
    BY <1>3
  <1>7. /\ frames' \in Seq(FrameType)'
        /\ Len(frames') = Len(frames) - 1
        /\ frames' # <<>>
        /\ \A k \in 1 .. Len(frames) - 1 : k # top - 1 => frames'[k] = frames[k]
        /\ frames'[top - 1] = [frames[top - 1] EXCEPT !.next_child_ordinal = ord]
    BY <1>6, PoppedAndAdvanced DEF FrameInv
  <1>8. /\ frames'[top - 1].node_index = frames[top - 1].node_index
        /\ frames'[top - 1].next_child_ordinal = ord
        /\ frames'[top - 1].entered = frames[top - 1].entered
        /\ frames'[top - 1].payload_live = frames[top - 1].payload_live
        /\ frames'[top - 1].requires_fanout_staging = frames[top - 1].requires_fanout_staging
        /\ frames'[top - 1].fanout_prepared = frames[top - 1].fanout_prepared
    BY <1>2, <1>7 DEF FrameType
  <1>9. FrameInv'
    BY <1>5, <1>6, <1>7, <1>8, PoppingKeepsFrameInv
  <1>10. BelowTopKept
    BY <1>1, <1>7, <1>8 DEF BelowTopKept, top
  <1> QED BY <1>6, <1>8, <1>9, <1>10

(* Every step keeps the frame vector a path of the tree.                   *)
LEMMA FrameInvStep ==
  ASSUME FrameInv, [Next]_vars
  PROVE  FrameInv'
  <1> USE DEF FrameInv
  <1>1. CASE EnterTop
    <2>1. frames # <<>> /\ plan' = plan
      BY <1>1 DEF EnterTop, Descending
    <2>2. PICK status \in Statuses :
            frames' = [frames EXCEPT ![top].entered = TRUE,
                                     ![top].payload_live = PayloadLive(Node, status)]
      BY <1>1 DEF EnterTop
    <2>3. PICK live \in BOOLEAN : live = PayloadLive(Node, status)
      BY DEF PayloadLive
    <2>4. frames[top] \in FrameType
      BY <2>1, TopFrame
    <2>5. /\ frames' \in Seq(FrameType)'
          /\ Len(frames') = Len(frames)
          /\ frames' # <<>>
          /\ \A k \in 1 .. Len(frames) : k # top => frames'[k] = frames[k]
          /\ frames'[top] = [frames[top] EXCEPT !.entered = TRUE, !.payload_live = live]
      BY <2>1, <2>2, <2>3, EnteredTop
    <2>6. /\ frames'[top].node_index = frames[top].node_index
          /\ frames'[top].next_child_ordinal = frames[top].next_child_ordinal
      BY <2>4, <2>5 DEF FrameType
    <2> QED BY <2>1, <2>5, <2>6, MarkingKeepsFrameInv
  <1>2. CASE PrepareTop
    <2>1. /\ frames # <<>> /\ plan' = plan
          /\ frames' = [frames EXCEPT ![top].fanout_prepared = TRUE]
      BY <1>2 DEF PrepareTop, Descending
    <2>2. frames[top] \in FrameType
      BY <2>1, TopFrame
    <2>3. /\ frames' \in Seq(FrameType)'
          /\ Len(frames') = Len(frames)
          /\ frames' # <<>>
          /\ \A k \in 1 .. Len(frames) : k # top => frames'[k] = frames[k]
          /\ frames'[top] = [frames[top] EXCEPT !.fanout_prepared = TRUE]
      BY <2>1, PreparedTop
    <2>4. /\ frames'[top].node_index = frames[top].node_index
          /\ frames'[top].next_child_ordinal = frames[top].next_child_ordinal
      BY <2>2, <2>3 DEF FrameType
    <2> QED BY <2>1, <2>3, <2>4, MarkingKeepsFrameInv
  <1>3. CASE FinishTop \/ Leave \/ Done \/ UNCHANGED vars
    <2>1. plan' = plan /\ frames' = frames
      BY <1>3 DEF FinishTop, Leave, LeaveRunPlan, DestroyFanoutState, DestroyActiveSlot,
                  Done, vars, run_vars, loop
    <2> QED BY <2>1 DEF FramesAreAPath, FrameType, nodes
  <1>4. CASE Descend
    BY <1>4, DescendKeepsFrameInv
  <1>5. CASE LeaveRoot \/ EnterTopThrows \/ PrepareTopThrows
    <2>1. plan' = plan /\ frames' = <<>>
      BY <1>5 DEF LeaveRoot, EnterTopThrows, PrepareTopThrows, EscapeLoop
    <2>2. frames' \in Seq(FrameType)' /\ Len(frames') = 0
      BY <2>1
    <2> QED BY <2>1, <2>2 DEF FramesAreAPath
  <1>6. CASE LeaveAndAdvance
    BY <1>6, AdvanceKeepsFrameInv DEF LeaveAndAdvance
  <1>7. CASE LeaveAndUnwind
    BY <1>7, UnwindKeepsFrameInv DEF LeaveAndUnwind
  <1> QED BY <1>1, <1>2, <1>3, <1>4, <1>5, <1>6, <1>7 DEF Next, Step

(* Levels grow by one per frame, so the depth of the vector is bounded by  *)
(* the largest level.                                                      *)
LEMMA PathsAreReserved == FrameInv => FramesStayReserved
  <1> SUFFICES ASSUME FrameInv PROVE Len(frames) <= FrameCapacity
    BY DEF FramesStayReserved
  <1>1. TreeWellFormed(plan)
    BY WellFormedPlan DEF FrameInv
  <1>2. Len(frames) \in Nat /\ IsWalk(Path, Ordinals, Len(frames))
    BY FramesAreAWalk
  <1>3. CASE Len(frames) = 0
    BY <1>1, <1>3 DEF FrameCapacity, TreeWellFormed
  <1>4. CASE Len(frames) # 0
    <2>1. Len(frames) \in 1 .. Len(frames)
      BY <1>2, <1>4
    <2>2. plan.level[Path[Len(frames)]] = Len(frames) - 1
      BY <1>2, <2>1, WalkGoesDown DEF FrameInv
    <2>3. Path[Len(frames)] \in nodes
      BY <1>2, <2>1 DEF IsWalk
    <2>4. plan.level[Path[Len(frames)]] \in 0 .. plan.max_level
      BY <1>1, <2>3 DEF TreeWellFormed, nodes
    <2> QED BY <1>1, <1>2, <2>2, <2>4 DEF FrameCapacity, TreeWellFormed
  <1> QED BY <1>3, <1>4

(* FrameInv holds throughout every run.                                    *)
LEMMA FrameInvHolds == Spec => []FrameInv
  <1>1. FrameInv /\ [Next]_vars => FrameInv'
    BY FrameInvStep
  <1> QED BY <1>1, FrameInvInit, PTL DEF Spec

(* The frame vector is always a path of the tree from the root, every      *)
(* frame's ordinal within its child count: the loop's equality tests on    *)
(* ordinals never overshoot.                                               *)
THEOREM TraversesThePlan == Spec => []FramesAreAPath
  <1>1. FrameInv => FramesAreAPath
    BY DEF FrameInv
  <1> QED BY <1>1, FrameInvHolds, PTL

(* The frame vector never outgrows the capacity reserved for it, so no     *)
(* reference the loop holds into it is invalidated, for plans of any       *)
(* depth.                                                                  *)
THEOREM NeverReallocates == Spec => []FramesStayReserved
  BY PathsAreReserved, FrameInvHolds, PTL

-------------------------------------------------------------------------------
(* The type invariant.                                                     *)

(* Leaving a frame keeps the storage well typed.                           *)
LEMMA DestroyTopIsTyped ==
  ASSUME RunTypeOK, Node \in nodes, DestroyTop
  PROVE  /\ slots' \in Cells
         /\ live_slots' \in [nodes -> BOOLEAN]
         /\ stage' \in [nodes -> BOOLEAN]
  <1>1. slots \in Cells /\ live_slots \in [nodes -> BOOLEAN] /\ stage \in [nodes -> BOOLEAN]
    BY DEF RunTypeOK, Cells
  <1>2. Destroy(slots, live_slots, Node) \in Cells
    BY <1>1, SlotOperationsAreTyped
  <1>3. SetLive(live_slots, Node, FALSE) \in [nodes -> BOOLEAN]
    BY <1>1, LiveFlagsAreTyped
  <1> QED BY <1>1, <1>2, <1>3 DEF DestroyTop, DestroyFanoutStaging

TypeInv == FrameInv /\ TypeOK

(* A run starts well typed.                                                *)
LEMMA TypeInvInit == Init => TypeOK
  <1> SUFFICES ASSUME Init PROVE TypeOK
    OBVIOUS
  <1>1. frames \in Seq(FrameType)
    BY FrameInvInit DEF FrameInv
  <1>2. RunTypeOK /\ pc = "dfs"
    BY RunInitIsTyped DEF Init, RunInit
  <1> QED BY <1>1, <1>2 DEF TypeOK, Init, Statuses

(* Every step keeps the state well typed.                                  *)
LEMMA TypeInvStep ==
  ASSUME TypeInv, [Next]_vars
  PROVE  TypeOK'
  <1>1. FrameInv' /\ FrameInv
    BY FrameInvStep DEF TypeInv
  <1>2. /\ frames' \in Seq(FrameType)'
        /\ RunTypeOK
        /\ plan \in Plans
        /\ slots \in Cells
        /\ live_slots \in [nodes -> BOOLEAN]
    BY <1>1 DEF FrameInv, TypeInv, TypeOK, RunTypeOK, Cells
  <1>3. ASSUME plan' = plan,
               slots' \in Cells, live_slots' \in [nodes -> BOOLEAN],
               stage' \in [nodes -> BOOLEAN],
               outcome' \in [nodes -> Statuses \cup {"none", "threw"}],
               pc' \in {"dfs", "fanout_dtor", "slots_dtor", "done"},
               result' \in Statuses \cup {"none", "exception"},
               cleanup' \in 0 .. plan.n
        PROVE  RunTypeOK'
    BY <1>3, RunTypeNext
  <1>4. ASSUME frames # <<>> PROVE Node \in nodes
    BY <1>1, <1>4, TopFrame DEF FrameInv
  <1>5. CASE EnterTop
    <2>1. frames # <<>> /\ UNCHANGED <<plan, pc, result, cleanup>>
      BY <1>5 DEF EnterTop, Descending
    <2>2. PICK status \in Statuses :
            /\ EnterNode(Node, status)
            /\ current_step' \in {current_step, status}
            /\ subtree_complete' \in {subtree_complete, TRUE}
      BY <1>5 DEF EnterTop
    <2>3. /\ slots' \in Cells
          /\ live_slots' \in [nodes -> BOOLEAN]
          /\ stage' \in [nodes -> BOOLEAN]
          /\ outcome' \in [nodes -> Statuses \cup {"none", "threw"}]
      BY <1>2, <1>4, <2>1, <2>2, EnterNodeIsTyped
    <2>4. RunTypeOK'
      BY <1>2, <1>3, <2>1, <2>3 DEF RunTypeOK
    <2> QED BY <1>2, <2>1, <2>2, <2>4 DEF TypeOK, TypeInv
  <1>6. CASE PrepareTop \/ FinishTop \/ Descend \/ Done \/ UNCHANGED vars
    <2>1. /\ UNCHANGED <<plan, pc, result, slots, live_slots, cleanup, outcome>>
          /\ stage' \in [nodes -> BOOLEAN]
          /\ current_step' \in {current_step, "success"}
          /\ subtree_complete' \in {subtree_complete, TRUE}
      BY <1>2, <1>6 DEF PrepareTop, FinishTop, Descend, Done, vars, run_vars, loop,
                        PrepareFanoutStaging, RunTypeOK
    <2>2. RunTypeOK'
      BY <1>2, <1>3, <2>1 DEF RunTypeOK, Cells
    <2> QED BY <1>2, <2>1, <2>2 DEF TypeOK, TypeInv, Statuses
  <1>7. CASE LeaveRoot \/ LeaveAndAdvance \/ LeaveAndUnwind
    <2>1. /\ DestroyTop
          /\ UNCHANGED <<plan, cleanup, outcome>>
          /\ pc' \in {pc, "fanout_dtor"}
          /\ result' \in {result, current_step}
          /\ pc' # "dfs" => result' = current_step
          /\ current_step' \in {current_step, "success"}
          /\ subtree_complete' \in BOOLEAN
      <3>1. current_step \in Statuses /\ subtree_complete \in BOOLEAN
        BY DEF TypeInv, TypeOK
      <3>2. CASE LeaveRoot \/ LeaveAndUnwind
        BY <3>1, <3>2 DEF LeaveRoot, LeaveAndUnwind
      <3>3. CASE LeaveAndAdvance
        <4>1. subtree_complete' \in BOOLEAN /\ current_step' \in {current_step, "success"}
          BY <3>3 DEF LeaveAndAdvance
        <4> QED BY <4>1, <3>3 DEF LeaveAndAdvance
      <3> QED BY <1>7, <3>2, <3>3
    <2>2. frames # <<>>
      <3>1. Len(<<>>) = 0
        OBVIOUS
      <3> QED BY <1>7, <3>1 DEF LeaveRoot, LeaveAndAdvance, LeaveAndUnwind
    <2>3. /\ slots' \in Cells
          /\ live_slots' \in [nodes -> BOOLEAN]
          /\ stage' \in [nodes -> BOOLEAN]
      BY <1>2, <1>4, <2>1, <2>2, DestroyTopIsTyped
    <2>4. RunTypeOK'
      BY <1>2, <1>3, <2>1, <2>3 DEF RunTypeOK, TypeInv, TypeOK
    <2> QED BY <1>2, <2>1, <2>4 DEF TypeOK, TypeInv, Statuses
  <1>8. CASE EnterTopThrows \/ PrepareTopThrows
    <2>1. /\ frames # <<>>
          /\ UNCHANGED <<plan, cleanup, current_step, subtree_complete>>
          /\ UNCHANGED <<live_slots, stage>>
          /\ pc' = "fanout_dtor"
          /\ result' = "exception"
          /\ slots' \in {slots, ConsumePrev(slots, Node)}
          /\ outcome' \in {outcome, [outcome EXCEPT ![Node] = "threw"]}
      <3>1. CASE EnterTopThrows
        BY <3>1 DEF EnterTopThrows, EscapeLoop, EnterNodeThrows, Descending
      <3>2. CASE PrepareTopThrows
        BY <3>2 DEF PrepareTopThrows, EscapeLoop, Descending
      <3> QED BY <1>8, <3>1, <3>2
    <2>2. slots' \in Cells
      BY <1>2, <1>4, <2>1, SlotOperationsAreTyped
    <2>3. RunTypeOK'
      BY <1>2, <1>3, <2>1, <2>2 DEF RunTypeOK
    <2> QED BY <1>2, <2>1, <2>3 DEF TypeOK, TypeInv
  <1>9. CASE Leave
    <2>1. RunTypeOK' /\ UNCHANGED <<plan, result, outcome>> /\ pc # "dfs" /\ UNCHANGED loop
      BY <1>2, <1>9, LeaveRunPlanIsTyped DEF Leave
    <2> QED BY <1>2, <2>1 DEF TypeOK, TypeInv, loop
  <1> QED BY <1>5, <1>6, <1>7, <1>8, <1>9 DEF Next, Step

(* TypeInv holds throughout every run.                                     *)
LEMMA TypeInvHolds == Spec => []TypeInv
  <1>1. Init => TypeInv
    BY FrameInvInit, TypeInvInit DEF TypeInv
  <1>2. TypeInv /\ [Next]_vars => TypeInv'
    BY FrameInvStep, TypeInvStep DEF TypeInv
  <1> QED BY <1>1, <1>2, PTL DEF Spec

(* The state is always well typed; in particular the traversal is never    *)
(* left without a result to return.                                        *)
THEOREM TypeCorrect == Spec => []TypeOK
  <1>1. TypeInv => TypeOK
    BY DEF TypeInv
  <1> QED BY <1>1, TypeInvHolds, PTL

-------------------------------------------------------------------------------
(* What the slots hold.                                                    *)

Holds == [k \in 1 .. Len(frames) |-> frames[k].payload_live]

(* The payloads in the slots are those of the frames flagged payload_live, *)
(* which have been entered.                                                *)
FramesHoldPayloads ==
  /\ Held(slots, Path, Holds, Len(frames))
  /\ \A k \in 1 .. Len(frames) : frames[k].payload_live => frames[k].entered

StorageInv ==
  /\ TypeInv
  /\ Sound(slots, live_slots)
  /\ CleanupProgress
  /\ pc = "dfs" => FramesHoldPayloads

(* What entering the top node does to its frame.                           *)
LEMMA EnteringMarksTheTop ==
  ASSUME FrameInv, EnterTop
  PROVE  /\ frames # <<>> /\ top \in 1 .. Len(frames) /\ Node \in nodes
         /\ pc = "dfs" /\ ~frames[top].entered /\ ~subtree_complete
         /\ UNCHANGED <<plan, pc, result, cleanup>>
         /\ \E status \in Statuses, live \in BOOLEAN :
              /\ EnterNode(Node, status)
              /\ live = PayloadLive(Node, status)
              /\ Len(frames') = Len(frames)
              /\ \A k \in 1 .. Len(frames) : k # top => frames'[k] = frames[k]
              /\ frames'[top] = [frames[top] EXCEPT !.entered = TRUE, !.payload_live = live]
              /\ IF status = "success"
                   THEN subtree_complete' = FALSE
                   ELSE subtree_complete' = TRUE /\ current_step' = status
  <1>1. /\ frames # <<>> /\ plan' = plan
        /\ pc = "dfs" /\ ~frames[top].entered /\ ~subtree_complete
        /\ UNCHANGED <<plan, pc, result, cleanup>>
    BY DEF EnterTop, Descending
  <1>2. PICK status \in Statuses :
          /\ EnterNode(Node, status)
          /\ frames' = [frames EXCEPT ![top].entered = TRUE,
                                      ![top].payload_live = PayloadLive(Node, status)]
          /\ IF status = "success"
               THEN UNCHANGED <<current_step, subtree_complete>>
               ELSE current_step' = status /\ subtree_complete' = TRUE
    BY DEF EnterTop
  <1>3. PICK live \in BOOLEAN : live = PayloadLive(Node, status)
    BY DEF PayloadLive
  <1>4. /\ Len(frames') = Len(frames)
        /\ \A k \in 1 .. Len(frames) : k # top => frames'[k] = frames[k]
        /\ frames'[top] = [frames[top] EXCEPT !.entered = TRUE, !.payload_live = live]
    BY <1>1, <1>2, <1>3, EnteredTop DEF FrameInv
  <1>5. IF status = "success"
          THEN subtree_complete' = FALSE
          ELSE subtree_complete' = TRUE /\ current_step' = status
    <2>1. CASE status = "success"
      <3>1. subtree_complete' = subtree_complete
        BY <1>2, <2>1
      <3> QED BY <1>1, <2>1, <3>1 DEF EnterTop
    <2>2. CASE status # "success"
      BY <1>2, <2>2
    <2> QED BY <2>1, <2>2
  <1> QED BY <1>1, <1>2, <1>3, <1>4, <1>5, TopFrame DEF FrameInv

(* What preparing the top node's fan-out does to its frame.                *)
LEMMA PreparingMarksTheTop ==
  ASSUME FrameInv, PrepareTop
  PROVE  /\ frames # <<>> /\ top \in 1 .. Len(frames) /\ Node \in nodes
         /\ pc = "dfs" /\ frames[top].entered /\ ~subtree_complete
         /\ frames[top].requires_fanout_staging /\ ~frames[top].fanout_prepared
         /\ UNCHANGED <<plan, pc, result, cleanup, slots, live_slots, outcome>>
         /\ UNCHANGED <<current_step, subtree_complete>>
         /\ PrepareFanoutStaging(Node)
         /\ Len(frames') = Len(frames)
         /\ \A k \in 1 .. Len(frames) : k # top => frames'[k] = frames[k]
         /\ frames'[top] = [frames[top] EXCEPT !.fanout_prepared = TRUE]
  <1>1. /\ frames # <<>> /\ plan' = plan
        /\ frames' = [frames EXCEPT ![top].fanout_prepared = TRUE]
    BY DEF PrepareTop, Descending
  <1>2. /\ Len(frames') = Len(frames)
        /\ \A k \in 1 .. Len(frames) : k # top => frames'[k] = frames[k]
        /\ frames'[top] = [frames[top] EXCEPT !.fanout_prepared = TRUE]
    BY <1>1, PreparedTop DEF FrameInv
  <1> QED BY <1>1, <1>2, TopFrame DEF FrameInv, PrepareTop, Descending, StagingPending

(* What leaving the top frame does to the ones below it.                   *)
LEMMA LeavingKeepsTheRest ==
  ASSUME FrameInv, LeaveAndAdvance \/ LeaveAndUnwind
  PROVE  /\ top \in 2 .. Len(frames) /\ frames # <<>> /\ Node \in nodes
         /\ pc = "dfs" /\ subtree_complete
         /\ DestroyTop
         /\ UNCHANGED <<plan, pc, result, cleanup, outcome>>
         /\ BelowTopKept
         /\ \/ /\ Consumable
               /\ frames'[top - 1].next_child_ordinal = frames[top - 1].next_child_ordinal + 1
            \/ /\ ~Consumable /\ ~Consumable' /\ subtree_complete'
               /\ frames'[top - 1].next_child_ordinal = frames[top - 1].next_child_ordinal
  <1>1. /\ Len(frames) > 1 /\ DestroyTop /\ pc = "dfs" /\ subtree_complete
        /\ UNCHANGED <<plan, pc, result, cleanup, outcome>>
    BY DEF LeaveAndAdvance, LeaveAndUnwind
  <1>2. frames # <<>>
    <2>1. Len(<<>>) = 0
      OBVIOUS
    <2> QED BY <1>1, <2>1
  <1>3. Len(frames) \in Nat /\ top \in 1 .. Len(frames) /\ Node \in nodes
    BY <1>2, TopFrame DEF FrameInv
  <1>4. top \in 2 .. Len(frames)
    BY <1>1, <1>3 DEF top
  <1>5. CASE LeaveAndAdvance
    <2>1. /\ Consumable
          /\ frames' = [SubSeq(frames, 1, top - 1) EXCEPT
                         ![top - 1].next_child_ordinal = frames[top - 1].next_child_ordinal + 1]
      BY <1>5 DEF LeaveAndAdvance
    <2> QED BY <1>1, <1>2, <1>3, <1>4, <2>1, AdvanceKeepsFrameInv
  <1>6. CASE LeaveAndUnwind
    <2>1. /\ ~Consumable /\ ~Consumable' /\ subtree_complete'
          /\ frames' = SubSeq(frames, 1, top - 1)
      BY <1>6 DEF LeaveAndUnwind, Consumable
    <2> QED BY <1>1, <1>2, <1>3, <1>4, <2>1, UnwindKeepsFrameInv
  <1> QED BY <1>5, <1>6

(* A run starts with empty slots.                                          *)
LEMMA StorageInvInit == Init => StorageInv
  <1> SUFFICES ASSUME Init PROVE StorageInv
    OBVIOUS
  <1>1. TypeInv
    BY FrameInvInit, TypeInvInit DEF TypeInv
  <1>2. /\ Sound(slots, live_slots)
        /\ \A s \in 0 .. plan.n_slots - 1 : slots[s].obj = NoObject
        /\ plan \in Plans /\ pc = "dfs" /\ cleanup = 0
    BY RunInitIsSound DEF Init, RunInit
  <1>3. Len(frames) = 1 /\ frames[1].payload_live = FALSE
    BY DEF Init, Frame
  <1>4. \A k \in 1 .. Len(frames) : ~frames[k].payload_live
    BY <1>3
  <1>5. NoObject \notin nodes
    BY <1>2, RootIsANode DEF NoObject
  <1>6. FramesHoldPayloads
    BY <1>2, <1>4, <1>5 DEF FramesHoldPayloads, Held, Holds
  <1> QED BY <1>1, <1>2, <1>6 DEF StorageInv, CleanupProgress

(* A step that keeps the plan translates a fact about the next state.      *)
LEMMA FramesHoldNext ==
  ASSUME plan' = plan,
         Held(slots', Path', Holds', Len(frames')),
         \A k \in 1 .. Len(frames') : frames'[k].payload_live => frames'[k].entered
  PROVE  FramesHoldPayloads'
  BY DEF FramesHoldPayloads, Held, nodes

(* A task that is run fills its slot if it leaves a payload.               *)
LEMMA EnteringFillsTheSlot ==
  ASSUME StorageInv, pc = "dfs", frames # <<>>, ~frames[top].entered,
         NEW status \in Statuses, EnterNode(Node, status)
  PROVE  /\ Sound(slots', live_slots')
         /\ PayloadLive(Node, status) =>
              PayloadNode(plan, Node) /\ slots[plan.slot[Node]].obj = NoObject
         /\ \A s \in 0 .. plan.n_slots - 1 :
              slots'[s].obj = IF PayloadLive(Node, status) /\ s = plan.slot[Node]
                                THEN Node ELSE slots[s].obj
  <1>1. /\ FrameInv /\ plan \in Plans /\ Sound(slots, live_slots)
        /\ Len(frames) \in Nat
        /\ IsWalk(Path, Ordinals, Len(frames))
        /\ FramesHoldPayloads
    BY FramesAreAWalk DEF StorageInv, TypeInv
  <1>2. /\ Len(frames) # 0 /\ top = Len(frames) /\ top \in 1 .. Len(frames) /\ Node \in nodes
        /\ Path[Len(frames)] = Node
    BY <1>1, TopFrame DEF FrameInv, Path, Node, top
  <1>3. ~Holds[Len(frames)] /\ Held(slots, Path, Holds, Len(frames))
    BY <1>1, <1>2 DEF FramesHoldPayloads, Holds
  <1>4. PayloadNode(plan, Node) => slots[plan.slot[Node]].obj = NoObject
    BY <1>1, <1>2, <1>3, SlotIsFreeAtTheEnd
  <1> QED BY <1>1, <1>2, <1>4, EnterNodeFillsTheSlot

(* Entering a node fills its slot if and only if its frame is flagged.     *)
LEMMA EnterTopKeepsStorage ==
  ASSUME StorageInv, EnterTop
  PROVE  Sound(slots, live_slots)' /\ FramesHoldPayloads'
  <1>1. /\ FrameInv /\ plan \in Plans /\ Sound(slots, live_slots)
        /\ Len(frames) \in Nat
        /\ IsWalk(Path, Ordinals, Len(frames))
        /\ \A k \in 1 .. Len(frames) : frames[k] \in FrameType
    BY FramesAreAWalk DEF StorageInv, TypeInv
  <1>2. /\ frames # <<>> /\ top \in 1 .. Len(frames) /\ Node \in nodes
        /\ pc = "dfs" /\ ~frames[top].entered /\ plan' = plan
    BY <1>1, EnteringMarksTheTop
  <1>3. PICK status \in Statuses, live \in BOOLEAN :
          /\ EnterNode(Node, status)
          /\ live = PayloadLive(Node, status)
          /\ Len(frames') = Len(frames)
          /\ \A k \in 1 .. Len(frames) : k # top => frames'[k] = frames[k]
          /\ frames'[top] = [frames[top] EXCEPT !.entered = TRUE, !.payload_live = live]
    BY <1>1, EnteringMarksTheTop
  <1>4. /\ Len(frames) # 0 /\ top = Len(frames)
        /\ Path[Len(frames)] = Node
        /\ ~Holds[Len(frames)]
        /\ Held(slots, Path, Holds, Len(frames))
    BY <1>1, <1>2 DEF StorageInv, FramesHoldPayloads, Path, Holds, Node, top
  <1>5. /\ Sound(slots', live_slots')
        /\ live => PayloadNode(plan, Node)
        /\ \A s \in 0 .. plan.n_slots - 1 :
             slots'[s].obj = IF live /\ s = plan.slot[Node] THEN Node ELSE slots[s].obj
    BY <1>2, <1>3, EnteringFillsTheSlot
  <1>6. /\ \A k \in 1 .. Len(frames) : frames'[k].node_index = frames[k].node_index
        /\ frames'[top].payload_live = live /\ frames'[top].entered
    BY <1>1, <1>2, <1>3 DEF FrameType
  <1>7. Path' = Path
    BY <1>3, <1>6 DEF Path
  <1>8. /\ Holds'[Len(frames)] = live
        /\ \A k \in 1 .. Len(frames) - 1 : Holds'[k] = Holds[k]
    <2>1. \A k \in 1 .. Len(frames) : Holds'[k] = frames'[k].payload_live
      BY <1>3 DEF Holds
    <2>2. Holds'[Len(frames)] = live
      BY <1>2, <1>4, <1>6, <2>1
    <2>3. \A k \in 1 .. Len(frames) - 1 : frames'[k] = frames[k]
      BY <1>1, <1>3, <1>4
    <2> QED BY <1>1, <2>1, <2>2, <2>3 DEF Holds
  <1>9. Held(slots', Path, Holds', Len(frames))
    <2>1. live => PayloadNode(plan, Path[Len(frames)])
      BY <1>4, <1>5
    <2>2. \A s \in 0 .. plan.n_slots - 1 :
            slots'[s].obj = IF live /\ s = plan.slot[Path[Len(frames)]]
                              THEN Path[Len(frames)] ELSE slots[s].obj
      BY <1>4, <1>5
    <2> QED BY <1>1, <1>4, <1>8, <2>1, <2>2, FillingKeepsHeld
  <1>10. \A k \in 1 .. Len(frames') : frames'[k].payload_live => frames'[k].entered
    BY <1>2, <1>3, <1>6 DEF StorageInv, FramesHoldPayloads
  <1>11. FramesHoldPayloads'
    BY <1>2, <1>3, <1>7, <1>9, <1>10, FramesHoldNext
  <1> QED BY <1>2, <1>5, <1>11, SoundNext

(* Leaving a frame empties its slot.                                       *)
LEMMA DestroyTopEmptiesTheSlot ==
  ASSUME StorageInv, pc = "dfs", frames # <<>>, DestroyTop
  PROVE  /\ Sound(slots', live_slots')
         /\ Held(slots', Path, Holds, Len(frames) - 1)
         /\ frames[top].payload_live => PayloadNode(plan, Node) /\ slots[plan.slot[Node]].obj = Node
         /\ \A s \in 0 .. plan.n_slots - 1 :
              slots'[s].obj = IF frames[top].payload_live /\ s = plan.slot[Node]
                                THEN NoObject ELSE slots[s].obj
  <1>1. /\ FrameInv /\ plan \in Plans /\ Sound(slots, live_slots)
        /\ Len(frames) \in Nat
        /\ IsWalk(Path, Ordinals, Len(frames))
        /\ Held(slots, Path, Holds, Len(frames))
        /\ \A k \in 1 .. Len(frames) : frames[k] \in FrameType
    BY FramesAreAWalk DEF StorageInv, TypeInv, FramesHoldPayloads
  <1>2. /\ top \in 1 .. Len(frames) /\ Node \in nodes /\ Len(frames) # 0 /\ top = Len(frames)
        /\ Path[Len(frames)] = Node
        /\ Holds[Len(frames)] = frames[top].payload_live
        /\ frames[top].payload_live \in BOOLEAN
    BY <1>1, TopFrame DEF FrameInv, Path, Holds, Node, top, FrameType
  <1>3. PICK holds \in BOOLEAN : holds = frames[top].payload_live
    BY <1>2
  <1>4. holds => PayloadNode(plan, Node) /\ slots[plan.slot[Node]].obj = Node
    BY <1>1, <1>2, <1>3 DEF Held
  <1>5. IF holds THEN /\ slots' = Destroy(slots, live_slots, Node)
                      /\ live_slots' = SetLive(live_slots, Node, FALSE)
                 ELSE UNCHANGED <<slots, live_slots>>
    BY <1>3 DEF DestroyTop
  <1>6. /\ Sound(slots', live_slots')
        /\ \A s \in 0 .. plan.n_slots - 1 :
             slots'[s].obj = IF holds /\ s = plan.slot[Node] THEN NoObject ELSE slots[s].obj
    BY <1>1, <1>2, <1>4, <1>5, LeavingEmptiesTheSlot
  <1>7. Held(slots', Path, Holds, Len(frames) - 1)
    BY <1>1, <1>2, <1>3, <1>6, EmptyingKeepsHeld
  <1> QED BY <1>3, <1>4, <1>6, <1>7

(* The frames below the one that leaves keep what they hold.               *)
LEMMA LeavingKeepsStorage ==
  ASSUME StorageInv, LeaveAndAdvance \/ LeaveAndUnwind
  PROVE  Sound(slots, live_slots)' /\ FramesHoldPayloads'
  <1>1. /\ FrameInv /\ plan \in Plans /\ Len(frames) \in Nat
    BY FramesAreAWalk DEF StorageInv, TypeInv
  <1>2. /\ top \in 2 .. Len(frames) /\ frames # <<>> /\ pc = "dfs" /\ plan' = plan
        /\ DestroyTop /\ BelowTopKept
    BY <1>1, LeavingKeepsTheRest
  <1>3. /\ Sound(slots', live_slots')
        /\ Held(slots', Path, Holds, Len(frames) - 1)
    BY <1>2, DestroyTopEmptiesTheSlot
  <1>4. /\ Len(frames') = Len(frames) - 1
        /\ \A k \in 1 .. Len(frames) - 1 : Path'[k] = Path[k] /\ Holds'[k] = Holds[k]
    BY <1>1, <1>2 DEF BelowTopKept, Path, Holds
  <1>5. Held(slots', Path', Holds', Len(frames'))
    BY <1>3, <1>4 DEF Held
  <1>6. \A k \in 1 .. Len(frames') : frames'[k].payload_live => frames'[k].entered
    BY <1>1, <1>2 DEF StorageInv, FramesHoldPayloads, BelowTopKept
  <1> QED BY <1>2, <1>3, <1>5, <1>6, FramesHoldNext, SoundNext

(* Every step keeps slots, flags and frames in agreement.                  *)
LEMMA StorageInvStep ==
  ASSUME StorageInv, [Next]_vars
  PROVE  StorageInv'
  <1>1. /\ FrameInv /\ plan \in Plans
        /\ Sound(slots, live_slots)
        /\ CleanupProgress
        /\ cleanup \in 0 .. plan.n
        /\ Len(frames) \in Nat
        /\ \A k \in 1 .. Len(frames) : frames[k] \in FrameType
    BY FramesAreAWalk DEF StorageInv, TypeInv, TypeOK, RunTypeOK
  <1>2. TypeInv'
    BY FrameInvStep, TypeInvStep DEF StorageInv, TypeInv
  <1>3. ASSUME pc' \in {"dfs", "fanout_dtor"}, pc \in {"dfs", "fanout_dtor"},
               cleanup' = cleanup
        PROVE  CleanupProgress'
    BY <1>1, <1>3 DEF CleanupProgress
  <1>4. CASE EnterTop
    <2>1. pc = "dfs" /\ UNCHANGED <<pc, cleanup>>
      BY <1>1, <1>4, EnteringMarksTheTop
    <2> QED BY <1>2, <1>3, <1>4, <2>1, EnterTopKeepsStorage DEF StorageInv
  <1>5. CASE PrepareTop
    <2>1. /\ pc = "dfs" /\ top \in 1 .. Len(frames)
          /\ UNCHANGED <<plan, pc, cleanup, slots, live_slots>>
          /\ Len(frames') = Len(frames)
          /\ \A k \in 1 .. Len(frames) : k # top => frames'[k] = frames[k]
          /\ frames'[top] = [frames[top] EXCEPT !.fanout_prepared = TRUE]
      BY <1>1, <1>5, PreparingMarksTheTop
    <2>2. \A k \in 1 .. Len(frames) :
            /\ frames'[k].node_index = frames[k].node_index
            /\ frames'[k].entered = frames[k].entered
            /\ frames'[k].payload_live = frames[k].payload_live
      BY <1>1, <2>1 DEF FrameType
    <2>3. Path' = Path /\ Holds' = Holds
      BY <2>1, <2>2 DEF Path, Holds
    <2>4. FramesHoldPayloads'
      BY <2>1, <2>2, <2>3, FramesHoldNext DEF StorageInv, FramesHoldPayloads
    <2> QED BY <1>1, <1>2, <1>3, <2>1, <2>4, SoundNext DEF StorageInv
  <1>6. CASE FinishTop \/ Done \/ UNCHANGED vars
    <2>1. UNCHANGED <<plan, pc, cleanup, slots, live_slots, stage, frames>>
      BY <1>6 DEF FinishTop, Done, vars, run_vars, loop
    <2>2. CleanupProgress'
      BY <1>1, <2>1 DEF CleanupProgress, nodes
    <2>3. Path' = Path /\ Holds' = Holds
      BY <2>1 DEF Path, Holds
    <2>4. pc' = "dfs" => FramesHoldPayloads'
      BY <2>1, <2>3, FramesHoldNext DEF StorageInv, FramesHoldPayloads
    <2> QED BY <1>1, <1>2, <2>1, <2>2, <2>4, SoundNext DEF StorageInv
  <1>7. CASE Descend
    <2>1. /\ pc = "dfs"
          /\ UNCHANGED <<plan, pc, cleanup, slots, live_slots>>
      BY <1>7 DEF Descend, Descending, run_vars
    <2>2. PICK c \in nodes :
            /\ Len(frames') = Len(frames) + 1
            /\ \A k \in 1 .. Len(frames) : frames'[k] = frames[k]
            /\ frames'[Len(frames) + 1] = Frame(c)
      BY <1>1, <1>7, DescendKeepsFrameInv
    <2>3. ~Frame(c).payload_live
      BY DEF Frame
    <2>4. /\ \A k \in 1 .. Len(frames) : Path'[k] = Path[k] /\ Holds'[k] = Holds[k]
          /\ ~Holds'[Len(frames) + 1]
      BY <1>1, <2>2, <2>3 DEF Path, Holds
    <2>5. Held(slots', Path', Holds', Len(frames'))
      BY <1>1, <2>1, <2>2, <2>4 DEF StorageInv, FramesHoldPayloads, Held
    <2>6. FramesHoldPayloads'
      BY <1>1, <2>1, <2>2, <2>3, <2>5, FramesHoldNext DEF StorageInv, FramesHoldPayloads
    <2> QED BY <1>1, <1>2, <1>3, <2>1, <2>6, SoundNext DEF StorageInv
  <1>8. CASE LeaveRoot
    <2>1. /\ pc = "dfs" /\ pc' = "fanout_dtor"
          /\ Len(frames) = 1 /\ DestroyTop
          /\ UNCHANGED <<plan, cleanup>>
      BY <1>8 DEF LeaveRoot
    <2>2. frames # <<>>
      <3>1. Len(<<>>) = 0
        OBVIOUS
      <3> QED BY <2>1, <3>1
    <2>3. Sound(slots', live_slots')
      BY <2>1, <2>2, DestroyTopEmptiesTheSlot
    <2> QED BY <1>2, <1>3, <2>1, <2>3, SoundNext DEF StorageInv
  <1>9. CASE LeaveAndAdvance \/ LeaveAndUnwind
    <2>1. pc = "dfs" /\ UNCHANGED <<pc, cleanup>>
      BY <1>1, <1>9, LeavingKeepsTheRest
    <2> QED BY <1>2, <1>3, <1>9, <2>1, LeavingKeepsStorage DEF StorageInv
  <1>10. CASE EnterTopThrows \/ PrepareTopThrows
    <2>1. /\ pc = "dfs" /\ pc' = "fanout_dtor" /\ frames # <<>>
          /\ UNCHANGED <<plan, cleanup, live_slots>>
          /\ slots' \in {slots, ConsumePrev(slots, Node)}
      <3>1. CASE EnterTopThrows
        BY <3>1 DEF EnterTopThrows, EscapeLoop, EnterNodeThrows, Descending
      <3>2. CASE PrepareTopThrows
        BY <3>2 DEF PrepareTopThrows, EscapeLoop, Descending
      <3> QED BY <1>10, <3>1, <3>2
    <2>2. Node \in nodes
      BY <1>1, <2>1, TopFrame DEF FrameInv
    <2>3. Sound(slots', live_slots')
      BY <1>1, <2>1, <2>2, ConsumingKeepsSound
    <2> QED BY <1>2, <1>3, <2>1, <2>3, SoundNext DEF StorageInv
  <1>11. CASE Leave
    <2>1. LeaveRunPlan
      BY <1>11 DEF Leave
    <2>2. pc' # "dfs"
      BY <1>1, <2>1, LeaveRunPlanIsTyped DEF StorageInv, TypeInv, TypeOK
    <2> QED BY <1>1, <1>2, <2>1, <2>2, LeaveRunPlanKeepsStorage DEF StorageInv
  <1> QED BY <1>4, <1>5, <1>6, <1>7, <1>8, <1>9, <1>10, <1>11 DEF Next, Step

(* StorageInv holds throughout every run.                                  *)
LEMMA StorageInvHolds == Spec => []StorageInv
  <1>1. StorageInv /\ [Next]_vars => StorageInv'
    BY StorageInvStep
  <1> QED BY <1>1, StorageInvInit, PTL DEF Spec

(* The backends' engagement flags, recorded owners and live flags always   *)
(* agree with what the slots hold: no payload is constructed over a live   *)
(* one, destroyed twice, or destroyed as another node's.                   *)
THEOREM BookkeepingIsCorrect == Spec => []BookkeepingIsTruthful
  <1>1. StorageInv => BookkeepingIsTruthful
    BY SoundAndEmptied DEF StorageInv, TypeInv, FrameInv
  <1> QED BY <1>1, StorageInvHolds, PTL

(* While the traversal runs, the live payloads are exactly those that a    *)
(* frame of the current path will destroy.                                 *)
THEOREM PayloadsFollowTheFrames == Spec => []PayloadsMatchFrames
  <1>1. ASSUME StorageInv, pc = "dfs"
        PROVE  LivePayloads
                 = {frames[k].node_index : k \in {j \in DOMAIN frames : frames[j].payload_live}}
    <2>1. /\ Held(slots, Path, Holds, Len(frames))
          /\ slots \in Cells /\ frames \in Seq(FrameType) /\ plan \in Plans
          /\ \A k \in 1 .. Len(frames) : frames[k] \in FrameType
      BY <1>1, FramesAreAWalk DEF StorageInv, FramesHoldPayloads, Sound, TypeInv, FrameInv
    <2>2. DOMAIN slots = 0 .. plan.n_slots - 1 /\ DOMAIN frames = 1 .. Len(frames)
      BY <2>1, LenProperties DEF Cells
    <2>3. ASSUME NEW i \in LivePayloads
          PROVE  \E k \in DOMAIN frames : frames[k].payload_live /\ frames[k].node_index = i
      BY <2>1, <2>2 DEF LivePayloads, Held, Path, Holds
    <2>4. ASSUME NEW k \in DOMAIN frames, frames[k].payload_live
          PROVE  frames[k].node_index \in LivePayloads
      <3>1. /\ frames[k].node_index \in nodes
            /\ PayloadNode(plan, frames[k].node_index)
            /\ slots[plan.slot[frames[k].node_index]].obj = frames[k].node_index
        BY <2>1, <2>2, <2>4 DEF FrameType, Held, Path, Holds
      <3>2. plan.slot[frames[k].node_index] \in DOMAIN slots
        BY <2>1, <2>2, <3>1, SlotOfPayload
      <3> QED BY <3>1, <3>2 DEF LivePayloads
    <2> QED BY <2>3, <2>4
  <1>2. StorageInv => PayloadsMatchFrames
    BY <1>1 DEF PayloadsMatchFrames
  <1> QED BY <1>2, StorageInvHolds, PTL

(* When run_plan has returned or thrown, no payload and no staged copy is  *)
(* left.                                                                   *)
THEOREM EverythingIsDestroyed == Spec => []NothingOutlivesTheRun
  <1>1. StorageInv => NothingOutlivesTheRun
    BY SoundAndEmptied DEF StorageInv, TypeInv, FrameInv
  <1> QED BY <1>1, StorageInvHolds, PTL

-------------------------------------------------------------------------------
(* What tasks read.                                                        *)

(* The next child of each frame that is still to be visited.               *)
Following ==
  [k \in 1 .. Len(frames) |-> IF k < Len(frames) THEN Ordinals[k] + 1 ELSE Ordinals[k]]

(* A frame on the way down to the current node has its node's payload and  *)
(* its stage.                                                              *)
FrameIsServed(k) ==
  /\ frames[k].requires_fanout_staging = plan.staging[frames[k].node_index]
  /\ frames[k].entered /\ PayloadNode(plan, frames[k].node_index)
       /\ (k < Len(frames) \/ ~subtree_complete) => frames[k].payload_live
  /\ frames[k].requires_fanout_staging
       /\ (k < Len(frames) \/ frames[k].next_child_ordinal > 0) => frames[k].fanout_prepared
  /\ frames[k].requires_fanout_staging /\ frames[k].fanout_prepared =>
       stage[frames[k].node_index]

(* What was consumed was consumed by a task that ran, and, unless the loop *)
(* is unwinding for good, what ran is in front of what will.               *)
InPreorder ==
  /\ ConsumedBy(slots, Ran)
  /\ (subtree_complete => Consumable) => Ahead(Ran, Path, Following, Len(frames))
  /\ Len(frames) # 0 /\ ~frames[Len(frames)].entered => \A j \in Ran : j < Path[Len(frames)]

FramesAreServed == \A k \in 1 .. Len(frames) : FrameIsServed(k)

ReadInv ==
  /\ StorageInv
  /\ pc = "dfs" => FramesAreServed /\ InPreorder

(* What the invariants give about the walk of frames while the loop runs.  *)
LEMMA ServedFrames ==
  ASSUME ReadInv, pc = "dfs"
  PROVE  /\ plan \in Plans /\ FrameInv /\ StorageInv
         /\ FramesAreServed /\ InPreorder
         /\ Len(frames) \in Nat
         /\ IsWalk(Path, Ordinals, Len(frames))
         /\ \A k \in 1 .. Len(frames) :
              /\ frames[k] \in FrameType
              /\ Path[k] = frames[k].node_index /\ Path[k] \in nodes
              /\ Ordinals[k] = frames[k].next_child_ordinal /\ Ordinals[k] \in Nat
              /\ Following[k] \in Nat
              /\ k < Len(frames) => frames[k].entered
         /\ \A k \in 1 .. Len(frames) - 1 : Following[k] = Ordinals[k] + 1
         /\ slots \in Cells
         /\ stage \in [nodes -> BOOLEAN]
         /\ outcome \in [nodes -> Statuses \cup {"none", "threw"}]
         /\ Ran \in SUBSET nodes
  <1>1. /\ plan \in Plans /\ FrameInv
        /\ FramesAreServed /\ InPreorder
        /\ slots \in Cells
        /\ stage \in [nodes -> BOOLEAN]
        /\ outcome \in [nodes -> Statuses \cup {"none", "threw"}]
    BY DEF ReadInv, StorageInv, TypeInv, FrameInv, TypeOK, RunTypeOK, Cells
  <1>2. /\ IsWalk(Path, Ordinals, Len(frames))
        /\ Len(frames) \in Nat
        /\ \A k \in 1 .. Len(frames) : frames[k] \in FrameType
    BY <1>1, FramesAreAWalk
  <1>3. \A k \in 1 .. Len(frames) :
          /\ Path[k] = frames[k].node_index /\ Path[k] \in nodes
          /\ Ordinals[k] = frames[k].next_child_ordinal /\ Ordinals[k] \in Nat
    BY <1>2 DEF Path, Ordinals, FrameType
  <1>4. /\ \A k \in 1 .. Len(frames) : Following[k] \in Nat
        /\ \A k \in 1 .. Len(frames) - 1 : Following[k] = Ordinals[k] + 1
    BY <1>2, <1>3 DEF Following
  <1>5. \A k \in 1 .. Len(frames) : k < Len(frames) => frames[k].entered
    BY <1>1, <1>2 DEF FrameInv, FramesAreAPath
  <1> QED BY <1>1, <1>2, <1>3, <1>4, <1>5 DEF Ran, ReadInv

(* Frames on the way down have their payloads in their slots.              *)
LEMMA ServedFramesHoldPayloads ==
  ASSUME ReadInv, pc = "dfs", NEW k \in 1 .. Len(frames), frames[k].entered,
         k < Len(frames) \/ ~subtree_complete, PayloadNode(plan, Path[k])
  PROVE  slots[plan.slot[Path[k]]].obj = Path[k]
  <1>1. FrameIsServed(k) /\ Path[k] = frames[k].node_index
    BY ServedFrames DEF FramesAreServed
  <1>2. frames[k].payload_live
    BY <1>1 DEF FrameIsServed
  <1> QED BY <1>2 DEF ReadInv, StorageInv, FramesHoldPayloads, Held, Holds

(* The task of a node about to be entered finds its parent's output.       *)
LEMMA TaskFindsItsInput ==
  ASSUME ReadInv, pc = "dfs", frames # <<>>, ~frames[top].entered
  PROVE  PrevIsReadable(Node)
  <1>1. /\ plan \in Plans /\ FrameInv
        /\ FramesAreServed /\ InPreorder
        /\ Len(frames) \in Nat
        /\ IsWalk(Path, Ordinals, Len(frames))
        /\ \A k \in 1 .. Len(frames) :
             /\ Path[k] = frames[k].node_index
             /\ k < Len(frames) => frames[k].entered
    BY ServedFrames
  <1>2. Len(frames) # 0 /\ top = Len(frames) /\ Path[Len(frames)] = Node
    BY <1>1, TopFrame DEF FrameInv, Node, top
  <1>3. ASSUME NEW k \in 1 .. Len(frames) - 1
        PROVE  /\ PayloadNode(plan, Path[k]) => slots[plan.slot[Path[k]]].obj = Path[k]
               /\ plan.staging[Path[k]] => stage[Path[k]]
    <2>1. k \in 1 .. Len(frames) /\ k < Len(frames) /\ frames[k].entered
      BY <1>1
    <2>2. FrameIsServed(k)
      BY <1>1, <2>1 DEF FramesAreServed
    <2> QED BY <1>1, <2>1, <2>2, ServedFramesHoldPayloads DEF FrameIsServed
  <1>4. (\A j \in Ran : j < Path[Len(frames)]) /\ ConsumedBy(slots, Ran)
    BY <1>1, <1>2 DEF InPreorder
  <1>5. PrevIsReadable(Path[Len(frames)])
    BY <1>1, <1>2, <1>3, <1>4, OutputIsReadable
  <1> QED BY <1>2, <1>5

(* A payload about to be staged has not been consumed: no child ran yet.   *)
LEMMA StagingFindsItsSource ==
  ASSUME ReadInv, pc = "dfs", frames # <<>>, ~subtree_complete, frames[top].entered,
         StagingPending
  PROVE  StagingSourceIsReadable(Node)
  <1>1. /\ plan \in Plans /\ FrameInv
        /\ FramesAreServed /\ InPreorder
        /\ Len(frames) \in Nat
        /\ IsWalk(Path, Ordinals, Len(frames))
        /\ \A k \in 1 .. Len(frames) :
             /\ Path[k] = frames[k].node_index
             /\ Ordinals[k] = frames[k].next_child_ordinal /\ Ordinals[k] \in Nat
             /\ k < Len(frames) => frames[k].entered
    BY ServedFrames
  <1>2. /\ Len(frames) # 0 /\ top = Len(frames) /\ Path[Len(frames)] = Node
        /\ Len(frames) \in 1 .. Len(frames)
    BY <1>1, TopFrame DEF FrameInv, Node, top
  <1>3. \A k \in 1 .. Len(frames) :
          PayloadNode(plan, Path[k]) => slots[plan.slot[Path[k]]].obj = Path[k]
    <2>1. \A k \in 1 .. Len(frames) : frames[k].entered
      BY <1>1, <1>2
    <2> QED BY <2>1, ServedFramesHoldPayloads
  <1>4. Following[Len(frames)] = 0
    <2>1. FrameIsServed(Len(frames))
      BY <1>1, <1>2 DEF FramesAreServed
    <2>2. ~(frames[Len(frames)].next_child_ordinal > 0)
      BY <1>2, <2>1 DEF FrameIsServed, StagingPending
    <2>3. Following[Len(frames)] = Ordinals[Len(frames)]
      BY <1>2 DEF Following
    <2> QED BY <1>1, <1>2, <2>2, <2>3
  <1>5. Ahead(Ran, Path, Following, Len(frames)) /\ ConsumedBy(slots, Ran)
    BY <1>1 DEF InPreorder
  <1>6. \A o \in Nat : o < plan.child_counts[Path[Len(frames)]] =>
          \A j \in Ran : j < ChildAt(plan, Path[Len(frames)], o)
    BY <1>2, <1>4, <1>5 DEF Ahead
  <1>7. StagingSourceIsReadable(Path[Len(frames)])
    BY <1>1, <1>2, <1>3, <1>5, <1>6, StagedPayloadIsReadable
  <1> QED BY <1>2, <1>7

(* A step that keeps the plan translates a fact about the next state.      *)
LEMMA InPreorderNext ==
  ASSUME plan' = plan, ConsumedBy(slots, Ran)',
         (subtree_complete' => Consumable') => Ahead(Ran', Path', Following', Len(frames')),
         Len(frames') # 0 /\ ~frames'[Len(frames')].entered =>
           \A j \in Ran' : j < Path'[Len(frames')]
  PROVE  InPreorder'
  BY DEF InPreorder, Ahead

(* Entering a node leaves everything that was ahead still ahead.           *)
LEMMA EnterTopKeepsReads ==
  ASSUME ReadInv, EnterTop
  PROVE  FramesAreServed' /\ InPreorder'
  <1>1. /\ FrameInv /\ pc = "dfs"
    BY DEF EnterTop, Descending, ReadInv, StorageInv, TypeInv
  <1>2. /\ frames # <<>> /\ top \in 1 .. Len(frames) /\ Node \in nodes
        /\ ~frames[top].entered /\ ~subtree_complete /\ plan' = plan
    BY <1>1, EnteringMarksTheTop
  <1>3. PICK status \in Statuses, live \in BOOLEAN :
          /\ EnterNode(Node, status)
          /\ live = PayloadLive(Node, status)
          /\ Len(frames') = Len(frames)
          /\ \A k \in 1 .. Len(frames) : k # top => frames'[k] = frames[k]
          /\ frames'[top] = [frames[top] EXCEPT !.entered = TRUE, !.payload_live = live]
          /\ IF status = "success"
               THEN subtree_complete' = FALSE
               ELSE subtree_complete' = TRUE /\ current_step' = status
    BY <1>1, EnteringMarksTheTop
  <1>4. /\ plan \in Plans
        /\ FramesAreServed /\ InPreorder
        /\ Len(frames) \in Nat
        /\ IsWalk(Path, Ordinals, Len(frames))
        /\ \A k \in 1 .. Len(frames) : frames[k] \in FrameType /\ Following[k] \in Nat
        /\ \A k \in 1 .. Len(frames) - 1 : Following[k] = Ordinals[k] + 1
        /\ slots \in Cells
        /\ outcome \in [nodes -> Statuses \cup {"none", "threw"}]
    BY <1>1, ServedFrames
  <1>5. Len(frames) # 0 /\ top = Len(frames) /\ Path[Len(frames)] = Node
    BY <1>2, <1>4 DEF Path, Node, top
  <1>6. \A k \in 1 .. Len(frames) :
          /\ frames'[k].node_index = frames[k].node_index
          /\ frames'[k].next_child_ordinal = frames[k].next_child_ordinal
          /\ frames'[k].requires_fanout_staging = frames[k].requires_fanout_staging
          /\ frames'[k].fanout_prepared = frames[k].fanout_prepared
    <2>1. frames[top] \in FrameType
      BY <1>2, <1>4
    <2>2. /\ frames'[top].node_index = frames[top].node_index
          /\ frames'[top].next_child_ordinal = frames[top].next_child_ordinal
          /\ frames'[top].requires_fanout_staging = frames[top].requires_fanout_staging
          /\ frames'[top].fanout_prepared = frames[top].fanout_prepared
      BY <1>3, <2>1 DEF FrameType
    <2> QED BY <1>3, <2>2
  <1>7. frames'[top].entered = TRUE /\ frames'[top].payload_live = live
    BY <1>2, <1>3, <1>4 DEF FrameType
  <1>8. FramesAreServed'
    <2>1. SUFFICES ASSUME NEW k \in 1 .. Len(frames) PROVE FrameIsServed(k)'
      BY <1>3 DEF FramesAreServed
    <2>2. FrameIsServed(k) /\ stage' = stage
      BY <1>3, <1>4 DEF FramesAreServed, EnterNode
    <2>3. CASE k # top
      <3>1. frames'[k] = frames[k] /\ k < Len(frames)
        BY <1>3, <1>4, <1>5, <2>3
      <3> QED BY <1>2, <1>3, <2>2, <3>1 DEF FrameIsServed
    <2>4. CASE k = top
      <3>1. ~subtree_complete' /\ PayloadNode(plan, Node) => live
        BY <1>3 DEF PayloadLive
      <3>2. Node = frames[k].node_index
        BY <2>4 DEF Node
      <3>3. frames'[k].entered /\ PayloadNode(plan', frames'[k].node_index)
              /\ (k < Len(frames') \/ ~subtree_complete') => frames'[k].payload_live
        <4>1. ~(k < Len(frames'))
          BY <1>3, <1>4, <1>5, <2>4
        <4>2. frames'[k].node_index = Node /\ frames'[k].payload_live = live
          BY <1>6, <1>7, <2>4, <3>2
        <4> QED BY <1>2, <3>1, <4>1, <4>2
      <3> QED BY <1>2, <1>3, <1>6, <2>2, <3>3 DEF FrameIsServed
    <2> QED BY <2>3, <2>4
  <1>9. Path' = Path /\ Ordinals' = Ordinals
    BY <1>3, <1>6 DEF Path, Ordinals
  <1>10. Following' = Following
    BY <1>3, <1>9 DEF Following
  <1>11. PrevIsReadable(Node)
    BY <1>1, <1>2, TaskFindsItsInput
  <1>12. Ran' = Ran \cup {Node} /\ ConsumedBy(slots, Ran)'
    BY <1>2, <1>3, <1>4, <1>11, EnteringKeepsConsumedBy DEF InPreorder
  <1>13. Ahead(Ran \cup {Path[Len(frames)]}, Path, Following, Len(frames))
    BY <1>2, <1>4, <1>5, EnteringKeepsAhead DEF InPreorder
  <1>14. Ahead(Ran', Path', Following', Len(frames'))
    BY <1>3, <1>5, <1>9, <1>10, <1>12, <1>13
  <1>15. frames'[Len(frames')].entered
    BY <1>3, <1>5, <1>7
  <1> QED BY <1>2, <1>8, <1>12, <1>14, <1>15, InPreorderNext

(* Preparing a fan-out sets the stage that the frame is then marked with.  *)
LEMMA PrepareTopKeepsReads ==
  ASSUME ReadInv, PrepareTop
  PROVE  FramesAreServed' /\ InPreorder'
  <1>1. /\ FrameInv /\ pc = "dfs"
    BY DEF PrepareTop, Descending, ReadInv, StorageInv, TypeInv
  <1>2. /\ frames # <<>> /\ top \in 1 .. Len(frames) /\ Node \in nodes
        /\ frames[top].entered /\ ~subtree_complete
        /\ UNCHANGED <<plan, slots, outcome, current_step, subtree_complete>>
        /\ PrepareFanoutStaging(Node)
        /\ Len(frames') = Len(frames)
        /\ \A k \in 1 .. Len(frames) : k # top => frames'[k] = frames[k]
        /\ frames'[top] = [frames[top] EXCEPT !.fanout_prepared = TRUE]
    BY <1>1, PreparingMarksTheTop
  <1>3. /\ FramesAreServed /\ InPreorder
        /\ Len(frames) \in Nat
        /\ \A k \in 1 .. Len(frames) : frames[k] \in FrameType
        /\ stage \in [nodes -> BOOLEAN]
    BY <1>1, ServedFrames
  <1>4. \A k \in 1 .. Len(frames) :
          /\ frames'[k].node_index = frames[k].node_index
          /\ frames'[k].next_child_ordinal = frames[k].next_child_ordinal
          /\ frames'[k].entered = frames[k].entered
          /\ frames'[k].payload_live = frames[k].payload_live
          /\ frames'[k].requires_fanout_staging = frames[k].requires_fanout_staging
    BY <1>2, <1>3 DEF FrameType
  <1>5. /\ \A i \in nodes : stage[i] => stage'[i]
        /\ plan.staging[Node] => stage'[Node]
    BY <1>2, <1>3 DEF PrepareFanoutStaging
  <1>6. FramesAreServed'
    <2>1. SUFFICES ASSUME NEW k \in 1 .. Len(frames) PROVE FrameIsServed(k)'
      BY <1>2 DEF FramesAreServed
    <2>2. FrameIsServed(k) /\ frames[k].node_index \in nodes
      BY <1>3 DEF FramesAreServed, FrameType
    <2>3. CASE k # top
      <3>1. frames'[k] = frames[k]
        BY <1>2, <2>3
      <3> QED BY <1>2, <1>5, <2>2, <3>1 DEF FrameIsServed
    <2>4. CASE k = top
      <3>1. Node = frames[k].node_index
        BY <2>4 DEF Node
      <3>2. frames'[k].fanout_prepared
        BY <1>2, <1>3, <2>4 DEF FrameType
      <3> QED BY <1>2, <1>4, <1>5, <2>2, <3>1, <3>2 DEF FrameIsServed
    <2> QED BY <2>3, <2>4
  <1>7. Path' = Path /\ Ordinals' = Ordinals
    BY <1>2, <1>4 DEF Path, Ordinals
  <1>8. Following' = Following
    BY <1>2, <1>7 DEF Following
  <1>9. Ran' = Ran /\ ConsumedBy(slots, Ran)'
    BY <1>2, <1>3 DEF Ran, nodes, InPreorder, ConsumedBy
  <1>10. \A k \in 1 .. Len(frames) : frames'[k].entered = frames[k].entered
    BY <1>4
  <1> QED BY <1>2, <1>3, <1>6, <1>7, <1>8, <1>9, <1>10, InPreorderNext
          DEF InPreorder, Consumable

(* Going down: the frame above has its payload and its stage, and the      *)
(* child is behind everything that ran.                                    *)
LEMMA DescendKeepsReads ==
  ASSUME ReadInv, Descend
  PROVE  FramesAreServed' /\ InPreorder'
  <1>1. /\ FrameInv /\ pc = "dfs" /\ frames # <<>> /\ ~subtree_complete
        /\ frames[top].entered /\ ~StagingPending
        /\ UNCHANGED <<plan, slots, stage, outcome, current_step, subtree_complete>>
    BY DEF Descend, Descending, run_vars, ReadInv, StorageInv, TypeInv
  <1>2. /\ plan \in Plans
        /\ FramesAreServed /\ InPreorder
        /\ Len(frames) \in Nat
        /\ IsWalk(Path, Ordinals, Len(frames))
        /\ \A k \in 1 .. Len(frames) :
             /\ frames[k] \in FrameType
             /\ Path[k] = frames[k].node_index
             /\ Ordinals[k] = frames[k].next_child_ordinal /\ Ordinals[k] \in Nat
        /\ \A k \in 1 .. Len(frames) - 1 : Following[k] = Ordinals[k] + 1
        /\ Ran \in SUBSET nodes
    BY <1>1, ServedFrames
  <1>3. /\ Len(frames) # 0 /\ top = Len(frames) /\ Path[Len(frames)] = Node
        /\ Len(frames) \in 1 .. Len(frames)
        /\ frames[top].next_child_ordinal = Ordinals[Len(frames)]
    BY <1>1, <1>2, TopFrame DEF FrameInv, Node, top
  <1>4. PICK c \in nodes :
          /\ c = ChildAt(plan, Node, frames[top].next_child_ordinal)
          /\ Len(frames') = Len(frames) + 1
          /\ \A k \in 1 .. Len(frames) : frames'[k] = frames[k]
          /\ frames'[Len(frames) + 1] = Frame(c)
    BY <1>1, DescendKeepsFrameInv
  <1>5. Ordinals[Len(frames)] < plan.child_counts[Path[Len(frames)]]
    BY <1>1, <1>3, DescendKeepsFrameInv
  <1>6. /\ Frame(c).node_index = c /\ Frame(c).next_child_ordinal = 0
        /\ ~Frame(c).entered /\ ~Frame(c).fanout_prepared
        /\ Frame(c).requires_fanout_staging = plan.staging[c]
    BY DEF Frame
  <1>7. FramesAreServed'
    <2>1. ASSUME NEW k \in 1 .. Len(frames) PROVE FrameIsServed(k)'
      <3>1. /\ FrameIsServed(k) /\ frames'[k] = frames[k]
            /\ k < Len(frames) \/ k = top
        BY <1>2, <1>3, <1>4 DEF FramesAreServed
      <3>2. /\ k < Len(frames) \/ ~subtree_complete
            /\ frames[k].requires_fanout_staging => frames[k].fanout_prepared
        BY <1>1, <3>1 DEF FrameIsServed, StagingPending
      <3> QED BY <1>1, <3>1, <3>2 DEF FrameIsServed
    <2>2. ASSUME NEW k \in Nat, k = Len(frames) + 1 PROVE FrameIsServed(k)'
      <3>1. frames'[k] = Frame(c) /\ Len(frames') = k
        BY <1>4, <2>2
      <3> QED BY <1>1, <1>2, <1>6, <3>1 DEF FrameIsServed
    <2>3. \A k \in 1 .. Len(frames') : k \in Nat /\ (k \in 1 .. Len(frames) \/ k = Len(frames) + 1)
      BY <1>2, <1>4
    <2> QED BY <2>1, <2>2, <2>3 DEF FramesAreServed
  <1>8. /\ \A k \in 1 .. Len(frames) : Path'[k] = Path[k] /\ Ordinals'[k] = Ordinals[k]
        /\ Path'[Len(frames) + 1] = ChildAt(plan, Path[Len(frames)], Ordinals[Len(frames)])
    BY <1>2, <1>3, <1>4, <1>6 DEF Path, Ordinals
  <1>9. \A k \in 1 .. Len(frames) : Following'[k] = Ordinals[k] + 1
    BY <1>2, <1>4, <1>8 DEF Following
  <1>10. Following[Len(frames)] = Ordinals[Len(frames)]
    BY <1>3 DEF Following
  <1>11. Ahead(Ran, Path, Following, Len(frames))
    BY <1>1, <1>2 DEF InPreorder
  <1>12. \A k \in 1 .. Len(frames) - 1 : Following'[k] = Following[k]
    BY <1>2, <1>9
  <1>13. /\ Ahead(Ran, Path', Following', Len(frames) + 1)
         /\ \A j \in Ran : j < Path'[Len(frames) + 1]
    <2>1. Following'[Len(frames)] = Ordinals[Len(frames)] + 1
      BY <1>3, <1>9
    <2>2. PICK more \in Nat : more = Len(frames) + 1
      BY <1>2
    <2>3. Path'[more] = ChildAt(plan, Path[Len(frames)], Ordinals[Len(frames)])
      BY <1>8, <2>2
    <2>4. /\ plan \in Plans /\ Ran \in SUBSET nodes
          /\ IsWalk(Path, Ordinals, Len(frames)) /\ Len(frames) # 0
          /\ Ahead(Ran, Path, Following, Len(frames))
          /\ Following[Len(frames)] = Ordinals[Len(frames)]
          /\ Ordinals[Len(frames)] < plan.child_counts[Path[Len(frames)]]
          /\ \A k \in 1 .. Len(frames) : Path'[k] = Path[k]
          /\ \A k \in 1 .. Len(frames) - 1 : Following'[k] = Following[k]
      BY <1>2, <1>3, <1>5, <1>8, <1>10, <1>11, <1>12
    <2>5. GoesDown(Path, Ordinals, Following, Len(frames), Path', Following', more)
      BY <2>1, <2>2, <2>3, <2>4 DEF GoesDown
    <2>6. Ahead(Ran, Path', Following', more)
      BY <2>4, <2>5, DescendingKeepsAhead
    <2>7. \A j \in Ran : j < Path'[more]
      BY <2>3, <2>4, NextChildIsAhead
    <2> QED BY <2>2, <2>6, <2>7
  <1>14. Ran' = Ran /\ ConsumedBy(slots, Ran)'
    BY <1>1, <1>2 DEF Ran, nodes, InPreorder, ConsumedBy
  <1> QED BY <1>1, <1>4, <1>7, <1>13, <1>14, InPreorderNext

(* Leaving a frame touches no other frame's stage, and moves its parent's  *)
(* ordinal past the child that is done.                                    *)
LEMMA LeavingKeepsReads ==
  ASSUME ReadInv, LeaveAndAdvance \/ LeaveAndUnwind
  PROVE  FramesAreServed' /\ InPreorder'
  <1>1. FrameInv /\ pc = "dfs"
    BY DEF LeaveAndAdvance, LeaveAndUnwind, ReadInv, StorageInv, TypeInv
  <1>2. /\ top \in 2 .. Len(frames) /\ frames # <<>> /\ Node \in nodes
        /\ subtree_complete /\ DestroyTop
        /\ UNCHANGED <<plan, outcome>>
        /\ BelowTopKept
        /\ \/ /\ Consumable
              /\ frames'[top - 1].next_child_ordinal = frames[top - 1].next_child_ordinal + 1
           \/ /\ ~Consumable /\ ~Consumable' /\ subtree_complete'
              /\ frames'[top - 1].next_child_ordinal = frames[top - 1].next_child_ordinal
    BY <1>1, LeavingKeepsTheRest
  <1>3. /\ plan \in Plans
        /\ FramesAreServed /\ InPreorder
        /\ Len(frames) \in Nat
        /\ IsWalk(Path, Ordinals, Len(frames))
        /\ \A k \in 1 .. Len(frames) :
             /\ frames[k] \in FrameType
             /\ Path[k] = frames[k].node_index /\ Path[k] \in nodes
             /\ Ordinals[k] = frames[k].next_child_ordinal /\ Ordinals[k] \in Nat
             /\ k < Len(frames) => frames[k].entered
        /\ \A k \in 1 .. Len(frames) - 1 : Following[k] = Ordinals[k] + 1
        /\ slots \in Cells
        /\ stage \in [nodes -> BOOLEAN]
    BY <1>1, ServedFrames
  <1>4. /\ top = Len(frames) /\ Len(frames) - 1 \in 1 .. Len(frames) - 1
        /\ Len(frames) \in 1 .. Len(frames) /\ Path[Len(frames)] = Node
        /\ Len(frames') = Len(frames) - 1
    BY <1>2, <1>3 DEF top, Node, BelowTopKept
  <1>5. \A k \in 1 .. Len(frames) - 1 : Path[k] # Node /\ stage'[Path[k]] = stage[Path[k]]
    <2>1. \A k \in 1 .. Len(frames) - 1 : Path[k] < Path[Len(frames)]
      BY <1>3, <1>4, WalkRises
    <2>2. \A k \in 1 .. Len(frames) - 1 : Path[k] \in nodes /\ Path[k] \in Nat /\ Path[k] # Node
      BY <1>2, <1>3, <1>4, <2>1, RootIsANode
    <2> QED BY <1>2, <1>3, <2>2 DEF DestroyTop, DestroyFanoutStaging
  <1>6. FramesAreServed'
    <2>1. SUFFICES ASSUME NEW k \in 1 .. Len(frames) - 1 PROVE FrameIsServed(k)'
      BY <1>4 DEF FramesAreServed
    <2>2. /\ k \in 1 .. Len(frames) /\ k < Len(frames) /\ FrameIsServed(k)
          /\ Path[k] = frames[k].node_index
      BY <1>3 DEF FramesAreServed
    <2>3. /\ frames'[k].node_index = frames[k].node_index
          /\ frames'[k].entered = frames[k].entered
          /\ frames'[k].payload_live = frames[k].payload_live
          /\ frames'[k].requires_fanout_staging = frames[k].requires_fanout_staging
          /\ frames'[k].fanout_prepared = frames[k].fanout_prepared
      BY <1>2 DEF BelowTopKept
    <2> QED BY <1>2, <1>5, <2>2, <2>3 DEF FrameIsServed
  <1>7. slots' \in {slots, Destroy(slots, live_slots, Node)}
    BY <1>2 DEF DestroyTop
  <1>8. ConsumedBy(slots, Ran)' /\ Ran' = Ran
    BY <1>2, <1>3, <1>7, LeavingKeepsConsumedBy DEF InPreorder, Ran, nodes
  <1>9. \A k \in 1 .. Len(frames) - 1 :
          Path'[k] = Path[k] /\ Ordinals'[k] = frames'[k].next_child_ordinal
    BY <1>2, <1>3, <1>4 DEF Path, Ordinals, BelowTopKept
  <1>10. frames'[Len(frames')].entered
    BY <1>2, <1>3, <1>4 DEF BelowTopKept
  <1>11. CASE Consumable /\ frames'[top - 1].next_child_ordinal
                             = frames[top - 1].next_child_ordinal + 1
    <2>1. \A k \in 1 .. Len(frames) - 1 : Following'[k] = Following[k]
      <3>1. SUFFICES ASSUME NEW k \in 1 .. Len(frames) - 1 PROVE Following'[k] = Ordinals[k] + 1
        BY <1>3
      <3>2. CASE k < Len(frames) - 1
        <4>1. k \in 1 .. Len(frames) - 2
          BY <1>3, <3>2
        <4>2. frames'[k].next_child_ordinal = frames[k].next_child_ordinal
          BY <1>2, <4>1 DEF BelowTopKept
        <4>3. Ordinals'[k] = Ordinals[k]
          BY <1>3, <1>9, <4>2
        <4> QED BY <1>4, <3>2, <4>3 DEF Following
      <3>3. CASE k = Len(frames) - 1
        <4>1. Ordinals'[k] = Ordinals[k] + 1
          BY <1>3, <1>4, <1>9, <1>11, <3>3
        <4> QED BY <1>3, <1>4, <3>3, <4>1 DEF Following
      <3> QED BY <1>3, <3>2, <3>3
    <2>2. Ahead(Ran, Path, Following, Len(frames))
      BY <1>3, <1>11 DEF InPreorder
    <2>3. Ahead(Ran', Path', Following', Len(frames'))
      <3>1. \A k \in 1 .. Len(frames) - 1 : k \in 1 .. Len(frames)
        BY <1>3
      <3> QED BY <1>4, <1>8, <1>9, <2>1, <2>2, <3>1 DEF Ahead
    <2> QED BY <1>2, <1>6, <1>8, <1>10, <2>3, InPreorderNext
  <1>12. CASE ~Consumable' /\ subtree_complete'
    BY <1>2, <1>6, <1>8, <1>10, <1>12, InPreorderNext
  <1> QED BY <1>2, <1>11, <1>12

(* ReadInv holds at the start: nothing has run.                            *)
LEMMA ReadInvInit == Init => ReadInv
  <1> SUFFICES ASSUME Init PROVE ReadInv
    OBVIOUS
  <1>1. StorageInv
    BY StorageInvInit
  <1>2. Len(frames) = 1 /\ frames[1] = Frame(0) /\ plan \in Plans
    BY DEF Init, RunInit
  <1>3. Ran = {}
    BY DEF Ran, Init, RunInit
  <1>4. FrameIsServed(1)
    BY <1>2 DEF FrameIsServed, Frame
  <1>5. FramesAreServed
    BY <1>2, <1>4 DEF FramesAreServed
  <1>6. \A s \in 0 .. plan.n_slots - 1 : slots[s].obj \notin nodes
    BY <1>2, RunInitIsSound, RootIsANode DEF Init, NoObject
  <1>7. InPreorder
    BY <1>3, <1>6 DEF InPreorder, ConsumedBy, Ahead
  <1> QED BY <1>1, <1>5, <1>7 DEF ReadInv

(* Every step keeps what tasks read in place.                              *)
LEMMA ReadInvStep ==
  ASSUME ReadInv, [Next]_vars
  PROVE  ReadInv'
  <1>1. StorageInv'
    BY StorageInvStep DEF ReadInv
  <1>2. CASE EnterTop
    BY <1>1, <1>2, EnterTopKeepsReads DEF ReadInv
  <1>3. CASE PrepareTop
    BY <1>1, <1>3, PrepareTopKeepsReads DEF ReadInv
  <1>4. CASE Descend
    BY <1>1, <1>4, DescendKeepsReads DEF ReadInv
  <1>5. CASE LeaveAndAdvance \/ LeaveAndUnwind
    BY <1>1, <1>5, LeavingKeepsReads DEF ReadInv
  <1>6. CASE FinishTop
    <2>1. /\ pc = "dfs" /\ frames # <<>> /\ frames[top].entered /\ ~subtree_complete
          /\ UNCHANGED <<plan, slots, stage, outcome, frames>>
          /\ subtree_complete' = TRUE
      BY <1>6 DEF FinishTop, Descending, run_vars
    <2>2. FramesAreServed /\ InPreorder
      BY <2>1 DEF ReadInv
    <2>3. FramesAreServed'
      BY <2>1, <2>2 DEF FramesAreServed, FrameIsServed
    <2>4. /\ Path' = Path /\ Ordinals' = Ordinals
          /\ Following' = Following /\ Ran' = Ran
      BY <2>1 DEF Path, Ordinals, Following, Ran, nodes
    <2>5. ConsumedBy(slots, Ran)'
      BY <2>1, <2>2 DEF InPreorder, ConsumedBy, Ran, nodes
    <2>6. InPreorder'
      BY <2>1, <2>2, <2>4, <2>5, InPreorderNext DEF InPreorder, top
    <2> QED BY <1>1, <2>3, <2>6 DEF ReadInv
  <1>7. CASE LeaveRoot \/ EnterTopThrows \/ PrepareTopThrows
    <2>1. pc' = "fanout_dtor"
      BY <1>7 DEF LeaveRoot, EnterTopThrows, PrepareTopThrows, EscapeLoop
    <2> QED BY <1>1, <2>1 DEF ReadInv
  <1>8. CASE Leave
    <2>1. pc' # "dfs"
      BY <1>8, LeaveRunPlanIsTyped
         DEF Leave, ReadInv, StorageInv, TypeInv, TypeOK, FrameInv
    <2> QED BY <1>1, <2>1 DEF ReadInv
  <1>9. CASE Done \/ UNCHANGED vars
    <2>1. UNCHANGED <<plan, pc, slots, stage, outcome, frames, current_step, subtree_complete>>
      BY <1>9 DEF Done, vars, run_vars, loop
    <2>2. pc' = "dfs" => FramesAreServed' /\ InPreorder'
      BY <2>1 DEF ReadInv, FramesAreServed, FrameIsServed, InPreorder, ConsumedBy, Ahead, Ran,
                  nodes, Path, Ordinals, Following, Consumable
    <2> QED BY <1>1, <2>2 DEF ReadInv
  <1> QED BY <1>2, <1>3, <1>4, <1>5, <1>6, <1>7, <1>8, <1>9 DEF Next, Step

(* A task about to run finds its parent's output alive and not moved from  *)
(* by an earlier reader, and a payload about to be staged is still intact: *)
(* for plans of any size and shape, whatever tasks report or throw.        *)
THEOREM TasksFindTheirInputs == Spec => []PrevReadable
  <1>1. ReadInv /\ [Next]_vars => ReadInv'
    BY ReadInvStep
  <1>2. ReadInv => PrevReadable
    BY TaskFindsItsInput, StagingFindsItsSource DEF PrevReadable, Descending
  <1> QED BY <1>1, <1>2, ReadInvInit, PTL DEF Spec

-------------------------------------------------------------------------------
(* What a run promises.                                                    *)

(* The loop goes on from the frames that are not being left, and may be    *)
(* about to enter the last of them.                                        *)
Going    == IF subtree_complete THEN Len(frames) - 1 ELSE Len(frames)
Entering == ~subtree_complete /\ Len(frames) # 0 /\ ~frames[Len(frames)].entered

(* No task has ended the run: those of the frames the loop goes on from    *)
(* succeeded, and what is due is what these frames go on to.  The root's   *)
(* own result is what the loop returns.                                    *)
Proceeding ==
  /\ \A i \in nodes : outcome[i] \notin Ending
  /\ \A k \in 1 .. Going :
       IF frames[k].entered
       THEN outcome[Path[k]] = "success"
       ELSE frames[k].next_child_ordinal = 0
  /\ Frontier(outcome, Path, Following, Going, Entering)
  /\ subtree_complete /\ Len(frames) <= 1 =>
       (outcome[0] = "abort_branch" <=> current_step = "abort_branch")

(* Either some task has ended the run, and what is passed up is what it    *)
(* reported, or the run proceeds; payloads are all that is stored.         *)
PromiseInv ==
  /\ ReadInv
  /\ pc = "dfs" => result = "none" /\ frames # <<>>
  /\ result # "exception" =>
       /\ OnlyPayloads
       /\ pc # "dfs" => result = current_step /\ frames = <<>> /\ subtree_complete
       /\ IF subtree_complete /\ current_step \in Ending
            THEN EndReported(current_step) ELSE Proceeding

(* What the invariants give about the top frame while the loop runs.       *)
LEMMA PromisedFrames ==
  ASSUME PromiseInv, pc = "dfs"
  PROVE  /\ plan \in Plans /\ FrameInv /\ StorageInv /\ ReadInv
         /\ result = "none" /\ OnlyPayloads
         /\ IF subtree_complete /\ current_step \in Ending
              THEN EndReported(current_step) ELSE Proceeding
         /\ Len(frames) \in Nat \ {0} /\ frames # <<>>
         /\ top = Len(frames) /\ Len(frames) \in 1 .. Len(frames)
         /\ IsWalk(Path, Ordinals, Len(frames))
         /\ Path[Len(frames)] = Node /\ Node \in nodes
         /\ \A k \in 1 .. Len(frames) :
              /\ frames[k] \in FrameType
              /\ Path[k] = frames[k].node_index /\ Path[k] \in nodes
              /\ Ordinals[k] = frames[k].next_child_ordinal /\ Ordinals[k] \in Nat
              /\ Following[k] \in Nat
         /\ \A k \in 1 .. Len(frames) - 1 : Following[k] = Ordinals[k] + 1 /\ frames[k].entered
         /\ Following[Len(frames)] = Ordinals[Len(frames)]
         /\ outcome \in [nodes -> Statuses \cup {"none", "threw"}]
         /\ current_step \in Statuses
  <1>1. /\ ReadInv /\ result = "none" /\ frames # <<>> /\ OnlyPayloads
        /\ IF subtree_complete /\ current_step \in Ending
             THEN EndReported(current_step) ELSE Proceeding
        /\ current_step \in Statuses
    BY DEF PromiseInv, ReadInv, StorageInv, TypeInv, TypeOK
  <1>2. /\ plan \in Plans /\ FrameInv /\ StorageInv
        /\ IsWalk(Path, Ordinals, Len(frames))
        /\ \A k \in 1 .. Len(frames) :
             /\ frames[k] \in FrameType
             /\ Path[k] = frames[k].node_index /\ Path[k] \in nodes
             /\ Ordinals[k] = frames[k].next_child_ordinal /\ Ordinals[k] \in Nat
             /\ Following[k] \in Nat
             /\ k < Len(frames) => frames[k].entered
        /\ \A k \in 1 .. Len(frames) - 1 : Following[k] = Ordinals[k] + 1
        /\ outcome \in [nodes -> Statuses \cup {"none", "threw"}]
    BY <1>1, ServedFrames
  <1>3. /\ Len(frames) \in Nat \ {0} /\ top = Len(frames) /\ Len(frames) \in 1 .. Len(frames)
        /\ Node \in nodes
    BY <1>1, <1>2, TopFrame DEF FrameInv, top
  <1>4. Path[Len(frames)] = Node /\ Following[Len(frames)] = Ordinals[Len(frames)]
    BY <1>2, <1>3 DEF Node, Following
  <1>5. \A k \in 1 .. Len(frames) - 1 : frames[k].entered
    BY <1>2, <1>3
  <1> QED BY <1>1, <1>2, <1>3, <1>4, <1>5

(* What they give about a node whose task is about to run.                 *)
LEMMA PromisedEntry ==
  ASSUME PromiseInv, Descending, ~frames[top].entered
  PROVE  /\ pc = "dfs" /\ ~subtree_complete
         /\ Proceeding
         /\ Frontier(outcome, Path, Following, Len(frames), TRUE)
         /\ Following[Len(frames)] = 0
         /\ \A j \in Ran : j < Path[Len(frames)]
  <1>1. pc = "dfs" /\ ~subtree_complete
    BY DEF Descending
  <1>2. /\ ReadInv /\ Proceeding /\ top = Len(frames) /\ Len(frames) \in 1 .. Len(frames)
        /\ Len(frames) # 0
        /\ Following[Len(frames)] = Ordinals[Len(frames)]
        /\ Ordinals[Len(frames)] = frames[Len(frames)].next_child_ordinal
    BY <1>1, PromisedFrames
  <1>3. Going = Len(frames)
    BY <1>1 DEF Going
  <1>4. Frontier(outcome, Path, Following, Len(frames), TRUE) /\ Following[Len(frames)] = 0
    BY <1>2, <1>3 DEF Proceeding, Frontier
  <1>5. \A j \in Ran : j < Path[Len(frames)]
    BY <1>1, <1>2 DEF ReadInv, InPreorder
  <1> QED BY <1>1, <1>2, <1>4, <1>5

(* What they give about a frame that is left: what is due is above it, or  *)
(* its task or one below it ended the run.                                 *)
LEMMA PromisedLeave ==
  ASSUME PromiseInv, pc = "dfs", subtree_complete
  PROVE  IF current_step \in Ending
           THEN EndReported(current_step)
           ELSE Proceeding /\ Frontier(outcome, Path, Following, Len(frames) - 1, FALSE)
  <1>1. Going = Len(frames) - 1 /\ ~Entering
    BY DEF Going, Entering
  <1>2. CASE current_step \in Ending
    BY <1>2, PromisedFrames
  <1>3. CASE current_step \notin Ending
    BY <1>1, <1>3, PromisedFrames DEF Proceeding, Frontier
  <1> QED BY <1>2, <1>3

-------------------------------------------------------------------------------
(* What each step does to what is stored.                                  *)

(* A task that leaves a payload adds it to what is stored.                 *)
LEMMA StoredAfterEntering ==
  ASSUME StorageInv, pc = "dfs", frames # <<>>, ~frames[top].entered,
         NEW status \in Statuses, EnterNode(Node, status)
  PROVE  Stored' = IF PayloadLive(Node, status) THEN Stored \cup {Node} ELSE Stored
  <1>1. plan \in Plans /\ Node \in nodes /\ slots \in Cells
    BY TopFrame DEF StorageInv, TypeInv, FrameInv, Sound
  <1>2. PICK live \in BOOLEAN : live = PayloadLive(Node, status)
    BY DEF PayloadLive
  <1>3. /\ slots' \in Cells
        /\ live => PayloadNode(plan, Node) /\ slots[plan.slot[Node]].obj = NoObject
        /\ \A s \in 0 .. plan.n_slots - 1 :
             slots'[s].obj = IF live /\ s = plan.slot[Node] THEN Node ELSE slots[s].obj
    BY <1>2, EnteringFillsTheSlot DEF Sound
  <1>4. Stored' = IF live THEN Stored \cup {Node} ELSE Stored
    BY <1>1, <1>3, FillingStores
  <1> QED BY <1>2, <1>4

(* A frame that is left takes its payload with it.                         *)
LEMMA StoredAfterLeaving ==
  ASSUME StorageInv, pc = "dfs", frames # <<>>, DestroyTop
  PROVE  /\ Stored' = IF frames[top].payload_live THEN Stored \ {Node} ELSE Stored
         /\ frames[top].payload_live => Node \in Stored
  <1>1. /\ plan \in Plans /\ Node \in nodes /\ slots \in Cells /\ AtHome(slots)
        /\ frames[top].payload_live \in BOOLEAN
    BY TopFrame DEF StorageInv, TypeInv, FrameInv, Sound, FrameType
  <1>2. PICK live \in BOOLEAN : live = frames[top].payload_live
    BY <1>1
  <1>3. /\ slots' \in Cells
        /\ live => PayloadNode(plan, Node) /\ slots[plan.slot[Node]].obj = Node
        /\ \A s \in 0 .. plan.n_slots - 1 :
             slots'[s].obj = IF live /\ s = plan.slot[Node] THEN NoObject ELSE slots[s].obj
    BY <1>2, DestroyTopEmptiesTheSlot DEF Sound
  <1>4. Stored' = (IF live THEN Stored \ {Node} ELSE Stored) /\ (live => Node \in Stored)
    BY <1>1, <1>3, EmptyingUnstores
  <1> QED BY <1>2, <1>4

(* Until something throws, every step leaves only payloads in the slots.   *)
LEMMA OnlyPayloadsStep ==
  ASSUME PromiseInv, [Next]_vars, result' # "exception"
  PROVE  OnlyPayloads'
  <1>1. /\ StorageInv /\ plan \in Plans /\ RunTypeOK /\ Sound(slots, live_slots)
        /\ CleanupProgress /\ cleanup \in 0 .. plan.n
        /\ pc = "dfs" => result = "none" /\ frames # <<>>
        /\ result # "exception" => OnlyPayloads
    BY DEF PromiseInv, ReadInv, StorageInv, TypeInv, TypeOK, FrameInv, RunTypeOK
  <1>2. NoObject # Poisoned /\ \A i \in nodes : i # Poisoned
    BY <1>1, RootIsANode DEF NoObject, Poisoned
  <1>3. CASE EnterTop
    <2>1. /\ pc = "dfs" /\ pc' = "dfs" /\ plan' = plan /\ ~frames[top].entered /\ frames # <<>>
      BY <1>3 DEF EnterTop, Descending
    <2>2. PICK status \in Statuses : EnterNode(Node, status)
      BY <1>3 DEF EnterTop
    <2>3. Node \in nodes
      BY <2>1, PromisedFrames
    <2>4. \A s \in 0 .. plan.n_slots - 1 :
            slots'[s].obj = IF PayloadLive(Node, status) /\ s = plan.slot[Node]
                              THEN Node ELSE slots[s].obj
      BY <1>1, <2>1, <2>2, EnteringFillsTheSlot
    <2> QED BY <1>1, <1>2, <2>1, <2>3, <2>4 DEF OnlyPayloads
  <1>4. CASE PrepareTop \/ FinishTop \/ Descend
    <2>1. pc = "dfs" /\ UNCHANGED <<plan, pc, slots>>
      BY <1>4 DEF PrepareTop, FinishTop, Descend, Descending, run_vars
    <2> QED BY <1>1, <2>1 DEF OnlyPayloads
  <1>5. CASE LeaveRoot \/ LeaveAndAdvance \/ LeaveAndUnwind
    <2>1. pc = "dfs" /\ DestroyTop /\ plan' = plan /\ frames # <<>> /\ OnlyPayloads
      BY <1>1, <1>5 DEF LeaveRoot, LeaveAndAdvance, LeaveAndUnwind
    <2>2. /\ slots' \in Cells
          /\ Held(slots', Path, Holds, Len(frames) - 1)
          /\ \A s \in 0 .. plan.n_slots - 1 : slots'[s].obj \in {NoObject, slots[s].obj}
      BY <1>1, <2>1, DestroyTopEmptiesTheSlot DEF Sound
    <2>3. \A s \in 0 .. plan.n_slots - 1 : slots'[s].obj # Poisoned
      BY <1>2, <2>1, <2>2 DEF OnlyPayloads
    <2>4. CASE LeaveRoot
      <3>1. Len(frames) - 1 = 0
        BY <2>4 DEF LeaveRoot
      <3>2. Held(slots', Path, Holds, 0)
        BY <2>2, <3>1
      <3> QED BY <2>1, <2>2, <2>3, <3>2, NothingIsHeld DEF OnlyPayloads
    <2>5. CASE LeaveAndAdvance \/ LeaveAndUnwind
      <3>1. pc' = "dfs"
        BY <2>1, <2>5 DEF LeaveAndAdvance, LeaveAndUnwind
      <3> QED BY <2>1, <2>3, <3>1 DEF OnlyPayloads
    <2> QED BY <1>5, <2>4, <2>5
  <1>6. CASE EnterTopThrows \/ PrepareTopThrows
    BY <1>6 DEF EnterTopThrows, PrepareTopThrows, EscapeLoop
  <1>7. CASE Leave
    <2>1. pc # "dfs" /\ plan' = plan /\ result' = result /\ LeaveRunPlan
      BY <1>1, <1>7, LeaveRunPlanIsTyped DEF Leave
    <2>2. \A s \in 0 .. plan.n_slots - 1 : slots'[s].obj = NoObject
      BY <1>1, <2>1, LeavingStoresNothing DEF OnlyPayloads
    <2> QED BY <1>2, <2>1, <2>2 DEF OnlyPayloads
  <1>8. CASE Done \/ UNCHANGED vars
    <2>1. UNCHANGED <<plan, pc, slots, result>>
      BY <1>8 DEF Done, vars, run_vars
    <2> QED BY <1>1, <2>1 DEF OnlyPayloads
  <1> QED BY <1>3, <1>4, <1>5, <1>6, <1>7, <1>8 DEF Next, Step

-------------------------------------------------------------------------------
(* What the loop goes on to, step by step.                                 *)

(* A step that keeps the plan translates a fact about the next state.      *)
LEMMA ProceedingNext ==
  ASSUME plan' = plan,
         \A i \in nodes : outcome'[i] \notin Ending,
         NEW going, going = Going',
         \A k \in 1 .. going :
           IF frames'[k].entered THEN outcome'[Path'[k]] = "success"
                                 ELSE frames'[k].next_child_ordinal = 0,
         NEW entering \in BOOLEAN, entering => Entering',
         Frontier(outcome', Path', Following', going, entering),
         subtree_complete' /\ Len(frames') <= 1 =>
           (outcome'[0] = "abort_branch" <=> current_step' = "abort_branch")
  PROVE  Proceeding'
  <1>1. nodes' = nodes
    BY DEF nodes
  <1>2. Frontier(outcome, Path, Following, Going, Entering)'
    BY <1>1 DEF Frontier, Pending
  <1> QED BY <1>1, <1>2 DEF Proceeding, Ending

(* So does one about what was reported.                                    *)
LEMMA EndReportedNext ==
  ASSUME plan' = plan, NEW i \in nodes, outcome'[i] \in Ending,
         \A j \in nodes : outcome'[j] \in Ending => outcome'[j] = current_step'
  PROVE  EndReported(current_step)'
  BY DEF EndReported, Ending, nodes

(* Inside the loop.                                                        *)
LEMMA PromiseNext ==
  ASSUME PromiseInv, ReadInv', OnlyPayloads', pc' = "dfs", result' = "none", frames' # <<>>,
         IF subtree_complete' /\ current_step' \in Ending
           THEN EndReported(current_step)' ELSE Proceeding'
  PROVE  PromiseInv'
  BY DEF PromiseInv, Ending

(* Frames that keep their nodes and ordinals are the same walk.            *)
LEMMA MarkingKeepsTheWalk ==
  ASSUME Len(frames') = Len(frames),
         \A k \in 1 .. Len(frames) :
           /\ frames'[k].node_index = frames[k].node_index
           /\ frames'[k].next_child_ordinal = frames[k].next_child_ordinal
  PROVE  Path' = Path /\ Ordinals' = Ordinals /\ Following' = Following
  <1>1. Path' = Path /\ Ordinals' = Ordinals
    BY DEF Path, Ordinals
  <1> QED BY <1>1 DEF Following

(* A task that runs: its children are gone on to, or nothing below it.     *)
LEMMA EnterTopKeepsPromise ==
  ASSUME PromiseInv, ReadInv', OnlyPayloads', EnterTop
  PROVE  PromiseInv'
  <1>1. FrameInv /\ Descending /\ ~frames[top].entered
    BY DEF EnterTop, PromiseInv, ReadInv, StorageInv, TypeInv
  <1>2. /\ pc = "dfs" /\ ~subtree_complete /\ Proceeding
        /\ Frontier(outcome, Path, Following, Len(frames), TRUE)
        /\ Following[Len(frames)] = 0
    BY <1>1, PromisedEntry
  <1>3. /\ plan \in Plans /\ result = "none"
        /\ Len(frames) \in Nat \ {0} /\ top = Len(frames) /\ Len(frames) \in 1 .. Len(frames)
        /\ IsWalk(Path, Ordinals, Len(frames)) /\ Path[Len(frames)] = Node /\ Node \in nodes
        /\ \A k \in 1 .. Len(frames) : frames[k] \in FrameType /\ Path[k] \in nodes
        /\ \A k \in 1 .. Len(frames) - 1 : frames[k].entered
        /\ outcome \in [nodes -> Statuses \cup {"none", "threw"}]
    BY <1>2, PromisedFrames
  <1>4. UNCHANGED <<plan, pc, result>>
    BY <1>1, EnteringMarksTheTop
  <1>5. PICK status \in Statuses, live \in BOOLEAN :
          /\ EnterNode(Node, status)
          /\ Len(frames') = Len(frames)
          /\ \A k \in 1 .. Len(frames) : k # top => frames'[k] = frames[k]
          /\ frames'[top] = [frames[top] EXCEPT !.entered = TRUE, !.payload_live = live]
          /\ IF status = "success"
               THEN subtree_complete' = FALSE
               ELSE subtree_complete' = TRUE /\ current_step' = status
    BY <1>1, EnteringMarksTheTop
  <1>6. /\ frames'[top].node_index = frames[top].node_index
        /\ frames'[top].next_child_ordinal = frames[top].next_child_ordinal
        /\ frames'[top].entered
    <2>1. frames[top] \in FrameType
      BY <1>3
    <2> QED BY <1>5, <2>1 DEF FrameType
  <1>7. \A k \in 1 .. Len(frames) :
          /\ frames'[k].node_index = frames[k].node_index
          /\ frames'[k].next_child_ordinal = frames[k].next_child_ordinal
          /\ frames'[k].entered
    <2>1. \A k \in 1 .. Len(frames) : k # top => k \in 1 .. Len(frames) - 1
      BY <1>3
    <2> QED BY <1>3, <1>5, <1>6, <2>1
  <1>8. Path' = Path /\ Following' = Following
    BY <1>5, <1>7, MarkingKeepsTheWalk
  <1>9. /\ Reports(outcome, Path[Len(frames)], status, outcome')
        /\ outcome'[Node] = status
        /\ \A j \in nodes : j # Node => outcome'[j] = outcome[j]
    <2>1. outcome' = [outcome EXCEPT ![Node] = status]
      BY <1>5 DEF EnterNode
    <2> QED BY <1>3, <2>1 DEF Reports
  <1>10. /\ frames' # <<>> /\ pc' = "dfs" /\ result' = "none"
         /\ \A i \in nodes : outcome[i] \notin Ending
         /\ \A k \in 1 .. Len(frames) - 1 : outcome[Path[k]] = "success"
    <2>1. Len(<<>>) = 0
      OBVIOUS
    <2>2. Going = Len(frames)
      BY <1>2 DEF Going
    <2> QED BY <1>2, <1>3, <1>4, <1>5, <2>1, <2>2 DEF Proceeding
  <1>11. \A k \in 1 .. Len(frames) - 1 : outcome'[Path[k]] = "success"
    <2>1. SUFFICES ASSUME NEW k \in 1 .. Len(frames) - 1 PROVE Path[k] # Node
      BY <1>3, <1>9, <1>10
    <2>2. Path[k] < Path[Len(frames)]
      BY <1>3, WalkRises
    <2>3. k \in 1 .. Len(frames) /\ Path[k] \in Nat
      BY <1>3, RootIsANode
    <2> QED BY <1>3, <2>2, <2>3
  <1>12. CASE status = "success"
    <2>1. Going' = Len(frames) /\ ~subtree_complete'
      BY <1>5, <1>12 DEF Going
    <2>2. Frontier(outcome', Path', Following', Len(frames), FALSE)
      <3>1. Frontier(outcome', Path, Following, Len(frames), FALSE)
        BY <1>2, <1>3, <1>9, <1>12, SuccessKeepsFrontier
      <3> QED BY <1>8, <3>1
    <2>3. \A k \in 1 .. Len(frames) : outcome'[Path'[k]] = "success"
      <3>1. \A k \in 1 .. Len(frames) : k = Len(frames) \/ k \in 1 .. Len(frames) - 1
        BY <1>3
      <3> QED BY <1>3, <1>8, <1>9, <1>11, <1>12, <3>1
    <2>4. \A i \in nodes : outcome'[i] \notin Ending
      BY <1>9, <1>10, <1>12 DEF Ending
    <2>5. Proceeding'
      BY <1>4, <1>7, <2>1, <2>2, <2>3, <2>4, ProceedingNext
    <2> QED BY <1>10, <2>1, <2>5, PromiseNext
  <1>13. CASE status = "abort_branch"
    <2>1. Going' = Len(frames) - 1 /\ subtree_complete' /\ current_step' = "abort_branch"
      BY <1>5, <1>13 DEF Going
    <2>2. Frontier(outcome', Path', Following', Len(frames) - 1, FALSE)
      <3>1. SameStart(Path, Following, Len(frames) - 1, Path, Following)
        BY DEF SameStart
      <3>2. Following[Len(frames)] \in Nat
        BY <1>2
      <3>3. Frontier(outcome', Path, Following, Len(frames) - 1, FALSE)
        BY <1>2, <1>3, <1>9, <1>13, <3>1, <3>2, RefusalKeepsFrontier
      <3> QED BY <1>8, <3>3
    <2>3. \A k \in 1 .. Len(frames) - 1 : outcome'[Path'[k]] = "success" /\ frames'[k].entered
      <3>1. \A k \in 1 .. Len(frames) - 1 : k \in 1 .. Len(frames)
        BY <1>3
      <3> QED BY <1>7, <1>8, <1>11, <3>1
    <2>4. \A i \in nodes : outcome'[i] \notin Ending
      BY <1>9, <1>10, <1>13 DEF Ending
    <2>5. Len(frames') <= 1 => outcome'[0] = "abort_branch"
      <3>1. Len(frames) <= 1 => Node = 0
        BY <1>3 DEF IsWalk
      <3> QED BY <1>5, <1>9, <1>13, <3>1
    <2>6. Proceeding'
      BY <1>4, <2>1, <2>2, <2>3, <2>4, <2>5, ProceedingNext
    <2> QED BY <1>10, <2>1, <2>6, PromiseNext DEF Ending
  <1>14. CASE status \notin {"success", "abort_branch"}
    <2>1. subtree_complete' /\ current_step' = status /\ status \in Ending
      BY <1>5, <1>14 DEF Statuses, Ending
    <2>2. EndReported(current_step)'
      BY <1>3, <1>4, <1>9, <1>10, <2>1, EndReportedNext
    <2> QED BY <1>10, <2>1, <2>2, PromiseNext
  <1> QED BY <1>12, <1>13, <1>14

(* Preparing a fan-out goes on to the same children.                       *)
LEMMA PrepareTopKeepsPromise ==
  ASSUME PromiseInv, ReadInv', OnlyPayloads', PrepareTop
  PROVE  PromiseInv'
  <1>1. FrameInv
    BY DEF PromiseInv, ReadInv, StorageInv, TypeInv
  <1>2. /\ pc = "dfs" /\ ~subtree_complete /\ frames[top].entered
        /\ UNCHANGED <<plan, pc, result, outcome, current_step, subtree_complete>>
        /\ Len(frames') = Len(frames)
        /\ \A k \in 1 .. Len(frames) : k # top => frames'[k] = frames[k]
        /\ frames'[top] = [frames[top] EXCEPT !.fanout_prepared = TRUE]
    BY <1>1, PreparingMarksTheTop
  <1>3. /\ Proceeding /\ result = "none"
        /\ Len(frames) \in Nat \ {0} /\ top = Len(frames) /\ Len(frames) \in 1 .. Len(frames)
        /\ \A k \in 1 .. Len(frames) : frames[k] \in FrameType
    BY <1>2, PromisedFrames
  <1>4. \A k \in 1 .. Len(frames) :
          /\ frames'[k].node_index = frames[k].node_index
          /\ frames'[k].next_child_ordinal = frames[k].next_child_ordinal
          /\ frames'[k].entered = frames[k].entered
    <2>1. frames[top] \in FrameType
      BY <1>3
    <2>2. /\ frames'[top].node_index = frames[top].node_index
          /\ frames'[top].next_child_ordinal = frames[top].next_child_ordinal
          /\ frames'[top].entered = frames[top].entered
      BY <1>2, <2>1 DEF FrameType
    <2> QED BY <1>2, <2>2
  <1>5. Path' = Path /\ Following' = Following
    BY <1>2, <1>4, MarkingKeepsTheWalk
  <1>6. Going = Len(frames) /\ Going' = Len(frames) /\ ~Entering
    BY <1>2, <1>3 DEF Going, Entering
  <1>7. Frontier(outcome', Path', Following', Len(frames), FALSE)
    BY <1>2, <1>3, <1>5, <1>6 DEF Proceeding, Frontier
  <1>8. Proceeding'
    BY <1>2, <1>3, <1>4, <1>5, <1>6, <1>7, ProceedingNext DEF Proceeding
  <1>9. frames' # <<>>
    <2>1. Len(<<>>) = 0
      OBVIOUS
    <2> QED BY <1>2, <1>3, <2>1
  <1> QED BY <1>2, <1>3, <1>8, <1>9, PromiseNext

(* A node whose children are all visited goes on to none.                  *)
LEMMA FinishTopKeepsPromise ==
  ASSUME PromiseInv, ReadInv', OnlyPayloads', FinishTop
  PROVE  PromiseInv'
  <1>1. /\ pc = "dfs" /\ ~subtree_complete /\ frames[top].entered
        /\ frames[top].next_child_ordinal = plan.child_counts[Node]
        /\ UNCHANGED <<plan, pc, result, outcome, frames>>
        /\ current_step' = "success" /\ subtree_complete' = TRUE
    BY DEF FinishTop, Descending, run_vars
  <1>2. /\ plan \in Plans /\ Proceeding /\ result = "none" /\ frames # <<>>
        /\ Len(frames) \in Nat \ {0} /\ top = Len(frames) /\ Len(frames) \in 1 .. Len(frames)
        /\ IsWalk(Path, Ordinals, Len(frames)) /\ Path[Len(frames)] = Node
        /\ Following[Len(frames)] = Ordinals[Len(frames)] /\ Following[Len(frames)] \in Nat
        /\ Ordinals[Len(frames)] = frames[Len(frames)].next_child_ordinal
        /\ \A k \in 1 .. Len(frames) - 1 : frames[k].entered
    BY <1>1, PromisedFrames
  <1>3. Going = Len(frames) /\ Going' = Len(frames) - 1 /\ ~Entering
    BY <1>1, <1>2 DEF Going, Entering
  <1>4. Path' = Path /\ Following' = Following
    BY <1>1 DEF Path, Following, Ordinals
  <1>5. Frontier(outcome', Path', Following', Len(frames) - 1, FALSE)
    <2>1. SameStart(Path, Following, Len(frames) - 1, Path, Following)
      BY DEF SameStart
    <2>2. Frontier(outcome, Path, Following, Len(frames), FALSE)
      BY <1>2, <1>3 DEF Proceeding, Frontier
    <2>3. Following[Len(frames)] >= plan.child_counts[Path[Len(frames)]]
      <3>1. Following[Len(frames)] = plan.child_counts[Path[Len(frames)]]
        BY <1>1, <1>2
      <3> QED BY <1>2, <3>1
    <2>4. Frontier(outcome, Path, Following, Len(frames) - 1, FALSE)
      BY <1>2, <2>1, <2>2, <2>3, LeavingKeepsFrontier
    <2> QED BY <1>1, <1>4, <2>4
  <1>6. \A k \in 1 .. Len(frames) : frames[k].entered /\ outcome[Path[k]] = "success"
    <2>1. \A k \in 1 .. Len(frames) : k = Len(frames) \/ k \in 1 .. Len(frames) - 1
      BY <1>2
    <2> QED BY <1>1, <1>2, <1>3, <2>1 DEF Proceeding
  <1>7. \A k \in 1 .. Len(frames) - 1 : frames'[k].entered /\ outcome'[Path'[k]] = "success"
    <2>1. \A k \in 1 .. Len(frames) - 1 : k \in 1 .. Len(frames)
      BY <1>2
    <2> QED BY <1>1, <1>4, <1>6, <2>1
  <1>8. Len(frames') <= 1 => outcome'[0] # "abort_branch"
    <2>1. Len(frames) <= 1 => Path[Len(frames)] = 0
      BY <1>2 DEF IsWalk
    <2> QED BY <1>1, <1>2, <1>6, <2>1
  <1>9. Proceeding'
    BY <1>1, <1>2, <1>3, <1>5, <1>7, <1>8, ProceedingNext DEF Proceeding
  <1> QED BY <1>1, <1>2, <1>9, PromiseNext DEF Ending

(* Going down to a child makes it the one to be entered.                   *)
LEMMA DescendKeepsPromise ==
  ASSUME PromiseInv, ReadInv', OnlyPayloads', Descend
  PROVE  PromiseInv'
  <1>1. /\ FrameInv /\ pc = "dfs" /\ ~subtree_complete /\ frames[top].entered
        /\ UNCHANGED <<plan, pc, result, outcome, current_step, subtree_complete>>
    BY DEF Descend, Descending, run_vars, PromiseInv, ReadInv, StorageInv, TypeInv
  <1>2. /\ plan \in Plans /\ Proceeding /\ result = "none"
        /\ Len(frames) \in Nat \ {0} /\ top = Len(frames) /\ Len(frames) \in 1 .. Len(frames)
        /\ IsWalk(Path, Ordinals, Len(frames)) /\ Path[Len(frames)] = Node
        /\ Following[Len(frames)] = Ordinals[Len(frames)]
        /\ \A k \in 1 .. Len(frames) :
             /\ Path[k] = frames[k].node_index
             /\ Ordinals[k] = frames[k].next_child_ordinal /\ Ordinals[k] \in Nat
        /\ \A k \in 1 .. Len(frames) - 1 : Following[k] = Ordinals[k] + 1 /\ frames[k].entered
    BY <1>1, PromisedFrames
  <1>3. PICK c \in nodes :
          /\ c = ChildAt(plan, Node, frames[top].next_child_ordinal)
          /\ Len(frames') = Len(frames) + 1
          /\ \A k \in 1 .. Len(frames) : frames'[k] = frames[k]
          /\ frames'[Len(frames) + 1] = Frame(c)
    BY <1>1, DescendKeepsFrameInv
  <1>4. Frame(c).node_index = c /\ Frame(c).next_child_ordinal = 0 /\ ~Frame(c).entered
    BY DEF Frame
  <1>5. PICK more \in Nat : more = Len(frames) + 1
    BY <1>2
  <1>6. /\ \A k \in 1 .. Len(frames) : Path'[k] = Path[k] /\ Ordinals'[k] = Ordinals[k]
        /\ Path'[more] = ChildAt(plan, Path[Len(frames)], Ordinals[Len(frames)])
    BY <1>2, <1>3, <1>4, <1>5 DEF Path, Ordinals
  <1>7. \A k \in 1 .. Len(frames) : Following'[k] = Ordinals[k] + 1
    BY <1>2, <1>3, <1>6 DEF Following
  <1>8. GoesDown(Path, Ordinals, Following, Len(frames), Path', Following', more)
    <2>1. \A k \in 1 .. Len(frames) - 1 : Following'[k] = Following[k]
      BY <1>2, <1>7
    <2>2. Following'[Len(frames)] = Ordinals[Len(frames)] + 1
      BY <1>2, <1>7
    <2> QED BY <1>5, <1>6, <2>1, <2>2 DEF GoesDown
  <1>9. Going = Len(frames) /\ Going' = more /\ ~Entering /\ Entering' /\ frames' # <<>>
    <2>1. Len(<<>>) = 0
      OBVIOUS
    <2> QED BY <1>1, <1>2, <1>3, <1>4, <1>5, <2>1 DEF Going, Entering
  <1>10. Frontier(outcome', Path', Following', more, TRUE)
    <2>1. Frontier(outcome, Path, Following, Len(frames), FALSE)
      BY <1>2, <1>9 DEF Proceeding, Frontier
    <2>2. Frontier(outcome, Path', Following', more, TRUE)
      BY <1>2, <1>8, <2>1, DescendingKeepsFrontier
    <2> QED BY <1>1, <2>2
  <1>11. \A k \in 1 .. more :
           IF frames'[k].entered THEN outcome'[Path'[k]] = "success"
                                 ELSE frames'[k].next_child_ordinal = 0
    <2>1. SUFFICES ASSUME NEW k \in 1 .. Len(frames)
                   PROVE  frames'[k].entered /\ outcome'[Path'[k]] = "success"
      <3>1. \A k \in 1 .. more : k = more \/ k \in 1 .. Len(frames)
        BY <1>2, <1>5
      <3> QED BY <1>3, <1>4, <1>5, <2>1, <3>1
    <2>2. frames[k].entered
      <3>1. k = Len(frames) \/ k \in 1 .. Len(frames) - 1
        BY <1>2
      <3> QED BY <1>1, <1>2, <3>1
    <2> QED BY <1>1, <1>2, <1>3, <1>6, <1>9, <2>2 DEF Proceeding
  <1>12. Proceeding'
    BY <1>1, <1>2, <1>9, <1>10, <1>11, ProceedingNext DEF Proceeding
  <1> QED BY <1>1, <1>2, <1>9, <1>12, PromiseNext

(* A frame whose subtree did not end the run gives way to the next child   *)
(* of its parent; after the last, the parent is left too.                  *)
LEMMA AdvancingKeepsPromise ==
  ASSUME PromiseInv, ReadInv', OnlyPayloads', LeaveAndAdvance
  PROVE  PromiseInv'
  <1>1. /\ FrameInv /\ FrameInv' /\ pc = "dfs" /\ subtree_complete /\ Consumable
        /\ UNCHANGED <<plan, pc, result, outcome>>
        /\ Len(frames) > 1
        /\ current_step' = IF subtree_complete' THEN "success" ELSE current_step
        /\ subtree_complete' = (frames[top - 1].next_child_ordinal + 1 =
                                plan.child_counts[frames[top - 1].node_index])
    BY DEF LeaveAndAdvance, PromiseInv, ReadInv, StorageInv, TypeInv
  <1>2. /\ BelowTopKept
        /\ frames'[top - 1].next_child_ordinal = frames[top - 1].next_child_ordinal + 1
    BY <1>1, AdvanceKeepsFrameInv DEF LeaveAndAdvance
  <1>3. Proceeding /\ Frontier(outcome, Path, Following, Len(frames) - 1, FALSE)
    BY <1>1, PromisedLeave DEF Consumable, Ending
  <1>4. /\ plan \in Plans /\ result = "none"
        /\ Len(frames) \in Nat \ {0} /\ top = Len(frames)
        /\ IsWalk(Path, Ordinals, Len(frames))
        /\ \A k \in 1 .. Len(frames) :
             /\ Path[k] = frames[k].node_index
             /\ Ordinals[k] = frames[k].next_child_ordinal /\ Ordinals[k] \in Nat
        /\ \A k \in 1 .. Len(frames) - 1 : Following[k] = Ordinals[k] + 1 /\ frames[k].entered
    BY <1>1, PromisedFrames
  <1>5. PICK len \in Nat : len = Len(frames) - 1 /\ len # 0 /\ len \in 1 .. len
    <2>1. Len(frames) - 1 \in Nat /\ Len(frames) - 1 # 0
      BY <1>1, <1>4
    <2>2. \A m \in Nat : m # 0 => m \in 1 .. m
      OBVIOUS
    <2> QED BY <2>1, <2>2
  <1>6. /\ Len(frames') = len
        /\ \A k \in 1 .. len : /\ k \in 1 .. Len(frames)
                               /\ frames'[k].node_index = frames[k].node_index
                               /\ frames'[k].entered
        /\ \A k \in 1 .. len - 1 : frames'[k].next_child_ordinal = frames[k].next_child_ordinal
        /\ frames'[len].next_child_ordinal = frames[len].next_child_ordinal + 1
    <2>1. \A k \in 1 .. len : k \in 1 .. Len(frames) /\ k \in 1 .. Len(frames) - 1
      BY <1>4, <1>5
    <2>2. top - 1 = len
      BY <1>4, <1>5
    <2>3. \A k \in 1 .. len - 1 : k \in 1 .. Len(frames) - 2
      BY <1>4, <1>5
    <2> QED BY <1>2, <1>4, <1>5, <2>1, <2>2, <2>3 DEF BelowTopKept
  <1>7. \A k \in 1 .. len : Path'[k] = Path[k] /\ Ordinals'[k] = frames'[k].next_child_ordinal
    BY <1>4, <1>6 DEF Path, Ordinals
  <1>8. \A k \in 1 .. len : Following'[k] = Following[k]
    <2>1. SUFFICES ASSUME NEW k \in 1 .. len PROVE Following'[k] = Ordinals[k] + 1
      BY <1>4, <1>5
    <2>2. CASE k = len
      <3>1. Following'[k] = Ordinals'[k]
        BY <1>6, <2>2 DEF Following
      <3> QED BY <1>4, <1>6, <1>7, <2>2, <3>1
    <2>3. CASE k # len
      <3>1. k < len /\ k \in 1 .. len - 1
        BY <1>5, <2>3
      <3>2. Following'[k] = Ordinals'[k] + 1
        BY <1>6, <3>1 DEF Following
      <3> QED BY <1>4, <1>6, <1>7, <3>1, <3>2
    <2> QED BY <2>2, <2>3
  <1>9. Frontier(outcome', Path', Following', len, FALSE)
    BY <1>1, <1>3, <1>5, <1>7, <1>8 DEF Frontier, Pending
  <1>10. /\ \A k \in 1 .. len : frames'[k].entered /\ outcome'[Path'[k]] = "success"
         /\ \A i \in nodes : outcome'[i] \notin Ending
    <2>1. Going = len
      BY <1>1, <1>5 DEF Going
    <2> QED BY <1>1, <1>3, <1>4, <1>5, <1>6, <1>7, <2>1 DEF Proceeding
  <1>11. frames' # <<>> /\ current_step' \notin Ending
    <2>1. Len(<<>>) = 0
      OBVIOUS
    <2> QED BY <1>1, <1>5, <1>6, <2>1 DEF Consumable, Ending
  <1>12. CASE ~subtree_complete'
    <2>1. Going' = len
      BY <1>6, <1>12 DEF Going
    <2>2. Proceeding'
      BY <1>1, <1>9, <1>10, <1>12, <2>1, ProceedingNext
    <2> QED BY <1>1, <1>4, <1>11, <1>12, <2>2, PromiseNext
  <1>13. CASE subtree_complete'
    <2>1. Going' = len - 1 /\ current_step' = "success"
      BY <1>1, <1>6, <1>13 DEF Going
    <2>2. /\ \A k \in 1 .. len : frames'[k].next_child_ordinal \in Nat
          /\ \A k \in 1 .. len - 1 :
               /\ k \in 1 .. len /\ k \in 1 .. Len(frames) - 1
               /\ Ordinals'[k] = Ordinals[k]
               /\ k + 1 \in 1 .. len
      <3>1. \A k \in 1 .. len - 1 : /\ k \in 1 .. len /\ k \in 1 .. Len(frames) - 1
                                   /\ k + 1 \in 1 .. len
        BY <1>4, <1>5
      <3>2. \A k \in 1 .. len : k = len \/ k \in 1 .. len - 1
        BY <1>5
      <3>3. \A k \in 1 .. len : frames[k].next_child_ordinal \in Nat
        BY <1>4, <1>6
      <3>4. ASSUME NEW k \in 1 .. len - 1
            PROVE  /\ frames'[k].next_child_ordinal = frames[k].next_child_ordinal
                   /\ Ordinals'[k] = Ordinals[k]
        BY <1>4, <1>6, <1>7, <3>1
      <3>5. frames'[len].next_child_ordinal \in Nat
        <4>1. PICK ord \in Nat : frames[len].next_child_ordinal = ord
          BY <1>5, <3>3
        <4> QED BY <1>6, <4>1
      <3>6. \A k \in 1 .. len : frames'[k].next_child_ordinal \in Nat
        BY <3>2, <3>3, <3>4, <3>5
      <3> QED BY <3>1, <3>4, <3>6
    <2>3. IsWalk(Path', Ordinals', len)
      <3>1. 1 \in 1 .. len
        BY <1>5
      <3> QED BY <1>4, <1>5, <1>6, <1>7, <2>2, <3>1 DEF IsWalk
    <2>4. Following'[len] \in Nat /\ Following'[len] >= plan.child_counts[Path'[len]]
      <3>1. /\ top - 1 = len /\ Following'[len] = Ordinals[len] + 1
            /\ Ordinals[len] = frames[len].next_child_ordinal /\ Ordinals[len] \in Nat
            /\ Path'[len] = frames[len].node_index
        BY <1>4, <1>5, <1>6, <1>7, <1>8
      <3>2. Following'[len] = plan.child_counts[Path'[len]]
        BY <1>1, <1>13, <3>1
      <3> QED BY <3>1, <3>2
    <2>5. Frontier(outcome', Path', Following', len - 1, FALSE)
      <3>1. SameStart(Path', Following', len - 1, Path', Following')
        BY DEF SameStart
      <3> QED BY <1>4, <1>5, <1>9, <2>3, <2>4, <3>1, LeavingKeepsFrontier
    <2>6. \A k \in 1 .. len - 1 : frames'[k].entered /\ outcome'[Path'[k]] = "success"
      <3>1. \A k \in 1 .. len - 1 : k \in 1 .. len
        BY <1>5
      <3> QED BY <1>10, <3>1
    <2>7. Len(frames') <= 1 => outcome'[0] # "abort_branch"
      <3>1. Path'[1] = 0 /\ 1 \in 1 .. len
        BY <1>5, <2>3 DEF IsWalk
      <3> QED BY <1>10, <3>1
    <2>8. Proceeding'
      BY <1>1, <1>10, <2>1, <2>5, <2>6, <2>7, ProceedingNext
    <2> QED BY <1>1, <1>4, <1>11, <2>8, PromiseNext
  <1> QED BY <1>12, <1>13

(* The result that ended the run is passed up.                             *)
LEMMA UnwindingKeepsPromise ==
  ASSUME PromiseInv, ReadInv', OnlyPayloads', LeaveAndUnwind
  PROVE  PromiseInv'
  <1>1. /\ FrameInv /\ pc = "dfs" /\ subtree_complete /\ ~Consumable
        /\ UNCHANGED <<plan, pc, result, outcome, current_step, subtree_complete>>
        /\ Len(frames) > 1
    BY DEF LeaveAndUnwind, PromiseInv, ReadInv, StorageInv, TypeInv
  <1>2. result = "none" /\ current_step \in Statuses /\ Len(frames) \in Nat
    BY <1>1, PromisedFrames
  <1>3. current_step \in Ending
    BY <1>1, <1>2 DEF Consumable, Statuses, Ending
  <1>4. EndReported(current_step)
    BY <1>1, <1>3, PromisedLeave
  <1>5. EndReported(current_step)'
    BY <1>1, <1>4, EndReportedNext DEF EndReported
  <1>6. frames' # <<>>
    <2>1. Len(frames') = Len(frames) - 1 /\ Len(<<>>) = 0
      BY <1>1, LeavingKeepsTheRest DEF BelowTopKept
    <2> QED BY <1>1, <1>2, <2>1
  <1> QED BY <1>1, <1>2, <1>3, <1>5, <1>6, PromiseNext

(* The root's frame is left with what the run returns.                     *)
LEMMA LeavingTheRootKeepsPromise ==
  ASSUME PromiseInv, ReadInv', OnlyPayloads', LeaveRoot
  PROVE  PromiseInv'
  <1>1. /\ pc = "dfs" /\ subtree_complete /\ Len(frames) = 1 /\ frames' = <<>>
        /\ result' = current_step /\ pc' = "fanout_dtor"
        /\ UNCHANGED <<plan, outcome, current_step, subtree_complete>>
    BY DEF LeaveRoot
  <1>2. CASE current_step \in Ending
    <2>1. EndReported(current_step)
      BY <1>1, <1>2, PromisedLeave
    <2>2. EndReported(current_step)'
      BY <1>1, <1>2, <2>1, EndReportedNext DEF EndReported
    <2> QED BY <1>1, <1>2, <2>2 DEF PromiseInv, Ending
  <1>3. CASE current_step \notin Ending
    <2>1. Proceeding /\ Frontier(outcome, Path, Following, Len(frames) - 1, FALSE)
      BY <1>1, <1>3, PromisedLeave
    <2>2. Len(frames') = 0
      BY <1>1
    <2>3. PICK none : none = Going' /\ none = -1
      BY <1>1, <2>2 DEF Going
    <2>4. Frontier(outcome', Path', Following', none, FALSE)
      <3>1. Len(frames) - 1 = 0
        BY <1>1
      <3>2. Frontier(outcome, Path, Following, 0, FALSE)
        BY <2>1, <3>1
      <3> QED BY <1>1, <2>3, <3>2 DEF Frontier, Pending
    <2>5. \A k \in 1 .. none : FALSE
      BY <2>3
    <2>6. /\ \A i \in nodes : outcome'[i] \notin Ending
          /\ outcome'[0] = "abort_branch" <=> current_step' = "abort_branch"
      BY <1>1, <2>1 DEF Proceeding
    <2>7. Proceeding'
      BY <1>1, <2>3, <2>4, <2>5, <2>6, ProceedingNext
    <2> QED BY <1>1, <1>3, <2>7 DEF PromiseInv, Ending
  <1> QED BY <1>2, <1>3

(* Where the frames stand still, what was reported does too.               *)
LEMMA StandingKeepsPromise ==
  ASSUME PromiseInv, ReadInv', OnlyPayloads', Leave \/ Done \/ UNCHANGED vars,
         result' # "exception"
  PROVE  PromiseInv'
  <1>1. plan \in Plans /\ RunTypeOK
    BY DEF PromiseInv, ReadInv, StorageInv, TypeInv, TypeOK, FrameInv
  <1>2. /\ UNCHANGED <<plan, result, outcome, frames, current_step, subtree_complete>>
        /\ pc' = "dfs" <=> pc = "dfs"
    <2>1. CASE Leave
      <3>1. LeaveRunPlan /\ UNCHANGED <<frames, current_step, subtree_complete>>
        BY <2>1 DEF Leave, loop
      <3>2. UNCHANGED <<plan, result, outcome>> /\ pc # "dfs" /\ pc' # "dfs"
        BY <1>1, <3>1, LeaveRunPlanIsTyped
      <3> QED BY <3>1, <3>2
    <2>2. CASE Done \/ UNCHANGED vars
      BY <2>2 DEF Done, vars, run_vars, loop
    <2> QED BY <2>1, <2>2
  <1>3. /\ Path' = Path /\ Following' = Following /\ nodes' = nodes
        /\ Going' = Going /\ Entering' = Entering
    BY <1>2 DEF Path, Following, Ordinals, Going, Entering, nodes
  <1>4. IF subtree_complete /\ current_step \in Ending
          THEN EndReported(current_step) ELSE Proceeding
    BY <1>2 DEF PromiseInv
  <1>5. IF subtree_complete' /\ current_step' \in Ending
          THEN EndReported(current_step)' ELSE Proceeding'
    BY <1>2, <1>3, <1>4 DEF EndReported, Proceeding, Frontier, Pending, Ending
  <1> QED BY <1>2, <1>5 DEF PromiseInv, Ending

-------------------------------------------------------------------------------
(* The invariant holds throughout a run.                                   *)

(* A run starts with the root about to be entered and nothing stored.      *)
LEMMA PromiseInvInit == Init => PromiseInv
  <1> SUFFICES ASSUME Init PROVE PromiseInv
    OBVIOUS
  <1>1. /\ plan \in Plans /\ pc = "dfs" /\ result = "none" /\ ~subtree_complete
        /\ frames = <<Frame(0)>> /\ outcome = [i \in nodes |-> "none"]
    BY DEF Init, RunInit
  <1>2. /\ Len(frames) = 1 /\ frames[1] = Frame(0) /\ frames # <<>>
        /\ Frame(0).node_index = 0 /\ ~Frame(0).entered /\ Frame(0).next_child_ordinal = 0
    BY <1>1 DEF Frame
  <1>3. \A s \in 0 .. plan.n_slots - 1 : slots[s].obj = NoObject
    BY RunInitIsSound DEF Init
  <1>4. OnlyPayloads
    BY <1>1, <1>3 DEF OnlyPayloads, NoObject, Poisoned
  <1>5. Path[1] = 0 /\ Going = 1 /\ Entering
    BY <1>1, <1>2 DEF Path, Going, Entering
  <1>6. \A j \in nodes : j # 0 => plan.parent[j] # plan.n /\ plan.parent[j] \in nodes
    BY <1>1, ParentIsANode, WellFormedPlan DEF TreeWellFormed, nodes
  <1>7. Frontier(outcome, Path, Following, Going, Entering)
    BY <1>1, <1>5, <1>6 DEF Frontier
  <1>8. \A i \in nodes : outcome[i] \notin Ending
    BY <1>1 DEF Ending
  <1>9. ASSUME NEW k \in 1 .. Going
        PROVE  ~frames[k].entered /\ frames[k].next_child_ordinal = 0
    <2>1. k = 1
      BY <1>5
    <2> QED BY <1>2, <2>1
  <1>10. Proceeding
    BY <1>1, <1>7, <1>8, <1>9 DEF Proceeding
  <1> QED BY <1>1, <1>2, <1>4, <1>10, ReadInvInit DEF PromiseInv

(* Every step keeps what is due in step with the frames.                   *)
LEMMA PromiseInvStep ==
  ASSUME PromiseInv, [Next]_vars
  PROVE  PromiseInv'
  <1>1. ReadInv' /\ plan \in Plans /\ RunTypeOK /\ current_step \in Statuses
    BY ReadInvStep DEF PromiseInv, ReadInv, StorageInv, TypeInv, TypeOK, FrameInv
  <1>2. CASE result' = "exception"
    <2>1. pc = "dfs" => result = "none"
      BY DEF PromiseInv
    <2>2. CASE EnterTop \/ PrepareTop \/ FinishTop \/ Descend \/ LeaveAndAdvance \/ LeaveAndUnwind
      <3>1. pc = "dfs" /\ result' = result
        BY <2>2 DEF EnterTop, PrepareTop, FinishTop, Descend, Descending, LeaveAndAdvance,
                    LeaveAndUnwind, run_vars
      <3> QED BY <1>2, <2>1, <3>1
    <2>3. CASE LeaveRoot \/ EnterTopThrows \/ PrepareTopThrows
      <3>1. pc' # "dfs"
        BY <2>3 DEF LeaveRoot, EnterTopThrows, PrepareTopThrows, EscapeLoop
      <3> QED BY <1>1, <1>2, <3>1 DEF PromiseInv
    <2>4. CASE Leave
      <3>1. pc' # "dfs"
        BY <1>1, <2>4, LeaveRunPlanIsTyped DEF Leave
      <3> QED BY <1>1, <1>2, <3>1 DEF PromiseInv
    <2>5. CASE Done \/ UNCHANGED vars
      <3>1. UNCHANGED <<pc, result>>
        BY <2>5 DEF Done, vars, run_vars
      <3>2. pc' # "dfs"
        BY <1>2, <2>1, <3>1
      <3> QED BY <1>1, <1>2, <3>2 DEF PromiseInv
    <2> QED BY <2>2, <2>3, <2>4, <2>5 DEF Next, Step
  <1>3. CASE result' # "exception"
    <2>1. OnlyPayloads'
      BY <1>3, OnlyPayloadsStep
    <2>2. ~EnterTopThrows /\ ~PrepareTopThrows
      BY <1>3 DEF EnterTopThrows, PrepareTopThrows, EscapeLoop
    <2>3. CASE EnterTop
      BY <1>1, <2>1, <2>3, EnterTopKeepsPromise
    <2>4. CASE PrepareTop
      BY <1>1, <2>1, <2>4, PrepareTopKeepsPromise
    <2>5. CASE FinishTop
      BY <1>1, <2>1, <2>5, FinishTopKeepsPromise
    <2>6. CASE Descend
      BY <1>1, <2>1, <2>6, DescendKeepsPromise
    <2>7. CASE LeaveAndAdvance
      BY <1>1, <2>1, <2>7, AdvancingKeepsPromise
    <2>8. CASE LeaveAndUnwind
      BY <1>1, <2>1, <2>8, UnwindingKeepsPromise
    <2>9. CASE LeaveRoot
      BY <1>1, <2>1, <2>9, LeavingTheRootKeepsPromise
    <2>10. CASE Leave \/ Done \/ UNCHANGED vars
      BY <1>1, <1>3, <2>1, <2>10, StandingKeepsPromise
    <2> QED BY <2>2, <2>3, <2>4, <2>5, <2>6, <2>7, <2>8, <2>9, <2>10 DEF Next, Step
  <1> QED BY <1>2, <1>3

(* PromiseInv holds throughout every run.                                  *)
LEMMA PromiseInvHolds == Spec => []PromiseInv
  <1>1. PromiseInv /\ [Next]_vars => PromiseInv'
    BY PromiseInvStep
  <1> QED BY <1>1, PromiseInvInit, PTL DEF Spec

-------------------------------------------------------------------------------
(* Every step is one that was promised.                                    *)

(* A node about to be entered is the next one due, and what is stored is   *)
(* what its ancestors left.                                                *)
LEMMA NodeIsPromised ==
  ASSUME PromiseInv, Descending, ~frames[top].entered
  PROVE  Node \in nodes /\ Promise!NextDue(Node) /\ Stored = Promise!AncestorPayloads(Node)
  <1>1. /\ pc = "dfs" /\ ~subtree_complete /\ Proceeding
        /\ Frontier(outcome, Path, Following, Len(frames), TRUE)
        /\ Following[Len(frames)] = 0
        /\ \A j \in Ran : j < Path[Len(frames)]
    BY PromisedEntry
  <1>2. /\ plan \in Plans /\ StorageInv /\ ReadInv /\ result = "none" /\ OnlyPayloads
        /\ Len(frames) \in Nat \ {0} /\ top = Len(frames) /\ Len(frames) \in 1 .. Len(frames)
        /\ IsWalk(Path, Ordinals, Len(frames))
        /\ Path[Len(frames)] = Node /\ Node \in nodes
        /\ \A k \in 1 .. Len(frames) :
             frames[k] \in FrameType /\ Path[k] = frames[k].node_index /\ Path[k] \in nodes
        /\ \A k \in 1 .. Len(frames) - 1 : Following[k] = Ordinals[k] + 1 /\ frames[k].entered
    BY <1>1, PromisedFrames
  <1>3. \A k \in 1 .. Len(frames) - 1 : k \in 1 .. Len(frames) /\ k < Len(frames)
    BY <1>2
  <1>4. \A k \in 1 .. Len(frames) - 1 : outcome[Path[k]] = "success"
    BY <1>1, <1>2, <1>3 DEF Proceeding, Going
  <1>5. ~Promise!Ended
    BY <1>1, <1>2, PromisedState DEF Proceeding
  <1>6. Held(slots, Path, Holds, Len(frames)) /\ slots \in Cells
    BY <1>1, <1>2 DEF StorageInv, FramesHoldPayloads, Sound
  <1>7. Stored = {Path[k] : k \in {m \in 1 .. Len(frames) : Holds[m]}}
    BY <1>2, <1>6, StoredAreHeld DEF OnlyPayloads
  <1>8. ~Holds[Len(frames)]
    BY <1>1, <1>2 DEF Holds, StorageInv, FramesHoldPayloads
  <1>9. \A k \in 1 .. Len(frames) - 1 : Holds[k] <=> PayloadNode(plan, Path[k])
    <2>1. SUFFICES ASSUME NEW k \in 1 .. Len(frames) - 1
                   PROVE  Holds[k] <=> PayloadNode(plan, Path[k])
      OBVIOUS
    <2>2. k \in 1 .. Len(frames) /\ FrameIsServed(k) /\ Holds[k] = frames[k].payload_live
      BY <1>1, <1>2, <1>3, ServedFrames DEF FramesAreServed, Holds
    <2>3. Holds[k] => PayloadNode(plan, Path[k])
      BY <1>6, <2>2 DEF Held
    <2>4. PayloadNode(plan, Path[k]) => Holds[k]
      BY <1>2, <1>3, <2>2 DEF FrameIsServed
    <2> QED BY <2>3, <2>4
  <1>10. Promise!NextDue(Path[Len(frames)]) /\ Stored = Promise!AncestorPayloads(Path[Len(frames)])
    <2>1. Len(frames) # 0 /\ Following[Len(frames)] \in Nat
      BY <1>1, <1>2
    <2>2. \A k \in 1 .. Len(frames) - 1 :
            Following[k] = Ordinals[k] + 1 /\ outcome[Path[k]] = "success"
      BY <1>2, <1>4
    <2>3. /\ plan \in Plans /\ IsWalk(Path, Ordinals, Len(frames))
          /\ Frontier(outcome, Path, Following, Len(frames), TRUE)
          /\ \A j \in Ran : j < Path[Len(frames)]
      BY <1>1, <1>2
    <2> QED BY <1>5, <1>7, <1>8, <1>9, <2>1, <2>2, <2>3, EnteredIsPromised, Zenon
  <1> QED BY <1>2, <1>10

(* A task that reports is run as promised.                                 *)
LEMMA EnterTopIsPromised ==
  ASSUME PromiseInv, EnterTop
  PROVE  Promise!Next
  <1>1. /\ Descending /\ ~frames[top].entered /\ pc = "dfs" /\ frames # <<>>
        /\ UNCHANGED <<plan, pc, result>>
    BY DEF EnterTop, Descending
  <1>2. PICK status \in Statuses : EnterNode(Node, status)
    BY DEF EnterTop
  <1>3. Node \in nodes /\ Promise!NextDue(Node) /\ Stored = Promise!AncestorPayloads(Node)
    BY <1>1, NodeIsPromised
  <1>4. Stored' = IF PayloadLive(Node, status) THEN Stored \cup {Node} ELSE Stored
    BY <1>1, <1>2, StoredAfterEntering DEF PromiseInv, ReadInv
  <1> QED BY <1>1, <1>2, <1>3, <1>4, ReportIsPromised

(* One that throws does so as promised, and stores nothing.                *)
LEMMA EnterTopThrowsAsPromised ==
  ASSUME PromiseInv, EnterTopThrows
  PROVE  Promise!Next
  <1>1. /\ Descending /\ ~frames[top].entered /\ EnterNodeThrows(Node)
        /\ plan' = plan /\ result' = "exception"
        /\ slots' = ConsumePrev(slots, Node) /\ live_slots' = live_slots
    BY DEF EnterTopThrows, EscapeLoop, EnterNodeThrows
  <1>2. Node \in nodes /\ Promise!NextDue(Node) /\ Stored = Promise!AncestorPayloads(Node)
    BY <1>1, NodeIsPromised
  <1>3. plan \in Plans /\ Sound(slots, live_slots)
    BY DEF PromiseInv, ReadInv, StorageInv, TypeInv, FrameInv
  <1>4. /\ slots \in Cells /\ slots' \in Cells
        /\ \A s \in 0 .. plan.n_slots - 1 : slots'[s].obj = slots[s].obj
    BY <1>1, <1>2, <1>3, ConsumingKeepsSound DEF Sound
  <1>5. Stored' = Stored
    <2>1. /\ Stored = {slots[s].obj : s \in 0 .. plan.n_slots - 1} \ {NoObject}
          /\ Stored' = {slots'[s].obj : s \in 0 .. plan.n_slots - 1} \ {NoObject}
      BY <1>4, StoredInSlots DEF Stored
    <2> QED BY <1>4, <2>1
  <1> QED BY <1>1, <1>2, <1>3, <1>5, ThrowIsPromised

(* Staging throws before any child ran.                                    *)
LEMMA PrepareTopThrowsAsPromised ==
  ASSUME PromiseInv, PrepareTopThrows
  PROVE  Promise!Next
  <1>1. /\ pc = "dfs" /\ ~subtree_complete /\ MayThrow /\ frames[top].entered /\ StagingPending
        /\ result' = "exception" /\ UNCHANGED <<plan, slots, outcome>>
    BY DEF PrepareTopThrows, Descending, EscapeLoop
  <1>2. /\ plan \in Plans /\ ReadInv /\ Proceeding /\ result = "none"
        /\ Len(frames) \in Nat \ {0} /\ top = Len(frames) /\ Len(frames) \in 1 .. Len(frames)
        /\ Path[Len(frames)] = Node /\ Node \in nodes
        /\ Ordinals[Len(frames)] = frames[Len(frames)].next_child_ordinal
        /\ Ordinals[Len(frames)] \in Nat
        /\ Following[Len(frames)] = Ordinals[Len(frames)]
        /\ Path[Len(frames)] = frames[Len(frames)].node_index
    BY <1>1, PromisedFrames
  <1>3. FrameIsServed(Len(frames)) /\ Ahead(Ran, Path, Following, Len(frames))
    BY <1>1, <1>2 DEF ReadInv, FramesAreServed, InPreorder
  <1>4. plan.staging[Node] /\ Following[Len(frames)] = 0
    <2>1. ~(frames[Len(frames)].next_child_ordinal > 0)
      BY <1>1, <1>2, <1>3 DEF FrameIsServed, StagingPending
    <2> QED BY <1>1, <1>2, <1>3, <2>1 DEF FrameIsServed, StagingPending
  <1>5. \A o \in Nat : o < plan.child_counts[Node] => \A j \in Ran : j < ChildAt(plan, Node, o)
    BY <1>2, <1>3, <1>4 DEF Ahead
  <1>6. outcome[Node] = "success"
    <2>1. Going = Len(frames)
      BY <1>1 DEF Going
    <2> QED BY <1>1, <1>2, <2>1 DEF Proceeding
  <1>7. ~Promise!Ended
    BY <1>2, PromisedState DEF Proceeding
  <1> QED BY <1>1, <1>2, <1>4, <1>5, <1>6, <1>7, StagingThrowIsPromised

(* A frame that is left releases its payload once nothing below its task   *)
(* can run any more.                                                       *)
LEMMA LeavingIsPromised ==
  ASSUME PromiseInv, LeaveRoot \/ LeaveAndAdvance \/ LeaveAndUnwind
  PROVE  Promise!Next \/ UNCHANGED Promise!vars
  <1>1. /\ pc = "dfs" /\ subtree_complete /\ DestroyTop /\ UNCHANGED <<plan, outcome>>
        /\ pc' # "done" /\ (result' = result \/ result' = current_step)
    BY DEF LeaveRoot, LeaveAndAdvance, LeaveAndUnwind
  <1>2. /\ plan \in Plans /\ StorageInv /\ result = "none" /\ OnlyPayloads /\ frames # <<>>
        /\ Len(frames) \in Nat \ {0} /\ top = Len(frames)
        /\ IsWalk(Path, Ordinals, Len(frames)) /\ Path[Len(frames)] = Node
        /\ \A k \in 1 .. Len(frames) : frames[k] \in FrameType /\ Path[k] \in nodes
        /\ \A k \in 1 .. Len(frames) - 1 : Following[k] = Ordinals[k] + 1
        /\ current_step \in Statuses
    BY <1>1, PromisedFrames
  <1>3. ReportedResult' = ReportedResult
    <2>1. result # "exception" /\ result' # "exception" /\ pc # "done"
      BY <1>1, <1>2 DEF Statuses
    <2> QED BY <1>1, <2>1 DEF ReportedResult
  <1>4. /\ Stored' = IF frames[top].payload_live THEN Stored \ {Node} ELSE Stored
        /\ frames[top].payload_live => Node \in Stored
    BY <1>1, <1>2, StoredAfterLeaving
  <1>5. CASE ~frames[top].payload_live
    BY <1>1, <1>3, <1>4, <1>5 DEF Promise!vars
  <1>6. CASE frames[top].payload_live
    <2>1. Promise!Ended \/ \A j \in DueOf(outcome) : Path[Len(frames)] \notin RootPath(plan, j)
      <3>1. CASE current_step \in Ending
        <4>1. EndReported(current_step)
          BY <1>1, <3>1, PromisedLeave
        <4> QED BY <4>1, PromisedState DEF EndReported
      <3>2. CASE current_step \notin Ending
        <4>1. Frontier(outcome, Path, Following, Len(frames) - 1, FALSE)
          BY <1>1, <3>2, PromisedLeave
        <4> QED BY <1>2, <4>1, NothingIsDueBelow
      <3> QED BY <3>1, <3>2
    <2>2. \A i \in Stored : \E k \in 1 .. Len(frames) : i = Path[k]
      <3>1. Held(slots, Path, Holds, Len(frames)) /\ slots \in Cells
        BY <1>1, <1>2 DEF StorageInv, FramesHoldPayloads, Sound
      <3>2. Stored = {Path[k] : k \in {m \in 1 .. Len(frames) : Holds[m]}}
        BY <1>2, <3>1, StoredAreHeld DEF OnlyPayloads
      <3> QED BY <3>2
    <2> QED BY <1>1, <1>2, <1>3, <1>4, <1>6, <2>1, <2>2, ReleaseIsPromised
  <1> QED BY <1>5, <1>6

(* Once the loop has returned, nothing is due any more, and what it        *)
(* returned is the promise's verdict.                                      *)
LEMMA LeaveIsPromised ==
  ASSUME PromiseInv, Leave, result # "exception"
  PROVE  Promise!Next \/ UNCHANGED Promise!vars
  <1>1. /\ plan \in Plans /\ RunTypeOK /\ CleanupProgress /\ Sound(slots, live_slots)
        /\ LeaveRunPlan /\ pc # "dfs" /\ current_step \in Statuses
    <2>1. /\ plan \in Plans /\ RunTypeOK /\ CleanupProgress /\ Sound(slots, live_slots)
          /\ current_step \in Statuses
      BY DEF PromiseInv, ReadInv, StorageInv, TypeInv, TypeOK, FrameInv
    <2> QED BY <2>1, LeaveRunPlanIsTyped DEF Leave
  <1>2. /\ OnlyPayloads /\ result = current_step /\ frames = <<>> /\ subtree_complete
        /\ IF current_step \in Ending THEN EndReported(current_step) ELSE Proceeding
    BY <1>1 DEF PromiseInv
  <1>3. \A s \in 0 .. plan.n_slots - 1 : slots[s].obj = NoObject
    BY <1>1, <1>2 DEF OnlyPayloads
  <1>4. (Promise!Ended \/ Promise!Due = {}) /\ result = Promise!Verdict
    <2>1. CASE current_step \in Ending
      <3>1. Promise!Ended
        BY <1>2, <2>1, PromisedState DEF EndReported
      <3>2. current_step = Promise!Verdict
        BY <1>2, <2>1, VerdictIsPromised
      <3> QED BY <1>2, <3>1, <3>2
    <2>2. CASE current_step \notin Ending
      <3>1. Proceeding /\ ~Entering /\ Len(frames) = 0
        BY <1>2, <2>2 DEF Entering
      <3>2. Promise!Due = {}
        <4>1. PICK none : none = Going /\ none = -1
          BY <1>2, <3>1 DEF Going
        <4>2. Frontier(outcome, Path, Following, none, FALSE)
          BY <3>1, <4>1 DEF Proceeding, Frontier
        <4>3. \A j \in DueOf(outcome) : Pending(Path, Following, none, j)
          BY <1>1, <4>2, DueIsPending
        <4>4. \A k \in 1 .. none : FALSE
          BY <4>1
        <4>5. DueOf(outcome) = {}
          BY <4>3, <4>4 DEF Pending
        <4> QED BY <4>5, PromisedState
      <3>3. /\ \A i \in nodes : outcome[i] \notin Ending
            /\ current_step = IF outcome[0] = "abort_branch" THEN "abort_branch" ELSE "success"
        BY <1>1, <1>2, <2>2, <3>1 DEF Proceeding, Statuses, Ending
      <3>4. current_step = Promise!Verdict
        BY <2>2, <3>3, VerdictIsPromised
      <3> QED BY <1>2, <3>2, <3>4
    <2> QED BY <2>1, <2>2
  <1> QED BY <1>1, <1>3, <1>4, ReturnIsPromised

(* Until something throws, every step of the loop is one of the promise's, *)
(* or a stutter.                                                           *)
LEMMA StepIsPromised ==
  ASSUME PromiseInv, [Next]_vars
  PROVE  StepOfPlanRun
  <1>1. SUFFICES ASSUME result # "exception" PROVE [Promise!Next]_(Promise!vars)
    BY DEF StepOfPlanRun
  <1>2. CASE EnterTop
    BY <1>2, EnterTopIsPromised
  <1>3. CASE PrepareTop \/ FinishTop \/ Descend
    <2>1. UNCHANGED <<plan, outcome, slots, result, pc>>
      BY <1>3 DEF PrepareTop, FinishTop, Descend, run_vars
    <2> QED BY <2>1, StutterIsPromised
  <1>4. CASE LeaveRoot \/ LeaveAndAdvance \/ LeaveAndUnwind
    BY <1>4, LeavingIsPromised
  <1>5. CASE EnterTopThrows
    BY <1>5, EnterTopThrowsAsPromised
  <1>6. CASE PrepareTopThrows
    BY <1>6, PrepareTopThrowsAsPromised
  <1>7. CASE Leave
    BY <1>1, <1>7, LeaveIsPromised
  <1>8. CASE Done \/ UNCHANGED vars
    <2>1. UNCHANGED <<plan, outcome, slots, result, pc>>
      BY <1>8 DEF Done, vars, run_vars
    <2> QED BY <2>1, StutterIsPromised
  <1> QED BY <1>2, <1>3, <1>4, <1>5, <1>6, <1>7, <1>8 DEF Next, Step

(* The explicit loop keeps the promise of PlanRun up to and including the  *)
(* throw of an exception: for plans of any size and shape, tasks run in    *)
(* order below tasks that succeeded, each sees exactly its ancestors'      *)
(* payloads, payloads are released children first once nothing below can   *)
(* run, and the verdict is that of the one task that ended the run.        *)
THEOREM LoopKeepsThePromise == Spec => ImplementsPlanRun
  <1>1. PromiseInv /\ [Next]_vars => StepOfPlanRun
    BY StepIsPromised
  <1>2. Init => Promise!Init
    BY RunInitIsPromised DEF Init
  <1> QED BY <1>1, <1>2, PromiseInvHolds, PTL DEF Spec, ImplementsPlanRun

-------------------------------------------------------------------------------
(* How long a run can take.                                                *)

(* What a frame on top still costs before another frame takes its place:   *)
(* preparing its fan-out, and going on to a child or finishing.  Entering  *)
(* it and its place in the vector are paid for separately.                 *)
WorkOn(f, complete) ==
  CASE complete               -> 2
    [] ~complete /\ ~f.entered -> 0
    [] ~complete /\ f.entered  ->
         IF f.requires_fanout_staging /\ ~f.fanout_prepared THEN 4 ELSE 3

(* A bound on the steps still to come: five for each task that has not     *)
(* run, two for each frame above the root's, and the work on the top one.  *)
StepsLeft ==
  IF pc = "dfs"
    THEN plan.n + 5 * Cardinality(NotYetRun) + 2 * (Len(frames) - 1)
           + WorkOn(frames[Len(frames)], subtree_complete)
    ELSE StepsToLeave

(* A frame that was entered costs two to four steps, at most three once    *)
(* its fan-out is prepared; one whose subtree is complete costs two.       *)
LEMMA WorkOnEntered ==
  ASSUME NEW f, f.entered = TRUE, NEW complete \in BOOLEAN
  PROVE  /\ WorkOn(f, complete) \in {2, 3, 4}
         /\ f.requires_fanout_staging = FALSE \/ f.fanout_prepared = TRUE =>
              WorkOn(f, complete) \in {2, 3}
  BY DEF WorkOn

(* The bound is a number of steps.                                         *)
LEMMA StepsLeftInNat ==
  ASSUME PromiseInv
  PROVE  /\ plan \in Plans /\ plan.n \in Nat
         /\ Cardinality(NotYetRun) \in Nat
         /\ StepsLeft \in Nat
         /\ RunTypeOK
  <1>1. plan \in Plans /\ RunTypeOK
    BY DEF PromiseInv, ReadInv, StorageInv, TypeInv, TypeOK, FrameInv
  <1>2. plan.n \in Nat /\ Cardinality(NotYetRun) \in Nat /\ StepsToLeave \in Nat
    BY <1>1, RootIsANode, CountOfNotYetRun, LeavingCountsDown
  <1>3. ASSUME pc = "dfs"
        PROVE  Len(frames) \in Nat \ {0} /\ WorkOn(frames[Len(frames)], subtree_complete) \in Nat
    <2>1. Len(frames) \in Nat \ {0} /\ frames[Len(frames)] \in FrameType
      BY <1>3, PromisedFrames
    <2>2. subtree_complete \in BOOLEAN
      BY DEF PromiseInv, ReadInv, StorageInv, TypeInv, TypeOK
    <2> QED BY <2>1, <2>2 DEF WorkOn, FrameType
  <1>4. StepsLeft \in Nat
    BY <1>2, <1>3 DEF StepsLeft
  <1> QED BY <1>1, <1>2, <1>4

(* Of two sums of three counts, the counts decide.                         *)
LEMMA FewerInSum ==
  ASSUME NEW n \in Nat, NEW a \in Nat, NEW b \in Nat, NEW c \in Nat,
         NEW x \in Nat, NEW y \in Nat, NEW z \in Nat,
         5 * a + 2 * b + c < 5 * x + 2 * y + z
  PROVE  n + 5 * a + 2 * (b - 1) + c < n + 5 * x + 2 * (y - 1) + z
  OBVIOUS

(* While the loop runs, what a step leaves to be done depends on the tasks *)
(* run, the number of frames and the top one.                              *)
LEMMA StepsLeftInLoop ==
  ASSUME PromiseInv, pc = "dfs", pc' = "dfs", plan' = plan,
         Cardinality(NotYetRun)' \in Nat, Len(frames') \in Nat,
         WorkOn(frames'[Len(frames')], subtree_complete') \in Nat,
         5 * Cardinality(NotYetRun)' + 2 * Len(frames')
             + WorkOn(frames'[Len(frames')], subtree_complete')
           < 5 * Cardinality(NotYetRun) + 2 * Len(frames)
               + WorkOn(frames[Len(frames)], subtree_complete)
  PROVE  StepsLeft' < StepsLeft
  <1> DEFINE left == Cardinality(NotYetRun)
             work == WorkOn(frames[Len(frames)], subtree_complete)
  <1>1. /\ plan.n \in Nat /\ left \in Nat /\ Len(frames) \in Nat
        /\ left' \in Nat /\ Len(frames') \in Nat /\ work' \in Nat
    BY StepsLeftInNat, PromisedFrames
  <1>2. work \in Nat
    <2>1. frames[Len(frames)] \in FrameType /\ subtree_complete \in BOOLEAN
      BY PromisedFrames DEF PromiseInv, ReadInv, StorageInv, TypeInv, TypeOK
    <2> QED BY <2>1 DEF WorkOn, FrameType
  <1>3. /\ StepsLeft = plan.n + 5 * left + 2 * (Len(frames) - 1) + work
        /\ StepsLeft' = plan.n + 5 * left' + 2 * (Len(frames') - 1) + work'
    BY DEF StepsLeft
  <1>4. 5 * left' + 2 * Len(frames') + work' < 5 * left + 2 * Len(frames) + work
    OBVIOUS
  <1> HIDE DEF left, work
  <1> QED BY <1>1, <1>2, <1>3, <1>4, FewerInSum

(* A step that ends the loop leaves run_plan's own.                        *)
LEMMA StepsLeftBehind ==
  ASSUME PromiseInv, PromiseInv', pc = "dfs", pc' = "fanout_dtor", plan' = plan,
         \/ ~subtree_complete /\ Node \notin Ran
         \/ WorkOn(frames[Len(frames)], subtree_complete) \in {2, 3, 4}
  PROVE  StepsLeft' < StepsLeft
  <1> DEFINE u == Cardinality(NotYetRun)
             w == WorkOn(frames[Len(frames)], subtree_complete)
  <1>1. plan.n \in Nat /\ u \in Nat /\ Len(frames) \in Nat \ {0} /\ Node \in nodes
    BY StepsLeftInNat, PromisedFrames
  <1>2. w \in {0, 2, 3, 4}
    <2>1. frames[Len(frames)] \in FrameType /\ subtree_complete \in BOOLEAN
      BY PromisedFrames DEF PromiseInv, ReadInv, StorageInv, TypeInv, TypeOK
    <2> QED BY <2>1 DEF WorkOn, FrameType
  <1>3. u # 0 \/ w \in {2, 3, 4}
    <2>1. Node \notin Ran => Node \in NotYetRun
      BY <1>1 DEF NotYetRun
    <2>2. IsFiniteSet(NotYetRun)
      BY StepsLeftInNat, NotYetRunIsFinite
    <2>3. u = 0 => NotYetRun = {}
      BY <2>2, FS_EmptySet
    <2> QED BY <2>1, <2>3
  <1>4. StepsLeft = plan.n + 5 * u + 2 * (Len(frames) - 1) + w
    BY DEF StepsLeft
  <1>5. StepsLeft' = plan.n + 1
    BY StepsLeftInNat, LeavingCountsDown DEF StepsLeft, StepsToLeave
  <1> HIDE DEF u, w
  <1> QED BY <1>1, <1>2, <1>3, <1>4, <1>5

(* Every step leaves fewer steps than there were.                          *)
LEMMA StepMakesProgress ==
  ASSUME PromiseInv, PromiseInv', Step
  PROVE  StepsLeft' < StepsLeft
  <1> DEFINE f == frames[Len(frames)]
             left == Cardinality(NotYetRun)
             work == WorkOn(frames[Len(frames)], subtree_complete)
  <1>0. left \in Nat /\ subtree_complete \in BOOLEAN
    BY StepsLeftInNat DEF PromiseInv, ReadInv, StorageInv, TypeInv, TypeOK
  <1>1. ASSUME pc = "dfs"
        PROVE  /\ Len(frames) \in Nat \ {0} /\ frames # <<>> /\ top = Len(frames)
               /\ frames \in Seq(FrameType) /\ f \in FrameType
               /\ plan \in Plans /\ Node \in nodes
               /\ outcome \in [nodes -> Statuses \cup {"none", "threw"}]
               /\ ~subtree_complete /\ ~f.entered => Node \notin Ran
    <2>1. /\ Len(frames) \in Nat \ {0} /\ frames # <<>> /\ top = Len(frames)
          /\ f \in FrameType /\ plan \in Plans /\ Node \in nodes /\ FrameInv
          /\ outcome \in [nodes -> Statuses \cup {"none", "threw"}]
          /\ Path[Len(frames)] = Node
      BY <1>1, PromisedFrames
    <2>2. ASSUME ~subtree_complete, ~f.entered PROVE Node \notin Ran
      <3>1. Descending
        BY <1>1, <2>1, <2>2 DEF Descending
      <3>2. \A j \in Ran : j < Node
        BY <2>1, <2>2, <3>1, PromisedEntry
      <3>3. Node \in Int
        BY <2>1, RootIsANode
      <3> QED BY <3>2, <3>3
    <2> QED BY <2>1, <2>2 DEF FrameInv
  <1>2. CASE EnterTop
    <2>1. /\ pc = "dfs" /\ pc' = "dfs" /\ plan' = plan /\ ~subtree_complete /\ ~f.entered
      BY <1>1, <1>2 DEF EnterTop, Descending, top
    <2>2. PICK status \in Statuses :
            /\ EnterNode(Node, status)
            /\ frames' = [frames EXCEPT ![top].entered = TRUE,
                                        ![top].payload_live = PayloadLive(Node, status)]
      BY <1>2 DEF EnterTop
    <2>3. left \in Nat \ {0} /\ left' = left - 1
      BY <1>1, <2>1, <2>2, RunningCountsOff DEF EnterNode
    <2>4. PayloadLive(Node, status) \in BOOLEAN
      BY DEF PayloadLive, PayloadNode
    <2>5. Len(frames') = Len(frames) /\ frames'[Len(frames')].entered = TRUE
      <3>1. /\ Len(frames') = Len(frames)
            /\ frames'[top] = [frames[top] EXCEPT !.entered = TRUE,
                                                 !.payload_live = PayloadLive(Node, status)]
        BY <1>1, <2>1, <2>2, <2>4, EnteredTop
      <3>2. frames[top] \in FrameType
        BY <1>1, <2>1
      <3>3. frames'[top].entered = TRUE
        BY <3>1, <3>2 DEF FrameType
      <3>4. top = Len(frames')
        BY <1>1, <2>1, <3>1
      <3> QED BY <3>1, <3>3, <3>4
    <2>6. work' \in {2, 3, 4}
      <3>1. subtree_complete' \in BOOLEAN
        BY <1>0, <1>2, <2>1 DEF EnterTop
      <3> QED BY <2>5, <3>1, WorkOnEntered
    <2>7. work = 0
      BY <2>1 DEF WorkOn
    <2> HIDE DEF left, work
    <2>20. /\ left \in Nat /\ left' \in Nat /\ work' \in Nat
           /\ Len(frames) \in Nat /\ Len(frames') \in Nat
      BY <1>0, <1>1, <2>1, <2>3, <2>5, <2>6, <2>7
    <2>21. 5 * left' + 2 * Len(frames') + work' < 5 * left + 2 * Len(frames) + work
      BY <2>20, <2>3, <2>5, <2>6, <2>7
    <2> QED BY <2>1, <2>20, <2>21, StepsLeftInLoop DEF left, work
  <1>3. CASE PrepareTop
    <2>1. /\ pc = "dfs" /\ pc' = "dfs" /\ UNCHANGED <<plan, outcome, subtree_complete>>
          /\ ~subtree_complete /\ f.entered /\ f.requires_fanout_staging /\ ~f.fanout_prepared
          /\ frames' = [frames EXCEPT ![top].fanout_prepared = TRUE]
      BY <1>1, <1>3 DEF PrepareTop, Descending, StagingPending, top
    <2>2. left' = left
      BY <1>1, <2>1, CountOfNotYetRun
    <2>3. /\ Len(frames') = Len(frames)
          /\ frames'[Len(frames')].entered = TRUE /\ frames'[Len(frames')].fanout_prepared = TRUE
      <3>1. /\ Len(frames') = Len(frames)
            /\ frames'[top] = [frames[top] EXCEPT !.fanout_prepared = TRUE]
        BY <1>1, <2>1, PreparedTop
      <3>2. frames[top] \in FrameType /\ frames[top].entered = TRUE
        BY <1>1, <2>1 DEF FrameType
      <3>3. frames'[top].entered = TRUE /\ frames'[top].fanout_prepared = TRUE
        BY <3>1, <3>2 DEF FrameType
      <3>4. top = Len(frames')
        BY <1>1, <2>1, <3>1
      <3> QED BY <3>1, <3>3, <3>4
    <2>4. work' = 3
      <3>1. subtree_complete' = FALSE
        BY <2>1, <1>0
      <3> QED BY <2>3, <3>1 DEF WorkOn
    <2>5. work = 4
      BY <2>1 DEF WorkOn
    <2> HIDE DEF left, work
    <2>20. /\ left \in Nat /\ left' \in Nat /\ work' \in Nat
           /\ Len(frames) \in Nat /\ Len(frames') \in Nat
      BY <1>0, <1>1, <2>1, <2>2, <2>3, <2>4, <2>5
    <2>21. 5 * left' + 2 * Len(frames') + work' < 5 * left + 2 * Len(frames) + work
      BY <2>20, <2>2, <2>3, <2>4, <2>5
    <2> QED BY <2>1, <2>20, <2>21, StepsLeftInLoop DEF left, work
  <1>4. CASE FinishTop
    <2>1. /\ pc = "dfs" /\ pc' = "dfs" /\ UNCHANGED <<plan, outcome, frames>>
          /\ ~subtree_complete /\ subtree_complete' /\ f.entered
          /\ ~(f.requires_fanout_staging /\ ~f.fanout_prepared)
      BY <1>1, <1>4 DEF FinishTop, Descending, StagingPending, top, run_vars
    <2>2. left' = left /\ Len(frames') = Len(frames)
      BY <1>1, <2>1, CountOfNotYetRun
    <2>3. work' = 2 /\ work = 3
      BY <2>1 DEF WorkOn
    <2> HIDE DEF left, work
    <2>20. /\ left \in Nat /\ left' \in Nat /\ work' \in Nat
           /\ Len(frames) \in Nat /\ Len(frames') \in Nat
      BY <1>0, <1>1, <2>1, <2>2, <2>3
    <2>21. 5 * left' + 2 * Len(frames') + work' < 5 * left + 2 * Len(frames) + work
      BY <2>20, <2>2, <2>3
    <2> QED BY <2>1, <2>20, <2>21, StepsLeftInLoop DEF left, work
  <1>5. CASE Descend
    <2>1. /\ pc = "dfs" /\ pc' = "dfs" /\ UNCHANGED <<plan, outcome, subtree_complete>>
          /\ ~subtree_complete /\ f.entered
          /\ ~(f.requires_fanout_staging /\ ~f.fanout_prepared)
      BY <1>1, <1>5 DEF Descend, Descending, StagingPending, top, run_vars
    <2>2. left' = left
      BY <1>1, <2>1, CountOfNotYetRun
    <2>3. PICK i : frames' = Append(frames, Frame(i))
      BY <1>5 DEF Descend
    <2>4. Len(frames') = Len(frames) + 1 /\ frames'[Len(frames')] = Frame(i)
      BY <1>1, <2>1, <2>3
    <2>5. work' = 0 /\ work = 3
      BY <2>1, <2>4 DEF WorkOn, Frame
    <2> HIDE DEF left, work
    <2>20. /\ left \in Nat /\ left' \in Nat /\ work' \in Nat
           /\ Len(frames) \in Nat /\ Len(frames') \in Nat
      BY <1>0, <1>1, <2>1, <2>2, <2>4, <2>5
    <2>21. 5 * left' + 2 * Len(frames') + work' < 5 * left + 2 * Len(frames) + work
      BY <2>20, <2>2, <2>4, <2>5
    <2> QED BY <2>1, <2>20, <2>21, StepsLeftInLoop DEF left, work
  <1>6. CASE LeaveAndAdvance
    <2>1. /\ pc = "dfs" /\ pc' = "dfs" /\ UNCHANGED <<plan, outcome>>
          /\ subtree_complete /\ Len(frames) > 1
      BY <1>6 DEF LeaveAndAdvance
    <2>2. left' = left
      BY <1>1, <2>1, CountOfNotYetRun
    <2>3. PICK ord \in Nat :
            frames' = [SubSeq(frames, 1, top - 1) EXCEPT ![top - 1].next_child_ordinal = ord]
      <3>1. top - 1 \in 1 .. Len(frames)
        BY <1>1, <2>1
      <3>2. frames[top - 1].next_child_ordinal + 1 \in Nat
        BY <1>1, <2>1, <3>1, PromisedFrames DEF FrameType
      <3> QED BY <1>6, <3>2 DEF LeaveAndAdvance
    <2>4. /\ Len(frames') = Len(frames) - 1
          /\ frames'[top - 1] = [frames[top - 1] EXCEPT !.next_child_ordinal = ord]
      BY <1>1, <2>1, <2>3, PoppedAndAdvanced
    <2>5. /\ frames[top - 1] \in FrameType /\ frames[top - 1].entered
          /\ frames[top - 1].requires_fanout_staging => frames[top - 1].fanout_prepared
      <3>1. top - 1 \in 1 .. Len(frames) - 1 /\ top - 1 \in 1 .. Len(frames)
        BY <1>1, <2>1
      <3>2. FrameIsServed(top - 1) /\ top - 1 < Len(frames)
        BY <1>1, <2>1, <3>1 DEF PromiseInv, ReadInv, FramesAreServed
      <3> QED BY <2>1, <3>1, <3>2, PromisedFrames DEF FrameIsServed
    <2>6. work' \in {2, 3}
      <3>1. subtree_complete' \in BOOLEAN
        BY <1>6 DEF LeaveAndAdvance
      <3>2. /\ frames'[top - 1].entered = TRUE
            /\ \/ frames'[top - 1].requires_fanout_staging = FALSE
               \/ frames'[top - 1].fanout_prepared = TRUE
        BY <2>4, <2>5 DEF FrameType
      <3>3. top - 1 = Len(frames')
        BY <1>1, <2>1, <2>4
      <3> QED BY <3>1, <3>2, <3>3, WorkOnEntered
    <2>7. work = 2
      BY <2>1 DEF WorkOn
    <2> HIDE DEF left, work
    <2>20. /\ left \in Nat /\ left' \in Nat /\ work' \in Nat
           /\ Len(frames) \in Nat /\ Len(frames') \in Nat
      BY <1>0, <1>1, <2>1, <2>2, <2>4, <2>6, <2>7
    <2>21. 5 * left' + 2 * Len(frames') + work' < 5 * left + 2 * Len(frames) + work
      BY <2>20, <2>2, <2>4, <2>6, <2>7
    <2> QED BY <2>1, <2>20, <2>21, StepsLeftInLoop DEF left, work
  <1>7. CASE LeaveAndUnwind
    <2>1. /\ pc = "dfs" /\ pc' = "dfs" /\ UNCHANGED <<plan, outcome, subtree_complete>>
          /\ subtree_complete /\ Len(frames) > 1 /\ frames' = SubSeq(frames, 1, top - 1)
      BY <1>7 DEF LeaveAndUnwind
    <2>2. left' = left
      BY <1>1, <2>1, CountOfNotYetRun
    <2>3. Len(frames') = Len(frames) - 1
      BY <1>1, <2>1, PoppedFrame
    <2>4. work' = 2 /\ work = 2
      BY <2>1 DEF WorkOn
    <2> HIDE DEF left, work
    <2>20. /\ left \in Nat /\ left' \in Nat /\ work' \in Nat
           /\ Len(frames) \in Nat /\ Len(frames') \in Nat
      BY <1>0, <1>1, <2>1, <2>2, <2>3, <2>4
    <2>21. 5 * left' + 2 * Len(frames') + work' < 5 * left + 2 * Len(frames) + work
      BY <2>20, <2>2, <2>3, <2>4
    <2> QED BY <2>1, <2>20, <2>21, StepsLeftInLoop DEF left, work
  <1>8. CASE LeaveRoot
    <2>1. pc = "dfs" /\ pc' = "fanout_dtor" /\ plan' = plan /\ subtree_complete
      BY <1>8 DEF LeaveRoot
    <2>2. WorkOn(f, subtree_complete) = 2
      BY <2>1 DEF WorkOn
    <2> QED BY <2>1, <2>2, StepsLeftBehind
  <1>9. CASE EnterTopThrows
    <2>1. /\ pc = "dfs" /\ pc' = "fanout_dtor" /\ plan' = plan
          /\ ~subtree_complete /\ ~f.entered
      BY <1>1, <1>9 DEF EnterTopThrows, EscapeLoop, Descending, top
    <2> QED BY <1>1, <2>1, StepsLeftBehind
  <1>10. CASE PrepareTopThrows
    <2>1. /\ pc = "dfs" /\ pc' = "fanout_dtor" /\ plan' = plan
          /\ ~subtree_complete /\ f.entered /\ f.requires_fanout_staging /\ ~f.fanout_prepared
      BY <1>1, <1>10 DEF PrepareTopThrows, EscapeLoop, Descending, StagingPending, top
    <2>2. WorkOn(f, subtree_complete) = 4
      BY <2>1 DEF WorkOn
    <2> QED BY <2>1, <2>2, StepsLeftBehind
  <1>11. CASE Leave
    BY <1>11, StepsLeftInNat, LeavingCountsDown DEF Leave, StepsLeft
  <1> QED BY <1>2, <1>3, <1>4, <1>5, <1>6, <1>7, <1>8, <1>9, <1>10, <1>11 DEF Step

(* A run of n nodes takes at most 6 n steps, whatever its tasks report and *)
(* wherever an exception is thrown: every step leaves fewer to take.  With *)
(* a thread that keeps running this is why every run ends.                 *)
THEOREM LoopTakesFewSteps ==
  Spec => /\ StepsLeft = 6 * plan.n
          /\ []( StepsLeft \in Nat )
          /\ [][StepsLeft' < StepsLeft]_vars
  <1>1. Init => StepsLeft = 6 * plan.n
    <2> SUFFICES ASSUME Init PROVE StepsLeft = 6 * plan.n
      OBVIOUS
    <2>1. /\ plan \in Plans /\ pc = "dfs" /\ RunInit /\ frames = <<Frame(0)>>
          /\ ~subtree_complete
      BY DEF Init, RunInit
    <2>2. Cardinality(NotYetRun) = plan.n /\ plan.n \in Nat
      BY <2>1, CountOfNotYetRun, RootIsANode
    <2>3. Len(frames) = 1 /\ frames[1] = Frame(0)
      BY <2>1
    <2>4. WorkOn(frames[Len(frames)], subtree_complete) = 0
      BY <2>1, <2>3 DEF WorkOn, Frame
    <2> QED BY <2>1, <2>2, <2>3, <2>4 DEF StepsLeft
  <1>2. PromiseInv => StepsLeft \in Nat
    BY StepsLeftInNat
  <1>3. PromiseInv /\ PromiseInv' /\ [Next]_vars => [StepsLeft' < StepsLeft]_vars
    BY StepMakesProgress DEF Next, Done
  <1> QED BY <1>1, <1>2, <1>3, PromiseInvHolds, PTL DEF Spec

===============================================================================
