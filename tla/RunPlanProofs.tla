---------------------------- MODULE RunPlanProofs -----------------------------
(***************************************************************************)
(* What the proofs about both executors, and about the slots used without  *)
(* one, share: consequences of a plan's being well formed, facts about     *)
(* walks from the root down the tree, what the operations of RunPlan do to *)
(* the storage, and the steps that run_plan itself takes.                  *)
(*                                                                         *)
(* The library's induction theorems take a predicate as a parameter, which *)
(* the provers cannot instantiate.  Inductions here are arguments by least *)
(* counterexample: every non-empty set of natural numbers has a least      *)
(* element.                                                                *)
(***************************************************************************)
EXTENDS RunPlan, SequenceTheorems, FiniteSetTheorems, TLAPS

-------------------------------------------------------------------------------
(* Induction.                                                              *)

Less == {pair \in Nat \X Nat : pair[1] < pair[2]}

(* The order of the natural numbers, as a relation, is well founded.       *)
LEMMA LessIsWellFounded == IsWellFoundedOn(Less, Nat)
  <1>1. OpToRel(<, Nat) = Less
    BY Zenon DEF OpToRel, Less
  <1> QED BY <1>1, NatLessThanWellFounded, Zenon

(* Every non-empty set of natural numbers has a least element.             *)
LEMMA LeastNumber ==
  ASSUME NEW T \in SUBSET Nat, T # {}
  PROVE  \E m \in T : \A k \in T : m <= k
  <1>1. PICK m \in T : \A k \in T : <<k, m>> \notin Less
    BY LessIsWellFounded, WFMin
  <1>2. \A k \in T : ~(k < m)
    BY <1>1 DEF Less
  <1> QED BY <1>2

(* Complete induction on an initial segment of the natural numbers.        *)
LEMMA UpTo ==
  ASSUME NEW m \in Nat, NEW S,
         \A k \in 0 .. m : (\A j \in 0 .. k - 1 : j \in S) => k \in S
  PROVE  \A k \in 0 .. m : k \in S
  <1> DEFINE T == {k \in 0 .. m : k \notin S}
  <1> SUFFICES ASSUME T # {} PROVE FALSE
    OBVIOUS
  <1>0. T \in SUBSET Nat
    OBVIOUS
  <1>1. PICK k \in T : \A j \in T : k <= j
    BY <1>0, LeastNumber
  <1>2. \A j \in 0 .. k - 1 : j \in S
    BY <1>1
  <1> QED BY <1>1, <1>2

-------------------------------------------------------------------------------
(* Consequences of the assumption on plans.                                *)

(* A plan that may be run satisfies what the executors rely on.            *)
LEMMA WellFormedPlan ==
  ASSUME plan \in Plans
  PROVE  TreeWellFormed(plan) /\ SlotsWellFormed(plan) /\ TasksWellFormed(plan)
  BY PlansAssumption DEF WellFormed

(* The root is a node, at level 0.                                         *)
LEMMA RootIsANode ==
  ASSUME plan \in Plans
  PROVE  /\ 0 \in nodes /\ plan.level[0] = 0
         /\ plan.n \in Nat \ {0}
         /\ nodes = 0 .. plan.n - 1
         /\ \A i \in nodes : i \in Nat /\ i # plan.n
  BY WellFormedPlan DEF TreeWellFormed, nodes, NodesOf

(* A child is a node behind its parent and one level below it, and later   *)
(* children are further behind.                                            *)
LEMMA ChildIsANode ==
  ASSUME plan \in Plans, NEW i \in nodes, NEW ord \in Nat, ord < plan.child_counts[i]
  PROVE  /\ ChildAt(plan, i, ord) \in nodes
         /\ plan.parent[ChildAt(plan, i, ord)] = i
         /\ i < ChildAt(plan, i, ord)
         /\ plan.level[ChildAt(plan, i, ord)] = plan.level[i] + 1
         /\ plan.child_counts[ChildAt(plan, i, ord)] \in Nat
         /\ \A later \in Nat : ord < later /\ later < plan.child_counts[i] =>
              ChildAt(plan, i, ord) < ChildAt(plan, i, later)
  <1>1. TreeWellFormed(plan) /\ i # plan.n
    BY WellFormedPlan, RootIsANode
  <1>2. plan.child_counts[i] \in Nat
    BY <1>1 DEF TreeWellFormed, nodes
  <1>3. ord \in 0 .. plan.child_counts[i] - 1
    BY <1>2
  <1>4. /\ ChildAt(plan, i, ord) \in nodes
        /\ plan.parent[ChildAt(plan, i, ord)] = i
        /\ plan.level[ChildAt(plan, i, ord)] = plan.level[i] + 1
        /\ \A later \in ord + 1 .. plan.child_counts[i] - 1 :
             ChildAt(plan, i, ord) < ChildAt(plan, i, later)
    BY <1>1, <1>3 DEF TreeWellFormed, nodes
  <1>5. i < ChildAt(plan, i, ord) /\ plan.child_counts[ChildAt(plan, i, ord)] \in Nat
    BY <1>1, <1>4 DEF TreeWellFormed, nodes
  <1>6. \A later \in Nat : ord < later /\ later < plan.child_counts[i] =>
          later \in ord + 1 .. plan.child_counts[i] - 1
    BY <1>2
  <1> QED BY <1>4, <1>5, <1>6

(* A parent is a node in front of its child, and the root has none.        *)
LEMMA ParentIsANode ==
  ASSUME plan \in Plans
  PROVE  /\ plan.parent[0] = plan.n
         /\ \A i \in nodes : plan.parent[i] # plan.n =>
              plan.parent[i] \in nodes /\ plan.parent[i] < i
  <1>1. /\ plan.n \in Nat \ {0}
        /\ nodes = 0 .. plan.n - 1
        /\ \A i \in nodes : /\ plan.parent[i] \in 0 .. plan.n
                            /\ plan.parent[i] = plan.n <=> i = 0
                            /\ i # 0 => plan.parent[i] < i
    BY WellFormedPlan, RootIsANode DEF TreeWellFormed, nodes
  <1> QED BY <1>1

(* The kinds of tasks that own a payload, forward one, or have no output.  *)
LEMMA KindsOfTasks ==
  ASSUME plan \in Plans, NEW i \in nodes
  PROVE  /\ PayloadNode(plan, i) <=> plan.task[i].kind \in {"value", "task_result", "direct_out"}
         /\ IsForwardPrev(plan.task[i]) <=> plan.task[i].kind = "forward_prev"
         /\ ~OutputIsVoid(plan.task[i]) =>
              (PayloadNode(plan, i) <=> ~IsForwardPrev(plan.task[i]))
         /\ PayloadNode(plan, i) => ~OutputIsVoid(plan.task[i])
  <1>1. plan.task[i].kind \in Kinds
    BY WellFormedPlan DEF TasksWellFormed, nodes
  <1> QED BY <1>1 DEF Kinds, PayloadNode, OutputStorageMode, OutputIsVoid, IsForwardPrev

(* A task that consumes uses its parent's output, and not only by copying. *)
LEMMA ConsumersUsePrev ==
  ASSUME plan \in Plans, NEW i \in nodes, ConsumeOnly(plan.task[i])
  PROVE  UsesPrevAccess(plan.task[i]) /\ ~CopyOnly(plan.task[i])
  <1> DEFINE specs      == plan.task[i].specs
             some(kinds) == {k \in DOMAIN specs : specs[k] \in kinds}
  <1>1. specs \in Seq(PrevAccessKinds)
    BY WellFormedPlan DEF TasksWellFormed, nodes
  <1>2. IsFiniteSet(DOMAIN specs)
    BY <1>1, LenProperties, FS_Interval
  <1>3. \A kinds : IsFiniteSet(some(kinds))
    BY <1>2, FS_Subset
  <1>4. Cardinality(some({"consume"})) # 0
    BY DEF ConsumeOnly, PrevCount
  <1>5. some({"consume"}) # {}
    BY <1>4, FS_EmptySet
  <1>6. some(PrevAccessKinds) # {} /\ some(PrevAccessKinds \ {"copy"}) # {}
    BY <1>5 DEF PrevAccessKinds
  <1>7. /\ Cardinality(some(PrevAccessKinds)) # 0
        /\ Cardinality(some(PrevAccessKinds \ {"copy"})) # 0
    BY <1>3, <1>6, FS_EmptySet
  <1> QED BY <1>7 DEF UsesPrevAccess, CopyOnly, PrevCount

(* Complete induction on the nodes of a plan.                              *)
LEMMA NodeInduction ==
  ASSUME plan \in Plans, NEW S,
         \A m \in nodes : (\A k \in 0 .. m - 1 : k \in S) => m \in S
  PROVE  \A i \in nodes : i \in S
  <1>1. plan.n - 1 \in Nat /\ nodes = 0 .. plan.n - 1
    BY RootIsANode
  <1>2. \A m \in 0 .. plan.n - 1 : (\A k \in 0 .. m - 1 : k \in S) => m \in S
    BY <1>1
  <1>3. \A m \in 0 .. plan.n - 1 : m \in S
    BY <1>1, <1>2, UpTo
  <1> QED BY <1>1, <1>3

-------------------------------------------------------------------------------
(* Functions defined by recursion along the parents.                       *)

(* f is `start` at the root and follows `step` from parents to children.   *)
Follows(f, start, step) ==
  \A i \in nodes :
    f[i] = IF plan.parent[i] = plan.n THEN start[i] ELSE step[i][f[plan.parent[i]]]

(* No node is its own ancestor, so there is such a function.               *)
LEMMA RecursionAlongParents ==
  ASSUME plan \in Plans, NEW V, NEW start \in [nodes -> V], NEW step \in [nodes -> [V -> V]]
  PROVE  \E f \in [nodes -> V] : Follows(f, start, step)
  <1> DEFINE Extends(f, m) ==
               \A i \in 0 .. m - 1 :
                 f[i] = IF plan.parent[i] = plan.n THEN start[i] ELSE step[i][f[plan.parent[i]]]
             S == {m \in 0 .. plan.n : \E f \in [0 .. m - 1 -> V] : Extends(f, m)}
  <1>1. plan.n \in Nat /\ nodes = 0 .. plan.n - 1
    BY RootIsANode
  <1>2. \A i \in nodes : plan.parent[i] \in 0 .. plan.n /\ (plan.parent[i] = plan.n \/ plan.parent[i] < i)
    BY WellFormedPlan DEF TreeWellFormed, nodes
  <1>3. ASSUME NEW m \in 0 .. plan.n, \A k \in 0 .. m - 1 : k \in S
        PROVE  m \in S
    <2>1. CASE m = 0
      <3>1. 0 .. m - 1 = {}
        BY <2>1
      <3>2. [i \in {} |-> start[i]] \in [0 .. m - 1 -> V]
        BY <3>1
      <3> QED BY <3>1, <3>2
    <2>2. CASE m # 0
      <3>1. m - 1 \in S /\ m - 1 \in nodes /\ m \in Nat
        <4>1. m - 1 \in nodes /\ m \in Nat /\ m - 1 \in 0 .. m - 1
          BY <1>1, <2>2
        <4> HIDE DEF S
        <4> QED BY <4>1, <1>3
      <3>2. PICK f \in [0 .. m - 2 -> V] : Extends(f, m - 1)
        BY <3>1
      <3>3. plan.parent[m - 1] # plan.n => plan.parent[m - 1] \in 0 .. m - 2
        BY <1>1, <1>2, <3>1
      <3>4. PICK v \in V :
              v = IF plan.parent[m - 1] = plan.n THEN start[m - 1]
                  ELSE step[m - 1][f[plan.parent[m - 1]]]
        BY <3>1, <3>2, <3>3
      <3> DEFINE g == [i \in 0 .. m - 1 |-> IF i = m - 1 THEN v ELSE f[i]]
      <3>5. g \in [0 .. m - 1 -> V]
        BY <3>1, <3>2, <3>4
      <3>6. \A i \in 0 .. m - 2 : g[i] = f[i] /\ g[m - 1] = v
        BY <3>1
      <3>7. ASSUME NEW i \in 0 .. m - 1
            PROVE  g[i] = IF plan.parent[i] = plan.n THEN start[i]
                          ELSE step[i][g[plan.parent[i]]]
        <4>1. plan.parent[i] # plan.n => plan.parent[i] \in 0 .. m - 2 /\ plan.parent[i] < i
          BY <1>1, <1>2, <3>1
        <4>2. CASE i = m - 1
          BY <3>1, <3>4, <4>1, <4>2
        <4>3. CASE i \in 0 .. m - 2
          BY <3>1, <3>2, <4>1, <4>3
        <4> QED BY <3>1, <4>2, <4>3
      <3> QED BY <3>5, <3>7
    <2> QED BY <2>1, <2>2
  <1>4. PICK T : T = S
    OBVIOUS
  <1>5. \A m \in 0 .. plan.n : (\A k \in 0 .. m - 1 : k \in T) => m \in T
    BY <1>3, <1>4
  <1>6. plan.n \in T
    <2> HIDE DEF S
    <2>1. \A k \in 0 .. plan.n : k \in T
      BY <1>1, <1>5, UpTo
    <2> QED BY <1>1, <2>1
  <1> QED BY <1>1, <1>4, <1>6 DEF Follows

(* Owned payloads on the path from the root to a node.                     *)
Depth(i) == PayloadDepths(plan)[i]

(* A node is one deeper than its parent if it owns a payload, and as deep  *)
(* otherwise.                                                              *)
LEMMA DepthFollowsTheParent ==
  ASSUME plan \in Plans
  PROVE  \A i \in nodes :
           /\ Depth(i) \in Nat
           /\ plan.parent[i] # plan.n =>
                Depth(i) = Depth(plan.parent[i]) + (IF PayloadNode(plan, i) THEN 1 ELSE 0)
  <1> DEFINE own(j) == IF PayloadNode(plan, j) THEN 1 ELSE 0
             Def(depth) == [j \in NodesOf(plan) |->
                              (IF plan.parent[j] = plan.n THEN 0 ELSE depth[plan.parent[j]]) + own(j)]
             S == {j \in nodes : Depth(j) \in Nat}
  <1>1. \A j : own(j) \in Nat
    OBVIOUS
  <1>2. \E f : f = Def(f)
    <2> DEFINE start == [j \in nodes |-> own(j)]
               step  == [j \in nodes |-> [v \in Nat |-> v + own(j)]]
    <2>1. start \in [nodes -> Nat] /\ step \in [nodes -> [Nat -> Nat]]
      BY <1>1
    <2>2. PICK f \in [nodes -> Nat] : Follows(f, start, step)
      <3> HIDE DEF start, step
      <3> QED BY <2>1, RecursionAlongParents
    <2>3. \A j \in nodes :
            f[j] = (IF plan.parent[j] = plan.n THEN 0 ELSE f[plan.parent[j]]) + own(j)
      <3> SUFFICES ASSUME NEW j \in nodes
                   PROVE  f[j] = (IF plan.parent[j] = plan.n THEN 0 ELSE f[plan.parent[j]]) + own(j)
        OBVIOUS
      <3>1. plan.parent[j] # plan.n => f[plan.parent[j]] \in Nat
        BY ParentIsANode
      <3>2. plan.parent[j] # plan.n => f[j] = f[plan.parent[j]] + own(j)
        BY <2>2, <3>1 DEF Follows
      <3>3. plan.parent[j] = plan.n => f[j] = own(j)
        BY <2>2 DEF Follows
      <3> QED BY <1>1, <3>1, <3>2, <3>3
    <2> QED BY <2>3 DEF nodes
  <1>3. PayloadDepths(plan) = CHOOSE depth : depth = Def(depth)
    BY DEF PayloadDepths
  <1>4. PayloadDepths(plan) = Def(PayloadDepths(plan))
    BY <1>2, <1>3
  <1>5. \A j \in nodes :
          Depth(j) = (IF plan.parent[j] = plan.n THEN 0 ELSE Depth(plan.parent[j])) + own(j)
    <2> HIDE DEF own
    <2> QED BY <1>4 DEF Depth, nodes
  <1>6. ASSUME NEW m \in nodes, \A k \in 0 .. m - 1 : k \in S
        PROVE  m \in S
    <2>1. plan.parent[m] # plan.n => plan.parent[m] \in 0 .. m - 1
      BY ParentIsANode, RootIsANode
    <2>2. plan.parent[m] # plan.n => Depth(plan.parent[m]) \in Nat
      BY <2>1, <1>6
    <2> QED BY <1>1, <1>5, <2>2
  <1>7. \A j \in nodes : Depth(j) \in Nat
    <2>1. \A j \in nodes : j \in S
      <3> HIDE DEF S
      <3> QED BY <1>6, NodeInduction
    <2> QED BY <2>1
  <1>8. \A i \in nodes : plan.parent[i] # plan.n => Depth(i) = Depth(plan.parent[i]) + own(i)
    BY <1>5
  <1> QED BY <1>7, <1>8

(* The owner of a node's output: none if it has no output, its parent's if *)
(* it forwards, and itself if it owns a payload.                           *)
LEMMA OwnerFollowsTheParent ==
  ASSUME plan \in Plans
  PROVE  \A i \in nodes :
           /\ OutputIsVoid(plan.task[i]) => plan.owner[i] = plan.n
           /\ IsForwardPrev(plan.task[i]) =>
                /\ plan.parent[i] \in nodes
                /\ ~OutputIsVoid(plan.task[plan.parent[i]])
                /\ plan.owner[i] = plan.owner[plan.parent[i]]
           /\ PayloadNode(plan, i) => plan.owner[i] = i
  <1> DEFINE void(j)    == OutputIsVoid(plan.task[j])
             forward(j) == IsForwardPrev(plan.task[j])
             Def(owner) == [j \in NodesOf(plan) |->
                              IF void(j) THEN plan.n
                              ELSE IF forward(j) THEN owner[plan.parent[j]]
                              ELSE j]
  <1>1. /\ plan.n \in Nat /\ nodes \subseteq 0 .. plan.n
        /\ \A j \in nodes : ~(void(j) /\ forward(j))
    <2>1. \A j \in nodes : ~(void(j) /\ forward(j))
      BY DEF OutputIsVoid, IsForwardPrev
    <2> QED BY <2>1, RootIsANode
  <1>2. \A j \in nodes : forward(j) => plan.parent[j] # plan.n /\ ~void(plan.parent[j])
    BY WellFormedPlan DEF TasksWellFormed, HasParentOutput, nodes
  <1>3. \E f : f = Def(f)
    <2> DEFINE start == [j \in nodes |-> IF void(j) THEN plan.n ELSE j]
               step  == [j \in nodes |-> [v \in 0 .. plan.n |->
                           IF void(j) THEN plan.n ELSE IF forward(j) THEN v ELSE j]]
    <2>1. start \in [nodes -> 0 .. plan.n] /\ step \in [nodes -> [0 .. plan.n -> 0 .. plan.n]]
      <3> HIDE DEF void, forward
      <3> QED BY <1>1
    <2>2. PICK f \in [nodes -> 0 .. plan.n] : Follows(f, start, step)
      <3> HIDE DEF start, step
      <3> QED BY <2>1, RecursionAlongParents
    <2>3. \A j \in nodes :
            f[j] = IF void(j) THEN plan.n ELSE IF forward(j) THEN f[plan.parent[j]] ELSE j
      <3> SUFFICES ASSUME NEW j \in nodes
                   PROVE  f[j] = IF void(j) THEN plan.n
                                 ELSE IF forward(j) THEN f[plan.parent[j]] ELSE j
        OBVIOUS
      <3>1. plan.parent[j] # plan.n => f[plan.parent[j]] \in 0 .. plan.n
        BY ParentIsANode
      <3>2. plan.parent[j] # plan.n =>
              f[j] = IF void(j) THEN plan.n ELSE IF forward(j) THEN f[plan.parent[j]] ELSE j
        <4> HIDE DEF void, forward
        <4> QED BY <2>2, <3>1 DEF Follows
      <3>3. plan.parent[j] = plan.n => f[j] = IF void(j) THEN plan.n ELSE j
        <4> HIDE DEF void, forward
        <4> QED BY <2>2 DEF Follows
      <3> HIDE DEF void, forward
      <3> QED BY <1>1, <1>2, <3>2, <3>3
    <2> QED BY <2>3 DEF nodes
  <1>4. CanonicalOwners(plan) = CHOOSE owner : owner = Def(owner)
    BY DEF CanonicalOwners
  <1>5. plan.owner = Def(plan.owner)
    <2>1. CanonicalOwners(plan) = Def(CanonicalOwners(plan))
      BY <1>3, <1>4
    <2>2. plan.owner = CanonicalOwners(plan)
      BY WellFormedPlan DEF TasksWellFormed
    <2> QED BY <2>1, <2>2
  <1>6. \A j \in nodes :
          plan.owner[j] = IF void(j) THEN plan.n
                          ELSE IF forward(j) THEN plan.owner[plan.parent[j]] ELSE j
    <2> HIDE DEF void, forward
    <2> QED BY <1>5 DEF nodes
  <1>7. \A j \in nodes : PayloadNode(plan, j) => ~void(j) /\ ~forward(j)
    BY KindsOfTasks
  <1> SUFFICES ASSUME NEW i \in nodes
               PROVE  /\ void(i) => plan.owner[i] = plan.n
                      /\ forward(i) => /\ plan.parent[i] \in nodes
                                       /\ ~void(plan.parent[i])
                                       /\ plan.owner[i] = plan.owner[plan.parent[i]]
                      /\ PayloadNode(plan, i) => plan.owner[i] = i
    OBVIOUS
  <1> HIDE DEF void, forward
  <1> QED BY <1>1, <1>2, <1>6, <1>7, ParentIsANode

(* The owner of a node's output owns a payload.                            *)
LEMMA OwnersOwnPayloads ==
  ASSUME plan \in Plans
  PROVE  \A i \in nodes : ~OutputIsVoid(plan.task[i]) =>
           plan.owner[i] \in nodes /\ PayloadNode(plan, plan.owner[i])
  <1> DEFINE Owned(i) == plan.owner[i] \in nodes /\ PayloadNode(plan, plan.owner[i])
             S == {i \in nodes : ~OutputIsVoid(plan.task[i]) => Owned(i)}
  <1>1. ASSUME NEW m \in nodes, \A k \in 0 .. m - 1 : k \in S,
               ~OutputIsVoid(plan.task[m])
        PROVE  Owned(m)
    <2>1. CASE PayloadNode(plan, m)
      BY <2>1, OwnerFollowsTheParent
    <2>2. CASE ~PayloadNode(plan, m)
      <3>1. IsForwardPrev(plan.task[m])
        BY <1>1, <2>2, KindsOfTasks
      <3>2. /\ plan.parent[m] \in nodes
            /\ ~OutputIsVoid(plan.task[plan.parent[m]])
            /\ plan.owner[m] = plan.owner[plan.parent[m]]
        BY <3>1, OwnerFollowsTheParent
      <3>3. plan.parent[m] \in 0 .. m - 1
        BY <3>2, ParentIsANode, RootIsANode
      <3>4. plan.parent[m] \in S
        BY <1>1, <3>3
      <3> QED BY <3>2, <3>4
    <2> QED BY <2>1, <2>2
  <1>2. \A m \in nodes : (\A k \in 0 .. m - 1 : k \in S) => m \in S
    <2> HIDE DEF Owned
    <2> QED BY <1>1
  <1>3. \A i \in nodes : i \in S
    <2> HIDE DEF S
    <2> QED BY <1>2, NodeInduction
  <1> QED BY <1>3

-------------------------------------------------------------------------------
(* Walks down the tree.                                                    *)

(* The nodes node[1], ..., node[len] lead from the root downwards, each to *)
(* its child number ord.                                                   *)
IsWalk(node, ord, len) ==
  /\ len \in Nat
  /\ \A k \in 1 .. len : node[k] \in nodes /\ ord[k] \in Nat
  /\ len # 0 => node[1] = 0
  /\ \A k \in 1 .. len - 1 :
       /\ ord[k] < plan.child_counts[node[k]]
       /\ node[k + 1] = ChildAt(plan, node[k], ord[k])

(* Complete induction along a walk.                                        *)
LEMMA WalkInduction ==
  ASSUME NEW len \in Nat, NEW S,
         \A m \in 1 .. len : (\A k \in 1 .. m - 1 : k \in S) => m \in S
  PROVE  \A k \in 1 .. len : k \in S
  <1> DEFINE T == {k \in 0 .. len : k = 0 \/ k \in S}
  <1>1. \A m \in 0 .. len : (\A k \in 0 .. m - 1 : k \in T) => m \in T
    OBVIOUS
  <1>2. \A k \in 0 .. len : k \in T
    <2> HIDE DEF T
    <2> QED BY <1>1, UpTo
  <1> QED BY <1>2

(* A walk goes one level down at a time, from parents to children.         *)
LEMMA WalkGoesDown ==
  ASSUME plan \in Plans, NEW node, NEW ord, NEW len, IsWalk(node, ord, len)
  PROVE  /\ \A k \in 1 .. len : plan.level[node[k]] = k - 1
         /\ len # 0 => plan.parent[node[1]] = plan.n
         /\ \A k \in 2 .. len : plan.parent[node[k]] = node[k - 1] /\ node[k - 1] < node[k]
  <1>1. len \in Nat /\ (len # 0 => node[1] = 0)
    BY DEF IsWalk
  <1>2. ASSUME NEW k \in 2 .. len
        PROVE  /\ plan.parent[node[k]] = node[k - 1]
               /\ node[k - 1] < node[k]
               /\ plan.level[node[k]] = plan.level[node[k - 1]] + 1
    <2>1. /\ k - 1 \in 1 .. len - 1
          /\ node[k - 1] \in nodes /\ ord[k - 1] \in Nat
          /\ ord[k - 1] < plan.child_counts[node[k - 1]]
          /\ node[k] = ChildAt(plan, node[k - 1], ord[k - 1])
      <3>1. k - 1 \in 1 .. len - 1 /\ k - 1 \in 1 .. len /\ (k - 1) + 1 = k
        BY <1>1
      <3> QED BY <3>1 DEF IsWalk
    <2> QED BY <2>1, ChildIsANode
  <1> DEFINE S == {k \in 1 .. len : plan.level[node[k]] = k - 1}
  <1>3. ASSUME NEW m \in 1 .. len, \A k \in 1 .. m - 1 : k \in S
        PROVE  m \in S
    <2>1. CASE m = 1
      BY <1>1, <2>1, RootIsANode
    <2>2. CASE m # 1
      <3>1. m \in 2 .. len /\ m - 1 \in 1 .. m - 1
        BY <1>1, <2>2
      <3>2. m - 1 \in S
        <4> HIDE DEF S
        <4> QED BY <1>3, <3>1
      <3> QED BY <1>2, <3>1, <3>2
    <2> QED BY <2>1, <2>2
  <1>4. \A k \in 1 .. len : k \in S
    <2> HIDE DEF S
    <2> QED BY <1>1, <1>3, WalkInduction
  <1> QED BY <1>1, <1>2, <1>4, ParentIsANode

(* Nodes and depths rise along a walk, depths strictly where a payload is  *)
(* owned.                                                                  *)
LEMMA WalkRises ==
  ASSUME plan \in Plans, NEW node, NEW ord, NEW len, IsWalk(node, ord, len)
  PROVE  \A k \in 1 .. len : \A j \in 1 .. k - 1 :
           /\ node[j] < node[k]
           /\ Depth(node[j]) <= Depth(node[k])
           /\ PayloadNode(plan, node[k]) => Depth(node[j]) < Depth(node[k])
  <1> DEFINE Rises(j, k) == /\ node[j] < node[k]
                            /\ Depth(node[j]) <= Depth(node[k])
                            /\ PayloadNode(plan, node[k]) => Depth(node[j]) < Depth(node[k])
             S == {k \in 1 .. len : \A j \in 1 .. k - 1 : Rises(j, k)}
  <1>1. len \in Nat /\ \A k \in 1 .. len : node[k] \in nodes
    BY DEF IsWalk
  <1>2. \A k \in 1 .. len : node[k] \in Nat /\ node[k] # plan.n /\ Depth(node[k]) \in Nat
    BY <1>1, RootIsANode, DepthFollowsTheParent
  <1>3. ASSUME NEW m \in 1 .. len, \A k \in 1 .. m - 1 : k \in S
        PROVE  \A j \in 1 .. m - 1 : Rises(j, m)
    <2> SUFFICES ASSUME NEW j \in 1 .. m - 1 PROVE Rises(j, m)
      OBVIOUS
    <2>1. m \in 2 .. len /\ m - 1 \in 1 .. m - 1 /\ m - 1 \in 1 .. len /\ j \in 1 .. len
      BY <1>1
    <2>2. plan.parent[node[m]] = node[m - 1] /\ node[m - 1] < node[m]
      BY <2>1, WalkGoesDown
    <2>3. Depth(node[m]) = Depth(node[m - 1]) + (IF PayloadNode(plan, node[m]) THEN 1 ELSE 0)
      BY <1>2, <2>1, <2>2, <1>1, DepthFollowsTheParent
    <2>4. /\ node[j] <= node[m - 1] /\ Depth(node[j]) <= Depth(node[m - 1])
      <3>1. CASE j = m - 1
        BY <1>2, <2>1, <3>1
      <3>2. CASE j # m - 1
        <4>1. m - 1 \in S /\ j \in 1 .. (m - 1) - 1
          <5> HIDE DEF S
          <5> QED BY <1>3, <2>1, <3>2
        <4> QED BY <1>2, <2>1, <4>1
      <3> QED BY <3>1, <3>2
    <2> QED BY <1>2, <2>1, <2>2, <2>3, <2>4
  <1>4. \A k \in 1 .. len : k \in S
    <2>1. \A m \in 1 .. len : (\A k \in 1 .. m - 1 : k \in S) => m \in S
      BY <1>3
    <2> HIDE DEF S
    <2> QED BY <1>1, <2>1, WalkInduction
  <1> QED BY <1>4

(* Owned payloads of a walk are in different slots: in a compact layout    *)
(* because depths grow, in a one-to-one layout because the nodes differ.   *)
LEMMA SlotsOnAWalkDiffer ==
  ASSUME plan \in Plans, NEW node, NEW ord, NEW len, IsWalk(node, ord, len),
         NEW j \in 1 .. len, NEW k \in 1 .. len, j # k,
         PayloadNode(plan, node[j]), PayloadNode(plan, node[k])
  PROVE  plan.slot[node[j]] # plan.slot[node[k]]
  <1>1. len \in Nat /\ node[j] \in nodes /\ node[k] \in nodes
    BY DEF IsWalk
  <1>2. /\ node[j] \in Nat /\ node[k] \in Nat
        /\ Depth(node[j]) \in Nat /\ Depth(node[k]) \in Nat
    BY <1>1, RootIsANode, DepthFollowsTheParent
  <1>3. node[j] # node[k] /\ Depth(node[j]) # Depth(node[k])
    <2>1. j \in 1 .. k - 1 \/ k \in 1 .. j - 1
      BY <1>1
    <2> QED BY <1>2, <2>1, WalkRises
  <1>4. SlotsWellFormed(plan)
    BY WellFormedPlan
  <1>5. CASE plan.layout = "one_to_one"
    BY <1>1, <1>3, <1>4, <1>5 DEF SlotsWellFormed, nodes
  <1>6. CASE plan.layout = "compact"
    <2>1. plan.slot[node[j]] = Depth(node[j]) - 1 /\ plan.slot[node[k]] = Depth(node[k]) - 1
      BY <1>1, <1>4, <1>6 DEF SlotsWellFormed, nodes, Depth
    <2> QED BY <1>2, <1>3, <2>1
  <1> QED BY <1>4, <1>5, <1>6 DEF SlotsWellFormed, LayoutPolicies

(* The children a walk has not reached yet are behind all of its nodes: in *)
(* preorder a subtree ends before the next sibling.                        *)
LEMMA LaterChildrenAreAhead ==
  ASSUME plan \in Plans, NEW node, NEW ord, NEW len, IsWalk(node, ord, len),
         NEW j \in 1 .. len, NEW o \in Nat, o < plan.child_counts[node[j]],
         j < len => ord[j] < o
  PROVE  \A k \in 1 .. len : node[k] < ChildAt(plan, node[j], o)
  <1> DEFINE later == ChildAt(plan, node[j], o)
             S     == {k \in 1 .. len : node[k] < later}
  <1>1. len \in Nat /\ \A k \in 1 .. len : node[k] \in nodes /\ ord[k] \in Nat /\ node[k] \in Nat
    BY RootIsANode DEF IsWalk
  <1>2. later \in nodes /\ later \in Nat /\ plan.parent[later] = node[j] /\ node[j] < later
    BY <1>1, ChildIsANode, RootIsANode
  <1>3. plan.n \notin nodes
    BY RootIsANode
  <1> HIDE DEF later
  <1>4. \A k \in 1 .. j - 1 : node[k] < node[j]
    BY WalkRises
  <1>5. ASSUME NEW m \in 1 .. len, \A k \in 1 .. m - 1 : k \in S
        PROVE  m \in S
    <2>1. CASE m <= j
      BY <1>1, <1>2, <1>4, <2>1
    <2>2. CASE m = j + 1
      <3>1. /\ j \in 1 .. len - 1
            /\ ord[j] < plan.child_counts[node[j]]
            /\ node[m] = ChildAt(plan, node[j], ord[j])
        BY <1>1, <2>2 DEF IsWalk
      <3>2. ord[j] < o
        BY <1>1, <3>1
      <3>3. ChildAt(plan, node[j], ord[j]) < later
        BY <1>1, <3>1, <3>2, ChildIsANode DEF later
      <3> QED BY <3>1, <3>3
    <2>3. CASE m > j + 1
      <3>1. m \in 2 .. len /\ m - 1 \in 1 .. m - 1 /\ m - 1 \in 1 .. len /\ j \in 1 .. (m - 1) - 1
        BY <1>1, <2>3
      <3>2. node[m - 1] < later
        <4>1. m - 1 \in S
          <5> HIDE DEF S
          <5> QED BY <1>5, <3>1
        <4> QED BY <4>1
      <3>3. plan.parent[node[m]] = node[m - 1] /\ node[m - 1] < node[m] /\ node[j] < node[m - 1]
        BY <3>1, WalkGoesDown, WalkRises
      <3>4. ~(later < node[m])
        <4>1. TreeWellFormed(plan)
          BY WellFormedPlan
        <4>2. later < node[m] => plan.parent[node[m]] <= plan.parent[later]
          BY <1>1, <1>2, <3>2, <3>3, <4>1 DEF TreeWellFormed, nodes
        <4> QED BY <1>1, <1>2, <3>1, <3>3, <4>2
      <3>5. node[m] # later
        BY <1>1, <1>2, <3>1, <3>3
      <3> QED BY <1>1, <1>2, <3>4, <3>5
    <2> QED BY <1>1, <2>1, <2>2, <2>3
  <1>6. \A k \in 1 .. len : k \in S
    <2> HIDE DEF S
    <2> QED BY <1>1, <1>5, WalkInduction
  <1> QED BY <1>6 DEF later

(* The owner of the output of a node on a walk is on the walk, at or above *)
(* that node.                                                              *)
LEMMA OwnerIsOnTheWalk ==
  ASSUME plan \in Plans, NEW node, NEW ord, NEW len, IsWalk(node, ord, len)
  PROVE  \A k \in 1 .. len : ~OutputIsVoid(plan.task[node[k]]) =>
           \E j \in 1 .. k : PayloadNode(plan, node[j]) /\ plan.owner[node[k]] = node[j]
  <1> DEFINE Owned(k) == \E j \in 1 .. k : PayloadNode(plan, node[j]) /\ plan.owner[node[k]] = node[j]
             S == {k \in 1 .. len : ~OutputIsVoid(plan.task[node[k]]) => Owned(k)}
  <1>1. len \in Nat /\ \A k \in 1 .. len : node[k] \in nodes
    BY DEF IsWalk
  <1>2. ASSUME NEW m \in 1 .. len, \A k \in 1 .. m - 1 : k \in S,
               ~OutputIsVoid(plan.task[node[m]])
        PROVE  Owned(m)
    <2>1. CASE PayloadNode(plan, node[m])
      BY <1>1, <2>1, OwnerFollowsTheParent
    <2>2. CASE ~PayloadNode(plan, node[m])
      <3>1. IsForwardPrev(plan.task[node[m]])
        BY <1>1, <1>2, <2>2, KindsOfTasks
      <3>2. /\ plan.parent[node[m]] \in nodes
            /\ ~OutputIsVoid(plan.task[plan.parent[node[m]]])
            /\ plan.owner[node[m]] = plan.owner[plan.parent[node[m]]]
        BY <1>1, <3>1, OwnerFollowsTheParent
      <3>3. m # 1
        BY <1>1, <3>2, WalkGoesDown, RootIsANode
      <3>4. m \in 2 .. len /\ m - 1 \in 1 .. m - 1
        BY <1>1, <3>3
      <3>5. plan.parent[node[m]] = node[m - 1]
        BY <3>4, WalkGoesDown
      <3>6. m - 1 \in S
        <4> HIDE DEF S
        <4> QED BY <1>2, <3>4
      <3>7. PICK j \in 1 .. m - 1 : PayloadNode(plan, node[j]) /\ plan.owner[node[m - 1]] = node[j]
        BY <3>2, <3>5, <3>6
      <3> QED BY <1>1, <3>2, <3>5, <3>7
    <2> QED BY <2>1, <2>2
  <1>3. \A m \in 1 .. len : (\A k \in 1 .. m - 1 : k \in S) => m \in S
    <2> HIDE DEF Owned
    <2> QED BY <1>2
  <1>4. \A k \in 1 .. len : k \in S
    <2> HIDE DEF S
    <2> QED BY <1>1, <1>3, WalkInduction
  <1> QED BY <1>4

-------------------------------------------------------------------------------
(* The type of a run's state.                                              *)

(* Replacing one element of a sequence.                                    *)
LEMMA SequenceUpdate ==
  ASSUME NEW S, NEW seq \in Seq(S), NEW i \in 1 .. Len(seq), NEW e \in S,
         NEW t, t = [seq EXCEPT ![i] = e]
  PROVE  /\ t \in Seq(S)
         /\ Len(t) = Len(seq)
         /\ \A j \in 1 .. Len(seq) : t[j] = IF j = i THEN e ELSE seq[j]
  BY ExceptSeq

Cells == [0 .. plan.n_slots - 1 -> Cell]

(* The empty cell, and any cell naming nodes, are cells.                   *)
LEMMA CellsAreTyped ==
  /\ EmptyCell \in Cell
  /\ \A obj \in nodes \cup {NoObject, Poisoned}, moved, engaged \in BOOLEAN,
        owner \in nodes \cup {NoPhysicalSlot} :
       [obj |-> obj, moved |-> moved, engaged |-> engaged, owner |-> owner] \in Cell
  BY DEF EmptyCell, Cell

(* Every slot operation keeps the slots well typed, wherever it writes.    *)
LEMMA SlotOperationsAreTyped ==
  ASSUME NEW cells \in Cells, NEW flags, NEW i \in nodes
  PROVE  /\ Emplace(cells, i) \in Cells
         /\ Destroy(cells, flags, i) \in Cells
         /\ ConsumePrev(cells, i) \in Cells
  <1>1. Emplace(cells, i) \in Cells
    BY DEF Emplace, Cells, Cell, FlaggedSlot, nodes, NodesOf
  <1>2. Destroy(cells, flags, i) \in Cells
    BY DEF Destroy, Cells, Cell, EmptyCell, nodes, NodesOf
  <1>3. ConsumePrev(cells, i) \in Cells
    BY DEF ConsumePrev, Cells, Cell, nodes, NodesOf
  <1> QED BY <1>1, <1>2, <1>3

(* Setting a live flag keeps the flags well typed.                         *)
LEMMA LiveFlagsAreTyped ==
  ASSUME NEW flags \in [nodes -> BOOLEAN], NEW i \in nodes, NEW live \in BOOLEAN
  PROVE  SetLive(flags, i, live) \in [nodes -> BOOLEAN]
  BY DEF SetLive

(* Running a node's task keeps the storage well typed.                     *)
LEMMA EnterNodeIsTyped ==
  ASSUME RunTypeOK, NEW i \in nodes, NEW status \in Statuses, EnterNode(i, status),
         plan' = plan
  PROVE  /\ slots' \in Cells
         /\ live_slots' \in [nodes -> BOOLEAN]
         /\ stage' \in [nodes -> BOOLEAN]
         /\ outcome' \in [nodes -> Statuses \cup {"none", "threw"}]
  <1>1. slots \in Cells /\ live_slots \in [nodes -> BOOLEAN]
    BY DEF RunTypeOK, Cells
  <1>2. ConsumePrev(slots, i) \in Cells
    BY <1>1, SlotOperationsAreTyped
  <1>3. Emplace(ConsumePrev(slots, i), i) \in Cells
    BY <1>2, SlotOperationsAreTyped
  <1>4. \A cells \in Cells : Destroy(cells, live_slots, i) \in Cells
    BY SlotOperationsAreTyped
  <1>5. \A live \in BOOLEAN : SetLive(live_slots, i, live) \in [nodes -> BOOLEAN]
    BY <1>1, LiveFlagsAreTyped
  <1>6. slots' \in Cells /\ live_slots' \in [nodes -> BOOLEAN]
    <2>1. CASE \E emplaced \in BOOLEAN : EnterDirectOutput(i, status, emplaced)
      BY <1>1, <1>2, <1>3, <1>4, <1>5, <2>1 DEF EnterDirectOutput
    <2>2. CASE EnterReturningPayload(i, status)
      BY <1>1, <1>2, <1>3, <1>5, <2>2 DEF EnterReturningPayload
    <2>3. CASE EnterWithoutPayload(i)
      BY <1>1, <1>2, <2>3 DEF EnterWithoutPayload
    <2> QED BY <2>1, <2>2, <2>3 DEF EnterNode
  <1> QED BY <1>6 DEF EnterNode, RunTypeOK

(* A run starts well typed.                                                *)
LEMMA RunInitIsTyped ==
  ASSUME RunInit
  PROVE  RunTypeOK
  BY RootIsANode DEF RunInit, RunTypeOK, EmptyCell, Cell

(* Well-typed parts of the next state make it well typed.                  *)
LEMMA RunTypeNext ==
  ASSUME plan' = plan,
         slots' \in Cells, live_slots' \in [nodes -> BOOLEAN],
         stage' \in [nodes -> BOOLEAN],
         outcome' \in [nodes -> Statuses \cup {"none", "threw"}],
         pc' \in {"dfs", "fanout_dtor", "slots_dtor", "done"},
         result' \in Statuses \cup {"none", "exception"},
         cleanup' \in 0 .. plan.n
  PROVE  RunTypeOK'
  BY DEF RunTypeOK, Cells, Cell, nodes

(* run_plan's destructors keep the state well typed.                       *)
LEMMA LeaveRunPlanIsTyped ==
  ASSUME plan \in Plans, RunTypeOK, LeaveRunPlan
  PROVE  /\ RunTypeOK'
         /\ UNCHANGED <<plan, result, outcome>>
         /\ pc \in {"fanout_dtor", "slots_dtor"} /\ pc' \in {"slots_dtor", "done"}
  <1>1. slots \in Cells /\ live_slots \in [nodes -> BOOLEAN]
    BY DEF RunTypeOK, Cells
  <1>2. CASE DestroyFanoutState
    <2>1. RunTypeOK'
      BY <1>1, <1>2, RunTypeNext DEF RunTypeOK, DestroyFanoutState, Cells
    <2> QED BY <1>2, <2>1 DEF DestroyFanoutState
  <1>3. CASE DestroyActiveSlot
    <2>1. /\ cleanup \in nodes
          /\ cleanup' \in 0 .. plan.n
      BY <1>3, RootIsANode DEF DestroyActiveSlot, RunTypeOK
    <2>2. /\ slots' \in {slots, Destroy(slots, live_slots, cleanup)}
          /\ live_slots' \in {live_slots, SetLive(live_slots, cleanup, FALSE)}
      <3>1. CASE DestroyTypedSlot(cleanup)
        BY <3>1 DEF DestroyTypedSlot
      <3>2. CASE DestroyErasedSlot(cleanup)
        BY <3>2 DEF DestroyErasedSlot
      <3> QED BY <1>3, <3>1, <3>2 DEF DestroyActiveSlot
    <2>3. Destroy(slots, live_slots, cleanup) \in Cells
      BY <1>1, <2>1, SlotOperationsAreTyped
    <2>4. SetLive(live_slots, cleanup, FALSE) \in [nodes -> BOOLEAN]
      BY <1>1, <2>1, LiveFlagsAreTyped
    <2>5. /\ UNCHANGED <<plan, result, stage, outcome>>
          /\ pc = "slots_dtor" /\ pc' \in {"slots_dtor", "done"}
      BY <1>3 DEF DestroyActiveSlot
    <2>6. RunTypeOK'
      BY <1>1, <2>1, <2>2, <2>3, <2>4, <2>5, RunTypeNext DEF RunTypeOK
    <2> QED BY <2>5, <2>6
  <1> QED BY <1>2, <1>3 DEF LeaveRunPlan

-------------------------------------------------------------------------------
(* What the slots hold.                                                    *)

(* BookkeepingIsTruthful, of any slots and flags.                          *)
Truthful(cells, flags) ==
  \A i \in nodes : PayloadNode(plan, i) =>
    /\ cells[plan.slot[i]].obj # Poisoned
    /\ FlaggedSlot(i) =>
         cells[plan.slot[i]].engaged = (cells[plan.slot[i]].obj # NoObject)
    /\ plan.layout = "compact" => cells[plan.slot[i]].owner = cells[plan.slot[i]].obj
    /\ plan.layout = "one_to_one" /\ ~FlaggedSlot(i) =>
         flags[i] = (cells[plan.slot[i]].obj = i)

(* Every object is one of an owned payload, in that payload's slot.        *)
AtHome(cells) ==
  \A s \in 0 .. plan.n_slots - 1 : cells[s].obj \in nodes =>
    PayloadNode(plan, cells[s].obj) /\ plan.slot[cells[s].obj] = s

Sound(cells, flags) ==
  /\ cells \in Cells
  /\ flags \in [nodes -> BOOLEAN]
  /\ Truthful(cells, flags)
  /\ AtHome(cells)

(* What the layout guarantees of one owned payload's slot.                 *)
LEMMA SlotOfPayload ==
  ASSUME plan \in Plans, NEW i \in nodes, PayloadNode(plan, i)
  PROVE  /\ plan.slot[i] \in 0 .. plan.n_slots - 1
         /\ plan.layout \in {"one_to_one", "compact"}
         /\ FlaggedSlot(i) \in BOOLEAN
         /\ \A j \in nodes : PayloadNode(plan, j) /\ plan.slot[j] = plan.slot[i] =>
              /\ FlaggedSlot(j) = FlaggedSlot(i)
              /\ plan.layout = "one_to_one" => j = i
  BY WellFormedPlan DEF SlotsWellFormed, LayoutPolicies, FlaggedSlot, nodes

(* Moving from a payload changes no slot's contents.                       *)
LEMMA ConsumingKeepsSound ==
  ASSUME plan \in Plans, NEW cells, NEW flags, Sound(cells, flags), NEW i \in nodes
  PROVE  /\ Sound(ConsumePrev(cells, i), flags)
         /\ \A s \in 0 .. plan.n_slots - 1 : ConsumePrev(cells, i)[s].obj = cells[s].obj
  <1>1. cells \in Cells /\ ConsumePrev(cells, i) \in Cells
    BY SlotOperationsAreTyped DEF Sound
  <1>2. \A s \in 0 .. plan.n_slots - 1 :
          /\ ConsumePrev(cells, i)[s].obj = cells[s].obj
          /\ ConsumePrev(cells, i)[s].engaged = cells[s].engaged
          /\ ConsumePrev(cells, i)[s].owner = cells[s].owner
    BY <1>1 DEF ConsumePrev, Cells, Cell
  <1>3. Truthful(ConsumePrev(cells, i), flags)
    BY <1>2, SlotOfPayload DEF Sound, Truthful
  <1>4. AtHome(ConsumePrev(cells, i))
    BY <1>2 DEF Sound, AtHome
  <1> QED BY <1>1, <1>2, <1>3, <1>4 DEF Sound

(* Emplacing into an empty slot, with the flag the backend needs.          *)
LEMMA EmplacingKeepsSound ==
  ASSUME plan \in Plans, NEW cells, NEW flags, Sound(cells, flags), NEW i \in nodes,
         PayloadNode(plan, i), cells[plan.slot[i]].obj = NoObject,
         NEW set, set = SetLive(flags, i, TRUE) \/ (FlaggedSlot(i) /\ set = flags)
  PROVE  /\ Sound(Emplace(cells, i), set)
         /\ \A s \in 0 .. plan.n_slots - 1 :
              Emplace(cells, i)[s].obj = IF s = plan.slot[i] THEN i ELSE cells[s].obj
  <1> DEFINE built == Emplace(cells, i)
  <1>1. /\ plan.slot[i] \in 0 .. plan.n_slots - 1
        /\ plan.layout \in {"one_to_one", "compact"}
        /\ FlaggedSlot(i) \in BOOLEAN
        /\ \A j \in nodes : PayloadNode(plan, j) /\ plan.slot[j] = plan.slot[i] =>
             /\ FlaggedSlot(j) = FlaggedSlot(i)
             /\ plan.layout = "one_to_one" => j = i
    BY SlotOfPayload
  <1>2. cells \in Cells /\ built \in Cells /\ flags \in [nodes -> BOOLEAN]
    BY SlotOperationsAreTyped DEF Sound
  <1>3. set \in [nodes -> BOOLEAN]
    BY <1>2, LiveFlagsAreTyped
  <1>4. /\ built[plan.slot[i]].obj = i
        /\ built[plan.slot[i]].engaged = FlaggedSlot(i)
        /\ plan.layout = "compact" => built[plan.slot[i]].owner = i
        /\ \A s \in 0 .. plan.n_slots - 1 : s # plan.slot[i] => built[s] = cells[s]
    BY <1>1, <1>2 DEF Emplace, Cells
  <1>5. /\ \A j \in nodes : j # i => set[j] = flags[j]
        /\ plan.layout = "one_to_one" /\ ~FlaggedSlot(i) => set[i] = TRUE
    BY <1>2 DEF SetLive
  <1>6. i \in Int /\ i # Poisoned /\ i # NoObject
    BY RootIsANode DEF nodes, NodesOf, Poisoned, NoObject
  <1> HIDE DEF built
  <1>7. Truthful(built, set)
    <2> SUFFICES ASSUME NEW j \in nodes, PayloadNode(plan, j)
                 PROVE  /\ built[plan.slot[j]].obj # Poisoned
                        /\ FlaggedSlot(j) =>
                             built[plan.slot[j]].engaged = (built[plan.slot[j]].obj # NoObject)
                        /\ plan.layout = "compact" =>
                             built[plan.slot[j]].owner = built[plan.slot[j]].obj
                        /\ plan.layout = "one_to_one" /\ ~FlaggedSlot(j) =>
                             set[j] = (built[plan.slot[j]].obj = j)
      BY DEF Truthful
    <2>1. CASE plan.slot[j] = plan.slot[i]
      BY <1>1, <1>4, <1>5, <1>6, <2>1
    <2>2. CASE plan.slot[j] # plan.slot[i]
      <3>1. built[plan.slot[j]] = cells[plan.slot[j]] /\ set[j] = flags[j]
        BY <1>4, <1>5, <2>2, SlotOfPayload
      <3> QED BY <3>1 DEF Sound, Truthful
    <2> QED BY <2>1, <2>2
  <1>8. AtHome(built)
    BY <1>4 DEF Sound, AtHome
  <1> QED BY <1>2, <1>3, <1>4, <1>7, <1>8 DEF Sound, built

(* Destroying node i's payload, or nothing where a flag says there is      *)
(* nothing, empties the slot.                                              *)
LEMMA DestroyingKeepsSound ==
  ASSUME plan \in Plans, NEW cells, NEW flags, Sound(cells, flags), NEW i \in nodes,
         PayloadNode(plan, i), cells[plan.slot[i]].obj \in {i, NoObject},
         \/ cells[plan.slot[i]].obj = i
         \/ FlaggedSlot(i)
         \/ plan.layout = "one_to_one"
  PROVE  /\ Sound(Destroy(cells, flags, i), SetLive(flags, i, FALSE))
         /\ Destroy(cells, flags, i)[plan.slot[i]].obj = NoObject
         /\ \A s \in 0 .. plan.n_slots - 1 :
              s # plan.slot[i] => Destroy(cells, flags, i)[s].obj = cells[s].obj
  <1> DEFINE left == Destroy(cells, flags, i)
             set  == SetLive(flags, i, FALSE)
  <1>1. /\ plan.slot[i] \in 0 .. plan.n_slots - 1
        /\ plan.layout \in {"one_to_one", "compact"}
        /\ FlaggedSlot(i) \in BOOLEAN
        /\ \A j \in nodes : PayloadNode(plan, j) /\ plan.slot[j] = plan.slot[i] =>
             /\ FlaggedSlot(j) = FlaggedSlot(i)
             /\ plan.layout = "one_to_one" => j = i
    BY SlotOfPayload
  <1>2. cells \in Cells /\ left \in Cells /\ flags \in [nodes -> BOOLEAN]
    BY SlotOperationsAreTyped DEF Sound
  <1>3. set \in [nodes -> BOOLEAN]
    BY <1>2, LiveFlagsAreTyped
  <1>4. i \in Int /\ i # Poisoned /\ i # NoObject
    BY RootIsANode DEF nodes, NodesOf, Poisoned, NoObject
  <1>5. DestroyRuns(cells, flags, i) <=> cells[plan.slot[i]].obj = i
    BY <1>1, <1>2, <1>4 DEF DestroyRuns, Sound, Truthful
  <1>6. /\ left[plan.slot[i]].obj = NoObject
        /\ FlaggedSlot(i) => left[plan.slot[i]].engaged = FALSE
        /\ plan.layout = "compact" => left[plan.slot[i]].owner = NoObject
        /\ \A s \in 0 .. plan.n_slots - 1 : s # plan.slot[i] => left[s] = cells[s]
    <2>1. CASE cells[plan.slot[i]].obj = i
      BY <1>1, <1>2, <1>5, <2>1 DEF Destroy, Cells, EmptyCell, NoPhysicalSlot, NoObject
    <2>2. CASE cells[plan.slot[i]].obj # i
      <3>1. left = cells /\ cells[plan.slot[i]].obj = NoObject
        BY <1>5, <2>2 DEF Destroy
      <3>2. /\ FlaggedSlot(i) =>
                  cells[plan.slot[i]].engaged = (cells[plan.slot[i]].obj # NoObject)
            /\ plan.layout = "compact" => cells[plan.slot[i]].owner = cells[plan.slot[i]].obj
        BY DEF Sound, Truthful
      <3>3. FlaggedSlot(i) => cells[plan.slot[i]].engaged = FALSE
        BY <3>1, <3>2
      <3> QED BY <3>1, <3>2, <3>3
    <2> QED BY <2>1, <2>2
  <1>7. /\ \A j \in nodes : j # i => set[j] = flags[j]
        /\ plan.layout = "one_to_one" => set[i] = FALSE
    BY <1>2 DEF SetLive
  <1> HIDE DEF left, set
  <1>8. Truthful(left, set)
    <2> SUFFICES ASSUME NEW j \in nodes, PayloadNode(plan, j)
                 PROVE  /\ left[plan.slot[j]].obj # Poisoned
                        /\ FlaggedSlot(j) =>
                             left[plan.slot[j]].engaged = (left[plan.slot[j]].obj # NoObject)
                        /\ plan.layout = "compact" =>
                             left[plan.slot[j]].owner = left[plan.slot[j]].obj
                        /\ plan.layout = "one_to_one" /\ ~FlaggedSlot(j) =>
                             set[j] = (left[plan.slot[j]].obj = j)
      BY DEF Truthful
    <2>1. CASE plan.slot[j] = plan.slot[i]
      <3>1. NoObject # Poisoned /\ j # NoObject
        BY RootIsANode DEF nodes, NodesOf, Poisoned, NoObject
      <3> QED BY <1>1, <1>6, <1>7, <2>1, <3>1
    <2>2. CASE plan.slot[j] # plan.slot[i]
      <3>1. left[plan.slot[j]] = cells[plan.slot[j]] /\ set[j] = flags[j]
        BY <1>6, <1>7, <2>2, SlotOfPayload
      <3> QED BY <3>1 DEF Sound, Truthful
    <2> QED BY <2>1, <2>2
  <1>9. AtHome(left)
    <2>1. NoObject \notin nodes
      BY DEF nodes, NodesOf, NoObject
    <2> QED BY <1>6, <2>1 DEF Sound, AtHome
  <1> QED BY <1>2, <1>3, <1>6, <1>8, <1>9 DEF Sound, left, set

(* A step that only keeps the plan translates a fact about the new slots.  *)
LEMMA SoundNext ==
  ASSUME plan' = plan, Sound(slots', live_slots')
  PROVE  Sound(slots, live_slots)'
  BY DEF Sound, Truthful, AtHome, Cells, Cell, nodes, FlaggedSlot

(* A run starts with sound, empty slots.                                   *)
LEMMA RunInitIsSound ==
  ASSUME RunInit
  PROVE  /\ Sound(slots, live_slots)
         /\ \A s \in 0 .. plan.n_slots - 1 : slots[s].obj = NoObject
  <1>1. /\ slots = [s \in 0 .. plan.n_slots - 1 |-> EmptyCell]
        /\ live_slots = [i \in nodes |-> FALSE]
        /\ plan \in Plans
    BY DEF RunInit
  <1>2. /\ EmptyCell.obj = NoObject
        /\ EmptyCell.engaged = FALSE
        /\ EmptyCell.owner = NoObject
        /\ NoObject # Poisoned
        /\ NoObject \notin nodes
    BY DEF EmptyCell, NoObject, NoPhysicalSlot, Poisoned, nodes, NodesOf
  <1>3. slots \in Cells /\ live_slots \in [nodes -> BOOLEAN]
    BY RunInitIsTyped DEF RunTypeOK, Cells
  <1>4. Truthful(slots, live_slots)
    BY <1>1, <1>2, SlotOfPayload DEF Truthful
  <1>5. AtHome(slots)
    BY <1>1, <1>2 DEF AtHome
  <1> QED BY <1>1, <1>2, <1>3, <1>4, <1>5 DEF Sound

(* Running a node's task fills its empty slot if and only if the node ends *)
(* with a live payload.                                                    *)
LEMMA EnterNodeFillsTheSlot ==
  ASSUME plan \in Plans, Sound(slots, live_slots), NEW i \in nodes,
         PayloadNode(plan, i) => slots[plan.slot[i]].obj = NoObject,
         NEW status \in Statuses, EnterNode(i, status)
  PROVE  /\ Sound(slots', live_slots')
         /\ PayloadLive(i, status) => PayloadNode(plan, i)
         /\ \A s \in 0 .. plan.n_slots - 1 :
              slots'[s].obj = IF PayloadLive(i, status) /\ s = plan.slot[i]
                                THEN i ELSE slots[s].obj
  <1> DEFINE read == ConsumePrev(slots, i)
  <1>1. /\ Sound(read, live_slots)
        /\ \A s \in 0 .. plan.n_slots - 1 : read[s].obj = slots[s].obj
    BY ConsumingKeepsSound
  <1>2. PayloadNode(plan, i) =>
          /\ plan.slot[i] \in 0 .. plan.n_slots - 1
          /\ read[plan.slot[i]].obj = NoObject
    BY <1>1, SlotOfPayload
  <1>3. /\ plan.task[i].kind \in {"value", "task_result", "direct_out"}
             => PayloadNode(plan, i)
        /\ plan.task[i].kind \in {"void", "step", "forward_prev"}
             => ~PayloadNode(plan, i)
    BY DEF PayloadNode, OutputStorageMode, OutputIsVoid
  <1>4. PayloadNode(plan, i) /\ plan.task[i].kind # "value" => FlaggedSlot(i)
    BY WellFormedPlan DEF SlotsWellFormed, FlaggedSlot, nodes
  <1>5. PayloadLive(i, status) <=> status = "success" /\ PayloadNode(plan, i)
    BY DEF PayloadLive
  <1> HIDE DEF read
  <1>6. CASE \E emplaced \in BOOLEAN : EnterDirectOutput(i, status, emplaced)
    <2>1. PICK emplaced \in BOOLEAN : EnterDirectOutput(i, status, emplaced)
      BY <1>6
    <2> DEFINE built == IF emplaced THEN Emplace(read, i) ELSE read
    <2>2. /\ plan.task[i].kind = "direct_out"
          /\ status = "success" => emplaced /\ slots' = built /\ live_slots' = live_slots
          /\ status # "success" => /\ slots' = Destroy(built, live_slots, i)
                                   /\ live_slots' = SetLive(live_slots, i, FALSE)
      BY <2>1 DEF EnterDirectOutput, read
    <2>3. PayloadNode(plan, i) /\ FlaggedSlot(i)
      BY <1>3, <1>4, <2>2
    <2>4. /\ Sound(Emplace(read, i), live_slots)
          /\ \A s \in 0 .. plan.n_slots - 1 :
               Emplace(read, i)[s].obj = IF s = plan.slot[i] THEN i ELSE read[s].obj
      BY <1>1, <1>2, <2>3, EmplacingKeepsSound
    <2>5. /\ Sound(built, live_slots)
          /\ built[plan.slot[i]].obj \in {i, NoObject}
          /\ \A s \in 0 .. plan.n_slots - 1 : s # plan.slot[i] => built[s].obj = slots[s].obj
      BY <1>1, <1>2, <2>3, <2>4
    <2>6. CASE status = "success"
      BY <1>1, <1>5, <2>2, <2>3, <2>4, <2>6
    <2>7. CASE status # "success"
      <3>1. PICK cells : cells = built
        OBVIOUS
      <3> HIDE DEF built
      <3>2. /\ Sound(cells, live_slots)
            /\ cells[plan.slot[i]].obj \in {i, NoObject}
            /\ \A s \in 0 .. plan.n_slots - 1 : s # plan.slot[i] => cells[s].obj = slots[s].obj
        BY <2>5, <3>1
      <3>3. Sound(Destroy(cells, live_slots, i), SetLive(live_slots, i, FALSE))
        BY <2>3, <3>2, DestroyingKeepsSound
      <3>4. /\ Destroy(cells, live_slots, i)[plan.slot[i]].obj = NoObject
            /\ \A s \in 0 .. plan.n_slots - 1 : s # plan.slot[i] =>
                 Destroy(cells, live_slots, i)[s].obj = cells[s].obj
        BY <2>3, <3>2, DestroyingKeepsSound
      <3>5. slots[plan.slot[i]].obj = NoObject
        BY <1>1, <1>2, <2>3
      <3>6. \A s \in 0 .. plan.n_slots - 1 : slots'[s].obj = slots[s].obj
        BY <2>2, <2>7, <3>1, <3>2, <3>4, <3>5
      <3> QED BY <1>5, <2>2, <2>3, <2>7, <3>1, <3>3, <3>6
    <2> QED BY <2>6, <2>7
  <1>7. CASE EnterReturningPayload(i, status)
    <2>1. PayloadNode(plan, i)
      BY <1>3, <1>7 DEF EnterReturningPayload
    <2>2. CASE status = "success"
      <3>1. slots' = Emplace(read, i) /\ live_slots' = SetLive(live_slots, i, TRUE)
        BY <1>7, <2>2 DEF EnterReturningPayload, read
      <3>2. /\ Sound(slots', live_slots')
            /\ \A s \in 0 .. plan.n_slots - 1 :
                 slots'[s].obj = IF s = plan.slot[i] THEN i ELSE read[s].obj
        BY <1>1, <1>2, <2>1, <3>1, EmplacingKeepsSound
      <3> QED BY <1>1, <1>5, <2>1, <2>2, <3>2
    <2>3. CASE status # "success"
      BY <1>1, <1>5, <1>7, <2>3 DEF EnterReturningPayload, read
    <2> QED BY <2>2, <2>3
  <1>8. CASE EnterWithoutPayload(i)
    BY <1>1, <1>3, <1>5, <1>8 DEF EnterWithoutPayload, read
  <1> QED BY <1>6, <1>7, <1>8 DEF EnterNode

(* Leaving a node destroys its payload, if it holds one.                   *)
LEMMA LeavingEmptiesTheSlot ==
  ASSUME plan \in Plans, Sound(slots, live_slots), NEW i \in nodes, NEW holds \in BOOLEAN,
         holds => PayloadNode(plan, i) /\ slots[plan.slot[i]].obj = i,
         IF holds THEN /\ slots' = Destroy(slots, live_slots, i)
                       /\ live_slots' = SetLive(live_slots, i, FALSE)
                  ELSE UNCHANGED <<slots, live_slots>>
  PROVE  /\ Sound(slots', live_slots')
         /\ \A s \in 0 .. plan.n_slots - 1 :
              slots'[s].obj = IF holds /\ s = plan.slot[i] THEN NoObject ELSE slots[s].obj
  <1>1. CASE holds
    <2>1. /\ Sound(Destroy(slots, live_slots, i), SetLive(live_slots, i, FALSE))
          /\ Destroy(slots, live_slots, i)[plan.slot[i]].obj = NoObject
          /\ \A s \in 0 .. plan.n_slots - 1 : s # plan.slot[i] =>
               Destroy(slots, live_slots, i)[s].obj = slots[s].obj
      BY <1>1, DestroyingKeepsSound
    <2> QED BY <1>1, <2>1
  <1>2. CASE ~holds
    BY <1>2
  <1> QED BY <1>1, <1>2

-------------------------------------------------------------------------------
(* Leaving run_plan.                                                       *)

(* The slots' destructor has emptied what it has passed.                   *)
CleanupProgress ==
  /\ pc \in {"dfs", "fanout_dtor"} => cleanup = 0
  /\ pc \in {"slots_dtor", "done"} =>
       /\ \A s \in 0 .. plan.n_slots - 1 : slots[s].obj \in nodes => slots[s].obj >= cleanup
       /\ \A i \in nodes : ~stage[i]
  /\ pc = "done" => cleanup = plan.n

(* The slots' destructor finds every object where its owner's index says,  *)
(* and empties the slot of each node it visits.                            *)
LEMMA CleanupKeepsStorage ==
  ASSUME plan \in Plans, cleanup \in 0 .. plan.n, Sound(slots, live_slots), CleanupProgress,
         DestroyActiveSlot
  PROVE  /\ Sound(slots', live_slots') /\ CleanupProgress'
         /\ cleanup \in nodes
         /\ \A s \in 0 .. plan.n_slots - 1 :
              slots'[s].obj = IF slots[s].obj = cleanup THEN NoObject ELSE slots[s].obj
  <1>1. /\ plan \in Plans /\ plan' = plan
        /\ pc = "slots_dtor"
        /\ cleanup < plan.n /\ cleanup' = cleanup + 1
        /\ pc' = IF cleanup + 1 = plan.n THEN "done" ELSE pc
        /\ stage' = stage
        /\ cleanup \in 0 .. plan.n
        /\ Sound(slots, live_slots)
        /\ \A s \in 0 .. plan.n_slots - 1 : slots[s].obj \in nodes => slots[s].obj >= cleanup
        /\ \A i \in nodes : ~stage[i]
    BY DEF DestroyActiveSlot, CleanupProgress
  <1>2. cleanup \in nodes /\ cleanup \in Nat /\ plan.n \in Nat
    BY <1>1, RootIsANode DEF nodes, NodesOf
  <1>3. NoObject \notin nodes /\ \A j \in nodes : j \in Nat
    BY <1>1, RootIsANode DEF NoObject, nodes, NodesOf
  <1>4. /\ Sound(slots', live_slots')
        /\ \A s \in 0 .. plan.n_slots - 1 :
             slots'[s].obj = IF slots[s].obj = cleanup THEN NoObject ELSE slots[s].obj
    <2>1. CASE ~PayloadNode(plan, cleanup)
      <3>1. slots' = slots /\ live_slots' = live_slots
        BY <2>1 DEF DestroyActiveSlot, DestroyTypedSlot, DestroyErasedSlot, Destroy, SetLive
      <3> QED BY <1>1, <1>2, <2>1, <3>1 DEF Sound, AtHome
    <2>2. CASE PayloadNode(plan, cleanup) /\ DestroyTypedSlot(cleanup)
      <3>1. /\ plan.layout = "one_to_one"
            /\ slots' = Destroy(slots, live_slots, cleanup)
            /\ live_slots' = SetLive(live_slots, cleanup, FALSE)
        BY <2>2 DEF DestroyTypedSlot
      <3>2. slots[plan.slot[cleanup]].obj \in {cleanup, NoObject}
        <4>1. /\ plan.slot[cleanup] \in 0 .. plan.n_slots - 1
              /\ \A j \in nodes : PayloadNode(plan, j) /\ plan.slot[j] = plan.slot[cleanup]
                                     => j = cleanup
          BY <1>1, <1>2, <2>2, <3>1, SlotOfPayload
        <4>2. slots[plan.slot[cleanup]] \in Cell /\ slots[plan.slot[cleanup]].obj # Poisoned
          BY <1>1, <1>2, <2>2, <4>1 DEF Sound, Truthful, Cells
        <4>3. slots[plan.slot[cleanup]].obj \in nodes => slots[plan.slot[cleanup]].obj = cleanup
          BY <1>1, <4>1 DEF Sound, AtHome
        <4> QED BY <4>2, <4>3 DEF Cell
      <3>3. /\ Sound(slots', live_slots')
            /\ slots'[plan.slot[cleanup]].obj = NoObject
            /\ \A s \in 0 .. plan.n_slots - 1 : s # plan.slot[cleanup] =>
                 slots'[s].obj = slots[s].obj
        BY <1>1, <1>2, <2>2, <3>1, <3>2, DestroyingKeepsSound
      <3>4. \A s \in 0 .. plan.n_slots - 1 :
              slots[s].obj = cleanup => s = plan.slot[cleanup]
        BY <1>1, <1>2 DEF Sound, AtHome
      <3>5. \A s \in 0 .. plan.n_slots - 1 :
              slots'[s].obj = IF slots[s].obj = cleanup THEN NoObject ELSE slots[s].obj
        BY <3>2, <3>3, <3>4
      <3> QED BY <3>3, <3>5
    <2>3. CASE PayloadNode(plan, cleanup) /\ DestroyErasedSlot(cleanup)
      <3>1. /\ plan.layout = "compact"
            /\ live_slots' = live_slots
            /\ slots' = IF slots[plan.slot[cleanup]].owner = cleanup
                          THEN Destroy(slots, live_slots, cleanup) ELSE slots
        BY <2>3 DEF DestroyErasedSlot
      <3>2. slots[plan.slot[cleanup]].owner = slots[plan.slot[cleanup]].obj
        BY <1>1, <1>2, <2>3, <3>1 DEF Sound, Truthful
      <3>3. SetLive(live_slots, cleanup, FALSE) = live_slots
        BY <3>1 DEF SetLive
      <3>4. \A s \in 0 .. plan.n_slots - 1 :
              slots[s].obj = cleanup => s = plan.slot[cleanup]
        BY <1>1, <1>2 DEF Sound, AtHome
      <3>5. CASE slots[plan.slot[cleanup]].obj = cleanup
        <4>1. slots' = Destroy(slots, live_slots, cleanup)
          BY <3>1, <3>2, <3>5
        <4>2. /\ Sound(slots', live_slots')
              /\ slots'[plan.slot[cleanup]].obj = NoObject
              /\ \A s \in 0 .. plan.n_slots - 1 : s # plan.slot[cleanup] =>
                   slots'[s].obj = slots[s].obj
          <5>1. /\ Sound(Destroy(slots, live_slots, cleanup), SetLive(live_slots, cleanup, FALSE))
                /\ Destroy(slots, live_slots, cleanup)[plan.slot[cleanup]].obj = NoObject
                /\ \A s \in 0 .. plan.n_slots - 1 : s # plan.slot[cleanup] =>
                     Destroy(slots, live_slots, cleanup)[s].obj = slots[s].obj
            BY <1>1, <1>2, <2>3, <3>5, DestroyingKeepsSound
          <5> QED BY <3>1, <3>3, <4>1, <5>1
        <4>3. \A s \in 0 .. plan.n_slots - 1 :
                slots'[s].obj = IF slots[s].obj = cleanup THEN NoObject ELSE slots[s].obj
          BY <3>4, <3>5, <4>2
        <4> QED BY <4>2, <4>3
      <3>6. CASE slots[plan.slot[cleanup]].obj # cleanup
        <4>1. slots' = slots
          BY <3>1, <3>2, <3>6
        <4> QED BY <1>1, <3>1, <3>4, <3>6, <4>1
      <3> QED BY <3>5, <3>6
    <2> QED BY <2>1, <2>2, <2>3 DEF DestroyActiveSlot
  <1>5. \A s \in 0 .. plan.n_slots - 1 : slots'[s].obj \in nodes => slots'[s].obj >= cleanup'
    <2> SUFFICES ASSUME NEW s \in 0 .. plan.n_slots - 1, slots'[s].obj \in nodes
                 PROVE  slots'[s].obj >= cleanup + 1
      BY <1>1
    <2>1. slots'[s].obj = slots[s].obj /\ slots[s].obj # cleanup
      BY <1>3, <1>4
    <2>2. slots[s].obj \in Nat /\ slots[s].obj >= cleanup
      BY <1>1, <1>3, <2>1
    <2> QED BY <1>2, <2>1, <2>2
  <1> QED BY <1>1, <1>2, <1>4, <1>5 DEF CleanupProgress, nodes

(* run_plan's destructors, in their order, keep the storage sound and make *)
(* progress.                                                               *)
LEMMA LeaveRunPlanKeepsStorage ==
  ASSUME plan \in Plans, cleanup \in 0 .. plan.n, Sound(slots, live_slots), CleanupProgress,
         LeaveRunPlan
  PROVE  Sound(slots, live_slots)' /\ CleanupProgress'
  <1>1. CASE DestroyFanoutState
    <2>1. /\ pc = "fanout_dtor" /\ pc' = "slots_dtor"
          /\ UNCHANGED <<plan, slots, live_slots, cleanup>>
          /\ stage' = [i \in nodes |-> FALSE]
      BY <1>1 DEF DestroyFanoutState
    <2>2. cleanup = 0 /\ \A i \in nodes : i >= 0
      BY <2>1, RootIsANode DEF CleanupProgress
    <2>3. CleanupProgress'
      BY <2>1, <2>2 DEF CleanupProgress, nodes
    <2> QED BY <2>1, <2>3, SoundNext
  <1>2. CASE DestroyActiveSlot
    <2>1. plan' = plan
      BY <1>2 DEF DestroyActiveSlot
    <2> QED BY <1>2, <2>1, CleanupKeepsStorage, SoundNext
  <1> QED BY <1>1, <1>2 DEF LeaveRunPlan

(* What is empty stays empty.                                              *)
LEMMA LeavingStoresNothing ==
  ASSUME plan \in Plans, cleanup \in 0 .. plan.n, Sound(slots, live_slots), CleanupProgress,
         LeaveRunPlan, \A s \in 0 .. plan.n_slots - 1 : slots[s].obj = NoObject
  PROVE  slots' \in Cells /\ \A s \in 0 .. plan.n_slots - 1 : slots'[s].obj = NoObject
  <1>1. CASE DestroyFanoutState
    BY <1>1 DEF DestroyFanoutState, Sound
  <1>2. CASE DestroyActiveSlot
    BY <1>2, CleanupKeepsStorage DEF Sound
  <1> QED BY <1>1, <1>2 DEF LeaveRunPlan

(* Sound slots are truthful, and empty when the destructors are through.   *)
LEMMA SoundAndEmptied ==
  ASSUME plan \in Plans, Sound(slots, live_slots), CleanupProgress
  PROVE  BookkeepingIsTruthful /\ NothingOutlivesTheRun
  <1>1. BookkeepingIsTruthful
    BY DEF Sound, Truthful, BookkeepingIsTruthful
  <1>2. ASSUME pc = "done"
        PROVE  LivePayloads = {} /\ \A i \in nodes : ~stage[i]
    <2>1. /\ slots \in Cells
          /\ cleanup = plan.n
          /\ \A s \in 0 .. plan.n_slots - 1 : slots[s].obj \in nodes => slots[s].obj >= cleanup
          /\ \A i \in nodes : ~stage[i]
      BY <1>2 DEF Sound, CleanupProgress
    <2>2. \A i \in nodes : ~(i >= plan.n)
      BY RootIsANode
    <2>3. \A s \in DOMAIN slots : slots[s].obj \notin nodes
      BY <2>1, <2>2 DEF Cells
    <2> QED BY <2>1, <2>3 DEF LivePayloads
  <1> QED BY <1>1, <1>2 DEF NothingOutlivesTheRun

-------------------------------------------------------------------------------
(* Payloads along a walk.                                                  *)

(* The objects in the slots are exactly the payloads of the walk's nodes   *)
(* that hold one.                                                          *)
Held(cells, node, holds, len) ==
  /\ \A k \in 1 .. len :
       holds[k] => PayloadNode(plan, node[k]) /\ cells[plan.slot[node[k]]].obj = node[k]
  /\ \A s \in 0 .. plan.n_slots - 1 : cells[s].obj \in nodes =>
       \E k \in 1 .. len : holds[k] /\ node[k] = cells[s].obj

(* A node at the end of a walk that holds nothing yet has an empty slot,   *)
(* however its slot is shared.                                             *)
LEMMA SlotIsFreeAtTheEnd ==
  ASSUME plan \in Plans, NEW cells, NEW flags, Sound(cells, flags),
         NEW node, NEW ord, NEW holds, NEW len, IsWalk(node, ord, len), len # 0,
         Held(cells, node, holds, len), ~holds[len], PayloadNode(plan, node[len])
  PROVE  cells[plan.slot[node[len]]].obj = NoObject
  <1>1. len \in 1 .. len /\ \A k \in 1 .. len : node[k] \in nodes
    BY DEF IsWalk
  <1>2. plan.slot[node[len]] \in 0 .. plan.n_slots - 1
    BY <1>1, SlotOfPayload
  <1>3. cells[plan.slot[node[len]]].obj \notin nodes
    <2> SUFFICES ASSUME cells[plan.slot[node[len]]].obj \in nodes PROVE FALSE
      OBVIOUS
    <2>1. PICK k \in 1 .. len : holds[k] /\ node[k] = cells[plan.slot[node[len]]].obj
      BY <1>2 DEF Held
    <2>2. k # len /\ PayloadNode(plan, node[k])
      BY <2>1 DEF Held
    <2>3. plan.slot[node[k]] = plan.slot[node[len]]
      BY <1>2, <2>1 DEF Sound, AtHome
    <2> QED BY <1>1, <2>2, <2>3, SlotsOnAWalkDiffer
  <1>4. cells[plan.slot[node[len]]] \in Cell /\ cells[plan.slot[node[len]]].obj # Poisoned
    BY <1>1, <1>2 DEF Sound, Truthful, Cells
  <1> QED BY <1>3, <1>4 DEF Cell

(* Filling the slot of the last node, if the node is to hold its payload.  *)
LEMMA FillingKeepsHeld ==
  ASSUME plan \in Plans, NEW cells, NEW node, NEW ord, NEW holds, NEW len,
         IsWalk(node, ord, len), len # 0,
         Held(cells, node, holds, len), ~holds[len],
         NEW live \in BOOLEAN, live => PayloadNode(plan, node[len]),
         NEW filled, \A s \in 0 .. plan.n_slots - 1 :
           filled[s].obj = IF live /\ s = plan.slot[node[len]] THEN node[len] ELSE cells[s].obj,
         NEW marked, marked[len] = live, \A k \in 1 .. len - 1 : marked[k] = holds[k]
  PROVE  Held(filled, node, marked, len)
  <1>1. len \in Nat /\ len \in 1 .. len /\ \A k \in 1 .. len : node[k] \in nodes
    BY DEF IsWalk
  <1>2. live => plan.slot[node[len]] \in 0 .. plan.n_slots - 1
    BY <1>1, SlotOfPayload
  <1>3. ASSUME NEW k \in 1 .. len, marked[k]
        PROVE  PayloadNode(plan, node[k]) /\ filled[plan.slot[node[k]]].obj = node[k]
    <2>1. CASE k = len
      BY <1>2, <1>3, <2>1
    <2>2. CASE k # len
      <3>1. PayloadNode(plan, node[k]) /\ cells[plan.slot[node[k]]].obj = node[k]
        <4>1. k \in 1 .. len - 1
          BY <1>1, <2>2
        <4> QED BY <1>3, <4>1 DEF Held
      <3>2. plan.slot[node[k]] \in 0 .. plan.n_slots - 1
        BY <1>1, <3>1, SlotOfPayload
      <3>3. live => plan.slot[node[k]] # plan.slot[node[len]]
        BY <1>1, <2>2, <3>1, SlotsOnAWalkDiffer
      <3> QED BY <3>1, <3>2, <3>3
    <2> QED BY <2>1, <2>2
  <1>4. ASSUME NEW s \in 0 .. plan.n_slots - 1, filled[s].obj \in nodes
        PROVE  \E k \in 1 .. len : marked[k] /\ node[k] = filled[s].obj
    <2>1. CASE live /\ s = plan.slot[node[len]]
      BY <1>1, <2>1
    <2>2. CASE ~(live /\ s = plan.slot[node[len]])
      <3>1. filled[s].obj = cells[s].obj
        BY <2>2
      <3>2. PICK k \in 1 .. len : holds[k] /\ node[k] = cells[s].obj
        BY <1>4, <3>1 DEF Held
      <3>3. k \in 1 .. len - 1
        BY <1>1, <3>2
      <3> QED BY <3>1, <3>2, <3>3
    <2> QED BY <2>1, <2>2
  <1> QED BY <1>3, <1>4 DEF Held

(* Emptying the slot of the last node, if it holds its payload, and going  *)
(* back up.                                                                *)
LEMMA EmptyingKeepsHeld ==
  ASSUME plan \in Plans, NEW cells, NEW flags, Sound(cells, flags),
         NEW node, NEW ord, NEW holds, NEW len, IsWalk(node, ord, len), len # 0,
         Held(cells, node, holds, len),
         NEW left, \A s \in 0 .. plan.n_slots - 1 :
           left[s].obj = IF holds[len] /\ s = plan.slot[node[len]] THEN NoObject ELSE cells[s].obj
  PROVE  Held(left, node, holds, len - 1)
  <1>1. len \in Nat /\ len \in 1 .. len /\ \A k \in 1 .. len : node[k] \in nodes
    BY DEF IsWalk
  <1>2. ASSUME NEW k \in 1 .. len - 1, holds[k]
        PROVE  PayloadNode(plan, node[k]) /\ left[plan.slot[node[k]]].obj = node[k]
    <2>1. k \in 1 .. len /\ k # len
      BY <1>1
    <2>2. PayloadNode(plan, node[k]) /\ cells[plan.slot[node[k]]].obj = node[k]
      BY <1>2, <2>1 DEF Held
    <2>3. plan.slot[node[k]] \in 0 .. plan.n_slots - 1
      BY <1>1, <2>1, <2>2, SlotOfPayload
    <2>4. holds[len] => PayloadNode(plan, node[len])
      BY <1>1 DEF Held
    <2>5. holds[len] => plan.slot[node[k]] # plan.slot[node[len]]
      BY <1>1, <2>1, <2>2, <2>4, SlotsOnAWalkDiffer
    <2> QED BY <2>2, <2>3, <2>5
  <1>3. ASSUME NEW s \in 0 .. plan.n_slots - 1, left[s].obj \in nodes
        PROVE  \E k \in 1 .. len - 1 : holds[k] /\ node[k] = left[s].obj
    <2>1. NoObject \notin nodes
      BY DEF NoObject, nodes, NodesOf
    <2>2. left[s].obj = cells[s].obj /\ ~(holds[len] /\ s = plan.slot[node[len]])
      BY <1>3, <2>1
    <2>3. PICK k \in 1 .. len : holds[k] /\ node[k] = cells[s].obj
      BY <1>3, <2>2 DEF Held
    <2>4. plan.slot[node[k]] = s
      BY <1>3, <2>2, <2>3 DEF Sound, AtHome
    <2>5. k \in 1 .. len - 1
      BY <1>1, <2>2, <2>3, <2>4
    <2> QED BY <2>2, <2>3, <2>5
  <1> QED BY <1>2, <1>3 DEF Held

-------------------------------------------------------------------------------
(* What tasks read.                                                        *)

Ran == {j \in nodes : outcome[j] # "none"}

(* Every payload that has been moved from was consumed by a task that ran. *)
ConsumedBy(cells, ran) ==
  \A s \in 0 .. plan.n_slots - 1 : cells[s].obj \in nodes /\ cells[s].moved =>
    \E c \in ran : /\ ConsumeOnly(plan.task[c])
                   /\ plan.parent[c] # plan.n
                   /\ plan.owner[plan.parent[c]] = cells[s].obj

(* The children a traversal will still reach, those from next[k] on of     *)
(* each node[k], are behind everything that ran.                           *)
Ahead(ran, node, next, len) ==
  \A k \in 1 .. len : \A o \in Nat :
    next[k] <= o /\ o < plan.child_counts[node[k]] =>
      \A j \in ran : j < ChildAt(plan, node[k], o)

(* Two direct readers of a payload one of which consumes it: the consumer  *)
(* has the larger index.                                                   *)
LEMMA ConsumerComesLast ==
  ASSUME plan \in Plans, NEW c \in nodes, NEW d \in nodes, c # d,
         ConsumeOnly(plan.task[c]), UsesPrevAccess(plan.task[d]), ~plan.staged_copy[d],
         plan.parent[c] # plan.n, plan.parent[d] # plan.n,
         plan.owner[plan.parent[c]] = plan.owner[plan.parent[d]],
         plan.owner[plan.parent[c]] \in nodes
  PROVE  d < c
  <1>1. /\ plan.owner = CanonicalOwners(plan)
        /\ plan.staged_copy = [i \in nodes |-> UsesStagedCopyPrev(plan, i)]
        /\ ConsumersReadLast(plan)
    BY WellFormedPlan DEF TasksWellFormed, nodes
  <1>2. UsesPrevAccess(plan.task[c]) /\ ~UsesStagedCopyPrev(plan, c)
    BY ConsumersUsePrev DEF UsesStagedCopyPrev
  <1>3. ~UsesStagedCopyPrev(plan, d)
    BY <1>1
  <1> DEFINE o == plan.owner[plan.parent[c]]
  <1>4. c \in DirectReaders(plan, o) /\ d \in DirectReaders(plan, o)
    BY <1>1, <1>2, <1>3 DEF DirectReaders, nodes
  <1>5. o \in NodesOf(plan)
    BY DEF nodes
  <1> HIDE DEF o
  <1> QED BY <1>1, <1>4, <1>5 DEF ConsumersReadLast

(* If the nodes above the last one of a walk have their payloads and their *)
(* stages, and everything that ran is in front of that node, then its task *)
(* finds its parent's output.                                              *)
LEMMA OutputIsReadable ==
  ASSUME plan \in Plans, NEW node, NEW ord, NEW len, IsWalk(node, ord, len), len # 0,
         \A k \in 1 .. len - 1 :
           /\ PayloadNode(plan, node[k]) => slots[plan.slot[node[k]]].obj = node[k]
           /\ plan.staging[node[k]] => stage[node[k]],
         \A j \in Ran : j < node[len],
         ConsumedBy(slots, Ran)
  PROVE  PrevIsReadable(node[len])
  <1> DEFINE i      == node[len]
             parent == plan.parent[i]
             o      == PrevOwner(i)
  <1> SUFFICES ASSUME parent # plan.n, ~OutputIsVoid(plan.task[parent])
               PROVE  IF plan.staged_copy[i]
                        THEN stage[parent]
                        ELSE /\ slots[plan.slot[o]].obj = o
                             /\ UsesPrevAccess(plan.task[i]) => ~slots[plan.slot[o]].moved
    BY DEF PrevIsReadable
  <1>1. len \in Nat /\ \A k \in 1 .. len : node[k] \in nodes
    BY DEF IsWalk
  <1>2. /\ i \in nodes /\ i \in Nat
        /\ len - 1 \in 1 .. len - 1 /\ len - 1 \in 1 .. len
        /\ parent = node[len - 1]
    <2>1. len # 1 /\ len \in 1 .. len
      BY <1>1, WalkGoesDown
    <2>2. len \in 2 .. len
      BY <1>1, <2>1
    <2> QED BY <1>1, <2>2, WalkGoesDown, RootIsANode
  <1>3. CASE plan.staged_copy[i]
    <2>1. plan.staging[parent]
      BY <1>1, <1>2, <1>3, WellFormedPlan DEF TasksWellFormed, UsesStagedCopyPrev, nodes
    <2> QED BY <1>2, <1>3, <2>1
  <1>4. CASE ~plan.staged_copy[i]
    <2>1. PICK k \in 1 .. len - 1 : PayloadNode(plan, node[k]) /\ o = node[k]
      BY <1>2, OwnerIsOnTheWalk DEF PrevOwner
    <2>2. slots[plan.slot[o]].obj = o /\ o \in nodes /\ plan.slot[o] \in 0 .. plan.n_slots - 1
      BY <1>1, <2>1, SlotOfPayload
    <2>3. ASSUME UsesPrevAccess(plan.task[i]), slots[plan.slot[o]].moved
          PROVE  FALSE
      <3>1. PICK c \in Ran : /\ ConsumeOnly(plan.task[c])
                             /\ plan.parent[c] # plan.n
                             /\ plan.owner[plan.parent[c]] = o
        BY <2>2, <2>3 DEF ConsumedBy
      <3>2. c \in nodes /\ c \in Nat /\ c < i
        BY <3>1, RootIsANode DEF Ran
      <3>3. plan.owner[plan.parent[c]] = plan.owner[plan.parent[i]]
        BY <3>1 DEF PrevOwner
      <3>4. i < c
        BY <1>2, <1>4, <2>2, <2>3, <3>1, <3>2, <3>3, ConsumerComesLast
      <3> QED BY <1>2, <3>2, <3>4
    <2> QED BY <1>4, <2>2, <2>3
  <1> QED BY <1>3, <1>4

(* A payload staged before any child ran is there and intact: its consumer *)
(* is a child, and the last to read it.                                    *)
LEMMA StagedPayloadIsReadable ==
  ASSUME plan \in Plans, NEW node, NEW ord, NEW len, IsWalk(node, ord, len), len # 0,
         \A k \in 1 .. len : PayloadNode(plan, node[k]) => slots[plan.slot[node[k]]].obj = node[k],
         \A o \in Nat : o < plan.child_counts[node[len]] =>
           \A j \in Ran : j < ChildAt(plan, node[len], o),
         ConsumedBy(slots, Ran)
  PROVE  StagingSourceIsReadable(node[len])
  <1> DEFINE i == node[len]
             o == plan.owner[i]
  <1> SUFFICES ASSUME plan.staging[i]
               PROVE  slots[plan.slot[o]].obj = o /\ ~slots[plan.slot[o]].moved
    BY DEF StagingSourceIsReadable
  <1>1. len \in Nat /\ len \in 1 .. len /\ \A k \in 1 .. len : node[k] \in nodes
    BY DEF IsWalk
  <1>2. i \in nodes /\ plan.child_counts[i] \in Nat
    BY <1>1, WellFormedPlan DEF TreeWellFormed, nodes
  <1>3. PICK last \in Nat : /\ last < plan.child_counts[i]
                            /\ ConsumeOnly(plan.task[ChildAt(plan, i, last)])
    <2>1. Cardinality(ConsumeChildren(plan, i)) = 1
      BY <1>2, WellFormedPlan DEF TasksWellFormed, RequiresFanoutStaging, nodes
    <2>2. ConsumeChildren(plan, i) # {}
      BY <2>1, FS_EmptySet
    <2> QED BY <1>2, <2>2 DEF ConsumeChildren, Children
  <1> DEFINE c == ChildAt(plan, i, last)
  <1>4. c \in nodes /\ c \in Nat /\ plan.parent[c] = i /\ i # plan.n
    BY <1>2, <1>3, ChildIsANode, RootIsANode
  <1>5. ConsumeOnly(plan.task[c]) /\ \A j \in Ran : j < c
    BY <1>3
  <1> HIDE DEF c
  <1>6. UsesPrevAccess(plan.task[c]) /\ ~CopyOnly(plan.task[c])
    BY <1>4, <1>5, ConsumersUsePrev
  <1>7. ~plan.staged_copy[c] /\ ~OutputIsVoid(plan.task[i])
    BY <1>4, <1>6, WellFormedPlan DEF TasksWellFormed, UsesStagedCopyPrev, HasParentOutput, nodes
  <1>8. PICK k \in 1 .. len : PayloadNode(plan, node[k]) /\ o = node[k]
    BY <1>1, <1>7, OwnerIsOnTheWalk
  <1>9. slots[plan.slot[o]].obj = o /\ o \in nodes /\ plan.slot[o] \in 0 .. plan.n_slots - 1
    BY <1>1, <1>8, SlotOfPayload
  <1>10. ASSUME slots[plan.slot[o]].moved
         PROVE  FALSE
    <2>1. PICK d \in Ran : /\ ConsumeOnly(plan.task[d])
                           /\ plan.parent[d] # plan.n
                           /\ plan.owner[plan.parent[d]] = o
      BY <1>9, <1>10 DEF ConsumedBy
    <2>2. d \in nodes /\ d \in Nat /\ d < c
      BY <1>5, <2>1, RootIsANode DEF Ran
    <2>3. c < d
      BY <1>4, <1>6, <1>7, <1>9, <2>1, <2>2, ConsumerComesLast
    <2> QED BY <1>4, <2>2, <2>3
  <1> QED BY <1>9, <1>10

(* Running a task records who moved from its parent's output.              *)
LEMMA EnteringKeepsConsumedBy ==
  ASSUME plan \in Plans, slots \in Cells, outcome \in [nodes -> Statuses \cup {"none", "threw"}],
         ConsumedBy(slots, Ran), NEW i \in nodes, PrevIsReadable(i),
         NEW status \in Statuses, EnterNode(i, status), plan' = plan
  PROVE  /\ Ran' = Ran \cup {i}
         /\ ConsumedBy(slots, Ran)'
  <1> DEFINE read == ConsumePrev(slots, i)
             ran  == Ran \cup {i}
  <1>1. Ran' = ran
    BY DEF EnterNode, Ran, Statuses, nodes
  <1>2. read \in Cells
    BY SlotOperationsAreTyped
  <1>3. ConsumedBy(read, ran)
    <2>1. CASE ConsumeOnly(plan.task[i])
      <3>1. UsesPrevAccess(plan.task[i]) /\ ~CopyOnly(plan.task[i])
        BY <2>1, ConsumersUsePrev
      <3>2. /\ plan.parent[i] # plan.n
            /\ ~OutputIsVoid(plan.task[plan.parent[i]])
            /\ ~plan.staged_copy[i]
        BY <3>1, WellFormedPlan DEF TasksWellFormed, UsesStagedCopyPrev, HasParentOutput, nodes
      <3>3. slots[plan.slot[PrevOwner(i)]].obj = PrevOwner(i)
        BY <3>2 DEF PrevIsReadable
      <3>4. \A s \in 0 .. plan.n_slots - 1 :
              /\ read[s].obj = slots[s].obj
              /\ s # plan.slot[PrevOwner(i)] => read[s] = slots[s]
        BY <2>1 DEF ConsumePrev, Cells, Cell
      <3> SUFFICES ASSUME NEW s \in 0 .. plan.n_slots - 1, read[s].obj \in nodes, read[s].moved
                   PROVE  \E c \in ran : /\ ConsumeOnly(plan.task[c])
                                         /\ plan.parent[c] # plan.n
                                         /\ plan.owner[plan.parent[c]] = read[s].obj
        BY DEF ConsumedBy
      <3>5. CASE s = plan.slot[PrevOwner(i)]
        BY <2>1, <3>2, <3>3, <3>4, <3>5 DEF PrevOwner
      <3>6. CASE s # plan.slot[PrevOwner(i)]
        BY <3>4, <3>6 DEF ConsumedBy
      <3> QED BY <3>5, <3>6
    <2>2. CASE ~ConsumeOnly(plan.task[i])
      BY <2>2 DEF ConsumePrev, ConsumedBy
    <2> QED BY <2>1, <2>2
  <1>4. ASSUME NEW cells \in Cells, ConsumedBy(cells, ran)
        PROVE  /\ ConsumedBy(Emplace(cells, i), ran)
               /\ ConsumedBy(Destroy(cells, live_slots, i), ran)
    <2>1. \A s \in 0 .. plan.n_slots - 1 :
            ~Emplace(cells, i)[s].moved \/ Emplace(cells, i)[s] = cells[s]
      BY DEF Emplace, Cells
    <2>2. \A s \in 0 .. plan.n_slots - 1 :
            \/ ~Destroy(cells, live_slots, i)[s].moved
            \/ Destroy(cells, live_slots, i)[s] = cells[s]
      BY DEF Destroy, Cells, EmptyCell
    <2> QED BY <1>4, <2>1, <2>2 DEF ConsumedBy
  <1>5. Emplace(read, i) \in Cells
    BY <1>2, SlotOperationsAreTyped
  <1> HIDE DEF read, ran
  <1>6. ConsumedBy(slots', ran)
    <2>1. CASE \E emplaced \in BOOLEAN : EnterDirectOutput(i, status, emplaced)
      BY <1>2, <1>3, <1>4, <1>5, <2>1 DEF EnterDirectOutput, read
    <2>2. CASE EnterReturningPayload(i, status)
      BY <1>2, <1>3, <1>4, <2>2 DEF EnterReturningPayload, read
    <2>3. CASE EnterWithoutPayload(i)
      BY <1>3, <2>3 DEF EnterWithoutPayload, read
    <2> QED BY <2>1, <2>2, <2>3 DEF EnterNode
  <1> QED BY <1>1, <1>6 DEF ConsumedBy, nodes, ran

(* Leaving a node moves from no payload.                                   *)
LEMMA LeavingKeepsConsumedBy ==
  ASSUME slots \in Cells, ConsumedBy(slots, Ran), NEW i \in nodes,
         slots' \in {slots, Destroy(slots, live_slots, i)}, UNCHANGED <<plan, outcome>>
  PROVE  ConsumedBy(slots, Ran)'
  <1>1. \A s \in 0 .. plan.n_slots - 1 : ~slots'[s].moved \/ slots'[s] = slots[s]
    BY DEF Destroy, Cells, EmptyCell
  <1> QED BY <1>1 DEF ConsumedBy, Ran, nodes

(* Running the last node of a walk leaves ahead what was ahead.            *)
LEMMA EnteringKeepsAhead ==
  ASSUME plan \in Plans, NEW ran, NEW node, NEW ord, NEW next, NEW len,
         IsWalk(node, ord, len), len # 0, Ahead(ran, node, next, len),
         \A k \in 1 .. len : next[k] \in Nat,
         \A k \in 1 .. len - 1 : next[k] = ord[k] + 1
  PROVE  Ahead(ran \cup {node[len]}, node, next, len)
  <1>1. len \in Nat /\ len \in 1 .. len /\ \A k \in 1 .. len : ord[k] \in Nat
    BY DEF IsWalk
  <1> SUFFICES ASSUME NEW k \in 1 .. len, NEW o \in Nat,
                      next[k] <= o, o < plan.child_counts[node[k]]
               PROVE  node[len] < ChildAt(plan, node[k], o)
    BY DEF Ahead
  <1>2. k < len => ord[k] < o
    BY <1>1
  <1> QED BY <1>1, <1>2, LaterChildrenAreAhead

(* The child to be visited next is behind everything that ran.             *)
LEMMA NextChildIsAhead ==
  ASSUME plan \in Plans, NEW ran, NEW node, NEW ord, NEW next, NEW len,
         IsWalk(node, ord, len), len # 0, Ahead(ran, node, next, len),
         next[len] = ord[len], ord[len] < plan.child_counts[node[len]]
  PROVE  \A j \in ran : j < ChildAt(plan, node[len], ord[len])
  <1>1. len \in Nat /\ len \in 1 .. len /\ node[len] \in nodes /\ ord[len] \in Nat
    BY DEF IsWalk
  <1> QED BY <1>1 DEF Ahead

(* A walk going down to its last node's next child, which is then past.    *)
GoesDown(node, ord, next, len, longer, after, more) ==
  /\ more = len + 1
  /\ \A k \in 1 .. len : longer[k] = node[k]
  /\ longer[more] = ChildAt(plan, node[len], ord[len])
  /\ \A k \in 1 .. len - 1 : after[k] = next[k]
  /\ after[len] = ord[len] + 1

(* Going down to the next child: what was ahead of it still is, and so are *)
(* its own children.                                                       *)
LEMMA DescendingKeepsAhead ==
  ASSUME plan \in Plans, NEW ran \in SUBSET nodes, NEW node, NEW ord, NEW next, NEW len,
         IsWalk(node, ord, len), len # 0, Ahead(ran, node, next, len),
         next[len] = ord[len], ord[len] < plan.child_counts[node[len]],
         NEW longer, NEW after, NEW more, GoesDown(node, ord, next, len, longer, after, more)
  PROVE  Ahead(ran, longer, after, more)
  <1>1. len \in Nat /\ len \in 1 .. len /\ node[len] \in nodes /\ ord[len] \in Nat
    BY DEF IsWalk
  <1> DEFINE c == ChildAt(plan, node[len], ord[len])
  <1>2. c \in nodes /\ c \in Nat /\ \A j \in ran : j \in Nat
    BY <1>1, ChildIsANode, RootIsANode
  <1>3. \A j \in ran : j < c
    BY NextChildIsAhead
  <1> USE DEF GoesDown
  <1> SUFFICES ASSUME NEW k \in 1 .. more, NEW o \in Nat,
                      after[k] <= o, o < plan.child_counts[longer[k]],
                      NEW j \in ran
               PROVE  j < ChildAt(plan, longer[k], o)
    BY DEF Ahead
  <1>4. CASE k \in 1 .. len - 1
    BY <1>1, <1>4 DEF Ahead
  <1>5. CASE k = len
    BY <1>1, <1>5 DEF Ahead
  <1>6. CASE k = more
    <2>1. longer[k] = c /\ c < ChildAt(plan, c, o) /\ ChildAt(plan, c, o) \in Nat
      BY <1>2, <1>6, ChildIsANode, RootIsANode
    <2> QED BY <1>2, <1>3, <2>1
  <1> QED BY <1>1, <1>4, <1>5, <1>6

-------------------------------------------------------------------------------
(* Root paths, and what is still due.                                      *)

(* A root path is the node and its parent's root path.                     *)
LEMMA RootPathFollowsTheParent ==
  ASSUME plan \in Plans
  PROVE  \A i \in nodes :
           /\ RootPath(plan, i) \in SUBSET nodes
           /\ \A a \in RootPath(plan, i) : a <= i
           /\ RootPath(plan, i) =
                {i} \cup (IF plan.parent[i] = plan.n THEN {} ELSE RootPath(plan, plan.parent[i]))
  <1> DEFINE Def(path) == [j \in NodesOf(plan) |->
                             {j} \cup (IF plan.parent[j] = plan.n THEN {} ELSE path[plan.parent[j]])]
             Path == CHOOSE path : path = Def(path)
             S == {j \in nodes : /\ RootPath(plan, j) \in SUBSET nodes
                                 /\ \A a \in RootPath(plan, j) : a <= j}
  <1>1. \E f : f = Def(f)
    <2> DEFINE start == [j \in nodes |-> {j}]
               step  == [j \in nodes |-> [v \in SUBSET nodes |-> {j} \cup v]]
    <2>1. start \in [nodes -> SUBSET nodes] /\ step \in [nodes -> [SUBSET nodes -> SUBSET nodes]]
      OBVIOUS
    <2>2. PICK f \in [nodes -> SUBSET nodes] : Follows(f, start, step)
      <3> HIDE DEF start, step
      <3> QED BY <2>1, RecursionAlongParents
    <2>3. ASSUME NEW j \in nodes
          PROVE  f[j] = {j} \cup (IF plan.parent[j] = plan.n THEN {} ELSE f[plan.parent[j]])
      <3>1. plan.parent[j] # plan.n => f[plan.parent[j]] \in SUBSET nodes
        BY ParentIsANode
      <3>2. plan.parent[j] # plan.n => f[j] = {j} \cup f[plan.parent[j]]
        BY <2>2, <3>1 DEF Follows
      <3>3. plan.parent[j] = plan.n => f[j] = {j}
        BY <2>2 DEF Follows
      <3> QED BY <3>2, <3>3
    <2> QED BY <2>3 DEF nodes
  <1>2. Path = Def(Path)
    BY <1>1
  <1>3. \A j : RootPath(plan, j) = Path[j]
    BY DEF RootPath
  <1>4. ASSUME NEW j \in nodes
        PROVE  RootPath(plan, j) =
                 {j} \cup (IF plan.parent[j] = plan.n THEN {} ELSE RootPath(plan, plan.parent[j]))
    <2>1. Path[j] = {j} \cup (IF plan.parent[j] = plan.n THEN {} ELSE Path[plan.parent[j]])
      <3> HIDE DEF Path
      <3> QED BY <1>2 DEF nodes
    <2> HIDE DEF Path
    <2> QED BY <1>3, <2>1
  <1>5. ASSUME NEW m \in nodes, \A k \in 0 .. m - 1 : k \in S
        PROVE  m \in S
    <2>0. m \in Nat
      BY RootIsANode
    <2>1. CASE plan.parent[m] = plan.n
      <3>1. RootPath(plan, m) = {m}
        BY <1>4, <2>1
      <3> QED BY <2>0, <3>1
    <2>2. CASE plan.parent[m] # plan.n
      <3>1. /\ plan.parent[m] \in nodes /\ plan.parent[m] < m /\ plan.parent[m] \in Nat
            /\ plan.parent[m] \in 0 .. m - 1
        BY <2>2, ParentIsANode, RootIsANode
      <3>2. plan.parent[m] \in S
        <4> HIDE DEF S
        <4> QED BY <1>5, <3>1
      <3>3. RootPath(plan, m) = {m} \cup RootPath(plan, plan.parent[m])
        BY <1>4, <2>2
      <3>4. \A a \in RootPath(plan, plan.parent[m]) : a \in Nat /\ a <= plan.parent[m]
        BY <3>2, RootIsANode
      <3> QED BY <2>0, <3>1, <3>2, <3>3, <3>4
    <2> QED BY <2>1, <2>2
  <1>6. \A j \in nodes : j \in S
    <2> HIDE DEF S
    <2> QED BY <1>5, NodeInduction
  <1> QED BY <1>4, <1>6

(* The nodes of a walk are the root path of its last one.                  *)
LEMMA WalkIsARootPath ==
  ASSUME plan \in Plans, NEW node, NEW ord, NEW len, IsWalk(node, ord, len)
  PROVE  \A k \in 1 .. len : RootPath(plan, node[k]) = {node[j] : j \in 1 .. k}
  <1> DEFINE S == {k \in 1 .. len : RootPath(plan, node[k]) = {node[j] : j \in 1 .. k}}
  <1>1. len \in Nat /\ \A k \in 1 .. len : node[k] \in nodes
    BY DEF IsWalk
  <1>2. ASSUME NEW m \in 1 .. len, \A k \in 1 .. m - 1 : k \in S
        PROVE  m \in S
    <2>1. CASE m = 1
      <3>1. RootPath(plan, node[1]) = {node[1]}
        BY <1>1, <2>1, WalkGoesDown, RootPathFollowsTheParent
      <3>2. 1 .. 1 = {1}
        OBVIOUS
      <3> QED BY <2>1, <3>1, <3>2
    <2>2. CASE m # 1
      <3>1. m \in 2 .. len /\ m - 1 \in 1 .. m - 1 /\ m - 1 \in 1 .. len
        BY <1>1, <2>2
      <3>2. plan.parent[node[m]] = node[m - 1] /\ node[m - 1] \in nodes /\ node[m - 1] # plan.n
        BY <1>1, <3>1, WalkGoesDown, RootIsANode
      <3>3. RootPath(plan, node[m]) = {node[m]} \cup RootPath(plan, node[m - 1])
        BY <1>1, <3>1, <3>2, RootPathFollowsTheParent
      <3>4. RootPath(plan, node[m - 1]) = {node[j] : j \in 1 .. m - 1}
        <4>1. m - 1 \in S
          <5> HIDE DEF S
          <5> QED BY <1>2, <3>1
        <4> QED BY <4>1
      <3>5. 1 .. m = (1 .. m - 1) \cup {m}
        BY <1>1, <3>1
      <3> QED BY <3>3, <3>4, <3>5
    <2> QED BY <2>1, <2>2
  <1>3. \A k \in 1 .. len : k \in S
    <2> HIDE DEF S
    <2> QED BY <1>1, <1>2, WalkInduction
  <1> QED BY <1>3

(* Every node but the root is one of its parent's children.                *)
LEMMA NodesAreChildren ==
  ASSUME plan \in Plans, NEW j \in nodes, plan.parent[j] # plan.n
  PROVE  \E o \in Nat : /\ o < plan.child_counts[plan.parent[j]]
                        /\ j = ChildAt(plan, plan.parent[j], o)
  <1>1. j \in nodes \ {0} /\ plan.parent[j] \in nodes
    BY ParentIsANode
  <1>2. j \in Children(plan, plan.parent[j]) /\ plan.child_counts[plan.parent[j]] \in Nat
    BY <1>1, WellFormedPlan DEF TreeWellFormed, nodes
  <1>3. PICK o \in 0 .. plan.child_counts[plan.parent[j]] - 1 : j = ChildAt(plan, plan.parent[j], o)
    BY <1>2 DEF Children
  <1>4. o \in Nat /\ o < plan.child_counts[plan.parent[j]]
    BY <1>2
  <1> QED BY <1>3, <1>4

(* Node j is one of the children the walk goes on to, from next[k] on of   *)
(* each node[k].                                                           *)
Pending(node, next, len, j) ==
  \E k \in 1 .. len : \E o \in Nat :
    next[k] <= o /\ o < plan.child_counts[node[k]] /\ j = ChildAt(plan, node[k], o)

(* What has not run, though its parent succeeded, is a child still to be   *)
(* visited or the node about to be entered.                                *)
Frontier(out, node, next, len, entering) ==
  \A j \in nodes : out[j] = "none" =>
    \/ entering /\ len # 0 /\ j = node[len]
    \/ Pending(node, next, len, j)
    \/ plan.parent[j] # plan.n /\ out[plan.parent[j]] # "success"

(* The tasks that are due: they have not run, and all above them succeeded.*)
DueOf(out) ==
  {j \in nodes : out[j] = "none" /\ \A a \in RootPath(plan, j) \ {j} : out[a] = "success"}

(* A due task is about to be entered or pending.                           *)
LEMMA DueIsPending ==
  ASSUME plan \in Plans, NEW out, NEW node, NEW next, NEW len, NEW entering,
         Frontier(out, node, next, len, entering), NEW j \in DueOf(out)
  PROVE  \/ entering /\ len # 0 /\ j = node[len]
         \/ Pending(node, next, len, j)
  <1>1. j \in nodes /\ out[j] = "none" /\ \A a \in RootPath(plan, j) \ {j} : out[a] = "success"
    BY DEF DueOf
  <1>2. ASSUME plan.parent[j] # plan.n PROVE out[plan.parent[j]] = "success"
    <2>1. plan.parent[j] \in nodes /\ plan.parent[j] < j /\ plan.parent[j] \in Nat /\ j \in Nat
      BY <1>1, <1>2, ParentIsANode, RootIsANode
    <2>2. plan.parent[j] \in RootPath(plan, plan.parent[j])
      BY <2>1, RootPathFollowsTheParent
    <2>3. plan.parent[j] \in RootPath(plan, j)
      BY <1>1, <1>2, <2>2, RootPathFollowsTheParent
    <2> QED BY <1>1, <2>1, <2>3
  <1> QED BY <1>1, <1>2 DEF Frontier

(* No due task is in front of the node about to be entered.                *)
LEMMA EnteredIsDueFirst ==
  ASSUME plan \in Plans, NEW out, NEW node, NEW ord, NEW next, NEW len,
         IsWalk(node, ord, len), len # 0,
         \A k \in 1 .. len - 1 : next[k] = ord[k] + 1,
         next[len] \in Nat,
         Frontier(out, node, next, len, TRUE)
  PROVE  \A j \in DueOf(out) : node[len] <= j
  <1>1. len \in Nat /\ len \in 1 .. len /\ \A k \in 1 .. len : ord[k] \in Nat /\ node[k] \in nodes
    BY DEF IsWalk
  <1>2. node[len] \in Nat
    BY <1>1, RootIsANode
  <1>3. SUFFICES ASSUME NEW j \in DueOf(out), j # node[len]
                 PROVE  node[len] < j
    <2>1. \A j \in DueOf(out) : j \in Nat
      BY RootIsANode DEF DueOf
    <2> QED BY <1>2, <2>1
  <1>4. Pending(node, next, len, j)
    BY <1>3, DueIsPending
  <1>5. PICK k \in 1 .. len, o \in Nat :
          next[k] <= o /\ o < plan.child_counts[node[k]] /\ j = ChildAt(plan, node[k], o)
    BY <1>4 DEF Pending
  <1>6. k < len => ord[k] < o
    BY <1>1, <1>5
  <1> QED BY <1>1, <1>5, <1>6, LaterChildrenAreAhead

(* When the walk goes on only from the nodes above its last one, nothing   *)
(* below that one is due.                                                  *)
LEMMA NothingIsDueBelow ==
  ASSUME plan \in Plans, NEW out, NEW node, NEW ord, NEW next, NEW len,
         IsWalk(node, ord, len), len # 0,
         \A k \in 1 .. len - 1 : next[k] = ord[k] + 1,
         Frontier(out, node, next, len - 1, FALSE)
  PROVE  \A j \in DueOf(out) : node[len] \notin RootPath(plan, j)
  <1>1. len \in Nat /\ len \in 1 .. len /\ \A k \in 1 .. len : ord[k] \in Nat /\ node[k] \in nodes
    BY DEF IsWalk
  <1>2. SUFFICES ASSUME NEW j \in DueOf(out), node[len] \in RootPath(plan, j)
                 PROVE  FALSE
    OBVIOUS
  <1>3. PICK k \in 1 .. len - 1, o \in Nat :
          next[k] <= o /\ o < plan.child_counts[node[k]] /\ j = ChildAt(plan, node[k], o)
    <2>1. Pending(node, next, len - 1, j)
      BY DueIsPending
    <2> QED BY <2>1 DEF Pending
  <1>4. k \in 1 .. len /\ k < len /\ ord[k] < o
    BY <1>1, <1>3
  <1>5. node[len] < j /\ j \in nodes /\ plan.parent[j] = node[k] /\ node[k] # plan.n
    BY <1>1, <1>3, <1>4, LaterChildrenAreAhead, ChildIsANode, RootIsANode
  <1>6. node[len] # j
    BY <1>1, <1>5, RootIsANode
  <1>7. node[len] \in RootPath(plan, node[k])
    BY <1>2, <1>5, <1>6, RootPathFollowsTheParent
  <1>8. node[len] <= node[k] /\ node[k] < node[len] /\ node[len] \in Nat /\ node[k] \in Nat
    <2>1. node[len] <= node[k]
      BY <1>1, <1>4, <1>7, RootPathFollowsTheParent
    <2>2. node[k] < node[len]
      BY <1>1, <1>3, WalkRises
    <2> QED BY <1>1, <1>4, <2>1, <2>2, RootIsANode
  <1> QED BY <1>8

(* Node i's task reports; what had not run is the same but for i.          *)
Reports(out, i, status, after) ==
  /\ after[i] = status
  /\ \A j \in nodes : j # i => after[j] = out[j]

(* The children of a task that succeeds become due, and are to be visited. *)
LEMMA SuccessKeepsFrontier ==
  ASSUME plan \in Plans, NEW out, NEW node, NEW ord, NEW next, NEW len,
         IsWalk(node, ord, len), len # 0, next[len] = 0,
         Frontier(out, node, next, len, TRUE),
         NEW after, Reports(out, node[len], "success", after)
  PROVE  Frontier(after, node, next, len, FALSE)
  <1>1. len \in Nat /\ len \in 1 .. len /\ node[len] \in nodes
    BY DEF IsWalk
  <1>2. SUFFICES ASSUME NEW j \in nodes, after[j] = "none"
                 PROVE  \/ Pending(node, next, len, j)
                        \/ plan.parent[j] # plan.n /\ after[plan.parent[j]] # "success"
    BY DEF Frontier
  <1>3. j # node[len] /\ out[j] = "none"
    BY <1>2 DEF Reports
  <1>4. CASE Pending(node, next, len, j)
    BY <1>4
  <1>5. CASE plan.parent[j] # plan.n /\ out[plan.parent[j]] # "success"
    <2>1. CASE plan.parent[j] = node[len]
      <3>1. PICK o \in Nat : o < plan.child_counts[node[len]] /\ j = ChildAt(plan, node[len], o)
        BY <1>5, <2>1, NodesAreChildren
      <3>2. next[len] <= o
        BY <3>1
      <3> QED BY <1>1, <3>1, <3>2 DEF Pending
    <2>2. CASE plan.parent[j] # node[len]
      <3>1. plan.parent[j] \in nodes
        BY <1>5, ParentIsANode
      <3> QED BY <1>5, <2>2, <3>1 DEF Reports
    <2> QED BY <2>1, <2>2
  <1> QED BY <1>3, <1>4, <1>5 DEF Frontier

(* Two walks with the same children to visit on their first len nodes.     *)
SameStart(node, next, len, other, after) ==
  \A k \in 1 .. len : other[k] = node[k] /\ after[k] = next[k]

(* What is pending on a walk whose last node has no child left to visit is *)
(* pending above that node.                                                *)
LEMMA PendingAbove ==
  ASSUME NEW node, NEW next, NEW len \in Nat, NEW j, Pending(node, next, len, j),
         NEW other, NEW then, SameStart(node, next, len - 1, other, then)
  PROVE  \/ Pending(other, then, len - 1, j)
         \/ \E o \in Nat : /\ len # 0 /\ next[len] <= o /\ o < plan.child_counts[node[len]]
                           /\ j = ChildAt(plan, node[len], o)
  <1>1. PICK k \in 1 .. len, o \in Nat :
          next[k] <= o /\ o < plan.child_counts[node[k]] /\ j = ChildAt(plan, node[k], o)
    BY DEF Pending
  <1>2. CASE k = len
    BY <1>1, <1>2
  <1>3. CASE k # len
    <2>1. k \in 1 .. len - 1 /\ other[k] = node[k] /\ then[k] = next[k]
      BY <1>3 DEF SameStart
    <2> QED BY <1>1, <2>1 DEF Pending
  <1> QED BY <1>2, <1>3

(* Below a task that does not succeed nothing becomes due.                 *)
LEMMA RefusalKeepsFrontier ==
  ASSUME plan \in Plans, NEW out, NEW node, NEW ord, NEW next, NEW len,
         IsWalk(node, ord, len), len # 0, next[len] \in Nat,
         Frontier(out, node, next, len, TRUE),
         NEW status, status \notin {"none", "success"},
         NEW after, Reports(out, node[len], status, after),
         NEW other, NEW then, SameStart(node, next, len - 1, other, then)
  PROVE  Frontier(after, other, then, len - 1, FALSE)
  <1>1. len \in Nat /\ len \in 1 .. len /\ node[len] \in nodes
    BY DEF IsWalk
  <1>2. SUFFICES ASSUME NEW j \in nodes, after[j] = "none"
                 PROVE  \/ Pending(other, then, len - 1, j)
                        \/ plan.parent[j] # plan.n /\ after[plan.parent[j]] # "success"
    BY DEF Frontier
  <1>3. j # node[len] /\ out[j] = "none" /\ after[node[len]] # "success"
    BY <1>2 DEF Reports
  <1>4. CASE Pending(node, next, len, j)
    <2>1. CASE Pending(other, then, len - 1, j)
      BY <2>1
    <2>2. CASE ~Pending(other, then, len - 1, j)
      <3>1. PICK o \in Nat : o < plan.child_counts[node[len]] /\ j = ChildAt(plan, node[len], o)
        BY <1>1, <1>4, <2>2, PendingAbove
      <3>2. plan.parent[j] = node[len] /\ node[len] # plan.n
        BY <1>1, <3>1, ChildIsANode, RootIsANode
      <3> QED BY <1>3, <3>2
    <2> QED BY <2>1, <2>2
  <1>5. CASE plan.parent[j] # plan.n /\ out[plan.parent[j]] # "success"
    <2>1. plan.parent[j] \in nodes
      BY <1>5, ParentIsANode
    <2> QED BY <1>3, <1>5, <2>1 DEF Reports
  <1> QED BY <1>3, <1>4, <1>5 DEF Frontier

(* Going down to the next child makes it the one to be entered.            *)
LEMMA DescendingKeepsFrontier ==
  ASSUME plan \in Plans, NEW out, NEW node, NEW ord, NEW next, NEW len,
         IsWalk(node, ord, len), len # 0, next[len] = ord[len],
         Frontier(out, node, next, len, FALSE),
         NEW longer, NEW then, NEW more, GoesDown(node, ord, next, len, longer, then, more)
  PROVE  Frontier(out, longer, then, more, TRUE)
  <1>1. /\ len \in Nat /\ len \in 1 .. len /\ node[len] \in nodes /\ ord[len] \in Nat
        /\ more = len + 1 /\ more # 0
    BY DEF IsWalk, GoesDown
  <1>2. SUFFICES ASSUME NEW j \in nodes, Pending(node, next, len, j), j # longer[more]
                 PROVE  Pending(longer, then, more, j)
    BY <1>1 DEF Frontier
  <1>3. PICK k \in 1 .. len, o \in Nat :
          next[k] <= o /\ o < plan.child_counts[node[k]] /\ j = ChildAt(plan, node[k], o)
    BY <1>2 DEF Pending
  <1>4. k \in 1 .. more /\ longer[k] = node[k]
    BY <1>1 DEF GoesDown
  <1>5. then[k] <= o
    <2>1. CASE k = len
      <3>1. o # ord[len] /\ ord[len] <= o /\ then[k] = ord[len] + 1
        BY <1>2, <1>3, <2>1 DEF GoesDown
      <3> QED BY <1>1, <3>1
    <2>2. CASE k # len
      <3>1. k \in 1 .. len - 1
        BY <1>1, <2>2
      <3> QED BY <1>3, <3>1 DEF GoesDown
    <2> QED BY <2>1, <2>2
  <1> QED BY <1>3, <1>4, <1>5 DEF Pending

(* Going back up from a node whose children are visited.                   *)
LEMMA LeavingKeepsFrontier ==
  ASSUME plan \in Plans, NEW out, NEW node, NEW ord, NEW next, NEW len,
         IsWalk(node, ord, len), len # 0,
         next[len] \in Nat, next[len] >= plan.child_counts[node[len]],
         Frontier(out, node, next, len, FALSE),
         NEW other, NEW then, SameStart(node, next, len - 1, other, then)
  PROVE  Frontier(out, other, then, len - 1, FALSE)
  <1>1. len \in Nat /\ node[len] \in nodes /\ plan.child_counts[node[len]] \in Nat
    <2>1. len \in Nat /\ len \in 1 .. len /\ node[len] \in nodes
      BY DEF IsWalk
    <2> QED BY <2>1, WellFormedPlan DEF TreeWellFormed, nodes
  <1>2. ~\E o \in Nat : next[len] <= o /\ o < plan.child_counts[node[len]]
    BY <1>1
  <1>3. \A j : Pending(node, next, len, j) => Pending(other, then, len - 1, j)
    BY <1>1, <1>2, PendingAbove
  <1> QED BY <1>3 DEF Frontier
-------------------------------------------------------------------------------
(* What is stored.                                                         *)

(* What is stored is what the slots hold.                                  *)
LEMMA StoredInSlots ==
  ASSUME NEW cells \in Cells
  PROVE  {cells[s].obj : s \in DOMAIN cells} \ {NoObject} =
           {cells[s].obj : s \in 0 .. plan.n_slots - 1} \ {NoObject}
  BY DEF Cells

(* A task that leaves a payload adds it to what is stored.                 *)
LEMMA FillingStores ==
  ASSUME plan \in Plans, slots \in Cells, slots' \in Cells, NEW i \in nodes, NEW live \in BOOLEAN,
         live => PayloadNode(plan, i) /\ slots[plan.slot[i]].obj = NoObject,
         \A s \in 0 .. plan.n_slots - 1 :
           slots'[s].obj = IF live /\ s = plan.slot[i] THEN i ELSE slots[s].obj
  PROVE  Stored' = IF live THEN Stored \cup {i} ELSE Stored
  <1>1. /\ Stored = {slots[s].obj : s \in 0 .. plan.n_slots - 1} \ {NoObject}
        /\ Stored' = {slots'[s].obj : s \in 0 .. plan.n_slots - 1} \ {NoObject}
    BY StoredInSlots DEF Stored
  <1>2. CASE ~live
    BY <1>1, <1>2
  <1>3. CASE live
    <2>1. plan.slot[i] \in 0 .. plan.n_slots - 1 /\ i # NoObject
      BY <1>3, SlotOfPayload, RootIsANode DEF NoObject
    <2> QED BY <1>1, <1>3, <2>1
  <1> QED BY <1>2, <1>3

(* Destroying a payload takes it out of what is stored.                    *)
LEMMA EmptyingUnstores ==
  ASSUME plan \in Plans, slots \in Cells, slots' \in Cells, AtHome(slots),
         NEW i \in nodes, NEW live \in BOOLEAN,
         live => PayloadNode(plan, i) /\ slots[plan.slot[i]].obj = i,
         \A s \in 0 .. plan.n_slots - 1 :
           slots'[s].obj = IF live /\ s = plan.slot[i] THEN NoObject ELSE slots[s].obj
  PROVE  /\ Stored' = IF live THEN Stored \ {i} ELSE Stored
         /\ live => i \in Stored
  <1>1. /\ Stored = {slots[s].obj : s \in 0 .. plan.n_slots - 1} \ {NoObject}
        /\ Stored' = {slots'[s].obj : s \in 0 .. plan.n_slots - 1} \ {NoObject}
    BY StoredInSlots DEF Stored
  <1>2. CASE ~live
    BY <1>1, <1>2
  <1>3. CASE live
    <2>1. PayloadNode(plan, i) /\ slots[plan.slot[i]].obj = i
      BY <1>3
    <2>2. plan.slot[i] \in 0 .. plan.n_slots - 1 /\ i # NoObject
      BY <2>1, SlotOfPayload, RootIsANode DEF NoObject
    <2>3. \A s \in 0 .. plan.n_slots - 1 : slots[s].obj = i <=> s = plan.slot[i]
      BY <2>1 DEF AtHome
    <2> QED BY <1>1, <1>3, <2>1, <2>2, <2>3
  <1> QED BY <1>2, <1>3

(* The slots hold objects of nodes only, and none once the traversal is    *)
(* left.                                                                   *)
OnlyPayloads ==
  \A s \in 0 .. plan.n_slots - 1 :
    slots[s].obj # Poisoned /\ (pc # "dfs" => slots[s].obj = NoObject)

(* Where nothing is held, nothing is stored.                               *)
LEMMA NothingIsHeld ==
  ASSUME NEW cells \in Cells, NEW node, NEW holds, Held(cells, node, holds, 0),
         \A s \in 0 .. plan.n_slots - 1 : cells[s].obj # Poisoned
  PROVE  \A s \in 0 .. plan.n_slots - 1 : cells[s].obj = NoObject
  BY DEF Held, Cells, Cell

(* Only payloads are stored, and those are the ones a walk holds.          *)
LEMMA StoredAreHeld ==
  ASSUME plan \in Plans, slots \in Cells, NEW node, NEW holds, NEW len,
         \A k \in 1 .. len : node[k] \in nodes,
         Held(slots, node, holds, len),
         \A s \in 0 .. plan.n_slots - 1 : slots[s].obj # Poisoned
  PROVE  Stored = {node[k] : k \in {m \in 1 .. len : holds[m]}}
  <1>1. DOMAIN slots = 0 .. plan.n_slots - 1
    BY DEF Cells
  <1>2. \A s \in DOMAIN slots : slots[s].obj \in nodes \cup {NoObject}
    BY <1>1 DEF Cells, Cell
  <1>3. \A i \in nodes : i # NoObject
    BY RootIsANode DEF NoObject
  <1>4. \A k \in 1 .. len : holds[k] =>
          PayloadNode(plan, node[k]) /\ slots[plan.slot[node[k]]].obj = node[k]
    BY DEF Held
  <1>5. \A k \in 1 .. len : holds[k] => node[k] \in Stored
    BY <1>1, <1>3, <1>4, SlotOfPayload DEF Stored
  <1>6. \A i \in Stored : \E k \in 1 .. len : holds[k] /\ node[k] = i
    BY <1>1, <1>2 DEF Stored, Held
  <1> QED BY <1>5, <1>6

-------------------------------------------------------------------------------
(* The promise's terms are the executors'.                                 *)

(* What the promise says of the tree and of single tasks.                  *)
LEMMA PromisedTree ==
  /\ \A i : Promise!RootPath(plan, i) = RootPath(plan, i)
  /\ \A i : Promise!Subtree(plan, i) = Subtree(plan, i)
  /\ \A i : Promise!Children(plan, i) = Children(plan, i)
  /\ \A i : Promise!PayloadNode(plan, i) <=> PayloadNode(plan, i)
  /\ \A i : Promise!TaskStatuses(plan.task[i]) = TaskStatuses(plan.task[i])
  /\ Promise!nodes = nodes
  /\ Promise!TreeWellFormed(plan) <=> TreeWellFormed(plan)
  /\ Promise!SlotsWellFormed(plan) <=> SlotsWellFormed(plan)
  <1>1. \A i : Promise!RootPath(plan, i) = RootPath(plan, i)
    BY Zenon DEF Promise!RootPath, RootPath, Promise!NodesOf, NodesOf
  <1>2. \A i : Promise!Subtree(plan, i) = Subtree(plan, i)
    BY Zenon DEF Promise!Subtree, Subtree, Promise!RootPath, RootPath, Promise!NodesOf, NodesOf
  <1>3. \A i : Promise!Children(plan, i) = Children(plan, i)
    BY Zenon DEF Promise!Children, Children, Promise!ChildAt, ChildAt
  <1>4. \A i : Promise!PayloadNode(plan, i) <=> PayloadNode(plan, i)
    BY Zenon DEF Promise!PayloadNode, PayloadNode, Promise!OutputStorageMode, OutputStorageMode,
                 Promise!OutputIsVoid, OutputIsVoid
  <1>5. \A i : Promise!TaskStatuses(plan.task[i]) = TaskStatuses(plan.task[i])
    BY Zenon DEF Promise!TaskStatuses, TaskStatuses
  <1>6. Promise!nodes = nodes
    BY Zenon DEF Promise!nodes, nodes, Promise!NodesOf, NodesOf
  <1>7. Promise!TreeWellFormed(plan) <=> TreeWellFormed(plan)
    BY Zenon DEF Promise!TreeWellFormed, TreeWellFormed, Promise!NodesOf, NodesOf,
                 Promise!Children, Children, Promise!ChildAt, ChildAt
  <1>8. Promise!SlotsWellFormed(plan) <=> SlotsWellFormed(plan)
    BY Zenon DEF Promise!SlotsWellFormed, SlotsWellFormed, Promise!NodesOf, NodesOf,
                 Promise!LayoutPolicies, LayoutPolicies,
                 Promise!PayloadNode, PayloadNode, Promise!OutputStorageMode, OutputStorageMode,
                 Promise!OutputIsVoid, OutputIsVoid, Promise!PayloadDepths, PayloadDepths,
                 Promise!SlotLogicalPolicy, SlotLogicalPolicy
  <1> QED BY <1>1, <1>2, <1>3, <1>4, <1>5, <1>6, <1>7, <1>8

(* What it says of the tasks of a well-formed plan.                        *)
LEMMA PromisedTasks == Promise!TasksWellFormed(plan) <=> TasksWellFormed(plan)
  <1>1. Promise!NodesOf(plan) = NodesOf(plan) /\ Promise!PrevAccessKinds = PrevAccessKinds
    BY Zenon DEF Promise!NodesOf, NodesOf, Promise!PrevAccessKinds, PrevAccessKinds
  <1>2. /\ \A S : Promise!Cardinality(S) = Cardinality(S)
        /\ \A i, kinds :
             Promise!PrevCount(plan.task[i], kinds) = PrevCount(plan.task[i], kinds)
    BY Zenon DEF Promise!Cardinality, Cardinality, Promise!IsFiniteSet, IsFiniteSet,
                 Promise!PrevCount, PrevCount
  <1>3. \A i : Promise!UsesPrevAccess(plan.task[i]) <=> UsesPrevAccess(plan.task[i])
    BY <1>1, <1>2, Zenon DEF Promise!UsesPrevAccess, UsesPrevAccess
  <1>4. \A i : Promise!ConsumeOnly(plan.task[i]) <=> ConsumeOnly(plan.task[i])
    BY <1>2, Zenon DEF Promise!ConsumeOnly, ConsumeOnly
  <1>5. \A i : Promise!CopyOnly(plan.task[i]) <=> CopyOnly(plan.task[i])
    BY <1>1, <1>2, Zenon DEF Promise!CopyOnly, CopyOnly
  <1>6. \A i : Promise!Children(plan, i) = Children(plan, i)
    BY PromisedTree
  <1>7. \A i : /\ Promise!ConsumeChildren(plan, i) = ConsumeChildren(plan, i)
               /\ Promise!CopyOnlyChildren(plan, i) = CopyOnlyChildren(plan, i)
    <2>1. \A i : Promise!ConsumeChildren(plan, i) = ConsumeChildren(plan, i)
      BY <1>4, <1>6, SMT DEF Promise!ConsumeChildren, ConsumeChildren
    <2>2. \A i : Promise!CopyOnlyChildren(plan, i) = CopyOnlyChildren(plan, i)
      BY <1>5, <1>6, SMT DEF Promise!CopyOnlyChildren, CopyOnlyChildren
    <2> QED BY <2>1, <2>2
  <1>8. \A i : Promise!RequiresFanoutStaging(plan, i) <=> RequiresFanoutStaging(plan, i)
    BY <1>2, <1>7, Zenon DEF Promise!RequiresFanoutStaging, RequiresFanoutStaging
  <1>9. \A i : Promise!UsesStagedCopyPrev(plan, i) <=> UsesStagedCopyPrev(plan, i)
    BY <1>5, <1>8, Zenon DEF Promise!UsesStagedCopyPrev, UsesStagedCopyPrev
  <1>10. Promise!CanonicalOwners(plan) = CanonicalOwners(plan)
    BY Zenon DEF Promise!CanonicalOwners, CanonicalOwners, Promise!NodesOf, NodesOf,
                 Promise!OutputIsVoid, OutputIsVoid, Promise!IsForwardPrev, IsForwardPrev
  <1>11. \A o : Promise!DirectReaders(plan, o) = DirectReaders(plan, o)
    BY <1>1, <1>3, <1>9, <1>10, SMT DEF Promise!DirectReaders, DirectReaders
  <1>12. Promise!ConsumersReadLast(plan) <=> ConsumersReadLast(plan)
    BY <1>1, <1>4, <1>11, Zenon DEF Promise!ConsumersReadLast, ConsumersReadLast
  <1>13. \A i : Promise!HasParentOutput(plan, i) <=> HasParentOutput(plan, i)
    BY Zenon DEF Promise!HasParentOutput, HasParentOutput, Promise!OutputIsVoid, OutputIsVoid
  <1>14. /\ [i \in NodesOf(plan) |-> Promise!RequiresFanoutStaging(plan, i)]
              = [i \in NodesOf(plan) |-> RequiresFanoutStaging(plan, i)]
         /\ [i \in NodesOf(plan) |-> Promise!UsesStagedCopyPrev(plan, i)]
              = [i \in NodesOf(plan) |-> UsesStagedCopyPrev(plan, i)]
    <2>1. \A i : Promise!RequiresFanoutStaging(plan, i) = RequiresFanoutStaging(plan, i)
      BY <1>8, Zenon DEF Promise!RequiresFanoutStaging, RequiresFanoutStaging
    <2>2. \A i : Promise!UsesStagedCopyPrev(plan, i) = UsesStagedCopyPrev(plan, i)
      BY <1>9, Zenon DEF Promise!UsesStagedCopyPrev, UsesStagedCopyPrev
    <2> QED BY <2>1, <2>2, Zenon
  <1>15. /\ Promise!Kinds = Kinds
         /\ \A i : Promise!IsForwardPrev(plan.task[i]) <=> IsForwardPrev(plan.task[i])
    BY Zenon DEF Promise!Kinds, Kinds, Promise!IsForwardPrev, IsForwardPrev
  <1> QED BY <1>1, <1>3, <1>10, <1>12, <1>13, <1>14, <1>15, Zenon
          DEF Promise!TasksWellFormed, TasksWellFormed

(* What a task reports or does to end the run.                             *)
Ending == {"failure", "retry", "abort_execution", "threw"}

(* What it says of the state of a run.                                     *)
LEMMA PromisedState ==
  /\ Promise!Due = DueOf(outcome)
  /\ \A i : Promise!AncestorPayloads(i) = {a \in RootPath(plan, i) \ {i} : PayloadNode(plan, a)}
  /\ \A status : Promise!EndsRun(status) <=> status \in Ending
  /\ Promise!Ended <=> result = "exception" \/ \E i \in nodes : outcome[i] \in Ending
  <1>1. /\ \A i : Promise!RootPath(plan, i) = RootPath(plan, i)
        /\ \A i : Promise!PayloadNode(plan, i) <=> PayloadNode(plan, i)
        /\ Promise!nodes = nodes
    BY PromisedTree
  <1>2. \A i : Promise!Ancestors(i) = RootPath(plan, i) \ {i}
    BY <1>1 DEF Promise!Ancestors
  <1>3. Promise!Due = DueOf(outcome)
    BY <1>1, <1>2 DEF Promise!Due, DueOf
  <1>4. \A i : Promise!AncestorPayloads(i) =
                 {a \in RootPath(plan, i) \ {i} : PayloadNode(plan, a)}
    BY <1>1, <1>2 DEF Promise!AncestorPayloads
  <1>5. \A status : Promise!EndsRun(status) <=> status \in Ending
    BY DEF Promise!EndsRun, Ending
  <1>6. result = "exception" <=> ReportedResult = "exception"
    BY DEF ReportedResult
  <1>7. Promise!Ended <=> result = "exception" \/ \E i \in nodes : outcome[i] \in Ending
    BY <1>1, <1>5, <1>6 DEF Promise!Ended
  <1> QED BY <1>3, <1>4, <1>5, <1>7

(* A run starts as promised.                                               *)
LEMMA RunInitIsPromised == RunInit => Promise!Init
  <1> SUFFICES ASSUME RunInit PROVE Promise!Init
    OBVIOUS
  <1>1. /\ plan \in Plans /\ pc = "dfs" /\ result = "none"
        /\ outcome = [i \in nodes |-> "none"]
        /\ slots = [s \in 0 .. plan.n_slots - 1 |-> EmptyCell]
    BY DEF RunInit
  <1>2. Promise!WellFormed(plan)
    BY <1>1, WellFormedPlan, PromisedTree, PromisedTasks DEF Promise!WellFormed
  <1>3. Stored = {}
    <2>1. \A s \in DOMAIN slots : slots[s].obj = NoObject
      BY <1>1 DEF EmptyCell
    <2> QED BY <2>1 DEF Stored
  <1>4. ReportedResult = "running"
    BY <1>1 DEF ReportedResult
  <1>5. Promise!nodes = nodes
    BY PromisedTree
  <1> QED BY <1>1, <1>2, <1>3, <1>4, <1>5 DEF Promise!Init

-------------------------------------------------------------------------------
(* Steps of a traversal, as the promise sees them.                         *)

(* The last node of a walk, about to be entered, is the next one due, and  *)
(* what is stored is what its ancestors left.                              *)
LEMMA EnteredIsPromised ==
  ASSUME plan \in Plans, NEW node, NEW ord, NEW next, NEW len,
         IsWalk(node, ord, len), len # 0,
         \A k \in 1 .. len - 1 : next[k] = ord[k] + 1 /\ outcome[node[k]] = "success",
         next[len] \in Nat,
         Frontier(outcome, node, next, len, TRUE),
         \A j \in Ran : j < node[len],
         ~Promise!Ended,
         NEW holds, Stored = {node[k] : k \in {m \in 1 .. len : holds[m]}}, ~holds[len],
         \A k \in 1 .. len - 1 : holds[k] <=> PayloadNode(plan, node[k])
  PROVE  Promise!NextDue(node[len]) /\ Stored = Promise!AncestorPayloads(node[len])
  <1>1. len \in Nat /\ len \in 1 .. len /\ \A k \in 1 .. len : node[k] \in nodes /\ node[k] \in Nat
    BY RootIsANode DEF IsWalk
  <1>2. RootPath(plan, node[len]) = {node[k] : k \in 1 .. len}
    BY <1>1, WalkIsARootPath
  <1>3. \A k \in 1 .. len : node[k] # node[len] <=> k \in 1 .. len - 1
    <2>1. \A k \in 1 .. len - 1 : node[k] < node[len]
      BY <1>1, WalkRises
    <2> QED BY <1>1, <2>1
  <1>4. RootPath(plan, node[len]) \ {node[len]} = {node[k] : k \in 1 .. len - 1}
    BY <1>1, <1>2, <1>3
  <1>5. outcome[node[len]] = "none"
    BY <1>1 DEF Ran
  <1>6. node[len] \in DueOf(outcome)
    BY <1>1, <1>4, <1>5 DEF DueOf
  <1>7. \A j \in DueOf(outcome) : node[len] <= j
    BY EnteredIsDueFirst
  <1>8. {m \in 1 .. len : holds[m]} = {m \in 1 .. len - 1 : PayloadNode(plan, node[m])}
    BY <1>1
  <1>9. Stored = {a \in RootPath(plan, node[len]) \ {node[len]} : PayloadNode(plan, a)}
    BY <1>4, <1>8
  <1> QED BY <1>6, <1>7, <1>9, PromisedState DEF Promise!NextDue

(* A task that reports is run as promised.                                 *)
LEMMA ReportIsPromised ==
  ASSUME NEW i \in nodes, Promise!NextDue(i), Stored = Promise!AncestorPayloads(i),
         NEW status \in Statuses, EnterNode(i, status),
         Stored' = IF PayloadLive(i, status) THEN Stored \cup {i} ELSE Stored,
         UNCHANGED <<plan, pc, result>>
  PROVE  Promise!Next
  <1>1. /\ i \in Promise!nodes
        /\ status \in Promise!TaskStatuses(plan.task[i])
        /\ outcome' = [outcome EXCEPT ![i] = status]
    BY PromisedTree DEF EnterNode
  <1>2. Stored' = IF status = "success" /\ Promise!PayloadNode(plan, i)
                    THEN Stored \cup {i} ELSE Stored
    BY PromisedTree DEF PayloadLive
  <1>3. ReportedResult' = ReportedResult
    BY DEF ReportedResult
  <1>4. Promise!RunTask(i, status)
    BY <1>1, <1>2, <1>3 DEF Promise!RunTask
  <1> QED BY <1>1, <1>4 DEF Promise!Next, Statuses

(* A task that throws does so as promised.                                 *)
LEMMA ThrowIsPromised ==
  ASSUME plan \in Plans, NEW i \in nodes,
         Promise!NextDue(i), Stored = Promise!AncestorPayloads(i),
         EnterNodeThrows(i), Stored' = Stored, plan' = plan, result' = "exception"
  PROVE  Promise!Next
  <1>1. Promise!PayloadNode(plan, i) /\ i \in Promise!nodes
    BY KindsOfTasks, PromisedTree DEF EnterNodeThrows
  <1>2. ReportedResult' = "exception"
    BY DEF ReportedResult
  <1>3. Promise!ThrowFromTask(i)
    BY <1>1, <1>2 DEF Promise!ThrowFromTask, EnterNodeThrows
  <1> QED BY <1>1, <1>3 DEF Promise!Next

(* Staging throws before any child ran.                                    *)
LEMMA StagingThrowIsPromised ==
  ASSUME plan \in Plans, NEW i \in nodes, MayThrow, plan.staging[i], outcome[i] = "success",
         \A o \in Nat : o < plan.child_counts[i] => \A j \in Ran : j < ChildAt(plan, i, o),
         ~Promise!Ended, UNCHANGED <<plan, slots, outcome>>, result' = "exception"
  PROVE  Promise!Next
  <1>1. \A c \in Children(plan, i) : outcome[c] = "none"
    <2>1. SUFFICES ASSUME NEW o \in 0 .. plan.child_counts[i] - 1
                   PROVE  outcome[ChildAt(plan, i, o)] = "none"
      BY DEF Children
    <2>2. plan.child_counts[i] \in Nat
      BY WellFormedPlan DEF TreeWellFormed, nodes
    <2>3. o \in Nat /\ o < plan.child_counts[i]
      BY <2>2
    <2>4. ChildAt(plan, i, o) \in nodes /\ ChildAt(plan, i, o) \in Nat
      BY <2>3, ChildIsANode, RootIsANode
    <2> QED BY <2>3, <2>4 DEF Ran
  <1>2. ReportedResult' = "exception" /\ Stored' = Stored
    BY DEF ReportedResult, Stored
  <1>3. i \in Promise!nodes /\ Promise!Children(plan, i) = Children(plan, i)
    BY PromisedTree
  <1>4. Promise!ThrowFromStaging(i)
    BY <1>1, <1>2, <1>3 DEF Promise!ThrowFromStaging
  <1> QED BY <1>3, <1>4 DEF Promise!Next

(* The payload of a walk's last node is released once nothing below it is  *)
(* due: what else is stored is above it.                                   *)
LEMMA ReleaseIsPromised ==
  ASSUME plan \in Plans, NEW node, NEW ord, NEW len, IsWalk(node, ord, len), len # 0,
         \A i \in Stored : \E k \in 1 .. len : i = node[k],
         node[len] \in Stored, Stored' = Stored \ {node[len]},
         Promise!Ended \/ \A j \in DueOf(outcome) : node[len] \notin RootPath(plan, j),
         UNCHANGED <<plan, outcome>>, ReportedResult' = ReportedResult
  PROVE  Promise!Next
  <1>1. len \in Nat /\ len \in 1 .. len /\ \A k \in 1 .. len : node[k] \in nodes /\ node[k] \in Nat
    BY RootIsANode DEF IsWalk
  <1>2. Subtree(plan, node[len]) \cap Stored = {node[len]}
    <2>1. SUFFICES ASSUME NEW a \in Stored, node[len] \in RootPath(plan, a) PROVE a = node[len]
      <3>1. node[len] \in RootPath(plan, node[len])
        BY <1>1, RootPathFollowsTheParent
      <3> QED BY <1>1, <3>1 DEF Subtree, nodes
    <2>2. PICK k \in 1 .. len : a = node[k]
      OBVIOUS
    <2>3. node[len] <= node[k]
      BY <1>1, <2>1, <2>2, RootPathFollowsTheParent
    <2>4. k # len => node[k] < node[len]
      BY <1>1, WalkRises
    <2> QED BY <1>1, <2>2, <2>3, <2>4
  <1>3. Promise!Ended \/ Subtree(plan, node[len]) \cap Promise!Due = {}
    BY PromisedState DEF Subtree
  <1>4. node[len] \in Promise!nodes /\ Promise!Subtree(plan, node[len]) = Subtree(plan, node[len])
    BY <1>1, PromisedTree
  <1>5. Promise!Release(node[len])
    BY <1>2, <1>3, <1>4 DEF Promise!Release
  <1> QED BY <1>4, <1>5 DEF Promise!Next

(* Some task ended the run, and status is what every such task reported.   *)
EndReported(status) ==
  /\ \E i \in nodes : outcome[i] \in Ending
  /\ \A i \in nodes : outcome[i] \in Ending => outcome[i] = status

(* What the task that ended the run reported, or else what the root did    *)
(* to the run, is the promise's verdict.                                   *)
LEMMA VerdictIsPromised ==
  ASSUME result # "exception", NEW status,
         IF status \in Ending
           THEN EndReported(status)
           ELSE /\ \A i \in nodes : outcome[i] \notin Ending
                /\ status = IF outcome[0] = "abort_branch" THEN "abort_branch" ELSE "success"
  PROVE  status = Promise!Verdict
  <1>1. Promise!nodes = nodes
    BY PromisedTree
  <1>2. CASE status \in Ending
    <2>1. EndReported(status)
      BY <1>2
    <2>2. PICK w : w = CHOOSE i \in nodes : Promise!EndsRun(outcome[i])
      OBVIOUS
    <2>3. \E i \in nodes : Promise!EndsRun(outcome[i])
      BY <2>1, PromisedState DEF EndReported
    <2>4. w \in nodes /\ Promise!EndsRun(outcome[w])
      BY <2>2, <2>3
    <2>5. outcome[w] = status /\ Promise!Ended
      BY <2>1, <2>4, PromisedState DEF EndReported
    <2> QED BY <1>1, <2>2, <2>5 DEF Promise!Verdict
  <1>3. CASE status \notin Ending
    BY <1>3, PromisedState DEF Promise!Verdict
  <1> QED BY <1>2, <1>3

(* Leaving run_plan reports the verdict once the last slot was visited.    *)
LEMMA ReturnIsPromised ==
  ASSUME plan \in Plans, RunTypeOK, CleanupProgress, Sound(slots, live_slots), LeaveRunPlan,
         \A s \in 0 .. plan.n_slots - 1 : slots[s].obj = NoObject,
         result # "exception" =>
           /\ Promise!Ended \/ Promise!Due = {}
           /\ result = Promise!Verdict
  PROVE  Promise!Next \/ UNCHANGED Promise!vars
  <1>1. /\ UNCHANGED <<plan, result, outcome>> /\ cleanup \in 0 .. plan.n
        /\ pc \in {"fanout_dtor", "slots_dtor"} /\ pc' \in {"slots_dtor", "done"}
    BY LeaveRunPlanIsTyped DEF RunTypeOK
  <1>2. slots' \in Cells /\ \A s \in 0 .. plan.n_slots - 1 : slots'[s].obj = NoObject
    BY <1>1, LeavingStoresNothing
  <1>3. Stored = {} /\ Stored' = {}
    <2>1. DOMAIN slots = 0 .. plan.n_slots - 1 /\ DOMAIN slots' = 0 .. plan.n_slots - 1
      BY <1>2 DEF Sound, Cells
    <2> QED BY <1>2, <2>1 DEF Stored
  <1>4. CASE result = "exception" \/ pc' # "done"
    <2>1. ReportedResult' = ReportedResult
      BY <1>1, <1>4 DEF ReportedResult
    <2> QED BY <1>1, <1>3, <2>1 DEF Promise!vars
  <1>5. CASE result # "exception" /\ pc' = "done"
    <2>1. ReportedResult = "running" /\ ReportedResult' = result
      BY <1>1, <1>5 DEF ReportedResult
    <2>2. Promise!Return
      BY <1>1, <1>3, <1>5, <2>1 DEF Promise!Return
    <2> QED BY <2>2 DEF Promise!Next
  <1> QED BY <1>4, <1>5

(* A step that changes neither the plan, the history, the slots nor the    *)
(* result is a stutter.                                                    *)
LEMMA StutterIsPromised ==
  ASSUME UNCHANGED <<plan, outcome, slots, result>>,
         result = "exception" \/ (pc' = "done" <=> pc = "done")
  PROVE  UNCHANGED Promise!vars
  BY DEF Promise!vars, Stored, ReportedResult

-------------------------------------------------------------------------------
(* How long a run can take.                                                *)

(* The nodes whose task has not run yet.                                   *)
NotYetRun == nodes \ Ran

(* The steps that run_plan itself takes once its executor is done.         *)
StepsToLeave ==
  CASE pc = "fanout_dtor" -> plan.n + 1
    [] pc = "slots_dtor"  -> plan.n - cleanup
    [] OTHER              -> 0

(* They are finitely many.                                                 *)
LEMMA NotYetRunIsFinite ==
  ASSUME plan \in Plans
  PROVE  IsFiniteSet(NotYetRun)
  <1>1. nodes = 0 .. plan.n - 1 /\ plan.n \in Nat
    BY RootIsANode
  <1>2. IsFiniteSet(nodes)
    BY <1>1, FS_Interval
  <1> QED BY <1>2, FS_Subset DEF NotYetRun

(* A task that runs is counted off.                                        *)
LEMMA RunningCountsOff ==
  ASSUME plan \in Plans, plan' = plan, NEW i \in nodes, i \notin Ran,
         outcome \in [nodes -> Statuses \cup {"none", "threw"}],
         NEW report \in Statuses \cup {"threw"}, outcome' = [outcome EXCEPT ![i] = report]
  PROVE  Cardinality(NotYetRun) \in Nat \ {0} /\ Cardinality(NotYetRun)' = Cardinality(NotYetRun) - 1
  <1>1. nodes = 0 .. plan.n - 1 /\ plan.n \in Nat /\ nodes' = nodes
    BY RootIsANode DEF nodes
  <1>2. IsFiniteSet(NotYetRun)
    BY NotYetRunIsFinite
  <1>3. report # "none"
    BY DEF Statuses
  <1>4. Ran' = Ran \cup {i}
    BY <1>1, <1>3 DEF Ran
  <1>5. NotYetRun' = NotYetRun \ {i} /\ i \in NotYetRun
    BY <1>1, <1>4 DEF NotYetRun
  <1>6. Cardinality(NotYetRun') = Cardinality(NotYetRun) - 1 /\ Cardinality(NotYetRun') \in Nat
    BY <1>2, <1>5, FS_RemoveElement, FS_CardinalityType
  <1>7. Cardinality(NotYetRun) \in Nat
    BY <1>2, FS_CardinalityType
  <1> QED BY <1>6, <1>7

(* Nothing else changes the count, which is the plan's size at first.      *)
LEMMA CountOfNotYetRun ==
  ASSUME plan \in Plans
  PROVE  /\ Cardinality(NotYetRun) \in Nat
         /\ UNCHANGED <<plan, outcome>> => Cardinality(NotYetRun)' = Cardinality(NotYetRun)
         /\ RunInit => Cardinality(NotYetRun) = plan.n
  <1>1. nodes = 0 .. plan.n - 1 /\ plan.n \in Nat
    BY RootIsANode
  <1>2. IsFiniteSet(nodes) /\ Cardinality(nodes) = plan.n
    BY <1>1, FS_Interval
  <1>3. Cardinality(NotYetRun) \in Nat
    BY <1>2, FS_Subset, FS_CardinalityType DEF NotYetRun
  <1>4. UNCHANGED <<plan, outcome>> => NotYetRun' = NotYetRun
    BY DEF NotYetRun, Ran, nodes
  <1>5. RunInit => NotYetRun = nodes
    BY DEF RunInit, NotYetRun, Ran
  <1> QED BY <1>2, <1>3, <1>4, <1>5

(* Each of run_plan's own steps is one fewer to take.                      *)
LEMMA LeavingCountsDown ==
  ASSUME plan \in Plans, RunTypeOK
  PROVE  /\ StepsToLeave \in Nat
         /\ pc = "fanout_dtor" => StepsToLeave = plan.n + 1
         /\ LeaveRunPlan => pc # "dfs" /\ pc' # "dfs" /\ StepsToLeave' < StepsToLeave
  <1>1. plan.n \in Nat \ {0} /\ cleanup \in 0 .. plan.n
    BY RootIsANode DEF RunTypeOK
  <1>2. StepsToLeave \in Nat /\ (pc = "fanout_dtor" => StepsToLeave = plan.n + 1)
    BY <1>1 DEF StepsToLeave
  <1>3. CASE DestroyFanoutState
    BY <1>1, <1>2, <1>3 DEF DestroyFanoutState, StepsToLeave
  <1>4. CASE DestroyActiveSlot
    <2>1. /\ pc = "slots_dtor" /\ cleanup < plan.n /\ cleanup' = cleanup + 1 /\ plan' = plan
          /\ pc' = IF cleanup + 1 = plan.n THEN "done" ELSE pc
      BY <1>4 DEF DestroyActiveSlot
    <2> QED BY <1>1, <1>2, <2>1 DEF StepsToLeave
  <1> QED BY <1>2, <1>3, <1>4 DEF LeaveRunPlan

===============================================================================
