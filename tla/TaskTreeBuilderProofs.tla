------------------------ MODULE TaskTreeBuilderProofs -------------------------
(***************************************************************************)
(* Proofs about recording and compiling a task tree, for programs that     *)
(* write any tasks and policies and any number of nodes.                   *)
(*                                                                         *)
(* From the levels alone follow the parents, the child ranges and the      *)
(* preorder; from these the slots of both layouts; from validation, what   *)
(* tasks may read.  Together they are WellFormed, on which the theorems    *)
(* about running a plan rest.                                              *)
(*                                                                         *)
(* Then, about the builder and binder objects a program writes trees with: *)
(* what each holds is the tree its expression spells, and a recording.     *)
(***************************************************************************)
EXTENDS TaskTreeBuilder, BuilderObjects, FiniteSetTheorems, SequenceTheorems, TLAPS

-------------------------------------------------------------------------------
(* Numbers.                                                                *)

Less == {pair \in Nat \X Nat : pair[1] < pair[2]}

(* Every non-empty set of natural numbers has a least element.             *)
LEMMA LeastNumber ==
  ASSUME NEW T \in SUBSET Nat, T # {}
  PROVE  \E m \in T : \A k \in T : m <= k
  <1>1. OpToRel(<, Nat) = Less
    BY Zenon DEF OpToRel, Less
  <1>2. IsWellFoundedOn(Less, Nat)
    BY <1>1, NatLessThanWellFounded, Zenon
  <1>3. PICK m \in T : \A k \in T : <<k, m>> \notin Less
    BY <1>2, WFMin
  <1>4. \A k \in T : ~(k < m)
    BY <1>3 DEF Less
  <1> QED BY <1>4

(* Complete induction below a natural number.                              *)
LEMMA UpTo ==
  ASSUME NEW n \in Nat, NEW S,
         \A k \in 0 .. n - 1 : (\A j \in 0 .. k - 1 : j \in S) => k \in S
  PROVE  \A k \in 0 .. n - 1 : k \in S
  <1> DEFINE T == {k \in 0 .. n - 1 : k \notin S}
  <1> SUFFICES ASSUME T # {} PROVE FALSE
    OBVIOUS
  <1>0. T \in SUBSET Nat
    OBVIOUS
  <1>1. PICK k \in T : \A j \in T : k <= j
    BY <1>0, LeastNumber
  <1>2. \A j \in 0 .. k - 1 : j \in S
    BY <1>1
  <1> QED BY <1>1, <1>2

(* Every bounded non-empty set of natural numbers has a largest element.   *)
LEMMA LargestNumber ==
  ASSUME NEW n \in Nat, NEW T \in SUBSET (0 .. n - 1), T # {}
  PROVE  Largest(T) \in T /\ \A k \in T : k <= Largest(T)
  <1> DEFINE Bounds == {b \in Nat : \A k \in T : k <= b}
  <1>1. n \in Bounds /\ Bounds \in SUBSET Nat
    OBVIOUS
  <1>2. PICK m \in Bounds : \A b \in Bounds : m <= b
    BY <1>1, LeastNumber
  <1>3. m \in T
    <2> SUFFICES ASSUME m \notin T PROVE FALSE
      OBVIOUS
    <2>1. PICK t \in T : t <= m
      BY <1>2
    <2>2. m - 1 \in Bounds
      BY <1>2, <2>1
    <2> QED BY <1>2, <2>2
  <1>4. \A k \in T : k <= m
    BY <1>2
  <1>5. \E x \in T : \A y \in T : y <= x
    BY <1>3, <1>4
  <1>6. Largest(T) \in T /\ \A y \in T : y <= Largest(T)
    <2> HIDE DEF Bounds
    <2> QED BY <1>5 DEF Largest
  <1> QED BY <1>6

(* Among the elements of a finite set of numbers there is one with any     *)
(* number of smaller ones that is less than the size of the set, and of    *)
(* two of them the one with more is the larger.                            *)
LEMMA Ranks ==
  ASSUME NEW n \in Nat, NEW T \in SUBSET (0 .. n - 1), NEW r \in Nat
  PROVE  /\ IsFiniteSet(T) /\ Cardinality(T) \in Nat
         /\ \A k : /\ IsFiniteSet({d \in T : d < k})
                   /\ Cardinality({d \in T : d < k}) \in Nat
         /\ \A c \in T : Cardinality({d \in T : d < c}) < Cardinality(T)
         /\ \A b, c \in T : b < c =>
              Cardinality({d \in T : d < b}) < Cardinality({d \in T : d < c})
         /\ r < Cardinality(T) => \E c \in T : Cardinality({d \in T : d < c}) = r
  <1> DEFINE Below(k) == {d \in T : d < k}
  <1>0. \A t \in T : t \in Nat /\ t < n
    OBVIOUS
  <1>1. IsFiniteSet(T) /\ Cardinality(T) \in Nat
    <2>1. IsFiniteSet(0 .. n - 1)
      BY FS_Interval
    <2> QED BY <2>1, FS_Subset, FS_CardinalityType
  <1>2. \A k : IsFiniteSet(Below(k)) /\ Cardinality(Below(k)) \in Nat
    <2>1. \A k : Below(k) \in SUBSET T
      OBVIOUS
    <2> HIDE DEF Below
    <2> QED BY <1>1, <2>1, FS_Subset, FS_CardinalityType
  <1>3. ASSUME NEW c \in T, NEW U \in SUBSET T, Below(c) \subseteq U, c \in U
        PROVE  Cardinality(Below(c)) < Cardinality(U)
    <2>1. c \notin Below(c)
      BY <1>0
    <2>2. /\ Below(c) # U /\ Below(c) \in SUBSET U
          /\ IsFiniteSet(U) /\ Cardinality(U) \in Nat
      BY <1>1, <1>3, <2>1, FS_Subset, FS_CardinalityType
    <2>3. /\ Cardinality(Below(c)) <= Cardinality(U)
          /\ Cardinality(Below(c)) # Cardinality(U)
      <3> HIDE DEF Below
      <3> QED BY <2>2, FS_Subset
    <2> QED BY <1>2, <2>2, <2>3
  <1>4. \A c \in T : Cardinality(Below(c)) < Cardinality(T)
    <2>1. \A c \in T : Below(c) \subseteq T
      OBVIOUS
    <2> HIDE DEF Below
    <2> QED BY <1>3, <2>1
  <1>5. \A b, c \in T : b < c => Cardinality(Below(b)) < Cardinality(Below(c))
    <2>1. ASSUME NEW b \in T, NEW c \in T, b < c
          PROVE  Below(b) \subseteq Below(c) /\ b \in Below(c) /\ Below(c) \in SUBSET T
      <3>1. \A d \in T : d < b => d < c
        BY <1>0, <2>1
      <3> QED BY <2>1, <3>1
    <2> HIDE DEF Below
    <2> QED BY <1>3, <2>1
  <1>6. ASSUME r < Cardinality(T)
        PROVE  \E c \in T : Cardinality(Below(c)) = r
    <2> DEFINE Enough == {k \in Nat : r < Cardinality(Below(k))}
    <2>1. Below(n) = T /\ Below(0) = {}
      <3>1. \A t \in T : t < n /\ ~(t < 0)
        BY <1>0
      <3> QED BY <3>1
    <2>2. n \in Enough /\ Enough \in SUBSET Nat
      BY <1>6, <2>1
    <2>3. PICK k \in Enough : \A m \in Enough : k <= m
      BY <2>2, LeastNumber
    <2>4. k \in Nat /\ r < Cardinality(Below(k)) /\ k # 0
      BY <2>1, <2>3, FS_EmptySet
    <2>5. k - 1 \in Nat /\ k - 1 \notin Enough
      BY <2>3, <2>4
    <2>6. Cardinality(Below(k - 1)) <= r
      BY <1>2, <2>5
    <2>7. /\ k - 1 \in T => Below(k) = Below(k - 1) \cup {k - 1}
          /\ k - 1 \notin T => Below(k) = Below(k - 1)
      <3>1. \A t \in T : t < k <=> t < k - 1 \/ t = k - 1
        BY <1>0, <2>4
      <3> QED BY <3>1
    <2>8. k - 1 \in T /\ k - 1 \notin Below(k - 1)
      BY <1>0, <1>2, <2>4, <2>6, <2>7
    <2>9. Cardinality(Below(k)) = Cardinality(Below(k - 1)) + 1
      <3> HIDE DEF Below
      <3> QED BY <1>2, <2>7, <2>8, FS_AddElement
    <2>10. Cardinality(Below(k - 1)) = r
      <3> HIDE DEF Below
      <3> QED BY <1>2, <2>4, <2>6, <2>9
    <2> QED BY <2>8, <2>10
  <1> QED BY <1>1, <1>2, <1>4, <1>5, <1>6

(* A recursive definition on 0 .. n - 1: at i the value is start[i], or    *)
(* step[i] of the value at the earlier number from[i].                     *)
Recursive(n, V, from, start, step) ==
  /\ n \in Nat
  /\ \A i \in 0 .. n - 1 : from[i] = n \/ from[i] \in 0 .. i - 1
  /\ start \in [0 .. n - 1 -> V]
  /\ step \in [0 .. n - 1 -> [V -> V]]

Solves(f, n, V, from, start, step) ==
  /\ f \in [0 .. n - 1 -> V]
  /\ \A i \in 0 .. n - 1 : from[i] = n => f[i] = start[i]
  /\ \A i \in 0 .. n - 1 : from[i] # n => f[i] = step[i][f[from[i]]]

(* It defines a function.                                                  *)
LEMMA Recursion ==
  ASSUME NEW n, NEW V, NEW from, NEW start, NEW step, Recursive(n, V, from, start, step)
  PROVE  \E f : Solves(f, n, V, from, start, step)
  <1> SUFFICES ASSUME n \in Nat,
                      \A i \in 0 .. n - 1 : from[i] = n \/ from[i] \in 0 .. i - 1,
                      start \in [0 .. n - 1 -> V],
                      step \in [0 .. n - 1 -> [V -> V]]
               PROVE  \E f : Solves(f, n, V, from, start, step)
    BY DEF Recursive
  <1> DEFINE Extends(f, m) ==
               \A i \in 0 .. m - 1 : f[i] = IF from[i] = n THEN start[i] ELSE step[i][f[from[i]]]
             S == {m \in 0 .. n : \E f \in [0 .. m - 1 -> V] : Extends(f, m)}
  <1>1. ASSUME NEW m \in 0 .. n, \A k \in 0 .. m - 1 : k \in S
        PROVE  m \in S
    <2>1. CASE m = 0
      <3>1. 0 .. m - 1 = {}
        BY <2>1
      <3>2. [i \in {} |-> start[i]] \in [0 .. m - 1 -> V]
        BY <3>1
      <3> QED BY <3>1, <3>2
    <2>2. CASE m # 0
      <3>1. m - 1 \in S /\ m - 1 \in 0 .. n - 1 /\ m \in Nat
        <4>1. m - 1 \in 0 .. n - 1 /\ m \in Nat /\ m - 1 \in 0 .. m - 1
          BY <2>2
        <4> HIDE DEF S
        <4> QED BY <4>1, <1>1
      <3>2. PICK f \in [0 .. m - 2 -> V] : Extends(f, m - 1)
        BY <3>1
      <3>3. from[m - 1] # n => from[m - 1] \in 0 .. m - 2
        BY <3>1
      <3>4. PICK v \in V :
              v = IF from[m - 1] = n THEN start[m - 1] ELSE step[m - 1][f[from[m - 1]]]
        BY <3>1, <3>2, <3>3
      <3> DEFINE g == [i \in 0 .. m - 1 |-> IF i = m - 1 THEN v ELSE f[i]]
      <3>5. g \in [0 .. m - 1 -> V]
        BY <3>1, <3>2, <3>4
      <3>6. \A i \in 0 .. m - 2 : g[i] = f[i] /\ g[m - 1] = v
        BY <3>1
      <3>7. ASSUME NEW i \in 0 .. m - 1
            PROVE  g[i] = IF from[i] = n THEN start[i] ELSE step[i][g[from[i]]]
        <4>1. from[i] # n => from[i] \in 0 .. m - 2 /\ from[i] < i
          BY <3>1
        <4>2. CASE i = m - 1
          BY <3>1, <3>4, <4>1, <4>2
        <4>3. CASE i \in 0 .. m - 2
          BY <3>1, <3>2, <4>1, <4>3
        <4> QED BY <3>1, <4>2, <4>3
      <3> QED BY <3>5, <3>7
    <2> QED BY <2>1, <2>2
  <1>2. n \in S
    <2> HIDE DEF S
    <2>1. \A m \in 0 .. (n + 1) - 1 : (\A k \in 0 .. m - 1 : k \in S) => m \in S
      BY <1>1
    <2>2. n + 1 \in Nat
      OBVIOUS
    <2>3. \A m \in 0 .. (n + 1) - 1 : m \in S
      BY <2>1, <2>2, UpTo
    <2> QED BY <2>3
  <1>3. PICK f \in [0 .. n - 1 -> V] : Extends(f, n)
    BY <1>2
  <1> QED BY <1>3 DEF Solves

-------------------------------------------------------------------------------
(* Parents, from the levels alone.                                         *)

(* The levels of a recorded tree: every node but the first is below some   *)
(* node, at most one level below the node before it.                       *)
Climbs(levels, n) ==
  /\ n \in Nat \ {0}
  /\ levels \in [0 .. n - 1 -> Nat]
  /\ levels[0] = 0
  /\ \A i \in 1 .. n - 1 : levels[i] # 0 /\ levels[i] <= levels[i - 1] + 1

(* Between a node and a deeper one behind it there is one just a level     *)
(* above the deeper one.                                                   *)
LEMMA NoLevelIsSkipped ==
  ASSUME NEW n, NEW levels, Climbs(levels, n),
         NEW a \in 0 .. n - 1, NEW b \in 0 .. n - 1, a < b, levels[a] < levels[b]
  PROVE  \E c \in 0 .. n - 1 : a <= c /\ c < b /\ levels[c] = levels[b] - 1
  <1> DEFINE T == {c \in 0 .. n - 1 : a <= c /\ c < b /\ levels[c] < levels[b]}
  <1>1. n \in Nat /\ \A i \in 0 .. n - 1 : levels[i] \in Nat
    BY DEF Climbs
  <1>2. T \in SUBSET (0 .. n - 1) /\ a \in T
    BY <1>1
  <1>3. PICK c \in T : \A d \in T : d <= c
    BY <1>1, <1>2, LargestNumber
  <1>4. /\ c \in 0 .. n - 1 /\ c + 1 \in 1 .. n - 1 /\ c + 1 \in 0 .. n - 1
        /\ a <= c /\ c < b /\ levels[c] < levels[b]
    BY <1>1, <1>3
  <1>5. levels[c + 1] <= levels[c] + 1
    <2>1. (c + 1) - 1 = c
      BY <1>4
    <2> QED BY <1>4, <2>1 DEF Climbs
  <1>6. levels[b] <= levels[c + 1]
    <2>1. CASE c + 1 = b
      BY <1>1, <2>1
    <2>2. CASE c + 1 # b
      <3>1. c + 1 \notin T
        BY <1>3, <1>4
      <3>2. ~(levels[c + 1] < levels[b])
        BY <1>1, <1>4, <2>2, <3>1
      <3> QED BY <1>1, <1>4, <3>2
    <2> QED BY <2>1, <2>2
  <1>7. PICK x \in Nat, y \in Nat, z \in Nat : x = levels[c] /\ y = levels[c + 1] /\ z = levels[b]
    BY <1>1, <1>4
  <1>8. x = z - 1
    BY <1>4, <1>5, <1>6, <1>7
  <1> QED BY <1>4, <1>7, <1>8

(* The scan backwards finds for each node but the first the nearest node   *)
(* one level up.                                                           *)
LEMMA ParentIsFound ==
  ASSUME NEW n, NEW levels, Climbs(levels, n), NEW parents,
         parents = MakeParentIndexArray(levels, n)
  PROVE  /\ parents[0] = n
         /\ parents \in [0 .. n - 1 -> 0 .. n]
         /\ \A i \in 1 .. n - 1 :
              /\ parents[i] \in 0 .. n - 1 /\ parents[i] < i
              /\ levels[parents[i]] = levels[i] - 1
              /\ \A c \in 0 .. n - 1 :
                   c < i /\ levels[c] = levels[i] - 1 => c <= parents[i]
  <1> DEFINE candidates(i) == {c \in 0 .. i - 1 : levels[c] = levels[i] - 1}
  <1>1. n \in Nat \ {0} /\ \A i \in 0 .. n - 1 : levels[i] \in Nat
    BY DEF Climbs
  <1>2. parents = [i \in 0 .. n - 1 |->
                     IF candidates(i) = {} THEN n ELSE Largest(candidates(i))]
    BY DEF MakeParentIndexArray
  <1>3. parents[0] = n
    <2>1. candidates(0) = {} /\ 0 \in 0 .. n - 1
      BY <1>1
    <2> HIDE DEF candidates
    <2> QED BY <1>2, <2>1
  <1>4. ASSUME NEW i \in 1 .. n - 1
        PROVE  /\ parents[i] \in 0 .. n - 1 /\ parents[i] < i
               /\ levels[parents[i]] = levels[i] - 1
               /\ \A c \in 0 .. n - 1 :
                    c < i /\ levels[c] = levels[i] - 1 => c <= parents[i]
    <2>1. /\ i \in Nat /\ i \in 0 .. n - 1 /\ 0 \in 0 .. n - 1 /\ 0 < i
          /\ levels[0] < levels[i]
      BY <1>1 DEF Climbs
    <2>2. PICK c \in 0 .. n - 1 : 0 <= c /\ c < i /\ levels[c] = levels[i] - 1
      BY <2>1, NoLevelIsSkipped
    <2>3. c \in candidates(i) /\ candidates(i) \in SUBSET (0 .. i - 1)
      BY <2>1, <2>2
    <2>4. /\ Largest(candidates(i)) \in candidates(i)
          /\ \A d \in candidates(i) : d <= Largest(candidates(i))
      <3> HIDE DEF candidates
      <3> QED BY <2>1, <2>3, LargestNumber
    <2>5. parents[i] = Largest(candidates(i))
      <3> HIDE DEF candidates
      <3> QED BY <1>2, <2>1, <2>3
    <2>6. parents[i] \in candidates(i) /\ \A d \in candidates(i) : d <= parents[i]
      <3> HIDE DEF candidates
      <3> QED BY <2>4, <2>5
    <2>7. /\ parents[i] \in 0 .. i - 1 /\ levels[parents[i]] = levels[i] - 1
          /\ \A d \in 0 .. i - 1 : levels[d] = levels[i] - 1 => d <= parents[i]
      BY <2>6
    <2>8. \A d \in 0 .. n - 1 : d < i => d \in 0 .. i - 1
      BY <2>1
    <2> QED BY <1>1, <2>1, <2>7, <2>8
  <1>5. \A i \in 0 .. n - 1 : parents[i] \in 0 .. n
    BY <1>1, <1>3, <1>4
  <1>6. DOMAIN parents = 0 .. n - 1 /\ parents = [i \in DOMAIN parents |-> parents[i]]
    <2> HIDE DEF candidates
    <2> QED BY <1>2
  <1>7. parents \in [0 .. n - 1 -> 0 .. n]
    BY <1>5, <1>6
  <1> QED BY <1>3, <1>4, <1>7

(* Nodes between a parent and its child are deeper than the parent.        *)
LEMMA BetweenParentAndChild ==
  ASSUME NEW n, NEW levels, Climbs(levels, n), NEW parents,
         parents = MakeParentIndexArray(levels, n),
         NEW i \in 1 .. n - 1, NEW c \in 0 .. n - 1, parents[i] < c, c < i
  PROVE  levels[i] <= levels[c]
  <1>1. /\ n \in Nat \ {0} /\ \A j \in 0 .. n - 1 : levels[j] \in Nat
        /\ i \in Nat /\ i \in 0 .. n - 1 /\ c \in Nat
    BY DEF Climbs
  <1>2. /\ parents[i] \in 0 .. n - 1
        /\ \A d \in 0 .. n - 1 : d < i /\ levels[d] = levels[i] - 1 => d <= parents[i]
    BY ParentIsFound
  <1> SUFFICES ASSUME levels[c] < levels[i] PROVE FALSE
    BY <1>1
  <1>3. PICK d \in 0 .. n - 1 : c <= d /\ d < i /\ levels[d] = levels[i] - 1
    BY <1>1, NoLevelIsSkipped
  <1> QED BY <1>1, <1>2, <1>3

(* A subtree has no gaps: a node between a parent and its child has a      *)
(* parent that is not in front of that parent.                             *)
LEMMA NodesArePreorder ==
  ASSUME NEW n, NEW levels, Climbs(levels, n), NEW parents,
         parents = MakeParentIndexArray(levels, n),
         NEW i \in 0 .. n - 1, NEW j \in 0 .. n - 1, parents[j] < i, i < j
  PROVE  parents[i] # n /\ parents[j] <= parents[i]
  <1>1. /\ n \in Nat \ {0} /\ \A k \in 0 .. n - 1 : levels[k] \in Nat
        /\ i \in Nat /\ j \in Nat /\ j \in 1 .. n - 1
    BY DEF Climbs
  <1>2. /\ parents[j] \in 0 .. n - 1 /\ levels[parents[j]] = levels[j] - 1
        /\ levels[j] # 0
    <2>1. levels[j] # 0
      BY <1>1 DEF Climbs
    <2>2. \A k \in 1 .. n - 1 : /\ parents[k] \in 0 .. n - 1
                               /\ levels[parents[k]] = levels[k] - 1
      BY ParentIsFound
    <2> QED BY <1>1, <2>1, <2>2
  <1>3. i \in 1 .. n - 1
    BY <1>1, <1>2
  <1>4. levels[j] <= levels[i]
    BY <1>1, BetweenParentAndChild
  <1>5. levels[parents[j]] < levels[i]
    BY <1>1, <1>2, <1>4
  <1>6. PICK c \in 0 .. n - 1 : parents[j] <= c /\ c < i /\ levels[c] = levels[i] - 1
    BY <1>2, <1>5, NoLevelIsSkipped
  <1>7. /\ parents[i] \in 0 .. n - 1
        /\ \A d \in 0 .. n - 1 : d < i /\ levels[d] = levels[i] - 1 => d <= parents[i]
    BY <1>3, ParentIsFound
  <1>8. c <= parents[i]
    BY <1>6, <1>7
  <1> QED BY <1>1, <1>2, <1>6, <1>7, <1>8

-------------------------------------------------------------------------------
(* Children, from the parents.                                             *)

Kids(parents, n, i) == {c \in 1 .. n - 1 : parents[c] = i}

(* The nodes filed before the children of node i.                          *)
Earlier(parents, n, i) == {c \in 1 .. n - 1 : parents[c] < i}

LEMMA KidsAreFiled ==
  ASSUME NEW n \in Nat \ {0}, NEW parents, \A c \in 1 .. n - 1 : parents[c] \in 0 .. n - 1,
         NEW i \in Nat
  PROVE  /\ Kids(parents, n, i) \in SUBSET (0 .. n - 1)
         /\ IsFiniteSet(Kids(parents, n, i)) /\ IsFiniteSet(Earlier(parents, n, i))
         /\ Cardinality(Kids(parents, n, i)) \in Nat
         /\ Cardinality(Earlier(parents, n, i)) \in Nat
         /\ Cardinality(Earlier(parents, n, i)) <= n - 1
         /\ Cardinality(Earlier(parents, n, i + 1)) =
              Cardinality(Earlier(parents, n, i)) + Cardinality(Kids(parents, n, i))
         /\ \A j \in Nat : i <= j =>
              Cardinality(Earlier(parents, n, i)) <= Cardinality(Earlier(parents, n, j))
  <1> DEFINE K == Kids(parents, n, i)
             E(j) == Earlier(parents, n, j)
  <1>1. IsFiniteSet(1 .. n - 1) /\ Cardinality(1 .. n - 1) = n - 1
    <2>1. 1 \in Int /\ n - 1 \in Int
      OBVIOUS
    <2>2. /\ IsFiniteSet(1 .. n - 1)
          /\ Cardinality(1 .. n - 1) = IF 1 > n - 1 THEN 0 ELSE (n - 1) - 1 + 1
      BY <2>1, FS_Interval
    <2> QED BY <2>2
  <1>2. K \in SUBSET (1 .. n - 1) /\ \A j : E(j) \in SUBSET (1 .. n - 1)
    BY DEF Kids, Earlier
  <1>3. /\ IsFiniteSet(K) /\ Cardinality(K) \in Nat
        /\ \A j : /\ IsFiniteSet(E(j)) /\ Cardinality(E(j)) \in Nat
                  /\ Cardinality(E(j)) <= Cardinality(1 .. n - 1)
    <2> HIDE DEF K, E
    <2> QED BY <1>1, <1>2, FS_Subset, FS_CardinalityType
  <1>4. \A c \in 1 .. n - 1 : parents[c] < i + 1 <=> parents[c] < i \/ parents[c] = i
    OBVIOUS
  <1>5. E(i + 1) = E(i) \cup K /\ E(i) \cap K = {}
    <2>1. \A c \in 1 .. n - 1 : ~(parents[c] < i /\ parents[c] = i)
      OBVIOUS
    <2> QED BY <1>4, <2>1 DEF Kids, Earlier
  <1>6. Cardinality(E(i + 1)) = Cardinality(E(i)) + Cardinality(K)
    <2> HIDE DEF K, E
    <2>1. Cardinality(E(i) \cup K) = Cardinality(E(i)) + Cardinality(K) - Cardinality(E(i) \cap K)
      BY <1>3, FS_Union
    <2>2. Cardinality(E(i) \cap K) = 0
      BY <1>5, FS_EmptySet
    <2>3. Cardinality(E(i + 1)) = Cardinality(E(i) \cup K)
      BY <1>5
    <2>4. Cardinality(E(i)) \in Nat /\ Cardinality(K) \in Nat
      BY <1>3
    <2> QED BY <2>1, <2>2, <2>3, <2>4
  <1>7. ASSUME NEW j \in Nat, i <= j PROVE Cardinality(E(i)) <= Cardinality(E(j))
    <2>1. \A c \in 1 .. n - 1 : parents[c] < i => parents[c] < j
      BY <1>7
    <2>2. E(i) \in SUBSET E(j)
      BY <2>1 DEF Earlier
    <2> HIDE DEF E
    <2> QED BY <1>3, <2>2, FS_Subset
  <1>8. K \in SUBSET (0 .. n - 1)
    BY <1>2
  <1> QED BY <1>1, <1>3, <1>6, <1>7, <1>8

(* The prefix sums count the nodes filed before a node's children.         *)
LEMMA OffsetsCount ==
  ASSUME NEW n \in Nat \ {0}, NEW parents, \A c \in 1 .. n - 1 : parents[c] \in 0 .. n - 1
  PROVE  /\ MakeChildLayout(parents, n).counts =
              [i \in 0 .. n - 1 |-> Cardinality(Kids(parents, n, i))]
         /\ MakeChildLayout(parents, n).offsets =
              [i \in 0 .. n - 1 |-> Cardinality(Earlier(parents, n, i))]
  <1> DEFINE counts == [i \in 0 .. n - 1 |-> Cardinality({c \in 1 .. n - 1 : parents[c] = i})]
             Sums(g) == [i \in 0 .. n - 1 |-> IF i = 0 THEN 0 ELSE g[i - 1] + counts[i - 1]]
             f == [i \in 0 .. n - 1 |-> Cardinality(Earlier(parents, n, i))]
             offsets == CHOOSE g : g = Sums(g)
  <1>0. /\ MakeChildLayout(parents, n).counts = counts
        /\ MakeChildLayout(parents, n).offsets = offsets
    BY DEF MakeChildLayout
  <1>1. counts = [i \in 0 .. n - 1 |-> Cardinality(Kids(parents, n, i))]
    BY DEF Kids
  <1>2. Cardinality(Earlier(parents, n, 0)) = 0
    <2>1. \A c \in 1 .. n - 1 : ~(parents[c] < 0)
      OBVIOUS
    <2>2. Earlier(parents, n, 0) = {}
      BY <2>1 DEF Earlier
    <2> QED BY <2>2, FS_EmptySet
  <1>3. ASSUME NEW i \in 0 .. n - 1, i # 0
        PROVE  f[i] = f[i - 1] + counts[i - 1]
    <2>1. i - 1 \in Nat /\ i - 1 \in 0 .. n - 1 /\ (i - 1) + 1 = i
      BY <1>3
    <2>2. Cardinality(Earlier(parents, n, (i - 1) + 1)) =
            Cardinality(Earlier(parents, n, i - 1)) + Cardinality(Kids(parents, n, i - 1))
      BY <2>1, KidsAreFiled
    <2> HIDE DEF counts
    <2> QED BY <1>1, <2>1, <2>2
  <1>4. f = Sums(f)
    <2>1. \A i \in 0 .. n - 1 : f[i] = IF i = 0 THEN 0 ELSE f[i - 1] + counts[i - 1]
      <3> HIDE DEF counts
      <3>1. f[0] = 0
        BY <1>2
      <3> HIDE DEF f
      <3> QED BY <1>3, <3>1
    <2>2. f = [i \in 0 .. n - 1 |-> f[i]]
      OBVIOUS
    <2> HIDE DEF f, counts
    <2> QED BY <2>1, <2>2
  <1>5. offsets = Sums(offsets)
    <2> HIDE DEF f, Sums
    <2> QED BY <1>4
  <1>6. \A i \in 0 .. n - 1 : offsets[i] = f[i]
    <2> DEFINE S == {i \in 0 .. n - 1 : offsets[i] = f[i]}
    <2> HIDE DEF f, offsets, counts
    <2>0. /\ \A i \in 0 .. n - 1 : offsets[i] = IF i = 0 THEN 0 ELSE offsets[i - 1] + counts[i - 1]
          /\ \A i \in 0 .. n - 1 : f[i] = IF i = 0 THEN 0 ELSE f[i - 1] + counts[i - 1]
      BY <1>4, <1>5
    <2>1. ASSUME NEW k \in 0 .. n - 1, \A j \in 0 .. k - 1 : j \in S PROVE k \in S
      <3>1. k # 0 => k - 1 \in 0 .. k - 1 /\ k - 1 \in 0 .. n - 1
        OBVIOUS
      <3>2. k # 0 => offsets[k - 1] = f[k - 1]
        BY <2>1, <3>1
      <3> QED BY <2>0, <3>2
    <2>2. n \in Nat
      OBVIOUS
    <2> HIDE DEF S
    <2>3. \A k \in 0 .. n - 1 : k \in S
      BY <2>1, <2>2, UpTo
    <2> USE DEF S
    <2> QED BY <2>3
  <1>7. offsets = f
    <2>1. f = [i \in 0 .. n - 1 |-> f[i]]
      OBVIOUS
    <2>2. offsets = [i \in 0 .. n - 1 |-> offsets[i]]
      <3> HIDE DEF offsets, counts
      <3> QED BY <1>5
    <2> HIDE DEF offsets, f
    <2> QED BY <1>6, <2>1, <2>2
  <1> HIDE DEF offsets, counts
  <1> QED BY <1>0, <1>1, <1>7

(* The fill loop writes every child into the range of its parent, behind   *)
(* the siblings that were recorded before it.                              *)
LEMMA ChildrenAreFiled ==
  ASSUME NEW n \in Nat \ {0}, NEW parents, \A c \in 1 .. n - 1 : parents[c] \in 0 .. n - 1,
         NEW child \in 1 .. n - 1
  PROVE  MakeChildLayout(parents, n).indices
           [Cardinality(Earlier(parents, n, parents[child]))
              + Cardinality({d \in Kids(parents, n, parents[child]) : d < child})] = child
  <1> DEFINE kids == MakeChildLayout(parents, n)
             E(i) == Earlier(parents, n, i)
             K(i) == Kids(parents, n, i)
             Front(c) == {d \in K(parents[c]) : d < c}
             place(c) == Cardinality(E(parents[c])) + Cardinality(Front(c))
             position(c) == kids.offsets[parents[c]]
                              + Cardinality({d \in 1 .. c - 1 : parents[d] = parents[c]})
  <1>1. kids.indices = [k \in 0 .. n - 2 |-> CHOOSE c \in 1 .. n - 1 : position(c) = k]
    BY DEF MakeChildLayout
  <1>2. \A c \in 1 .. n - 1 : position(c) = place(c)
    <2>1. TAKE c \in 1 .. n - 1
    <2>2. kids.offsets[parents[c]] = Cardinality(E(parents[c]))
      <3>1. kids.offsets = [i \in 0 .. n - 1 |-> Cardinality(E(i))]
        BY OffsetsCount
      <3>2. parents[c] \in 0 .. n - 1
        OBVIOUS
      <3> HIDE DEF kids, E
      <3> QED BY <3>1, <3>2
    <2>3. {d \in 1 .. c - 1 : parents[d] = parents[c]} = Front(c)
      <3>1. \A d : d \in 1 .. c - 1 <=> d \in 1 .. n - 1 /\ d < c
        OBVIOUS
      <3> QED BY <3>1 DEF Kids
    <2> HIDE DEF kids, Front, E
    <2> QED BY <2>2, <2>3
  <1>3. \A i \in 0 .. n - 1 :
          /\ Cardinality(E(i)) \in Nat /\ Cardinality(K(i)) \in Nat
          /\ Cardinality(E(i + 1)) = Cardinality(E(i)) + Cardinality(K(i))
          /\ Cardinality(E(i + 1)) <= n - 1
          /\ \A j \in 0 .. n - 1 : i < j => Cardinality(E(i + 1)) <= Cardinality(E(j))
    <2>1. TAKE i \in 0 .. n - 1
    <2>2. /\ i \in Nat /\ i + 1 \in Nat
          /\ \A j \in 0 .. n - 1 : i < j => j \in Nat /\ i + 1 <= j
      OBVIOUS
    <2>3. /\ Cardinality(E(i)) \in Nat /\ Cardinality(K(i)) \in Nat
          /\ Cardinality(E(i + 1)) = Cardinality(E(i)) + Cardinality(K(i))
      BY <2>2, KidsAreFiled
    <2>4. /\ Cardinality(E(i + 1)) <= n - 1
          /\ \A j \in Nat : i + 1 <= j => Cardinality(E(i + 1)) <= Cardinality(E(j))
      BY <2>2, KidsAreFiled
    <2> HIDE DEF E, K
    <2> QED BY <2>2, <2>3, <2>4
  <1>4. \A c \in 1 .. n - 1 :
          /\ Cardinality(Front(c)) \in Nat /\ Cardinality(Front(c)) < Cardinality(K(parents[c]))
          /\ \A e \in 1 .. n - 1 : parents[c] = parents[e] /\ c < e =>
               Cardinality(Front(c)) < Cardinality(Front(e))
    <2>1. TAKE c \in 1 .. n - 1
    <2>2. /\ K(parents[c]) \in SUBSET (0 .. n - 1) /\ n \in Nat /\ 0 \in Nat
          /\ c \in K(parents[c])
      BY DEF Kids
    <2>3. /\ Cardinality(Front(c)) \in Nat
          /\ Cardinality(Front(c)) < Cardinality(K(parents[c]))
          /\ \A e \in K(parents[c]) : c < e =>
               Cardinality(Front(c)) < Cardinality({d \in K(parents[c]) : d < e})
      <3> HIDE DEF K
      <3> QED BY <2>2, Ranks
    <2>4. \A e \in 1 .. n - 1 : parents[c] = parents[e] =>
            e \in K(parents[c]) /\ Front(e) = {d \in K(parents[c]) : d < e}
      BY DEF Kids
    <2> HIDE DEF K, Front
    <2> QED BY <2>3, <2>4
  <1> HIDE DEF kids, E, K, Front, position
  <1>5. ASSUME NEW c \in 1 .. n - 1, NEW e \in 1 .. n - 1, c # e
        PROVE  place(c) # place(e)
    <2>1. ASSUME NEW b \in 1 .. n - 1, NEW d \in 1 .. n - 1,
                 parents[b] < parents[d] \/ (parents[b] = parents[d] /\ b < d)
          PROVE  place(b) # place(d)
      <3> DEFINE i == parents[b] j == parents[d]
      <3>1. i \in 0 .. n - 1 /\ j \in 0 .. n - 1
        OBVIOUS
      <3>2. /\ Cardinality(Front(b)) \in Nat /\ Cardinality(Front(d)) \in Nat
            /\ Cardinality(Front(b)) < Cardinality(K(i))
            /\ Cardinality(E(i)) \in Nat /\ Cardinality(E(j)) \in Nat /\ Cardinality(K(i)) \in Nat
            /\ Cardinality(E(i + 1)) = Cardinality(E(i)) + Cardinality(K(i))
        BY <1>3, <1>4, <3>1
      <3>3. CASE i < j
        <4>1. Cardinality(E(i + 1)) <= Cardinality(E(j))
          BY <1>3, <3>1, <3>3
        <4> QED BY <3>2, <4>1
      <3>4. CASE i = j /\ b < d
        <4>1. Cardinality(Front(b)) < Cardinality(Front(d))
          BY <1>4, <3>4
        <4> QED BY <3>2, <3>4, <4>1
      <3> QED BY <2>1, <3>3, <3>4
    <2>2. \/ parents[c] < parents[e] \/ (parents[c] = parents[e] /\ c < e)
          \/ parents[e] < parents[c] \/ (parents[e] = parents[c] /\ e < c)
      BY <1>5
    <2> HIDE DEF place
    <2> QED BY <2>1, <2>2
  <1>6. place(child) \in 0 .. n - 2
    <2>1. parents[child] \in 0 .. n - 1
      OBVIOUS
    <2>2. PICK e \in Nat, k \in Nat, f \in Nat :
            /\ e = Cardinality(E(parents[child])) /\ k = Cardinality(K(parents[child]))
            /\ f = Cardinality(Front(child))
      BY <1>3, <1>4, <2>1
    <2>3. f < k /\ e + k <= n - 1
      BY <1>3, <1>4, <2>1, <2>2
    <2> QED BY <2>2, <2>3
  <1>7. kids.indices[place(child)] = CHOOSE c \in 1 .. n - 1 : place(c) = place(child)
    <2>1. kids.indices[place(child)] = CHOOSE c \in 1 .. n - 1 : position(c) = place(child)
      <3> HIDE DEF place
      <3> QED BY <1>1, <1>6
    <2>2. \A c : c \in 1 .. n - 1 /\ position(c) = place(child)
                   <=> c \in 1 .. n - 1 /\ place(c) = place(child)
      BY <1>2
    <2> HIDE DEF place
    <2> QED BY <2>1, <2>2
  <1>8. (CHOOSE c \in 1 .. n - 1 : place(c) = place(child)) = child
    <2> HIDE DEF place
    <2> QED BY <1>5
  <1> QED BY <1>7, <1>8 DEF kids, E, K, Front

-------------------------------------------------------------------------------
(* The compiled tree.                                                      *)

TreeTables(p) ==
  /\ Climbs(p.level, p.n)
  /\ p.max_level = MaxLevel(p.level)
  /\ p.parent = MakeParentIndexArray(p.level, p.n)
  /\ p.child_counts = MakeChildLayout(p.parent, p.n).counts
  /\ p.child_offsets = MakeChildLayout(p.parent, p.n).offsets
  /\ p.child_indices = MakeChildLayout(p.parent, p.n).indices

(* What ParentIsFound says of the tables.                                  *)
LEMMA ParentsOfATree ==
  ASSUME NEW p, TreeTables(p)
  PROVE  /\ p.n \in Nat \ {0}
         /\ 0 \in NodesOf(p)
         /\ \A i \in NodesOf(p) : p.level[i] \in Nat
         /\ p.level[0] = 0
         /\ p.parent[0] = p.n
         /\ p.parent \in [NodesOf(p) -> 0 .. p.n]
         /\ \A i \in NodesOf(p) : p.parent[i] = p.n <=> i = 0
         /\ \A i \in 1 .. p.n - 1 :
              /\ i \in NodesOf(p)
              /\ p.parent[i] \in 0 .. p.n - 1 /\ p.parent[i] \in NodesOf(p) /\ p.parent[i] < i
              /\ p.level[p.parent[i]] = p.level[i] - 1
              /\ \A c \in NodesOf(p) :
                   c < i /\ p.level[c] = p.level[i] - 1 => c <= p.parent[i]
         /\ \A i, j \in NodesOf(p) :
              p.parent[j] < i /\ i < j => p.parent[i] # p.n /\ p.parent[j] <= p.parent[i]
  <1>0. PICK n, levels, parents : n = p.n /\ levels = p.level /\ parents = p.parent
    OBVIOUS
  <1>1. Climbs(levels, n) /\ parents = MakeParentIndexArray(levels, n)
    BY <1>0 DEF TreeTables
  <1>2. /\ n \in Nat \ {0} /\ \A i \in 0 .. n - 1 : levels[i] \in Nat
        /\ levels[0] = 0 /\ 0 \in 0 .. n - 1
        /\ \A i \in 1 .. n - 1 : i \in 0 .. n - 1
    BY <1>1 DEF Climbs
  <1>3. /\ parents[0] = n
        /\ parents \in [0 .. n - 1 -> 0 .. n]
        /\ \A i \in 1 .. n - 1 :
             /\ parents[i] \in 0 .. n - 1 /\ parents[i] < i
             /\ levels[parents[i]] = levels[i] - 1
             /\ \A c \in 0 .. n - 1 :
                  c < i /\ levels[c] = levels[i] - 1 => c <= parents[i]
    BY <1>1, ParentIsFound
  <1>4. \A i, j \in 0 .. n - 1 :
          parents[j] < i /\ i < j => parents[i] # n /\ parents[j] <= parents[i]
    BY <1>1, NodesArePreorder
  <1>5. \A i \in 0 .. n - 1 : parents[i] = n <=> i = 0
    <2>1. \A i \in 0 .. n - 1 : i # 0 => i \in 1 .. n - 1
      BY <1>2
    <2>2. \A i \in 1 .. n - 1 : parents[i] # n
      BY <1>2, <1>3
    <2> QED BY <1>3, <2>1, <2>2
  <1> QED BY <1>0, <1>2, <1>3, <1>4, <1>5 DEF NodesOf

(* A node's child range lists its children in recording order.             *)
LEMMA ChildrenOfANode ==
  ASSUME NEW p, TreeTables(p), NEW i \in NodesOf(p)
  PROVE  /\ p.child_counts[i] = Cardinality(Kids(p.parent, p.n, i))
         /\ p.child_counts[i] \in Nat
         /\ \A ord \in 0 .. p.child_counts[i] - 1 :
              /\ ChildAt(p, i, ord) \in Kids(p.parent, p.n, i)
              /\ Cardinality({d \in Kids(p.parent, p.n, i) : d < ChildAt(p, i, ord)}) = ord
         /\ \A c \in Kids(p.parent, p.n, i) : \E ord \in 0 .. p.child_counts[i] - 1 :
              c = ChildAt(p, i, ord)
         /\ \A ord \in 0 .. p.child_counts[i] - 1 : \A later \in 0 .. p.child_counts[i] - 1 :
              ord < later => ChildAt(p, i, ord) < ChildAt(p, i, later)
  <1>0. PICK n, parents : n = p.n /\ parents = p.parent
    OBVIOUS
  <1>1. n \in Nat \ {0} /\ i \in Nat /\ i \in 0 .. n - 1 /\ n \in Nat
    BY <1>0, ParentsOfATree DEF NodesOf
  <1>2. \A c \in 1 .. n - 1 : parents[c] \in 0 .. n - 1
    BY <1>0, ParentsOfATree
  <1> DEFINE K == Kids(parents, n, i)
             L == MakeChildLayout(parents, n)
             Front(c) == {d \in K : d < c}
             at(ord) == ChildAt(p, i, ord)
  <1>3. /\ K \in SUBSET (0 .. n - 1) /\ IsFiniteSet(K) /\ Cardinality(K) \in Nat
        /\ Cardinality(Earlier(parents, n, i)) \in Nat
    BY <1>1, <1>2, KidsAreFiled
  <1>4. /\ L.counts = [j \in 0 .. n - 1 |-> Cardinality(Kids(parents, n, j))]
        /\ L.offsets = [j \in 0 .. n - 1 |-> Cardinality(Earlier(parents, n, j))]
    BY <1>1, <1>2, OffsetsCount
  <1>5. /\ p.child_counts = L.counts /\ p.child_offsets = L.offsets
        /\ p.child_indices = L.indices
    BY <1>0 DEF TreeTables
  <1>6. /\ p.child_counts[i] = Cardinality(K)
        /\ p.child_offsets[i] = Cardinality(Earlier(parents, n, i))
    <2> HIDE DEF L
    <2> QED BY <1>1, <1>4, <1>5
  <1>7. \A c \in K : at(Cardinality(Front(c))) = c
    <2>1. TAKE c \in K
    <2>2. c \in 1 .. n - 1 /\ parents[c] = i
      BY DEF Kids
    <2>3. L.indices[Cardinality(Earlier(parents, n, i)) + Cardinality(Front(c))] = c
      BY <1>1, <1>2, <2>2, ChildrenAreFiled
    <2> HIDE DEF L, Front
    <2> QED BY <1>5, <1>6, <2>3 DEF ChildAt
  <1>8. /\ \A c \in K : Cardinality(Front(c)) \in Nat /\ Cardinality(Front(c)) < Cardinality(K)
        /\ \A b, c \in K : b < c => Cardinality(Front(b)) < Cardinality(Front(c))
        /\ \A r \in Nat : r < Cardinality(K) => \E c \in K : Cardinality(Front(c)) = r
    <2>1. 0 \in Nat
      OBVIOUS
    <2> HIDE DEF K
    <2>2. \A c \in K : Cardinality(Front(c)) \in Nat /\ Cardinality(Front(c)) < Cardinality(K)
      BY <1>1, <1>3, <2>1, Ranks
    <2>3. \A b, c \in K : b < c => Cardinality(Front(b)) < Cardinality(Front(c))
      BY <1>1, <1>3, <2>1, Ranks
    <2>4. \A r \in Nat : r < Cardinality(K) => \E c \in K : Cardinality(Front(c)) = r
      BY <1>1, <1>3, Ranks
    <2> QED BY <2>2, <2>3, <2>4
  <1>9. \A ord \in 0 .. Cardinality(K) - 1 : at(ord) \in K /\ Cardinality(Front(at(ord))) = ord
    <2>1. TAKE ord \in 0 .. Cardinality(K) - 1
    <2>2. ord \in Nat /\ ord < Cardinality(K)
      BY <1>3
    <2>3. PICK c \in K : Cardinality(Front(c)) = ord
      BY <1>8, <2>2
    <2>4. at(ord) = c
      BY <1>7, <2>3
    <2> HIDE DEF at, Front, K
    <2> QED BY <2>3, <2>4
  <1>10. \A c \in K : \E ord \in 0 .. Cardinality(K) - 1 : c = at(ord)
    <2>1. TAKE c \in K
    <2>2. Cardinality(Front(c)) \in 0 .. Cardinality(K) - 1
      BY <1>3, <1>8
    <2> HIDE DEF at, Front, K
    <2> QED BY <1>7, <2>2
  <1>11. \A ord, later \in 0 .. Cardinality(K) - 1 : ord < later => at(ord) < at(later)
    <2>1. TAKE ord, later \in 0 .. Cardinality(K) - 1
    <2>2. /\ at(ord) \in K /\ Cardinality(Front(at(ord))) = ord
          /\ at(later) \in K /\ Cardinality(Front(at(later))) = later
      BY <1>9
    <2>3. PICK b \in K, c \in K : b = at(ord) /\ c = at(later)
      BY <2>2
    <2>4. b \in Nat /\ c \in Nat
      BY <1>3
    <2>5. ASSUME ord < later, ~(b < c) PROVE FALSE
      <3>1. Cardinality(Front(c)) <= Cardinality(Front(b))
        <4> HIDE DEF Front, K
        <4>0. Cardinality(Front(b)) \in Nat /\ Cardinality(Front(c)) \in Nat
          BY <1>8
        <4>1. CASE c < b
          <5>1. Cardinality(Front(c)) < Cardinality(Front(b))
            BY <1>8, <4>1
          <5> QED BY <4>0, <5>1
        <4>2. CASE c = b
          BY <4>0, <4>2
        <4> QED BY <2>4, <2>5, <4>1, <4>2
      <3>2. Cardinality(Front(b)) = ord /\ Cardinality(Front(c)) = later
        BY <2>2, <2>3
      <3> QED BY <1>3, <2>5, <3>1, <3>2
    <2> QED BY <2>3, <2>5
  <1> HIDE DEF K, at, Front
  <1> QED BY <1>0, <1>3, <1>6, <1>9, <1>10, <1>11 DEF K, at, Front

LEMMA ChildrenAreTheKids ==
  ASSUME NEW p, TreeTables(p), NEW i \in NodesOf(p)
  PROVE  /\ Children(p, i) = {c \in NodesOf(p) : p.parent[c] = i}
         /\ Children(p, i) = Kids(p.parent, p.n, i)
         /\ p.child_counts[i] = Cardinality(Children(p, i))
         /\ IsFiniteSet(Children(p, i))
  <1>1. /\ p.n \in Nat \ {0} /\ p.parent[0] = p.n /\ i \in 0 .. p.n - 1 /\ i # p.n
        /\ \A c \in NodesOf(p) : p.parent[c] = p.n <=> c = 0
    BY ParentsOfATree DEF NodesOf
  <1>2. /\ \A ord \in 0 .. p.child_counts[i] - 1 : ChildAt(p, i, ord) \in Kids(p.parent, p.n, i)
        /\ \A c \in Kids(p.parent, p.n, i) : \E ord \in 0 .. p.child_counts[i] - 1 :
             c = ChildAt(p, i, ord)
        /\ p.child_counts[i] = Cardinality(Kids(p.parent, p.n, i))
    BY ChildrenOfANode
  <1>3. Children(p, i) = Kids(p.parent, p.n, i)
    BY <1>2 DEF Children
  <1>4. Kids(p.parent, p.n, i) = {c \in NodesOf(p) : p.parent[c] = i}
    <2>1. \A c : c \in 1 .. p.n - 1 <=> c \in 0 .. p.n - 1 /\ c # 0
      BY <1>1
    <2> QED BY <1>1, <2>1 DEF Kids, NodesOf
  <1>5. IsFiniteSet(Children(p, i))
    <2>1. 1 \in Int /\ p.n - 1 \in Int
      BY <1>1
    <2>2. IsFiniteSet(1 .. p.n - 1)
      BY <2>1, FS_Interval
    <2>3. Kids(p.parent, p.n, i) \in SUBSET (1 .. p.n - 1)
      BY DEF Kids
    <2> QED BY <1>3, <2>2, <2>3, FS_Subset
  <1> QED BY <1>2, <1>3, <1>4, <1>5

(* No level exceeds the number of nodes before it; the largest bounds all. *)
LEMMA LevelsAreBounded ==
  ASSUME NEW p, TreeTables(p)
  PROVE  p.max_level \in Nat /\ p.level \in [NodesOf(p) -> 0 .. p.max_level]
  <1>0. PICK n, levels : n = p.n /\ levels = p.level
    OBVIOUS
  <1>1. n \in Nat \ {0} /\ n \in Nat /\ levels \in [0 .. n - 1 -> Nat] /\ Climbs(levels, n)
    BY <1>0 DEF TreeTables, Climbs
  <1> DEFINE S == {k \in 0 .. n - 1 : levels[k] <= k}
             T == {levels[i] : i \in DOMAIN levels}
  <1>2. ASSUME NEW k \in 0 .. n - 1, \A j \in 0 .. k - 1 : j \in S PROVE k \in S
    <2>1. CASE k = 0
      BY <1>1, <2>1 DEF Climbs
    <2>2. CASE k # 0
      <3>1. k \in 1 .. n - 1 /\ k - 1 \in 0 .. k - 1 /\ k - 1 \in 0 .. n - 1 /\ k \in Nat
        BY <1>1, <2>2
      <3>2. levels[k - 1] <= k - 1
        BY <1>2, <3>1
      <3>3. levels[k] <= levels[k - 1] + 1
        BY <1>1, <3>1 DEF Climbs
      <3>4. PICK x \in Nat, y \in Nat : x = levels[k - 1] /\ y = levels[k]
        BY <1>1, <3>1
      <3> QED BY <3>1, <3>2, <3>3, <3>4
    <2> QED BY <2>1, <2>2
  <1>3. \A k \in 0 .. n - 1 : k \in S
    <2> HIDE DEF S
    <2> QED BY <1>1, <1>2, UpTo
  <1>4. T \in SUBSET (0 .. n - 1) /\ T # {} /\ \A i \in 0 .. n - 1 : levels[i] \in T
    <2>1. \A i \in 0 .. n - 1 : levels[i] \in 0 .. n - 1
      <3>1. TAKE i \in 0 .. n - 1
      <3>2. levels[i] <= i /\ levels[i] \in Nat
        BY <1>1, <1>3
      <3> QED BY <1>1, <3>2
    <2>2. DOMAIN levels = 0 .. n - 1 /\ 0 \in 0 .. n - 1
      BY <1>1
    <2> HIDE DEF S
    <2> QED BY <2>1, <2>2
  <1>5. Largest(T) \in T /\ \A t \in T : t <= Largest(T)
    <2> HIDE DEF T
    <2> QED BY <1>1, <1>4, LargestNumber
  <1>6. p.max_level = Largest(T)
    BY <1>0 DEF TreeTables, MaxLevel
  <1>7. p.max_level \in Nat /\ \A i \in 0 .. n - 1 : levels[i] \in 0 .. p.max_level
    <2> HIDE DEF T, S
    <2>0. \A t \in T : t \in Nat
      BY <1>1, <1>4
    <2>1. p.max_level \in Nat
      BY <2>0, <1>5, <1>6
    <2>2. \A i \in 0 .. n - 1 : levels[i] \in Nat /\ levels[i] <= p.max_level
      BY <1>1, <1>4, <1>5, <1>6
    <2> QED BY <2>1, <2>2
  <1> QED BY <1>0, <1>1, <1>7 DEF NodesOf

LEMMA TreeIsWellFormed ==
  ASSUME NEW p, TreeTables(p)
  PROVE  TreeWellFormed(p)
  <1>1. /\ p.n \in Nat \ {0} /\ p.level[0] = 0
        /\ p.parent \in [NodesOf(p) -> 0 .. p.n]
        /\ \A i \in NodesOf(p) : p.level[i] \in Nat
        /\ \A i \in NodesOf(p) : p.parent[i] = p.n <=> i = 0
        /\ \A i, j \in NodesOf(p) :
             p.parent[j] < i /\ i < j => p.parent[i] # p.n /\ p.parent[j] <= p.parent[i]
    BY ParentsOfATree
  <1>2. \A i \in 1 .. p.n - 1 : /\ p.parent[i] < i /\ p.level[p.parent[i]] = p.level[i] - 1
                                /\ i \in NodesOf(p) /\ p.parent[i] \in NodesOf(p)
    BY ParentsOfATree
  <1>3. p.max_level \in Nat /\ p.level \in [NodesOf(p) -> 0 .. p.max_level]
    BY LevelsAreBounded
  <1>4. \A i \in NodesOf(p) \ {0} : p.parent[i] < i /\ i \in Children(p, p.parent[i])
    <2>1. ASSUME NEW i \in NodesOf(p) \ {0}
          PROVE  p.parent[i] < i /\ i \in Children(p, p.parent[i])
      <3>1. i \in 1 .. p.n - 1
        BY <1>1 DEF NodesOf
      <3>2. p.parent[i] < i /\ p.parent[i] \in NodesOf(p) /\ i \in NodesOf(p)
        BY <1>2, <3>1
      <3> QED BY <3>2, ChildrenAreTheKids
    <2> QED BY <2>1
  <1>5. p.child_counts \in [NodesOf(p) -> Nat]
    <2>1. \A c \in 1 .. p.n - 1 : p.parent[c] \in 0 .. p.n - 1
      BY ParentsOfATree
    <2>2. p.child_counts = [i \in 0 .. p.n - 1 |-> Cardinality(Kids(p.parent, p.n, i))]
      BY <1>1, <2>1, OffsetsCount DEF TreeTables
    <2>3. \A i \in NodesOf(p) : p.child_counts[i] \in Nat
      BY ChildrenOfANode
    <2> QED BY <2>2, <2>3 DEF NodesOf
  <1>6. ASSUME NEW i \in NodesOf(p), NEW ord \in 0 .. p.child_counts[i] - 1
        PROVE  /\ ChildAt(p, i, ord) \in NodesOf(p)
               /\ p.parent[ChildAt(p, i, ord)] = i
               /\ p.level[ChildAt(p, i, ord)] = p.level[i] + 1
               /\ \A later \in ord + 1 .. p.child_counts[i] - 1 :
                    ChildAt(p, i, ord) < ChildAt(p, i, later)
    <2>1. /\ ChildAt(p, i, ord) \in Kids(p.parent, p.n, i)
          /\ \A later \in 0 .. p.child_counts[i] - 1 :
               ord < later => ChildAt(p, i, ord) < ChildAt(p, i, later)
      BY ChildrenOfANode
    <2>2. PICK c \in 1 .. p.n - 1 : c = ChildAt(p, i, ord) /\ p.parent[c] = i
      BY <2>1 DEF Kids
    <2>3. c \in NodesOf(p) /\ p.level[i] = p.level[c] - 1
      BY <1>2, <2>2
    <2>4. p.level[c] = p.level[i] + 1
      <3>1. PICK x \in Nat, y \in Nat : x = p.level[c] /\ y = p.level[i]
        BY <1>1, <2>3
      <3> QED BY <2>3, <3>1
    <2>5. \A later \in ord + 1 .. p.child_counts[i] - 1 :
            later \in 0 .. p.child_counts[i] - 1 /\ ord < later
      BY <1>5
    <2> QED BY <2>1, <2>2, <2>3, <2>4, <2>5
  <1> QED BY <1>1, <1>3, <1>4, <1>5, <1>6 DEF TreeWellFormed

-------------------------------------------------------------------------------
(* Root paths and payload depths, by recursion along the parents.          *)

LEMMA ParentsAreEarlier ==
  ASSUME NEW p, TreeTables(p)
  PROVE  /\ p.n \in Nat
         /\ \A i \in 0 .. p.n - 1 : p.parent[i] = p.n \/ p.parent[i] \in 0 .. i - 1
  <1>1. /\ p.n \in Nat \ {0}
        /\ \A i \in NodesOf(p) : p.parent[i] = p.n <=> i = 0
        /\ \A i \in 1 .. p.n - 1 : p.parent[i] \in 0 .. p.n - 1 /\ p.parent[i] < i
    BY ParentsOfATree
  <1>2. \A i \in 0 .. p.n - 1 : i # 0 => i \in 1 .. p.n - 1
    BY <1>1
  <1> QED BY <1>1, <1>2 DEF NodesOf

LEMMA RootPaths ==
  ASSUME NEW p, TreeTables(p), NEW i \in NodesOf(p)
  PROVE  /\ RootPath(p, i) =
              {i} \cup (IF p.parent[i] = p.n THEN {} ELSE RootPath(p, p.parent[i]))
         /\ RootPath(p, i) \in SUBSET (0 .. i)
         /\ RootPath(p, i) \in SUBSET NodesOf(p)
         /\ i \in RootPath(p, i)
  <1>0. PICK n, from : n = p.n /\ from = p.parent
    OBVIOUS
  <1>1. n \in Nat /\ \A j \in 0 .. n - 1 : from[j] = n \/ from[j] \in 0 .. j - 1
    BY <1>0, ParentsAreEarlier
  <1> DEFINE N == 0 .. n - 1
             V == SUBSET N
             Paths(f) == [j \in N |-> {j} \cup (IF from[j] = n THEN {} ELSE f[from[j]])]
             start == [j \in N |-> {j}]
             step == [j \in N |-> [s \in V |-> {j} \cup s]]
             path == CHOOSE f : f = Paths(f)
  <1>2. start \in [N -> V] /\ step \in [N -> [V -> V]]
    OBVIOUS
  <1>3. PICK f \in [N -> V] :
          /\ \A j \in N : from[j] = n => f[j] = start[j]
          /\ \A j \in N : from[j] # n => f[j] = step[j][f[from[j]]]
    <2>1. Recursive(n, V, from, start, step)
      BY <1>1, <1>2 DEF Recursive
    <2> HIDE DEF start, step
    <2>2. PICK f : Solves(f, n, V, from, start, step)
      BY <2>1, Recursion
    <2> QED BY <2>2 DEF Solves
  <1>4. f = Paths(f)
    <2>1. \A j \in N : f[j] = {j} \cup (IF from[j] = n THEN {} ELSE f[from[j]])
      <3>1. TAKE j \in N
      <3>2. CASE from[j] = n
        BY <1>3, <3>2
      <3>3. CASE from[j] # n
        <4>1. from[j] \in N
          BY <1>1, <3>3
        <4>2. f[from[j]] \in V
          BY <4>1
        <4>3. f[j] = step[j][f[from[j]]]
          BY <1>3, <3>3
        <4> HIDE DEF V
        <4> QED BY <3>3, <4>2, <4>3
      <3> QED BY <3>2, <3>3
    <2> QED BY <2>1
  <1>5. path = Paths(path)
    <2> HIDE DEF Paths
    <2> QED BY <1>4
  <1>6. \A j \in N : RootPath(p, j) = path[j]
    BY <1>0 DEF RootPath, NodesOf
  <1>7. \A j \in N : path[j] = {j} \cup (IF from[j] = n THEN {} ELSE path[from[j]])
    <2> HIDE DEF path
    <2> QED BY <1>5
  <1> DEFINE S == {j \in N : path[j] \in SUBSET (0 .. j)}
  <1> HIDE DEF path
  <1>8. ASSUME NEW k \in 0 .. n - 1, \A j \in 0 .. k - 1 : j \in S PROVE k \in S
    <2>1. CASE from[k] = n
      BY <1>1, <1>7, <2>1
    <2>2. CASE from[k] # n
      <3>1. from[k] \in 0 .. k - 1
        BY <1>1, <2>2
      <3>2. path[from[k]] \in SUBSET (0 .. from[k])
        BY <1>8, <3>1
      <3>3. \A x \in 0 .. from[k] : x \in 0 .. k
        BY <1>1, <3>1
      <3> QED BY <1>1, <1>7, <2>2, <3>2, <3>3
    <2> QED BY <2>1, <2>2
  <1>9. \A k \in 0 .. n - 1 : k \in S
    <2> HIDE DEF S
    <2> QED BY <1>1, <1>8, UpTo
  <1>10. i \in N /\ 0 .. i \in SUBSET N
    BY <1>0, <1>1 DEF NodesOf
  <1>11. path[i] \in SUBSET (0 .. i) /\ path[i] \in SUBSET N
    BY <1>9, <1>10
  <1>12. from[i] # n => from[i] \in N
    BY <1>1, <1>10
  <1> HIDE DEF S
  <1> QED BY <1>0, <1>6, <1>7, <1>10, <1>11, <1>12 DEF NodesOf

LEMMA PayloadDepthsAlongPaths ==
  ASSUME NEW p, TreeTables(p), NEW i \in NodesOf(p)
  PROVE  /\ PayloadDepths(p)[i] =
              (IF p.parent[i] = p.n THEN 0 ELSE PayloadDepths(p)[p.parent[i]])
                + (IF PayloadNode(p, i) THEN 1 ELSE 0)
         /\ PayloadDepths(p)[i] \in Nat
         /\ PayloadDepths(p)[i] <= i + 1
  <1>0. PICK n, from : n = p.n /\ from = p.parent
    OBVIOUS
  <1>1. n \in Nat /\ \A j \in 0 .. n - 1 : from[j] = n \/ from[j] \in 0 .. j - 1
    BY <1>0, ParentsAreEarlier
  <1> DEFINE N == 0 .. n - 1
             own(j) == IF PayloadNode(p, j) THEN 1 ELSE 0
             Depths(f) == [j \in N |-> (IF from[j] = n THEN 0 ELSE f[from[j]]) + own(j)]
             start == [j \in N |-> own(j)]
             step == [j \in N |-> [d \in Nat |-> d + own(j)]]
             depth == PayloadDepths(p)
  <1>2. start \in [N -> Nat] /\ step \in [N -> [Nat -> Nat]]
    OBVIOUS
  <1>3. PICK f \in [N -> Nat] :
          /\ \A j \in N : from[j] = n => f[j] = start[j]
          /\ \A j \in N : from[j] # n => f[j] = step[j][f[from[j]]]
    <2>1. Recursive(n, Nat, from, start, step)
      BY <1>1, <1>2 DEF Recursive
    <2> HIDE DEF start, step
    <2>2. PICK f : Solves(f, n, Nat, from, start, step)
      BY <2>1, Recursion
    <2> QED BY <2>2 DEF Solves
  <1>4. f = Depths(f)
    <2>1. \A j \in N : f[j] = (IF from[j] = n THEN 0 ELSE f[from[j]]) + own(j)
      <3>1. TAKE j \in N
      <3>0. own(j) \in Nat /\ start[j] = own(j)
        OBVIOUS
      <3>2. CASE from[j] = n
        <4>1. f[j] = own(j)
          BY <1>3, <3>0, <3>2
        <4> HIDE DEF own
        <4> QED BY <3>0, <3>2, <4>1
      <3>3. CASE from[j] # n
        <4>1. from[j] \in N
          BY <1>1, <3>3
        <4>2. f[from[j]] \in Nat
          BY <4>1
        <4>3. f[j] = step[j][f[from[j]]]
          BY <1>3, <3>3
        <4> HIDE DEF own
        <4> QED BY <3>3, <4>2, <4>3
      <3> QED BY <3>2, <3>3
    <2> HIDE DEF own
    <2> QED BY <2>1
  <1>5. depth = CHOOSE g : g = Depths(g)
    BY <1>0 DEF PayloadDepths, NodesOf
  <1>6. depth = Depths(depth)
    <2> HIDE DEF Depths, depth
    <2> QED BY <1>4, <1>5
  <1> HIDE DEF depth
  <1>7. \A j \in N : depth[j] = (IF from[j] = n THEN 0 ELSE depth[from[j]]) + own(j)
    <2> HIDE DEF own
    <2> QED BY <1>6
  <1> DEFINE S == {j \in N : depth[j] \in Nat /\ depth[j] <= j + 1}
  <1>8. ASSUME NEW k \in 0 .. n - 1, \A j \in 0 .. k - 1 : j \in S PROVE k \in S
    <2>0. own(k) \in 0 .. 1 /\ k \in Nat
      OBVIOUS
    <2>1. CASE from[k] = n
      <3> HIDE DEF own
      <3> QED BY <1>7, <2>0, <2>1
    <2>2. CASE from[k] # n
      <3>1. from[k] \in 0 .. k - 1
        BY <1>1, <2>2
      <3>2. depth[from[k]] \in Nat /\ depth[from[k]] <= from[k] + 1
        BY <1>8, <3>1
      <3>3. depth[k] = depth[from[k]] + own(k)
        BY <1>7, <2>2
      <3> HIDE DEF own
      <3> QED BY <2>0, <3>1, <3>2, <3>3
    <2> QED BY <2>1, <2>2
  <1>9. \A k \in 0 .. n - 1 : k \in S
    <2> HIDE DEF S
    <2> QED BY <1>1, <1>8, UpTo
  <1>10. i \in N
    BY <1>0 DEF NodesOf
  <1>11. depth[i] \in Nat /\ depth[i] <= i + 1
    BY <1>9, <1>10
  <1> HIDE DEF S
  <1> QED BY <1>0, <1>7, <1>10, <1>11 DEF depth

-------------------------------------------------------------------------------
(* Slots.                                                                  *)

(* Payloads have slots below m, other nodes none, and no slot is unused.   *)
SlotsFilled(p, slot, m) ==
  /\ m \in Nat
  /\ \A i \in NodesOf(p) : PayloadNode(p, i) => slot[i] \in 0 .. m - 1
  /\ \A i \in NodesOf(p) : ~PayloadNode(p, i) => slot[i] = NoPhysicalSlot
  /\ \A s \in 0 .. m - 1 : \E i \in NodesOf(p) : PayloadNode(p, i) /\ slot[i] = s

LEMMA OneToOneSlots ==
  ASSUME NEW p, p.n \in Nat
  PROVE  /\ SlotsFilled(p, OneToOneIndices(p), PayloadNodeCount(p))
         /\ \A i, j \in NodesOf(p) :
              /\ PayloadNode(p, i) /\ PayloadNode(p, j)
              /\ OneToOneIndices(p)[i] = OneToOneIndices(p)[j]
              => i = j
  <1>0. PICK n \in Nat : n = p.n
    OBVIOUS
  <1> DEFINE P == {i \in NodesOf(p) : PayloadNode(p, i)}
             Front(i) == {j \in P : j < i}
             slot == OneToOneIndices(p)
  <1>1. P \in SUBSET (0 .. n - 1)
    BY <1>0 DEF NodesOf
  <1>2. PayloadNodeCount(p) = Cardinality(P)
    BY DEF PayloadNodeCount
  <1>3. \A i \in NodesOf(p) : slot[i] = IF i \in P THEN Cardinality(Front(i)) ELSE NoPhysicalSlot
    <2>1. TAKE i \in NodesOf(p)
    <2>2. \A j : j \in 0 .. i - 1 /\ PayloadNode(p, j) <=> j \in Front(i)
      BY <1>0 DEF NodesOf
    <2>3. {j \in 0 .. i - 1 : PayloadNode(p, j)} = Front(i)
      BY <2>2
    <2>4. slot[i] = IF PayloadNode(p, i)
                      THEN Cardinality({j \in 0 .. i - 1 : PayloadNode(p, j)})
                      ELSE NoPhysicalSlot
      BY DEF OneToOneIndices
    <2> QED BY <2>3, <2>4
  <1> HIDE DEF P, slot
  <1>4. /\ Cardinality(P) \in Nat
        /\ \A i \in P : Cardinality(Front(i)) \in Nat /\ Cardinality(Front(i)) < Cardinality(P)
    <2>1. 0 \in Nat
      OBVIOUS
    <2> QED BY <1>1, <2>1, Ranks
  <1>5. \A b, c \in P : b < c => Cardinality(Front(b)) < Cardinality(Front(c))
    <2>1. 0 \in Nat
      OBVIOUS
    <2> QED BY <1>1, <2>1, Ranks
  <1>6. \A r \in Nat : r < Cardinality(P) => \E c \in P : Cardinality(Front(c)) = r
    BY <1>1, Ranks
  <1>7. \A i : i \in P <=> i \in NodesOf(p) /\ PayloadNode(p, i)
    BY DEF P
  <1> HIDE DEF Front
  <1>8. \A i \in P : slot[i] = Cardinality(Front(i)) /\ slot[i] \in 0 .. Cardinality(P) - 1
    BY <1>3, <1>4, <1>7
  <1>9. ASSUME NEW s \in 0 .. Cardinality(P) - 1
        PROVE  \E i \in P : slot[i] = s
    <2>1. s \in Nat /\ s < Cardinality(P)
      BY <1>4
    <2> QED BY <1>6, <1>8, <2>1
  <1>10. ASSUME NEW i \in P, NEW j \in P, slot[i] = slot[j]
         PROVE  i = j
    <2>1. i \in Nat /\ j \in Nat
      BY <1>1
    <2>2. Cardinality(Front(i)) = Cardinality(Front(j)) /\ Cardinality(Front(i)) \in Nat
      BY <1>4, <1>8, <1>10
    <2>3. ~(i < j) /\ ~(j < i)
      BY <1>5, <2>2
    <2> QED BY <2>1, <2>3
  <1>11. SlotsFilled(p, slot, Cardinality(P))
    BY <1>3, <1>4, <1>7, <1>8, <1>9 DEF SlotsFilled
  <1> QED BY <1>2, <1>7, <1>10, <1>11 DEF slot

(* The deepest payload's depth is the number of compact slots, and every   *)
(* smaller depth occurs on the way to it.                                  *)
LEMMA CompactSlots ==
  ASSUME NEW p, TreeTables(p)
  PROVE  /\ SlotsFilled(p, CompactIndices(p), PhysicalSlotCount(p, "compact"))
         /\ \A i \in NodesOf(p) : PayloadNode(p, i) =>
              CompactIndices(p)[i] = PayloadDepths(p)[i] - 1
  <1>0. /\ p.n \in Nat \ {0} /\ p.n \in Nat
        /\ \A i \in NodesOf(p) : p.parent[i] # p.n => p.parent[i] \in NodesOf(p) /\ p.parent[i] < i
    <2>1. /\ p.n \in Nat \ {0}
          /\ \A i \in NodesOf(p) : p.parent[i] = p.n <=> i = 0
          /\ \A i \in 1 .. p.n - 1 : p.parent[i] \in NodesOf(p) /\ p.parent[i] < i
      BY ParentsOfATree
    <2>2. \A i \in NodesOf(p) : i # 0 => i \in 1 .. p.n - 1
      BY <2>1 DEF NodesOf
    <2> QED BY <2>1, <2>2
  <1> DEFINE depth == PayloadDepths(p)
             P == {i \in NodesOf(p) : PayloadNode(p, i)}
             D == {depth[i] : i \in P}
             Fits(m) == /\ \A i \in NodesOf(p) : PayloadNode(p, i) => depth[i] <= m
                        /\ m = 0 \/ \E i \in NodesOf(p) : PayloadNode(p, i) /\ depth[i] = m
             N == PhysicalSlotCount(p, "compact")
             slot == CompactIndices(p)
  <1>1. \A i \in NodesOf(p) :
          /\ depth[i] = (IF p.parent[i] = p.n THEN 0 ELSE depth[p.parent[i]])
                          + (IF PayloadNode(p, i) THEN 1 ELSE 0)
          /\ depth[i] \in Nat /\ depth[i] <= i + 1
    BY PayloadDepthsAlongPaths
  <1>2. N = CHOOSE m \in 0 .. p.n : Fits(m)
    BY DEF PhysicalSlotCount
  <1>3. \A i \in NodesOf(p) : slot[i] = IF PayloadNode(p, i) THEN depth[i] - 1 ELSE NoPhysicalSlot
    BY DEF CompactIndices
  <1> HIDE DEF depth, N, slot
  <1>4. \A i \in NodesOf(p) : depth[i] \in 0 .. (p.n + 1) - 1
    BY <1>0, <1>1 DEF NodesOf
  <1>5. \E m \in 0 .. p.n : Fits(m)
    <2>1. CASE P = {}
      BY <1>0, <2>1
    <2>2. CASE P # {}
      <3>1. D \in SUBSET (0 .. (p.n + 1) - 1) /\ D # {} /\ p.n + 1 \in Nat
        BY <1>0, <1>4, <2>2
      <3>2. Largest(D) \in D /\ \A k \in D : k <= Largest(D)
        <4> HIDE DEF D
        <4> QED BY <3>1, LargestNumber
      <3>3. Largest(D) \in 0 .. p.n
        <4>1. \A k \in D : k \in 0 .. p.n
          BY <1>0, <3>1
        <4> HIDE DEF D
        <4> QED BY <3>2, <4>1
      <3>4. \A i \in NodesOf(p) : PayloadNode(p, i) => depth[i] \in D
        OBVIOUS
      <3>5. PICK i \in NodesOf(p) : PayloadNode(p, i) /\ depth[i] = Largest(D)
        <4>1. \A k \in D : \E i \in NodesOf(p) : PayloadNode(p, i) /\ depth[i] = k
          OBVIOUS
        <4> HIDE DEF D
        <4> QED BY <3>2, <4>1
      <3>6. Fits(Largest(D))
        <4> HIDE DEF D
        <4> QED BY <3>2, <3>4, <3>5
      <3> QED BY <3>3, <3>6
    <2> QED BY <2>1, <2>2
  <1>6. N \in 0 .. p.n /\ Fits(N)
    <2> HIDE DEF Fits
    <2> QED BY <1>2, <1>5
  <1>7. N \in Nat
    BY <1>0, <1>6
  <1>8. ASSUME NEW i \in NodesOf(p), PayloadNode(p, i)
        PROVE  slot[i] \in 0 .. N - 1
    <2>1. p.parent[i] # p.n => depth[p.parent[i]] \in Nat
      BY <1>0, <1>1
    <2>2. depth[i] = (IF p.parent[i] = p.n THEN 0 ELSE depth[p.parent[i]]) + 1
      BY <1>1, <1>8
    <2>3. depth[i] \in Nat /\ depth[i] # 0
      BY <1>1, <2>1, <2>2
    <2>4. depth[i] <= N
      BY <1>6, <1>8
    <2> QED BY <1>3, <1>7, <1>8, <2>3, <2>4
  <1>9. ASSUME NEW s \in 0 .. N - 1
        PROVE  \E i \in NodesOf(p) : PayloadNode(p, i) /\ slot[i] = s
    <2> DEFINE Deep == {i \in NodesOf(p) : s < depth[i]}
    <2>1. PICK d \in NodesOf(p) : depth[d] = N
      BY <1>6, <1>7
    <2>2. d \in Deep /\ Deep \in SUBSET Nat
      BY <1>7, <2>1 DEF NodesOf
    <2>3. PICK i \in Deep : \A j \in Deep : i <= j
      BY <2>2, LeastNumber
    <2>4. i \in NodesOf(p) /\ i \in Nat /\ s < depth[i] /\ s \in Nat
      BY <1>7, <2>2, <2>3
    <2> DEFINE above == IF p.parent[i] = p.n THEN 0 ELSE depth[p.parent[i]]
    <2>5. above \in Nat /\ above <= s
      <3>1. CASE p.parent[i] = p.n
        BY <2>4, <3>1
      <3>2. CASE p.parent[i] # p.n
        <4>1. p.parent[i] \in NodesOf(p) /\ p.parent[i] < i
          BY <1>0, <2>4, <3>2
        <4>2. p.parent[i] \in Nat
          BY <4>1 DEF NodesOf
        <4>3. p.parent[i] \notin Deep
          BY <2>3, <2>4, <4>1, <4>2
        <4>4. depth[p.parent[i]] \in Nat /\ ~(s < depth[p.parent[i]])
          BY <1>1, <4>1, <4>3
        <4> QED BY <2>4, <3>2, <4>4
      <3> QED BY <3>1, <3>2
    <2>6. depth[i] = above + (IF PayloadNode(p, i) THEN 1 ELSE 0)
      BY <1>1, <2>4
    <2>7. PayloadNode(p, i) /\ depth[i] = s + 1
      <3> HIDE DEF above
      <3>1. CASE PayloadNode(p, i)
        BY <2>4, <2>5, <2>6, <3>1
      <3>2. CASE ~PayloadNode(p, i)
        BY <2>4, <2>5, <2>6, <3>2
      <3> QED BY <3>1, <3>2
    <2> QED BY <1>3, <2>4, <2>7
  <1>10. \A i \in NodesOf(p) : ~PayloadNode(p, i) => slot[i] = NoPhysicalSlot
    BY <1>3
  <1>11. SlotsFilled(p, slot, N)
    BY <1>7, <1>8, <1>9, <1>10 DEF SlotsFilled
  <1>12. \A i \in NodesOf(p) : PayloadNode(p, i) => slot[i] = depth[i] - 1
    BY <1>3
  <1> QED BY <1>11, <1>12 DEF slot, N, depth

TasksKnown(p) == \A i \in NodesOf(p) : p.task[i].kind \in Kinds

LEMMA PayloadPolicies ==
  ASSUME NEW p, TasksKnown(p), NEW i \in NodesOf(p)
  PROVE  /\ PayloadNode(p, i) <=> p.task[i].kind \in {"value", "task_result", "direct_out"}
         /\ PayloadNode(p, i) =>
              SlotLogicalPolicy(p.task[i]) =
                IF p.task[i].kind = "value" THEN "must_payload" ELSE "maybe_payload"
  BY DEF TasksKnown, PayloadNode, OutputStorageMode, OutputIsVoid, SlotLogicalPolicy, Kinds

(* A slot is "maybe_payload" exactly if some node that lives in it is.     *)
LEMMA JoinedPolicies ==
  ASSUME NEW p, p.n \in Nat, TasksKnown(p), NEW layout,
         SlotsFilled(p, PhysicalSlotIndices(p, layout), PhysicalSlotCount(p, layout))
  PROVE  /\ PhysicalSlotPolicies(p, layout) \in
              [0 .. PhysicalSlotCount(p, layout) - 1 -> {"must_payload", "maybe_payload"}]
         /\ \A s \in 0 .. PhysicalSlotCount(p, layout) - 1 :
              PhysicalSlotPolicies(p, layout)[s] = "maybe_payload" <=>
                \E i \in NodesOf(p) :
                  /\ PayloadNode(p, i) /\ PhysicalSlotIndices(p, layout)[i] = s
                  /\ SlotLogicalPolicy(p.task[i]) = "maybe_payload"
  <1> DEFINE index == PhysicalSlotIndices(p, layout)
             m == PhysicalSlotCount(p, layout)
             Slots == 0 .. m - 1
             L(i) == SlotLogicalPolicy(p.task[i])
             V == [Slots -> {"none", "must_payload", "maybe_payload"}]
             none == [s \in Slots |-> "none"]
             put(v, i) == IF index[i] = NoPhysicalSlot THEN v
                          ELSE [v EXCEPT ![index[i]] = JoinSlotPhysicalPolicy(@, L(i))]
             n == p.n
             Joins(f) == [k \in 0 .. n |-> IF k = 0 THEN none ELSE put(f[k - 1], k - 1)]
             joined == CHOOSE f : f = Joins(f)
             In(i, s) == PayloadNode(p, i) /\ index[i] = s
  <1>0. PhysicalSlotPolicies(p, layout) = joined[n]
    BY DEF PhysicalSlotPolicies
  <1>1. /\ m \in Nat /\ n \in Nat
        /\ \A i \in 0 .. n - 1 : PayloadNode(p, i) => index[i] \in Slots
        /\ \A i \in 0 .. n - 1 : ~PayloadNode(p, i) => index[i] = NoPhysicalSlot
        /\ \A s \in Slots : \E i \in 0 .. n - 1 : In(i, s)
        /\ NoPhysicalSlot \notin Slots
    BY DEF SlotsFilled, NodesOf, NoPhysicalSlot
  <1>2. \A i \in 0 .. n - 1 : PayloadNode(p, i) => L(i) \in {"must_payload", "maybe_payload"}
    BY PayloadPolicies DEF NodesOf
  <1> HIDE DEF index, m, L, joined
  <1>3. ASSUME NEW v \in V, NEW i \in 0 .. n - 1
        PROVE  /\ put(v, i) \in V
               /\ \A s \in Slots :
                    /\ ~In(i, s) => put(v, i)[s] = v[s]
                    /\ In(i, s) => put(v, i)[s] = JoinSlotPhysicalPolicy(v[s], L(i))
    <2>1. CASE PayloadNode(p, i)
      <3>1. index[i] \in Slots /\ index[i] # NoPhysicalSlot
        BY <1>1, <2>1
      <3>2. PICK x \in Slots : x = index[i]
        BY <3>1
      <3>3. JoinSlotPhysicalPolicy(v[x], L(i)) \in {"none", "must_payload", "maybe_payload"}
        BY <1>2, <2>1 DEF JoinSlotPhysicalPolicy
      <3>4. put(v, i) = [v EXCEPT ![x] = JoinSlotPhysicalPolicy(v[x], L(i))]
        BY <3>1, <3>2
      <3> HIDE DEF put, Slots
      <3> QED BY <2>1, <3>2, <3>3, <3>4
    <2>2. CASE ~PayloadNode(p, i)
      BY <1>1, <2>2
    <2> QED BY <2>1, <2>2
  <1>4. none \in V
    OBVIOUS
  <1>5. joined = Joins(joined)
    <2> DEFINE from == [k \in 0 .. n |-> IF k = 0 THEN n + 1 ELSE k - 1]
               start == [k \in 0 .. n |-> none]
               step == [k \in 0 .. n |-> [v \in V |-> IF k = 0 THEN v ELSE put(v, k - 1)]]
    <2>1. Recursive(n + 1, V, from, start, step)
      <3>1. n + 1 \in Nat /\ 0 .. (n + 1) - 1 = 0 .. n
        BY <1>1
      <3>2. \A k \in 0 .. n : k # 0 => k - 1 \in 0 .. n - 1
        BY <1>1
      <3>3. \A k \in 0 .. n : from[k] = n + 1 \/ from[k] \in 0 .. k - 1
        BY <1>1
      <3>4. \A k \in 0 .. n : step[k] \in [V -> V]
        <4>1. TAKE k \in 0 .. n
        <4>2. \A v \in V : (IF k = 0 THEN v ELSE put(v, k - 1)) \in V
          <5> HIDE DEF V, put
          <5> QED BY <1>3, <3>2
        <4> HIDE DEF V, put
        <4> QED BY <4>2
      <3>5. start \in [0 .. n -> V] /\ step \in [0 .. n -> [V -> V]]
        <4> HIDE DEF V, put, none
        <4> QED BY <1>4, <3>4
      <3> HIDE DEF from, start, step, V
      <3> QED BY <3>1, <3>3, <3>5 DEF Recursive
    <2>2. PICK f : Solves(f, n + 1, V, from, start, step)
      <3> HIDE DEF from, start, step, V
      <3> QED BY <2>1, Recursion
    <2>3. 0 .. (n + 1) - 1 = 0 .. n
      BY <1>1
    <2>4. /\ f \in [0 .. n -> V]
          /\ \A k \in 0 .. n : from[k] = n + 1 => f[k] = start[k]
          /\ \A k \in 0 .. n : from[k] # n + 1 => f[k] = step[k][f[from[k]]]
      <3> HIDE DEF from, start, step, V
      <3> QED BY <2>2, <2>3 DEF Solves
    <2>5. \A k \in 0 .. n : f[k] = IF k = 0 THEN none ELSE put(f[k - 1], k - 1)
      <3>1. TAKE k \in 0 .. n
      <3>2. CASE k = 0
        <4>1. from[k] = n + 1 /\ start[k] = none
          BY <3>2
        <4> HIDE DEF from, start, none
        <4> QED BY <2>4, <3>2, <4>1
      <3>3. CASE k # 0
        <4>1. from[k] = k - 1 /\ k - 1 \in 0 .. n /\ k - 1 # n + 1
          BY <1>1, <3>3
        <4>2. \A v \in V : step[k][v] = put(v, k - 1)
          BY <3>3
        <4> HIDE DEF from, start, step, V, put
        <4> QED BY <2>4, <3>3, <4>1, <4>2
      <3> QED BY <3>2, <3>3
    <2>6. f = Joins(f)
      <3> HIDE DEF put, none, V
      <3> QED BY <2>4, <2>5
    <2> HIDE DEF Joins
    <2> QED BY <2>6 DEF joined
  <1>6. \A k \in 0 .. n : joined[k] = IF k = 0 THEN none ELSE put(joined[k - 1], k - 1)
    <2> HIDE DEF put, none
    <2> QED BY <1>5
  <1> DEFINE Right(v, k) ==
               /\ v \in V
               /\ \A s \in Slots :
                    /\ v[s] = "none" <=> \A i \in 0 .. k - 1 : ~In(i, s)
                    /\ v[s] = "maybe_payload" <=>
                         \E i \in 0 .. k - 1 : In(i, s) /\ L(i) = "maybe_payload"
             S == {k \in 0 .. n : Right(joined[k], k)}
  <1>7. ASSUME NEW k \in 0 .. n - 1, NEW v \in V, Right(v, k)
        PROVE  Right(put(v, k), k + 1)
    <2>1. \A i : i \in 0 .. (k + 1) - 1 <=> i \in 0 .. k - 1 \/ i = k
      BY <1>1
    <2>2. put(v, k) \in V
      BY <1>3
    <2>3. ASSUME NEW s \in Slots, ~In(k, s)
          PROVE  /\ put(v, k)[s] = "none" <=> \A i \in 0 .. (k + 1) - 1 : ~In(i, s)
                 /\ put(v, k)[s] = "maybe_payload" <=>
                      \E i \in 0 .. (k + 1) - 1 : In(i, s) /\ L(i) = "maybe_payload"
      <3>1. put(v, k)[s] = v[s]
        BY <1>3, <2>3
      <3> HIDE DEF put, In, Slots
      <3> QED BY <1>7, <2>1, <2>3, <3>1
    <2>4. ASSUME NEW s \in Slots, In(k, s)
          PROVE  /\ put(v, k)[s] = "none" <=> \A i \in 0 .. (k + 1) - 1 : ~In(i, s)
                 /\ put(v, k)[s] = "maybe_payload" <=>
                      \E i \in 0 .. (k + 1) - 1 : In(i, s) /\ L(i) = "maybe_payload"
      <3>1. put(v, k)[s] = JoinSlotPhysicalPolicy(v[s], L(k))
        BY <1>3, <2>4
      <3>2. v[s] \in {"none", "must_payload", "maybe_payload"}
        BY <1>7
      <3>3. L(k) \in {"must_payload", "maybe_payload"}
        BY <1>2, <2>4
      <3>4. /\ put(v, k)[s] # "none"
            /\ put(v, k)[s] = "maybe_payload" <=> v[s] = "maybe_payload" \/ L(k) = "maybe_payload"
        <4> HIDE DEF put
        <4> QED BY <3>1, <3>2, <3>3 DEF JoinSlotPhysicalPolicy
      <3>5. v[s] = "maybe_payload" <=>
              \E i \in 0 .. k - 1 : In(i, s) /\ L(i) = "maybe_payload"
        BY <1>7
      <3> HIDE DEF put, In, Slots
      <3> QED BY <2>1, <2>4, <3>4, <3>5
    <2> HIDE DEF put, V, Slots, In
    <2> QED BY <2>2, <2>3, <2>4
  <1>8. Right(none, 0)
    <2>1. none \in V /\ \A s \in Slots : none[s] = "none"
      BY <1>4
    <2>2. \A i : i \notin 0 .. 0 - 1
      OBVIOUS
    <2> HIDE DEF none, V, In
    <2> QED BY <2>1, <2>2
  <1> HIDE DEF put, none, Right
  <1>9. ASSUME NEW k \in 0 .. (n + 1) - 1, \A j \in 0 .. k - 1 : j \in S PROVE k \in S
    <2>1. CASE k = 0
      BY <1>1, <1>6, <1>8, <2>1
    <2>2. CASE k # 0
      <3>1. k - 1 \in 0 .. k - 1 /\ k - 1 \in 0 .. n - 1 /\ k \in 0 .. n /\ (k - 1) + 1 = k
        BY <1>1, <2>2
      <3>2. Right(joined[k - 1], k - 1)
        BY <1>9, <3>1
      <3>3. joined[k - 1] \in V
        BY <3>2 DEF Right
      <3>4. Right(put(joined[k - 1], k - 1), (k - 1) + 1)
        BY <1>7, <3>1, <3>2, <3>3
      <3> QED BY <1>6, <2>2, <3>1, <3>4
    <2> QED BY <2>1, <2>2
  <1>10. n \in S
    <2>1. n + 1 \in Nat /\ n \in 0 .. (n + 1) - 1
      BY <1>1
    <2> HIDE DEF S, n
    <2>2. \A k \in 0 .. (n + 1) - 1 : k \in S
      BY <1>9, <2>1, UpTo
    <2> QED BY <2>1, <2>2
  <1>11. Right(joined[n], n)
    BY <1>10
  <1>12. \A s \in Slots : joined[n][s] # "none"
    BY <1>1, <1>11 DEF Right
  <1>13. joined[n] \in [Slots -> {"must_payload", "maybe_payload"}]
    <2>1. joined[n] \in V
      BY <1>11 DEF Right
    <2> HIDE DEF n
    <2> QED BY <1>12, <2>1
  <1>14. \A s \in Slots : joined[n][s] = "maybe_payload" <=>
           \E i \in NodesOf(p) : In(i, s) /\ L(i) = "maybe_payload"
    BY <1>11 DEF Right, NodesOf
  <1> QED BY <1>0, <1>13, <1>14 DEF index, m, L

SlotTables(p) ==
  /\ p.layout \in LayoutPolicies
  /\ p.slot = PhysicalSlotIndices(p, p.layout)
  /\ p.n_slots = PhysicalSlotCount(p, p.layout)
  /\ p.slot_policy = PhysicalSlotPolicies(p, p.layout)

LEMMA SlotsAreFilled ==
  ASSUME NEW p, TreeTables(p), SlotTables(p)
  PROVE  SlotsFilled(p, p.slot, p.n_slots)
  <1>1. p.n \in Nat
    BY ParentsAreEarlier
  <1>2. CASE p.layout = "compact"
    <2>1. SlotsFilled(p, CompactIndices(p), PhysicalSlotCount(p, "compact"))
      BY CompactSlots
    <2> QED BY <1>2, <2>1 DEF SlotTables, PhysicalSlotIndices
  <1>3. CASE p.layout = "one_to_one"
    <2>1. SlotsFilled(p, OneToOneIndices(p), PayloadNodeCount(p))
      BY <1>1, OneToOneSlots
    <2>2. p.slot = OneToOneIndices(p) /\ p.n_slots = PayloadNodeCount(p)
      BY <1>3 DEF SlotTables, PhysicalSlotIndices, PhysicalSlotCount
    <2> QED BY <2>1, <2>2
  <1> QED BY <1>2, <1>3 DEF SlotTables, LayoutPolicies

LEMMA SlotsAreWellFormed ==
  ASSUME NEW p, TreeTables(p), SlotTables(p), TasksKnown(p)
  PROVE  SlotsWellFormed(p)
  <1>1. p.n \in Nat
    BY ParentsAreEarlier
  <1>2. SlotsFilled(p, p.slot, p.n_slots)
    BY SlotsAreFilled
  <1>3. /\ p.n_slots \in Nat
        /\ \A i \in NodesOf(p) : PayloadNode(p, i) => p.slot[i] \in 0 .. p.n_slots - 1
    BY <1>2 DEF SlotsFilled
  <1>4. /\ p.slot_policy \in [0 .. p.n_slots - 1 -> {"must_payload", "maybe_payload"}]
        /\ \A s \in 0 .. p.n_slots - 1 :
             p.slot_policy[s] = "maybe_payload" <=>
               \E i \in NodesOf(p) :
                 /\ PayloadNode(p, i) /\ p.slot[i] = s
                 /\ SlotLogicalPolicy(p.task[i]) = "maybe_payload"
    <2>1. SlotsFilled(p, PhysicalSlotIndices(p, p.layout), PhysicalSlotCount(p, p.layout))
      BY <1>2 DEF SlotTables
    <2>2. /\ PhysicalSlotPolicies(p, p.layout) \in
               [0 .. PhysicalSlotCount(p, p.layout) - 1 -> {"must_payload", "maybe_payload"}]
          /\ \A s \in 0 .. PhysicalSlotCount(p, p.layout) - 1 :
               PhysicalSlotPolicies(p, p.layout)[s] = "maybe_payload" <=>
                 \E i \in NodesOf(p) :
                   /\ PayloadNode(p, i) /\ PhysicalSlotIndices(p, p.layout)[i] = s
                   /\ SlotLogicalPolicy(p.task[i]) = "maybe_payload"
      BY <1>1, <2>1, JoinedPolicies
    <2> QED BY <2>2 DEF SlotTables
  <1>5. \A i \in NodesOf(p) : PayloadNode(p, i) =>
          SlotLogicalPolicy(p.task[i]) =
            IF p.task[i].kind = "value" THEN "must_payload" ELSE "maybe_payload"
    BY PayloadPolicies
  <1>6. \A i \in NodesOf(p) :
          PayloadNode(p, i) /\ p.task[i].kind # "value"
            => p.slot_policy[p.slot[i]] = "maybe_payload"
    BY <1>3, <1>4, <1>5
  <1>7. ASSUME p.layout = "compact"
        PROVE  \A i \in NodesOf(p) : PayloadNode(p, i) => p.slot[i] = PayloadDepths(p)[i] - 1
    <2>1. p.slot = CompactIndices(p)
      BY <1>7 DEF SlotTables, PhysicalSlotIndices
    <2> QED BY <2>1, CompactSlots
  <1>8. ASSUME p.layout = "one_to_one"
        PROVE  \A i \in NodesOf(p) : PayloadNode(p, i) =>
                 /\ p.slot_policy[p.slot[i]] = SlotLogicalPolicy(p.task[i])
                 /\ \A j \in NodesOf(p) : PayloadNode(p, j) /\ p.slot[i] = p.slot[j] => i = j
    <2>1. p.slot = OneToOneIndices(p)
      BY <1>8 DEF SlotTables, PhysicalSlotIndices
    <2>2. \A i, j \in NodesOf(p) :
            PayloadNode(p, i) /\ PayloadNode(p, j) /\ p.slot[i] = p.slot[j] => i = j
      BY <1>1, <2>1, OneToOneSlots
    <2>3. ASSUME NEW i \in NodesOf(p), PayloadNode(p, i)
          PROVE  p.slot_policy[p.slot[i]] = SlotLogicalPolicy(p.task[i])
      <3>1. p.slot[i] \in 0 .. p.n_slots - 1
        BY <1>3, <2>3
      <3>2. p.slot_policy[p.slot[i]] \in {"must_payload", "maybe_payload"}
        BY <1>4, <3>1
      <3>3. p.slot_policy[p.slot[i]] = "maybe_payload"
              <=> SlotLogicalPolicy(p.task[i]) = "maybe_payload"
        BY <1>4, <2>2, <2>3, <3>1
      <3>4. SlotLogicalPolicy(p.task[i]) \in {"must_payload", "maybe_payload"}
        BY <1>5, <2>3
      <3> QED BY <3>2, <3>3, <3>4
    <2> QED BY <2>2, <2>3
  <1>9. p.layout \in LayoutPolicies
    BY DEF SlotTables
  <1> QED BY <1>3, <1>4, <1>6, <1>7, <1>8, <1>9 DEF SlotsWellFormed

-------------------------------------------------------------------------------
(* What tasks read.                                                        *)

TasksTyped(p) ==
  \A i \in NodesOf(p) :
    /\ p.task[i].kind \in Kinds
    /\ p.task[i].specs \in Seq(PrevAccessKinds)
    /\ IsForwardPrev(p.task[i]) => p.task[i].specs = <<"borrow_mut">>

LEMMA PrevCounts ==
  ASSUME NEW t, t.specs \in Seq(PrevAccessKinds), NEW kinds
  PROVE  /\ PrevCount(t, kinds) \in Nat
         /\ PrevCount(t, kinds) # 0 <=> \E k \in DOMAIN t.specs : t.specs[k] \in kinds
  <1> DEFINE T == {k \in DOMAIN t.specs : t.specs[k] \in kinds}
  <1>1. DOMAIN t.specs = 1 .. Len(t.specs) /\ Len(t.specs) \in Nat
    OBVIOUS
  <1>2. IsFiniteSet(1 .. Len(t.specs))
    <2>1. 1 \in Int /\ Len(t.specs) \in Int
      BY <1>1
    <2> QED BY <2>1, FS_Interval
  <1>3. T \in SUBSET (1 .. Len(t.specs))
    BY <1>1
  <1>4. IsFiniteSet(T) /\ Cardinality(T) \in Nat /\ (Cardinality(T) = 0 <=> T = {})
    <2> HIDE DEF T
    <2> QED BY <1>2, <1>3, FS_Subset, FS_CardinalityType, FS_EmptySet
  <1>5. PrevCount(t, kinds) = Cardinality(T)
    BY DEF PrevCount
  <1> QED BY <1>4, <1>5

(* How a task uses its parent's output, spec by spec.                      *)
LEMMA PrevUses ==
  ASSUME NEW t, t.specs \in Seq(PrevAccessKinds)
  PROVE  /\ UsesPrevAccess(t) <=> DOMAIN t.specs # {}
         /\ UsesExclusivePrev(t) <=>
              \E k \in DOMAIN t.specs : t.specs[k] \in {"borrow_mut", "consume"}
         /\ ConsumeOnly(t) <=> \E k \in DOMAIN t.specs : t.specs[k] = "consume"
         /\ CopyOnly(t) <=>
              /\ DOMAIN t.specs # {}
              /\ \A k \in DOMAIN t.specs : t.specs[k] = "copy"
         /\ ConsumeOnly(t) => UsesPrevAccess(t) /\ UsesExclusivePrev(t) /\ ~CopyOnly(t)
         /\ t.specs = <<"borrow_mut">> =>
              /\ UsesPrevAccess(t) /\ UsesExclusivePrev(t)
              /\ ~CopyOnly(t) /\ ~ConsumeOnly(t)
  <1>0. \A k \in DOMAIN t.specs : t.specs[k] \in PrevAccessKinds
    OBVIOUS
  <1>1. UsesPrevAccess(t) <=> DOMAIN t.specs # {}
    <2>1. UsesPrevAccess(t) <=> \E k \in DOMAIN t.specs : t.specs[k] \in PrevAccessKinds
      BY PrevCounts DEF UsesPrevAccess
    <2> QED BY <1>0, <2>1
  <1>2. UsesExclusivePrev(t) <=>
          \E k \in DOMAIN t.specs : t.specs[k] \in {"borrow_mut", "consume"}
    BY PrevCounts DEF UsesExclusivePrev, ExclusiveCount
  <1>3. ConsumeOnly(t) <=> \E k \in DOMAIN t.specs : t.specs[k] = "consume"
    <2>1. ConsumeOnly(t) <=> \E k \in DOMAIN t.specs : t.specs[k] \in {"consume"}
      BY PrevCounts DEF ConsumeOnly
    <2> QED BY <2>1
  <1>4. CopyOnly(t) <=>
          /\ DOMAIN t.specs # {}
          /\ \A k \in DOMAIN t.specs : t.specs[k] = "copy"
    <2>1. PrevCount(t, {"copy"}) # 0
            <=> \E k \in DOMAIN t.specs : t.specs[k] \in {"copy"}
      BY PrevCounts
    <2>2. PrevCount(t, PrevAccessKinds \ {"copy"}) # 0
            <=> \E k \in DOMAIN t.specs : t.specs[k] \in PrevAccessKinds \ {"copy"}
      BY PrevCounts
    <2> QED BY <1>0, <2>1, <2>2 DEF CopyOnly
  <1>5. ASSUME t.specs = <<"borrow_mut">>
        PROVE  DOMAIN t.specs = {1} /\ t.specs[1] = "borrow_mut"
    BY <1>5
  <1> QED BY <1>1, <1>2, <1>3, <1>4, <1>5

(* What "ok" means.                                                        *)
LEMMA ValidPlans ==
  ASSUME NEW p, ValidatePlan(p) = "ok", NEW i \in NodesOf(p)
  PROVE  /\ UsesPrevAccess(p.task[i]) \/ IsForwardPrev(p.task[i]) => HasParentOutput(p, i)
         /\ IsForwardPrev(p.task[i]) => p.task[i].type = p.task[p.parent[i]].type
         /\ TaskPrevAccessValid(p.task[i])
         /\ ParentFanoutPolicyValid(p, i)
  <1>1. /\ ~RootPrevAccess(p, i) /\ ~VoidParentPrevAccess(p, i)
        /\ ~RootForwardPrev(p, i) /\ ~VoidParentForwardPrev(p, i)
        /\ ~MismatchedForwardPrevParentType(p, i)
        /\ TaskPrevAccessValid(p.task[i])
        /\ ParentFanoutPolicyValid(p, i)
    BY DEF ValidatePlan
  <1> QED BY <1>1 DEF RootPrevAccess, VoidParentPrevAccess, RootForwardPrev,
                      VoidParentForwardPrev, MismatchedForwardPrevParentType, HasParentOutput

ValidTables(p) == TreeTables(p) /\ TasksTyped(p) /\ ValidatePlan(p) = "ok"

LEMMA OwnersAlongPaths ==
  ASSUME NEW p, ValidTables(p), NEW i \in NodesOf(p)
  PROVE  CanonicalOwners(p)[i] =
           IF OutputIsVoid(p.task[i]) THEN p.n
           ELSE IF IsForwardPrev(p.task[i]) THEN CanonicalOwners(p)[p.parent[i]]
           ELSE i
  <1> DEFINE n == p.n
             N == 0 .. n - 1
             V == 0 .. n
             void(j) == OutputIsVoid(p.task[j])
             forward(j) == IsForwardPrev(p.task[j])
             from == [j \in N |-> IF ~void(j) /\ forward(j) THEN p.parent[j] ELSE n]
             start == [j \in N |-> IF void(j) THEN n ELSE j]
             step == [j \in N |-> [v \in V |-> v]]
             Owners(f) == [j \in N |-> IF void(j) THEN n
                                       ELSE IF forward(j) THEN f[p.parent[j]]
                                       ELSE j]
  <1>1. n \in Nat /\ \A j \in N : p.parent[j] = n \/ p.parent[j] \in 0 .. j - 1
    BY ParentsAreEarlier DEF ValidTables
  <1>2. \A j \in N : forward(j) => p.parent[j] # n
    BY ValidPlans DEF ValidTables, HasParentOutput, NodesOf
  <1> HIDE DEF void, forward, n
  <1>3. Recursive(n, V, from, start, step)
    <2>1. \A j \in N : from[j] = n \/ from[j] \in 0 .. j - 1
      BY <1>1
    <2>2. start \in [N -> V] /\ step \in [N -> [V -> V]]
      BY <1>1
    <2> HIDE DEF from, start, step, V
    <2> QED BY <1>1, <2>1, <2>2 DEF Recursive
  <1>4. PICK f : Solves(f, n, V, from, start, step)
    <2> HIDE DEF from, start, step, V
    <2> QED BY <1>3, Recursion
  <1>5. /\ f \in [N -> V]
        /\ \A j \in N : from[j] = n => f[j] = start[j]
        /\ \A j \in N : from[j] # n => f[j] = step[j][f[from[j]]]
    <2> HIDE DEF from, start, step, V
    <2> QED BY <1>4 DEF Solves
  <1>6. f = Owners(f)
    <2>1. ASSUME NEW j \in N
          PROVE  f[j] = IF void(j) THEN n ELSE IF forward(j) THEN f[p.parent[j]] ELSE j
      <3>1. CASE ~void(j) /\ forward(j)
        <4>1. from[j] = p.parent[j] /\ p.parent[j] # n /\ p.parent[j] \in N
          BY <1>1, <1>2, <3>1
        <4>2. f[p.parent[j]] \in V
          BY <1>5, <4>1
        <4>3. \A v \in V : step[j][v] = v
          OBVIOUS
        <4> HIDE DEF V, step, from, start
        <4> QED BY <1>5, <3>1, <4>1, <4>2, <4>3
      <3>2. CASE void(j) \/ ~forward(j)
        <4>1. from[j] = n /\ start[j] = IF void(j) THEN n ELSE j
          BY <3>2
        <4> HIDE DEF V, step, from, start
        <4> QED BY <1>5, <3>2, <4>1
      <3> QED BY <3>1, <3>2
    <2> HIDE DEF V
    <2> QED BY <1>5, <2>1
  <1>7. CanonicalOwners(p) = CHOOSE g : g = Owners(g)
    BY DEF CanonicalOwners, NodesOf, void, forward, n
  <1> DEFINE owner == CanonicalOwners(p)
  <1> HIDE DEF owner
  <1>8. owner = Owners(owner)
    <2> HIDE DEF Owners
    <2> QED BY <1>6, <1>7 DEF owner
  <1>9. i \in N
    BY DEF NodesOf, n
  <1>10. owner[i] = IF void(i) THEN n ELSE IF forward(i) THEN owner[p.parent[i]] ELSE i
    BY <1>8, <1>9
  <1> QED BY <1>10 DEF owner, void, forward, n

(* The owner of an output is a payload of the same type on the node's root *)
(* path, and only forward-prev nodes of that type lie below it.            *)
LEMMA OutputsHaveASource ==
  ASSUME NEW p, ValidTables(p), NEW i \in NodesOf(p), ~OutputIsVoid(p.task[i])
  PROVE  /\ CanonicalOwners(p)[i] \in RootPath(p, i)
         /\ CanonicalOwners(p)[i] \in 0 .. i
         /\ PayloadNode(p, CanonicalOwners(p)[i])
         /\ p.task[CanonicalOwners(p)[i]].type = p.task[i].type
         /\ \A f \in RootPath(p, i) :
              f > CanonicalOwners(p)[i] =>
                /\ IsForwardPrev(p.task[f])
                /\ p.task[f].type = p.task[CanonicalOwners(p)[i]].type
  <1> DEFINE owner == CanonicalOwners(p)
             tasks == p.task
             Sourced(j) ==
               /\ owner[j] \in RootPath(p, j) /\ owner[j] \in 0 .. j /\ PayloadNode(p, owner[j])
               /\ tasks[owner[j]].type = tasks[j].type
               /\ \A f \in RootPath(p, j) :
                    f > owner[j] => IsForwardPrev(tasks[f]) /\ tasks[f].type = tasks[owner[j]].type
             n == p.n
             S == {j \in 0 .. n - 1 : ~OutputIsVoid(tasks[j]) => Sourced(j)}
  <1>0. TreeTables(p) /\ TasksTyped(p)
    BY DEF ValidTables
  <1>1. n \in Nat /\ \A j \in 0 .. n - 1 : p.parent[j] = n \/ p.parent[j] \in 0 .. j - 1
    BY <1>0, ParentsAreEarlier
  <1> HIDE DEF owner, n, tasks
  <1>2. ASSUME NEW k \in 0 .. n - 1, \A j \in 0 .. k - 1 : j \in S PROVE k \in S
    <2> SUFFICES ASSUME ~OutputIsVoid(tasks[k]) PROVE Sourced(k)
      OBVIOUS
    <2>0. k \in NodesOf(p) /\ k \in Nat
      BY <1>1 DEF NodesOf, n
    <2>1. owner[k] = IF IsForwardPrev(tasks[k]) THEN owner[p.parent[k]] ELSE k
      BY <2>0, OwnersAlongPaths DEF owner, tasks
    <2>2. /\ RootPath(p, k) = {k} \cup (IF p.parent[k] = n THEN {} ELSE RootPath(p, p.parent[k]))
          /\ RootPath(p, k) \in SUBSET (0 .. k) /\ k \in RootPath(p, k)
      BY <1>0, <2>0, RootPaths DEF n
    <2>3. CASE ~IsForwardPrev(tasks[k])
      <3>1. owner[k] = k
        BY <2>1, <2>3
      <3>2. \A f \in RootPath(p, k) : ~(f > k)
        BY <2>0, <2>2
      <3>3. PayloadNode(p, k)
        <4>1. tasks[k].kind \in Kinds
          BY <1>0, <2>0 DEF TasksTyped, tasks
        <4> QED BY <4>1, <2>3 DEF PayloadNode, OutputStorageMode, OutputIsVoid, IsForwardPrev,
                                  Kinds, tasks
      <3> QED BY <2>0, <2>2, <3>1, <3>2, <3>3
    <2>4. CASE IsForwardPrev(tasks[k])
      <3>1. /\ p.parent[k] # n /\ ~OutputIsVoid(tasks[p.parent[k]])
            /\ tasks[k].type = tasks[p.parent[k]].type
        BY <2>0, <2>4, ValidPlans DEF ValidTables, HasParentOutput, tasks, n
      <3>2. PICK q \in 0 .. k - 1 : q = p.parent[k]
        BY <1>1, <3>1
      <3>3. q \in S /\ q \in Nat
        BY <1>2, <3>2
      <3>4. Sourced(q)
        <4> HIDE DEF Sourced
        <4> QED BY <3>1, <3>2, <3>3
      <3>5. owner[k] = owner[q] /\ RootPath(p, k) = {k} \cup RootPath(p, q)
        BY <2>1, <2>2, <2>4, <3>1, <3>2
      <3>6. owner[k] \in RootPath(p, k) /\ owner[k] \in 0 .. k /\ PayloadNode(p, owner[k])
        BY <2>0, <3>2, <3>3, <3>4, <3>5
      <3>7. tasks[owner[k]].type = tasks[k].type
        BY <3>1, <3>2, <3>4, <3>5
      <3>8. ASSUME NEW f \in RootPath(p, k), f > owner[k]
            PROVE  IsForwardPrev(tasks[f]) /\ tasks[f].type = tasks[owner[k]].type
        <4>1. CASE f = k
          BY <2>4, <3>7, <4>1
        <4>2. CASE f \in RootPath(p, q)
          BY <3>4, <3>5, <3>8, <4>2
        <4> QED BY <3>5, <4>1, <4>2
      <3> QED BY <3>6, <3>7, <3>8
    <2> QED BY <2>3, <2>4
  <1>3. \A k \in 0 .. n - 1 : k \in S
    <2> HIDE DEF S
    <2> QED BY <1>1, <1>2, UpTo
  <1>4. i \in 0 .. n - 1
    BY DEF NodesOf, n
  <1>5. Sourced(i)
    <2>1. i \in S
      <3> HIDE DEF S
      <3> QED BY <1>3, <1>4
    <2> HIDE DEF Sourced
    <2> QED BY <2>1 DEF tasks
  <1> QED BY <1>5 DEF owner, tasks

(* An exclusive access to an output shared with siblings is refused unless *)
(* it consumes and the siblings copy.                                      *)
LEMMA ExclusiveReaders ==
  ASSUME NEW p, ValidTables(p), NEW c \in NodesOf(p), p.parent[c] # p.n,
         UsesExclusivePrev(p.task[c])
  PROVE  \/ \A d \in NodesOf(p) : p.parent[d] = p.parent[c] => d = c
         \/ /\ p.fanout[p.parent[c]] = "consume_with_copies"
            /\ ConsumeOnly(p.task[c])
            /\ \A d \in NodesOf(p) :
                 p.parent[d] = p.parent[c] /\ UsesPrevAccess(p.task[d]) /\ d # c
                   => CopyOnly(p.task[d])
            /\ Cardinality(ConsumeChildren(p, p.parent[c])) = 1
  <1>0. TreeTables(p) /\ TasksTyped(p)
    BY DEF ValidTables
  <1>1. PICK q : q = p.parent[c]
    OBVIOUS
  <1>2. q \in NodesOf(p)
    <2>1. /\ p.n \in Nat \ {0}
          /\ \A i \in NodesOf(p) : p.parent[i] = p.n <=> i = 0
          /\ \A i \in 1 .. p.n - 1 : p.parent[i] \in NodesOf(p)
      BY <1>0, ParentsOfATree
    <2>2. c \in 1 .. p.n - 1
      BY <2>1 DEF NodesOf
    <2> QED BY <1>1, <2>1, <2>2
  <1>3. /\ Children(p, q) = {d \in NodesOf(p) : p.parent[d] = q}
        /\ p.child_counts[q] = Cardinality(Children(p, q)) /\ IsFiniteSet(Children(p, q))
    BY <1>0, <1>2, ChildrenAreTheKids
  <1>4. c \in Children(p, q) /\ c \in ExclusiveChildren(p, q)
    BY <1>1, <1>3 DEF ExclusiveChildren
  <1>5. p.child_counts[q] \in Nat /\ p.child_counts[q] # 0
    BY <1>3, <1>4, FS_CardinalityType, FS_EmptySet
  <1>6. ParentFanoutPolicyValid(p, q)
    BY <1>2, ValidPlans DEF ValidTables
  <1>7. CASE p.child_counts[q] <= 1
    <2>0. Cardinality(Children(p, q)) = 1
      BY <1>3, <1>5, <1>7
    <2>1. PICK x : Children(p, q) = {x}
      BY <1>3, <2>0, FS_Singleton
    <2>2. \A d \in NodesOf(p) : p.parent[d] = q => d = x
      BY <1>3, <2>1
    <2> QED BY <1>1, <1>4, <2>1, <2>2
  <1>8. CASE /\ p.fanout[q] = "consume_with_copies"
             /\ \A d \in Children(p, q) :
                  UsesPrevAccess(p.task[d]) => CopyOnly(p.task[d]) \/ ConsumeOnly(p.task[d])
             /\ Cardinality(ConsumeChildren(p, q)) <= 1
    <2>1. p.task[c].specs \in Seq(PrevAccessKinds)
      BY <1>0 DEF TasksTyped
    <2>2. ConsumeOnly(p.task[c])
      <3>1. \E k \in DOMAIN p.task[c].specs : p.task[c].specs[k] \in {"borrow_mut", "consume"}
        BY <2>1, PrevUses
      <3>2. UsesPrevAccess(p.task[c])
        BY <2>1, <3>1, PrevUses
      <3>3. ~CopyOnly(p.task[c])
        BY <2>1, <3>1, PrevUses
      <3> QED BY <1>4, <1>8, <3>2, <3>3
    <2>3. IsFiniteSet(ConsumeChildren(p, q)) /\ c \in ConsumeChildren(p, q)
      <3>1. ConsumeChildren(p, q) \in SUBSET Children(p, q)
        BY DEF ConsumeChildren
      <3> QED BY <1>3, <1>4, <2>2, <3>1, FS_Subset DEF ConsumeChildren
    <2>4. Cardinality(ConsumeChildren(p, q)) = 1
      <3>1. Cardinality(ConsumeChildren(p, q)) \in Nat /\ Cardinality(ConsumeChildren(p, q)) # 0
        BY <2>3, FS_CardinalityType, FS_EmptySet
      <3> QED BY <1>8, <3>1
    <2>5. PICK x : ConsumeChildren(p, q) = {x}
      BY <2>3, <2>4, FS_Singleton
    <2>6. \A d \in Children(p, q) : ConsumeOnly(p.task[d]) => d = c
      BY <2>3, <2>5 DEF ConsumeChildren
    <2>7. \A d \in NodesOf(p) :
            p.parent[d] = q /\ UsesPrevAccess(p.task[d]) /\ d # c => CopyOnly(p.task[d])
      BY <1>3, <1>8, <2>6
    <2> QED BY <1>1, <1>8, <2>2, <2>4, <2>7
  <1> QED BY <1>4, <1>5, <1>6, <1>7, <1>8 DEF ParentFanoutPolicyValid

(* A forward-prev node is its parent's only child, so the nodes that pass  *)
(* one payload on form a chain.                                            *)
LEMMA ForwardsFormAChain ==
  ASSUME NEW p, ValidTables(p), NEW r \in NodesOf(p), NEW q \in NodesOf(p), q < r,
         ~OutputIsVoid(p.task[q]), ~OutputIsVoid(p.task[r]),
         CanonicalOwners(p)[q] = CanonicalOwners(p)[r]
  PROVE  \E x \in NodesOf(p) :
           /\ IsForwardPrev(p.task[x]) /\ p.parent[x] = q /\ x <= r
           /\ \A y \in NodesOf(p) : p.parent[y] = q => y = x
  <1> DEFINE n == p.n
             N == 0 .. n - 1
             owner == CanonicalOwners(p)
             void(j) == OutputIsVoid(p.task[j])
             forward(j) == IsForwardPrev(p.task[j])
             Passed(a, b) ==
               \E x \in N : /\ forward(x) /\ p.parent[x] = a /\ x <= b
                            /\ \A y \in N : p.parent[y] = a => y = x
             S == {b \in N : \A a \in N :
                               a < b /\ ~void(a) /\ ~void(b) /\ owner[a] = owner[b] => Passed(a, b)}
  <1>1. TreeTables(p) /\ TasksTyped(p)
    BY DEF ValidTables
  <1>2. n \in Nat /\ \A j \in N : p.parent[j] = n \/ p.parent[j] \in 0 .. j - 1
    BY <1>1, ParentsAreEarlier
  <1>3. \A j \in N : forward(j) => p.parent[j] # n /\ ~void(p.parent[j])
    BY ValidPlans DEF ValidTables, HasParentOutput, NodesOf
  <1>4. \A j \in N : owner[j] = IF void(j) THEN n ELSE IF forward(j) THEN owner[p.parent[j]] ELSE j
    BY OwnersAlongPaths DEF NodesOf
  <1>5. \A j \in N : ~void(j) => owner[j] \in 0 .. j
    BY OutputsHaveASource DEF NodesOf
  <1>6. \A x, y \in N : forward(x) /\ p.parent[y] = p.parent[x] => y = x
    <2>1. ASSUME NEW x \in N, forward(x)
          PROVE  \A y \in N : p.parent[y] = p.parent[x] => y = x
      <3>1. x \in NodesOf(p) /\ p.parent[x] # p.n
        BY <1>3, <2>1 DEF NodesOf
      <3>2. /\ p.task[x].specs \in Seq(PrevAccessKinds)
            /\ p.task[x].specs = <<"borrow_mut">>
        BY <1>1, <2>1, <3>1 DEF TasksTyped
      <3>3. UsesExclusivePrev(p.task[x]) /\ ~ConsumeOnly(p.task[x])
        BY <3>2, PrevUses
      <3>4. \A y \in NodesOf(p) : p.parent[y] = p.parent[x] => y = x
        BY <3>1, <3>3, ExclusiveReaders
      <3> QED BY <3>4 DEF NodesOf
    <2> QED BY <2>1
  <1> HIDE DEF n, owner, void, forward
  <1>7. ASSUME NEW b \in 0 .. n - 1, \A j \in 0 .. b - 1 : j \in S PROVE b \in S
    <2> SUFFICES ASSUME NEW a \in N, a < b, ~void(a), ~void(b), owner[a] = owner[b]
                 PROVE  Passed(a, b)
      OBVIOUS
    <2>1. a \in Nat /\ b \in Nat /\ a \in 0 .. b - 1
      BY <1>2
    <2>2. forward(b)
      <3> SUFFICES ASSUME ~forward(b) PROVE FALSE
        OBVIOUS
      <3>1. owner[b] = b
        BY <1>4
      <3>2. owner[a] \in 0 .. a
        BY <1>5
      <3> QED BY <2>1, <3>1, <3>2
    <2>3. PICK s \in 0 .. b - 1 : s = p.parent[b]
      BY <1>2, <1>3, <2>2
    <2>4. s \in N /\ s \in Nat /\ ~void(s) /\ owner[s] = owner[b]
      BY <1>2, <1>3, <1>4, <2>2, <2>3
    <2>5. CASE s = a
      <3>1. b \in N /\ b <= b
        BY <2>1
      <3>2. \A y \in N : p.parent[y] = a => y = b
        BY <1>6, <2>2, <2>3, <2>5
      <3> QED BY <2>2, <2>3, <2>5, <3>1, <3>2
    <2>6. CASE a < s
      <3>1. s \in S
        BY <1>7
      <3>2. Passed(a, s)
        <4> HIDE DEF Passed
        <4> QED BY <2>4, <2>6, <3>1
      <3>3. \A x \in N : x <= s => x <= b
        BY <1>2, <2>1, <2>3
      <3> QED BY <3>2, <3>3
    <2>7. CASE s < a
      <3>1. a \in S
        BY <1>7, <2>1
      <3>2. Passed(s, a)
        <4> HIDE DEF Passed
        <4> QED BY <2>4, <2>7, <3>1
      <3>3. PICK x \in N : forward(x) /\ p.parent[x] = s /\ x <= a
        BY <3>2
      <3>4. b = x
        BY <1>6, <2>3, <3>3
      <3> QED BY <2>1, <3>3, <3>4
    <2> QED BY <2>1, <2>4, <2>5, <2>6, <2>7
  <1>8. \A b \in 0 .. n - 1 : b \in S
    <2> HIDE DEF S
    <2> QED BY <1>2, <1>7, UpTo
  <1>9. q \in N /\ r \in N
    BY DEF NodesOf, n
  <1>10. Passed(q, r)
    <2>1. r \in S /\ ~void(q) /\ ~void(r) /\ owner[q] = owner[r]
      <3> HIDE DEF S
      <3> QED BY <1>8, <1>9 DEF void, owner
    <2> HIDE DEF Passed
    <2> QED BY <1>9, <2>1
  <1> QED BY <1>10 DEF n, forward, NodesOf

LEMMA ConsumersAreLast ==
  ASSUME NEW p, ValidTables(p)
  PROVE  ConsumersReadLast(p)
  <1> SUFFICES ASSUME NEW o \in NodesOf(p),
                      NEW c \in DirectReaders(p, o), NEW d \in DirectReaders(p, o),
                      c # d, ConsumeOnly(p.task[c])
               PROVE  d < c
    BY DEF ConsumersReadLast
  <1>1. TreeTables(p) /\ TasksTyped(p)
    BY DEF ValidTables
  <1>2. /\ c \in NodesOf(p) /\ d \in NodesOf(p)
        /\ UsesPrevAccess(p.task[c]) /\ UsesPrevAccess(p.task[d])
        /\ p.parent[c] # p.n /\ p.parent[d] # p.n
        /\ CanonicalOwners(p)[p.parent[c]] = o /\ CanonicalOwners(p)[p.parent[d]] = o
        /\ ~UsesStagedCopyPrev(p, d)
    BY DEF DirectReaders
  <1>3. /\ p.n \in Nat
        /\ \A i \in NodesOf(p) : p.parent[i] # p.n => p.parent[i] \in 0 .. i - 1
    BY <1>1, ParentsAreEarlier DEF NodesOf
  <1>4. PICK q \in NodesOf(p), r \in NodesOf(p) :
          q = p.parent[c] /\ r = p.parent[d] /\ q < c /\ r < d
    BY <1>2, <1>3 DEF NodesOf
  <1>5. ~OutputIsVoid(p.task[q]) /\ ~OutputIsVoid(p.task[r])
    BY <1>2, <1>4, ValidPlans DEF ValidTables, HasParentOutput
  <1>6. p.task[c].specs \in Seq(PrevAccessKinds)
    BY <1>1, <1>2 DEF TasksTyped
  <1>7. UsesExclusivePrev(p.task[c])
    BY <1>6, PrevUses
  <1>8. ~IsForwardPrev(p.task[c])
    <2> SUFFICES ASSUME p.task[c].specs = <<"borrow_mut">> PROVE FALSE
      BY <1>1, <1>2 DEF TasksTyped
    <2> QED BY <1>6, PrevUses
  <1>9. q \in Nat /\ r \in Nat /\ c \in Nat /\ d \in Nat
    BY <1>2, <1>3 DEF NodesOf
  <1>10. CASE q = r
    <2>1. /\ p.fanout[q] = "consume_with_copies"
          /\ CopyOnly(p.task[d])
          /\ Cardinality(ConsumeChildren(p, q)) = 1
      BY <1>2, <1>4, <1>7, <1>10, ExclusiveReaders
    <2>2. d \in CopyOnlyChildren(p, q)
      <3>1. Children(p, q) = {y \in NodesOf(p) : p.parent[y] = q}
        BY <1>1, ChildrenAreTheKids
      <3> QED BY <1>2, <1>4, <1>10, <2>1, <3>1 DEF CopyOnlyChildren
    <2>3. UsesStagedCopyPrev(p, d)
      BY <1>2, <1>4, <1>10, <2>1, <2>2 DEF UsesStagedCopyPrev, RequiresFanoutStaging
    <2> QED BY <1>2, <2>3
  <1>11. CASE q < r
    <2>1. \E x \in NodesOf(p) :
            /\ IsForwardPrev(p.task[x])
            /\ \A y \in NodesOf(p) : p.parent[y] = q => y = x
      BY <1>2, <1>4, <1>5, <1>11, ForwardsFormAChain
    <2> QED BY <1>2, <1>4, <1>8, <2>1
  <1>12. CASE r < q
    <2>1. \E x \in NodesOf(p) :
            /\ x <= q
            /\ \A y \in NodesOf(p) : p.parent[y] = r => y = x
      BY <1>2, <1>4, <1>5, <1>12, ForwardsFormAChain
    <2>2. d <= q
      BY <1>2, <1>4, <2>1
    <2> QED BY <1>4, <1>9, <2>2
  <1> QED BY <1>9, <1>10, <1>11, <1>12

-------------------------------------------------------------------------------
(* The tables of what was recorded.                                        *)

(* Recorded nodes: each but the first continues the tree, and their tasks  *)
(* and fan-outs are from the program's menu.                               *)
NodesRecorded ==
  /\ menu \in Menus
  /\ nodes \in Seq([level : Nat, task : menu.tasks, fanout : menu.fanouts])
  /\ \A i \in 1 .. Len(nodes) :
       IF i = 1 THEN nodes[i].level = 0
       ELSE nodes[i].level # 0 /\ nodes[i].level <= nodes[i - 1].level + 1

LEMMA RecordedTables ==
  ASSUME NodesRecorded, nodes # <<>>
  PROVE  TreeTables(tables) /\ TasksTyped(tables)
  <1> DEFINE n == Len(nodes)
             levels == MakeLevelArray(nodes)
  <1>1. /\ n \in Nat \ {0}
        /\ \A i \in 1 .. n : nodes[i] \in [level : Nat, task : menu.tasks, fanout : menu.fanouts]
    <2>1. PICK R : R = [level : Nat, task : menu.tasks, fanout : menu.fanouts]
      OBVIOUS
    <2>2. nodes \in Seq(R)
      BY <2>1 DEF NodesRecorded
    <2>3. Len(nodes) \in Nat \ {0} /\ \A i \in 1 .. Len(nodes) : nodes[i] \in R
      BY <2>2
    <2> QED BY <2>1, <2>3
  <1>2. levels = [i \in 0 .. n - 1 |-> nodes[i + 1].level]
    BY DEF MakeLevelArray
  <1>3. /\ tables.n = n /\ tables.level = levels
        /\ tables.max_level = MaxLevel(levels)
        /\ tables.parent = MakeParentIndexArray(levels, n)
        /\ tables.child_counts = MakeChildLayout(tables.parent, n).counts
        /\ tables.child_offsets = MakeChildLayout(tables.parent, n).offsets
        /\ tables.child_indices = MakeChildLayout(tables.parent, n).indices
        /\ tables.task = [i \in 0 .. n - 1 |-> nodes[i + 1].task]
    BY DEF tables, CompiledTables
  <1> HIDE DEF n, levels
  <1>4. Climbs(levels, n)
    <2>1. \A i \in 0 .. n - 1 : i + 1 \in 1 .. n
      BY <1>1
    <2>2. levels \in [0 .. n - 1 -> Nat]
      BY <1>1, <1>2, <2>1
    <2>3. levels[0] = 0
      <3>1. 0 \in 0 .. n - 1 /\ 1 \in 1 .. n /\ 0 + 1 = 1
        BY <1>1
      <3>2. nodes[1].level = 0
        BY <3>1 DEF NodesRecorded, n
      <3> QED BY <1>2, <3>1, <3>2
    <2>4. ASSUME NEW i \in 1 .. n - 1
          PROVE  levels[i] # 0 /\ levels[i] <= levels[i - 1] + 1
      <3>1. /\ i \in 0 .. n - 1 /\ i - 1 \in 0 .. n - 1 /\ (i - 1) + 1 = i
            /\ i + 1 \in 1 .. n /\ i + 1 # 1 /\ (i + 1) - 1 = i
        BY <1>1
      <3>2. nodes[i + 1].level # 0 /\ nodes[i + 1].level <= nodes[(i + 1) - 1].level + 1
        BY <3>1 DEF NodesRecorded, n
      <3>3. levels[i] = nodes[i + 1].level /\ levels[i - 1] = nodes[i].level
        <4> DEFINE j == i - 1
        <4>1. j \in 0 .. n - 1 /\ j + 1 = i
          BY <3>1
        <4> HIDE DEF j
        <4>2. levels[j] = nodes[i].level
          BY <1>2, <4>1
        <4> QED BY <1>2, <3>1, <4>2 DEF j
      <3> QED BY <3>1, <3>2, <3>3
    <2> QED BY <1>1, <2>2, <2>3, <2>4 DEF Climbs
  <1>5. TreeTables(tables)
    BY <1>3, <1>4 DEF TreeTables
  <1>6. TasksTyped(tables)
    <2> SUFFICES ASSUME NEW i \in NodesOf(tables)
                 PROVE  /\ tables.task[i].kind \in Kinds
                        /\ tables.task[i].specs \in Seq(PrevAccessKinds)
                        /\ IsForwardPrev(tables.task[i])
                             => tables.task[i].specs = <<"borrow_mut">>
      BY DEF TasksTyped
    <2>2. i \in 0 .. n - 1 /\ i + 1 \in 1 .. n
      BY <1>1, <1>3 DEF NodesOf
    <2>3. tables.task[i] \in menu.tasks
      BY <1>1, <1>3, <2>2
    <2>4. PICK t \in menu.tasks : t = tables.task[i]
      BY <2>3
    <2>5. /\ t.kind \in Kinds /\ t.specs \in Seq(PrevAccessKinds)
          /\ t.kind = "forward_prev" => t.specs = <<"borrow_mut">>
      BY MenuAssumption DEF NodesRecorded
    <2> QED BY <2>4, <2>5 DEF IsForwardPrev
  <1> QED BY <1>5, <1>6

(* What is derived from the tables is derived from the same fields of a    *)
(* compiled plan.                                                          *)
LEMMA SameTables ==
  ASSUME NEW t, NEW layout, NEW q, q = RunTables(t, layout)
  PROVE  /\ TreeTables(t) => TreeTables(q)
         /\ TasksTyped(t) => TasksTyped(q)
         /\ layout \in LayoutPolicies => SlotTables(q)
         /\ ValidatePlan(q) = ValidatePlan(t)
         /\ q.owner = CanonicalOwners(q)
         /\ q.staging = [i \in NodesOf(q) |-> RequiresFanoutStaging(q, i)]
         /\ q.staged_copy = [i \in NodesOf(q) |-> UsesStagedCopyPrev(q, i)]
         /\ \A i \in NodesOf(t) : RootPath(q, i) = RootPath(t, i)
         /\ \A i : PayloadNode(q, i) <=> PayloadNode(t, i)
         /\ NodesOf(q) = NodesOf(t)
  <1>1. /\ q.n = t.n /\ q.max_level = t.max_level /\ q.level = t.level /\ q.parent = t.parent
        /\ q.child_counts = t.child_counts /\ q.child_offsets = t.child_offsets
        /\ q.child_indices = t.child_indices
        /\ q.task = t.task /\ q.fanout = t.fanout
        /\ q.layout = layout
        /\ q.owner = CanonicalOwners(t)
        /\ q.slot = PhysicalSlotIndices(t, layout)
        /\ q.n_slots = PhysicalSlotCount(t, layout)
        /\ q.slot_policy = PhysicalSlotPolicies(t, layout)
        /\ q.staging = [i \in NodesOf(t) |-> RequiresFanoutStaging(t, i)]
        /\ q.staged_copy = [i \in NodesOf(t) |-> UsesStagedCopyPrev(t, i)]
    BY DEF RunTables
  <1>2. NodesOf(q) = NodesOf(t)
    BY <1>1 DEF NodesOf
  <1>3. \A i : PayloadNode(q, i) <=> PayloadNode(t, i)
    BY <1>1 DEF PayloadNode
  <1>4. TreeTables(t) => TreeTables(q)
    BY <1>1 DEF TreeTables
  <1>5. TasksTyped(t) => TasksTyped(q)
    BY <1>1, <1>2 DEF TasksTyped
  <1>6. CanonicalOwners(q) = CanonicalOwners(t)
    BY <1>1, <1>2 DEF CanonicalOwners
  <1>7. \A i : Children(q, i) = Children(t, i)
    BY <1>1 DEF Children, ChildAt
  <1>8. \A i : /\ ExclusiveChildren(q, i) = ExclusiveChildren(t, i)
               /\ CopyOnlyChildren(q, i) = CopyOnlyChildren(t, i)
               /\ ConsumeChildren(q, i) = ConsumeChildren(t, i)
    BY <1>1, <1>7 DEF ExclusiveChildren, CopyOnlyChildren, ConsumeChildren
  <1>11. /\ q.staging = [i \in NodesOf(q) |-> RequiresFanoutStaging(q, i)]
         /\ q.staged_copy = [i \in NodesOf(q) |-> UsesStagedCopyPrev(q, i)]
    BY <1>1, <1>2 DEF UsesStagedCopyPrev, RequiresFanoutStaging, CopyOnlyChildren,
                      ConsumeChildren, Children, ChildAt
  <1>12. \A i : ParentFanoutPolicyValid(q, i) <=> ParentFanoutPolicyValid(t, i)
    BY <1>1, <1>7, <1>8 DEF ParentFanoutPolicyValid
  <1>13. /\ \A i : RootPrevAccess(q, i) <=> RootPrevAccess(t, i)
         /\ \A i : VoidParentPrevAccess(q, i) <=> VoidParentPrevAccess(t, i)
         /\ \A i : RootForwardPrev(q, i) <=> RootForwardPrev(t, i)
         /\ \A i : VoidParentForwardPrev(q, i) <=> VoidParentForwardPrev(t, i)
         /\ \A i : MismatchedForwardPrevParentType(q, i) <=> MismatchedForwardPrevParentType(t, i)
    BY <1>1 DEF RootPrevAccess, VoidParentPrevAccess, RootForwardPrev, VoidParentForwardPrev,
                MismatchedForwardPrevParentType
  <1>14. ValidatePlan(q) = ValidatePlan(t)
    BY <1>1, <1>2, <1>12, <1>13 DEF ValidatePlan
  <1>15. \A i \in NodesOf(t) : RootPath(q, i) = RootPath(t, i)
    BY <1>1, <1>2 DEF RootPath
  <1>16. PayloadDepths(q) = PayloadDepths(t)
    BY <1>1, <1>2 DEF PayloadDepths, PayloadNode
  <1>17. PhysicalSlotIndices(q, layout) = PhysicalSlotIndices(t, layout)
    <2>1. CompactIndices(q) = CompactIndices(t)
      BY <1>2, <1>3, <1>16 DEF CompactIndices
    <2>2. OneToOneIndices(q) = OneToOneIndices(t)
      BY <1>1, <1>2, <1>3 DEF OneToOneIndices
    <2> QED BY <2>1, <2>2 DEF PhysicalSlotIndices
  <1>18. PhysicalSlotCount(q, layout) = PhysicalSlotCount(t, layout)
    BY <1>1, <1>2, <1>16 DEF PhysicalSlotCount, PayloadNodeCount, PayloadNode
  <1>19. PhysicalSlotPolicies(q, layout) = PhysicalSlotPolicies(t, layout)
    BY <1>1, <1>17, <1>18 DEF PhysicalSlotPolicies
  <1>20. layout \in LayoutPolicies => SlotTables(q)
    BY <1>1, <1>17, <1>18, <1>19 DEF SlotTables
  <1> QED BY <1>1, <1>2, <1>3, <1>4, <1>5, <1>6, <1>11, <1>14, <1>15, <1>20

LEMMA CompiledPlans ==
  ASSUME NodesRecorded, nodes # <<>>, NEW layout \in LayoutPolicies
  PROVE  /\ TreeTables(CompilePlan(nodes, layout))
         /\ TasksTyped(CompilePlan(nodes, layout))
         /\ SlotTables(CompilePlan(nodes, layout))
         /\ ValidatePlan(CompilePlan(nodes, layout)) = ValidatePlan(tables)
  <1>1. TreeTables(tables) /\ TasksTyped(tables)
    BY RecordedTables
  <1>2. CompilePlan(nodes, layout) = RunTables(tables, layout)
    BY DEF CompilePlan, tables
  <1> QED BY <1>1, <1>2, SameTables

LEMMA TasksAreWellFormed ==
  ASSUME NEW t, NEW layout, NEW q, q = RunTables(t, layout), ValidTables(q)
  PROVE  TasksWellFormed(q)
  <1>1. /\ q.owner = CanonicalOwners(q)
        /\ q.staging = [i \in NodesOf(q) |-> RequiresFanoutStaging(q, i)]
        /\ q.staged_copy = [i \in NodesOf(q) |-> UsesStagedCopyPrev(q, i)]
    BY SameTables
  <1>2. \A i \in NodesOf(q) :
          /\ q.task[i].kind \in Kinds
          /\ q.task[i].specs \in Seq(PrevAccessKinds)
    BY DEF ValidTables, TasksTyped
  <1>3. \A i \in NodesOf(q) :
          UsesPrevAccess(q.task[i]) \/ IsForwardPrev(q.task[i]) => HasParentOutput(q, i)
    BY ValidPlans DEF ValidTables
  <1>4. ConsumersReadLast(q)
    BY ConsumersAreLast
  <1> QED BY <1>1, <1>2, <1>3, <1>4 DEF TasksWellFormed

-------------------------------------------------------------------------------
(* Paths and slots.                                                        *)

LEMMA DepthsCountThePath ==
  ASSUME NEW p, TreeTables(p), NEW j \in NodesOf(p)
  PROVE  /\ PayloadDepths(p)[j] = Cardinality({i \in RootPath(p, j) : PayloadNode(p, i)})
         /\ \A i \in RootPath(p, j) :
              /\ PayloadDepths(p)[i] <= PayloadDepths(p)[j]
              /\ i # j /\ PayloadNode(p, j) => PayloadDepths(p)[i] < PayloadDepths(p)[j]
         /\ 0 \in RootPath(p, j)
  <1> DEFINE depth == PayloadDepths(p)
             n == p.n
             N == 0 .. n - 1
             own(k) == IF PayloadNode(p, k) THEN 1 ELSE 0
             Owned(k) == {i \in RootPath(p, k) : PayloadNode(p, i)}
             Counted(k) ==
               /\ IsFiniteSet(Owned(k)) /\ depth[k] = Cardinality(Owned(k))
               /\ \A i \in RootPath(p, k) :
                    depth[i] <= depth[k] /\ (i # k /\ PayloadNode(p, k) => depth[i] < depth[k])
               /\ 0 \in RootPath(p, k)
             S == {k \in N : Counted(k)}
  <1>1. /\ n \in Nat /\ \A k \in N : p.parent[k] = n \/ p.parent[k] \in 0 .. k - 1
        /\ \A k \in N : p.parent[k] = n <=> k = 0
    <2>1. \A k \in NodesOf(p) : p.parent[k] = p.n <=> k = 0
      BY ParentsOfATree
    <2> QED BY <2>1, ParentsAreEarlier DEF NodesOf
  <1>2. \A k \in N :
          /\ RootPath(p, k) = {k} \cup (IF p.parent[k] = n THEN {} ELSE RootPath(p, p.parent[k]))
          /\ RootPath(p, k) \in SUBSET (0 .. k) /\ RootPath(p, k) \in SUBSET N
    BY RootPaths DEF NodesOf
  <1>3. \A k \in N :
          /\ depth[k] = (IF p.parent[k] = n THEN 0 ELSE depth[p.parent[k]]) + own(k)
          /\ depth[k] \in Nat
    BY PayloadDepthsAlongPaths DEF NodesOf
  <1> HIDE DEF depth, n
  <1>4. ASSUME NEW k \in 0 .. n - 1, \A l \in 0 .. k - 1 : l \in S PROVE k \in S
    <2>1. CASE p.parent[k] = n
      <3>1. RootPath(p, k) = {k} /\ depth[k] = own(k) /\ k = 0
        BY <1>1, <1>2, <1>3, <2>1
      <3>2. IsFiniteSet(Owned(k)) /\ Cardinality(Owned(k)) = own(k)
        <4>1. CASE PayloadNode(p, k)
          <5>1. Owned(k) = {k}
            BY <3>1, <4>1
          <5> HIDE DEF Owned
          <5> QED BY <4>1, <5>1, FS_Singleton
        <4>2. CASE ~PayloadNode(p, k)
          <5>1. Owned(k) = {}
            BY <3>1, <4>2
          <5> HIDE DEF Owned
          <5> QED BY <4>2, <5>1, FS_EmptySet
        <4> QED BY <4>1, <4>2
      <3>3. depth[k] <= depth[k]
        BY <1>3
      <3> HIDE DEF own, Owned
      <3> QED BY <3>1, <3>2, <3>3
    <2>2. CASE p.parent[k] # n
      <3>1. PICK q \in 0 .. k - 1 : q = p.parent[k]
        BY <1>1, <2>2
      <3>2. q \in S
        BY <1>4, <3>1
      <3>3. Counted(q) /\ q \in N
        BY <3>2
      <3>4. RootPath(p, k) = {k} \cup RootPath(p, q) /\ depth[k] = depth[q] + own(k)
        BY <1>2, <1>3, <2>2, <3>1
      <3>5. k \notin RootPath(p, q)
        <4>1. \A x \in RootPath(p, q) : x \in 0 .. q
          BY <1>2, <3>3
        <4> QED BY <3>1, <4>1
      <3>6. IsFiniteSet(Owned(k)) /\ depth[k] = Cardinality(Owned(k))
        <4>0. depth[q] \in Nat /\ k \notin Owned(q)
          BY <1>3, <3>3, <3>5
        <4>1. CASE PayloadNode(p, k)
          <5>1. Owned(k) = Owned(q) \cup {k}
            BY <3>4, <4>1
          <5> HIDE DEF Owned
          <5>2. IsFiniteSet(Owned(k)) /\ Cardinality(Owned(k)) = Cardinality(Owned(q)) + 1
            BY <3>3, <4>0, <5>1, FS_AddElement
          <5> QED BY <3>3, <3>4, <4>1, <5>2
        <4>2. CASE ~PayloadNode(p, k)
          <5>1. Owned(k) = Owned(q)
            BY <3>4, <4>2
          <5> HIDE DEF Owned
          <5> QED BY <3>3, <3>4, <4>0, <4>2, <5>1
        <4> QED BY <4>1, <4>2
      <3>7. ASSUME NEW i \in RootPath(p, k)
            PROVE  depth[i] <= depth[k] /\ (i # k /\ PayloadNode(p, k) => depth[i] < depth[k])
        <4>1. depth[q] \in Nat /\ depth[k] \in Nat /\ depth[i] \in Nat
          BY <1>2, <1>3, <3>3
        <4>2. CASE i = k
          BY <4>1, <4>2
        <4>3. CASE i \in RootPath(p, q)
          <5>1. depth[i] <= depth[q]
            BY <3>3, <4>3
          <5> QED BY <3>4, <4>1, <5>1
        <4> QED BY <3>4, <4>2, <4>3
      <3>8. 0 \in RootPath(p, k)
        BY <3>3, <3>4
      <3> HIDE DEF Owned
      <3> QED BY <3>6, <3>7, <3>8
    <2> QED BY <2>1, <2>2
  <1>5. \A k \in 0 .. n - 1 : k \in S
    <2> HIDE DEF S
    <2> QED BY <1>1, <1>4, UpTo
  <1>6. Counted(j)
    <2>1. j \in S
      <3> HIDE DEF S
      <3> QED BY <1>5 DEF NodesOf, n
    <2> HIDE DEF Counted
    <2> QED BY <2>1
  <1> QED BY <1>6 DEF depth

LEMMA PathsHaveDistinctSlots ==
  ASSUME NEW p, TreeTables(p), SlotTables(p), TasksKnown(p)
  PROVE  /\ \A i, j \in NodesOf(p) :
              /\ PayloadNode(p, i) /\ PayloadNode(p, j)
              /\ i # j /\ i \in RootPath(p, j)
              => p.slot[i] # p.slot[j]
         /\ p.layout = "compact" /\ p.n_slots > 0 =>
              \E j \in NodesOf(p) :
                p.n_slots = Cardinality({i \in RootPath(p, j) : PayloadNode(p, i)})
  <1> DEFINE depth == PayloadDepths(p)
  <1>1. \A i \in NodesOf(p) : depth[i] \in Nat
    BY PayloadDepthsAlongPaths
  <1>2. \A j \in NodesOf(p) :
          /\ depth[j] = Cardinality({i \in RootPath(p, j) : PayloadNode(p, i)})
          /\ \A i \in RootPath(p, j) : i # j /\ PayloadNode(p, j) => depth[i] < depth[j]
    BY DepthsCountThePath
  <1>3. SlotsWellFormed(p)
    BY SlotsAreWellFormed
  <1>4. p.layout \in LayoutPolicies
    BY DEF SlotTables
  <1> HIDE DEF depth
  <1>5. p.layout = "compact" =>
          \A i \in NodesOf(p) : PayloadNode(p, i) => p.slot[i] = depth[i] - 1
    BY <1>3 DEF SlotsWellFormed, depth
  <1>6. ASSUME NEW i \in NodesOf(p), NEW j \in NodesOf(p),
               PayloadNode(p, i), PayloadNode(p, j), i # j, i \in RootPath(p, j)
        PROVE  p.slot[i] # p.slot[j]
    <2>1. CASE p.layout = "one_to_one"
      BY <1>3, <1>6, <2>1 DEF SlotsWellFormed
    <2>2. CASE p.layout = "compact"
      <3>1. p.slot[i] = depth[i] - 1 /\ p.slot[j] = depth[j] - 1
        BY <1>5, <1>6, <2>2
      <3>2. depth[i] < depth[j] /\ depth[i] \in Nat /\ depth[j] \in Nat
        BY <1>1, <1>2, <1>6
      <3> QED BY <3>1, <3>2
    <2> QED BY <1>4, <2>1, <2>2 DEF LayoutPolicies
  <1>7. ASSUME p.layout = "compact", p.n_slots > 0
        PROVE  \E j \in NodesOf(p) :
                 p.n_slots = Cardinality({i \in RootPath(p, j) : PayloadNode(p, i)})
    <2>1. SlotsFilled(p, p.slot, p.n_slots)
      BY SlotsAreFilled
    <2>2. p.n_slots \in Nat /\ p.n_slots - 1 \in 0 .. p.n_slots - 1
      BY <1>7, <2>1 DEF SlotsFilled
    <2>3. PICK j \in NodesOf(p) : PayloadNode(p, j) /\ p.slot[j] = p.n_slots - 1
      BY <2>1, <2>2 DEF SlotsFilled
    <2>4. p.slot[j] = depth[j] - 1 /\ depth[j] \in Nat
      BY <1>1, <1>5, <1>7, <2>3
    <2>5. p.n_slots = depth[j]
      BY <2>2, <2>3, <2>4
    <2> QED BY <1>2, <2>5
  <1> QED BY <1>6, <1>7

-------------------------------------------------------------------------------
(* The walk.                                                               *)

(* The first child of a node is the next node recorded.                    *)
LEMMA FirstChildFollows ==
  ASSUME NEW p, TreeTables(p), NEW i \in NodesOf(p), p.child_counts[i] # 0
  PROVE  ChildAt(p, i, 0) = 1 + i
  <1> DEFINE K == Kids(p.parent, p.n, i)
  <1>1. PICK c : c = ChildAt(p, i, 0)
    OBVIOUS
  <1>2. /\ p.n \in Nat \ {0}
        /\ \A k \in 1 .. p.n - 1 : p.parent[k] \in 0 .. p.n - 1 /\ p.parent[k] < k
        /\ \A k, l \in NodesOf(p) :
             p.parent[l] < k /\ k < l => p.parent[k] # p.n /\ p.parent[l] <= p.parent[k]
    BY ParentsOfATree
  <1>3. p.child_counts[i] \in Nat /\ 0 \in 0 .. p.child_counts[i] - 1
    BY ChildrenOfANode
  <1>4. c \in K /\ Cardinality({d \in K : d < c}) = 0
    BY <1>1, <1>3, ChildrenOfANode
  <1>5. c \in 1 .. p.n - 1 /\ p.parent[c] = i /\ i < c /\ i \in Nat
    BY <1>2, <1>4 DEF Kids, NodesOf
  <1>6. \A d \in K : ~(d < c)
    <2>1. IsFiniteSet({d \in K : d < c})
      <3>1. K \in SUBSET (0 .. p.n - 1) /\ p.n \in Nat /\ 0 \in Nat
        BY <1>2 DEF Kids
      <3> HIDE DEF K
      <3> QED BY <3>1, Ranks
    <2>2. {d \in K : d < c} = {}
      <3> HIDE DEF K
      <3> QED BY <1>4, <2>1, FS_EmptySet
    <2> HIDE DEF K
    <2> QED BY <2>2
  <1> SUFFICES ASSUME i + 1 < c PROVE FALSE
    BY <1>1, <1>5
  <1>7. i + 1 \in NodesOf(p) /\ c \in NodesOf(p) /\ i + 1 \in 1 .. p.n - 1
    BY <1>2, <1>5 DEF NodesOf
  <1>8. i <= p.parent[i + 1]
    BY <1>2, <1>5, <1>7
  <1>9. p.parent[i + 1] = i
    BY <1>2, <1>5, <1>7, <1>8
  <1> QED BY <1>6, <1>7, <1>9 DEF Kids

(* Between two consecutive children of a node lie the descendants of the   *)
(* earlier one, all of them.                                               *)
LEMMA SiblingFollowsSubtree ==
  ASSUME NEW p, TreeTables(p), NEW i \in NodesOf(p),
         NEW ord \in 1 .. p.child_counts[i] - 1
  PROVE  ChildAt(p, i, ord) = 1 + Largest(Subtree(p, ChildAt(p, i, ord - 1)))
  <1> DEFINE n == p.n
             K == Kids(p.parent, p.n, i)
             parent == p.parent
             rank(x) == Cardinality({d \in K : d < x})
  <1>1. PICK b, c : b = ChildAt(p, i, ord - 1) /\ c = ChildAt(p, i, ord)
    OBVIOUS
  <1>2. /\ n \in Nat \ {0} /\ n \in Nat
        /\ \A k \in 1 .. n - 1 : parent[k] \in 0 .. n - 1 /\ parent[k] < k
        /\ \A k, l \in 0 .. n - 1 :
             parent[l] < k /\ k < l => parent[k] # n /\ parent[l] <= parent[k]
    BY ParentsOfATree DEF NodesOf
  <1>3. /\ p.child_counts[i] \in Nat
        /\ ord \in 0 .. p.child_counts[i] - 1 /\ ord - 1 \in 0 .. p.child_counts[i] - 1
        /\ ord - 1 < ord /\ ord \in Nat
    <2>1. p.child_counts[i] \in Nat
      BY ChildrenOfANode
    <2> QED BY <2>1
  <1>4. b \in K /\ c \in K /\ b < c /\ rank(b) = ord - 1 /\ rank(c) = ord
    <2>1. /\ ChildAt(p, i, ord - 1) \in K /\ rank(ChildAt(p, i, ord - 1)) = ord - 1
          /\ ChildAt(p, i, ord) \in K /\ rank(ChildAt(p, i, ord)) = ord
      BY <1>3, ChildrenOfANode
    <2>2. ChildAt(p, i, ord - 1) < ChildAt(p, i, ord)
      BY <1>3, ChildrenOfANode
    <2> HIDE DEF K, rank
    <2> QED BY <1>1, <2>1, <2>2
  <1>5. /\ b \in 1 .. n - 1 /\ parent[b] = i /\ i < b
        /\ c \in 1 .. n - 1 /\ parent[c] = i /\ i < c
        /\ i \in Nat /\ b \in Nat /\ c \in Nat
    <2>1. b \in 1 .. n - 1 /\ parent[b] = i /\ c \in 1 .. n - 1 /\ parent[c] = i
      BY <1>4 DEF Kids
    <2> QED BY <1>2, <2>1 DEF NodesOf
  <1>6. ASSUME NEW x \in K, b < x, x < c PROVE FALSE
    <2>1. K \in SUBSET (0 .. n - 1) /\ 0 \in Nat
      BY <1>2 DEF Kids
    <2>2. \A y, z \in K : y < z => rank(y) < rank(z)
      <3> HIDE DEF K
      <3> QED BY <1>2, <2>1, Ranks
    <2>3. rank(x) \in Nat
      <3> HIDE DEF K
      <3> QED BY <1>2, <2>1, Ranks
    <2>4. ord - 1 < rank(x) /\ rank(x) < ord
      <3> HIDE DEF K, rank
      <3> QED BY <1>4, <1>6, <2>2
    <2> HIDE DEF rank
    <2> QED BY <1>3, <2>3, <2>4
  <1>7. \A k \in 0 .. n - 1 :
          /\ RootPath(p, k) = {k} \cup (IF parent[k] = n THEN {} ELSE RootPath(p, parent[k]))
          /\ RootPath(p, k) \in SUBSET (0 .. k) /\ k \in RootPath(p, k)
    BY RootPaths DEF NodesOf
  <1>8. \A k \in 1 .. n - 1 : RootPath(p, k) = {k} \cup RootPath(p, parent[k])
    <2>1. TAKE k \in 1 .. n - 1
    <2>2. k \in 0 .. n - 1 /\ parent[k] # n
      BY <1>2
    <2> QED BY <1>7, <2>2
  <1> DEFINE In == {k \in 0 .. n - 1 : b <= k /\ k < c => b \in RootPath(p, k)}
             Out == {k \in 0 .. n - 1 : c <= k => b \notin RootPath(p, k)}
  <1> HIDE DEF n, K, parent
  <1>9. ASSUME NEW k \in 0 .. n - 1, \A l \in 0 .. k - 1 : l \in In PROVE k \in In
    <2> SUFFICES ASSUME b <= k, k < c PROVE b \in RootPath(p, k)
      OBVIOUS
    <2>1. CASE k = b
      BY <1>7, <2>1
    <2>2. CASE k # b
      <3>1. k \in 1 .. n - 1 /\ c \in 0 .. n - 1 /\ b \in 0 .. n - 1 /\ b < k /\ i < k /\ k \in Nat
        BY <1>2, <1>5, <2>2
      <3>2. i <= parent[k] /\ parent[k] \in 0 .. n - 1 /\ parent[k] < k
        BY <1>2, <1>5, <3>1
      <3>3. parent[k] # i
        <4> SUFFICES ASSUME parent[k] = i PROVE FALSE
          OBVIOUS
        <4>1. k \in K
          BY <3>1 DEF K, n, parent, Kids
        <4> QED BY <1>6, <3>1, <4>1
      <3>4. b <= parent[k]
        <4> SUFFICES ASSUME parent[k] < b PROVE FALSE
          BY <1>2, <1>5, <3>2
        <4>1. parent[k] <= parent[b]
          BY <1>2, <3>1
        <4> QED BY <1>2, <1>5, <3>2, <3>3, <4>1
      <3>5. parent[k] \in 0 .. k - 1 /\ parent[k] < c
        BY <1>2, <1>5, <3>1, <3>2
      <3>6. parent[k] \in In
        BY <1>9, <3>5
      <3>7. b \in RootPath(p, parent[k])
        BY <3>4, <3>5, <3>6
      <3> QED BY <1>8, <3>1, <3>7
    <2> QED BY <2>1, <2>2
  <1>10. ASSUME NEW k \in 0 .. n - 1, \A l \in 0 .. k - 1 : l \in Out PROVE k \in Out
    <2> SUFFICES ASSUME c <= k, b \in RootPath(p, k) PROVE FALSE
      OBVIOUS
    <2>1. /\ k \in 1 .. n - 1 /\ c \in 0 .. n - 1 /\ k \in Nat /\ b # k
          /\ parent[k] \in 0 .. n - 1 /\ parent[k] < k
      BY <1>2, <1>4, <1>5
    <2>2. b \in RootPath(p, parent[k])
      BY <1>8, <2>1
    <2>3. parent[k] < c
      <3> SUFFICES ASSUME c <= parent[k] PROVE FALSE
        BY <1>2, <1>5, <2>1
      <3>1. parent[k] \in 0 .. k - 1
        BY <1>2, <2>1
      <3>2. parent[k] \in Out
        BY <1>10, <3>1
      <3> QED BY <2>2, <3>2
    <2>4. parent[k] <= i
      <3>1. CASE k = c
        BY <1>5, <3>1
      <3>2. CASE k # c
        BY <1>2, <1>5, <2>1, <2>3, <3>2
      <3> QED BY <3>1, <3>2
    <2>5. b \in 0 .. parent[k]
      BY <1>7, <2>1, <2>2
    <2> QED BY <1>5, <2>1, <2>4, <2>5
  <1>11. \A k \in 0 .. n - 1 : k \in In
    <2> HIDE DEF In
    <2> QED BY <1>2, <1>9, UpTo
  <1>12. \A k \in 0 .. n - 1 : k \in Out
    <2> HIDE DEF Out
    <2> QED BY <1>2, <1>10, UpTo
  <1> DEFINE T == Subtree(p, b)
  <1>13. \A k : k \in T <=> k \in 0 .. n - 1 /\ b \in RootPath(p, k)
    BY DEF Subtree, NodesOf, n
  <1> HIDE DEF T
  <1>14. T \in SUBSET (0 .. n - 1) /\ c - 1 \in T
    <2>1. c - 1 \in 0 .. n - 1 /\ b <= c - 1 /\ c - 1 < c
      BY <1>2, <1>4, <1>5
    <2> QED BY <1>11, <1>13, <2>1
  <1>15. \A k \in T : k < c /\ k \in Nat
    BY <1>2, <1>5, <1>12, <1>13
  <1>16. Largest(T) \in T /\ \A k \in T : k <= Largest(T)
    BY <1>2, <1>14, LargestNumber
  <1>17. Largest(T) = c - 1
    <2>1. PICK m \in Nat : m = Largest(T)
      BY <1>15, <1>16
    <2>2. m < c /\ c - 1 <= m
      BY <1>14, <1>15, <1>16, <2>1
    <2> QED BY <1>5, <2>1, <2>2
  <1> QED BY <1>1, <1>5, <1>17 DEF T

-------------------------------------------------------------------------------
(* The specification.                                                      *)

(* What was recorded is a tree, and what compiling reported is about it.   *)
(* The levels are what makes this inductive: every theorem below is about  *)
(* the tables computed from them.                                          *)
IInv ==
  /\ NodesRecorded
  /\ verdict # "building" => nodes # <<>> /\ verdict = ValidatePlan(tables)

LEMMA InitRecords == ASSUME Init PROVE IInv
  BY DEF Init, IInv, NodesRecorded

LEMMA StepRecords == ASSUME IInv, [Next]_vars PROVE IInv'
  <1>1. ASSUME NEW level \in 0 .. menu.max_nodes - 1, NEW t \in menu.tasks,
               NEW fanout \in menu.fanouts, AppendNode(level, t, fanout)
        PROVE  IInv'
    <2> DEFINE R == [level : Nat, task : menu.tasks, fanout : menu.fanouts]
               e == [level |-> level, task |-> t, fanout |-> fanout]
               n == Len(nodes)
    <2>1. /\ verdict' = "building" /\ menu' = menu /\ nodes' = Append(nodes, e)
          /\ AppendLevelValid(nodes, level)
      BY <1>1 DEF AppendNode
    <2>2. nodes \in Seq(R) /\ menu \in Menus
      BY DEF IInv, NodesRecorded
    <2>3. menu.max_nodes \in Nat \ {0}
      BY <2>2, MenuAssumption
    <2>4. e \in R /\ e.level = level
      <3>1. level \in Nat
        BY <2>3
      <3> QED BY <3>1
    <2> HIDE DEF R, e
    <2>5. /\ nodes' \in Seq(R) /\ Len(nodes') = n + 1 /\ n \in Nat
          /\ \A i \in 1 .. n : nodes'[i] = nodes[i]
          /\ nodes'[n + 1] = e
      BY <2>1, <2>2, <2>4
    <2>6. ASSUME NEW i \in 1 .. Len(nodes')
          PROVE  IF i = 1 THEN nodes'[i].level = 0
                 ELSE nodes'[i].level # 0 /\ nodes'[i].level <= nodes'[i - 1].level + 1
      <3>1. CASE i \in 1 .. n
        <4>1. i # 1 => i - 1 \in 1 .. n
          BY <2>5, <3>1
        <4>2. IF i = 1 THEN nodes[i].level = 0
              ELSE nodes[i].level # 0 /\ nodes[i].level <= nodes[i - 1].level + 1
          BY <3>1 DEF IInv, NodesRecorded
        <4>3. nodes'[i] = nodes[i] /\ (i # 1 => nodes'[i - 1] = nodes[i - 1])
          BY <2>5, <3>1, <4>1
        <4> QED BY <4>2, <4>3
      <3>2. CASE i = n + 1
        <4>1. nodes'[i].level = level
          BY <2>4, <2>5, <3>2
        <4>2. CASE n = 0
          <5>1. nodes = <<>>
            BY <2>2, <4>2
          <5>2. level = 0 /\ i = 1
            BY <2>1, <3>2, <4>2, <5>1 DEF AppendLevelValid
          <5> QED BY <4>1, <5>2
        <4>3. CASE n # 0
          <5>1. nodes # <<>> /\ i # 1 /\ i - 1 = n /\ n \in 1 .. n
            BY <2>5, <3>2, <4>3
          <5>2. level # 0 /\ level <= nodes[n].level + 1
            BY <2>1, <5>1 DEF AppendLevelValid
          <5>3. nodes'[i - 1] = nodes[n]
            BY <2>5, <5>1
          <5> QED BY <4>1, <5>1, <5>2, <5>3
        <4> QED BY <4>2, <4>3
      <3> QED BY <2>5, <3>1, <3>2
    <2>7. NodesRecorded'
      BY <2>1, <2>2, <2>5, <2>6 DEF NodesRecorded, R
    <2> QED BY <2>1, <2>7 DEF IInv
  <1>2. CASE Compile
    <2>1. /\ nodes # <<>> /\ nodes' = nodes /\ menu' = menu
          /\ verdict' = ValidatePlan(CompiledTables(nodes))
      BY <1>2 DEF Compile
    <2>2. NodesRecorded'
      BY <2>1 DEF IInv, NodesRecorded
    <2>3. tables' = CompiledTables(nodes)
      BY <2>1 DEF tables
    <2> QED BY <2>1, <2>2, <2>3 DEF IInv
  <1>3. CASE UNCHANGED vars
    <2>1. nodes' = nodes /\ menu' = menu /\ verdict' = verdict
      BY <1>3 DEF vars
    <2>2. tables' = tables
      BY <2>1 DEF tables
    <2> QED BY <2>1, <2>2 DEF IInv, NodesRecorded
  <1> QED BY <1>1, <1>2, <1>3 DEF Next

(* What every builder has recorded continues a tree, node by node, and     *)
(* compiling reports what validation says of its tables.                   *)
THEOREM Recordings == Spec => []IInv
  <1>1. Init => IInv
    BY InitRecords
  <1>2. IInv /\ [Next]_vars => IInv'
    BY StepRecords
  <1> QED BY <1>1, <1>2, PTL DEF Spec

LEMMA AcceptedTables ==
  ASSUME IInv, Accepted
  PROVE  /\ NodesRecorded /\ nodes # <<>>
         /\ ValidTables(tables)
         /\ \A layout \in LayoutPolicies :
              /\ ValidTables(CompilePlan(nodes, layout))
              /\ SlotTables(CompilePlan(nodes, layout))
              /\ TasksKnown(CompilePlan(nodes, layout))
  <1>1. /\ NodesRecorded /\ nodes # <<>> /\ ValidatePlan(tables) = "ok"
    BY DEF IInv, Accepted
  <1>2. ValidTables(tables)
    BY <1>1, RecordedTables DEF ValidTables
  <1>3. \A layout \in LayoutPolicies :
          /\ ValidTables(CompilePlan(nodes, layout))
          /\ SlotTables(CompilePlan(nodes, layout))
    BY <1>1, CompiledPlans DEF ValidTables
  <1>4. \A layout \in LayoutPolicies : TasksKnown(CompilePlan(nodes, layout))
    BY <1>3 DEF ValidTables, TasksTyped, TasksKnown
  <1> QED BY <1>1, <1>2, <1>3, <1>4

(* Compiling yields, in both layouts, the well-formed plans on which the   *)
(* theorems about slots and executors rest.                                *)
THEOREM CompiledPlansAreWellFormed == Spec => []AcceptedPlansAreWellFormed
  <1>1. ASSUME IInv, Accepted, NEW layout \in LayoutPolicies
        PROVE  WellFormed(CompilePlan(nodes, layout))
    <2>1. PICK q : q = CompilePlan(nodes, layout)
      OBVIOUS
    <2>2. ValidTables(q) /\ SlotTables(q) /\ TasksKnown(q)
      BY <1>1, <2>1, AcceptedTables
    <2>3. TreeWellFormed(q)
      BY <2>2, TreeIsWellFormed DEF ValidTables
    <2>4. SlotsWellFormed(q)
      BY <2>2, SlotsAreWellFormed DEF ValidTables
    <2>5. q = RunTables(CompiledTables(nodes), layout)
      BY <2>1 DEF CompilePlan
    <2>6. TasksWellFormed(q)
      BY <2>2, <2>5, TasksAreWellFormed
    <2> QED BY <2>1, <2>3, <2>4, <2>6 DEF WellFormed
  <1>2. IInv => AcceptedPlansAreWellFormed
    BY <1>1 DEF AcceptedPlansAreWellFormed
  <1> QED BY <1>2, Recordings, PTL

(* The flattened child ranges are the tree that was written, and walking   *)
(* them depth first visits the nodes in recording order.                   *)
THEOREM WalksFollowTheRecording == Spec => []ChildRangesArePreorder
  <1>1. ASSUME IInv, Recorded
        PROVE  ChildRangesArePreorder
    <2>1. PICK t : t = tables
      OBVIOUS
    <2>2. TreeTables(t)
      BY <1>1, <2>1, RecordedTables DEF IInv, Recorded
    <2>3. Subtree(t, 0) = NodesOf(t)
      <3>1. \A j \in NodesOf(t) : 0 \in RootPath(t, j)
        BY <2>2, DepthsCountThePath
      <3> QED BY <3>1 DEF Subtree
    <2>4. ASSUME NEW i \in NodesOf(t)
          PROVE  /\ Children(t, i) = {c \in NodesOf(t) : t.parent[c] = i}
                 /\ \A c \in Children(t, i) : t.level[c] = t.level[i] + 1
                 /\ \A ord \in 0 .. t.child_counts[i] - 1 :
                      ChildAt(t, i, ord) =
                        1 + IF ord = 0 THEN i ELSE Largest(Subtree(t, ChildAt(t, i, ord - 1)))
      <3>1. Children(t, i) = {c \in NodesOf(t) : t.parent[c] = i}
        BY <2>2, ChildrenAreTheKids
      <3>2. TreeWellFormed(t)
        BY <2>2, TreeIsWellFormed
      <3>3. \A c \in Children(t, i) : t.level[c] = t.level[i] + 1
        BY <3>2 DEF Children, TreeWellFormed
      <3>4. t.child_counts[i] \in Nat
        BY <2>2, ChildrenOfANode
      <3>5. ASSUME NEW ord \in 0 .. t.child_counts[i] - 1
            PROVE  ChildAt(t, i, ord) =
                     1 + IF ord = 0 THEN i ELSE Largest(Subtree(t, ChildAt(t, i, ord - 1)))
        <4>1. CASE ord = 0
          <5>1. t.child_counts[i] # 0
            BY <3>4, <4>1
          <5>2. ChildAt(t, i, 0) = 1 + i
            BY <2>2, <5>1, FirstChildFollows
          <5> QED BY <4>1, <5>2
        <4>2. CASE ord # 0
          <5>1. ord \in 1 .. t.child_counts[i] - 1
            BY <3>4, <4>2
          <5>2. ChildAt(t, i, ord) = 1 + Largest(Subtree(t, ChildAt(t, i, ord - 1)))
            BY <2>2, <5>1, SiblingFollowsSubtree
          <5> QED BY <4>2, <5>2
        <4> QED BY <4>1, <4>2
      <3> QED BY <3>1, <3>3, <3>5
    <2> QED BY <2>1, <2>3, <2>4 DEF ChildRangesArePreorder
  <1>2. IInv => ChildRangesArePreorder
    BY <1>1 DEF ChildRangesArePreorder
  <1> QED BY <1>2, Recordings, PTL

(* In both layouts the payloads of a root path live in slots of their own, *)
(* and the compact layout has no more slots than some path fills.          *)
THEOREM LivePayloadsHaveSlots == Spec => []PathSlotsAreDistinct
  <1>1. ASSUME IInv, Accepted, NEW layout \in LayoutPolicies, NEW p, p = CompilePlan(nodes, layout)
        PROVE  /\ \A i, j \in NodesOf(p) :
                    /\ PayloadNode(p, i) /\ PayloadNode(p, j)
                    /\ i # j /\ i \in RootPath(p, j)
                    => p.slot[i] # p.slot[j]
               /\ layout = "compact" /\ p.n_slots > 0 =>
                    \E j \in NodesOf(p) :
                      p.n_slots = Cardinality({i \in RootPath(p, j) : PayloadNode(p, i)})
    <2>1. TreeTables(p) /\ SlotTables(p) /\ TasksKnown(p)
      BY <1>1, AcceptedTables DEF ValidTables
    <2>2. p.layout = layout
      BY <1>1 DEF CompilePlan, RunTables
    <2> QED BY <2>1, <2>2, PathsHaveDistinctSlots
  <1>2. IInv => PathSlotsAreDistinct
    BY <1>1 DEF PathSlotsAreDistinct
  <1> QED BY <1>2, Recordings, PTL

(* A task of an accepted plan that reads its parent's output reads an      *)
(* owned payload of the same type on its own root path, passed on by       *)
(* nothing but forward-prev nodes.                                         *)
THEOREM ReadersFindASource == Spec => []ReadersHaveASource
  <1>1. ASSUME IInv, Accepted, NEW d \in NodesOf(tables), UsesPrevAccess(tables.task[d])
        PROVE  /\ tables.parent[d] # tables.n
               /\ LET o == CanonicalOwners(tables)[tables.parent[d]]
                  IN  /\ o \in RootPath(tables, tables.parent[d])
                      /\ PayloadNode(tables, o)
                      /\ \A f \in RootPath(tables, tables.parent[d]) :
                           f > o => /\ IsForwardPrev(tables.task[f])
                                    /\ tables.task[f].type = tables.task[o].type
    <2>1. PICK t : t = tables
      OBVIOUS
    <2>2. ValidTables(t) /\ d \in NodesOf(t) /\ UsesPrevAccess(t.task[d])
      BY <1>1, <2>1, AcceptedTables
    <2>3. t.parent[d] # t.n /\ ~OutputIsVoid(t.task[t.parent[d]])
      BY <2>2, ValidPlans DEF ValidTables, HasParentOutput
    <2>4. t.parent[d] \in NodesOf(t)
      <3>1. /\ t.n \in Nat
            /\ \A i \in 0 .. t.n - 1 : t.parent[i] = t.n \/ t.parent[i] \in 0 .. i - 1
        BY <2>2, ParentsAreEarlier DEF ValidTables
      <3> QED BY <2>2, <2>3, <3>1 DEF NodesOf
    <2> QED BY <2>1, <2>2, <2>3, <2>4, OutputsHaveASource
  <1>2. IInv => ReadersHaveASource
    BY <1>1 DEF ReadersHaveASource
  <1> QED BY <1>2, Recordings, PTL

(* In an accepted plan nobody reads a payload a task has consumed.         *)
THEOREM NothingReadsMovedPayloads == Spec => []ConsumerReadsLast
  <1>1. IInv => ConsumerReadsLast
    BY AcceptedTables, ConsumersAreLast DEF ConsumerReadsLast
  <1> QED BY <1>1, Recordings, PTL

(* compile_plan and run_plan accept the same plans, but for those that     *)
(* forward an output of another type.                                      *)
THEOREM ValidatorsAgreeOnPlans == Spec => []ValidatorsAgree
  <1>1. ASSUME IInv, verdict # "building"
        PROVE  /\ Accepted => RunPlanAccepts(tables)
               /\ RunPlanRules(tables) =>
                    Accepted \/ verdict = "forward_prev_parent_type_mismatch"
    <2>1. PICK t : t = tables
      OBVIOUS
    <2>2. verdict = ValidatePlan(t) /\ nodes # <<>> /\ NodesRecorded
      BY <1>1, <2>1 DEF IInv
    <2>3. t.n > 0
      <3>1. t.n \in Nat \ {0}
        BY <2>1, <2>2, RecordedTables, ParentsOfATree
      <3> QED BY <3>1
    <2>4. ASSUME ValidatePlan(t) = "ok" PROVE RunPlanRules(t)
      <3>1. \A i \in NodesOf(t) :
              /\ NodePrevSourceValid(t, i) /\ NodeForwardPrevSourceValid(t, i)
              /\ TaskPrevAccessValid(t.task[i])
              /\ ParentFanoutPolicyValid(t, i)
        BY <2>4, ValidPlans DEF NodePrevSourceValid, NodeForwardPrevSourceValid
      <3> QED BY <3>1 DEF RunPlanRules
    <2>5. ASSUME RunPlanRules(t)
          PROVE  ValidatePlan(t) \in {"ok", "forward_prev_parent_type_mismatch"}
      <3>1. \A i \in NodesOf(t) :
              /\ ~RootPrevAccess(t, i) /\ ~VoidParentPrevAccess(t, i)
              /\ ~RootForwardPrev(t, i) /\ ~VoidParentForwardPrev(t, i)
              /\ TaskPrevAccessValid(t.task[i])
              /\ ParentFanoutPolicyValid(t, i)
        BY <2>5 DEF RunPlanRules, NodePrevSourceValid, NodeForwardPrevSourceValid, HasParentOutput,
                    RootPrevAccess, VoidParentPrevAccess, RootForwardPrev, VoidParentForwardPrev
      <3> QED BY <3>1 DEF ValidatePlan
    <2> QED BY <2>1, <2>2, <2>3, <2>4, <2>5 DEF Accepted, RunPlanAccepts
  <1>2. IInv => ValidatorsAgree
    BY <1>1 DEF ValidatorsAgree
  <1> QED BY <1>2, Recordings, PTL

-------------------------------------------------------------------------------
(* Overloads: which one a call on a binder selects.                        *)

(* Whether an overload takes a call.                                       *)
Fits(o, form, subject, extras) ==
  /\ o.form = form
  /\ subject \in o.subjects
  /\ Len(o.extras) = Len(extras)
  /\ \A k \in DOMAIN extras : extras[k] \in o.extras[k]

(* A call that exactly one overload takes selects it.                      *)
LEMMA OnlyOverload ==
  ASSUME NEW form, NEW subject, NEW extras,
         NEW o \in Overloads, Fits(o, form, subject, extras),
         \A p \in Overloads : Fits(p, form, subject, extras) => p = o
  PROVE  Outcome(form, subject, extras) = o.act
  <1>1. form \in {p.form : p \in Overloads}
    BY DEF Fits
  <1>2. OverloadsOf[form] = {p \in Overloads : p.form = form}
    BY <1>1 DEF OverloadsOf
  <1>3. Viable(form, subject, extras) = {o}
    BY <1>2, Zenon DEF Viable, Fits
  <1>4. Preferred(form, subject, extras) = {o}
    BY <1>3 DEF Preferred, MoreConstrained
  <1>5. Cardinality({o}) = 1
    BY FS_Singleton
  <1>6. (CHOOSE p \in {o} : TRUE) = o
    OBVIOUS
  <1>7. {o} # {} /\ ~(Cardinality({o}) > 1)
    BY <1>5
  <1> QED BY <1>4, <1>6, <1>7, Zenon DEF Outcome

(* Every family's overloads are of its own forms, whatever their subjects  *)
(* and extras.                                                             *)
LEMMA FormsAreTheirs ==
  /\ \A o \in NodeCore \cup NodeDiagnostics :
       o.form \in FormNames(node)
  /\ \A o \in RootCore \cup RootDiagnostics :
       o.form \in FormNames(root)
  /\ \A o \in TaskOverloads :
       o.form \in FormNames(task) \cup {"bind_member", "bind_into_member"}
  <1> DEFINE F(f) == {f.plain, f.into, f.member, f.into_member, f.forward, f.forward_member}
  <1>1. ASSUME NEW f, NEW o,
               o \in CoreOrdinary(f) \cup CoreMember(f)
                       \cup CoreForward(f)
        PROVE  o.form \in F(f)
    BY <1>1 DEF CoreOrdinary, CoreMember, CoreForward, Takes
  <1>2. ASSUME NEW f, NEW o,
               o \in RefuseOrdinary(f) \cup RefuseForward(f)
                       \cup RefuseForwardMember(f) \cup RefuseMember(f)
                       \cup RefuseIntoMember(f)
        PROVE  o.form \in F(f)
    BY <1>2
    DEF RefuseOrdinary, RefuseForward, RefuseForwardMember,
        RefuseMember, RefuseIntoMember, MissingReceiver,
        WrongMember, Refuses
  <1>3. ASSUME NEW o \in TaskOverloads
        PROVE  o.form \in F(task) \cup {"bind_member", "bind_into_member"}
    BY DEF TaskOverloads, TaskCore, TaskMemberCore,
           TaskRefuseOrdinary, TaskRefuseForward, TaskRefuseMember,
           TaskRefuseIntoMember, BindMembers, TaskMissingReceiver,
           TaskWrongMember, Takes, Refuses
  <1>4. ASSUME NEW f PROVE F(f) = FormNames(f)
    BY DEF FormNames, Kinds6
  <1> QED
    BY <1>1, <1>2, <1>3, <1>4, Zenon
    DEF NodeCore, NodeDiagnostics, RootCore, RootDiagnostics,
        RootCoreOrdinary, RootCoreMember, RootCoreForward,
        RootRefuseOrdinary, RootRefuseForward, RootRefuseMember

(* The names of the forms, family by family.                               *)
LEMMA FormNamesAre ==
  /\ FormNames(node) = {"node", "node_into", "node_member", "node_into_member",
              "node_forward_prev", "node_forward_prev_member"}
  /\ FormNames(root) = {"root", "root_into", "root_member", "root_into_member",
              "root_forward_prev", "root_forward_prev_member"}
  /\ FormNames(task) = {"task", "task_into", "task_member", "task_into_member",
              "task_forward_prev", "task_forward_prev_member"}
  BY DEF FormNames, Kinds6, node, root, task,
       Forms

(* A call of a task_* form is up to the overloads of that family.          *)
LEMMA OnlyTaskOverload ==
  ASSUME NEW form \in FormNames(task), NEW subject, NEW extras,
         NEW o \in TaskOverloads, Fits(o, form, subject, extras),
         \A p \in TaskOverloads : Fits(p, form, subject, extras) => p = o
  PROVE  Outcome(form, subject, extras) = o.act
  <1>1. o \in Overloads
    BY DEF Overloads
  <1>2. ASSUME NEW p \in Overloads, Fits(p, form, subject, extras)
        PROVE  p = o
    <2>1. p.form = form
      BY <1>2 DEF Fits
    <2>2. p \in TaskOverloads
      BY <2>1, FormsAreTheirs, FormNamesAre DEF Overloads, TreeOverloads
    <2> QED BY <1>2, <2>2
  <1> QED BY <1>1, <1>2, OnlyOverload

(* A call of node or node_into is up to the overloads of node_*.           *)
LEMMA OnlyNodeOverload ==
  ASSUME NEW form \in {"node", "node_into"}, NEW subject, NEW extras,
         NEW o \in NodeCore \cup NodeDiagnostics,
         Fits(o, form, subject, extras),
         \A p \in NodeCore \cup NodeDiagnostics :
           Fits(p, form, subject, extras) => p = o
  PROVE  Outcome(form, subject, extras) = o.act
  <1>1. o \in Overloads
    BY DEF Overloads, TreeOverloads
  <1>2. ASSUME NEW p \in Overloads, Fits(p, form, subject, extras)
        PROVE  p = o
    <2>1. p.form = form
      BY <1>2 DEF Fits
    <2>2. p \in NodeCore \cup NodeDiagnostics
      BY <2>1, FormsAreTheirs, FormNamesAre DEF Overloads, TreeOverloads
    <2> QED BY <1>2, <2>2
  <1> QED BY <1>1, <1>2, OnlyOverload

(* Two arguments, one after the other.                                     *)
LEMMA TwoInARow ==
  ASSUME NEW x, NEW y
  PROVE  <<x>> \o <<y>> = <<x, y>>
  <1>1. <<x>> \in Seq({x, y}) /\ y \in {x, y}
    OBVIOUS
  <1>2. Append(<<x>>, y) = <<x>> \o <<y>>
    BY <1>1, AppendIsConcat
  <1>3. /\ Append(<<x>>, y) \in Seq({x, y}) /\ Len(Append(<<x>>, y)) = 2
        /\ Append(<<x>>, y)[1] = x /\ Append(<<x>>, y)[2] = y
    BY <1>1, AppendProperties
  <1>4. <<x, y>> \in Seq({x, y}) /\ Len(<<x, y>>) = 2
    OBVIOUS
  <1>5. \A i \in 1 .. 2 : Append(<<x>>, y)[i] = <<x, y>>[i]
    BY <1>3
  <1>6. Append(<<x>>, y) = <<x, y>>
    BY <1>3, <1>4, <1>5, SeqEqual
  <1> QED BY <1>2, <1>6

(* The overloads of the member forms that take a receiver and a chain.     *)
LEMMA MemberBinders ==
  LET M(form, subjects) ==
        Takes(form, subjects, <<{"receiver", "policy"}, {"chain"}>>, "bind")
  IN  /\ M("task_member", {"ordinary_member"}) \in TaskOverloads
      /\ M("task_forward_prev_member", {"ordinary_member"}) \in TaskOverloads
      /\ M("task_into_member", {"direct_member"}) \in TaskOverloads
  <1> DEFINE extras == <<{"receiver", "policy"}, {"chain"}>>
             chain == << {"chain"} >>
             M(form, subjects, t) ==
               Takes(form, subjects, <<Extras \ Chain>> \o t, "bind")
  <1>1. Extras \ Chain = {"receiver", "policy"} /\ Chain = {"chain"}
    BY DEF Extras, Chain
  <1>2. <<Extras \ Chain>> \o chain = extras
    BY <1>1, TwoInARow
  <1>3. chain \in OptionalChain
    BY DEF OptionalChain, Chain
  <1>4. /\ task.member = "task_member"
        /\ task.forward_member = "task_forward_prev_member"
        /\ task.into_member = "task_into_member"
        /\ OrdinaryMember = {"ordinary_member"}
        /\ DirectMember = {"direct_member"}
    BY DEF task, Forms, OrdinaryMember, DirectMember
  <1>5. /\ M("task_member", {"ordinary_member"}, chain) \in TaskMemberCore
        /\ M("task_forward_prev_member", {"ordinary_member"}, chain) \in TaskMemberCore
        /\ M("task_into_member", {"direct_member"}, chain) \in TaskMemberCore
    <2> HIDE DEF M, chain
    <2>1. TaskMemberCore =
            UNION {{M("task_member", {"ordinary_member"}, t),
                    M("task_into_member", {"direct_member"}, t),
                    M("task_forward_prev_member", {"ordinary_member"}, t)}
                      : t \in OptionalChain}
      BY <1>4, Zenon DEF TaskMemberCore, M
    <2> QED BY <2>1, <1>3
  <1> QED BY <1>2, <1>5 DEF TaskOverloads

(* Every task_* form takes the callable, receiver and chain that a binder  *)
(* of its kind passes, and no other overload does.                         *)
LEMMA TaskFormsTake ==
  LET chain == <<"chain">>
      receiver == <<"receiver", "chain">>
  IN  /\ Outcome("task", "ordinary_callable", chain) = "bind"
      /\ Outcome("task_into", "direct_callable", chain) = "bind"
      /\ Outcome("task_forward_prev", "ordinary_callable", chain) = "bind"
      /\ Outcome("task_member", "ordinary_member", receiver) = "bind"
      /\ Outcome("task_forward_prev_member", "ordinary_member", receiver) = "bind"
      /\ Outcome("task_into_member", "direct_member", receiver) = "bind"
  <1> DEFINE chain == <<"chain">>
             receiver == <<"receiver", "chain">>
             binder(form, subject) ==
               Takes(form, {subject}, <<{"chain"}>>, "bind")
             member_binder(form, subject) ==
               Takes(form, {subject}, <<{"receiver", "policy"}, {"chain"}>>, "bind")
  <1> USE DEF Fits, TaskOverloads, TaskCore, TaskMemberCore,
              TaskRefuseOrdinary, TaskRefuseForward,
              TaskRefuseMember, TaskRefuseIntoMember, BindMembers,
              TaskMissingReceiver, TaskWrongMember, Takes,
              Refuses, OptionalChain, Chain, ReceiverSpec,
              Extras, OrdinaryCallable, DirectCallable,
              task, Forms, Tasks, Members,
              OrdinaryMember, DirectMember, DirectTaskObject
  <1>1. Outcome("task", "ordinary_callable", chain) = "bind"
    <2> DEFINE o == binder("task", "ordinary_callable")
    <2>1. o \in TaskOverloads
      OBVIOUS
    <2>2. Fits(o, "task", "ordinary_callable", chain) /\ o.act = "bind"
      OBVIOUS
    <2>3. ASSUME NEW p \in TaskOverloads,
                 Fits(p, "task", "ordinary_callable", chain)
          PROVE  p = o
      BY <2>3
    <2>4. "task" \in FormNames(task)
      BY FormNamesAre
    <2> HIDE DEF o, Fits
    <2> QED BY <2>1, <2>2, <2>3, <2>4, OnlyTaskOverload
  <1>2. Outcome("task_into", "direct_callable", chain) = "bind"
    <2> DEFINE o == binder("task_into", "direct_callable")
    <2>1. o \in TaskOverloads
      OBVIOUS
    <2>2. Fits(o, "task_into", "direct_callable", chain) /\ o.act = "bind"
      OBVIOUS
    <2>3. ASSUME NEW p \in TaskOverloads,
                 Fits(p, "task_into", "direct_callable", chain)
          PROVE  p = o
      BY <2>3
    <2>4. "task_into" \in FormNames(task)
      BY FormNamesAre
    <2> HIDE DEF o, Fits
    <2> QED BY <2>1, <2>2, <2>3, <2>4, OnlyTaskOverload
  <1>3. Outcome("task_forward_prev", "ordinary_callable", chain) = "bind"
    <2> DEFINE o == binder("task_forward_prev", "ordinary_callable")
    <2>1. o \in TaskOverloads
      OBVIOUS
    <2>2. Fits(o, "task_forward_prev", "ordinary_callable", chain) /\ o.act = "bind"
      OBVIOUS
    <2>3. ASSUME NEW p \in TaskOverloads,
                 Fits(p, "task_forward_prev", "ordinary_callable", chain)
          PROVE  p = o
      BY <2>3
    <2>4. "task_forward_prev" \in FormNames(task)
      BY FormNamesAre
    <2> HIDE DEF o, Fits
    <2> QED BY <2>1, <2>2, <2>3, <2>4, OnlyTaskOverload
  <1>4. Outcome("task_member", "ordinary_member", receiver) = "bind"
    <2> DEFINE o == member_binder("task_member", "ordinary_member")
    <2>1. o \in TaskOverloads
      BY MemberBinders
    <2>2. Fits(o, "task_member", "ordinary_member", receiver) /\ o.act = "bind"
      OBVIOUS
    <2>3. ASSUME NEW p \in TaskOverloads,
                 Fits(p, "task_member", "ordinary_member", receiver)
          PROVE  p = o
      BY <2>3
    <2>4. "task_member" \in FormNames(task)
      BY FormNamesAre
    <2> HIDE DEF o, Fits
    <2> QED BY <2>1, <2>2, <2>3, <2>4, OnlyTaskOverload
  <1>5. Outcome("task_forward_prev_member", "ordinary_member", receiver) = "bind"
    <2> DEFINE o == member_binder("task_forward_prev_member", "ordinary_member")
    <2>1. o \in TaskOverloads
      BY MemberBinders
    <2>2. Fits(o, "task_forward_prev_member", "ordinary_member", receiver) /\ o.act = "bind"
      OBVIOUS
    <2>3. ASSUME NEW p \in TaskOverloads,
                 Fits(p, "task_forward_prev_member", "ordinary_member", receiver)
          PROVE  p = o
      BY <2>3
    <2>4. "task_forward_prev_member" \in FormNames(task)
      BY FormNamesAre
    <2> HIDE DEF o, Fits
    <2> QED BY <2>1, <2>2, <2>3, <2>4, OnlyTaskOverload
  <1>6. Outcome("task_into_member", "direct_member", receiver) = "bind"
    <2> DEFINE o == member_binder("task_into_member", "direct_member")
    <2>1. o \in TaskOverloads
      BY MemberBinders
    <2>2. Fits(o, "task_into_member", "direct_member", receiver) /\ o.act = "bind"
      OBVIOUS
    <2>3. ASSUME NEW p \in TaskOverloads,
                 Fits(p, "task_into_member", "direct_member", receiver)
          PROVE  p = o
      BY <2>3
    <2>4. "task_into_member" \in FormNames(task)
      BY FormNamesAre
    <2> HIDE DEF o, Fits
    <2> QED BY <2>1, <2>2, <2>3, <2>4, OnlyTaskOverload
  <1> QED BY <1>1, <1>2, <1>3, <1>4, <1>5, <1>6

(* node and node_into take the task a binder has made, with a policy or    *)
(* without.                                                                *)
LEMMA NodeFormsTake ==
  /\ Outcome("node", "ordinary_task", <<>>) = "append"
  /\ Outcome("node", "ordinary_task", <<"policy">>) = "append"
  /\ Outcome("node_into", "direct_task", <<>>) = "append"
  /\ Outcome("node_into", "direct_task", <<"policy">>) = "append"
  <1> USE DEF Fits, NodeCore, NodeDiagnostics, CoreOrdinary,
            CoreMember, CoreForward, RefuseOrdinary,
            RefuseForward, RefuseForwardMember, RefuseMember,
            RefuseIntoMember, MissingReceiver, WrongMember,
            Takes, Refuses, OptionalPolicy, Configured,
            RefusedTails, ShortTails, Chain, Policy,
            PolicyOrChain, Receiver, OrdinaryCallable,
            DirectCallable, node, Forms, TaskObjects,
            Tasks, OrdinaryTaskObject, DirectTaskObject,
            Members, OrdinaryMember, DirectMember
  <1>1. Outcome("node", "ordinary_task", <<>>) = "append"
    <2> DEFINE o == Takes("node", {"ordinary_task", "opaque"}, <<>>, "append")
    <2>1. o \in NodeCore \cup NodeDiagnostics
      OBVIOUS
    <2>2. Fits(o, "node", "ordinary_task", <<>>) /\ o.act = "append"
      OBVIOUS
    <2>3. ASSUME NEW p \in NodeCore \cup NodeDiagnostics,
                 Fits(p, "node", "ordinary_task", <<>>)
          PROVE  p = o
      BY <2>3
    <2> HIDE DEF o, Fits, NodeCore, NodeDiagnostics
    <2> QED BY <2>1, <2>2, <2>3, OnlyNodeOverload
  <1>2. Outcome("node", "ordinary_task", <<"policy">>) = "append"
    <2> DEFINE o == Takes("node", {"ordinary_task", "opaque"}, <<{"policy"}>>, "append")
    <2>1. o \in NodeCore \cup NodeDiagnostics
      OBVIOUS
    <2>2. Fits(o, "node", "ordinary_task", <<"policy">>) /\ o.act = "append"
      OBVIOUS
    <2>3. ASSUME NEW p \in NodeCore \cup NodeDiagnostics,
                 Fits(p, "node", "ordinary_task", <<"policy">>)
          PROVE  p = o
      BY <2>3
    <2> HIDE DEF o, Fits, NodeCore, NodeDiagnostics
    <2> QED BY <2>1, <2>2, <2>3, OnlyNodeOverload
  <1>3. Outcome("node_into", "direct_task", <<>>) = "append"
    <2> DEFINE o == Takes("node_into", {"direct_task"}, <<>>, "append")
    <2>1. o \in NodeCore \cup NodeDiagnostics
      OBVIOUS
    <2>2. Fits(o, "node_into", "direct_task", <<>>) /\ o.act = "append"
      OBVIOUS
    <2>3. ASSUME NEW p \in NodeCore \cup NodeDiagnostics,
                 Fits(p, "node_into", "direct_task", <<>>)
          PROVE  p = o
      BY <2>3
    <2> HIDE DEF o, Fits, NodeCore, NodeDiagnostics
    <2> QED BY <2>1, <2>2, <2>3, OnlyNodeOverload
  <1>4. Outcome("node_into", "direct_task", <<"policy">>) = "append"
    <2> DEFINE o == Takes("node_into", {"direct_task"}, <<{"policy"}>>, "append")
    <2>1. o \in NodeCore \cup NodeDiagnostics
      OBVIOUS
    <2>2. Fits(o, "node_into", "direct_task", <<"policy">>) /\ o.act = "append"
      OBVIOUS
    <2>3. ASSUME NEW p \in NodeCore \cup NodeDiagnostics,
                 Fits(p, "node_into", "direct_task", <<"policy">>)
          PROVE  p = o
      BY <2>3
    <2> HIDE DEF o, Fits, NodeCore, NodeDiagnostics
    <2> QED BY <2>1, <2>2, <2>3, OnlyNodeOverload
  <1> QED BY <1>1, <1>2, <1>3, <1>4

(* Whatever a binder was given, its call selects an overload that makes a  *)
(* task, and that task one that appends it: no binder is refused.          *)
LEMMA EveryBinderResolves ==
  ASSUME NEW binder, binder.kind \in Kinds6
  PROVE  Resolves(binder)
  <1> DEFINE type == BinderType(binder.kind)
             policy == IF binder.pending[1].fanout THEN <<"policy">> ELSE <<>>
  <1>1. <<>> \o <<"chain">> = <<"chain">> /\ <<"receiver">> \o <<"chain">> = <<"receiver", "chain">>
    <2>1. <<"chain">> \in Seq({"chain"})
      OBVIOUS
    <2> QED BY <2>1, TwoInARow, ConcatEmptySeq
  <1>2. node.plain = "node" /\ node.into = "node_into"
    BY DEF node, Forms
  <1>3. Outcome(task[binder.kind], type.subject, type.receiver \o <<"chain">>)
          = "bind"
    <2>1. /\ task["plain"] = "task" /\ task["into"] = "task_into"
          /\ task["member"] = "task_member"
          /\ task["into_member"] = "task_into_member"
          /\ task["forward"] = "task_forward_prev"
          /\ task["forward_member"] = "task_forward_prev_member"
      BY DEF task, Forms
    <2> QED BY <1>1, <2>1, TaskFormsTake DEF Kinds6, BinderType, Makes
  <1>4. Outcome(type.appends, type.yields, policy) = "append"
    <2>1. policy \in {<<"policy">>, <<>>}
      OBVIOUS
    <2>2. \/ type.appends = "node" /\ type.yields = "ordinary_task"
          \/ type.appends = "node_into" /\ type.yields = "direct_task"
      BY <1>2 DEF Kinds6, BinderType, Makes
    <2> HIDE DEF policy, type
    <2> QED BY <2>1, <2>2, NodeFormsTake
  <1> QED BY <1>3, <1>4, Zenon DEF Resolves

-------------------------------------------------------------------------------
(* The objects a program holds, and what is always true of them.           *)

(* What a builder records of one call.                                     *)
Entries ==
  [ level : {c.level : c \in UNION {m.calls : m \in Writings}}, fanout : BOOLEAN, load : Nat ]

(* Builders, binders, and what is left of a call that came to nothing.     *)
ObjectType ==
  [ what : {"builder", "binder", "refused", "lost"}, alive : BOOLEAN, nodes : Seq(Entries),
    points_to : Nat, kind : Kinds6, pending : Seq(Entries),
    spelled : Seq(Entries), lender : Nat, spent : BOOLEAN, careful : BOOLEAN ]

(* Whether a load is in a sequence of entries.                             *)
Has(entries, load) == \E i \in 1 .. Len(entries) : entries[i].load = load

(* Appending an entry adds its load.                                       *)
LEMMA HasAppended ==
  ASSUME NEW s \in Seq(Entries), NEW e \in Entries, NEW x
  PROVE  Has(Append(s, e), x) <=> Has(s, x) \/ e.load = x
  <1>1. /\ Len(s) \in Nat /\ Len(Append(s, e)) = Len(s) + 1
        /\ \A i \in 1 .. Len(s) : Append(s, e)[i] = s[i]
        /\ Append(s, e)[Len(s) + 1] = e
    BY AppendProperties, LenProperties
  <1> QED BY <1>1 DEF Has

(* A concatenation has the loads of both.                                  *)
LEMMA HasConcatenated ==
  ASSUME NEW s \in Seq(Entries), NEW t \in Seq(Entries), NEW x
  PROVE  Has(s \o t, x) <=> Has(s, x) \/ Has(t, x)
  <1>1. /\ Len(s) \in Nat /\ Len(t) \in Nat /\ Len(s \o t) = Len(s) + Len(t)
        /\ \A i \in 1 .. Len(s) + Len(t) : (s \o t)[i] = IF i <= Len(s) THEN s[i] ELSE t[i - Len(s)]
    BY ConcatProperties, LenProperties
  <1>2. ASSUME Has(s \o t, x) PROVE Has(s, x) \/ Has(t, x)
    BY <1>1, <1>2 DEF Has
  <1>3. ASSUME Has(s, x) PROVE Has(s \o t, x)
    BY <1>1, <1>3 DEF Has
  <1>4. ASSUME Has(t, x) PROVE Has(s \o t, x)
    <2>1. PICK i \in 1 .. Len(t) : t[i].load = x
      BY <1>4 DEF Has
    <2>2. Len(s) + i \in 1 .. Len(s) + Len(t) /\ (s \o t)[Len(s) + i] = t[i]
      BY <1>1
    <2> QED BY <1>1, <2>1, <2>2 DEF Has
  <1> QED BY <1>2, <1>3, <1>4

(* An object's loads are those of its nodes and of what is pending.        *)
LEMMA LoadsAreHad ==
  ASSUME NEW o \in ObjectType, NEW x
  PROVE  x \in Loads(o) <=> x # 0 /\ (Has(o.nodes, x) \/ Has(o.pending, x))
  <1>1. o.nodes \in Seq(Entries) /\ o.pending \in Seq(Entries)
    BY DEF ObjectType
  <1>2. o.nodes \o o.pending \in Seq(Entries)
    BY <1>1, ConcatProperties
  <1>3. DOMAIN (o.nodes \o o.pending) = 1 .. Len(o.nodes \o o.pending)
    BY <1>2, LenProperties
  <1>4. x \in Loads(o) <=> x # 0 /\ Has(o.nodes \o o.pending, x)
    BY <1>3 DEF Loads, Hollow, Has
  <1> QED BY <1>1, <1>4, HasConcatenated

(* Moving from entries leaves their number and their levels, and no load;  *)
(* doing so twice changes nothing more.                                    *)
LEMMA HollowedEntries ==
  ASSUME NEW s \in Seq(Entries)
  PROVE  /\ Hollowed(s) \in Seq(Entries)
         /\ Len(Hollowed(s)) = Len(s)
         /\ \A i \in 1 .. Len(s) : Hollowed(s)[i] = [s[i] EXCEPT !.load = 0]
         /\ Hollowed(Hollowed(s)) = Hollowed(s)
         /\ \A x : Has(Hollowed(s), x) => x = 0
         /\ s = <<>> => Hollowed(s) = <<>>
  <1>1. Len(s) \in Nat /\ DOMAIN s = 1 .. Len(s) /\ \A i \in 1 .. Len(s) : s[i] \in Entries
    BY LenProperties, ElementOfSeq
  <1> DEFINE h == Hollowed(s)
  <1>2. h = [i \in 1 .. Len(s) |-> [s[i] EXCEPT !.load = 0]]
    BY <1>1 DEF Hollowed, Hollow
  <1>3. \A i \in 1 .. Len(s) : [s[i] EXCEPT !.load = 0] \in Entries
    BY <1>1 DEF Entries
  <1> HIDE DEF h
  <1>4. h \in [1 .. Len(s) -> Entries]
    BY <1>2, <1>3
  <1>5. h \in Seq(Entries) /\ Len(h) = Len(s)
    BY <1>1, <1>4
  <1>6. \A i \in 1 .. Len(s) : h[i] = [s[i] EXCEPT !.load = 0] /\ h[i].load = 0
        /\ [h[i] EXCEPT !.load = 0] = h[i]
    BY <1>1, <1>2 DEF Entries
  <1>7. Hollowed(h) = h
    <2>1. DOMAIN h = 1 .. Len(s)
      BY <1>4
    <2>2. Hollowed(h) = [i \in 1 .. Len(s) |-> h[i]]
      BY <2>1, <1>6 DEF Hollowed, Hollow
    <2> QED BY <2>2, <1>4
  <1>8. \A x : Has(h, x) => x = 0
    BY <1>5, <1>6 DEF Has
  <1>9. s = <<>> => h = <<>>
    BY <1>5, EmptySeq
  <1> QED BY <1>5, <1>6, <1>7, <1>8, <1>9 DEF h

(* What a pointed-to builder holds was lent when the binder was made.      *)
Loaned(objs, lt, k) ==
  LET o == objs[k]
  IN  o.points_to # 0 => Loads(objs[o.points_to]) \subseteq lt

(* What an object that was made with care and not used up will record is   *)
(* what its expression spells: its own nodes and what is pending, or those *)
(* of the builder it points to.                                            *)
Written(objs, k) ==
  LET o == objs[k]
  IN  o.careful /\ ~o.spent =>
        /\ o.what \in {"builder", "binder"}
        /\ o.points_to = 0 => o.nodes \o o.pending = o.spelled
        /\ o.points_to # 0 => /\ objs[o.points_to].careful
                              /\ o.spelled = objs[o.points_to].spelled \o o.pending

(* A binder that points at a builder was lent it and has no nodes of its   *)
(* own; a builder has nothing pending; what was used up is hollow.         *)
WellMade(objs, k) ==
  LET o == objs[k]
  IN  /\ o.lender = o.points_to
      /\ o.points_to # 0 =>
           /\ o.what = "binder" /\ o.nodes = <<>>
           /\ o.points_to \in 1 .. k - 1 /\ objs[o.points_to].what = "builder"
      /\ o.what = "builder" => o.pending = <<>>
      /\ o.spent => /\ Hollowed(o.nodes) = o.nodes
                    /\ Hollowed(o.pending) = o.pending

(* Two live objects share only what was lent.                              *)
Unshared(objs, lt) ==
  \A a, b \in DOMAIN objs :
    a # b /\ objs[a].alive /\ objs[b].alive =>
      Loads(objs[a]) \cap Loads(objs[b]) \subseteq lt

(* The invariant, as a predicate of the objects and the loads lent: the    *)
(* steps of the proof change them one at a time.                           *)
ObjectsInv(objs, lt) ==
  /\ objs \in Seq(ObjectType)
  /\ \A k \in 1 .. Len(objs) :
       /\ WellMade(objs, k)
       /\ Written(objs, k)
       /\ Loaned(objs, lt, k)
       /\ Loads(objs[k]) \subseteq 1 .. Len(objs)
  /\ Unshared(objs, lt)

(* The inductive invariant, of any program that may be written.            *)
Inv == writing \in Writings /\ ObjectsInv(objects, lent)

-------------------------------------------------------------------------------
(* What using an object does to it.                                        *)

(* An object after an rvalue use.                                          *)
Used(o) == [o EXCEPT !.spent = TRUE, !.nodes = Hollowed(o.nodes),
                     !.pending = Hollowed(o.pending)]

(* The objects after b was used.                                           *)
Turned(objs, category, b) ==
  IF category = "rvalue" THEN [objs EXCEPT ![b] = Used(objs[b])] ELSE objs

(* Used up, an object is hollow and otherwise what it was.                 *)
LEMMA UsedObject ==
  ASSUME NEW o \in ObjectType
  PROVE  /\ Used(o) \in ObjectType
         /\ Loads(Used(o)) = {}
         /\ Used(o).spent
         /\ Used(o).nodes = Hollowed(o.nodes)
         /\ Used(o).pending = Hollowed(o.pending)
         /\ \A f \in {"what", "alive", "points_to", "kind", "spelled", "lender", "careful"}
              : Used(o)[f] = o[f]
  <1>1. o.nodes \in Seq(Entries) /\ o.pending \in Seq(Entries)
    BY DEF ObjectType
  <1>2. Hollowed(o.nodes) \in Seq(Entries) /\ Hollowed(o.pending) \in Seq(Entries)
    BY <1>1, HollowedEntries
  <1>3. /\ Used(o) \in ObjectType /\ Used(o).spent
        /\ Used(o).nodes = Hollowed(o.nodes)
        /\ Used(o).pending = Hollowed(o.pending)
    BY <1>2 DEF Used, ObjectType
  <1>4. \A x : x \notin Loads(Used(o))
    BY <1>1, <1>3, LoadsAreHad, HollowedEntries
  <1>5. \A f \in {"what", "alive", "points_to", "kind", "spelled", "lender", "careful"}
          : Used(o)[f] = o[f]
    BY DEF Used, ObjectType
  <1> QED BY <1>3, <1>4, <1>5

(* Using an object keeps the invariant.                                    *)
LEMMA UsingKeepsInv ==
  ASSUME NEW objs, NEW lt, ObjectsInv(objs, lt), NEW b \in 1 .. Len(objs),
         NEW category \in {"lvalue", "rvalue"}
  PROVE  /\ ObjectsInv(Turned(objs, category, b), lt)
         /\ Len(Turned(objs, category, b)) = Len(objs)
         /\ \A k \in 1 .. Len(objs) :
              Turned(objs, category, b)[k] =
                IF category = "rvalue" /\ k = b THEN Used(objs[k]) ELSE objs[k]
  <1> DEFINE new == Turned(objs, category, b)
  <1>1. objs \in Seq(ObjectType) /\ Len(objs) \in Nat /\ DOMAIN objs = 1 .. Len(objs)
        /\ \A k \in 1 .. Len(objs) : objs[k] \in ObjectType
    BY LenProperties, ElementOfSeq DEF ObjectsInv
  <1>2. CASE category = "lvalue"
    BY <1>2 DEF Turned
  <1>3. CASE category = "rvalue"
    <2>1. /\ new \in Seq(ObjectType) /\ Len(new) = Len(objs) /\ DOMAIN new = 1 .. Len(objs)
          /\ \A k \in 1 .. Len(objs) : new[k] = IF k = b THEN Used(objs[b]) ELSE objs[k]
      BY <1>1, <1>3, UsedObject, ExceptSeq, LenProperties DEF Turned
    <2> HIDE DEF new
    <2>2. ASSUME NEW k \in 1 .. Len(objs)
          PROVE  /\ new[k].what = objs[k].what /\ new[k].alive = objs[k].alive
                 /\ new[k].points_to = objs[k].points_to /\ new[k].spelled = objs[k].spelled
                 /\ new[k].lender = objs[k].lender /\ new[k].careful = objs[k].careful
                 /\ k # b => new[k] = objs[k]
                 /\ k = b => /\ new[k].spent
                             /\ new[k].nodes = Hollowed(objs[k].nodes)
                             /\ new[k].pending = Hollowed(objs[k].pending)
                 /\ Loads(new[k]) \subseteq Loads(objs[k])
                 /\ objs[k].nodes \in Seq(Entries) /\ objs[k].pending \in Seq(Entries)
      <3>1. objs[k] \in ObjectType
        BY <1>1
      <3>2. objs[k].nodes \in Seq(Entries) /\ objs[k].pending \in Seq(Entries)
        BY <3>1 DEF ObjectType
      <3>3. CASE k # b
        BY <2>1, <3>2, <3>3
      <3>4. CASE k = b
        BY <2>1, <3>1, <3>2, <3>4, UsedObject
      <3> QED BY <3>3, <3>4
    <2>3. ASSUME NEW k \in 1 .. Len(objs) PROVE WellMade(new, k)
      <3>1. WellMade(objs, k)
        BY DEF ObjectsInv
      <3>2. objs[k].points_to # 0 => objs[k].points_to \in 1 .. Len(objs)
        BY <1>1, <3>1 DEF WellMade
      <3>3. CASE k = b
        <4>1. objs[k].nodes = <<>> => new[k].nodes = <<>>
          BY <2>2, <3>3, HollowedEntries
        <4>2. objs[k].pending = <<>> => new[k].pending = <<>>
          BY <2>2, <3>3, HollowedEntries
        <4>3. /\ Hollowed(new[k].nodes) = new[k].nodes
              /\ Hollowed(new[k].pending) = new[k].pending
          BY <2>2, <3>3, HollowedEntries
        <4> QED BY <2>2, <3>1, <3>2, <4>1, <4>2, <4>3 DEF WellMade
      <3>4. CASE k # b
        BY <2>2, <3>1, <3>2, <3>4 DEF WellMade
      <3> QED BY <3>3, <3>4
    <2>4. ASSUME NEW k \in 1 .. Len(objs) PROVE Written(new, k)
      <3>1. WellMade(objs, k) /\ Written(objs, k)
        BY DEF ObjectsInv
      <3>2. objs[k].points_to # 0 => objs[k].points_to \in 1 .. Len(objs)
        BY <1>1, <3>1 DEF WellMade
      <3>3. CASE k = b
        BY <2>2, <3>3 DEF Written
      <3>4. CASE k # b
        BY <2>2, <3>1, <3>2, <3>4 DEF Written
      <3> QED BY <3>3, <3>4
    <2>5. ASSUME NEW k \in 1 .. Len(objs) PROVE Loaned(new, lt, k)
      <3>1. WellMade(objs, k) /\ Loaned(objs, lt, k)
        BY DEF ObjectsInv
      <3>2. objs[k].points_to # 0 => objs[k].points_to \in 1 .. Len(objs)
        BY <1>1, <3>1 DEF WellMade
      <3> QED BY <2>2, <3>1, <3>2 DEF Loaned
    <2>6. Unshared(new, lt)
      BY <1>1, <2>1, <2>2 DEF ObjectsInv, Unshared
    <2>7. ObjectsInv(new, lt)
      <3>1. \A k \in 1 .. Len(objs) : Loads(new[k]) \subseteq 1 .. Len(objs)
        BY <2>2 DEF ObjectsInv
      <3> QED BY <2>1, <2>3, <2>4, <2>5, <2>6, <3>1 DEF ObjectsInv
    <2> QED BY <1>3, <2>1, <2>7 DEF new
  <1> QED BY <1>2, <1>3

(* Adding an object keeps it, if what the new one shares with others was   *)
(* lent and, when made with care, it records what it spells.               *)
LEMMA AddingKeepsInv ==
  ASSUME NEW objs, NEW lt, NEW lt2, ObjectsInv(objs, lt), lt \subseteq lt2, NEW o \in ObjectType,
         o.alive, ~o.spent,
         o.lender = o.points_to,
         o.points_to # 0 =>
           /\ o.what = "binder" /\ o.nodes = <<>>
           /\ o.points_to \in 1 .. Len(objs) /\ objs[o.points_to].what = "builder"
           /\ Loads(objs[o.points_to]) \subseteq lt2,
         o.what = "builder" => o.pending = <<>>,
         o.careful =>
           /\ o.what \in {"builder", "binder"}
           /\ o.points_to = 0 => o.nodes \o o.pending = o.spelled
           /\ o.points_to # 0 => /\ objs[o.points_to].careful
                                 /\ o.spelled = objs[o.points_to].spelled \o o.pending,
         Loads(o) \subseteq 1 .. Len(objs) + 1,
         \A a \in 1 .. Len(objs) :
           objs[a].alive => Loads(o) \cap Loads(objs[a]) \subseteq lt2
  PROVE  ObjectsInv(Append(objs, o), lt2)
  <1> DEFINE new == Append(objs, o)
             n == Len(objs)
  <1>1. n \in Nat /\ DOMAIN objs = 1 .. n /\ objs \in Seq(ObjectType)
    BY LenProperties DEF ObjectsInv
  <1>2. /\ new \in Seq(ObjectType) /\ Len(new) = n + 1
        /\ \A k \in 1 .. n : new[k] = objs[k]
        /\ new[n + 1] = o
    BY <1>1, AppendProperties
  <1>3. DOMAIN new = 1 .. n + 1
    BY <1>2, LenProperties
  <1>4. \A k \in 1 .. n : objs[k].points_to # 0 => objs[k].points_to \in 1 .. n
    BY <1>1 DEF ObjectsInv, WellMade
  <1> HIDE DEF new
  <1>5. ASSUME NEW k \in 1 .. n
        PROVE  WellMade(new, k) /\ Written(new, k) /\ Loaned(new, lt2, k)
               /\ Loads(new[k]) \subseteq 1 .. n + 1
    <2>1. WellMade(objs, k) /\ Written(objs, k) /\ Loaned(objs, lt, k)
          /\ Loads(objs[k]) \subseteq 1 .. n
      BY DEF ObjectsInv
    <2>2. new[k] = objs[k]
      BY <1>2
    <2>3. objs[k].points_to # 0 => new[objs[k].points_to] = objs[objs[k].points_to]
      BY <1>2, <1>4
    <2>4. WellMade(new, k)
      BY <2>1, <2>2, <2>3 DEF WellMade
    <2>5. Written(new, k)
      BY <2>1, <2>2, <2>3 DEF Written
    <2>6. Loaned(new, lt2, k)
      BY <2>1, <2>2, <2>3 DEF Loaned
    <2> QED BY <1>1, <2>1, <2>2, <2>4, <2>5, <2>6
  <1>6. /\ WellMade(new, n + 1) /\ Written(new, n + 1) /\ Loaned(new, lt2, n + 1)
        /\ Loads(new[n + 1]) \subseteq 1 .. n + 1
    <2>1. o.points_to # 0 => new[o.points_to] = objs[o.points_to]
      BY <1>2
    <2>2. WellMade(new, n + 1)
      BY <1>1, <1>2, <2>1 DEF WellMade
    <2>3. Written(new, n + 1)
      BY <1>2, <2>1 DEF Written
    <2>4. Loaned(new, lt2, n + 1)
      BY <1>2, <2>1 DEF Loaned
    <2> QED BY <1>2, <2>2, <2>3, <2>4
  <1>7. Unshared(new, lt2)
    <2> SUFFICES ASSUME NEW a \in 1 .. n + 1,
                          NEW b \in 1 .. n + 1, a # b, new[a].alive, new[b].alive
                 PROVE  Loads(new[a]) \cap Loads(new[b]) \subseteq lt2
      BY <1>3 DEF Unshared
    <2>1. CASE a = n + 1
      <3>1. b \in 1 .. n
        BY <1>1, <2>1
      <3> QED BY <1>2, <2>1, <3>1
    <2>2. CASE b = n + 1
      <3>1. a \in 1 .. n
        BY <1>1, <2>2
      <3> QED BY <1>2, <2>2, <3>1
    <2>3. CASE a # n + 1 /\ b # n + 1
      <3>1. a \in 1 .. n /\ b \in 1 .. n
        BY <1>1, <2>3
      <3> QED BY <1>1, <1>2, <3>1 DEF ObjectsInv, Unshared
    <2> QED BY <2>1, <2>2, <2>3
  <1>8. \A k \in 1 .. n + 1 : k \in 1 .. n \/ k = n + 1
    BY <1>1
  <1> QED BY <1>2, <1>5, <1>6, <1>7, <1>8 DEF ObjectsInv, new

(* Moving from the one part that an object has is moving from it all.      *)
LEMMA TurnedParts ==
  ASSUME NEW objs \in Seq(ObjectType), NEW b \in 1 .. Len(objs),
           NEW category \in {"lvalue", "rvalue"}
  PROVE  /\ objs[b].pending = <<>> =>
              Spent(Taken(objs, category, b, "nodes"), category, b)
                = Turned(objs, category, b)
         /\ objs[b].nodes = <<>> =>
              Spent(Taken(objs, category, b, "pending"), category, b)
                = Turned(objs, category, b)
         /\ Spent(Taken(Taken(objs, category, b, "pending"),
                                          category, b, "nodes"), category, b)
              = Turned(objs, category, b)
  <1>1. DOMAIN objs = 1 .. Len(objs) /\ objs \in [1 .. Len(objs) -> ObjectType]
        /\ objs[b] \in ObjectType
    BY LenProperties, ElementOfSeq
  <1>2. objs[b].nodes \in Seq(Entries) /\ objs[b].pending \in Seq(Entries)
    BY <1>1 DEF ObjectType
  <1>3. /\ objs[b].pending = <<>> => Hollowed(objs[b].pending) = objs[b].pending
        /\ objs[b].nodes = <<>> => Hollowed(objs[b].nodes) = objs[b].nodes
    BY <1>2, HollowedEntries
  <1>4. CASE category = "lvalue"
    BY <1>4 DEF Spent, Taken, Turned
  <1>5. CASE category = "rvalue"
    <2> DEFINE n == Hollowed(objs[b].nodes)
               p == Hollowed(objs[b].pending)
    <2>1. Taken(objs, category, b, "nodes")
            = [objs EXCEPT ![b] = [objs[b] EXCEPT !.nodes = n]]
      BY <1>1, <1>5 DEF Taken
    <2>2. Taken(objs, category, b, "pending")
            = [objs EXCEPT ![b] = [objs[b] EXCEPT !.pending = p]]
      BY <1>1, <1>5 DEF Taken
    <2>3. Taken(Taken(objs, category, b, "pending"), category, b, "nodes")
            = [objs EXCEPT ![b] = [objs[b] EXCEPT !.pending = p, !.nodes = n]]
      BY <1>1, <1>5, <2>2 DEF Taken
    <2> HIDE DEF n, p
    <2>5. Turned(objs, category, b)
            = [objs EXCEPT ![b] = [objs[b] EXCEPT !.pending = p, !.nodes = n, !.spent = TRUE]]
      BY <1>1, <1>5 DEF Turned, Used, n, p
    <2>6. ASSUME objs[b].pending = <<>>
          PROVE  Spent(Taken(objs, category, b, "nodes"), category, b)
                   = Turned(objs, category, b)
      <3>1. [objs[b] EXCEPT !.pending = p, !.nodes = n, !.spent = TRUE]
              = [objs[b] EXCEPT !.nodes = n, !.spent = TRUE]
        BY <1>1, <1>3, <2>6 DEF p, ObjectType
      <3>2. Spent(Taken(objs, category, b, "nodes"), category, b)
              = [objs EXCEPT ![b] = [objs[b] EXCEPT !.nodes = n, !.spent = TRUE]]
        BY <1>1, <1>5, <2>1 DEF Spent
      <3> QED BY <2>5, <3>1, <3>2
    <2>7. ASSUME objs[b].nodes = <<>>
          PROVE  Spent(Taken(objs, category, b, "pending"), category, b)
                   = Turned(objs, category, b)
      <3>1. [objs[b] EXCEPT !.pending = p, !.nodes = n, !.spent = TRUE]
              = [objs[b] EXCEPT !.pending = p, !.spent = TRUE]
        BY <1>1, <1>3, <2>7 DEF n, ObjectType
      <3>2. Spent(Taken(objs, category, b, "pending"), category, b)
              = [objs EXCEPT ![b] = [objs[b] EXCEPT !.pending = p, !.spent = TRUE]]
        BY <1>1, <1>5, <2>2 DEF Spent
      <3> QED BY <2>5, <3>1, <3>2
    <2>8. Spent(Taken(Taken(objs, category, b, "pending"), category, b,
            "nodes"), category, b)
              = Turned(objs, category, b)
      BY <1>1, <1>5, <2>3, <2>5 DEF Spent
    <2> QED BY <2>6, <2>7, <2>8
  <1> QED BY <1>4, <1>5

(* The parts of the invariant, for one object.                             *)
LEMMA TypedObjects ==
  ASSUME NEW objs, NEW lt, ObjectsInv(objs, lt)
  PROVE  /\ objs \in Seq(ObjectType) /\ Len(objs) \in Nat /\ DOMAIN objs = 1 .. Len(objs)
         /\ \A k \in 1 .. Len(objs) :
              /\ objs[k] \in ObjectType
              /\ objs[k].nodes \in Seq(Entries) /\ objs[k].pending \in Seq(Entries)
              /\ objs[k].spelled \in Seq(Entries)
              /\ WellMade(objs, k) /\ Written(objs, k) /\ Loaned(objs, lt, k)
              /\ Loads(objs[k]) \subseteq 1 .. Len(objs)
         /\ Unshared(objs, lt)
  <1>1. objs \in Seq(ObjectType) /\ Len(objs) \in Nat /\ DOMAIN objs = 1 .. Len(objs)
        /\ \A k \in 1 .. Len(objs) : objs[k] \in ObjectType
    BY LenProperties, ElementOfSeq DEF ObjectsInv
  <1>2. \A k \in 1 .. Len(objs) :
              /\ objs[k].nodes \in Seq(Entries) /\ objs[k].pending \in Seq(Entries)
              /\ objs[k].spelled \in Seq(Entries)
    BY <1>1 DEF ObjectType
  <1> QED BY <1>1, <1>2 DEF ObjectsInv

(* What the objects still are once b was used.                             *)
LEMMA TurnedForAdding ==
  ASSUME NEW objs, NEW lt, ObjectsInv(objs, lt), NEW b \in 1 .. Len(objs),
         NEW category \in {"lvalue", "rvalue"}
  PROVE  /\ ObjectsInv(Turned(objs, category, b), lt)
         /\ Len(Turned(objs, category, b)) = Len(objs)
         /\ \A k \in 1 .. Len(objs) :
              /\ Turned(objs, category, b)[k].what = objs[k].what
              /\ Turned(objs, category, b)[k].alive = objs[k].alive
              /\ Turned(objs, category, b)[k].careful = objs[k].careful
              /\ Turned(objs, category, b)[k].spelled = objs[k].spelled
         /\ \A k \in 1 .. Len(objs) :
              /\ Loads(Turned(objs, category, b)[k]) \subseteq Loads(objs[k])
              /\ (k = b /\ category = "rvalue" => Loads(Turned(objs, category, b)[k]) = {})
  <1>1. \A k \in 1 .. Len(objs) : objs[k] \in ObjectType
    BY TypedObjects
  <1>2. /\ ObjectsInv(Turned(objs, category, b), lt)
        /\ Len(Turned(objs, category, b)) = Len(objs)
        /\ \A k \in 1 .. Len(objs) :
              Turned(objs, category, b)[k] =
                IF category = "rvalue" /\ k = b THEN Used(objs[k]) ELSE objs[k]
    BY UsingKeepsInv
  <1>3. ASSUME NEW k \in 1 .. Len(objs)
        PROVE  /\ Used(objs[k]).what = objs[k].what /\ Used(objs[k]).alive = objs[k].alive
               /\ Used(objs[k]).careful = objs[k].careful /\ Used(objs[k]).spelled = objs[k].spelled
               /\ Loads(Used(objs[k])) = {}
    BY <1>1, UsedObject
  <1> QED BY <1>2, <1>3

(* An empty builder is an object without a load.                           *)
LEMMA EmptyObject ==
  /\ EmptyBuilder \in ObjectType
  /\ Loads(EmptyBuilder) = {}
  <1>1. EmptyBuilder \in ObjectType
    BY DEF EmptyBuilder, ObjectType, Kinds6
  <1>2. ASSUME NEW x PROVE ~Has(<<>>, x)
    BY DEF Has
  <1>3. EmptyBuilder.nodes = <<>> /\ EmptyBuilder.pending = <<>>
    BY DEF EmptyBuilder
  <1> QED BY <1>1, <1>2, <1>3, LoadsAreHad

(* The entry of a call carries the load named by the object it makes.      *)
LEMMA EntryIsTyped ==
  ASSUME Inv, NEW c \in writing.calls
  PROVE  Entry(c) \in Entries /\ Entry(c).load = Len(objects) + 1
  <1>1. Len(objects) \in Nat
    BY TypedObjects DEF Inv
  <1>2. Entry(c).fanout \in BOOLEAN
    BY DEF Entry
  <1>3. c.level \in {d.level : d \in UNION {m.calls : m \in Writings}}
    BY DEF Inv
  <1> QED BY <1>1, <1>2, <1>3 DEF Entry, Fresh, Entries

(* A sequence of one entry.                                                *)
LEMMA OneEntry ==
  ASSUME NEW e \in Entries
  PROVE  <<e>> \in Seq(Entries) /\ \A x : Has(<<e>>, x) <=> e.load = x
  BY DEF Has

(* What is lent after b was used: an lvalue use lends what b holds.        *)
Afterwards(lt, objs, category, b) ==
  IF category = "lvalue" THEN lt \cup Loads(objs[b]) ELSE lt

-------------------------------------------------------------------------------
(* What making an object does to the others.                               *)

(* What an object must be for a call that makes it to keep the invariant.  *)
MadeWell(objs, lt, o) ==
  /\ o.alive /\ ~o.spent
  /\ o.lender = o.points_to
  /\ o.points_to # 0 =>
       /\ o.what = "binder" /\ o.nodes = <<>>
       /\ o.points_to \in 1 .. Len(objs) /\ objs[o.points_to].what = "builder"
       /\ Loads(objs[o.points_to]) \subseteq lt
  /\ o.what = "builder" => o.pending = <<>>
  /\ o.careful =>
       /\ o.what \in {"builder", "binder"}
       /\ o.points_to = 0 => o.nodes \o o.pending = o.spelled
       /\ o.points_to # 0 => /\ objs[o.points_to].careful
                             /\ o.spelled = objs[o.points_to].spelled \o o.pending

(* A call that uses b, and makes an object of what b holds and of what the *)
(* call passes in, keeps the invariant.                                    *)
LEMMA MakingKeepsInv ==
  ASSUME NEW objs, NEW lt, ObjectsInv(objs, lt), NEW b \in 1 .. Len(objs), objs[b].alive,
         NEW category \in {"lvalue", "rvalue"}, NEW o \in ObjectType,
         MadeWell(objs, Afterwards(lt, objs, category, b), o),
         Loads(o) \subseteq lt \cup Loads(objs[b]) \cup {Len(objs) + 1},
         Loads(o) \subseteq 1 .. Len(objs) + 1
  PROVE  ObjectsInv(Append(Turned(objs, category, b), o), Afterwards(lt, objs, category, b))
  <1> DEFINE new == Turned(objs, category, b)
             lt2 == Afterwards(lt, objs, category, b)
  <1>1. /\ ObjectsInv(new, lt) /\ Len(new) = Len(objs)
        /\ \A k \in 1 .. Len(objs) :
             /\ new[k].what = objs[k].what /\ new[k].alive = objs[k].alive
             /\ new[k].careful = objs[k].careful /\ new[k].spelled = objs[k].spelled
             /\ Loads(new[k]) \subseteq Loads(objs[k])
             /\ k = b /\ category = "rvalue" => Loads(new[k]) = {}
    <2> HIDE DEF new
    <2>1. /\ ObjectsInv(new, lt) /\ Len(new) = Len(objs)
          /\ \A k \in 1 .. Len(objs) :
               /\ new[k].what = objs[k].what /\ new[k].alive = objs[k].alive
               /\ new[k].careful = objs[k].careful /\ new[k].spelled = objs[k].spelled
      BY TurnedForAdding DEF new
    <2>2. \A k \in 1 .. Len(objs) :
               /\ Loads(new[k]) \subseteq Loads(objs[k])
               /\ (k = b /\ category = "rvalue" => Loads(new[k]) = {})
      BY TurnedForAdding DEF new
    <2> QED BY <2>1, <2>2
  <1>2. lt \subseteq lt2 /\ category = "lvalue" => Loads(objs[b]) \subseteq lt2
    BY DEF Afterwards
  <1> HIDE DEF new, lt2
  <1>3. \A a \in 1 .. Len(objs) :
          new[a].alive => Loads(o) \cap Loads(new[a]) \subseteq lt2
    <2> SUFFICES ASSUME NEW a \in 1 .. Len(objs), new[a].alive, NEW x,
                        x \in Loads(o), x \in Loads(new[a])
                 PROVE  x \in lt2
      OBVIOUS
    <2>1. objs[a].alive /\ x \in Loads(objs[a]) /\ lt \subseteq lt2
      BY <1>1, <1>2 DEF lt2, Afterwards
    <2>2. x \in 1 .. Len(objs) /\ Len(objs) \in Nat
      BY <2>1, TypedObjects
    <2>3. x \in lt \/ x \in Loads(objs[b])
      BY <2>2
    <2>4. CASE a # b
      <3>1. Loads(objs[a]) \cap Loads(objs[b]) \subseteq lt
        BY <2>1, <2>4, TypedObjects DEF Unshared
      <3> QED BY <2>1, <2>3, <3>1
    <2>5. CASE a = b
      BY <1>1, <1>2, <2>1, <2>3, <2>5
    <2> QED BY <2>4, <2>5
  <1>4. MadeWell(objs, lt2, o)
    BY DEF lt2
  <1>5. lt \subseteq lt2
    BY DEF lt2, Afterwards
  <1>6. o.points_to # 0 =>
          /\ o.what = "binder" /\ o.nodes = <<>>
          /\ o.points_to \in 1 .. Len(new) /\ new[o.points_to].what = "builder"
          /\ Loads(new[o.points_to]) \subseteq lt2
    <2>1. o.points_to # 0
            => Loads(new[o.points_to]) \subseteq Loads(objs[o.points_to])
      BY <1>1, <1>4 DEF MadeWell
    <2> QED BY <1>1, <1>4, <2>1 DEF MadeWell
  <1>7. o.careful =>
           /\ o.what \in {"builder", "binder"}
           /\ o.points_to = 0 => o.nodes \o o.pending = o.spelled
           /\ o.points_to # 0 => /\ new[o.points_to].careful
                                 /\ o.spelled = new[o.points_to].spelled \o o.pending
    BY <1>1, <1>4 DEF MadeWell
  <1>8. o.alive /\ ~o.spent /\ o.lender = o.points_to /\ (o.what = "builder" => o.pending = <<>>)
    BY <1>4 DEF MadeWell
  <1>9. ObjectsInv(Append(new, o), lt2)
    BY <1>1, <1>3, <1>5, <1>6, <1>7, <1>8, AddingKeepsInv
  <1> QED BY <1>9 DEF new, lt2

(* Every call on a builder is of that kind.                                *)
LEMMA MakeIsTurning ==
  ASSUME Inv, NEW b \in 1 .. Len(objects), Holds(b, "builder"),
         NEW category \in {"lvalue", "rvalue"}, NEW o, Make(category, b, o)
  PROVE  /\ objects' = Append(Turned(objects, category, b), o)
         /\ lent' = Afterwards(lent, objects, category, b)
         /\ writing' = writing
         /\ objects[b].alive /\ objects[b].what = "builder"
         /\ objects[b].pending = <<>> /\ objects[b].points_to = 0
  <1>1. /\ objects \in Seq(ObjectType) /\ WellMade(objects, b)
        /\ objects[b].alive /\ objects[b].what = "builder"
    BY TypedObjects DEF Inv, Holds
  <1>2. objects[b].pending = <<>> /\ objects[b].points_to = 0
    BY <1>1 DEF WellMade
  <1>3. Spent(Taken(objects, category, b, "nodes"), category, b)
          = Turned(objects, category, b)
    BY <1>1, <1>2, TurnedParts
  <1> QED BY <1>1, <1>2, <1>3 DEF Make, Lent, Afterwards

-------------------------------------------------------------------------------
(* The objects that calls make.                                            *)

(* What a made object is: alive, unspent, and of the given parts.          *)
Made(o, what, held, points, pending, spelled, careful) ==
  /\ o \in ObjectType /\ o.alive = TRUE /\ o.spent = FALSE
  /\ o.what = what /\ o.nodes = held /\ o.pending = pending
  /\ o.points_to = points /\ o.lender = points
  /\ o.spelled = spelled /\ o.careful = careful

(* task_tree and a new builder.                                            *)
LEMMA EmptyIsMade ==
  Made(EmptyBuilder, "builder", <<>>, 0, <<>>, <<>>, TRUE)
  <1>1. EmptyBuilder \in ObjectType
    BY EmptyObject
  <1> QED BY <1>1 DEF Made, EmptyBuilder

(* The builder that recording a prebuilt task returns.                     *)
LEMMA RecordedIsMade ==
  ASSUME NEW n \in Seq(Entries), NEW s \in Seq(Entries), NEW careful \in BOOLEAN
  PROVE  Made([EmptyBuilder EXCEPT !.nodes = n, !.spelled = s, !.careful = careful],
              "builder", n, 0, <<>>, s, careful)
  <1> DEFINE e == EmptyBuilder
  <1>1. Made(e, "builder", <<>>, 0, <<>>, <<>>, TRUE)
    BY EmptyIsMade
  <1> HIDE DEF e
  <1>2. Made([e EXCEPT !.nodes = n, !.spelled = s, !.careful = careful],
              "builder", n, 0, <<>>, s, careful)
    BY <1>1 DEF Made, ObjectType
  <1> QED BY <1>2 DEF e

(* The binder of a call, before it is given its builder.                   *)
LEMMA BinderIsMade ==
  ASSUME Inv, NEW b \in 1 .. Len(objects), NEW c \in writing.calls, c.kind \in Kinds6
  PROVE  Made(Binder(b, c), "binder", <<>>, 0, <<Entry(c)>>,
              Append(objects[b].spelled, Entry(c)), Careful(b))
  <1> DEFINE e == EmptyBuilder
             p == <<Entry(c)>>
             s == Append(objects[b].spelled, Entry(c))
             careful == Careful(b)
  <1>1. Made(e, "builder", <<>>, 0, <<>>, <<>>, TRUE)
    BY EmptyIsMade
  <1>2. Entry(c) \in Entries /\ objects[b].spelled \in Seq(Entries)
        /\ objects[b] \in ObjectType
    BY EntryIsTyped, TypedObjects DEF Inv
  <1>3. p \in Seq(Entries) /\ s \in Seq(Entries)
    BY <1>2, AppendProperties, OneEntry
  <1>4. careful \in BOOLEAN
    BY <1>2 DEF Careful, Intact, ObjectType
  <1>5. Binder(b, c) = [e EXCEPT !.what = "binder", !.kind = c.kind, !.pending = p,
                                          !.spelled = s, !.careful = careful]
    BY Zenon DEF Binder
  <1> HIDE DEF e, p, s, careful
  <1>6. Made(Binder(b, c), "binder", <<>>, 0, p, s, careful)
    BY <1>1, <1>3, <1>4, <1>5 DEF Made, ObjectType
  <1> QED BY <1>6 DEF p, s, careful

(* An lvalue's binder points at its builder.                               *)
LEMMA PointingIsMade ==
  ASSUME NEW o, NEW held, NEW pending, NEW spelled, NEW careful, NEW points \in Nat,
         Made(o, "binder", held, 0, pending, spelled, careful)
  PROVE  Made([o EXCEPT !.points_to = points, !.lender = points],
              "binder", held, points, pending, spelled, careful)
  BY DEF Made, ObjectType

(* An rvalue's binder owns its nodes.                                      *)
LEMMA OwningIsMade ==
  ASSUME NEW o, NEW held, NEW pending, NEW spelled, NEW careful, NEW n \in Seq(Entries),
         Made(o, "binder", held, 0, pending, spelled, careful)
  PROVE  Made([o EXCEPT !.nodes = n], "binder", n, 0, pending, spelled, careful)
  BY DEF Made, ObjectType

(* Recording a prebuilt task keeps the invariant.                          *)
LEMMA RecordKeepsInv ==
  ASSUME Inv, NEW b \in 1 .. Len(objects), Holds(b, "builder"), NEW c \in writing.calls,
         NEW category \in {"lvalue", "rvalue"}, Record(category, b, c)
  PROVE  Inv'
  <1> DEFINE o == [EmptyBuilder EXCEPT
                     !.nodes   = Append(objects[b].nodes, Entry(c)),
                     !.spelled = Append(objects[b].spelled, Entry(c)),
                     !.careful = Careful(b)]
  <1>1. Make(category, b, o)
    BY DEF Record
  <1>2. /\ Entry(c) \in Entries /\ Entry(c).load = Len(objects) + 1
        /\ objects[b] \in ObjectType
        /\ objects[b].nodes \in Seq(Entries) /\ objects[b].spelled \in Seq(Entries)
        /\ Written(objects, b) /\ Loads(objects[b]) \subseteq 1 .. Len(objects)
        /\ ObjectsInv(objects, lent) /\ Len(objects) \in Nat
    BY EntryIsTyped, TypedObjects DEF Inv
  <1>3. /\ objects' = Append(Turned(objects, category, b), o)
        /\ lent' = Afterwards(lent, objects, category, b)
        /\ writing' = writing
        /\ objects[b].alive /\ objects[b].what = "builder"
        /\ objects[b].pending = <<>> /\ objects[b].points_to = 0
    BY <1>1, MakeIsTurning
  <1>4. Append(objects[b].nodes, Entry(c)) \in Seq(Entries)
        /\ Append(objects[b].spelled, Entry(c)) \in Seq(Entries)
    BY <1>2, AppendProperties
  <1>5. /\ o \in ObjectType /\ o.alive = TRUE /\ o.spent = FALSE
        /\ o.lender = 0 /\ o.points_to = 0
        /\ o.what = "builder" /\ o.pending = <<>>
        /\ o.nodes = Append(objects[b].nodes, Entry(c))
        /\ o.spelled = Append(objects[b].spelled, Entry(c))
        /\ o.careful = Careful(b)
    <2>1. Careful(b) \in BOOLEAN
      BY <1>2 DEF Careful, Intact, ObjectType
    <2>2. Made(o, "builder", Append(objects[b].nodes, Entry(c)), 0, <<>>,
              Append(objects[b].spelled, Entry(c)), Careful(b))
      BY <1>4, <2>1, RecordedIsMade
    <2> QED BY <2>2 DEF Made
  <1> HIDE DEF o
  <1>6. ASSUME o.careful PROVE o.nodes \o o.pending = o.spelled
    <2>1. objects[b].nodes \o objects[b].pending = objects[b].spelled
      BY <1>2, <1>3, <1>5, <1>6 DEF Written, Careful, Intact
    <2>2. objects[b].nodes = objects[b].spelled
      BY <1>2, <1>3, <2>1, ConcatEmptySeq
    <2> QED BY <1>4, <1>5, <2>2, ConcatEmptySeq
  <1>7. MadeWell(objects, Afterwards(lent, objects, category, b), o)
    BY <1>5, <1>6 DEF MadeWell
  <1>8. \A x : x \in Loads(o) <=> x \in Loads(objects[b]) \/ x = Len(objects) + 1
    <2>1. \A x : ~Has(<<>>, x)
      BY DEF Has
    <2> TAKE x
    <2>2. Has(o.nodes, x) <=> Has(objects[b].nodes, x) \/ x = Len(objects) + 1
      BY <1>2, <1>5, HasAppended
    <2>3. x \in Loads(o) <=> x # 0 /\ (Has(o.nodes, x) \/ Has(<<>>, x))
      BY <1>5, LoadsAreHad
    <2>4. x \in Loads(objects[b]) <=> x # 0 /\ (Has(objects[b].nodes, x) \/ Has(<<>>, x))
      BY <1>2, <1>3, LoadsAreHad
    <2> QED BY <1>2, <2>1, <2>2, <2>3, <2>4
  <1>9. /\ Loads(o) \subseteq lent \cup Loads(objects[b]) \cup {Len(objects) + 1}
        /\ Loads(o) \subseteq 1 .. Len(objects) + 1
    BY <1>2, <1>8
  <1>10. ObjectsInv(objects', lent')
    BY <1>2, <1>3, <1>5, <1>7, <1>9, MakingKeepsInv
  <1> QED BY <1>3, <1>10 DEF Inv

(* So does every call whose object is made well.                           *)
LEMMA MakeKeepsInv ==
  ASSUME Inv, NEW b \in 1 .. Len(objects), Holds(b, "builder"),
         NEW category \in {"lvalue", "rvalue"}, NEW o \in ObjectType, Make(category, b, o),
         MadeWell(objects, Afterwards(lent, objects, category, b), o),
         \A x \in Loads(o) : x \in Loads(objects[b]) \/ x = Len(objects) + 1
  PROVE  Inv'
  <1>1. /\ objects' = Append(Turned(objects, category, b), o)
        /\ lent' = Afterwards(lent, objects, category, b)
        /\ writing' = writing
        /\ objects[b].alive
    BY MakeIsTurning
  <1>2. /\ ObjectsInv(objects, lent) /\ Len(objects) \in Nat
        /\ Loads(objects[b]) \subseteq 1 .. Len(objects)
    BY TypedObjects DEF Inv
  <1>3. /\ Loads(o) \subseteq lent \cup Loads(objects[b]) \cup {Len(objects) + 1}
        /\ Loads(o) \subseteq 1 .. Len(objects) + 1
    BY <1>2
  <1>4. ObjectsInv(objects', lent')
    BY <1>1, <1>2, <1>3, MakingKeepsInv
  <1> QED BY <1>1, <1>4 DEF Inv

(* So does making a binder: what it will record is what its builder        *)
(* spells, and the entry.                                                  *)
LEMMA BinderKeepsInv ==
  ASSUME Inv, NEW b \in 1 .. Len(objects), Holds(b, "builder"), NEW c \in writing.calls,
         c.kind \in Kinds6
  PROVE  /\ PointingBinder(b, c) => Inv'
         /\ OwningBinder(b, c) => Inv'
  <1> DEFINE e == Entry(c)
             s == Append(objects[b].spelled, e)
             k == Binder(b, c)
             pointing == [k EXCEPT !.points_to = b, !.lender = b]
             owning == [k EXCEPT !.nodes = objects[b].nodes]
  <1>1. /\ e \in Entries /\ e.load = Len(objects) + 1
        /\ objects[b].alive /\ objects[b].what = "builder" /\ objects[b] \in ObjectType
        /\ objects[b].nodes \in Seq(Entries) /\ objects[b].spelled \in Seq(Entries)
        /\ objects[b].pending = <<>> /\ objects[b].points_to = 0
        /\ Written(objects, b)
    <2>1. WellMade(objects, b) /\ objects[b].what = "builder"
      BY TypedObjects DEF Inv, Holds
    <2>2. objects[b].pending = <<>> /\ objects[b].points_to = 0
      BY <2>1 DEF WellMade
    <2> QED BY <2>2, EntryIsTyped, TypedObjects DEF Inv, Holds
  <1>2. Made(k, "binder", <<>>, 0, <<e>>, s, Careful(b))
    BY BinderIsMade
  <1>3. s = objects[b].spelled \o <<e>> /\ <<e>> \in Seq(Entries)
    BY <1>1, AppendIsConcat, OneEntry
  <1>4. ASSUME Careful(b)
        PROVE  objects[b].nodes = objects[b].spelled /\ objects[b].careful
    <2>1. objects[b].careful /\ ~objects[b].spent
      BY <1>4 DEF Careful, Intact
    <2>2. objects[b].nodes \o objects[b].pending = objects[b].spelled
      BY <1>1, <2>1 DEF Written
    <2> QED BY <1>1, <2>1, <2>2, ConcatEmptySeq
  <1>5. \A x : Has(<<e>>, x) <=> x = Len(objects) + 1
    BY <1>1, OneEntry
  <1>6. \A x : ~Has(<<>>, x)
    BY DEF Has
  <1>7. b \in Nat
    OBVIOUS
  <1> HIDE DEF k, s
  <1>8. ASSUME PointingBinder(b, c) PROVE Inv'
    <2> DEFINE o == pointing
    <2>1. Make("lvalue", b, o)
      BY <1>8, Zenon DEF PointingBinder, k
    <2>2. Made(o, "binder", <<>>, b, <<e>>, s, Careful(b))
      BY <1>2, <1>7, PointingIsMade
    <2> HIDE DEF o, e
    <2>3. MadeWell(objects, Afterwards(lent, objects, "lvalue", b), o)
      <3>1. Loads(objects[b]) \subseteq Afterwards(lent, objects, "lvalue", b)
        BY DEF Afterwards
      <3> QED BY <1>1, <1>3, <1>4, <2>2, <3>1 DEF MadeWell, Made
    <2>4. \A x \in Loads(o) : x = Len(objects) + 1
      <3>1. o \in ObjectType /\ o.nodes = <<>> /\ o.pending = <<e>>
        BY <2>2 DEF Made
      <3> QED BY <1>5, <1>6, <3>1, LoadsAreHad
    <2>5. o \in ObjectType
      BY <2>2 DEF Made
    <2> QED BY <2>1, <2>3, <2>4, <2>5, MakeKeepsInv
  <1>9. ASSUME OwningBinder(b, c) PROVE Inv'
    <2> DEFINE o == owning
    <2>1. Make("rvalue", b, o)
      BY <1>9, Zenon DEF OwningBinder, k
    <2>2. Made(o, "binder", objects[b].nodes, 0, <<e>>, s, Careful(b))
      BY <1>1, <1>2, OwningIsMade
    <2> HIDE DEF o, e
    <2>3. MadeWell(objects, Afterwards(lent, objects, "rvalue", b), o)
      BY <1>1, <1>3, <1>4, <2>2 DEF MadeWell, Made
    <2>4. \A x \in Loads(o) : x \in Loads(objects[b]) \/ x = Len(objects) + 1
      <3>1. o \in ObjectType /\ o.nodes = objects[b].nodes /\ o.pending = <<e>>
        BY <2>2 DEF Made
      <3>2. \A x : x # 0 /\ Has(objects[b].nodes, x) => x \in Loads(objects[b])
        BY <1>1, LoadsAreHad
      <3> QED BY <1>5, <3>1, <3>2, LoadsAreHad
    <2>5. o \in ObjectType
      BY <2>2 DEF Made
    <2> QED BY <2>1, <2>3, <2>4, <2>5, MakeKeepsInv
  <1> QED BY <1>8, <1>9

(* What a call on a binder returns: since no binder is refused, a builder, *)
(* unless the one the binder points to is gone.                            *)
LEMMA BoundIsMade ==
  ASSUME Inv, NEW k \in 1 .. Len(objects), Holds(k, "binder"),
         NEW from \in 1 .. Len(objects)
  PROVE  \E what \in {"lost", "builder"}, held \in Seq(Entries), careful \in BOOLEAN :
           /\ Made(Bound(k, from), what, held, 0, <<>>, objects[k].spelled, careful)
           /\ held = <<>> \/ held = objects[from].nodes \o objects[k].pending
           /\ objects[from].alive => /\ what = "builder"
                                     /\ held = objects[from].nodes \o objects[k].pending
           /\ careful <=> /\ Careful(k)
                          /\ objects[k].lender # 0 => Intact(objects[k].lender)
  <1> DEFINE e == EmptyBuilder
             binder == objects[k]
             what == IF objects[from].alive THEN "builder" ELSE "lost"
             held == IF what = "builder" THEN objects[from].nodes \o binder.pending ELSE <<>>
             careful == /\ Careful(k)
                        /\ binder.lender # 0 => Intact(binder.lender)
  <1>1. Made(e, "builder", <<>>, 0, <<>>, <<>>, TRUE)
    BY EmptyIsMade
  <1>2. /\ objects[k] \in ObjectType /\ objects[k].pending \in Seq(Entries)
        /\ objects[k].spelled \in Seq(Entries) /\ objects[from].nodes \in Seq(Entries)
    BY TypedObjects DEF Inv
  <1>3. Resolves(objects[k])
    BY <1>2, EveryBinderResolves DEF ObjectType
  <1>4. what \in {"lost", "builder"} /\ careful \in BOOLEAN
    BY <1>2 DEF Careful
  <1>5. objects[from].nodes \o binder.pending \in Seq(Entries) /\ <<>> \in Seq(Entries)
    BY <1>2, ConcatProperties, EmptySeq
  <1>6. held \in Seq(Entries)
    BY <1>5
  <1>7. Bound(k, from) = [e EXCEPT !.what = what, !.nodes = held,
                                            !.spelled = binder.spelled, !.careful = careful]
    BY <1>3, Zenon DEF Bound
  <1>8. objects[from].alive => what = "builder" /\ held = objects[from].nodes \o binder.pending
    OBVIOUS
  <1>9. held = <<>> \/ held = objects[from].nodes \o binder.pending
    OBVIOUS
  <1>10. careful <=> /\ Careful(k)
                     /\ objects[k].lender # 0 => Intact(objects[k].lender)
    OBVIOUS
  <1> HIDE DEF e, what, held, careful
  <1>11. Made(Bound(k, from), what, held, 0, <<>>, binder.spelled, careful)
    BY <1>1, <1>2, <1>4, <1>6, <1>7 DEF Made, ObjectType
  <1> QED BY <1>4, <1>6, <1>8, <1>9, <1>10, <1>11, Zenon

(* A call on a binder uses only the binder, whichever builder it reaches.  *)
LEMMA CallBinderIsTurning ==
  ASSUME Inv, NEW k \in DOMAIN objects, NEW category \in {"lvalue", "rvalue"},
         CallBinder(category, k)
  PROVE  LET from == IF objects[k].points_to # 0 THEN objects[k].points_to ELSE k
         IN  /\ k \in 1 .. Len(objects) /\ from \in 1 .. Len(objects)
             /\ Holds(k, "binder") /\ objects[k].alive
             /\ objects' = Append(Turned(objects, category, k), Bound(k, from))
             /\ lent' = Afterwards(lent, objects, category, k)
             /\ writing' = writing
  <1> DEFINE from == IF objects[k].points_to # 0 THEN objects[k].points_to ELSE k
             called == Taken(objects, category, k, "pending")
             after == Taken(called,
               BuilderRef(category, objects[k]), from, "nodes")
  <1>1. /\ k \in 1 .. Len(objects) /\ objects \in Seq(ObjectType) /\ WellMade(objects, k)
    BY TypedObjects DEF Inv
  <1>2. from \in 1 .. Len(objects)
    <2>1. objects[k].points_to # 0 => objects[k].points_to \in 1 .. k - 1
      BY <1>1 DEF WellMade
    <2>2. Len(objects) \in Nat
      BY <1>1, LenProperties
    <2> QED BY <1>1, <2>1, <2>2
  <1>3. Spent(after, category, k) = Turned(objects, category, k)
    <2>1. CASE objects[k].points_to = 0
      <3>1. BuilderRef(category, objects[k]) = category /\ from = k
        BY <2>1 DEF BuilderRef
      <3> QED BY <1>1, <3>1, TurnedParts
    <2>2. CASE objects[k].points_to # 0
      <3>1. BuilderRef(category, objects[k]) = "lvalue" /\ objects[k].nodes = <<>>
        BY <1>1, <2>2 DEF BuilderRef, WellMade
      <3>2. after = called
        BY <3>1 DEF Taken
      <3> QED BY <1>1, <3>1, <3>2, TurnedParts
    <2> QED BY <2>1, <2>2
  <1>4. /\ Holds(k, "binder")
        /\ objects' = Append(Spent(after, category, k), Bound(k, from))
        /\ lent' = Lent(category, k)
        /\ writing' = writing
    BY Zenon DEF CallBinder
  <1>5. objects[k].alive
    BY <1>4 DEF Holds
  <1>6. lent' = Afterwards(lent, objects, category, k)
    BY <1>4 DEF Lent, Afterwards
  <1> HIDE DEF from, after
  <1>7. objects' = Append(Turned(objects, category, k), Bound(k, from))
    BY <1>3, <1>4
  <1> QED BY <1>1, <1>2, <1>4, <1>5, <1>6, <1>7 DEF from

(* A call on a binder keeps the invariant: through a pointer it copies     *)
(* what was lent, else it takes the binder's own nodes.                    *)
LEMMA CallBinderKeepsInv ==
  ASSUME Inv, NEW k \in DOMAIN objects, NEW category \in {"lvalue", "rvalue"},
         CallBinder(category, k)
  PROVE  Inv'
  <1> DEFINE from == IF objects[k].points_to # 0 THEN objects[k].points_to ELSE k
             o == Bound(k, from)
  <1>1. /\ k \in 1 .. Len(objects) /\ from \in 1 .. Len(objects)
        /\ Holds(k, "binder") /\ objects[k].alive
        /\ objects' = Append(Turned(objects, category, k), o)
        /\ lent' = Afterwards(lent, objects, category, k)
        /\ writing' = writing
    BY CallBinderIsTurning
  <1>2. PICK what \in {"lost", "builder"}, held \in Seq(Entries), careful \in BOOLEAN :
           /\ Made(o, what, held, 0, <<>>, objects[k].spelled, careful)
           /\ held = <<>> \/ held = objects[from].nodes \o objects[k].pending
           /\ objects[from].alive => /\ what = "builder"
                                     /\ held = objects[from].nodes \o objects[k].pending
           /\ careful <=> /\ Careful(k)
                          /\ objects[k].lender # 0 => Intact(objects[k].lender)
    BY <1>1, BoundIsMade
  <1> HIDE DEF o
  <1>3. /\ ObjectsInv(objects, lent) /\ Len(objects) \in Nat
        /\ WellMade(objects, k) /\ Written(objects, k) /\ Loaned(objects, lent, k)
        /\ Written(objects, from) /\ WellMade(objects, from)
        /\ objects[k] \in ObjectType /\ objects[from] \in ObjectType
        /\ objects[k].pending \in Seq(Entries) /\ objects[k].nodes \in Seq(Entries)
        /\ objects[from].nodes \in Seq(Entries)
        /\ Loads(objects[k]) \subseteq 1 .. Len(objects)
        /\ Loads(objects[from]) \subseteq 1 .. Len(objects)
    BY <1>1, TypedObjects DEF Inv
  <1>4. ASSUME careful PROVE what = "builder" /\ held = objects[k].spelled
    <2>1. objects[k].careful /\ ~objects[k].spent
      BY <1>2, <1>4 DEF Careful, Intact
    <2>2. CASE objects[k].points_to = 0
      <3>1. from = k
        BY <2>2
      <3> QED BY <1>1, <1>2, <1>3, <2>1, <2>2, <3>1 DEF Written
    <2>3. CASE objects[k].points_to # 0
      <3>1. from = objects[k].points_to /\ objects[k].lender = from
        BY <1>3, <2>3 DEF WellMade
      <3>2. objects[from].alive /\ ~objects[from].spent
        BY <1>2, <1>4, <2>3, <3>1 DEF Intact
      <3>3. objects[from].careful
            /\ objects[k].spelled = objects[from].spelled \o objects[k].pending
        BY <1>3, <2>1, <2>3, <3>1 DEF Written
      <3>4. /\ objects[from].what = "builder" /\ objects[from].pending = <<>>
            /\ objects[from].points_to = 0
        BY <1>3, <2>3, <3>1 DEF WellMade
      <3>5. objects[from].nodes \o objects[from].pending = objects[from].spelled
        BY <1>3, <3>2, <3>3, <3>4 DEF Written
      <3>6. objects[from].nodes = objects[from].spelled
        BY <1>3, <3>4, <3>5, ConcatEmptySeq
      <3> QED BY <1>2, <3>2, <3>3, <3>6
    <2> QED BY <2>2, <2>3
  <1>5. MadeWell(objects, Afterwards(lent, objects, category, k), o)
    <2>1. held \o <<>> = held
      BY ConcatEmptySeq
    <2> QED BY <1>2, <1>4, <2>1 DEF MadeWell, Made
  <1>6. \A x \in Loads(o) :
          /\ x \in lent \cup Loads(objects[k])
          /\ x \in 1 .. Len(objects)
    <2>1. Loads(objects[from]) \subseteq lent \cup Loads(objects[k])
      BY <1>3 DEF Loaned
    <2> TAKE x \in Loads(o)
    <2>2. \A y : ~Has(<<>>, y)
      BY DEF Has
    <2>3. x # 0 /\ Has(held, x)
      BY <1>2, <2>2, LoadsAreHad DEF Made
    <2>4. Has(objects[from].nodes, x) \/ Has(objects[k].pending, x)
      <3>1. held # <<>>
        BY <2>2, <2>3
      <3>2. Has(objects[from].nodes \o objects[k].pending, x)
        BY <1>2, <2>3, <3>1
      <3> QED BY <1>3, <3>2, HasConcatenated
    <2>5. x \in Loads(objects[from]) \/ x \in Loads(objects[k])
      BY <1>3, <2>3, <2>4, LoadsAreHad
    <2> QED BY <1>3, <2>1, <2>5
  <1>7. o \in ObjectType
    BY <1>2 DEF Made
  <1>8. /\ Loads(o) \subseteq lent \cup Loads(objects[k]) \cup {Len(objects) + 1}
        /\ Loads(o) \subseteq 1 .. Len(objects) + 1
    BY <1>3, <1>6
  <1>9. ObjectsInv(objects', lent')
    BY <1>1, <1>3, <1>5, <1>7, <1>8, MakingKeepsInv
  <1> QED BY <1>1, <1>9 DEF Inv

-------------------------------------------------------------------------------
(* Every step keeps the invariant.                                         *)

(* A call on a builder holds a builder, continues its tree, and records,   *)
(* points or owns.                                                         *)
LEMMA BuilderCallMakes ==
  ASSUME NEW b, NEW c, BuilderCall(b, c)
  PROVE  /\ Holds(b, "builder")
         /\ c.kind \in Kinds6
         /\ AppendLevelValid(objects[b].nodes, c.level)
         /\ \/ Record("lvalue", b, c) \/ Record("rvalue", b, c)
            \/ PointingBinder(b, c) \/ OwningBinder(b, c)
  <1> DEFINE Goal == /\ Holds(b, "builder")
                     /\ c.kind \in Kinds6
                     /\ AppendLevelValid(objects[b].nodes, c.level)
                     /\ \/ Record("lvalue", b, c) \/ Record("rvalue", b, c)
                        \/ PointingBinder(b, c) \/ OwningBinder(b, c)
  <1>1. \A kinds \in {Ordinary, Member, Forward} :
          kinds \subseteq Kinds6
    BY DEF Ordinary, Member, Forward, Kinds6
  <1>2. ASSUME NEW forms, NEW kinds \in {Ordinary, Member, Forward},
                 NEW act,
               Selects(b, c, forms, kinds, act)
        PROVE  /\ Holds(b, "builder") /\ c.kind \in Kinds6
               /\ AppendLevelValid(objects[b].nodes, c.level)
    BY <1>1, <1>2, Zenon DEF Selects
  <1>3. NodeTaskLvalue(b, c) \/ NodeTaskRvalue(b, c) => Goal
    BY <1>2, Zenon DEF NodeTaskLvalue, NodeTaskRvalue
  <1>4. NodeCallableLvalue(b, c) \/ NodeCallableRvalue(b, c) => Goal
    BY <1>2, Zenon DEF NodeCallableLvalue, NodeCallableRvalue
  <1>5. NodeMemberLvalue(b, c) \/ NodeMemberRvalue(b, c) => Goal
    BY <1>2, Zenon DEF NodeMemberLvalue, NodeMemberRvalue
  <1>6. NodeForwardLvalue(b, c) \/ NodeForwardRvalue(b, c) => Goal
    BY <1>2, Zenon DEF NodeForwardLvalue, NodeForwardRvalue
  <1>7. RootOrdinaryLvalue(b, c) \/ RootOrdinaryRvalue(b, c) => Goal
    BY <1>2, Zenon
    DEF RootOrdinaryLvalue, RootOrdinaryRvalue, RootTask
  <1>8. RootMemberLvalue(b, c) \/ RootMemberRvalue(b, c) => Goal
    BY <1>2, Zenon DEF RootMemberLvalue, RootMemberRvalue
  <1>9. RootForwardLvalue(b, c) \/ RootForwardRvalue(b, c) => Goal
    BY <1>2, Zenon DEF RootForwardLvalue, RootForwardRvalue
  <1> HIDE DEF Goal
  <1>10. Goal
    BY <1>3, <1>4, <1>5, <1>6, <1>7, <1>8, <1>9, Zenon DEF BuilderCall
  <1> QED BY <1>10 DEF Goal

(* Destroying an object keeps the invariant: what points to it no longer   *)
(* promises anything.                                                      *)
LEMMA DroppedKeepsInv ==
  ASSUME NEW objs, NEW lt, ObjectsInv(objs, lt), NEW b \in 1 .. Len(objs)
  PROVE  ObjectsInv([objs EXCEPT ![b].alive = FALSE], lt)
  <1> DEFINE gone == [objs[b] EXCEPT !.alive = FALSE]
             new == [objs EXCEPT ![b] = gone]
  <1>1. /\ objs \in Seq(ObjectType) /\ Len(objs) \in Nat /\ DOMAIN objs = 1 .. Len(objs)
        /\ \A k \in 1 .. Len(objs) : objs[k] \in ObjectType
    BY TypedObjects
  <1>2. /\ gone \in ObjectType /\ gone.alive = FALSE
        /\ gone.nodes = objs[b].nodes /\ gone.pending = objs[b].pending
        /\ gone.what = objs[b].what /\ gone.points_to = objs[b].points_to
        /\ gone.lender = objs[b].lender /\ gone.spelled = objs[b].spelled
        /\ gone.careful = objs[b].careful /\ gone.spent = objs[b].spent
    BY <1>1 DEF ObjectType
  <1> HIDE DEF gone
  <1>3. /\ new \in Seq(ObjectType) /\ Len(new) = Len(objs) /\ DOMAIN new = 1 .. Len(objs)
        /\ \A k \in 1 .. Len(objs) : new[k] = IF k = b THEN gone ELSE objs[k]
    BY <1>1, <1>2, ExceptSeq, LenProperties
  <1> HIDE DEF new
  <1>4. \A k \in 1 .. Len(objs) :
          /\ new[k].nodes = objs[k].nodes /\ new[k].pending = objs[k].pending
          /\ new[k].what = objs[k].what /\ new[k].points_to = objs[k].points_to
          /\ new[k].lender = objs[k].lender /\ new[k].spelled = objs[k].spelled
          /\ new[k].careful = objs[k].careful /\ new[k].spent = objs[k].spent
    BY <1>2, <1>3
  <1>5. \A k \in 1 .. Len(objs) : new[k].alive => objs[k].alive
    BY <1>2, <1>3
  <1>6. \A k \in 1 .. Len(objs) : Loads(new[k]) = Loads(objs[k])
    <2> TAKE k \in 1 .. Len(objs)
    <2>1. new[k].nodes = objs[k].nodes /\ new[k].pending = objs[k].pending
      BY <1>4
    <2> QED BY <2>1, Zenon DEF Loads
  <1>7. ASSUME NEW k \in 1 .. Len(objs)
        PROVE  WellMade(new, k) /\ Written(new, k) /\ Loaned(new, lt, k)
    <2>1. WellMade(objs, k) /\ Written(objs, k) /\ Loaned(objs, lt, k)
      BY TypedObjects
    <2>2. objs[k].points_to # 0 => objs[k].points_to \in 1 .. Len(objs)
      BY <1>1, <2>1 DEF WellMade
    <2>3. WellMade(new, k)
      BY <1>4, <2>1, <2>2 DEF WellMade
    <2>4. Written(new, k)
      BY <1>4, <2>1, <2>2 DEF Written
    <2>5. Loaned(new, lt, k)
      BY <1>4, <1>6, <2>1, <2>2 DEF Loaned
    <2> QED BY <2>3, <2>4, <2>5
  <1>8. Unshared(new, lt)
    BY <1>1, <1>3, <1>5, <1>6, TypedObjects DEF Unshared
  <1>9. \A k \in 1 .. Len(objs) : Loads(new[k]) \subseteq 1 .. Len(objs)
    BY <1>6, TypedObjects
  <1>10. ObjectsInv(new, lt)
    BY <1>3, <1>7, <1>8, <1>9 DEF ObjectsInv
  <1>11. [objs EXCEPT ![b].alive = FALSE] = new
    BY DEF new, gone
  <1> QED BY <1>10, <1>11

(* A program starts with task_tree alone.                                  *)
LEMMA InvInitially ==
  WritingInit => Inv
  <1> DEFINE e == EmptyBuilder
             one == <<e>>
  <1>1. Made(e, "builder", <<>>, 0, <<>>, <<>>, TRUE)
    BY EmptyIsMade
  <1>2. Loads(e) = {}
    BY EmptyObject
  <1> HIDE DEF e
  <1>3. e \in ObjectType
    BY <1>1 DEF Made
  <1>4. /\ one \in Seq(ObjectType) /\ Len(one) = 1 /\ DOMAIN one = 1 .. 1 /\ one[1] = e
    BY <1>3
  <1> HIDE DEF one
  <1>5. WellMade(one, 1) /\ Written(one, 1) /\ Loaned(one, {}, 1)
    <2>1. <<>> \o <<>> = <<>> /\ <<>> \in Seq(Entries)
      BY EmptySeq, ConcatEmptySeq
    <2> QED BY <1>1, <1>4, <2>1 DEF WellMade, Written, Loaned, Made
  <1>6. Unshared(one, {})
    BY <1>4 DEF Unshared
  <1>7. ObjectsInv(one, {})
    BY <1>2, <1>4, <1>5, <1>6 DEF ObjectsInv
  <1> QED BY <1>7 DEF WritingInit, Inv, one, e

(* Every step keeps the invariant.                                         *)
LEMMA InvIsKept ==
  Inv /\ [WritingNext]_writing_vars => Inv'
  <1> SUFFICES ASSUME Inv, [WritingNext]_writing_vars PROVE Inv'
    OBVIOUS
  <1>1. DOMAIN objects = 1 .. Len(objects) /\ ObjectsInv(objects, lent)
    BY TypedObjects DEF Inv
  <1>2. ASSUME NEW b \in DOMAIN objects, NEW c \in writing.calls, BuilderCall(b, c)
        PROVE  Inv'
    <2>1. /\ Holds(b, "builder") /\ c.kind \in Kinds6
          /\ \/ Record("lvalue", b, c) \/ Record("rvalue", b, c)
             \/ PointingBinder(b, c) \/ OwningBinder(b, c)
      BY <1>2, BuilderCallMakes
    <2>2. b \in 1 .. Len(objects)
      BY <1>1
    <2>3. CASE Record("lvalue", b, c)
      BY <2>1, <2>2, <2>3, RecordKeepsInv
    <2>4. CASE Record("rvalue", b, c)
      BY <2>1, <2>2, <2>4, RecordKeepsInv
    <2>5. CASE PointingBinder(b, c) \/ OwningBinder(b, c)
      BY <2>1, <2>2, <2>5, BinderKeepsInv
    <2> QED BY <2>1, <2>3, <2>4, <2>5
  <1>3. ASSUME NEW k \in DOMAIN objects, NEW category \in {"lvalue", "rvalue"},
               CallBinder(category, k)
        PROVE  Inv'
    BY <1>3, CallBinderKeepsInv
  <1>4. ASSUME NewBuilder PROVE Inv'
    <2> DEFINE o == EmptyBuilder
    <2>1. Made(o, "builder", <<>>, 0, <<>>, <<>>, TRUE) /\ Loads(o) = {}
      BY EmptyIsMade, EmptyObject
    <2>2. objects' = Append(objects, o) /\ lent' = lent /\ writing' = writing
      BY <1>4 DEF NewBuilder
    <2> HIDE DEF o
    <2>3. <<>> \o <<>> = <<>> /\ <<>> \in Seq(Entries)
      BY EmptySeq, ConcatEmptySeq
    <2>4. /\ o \in ObjectType /\ o.alive /\ ~o.spent /\ o.lender = o.points_to /\ o.points_to = 0
          /\ (o.what = "builder" => o.pending = <<>>)
          /\ o.what \in {"builder", "binder"} /\ o.nodes \o o.pending = o.spelled
      BY <2>1, <2>3 DEF Made
    <2>5. ObjectsInv(Append(objects, o), lent)
      BY <1>1, <2>1, <2>4, AddingKeepsInv
    <2> QED BY <2>2, <2>5 DEF Inv
  <1>5. ASSUME NEW b \in DOMAIN objects, Drop(b) PROVE Inv'
    <2>1. ObjectsInv([objects EXCEPT ![b].alive = FALSE], lent)
      BY <1>1, DroppedKeepsInv
    <2> QED BY <1>5, <2>1 DEF Drop, Inv
  <1>6. CASE UNCHANGED writing_vars
    BY <1>6 DEF writing_vars, Inv
  <1> QED BY <1>2, <1>3, <1>4, <1>5, <1>6, Zenon DEF WritingNext

(* Whatever a program writes, the invariant holds.                         *)
LEMMA InvAlways == WritingSpec => []Inv
  BY InvInitially, InvIsKept, PTL DEF WritingSpec

-------------------------------------------------------------------------------
(* What the invariant gives.                                               *)

(* The invariant says of each object used with care what it holds.         *)
LEMMA InvGivesTrees == Inv => TreesAreAsSpelled
  <1> SUFFICES ASSUME Inv, NEW b \in Live, Careful(b)
               PROVE  CASE objects[b].what = "builder" -> objects[b].nodes = objects[b].spelled
                        [] objects[b].what = "binder"  ->
                             (objects[b].points_to = 0 =>
                                objects[b].nodes \o objects[b].pending = objects[b].spelled)
                        [] OTHER -> FALSE
    BY Zenon DEF TreesAreAsSpelled
  <1>1. b \in 1 .. Len(objects)
    BY TypedObjects DEF Inv, Live
  <1>2. WellMade(objects, b) /\ Written(objects, b) /\ objects[b].nodes \in Seq(Entries)
    BY <1>1, TypedObjects DEF Inv
  <1>3. objects[b].careful /\ ~objects[b].spent
    BY DEF Careful, Intact
  <1>4. CASE objects[b].what = "builder"
    <2>1. objects[b].pending = <<>> /\ objects[b].points_to = 0
      BY <1>2, <1>4 DEF WellMade
    <2>2. objects[b].nodes \o objects[b].pending = objects[b].spelled
      BY <1>2, <1>3, <2>1 DEF Written
    <2>3. objects[b].nodes = objects[b].spelled
      BY <1>2, <2>1, <2>2, ConcatEmptySeq
    <2> QED BY <1>4, <2>3
  <1>5. CASE objects[b].what = "binder"
    <2>1. objects[b].points_to = 0 =>
            objects[b].nodes \o objects[b].pending = objects[b].spelled
      BY <1>2, <1>3 DEF Written
    <2> QED BY <1>5, <2>1
  <1>6. objects[b].what \in {"builder", "binder"}
    BY <1>2, <1>3 DEF Written
  <1> QED BY <1>4, <1>5, <1>6

(* Whatever calls a program makes, in any order and of any builders,       *)
(* lvalues or rvalues, an object used with care holds exactly the tree its *)
(* expression spells, and no binder is refused.                            *)
THEOREM EveryTreeIsAsSpelled == WritingSpec => []TreesAreAsSpelled
  BY InvAlways, InvGivesTrees, PTL

(* No load is in two live objects unless an lvalue use lent it: chains of  *)
(* temporaries never copy a callable.                                      *)
THEOREM EveryCopyNeedsAnLvalue == WritingSpec => []CopiesNeedAnLvalue
  <1>1. Inv => CopiesNeedAnLvalue
    <2> SUFFICES ASSUME Inv, NEW a \in Live, NEW b \in Live, a # b
                 PROVE  Loads(objects[a]) \cap Loads(objects[b]) \subseteq lent
      BY Zenon DEF CopiesNeedAnLvalue
    <2> QED BY TypedObjects DEF Inv, Live, Unshared
  <1> QED BY <1>1, InvAlways, PTL

(* What a step may do to the objects there are.                            *)
Undisturbed ==
  \A b \in DOMAIN objects :
    <<objects[b].nodes, objects[b].pending>> # <<objects'[b].nodes, objects'[b].pending>>
      => ~objects[b].spent /\ objects'[b].spent

(* A use changes the used object alone, and only the first time.           *)
LEMMA TurningDisturbsOne ==
  ASSUME Inv, NEW k \in 1 .. Len(objects), NEW category \in {"lvalue", "rvalue"},
           NEW o \in ObjectType,
         objects' = Append(Turned(objects, category, k), o)
  PROVE  Undisturbed
  <1> SUFFICES ASSUME NEW b \in DOMAIN objects,
                      <<objects[b].nodes, objects[b].pending>>
                        # <<objects'[b].nodes, objects'[b].pending>>
               PROVE  ~objects[b].spent /\ objects'[b].spent
    BY Zenon DEF Undisturbed
  <1>1. /\ b \in 1 .. Len(objects) /\ objects[b] \in ObjectType /\ WellMade(objects, b)
        /\ ObjectsInv(objects, lent)
    BY TypedObjects DEF Inv
  <1>2. /\ ObjectsInv(Turned(objects, category, k), lent)
        /\ Len(Turned(objects, category, k)) = Len(objects)
        /\ Turned(objects, category, k)[b] =
             IF category = "rvalue" /\ b = k THEN Used(objects[b]) ELSE objects[b]
    BY <1>1, UsingKeepsInv
  <1>3. objects'[b] = Turned(objects, category, k)[b]
    <2>1. Turned(objects, category, k) \in Seq(ObjectType)
      BY <1>2 DEF ObjectsInv
    <2> QED BY <1>1, <1>2, <2>1, AppendProperties
  <1>4. objects'[b] = Used(objects[b])
    BY <1>2, <1>3
  <1>5. /\ objects'[b].spent
        /\ objects'[b].nodes = Hollowed(objects[b].nodes)
        /\ objects'[b].pending = Hollowed(objects[b].pending)
    BY <1>1, <1>4, UsedObject
  <1>6. ~objects[b].spent
    BY <1>1, <1>5 DEF WellMade
  <1> QED BY <1>5, <1>6

(* So does every call on a builder that makes an object,                   *)
LEMMA MakingDisturbsOne ==
  ASSUME Inv, NEW b \in 1 .. Len(objects), Holds(b, "builder"),
         NEW category \in {"lvalue", "rvalue"}, NEW o \in ObjectType, Make(category, b, o)
  PROVE  Undisturbed
  <1>1. objects' = Append(Turned(objects, category, b), o)
    BY MakeIsTurning
  <1> QED BY <1>1, TurningDisturbsOne

(* and every call on a builder makes one: a recording one node longer, or  *)
(* a binder that points at b with that node pending.                       *)
LEMMA CallMakesObject ==
  ASSUME Inv, NEW b \in 1 .. Len(objects), NEW c \in writing.calls, BuilderCall(b, c)
  PROVE  \E category \in {"lvalue", "rvalue"}, o \in ObjectType :
           /\ Make(category, b, o)
           /\ \/ /\ o.points_to = 0
                 /\ o.nodes \o o.pending = Append(objects[b].nodes, Entry(c))
              \/ o.points_to = b /\ o.pending = <<Entry(c)>>
  <1> DEFINE e == Entry(c)
             k == Binder(b, c)
             n == Append(objects[b].nodes, e)
             s == Append(objects[b].spelled, e)
             recorded == [EmptyBuilder EXCEPT !.nodes = n, !.spelled = s,
                                                       !.careful = Careful(b)]
             pointing == [k EXCEPT !.points_to = b, !.lender = b]
             owning == [k EXCEPT !.nodes = objects[b].nodes]
  <1>1. /\ Holds(b, "builder") /\ c.kind \in Kinds6
        /\ \/ Record("lvalue", b, c) \/ Record("rvalue", b, c)
           \/ PointingBinder(b, c) \/ OwningBinder(b, c)
    BY BuilderCallMakes
  <1>2. /\ e \in Entries /\ objects[b] \in ObjectType
        /\ objects[b].nodes \in Seq(Entries) /\ objects[b].spelled \in Seq(Entries)
    BY EntryIsTyped, TypedObjects DEF Inv
  <1>3. n \in Seq(Entries) /\ s \in Seq(Entries) /\ n \o <<>> = n /\ objects[b].nodes \o <<e>> = n
    BY <1>2, AppendProperties, AppendIsConcat, ConcatEmptySeq
  <1>4. Careful(b) \in BOOLEAN
    BY <1>2 DEF Careful, Intact, ObjectType
  <1>5. Made(recorded, "builder", n, 0, <<>>, s, Careful(b))
    BY <1>3, <1>4, RecordedIsMade
  <1>6. Made(k, "binder", <<>>, 0, <<e>>, s, Careful(b))
    BY <1>1, BinderIsMade
  <1> HIDE DEF e, s
  <1>7. Made(pointing, "binder", <<>>, b, <<e>>, s, Careful(b))
    <2>1. b \in Nat
      OBVIOUS
    <2> HIDE DEF k
    <2> QED BY <1>6, <2>1, PointingIsMade
  <1>8. Made(owning, "binder", objects[b].nodes, 0, <<e>>, s, Careful(b))
    <2> HIDE DEF k
    <2> QED BY <1>2, <1>6, OwningIsMade
  <1>9. /\ recorded \in ObjectType /\ pointing \in ObjectType /\ owning \in ObjectType
        /\ recorded.points_to = 0 /\ recorded.nodes \o recorded.pending = n
        /\ pointing.points_to = b /\ pointing.pending = <<e>>
        /\ owning.points_to = 0 /\ owning.nodes \o owning.pending = n
    <2> HIDE DEF recorded, pointing, owning, k, n
    <2> QED BY <1>3, <1>5, <1>7, <1>8 DEF Made
  <1>10. \/ Make("lvalue", b, recorded) \/ Make("rvalue", b, recorded)
         \/ Make("lvalue", b, pointing) \/ Make("rvalue", b, owning)
    BY <1>1, Zenon DEF Record, PointingBinder, OwningBinder, e, s
  <1>11. n = Append(objects[b].nodes, Entry(c)) /\ <<e>> = <<Entry(c)>>
    BY DEF e
  <1> HIDE DEF recorded, pointing, owning, n
  <1> QED BY <1>9, <1>10, <1>11, Zenon

(* Calls on builders disturb only the builder they use up.                 *)
LEMMA CallsDisturbOne ==
  ASSUME Inv, NEW b \in 1 .. Len(objects), NEW c \in writing.calls, BuilderCall(b, c)
  PROVE  Undisturbed
  <1>1. Holds(b, "builder")
    BY BuilderCallMakes
  <1>2. PICK category \in {"lvalue", "rvalue"}, o \in ObjectType : Make(category, b, o)
    BY CallMakesObject
  <1> QED BY <1>1, <1>2, MakingDisturbsOne

(* An object's nodes and loads change only by its own first rvalue use;    *)
(* what others made of it, and what points to it, is never reached.        *)
THEOREM UsesDisturbOnlyTheUsed == WritingSpec => UsesDisturbNothingElse
  <1>1. Inv /\ [WritingNext]_writing_vars => [Undisturbed]_writing_vars
    <2> SUFFICES ASSUME Inv, WritingNext PROVE Undisturbed
      BY Zenon
    <2>1. DOMAIN objects = 1 .. Len(objects) /\ objects \in Seq(ObjectType)
          /\ \A b \in 1 .. Len(objects) : objects[b] \in ObjectType
      BY TypedObjects DEF Inv
    <2>2. ASSUME NEW b \in DOMAIN objects, NEW c \in writing.calls, BuilderCall(b, c)
          PROVE  Undisturbed
      BY <2>1, <2>2, CallsDisturbOne
    <2>3. ASSUME NEW k \in DOMAIN objects, NEW category \in {"lvalue", "rvalue"},
                 CallBinder(category, k)
          PROVE  Undisturbed
      <3> DEFINE from == IF objects[k].points_to # 0 THEN objects[k].points_to ELSE k
      <3>1. /\ k \in 1 .. Len(objects) /\ from \in 1 .. Len(objects) /\ Holds(k, "binder")
            /\ objects' = Append(Turned(objects, category, k), Bound(k, from))
        BY <2>3, CallBinderIsTurning
      <3> HIDE DEF from
      <3>2. Bound(k, from) \in ObjectType
        BY <3>1, BoundIsMade DEF Made
      <3> QED BY <3>1, <3>2, TurningDisturbsOne
    <2>4. ASSUME NewBuilder PROVE Undisturbed
      <3>1. objects' = Append(objects, EmptyBuilder)
        BY <2>4 DEF NewBuilder
      <3>2. \A b \in 1 .. Len(objects) : objects'[b] = objects[b]
        BY <2>1, <3>1, EmptyObject, AppendProperties
      <3> QED BY <2>1, <3>2 DEF Undisturbed
    <2>5. ASSUME NEW d \in DOMAIN objects, Drop(d) PROVE Undisturbed
      <3>1. objects' = [objects EXCEPT ![d].alive = FALSE]
        BY <2>5 DEF Drop
      <3>2. ASSUME NEW b \in 1 .. Len(objects)
            PROVE  objects'[b].nodes = objects[b].nodes /\ objects'[b].pending = objects[b].pending
        <4>1. objects[b] \in ObjectType
          BY <2>1
        <4> QED BY <2>1, <3>1, <4>1 DEF ObjectType
      <3> QED BY <2>1, <3>2 DEF Undisturbed
    <2> QED BY <2>2, <2>3, <2>4, <2>5, Zenon DEF WritingNext
  <1>2. WritingSpec => [][Undisturbed]_writing_vars
    BY <1>1, InvAlways, PTL DEF WritingSpec
  <1> QED BY <1>2 DEF UsesDisturbNothingElse, Undisturbed

-------------------------------------------------------------------------------
(* What builders hold is a recording.                                      *)

(* Entries whose levels continue a tree, each the ones before it.          *)
Continues(entries) ==
  \A i \in 1 .. Len(entries) :
    IF i = 1 THEN entries[i].level = 0
    ELSE entries[i].level # 0 /\ entries[i].level <= entries[i - 1].level + 1

(* The recording that an object is, or will make when it is called.        *)
Recording(objs, k) ==
  (IF objs[k].points_to # 0 THEN objs[objs[k].points_to].nodes ELSE objs[k].nodes)
    \o objs[k].pending

(* Every object, used up or not, is a recording or will make one. A binder *)
(* is checked when it is made and appends only when it is called: that is  *)
(* right because the builder it points to keeps its levels.                *)
RecordingsInv(objs) == \A k \in 1 .. Len(objs) : Continues(Recording(objs, k))

(* Entries that differ in their loads alone.                               *)
SameLevels(s, t) ==
  /\ s \in Seq(Entries) /\ t \in Seq(Entries)
  /\ Len(s) = Len(t)
  /\ \A i \in 1 .. Len(s) : s[i].level = t[i].level

(* The empty recording.                                                    *)
LEMMA EmptyContinues == Continues(<<>>) /\ <<>> \o <<>> = <<>>
  <1>1. Continues(<<>>)
    BY DEF Continues
  <1>2. <<>> \in Seq(Entries)
    BY EmptySeq
  <1>3. <<>> \o <<>> = <<>>
    BY <1>2, ConcatEmptySeq
  <1> QED BY <1>1, <1>3

(* Whether entries continue a tree depends on their levels.                *)
LEMMA SameLevelsContinue ==
  ASSUME NEW s, NEW t, SameLevels(s, t), Continues(s)
  PROVE  Continues(t)
  <1>1. Len(s) \in Nat
    BY LenProperties DEF SameLevels
  <1>2. ASSUME NEW i \in 1 .. Len(t)
        PROVE  IF i = 1 THEN t[i].level = 0
               ELSE t[i].level # 0 /\ t[i].level <= t[i - 1].level + 1
    <2>1. i \in 1 .. Len(s) /\ (i # 1 => i - 1 \in 1 .. Len(s))
      BY <1>1 DEF SameLevels
    <2>2. t[i].level = s[i].level /\ (i # 1 => t[i - 1].level = s[i - 1].level)
      BY <2>1 DEF SameLevels
    <2> QED BY <2>1, <2>2 DEF Continues
  <1> QED BY <1>2 DEF Continues

(* Levels of a concatenation.                                              *)
LEMMA SameLevelsJoin ==
  ASSUME NEW s, NEW t, SameLevels(s, t), NEW u, NEW v, SameLevels(u, v)
  PROVE  SameLevels(s \o u, t \o v)
  <1>1. /\ s \in Seq(Entries) /\ t \in Seq(Entries) /\ u \in Seq(Entries) /\ v \in Seq(Entries)
        /\ Len(s) = Len(t) /\ Len(u) = Len(v)
    BY DEF SameLevels
  <1>2. /\ Len(s) \in Nat /\ Len(u) \in Nat
        /\ s \o u \in Seq(Entries) /\ Len(s \o u) = Len(s) + Len(u)
        /\ \A i \in 1 .. Len(s) + Len(u) : (s \o u)[i] = IF i <= Len(s) THEN s[i] ELSE u[i - Len(s)]
    BY <1>1, ConcatProperties, LenProperties
  <1>4. /\ t \o v \in Seq(Entries) /\ Len(t \o v) = Len(s) + Len(u)
        /\ \A i \in 1 .. Len(s) + Len(u) : (t \o v)[i] = IF i <= Len(s) THEN t[i] ELSE v[i - Len(s)]
    BY <1>1, ConcatProperties, LenProperties
  <1>3. ASSUME NEW i \in 1 .. Len(s) + Len(u)
        PROVE  (s \o u)[i].level = (t \o v)[i].level
    <2>1. CASE i <= Len(s)
      <3>1. i \in 1 .. Len(s) /\ (s \o u)[i] = s[i] /\ (t \o v)[i] = t[i]
        BY <1>2, <1>4, <2>1
      <3> QED BY <3>1 DEF SameLevels
    <2>2. CASE ~(i <= Len(s))
      <3>1. i - Len(s) \in 1 .. Len(u) /\ (s \o u)[i] = u[i - Len(s)] /\ (t \o v)[i] = v[i - Len(s)]
        BY <1>2, <1>4, <2>2
      <3> QED BY <3>1 DEF SameLevels
    <2> QED BY <2>1, <2>2
  <1> QED BY <1>2, <1>3, <1>4 DEF SameLevels

(* Moving from entries leaves their levels.                                *)
LEMMA HollowedLevels ==
  ASSUME NEW s \in Seq(Entries)
  PROVE  SameLevels(s, Hollowed(s)) /\ SameLevels(s, s)
  <1>1. /\ Hollowed(s) \in Seq(Entries)
        /\ Len(Hollowed(s)) = Len(s)
        /\ \A i \in 1 .. Len(s) : Hollowed(s)[i] = [s[i] EXCEPT !.load = 0]
    BY HollowedEntries
  <1>2. \A i \in 1 .. Len(s) : s[i] \in Entries
    BY ElementOfSeq
  <1>3. \A i \in 1 .. Len(s) : Hollowed(s)[i].level = s[i].level
    BY <1>1, <1>2 DEF Entries
  <1> QED BY <1>1, <1>3 DEF SameLevels

(* What AppendLevelValid lets be appended continues the tree.              *)
LEMMA ContinuedByAppending ==
  ASSUME NEW s \in Seq(Entries), NEW e \in Entries, Continues(s),
         AppendLevelValid(s, e.level)
  PROVE  Continues(Append(s, e))
  <1> DEFINE t == Append(s, e)
             n == Len(s)
  <1>1. /\ n \in Nat /\ Len(t) = n + 1 /\ t[n + 1] = e
        /\ \A i \in 1 .. n : t[i] = s[i]
    BY AppendProperties, LenProperties
  <1>2. n = 0 => s = <<>>
    BY EmptySeq
  <1>3. n # 0 => s # <<>>
    BY EmptySeq
  <1>4. IF n = 0 THEN e.level = 0 ELSE e.level # 0 /\ e.level <= s[n].level + 1
    BY <1>2, <1>3 DEF AppendLevelValid
  <1> HIDE DEF t, n
  <1>5. ASSUME NEW i \in 1 .. n + 1
        PROVE  IF i = 1 THEN t[i].level = 0
               ELSE t[i].level # 0 /\ t[i].level <= t[i - 1].level + 1
    <2>1. CASE i \in 1 .. n
      <3>1. t[i] = s[i] /\ (i # 1 => i - 1 \in 1 .. n /\ t[i - 1] = s[i - 1])
        BY <1>1, <2>1
      <3>2. IF i = 1 THEN s[i].level = 0
            ELSE s[i].level # 0 /\ s[i].level <= s[i - 1].level + 1
        BY <2>1 DEF Continues, n
      <3> QED BY <3>1, <3>2
    <2>2. CASE i = n + 1
      <3>1. CASE n = 0
        BY <1>1, <1>4, <2>2, <3>1
      <3>2. CASE n # 0
        <4>1. i # 1 /\ i - 1 = n /\ n \in 1 .. n
          BY <1>1, <2>2, <3>2
        <4>2. t[i] = e /\ t[i - 1] = s[n]
          BY <1>1, <2>2, <4>1
        <4> QED BY <1>4, <3>2, <4>1, <4>2
      <3> QED BY <3>1, <3>2
    <2> QED BY <1>1, <2>1, <2>2
  <1>6. Continues(t)
    BY <1>1, <1>5 DEF Continues
  <1> QED BY <1>6 DEF t

(* Using an object leaves every recording its levels.                      *)
LEMMA TurningKeepsRecordings ==
  ASSUME NEW objs, NEW lt, ObjectsInv(objs, lt), RecordingsInv(objs), NEW b \in 1 .. Len(objs),
         NEW category \in {"lvalue", "rvalue"}
  PROVE  /\ RecordingsInv(Turned(objs, category, b))
         /\ \A k \in 1 .. Len(objs) :
              /\ SameLevels(objs[k].nodes, Turned(objs, category, b)[k].nodes)
              /\ Turned(objs, category, b)[k].points_to = objs[k].points_to
  <1> DEFINE new == Turned(objs, category, b)
  <1>1. /\ Len(new) = Len(objs) /\ ObjectsInv(new, lt)
        /\ \A k \in 1 .. Len(objs) :
              new[k] = IF category = "rvalue" /\ k = b THEN Used(objs[k]) ELSE objs[k]
    BY UsingKeepsInv
  <1> HIDE DEF new
  <1>2. ASSUME NEW k \in 1 .. Len(objs)
        PROVE  /\ SameLevels(objs[k].nodes, new[k].nodes)
               /\ SameLevels(objs[k].pending, new[k].pending)
               /\ new[k].points_to = objs[k].points_to
    <2>1. objs[k] \in ObjectType /\ objs[k].nodes \in Seq(Entries)
          /\ objs[k].pending \in Seq(Entries)
      BY TypedObjects
    <2>2. CASE new[k] = objs[k]
      BY <2>1, <2>2, HollowedLevels
    <2>3. CASE new[k] = Used(objs[k])
      <3>1. /\ new[k].nodes = Hollowed(objs[k].nodes)
            /\ new[k].pending = Hollowed(objs[k].pending)
            /\ new[k].points_to = objs[k].points_to
        BY <2>1, <2>3, UsedObject
      <3> QED BY <2>1, <3>1, HollowedLevels
    <2> QED BY <1>1, <2>2, <2>3
  <1>3. ASSUME NEW k \in 1 .. Len(objs) PROVE Continues(Recording(new, k))
    <2>1. Continues(Recording(objs, k))
      BY DEF RecordingsInv
    <2>2. objs[k].points_to # 0 => objs[k].points_to \in 1 .. Len(objs)
      <3>1. WellMade(objs, k) /\ Len(objs) \in Nat
        BY TypedObjects
      <3> QED BY <3>1 DEF WellMade
    <2>3. SameLevels(Recording(objs, k), Recording(new, k))
      <3>1. CASE objs[k].points_to # 0
        BY <1>2, <2>2, <3>1, SameLevelsJoin DEF Recording
      <3>2. CASE objs[k].points_to = 0
        BY <1>2, <3>2, SameLevelsJoin DEF Recording
      <3> QED BY <3>1, <3>2
    <2> QED BY <2>1, <2>3, SameLevelsContinue
  <1>4. RecordingsInv(new)
    BY <1>1, <1>3 DEF RecordingsInv
  <1> QED BY <1>2, <1>4 DEF new

(* An object is added whose recording continues a tree.                    *)
LEMMA AddingKeepsRecordings ==
  ASSUME NEW objs, NEW lt, ObjectsInv(objs, lt), RecordingsInv(objs), NEW o \in ObjectType,
         IF o.points_to = 0 THEN Continues(o.nodes \o o.pending)
         ELSE /\ o.points_to \in 1 .. Len(objs)
              /\ Continues(objs[o.points_to].nodes \o o.pending)
  PROVE  RecordingsInv(Append(objs, o))
  <1> DEFINE new == Append(objs, o)
             n == Len(objs)
  <1>1. /\ n \in Nat /\ Len(new) = n + 1 /\ new[n + 1] = o
        /\ \A k \in 1 .. n : new[k] = objs[k]
    BY TypedObjects, AppendProperties
  <1> HIDE DEF new
  <1>2. ASSUME NEW k \in 1 .. n PROVE Continues(Recording(new, k))
    <2>1. Continues(Recording(objs, k)) /\ new[k] = objs[k]
      BY <1>1 DEF RecordingsInv
    <2>2. objs[k].points_to # 0 => objs[k].points_to \in 1 .. n
      <3>1. WellMade(objs, k)
        BY TypedObjects
      <3> QED BY <1>1, <3>1 DEF WellMade
    <2>3. objs[k].points_to # 0 => new[objs[k].points_to] = objs[objs[k].points_to]
      BY <1>1, <2>2
    <2> QED BY <2>1, <2>3 DEF Recording
  <1>3. Continues(Recording(new, n + 1))
    <2>1. CASE o.points_to = 0
      BY <1>1, <2>1 DEF Recording
    <2>2. CASE o.points_to # 0
      BY <1>1, <2>2 DEF Recording
    <2> QED BY <2>1, <2>2
  <1>4. \A k \in 1 .. n + 1 : k \in 1 .. n \/ k = n + 1
    BY <1>1
  <1> QED BY <1>1, <1>2, <1>3, <1>4 DEF RecordingsInv, new

(* Calls on builders keep every recording one.                             *)
LEMMA CallsKeepRecordings ==
  ASSUME Inv, RecordingsInv(objects), NEW b \in 1 .. Len(objects), NEW c \in writing.calls,
         BuilderCall(b, c)
  PROVE  RecordingsInv(objects')
  <1> DEFINE e == Entry(c)
  <1>1. Holds(b, "builder") /\ AppendLevelValid(objects[b].nodes, c.level)
    BY BuilderCallMakes
  <1>2. PICK category \in {"lvalue", "rvalue"}, o \in ObjectType :
           /\ Make(category, b, o)
           /\ \/ /\ o.points_to = 0
                 /\ o.nodes \o o.pending = Append(objects[b].nodes, e)
              \/ o.points_to = b /\ o.pending = <<e>>
    BY CallMakesObject
  <1> DEFINE new == Turned(objects, category, b)
  <1>3. /\ objects' = Append(new, o)
        /\ objects[b].pending = <<>> /\ objects[b].points_to = 0
    BY <1>1, <1>2, MakeIsTurning
  <1>4. /\ ObjectsInv(objects, lent) /\ objects[b].nodes \in Seq(Entries)
        /\ e \in Entries /\ e.level = c.level
    BY EntryIsTyped, TypedObjects DEF Inv, Entry
  <1>5. /\ ObjectsInv(new, lent) /\ Len(new) = Len(objects)
        /\ RecordingsInv(new) /\ SameLevels(objects[b].nodes, new[b].nodes)
    BY <1>4, UsingKeepsInv, TurningKeepsRecordings
  <1> HIDE DEF e, new
  <1>6. Continues(objects[b].nodes)
    <2>1. Continues(Recording(objects, b))
      BY DEF RecordingsInv
    <2> QED BY <1>3, <1>4, <2>1, ConcatEmptySeq DEF Recording
  <1>7. Continues(Append(objects[b].nodes, e))
    BY <1>1, <1>4, <1>6, ContinuedByAppending
  <1>8. Continues(new[b].nodes \o <<e>>)
    <2>1. objects[b].nodes \o <<e>> = Append(objects[b].nodes, e)
      BY <1>4, AppendIsConcat
    <2>2. SameLevels(<<e>>, <<e>>)
      BY <1>4, OneEntry, HollowedLevels
    <2>3. SameLevels(objects[b].nodes \o <<e>>, new[b].nodes \o <<e>>)
      BY <1>5, <2>2, SameLevelsJoin
    <2> QED BY <1>7, <2>1, <2>3, SameLevelsContinue
  <1>9. IF o.points_to = 0 THEN Continues(o.nodes \o o.pending)
        ELSE o.points_to \in 1 .. Len(new) /\ Continues(new[o.points_to].nodes \o o.pending)
    <2>1. CASE o.points_to = 0 /\ o.nodes \o o.pending = Append(objects[b].nodes, e)
      BY <1>7, <2>1
    <2>2. CASE o.points_to = b /\ o.pending = <<e>>
      <3>1. b # 0 /\ b \in 1 .. Len(new)
        BY <1>5
      <3> QED BY <1>8, <2>2, <3>1
    <2> QED BY <1>2, <2>1, <2>2
  <1> QED BY <1>3, <1>5, <1>9, AddingKeepsRecordings

(* Calls on binders do, however late they come.                            *)
LEMMA CallBinderKeepsRecordings ==
  ASSUME Inv, RecordingsInv(objects), NEW k \in DOMAIN objects,
         NEW category \in {"lvalue", "rvalue"}, CallBinder(category, k)
  PROVE  RecordingsInv(objects')
  <1> DEFINE from == IF objects[k].points_to # 0 THEN objects[k].points_to ELSE k
             new == Turned(objects, category, k)
             o == Bound(k, from)
  <1>1. /\ k \in 1 .. Len(objects) /\ from \in 1 .. Len(objects) /\ Holds(k, "binder")
        /\ objects' = Append(new, o)
    BY CallBinderIsTurning
  <1>2. PICK what \in {"lost", "builder"}, held \in Seq(Entries), careful \in BOOLEAN :
           /\ Made(o, what, held, 0, <<>>, objects[k].spelled, careful)
           /\ held = <<>> \/ held = objects[from].nodes \o objects[k].pending
    BY <1>1, BoundIsMade
  <1>3. Continues(Recording(objects, k))
        /\ Recording(objects, k) = objects[from].nodes \o objects[k].pending
    BY <1>1 DEF RecordingsInv, Recording
  <1>4. Continues(<<>>)
    BY EmptyContinues
  <1>5. /\ ObjectsInv(new, lent) /\ RecordingsInv(new)
    BY <1>1, UsingKeepsInv, TurningKeepsRecordings DEF Inv
  <1> HIDE DEF o, new, from
  <1>6. o \in ObjectType /\ o.points_to = 0 /\ o.nodes \o o.pending = held
    BY <1>2, ConcatEmptySeq DEF Made
  <1>7. Continues(o.nodes \o o.pending)
    BY <1>2, <1>3, <1>4, <1>6
  <1> QED BY <1>1, <1>5, <1>6, <1>7, AddingKeepsRecordings

(* Whatever a program writes, every object is a recording or will be.      *)
LEMMA RecordingsContinue == WritingSpec => []RecordingsInv(objects)
  <1>1. WritingInit => RecordingsInv(objects)
    <2> SUFFICES ASSUME WritingInit PROVE RecordingsInv(objects)
      OBVIOUS
    <2> DEFINE e == EmptyBuilder
    <2>1. objects = <<e>>
      BY DEF WritingInit
    <2>2. Made(e, "builder", <<>>, 0, <<>>, <<>>, TRUE) /\ <<>> \o <<>> = <<>> /\ Continues(<<>>)
      BY EmptyIsMade, EmptyContinues
    <2> HIDE DEF e
    <2>3. Len(objects) = 1 /\ objects[1] = e
      BY <2>1
    <2>4. Recording(objects, 1) = <<>>
      BY <2>2, <2>3 DEF Recording, Made
    <2> QED BY <2>2, <2>3, <2>4 DEF RecordingsInv
  <1>2. ASSUME Inv, RecordingsInv(objects), [WritingNext]_writing_vars
        PROVE  RecordingsInv(objects)'
    <2>1. /\ DOMAIN objects = 1 .. Len(objects) /\ ObjectsInv(objects, lent)
          /\ \A k \in 1 .. Len(objects) : objects[k] \in ObjectType
      BY <1>2, TypedObjects DEF Inv
    <2>2. ASSUME NEW b \in DOMAIN objects, NEW c \in writing.calls, BuilderCall(b, c)
          PROVE  RecordingsInv(objects')
      BY <1>2, <2>1, <2>2, CallsKeepRecordings
    <2>3. ASSUME NEW k \in DOMAIN objects, NEW category \in {"lvalue", "rvalue"},
                 CallBinder(category, k)
          PROVE  RecordingsInv(objects')
      BY <1>2, <2>3, CallBinderKeepsRecordings
    <2>4. ASSUME NewBuilder PROVE RecordingsInv(objects')
      <3> DEFINE o == EmptyBuilder
      <3>1. objects' = Append(objects, o)
        BY <2>4 DEF NewBuilder
      <3>2. Made(o, "builder", <<>>, 0, <<>>, <<>>, TRUE) /\ <<>> \o <<>> = <<>> /\ Continues(<<>>)
        BY EmptyIsMade, EmptyContinues
      <3> HIDE DEF o
      <3>3. o \in ObjectType /\ o.points_to = 0 /\ Continues(o.nodes \o o.pending)
        BY <3>2 DEF Made
      <3> QED BY <1>2, <2>1, <3>1, <3>3, AddingKeepsRecordings
    <2>5. ASSUME NEW d \in DOMAIN objects, Drop(d) PROVE RecordingsInv(objects')
      <3>1. objects' = [objects EXCEPT ![d].alive = FALSE]
        BY <2>5 DEF Drop
      <3>2. Len(objects') = Len(objects) /\ DOMAIN objects' = DOMAIN objects
        BY <2>1, <3>1, DroppedKeepsInv, TypedObjects
      <3>3. ASSUME NEW k \in 1 .. Len(objects)
            PROVE  /\ objects'[k].nodes = objects[k].nodes
                   /\ objects'[k].pending = objects[k].pending
                   /\ objects'[k].points_to = objects[k].points_to
        <4>1. objects[k] \in ObjectType
          BY <2>1
        <4> QED BY <2>1, <3>1, <4>1 DEF ObjectType
      <3>4. \A k \in 1 .. Len(objects) : objects[k].points_to # 0
              => objects[k].points_to \in 1 .. Len(objects)
        <4> TAKE k \in 1 .. Len(objects)
        <4>1. WellMade(objects, k) /\ Len(objects) \in Nat
          BY <2>1, TypedObjects
        <4> QED BY <4>1 DEF WellMade
      <3>5. ASSUME NEW k \in 1 .. Len(objects) PROVE Recording(objects', k) = Recording(objects, k)
        BY <3>3, <3>4 DEF Recording
      <3> QED BY <1>2, <3>2, <3>5 DEF RecordingsInv
    <2>6. ASSUME UNCHANGED writing_vars PROVE RecordingsInv(objects')
      BY <1>2, <2>6 DEF writing_vars
    <2> QED BY <1>2, <2>2, <2>3, <2>4, <2>5, <2>6, Zenon DEF WritingNext
  <1> QED BY <1>1, <1>2, InvAlways, PTL DEF WritingSpec

(* The trees that builders hold are recordings: each one that is not empty *)
(* satisfies what every theorem above about compiling starts from.         *)
THEOREM BuildersHoldRecordings ==
  ASSUME \A m \in Writings : \A c \in m.calls : c.level \in Nat
  PROVE  WritingSpec =>
           [](\A b \in Live :
                objects[b].what = "builder" /\ objects[b].nodes # <<>> =>
                  Climbs(MakeLevelArray(objects[b].nodes), Len(objects[b].nodes)))
  <1>1. ASSUME Inv, RecordingsInv(objects), NEW b \in Live,
               objects[b].what = "builder", objects[b].nodes # <<>>
        PROVE  Climbs(MakeLevelArray(objects[b].nodes), Len(objects[b].nodes))
    <2> DEFINE s == objects[b].nodes
               n == Len(s)
               levels == MakeLevelArray(s)
    <2>1. b \in 1 .. Len(objects)
      BY <1>1, TypedObjects DEF Inv, Live
    <2>2. s \in Seq(Entries) /\ objects[b].pending = <<>> /\ objects[b].points_to = 0
      <3>1. WellMade(objects, b) /\ s \in Seq(Entries)
        BY <1>1, <2>1, TypedObjects DEF Inv
      <3> QED BY <1>1, <3>1 DEF WellMade
    <2>3. Continues(s)
      <3>1. Continues(Recording(objects, b))
        BY <1>1, <2>1 DEF RecordingsInv
      <3> QED BY <2>2, <3>1, ConcatEmptySeq DEF Recording
    <2>4. n \in Nat \ {0} /\ \A i \in 1 .. n : s[i].level \in Nat
      <3>1. n \in Nat /\ n # 0 /\ \A i \in 1 .. n : s[i] \in Entries
        BY <1>1, <2>2, LenProperties, EmptySeq, ElementOfSeq
      <3>2. \A e \in Entries : e.level \in Nat
        BY DEF Entries
      <3> QED BY <3>1, <3>2
    <2>5. levels = [i \in 0 .. n - 1 |-> s[i + 1].level]
      BY DEF MakeLevelArray
    <2> HIDE DEF s, n, levels
    <2>6. levels \in [0 .. n - 1 -> Nat]
      <3>1. \A i \in 0 .. n - 1 : i + 1 \in 1 .. n
        BY <2>4
      <3> QED BY <2>4, <2>5, <3>1
    <2>7. levels[0] = 0
      <3>1. 0 \in 0 .. n - 1 /\ 1 \in 1 .. n
        BY <2>4
      <3>2. s[1].level = 0
        BY <2>3, <3>1 DEF Continues, n
      <3> QED BY <2>5, <3>1, <3>2
    <2>8. ASSUME NEW i \in 1 .. n - 1
          PROVE  levels[i] # 0 /\ levels[i] <= levels[i - 1] + 1
      <3> DEFINE j == i - 1
                 k == i + 1
      <3>1. /\ i \in 0 .. n - 1 /\ j \in 0 .. n - 1 /\ j + 1 = i
            /\ k \in 1 .. n /\ k # 1 /\ k - 1 = i
        BY <2>4
      <3>2. levels[i] = s[k].level
        BY <2>5, <3>1
      <3> HIDE DEF j, k
      <3>3. levels[j] = s[i].level
        BY <2>5, <3>1
      <3>4. s[k].level # 0 /\ s[k].level <= s[k - 1].level + 1
        BY <2>3, <3>1 DEF Continues, n
      <3>5. levels[i] # 0 /\ levels[i] <= levels[j] + 1
        BY <3>1, <3>2, <3>3, <3>4
      <3> QED BY <3>5 DEF j
    <2>9. Climbs(levels, n)
      BY <2>4, <2>6, <2>7, <2>8 DEF Climbs
    <2> QED BY <2>9 DEF s, n, levels
  <1>2. Inv /\ RecordingsInv(objects) =>
          \A b \in Live :
            objects[b].what = "builder" /\ objects[b].nodes # <<>> =>
              Climbs(MakeLevelArray(objects[b].nodes), Len(objects[b].nodes))
    BY <1>1
  <1> QED BY <1>2, InvAlways, RecordingsContinue, PTL

===============================================================================
