------------------------------ MODULE PlanLayout ------------------------------
(***************************************************************************)
(* The shape of a task tree as the library records and compiles it.        *)
(*                                                                         *)
(* A builder holds its nodes as a sequence in insertion order, each with   *)
(* an explicit level.  Compiling recovers the tree from the levels alone:  *)
(* parents by scanning backwards, children as one flattened adjacency      *)
(* array.  Compiled arrays are functions on 0 .. n-1, as in the source.    *)
(***************************************************************************)
EXTENDS Integers, Sequences, FiniteSets

(* The largest of a set of numbers.                                        *)
Largest(S) == CHOOSE m \in S : \A k \in S : k <= m

(* Whether a node of level `level` may follow the recorded `nodes`.        *)
AppendLevelValid(nodes, level) ==
  IF nodes = <<>>
    THEN level = 0
    ELSE level # 0 /\ level <= nodes[Len(nodes)].level + 1

(* The level array of a recorded node sequence.                            *)
MakeLevelArray(nodes) ==
  [i \in 0 .. Len(nodes) - 1 |-> nodes[i + 1].level]

(* The largest recorded level.                                             *)
MaxLevel(levels) == Largest({levels[i] : i \in DOMAIN levels})

(* Direct parents: the nearest earlier node one level up; the root (and    *)
(* any node for which the scan finds nothing) keeps the sentinel n.        *)
MakeParentIndexArray(levels, n) ==
  [i \in 0 .. n - 1 |->
    LET candidates == {c \in 0 .. i - 1 : levels[c] = levels[i] - 1}
    IN  IF candidates = {} THEN n ELSE Largest(candidates)]

(* Fault: every child is written at the start of its parent's range.       *)
MakeChildLayoutFromOffsets(parents, n) ==
  LET counts == [i \in 0 .. n - 1 |->
                   Cardinality({c \in 1 .. n - 1 : parents[c] = i})]
      offsets[i \in 0 .. n - 1] ==
        IF i = 0 THEN 0 ELSE offsets[i - 1] + counts[i - 1]
      written(k) == {c \in 1 .. n - 1 : offsets[parents[c]] = k}
  IN  [ counts  |-> counts,
        offsets |-> offsets,
        indices |-> [k \in 0 .. n - 2 |-> IF written(k) = {} THEN 0 ELSE Largest(written(k))] ]

(* Flattened child adjacency: per-node counts, prefix-sum offsets, and the *)
(* children in the order in which the fill loop places them.               *)
MakeChildLayout(parents, n) ==
  LET counts == [i \in 0 .. n - 1 |->
                   Cardinality({c \in 1 .. n - 1 : parents[c] = i})]
      offsets[i \in 0 .. n - 1] ==
        IF i = 0 THEN 0 ELSE offsets[i - 1] + counts[i - 1]
      \* next_offsets[parent] at the moment the loop reaches child c
      position(c) == offsets[parents[c]]
                       + Cardinality({d \in 1 .. c - 1 : parents[d] = parents[c]})
  IN  [ counts  |-> counts,
        offsets |-> offsets,
        indices |-> [k \in 0 .. n - 2 |->
                       CHOOSE c \in 1 .. n - 1 : position(c) = k] ]

===============================================================================
