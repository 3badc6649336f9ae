----------------------------- MODULE BuilderObjects -----------------------------
(***************************************************************************)
(* The builders and binders a program holds while it writes a tree.        *)
(*                                                                         *)
(* A builder is a value: each accepted call makes a new one.  Called on an *)
(* lvalue it copies the recorded nodes, called on an rvalue it moves them. *)
(* A call that passes a callable makes a binder instead, which appends     *)
(* when it is called with the argument specs.  A binder taken from an      *)
(* lvalue points at its builder; one taken from an rvalue owns it.         *)
(*                                                                         *)
(* What a call passes in (task or callable, receiver, adapters) is one     *)
(* load, named by the number of the object the call makes; a load that was *)
(* moved from is Hollow.                                                   *)
(***************************************************************************)
EXTENDS BuilderOverloads, PlanLayout
LOCAL INSTANCE Functions

(* What one program writes: the calls it makes and, as a bound for model   *)
(* checking only, the most objects.                                        *)
CONSTANT Writings

ASSUME WritingsAssumption ==
  \A m \in Writings :
    /\ \A c \in m.calls : c.kind \in Kinds6 /\ c.subject \in Subjects /\ c.level \in Nat
    /\ m.max_objects \in Nat \ {0}

VARIABLES
  writing,      \* what this program writes; chosen once
  objects,   \* the objects made so far, task_tree first
  lent       \* history: the loads an lvalue use has let others copy

writing_vars == <<writing, objects, lent>>

Hollow   == 0
TaskTree == 1

(* Of a builder `nodes` counts, of a binder the rest too: the builder it   *)
(* points to (0: its own nodes are the builder's) and the entry pending.   *)
(* History: `spelled`, the tree the program text spells; `lender`, the     *)
(* lvalue builder a binder was taken from; `spent`, used as an rvalue;     *)
(* `careful`, made from nothing that was spent or gone.                    *)
EmptyBuilder ==
  [ what |-> "builder", alive |-> TRUE, nodes |-> <<>>,
    points_to |-> 0, kind |-> "plain", pending |-> <<>>,
    spelled |-> <<>>, lender |-> 0, spent |-> FALSE, careful |-> TRUE ]

WritingInit ==
  /\ writing \in Writings
  /\ objects = <<EmptyBuilder>>
  /\ lent = {}

Fresh    == Len(objects) + 1
HasRoom  == Len(objects) < writing.max_objects
Loads(o) == {(o.nodes \o o.pending)[k].load : k \in DOMAIN (o.nodes \o o.pending)} \ {Hollow}

Holds(b, what) == b \in DOMAIN objects /\ objects[b].alive /\ objects[b].what = what
Intact(b)      == objects[b].alive /\ ~objects[b].spent
Careful(b)     == objects[b].careful /\ Intact(b)

Hollowed(entries) == [k \in DOMAIN entries |-> [entries[k] EXCEPT !.load = Hollow]]

(* An rvalue use moves from the part of b it takes; an lvalue use copies.  *)
Taken(objs, category, b, part) ==
  IF category = "rvalue" THEN [objs EXCEPT ![b][part] = Hollowed(@)] ELSE objs

Spent(objs, category, b) ==
  IF category = "rvalue" THEN [objs EXCEPT ![b].spent = TRUE] ELSE objs

Lent(category, b) == IF category = "lvalue" THEN lent \cup Loads(objects[b]) ELSE lent

-------------------------------------------------------------------------------
(* Calls on a builder.                                                     *)

Entry(c) ==
  [ level |-> c.level, fanout |-> "policy" \in Range(c.extras), load |-> Fresh ]

(* The call c on builder b selects an overload of the given kinds that     *)
(* acts as `act`.  A root form needs an empty builder.                     *)
Selects(b, c, forms, kinds, act) ==
  /\ Holds(b, "builder")
  /\ c.kind \in kinds
  /\ AppendLevelValid(objects[b].nodes, c.level)
  /\ forms = root => objects[b].nodes = <<>>
  /\ Outcome(forms[c.kind], c.subject, c.extras) = act

(* task_tree is a constant: an rvalue use of it copies as well.            *)
Make(category, b, object) ==
  /\ category = "rvalue" => b # TaskTree
  /\ objects' = Append(Spent(Taken(objects, category, b, "nodes"), category, b), object)
  /\ lent' = Lent(category, b)
  /\ UNCHANGED writing

(* A prebuilt task is recorded at once.                                    *)
Record(category, b, c) ==
  Make(category, b,
    [EmptyBuilder EXCEPT !.nodes   = Append(objects[b].nodes, Entry(c)),
                         !.spelled = Append(objects[b].spelled, Entry(c)),
                         !.careful = Careful(b)])

Binder(b, c) ==
  [EmptyBuilder EXCEPT !.what    = "binder",
                       !.kind    = c.kind,
                       !.pending = <<Entry(c)>>,
                       !.spelled = Append(objects[b].spelled, Entry(c)),
                       !.careful = Careful(b)]

(* Fault: an rvalue's binder points at its builder, like an lvalue's.      *)
OwningBinderPoints(b, c) == Make("rvalue", b, [Binder(b, c) EXCEPT !.points_to = b])

(* Fault: an rvalue's binder copies the nodes it should take over.         *)
OwningBinderCopies(b, c) ==
  /\ b # TaskTree
  /\ objects' = Append(Spent(objects, "rvalue", b), [Binder(b, c) EXCEPT !.nodes = objects[b].nodes])
  /\ UNCHANGED <<writing, lent>>

PointingBinder(b, c) == Make("lvalue", b, [Binder(b, c) EXCEPT !.points_to = b, !.lender = b])
OwningBinder(b, c)   == Make("rvalue", b, [Binder(b, c) EXCEPT !.nodes = objects[b].nodes])

Ordinary == {"plain", "into"}
Member   == {"member", "into_member"}
Forward  == {"forward", "forward_member"}

NodeTaskLvalue(b, c) == Selects(b, c, node, Ordinary, "append") /\ Record("lvalue", b, c)
NodeTaskRvalue(b, c) == Selects(b, c, node, Ordinary, "append") /\ Record("rvalue", b, c)

NodeCallableLvalue(b, c) == Selects(b, c, node, Ordinary, "bind") /\ PointingBinder(b, c)
NodeCallableRvalue(b, c) == Selects(b, c, node, Ordinary, "bind") /\ OwningBinder(b, c)

NodeMemberLvalue(b, c) == Selects(b, c, node, Member, "bind") /\ PointingBinder(b, c)
NodeMemberRvalue(b, c) == Selects(b, c, node, Member, "bind") /\ OwningBinder(b, c)

NodeForwardLvalue(b, c) == Selects(b, c, node, Forward, "bind") /\ PointingBinder(b, c)
NodeForwardRvalue(b, c) == Selects(b, c, node, Forward, "bind") /\ OwningBinder(b, c)

(* root passes a prebuilt task on to node<0>, or node_into<0>.             *)
RootTask(category, b, c) ==
  /\ Selects(b, c, root, Ordinary, "append")
  /\ Selects(b, c, node, Ordinary, "append")
  /\ Record(category, b, c)

RootOrdinaryLvalue(b, c) ==
  \/ RootTask("lvalue", b, c)
  \/ Selects(b, c, root, Ordinary, "bind") /\ PointingBinder(b, c)

RootOrdinaryRvalue(b, c) ==
  \/ RootTask("rvalue", b, c)
  \/ Selects(b, c, root, Ordinary, "bind") /\ OwningBinder(b, c)

RootMemberLvalue(b, c) == Selects(b, c, root, Member, "bind") /\ PointingBinder(b, c)
RootMemberRvalue(b, c) == Selects(b, c, root, Member, "bind") /\ OwningBinder(b, c)

RootForwardLvalue(b, c) == Selects(b, c, root, Forward, "bind") /\ PointingBinder(b, c)
RootForwardRvalue(b, c) == Selects(b, c, root, Forward, "bind") /\ OwningBinder(b, c)

-------------------------------------------------------------------------------
(* Calls on a binder.                                                      *)

Makes(subject, receiver, yields, appends) ==
  [subject |-> subject, receiver |-> receiver, yields |-> yields, appends |-> appends]

(* The binder of each kind: what it passes to its task_* form, the task    *)
(* that yields (adapters keep the protocol), and the form that appends it. *)
BinderType(kind) ==
  CASE kind = "plain"          -> Makes("ordinary_callable", <<>>, "ordinary_task", node.plain)
    [] kind = "into"           -> Makes("direct_callable", <<>>, "direct_task", node.into)
    [] kind = "forward"        -> Makes("ordinary_callable", <<>>, "ordinary_task", node.plain)
    [] kind = "member"         -> Makes("ordinary_member", <<"receiver">>, "ordinary_task", node.plain)
    [] kind = "forward_member" -> Makes("ordinary_member", <<"receiver">>, "ordinary_task", node.plain)
    [] kind = "into_member"    -> Makes("direct_member", <<"receiver">>, "direct_task", node.into)

(* A binder always passes its chain, and its policy if it was given one.   *)
Resolves(binder) ==
  LET type == BinderType(binder.kind)
  IN  /\ Outcome(task[binder.kind], type.subject, type.receiver \o <<"chain">>) = "bind"
      /\ Outcome(type.appends, type.yields,
                 IF binder.pending[1].fanout THEN <<"policy">> ELSE <<>>) = "append"

(* Fault: the builder is moved from even through a pointer.                *)
BuilderRefMoves(category, binder) == category

(* A builder reached through a pointer is a const lvalue, an owned one is  *)
(* used as the binder itself is.                                           *)
BuilderRef(category, binder) == IF binder.points_to # 0 THEN "lvalue" ELSE category

(* What the call returns.  Of a builder that is gone nothing is known.     *)
Bound(k, from) ==
  LET binder == objects[k]
      what   == CASE ~Resolves(binder)       -> "refused"
                  [] ~objects[from].alive    -> "lost"
                  [] OTHER                   -> "builder"
  IN  [EmptyBuilder EXCEPT
         !.what    = what,
         !.nodes   = IF what = "builder" THEN objects[from].nodes \o binder.pending ELSE <<>>,
         !.spelled = binder.spelled,
         !.careful = Careful(k) /\ (binder.lender # 0 => Intact(binder.lender))]

CallBinder(category, k) ==
  /\ HasRoom
  /\ Holds(k, "binder")
  /\ LET binder == objects[k]
         from   == IF binder.points_to # 0 THEN binder.points_to ELSE k
         called == Taken(objects, category, k, "pending")
         after  == Taken(called, BuilderRef(category, binder), from, "nodes")
     IN  objects' = Append(Spent(after, category, k), Bound(k, from))
  /\ lent' = Lent(category, k)
  /\ UNCHANGED writing

-------------------------------------------------------------------------------
(* A program may also start from a builder of its own, and lose an object. *)

NewBuilder ==
  /\ HasRoom
  /\ objects' = Append(objects, EmptyBuilder)
  /\ UNCHANGED <<writing, lent>>

Drop(b) ==
  /\ b # TaskTree
  /\ objects[b].alive
  /\ objects' = [objects EXCEPT ![b].alive = FALSE]
  /\ UNCHANGED <<writing, lent>>

BuilderCall(b, c) ==
  \/ NodeTaskLvalue(b, c)      \/ NodeTaskRvalue(b, c)
  \/ NodeCallableLvalue(b, c)  \/ NodeCallableRvalue(b, c)
  \/ NodeMemberLvalue(b, c)    \/ NodeMemberRvalue(b, c)
  \/ NodeForwardLvalue(b, c)   \/ NodeForwardRvalue(b, c)
  \/ RootOrdinaryLvalue(b, c)  \/ RootOrdinaryRvalue(b, c)
  \/ RootMemberLvalue(b, c)    \/ RootMemberRvalue(b, c)
  \/ RootForwardLvalue(b, c)   \/ RootForwardRvalue(b, c)

WritingNext ==
  \/ HasRoom /\ \E b \in DOMAIN objects, c \in writing.calls : BuilderCall(b, c)
  \/ \E k \in DOMAIN objects, category \in {"lvalue", "rvalue"} : CallBinder(category, k)
  \/ NewBuilder
  \/ \E b \in DOMAIN objects : Drop(b)

WritingSpec == WritingInit /\ [][WritingNext]_writing_vars

-------------------------------------------------------------------------------
(* Properties.                                                             *)

Live == {b \in DOMAIN objects : objects[b].alive}

(* Every object that was never used as an rvalue, and came only from such  *)
(* objects while their builders were there, holds exactly the tree its     *)
(* expression spells, whatever else was copied, moved or destroyed: no     *)
(* builder sees the calls made on another, and no binder the later life of *)
(* the builder it came from.  And a binder that was accepted is never      *)
(* refused when it is called: the task it makes, with or without a policy, *)
(* is one that the form it appends with takes.                             *)
TreesAreAsSpelled ==
  \A b \in Live :
    Careful(b) =>
      CASE objects[b].what = "builder" -> objects[b].nodes = objects[b].spelled
        [] objects[b].what = "binder"  ->
             (objects[b].points_to = 0 =>
                objects[b].nodes \o objects[b].pending = objects[b].spelled)
        [] OTHER -> FALSE

(* A load is in two live objects only if some use of an lvalue let it be   *)
(* copied: chains of temporaries work with move-only callables.            *)
CopiesNeedAnLvalue ==
  \A a, b \in Live : a # b => Loads(objects[a]) \cap Loads(objects[b]) \subseteq lent

(* An object's nodes and loads change only by its own first rvalue use:    *)
(* no call on a binder, moved or not, reaches into the builder it points   *)
(* to, and no builder that stays in use is disturbed by those made of it.  *)
UsesDisturbNothingElse ==
  [][\A b \in DOMAIN objects :
       <<objects[b].nodes, objects[b].pending>> # <<objects'[b].nodes, objects'[b].pending>>
         => ~objects[b].spent /\ objects'[b].spent]_writing_vars
===============================================================================
