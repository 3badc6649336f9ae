--------------------------- MODULE BuilderOverloads ----------------------------
(***************************************************************************)
(* The overload sets of the fluent builder and of the task_* binders.      *)
(*                                                                         *)
(* A call names a form (root_into, node_member, task, ...) and passes a    *)
(* subject, the task or callable, and then extras: a receiver, a fan-out   *)
(* policy, an adapter chain.  Each form is a set of overloads.  Some take  *)
(* the call: they append a task ("append") or return a binder waiting for  *)
(* the argument specs ("bind").  The others refuse it: their body is a     *)
(* static_assert whose message advises another call ("advise").            *)
(***************************************************************************)
EXTENDS Integers, Sequences, FiniteSets

(* What a subject can be.  "opaque" is neither a task nor a callable with  *)
(* one signature, a generic lambda say: the builder stores it as a task.   *)
Subjects == { "ordinary_task", "direct_task", "opaque", "ordinary_callable",
              "direct_callable", "ordinary_member", "direct_member" }

Tasks              == {"ordinary_task", "direct_task"}
TaskObjects        == Tasks \cup {"opaque"}
OrdinaryTaskObject == {"ordinary_task", "opaque"}
DirectTaskObject   == {"direct_task"}
OrdinaryCallable   == {"ordinary_callable"}
DirectCallable     == {"direct_callable"}
OrdinaryMember     == {"ordinary_member"}
DirectMember       == {"direct_member"}
Members            == OrdinaryMember \cup DirectMember

(* What an extra can be, and what a parameter accepts.  A receiver is      *)
(* anything that is neither a policy nor a chain.                          *)
Extras         == {"receiver", "policy", "chain"}
ReceiverSpec   == Extras
Receiver       == {"receiver"}
Policy         == {"policy"}
Chain          == {"chain"}
PolicyOrChain  == Policy \cup Chain

Kinds6 == {"plain", "into", "member", "into_member", "forward", "forward_member"}

Forms(plain, into, member, into_member, forward, forward_member) ==
  [ plain |-> plain, into |-> into, member |-> member, into_member |-> into_member,
    forward |-> forward, forward_member |-> forward_member ]

root == Forms("root", "root_into", "root_member", "root_into_member",
              "root_forward_prev", "root_forward_prev_member")
node == Forms("node", "node_into", "node_member", "node_into_member",
              "node_forward_prev", "node_forward_prev_member")
task == Forms("task", "task_into", "task_member", "task_into_member",
              "task_forward_prev", "task_forward_prev_member")

FormNames(f) == {f[kind] : kind \in Kinds6}

-------------------------------------------------------------------------------
(* Advice.  The message names a form to use instead, or also tells what to *)
(* change in the arguments.                                                *)

NoAdvice          == [form |-> "none", change |-> "none"]
Use(form)         == [form |-> form, change |-> "none"]
AddReceiver(form) == [form |-> form, change |-> "receiver"]
PassTask(form)    == [form |-> form, change |-> "task"]
BindFirst(form)   == [form |-> form, change |-> "bind"]

Takes(form, subjects, extras, act) ==
  [form |-> form, subjects |-> subjects, extras |-> extras, act |-> act, advice |-> NoAdvice]

Refuses(form, subjects, extras, advice) ==
  [form |-> form, subjects |-> subjects, extras |-> extras, act |-> "advise", advice |-> advice]

-------------------------------------------------------------------------------
(* The builder's overloads that take a call.                               *)

OptionalPolicy == {<<>>, <<Policy>>}
Configured     == {<<>>, <<Policy>>, <<Chain>>, <<Policy, Chain>>}

CoreOrdinary(f) ==
  {Takes(f.plain, OrdinaryTaskObject, t, "append") : t \in OptionalPolicy}
  \cup {Takes(f.into, DirectTaskObject, t, "append") : t \in OptionalPolicy}
  \cup {Takes(f.plain, OrdinaryCallable, t, "bind") : t \in Configured}
  \cup {Takes(f.into, DirectCallable, t, "bind") : t \in Configured}

CoreMember(f) ==
  {Takes(f.member, OrdinaryMember, <<Receiver>> \o t, "bind") : t \in Configured}
  \cup {Takes(f.into_member, DirectMember, <<Receiver>> \o t, "bind") : t \in Configured}

CoreForward(f) ==
  {Takes(f.forward, OrdinaryCallable, t, "bind") : t \in Configured}
  \cup {Takes(f.forward_member, OrdinaryMember, <<Receiver>> \o t, "bind") : t \in Configured}

-------------------------------------------------------------------------------
(* The builder's overloads that refuse one.                                *)

RefusedTails == {<<>>, <<PolicyOrChain>>, <<Policy, Chain>>}
ShortTails   == {<<>>, <<PolicyOrChain>>}

(* Fault: an ordinary callable is sent back to the into form.              *)
RefuseOrdinaryMisled(f) ==
  {Refuses(f.plain, DirectTaskObject, t, Use(f.into)) : t \in OptionalPolicy}
  \cup {Refuses(f.plain, DirectCallable, t, Use(f.into)) : t \in RefusedTails}
  \cup {Refuses(f.into, OrdinaryTaskObject, t, Use(f.plain)) : t \in OptionalPolicy}
  \cup {Refuses(f.into, OrdinaryCallable, t, Use(f.into)) : t \in RefusedTails}

RefuseOrdinary(f) ==
  {Refuses(f.plain, DirectTaskObject, t, Use(f.into)) : t \in OptionalPolicy}
  \cup {Refuses(f.plain, DirectCallable, t, Use(f.into)) : t \in RefusedTails}
  \cup {Refuses(f.into, OrdinaryTaskObject, t, Use(f.plain)) : t \in OptionalPolicy}
  \cup {Refuses(f.into, OrdinaryCallable, t, Use(f.plain)) : t \in RefusedTails}

RefuseForward(f) ==
  {Refuses(f.forward, TaskObjects, t, PassTask(f.plain)) : t \in ShortTails}
  \cup {Refuses(f.forward, DirectCallable, t, Use(f.into)) : t \in RefusedTails}
  \cup {Refuses(f.forward, OrdinaryMember, t, Use(f.forward_member)) : t \in ShortTails}
  \cup {Refuses(f.forward, DirectMember, t, Use(f.into_member)) : t \in ShortTails}

(* A member form called without a receiver: the message asks for one, and  *)
(* names the other form where the function is not of this form's kind.     *)
MissingReceiver(form, right, wrong, other) ==
  {Refuses(form, right, t, AddReceiver(form)) : t \in ShortTails}
  \cup {Refuses(form, wrong, t, AddReceiver(other)) : t \in ShortTails}

(* A member form called with a receiver and the other kind of function.    *)
(* Only the overload without extras leaves the receiver unconstrained.     *)
WrongMember(form, wrong, other) ==
  { Refuses(form, wrong, <<ReceiverSpec>>, Use(other)),
    Refuses(form, wrong, <<Receiver, PolicyOrChain>>, Use(other)) }

RefuseForwardMember(f) ==
  MissingReceiver(f.forward_member, OrdinaryMember, DirectMember, f.into_member)
  \cup WrongMember(f.forward_member, DirectMember, f.into_member)

RefuseMember(f) ==
  MissingReceiver(f.member, OrdinaryMember, DirectMember, f.into_member)
  \cup WrongMember(f.member, DirectMember, f.into_member)

RefuseIntoMember(f) ==
  MissingReceiver(f.into_member, DirectMember, OrdinaryMember, f.member)
  \cup WrongMember(f.into_member, OrdinaryMember, f.member)

NodeCore == CoreOrdinary(node) \cup CoreMember(node) \cup CoreForward(node)

NodeDiagnostics ==
  RefuseOrdinary(node) \cup RefuseForward(node) \cup RefuseForwardMember(node)
  \cup RefuseMember(node) \cup RefuseIntoMember(node)

(* The root forms mirror the node forms; each needs an empty builder.      *)
RootCoreOrdinary == CoreOrdinary(root)
RootCoreMember   == CoreMember(root)
RootCoreForward  == CoreForward(root)

RootRefuseOrdinary == RefuseOrdinary(root)
RootRefuseForward  == RefuseForward(root) \cup RefuseForwardMember(root)
RootRefuseMember   == RefuseMember(root) \cup RefuseIntoMember(root)

RootCore        == RootCoreOrdinary \cup RootCoreMember \cup RootCoreForward
RootDiagnostics == RootRefuseOrdinary \cup RootRefuseForward \cup RootRefuseMember

TreeOverloads == NodeCore \cup NodeDiagnostics \cup RootCore \cup RootDiagnostics

-------------------------------------------------------------------------------
(* The task_* binders, which take no policy, and the bind_* functions      *)
(* their messages refer to.  For a member function those are modelled      *)
(* here only by whether they accept it.                                    *)

OptionalChain == {<<>>, <<Chain>>}

TaskCore ==
  {Takes(task.plain, OrdinaryCallable, t, "bind") : t \in OptionalChain}
  \cup {Takes(task.into, DirectCallable, t, "bind") : t \in OptionalChain}
  \cup {Takes(task.forward, OrdinaryCallable, t, "bind") : t \in OptionalChain}

TaskMemberCore ==
  UNION { {Takes(task.member, OrdinaryMember, <<Extras \ Chain>> \o t, "bind"),
           Takes(task.into_member, DirectMember, <<Extras \ Chain>> \o t, "bind"),
           Takes(task.forward_member, OrdinaryMember, <<Extras \ Chain>> \o t, "bind")} :
          t \in OptionalChain }

TaskRefuseOrdinary ==
  {Refuses(task.plain, DirectCallable, t, Use(task.into)) : t \in OptionalChain}
  \cup {Refuses(task.plain, Members, t, BindFirst("bind_member")) : t \in OptionalChain}
  \cup {Refuses(task.plain, DirectTaskObject, <<>>, PassTask(node.into))}
  \cup {Refuses(task.into, Tasks, t, PassTask(node.plain)) : t \in OptionalChain}
  \cup {Refuses(task.into, OrdinaryCallable, t, Use(task.plain)) : t \in OptionalChain}
  \cup {Refuses(task.into, Members, t, BindFirst("bind_into_member")) : t \in OptionalChain}

(* Of a member function task_forward_prev only says it is not supported.   *)
TaskRefuseForward ==
  {Refuses(task.forward, Tasks, t, PassTask(node.plain)) : t \in OptionalChain}
  \cup {Refuses(task.forward, DirectCallable, t, Use(task.into)) : t \in OptionalChain}
  \cup {Refuses(task.forward, Members, t, NoAdvice) : t \in OptionalChain}

TaskMissingReceiver(form, right, wrong, other) ==
  {Refuses(form, right, t, AddReceiver(form)) : t \in OptionalChain}
  \cup {Refuses(form, wrong, t, AddReceiver(other)) : t \in OptionalChain}

TaskWrongMember(form, wrong, other) ==
  {Refuses(form, wrong, <<ReceiverSpec>> \o t, Use(other)) : t \in OptionalChain}

TaskRefuseMember ==
  TaskMissingReceiver(task.member, OrdinaryMember, DirectMember, task.into_member)
  \cup TaskWrongMember(task.member, DirectMember, task.into_member)
  \cup TaskMissingReceiver(task.forward_member, OrdinaryMember, DirectMember, task.into_member)
  \cup TaskWrongMember(task.forward_member, DirectMember, task.into_member)

TaskRefuseIntoMember ==
  TaskMissingReceiver(task.into_member, DirectMember, OrdinaryMember, task.member)
  \cup TaskWrongMember(task.into_member, OrdinaryMember, task.member)

(* bind_member sends a direct-output member on; bind_into_member refuses   *)
(* an ordinary one without naming another function.                        *)
BindMembers ==
  { Takes("bind_member", OrdinaryMember, <<ReceiverSpec>>, "append"),
    Refuses("bind_member", DirectMember, <<ReceiverSpec>>, Use("bind_into_member")),
    Takes("bind_into_member", DirectMember, <<ReceiverSpec>>, "append"),
    Refuses("bind_into_member", OrdinaryMember, <<ReceiverSpec>>, NoAdvice) }

TaskOverloads ==
  TaskCore \cup TaskMemberCore \cup TaskRefuseOrdinary \cup TaskRefuseForward
  \cup TaskRefuseMember \cup TaskRefuseIntoMember \cup BindMembers

-------------------------------------------------------------------------------
(* Overload resolution.                                                    *)

Overloads == TreeOverloads \cup TaskOverloads

OverloadsOf == [form \in {o.form : o \in Overloads} |-> {o \in Overloads : o.form = form}]

Viable(form, subject, extras) ==
  {o \in OverloadsOf[form] :
     /\ subject \in o.subjects
     /\ Len(o.extras) = Len(extras)
     /\ \A k \in DOMAIN extras : extras[k] \in o.extras[k]}

(* Of two viable overloads the more constrained one is preferred.  The     *)
(* task_* overloads are constrained by concepts alone and so can be        *)
(* compared.  Each of the builder's overloads starts with a condition on   *)
(* the level or the node count that is no concept; no other overload is    *)
(* known to repeat it, so none is more constrained than another.           *)
MoreConstrained(o, p) ==
  /\ o # p
  /\ o \in TaskOverloads
  /\ o.subjects \subseteq p.subjects
  /\ \A k \in DOMAIN o.extras : o.extras[k] \subseteq p.extras[k]

Preferred(form, subject, extras) ==
  LET viable == Viable(form, subject, extras)
  IN  {o \in viable : \A p \in viable : ~MoreConstrained(p, o)}

Outcome(form, subject, extras) ==
  LET best == Preferred(form, subject, extras)
  IN  IF best = {} THEN "no_match"
      ELSE IF Cardinality(best) > 1 THEN "ambiguous"
      ELSE (CHOOSE o \in best : TRUE).act

CallAccepted(form, subject, extras) == Outcome(form, subject, extras) \in {"append", "bind"}

AdviceOn(form, subject, extras) == (CHOOSE o \in Preferred(form, subject, extras) : TRUE).advice

===============================================================================
