------------------------------- MODULE MCBuilders -------------------------------
(* Values for model-checking BuilderObjects and BuilderAdvice in one run.  *)
(* Who writes a program first follows the messages until the call at hand  *)
(* is accepted or cannot be helped, and goes on to write trees.  The two   *)
(* modules share no variable, so nothing is lost by writing on from one    *)
(* call only: their state spaces add up and do not multiply.               *)
EXTENDS BuilderObjects, BuilderAdvice

TreeForms == FormNames(root) \cup FormNames(node)

Call(kind, subject, extras, level) ==
  [kind |-> kind, subject |-> subject, extras |-> extras, level |-> level]

Calls(kinds, subjects, extras) ==
  [kind : kinds, subject : subjects, extras : extras, level : {0, 1}]

Policies   == {<<>>, <<"policy">>}
Options    == Policies \cup {<<"chain">>, <<"policy", "chain">>}
OnReceiver == {<<"receiver">> \o o : o \in Options}

(* Every call that some overload takes, at a root and at a leaf.           *)
EveryCall ==
  Calls({"plain"}, {"ordinary_task"}, Policies)
  \cup Calls({"into"}, {"direct_task"}, Policies)
  \cup Calls({"plain", "forward"}, {"ordinary_callable"}, Options)
  \cup Calls({"into"}, {"direct_callable"}, Options)
  \cup Calls({"member", "forward_member"}, {"ordinary_member"}, OnReceiver)
  \cup Calls({"into_member"}, {"direct_member"}, OnReceiver)

(* A few of them: a prebuilt task, a callable and a member function.       *)
FewCalls ==
  {Call("plain", "ordinary_task", <<>>, 0), Call("plain", "ordinary_callable", <<>>, 0),
   Call("plain", "ordinary_task", <<>>, 1), Call("into_member", "direct_member", <<"receiver">>, 1)}

(* All calls on few objects, and few calls on many.                        *)
MCWritings ==
  {[calls |-> EveryCall, max_objects |-> 4], [calls |-> FewCalls, max_objects |-> 6]}

(* The call from which the program is written on.                          *)
WrittenFrom ==
  CHOOSE c \in FirstCalls : c.form = "root" /\ c.subject = "ordinary_task" /\ c.extras = <<>>

BothInit == Init /\ WritingInit

BothNext ==
  \/ Next /\ UNCHANGED writing_vars
  \/ call = WrittenFrom /\ WritingNext /\ UNCHANGED call

BothSpec == BothInit /\ [][BothNext]_<<writing_vars, call>> /\ WF_call(FollowAdvice)
===============================================================================
