----------------------------- MODULE BuilderAdvice -----------------------------
(***************************************************************************)
(* Writing one call of the builder, and following what the compiler says.  *)
(*                                                                         *)
(* A refused call is rewritten as the static_assert's message advises and  *)
(* tried again.  A prebuilt task keeps its fan-out policy when the message *)
(* says to pass it directly, and loses its adapters, which no form takes   *)
(* for a task; the bind functions take no adapters either.                 *)
(***************************************************************************)
EXTENDS BuilderOverloads

CONSTANTS
  StartForms,   \* the forms a first attempt may name
  MaxExtras     \* bound on the extras of a first attempt

ASSUME AdviceAssumption == MaxExtras \in Nat

VARIABLE call   \* the call as it is written now

FirstCalls ==
  [ form : StartForms, subject : Subjects,
    extras : UNION {[1 .. k -> Extras] : k \in 0 .. MaxExtras} ]

OutcomeOf(c)  == Outcome(c.form, c.subject, c.extras)
Compiles(c)   == CallAccepted(c.form, c.subject, c.extras)
AdviceFor(c)  == AdviceOn(c.form, c.subject, c.extras)
Advised(c)    == OutcomeOf(c) = "advise" /\ AdviceFor(c) # NoAdvice

Changed(extras, change) ==
  CASE change = "none"     -> extras
    [] change = "receiver" -> <<"receiver">> \o extras
    [] change = "bind"     -> <<"receiver">>
    [] change = "task"     -> SelectSeq(extras, LAMBDA e : e \in Policy)

Init == call \in FirstCalls

FollowAdvice ==
  /\ Advised(call)
  /\ call' = [call EXCEPT !.form = AdviceFor(call).form,
                          !.extras = Changed(@, AdviceFor(call).change)]

Settled == ~Advised(call) /\ UNCHANGED call

Next == FollowAdvice \/ Settled

Spec == Init /\ [][Next]_call /\ WF_call(FollowAdvice)

-------------------------------------------------------------------------------
(* Properties.                                                             *)

(* Whoever keeps doing what the messages say ends with a call that         *)
(* compiles: no message sends a caller round in a circle, to a form that   *)
(* has no overload for the call, or to one that is ambiguous.              *)
AdviceEndsInACall == Advised(call) ~> Compiles(call)

===============================================================================
