----------------------------- MODULE TaskBinding -------------------------------
(***************************************************************************)
(* Binding a callable to its argument sources, and what its executions do  *)
(* to those sources.                                                       *)
(*                                                                         *)
(* A binding is a record                                                   *)
(*   api      : "bind", "bind_into" or "bind_forward_prev"                 *)
(*   member   : whether the member form of the api is used                 *)
(*   output   : the api's output type; "void" or "reference" when that is  *)
(*              asked for, "inferred" for the task_* forms                 *)
(*   callable : shape, class, const, params and result of the callable     *)
(*   receiver : the receiver's spec (member forms only)                    *)
(*   specs    : the parameters' specs, in order                            *)
(*   retried  : whether a retry adapter is put around the task             *)
(* A spec names where an argument comes from, a parameter how the callable *)
(* takes it.  Types convert to themselves only.  A callable treats each    *)
(* argument as its signature says: it changes what it takes by reference   *)
(* and moves only from what it takes by rvalue reference.                  *)
(***************************************************************************)
EXTENDS PlanTraits

CONSTANTS
  Types,         \* payload types
  Bindings,      \* the bindings that may be asked for
  ContextTypes,  \* the types the execution context holds
  MaxRetries,    \* the retry adapter's budget
  MaxRuns        \* bound on the runs of one plan

SpecAccesses == PrevAccessKinds \cup {"from_ctx", "value", "ref"}
ParamModes   == {"by_value", "const_ref", "ref", "rref", "direct_out"}

SpecRecord == [access : SpecAccesses, type : Types]
Param == [mode : ParamModes, type : Types]

CallableRecord ==
  [ shape : {"function", "member", "overloaded"}, class : Types, const : BOOLEAN,
    params : Seq(Param), result : {"void", "step", "value", "task_result"} ]

BindingRecord ==
  [ api : {"bind", "bind_into", "bind_forward_prev"}, member : BOOLEAN,
    output : Types \cup {"void", "reference", "inferred"}, callable : CallableRecord,
    receiver : SpecRecord, specs : Seq(SpecRecord), retried : BOOLEAN ]

ASSUME BindingsAssumption == Bindings \subseteq BindingRecord
ASSUME TypesAssumption ==
  /\ ContextTypes \subseteq Types
  /\ Types \cap {"void", "reference", "inferred"} = {}
ASSUME LimitsAssumption == MaxRetries \in Nat /\ MaxRuns \in Nat \ {0}

-------------------------------------------------------------------------------
(* The parts of a binding.  Position 0 is the receiver, k > 0 parameter k. *)

IsMember(c) == c.shape = "member"
Concrete(c) == c.shape # "overloaded"
Arity(c)    == Len(c.params)

WritesOutput(c) ==
  Concrete(c) /\ Arity(c) > 0 /\ c.params[Arity(c)].mode = "direct_out"

Positions(b) == (IF b.member THEN {0} ELSE {}) \cup DOMAIN b.specs

SpecAt(b, k) == IF k = 0 THEN b.receiver ELSE b.specs[k]

IsPrevAccess(spec) == spec.access \in PrevAccessKinds

PrevPositions(b) == {k \in Positions(b) : IsPrevAccess(SpecAt(b, k))}

(* The type a forward_prev form infers.  Folding from the right, a second  *)
(* prev access cancels the one found so far.                               *)
UniquePrevPayload(b) ==
  IF Cardinality(PrevPositions(b)) % 2 = 1
    THEN SpecAt(b, CHOOSE k \in PrevPositions(b) : \A j \in PrevPositions(b) : k <= j).type
    ELSE "void"

OutputType(b) ==
  CASE b.output # "inferred"                               -> b.output
    [] b.output = "inferred" /\ b.api = "bind_into"        -> b.callable.params[Arity(b.callable)].type
    [] b.output = "inferred" /\ b.api = "bind_forward_prev" -> UniquePrevPayload(b)

-------------------------------------------------------------------------------
(* Prev-access modes as the plan checks them.                              *)

MatchesArg(spec, param) ==
  /\ param.type = spec.type
  /\ param.mode \in CASE spec.access = "borrow"     -> {"const_ref"}
                      [] spec.access = "borrow_mut" -> {"ref"}
                      [] spec.access = "copy"       -> {"by_value"}
                      [] spec.access = "consume"    -> {"by_value", "rref"}

MatchesMemberReceiver(spec, c) ==
  spec.type = c.class /\ (spec.access = "borrow" => c.const)

PrevBindingValid(b, k) ==
  IsPrevAccess(SpecAt(b, k)) =>
    IF k = 0 THEN MatchesMemberReceiver(b.receiver, b.callable)
             ELSE MatchesArg(b.specs[k], b.callable.params[k])

-------------------------------------------------------------------------------
(* What the bind functions reject, in the order they look.                 *)

SpecsMissing(b) == Len(b.specs) # Arity(b.callable)

BindError(b) ==
  IF IsMember(b.callable)                                    THEN "member_callable_not_supported"
  ELSE IF ~Concrete(b.callable) \/ WritesOutput(b.callable)  THEN "callable_shape_invalid"
  ELSE IF SpecsMissing(b)                                    THEN "arity_mismatch"
  ELSE "ok"

BindMemberError(b) ==
  IF ~IsMember(b.callable)             THEN "callable_not_member"
  ELSE IF WritesOutput(b.callable)     THEN "direct_output_member_not_supported"
  ELSE IF SpecsMissing(b)              THEN "arity_mismatch"
  ELSE "ok"

OutputParameterError(b) ==
  IF Arity(b.callable) = 0                           THEN "missing_output_parameter"
  ELSE IF Len(b.specs) + 1 # Arity(b.callable)       THEN "arity_mismatch"
  ELSE IF b.callable.params[Arity(b.callable)] # [mode |-> "direct_out", type |-> OutputType(b)]
                                                     THEN "last_parameter_not_direct_out"
  ELSE "ok"

BindIntoError(b) ==
  IF OutputType(b) \notin Types        THEN "invalid_output_type"
  ELSE IF IsMember(b.callable)         THEN "member_callable_not_supported"
  ELSE IF ~Concrete(b.callable)        THEN "callable_shape_invalid"
  ELSE OutputParameterError(b)

BindIntoMemberError(b) ==
  IF OutputType(b) \notin Types        THEN "invalid_output_type"
  ELSE IF ~IsMember(b.callable)        THEN "callable_not_member"
  ELSE OutputParameterError(b)

(* Fault: any access that hands over the payload itself will do.           *)
ForwardAnyExclusive(b) ==
  \A k \in Positions(b) : IsPrevAccess(SpecAt(b, k)) =>
    SpecAt(b, k).access \in {"borrow_mut", "consume"} /\ PrevBindingValid(b, k)

(* The forwarded payload may only be borrowed mutably.                     *)
ForwardBindingsSupported(b) ==
  \A k \in Positions(b) : IsPrevAccess(SpecAt(b, k)) =>
    /\ SpecAt(b, k) = [access |-> "borrow_mut", type |-> OutputType(b)]
    /\ PrevBindingValid(b, k)

ForwardedInputError(b) ==
  IF b.callable.result \notin {"void", "step"}       THEN "invalid_result_type"
  ELSE IF Cardinality(PrevPositions(b)) # 1          THEN "prev_access_count_invalid"
  ELSE IF UniquePrevPayload(b) # OutputType(b)       THEN "payload_type_mismatch"
  ELSE IF ~ForwardBindingsSupported(b)               THEN "binding_mode_not_supported"
  ELSE "ok"

BindForwardPrevError(b) ==
  IF OutputType(b) \notin Types        THEN "invalid_output_type"
  ELSE IF IsMember(b.callable)         THEN "member_callable_not_supported"
  ELSE IF WritesOutput(b.callable)     THEN "direct_output_callable_not_supported"
  ELSE IF ~Concrete(b.callable)        THEN "callable_shape_invalid"
  ELSE IF SpecsMissing(b)              THEN "arity_mismatch"
  ELSE ForwardedInputError(b)

BindForwardPrevMemberError(b) ==
  IF OutputType(b) \notin Types        THEN "invalid_output_type"
  ELSE IF ~IsMember(b.callable)        THEN "callable_not_member"
  ELSE IF WritesOutput(b.callable)     THEN "direct_output_member_not_supported"
  ELSE IF SpecsMissing(b)              THEN "arity_mismatch"
  ELSE ForwardedInputError(b)

(* The task_* forms also constrain the callable and the number of specs.   *)
TaskSignatureMatches(b) ==
  /\ Concrete(b.callable) /\ IsMember(b.callable) = b.member
  /\ WritesOutput(b.callable) = (b.api = "bind_into")
  /\ Arity(b.callable) = Len(b.specs) + (IF b.api = "bind_into" THEN 1 ELSE 0)

BindingError(b) ==
  IF b.output = "inferred" /\ ~TaskSignatureMatches(b) THEN "signature_mismatch"
  ELSE CASE b.api = "bind" /\ ~b.member              -> BindError(b)
         [] b.api = "bind" /\ b.member               -> BindMemberError(b)
         [] b.api = "bind_into" /\ ~b.member         -> BindIntoError(b)
         [] b.api = "bind_into" /\ b.member          -> BindIntoMemberError(b)
         [] b.api = "bind_forward_prev" /\ ~b.member -> BindForwardPrevError(b)
         [] b.api = "bind_forward_prev" /\ b.member  -> BindForwardPrevMemberError(b)

-------------------------------------------------------------------------------
(* The bound task as the plan sees it, below a parent whose output type is *)
(* parent ("void" if there is no output).                                  *)

PlanTask(b) ==
  [ kind  |-> CASE b.api = "bind"              -> b.callable.result
                [] b.api = "bind_into"         -> "direct_out"
                [] b.api = "bind_forward_prev" -> "forward_prev",
    type  |-> IF b.api = "bind" THEN b.callable.class ELSE OutputType(b),
    specs |-> [k \in PrevPositions(b) |-> SpecAt(b, k).access],
    retry |-> b.retried ]

PlanAccepts(b, parent) ==
  /\ \A k \in Positions(b) : PrevBindingValid(b, k)
  /\ TaskPrevAccessValid(PlanTask(b))
  /\ UsesPrevAccess(PlanTask(b)) => parent # "void"
  /\ IsForwardPrev(PlanTask(b)) => parent = OutputType(b)

-------------------------------------------------------------------------------
(* Resolution.                                                             *)

(* What position k is resolved as: copied and consumed receivers become    *)
(* local objects, any other receiver is borrowed as the method's own.      *)
TargetAt(b, k) ==
  IF k > 0 THEN b.callable.params[k]
  ELSE [ mode |-> IF b.receiver.access \in {"copy", "consume"} THEN "by_value"
                  ELSE IF b.callable.const THEN "const_ref" ELSE "ref",
         type |-> b.callable.class ]

(* Only a task with an exclusive access is given a mutable view of its     *)
(* parent's payload.                                                       *)
PrevViewIsMutable(b) == UsesExclusivePrev(PlanTask(b))

(* Fault: a stored value is treated as any other lvalue.                   *)
TargetModesOfLvalue(access) ==
  CASE access \in {"from_ctx", "value"} -> {"by_value", "const_ref", "ref"}
    [] access = "ref"        -> {"const_ref", "ref"}
    [] access = "borrow"     -> {"const_ref"}
    [] access = "borrow_mut" -> {"ref"}
    [] access = "copy"       -> {"by_value"}
    [] access = "consume"    -> {"by_value", "rref"}

(* Fault: what the context holds may be forwarded.                         *)
TargetModesForwardingContext(access) ==
  CASE access = "from_ctx"   -> {"by_value", "const_ref", "ref", "rref"}
    [] access = "value"      -> {"by_value", "const_ref"}
    [] access = "ref"        -> {"const_ref", "ref"}
    [] access = "borrow"     -> {"const_ref"}
    [] access = "borrow_mut" -> {"ref"}
    [] access = "copy"       -> {"by_value"}
    [] access = "consume"    -> {"by_value", "rref"}

(* The modes resolve_as can bind a source to.                              *)
TargetModes(access) ==
  CASE access = "from_ctx"   -> {"by_value", "const_ref", "ref"}
    [] access = "value"      -> {"by_value", "const_ref"}
    [] access = "ref"        -> {"const_ref", "ref"}
    [] access = "borrow"     -> {"const_ref"}
    [] access = "borrow_mut" -> {"ref"}
    [] access = "copy"       -> {"by_value"}
    [] access = "consume"    -> {"by_value", "rref"}

Resolvable(b, k, parent) ==
  LET spec == SpecAt(b, k)
  IN  /\ TargetAt(b, k).type = spec.type
      /\ TargetAt(b, k).mode \in TargetModes(spec.access)
      /\ spec.access = "from_ctx" => spec.type \in ContextTypes
      /\ IsPrevAccess(spec) => parent = spec.type
      /\ spec.access \in {"borrow_mut", "consume"} => PrevViewIsMutable(b)

(* What fails to compile once an accepted task is instantiated.            *)
Instantiates(b, parent) ==
  /\ \A k \in Positions(b) : Resolvable(b, k, parent)
  /\ b.api = "bind_into" => b.callable.result \in {"void", "step"}

-------------------------------------------------------------------------------
(* Executing the bound task.                                               *)

VARIABLES
  binding,    \* the binding; never changes
  parent,     \* the parent's output type, or "void"; never changes
  phase,      \* "binding", "rejected", "ill_formed", "resolving", "returned" or "done"
  condition,  \* of what arguments come from: "whole", "changed" or "moved"
  held,       \* what the call's argument at each position is
  status,     \* what the body returned last
  retries,    \* retries made in this execution
  runs        \* runs of the plan so far

vars == <<binding, parent, phase, condition, held, status, retries, runs>>

(* Where arguments come from: the parent's payload, the context's objects, *)
(* objects the caller keeps (std::ref), and values stored in the task.     *)
Origins    == {"prev", "ctx", "external", "stored"}
Conditions == {"whole", "changed", "moved"}
Rights     == {"own", "read", "write", "take"}

Origin(access) ==
  CASE access \in PrevAccessKinds -> "prev"
    [] access = "from_ctx"        -> "ctx"
    [] access = "ref"             -> "external"
    [] access = "value"           -> "stored"

RightOf(mode) ==
  CASE mode = "by_value"  -> "own"
    [] mode = "const_ref" -> "read"
    [] mode = "ref"       -> "write"
    [] mode = "rref"      -> "take"

(* Fault: a method runs on the copied receiver's original.                 *)
RightBorrowingCopies(b, k) ==
  IF k = 0 /\ b.receiver.access = "copy" /\ ~b.callable.const
    THEN "write" ELSE RightOf(TargetAt(b, k).mode)

(* What the call may do to the argument at position k.                     *)
RightAt(b, k) == RightOf(TargetAt(b, k).mode)

NotHeld == [origin |-> "none", right |-> "none", seen |-> "none"]

Unresolved == [k \in Positions(binding) |-> NotHeld]

Pending(k) == held[k] = NotHeld

Init ==
  /\ binding \in Bindings
  /\ parent \in Types \cup {"void"}
  /\ phase = "binding"
  /\ condition = [o \in Origins |-> "whole"]
  /\ held = Unresolved
  /\ status = "none"
  /\ retries = 0
  /\ runs = 1

Bind ==
  /\ phase = "binding"
  /\ phase' = IF BindingError(binding) # "ok" \/ ~PlanAccepts(binding, parent) THEN "rejected"
              ELSE IF ~Instantiates(binding, parent) THEN "ill_formed"
              ELSE "resolving"
  /\ UNCHANGED <<binding, parent, condition, held, status, retries, runs>>

(* The receiver comes first, the parameters then in any order.  Consuming  *)
(* into a local object moves at once.                                      *)
ResolveAs(k) ==
  LET spec  == SpecAt(binding, k)
      right == RightAt(binding, k)
  IN  /\ phase = "resolving"
      /\ Pending(k)
      /\ k # 0 /\ binding.member => ~Pending(0)
      /\ held' = [held EXCEPT ![k] = [ origin |-> Origin(spec.access), right |-> right,
                                       seen |-> condition[Origin(spec.access)] ]]
      /\ condition' = IF spec.access = "consume" /\ right = "own"
                        THEN [condition EXCEPT !["prev"] = "moved"]
                        ELSE condition
      /\ UNCHANGED <<binding, parent, phase, status, retries, runs>>

BodyStatuses(c) ==
  IF c.result \in {"void", "value"} THEN {"success"} ELSE {"success", "failure", "retry"}

(* What becomes of object o when the body uses the arguments in used.      *)
ConditionAfter(o, used) ==
  LET rights == {held[k].right : k \in {j \in used : held[j].origin = o}}
  IN  IF condition[o] = "moved" \/ "take" \in rights THEN "moved"
      ELSE IF "write" \in rights THEN "changed" ELSE condition[o]

InvokeBody ==
  /\ phase = "resolving"
  /\ \A k \in Positions(binding) : ~Pending(k)
  /\ \E used \in SUBSET {k \in Positions(binding) : held[k].right \in {"write", "take"}} :
       condition' = [o \in Origins |-> ConditionAfter(o, used)]
  /\ status' \in BodyStatuses(binding.callable)
  /\ phase' = "returned"
  /\ UNCHANGED <<binding, parent, held, retries, runs>>

(* A retry resolves every argument again.                                  *)
Retry ==
  /\ phase = "returned"
  /\ status = "retry" /\ binding.retried /\ retries < MaxRetries
  /\ retries' = retries + 1
  /\ phase' = "resolving"
  /\ held' = Unresolved
  /\ UNCHANGED <<binding, parent, condition, status, runs>>

Finish ==
  /\ phase = "returned"
  /\ ~(status = "retry" /\ binding.retried /\ retries < MaxRetries)
  /\ phase' = "done"
  /\ UNCHANGED <<binding, parent, condition, held, status, retries, runs>>

(* The plan is run again: the parent produces a new payload, the task is   *)
(* the same object.                                                        *)
RunAgain ==
  /\ phase = "done" /\ runs < MaxRuns
  /\ runs' = runs + 1
  /\ phase' = "resolving"
  /\ condition' = [condition EXCEPT !["prev"] = "whole"]
  /\ held' = Unresolved
  /\ retries' = 0
  /\ UNCHANGED <<binding, parent, status>>

Over ==
  /\ \/ phase \in {"rejected", "ill_formed"}
     \/ phase = "done" /\ runs = MaxRuns
  /\ UNCHANGED vars

Next ==
  \/ Bind
  \/ \E k \in Positions(binding) : ResolveAs(k)
  \/ InvokeBody
  \/ Retry
  \/ Finish
  \/ RunAgain
  \/ Over

Spec == Init /\ [][Next]_vars

-------------------------------------------------------------------------------
(* Properties.                                                             *)

(* Types of the variables.                                                 *)
TypeOK ==
  /\ binding \in BindingRecord
  /\ parent \in Types \cup {"void"}
  /\ phase \in {"binding", "rejected", "ill_formed", "resolving", "returned", "done"}
  /\ condition \in [Origins -> Conditions]
  /\ held \in [Positions(binding) ->
                 [origin : Origins, right : Rights, seen : Conditions] \cup {NotHeld}]
  /\ status \in {"none", "success", "failure", "retry"}
  /\ retries \in 0 .. MaxRetries
  /\ runs \in 1 .. MaxRuns

(* However often a task is retried and its plan run again, the values      *)
(* stored in it stay what they were.                                       *)
StoredValuesSurvive == condition["stored"] = "whole"

(* Only the parent's payload is ever moved from, and only by a task the    *)
(* plan counts as its consumer.                                            *)
OnlyConsumersMove ==
  \A o \in Origins : condition[o] = "moved" =>
    o = "prev" /\ ConsumeOnly(PlanTask(binding))

(* A task the plan lets share its parent's payload with siblings leaves    *)
(* that payload as it was, whatever its receiver and body do.              *)
SharedReadersLeavePrevAlone ==
  condition["prev"] # "whole" => UsesExclusivePrev(PlanTask(binding))

(* No argument is made from an object that has been moved from, by an      *)
(* earlier attempt or by another argument of the same call.                *)
ArgumentsAreUnmoved ==
  \A k \in Positions(binding) : held[k].seen # "moved"

(* An argument that may change or move the parent's payload, or has moved  *)
(* it, is the call's only access to it.                                    *)
ExclusiveArgumentIsAlone ==
  \A j, k \in Positions(binding) :
    /\ held[j].origin = "prev" /\ held[k].origin = "prev" /\ j # k
    => held[j].right \in {"own", "read"} /\ SpecAt(binding, j).access # "consume"

(* A forwarding task that succeeds leaves its children a payload of the    *)
(* type it promises.                                                       *)
ForwardedPayloadIsThere ==
  phase = "done" /\ status = "success" /\ binding.api = "bind_forward_prev" =>
    parent = OutputType(binding) /\ condition["prev"] # "moved"

===============================================================================
