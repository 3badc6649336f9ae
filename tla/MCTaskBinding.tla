---------------------------- MODULE MCTaskBinding ------------------------------
(* Callables of up to two parameters with every way to bind them: every    *)
(* access and mode for the parameters, a second type where types matter.   *)
EXTENDS TaskBinding

MCTypes == {"A", "B"}

spec(access)      == [access |-> access, type |-> "A"]
param(mode, type) == [mode |-> mode, type |-> type]

MCSpecs  == {spec(access) : access \in SpecAccesses}
MCSpecsB == {[access |-> access, type |-> "B"] : access \in {"borrow_mut", "from_ctx"}}
MCParams == {param(mode, "A") : mode \in ParamModes \ {"direct_out"}}
MCOutput == param("direct_out", "A")

UpTo(S, n) == UNION {[1 .. k -> S] : k \in 0 .. n}

callable(shape, const, params, result) ==
  [shape |-> shape, class |-> "A", const |-> const, params |-> params, result |-> result]

request(api, member, output, c, receiver, specs, retried) ==
  [ api |-> api, member |-> member, output |-> output, callable |-> c,
    receiver |-> receiver, specs |-> specs, retried |-> retried ]

(* Functions and methods whose parameters fit the number of specs.         *)
FreeBindings ==
  {request("bind", FALSE, "inferred", callable("function", FALSE, ps, result),
           spec("from_ctx"), ss, retried) :
     <<ps, ss>> \in UNION {[1 .. n -> MCParams] \X [1 .. n -> MCSpecs] : n \in 0 .. 2},
     result \in {"step", "value"}, retried \in BOOLEAN}

MemberBindings ==
  {request("bind", TRUE, "inferred", callable("member", const, ps, "step"), receiver, ss, retried) :
     <<ps, ss>> \in UNION {[1 .. n -> MCParams] \X [1 .. n -> MCSpecs] : n \in 0 .. 1},
     const, retried \in BOOLEAN, receiver \in MCSpecs}

IntoBindings ==
  {request("bind_into", member, "A",
           callable(IF member THEN "member" ELSE "function", FALSE, Append(ps, MCOutput), result),
           receiver, ss, FALSE) :
     <<ps, ss>> \in UNION {[1 .. n -> MCParams] \X [1 .. n -> MCSpecs] : n \in 0 .. 1},
     member \in BOOLEAN, receiver \in {spec("ref"), spec("copy")}, result \in {"void", "value"}}

ForwardBindings ==
  {request("bind_forward_prev", member, "inferred",
           callable(IF member THEN "member" ELSE "function", const, ps, "step"),
           receiver, ss, retried) :
     <<ps, ss>> \in UNION {[1 .. n -> MCParams] \X [1 .. n -> MCSpecs] : n \in 0 .. 1},
     member, const, retried \in BOOLEAN, receiver \in MCSpecs}

(* Requests that mix up the api, the callable, the types or the arity.     *)
MisfitBindings ==
  {request(api, member, output, callable(shape, FALSE, ps, "void"), spec("from_ctx"), ss, FALSE) :
     api \in {"bind", "bind_into", "bind_forward_prev"}, member \in BOOLEAN,
     output \in {"A", "B", "void", "inferred"}, shape \in {"function", "member", "overloaded"},
     ps \in {<<>>, <<MCOutput>>, <<param("ref", "A")>>, <<param("ref", "B"), MCOutput>>},
     ss \in {<<>>} \cup {<<s>> : s \in MCSpecsB \cup {spec("borrow_mut")}}}

MCBindings == FreeBindings \cup MemberBindings \cup IntoBindings \cup ForwardBindings \cup MisfitBindings

===============================================================================
