# Formal model of YOrch

YOrch is a header-only C++20 library. A program writes a tree of tasks, compiles
it into a plan, and runs the plan: one thread executes the tasks depth first,
each task may store a payload that its direct children read, and a task's report
(`success`, `failure`, `retry`, `abort_branch`, `abort_execution`) decides what
runs next. This directory holds TLA+ modules translated from
`src/include/yorch`, the TLC configurations that check them, and TLAPS proofs.

There is no concurrency and nothing is persisted. What makes the code hard is
that almost everything a run relies on (slot numbers, engagement flags, which
child may move from a payload, who destroys what) is decided at compile time by
one set of templates and used without checks by another; that there are two
executors and two slot layouts which must behave alike; and that user code can
report anything, at any node, in any order, and payload constructors can throw.

## 1. Inventory

| component | state | operations | modules | status |
|---|---|---|---|---|
| Task-tree recording (`task_tree/builder.hpp`, `detail/task_tree/`) | builders and binders, nodes by level | `root*`, `node*<L>` on lvalues and rvalues, calling a binder | TaskTreeBuilder, BuilderObjects | modelled, proved |
| Overload sets and diagnostics (`builder_*_core_*.hpp`, `builder_*_diagnostics.hpp`, `bind/builders/`) | - | overload resolution of a call, the advice of a refusal | BuilderOverloads, BuilderAdvice | modelled; binders' calls proved |
| Level layout (`plan/layout.hpp`) | tables | parent, child offset, child index arrays | PlanLayout | modelled, proved |
| Compilation and validation (`plan/`, `detail/executor/plan_validation.hpp`, `prev_access_*.hpp`, `fanout.hpp`) | tables | `compile_plan`, `validate_plan` | PlanTraits, CompiledPlan | modelled, proved |
| Slot layout (`detail/slots/layout.hpp`) | tables | one-to-one, compact | SlotLayout | modelled, proved |
| Payload slots (`slots/`, `detail/slots/`) | storage, flags, owners | `emplace`, `destroy`, `has_value`, `out` and its sink, destructor | RunPlan, PlanExecSlots | modelled, proved |
| Fan-out staging (`detail/executor/fanout.hpp`) | staged copies | prepare, destroy | RunPlan | modelled |
| Results of tasks (`result.hpp`, `detail/storage/maybe_storage.hpp`) | status, payload cell | make, copy, move, assign, take, destroy | TaskResult | modelled, proved |
| Node entry (`detail/executor/node_entry.hpp`, `detail/executor/result.hpp`) | - | `enter_node`, store, finalize | RunPlan | modelled |
| Explicit-heap-stack executor | frame vector, `current_step`, `subtree_complete` | one loop | ExplicitHeapStack | modelled, proved |
| Recursive executor (`serial_dfs.hpp`) | call stack, guards | `run_node`, `run_children` | RecursiveDfs | modelled, proved |
| Task adapters (`task_adapters/`) | retry counters | retry, catch, their nesting | TaskAdapters | modelled, proved |
| Binding (`bind/`, `specs.hpp`, `resolve.hpp`, `context.hpp`) | stored specs, receiver holders | six bind functions, resolve arguments, call | TaskBinding | modelled, proved |
| Build, tests, benchmarks, examples, docs | - | - | - | not modelled |

How they interact. A call on the builder is resolved to an overload that records a
node with its level, returns a binder that will, or refuses; `compile_plan` turns
the levels into tables and validates prev access and fan-out; `run_plan` creates
the slots and the fan-out state, calls one executor, and on the way out, by
return or by exception, destroys the fan-out state and then the slots. The
executor calls `enter_node`, which forms the view of the parent's payload (from
the owning slot or from a staged copy), runs the task through its adapters, and
stores or discards its payload; it later destroys the payload when the node's
subtree is over. Slots are shared state between all of these; frames and guards
only remember what must still be destroyed.

What makes each part correct, in a sentence: the tables describe the tree that
was written; an accepted plan is safe to run in either layout; storage
bookkeeping never lies; every task reads a payload that exists and has not been
moved from; the executors run the same tasks in the same order and return the
same result; whatever happens, everything is destroyed once, children first;
adapters repeat a task only when it asked, within budget, from a clean state; and
what binding accepts cannot make a call spoil a source that another argument,
another attempt, another run or a sibling relies on; a builder or binder holds the
tree its expression spells, whatever became of the objects around it, and following
a refusal's advice leads to a call that compiles; a result's flag, status and
payload agree whatever its payload type throws.

## 2. Modules

```
PlanTraits   <- SlotLayout <- CompiledPlan <- RunPlan <- ExplicitHeapStack <- MCExplicitHeapStack
PlanLayout   <----------------'     ^            ^------ RecursiveDfs      <- MCRecursiveDfs
                                    |            '------ PlanExecSlots     <- MCPlanExecSlots
                                    |---- PlanRun (abstract; INSTANCEd by RunPlan)
                                    |---- TaskTreeBuilder <- MCTaskTreeBuilder
                                    |                     <- TaskTreeBuilderProofs
                                    '---- PlanCatalogue (the plans the executors are checked on)
                                          PayloadStore (abstract; INSTANCEd by PlanExecSlots)
RunPlan      <- RunPlanProofs <- ExplicitHeapStackProofs, RecursiveDfsProofs, PlanExecSlotsProofs
BuilderOverloads <- BuilderAdvice                 <- MCBuilders
PlanLayout, BuilderOverloads <- BuilderObjects <- MCBuilders
                                               <- TaskTreeBuilderProofs
TaskResult   <- TaskResultProofs
TaskAdapters <- MCTaskAdapters
             <- TaskAdaptersProofs
PlanTraits   <- TaskBinding <- MCTaskBinding
                            <- TaskBindingProofs
```

* **PlanLayout**: the arrays of `plan/layout.hpp` as functions of the sequence of
  levels, and the two properties of a tree of levels.
* **PlanTraits**: a task as a record of result protocol, output type, prev-access
  specs and retry flag; output storage, prev-access summaries, the three fan-out
  policies, staging, and `validate_plan` with its order of errors.
  `RunPlanRules` are the same rules as `run_plan` states them once more.
* **SlotLayout**: slot indices, counts, canonical owners and physical policies.
* **CompiledPlan**: a compiled plan as one record of tables, `CompilePlan`, and
  `WellFormed`, the statement of what an executor may rely on.
* **TaskTreeBuilder**: the recording of a tree, node by node, then compilation.
  It is how all accepted plans up to a size are enumerated from the code's own
  rules rather than from a wish list. Binding has already seen to it that a
  forwarding task has one prev access, a mutable borrow
  (`detail/bind/tasks/forward_prev.hpp:72`, `:136`); `MenuAssumption` says so.
* **BuilderOverloads**: every form (`root_into`, `node_forward_prev_member`, `task`,
  ...) as a set of overloads, each with what it accepts as its subject and its extras
  (receiver, fan-out policy, adapter chain), how it is constrained, and whether it
  appends, binds or refuses with which advice; and C++'s choice among them. A call
  that no overload or more than one best overload takes does not compile.
* **BuilderAdvice**: a caller writes a call and rewrites it as the messages advise.
* **BuilderObjects**: the builder and binder objects of a program. Each form has
  its `const&` and its `&&` overload; a binder made from an lvalue points at its builder
  and one made from an rvalue owns it, and calling it goes through the `task_*` forms
  and then `node` or `node_into`. Objects may be copied from, moved from, called
  again and dropped in any order. `spelled`, `lender`, `spent`, `careful` and `lent` are
  history: what the program text says, and whether it used an object after giving
  it away, in which case nothing is promised of the result.
  Its specification is called `WritingSpec`, its variables differ from TaskTreeBuilder's:
  TaskTreeBuilderProofs extends both, since what the objects hold is what is compiled.
* **RunPlan**: the state of one `run_plan` call (slots, live flags, stages) and
  its operations; both executors extend it. A cell of storage holds a node's
  object, nothing, or `Poisoned` after an object was constructed over a live one
  or destroyed where there is none; in C++ both are undefined behaviour. `moved`
  records that an object has been moved from.
* **ExplicitHeapStack**: one pass of the `while` loop is split into the actions
  EnterTop, PrepareTop, FinishTop, Descend, DestroyTop, and LeaveRoot,
  LeaveAndAdvance or LeaveAndUnwind. Nothing else runs between them, so the
  split only makes intermediate states visible. EnterTopThrows and
  PrepareTopThrows are the two places an exception can start.
* **RecursiveDfs**: the call stack as a sequence of activations. Returning and
  unwinding destroy an activation's guards in the order of C++ scopes.
* **PlanRun**: what running a plan promises, without executor or storage: which
  task is due, what each report ends, which payloads are live while a task runs,
  and that payloads are released children first. RunPlan instantiates it as
  `Promise`, for both executors: the stored objects are the live payloads, and the
  result is known once the run is over or an exception travels.
* **PlanExecSlots** is the public storage without an executor: payloads are put and
  destroyed in any order by node (two backends) or through a node's sink, then the
  object is destroyed. **PayloadStore** is what that promises: a set of nodes that
  have a payload. `BlindLayouts` says on which layouts the caller takes "destroys
  the payload if the node has one" at its word; elsewhere it destroys only what is there.
* **TaskResult**: the results a task's body makes, copies, moves, assigns and drops,
  with the `maybe_storage` inside each. `has` and `throwing` say which of copy, move,
  copy-assign and move-assign the payload type has and which may throw; they are
  chosen once and stay. `outcome` is how the last call ended, `terminated` if an
  exception met a `noexcept`.
* **TaskAdapters**: one execution of an adapted task. Control goes inwards to
  the body, a status comes back outwards, and each retry adapter decides. That a
  task reports a status of its protocol and never throws, which RunPlan's node entry
  assumes, is the result `ExecutorSeesAStatus`. The entry also assumes that a
  direct-output task reports success only with a payload in place. No adapter
  establishes that: it is what `finalize_direct_output_step` asserts
  (`detail/executor/result.hpp:119`) of bodies and fallback policies. What the adapters
  do establish is `SinkFollowsReport`: they lose no payload of a successful attempt and
  make no success themselves.
* **TaskBinding**: one bound task. A binding is what a caller asks for: which of
  the six functions, which callable, receiver and specs. `Bind` applies, in the
  code's order, the function's own validation (`BindError` to
  `BindForwardPrevMemberError`), the plan's rules on the resulting task
  (`PlanAccepts`, which uses PlanTraits), and what the templates need to
  instantiate (`Instantiates`). Then every execution resolves the receiver, then
  the parameters in any order (C++ leaves it unspecified), invokes the
  body, may be retried, and the plan may be run again. `condition` says what has
  become of each origin of arguments: the parent's payload, context objects,
  objects behind `std::ref`, and values stored in the task itself.

State and code correspond by name: `frames`, `current_step`, `subtree_complete`,
`next_child_ordinal`, `entered`, `payload_live`, `live_slots`, `retry_count(s)`,
`out` are the variables of the source. `outcome`, `attempts`, `report` and `filled`
are history variables: no action reads them.

### Abstractions

* Payload values, context objects, and the bytes of a slot are left out; what is
  kept of an object is whose it is and whether it has been moved from.
* A task body is any behaviour its protocol permits: every status, and for
  direct output every combination of filling the sink and reporting. In
  TaskAdapters that includes success without a payload, from the body
  (`plan/traits.hpp:176`) or from a fallback policy. RunPlan leaves it out: with
  assertions on, `finalize_direct_output_step` stops the program there, and with
  assertions off, as they are by default, a child that reads the payload reads a slot
  that has none (section 6).
* Plan nodes are required to be `noexcept`, so inside a run only payload
  constructors throw: moving a returned payload into its slot and copying one
  for fan-out. Inside TaskAdapters the body may throw.
* Output types are members of a small set: only equality of a forwarding node's
  type with its parent's is ever used.
* In TaskBinding types convert to themselves only, all are copyable, the context
  is not const, and a callable changes only what it takes by reference and moves
  only from what it takes by rvalue reference. What an argument is resolved as is
  kept as one of four rights: own, read, write or take.

## 3. Runs

| run | question | bounds |
|---|---|---|
| `plan_rules` | do the tables describe the written tree, and is every accepted plan safe in both layouts? | every shape of up to 7 nodes; every tree of up to 4 nodes over 6 tasks and 3 fan-out policies |
| `explicit` | is the explicit-heap-stack loop safe, does it implement PlanRun until an exception, does it end? | the accepted plans of PlanCatalogue |
| `recursive` | the same questions of the recursive executor, exceptions included | same plans |
| `adapters` | do stacked adapters keep their contract? | every executable stack of up to 3 of 5 adapters around 5 kinds of body |
| `binding` | can what binding and validation accept spoil a source somebody else relies on? | every function of up to 2 and method of up to 1 parameters, every mode and source, one retry, two runs |
| `builders` | does every object hold the tree it spells, can every binder be finished, and does any object depend on what became of another? | every accepted call on up to 4 objects, 4 calls on up to 6 |
| `builders`, the advice | does following the messages of a refusal end in a call that compiles? | every call of the 12 builder forms with up to 3 extras |
| `slots` | is the storage a PayloadStore for a caller that is careful with compact slots? | every plan of 3 nodes over 7 tasks and of 4 over 4, both layouts |
| `task_result` | do results stay consistent whatever their payload type throws? | 3 results, 2 payloads, all 54 kinds of payload type |
| `fanout_doc`, `explicit_throw`, `readme_failure`, `has_value_doc` | statements of docs and comments the code does not keep (section 6) | as above, `fanout_doc` up to 3 nodes |

Why the bounds are enough. Four nodes contain every relation the rules speak of
(parent, child, sibling, grandparent whose payload is forwarded) and the
jumps back over levels; seven nodes give layout every combination of leaf and
inner siblings on three levels. PlanCatalogue takes every plan of three nodes over
seven tasks (all result protocols that differ in storage, and every way a parent's
payload is read) and every plan of four nodes over four of them, with two fan-out
policies and both layouts, that compiles: four nodes are needed for a forwarding
chain beside a reader, for staging with two copies and a consumer, and for slots
reused between siblings' subtrees.
Each adapter has a budget of one retry, so an inner budget is exhausted, re-entered
and exhausted again; `CountModulus = 2` makes that budget the largest the counter
can hold; `AttemptCap = 9` lies above the largest bounded product of three
budgets (8). Runs of executors and adapters check deadlock: a finished run may
only stay `Done`. For bindings, two parameters (or a receiver and one) give every
pair of sources and modes in both orders; `MisfitBindings` adds requests that mix up
function, callable, arity and types so that each rejection happens; one retry and a
second run are the two ways a source is met again. Four builder objects are a builder,
a binder of it, what calling makes and one more use of any of these; six, with fewer
calls, add a second tree derived from the same builder and a dropped original.
No form takes more than three extras. Four nodes let two siblings share a slot while
one of them has a forwarding child; three results are a source, a target and a witness.
TaskTreeBuilder takes a set of `Menus`, BuilderObjects of `Writings`: a program picks one,
what it writes and how much, so that one run covers every rule on small trees and every shape of
larger ones. In `plan_rules` and `fanout_doc` compiling is the last step, so
`CHECK_DEADLOCK FALSE` is set there; in `builders` a program may stop at any time.
`MCBuilders` checks BuilderObjects and BuilderAdvice in one run: a call is rewritten as
the messages say, and a program is written on from one accepted call only. The two share
no variable, so each keeps all of its behaviours and the state spaces add up.

**Properties.** Each property of a passing run has a mutant (a definition changed the
way a plausible slip would change it) under which TLC finds it violated.

* `ChildRangesArePreorder`: the tables derived from levels are the tree that was
  written, listed in preorder.
* `AcceptedPlansAreWellFormed`: acceptance implies everything the executors and the
  theorems rely on, such as that a slot without an engagement flag has only owners
  that always fill it. `PathSlotsAreDistinct`: no two owned payloads of one root path
  share a slot. `ReadersHaveASource`, `ConsumerReadsLast`: every reader has storage
  behind its view, and nobody reads after a consumer.
* `FramesAreAPath`, `FramesStayReserved`, `PayloadsMatchFrames`: the loop's stack
  against the tree, against its reservation, and against storage.
* `BookkeepingIsTruthful`: flags, owners and live flags against what is in each
  slot. `PrevReadable`: what a node is about to read exists and is intact.
  `NothingOutlivesTheRun`: no payload and no staged copy is left, however a run ends.
* `ImplementsPlanRun`: each executor is a PlanRun under the mapping of its
  storage to live payloads and of its result to what a caller can see. That
  includes the order in which payloads are destroyed. Of the explicit-heap-stack loop
  it is required up to and including the throw of an exception; that it does not keep
  the order after one (`NestedLifetimes`) is the run `explicit_throw`.
* `ValidatorsAgree`: what `compile_plan` accepts `run_plan` takes, and rule for rule the
  two agree except on the types of forwarded outputs, which only the first checks.
* `Terminates`: every run ends. `OnlyRequestsKeepItRunning`: an adapted task that does
  not return is one whose `retry_forever` adapter is asked again and again.
* `StackFitsThePlan`: the recursive executor never has more activations of
  `run_node` and `run_children` than the plan has nodes and levels together.
* `TreesAreAsSpelled`, `CopiesNeedAnLvalue`, `UsesDisturbNothingElse`: builders and
  binders. `AdviceEndsInACall`: refusals.
* `ImplementsStore`: the storage as its callers see it, down to its destructor leaving
  nothing. `HasValueIsHonest`: `has_value` never denies the payload a node's output
  names, nor claims one in an empty slot that has a flag. What it should say of a slot that
  holds another node's payload is `HasValueReportsTheNode`, the run `has_value_doc`.
* `FlagsAreTruthful`, `OnlySuccessCarries`, `NoexceptIsKept`, `OnlyThrowingHollows`: a
  result's flag against its bytes, its payload against its status, its `noexcept` against
  what runs, and the one way in which status and payload part.
* `EveryAttemptStartsFresh`, `SettledReportIsFinal`, `AttemptsStayInBudget`,
  `ExecutorSeesAStatus`, `SinkFollowsReport`: the adapters' contract. The budget
  property multiplies nested budgets only through adapters that let a retry
  request out: an exhausted `retry_fixed` inside is not re-run by a retry
  outside, whereas a passthrough policy, or a fallback policy that answers
  `retry`, is.
* `StoredValuesSurvive`, `OnlyConsumersMove`: what survives retries and further
  runs. `SharedReadersLeavePrevAlone`: the plan's count of exclusive accesses,
  on which fan-out validation rests, agrees with what the call can do, receivers
  included. `ArgumentsAreUnmoved`: whatever the order of resolution.
  `ForwardedPayloadIsThere`: what a forwarding task leaves behind.

**Fairness.** `WF_vars(Step)`: `run_plan` runs on the caller's thread until it
returns, and nothing in the library waits. The premise is that task bodies
return. Of `retry_forever_policy` it is claimed only that nothing else keeps a run
going. In BuilderAdvice `WF_call(FollowAdvice)` is the premise that the caller
goes on doing what the messages say.

## 4. Proofs

All theorems about running plans are for every set `Plans` of well-formed plans, of any
size, shape and layout, and either value of `MayThrow`. Their assumptions are
`PlansAssumption` (each plan is `WellFormed`) and `MayThrowAssumption`. The first is no
matter of trust: `CompiledPlansAreWellFormed` below proves it of every plan that
compiling accepts. `WellFormed` says what the compiled
tables promise: child ranges lead one level down and back, every node but the root is in
its parent's range, nodes are numbered in preorder, slots are numbered as their layout says and have a flag where a payload may be
missing, owners and staging are those the rules give, and a payload's consumer is the
last of its direct readers.

`TaskTreeBuilderProofs` proves all properties of the `plan_rules` run, for programs that
write any tasks and policies and trees of any size: `CompiledPlansAreWellFormed`
(`AcceptedPlansAreWellFormed`), `WalksFollowTheRecording` (`ChildRangesArePreorder`),
`LivePayloadsHaveSlots` (`PathSlotsAreDistinct`), `ReadersFindASource`
(`ReadersHaveASource`), `NothingReadsMovedPayloads` (`ConsumerReadsLast`) and
`ValidatorsAgreeOnPlans` (`ValidatorsAgree`). The invariant is short: levels start at 0
and climb by at most one (`NodesRecorded`), and the verdict is validation's of the tables
(`Recordings`). The work is in what follows of the tables.

1. The tree. No level is skipped on the way back from a node (`NoLevelIsSkipped`), so
   the last earlier node one level up exists (`ParentIsFound`), and everything between
   it and the node is deeper (`BetweenParentAndChild`), which is preorder
   (`NodesArePreorder`). Child offsets count the children of earlier nodes
   (`OffsetsCount`), filing puts each child at its rank (`Ranks`, `ChildrenAreFiled`),
   hence a child range is exactly the children, ascending (`ChildrenAreTheKids`). A first
   child follows its parent at once and a sibling the subtree before it
   (`FirstChildFollows`, `SiblingFollowsSubtree`).
2. The slots. A slot of the one-to-one layout is a rank among payload nodes
   (`OneToOneSlots`), one of the compact layout a payload depth, which grows along a path
   (`CompactSlots`, `PayloadDepthsAlongPaths`). Joining the policies of the nodes that
   share a slot leaves the flag out only where none of them needs it (`JoinedPolicies`).
3. The readers. Validation gives each reading task a parent with an output
   (`OutputsHaveASource`), and lets an exclusive reader have siblings only if it consumes
   and those that read have copies (`ExclusiveReaders`). What passes one payload on is
   therefore a chain (`ForwardsFormAChain`), and of a payload's readers the consumer is
   last (`ConsumersAreLast`).

Tables defined by recursion enter through `Recursion`: a rule that fixes each entry from
earlier ones has a table that obeys it. `SameTables` carries the results from the tables that
validation sees to those of the compiled plan.

The same module proves the properties of the `builders` run, for programs that make any
number of objects and write any calls: `EveryTreeIsAsSpelled` (`TreesAreAsSpelled`),
`EveryCopyNeedsAnLvalue` (`CopiesNeedAnLvalue`) and `UsesDisturbOnlyTheUsed`
(`UsesDisturbNothingElse`). `TreesAreAsSpelled` is not inductive: a binder made from an
lvalue reads its builder only when it is called, and by then the builder may have been
used up or dropped. The invariant, `ObjectsInv`, has four parts. `Written` says what an
object will record, through the pointer if it has one; `WellMade` that a pointer leads to
an earlier builder, which has nothing pending, and that what was used up is hollow;
`Loaned` that what is pointed to was lent, which keeps copies made through a pointer
within `CopiesNeedAnLvalue`; and `Unshared` is that property itself. Every step either uses an
object (`UsingKeepsInv`), adds one (`AddingKeepsInv`), or does both (`MakingKeepsInv`).

That no binder is refused (`EveryBinderResolves`) is a fact about overload sets: a binder
passes on the callable it was accepted with, its receiver and a chain, and exactly one
`task_*` overload takes these (`TaskFormsTake`), as exactly one `node` or `node_into`
overload takes the task that comes of it (`NodeFormsTake`).

`BuildersHoldRecordings` joins the two halves: what any builder holds satisfies
`Climbs`, from which every result on compiling starts. Its hypothesis is that levels are
natural numbers; they are template arguments of type `size_t`. A binder's level is checked
against the builder when the binder is made and the node is appended when it is called;
that is right because no use of a builder changes its levels, not even one
that empties its callables (`RecordingsInv`).

`RunPlanProofs` holds what the three modules below share. The library's induction
theorems take a predicate as a parameter, which the installed provers cannot instantiate;
inductions here go by least counterexample (`UpTo`, `NodeInduction`, `WalkInduction`),
and a recursively defined table is used through a lemma that the function it names
exists (`RecursionAlongParents`). `IsWalk` is a walk from the root, an ordinal per level:
both executors' stacks are one.

`ExplicitHeapStackProofs` proves `TypeCorrect` (`TypeOK`), `TraversesThePlan`
(`FramesAreAPath`), `NeverReallocates` (`FramesStayReserved`), `BookkeepingIsCorrect`
(`BookkeepingIsTruthful`), `PayloadsFollowTheFrames` (`PayloadsMatchFrames`),
`EverythingIsDestroyed` (`NothingOutlivesTheRun`) and `TasksFindTheirInputs`
(`PrevReadable`). The invariant has three layers.

1. `FrameInv`: the frames are a walk; a frame's ordinal is where its child
   above it sits; node levels equal positions in the stack, so there are never
   more than `max_level + 1` frames. `TypeInv` adds `TypeOK`.
2. `StorageInv`: storage is `Sound` (cells, flags and owners agree, and a live
   object sits in its own node's slot); while traversing, a frame marked
   `payload_live` has its object in its slot and every live object belongs to
   such a frame; while leaving, `CleanupProgress` says which nodes the sweep
   has passed. `BookkeepingIsTruthful` alone is not inductive: that entering a
   node finds its slot empty needs to know that the live objects are those of
   the path, and that owned payloads of one path have different slots. In the
   compact layout their payload depths grow strictly along the path; in the
   one-to-one layout distinct nodes have distinct slots. The same facts give the
   sweep: each object is met at home.
3. `ReadInv`: frames on the way down have their payload and their stage
   (`FrameIsServed`); a payload moved from was moved by a task that consumes it and has
   run (`ConsumedBy`); and whatever ran has a smaller index than every child still to be
   visited (`Ahead`), which is where preorder is needed. A task about to read is behind
   everything that ran; if its payload had been consumed, the consumer would have run
   and yet be the last of the readers.

`RecursiveDfsProofs` proves `BookkeepingIsTruthful`, `NothingOutlivesTheRun` and
`PrevReadable` of the recursive executor in the same three layers (`CallInv`,
`StorageInv`, `ReadInv`), with guards in the place of frame flags: unwinding is part of
every layer, since guards keep releasing while an exception travels. It also proves
`NativeStackIsBounded` (`StackFitsThePlan`). That bound is not inductive and follows
from `CallInv` alone: each activation of `run_node` above another one, together with its
`run_children` calls, is paid for by the index of the node it leads to
(`StackIsPaidFor`), because siblings and children have indices of their own
(`ChildrenAreApart`).

`RecursionKeepsThePromise` and `LoopKeepsThePromise` are the refinements
`Spec => ImplementsPlanRun` of the two executors. In each a fourth layer, `PromiseInv`,
ties the stack to the history: until some task has ended the run, whatever has not run,
though its parent succeeded, is the node about to be entered or a child that the stack
goes on to (`Frontier`); once one has, what is passed up is what that task reported
(`EndReported`). With `WalkIsARootPath` (the stack is the root path of its last node)
this says what is due: the node about to be entered comes first (`EnteredIsDueFirst`),
nothing is due below a node whose children have been visited (`NothingIsDueBelow`), and
what is stored belongs to the entries of the stack that hold a payload (`StoredAreHeld`;
guards of the recursion, frame flags of the loop). A task that skips its children leaves
nothing due below it (`RefusalKeepsFrontier`). Then every step is PlanRun's: reporting
(`ReportIsPromised`), throwing from a task or from staging (`ThrowIsPromised`,
`StagingThrowIsPromised`), releasing a payload (`ReleaseIsPromised`), returning the
verdict (`ReturnIsPromised`), or a stutter. These lemmas are in `RunPlanProofs` and speak
of any walk, which is what both stacks are. For the loop the theorem covers the steps up
to and including the throw of an exception, for the recursion unwinding too.

How long a run can take is the last result about the executors. `LoopTakesFewSteps` and
`RecursionTakesFewSteps` bound a run of `n` nodes by `6 n` and `6 n + 2` steps, the steps
that destroy the slots included, whatever tasks report and wherever an exception is
thrown. `StepsLeft` counts five steps for each task that has not run, two for each frame
or activation on the stack and the work on the top one; every step makes it smaller.
That a task is entered at most once pays for going down: the node about to be entered
comes after all that have run (`InPreorder` in `ReadInv`), so it has not been counted
off yet. The bound is about safety; that the run also goes on until it is done is
`Terminates`, which needs fairness and stays with TLC.

`PlanExecSlotsProofs` proves that the storage used directly, in any order, implements
PayloadStore (`SlotsImplementTheStore`: initial states map to initial states, every step
to a step or a stutter, destructor included), and `HasValueIsHonest` and
`BookkeepingIsTruthful`. Its hypothesis is `BlindLayouts \subseteq {"one_to_one"}`: on a
compact layout the caller destroys only what is there. That is not a convenience of the
proof; section 6 shows what happens otherwise.

`TaskAdaptersProofs` proves, for every set of adapted tasks, any number of
adapters and any budgets, `TypeCorrect`, `AttemptsAreFresh`,
`SettledReportsStand`, `ExecutorIsProtected` and `DirectOutputContract`. The
invariant says where control may be, that a travelling exception has met no
catch adapter, that a travelling retry request may have left the adapters it
passed, that while control goes inwards the sink is empty and the input intact,
that on the way out the sink holds what the last attempt put there, and whose a
travelling exception or success is (`OriginInv`: the body's own, or the answer of a
fallback policy already passed). `DirectOutputContract` is `SinkFollowsReport`; that a
success has a payload does not follow, since bodies and fallback policies need not see
to it. `OneLevelOut` is the lemma
that moves each of these facts past one adapter. `AttemptsAreBudgeted`
(`AttemptsStayInBudget`) needs more: `SpentInv` keeps an account `s`, where `s[l]` is
what the retries counted outside the innermost `l` adapters have paid for, each retry
paying for one whole call of what its adapter wraps. Calling an adapter resets its counter
and changes no account outside it; a retry moves one call from the ended one to the
account; and what is still to come always fits the budget of the whole. `CountersStayInBudget`
(no counter passes its adapter's budget, hence none wraps) is part of that invariant.

`TaskBindingProofs` proves all properties of the `binding` run, `TypeOK` and
`ExclusiveArgumentIsAlone` (an argument that may change or move the parent's payload is
the call's only access to it), for every set of bindings, callables of any arity, and any budgets. `ArgumentRights` ties what a call
may do at a position to the access bound there; `ExclusiveIsCounted` and
`ExclusiveIsOnly` turn the plan's counts into statements about positions: every
exclusive access is counted, none has company, and no consumer is retried. The
invariant adds to the properties that only accepted bindings run, that a held
argument is what its spec and target say, and `MovedInv`: while arguments are still
being resolved, a moved payload means that its only reader has been resolved. That
last part makes `ArgumentsAreUnmoved` inductive over retries and further runs.

`TaskResultProofs` proves all properties of the `task_result` run, and `TypeOK`, for any
results and payloads and every payload type, assuming only that no payload is one of
the marks for "no object" and "moved from" (`ValuesAssumption`). The invariant
is `Sound` of each result: its cell is truthful, and an engaged cell belongs to a live
result with status `success`. `OneCell` and `TwoCells` are the two shapes a step can
have, changing one result or reading one into another; the lemmas on cells say that
destroying gives the empty cell, that constructing in it leaves either, and
that whatever a throwing operation leaves of its source or target is still an object.

Only model-checked:

* liveness (`Terminates`, `OnlyRequestsKeepItRunning`, `AdviceEndsInACall`), which is
  out of the prover's reach; of `Terminates`, for both executors, the part that needs
  no fairness is proved as the bounds above;
* the overload sets as a whole and the advice of refusals; of these only what a binder's
  call selects is proved.

## 5. Not modelled

* Conversions between types, const contexts and non-copyable types in TaskBinding.
* The wording of static_asserts beyond the call they advise; `maybe_storage` and
  `erased_slot` at the level of bytes, alignment and `launder`.
* The size of a native stack frame: `StackFitsThePlan` counts the activations the code
  makes, and an optimising compiler may merge some of them.
* A program that writes a result's public `step` itself.
* Callables with state: bodies are nondeterministic in every model, which includes
  whatever a stateful body could do.
* User-written retry policies other than a bounded count: any such policy is
  called at the same point with the same counter.

## 6. Disagreements with the documentation

1. **A failure ends the whole run** (`readme_failure`). `README.md:135` and
   `README.md:158` describe a failure as stopping the subtree below the failed task,
   and later siblings as depending on their own parent chain. `run_children`
   (`detail/executor/serial_dfs.hpp:108`) and the loop
   (`serial_dfs_explicit_heap_stack.hpp:274`) end the run for every status but
   `success` and `abort_branch`. What the README describes is `abort_branch`.
2. **The automatic fan-out policy is stricter than its comment** (`fanout_doc`).
   `task_tree/policies.hpp:10` allows any access semantics when at most one child
   uses prev access; `detail/executor/fanout.hpp:97` requires at most one child.
3. **Destruction order after an exception** (`explicit_throw`).
   `executor/plan.hpp:31` says the explicit-heap-stack policy preserves the same
   DFS semantics and `detail/executor/result.hpp:49` that a payload remains alive
   for its subtree. When a payload constructor throws, the loop releases nothing and
   the slots' destructor (`slots/plan_exec_slots.hpp:487`) sweeps in ascending node
   order, so a parent's payload dies before those stored below it. The
   recursive executor unwinds child first.
4. **has_value answers for the slot** (`has_value_doc`).
   `slots/plan_exec_slots.hpp:123` says it reports whether maybe-payload node `I`
   currently stores a value. On the compact layout `slot_has_value_impl` (line 254) looks
   at the flag of the physical slot and not at the owner recorded beside it, so it is
   true of a node that stores nothing while a node sharing the slot does. The typed
   backend keeps the comment, and `HasValueIsHonest` says what holds of both. The
   executors ask only of a node that has just run.

Six more were met while modelling and have no run of their own:

* **The native stack grows with siblings too.** `README.md:385` advises the
  explicit-heap-stack policy only for very deep plans. `run_children`
  (`detail/executor/serial_dfs.hpp:100`) calls itself for the next sibling from the
  activation of the one before, so a wide plan is as deep a recursion as a tall one
  unless the compiler merges the calls. `StackFitsThePlan` gives the bound that holds.
* **Two refusals compete.** A direct-output member function passed to a member form with
  a policy or chain where its receiver should be matches both the refusal for a missing
  receiver (`builder_node_diagnostics.hpp:319`) and the one for the wrong kind of
  function; neither is more constrained, and neither message appears. In
  BuilderOverloads the outcome of such a call is `ambiguous`.
* **One message leads nowhere.** `bind/builders/diagnostics.hpp:318` sends every member
  function passed to `task_into` to `bind_into_member`, which refuses an ordinary one.
  The advice in `builders` therefore starts from the forms of a builder, and claims nothing of
  advice on `task_*` and `bind_*` calls written by hand.
* **A compact slot destroys whatever it holds.** `slots/plan_exec_slots.hpp:182` says
  destroy acts if the node has a payload, and line 289 that both backends behave alike.
  The erased backend looks at the physical slot only: it destroys another node's
  object, as the wrong type, and runs the destructor on an empty slot that has no flag.
  The executors never do this; a program using `plan_exec_slots` directly can. That is
  why `slots` lets only the caller of one-to-one slots be blind; with
  `BlindLayouts = {"compact"}` `ImplementsStore` fails.
* **A fallback policy may answer success over an empty sink.** It is called with the
  exception alone, `task_adapters/concepts.hpp:66` takes any that is `noexcept` and
  returns a step, and `task_adapters/catch_as_failure.hpp:150` hands its answer on. A
  body may do the same: `plan/traits.hpp:176` says a direct-output task may return success
  without a value. `detail/executor/result.hpp:119` asserts that neither happens, in an
  assertion that is off by default (`assert.hpp:7`). `SinkFollowsReport` says that these
  two are the only ways.
* **A result that succeeded without a payload.** An assignment between two results copies the status
  first; if the payload's constructor then throws, the target says success and has no
  payload, which `detail/executor/result.hpp:80` asserts never reaches the executor. A
  task body that catches the exception can return it. `OnlyThrowingHollows` says that
  nothing else leads there.

One asymmetry is not a disagreement, because the program is rejected either way:
for a member receiver, `matches_member_receiver` (`detail/executor/prev_access_specs.hpp:68`)
lets `borrow_prev_mut` meet a const method, which plan validation therefore accepts and
`resolve_as` then refuses to compile. It is the phase `ill_formed` of TaskBinding.

## 7. Plan

Done: all modules above, with proofs about recording and compiling, both executors, the
storage, TaskAdapters, TaskBinding and TaskResult. Next:

1. **One node's execution**: TaskBinding and TaskAdapters composed under RunPlan's
   node entry, shown to implement the task RunPlan assumes.
