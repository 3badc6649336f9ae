----------------------------- MODULE TaskResult ------------------------------
(***************************************************************************)
(* task_result<T> and the maybe_storage it keeps its payload in: the       *)
(* results a task's body makes, copies, moves, assigns and drops before it *)
(* returns one.  T is any payload type: which of the four operations it    *)
(* has, and which of those may throw, is chosen once.                      *)
(*                                                                         *)
(* Callers keep to the assertions: from_step is given no success, and the  *)
(* payload is taken out of a result only when has_value says there is one. *)
(* They leave the public member step alone.                                *)
(***************************************************************************)
CONSTANTS
  Results,   \* the task_result variables of a task's body
  Values     \* payloads

VARIABLES
  has,       \* the operations T has
  throwing,  \* those of them that may throw
  made,      \* the variables whose lifetime has begun and not ended
  step,      \* task_result::step of each
  value,     \* task_result::value_ of each: the flag engaged_, and the object
  outcome    \* how the last call ended

vars == <<has, throwing, made, step, value, outcome>>

Raw   == "raw"        \* no object has been constructed in the bytes
Moved == "moved"      \* an object that has been moved from

(* A payload is not one of the two marks.                                  *)
ASSUME ValuesAssumption == Raw \notin Values /\ Moved \notin Values

Stops  == {"failure", "retry", "abort_branch", "abort_execution"}
Status == Stops \cup {"success"}

Operations == {"copy", "move", "copy_assign", "move_assign"}

Empty == [engaged |-> FALSE, object |-> Raw]

TypeOK ==
  /\ has \subseteq Operations /\ throwing \subseteq has
  /\ made \subseteq Results
  /\ step \in [Results -> Status]
  /\ value \in [Results -> [engaged : BOOLEAN, object : Values \cup {Raw, Moved}]]
  /\ outcome \in {"returned", "threw", "terminated"}

Init ==
  /\ has \in {h \in SUBSET Operations : "move" \in h}
  /\ throwing \in SUBSET has
  /\ made = {}
  /\ step = [r \in Results |-> "failure"]
  /\ value = [r \in Results |-> Empty]
  /\ outcome = "returned"

-------------------------------------------------------------------------------
(* maybe_storage.                                                          *)

(* Fault: engaged_ is set before the object is constructed.                *)
ConstructFlagsFirst(cell, v, throws) ==
  IF throws THEN [cell EXCEPT !.engaged = TRUE] ELSE [engaged |-> TRUE, object |-> v]

(* emplace into an empty cell; a constructor that throws leaves it empty.  *)
Construct(cell, v, throws) ==
  IF throws THEN cell ELSE [engaged |-> TRUE, object |-> v]

Destroyed(cell) == IF cell.engaged THEN Empty ELSE cell

(* Fault: an object that has been moved from is taken to be gone.          *)
AfterMoveEmpties(cell) == Empty

(* A source that has been moved from keeps its object and its flag.        *)
AfterMove(cell) == [cell EXCEPT !.object = Moved]

(* Which operation of T assigns to a live object: an rvalue may be copied. *)
Assigner(how) ==
  IF how = "copy" \/ "move_assign" \notin has THEN "copy_assign" ELSE "move_assign"

Assigns(how) == Assigner(how) \in has

(* Fault: whether T's own assignment may throw is not asked.               *)
AssignIsNothrowByConstructor(how) == how \notin throwing

(* assign_from_nothrow_v. *)
AssignIsNothrow(how) ==
  /\ how \notin throwing
  /\ Assigns(how) => Assigner(how) \notin throwing

(* What T's operation leaves of the object it reads, if it ran to the end  *)
(* and if it threw.                                                        *)
Sources(op, cell, throws) ==
  IF op \in {"copy", "copy_assign"} THEN {cell}
  ELSE {AfterMove(cell)} \cup (IF throws THEN {cell} ELSE {})

(* What a throwing assignment of T may leave of the object it writes.      *)
Torn(cell, v) == {[cell EXCEPT !.object = o] : o \in {cell.object, v, Moved}}

-------------------------------------------------------------------------------
(* task_result.  A call may throw if the operation of T that it runs may.  *)

Ends(throws, nothrow) ==
  outcome' = CASE ~throws -> "returned"
               [] throws /\ ~nothrow -> "threw"
               [] throws /\ nothrow -> "terminated"

Running == outcome # "terminated"

MakeSuccess(r, v, how, throws) ==
  /\ Running /\ r \notin made
  /\ how \in has
  /\ throws => how \in throwing
  /\ made' = IF throws THEN made ELSE made \cup {r}
  /\ step' = [step EXCEPT ![r] = "success"]
  /\ value' = [value EXCEPT ![r] = Construct(@, v, throws)]
  /\ Ends(throws, how \notin throwing)
  /\ UNCHANGED <<has, throwing>>

FromStep(r, s) ==
  /\ Running /\ r \notin made
  /\ made' = made \cup {r}
  /\ step' = [step EXCEPT ![r] = s]
  /\ outcome' = "returned"
  /\ UNCHANGED <<has, throwing, value>>

(* The copy and the move constructor.                                      *)
ConstructFrom(r, q, how, throws) ==
  /\ Running /\ r \notin made /\ q \in made
  /\ how \in has
  /\ throws => how \in throwing /\ value[q].engaged
  /\ made' = IF throws THEN made ELSE made \cup {r}
  /\ step' = [step EXCEPT ![r] = step[q]]
  /\ IF value[q].engaged
       THEN \E source \in Sources(how, value[q], throws) :
              value' = [value EXCEPT ![r] = Construct(@, value[q].object, throws),
                                     ![q] = source]
       ELSE UNCHANGED value
  /\ Ends(throws, how \notin throwing)
  /\ UNCHANGED <<has, throwing>>

(* Copy and move assignment go member by member, and step comes first.     *)
AssignStep(r, q, how) ==
  /\ Running /\ {r, q} \subseteq made
  /\ how \in has
  /\ step' = [step EXCEPT ![r] = step[q]]
  /\ UNCHANGED <<has, throwing, made>>

AssignToItself(r, how) ==
  /\ AssignStep(r, r, how)
  /\ outcome' = "returned"
  /\ UNCHANGED value

(* Both have an object and T assigns.                                      *)
AssignObject(r, q, how, throws) ==
  /\ AssignStep(r, q, how)
  /\ r # q /\ value[q].engaged /\ value[r].engaged /\ Assigns(how)
  /\ throws => Assigner(how) \in throwing
  /\ \E source \in Sources(Assigner(how), value[q], throws),
        target \in IF throws THEN Torn(value[r], value[q].object)
                   ELSE {[value[r] EXCEPT !.object = value[q].object]} :
       value' = [value EXCEPT ![r] = target, ![q] = source]
  /\ Ends(throws, AssignIsNothrow(how))

(* Only the source has an object, or T does not assign: the old object     *)
(* goes first.                                                             *)
AssignByConstruction(r, q, how, throws) ==
  /\ AssignStep(r, q, how)
  /\ r # q /\ value[q].engaged /\ ~(value[r].engaged /\ Assigns(how))
  /\ throws => how \in throwing
  /\ \E source \in Sources(how, value[q], throws) :
       value' = [value EXCEPT ![r] = Construct(Destroyed(@), value[q].object, throws),
                              ![q] = source]
  /\ Ends(throws, AssignIsNothrow(how))

(* Fault: the object of a target is kept when the source has none.         *)
AssignNothingKeeps(r, q, how) ==
  /\ AssignStep(r, q, how)
  /\ r # q /\ ~value[q].engaged
  /\ outcome' = "returned"
  /\ UNCHANGED value

AssignNothing(r, q, how) ==
  /\ AssignStep(r, q, how)
  /\ r # q /\ ~value[q].engaged
  /\ value' = [value EXCEPT ![r] = Destroyed(@)]
  /\ outcome' = "returned"

(* std::move(r).value(), and a payload is constructed from it elsewhere.   *)
Take(r) ==
  /\ Running /\ r \in made /\ value[r].engaged
  /\ value' = [value EXCEPT ![r] = AfterMove(@)]
  /\ outcome' = "returned"
  /\ UNCHANGED <<has, throwing, made, step>>

EndLifetime(r) ==
  /\ Running /\ r \in made
  /\ made' = made \ {r}
  /\ value' = [value EXCEPT ![r] = Destroyed(@)]
  /\ outcome' = "returned"
  /\ UNCHANGED <<has, throwing, step>>

Call(r) ==
  \/ \E v \in Values, how \in {"copy", "move"}, t \in BOOLEAN : MakeSuccess(r, v, how, t)
  \/ \E s \in Stops : FromStep(r, s)
  \/ \E q \in Results, how \in {"copy", "move"}, t \in BOOLEAN :
       \/ ConstructFrom(r, q, how, t)
       \/ AssignObject(r, q, how, t)
       \/ AssignByConstruction(r, q, how, t)
  \/ \E q \in Results, how \in {"copy", "move"} : AssignNothing(r, q, how)
  \/ \E how \in {"copy", "move"} : AssignToItself(r, how)
  \/ Take(r)
  \/ EndLifetime(r)

Next == \E r \in Results : Call(r)

Spec == Init /\ [][Next]_vars

-------------------------------------------------------------------------------
(* Properties.                                                             *)

(* maybe_storage's flag is set exactly when an object lives in its bytes,  *)
(* through every constructor and assignment that throws: no object is      *)
(* destroyed twice, leaked with its result or read where none was made.    *)
FlagsAreTruthful ==
  \A r \in Results :
    /\ value[r].engaged <=> value[r].object # Raw
    /\ value[r].engaged => r \in made

(* Only success results carry a payload, assignments included, although a  *)
(* task_result assigns its status and its payload one after the other.     *)
OnlySuccessCarries ==
  \A r \in made : value[r].engaged => step[r] = "success"

(* No exception leaves a call declared noexcept: what maybe_storage says   *)
(* of an assignment covers every operation of T the assignment may run.    *)
NoexceptIsKept == outcome # "terminated"

Hollow(r) == r \in made /\ step[r] = "success" /\ ~value[r].engaged

(* A success is without a payload only because a call threw, or while      *)
(* there is such a result already to be read from: as long as none throws, *)
(* no order of moves, copies and assignments parts the two members.        *)
HollowsByThrowing ==
  (\E r \in Results : ~Hollow(r) /\ Hollow(r)') =>
    outcome' = "threw" \/ \E q \in Results : Hollow(q)

OnlyThrowingHollows == [][HollowsByThrowing]_vars

===============================================================================
