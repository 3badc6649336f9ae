-------------------------- MODULE TaskResultProofs ---------------------------
(***************************************************************************)
(* What task_result keeps, for any number of results, any payloads and any *)
(* choice of the operations T has and of those that throw.                 *)
(***************************************************************************)
EXTENDS TaskResult, TLAPS

Cell == [engaged : BOOLEAN, object : Values \cup {Raw, Moved}]

Truthful(cell) == cell.engaged <=> cell.object # Raw

(* The invariant, read cell by cell: no result's cell depends on another's. *)
Sound(r) ==
  /\ value[r] \in Cell /\ Truthful(value[r])
  /\ step[r] \in Status
  /\ value[r].engaged => r \in made /\ step[r] = "success"

IInv ==
  /\ has \subseteq Operations /\ throwing \subseteq has
  /\ made \subseteq Results
  /\ step \in [Results -> Status] /\ value \in [Results -> Cell]
  /\ outcome \in {"returned", "threw"}
  /\ \A r \in Results : Sound(r)

LEMMA EmptyCell == Empty \in Cell /\ Truthful(Empty) /\ ~Empty.engaged
  BY DEF Empty, Cell, Truthful, Raw

LEMMA DestroyedCell ==
  ASSUME NEW cell \in Cell, Truthful(cell)
  PROVE  Destroyed(cell) = Empty
<1>1. CASE cell.engaged  BY <1>1 DEF Destroyed
<1>2. CASE ~cell.engaged
  <2>1. cell.object = Raw  BY <1>2 DEF Truthful
  <2>2. cell = [engaged |-> cell.engaged, object |-> cell.object]  BY DEF Cell
  <2>3. cell.engaged = FALSE  BY <1>2 DEF Cell
  <2> QED  BY <1>2, <2>1, <2>2, <2>3 DEF Destroyed, Empty
<1> QED  BY <1>1, <1>2

(* Constructing in the empty cell: engaged exactly when nothing was thrown. *)
LEMMA ConstructedCell ==
  ASSUME NEW v \in Values \cup {Moved}, NEW t \in BOOLEAN
  PROVE  /\ Construct(Empty, v, t) \in Cell /\ Truthful(Construct(Empty, v, t))
         /\ Construct(Empty, v, t).engaged <=> ~t
<1>1. CASE t  BY <1>1, EmptyCell DEF Construct
<1>2. CASE ~t
  BY <1>2, ValuesAssumption DEF Construct, Cell, Truthful, Raw, Moved
<1> QED  BY <1>1, <1>2

LEMMA MovedCell ==
  ASSUME NEW cell \in Cell, cell.engaged
  PROVE  AfterMove(cell) \in Cell /\ Truthful(AfterMove(cell)) /\ AfterMove(cell).engaged
  BY DEF AfterMove, Cell, Truthful, Raw, Moved

(* Whatever T's operation leaves of its source is still an object.         *)
LEMMA SourceCell ==
  ASSUME NEW cell \in Cell, Truthful(cell), cell.engaged,
         NEW op, NEW t \in BOOLEAN, NEW source \in Sources(op, cell, t)
  PROVE  source \in Cell /\ Truthful(source) /\ source.engaged
<1>1. source = cell \/ source = AfterMove(cell)  BY DEF Sources
<1> QED  BY <1>1, MovedCell

(* An assignment that throws half way leaves an object in its target too.  *)
LEMMA TornCell ==
  ASSUME NEW cell \in Cell, Truthful(cell), cell.engaged,
         NEW v \in Values \cup {Moved}, NEW target \in Torn(cell, v)
  PROVE  target \in Cell /\ Truthful(target) /\ target.engaged
<1>1. PICK o \in {cell.object, v, Moved} : target = [cell EXCEPT !.object = o]  BY DEF Torn
<1>2. o \in Values \cup {Moved}
  BY DEF Cell, Truthful
<1> QED  BY <1>1, <1>2, ValuesAssumption DEF Cell, Truthful, Raw, Moved

LEMMA EngagedObject ==
  ASSUME NEW cell \in Cell, Truthful(cell), cell.engaged
  PROVE  cell.object \in Values \cup {Moved}
  BY DEF Cell, Truthful

(* A step that leaves every other result alone.                            *)
LEMMA OneCell ==
  ASSUME IInv, NEW r \in Results, NEW cell \in Cell, Truthful(cell), NEW s \in Status,
         step' = [step EXCEPT ![r] = s], value' = [value EXCEPT ![r] = cell],
         made' \subseteq Results, made' \ {r} = made \ {r},
         cell.engaged => r \in made' /\ s = "success"
  PROVE  /\ step' \in [Results -> Status] /\ value' \in [Results -> Cell]
         /\ \A p \in Results : Sound(p)'
<1>1. step' \in [Results -> Status] /\ value' \in [Results -> Cell]  BY DEF IInv
<1>2. ASSUME NEW p \in Results  PROVE Sound(p)'
  <2>1. CASE p = r
    <3>1. step'[p] = s /\ value'[p] = cell  BY <2>1 DEF IInv
    <3> QED  BY <2>1, <3>1 DEF Sound
  <2>2. CASE p # r
    <3>1. step'[p] = step[p] /\ value'[p] = value[p]  BY <2>2 DEF IInv
    <3>2. p \in made <=> p \in made'  BY <2>2
    <3> QED  BY <3>1, <3>2 DEF IInv, Sound
  <2> QED  BY <2>1, <2>2
<1> QED  BY <1>1, <1>2

(* A step that reads one result's object into another's.                   *)
LEMMA TwoCells ==
  ASSUME IInv, NEW r \in Results, NEW q \in Results, r # q, q \in made, value[q].engaged,
         NEW cell \in Cell, Truthful(cell), NEW source \in Cell, Truthful(source),
         step' = [step EXCEPT ![r] = step[q]],
         value' = [value EXCEPT ![r] = cell, ![q] = source],
         made' \subseteq Results, made' \ {r} = made \ {r}, cell.engaged => r \in made'
  PROVE  /\ step' \in [Results -> Status] /\ value' \in [Results -> Cell]
         /\ \A p \in Results : Sound(p)'
<1>1. step[q] = "success" /\ step[q] \in Status  BY DEF IInv, Sound
<1>2. step' \in [Results -> Status] /\ value' \in [Results -> Cell]  BY <1>1 DEF IInv
<1>3. ASSUME NEW p \in Results  PROVE Sound(p)'
  <2>1. CASE p = r
    <3>1. step'[p] = "success" /\ value'[p] = cell  BY <1>1, <2>1 DEF IInv
    <3> QED  BY <1>1, <2>1, <3>1 DEF Sound
  <2>2. CASE p = q
    <3>1. step'[p] = "success" /\ value'[p] = source  BY <1>1, <2>2 DEF IInv
    <3>2. p \in made'  BY <2>2
    <3> QED  BY <1>1, <3>1, <3>2 DEF Sound
  <2>3. CASE p # r /\ p # q
    <3>1. step'[p] = step[p] /\ value'[p] = value[p]  BY <2>3 DEF IInv
    <3>2. p \in made <=> p \in made'  BY <2>3
    <3> QED  BY <3>1, <3>2 DEF IInv, Sound
  <2> QED  BY <2>1, <2>2, <2>3
<1> QED  BY <1>2, <1>3

LEMMA InitIInv == Init => IInv
<1> SUFFICES ASSUME Init PROVE IInv  OBVIOUS
<1>1. step \in [Results -> Status] /\ value \in [Results -> Cell]
  BY EmptyCell DEF Init, Status, Stops
<1>2. \A r \in Results : Sound(r)
  BY EmptyCell DEF Init, Sound, Status, Stops
<1> QED  BY <1>1, <1>2 DEF Init, IInv

-------------------------------------------------------------------------------
(* One lemma per call.                                                     *)

LEMMA MakeSuccessSound ==
  ASSUME IInv, NEW r \in Results, NEW v \in Values, NEW how \in {"copy", "move"},
         NEW t \in BOOLEAN, MakeSuccess(r, v, how, t)
  PROVE  IInv'
<1>1. value[r] = Empty
  <2>1. Sound(r) /\ r \notin made  BY DEF IInv, MakeSuccess
  <2>2. ~value[r].engaged  BY <2>1 DEF Sound
  <2> QED  BY <2>1, <2>2, DestroyedCell DEF Sound, Destroyed
<1> DEFINE cell == Construct(Empty, v, t)
<1>2. cell \in Cell /\ Truthful(cell) /\ (cell.engaged <=> ~t)  BY ConstructedCell
<1>3. value' = [value EXCEPT ![r] = cell]  BY <1>1 DEF MakeSuccess, IInv
<1>4. /\ made' \subseteq Results /\ made' \ {r} = made \ {r}
      /\ ~t => r \in made'
  BY DEF MakeSuccess, IInv
<1>5. step' = [step EXCEPT ![r] = "success"] /\ "success" \in Status
  BY DEF MakeSuccess, Status
<1>6. /\ step' \in [Results -> Status] /\ value' \in [Results -> Cell]
      /\ \A p \in Results : Sound(p)'
  <2> HIDE DEF cell
  <2> QED  BY <1>2, <1>3, <1>4, <1>5, OneCell
<1>7. outcome' \in {"returned", "threw"}  BY DEF MakeSuccess, Ends
<1> QED  BY <1>4, <1>6, <1>7 DEF IInv, MakeSuccess

LEMMA FromStepSound ==
  ASSUME IInv, NEW r \in Results, NEW s \in Stops, FromStep(r, s)
  PROVE  IInv'
<1>1. value[r] \in Cell /\ Truthful(value[r]) /\ ~value[r].engaged
  BY DEF IInv, Sound, FromStep
<1>2. value' = [value EXCEPT ![r] = value[r]]  BY DEF FromStep, IInv
<1>3. made' \subseteq Results /\ made' \ {r} = made \ {r}  BY DEF FromStep, IInv
<1>4. step' = [step EXCEPT ![r] = s] /\ s \in Status  BY DEF FromStep, Status
<1>5. /\ step' \in [Results -> Status] /\ value' \in [Results -> Cell]
      /\ \A p \in Results : Sound(p)'
  BY <1>1, <1>2, <1>3, <1>4, OneCell
<1> QED  BY <1>3, <1>5 DEF IInv, FromStep

LEMMA ConstructFromSound ==
  ASSUME IInv, NEW r \in Results, NEW q \in Results, NEW how \in {"copy", "move"},
         NEW t \in BOOLEAN, ConstructFrom(r, q, how, t)
  PROVE  IInv'
<1>1. value[r] = Empty
  <2>1. Sound(r) /\ r \notin made  BY DEF IInv, ConstructFrom
  <2>2. ~value[r].engaged  BY <2>1 DEF Sound
  <2> QED  BY <2>1, <2>2, DestroyedCell DEF Sound, Destroyed
<1>2. r # q /\ q \in made  BY DEF ConstructFrom
<1>3. made' \subseteq Results /\ made' \ {r} = made \ {r}  BY DEF ConstructFrom, IInv
<1>4. value[q] \in Cell /\ Truthful(value[q]) /\ step[q] \in Status  BY DEF IInv, Sound
<1>5. step' = [step EXCEPT ![r] = step[q]]  BY DEF ConstructFrom
<1>6. /\ step' \in [Results -> Status] /\ value' \in [Results -> Cell]
      /\ \A p \in Results : Sound(p)'
  <2>1. CASE value[q].engaged
    <3>1. PICK source \in Sources(how, value[q], t) :
            value' = [value EXCEPT ![r] = Construct(@, value[q].object, t), ![q] = source]
      BY <2>1 DEF ConstructFrom
    <3>2. source \in Cell /\ Truthful(source)  BY <1>4, <2>1, SourceCell
    <3> DEFINE cell == Construct(Empty, value[q].object, t)
    <3>3. cell \in Cell /\ Truthful(cell) /\ (cell.engaged <=> ~t)
      <4>1. value[q].object \in Values \cup {Moved}  BY <1>4, <2>1, EngagedObject
      <4> QED  BY <4>1, ConstructedCell
    <3>4. value' = [value EXCEPT ![r] = cell, ![q] = source]  BY <1>1, <3>1 DEF IInv
    <3>5. ~t => r \in made'  BY DEF ConstructFrom
    <3> HIDE DEF cell
    <3> QED  BY <1>2, <1>3, <1>5, <2>1, <3>2, <3>3, <3>4, <3>5, TwoCells
  <2>2. CASE ~value[q].engaged
    <3>1. value' = [value EXCEPT ![r] = Empty]
      BY <1>1, <2>2 DEF ConstructFrom, IInv
    <3> QED  BY <1>3, <1>4, <1>5, <3>1, EmptyCell, OneCell
  <2> QED  BY <2>1, <2>2
<1>7. outcome' \in {"returned", "threw"}  BY DEF ConstructFrom, Ends
<1> QED  BY <1>3, <1>6, <1>7 DEF IInv, ConstructFrom

LEMMA AssignObjectSound ==
  ASSUME IInv, NEW r \in Results, NEW q \in Results, NEW how \in {"copy", "move"},
         NEW t \in BOOLEAN, AssignObject(r, q, how, t)
  PROVE  IInv'
<1> USE DEF AssignObject, AssignStep
<1>1. r # q /\ q \in made /\ r \in made /\ value[q].engaged /\ value[r].engaged  OBVIOUS
<1>2. /\ value[q] \in Cell /\ Truthful(value[q])
      /\ value[r] \in Cell /\ Truthful(value[r])
  BY DEF IInv, Sound
<1>3. PICK source \in Sources(Assigner(how), value[q], t),
           target \in IF t THEN Torn(value[r], value[q].object)
                      ELSE {[value[r] EXCEPT !.object = value[q].object]} :
        value' = [value EXCEPT ![r] = target, ![q] = source]
  OBVIOUS
<1>4. source \in Cell /\ Truthful(source)  BY <1>1, <1>2, SourceCell
<1>5. value[q].object \in Values \cup {Moved}  BY <1>1, <1>2, EngagedObject
<1>6. target \in Torn(value[r], value[q].object)
  BY DEF Torn
<1>7. target \in Cell /\ Truthful(target)  BY <1>1, <1>2, <1>5, <1>6, TornCell
<1>8. made' = made /\ step' = [step EXCEPT ![r] = step[q]]  OBVIOUS
<1>9. /\ step' \in [Results -> Status] /\ value' \in [Results -> Cell]
      /\ \A p \in Results : Sound(p)'
  <2>1. made' \subseteq Results  BY <1>8 DEF IInv
  <2> QED  BY <1>1, <1>3, <1>4, <1>7, <1>8, <2>1, TwoCells
<1>10. outcome' \in {"returned", "threw"}  BY DEF Ends, AssignIsNothrow
<1> QED  BY <1>8, <1>9, <1>10 DEF IInv

LEMMA AssignByConstructionSound ==
  ASSUME IInv, NEW r \in Results, NEW q \in Results, NEW how \in {"copy", "move"},
         NEW t \in BOOLEAN, AssignByConstruction(r, q, how, t)
  PROVE  IInv'
<1> USE DEF AssignByConstruction, AssignStep
<1>1. r # q /\ q \in made /\ r \in made /\ value[q].engaged  OBVIOUS
<1>2. /\ value[q] \in Cell /\ Truthful(value[q])
      /\ value[r] \in Cell /\ Truthful(value[r])
  BY DEF IInv, Sound
<1>3. PICK source \in Sources(how, value[q], t) :
        value' = [value EXCEPT ![r] = Construct(Destroyed(@), value[q].object, t),
                               ![q] = source]
  OBVIOUS
<1>4. source \in Cell /\ Truthful(source)  BY <1>1, <1>2, SourceCell
<1>5. value[q].object \in Values \cup {Moved}  BY <1>1, <1>2, EngagedObject
<1> DEFINE cell == Construct(Empty, value[q].object, t)
<1>6. cell \in Cell /\ Truthful(cell)  BY <1>5, ConstructedCell
<1>7. Destroyed(value[r]) = Empty  BY <1>2, DestroyedCell
<1>8. value' = [value EXCEPT ![r] = cell, ![q] = source]  BY <1>3, <1>7 DEF IInv
<1>9. made' = made /\ step' = [step EXCEPT ![r] = step[q]]  OBVIOUS
<1>10. /\ step' \in [Results -> Status] /\ value' \in [Results -> Cell]
       /\ \A p \in Results : Sound(p)'
  <2>1. made' \subseteq Results  BY <1>9 DEF IInv
  <2> HIDE DEF cell
  <2> QED  BY <1>1, <1>4, <1>6, <1>8, <1>9, <2>1, TwoCells
<1>11. outcome' \in {"returned", "threw"}  BY DEF Ends, AssignIsNothrow
<1> QED  BY <1>9, <1>10, <1>11 DEF IInv

LEMMA AssignNothingSound ==
  ASSUME IInv, NEW r \in Results, NEW q \in Results, NEW how \in {"copy", "move"},
         AssignNothing(r, q, how)
  PROVE  IInv'
<1> USE DEF AssignNothing, AssignStep
<1>1. value[r] \in Cell /\ Truthful(value[r]) /\ step[q] \in Status  BY DEF IInv, Sound
<1>2. value' = [value EXCEPT ![r] = Empty]  BY <1>1, DestroyedCell DEF IInv
<1>3. made' = made /\ step' = [step EXCEPT ![r] = step[q]]  OBVIOUS
<1>4. made' \subseteq Results  BY <1>3 DEF IInv
<1>5. /\ step' \in [Results -> Status] /\ value' \in [Results -> Cell]
      /\ \A p \in Results : Sound(p)'
  BY <1>1, <1>2, <1>3, <1>4, EmptyCell, OneCell
<1> QED  BY <1>3, <1>5 DEF IInv

LEMMA AssignToItselfSound ==
  ASSUME IInv, NEW r \in Results, NEW how \in {"copy", "move"}, AssignToItself(r, how)
  PROVE  IInv'
<1>1. step' = step  BY DEF AssignToItself, AssignStep, IInv
<1> QED  BY <1>1 DEF AssignToItself, AssignStep, IInv, Sound

LEMMA TakeSound ==
  ASSUME IInv, NEW r \in Results, Take(r)
  PROVE  IInv'
<1>1. value[r] \in Cell /\ value[r].engaged /\ r \in made /\ step[r] = "success"
  BY DEF IInv, Sound, Take
<1>2. AfterMove(value[r]) \in Cell /\ Truthful(AfterMove(value[r]))  BY <1>1, MovedCell
<1>3. value' = [value EXCEPT ![r] = AfterMove(value[r])]  BY DEF Take, IInv
<1>4. made' = made /\ step' = [step EXCEPT ![r] = step[r]] /\ step[r] \in Status
  BY DEF Take, IInv
<1>5. made' \subseteq Results  BY <1>4 DEF IInv
<1>6. /\ step' \in [Results -> Status] /\ value' \in [Results -> Cell]
      /\ \A p \in Results : Sound(p)'
  BY <1>1, <1>2, <1>3, <1>4, <1>5, OneCell
<1> QED  BY <1>4, <1>6 DEF IInv, Take

LEMMA EndLifetimeSound ==
  ASSUME IInv, NEW r \in Results, EndLifetime(r)
  PROVE  IInv'
<1>1. value[r] \in Cell /\ Truthful(value[r]) /\ step[r] \in Status  BY DEF IInv, Sound
<1>2. value' = [value EXCEPT ![r] = Empty]  BY <1>1, DestroyedCell DEF EndLifetime, IInv
<1>3. made' \subseteq Results /\ made' \ {r} = made \ {r}  BY DEF EndLifetime, IInv
<1>4. step' = [step EXCEPT ![r] = step[r]]  BY DEF EndLifetime, IInv
<1>5. /\ step' \in [Results -> Status] /\ value' \in [Results -> Cell]
      /\ \A p \in Results : Sound(p)'
  BY <1>1, <1>2, <1>3, <1>4, EmptyCell, OneCell
<1> QED  BY <1>3, <1>5 DEF IInv, EndLifetime

LEMMA NextIInv == IInv /\ [Next]_vars => IInv'
<1> SUFFICES ASSUME IInv, [Next]_vars PROVE IInv'  OBVIOUS
<1>1. CASE Next
  <2>1. PICK r \in Results : Call(r)  BY <1>1 DEF Next
  <2> QED
    BY <2>1, MakeSuccessSound, FromStepSound, ConstructFromSound, AssignObjectSound,
       AssignByConstructionSound, AssignNothingSound, AssignToItselfSound, TakeSound,
       EndLifetimeSound
    DEF Call
<1>2. CASE UNCHANGED vars  BY <1>2 DEF vars, IInv, Sound
<1> QED  BY <1>1, <1>2

LEMMA IInvParts == IInv => TypeOK /\ FlagsAreTruthful /\ OnlySuccessCarries /\ NoexceptIsKept
  BY DEF IInv, Sound, TypeOK, FlagsAreTruthful, OnlySuccessCarries, NoexceptIsKept, Truthful, Cell

-------------------------------------------------------------------------------
(* No success becomes hollow in a call that returns.                       *)

LEMMA ReadsLeaveAnObject ==
  ASSUME IInv, NEW r \in Results, NEW q \in Results, r # q, value[q].engaged,
         NEW cell, cell.engaged, NEW source, source.engaged,
         value' = [value EXCEPT ![r] = cell, ![q] = source],
         step' = [step EXCEPT ![r] = step[q]], made' \ {r} = made \ {r},
         NEW p \in Results, ~Hollow(p)
  PROVE  ~Hollow(p)'
<1>1. CASE p = r
  <2>1. value'[p] = cell  BY <1>1 DEF IInv
  <2> QED  BY <2>1 DEF Hollow
<1>2. CASE p = q
  <2>1. value'[p] = source  BY <1>2 DEF IInv
  <2> QED  BY <2>1 DEF Hollow
<1>3. CASE p # r /\ p # q
  <2>1. value'[p] = value[p] /\ step'[p] = step[p]  BY <1>3 DEF IInv
  <2> QED  BY <1>3, <2>1 DEF Hollow
<1> QED  BY <1>1, <1>2, <1>3

LEMMA OthersStay ==
  ASSUME IInv, NEW r \in Results, NEW cell, NEW s,
         value' = [value EXCEPT ![r] = cell], step' = [step EXCEPT ![r] = s],
         made' \ {r} = made \ {r}, s = "success" /\ r \in made' => cell.engaged,
         NEW p \in Results, ~Hollow(p)
  PROVE  ~Hollow(p)'
<1>1. CASE p = r
  <2>1. value'[p] = cell /\ step'[p] = s  BY <1>1 DEF IInv
  <2> QED  BY <1>1, <2>1 DEF Hollow
<1>2. CASE p # r
  <2>1. value'[p] = value[p] /\ step'[p] = step[p]  BY <1>2 DEF IInv
  <2> QED  BY <1>2, <2>1 DEF Hollow
<1> QED  BY <1>1, <1>2

LEMMA ReturningHollowsNone ==
  ASSUME IInv, \A q \in Results : ~Hollow(q), NEW r \in Results, Call(r),
         outcome' = "returned", NEW p \in Results
  PROVE  ~Hollow(p)'
<1>1. ASSUME NEW v \in Values, NEW how \in {"copy", "move"}, NEW t \in BOOLEAN,
             MakeSuccess(r, v, how, t)
      PROVE  ~Hollow(p)'
  <2> DEFINE cell == Construct(value[r], v, t)
  <2>1. ~t  BY <1>1 DEF MakeSuccess, Ends
  <2>2. cell.engaged  BY <2>1 DEF Construct
  <2>3. value' = [value EXCEPT ![r] = cell] /\ step' = [step EXCEPT ![r] = "success"]
    BY <1>1 DEF MakeSuccess, IInv
  <2>4. made' \ {r} = made \ {r}  BY <1>1 DEF MakeSuccess
  <2> HIDE DEF cell
  <2> QED  BY <2>2, <2>3, <2>4, OthersStay
<1>2. ASSUME NEW s \in Stops, FromStep(r, s)  PROVE ~Hollow(p)'
  <2>1. value' = [value EXCEPT ![r] = value[r]] /\ step' = [step EXCEPT ![r] = s]
    BY <1>2 DEF FromStep, IInv
  <2>2. made' \ {r} = made \ {r} /\ s # "success"  BY <1>2 DEF FromStep, Stops
  <2> QED  BY <2>1, <2>2, OthersStay
<1>3. ASSUME NEW q \in Results, NEW how \in {"copy", "move"}, NEW t \in BOOLEAN,
             ConstructFrom(r, q, how, t)
      PROVE  ~Hollow(p)'
  <2>1. ~t /\ r # q /\ q \in made  BY <1>3 DEF ConstructFrom, Ends
  <2>2. step' = [step EXCEPT ![r] = step[q]] /\ made' \ {r} = made \ {r}
    BY <1>3 DEF ConstructFrom
  <2>3. CASE value[q].engaged
    <3>1. PICK source \in Sources(how, value[q], t) :
            value' = [value EXCEPT ![r] = Construct(@, value[q].object, t), ![q] = source]
      BY <1>3, <2>3 DEF ConstructFrom
    <3>2. source.engaged  BY <2>3, SourceCell DEF IInv, Sound
    <3> DEFINE cell == Construct(value[r], value[q].object, t)
    <3>3. cell.engaged  BY <2>1 DEF Construct
    <3>4. value' = [value EXCEPT ![r] = cell, ![q] = source]  BY <3>1 DEF IInv
    <3> HIDE DEF cell
    <3> QED  BY <2>1, <2>2, <2>3, <3>2, <3>3, <3>4, ReadsLeaveAnObject
  <2>4. CASE ~value[q].engaged
    <3>1. value' = [value EXCEPT ![r] = value[r]]  BY <1>3, <2>4 DEF ConstructFrom, IInv
    <3>2. step[q] # "success"  BY <2>1, <2>4 DEF Hollow
    <3> QED  BY <2>2, <3>1, <3>2, OthersStay
  <2> QED  BY <2>3, <2>4
<1>4. ASSUME NEW q \in Results, NEW how \in {"copy", "move"}, NEW t \in BOOLEAN,
             AssignObject(r, q, how, t)
      PROVE  ~Hollow(p)'
  <2> USE DEF AssignObject, AssignStep
  <2>1. ~t /\ r # q /\ value[q].engaged /\ value[r].engaged  BY <1>4 DEF Ends
  <2>2. PICK source \in Sources(Assigner(how), value[q], t) :
          value' = [value EXCEPT ![r] = [value[r] EXCEPT !.object = value[q].object],
                                 ![q] = source]
    BY <1>4, <2>1
  <2>3. source.engaged  BY <2>1, SourceCell DEF IInv, Sound
  <2> DEFINE cell == [value[r] EXCEPT !.object = value[q].object]
  <2>4. cell.engaged  BY <2>1 DEF IInv, Cell
  <2>5. value' = [value EXCEPT ![r] = cell, ![q] = source]  BY <2>2
  <2>6. step' = [step EXCEPT ![r] = step[q]] /\ made' = made  BY <1>4
  <2> HIDE DEF cell
  <2> QED  BY <2>1, <2>3, <2>4, <2>5, <2>6, ReadsLeaveAnObject
<1>5. ASSUME NEW q \in Results, NEW how \in {"copy", "move"}, NEW t \in BOOLEAN,
             AssignByConstruction(r, q, how, t)
      PROVE  ~Hollow(p)'
  <2> USE DEF AssignByConstruction, AssignStep
  <2>1. ~t /\ r # q /\ value[q].engaged  BY <1>5 DEF Ends
  <2> DEFINE cell == Construct(Destroyed(value[r]), value[q].object, t)
  <2>2. PICK source \in Sources(how, value[q], t) :
          value' = [value EXCEPT ![r] = cell, ![q] = source]
    BY <1>5 DEF IInv
  <2>3. source.engaged  BY <2>1, SourceCell DEF IInv, Sound
  <2>4. cell.engaged  BY <2>1 DEF Construct
  <2>5. step' = [step EXCEPT ![r] = step[q]] /\ made' = made  BY <1>5
  <2> HIDE DEF cell
  <2> QED  BY <2>1, <2>2, <2>3, <2>4, <2>5, ReadsLeaveAnObject
<1>6. ASSUME NEW q \in Results, NEW how \in {"copy", "move"}, AssignNothing(r, q, how)
      PROVE  ~Hollow(p)'
  <2>1. value' = [value EXCEPT ![r] = Destroyed(value[r])]
    BY <1>6 DEF AssignNothing, IInv
  <2>2. step' = [step EXCEPT ![r] = step[q]] /\ made' = made /\ q \in made /\ ~value[q].engaged
    BY <1>6 DEF AssignNothing, AssignStep
  <2>3. step[q] # "success"  BY <2>2 DEF Hollow
  <2> QED  BY <2>1, <2>2, <2>3, OthersStay
<1>7. ASSUME NEW how \in {"copy", "move"}, AssignToItself(r, how)  PROVE ~Hollow(p)'
  <2>1. step' = step  BY <1>7 DEF AssignToItself, AssignStep, IInv
  <2> QED  BY <1>7, <2>1 DEF AssignToItself, AssignStep, Hollow
<1>8. ASSUME Take(r)  PROVE ~Hollow(p)'
  <2>1. value[r] \in Cell /\ value[r].engaged  BY <1>8 DEF Take, IInv
  <2>2. AfterMove(value[r]).engaged  BY <2>1, MovedCell
  <2>3. value' = [value EXCEPT ![r] = AfterMove(value[r])]  BY <1>8 DEF Take, IInv
  <2>4. step' = [step EXCEPT ![r] = step[r]] /\ made' = made  BY <1>8 DEF Take, IInv
  <2> QED  BY <2>2, <2>3, <2>4, OthersStay
<1>9. ASSUME EndLifetime(r)  PROVE ~Hollow(p)'
  <2>1. value' = [value EXCEPT ![r] = Destroyed(value[r])]  BY <1>9 DEF EndLifetime, IInv
  <2>2. step' = [step EXCEPT ![r] = step[r]] /\ made' = made \ {r}
    BY <1>9 DEF EndLifetime, IInv
  <2> QED  BY <2>1, <2>2, OthersStay
<1> QED  BY <1>1, <1>2, <1>3, <1>4, <1>5, <1>6, <1>7, <1>8, <1>9 DEF Call

-------------------------------------------------------------------------------
(* Theorems.                                                               *)

LEMMA SpecIInv == Spec => []IInv
<1>1. Init => IInv  BY InitIInv
<1>2. IInv /\ [Next]_vars => IInv'  BY NextIInv
<1> QED  BY <1>1, <1>2, PTL DEF Spec

(* Every variable of the model keeps its type.                             *)
THEOREM TypeCorrect == Spec => []TypeOK
<1>1. IInv => TypeOK  BY IInvParts
<1> QED  BY <1>1, SpecIInv, PTL

(* The flag of a result's storage says whether an object lives there,      *)
(* whatever constructor or assignment throws.                              *)
THEOREM FlagsStayTruthful == Spec => []FlagsAreTruthful
<1>1. IInv => FlagsAreTruthful  BY IInvParts
<1> QED  BY <1>1, SpecIInv, PTL

(* Only successes carry a payload.                                         *)
THEOREM PayloadsAreSuccesses == Spec => []OnlySuccessCarries
<1>1. IInv => OnlySuccessCarries  BY IInvParts
<1> QED  BY <1>1, SpecIInv, PTL

(* No call that is declared noexcept throws.                               *)
THEOREM NoexceptStaysKept == Spec => []NoexceptIsKept
<1>1. IInv => NoexceptIsKept  BY IInvParts
<1> QED  BY <1>1, SpecIInv, PTL

(* A success loses its payload, or a result becomes a success without one, *)
(* only in an assignment that throws or by reading such a result.          *)
THEOREM ReturningCallsHollowNone == Spec => OnlyThrowingHollows
<1>1. IInv /\ IInv' /\ Next => HollowsByThrowing
  <2> SUFFICES ASSUME IInv, IInv', Next, outcome' # "threw",
                      \A q \in Results : ~Hollow(q), NEW p \in Results
               PROVE  ~Hollow(p)'
    BY DEF HollowsByThrowing
  <2>1. outcome' = "returned"  BY DEF IInv
  <2>2. PICK r \in Results : Call(r)  BY DEF Next
  <2> QED  BY <2>1, <2>2, ReturningHollowsNone
<1>2. IInv /\ IInv' /\ [Next]_vars => [HollowsByThrowing]_vars  BY <1>1
<1> QED  BY <1>2, SpecIInv, PTL DEF Spec, OnlyThrowingHollows

===============================================================================
