--------------------------- MODULE TaskBindingProofs ---------------------------
(***************************************************************************)
(* Proofs about TaskBinding, for every set of bindings, callables of any   *)
(* number of parameters, and every budget of retries and runs.             *)
(***************************************************************************)
EXTENDS TaskBinding, FiniteSetTheorems, TLAPS

(* What a binding that gets to run has passed.                             *)
Accepted(b, p) ==
  BindingError(b) = "ok" /\ PlanAccepts(b, p) /\ Instantiates(b, p)

(* Only accepted bindings run; nothing is touched before.                  *)
PhaseInv ==
  /\ phase \in {"resolving", "returned", "done"} => Accepted(binding, parent)
  /\ phase \in {"binding", "rejected", "ill_formed"} =>
       /\ \A o \in Origins : condition[o] = "whole"
       /\ \A k \in Positions(binding) : Pending(k)

(* An argument is what its spec and its target say.                        *)
HeldInv ==
  \A k \in Positions(binding) : ~Pending(k) =>
    /\ held[k].origin = Origin(SpecAt(binding, k).access)
    /\ held[k].right = RightAt(binding, k)
    /\ held[k].seen # "moved"

(* While arguments are still resolved, a moved payload means that the only *)
(* argument made from it is there already.                                 *)
MovedInv ==
  phase = "resolving" /\ condition["prev"] = "moved" =>
    \A k \in PrevPositions(binding) : ~Pending(k)

(* What may have become of each origin.                                    *)
ConditionInv ==
  /\ StoredValuesSurvive
  /\ OnlyConsumersMove
  /\ SharedReadersLeavePrevAlone

Inv == TypeOK /\ PhaseInv /\ HeldInv /\ MovedInv /\ ConditionInv

-------------------------------------------------------------------------------
(* Facts about bindings.                                                   *)

LEMMA BindingFacts ==
  ASSUME NEW b \in BindingRecord
  PROVE  /\ IsFiniteSet(Positions(b))
         /\ \A k \in Positions(b) : SpecAt(b, k) \in SpecRecord
<1>1. b.specs \in Seq(SpecRecord) /\ b.receiver \in SpecRecord
  BY DEF BindingRecord
<1>2. DOMAIN b.specs = 1 .. Len(b.specs) /\ Len(b.specs) \in Nat
  BY <1>1
<1>3. IsFiniteSet(DOMAIN b.specs) /\ IsFiniteSet({0}) /\ IsFiniteSet({})
  <2>1. IsFiniteSet(1 .. Len(b.specs))
    BY <1>2, FS_Interval
  <2>. QED BY <1>2, <2>1, FS_Singleton, FS_EmptySet, Zenon
<1>4. IsFiniteSet(Positions(b))
  BY <1>3, FS_Union DEF Positions
<1>5. ASSUME NEW k \in Positions(b) PROVE SpecAt(b, k) \in SpecRecord
  BY <1>1, <1>2 DEF Positions, SpecAt
<1>. QED BY <1>4, <1>5

(* The positions the plan counts under the given accesses.                 *)
PositionsWith(b, accesses) ==
  {k \in PrevPositions(b) : SpecAt(b, k).access \in accesses}

LEMMA PrevCountIsOfPositions ==
  ASSUME NEW b \in BindingRecord, NEW accesses
  PROVE  /\ PrevCount(PlanTask(b), accesses) = Cardinality(PositionsWith(b, accesses))
         /\ IsFiniteSet(PositionsWith(b, accesses))
<1>1. PlanTask(b).specs = [k \in PrevPositions(b) |-> SpecAt(b, k).access]
  BY DEF PlanTask
<1>2. {k \in DOMAIN PlanTask(b).specs : PlanTask(b).specs[k] \in accesses}
        = PositionsWith(b, accesses)
  BY <1>1 DEF PositionsWith
<1>3. PositionsWith(b, accesses) \subseteq Positions(b)
  BY DEF PositionsWith, PrevPositions
<1>. QED BY <1>2, <1>3, BindingFacts, FS_Subset DEF PrevCount

(* An access is counted at whatever position it is made, the receiver's    *)
(* included.                                                               *)
LEMMA ExclusiveIsCounted ==
  ASSUME NEW b \in BindingRecord, NEW k \in Positions(b)
  PROVE  /\ SpecAt(b, k).access \in {"borrow_mut", "consume"} => UsesExclusivePrev(PlanTask(b))
         /\ SpecAt(b, k).access = "consume" => ConsumeOnly(PlanTask(b))
<1>1. ASSUME NEW accesses \in SUBSET PrevAccessKinds, SpecAt(b, k).access \in accesses
      PROVE  PrevCount(PlanTask(b), accesses) # 0
  <2>1. k \in PositionsWith(b, accesses)
    BY <1>1 DEF PositionsWith, PrevPositions, IsPrevAccess
  <2>. QED BY <2>1, PrevCountIsOfPositions, FS_EmptySet
<1>2. {"borrow_mut", "consume"} \subseteq PrevAccessKinds /\ {"consume"} \subseteq PrevAccessKinds
  BY DEF PrevAccessKinds
<1>. QED BY <1>1, <1>2 DEF UsesExclusivePrev, ExclusiveCount, ConsumeOnly

LEMMA ConsumersConsume ==
  ASSUME NEW b \in BindingRecord, ConsumeOnly(PlanTask(b))
  PROVE  \E k \in PrevPositions(b) : SpecAt(b, k).access = "consume"
<1>1. PositionsWith(b, {"consume"}) # {}
  BY PrevCountIsOfPositions, FS_EmptySet DEF ConsumeOnly
<1>. QED BY <1>1 DEF PositionsWith

(* What the plan accepts makes an exclusive access the only one, and never *)
(* retries a consumer.                                                     *)
LEMMA ExclusiveIsOnly ==
  ASSUME NEW b \in BindingRecord, TaskPrevAccessValid(PlanTask(b))
  PROVE  /\ \A j, k \in PrevPositions(b) :
              SpecAt(b, k).access \in {"borrow_mut", "consume"} => j = k
         /\ b.retried => ~ConsumeOnly(PlanTask(b))
<1>1. ASSUME NEW j \in PrevPositions(b), NEW k \in PrevPositions(b),
             SpecAt(b, k).access \in {"borrow_mut", "consume"}
      PROVE  j = k
  <2>1. k \in Positions(b)
    BY DEF PrevPositions
  <2>2. ExclusiveCount(PlanTask(b)) # 0
    BY <1>1, <2>1, ExclusiveIsCounted DEF UsesExclusivePrev
  <2>3. PrevCount(PlanTask(b), PrevAccessKinds) = 1
    BY <2>2 DEF TaskPrevAccessValid
  <2>4. Cardinality(PositionsWith(b, PrevAccessKinds)) = 1
    BY <2>3, PrevCountIsOfPositions
  <2>5. PICK x : PositionsWith(b, PrevAccessKinds) = {x}
    BY <2>4, PrevCountIsOfPositions, FS_Singleton
  <2>6. PositionsWith(b, PrevAccessKinds) = PrevPositions(b)
    BY DEF PositionsWith, PrevPositions, IsPrevAccess
  <2>. QED BY <2>5, <2>6
<1>2. PlanTask(b).retry = b.retried
  BY DEF PlanTask
<1>. QED BY <1>1, <1>2 DEF TaskPrevAccessValid, ConsumeOnly

(* What resolution lets an argument do to where it comes from.             *)
LEMMA ArgumentRights ==
  ASSUME NEW b \in BindingRecord, NEW p, Accepted(b, p), NEW k \in Positions(b)
  PROVE  LET access == SpecAt(b, k).access
             right  == RightAt(b, k)
         IN  /\ right \in Rights
             /\ Origin(access) \in Origins
             /\ right = "take" => access = "consume"
             /\ right = "write" /\ Origin(access) = "prev" => access = "borrow_mut"
             /\ Origin(access) = "stored" => right \in {"own", "read"}
             /\ Origin(access) = "prev" <=> k \in PrevPositions(b)
<1>. DEFINE access == SpecAt(b, k).access
<1>1. access \in SpecAccesses
  BY BindingFacts DEF SpecRecord
<1>2. TargetAt(b, k).mode \in TargetModes(access)
  BY DEF Accepted, Instantiates, Resolvable
<1>3. RightAt(b, k) = RightOf(TargetAt(b, k).mode)
  BY DEF RightAt
<1>4. k \in PrevPositions(b) <=> access \in PrevAccessKinds
  BY DEF PrevPositions, IsPrevAccess
<1>. HIDE DEF access
<1>5. /\ RightAt(b, k) \in Rights
      /\ RightAt(b, k) = "take" => access = "consume"
      /\ RightAt(b, k) = "write" => access \in {"from_ctx", "ref", "borrow_mut"}
      /\ access = "value" => RightAt(b, k) \in {"own", "read"}
  BY <1>1, <1>2, <1>3 DEF SpecAccesses, PrevAccessKinds, TargetModes, RightOf, Rights
<1>6. /\ Origin(access) \in Origins
      /\ Origin(access) = "prev" <=> access \in PrevAccessKinds
      /\ Origin(access) = "stored" <=> access = "value"
  BY <1>1 DEF SpecAccesses, PrevAccessKinds, Origin, Origins
<1>7. "from_ctx" \notin PrevAccessKinds /\ "ref" \notin PrevAccessKinds
  BY DEF PrevAccessKinds
<1>. QED BY <1>4, <1>5, <1>6, <1>7 DEF access

(* Forwarding never consumes, and promises the type its parent has.        *)
LEMMA ForwardingFacts ==
  ASSUME NEW b \in BindingRecord, NEW p, Accepted(b, p), b.api = "bind_forward_prev"
  PROVE  p = OutputType(b) /\ ~ConsumeOnly(PlanTask(b))
<1>1. b.member \in BOOLEAN
  BY DEF BindingRecord
<1>2. BindForwardPrevError(b) = "ok" \/ BindForwardPrevMemberError(b) = "ok"
  BY <1>1 DEF Accepted, BindingError
<1>3. ForwardedInputError(b) = "ok"
  BY <1>2 DEF BindForwardPrevError, BindForwardPrevMemberError
<1>4. ForwardBindingsSupported(b)
  BY <1>3 DEF ForwardedInputError
<1>5. \A k \in PrevPositions(b) : SpecAt(b, k).access = "borrow_mut"
  BY <1>4 DEF ForwardBindingsSupported, PrevPositions
<1>6. ~ConsumeOnly(PlanTask(b))
  BY <1>5, ConsumersConsume
<1>7. PlanTask(b).kind = "forward_prev"
  BY DEF PlanTask
<1>. QED BY <1>6, <1>7 DEF Accepted, PlanAccepts, IsForwardPrev

-------------------------------------------------------------------------------
(* Preservation of the invariant.                                          *)

LEMMA InvInit == Init => Inv
<1>. SUFFICES ASSUME Init PROVE Inv
  OBVIOUS
<1>1. /\ binding \in BindingRecord /\ parent \in Types \cup {"void"}
      /\ phase = "binding" /\ status = "none" /\ retries = 0 /\ runs = 1
      /\ condition = [o \in Origins |-> "whole"]
      /\ held = [k \in Positions(binding) |-> NotHeld]
  BY BindingsAssumption DEF Init, Unresolved
<1>2. TypeOK
  <2>1. condition \in [Origins -> Conditions]
    BY <1>1 DEF Conditions
  <2>2. retries \in 0 .. MaxRetries /\ runs \in 1 .. MaxRuns
    BY <1>1, LimitsAssumption
  <2>. QED BY <1>1, <2>1, <2>2 DEF TypeOK
<1>3. \A k \in Positions(binding) : Pending(k)
  BY <1>1 DEF Pending
<1>4. \A o \in Origins : condition[o] = "whole"
  BY <1>1
<1>5. PhaseInv /\ HeldInv /\ MovedInv
  BY <1>1, <1>3, <1>4 DEF PhaseInv, HeldInv, MovedInv
<1>6. ConditionInv
  <2>1. "stored" \in Origins /\ "prev" \in Origins
    BY DEF Origins
  <2>. QED BY <1>4, <2>1
       DEF ConditionInv, StoredValuesSurvive, OnlyConsumersMove, SharedReadersLeavePrevAlone
<1>. QED BY <1>2, <1>5, <1>6 DEF Inv

LEMMA BindKeepsInv == Inv /\ Bind => Inv'
<1>. SUFFICES ASSUME Inv, Bind PROVE Inv'
  OBVIOUS
<1>1. /\ phase = "binding"
      /\ UNCHANGED <<binding, parent, condition, held, status, retries, runs>>
      /\ phase' = IF BindingError(binding) # "ok" \/ ~PlanAccepts(binding, parent) THEN "rejected"
                  ELSE IF ~Instantiates(binding, parent) THEN "ill_formed"
                  ELSE "resolving"
  BY DEF Bind
<1>2. phase' \in {"rejected", "ill_formed", "resolving"}
  BY <1>1
<1>3. phase' = "resolving" => Accepted(binding, parent)
  BY <1>1 DEF Accepted
<1>4. \A o \in Origins : condition[o] = "whole"
  BY <1>1 DEF Inv, PhaseInv
<1>5. TypeOK'
  BY <1>1, <1>2 DEF Inv, TypeOK
<1>6. PhaseInv'
  BY <1>1, <1>2, <1>3, <1>4 DEF Inv, PhaseInv, Pending
<1>7. HeldInv' /\ ConditionInv'
  BY <1>1 DEF Inv, HeldInv, ConditionInv, StoredValuesSurvive, OnlyConsumersMove,
              SharedReadersLeavePrevAlone, Pending
<1>8. MovedInv'
  BY <1>1, <1>4 DEF MovedInv, Origins
<1>. QED BY <1>5, <1>6, <1>7, <1>8 DEF Inv

LEMMA ResolveAsKeepsInv ==
  ASSUME Inv, NEW k \in Positions(binding), ResolveAs(k)
  PROVE  Inv'
<1>. DEFINE access == SpecAt(binding, k).access
            right  == RightAt(binding, k)
            arg    == [origin |-> Origin(access), right |-> right, seen |-> condition[Origin(access)]]
<1>1. /\ phase = "resolving" /\ Pending(k)
      /\ UNCHANGED <<binding, parent, phase, status, retries, runs>>
      /\ held' = [held EXCEPT ![k] = arg]
      /\ condition' = IF access = "consume" /\ right = "own"
                        THEN [condition EXCEPT !["prev"] = "moved"]
                        ELSE condition
  BY DEF ResolveAs
<1>2. binding \in BindingRecord /\ Accepted(binding, parent)
  BY <1>1 DEF Inv, TypeOK, PhaseInv
<1>3. TaskPrevAccessValid(PlanTask(binding))
  BY <1>2 DEF Accepted, PlanAccepts
<1>4. /\ right \in Rights /\ Origin(access) \in Origins
      /\ Origin(access) = "prev" <=> k \in PrevPositions(binding)
  BY <1>2, ArgumentRights
<1>5. access = "consume" =>
        /\ k \in PrevPositions(binding)
        /\ ConsumeOnly(PlanTask(binding)) /\ UsesExclusivePrev(PlanTask(binding))
  BY <1>2, ExclusiveIsCounted DEF PrevPositions, IsPrevAccess, PrevAccessKinds
<1>6. held \in [Positions(binding) ->
                  [origin : Origins, right : Rights, seen : Conditions] \cup {NotHeld}]
      /\ condition \in [Origins -> Conditions]
  BY DEF Inv, TypeOK
<1>7. arg \in [origin : Origins, right : Rights, seen : Conditions]
  BY <1>4, <1>6
<1>8. arg # NotHeld
  BY <1>4 DEF NotHeld, Origins
<1>9. /\ arg.origin = Origin(access) /\ arg.right = right
      /\ arg.seen = condition[Origin(access)]
  OBVIOUS
<1>10. condition[Origin(access)] # "moved"
  <2>. SUFFICES ASSUME condition[Origin(access)] = "moved" PROVE FALSE
    OBVIOUS
  <2>1. Origin(access) = "prev"
    BY <1>4 DEF Inv, ConditionInv, OnlyConsumersMove
  <2>. QED BY <1>1, <1>4, <2>1 DEF Inv, MovedInv
<1>. HIDE DEF arg, right, access
<1>11. /\ \A j \in Positions(binding) : j # k => held'[j] = held[j]
       /\ held'[k] = arg
  BY <1>1, <1>6
<1>12. TypeOK'
  <2>1. held' \in [Positions(binding) ->
                  [origin : Origins, right : Rights, seen : Conditions] \cup {NotHeld}]
    BY <1>1, <1>6, <1>7
  <2>2. condition' \in [Origins -> Conditions]
    BY <1>1, <1>6 DEF Conditions
  <2>. QED BY <1>1, <2>1, <2>2 DEF Inv, TypeOK
<1>13. PhaseInv'
  BY <1>1, <1>2 DEF PhaseInv
<1>14. HeldInv'
  <2>. SUFFICES ASSUME NEW j \in Positions(binding), held'[j] # NotHeld
                PROVE  /\ held'[j].origin = Origin(SpecAt(binding, j).access)
                       /\ held'[j].right = RightAt(binding, j)
                       /\ held'[j].seen # "moved"
    BY <1>1 DEF HeldInv, Pending
  <2>1. CASE j = k
    BY <2>1, <1>9, <1>10, <1>11 DEF access, right
  <2>2. CASE j # k
    BY <2>2, <1>11 DEF Inv, HeldInv, Pending
  <2>. QED BY <2>1, <2>2
<1>15. MovedInv'
  <2>. SUFFICES ASSUME condition'["prev"] = "moved", NEW j \in PrevPositions(binding)
                PROVE  held'[j] # NotHeld
    BY <1>1 DEF MovedInv, Pending
  <2>1. j \in Positions(binding)
    BY DEF PrevPositions
  <2>2. CASE access = "consume" /\ right = "own"
    <3>1. j = k
      BY <2>2, <1>2, <1>3, <1>5, ExclusiveIsOnly DEF access
    <3>. QED BY <3>1, <1>8, <1>11
  <2>3. CASE ~(access = "consume" /\ right = "own")
    <3>1. held[j] # NotHeld
      BY <2>3, <1>1 DEF Inv, MovedInv, Pending
    <3>. QED BY <3>1, <2>1, <1>8, <1>11
  <2>. QED BY <2>2, <2>3
<1>16. ConditionInv'
  <2>1. CASE access = "consume" /\ right = "own"
    <3>1. \A o \in Origins : o # "prev" => condition'[o] = condition[o]
      BY <2>1, <1>1, <1>6
    <3>. QED BY <2>1, <3>1, <1>1, <1>5
         DEF Inv, ConditionInv, StoredValuesSurvive, OnlyConsumersMove,
             SharedReadersLeavePrevAlone, Origins
  <2>2. CASE ~(access = "consume" /\ right = "own")
    BY <2>2, <1>1
    DEF Inv, ConditionInv, StoredValuesSurvive, OnlyConsumersMove, SharedReadersLeavePrevAlone
  <2>. QED BY <2>1, <2>2
<1>. QED BY <1>12, <1>13, <1>14, <1>15, <1>16 DEF Inv

LEMMA InvokeBodyKeepsInv == Inv /\ InvokeBody => Inv'
<1>. SUFFICES ASSUME Inv, InvokeBody PROVE Inv'
  OBVIOUS
<1>1. /\ phase = "resolving" /\ phase' = "returned"
      /\ \A k \in Positions(binding) : ~Pending(k)
      /\ status' \in BodyStatuses(binding.callable)
      /\ UNCHANGED <<binding, parent, held, retries, runs>>
  BY DEF InvokeBody
<1>2. PICK used \in SUBSET {k \in Positions(binding) : held[k].right \in {"write", "take"}} :
        condition' = [o \in Origins |-> ConditionAfter(o, used)]
  BY DEF InvokeBody
<1>3. binding \in BindingRecord /\ Accepted(binding, parent)
  BY <1>1 DEF Inv, TypeOK, PhaseInv
<1>4. \A o \in Origins : condition[o] \in Conditions
  BY DEF Inv, TypeOK
<1>5. \A o \in Origins : condition'[o] = ConditionAfter(o, used)
  BY <1>2
<1>6. ASSUME NEW k \in used
      PROVE  /\ k \in Positions(binding)
             /\ held[k].origin = Origin(SpecAt(binding, k).access)
             /\ held[k].right = RightAt(binding, k)
  BY <1>1, <1>2 DEF Inv, HeldInv
<1>7. ASSUME NEW o \in Origins, condition'[o] # condition[o]
      PROVE  \E k \in used : /\ held[k].origin = o
                              /\ held[k].right = IF condition'[o] = "moved" THEN "take" ELSE "write"
  BY <1>4, <1>5, <1>7 DEF ConditionAfter, Conditions
<1>8. TypeOK'
  <2>1. \A o \in Origins : ConditionAfter(o, used) \in Conditions
    BY <1>4 DEF ConditionAfter, Conditions
  <2>2. condition' \in [Origins -> Conditions]
    BY <1>2, <2>1
  <2>3. status' \in {"none", "success", "failure", "retry"}
    BY <1>1 DEF BodyStatuses
  <2>. QED BY <1>1, <2>2, <2>3 DEF Inv, TypeOK
<1>9. PhaseInv' /\ HeldInv' /\ MovedInv'
  BY <1>1, <1>3 DEF Inv, PhaseInv, HeldInv, MovedInv, Pending
<1>10. ASSUME NEW o \in Origins, condition'[o] # condition[o]
       PROVE  /\ o # "stored"
              /\ condition'[o] = "moved" => o = "prev" /\ ConsumeOnly(PlanTask(binding))
              /\ o = "prev" => UsesExclusivePrev(PlanTask(binding))
  <2>1. PICK k \in used : /\ held[k].origin = o
                          /\ held[k].right = IF condition'[o] = "moved" THEN "take" ELSE "write"
    BY <1>7, <1>10
  <2>. DEFINE access == SpecAt(binding, k).access
  <2>2. /\ k \in Positions(binding) /\ Origin(access) = o
        /\ RightAt(binding, k) = IF condition'[o] = "moved" THEN "take" ELSE "write"
    BY <1>6, <2>1
  <2>3. /\ RightAt(binding, k) = "take" => access = "consume"
        /\ RightAt(binding, k) = "write" /\ Origin(access) = "prev" => access = "borrow_mut"
        /\ Origin(access) = "stored" => RightAt(binding, k) \in {"own", "read"}
    BY <1>3, <2>2, ArgumentRights
  <2>4. /\ access \in {"borrow_mut", "consume"} => UsesExclusivePrev(PlanTask(binding))
        /\ access = "consume" => ConsumeOnly(PlanTask(binding))
    BY <1>3, <2>2, ExclusiveIsCounted
  <2>5. Origin("consume") = "prev"
    BY DEF Origin, PrevAccessKinds
  <2>. HIDE DEF access
  <2>. QED BY <2>2, <2>3, <2>4, <2>5
<1>11. ConditionInv'
  <2>1. "stored" \in Origins /\ "prev" \in Origins
    BY DEF Origins
  <2>2. StoredValuesSurvive'
    BY <1>10, <2>1 DEF Inv, ConditionInv, StoredValuesSurvive
  <2>3. OnlyConsumersMove'
    BY <1>1, <1>10 DEF Inv, ConditionInv, OnlyConsumersMove
  <2>4. SharedReadersLeavePrevAlone'
    BY <1>1, <1>10, <2>1 DEF Inv, ConditionInv, SharedReadersLeavePrevAlone
  <2>. QED BY <2>2, <2>3, <2>4 DEF ConditionInv
<1>. QED BY <1>8, <1>9, <1>11 DEF Inv

LEMMA RetryKeepsInv == Inv /\ Retry => Inv'
<1>. SUFFICES ASSUME Inv, Retry PROVE Inv'
  OBVIOUS
<1>1. /\ phase = "returned" /\ phase' = "resolving" /\ binding.retried
      /\ retries < MaxRetries /\ retries' = retries + 1
      /\ held' = [k \in Positions(binding) |-> NotHeld]
      /\ UNCHANGED <<binding, parent, condition, status, runs>>
  BY DEF Retry, Unresolved
<1>2. binding \in BindingRecord /\ Accepted(binding, parent)
  BY <1>1 DEF Inv, TypeOK, PhaseInv
<1>3. TypeOK'
  <2>1. retries' \in 0 .. MaxRetries
    BY <1>1, LimitsAssumption DEF Inv, TypeOK
  <2>. QED BY <1>1, <2>1 DEF Inv, TypeOK
<1>4. PhaseInv' /\ HeldInv'
  BY <1>1, <1>2 DEF PhaseInv, HeldInv, Pending
<1>5. ConditionInv'
  BY <1>1 DEF Inv, ConditionInv, StoredValuesSurvive, OnlyConsumersMove, SharedReadersLeavePrevAlone
<1>6. MovedInv'
  <2>1. ~ConsumeOnly(PlanTask(binding))
    BY <1>1, <1>2, ExclusiveIsOnly DEF Accepted, PlanAccepts
  <2>2. condition["prev"] # "moved"
    BY <2>1 DEF Inv, ConditionInv, OnlyConsumersMove, Origins
  <2>. QED BY <1>1, <2>2 DEF MovedInv
<1>. QED BY <1>3, <1>4, <1>5, <1>6 DEF Inv

LEMMA FinishKeepsInv == Inv /\ Finish => Inv'
<1>. SUFFICES ASSUME Inv, Finish PROVE Inv'
  OBVIOUS
<1>1. /\ phase = "returned" /\ phase' = "done"
      /\ UNCHANGED <<binding, parent, condition, held, status, retries, runs>>
  BY DEF Finish
<1>. QED BY <1>1 DEF Inv, TypeOK, PhaseInv, HeldInv, MovedInv, ConditionInv, Pending,
         StoredValuesSurvive, OnlyConsumersMove, SharedReadersLeavePrevAlone

LEMMA RunAgainKeepsInv == Inv /\ RunAgain => Inv'
<1>. SUFFICES ASSUME Inv, RunAgain PROVE Inv'
  OBVIOUS
<1>1. /\ phase = "done" /\ phase' = "resolving" /\ runs < MaxRuns /\ runs' = runs + 1
      /\ condition' = [condition EXCEPT !["prev"] = "whole"] /\ retries' = 0
      /\ held' = [k \in Positions(binding) |-> NotHeld]
      /\ UNCHANGED <<binding, parent, status>>
  BY DEF RunAgain, Unresolved
<1>2. Accepted(binding, parent) /\ condition \in [Origins -> Conditions]
  BY <1>1 DEF Inv, TypeOK, PhaseInv
<1>3. condition'["prev"] = "whole" /\ \A o \in Origins : o # "prev" => condition'[o] = condition[o]
  BY <1>1, <1>2 DEF Origins
<1>4. TypeOK'
  <2>1. runs' \in 1 .. MaxRuns /\ retries' \in 0 .. MaxRetries
    BY <1>1, LimitsAssumption DEF Inv, TypeOK
  <2>2. condition' \in [Origins -> Conditions]
    BY <1>1, <1>2 DEF Conditions
  <2>. QED BY <1>1, <2>1, <2>2 DEF Inv, TypeOK
<1>5. PhaseInv' /\ HeldInv' /\ MovedInv'
  BY <1>1, <1>2, <1>3 DEF PhaseInv, HeldInv, MovedInv, Pending
<1>6. ConditionInv'
  BY <1>1, <1>3 DEF Inv, ConditionInv, StoredValuesSurvive, OnlyConsumersMove,
                    SharedReadersLeavePrevAlone, Origins
<1>. QED BY <1>4, <1>5, <1>6 DEF Inv

LEMMA InvStep == Inv /\ [Next]_vars => Inv'
<1>. SUFFICES ASSUME Inv, [Next]_vars PROVE Inv'
  OBVIOUS
<1>1. CASE Bind \/ InvokeBody \/ Retry \/ Finish \/ RunAgain
  BY <1>1, BindKeepsInv, InvokeBodyKeepsInv, RetryKeepsInv, FinishKeepsInv, RunAgainKeepsInv
<1>2. CASE \E k \in Positions(binding) : ResolveAs(k)
  BY <1>2, ResolveAsKeepsInv
<1>3. CASE UNCHANGED vars
  BY <1>3 DEF vars, Inv, TypeOK, PhaseInv, HeldInv, MovedInv, ConditionInv, Pending,
     StoredValuesSurvive, OnlyConsumersMove, SharedReadersLeavePrevAlone
<1>. QED BY <1>1, <1>2, <1>3 DEF Next, Over

LEMMA InvHolds == Spec => []Inv
<1>. QED BY InvInit, InvStep, PTL DEF Spec

-------------------------------------------------------------------------------
(* The results.                                                            *)

(* The variables keep their types, the retry budget included.              *)
THEOREM TypeCorrect == Spec => []TypeOK
<1>1. Inv => TypeOK
  BY DEF Inv
<1>. QED BY <1>1, InvHolds, PTL

(* However often a task is retried and its plan run again, no callable can *)
(* change or move a value stored in the task.                              *)
THEOREM StoredValuesStay == Spec => []StoredValuesSurvive
<1>1. Inv => StoredValuesSurvive
  BY DEF Inv, ConditionInv
<1>. QED BY <1>1, InvHolds, PTL

(* Nothing but the parent's payload is moved from, and only by tasks the   *)
(* plan counts as consumers.                                               *)
THEOREM OnlyCountedConsumersMove == Spec => []OnlyConsumersMove
<1>1. Inv => OnlyConsumersMove
  BY DEF Inv, ConditionInv
<1>. QED BY <1>1, InvHolds, PTL

(* The plan's count of exclusive accesses is sound: a task it lets share   *)
(* its parent's payload never changes that payload.                        *)
THEOREM SharedReadersAreHarmless == Spec => []SharedReadersLeavePrevAlone
<1>1. Inv => SharedReadersLeavePrevAlone
  BY DEF Inv, ConditionInv
<1>. QED BY <1>1, InvHolds, PTL

(* No argument is made from an object an earlier attempt, an earlier run   *)
(* or another argument of the same call has moved from.                    *)
THEOREM ArgumentsComeUnmoved == Spec => []ArgumentsAreUnmoved
<1>1. Inv => ArgumentsAreUnmoved
  BY DEF Inv, HeldInv, Pending, NotHeld, ArgumentsAreUnmoved
<1>. QED BY <1>1, InvHolds, PTL

(* An argument that changes or moves the parent's payload shares it with   *)
(* no other argument of the call.                                          *)
THEOREM ExclusiveArgumentsAreAlone == Spec => []ExclusiveArgumentIsAlone
<1>1. Inv => ExclusiveArgumentIsAlone
  <2>. SUFFICES ASSUME Inv, NEW j \in Positions(binding), NEW k \in Positions(binding),
                       held[j].origin = "prev", held[k].origin = "prev", j # k
                PROVE  held[j].right \in {"own", "read"} /\ SpecAt(binding, j).access # "consume"
    BY DEF ExclusiveArgumentIsAlone
  <2>. DEFINE access == SpecAt(binding, j).access
  <2>1. ~Pending(j) /\ ~Pending(k)
    BY DEF Pending, NotHeld
  <2>2. binding \in BindingRecord /\ Accepted(binding, parent)
    BY <2>1 DEF Inv, TypeOK, PhaseInv
  <2>3. /\ Origin(access) = "prev" /\ held[j].right = RightAt(binding, j)
        /\ Origin(SpecAt(binding, k).access) = "prev"
    BY <2>1 DEF Inv, HeldInv
  <2>4. j \in PrevPositions(binding) /\ k \in PrevPositions(binding)
    BY <2>2, <2>3, ArgumentRights
  <2>5. access \notin {"borrow_mut", "consume"}
    BY <2>2, <2>4, ExclusiveIsOnly DEF Accepted, PlanAccepts
  <2>6. /\ RightAt(binding, j) \in Rights
        /\ RightAt(binding, j) = "take" => access = "consume"
        /\ RightAt(binding, j) = "write" /\ Origin(access) = "prev" => access = "borrow_mut"
    BY <2>2, ArgumentRights
  <2>. HIDE DEF access
  <2>7. held[j].right \in {"own", "read"}
    BY <2>3, <2>5, <2>6 DEF Rights
  <2>. QED BY <2>5, <2>7 DEF access
<1>. QED BY <1>1, InvHolds, PTL

(* What a forwarding task passes on to its children is there and of the    *)
(* type it promised them.                                                  *)
THEOREM ForwardedPayloadIsKept == Spec => []ForwardedPayloadIsThere
<1>1. Inv => ForwardedPayloadIsThere
  <2>. SUFFICES ASSUME Inv, phase = "done", binding.api = "bind_forward_prev"
                PROVE  parent = OutputType(binding) /\ condition["prev"] # "moved"
    BY DEF ForwardedPayloadIsThere
  <2>1. binding \in BindingRecord /\ Accepted(binding, parent)
    BY DEF Inv, TypeOK, PhaseInv
  <2>2. parent = OutputType(binding) /\ ~ConsumeOnly(PlanTask(binding))
    BY <2>1, ForwardingFacts
  <2>. QED BY <2>2 DEF Inv, ConditionInv, OnlyConsumersMove, Origins
<1>. QED BY <1>1, InvHolds, PTL

===============================================================================
