-------------------------- MODULE TaskAdaptersProofs ---------------------------
(***************************************************************************)
(* Proofs about TaskAdapters, for every set of adapted tasks, every number *)
(* of adapters and every retry budget.                                     *)
(***************************************************************************)
EXTENDS TaskAdapters, WellFoundedInduction, TLAPS

(* Where control may be.                                                   *)
ControlInv ==
  /\ going = "in" => level \in 0 .. Depth(task)
  /\ going = "out" => level \in 1 .. Depth(task) + 1
  /\ going = "done" => level = Depth(task) + 1

(* What travels outwards fits the adapters it has passed.                  *)
StatusInv ==
  going = "out" =>
    /\ status = "threw" => ~Nothrow(task, level - 1)
    /\ status = "retry" => RetryLeaves(task, level - 1)
    /\ RawKind(task, level - 1) \in {"void", "value"} => status \in {"success", "threw"}

(* What the sink and the input hold.                                       *)
DataInv ==
  /\ EveryAttemptStartsFresh
  /\ moved => task.consumes
  /\ out = "payload" => task.body = "direct_out"
  /\ going = "out" => (out = "payload") = filled
  /\ SinkFollowsReport

PolicyWithin(k) == \E j \in 1 .. k : task.adapters[j].name = "catch_with_policy"

(* Whose an exception or a success on its way out is.                      *)
OriginInv ==
  going = "out" =>
    /\ status = "threw" => report = "threw"
    /\ status = "success" => report = "success" \/ (report = "threw" /\ PolicyWithin(level - 1))

Inv == TypeOK /\ ControlInv /\ StatusInv /\ DataInv /\ OriginInv /\ SettledReportIsFinal

-------------------------------------------------------------------------------
(* Facts about adapted tasks.                                              *)

LEMMA TaskFacts ==
  ASSUME NEW t \in Tasks
  PROVE  /\ t.body \in Kinds /\ t.nothrow \in BOOLEAN /\ t.consumes \in BOOLEAN
         /\ t.adapters \in Seq(Adapter)
         /\ Depth(t) \in Nat
         /\ \A k \in 1 .. Depth(t) :
              /\ t.adapters[k] \in Adapter
              /\ t.adapters[k].name \in RetryNames \cup CatchNames
              /\ t.adapters[k].max_retries \in 0 .. CountModulus - 1
<1>1. t \in TaskRecord
  BY TasksAssumption
<1>2. t.adapters \in Seq(Adapter)
  BY <1>1 DEF TaskRecord
<1>3. Depth(t) \in Nat /\ \A k \in 1 .. Depth(t) : t.adapters[k] \in Adapter
  BY <1>2 DEF Depth
<1>4. \A a \in Adapter : /\ a.name \in RetryNames \cup CatchNames
                         /\ a.max_retries \in 0 .. CountModulus - 1
  BY DEF Adapter
<1>. QED BY <1>1, <1>2, <1>3, <1>4 DEF TaskRecord

(* One adapter more can only make a task noexcept, never undo it.          *)
LEMMA OneLevelOut ==
  ASSUME NEW t \in Tasks, NEW k \in 1 .. Depth(t)
  PROVE  /\ CatchWithin(t, k) <=> (CatchWithin(t, k - 1) \/ IsCatch(t.adapters[k]))
         /\ ~CatchWithin(t, 0)
         /\ RetryLeaves(t, k - 1) /\ KeepsRetry(t, k) => RetryLeaves(t, k)
         /\ /\ t.adapters[k].name = "catch_with_policy"
            /\ t.body # "value" /\ ~Nothrow(t, k - 1)
            => RetryLeaves(t, k)
<1>1. Depth(t) \in Nat /\ k \in Nat /\ k - 1 \in Nat
  BY TaskFacts
<1>2. \A m : m \in 1 .. k <=> (m \in 1 .. k - 1 \/ m = k)
  BY <1>1
<1>3. CatchWithin(t, k) <=> (CatchWithin(t, k - 1) \/ IsCatch(t.adapters[k]))
  BY <1>2 DEF CatchWithin
<1>4. ~CatchWithin(t, 0)
  BY DEF CatchWithin
<1>5. RetryLeaves(t, k - 1) /\ KeepsRetry(t, k) => RetryLeaves(t, k)
  <2>1. \A j \in 1 .. k - 1 : j \in 1 .. k
    BY <1>2
  <2>2. \A j \in 1 .. k - 1 : \A m : m \in j + 1 .. k => m \in j + 1 .. k - 1 \/ m = k
    BY <1>1
  <2>. QED BY <1>2, <2>1, <2>2 DEF RetryLeaves
<1>6. /\ t.adapters[k].name = "catch_with_policy"
      /\ t.body # "value" /\ ~Nothrow(t, k - 1)
      => RetryLeaves(t, k)
  <2>1. k + 1 .. k = {}
    BY <1>1
  <2>. QED BY <2>1, <1>2 DEF RetryLeaves
<1>. QED BY <1>3, <1>4, <1>5, <1>6

-------------------------------------------------------------------------------
(* Induction.  The library's induction theorems take a predicate as a      *)
(* parameter, which the provers cannot instantiate: this is an argument by *)
(* least counterexample.                                                   *)

Less == {pair \in Nat \X Nat : pair[1] < pair[2]}

(* Complete induction on an initial segment of the natural numbers.        *)
LEMMA UpTo ==
  ASSUME NEW m \in Nat, NEW S,
         \A k \in 0 .. m : (\A j \in 0 .. k - 1 : j \in S) => k \in S
  PROVE  \A k \in 0 .. m : k \in S
<1>. DEFINE T == {k \in 0 .. m : k \notin S}
<1>. SUFFICES ASSUME T # {} PROVE FALSE
  OBVIOUS
<1>1. IsWellFoundedOn(Less, Nat)
  <2>1. OpToRel(<, Nat) = Less
    BY Zenon DEF OpToRel, Less
  <2>. QED BY <2>1, NatLessThanWellFounded, Zenon
<1>2. PICK k \in T : \A j \in T : <<j, k>> \notin Less
  <2>1. T \in SUBSET Nat
    OBVIOUS
  <2>. QED BY <1>1, <2>1, WFMin
<1>3. ASSUME NEW j \in 0 .. k - 1, j \notin S PROVE FALSE
  <2>1. j \in T /\ j \in Nat /\ k \in Nat /\ j < k
    BY <1>3
  <2>. QED BY <1>2, <2>1 DEF Less
<1>. QED BY <1>2, <1>3

-------------------------------------------------------------------------------
(* Budgets.                                                                *)

(* The adapters that may send a task in again.                             *)
Multiplies(t, k) == IsRetry(t.adapters[k]) /\ RetryLeaves(t, k - 1)

Forever(t, k) == t.adapters[k].name = "retry_forever"

(* No adapter that may send the task in again does so without a bound.     *)
Limited(t) == \A k \in 1 .. Depth(t) : Multiplies(t, k) => ~Forever(t, k)

(* b[k] bounds how often one call of the innermost k adapters runs the     *)
(* body.                                                                   *)
IsBudget(t, b) ==
  /\ b \in [0 .. Depth(t) -> Nat]
  /\ b[0] = 1
  /\ \A k \in 1 .. Depth(t) :
       b[k] = IF Multiplies(t, k)
                THEN IF Forever(t, k)
                       THEN AttemptCap
                       ELSE b[k - 1] * (t.adapters[k].max_retries + 1)
                ELSE b[k - 1]

Budgets(t) == CHOOSE b : IsBudget(t, b) /\ Budget(t) = b[Depth(t)]

(* A function of the numbers up to d is given by its steps.                *)
LEMMA Recursion ==
  ASSUME NEW d \in Nat, NEW step \in [1 .. d -> [Nat -> Nat]]
  PROVE  \E f \in [0 .. d -> Nat] : f[0] = 1 /\ \A k \in 1 .. d : f[k] = step[k][f[k - 1]]
<1>. DEFINE S == {m \in 0 .. d : \E f \in [0 .. m -> Nat] :
                    f[0] = 1 /\ \A k \in 1 .. m : f[k] = step[k][f[k - 1]]}
<1>1. ASSUME NEW m \in 0 .. d, \A j \in 0 .. m - 1 : j \in S
      PROVE  m \in S
  <2>1. CASE m = 0
    <3>. DEFINE f == [k \in 0 .. 0 |-> 1]
    <3>1. f \in [0 .. 0 -> Nat] /\ f[0] = 1 /\ 1 .. 0 = {}
      OBVIOUS
    <3>. QED BY <2>1, <3>1
  <2>2. CASE m # 0
    <3>1. m - 1 \in 0 .. m - 1 /\ m \in 1 .. d
      BY <2>2
    <3>2. PICK f \in [0 .. m - 1 -> Nat] :
            f[0] = 1 /\ \A k \in 1 .. m - 1 : f[k] = step[k][f[k - 1]]
      BY <1>1, <3>1
    <3>. DEFINE top == step[m][f[m - 1]]
               g   == [k \in 0 .. m |-> IF k = m THEN top ELSE f[k]]
    <3>3. top \in Nat
      BY <3>1, <3>2
    <3>. HIDE DEF top
    <3>4. g \in [0 .. m -> Nat] /\ g[0] = 1 /\ g[m] = top /\ \A k \in 0 .. m - 1 : g[k] = f[k]
      <4>1. \A k \in 0 .. m : k # m => k \in 0 .. m - 1
        BY <3>1
      <4>2. m \in 0 .. m /\ 0 \in 0 .. m /\ 0 # m /\ \A k \in 0 .. m - 1 : k \in 0 .. m /\ k # m
        BY <2>2
      <4>. QED BY <3>2, <3>3, <4>1, <4>2
    <3>5. ASSUME NEW k \in 1 .. m PROVE g[k] = step[k][g[k - 1]]
      <4>1. g[k - 1] = f[k - 1]
        BY <3>4
      <4>2. CASE k = m
        BY <3>4, <4>1, <4>2 DEF top
      <4>3. CASE k # m
        <5>1. k \in 1 .. m - 1 /\ k \in 0 .. m - 1
          BY <4>3
        <5>2. g[k] = f[k] /\ f[k] = step[k][f[k - 1]]
          BY <3>2, <3>4, <5>1
        <5>. QED BY <4>1, <5>2
      <4>. QED BY <4>2, <4>3
    <3>. HIDE DEF g
    <3>. QED BY <3>4, <3>5
  <2>. QED BY <2>1, <2>2
<1>2. \A m \in 0 .. d : m \in S
  <2>. HIDE DEF S
  <2>. QED BY <1>1, UpTo
<1>3. d \in S
  <2>. HIDE DEF S
  <2>. QED BY <1>2
<1>. QED BY <1>3

(* Every task has a budget, which is the one the invariant compares with.  *)
LEMMA BudgetsOfTasks ==
  ASSUME NEW t \in Tasks
  PROVE  IsBudget(t, Budgets(t)) /\ Budget(t) = Budgets(t)[Depth(t)]
<1>. DEFINE grow(k, v) == IF Multiplies(t, k)
                            THEN IF Forever(t, k)
                                   THEN AttemptCap
                                   ELSE v * (t.adapters[k].max_retries + 1)
                            ELSE v
           Def(budget) == [k \in 0 .. Depth(t) |-> IF k = 0 THEN 1 ELSE grow(k, budget[k - 1])]
           unique == CHOOSE budget : budget = Def(budget)
<1>1. Depth(t) \in Nat /\ AttemptCap \in Nat
  BY TaskFacts, BoundsAssumption
<1>2. \A k \in 1 .. Depth(t) : \A v \in Nat : grow(k, v) \in Nat
  BY <1>1, TaskFacts, BoundsAssumption
<1>3. Budget(t) = unique[Depth(t)]
  BY DEF Budget, Multiplies, Forever
<1>. HIDE DEF grow
<1>4. \E f : f = Def(f)
  <2>. DEFINE step == [k \in 1 .. Depth(t) |-> [v \in Nat |-> grow(k, v)]]
  <2>1. step \in [1 .. Depth(t) -> [Nat -> Nat]]
    BY <1>2
  <2>2. PICK f \in [0 .. Depth(t) -> Nat] :
          f[0] = 1 /\ \A k \in 1 .. Depth(t) : f[k] = step[k][f[k - 1]]
    <3>. HIDE DEF step
    <3>. QED BY <1>1, <2>1, Recursion
  <2>3. ASSUME NEW k \in 1 .. Depth(t) PROVE f[k] = grow(k, f[k - 1])
    <3>1. k - 1 \in 0 .. Depth(t)
      BY <1>1
    <3>2. f[k - 1] \in Nat
      BY <2>2, <3>1
    <3>. QED BY <2>2, <3>2
  <2>4. \A k \in 0 .. Depth(t) : f[k] = IF k = 0 THEN 1 ELSE grow(k, f[k - 1])
    BY <2>2, <2>3
  <2>. QED BY <2>4
<1>5. unique = Def(unique)
  BY <1>4
<1>. HIDE DEF unique
<1>6. /\ DOMAIN unique = 0 .. Depth(t)
      /\ unique[0] = 1
      /\ \A k \in 1 .. Depth(t) : unique[k] = grow(k, unique[k - 1])
  BY <1>1, <1>5
<1>7. \A k \in 0 .. Depth(t) : unique[k] \in Nat
  <2>. DEFINE S == {k \in 0 .. Depth(t) : unique[k] \in Nat}
  <2>1. ASSUME NEW k \in 0 .. Depth(t), \A j \in 0 .. k - 1 : j \in S
        PROVE  k \in S
    <3>1. CASE k = 0
      BY <1>6, <3>1
    <3>2. CASE k # 0
      <4>1. k \in 1 .. Depth(t) /\ k - 1 \in 0 .. k - 1
        BY <3>2
      <4>2. unique[k - 1] \in Nat
        BY <2>1, <4>1
      <4>. QED BY <1>2, <1>6, <4>1, <4>2
    <3>. QED BY <3>1, <3>2
  <2>2. \A k \in 0 .. Depth(t) : k \in S
    <3>. HIDE DEF S
    <3>. QED BY <1>1, <2>1, UpTo
  <2>. QED BY <2>2
<1>8. IsBudget(t, unique)
  <2>1. unique \in [0 .. Depth(t) -> Nat]
    BY <1>5, <1>7
  <2>. QED BY <1>6, <2>1 DEF IsBudget, grow
<1>. QED BY <1>3, <1>8 DEF Budgets

-------------------------------------------------------------------------------
(* Preservation of the invariant.                                          *)

LEMMA InvInit == Init => Inv
<1>. SUFFICES ASSUME Init PROVE Inv
  OBVIOUS
<1>1. task \in Tasks /\ Executable(task)
  BY DEF Init
<1>2. Depth(task) \in Nat
  BY <1>1, TaskFacts
<1>3. TypeOK
  <2>1. retry_counts \in [1 .. Depth(task) -> 0 .. CountModulus - 1]
    BY BoundsAssumption DEF Init
  <2>2. attempts \in 0 .. AttemptCap /\ level \in 0 .. Depth(task) + 1
    BY <1>2, BoundsAssumption DEF Init
  <2>. QED BY <1>1, <2>1, <2>2 DEF Init, TypeOK
<1>. QED BY <1>2, <1>3
  DEF Init, Inv, ControlInv, StatusInv, DataInv, OriginInv, EveryAttemptStartsFresh,
      SinkFollowsReport, SettledReportIsFinal

LEMMA CallKeepsInv == Inv /\ Call => Inv'
<1>. SUFFICES ASSUME Inv, Call PROVE Inv'
  OBVIOUS
<1>1. task \in Tasks /\ Depth(task) \in Nat
  BY TaskFacts DEF Inv, TypeOK
<1>2. level \in 1 .. Depth(task) /\ going = "in" /\ going' = "in" /\ level' = level - 1
  BY DEF Call, AtAdapter
<1>3. /\ task' = task /\ status' = status /\ out' = out /\ moved' = moved
      /\ attempts' = attempts /\ report' = report /\ filled' = filled
  BY DEF Call
<1>4. retry_counts' \in [1 .. Depth(task) -> 0 .. CountModulus - 1]
  BY <1>2, BoundsAssumption DEF Call, Inv, TypeOK
<1>5. TypeOK'
  BY <1>1, <1>2, <1>3, <1>4 DEF Inv, TypeOK, Executable, Depth
<1>6. ControlInv' /\ StatusInv' /\ DataInv' /\ OriginInv' /\ SettledReportIsFinal'
  BY <1>1, <1>2, <1>3
  DEF Inv, ControlInv, StatusInv, DataInv, OriginInv, EveryAttemptStartsFresh,
      SinkFollowsReport, SettledReportIsFinal, Depth
<1>. QED BY <1>5, <1>6 DEF Inv

LEMMA RunBodyKeepsInv == Inv /\ RunBody => Inv'
<1>. SUFFICES ASSUME Inv, RunBody PROVE Inv'
  OBVIOUS
<1>1. task \in Tasks /\ Depth(task) \in Nat /\ task.body \in Kinds
  BY TaskFacts DEF Inv, TypeOK
<1>2. PICK s \in BodyReports(task), emplaces \in BOOLEAN, takes \in BOOLEAN :
        /\ emplaces => task.body = "direct_out"
        /\ ReturnOut(s)
        /\ report' = s
        /\ out' = IF emplaces THEN EmplaceOut ELSE out
        /\ filled' = emplaces
        /\ moved' = (moved \/ (takes /\ task.consumes))
  BY DEF RunBody
<1>3. /\ going = "in" /\ level = 0 /\ level' = 1 /\ going' = "out" /\ status' = s
      /\ task' = task /\ retry_counts' = retry_counts
  BY <1>2 DEF RunBody, ReturnOut
<1>4. out = "empty" /\ out' \in {"empty", "payload"} /\ (out' = "payload") = emplaces
  BY <1>2, <1>3 DEF Inv, DataInv, EveryAttemptStartsFresh, EmplaceOut
<1>5. s \in Statuses \cup {"threw"}
  BY DEF BodyReports, Statuses
<1>6. attempts' \in 0 .. AttemptCap
  BY BoundsAssumption DEF RunBody, Inv, TypeOK
<1>7. moved' \in BOOLEAN /\ (moved' => task.consumes)
  BY <1>2 DEF Inv, TypeOK, DataInv
<1>8. TypeOK'
  BY <1>1, <1>2, <1>3, <1>4, <1>5, <1>6, <1>7 DEF Inv, TypeOK, Executable, Depth, Statuses
<1>9. StatusInv'
  <2>1. s = "threw" => ~task.nothrow
    BY DEF BodyReports, Statuses
  <2>2. ~CatchWithin(task, 0)
    BY DEF CatchWithin
  <2>3. s = "retry" => RetryLeaves(task, 0)
    <3>1. s = "retry" => RetryStatusCapable(task.body)
      BY <1>1 DEF BodyReports, RetryStatusCapable, Kinds
    <3>. QED BY <3>1 DEF RetryLeaves
  <2>4. RawKind(task, 0) = task.body
    BY <2>2 DEF RawKind
  <2>5. task.body \in {"void", "value"} => s \in {"success", "threw"}
    BY DEF BodyReports
  <2>6. level' - 1 = 0
    BY <1>3
  <2>. QED BY <1>3, <2>1, <2>2, <2>3, <2>4, <2>5, <2>6 DEF StatusInv, Nothrow
<1>10. ControlInv'
  BY <1>1, <1>3 DEF ControlInv
<1>11. DataInv'
  BY <1>2, <1>3, <1>4, <1>7 DEF DataInv, EveryAttemptStartsFresh, SinkFollowsReport
<1>12. SettledReportIsFinal'
  BY <1>2, <1>3 DEF SettledReportIsFinal
<1>13. OriginInv'
  BY <1>2, <1>3 DEF OriginInv
<1>. QED BY <1>8, <1>9, <1>10, <1>11, <1>12, <1>13 DEF Inv

LEMMA RetryAgainKeepsInv == Inv /\ RetryAgain => Inv'
<1>. SUFFICES ASSUME Inv, RetryAgain PROVE Inv'
  OBVIOUS
<1>1. task \in Tasks /\ Depth(task) \in Nat /\ Executable(task)
  BY TaskFacts DEF Inv, TypeOK
<1>2. /\ level \in 1 .. Depth(task) /\ going = "out" /\ going' = "in" /\ level' = level - 1
      /\ status = "retry" /\ status' = "none" /\ IsRetry(here)
  BY DEF RetryAgain, RetryRequested, AtAdapter, RetryActs, RequestsRetry
<1>3. /\ task' = task /\ moved' = moved /\ attempts' = attempts
      /\ report' = report /\ filled' = filled
  BY DEF RetryAgain
<1>4. retry_counts' \in [1 .. Depth(task) -> 0 .. CountModulus - 1]
  <2>1. retry_counts[level] \in 0 .. CountModulus - 1
    BY <1>2 DEF Inv, TypeOK
  <2>2. (retry_counts[level] + 1) % CountModulus \in 0 .. CountModulus - 1
    BY <2>1, BoundsAssumption
  <2>. QED BY <1>2, <2>2 DEF RetryAgain, Inv, TypeOK
<1>5. out' = "empty"
  BY DEF RetryAgain, Inv, TypeOK, DataInv, EveryAttemptStartsFresh
<1>6. ~moved
  BY <1>1, <1>2 DEF Executable, RetryKeepsPrevAccess, here, Inv, DataInv
<1>7. TypeOK'
  BY <1>1, <1>2, <1>3, <1>4, <1>5 DEF Inv, TypeOK, Executable, Depth
<1>8. ControlInv' /\ StatusInv' /\ OriginInv'
  BY <1>1, <1>2, <1>3 DEF ControlInv, StatusInv, OriginInv
<1>9. DataInv'
  BY <1>2, <1>3, <1>5, <1>6 DEF DataInv, EveryAttemptStartsFresh, SinkFollowsReport
<1>10. SettledReportIsFinal'
  BY <1>2, <1>3 DEF Inv, SettledReportIsFinal
<1>. QED BY <1>7, <1>8, <1>9, <1>10 DEF Inv

(* Handing a status from one adapter out to the next keeps the invariant   *)
(* if the status fits.                                                     *)
LEMMA ReturnOutKeepsInv ==
  ASSUME Inv, AtAdapter("out"), NEW s \in Statuses \cup {"threw"}, ReturnOut(s),
         UNCHANGED <<task, retry_counts, out, moved, attempts, report, filled>>,
         s = "threw" => ~Nothrow(task, level) /\ report = "threw",
         s = "retry" => RetryLeaves(task, level),
         RawKind(task, level) \in {"void", "value"} => s \in {"success", "threw"},
         s = "success" => report = "success" \/ (report = "threw" /\ PolicyWithin(level)),
         report \notin {"retry", "threw"} => s = report
  PROVE  Inv'
<1>1. task \in Tasks /\ Depth(task) \in Nat
  BY TaskFacts DEF Inv, TypeOK
<1>2. /\ level \in 1 .. Depth(task) /\ going = "out"
      /\ level' = level + 1 /\ going' = "out" /\ status' = s /\ task' = task
      /\ level' - 1 = level
  BY <1>1 DEF AtAdapter, ReturnOut
<1>3. TypeOK'
  BY <1>1, <1>2 DEF Inv, TypeOK, Executable, Depth, Statuses
<1>4. ControlInv'
  BY <1>1, <1>2 DEF ControlInv
<1>5. StatusInv'
  BY <1>2 DEF StatusInv
<1>6. DataInv'
  BY <1>2 DEF Inv, DataInv, EveryAttemptStartsFresh, SinkFollowsReport
<1>7. SettledReportIsFinal'
  BY <1>2 DEF SettledReportIsFinal
<1>8. OriginInv'
  BY <1>2 DEF OriginInv, PolicyWithin
<1>. QED BY <1>3, <1>4, <1>5, <1>6, <1>7, <1>8 DEF Inv

LEMMA HandleRetryExhaustedKeepsInv == Inv /\ HandleRetryExhausted => Inv'
<1>. SUFFICES ASSUME Inv, HandleRetryExhausted PROVE Inv'
  OBVIOUS
<1>. DEFINE s == OnExhausted(here, status)
<1>1. task \in Tasks /\ Depth(task) \in Nat
  BY TaskFacts DEF Inv, TypeOK
<1>2. /\ AtAdapter("out") /\ level \in 1 .. Depth(task) /\ going = "out"
      /\ status = "retry" /\ RetryActs
  BY DEF HandleRetryExhausted, RetryRequested, AtAdapter, RequestsRetry
<1>3. here.name # "retry_forever"
  BY DEF HandleRetryExhausted, ShouldRetry
<1>4. \/ here.name = "retry_fixed" /\ s = "failure"
      \/ here.name = "retry_fixed_passthrough" /\ s = "retry"
  BY <1>2, <1>3 DEF OnExhausted, RetryActs, IsRetry, RetryNames
<1>5. s = "retry" => RetryLeaves(task, level)
  <2>1. RetryLeaves(task, level - 1)
    BY <1>2 DEF Inv, StatusInv
  <2>2. s = "retry" => KeepsRetry(task, level)
    BY <1>4 DEF KeepsRetry, here
  <2>. QED BY <1>1, <1>2, <2>1, <2>2, OneLevelOut
<1>6. RawKind(task, level) \notin {"void", "value"}
  <2>1. CatchWithin(task, level - 1) => CatchWithin(task, level)
    BY <1>1, <1>2, OneLevelOut
  <2>. QED BY <1>2, <2>1 DEF RetryActs, RetryStatusCapable, RawKind
<1>7. report \in {"retry", "threw"}
  BY <1>2 DEF Inv, SettledReportIsFinal
<1>8. s \in Statuses /\ s # "threw" /\ s # "success"
  BY <1>4 DEF Statuses
<1>9. ReturnOut(s) /\ UNCHANGED <<task, retry_counts, out, moved, attempts, report, filled>>
  BY DEF HandleRetryExhausted
<1>. HIDE DEF s
<1>. QED BY <1>2, <1>5, <1>6, <1>7, <1>8, <1>9, ReturnOutKeepsInv

LEMMA CatchExceptionKeepsInv == Inv /\ CatchException => Inv'
<1>. SUFFICES ASSUME Inv, CatchException PROVE Inv'
  OBVIOUS
<1>1. task \in Tasks /\ Depth(task) \in Nat /\ task.body \in Kinds /\ Executable(task)
  BY TaskFacts DEF Inv, TypeOK
<1>2. /\ AtAdapter("out") /\ level \in 1 .. Depth(task) /\ going = "out"
      /\ status = "threw" /\ IsCatch(here)
  BY DEF CatchException, Caught, AtAdapter
<1>3. UNCHANGED <<task, retry_counts, out, moved, attempts, report, filled>>
  BY DEF CatchException
<1>4. report = "threw"
  BY <1>2 DEF Inv, OriginInv
<1>5. ~Nothrow(task, level - 1)
  BY <1>2 DEF Inv, StatusInv
<1>6. CatchWithin(task, level)
  BY <1>1, <1>2, OneLevelOut DEF here
<1>7. RawKind(task, level) # "void" /\ (task.body = "value" <=> RawKind(task, level) = "value")
  BY <1>6 DEF RawKind
<1>8. CASE here.name = "catch_as_failure" /\ ReturnOut("failure")
  <2>1. RawKind(task, level) \notin {"void", "value"}
    BY <1>1, <1>2, <1>7, <1>8 DEF Executable, DefaultCatchSupported, RawKind, here
  <2>. QED BY <1>2, <1>3, <1>4, <1>8, <2>1, ReturnOutKeepsInv DEF Statuses
<1>9. CASE here.name = "catch_with_policy" /\ \E s \in PolicyStatuses : ReturnOut(s)
  <2>1. PICK s \in PolicyStatuses : ReturnOut(s)
    BY <1>9
  <2>2. s \in Statuses /\ s # "threw"
    BY DEF PolicyStatuses, Statuses
  <2>3. PolicyWithin(level)
    BY <1>1, <1>2, <1>9 DEF PolicyWithin, here
  <2>4. task.body = "value" => s = "success"
    BY DEF PolicyStatuses
  <2>5. s = "retry" => RetryLeaves(task, level)
    BY <1>1, <1>2, <1>5, <1>9, <2>4, OneLevelOut DEF here
  <2>. QED BY <1>2, <1>3, <1>4, <1>7, <2>1, <2>2, <2>3, <2>4, <2>5, ReturnOutKeepsInv
<1>. QED BY <1>8, <1>9 DEF CatchException

LEMMA PassOnKeepsInv == Inv /\ PassOn => Inv'
<1>. SUFFICES ASSUME Inv, PassOn PROVE Inv'
  OBVIOUS
<1>1. task \in Tasks /\ Depth(task) \in Nat /\ task.body \in Kinds
  BY TaskFacts DEF Inv, TypeOK
<1>2. /\ AtAdapter("out") /\ level \in 1 .. Depth(task) /\ going = "out"
      /\ ~RetryRequested /\ ~Caught /\ ReturnOut(status)
      /\ UNCHANGED <<task, retry_counts, out, moved, attempts, report, filled>>
  BY DEF PassOn, AtAdapter
<1>3. status \in Statuses \cup {"threw"}
  BY <1>2 DEF Inv, TypeOK
<1>4. /\ status = "threw" => ~Nothrow(task, level - 1)
      /\ status = "retry" => RetryLeaves(task, level - 1)
      /\ RawKind(task, level - 1) \in {"void", "value"} => status \in {"success", "threw"}
  BY <1>2 DEF Inv, StatusInv
<1>5. status = "threw" => ~Nothrow(task, level) /\ report = "threw"
  <2>1. status = "threw" => ~IsCatch(here)
    BY <1>2 DEF Caught
  <2>2. status = "threw" => report = "threw"
    BY <1>2 DEF Inv, OriginInv
  <2>. QED BY <1>1, <1>2, <1>4, <2>1, <2>2, OneLevelOut DEF Nothrow, here
<1>6. status = "retry" => RetryLeaves(task, level)
  <2>. SUFFICES ASSUME status = "retry" PROVE RetryLeaves(task, level)
    OBVIOUS
  <2>1. RawKind(task, level - 1) \notin {"void", "value"}
    BY <1>4
  <2>2. RetryStatusCapable(RawKind(task, level - 1))
    BY <1>1, <2>1 DEF RawKind, RetryStatusCapable, Kinds
  <2>3. ~IsRetry(here)
    BY <1>2, <2>2 DEF RetryRequested, RetryActs, RequestsRetry
  <2>4. KeepsRetry(task, level)
    BY <2>3 DEF KeepsRetry, IsRetry, RetryNames, here
  <2>. QED BY <1>1, <1>2, <1>4, <2>4, OneLevelOut
<1>7. RawKind(task, level) \in {"void", "value"} => status \in {"success", "threw"}
  <2>1. CatchWithin(task, level - 1) => CatchWithin(task, level)
    BY <1>1, <1>2, OneLevelOut
  <2>. QED BY <1>4, <2>1 DEF RawKind
<1>8. status = "success" =>
        report = "success" \/ (report = "threw" /\ PolicyWithin(level))
  BY <1>1, <1>2 DEF Inv, OriginInv, PolicyWithin
<1>9. report \notin {"retry", "threw"} => status = report
  BY <1>2 DEF Inv, SettledReportIsFinal
<1>. QED BY <1>2, <1>3, <1>5, <1>6, <1>7, <1>8, <1>9, ReturnOutKeepsInv

LEMMA FinalizeKeepsInv == Inv /\ Finalize => Inv'
<1>. SUFFICES ASSUME Inv, Finalize PROVE Inv'
  OBVIOUS
<1>1. /\ going = "out" /\ level = Depth(task) + 1 /\ going' = "done"
      /\ out' = IF status # "success" /\ out = "payload" THEN "empty" ELSE out
      /\ UNCHANGED <<task, level, retry_counts, status, moved, attempts, report, filled>>
  BY DEF Finalize
<1>2. TypeOK'
  BY <1>1 DEF Inv, TypeOK, Executable, Depth
<1>3. DataInv'
  <2>1. SinkFollowsReport'
    <3>1. Depth(task) \in Nat /\ level - 1 = Depth(task)
      BY <1>1, TaskFacts DEF Inv, TypeOK
    <3>2. status = "success" => report = "success" \/ (report = "threw" /\ PolicyAnswers)
      BY <1>1, <3>1 DEF Inv, OriginInv, PolicyWithin, PolicyAnswers
    <3>3. (out' = "payload") = (status = "success" /\ filled)
      BY <1>1 DEF Inv, TypeOK, DataInv
    <3>. QED BY <1>1, <3>2, <3>3 DEF SinkFollowsReport, PolicyAnswers, Depth
  <2>. QED BY <1>1, <2>1 DEF Inv, TypeOK, DataInv, EveryAttemptStartsFresh
<1>4. ControlInv' /\ StatusInv' /\ OriginInv' /\ SettledReportIsFinal'
  BY <1>1 DEF Inv, ControlInv, StatusInv, OriginInv, SettledReportIsFinal, Depth
<1>. QED BY <1>2, <1>3, <1>4 DEF Inv

LEMMA InvStep == Inv /\ [Next]_vars => Inv'
<1>. SUFFICES ASSUME Inv, [Next]_vars PROVE Inv'
  OBVIOUS
<1>1. CASE Step
  BY <1>1, CallKeepsInv, RunBodyKeepsInv, RetryAgainKeepsInv,
     HandleRetryExhaustedKeepsInv, CatchExceptionKeepsInv, PassOnKeepsInv,
     FinalizeKeepsInv DEF Step
<1>2. CASE UNCHANGED vars
  BY <1>2 DEF vars, Inv, TypeOK, ControlInv, StatusInv, DataInv, OriginInv, PolicyWithin,
     EveryAttemptStartsFresh, SinkFollowsReport, PolicyAnswers, SettledReportIsFinal
<1>. QED BY <1>1, <1>2 DEF Next, Done

LEMMA InvHolds == Spec => []Inv
<1>. QED BY InvInit, InvStep, PTL DEF Spec

-------------------------------------------------------------------------------
(* Attempts are paid for.                                                  *)

(* s[l] is what the retries counted outside the innermost l adapters have  *)
(* paid for: each retry of adapter l pays for a call of what it wraps.     *)
(* What is still to come fits the budget of the whole.                     *)
Pays(t, counts, s, from) ==
  /\ s \in [0 .. Depth(t) -> Nat]
  /\ s[Depth(t)] = 0
  /\ \A l \in from + 1 .. Depth(t) :
       s[l - 1] = s[l] + (IF Multiplies(t, l) THEN counts[l] * Budgets(t)[l - 1] ELSE 0)
  /\ \A l \in from .. Depth(t) : s[l] + Budgets(t)[l] <= Budgets(t)[Depth(t)]

(* What control is about to call, or has returned from.                    *)
From == IF going = "in" THEN level ELSE level - 1

(* No adapter counts past its budget; so its counter never wraps.          *)
CountersInv ==
  \A k \in 1 .. Depth(task) :
    IsRetry(task.adapters[k]) /\ ~Forever(task, k) =>
      retry_counts[k] <= task.adapters[k].max_retries

(* The attempts so far are paid for by the retries counted outside the     *)
(* place where control is, and on the way out by the call that ended.      *)
SpentInv ==
  Limited(task) =>
    \E s : /\ Pays(task, retry_counts, s, From)
           /\ attempts <= s[From] + (IF going = "in" THEN 0 ELSE Budgets(task)[From])

BudgetInv == Inv /\ CountersInv /\ SpentInv

(* Products of numbers, for the provers.                                   *)
LEMMA Products ==
  ASSUME NEW n \in Nat, NEW m \in Nat, NEW b \in Nat
  PROVE  /\ n * b \in Nat
         /\ (n + 1) * b = n * b + b
         /\ n <= m => n * b <= m * b /\ b * (n + 1) <= b * (m + 1)
         /\ b <= b * (n + 1)
         /\ b * (n + 1) = n * b + b
<1>1. n * b \in Nat /\ (n + 1) * b = n * b + b /\ b * (n + 1) = n * b + b /\ b <= n * b + b
  OBVIOUS
<1>2. n <= m => n * b <= m * b
  <2>. SUFFICES ASSUME n <= m PROVE n * b <= m * b
    OBVIOUS
  <2>1. PICK e \in Nat : m = n + e
    <3>1. m - n \in Nat /\ m = n + (m - n)
      OBVIOUS
    <3>. QED BY <3>1
  <2>2. m * b = n * b + e * b /\ e * b \in Nat /\ n * b \in Nat
    BY <2>1
  <2>. QED BY <2>2
<1>3. b * (m + 1) = m * b + b /\ m * b \in Nat
  OBVIOUS
<1>. QED BY <1>1, <1>2, <1>3

(* The budget of one adapter more.                                         *)
LEMMA BudgetOfOneMore ==
  ASSUME NEW t \in Tasks, Limited(t), NEW l \in 1 .. Depth(t)
  PROVE  /\ Budgets(t)[l - 1] \in Nat /\ Budgets(t)[l] \in Nat
         /\ Multiplies(t, l) =>
              Budgets(t)[l] = t.adapters[l].max_retries * Budgets(t)[l - 1] + Budgets(t)[l - 1]
         /\ ~Multiplies(t, l) => Budgets(t)[l] = Budgets(t)[l - 1]
<1>1. IsBudget(t, Budgets(t))
  BY BudgetsOfTasks
<1>2. Depth(t) \in Nat /\ t.adapters[l].max_retries \in Nat
  BY TaskFacts, BoundsAssumption
<1>3. Budgets(t)[l - 1] \in Nat /\ Budgets(t)[l] \in Nat
  <2>1. l - 1 \in 0 .. Depth(t) /\ l \in 0 .. Depth(t)
    BY <1>2
  <2>. QED BY <1>1, <2>1 DEF IsBudget
<1>4. Budgets(t)[l] = IF Multiplies(t, l)
                        THEN Budgets(t)[l - 1] * (t.adapters[l].max_retries + 1)
                        ELSE Budgets(t)[l - 1]
  BY <1>1 DEF IsBudget, Limited
<1>. QED BY <1>2, <1>3, <1>4, Products

(* Calling an adapter with no retries counted pays for no more.            *)
LEMMA CallingPays ==
  ASSUME NEW t \in Tasks, Limited(t), NEW l \in 1 .. Depth(t),
         NEW counts \in [1 .. Depth(t) -> Nat], NEW next \in [1 .. Depth(t) -> Nat],
         \A k \in 1 .. Depth(t) : k # l => next[k] = counts[k],
         Multiplies(t, l) => next[l] = 0,
         NEW s, Pays(t, counts, s, l)
  PROVE  \E r : Pays(t, next, r, l - 1) /\ r[l - 1] = s[l]
<1>. DEFINE r == [s EXCEPT ![l - 1] = s[l]]
<1>1. Depth(t) \in Nat /\ l \in Nat /\ l - 1 \in 0 .. Depth(t) /\ l \in 0 .. Depth(t)
  BY TaskFacts
<1>2. s \in [0 .. Depth(t) -> Nat] /\ s[Depth(t)] = 0
  BY DEF Pays
<1>3. /\ r \in [0 .. Depth(t) -> Nat]
      /\ r[l - 1] = s[l]
      /\ \A k \in l .. Depth(t) : r[k] = s[k]
  BY <1>1, <1>2
<1>. HIDE DEF r
<1>4. r[Depth(t)] = 0
  BY <1>1, <1>2, <1>3
<1>5. ASSUME NEW k \in (l - 1) + 1 .. Depth(t)
      PROVE  r[k - 1] = r[k] + (IF Multiplies(t, k) THEN next[k] * Budgets(t)[k - 1] ELSE 0)
  <2>1. k \in l .. Depth(t) /\ r[k] = s[k] /\ s[k] \in Nat
    BY <1>1, <1>2, <1>3
  <2>2. CASE k = l
    <3>1. Budgets(t)[l - 1] \in Nat
      BY BudgetOfOneMore
    <3>2. 0 * Budgets(t)[l - 1] = 0
      BY <3>1
    <3>. QED BY <1>3, <2>1, <2>2, <3>2
  <2>3. CASE k # l
    <3>1. k \in l + 1 .. Depth(t) /\ k - 1 \in l .. Depth(t) /\ k \in 1 .. Depth(t)
      BY <1>1, <2>1, <2>3
    <3>2. s[k - 1] = s[k] + (IF Multiplies(t, k) THEN counts[k] * Budgets(t)[k - 1] ELSE 0)
      BY <3>1 DEF Pays
    <3>3. r[k - 1] = s[k - 1] /\ next[k] = counts[k]
      BY <1>3, <2>3, <3>1
    <3>. QED BY <2>1, <3>2, <3>3
  <2>. QED BY <2>2, <2>3
<1>6. ASSUME NEW k \in l - 1 .. Depth(t)
      PROVE  r[k] + Budgets(t)[k] <= Budgets(t)[Depth(t)]
  <2>1. k # l - 1 => k \in l .. Depth(t)
    BY <1>1
  <2>2. CASE k # l - 1
    BY <1>3, <2>1, <2>2 DEF Pays
  <2>3. CASE k = l - 1
    <3>1. s[l] + Budgets(t)[l] <= Budgets(t)[Depth(t)]
      BY <1>1 DEF Pays
    <3>2. PICK a \in Nat, b \in Nat, c \in Nat :
            a = s[l] /\ b = Budgets(t)[l - 1] /\ c = Budgets(t)[l] /\ b <= c
      <4>1. s[l] \in Nat
        BY <1>1, <1>2
      <4>2. t.adapters[l].max_retries \in Nat
        BY TaskFacts, BoundsAssumption
      <4>3. Budgets(t)[l - 1] <= Budgets(t)[l]
        BY <4>2, BudgetOfOneMore, Products
      <4>. QED BY <4>1, <4>3, BudgetOfOneMore
    <3>3. Budgets(t)[Depth(t)] \in Nat
      BY <1>1, BudgetsOfTasks DEF IsBudget
    <3>. QED BY <1>3, <2>3, <3>1, <3>2, <3>3
  <2>. QED BY <2>2, <2>3
<1>. QED BY <1>3, <1>4, <1>5, <1>6 DEF Pays

(* A retry pays for another call of what the adapter wraps.                *)
LEMMA RetryingPays ==
  ASSUME NEW t \in Tasks, Limited(t), NEW l \in 1 .. Depth(t), Multiplies(t, l),
         NEW counts \in [1 .. Depth(t) -> Nat], NEW next \in [1 .. Depth(t) -> Nat],
         \A k \in 1 .. Depth(t) : k # l => next[k] = counts[k],
         next[l] = counts[l] + 1,
         next[l] <= t.adapters[l].max_retries,
         NEW s, Pays(t, counts, s, l - 1)
  PROVE  \E r : Pays(t, next, r, l - 1) /\ r[l - 1] = s[l - 1] + Budgets(t)[l - 1]
<1>1. Depth(t) \in Nat /\ l \in Nat /\ l - 1 \in 0 .. Depth(t) /\ l \in 0 .. Depth(t)
  BY TaskFacts
<1>2. s \in [0 .. Depth(t) -> Nat] /\ s[Depth(t)] = 0
  BY DEF Pays
<1>3. PICK b \in Nat : b = Budgets(t)[l - 1]
  BY BudgetOfOneMore
<1>. DEFINE r == [s EXCEPT ![l - 1] = s[l - 1] + b]
<1>4. /\ r \in [0 .. Depth(t) -> Nat]
      /\ r[l - 1] = s[l - 1] + b
      /\ \A k \in l .. Depth(t) : r[k] = s[k]
  BY <1>1, <1>2
<1>. HIDE DEF r
<1>5. r[Depth(t)] = 0
  BY <1>1, <1>2, <1>4
<1>6. s[l - 1] = s[l] + counts[l] * b
  BY <1>1, <1>3 DEF Pays
<1>7. r[l - 1] = s[l] + next[l] * b
  <2>1. PICK a \in Nat, c \in Nat : a = s[l] /\ c = counts[l]
    BY <1>1, <1>2
  <2>2. (c + 1) * b = c * b + b /\ c * b \in Nat
    BY Products
  <2>. QED BY <1>4, <1>6, <2>1, <2>2
<1>8. ASSUME NEW k \in (l - 1) + 1 .. Depth(t)
      PROVE  r[k - 1] = r[k] + (IF Multiplies(t, k) THEN next[k] * Budgets(t)[k - 1] ELSE 0)
  <2>1. k \in l .. Depth(t) /\ r[k] = s[k]
    BY <1>1, <1>4
  <2>2. CASE k = l
    BY <1>3, <1>7, <2>1, <2>2
  <2>3. CASE k # l
    <3>1. k \in (l - 1) + 1 .. Depth(t) /\ k - 1 \in l .. Depth(t) /\ k \in 1 .. Depth(t)
      BY <1>1, <2>1, <2>3
    <3>2. s[k - 1] = s[k] + (IF Multiplies(t, k) THEN counts[k] * Budgets(t)[k - 1] ELSE 0)
      BY <3>1 DEF Pays
    <3>3. r[k - 1] = s[k - 1] /\ next[k] = counts[k]
      BY <1>4, <2>3, <3>1
    <3>. QED BY <2>1, <3>2, <3>3
  <2>. QED BY <2>2, <2>3
<1>9. ASSUME NEW k \in l - 1 .. Depth(t)
      PROVE  r[k] + Budgets(t)[k] <= Budgets(t)[Depth(t)]
  <2>1. k # l - 1 => k \in l .. Depth(t)
    BY <1>1
  <2>2. CASE k # l - 1
    <3>1. k \in l - 1 .. Depth(t)
      OBVIOUS
    <3>. QED BY <1>4, <2>1, <2>2, <3>1 DEF Pays
  <2>3. CASE k = l - 1
    <3>1. s[l] + Budgets(t)[l] <= Budgets(t)[Depth(t)]
      <4>1. l \in l - 1 .. Depth(t)
        BY <1>1
      <4>. QED BY <4>1 DEF Pays
    <3>2. PICK a \in Nat, n \in Nat, m \in Nat, w \in Nat :
            /\ a = s[l] /\ n = next[l] /\ m = t.adapters[l].max_retries
            /\ w = Budgets(t)[Depth(t)]
      <4>1. t.adapters[l].max_retries \in Nat
        BY TaskFacts, BoundsAssumption
      <4>2. Budgets(t)[Depth(t)] \in Nat
        BY <1>1, BudgetsOfTasks DEF IsBudget
      <4>. QED BY <1>1, <1>2, <4>1, <4>2
    <3>3. Budgets(t)[l] = m * b + b
      BY <1>3, <3>2, BudgetOfOneMore
    <3>4. n * b <= m * b /\ n * b \in Nat /\ m * b \in Nat
      BY <3>2, Products
    <3>5. r[l - 1] = a + n * b /\ a + (m * b + b) <= w
      BY <1>7, <3>1, <3>2, <3>3
    <3>6. (a + n * b) + b <= w
      BY <3>4, <3>5
    <3>. QED BY <1>3, <2>3, <3>2, <3>5, <3>6
  <2>. QED BY <2>2, <2>3
<1>. QED BY <1>3, <1>4, <1>5, <1>8, <1>9 DEF Pays

(* What has been paid for inside an adapter fits its own budget.           *)
LEMMA ReturningIsPaid ==
  ASSUME NEW t \in Tasks, Limited(t), NEW l \in 1 .. Depth(t),
         NEW counts \in [1 .. Depth(t) -> Nat],
         Multiplies(t, l) => counts[l] <= t.adapters[l].max_retries,
         NEW s, Pays(t, counts, s, l - 1)
  PROVE  /\ Pays(t, counts, s, l)
         /\ s[l - 1] \in Nat /\ s[l] \in Nat
         /\ s[l - 1] + Budgets(t)[l - 1] <= s[l] + Budgets(t)[l]
<1>1. Depth(t) \in Nat /\ l \in Nat /\ l - 1 \in 0 .. Depth(t) /\ l \in 0 .. Depth(t)
  BY TaskFacts
<1>2. s \in [0 .. Depth(t) -> Nat]
  BY DEF Pays
<1>3. Pays(t, counts, s, l)
  <2>1. \A k : k \in l + 1 .. Depth(t) => k \in (l - 1) + 1 .. Depth(t)
    BY <1>1
  <2>2. \A k : k \in l .. Depth(t) => k \in l - 1 .. Depth(t)
    BY <1>1
  <2>. QED BY <2>1, <2>2 DEF Pays
<1>4. s[l - 1] = s[l] + (IF Multiplies(t, l) THEN counts[l] * Budgets(t)[l - 1] ELSE 0)
  BY <1>1 DEF Pays
<1>5. PICK a \in Nat, b \in Nat, n \in Nat, m \in Nat :
        a = s[l] /\ b = Budgets(t)[l - 1] /\ n = counts[l] /\ m = t.adapters[l].max_retries
  <2>1. t.adapters[l].max_retries \in Nat
    BY TaskFacts, BoundsAssumption
  <2>. QED BY <1>1, <1>2, <2>1, BudgetOfOneMore
<1>6. CASE Multiplies(t, l)
  <2>1. n * b <= m * b /\ n * b \in Nat /\ m * b \in Nat
    BY <1>5, <1>6, Products
  <2>2. Budgets(t)[l] = m * b + b /\ s[l - 1] = a + n * b
    BY <1>4, <1>5, <1>6, BudgetOfOneMore
  <2>3. (a + n * b) + b <= a + (m * b + b)
    BY <2>1
  <2>. QED BY <1>1, <1>2, <1>3, <1>5, <2>2, <2>3
<1>7. CASE ~Multiplies(t, l)
  <2>1. Budgets(t)[l] = b /\ s[l - 1] = a
    BY <1>4, <1>5, <1>7, BudgetOfOneMore
  <2>. QED BY <1>3, <1>5, <2>1
<1>. QED BY <1>6, <1>7

(* An adapter that may be asked to retry acts on the requests.             *)
LEMMA MultiplyingActs ==
  ASSUME NEW t \in Tasks, NEW k \in 1 .. Depth(t), Multiplies(t, k)
  PROVE  RetryStatusCapable(RawKind(t, k - 1))
<1>1. t.body \in Kinds /\ RetryLeaves(t, k - 1)
  BY TaskFacts DEF Multiplies
<1>2. CASE RetryStatusCapable(t.body)
  BY <1>2 DEF RetryStatusCapable, RawKind
<1>3. CASE \E j \in 1 .. k - 1 : t.adapters[j].name = "catch_with_policy" /\ t.body # "value"
  <2>1. CatchWithin(t, k - 1)
    BY <1>3 DEF CatchWithin, IsCatch, CatchNames
  <2>. QED BY <1>1, <1>3, <2>1 DEF RetryStatusCapable, RawKind, Kinds
<1>. QED BY <1>1, <1>2, <1>3 DEF RetryLeaves

(* A task that may be sent in again without a bound has the largest        *)
(* budget that is told apart.                                              *)
LEMMA UnlimitedBudget ==
  ASSUME NEW t \in Tasks, ~Limited(t)
  PROVE  AttemptCap <= Budget(t)
<1>1. PICK f \in 1 .. Depth(t) : Multiplies(t, f) /\ Forever(t, f)
  BY DEF Limited
<1>2. IsBudget(t, Budgets(t)) /\ Budget(t) = Budgets(t)[Depth(t)]
  BY BudgetsOfTasks
<1>3. Depth(t) \in Nat /\ AttemptCap \in Nat
  BY TaskFacts, BoundsAssumption
<1>. DEFINE S == {k \in 0 .. Depth(t) : k < f \/ AttemptCap <= Budgets(t)[k]}
<1>4. ASSUME NEW k \in 0 .. Depth(t), \A j \in 0 .. k - 1 : j \in S
      PROVE  k \in S
  <2>1. CASE k < f
    BY <2>1
  <2>2. CASE k = f
    BY <1>1, <1>2, <1>3, <2>2 DEF IsBudget
  <2>3. CASE k > f
    <3>1. k \in 1 .. Depth(t) /\ k - 1 \in 0 .. k - 1 /\ k - 1 \in 0 .. Depth(t) /\ ~(k - 1 < f)
      BY <1>3, <2>3
    <3>2. PICK b \in Nat, m \in Nat :
            b = Budgets(t)[k - 1] /\ m = t.adapters[k].max_retries
      <4>1. Budgets(t)[k - 1] \in Nat
        BY <1>2, <3>1 DEF IsBudget
      <4>2. t.adapters[k].max_retries \in Nat
        BY <3>1, TaskFacts, BoundsAssumption
      <4>. QED BY <4>1, <4>2
    <3>3. AttemptCap <= b
      BY <1>4, <3>1, <3>2
    <3>4. Budgets(t)[k] \in {AttemptCap, b * (m + 1), b}
      BY <1>2, <3>1, <3>2 DEF IsBudget
    <3>5. b <= b * (m + 1) /\ b * (m + 1) \in Nat
      BY Products
    <3>6. AttemptCap <= Budgets(t)[k]
      BY <1>3, <3>3, <3>4, <3>5
    <3>. QED BY <3>6
  <2>. QED BY <1>3, <2>1, <2>2, <2>3
<1>5. \A k \in 0 .. Depth(t) : k \in S
  <2>. HIDE DEF S
  <2>. QED BY <1>3, <1>4, UpTo
<1>6. Depth(t) \in S
  <2>. HIDE DEF S
  <2>. QED BY <1>3, <1>5
<1>. QED BY <1>2, <1>3, <1>6

LEMMA BudgetInvInit == Init => BudgetInv
<1>. SUFFICES ASSUME Init PROVE BudgetInv
  OBVIOUS
<1>1. Inv
  BY InvInit
<1>2. task \in Tasks /\ Depth(task) \in Nat
  BY TaskFacts DEF Init
<1>3. CountersInv
  BY <1>2, TaskFacts, BoundsAssumption DEF Init, CountersInv
<1>4. SpentInv
  <2>1. IsBudget(task, Budgets(task))
    BY <1>2, BudgetsOfTasks
  <2>. DEFINE s == [l \in 0 .. Depth(task) |-> 0]
  <2>2. Budgets(task)[Depth(task)] \in Nat
    BY <1>2, <2>1 DEF IsBudget
  <2>3. From = Depth(task) /\ attempts = 0 /\ going = "in"
    BY DEF Init, From
  <2>4. /\ s \in [0 .. Depth(task) -> Nat] /\ s[Depth(task)] = 0
        /\ Depth(task) + 1 .. Depth(task) = {}
        /\ \A l \in Depth(task) .. Depth(task) : l = Depth(task)
    BY <1>2
  <2>. HIDE DEF s
  <2>5. Pays(task, retry_counts, s, Depth(task))
    BY <2>2, <2>4 DEF Pays
  <2>6. Pays(task, retry_counts, s, From) /\ attempts <= s[From] + 0
    BY <1>2, <2>3, <2>4, <2>5
  <2>. QED BY <2>3, <2>6 DEF SpentInv
<1>. QED BY <1>1, <1>3, <1>4 DEF BudgetInv

LEMMA CallKeepsBudget == BudgetInv /\ Call => CountersInv' /\ SpentInv'
<1>. SUFFICES ASSUME BudgetInv, Call PROVE CountersInv' /\ SpentInv'
  OBVIOUS
<1>1. /\ task \in Tasks /\ Depth(task) \in Nat
      /\ retry_counts \in [1 .. Depth(task) -> Nat]
  BY TaskFacts, BoundsAssumption DEF BudgetInv, Inv, TypeOK
<1>2. /\ level \in 1 .. Depth(task) /\ going = "in" /\ going' = "in" /\ level' = level - 1
      /\ task' = task /\ attempts' = attempts
  BY DEF Call, AtAdapter
<1>3. /\ retry_counts' \in [1 .. Depth(task) -> Nat]
      /\ \A k \in 1 .. Depth(task) : k # level => retry_counts'[k] = retry_counts[k]
      /\ retry_counts'[level] \in {0, retry_counts[level]}
      /\ RetryActs => retry_counts'[level] = 0
  BY <1>1, <1>2 DEF Call
<1>4. CountersInv'
  <2>. SUFFICES ASSUME NEW k \in 1 .. Depth(task),
                       IsRetry(task.adapters[k]), ~Forever(task, k)
                PROVE  retry_counts'[k] <= task.adapters[k].max_retries
    BY <1>2 DEF CountersInv
  <2>1. retry_counts[k] <= task.adapters[k].max_retries
    BY DEF BudgetInv, CountersInv
  <2>2. 0 <= task.adapters[k].max_retries
    BY <1>1, TaskFacts, BoundsAssumption
  <2>. QED BY <1>3, <2>1, <2>2
<1>5. ASSUME Limited(task)
      PROVE  \E s : Pays(task, retry_counts', s, level - 1) /\ attempts <= s[level - 1]
  <2>1. PICK s : Pays(task, retry_counts, s, level) /\ attempts <= s[level] + 0
    BY <1>2, <1>5 DEF BudgetInv, SpentInv, From
  <2>2. attempts <= s[level]
    BY <1>1, <1>2, <2>1 DEF Pays
  <2>3. Multiplies(task, level) => retry_counts'[level] = 0
    BY <1>1, <1>2, <1>3, MultiplyingActs DEF RetryActs, Multiplies, here
  <2>4. PICK lvl, next : lvl = level /\ next = retry_counts'
    OBVIOUS
  <2>5. \E r : Pays(task, next, r, lvl - 1) /\ r[lvl - 1] = s[lvl]
    BY <1>1, <1>2, <1>3, <1>5, <2>1, <2>3, <2>4, CallingPays
  <2>. QED BY <2>2, <2>4, <2>5
<1>6. SpentInv'
  <2>. SUFFICES ASSUME Limited(task)
                PROVE  \E s : /\ Pays(task, retry_counts', s, level - 1)
                              /\ attempts <= s[level - 1] + 0
    BY <1>2 DEF SpentInv, From
  <2>1. PICK s : Pays(task, retry_counts', s, level - 1) /\ attempts <= s[level - 1]
    BY <1>5
  <2>2. s[level - 1] \in Nat
    BY <1>1, <1>2, <2>1 DEF Pays
  <2>. QED BY <2>1, <2>2
<1>. QED BY <1>4, <1>6

LEMMA RunBodyKeepsBudget == BudgetInv /\ RunBody => CountersInv' /\ SpentInv'
<1>. SUFFICES ASSUME BudgetInv, RunBody PROVE CountersInv' /\ SpentInv'
  OBVIOUS
<1>1. task \in Tasks /\ Depth(task) \in Nat /\ attempts \in Nat
  BY TaskFacts, BoundsAssumption DEF BudgetInv, Inv, TypeOK
<1>2. /\ going = "in" /\ level = 0 /\ going' = "out" /\ level' = 1
      /\ task' = task /\ retry_counts' = retry_counts
      /\ attempts' <= attempts + 1
  BY <1>1 DEF RunBody, ReturnOut
<1>3. CountersInv'
  BY <1>2 DEF BudgetInv, CountersInv
<1>4. SpentInv'
  <2>. SUFFICES ASSUME Limited(task)
                PROVE  \E s : /\ Pays(task, retry_counts, s, 0)
                              /\ attempts' <= s[0] + Budgets(task)[0]
    <3>1. From' = 0
      BY <1>2 DEF From
    <3>. QED BY <1>2, <3>1 DEF SpentInv
  <2>1. PICK s : Pays(task, retry_counts, s, 0) /\ attempts <= s[0] + 0
    BY <1>2 DEF BudgetInv, SpentInv, From
  <2>2. s[0] \in Nat
    BY <1>1, <2>1 DEF Pays
  <2>3. Budgets(task)[0] = 1
    BY <1>1, BudgetsOfTasks DEF IsBudget
  <2>4. attempts' \in Nat
    BY <1>1, BoundsAssumption DEF RunBody
  <2>. QED BY <1>1, <1>2, <2>1, <2>2, <2>3, <2>4
<1>. QED BY <1>3, <1>4

LEMMA RetryAgainKeepsBudget == BudgetInv /\ RetryAgain => CountersInv' /\ SpentInv'
<1>. SUFFICES ASSUME BudgetInv, RetryAgain PROVE CountersInv' /\ SpentInv'
  OBVIOUS
<1>1. /\ task \in Tasks /\ Depth(task) \in Nat
      /\ retry_counts \in [1 .. Depth(task) -> 0 .. CountModulus - 1]
      /\ retry_counts \in [1 .. Depth(task) -> Nat]
      /\ CountModulus \in Nat \ {0}
  BY TaskFacts, BoundsAssumption DEF BudgetInv, Inv, TypeOK
<1>2. /\ level \in 1 .. Depth(task) /\ going = "out" /\ going' = "in" /\ level' = level - 1
      /\ task' = task /\ attempts' = attempts /\ status = "retry"
      /\ retry_counts' = [retry_counts EXCEPT ![level] = (retry_counts[level] + 1) % CountModulus]
  BY DEF RetryAgain, RetryRequested, AtAdapter, RequestsRetry
<1>3. Multiplies(task, level)
  BY <1>2 DEF BudgetInv, Inv, StatusInv, Multiplies, RetryAgain, RetryRequested, RetryActs, here
<1>4. /\ retry_counts' \in [1 .. Depth(task) -> Nat]
      /\ \A k \in 1 .. Depth(task) : k # level => retry_counts'[k] = retry_counts[k]
      /\ retry_counts'[level] = (retry_counts[level] + 1) % CountModulus
  <2>1. (retry_counts[level] + 1) % CountModulus \in Nat
    BY <1>1, <1>2
  <2>. QED BY <1>1, <1>2, <2>1
<1>5. ASSUME ~Forever(task, level)
      PROVE  /\ retry_counts'[level] = retry_counts[level] + 1
             /\ retry_counts'[level] <= task.adapters[level].max_retries
  <2>1. retry_counts[level] < task.adapters[level].max_retries
    BY <1>5 DEF RetryAgain, ShouldRetry, Forever, here
  <2>2. task.adapters[level].max_retries \in 0 .. CountModulus - 1
    BY <1>1, <1>2, TaskFacts
  <2>3. PICK c \in Nat, m \in 0 .. CountModulus - 1 :
          c = retry_counts[level] /\ m = task.adapters[level].max_retries
    BY <1>1, <1>2, <2>2
  <2>4. c < m /\ c + 1 < CountModulus
    BY <1>1, <2>1, <2>3
  <2>5. (c + 1) % CountModulus = c + 1
    BY <1>1, <2>4
  <2>. QED BY <1>4, <2>3, <2>4, <2>5
<1>6. CountersInv'
  <2>. SUFFICES ASSUME NEW k \in 1 .. Depth(task),
                       IsRetry(task.adapters[k]), ~Forever(task, k)
                PROVE  retry_counts'[k] <= task.adapters[k].max_retries
    BY <1>2 DEF CountersInv
  <2>. QED BY <1>4, <1>5 DEF BudgetInv, CountersInv
<1>7. SpentInv'
  <2>. SUFFICES ASSUME Limited(task)
                PROVE  \E s : /\ Pays(task, retry_counts', s, level - 1)
                              /\ attempts <= s[level - 1] + 0
    BY <1>2 DEF SpentInv, From
  <2>1. ~Forever(task, level)
    BY <1>2, <1>3 DEF Limited
  <2>2. PICK s : /\ Pays(task, retry_counts, s, level - 1)
                 /\ attempts <= s[level - 1] + Budgets(task)[level - 1]
    BY <1>2 DEF BudgetInv, SpentInv, From
  <2>3. PICK lvl, next : lvl = level /\ next = retry_counts'
    OBVIOUS
  <2>4. PICK r : Pays(task, next, r, lvl - 1) /\ r[lvl - 1] = s[lvl - 1] + Budgets(task)[lvl - 1]
    <3>1. /\ lvl \in 1 .. Depth(task) /\ Multiplies(task, lvl)
          /\ next \in [1 .. Depth(task) -> Nat]
          /\ \A k \in 1 .. Depth(task) : k # lvl => next[k] = retry_counts[k]
          /\ next[lvl] = retry_counts[lvl] + 1
          /\ next[lvl] <= task.adapters[lvl].max_retries
          /\ Pays(task, retry_counts, s, lvl - 1)
      BY <1>2, <1>3, <1>4, <1>5, <2>1, <2>2, <2>3
    <3>2. task \in Tasks /\ retry_counts \in [1 .. Depth(task) -> Nat]
      BY <1>1
    <3>. QED BY <3>1, <3>2, RetryingPays
  <2>5. r[lvl - 1] \in Nat
    BY <1>1, <1>2, <2>3, <2>4 DEF Pays
  <2>. QED BY <2>2, <2>3, <2>4, <2>5
<1>. QED BY <1>6, <1>7

(* Handing a status outwards.                                              *)
LEMMA ReturnOutKeepsBudget ==
  ASSUME BudgetInv, AtAdapter("out"), going' = "out", level' = level + 1,
         UNCHANGED <<task, retry_counts, attempts>>
  PROVE  CountersInv' /\ SpentInv'
<1>1. /\ task \in Tasks /\ Depth(task) \in Nat /\ attempts \in Nat
      /\ retry_counts \in [1 .. Depth(task) -> Nat]
  BY TaskFacts, BoundsAssumption DEF BudgetInv, Inv, TypeOK
<1>2. level \in 1 .. Depth(task) /\ going = "out" /\ level' - 1 = level
  BY <1>1 DEF AtAdapter
<1>3. CountersInv'
  BY DEF BudgetInv, CountersInv
<1>4. SpentInv'
  <2>. SUFFICES ASSUME Limited(task)
                PROVE  \E s : /\ Pays(task, retry_counts, s, level)
                              /\ attempts <= s[level] + Budgets(task)[level]
    BY <1>2 DEF SpentInv, From
  <2>1. PICK s : /\ Pays(task, retry_counts, s, level - 1)
                 /\ attempts <= s[level - 1] + Budgets(task)[level - 1]
    BY <1>2 DEF BudgetInv, SpentInv, From
  <2>2. Multiplies(task, level) => retry_counts[level] <= task.adapters[level].max_retries
    BY <1>2 DEF BudgetInv, CountersInv, Limited, Multiplies
  <2>3. /\ Pays(task, retry_counts, s, level)
        /\ s[level - 1] \in Nat /\ s[level] \in Nat
        /\ s[level - 1] + Budgets(task)[level - 1] <= s[level] + Budgets(task)[level]
    BY <1>1, <1>2, <2>1, <2>2, ReturningIsPaid
  <2>4. Budgets(task)[level - 1] \in Nat /\ Budgets(task)[level] \in Nat
    BY <1>1, <1>2, BudgetOfOneMore
  <2>. QED BY <1>1, <2>1, <2>3, <2>4
<1>. QED BY <1>3, <1>4

LEMMA FinalizeKeepsBudget == BudgetInv /\ Finalize => CountersInv' /\ SpentInv'
<1>. SUFFICES ASSUME BudgetInv, Finalize PROVE CountersInv' /\ SpentInv'
  OBVIOUS
<1>1. /\ going = "out" /\ going' = "done"
      /\ UNCHANGED <<task, level, retry_counts, attempts>>
  BY DEF Finalize
<1>2. From' = From
  BY <1>1 DEF From
<1>. QED BY <1>1, <1>2 DEF BudgetInv, CountersInv, SpentInv

LEMMA BudgetInvStep == BudgetInv /\ [Next]_vars => BudgetInv'
<1>. SUFFICES ASSUME BudgetInv, [Next]_vars PROVE BudgetInv'
  OBVIOUS
<1>1. Inv'
  BY InvStep DEF BudgetInv
<1>2. CASE Call
  BY <1>1, <1>2, CallKeepsBudget DEF BudgetInv
<1>3. CASE RunBody
  BY <1>1, <1>3, RunBodyKeepsBudget DEF BudgetInv
<1>4. CASE RetryAgain
  BY <1>1, <1>4, RetryAgainKeepsBudget DEF BudgetInv
<1>5. CASE HandleRetryExhausted
  BY <1>1, <1>5, ReturnOutKeepsBudget
  DEF BudgetInv, HandleRetryExhausted, RetryRequested, ReturnOut
<1>6. CASE CatchException
  BY <1>1, <1>6, ReturnOutKeepsBudget DEF BudgetInv, CatchException, Caught, ReturnOut
<1>7. CASE PassOn
  BY <1>1, <1>7, ReturnOutKeepsBudget DEF BudgetInv, PassOn, ReturnOut
<1>8. CASE Finalize
  BY <1>1, <1>8, FinalizeKeepsBudget DEF BudgetInv
<1>9. CASE UNCHANGED vars
  <2>1. From' = From
    BY <1>9 DEF vars, From
  <2>. QED BY <1>1, <1>9, <2>1 DEF vars, BudgetInv, CountersInv, SpentInv
<1>. QED BY <1>2, <1>3, <1>4, <1>5, <1>6, <1>7, <1>8, <1>9 DEF Next, Step, Done

-------------------------------------------------------------------------------
(* The results.                                                            *)

(* The variables keep their types: retry counters stay within size_t, and  *)
(* control within the stack of adapters.                                   *)
THEOREM TypeCorrect == Spec => []TypeOK
<1>1. Inv => TypeOK
  BY DEF Inv
<1>. QED BY <1>1, InvHolds, PTL

(* No attempt finds what an earlier attempt left: the retry adapter has    *)
(* emptied the sink, and a retried task never moves from its input.        *)
THEOREM AttemptsAreFresh == Spec => []EveryAttemptStartsFresh
<1>1. Inv => EveryAttemptStartsFresh
  BY DEF Inv, DataInv
<1>. QED BY <1>1, InvHolds, PTL

(* The adapters re-run a task only when it threw or asked for it.          *)
THEOREM SettledReportsStand == Spec => []SettledReportIsFinal
<1>1. Inv => SettledReportIsFinal
  BY DEF Inv
<1>. QED BY <1>1, InvHolds, PTL

(* The executor never sees an exception from an executable task, nor a     *)
(* retry request from a task whose adapters answer for it.                 *)
THEOREM ExecutorIsProtected == Spec => []ExecutorSeesAStatus
<1>1. Inv => ExecutorSeesAStatus
  <2>. SUFFICES ASSUME Inv, going = "out", level = Depth(task) + 1
                PROVE  /\ status \in Statuses
                       /\ status = "retry" => RetryLeaves(task, Depth(task))
                       /\ RawKind(task, Depth(task)) \in {"void", "value"} => status = "success"
    BY DEF ExecutorSeesAStatus
  <2>1. Depth(task) \in Nat /\ level - 1 = Depth(task)
    BY TaskFacts DEF Inv, TypeOK
  <2>2. Nothrow(task, Depth(task))
    BY DEF Inv, TypeOK, Executable
  <2>3. status # "threw"
    BY <2>1, <2>2 DEF Inv, StatusInv
  <2>. QED BY <2>1, <2>3 DEF Inv, StatusInv, TypeOK
<1>. QED BY <1>1, InvHolds, PTL

(* A finalized node's slot holds a payload exactly if the task succeeded   *)
(* and its last attempt constructed one, and a success is the body's own   *)
(* or a fallback policy's.                                                 *)
THEOREM DirectOutputContract == Spec => []SinkFollowsReport
<1>1. Inv => SinkFollowsReport
  BY DEF Inv, DataInv
<1>. QED BY <1>1, InvHolds, PTL

(* However retry budgets are nested and whatever the body and the fallback *)
(* policies answer, the body runs no more often than the budgets that can  *)
(* be spent multiply to: no counter wraps, and none is spent twice.        *)
THEOREM AttemptsAreBudgeted == Spec => []AttemptsStayInBudget
<1>1. BudgetInv => AttemptsStayInBudget
  <2>. SUFFICES ASSUME BudgetInv PROVE attempts <= Budget(task)
    BY DEF AttemptsStayInBudget
  <2>1. /\ task \in Tasks /\ Depth(task) \in Nat
        /\ attempts \in 0 .. AttemptCap /\ AttemptCap \in Nat
        /\ From \in 0 .. Depth(task)
    <3>1. task \in Tasks /\ Depth(task) \in Nat /\ attempts \in 0 .. AttemptCap
      BY TaskFacts DEF BudgetInv, Inv, TypeOK
    <3>2. From \in 0 .. Depth(task)
      BY <3>1 DEF BudgetInv, Inv, TypeOK, ControlInv, From
    <3>. QED BY <3>1, <3>2, BoundsAssumption
  <2>2. IsBudget(task, Budgets(task)) /\ Budget(task) = Budgets(task)[Depth(task)]
    BY <2>1, BudgetsOfTasks
  <2>3. Budgets(task)[From] \in Nat /\ Budget(task) \in Nat
    BY <2>1, <2>2 DEF IsBudget
  <2>4. CASE ~Limited(task)
    BY <2>1, <2>3, <2>4, UnlimitedBudget
  <2>5. CASE Limited(task)
    <3>1. PICK s : /\ Pays(task, retry_counts, s, From)
                   /\ attempts <= s[From] + (IF going = "in" THEN 0 ELSE Budgets(task)[From])
      BY <2>5 DEF BudgetInv, SpentInv
    <3>2. s[From] \in Nat /\ s[From] + Budgets(task)[From] <= Budget(task)
      BY <2>1, <2>2, <3>1 DEF Pays
    <3>. QED BY <2>1, <2>3, <3>1, <3>2
  <2>. QED BY <2>4, <2>5
<1>. QED BY <1>1, BudgetInvInit, BudgetInvStep, PTL DEF Spec

(* No adapter spends more than its budget: its counter, a size_t, never    *)
(* wraps.                                                                  *)
THEOREM CountersStayInBudget == Spec => []CountersInv
<1>1. BudgetInv => CountersInv
  BY DEF BudgetInv
<1>. QED BY <1>1, BudgetInvInit, BudgetInvStep, PTL DEF Spec

===============================================================================
