----------------------------- MODULE TaskAdapters ------------------------------
(***************************************************************************)
(* One execution of an adapted task: a bound callable (the body) wrapped   *)
(* in retry and catch adapters, called by the executor on behalf of one    *)
(* node.                                                                   *)
(*                                                                         *)
(* A task is a record                                                      *)
(*   body     : what the callable returns ("void", "step", "value",        *)
(*              "task_result", or "direct_out" when it writes to a sink)   *)
(*   nothrow  : whether the bound call is noexcept                         *)
(*   consumes : whether it takes its parent's payload by consume_prev      *)
(*   adapters : its adapters, innermost first                              *)
(* Control goes inwards through the adapters to the body and a status      *)
(* travels back outwards; a retry adapter may send control in again.  An   *)
(* exception on its way out is the status "threw".                         *)
(***************************************************************************)
EXTENDS Integers, Sequences, FiniteSets

CONSTANTS
  Tasks,          \* the adapted tasks that may be executed
  CountModulus,   \* number of values of the retry counter's std::size_t
  AttemptCap      \* bound on the attempts that are told apart

Kinds    == {"void", "step", "value", "task_result", "direct_out"}
Statuses == {"success", "failure", "retry", "abort_branch", "abort_execution"}

RetryNames == {"retry_fixed", "retry_fixed_passthrough", "retry_forever"}
CatchNames == {"catch_as_failure", "catch_with_policy"}
Adapter    == [name : RetryNames \cup CatchNames, max_retries : 0 .. CountModulus - 1]

IsRetry(adapter) == adapter.name \in RetryNames
IsCatch(adapter) == adapter.name \in CatchNames

Depth(t) == Len(t.adapters)

CatchWithin(t, k) == \E j \in 1 .. k : IsCatch(t.adapters[j])

(* The raw result of the innermost k adapters: a caught void task returns  *)
(* a step.                                                                 *)
RawKind(t, k) == IF t.body = "void" /\ CatchWithin(t, k) THEN "step" ELSE t.body

(* Whether calling the innermost k adapters is noexcept.                   *)
Nothrow(t, k) == t.nothrow \/ CatchWithin(t, k)

RetryStatusCapable(kind) == kind \in {"step", "task_result", "direct_out"}

(* Only results the library can make a failure of without a payload.       *)
DefaultCatchSupported(kind) == kind \in {"void", "step", "direct_out"}

RetryKeepsPrevAccess(t) ==
  (\E k \in 1 .. Depth(t) : IsRetry(t.adapters[k])) => ~t.consumes

(* What compiles: every adapter fits what it wraps, the whole is noexcept. *)
Executable(t) ==
  /\ \A k \in 1 .. Depth(t) :
       t.adapters[k].name = "catch_as_failure" => DefaultCatchSupported(RawKind(t, k - 1))
  /\ RetryKeepsPrevAccess(t)
  /\ Nothrow(t, Depth(t))

TaskRecord ==
  [body : Kinds, nothrow : BOOLEAN, consumes : BOOLEAN, adapters : Seq(Adapter)]

ASSUME TasksAssumption == Tasks \subseteq TaskRecord
ASSUME BoundsAssumption == CountModulus \in Nat \ {0} /\ AttemptCap \in Nat \ {0}

VARIABLES
  task,          \* the task being executed; never changes
  level,         \* the adapter in control: 0 is the body, Depth + 1 the executor
  going,         \* "in" (being called), "out" (has been returned to), "done"
  retry_counts,  \* retry_count of each adapter's current invocation
  status,        \* what travels outwards: "none", a status or "threw"
  out,           \* the sink's slot: "empty", "payload" or "poisoned"
  moved,         \* the parent's payload has been moved from
  attempts,      \* history: how often the body ran, up to AttemptCap
  report,        \* history: what the body's last attempt ended with
  filled         \* history: the body's last attempt constructed a payload

vars == <<task, level, going, retry_counts, status, out, moved, attempts, report, filled>>

Init ==
  /\ task \in {t \in Tasks : Executable(t)}
  /\ level = Depth(task)
  /\ going = "in"
  /\ retry_counts = [k \in 1 .. Depth(task) |-> 0]
  /\ status = "none"
  /\ out = "empty"
  /\ moved = FALSE
  /\ attempts = 0
  /\ report = "none"
  /\ filled = FALSE

here == task.adapters[level]

AtAdapter(direction) == going = direction /\ level \in 1 .. Depth(task)

ReturnOut(s) ==
  /\ status' = s
  /\ going' = "out"
  /\ level' = level + 1

-------------------------------------------------------------------------------
(* Going in.                                                               *)

RetryActs == IsRetry(here) /\ RetryStatusCapable(RawKind(task, level - 1))

Call ==
  /\ AtAdapter("in")
  /\ level' = level - 1
  /\ retry_counts' = IF RetryActs THEN [retry_counts EXCEPT ![level] = 0] ELSE retry_counts
  /\ UNCHANGED <<task, going, status, out, moved, attempts, report, filled>>

(* Constructing over a live payload fails emplace's assertion.             *)
EmplaceOut == IF out = "empty" THEN "payload" ELSE "poisoned"

BodyReports(t) ==
  (IF t.body \in {"void", "value"} THEN {"success"} ELSE Statuses)
    \cup (IF t.nothrow THEN {} ELSE {"threw"})

(* Whether the body emplaces and what it reports are independent: it may   *)
(* construct a payload and fail, or succeed without one.  It may throw     *)
(* before or after taking its arguments.                                   *)
RunBody ==
  /\ going = "in" /\ level = 0
  /\ \E s \in BodyReports(task), emplaces, takes \in BOOLEAN :
       /\ emplaces => task.body = "direct_out"
       /\ s # "threw" \/ emplaces => takes
       /\ ReturnOut(s)
       /\ report' = s
       /\ out' = IF emplaces THEN EmplaceOut ELSE out
       /\ filled' = emplaces
       /\ moved' = (moved \/ (takes /\ task.consumes))
  /\ attempts' = IF attempts < AttemptCap THEN attempts + 1 ELSE attempts
  /\ UNCHANGED <<task, retry_counts>>

-------------------------------------------------------------------------------
(* Retry.                                                                  *)

(* Fault: the initial attempt is not counted.                              *)
ShouldRetryOnceMore(adapter, count) ==
  adapter.name = "retry_forever" \/ count <= adapter.max_retries

ShouldRetry(adapter, count) ==
  adapter.name = "retry_forever" \/ count < adapter.max_retries

(* Fault: the exhausted result is handed on as it is.                      *)
OnExhaustedUnchanged(adapter, s) == s

OnExhausted(adapter, s) == IF adapter.name = "retry_fixed" THEN "failure" ELSE s

(* Fault: any status but success asks for another attempt.                 *)
RequestsRetryUnlessOk(s) == s \notin {"success", "threw"}

RequestsRetry(s) == s = "retry"

RetryRequested == AtAdapter("out") /\ RetryActs /\ RequestsRetry(status)

(* Fault: a payload emplaced by the attempt is not destroyed.              *)
RetryAgainOverPayload ==
  /\ RetryRequested
  /\ ShouldRetry(here, retry_counts[level])
  /\ retry_counts' = [retry_counts EXCEPT ![level] = (@ + 1) % CountModulus]
  /\ status' = "none" /\ going' = "in" /\ level' = level - 1
  /\ UNCHANGED <<task, out, moved, attempts, report, filled>>

(* Fault: the retry is not counted.                                        *)
RetryAgainUncounted ==
  /\ RetryRequested
  /\ ShouldRetry(here, retry_counts[level])
  /\ out' = IF out = "payload" THEN "empty" ELSE out
  /\ status' = "none" /\ going' = "in" /\ level' = level - 1
  /\ UNCHANGED <<task, retry_counts, moved, attempts, report, filled>>

RetryAgain ==
  /\ RetryRequested
  /\ ShouldRetry(here, retry_counts[level])
  /\ out' = IF out = "payload" THEN "empty" ELSE out
  /\ retry_counts' = [retry_counts EXCEPT ![level] = (@ + 1) % CountModulus]
  /\ status' = "none" /\ going' = "in" /\ level' = level - 1
  /\ UNCHANGED <<task, moved, attempts, report, filled>>

HandleRetryExhausted ==
  /\ RetryRequested
  /\ ~ShouldRetry(here, retry_counts[level])
  /\ ReturnOut(OnExhausted(here, status))
  /\ UNCHANGED <<task, retry_counts, out, moved, attempts, report, filled>>

-------------------------------------------------------------------------------
(* Catch.                                                                  *)

Caught == AtAdapter("out") /\ IsCatch(here) /\ status = "threw"

(* A fallback for a plain value returns a value; any other may return any  *)
(* step, success included: it is handed the exception and not the sink.    *)
PolicyStatuses == IF task.body = "value" THEN {"success"} ELSE Statuses

CatchException ==
  /\ Caught
  /\ \/ here.name = "catch_as_failure" /\ ReturnOut("failure")
     \/ here.name = "catch_with_policy" /\ \E s \in PolicyStatuses : ReturnOut(s)
  /\ UNCHANGED <<task, retry_counts, out, moved, attempts, report, filled>>

(* Whatever an adapter does not act on leaves it unchanged.                *)
PassOn ==
  /\ AtAdapter("out")
  /\ ~RetryRequested /\ ~Caught
  /\ ReturnOut(status)
  /\ UNCHANGED <<task, retry_counts, out, moved, attempts, report, filled>>

-------------------------------------------------------------------------------
(* The executor finalizes the node: a payload left by a task that did not  *)
(* succeed is destroyed.                                                   *)

(* Fault: only a failure's payload is destroyed.                           *)
FinalizeFailureOnly ==
  /\ going = "out" /\ level = Depth(task) + 1
  /\ going' = "done"
  /\ out' = IF status = "failure" /\ out = "payload" THEN "empty" ELSE out
  /\ UNCHANGED <<task, level, retry_counts, status, moved, attempts, report, filled>>

Finalize ==
  /\ going = "out" /\ level = Depth(task) + 1
  /\ going' = "done"
  /\ out' = IF status # "success" /\ out = "payload" THEN "empty" ELSE out
  /\ UNCHANGED <<task, level, retry_counts, status, moved, attempts, report, filled>>

Step ==
  \/ Call
  \/ RunBody
  \/ RetryAgain
  \/ HandleRetryExhausted
  \/ CatchException
  \/ PassOn
  \/ Finalize

Done == going = "done" /\ UNCHANGED vars

Next == Step \/ Done

Spec == Init /\ [][Next]_vars

(* run_task does not return before the task has: nothing suspends it.      *)
FairSpec == Spec /\ WF_vars(Step)

-------------------------------------------------------------------------------
(* Properties.                                                             *)

(* Types of the variables, for any executable task.                        *)
TypeOK ==
  /\ task \in Tasks /\ Executable(task)
  /\ level \in 0 .. Depth(task) + 1
  /\ going \in {"in", "out", "done"}
  /\ retry_counts \in [1 .. Depth(task) -> 0 .. CountModulus - 1]
  /\ status \in Statuses \cup {"none", "threw"}
  /\ (status = "none") = (going = "in")
  /\ out \in {"empty", "payload", "poisoned"}
  /\ moved \in BOOLEAN
  /\ attempts \in 0 .. AttemptCap
  /\ report \in Statuses \cup {"none", "threw"}
  /\ filled \in BOOLEAN

(* However deep the retries are nested, an attempt of the body never finds *)
(* a payload of an earlier attempt in its sink, nor an input an earlier    *)
(* attempt has moved from.                                                 *)
EveryAttemptStartsFresh ==
  /\ out # "poisoned"
  /\ going = "in" => out = "empty" /\ ~moved

(* An attempt that neither throws nor asks for a retry is the last one,    *)
(* and no adapter changes what it reported.                                *)
SettledReportIsFinal ==
  /\ going = "in" => report \in {"none", "retry", "threw"}
  /\ going # "in" /\ report \notin {"retry", "threw"} => status = report

(* Adapters that answer for every retry request that reaches them.         *)
KeepsRetry(t, k) == t.adapters[k].name \notin {"retry_fixed", "retry_forever"}

(* Whether a retry request can leave the innermost k adapters: the body's  *)
(* own, or one that a fallback policy makes of an exception.               *)
RetryLeaves(t, k) ==
  \/ /\ RetryStatusCapable(t.body)
     /\ \A m \in 1 .. k : KeepsRetry(t, m)
  \/ \E j \in 1 .. k :
       /\ t.adapters[j].name = "catch_with_policy"
       /\ t.body # "value" /\ ~Nothrow(t, j - 1)
       /\ \A m \in j + 1 .. k : KeepsRetry(t, m)

(* How often one call of the task can run its body.                        *)
Budget(t) ==
  LET budget[k \in 0 .. Depth(t)] ==
        IF k = 0 THEN 1
        ELSE IF IsRetry(t.adapters[k]) /\ RetryLeaves(t, k - 1)
               THEN IF t.adapters[k].name = "retry_forever"
                      THEN AttemptCap
                      ELSE budget[k - 1] * (t.adapters[k].max_retries + 1)
               ELSE budget[k - 1]
  IN  budget[Depth(t)]

(* Nested retry budgets multiply, but only through adapters that let a     *)
(* retry request out: the body never runs more often than that.            *)
AttemptsStayInBudget == attempts <= Budget(task)

(* What reaches the executor: never an exception, and a retry request only *)
(* if no adapter further in answers for it.                                *)
ExecutorSeesAStatus ==
  going = "out" /\ level = Depth(task) + 1 =>
    /\ status \in Statuses
    /\ status = "retry" => RetryLeaves(task, Depth(task))
    /\ RawKind(task, Depth(task)) \in {"void", "value"} => status = "success"

(* A fallback policy answers for an exception somewhere in the task.       *)
PolicyAnswers == \E k \in 1 .. Depth(task) : task.adapters[k].name = "catch_with_policy"

(* When the node is finalized its slot holds a payload exactly if the task *)
(* succeeded and its last attempt constructed one: no adapter or retry     *)
(* loses that payload or keeps another, and none survives any other        *)
(* status.  Nor do the adapters make a success themselves: it is what the  *)
(* body reported, or what a fallback policy answered to an exception, and  *)
(* these two alone can leave a success without a payload.                  *)
SinkFollowsReport ==
  going = "done" =>
    /\ (out = "payload") = (status = "success" /\ filled)
    /\ status = "success" => report = "success" \/ (report = "threw" /\ PolicyAnswers)

(* A retry_forever adapter that is asked for another attempt.              *)
AskedForEver == RetryRequested /\ here.name = "retry_forever"

(* Whatever the body and the fallback policies do, a task that does not    *)
(* return is one whose retry_forever adapter is asked again and again: no  *)
(* bounded retry, however nested, and no wrapped retry counter delays it   *)
(* for ever, and once the requests stop the task returns.                  *)
OnlyRequestsKeepItRunning == <>(going = "done") \/ []<>AskedForEver

===============================================================================
