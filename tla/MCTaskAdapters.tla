---------------------------- MODULE MCTaskAdapters -----------------------------
(* Every adapted task with up to three adapters around each kind of body.  *)
EXTENDS TaskAdapters

adapter(name, max_retries) == [name |-> name, max_retries |-> max_retries]

MCAdapters ==
  { adapter("retry_fixed", 1), adapter("retry_fixed_passthrough", 1),
    adapter("retry_forever", 0), adapter("catch_as_failure", 0),
    adapter("catch_with_policy", 0) }

MCChains == UNION {[1 .. k -> MCAdapters] : k \in 0 .. 3}

MCTasks ==
  [body : Kinds, nothrow : BOOLEAN, consumes : BOOLEAN, adapters : MCChains]

===============================================================================
