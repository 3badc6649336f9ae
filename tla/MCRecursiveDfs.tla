---------------------------- MODULE MCRecursiveDfs ----------------------------
(***************************************************************************)
(* Small instances of the recursive executor: every accepted plan of       *)
(* PlanCatalogue!MCPlans.                                                  *)
(***************************************************************************)
EXTENDS RecursiveDfs, PlanCatalogue
===============================================================================
