------------------------- MODULE MCExplicitHeapStack --------------------------
(***************************************************************************)
(* Small instances of the explicit-heap-stack executor: every accepted     *)
(* plan of PlanCatalogue!MCPlans.                                          *)
(***************************************************************************)
EXTENDS ExplicitHeapStack, PlanCatalogue
===============================================================================
