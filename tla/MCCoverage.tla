----------------------------- MODULE MCCoverage -----------------------------
(* Values of the constants for TLC runs of PlanCoverage.                   *)
EXTENDS PlanCoverage, TLC

CoverageSymmetry == Permutations(EventPlans) \cup Permutations(Sessions)
=============================================================================
