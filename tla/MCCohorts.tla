------------------------------ MODULE MCCohorts ------------------------------
(***************************************************************************)
(* A cohort plan for TLC: chunks 1 and 2 are the first cohort, chunk 3 is  *)
(* the second.                                                             *)
(***************************************************************************)
EXTENDS Cohorts

MCCohortOf == <<1, 1, 2>>
==============================================================================
