---------------------------- MODULE MCJobListing ----------------------------
(***************************************************************************)
(* Instances of JobListing for TLC.                                         *)
(***************************************************************************)
EXTENDS JobListing
=============================================================================
