---------------------------- MODULE MCJobSystem -----------------------------
(***************************************************************************)
(* Instances of JobSystem for TLC.  Workers and results are model values    *)
(* nothing compares, so a safety run may permute them; the jobs are told    *)
(* apart by their files.                                                    *)
(***************************************************************************)
EXTENDS JobSystem, TLC

Symmetry == Permutations(Workers) \cup Permutations(Results)
=============================================================================
