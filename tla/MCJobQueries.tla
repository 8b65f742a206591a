---------------------------- MODULE MCJobQueries ----------------------------
(***************************************************************************)
(* Instances of JobQueries for TLC: the workers permute.                    *)
(***************************************************************************)
EXTENDS JobQueries, TLC

Symmetry == Permutations(Workers) \cup Permutations(Results)
=============================================================================
