--------------------------- MODULE MCIngestWriter ---------------------------
(***************************************************************************)
(* IngestWriter and its refinement on small instances.                     *)
(***************************************************************************)
EXTENDS IngestRefinement, TLC

Symmetry == Permutations(Records)
=============================================================================
