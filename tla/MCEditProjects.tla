--------------------------- MODULE MCEditProjects ---------------------------
(* Small instances of EditProjects for TLC.                                *)
EXTENDS EditProjects, TLC

Symmetry ==
  Permutations(Requests) \union Permutations(Executions) \union Permutations(Pictures \ {Root})
=============================================================================
