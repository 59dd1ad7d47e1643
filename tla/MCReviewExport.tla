--------------------------- MODULE MCReviewExport ---------------------------
(* Small instances of ReviewExport for TLC: a plan of two batches.         *)
EXTENDS ReviewExport, TLC

CONSTANTS b1, b2, r1, r2, e1, e2

FirstThenSecond == <<b1, b2>>
Requests == Permutations(Reviewers) \union Permutations(Exporters)
=============================================================================
