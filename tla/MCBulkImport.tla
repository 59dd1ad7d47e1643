---------------------------- MODULE MCBulkImport ----------------------------
(* Small instances of BulkImport for TLC: a job of three rows, two of them *)
(* for one product, a job that shares the product of the third, a dry run. *)
EXTENDS BulkImport

CONSTANTS w1, w2

ThreeJobs == [r \in Rows |-> IF r <= 3 THEN 1 ELSE IF r = 4 THEN 2 ELSE 3]
Products == [r \in Rows |-> CASE r <= 2 -> "a" [] r \in {3, 4} -> "b" [] OTHER -> "c"]
Flawed == [r \in Rows |-> CASE r = 3 -> "uncompilable" [] r = 4 -> "unexecutable"
                            [] r = 5 -> "invalid" [] OTHER -> "none"]
=============================================================================
