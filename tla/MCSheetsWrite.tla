--------------------------- MODULE MCSheetsWrite ---------------------------
(* A small instance of SheetsWrite for TLC: keys are interchangeable. *)
EXTENDS SheetsWrite

Keys == Permutations(Key)
=============================================================================
