--------------------------- MODULE MCTaskCleanup ----------------------------
(***************************************************************************)
(* TaskCleanup with a few interchangeable worker threads.                  *)
(***************************************************************************)
EXTENDS TaskCleanup, TLC

Symmetry == Permutations(Workers)
=============================================================================
