------------------------- MODULE MCWorkspaceBaseline -------------------------
(***************************************************************************)
(* WorkspaceBaseline with two processes, two sessions and one path of two  *)
(* contents.                                                               *)
(***************************************************************************)
EXTENDS WorkspaceBaseline, TLC

CONSTANTS p1, p2, s1, s2, a, c1, c2
const_Procs == {p1, p2}
const_Sessions == {s1, s2}
const_Paths == {a}
const_Contents == {c1, c2}
Symmetric == Permutations(const_Procs) \cup Permutations(const_Sessions)
=============================================================================
