--------------------------- MODULE MCSessionMemory ---------------------------
(***************************************************************************)
(* SessionMemory with two interchangeable processes and two sessions.      *)
(***************************************************************************)
EXTENDS SessionMemory, TLC

CONSTANTS p1, p2, s1, s2
const_Procs == {p1, p2}
const_Sessions == {s1, s2}
Symmetric == Permutations(const_Sessions) \cup Permutations(const_Procs)
=============================================================================
