------------------------- MODULE MCTaskVerification -------------------------
(***************************************************************************)
(* TaskVerification with two files, a check of each, one of the whole      *)
(* workspace, and a script; a run takes some of the checks.                *)
(***************************************************************************)
EXTENDS TaskVerification, TLC

CONSTANTS fileA, fileB, checkA, checkB, checkAll, script

PathsMC == {fileA, fileB}
TargetsMC == [c \in Checks |->
    IF c = checkA THEN {fileA} ELSE IF c = checkB THEN {fileB}
    ELSE IF c = checkAll THEN PathsMC ELSE {}]
WholeMC == Checks \cap {checkAll}

\* Contents are only ever compared.
Symmetry == Permutations(Contents)
=============================================================================
