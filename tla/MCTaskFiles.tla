----------------------------- MODULE MCTaskFiles -----------------------------
(***************************************************************************)
(* TaskFiles with a file at the root, and one beside a directory in another *)
(* directory: a call can make two directories, and an undo can fail between *)
(* them.                                                                   *)
(***************************************************************************)
EXTENDS TaskFiles, TLC

CONSTANTS top, inner, folder, deep
Interchangeable == Permutations(Texts)   \* no text differs from another but by its name
const_Files == {top, inner}
const_Dirs == {folder, deep}
const_Parent == (top :> Root) @@ (inner :> folder) @@ (deep :> folder) @@ (folder :> Root)
=============================================================================
