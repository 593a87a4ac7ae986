--------------------------- MODULE MCWorkspaceLock ---------------------------
(***************************************************************************)
(* WorkspaceLock on a small set of interchangeable processes: on Linux, as *)
(* the configuration gives the constants, while both files are replaced,   *)
(* and without the kernel's namespace while the guard file is replaced.    *)
(***************************************************************************)
EXTENDS WorkspaceLock, TLC

VARIABLE platform

Posix == INSTANCE WorkspaceLock WITH HasNamespaceGuard <- FALSE, Tamperable <- {"guard"}

PlatformInit == Init /\ platform \in {"linux", "posix"}
PlatformNext ==
    /\ \/ platform = "linux" /\ Next
       \/ platform = "posix" /\ Posix!Next
    /\ UNCHANGED platform
PlatformSpec == PlatformInit /\ [][PlatformNext]_<<vars, platform>>

Symmetry == Permutations(Procs)
=============================================================================
