------------------------- MODULE WorkspaceExclusion -------------------------
(***************************************************************************)
(* What the workspace lock promises, without a single lock in it: one      *)
(* process at a time works in a workspace, and a workspace whose last      *)
(* worker vanished stays shut until a person recovers it.                  *)
(* WorkspaceLock implements this specification.                            *)
(***************************************************************************)
CONSTANTS Procs,    \* the processes that may work in the workspace
          Nobody    \* no process

VARIABLES owner,    \* the process that has the workspace, or Nobody
          stale     \* TRUE while an unclean end waits for recovery

vars == <<owner, stale>>

Init == owner = Nobody /\ stale = FALSE

Begin(p) == owner = Nobody /\ ~stale /\ owner' = p /\ UNCHANGED stale

\* Nothing is left to recover: no task ran, or all its resources are gone.
Finish(p) == owner = p /\ owner' = Nobody /\ UNCHANGED stale

\* The process dies, or cannot finish recording that it began.
Vanish(p) == owner = p /\ owner' = Nobody /\ stale' = TRUE

Recover == owner = Nobody /\ stale /\ stale' = FALSE /\ UNCHANGED owner

Next == Recover \/ \E p \in Procs : Begin(p) \/ Finish(p) \/ Vanish(p)

Spec == Init /\ [][Next]_vars
=============================================================================
