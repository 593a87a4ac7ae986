---------------------------- MODULE WorkspaceLock ----------------------------
(***************************************************************************)
(* The task lock of one workspace (workspace/lock.py) as several processes *)
(* use it: acquire, mark_active, the task, clear_active, close, a crash at *)
(* any point and the recovery a person confirms.                           *)
(*                                                                         *)
(* A lock is three locks, taken outside in: an abstract socket in the      *)
(* kernel's namespace (Linux only), a guard file in the user's home, and   *)
(* workspace.lock in the control directory of the workspace.  Anyone may   *)
(* replace the files by others with the same names; a file's identity is   *)
(* then a new number.  An flock belongs to the identity that was opened,   *)
(* not to the name.                                                        *)
(*                                                                         *)
(* A refused attempt that changes nothing (the socket is bound) is not a   *)
(* step.  Parent-directory and link checks, permissions and the payload of *)
(* the marker are left out; the workspace root is never replaced.          *)
(***************************************************************************)
EXTENDS Naturals

CONSTANTS Procs, Nobody,
          HasNamespaceGuard,   \* TRUE on Linux
          Tamperable,          \* which of "guard" and "control" get replaced
          MaxReplacements      \* bound on the replacements of each of them

ASSUME NobodyAssumption == Nobody \notin Procs
ASSUME GuardAssumption == HasNamespaceGuard \in BOOLEAN
ASSUME BoundAssumption == MaxReplacements \in Nat
\* Off Linux the design relies on one of the two file names staying put.
ASSUME TamperAssumption ==
    /\ Tamperable \subseteq {"guard", "control"}
    /\ HasNamespaceGuard \/ Tamperable # {"guard", "control"}

VARIABLES pc,         \* where each process is in the protocol
          mode,       \* "task", "recover", or "failed" once acquire gave up
          socket,     \* the process that has bound the abstract socket
          guardFile,  \* identity of the file under the guard's name
          control,    \* identity of the control directory (and lock file)
          guardFd,    \* identity each process opened as its guard; 0: none
          lockFd,     \* identity of the workspace.lock it opened; 0: none
          seenControl,\* _control_identity, recorded before the lock file
          marker,     \* creator of the active-task.json in the directory
          activity,   \* _activity_identity of each lock object
          leftover    \* TRUE while processes of a crashed task are alive

files == <<guardFile, control>>
fds == <<guardFd, lockFd, seenControl>>
vars == <<pc, mode, socket, files, fds, marker, activity, leftover>>

Steps == {"idle", "openGuard", "lockGuard", "openLock", "flockLock", "check",
          "held", "create", "created", "running", "clear", "unlink",
          "release"}

TypeOK ==
    /\ pc \in [Procs -> Steps]
    /\ mode \in [Procs -> {"task", "recover", "failed"}]
    /\ socket \in Procs \cup {Nobody}
    /\ guardFile \in Nat \ {0} /\ control \in Nat \ {0}
    /\ guardFd \in [Procs -> Nat] /\ lockFd \in [Procs -> Nat]
    /\ seenControl \in [Procs -> Nat]
    /\ marker \in Procs \cup {Nobody}
    /\ activity \in [Procs -> Procs \cup {Nobody}]
    /\ leftover \in BOOLEAN

Init ==
    /\ pc = [p \in Procs |-> "idle"]
    /\ mode = [p \in Procs |-> "task"]
    /\ socket = Nobody
    /\ guardFile = 1 /\ control = 1
    /\ guardFd = [p \in Procs |-> 0]
    /\ lockFd = [p \in Procs |-> 0]
    /\ seenControl = [p \in Procs |-> 0]
    /\ marker = Nobody
    /\ activity = [p \in Procs |-> Nobody]
    /\ leftover = FALSE

Goto(p, step) == pc' = [pc EXCEPT ![p] = step]

\* Give up: close what was taken, guard first (the except clauses of acquire).
Abandon(p) == Goto(p, "release") /\ mode' = [mode EXCEPT ![p] = "failed"]

\* Mutant of LockFree: the file of the lock is opened, and that is all.
AnyOpens(p) == p \in Procs

\* The flock on an open file is granted unless another process has it.
GuardFree(p) == \A q \in Procs \ {p} :
    pc[q] = "lockGuard" \/ guardFd[q] # guardFd[p]
LockFree(p) == \A q \in Procs \ {p} :
    pc[q] = "flockLock" \/ lockFd[q] # lockFd[p]

\* ensure_workspace_stable: what was opened is still what the names denote.
Stable(p) ==
    /\ guardFd[p] = guardFile
    /\ lockFd[p] = control /\ seenControl[p] = control
-----------------------------------------------------------------------------
(***************************************************************************)
(* acquire                                                                 *)
(***************************************************************************)
\* Mutant of BindSocket: the guard file is enough.
SkipSocket(p) == UNCHANGED socket /\ Goto(p, "openGuard")

BindSocket(p) ==
    /\ IF HasNamespaceGuard THEN socket = Nobody /\ socket' = p
                            ELSE UNCHANGED socket
    /\ Goto(p, "openGuard")

BeginTask(p) ==
    /\ pc[p] = "idle"
    \* While a person recovers the workspace they start no task in it.
    /\ \A q \in Procs : pc[q] # "idle" => mode[q] # "recover"
    /\ BindSocket(p)
    /\ mode' = [mode EXCEPT ![p] = "task"]
    /\ UNCHANGED <<files, fds, marker, activity, leftover>>

\* Mutant of Confirmed: a recovery that asks nobody.
Unasked == TRUE

\* recover_stale_activity.  The person confirms that neither a task nor a
\* process left over by one is alive.
Confirmed == ~leftover /\ \A q \in Procs : pc[q] # "idle" => mode[q] = "recover"

BeginRecovery(p) ==
    /\ pc[p] = "idle"
    /\ Confirmed
    /\ BindSocket(p)
    /\ mode' = [mode EXCEPT ![p] = "recover"]
    /\ UNCHANGED <<files, fds, marker, activity, leftover>>

OpenGuard(p) ==
    /\ pc[p] = "openGuard"
    /\ guardFd' = [guardFd EXCEPT ![p] = guardFile]
    /\ Goto(p, "lockGuard")
    /\ UNCHANGED <<mode, socket, files, lockFd, seenControl, marker, activity,
                   leftover>>

\* On success the identity of the control directory is recorded next.
LockGuard(p) ==
    /\ pc[p] = "lockGuard"
    /\ \/ /\ GuardFree(p)
          /\ seenControl' = [seenControl EXCEPT ![p] = control]
          /\ Goto(p, "openLock")
          /\ UNCHANGED <<mode, guardFd>>
       \/ /\ ~GuardFree(p)
          /\ guardFd' = [guardFd EXCEPT ![p] = 0]
          /\ Abandon(p)
          /\ UNCHANGED seenControl
    /\ UNCHANGED <<socket, files, lockFd, marker, activity, leftover>>

OpenLock(p) ==
    /\ pc[p] = "openLock"
    /\ lockFd' = [lockFd EXCEPT ![p] = control]
    /\ Goto(p, "flockLock")
    /\ UNCHANGED <<mode, socket, files, guardFd, seenControl, marker, activity,
                   leftover>>

FlockLock(p) ==
    /\ pc[p] = "flockLock"
    /\ \/ /\ LockFree(p)
          /\ Goto(p, "check")
          /\ UNCHANGED <<mode, lockFd>>
       \/ /\ ~LockFree(p)
          /\ lockFd' = [lockFd EXCEPT ![p] = 0]
          /\ Abandon(p)
    /\ UNCHANGED <<socket, files, guardFd, seenControl, marker, activity,
                   leftover>>

\* A marker left behind stops a task; a recovery takes charge of exactly it.
CheckActivity(p) ==
    /\ pc[p] = "check"
    /\ \/ /\ mode[p] = "task" /\ marker # Nobody
          /\ Abandon(p)
          /\ UNCHANGED activity
       \/ /\ mode[p] = "recover" \/ marker = Nobody
          /\ activity' = [activity EXCEPT ![p] = marker]
          /\ Goto(p, "held")
          /\ UNCHANGED mode
    /\ UNCHANGED <<socket, files, fds, marker, leftover>>
-----------------------------------------------------------------------------
(***************************************************************************)
(* mark_active, the task, clear_active                                     *)
(***************************************************************************)
\* A task verifies the files before it marks; a recovery goes on to clear the
\* marker it took charge of, or closes when there was none.
LeaveHeld(p) ==
    /\ pc[p] = "held"
    /\ \/ mode[p] = "task" /\ Stable(p) /\ Goto(p, "create")
       \/ mode[p] = "task" /\ ~Stable(p) /\ Goto(p, "release")
       \/ mode[p] = "recover" /\ activity[p] # Nobody /\ Goto(p, "clear")
       \/ mode[p] = "recover" /\ activity[p] = Nobody /\ Goto(p, "release")
    /\ UNCHANGED <<mode, socket, files, fds, marker, activity, leftover>>

\* The exclusive creation of active-task.json.
CreateMarker(p) ==
    /\ pc[p] = "create"
    /\ \/ marker = Nobody /\ marker' = p /\ Goto(p, "created")
       \/ marker # Nobody /\ Goto(p, "release") /\ UNCHANGED marker
    /\ UNCHANGED <<mode, socket, files, fds, activity, leftover>>

\* write, fsync and the identity check.  When one fails the file stays on the
\* disk and the lock object does not know it as its own.
ConfirmMarker(p) ==
    /\ pc[p] = "created"
    /\ \/ /\ marker = p
          /\ activity' = [activity EXCEPT ![p] = p]
          /\ Goto(p, "running")
       \/ Goto(p, "release") /\ UNCHANGED activity
    /\ UNCHANGED <<mode, socket, files, fds, marker, leftover>>

\* The runtime hands the workspace on only when every resource of the task
\* is confirmed gone (_release_workspace_lock_if_safe).
EndTask(p) ==
    /\ pc[p] = "running"
    /\ Goto(p, "clear")
    /\ UNCHANGED <<mode, socket, files, fds, marker, activity, leftover>>

\* When the checks fail a task keeps its lock (the call raises and may be made
\* again: no change of state), a recovery closes it.
VerifyMarker(p) ==
    /\ pc[p] = "clear"
    /\ \/ Stable(p) /\ marker = activity[p] /\ Goto(p, "unlink")
       \/ /\ mode[p] = "recover"
          /\ ~(Stable(p) /\ marker = activity[p])
          /\ Goto(p, "release")
    /\ UNCHANGED <<mode, socket, files, fds, marker, activity, leftover>>

Unlink(p) ==
    /\ pc[p] = "unlink"
    /\ \/ /\ marker # Nobody
          /\ marker' = Nobody
          /\ activity' = [activity EXCEPT ![p] = Nobody]
          /\ Goto(p, "release")
       \/ /\ marker = Nobody
          /\ Goto(p, IF mode[p] = "recover" THEN "release" ELSE "clear")
          /\ UNCHANGED <<marker, activity>>
    /\ UNCHANGED <<mode, socket, files, fds, leftover>>
-----------------------------------------------------------------------------
(***************************************************************************)
(* close: inner lock first, socket last; a failed acquire closes the guard *)
(* before the inner lock.                                                  *)
(***************************************************************************)
\* Mutant of CloseLock: the lock file is deleted with the lock.
DeleteLock(p) ==
    /\ pc[p] = "release" /\ lockFd[p] # 0
    /\ mode[p] = "failed" => guardFd[p] = 0
    /\ lockFd' = [lockFd EXCEPT ![p] = 0]
    /\ control' = control + 1
    /\ UNCHANGED <<pc, mode, socket, guardFile, guardFd, seenControl, marker,
                   activity, leftover>>

CloseLock(p) ==
    /\ pc[p] = "release" /\ lockFd[p] # 0
    /\ mode[p] = "failed" => guardFd[p] = 0
    /\ lockFd' = [lockFd EXCEPT ![p] = 0]
    /\ UNCHANGED <<pc, mode, socket, files, guardFd, seenControl, marker,
                   activity, leftover>>

CloseGuard(p) ==
    /\ pc[p] = "release" /\ guardFd[p] # 0
    /\ mode[p] # "failed" => lockFd[p] = 0
    /\ guardFd' = [guardFd EXCEPT ![p] = 0]
    /\ UNCHANGED <<pc, mode, socket, files, lockFd, seenControl, marker,
                   activity, leftover>>

FreeSocket(p) == socket' = IF socket = p THEN Nobody ELSE socket

CloseSocket(p) ==
    /\ pc[p] = "release" /\ guardFd[p] = 0 /\ lockFd[p] = 0
    /\ FreeSocket(p)
    /\ activity' = [activity EXCEPT ![p] = Nobody]
    /\ seenControl' = [seenControl EXCEPT ![p] = 0]
    /\ Goto(p, "idle")
    /\ UNCHANGED <<mode, files, guardFd, lockFd, marker, leftover>>
-----------------------------------------------------------------------------
(***************************************************************************)
(* The world: processes die, what they started may outlive them, and files *)
(* are replaced.                                                           *)
(***************************************************************************)
Crash(p) ==
    /\ pc[p] # "idle"
    /\ FreeSocket(p)
    /\ guardFd' = [guardFd EXCEPT ![p] = 0]
    /\ lockFd' = [lockFd EXCEPT ![p] = 0]
    /\ seenControl' = [seenControl EXCEPT ![p] = 0]
    /\ activity' = [activity EXCEPT ![p] = Nobody]
    /\ \/ UNCHANGED leftover
       \/ pc[p] = "running" /\ leftover' = TRUE
    /\ Goto(p, "idle")
    /\ UNCHANGED <<mode, files, marker>>

LeftoverExits ==
    /\ leftover /\ leftover' = FALSE
    /\ UNCHANGED <<pc, mode, socket, files, fds, marker, activity>>

ReplaceGuard ==
    /\ "guard" \in Tamperable /\ guardFile <= MaxReplacements
    /\ guardFile' = guardFile + 1
    /\ UNCHANGED <<pc, mode, socket, control, fds, marker, activity, leftover>>

\* A new directory has neither the old lock file nor the old marker.
ReplaceControl ==
    /\ "control" \in Tamperable /\ control <= MaxReplacements
    /\ control' = control + 1
    /\ marker' = Nobody
    /\ UNCHANGED <<pc, mode, socket, guardFile, fds, activity, leftover>>

Acquire(p) == BeginTask(p) \/ BeginRecovery(p) \/ OpenGuard(p) \/ LockGuard(p)
              \/ OpenLock(p) \/ FlockLock(p) \/ CheckActivity(p)
Mark(p) == LeaveHeld(p) \/ CreateMarker(p) \/ ConfirmMarker(p)
Clear(p) == EndTask(p) \/ VerifyMarker(p) \/ Unlink(p)
Close(p) == CloseLock(p) \/ CloseGuard(p) \/ CloseSocket(p)

Next ==
    \/ LeftoverExits \/ ReplaceGuard \/ ReplaceControl
    \/ \E p \in Procs : Acquire(p) \/ Mark(p) \/ Clear(p) \/ Close(p) \/ Crash(p)

Spec == Init /\ [][Next]_vars
-----------------------------------------------------------------------------
(***************************************************************************)
(* Properties                                                              *)
(***************************************************************************)
\* A process owns the workspace from the flock on its inner lock until it
\* starts to close.
Owns(p) == pc[p] \in {"check", "held", "create", "created", "running",
                      "clear", "unlink"}

\* No two processes ever own the workspace, whatever files are replaced at
\* whatever moment (the same root admits one task at a time, README).
MutualExclusion == \A p, q \in Procs : Owns(p) /\ Owns(q) => p = q

\* A task never runs beside what a crashed task left behind: the marker of
\* the crash keeps acquire refusing until a person has confirmed the rest is
\* gone.  Replacing the control directory takes the marker away with it.
NoTaskBesideLeftovers ==
    leftover /\ control = 1 => \A p \in Procs : pc[p] # "running"

\* A marker goes away, other than with its whole directory, only at the hands
\* of the lock object that made it or took charge of it, although clear_active
\* checks and unlinks in two system calls.
ExactMarkerCleared ==
    [][marker # Nobody /\ marker' = Nobody /\ control' = control
         => \E p \in Procs : pc[p] = "unlink" /\ activity[p] = marker]_vars

\* The lock implements the abstract exclusion: begin, finish, vanish and
\* recover are all it ever does.  (Whoever replaces the control directory of a
\* crashed task recovers the workspace, or lets the task vanish unseen.)
AtWork(p) ==
    mode[p] = "task" /\ pc[p] \in {"held", "create", "created", "running",
                                  "clear", "unlink"}

owner == IF \E p \in Procs : AtWork(p) THEN CHOOSE p \in Procs : AtWork(p)
                                       ELSE Nobody
stale == marker # Nobody /\ owner = Nobody

Exclusion == INSTANCE WorkspaceExclusion WITH
    Procs <- Procs, Nobody <- Nobody, owner <- owner, stale <- stale
Implements == Exclusion!Spec
=============================================================================
