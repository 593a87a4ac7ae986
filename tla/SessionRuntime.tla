--------------------------- MODULE SessionRuntime ---------------------------
(***************************************************************************)
(* Who may use a SessionRuntime (session/runtime.py) and when: the task    *)
(* lock, the flags behind the task-state lock, the reference to the        *)
(* workspace lock, the pending cleanup and the order in which run_task,    *)
(* refresh_memory, close, cleanup_pending_resources, the idle operations   *)
(* and undo touch them, from any threads at once.                          *)
(*                                                                         *)
(* A step is what a thread does between two points where another thread    *)
(* may come in and notice: one critical section of _task_state_lock, one   *)
(* non-blocking try of _task_lock, one read or write of a field that is    *)
(* used outside both.  Inside the workspace lock only what a second thread *)
(* of this process can disturb is kept (see WorkspaceLock for the rest).   *)
(*                                                                         *)
(* Left out: what the agent does, the database, the gate's comparison; a   *)
(* step of theirs succeeds or fails.  The short lock that an activation    *)
(* takes and closes in one call appears as a busy workspace.               *)
(***************************************************************************)
EXTENDS Naturals

CONSTANTS Threads, NoThread,
          Hosts,        \* the programs that may have opened the runtime
          MaxLocks      \* bound on the workspace locks ever acquired

Operations == {"run", "refresh", "close", "cleanup", "change", "prepare",
               "confirm", "cancelUndo", "cancel", "shutdown"}

ASSUME ThreadAssumption == NoThread \notin Threads
ASSUME HostsAssumption ==
    Hosts \subseteq [calls : [Threads -> SUBSET Operations],
                     dialogues : SUBSET Threads]
ASSUME MaxLocksAssumption == MaxLocks \in Nat

\* WorkspaceLock objects are numbered as acquired.
NoLock == 0

VARIABLES
    host,             \* the program that has the runtime open
    pc, call, after,  \* of each thread: its place, its operation, and where
                      \* a shared ending returns to
    taskLock,         \* the thread holding _task_lock
    active, accepts,  \* _task_active, _task_accepts_cancellation
    token,            \* the thread whose token is _task_cancellation
    cancelled,        \* the threads whose token is cancelled
    shutdown, closeRequested, closed,
    session,          \* TRUE while the SessionLock is held
    undo,             \* _pending_undo_binding is set
    workspaceLock,    \* _workspace_lock: a lock object or NoLock
    ownership,        \* the local variable of that name in each thread
    mine,             \* the lock a thread acquired in its present call
    holder,           \* the lock object that owns the workspace, or NoLock
    marker,           \* the lock object whose activity marker is on the disk
    activity,         \* the lock objects with an _activity_identity
    acquired,         \* how many lock objects there have been
    alive,            \* the locks under which resources are still alive
    pending,          \* _pending_cleanup: the same, once a task gave up
    outcome,          \* the committed result of each thread's last task
    owed,             \* a close() was turned away, none has run since
    refused           \* the lock, not closed since, that the disk would not clear

thread == <<pc, call, after>>
flags == <<active, accepts, token, cancelled>>
ending == <<shutdown, closeRequested, closed, session>>
system == <<workspaceLock, ownership, holder, marker, activity, acquired>>
workspace == <<system, mine>>
resources == <<alive, pending>>
history == <<outcome, owed, refused>>
vars == <<host, thread, taskLock, flags, ending, undo, workspace, resources, history>>

\* Calls[t]: the operations that thread t may call; Dialogues: the threads that
\* answer an undo preview at once.
Calls == host.calls
Dialogues == host.dialogues

Steps == {"idle", "lockTask", "checkPending", "publish", "acquire", "gate",
          "mark", "start", "work", "commit", "finalize", "collect", "finish",
          "retryPending", "consumeClose", "disown", "refreshing", "unlock",
          "cancelToken", "tryClose", "closeBody", "handoff", "cleanup",
          "undoAcquire", "undoGate", "undoMark", "undoing", "releaseUndo",
          "ifSafe", "clear", "unlink", "forget", "closeLock", "dropLock"}

TypeOK ==
    /\ host \in Hosts
    /\ pc \in [Threads -> Steps]
    /\ call \in [Threads -> Operations \cup {"none"}]
    /\ after \in [Threads -> {"idle", "unlock", "disown"}]
    /\ taskLock \in Threads \cup {NoThread}
    /\ token \in Threads \cup {NoThread}
    /\ cancelled \in SUBSET Threads
    /\ active \in BOOLEAN /\ accepts \in BOOLEAN
    /\ shutdown \in BOOLEAN /\ closeRequested \in BOOLEAN
    /\ closed \in BOOLEAN /\ session \in BOOLEAN
    /\ undo \in BOOLEAN /\ owed \in BOOLEAN
    /\ workspaceLock \in 0 .. MaxLocks /\ holder \in 0 .. MaxLocks
    /\ marker \in 0 .. MaxLocks /\ acquired \in 0 .. MaxLocks
    /\ ownership \in [Threads -> 0 .. MaxLocks]
    /\ mine \in [Threads -> 0 .. MaxLocks]
    /\ activity \in SUBSET (0 .. MaxLocks)
    /\ alive \in SUBSET (0 .. MaxLocks) /\ pending \in SUBSET (0 .. MaxLocks)
    /\ refused \in 0 .. MaxLocks
    /\ outcome \in [Threads -> {"none", "ok", "failed", "cancelled"}]

Init ==
    /\ host \in Hosts
    /\ pc = [t \in Threads |-> "idle"]
    /\ call = [t \in Threads |-> "none"]
    /\ after = [t \in Threads |-> "idle"]
    /\ taskLock = NoThread /\ token = NoThread /\ cancelled = {}
    /\ active = FALSE /\ accepts = FALSE
    /\ shutdown = FALSE /\ closeRequested = FALSE /\ closed = FALSE
    /\ session = TRUE /\ undo = FALSE
    /\ workspaceLock = NoLock /\ holder = NoLock /\ marker = NoLock
    /\ ownership = [t \in Threads |-> NoLock]
    /\ mine = [t \in Threads |-> NoLock]
    /\ activity = {} /\ acquired = 0
    /\ alive = {} /\ pending = {}
    /\ outcome = [t \in Threads |-> "none"]
    /\ owed = FALSE /\ refused = NoLock

\* A thread moves on; one that returns forgets its call.
GotoThen(t, step, back) ==
    /\ pc' = [pc EXCEPT ![t] = step]
    /\ IF step = "idle"
       THEN call' = [call EXCEPT ![t] = "none"] /\ after' = [after EXCEPT ![t] = "idle"]
       ELSE after' = [after EXCEPT ![t] = back] /\ UNCHANGED call
Goto(t, step) == GotoThen(t, step, after[t])

\* What the hosts call (shell.py _undo_latest, tui.py _undo_worker): nobody
\* refuses an undo that was not prepared.  (Without one, cancel_undo would give
\* away a workspace lock that is kept for a pending cleanup.)
Calling(t, op) ==
    /\ op \in Calls[t]
    /\ op = "cancelUndo" => undo \/ closed
    /\ undo /\ t \in Dialogues => op \in {"confirm", "cancelUndo"}

\* A thread makes one of its calls.
Call(t, op, step) ==
    /\ pc[t] = "idle" /\ Calling(t, op)
    /\ pc' = [pc EXCEPT ![t] = step]
    /\ call' = [call EXCEPT ![t] = IF step = "idle" THEN "none" ELSE op]
    /\ UNCHANGED after
-----------------------------------------------------------------------------
(***************************************************************************)
(* run_task and refresh_memory up to the point where they own the runtime  *)
(***************************************************************************)
\* run_task looks for a pending undo before it has any lock.
CallRun(t) ==
    /\ ~undo /\ Call(t, "run", "lockTask")
    /\ UNCHANGED <<taskLock, flags, ending, undo, workspace, resources, history>>

CallRefresh(t) ==
    /\ Call(t, "refresh", "lockTask")
    /\ UNCHANGED <<taskLock, flags, ending, undo, workspace, resources, history>>

LockTask(t) ==
    /\ pc[t] = "lockTask"
    /\ \/ taskLock = NoThread /\ taskLock' = t /\ Goto(t, "checkPending")
       \/ taskLock # NoThread /\ Goto(t, "idle") /\ UNCHANGED taskLock
    /\ UNCHANGED <<flags, ending, undo, workspace, resources, history>>

\* Resources of an older task are not confirmed gone: refuse, and release the
\* task lock without a look at the exit flags.
CheckPending(t) ==
    /\ pc[t] = "checkPending"
    /\ IF pending # {} \/ active
       THEN taskLock' = NoThread /\ Goto(t, "idle")
       ELSE Goto(t, "publish") /\ UNCHANGED taskLock
    /\ UNCHANGED <<flags, ending, undo, workspace, resources, history>>

\* Token and flags appear as one snapshot, unless the runtime is leaving.
Publish(t) ==
    /\ pc[t] = "publish"
    /\ IF shutdown
       THEN Goto(t, "finish") /\ UNCHANGED flags
       ELSE /\ active' = TRUE /\ accepts' = TRUE /\ token' = t
            /\ UNCHANGED cancelled
            /\ Goto(t, IF call[t] = "run" THEN "acquire" ELSE "refreshing")
    /\ UNCHANGED <<taskLock, ending, undo, workspace, resources, history>>
-----------------------------------------------------------------------------
(***************************************************************************)
(* The task                                                                *)
(***************************************************************************)
\* WorkspaceLock.acquire, with the assignment of the new object: it needs the
\* workspace free and no marker on the disk, and may fail in any case (another
\* process has the workspace).
TakeWorkspace(t) ==
    /\ holder = NoLock /\ marker = NoLock /\ acquired < MaxLocks
    /\ acquired' = acquired + 1
    /\ holder' = acquired' /\ workspaceLock' = acquired'
    /\ mine' = [mine EXCEPT ![t] = acquired']
    /\ UNCHANGED <<ownership, marker, activity>>

Acquire(t) ==
    /\ pc[t] = "acquire"
    /\ \/ TakeWorkspace(t) /\ Goto(t, "gate")
       \/ Goto(t, "finish") /\ UNCHANGED workspace
    /\ UNCHANGED <<taskLock, flags, ending, undo, resources, history>>

\* Scan, comparison, confirmation, acceptance of the baseline.
Gate(t) ==
    /\ pc[t] = "gate"
    /\ Goto(t, "mark") \/ Goto(t, "finish")
    /\ UNCHANGED <<taskLock, flags, ending, undo, workspace, resources, history>>

\* mark_active of the object that _workspace_lock refers to by now; it fails
\* when there is none, when its descriptors are closed, or for the disk.
Mark(l) ==
    /\ l # NoLock /\ holder = l /\ marker = NoLock
    /\ marker' = l /\ activity' = activity \cup {l}
    /\ UNCHANGED <<workspaceLock, ownership, mine, holder, acquired>>

MarkActive(t) ==
    /\ pc[t] = "mark"
    /\ \/ Mark(workspaceLock) /\ Goto(t, "start")
       \/ Goto(t, "finish") /\ UNCHANGED workspace
    /\ UNCHANGED <<taskLock, flags, ending, undo, resources, history>>

\* The last look at cancellation and shutdown before the first effect.
Start(t) ==
    /\ pc[t] = "start"
    /\ IF t \in cancelled \/ shutdown
       THEN /\ outcome' = [outcome EXCEPT ![t] = "cancelled"]
            /\ Goto(t, "finish")
            /\ UNCHANGED alive
       ELSE /\ alive' = alive \cup {mine[t]}
            /\ Goto(t, "work")
            /\ UNCHANGED outcome
    /\ UNCHANGED <<taskLock, flags, ending, undo, workspace, pending, owed,
                   refused>>

\* The agent run ends; its resources are gone, or some survive it.
Work(t) ==
    /\ pc[t] = "work"
    /\ \/ alive' = alive \ {mine[t]} \/ UNCHANGED alive
    /\ Goto(t, "commit") \/ Goto(t, "collect")   \* a result, or an exception
    /\ UNCHANGED <<taskLock, flags, ending, undo, workspace, pending, history>>

\* Mutant of Commit: the flag stays up while the result is chosen.
KeepAccepting(t) ==
    /\ pc[t] = "commit"
    /\ \E result \in IF t \in cancelled THEN {"cancelled"} ELSE {"ok", "failed"} :
         outcome' = [outcome EXCEPT ![t] = result]
    /\ Goto(t, IF call[t] = "run" THEN "finalize" ELSE "finish")
    /\ UNCHANGED <<taskLock, flags, ending, undo, workspace, resources, owed,
                   refused>>

\* _commit_task_outcome: one section reads the token and stops accepting.
\* refresh_memory commits in the same way.
Commit(t) ==
    /\ pc[t] = "commit"
    /\ accepts' = FALSE
    /\ \E result \in IF t \in cancelled THEN {"cancelled"} ELSE {"ok", "failed"} :
         outcome' = [outcome EXCEPT ![t] = result]
    /\ Goto(t, IF call[t] = "run" THEN "finalize" ELSE "finish")
    /\ UNCHANGED <<taskLock, active, token, cancelled, ending, undo, workspace,
                   resources, owed, refused>>

\* The final scan may still turn a success into a failure.
Finalize(t) ==
    /\ pc[t] = "finalize"
    /\ \/ UNCHANGED outcome
       \/ outcome[t] = "ok" /\ outcome' = [outcome EXCEPT ![t] = "failed"]
    /\ Goto(t, "collect")
    /\ UNCHANGED <<taskLock, flags, ending, undo, workspace, resources, owed,
                   refused>>

Refreshing(t) ==
    /\ pc[t] = "refreshing"
    /\ Goto(t, "commit") \/ Goto(t, "finish")
    /\ UNCHANGED <<taskLock, flags, ending, undo, workspace, resources, history>>

\* What the task could not end is put on record before ownership is given up.
Collect(t) ==
    /\ pc[t] = "collect"
    /\ pending' = pending \cup (alive \cap {mine[t]})
    /\ Goto(t, "finish")
    /\ UNCHANGED <<taskLock, flags, ending, undo, workspace, alive, history>>
-----------------------------------------------------------------------------
(***************************************************************************)
(* _finish_task_ownership                                                  *)
(***************************************************************************)
Released(t) ==
    /\ active' = FALSE /\ accepts' = FALSE /\ token' = NoThread
    /\ taskLock' = NoThread
    /\ cancelled' = cancelled \ {t}
    /\ outcome' = [outcome EXCEPT ![t] = "none"]
    /\ mine' = [mine EXCEPT ![t] = NoLock]
    /\ IF call[t] = "run" THEN GotoThen(t, "ifSafe", "idle") ELSE Goto(t, "idle")

\* No exit under way: idle is published and the task lock released in the one
\* section that looked.
Finish(t) ==
    /\ pc[t] = "finish"
    /\ \/ ~shutdown /\ Released(t)
       \/ /\ shutdown /\ Goto(t, "retryPending")
          /\ UNCHANGED <<flags, taskLock, mine, outcome>>
    /\ UNCHANGED <<ending, undo, system, resources, owed, refused>>

\* _retry_pending_cleanup_locked: some of the recorded resources end.
Retry ==
    \E gone \in SUBSET pending :
        /\ pending' = pending \ gone
        /\ alive' = alive \ gone

RetryPending(t) ==
    /\ pc[t] = "retryPending"
    /\ Retry
    /\ Goto(t, "consumeClose")
    /\ UNCHANGED <<taskLock, flags, ending, undo, workspace, history>>

\* Mutant of ConsumeClose: the owner only cleans up.
ForgetRequest(t) ==
    /\ pc[t] = "consumeClose"
    /\ Goto(t, "disown")
    /\ UNCHANGED <<taskLock, flags, ending, undo, workspace, resources, history>>

\* The owner carries out a close that was requested; the flag is read without
\* the state lock.
ConsumeClose(t) ==
    /\ pc[t] = "consumeClose"
    /\ IF closeRequested THEN GotoThen(t, "closeBody", "disown")
                         ELSE Goto(t, "disown")
    /\ UNCHANGED <<taskLock, flags, ending, undo, workspace, resources, history>>

Disown(t) ==
    /\ pc[t] = "disown"
    /\ Released(t)
    /\ UNCHANGED <<ending, undo, system, resources, owed, refused>>
-----------------------------------------------------------------------------
(***************************************************************************)
(* close, request_shutdown, cancel_current, cleanup_pending_resources      *)
(***************************************************************************)
CallShutdown(t) ==
    /\ Call(t, "shutdown", "idle")
    /\ shutdown' = TRUE
    /\ UNCHANGED <<taskLock, flags, closeRequested, closed, session, undo,
                   workspace, resources, history>>

CancelCurrent ==
    IF active /\ accepts /\ token # NoThread
    THEN cancelled' = cancelled \cup {token} ELSE UNCHANGED cancelled

CallCancel(t) ==
    /\ Call(t, "cancel", "idle")
    /\ CancelCurrent
    /\ UNCHANGED <<taskLock, active, accepts, token, ending, undo, workspace,
                   resources, history>>

CallClose(t) ==
    /\ Call(t, "close", "cancelToken")
    /\ shutdown' = TRUE /\ closeRequested' = TRUE
    /\ UNCHANGED <<taskLock, flags, closed, session, undo, workspace, resources,
                   history>>

CloseCancels(t) ==
    /\ pc[t] = "cancelToken"
    /\ CancelCurrent
    /\ Goto(t, "tryClose")
    /\ UNCHANGED <<taskLock, active, accepts, token, ending, undo, workspace,
                   resources, history>>

\* Never wait for the task lock: whoever has it is left to close.
TryClose(t) ==
    /\ pc[t] = "tryClose"
    /\ \/ /\ taskLock = NoThread /\ taskLock' = t
          /\ GotoThen(t, "closeBody", "unlock")
          /\ UNCHANGED owed
       \/ /\ taskLock # NoThread
          /\ owed' = TRUE
          /\ Goto(t, "idle")
          /\ UNCHANGED taskLock
    /\ UNCHANGED <<flags, ending, undo, workspace, resources, outcome, refused>>

\* _close_locked.  The owner of a task has just retried the cleanup itself.
CloseBody(t) ==
    /\ pc[t] = "closeBody"
    /\ owed' = FALSE
    /\ \/ /\ closed
          /\ Goto(t, after[t])
          /\ UNCHANGED <<closed, session, undo, resources>>
       \/ /\ ~closed
          /\ IF after[t] = "disown" THEN UNCHANGED resources ELSE Retry
          /\ IF pending' # {}
             THEN /\ Goto(t, after[t])
                  /\ UNCHANGED <<closed, session, undo>>
             ELSE /\ closed' = TRUE /\ session' = FALSE /\ undo' = FALSE
                  /\ Goto(t, "ifSafe")
    /\ UNCHANGED <<taskLock, flags, shutdown, closeRequested, workspace, outcome,
                   refused>>

Unlock(t) ==
    /\ pc[t] = "unlock"
    /\ taskLock' = NoThread
    /\ Goto(t, "idle")
    /\ UNCHANGED <<flags, ending, undo, workspace, resources, history>>

CallCleanup(t) ==
    /\ Call(t, "cleanup", "cleanup")
    /\ taskLock = NoThread /\ taskLock' = t
    /\ UNCHANGED <<flags, ending, undo, workspace, resources, history>>

Cleanup(t) ==
    /\ pc[t] = "cleanup"
    /\ Retry
    /\ IF pending' = {} THEN GotoThen(t, "ifSafe", "unlock") ELSE Goto(t, "unlock")
    /\ UNCHANGED <<taskLock, flags, ending, undo, workspace, history>>
-----------------------------------------------------------------------------
(***************************************************************************)
(* _idle_runtime_change and the operations it guards: a change of session, *)
(* model or permission ("change"), prepare_undo, undo_latest, cancel_undo  *)
(***************************************************************************)
\* Mutant of Admitted: only a running task is in the way.
AdmitClosed(t) == ~active /\ (undo => call'[t] \in {"confirm", "cancelUndo"})

Admitted(t) ==
    /\ ~closed /\ ~closeRequested /\ ~active
    /\ undo => call'[t] \in {"confirm", "cancelUndo"}

CallChange(t) ==
    /\ taskLock = NoThread /\ taskLock' = t
    /\ \E op \in {"change", "prepare", "confirm", "cancelUndo"} :
         \E step \in {"handoff", "undoAcquire", "undoMark", "releaseUndo"} :
           /\ Call(t, op, step)
           /\ step = IF ~Admitted(t) THEN "handoff"
                     ELSE CASE op = "change"  -> "handoff"
                            [] op = "prepare" -> "undoAcquire"
                            [] op = "confirm" ->
                                 IF undo /\ workspaceLock # NoLock THEN "undoMark"
                                                                   ELSE "handoff"
                            [] op = "cancelUndo" -> "releaseUndo"
    /\ UNCHANGED <<flags, ending, undo, workspace, resources, history>>

\* The decorator's way out: unlock, or close first when that is asked for.
Handoff(t) ==
    /\ pc[t] = "handoff"
    /\ \/ /\ closeRequested /\ ~closed
          /\ GotoThen(t, "closeBody", "unlock")
          /\ UNCHANGED taskLock
       \/ /\ ~(closeRequested /\ ~closed)
          /\ taskLock' = NoThread
          /\ Goto(t, "idle")
    /\ mine' = [mine EXCEPT ![t] = NoLock]
    /\ UNCHANGED <<flags, ending, undo, system, resources, history>>

UndoAcquire(t) ==
    /\ pc[t] = "undoAcquire"
    /\ \/ TakeWorkspace(t) /\ Goto(t, "undoGate")
       \/ Goto(t, "handoff") /\ UNCHANGED workspace
    /\ UNCHANGED <<taskLock, flags, ending, undo, resources, history>>

\* A preview is bound to a snapshot and keeps the workspace, or fails.
UndoGate(t) ==
    /\ pc[t] = "undoGate"
    /\ \/ undo' = TRUE /\ Goto(t, "handoff")
       \/ undo' = undo /\ Goto(t, "releaseUndo")
    /\ UNCHANGED <<taskLock, flags, ending, workspace, resources, history>>

UndoMark(t) ==
    /\ pc[t] = "undoMark"
    /\ \/ /\ Mark(workspaceLock) /\ Goto(t, "undoing")
       \/ Goto(t, "releaseUndo") /\ UNCHANGED workspace   \* stale preview, disk
    /\ UNCHANGED <<taskLock, flags, ending, undo, resources, history>>

Undoing(t) ==
    /\ pc[t] = "undoing"
    /\ Goto(t, "releaseUndo")
    /\ UNCHANGED <<taskLock, flags, ending, undo, workspace, resources, history>>

\* Mutant of ReleaseUndo: the preview is dropped and its lock is not.
DropPreview(t) ==
    /\ pc[t] = "releaseUndo"
    /\ undo' = FALSE
    /\ Goto(t, "handoff")
    /\ UNCHANGED <<taskLock, flags, ending, workspace, resources, history>>

ReleaseUndo(t) ==
    /\ pc[t] = "releaseUndo"
    /\ undo' = FALSE
    /\ ownership' = [ownership EXCEPT ![t] = workspaceLock]
    /\ Goto(t, IF workspaceLock = NoLock THEN "handoff" ELSE "clear")
    /\ UNCHANGED <<taskLock, flags, ending, workspaceLock, mine, holder, marker,
                   activity, acquired, resources, history>>
-----------------------------------------------------------------------------
(***************************************************************************)
(* _release_workspace_lock_if_safe.  run_task calls it after it released   *)
(* the task lock: the steps below then run beside any other thread.        *)
(***************************************************************************)
ForUndo(t) == call[t] \in {"prepare", "confirm", "cancelUndo"} /\ ~closed
Back(t) == IF ForUndo(t) THEN "handoff" ELSE after[t]

Return(t) == Goto(t, Back(t))

\* A lock object nobody refers to any more is finalized: the system lock goes.
Finalized(ref, locals) ==
    IF holder # NoLock /\ holder # ref /\ \A t \in Threads : locals[t] # holder
    THEN NoLock ELSE holder

\* Mutant of IfSafe: resources that survive the task do not keep the lock.
IfIdle(t) ==
    /\ pc[t] = "ifSafe"
    /\ IF active \/ undo \/ workspaceLock = NoLock
       THEN Return(t) /\ UNCHANGED ownership
       ELSE /\ ownership' = [ownership EXCEPT ![t] = workspaceLock]
            /\ Goto(t, "clear")
    /\ UNCHANGED <<taskLock, flags, ending, undo, workspaceLock, mine, holder,
                   marker, activity, acquired, resources, history>>

IfSafe(t) ==
    /\ pc[t] = "ifSafe"
    /\ IF pending # {} \/ active \/ undo \/ workspaceLock = NoLock
       THEN Return(t) /\ UNCHANGED ownership
       ELSE /\ ownership' = [ownership EXCEPT ![t] = workspaceLock]
            /\ Goto(t, "clear")
    /\ UNCHANGED <<taskLock, flags, ending, undo, workspaceLock, mine, holder,
                   marker, activity, acquired, resources, history>>

\* An exception leaves the task's release; the release of an undo closes the
\* lock all the same (its finally).
Raise(t) ==
    IF ForUndo(t)
    THEN Goto(t, "closeLock") /\ UNCHANGED <<ownership, holder>>
    ELSE /\ ownership' = [ownership EXCEPT ![t] = NoLock]
         /\ holder' = Finalized(workspaceLock, ownership')
         /\ Return(t)

\* The disk may refuse at any time: the directory, the guard or the marker is not
\* what it was (ensure_workspace_stable), lstat or unlink fails.
Refused(t) ==
    /\ ownership[t] \in activity
    /\ Raise(t)
    /\ refused' = ownership[t]

Clear(t) ==
    /\ pc[t] = "clear"
    /\ LET l == ownership[t] IN
       \/ /\ l \notin activity /\ Goto(t, "closeLock")
          /\ UNCHANGED <<ownership, holder, refused>>
       \/ /\ l \in activity /\ holder = l /\ marker = l
          /\ Goto(t, "unlink") /\ UNCHANGED <<ownership, holder, refused>>
       \/ /\ l \in activity /\ (holder # l \/ marker # l)
          /\ Raise(t) /\ UNCHANGED refused
       \/ Refused(t)
    /\ UNCHANGED <<taskLock, flags, ending, undo, workspaceLock, mine, marker,
                   activity, acquired, resources, outcome, owed>>

Unlink(t) ==
    /\ pc[t] = "unlink"
    /\ \/ /\ marker # NoLock /\ marker' = NoLock
          /\ Goto(t, "forget") /\ UNCHANGED <<ownership, holder, refused>>
       \/ marker = NoLock /\ Raise(t) /\ UNCHANGED <<marker, refused>>
       \/ Refused(t) /\ UNCHANGED marker
    /\ UNCHANGED <<taskLock, flags, ending, undo, workspaceLock, mine, activity,
                   acquired, resources, outcome, owed>>

Forget(t) ==
    /\ pc[t] = "forget"
    /\ activity' = activity \ {ownership[t]}
    /\ Goto(t, "closeLock")
    /\ UNCHANGED <<taskLock, flags, ending, undo, workspaceLock, ownership, mine,
                   holder, marker, acquired, resources, history>>

CloseLock(t) ==
    /\ pc[t] = "closeLock"
    /\ holder' = IF holder = ownership[t] THEN NoLock ELSE holder
    /\ refused' = IF refused = ownership[t] THEN NoLock ELSE refused
    /\ Goto(t, "dropLock")
    /\ UNCHANGED <<taskLock, flags, ending, undo, workspaceLock, ownership, mine,
                   marker, activity, acquired, resources, outcome, owed>>

DropLock(t) ==
    /\ pc[t] = "dropLock"
    /\ workspaceLock' = NoLock
    /\ ownership' = [ownership EXCEPT ![t] = NoLock]
    /\ holder' = Finalized(NoLock, ownership')
    /\ Return(t)
    /\ UNCHANGED <<taskLock, flags, ending, undo, mine, marker, activity,
                   acquired, resources, history>>
-----------------------------------------------------------------------------
Begin(t) ==
    /\ \/ CallRun(t) \/ CallRefresh(t) \/ CallShutdown(t)
       \/ CallCancel(t) \/ CallClose(t) \/ CallCleanup(t) \/ CallChange(t)
    /\ UNCHANGED host

Task(t) == \/ LockTask(t) \/ CheckPending(t) \/ Publish(t) \/ Acquire(t)
           \/ Gate(t) \/ MarkActive(t) \/ Start(t) \/ Work(t) \/ Commit(t)
           \/ Finalize(t) \/ Refreshing(t) \/ Collect(t) \/ Finish(t)
           \/ RetryPending(t) \/ ConsumeClose(t) \/ Disown(t)

Exit(t) == \/ CloseCancels(t) \/ TryClose(t) \/ CloseBody(t) \/ Unlock(t)
           \/ Cleanup(t)

Undo(t) == \/ Handoff(t) \/ UndoAcquire(t) \/ UndoGate(t) \/ UndoMark(t)
           \/ Undoing(t) \/ ReleaseUndo(t)

Release(t) == \/ IfSafe(t) \/ Clear(t) \/ Unlink(t) \/ Forget(t)
              \/ CloseLock(t) \/ DropLock(t)

\* A call that was made goes on.
Continue(t) ==
    /\ Task(t) \/ Exit(t) \/ Undo(t) \/ Release(t)
    /\ UNCHANGED host

Next == \E t \in Threads : Begin(t) \/ Continue(t)

Spec == Init /\ [][Next]_vars

\* A call that was made returns: no step waits for another thread, and what the
\* agent does is bounded by its deadlines.  Nobody is obliged to call anything.
FairSpec == Spec /\ \A t \in Threads : WF_vars(Continue(t))
-----------------------------------------------------------------------------
(***************************************************************************)
(* Properties                                                              *)
(***************************************************************************)
\* Steps at which the files of the workspace may be read or changed.
Working(t) == pc[t] \in {"gate", "mark", "start", "work", "commit", "finalize",
                         "undoGate", "undoing"} /\ call[t] # "refresh"

\* One task, refresh or undo at a time, and none once the runtime is closed
\* or has given its session away.
OneOwner ==
    \A t \in Threads : Working(t) \/ pc[t] = "refreshing"
        => taskLock = t /\ session /\ ~closed

\* A cancellation that was accepted is in the result: no task that cancel()
\* answered TRUE for is committed as a success.
AcceptedCancelCommitted ==
    \A t \in Threads : t \in cancelled => outcome[t] # "ok"

\* A close() that was turned away is carried out by whoever had the task lock
\* (the promise of close and of _finish_task_ownership): when every call has
\* returned, only resources that will not end can be in the way.
CloseNotLost ==
    (\A t \in Threads : pc[t] = "idle") /\ owed => closed \/ pending # {}

\* A host whose user waits for each operation to return: one thread makes all the
\* tasks, refreshes and undos and answers its own previews; the others may cancel,
\* close, clean up, or change something at any moment.
ByUser == {"run", "refresh", "prepare", "confirm", "cancelUndo"}
SoleCaller(w) ==
    /\ w \in Dialogues
    /\ \A t \in Threads \ {w} : Calls[t] \cap ByUser = {}
OneCaller == \E w \in Threads : SoleCaller(w)

\* The workspace is handed on only when the resources of the task are gone,
\* and whoever scans or changes it has the lock it acquired.
WorkspaceKept ==
    /\ alive # {} => holder \in alive
    /\ \A t \in Threads : Working(t) => holder # NoLock

\* An idle runtime without a pending undo or cleanup holds no workspace, unless
\* the disk refused to let go of this very lock: run_task then leaves with the
\* exception before it closes the lock.  The runtime still refers to it, so the
\* next operation that ends tries again.
IdleHoldsNoWorkspace ==
    (\A t \in Threads : pc[t] = "idle") /\ ~undo /\ pending = {}
        => holder = NoLock \/ (holder = refused /\ holder = workspaceLock)

\* On such a host the workspace is kept as long as it is needed, although
\* run_task releases it after it gave up the task lock.
KeptForOneCaller == OneCaller => WorkspaceKept

\* There every way out of a task, a refresh or an undo gives the workspace back
\* (_release_workspace_lock_if_safe), however many threads release it, as far as
\* the disk lets them.
GivenBackByOneCaller == OneCaller => IdleHoldsNoWorkspace

\* There CloseNotLost is a promise in time, as long as nobody calls
\* request_shutdown, nor cleanup_pending_resources, which takes the task lock
\* and gives it up without a look at the close: whoever had the lock gets to it.
CloseCarriedOut ==
    OneCaller /\ (\A t \in Threads : Calls[t] \cap {"shutdown", "cleanup"} = {})
        => (owed ~> closed \/ pending # {})
=============================================================================
