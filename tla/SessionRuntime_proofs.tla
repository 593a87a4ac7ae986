----------------------- MODULE SessionRuntime_proofs ------------------------
(***************************************************************************)
(* SessionRuntime for any number of threads: what holds whatever they      *)
(* call, and what holds where one of them makes all the tasks and undos.   *)
(***************************************************************************)
EXTENDS SessionRuntime, TLAPS

(***************************************************************************)
(* Ownership.  A thread past its try of the task lock has the lock until   *)
(* it unlocks; the release that run_task makes afterwards is not owned.    *)
(***************************************************************************)
TaskPcs == {"checkPending", "publish", "acquire", "gate", "mark", "start",
            "work", "commit", "finalize", "collect", "finish", "retryPending",
            "consumeClose", "disown", "refreshing"}
UndoPcs == {"undoAcquire", "undoGate", "undoMark", "undoing", "releaseUndo"}
ReleasePcs == {"ifSafe", "clear", "unlink", "forget", "closeLock", "dropLock"}

\* Steps that only an open runtime reaches.
OpenPcs == {"acquire", "gate", "mark", "start", "work", "commit", "finalize",
            "refreshing"} \cup UndoPcs

Owning(t) ==
    \/ pc[t] \in TaskPcs \cup UndoPcs
                 \cup {"unlock", "closeBody", "handoff", "cleanup"}
    \/ pc[t] \in ReleasePcs /\ (after[t] # "idle" \/ ForUndo(t))

\* The types that the argument needs.
ThreadTypes == /\ pc \in [Threads -> Steps]
               /\ call \in [Threads -> Operations \cup {"none"}]
               /\ after \in [Threads -> {"idle", "unlock", "disown"}]
               /\ outcome \in [Threads -> {"none", "ok", "failed", "cancelled"}]

LockInv == \A t \in Threads : Owning(t) => taskLock = t

\* Where a shared ending returns to, and on whose behalf.
EndingInv == \A t \in Threads :
    /\ pc[t] = "idle" => after[t] = "idle"
    /\ pc[t] = "closeBody" => after[t] # "idle"
    /\ pc[t] \in TaskPcs \cup {"lockTask"} \/ after[t] = "disown"
         => call[t] \in {"run", "refresh"}
    /\ pc[t] \in UndoPcs => call[t] \in {"prepare", "confirm", "cancelUndo"}
    /\ after[t] = "disown" => pc[t] \in ReleasePcs \cup {"closeBody", "disown"}

\* Only an exit that was asked for closes, and it closes for good.
ClosedInv ==
    /\ closed => closeRequested
    /\ closeRequested => shutdown
    /\ session <=> ~closed
    /\ \A t \in Threads :
         /\ pc[t] \in {"cancelToken", "tryClose", "closeBody"} => closeRequested
         /\ pc[t] \in OpenPcs => ~closed

OwnerInv == ThreadTypes /\ LockInv /\ EndingInv /\ ClosedInv

LEMMA OwnerInvOneOwner == OwnerInv => OneOwner
BY DEF OwnerInv, LockInv, ClosedInv, Owning, OneOwner, Working, OpenPcs, TaskPcs,
   UndoPcs

-----------------------------------------------------------------------------
LEMMA InitOwnerInv == Init => OwnerInv
BY DEF Init, OwnerInv, ThreadTypes, LockInv, EndingInv, ClosedInv, Owning, Steps,
   OpenPcs, TaskPcs, UndoPcs, ReleasePcs

\* A thread's step leaves the place of every other thread alone.
LEMMA TypesStep == ThreadTypes /\ [Next]_vars => ThreadTypes'
<1> SUFFICES ASSUME ThreadTypes, [Next]_vars PROVE ThreadTypes'
  OBVIOUS
<1> USE DEF ThreadTypes, Steps, Operations, thread, history, Goto, GotoThen, Call
<1>1. ASSUME NEW t \in Threads, Begin(t) PROVE ThreadTypes'
  BY <1>1 DEF Begin, CallRun, CallRefresh, CallShutdown, CallCancel, CallClose,
     CallCleanup, CallChange
<1>2. ASSUME NEW t \in Threads, Task(t) PROVE ThreadTypes'
  BY <1>2 DEF Task, LockTask, CheckPending, Publish, Acquire, Gate, MarkActive,
     Start, Work, Commit, Finalize, Refreshing, Collect, Finish, RetryPending,
     ConsumeClose, Disown, Released
<1>3. ASSUME NEW t \in Threads, Exit(t) PROVE ThreadTypes'
  BY <1>3 DEF Exit, CloseCancels, TryClose, CloseBody, Unlock, Cleanup
<1>4. ASSUME NEW t \in Threads, Undo(t) PROVE ThreadTypes'
  BY <1>4 DEF Undo, Handoff, UndoAcquire, UndoGate, UndoMark, Undoing, ReleaseUndo
<1>5. ASSUME NEW t \in Threads, Release(t) PROVE ThreadTypes'
  BY <1>5 DEF Release, IfSafe, Clear, Unlink, Forget, CloseLock, DropLock, Refused,
     Raise, Return, Back
<1>6. CASE UNCHANGED vars
  BY <1>6 DEF vars
<1> QED BY <1>1, <1>2, <1>3, <1>4, <1>5, <1>6 DEF Next, Continue

LEMMA OwnerStep == OwnerInv /\ [Next]_vars => LockInv' /\ EndingInv' /\ ClosedInv'
<1> DEFINE Inv == LockInv /\ EndingInv /\ ClosedInv
<1> SUFFICES ASSUME OwnerInv, [Next]_vars PROVE Inv'
  OBVIOUS
<1> USE ThreadAssumption DEF OwnerInv, ThreadTypes, LockInv, EndingInv, ClosedInv,
    Owning, ForUndo, OpenPcs, TaskPcs, UndoPcs, ReleasePcs, Goto, GotoThen, ending
<1>1. ASSUME NEW t \in Threads, Begin(t) PROVE Inv'
  <2>1. CASE CallRun(t)
    BY <2>1 DEF CallRun, Call, thread
  <2>2. CASE CallRefresh(t)
    BY <2>2 DEF CallRefresh, Call, thread
  <2>3. CASE CallShutdown(t)
    BY <2>3 DEF CallShutdown, Call, thread
  <2>4. CASE CallCancel(t)
    BY <2>4 DEF CallCancel, Call, thread
  <2>5. CASE CallClose(t)
    BY <2>5 DEF CallClose, Call, thread
  <2>6. CASE CallCleanup(t)
    BY <2>6 DEF CallCleanup, Call, thread
  <2>7. CASE CallChange(t)
    BY <2>7 DEF CallChange, Admitted, Call, thread
  <2> QED BY <1>1, <2>1, <2>2, <2>3, <2>4, <2>5, <2>6, <2>7 DEF Begin
<1>2. ASSUME NEW t \in Threads, Task(t) PROVE Inv'
  <2>1. CASE LockTask(t)
    BY <2>1 DEF LockTask
  <2>2. CASE CheckPending(t)
    BY <2>2 DEF CheckPending
  <2>3. CASE Publish(t)
    BY <2>3 DEF Publish
  <2>4. CASE Acquire(t)
    BY <2>4 DEF Acquire
  <2>5. CASE Gate(t)
    BY <2>5 DEF Gate
  <2>6. CASE MarkActive(t)
    BY <2>6 DEF MarkActive
  <2>7. CASE Start(t)
    BY <2>7 DEF Start
  <2>8. CASE Work(t)
    BY <2>8 DEF Work
  <2>9. CASE Commit(t)
    BY <2>9 DEF Commit
  <2>10. CASE Finalize(t)
    BY <2>10 DEF Finalize
  <2>11. CASE Refreshing(t)
    BY <2>11 DEF Refreshing
  <2>12. CASE Collect(t)
    BY <2>12 DEF Collect
  <2>13. CASE Finish(t)
    BY <2>13 DEF Finish, Released, thread
  <2>14. CASE RetryPending(t)
    BY <2>14 DEF RetryPending
  <2>15. CASE ConsumeClose(t)
    BY <2>15 DEF ConsumeClose
  <2>16. CASE Disown(t)
    BY <2>16 DEF Disown, Released
  <2> QED BY <1>2, <2>1, <2>2, <2>3, <2>4, <2>5, <2>6, <2>7, <2>8, <2>9, <2>10, <2>11, <2>12, <2>13, <2>14, <2>15, <2>16 DEF Task
<1>3. ASSUME NEW t \in Threads, Exit(t) PROVE Inv'
  <2>1. CASE CloseCancels(t)
    BY <2>1 DEF CloseCancels
  <2>2. CASE TryClose(t)
    BY <2>2 DEF TryClose
  <2>3. CASE CloseBody(t)
    BY <2>3 DEF CloseBody
  <2>4. CASE Unlock(t)
    BY <2>4 DEF Unlock
  <2>5. CASE Cleanup(t)
    BY <2>5 DEF Cleanup
  <2> QED BY <1>3, <2>1, <2>2, <2>3, <2>4, <2>5 DEF Exit
<1>4. ASSUME NEW t \in Threads, Undo(t) PROVE Inv'
  <2>1. CASE Handoff(t)
    BY <2>1 DEF Handoff
  <2>2. CASE UndoAcquire(t)
    BY <2>2 DEF UndoAcquire
  <2>3. CASE UndoGate(t)
    BY <2>3 DEF UndoGate
  <2>4. CASE UndoMark(t)
    BY <2>4 DEF UndoMark
  <2>5. CASE Undoing(t)
    BY <2>5 DEF Undoing
  <2>6. CASE ReleaseUndo(t)
    BY <2>6 DEF ReleaseUndo
  <2> QED BY <1>4, <2>1, <2>2, <2>3, <2>4, <2>5, <2>6 DEF Undo
<1>5. ASSUME NEW t \in Threads, Release(t) PROVE Inv'
  <2>1. CASE IfSafe(t)
    BY <2>1 DEF IfSafe, Raise, Return, Back
  <2>2. CASE Clear(t)
    BY <2>2 DEF Clear, Refused, Raise, Return, Back
  <2>3. CASE Unlink(t)
    BY <2>3 DEF Unlink, Refused, Raise, Return, Back
  <2>4. CASE Forget(t)
    BY <2>4 DEF Forget
  <2>5. CASE CloseLock(t)
    BY <2>5 DEF CloseLock
  <2>6. CASE DropLock(t)
    BY <2>6 DEF DropLock, Raise, Return, Back
  <2> QED BY <1>5, <2>1, <2>2, <2>3, <2>4, <2>5, <2>6 DEF Release
<1>6. CASE UNCHANGED vars
  BY <1>6 DEF vars, thread
<1> QED BY <1>1, <1>2, <1>3, <1>4, <1>5, <1>6 DEF Next, Continue

\* Cancellation: while it is accepted, no result is committed for the token.
CancelInv ==
    /\ accepts => token \in Threads /\ outcome[token] # "ok"
    /\ \A t \in Threads : outcome[t] = "ok" =>
         \/ pc[t] \in {"finalize", "collect", "finish", "retryPending",
                       "consumeClose", "disown"}
         \/ after[t] = "disown"

LEMMA InitCancelInv == Init => CancelInv /\ AcceptedCancelCommitted
BY ThreadAssumption DEF Init, CancelInv, AcceptedCancelCommitted

LEMMA CancelStep ==
    OwnerInv /\ CancelInv /\ AcceptedCancelCommitted /\ [Next]_vars
      => CancelInv' /\ AcceptedCancelCommitted'
<1> DEFINE Inv == CancelInv /\ AcceptedCancelCommitted
<1> SUFFICES ASSUME OwnerInv, Inv, [Next]_vars PROVE Inv'
  OBVIOUS
<1> USE ThreadAssumption DEF OwnerInv, ThreadTypes, LockInv, EndingInv, Owning,
    CancelInv, AcceptedCancelCommitted, ForUndo, TaskPcs, UndoPcs, ReleasePcs,
    Goto, GotoThen, flags, history
<1>1. ASSUME NEW t \in Threads, Begin(t) PROVE Inv'
  <2>1. CASE CallRun(t)
    BY <2>1 DEF CallRun, Call, thread
  <2>2. CASE CallRefresh(t)
    BY <2>2 DEF CallRefresh, Call, thread
  <2>3. CASE CallShutdown(t)
    BY <2>3 DEF CallShutdown, Call, thread
  <2>4. CASE CallCancel(t)
    BY <2>4 DEF CallCancel, CancelCurrent, Call, thread
  <2>5. CASE CallClose(t)
    BY <2>5 DEF CallClose, Call, thread
  <2>6. CASE CallCleanup(t)
    BY <2>6 DEF CallCleanup, Call, thread
  <2>7. CASE CallChange(t)
    BY <2>7 DEF CallChange, Call, thread
  <2> QED BY <1>1, <2>1, <2>2, <2>3, <2>4, <2>5, <2>6, <2>7 DEF Begin
<1>2. ASSUME NEW t \in Threads, Task(t) PROVE Inv'
  <2>1. CASE LockTask(t)
    BY <2>1 DEF LockTask
  <2>2. CASE CheckPending(t)
    BY <2>2 DEF CheckPending
  <2>3. CASE Publish(t)
    BY <2>3 DEF Publish
  <2>4. CASE Acquire(t)
    BY <2>4 DEF Acquire
  <2>5. CASE Gate(t)
    BY <2>5 DEF Gate
  <2>6. CASE MarkActive(t)
    BY <2>6 DEF MarkActive
  <2>7. CASE Start(t)
    BY <2>7 DEF Start
  <2>8. CASE Work(t)
    BY <2>8 DEF Work
  <2>9. CASE Commit(t)
    BY <2>9 DEF Commit
  <2>10. CASE Finalize(t)
    BY <2>10 DEF Finalize
  <2>11. CASE Refreshing(t)
    BY <2>11 DEF Refreshing
  <2>12. CASE Collect(t)
    BY <2>12 DEF Collect
  <2>13. CASE Finish(t)
    BY <2>13 DEF Finish, Released
  <2>14. CASE RetryPending(t)
    BY <2>14 DEF RetryPending
  <2>15. CASE ConsumeClose(t)
    BY <2>15 DEF ConsumeClose
  <2>16. CASE Disown(t)
    BY <2>16 DEF Disown, Released
  <2> QED BY <1>2, <2>1, <2>2, <2>3, <2>4, <2>5, <2>6, <2>7, <2>8, <2>9, <2>10, <2>11, <2>12, <2>13, <2>14, <2>15, <2>16 DEF Task
<1>3. ASSUME NEW t \in Threads, Exit(t) PROVE Inv'
  <2>1. CASE CloseCancels(t)
    BY <2>1 DEF CloseCancels, CancelCurrent
  <2>2. CASE TryClose(t)
    BY <2>2 DEF TryClose
  <2>3. CASE CloseBody(t)
    BY <2>3 DEF CloseBody
  <2>4. CASE Unlock(t)
    BY <2>4 DEF Unlock
  <2>5. CASE Cleanup(t)
    BY <2>5 DEF Cleanup
  <2> QED BY <1>3, <2>1, <2>2, <2>3, <2>4, <2>5 DEF Exit
<1>4. ASSUME NEW t \in Threads, Undo(t) PROVE Inv'
  <2>1. CASE Handoff(t)
    BY <2>1 DEF Handoff
  <2>2. CASE UndoAcquire(t)
    BY <2>2 DEF UndoAcquire
  <2>3. CASE UndoGate(t)
    BY <2>3 DEF UndoGate
  <2>4. CASE UndoMark(t)
    BY <2>4 DEF UndoMark
  <2>5. CASE Undoing(t)
    BY <2>5 DEF Undoing
  <2>6. CASE ReleaseUndo(t)
    BY <2>6 DEF ReleaseUndo
  <2> QED BY <1>4, <2>1, <2>2, <2>3, <2>4, <2>5, <2>6 DEF Undo
<1>5. ASSUME NEW t \in Threads, Release(t) PROVE Inv'
  <2>1. CASE IfSafe(t)
    BY <2>1 DEF IfSafe, Raise, Return, Back
  <2>2. CASE Clear(t)
    BY <2>2 DEF Clear, Refused, Raise, Return, Back
  <2>3. CASE Unlink(t)
    BY <2>3 DEF Unlink, Refused, Raise, Return, Back
  <2>4. CASE Forget(t)
    BY <2>4 DEF Forget
  <2>5. CASE CloseLock(t)
    BY <2>5 DEF CloseLock
  <2>6. CASE DropLock(t)
    BY <2>6 DEF DropLock, Raise, Return, Back
  <2> QED BY <1>5, <2>1, <2>2, <2>3, <2>4, <2>5, <2>6 DEF Release
<1>6. CASE UNCHANGED vars
  BY <1>6 DEF vars, thread
<1> QED BY <1>1, <1>2, <1>3, <1>4, <1>5, <1>6 DEF Next, Continue

-----------------------------------------------------------------------------
(***************************************************************************)
(* The workspace, when one thread makes all the tasks and undos.  A lock   *)
(* that is held is the one referred to; only one thread acquires, and      *)
(* whoever releases has the task lock or is that thread.                   *)
(***************************************************************************)
\* The lock objects, numbered as they are acquired.
LockTypes ==
    /\ acquired \in Nat /\ workspaceLock \in Nat /\ holder \in 0 .. acquired
    /\ ownership \in [Threads -> Nat] /\ mine \in [Threads -> Nat]
    /\ activity \subseteq 1 .. acquired

\* The others begin no task and no undo, and release only while they close or clean up.
OthersInv(w) == \A t \in Threads \ {w} :
    call[t] \notin ByUser /\ (pc[t] \in ReleasePcs => after[t] # "idle")

\* A thread that lets go of a lock has that of the workspace, if any is held, while
\* nothing is alive and nothing to be undone; nobody else refers to one.
Letting(t) == pc[t] \in ReleasePcs \ {"ifSafe"}
LettingInv == \A t \in Threads :
    IF Letting(t)
    THEN /\ ownership[t] # NoLock /\ holder \in {NoLock, ownership[t]}
         /\ alive = {} /\ ~undo
         /\ pc[t] = "dropLock" => holder = NoLock
    ELSE ownership[t] = NoLock

\* A preview is the only thing under way, and nothing of a task is alive beside it.
UndoInv(w) ==
    /\ undo => /\ pending = {} /\ alive = {} /\ ~closed /\ after[w] # "disown"
               /\ pc[w] \in {"idle", "handoff", "closeBody", "undoMark", "undoing", "releaseUndo"}
    /\ pc[w] \in UndoPcs \ {"undoAcquire"} => alive = {}
    /\ pc[w] \in {"undoGate", "undoing"} => holder # NoLock

\* What the sole caller has at each place of a task.
TaskInv(w) ==
    /\ active => pc[w] \in TaskPcs \ {"checkPending", "publish"} \/ after[w] = "disown"
    /\ pc[w] \in {"acquire", "gate", "mark", "start", "work", "finalize", "collect"}
         => call[w] = "run"
    /\ pc[w] = "refreshing" => call[w] = "refresh"
    /\ pc[w] \in TaskPcs \ {"checkPending", "finish", "retryPending", "consumeClose", "disown"}
         => pending = {}
    /\ pc[w] \in {"gate", "mark", "start", "work", "commit", "finalize", "collect"}
       /\ call[w] = "run" => mine[w] = holder /\ holder # NoLock
    /\ (pc[w] \in TaskPcs \ {"checkPending"} \/ after[w] = "disown") /\ call[w] = "refresh"
         => pending = {}

\* Resources live under the lock that is held, and are pending when their task is over.
AliveInv(w) ==
    /\ pending \subseteq alive /\ alive \subseteq {holder} \ {NoLock}
    /\ alive # pending =>
           pc[w] \in {"work", "commit", "finalize", "collect"} /\ call[w] = "run"
    /\ closed => alive = {}

\* Between two steps no lock is held that _workspace_lock does not refer to.
HeldInv == holder # NoLock => holder = workspaceLock

\* The steps that make a lock object, or its marker.
LEMMA Taking ==
    ASSUME LockTypes, NEW t \in Threads, TakeWorkspace(t)
    PROVE  LockTypes'
<1>1. PICK n \in Nat : n = acquired
  BY DEF LockTypes
<1>2. acquired' = n + 1 /\ n + 1 \in Nat /\ n + 1 \in 0 .. n + 1 /\ 1 .. n \subseteq 1 .. n + 1
  BY <1>1 DEF TakeWorkspace
<1>3. holder' = n + 1 /\ workspaceLock' = n + 1 /\ mine' = [mine EXCEPT ![t] = n + 1]
      /\ UNCHANGED <<ownership, activity>>
  BY <1>2 DEF TakeWorkspace
<1> QED BY <1>1, <1>2, <1>3 DEF LockTypes

LEMMA Marking ==
    ASSUME LockTypes, Mark(workspaceLock)
    PROVE  LockTypes'
<1>1. workspaceLock \in 1 .. acquired
  BY DEF LockTypes, Mark, NoLock
<1> QED BY <1>1 DEF LockTypes, Mark

LEMMA LockTypesStep ==
    ASSUME OwnerInv, LockTypes, [Next]_vars
    PROVE  LockTypes'
<1> USE ThreadAssumption DEF OwnerInv, ThreadTypes, EndingInv, LockTypes, Goto, GotoThen, NoLock,
    ending, flags, system, workspace, resources, history, TaskPcs, UndoPcs, ReleasePcs, ForUndo
<1>1. ASSUME NEW t \in Threads, Begin(t) PROVE LockTypes'
  <2>1. CASE CallRun(t)
    BY <2>1 DEF CallRun, Call, thread
  <2>2. CASE CallRefresh(t)
    BY <2>2 DEF CallRefresh, Call
  <2>3. CASE CallShutdown(t)
    BY <2>3 DEF CallShutdown, Call
  <2>4. CASE CallCancel(t)
    BY <2>4 DEF CallCancel, Call
  <2>5. CASE CallClose(t)
    BY <2>5 DEF CallClose, Call
  <2>6. CASE CallCleanup(t)
    BY <2>6 DEF CallCleanup, Call
  <2>7. CASE CallChange(t)
    BY <2>7 DEF CallChange, Call, Admitted
  <2> QED BY <1>1, <2>1, <2>2, <2>3, <2>4, <2>5, <2>6, <2>7 DEF Begin
<1>2. ASSUME NEW t \in Threads, Task(t) PROVE LockTypes'
  <2>1. CASE LockTask(t)
    BY <2>1 DEF LockTask
  <2>2. CASE CheckPending(t)
    BY <2>2 DEF CheckPending
  <2>3. CASE Publish(t)
    BY <2>3 DEF Publish
  <2>4. CASE Acquire(t)
    <3>1. CASE TakeWorkspace(t)
      BY <3>1, Taking
    <3>2. CASE UNCHANGED workspace
      BY <3>2
    <3> QED BY <2>4, <3>1, <3>2 DEF Acquire
  <2>5. CASE Gate(t)
    BY <2>5 DEF Gate
  <2>6. CASE MarkActive(t)
    <3>1. CASE Mark(workspaceLock)
      BY <3>1, Marking
    <3>2. CASE UNCHANGED workspace
      BY <3>2
    <3> QED BY <2>6, <3>1, <3>2 DEF MarkActive
  <2>7. CASE Start(t)
    BY <2>7 DEF Start
  <2>8. CASE Work(t)
    BY <2>8 DEF Work
  <2>9. CASE Commit(t)
    BY <2>9 DEF Commit
  <2>10. CASE Finalize(t)
    BY <2>10 DEF Finalize
  <2>11. CASE Refreshing(t)
    BY <2>11 DEF Refreshing
  <2>12. CASE Collect(t)
    BY <2>12 DEF Collect
  <2>13. CASE Finish(t)
    BY <2>13 DEF Finish, Released
  <2>14. CASE RetryPending(t)
    BY <2>14 DEF RetryPending, Retry
  <2>15. CASE ConsumeClose(t)
    BY <2>15 DEF ConsumeClose
  <2>16. CASE Disown(t)
    BY <2>16 DEF Disown, Released
  <2> QED BY <1>2, <2>1, <2>2, <2>3, <2>4, <2>5, <2>6, <2>7, <2>8, <2>9, <2>10, <2>11, <2>12, <2>13, <2>14, <2>15, <2>16 DEF Task
<1>3. ASSUME NEW t \in Threads, Exit(t) PROVE LockTypes'
  <2>1. CASE CloseCancels(t)
    BY <2>1 DEF CloseCancels
  <2>2. CASE TryClose(t)
    BY <2>2 DEF TryClose
  <2>3. CASE CloseBody(t)
    BY <2>3 DEF CloseBody, Retry
  <2>4. CASE Unlock(t)
    BY <2>4 DEF Unlock
  <2>5. CASE Cleanup(t)
    BY <2>5 DEF Cleanup, Retry
  <2> QED BY <1>3, <2>1, <2>2, <2>3, <2>4, <2>5 DEF Exit
<1>4. ASSUME NEW t \in Threads, Undo(t) PROVE LockTypes'
  <2>1. CASE Handoff(t)
    BY <2>1 DEF Handoff
  <2>2. CASE UndoAcquire(t)
    <3>1. CASE TakeWorkspace(t)
      BY <3>1, Taking
    <3>2. CASE UNCHANGED workspace
      BY <3>2
    <3> QED BY <2>2, <3>1, <3>2 DEF UndoAcquire
  <2>3. CASE UndoGate(t)
    BY <2>3 DEF UndoGate
  <2>4. CASE UndoMark(t)
    <3>1. CASE Mark(workspaceLock)
      BY <3>1, Marking
    <3>2. CASE UNCHANGED workspace
      BY <3>2
    <3> QED BY <2>4, <3>1, <3>2 DEF UndoMark
  <2>5. CASE Undoing(t)
    BY <2>5 DEF Undoing
  <2>6. CASE ReleaseUndo(t)
    BY <2>6 DEF ReleaseUndo
  <2> QED BY <1>4, <2>1, <2>2, <2>3, <2>4, <2>5, <2>6 DEF Undo
<1>5. ASSUME NEW t \in Threads, Release(t) PROVE LockTypes'
  <2>1. CASE IfSafe(t)
    BY <2>1 DEF IfSafe, Return, Back
  <2>2. CASE Clear(t)
    BY <2>2 DEF Clear, Refused, Raise, Return, Back, Finalized
  <2>3. CASE Unlink(t)
    BY <2>3 DEF Unlink, Refused, Raise, Return, Back, Finalized
  <2>4. CASE Forget(t)
    BY <2>4 DEF Forget
  <2>5. CASE CloseLock(t)
    BY <2>5 DEF CloseLock
  <2>6. CASE DropLock(t)
    BY <2>6 DEF DropLock, Return, Back, Finalized
  <2> QED BY <1>5, <2>1, <2>2, <2>3, <2>4, <2>5, <2>6 DEF Release
<1>6. CASE UNCHANGED vars
  BY <1>6 DEF vars, thread
<1> QED BY <1>1, <1>2, <1>3, <1>4, <1>5, <1>6 DEF Next, Continue

KeepInv(w) ==
    /\ OwnerInv /\ LockTypes /\ OthersInv(w) /\ LettingInv
    /\ UndoInv(w) /\ TaskInv(w) /\ AliveInv(w) /\ HeldInv

\* The others run nothing, and what they release they release with the task lock.
LEMMA OthersAreIdle ==
    ASSUME OwnerInv, NEW w \in Threads, OthersInv(w), NEW t \in Threads \ {w}
    PROVE  /\ pc[t] \notin TaskPcs \cup UndoPcs \cup {"lockTask"}
           /\ after[t] # "disown" /\ ~ForUndo(t)
           /\ pc[t] \in ReleasePcs \cup {"closeBody", "cleanup", "handoff", "unlock"}
                => taskLock = t /\ ~Owning(w)
<1>1. call[t] \notin ByUser /\ (pc[t] \in ReleasePcs => after[t] # "idle")
  BY DEF OthersInv
<1>2. pc[t] \notin TaskPcs \cup UndoPcs \cup {"lockTask"} /\ after[t] # "disown" /\ ~ForUndo(t)
  BY <1>1 DEF OwnerInv, EndingInv, ByUser, ForUndo
<1>3. pc[t] \in ReleasePcs \cup {"closeBody", "cleanup", "handoff", "unlock"} => Owning(t)
  BY <1>1 DEF Owning
<1> QED BY <1>2, <1>3 DEF OwnerInv, LockInv

LEMMA OthersStep ==
    ASSUME OwnerInv, NEW w \in Threads, SoleCaller(w), OthersInv(w), [Next]_vars
    PROVE  OthersInv(w)'
<1> USE DEF OwnerInv, ThreadTypes, EndingInv, Goto, GotoThen, ForUndo, ByUser,
    TaskPcs, UndoPcs, ReleasePcs, ending, flags, system, workspace, resources, history, OthersInv, SoleCaller
<1>1. ASSUME NEW t \in Threads, Begin(t) PROVE OthersInv(w)'
  <2>1. CASE CallRun(t)
    BY <2>1 DEF CallRun, Call, thread, Calling
  <2>2. CASE CallRefresh(t)
    BY <2>2 DEF CallRefresh, Call, Calling
  <2>3. CASE CallShutdown(t)
    BY <2>3 DEF CallShutdown, Call, Calling
  <2>4. CASE CallCancel(t)
    BY <2>4 DEF CallCancel, Call, Calling
  <2>5. CASE CallClose(t)
    BY <2>5 DEF CallClose, Call, Calling
  <2>6. CASE CallCleanup(t)
    BY <2>6 DEF CallCleanup, Call, Calling
  <2>7. CASE CallChange(t)
    BY <2>7 DEF CallChange, Call, Admitted, Calling
  <2> QED BY <1>1, <2>1, <2>2, <2>3, <2>4, <2>5, <2>6, <2>7 DEF Begin
<1>2. ASSUME NEW t \in Threads, Task(t) PROVE OthersInv(w)'
  <2>1. CASE LockTask(t)
    BY <2>1 DEF LockTask
  <2>2. CASE CheckPending(t)
    BY <2>2 DEF CheckPending
  <2>3. CASE Publish(t)
    BY <2>3 DEF Publish
  <2>4. CASE Acquire(t)
    BY <2>4 DEF Acquire, TakeWorkspace
  <2>5. CASE Gate(t)
    BY <2>5 DEF Gate
  <2>6. CASE MarkActive(t)
    BY <2>6 DEF MarkActive, Mark
  <2>7. CASE Start(t)
    BY <2>7 DEF Start
  <2>8. CASE Work(t)
    BY <2>8 DEF Work
  <2>9. CASE Commit(t)
    BY <2>9 DEF Commit
  <2>10. CASE Finalize(t)
    BY <2>10 DEF Finalize
  <2>11. CASE Refreshing(t)
    BY <2>11 DEF Refreshing
  <2>12. CASE Collect(t)
    BY <2>12 DEF Collect
  <2>13. CASE Finish(t)
    BY <2>13 DEF Finish, Released
  <2>14. CASE RetryPending(t)
    BY <2>14 DEF RetryPending, Retry
  <2>15. CASE ConsumeClose(t)
    BY <2>15 DEF ConsumeClose
  <2>16. CASE Disown(t)
    BY <2>16 DEF Disown, Released
  <2> QED BY <1>2, <2>1, <2>2, <2>3, <2>4, <2>5, <2>6, <2>7, <2>8, <2>9, <2>10, <2>11, <2>12, <2>13, <2>14, <2>15, <2>16 DEF Task
<1>3. ASSUME NEW t \in Threads, Exit(t) PROVE OthersInv(w)'
  <2>1. CASE CloseCancels(t)
    BY <2>1 DEF CloseCancels
  <2>2. CASE TryClose(t)
    BY <2>2 DEF TryClose
  <2>3. CASE CloseBody(t)
    BY <2>3 DEF CloseBody, Retry
  <2>4. CASE Unlock(t)
    BY <2>4 DEF Unlock
  <2>5. CASE Cleanup(t)
    BY <2>5 DEF Cleanup, Retry
  <2> QED BY <1>3, <2>1, <2>2, <2>3, <2>4, <2>5 DEF Exit
<1>4. ASSUME NEW t \in Threads, Undo(t) PROVE OthersInv(w)'
  <2>1. CASE Handoff(t)
    BY <2>1 DEF Handoff
  <2>2. CASE UndoAcquire(t)
    BY <2>2 DEF UndoAcquire, TakeWorkspace
  <2>3. CASE UndoGate(t)
    BY <2>3 DEF UndoGate
  <2>4. CASE UndoMark(t)
    BY <2>4 DEF UndoMark, Mark
  <2>5. CASE Undoing(t)
    BY <2>5 DEF Undoing
  <2>6. CASE ReleaseUndo(t)
    BY <2>6 DEF ReleaseUndo
  <2> QED BY <1>4, <2>1, <2>2, <2>3, <2>4, <2>5, <2>6 DEF Undo
<1>5. ASSUME NEW t \in Threads, Release(t) PROVE OthersInv(w)'
  <2>1. CASE IfSafe(t)
    BY <2>1 DEF IfSafe, Return, Back
  <2>2. CASE Clear(t)
    BY <2>2 DEF Clear, Refused, Raise, Return, Back, Finalized
  <2>3. CASE Unlink(t)
    BY <2>3 DEF Unlink, Refused, Raise, Return, Back, Finalized
  <2>4. CASE Forget(t)
    BY <2>4 DEF Forget
  <2>5. CASE CloseLock(t)
    BY <2>5 DEF CloseLock
  <2>6. CASE DropLock(t)
    BY <2>6 DEF DropLock, Return, Back, Finalized
  <2> QED BY <1>5, <2>1, <2>2, <2>3, <2>4, <2>5, <2>6 DEF Release
<1>6. CASE UNCHANGED vars
  BY <1>6 DEF vars, thread
<1> QED BY <1>1, <1>2, <1>3, <1>4, <1>5, <1>6 DEF Next, Continue
LEMMA LettingStep ==
    ASSUME NEW w \in Threads, SoleCaller(w), KeepInv(w), [Next]_vars
    PROVE  LettingInv' /\ HeldInv'
<1>0. \A s \in Threads \ {w} :
        /\ pc[s] \notin TaskPcs \cup UndoPcs \cup {"lockTask"}
        /\ after[s] # "disown" /\ ~ForUndo(s)
        /\ pc[s] \in ReleasePcs \cup {"closeBody", "cleanup", "handoff", "unlock"}
             => taskLock = s /\ ~Owning(w)
  BY OthersAreIdle DEF KeepInv
<1> USE <1>0 DEF OwnerInv, ThreadTypes, EndingInv, Goto, GotoThen, ForUndo, Owning, LockTypes, Letting, NoLock,
    TaskPcs, UndoPcs, ReleasePcs, ending, flags, system, workspace, resources, history, KeepInv, LettingInv, HeldInv
<1>1. ASSUME NEW t \in Threads, Begin(t) PROVE LettingInv' /\ HeldInv'
  <2>1. CASE CallRun(t)
    BY <2>1 DEF CallRun, Call, thread
  <2>2. CASE CallRefresh(t)
    BY <2>2 DEF CallRefresh, Call
  <2>3. CASE CallShutdown(t)
    BY <2>3 DEF CallShutdown, Call
  <2>4. CASE CallCancel(t)
    BY <2>4 DEF CallCancel, Call
  <2>5. CASE CallClose(t)
    BY <2>5 DEF CallClose, Call
  <2>6. CASE CallCleanup(t)
    BY <2>6 DEF CallCleanup, Call
  <2>7. CASE CallChange(t)
    BY <2>7 DEF CallChange, Call, Admitted
  <2> QED BY <1>1, <2>1, <2>2, <2>3, <2>4, <2>5, <2>6, <2>7 DEF Begin
<1>2. ASSUME NEW t \in Threads, Task(t) PROVE LettingInv' /\ HeldInv'
  <2>1. CASE LockTask(t)
    BY <2>1 DEF LockTask
  <2>2. CASE CheckPending(t)
    BY <2>2 DEF CheckPending
  <2>3. CASE Publish(t)
    BY <2>3 DEF Publish
  <2>4. CASE Acquire(t)
    BY <2>4 DEF Acquire, TakeWorkspace, LockInv
  <2>5. CASE Gate(t)
    BY <2>5 DEF Gate
  <2>6. CASE MarkActive(t)
    BY <2>6 DEF MarkActive, Mark
  <2>7. CASE Start(t)
    BY <2>7 DEF Start
  <2>8. CASE Work(t)
    BY <2>8 DEF Work
  <2>9. CASE Commit(t)
    BY <2>9 DEF Commit
  <2>10. CASE Finalize(t)
    BY <2>10 DEF Finalize
  <2>11. CASE Refreshing(t)
    BY <2>11 DEF Refreshing
  <2>12. CASE Collect(t)
    BY <2>12 DEF Collect
  <2>13. CASE Finish(t)
    BY <2>13 DEF Finish, Released
  <2>14. CASE RetryPending(t)
    BY <2>14 DEF RetryPending, Retry
  <2>15. CASE ConsumeClose(t)
    BY <2>15 DEF ConsumeClose
  <2>16. CASE Disown(t)
    BY <2>16 DEF Disown, Released
  <2> QED BY <1>2, <2>1, <2>2, <2>3, <2>4, <2>5, <2>6, <2>7, <2>8, <2>9, <2>10, <2>11, <2>12, <2>13, <2>14, <2>15, <2>16 DEF Task
<1>3. ASSUME NEW t \in Threads, Exit(t) PROVE LettingInv' /\ HeldInv'
  <2>1. CASE CloseCancels(t)
    BY <2>1 DEF CloseCancels
  <2>2. CASE TryClose(t)
    BY <2>2 DEF TryClose
  <2>3. CASE CloseBody(t)
    <3>1. pc[t] = "closeBody" /\ after[t] \in {"unlock", "disown"}
      BY <2>3 DEF CloseBody
    <3>2. (\A s \in Threads : alive = {} => alive' = {}) /\ (~undo => ~undo')
      BY <2>3 DEF CloseBody, Retry
    <3>3. UNCHANGED <<workspace, call, refused>>
      BY <2>3, <3>1 DEF CloseBody
    <3>4. pc' = [pc EXCEPT ![t] = "ifSafe"] \/ pc' = [pc EXCEPT ![t] = after[t]]
      BY <2>3, <3>1 DEF CloseBody
    <3>5. pc'[t] \in {"ifSafe", "unlock", "disown"} /\ \A s \in Threads \ {t} : pc'[s] = pc[s]
      BY <3>1, <3>4
    <3>6. ~Letting(t) /\ ~Letting(t)' /\ \A s \in Threads \ {t} : Letting(s)' = Letting(s)
      BY <3>1, <3>5
    <3> QED BY <3>2, <3>3, <3>5, <3>6
  <2>4. CASE Unlock(t)
    BY <2>4 DEF Unlock
  <2>5. CASE Cleanup(t)
    BY <2>5 DEF Cleanup, Retry
  <2> QED BY <1>3, <2>1, <2>2, <2>3, <2>4, <2>5 DEF Exit
<1>4. ASSUME NEW t \in Threads, Undo(t) PROVE LettingInv' /\ HeldInv'
  <2>1. CASE Handoff(t)
    BY <2>1 DEF Handoff
  <2>2. CASE UndoAcquire(t)
    BY <2>2 DEF UndoAcquire, TakeWorkspace, LockInv
  <2>3. CASE UndoGate(t)
    BY <2>3 DEF UndoGate, LockInv
  <2>4. CASE UndoMark(t)
    BY <2>4 DEF UndoMark, Mark
  <2>5. CASE Undoing(t)
    BY <2>5 DEF Undoing
  <2>6. CASE ReleaseUndo(t)
    BY <2>6 DEF ReleaseUndo, UndoInv
  <2> QED BY <1>4, <2>1, <2>2, <2>3, <2>4, <2>5, <2>6 DEF Undo
<1>5. ASSUME NEW t \in Threads, Release(t) PROVE LettingInv' /\ HeldInv'
  <2>1. CASE IfSafe(t)
    BY <2>1 DEF IfSafe, Return, Back, AliveInv, LockInv
  <2>2. CASE Clear(t)
    BY <2>2 DEF Clear, Refused, Raise, Return, Back, Finalized
  <2>3. CASE Unlink(t)
    BY <2>3 DEF Unlink, Refused, Raise, Return, Back, Finalized
  <2>4. CASE Forget(t)
    BY <2>4 DEF Forget
  <2>5. CASE CloseLock(t)
    BY <2>5 DEF CloseLock
  <2>6. CASE DropLock(t)
    BY <2>6 DEF DropLock, Return, Back, Finalized
  <2> QED BY <1>5, <2>1, <2>2, <2>3, <2>4, <2>5, <2>6 DEF Release
<1>6. CASE UNCHANGED vars
  BY <1>6 DEF vars, thread
<1> QED BY <1>1, <1>2, <1>3, <1>4, <1>5, <1>6 DEF Next, Continue

LEMMA UndoStep ==
    ASSUME NEW w \in Threads, SoleCaller(w), KeepInv(w), [Next]_vars
    PROVE  UndoInv(w)'
<1>0. \A s \in Threads \ {w} :
        /\ pc[s] \notin TaskPcs \cup UndoPcs \cup {"lockTask"}
        /\ after[s] # "disown" /\ ~ForUndo(s)
        /\ pc[s] \in ReleasePcs \cup {"closeBody", "cleanup", "handoff", "unlock"}
             => taskLock = s /\ ~Owning(w)
  BY OthersAreIdle DEF KeepInv
<1> USE <1>0 DEF OwnerInv, ThreadTypes, EndingInv, Goto, GotoThen, ForUndo, Owning, LockTypes, Letting, NoLock,
    TaskPcs, UndoPcs, ReleasePcs, ending, flags, system, workspace, resources, history, KeepInv, UndoInv, SoleCaller, ByUser
<1>1. ASSUME NEW t \in Threads, Begin(t) PROVE UndoInv(w)'
  <2>1. CASE CallRun(t)
    BY <2>1 DEF CallRun, Call, thread, Calling
  <2>2. CASE CallRefresh(t)
    BY <2>2 DEF CallRefresh, Call, Calling
  <2>3. CASE CallShutdown(t)
    BY <2>3 DEF CallShutdown, Call, Calling
  <2>4. CASE CallCancel(t)
    BY <2>4 DEF CallCancel, Call, Calling
  <2>5. CASE CallClose(t)
    BY <2>5 DEF CallClose, Call, Calling
  <2>6. CASE CallCleanup(t)
    BY <2>6 DEF CallCleanup, Call, Calling
  <2>7. CASE CallChange(t)
    BY <2>7 DEF CallChange, Call, Admitted, Calling, Operations
  <2> QED BY <1>1, <2>1, <2>2, <2>3, <2>4, <2>5, <2>6, <2>7 DEF Begin
<1>2. ASSUME NEW t \in Threads, Task(t) PROVE UndoInv(w)'
  <2>1. CASE LockTask(t)
    BY <2>1 DEF LockTask
  <2>2. CASE CheckPending(t)
    BY <2>2 DEF CheckPending
  <2>3. CASE Publish(t)
    BY <2>3 DEF Publish
  <2>4. CASE Acquire(t)
    BY <2>4 DEF Acquire, TakeWorkspace
  <2>5. CASE Gate(t)
    BY <2>5 DEF Gate
  <2>6. CASE MarkActive(t)
    BY <2>6 DEF MarkActive, Mark
  <2>7. CASE Start(t)
    BY <2>7 DEF Start
  <2>8. CASE Work(t)
    BY <2>8 DEF Work
  <2>9. CASE Commit(t)
    BY <2>9 DEF Commit
  <2>10. CASE Finalize(t)
    BY <2>10 DEF Finalize
  <2>11. CASE Refreshing(t)
    BY <2>11 DEF Refreshing
  <2>12. CASE Collect(t)
    BY <2>12 DEF Collect
  <2>13. CASE Finish(t)
    BY <2>13 DEF Finish, Released
  <2>14. CASE RetryPending(t)
    BY <2>14 DEF RetryPending, Retry
  <2>15. CASE ConsumeClose(t)
    BY <2>15 DEF ConsumeClose
  <2>16. CASE Disown(t)
    BY <2>16 DEF Disown, Released
  <2> QED BY <1>2, <2>1, <2>2, <2>3, <2>4, <2>5, <2>6, <2>7, <2>8, <2>9, <2>10, <2>11, <2>12, <2>13, <2>14, <2>15, <2>16 DEF Task
<1>3. ASSUME NEW t \in Threads, Exit(t) PROVE UndoInv(w)'
  <2>1. CASE CloseCancels(t)
    BY <2>1 DEF CloseCancels
  <2>2. CASE TryClose(t)
    BY <2>2 DEF TryClose
  <2>3. CASE CloseBody(t)
    <3>1. pc[t] = "closeBody" /\ after[t] \in {"unlock", "disown"}
      BY <2>3 DEF CloseBody
    <3>2. pending = {} => pending' = {}
      BY <2>3 DEF CloseBody, Retry
    <3>3. UNCHANGED <<workspace, call, refused>> /\ (alive = {} => alive' = {})
      BY <2>3, <3>1 DEF CloseBody, Retry
    <3>4. UNCHANGED after /\ (pc' = [pc EXCEPT ![t] = "ifSafe"] \/ pc' = [pc EXCEPT ![t] = after[t]])
      BY <2>3, <3>1 DEF CloseBody
    <3>5. pending = {} /\ ~closed => ~undo'
      BY <2>3, <3>2 DEF CloseBody
    <3>6. undo => ~undo'
      BY <3>5 DEF UndoInv
    <3> QED BY <2>3, <3>1, <3>3, <3>4, <3>6 DEF CloseBody
  <2>4. CASE Unlock(t)
    BY <2>4 DEF Unlock
  <2>5. CASE Cleanup(t)
    BY <2>5 DEF Cleanup, Retry
  <2> QED BY <1>3, <2>1, <2>2, <2>3, <2>4, <2>5 DEF Exit
<1>4. ASSUME NEW t \in Threads, Undo(t) PROVE UndoInv(w)'
  <2>1. CASE Handoff(t)
    BY <2>1 DEF Handoff
  <2>2. CASE UndoAcquire(t)
    BY <2>2 DEF UndoAcquire, TakeWorkspace, AliveInv
  <2>3. CASE UndoGate(t)
    BY <2>3 DEF UndoGate, AliveInv, ClosedInv, OpenPcs
  <2>4. CASE UndoMark(t)
    BY <2>4 DEF UndoMark, Mark, HeldInv
  <2>5. CASE Undoing(t)
    BY <2>5 DEF Undoing
  <2>6. CASE ReleaseUndo(t)
    BY <2>6 DEF ReleaseUndo
  <2> QED BY <1>4, <2>1, <2>2, <2>3, <2>4, <2>5, <2>6 DEF Undo
<1>5. ASSUME NEW t \in Threads, Release(t) PROVE UndoInv(w)'
  <2>1. CASE IfSafe(t)
    BY <2>1 DEF IfSafe, Return, Back
  <2>2. CASE Clear(t)
    BY <2>2 DEF Clear, Refused, Raise, Return, Back, Finalized
  <2>3. CASE Unlink(t)
    BY <2>3 DEF Unlink, Refused, Raise, Return, Back, Finalized
  <2>4. CASE Forget(t)
    BY <2>4 DEF Forget
  <2>5. CASE CloseLock(t)
    BY <2>5 DEF CloseLock
  <2>6. CASE DropLock(t)
    BY <2>6 DEF DropLock, Return, Back, Finalized
  <2> QED BY <1>5, <2>1, <2>2, <2>3, <2>4, <2>5, <2>6 DEF Release
<1>6. CASE UNCHANGED vars
  BY <1>6 DEF vars, thread
<1> QED BY <1>1, <1>2, <1>3, <1>4, <1>5, <1>6 DEF Next, Continue

LEMMA TaskStep ==
    ASSUME NEW w \in Threads, SoleCaller(w), KeepInv(w), [Next]_vars
    PROVE  TaskInv(w)'
<1>0. \A s \in Threads \ {w} :
        /\ pc[s] \notin TaskPcs \cup UndoPcs \cup {"lockTask"}
        /\ after[s] # "disown" /\ ~ForUndo(s)
        /\ pc[s] \in ReleasePcs \cup {"closeBody", "cleanup", "handoff", "unlock"}
             => taskLock = s /\ ~Owning(w)
  BY OthersAreIdle DEF KeepInv
<1> USE <1>0 DEF OwnerInv, ThreadTypes, EndingInv, Goto, GotoThen, ForUndo, Owning, LockTypes, Letting, NoLock,
    TaskPcs, UndoPcs, ReleasePcs, ending, flags, system, workspace, resources, history, KeepInv, TaskInv, SoleCaller, ByUser
<1>1. ASSUME NEW t \in Threads, Begin(t) PROVE TaskInv(w)'
  <2>1. CASE CallRun(t)
    BY <2>1 DEF CallRun, Call, thread, Calling
  <2>2. CASE CallRefresh(t)
    BY <2>2 DEF CallRefresh, Call, Calling
  <2>3. CASE CallShutdown(t)
    BY <2>3 DEF CallShutdown, Call, Calling
  <2>4. CASE CallCancel(t)
    BY <2>4 DEF CallCancel, Call, Calling
  <2>5. CASE CallClose(t)
    BY <2>5 DEF CallClose, Call, Calling
  <2>6. CASE CallCleanup(t)
    BY <2>6 DEF CallCleanup, Call, Calling
  <2>7. CASE CallChange(t)
    BY <2>7 DEF CallChange, Call, Admitted, Calling
  <2> QED BY <1>1, <2>1, <2>2, <2>3, <2>4, <2>5, <2>6, <2>7 DEF Begin
<1>2. ASSUME NEW t \in Threads, Task(t) PROVE TaskInv(w)'
  <2>1. CASE LockTask(t)
    BY <2>1 DEF LockTask
  <2>2. CASE CheckPending(t)
    BY <2>2 DEF CheckPending
  <2>3. CASE Publish(t)
    BY <2>3 DEF Publish
  <2>4. CASE Acquire(t)
    BY <2>4 DEF Acquire, TakeWorkspace
  <2>5. CASE Gate(t)
    BY <2>5 DEF Gate
  <2>6. CASE MarkActive(t)
    BY <2>6 DEF MarkActive, Mark, HeldInv
  <2>7. CASE Start(t)
    BY <2>7 DEF Start
  <2>8. CASE Work(t)
    BY <2>8 DEF Work
  <2>9. CASE Commit(t)
    BY <2>9 DEF Commit
  <2>10. CASE Finalize(t)
    BY <2>10 DEF Finalize
  <2>11. CASE Refreshing(t)
    BY <2>11 DEF Refreshing
  <2>12. CASE Collect(t)
    BY <2>12 DEF Collect
  <2>13. CASE Finish(t)
    BY <2>13 DEF Finish, Released
  <2>14. CASE RetryPending(t)
    BY <2>14 DEF RetryPending, Retry
  <2>15. CASE ConsumeClose(t)
    BY <2>15 DEF ConsumeClose
  <2>16. CASE Disown(t)
    BY <2>16 DEF Disown, Released
  <2> QED BY <1>2, <2>1, <2>2, <2>3, <2>4, <2>5, <2>6, <2>7, <2>8, <2>9, <2>10, <2>11, <2>12, <2>13, <2>14, <2>15, <2>16 DEF Task
<1>3. ASSUME NEW t \in Threads, Exit(t) PROVE TaskInv(w)'
  <2>1. CASE CloseCancels(t)
    BY <2>1 DEF CloseCancels
  <2>2. CASE TryClose(t)
    BY <2>2 DEF TryClose
  <2>3. CASE CloseBody(t)
    BY <2>3 DEF CloseBody, Retry
  <2>4. CASE Unlock(t)
    BY <2>4 DEF Unlock
  <2>5. CASE Cleanup(t)
    BY <2>5 DEF Cleanup, Retry
  <2> QED BY <1>3, <2>1, <2>2, <2>3, <2>4, <2>5 DEF Exit
<1>4. ASSUME NEW t \in Threads, Undo(t) PROVE TaskInv(w)'
  <2>1. CASE Handoff(t)
    BY <2>1 DEF Handoff
  <2>2. CASE UndoAcquire(t)
    BY <2>2 DEF UndoAcquire, TakeWorkspace
  <2>3. CASE UndoGate(t)
    BY <2>3 DEF UndoGate
  <2>4. CASE UndoMark(t)
    BY <2>4 DEF UndoMark, Mark
  <2>5. CASE Undoing(t)
    BY <2>5 DEF Undoing
  <2>6. CASE ReleaseUndo(t)
    BY <2>6 DEF ReleaseUndo
  <2> QED BY <1>4, <2>1, <2>2, <2>3, <2>4, <2>5, <2>6 DEF Undo
<1>5. ASSUME NEW t \in Threads, Release(t) PROVE TaskInv(w)'
  <2>1. CASE IfSafe(t)
    BY <2>1 DEF IfSafe, Return, Back
  <2>2. CASE Clear(t)
    BY <2>2 DEF Clear, Refused, Raise, Return, Back, Finalized
  <2>3. CASE Unlink(t)
    BY <2>3 DEF Unlink, Refused, Raise, Return, Back, Finalized
  <2>4. CASE Forget(t)
    BY <2>4 DEF Forget
  <2>5. CASE CloseLock(t)
    BY <2>5 DEF CloseLock
  <2>6. CASE DropLock(t)
    BY <2>6 DEF DropLock, Return, Back, Finalized
  <2> QED BY <1>5, <2>1, <2>2, <2>3, <2>4, <2>5, <2>6 DEF Release
<1>6. CASE UNCHANGED vars
  BY <1>6 DEF vars, thread
<1> QED BY <1>1, <1>2, <1>3, <1>4, <1>5, <1>6 DEF Next, Continue

LEMMA AliveStep ==
    ASSUME NEW w \in Threads, SoleCaller(w), KeepInv(w), [Next]_vars
    PROVE  AliveInv(w)'
<1>0. \A s \in Threads \ {w} :
        /\ pc[s] \notin TaskPcs \cup UndoPcs \cup {"lockTask"}
        /\ after[s] # "disown" /\ ~ForUndo(s)
        /\ pc[s] \in ReleasePcs \cup {"closeBody", "cleanup", "handoff", "unlock"}
             => taskLock = s /\ ~Owning(w)
  BY OthersAreIdle DEF KeepInv
<1> USE <1>0 DEF OwnerInv, ThreadTypes, EndingInv, Goto, GotoThen, ForUndo, Owning, LockTypes, Letting, NoLock,
    TaskPcs, UndoPcs, ReleasePcs, ending, flags, system, workspace, resources, history, KeepInv, AliveInv
<1>1. ASSUME NEW t \in Threads, Begin(t) PROVE AliveInv(w)'
  <2>1. CASE CallRun(t)
    BY <2>1 DEF CallRun, Call, thread
  <2>2. CASE CallRefresh(t)
    BY <2>2 DEF CallRefresh, Call
  <2>3. CASE CallShutdown(t)
    BY <2>3 DEF CallShutdown, Call
  <2>4. CASE CallCancel(t)
    BY <2>4 DEF CallCancel, Call
  <2>5. CASE CallClose(t)
    BY <2>5 DEF CallClose, Call
  <2>6. CASE CallCleanup(t)
    BY <2>6 DEF CallCleanup, Call
  <2>7. CASE CallChange(t)
    BY <2>7 DEF CallChange, Call, Admitted
  <2> QED BY <1>1, <2>1, <2>2, <2>3, <2>4, <2>5, <2>6, <2>7 DEF Begin
<1>2. ASSUME NEW t \in Threads, Task(t) PROVE AliveInv(w)'
  <2>1. CASE LockTask(t)
    BY <2>1 DEF LockTask
  <2>2. CASE CheckPending(t)
    BY <2>2 DEF CheckPending
  <2>3. CASE Publish(t)
    BY <2>3 DEF Publish
  <2>4. CASE Acquire(t)
    BY <2>4 DEF Acquire, TakeWorkspace, TaskInv
  <2>5. CASE Gate(t)
    BY <2>5 DEF Gate
  <2>6. CASE MarkActive(t)
    BY <2>6 DEF MarkActive, Mark
  <2>7. CASE Start(t)
    <3>1. t = w /\ mine[w] = holder /\ holder # NoLock /\ ~closed /\ UNCHANGED <<holder, pending, closed>>
      BY <2>7 DEF Start, TaskInv, ClosedInv, OpenPcs
    <3>2. CASE alive' = alive \cup {mine[t]} /\ pc'[w] = "work" /\ call'[w] = call[w] /\ call[w] = "run"
      BY <3>1, <3>2 DEF AliveInv
    <3>3. CASE UNCHANGED alive
      BY <2>7, <3>1, <3>3 DEF Start, AliveInv
    <3> QED BY <2>7, <3>1, <3>2, <3>3 DEF Start, TaskInv
  <2>8. CASE Work(t)
    <3>1. t = w /\ call[w] = "run" /\ ~closed /\ UNCHANGED <<holder, pending, closed, call>>
      BY <2>8 DEF Work, TaskInv, ClosedInv, OpenPcs
    <3>2. pc'[w] \in {"commit", "collect"}
      BY <2>8, <3>1 DEF Work
    <3>3. mine[w] = holder
      BY <2>8, <3>1 DEF Work, TaskInv
    <3>4. alive' = alive \/ alive' = alive \ {holder}
      BY <2>8, <3>1, <3>3 DEF Work
    <3>5. pending = {}
      BY <2>8, <3>1 DEF Work, TaskInv
    <3> QED BY <3>1, <3>2, <3>4, <3>5 DEF AliveInv
  <2>9. CASE Commit(t)
    BY <2>9 DEF Commit, TaskInv
  <2>10. CASE Finalize(t)
    BY <2>10 DEF Finalize, TaskInv
  <2>11. CASE Refreshing(t)
    BY <2>11 DEF Refreshing
  <2>12. CASE Collect(t)
    <3>1. t = w /\ call[w] = "run" /\ mine[w] = holder /\ UNCHANGED <<holder, alive, closed>>
      BY <2>12 DEF Collect, TaskInv
    <3>2. pending' = pending \cup (alive \cap {holder})
      BY <2>12, <3>1 DEF Collect
    <3>3. pending' = alive
      BY <3>2 DEF AliveInv
    <3> QED BY <3>1, <3>3 DEF AliveInv
  <2>13. CASE Finish(t)
    BY <2>13 DEF Finish, Released
  <2>14. CASE RetryPending(t)
    BY <2>14 DEF RetryPending, Retry
  <2>15. CASE ConsumeClose(t)
    BY <2>15 DEF ConsumeClose
  <2>16. CASE Disown(t)
    BY <2>16 DEF Disown, Released
  <2> QED BY <1>2, <2>1, <2>2, <2>3, <2>4, <2>5, <2>6, <2>7, <2>8, <2>9, <2>10, <2>11, <2>12, <2>13, <2>14, <2>15, <2>16 DEF Task
<1>3. ASSUME NEW t \in Threads, Exit(t) PROVE AliveInv(w)'
  <2>1. CASE CloseCancels(t)
    BY <2>1 DEF CloseCancels
  <2>2. CASE TryClose(t)
    BY <2>2 DEF TryClose
  <2>3. CASE CloseBody(t)
    <3>1. pc[t] = "closeBody" /\ after[t] \in {"unlock", "disown"}
      BY <2>3 DEF CloseBody
    <3>2. pc[w] \notin {"work", "commit", "finalize", "collect"}
      BY <3>1
    <3>3. alive = pending
      BY <3>2 DEF AliveInv
    <3>4. alive' = pending' /\ alive' \subseteq alive
      BY <2>3, <3>3, SMTT(30) DEF CloseBody, Retry
    <3>5. closed' => closed \/ pending' = {}
      BY <2>3 DEF CloseBody
    <3>6. UNCHANGED holder /\ (closed => alive' = {})
      BY <2>3, <3>4 DEF CloseBody, AliveInv
    <3> QED BY <3>4, <3>5, <3>6 DEF AliveInv
  <2>4. CASE Unlock(t)
    BY <2>4 DEF Unlock
  <2>5. CASE Cleanup(t)
    BY <2>5 DEF Cleanup, Retry
  <2> QED BY <1>3, <2>1, <2>2, <2>3, <2>4, <2>5 DEF Exit
<1>4. ASSUME NEW t \in Threads, Undo(t) PROVE AliveInv(w)'
  <2>1. CASE Handoff(t)
    BY <2>1 DEF Handoff
  <2>2. CASE UndoAcquire(t)
    BY <2>2 DEF UndoAcquire, TakeWorkspace
  <2>3. CASE UndoGate(t)
    BY <2>3 DEF UndoGate
  <2>4. CASE UndoMark(t)
    BY <2>4 DEF UndoMark, Mark
  <2>5. CASE Undoing(t)
    BY <2>5 DEF Undoing
  <2>6. CASE ReleaseUndo(t)
    BY <2>6 DEF ReleaseUndo
  <2> QED BY <1>4, <2>1, <2>2, <2>3, <2>4, <2>5, <2>6 DEF Undo
<1>5. ASSUME NEW t \in Threads, Release(t) PROVE AliveInv(w)'
  <2>1. CASE IfSafe(t)
    BY <2>1 DEF IfSafe, Return, Back
  <2>2. CASE Clear(t)
    BY <2>2 DEF Clear, Refused, Raise, Return, Back, Finalized, LettingInv, HeldInv
  <2>3. CASE Unlink(t)
    BY <2>3 DEF Unlink, Refused, Raise, Return, Back, Finalized, LettingInv, HeldInv
  <2>4. CASE Forget(t)
    BY <2>4 DEF Forget
  <2>5. CASE CloseLock(t)
    BY <2>5 DEF CloseLock, LettingInv
  <2>6. CASE DropLock(t)
    BY <2>6 DEF DropLock, Return, Back, Finalized, LettingInv, HeldInv
  <2> QED BY <1>5, <2>1, <2>2, <2>3, <2>4, <2>5, <2>6 DEF Release
<1>6. CASE UNCHANGED vars
  BY <1>6 DEF vars, thread
<1> QED BY <1>1, <1>2, <1>3, <1>4, <1>5, <1>6 DEF Next, Continue

(***************************************************************************)
(* Who gives the workspace back.  Of several that release one lock, the    *)
(* one that unlinks the marker goes on to close the lock, so an idle       *)
(* runtime has closed it.                                                  *)
(***************************************************************************)
\* A marker is missing only while its lock object forgets it; who finds it missing
\* is not the one that closes the lock.
MarkedInv == holder \in activity => marker = holder \/ \E t \in Threads : pc[t] = "forget"
UnlinkInv == \A t \in Threads : pc[t] = "unlink" /\ holder # NoLock =>
    marker = holder \/ \E u \in Threads : pc[u] \in {"forget", "closeLock"}

\* On its way to close the lock; the disk may refuse to let it.
Liable(t) ==
    \/ call[t] = "run" /\ (pc[t] \in TaskPcs \ {"checkPending", "publish", "acquire"}
                           \/ after[t] = "disown")
    \/ pc[t] \in UndoPcs \ {"undoAcquire"}
    \/ pc[t] = "ifSafe" /\ after[t] # "disown"
    \/ pc[t] \in {"clear", "unlink", "forget", "closeLock"}
LiableInv == holder \notin {NoLock, refused} /\ ~undo /\ pending = {}
                 => \E t \in Threads : Liable(t)

LEMMA MarkerStep ==
    ASSUME NEW w \in Threads, SoleCaller(w), KeepInv(w), MarkedInv, UnlinkInv, [Next]_vars
    PROVE  MarkedInv' /\ UnlinkInv'
<1>0. \A s \in Threads \ {w} :
        /\ pc[s] \notin TaskPcs \cup UndoPcs \cup {"lockTask"}
        /\ after[s] # "disown" /\ ~ForUndo(s)
        /\ pc[s] \in ReleasePcs \cup {"closeBody", "cleanup", "handoff", "unlock"}
             => taskLock = s /\ ~Owning(w)
  BY OthersAreIdle DEF KeepInv
<1> USE <1>0 DEF OwnerInv, ThreadTypes, EndingInv, Goto, GotoThen, ForUndo, Owning, LockTypes, Letting, NoLock,
    TaskPcs, UndoPcs, ReleasePcs, ending, flags, system, workspace, resources, history, KeepInv, LettingInv, HeldInv, MarkedInv, UnlinkInv
<1>1. ASSUME NEW t \in Threads, Begin(t) PROVE MarkedInv' /\ UnlinkInv'
  <2>1. CASE CallRun(t)
    BY <2>1 DEF CallRun, Call, thread
  <2>2. CASE CallRefresh(t)
    BY <2>2 DEF CallRefresh, Call
  <2>3. CASE CallShutdown(t)
    BY <2>3 DEF CallShutdown, Call
  <2>4. CASE CallCancel(t)
    BY <2>4 DEF CallCancel, Call
  <2>5. CASE CallClose(t)
    BY <2>5 DEF CallClose, Call
  <2>6. CASE CallCleanup(t)
    BY <2>6 DEF CallCleanup, Call
  <2>7. CASE CallChange(t)
    BY <2>7 DEF CallChange, Call, Admitted
  <2> QED BY <1>1, <2>1, <2>2, <2>3, <2>4, <2>5, <2>6, <2>7 DEF Begin
<1>2. ASSUME NEW t \in Threads, Task(t) PROVE MarkedInv' /\ UnlinkInv'
  <2>1. CASE LockTask(t)
    BY <2>1 DEF LockTask
  <2>2. CASE CheckPending(t)
    BY <2>2 DEF CheckPending
  <2>3. CASE Publish(t)
    BY <2>3 DEF Publish
  <2>4. CASE Acquire(t)
    BY <2>4 DEF Acquire, TakeWorkspace
  <2>5. CASE Gate(t)
    BY <2>5 DEF Gate
  <2>6. CASE MarkActive(t)
    BY <2>6 DEF MarkActive, Mark
  <2>7. CASE Start(t)
    BY <2>7 DEF Start
  <2>8. CASE Work(t)
    BY <2>8 DEF Work
  <2>9. CASE Commit(t)
    BY <2>9 DEF Commit
  <2>10. CASE Finalize(t)
    BY <2>10 DEF Finalize
  <2>11. CASE Refreshing(t)
    BY <2>11 DEF Refreshing
  <2>12. CASE Collect(t)
    BY <2>12 DEF Collect
  <2>13. CASE Finish(t)
    BY <2>13 DEF Finish, Released
  <2>14. CASE RetryPending(t)
    BY <2>14 DEF RetryPending, Retry
  <2>15. CASE ConsumeClose(t)
    BY <2>15 DEF ConsumeClose
  <2>16. CASE Disown(t)
    BY <2>16 DEF Disown, Released
  <2> QED BY <1>2, <2>1, <2>2, <2>3, <2>4, <2>5, <2>6, <2>7, <2>8, <2>9, <2>10, <2>11, <2>12, <2>13, <2>14, <2>15, <2>16 DEF Task
<1>3. ASSUME NEW t \in Threads, Exit(t) PROVE MarkedInv' /\ UnlinkInv'
  <2>1. CASE CloseCancels(t)
    BY <2>1 DEF CloseCancels
  <2>2. CASE TryClose(t)
    BY <2>2 DEF TryClose
  <2>3. CASE CloseBody(t)
    BY <2>3 DEF CloseBody, Retry
  <2>4. CASE Unlock(t)
    BY <2>4 DEF Unlock
  <2>5. CASE Cleanup(t)
    BY <2>5 DEF Cleanup, Retry
  <2> QED BY <1>3, <2>1, <2>2, <2>3, <2>4, <2>5 DEF Exit
<1>4. ASSUME NEW t \in Threads, Undo(t) PROVE MarkedInv' /\ UnlinkInv'
  <2>1. CASE Handoff(t)
    BY <2>1 DEF Handoff
  <2>2. CASE UndoAcquire(t)
    BY <2>2 DEF UndoAcquire, TakeWorkspace
  <2>3. CASE UndoGate(t)
    BY <2>3 DEF UndoGate
  <2>4. CASE UndoMark(t)
    BY <2>4 DEF UndoMark, Mark
  <2>5. CASE Undoing(t)
    BY <2>5 DEF Undoing
  <2>6. CASE ReleaseUndo(t)
    BY <2>6 DEF ReleaseUndo
  <2> QED BY <1>4, <2>1, <2>2, <2>3, <2>4, <2>5, <2>6 DEF Undo
<1>5. ASSUME NEW t \in Threads, Release(t) PROVE MarkedInv' /\ UnlinkInv'
  <2>1. CASE IfSafe(t)
    BY <2>1 DEF IfSafe, Return, Back
  <2>2. CASE Clear(t)
    BY <2>2 DEF Clear, Refused, Raise, Return, Back, Finalized
  <2>3. CASE Unlink(t)
    BY <2>3 DEF Unlink, Refused, Raise, Return, Back, Finalized
  <2>4. CASE Forget(t)
    BY <2>4 DEF Forget
  <2>5. CASE CloseLock(t)
    BY <2>5 DEF CloseLock
  <2>6. CASE DropLock(t)
    BY <2>6 DEF DropLock, Return, Back, Finalized
  <2> QED BY <1>5, <2>1, <2>2, <2>3, <2>4, <2>5, <2>6 DEF Release
<1>6. CASE UNCHANGED vars
  BY <1>6 DEF vars, thread
<1> QED BY <1>1, <1>2, <1>3, <1>4, <1>5, <1>6 DEF Next, Continue

LEMMA LiableStep ==
    ASSUME NEW w \in Threads, SoleCaller(w), KeepInv(w), MarkedInv, UnlinkInv, LiableInv, [Next]_vars
    PROVE  LiableInv'
<1>0. \A s \in Threads \ {w} :
        /\ pc[s] \notin TaskPcs \cup UndoPcs \cup {"lockTask"}
        /\ after[s] # "disown" /\ ~ForUndo(s)
        /\ pc[s] \in ReleasePcs \cup {"closeBody", "cleanup", "handoff", "unlock"}
             => taskLock = s /\ ~Owning(w)
  BY OthersAreIdle DEF KeepInv
<1> USE <1>0 DEF OwnerInv, ThreadTypes, EndingInv, Goto, GotoThen, ForUndo, Owning, LockTypes, Letting, NoLock,
    TaskPcs, UndoPcs, ReleasePcs, ending, flags, system, workspace, resources, history, KeepInv, LettingInv, HeldInv, LiableInv, Liable
<1>1. ASSUME NEW t \in Threads, Begin(t) PROVE LiableInv'
  <2>1. CASE CallRun(t)
    BY <2>1 DEF CallRun, Call, thread
  <2>2. CASE CallRefresh(t)
    BY <2>2 DEF CallRefresh, Call
  <2>3. CASE CallShutdown(t)
    BY <2>3 DEF CallShutdown, Call
  <2>4. CASE CallCancel(t)
    BY <2>4 DEF CallCancel, Call
  <2>5. CASE CallClose(t)
    BY <2>5 DEF CallClose, Call
  <2>6. CASE CallCleanup(t)
    BY <2>6 DEF CallCleanup, Call
  <2>7. CASE CallChange(t)
    BY <2>7 DEF CallChange, Call, Admitted
  <2> QED BY <1>1, <2>1, <2>2, <2>3, <2>4, <2>5, <2>6, <2>7 DEF Begin
<1>2. ASSUME NEW t \in Threads, Task(t) PROVE LiableInv'
  <2>1. CASE LockTask(t)
    BY <2>1 DEF LockTask
  <2>2. CASE CheckPending(t)
    BY <2>2 DEF CheckPending
  <2>3. CASE Publish(t)
    BY <2>3 DEF Publish
  <2>4. CASE Acquire(t)
    BY <2>4 DEF Acquire, TakeWorkspace, TaskInv
  <2>5. CASE Gate(t)
    BY <2>5 DEF Gate
  <2>6. CASE MarkActive(t)
    BY <2>6 DEF MarkActive, Mark
  <2>7. CASE Start(t)
    BY <2>7 DEF Start
  <2>8. CASE Work(t)
    BY <2>8 DEF Work
  <2>9. CASE Commit(t)
    BY <2>9 DEF Commit
  <2>10. CASE Finalize(t)
    BY <2>10 DEF Finalize
  <2>11. CASE Refreshing(t)
    BY <2>11 DEF Refreshing
  <2>12. CASE Collect(t)
    BY <2>12 DEF Collect
  <2>13. CASE Finish(t)
    BY <2>13 DEF Finish, Released
  <2>14. CASE RetryPending(t)
    BY <2>14 DEF RetryPending, Retry, TaskInv
  <2>15. CASE ConsumeClose(t)
    BY <2>15 DEF ConsumeClose
  <2>16. CASE Disown(t)
    BY <2>16 DEF Disown, Released
  <2> QED BY <1>2, <2>1, <2>2, <2>3, <2>4, <2>5, <2>6, <2>7, <2>8, <2>9, <2>10, <2>11, <2>12, <2>13, <2>14, <2>15, <2>16 DEF Task
<1>3. ASSUME NEW t \in Threads, Exit(t) PROVE LiableInv'
  <2>1. CASE CloseCancels(t)
    BY <2>1 DEF CloseCancels
  <2>2. CASE TryClose(t)
    BY <2>2 DEF TryClose
  <2>3. CASE CloseBody(t)
    <3>1. pc[t] = "closeBody" /\ after[t] \in {"unlock", "disown"} /\ UNCHANGED <<workspace, call, refused>>
      BY <2>3 DEF CloseBody
    <3>2. UNCHANGED after /\ (pc' = [pc EXCEPT ![t] = "ifSafe"] \/ pc' = [pc EXCEPT ![t] = after[t]])
      BY <2>3, <3>1 DEF CloseBody
    <3>3. \A s \in Threads : Liable(s) => Liable(s)'
      BY <3>1, <3>2
    <3>4. CASE UNCHANGED <<undo, pending>>
      BY <3>1, <3>3, <3>4
    <3>5. CASE pending' # {}
      BY <3>5
    <3>6. CASE after[t] = "unlock" /\ pc' = [pc EXCEPT ![t] = "ifSafe"]
      BY <3>1, <3>2, <3>6
    <3>7. CASE after[t] = "disown"
      <4>1. t = w /\ ~undo /\ UNCHANGED pending
        BY <2>3, <3>7 DEF CloseBody, UndoInv
      <4> QED BY <3>1, <3>3, <4>1
    <3> QED BY <2>3, <3>1, <3>4, <3>5, <3>6, <3>7 DEF CloseBody, Retry
  <2>4. CASE Unlock(t)
    BY <2>4 DEF Unlock
  <2>5. CASE Cleanup(t)
    BY <2>5 DEF Cleanup, Retry
  <2> QED BY <1>3, <2>1, <2>2, <2>3, <2>4, <2>5 DEF Exit
<1>4. ASSUME NEW t \in Threads, Undo(t) PROVE LiableInv'
  <2>1. CASE Handoff(t)
    BY <2>1 DEF Handoff
  <2>2. CASE UndoAcquire(t)
    BY <2>2 DEF UndoAcquire, TakeWorkspace
  <2>3. CASE UndoGate(t)
    BY <2>3 DEF UndoGate
  <2>4. CASE UndoMark(t)
    BY <2>4 DEF UndoMark, Mark
  <2>5. CASE Undoing(t)
    BY <2>5 DEF Undoing
  <2>6. CASE ReleaseUndo(t)
    BY <2>6 DEF ReleaseUndo, HeldInv
  <2> QED BY <1>4, <2>1, <2>2, <2>3, <2>4, <2>5, <2>6 DEF Undo
<1>5. ASSUME NEW t \in Threads, Release(t) PROVE LiableInv'
  <2>1. CASE IfSafe(t)
    BY <2>1 DEF IfSafe, Return, Back, TaskInv, LockInv
  <2>2. CASE Clear(t)
    BY <2>2 DEF Clear, Refused, Raise, Return, Back, Finalized, MarkedInv
  <2>3. CASE Unlink(t)
    BY <2>3 DEF Unlink, Refused, Raise, Return, Back, Finalized, UnlinkInv
  <2>4. CASE Forget(t)
    BY <2>4 DEF Forget
  <2>5. CASE CloseLock(t)
    BY <2>5 DEF CloseLock
  <2>6. CASE DropLock(t)
    BY <2>6 DEF DropLock, Return, Back, Finalized
  <2> QED BY <1>5, <2>1, <2>2, <2>3, <2>4, <2>5, <2>6 DEF Release
<1>6. CASE UNCHANGED vars
  BY <1>6 DEF vars, thread
<1> QED BY <1>1, <1>2, <1>3, <1>4, <1>5, <1>6 DEF Next, Continue

LEMMA KeepInit ==
    ASSUME NEW w \in Threads, Init
    PROVE  KeepInv(w) /\ MarkedInv /\ UnlinkInv /\ LiableInv
<1>1. OwnerInv
  BY InitOwnerInv
<1>2. LockTypes
  BY DEF Init, LockTypes, NoLock
<1>3. OthersInv(w)
  BY DEF Init, OthersInv, ByUser, ReleasePcs
<1>4. LettingInv /\ HeldInv
  BY DEF Init, LettingInv, Letting, ReleasePcs, HeldInv
<1>5. UndoInv(w) /\ TaskInv(w) /\ AliveInv(w)
  BY DEF Init, UndoInv, TaskInv, AliveInv, TaskPcs, UndoPcs
<1>6. MarkedInv /\ UnlinkInv /\ LiableInv
  BY DEF Init, MarkedInv, UnlinkInv, LiableInv
<1> QED BY <1>1, <1>2, <1>3, <1>4, <1>5, <1>6 DEF KeepInv

LEMMA KeepStep ==
    ASSUME NEW w \in Threads, SoleCaller(w),
           KeepInv(w), MarkedInv, UnlinkInv, LiableInv, [Next]_vars
    PROVE  (KeepInv(w) /\ MarkedInv /\ UnlinkInv /\ LiableInv)'
<1>1. OwnerInv'
  BY TypesStep, OwnerStep DEF OwnerInv, KeepInv
<1>2. LockTypes' /\ OthersInv(w)' /\ UndoInv(w)'
  BY LockTypesStep, OthersStep, UndoStep DEF KeepInv
<1>3. LettingInv' /\ HeldInv' /\ TaskInv(w)' /\ AliveInv(w)'
  BY LettingStep, TaskStep, AliveStep
<1>4. MarkedInv' /\ UnlinkInv' /\ LiableInv'
  BY MarkerStep, LiableStep
<1> QED BY <1>1, <1>2, <1>3, <1>4 DEF KeepInv

LEMMA KeepInvKeeps == ASSUME NEW w \in Threads, KeepInv(w) PROVE WorkspaceKept
<1>1. alive # {} => holder \in alive
  BY DEF KeepInv, AliveInv
<1>2. ASSUME NEW t \in Threads, Working(t) PROVE t = w
  BY <1>2, OthersAreIdle DEF KeepInv, Working, TaskPcs, UndoPcs
<1>3. Working(w) => holder # NoLock
  <2>1. pc[w] \in TaskPcs => call[w] \in {"run", "refresh"}
    BY DEF KeepInv, OwnerInv, EndingInv
  <2> QED BY <2>1 DEF KeepInv, TaskInv, UndoInv, Working, TaskPcs
<1> QED BY <1>1, <1>2, <1>3 DEF WorkspaceKept

LEMMA LiableGivesBack ==
    ASSUME OwnerInv, HeldInv, LiableInv PROVE IdleHoldsNoWorkspace
<1> SUFFICES ASSUME \A t \in Threads : pc[t] = "idle", ~undo, pending = {},
                    holder # NoLock
             PROVE  holder = refused /\ holder = workspaceLock
  BY DEF IdleHoldsNoWorkspace
<1>1. \A t \in Threads : ~Liable(t)
  BY DEF OwnerInv, EndingInv, Liable, TaskPcs, UndoPcs
<1> QED BY <1>1 DEF LiableInv, HeldInv


-----------------------------------------------------------------------------
(* Types *)

FlagTypes ==
    /\ taskLock \in Threads \cup {NoThread} /\ token \in Threads \cup {NoThread}
    /\ cancelled \in SUBSET Threads
    /\ active \in BOOLEAN /\ accepts \in BOOLEAN
    /\ shutdown \in BOOLEAN /\ closeRequested \in BOOLEAN
    /\ closed \in BOOLEAN /\ session \in BOOLEAN
    /\ undo \in BOOLEAN /\ owed \in BOOLEAN

\* The lock objects are the elements of L.
ObjectTypes(L) ==
    /\ workspaceLock \in L /\ holder \in L /\ marker \in L /\ acquired \in L
    /\ ownership \in [Threads -> L] /\ mine \in [Threads -> L]
    /\ activity \subseteq L /\ alive \subseteq L /\ pending \subseteq L
    /\ refused \in L

LEMMA FlagTypesStep ==
    ASSUME FlagTypes, [Next]_vars
    PROVE  FlagTypes'
<1> USE DEF FlagTypes, Goto, GotoThen, thread, flags, ending, system, workspace, resources, history
<1>1. ASSUME NEW t \in Threads, Begin(t) PROVE FlagTypes'
  <2>1. CASE CallRun(t)
    BY <2>1 DEF CallRun, Call, thread
  <2>2. CASE CallRefresh(t)
    BY <2>2 DEF CallRefresh, Call
  <2>3. CASE CallShutdown(t)
    BY <2>3 DEF CallShutdown, Call
  <2>4. CASE CallCancel(t)
    BY <2>4 DEF CallCancel, Call, CancelCurrent
  <2>5. CASE CallClose(t)
    BY <2>5 DEF CallClose, Call
  <2>6. CASE CallCleanup(t)
    BY <2>6 DEF CallCleanup, Call
  <2>7. CASE CallChange(t)
    BY <2>7 DEF CallChange, Call, Admitted
  <2> QED BY <1>1, <2>1, <2>2, <2>3, <2>4, <2>5, <2>6, <2>7 DEF Begin
<1>2. ASSUME NEW t \in Threads, Task(t) PROVE FlagTypes'
  <2>1. CASE LockTask(t)
    BY <2>1 DEF LockTask
  <2>2. CASE CheckPending(t)
    BY <2>2 DEF CheckPending
  <2>3. CASE Publish(t)
    BY <2>3 DEF Publish
  <2>4. CASE Acquire(t)
    BY <2>4 DEF Acquire, TakeWorkspace
  <2>5. CASE Gate(t)
    BY <2>5 DEF Gate
  <2>6. CASE MarkActive(t)
    BY <2>6 DEF MarkActive, Mark
  <2>7. CASE Start(t)
    BY <2>7 DEF Start
  <2>8. CASE Work(t)
    BY <2>8 DEF Work
  <2>9. CASE Commit(t)
    BY <2>9 DEF Commit
  <2>10. CASE Finalize(t)
    BY <2>10 DEF Finalize
  <2>11. CASE Refreshing(t)
    BY <2>11 DEF Refreshing
  <2>12. CASE Collect(t)
    BY <2>12 DEF Collect
  <2>13. CASE Finish(t)
    BY <2>13 DEF Finish, Released
  <2>14. CASE RetryPending(t)
    BY <2>14 DEF RetryPending, Retry
  <2>15. CASE ConsumeClose(t)
    BY <2>15 DEF ConsumeClose
  <2>16. CASE Disown(t)
    BY <2>16 DEF Disown, Released
  <2> QED BY <1>2, <2>1, <2>2, <2>3, <2>4, <2>5, <2>6, <2>7, <2>8, <2>9, <2>10, <2>11, <2>12, <2>13, <2>14, <2>15, <2>16 DEF Task
<1>3. ASSUME NEW t \in Threads, Exit(t) PROVE FlagTypes'
  <2>1. CASE CloseCancels(t)
    BY <2>1 DEF CloseCancels, CancelCurrent
  <2>2. CASE TryClose(t)
    BY <2>2 DEF TryClose
  <2>3. CASE CloseBody(t)
    BY <2>3 DEF CloseBody, Retry
  <2>4. CASE Unlock(t)
    BY <2>4 DEF Unlock
  <2>5. CASE Cleanup(t)
    BY <2>5 DEF Cleanup, Retry
  <2> QED BY <1>3, <2>1, <2>2, <2>3, <2>4, <2>5 DEF Exit
<1>4. ASSUME NEW t \in Threads, Undo(t) PROVE FlagTypes'
  <2>1. CASE Handoff(t)
    BY <2>1 DEF Handoff
  <2>2. CASE UndoAcquire(t)
    BY <2>2 DEF UndoAcquire, TakeWorkspace
  <2>3. CASE UndoGate(t)
    BY <2>3 DEF UndoGate
  <2>4. CASE UndoMark(t)
    BY <2>4 DEF UndoMark, Mark
  <2>5. CASE Undoing(t)
    BY <2>5 DEF Undoing
  <2>6. CASE ReleaseUndo(t)
    BY <2>6 DEF ReleaseUndo
  <2> QED BY <1>4, <2>1, <2>2, <2>3, <2>4, <2>5, <2>6 DEF Undo
<1>5. ASSUME NEW t \in Threads, Release(t) PROVE FlagTypes'
  <2>1. CASE IfSafe(t)
    BY <2>1 DEF IfSafe, Return, Back
  <2>2. CASE Clear(t)
    BY <2>2 DEF Clear, Refused, Raise, Return, Back, Finalized
  <2>3. CASE Unlink(t)
    BY <2>3 DEF Unlink, Refused, Raise, Return, Back, Finalized
  <2>4. CASE Forget(t)
    BY <2>4 DEF Forget
  <2>5. CASE CloseLock(t)
    BY <2>5 DEF CloseLock
  <2>6. CASE DropLock(t)
    BY <2>6 DEF DropLock, Return, Back, Finalized
  <2> QED BY <1>5, <2>1, <2>2, <2>3, <2>4, <2>5, <2>6 DEF Release
<1>6. CASE UNCHANGED vars
  BY <1>6 DEF vars, thread
<1> QED BY <1>1, <1>2, <1>3, <1>4, <1>5, <1>6 DEF Next, Continue

LEMMA ObjectTypesStep ==
    ASSUME NEW L, 0 \in L, acquired < MaxLocks => acquired + 1 \in L, ObjectTypes(L), [Next]_vars
    PROVE  ObjectTypes(L)'
<1> USE DEF ObjectTypes, NoLock, Goto, GotoThen, thread, flags, ending, system, workspace, resources, history
<1>1. ASSUME NEW t \in Threads, Begin(t) PROVE ObjectTypes(L)'
  <2>1. CASE CallRun(t)
    BY <2>1 DEF CallRun, Call, thread
  <2>2. CASE CallRefresh(t)
    BY <2>2 DEF CallRefresh, Call
  <2>3. CASE CallShutdown(t)
    BY <2>3 DEF CallShutdown, Call
  <2>4. CASE CallCancel(t)
    BY <2>4 DEF CallCancel, Call, CancelCurrent
  <2>5. CASE CallClose(t)
    BY <2>5 DEF CallClose, Call
  <2>6. CASE CallCleanup(t)
    BY <2>6 DEF CallCleanup, Call
  <2>7. CASE CallChange(t)
    BY <2>7 DEF CallChange, Call, Admitted
  <2> QED BY <1>1, <2>1, <2>2, <2>3, <2>4, <2>5, <2>6, <2>7 DEF Begin
<1>2. ASSUME NEW t \in Threads, Task(t) PROVE ObjectTypes(L)'
  <2>1. CASE LockTask(t)
    BY <2>1 DEF LockTask
  <2>2. CASE CheckPending(t)
    BY <2>2 DEF CheckPending
  <2>3. CASE Publish(t)
    BY <2>3 DEF Publish
  <2>4. CASE Acquire(t)
    BY <2>4 DEF Acquire, TakeWorkspace
  <2>5. CASE Gate(t)
    BY <2>5 DEF Gate
  <2>6. CASE MarkActive(t)
    BY <2>6 DEF MarkActive, Mark
  <2>7. CASE Start(t)
    BY <2>7 DEF Start
  <2>8. CASE Work(t)
    BY <2>8 DEF Work
  <2>9. CASE Commit(t)
    BY <2>9 DEF Commit
  <2>10. CASE Finalize(t)
    BY <2>10 DEF Finalize
  <2>11. CASE Refreshing(t)
    BY <2>11 DEF Refreshing
  <2>12. CASE Collect(t)
    BY <2>12 DEF Collect
  <2>13. CASE Finish(t)
    BY <2>13 DEF Finish, Released
  <2>14. CASE RetryPending(t)
    BY <2>14 DEF RetryPending, Retry
  <2>15. CASE ConsumeClose(t)
    BY <2>15 DEF ConsumeClose
  <2>16. CASE Disown(t)
    BY <2>16 DEF Disown, Released
  <2> QED BY <1>2, <2>1, <2>2, <2>3, <2>4, <2>5, <2>6, <2>7, <2>8, <2>9, <2>10, <2>11, <2>12, <2>13, <2>14, <2>15, <2>16 DEF Task
<1>3. ASSUME NEW t \in Threads, Exit(t) PROVE ObjectTypes(L)'
  <2>1. CASE CloseCancels(t)
    BY <2>1 DEF CloseCancels, CancelCurrent
  <2>2. CASE TryClose(t)
    BY <2>2 DEF TryClose
  <2>3. CASE CloseBody(t)
    BY <2>3 DEF CloseBody, Retry
  <2>4. CASE Unlock(t)
    BY <2>4 DEF Unlock
  <2>5. CASE Cleanup(t)
    BY <2>5 DEF Cleanup, Retry
  <2> QED BY <1>3, <2>1, <2>2, <2>3, <2>4, <2>5 DEF Exit
<1>4. ASSUME NEW t \in Threads, Undo(t) PROVE ObjectTypes(L)'
  <2>1. CASE Handoff(t)
    BY <2>1 DEF Handoff
  <2>2. CASE UndoAcquire(t)
    BY <2>2 DEF UndoAcquire, TakeWorkspace
  <2>3. CASE UndoGate(t)
    BY <2>3 DEF UndoGate
  <2>4. CASE UndoMark(t)
    BY <2>4 DEF UndoMark, Mark
  <2>5. CASE Undoing(t)
    BY <2>5 DEF Undoing
  <2>6. CASE ReleaseUndo(t)
    BY <2>6 DEF ReleaseUndo
  <2> QED BY <1>4, <2>1, <2>2, <2>3, <2>4, <2>5, <2>6 DEF Undo
<1>5. ASSUME NEW t \in Threads, Release(t) PROVE ObjectTypes(L)'
  <2>1. CASE IfSafe(t)
    BY <2>1 DEF IfSafe, Return, Back
  <2>2. CASE Clear(t)
    BY <2>2 DEF Clear, Refused, Raise, Return, Back, Finalized
  <2>3. CASE Unlink(t)
    BY <2>3 DEF Unlink, Refused, Raise, Return, Back, Finalized
  <2>4. CASE Forget(t)
    BY <2>4 DEF Forget
  <2>5. CASE CloseLock(t)
    BY <2>5 DEF CloseLock
  <2>6. CASE DropLock(t)
    BY <2>6 DEF DropLock, Return, Back, Finalized
  <2> QED BY <1>5, <2>1, <2>2, <2>3, <2>4, <2>5, <2>6 DEF Release
<1>6. CASE UNCHANGED vars
  BY <1>6 DEF vars, thread
<1> QED BY <1>1, <1>2, <1>3, <1>4, <1>5, <1>6 DEF Next, Continue

-----------------------------------------------------------------------------
LEMMA HostStays == [Next]_vars => UNCHANGED host
BY DEF Next, Begin, Continue, vars

\* The whole argument, for whoever is the sole caller.
SoleCallerInv == \A w \in Threads :
    SoleCaller(w) => KeepInv(w) /\ MarkedInv /\ UnlinkInv /\ LiableInv

LEMMA SoleCallerInit == Init => SoleCallerInv
BY KeepInit DEF SoleCallerInv

LEMMA SoleCallerStep == SoleCallerInv /\ [Next]_vars => SoleCallerInv'
<1> SUFFICES ASSUME SoleCallerInv, [Next]_vars, NEW w \in Threads, SoleCaller(w)'
             PROVE  KeepInv(w)' /\ MarkedInv' /\ UnlinkInv' /\ LiableInv'
  BY DEF SoleCallerInv
<1>1. SoleCaller(w)
  BY HostStays DEF SoleCaller, Calls, Dialogues
<1> QED BY <1>1, KeepStep DEF SoleCallerInv

-----------------------------------------------------------------------------
(***************************************************************************)
(* The theorems                                                            *)
(***************************************************************************)
\* Whatever the threads call and however they interleave, one of them at a time
\* runs a task, a memory refresh or an undo, with the task lock in its hand and
\* the session still its own (run_task, _idle_runtime_change, _close_locked).
THEOREM OneOwnerAlways == Spec => []OneOwner
<1>1. OwnerInv /\ [Next]_vars => OwnerInv'
  BY TypesStep, OwnerStep DEF OwnerInv
<1> QED BY InitOwnerInv, <1>1, OwnerInvOneOwner, PTL DEF Spec

\* A cancellation that cancel_current took is never followed by a committed
\* success of that task (_commit_task_outcome).
THEOREM CancelCommitted == Spec => []AcceptedCancelCommitted
<1> DEFINE Inv == OwnerInv /\ CancelInv /\ AcceptedCancelCommitted
<1>1. Init => Inv
  BY InitOwnerInv, InitCancelInv
<1>2. Inv /\ [Next]_vars => Inv'
  BY TypesStep, OwnerStep, CancelStep DEF OwnerInv
<1>3. Inv => AcceptedCancelCommitted
  OBVIOUS
<1> QED BY <1>1, <1>2, <1>3, PTL DEF Spec

\* Every variable keeps its type, whatever the threads call.
THEOREM Typing == Spec => []TypeOK
<1> DEFINE I == host \in Hosts /\ ThreadTypes /\ FlagTypes /\ ObjectTypes(0 .. MaxLocks)
<1>1. I <=> TypeOK
  BY DEF ThreadTypes, FlagTypes, ObjectTypes, TypeOK
<1>2. Init => I
  <2>1. 0 \in 0 .. MaxLocks
    BY MaxLocksAssumption
  <2>2. Init => ObjectTypes(0 .. MaxLocks)
    BY <2>1 DEF Init, ObjectTypes, NoLock
  <2> QED BY <2>2, InitOwnerInv DEF OwnerInv, Init, FlagTypes
<1>3. I /\ [Next]_vars => I'
  <2>1. 0 \in 0 .. MaxLocks
    BY MaxLocksAssumption
  <2>2. acquired \in 0 .. MaxLocks /\ acquired < MaxLocks => acquired + 1 \in 0 .. MaxLocks
    BY MaxLocksAssumption
  <2> QED BY <2>1, <2>2, HostStays, TypesStep, FlagTypesStep, ObjectTypesStep DEF ObjectTypes
<1> QED BY <1>1, <1>2, <1>3, PTL DEF Spec

\* Where one thread makes all the tasks and undos, resources that are alive have
\* their workspace lock, and whoever scans or changes the workspace has it
\* (_release_workspace_lock_if_safe, _retry_pending_cleanup_locked), whatever
\* the others close, clean up and cancel meanwhile.
THEOREM Kept == Spec => []KeptForOneCaller
<1>1. SoleCallerInv => KeptForOneCaller
  BY KeepInvKeeps DEF SoleCallerInv, KeptForOneCaller, OneCaller
<1> QED BY SoleCallerInit, SoleCallerStep, <1>1, PTL DEF Spec

\* There a runtime between two operations, with no undo and no cleanup pending,
\* holds no workspace (run_task, release of a preview): of several threads that
\* release one lock, some may fail, but not all.  The one exception is a lock that
\* clear_active failed on for the disk; the runtime then still refers to it.
THEOREM GivenBack == Spec => []GivenBackByOneCaller
<1>1. SoleCallerInv => GivenBackByOneCaller
  <2> SUFFICES ASSUME SoleCallerInv, NEW w \in Threads, SoleCaller(w)
               PROVE  IdleHoldsNoWorkspace
    BY DEF GivenBackByOneCaller, OneCaller
  <2>1. OwnerInv /\ HeldInv /\ LiableInv
    BY DEF SoleCallerInv, KeepInv
  <2> QED BY <2>1, LiableGivesBack
<1> QED BY SoleCallerInit, SoleCallerStep, <1>1, PTL DEF Spec
=============================================================================
