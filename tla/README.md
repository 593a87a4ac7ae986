# Tricoder in TLA+

Tricoder is a coding agent for one machine: a person types a task into a
console or a terminal UI, an agent loop asks a language model what to do, runs
the tools the model chooses (files, commands, MCP servers), checks the result
and keeps the conversation in a session database.  These modules describe the
parts of it in which the *order* of things decides whether it is right.  Each
is a translation of the Python code under `src/src/tricoder/`; paths and line
numbers below are relative to that directory.

    tlc -workers 2 -config MCTaskCleanup.cfg MCTaskCleanup
    tlapm TaskServices_proofs.tla

## 1. The system

| component | state it keeps | operations | hard because |
|---|---|---|---|
| workspace lock (`workspace/lock.py`) | an abstract socket, a guard file in the home directory, `workspace.lock` and the activity marker `active-task.json` in the control directory | acquire, mark_active, clear_active, close, recover_stale_activity | several processes, crashes, files replaced between two system calls |
| session runtime (`session/runtime.py`) | task lock, flags behind a state lock, session lock, `_workspace_lock`, pending undo, pending cleanup, current conversation | run_task, refresh_memory, close, request_shutdown, cancel_current, cleanup, session and model changes, undo | called from several threads, never waits for a lock, hands duties over instead |
| task cleanup (`task_cleanup.py`) | scopes with workers and resources; owners that keep what a task left | start_worker, abandon, retain, hand-off, retry | threads cannot be cancelled and outlive the await |
| task verification (`task_observation.py`, `engine/completion.py`, `engine/validation.py`, `workspace/verification.py`) | modified paths, evidence, check records, obligations | apply a tool's result, finish | evidence goes stale |
| baseline and gate (`workspace/gate.py`, `snapshot.py`, `baseline_record.py`) | the accepted snapshot of a workspace, in memory and as a row | scan, compare, confirm, rescan, accept, advance, recover | the workspace changes meanwhile, rows are lost, processes die |
| agent loop (`engine/loop.py`, `tool_batch.py`, `finalization.py`) | messages, round, counters | a round, a batch of calls, finish, stop | many ways out, callbacks that raise |
| progress guard, budgets (`engine/progress.py`, `engine/budget_feedback.py`) | a window of observations, an epoch of readings | observe, note an answer, note a change | what comes between repetitions; the window forgets |
| session store and lock (`session/store.py`, `session/lock.py`) | sessions with revisions in SQLite | create, save, switch, delete | compare-and-swap, crash |
| context and memory (`context/*`) | messages, summaries, long-term memory | compact, propose, review, save | a preview reviewed while its source changes |
| journal, patches, undo (`changes.py`, `patches.py`, `tools/undo.py`, `tools/write.py`) | records of changes with before-images | write, undo several files | one of several steps fails |
| tools and policy (`tools/*`, `policy.py`) | nothing between calls | read, write, search, command, diff | a command has processes, readers and a cache that outlive it |
| clarification, approval (`presentation/*_wait.py`) | a question and its answer | ask, answer, time out, cancel | the answer races the end |
| processes (`process/*`), providers (`providers.py`), MCP (`mcp/*`), extensions (`extensions/host.py`) | process trees and jobs, streams, connections, owner tasks | start, read, stop, retry | cancellation at each await, threads nobody can stop, one deadline for all |
| hosts (`presentation/tui.py`, `shell.py`, `cli.py`) | widgets, worker threads | submit, cancel, quit | which operations overlap |
| evaluation harness | - | - | outside the running system |

**How they interact.**  A host calls `SessionRuntime.run_task` on a worker
thread.  The runtime takes its own task lock, then the `WorkspaceLock`, passes
the gate, marks the workspace active and runs the agent inside a
`TaskCleanup` scope.  The agent's tools start processes and threads that
register with the scope.  At the end the runtime commits a result (reading the
cancellation token that `cancel_current` sets from another thread), advances
the baseline, puts a scope that is not empty on `_pending_cleanup`, carries out
a `close` that arrived meanwhile, gives the task lock back and then, when
nothing is pending, the workspace.  A later `close` or `cleanup` retries what is
pending.

**What makes each right.**  One task at a time in a workspace, across
processes and across crashes; one owner of a runtime; no request to close or
to cancel is forgotten; a workspace is held exactly as long as something of a
task may still write into it; nothing of an old task lives beside a new one;
a success rests on evidence for the files as they are; a baseline is the
workspace a person accepted; a saved session never loses a newer one; an undo
restores all files or none; every tool call has one result.

The `hazards` list of `PROJECT.json` names the line at which each of these can
go wrong.

## 2. The modules

| module | models | composed with |
|---|---|---|
| `WorkspaceExclusion` | the promise of the workspace lock: owner, stale | - |
| `WorkspaceLock` | `workspace/lock.py`, each system call a step | implements `WorkspaceExclusion` |
| `SessionRuntime` | ownership in `session/runtime.py` | a small part of `WorkspaceLock` inside |
| `TaskCleanup` | `task_cleanup.py`, with the calls the agent, the runtime and the process code make on it | - |
| `TaskVerification` | evidence, obligation and baseline of a session: `engine/validation.py`, `engine/completion.py`, the gate and the end of a task in `session/runtime.py` | - |
| `AgentLoop` | the loop of the agent, its batches and the conversation: `engine/loop.py`, `tool_batch.py`, `finalization.py`, the last word of `run_task` | - |
| `ProgressGuard` | the guard of a task that gets nowhere and what a batch shows it: `engine/progress.py`, `_observe_progress` of `tool_batch.py` | - |
| `SessionStore` | the rows of `session/store.py`, one transaction an operator, and the session locks | - |
| `SessionMemory` | sessions, memories and their reviews over several processes: `session/runtime.py`, `context/coordinator.py` | on `SessionStore`; implements `ExclusiveRegister` |
| `ExclusiveRegister` | what a session promises of its reviewed memory | - |
| `WorkspaceBaseline` | the accepted workspace over processes, restarts and damage: `workspace/gate.py`, `baseline_record.py`, `session/runtime.py` | on `SessionStore` |
| `ChangeJournal` | `changes.py` | - |
| `TaskFiles` | the tools that write and the undo: `tools/write.py`, `directory.py`, `undo.py` | on `ChangeJournal` |
| `UserWaits` | approvals and questions of the terminal interface: `presentation/*_wait.py`, `tui.py`, `tools/clarification.py` | - |
| `TaskScope` | what the services of a task share: its token, its one deadline, its leftovers | - |
| `ProviderStream` | a streamed request with its attempts: `providers.py`, `process/provider_stream.py` | on `TaskScope` |
| `McpServers` | the servers of a task and their requests: `mcp/*`, `extensions/host.py` | on `TaskScope` |
| `WindowsJob` | a command's processes, and the job and its observer on Windows: `process/windows_job.py` | on `TaskScope` |
| `CommandProcess` | the thread of a command, its readers, cleanup and cache: `process/control.py`, `cache.py`, `tools/command.py`, `search.py` | on `WindowsJob` |
| `TaskServices` | the task that uses all of these: `mcp/runtime.py`, `engine/loop.py` | composes `ProviderStream`, `McpServers`, `CommandProcess` |
| `MC*` | constants for TLC, and where two settings share a run the choice between them | extend the above |
| `*_proofs` | theorems | extend the above and TLAPS |

### WorkspaceLock

A process goes through `openGuard`, `lockGuard`, `openLock`, `flockLock`,
`check`, `held`, `create`, `created`, `running`, `clear`, `unlink`, `release`:
the system calls of `acquire`, `mark_active`, `clear_active` and `close` in
their order, `release` being the except clauses too.  A file is a number, its
identity; `ReplaceGuard` and `ReplaceControl` put a new number under the name.
An flock is a fact about the number a process opened, so two processes that
opened different files of one name both get theirs.  `Stable` is
`ensure_workspace_stable`.  `Crash` drops sockets and descriptors, keeps the
marker and may leave processes behind (`leftover`).  `BeginRecovery` is
`recover_stale_activity`: its `confirmed` is a person's word, and the model
takes the person at their word (`Confirmed`): no task is running, no leftover
is alive, and none is started until the recovery is over.  Left out: links,
permissions, the marker's payload, a replaced workspace root, Windows' byte
locks in place of flock.

### SessionRuntime

A step is what a thread does between two points where another can come in: one
section of `_task_state_lock`, one non-blocking try of `_task_lock`, one access
to a field that is used outside both.  `run_task` is
`CallRun, LockTask, CheckPending, Publish, Acquire, Gate, MarkActive, Start,
Work, Commit, Finalize, Collect, Finish` and, after an exit request,
`RetryPending, ConsumeClose, Disown`; then the release of the workspace,
`IfSafe, Clear, Unlink, Forget, CloseLock, DropLock`, *after* the task lock was
given up, as in the code.  `close` is `CallClose, CloseCancels, TryClose,
CloseBody, Unlock`.  The decorator `_idle_runtime_change` is `CallChange` and
`Handoff`; between them prepare_undo (`UndoAcquire, UndoGate`), undo_latest
(`UndoMark, Undoing, ReleaseUndo`), cancel_undo (`ReleaseUndo`) or any other
change.  `Calls` says which thread calls what.  A workspace-lock object is a
number; `Finalized` is its weak-reference finalizer: an object nobody refers to
gives its system locks up.  `Refused` is every error of the disk in `clear_active`
(an unstable directory, a failed lstat or unlink): an undo closes the lock all the same, a
task leaves with the exception and the lock still held.  `owed` (a `close` was turned
away and none has run since) and `refused` (the lock the disk would not clear) are history variables.

Assumed of the hosts: an undo is refused or confirmed only when it was prepared
(`Calling`), and a thread in `Dialogues` answers a preview before it does
anything else (the console's dialogue).  The TUI's exit calls `request_shutdown`
on quit, then `close`.

### TaskCleanup

A scope is a task; a worker has a lease on the scope of the task that started
it.  `owned`, `held` and `kept` are the two sides of the relation between scopes
and the owner of the agent (`_owners` of a scope, `_resources` of the owner).
`FinishWorker` and `DiscardLease` are the two halves of `_finish_worker`, which holds the
scope's lock over both and takes the owner's lock in each; everything else that
needs the scope's lock waits (`Unlocked`).  `host` is the runtime, which lists
unfinished scopes and retries them, or an agent by itself, which hands the scope
to its owner.  A deadline is the choice between closing and not closing.

### TaskVerification

One session, one task at a time (the workspace lock and the runtime see to that),
and somebody else who changes files (`Edit`) between any two steps.  A snapshot
is the contents of all paths; `Capture` is a scan, complete or given up.  `phase`
is the place in `run_task`:

    idle -> observe -> confirm -> start -> running <-> command
        EnterGate ObserveChange Confirm StartTask  BeginCommand, NotStarted, EndStable
    running -> seal -> close -> idle | revoke -> idle
        Finish, GiveUp  Seal  CloseTask  RevokeEvidence
    running | command -> raised -> idle | revoke
        Raise                CloseRaised
    running | command -> seal           (EndUnstable, WriteUncertain, WriteRefused)

`first` and `last` are the journal, `records`, `stale` and `unresolved` the tracker
with its bound, `required`, `evidence`, `failure` and `unknown` what
`SessionContext` carries, `pending` and `legacy` the obligation.  `Judge` is
`assess_finish` with its single recovery; `Seal` is the end of `_run_task_locked`
with the merge of the obligation; `CloseTask` is `_finalize_workspace_task`.  `proofs`,
`failing` and `owed` are history variables that no action reads.

Abstracted: a file has contents and nothing else; a check covers the paths `Targets`
gives it; each round has one tool call.  A scan that fails in the gate ends it with
nothing changed, and so does a gate that gave up after its confirmations: both are
`TurnAway` or no step at all.  A session that has no baseline yet takes the workspace
as it is, which is `Init`.  Unknown effects leave no record of the check behind, for a
task that has them cannot succeed.  Left out: directories, permissions, version
queries and a patch of several files; a storage that refuses the new baseline is in
`WorkspaceBaseline`, the patch and the undo are in `TaskFiles`.

### AgentLoop

A message is its kind, its place in a batch and its task; a block is the messages
of one task.  `pc` is the place in `AgentRunner.run` and in `run_task`:

    idle -> prepare -> round -> request -> call -> running -> ran -> progress -> round
       Start   Prepare BeginRound  AnswerWithCalls RunCall Result AfterCall ProgressAllows
    request -> round (BrokenAnswer);  request -> logged -> round (no call: a correction)
    ran -> assess -> close -> review -> finish    (Assess, CloseTask, Review)
           assess -> recover -> round             (one finish of a task)
    anything -> finish -> returned -> idle        (Finish, then Deliver or Reject)
    anything -> idle                              (Raise, Break)

`draft` is the task's own messages, `history` and `latest` the session's messages and
its watermark `latest_completed_task_seq`.  `Closed` is `_is_closed_task_block`,
`Continuous` is `closed_task_boundary`, `Told` and `CloseFailure` are the two places that
write the notice of a failure.  `Cancel` can come between any two steps, and `Raise` at any:
a callback, a tool or the provider's code raises, and the messages of the task are lost with
its state while its files are not.  `outcome` is a history variable.

Each read of the token is a step of its own where something the code calls lies between
it and the next one: before a call, when its result is applied, after the audit
record of a correction (loop.py:417), after the progress guard.  An audit record that
fails is a choice (`audited`).

Abstracted: warnings of the guard and feedback about checks are one message; the
arguments of calls, the messages a compaction drops and the summaries are left out, as
is the legacy protocol, where an answer holds one call and a broken one is a correction.
A message's number is its position.  `close_task` and `finish` have branches for a
history with a gap; they are in the model (`CloseTask`, `Finish`), and
`HistoryClosed` shows that no run of the loop takes them.

### ProgressGuard

One task and its guard.  A call is its tool with its arguments, as the fingerprints are;
what it brings depends on the contents it ran on.  `Brings` is a result that is looked at
(a reading that succeeded, a failure that may be tried another way); `ScanAll` and
`ScanPart` are the scan after it, complete or not, and the decision with its audit record.
`window`, `epoch` are `_observations`, `_read_epoch`; `SameFailures`, `SameReads` and
`Turns` are what the three rules count, and `Turns` are the positions of the list
`states` of `_oscillation_decision`.  `log` is a history variable with every
observation, change and answer: the properties are about it, not about what the guard
kept.  Anybody may change files between a call and its scan (`ChangeOutside`).

A repetition is judged within the last observations (`Recent`), as many as the guard keeps, but its
warning is looked for in all of the task (`Announced`).  The warning may be gone from the window when the task is
stopped.  In a window of five, let the second of six readings be warned and be followed by two other calls: the
third, fourth and fifth reading each find two like them, since the first ones leave the window one by one, and the
sixth is stopped as a fourth one, when the second is no longer there.

### SessionStore, SessionMemory, ExclusiveRegister

A method of `SessionStore` is one SQLite transaction, so one operator; whether it fails is
the caller's choice.  A process of `SessionMemory` holds its runtime's task lock over each
operation, so an operation is one action (`Create`, `Switch`, `Close`, `Task`, `Refresh`,
`Clear`, `SetPermission`, `PreviewSave`, `SavePreview`, `PreviewEdit`, `ApplyEdit`,
`PreviewArchiveDelete`, `ApplyArchiveDelete`, `RetryPersist`), with a death (`Crash`) between any two.  What a memory
says is a set of facts, one for each finished task; `known`, `erased` and `nextFact` are
history variables.  `ImplementsRegister` maps the lock of a session to `owner`, the
revision of its row to `version` and `_persisted_revision` of whoever has the lock to
`seen`.

### WorkspaceBaseline

Two or more processes on one workspace.  An operation goes through `Take, Scan, Approve,
Rescan, Accept`, then `Write` and `Ran` of its task, `Finalize`; `SaveRow` is the compare-and-swap of the row,
`Unsaved` the order of row and memory.  `LoseRow` is damage to the database, `Crash` a death
between any two steps, `Recover` the person's recovery of the workspace lock.  A file is its
content.  `TaskVerification` has the evidence of one process in detail; here a check is a
choice.

### ChangeJournal, TaskFiles

`edit_file` and `create_file` are a call with one target, `apply_patch` has several,
`create_directory` none: `Ask, Recheck, MakeDirectory, Check, Publish, Verify`, and on a failure
`PutBack` and `RemoveDirectory`.  An undo is `PrepareUndo, StartUndo`, for each path `UndoCheck, UndoPublish, UndoConfirm`, then
`UndoDirectory`, and back through `RecoverDirectory` and `RecoverFile`; Ctrl-C ends an undo with
backups where it stands (`UndoInterrupted`) and is a failure like any other to one with directories.  A file is a
text with an identity; every step can meet an error of the system, and another program can
edit one file between any two.

`ghost` is history for the properties alone: who wrote a path last (`author`), what it was before the
task first wrote it (`now`) and before the task whose set is kept (`kept`), which paths a patch said it
could not put back (`stuck`), which an undo named (`told`, with the root for an undo that ended without a scan or was
cut off), which file a failed undo without backups had touched and not read back (`unread`), and which other programs
wrote since the task began (`fresh`), or since the task whose set is kept (`since`).  A set with directories has no
backups; there a file is noted after it was read back, and an error before that, always possible in `UndoConfirm`,
leaves a file the recovery does not know.  `CompensatedOrTold` and `UndoStaysPossible` except exactly that file.

### UserWaits

A thread posts its request (`Register`, `RunRequest`), the event loop shows a screen
(`ShowScreen`), the person decides (`Decide`, `Deliver`), and the thread polls token, result and deadline
(`PollToken`, `PollResult`, `Expire`, `GiveUp`).  `PersonCancels`, `CancelQuestions`, `Quit`,
`QuitApprovals`, `QuitQuestions` are the handlers of the loop in the steps other threads can see between;
`ScanAgain`, which may fail, and `Adopt` are the second scan of `ask_user` and the comparison of its digest with that
of the first (`StableSnapshots`).  `workspace` is the contents the files have had, one after the other, so that an edit
can put back what was there (`Edit`); a wait notes which of them a scan (`before`, `after`) or the person (`said`, a ghost) saw.

### TaskScope, ProviderStream, McpServers, WindowsJob, CommandProcess, TaskServices

`plan` fixes what a task may do (servers, calls, requests, connections, commands and their kinds, Windows or not,
interrupts) and whether every service keeps to its time (`prompt`).  The coroutine starts
the servers in order, runs one thing at a time and stops the servers in reverse; threads,
owner tasks, processes and the person act at any moment, and Ctrl-C (`OperationInterrupted`,
`CommandInterrupted`, `StopInterrupted`, `AbortInterrupted`, `RequestInterrupted`) can hit every wait.  A bounded wait may be given up
(`TimeIsUp`) when what it waits for has not ended.

A connection has a thread that connects and reads into a queue of two chunks, and a
closer.  A server has an owner task that enters and leaves its session and process.  A command
has a root and one descendant, which may hold its pipes and, without a job, leave its group;
its thread goes `ThreadBegins, Prepare`, for an approval `Approve`, then `Launch, Resume, Watch, Finish`, through the steps of
`_terminate_process_tree` and `WindowsJobTracker.cleanup`, then `Join`, the cache
and `Observed`.  The job's port may lose a notice, and an exited process cannot always be opened
any more.  Assumed: a read of a pipe does not fail by itself.  Out of the code's reach, and so
exempt in `TreeOver`: a POSIX descendant that left the group and holds no pipe.

## 3. The runs

| run | what it covers | checks |
|---|---|---|
| `workspace_lock` | 3 processes; on Linux each of the two files replaced once, elsewhere the guard file; `MCWorkspaceLock` chooses the platform | `MutualExclusion`, `NoTaskBesideLeftovers`, `ExactMarkerCleared`, `Implements` (refinement) |
| `session_runtime` | two hosts, 3 locks: a TUI whose two workers and screen call anything; a user who waits for each operation, beside a screen that cancels and closes | `OneOwner`, `AcceptedCancelCommitted`; for the second host `KeptForOneCaller`, `GivenBackByOneCaller`, `CloseCarriedOut` (liveness) |
| `task_cleanup` | 3 workers, 3 tasks, both kinds of host | `NothingFromBefore`, `GateOpensAgain` |
| `verification` | 2 tasks, 2 files, a check of one and one of all, 4 calls, a table of 1 record, 1 change from outside | `SuccessHasEvidence`, `LastWordOfEachCheck`, `LiftedByCheck`, `AcceptedIsAccountedFor` |
| `agent_loop` | 2 tasks of 2 rounds, batches of up to 2 calls, 2 answers without a call, 1 question | `EveryCallAnswered`, `NothingRunsAfterStop`, `HistoryClosed`, `FailureIsTold`, `WorkShrinks` |
| `session_memory` | 2 processes, 2 sessions, 2 facts, revisions up to 2, one `/clear` | `CleanMeansSaved`, `ErasedStaysErased`, `SaveLeavesNothingOut`, `ImplementsRegister` (refinement) |
| `workspace_baseline` | 2 processes, 2 sessions, one path with 2 contents, 1 change from outside, 2 tasks, 2 confirmations, crashes, a row lost | `BothOrNeither`, `AcceptedIsVouched`, `LossIsNotForgotten` |
| `task_files` | a file at the root, one beside a directory in another directory, 2 texts, 2 calls of up to 2 targets over 2 tasks, 2 undos, 1 edit from outside | `NothingForgotten`, `UndoStaysPossible`, `CompensatedOrTold`, `UndoneIsBefore` |
| `user_waits` | a task and a command beside it, 2 waits, 2 edits, 2 contents | `LateIsLost`, `QuitReleases`, `AnswerIsCurrent`, `EveryWaitEnds` (liveness) |
| `task_services` | the plans of `MCTaskServices`: up to 2 servers, 2 calls, 2 requests, 2 connections, 2 commands, an interrupt, Linux and Windows | `OneAttemptSpeaks`, `ResultIsWhole`, `LeftoverIsReported`, `TaskReturns` (liveness) |
| `progress_guard` | a window of 5, three contents, six plans with up to 8 observations | `StopsWhenStuck` |
| `mcp_isolated` | expected violation of `IsolatedFailure` | see findings |

**Bounds.**  `MaxReplacements = 1`: a hazard needs two identities of a name, one
per process; a third process can then meet either.  Three processes give an
owner, a challenger and one that comes after a crash.  `MaxLocks` bounds the
workspace locks acquired: with 2 a returning task meets the lock of the next
operation, 3 adds one after a full release.  Three tasks and workers: a worker of
the first task can end while the second is refused and the third begins.  Calls
are not bounded: a thread calls again as often as it likes.

A file of `TaskVerification` has two contents: what matters is whether contents are
those of an earlier moment, and two of them make an ABA change possible, the
hardest case.  Two files make partial coverage possible.  A table of one record evicts
at the second check; four calls are a write, two checks and a finish, or a write,
a check, a finish that recovers and one more call.  A second task meets the obligation,
the failure and the baseline the first one left.

Two rounds of `AgentLoop` let a batch follow every way back to the model, and the last
round differs from the one before; two calls are one that stops and one that is skipped.
Two tasks put a second block behind the first, rejected or not; `MaxHistory` lets a task begin on
five messages at most, more than any block of one round.  The theorems do away with these
bounds.

Two processes and two sessions make every stale reader possible: a process can hold one session
while the other changes both rows.  Revision 2 is a second save after somebody else's; any number of facts and saves is what the theorems
of section 4 are about.  In `workspace_baseline` two confirmations let both processes accept, or one accept twice; one
edit is what a scan can miss.  Two directories of `task_files` make an undo fail after the first
was removed; two calls on one path make a chain of befores, two tasks a set that is
replaced, two undos one after a recovery.  One edit of another program can fall between any two steps.
Two edits of `user_waits` are a change before the answer and one that puts the files back after it; edits that no
question can see are left out of the model.

The plans of `task_services` keep apart what does not meet in the code: a request is over before
a command begins, both end before the servers are stopped.  What they share, the token, the deadline and
the leftovers, is in each plan.  A window of five, where the code has more, just holds the longest pattern
that stops a task, a check that fails in two contents by turns; what came before drops out of it.  Plans with
more observations than that, of two kinds by turns, are there so that the first of them, and warnings, drop out.

**Symmetry** is used for processes, workers, contents and sessions (which are only compared),
where no liveness is checked.

**Deadlock** is checked for `WorkspaceLock`, `AgentLoop`, `SessionMemory` and `WorkspaceBaseline`.
Elsewhere a bound rightly ends the behaviour: a runtime that is closed, with all its locks
used up, a host with no task left, a terminal that has quit, a task that returned.

**Fairness.**  All of it is weak, on steps of one thread of the program.

* `SessionRuntime`: `Continue(t)`, the next step of a call that was made.  No step of the code waits
  for another thread (all tries are non-blocking), the agent's run is bounded by its budgets
  and the cleanup by its deadlines; a question that the console asks of the person has no deadline, and the person is taken to
  answer it or to interrupt it.  Whether a call is made is not fair.  `CloseCarriedOut` says that
  whoever made a close be turned away gets to the end of its own call.
* `UserWaits`: the event loop finishes a handler it has begun, a thread polls again, a deadline passes.
  Neither the person's decision nor the appearance of a screen is fair.
* `TaskServices`: the coroutine, the thread of a command and bounded waits, but no step for which a person may have to
  approve first: `Approve`, the start of a server (mcp/manager.py:116), and the operation as long as it has something left to do, for
  a change of files or a tool from outside asks too (tools/handlers.py:59, tools/__init__.py:546).  The console asks by a
  blocking `input()` (console.py:555); the TUI bounds every such wait, which is `EveryWaitEnds`.  So `TaskReturns` says: the task
  returns, or it stays for ever in one of these places (`Held`).  Who does not answer can still leave with Ctrl-C
  (`CommandInterrupted`), and the command's thread is then left to the scope.  Only where a plan is `prompt` do servers and
  connections end by themselves; `TaskReturns` holds for those that hang as well.

`AgentLoop` has no fairness.  That a task ends is stated as a measure instead: `WorkShrinks`
says that each step but the cancellation (which comes once) makes the rounds left, or the steps
left of this round, smaller.  The measure is proved to consist of natural numbers
(`WorkIsFinite`), so a task ends whenever its calls do, which is all that fairness could add.

**Finding** (`mcp_isolated`).  A server whose start fails cleans up with `scope.deadline()`, the one
termination deadline of the task (mcp/client.py:446, 33-38; task_cleanup.py:31).  The host says that an ordinary failure is
isolated (extensions/host.py:30, 54) and goes on; when the task ends more than five seconds later, the healthy
servers are stopped with no time left, and the good task is reported as a failed cleanup.
`providers.py:242` avoids exactly this for a failed attempt.

**Known limits.**  Places where the code does less than its comments say, or where a limit shows that is
worth knowing; each has a configuration beside the runs, or a constant of a run to change, that finds it.

* `MCSessionRuntime_exit.cfg`, `CloseNotLost`.  `_finish_task_ownership` takes its snapshot of the exit
  request, retries the cleanup and then reads `_close_requested` (runtime.py:1314)
  outside the state lock.  When `request_shutdown` came before the snapshot
  and `close` comes between that read and the release at 1317, the `close` is
  turned away and the owner has already looked.  The docstring (1302) says
  this hand-over cannot be missed.  Without `request_shutdown` nothing is lost
  (`CloseCarriedOut`), unless the lock was with `cleanup_pending_resources` (1451), which does not look at the request.
* `MCSessionRuntime_undo.cfg`, `WorkspaceKept`.  `run_task` releases the workspace (1233, 1463-1472) after it
  gave up the task lock and does not ask whose lock it is.  An undo prepared in
  that moment loses the lock it has just acquired, against the docstring of
  `prepare_undo` (2248).  With one caller it holds, and is proved (`Kept`).
* `GivenBackByOneCaller` has an exception: when `clear_active` fails for the disk (lock.py:432-442), `run_task` raises
  at runtime.py:1470, before it closes the lock and forgets it.  The idle runtime then keeps the workspace, and its next task is told
  that another one is running (1065); that refused task releases once more at its end.  After a `close` nobody tries again (1336).
* `MCTaskVerification_lifted.cfg`, `FailureLiftsNothing`.  The end of a task lifts what its checks cover
  (runtime.py:2093, 411) also when the task itself fails, whose contents the baseline
  does not take.  `_invalidate_current_after_workspace_finish_failure` keeps the pass, for it
  is valid for the files as they are (1801, 1818), and restores no obligation.  When the
  file goes back to what a person confirmed before the task, the next gate sees no
  difference: contents that were owed a check and never had one are accepted and owed
  nothing, against README.md:499 and 616 and the docstring at 2175.  The set
  `_workspace_baseline_unresolved` that notes the failure (1654) is never read.
* `MCAgentLoop_disowned.cfg`, `DeliveredStaysDelivered`.  A task that raised with unknown effects leaves no messages; the next
  one is refused at runtime.py:1832 before the agent runs.  `run_task` still "brings the final
  veto after the agent returned into the history" (1413), and
  `close_runtime_failure_context` writes "the host confirmed that the task did not
  succeed" into the last block it finds (finalization.py:39-63), that of an earlier task that was
  delivered.  `FailureIsTold` and `HistoryClosed`, the other half of the same promise, hold.
* `MCWorkspaceBaseline_crash.cfg`, `ConfirmedStaysOwed`.  What a person confirmed is owed a check only in memory
  (runtime.py:636): after a death of the process the row says accepted, and nobody knows that a check was owed.
* `MCTaskFiles_untold.cfg`, `FailedUndoTells`.  An undo with directories notes a file after it was replaced and read back (undo.py:311-316).
  When the read back fails (423-436), or Ctrl-C comes before it, the file is replaced and the recovery does not know it: it is neither
  put back nor listed, against the comment at undo.py:345, the recovery is recorded as succeeded (runtime.py:2399-2405), and the
  screen says that the state was kept (presentation/tui.py:1224).  The run shows it with one task and no other program.  The file is unlike the set
  from then on, so a later undo refuses it and overwrites nothing.  `CompensatedOrTold` and `UndoStaysPossible` leave out
  this one file (`ghost.unread`) and nothing else.
* `MCTaskFiles_earliest.cfg`, `EarliestBefore`.  A file that a task brought back to its first text leaves
  the journal; when the patch that did so then fails, and putting it back cannot be proved, the journal
  takes what the patch found for what was there before the task.  The call says that it could not put
  the file back, so `UndoneIsBefore` leaves such files out.
* `AnswerIsCurrent` has an exception, `PutBack`: an answer to a question is adopted when the files of the two scans
  have the same digest (tools/clarification.py:154).  Files that somebody changed before the person answered and
  put back before the second scan pass, though the answer was given about other files.
* Ctrl-C in an undo without directories passes `except Exception` (undo.py:177, 704): files already restored stay so, no recovery
  runs, and the shell says that the operation was cancelled (shell.py:164).  `UndoStaysPossible` leaves such undos out.
* `MCSessionMemory.cfg` with two `Levels` and a `MaxFacts` of 1, `PermissionIsSaved`.  A new session inherits the permission in use, its row keeps the
  default of the column until the first change (README.md:408).

Two more came up and need no model: a regular-expression search whose output exceeds 8 MB is told to be
planned anew although the termination deadline of the task has begun (process/control.py:272-275, tools/search.py:158-162); and
four identical reads in one batch are warned of and stopped before the model is asked again, since feedback
reaches it with the next request.

The repository's README concedes that a scan is not a
lock.  `AcceptedIsAccountedFor` says that a check covering the path passed, not that it
passed on exactly the contents accepted, since a change that comes and goes between the
two last scans of a task is seen by neither.

## 4. What is proved

All proofs are checked by TLAPS for every value of the constants that satisfies
the named assumptions.

* `WorkspaceLock_proofs`.  `Typing`.  `Exclusive`: no two processes own the
  workspace.  `MutualExclusion` is not inductive: what excludes depends on the
  platform.  The strengthening `OwnInv` has what each step has open (`Progress`),
  that on Linux everybody past the bind has the socket (`SocketInv`), that two holders
  of the guard, or of workspace.lock, opened different identities (`GuardInv`, `LockInv`),
  and that a file nobody replaces has one identity (`FilesInv`).  Two owners would need
  both files replaced (`TamperAssumption`: Linux only), and then the socket tells them
  apart.  `Shut`: with the control directory left alone no task runs
  beside leftovers; `ShutInv` adds that leftovers imply a marker and that a
  marker an owner may remove is its own or confirmed.  `Refinement`: under the
  same assumption every step is a step of `WorkspaceExclusion` or a stutter.
* `SessionRuntime_proofs`.  `OneOwnerAlways`, from `OwnerInv`: a thread past its
  try of the task lock has it until it unlocks (`LockInv`), a shared ending returns to
  the operation it serves (`EndingInv`), and only an exit that was asked for closes,
  with nobody at work (`ClosedInv`).  `CancelCommitted`, from `CancelInv`:
  flags and token describe the thread with the task lock, and once a result is
  committed the flag that admits a cancellation is down.
  `Typing`.  `Kept` (`KeptForOneCaller`) and `GivenBack` (`GivenBackByOneCaller`) are about a host in which one thread makes all the tasks, refreshes and
  undos and answers its own previews (`SoleCaller`; the shell, where `run_task` returns before the next line is read), while any number of
  others close, clean up, change something or cancel.  Without this they are false (`MCSessionRuntime_undo.cfg`).  The
  release of run_task runs without the task lock, so several threads may release one lock object at
  once, and the invariant says what they still have in common: whoever is past the check refers to the
  lock that is held, if one is, with nothing alive and no preview (`LettingInv`); resources live under the held lock, and are
  pending once their task is over (`AliveInv`); a preview excludes both (`UndoInv`).  That the workspace is given back needs more than
  that each release ends: a thread that finds the marker gone raises and leaves the lock.  `MarkedInv` and `UnlinkInv` say that
  then another one is behind its unlink and goes on, and `LiableInv` that as long as a lock is held for nothing, somebody is on the way
  to close it, unless the disk refused this very lock.
* `TaskServices_proofs`, on `TaskCleanup`.  `LeaseTyping`.  `NothingLeaks`, from `NoGap`: a thread is
  among the workers of its scope, and its lease with the owner, until it ends
  (`LeaseInv`); a resource that outlives its thread is in its scope (`ResourceInv`); a
  scope with resources whose task and threads have ended is with the owner or on the
  runtime's list (`OwnerInv`).  So a gate that lets a task in has seen nothing alive.
* `SessionMemory_proofs`, on `TaskVerification`.  `VerificationTyping`, and all four properties of the
  passing run (`SuccessIsProven`, `LastWordKept`, `ObligationLifted`, `BaselineAccounted`) from one invariant,
  `EvidenceInv`.  A property of the moment at which a task is closed says nothing of the
  steps before it, so the invariant has: outside a task journal and table are
  empty (`Clean`); a record of a pass is a pass of this task on the snapshot it names
  (`Proven`), although the table drops records; a turn that wrote has a duty (`Duty`);
  the tracker's unresolved checks are those whose last word is a failure, whatever
  was evicted (`LastWord`); from its judgement on, a success of a turn that wrote is
  justified (`Judged`); what a person is shown is owed already (`Shown`).
  `JudgeLemma` is the step that counts: `assess_finish` completes a turn with a duty
  only with `Satisfied`.

* `AgentLoop_proofs`.  `Typing`, `CallsAnswered`, `BatchStops`, `UnknownEffectsStop`,
  `TasksShrink` and `WorkIsFinite`, all from `Inv`.  `EveryCallAnswered` speaks of blocks between batches;
  inside one the invariant has an open batch (`OpenBatch`): the block is paired up to
  its last calls message, and the results after it are those of the first `next` calls, in order.
  `BatchOpens`, `ResultJoins`, `BatchFilled` and `WholeBatch` follow it from the answer to the
  last result, `PrefixPaired` and `ConcatPaired` carry paired blocks under what is added.
  `NothingRunsAfterStop` needs that a call is run only behind a calls message or a result
  that let the batch go on (`Working`).  `Stopped` puts unknown effects at the two places where a
  task can only end.

* `UserWaits_proofs`.  `LateNeverCounts`, `QuitLeavesNobody`, `AnswersAreCurrent`, from `Inv`: the result of
  a wait is written once, and it is a consent only when a person was its first writer (`Fit`); no step takes a result
  or the moment of an answer back (`Later`); a thread that waits
  for a request without a result finds it pending, or in the hands of the quit that will give it one (`Made`);
  nothing pending is of a kind that is closed, and between its handlers the event loop has nothing in hand (`QuitInv`).
  An answer lies in time between its two scans; so it was given about what one of them saw, or about
  something that came after the first and was gone before the second.

* `SessionMemory_proofs`.  `LockFollowsSession`, `RevisionIsKnown`, `CleanIsSaved`, `ErasedIsGone`, `NothingLeftOut`
  and `MemoryIsRegister`, all from `Inv` (`Invariance`).  Each property compares a row with what one process believes of it, which
  says nothing of the steps of the other processes; so `Inv` ties all that is believed of a session to its
  lock (`LockInv`, `OwnerOK`): the owner's revision is the stored one, its `persisted` task the
  stored task, and a deletion that is pending has nothing in common with what is in mind.  `FactsInv` gives each fact to one session
  and none to the erased, so that a step on one session cannot bring back what another erased.  `PreviewOK`: an edit
  or a save shows no fact that was not in its base, so a preview made before a `/clear` cannot smuggle one in.
  `Remembers` is the delicate part: what is known is in the memory that would be saved, or in a message behind
  its watermark, unless compaction has overtaken the candidate (`Overtaken`), which `_require_complete_memory_candidate`
  then refuses.  `Ordered` keeps the watermarks below the numbers of messages to come, without
  which a later message could fall behind one.  For `MemoryIsRegister`, a step changes the row of one
  session, under its lock and over the version its owner has seen (`SeenIs`, `RegisterStep`), so it is a step of that
  session's register, or a stutter.
* `WorkspaceBaseline_proofs`.  `AdvanceTogether`, `Vouched`, `LossRemembered`, from `Inv` (`Invariance`): a process and its lock
  belong together (`LockInv`); a cached row is the row, unless it was lost and its marker tells so (`Tracks`);
  the baseline in memory is that of the cached row; and whoever reaches `Accept` has a first state, the same one, or
  one approved and found again (`ProcOK`).  `BothOrNeither` alone does not survive a step of another process, and
  `AcceptedIsVouched` speaks of the accepting step only: what was scanned and approved before has to be carried to it.
* `TaskServices_proofs.OpensAgain`, on `TaskCleanup`, adds `NoneKept` to `NoGap`: a lease that is held belongs to a thread at work (`HeldInv`), a resource
  in a scope is alive and in the scope of its worker (`AliveInv`), and a scope the owner keeps has
  something pending (`PendingInv`).  Whoever empties a scope last, by `release`, hand-off or retry, finds the owner
  and removes it (`ReleasedOK`).
* `AgentLoop_proofs.FailuresAreTold`, from `TellInv`: before the first closing a task's messages hold no notice, after it one at
  the end (`DraftTold`); tasks follow one another in the history, and a notice ends one (`InOrder`); a task that goes on has no
  outcome (`NoOutcome`).  Only so does a notice that the runtime appends find the task it is about at the end of the history.
* `AgentLoop_proofs.HistoryStaysClosed`, from `GapInv`: whatever way out is taken, the draft can be closed (`Closable`: a text is followed by
  feedback or a notice, and a success has had calls); the watermark is where the task began or was closed (`Reached`); every
  block of the history is closed (`Gapless`) and `latest` is its length.  `HistoryClosed` is not inductive, since it looks at a history
  between tasks, and a watermark left behind by one task would stop all later ones.
* `AgentLoop_proofs.GuardTyped` and `GuardIsRight`, on `ProgressGuard`, from `GuardInv`.  The window is the end of what was observed
  (`Mirrors`): each place has its observation in the history, in order, nothing after the first is missing, and
  the epochs of two places are equal when, and only when, the history has no change and no answer between them.
  So `Recent` is what is kept (`RecentIs`), and a count in the window is a count in the history (`CountIs`).  `Turns` is defined by
  positions and not by a fold, and so needs no induction: a failure has a turn since which its state is
  the only one (`RunStart`), and going back from the last turn, turn by turn (`StepBack`), a check
  that goes round in the history does so in the last five turns (`RoundOscillates`), and the other way (`OscillationTurns`).  That a
  task stopped for a repetition was warned needs `Warned`: in a task that goes on, of any two recent observations that say the same
  the later one was preceded by a warning, or is one.
* `WorkspaceLock_proofs.MarkerOfItsOwner`, from `UnlinkInv`: who has checked a marker still owns the workspace, and only
  an owner creates one, so what is unlinked is what was checked or gone with its directory.

* `TaskFiles_proofs`.  `Typing`, `ToolsAreRecorded`, `UndoIsKept`, `PatchesAreCompensated`, `FailureIsCompensated` and
  `UndoneIsBack`, all from `Inv`, for any files, directories and texts and with other programs writing between any two
  steps.  The properties look at the ends of calls and undos; the invariant says what each of their steps has in hand:
    * the call (`CallInv`): its targets and what it has done are apart, and each is what it found when it was asked;
      what a patch has not put back it knows, or somebody else wrote it (`Watched`);
    * the journal (`TaskInv`): of each path the task wrote, unless it is tainted, it has the last thing the task left and
      what was there first (`Filed`, `Fresh`, `Base`), and this survives a target that is written but not yet read back
      (`Unread`, `TodoInv`, `DoneInv`);
    * the tree (`Tree`, `Housed`, `Alone`): nothing exists below a directory that does not, and what a task finds in a
      directory it made is its own as long as nobody else writes.  Without this a first write below a new directory could find
      a file that was never there before the task;
    * the kept set (`KeptInv`, `FoundInv`): a path is in the set with what it was before the task, or is as it was; a task that
      comes later and whose set is not kept may hold the difference in its own journal meanwhile;
    * the undo (`Bound`, `UndoInv`, `RestoredInv`, `NotedInv`, `MatchInv`): what is restored is as before, what was touched is noted
      for the way back, and if nobody else wrote, every path outside the set is as it was shown and every other one as noted or as
      restored, so that a recovery makes the set fit again.

  `PatchesAreCompensated` is the half of `CompensatedOrTold` that is about patches.  `UndoIsKept` and `FailureIsCompensated` have
  no hypothesis; the exception both make for `ghost.unread` is the known limit `FailedUndoTells`.

  The proof corrected the history variables of the model, not its steps: that what was there before a task is known needs the writes of
  others since it *began* (`fresh`, `since`), since `ghost.kept` was compared with contents that a program had replaced before
  the task first touched them; and `Parent` must not have the root among the paths (`ParentAssumption`).
* `TaskServices_proofs`.  `SpeaksOnce`, from `StreamInv`: the connection a request reads, or leaves, is nobody else's (`Attended`), what
  has been said was said by its one attempt (`Spoken`), and an attempt that ends without an error has seen the end
  of its stream (`WholeSoFar`), which is known as soon as it is queued (`EndIsKnown`).  `ActsOnWhole` adds `CommandInv`: a job that
  is complete has nobody left, since who is in its ledger was born and the root never ran outside it (`JobInv`); where ending
  the tree went well so far, the tree is ended, and what exited by itself and was joined without a failure has an output that was read
  (`ThreadInv`).  `NothingLeftUnsaid` adds `KeptInv`, that the scope holds at each moment whatever could be left: connections that live, whose
  generators were dropped or are still read (`StreamKept`); the thread while it works, its cache until it is removed, its
  processes where the thread gave them up (`CommandKept`); owners of servers that the coroutine is not about to stop, transports and requests that
  outlived their owner (`ServerKept`, `InHand`).  `TaskScope` makes one variable of it, so each service is proved to lose nothing
  but its own (`Loses`), and `Reported` follows at the last step, in which the coroutine reads the scope.

**Assumptions.**  `SentinelAssumption`, `NothingAssumption`, `NodeAssumption` and `NobodyAssumption` say that None is not a row, a record, a
node or a process; `KindAssumption` that no path is both a file and a directory, `ParentAssumption` that each has a directory above it, or the root;
`TargetsAssumption` that a check of the workspace covers its paths.  `BoundsAssumption` and
its kind say that bounds are natural numbers.  `TamperAssumption` is the platform's: a process that may
replace the guard file and the control directory at once is only withstood with the socket of Linux.
A proof module that is about two models (`TaskServices_proofs`, `SessionMemory_proofs`, `AgentLoop_proofs`) extends both; they share no
variable, and no theorem is about both.

**Only model-checked.**  Liveness (`CloseCarriedOut`, `EveryWaitEnds`, `TaskReturns`) and `ENABLED` are out of the prover's
reach, and so is that `Turns` are the positions of a list built by a loop, an induction over data:
TLC evaluates `LoopAgrees` of `MCProgressGuard`, which compares both with the loop of the code on every window of up to six failures.

## 5. Plan

Done: all components of section 1 that have a module, as models with runs; every invariant and action property of the passing runs as a
theorem.  Of `CompensatedOrTold` and `UndoStaysPossible` see the hypotheses in section 4.

Worth modelling next: compaction as operators against a reference definition; one composition of
`WorkspaceBaseline` with `TaskVerification`, which share the gate.

## 6. What is not modelled, and why

* The wording of prompts, rendering, argument parsing and configuration have no state worth a model.
* The evaluation harness (`evals/*`) runs outside the product, one case after the other.
* `ExecutionBudget` of `core/budgets.py` is not used by the program.
* The legacy protocol of the agent, in which an answer holds one call, is a smaller version of the one modelled.
* Migration of old databases and the encoding of rows, messages and tool schemas are conversions of one call.
* Tools that only read and list, ignore patterns and the policy keep nothing between calls.
* `SessionMemory` is of programs run with `memory.persistence = "reviewed_summary"`.  With `off` the
  conversation of a session is not loaded and no preview of it is saved.
* A compilation's diagnostics, the matching of a regular expression and what a summary says are values.

Liveness and `ENABLED` cannot be proved with this prover and stay with TLC.
