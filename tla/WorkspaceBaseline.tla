-------------------------- MODULE WorkspaceBaseline --------------------------
(***************************************************************************)
(* The accepted state of a workspace, across processes, restarts and damage *)
(* (session/runtime.py, workspace/gate.py, workspace/baseline_record.py over *)
(* the store).  Several processes with sessions of one database work in one  *)
(* workspace that other programs change at any moment.  Each session keeps   *)
(* the state it last accepted, as a row and in the memory of its process; an *)
(* operation compares the workspace with it, shows the difference to a       *)
(* person, looks again, accepts, works, and accepts what it did itself.      *)
(*                                                                         *)
(* TaskVerification has the evidence and the finish of a task in detail for  *)
(* one process that lives for ever; here a check is a choice and what matters *)
(* is the order in which memory, rows, locks and marker change, and a death  *)
(* between any two steps.  A file is its content; identities are left out.   *)
(* Bounds: MaxEdits changes from outside or damages, MaxTasks tasks,         *)
(* MaxConfirmations (8 in the code).                                         *)
(***************************************************************************)
EXTENDS SessionStore

CONSTANTS Paths, Contents, MaxEdits, MaxTasks, MaxConfirmations, NoSession, Down

VARIABLES disk,     \* the workspace: its root, and the content of each path
          holder,   \* who has the workspace lock
          left,     \* the activity marker is on the disk
          cur,      \* the process: Down, or its session and operation
          edits, tasks    \* counters of the bounds

vars == <<saved, reviewed, marker, accepted, lock, disk, holder, left, cur, edits, tasks>>

NoObligation == [kind |-> "none", paths |-> {}]

\* What a process keeps of the session it has open, and its operation: base the
\* baseline in memory, stored the cached row, memory the obligation, known the
\* files it knows to have been modified.
Fresh(s) ==
    [ session |-> s, base |-> NoRow, stored |-> NoRow,
      memory |-> NoObligation, dirty |-> FALSE, known |-> {},
      pc |-> "idle", mode |-> "none", candidate |-> NoRow, approved |-> NoRow,
      attempts |-> 0, own |-> [x \in {} |-> 0], ok |-> FALSE ]

\* The captures of a workspace, the rows of the two tables and SessionRuntime.
States == [root : {0, 1}, files : [Paths -> Contents]]
Obligations == [kind : {"none", "pending", "legacy_unknown"}, paths : SUBSET Paths]
Rows == [record : States, revision : Nat]
Ledgers == UNION {[D -> [before : Contents, after : Contents]] : D \in SUBSET Paths}
Processes ==
    [ session : Sessions \cup {NoSession}, base : States \cup {NoRow}, stored : Rows \cup {NoRow},
      memory : Obligations, dirty : BOOLEAN, known : SUBSET Paths,
      pc : {"idle", "take", "scan", "asking", "rescan", "accept", "working", "finalize"},
      mode : {"none", "activation", "task"}, candidate : States \cup {NoRow},
      approved : States \cup {NoRow}, attempts : Nat, own : Ledgers, ok : BOOLEAN ]

ASSUME ContentsAssumption == Contents # {}
\* None is not a record or a row, and no process is taken for one that is gone.
ASSUME SentinelAssumption ==
    /\ NoRow \notin States /\ NoRow \notin Rows /\ NoRow \notin Obligations
    /\ NoSession \notin Sessions /\ Down \notin Processes

Running(p) == cur[p] # Down
Idle(p) == Running(p) /\ cur[p].pc = "idle"
Opened(p) == Running(p) /\ cur[p].session # NoSession
At(p, pc) == Running(p) /\ cur[p].pc = pc

Init ==
    /\ StoreInit
    /\ disk = [root |-> 0, files |-> [x \in Paths |-> CHOOSE c \in Contents : TRUE]]
    /\ holder = Nobody /\ left = FALSE
    /\ cur = [p \in Procs |-> Down]
    /\ edits = 0 /\ tasks = 0

-----------------------------------------------------------------------------
\* capture_workspace_baseline: inventory, contents, inventory again; a capture
\* during which anything changed fails, so one that succeeds is the workspace of
\* one moment.
Captured == disk

\* compare_baseline_records: another root is not comparable path by path.
Compatible(a, b) == a.root = b.root
Changed(a, b) == IF Compatible(a, b) THEN {x \in Paths : a.files[x] # b.files[x]} ELSE {}

\* _invalidate_verification(force): an obligation that was never written down
\* is pending for what is known to be modified, or of unknown extent.  (Evidence
\* that still holds on the workspace as it is would be kept: TaskVerification.)
Forced(c) ==
    IF c.memory.kind # "none" THEN c
    ELSE [c EXCEPT !.memory = IF c.known # {} THEN [kind |-> "pending", paths |-> c.known]
                              ELSE [kind |-> "legacy_unknown", paths |-> {}],
                   !.dirty = TRUE]

\* _observe_workspace_change, before the person is asked and whatever the answer.
Observed(c, changed) ==
    LET d == Forced(c) IN
    IF changed = {} THEN d
    ELSE [d EXCEPT !.memory = [kind |-> IF c.memory.kind = "legacy_unknown"
                                        THEN "legacy_unknown" ELSE "pending",
                               paths |-> d.memory.paths \cup changed],
                   !.dirty = TRUE]

\* The end of any operation before its task is marked: the reasons are a scan
\* that fails, nobody to ask, a refusal, a cancellation, too many changes, a
\* row that cannot be written.
Left(c) == [c EXCEPT !.pc = "idle", !.mode = "none", !.candidate = NoRow, !.approved = NoRow,
                     !.attempts = 0]

LockIsEnough == holder = Nobody
WorkspaceFree == holder = Nobody /\ ~left

-----------------------------------------------------------------------------
\* Opening: a new session or a stored one, at start, by create or by switch; the
\* session before it is saved and let go first, its baseline forgotten.
RowFor(s) == IF Exists(s) THEN saved[s] ELSE NoObligation

Open(p, s) ==
    /\ SessionLockFree(s)
    /\ cur[p] = Down \/ Idle(p)
    /\ saved' = [t \in Sessions |-> IF t = s THEN RowFor(s)
                                     ELSE IF lock[t] = p THEN cur[p].memory ELSE saved[t]]
    /\ UNCHANGED <<reviewed, marker, accepted>>
    /\ lock' = [t \in Sessions |-> IF t = s THEN p ELSE IF lock[t] = p THEN Nobody ELSE lock[t]]
    /\ cur' = [cur EXCEPT ![p] = [Fresh(s) EXCEPT !.memory = RowFor(s),
                                             !.pc = "take", !.mode = "activation"]]
    /\ UNCHANGED <<disk, holder, left, edits, tasks>>

\* A process without a session yet.
Enter(p) ==
    /\ cur[p] = Down
    /\ cur' = [cur EXCEPT ![p] = Fresh(NoSession)]
    /\ UNCHANGED <<storeVars, lock, disk, holder, left, edits, tasks>>

\* run_task of a process that has no session: nothing to compare with; the
\* session is made when the scan is there.
FirstTask(p, s) ==
    /\ Idle(p) /\ cur[p].session = NoSession
    /\ tasks < MaxTasks
    /\ ~Exists(s) /\ SessionLockFree(s)
    /\ WorkspaceFree
    /\ holder' = p
    /\ InsertPrepared(s, NoObligation)
    /\ lock' = [lock EXCEPT ![s] = p]
    /\ cur' = [cur EXCEPT ![p] = [Fresh(s) EXCEPT !.pc = "accept", !.mode = "task", !.candidate = Captured]]
    /\ tasks' = tasks + 1
    /\ UNCHANGED <<disk, left, edits>>

\* persist_current
Persist(p) ==
    /\ Idle(p) /\ Opened(p) /\ cur[p].dirty
    /\ SaveMemory(cur[p].session, cur[p].memory)
    /\ cur' = [cur EXCEPT ![p].dirty = FALSE]
    /\ UNCHANGED <<lock, disk, holder, left, edits, tasks>>

\* close of an idle runtime, with its last save; when that fails, it is as if the
\* process had died.  The kernel does the same at any point of an operation.
Gone(p) ==
    /\ cur' = [cur EXCEPT ![p] = Down]
    /\ lock' = [t \in Sessions |-> IF lock[t] = p THEN Nobody ELSE lock[t]]
    /\ holder' = IF holder = p THEN Nobody ELSE holder
    /\ UNCHANGED <<reviewed, marker, accepted, disk, left, edits, tasks>>

Close(p) ==
    /\ Idle(p)
    /\ Gone(p)
    /\ saved' = [t \in Sessions |-> IF lock[t] = p THEN cur[p].memory ELSE saved[t]]

Crash(p) == Running(p) /\ Gone(p) /\ UNCHANGED saved

-----------------------------------------------------------------------------
BeginTask(p) ==
    /\ Idle(p) /\ Opened(p)
    /\ tasks < MaxTasks
    /\ tasks' = tasks + 1
    /\ cur' = [cur EXCEPT ![p].pc = "take", ![p].mode = "task"]
    /\ UNCHANGED <<storeVars, lock, disk, holder, left, edits>>

\* WorkspaceLock.acquire and the row, read again: busy, waiting for recovery or
\* a row that cannot be trusted ends the operation.
Take(p) ==
    /\ At(p, "take")
    /\ IF WorkspaceFree /\ BaselineVerdict(cur[p].session) = "ok"
       THEN /\ holder' = p
            /\ cur' = [cur EXCEPT ![p].pc = "scan", ![p].stored = accepted[cur[p].session]]
       ELSE /\ cur' = [cur EXCEPT ![p] = Left(cur[p])]
            /\ UNCHANGED holder
    /\ UNCHANGED <<storeVars, lock, disk, left, edits, tasks>>

\* What the gate compares with: the baseline in memory, or else the row; an
\* activation has only the row.
Reference(c) ==
    IF c.base # NoRow /\ c.mode = "task" THEN c.base
    ELSE IF c.stored # NoRow THEN c.stored.record ELSE NoRow

\* One turn of the gate's loop over a candidate: accept what is the same, show
\* what is not.
Compared(c, candidate) ==
    IF Reference(c) = NoRow \/ Reference(c) = candidate
    THEN [c EXCEPT !.pc = "accept", !.candidate = candidate]
    ELSE [Observed(c, Changed(Reference(c), candidate)) EXCEPT
             !.pc = "asking", !.candidate = candidate, !.attempts = @ + 1]

Scan(p) ==
    /\ At(p, "scan")
    /\ cur' = [cur EXCEPT ![p] = Compared(cur[p], Captured)]
    /\ UNCHANGED <<storeVars, lock, disk, holder, left, edits, tasks>>

Approve(p) ==
    /\ At(p, "asking")
    /\ cur' = [cur EXCEPT ![p].pc = "rescan", ![p].approved = cur[p].candidate]
    /\ UNCHANGED <<storeVars, lock, disk, holder, left, edits, tasks>>

\* Only the state that was shown, found again, is accepted; another one goes
\* through the loop.
AcceptLatest(c, found) == [c EXCEPT !.pc = "accept", !.candidate = found]
Rescanned(c, found) ==
    IF found = c.candidate THEN [c EXCEPT !.pc = "accept"]
    ELSE IF c.attempts < MaxConfirmations THEN Compared([c EXCEPT !.approved = NoRow], found)
    ELSE Left(c)

Rescan(p) ==
    /\ At(p, "rescan")
    /\ cur' = [cur EXCEPT ![p] = Rescanned(cur[p], Captured)]
    /\ holder' = IF cur'[p].pc = "idle" THEN Nobody ELSE holder
    /\ UNCHANGED <<storeVars, lock, disk, left, edits, tasks>>

GiveUp(p) ==
    /\ Running(p) /\ cur[p].pc \in {"scan", "asking", "rescan", "accept"}
    /\ cur' = [cur EXCEPT ![p] = Left(cur[p])]
    /\ holder' = Nobody
    /\ UNCHANGED <<storeVars, lock, disk, left, edits, tasks>>

-----------------------------------------------------------------------------
\* _accept_workspace_baseline: the row first, when it differs, by compare-and-
\* swap; then the memory.
NeedsSave(c) == c.stored = NoRow \/ c.stored.record # c.candidate
RowOf(c) == [record |-> c.candidate, revision |-> IF c.stored = NoRow THEN 1 ELSE c.stored.revision + 1]
Published(c) == [c EXCEPT !.base = c.candidate, !.stored = IF NeedsSave(c) THEN RowOf(c) ELSE @]
MemoryFirst(c) == [c EXCEPT !.base = c.candidate]
Unsaved(c) == [c EXCEPT !.candidate = NoRow]

SaveRow(c) ==
    IF NeedsSave(c)
    THEN SaveBaseline(c.session, c.candidate, IF c.stored = NoRow THEN 0 ELSE c.stored.revision)
    ELSE UNCHANGED storeVars

\* The workspace lock is given back after an activation, and by a task that is
\* cancelled by now; another task marks its activity and starts.
Accept(p) ==
    /\ At(p, "accept")
    /\ LET c == cur[p] IN
       /\ SaveRow(c)
       /\ \/ /\ cur' = [cur EXCEPT ![p] = Left(Published(c))]
             /\ holder' = Nobody
             /\ UNCHANGED left
          \/ /\ c.mode = "task"
             /\ cur' = [cur EXCEPT ![p] = [Published(c) EXCEPT !.pc = "working"]]
             /\ left' = TRUE
             /\ UNCHANGED holder
    /\ UNCHANGED <<lock, disk, edits, tasks>>

\* A tool of the task writes a file and records what was there before.
Write(p) ==
    /\ At(p, "working")
    /\ \E x \in Paths, v \in Contents :
          /\ v # disk.files[x]
          /\ x \notin DOMAIN cur[p].own
          /\ disk' = [disk EXCEPT !.files[x] = v]
          /\ cur' = [cur EXCEPT ![p].own =
                       [y \in DOMAIN @ \cup {x} |->
                           IF y = x THEN [before |-> disk.files[x], after |-> v] ELSE @[y]]]
    /\ UNCHANGED <<storeVars, lock, holder, left, edits, tasks>>

\* _merge_verification_obligation, with the paths a trusted check covers.
Merged(m, wrote, covered) ==
    LET paths == (m.paths \cup wrote) \ covered IN
    CASE m.kind = "legacy_unknown" /\ covered # Paths -> [kind |-> "legacy_unknown", paths |-> paths]
      [] OTHER -> [kind |-> IF paths = {} THEN "none" ELSE "pending", paths |-> paths]

\* The end of _run_task_locked: the obligation, and a save that may fail.  A task
\* that wrote is not ok without a check that passed.  A check covers everything:
\* those that cover less are in TaskVerification.
Ran(p) ==
    /\ At(p, "working")
    /\ \E covered \in {{}, Paths}, ok, keep \in BOOLEAN :
          LET c == cur[p]
              memory == Merged(c.memory, DOMAIN c.own, covered) IN
          /\ ok /\ DOMAIN c.own # {} => covered # {}
          /\ cur' = [cur EXCEPT ![p] = [c EXCEPT !.memory = memory, !.dirty = ~keep, !.ok = ok,
                                                 !.known = @ \cup DOMAIN c.own, !.pc = "finalize"]]
          /\ IF keep THEN SaveMemory(c.session, memory) ELSE UNCHANGED storeVars
    /\ UNCHANGED <<lock, disk, holder, left, edits, tasks>>

\* task_changes_match_baselines: the ledger explains every path, from the
\* baseline's content to the content found.
WithOwn(b, own) == [b EXCEPT !.files = [x \in Paths |-> IF x \in DOMAIN own THEN own[x].after ELSE @[x]]]
Attributable(c, found) ==
    /\ \A x \in DOMAIN c.own : c.own[x].before = c.base.files[x]
    /\ found = WithOwn(c.base, c.own)

\* The marker goes and the workspace is free when nothing is left to clean up.
Done(c) == [Left(c) EXCEPT !.own = [x \in {} |-> 0], !.ok = FALSE]

\* _finalize_workspace_task: what the task can account for becomes the baseline
\* by the same two steps, which may fail; anything else, and a scan that fails,
\* leaves the baseline behind, is owed and saved as such if the disk lets it.
Advances(c, found) == Attributable(c, found) /\ (c.ok \/ found = c.base)

Finalize(p) ==
    /\ At(p, "finalize")
    /\ LET c == [cur[p] EXCEPT !.candidate = Captured] IN
       \/ /\ Advances(c, c.candidate)
          /\ SaveRow(c)
          /\ cur' = [cur EXCEPT ![p] = Done(Published(c))]
       \/ /\ Advances(c, c.candidate) /\ NeedsSave(c)
          /\ cur' = [cur EXCEPT ![p] = Done(Unsaved(c))]
          /\ UNCHANGED storeVars
       \/ \E keep \in BOOLEAN :
             LET d == Done(Forced(cur[p])) IN
             /\ cur' = [cur EXCEPT ![p] = [d EXCEPT !.dirty = @ /\ ~keep]]
             /\ IF d.dirty /\ keep THEN SaveMemory(d.session, d.memory) ELSE UNCHANGED storeVars
    /\ holder' = Nobody /\ left' = FALSE
    /\ UNCHANGED <<lock, disk, edits, tasks>>

-----------------------------------------------------------------------------
\* A person removes the marker after a crash.
Recover ==
    /\ holder = Nobody /\ left
    /\ left' = FALSE
    /\ UNCHANGED <<storeVars, lock, disk, holder, cur, edits, tasks>>

\* Other programs change files, the workspace is moved or copied (another root),
\* a row of the database is lost.
Edit ==
    /\ edits < MaxEdits
    /\ edits' = edits + 1
    /\ \/ \E x \in Paths, v \in Contents : disk' = [disk EXCEPT !.files[x] = v]
       \/ disk' = [disk EXCEPT !.root = 1 - @]
    /\ disk' # disk
    /\ UNCHANGED <<storeVars, lock, holder, left, cur, tasks>>

LoseRow(s) ==
    /\ edits < MaxEdits
    /\ edits' = edits + 1
    /\ accepted[s] # NoRow
    /\ accepted' = [accepted EXCEPT ![s] = NoRow]
    /\ UNCHANGED <<saved, reviewed, marker, lock, disk, holder, left, cur, tasks>>

Next ==
    \/ \E p \in Procs :
          \/ \E s \in Sessions : Open(p, s) \/ FirstTask(p, s)
          \/ Enter(p) \/ Persist(p) \/ Close(p) \/ Crash(p)
          \/ BeginTask(p) \/ Take(p) \/ Scan(p) \/ Approve(p) \/ Rescan(p) \/ GiveUp(p)
          \/ Accept(p) \/ Write(p) \/ Ran(p) \/ Finalize(p)
    \/ Recover \/ Edit \/ \E s \in Sessions : LoseRow(s)

Spec == Init /\ [][Next]_vars

-----------------------------------------------------------------------------
\* The row and the memory advance together or not at all: what the gate compares
\* with in this process is what it would compare with after a restart.
BothOrNeither ==
    \A p \in Procs : Opened(p) /\ cur[p].base # NoRow /\ accepted[cur[p].session] # NoRow
        => accepted[cur[p].session].record = cur[p].base

\* No state becomes a session's own without being the first one, or exactly the
\* one a person was shown and found again, or the last one with nothing but what
\* the task itself wrote.
AcceptedIsVouched ==
    [][\A s \in Sessions : accepted[s] # NoRow /\ accepted'[s] \notin {accepted[s], NoRow} =>
          LET c == cur[lock[s]] IN
          \/ c.approved = accepted'[s].record
          \/ c.pc = "finalize" /\ accepted'[s].record = WithOwn(accepted[s].record, c.own)]_vars

\* A row that was lost stays lost: it is never taken for a session that has not
\* had one yet, and no task starts on it.
LossIsNotForgotten ==
    [][\A s \in Sessions : marker[s] /\ accepted[s] = NoRow => accepted'[s] = NoRow]_vars

\* A confirmed difference is owed a check by whoever opens the session next, when
\* the row already takes it for accepted and nothing is left to ask about:
\* accepting a start does not clear pending or legacy_unknown (README.md:618).
Covers(row, m) ==
    \/ m.kind = "none"
    \/ row.kind = "legacy_unknown"
    \/ m.paths # {} /\ m.paths \subseteq row.paths
ConfirmedStaysOwed ==
    [][\A p \in Procs : Opened(p) /\ cur'[p] = Down =>
          LET s == cur[p].session IN
          accepted[s] # NoRow /\ accepted[s].record = cur[p].approved /\ disk = cur[p].approved
              => Covers(saved'[s], cur[p].memory)]_vars
=============================================================================
