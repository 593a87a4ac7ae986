---------------------------- MODULE TaskCleanup -----------------------------
(***************************************************************************)
(* Who answers for the threads and resources that a task leaves behind     *)
(* (task_cleanup.py), so that the next task of the same agent does not     *)
(* start beside them.                                                      *)
(*                                                                         *)
(* A host runs tasks one after another.  Each has a scope; every worker    *)
(* thread of the task has a lease on it, and what a worker cannot close    *)
(* is retained in the scope.  An owner (agent.py _cleanup_owner) outlives  *)
(* the tasks and holds the leases and the scopes that are not finished     *)
(* with.  A runtime keeps a list of unfinished scopes of its own and       *)
(* retries them.                                                           *)
(*                                                                         *)
(* A step is one critical section of the scope's lock.  The end of a       *)
(* worker is two: it works on the owner, whose lock is another, twice.     *)
(* Deadlines are left out: a resource closes in time, or it does not.      *)
(***************************************************************************)
EXTENDS Naturals

CONSTANTS Workers,    \* the worker threads, each with at most one resource
          MaxTasks    \* bound on the tasks that are run

ASSUME MaxTasksAssumption == MaxTasks \in Nat

Scopes == 1 .. MaxTasks

VARIABLES
    host,        \* "runtime" (SessionRuntime) or "alone" (an agent by itself)
    pc, task,    \* the host's place, and the scope of its present task
    lease,       \* the scope each worker has a lease on; 0: none yet
    step,        \* the place of each worker
    awaited,     \* the worker the host waits for
    abandoned,   \* the leases with _abandoned
    workers,     \* _workers of each scope
    resources,   \* _resources of each scope: the workers that made them
    failed,      \* _failed of each scope
    owned,       \* the scopes that have the owner in their _owners
    held, kept,  \* the leases and the scopes in the owner's _resources
    pending,     \* _pending_cleanup of the runtime
    alive        \* the workers whose resource is alive

threads == <<lease, step, awaited, abandoned>>
scopes == <<workers, resources, failed>>
owner == <<owned, held, kept>>
cleanupVars == <<host, pc, task, threads, scopes, owner, pending, alive>>

CleanupTypes ==
    /\ host \in {"runtime", "alone"}
    /\ pc \in {"idle", "open", "handing"} /\ task \in 0 .. MaxTasks
    /\ lease \in [Workers -> 0 .. MaxTasks]
    /\ step \in [Workers -> {"free", "queued", "running", "finish", "discard",
                             "gone"}]
    /\ awaited \in SUBSET Workers /\ abandoned \in SUBSET Workers
    /\ workers \in [Scopes -> SUBSET Workers]
    /\ resources \in [Scopes -> SUBSET Workers]
    /\ failed \in [Scopes -> BOOLEAN]
    /\ owned \in SUBSET Scopes /\ kept \in SUBSET Scopes
    /\ pending \in SUBSET Scopes
    /\ held \in SUBSET Workers /\ alive \in SUBSET Workers

CleanupInit ==
    /\ host \in {"runtime", "alone"}
    /\ pc = "idle" /\ task = 0
    /\ lease = [w \in Workers |-> 0] /\ step = [w \in Workers |-> "free"]
    /\ awaited = {} /\ abandoned = {}
    /\ workers = [s \in Scopes |-> {}] /\ resources = [s \in Scopes |-> {}]
    /\ failed = [s \in Scopes |-> FALSE]
    /\ owned = {} /\ held = {} /\ kept = {} /\ pending = {} /\ alive = {}

\* A worker between the two parts of its end has the lock of its scope.
Unlocked(s) == \A w \in Workers : step[w] = "discard" => lease[w] # s

Goto(w, place) == step' = [step EXCEPT ![w] = place]
HasUnfinished(s) == resources[s] # {} \/ workers[s] # {}

\* _handoff_locked: the owner has the scope before anyone lets go of it.
HandOff(s) ==
    /\ failed' = [failed EXCEPT ![s] = TRUE]
    /\ owned' = owned \cup {s}
    /\ kept' = kept \cup {s}

\* _release_idle_owners_locked, on the new value of the scope.
ReleaseIdle(s) ==
    IF resources'[s] = {} /\ workers'[s] = {}
    THEN owned' = owned \ {s} /\ kept' = IF s \in owned THEN kept \ {s} ELSE kept
    ELSE UNCHANGED <<owned, kept>>
-----------------------------------------------------------------------------
(***************************************************************************)
(* The host                                                                *)
(***************************************************************************)
\* The gates at the start: the runtime's list, then blocks() of the owner.
\* Nothing that is listed there belongs to the new scope.
Blocked == pending # {} \/ held # {} \/ kept # {}

EnterTask ==
    /\ pc = "idle" /\ task < MaxTasks
    /\ ~Blocked
    /\ pc' = "open" /\ task' = task + 1
    /\ UNCHANGED <<host, threads, scopes, owner, pending, alive>>

\* start_worker, then the submission, which may fail: the submitter then ends
\* the lease itself.  One worker is awaited at a time.
StartWorker(w) ==
    /\ pc = "open" /\ awaited = {} /\ step[w] = "free"
    /\ Unlocked(task)
    /\ lease' = [lease EXCEPT ![w] = task]
    /\ workers' = [workers EXCEPT ![task] = @ \cup {w}]
    /\ held' = held \cup {w}
    /\ awaited' = {w}
    /\ Goto(w, "queued") \/ Goto(w, "finish")
    /\ UNCHANGED <<host, pc, task, abandoned, resources, failed, owned, kept,
                   pending, alive>>

Await(w) ==
    /\ w \in awaited /\ step[w] = "gone"
    /\ awaited' = {}
    /\ UNCHANGED <<host, pc, task, lease, step, abandoned, scopes, owner,
                   pending, alive>>

\* Mutant of Abandon: the cancelled wait is taken for the end of the thread.
AbandonEnds(w) ==
    /\ w \in awaited /\ Unlocked(lease[w])
    /\ awaited' = {}
    /\ abandoned' = abandoned \cup {w}
    /\ failed' = [failed EXCEPT ![lease[w]] = TRUE]
    /\ workers' = [workers EXCEPT ![lease[w]] = @ \ {w}]
    /\ held' = held \ {w}
    /\ UNCHANGED <<host, pc, task, lease, step, resources, owned, kept, pending,
                   alive>>

\* The awaiting coroutine is cancelled; the thread is not.
Abandon(w) ==
    /\ w \in awaited /\ Unlocked(lease[w])
    /\ awaited' = {}
    /\ abandoned' = abandoned \cup {w}
    /\ failed' = [failed EXCEPT ![lease[w]] = TRUE]
    /\ UNCHANGED <<host, pc, task, lease, step, workers, resources, owner,
                   pending, alive>>

\* The end of the task: run_task lists the scope, task_cleanup_scope of an
\* agent by itself goes on to hand it to the owner.
EndTask ==
    /\ pc = "open" /\ awaited = {} /\ Unlocked(task)
    /\ \/ /\ ~HasUnfinished(task)
          /\ pc' = "idle" /\ UNCHANGED <<failed, pending>>
       \/ /\ HasUnfinished(task) /\ host = "runtime"
          /\ pc' = "idle" /\ pending' = pending \cup {task} /\ UNCHANGED failed
       \/ /\ HasUnfinished(task) /\ host = "alone"
          /\ pc' = "handing" /\ failed' = [failed EXCEPT ![task] = TRUE]
          /\ UNCHANGED pending
    /\ UNCHANGED <<host, task, threads, workers, resources, owner, alive>>

\* handoff_to looks again: the last worker may have ended meanwhile.
HandTask ==
    /\ pc = "handing" /\ Unlocked(task)
    /\ IF HasUnfinished(task) THEN HandOff(task) ELSE UNCHANGED <<failed, owned, kept>>
    /\ pc' = "idle"
    /\ UNCHANGED <<host, task, threads, workers, resources, held, pending, alive>>

\* Mutant of Retry: the owner is not told that the scope has become idle.
ForgetOwner(s) ==
    /\ host = "runtime" /\ pc = "idle" /\ s \in pending
    /\ workers[s] = {} /\ Unlocked(s)
    /\ \E closed \in SUBSET resources[s] :
         /\ resources' = [resources EXCEPT ![s] = @ \ closed]
         /\ alive' = alive \ closed
    /\ pending' = IF resources'[s] = {} THEN pending \ {s} ELSE pending
    /\ UNCHANGED <<host, pc, task, threads, workers, failed, owner>>

\* retry: with a worker still there it does nothing, else it closes what it
\* can of what it finds.
Retry(s) ==
    /\ host = "runtime" /\ pc = "idle" /\ s \in pending
    /\ workers[s] = {} /\ Unlocked(s)
    /\ \E closed \in SUBSET resources[s] :
         /\ resources' = [resources EXCEPT ![s] = @ \ closed]
         /\ alive' = alive \ closed
    /\ UNCHANGED workers
    /\ ReleaseIdle(s)
    /\ pending' = IF resources'[s] = {} THEN pending \ {s} ELSE pending
    /\ UNCHANGED <<host, pc, task, threads, failed, held>>
-----------------------------------------------------------------------------
(***************************************************************************)
(* A worker thread                                                         *)
(***************************************************************************)
Begin(w) ==
    /\ step[w] = "queued" /\ Unlocked(lease[w])
    /\ Goto(w, IF w \in abandoned THEN "finish" ELSE "running")
    /\ UNCHANGED <<host, pc, task, lease, awaited, abandoned, scopes, owner,
                   pending, alive>>

\* submission_cancelled: the executor drops a future that it has not run.
Dropped(w) ==
    /\ step[w] = "queued" /\ Unlocked(lease[w])
    /\ abandoned' = abandoned \cup {w}
    /\ Goto(w, "finish")
    /\ UNCHANGED <<host, pc, task, lease, awaited, scopes, owner, pending, alive>>

\* The worker makes a resource (a process, a stream, a cache directory), which
\* some retain in the scope at once.
Open(w) ==
    /\ step[w] = "running" /\ w \notin alive /\ Unlocked(lease[w])
    /\ alive' = alive \cup {w}
    /\ resources' \in {resources, [resources EXCEPT ![lease[w]] = @ \cup {w}]}
    /\ UNCHANGED <<host, pc, task, threads, workers, failed, owner, pending>>

\* The work ends: its resource is closed and discarded, or could not be closed
\* and is retained.
EndWork(w) ==
    /\ step[w] = "running" /\ Unlocked(lease[w])
    /\ \/ /\ alive' = alive \ {w}
          /\ resources' = [resources EXCEPT ![lease[w]] = @ \ {w}]
          /\ UNCHANGED failed
       \/ /\ w \in alive /\ UNCHANGED alive
          /\ resources' = [resources EXCEPT ![lease[w]] = @ \cup {w}]
          /\ failed' = [failed EXCEPT ![lease[w]] = TRUE]
    /\ Goto(w, "finish")
    /\ UNCHANGED <<host, pc, task, lease, awaited, abandoned, workers, owner,
                   pending>>

\* _finish_worker, holding the lock of the scope until the discard.
FinishWorker(w) ==
    /\ step[w] = "finish" /\ Unlocked(lease[w])
    /\ workers' = [workers EXCEPT ![lease[w]] = @ \ {w}]
    /\ UNCHANGED resources
    /\ IF resources[lease[w]] # {} THEN HandOff(lease[w])
       ELSE ReleaseIdle(lease[w]) /\ UNCHANGED failed
    /\ Goto(w, "discard")
    /\ UNCHANGED <<host, pc, task, lease, awaited, abandoned, held, pending, alive>>

DiscardLease(w) ==
    /\ step[w] = "discard"
    /\ held' = held \ {w}
    /\ Goto(w, "gone")
    /\ UNCHANGED <<host, pc, task, lease, awaited, abandoned, scopes, owned,
                   kept, pending, alive>>

Thread(w) == Begin(w) \/ Dropped(w) \/ EndWork(w) \/ FinishWorker(w) \/ DiscardLease(w)

CleanupNext ==
    \/ EnterTask \/ EndTask \/ HandTask
    \/ \E s \in Scopes : Retry(s)
    \/ \E w \in Workers : StartWorker(w) \/ Await(w) \/ Abandon(w) \/ Open(w)
                          \/ Thread(w)

CleanupSpec == CleanupInit /\ [][CleanupNext]_cleanupVars
-----------------------------------------------------------------------------
(***************************************************************************)
(* Properties                                                              *)
(***************************************************************************)
\* While a task runs, nothing of an earlier one is alive: the owner or the
\* runtime answers for each thread and each resource from before the thread is
\* submitted until after it is confirmed gone, with no gap in between.
NothingFromBefore ==
    pc = "open" => \A w \in Workers :
        lease[w] \notin {0, task} => step[w] \in {"discard", "gone"} /\ w \notin alive

\* The gates open again: when no thread and no resource is left and every
\* unfinished scope was retried, neither the owner nor the runtime is in the
\* way of the next task.
GateOpensAgain ==
    /\ \A w \in Workers : step[w] \in {"free", "gone"}
    /\ pc = "idle" /\ alive = {} /\ pending = {}
    => ~Blocked
=============================================================================
