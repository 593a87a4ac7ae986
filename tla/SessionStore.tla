---------------------------- MODULE SessionStore ----------------------------
(***************************************************************************)
(* The session database (session/store.py) and the session locks beside it  *)
(* (session/lock.py).  Every method of SessionStore is one SQLite           *)
(* transaction (BEGIN .. commit, or rollback on any exception), so each is  *)
(* one operator here: it happens whole or not at all, and what a failing    *)
(* disk does is the caller's choice between the operator and UNCHANGED.     *)
(* The database survives the processes that use it; the locks do not.       *)
(*                                                                         *)
(*   saved[s]     the row of session_memory, or NoRow when there is no      *)
(*                session s (the two rows are inserted and deleted together)*)
(*   reviewed[s]  the row of conversation_memory, or NoRow                  *)
(*   marker[s]    sessions.workspace_baseline_initialized                   *)
(*   accepted[s]  the row of session_workspace_baselines, or NoRow          *)
(*   lock[s]      the process that holds the session's lock file, or Nobody *)
(***************************************************************************)
EXTENDS Naturals

CONSTANTS Procs, Sessions, NoRow, Nobody

ASSUME NobodyAssumption == Nobody \notin Procs

VARIABLES saved, reviewed, marker, accepted, lock

storeVars == <<saved, reviewed, marker, accepted>>

Exists(s) == saved[s] # NoRow

StoreInit ==
    /\ saved = [s \in Sessions |-> NoRow]
    /\ reviewed = [s \in Sessions |-> NoRow]
    /\ marker = [s \in Sessions |-> FALSE]
    /\ accepted = [s \in Sessions |-> NoRow]
    /\ lock = [s \in Sessions |-> Nobody]

-----------------------------------------------------------------------------
\* The session and an empty memory: whatever memory the caller has prepared,
\* the row is made of the column defaults.
InsertPrepared(s, defaults) ==
    /\ ~Exists(s)
    /\ saved' = [saved EXCEPT ![s] = defaults]
    /\ UNCHANGED <<reviewed, marker, accepted>>

\* No revision is compared: the session lock is all that orders the writers.
SaveMemory(s, memory) ==
    /\ Exists(s)
    /\ saved' = [saved EXCEPT ![s] = memory]
    /\ UNCHANGED <<reviewed, marker, accepted>>

\* Compare-and-swap on the revision; no row counts as "no revision".
ReviewedRevision(s) == IF reviewed[s] = NoRow THEN NoRow ELSE reviewed[s].memory.revision

SaveConversation(s, memory, next, expected) ==
    /\ Exists(s)
    /\ ReviewedRevision(s) = expected
    /\ next > memory.covered
    /\ reviewed' = [reviewed EXCEPT ![s] = [memory |-> memory, next |-> next]]
    /\ UNCHANGED <<saved, marker, accepted>>

-----------------------------------------------------------------------------
\* The marker tells "never had a baseline" from "lost it": a missing row is an
\* initial state only while the marker is unset.
RowIsAll(s) == "ok"
BaselineVerdict(s) ==
    CASE ~marker[s] /\ accepted[s] # NoRow -> "inconsistent_record"
      [] marker[s] /\ accepted[s] = NoRow  -> "missing_record"
      [] OTHER                             -> "ok"

AcceptedRevision(s) == IF accepted[s] = NoRow THEN 0 ELSE accepted[s].revision

SaveBaseline(s, record, expected) ==
    /\ Exists(s)
    /\ BaselineVerdict(s) = "ok"
    /\ AcceptedRevision(s) = expected
    /\ accepted' = [accepted EXCEPT ![s] = [record |-> record, revision |-> expected + 1]]
    /\ marker' = [marker EXCEPT ![s] = TRUE]
    /\ UNCHANGED <<saved, reviewed>>

-----------------------------------------------------------------------------
\* flock(LOCK_EX | LOCK_NB) on a file that is never removed: the kernel gives
\* it to one open descriptor and takes it back when the process goes.
LockIgnored(s) == s \in Sessions
SessionLockFree(s) == lock[s] = Nobody

Held(p) == {s \in Sessions : lock[s] = p}
=============================================================================
