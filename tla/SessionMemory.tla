---------------------------- MODULE SessionMemory ----------------------------
(***************************************************************************)
(* Processes that open, switch, run, clear, edit, save and leave sessions of *)
(* one database (session/runtime.py over session/store.py and lock.py, with  *)
(* the memory steps of context/coordinator.py).  A process is one            *)
(* SessionRuntime; all its operations hold the task lock, so each is one     *)
(* action, and processes interleave through the database and the locks.      *)
(* A failing write is a choice inside the action; a process may die between  *)
(* any two actions, and every partial effect of an operation is the effect   *)
(* of some action here followed by a crash.                                  *)
(*                                                                         *)
(* What a memory says is a set of facts: every finished task teaches one.    *)
(* A fact is an item of a conversation memory, or archived in it, or still   *)
(* only in the messages.  SessionMemory of the code (the row "saved") is the *)
(* number of the last task and the permission.  nextFact, known and erased   *)
(* are history variables.  Bounds: MaxFacts, MaxGeneration, MaxRevision of a *)
(* memory that may still be edited, and OneReader.                           *)
(***************************************************************************)
EXTENDS SessionStore

CONSTANTS MaxFacts, MaxGeneration, MaxRevision, NoSession, Down,
    Levels     \* the permission levels, "strict" being the default

VARIABLES cur,       \* the ActiveSession of each process, NoSession, or Down
          entry,     \* _entry_permission of each process
          preview,   \* the preview its user is looking at, or NoRow
          nextFact,  \* history: facts 1 .. nextFact-1 have been learned
          erased     \* history: facts a completed clear has removed

vars == <<saved, reviewed, marker, accepted, lock, cur, entry, preview, nextFact, erased>>

ColumnDefaults == [task |-> 0, permission |-> "strict"]
Facts == 1 .. MaxFacts

\* ConversationMemory of context/memory.py
NewMemory(generation) ==
    [revision |-> 0, generation |-> generation, covered |-> 0, items |-> {}, archived |-> {}]
FactsOf(m) == IF m = NoRow THEN {} ELSE m.items \cup m.archived

\* The rows of session_memory and conversation_memory, and ActiveSession.
Memories == [revision : Nat, generation : Nat, covered : Nat,
             items : SUBSET Facts, archived : SUBSET Facts]
SavedRows == [task : Nat, permission : Levels \cup {"strict"}]
ReviewedRows == [memory : Memories, next : Nat]
OpenSessions ==
    [ session : Sessions, memory : SavedRows, persisted : SavedRows, dirty : BOOLEAN,
      conv : Memories, review : Memories \cup {NoRow},
      messages : SUBSET [seq : Nat, fact : Facts], next : Nat, target : Nat,
      persistedRevision : Nat \cup {NoRow}, pendingClear : BOOLEAN, known : SUBSET Facts ]

ASSUME FactsAssumption == MaxFacts \in Nat
\* None is not a memory or a row, and no process is taken for an open session.
ASSUME SentinelAssumption ==
    /\ NoRow \notin Memories /\ NoRow \notin SavedRows /\ NoRow \notin ReviewedRows
    /\ Down \notin OpenSessions /\ NoSession \notin OpenSessions

\* What a process holds of a session it has just opened: the reviewed memory or
\* an empty one.
Restored(s) == IF reviewed[s] = NoRow THEN NewMemory(0) ELSE reviewed[s].memory

Opened(s, memory) ==
    LET row == reviewed[s]
        conv == Restored(s) IN
    [ session |-> s, memory |-> memory, persisted |-> memory, dirty |-> FALSE,
      conv |-> conv, review |-> NoRow, messages |-> {},
      next |-> IF row = NoRow THEN 1 ELSE row.next,
      target |-> conv.covered,
      persistedRevision |-> IF row = NoRow THEN NoRow ELSE conv.revision,
      pendingClear |-> FALSE, known |-> FactsOf(conv) ]

Running(p) == cur[p] # Down
Active(p) == cur[p] \notin {Down, NoSession}
Base(c) == IF c.review # NoRow THEN c.review ELSE c.conv

Init ==
    /\ StoreInit
    /\ cur = [p \in Procs |-> Down]
    /\ entry = [p \in Procs |-> "strict"]
    /\ preview = [p \in Procs |-> NoRow]
    /\ nextFact = 1
    /\ erased = {}

-----------------------------------------------------------------------------
\* _persist_current and _retry_persist_locked.  Written over the record c of
\* the process, as what is left in the two tables and in memory:
\*   keep, erase   whether the save and the deletion reach the disk.
AlwaysClean(c, keep) == [c EXCEPT !.persisted = c.memory, !.dirty = FALSE]
Persisted(c, keep) ==
    IF c.dirty /\ keep THEN [c EXCEPT !.persisted = c.memory, !.dirty = FALSE] ELSE c
Retried(c, keep, erase) ==
    LET d == Persisted(c, keep) IN
    IF d.pendingClear /\ erase
    THEN [d EXCEPT !.persistedRevision = NoRow, !.pendingClear = FALSE] ELSE d
RetryRows(c, keep, erase) ==
    /\ saved' = IF c.dirty /\ keep THEN [saved EXCEPT ![c.session] = c.memory] ELSE saved
    /\ reviewed' = IF c.pendingClear /\ erase
                   THEN [reviewed EXCEPT ![c.session] = NoRow] ELSE reviewed
    /\ erased' = IF c.pendingClear /\ erase /\ reviewed[c.session] # NoRow
                 THEN erased \cup FactsOf(reviewed[c.session].memory) ELSE erased
    /\ UNCHANGED <<marker, accepted>>
Settled(c) == ~c.dirty /\ ~c.pendingClear

\* persist_current, retry_persist, and what a create or a switch that is refused
\* later leaves behind.
RetryPersist(p) ==
    /\ Active(p)
    /\ ~Settled(cur[p])
    /\ \E keep, erase \in BOOLEAN :
          /\ RetryRows(cur[p], keep, erase)
          /\ cur' = [cur EXCEPT ![p] = Retried(cur[p], keep, erase)]
    /\ UNCHANGED <<lock, entry, preview, nextFact>>

-----------------------------------------------------------------------------
\* SessionRuntime.__init__: at the entry, or with a session: the lock first, the
\* row read under it.
Start(p) ==
    /\ cur[p] = Down
    /\ \/ cur' = [cur EXCEPT ![p] = NoSession] /\ UNCHANGED lock
       \/ \E s \in Sessions :
             /\ Exists(s) /\ SessionLockFree(s)
             /\ lock' = [lock EXCEPT ![s] = p]
             /\ cur' = [cur EXCEPT ![p] = Opened(s, saved[s])]
    /\ UNCHANGED <<storeVars, entry, preview, nextFact, erased>>

\* _handoff_session: the new session is owned and the old one let go.
TakeBeside(p, s) == lock' = [lock EXCEPT ![s] = p]
HandOver(p, s) ==
    lock' = [t \in Sessions |-> IF t = s THEN p ELSE IF lock[t] = p THEN Nobody ELSE lock[t]]

\* create, and _ensure_session_for_task_locked for the first task of a process
\* at the entry: the permission is inherited, the row is not told.
Inherited(p) == IF Active(p) THEN cur[p].memory.permission ELSE entry[p]
Prepared(p) == [task |-> 0, permission |-> Inherited(p)]

Create(p) ==
    /\ Running(p)
    /\ \E s \in Sessions :
          /\ ~Exists(s) /\ SessionLockFree(s)
          /\ cur' = [cur EXCEPT ![p] = Opened(s, Prepared(p))]
          /\ IF Active(p)
             THEN LET c == cur[p] IN
                  /\ saved' = [saved EXCEPT ![s] = ColumnDefaults,
                                 ![c.session] = IF c.dirty THEN c.memory ELSE @]
                  /\ reviewed' = IF c.pendingClear
                                 THEN [reviewed EXCEPT ![c.session] = NoRow] ELSE reviewed
                  /\ erased' = IF c.pendingClear /\ reviewed[c.session] # NoRow
                               THEN erased \cup FactsOf(reviewed[c.session].memory) ELSE erased
                  /\ UNCHANGED <<marker, accepted>>
             ELSE InsertPrepared(s, ColumnDefaults) /\ UNCHANGED erased
          /\ HandOver(p, s)
    /\ UNCHANGED <<entry, preview, nextFact>>

Switch(p) ==
    /\ Running(p)
    /\ \E s \in Sessions :
          /\ Exists(s) /\ SessionLockFree(s)
          /\ cur' = [cur EXCEPT ![p] = Opened(s, saved[s])]
          /\ IF Active(p) THEN RetryRows(cur[p], TRUE, TRUE)
                          ELSE UNCHANGED <<storeVars, erased>>
          /\ HandOver(p, s)
    /\ UNCHANGED <<entry, preview, nextFact>>

\* close: one more attempt to save, then the lock goes whatever came of it.
Close(p) ==
    /\ Running(p)
    /\ IF Active(p) THEN \E keep, erase \in BOOLEAN : RetryRows(cur[p], keep, erase)
                    ELSE UNCHANGED <<storeVars, erased>>
    /\ cur' = [cur EXCEPT ![p] = Down]
    /\ preview' = [preview EXCEPT ![p] = NoRow]
    /\ lock' = [s \in Sessions |-> IF lock[s] = p THEN Nobody ELSE lock[s]]
    /\ entry' = [entry EXCEPT ![p] = "strict"]
    /\ UNCHANGED nextFact

\* The process dies; the kernel releases its locks.
Crash(p) ==
    /\ Active(p)
    /\ cur' = [cur EXCEPT ![p] = Down]
    /\ preview' = [preview EXCEPT ![p] = NoRow]
    /\ lock' = [s \in Sessions |-> IF lock[s] = p THEN Nobody ELSE lock[s]]
    /\ entry' = [entry EXCEPT ![p] = "strict"]
    /\ UNCHANGED <<storeVars, nextFact, erased>>

-----------------------------------------------------------------------------
\* build_review_candidate of context/coordinator.py: the candidate goes on from
\* the last candidate, or from the runtime memory, over the messages that are
\* still there.  It refuses when compaction has dropped messages that the
\* candidate has not covered.
RefreshRefused(c) ==
    \/ c.pendingClear
    \/ c.review # NoRow /\ c.review.covered < c.conv.covered
    \/ Base(c).covered > c.target

\* merge_review_candidate: what the messages between the two watermarks say.
MergedOver(m, messages, upTo) ==
    [m EXCEPT !.revision = @ + 1, !.covered = upTo,
              !.items = @ \cup {x.fact : x \in {y \in messages : m.covered < y.seq /\ y.seq <= upTo}}]

Refreshed(c) ==
    IF Base(c).covered = c.target THEN c
    ELSE [c EXCEPT !.review = MergedOver(Base(c), c.messages, c.target)]

\* commit_compaction: older finished tasks leave the messages for the runtime
\* memory; the candidate for saving is not touched.
Kept(messages, upTo) == {x \in messages : x.seq > upTo}

Compacted(c, upTo) ==
    IF upTo <= c.conv.covered THEN c
    ELSE [c EXCEPT !.conv = MergedOver(c.conv, c.messages, upTo),
                   !.messages = Kept(c.messages, upTo)]

\* What a task adds: its messages, the candidate (which may fail), the row.
Taught(c, fact) ==
    [c EXCEPT !.messages = @ \cup {[seq |-> c.next, fact |-> fact]},
              !.target = c.next, !.next = @ + 1, !.known = @ \cup {fact}]
Reviewed(c, works) == IF works /\ ~RefreshRefused(c) THEN Refreshed(c) ELSE c
Reported(c, fact) == [c EXCEPT !.memory.task = fact, !.dirty = TRUE]

\* _run_task_locked on an active session, after a compaction before the model is
\* asked.
Task(p) ==
    /\ Active(p)
    /\ nextFact <= MaxFacts
    /\ \E upTo \in 0 .. cur[p].target, works, keep \in BOOLEAN :
          LET c == Reported(Reviewed(Taught(Compacted(cur[p], upTo), nextFact), works),
                            nextFact) IN
          /\ upTo = 0 \/ \E x \in cur[p].messages : x.seq = upTo
          /\ cur' = [cur EXCEPT ![p] = Persisted(c, keep)]
          /\ IF keep THEN SaveMemory(c.session, c.memory) ELSE UNCHANGED storeVars
    /\ nextFact' = nextFact + 1
    /\ UNCHANGED <<lock, entry, preview, erased>>

\* refresh_memory: the same candidate on demand, all or nothing.
Refresh(p) ==
    /\ Active(p)
    /\ ~RefreshRefused(cur[p])
    /\ Base(cur[p]).covered < cur[p].target
    /\ cur' = [cur EXCEPT ![p] = Refreshed(cur[p])]
    /\ UNCHANGED <<storeVars, lock, entry, preview, nextFact, erased>>

\* clear_current: the memory of the process is emptied whatever the disk does;
\* the message numbers go on, the generation is new.  The row is saved, then
\* the reviewed memory deleted, each in a transaction of its own.
ClearedButCandidate(c) ==
    LET memory == [c.memory EXCEPT !.task = 0] IN
    [c EXCEPT !.memory = memory, !.dirty = memory # c.persisted,
              !.conv = NewMemory(c.conv.generation + 1),
              !.messages = {}, !.target = 0, !.pendingClear = TRUE, !.known = {}]
Cleared(c) ==
    LET memory == [c.memory EXCEPT !.task = 0] IN
    [c EXCEPT !.memory = memory, !.dirty = memory # c.persisted,
              !.conv = NewMemory(c.conv.generation + 1), !.review = NoRow,
              !.messages = {}, !.target = 0, !.pendingClear = TRUE, !.known = {}]

Clear(p) ==
    /\ Active(p)
    /\ cur[p].conv.generation < MaxGeneration
    /\ \E keep, erase \in BOOLEAN :
          LET c == Cleared(cur[p]) IN
          /\ cur' = [cur EXCEPT ![p] = Retried(c, keep, erase)]
          /\ saved' = IF c.dirty /\ keep THEN [saved EXCEPT ![c.session] = c.memory] ELSE saved
          /\ reviewed' = IF erase THEN [reviewed EXCEPT ![c.session] = NoRow] ELSE reviewed
          /\ erased' = IF erase
                       THEN erased \cup cur[p].known
                            \cup (IF reviewed[c.session] = NoRow THEN {}
                                  ELSE FactsOf(reviewed[c.session].memory))
                       ELSE erased
    /\ UNCHANGED <<marker, accepted, lock, entry, preview, nextFact>>

-----------------------------------------------------------------------------
\* set_permission: at the entry a wish for the session to come; in a session a
\* save of the whole memory, taken back when it fails.
SetPermission(p) ==
    /\ Running(p)
    /\ \E level \in Levels :
          IF cur[p] = NoSession
          THEN /\ entry' = [entry EXCEPT ![p] = level]
               /\ UNCHANGED <<storeVars, cur>>
          ELSE LET memory == [cur[p].memory EXCEPT !.permission = level]
                   c == [cur[p] EXCEPT !.memory = memory, !.dirty = memory # cur[p].persisted] IN
               /\ cur' = [cur EXCEPT ![p] = Persisted(c, TRUE)]
               /\ IF c.dirty THEN SaveMemory(c.session, memory) ELSE UNCHANGED storeVars
               /\ UNCHANGED entry
    /\ UNCHANGED <<lock, preview, nextFact, erased>>

-----------------------------------------------------------------------------
\* Previews: what a person is shown carries the session, the two memories and
\* the counters it was made from.
Bound(p, kind, candidate) ==
    [ kind |-> kind, session |-> cur[p].session, conv |-> cur[p].conv, review |-> cur[p].review,
      next |-> cur[p].next, persistedRevision |-> cur[p].persistedRevision,
      candidate |-> candidate ]

SameBase(p) ==
    /\ Active(p)
    /\ cur[p].session = preview[p].session
    /\ cur[p].conv = preview[p].conv
    /\ cur[p].review = preview[p].review
    /\ cur[p].next = preview[p].next
    /\ ~cur[p].pendingClear

\* A bound: one process at a time has a preview that is being looked at.
OneReader(p) == \A q \in Procs \ {p} : preview[q] = NoRow

\* _require_complete_memory_candidate
Blank(m) == m.revision = 0 /\ m.covered = 0 /\ FactsOf(m) = {}
NotBlank(c) == ~Blank(Base(c))
Complete(c) == ~Blank(Base(c)) /\ Base(c).covered = c.target

PreviewSave(p) ==
    /\ Active(p)
    /\ ~cur[p].pendingClear
    /\ OneReader(p)
    /\ Complete(cur[p])
    /\ preview' = [preview EXCEPT ![p] = Bound(p, "save", Base(cur[p]))]
    /\ UNCHANGED <<storeVars, lock, cur, entry, nextFact, erased>>

\* save_memory_preview: nothing but what was shown, over nothing but what is
\* there; a refusal or a failing disk changes nothing.
SavePreview(p) ==
    /\ preview[p] # NoRow /\ preview[p].kind = "save"
    /\ SameBase(p)
    /\ preview[p].candidate = Base(cur[p])
    /\ cur[p].persistedRevision = preview[p].persistedRevision
    /\ Complete(cur[p])
    /\ SaveConversation(cur[p].session, preview[p].candidate, preview[p].next,
                        preview[p].persistedRevision)
    /\ cur' = [cur EXCEPT ![p].persistedRevision = preview[p].candidate.revision]
    /\ preview' = [preview EXCEPT ![p] = NoRow]
    /\ UNCHANGED <<lock, entry, nextFact, erased>>

\* _edited_memory: an item is deleted or, being done, archived.
Without(m, f) == [m EXCEPT !.revision = @ + 1, !.items = @ \ {f}]
Edits(m) == UNION { {Without(m, f), [Without(m, f) EXCEPT !.archived = @ \cup {f}]} :
                        f \in m.items }

Editable(p) ==
    /\ Active(p)
    /\ ~cur[p].pendingClear
    /\ OneReader(p)

PreviewEdit(p) ==
    /\ Editable(p)
    /\ Base(cur[p]).revision < MaxRevision
    /\ \E after \in Edits(Base(cur[p])) :
          preview' = [preview EXCEPT ![p] = Bound(p, "edit", after)]
    /\ UNCHANGED <<storeVars, lock, cur, entry, nextFact, erased>>

PreviewArchiveDelete(p) ==
    /\ Editable(p)
    /\ \E f \in Base(cur[p]).archived :
          preview' = [preview EXCEPT ![p] = Bound(p, "archive",
                        [Base(cur[p]) EXCEPT !.revision = @ + 1, !.archived = @ \ {f}])]
    /\ UNCHANGED <<storeVars, lock, cur, entry, nextFact, erased>>

\* In memory only, on the candidate if there is one.
WithBase(c, m) == IF c.review # NoRow THEN [c EXCEPT !.review = m] ELSE [c EXCEPT !.conv = m]

Apply(p, kind, messages) ==
    /\ preview[p] # NoRow /\ preview[p].kind = kind
    /\ SameBase(p)
    /\ LET c == cur[p]
           m == preview[p].candidate IN
       /\ m.revision = Base(c).revision + 1
       /\ m.covered = Base(c).covered
       /\ cur' = [cur EXCEPT ![p] =
                    [WithBase(c, m) EXCEPT !.next = @ + messages,
                                           !.known = @ \ (FactsOf(Base(c)) \ FactsOf(m))]]
    /\ preview' = [preview EXCEPT ![p] = NoRow]
    /\ UNCHANGED <<storeVars, lock, entry, nextFact, erased>>

\* An edit is a message of its own.
ApplyEdit(p) == Apply(p, "edit", 1)
ApplyArchiveDelete(p) == Apply(p, "archive", 0)

Next ==
    \E p \in Procs :
        \/ Start(p) \/ Create(p) \/ Switch(p) \/ Close(p) \/ Crash(p) \/ RetryPersist(p)
        \/ Task(p) \/ Refresh(p) \/ Clear(p) \/ SetPermission(p)
        \/ PreviewSave(p) \/ SavePreview(p) \/ PreviewEdit(p) \/ ApplyEdit(p)
        \/ PreviewArchiveDelete(p) \/ ApplyArchiveDelete(p)

Spec == Init /\ [][Next]_vars

-----------------------------------------------------------------------------
\* One owner: a process holds the lock of the session it has open and no other,
\* through every hand-over, refusal and death.
OwnerHoldsLock ==
    \A p \in Procs : Held(p) = IF Active(p) THEN {cur[p].session} ELSE {}

\* What a process takes for the stored revision is the stored revision, across
\* saves, clears that failed half-way, restarts and hand-overs: the compare-and-
\* swap never refuses a process that keeps to the lock.
OwnerKnowsRevision ==
    \A p \in Procs : Active(p) =>
        cur[p].persistedRevision = ReviewedRevision(cur[p].session)

\* A process that calls its memory saved has it saved: the last task it would
\* tell about after a restart is the one it tells about now.
CleanMeansSaved ==
    \A p \in Procs : Active(p) =>
        /\ cur[p].persisted.task = saved[cur[p].session].task
        /\ ~cur[p].dirty => cur[p].memory.task = saved[cur[p].session].task

\* The same of the permission, which README.md:408 says is persisted with the
\* memory of a real session.
PermissionIsSaved ==
    \A p \in Procs : Active(p) /\ ~cur[p].dirty =>
        cur[p].memory.permission = saved[cur[p].session].permission

\* Once a clear has reached the disk, nothing it removed is ever again in a
\* reviewed memory or in the memory of a process: not by way of a candidate, a
\* preview made before, a retry, or another process.
ErasedStaysErased ==
    /\ \A s \in Sessions : reviewed[s] # NoRow =>
           FactsOf(reviewed[s].memory) \cap erased = {}
    /\ \A p \in Procs : Active(p) =>
           (FactsOf(cur[p].conv) \cup FactsOf(cur[p].review)) \cap erased = {}

\* A memory that is saved leaves nothing out: everything its session has learned
\* since it was opened or cleared, unless its user took it out, is in it, however
\* compaction, failed summaries and edits came in between.
SaveLeavesNothingOut ==
    [][\A p \in Procs : Active(p) /\ reviewed'[cur[p].session] # reviewed[cur[p].session]
                        /\ reviewed'[cur[p].session] # NoRow
         => cur[p].known \subseteq FactsOf(reviewed'[cur[p].session].memory)]_vars

\* Every session's reviewed memory is an exclusive register: who holds the lock
\* writes, over what it has seen.
Seen(s) == IF lock[s] = Nobody THEN NoRow ELSE cur[lock[s]].persistedRevision
Register == INSTANCE ExclusiveRegister
    WITH Keys <- Sessions, Owners <- Procs, Nobody <- Nobody, Empty <- NoRow,
         Versions <- Nat, owner <- lock,
         version <- [s \in Sessions |-> ReviewedRevision(s)],
         seen <- [s \in Sessions |-> Seen(s)]
ImplementsRegister == Register!Spec
=============================================================================
