------------------------------ MODULE TaskFiles ------------------------------
(***************************************************************************)
(* The files of a workspace under the tools of a task and under an undo      *)
(* (tools/write.py, tools/directory.py, tools/undo.py, the undo of           *)
(* session/runtime.py), while other programs change them at any moment.      *)
(*                                                                         *)
(* One session that has the workspace lock.  A call looks at its targets,    *)
(* asks a person, looks again, publishes each file with one rename or link,  *)
(* reads it back and records it; steps of other programs come between any    *)
(* two of these.  A call may meet an error of the system at each of them     *)
(* (fault).  edit_file and create_file are calls with one target, apply_patch *)
(* has several, create_directory has none.                                   *)
(*                                                                         *)
(* Left out: modes, temporary files, the syntax of patches, budgets, a file  *)
(* that changes between the comparison and the rename of one compensation.   *)
(* Bounds: MaxEdits, MaxCalls, MaxTasks, MaxUndos.                           *)
(***************************************************************************)
EXTENDS ChangeJournal, Sequences

CONSTANTS Root, Parent, MaxTargets, MaxEdits, MaxCalls, MaxTasks, MaxUndos

ASSUME ParentAssumption == Root \notin Paths /\ Parent \in [Paths -> Dirs \cup {Root}]
ASSUME BoundAssumption ==
    {MaxTargets, MaxEdits, MaxCalls, MaxTasks, MaxUndos} \subseteq Nat

VARIABLES disk,      \* node of each path
          next,      \* identity of the next node
          journal,   \* the ChangeJournal of the active task
          latest,    \* the set kept for an undo
          call,      \* the tool call under way
          undo,      \* the preview or the undo under way
          count,     \* counters of the bounds
          ghost      \* who wrote what, for the properties alone

vars == <<disk, next, journal, latest, call, undo, count, ghost>>

NoPaths == [p \in {} |-> Absent]
NoCall == [tool |-> "none", step |-> "idle", todo |-> <<>>, done |-> <<>>, dirs |-> {},
           made |-> NoPaths, home |-> NoPaths, was |-> NoPaths, failed |-> {}]
NoUndo == [step |-> "idle", bound |-> NoPaths, todo |-> {}, item |-> Root, done |-> <<>>,
           dirs |-> {}, gone |-> <<>>, fixed |-> NoPaths, failed |-> {}]

Init ==
    /\ disk \in [Paths -> {Absent} \cup [text : Texts, id : {0}]]
    /\ \A d \in Dirs : disk[d] = Absent
    /\ \A p \in Paths : Parent[p] # Root => disk[p] = Absent
    /\ next = 1
    /\ journal = Empty /\ latest = NoSet
    /\ call = NoCall /\ undo = NoUndo
    /\ count = [edits |-> 0, calls |-> 0, tasks |-> 0, undos |-> 0]
    /\ ghost = [author |-> [p \in Paths |-> "start"], now |-> NoPaths, kept |-> NoPaths,
                stuck |-> {}, told |-> {}, since |-> {}, fresh |-> {}, unread |-> {}]

\* What is in a directory, and whether a path has one to be in.
Within(p) == Parent[p] # Root => disk[Parent[p]] # Absent
Children(d) == {p \in Paths : Parent[p] = d /\ disk[p] # Absent}
InDir(q, S) == Parent[q] # Root => Parent[q] \in S
Above(p) == {d \in Dirs : \A S \in SUBSET Dirs :
                InDir(p, S) /\ (\A q \in S : InDir(q, S)) => d \in S}
Node(text) == [text |-> text, id |-> next]
TextOf(node) == IF node = Absent THEN Absent ELSE node.text

Put(p, node) ==
    /\ disk' = [disk EXCEPT ![p] = node]
    /\ next' = next + 1
Wrote(g, p) == [g EXCEPT !.author[p] = "task"]
Stuck(g, p) == [g EXCEPT !.stuck = @ \cup {p}]
Lost(g, p) == [g EXCEPT !.unread = @ \cup {p}]
FirstWrote(g, p, before) ==
    IF p \in DOMAIN g.now THEN Wrote(g, p)
    ELSE [Wrote(g, p) EXCEPT !.now = With(@, p, before),
              !.kept = IF g.author[p] = "other" THEN Without(@, p) ELSE @]
-----------------------------------------------------------------------------
(***************************************************************************)
(* Other programs                                                          *)
(***************************************************************************)
\* A file written in place keeps its identity; the backup of an undo is a second
\* link to it and changes with it.
Touched(u, node, text) ==
    [u EXCEPT !.done = [i \in DOMAIN @ |->
        IF @[i].backup # Absent /\ node # Absent /\ @[i].backup.id = node.id
        THEN [@[i] EXCEPT !.backup.text = text] ELSE @[i]]]

Edit(p) ==
    /\ count.edits < MaxEdits
    /\ count' = [count EXCEPT !.edits = @ + 1]
    /\ \/ \E text \in Texts \ {TextOf(disk[p])} :     \* in place
            /\ p \in Files /\ disk[p] # Absent
            /\ disk' = [disk EXCEPT ![p].text = text]
            /\ undo' = Touched(undo, disk[p], text)
            /\ UNCHANGED next
       \/ \E text \in IF p \in Files THEN Texts ELSE {IsDir} :   \* a new node
            /\ Within(p) /\ (p \in Dirs => disk[p] = Absent)
            /\ Put(p, Node(text)) /\ UNCHANGED undo
       \/ /\ disk[p] # Absent /\ Children(p) = {}     \* gone
          /\ disk' = [disk EXCEPT ![p] = Absent] /\ UNCHANGED <<undo, next>>
    /\ ghost' = [ghost EXCEPT !.author[p] = "other", !.since = @ \cup {p},
                             !.fresh = @ \cup {p}]
    /\ UNCHANGED <<journal, latest, call>>
-----------------------------------------------------------------------------
(***************************************************************************)
(* A task and its tool calls                                               *)
(***************************************************************************)
BeginTask ==
    /\ ~journal.active /\ undo = NoUndo
    /\ count.tasks < MaxTasks
    /\ count' = [count EXCEPT !.tasks = @ + 1]
    /\ journal' = Started(journal)
    /\ ghost' = [ghost EXCEPT !.now = NoPaths, !.stuck = {}, !.fresh = {}]
    /\ UNCHANGED <<disk, next, latest, call, undo>>

EndTask ==
    /\ journal.active /\ call = NoCall
    /\ latest' = Sealed(journal, latest)
    /\ journal' = Empty
    /\ ghost' = IF Unchanged(journal)
                THEN [ghost EXCEPT !.kept = Restrict(@, DOMAIN @ \ ghost.stuck),
                                   !.since = @ \cup DOMAIN ghost.now]
                ELSE [ghost EXCEPT !.kept = Restrict(ghost.now, DOMAIN ghost.now \ ghost.stuck),
                                   !.told = {}, !.unread = {}, !.since = ghost.fresh]
    /\ UNCHANGED <<disk, next, call, undo, count>>

\* What a call may be asked to do, seen on the disk.
Target(p, text) == [path |-> p, before |-> disk[p], text |-> text]
Missing(p) == {d \in Above(p) : disk[d] = Absent}
Fits(tool, t) ==
    CASE tool = "edit" -> t.before # Absent
      [] tool = "create" -> t.before = Absent
      [] tool = "patch" -> Within(t.path) /\ TextOf(t.before) # t.text

Distinct(s) == \A i, j \in DOMAIN s : s[i].path = s[j].path => i = j
Requests(tool) ==
    LET single == {Target(p, text) : p \in Files, text \in Texts}
        n == IF tool = "patch" THEN MaxTargets ELSE 1
    IN {s \in UNION {[1..k -> single] : k \in 1..n} :
            Distinct(s) /\ \A i \in DOMAIN s : Fits(tool, s[i])}

Asked(tool, todo, dirs) ==
    [NoCall EXCEPT !.tool = tool, !.step = "asked", !.todo = todo, !.dirs = dirs,
                   !.home = [d \in Dirs |-> disk[d]],
                   !.was = [p \in {todo[i].path : i \in DOMAIN todo} |-> disk[p]]]

Counted == /\ journal.active /\ call = NoCall /\ count.calls < MaxCalls
           /\ count' = [count EXCEPT !.calls = @ + 1]

\* edit_file, create_file, apply_patch up to the question to a person.
Ask(tool) ==
    /\ Counted
    /\ \E todo \in Requests(tool) :
         LET broken == {i \in DOMAIN todo :
                            ~Continuous(journal, todo[i].path, todo[i].before)}
         IN IF broken = {}
            THEN /\ call' = Asked(tool, todo,
                                  IF tool = "create" THEN Missing(todo[1].path) ELSE {})
                 /\ UNCHANGED journal
            ELSE /\ \E i \in broken : journal' = Tainted(journal, todo[i].path)
                 /\ UNCHANGED call
    /\ UNCHANGED <<disk, next, latest, undo, ghost>>

\* create_directory; one that is there already is no change.
AskDirectory ==
    /\ Counted
    /\ \E d \in Dirs : /\ disk[d] = Absent
                       /\ call' = Asked("mkdir", <<>>, Missing(d) \cup {d})
    /\ UNCHANGED <<disk, next, journal, latest, undo, ghost>>

Deny ==
    /\ call.step = "asked"
    /\ call' = NoCall
    /\ UNCHANGED <<disk, next, journal, latest, undo, count, ghost>>

\* The second look, after the approval: everything as it was asked about.
AtHome(p) == Parent[p] # Root => disk[Parent[p]] = call.home[Parent[p]]
SameAsAsked ==
    /\ \A p \in DOMAIN call.was : disk[p] = call.was[p]
    /\ \A q \in DOMAIN call.was \cup call.dirs : AtHome(q)

Publishing(c) == [c EXCEPT !.step = IF c.tool = "patch" THEN "check" ELSE "publish"]

Recheck ==
    /\ call.step = "asked"
    /\ call' = IF ~SameAsAsked THEN NoCall
               ELSE IF call.dirs # {} THEN [call EXCEPT !.step = "dirs"]
               ELSE Publishing(call)
    /\ UNCHANGED <<disk, next, journal, latest, undo, count, ghost>>
-----------------------------------------------------------------------------
(***************************************************************************)
(* Directories of a call, from the top down, and their removal             *)
(***************************************************************************)
\* One mkdir, its check and its record.  When the mkdir or the check fails, nobody
\* knows what is there (tainted); what was made before is removed again.
MakeDirectory(d) ==
    /\ call.step = "dirs" /\ d \in call.dirs /\ Parent[d] \notin call.dirs
    /\ \/ /\ AtHome(d) /\ disk[d] = Absent
          /\ Put(d, Node(IsDir))
          /\ ghost' = FirstWrote(ghost, d, Absent)
          /\ journal' = Recorded(journal, d, Absent, disk'[d])
          /\ LET c == [call EXCEPT !.dirs = @ \ {d}, !.home[d] = disk'[d],
                                   !.made = With(@, d, disk'[d])]
             IN call' = IF c.dirs # {} THEN c
                        ELSE IF c.tool = "mkdir" THEN NoCall ELSE Publishing(c)
       \/ /\ AtHome(d)      \* it failed, before or after the directory appeared
          /\ \/ UNCHANGED <<disk, next, ghost>>
             \/ /\ disk[d] = Absent /\ Put(d, Node(IsDir))
                /\ ghost' = FirstWrote(ghost, d, Absent)
          /\ journal' = Tainted(journal, d)
          /\ call' = [call EXCEPT !.step = "undir"]
       \/ /\ ~AtHome(d)
          /\ call' = [call EXCEPT !.step = "undir"]
          /\ UNCHANGED <<disk, next, journal, ghost>>
    /\ UNCHANGED <<latest, undo, count>>

\* A directory is removed only while it is the one that was made, and empty.
RemoveDirectory(d) ==
    /\ call.step = "undir" /\ d \in DOMAIN call.made
    /\ \A e \in DOMAIN call.made : Parent[e] # d
    /\ \/ /\ disk[d] = call.made[d] /\ Children(d) = {}
          /\ disk' = [disk EXCEPT ![d] = Absent]
          /\ journal' = Recorded(journal, d, call.made[d], Absent)
          /\ ghost' = Wrote(ghost, d)
       \/ /\ journal' = Tainted(journal, d)      \* not so, or it failed
          /\ UNCHANGED <<disk, ghost>>
    /\ call' = [call EXCEPT !.made = Without(@, d)]
    /\ UNCHANGED <<next, latest, undo, count>>

GiveUp ==
    /\ call.step = "undir" /\ call.made = NoPaths
    /\ call' = NoCall
    /\ UNCHANGED <<disk, next, journal, latest, undo, count, ghost>>
-----------------------------------------------------------------------------
(***************************************************************************)
(* Publishing a file, reading it back, recording it                        *)
(***************************************************************************)
\* A call that fails before its file is published leaves the directories it made
\* to RemoveDirectory, and the files it published before to PutBack.
Unpublished == [call EXCEPT !.step = IF call.tool = "patch" THEN "back" ELSE "undir"]

\* A patch compares each file once more before it touches it.
Check ==
    /\ call.step = "check"
    /\ LET t == Head(call.todo) IN
       IF disk[t.path] = t.before
       THEN call' = [call EXCEPT !.step = "publish"] /\ UNCHANGED journal
       ELSE call' = Unpublished /\ journal' = Tainted(journal, t.path)
    /\ UNCHANGED <<disk, next, latest, undo, count, ghost>>

\* A new file is linked, which never replaces another; an old one is replaced by a
\* rename, whatever has its name by then.
Publish ==
    /\ call.step = "publish"
    /\ LET t == Head(call.todo) IN
       \/ /\ AtHome(t.path) /\ (t.before = Absent => disk[t.path] = Absent)
          /\ Put(t.path, Node(t.text))
          /\ call' = [call EXCEPT !.step = "verify",
                        !.done = Append(@, [path |-> t.path, before |-> t.before,
                                            after |-> Node(t.text)])]
          /\ ghost' = FirstWrote(ghost, t.path, t.before)
       \/ call' = Unpublished /\ UNCHANGED <<disk, next, ghost>>
    /\ UNCHANGED <<journal, latest, undo, count>>

\* What follows a file that was read back as it was meant, and one that was not.
Proved(c) ==
    LET rest == [c EXCEPT !.todo = Tail(@), !.step = "check"]
    IN IF rest.todo = <<>> THEN NoCall ELSE rest
Unproved(c) == IF c.tool = "patch" THEN [c EXCEPT !.step = "back"] ELSE NoCall

Verify ==
    /\ call.step = "verify"
    /\ LET e == call.done[Len(call.done)] IN
       \/ /\ disk[e.path] = e.after
          /\ journal' = Recorded(journal, e.path, e.before, e.after)
          /\ call' = Proved(call)
       \/ /\ disk[e.path] \notin {e.after, Absent}      \* something else
          /\ journal' = Tainted(journal, e.path)
          /\ call' = Unproved(call)
       \/ /\ journal' = IF call.tool = "patch" THEN Tainted(journal, e.path)   \* unreadable
                        ELSE Unverified(journal, e.path, e.before, e.after)
          /\ call' = Unproved(call)
    /\ UNCHANGED <<disk, next, latest, undo, count, ghost>>

\* Mutant of Actual: what a failed compensation leaves behind is not looked at.
Unlooked(j, e, now) == j

\* The record of what a failed compensation leaves behind.
Actual(j, e, now) ==
    IF now = e.after THEN Recorded(j, e.path, e.before, now)
    ELSE IF now = Absent /\ e.before = Absent THEN Recorded(j, e.path, e.after, Absent)
    ELSE Tainted(j, e.path)

\* apply_patch puts its files back, the last one first: only one that is still as it
\* was published, and it says which ones it could not put back.
PutBack ==
    /\ call.step = "back" /\ call.done # <<>>
    /\ LET e == call.done[Len(call.done)]
           back == IF e.before = Absent THEN Absent ELSE Node(e.before.text)
           rest == [call EXCEPT !.done = SubSeq(@, 1, Len(@) - 1)]
           short == [rest EXCEPT !.failed = @ \cup {e.path}]
       IN \/ /\ disk[e.path] = e.after
             /\ Put(e.path, back)
             /\ \/ /\ journal' = Recorded(journal, e.path, e.after, back)
                   /\ call' = rest
                   /\ ghost' = Wrote(ghost, e.path)
                \/ /\ journal' = Actual(journal, e, back)      \* not proved
                   /\ call' = short
                   /\ ghost' = Stuck(Wrote(ghost, e.path), e.path)
          \/ /\ journal' = Actual(journal, e, disk[e.path])
             /\ call' = short
             /\ ghost' = Stuck(ghost, e.path)
             /\ UNCHANGED <<disk, next>>
    /\ UNCHANGED <<latest, undo, count>>

PatchFailed ==
    /\ call.step = "back" /\ call.done = <<>>
    /\ call' = NoCall
    /\ UNCHANGED <<disk, next, journal, latest, undo, count, ghost>>
-----------------------------------------------------------------------------
(***************************************************************************)
(* Undo: preview, confirmation, one file after the other, then the         *)
(* directories the task made; or everything back to where it was.          *)
(***************************************************************************)
SetPaths == DOMAIN latest.changes
SetDirs == SetPaths \cap Dirs
After(p) == latest.changes[p].after
Before(p) == latest.changes[p].before
WithDirectories == SetDirs # {}      \* then files have no backup

\* Every file as the set says; every directory made by the task, and with nothing
\* in it but what the task put there.
Matches ==
    /\ \A p \in SetPaths : disk[p] = After(p)
    /\ \A d \in SetDirs : /\ Before(d) = Absent /\ After(d) # Absent
                         /\ Children(d) \subseteq {p \in SetPaths : After(p) # Absent}

\* prepare_undo.  The gate has shown a person every difference to the accepted
\* state; the scan after the preview has to find what the gate found.
PrepareUndo ==
    /\ ~journal.active /\ undo = NoUndo /\ Known(latest)
    /\ count.undos < MaxUndos
    /\ Matches
    /\ undo' = [NoUndo EXCEPT !.step = "previewed", !.bound = disk]
    /\ count' = [count EXCEPT !.undos = @ + 1]
    /\ ghost' = [ghost EXCEPT !.unread = {}]
    /\ UNCHANGED <<disk, next, journal, latest, call>>

CancelUndo ==
    /\ undo.step = "previewed"
    /\ undo' = NoUndo
    /\ UNCHANGED <<disk, next, journal, latest, call, count, ghost>>

\* undo_latest: only what was previewed is undone.
StartUndo ==
    /\ undo.step = "previewed"
    /\ undo' = IF disk # undo.bound THEN NoUndo
               ELSE [undo EXCEPT !.step = "files", !.todo = SetPaths \cap Files,
                                 !.dirs = SetDirs]
    /\ UNCHANGED <<disk, next, journal, latest, call, count, ghost>>

Forward(u) == [u EXCEPT !.item = Root,
                        !.step = IF u.todo # {} THEN "files"
                                 ELSE IF u.dirs # {} THEN "directories" ELSE "undone"]
Recovering(u) == [u EXCEPT !.item = Root, !.step = "recover"]

\* Mutant of Begun: the file is noted when it has been restored.
BegunLate(u, p) == u

\* What is noted of a file before it is touched: with a backup it can be recovered
\* whatever happens to it; without one it is noted when it has been restored.
Begun(u, p) ==
    IF WithDirectories THEN u
    ELSE [u EXCEPT !.done = Append(@, [path |-> p, restored |-> After(p),
                                       published |-> Absent, backup |-> After(p)])]
Restored(u, p, node) ==
    IF ~WithDirectories /\ Len(u.done) > 0 /\ u.done[Len(u.done)].path = p
    THEN [u EXCEPT !.done[Len(u.done)].restored = node]
    ELSE [u EXCEPT !.done = Append(@, [path |-> p, restored |-> node,
                                       published |-> Absent, backup |-> Absent])]
Published(u, p, node) ==
    IF Len(u.done) > 0 /\ u.done[Len(u.done)].path = p
    THEN [u EXCEPT !.done[Len(u.done)].published = node] ELSE u

UndoCheck(p) ==
    /\ undo.step = "files" /\ p \in undo.todo
    /\ \/ /\ disk[p] = After(p)
          /\ undo' = [Begun(undo, p) EXCEPT !.step = "restore", !.item = p]
       \/ undo' = Recovering(undo)
    /\ UNCHANGED <<disk, next, journal, latest, call, count, ghost>>

UndoPublish ==
    /\ undo.step = "restore"
    /\ LET p == undo.item IN
       \/ /\ IF Before(p) = Absent
             THEN /\ disk[p] # Absent
                  /\ disk' = [disk EXCEPT ![p] = Absent]
                  /\ undo' = [undo EXCEPT !.step = "confirm"]
                  /\ UNCHANGED next
             ELSE /\ Within(p)
                  /\ Put(p, Node(Before(p).text))
                  /\ undo' = [Published(undo, p, Node(Before(p).text))
                                EXCEPT !.step = "confirm"]
          /\ ghost' = Wrote(ghost, p)
       \/ /\ undo' = Recovering(undo)
          /\ UNCHANGED <<disk, next, ghost>>
    /\ UNCHANGED <<journal, latest, call, count>>

\* Reading back what was restored.  The read may fail, find something else, or be
\* interrupted; without a backup the file is then not noted, and the recovery does not
\* know of it (unread).
UndoConfirm ==
    /\ undo.step = "confirm"
    /\ LET p == undo.item IN
       \/ /\ TextOf(disk[p]) = TextOf(Before(p))
          /\ undo' = Forward([Restored(undo, p, disk[p]) EXCEPT !.todo = @ \ {p}])
          /\ UNCHANGED ghost
       \/ /\ undo' = Recovering(undo)
          /\ ghost' = IF WithDirectories THEN Lost(ghost, p) ELSE ghost
    /\ UNCHANGED <<disk, next, journal, latest, call, count>>

UndoDirectory(d) ==
    /\ undo.step = "directories"
    /\ d \in undo.dirs /\ \A e \in undo.dirs : Parent[e] # d
    /\ \/ /\ disk[d] = After(d) /\ Children(d) = {}
          /\ disk' = [disk EXCEPT ![d] = Absent]
          /\ ghost' = Wrote(ghost, d)
          /\ undo' = Forward([undo EXCEPT !.dirs = @ \ {d}, !.gone = Append(@, d)])
       \/ /\ undo' = Recovering(undo)
          /\ UNCHANGED <<disk, ghost>>
    /\ UNCHANGED <<next, journal, latest, call, count>>

Last(s) == s[Len(s)]
Front(s) == SubSeq(s, 1, Len(s) - 1)

\* Recovery: the directories first, as new ones.
RecoverDirectory ==
    /\ undo.step = "recover" /\ undo.gone # <<>>
    /\ LET d == Last(undo.gone)
           rest == [undo EXCEPT !.gone = Front(@)] IN
       \/ /\ Within(d) /\ disk[d] = Absent
          /\ Put(d, Node(IsDir))
          /\ ghost' = Wrote(ghost, d)
          /\ undo' = [rest EXCEPT !.fixed = With(@, d, Node(IsDir))]
       \/ /\ undo' = [rest EXCEPT !.failed = @ \cup {d}]
          /\ UNCHANGED <<disk, next, ghost>>
    /\ UNCHANGED <<journal, latest, call, count>>

\* Then the files, the last one first, each only while it is as the undo left it:
\* from the backup, which is the old file itself, or as a new file.
Controlled(e) ==
    LET now == disk[e.path] IN
    \/ now = e.restored
    \/ now # Absent /\ now = e.published
    \/ /\ e.backup # Absent /\ Absent \notin {now, e.restored}
       /\ e.restored = After(e.path) /\ now = After(e.path)

Recovery(e) == IF e.backup # Absent THEN e.backup ELSE Node(After(e.path).text)

RecoverFile ==
    /\ undo.step = "recover" /\ undo.gone = <<>> /\ undo.done # <<>>
    /\ LET e == Last(undo.done)
           rest == [undo EXCEPT !.done = Front(@)]
           short == [rest EXCEPT !.failed = @ \cup {e.path}] IN
       \/ /\ Controlled(e) /\ Within(e.path)
          /\ disk' = [disk EXCEPT ![e.path] = Recovery(e)]
          /\ next' = next + 1
          /\ ghost' = IF e.backup = After(e.path) \/ e.backup = Absent
                      THEN Wrote(ghost, e.path) ELSE ghost
          /\ undo' = IF TextOf(Recovery(e)) = TextOf(After(e.path))
                     THEN [rest EXCEPT !.fixed = With(@, e.path, Recovery(e))]
                     ELSE short
       \/ undo' = short /\ UNCHANGED <<disk, next, ghost>>
    /\ UNCHANGED <<journal, latest, call, count>>

\* The scan at the end explains every difference to the preview by the set, node for
\* node; a directory may differ when something of the set is in it.
Attributable(changes) ==
    \A p \in Paths :
        IF p \in DOMAIN changes
        THEN undo.bound[p] = changes[p].before /\ disk[p] = changes[p].after
        ELSE \/ undo.bound[p] = disk[p]
             \/ p \in Dirs /\ \E q \in DOMAIN changes : p \in Above(q)

\* Mutant of Refreshed: the set keeps the nodes that the undo replaced.
Stale(set, fixed) == set

\* After a complete recovery the set names the nodes that are there now.
Refreshed(set, fixed) ==
    [set EXCEPT !.changes = [p \in DOMAIN @ |->
        IF p \in DOMAIN fixed THEN [@[p] EXCEPT !.after = fixed[p]] ELSE @[p]]]

FinishUndone ==
    /\ undo.step = "undone"
    /\ latest' = NoSet
    /\ undo' = NoUndo
    /\ UNCHANGED <<disk, next, journal, call, count, ghost>>

FinishRefused ==
    /\ undo.step = "recover" /\ undo.gone = <<>> /\ undo.done = <<>>
    /\ undo' = NoUndo
    /\ \/ /\ latest' = IF /\ WithDirectories /\ undo.failed = {}
                          /\ Attributable([p \in SetPaths |->
                                 [before |-> After(p),
                                  after |-> Refreshed(latest, undo.fixed).changes[p].after]])
                       THEN Refreshed(latest, undo.fixed) ELSE latest
          /\ ghost' = [ghost EXCEPT !.told = @ \cup undo.failed]
       \/ /\ ghost' = [ghost EXCEPT !.told = @ \cup {Root}]      \* no scan
          /\ UNCHANGED latest
    /\ UNCHANGED <<disk, next, journal, call, count>>

\* Ctrl-C ends an undo with backups where it stands, its recovery too; an undo with
\* directories takes it as a failure.
UndoInterrupted ==
    /\ undo.step \in {"files", "restore", "confirm", "recover"} /\ ~WithDirectories
    /\ undo' = NoUndo
    /\ ghost' = [ghost EXCEPT !.told = @ \cup {Root}]
    /\ UNCHANGED <<disk, next, journal, latest, call, count>>
-----------------------------------------------------------------------------
Calling ==
    \/ \E tool \in {"edit", "create", "patch"} : Ask(tool)
    \/ AskDirectory \/ Deny \/ Recheck
    \/ \E d \in Dirs : MakeDirectory(d) \/ RemoveDirectory(d)
    \/ GiveUp \/ Check \/ Publish \/ Verify \/ PutBack \/ PatchFailed

Undoing ==
    \/ PrepareUndo \/ CancelUndo \/ StartUndo
    \/ \E p \in Files : UndoCheck(p)
    \/ UndoPublish \/ UndoConfirm
    \/ \E d \in Dirs : UndoDirectory(d)
    \/ RecoverDirectory \/ RecoverFile \/ FinishUndone \/ FinishRefused \/ UndoInterrupted

Next == BeginTask \/ EndTask \/ Calling \/ Undoing \/ \E p \in Paths : Edit(p)

Spec == Init /\ [][Next]_vars
-----------------------------------------------------------------------------
(***************************************************************************)
(* Properties                                                              *)
(***************************************************************************)
TypeOK ==
    /\ disk \in [Paths -> Nodes(Nat)] /\ next \in Nat
    /\ journal.tainted \subseteq Paths
    /\ DOMAIN journal.changes \subseteq DOMAIN journal.last
    /\ call.step \in {"idle", "asked", "dirs", "undir", "check", "publish", "verify", "back"}
    /\ undo.step \in {"idle", "previewed", "files", "restore", "confirm", "directories",
                      "recover", "undone"}

\* Whatever a tool left on the disk, and nobody changed since, the journal knows:
\* between two calls the path is tainted, or its last after is what is there
\* (changes.py record_committed, write.py _record_actual_patch_state).
NothingForgotten ==
    journal.active /\ call = NoCall =>
        \A p \in DOMAIN ghost.now :
            ghost.author[p] = "task" =>
                \/ p \in journal.tainted
                \/ (p \in DOMAIN journal.last /\ journal.last[p] = disk[p])

\* A patch or an undo that fails has put every path back to the text it had, unless
\* it names the path as not put back, or somebody else wrote it since
\* (write.py:674 "safe compensation done", undo.py compensation_failed).  The exception
\* is the one file an undo with directories had touched and not read back when it
\* failed: it is neither put back nor named (undo.py:316, 338; FailedUndoTells).
CompensatedOrTold ==
    [][/\ PatchFailed => \A p \in DOMAIN call.was :
            \/ p \in call.failed \/ ghost.author[p] = "other"
            \/ TextOf(disk[p]) = TextOf(call.was[p])
       /\ FinishRefused => \A p \in SetPaths :
            \/ p \in undo.failed \cup ghost.unread \/ ghost.author[p] = "other"
            \/ TextOf(disk[p]) = TextOf(After(p))]_vars

\* The same without the exception, as undo.py:345 has it: the path at which an undo
\* failed is as the task left it, or is listed among the failures.
FailedUndoTells ==
    [][FinishRefused => \A p \in SetPaths :
            \/ p \in undo.failed \/ ghost.author[p] = "other"
            \/ TextOf(disk[p]) = TextOf(After(p))]_vars

\* The journal keeps the earliest text a path had in the task (changes.py:343).
EarliestBefore ==
    \A p \in DOMAIN journal.changes \ journal.tainted :
        p \in DOMAIN ghost.now =>
            TextOf(journal.changes[p].before) = TextOf(ghost.now[p])

\* An undo that reports success has brought back what each path was before the task
\* first wrote it, over any number of calls, unless somebody else wrote it since or a
\* patch reported that it could not put it back (undo.py undo_change_set).
UndoneIsBefore ==
    [][FinishUndone => \A p \in DOMAIN ghost.kept :
            \/ ghost.author[p] = "other"
            \/ TextOf(disk[p]) = TextOf(ghost.kept[p])]_vars

\* What can be undone stays so: after a task, and after every undo that was turned
\* down or recovered, the set fits the disk, unless another program wrote a file since
\* the task began, a later task did, a failure was reported, an undo was cut off with
\* Ctrl-C, or the last undo failed with a file without a backup touched and not read
\* back.
UndoStaysPossible ==
    ~journal.active /\ undo = NoUndo /\ Known(latest) =>
        Matches \/ ghost.since # {} \/ ghost.told # {} \/ ghost.unread # {}
=============================================================================
