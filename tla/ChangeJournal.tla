---------------------------- MODULE ChangeJournal ----------------------------
(***************************************************************************)
(* The journal of a task (changes.py): what its tools put on the disk, for *)
(* the diff shown to a person and for an undo.  A journal is a value; the   *)
(* module that has one as its state applies the operators to it.            *)
(*                                                                         *)
(* A node is Absent or [text, id], the id standing for the identity of the  *)
(* file on its disk; a directory has the text IsDir.  Modes are part of the *)
(* text.  The budgets of reserve and reserve_directories refuse a call       *)
(* before it changes anything and are left out.                             *)
(***************************************************************************)
EXTENDS Naturals, Functions

CONSTANTS Files, Dirs, Texts, Absent, IsDir, NoSet

ASSUME KindAssumption == Files \cap Dirs = {}
ASSUME NodeAssumption ==
    Absent \notin Texts \cup {IsDir} \cup [text : Texts \cup {IsDir}, id : Nat]

Paths == Files \cup Dirs
Nodes(Ids) == {Absent} \cup [text : Texts \cup {IsDir}, id : Ids]

\* changes: the earliest before and the latest after of each path that differs;
\* last: the latest after of each path written at all; tainted: paths of which
\* the tools cannot say who wrote them.
NoChanges == [p \in {} |-> Absent]
Empty == [active |-> FALSE, changes |-> NoChanges, last |-> NoChanges, tainted |-> {}]

Started(j) == [Empty EXCEPT !.active = TRUE]

Without(f, p) == Restrict(f, DOMAIN f \ {p})
With(f, p, v) == [q \in DOMAIN f \cup {p} |-> IF q = p THEN v ELSE f[q]]

\* A file is back when its contents are; a directory only as the same directory.
NetZero(p, c) ==
    \/ c.before = c.after
    \/ /\ p \in Files
       /\ Absent \notin {c.before, c.after}
       /\ c.before.text = c.after.text

\* Mutant of Merged: the latest before wins.
MergedLate(j, p, before, after) == [before |-> before, after |-> after]

Merged(j, p, before, after) ==
    [before |-> IF p \in DOMAIN j.changes THEN j.changes[p].before ELSE before,
     after |-> after]

Recorded(j, p, before, after) ==
    LET c == Merged(j, p, before, after) IN
    [j EXCEPT !.changes = IF NetZero(p, c) THEN Without(@, p) ELSE With(@, p, c),
              !.last = With(@, p, after)]

Tainted(j, p) == [j EXCEPT !.tainted = @ \cup {p}]

\* What was published cannot be read back: keep what was meant, and say so.
Unverified(j, p, before, meant) == Tainted(Recorded(j, p, before, meant), p)

\* A call may build on what it finds if no tool wrote the path in this task,
\* or if it finds what the last tool left.
Continuous(j, p, before) ==
    /\ p \notin j.tainted
    /\ p \in DOMAIN j.last => j.last[p] = before

\* The set kept for the undo; a task that changed nothing leaves the one before it.
Unchanged(j) == j.changes = NoChanges /\ j.tainted = {}
Sealed(j, latest) ==
    IF Unchanged(j) THEN latest
    ELSE [changes |-> j.changes, tainted |-> j.tainted]

Known(set) == set # NoSet /\ set.tainted = {}
=============================================================================
