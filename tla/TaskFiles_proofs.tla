-------------------------- MODULE TaskFiles_proofs --------------------------
(***************************************************************************)
(* TaskFiles for any files, directories, texts and bounds.  The proofs go  *)
(* layer by layer: types; the places of a call and of an undo; what the    *)
(* journal knows of a path; the tree; the set that is kept; the undo.      *)
(***************************************************************************)
EXTENDS TaskFiles, TLAPS

(***************************************************************************)
(* Types.  Files and directories keep to their nodes; what is noted of a   *)
(* path is a function of some of the paths.                                *)
(***************************************************************************)
Present == [text : Texts \cup {IsDir}, id : Nat]
FileNodes == {Absent} \cup [text : Texts, id : Nat]
DirNodes == {Absent} \cup [text : {IsDir}, id : Nat]
NodesOf(p) == IF p \in Dirs THEN DirNodes ELSE FileNodes
Stored == {f \in UNION {[E -> Nodes(Nat)] : E \in SUBSET Paths} :
              \A p \in DOMAIN f : f[p] \in NodesOf(p)}
ChangesOf(p) == [before : NodesOf(p), after : NodesOf(p)]
Changes == {f \in UNION {[E -> [before : Nodes(Nat), after : Nodes(Nat)]] : E \in SUBSET Paths} :
               \A p \in DOMAIN f : f[p] \in ChangesOf(p)}

Journals == [active : BOOLEAN, changes : Changes, last : Stored, tainted : SUBSET Paths]
Targets == [path : Files, before : FileNodes, text : Texts]
Entries == [path : Files, before : FileNodes, after : FileNodes \ {Absent}]
Steps == {"idle", "asked", "dirs", "undir", "check", "publish", "verify", "back"}
Calls == [tool : {"none", "edit", "create", "patch", "mkdir"}, step : Steps,
          todo : Seq(Targets), done : Seq(Entries), dirs : SUBSET Dirs,
          made : Stored, home : Stored, was : Stored, failed : SUBSET Files]
Notes == [path : Files, restored : FileNodes, published : FileNodes, backup : FileNodes]
UndoSteps == {"idle", "previewed", "files", "restore", "confirm", "directories", "recover",
              "undone"}
Undos == [step : UndoSteps, bound : Stored, todo : SUBSET Files, item : Paths \cup {Root},
          done : Seq(Notes), dirs : SUBSET Dirs, gone : Seq(Dirs), fixed : Stored,
          failed : SUBSET Paths]
Ghosts == [author : [Paths -> {"start", "task", "other"}], now : Stored, kept : Stored,
           stuck : SUBSET Paths, told : SUBSET (Paths \cup {Root}), since : SUBSET Paths,
           fresh : SUBSET Paths, unread : SUBSET Paths]

DiskTypes == /\ disk \in [Paths -> Nodes(Nat)] /\ next \in Nat
             /\ \A p \in Paths : disk[p] \in NodesOf(p)
SetTypes == latest # NoSet => latest \in [changes : Changes, tainted : SUBSET Paths]
CallTypes == /\ call \in Calls /\ (call.step = "idle" => call = NoCall)
             /\ DOMAIN call.made \subseteq Dirs /\ DOMAIN call.was \subseteq Files
             /\ \A d \in DOMAIN call.made : call.made[d] # Absent
             /\ DOMAIN call.home = IF call = NoCall THEN {} ELSE Dirs
UndoTypes == /\ undo \in Undos /\ (undo.step = "idle" => undo = NoUndo)
             /\ \A p \in DOMAIN undo.fixed : undo.fixed[p] # Absent
\* A call belongs to a task, an undo to no task and to a set that is known.
Phases == /\ ~journal.active => call = NoCall
          /\ undo # NoUndo => ~journal.active /\ Known(latest)
CountTypes == count \in [edits : Nat, calls : Nat, tasks : Nat, undos : Nat]
Types == /\ DiskTypes /\ journal \in Journals /\ SetTypes /\ CallTypes /\ UndoTypes
         /\ ghost \in Ghosts /\ CountTypes /\ Phases

(***************************************************************************)
(* The call: where it is, and what it knows of each of its paths.          *)
(***************************************************************************)
PathsOf(s) == {s[i].path : i \in DOMAIN s}
LastDone == call.done[Len(call.done)]
Unread(p) == call.step = "verify" /\ p = LastDone.path
Ahead == call.step \in {"asked", "dirs", "check", "publish", "verify"}   \* todo counts

CallInv ==
    /\ call.step \in {"check", "publish", "verify"} => call.todo # <<>>
    /\ call.step \in {"asked", "dirs"} => (call.todo = <<>> => call.tool = "mkdir" /\ call.dirs # {})
    /\ call.step = "verify" => call.done # <<>> /\ LastDone.path = call.todo[1].path
                                /\ LastDone.before = call.todo[1].before
    /\ call.step \in {"asked", "dirs"} => call.done = <<>> /\ call.failed = {}
    /\ call.step = "asked" => DOMAIN call.made = {}
    /\ call.step \notin {"asked", "dirs", "undir"} => call.dirs = {}
    /\ \A i \in DOMAIN call.todo : call.todo[i].path \in DOMAIN call.was
                                /\ call.todo[i].before = call.was[call.todo[i].path]
    /\ \A i \in DOMAIN call.done : call.done[i].path \in DOMAIN call.was
                                /\ call.done[i].before = call.was[call.done[i].path]
    /\ Distinct(call.todo) /\ Distinct(call.done)
    /\ call.step # "back" => \A i \in DOMAIN call.done, j \in DOMAIN call.todo :
            call.done[i].path # call.todo[j].path
                \/ (call.step = "verify" /\ i = Len(call.done) /\ j = 1)

\* What a patch has not put back, it knows.
Watched ==
    call.step \notin {"idle", "asked"} => \A p \in DOMAIN call.was :
        \/ p \in call.failed \/ ghost.author[p] = "other" \/ p \in PathsOf(call.done)
        \/ TextOf(disk[p]) = TextOf(call.was[p])

(***************************************************************************)
(* The journal: of each path the task wrote, unless it is tainted, what it *)
(* was before the task, and what the last tool left.                       *)
(***************************************************************************)
FirstOf(p, before) == IF p \in DOMAIN journal.changes THEN journal.changes[p].before ELSE before
Base(p, before) ==
    /\ ghost.now[p] = Absent => FirstOf(p, before) = Absent
    /\ p \notin ghost.stuck => TextOf(FirstOf(p, before)) = TextOf(ghost.now[p])
Filed(p) ==
    /\ p \in DOMAIN journal.last
    /\ Base(p, journal.last[p])
    /\ ghost.now[p] = Absent => (p \in DOMAIN journal.changes <=> journal.last[p] # Absent)
    /\ ghost.now[p] # Absent => journal.last[p] # Absent
Fresh(p) == ghost.author[p] # "other" => journal.last[p] = disk[p]
Traced(p) == Filed(p) /\ Fresh(p)
Expected(p, before) == /\ Base(p, before)
                       /\ ghost.now[p] # Absent => before # Absent

JournalInv ==
    /\ ~journal.active => journal = Empty
    /\ DOMAIN journal.changes \subseteq DOMAIN journal.last
    /\ DOMAIN journal.last \subseteq DOMAIN ghost.now
    /\ \A p \in DOMAIN journal.changes : journal.changes[p].after = journal.last[p]
    /\ journal.active => \A d \in DOMAIN ghost.now \cap Dirs : ghost.now[d] = Absent
    /\ DOMAIN call.made \subseteq DOMAIN ghost.now
    /\ DOMAIN call.made \ journal.tainted \subseteq DOMAIN journal.changes
TracedInv == journal.active =>
    \A p \in DOMAIN ghost.now : Unread(p) \/ p \in journal.tainted \/ Traced(p)
TodoInv == Ahead => \A i \in DOMAIN call.todo :
    LET t == call.todo[i] IN
    t.path \in DOMAIN ghost.now => t.path \in journal.tainted \/ Expected(t.path, t.before)
DoneInv == \A i \in DOMAIN call.done :
    LET e == call.done[i] IN
    /\ e.path \in DOMAIN ghost.now
    /\ \/ e.path \in journal.tainted
       \/ ghost.now[e.path] # Absent => e.before # Absent
    /\ \/ e.path \in journal.tainted
       \/ call.step = "verify" /\ i = Len(call.done)
       \/ e.path \in DOMAIN journal.last /\ journal.last[e.path] = e.after
TaskInv == JournalInv /\ TracedInv /\ TodoInv /\ DoneInv

(***************************************************************************)
(* The tree, and what a task finds in a directory it made when no other    *)
(* program has written since it began.                                     *)
(***************************************************************************)
Tree == \A p \in Paths : Parent[p] # Root /\ disk[Parent[p]] = Absent => disk[p] = Absent
Housed ==
    /\ Ahead => \A q \in PathsOf(call.todo) \cup call.dirs : Parent[q] # Root =>
              Parent[q] \in call.dirs \/ call.home[Parent[q]] # Absent
    /\ call.step \in {"asked", "dirs"} /\ call.dirs # {} =>
          \A i \in DOMAIN call.todo : call.todo[i].before = Absent
Alone == journal.active /\ ghost.fresh = {} =>
    /\ \A p \in DOMAIN ghost.now : ghost.author[p] # "other"
    /\ \A p \in Paths : Parent[p] \in DOMAIN ghost.now =>
          IF p \in DOMAIN ghost.now THEN ghost.now[p] = Absent ELSE disk[p] = Absent
    /\ \A p \in DOMAIN ghost.now : Parent[p] # Root =>
          Parent[p] \in DOMAIN ghost.now \/ disk[Parent[p]] # Absent
    /\ Ahead => \A i \in DOMAIN call.todo :
          LET t == call.todo[i] IN
          t.path \notin DOMAIN ghost.now /\ Parent[t.path] \in DOMAIN ghost.now => t.before = Absent

(***************************************************************************)
(* The set that is kept, and what was there before the task that made it.  *)
(***************************************************************************)
SetInv == Known(latest) => \A p \in SetPaths : After(p) # Absent
KeptInv == Known(latest) => \A p \in DOMAIN ghost.kept :
    /\ p \in SetPaths => TextOf(Before(p)) = TextOf(ghost.kept[p])
    /\ p \notin SetPaths =>
          IF journal.active /\ p \in DOMAIN ghost.now
          THEN TextOf(ghost.now[p]) = TextOf(ghost.kept[p])
          ELSE ghost.author[p] = "other" \/ TextOf(disk[p]) = TextOf(ghost.kept[p])
FoundInv == Known(latest) /\ Ahead => \A i \in DOMAIN call.todo :
    LET t == call.todo[i] IN
    t.path \in DOMAIN ghost.kept \ DOMAIN ghost.now =>
        \/ t.path \in SetPaths
        \/ ghost.author[t.path] = "other"
        \/ TextOf(t.before) = TextOf(ghost.kept[t.path])

(***************************************************************************)
(* The undo: what is restored, what it knows it has touched, and that      *)
(* nothing is lost while nobody else writes.                               *)
(***************************************************************************)
Underway == undo.step \notin {"idle", "previewed"}
Bound ==
    /\ undo.step # "idle" => \A p \in SetPaths :
          undo.bound[p] = After(p) /\ (p \in Dirs => Before(p) = Absent)
    /\ undo.step = "previewed" => undo.done = <<>> /\ undo.gone = <<>> /\ undo.fixed = NoPaths
UndoInv == Underway =>
    /\ undo.todo \subseteq SetPaths /\ undo.dirs \subseteq SetDirs
    /\ \A i \in DOMAIN undo.done : undo.done[i].path \in SetPaths
    /\ \A i \in DOMAIN undo.gone : undo.gone[i] \in SetDirs
    /\ undo.step \in {"restore", "confirm"} =>
          /\ undo.item \in undo.todo
          /\ ~WithDirectories => undo.done # <<>> /\ Last(undo.done).path = undo.item
    /\ undo.step \in {"directories", "undone"} => undo.todo = {}
    /\ undo.step = "undone" => undo.dirs = {}
RestoredInv == Underway /\ undo.step # "recover" =>
    \A p \in SetPaths \ (undo.todo \cup undo.dirs) :
        ghost.author[p] = "other" \/ TextOf(disk[p]) = TextOf(Before(p))
Noted(p) == \/ p \in undo.failed \/ p \in PathsOf(undo.done) \/ p \in Range(undo.gone)
            \/ /\ undo.step = "confirm" /\ p = undo.item
               /\ TextOf(disk[p]) = TextOf(Before(p))
NotedInv == Underway => \A p \in SetPaths :
    p \in ghost.unread \/ Noted(p) \/ ghost.author[p] = "other" \/ TextOf(disk[p]) = TextOf(After(p))

Undisturbed == Known(latest) /\ ghost.since = {} /\ ghost.told = {} /\ ghost.unread = {}
AsBound ==
    /\ \A p \in Paths \ SetPaths : disk[p] = undo.bound[p]
    /\ \A p \in Paths : Parent[p] \in SetDirs /\ undo.bound[p] # Absent => p \in SetPaths
    /\ \A p \in SetPaths :
          Noted(p) \/ disk[p] = IF p \in DOMAIN undo.fixed THEN undo.fixed[p] ELSE After(p)
    /\ ~WithDirectories =>
          /\ \A i \in DOMAIN undo.done : undo.done[i].backup = After(undo.done[i].path)
          /\ \A p \in DOMAIN undo.fixed : undo.fixed[p] = After(p)
MatchInv == Undisturbed =>
    /\ undo.step \in {"idle", "previewed"} /\ (journal.active => DOMAIN ghost.now = {}) => Matches
    /\ undo.step = "previewed" => undo.bound = disk
    /\ Underway => AsBound

CallPart == CallInv /\ Watched /\ TaskInv /\ Housed /\ Alone /\ FoundInv
SetPart == SetInv /\ KeptInv
UndoPart == Bound /\ UndoInv /\ RestoredInv /\ NotedInv /\ MatchInv
Inv == Types /\ Tree /\ CallPart /\ SetPart /\ UndoPart
-----------------------------------------------------------------------------
(***************************************************************************)
(* Nodes and functions                                                     *)
(***************************************************************************)
LEMMA NodeKinds ==
    /\ \A p \in Paths : NodesOf(p) \subseteq Nodes(Nat) /\ Absent \in NodesOf(p)
    /\ \A p \in Files : p \in Paths /\ p \notin Dirs /\ NodesOf(p) = FileNodes
    /\ \A d \in Dirs : d \in Paths /\ NodesOf(d) = DirNodes
    /\ \A p \in Paths : p \in Files \/ p \in Dirs
    /\ \A n \in FileNodes : n # Absent => n.text \in Texts
    /\ Absent \notin Present /\ Absent \notin Texts
<1>1. [text : Texts, id : Nat] \subseteq Present /\ [text : {IsDir}, id : Nat] \subseteq Present
  BY DEF Present
<1>2. FileNodes \subseteq Nodes(Nat) /\ DirNodes \subseteq Nodes(Nat)
  BY <1>1 DEF FileNodes, DirNodes, Nodes, Present
<1> QED BY <1>2, KindAssumption, NodeAssumption DEF NodesOf, FileNodes, DirNodes, Paths, Present

\* The next node of a file or a directory.
LEMMA NextNode ==
    ASSUME next \in Nat
    PROVE  /\ \A text \in Texts : Node(text) \in FileNodes /\ Node(text) # Absent
                                /\ Node(text).text = text
           /\ Node(IsDir) \in DirNodes /\ Node(IsDir) # Absent /\ Node(IsDir).text = IsDir
<1>1. \A text \in Texts \cup {IsDir} : Node(text) \in Present /\ Node(text).text = text
  BY DEF Node, Present
<1> QED BY <1>1, NodeKinds DEF Node, FileNodes, DirNodes

LEMMA StoredIs ==
    /\ \A f \in Stored : /\ DOMAIN f \subseteq Paths /\ f = [p \in DOMAIN f |-> f[p]]
                         /\ \A p \in DOMAIN f : f[p] \in NodesOf(p)
    /\ \A f : /\ f = [p \in DOMAIN f |-> f[p]] /\ DOMAIN f \subseteq Paths
              /\ \A p \in DOMAIN f : f[p] \in NodesOf(p)
              => f \in Stored
<1>1. ASSUME NEW f \in Stored
      PROVE  /\ DOMAIN f \subseteq Paths /\ f = [p \in DOMAIN f |-> f[p]]
             /\ \A p \in DOMAIN f : f[p] \in NodesOf(p)
  <2>1. PICK E \in SUBSET Paths : f \in [E -> Nodes(Nat)]
    BY DEF Stored
  <2> QED BY <2>1 DEF Stored
<1>2. ASSUME NEW f, f = [p \in DOMAIN f |-> f[p]], DOMAIN f \subseteq Paths,
             \A p \in DOMAIN f : f[p] \in NodesOf(p)
      PROVE  f \in Stored
  <2>1. \A p \in DOMAIN f : f[p] \in Nodes(Nat)
    BY <1>2, NodeKinds
  <2>2. f \in [DOMAIN f -> Nodes(Nat)]
    BY <1>2, <2>1
  <2> QED BY <1>2, <2>2 DEF Stored
<1> QED BY <1>1, <1>2

LEMMA ChangesIs ==
    /\ \A f \in Changes : /\ DOMAIN f \subseteq Paths /\ f = [p \in DOMAIN f |-> f[p]]
                          /\ \A p \in DOMAIN f : f[p] \in ChangesOf(p)
    /\ \A f : /\ f = [p \in DOMAIN f |-> f[p]] /\ DOMAIN f \subseteq Paths
              /\ \A p \in DOMAIN f : f[p] \in ChangesOf(p)
              => f \in Changes
<1>1. ASSUME NEW f \in Changes
      PROVE  /\ DOMAIN f \subseteq Paths /\ f = [p \in DOMAIN f |-> f[p]]
             /\ \A p \in DOMAIN f : f[p] \in ChangesOf(p)
  <2>1. PICK E \in SUBSET Paths : f \in [E -> [before : Nodes(Nat), after : Nodes(Nat)]]
    BY DEF Changes
  <2> QED BY <2>1 DEF Changes
<1>2. ASSUME NEW f, f = [p \in DOMAIN f |-> f[p]], DOMAIN f \subseteq Paths,
             \A p \in DOMAIN f : f[p] \in ChangesOf(p)
      PROVE  f \in Changes
  <2>1. \A p \in DOMAIN f : f[p] \in [before : Nodes(Nat), after : Nodes(Nat)]
    BY <1>2, NodeKinds DEF ChangesOf
  <2>2. f \in [DOMAIN f -> [before : Nodes(Nat), after : Nodes(Nat)]]
    BY <1>2, <2>1
  <2> QED BY <1>2, <2>2 DEF Changes
<1> QED BY <1>1, <1>2

LEMMA WithIs ==
    ASSUME NEW f, NEW p, NEW v
    PROVE  /\ DOMAIN With(f, p, v) = DOMAIN f \cup {p}
           /\ With(f, p, v) = [q \in DOMAIN With(f, p, v) |-> With(f, p, v)[q]]
           /\ With(f, p, v)[p] = v
           /\ \A q \in DOMAIN f : q # p => With(f, p, v)[q] = f[q]
BY DEF With

LEMMA RestrictIs ==
    ASSUME NEW f, NEW E
    PROVE  /\ DOMAIN Restrict(f, E) = E
           /\ Restrict(f, E) = [q \in DOMAIN Restrict(f, E) |-> Restrict(f, E)[q]]
           /\ \A q \in E : Restrict(f, E)[q] = f[q]
BY DEF Restrict

LEMMA StoredWith ==
    ASSUME NEW f \in Stored, NEW p \in Paths, NEW v \in NodesOf(p)
    PROVE  With(f, p, v) \in Stored
<1> DEFINE g == With(f, p, v)
<1>1. DOMAIN f \subseteq Paths /\ \A q \in DOMAIN f : f[q] \in NodesOf(q)
  BY StoredIs
<1>2. g = [q \in DOMAIN g |-> g[q]] /\ DOMAIN g = DOMAIN f \cup {p}
  BY DEF With
<1>3. \A q \in DOMAIN g : g[q] \in NodesOf(q)
  BY <1>1 DEF With
<1> HIDE DEF g
<1>4. g \in Stored
  BY <1>1, <1>2, <1>3, StoredIs
<1> QED BY <1>4 DEF g

LEMMA StoredRestrict ==
    ASSUME NEW f \in Stored, NEW E \in SUBSET DOMAIN f
    PROVE  Restrict(f, E) \in Stored
BY StoredIs, RestrictIs

LEMMA StoredEmpty == NoPaths \in Stored /\ DOMAIN NoPaths = {}
<1>1. DOMAIN NoPaths = {} /\ NoPaths = [p \in DOMAIN NoPaths |-> NoPaths[p]]
  BY DEF NoPaths
<1> QED BY <1>1, StoredIs

LEMMA ChangesEmpty == NoChanges \in Changes /\ DOMAIN NoChanges = {}
<1>1. DOMAIN NoChanges = {} /\ NoChanges = [p \in DOMAIN NoChanges |-> NoChanges[p]]
  BY DEF NoChanges
<1> QED BY <1>1, ChangesIs
-----------------------------------------------------------------------------
(***************************************************************************)
(* The journal                                                             *)
(***************************************************************************)
LEMMA MergedIs ==
    ASSUME NEW j \in Journals, NEW p \in Paths, NEW b \in NodesOf(p), NEW a \in NodesOf(p)
    PROVE  /\ Merged(j, p, b, a) \in ChangesOf(p)
           /\ Merged(j, p, b, a).after = a
           /\ Merged(j, p, b, a).before = IF p \in DOMAIN j.changes THEN j.changes[p].before ELSE b
<1>1. j.changes \in Changes
  BY DEF Journals
<1>2. p \in DOMAIN j.changes => j.changes[p].before \in NodesOf(p)
  BY <1>1, ChangesIs DEF ChangesOf
<1> QED BY <1>2 DEF Merged, ChangesOf

LEMMA RecordedIs ==
    ASSUME NEW j \in Journals, NEW p \in Paths, NEW b \in NodesOf(p), NEW a \in NodesOf(p),
           NEW r, r = Recorded(j, p, b, a), NEW c, c = Merged(j, p, b, a)
    PROVE  /\ r \in Journals /\ r.active = j.active /\ r.tainted = j.tainted
           /\ DOMAIN r.last = DOMAIN j.last \cup {p} /\ r.last[p] = a
           /\ \A q \in DOMAIN j.last : q # p => r.last[q] = j.last[q]
           /\ NetZero(p, c) => DOMAIN r.changes = DOMAIN j.changes \ {p}
           /\ ~NetZero(p, c) => DOMAIN r.changes = DOMAIN j.changes \cup {p} /\ r.changes[p] = c
           /\ \A q \in DOMAIN j.changes : q # p => r.changes[q] = j.changes[q]
<1>1. j.changes \in Changes /\ j.last \in Stored
  BY DEF Journals
<1> DEFINE ch == IF NetZero(p, c) THEN Without(j.changes, p) ELSE With(j.changes, p, c)
           la == With(j.last, p, a)
<1>2. la \in Stored
  BY <1>1, StoredWith
<1>3. ch = [q \in DOMAIN ch |-> ch[q]]
  BY DEF With, Without, Restrict
<1>4. DOMAIN ch = IF NetZero(p, c) THEN DOMAIN j.changes \ {p} ELSE DOMAIN j.changes \cup {p}
  BY DEF With, Without, Restrict
<1>5. /\ \A q \in DOMAIN j.changes : q # p => ch[q] = j.changes[q]
      /\ ~NetZero(p, c) => ch[p] = c
  BY DEF With, Without, Restrict
<1>6. c \in ChangesOf(p)
  BY MergedIs
<1>7. \A q \in DOMAIN j.changes : q \in Paths /\ j.changes[q] \in ChangesOf(q)
  BY <1>1, ChangesIs
<1>8. DOMAIN la = DOMAIN j.last \cup {p} /\ la[p] = a
      /\ \A q \in DOMAIN j.last : q # p => la[q] = j.last[q]
  BY DEF With
<1>9. r = [[j EXCEPT !.changes = ch] EXCEPT !.last = la]
  BY DEF Recorded
<1> HIDE DEF ch, la
<1>10. DOMAIN ch \subseteq Paths /\ \A q \in DOMAIN ch : ch[q] \in ChangesOf(q)
  BY <1>4, <1>5, <1>6, <1>7
<1>11. ch \in Changes
  BY <1>3, <1>10, ChangesIs
<1>12. r \in Journals /\ r.active = j.active /\ r.tainted = j.tainted /\ r.last = la /\ r.changes = ch
  BY <1>2, <1>9, <1>11 DEF Journals
<1> QED BY <1>4, <1>5, <1>8, <1>12

LEMMA RecordedEnds ==
    ASSUME NEW j \in Journals, NEW p \in Paths, NEW b \in NodesOf(p), NEW a \in NodesOf(p)
    PROVE  Recorded(j, p, b, a).tainted = j.tainted /\ Recorded(j, p, b, a).last[p] = a
<1> DEFINE r == Recorded(j, p, b, a)
           c == Merged(j, p, b, a)
<1>1. r = Recorded(j, p, b, a) /\ c = Merged(j, p, b, a)
  OBVIOUS
<1> QED BY <1>1, RecordedIs

LEMMA TaintedIs ==
    ASSUME NEW j \in Journals, NEW p \in Paths
    PROVE  /\ Tainted(j, p) \in Journals /\ Tainted(j, p).active = j.active
           /\ Tainted(j, p).last = j.last /\ Tainted(j, p).changes = j.changes
           /\ Tainted(j, p).tainted = j.tainted \cup {p}
BY DEF Tainted, Journals

LEMMA EmptyIs == Empty \in Journals /\ ~Empty.active /\ Started(Empty) \in Journals
                 /\ Started(Empty).active /\ Empty.last = NoChanges
                 /\ Started(Empty).last = NoChanges /\ Started(Empty).changes = NoChanges
                 /\ Started(Empty).tainted = {} /\ Empty.changes = NoChanges /\ Empty.tainted = {}
<1>1. NoChanges = NoPaths
  BY DEF NoChanges, NoPaths
<1>2. NoChanges \in Changes /\ NoChanges \in Stored
  BY <1>1, ChangesEmpty, StoredEmpty
<1> QED BY <1>2 DEF Empty, Started, Journals

\* Every operation of a call on the journal is one of these.
Journaled(p) ==
    \/ journal' = journal
    \/ journal' = Tainted(journal, p)
    \/ \E b, a \in NodesOf(p) : \/ journal' = Recorded(journal, p, b, a)
                                \/ journal' = Tainted(Recorded(journal, p, b, a), p)

LEMMA JournaledTypes ==
    ASSUME journal \in Journals, NEW p \in Paths, Journaled(p)
    PROVE  journal' \in Journals /\ journal'.active = journal.active
<1>1. CASE journal' = journal
  BY <1>1
<1>2. CASE journal' = Tainted(journal, p)
  BY <1>2, TaintedIs
<1>3. ASSUME NEW b \in NodesOf(p), NEW a \in NodesOf(p),
             \/ journal' = Recorded(journal, p, b, a)
             \/ journal' = Tainted(Recorded(journal, p, b, a), p)
      PROVE  journal' \in Journals /\ journal'.active = journal.active
  <2> DEFINE r == Recorded(journal, p, b, a)
  <2>1. r \in Journals /\ r.active = journal.active
    BY RecordedIs
  <2> QED BY <1>3, <2>1, TaintedIs
<1> QED BY <1>1, <1>2, <1>3 DEF Journaled
-----------------------------------------------------------------------------
(***************************************************************************)
(* The types hold at the start                                             *)
(***************************************************************************)
LEMMA NoCallIs == /\ NoCall \in Calls /\ NoCall.step = "idle" /\ NoCall.made = NoPaths
                  /\ NoCall.was = NoPaths /\ NoCall.home = NoPaths /\ NoCall.todo = <<>>
                  /\ NoCall.done = <<>> /\ NoCall.dirs = {} /\ NoCall.failed = {}
<1>1. <<>> \in Seq(Targets) /\ <<>> \in Seq(Entries)
  OBVIOUS
<1> QED BY <1>1, StoredEmpty DEF NoCall, Calls, Steps

LEMMA NoUndoIs == /\ NoUndo \in Undos /\ NoUndo.step = "idle" /\ NoUndo.fixed = NoPaths
                  /\ NoUndo.done = <<>> /\ NoUndo.gone = <<>> /\ NoUndo.failed = {}
                  /\ NoUndo.todo = {} /\ NoUndo.dirs = {}
<1>1. <<>> \in Seq(Notes) /\ <<>> \in Seq(Dirs)
  OBVIOUS
<1> QED BY <1>1, StoredEmpty DEF NoUndo, Undos, UndoSteps

LEMMA TypesInit == Init => Types
<1> SUFFICES ASSUME Init PROVE Types
  OBVIOUS
<1>1. DiskTypes
  <2>1. [text : Texts, id : {0}] \subseteq FileNodes \cap Nodes(Nat)
    BY DEF FileNodes, Nodes
  <2>2. \A p \in Paths : disk[p] \in {Absent} \cup [text : Texts, id : {0}]
    BY DEF Init
  <2>3. \A p \in Paths : disk[p] \in NodesOf(p)
    BY <2>1, <2>2, NodeKinds DEF Init
  <2>4. disk = [p \in Paths |-> disk[p]] /\ next \in Nat
    BY DEF Init
  <2> QED BY <2>3, <2>4, NodeKinds DEF DiskTypes
<1>2. journal \in Journals /\ ~journal.active /\ latest = NoSet
  BY EmptyIs DEF Init
<1>3. CallTypes
  BY NoCallIs, StoredEmpty DEF Init, CallTypes
<1>4. UndoTypes
  BY NoUndoIs, StoredEmpty DEF Init, UndoTypes
<1>5. ghost \in Ghosts
  BY StoredEmpty DEF Init, Ghosts
<1>6. CountTypes /\ Phases
  BY DEF Init, CountTypes, Phases
<1> QED BY <1>1, <1>2, <1>3, <1>4, <1>5, <1>6 DEF Types, SetTypes
-----------------------------------------------------------------------------
(***************************************************************************)
(* The types of the disk and of the history                                *)
(***************************************************************************)
\* A step leaves the disk, or writes one path of it.
PutAt(p) == /\ disk' \in [Paths -> Nodes(Nat)] /\ disk'[p] \in NodesOf(p) /\ next' \in Nat
            /\ \A q \in Paths : q # p => disk'[q] = disk[q]

LEMMA PutIs ==
    ASSUME DiskTypes, NEW p \in Paths, NEW n \in NodesOf(p), Put(p, n)
    PROVE  PutAt(p) /\ disk'[p] = n
BY NodeKinds DEF Put, PutAt, DiskTypes

LEMMA SetAtIs ==
    ASSUME DiskTypes, NEW p \in Paths, NEW n \in NodesOf(p), disk' = [disk EXCEPT ![p] = n],
           next' = next \/ next' = next + 1
    PROVE  PutAt(p) /\ disk'[p] = n
BY NodeKinds DEF PutAt, DiskTypes

LEMMA PutTypes ==
    ASSUME DiskTypes, NEW p \in Paths, PutAt(p)
    PROVE  DiskTypes'
BY DEF PutAt, DiskTypes

LEMMA WroteIs ==
    ASSUME NEW g \in Ghosts, NEW p \in Paths
    PROVE  /\ Wrote(g, p) \in Ghosts
           /\ Wrote(g, p).author = [g.author EXCEPT ![p] = "task"]
           /\ Wrote(g, p).now = g.now /\ Wrote(g, p).kept = g.kept /\ Wrote(g, p).stuck = g.stuck
           /\ Wrote(g, p).told = g.told /\ Wrote(g, p).since = g.since
           /\ Wrote(g, p).fresh = g.fresh /\ Wrote(g, p).unread = g.unread
<1>1. Wrote(g, p) = [g EXCEPT !.author = [g.author EXCEPT ![p] = "task"]]
  BY DEF Wrote, Ghosts
<1> QED BY <1>1 DEF Ghosts

LEMMA StuckIs ==
    ASSUME NEW g \in Ghosts, NEW p \in Paths
    PROVE  /\ Stuck(g, p) \in Ghosts
           /\ Stuck(g, p).author = g.author
           /\ Stuck(g, p).now = g.now /\ Stuck(g, p).kept = g.kept
           /\ Stuck(g, p).stuck = g.stuck \cup {p}
           /\ Stuck(g, p).told = g.told /\ Stuck(g, p).since = g.since
           /\ Stuck(g, p).fresh = g.fresh /\ Stuck(g, p).unread = g.unread
BY DEF Stuck, Ghosts

LEMMA LostIs ==
    ASSUME NEW g \in Ghosts, NEW p \in Paths
    PROVE  /\ Lost(g, p) \in Ghosts
           /\ Lost(g, p).author = g.author
           /\ Lost(g, p).now = g.now /\ Lost(g, p).kept = g.kept
           /\ Lost(g, p).told = g.told /\ Lost(g, p).since = g.since
           /\ Lost(g, p).unread = g.unread \cup {p}
BY DEF Lost, Ghosts

LEMMA FirstWroteIs ==
    ASSUME NEW g \in Ghosts, NEW p \in Paths, NEW b \in NodesOf(p), NEW h,
           h = FirstWrote(g, p, b)
    PROVE  /\ h \in Ghosts
           /\ h.author = [g.author EXCEPT ![p] = "task"]
           /\ DOMAIN h.now = DOMAIN g.now \cup {p}
           /\ \A q \in DOMAIN g.now : h.now[q] = g.now[q]
           /\ p \notin DOMAIN g.now => h.now[p] = b
           /\ DOMAIN h.kept = IF p \notin DOMAIN g.now /\ g.author[p] = "other"
                              THEN DOMAIN g.kept \ {p} ELSE DOMAIN g.kept
           /\ \A q \in DOMAIN h.kept : h.kept[q] = g.kept[q]
           /\ h.stuck = g.stuck /\ h.told = g.told /\ h.since = g.since /\ h.fresh = g.fresh
           /\ h.unread = g.unread
<1>1. Wrote(g, p) \in Ghosts
  BY WroteIs
<1>2. CASE p \in DOMAIN g.now
  BY <1>2, WroteIs DEF FirstWrote
<1>3. CASE p \notin DOMAIN g.now
  <2> DEFINE k == IF g.author[p] = "other" THEN Without(g.kept, p) ELSE g.kept
             n == With(g.now, p, b)
  <2>1. g.now \in Stored /\ g.kept \in Stored
    BY DEF Ghosts
  <2>2. k \in Stored
    BY <2>1, StoredRestrict DEF Without
  <2>3. n \in Stored
    BY <2>1, StoredWith
  <2>4. /\ DOMAIN n = DOMAIN g.now \cup {p} /\ n[p] = b
        /\ \A q \in DOMAIN g.now : n[q] = g.now[q]
    BY <1>3 DEF With
  <2>5. /\ DOMAIN k = IF g.author[p] = "other" THEN DOMAIN g.kept \ {p} ELSE DOMAIN g.kept
        /\ \A q \in DOMAIN k : k[q] = g.kept[q]
    BY DEF Without, Restrict
  <2> DEFINE w == Wrote(g, p)
  <2>6. h = [[w EXCEPT !.now = n] EXCEPT !.kept = k]
    <3>1. w \in Ghosts /\ w.now = g.now /\ w.kept = g.kept
      BY WroteIs
    <3>2. h = [w EXCEPT !.now = With(w.now, p, b),
                        !.kept = IF g.author[p] = "other" THEN Without(w.kept, p) ELSE w.kept]
      BY <1>3 DEF FirstWrote
    <3> HIDE DEF w
    <3> QED BY <3>1, <3>2 DEF Ghosts
  <2> HIDE DEF n, k
  <2>7. /\ h \in Ghosts /\ h.now = n /\ h.kept = k
        /\ h.author = Wrote(g, p).author /\ h.stuck = Wrote(g, p).stuck
        /\ h.told = Wrote(g, p).told /\ h.since = Wrote(g, p).since
        /\ h.fresh = Wrote(g, p).fresh /\ h.unread = Wrote(g, p).unread
    BY <1>1, <2>2, <2>3, <2>6 DEF Ghosts
  <2>8. /\ Wrote(g, p).author = [g.author EXCEPT ![p] = "task"]
        /\ Wrote(g, p).stuck = g.stuck /\ Wrote(g, p).told = g.told
        /\ Wrote(g, p).since = g.since /\ Wrote(g, p).fresh = g.fresh
        /\ Wrote(g, p).unread = g.unread
    BY WroteIs
  <2> QED BY <1>3, <2>4, <2>5, <2>7, <2>8
<1> QED BY <1>2, <1>3
-----------------------------------------------------------------------------
(***************************************************************************)
(* The invariant holds at the start; what is left alone by an undo, and by *)
(* a call.                                                                 *)
(***************************************************************************)
LEMMA EmptySeqs == DOMAIN <<>> = {} /\ PathsOf(<<>>) = {} /\ Distinct(<<>>)
BY DEF PathsOf, Distinct

LEMMA InvInit == Init => Inv
<1> SUFFICES ASSUME Init PROVE Inv
  OBVIOUS
<1>1. Types
  BY TypesInit
<1>2. call = NoCall /\ undo = NoUndo /\ latest = NoSet /\ journal = Empty /\ ~journal.active
  BY EmptyIs DEF Init
<1>3. /\ call.step = "idle" /\ DOMAIN call.todo = {} /\ DOMAIN call.done = {} /\ call.dirs = {}
      /\ DOMAIN call.made = {} /\ Distinct(call.todo) /\ Distinct(call.done)
  BY <1>2, NoCallIs, EmptySeqs, StoredEmpty
<1>4. undo.step = "idle" /\ ~Known(latest)
  BY <1>2, NoUndoIs DEF Known
<1>5. CallInv /\ Watched /\ TracedInv /\ TodoInv /\ DoneInv /\ Housed /\ Alone /\ FoundInv
  BY <1>2, <1>3 DEF CallInv, Watched, TracedInv, TodoInv, DoneInv, Housed, Alone, FoundInv, Ahead
<1>6. JournalInv
  BY <1>2, <1>3, EmptyIs, ChangesEmpty DEF JournalInv, Init
<1>7. SetPart
  BY <1>4 DEF SetPart, SetInv, KeptInv
<1>8. UndoPart
  BY <1>4 DEF UndoPart, Bound, UndoInv, RestoredInv, NotedInv, MatchInv, Underway, Undisturbed
<1>9. Tree
  BY ParentAssumption DEF Init, Tree
<1> QED BY <1>1, <1>5, <1>6, <1>7, <1>8, <1>9 DEF Inv, CallPart, TaskInv

\* Outside a call nothing is claimed of one.
LEMMA NoCallPart ==
    ASSUME call' = NoCall
    PROVE  /\ CallInv' /\ Watched' /\ TodoInv' /\ DoneInv' /\ Housed' /\ FoundInv'
           /\ DOMAIN call'.made = {} /\ ~Ahead' /\ call'.step # "verify"
<1>1. /\ call'.step = "idle" /\ DOMAIN call'.todo = {} /\ DOMAIN call'.done = {} /\ call'.dirs = {}
      /\ DOMAIN call'.made = {} /\ Distinct(call'.todo) /\ Distinct(call'.done)
  BY NoCallIs, EmptySeqs, StoredEmpty
<1> QED BY <1>1 DEF CallInv, Watched, TodoInv, DoneInv, Housed, FoundInv, Ahead

LEMMA UndoFrame ==
    ASSUME Inv, ~journal.active, UNCHANGED <<journal, latest, call>>,
           UNCHANGED <<ghost.now, ghost.kept>>,
           Known(latest) => \A p \in Paths \ SetPaths :
                ghost'.author[p] = ghost.author[p] /\ disk'[p] = disk[p]
    PROVE  CallPart' /\ SetPart'
<1>1. call' = NoCall /\ journal' = Empty /\ ~journal'.active
  BY EmptyIs DEF Inv, Types, Phases, CallPart, TaskInv, JournalInv
<1>2. /\ CallInv' /\ Watched' /\ TodoInv' /\ DoneInv' /\ Housed' /\ FoundInv'
      /\ DOMAIN call'.made = {}
  BY <1>1, NoCallPart
<1>3. JournalInv' /\ TracedInv' /\ Alone'
  BY <1>1, <1>2, EmptyIs, ChangesEmpty DEF JournalInv, TracedInv, Alone
<1>4. SetInv'
  BY DEF Inv, SetPart, SetInv, SetPaths, After, Known
<1>5. KeptInv'
  <2>1. ghost.kept \in Stored
    BY DEF Inv, Types, Ghosts
  <2>2. DOMAIN ghost.kept \subseteq Paths
    BY <2>1, StoredIs
  <2> QED BY <1>1, <2>2 DEF Inv, SetPart, KeptInv, SetPaths, Before, Known
<1> QED BY <1>2, <1>3, <1>4, <1>5 DEF CallPart, TaskInv, SetPart

\* A call leaves the set alone; what it writes, it notes at first.
LEMMA CallFrame ==
    ASSUME Inv, journal.active, journal'.active, UNCHANGED <<latest, undo>>,
           UNCHANGED <<ghost.since, ghost.told, ghost.unread>>,
           disk' = disk \/ DOMAIN ghost'.now # {}, DOMAIN ghost.now \subseteq DOMAIN ghost'.now
    PROVE  SetInv' /\ UndoPart'
<1>1. undo = NoUndo /\ undo.step = "idle"
  BY NoUndoIs DEF Inv, Types, Phases
<1>2. SetInv'
  BY DEF Inv, SetPart, SetInv, SetPaths, After, Known
<1>3. Bound' /\ UndoInv' /\ RestoredInv' /\ NotedInv'
  BY <1>1 DEF Bound, UndoInv, RestoredInv, NotedInv, Underway
<1>4. MatchInv'
  <2> SUFFICES ASSUME Undisturbed, DOMAIN ghost'.now = {} PROVE Matches'
    BY <1>1 DEF MatchInv, Undisturbed, Known, Underway
  <2>1. DOMAIN ghost.now = {} /\ disk' = disk
    OBVIOUS
  <2>2. Matches
    BY <1>1, <2>1 DEF Inv, UndoPart, MatchInv
  <2> QED BY <2>1, <2>2 DEF Matches, SetPaths, SetDirs, After, Before, Children
<1> QED BY <1>2, <1>3, <1>4 DEF UndoPart
-----------------------------------------------------------------------------
(***************************************************************************)
(* Steps of a call that write nothing                                      *)
(***************************************************************************)
LEMMA Acting ==
    ASSUME Inv, call.step # "idle"
    PROVE  journal.active /\ undo = NoUndo /\ undo.step = "idle" /\ call # NoCall
           /\ DOMAIN call.home = Dirs
BY NoCallIs, NoUndoIs DEF Inv, Types, Phases, CallTypes

AloneTodo == Ahead /\ journal.active /\ ghost.fresh = {} => \A i \in DOMAIN call.todo :
    LET t == call.todo[i] IN
    t.path \notin DOMAIN ghost.now /\ Parent[t.path] \in DOMAIN ghost.now => t.before = Absent

\* The journal, with more paths tainted.
Doubted == /\ journal' \in Journals /\ journal'.active = journal.active
           /\ journal'.changes = journal.changes /\ journal'.last = journal.last
           /\ journal.tainted \subseteq journal'.tainted

LEMMA DoubtedIs ==
    ASSUME journal \in Journals, journal' = journal \/ \E p \in Paths : journal' = Tainted(journal, p)
    PROVE  Doubted
BY TaintedIs DEF Doubted

LEMMA StillFrame ==
    ASSUME Inv, journal.active, UNCHANGED <<disk, next, latest, undo, ghost>>, Doubted, CountTypes',
           CallTypes', CallInv', Watched', TodoInv', DoneInv', Housed', FoundInv', AloneTodo',
           DOMAIN call'.made \subseteq DOMAIN call.made,
           \A p \in DOMAIN ghost.now : Unread(p) => Unread(p)' \/ p \in journal'.tainted
    PROVE  Inv'
<1>1. Types'
  BY DEF Inv, Types, DiskTypes, SetTypes, UndoTypes, CountTypes, Phases, Known, Doubted
<1>2. SetInv' /\ UndoPart'
  BY CallFrame DEF Doubted
<1>3. KeptInv'
  BY DEF Inv, SetPart, KeptInv, Known, SetPaths, Before, Doubted
<1>4. JournalInv'
  BY DEF Inv, CallPart, TaskInv, JournalInv, Doubted
<1>5. TracedInv'
  BY DEF Inv, CallPart, TaskInv, TracedInv, Traced, Filed, Fresh, Base, FirstOf, Doubted
<1>6. Tree'
  BY DEF Inv, Tree
<1>7. Alone'
  BY DEF Inv, CallPart, Alone, AloneTodo, Doubted
<1> QED BY <1>1, <1>2, <1>3, <1>4, <1>5, <1>6, <1>7 DEF Inv, CallPart, SetPart, TaskInv

LEMMA EndCall ==
    ASSUME Inv, call.step \notin {"idle", "verify"}, call' = NoCall,
           UNCHANGED <<disk, next, journal, latest, undo, ghost, count>>
    PROVE  Inv'
<1>1. journal.active
  BY Acting
<1>2. CallTypes' /\ CountTypes'
  BY NoCallIs, StoredEmpty DEF CallTypes, Inv, Types, CountTypes
<1>3. /\ CallInv' /\ Watched' /\ TodoInv' /\ DoneInv' /\ Housed' /\ FoundInv'
      /\ DOMAIN call'.made = {} /\ ~Ahead'
  BY NoCallPart
<1>4. Doubted
  BY DoubtedIs DEF Inv, Types
<1> QED BY <1>1, <1>2, <1>3, <1>4, StillFrame DEF AloneTodo, Unread

LEMMA RecheckStep == Inv /\ Recheck => Inv'
<1> SUFFICES ASSUME Inv, Recheck PROVE Inv'
  OBVIOUS
<1>1. call.step = "asked" /\ UNCHANGED <<disk, next, journal, latest, undo, count, ghost>>
  BY DEF Recheck
<1>2. CASE ~SameAsAsked
  BY <1>1, <1>2, EndCall DEF Recheck
<1>3. CASE SameAsAsked
  <2>1. PICK s \in {"dirs", "check", "publish"} :
            call' = [call EXCEPT !.step = s] /\ (s = "dirs" <=> call.dirs # {})
    BY <1>1, <1>3 DEF Recheck, Publishing
  <2>2. call \in Calls /\ CallInv /\ journal.active
    BY <1>1, Acting DEF Inv, Types, CallTypes, CallPart
  <2>3. /\ call' \in Calls /\ call'.step = s /\ call'.todo = call.todo /\ call'.done = call.done
        /\ call'.dirs = call.dirs /\ call'.made = call.made /\ call'.home = call.home
        /\ call'.was = call.was /\ call'.failed = call.failed /\ call'.tool = call.tool
    BY <2>1, <2>2 DEF Calls, Steps
  <2>4. call.done = <<>> /\ DOMAIN call.done = {}
    BY <1>1, <2>2 DEF CallInv
  <2>5. CallTypes' /\ CountTypes'
    <3>1. call' # NoCall /\ DOMAIN call.home = Dirs /\ CallTypes /\ CountTypes
      BY <1>1, <2>1, <2>3, Acting, NoCallIs DEF Inv, Types
    <3> QED BY <1>1, <2>1, <2>3, <3>1 DEF CallTypes, CountTypes
  <2>6. CallInv'
    BY <1>1, <2>1, <2>2, <2>3, <2>4 DEF CallInv, Distinct
  <2>7. Watched'
    BY <1>1, <1>3, <2>3 DEF Watched, SameAsAsked
  <2>8. TodoInv' /\ DoneInv'
    BY <1>1, <2>1, <2>3, <2>4 DEF Inv, CallPart, TaskInv, TodoInv, DoneInv, Ahead, Expected, Base, FirstOf
  <2>9. Housed'
    BY <1>1, <2>1, <2>3 DEF Inv, CallPart, Housed, Ahead
  <2>10. FoundInv'
    BY <1>1, <2>1, <2>3 DEF Inv, CallPart, FoundInv, Ahead, Known, SetPaths
  <2>11. AloneTodo'
    BY <1>1, <2>1, <2>3 DEF Inv, CallPart, Alone, AloneTodo, Ahead
  <2>12. Doubted
    BY <1>1, DoubtedIs DEF Inv, Types
  <2> QED BY <1>1, <2>2, <2>3, <2>5, <2>6, <2>7, <2>8, <2>9, <2>10, <2>11, <2>12, StillFrame
          DEF Unread
<1> QED BY <1>2, <1>3

\* What is above a path, with what is above that.
LEMMA AboveIs ==
    ASSUME NEW p \in Paths
    PROVE  /\ Above(p) \subseteq Dirs
           /\ Parent[p] # Root => Parent[p] \in Above(p)
           /\ \A d \in Above(p) : Parent[d] # Root => Parent[d] \in Above(p)
<1>1. \A q \in Paths : Parent[q] # Root => Parent[q] \in Dirs
  BY ParentAssumption
<1>2. \A d \in Dirs : d \in Paths
  BY DEF Paths
<1> QED BY <1>1, <1>2 DEF Above, InDir

LEMMA AskedIs ==
    ASSUME DiskTypes, NEW tool \in {"edit", "create", "patch", "mkdir"}, NEW todo \in Seq(Targets),
           NEW dirs \in SUBSET Dirs, NEW c, c = Asked(tool, todo, dirs)
    PROVE  /\ c \in Calls /\ c.step = "asked" /\ c.todo = todo /\ c.done = <<>> /\ c.dirs = dirs
           /\ c.made = NoPaths /\ c.failed = {} /\ c.tool = tool
           /\ DOMAIN c.home = Dirs /\ \A d \in Dirs : c.home[d] = disk[d]
           /\ DOMAIN c.was = PathsOf(todo) /\ \A p \in PathsOf(todo) : c.was[p] = disk[p]
           /\ PathsOf(todo) \subseteq Files
<1> DEFINE h == [d \in Dirs |-> disk[d]]
           w == [p \in PathsOf(todo) |-> disk[p]]
<1>1. PathsOf(todo) \subseteq Files
  <2>1. \A i \in DOMAIN todo : todo[i] \in Targets
    OBVIOUS
  <2> QED BY <2>1 DEF PathsOf, Targets
<1>2. h = [d \in DOMAIN h |-> h[d]] /\ DOMAIN h = Dirs /\ \A d \in Dirs : h[d] = disk[d]
  OBVIOUS
<1>3. w = [p \in DOMAIN w |-> w[p]] /\ DOMAIN w = PathsOf(todo) /\ \A p \in PathsOf(todo) : w[p] = disk[p]
  OBVIOUS
<1>4. PathsOf(todo) = {todo[i].path : i \in DOMAIN todo}
  BY DEF PathsOf
<1>5. c = [[[[[[NoCall EXCEPT !.tool = tool] EXCEPT !.step = "asked"] EXCEPT !.todo = todo]
             EXCEPT !.dirs = dirs] EXCEPT !.home = h] EXCEPT !.was = w]
  BY <1>4 DEF Asked
<1> HIDE DEF h, w
<1>6. h \in Stored
  BY <1>2, StoredIs, NodeKinds DEF DiskTypes
<1>7. w \in Stored
  BY <1>1, <1>3, StoredIs, NodeKinds DEF DiskTypes
<1>8. c \in Calls /\ c.home = h /\ c.was = w /\ c.step = "asked" /\ c.todo = todo /\ c.done = <<>>
      /\ c.dirs = dirs /\ c.made = NoPaths /\ c.failed = {} /\ c.tool = tool
  BY <1>5, <1>6, <1>7, NoCallIs DEF Calls, Steps
<1> QED BY <1>1, <1>2, <1>3, <1>8

LEMMA AskedStep ==
    ASSUME Inv, journal.active, call = NoCall, NEW tool \in {"edit", "create", "patch", "mkdir"},
           NEW todo \in Seq(Targets), NEW dirs \in SUBSET Dirs, Distinct(todo),
           \A i \in DOMAIN todo : todo[i].before = disk[todo[i].path]
                               /\ Continuous(journal, todo[i].path, todo[i].before),
           todo = <<>> => tool = "mkdir" /\ dirs # {},
           \A q \in PathsOf(todo) \cup dirs : Parent[q] # Root =>
                Parent[q] \in dirs \/ disk[Parent[q]] # Absent,
           dirs # {} => \A i \in DOMAIN todo : todo[i].before = Absent,
           call' = Asked(tool, todo, dirs), CountTypes',
           UNCHANGED <<disk, next, journal, latest, undo, ghost>>
    PROVE  Inv'
<1>1. /\ call' \in Calls /\ call'.step = "asked" /\ call'.todo = todo /\ call'.done = <<>>
      /\ call'.dirs = dirs /\ call'.made = NoPaths /\ call'.failed = {} /\ call'.tool = tool
      /\ DOMAIN call'.home = Dirs /\ \A d \in Dirs : call'.home[d] = disk[d]
      /\ DOMAIN call'.was = PathsOf(todo) /\ \A p \in PathsOf(todo) : call'.was[p] = disk[p]
      /\ PathsOf(todo) \subseteq Files
  BY AskedIs DEF Inv, Types
<1>2. call'.step # "idle" /\ call' # NoCall /\ DOMAIN call'.made = {} /\ DOMAIN call'.done = {}
      /\ Distinct(call'.done) /\ call.step = "idle"
  BY <1>1, NoCallIs, StoredEmpty, EmptySeqs
<1>3. \A i \in DOMAIN todo : todo[i].path \in PathsOf(todo)
  BY DEF PathsOf
<1>4. CallTypes'
  BY <1>1, <1>2 DEF CallTypes
<1>5. CallInv'
  BY <1>1, <1>2, <1>3 DEF CallInv
<1>6. Watched' /\ DoneInv'
  BY <1>1, <1>2 DEF Watched, DoneInv
<1>7. TodoInv'
  <2> SUFFICES ASSUME NEW i \in DOMAIN todo, todo[i].path \in DOMAIN ghost.now
               PROVE  Expected(todo[i].path, todo[i].before)
    BY <1>1 DEF TodoInv, Expected, Base, FirstOf
  <2>1. Traced(todo[i].path)
    BY <1>2 DEF Inv, CallPart, TaskInv, TracedInv, Unread, Continuous
  <2>2. journal.last[todo[i].path] = todo[i].before
    BY <2>1 DEF Traced, Filed, Continuous
  <2> QED BY <2>1, <2>2 DEF Traced, Filed, Expected
<1>8. Housed'
  <2>1. \A q \in PathsOf(todo) \cup dirs : Parent[q] # Root => Parent[q] \in Dirs
    BY <1>1, ParentAssumption DEF Paths
  <2> QED BY <1>1, <2>1 DEF Housed
<1>9. FoundInv'
  <2> SUFFICES ASSUME Known(latest), NEW i \in DOMAIN todo,
                      todo[i].path \in DOMAIN ghost.kept \ DOMAIN ghost.now,
                      todo[i].path \notin SetPaths
               PROVE  ghost.author[todo[i].path] = "other"
                      \/ TextOf(todo[i].before) = TextOf(ghost.kept[todo[i].path])
    BY <1>1 DEF FoundInv, Known, SetPaths
  <2> QED BY DEF Inv, SetPart, KeptInv
<1>10. AloneTodo'
  <2> SUFFICES ASSUME ghost.fresh = {}, NEW i \in DOMAIN todo,
                      todo[i].path \notin DOMAIN ghost.now, Parent[todo[i].path] \in DOMAIN ghost.now
               PROVE  todo[i].before = Absent
    BY <1>1 DEF AloneTodo
  <2>1. todo[i].path \in Paths
    BY <1>1, <1>3, NodeKinds
  <2> QED BY <2>1 DEF Inv, CallPart, Alone
<1>11. Doubted
  BY DoubtedIs DEF Inv, Types
<1> QED BY <1>2, <1>4, <1>5, <1>6, <1>7, <1>8, <1>9, <1>10, <1>11, StillFrame DEF Unread

LEMMA AskStep == ASSUME NEW tool \in {"edit", "create", "patch"} PROVE Inv /\ Ask(tool) => Inv'
<1> SUFFICES ASSUME Inv, Ask(tool) PROVE Inv'
  OBVIOUS
<1>1. /\ journal.active /\ call = NoCall /\ CountTypes'
      /\ UNCHANGED <<disk, next, latest, undo, ghost>>
  BY DEF Ask, Counted, Inv, Types, CountTypes
<1>2. PICK todo \in Requests(tool) :
        LET broken == {i \in DOMAIN todo : ~Continuous(journal, todo[i].path, todo[i].before)}
        IN IF broken = {}
           THEN /\ call' = Asked(tool, todo, IF tool = "create" THEN Missing(todo[1].path) ELSE {})
                /\ UNCHANGED journal
           ELSE /\ \E i \in broken : journal' = Tainted(journal, todo[i].path)
                /\ UNCHANGED call
  BY DEF Ask
<1>3. PICK k \in Nat : /\ k # 0 /\ Distinct(todo)
                       /\ todo \in [1..k -> {Target(p, text) : p \in Files, text \in Texts}]
                       /\ \A i \in DOMAIN todo : Fits(tool, todo[i])
                       /\ tool # "patch" => k = 1
  BY BoundAssumption DEF Requests
<1>4. ASSUME NEW i \in 1..k
      PROVE  todo[i] \in Targets /\ todo[i].before = disk[todo[i].path] /\ todo[i].path \in Files
  <2>1. PICK p \in Files, text \in Texts : todo[i] = Target(p, text)
    BY <1>3
  <2>2. disk[p] \in FileNodes
    BY NodeKinds DEF Inv, Types, DiskTypes
  <2> QED BY <2>1, <2>2 DEF Target, Targets
<1>5. todo \in Seq(Targets) /\ DOMAIN todo = 1..k /\ todo # <<>> /\ 1 \in 1..k
  <2>1. todo \in [1..k -> Targets] /\ 1 \in DOMAIN todo
    BY <1>3, <1>4
  <2> QED BY <2>1
<1>6. CASE \A i \in DOMAIN todo : Continuous(journal, todo[i].path, todo[i].before)
  <2> DEFINE dirs == IF tool = "create" THEN Missing(todo[1].path) ELSE {}
  <2>1. todo[1].path \in Paths /\ todo[1].path \in Files
    BY <1>4, <1>5, NodeKinds
  <2>2. dirs \in SUBSET Dirs
    BY <2>1, AboveIs DEF Missing
  <2>3. dirs # {} => \A i \in DOMAIN todo : todo[i].before = Absent
    <3> SUFFICES ASSUME tool = "create", NEW i \in DOMAIN todo PROVE todo[i].before = Absent
      OBVIOUS
    <3>1. Fits("create", todo[i])
      BY <1>3
    <3> QED BY <3>1 DEF Fits
  <2>4. \A q \in PathsOf(todo) \cup dirs : Parent[q] # Root =>
            Parent[q] \in dirs \/ disk[Parent[q]] # Absent
    <3>1. CASE tool = "create"
      <4>1. PathsOf(todo) = {todo[1].path}
        BY <1>3, <1>5, <3>1 DEF PathsOf
      <4>2. \A q \in {todo[1].path} \cup dirs : Parent[q] # Root => Parent[q] \in Above(todo[1].path)
        BY <2>1, <3>1, AboveIs DEF Missing
      <4> QED BY <3>1, <4>1, <4>2 DEF Missing
    <3>2. CASE tool # "create"
      <4> SUFFICES ASSUME NEW i \in DOMAIN todo, Parent[todo[i].path] # Root
                   PROVE  disk[Parent[todo[i].path]] # Absent
        BY <3>2 DEF PathsOf
      <4>1. todo[i].path \in Paths /\ todo[i].before = disk[todo[i].path] /\ Fits(tool, todo[i])
        BY <1>3, <1>4, <1>5, NodeKinds
      <4> QED BY <3>2, <4>1 DEF Fits, Within, Inv, Tree
    <3> QED BY <3>1, <3>2
  <2>5. call' = Asked(tool, todo, dirs) /\ journal' = journal
    BY <1>2, <1>6
  <2> HIDE DEF dirs
  <2> QED BY <1>1, <1>3, <1>4, <1>5, <1>6, <2>2, <2>3, <2>4, <2>5, AskedStep
<1>7. CASE ~\A i \in DOMAIN todo : Continuous(journal, todo[i].path, todo[i].before)
  <2>1. PICK i \in DOMAIN todo : journal' = Tainted(journal, todo[i].path)
    BY <1>2, <1>7
  <2>2. call' = NoCall
    BY <1>1, <1>2, <1>7
  <2>3. Doubted
    BY <1>4, <1>5, <2>1, DoubtedIs, NodeKinds DEF Inv, Types
  <2>4. /\ CallInv' /\ Watched' /\ TodoInv' /\ DoneInv' /\ Housed' /\ FoundInv'
        /\ DOMAIN call'.made = {} /\ ~Ahead'
    BY <2>2, NoCallPart
  <2>5. CallTypes' /\ call.step # "verify"
    BY <1>1, <2>2, NoCallIs DEF Inv, Types, CallTypes
  <2> QED BY <1>1, <2>3, <2>4, <2>5, StillFrame DEF AloneTodo, Unread
<1> QED BY <1>6, <1>7

LEMMA AskDirectoryStep == Inv /\ AskDirectory => Inv'
<1> SUFFICES ASSUME Inv, AskDirectory PROVE Inv'
  OBVIOUS
<1>1. /\ journal.active /\ call = NoCall /\ CountTypes'
      /\ UNCHANGED <<disk, next, journal, latest, undo, ghost>>
  BY DEF AskDirectory, Counted, Inv, Types, CountTypes
<1>2. PICK d \in Dirs : disk[d] = Absent /\ call' = Asked("mkdir", <<>>, Missing(d) \cup {d})
  BY DEF AskDirectory
<1> DEFINE dirs == Missing(d) \cup {d}
<1>3. d \in Paths
  BY NodeKinds
<1>4. dirs \in SUBSET Dirs /\ dirs # {}
  BY <1>3, AboveIs DEF Missing
<1>5. \A q \in dirs : Parent[q] # Root => Parent[q] \in dirs \/ disk[Parent[q]] # Absent
  <2>1. \A q \in dirs : Parent[q] # Root => Parent[q] \in Above(d)
    BY <1>3, AboveIs DEF Missing
  <2> QED BY <2>1 DEF Missing
<1>6. <<>> \in Seq(Targets)
  OBVIOUS
<1>7. call' = Asked("mkdir", <<>>, dirs)
  BY <1>2
<1> HIDE DEF dirs
<1> QED BY <1>1, <1>4, <1>5, <1>6, <1>7, EmptySeqs, AskedStep

LEMMA MoveOn ==
    ASSUME Inv, call.step \in {"check", "publish"}, NEW s \in {"publish", "back", "undir"},
           call' = [call EXCEPT !.step = s], Doubted,
           UNCHANGED <<disk, next, latest, undo, count, ghost>>
    PROVE  Inv'
<1>1. call \in Calls /\ CallInv /\ journal.active /\ CallTypes /\ call # NoCall
  BY Acting DEF Inv, Types, CallTypes, CallPart
<1>2. /\ call' \in Calls /\ call'.step = s /\ call'.todo = call.todo /\ call'.done = call.done
      /\ call'.dirs = call.dirs /\ call'.made = call.made /\ call'.home = call.home
      /\ call'.was = call.was /\ call'.failed = call.failed
  BY <1>1 DEF Calls, Steps
<1>3. call' # NoCall
  BY <1>2, NoCallIs
<1>4. CallTypes' /\ CountTypes'
  BY <1>1, <1>2, <1>3 DEF CallTypes, Inv, Types, CountTypes
<1>5. CallInv'
  BY <1>1, <1>2 DEF CallInv, Distinct
<1>6. Watched'
  BY <1>2 DEF Inv, CallPart, Watched, PathsOf
<1>7. TodoInv' /\ DoneInv'
  BY <1>2 DEF Inv, CallPart, TaskInv, TodoInv, DoneInv, Ahead, Expected, Base, FirstOf, Doubted
<1>8. Housed'
  BY <1>2 DEF Inv, CallPart, Housed, Ahead
<1>9. FoundInv'
  BY <1>2 DEF Inv, CallPart, FoundInv, Ahead, Known, SetPaths
<1>10. AloneTodo'
  BY <1>2 DEF Inv, CallPart, Alone, AloneTodo, Ahead, Doubted
<1> QED BY <1>1, <1>2, <1>4, <1>5, <1>6, <1>7, <1>8, <1>9, <1>10, StillFrame DEF Unread

LEMMA HeadIs ==
    ASSUME Inv, call.step \in {"check", "publish", "verify"}
    PROVE  /\ Head(call.todo) \in Targets /\ Head(call.todo) = call.todo[1]
           /\ 1 \in DOMAIN call.todo /\ Head(call.todo).path \in Files
           /\ Head(call.todo).path \in Paths
<1>1. call.todo \in Seq(Targets) /\ call.todo # <<>>
  BY DEF Inv, Types, CallTypes, Calls, CallPart, CallInv
<1>2. Head(call.todo) \in Targets /\ Head(call.todo) = call.todo[1] /\ 1 \in DOMAIN call.todo
  BY <1>1
<1> QED BY <1>2, NodeKinds DEF Targets

LEMMA CheckStep == Inv /\ Check => Inv'
<1> SUFFICES ASSUME Inv, Check PROVE Inv'
  OBVIOUS
<1>1. call.step = "check" /\ UNCHANGED <<disk, next, latest, undo, count, ghost>>
  BY DEF Check
<1>2. PICK s \in {"publish", "back", "undir"} : call' = [call EXCEPT !.step = s]
  BY DEF Check, Unpublished
<1>3. Doubted
  BY <1>1, HeadIs, DoubtedIs DEF Check, Inv, Types
<1> QED BY <1>1, <1>2, <1>3, MoveOn

LEMMA EndingStep == Inv /\ (Deny \/ GiveUp \/ PatchFailed) => Inv'
BY EndCall DEF Deny, GiveUp, PatchFailed
-----------------------------------------------------------------------------
(***************************************************************************)
(* Steps of a call that write one path                                     *)
(***************************************************************************)
\* The journal of the other paths is as it was.
Logged(p) ==
    /\ journal' \in Journals /\ journal'.active = journal.active
    /\ journal.tainted \subseteq journal'.tainted
    /\ DOMAIN journal'.changes \subseteq DOMAIN journal'.last
    /\ DOMAIN journal.last \subseteq DOMAIN journal'.last
    /\ DOMAIN journal'.last \subseteq DOMAIN journal.last \cup {p}
    /\ \A q \in DOMAIN journal'.changes : journal'.changes[q].after = journal'.last[q]
    /\ \A q \in DOMAIN journal.last : q # p => journal'.last[q] = journal.last[q]
    /\ \A q : q # p => (q \in DOMAIN journal'.changes <=> q \in DOMAIN journal.changes)
    /\ \A q \in DOMAIN journal.changes : q # p => journal'.changes[q] = journal.changes[q]

LEMMA LoggedIs ==
    ASSUME journal \in Journals, JournalInv, NEW p \in Paths, Journaled(p)
    PROVE  Logged(p)
<1>1. /\ DOMAIN journal.changes \subseteq DOMAIN journal.last
      /\ \A q \in DOMAIN journal.changes : journal.changes[q].after = journal.last[q]
  BY DEF JournalInv
<1>2. CASE journal' = journal
  BY <1>1, <1>2 DEF Logged
<1>3. CASE journal' = Tainted(journal, p)
  BY <1>1, <1>3, TaintedIs DEF Logged
<1>4. ASSUME NEW b \in NodesOf(p), NEW a \in NodesOf(p),
             \/ journal' = Recorded(journal, p, b, a)
             \/ journal' = Tainted(Recorded(journal, p, b, a), p)
      PROVE  Logged(p)
  <2> DEFINE r == Recorded(journal, p, b, a)
             c == Merged(journal, p, b, a)
  <2>1. /\ r \in Journals /\ r.active = journal.active /\ r.tainted = journal.tainted
        /\ DOMAIN r.last = DOMAIN journal.last \cup {p} /\ r.last[p] = a
        /\ \A q \in DOMAIN journal.last : q # p => r.last[q] = journal.last[q]
        /\ NetZero(p, c) => DOMAIN r.changes = DOMAIN journal.changes \ {p}
        /\ ~NetZero(p, c) => DOMAIN r.changes = DOMAIN journal.changes \cup {p} /\ r.changes[p] = c
        /\ \A q \in DOMAIN journal.changes : q # p => r.changes[q] = journal.changes[q]
    BY RecordedIs
  <2>2. c.after = a
    BY MergedIs
  <2>3. /\ journal' \in Journals /\ journal'.active = r.active /\ r.tainted \subseteq journal'.tainted
        /\ journal'.last = r.last /\ journal'.changes = r.changes
    BY <1>4, <2>1, TaintedIs
  <2> HIDE DEF r, c
  <2>4. \A q \in DOMAIN r.changes : r.changes[q].after = r.last[q]
    BY <1>1, <2>1, <2>2
  <2> QED BY <1>1, <2>1, <2>3, <2>4 DEF Logged
<1> QED BY <1>2, <1>3, <1>4 DEF Journaled

\* The history after a write of p, which was b if this is the first one of the task.
Marked(p, b) ==
    /\ ghost' \in Ghosts
    /\ \/ ghost'.author = [ghost.author EXCEPT ![p] = "task"]
       \/ ghost'.author = ghost.author /\ p \in DOMAIN ghost.now
    /\ DOMAIN ghost'.now = DOMAIN ghost.now \cup {p}
    /\ \A q \in DOMAIN ghost.now : ghost'.now[q] = ghost.now[q]
    /\ p \notin DOMAIN ghost.now => ghost'.now[p] = b
    /\ DOMAIN ghost'.kept \subseteq DOMAIN ghost.kept
    /\ p \notin DOMAIN ghost.now /\ ghost.author[p] = "other" => p \notin DOMAIN ghost'.kept
    /\ \A q \in DOMAIN ghost'.kept : ghost'.kept[q] = ghost.kept[q]
    /\ ghost.stuck \subseteq ghost'.stuck /\ ghost'.stuck \subseteq ghost.stuck \cup {p}
    /\ ghost'.told = ghost.told /\ ghost'.since = ghost.since /\ ghost'.fresh = ghost.fresh
    /\ ghost'.unread = ghost.unread

LEMMA MarkedIs ==
    ASSUME ghost \in Ghosts, NEW p \in Paths, NEW b \in NodesOf(p),
           \/ ghost' = FirstWrote(ghost, p, b)
           \/ /\ p \in DOMAIN ghost.now
              /\ \/ ghost' = ghost \/ ghost' = Wrote(ghost, p)
                 \/ ghost' = Stuck(ghost, p) \/ ghost' = Stuck(Wrote(ghost, p), p)
    PROVE  Marked(p, b)
<1>1. CASE ghost' = FirstWrote(ghost, p, b)
  <2>1. /\ ghost' \in Ghosts
        /\ ghost'.author = [ghost.author EXCEPT ![p] = "task"]
        /\ DOMAIN ghost'.now = DOMAIN ghost.now \cup {p}
        /\ \A q \in DOMAIN ghost.now : ghost'.now[q] = ghost.now[q]
        /\ p \notin DOMAIN ghost.now => ghost'.now[p] = b
        /\ DOMAIN ghost'.kept = IF p \notin DOMAIN ghost.now /\ ghost.author[p] = "other"
                                THEN DOMAIN ghost.kept \ {p} ELSE DOMAIN ghost.kept
        /\ \A q \in DOMAIN ghost'.kept : ghost'.kept[q] = ghost.kept[q]
        /\ ghost'.stuck = ghost.stuck /\ ghost'.told = ghost.told /\ ghost'.since = ghost.since
        /\ ghost'.fresh = ghost.fresh /\ ghost'.unread = ghost.unread
    BY <1>1, FirstWroteIs
  <2> QED BY <2>1 DEF Marked
<1>2. CASE p \in DOMAIN ghost.now /\ ghost' = ghost
  BY <1>2 DEF Marked
<1>3. CASE p \in DOMAIN ghost.now /\ ghost' = Wrote(ghost, p)
  BY <1>3, WroteIs DEF Marked
<1>4. CASE p \in DOMAIN ghost.now /\ ghost' = Stuck(ghost, p)
  BY <1>4, StuckIs DEF Marked
<1>5. CASE p \in DOMAIN ghost.now /\ ghost' = Stuck(Wrote(ghost, p), p)
  <2> DEFINE w == Wrote(ghost, p)
  <2>1. /\ w \in Ghosts /\ w.author = [ghost.author EXCEPT ![p] = "task"]
        /\ w.now = ghost.now /\ w.kept = ghost.kept /\ w.stuck = ghost.stuck
        /\ w.told = ghost.told /\ w.since = ghost.since /\ w.fresh = ghost.fresh
        /\ w.unread = ghost.unread
    BY WroteIs
  <2> HIDE DEF w
  <2>2. ghost' = Stuck(w, p)
    BY <1>5 DEF w
  <2> QED BY <1>5, <2>1, <2>2, StuckIs DEF Marked
<1> QED BY <1>1, <1>2, <1>3, <1>4, <1>5

LEMMA MarkedAuthor ==
    ASSUME ghost \in Ghosts, NEW p \in Paths, NEW b, Marked(p, b)
    PROVE  /\ \A q \in Paths : q # p => ghost'.author[q] = ghost.author[q]
           /\ ghost.author[p] # "other" => ghost'.author[p] # "other"
           /\ p \notin DOMAIN ghost.now => ghost'.author[p] # "other"
BY DEF Ghosts, Marked

\* A record of a path that is not tainted, and of what it is now.
LEMMA FiledRecorded ==
    ASSUME journal \in Journals, NEW p \in Paths, NEW b \in NodesOf(p), NEW a \in NodesOf(p),
           journal' = Recorded(journal, p, b, a), ghost'.now[p] \in NodesOf(p),
           ghost'.now[p] = Absent => FirstOf(p, b) = Absent,
           p \notin ghost'.stuck => TextOf(FirstOf(p, b)) = TextOf(ghost'.now[p]),
           a = Absent => ghost'.now[p] = Absent
    PROVE  Filed(p)'
<1> DEFINE c == Merged(journal, p, b, a)
<1>1. /\ DOMAIN journal'.last = DOMAIN journal.last \cup {p} /\ journal'.last[p] = a
      /\ NetZero(p, c) => DOMAIN journal'.changes = DOMAIN journal.changes \ {p}
      /\ ~NetZero(p, c) => DOMAIN journal'.changes = DOMAIN journal.changes \cup {p}
                           /\ journal'.changes[p] = c
  BY RecordedIs
<1>2. c.before = FirstOf(p, b) /\ c.after = a
  BY MergedIs DEF FirstOf
<1> HIDE DEF c
<1>3. CASE NetZero(p, c)
  <2>1. p \notin DOMAIN journal'.changes
    BY <1>1, <1>3
  <2>2. FirstOf(p, b) = a \/ (p \in Files /\ FirstOf(p, b) # Absent /\ a # Absent
                              /\ FirstOf(p, b).text = a.text)
    BY <1>2, <1>3 DEF NetZero
  <2>3. TextOf(a) = TextOf(FirstOf(p, b)) /\ (ghost'.now[p] = Absent => a = Absent)
    BY <2>2 DEF TextOf
  <2> QED BY <1>1, <2>1, <2>3 DEF Filed, Base, FirstOf, TextOf
<1>4. CASE ~NetZero(p, c)
  <2>1. p \in DOMAIN journal'.changes /\ journal'.changes[p].before = FirstOf(p, b)
    BY <1>1, <1>2, <1>4
  <2>2. FirstOf(p, b) # a
    BY <1>2, <1>4 DEF NetZero
  <2> QED BY <1>1, <2>1, <2>2 DEF Filed, Base, FirstOf, TextOf
<1> QED BY <1>3, <1>4

LEMMA TreePut ==
    ASSUME Tree, NEW p \in Paths, PutAt(p), disk'[p] = Absent => p \in Files \/ Children(p) = {},
           disk'[p] # Absent => Within(p)
    PROVE  Tree'
<1> SUFFICES ASSUME NEW q \in Paths, Parent[q] # Root, disk'[Parent[q]] = Absent
             PROVE  disk'[q] = Absent
  BY DEF Tree
<1>1. Parent[q] \in Dirs /\ Parent[q] \in Paths
  BY ParentAssumption, NodeKinds
<1>2. CASE Parent[q] = p
  <2>1. Children(p) = {}
    BY <1>1, <1>2, NodeKinds
  <2> QED BY <1>2, <2>1 DEF Children, PutAt
<1>3. CASE Parent[q] # p
  BY <1>1, <1>3 DEF PutAt, Tree, Within
<1> QED BY <1>2, <1>3

\* The whole invariant after a write of p, from what is particular to the step.
LEMMA WriteFrame ==
    ASSUME Inv, journal.active, NEW p \in Paths, NEW b \in NodesOf(p), PutAt(p), Marked(p, b),
           Logged(p), UNCHANGED <<latest, undo, count>>,
           CallTypes', CallInv', Watched', TodoInv', DoneInv', Housed', FoundInv', AloneTodo',
           DOMAIN call'.made \subseteq DOMAIN ghost'.now,
           DOMAIN call'.made \ journal'.tainted \subseteq DOMAIN journal'.changes,
           disk'[p] = Absent => p \in Files \/ Children(p) = {},
           disk'[p] # Absent => Within(p),
           Unread(p)' \/ p \in journal'.tainted \/ Traced(p)',
           call.step = "verify" => p = LastDone.path,
           p \notin DOMAIN ghost.now =>
              /\ p \in Dirs => b = Absent /\ disk[p] = Absent
              /\ ghost.fresh = {} /\ Parent[p] \in DOMAIN ghost.now => b = Absent
              /\ disk'[p] # Absent
              /\ Known(latest) /\ p \in DOMAIN ghost.kept \ SetPaths /\ ghost.author[p] # "other"
                    => TextOf(b) = TextOf(ghost.kept[p])
    PROVE  Inv'
<1>1. /\ \A q \in Paths : q # p => ghost'.author[q] = ghost.author[q]
      /\ ghost.author[p] # "other" => ghost'.author[p] # "other"
      /\ p \notin DOMAIN ghost.now => ghost'.author[p] # "other"
  BY MarkedAuthor DEF Inv, Types
<1>2. journal'.active /\ ghost.now \in Stored /\ ghost.kept \in Stored
  BY DEF Logged, Inv, Types, Ghosts
<1>3. DOMAIN ghost.now \subseteq Paths /\ DOMAIN ghost.kept \subseteq Paths
  BY <1>2, StoredIs
<1>4. Types'
  <2>1. DiskTypes'
    BY PutTypes DEF Inv, Types
  <2>2. ghost' \in Ghosts /\ journal' \in Journals
    BY DEF Marked, Logged
  <2>3. undo = NoUndo
    BY DEF Inv, Types, Phases
  <2> QED BY <1>2, <2>1, <2>2, <2>3 DEF Inv, Types, SetTypes, UndoTypes, CountTypes, Phases
<1>5. SetInv' /\ UndoPart'
  BY <1>2, CallFrame DEF Marked
<1>6. KeptInv'
  <2> SUFFICES ASSUME Known(latest), NEW q \in DOMAIN ghost'.kept
               PROVE  /\ q \in SetPaths => TextOf(Before(q)) = TextOf(ghost.kept[q])
                      /\ q \notin SetPaths =>
                            IF q \in DOMAIN ghost'.now
                            THEN TextOf(ghost'.now[q]) = TextOf(ghost.kept[q])
                            ELSE ghost'.author[q] = "other" \/ TextOf(disk'[q]) = TextOf(ghost.kept[q])
    BY <1>2 DEF KeptInv, Known, SetPaths, Before, Marked
  <2>1. /\ q \in DOMAIN ghost.kept /\ q \in Paths
        /\ p \notin DOMAIN ghost.now /\ ghost.author[p] = "other" => q # p
    BY <1>3 DEF Marked
  <2>2. /\ q \in SetPaths => TextOf(Before(q)) = TextOf(ghost.kept[q])
        /\ q \notin SetPaths =>
              IF q \in DOMAIN ghost.now
              THEN TextOf(ghost.now[q]) = TextOf(ghost.kept[q])
              ELSE ghost.author[q] = "other" \/ TextOf(disk[q]) = TextOf(ghost.kept[q])
    BY <2>1 DEF Inv, SetPart, KeptInv
  <2>3. CASE q = p
    BY <2>1, <2>2, <2>3 DEF Marked
  <2>4. CASE q # p
    BY <1>1, <2>1, <2>2, <2>4 DEF Marked, PutAt
  <2> QED BY <2>3, <2>4
<1>7. JournalInv'
  <2>1. \A d \in DOMAIN ghost'.now \cap Dirs : ghost'.now[d] = Absent
    BY DEF Inv, CallPart, TaskInv, JournalInv, Marked
  <2>2. DOMAIN journal'.last \subseteq DOMAIN ghost'.now
    BY DEF Inv, CallPart, TaskInv, JournalInv, Marked, Logged
  <2> QED BY <1>2, <2>1, <2>2 DEF JournalInv, Logged
<1>8. TracedInv'
  <2> SUFFICES ASSUME NEW q \in DOMAIN ghost'.now, q # p, q \notin journal'.tainted
               PROVE  Traced(q)'
    BY DEF TracedInv
  <2>1. q \in DOMAIN ghost.now /\ q \in Paths /\ q \notin journal.tainted /\ ~Unread(q)
    BY <1>3 DEF Marked, Logged, Unread
  <2>2. Traced(q)
    BY <2>1 DEF Inv, CallPart, TaskInv, TracedInv
  <2>3. /\ q \in DOMAIN journal.last /\ q \in DOMAIN journal'.last
        /\ journal'.last[q] = journal.last[q]
        /\ q \in DOMAIN journal'.changes <=> q \in DOMAIN journal.changes
        /\ q \in DOMAIN journal.changes => journal'.changes[q] = journal.changes[q]
    BY <2>2 DEF Traced, Filed, Logged
  <2>4. /\ ghost'.now[q] = ghost.now[q] /\ ghost'.author[q] = ghost.author[q]
        /\ disk'[q] = disk[q] /\ (q \notin ghost'.stuck => q \notin ghost.stuck)
    BY <1>1, <2>1 DEF Marked, PutAt
  <2> QED BY <2>2, <2>3, <2>4 DEF Traced, Filed, Fresh, Base, FirstOf
<1>9. Tree'
  BY TreePut DEF Inv
<1>10. Alone'
  <2> SUFFICES ASSUME ghost.fresh = {}
               PROVE  /\ \A q \in DOMAIN ghost'.now : ghost'.author[q] # "other"
                      /\ \A q \in Paths : Parent[q] \in DOMAIN ghost'.now =>
                            IF q \in DOMAIN ghost'.now THEN ghost'.now[q] = Absent ELSE disk'[q] = Absent
                      /\ \A q \in DOMAIN ghost'.now : Parent[q] # Root =>
                            Parent[q] \in DOMAIN ghost'.now \/ disk'[Parent[q]] # Absent
    BY <1>2 DEF Alone, AloneTodo, Marked
  <2>1. /\ \A q \in DOMAIN ghost.now : ghost.author[q] # "other"
        /\ \A q \in Paths : Parent[q] \in DOMAIN ghost.now =>
              IF q \in DOMAIN ghost.now THEN ghost.now[q] = Absent ELSE disk[q] = Absent
        /\ \A q \in DOMAIN ghost.now : Parent[q] # Root =>
              Parent[q] \in DOMAIN ghost.now \/ disk[Parent[q]] # Absent
    BY DEF Inv, CallPart, Alone
  <2>2. \A q \in DOMAIN ghost'.now : ghost'.author[q] # "other"
    BY <1>1, <1>3, <2>1 DEF Marked
  <2>3. ASSUME NEW q \in Paths, Parent[q] \in DOMAIN ghost'.now
        PROVE  IF q \in DOMAIN ghost'.now THEN ghost'.now[q] = Absent ELSE disk'[q] = Absent
    <3>1. CASE Parent[q] \in DOMAIN ghost.now
      BY <2>1, <3>1 DEF Marked, PutAt
    <3>2. CASE Parent[q] \notin DOMAIN ghost.now
      <4>1. Parent[q] = p /\ Parent[q] # Root /\ p \in Dirs /\ b = Absent /\ disk[p] = Absent
        BY <2>3, <3>2, ParentAssumption DEF Marked
      <4>2. q \notin DOMAIN ghost.now /\ disk[q] = Absent
        BY <2>1, <3>2, <4>1 DEF Inv, Tree
      <4> QED BY <3>2, <4>1, <4>2 DEF Marked, PutAt
    <3> QED BY <3>1, <3>2
  <2>4. ASSUME NEW q \in DOMAIN ghost'.now, Parent[q] # Root
        PROVE  Parent[q] \in DOMAIN ghost'.now \/ disk'[Parent[q]] # Absent
    <3>1. q \in Paths
      BY <1>3 DEF Marked
    <3>2. Parent[q] \in Paths
      BY <2>4, <3>1, ParentAssumption, NodeKinds
    <3>3. Parent[q] \in DOMAIN ghost.now \/ disk[Parent[q]] # Absent
      BY <2>1, <2>4 DEF Marked, Within
    <3> QED BY <3>2, <3>3 DEF Marked, PutAt
  <2> QED BY <2>2, <2>3, <2>4
<1> QED BY <1>4, <1>5, <1>6, <1>7, <1>8, <1>9, <1>10 DEF Inv, CallPart, SetPart, TaskInv

\* What is still to be done, after a write of p.
LEMMA TodoFrame ==
    ASSUME Inv, NEW p \in Paths, NEW b, Marked(p, b), Logged(p), Ahead' => Ahead,
           \A i \in DOMAIN call'.todo : \E k \in DOMAIN call.todo : call'.todo[i] = call.todo[k],
           \A i \in DOMAIN call'.todo : call'.todo[i].path = p =>
                p \in journal'.tainted \/ Expected(p, call.todo[i].before)'
    PROVE  TodoInv'
<1> SUFFICES ASSUME Ahead, NEW i \in DOMAIN call'.todo, NEW q, NEW c, q = call'.todo[i].path,
                    c = call'.todo[i].before, q \in DOMAIN ghost'.now, q \notin journal'.tainted,
                    q # p
             PROVE  Expected(q, c)'
  BY DEF TodoInv, Expected, Base, FirstOf
<1>1. q \in DOMAIN ghost.now /\ q \notin journal.tainted
  BY DEF Marked, Logged
<1>2. Expected(q, c)
  BY <1>1 DEF Inv, CallPart, TaskInv, TodoInv
<1> QED BY <1>1, <1>2 DEF Expected, Base, FirstOf, Logged, Marked
-----------------------------------------------------------------------------
(***************************************************************************)
(* Directories of a call                                                   *)
(***************************************************************************)
LEMMA CallIs ==
    ASSUME Inv
    PROVE  /\ call \in Calls /\ journal \in Journals /\ ghost \in Ghosts /\ DiskTypes
           /\ CallTypes /\ CountTypes
           /\ ghost.now \in Stored /\ DOMAIN ghost.now \subseteq Paths
           /\ \A p \in DOMAIN ghost.now : ghost.now[p] \in NodesOf(p)
           /\ call.made \in Stored /\ call.home \in Stored /\ call.was \in Stored
           /\ call.todo \in Seq(Targets) /\ call.done \in Seq(Entries)
           /\ \A i \in DOMAIN call.todo : call.todo[i] \in Targets
           /\ \A i \in DOMAIN call.done : call.done[i] \in Entries
<1>1. call \in Calls /\ journal \in Journals /\ ghost \in Ghosts /\ DiskTypes /\ CallTypes
      /\ CountTypes
  BY DEF Inv, Types, CallTypes
<1>2. ghost.now \in Stored
  BY <1>1 DEF Ghosts
<1>3. /\ call.made \in Stored /\ call.home \in Stored /\ call.was \in Stored
      /\ call.todo \in Seq(Targets) /\ call.done \in Seq(Entries)
  BY <1>1 DEF Calls
<1>4. \A i \in DOMAIN call.todo : call.todo[i] \in Targets
  BY <1>3
<1>5. \A i \in DOMAIN call.done : call.done[i] \in Entries
  BY <1>3
<1> QED BY <1>1, <1>2, <1>3, <1>4, <1>5, StoredIs

\* While directories are made or removed, no file is written.
LEMMA DirectoryWrites ==
    ASSUME Inv, call.step \in {"dirs", "undir"}, NEW d \in Dirs, PutAt(d), Marked(d, Absent),
           Logged(d)
    PROVE  /\ \A p \in Files : /\ disk'[p] = disk[p] /\ ghost'.author[p] = ghost.author[p]
                               /\ (p \in DOMAIN ghost'.now <=> p \in DOMAIN ghost.now)
                               /\ p \in DOMAIN ghost'.kept => p \in DOMAIN ghost.kept
           /\ \A p \in DOMAIN call.was : p \in Files
           /\ \A i \in DOMAIN call.todo : call.todo[i].path \in Files
           /\ \A i \in DOMAIN call.done : call.done[i].path \in Files
<1>1. d \in Paths /\ \A p \in Files : p # d /\ p \in Paths
  BY NodeKinds
<1>2. \A p \in Paths : p # d => ghost'.author[p] = ghost.author[p]
  BY <1>1, MarkedAuthor, CallIs
<1>3. \A p \in Files : /\ disk'[p] = disk[p] /\ ghost'.author[p] = ghost.author[p]
                       /\ (p \in DOMAIN ghost'.now <=> p \in DOMAIN ghost.now)
                       /\ p \in DOMAIN ghost'.kept => p \in DOMAIN ghost.kept
  BY <1>1, <1>2 DEF PutAt, Marked
<1>4. \A p \in DOMAIN call.was : p \in Files
  BY CallIs DEF CallTypes
<1> QED BY <1>3, <1>4, CallIs DEF Targets, Entries

LEMMA MadeStep ==
    ASSUME Inv, call.step = "dirs", NEW d \in call.dirs, Parent[d] \notin call.dirs,
           AtHome(d), disk[d] = Absent, Put(d, Node(IsDir)), ghost' = FirstWrote(ghost, d, Absent),
           journal' = Recorded(journal, d, Absent, disk'[d]),
           call' = LET c == [call EXCEPT !.dirs = @ \ {d}, !.home[d] = disk'[d],
                                   !.made = With(@, d, disk'[d])]
                   IN IF c.dirs # {} THEN c
                      ELSE IF c.tool = "mkdir" THEN NoCall ELSE Publishing(c),
           UNCHANGED <<latest, undo, count>>
    PROVE  Inv'
<1>1. /\ d \in Dirs /\ d \in Paths /\ d \notin Files /\ journal.active /\ undo = NoUndo
      /\ NodesOf(d) = DirNodes /\ call # NoCall /\ DOMAIN call.home = Dirs
  BY Acting, NodeKinds, KindAssumption, CallIs DEF Calls
<1> DEFINE n == Node(IsDir)
<1>2. n \in DirNodes /\ n # Absent /\ n \in NodesOf(d) /\ Absent \in NodesOf(d)
  BY <1>1, NextNode, NodeKinds, CallIs DEF DiskTypes
<1>3. PutAt(d) /\ disk'[d] = n
  BY <1>1, <1>2, PutIs, CallIs
<1>4. Marked(d, Absent)
  BY <1>1, <1>2, MarkedIs, CallIs
<1>5. journal' = Recorded(journal, d, Absent, n)
  BY <1>3
<1>6. Logged(d)
  BY <1>1, <1>2, <1>5, LoggedIs, CallIs DEF Journaled, Inv, CallPart, TaskInv
<1>7. d \in DOMAIN ghost'.now /\ ghost'.now[d] = Absent
  BY <1>1, <1>4 DEF Marked, Inv, CallPart, TaskInv, JournalInv
<1>8. d \in DOMAIN journal.changes /\ d \notin journal.tainted => journal.changes[d].before = Absent
  <2> SUFFICES ASSUME d \in DOMAIN journal.changes, d \notin journal.tainted
               PROVE  journal.changes[d].before = Absent
    OBVIOUS
  <2>1. d \in DOMAIN ghost.now /\ ghost.now[d] = Absent /\ ~Unread(d)
    BY <1>1 DEF Inv, CallPart, TaskInv, JournalInv, Unread
  <2>2. Traced(d)
    BY <1>1, <2>1 DEF Inv, CallPart, TaskInv, TracedInv
  <2> QED BY <2>1, <2>2 DEF Traced, Filed, Base, FirstOf
<1>9. d \notin journal.tainted => FirstOf(d, Absent) = Absent
  BY <1>8 DEF FirstOf
<1> HIDE DEF n
<1>10. d \notin journal.tainted => Traced(d)'
  <2> SUFFICES ASSUME d \notin journal.tainted PROVE Traced(d)'
    OBVIOUS
  <2>1. Filed(d)'
    BY <1>1, <1>2, <1>5, <1>7, <1>9, FiledRecorded, CallIs
  <2>2. journal'.last[d] = n
    BY <1>1, <1>2, <1>5, RecordedIs, CallIs
  <2> QED BY <1>3, <2>1, <2>2 DEF Traced, Fresh
<1>11. d \notin journal.tainted => d \in DOMAIN journal'.changes
  BY <1>2, <1>3, <1>7, <1>10, RecordedIs, <1>1, <1>5, CallIs DEF Traced, Filed
<1>18. d \in journal'.tainted \/ Traced(d)'
  BY <1>6, <1>10 DEF Logged
<1> DEFINE dirs == call.dirs \ {d}
           home == [call.home EXCEPT ![d] = n]
           made == With(call.made, d, n)
<1>12. made \in Stored /\ DOMAIN made = DOMAIN call.made \cup {d}
       /\ \A e \in DOMAIN made : e \in Dirs /\ made[e] # Absent
  <2>1. made \in Stored
    BY <1>1, <1>2, StoredWith, CallIs
  <2>2. \A e \in DOMAIN call.made : e \in Dirs /\ call.made[e] # Absent
    BY CallIs DEF CallTypes
  <2>3. DOMAIN made = DOMAIN call.made \cup {d} /\ made[d] = n
        /\ \A e \in DOMAIN call.made : e # d => made[e] = call.made[e]
    BY DEF With
  <2> QED BY <1>1, <1>2, <2>1, <2>2, <2>3
<1>13. home \in Stored /\ DOMAIN home = Dirs /\ home[d] = n
       /\ \A e \in Dirs : e # d => home[e] = call.home[e]
  <2>1. call.home = [e \in Dirs |-> call.home[e]] /\ \A e \in Dirs : call.home[e] \in NodesOf(e)
    BY <1>1, StoredIs, CallIs
  <2>2. home = [e \in DOMAIN home |-> home[e]] /\ DOMAIN home = Dirs /\ home[d] = n
        /\ \A e \in Dirs : e # d => home[e] = call.home[e]
    BY <1>1, <2>1
  <2> HIDE DEF home
  <2>3. DOMAIN home \subseteq Paths /\ \A e \in DOMAIN home : home[e] \in NodesOf(e)
    BY <1>2, <2>1, <2>2, NodeKinds
  <2> QED BY <2>2, <2>3, StoredIs
<1>14. \/ call' = NoCall
       \/ \E s \in {"dirs", "check", "publish"} :
             /\ call' = [[[[call EXCEPT !.dirs = dirs] EXCEPT !.home = home] EXCEPT !.made = made]
                          EXCEPT !.step = s]
             /\ s = "dirs" <=> dirs # {}
             /\ s # "dirs" => call.tool # "mkdir"
  <2> DEFINE c == [[[call EXCEPT !.dirs = dirs] EXCEPT !.home = home] EXCEPT !.made = made]
  <2>1. c = [call EXCEPT !.dirs = @ \ {d}, !.home[d] = disk'[d], !.made = With(@, d, disk'[d])]
    BY <1>3, CallIs DEF Calls
  <2>2. c.dirs = dirs /\ c.tool = call.tool /\ c.step = "dirs" /\ c \in Calls
    <3>1. dirs \in SUBSET Dirs
      BY CallIs DEF Calls
    <3> HIDE DEF dirs, home, made
    <3> QED BY <1>12, <1>13, <3>1, CallIs DEF Calls
  <2>3. call' = IF c.dirs # {} THEN c ELSE IF c.tool = "mkdir" THEN NoCall ELSE Publishing(c)
    BY <2>1
  <2> HIDE DEF dirs, home, made
  <2>4. CASE dirs # {}
    <3>1. call' = c
      BY <2>2, <2>3, <2>4
    <3>2. c = [c EXCEPT !.step = "dirs"]
      BY <2>2 DEF Calls
    <3> QED BY <2>4, <3>1, <3>2
  <2>5. CASE dirs = {}
    <3>1. call' = IF c.tool = "mkdir" THEN NoCall ELSE Publishing(c)
      BY <2>2, <2>3, <2>5
    <3>2. c.tool # "mkdir" => call' = [c EXCEPT !.step = "check"] \/ call' = [c EXCEPT !.step = "publish"]
      BY <3>1 DEF Publishing
    <3> QED BY <2>2, <2>5, <3>1, <3>2
  <2> QED BY <2>4, <2>5
<1>15. /\ disk'[d] # Absent
       /\ d \notin DOMAIN ghost.now /\ Known(latest) /\ d \in DOMAIN ghost.kept \ SetPaths
             /\ ghost.author[d] # "other" => TextOf(Absent) = TextOf(ghost.kept[d])
       /\ Within(d)
  <2>1. Within(d)
    <3>1. Parent[d] # Root => call.home[Parent[d]] # Absent
      BY <1>1 DEF Inv, CallPart, Housed, Ahead
    <3> QED BY <3>1 DEF AtHome, Within
  <2>2. Known(latest) /\ d \in DOMAIN ghost.kept \ SetPaths /\ d \notin DOMAIN ghost.now
          /\ ghost.author[d] # "other" => TextOf(Absent) = TextOf(ghost.kept[d])
    BY <1>1 DEF Inv, SetPart, KeptInv
  <2> QED BY <1>2, <1>3, <2>1, <2>2
<1> HIDE DEF dirs, home, made
<1>16. CASE call' = NoCall
  <2>1. CallTypes'
    BY <1>16, NoCallIs, StoredEmpty DEF CallTypes
  <2> QED BY <1>1, <1>2, <1>3, <1>4, <1>6, <1>15, <1>16, <1>18, <2>1, NoCallPart, WriteFrame DEF AloneTodo
<1>17. ASSUME NEW s \in {"dirs", "check", "publish"},
              call' = [[[[call EXCEPT !.dirs = dirs] EXCEPT !.home = home] EXCEPT !.made = made]
                          EXCEPT !.step = s],
              s = "dirs" <=> dirs # {}, s # "dirs" => call.tool # "mkdir"
       PROVE  Inv'
  <2>1. /\ call' \in Calls /\ call'.step = s /\ call'.dirs = dirs /\ call'.home = home
        /\ call'.made = made /\ call'.todo = call.todo /\ call'.done = call.done
        /\ call'.was = call.was /\ call'.failed = call.failed /\ call'.tool = call.tool
    <3>1. dirs \in SUBSET Dirs
      BY CallIs DEF Calls, dirs
    <3> QED BY <1>12, <1>13, <1>17, <3>1, CallIs DEF Calls, Steps
  <2>2. /\ \A p \in Files : /\ disk'[p] = disk[p] /\ ghost'.author[p] = ghost.author[p]
                            /\ (p \in DOMAIN ghost'.now <=> p \in DOMAIN ghost.now)
                            /\ p \in DOMAIN ghost'.kept => p \in DOMAIN ghost.kept
        /\ \A p \in DOMAIN call.was : p \in Files
        /\ \A i \in DOMAIN call.todo : call.todo[i].path \in Files
        /\ \A i \in DOMAIN call.done : call.done[i].path \in Files
    BY <1>1, <1>3, <1>4, <1>6, DirectoryWrites
  <2>3. CallInv /\ call.done = <<>> /\ call.failed = {} /\ DOMAIN call'.done = {}
        /\ \A i \in DOMAIN call.todo : call.todo[i].before = Absent
    BY <2>1, EmptySeqs DEF Inv, CallPart, CallInv, Housed
  <2>4. CallTypes'
    BY <1>12, <1>13, <2>1, <2>2, NoCallIs, StoredEmpty DEF CallTypes
  <2>5. CallInv'
    <3>1. /\ s # "dirs" => call.todo # <<>> /\ dirs = {}
          /\ s = "dirs" => (call.todo = <<>> => call.tool = "mkdir" /\ dirs # {})
      BY <1>17, <2>3 DEF CallInv
    <3>2. Distinct(call'.todo) /\ Distinct(call'.done)
      BY <2>1, <2>3, EmptySeqs DEF CallInv
    <3>3. \A i \in DOMAIN call'.todo : call'.todo[i].path \in DOMAIN call'.was
                                     /\ call'.todo[i].before = call'.was[call'.todo[i].path]
      BY <2>1, <2>3, SMTT(30) DEF CallInv
    <3> QED BY <2>1, <2>3, <3>1, <3>2, <3>3 DEF CallInv
  <2>6. Watched'
    BY <2>1, <2>2 DEF Inv, CallPart, Watched, PathsOf
  <2>7. TodoInv'
    <3>1. call'.todo = call.todo /\ Ahead
      BY <2>1 DEF Ahead
    <3>2. \A i \in DOMAIN call'.todo : call'.todo[i].path # d
      BY <1>1, <2>2, <3>1
    <3> QED BY <1>1, <1>4, <1>6, <3>1, <3>2, TodoFrame
  <2>8. DoneInv'
    BY <2>1, <2>3 DEF DoneInv
  <2>9. Housed'
    <3>1. \A q \in PathsOf(call.todo) \cup dirs : Parent[q] # Root =>
              Parent[q] \in dirs \/ home[Parent[q]] # Absent
      <4> SUFFICES ASSUME NEW q \in PathsOf(call.todo) \cup dirs, Parent[q] # Root,
                          Parent[q] \notin dirs
                   PROVE  home[Parent[q]] # Absent
        OBVIOUS
      <4>1. q \in Paths
        <5>1. \A e \in call.dirs : e \in Paths
          BY NodeKinds, CallIs DEF Calls
        <5>2. \A e \in PathsOf(call.todo) : e \in Paths
          BY <2>2, NodeKinds DEF PathsOf
        <5> QED BY <5>1, <5>2 DEF dirs
      <4>2. Parent[q] \in Dirs
        BY <4>1, ParentAssumption
      <4>3. CASE Parent[q] = d
        BY <1>2, <1>13, <4>3
      <4>4. CASE Parent[q] # d
        <5>1. q \in PathsOf(call.todo) \cup call.dirs /\ Parent[q] \notin call.dirs
          BY <4>4 DEF dirs
        <5> QED BY <1>13, <4>2, <4>4, <5>1 DEF Inv, CallPart, Housed, Ahead
      <4> QED BY <4>3, <4>4
    <3> QED BY <2>1, <2>3, <3>1 DEF Housed
  <2>10. FoundInv'
    <3> SUFFICES ASSUME Known(latest), NEW i \in DOMAIN call.todo,
                        call.todo[i].path \in DOMAIN ghost'.kept \ DOMAIN ghost'.now,
                        call.todo[i].path \notin SetPaths
                 PROVE  \/ ghost'.author[call.todo[i].path] = "other"
                        \/ TextOf(call.todo[i].before) = TextOf(ghost'.kept[call.todo[i].path])
      BY <2>1, SMTT(30) DEF FoundInv, Known, SetPaths
    <3>1. \/ ghost.author[call.todo[i].path] = "other"
          \/ TextOf(call.todo[i].before) = TextOf(ghost.kept[call.todo[i].path])
      BY <2>2 DEF Inv, CallPart, FoundInv, Ahead
    <3> QED BY <1>4, <2>2, <3>1 DEF Marked
  <2>11. AloneTodo'
    BY <2>1, <2>3 DEF AloneTodo
  <2>12. DOMAIN call'.made \subseteq DOMAIN ghost'.now
         /\ DOMAIN call'.made \ journal'.tainted \subseteq DOMAIN journal'.changes
    BY <1>4, <1>6, <1>7, <1>11, <1>12, <2>1 DEF Inv, CallPart, TaskInv, JournalInv, Marked, Logged
  <2> QED BY <1>1, <1>2, <1>3, <1>4, <1>6, <1>15, <1>18, <2>1, <2>4, <2>5, <2>6, <2>7, <2>8, <2>9,
             <2>10, <2>11, <2>12, WriteFrame
<1> QED BY <1>14, <1>16, <1>17

\* A directory written or removed by a call that has failed, or fails with it.
LEMMA FailedWrite ==
    ASSUME Inv, call.step \in {"dirs", "undir"}, NEW d \in Dirs, PutAt(d), Marked(d, Absent),
           Logged(d), NEW m \in Stored, DOMAIN m \subseteq DOMAIN call.made,
           \A e \in DOMAIN m : m[e] = call.made[e],
           call' = [[call EXCEPT !.step = "undir"] EXCEPT !.made = m],
           UNCHANGED <<latest, undo, count>>,
           disk'[d] = Absent => Children(d) = {},
           disk'[d] # Absent => Within(d),
           d \in journal'.tainted \/ (Traced(d)' /\ d \notin DOMAIN m),
           d \notin DOMAIN ghost.now => disk[d] = Absent /\ disk'[d] # Absent
    PROVE  Inv'
<1>1. journal.active /\ call # NoCall /\ d \in Paths /\ Absent \in NodesOf(d)
  BY Acting, NodeKinds
<1>2. /\ call' \in Calls /\ call'.step = "undir" /\ call'.made = m /\ call'.todo = call.todo
      /\ call'.done = call.done /\ call'.was = call.was /\ call'.failed = call.failed
      /\ call'.home = call.home /\ call'.dirs = call.dirs
  BY CallIs DEF Calls, Steps
<1>3. /\ \A p \in Files : /\ disk'[p] = disk[p] /\ ghost'.author[p] = ghost.author[p]
                          /\ (p \in DOMAIN ghost'.now <=> p \in DOMAIN ghost.now)
                          /\ p \in DOMAIN ghost'.kept => p \in DOMAIN ghost.kept
      /\ \A p \in DOMAIN call.was : p \in Files
      /\ \A i \in DOMAIN call.todo : call.todo[i].path \in Files
      /\ \A i \in DOMAIN call.done : call.done[i].path \in Files
  BY DirectoryWrites
<1>4. CallTypes'
  <2>1. call' # NoCall /\ call'.step # "idle"
    BY <1>2, NoCallIs
  <2> QED BY <1>1, <1>2, <2>1, CallIs DEF CallTypes
<1>5. CallInv'
  BY <1>2, EmptySeqs DEF Inv, CallPart, CallInv, Distinct
<1>6. Watched'
  BY <1>2, <1>3 DEF Inv, CallPart, Watched, PathsOf
<1>7. ~Ahead'
  BY <1>2 DEF Ahead
<1>8. TodoInv' /\ Housed' /\ FoundInv' /\ AloneTodo'
  BY <1>2, <1>7 DEF TodoInv, Housed, FoundInv, AloneTodo
<1>9. DoneInv'
  <2> SUFFICES ASSUME NEW i \in DOMAIN call.done, NEW e, e = call.done[i]
               PROVE  /\ e.path \in DOMAIN ghost'.now
                      /\ \/ e.path \in journal'.tainted
                         \/ ghost'.now[e.path] # Absent => e.before # Absent
                      /\ \/ e.path \in journal'.tainted
                         \/ e.path \in DOMAIN journal'.last /\ journal'.last[e.path] = e.after
    BY <1>2 DEF DoneInv
  <2>1. e.path # d /\ e.path \in Files
    BY <1>1, <1>3, KindAssumption
  <2>2. /\ e.path \in DOMAIN ghost.now
        /\ \/ e.path \in journal.tainted
           \/ ghost.now[e.path] # Absent => e.before # Absent
        /\ \/ e.path \in journal.tainted
           \/ e.path \in DOMAIN journal.last /\ journal.last[e.path] = e.after
    BY DEF Inv, CallPart, TaskInv, DoneInv
  <2> QED BY <2>1, <2>2 DEF Marked, Logged
<1>10. /\ DOMAIN call'.made \subseteq DOMAIN ghost'.now
       /\ DOMAIN call'.made \ journal'.tainted \subseteq DOMAIN journal'.changes
  BY <1>2 DEF Inv, CallPart, TaskInv, JournalInv, Marked, Logged
<1>11. Known(latest) /\ d \in DOMAIN ghost.kept \ SetPaths /\ d \notin DOMAIN ghost.now
         /\ ghost.author[d] # "other" => TextOf(Absent) = TextOf(ghost.kept[d])
  BY <1>1 DEF Inv, SetPart, KeptInv
<1>12. d \in journal'.tainted \/ Traced(d)'
  OBVIOUS
<1> QED BY <1>1, <1>4, <1>5, <1>6, <1>8, <1>9, <1>10, <1>11, <1>12, WriteFrame

\* A failed call that writes nothing.
LEMMA FailedStep ==
    ASSUME Inv, call.step \in {"dirs", "undir"}, Doubted,
           NEW m \in Stored, DOMAIN m \subseteq DOMAIN call.made,
           \A e \in DOMAIN m : m[e] = call.made[e],
           call' = [[call EXCEPT !.step = "undir"] EXCEPT !.made = m],
           UNCHANGED <<disk, next, latest, undo, count, ghost>>
    PROVE  Inv'
<1>1. journal.active /\ call # NoCall
  BY Acting
<1>2. /\ call' \in Calls /\ call'.step = "undir" /\ call'.made = m /\ call'.todo = call.todo
      /\ call'.done = call.done /\ call'.was = call.was /\ call'.failed = call.failed
      /\ call'.home = call.home /\ call'.dirs = call.dirs
  BY CallIs DEF Calls, Steps
<1>3. CallTypes' /\ CountTypes'
  <2>1. call' # NoCall /\ call'.step # "idle"
    BY <1>2, NoCallIs
  <2> QED BY <1>1, <1>2, <2>1, CallIs DEF CallTypes, CountTypes
<1>4. CallInv'
  BY <1>2, EmptySeqs DEF Inv, CallPart, CallInv, Distinct
<1>5. Watched'
  BY <1>2 DEF Inv, CallPart, Watched, PathsOf
<1>6. TodoInv' /\ Housed' /\ FoundInv' /\ AloneTodo'
  BY <1>2 DEF TodoInv, Housed, FoundInv, AloneTodo, Ahead
<1>7. DoneInv'
  BY <1>2 DEF Inv, CallPart, TaskInv, DoneInv, Doubted
<1> QED BY <1>1, <1>2, <1>3, <1>4, <1>5, <1>6, <1>7, StillFrame DEF Unread

LEMMA MakeDirectoryStep == ASSUME NEW d \in Dirs PROVE Inv /\ MakeDirectory(d) => Inv'
<1> SUFFICES ASSUME Inv, MakeDirectory(d) PROVE Inv'
  OBVIOUS
<1>1. /\ call.step = "dirs" /\ d \in call.dirs /\ Parent[d] \notin call.dirs
      /\ UNCHANGED <<latest, undo, count>>
  BY DEF MakeDirectory
<1>2. /\ d \in Paths /\ journal \in Journals /\ call.made \in Stored /\ Absent \in NodesOf(d)
      /\ NodesOf(d) = DirNodes
  BY NodeKinds, CallIs
<1>3. [call EXCEPT !.step = "undir"] = [[call EXCEPT !.step = "undir"] EXCEPT !.made = call.made]
  BY CallIs DEF Calls
<1>4. CASE /\ AtHome(d) /\ disk[d] = Absent
           /\ Put(d, Node(IsDir))
           /\ ghost' = FirstWrote(ghost, d, Absent)
           /\ journal' = Recorded(journal, d, Absent, disk'[d])
           /\ LET c == [call EXCEPT !.dirs = @ \ {d}, !.home[d] = disk'[d],
                                    !.made = With(@, d, disk'[d])]
              IN call' = IF c.dirs # {} THEN c
                         ELSE IF c.tool = "mkdir" THEN NoCall ELSE Publishing(c)
  BY <1>1, <1>4, MadeStep
<1>5. CASE /\ AtHome(d) /\ UNCHANGED <<disk, next, ghost>>
           /\ journal' = Tainted(journal, d)
           /\ call' = [call EXCEPT !.step = "undir"]
  <2>1. Doubted
    BY <1>2, <1>5, DoubtedIs
  <2> QED BY <1>1, <1>2, <1>3, <1>5, <2>1, FailedStep
<1>6. CASE /\ AtHome(d) /\ disk[d] = Absent /\ Put(d, Node(IsDir))
           /\ ghost' = FirstWrote(ghost, d, Absent)
           /\ journal' = Tainted(journal, d)
           /\ call' = [call EXCEPT !.step = "undir"]
  <2>1. Node(IsDir) \in NodesOf(d) /\ Node(IsDir) # Absent
    BY <1>2, NextNode, CallIs DEF DiskTypes
  <2>2. PutAt(d) /\ disk'[d] # Absent
    BY <1>2, <1>6, <2>1, PutIs, CallIs
  <2>3. Marked(d, Absent)
    BY <1>2, <1>6, MarkedIs, CallIs
  <2>4. Logged(d) /\ d \in journal'.tainted
    BY <1>2, <1>6, LoggedIs, TaintedIs DEF Journaled, Inv, CallPart, TaskInv
  <2>5. Within(d)
    <3>1. Parent[d] # Root => call.home[Parent[d]] # Absent
      BY <1>1 DEF Inv, CallPart, Housed, Ahead
    <3> QED BY <1>6, <3>1 DEF AtHome, Within
  <2>6. call' = [[call EXCEPT !.step = "undir"] EXCEPT !.made = call.made]
    BY <1>3, <1>6
  <2> QED BY <1>1, <1>2, <1>6, <2>2, <2>3, <2>4, <2>5, <2>6, FailedWrite
<1>7. CASE /\ ~AtHome(d) /\ call' = [call EXCEPT !.step = "undir"]
           /\ UNCHANGED <<disk, next, journal, ghost>>
  <2>1. Doubted
    BY <1>2, <1>7, DoubtedIs
  <2> QED BY <1>1, <1>2, <1>3, <1>7, <2>1, FailedStep
<1> QED BY <1>4, <1>5, <1>6, <1>7 DEF MakeDirectory

LEMMA RemoveDirectoryStep == ASSUME NEW d \in Dirs PROVE Inv /\ RemoveDirectory(d) => Inv'
<1> SUFFICES ASSUME Inv, RemoveDirectory(d) PROVE Inv'
  OBVIOUS
<1> DEFINE m == Without(call.made, d)
<1>1. /\ call.step = "undir" /\ d \in DOMAIN call.made /\ call' = [call EXCEPT !.made = m]
      /\ UNCHANGED <<next, latest, undo, count>>
  BY DEF RemoveDirectory
<1>2. /\ d \in Paths /\ journal \in Journals /\ call.made \in Stored /\ Absent \in NodesOf(d)
      /\ call.made[d] \in NodesOf(d) /\ journal.active
  BY <1>1, Acting, NodeKinds, CallIs, StoredIs
<1>3. m \in Stored /\ DOMAIN m = DOMAIN call.made \ {d} /\ \A e \in DOMAIN m : m[e] = call.made[e]
  <2>1. m \in Stored
    BY <1>2, StoredRestrict DEF Without
  <2> QED BY <2>1, RestrictIs DEF Without
<1> HIDE DEF m
<1>4. call' = [[call EXCEPT !.step = "undir"] EXCEPT !.made = m]
  BY <1>1, CallIs DEF Calls
<1>5. CASE journal' = Tainted(journal, d) /\ UNCHANGED <<disk, ghost>>
  <2>1. Doubted
    BY <1>2, <1>5, DoubtedIs
  <2> QED BY <1>1, <1>3, <1>4, <1>5, <2>1, FailedStep
<1>6. CASE /\ disk[d] = call.made[d] /\ Children(d) = {}
           /\ disk' = [disk EXCEPT ![d] = Absent]
           /\ journal' = Recorded(journal, d, call.made[d], Absent)
           /\ ghost' = Wrote(ghost, d)
  <2>1. PutAt(d) /\ disk'[d] = Absent
    BY <1>1, <1>2, <1>6, SetAtIs, CallIs
  <2>2. d \in DOMAIN ghost.now /\ ghost.now[d] = Absent
    BY <1>1, <1>2 DEF Inv, CallPart, TaskInv, JournalInv
  <2>3. Marked(d, Absent) /\ ghost'.now = ghost.now
    BY <1>2, <1>6, <2>2, MarkedIs, WroteIs, CallIs
  <2>4. Logged(d)
    BY <1>2, <1>6, LoggedIs DEF Journaled, Inv, CallPart, TaskInv
  <2>5. d \in journal'.tainted \/ Traced(d)'
    <3> SUFFICES ASSUME d \notin journal.tainted PROVE Traced(d)'
      BY <2>4 DEF Logged
    <3>1. Traced(d) /\ d \in DOMAIN journal.changes
      BY <1>1, <1>2, <2>2 DEF Inv, CallPart, TaskInv, TracedInv, JournalInv, Unread
    <3>2. FirstOf(d, call.made[d]) = Absent
      BY <2>2, <3>1 DEF Traced, Filed, Base, FirstOf
    <3>3. Filed(d)'
      BY <1>2, <1>6, <2>2, <2>3, <3>2, FiledRecorded
    <3>4. journal'.last[d] = Absent
      BY <1>2, <1>6, RecordedIs
    <3> QED BY <2>1, <3>3, <3>4 DEF Traced, Fresh
  <2>6. d \notin DOMAIN m
    BY <1>3
  <2> QED BY <1>1, <1>3, <1>4, <1>6, <2>1, <2>2, <2>3, <2>4, <2>5, <2>6, FailedWrite
<1> QED BY <1>5, <1>6 DEF RemoveDirectory
-----------------------------------------------------------------------------
(***************************************************************************)
(* Files of a call                                                         *)
(***************************************************************************)
\* What is done already and not about p.
LEMMA DoneFrame ==
    ASSUME Inv, NEW p \in Paths, NEW b, Marked(p, b), Logged(p),
           NEW i \in DOMAIN call.done, NEW e, e = call.done[i], e.path # p,
           call.step = "verify" => i # Len(call.done)
    PROVE  /\ e.path \in DOMAIN ghost'.now
           /\ \/ e.path \in journal'.tainted
              \/ ghost'.now[e.path] # Absent => e.before # Absent
           /\ \/ e.path \in journal'.tainted
              \/ e.path \in DOMAIN journal'.last /\ journal'.last[e.path] = e.after
<1>1. /\ e.path \in DOMAIN ghost.now
      /\ \/ e.path \in journal.tainted
         \/ ghost.now[e.path] # Absent => e.before # Absent
      /\ \/ e.path \in journal.tainted
         \/ e.path \in DOMAIN journal.last /\ journal.last[e.path] = e.after
  BY DEF Inv, CallPart, TaskInv, DoneInv
<1> QED BY <1>1 DEF Marked, Logged

LEMMA AppendIs ==
    ASSUME NEW S, NEW s \in Seq(S), NEW e \in S
    PROVE  /\ Append(s, e) \in Seq(S) /\ Len(Append(s, e)) = Len(s) + 1
           /\ DOMAIN Append(s, e) = DOMAIN s \cup {Len(s) + 1}
           /\ Append(s, e)[Len(s) + 1] = e /\ Append(s, e) # <<>>
           /\ \A i \in DOMAIN s : Append(s, e)[i] = s[i] /\ i # Len(s) + 1
           /\ Len(s) \in Nat /\ DOMAIN s = 1..Len(s)
OBVIOUS

LEMMA FrontIs ==
    ASSUME NEW S, NEW s \in Seq(S), s # <<>>
    PROVE  /\ SubSeq(s, 1, Len(s) - 1) \in Seq(S) /\ Len(s) \in DOMAIN s /\ s[Len(s)] \in S
           /\ DOMAIN SubSeq(s, 1, Len(s) - 1) = DOMAIN s \ {Len(s)}
           /\ \A i \in DOMAIN s : i # Len(s) => SubSeq(s, 1, Len(s) - 1)[i] = s[i]
<1>1. Len(s) \in Nat /\ Len(s) > 0 /\ DOMAIN s = 1..Len(s)
  OBVIOUS
<1>2. /\ SubSeq(s, 1, Len(s) - 1) \in Seq(S) /\ Len(SubSeq(s, 1, Len(s) - 1)) = Len(s) - 1
      /\ \A i \in 1..(Len(s) - 1) : SubSeq(s, 1, Len(s) - 1)[i] = s[i]
  BY <1>1
<1>3. DOMAIN SubSeq(s, 1, Len(s) - 1) = 1..(Len(s) - 1)
  BY <1>2
<1> QED BY <1>1, <1>2, <1>3

LEMMA TailIs ==
    ASSUME NEW S, NEW s \in Seq(S), s # <<>>
    PROVE  /\ Tail(s) \in Seq(S) /\ 1 \in DOMAIN s
           /\ \A i \in DOMAIN Tail(s) : /\ i + 1 \in DOMAIN s /\ Tail(s)[i] = s[i + 1]
                                        /\ i + 1 # 1 /\ i \in Nat
<1>1. Tail(s) \in Seq(S) /\ Len(Tail(s)) = Len(s) - 1 /\ Len(s) \in Nat /\ Len(s) > 0
  OBVIOUS
<1>2. DOMAIN Tail(s) = 1..(Len(s) - 1) /\ DOMAIN s = 1..Len(s)
  BY <1>1
<1>3. \A i \in 1..(Len(s) - 1) : Tail(s)[i] = s[i + 1]
  BY <1>1
<1> QED BY <1>1, <1>2, <1>3

LEMMA PublishedStep ==
    ASSUME Inv, call.step = "publish", NEW t, t = Head(call.todo),
           AtHome(t.path), Put(t.path, Node(t.text)),
           call' = [call EXCEPT !.step = "verify",
                        !.done = Append(@, [path |-> t.path, before |-> t.before,
                                            after |-> Node(t.text)])],
           ghost' = FirstWrote(ghost, t.path, t.before),
           UNCHANGED <<journal, latest, undo, count>>
    PROVE  Inv'
<1> DEFINE p == t.path
           n == Node(t.text)
           e == [path |-> p, before |-> t.before, after |-> n]
           d == Append(call.done, e)
<1>1. /\ t \in Targets /\ t = call.todo[1] /\ 1 \in DOMAIN call.todo /\ p \in Files /\ p \in Paths
      /\ NodesOf(p) = FileNodes /\ p \notin Dirs /\ journal.active /\ call # NoCall
      /\ DOMAIN call.home = Dirs
  BY HeadIs, Acting, NodeKinds
<1>2. n \in FileNodes /\ n # Absent /\ t.before \in FileNodes
  BY <1>1, NextNode, CallIs DEF Targets, DiskTypes
<1>3. PutAt(p) /\ disk'[p] = n
  BY <1>1, <1>2, PutIs, CallIs
<1>4. Marked(p, t.before)
  BY <1>1, <1>2, MarkedIs, CallIs
<1>5. Logged(p)
  BY <1>1, LoggedIs, CallIs DEF Journaled, Inv, CallPart, TaskInv
<1>6. e \in Entries
  BY <1>1, <1>2 DEF Entries
<1>7. e.path = p /\ e.before = t.before /\ e.after = n
  OBVIOUS
<1>8. call' = [[call EXCEPT !.step = "verify"] EXCEPT !.done = d]
  BY DEF d
<1> HIDE DEF e, n
<1>9. /\ d \in Seq(Entries) /\ Len(d) = Len(call.done) + 1
      /\ DOMAIN d = DOMAIN call.done \cup {Len(d)}
      /\ d[Len(d)] = e /\ d # <<>>
      /\ \A i \in DOMAIN call.done : d[i] = call.done[i] /\ i # Len(d)
  BY <1>6, AppendIs, CallIs
<1> HIDE DEF d
<1>10. /\ call' \in Calls /\ call'.step = "verify" /\ call'.done = d /\ call'.todo = call.todo
       /\ call'.made = call.made /\ call'.was = call.was /\ call'.failed = call.failed
       /\ call'.home = call.home /\ call'.dirs = call.dirs /\ call'.tool = call.tool
  BY <1>8, <1>9, CallIs DEF Calls, Steps
<1>11. /\ CallInv /\ call.dirs = {} /\ call.todo # <<>>
       /\ \A i, k \in DOMAIN call.todo : call.todo[i].path = call.todo[k].path => i = k
       /\ \A i, k \in DOMAIN call.done : call.done[i].path = call.done[k].path => i = k
       /\ \A i \in DOMAIN call.done, k \in DOMAIN call.todo : call.done[i].path # call.todo[k].path
       /\ \A i \in DOMAIN call.done : call.done[i].path # p
  BY <1>1 DEF Inv, CallPart, CallInv, Distinct
<1>12. CallTypes'
  BY <1>1, <1>10, CallIs, NoCallIs, ZenonT(40) DEF CallTypes
<1>13. CallInv'
  <2>1. Distinct(d)
    BY <1>7, <1>9, <1>11 DEF Distinct
  <2>2. \A i \in DOMAIN d, k \in DOMAIN call.todo :
            d[i].path # call.todo[k].path \/ (i = Len(d) /\ k = 1)
    BY <1>1, <1>7, <1>9, <1>11
  <2>3. \A i \in DOMAIN d : d[i].path \in DOMAIN call.was /\ d[i].before = call.was[d[i].path]
    BY <1>1, <1>7, <1>9, <1>11 DEF CallInv
  <2>4. LastDone' = e
    BY <1>9, <1>10 DEF LastDone
  <2>5. Distinct(call'.todo) /\ Distinct(call'.done)
    BY <1>10, <1>11, <2>1 DEF Distinct
  <2>6. /\ \A i \in DOMAIN call'.todo : call'.todo[i].path \in DOMAIN call'.was
                                     /\ call'.todo[i].before = call'.was[call'.todo[i].path]
        /\ \A i \in DOMAIN call'.done : call'.done[i].path \in DOMAIN call'.was
                                     /\ call'.done[i].before = call'.was[call'.done[i].path]
    <3>1. \A i \in DOMAIN call.todo : call.todo[i].path \in DOMAIN call.was
                                     /\ call.todo[i].before = call.was[call.todo[i].path]
      BY <1>11 DEF CallInv
    <3>2. call'.todo = call.todo /\ call'.done = d /\ call'.was = call.was
      BY <1>10
    <3> QED BY <2>3, <3>1, <3>2
  <2>7. \A i \in DOMAIN call'.done, j \in DOMAIN call'.todo :
            call'.done[i].path # call'.todo[j].path \/ (i = Len(call'.done) /\ j = 1)
    BY <1>10, <2>2
  <2>8. /\ call'.step = "verify" /\ call'.todo # <<>> /\ call'.dirs = {} /\ call'.done # <<>>
        /\ LastDone'.path = call'.todo[1].path /\ LastDone'.before = call'.todo[1].before
    BY <1>1, <1>7, <1>9, <1>10, <1>11, <2>4
  <2> QED BY <2>5, <2>6, <2>7, <2>8 DEF CallInv
<1>14. LastDone'.path = p /\ Unread(p)'
  BY <1>7, <1>9, <1>10 DEF LastDone, Unread
<1>15. \A q \in Files : q # p => /\ disk'[q] = disk[q] /\ ghost'.author[q] = ghost.author[q]
                                 /\ (q \in DOMAIN ghost'.now <=> q \in DOMAIN ghost.now)
  <2> SUFFICES ASSUME NEW q \in Files, q # p
               PROVE  /\ disk'[q] = disk[q] /\ ghost'.author[q] = ghost.author[q]
                      /\ (q \in DOMAIN ghost'.now <=> q \in DOMAIN ghost.now)
    OBVIOUS
  <2>1. q \in Paths
    BY NodeKinds
  <2>2. ghost'.author[q] = ghost.author[q]
    BY <1>1, <1>4, <2>1, MarkedAuthor, CallIs
  <2> QED BY <1>3, <1>4, <2>1, <2>2 DEF PutAt, Marked
<1>16. Watched'
  <2> SUFFICES ASSUME NEW q \in DOMAIN call.was, q \notin call.failed, q \notin PathsOf(d),
                      ghost'.author[q] # "other"
               PROVE  TextOf(disk'[q]) = TextOf(call.was[q])
    BY <1>10 DEF Watched
  <2>1. q # p /\ q \notin PathsOf(call.done) /\ q \in Files
    <3>1. p \in PathsOf(d) /\ \A i \in DOMAIN call.done : call.done[i].path \in PathsOf(d)
      BY <1>7, <1>9 DEF PathsOf
    <3> QED BY <3>1, CallIs DEF CallTypes, PathsOf
  <2> QED BY <1>15, <2>1 DEF Inv, CallPart, Watched
<1>17. TodoInv'
  <2>1. ASSUME NEW k \in DOMAIN call.todo, call.todo[k].path = p
        PROVE  p \in journal'.tainted \/ Expected(p, t.before)'
    <3>1. CASE p \in DOMAIN ghost.now
      <4>1. p \in journal.tainted \/ Expected(p, t.before)
        BY <1>1, <3>1 DEF Inv, CallPart, TaskInv, TodoInv, Ahead
      <4> QED BY <1>1, <1>4, <3>1, <4>1 DEF Expected, Base, FirstOf, Marked
    <3>2. CASE p \notin DOMAIN ghost.now
      <4>1. p \notin DOMAIN journal'.changes
        BY <3>2 DEF Inv, CallPart, TaskInv, JournalInv
      <4> QED BY <1>1, <1>4, <3>2, <4>1 DEF Expected, Base, FirstOf, Marked
    <3> QED BY <3>1, <3>2
  <2>2. \A k \in DOMAIN call'.todo : call'.todo[k].path = p =>
            p \in journal'.tainted \/ Expected(p, call.todo[k].before)'
    <3> SUFFICES ASSUME NEW k \in DOMAIN call'.todo, call'.todo[k].path = p, NEW c,
                        c = call'.todo[k].before
                 PROVE  p \in journal'.tainted \/ Expected(p, c)'
      BY DEF Expected, Base, FirstOf
    <3>1. k = 1 /\ c = t.before
      BY <1>1, <1>10, <1>11
    <3> QED BY <1>1, <1>10, <2>1, <3>1
  <2> QED BY <1>1, <1>4, <1>5, <1>10, <2>2, TodoFrame DEF Ahead
<1>18. DoneInv'
  <2> SUFFICES ASSUME NEW i \in DOMAIN d, NEW c, c = d[i]
               PROVE  /\ c.path \in DOMAIN ghost'.now
                      /\ \/ c.path \in journal'.tainted
                         \/ ghost'.now[c.path] # Absent => c.before # Absent
                      /\ \/ c.path \in journal'.tainted
                         \/ i = Len(d)
                         \/ c.path \in DOMAIN journal'.last /\ journal'.last[c.path] = c.after
    BY <1>10 DEF DoneInv
  <2>1. CASE i = Len(d)
    <3>1. c.path = p /\ c.before = t.before
      BY <1>7, <1>9, <2>1
    <3>2. p \in DOMAIN ghost'.now /\ (p \in journal'.tainted \/ (ghost'.now[p] # Absent => t.before # Absent))
      <4>1. p \in DOMAIN ghost.now => p \in journal.tainted \/ Expected(p, t.before)
        BY <1>1 DEF Inv, CallPart, TaskInv, TodoInv, Ahead
      <4> QED BY <4>1, <1>4 DEF Expected, Marked
    <3> QED BY <2>1, <3>1, <3>2
  <2>2. CASE i # Len(d)
    <3>1. i \in DOMAIN call.done /\ c = call.done[i] /\ c.path # p
      BY <1>9, <1>11, <2>2
    <3> QED BY <1>1, <1>4, <1>5, <3>1, DoneFrame, SMTT(30)
  <2> QED BY <2>1, <2>2
<1>19. Housed'
  BY <1>10 DEF Inv, CallPart, Housed, Ahead
<1>20. FoundInv'
  <2> SUFFICES ASSUME Known(latest), NEW i \in DOMAIN call.todo, NEW q, q = call.todo[i].path,
                      q \in DOMAIN ghost'.kept \ DOMAIN ghost'.now, q \notin SetPaths
               PROVE  ghost'.author[q] = "other" \/ TextOf(call.todo[i].before) = TextOf(ghost'.kept[q])
    <3>1. call'.todo = call.todo /\ latest' = latest
      BY <1>10
    <3> QED BY <3>1, SMTT(30) DEF FoundInv, Known, SetPaths
  <2>1. q # p /\ q \in DOMAIN ghost.kept \ DOMAIN ghost.now /\ ghost'.kept[q] = ghost.kept[q]
        /\ q \in Files
    BY <1>4, CallIs DEF Marked, Targets
  <2>2. ghost.author[q] = "other" \/ TextOf(call.todo[i].before) = TextOf(ghost.kept[q])
    BY <2>1 DEF Inv, CallPart, FoundInv, Ahead
  <2> QED BY <1>15, <2>1, <2>2
<1>21. AloneTodo'
  <2> SUFFICES ASSUME ghost.fresh = {}, NEW i \in DOMAIN call.todo, NEW q, q = call.todo[i].path,
                      q \notin DOMAIN ghost'.now, Parent[q] \in DOMAIN ghost'.now
               PROVE  call.todo[i].before = Absent
    <3>1. call'.todo = call.todo /\ ghost'.fresh = ghost.fresh
      BY <1>4, <1>10 DEF Marked
    <3> QED BY <3>1 DEF AloneTodo
  <2>1. q \in Paths /\ q \notin DOMAIN ghost.now /\ Parent[q] # p
    <3>1. q \in Paths
      BY CallIs, NodeKinds DEF Targets
    <3>2. Parent[q] \in Dirs \cup {Root}
      BY <3>1, ParentAssumption
    <3>3. Parent[q] # p
      BY <1>1, <3>2, ParentAssumption
    <3>4. q \notin DOMAIN ghost.now
      BY <1>4 DEF Marked
    <3> QED BY <3>1, <3>3, <3>4
  <2>2. Parent[q] \in DOMAIN ghost.now
    BY <1>4, <2>1 DEF Marked
  <2> QED BY <1>1, <2>1, <2>2 DEF Inv, CallPart, Alone, Ahead
<1>22. /\ DOMAIN call'.made \subseteq DOMAIN ghost'.now
       /\ DOMAIN call'.made \ journal'.tainted \subseteq DOMAIN journal'.changes
  BY <1>4, <1>10 DEF Inv, CallPart, TaskInv, JournalInv, Marked
<1>23. Within(p)
  <2>1. p \in PathsOf(call.todo)
    BY <1>1 DEF PathsOf
  <2>2. Parent[p] # Root => call.home[Parent[p]] # Absent
    BY <1>11, <2>1 DEF Inv, CallPart, Housed, Ahead
  <2> QED BY <2>2 DEF AtHome, Within
<1>24. p \notin DOMAIN ghost.now =>
          /\ ghost.fresh = {} /\ Parent[p] \in DOMAIN ghost.now => t.before = Absent
          /\ Known(latest) /\ p \in DOMAIN ghost.kept \ SetPaths /\ ghost.author[p] # "other"
                => TextOf(t.before) = TextOf(ghost.kept[p])
  BY <1>1 DEF Inv, CallPart, Alone, FoundInv, Ahead
<1> HIDE DEF p
<1> QED BY <1>1, <1>2, <1>3, <1>4, <1>5, <1>12, <1>13, <1>14, <1>16, <1>17, <1>18, <1>19, <1>20,
           <1>21, <1>22, <1>23, <1>24, WriteFrame

LEMMA PublishStep == Inv /\ Publish => Inv'
<1> SUFFICES ASSUME Inv, Publish PROVE Inv'
  OBVIOUS
<1>1. call.step = "publish" /\ UNCHANGED <<journal, latest, undo, count>>
  BY DEF Publish
<1>2. CASE call' = Unpublished /\ UNCHANGED <<disk, next, ghost>>
  <2>1. PICK s \in {"back", "undir"} : call' = [call EXCEPT !.step = s]
    BY <1>2 DEF Unpublished
  <2>2. Doubted
    BY <1>1, DoubtedIs, CallIs
  <2> QED BY <1>1, <1>2, <2>1, <2>2, MoveOn
<1> DEFINE t == Head(call.todo)
<1>3. CASE /\ AtHome(t.path) /\ (t.before = Absent => disk[t.path] = Absent)
           /\ Put(t.path, Node(t.text))
           /\ call' = [call EXCEPT !.step = "verify",
                        !.done = Append(@, [path |-> t.path, before |-> t.before,
                                            after |-> Node(t.text)])]
           /\ ghost' = FirstWrote(ghost, t.path, t.before)
  <2> HIDE DEF t
  <2> QED BY <1>1, <1>3, PublishedStep DEF t
<1> QED BY <1>2, <1>3 DEF Publish

LEMMA ReadStep ==
    ASSUME Inv, call.step = "verify", NEW p, p = LastDone.path, Journaled(p),
           \/ p \in journal'.tainted
           \/ Traced(p)' /\ journal'.last[p] = LastDone.after,
           UNCHANGED <<disk, next, latest, undo, count, ghost>>,
           \/ call' = NoCall
           \/ call' = [[call EXCEPT !.todo = Tail(call.todo)] EXCEPT !.step = "check"]
              /\ Tail(call.todo) # <<>>
           \/ call' = [call EXCEPT !.step = "back"]
    PROVE  Inv'
<1> DEFINE e == LastDone
<1>1. /\ journal.active /\ call # NoCall /\ DOMAIN call.home = Dirs /\ CallInv
      /\ call.done # <<>> /\ call.todo # <<>> /\ p = call.todo[1].path /\ e.before = call.todo[1].before
      /\ call.dirs = {}
  BY Acting DEF Inv, CallPart, CallInv
<1>2. /\ Len(call.done) \in DOMAIN call.done /\ e = call.done[Len(call.done)] /\ e \in Entries
      /\ p \in Files /\ p \in Paths /\ p \notin Dirs /\ e.before \in NodesOf(p)
  <2>1. /\ Len(call.done) \in DOMAIN call.done /\ call.done[Len(call.done)] \in Entries
    BY <1>1, FrontIs, CallIs
  <2> QED BY <2>1, NodeKinds DEF Entries, LastDone
<1>3. Logged(p)
  BY <1>2, LoggedIs, CallIs DEF Inv, CallPart, TaskInv
<1>4. p \in DOMAIN ghost.now
  BY <1>1, <1>2 DEF Inv, CallPart, TaskInv, DoneInv
<1>5. Marked(p, e.before)
  BY <1>2, <1>4, MarkedIs, CallIs
<1>6. PutAt(p)
  BY <1>2, CallIs DEF PutAt, DiskTypes
<1>7. p \in journal'.tainted \/ Traced(p)'
  OBVIOUS
<1>8. disk'[p] # Absent => Within(p)
  BY <1>2 DEF Inv, Tree, Within
<1> HIDE DEF e
<1>9. CASE call' = NoCall
  <2>1. CallTypes'
    BY <1>9, NoCallIs, StoredEmpty DEF CallTypes
  <2>2. /\ CallInv' /\ Watched' /\ TodoInv' /\ DoneInv' /\ Housed' /\ FoundInv' /\ AloneTodo'
        /\ DOMAIN call'.made = {}
    BY <1>9, NoCallPart DEF AloneTodo
  <2> QED BY <1>1, <1>2, <1>3, <1>4, <1>5, <1>6, <1>7, <1>8, <2>1, <2>2, WriteFrame
<1>10. ASSUME NEW s \in {"check", "back"}, NEW td \in Seq(Targets),
              call' = [[call EXCEPT !.todo = td] EXCEPT !.step = s],
              s = "check" => td # <<>> /\ td = Tail(call.todo),
              s = "back" => td = call.todo
       PROVE  Inv'
  <2>1. /\ call' \in Calls /\ call'.step = s /\ call'.todo = td /\ call'.done = call.done
        /\ call'.made = call.made /\ call'.was = call.was /\ call'.failed = call.failed
        /\ call'.home = call.home /\ call'.dirs = call.dirs /\ call'.tool = call.tool
    BY <1>10, CallIs DEF Calls, Steps
  <2>2. \A i \in DOMAIN td : \E k \in DOMAIN call.todo :
            td[i] = call.todo[k] /\ (s = "check" => k # 1 /\ k = i + 1 /\ i \in Nat)
    <3>1. CASE s = "back"
      BY <1>10, <3>1
    <3>2. CASE s = "check"
      <4>1. td = Tail(call.todo) /\ \A i \in DOMAIN Tail(call.todo) :
               /\ i + 1 \in DOMAIN call.todo /\ Tail(call.todo)[i] = call.todo[i + 1]
               /\ i + 1 # 1 /\ i \in Nat
        BY <1>1, <1>10, <3>2, TailIs, CallIs
      <4> QED BY <4>1
    <3> QED BY <3>1, <3>2
  <2>3. /\ \A i, k \in DOMAIN call.todo : call.todo[i].path = call.todo[k].path => i = k
        /\ \A i, k \in DOMAIN call.done : call.done[i].path = call.done[k].path => i = k
        /\ \A i \in DOMAIN call.done, k \in DOMAIN call.todo : k # 1 =>
              call.done[i].path # call.todo[k].path
        /\ 1 \in DOMAIN call.todo
    BY <1>1, HeadIs DEF CallInv, Distinct
  <2>4. CallTypes'
    BY <1>1, <2>1, CallIs, NoCallIs DEF CallTypes
  <2>5. CallInv'
    <3>1. Distinct(call'.todo) /\ Distinct(call'.done)
      <4>1. CASE s = "back"
        BY <1>1, <1>10, <2>1, <4>1 DEF CallInv
      <4>2. CASE s = "check"
        <5>1. ASSUME NEW i \in DOMAIN td, NEW j \in DOMAIN td, td[i].path = td[j].path PROVE i = j
          <6>1. /\ i \in Nat /\ j \in Nat /\ i + 1 \in DOMAIN call.todo /\ j + 1 \in DOMAIN call.todo
                /\ td[i] = call.todo[i + 1] /\ td[j] = call.todo[j + 1]
            BY <2>2, <4>2
          <6>2. i + 1 = j + 1
            BY <2>3, <5>1, <6>1
          <6> QED BY <6>1, <6>2
        <5> QED BY <1>1, <2>1, <5>1 DEF CallInv, Distinct
      <4> QED BY <4>1, <4>2
    <3>2. /\ \A i \in DOMAIN td : td[i].path \in DOMAIN call.was
                               /\ td[i].before = call.was[td[i].path]
          /\ \A i \in DOMAIN call.done : call.done[i].path \in DOMAIN call.was
                               /\ call.done[i].before = call.was[call.done[i].path]
      BY <1>1, <2>2 DEF CallInv
    <3>3. s # "back" => \A i \in DOMAIN call.done, j \in DOMAIN td : call.done[i].path # td[j].path
      BY <2>2, <2>3
    <3>4. s = "check" => td # <<>>
      BY <1>10
    <3> QED BY <1>1, <2>1, <3>1, <3>2, <3>3, <3>4 DEF CallInv
  <2>6. Watched'
    BY <2>1 DEF Inv, CallPart, Watched, PathsOf
  <2>7. TodoInv'
    <3>1. CASE s = "back"
      BY <2>1, <3>1 DEF TodoInv, Ahead
    <3>2. CASE s = "check"
      <4>1. Ahead /\ \A i \in DOMAIN call'.todo : \E k \in DOMAIN call.todo : call'.todo[i] = call.todo[k]
        BY <2>1, <2>2 DEF Ahead
      <4>2. \A i \in DOMAIN call'.todo : call'.todo[i].path # p
        BY <1>1, <2>1, <2>2, <2>3, <3>2
      <4> QED BY <1>2, <1>3, <1>5, <4>1, <4>2, TodoFrame
    <3> QED BY <3>1, <3>2
  <2>8. DoneInv'
    <3> SUFFICES ASSUME NEW i \in DOMAIN call.done, NEW c, c = call.done[i]
                 PROVE  /\ c.path \in DOMAIN ghost'.now
                        /\ \/ c.path \in journal'.tainted
                           \/ ghost'.now[c.path] # Absent => c.before # Absent
                        /\ \/ c.path \in journal'.tainted
                           \/ c.path \in DOMAIN journal'.last /\ journal'.last[c.path] = c.after
      BY <2>1 DEF DoneInv
    <3>1. CASE i = Len(call.done)
      <4>1. c = e /\ c.path = p
        BY <3>1 DEF e, LastDone
      <4>2. p \in journal.tainted \/ (ghost.now[p] # Absent => e.before # Absent)
        BY <1>2, <4>1 DEF Inv, CallPart, TaskInv, DoneInv, e
      <4>3. p \in journal'.tainted \/ (p \in DOMAIN journal'.last /\ journal'.last[p] = e.after)
        BY DEF Traced, Filed, e
      <4>4. journal.tainted \subseteq journal'.tainted
        BY <1>3 DEF Logged
      <4> QED BY <1>4, <4>1, <4>2, <4>3, <4>4
    <3>2. CASE i # Len(call.done)
      <4>1. c.path # p
        BY <1>2, <2>3, <3>2 DEF e
      <4> QED BY <1>2, <1>3, <1>5, <3>2, <4>1, DoneFrame
    <3> QED BY <3>1, <3>2
  <2>9. Housed'
    <3>1. \A q \in PathsOf(td) : q \in PathsOf(call.todo)
      BY <2>2 DEF PathsOf
    <3> QED BY <1>1, <2>1, <3>1 DEF Inv, CallPart, Housed, Ahead
  <2>10. FoundInv'
    <3>1. latest' = latest /\ ghost' = ghost /\ call'.todo = td /\ Ahead
      BY <2>1 DEF Ahead
    <3> QED BY <2>2, <3>1 DEF Inv, CallPart, FoundInv, Known, SetPaths
  <2>11. AloneTodo'
    <3>1. ghost' = ghost /\ call'.todo = td /\ Ahead
      BY <2>1 DEF Ahead
    <3> QED BY <1>1, <2>2, <3>1 DEF Inv, CallPart, Alone, AloneTodo
  <2>12. /\ DOMAIN call'.made \subseteq DOMAIN ghost'.now
         /\ DOMAIN call'.made \ journal'.tainted \subseteq DOMAIN journal'.changes
    <3>1. \A d \in DOMAIN call.made : d \in Dirs /\ d # p
      BY <1>2, CallIs DEF CallTypes
    <3> QED BY <1>3, <2>1, <3>1 DEF Inv, CallPart, TaskInv, JournalInv, Logged
  <2> QED BY <1>1, <1>2, <1>3, <1>4, <1>5, <1>6, <1>7, <1>8, <2>4, <2>5, <2>6, <2>7, <2>8, <2>9,
             <2>10, <2>11, <2>12, WriteFrame
<1>11. CASE call' = [[call EXCEPT !.todo = Tail(call.todo)] EXCEPT !.step = "check"]
            /\ Tail(call.todo) # <<>>
  <2>1. Tail(call.todo) \in Seq(Targets)
    BY <1>1, TailIs, CallIs
  <2> QED BY <1>10, <1>11, <2>1
<1>12. CASE call' = [call EXCEPT !.step = "back"]
  <2>1. call' = [[call EXCEPT !.todo = call.todo] EXCEPT !.step = "back"]
    BY <1>12, CallIs DEF Calls
  <2> QED BY <1>10, <2>1, CallIs
<1> QED BY <1>9, <1>11, <1>12

LEMMA VerifyStep == Inv /\ Verify => Inv'
<1> SUFFICES ASSUME Inv, Verify PROVE Inv'
  OBVIOUS
<1> PICK e, p : e = LastDone /\ p = e.path
  OBVIOUS
<1>1. call.step = "verify" /\ UNCHANGED <<disk, next, latest, undo, count, ghost>>
  BY DEF Verify
<1>2. /\ journal.active /\ CallInv /\ call.done # <<>> /\ call.todo # <<>>
      /\ p = call.todo[1].path /\ e.before = call.todo[1].before
  BY <1>1, Acting DEF Inv, CallPart, CallInv
<1>3. /\ Len(call.done) \in DOMAIN call.done /\ e \in Entries
      /\ p \in Files /\ p \in Paths /\ e.before \in NodesOf(p) /\ e.after \in NodesOf(p)
      /\ e.after # Absent /\ p \in DOMAIN ghost.now /\ ghost.now[p] \in NodesOf(p)
  <2>1. Len(call.done) \in DOMAIN call.done /\ call.done[Len(call.done)] \in Entries
    BY <1>2, FrontIs, CallIs
  <2>2. call.done[Len(call.done)].path \in DOMAIN ghost.now
    BY <2>1 DEF Inv, CallPart, TaskInv, DoneInv
  <2> QED BY <2>1, <2>2, NodeKinds, CallIs DEF Entries, LastDone
<1>4. \/ Proved(call) = NoCall
      \/ Proved(call) = [[call EXCEPT !.todo = Tail(call.todo)] EXCEPT !.step = "check"]
         /\ Tail(call.todo) # <<>>
  <2> DEFINE rest == [[call EXCEPT !.todo = Tail(call.todo)] EXCEPT !.step = "check"]
  <2>1. rest = [call EXCEPT !.todo = Tail(@), !.step = "check"]
    BY CallIs DEF Calls
  <2>2. rest.todo = Tail(call.todo)
    BY CallIs DEF Calls
  <2>3. Proved(call) = IF rest.todo = <<>> THEN NoCall ELSE rest
    BY <2>1 DEF Proved
  <2> HIDE DEF rest
  <2>4. Proved(call) = NoCall \/ (Proved(call) = rest /\ Tail(call.todo) # <<>>)
    <3>1. CASE rest.todo = <<>>
      BY <2>3, <3>1
    <3>2. CASE rest.todo # <<>>
      BY <2>2, <2>3, <3>2
    <3> QED BY <3>1, <3>2
  <2> QED BY <2>4 DEF rest
<1>5. Unproved(call) = NoCall \/ Unproved(call) = [call EXCEPT !.step = "back"]
  BY DEF Unproved
<1>6. CASE disk[p] = e.after /\ journal' = Recorded(journal, p, e.before, e.after)
           /\ call' = Proved(call)
  <2>1. Journaled(p)
    BY <1>3, <1>6 DEF Journaled
  <2>2. journal'.tainted = journal.tainted /\ journal'.last[p] = e.after
    BY <1>3, <1>6, RecordedIs, CallIs, SMTT(30)
  <2>3. ASSUME p \notin journal.tainted PROVE Traced(p)'
    <3>1. Expected(p, e.before)
      <4>1. 1 \in DOMAIN call.todo
        BY <1>1, HeadIs
      <4> QED BY <1>1, <1>2, <1>3, <2>3, <4>1 DEF Inv, CallPart, TaskInv, TodoInv, Ahead
    <3>2. ghost' = ghost
      BY <1>1
    <3>3. disk'[p] = disk[p] /\ disk[p] = e.after
      BY <1>1, <1>6
    <3>4. Filed(p)'
      BY <1>3, <1>6, <3>1, <3>2, FiledRecorded, CallIs DEF Expected, Base
    <3> QED BY <2>2, <3>3, <3>4 DEF Traced, Fresh
  <2>4. p \in journal'.tainted \/ (Traced(p)' /\ journal'.last[p] = e.after)
    BY <2>2, <2>3
  <2> QED BY <1>1, <1>4, <1>6, <2>1, <2>4, ReadStep
<1>7. CASE journal' = Tainted(journal, p) /\ call' = Unproved(call)
  <2>1. Journaled(p) /\ p \in journal'.tainted
    BY <1>3, <1>7, TaintedIs, CallIs DEF Journaled
  <2> QED BY <1>1, <1>5, <1>7, <2>1, ReadStep
<1>8. CASE journal' = Unverified(journal, p, e.before, e.after) /\ call' = Unproved(call)
  <2> DEFINE r == Recorded(journal, p, e.before, e.after)
  <2>1. r \in Journals
    BY <1>3, RecordedIs, CallIs
  <2>2. journal' = Tainted(r, p)
    BY <1>8 DEF Unverified
  <2>3. Journaled(p)
    BY <1>3, <2>2 DEF Journaled
  <2> HIDE DEF r
  <2>4. p \in journal'.tainted
    BY <1>3, <2>1, <2>2, TaintedIs
  <2> QED BY <1>1, <1>5, <1>8, <2>3, <2>4, ReadStep
<1> QED BY <1>6, <1>7, <1>8 DEF Verify, LastDone

LEMMA BackStep ==
    ASSUME Inv, call.step = "back", call.done # <<>>, NEW e, e = LastDone, NEW p, p = e.path,
           PutAt(p), Marked(p, e.before), Logged(p), NEW f \in SUBSET Files, call.failed \subseteq f,
           call' = [[call EXCEPT !.done = SubSeq(call.done, 1, Len(call.done) - 1)]
                      EXCEPT !.failed = f],
           p \in journal'.tainted \/ Traced(p)',
           p \in f \/ TextOf(disk'[p]) = TextOf(e.before),
           disk'[p] # Absent => Within(p),
           UNCHANGED <<latest, undo, count>>
    PROVE  Inv'
<1> DEFINE d == SubSeq(call.done, 1, Len(call.done) - 1)
<1>1. /\ journal.active /\ call # NoCall /\ DOMAIN call.home = Dirs /\ CallInv /\ call.dirs = {}
  BY Acting DEF Inv, CallPart, CallInv
<1>2. /\ d \in Seq(Entries) /\ Len(call.done) \in DOMAIN call.done /\ e \in Entries
      /\ DOMAIN d = DOMAIN call.done \ {Len(call.done)}
      /\ \A i \in DOMAIN d : i \in DOMAIN call.done /\ d[i] = call.done[i]
      /\ e = call.done[Len(call.done)]
  BY FrontIs, CallIs DEF LastDone
<1>3. p \in Files /\ p \in Paths /\ p \notin Dirs /\ e.before \in NodesOf(p)
      /\ p \in DOMAIN ghost.now /\ e.before = call.was[p] /\ p \in DOMAIN call.was
  BY <1>1, <1>2, NodeKinds, SMTT(30) DEF Entries, Inv, CallPart, TaskInv, DoneInv, CallInv
<1> HIDE DEF d
<1>4. /\ call' \in Calls /\ call'.step = "back" /\ call'.todo = call.todo /\ call'.done = d
      /\ call'.made = call.made /\ call'.was = call.was /\ call'.failed = f
      /\ call'.home = call.home /\ call'.dirs = call.dirs /\ call'.tool = call.tool
  BY <1>2, CallIs DEF Calls, d
<1>5. \A i, k \in DOMAIN call.done : call.done[i].path = call.done[k].path => i = k
  BY <1>1 DEF CallInv, Distinct
<1>6. \A i \in DOMAIN d : d[i].path # p
  BY <1>2, <1>5
<1>7. CallTypes'
  BY <1>1, <1>4, CallIs, NoCallIs, ZenonT(40) DEF CallTypes
<1>8. CallInv'
  <2>1. Distinct(call'.todo) /\ Distinct(call'.done)
    BY <1>1, <1>2, <1>4, <1>5, SMTT(30) DEF CallInv, Distinct
  <2>2. /\ \A i \in DOMAIN call'.todo : call'.todo[i].path \in DOMAIN call'.was
                               /\ call'.todo[i].before = call'.was[call'.todo[i].path]
        /\ \A i \in DOMAIN call'.done : call'.done[i].path \in DOMAIN call'.was
                               /\ call'.done[i].before = call'.was[call'.done[i].path]
    BY <1>1, <1>2, <1>4, SMTT(30) DEF CallInv
  <2> QED BY <1>1, <1>4, <2>1, <2>2 DEF CallInv
<1>9. Watched'
  <2> SUFFICES ASSUME NEW q \in DOMAIN call.was, q \notin f, q \notin PathsOf(d),
                      ghost'.author[q] # "other"
               PROVE  TextOf(disk'[q]) = TextOf(call.was[q])
    BY <1>4 DEF Watched
  <2>1. CASE q = p
    BY <1>3, <2>1
  <2>2. CASE q # p
    <3>1. q \in Paths
      BY CallIs, NodeKinds DEF CallTypes
    <3>2. q \notin PathsOf(call.done)
      <4> SUFFICES ASSUME NEW i \in DOMAIN call.done, q = call.done[i].path PROVE FALSE
        BY DEF PathsOf
      <4>1. i \in DOMAIN d
        BY <1>2, <2>2
      <4> QED BY <1>2, <4>1 DEF PathsOf
    <3>3. ghost'.author[q] = ghost.author[q] /\ disk'[q] = disk[q]
      BY <1>3, <2>2, <3>1, MarkedAuthor, CallIs DEF PutAt
    <3> QED BY <3>2, <3>3 DEF Inv, CallPart, Watched
  <2> QED BY <2>1, <2>2
<1>10. TodoInv' /\ Housed' /\ FoundInv' /\ AloneTodo'
  BY <1>1, <1>4 DEF TodoInv, Housed, FoundInv, AloneTodo, Ahead
<1>11. DoneInv'
  <2> SUFFICES ASSUME NEW i \in DOMAIN d, NEW c, c = d[i]
               PROVE  /\ c.path \in DOMAIN ghost'.now
                      /\ \/ c.path \in journal'.tainted
                         \/ ghost'.now[c.path] # Absent => c.before # Absent
                      /\ \/ c.path \in journal'.tainted
                         \/ c.path \in DOMAIN journal'.last /\ journal'.last[c.path] = c.after
    BY <1>4 DEF DoneInv
  <2> QED BY <1>2, <1>3, <1>6, DoneFrame
<1>12. /\ DOMAIN call'.made \subseteq DOMAIN ghost'.now
       /\ DOMAIN call'.made \ journal'.tainted \subseteq DOMAIN journal'.changes
  <2>1. \A m \in DOMAIN call.made : m \in Dirs /\ m # p
    BY <1>3, CallIs DEF CallTypes
  <2> QED BY <1>4, <2>1 DEF Inv, CallPart, TaskInv, JournalInv, Logged, Marked
<1> QED BY <1>1, <1>3, <1>7, <1>8, <1>9, <1>10, <1>11, <1>12, WriteFrame

\* What the record of a failed compensation says of the path.
LEMMA ActualIs ==
    ASSUME Inv, call.step = "back", NEW e \in Entries, NEW p, p = e.path, NEW n \in NodesOf(p),
           p \in DOMAIN ghost.now,
           ghost.now[p] # Absent => e.before # Absent \/ p \in journal.tainted,
           p \in journal.tainted \/ journal.last[p] = e.after,
           journal' = Actual(journal, e, n), Marked(p, e.before), p \in ghost'.stuck, disk'[p] = n
    PROVE  Journaled(p) /\ (p \in journal'.tainted \/ Traced(p)')
<1>1. /\ p \in Files /\ p \in Paths /\ e.before \in NodesOf(p) /\ e.after \in NodesOf(p)
      /\ e.after # Absent /\ journal.active /\ ghost.now[p] \in NodesOf(p)
      /\ Absent \in NodesOf(p) /\ ghost'.now[p] = ghost.now[p]
  BY Acting, NodeKinds, CallIs DEF Entries, Marked
<1>2. p \notin journal.tainted => Traced(p)
  BY <1>1 DEF Inv, CallPart, TaskInv, TracedInv, Unread
<1>3. p \notin journal.tainted => \A b : ghost.now[p] = Absent => FirstOf(p, b) = Absent
  BY <1>1, <1>2 DEF Traced, Filed, Base, FirstOf
<1>4. ASSUME NEW b \in NodesOf(p), journal' = Recorded(journal, p, b, n),
             n = Absent => e.before = Absent
      PROVE  p \in journal'.tainted \/ Traced(p)'
  <2>1. journal'.tainted = journal.tainted /\ journal'.last[p] = n
    <3>1. journal \in Journals
      BY CallIs
    <3> QED BY <1>1, <1>4, <3>1, RecordedEnds
  <2>2. ASSUME p \notin journal.tainted PROVE Filed(p)'
    BY <1>1, <1>3, <1>4, <2>2, FiledRecorded, CallIs
  <2> QED BY <2>1, <2>2 DEF Traced, Fresh
<1>5. CASE n = e.after
  <2>1. journal' = Recorded(journal, p, e.before, n)
    BY <1>5 DEF Actual
  <2> QED BY <1>1, <1>4, <1>5, <2>1 DEF Journaled
<1>6. CASE n # e.after /\ n = Absent /\ e.before = Absent
  <2>1. journal' = Recorded(journal, p, e.after, n)
    BY <1>6 DEF Actual
  <2> QED BY <1>1, <1>4, <1>6, <2>1 DEF Journaled
<1>7. CASE n # e.after /\ ~(n = Absent /\ e.before = Absent)
  <2>1. journal' = Tainted(journal, p)
    BY <1>7 DEF Actual
  <2> QED BY <1>1, <2>1, TaintedIs, CallIs DEF Journaled
<1> QED BY <1>5, <1>6, <1>7

LEMMA PutBackStep == Inv /\ PutBack => Inv'
<1> SUFFICES ASSUME Inv, PutBack PROVE Inv'
  OBVIOUS
<1> PICK e, p : e = LastDone /\ p = e.path
  OBVIOUS
<1> DEFINE back == IF e.before = Absent THEN Absent ELSE Node(e.before.text)
           d == SubSeq(call.done, 1, Len(call.done) - 1)
           rest == [[call EXCEPT !.done = d] EXCEPT !.failed = call.failed]
           short == [[call EXCEPT !.done = d] EXCEPT !.failed = call.failed \cup {p}]
<1>1. call.step = "back" /\ call.done # <<>> /\ UNCHANGED <<latest, undo, count>>
  BY DEF PutBack
<1>2. /\ Len(call.done) \in DOMAIN call.done /\ e \in Entries /\ e = call.done[Len(call.done)]
      /\ d \in Seq(Entries)
  BY <1>1, FrontIs, CallIs DEF LastDone
<1>3. /\ p \in Files /\ p \in Paths /\ e.before \in NodesOf(p) /\ e.after \in NodesOf(p)
      /\ e.after # Absent /\ p \in DOMAIN ghost.now /\ ghost.now[p] \in NodesOf(p)
      /\ NodesOf(p) = FileNodes /\ e.before \in FileNodes /\ Absent \in NodesOf(p)
      /\ disk[p] \in NodesOf(p)
      /\ ghost.now[p] # Absent => e.before # Absent \/ p \in journal.tainted
      /\ p \in journal.tainted \/ journal.last[p] = e.after
      /\ journal.active
  <2>1. /\ p \in DOMAIN ghost.now
        /\ ghost.now[p] # Absent => e.before # Absent \/ p \in journal.tainted
        /\ p \in journal.tainted \/ journal.last[p] = e.after
    BY <1>1, <1>2 DEF Inv, CallPart, TaskInv, DoneInv
  <2>2. p \in Files /\ e.before \in FileNodes /\ e.after \in FileNodes /\ e.after # Absent
    BY <1>2 DEF Entries
  <2>3. p \in Paths /\ NodesOf(p) = FileNodes
    BY <2>2, NodeKinds
  <2>4. disk[p] \in NodesOf(p)
    BY <2>3, CallIs DEF DiskTypes
  <2> QED BY <1>1, <2>1, <2>2, <2>3, <2>4, NodeKinds, CallIs, Acting
<1>4. /\ rest = [call EXCEPT !.done = SubSeq(@, 1, Len(@) - 1)]
      /\ short = [[call EXCEPT !.done = SubSeq(@, 1, Len(@) - 1)] EXCEPT !.failed = @ \cup {p}]
  <2>1. [call EXCEPT !.done = d].failed = call.failed /\ [call EXCEPT !.done = d] \in Calls
    BY <1>2, CallIs DEF Calls
  <2>2. [[call EXCEPT !.done = d] EXCEPT !.failed = call.failed] = [call EXCEPT !.done = d]
    BY <2>1 DEF Calls
  <2> QED BY <2>1, <2>2
<1> DEFINE f == call.failed \cup {p}
<1>5. call.failed \in SUBSET Files /\ f \in SUBSET Files /\ call.failed \subseteq f /\ p \in f
  BY <1>3, CallIs DEF Calls
<1>6. back \in NodesOf(p) /\ TextOf(back) = TextOf(e.before)
  <2>1. e.before # Absent => e.before.text \in Texts
    BY <1>3, NodeKinds
  <2> QED BY <1>3, <2>1, NextNode, CallIs DEF DiskTypes, TextOf
<1>7. disk[p] # Absent => Within(p)
  BY <1>3 DEF Inv, Tree, Within
<1>11. short = [[call EXCEPT !.done = SubSeq(call.done, 1, Len(call.done) - 1)] EXCEPT !.failed = f]
  OBVIOUS
<1> HIDE DEF back, rest, short, d, f
<1>8. CASE /\ disk[p] = e.after /\ Put(p, back) /\ call' = rest
           /\ journal' = Recorded(journal, p, e.after, back) /\ ghost' = Wrote(ghost, p)
  <2>1. PutAt(p) /\ disk'[p] = back
    BY <1>3, <1>6, <1>8, PutIs, CallIs
  <2>2. Marked(p, e.before) /\ ghost'.now = ghost.now /\ ghost'.stuck = ghost.stuck
    BY <1>3, <1>8, MarkedIs, WroteIs, CallIs
  <2>3. Logged(p) /\ journal'.tainted = journal.tainted /\ journal'.last[p] = back
    <3>1. journal \in Journals /\ JournalInv
      BY CallIs DEF Inv, CallPart, TaskInv
    <3>2. Journaled(p)
      BY <1>3, <1>6, <1>8 DEF Journaled
    <3>3. journal'.tainted = journal.tainted /\ journal'.last[p] = back
      BY <1>3, <1>6, <1>8, <3>1, RecordedEnds
    <3> QED BY <1>3, <3>1, <3>2, <3>3, LoggedIs
  <2>4. ASSUME p \notin journal.tainted PROVE Traced(p)'
    <3>1. Traced(p) /\ journal.last[p] = e.after
      BY <1>1, <1>3, <2>4 DEF Inv, CallPart, TaskInv, TracedInv, Unread
    <3>2. Base(p, e.after)
      BY <3>1 DEF Traced, Filed
    <3>3. back = Absent => ghost.now[p] = Absent
      <4>1. e.before # Absent => back # Absent
        BY <1>3, NodeKinds, NextNode, CallIs DEF back, DiskTypes
      <4> QED BY <1>3, <2>4, <4>1
    <3>4. Filed(p)'
      BY <1>3, <1>6, <1>8, <2>2, <3>2, <3>3, FiledRecorded, CallIs DEF Base
    <3> QED BY <2>1, <2>3, <3>4 DEF Traced, Fresh
  <2> QED BY <1>1, <1>3, <1>5, <1>6, <1>7, <1>8, <2>1, <2>2, <2>3, <2>4, BackStep DEF rest, d
<1>9. CASE /\ disk[p] = e.after /\ Put(p, back) /\ call' = short
           /\ journal' = Actual(journal, e, back) /\ ghost' = Stuck(Wrote(ghost, p), p)
  <2>1. PutAt(p) /\ disk'[p] = back
    BY <1>3, <1>6, <1>9, PutIs, CallIs
  <2>2. Marked(p, e.before)
    BY <1>3, <1>9, MarkedIs, CallIs
  <2>3. p \in ghost'.stuck
    <3>1. Wrote(ghost, p) \in Ghosts
      BY <1>3, WroteIs, CallIs
    <3> QED BY <1>3, <1>9, <3>1, StuckIs
  <2>4. Journaled(p) /\ (p \in journal'.tainted \/ Traced(p)')
    BY <1>1, <1>2, <1>3, <1>6, <1>9, <2>1, <2>2, <2>3, ActualIs
  <2>5. Logged(p)
    BY <1>3, <2>4, LoggedIs, CallIs DEF Inv, CallPart, TaskInv
  <2> QED BY <1>1, <1>3, <1>5, <1>6, <1>7, <1>9, <2>1, <2>2, <1>11, <2>4, <2>5, BackStep
<1>10. CASE /\ journal' = Actual(journal, e, disk[p]) /\ call' = short
            /\ ghost' = Stuck(ghost, p) /\ UNCHANGED <<disk, next>>
  <2>1. PutAt(p) /\ disk'[p] = disk[p]
    BY <1>3, <1>10, CallIs DEF PutAt, DiskTypes
  <2>2. Marked(p, e.before)
    BY <1>3, <1>10, MarkedIs, CallIs
  <2>3. p \in ghost'.stuck
    BY <1>3, <1>10, StuckIs, CallIs
  <2>4. Journaled(p) /\ (p \in journal'.tainted \/ Traced(p)')
    BY <1>1, <1>2, <1>3, <1>10, <2>1, <2>2, <2>3, ActualIs
  <2>5. Logged(p)
    BY <1>3, <2>4, LoggedIs, CallIs DEF Inv, CallPart, TaskInv
  <2>6. disk'[p] # Absent => Within(p)
    BY <1>7, <2>1
  <2>7. call' = short /\ (p \in journal'.tainted \/ Traced(p)')
    BY <1>10, <2>4
  <2> QED BY <1>1, <1>5, <1>11, <2>1, <2>2, <2>5, <2>6, <2>7, BackStep
<1> QED BY <1>4, <1>8, <1>9, <1>10 DEF PutBack, LastDone, back
-----------------------------------------------------------------------------
(***************************************************************************)
(* Other programs, and the ends of a task                                  *)
(***************************************************************************)
LEMMA TouchedIs ==
    ASSUME NEW u \in Undos, NEW n, NEW text \in Texts
    PROVE  /\ Touched(u, n, text) \in Undos
           /\ Touched(u, n, text) = [u EXCEPT !.done = Touched(u, n, text).done]
           /\ DOMAIN Touched(u, n, text).done = DOMAIN u.done
           /\ \A i \in DOMAIN u.done : Touched(u, n, text).done[i].path = u.done[i].path
           /\ u.done = <<>> => Touched(u, n, text) = u
<1> DEFINE hit(i) == u.done[i].backup # Absent /\ n # Absent /\ u.done[i].backup.id = n.id
           d == [i \in DOMAIN u.done |->
                    IF hit(i) THEN [u.done[i] EXCEPT !.backup.text = text] ELSE u.done[i]]
<1>1. Touched(u, n, text) = [u EXCEPT !.done = d]
  BY DEF Touched
<1>2. u.done \in Seq(Notes) /\ Len(u.done) \in Nat /\ DOMAIN u.done = 1..Len(u.done)
  BY DEF Undos
<1>3. \A i \in DOMAIN u.done : u.done[i] \in Notes
  BY <1>2
<1>4. ASSUME NEW i \in DOMAIN u.done PROVE d[i] \in Notes /\ d[i].path = u.done[i].path
  <2>1. CASE ~hit(i)
    BY <1>3, <2>1
  <2>2. CASE hit(i)
    <3> DEFINE b == u.done[i].backup
    <3>1. b \in [text : Texts, id : Nat]
      BY <1>3, <2>2 DEF Notes, FileNodes
    <3>2. [b EXCEPT !.text = text] \in FileNodes
      BY <3>1 DEF FileNodes
    <3>3. d[i] = [u.done[i] EXCEPT !.backup = [b EXCEPT !.text = text]]
      BY <1>3, <2>2 DEF Notes
    <3> HIDE DEF b, d
    <3> QED BY <1>3, <3>2, <3>3 DEF Notes
  <2> QED BY <2>1, <2>2
<1>5. d = [i \in DOMAIN d |-> d[i]] /\ DOMAIN d = DOMAIN u.done
  OBVIOUS
<1> HIDE DEF d
<1>6. d \in Seq(Notes)
  <2>1. d \in [1..Len(u.done) -> Notes]
    BY <1>2, <1>4, <1>5
  <2> QED BY <1>2, <2>1
<1>7. u.done = <<>> => d = u.done
  <2>1. u.done = <<>> => DOMAIN d = {}
    BY <1>5
  <2> QED BY <1>6, <2>1
<1> QED BY <1>1, <1>4, <1>5, <1>6, <1>7 DEF Undos

LEMMA EditStep == ASSUME NEW p \in Paths PROVE Inv /\ Edit(p) => Inv'
<1> SUFFICES ASSUME Inv, Edit(p) PROVE Inv'
  OBVIOUS
<1>1. /\ UNCHANGED <<journal, latest, call>> /\ DiskTypes /\ ghost \in Ghosts /\ CountTypes'
      /\ undo \in Undos
  BY CallIs DEF Edit, CountTypes, Inv, Types, UndoTypes
<1> DEFINE a == [ghost.author EXCEPT ![p] = "other"]
           s == ghost.since \cup {p}
           f == ghost.fresh \cup {p}
<1>2. ghost' = [[[ghost EXCEPT !.author = a] EXCEPT !.since = s] EXCEPT !.fresh = f]
  BY <1>1 DEF Edit, Ghosts
<1>3. /\ ghost' \in Ghosts /\ ghost'.author[p] = "other"
      /\ \A q \in Paths : q # p => ghost'.author[q] = ghost.author[q]
      /\ ghost'.now = ghost.now /\ ghost'.kept = ghost.kept /\ ghost'.stuck = ghost.stuck
      /\ ghost'.since # {} /\ ghost'.fresh # {} /\ ghost'.unread = ghost.unread
  <2>1. /\ a \in [Paths -> {"start", "task", "other"}] /\ a[p] = "other"
        /\ \A q \in Paths : q # p => a[q] = ghost.author[q]
    BY <1>1 DEF Ghosts
  <2>2. s \in SUBSET Paths /\ f \in SUBSET Paths /\ s # {} /\ f # {}
    BY <1>1 DEF Ghosts
  <2> HIDE DEF a, s, f
  <2> QED BY <1>1, <1>2, <2>1, <2>2 DEF Ghosts
<1>4. /\ PutAt(p) /\ (disk'[p] = Absent => Children(p) = {} \/ p \in Files)
      /\ disk'[p] # Absent => Within(p)
      /\ undo' = undo \/ \E text \in Texts : undo' = Touched(undo, disk[p], text)
  <2>1. ASSUME NEW text \in Texts, p \in Files, disk[p] # Absent,
               disk' = [disk EXCEPT ![p].text = text], UNCHANGED next
        PROVE  PutAt(p) /\ disk'[p] # Absent /\ Within(p)
    <3> DEFINE n == [disk[p] EXCEPT !.text = text]
    <3>1. disk[p] \in [text : Texts, id : Nat]
      BY <1>1, <2>1, NodeKinds DEF DiskTypes, FileNodes
    <3>2. n \in [text : Texts, id : Nat]
      BY <3>1
    <3>3. n \in NodesOf(p) /\ n # Absent
      BY <2>1, <3>2, NodeKinds, NodeAssumption DEF FileNodes
    <3>4. disk' = [disk EXCEPT ![p] = n]
      BY <1>1, <2>1 DEF DiskTypes
    <3> HIDE DEF n
    <3>5. PutAt(p) /\ disk'[p] = n
      BY <1>1, <2>1, <3>3, <3>4, SetAtIs
    <3> QED BY <2>1, <3>3, <3>5 DEF Inv, Tree, Within
  <2>2. ASSUME NEW text \in IF p \in Files THEN Texts ELSE {IsDir}, Within(p), Put(p, Node(text))
        PROVE  PutAt(p) /\ disk'[p] # Absent
    <3>1. Node(text) \in NodesOf(p) /\ Node(text) # Absent
      BY <1>1, <2>2, NodeKinds, NextNode DEF DiskTypes
    <3> QED BY <1>1, <2>2, <3>1, PutIs
  <2>3. ASSUME Children(p) = {}, disk' = [disk EXCEPT ![p] = Absent], UNCHANGED next
        PROVE  PutAt(p) /\ disk'[p] = Absent
    BY <1>1, <2>3, NodeKinds, SetAtIs
  <2> QED BY <2>1, <2>2, <2>3 DEF Edit
<1>5. /\ undo' \in Undos /\ DOMAIN undo'.done = DOMAIN undo.done
      /\ \A i \in DOMAIN undo.done : undo'.done[i].path = undo.done[i].path
      /\ undo'.step = undo.step /\ undo'.bound = undo.bound /\ undo'.todo = undo.todo
      /\ undo'.item = undo.item /\ undo'.dirs = undo.dirs /\ undo'.gone = undo.gone
      /\ undo'.fixed = undo.fixed /\ undo'.failed = undo.failed
      /\ undo = NoUndo => undo' = NoUndo
      /\ undo.done = <<>> => undo'.done = <<>>
      /\ undo.done # <<>> => undo'.done # <<>> /\ Last(undo'.done).path = Last(undo.done).path
  <2>1. CASE undo' = undo
    BY <1>1, <2>1
  <2>2. ASSUME NEW text \in Texts, undo' = Touched(undo, disk[p], text)
        PROVE  /\ undo' \in Undos /\ undo' = [undo EXCEPT !.done = undo'.done]
               /\ DOMAIN undo'.done = DOMAIN undo.done
               /\ \A i \in DOMAIN undo.done : undo'.done[i].path = undo.done[i].path
               /\ undo.done = <<>> => undo' = undo
    BY <1>1, <2>2, TouchedIs
  <2>3. CASE \E text \in Texts : undo' = Touched(undo, disk[p], text)
    <3>1. /\ undo' \in Undos /\ undo' = [undo EXCEPT !.done = undo'.done]
          /\ DOMAIN undo'.done = DOMAIN undo.done
          /\ \A i \in DOMAIN undo.done : undo'.done[i].path = undo.done[i].path
          /\ undo.done = <<>> => undo' = undo
      BY <2>2, <2>3
    <3>2. /\ undo'.step = undo.step /\ undo'.bound = undo.bound /\ undo'.todo = undo.todo
          /\ undo'.item = undo.item /\ undo'.dirs = undo.dirs /\ undo'.gone = undo.gone
          /\ undo'.fixed = undo.fixed /\ undo'.failed = undo.failed
      BY <1>1, <3>1 DEF Undos
    <3>3. undo = NoUndo => undo' = NoUndo
      BY <3>1, NoUndoIs
    <3>4. undo.done # <<>> => undo'.done # <<>> /\ Last(undo'.done).path = Last(undo.done).path
      <4>1. undo.done \in Seq(Notes) /\ undo'.done \in Seq(Notes)
        BY <1>1, <3>1 DEF Undos
      <4>2. Len(undo'.done) = Len(undo.done) /\ Len(undo.done) \in Nat
            /\ (undo.done # <<>> => Len(undo.done) \in DOMAIN undo.done)
        BY <3>1, <4>1
      <4> QED BY <3>1, <4>1, <4>2 DEF Last
    <3> QED BY <3>1, <3>2, <3>3, <3>4
  <2> QED BY <1>4, <2>1, <2>3
<1>6. Types'
  <2>1. DiskTypes'
    BY <1>1, <1>4, PutTypes
  <2> QED BY <1>1, <1>3, <1>5, <2>1 DEF Inv, Types, SetTypes, CallTypes, UndoTypes, Phases, Known
<1>7. Tree'
  BY <1>4, TreePut DEF Inv
<1>8. CallPart'
  <2>1. CallInv' /\ TodoInv' /\ DoneInv' /\ Housed'
    BY <1>1, <1>3, SMTT(30) DEF Inv, CallPart, TaskInv, CallInv, TodoInv, DoneInv, Housed, Ahead, LastDone,
       Expected, Base, FirstOf
  <2>2. Watched'
    <3>1. \A q \in DOMAIN call.was : q \in Paths
      BY CallIs, NodeKinds DEF CallTypes
    <3> QED BY <1>1, <1>3, <1>4, <3>1 DEF Inv, CallPart, Watched, PathsOf, PutAt
  <2>3. JournalInv'
    BY <1>1, <1>3 DEF Inv, CallPart, TaskInv, JournalInv
  <2>4. TracedInv'
    <3> SUFFICES ASSUME journal.active, NEW q \in DOMAIN ghost.now, ~Unread(q), q \notin journal.tainted
                 PROVE  Traced(q)'
      BY <1>1, <1>3 DEF TracedInv, Unread, LastDone
    <3>1. Traced(q) /\ q \in Paths
      BY CallIs DEF Inv, CallPart, TaskInv, TracedInv
    <3>2. Filed(q)'
      BY <1>1, <1>3, <3>1 DEF Traced, Filed, Base, FirstOf
    <3>3. Fresh(q)'
      BY <1>1, <1>3, <1>4, <3>1 DEF Traced, Fresh, PutAt
    <3> QED BY <3>2, <3>3 DEF Traced
  <2>5. Alone'
    BY <1>3 DEF Alone
  <2>6. FoundInv'
    <3>1. \A i \in DOMAIN call.todo : call.todo[i].path \in Paths
      BY CallIs, NodeKinds DEF Targets
    <3> QED BY <1>1, <1>3, <3>1 DEF Inv, CallPart, FoundInv, Ahead, Known, SetPaths
  <2> QED BY <2>1, <2>2, <2>3, <2>4, <2>5, <2>6 DEF CallPart, TaskInv
<1>9. SetPart'
  <2>1. SetInv'
    BY <1>1 DEF Inv, SetPart, SetInv, SetPaths, After, Known
  <2>2. KeptInv'
    <3>1. ghost.kept \in Stored
      BY <1>1 DEF Ghosts
    <3>2. DOMAIN ghost.kept \subseteq Paths
      BY <3>1, StoredIs
    <3> QED BY <1>1, <1>3, <1>4, <3>2 DEF Inv, SetPart, KeptInv, SetPaths, Before, Known, PutAt
  <2> QED BY <2>1, <2>2 DEF SetPart
<1>10. UndoPart'
  <2>1. undo.step # "idle" => SetPaths \subseteq Paths
    <3> SUFFICES ASSUME undo.step # "idle" PROVE SetPaths \subseteq Paths
      OBVIOUS
    <3>1. Known(latest)
      BY NoUndoIs DEF Inv, Types, Phases
    <3>2. latest.changes \in Changes
      BY <3>1 DEF Inv, Types, SetTypes, Known
    <3> QED BY <3>2, ChangesIs DEF SetPaths
  <2>2. Bound'
    BY <1>1, <1>5 DEF Inv, UndoPart, Bound, SetPaths, After, Before
  <2>3. UndoInv'
    BY <1>1, <1>5 DEF Inv, UndoPart, UndoInv, Underway, SetPaths, SetDirs, WithDirectories
  <2>4. RestoredInv'
    BY <1>1, <1>3, <1>4, <1>5, <2>1 DEF Inv, UndoPart, RestoredInv, Underway, SetPaths, Before, PutAt
  <2>5. NotedInv'
    <3> SUFFICES ASSUME Underway, NEW q \in SetPaths, q # p
                 PROVE  q \in ghost.unread \/ Noted(q)' \/ ghost'.author[q] = "other" \/ TextOf(disk'[q]) = TextOf(After(q))
      BY <1>1, <1>3, <1>5 DEF NotedInv, Underway, SetPaths, After
    <3>1. q \in Paths /\ disk'[q] = disk[q] /\ ghost'.author[q] = ghost.author[q]
      BY <1>3, <1>4, <2>1 DEF PutAt, Underway
    <3>2. Noted(q) => Noted(q)'
      BY <1>1, <1>5, <3>1 DEF Noted, PathsOf, Before
    <3> QED BY <3>1, <3>2 DEF Inv, UndoPart, NotedInv
  <2>6. MatchInv'
    BY <1>3 DEF MatchInv, Undisturbed
  <2> QED BY <2>2, <2>3, <2>4, <2>5, <2>6 DEF UndoPart
<1> QED BY <1>6, <1>7, <1>8, <1>9, <1>10 DEF Inv

LEMMA BeginTaskStep == Inv /\ BeginTask => Inv'
<1> SUFFICES ASSUME Inv, BeginTask PROVE Inv'
  OBVIOUS
<1>1. /\ ~journal.active /\ call = NoCall /\ call' = NoCall /\ undo = NoUndo /\ undo.step = "idle"
      /\ UNCHANGED <<disk, next, latest, call, undo>> /\ ghost \in Ghosts
  BY NoUndoIs, CallIs DEF BeginTask, Inv, Types, Phases
<1>2. /\ journal' \in Journals /\ journal'.active /\ DOMAIN journal'.last = {}
      /\ DOMAIN journal'.changes = {} /\ journal'.tainted = {}
  BY EmptyIs, ChangesEmpty DEF BeginTask, Started
<1>3. /\ ghost' \in Ghosts /\ DOMAIN ghost'.now = {} /\ ghost'.kept = ghost.kept
      /\ ghost'.author = ghost.author /\ ghost'.since = ghost.since /\ ghost'.told = ghost.told
      /\ ghost'.unread = ghost.unread
  <2>1. ghost' = [[[ghost EXCEPT !.now = NoPaths] EXCEPT !.stuck = {}] EXCEPT !.fresh = {}]
    BY DEF BeginTask
  <2> QED BY <1>1, <2>1, StoredEmpty DEF Ghosts
<1>4. CountTypes'
  BY CallIs DEF BeginTask, CountTypes
<1>5. Types'
  BY <1>1, <1>2, <1>3, <1>4 DEF Inv, Types, DiskTypes, SetTypes, CallTypes, UndoTypes, Phases
<1>6. Tree' /\ SetInv'
  BY <1>1 DEF Inv, Tree, SetPart, SetInv, Known, SetPaths, After
<1>7. /\ CallInv' /\ Watched' /\ TodoInv' /\ DoneInv' /\ Housed' /\ FoundInv'
      /\ DOMAIN call'.made = {} /\ ~Ahead'
  BY <1>1, NoCallPart
<1>8. JournalInv' /\ TracedInv' /\ Alone'
  BY <1>2, <1>3, <1>7 DEF JournalInv, TracedInv, Alone
<1>9. KeptInv'
  BY <1>1, <1>3 DEF Inv, SetPart, KeptInv, Known, SetPaths, Before
<1>10. Bound' /\ UndoInv' /\ RestoredInv' /\ NotedInv'
  BY <1>1 DEF Bound, UndoInv, RestoredInv, NotedInv, Underway
<1>11. MatchInv'
  <2> SUFFICES ASSUME Undisturbed PROVE Matches'
    BY <1>1, <1>3 DEF MatchInv, Undisturbed, Known, Underway
  <2>1. Matches
    BY <1>1 DEF Inv, UndoPart, MatchInv
  <2> QED BY <1>1, <2>1 DEF Matches, SetPaths, SetDirs, After, Before, Children
<1> QED BY <1>5, <1>6, <1>7, <1>8, <1>9, <1>10, <1>11 DEF Inv, CallPart, SetPart, UndoPart, TaskInv

\* What the journal says of a path of the task when nothing is tainted.
LEMMA EndsTraced ==
    ASSUME Inv, journal.active, call = NoCall, journal.tainted = {}, NEW p \in DOMAIN ghost.now
    PROVE  /\ p \in Paths /\ p \in DOMAIN journal.last /\ Traced(p)
           /\ ghost.author[p] # "other" => journal.last[p] = disk[p]
           /\ ghost.now[p] = Absent => (p \in DOMAIN journal.changes <=> journal.last[p] # Absent)
           /\ ghost.now[p] # Absent => journal.last[p] # Absent
           /\ p \in DOMAIN journal.changes =>
                 /\ journal.changes[p].after = journal.last[p]
                 /\ journal.last[p] # Absent
                 /\ ghost.now[p] = Absent => journal.changes[p].before = Absent
                 /\ p \notin ghost.stuck =>
                        TextOf(journal.changes[p].before) = TextOf(ghost.now[p])
           /\ p \notin DOMAIN journal.changes /\ p \notin ghost.stuck =>
                 TextOf(journal.last[p]) = TextOf(ghost.now[p])
<1>1. Traced(p)
  BY NoCallIs DEF Inv, CallPart, TaskInv, TracedInv, Unread
<1>2. p \in DOMAIN journal.changes => journal.changes[p].after = journal.last[p]
  BY DEF Inv, CallPart, TaskInv, JournalInv
<1>3. p \in Paths
  BY CallIs
<1> QED BY <1>1, <1>2, <1>3 DEF Traced, Filed, Fresh, Base, FirstOf

LEMMA EndTaskStep == Inv /\ EndTask => Inv'
<1> SUFFICES ASSUME Inv, EndTask PROVE Inv'
  OBVIOUS
<1>1. /\ journal.active /\ call = NoCall /\ call' = NoCall /\ undo = NoUndo /\ undo.step = "idle"
      /\ UNCHANGED <<disk, next, call, undo, count>> /\ ghost \in Ghosts /\ journal' = Empty
      /\ journal \in Journals
  BY NoUndoIs, CallIs DEF EndTask, Inv, Types, Phases
<1>2. /\ journal' \in Journals /\ ~journal'.active /\ DOMAIN journal'.last = {}
      /\ DOMAIN journal'.changes = {}
  BY <1>1, EmptyIs, ChangesEmpty
<1>3. /\ CallInv' /\ Watched' /\ TodoInv' /\ DoneInv' /\ Housed' /\ FoundInv'
      /\ DOMAIN call'.made = {} /\ ~Ahead'
  BY <1>1, NoCallPart
<1>4. CallPart' /\ Tree'
  <2>1. JournalInv' /\ TracedInv' /\ Alone'
    BY <1>1, <1>2, <1>3 DEF JournalInv, TracedInv, Alone
  <2>2. Tree'
    BY <1>1 DEF Inv, Tree
  <2> QED BY <1>3, <2>1, <2>2 DEF CallPart, TaskInv
<1>5. Bound' /\ UndoInv' /\ RestoredInv' /\ NotedInv'
  BY <1>1 DEF Bound, UndoInv, RestoredInv, NotedInv, Underway
<1>6. ghost.now \in Stored /\ ghost.kept \in Stored /\ DOMAIN ghost.now \subseteq Paths
  BY <1>1, CallIs DEF Ghosts
<1>7. CASE Unchanged(journal)
  <2> DEFINE k == Restrict(ghost.kept, DOMAIN ghost.kept \ ghost.stuck)
             s == ghost.since \cup DOMAIN ghost.now
  <2>1. latest' = latest /\ journal.tainted = {} /\ DOMAIN journal.changes = {}
    BY <1>7, ChangesEmpty DEF EndTask, Sealed, Unchanged
  <2>2. k \in Stored /\ DOMAIN k = DOMAIN ghost.kept \ ghost.stuck
        /\ \A p \in DOMAIN k : k[p] = ghost.kept[p]
    BY <1>6, StoredRestrict, RestrictIs
  <2>3. ghost' = [[ghost EXCEPT !.kept = k] EXCEPT !.since = s]
    BY <1>1, <1>7 DEF EndTask, Ghosts
  <2> HIDE DEF k
  <2>4. /\ ghost' \in Ghosts /\ ghost'.kept = k /\ ghost'.since = s /\ ghost'.author = ghost.author
        /\ ghost'.told = ghost.told /\ ghost'.unread = ghost.unread
    BY <1>1, <1>6, <2>2, <2>3 DEF Ghosts
  <2>5. Types'
    BY <1>1, <1>2, <2>1, <2>4 DEF Inv, Types, DiskTypes, SetTypes, CallTypes, UndoTypes, Phases, CountTypes
  <2>6. SetInv'
    BY <2>1 DEF Inv, SetPart, SetInv, Known, SetPaths, After
  <2>7. KeptInv'
    <3> SUFFICES ASSUME Known(latest), NEW p \in DOMAIN k
                 PROVE  /\ p \in SetPaths => TextOf(Before(p)) = TextOf(k[p])
                        /\ p \notin SetPaths => ghost.author[p] = "other" \/ TextOf(disk[p]) = TextOf(k[p])
      BY <1>1, <1>2, <2>1, <2>4 DEF KeptInv, Known, SetPaths, Before
    <3>1. /\ p \in SetPaths => TextOf(Before(p)) = TextOf(k[p])
          /\ p \notin SetPaths =>
                IF p \in DOMAIN ghost.now
                THEN TextOf(ghost.now[p]) = TextOf(k[p])
                ELSE ghost.author[p] = "other" \/ TextOf(disk[p]) = TextOf(k[p])
      BY <1>1, <2>2 DEF Inv, SetPart, KeptInv
    <3>2. p \in DOMAIN ghost.now =>
             ghost.author[p] = "other" \/ TextOf(disk[p]) = TextOf(ghost.now[p])
      <4> SUFFICES ASSUME p \in DOMAIN ghost.now, ghost.author[p] # "other"
                   PROVE  TextOf(disk[p]) = TextOf(ghost.now[p])
        OBVIOUS
      <4>1. journal.last[p] = disk[p] /\ TextOf(journal.last[p]) = TextOf(ghost.now[p])
        BY <1>1, <2>1, <2>2, EndsTraced
      <4> QED BY <4>1
    <3> QED BY <3>1, <3>2
  <2>8. MatchInv'
    <3> SUFFICES ASSUME Undisturbed, DOMAIN ghost.now = {} PROVE Matches'
      BY <1>1, <2>1, <2>4 DEF MatchInv, Undisturbed, Known, Underway
    <3>1. Matches
      BY <1>1 DEF Inv, UndoPart, MatchInv
    <3> QED BY <1>1, <2>1, <3>1 DEF Matches, SetPaths, SetDirs, After, Before, Children
  <2> QED BY <1>4, <1>5, <2>5, <2>6, <2>7, <2>8 DEF Inv, SetPart, UndoPart
<1>8. CASE ~Unchanged(journal)
  <2> DEFINE k == Restrict(ghost.now, DOMAIN ghost.now \ ghost.stuck)
  <2>1. latest' = [changes |-> journal.changes, tainted |-> journal.tainted]
    BY <1>8 DEF EndTask, Sealed
  <2>2. k \in Stored /\ DOMAIN k = DOMAIN ghost.now \ ghost.stuck
        /\ \A p \in DOMAIN k : k[p] = ghost.now[p]
    BY <1>6, StoredRestrict, RestrictIs
  <2>3. ghost' = [[[[ghost EXCEPT !.kept = k] EXCEPT !.told = {}] EXCEPT !.unread = {}]
                    EXCEPT !.since = ghost.fresh]
    BY <1>8 DEF EndTask
  <2> HIDE DEF k
  <2>4. /\ ghost' \in Ghosts /\ ghost'.kept = k /\ ghost'.since = ghost.fresh
        /\ ghost'.author = ghost.author
    BY <1>1, <2>2, <2>3 DEF Ghosts
  <2>5. Types'
    BY <1>1, <1>2, <2>1, <2>4 DEF Inv, Types, DiskTypes, SetTypes, CallTypes, UndoTypes, Phases,
       CountTypes, Journals
  <2>6. /\ Known(latest') => journal.tainted = {}
        /\ SetPaths' = DOMAIN journal.changes
        /\ \A p : After(p)' = journal.changes[p].after /\ Before(p)' = journal.changes[p].before
        /\ DOMAIN journal.changes \subseteq DOMAIN ghost.now
    BY <2>1 DEF Known, SetPaths, After, Before, Inv, CallPart, TaskInv, JournalInv
  <2>7. SetInv'
    BY <1>1, <2>6, EndsTraced DEF SetInv
  <2>8. KeptInv'
    <3> SUFFICES ASSUME Known(latest'), NEW p \in DOMAIN k
                 PROVE  /\ p \in DOMAIN journal.changes =>
                              TextOf(journal.changes[p].before) = TextOf(k[p])
                        /\ p \notin DOMAIN journal.changes =>
                              ghost.author[p] = "other" \/ TextOf(disk[p]) = TextOf(k[p])
      BY <1>1, <1>2, <2>4, <2>6 DEF KeptInv
    <3> QED BY <1>1, <2>2, <2>6, EndsTraced
  <2>9. MatchInv'
    <3> SUFFICES ASSUME Known(latest'), ghost.fresh = {} PROVE Matches'
      BY <1>1, <2>4 DEF MatchInv, Undisturbed, Underway
    <3>1. /\ \A p \in DOMAIN ghost.now : ghost.author[p] # "other"
          /\ \A p \in Paths : Parent[p] \in DOMAIN ghost.now =>
                IF p \in DOMAIN ghost.now THEN ghost.now[p] = Absent ELSE disk[p] = Absent
      BY <1>1 DEF Inv, CallPart, Alone
    <3>2. \A p \in DOMAIN journal.changes : disk[p] = journal.changes[p].after
      BY <1>1, <2>6, <3>1, EndsTraced
    <3>3. ASSUME NEW d \in DOMAIN journal.changes \cap Dirs
          PROVE  /\ journal.changes[d].before = Absent /\ journal.changes[d].after # Absent
                 /\ \A q \in Paths : Parent[q] = d /\ disk[q] # Absent =>
                        q \in DOMAIN journal.changes /\ journal.changes[q].after # Absent
      <4>1. d \in DOMAIN ghost.now /\ ghost.now[d] = Absent
        BY <1>1, <2>6 DEF Inv, CallPart, TaskInv, JournalInv
      <4>2. journal.changes[d].before = Absent /\ journal.changes[d].after # Absent
        BY <1>1, <2>6, <4>1, EndsTraced
      <4>3. ASSUME NEW q \in Paths, Parent[q] = d, disk[q] # Absent
            PROVE  q \in DOMAIN journal.changes /\ journal.changes[q].after # Absent
        <5>1. q \in DOMAIN ghost.now /\ ghost.now[q] = Absent
          BY <3>1, <4>1, <4>3
        <5>2. journal.last[q] = disk[q]
          BY <1>1, <2>6, <3>1, <5>1, EndsTraced
        <5> QED BY <1>1, <2>6, <4>3, <5>1, <5>2, EndsTraced
      <4> QED BY <4>2, <4>3
    <3>4. \A q \in DOMAIN journal.changes : q \in Paths
      BY <1>6, <2>6
    <3>5. disk' = disk
      BY <1>1
    <3> QED BY <2>6, <3>2, <3>3, <3>4, <3>5 DEF Matches, SetDirs, Children
  <2> QED BY <1>4, <1>5, <2>5, <2>7, <2>8, <2>9 DEF Inv, SetPart, UndoPart
<1> QED BY <1>7, <1>8
-----------------------------------------------------------------------------
(***************************************************************************)
(* The undo                                                                *)
(***************************************************************************)
LEMMA UndoIs ==
    ASSUME Inv, undo.step # "idle"
    PROVE  /\ ~journal.active /\ Known(latest) /\ undo # NoUndo /\ undo \in Undos
           /\ call = NoCall /\ ghost \in Ghosts /\ DiskTypes /\ CountTypes
           /\ SetPaths \subseteq Paths /\ SetDirs \subseteq Dirs /\ SetDirs \subseteq SetPaths
           /\ \A p \in SetPaths : /\ After(p) \in NodesOf(p) /\ Before(p) \in NodesOf(p)
                                  /\ After(p) # Absent
           /\ undo.done \in Seq(Notes) /\ undo.gone \in Seq(Dirs) /\ undo.fixed \in Stored
<1>1. /\ ~journal.active /\ Known(latest) /\ undo # NoUndo /\ undo \in Undos
      /\ call = NoCall /\ ghost \in Ghosts /\ DiskTypes /\ CountTypes
  BY NoUndoIs, CallIs DEF Inv, Types, Phases, UndoTypes
<1>2. latest.changes \in Changes
  BY <1>1 DEF Inv, Types, SetTypes, Known
<1>3. /\ SetPaths \subseteq Paths
      /\ \A p \in SetPaths : After(p) \in NodesOf(p) /\ Before(p) \in NodesOf(p)
  BY <1>2, ChangesIs DEF SetPaths, After, Before, ChangesOf
<1>4. \A p \in SetPaths : After(p) # Absent
  BY <1>1 DEF Inv, SetPart, SetInv
<1> QED BY <1>1, <1>3, <1>4 DEF SetDirs, Undos

\* While no task is active nothing is claimed of a call.
LEMMA IdleFrame ==
    ASSUME Inv, ~journal.active, UNCHANGED <<journal, call>>
    PROVE  CallPart'
<1>1. call' = NoCall /\ journal' = Empty /\ ~journal'.active
  BY EmptyIs DEF Inv, Types, Phases, CallPart, TaskInv, JournalInv
<1>2. /\ CallInv' /\ Watched' /\ TodoInv' /\ DoneInv' /\ Housed' /\ FoundInv'
      /\ DOMAIN call'.made = {}
  BY <1>1, NoCallPart
<1>3. JournalInv' /\ TracedInv' /\ Alone'
  BY <1>1, <1>2, EmptyIs, ChangesEmpty DEF JournalInv, TracedInv, Alone
<1> QED BY <1>2, <1>3 DEF CallPart, TaskInv

\* A step of an undo that is about p.
LEMMA UndoGoes ==
    ASSUME Inv, Underway, Underway', NEW p \in SetPaths, UNCHANGED <<journal, latest, call, count>>,
           PutAt(p), ghost' = ghost \/ ghost' = Wrote(ghost, p) \/ ghost' = Lost(ghost, p),
           disk'[p] = Absent => p \in Files \/ Children(p) = {},
           disk'[p] # Absent => Within(p),
           undo' \in Undos, undo'.bound = undo.bound, \A q \in DOMAIN undo'.fixed : undo'.fixed[q] # Absent,
           UndoInv',
           undo'.step # "recover" => undo.step # "recover" /\
              \A q \in SetPaths \ (undo'.todo \cup undo'.dirs) :
                 \/ q = p /\ TextOf(disk'[p]) = TextOf(Before(p))
                 \/ q # p /\ q \notin undo.todo \cup undo.dirs,
           \A q \in SetPaths : q # p => /\ Noted(q) => Noted(q)'
                                        /\ q \in DOMAIN undo'.fixed <=> q \in DOMAIN undo.fixed
                                        /\ q \in DOMAIN undo.fixed => undo'.fixed[q] = undo.fixed[q],
           \/ Noted(p)' \/ p \in ghost'.unread
           \/ /\ disk'[p] = disk[p] /\ ghost' = ghost /\ undo'.fixed = undo.fixed /\ ~Noted(p)
           \/ /\ p \in DOMAIN undo'.fixed /\ disk'[p] = undo'.fixed[p]
              /\ TextOf(disk'[p]) = TextOf(After(p)),
           ~WithDirectories =>
              /\ (\A i \in DOMAIN undo.done : undo.done[i].backup = After(undo.done[i].path))
                    => \A i \in DOMAIN undo'.done : undo'.done[i].backup = After(undo'.done[i].path)
              /\ \A q \in DOMAIN undo'.fixed :
                    (q \in DOMAIN undo.fixed => undo.fixed[q] = After(q)) /\
                    (\A i \in DOMAIN undo.done : undo.done[i].backup = After(undo.done[i].path))
                        => undo'.fixed[q] = After(q)
    PROVE  Inv'
<1>1. /\ undo.step # "idle" /\ undo'.step # "idle" /\ undo' # NoUndo
  BY NoUndoIs DEF Underway
<1>2. /\ ~journal.active /\ Known(latest) /\ undo # NoUndo /\ p \in Paths /\ SetPaths \subseteq Paths
      /\ ghost \in Ghosts /\ DiskTypes /\ CountTypes
  BY <1>1, UndoIs
<1>3. /\ ghost' \in Ghosts /\ ghost'.now = ghost.now /\ ghost'.kept = ghost.kept
      /\ ghost'.told = ghost.told /\ ghost'.since = ghost.since
      /\ ghost.unread \subseteq ghost'.unread
      /\ \A q \in Paths : q # p => ghost'.author[q] = ghost.author[q]
  <2>1. CASE ghost' = ghost
    BY <1>2, <2>1
  <2>2. CASE ghost' = Wrote(ghost, p)
    <3>1. /\ ghost' \in Ghosts /\ ghost'.now = ghost.now /\ ghost'.kept = ghost.kept
          /\ ghost'.told = ghost.told /\ ghost'.since = ghost.since
          /\ ghost'.unread = ghost.unread
          /\ ghost'.author = [ghost.author EXCEPT ![p] = "task"]
      BY <1>2, <2>2, WroteIs
    <3>2. ghost.author \in [Paths -> {"start", "task", "other"}]
      BY <1>2 DEF Ghosts
    <3> QED BY <3>1, <3>2
  <2>3. CASE ghost' = Lost(ghost, p)
    BY <1>2, <2>3, LostIs
  <2> QED BY <2>1, <2>2, <2>3
<1>4. CallPart' /\ SetPart'
  BY <1>2, <1>3, UndoFrame DEF PutAt
<1>5. Types'
  <2>1. DiskTypes'
    BY <1>2, PutTypes
  <2> QED BY <1>1, <1>2, <1>3, <2>1 DEF Inv, Types, SetTypes, CallTypes, UndoTypes, CountTypes,
             Phases, Known
<1>6. Tree'
  BY <1>2, TreePut DEF Inv
<1>7. Bound'
  BY <1>1 DEF Inv, UndoPart, Bound, SetPaths, After, Before, Underway
<1>8. RestoredInv'
  <2> SUFFICES ASSUME undo'.step # "recover", NEW q \in SetPaths \ (undo'.todo \cup undo'.dirs),
                      ghost'.author[q] # "other"
               PROVE  TextOf(disk'[q]) = TextOf(Before(q))
    BY DEF RestoredInv, SetPaths, Before
  <2>1. CASE q = p /\ TextOf(disk'[p]) = TextOf(Before(p))
    BY <2>1
  <2>2. CASE q # p /\ q \notin undo.todo \cup undo.dirs
    <3>1. q \in Paths /\ ghost.author[q] # "other" /\ disk'[q] = disk[q]
      BY <1>2, <1>3, <2>2 DEF PutAt
    <3> QED BY <2>2, <3>1 DEF Inv, UndoPart, RestoredInv
  <2> QED BY <2>1, <2>2
<1>9. NotedInv'
  <2> SUFFICES ASSUME NEW q \in SetPaths, ~Noted(q)', ghost'.author[q] # "other",
                      q \notin ghost'.unread
               PROVE  TextOf(disk'[q]) = TextOf(After(q))
    BY DEF NotedInv, SetPaths, After
  <2>1. CASE q = p
    BY <1>3, <2>1 DEF Inv, UndoPart, NotedInv
  <2>2. CASE q # p
    <3>1. q \in Paths /\ ghost.author[q] # "other" /\ disk'[q] = disk[q] /\ ~Noted(q)
          /\ q \notin ghost.unread
      BY <1>2, <1>3, <2>2 DEF PutAt
    <3> QED BY <2>2, <3>1 DEF Inv, UndoPart, NotedInv
  <2> QED BY <2>1, <2>2
<1>10. MatchInv'
  <2> SUFFICES ASSUME Undisturbed, ghost'.unread = {} PROVE AsBound'
    BY <1>1, <1>3 DEF MatchInv, Undisturbed, Known, Underway
  <2>1. AsBound
    BY DEF Inv, UndoPart, MatchInv
  <2>2. \A q \in Paths \ SetPaths : disk'[q] = undo'.bound[q]
    BY <2>1 DEF AsBound, PutAt
  <2>3. \A q \in Paths : Parent[q] \in SetDirs /\ undo'.bound[q] # Absent => q \in SetPaths
    BY <2>1 DEF AsBound
  <2>4. ASSUME NEW q \in SetPaths, ~Noted(q)'
        PROVE  disk'[q] = IF q \in DOMAIN undo'.fixed THEN undo'.fixed[q] ELSE After(q)
    <3>1. CASE q = p
      BY <2>1, <2>4, <3>1 DEF AsBound
    <3>2. CASE q # p
      <4>1. q \in Paths /\ disk'[q] = disk[q] /\ ~Noted(q)
        BY <1>2, <2>4, <3>2 DEF PutAt
      <4> QED BY <2>1, <3>2, <4>1 DEF AsBound
    <3> QED BY <3>1, <3>2
  <2>5. ~WithDirectories =>
          /\ \A i \in DOMAIN undo'.done : undo'.done[i].backup = After(undo'.done[i].path)
          /\ \A q \in DOMAIN undo'.fixed : undo'.fixed[q] = After(q)
    BY <2>1 DEF AsBound
  <2> QED BY <2>2, <2>3, <2>4, <2>5 DEF AsBound, SetPaths, SetDirs, After, WithDirectories
<1> QED BY <1>4, <1>5, <1>6, <1>7, <1>8, <1>9, <1>10 DEF Inv, UndoPart

\* An undo that begins or ends and writes nothing.
LEMMA UndoTurns ==
    ASSUME Inv, ~journal.active, UNCHANGED <<disk, next, journal, latest, call>>,
           ghost' = ghost \/ ghost' = [ghost EXCEPT !.unread = {}], CountTypes', UndoTypes', undo' # NoUndo => Known(latest), UndoPart'
    PROVE  Inv'
<1>0. /\ ghost' \in Ghosts /\ ghost'.now = ghost.now /\ ghost'.kept = ghost.kept
      /\ ghost'.author = ghost.author
  BY CallIs DEF Ghosts
<1>1. CallPart' /\ SetPart'
  BY <1>0, UndoFrame
<1>2. Types'
  BY <1>0 DEF Inv, Types, DiskTypes, SetTypes, CallTypes, Phases, Known
<1>3. Tree'
  BY DEF Inv, Tree
<1> QED BY <1>1, <1>2, <1>3 DEF Inv

LEMMA PrepareUndoStep == Inv /\ PrepareUndo => Inv'
<1> SUFFICES ASSUME Inv, PrepareUndo PROVE Inv'
  OBVIOUS
<1>1. /\ ~journal.active /\ Known(latest) /\ Matches
      /\ undo' = [[NoUndo EXCEPT !.step = "previewed"] EXCEPT !.bound = disk]
      /\ ghost' = [ghost EXCEPT !.unread = {}]
      /\ UNCHANGED <<disk, next, journal, latest, call>>
  BY DEF PrepareUndo
<1>2. disk \in Stored
  <2>1. disk = [p \in DOMAIN disk |-> disk[p]] /\ DOMAIN disk = Paths
        /\ \A p \in DOMAIN disk : disk[p] \in NodesOf(p)
    BY CallIs DEF DiskTypes
  <2> QED BY <2>1, StoredIs
<1>3. /\ undo' \in Undos /\ undo'.step = "previewed" /\ undo'.bound = disk
      /\ undo'.fixed = NoPaths /\ undo'.done = <<>> /\ undo'.gone = <<>>
  BY <1>1, <1>2, NoUndoIs DEF Undos, UndoSteps
<1>4. CountTypes'
  BY CallIs DEF PrepareUndo, CountTypes
<1>5. UndoTypes'
  BY <1>3, StoredEmpty DEF UndoTypes
<1>6. Bound'
  BY <1>1, <1>3 DEF Bound, Matches, SetPaths, SetDirs, After, Before
<1>7. UndoInv' /\ RestoredInv' /\ NotedInv'
  BY <1>3 DEF UndoInv, RestoredInv, NotedInv, Underway
<1>8. MatchInv'
  BY <1>1, <1>3 DEF MatchInv, Underway, Matches, SetPaths, SetDirs, After, Before, Children
<1> QED BY <1>1, <1>4, <1>5, <1>6, <1>7, <1>8, UndoTurns DEF UndoPart

\* Back to no undo, with the set as it was previewed.
LEMMA UndoLeft ==
    ASSUME Inv, undo.step = "previewed", undo' = NoUndo,
           UNCHANGED <<disk, next, journal, latest, call, count, ghost>>
    PROVE  Inv'
<1>1. undo'.step = "idle" /\ ~journal.active
  BY NoUndoIs, UndoIs
<1>2. CountTypes' /\ UndoTypes'
  BY <1>1, NoUndoIs, StoredEmpty, CallIs DEF CountTypes, UndoTypes
<1>3. Bound' /\ UndoInv' /\ RestoredInv' /\ NotedInv'
  BY <1>1 DEF Bound, UndoInv, RestoredInv, NotedInv, Underway
<1>4. MatchInv'
  <2> SUFFICES ASSUME Undisturbed PROVE Matches'
    BY <1>1 DEF MatchInv, Undisturbed, Known, Underway
  <2>1. Matches
    BY <1>1 DEF Inv, UndoPart, MatchInv
  <2> QED BY <2>1 DEF Matches, SetPaths, SetDirs, After, Before, Children
<1> QED BY <1>1, <1>2, <1>3, <1>4, UndoTurns DEF UndoPart

LEMMA StartUndoStep == Inv /\ StartUndo => Inv'
<1> SUFFICES ASSUME Inv, StartUndo PROVE Inv'
  OBVIOUS
<1>1. undo.step = "previewed" /\ UNCHANGED <<disk, next, journal, latest, call, count, ghost>>
  BY DEF StartUndo
<1>2. CASE disk # undo.bound
  BY <1>1, <1>2, UndoLeft DEF StartUndo
<1>3. CASE disk = undo.bound
  <2> DEFINE todo == SetPaths \cap Files
  <2>1. undo' = [[[undo EXCEPT !.step = "files"] EXCEPT !.todo = todo] EXCEPT !.dirs = SetDirs]
    BY <1>3 DEF StartUndo
  <2>2. /\ ~journal.active /\ Known(latest) /\ undo \in Undos /\ SetPaths \subseteq Paths
        /\ SetDirs \subseteq Dirs /\ todo \subseteq Files /\ SetDirs = SetPaths \cap Dirs
        /\ \A p \in DOMAIN undo.fixed : undo.fixed[p] # Absent
    BY <1>1, UndoIs DEF SetDirs, Inv, Types, UndoTypes
  <2>3. undo.done = <<>> /\ undo.gone = <<>> /\ DOMAIN undo.fixed = {} /\ DOMAIN undo.done = {}
        /\ DOMAIN undo.gone = {} /\ \A p \in SetPaths : undo.bound[p] = After(p)
        /\ \A d \in SetDirs : Before(d) = Absent
    BY <1>1, <2>2, StoredEmpty, EmptySeqs DEF Inv, UndoPart, Bound
  <2> HIDE DEF todo
  <2>4. /\ undo' \in Undos /\ undo'.step = "files" /\ undo'.todo = todo /\ undo'.dirs = SetDirs
        /\ undo'.done = undo.done /\ undo'.gone = undo.gone /\ undo'.fixed = undo.fixed
        /\ undo'.bound = undo.bound /\ undo'.failed = undo.failed
    BY <2>1, <2>2 DEF Undos, UndoSteps
  <2>5. CountTypes' /\ UndoTypes'
    BY <1>1, <2>2, <2>4, CallIs DEF CountTypes, UndoTypes
  <2>6. Bound'
    BY <1>1, <2>4 DEF Inv, UndoPart, Bound, SetPaths, After, Before
  <2>7. UndoInv'
    BY <1>1, <2>2, <2>3, <2>4 DEF UndoInv, SetPaths, SetDirs, todo
  <2>8. RestoredInv'
    <3>1. SetPaths \subseteq todo \cup SetDirs
      BY <2>2 DEF todo, Paths
    <3> QED BY <1>1, <2>4, <3>1 DEF RestoredInv, SetPaths
  <2>9. NotedInv'
    BY <1>1, <1>3, <2>3 DEF NotedInv, SetPaths, After
  <2>10. MatchInv'
    <3> SUFFICES ASSUME Undisturbed PROVE AsBound'
      BY <1>1, <2>4 DEF MatchInv, Undisturbed, Known, Underway
    <3>1. Matches
      BY <1>1, <2>2 DEF Inv, UndoPart, MatchInv
    <3>2. \A p \in Paths : Parent[p] \in SetDirs /\ disk[p] # Absent => p \in SetPaths
      BY <3>1 DEF Matches, Children
    <3> QED BY <1>1, <1>3, <2>3, <2>4, <3>2 DEF AsBound, SetPaths, SetDirs, After, WithDirectories
  <2> QED BY <1>1, <2>2, <2>5, <2>6, <2>7, <2>8, <2>9, <2>10, UndoTurns DEF UndoPart
<1> QED BY <1>2, <1>3

LEMMA CancelUndoStep == Inv /\ CancelUndo => Inv'
BY UndoLeft DEF CancelUndo

\* An undo that stops where it is and turns back.
LEMMA UndoStops ==
    ASSUME Inv, undo.step \in {"files", "restore", "confirm", "directories"}, NEW p \in SetPaths,
           undo.step = "confirm" => p = undo.item,
           \/ ghost' = Lost(ghost, p)
           \/ ghost' = ghost /\ (undo.step = "confirm" => p \in PathsOf(undo.done)),
           undo' = Recovering(undo), UNCHANGED <<disk, next, journal, latest, call, count>>
    PROVE  Inv'
<1>1. Underway /\ undo.step # "idle" /\ undo \in Undos /\ p \in Paths /\ DiskTypes
      /\ \A q \in DOMAIN undo.fixed : undo.fixed[q] # Absent
  BY UndoIs DEF Underway, Inv, Types, UndoTypes
<1>2. /\ undo' \in Undos /\ undo'.step = "recover" /\ undo'.bound = undo.bound
      /\ undo'.todo = undo.todo /\ undo'.dirs = undo.dirs /\ undo'.done = undo.done
      /\ undo'.gone = undo.gone /\ undo'.fixed = undo.fixed /\ undo'.failed = undo.failed
  <2>1. undo' = [[undo EXCEPT !.item = Root] EXCEPT !.step = "recover"]
    BY DEF Recovering
  <2> QED BY <1>1, <2>1 DEF Undos, UndoSteps
<1>3. Underway' /\ UndoInv'
  BY <1>1, <1>2 DEF Underway, Inv, UndoPart, UndoInv, SetPaths, SetDirs
<1>4. PutAt(p)
  BY <1>1 DEF PutAt, DiskTypes
<1>5. /\ disk'[p] = Absent => p \in Files \/ p \notin Files
      /\ disk'[p] # Absent => Within(p)
  BY <1>1 DEF Inv, Tree, Within
<1>6. disk'[p] = Absent => p \in Files \/ Children(p) = {}
  <2> SUFFICES ASSUME disk[p] = Absent PROVE Children(p) = {}
    OBVIOUS
  <2>1. p # Root
    BY <1>1, ParentAssumption
  <2> QED BY <2>1 DEF Inv, Tree, Children
<1>7. \A q \in SetPaths : q # p => (Noted(q) => Noted(q)')
  BY <1>2 DEF Noted, PathsOf
<1>8. \/ Noted(p)' \/ p \in ghost'.unread
      \/ ghost' = ghost /\ ~Noted(p)
  <2>1. CASE ghost' = Lost(ghost, p)
    <3>1. ghost \in Ghosts
      BY <1>1, UndoIs
    <3> QED BY <1>1, <2>1, <3>1, LostIs
  <2>2. CASE ghost' = ghost /\ (undo.step = "confirm" => p \in PathsOf(undo.done))
    BY <1>2, <2>2 DEF Noted, PathsOf
  <2> QED BY <2>1, <2>2
<1> QED BY <1>1, <1>2, <1>3, <1>4, <1>5, <1>6, <1>7, <1>8, UndoGoes

LEMMA UndoCheckStep == ASSUME NEW p \in Files PROVE Inv /\ UndoCheck(p) => Inv'
<1> SUFFICES ASSUME Inv, UndoCheck(p) PROVE Inv'
  OBVIOUS
<1>1. /\ undo.step = "files" /\ p \in undo.todo /\ Underway
      /\ UNCHANGED <<disk, next, journal, latest, call, count, ghost>>
  BY DEF UndoCheck, Underway
<1>2. /\ undo \in Undos /\ p \in SetPaths /\ p \in Paths /\ DiskTypes
      /\ \A q \in DOMAIN undo.fixed : undo.fixed[q] # Absent
      /\ After(p) \in FileNodes /\ undo.done \in Seq(Notes)
  BY <1>1, UndoIs, NodeKinds DEF Inv, Types, UndoTypes, UndoPart, UndoInv
<1>3. CASE undo' = Recovering(undo)
  BY <1>1, <1>2, <1>3, UndoStops
<1>4. CASE undo' = [Begun(undo, p) EXCEPT !.step = "restore", !.item = p]
  <2> DEFINE e == [path |-> p, restored |-> After(p), published |-> Absent, backup |-> After(p)]
  <2>1. PICK d : /\ undo' = [[[undo EXCEPT !.done = d] EXCEPT !.step = "restore"] EXCEPT !.item = p]
                 /\ WithDirectories => d = undo.done
                 /\ ~WithDirectories => d = Append(undo.done, e)
    <3>1. CASE WithDirectories
      <4>1. undo' = [[[undo EXCEPT !.done = undo.done] EXCEPT !.step = "restore"] EXCEPT !.item = p]
        BY <1>2, <1>4, <3>1 DEF Begun, Undos
      <4> QED BY <3>1, <4>1
    <3>2. CASE ~WithDirectories
      BY <1>4, <3>2 DEF Begun
    <3> QED BY <3>1, <3>2
  <2>2. e \in Notes /\ e.path = p /\ e.backup = After(p)
    BY <1>2, NodeKinds DEF Notes, FileNodes
  <2> HIDE DEF e
  <2>3. /\ Append(undo.done, e) \in Seq(Notes) /\ Append(undo.done, e) # <<>>
        /\ Last(Append(undo.done, e)) = e
        /\ DOMAIN Append(undo.done, e) = DOMAIN undo.done \cup {Len(undo.done) + 1}
        /\ Append(undo.done, e)[Len(undo.done) + 1] = e
        /\ \A i \in DOMAIN undo.done : Append(undo.done, e)[i] = undo.done[i]
    BY <1>2, <2>2, AppendIs DEF Last
  <2>4. /\ d \in Seq(Notes) /\ DOMAIN undo.done \subseteq DOMAIN d
        /\ \A i \in DOMAIN undo.done : d[i] = undo.done[i]
        /\ \A i \in DOMAIN d : i \in DOMAIN undo.done \/ (~WithDirectories /\ d[i] = e)
        /\ ~WithDirectories => d # <<>> /\ Last(d) = e
    BY <1>2, <2>1, <2>3
  <2>5. /\ undo' \in Undos /\ undo'.step = "restore" /\ undo'.bound = undo.bound
        /\ undo'.todo = undo.todo /\ undo'.dirs = undo.dirs /\ undo'.done = d
        /\ undo'.gone = undo.gone /\ undo'.fixed = undo.fixed /\ undo'.failed = undo.failed
        /\ undo'.item = p
    BY <1>2, <2>1, <2>4 DEF Undos, UndoSteps
  <2>6. Underway' /\ UndoInv'
    BY <1>1, <1>2, <2>2, <2>4, <2>5 DEF Underway, Inv, UndoPart, UndoInv, SetPaths, SetDirs, WithDirectories
  <2>7. PutAt(p)
    BY <1>1, <1>2 DEF PutAt, DiskTypes
  <2>8. disk'[p] # Absent => Within(p)
    BY <1>1, <1>2 DEF Inv, Tree, Within
  <2>9. \A q \in SetPaths : Noted(q) => Noted(q)'
    <3>1. PathsOf(undo.done) \subseteq PathsOf(undo'.done)
      BY <2>4, <2>5 DEF PathsOf
    <3> QED BY <1>1, <2>5, <3>1 DEF Noted
  <2>10. (\A i \in DOMAIN undo.done : undo.done[i].backup = After(undo.done[i].path))
            => \A i \in DOMAIN undo'.done : undo'.done[i].backup = After(undo'.done[i].path)
    BY <2>2, <2>4, <2>5
  <2>11. undo'.step # "recover" => undo.step # "recover" /\
              \A q \in SetPaths \ (undo'.todo \cup undo'.dirs) :
                 q # p /\ q \notin undo.todo \cup undo.dirs
    BY <1>1, <2>5
  <2>12. \/ Noted(p)'
         \/ disk'[p] = disk[p] /\ ghost' = ghost /\ undo'.fixed = undo.fixed /\ ~Noted(p)
    BY <1>1, <1>2, <2>5, <2>9
  <2> QED BY <1>1, <1>2, <2>5, <2>6, <2>7, <2>8, <2>9, <2>10, <2>11, <2>12, UndoGoes
<1> QED BY <1>3, <1>4 DEF UndoCheck

\* What is noted of a file in the last note, and whether the notes keep their backups.
LEMMA PublishedIs ==
    ASSUME NEW u \in Undos, NEW p, NEW n \in FileNodes, NEW v, v = Published(u, p, n)
    PROVE  \E d : /\ v = [u EXCEPT !.done = d]
                  /\ d \in Seq(Notes) /\ DOMAIN d = DOMAIN u.done
                  /\ \A i \in DOMAIN d : d[i].path = u.done[i].path /\ d[i].backup = u.done[i].backup
                  /\ u.done # <<>> => d # <<>> /\ Last(d).path = Last(u.done).path
<1> DEFINE s == u.done
           k == Len(s)
           f == [s[k] EXCEPT !.published = n]
           d == [s EXCEPT ![k] = f]
<1>1. s \in Seq(Notes)
  BY DEF Undos
<1>2. CASE k > 0 /\ s[k].path = p
  <2>1. k \in DOMAIN s /\ s[k] \in Notes
    BY <1>1, <1>2
  <2>2. f \in Notes /\ f.path = s[k].path /\ f.backup = s[k].backup
    BY <2>1 DEF Notes
  <2>3. v = [u EXCEPT !.done = d]
    BY <1>2 DEF Published
  <2> HIDE DEF f
  <2>4. /\ d \in Seq(Notes) /\ DOMAIN d = DOMAIN s /\ Len(d) = k
        /\ \A i \in DOMAIN d : d[i] = IF i = k THEN f ELSE s[i]
    BY <1>1, <2>1, <2>2
  <2>5. d # <<>> /\ Last(d) = f
    BY <2>1, <2>4 DEF Last
  <2> HIDE DEF d
  <2> QED BY <2>2, <2>3, <2>4, <2>5 DEF Last
<1>3. CASE ~(k > 0 /\ s[k].path = p)
  <2>1. v = u
    BY <1>3 DEF Published
  <2>2. v = [u EXCEPT !.done = s]
    BY <2>1 DEF Undos
  <2> QED BY <1>1, <2>2
<1> QED BY <1>2, <1>3

NotedAs(u, p, v) ==
    \E d : /\ v = [u EXCEPT !.done = d]
           /\ d \in Seq(Notes) /\ DOMAIN u.done \subseteq DOMAIN d
           /\ \A i \in DOMAIN u.done : d[i].path = u.done[i].path
                                   /\ d[i].backup = u.done[i].backup
           /\ \A i \in DOMAIN d : i \in DOMAIN u.done \/ d[i].path = p
           /\ p \in PathsOf(d)
           /\ ~WithDirectories /\ u.done # <<>> /\ Last(u.done).path = p
                 => DOMAIN d = DOMAIN u.done

LEMMA RestoredIs ==
    ASSUME NEW u \in Undos, NEW p \in Files, NEW n \in FileNodes, NEW v, v = Restored(u, p, n)
    PROVE  NotedAs(u, p, v)
<1> DEFINE s == u.done
           k == Len(s)
           f == [s[k] EXCEPT !.restored = n]
           e == [path |-> p, restored |-> n, published |-> Absent, backup |-> Absent]
<1>1. s \in Seq(Notes)
  BY DEF Undos
<1>2. CASE ~WithDirectories /\ k > 0 /\ s[k].path = p
  <2> DEFINE d == [s EXCEPT ![k] = f]
  <2>1. k \in DOMAIN s /\ s[k] \in Notes
    BY <1>1, <1>2
  <2>2. f \in Notes /\ f.path = s[k].path /\ f.backup = s[k].backup
    BY <2>1 DEF Notes
  <2>3. v = [u EXCEPT !.done = d]
    BY <1>2 DEF Restored
  <2> HIDE DEF f
  <2>4. /\ d \in Seq(Notes) /\ DOMAIN d = DOMAIN s /\ d[k] = f
        /\ \A i \in DOMAIN d : d[i] = IF i = k THEN f ELSE s[i]
    BY <1>1, <2>1, <2>2
  <2> HIDE DEF d
  <2>5. p \in PathsOf(d)
    BY <1>2, <2>1, <2>2, <2>4 DEF PathsOf
  <2> QED BY <2>2, <2>3, <2>4, <2>5 DEF NotedAs
<1>3. CASE ~(~WithDirectories /\ k > 0 /\ s[k].path = p)
  <2> DEFINE d == Append(s, e)
  <2>1. e \in Notes /\ e.path = p
    BY DEF Notes, FileNodes
  <2>2. v = [u EXCEPT !.done = d]
    BY <1>3 DEF Restored
  <2> HIDE DEF e
  <2>3. /\ d \in Seq(Notes) /\ DOMAIN d = DOMAIN s \cup {k + 1}
        /\ d[k + 1] = e /\ \A i \in DOMAIN s : d[i] = s[i]
    BY <1>1, <2>1, AppendIs
  <2> HIDE DEF d
  <2>4. p \in PathsOf(d)
    BY <2>1, <2>3 DEF PathsOf
  <2>5. ~(~WithDirectories /\ s # <<>> /\ Last(s).path = p)
    BY <1>1, <1>3 DEF Last
  <2> QED BY <2>1, <2>2, <2>3, <2>4, <2>5 DEF NotedAs
<1> QED BY <1>2, <1>3

LEMMA UndoPublishStep == Inv /\ UndoPublish => Inv'
<1> SUFFICES ASSUME Inv, UndoPublish PROVE Inv'
  OBVIOUS
<1>0. PICK p : p = undo.item
  OBVIOUS
<1>1. /\ undo.step = "restore" /\ Underway /\ undo.step # "idle"
      /\ UNCHANGED <<journal, latest, call, count>>
  BY DEF UndoPublish, Underway
<1>2. /\ undo \in Undos /\ p \in undo.todo /\ p \in SetPaths /\ p \in Paths /\ p \in Files
      /\ DiskTypes /\ ghost \in Ghosts
      /\ \A q \in DOMAIN undo.fixed : undo.fixed[q] # Absent
      /\ Before(p) \in FileNodes /\ undo.done \in Seq(Notes)
  BY <1>0, <1>1, UndoIs, KindAssumption DEF Inv, Types, UndoTypes, UndoPart, UndoInv, Undos, NodesOf
<1>3. CASE undo' = Recovering(undo) /\ UNCHANGED <<disk, next, ghost>>
  BY <1>1, <1>2, <1>3, UndoStops
<1>4. CASE ghost' = Wrote(ghost, p) /\
           IF Before(p) = Absent
           THEN /\ disk[p] # Absent
                /\ disk' = [disk EXCEPT ![p] = Absent]
                /\ undo' = [undo EXCEPT !.step = "confirm"]
                /\ UNCHANGED next
           ELSE /\ Within(p)
                /\ Put(p, Node(Before(p).text))
                /\ undo' = [Published(undo, p, Node(Before(p).text)) EXCEPT !.step = "confirm"]
  <2>1. PICK d : /\ undo' = [[undo EXCEPT !.done = d] EXCEPT !.step = "confirm"]
                 /\ d \in Seq(Notes) /\ DOMAIN d = DOMAIN undo.done
                 /\ \A i \in DOMAIN d : d[i].path = undo.done[i].path
                                    /\ d[i].backup = undo.done[i].backup
                 /\ undo.done # <<>> => d # <<>> /\ Last(d).path = Last(undo.done).path
    <3>1. CASE Before(p) = Absent
      <4>1. undo' = [[undo EXCEPT !.done = undo.done] EXCEPT !.step = "confirm"]
        BY <1>2, <1>4, <3>1 DEF Undos
      <4> QED BY <1>2, <4>1
    <3>2. CASE Before(p) # Absent
      <4>1. Node(Before(p).text) \in FileNodes
        BY <1>2, <3>2, NextNode DEF FileNodes, DiskTypes
      <4>2. undo' = [Published(undo, p, Node(Before(p).text)) EXCEPT !.step = "confirm"]
        BY <1>4, <3>2
      <4>3. PICK n, v : n = Node(Before(p).text) /\ v = Published(undo, p, n)
        OBVIOUS
      <4>4. PICK d : /\ v = [undo EXCEPT !.done = d]
                     /\ d \in Seq(Notes) /\ DOMAIN d = DOMAIN undo.done
                     /\ \A i \in DOMAIN d : d[i].path = undo.done[i].path
                                        /\ d[i].backup = undo.done[i].backup
                     /\ undo.done # <<>> => d # <<>> /\ Last(d).path = Last(undo.done).path
        BY <1>2, <4>1, <4>3, PublishedIs
      <4>5. undo' = [[undo EXCEPT !.done = d] EXCEPT !.step = "confirm"]
        BY <4>2, <4>3, <4>4
      <4> QED BY <4>4, <4>5
    <3> QED BY <3>1, <3>2
  <2>2. PutAt(p) /\ TextOf(disk'[p]) = TextOf(Before(p)) /\ (disk'[p] # Absent => Within(p))
    <3>1. CASE Before(p) = Absent
      <4>1. Absent \in NodesOf(p)
        BY <1>2, NodeKinds
      <4>2. disk' = [disk EXCEPT ![p] = Absent] /\ next' = next
        BY <1>4, <3>1
      <4>3. PutAt(p) /\ disk'[p] = Absent
        BY <1>2, <4>1, <4>2, SetAtIs
      <4> QED BY <3>1, <4>3
    <3>2. CASE Before(p) # Absent
      <4>1. /\ Node(Before(p).text) \in NodesOf(p) /\ Node(Before(p).text) # Absent
            /\ Node(Before(p).text).text = Before(p).text
        BY <1>2, <3>2, NextNode, KindAssumption DEF FileNodes, NodesOf, DiskTypes
      <4>2. Within(p) /\ Put(p, Node(Before(p).text))
        BY <1>4, <3>2
      <4>3. PutAt(p) /\ disk'[p] = Node(Before(p).text)
        BY <1>2, <4>1, <4>2, PutIs
      <4> QED BY <3>2, <4>1, <4>2, <4>3 DEF TextOf
    <3> QED BY <3>1, <3>2
  <2>3. /\ undo' \in Undos /\ undo'.step = "confirm" /\ undo'.bound = undo.bound
        /\ undo'.todo = undo.todo /\ undo'.dirs = undo.dirs /\ undo'.done = d
        /\ undo'.gone = undo.gone /\ undo'.fixed = undo.fixed /\ undo'.failed = undo.failed
        /\ undo'.item = undo.item
    BY <1>2, <2>1 DEF Undos, UndoSteps
  <2>4. Underway' /\ UndoInv'
    BY <1>0, <1>1, <1>2, <2>1, <2>3 DEF Underway, Inv, UndoPart, UndoInv, SetPaths, SetDirs, WithDirectories
  <2>5. \A q \in SetPaths : q # p => (Noted(q) => Noted(q)')
    <3>1. PathsOf(undo.done) \subseteq PathsOf(undo'.done)
      BY <2>1, <2>3 DEF PathsOf
    <3> QED BY <1>1, <2>3, <3>1 DEF Noted
  <2>6. Noted(p)'
    BY <1>0, <1>1, <2>2, <2>3 DEF Noted, Before
  <2>7. (\A i \in DOMAIN undo.done : undo.done[i].backup = After(undo.done[i].path))
            => \A i \in DOMAIN undo'.done : undo'.done[i].backup = After(undo'.done[i].path)
    BY <2>1, <2>3
  <2>8. undo'.step # "recover" => undo.step # "recover" /\
              \A q \in SetPaths \ (undo'.todo \cup undo'.dirs) :
                 q # p /\ q \notin undo.todo \cup undo.dirs
    BY <1>1, <1>2, <2>3
  <2>9. undo.todo \subseteq Files
    BY <1>2 DEF Undos
  <2>10. ghost' = Wrote(ghost, p)
    BY <1>4
  <2> QED BY <1>1, <1>2, <2>2, <2>3, <2>4, <2>5, <2>6, <2>7, <2>8, <2>9, <2>10, UndoGoes
<1> QED BY <1>0, <1>3, <1>4 DEF UndoPublish

LEMMA ForwardIs ==
    ASSUME NEW u \in Undos, NEW v, v = Forward(u)
    PROVE  /\ v \in Undos /\ v.bound = u.bound /\ v.todo = u.todo /\ v.dirs = u.dirs
           /\ v.done = u.done /\ v.gone = u.gone /\ v.fixed = u.fixed /\ v.failed = u.failed
           /\ v.item = Root
           /\ v.step = IF u.todo # {} THEN "files"
                       ELSE IF u.dirs # {} THEN "directories" ELSE "undone"
<1> DEFINE s == IF u.todo # {} THEN "files" ELSE IF u.dirs # {} THEN "directories" ELSE "undone"
<1>1. v = [[u EXCEPT !.item = Root] EXCEPT !.step = s] /\ s \in UndoSteps
  BY DEF Forward, UndoSteps
<1> HIDE DEF s
<1>2. /\ v \in Undos /\ v.bound = u.bound /\ v.todo = u.todo /\ v.dirs = u.dirs
      /\ v.done = u.done /\ v.gone = u.gone /\ v.fixed = u.fixed /\ v.failed = u.failed
      /\ v.item = Root /\ v.step = s
  BY <1>1 DEF Undos
<1> QED BY <1>2 DEF s

\* What goes on one path further.
LEMMA UndoForward ==
    ASSUME Inv, Underway, undo.step # "recover", NEW p \in SetPaths,
           UNCHANGED <<journal, latest, call, count>>, PutAt(p),
           ghost' = ghost \/ ghost' = Wrote(ghost, p),
           disk'[p] = Absent => p \in Files \/ Children(p) = {},
           disk'[p] # Absent => Within(p),
           NEW u \in Undos, undo' = Forward(u),
           u.bound = undo.bound, u.fixed = undo.fixed, u.failed = undo.failed,
           u.todo = undo.todo \ {p}, u.dirs = undo.dirs \ {p},
           PathsOf(undo.done) \subseteq PathsOf(u.done), PathsOf(u.done) \subseteq SetPaths,
           Range(undo.gone) \subseteq Range(u.gone), Range(u.gone) \subseteq SetDirs,
           p \in PathsOf(u.done) \cup Range(u.gone),
           TextOf(disk'[p]) = TextOf(Before(p)),
           undo.step = "confirm" => undo.item = p,
           ~WithDirectories =>
              ((\A i \in DOMAIN undo.done : undo.done[i].backup = After(undo.done[i].path))
                    => \A i \in DOMAIN u.done : u.done[i].backup = After(u.done[i].path))
    PROVE  Inv'
<1>1. /\ undo' \in Undos /\ undo'.bound = undo.bound /\ undo'.todo = undo.todo \ {p}
      /\ undo'.dirs = undo.dirs \ {p}
      /\ undo'.done = u.done /\ undo'.gone = u.gone /\ undo'.fixed = undo.fixed
      /\ undo'.failed = undo.failed
      /\ undo'.step = IF undo'.todo # {} THEN "files"
                       ELSE IF undo'.dirs # {} THEN "directories" ELSE "undone"
  BY ForwardIs
<1>2. Underway'
  BY <1>1 DEF Underway
<1>3. UndoInv'
  <2>1. /\ undo.todo \subseteq SetPaths /\ undo.dirs \subseteq SetDirs
    BY DEF Inv, UndoPart, UndoInv
  <2>2. \A i \in DOMAIN undo'.done : undo'.done[i].path \in SetPaths
    BY <1>1 DEF PathsOf
  <2>3. \A i \in DOMAIN undo'.gone : undo'.gone[i] \in SetDirs
    BY <1>1 DEF Range
  <2> QED BY <1>1, <2>1, <2>2, <2>3 DEF UndoInv, SetPaths, SetDirs
<1>4. \A q \in DOMAIN undo'.fixed : undo'.fixed[q] # Absent
  BY <1>1 DEF Inv, Types, UndoTypes
<1>5. \A q \in SetPaths : q # p => (Noted(q) => Noted(q)')
  BY <1>1 DEF Noted
<1>6. Noted(p)'
  BY <1>1 DEF Noted
<1>7. \A q \in SetPaths \ (undo'.todo \cup undo'.dirs) :
          \/ q = p /\ TextOf(disk'[p]) = TextOf(Before(p))
          \/ q # p /\ q \notin undo.todo \cup undo.dirs
  BY <1>1
<1>8. ~WithDirectories =>
         ((\A i \in DOMAIN undo.done : undo.done[i].backup = After(undo.done[i].path))
            => \A i \in DOMAIN undo'.done : undo'.done[i].backup = After(undo'.done[i].path))
  BY <1>1
<1> QED BY <1>1, <1>2, <1>3, <1>4, <1>5, <1>6, <1>7, <1>8, UndoGoes

LEMMA UndoConfirmStep == Inv /\ UndoConfirm => Inv'
<1> SUFFICES ASSUME Inv, UndoConfirm PROVE Inv'
  OBVIOUS
<1>0. PICK p : p = undo.item
  OBVIOUS
<1>1. /\ undo.step = "confirm" /\ Underway /\ undo.step # "idle"
      /\ UNCHANGED <<disk, next, journal, latest, call, count>>
  BY DEF UndoConfirm, Underway
<1>2. /\ undo \in Undos /\ p \in undo.todo /\ p \in SetPaths /\ p \in Paths /\ p \in Files
      /\ DiskTypes /\ disk[p] \in FileNodes /\ undo.dirs \subseteq Dirs
      /\ undo.done \in Seq(Notes) /\ undo.gone \in Seq(Dirs)
      /\ ~WithDirectories => undo.done # <<>> /\ Last(undo.done).path = p
      /\ \A i \in DOMAIN undo.done : undo.done[i].path \in SetPaths
      /\ \A i \in DOMAIN undo.gone : undo.gone[i] \in SetDirs
  BY <1>0, <1>1, UndoIs, KindAssumption
     DEF Inv, Types, DiskTypes, UndoPart, UndoInv, Undos, NodesOf
<1>3. CASE /\ undo' = Recovering(undo)
           /\ ghost' = IF WithDirectories THEN Lost(ghost, p) ELSE ghost
  <2>1. WithDirectories \/ p \in PathsOf(undo.done)
    BY <1>2 DEF PathsOf, Last
  <2>2. \/ ghost' = Lost(ghost, p)
        \/ ghost' = ghost /\ p \in PathsOf(undo.done)
    BY <1>3, <2>1
  <2> QED BY <1>0, <1>1, <1>2, <1>3, <2>2, UndoStops
<1>4. CASE /\ TextOf(disk[p]) = TextOf(Before(p))
           /\ undo' = Forward([Restored(undo, p, disk[p]) EXCEPT !.todo = @ \ {p}])
           /\ ghost' = ghost
  <2>0. PICK n, v : n = disk[p] /\ v = Restored(undo, p, n)
    OBVIOUS
  <2>1. PICK d : /\ v = [undo EXCEPT !.done = d]
                 /\ d \in Seq(Notes) /\ DOMAIN undo.done \subseteq DOMAIN d
                 /\ \A i \in DOMAIN undo.done : d[i].path = undo.done[i].path
                                         /\ d[i].backup = undo.done[i].backup
                 /\ \A i \in DOMAIN d : i \in DOMAIN undo.done \/ d[i].path = p
                 /\ p \in PathsOf(d)
                 /\ ~WithDirectories /\ undo.done # <<>> /\ Last(undo.done).path = p
                       => DOMAIN d = DOMAIN undo.done
    <3>1. undo \in Undos /\ p \in Files /\ n \in FileNodes
      BY <1>2, <2>0
    <3>2. NotedAs(undo, p, v)
      BY <2>0, <3>1, RestoredIs
    <3> QED BY <3>2 DEF NotedAs
  <2>2. PICK u : u = [[undo EXCEPT !.done = d] EXCEPT !.todo = undo.todo \ {p}]
    OBVIOUS
  <2>3. [Restored(undo, p, disk[p]) EXCEPT !.todo = @ \ {p}] = u
    BY <1>2, <2>0, <2>1, <2>2 DEF Undos
  <2>4. undo' = Forward(u)
    BY <1>4, <2>3
  <2>5. /\ u \in Undos /\ u.bound = undo.bound /\ u.fixed = undo.fixed
        /\ u.failed = undo.failed /\ u.todo = undo.todo \ {p} /\ u.dirs = undo.dirs
        /\ u.done = d /\ u.gone = undo.gone
    BY <1>2, <2>1, <2>2 DEF Undos
  <2>6. u.dirs = undo.dirs \ {p}
    BY <1>2, <2>5, KindAssumption
  <2>7. PathsOf(undo.done) \subseteq PathsOf(u.done) /\ PathsOf(u.done) \subseteq SetPaths
    <3>1. \A i \in DOMAIN d : d[i].path \in SetPaths
      BY <1>2, <2>1
    <3> QED BY <2>1, <2>5, <3>1 DEF PathsOf
  <2>8. Range(u.gone) \subseteq SetDirs
    BY <1>2, <2>5 DEF Range
  <2>9. ~WithDirectories =>
          ((\A i \in DOMAIN undo.done : undo.done[i].backup = After(undo.done[i].path))
            => \A i \in DOMAIN u.done : u.done[i].backup = After(u.done[i].path))
    BY <1>2, <2>1, <2>5
  <2>10. PutAt(p) /\ (disk'[p] # Absent => Within(p))
    BY <1>1, <1>2 DEF PutAt, DiskTypes, Inv, Tree, Within
  <2> QED BY <1>0, <1>1, <1>2, <1>4, <2>1, <2>4, <2>5, <2>6, <2>7, <2>8, <2>9, <2>10, UndoForward
<1> QED BY <1>0, <1>3, <1>4 DEF UndoConfirm

LEMMA UndoDirectoryStep == ASSUME NEW d \in Dirs PROVE Inv /\ UndoDirectory(d) => Inv'
<1> SUFFICES ASSUME Inv, UndoDirectory(d) PROVE Inv'
  OBVIOUS
<1>1. /\ undo.step = "directories" /\ d \in undo.dirs /\ Underway /\ undo.step # "idle"
      /\ UNCHANGED <<next, journal, latest, call, count>>
  BY DEF UndoDirectory, Underway
<1>2. /\ undo \in Undos /\ d \in SetPaths /\ d \in Paths /\ DiskTypes
      /\ undo.todo = {} /\ d \in SetDirs /\ Before(d) = Absent /\ Absent \in NodesOf(d)
      /\ undo.done \in Seq(Notes) /\ undo.gone \in Seq(Dirs)
      /\ \A i \in DOMAIN undo.done : undo.done[i].path \in SetPaths
      /\ \A i \in DOMAIN undo.gone : undo.gone[i] \in SetDirs
  BY <1>1, UndoIs, NodeKinds DEF Inv, UndoPart, UndoInv, Bound
<1>3. CASE undo' = Recovering(undo) /\ UNCHANGED <<disk, ghost>>
  BY <1>1, <1>2, <1>3, UndoStops
<1>4. CASE /\ disk[d] = After(d) /\ Children(d) = {}
           /\ disk' = [disk EXCEPT ![d] = Absent]
           /\ ghost' = Wrote(ghost, d)
           /\ undo' = Forward([undo EXCEPT !.dirs = @ \ {d}, !.gone = Append(@, d)])
  <2>1. PICK g : g = Append(undo.gone, d)
    OBVIOUS
  <2>2. /\ g \in Seq(Dirs) /\ DOMAIN g = DOMAIN undo.gone \cup {Len(undo.gone) + 1}
        /\ g[Len(undo.gone) + 1] = d /\ \A i \in DOMAIN undo.gone : g[i] = undo.gone[i]
    BY <1>2, <2>1, AppendIs
  <2>3. PICK u : u = [[undo EXCEPT !.dirs = undo.dirs \ {d}] EXCEPT !.gone = g]
    OBVIOUS
  <2>4. undo' = Forward(u)
    BY <1>2, <1>4, <2>1, <2>3 DEF Undos
  <2>5. /\ u \in Undos /\ u.bound = undo.bound /\ u.fixed = undo.fixed
        /\ u.failed = undo.failed /\ u.todo = undo.todo /\ u.dirs = undo.dirs \ {d}
        /\ u.done = undo.done /\ u.gone = g
    BY <1>2, <2>2, <2>3 DEF Undos
  <2>6. u.todo = undo.todo \ {d}
    BY <1>2, <2>5
  <2>7. PathsOf(undo.done) \subseteq PathsOf(u.done) /\ PathsOf(u.done) \subseteq SetPaths
    BY <1>2, <2>5 DEF PathsOf
  <2>8. Range(undo.gone) \subseteq Range(u.gone) /\ Range(u.gone) \subseteq SetDirs /\ d \in Range(u.gone)
    BY <1>2, <2>2, <2>5 DEF Range
  <2>9. PutAt(d) /\ disk'[d] = Absent
    BY <1>1, <1>2, <1>4, SetAtIs
  <2>10. TextOf(disk'[d]) = TextOf(Before(d))
    BY <1>2, <2>9
  <2> QED BY <1>1, <1>2, <1>4, <2>4, <2>5, <2>6, <2>7, <2>8, <2>9, <2>10, UndoForward
<1> QED BY <1>3, <1>4 DEF UndoDirectory

\* What is put back, or named as not put back, one path after the other.
LEMMA UndoRecovers ==
    ASSUME Inv, undo.step = "recover", NEW p \in SetPaths,
           UNCHANGED <<journal, latest, call, count>>, PutAt(p),
           ghost' = ghost \/ ghost' = Wrote(ghost, p),
           disk'[p] = Absent => p \in Files \/ Children(p) = {},
           disk'[p] # Absent => Within(p),
           NEW u \in Undos, u.step = undo.step, u.bound = undo.bound, u.fixed = undo.fixed,
           u.failed = undo.failed, u.todo = undo.todo, u.dirs = undo.dirs,
           PathsOf(undo.done) \subseteq PathsOf(u.done) \cup {p},
           Range(undo.gone) \subseteq Range(u.gone) \cup {p},
           \A i \in DOMAIN u.done : i \in DOMAIN undo.done /\ u.done[i] = undo.done[i],
           \A i \in DOMAIN u.gone : i \in DOMAIN undo.gone /\ u.gone[i] = undo.gone[i],
           \/ undo' = [u EXCEPT !.failed = u.failed \cup {p}]
           \/ /\ undo' = [u EXCEPT !.fixed = With(u.fixed, p, disk'[p])]
              /\ disk'[p] # Absent /\ TextOf(disk'[p]) = TextOf(After(p))
              /\ \/ WithDirectories \/ disk'[p] = After(p)
                 \/ \E i \in DOMAIN undo.done : undo.done[i].backup # After(undo.done[i].path)
    PROVE  Inv'
<1>1. /\ undo.step # "idle" /\ Underway /\ undo \in Undos /\ p \in Paths
      /\ \A q \in DOMAIN undo.fixed : undo.fixed[q] # Absent
  BY UndoIs DEF Underway, Inv, Types, UndoTypes
<1>2. /\ undo' \in Undos /\ undo'.step = "recover" /\ undo'.bound = undo.bound
      /\ undo'.todo = undo.todo /\ undo'.dirs = undo.dirs /\ undo'.done = u.done
      /\ undo'.gone = u.gone
      /\ \/ undo'.failed = undo.failed \cup {p} /\ undo'.fixed = undo.fixed
         \/ /\ undo'.failed = undo.failed /\ undo'.fixed = With(undo.fixed, p, disk'[p])
            /\ disk'[p] # Absent /\ TextOf(disk'[p]) = TextOf(After(p))
            /\ \/ WithDirectories \/ disk'[p] = After(p)
               \/ \E i \in DOMAIN undo.done : undo.done[i].backup # After(undo.done[i].path)
  <2>1. CASE undo' = [u EXCEPT !.failed = u.failed \cup {p}]
    BY <1>1, <2>1 DEF Undos
  <2>2. CASE /\ undo' = [u EXCEPT !.fixed = With(u.fixed, p, disk'[p])]
             /\ disk'[p] # Absent /\ TextOf(disk'[p]) = TextOf(After(p))
             /\ \/ WithDirectories \/ disk'[p] = After(p)
                \/ \E i \in DOMAIN undo.done : undo.done[i].backup # After(undo.done[i].path)
    <3>1. undo.fixed \in Stored /\ disk'[p] \in NodesOf(p)
      BY <1>1 DEF Undos, PutAt
    <3>2. PICK f : f = With(undo.fixed, p, disk'[p])
      OBVIOUS
    <3>3. f \in Stored /\ undo' = [u EXCEPT !.fixed = f]
      BY <1>1, <2>2, <3>1, <3>2, StoredWith
    <3> QED BY <1>1, <2>2, <3>2, <3>3 DEF Undos
  <2> QED BY <2>1, <2>2
<1>3. Underway' /\ UndoInv'
  BY <1>1, <1>2 DEF Underway, Inv, UndoPart, UndoInv, SetPaths, SetDirs
<1>4. PICK f : f = undo'.fixed
  OBVIOUS
<1>5. \/ f = undo.fixed /\ p \in undo'.failed
      \/ /\ DOMAIN f = DOMAIN undo.fixed \cup {p} /\ f[p] = disk'[p]
         /\ \A q \in DOMAIN undo.fixed : q # p => f[q] = undo.fixed[q]
         /\ disk'[p] # Absent /\ TextOf(disk'[p]) = TextOf(After(p))
         /\ \/ WithDirectories \/ disk'[p] = After(p)
            \/ \E i \in DOMAIN undo.done : undo.done[i].backup # After(undo.done[i].path)
  <2>1. PICK n, w : n = disk'[p] /\ w = With(undo.fixed, p, n)
    OBVIOUS
  <2>2. /\ DOMAIN w = DOMAIN undo.fixed \cup {p} /\ w[p] = disk'[p]
        /\ \A q \in DOMAIN undo.fixed : q # p => w[q] = undo.fixed[q]
    BY <2>1 DEF With
  <2> QED BY <1>2, <1>4, <2>1, <2>2
<1>6. /\ \A q \in DOMAIN undo'.fixed : undo'.fixed[q] # Absent
      /\ \A q \in SetPaths : q # p => /\ q \in DOMAIN undo'.fixed <=> q \in DOMAIN undo.fixed
                                      /\ q \in DOMAIN undo.fixed => undo'.fixed[q] = undo.fixed[q]
  BY <1>1, <1>4, <1>5
<1>7. \A q \in SetPaths : q # p => (Noted(q) => Noted(q)')
  BY <1>2 DEF Noted
<1>8. \/ Noted(p)'
      \/ /\ p \in DOMAIN undo'.fixed /\ disk'[p] = undo'.fixed[p]
         /\ TextOf(disk'[p]) = TextOf(After(p))
  BY <1>4, <1>5 DEF Noted
<1>9. (\A i \in DOMAIN undo.done : undo.done[i].backup = After(undo.done[i].path))
          => \A i \in DOMAIN undo'.done : undo'.done[i].backup = After(undo'.done[i].path)
  BY <1>2
<1>10. ~WithDirectories => \A q \in DOMAIN undo'.fixed :
          (q \in DOMAIN undo.fixed => undo.fixed[q] = After(q)) /\
          (\A i \in DOMAIN undo.done : undo.done[i].backup = After(undo.done[i].path))
              => undo'.fixed[q] = After(q)
  BY <1>4, <1>5
<1>11. undo'.step = "recover"
  BY <1>2
<1> QED BY <1>1, <1>2, <1>3, <1>6, <1>7, <1>8, <1>9, <1>10, <1>11, UndoGoes

LEMMA LastIs ==
    ASSUME NEW S, NEW s \in Seq(S), s # <<>>
    PROVE  /\ Front(s) \in Seq(S) /\ Last(s) \in S /\ Last(s) \in Range(s)
           /\ \A i \in DOMAIN Front(s) : i \in DOMAIN s /\ Front(s)[i] = s[i]
           /\ \A i \in DOMAIN s : s[i] = Last(s) \/ (i \in DOMAIN Front(s) /\ Front(s)[i] = s[i])
BY FrontIs DEF Front, Last, Range

LEMMA RecoverDirectoryStep == Inv /\ RecoverDirectory => Inv'
<1> SUFFICES ASSUME Inv, RecoverDirectory PROVE Inv'
  OBVIOUS
<1>1. /\ undo.step = "recover" /\ Underway /\ undo.step # "idle" /\ undo.gone # <<>>
      /\ UNCHANGED <<journal, latest, call, count>>
  BY DEF RecoverDirectory, Underway
<1>2. /\ undo \in Undos /\ DiskTypes /\ undo.gone \in Seq(Dirs)
      /\ \A i \in DOMAIN undo.gone : undo.gone[i] \in SetDirs
  BY <1>1, UndoIs DEF Inv, UndoPart, UndoInv
<1>3. PICK d, g : d = Last(undo.gone) /\ g = Front(undo.gone)
  OBVIOUS
<1>4. /\ d \in Dirs /\ g \in Seq(Dirs) /\ d \in Range(undo.gone)
      /\ \A i \in DOMAIN g : i \in DOMAIN undo.gone /\ g[i] = undo.gone[i]
      /\ \A i \in DOMAIN undo.gone : undo.gone[i] = d \/ (i \in DOMAIN g /\ g[i] = undo.gone[i])
  BY <1>1, <1>2, <1>3, LastIs
<1>5. /\ d \in SetDirs /\ d \in SetPaths /\ d \in Paths /\ WithDirectories
      /\ After(d) \in DirNodes /\ After(d) # Absent
  <2>1. d \in SetDirs
    BY <1>2, <1>4 DEF Range
  <2> QED BY <1>1, <1>4, <2>1, UndoIs DEF WithDirectories, SetDirs, NodesOf
<1>6. PICK u : u = [undo EXCEPT !.gone = g]
  OBVIOUS
<1>7. /\ u \in Undos /\ u.step = undo.step /\ u.bound = undo.bound /\ u.fixed = undo.fixed
      /\ u.failed = undo.failed /\ u.todo = undo.todo /\ u.dirs = undo.dirs
      /\ u.done = undo.done /\ u.gone = g
  BY <1>2, <1>4, <1>6 DEF Undos
<1>8. /\ PathsOf(undo.done) \subseteq PathsOf(u.done) \cup {d}
      /\ Range(undo.gone) \subseteq Range(u.gone) \cup {d}
  BY <1>4, <1>7 DEF PathsOf, Range
<1>9. CASE /\ Within(d) /\ disk[d] = Absent
           /\ Put(d, Node(IsDir))
           /\ ghost' = Wrote(ghost, d)
           /\ undo' = [u EXCEPT !.fixed = With(@, d, Node(IsDir))]
  <2>1. /\ Node(IsDir) \in DirNodes /\ Node(IsDir) # Absent /\ Node(IsDir).text = IsDir
    BY <1>2, NextNode DEF DiskTypes
  <2>2. PutAt(d) /\ disk'[d] = Node(IsDir)
    BY <1>2, <1>4, <1>5, <1>9, <2>1, PutIs DEF NodesOf
  <2>3. TextOf(disk'[d]) = TextOf(After(d))
    BY <1>5, <2>1, <2>2 DEF TextOf, DirNodes
  <2>4. undo' = [u EXCEPT !.fixed = With(u.fixed, d, disk'[d])]
    BY <1>7, <1>9, <2>2
  <2>5. /\ Within(d) /\ ghost' = Wrote(ghost, d) /\ disk'[d] # Absent
        /\ \A i \in DOMAIN u.done : i \in DOMAIN undo.done /\ u.done[i] = undo.done[i]
        /\ \A i \in DOMAIN u.gone : i \in DOMAIN undo.gone /\ u.gone[i] = undo.gone[i]
    BY <1>4, <1>7, <1>9, <2>1, <2>2
  <2> QED BY <1>1, <1>5, <1>7, <1>8, <2>2, <2>3, <2>4, <2>5, UndoRecovers
<1>10. CASE /\ undo' = [u EXCEPT !.failed = @ \cup {d}]
            /\ UNCHANGED <<disk, next, ghost>>
  <2>1. PutAt(d) /\ (disk'[d] # Absent => Within(d))
    BY <1>2, <1>5, <1>10 DEF PutAt, DiskTypes, Inv, Tree, Within
  <2>2. disk'[d] = Absent => Children(d) = {}
    <3>1. d # Root
      BY <1>5, ParentAssumption
    <3> QED BY <1>10, <3>1 DEF Inv, Tree, Children
  <2>3. undo' = [u EXCEPT !.failed = u.failed \cup {d}]
    BY <1>7, <1>10
  <2> QED BY <1>1, <1>4, <1>5, <1>7, <1>8, <1>10, <2>1, <2>2, <2>3, UndoRecovers, ZenonT(40)
<1> QED BY <1>3, <1>6, <1>9, <1>10 DEF RecoverDirectory

LEMMA RecoverFileStep == Inv /\ RecoverFile => Inv'
<1> SUFFICES ASSUME Inv, RecoverFile PROVE Inv'
  OBVIOUS
<1>1. /\ undo.step = "recover" /\ Underway /\ undo.step # "idle" /\ undo.done # <<>>
      /\ UNCHANGED <<journal, latest, call, count>>
  BY DEF RecoverFile, Underway
<1>2. /\ undo \in Undos /\ DiskTypes /\ undo.done \in Seq(Notes)
      /\ \A i \in DOMAIN undo.done : undo.done[i].path \in SetPaths
  BY <1>1, UndoIs DEF Inv, UndoPart, UndoInv
<1>3. PICK e, p, s : e = Last(undo.done) /\ p = e.path /\ s = Front(undo.done)
  OBVIOUS
<1>4. /\ e \in Notes /\ s \in Seq(Notes) /\ e \in Range(undo.done)
      /\ \A i \in DOMAIN s : i \in DOMAIN undo.done /\ s[i] = undo.done[i]
      /\ \A i \in DOMAIN undo.done : undo.done[i] = e \/ (i \in DOMAIN s /\ s[i] = undo.done[i])
  BY <1>1, <1>2, <1>3, LastIs
<1>5. /\ p \in Files /\ p \in SetPaths /\ p \in Paths /\ p \notin Dirs
      /\ After(p) \in FileNodes /\ After(p) # Absent /\ NodesOf(p) = FileNodes
      /\ e.backup \in FileNodes
      /\ \A i \in DOMAIN undo.done : undo.done[i] = e => undo.done[i].path = p
  <2>1. p \in Files /\ p \in SetPaths
    BY <1>2, <1>3, <1>4 DEF Range, Notes
  <2> QED BY <1>1, <1>3, <1>4, <2>1, UndoIs, KindAssumption DEF NodesOf, Notes
<1>6. PICK u : u = [undo EXCEPT !.done = s]
  OBVIOUS
<1>7. /\ u \in Undos /\ u.step = undo.step /\ u.bound = undo.bound /\ u.fixed = undo.fixed
      /\ u.failed = undo.failed /\ u.todo = undo.todo /\ u.dirs = undo.dirs
      /\ u.done = s /\ u.gone = undo.gone
  BY <1>2, <1>4, <1>6 DEF Undos
<1>8. /\ PathsOf(undo.done) \subseteq PathsOf(u.done) \cup {p}
      /\ Range(undo.gone) \subseteq Range(u.gone) \cup {p}
  BY <1>3, <1>4, <1>7 DEF PathsOf
<1>9. CASE /\ Controlled(e) /\ Within(p)
           /\ disk' = [disk EXCEPT ![p] = Recovery(e)]
           /\ next' = next + 1
           /\ ghost' = IF e.backup = After(p) \/ e.backup = Absent THEN Wrote(ghost, p) ELSE ghost
           /\ undo' = IF TextOf(Recovery(e)) = TextOf(After(p))
                      THEN [u EXCEPT !.fixed = With(@, p, Recovery(e))]
                      ELSE [u EXCEPT !.failed = @ \cup {p}]
  <2>1. Recovery(e) \in FileNodes /\ Recovery(e) # Absent
    <3>1. After(p).text \in Texts
      BY <1>5 DEF FileNodes
    <3>2. Node(After(p).text) \in FileNodes /\ Node(After(p).text) # Absent
      BY <1>2, <3>1, NextNode DEF DiskTypes
    <3> QED BY <1>3, <1>5, <3>2 DEF Recovery
  <2>2. PutAt(p) /\ disk'[p] = Recovery(e)
    BY <1>2, <1>5, <1>9, <2>1, SetAtIs
  <2>3. \/ WithDirectories \/ disk'[p] = After(p)
        \/ \E i \in DOMAIN undo.done : undo.done[i].backup # After(undo.done[i].path)
    <3> SUFFICES ASSUME \A i \in DOMAIN undo.done : undo.done[i].backup = After(undo.done[i].path)
                 PROVE  disk'[p] = After(p)
      OBVIOUS
    <3>1. e.backup = After(p)
      BY <1>3, <1>4 DEF Range
    <3> QED BY <1>5, <2>2, <3>1 DEF Recovery
  <2>4. ghost' = ghost \/ ghost' = Wrote(ghost, p)
    BY <1>9
  <2>5. \/ undo' = [u EXCEPT !.failed = u.failed \cup {p}]
        \/ /\ undo' = [u EXCEPT !.fixed = With(u.fixed, p, disk'[p])]
           /\ disk'[p] # Absent /\ TextOf(disk'[p]) = TextOf(After(p))
    <3>1. CASE TextOf(Recovery(e)) = TextOf(After(p))
      BY <1>7, <1>9, <2>1, <2>2, <3>1
    <3>2. CASE TextOf(Recovery(e)) # TextOf(After(p))
      BY <1>7, <1>9, <3>2
    <3> QED BY <3>1, <3>2
  <2>6. Within(p)
    BY <1>9
  <2> QED BY <1>1, <1>4, <1>5, <1>7, <1>8, <2>2, <2>3, <2>4, <2>5, <2>6, UndoRecovers
<1>10. CASE /\ undo' = [u EXCEPT !.failed = @ \cup {p}]
            /\ UNCHANGED <<disk, next, ghost>>
  <2>1. PutAt(p) /\ (disk'[p] # Absent => Within(p))
    BY <1>2, <1>5, <1>10 DEF PutAt, DiskTypes, Inv, Tree, Within
  <2>2. undo' = [u EXCEPT !.failed = u.failed \cup {p}]
    BY <1>7, <1>10
  <2> QED BY <1>1, <1>4, <1>5, <1>7, <1>8, <1>10, <2>1, <2>2, UndoRecovers
<1> QED BY <1>3, <1>6, <1>9, <1>10 DEF RecoverFile

LEMMA FinishUndoneStep == Inv /\ FinishUndone => Inv'
<1> SUFFICES ASSUME Inv, FinishUndone PROVE Inv'
  OBVIOUS
<1>1. /\ undo.step = "undone" /\ undo.step # "idle" /\ undo' = NoUndo /\ latest' = NoSet
      /\ UNCHANGED <<disk, next, journal, call, count, ghost>>
  BY DEF FinishUndone
<1>2. /\ undo' \in Undos /\ undo'.step = "idle" /\ undo'.fixed = NoPaths /\ DOMAIN NoPaths = {}
      /\ ~journal.active /\ ~Known(latest)'
  BY <1>1, NoUndoIs, StoredEmpty, UndoIs DEF Known
<1>3. CallPart'
  BY <1>1, <1>2, IdleFrame
<1>4. SetPart'
  BY <1>2 DEF SetPart, SetInv, KeptInv
<1>5. UndoPart'
  BY <1>2 DEF UndoPart, Bound, UndoInv, RestoredInv, NotedInv, MatchInv, Undisturbed, Underway
<1>6. Types'
  BY <1>1, <1>2 DEF Inv, Types, DiskTypes, SetTypes, CallTypes, UndoTypes, CountTypes, Phases
<1>7. Tree'
  BY <1>1 DEF Inv, Tree
<1> QED BY <1>3, <1>4, <1>5, <1>6, <1>7 DEF Inv

LEMMA RefreshedIs ==
    ASSUME Inv, undo.step # "idle", NEW r, r = Refreshed(latest, undo.fixed)
    PROVE  /\ r \in [changes : Changes, tainted : SUBSET Paths] /\ r.tainted = latest.tainted
           /\ DOMAIN r.changes = SetPaths
           /\ \A p \in SetPaths :
                 /\ r.changes[p].before = Before(p) /\ r.changes[p].after # Absent
                 /\ r.changes[p].after = IF p \in DOMAIN undo.fixed THEN undo.fixed[p] ELSE After(p)
<1>1. /\ latest \in [changes : Changes, tainted : SUBSET Paths]
      /\ undo.fixed \in Stored /\ \A p \in DOMAIN undo.fixed : undo.fixed[p] # Absent
  BY UndoIs DEF Inv, Types, SetTypes, UndoTypes, Known
<1>2. PICK f : f = [p \in SetPaths |->
          IF p \in DOMAIN undo.fixed THEN [latest.changes[p] EXCEPT !.after = undo.fixed[p]]
          ELSE latest.changes[p]]
  OBVIOUS
<1>3. r = [latest EXCEPT !.changes = f]
  BY <1>1, <1>2 DEF Refreshed, SetPaths
<1>4. ASSUME NEW p \in SetPaths
      PROVE  /\ f[p] \in ChangesOf(p) /\ f[p].before = Before(p) /\ f[p].after # Absent
             /\ f[p].after = IF p \in DOMAIN undo.fixed THEN undo.fixed[p] ELSE After(p)
  <2>1. /\ latest.changes[p] \in ChangesOf(p) /\ p \in Paths /\ After(p) # Absent
    BY <1>1, ChangesIs, UndoIs DEF SetPaths
  <2>2. p \in DOMAIN undo.fixed => undo.fixed[p] \in NodesOf(p)
    BY <1>1, StoredIs
  <2> QED BY <1>1, <1>2, <2>1, <2>2 DEF ChangesOf, Before, After
<1>5. f \in Changes /\ DOMAIN f = SetPaths
  <2>1. DOMAIN f = SetPaths /\ f = [p \in DOMAIN f |-> f[p]] /\ SetPaths \subseteq Paths
    BY <1>2, UndoIs
  <2> QED BY <1>4, <2>1, ChangesIs
<1> QED BY <1>1, <1>3, <1>4, <1>5

LEMMA FinishRefusedStep == Inv /\ FinishRefused => Inv'
<1> SUFFICES ASSUME Inv, FinishRefused PROVE Inv'
  OBVIOUS
<1>1. /\ undo.step = "recover" /\ undo.step # "idle" /\ undo' = NoUndo /\ Underway
      /\ undo.gone = <<>> /\ undo.done = <<>>
      /\ UNCHANGED <<disk, next, journal, call, count>>
  BY DEF FinishRefused, Underway
<1>2. /\ undo' \in Undos /\ undo'.step = "idle" /\ undo'.fixed = NoPaths /\ DOMAIN NoPaths = {}
      /\ ~journal.active /\ Known(latest) /\ ghost \in Ghosts /\ undo \in Undos
      /\ SetPaths \subseteq Paths /\ SetDirs \subseteq SetPaths
  BY <1>1, NoUndoIs, StoredEmpty, UndoIs
<1>3. PICK r : r = Refreshed(latest, undo.fixed)
  OBVIOUS
<1>4. /\ r \in [changes : Changes, tainted : SUBSET Paths] /\ r.tainted = latest.tainted
      /\ DOMAIN r.changes = SetPaths
      /\ \A p \in SetPaths :
            /\ r.changes[p].before = Before(p) /\ r.changes[p].after # Absent
            /\ r.changes[p].after = IF p \in DOMAIN undo.fixed THEN undo.fixed[p] ELSE After(p)
  BY <1>1, <1>3, RefreshedIs
<1>5. /\ latest' \in {latest, r}
      /\ \/ /\ ghost' = [ghost EXCEPT !.told = ghost.told \cup undo.failed]
            /\ latest' = IF /\ WithDirectories /\ undo.failed = {}
                            /\ Attributable([p \in SetPaths |->
                                  [before |-> After(p), after |-> r.changes[p].after]])
                         THEN r ELSE latest
         \/ ghost' = [ghost EXCEPT !.told = ghost.told \cup {Root}]
  BY <1>2, <1>3 DEF FinishRefused, Ghosts
<1>6. /\ ghost' \in Ghosts /\ ghost'.kept = ghost.kept /\ ghost'.author = ghost.author
      /\ ghost'.since = ghost.since /\ ghost'.now = ghost.now /\ ghost'.unread = ghost.unread
      /\ \/ ghost'.told = ghost.told \cup undo.failed
         \/ ghost'.told = ghost.told \cup {Root}
  <2>1. undo.failed \subseteq Paths
    BY <1>2 DEF Undos
  <2>2. ASSUME NEW S \in SUBSET (Paths \cup {Root}), ghost' = [ghost EXCEPT !.told = ghost.told \cup S]
        PROVE  /\ ghost' \in Ghosts /\ ghost'.kept = ghost.kept /\ ghost'.author = ghost.author
               /\ ghost'.since = ghost.since /\ ghost'.now = ghost.now
               /\ ghost'.told = ghost.told \cup S /\ ghost'.unread = ghost.unread
    BY <1>2, <2>2 DEF Ghosts
  <2> QED BY <1>5, <2>1, <2>2
<1>7. /\ SetPaths' = SetPaths /\ latest' \in [changes : Changes, tainted : SUBSET Paths]
      /\ \A p \in SetPaths : Before(p)' = Before(p) /\ After(p)' # Absent
  <2>1. latest \in [changes : Changes, tainted : SUBSET Paths]
    BY <1>2 DEF Inv, Types, SetTypes, Known
  <2>2. CASE latest' = latest
    BY <1>1, <2>1, <2>2, UndoIs DEF SetPaths, Before, After
  <2>3. CASE latest' = r
    BY <1>4, <2>3 DEF SetPaths, Before, After
  <2> QED BY <1>5, <2>2, <2>3
<1>8. CallPart'
  BY <1>1, <1>2, IdleFrame
<1>9. SetPart'
  <2>1. SetInv'
    BY <1>7 DEF SetInv
  <2>2. KeptInv'
    <3> SUFFICES ASSUME NEW p \in DOMAIN ghost.kept
                 PROVE  /\ p \in SetPaths => TextOf(Before(p)') = TextOf(ghost.kept[p])
                        /\ p \notin SetPaths =>
                              ghost.author[p] = "other" \/ TextOf(disk[p]) = TextOf(ghost.kept[p])
      BY <1>1, <1>2, <1>6, <1>7 DEF KeptInv
    <3> QED BY <1>2, <1>7 DEF Inv, SetPart, KeptInv
  <2> QED BY <2>1, <2>2 DEF SetPart
<1>10. Types'
  <2>1. SetTypes'
    BY <1>7 DEF SetTypes
  <2> QED BY <1>1, <1>2, <1>6, <2>1
        DEF Inv, Types, DiskTypes, CallTypes, UndoTypes, CountTypes, Phases
<1>11. Tree'
  BY <1>1 DEF Inv, Tree
<1>12. Bound' /\ UndoInv' /\ RestoredInv' /\ NotedInv'
  BY <1>2 DEF Bound, UndoInv, RestoredInv, NotedInv, Underway
<1>13. MatchInv'
  <2> SUFFICES ASSUME ghost'.since = {}, ghost'.told = {}, ghost'.unread = {} PROVE Matches'
    BY <1>2 DEF MatchInv, Undisturbed, Underway
  <2>1. /\ undo.failed = {}
        /\ latest' = IF /\ WithDirectories
                        /\ Attributable([p \in SetPaths |->
                              [before |-> After(p), after |-> r.changes[p].after]])
                     THEN r ELSE latest
    <3>1. ghost'.told # ghost.told \cup {Root}
      OBVIOUS
    <3>2. ghost' # [ghost EXCEPT !.told = ghost.told \cup {Root}]
      BY <1>2, <3>1 DEF Ghosts
    <3>3. ghost'.told = ghost.told \cup undo.failed
      BY <1>6, <3>1
    <3> QED BY <1>5, <3>2, <3>3
  <2>2. AsBound
    BY <1>1, <1>2, <1>6 DEF Inv, UndoPart, MatchInv, Undisturbed
  <2>3. ASSUME NEW p \in SetPaths
        PROVE  undo.bound[p] = After(p) /\ disk[p] = r.changes[p].after
    <3>1. ~Noted(p)
      BY <1>1, <2>1, EmptySeqs DEF Noted, Range
    <3> QED BY <1>1, <1>4, <2>2, <3>1 DEF AsBound, Inv, UndoPart, Bound
  <2>4. ASSUME NEW p \in SetPaths
        PROVE  disk[p] = After(p)'
    <3>1. CASE WithDirectories
      <4> DEFINE c == [q \in SetPaths |-> [before |-> After(q), after |-> r.changes[q].after]]
      <4>1. DOMAIN c = SetPaths /\ \A q \in SetPaths : c[q].before = After(q)
                                                    /\ c[q].after = r.changes[q].after
        OBVIOUS
      <4>2. \A q \in Paths \ SetPaths : disk[q] = undo.bound[q]
        BY <2>2 DEF AsBound
      <4> HIDE DEF c
      <4>3. Attributable(c)
        BY <2>3, <4>1, <4>2 DEF Attributable
      <4>4. latest' = r
        BY <2>1, <3>1, <4>3 DEF c
      <4> QED BY <2>3, <4>4 DEF After
    <3>2. CASE ~WithDirectories
      <4>1. latest' = latest
        BY <2>1, <3>2
      <4>2. r.changes[p].after = After(p)
        BY <1>4, <2>2, <3>2 DEF AsBound
      <4> QED BY <2>3, <4>1, <4>2 DEF After
    <3> QED BY <3>1, <3>2
  <2>5. ASSUME NEW d \in SetDirs, NEW q \in Paths, Parent[q] = d, disk[q] # Absent
        PROVE  q \in SetPaths
    BY <2>2, <2>5 DEF AsBound
  <2>6. \A d \in SetDirs : Before(d) = Absent
    BY <1>1, <1>2 DEF Inv, UndoPart, Bound, SetDirs
  <2>7. SetDirs' = SetDirs
    BY <1>7 DEF SetDirs
  <2> QED BY <1>1, <1>2, <1>7, <2>4, <2>5, <2>6, <2>7 DEF Matches, Children
<1> QED BY <1>8, <1>9, <1>10, <1>11, <1>12, <1>13 DEF Inv, UndoPart

LEMMA UndoInterruptedStep == Inv /\ UndoInterrupted => Inv'
<1> SUFFICES ASSUME Inv, UndoInterrupted PROVE Inv'
  OBVIOUS
<1>1. /\ undo.step # "idle" /\ undo' = NoUndo /\ ghost' = [ghost EXCEPT !.told = ghost.told \cup {Root}]
      /\ UNCHANGED <<disk, next, journal, latest, call, count>>
  BY UndoIs DEF UndoInterrupted, Ghosts
<1>2. /\ undo' \in Undos /\ undo'.step = "idle" /\ undo'.fixed = NoPaths /\ DOMAIN NoPaths = {}
      /\ ~journal.active /\ Known(latest) /\ ghost \in Ghosts
  BY <1>1, NoUndoIs, StoredEmpty, UndoIs
<1>3. /\ ghost' \in Ghosts /\ ghost'.kept = ghost.kept /\ ghost'.author = ghost.author
      /\ ghost'.now = ghost.now /\ ghost'.told # {}
  BY <1>1, <1>2 DEF Ghosts
<1>4. CallPart' /\ SetPart'
  BY <1>1, <1>2, <1>3, UndoFrame
<1>5. Types'
  BY <1>1, <1>2, <1>3 DEF Inv, Types, DiskTypes, SetTypes, CallTypes, UndoTypes, CountTypes, Phases
<1>6. Tree'
  BY <1>1 DEF Inv, Tree
<1>7. UndoPart'
  BY <1>2, <1>3 DEF UndoPart, Bound, UndoInv, RestoredInv, NotedInv, MatchInv, Undisturbed, Underway
<1> QED BY <1>4, <1>5, <1>6, <1>7 DEF Inv
-----------------------------------------------------------------------------
(***************************************************************************)
(* The invariant and what follows from it                                  *)
(***************************************************************************)
LEMMA StandingStill == Inv /\ UNCHANGED vars => Inv'
<1> SUFFICES ASSUME Inv, UNCHANGED <<disk, next, journal, latest, call, undo, count, ghost>>
             PROVE  Inv'
  BY DEF vars
<1>1. Types' /\ Tree'
  BY DEF Inv, Types, DiskTypes, SetTypes, CallTypes, UndoTypes, CountTypes, Phases, Known, Tree
<1>2. CallInv' /\ Watched' /\ Housed' /\ Alone' /\ FoundInv'
  BY DEF Inv, CallPart, CallInv, LastDone, Watched, Housed, Alone, FoundInv, Ahead, Known, SetPaths
<1>3. TaskInv'
  BY DEF Inv, CallPart, TaskInv, JournalInv, TracedInv, TodoInv, DoneInv, Ahead, Unread, LastDone,
         Traced, Filed, Fresh, Base, FirstOf, Expected
<1>4. SetInv' /\ KeptInv'
  BY DEF Inv, SetPart, SetInv, KeptInv, Known, SetPaths, After, Before
<1>5. Bound' /\ UndoInv' /\ RestoredInv'
  BY DEF Inv, UndoPart, Bound, UndoInv, RestoredInv, Underway, SetPaths, SetDirs, After, Before,
         WithDirectories
<1>6. NotedInv'
  BY DEF Inv, UndoPart, NotedInv, Noted, Underway, SetPaths, After, Before
<1>7. MatchInv'
  BY DEF Inv, UndoPart, MatchInv, Undisturbed, Known, Underway, AsBound, Matches, Children, Noted,
         SetPaths, SetDirs, After, Before, WithDirectories
<1> QED BY <1>1, <1>2, <1>3, <1>4, <1>5, <1>6, <1>7 DEF Inv, CallPart, SetPart, UndoPart

LEMMA InvStep == Inv /\ [Next]_vars => Inv'
<1> SUFFICES ASSUME Inv, [Next]_vars PROVE Inv'
  OBVIOUS
<1>1. CASE UNCHANGED vars
  BY <1>1, StandingStill
<1>2. CASE BeginTask \/ EndTask
  BY <1>2, BeginTaskStep, EndTaskStep
<1>3. CASE Calling
  BY <1>3, AskStep, AskDirectoryStep, EndingStep, RecheckStep, MakeDirectoryStep,
     RemoveDirectoryStep, CheckStep, PublishStep, VerifyStep, PutBackStep DEF Calling
<1>4. CASE Undoing
  BY <1>4, PrepareUndoStep, CancelUndoStep, StartUndoStep, UndoCheckStep, UndoPublishStep,
     UndoConfirmStep, UndoDirectoryStep, RecoverDirectoryStep, RecoverFileStep, FinishUndoneStep,
     FinishRefusedStep, UndoInterruptedStep DEF Undoing
<1>5. CASE \E p \in Paths : Edit(p)
  BY <1>5, EditStep
<1> QED BY <1>1, <1>2, <1>3, <1>4, <1>5 DEF Next

LEMMA Invariance == Spec => []Inv
BY InvInit, InvStep, PTL DEF Spec

\* Every path holds a node of its kind and the journal has no change of a path it has
\* not recorded (changes.py, tools/write.py, tools/undo.py).
THEOREM Typing == Spec => []TypeOK
<1>1. Inv => TypeOK
  BY DEF Inv, Types, DiskTypes, CallTypes, UndoTypes, Journals, Calls, Steps, Undos, UndoSteps,
         CallPart, TaskInv, JournalInv, TypeOK
<1> QED BY <1>1, Invariance, PTL

\* For any files, directories and texts, and whatever other programs do between the
\* steps: what a tool left on the disk the journal knows between two calls
\* (changes.py record_committed, write.py _record_actual_patch_state).
THEOREM ToolsAreRecorded == Spec => []NothingForgotten
<1>1. Inv => NothingForgotten
  <2> SUFFICES ASSUME Inv, journal.active, call = NoCall, NEW p \in DOMAIN ghost.now,
                      ghost.author[p] = "task", p \notin journal.tainted
               PROVE  p \in DOMAIN journal.last /\ journal.last[p] = disk[p]
    BY DEF NothingForgotten
  <2>1. Traced(p)
    BY NoCallIs DEF Inv, CallPart, TaskInv, TracedInv, Unread
  <2> QED BY <2>1 DEF Traced, Filed, Fresh
<1> QED BY <1>1, Invariance, PTL

\* For any files and directories: what can be undone stays so, after the task and after
\* every undo that was turned down or recovered, while no other program writes, no
\* failure is reported, and no undo was cut off or failed with a file without a backup
\* touched and not read back (undo.py undo_change_set, session/runtime.py undo_latest).
THEOREM UndoIsKept == Spec => []UndoStaysPossible
<1>1. Inv => UndoStaysPossible
  BY NoUndoIs DEF Inv, UndoPart, MatchInv, Undisturbed, UndoStaysPossible
<1> QED BY <1>1, Invariance, PTL

\* A patch that fails, whatever errors its compensation meets, has put every path back
\* or names it, or somebody else wrote it (write.py apply_patch).
PatchCompensated ==
    [][PatchFailed => \A p \in DOMAIN call.was :
            \/ p \in call.failed \/ ghost.author[p] = "other"
            \/ TextOf(disk[p]) = TextOf(call.was[p])]_vars

LEMMA PatchPutsBack ==
    ASSUME Inv, PatchFailed, NEW p \in DOMAIN call.was
    PROVE  \/ p \in call.failed \/ ghost.author[p] = "other"
           \/ TextOf(disk[p]) = TextOf(call.was[p])
<1>1. call.step = "back" /\ PathsOf(call.done) = {}
  BY EmptySeqs DEF PatchFailed
<1> QED BY <1>1 DEF Inv, CallPart, Watched

\* What PatchCompensated says holds for any files and any errors (write.py apply_patch).
THEOREM PatchesAreCompensated == Spec => PatchCompensated
<1>1. Inv /\ [Next]_vars =>
         [PatchFailed => \A p \in DOMAIN call.was :
            \/ p \in call.failed \/ ghost.author[p] = "other"
            \/ TextOf(disk[p]) = TextOf(call.was[p])]_vars
  BY PatchPutsBack
<1> QED BY <1>1, Invariance, PTL DEF Spec, PatchCompensated

\* The same for a patch and for an undo that recovers, whatever errors they meet; of an
\* undo with directories but for the one file that it had touched and not read back
\* when it failed (write.py apply_patch, undo.py _compensate_undo_commits).
THEOREM FailureIsCompensated == Spec => CompensatedOrTold
<1>1. ASSUME Inv, FinishRefused, NEW p \in SetPaths
      PROVE  \/ p \in undo.failed \cup ghost.unread \/ ghost.author[p] = "other"
             \/ TextOf(disk[p]) = TextOf(After(p))
  <2>1. undo.step = "recover" /\ undo.gone = <<>> /\ undo.done = <<>>
    BY <1>1 DEF FinishRefused
  <2>2. PathsOf(undo.done) = {} /\ Range(undo.gone) = {}
    BY <2>1, EmptySeqs DEF Range
  <2> QED BY <1>1, <2>1, <2>2 DEF Inv, UndoPart, NotedInv, Noted, Underway
<1>2. Inv /\ [Next]_vars =>
        [/\ PatchFailed => \A p \in DOMAIN call.was :
               \/ p \in call.failed \/ ghost.author[p] = "other"
               \/ TextOf(disk[p]) = TextOf(call.was[p])
         /\ FinishRefused => \A p \in SetPaths :
               \/ p \in undo.failed \cup ghost.unread \/ ghost.author[p] = "other"
               \/ TextOf(disk[p]) = TextOf(After(p))]_vars
  BY <1>1, PatchPutsBack
<1> QED BY <1>2, Invariance, PTL DEF Spec, CompensatedOrTold

\* An undo that reports success has brought back what each path was before the task
\* first wrote it, over any number of calls, steps of other programs and failed patches
\* (undo.py undo_change_set, changes.py record_committed).
THEOREM UndoneIsBack == Spec => UndoneIsBefore
<1>1. ASSUME Inv, FinishUndone, NEW p \in DOMAIN ghost.kept
      PROVE  \/ ghost.author[p] = "other" \/ TextOf(disk[p]) = TextOf(ghost.kept[p])
  <2>1. undo.step = "undone" /\ undo.step # "idle" /\ Underway
    BY <1>1 DEF FinishUndone, Underway
  <2>2. undo.todo = {} /\ undo.dirs = {} /\ ~journal.active /\ Known(latest)
    BY <1>1, <2>1, UndoIs DEF Inv, UndoPart, UndoInv
  <2>3. CASE p \in SetPaths
    BY <1>1, <2>1, <2>2, <2>3 DEF Inv, UndoPart, RestoredInv, SetPart, KeptInv
  <2>4. CASE p \notin SetPaths
    BY <1>1, <2>2, <2>4 DEF Inv, SetPart, KeptInv
  <2> QED BY <2>3, <2>4
<1>2. Inv /\ [Next]_vars =>
        [FinishUndone => \A p \in DOMAIN ghost.kept :
            \/ ghost.author[p] = "other"
            \/ TextOf(disk[p]) = TextOf(ghost.kept[p])]_vars
  BY <1>1
<1> QED BY <1>2, Invariance, PTL DEF Spec, UndoneIsBefore
=============================================================================
