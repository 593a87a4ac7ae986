------------------------ MODULE SessionMemory_proofs ------------------------
(***************************************************************************)
(* SessionMemory for any processes, sessions, levels, and any number of    *)
(* facts, revisions and clears; then TaskVerification for any checks and   *)
(* targets, a table of any size and any number of rounds: what a session   *)
(* remembers, and what it owes.  The two share no variable.                *)
(***************************************************************************)
EXTENDS SessionMemory, TaskVerification, SequenceTheorems, TLAPS

-----------------------------------------------------------------------------
(* The invariant *)

\* Everything an open session has in mind.
Mind(c) == FactsOf(c.conv) \cup FactsOf(c.review) \cup {x.fact : x \in c.messages} \cup c.known

\* The message numbers: nothing is covered that is not finished yet.
Ordered(c) ==
    /\ c.conv.covered <= c.target
    /\ c.review # NoRow => c.review.covered <= c.target
    /\ c.target < c.next
    /\ \A x \in c.messages : x.seq <= c.target

\* What is known is in the memory that would be saved, or still in a message after
\* its watermark; unless compaction has overtaken the candidate.
Overtaken(c) == c.review # NoRow /\ c.review.covered < c.conv.covered
Remembers(c) ==
    ~Overtaken(c) => \A f \in c.known :
        \/ f \in FactsOf(Base(c))
        \/ \E x \in c.messages : x.fact = f /\ Base(c).covered < x.seq

StoredFacts(s) == IF reviewed[s] = NoRow THEN {} ELSE FactsOf(reviewed[s].memory)

\* The owner of a session and its rows.
OwnerOK(s, c) ==
    /\ c \in OpenSessions /\ c.session = s
    /\ Ordered(c) /\ Remembers(c)
    /\ c.persistedRevision = ReviewedRevision(s)
    /\ c.persisted.task = saved[s].task
    /\ ~c.dirty => c.memory.task = c.persisted.task
    /\ c.pendingClear => StoredFacts(s) \cap Mind(c) = {}

SessionOK(s) ==
    /\ reviewed[s] # NoRow => reviewed[s].memory.covered < reviewed[s].next
    /\ lock[s] # Nobody => OwnerOK(s, cur[lock[s]])

\* Every fact belongs to one session.
FactsAt(s) == StoredFacts(s) \cup (IF lock[s] = Nobody THEN {} ELSE Mind(cur[lock[s]]))

Learned == 1 .. (nextFact - 1)
FactsInv ==
    /\ erased \subseteq Learned
    /\ \A s \in Sessions : FactsAt(s) \subseteq Learned /\ FactsAt(s) \cap erased = {}
    /\ \A s, t \in Sessions : s # t => FactsAt(s) \cap FactsAt(t) = {}

\* Only a save shows a person more than there is.
Previews ==
    [ kind : {"save", "edit", "archive"}, session : Sessions, conv : Memories,
      review : Memories \cup {NoRow}, next : Nat, persistedRevision : Nat \cup {NoRow},
      candidate : Memories ]
PreviewOK(v) ==
    v = NoRow \/ (v \in Previews /\ FactsOf(v.candidate) \subseteq FactsOf(Base(v)))

Types ==
    /\ saved \in [Sessions -> SavedRows \cup {NoRow}]
    /\ reviewed \in [Sessions -> ReviewedRows \cup {NoRow}]
    /\ lock \in [Sessions -> Procs \cup {Nobody}]
    /\ cur \in [Procs -> OpenSessions \cup {NoSession, Down}]
    /\ entry \in [Procs -> Levels \cup {"strict"}]
    /\ DOMAIN preview = Procs /\ preview = [p \in Procs |-> preview[p]]
    /\ nextFact \in Nat \ {0}

LockInv == \A p \in Procs : Active(p) => lock[cur[p].session] = p
SessionInv == \A s \in Sessions : SessionOK(s)
PreviewInv == \A p \in Procs : PreviewOK(preview[p])

Inv == Types /\ LockInv /\ SessionInv /\ FactsInv /\ PreviewInv
-----------------------------------------------------------------------------
(* The operators on an open session *)

\* Two open sessions with the same thoughts.
SameMind(c, d) ==
    /\ d.conv = c.conv /\ d.review = c.review /\ d.messages = c.messages
    /\ d.next = c.next /\ d.target = c.target /\ d.known = c.known

LEMMA SameMindKeeps ==
    ASSUME NEW c, NEW d, SameMind(c, d)
    PROVE  /\ Mind(d) = Mind(c)
           /\ Ordered(c) => Ordered(d)
           /\ Remembers(c) => Remembers(d)
BY DEF SameMind, Mind, Ordered, Remembers, Overtaken, Base

LEMMA BaseType ==
    ASSUME NEW c, c.conv \in Memories, c.review \in Memories \cup {NoRow}
    PROVE  Base(c) \in Memories
BY DEF Base

LEMMA FactsType ==
    ASSUME NEW m \in Memories \cup {NoRow}
    PROVE  FactsOf(m) \in SUBSET Facts
BY DEF FactsOf, Memories

LEMMA MindType == ASSUME NEW c \in OpenSessions PROVE Mind(c) \in SUBSET Facts
<1>1. FactsOf(c.conv) \in SUBSET Facts /\ FactsOf(c.review) \in SUBSET Facts
  BY FactsType DEF OpenSessions
<1>2. c.known \in SUBSET Facts /\ \A x \in c.messages : x.fact \in Facts
  BY DEF OpenSessions
<1> QED BY <1>1, <1>2 DEF Mind

LEMMA NewMemoryType ==
    ASSUME NEW g \in Nat
    PROVE  NewMemory(g) \in Memories /\ FactsOf(NewMemory(g)) = {} /\ NewMemory(g).covered = 0
<1>1. NewMemory(g) \in Memories /\ NewMemory(g).covered = 0
      /\ NewMemory(g).items = {} /\ NewMemory(g).archived = {}
  BY DEF NewMemory, Memories
<1> QED BY <1>1, SentinelAssumption DEF FactsOf

\* A session just opened has what is stored in mind, and nothing else.
LEMMA OpenedOK ==
    ASSUME NEW s \in Sessions, NEW memory \in SavedRows,
           reviewed[s] \in ReviewedRows \cup {NoRow},
           reviewed[s] # NoRow => reviewed[s].memory.covered < reviewed[s].next
    PROVE  LET c == Opened(s, memory) IN
           /\ c \in OpenSessions /\ c.session = s /\ ~c.pendingClear /\ ~c.dirty
           /\ c.memory = memory /\ c.persisted = memory
           /\ Ordered(c) /\ Remembers(c)
           /\ c.persistedRevision = ReviewedRevision(s)
           /\ Mind(c) = StoredFacts(s)
<1> DEFINE c == Opened(s, memory)
           conv == Restored(s)
<1>1. /\ conv \in Memories /\ FactsOf(conv) = StoredFacts(s)
      /\ reviewed[s] = NoRow => conv.covered = 0
      /\ reviewed[s] # NoRow => conv = reviewed[s].memory
  BY NewMemoryType, SentinelAssumption DEF Restored, StoredFacts, ReviewedRows
<1>2. FactsOf(conv) \in SUBSET Facts
  BY <1>1, FactsType
<1> DEFINE next == IF reviewed[s] = NoRow THEN 1 ELSE reviewed[s].next
           rev == IF reviewed[s] = NoRow THEN NoRow ELSE conv.revision
<1>3. next \in Nat /\ conv.covered \in Nat /\ conv.covered < next
  BY <1>1 DEF ReviewedRows, Memories
<1>4. rev \in Nat \cup {NoRow} /\ rev = ReviewedRevision(s)
  BY <1>1 DEF ReviewedRevision, Memories
<1>5. c = [ session |-> s, memory |-> memory, persisted |-> memory, dirty |-> FALSE,
            conv |-> conv, review |-> NoRow, messages |-> {}, next |-> next,
            target |-> conv.covered, persistedRevision |-> rev, pendingClear |-> FALSE,
            known |-> FactsOf(conv) ]
  BY DEF Opened
<1> HIDE DEF c, conv, next, rev
<1>6. /\ c.session = s /\ c.memory = memory /\ c.persisted = memory /\ c.dirty = FALSE
      /\ c.conv = conv /\ c.review = NoRow /\ c.messages = {} /\ c.next = next
      /\ c.target = conv.covered /\ c.persistedRevision = rev /\ c.pendingClear = FALSE
      /\ c.known = FactsOf(conv)
  BY <1>5
<1>7. c \in OpenSessions
  BY <1>1, <1>2, <1>3, <1>4, <1>5 DEF OpenSessions
<1>8. Ordered(c) /\ Remembers(c)
  BY <1>3, <1>6 DEF Ordered, Remembers, Base
<1>9. Mind(c) = StoredFacts(s)
  BY <1>1, <1>6 DEF Mind, FactsOf
<1> QED BY <1>4, <1>6, <1>7, <1>8, <1>9 DEF c

LEMMA PersistedOK ==
    ASSUME NEW c \in OpenSessions, NEW keep \in BOOLEAN
    PROVE  LET d == Persisted(c, keep) IN
           /\ d \in OpenSessions /\ d.session = c.session /\ SameMind(c, d)
           /\ d.memory = c.memory /\ d.pendingClear = c.pendingClear
           /\ d.persistedRevision = c.persistedRevision
           /\ d.persisted = IF c.dirty /\ keep THEN c.memory ELSE c.persisted
           /\ d.dirty = (c.dirty /\ ~keep)
<1>1. CASE c.dirty /\ keep
  BY <1>1 DEF Persisted, SameMind, OpenSessions
<1>2. CASE ~(c.dirty /\ keep)
  <2>1. Persisted(c, keep) = c
    BY <1>2 DEF Persisted
  <2>2. c.dirty \in BOOLEAN
    BY DEF OpenSessions
  <2> QED BY <1>2, <2>1, <2>2 DEF SameMind
<1> QED BY <1>1, <1>2

LEMMA RetriedOK ==
    ASSUME NEW c \in OpenSessions, NEW keep \in BOOLEAN, NEW erase \in BOOLEAN
    PROVE  LET d == Retried(c, keep, erase) IN
           /\ d \in OpenSessions /\ d.session = c.session /\ SameMind(c, d)
           /\ d.memory = c.memory
           /\ d.persisted = IF c.dirty /\ keep THEN c.memory ELSE c.persisted
           /\ d.dirty = (c.dirty /\ ~keep)
           /\ d.pendingClear = (c.pendingClear /\ ~erase)
           /\ d.persistedRevision = IF c.pendingClear /\ erase THEN NoRow
                                    ELSE c.persistedRevision
<1> DEFINE e == Persisted(c, keep)
<1>1. /\ e \in OpenSessions /\ e.session = c.session /\ SameMind(c, e)
      /\ e.memory = c.memory /\ e.pendingClear = c.pendingClear
      /\ e.persistedRevision = c.persistedRevision
      /\ e.persisted = IF c.dirty /\ keep THEN c.memory ELSE c.persisted
      /\ e.dirty = (c.dirty /\ ~keep)
  BY PersistedOK
<1>2. Retried(c, keep, erase) =
          IF e.pendingClear /\ erase
          THEN [e EXCEPT !.persistedRevision = NoRow, !.pendingClear = FALSE] ELSE e
  BY DEF Retried
<1> HIDE DEF e
<1>3. CASE c.pendingClear /\ erase
  <2> DEFINE d == Retried(c, keep, erase)
  <2>1. d = [e EXCEPT !.persistedRevision = NoRow, !.pendingClear = FALSE]
    BY <1>1, <1>2, <1>3
  <2> HIDE DEF d
  <2>2. d.pendingClear = FALSE /\ d.persistedRevision = NoRow
    BY <1>1, <2>1 DEF OpenSessions
  <2>3. /\ d \in OpenSessions /\ d.session = e.session /\ SameMind(e, d)
        /\ d.memory = e.memory /\ d.persisted = e.persisted /\ d.dirty = e.dirty
    BY <1>1, <2>1 DEF SameMind, OpenSessions
  <2> QED BY <1>1, <1>3, <2>2, <2>3 DEF SameMind, d
<1>4. CASE ~(c.pendingClear /\ erase)
  <2>1. c.pendingClear \in BOOLEAN
    BY DEF OpenSessions
  <2> QED BY <1>1, <1>2, <1>4, <2>1
<1> QED BY <1>3, <1>4

\* A merge reads the messages between the watermarks.
LEMMA MergedOK ==
    ASSUME NEW m \in Memories, NEW messages \in SUBSET [seq : Nat, fact : Facts], NEW upTo \in Nat
    PROVE  LET n == MergedOver(m, messages, upTo) IN
           /\ n \in Memories /\ n.covered = upTo
           /\ FactsOf(n) = FactsOf(m) \cup
                  {x.fact : x \in {y \in messages : m.covered < y.seq /\ y.seq <= upTo}}
<1> DEFINE read == {x.fact : x \in {y \in messages : m.covered < y.seq /\ y.seq <= upTo}}
           n == MergedOver(m, messages, upTo)
<1>1. read \in SUBSET Facts
  OBVIOUS
<1>2. n = [m EXCEPT !.revision = @ + 1, !.covered = upTo, !.items = @ \cup read]
  BY DEF MergedOver
<1> HIDE DEF read, n
<1>3. n.covered = upTo /\ n.items = m.items \cup read /\ n.archived = m.archived
  BY <1>2 DEF Memories
<1>4. n \in Memories
  <2>1. m.revision + 1 \in Nat /\ m.items \cup read \in SUBSET Facts
    BY <1>1 DEF Memories
  <2> QED BY <1>2, <2>1 DEF Memories
<1> QED BY <1>3, <1>4, SentinelAssumption DEF FactsOf, n, read

LEMMA RefreshedOK ==
    ASSUME NEW c \in OpenSessions, Ordered(c), Remembers(c), ~RefreshRefused(c)
    PROVE  LET d == Refreshed(c) IN
           /\ d \in OpenSessions /\ Ordered(d) /\ Remembers(d) /\ Mind(d) \subseteq Mind(c)
           /\ d.session = c.session /\ d.memory = c.memory /\ d.persisted = c.persisted
           /\ d.dirty = c.dirty /\ d.persistedRevision = c.persistedRevision
           /\ d.pendingClear = c.pendingClear /\ d.next = c.next
<1>1. CASE Base(c).covered = c.target
  BY <1>1 DEF Refreshed
<1>2. CASE Base(c).covered # c.target
  <2> DEFINE m == MergedOver(Base(c), c.messages, c.target)
             read == {x.fact : x \in {y \in c.messages :
                          Base(c).covered < y.seq /\ y.seq <= c.target}}
             d == Refreshed(c)
  <2>1. /\ c.conv \in Memories /\ c.review \in Memories \cup {NoRow} /\ c.target \in Nat
        /\ c.messages \in SUBSET [seq : Nat, fact : Facts]
    BY DEF OpenSessions
  <2>2. Base(c) \in Memories
    BY <2>1, BaseType
  <2>3. m \in Memories /\ m.covered = c.target /\ FactsOf(m) = FactsOf(Base(c)) \cup read
    BY <2>1, <2>2, MergedOK
  <2>4. d = [c EXCEPT !.review = m]
    BY <1>2 DEF Refreshed
  <2>5. \A f \in c.known : f \in FactsOf(m)
    <3> SUFFICES ASSUME NEW f \in c.known PROVE f \in FactsOf(m)
      OBVIOUS
    <3>1. ~Overtaken(c)
      BY DEF RefreshRefused, Overtaken
    <3>2. CASE f \in FactsOf(Base(c))
      BY <2>3, <3>2
    <3>3. CASE \E x \in c.messages : x.fact = f /\ Base(c).covered < x.seq
      BY <2>3, <3>3 DEF Ordered
    <3> QED BY <3>1, <3>2, <3>3 DEF Remembers
  <2> HIDE DEF m, d
  <2>6. /\ d \in OpenSessions /\ d.review = m /\ d.review # NoRow
        /\ d.session = c.session /\ d.memory = c.memory /\ d.persisted = c.persisted
        /\ d.dirty = c.dirty /\ d.persistedRevision = c.persistedRevision
        /\ d.pendingClear = c.pendingClear /\ d.next = c.next /\ d.conv = c.conv
        /\ d.messages = c.messages /\ d.target = c.target /\ d.known = c.known
    BY <2>3, <2>4, SentinelAssumption DEF OpenSessions
  <2>7. Ordered(d)
    BY <2>1, <2>3, <2>6 DEF Ordered
  <2>8. Remembers(d)
    BY <2>5, <2>6 DEF Remembers, Base
  <2>9. FactsOf(m) \subseteq Mind(c)
    BY <2>3 DEF Mind, Base
  <2>10. Mind(d) \subseteq Mind(c)
    BY <2>6, <2>9 DEF Mind
  <2> QED BY <2>6, <2>7, <2>8, <2>10 DEF d
<1> QED BY <1>1, <1>2

\* Compaction only ever moves what is known, or overtakes the candidate.
LEMMA CompactedOK ==
    ASSUME NEW c \in OpenSessions, Ordered(c), Remembers(c), NEW upTo \in 0 .. c.target
    PROVE  LET d == Compacted(c, upTo) IN
           /\ d \in OpenSessions /\ Ordered(d) /\ Remembers(d) /\ Mind(d) \subseteq Mind(c)
           /\ d.session = c.session /\ d.memory = c.memory /\ d.persisted = c.persisted
           /\ d.dirty = c.dirty /\ d.persistedRevision = c.persistedRevision
           /\ d.pendingClear = c.pendingClear /\ d.next = c.next
<1>1. CASE upTo <= c.conv.covered
  BY <1>1 DEF Compacted
<1>2. CASE ~(upTo <= c.conv.covered)
  <2> DEFINE m == MergedOver(c.conv, c.messages, upTo)
             read == {x.fact : x \in {y \in c.messages :
                          c.conv.covered < y.seq /\ y.seq <= upTo}}
             rest == Kept(c.messages, upTo)
             d == Compacted(c, upTo)
  <2>1. /\ c.conv \in Memories /\ c.review \in Memories \cup {NoRow} /\ c.target \in Nat
        /\ c.messages \in SUBSET [seq : Nat, fact : Facts] /\ upTo \in Nat /\ upTo <= c.target
        /\ c.next \in Nat
    BY DEF OpenSessions
  <2>2. m \in Memories /\ m.covered = upTo /\ FactsOf(m) = FactsOf(c.conv) \cup read
    BY <2>1, MergedOK
  <2>3. rest \subseteq c.messages /\ \A x \in c.messages : upTo < x.seq => x \in rest
    BY <2>1 DEF Kept
  <2>4. d = [c EXCEPT !.conv = m, !.messages = rest]
    BY <1>2 DEF Compacted
  <2> HIDE DEF m, rest, d
  <2>5. /\ d \in OpenSessions /\ d.review = c.review
        /\ d.session = c.session /\ d.memory = c.memory /\ d.persisted = c.persisted
        /\ d.dirty = c.dirty /\ d.persistedRevision = c.persistedRevision
        /\ d.pendingClear = c.pendingClear /\ d.next = c.next /\ d.conv = m
        /\ d.messages = rest /\ d.target = c.target /\ d.known = c.known
    BY <2>2, <2>3, <2>4 DEF OpenSessions
  <2>6. Ordered(d)
    BY <2>1, <2>2, <2>3, <2>5 DEF Ordered
  <2>7. Mind(d) \subseteq Mind(c)
    BY <2>2, <2>3, <2>5 DEF Mind
  <2>8. c.conv.covered \in Nat /\ (c.review # NoRow => c.review.covered \in Nat)
        /\ \A x \in c.messages : x.seq \in Nat
    BY <2>1 DEF Memories
  <2>9. Remembers(d)
    <3> SUFFICES ASSUME ~Overtaken(d), NEW f \in c.known
                 PROVE  \/ f \in FactsOf(Base(d))
                        \/ \E x \in rest : x.fact = f /\ Base(d).covered < x.seq
      BY <2>5 DEF Remembers
    <3>1. CASE c.review = NoRow
      <4>1. Base(c) = c.conv /\ Base(d) = m /\ ~Overtaken(c)
        BY <2>5, <3>1 DEF Base, Overtaken
      <4>2. \/ f \in FactsOf(c.conv)
            \/ \E x \in c.messages : x.fact = f /\ c.conv.covered < x.seq
        BY <4>1 DEF Remembers
      <4>3. ASSUME NEW x \in c.messages, x.fact = f, c.conv.covered < x.seq
            PROVE  f \in FactsOf(m) \/ (x \in rest /\ upTo < x.seq)
        BY <2>1, <2>2, <2>3, <2>8, <4>3
      <4> QED BY <2>2, <4>1, <4>2, <4>3
    <3>2. CASE c.review # NoRow
      <4>1. Base(c) = c.review /\ Base(d) = c.review /\ upTo <= c.review.covered
        BY <2>1, <2>2, <2>5, <2>8, <3>2 DEF Base, Overtaken
      <4>2. ~Overtaken(c)
        BY <1>2, <2>1, <2>8, <3>2, <4>1 DEF Overtaken
      <4>3. \/ f \in FactsOf(c.review)
            \/ \E x \in c.messages : x.fact = f /\ c.review.covered < x.seq
        BY <4>1, <4>2 DEF Remembers
      <4> QED BY <2>1, <2>3, <2>8, <3>2, <4>1, <4>3
    <3> QED BY <3>1, <3>2
  <2> QED BY <2>5, <2>6, <2>7, <2>9 DEF d
<1> QED BY <1>1, <1>2

LEMMA ClearedOK ==
    ASSUME NEW c \in OpenSessions, Ordered(c)
    PROVE  LET d == Cleared(c) IN
           /\ d \in OpenSessions /\ Ordered(d) /\ Remembers(d) /\ Mind(d) = {}
           /\ d.session = c.session /\ d.persisted = c.persisted
           /\ d.persistedRevision = c.persistedRevision
           /\ d.pendingClear /\ (~d.dirty => d.memory.task = d.persisted.task)
<1> DEFINE memory == [c.memory EXCEPT !.task = 0]
           conv == NewMemory(c.conv.generation + 1)
           d == Cleared(c)
<1>1. memory \in SavedRows
  BY DEF OpenSessions, SavedRows
<1>2. conv \in Memories /\ FactsOf(conv) = {} /\ conv.covered = 0
  <2>1. c.conv.generation + 1 \in Nat
    BY DEF OpenSessions, Memories
  <2> QED BY <2>1, NewMemoryType
<1>3. c.next \in Nat /\ 0 < c.next
  BY DEF OpenSessions, Ordered
<1>4. d = [c EXCEPT !.memory = memory, !.dirty = memory # c.persisted, !.conv = conv,
              !.review = NoRow, !.messages = {}, !.target = 0, !.pendingClear = TRUE,
              !.known = {}]
  BY DEF Cleared
<1> HIDE DEF memory, conv, d
<1>5. /\ d.memory = memory /\ d.conv = conv /\ d.review = NoRow /\ d.messages = {}
      /\ d.target = 0 /\ d.pendingClear = TRUE /\ d.known = {} /\ d.next = c.next
      /\ d.session = c.session /\ d.persisted = c.persisted
      /\ d.persistedRevision = c.persistedRevision
  BY <1>4 DEF OpenSessions
<1>6. d.dirty = (memory # c.persisted)
  BY <1>4 DEF OpenSessions
<1>7. d \in OpenSessions
  <2>1. (memory # c.persisted) \in BOOLEAN
    OBVIOUS
  <2>2. {} \in SUBSET [seq : Nat, fact : Facts] /\ {} \in SUBSET Facts /\ 0 \in Nat
    OBVIOUS
  <2> QED BY <1>1, <1>2, <1>4, <2>1, <2>2 DEF OpenSessions
<1>8. Ordered(d) /\ Remembers(d) /\ Mind(d) = {}
  BY <1>2, <1>3, <1>5 DEF Ordered, Remembers, Mind, FactsOf
<1> QED BY <1>5, <1>6, <1>7, <1>8 DEF d

\* A finished task is a message more, and nothing forgotten.
LEMMA TaughtOK ==
    ASSUME NEW c \in OpenSessions, Ordered(c), Remembers(c), NEW f \in Facts
    PROVE  LET d == Taught(c, f) IN
           /\ d \in OpenSessions /\ Ordered(d) /\ Remembers(d) /\ Mind(d) \subseteq Mind(c) \cup {f}
           /\ d.session = c.session /\ d.memory = c.memory /\ d.persisted = c.persisted
           /\ d.dirty = c.dirty /\ d.persistedRevision = c.persistedRevision
           /\ d.pendingClear = c.pendingClear
<1> DEFINE x == [seq |-> c.next, fact |-> f]
           d == Taught(c, f)
<1>1. /\ c.conv \in Memories /\ c.review \in Memories \cup {NoRow} /\ c.target \in Nat
      /\ c.next \in Nat /\ c.messages \in SUBSET [seq : Nat, fact : Facts]
      /\ c.known \in SUBSET Facts
  BY DEF OpenSessions
<1>2. x \in [seq : Nat, fact : Facts] /\ x.seq = c.next /\ x.fact = f
  BY <1>1
<1>3. d = [c EXCEPT !.messages = c.messages \cup {x}, !.target = c.next, !.next = c.next + 1,
                    !.known = c.known \cup {f}]
  BY DEF Taught
<1> HIDE DEF x, d
<1>4. /\ d.conv = c.conv /\ d.review = c.review /\ d.messages = c.messages \cup {x}
      /\ d.target = c.next /\ d.next = c.next + 1 /\ d.known = c.known \cup {f}
      /\ d.session = c.session /\ d.memory = c.memory /\ d.persisted = c.persisted
      /\ d.dirty = c.dirty /\ d.persistedRevision = c.persistedRevision
      /\ d.pendingClear = c.pendingClear
  BY <1>3 DEF OpenSessions
<1>5. d \in OpenSessions
  <2>1. c.messages \cup {x} \in SUBSET [seq : Nat, fact : Facts] /\ c.next + 1 \in Nat
        /\ c.known \cup {f} \in SUBSET Facts
    BY <1>1, <1>2
  <2> QED BY <1>1, <1>3, <2>1 DEF OpenSessions
<1>6. c.conv.covered \in Nat /\ (c.review # NoRow => c.review.covered \in Nat)
      /\ \A y \in c.messages : y.seq \in Nat
  BY <1>1 DEF Memories
<1>7. Ordered(d)
  BY <1>1, <1>2, <1>4, <1>6 DEF Ordered
<1>8. Base(d) = Base(c) /\ (Overtaken(d) <=> Overtaken(c)) /\ Base(c).covered < c.next
  BY <1>1, <1>4, <1>6 DEF Base, Overtaken, Ordered
<1>9. Remembers(d)
  BY <1>2, <1>4, <1>8 DEF Remembers
<1>10. Mind(d) \subseteq Mind(c) \cup {f}
  BY <1>2, <1>4 DEF Mind
<1> QED BY <1>4, <1>5, <1>7, <1>9, <1>10 DEF d

\* An edit forgets what its user took out, and nothing else.
\* Nothing of what the session's own row knows differs.
SavedAlike(c, d) ==
    /\ d.session = c.session /\ d.memory = c.memory /\ d.persisted = c.persisted
    /\ d.dirty = c.dirty /\ d.persistedRevision = c.persistedRevision
    /\ d.pendingClear = c.pendingClear

LEMMA EditedOK ==
    ASSUME NEW c \in OpenSessions, Ordered(c), Remembers(c), NEW m \in Memories,
           m.covered = Base(c).covered, FactsOf(m) \subseteq FactsOf(Base(c)),
           NEW n \in Nat, NEW e, e = WithBase(c, m), NEW d,
           d = [e EXCEPT !.next = e.next + n,
                         !.known = e.known \ (FactsOf(Base(c)) \ FactsOf(m))]
    PROVE  /\ d \in OpenSessions /\ Ordered(d) /\ Remembers(d) /\ Mind(d) \subseteq Mind(c)
           /\ SavedAlike(c, d)
<1> DEFINE out == FactsOf(Base(c)) \ FactsOf(m)
<1>1. /\ c.conv \in Memories /\ c.review \in Memories \cup {NoRow} /\ c.target \in Nat
      /\ c.next \in Nat /\ c.messages \in SUBSET [seq : Nat, fact : Facts]
      /\ c.known \in SUBSET Facts
  BY DEF OpenSessions
<1>2. /\ e \in OpenSessions
      /\ e.conv = IF c.review # NoRow THEN c.conv ELSE m
      /\ e.review = IF c.review # NoRow THEN m ELSE NoRow
      /\ e.messages = c.messages /\ e.target = c.target /\ e.next = c.next /\ e.known = c.known
      /\ e.session = c.session /\ e.memory = c.memory /\ e.persisted = c.persisted
      /\ e.dirty = c.dirty /\ e.persistedRevision = c.persistedRevision
      /\ e.pendingClear = c.pendingClear
  <2>1. CASE c.review # NoRow
    BY <2>1 DEF WithBase, OpenSessions
  <2>2. CASE c.review = NoRow
    BY <2>2 DEF WithBase, OpenSessions
  <2> QED BY <2>1, <2>2
<1>3. d = [e EXCEPT !.next = e.next + n, !.known = e.known \ out]
  OBVIOUS
<1> HIDE DEF out
<1>4. /\ d.conv = e.conv /\ d.review = e.review /\ d.messages = c.messages
      /\ d.target = c.target /\ d.next = c.next + n /\ d.known = c.known \ out
      /\ d.session = c.session /\ d.memory = c.memory /\ d.persisted = c.persisted
      /\ d.dirty = c.dirty /\ d.persistedRevision = c.persistedRevision
      /\ d.pendingClear = c.pendingClear
  BY <1>2, <1>3, ZenonT(40) DEF OpenSessions
<1>5. d \in OpenSessions
  <2>1. e.next + n \in Nat /\ e.known \ out \in SUBSET Facts
    BY <1>1, <1>2
  <2> QED BY <1>2, <1>3, <2>1 DEF OpenSessions
<1>6. Base(d) = m /\ (Overtaken(d) <=> Overtaken(c))
  BY <1>2, <1>4, SentinelAssumption DEF Base, Overtaken
<1>7. Ordered(d)
  BY <1>1, <1>2, <1>4 DEF Ordered, Base, Memories
<1>8. Remembers(d)
  BY <1>4, <1>6 DEF Remembers, out
<1>9. FactsOf(d.conv) \cup FactsOf(d.review) \subseteq Mind(c)
  <2>1. FactsOf(m) \subseteq Mind(c)
    BY DEF Mind, Base
  <2>2. FactsOf(NoRow) = {}
    BY DEF FactsOf
  <2> QED BY <1>2, <1>4, <2>1, <2>2 DEF Mind
<1>10. Mind(d) \subseteq Mind(c)
  BY <1>4, <1>9 DEF Mind
<1>11. SavedAlike(c, d)
  BY <1>4 DEF SavedAlike
<1> QED BY <1>4, <1>5, <1>7, <1>8, <1>10, <1>11
-----------------------------------------------------------------------------
(* Owners and what they share *)

LEMMA OwnerFacts ==
    ASSUME Inv, NEW p \in Procs, Active(p)
    PROVE  /\ cur[p] \in OpenSessions /\ cur[p].session \in Sessions
           /\ OwnerOK(cur[p].session, cur[p])
           /\ \A s \in Sessions : lock[s] = p <=> s = cur[p].session
<1>1. cur[p] \in OpenSessions /\ cur[p].session \in Sessions
  BY DEF Inv, Types, Active, OpenSessions
<1>2. lock[cur[p].session] = p /\ p # Nobody
  BY NobodyAssumption DEF Inv, LockInv
<1>3. OwnerOK(cur[p].session, cur[p])
  BY <1>1, <1>2 DEF Inv, SessionInv, SessionOK
<1>4. ASSUME NEW s \in Sessions, lock[s] = p PROVE s = cur[p].session
  BY <1>2, <1>4 DEF Inv, SessionInv, SessionOK, OwnerOK
<1> QED BY <1>1, <1>2, <1>3, <1>4

LEMMA IdleHoldsNothing ==
    ASSUME Inv, NEW p \in Procs, ~Active(p), NEW s \in Sessions
    PROVE  lock[s] # p
<1> SUFFICES ASSUME lock[s] = p PROVE FALSE
  OBVIOUS
<1>1. cur[p] \in OpenSessions
  BY NobodyAssumption DEF Inv, SessionInv, SessionOK, OwnerOK
<1> QED BY <1>1, SentinelAssumption DEF Active

LEMMA StoredType ==
    ASSUME Types, NEW s \in Sessions
    PROVE  /\ StoredFacts(s) \in SUBSET Facts
           /\ ReviewedRevision(s) \in Nat \cup {NoRow}
           /\ reviewed[s] # NoRow => reviewed[s] \in ReviewedRows
<1>1. reviewed[s] # NoRow => reviewed[s] \in ReviewedRows /\ reviewed[s].memory \in Memories
  BY DEF Types, ReviewedRows
<1>2. reviewed[s] # NoRow => reviewed[s].memory.revision \in Nat
  BY <1>1 DEF Memories
<1> QED BY <1>1, <1>2, FactsType DEF StoredFacts, ReviewedRevision

\* A step of one process, in the sessions of T: those it holds or takes.
Outside(p, T) ==
    /\ \A q \in Procs \ {p} : cur'[q] = cur[q]
    /\ \A s \in Sessions \ T :
          /\ lock[s] # p /\ lock'[s] = lock[s]
          /\ saved'[s] = saved[s] /\ reviewed'[s] = reviewed[s]

LEMMA OutsideKept ==
    ASSUME Inv, NEW p \in Procs, NEW T, Outside(p, T), NEW s \in Sessions \ T
    PROVE  SessionOK(s)' /\ FactsAt(s)' = FactsAt(s)
<1>1. /\ lock'[s] = lock[s] /\ saved'[s] = saved[s] /\ reviewed'[s] = reviewed[s]
  BY DEF Outside
<1>2. StoredFacts(s)' = StoredFacts(s) /\ ReviewedRevision(s)' = ReviewedRevision(s)
  BY <1>1 DEF StoredFacts, ReviewedRevision
<1>3. SessionOK(s)
  BY DEF Inv, SessionInv
<1>4. CASE lock[s] = Nobody
  BY <1>1, <1>2, <1>3, <1>4 DEF SessionOK, FactsAt
<1>5. CASE lock[s] # Nobody
  <2>1. PICK q \in Procs : q = lock[s]
    BY <1>5 DEF Inv, Types
  <2>2. q # p /\ cur'[q] = cur[q]
    BY <2>1 DEF Outside
  <2>3. SessionOK(s)'
    BY <1>1, <1>2, <1>3, <1>5, <2>1, <2>2 DEF SessionOK, OwnerOK
  <2>4. FactsAt(s)' = FactsAt(s)
    BY <1>1, <1>2, <1>5, <2>1, <2>2 DEF FactsAt
  <2> QED BY <2>3, <2>4
<1> QED BY <1>4, <1>5

\* The facts of a step: x loses what is erased and may learn the next one.
LEMMA FactsStep ==
    ASSUME Inv, NEW x, NEW gone, erased' = erased \cup gone,
           gone # {} => x \in Sessions /\ gone \subseteq FactsAt(x),
           \A s \in Sessions : s # x => FactsAt(s)' \subseteq FactsAt(s),
           x \in Sessions => FactsAt(x)' \cap gone = {},
           \/ nextFact' = nextFact /\ (x \in Sessions => FactsAt(x)' \subseteq FactsAt(x))
           \/ /\ nextFact' = nextFact + 1
              /\ x \in Sessions => FactsAt(x)' \subseteq FactsAt(x) \cup {nextFact}
    PROVE  FactsInv'
<1>1. FactsInv /\ nextFact \in Nat \ {0}
  BY DEF Inv, Types
<1>2. nextFact' \in Nat \ {0} /\ nextFact <= nextFact' /\ nextFact \notin Learned
  BY <1>1 DEF Learned
<1>3. Learned \subseteq Learned' /\ (nextFact' = nextFact + 1 => nextFact \in Learned')
  <2>1. \A a, b \in Nat \ {0} : a <= b => 1 .. (a - 1) \subseteq 1 .. (b - 1)
    OBVIOUS
  <2>2. \A a, b \in Nat \ {0} : b = a + 1 => a \in 1 .. (b - 1)
    OBVIOUS
  <2>3. Learned \subseteq Learned'
    BY <1>1, <1>2, <2>1 DEF Learned
  <2>4. nextFact' = nextFact + 1 => nextFact \in Learned'
    BY <1>1, <1>2, <2>2 DEF Learned
  <2> QED BY <2>3, <2>4
<1>4. gone \subseteq Learned /\ erased \subseteq Learned
  BY <1>1 DEF FactsInv
<1>5. \A s \in Sessions : FactsAt(s) \subseteq Learned /\ FactsAt(s) \cap erased = {}
  BY <1>1 DEF FactsInv
<1>6. \A s, t \in Sessions : s # t => FactsAt(s) \cap FactsAt(t) = {}
  BY <1>1 DEF FactsInv
<1>7. \A s \in Sessions : FactsAt(s)' \subseteq Learned' /\ FactsAt(s)' \cap erased' = {}
  BY <1>2, <1>3, <1>4, <1>5, <1>6
<1>8. \A s, t \in Sessions : s # t => FactsAt(s)' \cap FactsAt(t)' = {}
  BY <1>2, <1>5, <1>6
<1>9. erased' \subseteq Learned'
  BY <1>3, <1>4
<1> QED BY <1>7, <1>8, <1>9 DEF FactsInv

\* A step of a process in the session it has open.
LEMMA OwnStep ==
    ASSUME Inv, NEW p \in Procs, Active(p), NEW d \in OpenSessions,
           NEW s \in Sessions, cur[p].session = s, NEW gone \in SUBSET StoredFacts(s),
           cur' = [cur EXCEPT ![p] = d], lock' = lock, entry' = entry,
           saved' \in [Sessions -> SavedRows \cup {NoRow}],
           reviewed' \in [Sessions -> ReviewedRows \cup {NoRow}],
           \A t \in Sessions \ {s} : saved'[t] = saved[t] /\ reviewed'[t] = reviewed[t],
           OwnerOK(s, d)',
           reviewed'[s] # NoRow => reviewed'[s].memory.covered < reviewed'[s].next,
           erased' = erased \cup gone,
           (StoredFacts(s)' \cup Mind(d)) \cap gone = {},
           LET now == StoredFacts(s)' \cup Mind(d)
               was == StoredFacts(s) \cup Mind(cur[p]) IN
           \/ nextFact' = nextFact /\ now \subseteq was
           \/ nextFact' = nextFact + 1 /\ now \subseteq was \cup {nextFact},
           PreviewInv', DOMAIN preview' = Procs, preview' = [q \in Procs |-> preview'[q]]
    PROVE  Inv'
<1>1. lock[s] = p /\ p # Nobody /\ \A t \in Sessions : lock[t] = p <=> t = s
  BY OwnerFacts, NobodyAssumption
<1>2. cur'[p] = d /\ \A q \in Procs \ {p} : cur'[q] = cur[q]
  BY DEF Inv, Types
<1>3. Outside(p, {s})
  BY <1>1, <1>2 DEF Outside
<1>4. \A t \in Sessions \ {s} : SessionOK(t)' /\ FactsAt(t)' = FactsAt(t)
  BY <1>3, OutsideKept
<1>5. SessionOK(s)'
  BY <1>1, <1>2 DEF SessionOK
<1>6. d.session = s /\ Active(p)'
  BY <1>2, SentinelAssumption DEF OwnerOK, Active
<1>7. LockInv'
  BY <1>1, <1>2, <1>6 DEF Inv, LockInv, Active
<1>8. Types'
  <2>1. cur' \in [Procs -> OpenSessions \cup {NoSession, Down}]
    BY DEF Inv, Types
  <2>2. nextFact' \in Nat \ {0}
    BY DEF Inv, Types
  <2> QED BY <2>1, <2>2 DEF Inv, Types
<1>9. FactsAt(s)' = StoredFacts(s)' \cup Mind(d) /\ FactsAt(s) = StoredFacts(s) \cup Mind(cur[p])
  BY <1>1, <1>2 DEF FactsAt
<1>10. FactsInv'
  <2>1. gone # {} => s \in Sessions /\ gone \subseteq FactsAt(s)
    BY <1>9
  <2>2. FactsAt(s)' \cap gone = {}
    BY <1>9
  <2>3. \/ nextFact' = nextFact /\ FactsAt(s)' \subseteq FactsAt(s)
        \/ nextFact' = nextFact + 1 /\ FactsAt(s)' \subseteq FactsAt(s) \cup {nextFact}
    BY <1>9
  <2>4. \A t \in Sessions : t # s => FactsAt(t)' \subseteq FactsAt(t)
    BY <1>4
  <2> QED BY <2>1, <2>2, <2>3, <2>4, FactsStep
<1> QED BY <1>4, <1>5, <1>7, <1>8, <1>10 DEF Inv, SessionInv

\* The rows of a process that lets its session go, but for those of the sessions T
\* it makes at the same time: only its own reviewed memory may go with it.
Leaves(p, gone, T) ==
    /\ saved' \in [Sessions -> SavedRows \cup {NoRow}]
    /\ reviewed' \in [Sessions -> ReviewedRows \cup {NoRow}]
    /\ \A t \in Sessions \ T : lock[t] # p => saved'[t] = saved[t]
    /\ \A t \in Sessions : lock[t] # p => reviewed'[t] = reviewed[t]
    /\ \A t \in Sessions : lock[t] = p =>
           (reviewed'[t] = reviewed[t] /\ gone = {}) \/ reviewed'[t] = NoRow
    /\ gone # {} => \E t \in Sessions : lock[t] = p /\ gone \subseteq StoredFacts(t)
    /\ erased' = erased \cup gone

\* A step of a process that lets its session go, takes the session of d, or both.
LEMMA MoveStep ==
    ASSUME Inv, NEW p \in Procs, NEW d \in OpenSessions \cup {NoSession, Down},
           NEW new \in SUBSET Sessions, new = IF d \in OpenSessions THEN {d.session} ELSE {},
           NEW gone, Leaves(p, gone, new),
           \A t \in new : lock[t] = Nobody /\ OwnerOK(t, d)' /\ Mind(d) = StoredFacts(t),
           cur' = [cur EXCEPT ![p] = d],
           lock' = [t \in Sessions |-> IF t \in new THEN p
                                       ELSE IF lock[t] = p THEN Nobody ELSE lock[t]],
           entry' \in [Procs -> Levels \cup {"strict"}], nextFact' = nextFact,
           PreviewInv', DOMAIN preview' = Procs, preview' = [q \in Procs |-> preview'[q]]
    PROVE  Inv'
<1>a. PICK old \in SUBSET Sessions : old = {t \in Sessions : lock[t] = p}
  OBVIOUS
<1>b. /\ saved' \in [Sessions -> SavedRows \cup {NoRow}]
      /\ reviewed' \in [Sessions -> ReviewedRows \cup {NoRow}]
      /\ \A t \in Sessions \ (old \cup new) : saved'[t] = saved[t]
      /\ \A t \in Sessions \ old : reviewed'[t] = reviewed[t]
      /\ \A t \in old : (reviewed'[t] = reviewed[t] /\ gone = {}) \/ reviewed'[t] = NoRow
      /\ gone # {} => \E t \in old : gone \subseteq StoredFacts(t)
      /\ erased' = erased \cup gone
  BY <1>a DEF Leaves
<1>1. p # Nobody /\ \A t, u \in old : t = u
  <2>1. \A t \in old : cur[p] \in OpenSessions /\ cur[p].session = t
    BY <1>a, NobodyAssumption DEF Inv, SessionInv, SessionOK, OwnerOK
  <2> QED BY <2>1, NobodyAssumption
<1>2. cur'[p] = d /\ \A q \in Procs \ {p} : cur'[q] = cur[q]
  BY DEF Inv, Types
<1>3. \A t \in Sessions \ (old \cup new) : lock[t] # p /\ lock'[t] = lock[t]
  BY <1>a
<1>4. Outside(p, old \cup new)
  BY <1>b, <1>2, <1>3 DEF Outside
<1>5. \A t \in Sessions \ (old \cup new) : SessionOK(t)' /\ FactsAt(t)' = FactsAt(t)
  BY <1>4, OutsideKept
<1>6. \A t \in new : lock'[t] = p /\ t \notin old
  BY <1>a, <1>1
<1>7. \A t \in old : lock'[t] = Nobody
  BY <1>a, <1>6
<1>8. \A t \in old : SessionOK(t)' /\ FactsAt(t)' \subseteq StoredFacts(t)
                     /\ FactsAt(t)' \cap gone = {} /\ FactsAt(t)' \subseteq FactsAt(t)
  <2> SUFFICES ASSUME NEW t \in old
               PROVE  SessionOK(t)' /\ FactsAt(t)' \subseteq StoredFacts(t)
                      /\ FactsAt(t)' \cap gone = {} /\ FactsAt(t)' \subseteq FactsAt(t)
    OBVIOUS
  <2>1. SessionOK(t)
    BY DEF Inv, SessionInv
  <2>2. SessionOK(t)'
    BY <1>b, <1>7, <2>1 DEF SessionOK
  <2>3. FactsAt(t)' = StoredFacts(t)'
    BY <1>7 DEF FactsAt
  <2>4. StoredFacts(t) \subseteq FactsAt(t)
    BY DEF FactsAt
  <2>5. CASE reviewed'[t] = reviewed[t] /\ gone = {}
    BY <2>2, <2>3, <2>4, <2>5 DEF StoredFacts
  <2>6. CASE reviewed'[t] = NoRow
    BY <2>2, <2>3, <2>6 DEF StoredFacts
  <2> QED BY <1>b, <2>5, <2>6
<1>9. \A t \in new : SessionOK(t)' /\ FactsAt(t)' \subseteq FactsAt(t)
  <2> SUFFICES ASSUME NEW t \in new
               PROVE  SessionOK(t)' /\ FactsAt(t)' \subseteq FactsAt(t)
    OBVIOUS
  <2>1. reviewed'[t] = reviewed[t]
    BY <1>b, <1>6
  <2>2. SessionOK(t)
    BY DEF Inv, SessionInv
  <2>3. SessionOK(t)'
    BY <1>1, <1>2, <1>6, <2>1, <2>2 DEF SessionOK
  <2>4. FactsAt(t)' = StoredFacts(t)' \cup Mind(d) /\ StoredFacts(t)' = StoredFacts(t)
    BY <1>1, <1>2, <1>6, <2>1 DEF FactsAt, StoredFacts
  <2>5. FactsAt(t) = StoredFacts(t)
    BY DEF FactsAt
  <2> QED BY <2>3, <2>4, <2>5
<1>10. LockInv'
  <2> SUFFICES ASSUME NEW q \in Procs, Active(q)' PROVE lock'[cur'[q].session] = q
    BY DEF LockInv
  <2>1. CASE q = p
    <3>1. d \in OpenSessions
      BY <1>2, <2>1 DEF Active
    <3>2. d.session \in new
      BY <3>1
    <3> QED BY <1>2, <1>6, <2>1, <3>2
  <2>2. CASE q # p
    <3>1. cur'[q] = cur[q] /\ Active(q)
      BY <1>2, <2>2 DEF Active
    <3>2. cur[q].session \in Sessions /\ lock[cur[q].session] = q
      BY <3>1, OwnerFacts
    <3>3. cur[q].session \notin old \cup new
      BY <1>a, <2>2, <3>2, NobodyAssumption
    <3> QED BY <1>3, <3>1, <3>2, <3>3
  <2> QED BY <2>1, <2>2
<1>11. Types'
  <2>1. cur' \in [Procs -> OpenSessions \cup {NoSession, Down}]
    BY DEF Inv, Types
  <2>2. lock' \in [Sessions -> Procs \cup {Nobody}]
    BY DEF Inv, Types
  <2>3. /\ saved' \in [Sessions -> SavedRows \cup {NoRow}]
        /\ reviewed' \in [Sessions -> ReviewedRows \cup {NoRow}]
    BY <1>b
  <2> QED BY <2>1, <2>2, <2>3 DEF Inv, Types
<1>12. FactsInv'
  <2>0. erased' = erased \cup gone
    BY <1>b
  <2>1. CASE gone = {}
    <3>1. \A t \in Sessions : FactsAt(t)' \subseteq FactsAt(t)
      BY <1>5, <1>8, <1>9
    <3> QED BY <2>0, <2>1, <3>1, FactsStep
  <2>2. CASE gone # {}
    <3>1. PICK x \in old : gone \subseteq StoredFacts(x)
      BY <1>b, <2>2
    <3>2. gone \subseteq FactsAt(x)
      BY <3>1 DEF FactsAt
    <3>3. \A t \in Sessions : FactsAt(t)' \subseteq FactsAt(t)
      BY <1>5, <1>8, <1>9
    <3>4. x \in Sessions /\ FactsAt(x)' \cap gone = {}
      BY <1>8
    <3> QED BY <2>0, <3>2, <3>3, <3>4, FactsStep
  <2> QED BY <2>1, <2>2
<1> QED BY <1>5, <1>8, <1>9, <1>10, <1>11, <1>12 DEF Inv, SessionInv
-----------------------------------------------------------------------------
(* The actions *)

\* What a retry leaves in the tables.
LEMMA RetryRowsOK ==
    ASSUME Inv, NEW c \in OpenSessions, NEW keep \in BOOLEAN, NEW erase \in BOOLEAN,
           RetryRows(c, keep, erase)
    PROVE  LET s == c.session IN
           /\ saved' \in [Sessions -> SavedRows \cup {NoRow}]
           /\ reviewed' \in [Sessions -> ReviewedRows \cup {NoRow}]
           /\ \A t \in Sessions \ {s} : saved'[t] = saved[t] /\ reviewed'[t] = reviewed[t]
           /\ saved'[s] = IF c.dirty /\ keep THEN c.memory ELSE saved[s]
           /\ c.pendingClear /\ erase =>
                  reviewed'[s] = NoRow /\ erased' = erased \cup StoredFacts(s)
           /\ ~(c.pendingClear /\ erase) => reviewed' = reviewed /\ erased' = erased
<1>1. c.session \in Sessions /\ c.memory \in SavedRows
  BY DEF OpenSessions
<1>2. /\ saved \in [Sessions -> SavedRows \cup {NoRow}]
      /\ reviewed \in [Sessions -> ReviewedRows \cup {NoRow}]
  BY DEF Inv, Types
<1>3. saved' = IF c.dirty /\ keep THEN [saved EXCEPT ![c.session] = c.memory] ELSE saved
  BY DEF RetryRows
<1>4. reviewed' = IF c.pendingClear /\ erase THEN [reviewed EXCEPT ![c.session] = NoRow]
                  ELSE reviewed
  BY DEF RetryRows
<1>5. erased' = IF c.pendingClear /\ erase THEN erased \cup StoredFacts(c.session) ELSE erased
  BY DEF RetryRows, StoredFacts
<1> QED BY <1>1, <1>2, <1>3, <1>4, <1>5

\* The invariant of an owner, whose rows and record are as after a retry.
LEMMA RetriedOwner ==
    ASSUME Inv, NEW c \in OpenSessions, NEW d \in OpenSessions,
           NEW keep \in BOOLEAN, NEW erase \in BOOLEAN,
           d = Retried(c, keep, erase), Ordered(c), Remembers(c),
           c.persisted.task = saved[c.session].task,
           ~c.dirty => c.memory.task = c.persisted.task,
           c.persistedRevision = ReviewedRevision(c.session),
           c.pendingClear => StoredFacts(c.session) \cap Mind(c) = {},
           saved'[c.session] = IF c.dirty /\ keep THEN c.memory ELSE saved[c.session],
           c.pendingClear /\ erase => reviewed'[c.session] = NoRow,
           ~(c.pendingClear /\ erase) => reviewed' = reviewed
    PROVE  OwnerOK(c.session, d)' /\ Mind(d) = Mind(c)
<1>1. /\ d.session = c.session /\ SameMind(c, d) /\ d.memory = c.memory
      /\ d.persisted = IF c.dirty /\ keep THEN c.memory ELSE c.persisted
      /\ d.dirty = (c.dirty /\ ~keep)
      /\ d.pendingClear = (c.pendingClear /\ ~erase)
      /\ d.persistedRevision = IF c.pendingClear /\ erase THEN NoRow
                               ELSE c.persistedRevision
  BY RetriedOK
<1>2. Mind(d) = Mind(c) /\ Ordered(d) /\ Remembers(d)
  BY <1>1, SameMindKeeps
<1>3. d.persisted.task = saved'[c.session].task /\ (~d.dirty => d.memory.task = d.persisted.task)
  BY <1>1
<1>4. d.persistedRevision = ReviewedRevision(c.session)'
      /\ (d.pendingClear => StoredFacts(c.session)' \cap Mind(d) = {})
  <2>1. CASE c.pendingClear /\ erase
    BY <1>1, <2>1 DEF ReviewedRevision
  <2>2. CASE ~(c.pendingClear /\ erase)
    BY <1>1, <1>2, <2>2 DEF ReviewedRevision, StoredFacts
  <2> QED BY <2>1, <2>2
<1> QED BY <1>1, <1>2, <1>3, <1>4 DEF OwnerOK

LEMMA RetryPersistStep ==
    ASSUME Inv, NEW p \in Procs, RetryPersist(p) PROVE Inv'
<1>1. Active(p)
  BY DEF RetryPersist
<1>2. PICK c \in OpenSessions : c = cur[p]
  BY <1>1, OwnerFacts
<1>3. PICK keep \in BOOLEAN, erase \in BOOLEAN :
          RetryRows(c, keep, erase) /\ cur' = [cur EXCEPT ![p] = Retried(c, keep, erase)]
  BY <1>2 DEF RetryPersist
<1>4. PICK s \in Sessions : s = c.session
  BY DEF OpenSessions
<1>5. PICK gone \in SUBSET StoredFacts(s) :
          gone = IF c.pendingClear /\ erase THEN StoredFacts(s) ELSE {}
  OBVIOUS
<1>6. OwnerOK(s, c) /\ SessionOK(s)
  BY <1>1, <1>2, <1>4, OwnerFacts DEF Inv, SessionInv
<1> DEFINE d == Retried(c, keep, erase)
<1>7. d \in OpenSessions
  BY RetriedOK
<1>8. /\ saved' \in [Sessions -> SavedRows \cup {NoRow}]
      /\ reviewed' \in [Sessions -> ReviewedRows \cup {NoRow}]
      /\ \A t \in Sessions \ {s} : saved'[t] = saved[t] /\ reviewed'[t] = reviewed[t]
      /\ saved'[s] = IF c.dirty /\ keep THEN c.memory ELSE saved[s]
      /\ c.pendingClear /\ erase => reviewed'[s] = NoRow /\ erased' = erased \cup StoredFacts(s)
      /\ ~(c.pendingClear /\ erase) => reviewed' = reviewed /\ erased' = erased
  BY <1>3, <1>4, RetryRowsOK
<1>9. OwnerOK(s, d)' /\ Mind(d) = Mind(c)
  BY <1>4, <1>6, <1>7, <1>8, RetriedOwner DEF OwnerOK
<1> HIDE DEF d
<1>10. /\ erased' = erased \cup gone
       /\ (StoredFacts(s)' \cup Mind(d)) \cap gone = {}
       /\ StoredFacts(s)' \cup Mind(d) \subseteq StoredFacts(s) \cup Mind(c)
  <2>1. CASE c.pendingClear /\ erase
    BY <1>5, <1>6, <1>8, <1>9, <2>1 DEF StoredFacts, OwnerOK
  <2>2. CASE ~(c.pendingClear /\ erase)
    BY <1>5, <1>8, <1>9, <2>2 DEF StoredFacts
  <2> QED BY <2>1, <2>2
<1>11. reviewed'[s] # NoRow => reviewed'[s].memory.covered < reviewed'[s].next
  BY <1>6, <1>8 DEF SessionOK
<1>12. cur' = [cur EXCEPT ![p] = d] /\ UNCHANGED <<lock, entry, preview, nextFact>>
  BY <1>3 DEF RetryPersist, d
<1>13. PreviewInv' /\ DOMAIN preview' = Procs /\ preview' = [q \in Procs |-> preview'[q]]
  BY <1>12 DEF Inv, PreviewInv, Types, PreviewOK, Previews, Base
<1> QED BY <1>1, <1>2, <1>4, <1>7, <1>8, <1>9, <1>10, <1>11, <1>12, <1>13, OwnStep
LEMMA PreviewKept ==
    ASSUME Inv, preview' = preview
    PROVE  PreviewInv' /\ DOMAIN preview' = Procs /\ preview' = [q \in Procs |-> preview'[q]]
BY DEF Inv, PreviewInv, Types, PreviewOK, Previews, Base

LEMMA PreviewSet ==
    ASSUME Inv, NEW p \in Procs, NEW v, PreviewOK(v), preview' = [preview EXCEPT ![p] = v]
    PROVE  PreviewInv' /\ DOMAIN preview' = Procs /\ preview' = [q \in Procs |-> preview'[q]]
<1>1. DOMAIN preview' = Procs /\ preview' = [q \in Procs |-> preview'[q]]
  BY DEF Inv, Types
<1>2. preview'[p] = v /\ \A q \in Procs \ {p} : preview'[q] = preview[q]
  BY DEF Inv, Types
<1>3. PreviewInv'
  BY <1>2 DEF Inv, PreviewInv, PreviewOK, Previews, Base
<1> QED BY <1>1, <1>3

\* A step in the open session that leaves the reviewed memories alone.
LEMMA QuietStep ==
    ASSUME Inv, NEW p \in Procs, Active(p), NEW c \in OpenSessions, c = cur[p],
           NEW d \in OpenSessions, d.session = c.session,
           Ordered(d), Remembers(d), d.persistedRevision = c.persistedRevision,
           d.pendingClear = c.pendingClear,
           \/ nextFact' = nextFact /\ Mind(d) \subseteq Mind(c)
           \/ nextFact' = nextFact + 1 /\ Mind(d) \subseteq Mind(c) \cup {nextFact},
           saved' \in [Sessions -> SavedRows \cup {NoRow}],
           \A t \in Sessions \ {c.session} : saved'[t] = saved[t],
           d.persisted.task = saved'[c.session].task,
           ~d.dirty => d.memory.task = d.persisted.task,
           cur' = [cur EXCEPT ![p] = d], UNCHANGED <<reviewed, erased, lock, entry>>,
           PreviewInv', DOMAIN preview' = Procs, preview' = [q \in Procs |-> preview'[q]]
    PROVE  Inv'
<1>1. PICK s \in Sessions : s = c.session
  BY DEF OpenSessions
<1>2. OwnerOK(s, c) /\ SessionOK(s) /\ lock[s] = p /\ p # Nobody
  BY <1>1, OwnerFacts, NobodyAssumption DEF Inv, SessionInv
<1>3. StoredFacts(s)' = StoredFacts(s) /\ ReviewedRevision(s)' = ReviewedRevision(s)
  BY DEF StoredFacts, ReviewedRevision
<1>4. nextFact \notin StoredFacts(s)
  <2>1. StoredFacts(s) \subseteq Learned
    BY DEF Inv, FactsInv, FactsAt
  <2> QED BY <2>1 DEF Inv, Types, Learned
<1>5. OwnerOK(s, d)'
  BY <1>1, <1>2, <1>3, <1>4 DEF OwnerOK
<1>6. reviewed'[s] # NoRow => reviewed'[s].memory.covered < reviewed'[s].next
  BY <1>2 DEF SessionOK
<1>7. reviewed' \in [Sessions -> ReviewedRows \cup {NoRow}]
  BY DEF Inv, Types
<1>8. PICK gone \in SUBSET StoredFacts(s) : gone = {}
  OBVIOUS
<1>9. erased' = erased \cup gone /\ (StoredFacts(s)' \cup Mind(d)) \cap gone = {}
  BY <1>8
<1>10. LET now == StoredFacts(s)' \cup Mind(d)
           was == StoredFacts(s) \cup Mind(cur[p]) IN
       \/ nextFact' = nextFact /\ now \subseteq was
       \/ nextFact' = nextFact + 1 /\ now \subseteq was \cup {nextFact}
  BY <1>3
<1> QED BY <1>1, <1>5, <1>6, <1>7, <1>9, <1>10, OwnStep

LEMMA RefreshStep ==
    ASSUME Inv, NEW p \in Procs, Refresh(p) PROVE Inv'
<1>1. Active(p)
  BY DEF Refresh
<1>2. PICK c \in OpenSessions : c = cur[p]
  BY <1>1, OwnerFacts
<1>3. PICK s \in Sessions : s = c.session
  BY DEF OpenSessions
<1>4. OwnerOK(s, c) /\ ~RefreshRefused(c)
  BY <1>1, <1>2, <1>3, OwnerFacts DEF Refresh
<1> DEFINE d == Refreshed(c)
<1>5. /\ d \in OpenSessions /\ Ordered(d) /\ Remembers(d) /\ Mind(d) \subseteq Mind(c)
      /\ d.session = c.session /\ d.memory = c.memory /\ d.persisted = c.persisted
      /\ d.dirty = c.dirty /\ d.persistedRevision = c.persistedRevision
      /\ d.pendingClear = c.pendingClear
  BY <1>4, RefreshedOK DEF OwnerOK
<1>6. cur' = [cur EXCEPT ![p] = d]
      /\ UNCHANGED <<saved, reviewed, lock, entry, preview, nextFact, erased>>
  BY <1>2 DEF Refresh, storeVars
<1> HIDE DEF d
<1>7. /\ saved' \in [Sessions -> SavedRows \cup {NoRow}]
      /\ \A t \in Sessions \ {c.session} : saved'[t] = saved[t]
      /\ d.persisted.task = saved'[c.session].task
      /\ ~d.dirty => d.memory.task = d.persisted.task
  BY <1>3, <1>4, <1>5, <1>6 DEF Inv, Types, OwnerOK
<1>8. PreviewInv' /\ DOMAIN preview' = Procs /\ preview' = [q \in Procs |-> preview'[q]]
  BY <1>6, PreviewKept
<1> QED BY <1>1, <1>2, <1>5, <1>6, <1>7, <1>8, QuietStep

\* A save of the row of the task: SaveMemory, or nothing.
LEMMA SavedRow ==
    ASSUME Inv, NEW s \in Sessions, NEW memory \in SavedRows, NEW keep \in BOOLEAN,
           IF keep THEN SaveMemory(s, memory) ELSE UNCHANGED storeVars
    PROVE  /\ saved' \in [Sessions -> SavedRows \cup {NoRow}]
           /\ \A t \in Sessions \ {s} : saved'[t] = saved[t]
           /\ saved'[s] = IF keep THEN memory ELSE saved[s]
           /\ reviewed' = reviewed
<1>1. saved \in [Sessions -> SavedRows \cup {NoRow}]
  BY DEF Inv, Types
<1>2. CASE keep
  BY <1>1, <1>2 DEF SaveMemory
<1>3. CASE ~keep
  BY <1>1, <1>3 DEF storeVars
<1> QED BY <1>2, <1>3

LEMMA TaskStep ==
    ASSUME Inv, NEW p \in Procs, Task(p) PROVE Inv'
<1>1. Active(p)
  BY DEF Task
<1>2. PICK c \in OpenSessions : c = cur[p]
  BY <1>1, OwnerFacts
<1>3. PICK s \in Sessions : s = c.session
  BY DEF OpenSessions
<1>4. OwnerOK(s, c)
  BY <1>1, <1>2, <1>3, OwnerFacts
<1>5. PICK f \in Facts : f = nextFact
  BY DEF Task, Facts, Inv, Types
<1>6. PICK upTo \in 0 .. c.target, works \in BOOLEAN, keep \in BOOLEAN :
          LET c3 == Reported(Reviewed(Taught(Compacted(c, upTo), f), works), f) IN
          /\ cur' = [cur EXCEPT ![p] = Persisted(c3, keep)]
          /\ IF keep THEN SaveMemory(c3.session, c3.memory) ELSE UNCHANGED storeVars
  BY <1>2, <1>5 DEF Task
<1> DEFINE c0 == Compacted(c, upTo)
           c1 == Taught(c0, f)
           c2 == Reviewed(c1, works)
           c3 == Reported(c2, f)
           d == Persisted(c3, keep)
<1>7. /\ cur' = [cur EXCEPT ![p] = d]
      /\ IF keep THEN SaveMemory(c3.session, c3.memory) ELSE UNCHANGED storeVars
  BY <1>6
<1>8. /\ c0 \in OpenSessions /\ Ordered(c0) /\ Remembers(c0) /\ Mind(c0) \subseteq Mind(c)
      /\ c0.session = c.session /\ c0.memory = c.memory
      /\ c0.persistedRevision = c.persistedRevision /\ c0.pendingClear = c.pendingClear
  BY <1>4, CompactedOK DEF OwnerOK
<1> HIDE DEF c0
<1>9. /\ c1 \in OpenSessions /\ Ordered(c1) /\ Remembers(c1) /\ Mind(c1) \subseteq Mind(c0) \cup {f}
      /\ c1.session = c0.session
      /\ c1.persistedRevision = c0.persistedRevision /\ c1.pendingClear = c0.pendingClear
  BY <1>8, TaughtOK
<1> HIDE DEF c1
<1>10. /\ c2 \in OpenSessions /\ Ordered(c2) /\ Remembers(c2) /\ Mind(c2) \subseteq Mind(c1)
       /\ c2.session = c1.session
       /\ c2.persistedRevision = c1.persistedRevision /\ c2.pendingClear = c1.pendingClear
  BY <1>9, RefreshedOK DEF Reviewed
<1> HIDE DEF c2
<1>11. /\ c3 \in OpenSessions /\ SameMind(c2, c3) /\ c3.dirty /\ c3.memory.task = f
       /\ c3.session = c2.session
       /\ c3.persistedRevision = c2.persistedRevision /\ c3.pendingClear = c2.pendingClear
  <2>1. f \in Nat
    BY DEF Facts
  <2> QED BY <1>10, <2>1 DEF Reported, OpenSessions, SavedRows, SameMind
<1> HIDE DEF c3
<1>12. /\ d \in OpenSessions /\ d.session = c3.session /\ SameMind(c3, d)
       /\ d.memory = c3.memory /\ d.pendingClear = c3.pendingClear
       /\ d.persistedRevision = c3.persistedRevision
       /\ d.persisted = IF keep THEN c3.memory ELSE c3.persisted
       /\ d.dirty = ~keep
  BY <1>11, PersistedOK
<1>13. c3.persisted = c.persisted
  <2>1. c0.persisted = c.persisted
    BY <1>4, CompactedOK DEF OwnerOK, c0
  <2>2. c1.persisted = c0.persisted
    BY <1>8, TaughtOK DEF c1
  <2>3. c2.persisted = c1.persisted
    BY <1>9, RefreshedOK DEF c2, Reviewed
  <2>4. c3.persisted = c2.persisted
    BY <1>10 DEF c3, Reported, OpenSessions
  <2> QED BY <2>1, <2>2, <2>3, <2>4
<1> HIDE DEF d
<1>14. /\ saved' \in [Sessions -> SavedRows \cup {NoRow}]
       /\ \A t \in Sessions \ {s} : saved'[t] = saved[t]
       /\ saved'[s] = IF keep THEN c3.memory ELSE saved[s]
       /\ reviewed' = reviewed
  <2>1. c3.memory \in SavedRows /\ c3.session = s
    BY <1>3, <1>8, <1>9, <1>10, <1>11 DEF OpenSessions
  <2> QED BY <1>7, <2>1, SavedRow
<1>15. /\ Ordered(d) /\ Remembers(d) /\ Mind(d) \subseteq Mind(c) \cup {nextFact}
  <2>1. Ordered(c3) /\ Remembers(c3) /\ Mind(c3) = Mind(c2)
    BY <1>10, <1>11, SameMindKeeps
  <2>2. Ordered(d) /\ Remembers(d) /\ Mind(d) = Mind(c3)
    BY <1>12, <2>1, SameMindKeeps
  <2> QED BY <1>5, <1>8, <1>9, <1>10, <2>1, <2>2
<1>16. /\ d.persisted.task = saved'[s].task
       /\ ~d.dirty => d.memory.task = d.persisted.task
  BY <1>4, <1>12, <1>13, <1>14 DEF OwnerOK
<1>17. nextFact' = nextFact + 1 /\ UNCHANGED <<lock, entry, preview, erased>>
  BY DEF Task
<1>18. PreviewInv' /\ DOMAIN preview' = Procs /\ preview' = [q \in Procs |-> preview'[q]]
  BY <1>17, PreviewKept
<1>19. /\ d.session = c.session /\ d.persistedRevision = c.persistedRevision
       /\ d.pendingClear = c.pendingClear
  BY <1>8, <1>9, <1>10, <1>11, <1>12
<1> QED BY <1>1, <1>2, <1>3, <1>7, <1>12, <1>14, <1>15, <1>16, <1>17, <1>18, <1>19, QuietStep
LEMMA ClearStep ==
    ASSUME Inv, NEW p \in Procs, Clear(p) PROVE Inv'
<1>1. Active(p)
  BY DEF Clear
<1>2. PICK c \in OpenSessions : c = cur[p]
  BY <1>1, OwnerFacts
<1>3. PICK s \in Sessions : s = c.session
  BY DEF OpenSessions
<1>4. OwnerOK(s, c) /\ SessionOK(s)
  BY <1>1, <1>2, <1>3, OwnerFacts DEF Inv, SessionInv
<1> DEFINE e == Cleared(c)
<1>5. PICK keep \in BOOLEAN, erase \in BOOLEAN :
          /\ cur' = [cur EXCEPT ![p] = Retried(e, keep, erase)]
          /\ saved' = IF e.dirty /\ keep THEN [saved EXCEPT ![e.session] = e.memory] ELSE saved
          /\ reviewed' = IF erase THEN [reviewed EXCEPT ![e.session] = NoRow] ELSE reviewed
          /\ erased' = IF erase THEN erased \cup c.known
                                \cup (IF reviewed[e.session] = NoRow THEN {}
                                      ELSE FactsOf(reviewed[e.session].memory))
                       ELSE erased
  BY <1>2 DEF Clear
<1>6. /\ e \in OpenSessions /\ Ordered(e) /\ Remembers(e) /\ Mind(e) = {}
      /\ e.session = s /\ e.persisted = c.persisted
      /\ e.persistedRevision = c.persistedRevision
      /\ e.pendingClear /\ (~e.dirty => e.memory.task = e.persisted.task)
  BY <1>3, <1>4, ClearedOK DEF OwnerOK
<1> HIDE DEF e
<1> DEFINE d == Retried(e, keep, erase)
<1>7. d \in OpenSessions
  BY <1>6, RetriedOK
<1>8. /\ saved' \in [Sessions -> SavedRows \cup {NoRow}]
      /\ reviewed' \in [Sessions -> ReviewedRows \cup {NoRow}]
      /\ \A t \in Sessions \ {s} : saved'[t] = saved[t] /\ reviewed'[t] = reviewed[t]
      /\ saved'[s] = IF e.dirty /\ keep THEN e.memory ELSE saved[s]
      /\ erase => reviewed'[s] = NoRow
      /\ ~erase => reviewed' = reviewed
  <2>1. e.memory \in SavedRows
    BY <1>6 DEF OpenSessions
  <2> QED BY <1>5, <1>6, <2>1 DEF Inv, Types
<1>9. OwnerOK(s, d)' /\ Mind(d) = {}
  BY <1>4, <1>6, <1>7, <1>8, RetriedOwner DEF OwnerOK
<1> HIDE DEF d
<1>10. lock[s] = p /\ p # Nobody /\ FactsAt(s) = StoredFacts(s) \cup Mind(c)
  BY <1>1, <1>2, <1>3, OwnerFacts, NobodyAssumption DEF FactsAt
<1>11. cur'[p] = d /\ (\A q \in Procs \ {p} : cur'[q] = cur[q])
       /\ cur' \in [Procs -> OpenSessions \cup {NoSession, Down}]
       /\ UNCHANGED <<lock, entry, preview, nextFact>>
  BY <1>5, <1>7 DEF Inv, Types, Clear, d
<1>12. Outside(p, {s})
  BY <1>1, <1>2, <1>3, <1>8, <1>11, OwnerFacts DEF Outside
<1>13. \A t \in Sessions \ {s} : SessionOK(t)' /\ FactsAt(t)' = FactsAt(t)
  BY <1>12, OutsideKept
<1>14. SessionOK(s)'
  BY <1>4, <1>8, <1>9, <1>10, <1>11 DEF SessionOK
<1>15. LockInv'
  <2>1. d.session = s
    BY <1>9 DEF OwnerOK
  <2> QED BY <1>10, <1>11, <2>1 DEF Inv, LockInv, Active
<1>16. FactsAt(s)' = StoredFacts(s)'
  BY <1>9, <1>10, <1>11 DEF FactsAt
<1>17. PICK gone \in SUBSET FactsAt(s) :
          gone = IF erase THEN c.known \cup StoredFacts(s) ELSE {}
  BY <1>10 DEF Mind
<1>18. erased' = erased \cup gone
  BY <1>5, <1>6, <1>17 DEF StoredFacts
<1>19. FactsAt(s)' \subseteq FactsAt(s) /\ FactsAt(s)' \cap gone = {}
  <2>1. CASE erase
    BY <1>8, <1>16, <2>1 DEF StoredFacts
  <2>2. CASE ~erase
    BY <1>8, <1>10, <1>16, <1>17, <2>2 DEF StoredFacts
  <2> QED BY <2>1, <2>2
<1>20. FactsInv'
  BY <1>11, <1>13, <1>17, <1>18, <1>19, FactsStep
<1>21. PreviewInv' /\ DOMAIN preview' = Procs /\ preview' = [q \in Procs |-> preview'[q]]
  BY <1>11, PreviewKept
<1>22. Types'
  BY <1>8, <1>11, <1>21 DEF Inv, Types
<1> QED BY <1>13, <1>14, <1>15, <1>20, <1>21, <1>22 DEF Inv, SessionInv

LEMMA SetPermissionStep ==
    ASSUME Inv, NEW p \in Procs, SetPermission(p) PROVE Inv'
<1>1. PICK level \in Levels :
          IF cur[p] = NoSession
          THEN /\ entry' = [entry EXCEPT ![p] = level]
               /\ UNCHANGED <<storeVars, cur>>
          ELSE LET memory == [cur[p].memory EXCEPT !.permission = level]
                   c == [cur[p] EXCEPT !.memory = memory, !.dirty = memory # cur[p].persisted] IN
               /\ cur' = [cur EXCEPT ![p] = Persisted(c, TRUE)]
               /\ IF c.dirty THEN SaveMemory(c.session, memory) ELSE UNCHANGED storeVars
               /\ UNCHANGED entry
  BY DEF SetPermission
<1>2. UNCHANGED <<lock, preview, nextFact, erased>> /\ cur[p] # Down
  BY DEF SetPermission, Running
<1>3. PreviewInv' /\ DOMAIN preview' = Procs /\ preview' = [q \in Procs |-> preview'[q]]
  BY <1>2, PreviewKept
<1>4. CASE cur[p] = NoSession
  <2>1. entry' = [entry EXCEPT ![p] = level] /\ UNCHANGED <<saved, reviewed, cur>>
    BY <1>1, <1>4 DEF storeVars
  <2>2. Types'
    BY <1>2, <1>3, <2>1 DEF Inv, Types
  <2>3. Outside(p, {})
    BY <1>2, <1>4, <2>1, IdleHoldsNothing DEF Outside, Active
  <2>4. SessionInv' /\ \A s \in Sessions : FactsAt(s)' = FactsAt(s)
    BY <2>3, OutsideKept DEF SessionInv
  <2>5. FactsInv'
    BY <1>2, <2>4 DEF Inv, FactsInv, Learned
  <2>6. LockInv'
    BY <1>2, <2>1 DEF Inv, LockInv, Active
  <2> QED BY <1>3, <2>2, <2>4, <2>5, <2>6 DEF Inv
<1>5. CASE cur[p] # NoSession
  <2>1. Active(p)
    BY <1>2, <1>5 DEF Active
  <2>2. PICK c \in OpenSessions : c = cur[p]
    BY <2>1, OwnerFacts
  <2>3. PICK s \in Sessions : s = c.session
    BY DEF OpenSessions
  <2>4. OwnerOK(s, c)
    BY <2>1, <2>2, <2>3, OwnerFacts
  <2> DEFINE memory == [c.memory EXCEPT !.permission = level]
             e == [c EXCEPT !.memory = memory, !.dirty = memory # c.persisted]
             d == Persisted(e, TRUE)
  <2>5. /\ cur' = [cur EXCEPT ![p] = d]
        /\ IF e.dirty THEN SaveMemory(e.session, memory) ELSE UNCHANGED storeVars
        /\ entry' = entry
    BY <1>1, <1>5, <2>2
  <2>6. memory \in SavedRows /\ memory.task = c.memory.task
    BY DEF OpenSessions, SavedRows
  <2> HIDE DEF memory
  <2>7. /\ e \in OpenSessions /\ SameMind(c, e) /\ e.session = c.session /\ e.memory = memory
        /\ e.persisted = c.persisted /\ e.pendingClear = c.pendingClear
        /\ e.persistedRevision = c.persistedRevision
    <3>1. (memory # c.persisted) \in BOOLEAN
      OBVIOUS
    <3> QED BY <2>6, <3>1 DEF OpenSessions, SameMind
  <2>8. e.dirty = (memory # c.persisted)
    BY DEF OpenSessions
  <2> HIDE DEF e
  <2>9. /\ d \in OpenSessions /\ d.session = e.session /\ SameMind(e, d)
        /\ d.memory = e.memory /\ d.pendingClear = e.pendingClear
        /\ d.persistedRevision = e.persistedRevision
        /\ d.persisted = IF e.dirty THEN e.memory ELSE e.persisted
    BY <2>7, PersistedOK
  <2> HIDE DEF d
  <2>10. Ordered(d) /\ Remembers(d) /\ Mind(d) = Mind(c)
    BY <2>4, <2>7, <2>9, SameMindKeeps DEF OwnerOK
  <2>11. PICK keep \in BOOLEAN : keep = (memory # c.persisted)
    OBVIOUS
  <2>12. /\ saved' \in [Sessions -> SavedRows \cup {NoRow}]
         /\ \A t \in Sessions \ {s} : saved'[t] = saved[t]
         /\ saved'[s] = IF keep THEN memory ELSE saved[s]
         /\ reviewed' = reviewed
    BY <2>3, <2>5, <2>6, <2>7, <2>8, <2>11, SavedRow, ZenonT(40)
  <2>13. d.persisted.task = saved'[s].task /\ d.memory.task = d.persisted.task
    <3>1. d.persisted.task = saved'[s].task
      BY <2>4, <2>7, <2>8, <2>9, <2>11, <2>12 DEF OwnerOK
    <3>2. d.persisted = memory
      BY <2>7, <2>8, <2>9
    <3> QED BY <2>7, <2>9, <3>1, <3>2
  <2>14. d.session = c.session /\ d.persistedRevision = c.persistedRevision
         /\ d.pendingClear = c.pendingClear
    BY <2>7, <2>9
  <2> QED BY <1>2, <1>3, <2>1, <2>2, <2>3, <2>5, <2>9, <2>10, <2>12, <2>13, <2>14, QuietStep
<1> QED BY <1>4, <1>5

LEMMA ApplyStep ==
    ASSUME Inv, NEW p \in Procs, NEW kind \in {"edit", "archive"}, NEW n \in Nat,
           Apply(p, kind, n)
    PROVE  Inv'
<1>1. Active(p) /\ preview[p] # NoRow /\ SameBase(p)
  BY DEF Apply, SameBase
<1>2. PICK c \in OpenSessions : c = cur[p]
  BY <1>1, OwnerFacts
<1>3. PICK s \in Sessions : s = c.session
  BY DEF OpenSessions
<1>4. OwnerOK(s, c)
  BY <1>1, <1>2, <1>3, OwnerFacts
<1>5. preview[p] \in Previews /\ FactsOf(preview[p].candidate) \subseteq FactsOf(Base(preview[p]))
  BY <1>1 DEF Inv, PreviewInv, PreviewOK
<1>6. PICK m \in Memories : m = preview[p].candidate
  BY <1>5 DEF Previews
<1>7. FactsOf(m) \subseteq FactsOf(Base(c))
  BY <1>1, <1>2, <1>5, <1>6 DEF SameBase, Base
<1>e. PICK e : e = WithBase(c, m)
  OBVIOUS
<1>0. PICK d : d = [e EXCEPT !.next = e.next + n,
                             !.known = e.known \ (FactsOf(Base(c)) \ FactsOf(m))]
  OBVIOUS
<1>8. /\ m.covered = Base(c).covered /\ cur' = [cur EXCEPT ![p] = d]
      /\ preview' = [preview EXCEPT ![p] = NoRow]
      /\ UNCHANGED <<saved, reviewed, lock, entry, nextFact, erased>>
  BY <1>e, <1>0, <1>2, <1>6 DEF Apply, storeVars
<1>9. /\ d \in OpenSessions /\ Ordered(d) /\ Remembers(d) /\ Mind(d) \subseteq Mind(c)
      /\ SavedAlike(c, d)
  <2>1. Ordered(c) /\ Remembers(c) /\ m.covered = Base(c).covered
    BY <1>4, <1>8 DEF OwnerOK
  <2> QED BY <1>e, <1>0, <1>7, <2>1, EditedOK
<1>9a. /\ d.session = c.session /\ d.memory = c.memory /\ d.persisted = c.persisted
       /\ d.dirty = c.dirty /\ d.persistedRevision = c.persistedRevision
       /\ d.pendingClear = c.pendingClear
  BY <1>9 DEF SavedAlike
<1>10. /\ saved' \in [Sessions -> SavedRows \cup {NoRow}]
       /\ \A t \in Sessions \ {c.session} : saved'[t] = saved[t]
       /\ d.persisted.task = saved'[c.session].task
       /\ ~d.dirty => d.memory.task = d.persisted.task
  BY <1>3, <1>4, <1>8, <1>9, <1>9a DEF Inv, Types, OwnerOK
<1>11. PreviewInv' /\ DOMAIN preview' = Procs /\ preview' = [q \in Procs |-> preview'[q]]
  <2>1. PreviewOK(NoRow)
    BY DEF PreviewOK
  <2> QED BY <1>8, <2>1, PreviewSet
<1> QED BY <1>1, <1>2, <1>8, <1>9, <1>9a, <1>10, <1>11, QuietStep

LEMMA SavePreviewStep ==
    ASSUME Inv, NEW p \in Procs, SavePreview(p) PROVE Inv'
<1>1. Active(p) /\ ~cur[p].pendingClear
  BY DEF SavePreview, SameBase
<1>2. PICK c \in OpenSessions : c = cur[p]
  BY <1>1, OwnerFacts
<1>3. PICK s \in Sessions : s = c.session
  BY DEF OpenSessions
<1>4. OwnerOK(s, c)
  BY <1>1, <1>2, <1>3, OwnerFacts
<1>5. PICK m \in Memories : m = Base(c)
  BY BaseType DEF OpenSessions
<1>6. /\ preview[p].candidate = m /\ preview[p].next = c.next
      /\ SaveConversation(s, m, c.next, preview[p].persistedRevision)
      /\ cur' = [cur EXCEPT ![p].persistedRevision = m.revision]
      /\ preview' = [preview EXCEPT ![p] = NoRow]
      /\ UNCHANGED <<lock, entry, nextFact, erased>>
  BY <1>2, <1>3, <1>5 DEF SavePreview, SameBase
<1> DEFINE d == [c EXCEPT !.persistedRevision = m.revision]
           row == [memory |-> m, next |-> c.next]
<1>7. m.revision \in Nat /\ c.next \in Nat /\ m.covered < c.next
  BY <1>6 DEF SaveConversation, Memories, OpenSessions
<1>8. row \in ReviewedRows /\ row # NoRow /\ row.memory = m /\ row.next = c.next
  BY <1>7, SentinelAssumption DEF ReviewedRows
<1>9. reviewed' = [reviewed EXCEPT ![s] = row] /\ saved' = saved
  BY <1>6 DEF SaveConversation
<1> HIDE DEF row
<1>10. /\ reviewed'[s] = row /\ reviewed' \in [Sessions -> ReviewedRows \cup {NoRow}]
       /\ \A t \in Sessions \ {s} : reviewed'[t] = reviewed[t]
  BY <1>8, <1>9 DEF Inv, Types
<1>11. StoredFacts(s)' = FactsOf(m) /\ ReviewedRevision(s)' = m.revision
  BY <1>8, <1>10 DEF StoredFacts, ReviewedRevision
<1>12. /\ d \in OpenSessions /\ SameMind(c, d) /\ d.session = c.session /\ d.memory = c.memory
       /\ d.persisted = c.persisted /\ d.pendingClear = c.pendingClear /\ d.dirty = c.dirty
       /\ d.persistedRevision = m.revision
  BY <1>7 DEF OpenSessions, SameMind
<1>13. cur' = [cur EXCEPT ![p] = d]
  BY <1>2, <1>6
<1> HIDE DEF d
<1>14. Mind(d) = Mind(c) /\ Ordered(d) /\ Remembers(d) /\ FactsOf(m) \subseteq Mind(c)
  BY <1>4, <1>5, <1>12, SameMindKeeps DEF OwnerOK, Mind, Base
<1>15. OwnerOK(s, d)'
  BY <1>1, <1>2, <1>3, <1>4, <1>9, <1>11, <1>12, <1>14 DEF OwnerOK
<1>16. PICK gone \in SUBSET StoredFacts(s) : gone = {}
  OBVIOUS
<1>17. /\ erased' = erased \cup gone
       /\ (StoredFacts(s)' \cup Mind(d)) \cap gone = {}
       /\ StoredFacts(s)' \cup Mind(d) \subseteq StoredFacts(s) \cup Mind(cur[p])
  BY <1>2, <1>6, <1>11, <1>14, <1>16
<1>18. PreviewInv' /\ DOMAIN preview' = Procs /\ preview' = [q \in Procs |-> preview'[q]]
  <2>1. PreviewOK(NoRow)
    BY DEF PreviewOK
  <2> QED BY <1>6, <2>1, PreviewSet
<1>19. saved' \in [Sessions -> SavedRows \cup {NoRow}]
       /\ \A t \in Sessions \ {s} : saved'[t] = saved[t] /\ reviewed'[t] = reviewed[t]
  BY <1>9, <1>10 DEF Inv, Types
<1>20. reviewed'[s] # NoRow => reviewed'[s].memory.covered < reviewed'[s].next
  BY <1>7, <1>8, <1>10
<1> QED BY <1>1, <1>2, <1>3, <1>6, <1>10, <1>12, <1>13, <1>15, <1>17, <1>18, <1>19, <1>20,
           OwnStep

\* What a person is shown to edit holds no more than there is.
LEMMA ShownStep ==
    ASSUME Inv, NEW p \in Procs,
           PreviewSave(p) \/ PreviewEdit(p) \/ PreviewArchiveDelete(p)
    PROVE  Inv'
<1>1. Active(p) /\ UNCHANGED <<saved, reviewed, lock, cur, entry, nextFact, erased>>
  BY DEF PreviewSave, PreviewEdit, PreviewArchiveDelete, Editable, storeVars
<1>2. PICK c \in OpenSessions : c = cur[p]
  BY <1>1, OwnerFacts
<1>3. PICK b \in Memories : b = Base(c)
  BY BaseType DEF OpenSessions
<1>4. b.revision + 1 \in Nat /\ b.items \in SUBSET Facts /\ b.archived \in SUBSET Facts
      /\ FactsOf(b) = b.items \cup b.archived
  BY SentinelAssumption DEF Memories, FactsOf
<1>5. PICK kind \in {"save", "edit", "archive"}, m \in Memories :
          preview' = [preview EXCEPT ![p] = Bound(p, kind, m)] /\ FactsOf(m) \subseteq FactsOf(b)
  <2>1. CASE PreviewSave(p)
    BY <1>2, <1>3, <2>1 DEF PreviewSave
  <2>2. CASE PreviewEdit(p)
    <3>1. PICK after \in Edits(b) : preview' = [preview EXCEPT ![p] = Bound(p, "edit", after)]
      BY <1>2, <1>3, <2>2 DEF PreviewEdit
    <3>2. PICK f \in b.items :
              after = Without(b, f) \/ after = [Without(b, f) EXCEPT !.archived = @ \cup {f}]
      BY DEF Edits
    <3>3. b.items \ {f} \in SUBSET Facts /\ b.archived \cup {f} \in SUBSET FactsOf(b)
          /\ b.archived \cup {f} \in SUBSET Facts
      BY <1>4
    <3>4. PICK w : w = Without(b, f)
      OBVIOUS
    <3>5. w \in Memories /\ w.items = b.items \ {f} /\ w.archived = b.archived
      BY <1>4, <3>3, <3>4 DEF Without, Memories
    <3>6. CASE after = w
      <4>1. FactsOf(after) \subseteq FactsOf(b)
        BY <1>4, <3>5, <3>6, SentinelAssumption DEF FactsOf
      <4> QED BY <3>1, <3>5, <3>6, <4>1
    <3>7. CASE after = [w EXCEPT !.archived = @ \cup {f}]
      <4>1. after \in Memories /\ after.items = w.items /\ after.archived = b.archived \cup {f}
        BY <3>3, <3>5, <3>7 DEF Memories
      <4>2. FactsOf(after) \subseteq FactsOf(b)
        BY <1>4, <3>3, <3>5, <4>1, SentinelAssumption DEF FactsOf
      <4> QED BY <3>1, <4>1, <4>2
    <3> QED BY <3>2, <3>4, <3>6, <3>7
  <2>3. CASE PreviewArchiveDelete(p)
    <3>1. PICK f \in b.archived :
              preview' = [preview EXCEPT ![p] = Bound(p, "archive",
                  [b EXCEPT !.revision = @ + 1, !.archived = @ \ {f}])]
      BY <1>2, <1>3, <2>3 DEF PreviewArchiveDelete
    <3> DEFINE m == [b EXCEPT !.revision = b.revision + 1, !.archived = b.archived \ {f}]
    <3>2. preview' = [preview EXCEPT ![p] = Bound(p, "archive", m)]
      BY <3>1
    <3>3. b.archived \ {f} \in SUBSET Facts
      BY <1>4
    <3>4. m \in Memories /\ m.items = b.items /\ m.archived = b.archived \ {f}
      BY <1>4, <3>3 DEF Memories
    <3> HIDE DEF m
    <3>5. FactsOf(m) \subseteq FactsOf(b)
      BY <1>4, <3>4, SentinelAssumption DEF FactsOf
    <3> QED BY <3>2, <3>4, <3>5
  <2> QED BY <2>1, <2>2, <2>3
<1>6. PICK v : v = Bound(p, kind, m)
  OBVIOUS
<1>7. v = [ kind |-> kind, session |-> c.session, conv |-> c.conv, review |-> c.review,
            next |-> c.next, persistedRevision |-> c.persistedRevision, candidate |-> m ]
  BY <1>2, <1>6 DEF Bound
<1>8. v \in Previews
  BY <1>7 DEF OpenSessions, Previews
<1>9. v.candidate = m /\ Base(v) = b
  BY <1>3, <1>7 DEF Base
<1>10. PreviewOK(v)
  BY <1>5, <1>8, <1>9 DEF PreviewOK
<1>11. PreviewInv' /\ DOMAIN preview' = Procs /\ preview' = [q \in Procs |-> preview'[q]]
  BY <1>5, <1>6, <1>10, PreviewSet
<1>12. Types' /\ LockInv'
  BY <1>1, <1>11 DEF Inv, Types, LockInv, Active
<1>13. SessionInv' /\ \A s \in Sessions : FactsAt(s)' = FactsAt(s)
  BY <1>1 DEF Inv, SessionInv, SessionOK, OwnerOK, ReviewedRevision, StoredFacts, FactsAt
<1>14. FactsInv'
  BY <1>1, <1>13 DEF Inv, FactsInv, Learned
<1> QED BY <1>11, <1>12, <1>13, <1>14 DEF Inv

LEMMA RetryLeaves ==
    ASSUME Inv, NEW p \in Procs, Active(p), NEW keep \in BOOLEAN, NEW erase \in BOOLEAN,
           RetryRows(cur[p], keep, erase)
    PROVE  \E gone : Leaves(p, gone, {})
<1>1. PICK c \in OpenSessions : c = cur[p]
  BY OwnerFacts
<1>2. PICK s \in Sessions : s = c.session
  BY DEF OpenSessions
<1>3. \A t \in Sessions : lock[t] = p <=> t = s
  BY <1>1, <1>2, OwnerFacts
<1>4. RetryRows(c, keep, erase)
  BY <1>1
<1>5. /\ saved' \in [Sessions -> SavedRows \cup {NoRow}]
      /\ reviewed' \in [Sessions -> ReviewedRows \cup {NoRow}]
      /\ \A t \in Sessions \ {s} : saved'[t] = saved[t] /\ reviewed'[t] = reviewed[t]
      /\ c.pendingClear /\ erase => reviewed'[s] = NoRow /\ erased' = erased \cup StoredFacts(s)
      /\ ~(c.pendingClear /\ erase) => reviewed' = reviewed /\ erased' = erased
  BY <1>2, <1>4, RetryRowsOK
<1>6. PICK gone : gone = IF c.pendingClear /\ erase THEN StoredFacts(s) ELSE {}
  OBVIOUS
<1>7. erased' = erased \cup gone
      /\ ((reviewed'[s] = reviewed[s] /\ gone = {}) \/ reviewed'[s] = NoRow)
      /\ (gone # {} => gone \subseteq StoredFacts(s))
  BY <1>5, <1>6
<1> QED BY <1>3, <1>5, <1>7 DEF Leaves

LEMMA StayLeaves ==
    ASSUME Inv, UNCHANGED <<storeVars, erased>>, NEW p \in Procs
    PROVE  Leaves(p, {}, {})
BY DEF Inv, Types, Leaves, storeVars

\* A process takes a session nobody holds, and lets its own go.
LEMMA TakeStep ==
    ASSUME Inv, NEW p \in Procs, NEW s \in Sessions, NEW memory \in SavedRows,
           lock[s] = Nobody, NEW gone, Leaves(p, gone, {s}),
           saved'[s] # NoRow, saved'[s].task = memory.task,
           cur' = [cur EXCEPT ![p] = Opened(s, memory)],
           \A t \in Sessions :
               lock'[t] = IF t = s THEN p ELSE IF lock[t] = p THEN Nobody ELSE lock[t],
           lock' = [t \in Sessions |-> lock'[t]],
           UNCHANGED <<entry, preview, nextFact>>
    PROVE  Inv'
<1>1. p # Nobody
  BY NobodyAssumption
<1>2. reviewed[s] \in ReviewedRows \cup {NoRow}
      /\ (reviewed[s] # NoRow => reviewed[s].memory.covered < reviewed[s].next)
  BY DEF Inv, Types, SessionInv, SessionOK
<1>3. PICK d : d = Opened(s, memory)
  OBVIOUS
<1>4. /\ d \in OpenSessions /\ d.session = s /\ ~d.pendingClear /\ ~d.dirty
      /\ d.memory = memory /\ d.persisted = memory
      /\ Ordered(d) /\ Remembers(d)
      /\ d.persistedRevision = ReviewedRevision(s)
      /\ Mind(d) = StoredFacts(s)
  BY <1>2, <1>3, OpenedOK
<1>5. reviewed'[s] = reviewed[s]
  BY <1>1 DEF Leaves
<1>6. ReviewedRevision(s)' = ReviewedRevision(s)
  BY <1>5 DEF ReviewedRevision
<1>7. OwnerOK(s, d)'
  BY <1>4, <1>6 DEF OwnerOK
<1>8. PICK new \in SUBSET Sessions : new = {s}
  OBVIOUS
<1>9. new = (IF d \in OpenSessions THEN {d.session} ELSE {}) /\ Leaves(p, gone, new)
      /\ \A t \in new : lock[t] = Nobody /\ OwnerOK(t, d)' /\ Mind(d) = StoredFacts(t)
  BY <1>4, <1>7, <1>8
<1>10. lock' = [t \in Sessions |-> IF t \in new THEN p
                                   ELSE IF lock[t] = p THEN Nobody ELSE lock[t]]
  BY <1>8
<1>11. PreviewInv' /\ DOMAIN preview' = Procs /\ preview' = [q \in Procs |-> preview'[q]]
  BY PreviewKept
<1>12. entry' \in [Procs -> Levels \cup {"strict"}] /\ nextFact' = nextFact
  BY DEF Inv, Types
<1>13. cur' = [cur EXCEPT ![p] = d] /\ d \in OpenSessions \cup {NoSession, Down}
  BY <1>3, <1>4
<1> QED BY <1>9, <1>10, <1>11, <1>12, <1>13, MoveStep, ZenonT(40)

\* A process is left without a session.
LEMMA LeaveStep ==
    ASSUME Inv, NEW p \in Procs, NEW d \in {NoSession, Down}, NEW gone, Leaves(p, gone, {}),
           cur' = [cur EXCEPT ![p] = d],
           lock' = [s \in Sessions |-> IF lock[s] = p THEN Nobody ELSE lock[s]],
           entry' \in [Procs -> Levels \cup {"strict"}], nextFact' = nextFact,
           PreviewInv', DOMAIN preview' = Procs, preview' = [q \in Procs |-> preview'[q]]
    PROVE  Inv'
<1>1. PICK new \in SUBSET Sessions : new = {}
  OBVIOUS
<1>2. d \notin OpenSessions /\ d \in OpenSessions \cup {NoSession, Down}
  BY SentinelAssumption
<1>3. new = (IF d \in OpenSessions THEN {d.session} ELSE {}) /\ Leaves(p, gone, new)
      /\ \A t \in new : lock[t] = Nobody /\ OwnerOK(t, d)' /\ Mind(d) = StoredFacts(t)
  BY <1>1, <1>2
<1>4. lock' = [t \in Sessions |-> IF t \in new THEN p
                                  ELSE IF lock[t] = p THEN Nobody ELSE lock[t]]
  BY <1>1
<1> QED BY <1>2, <1>3, <1>4, MoveStep

LEMMA StartStep ==
    ASSUME Inv, NEW p \in Procs, Start(p) PROVE Inv'
<1>1. cur[p] = Down /\ UNCHANGED <<storeVars, entry, preview, nextFact, erased>>
  BY DEF Start
<1>2. \A t \in Sessions : lock[t] # p
  BY <1>1, IdleHoldsNothing DEF Active
<1>3. CASE cur' = [cur EXCEPT ![p] = NoSession] /\ UNCHANGED lock
  <2>1. Leaves(p, {}, {})
    BY <1>1, StayLeaves
  <2>2. lock' = [s \in Sessions |-> IF lock[s] = p THEN Nobody ELSE lock[s]]
    BY <1>2, <1>3 DEF Inv, Types
  <2>3. entry' \in [Procs -> Levels \cup {"strict"}] /\ nextFact' = nextFact
    BY <1>1 DEF Inv, Types
  <2>4. PreviewInv' /\ DOMAIN preview' = Procs /\ preview' = [q \in Procs |-> preview'[q]]
    BY <1>1, PreviewKept
  <2> QED BY <1>3, <2>1, <2>2, <2>3, <2>4, LeaveStep
<1>4. CASE \E s \in Sessions : /\ Exists(s) /\ SessionLockFree(s)
                               /\ lock' = [lock EXCEPT ![s] = p]
                               /\ cur' = [cur EXCEPT ![p] = Opened(s, saved[s])]
  <2>1. PICK s \in Sessions : /\ Exists(s) /\ SessionLockFree(s)
                              /\ lock' = [lock EXCEPT ![s] = p]
                              /\ cur' = [cur EXCEPT ![p] = Opened(s, saved[s])]
    BY <1>4
  <2>2. PICK row \in SavedRows : row = saved[s]
    BY <2>1 DEF Inv, Types, Exists
  <2>3. lock[s] = Nobody
    BY <2>1 DEF SessionLockFree
  <2>4. Leaves(p, {}, {s})
    BY <1>1, StayLeaves DEF Leaves
  <2>5. saved'[s] # NoRow /\ saved'[s].task = row.task
    BY <1>1, <2>1, <2>2 DEF Exists, storeVars
  <2>6. \A t \in Sessions :
            lock'[t] = IF t = s THEN p ELSE IF lock[t] = p THEN Nobody ELSE lock[t]
    BY <1>2, <2>1 DEF Inv, Types
  <2>7. lock' = [t \in Sessions |-> lock'[t]]
    BY <2>1 DEF Inv, Types
  <2>8. cur' = [cur EXCEPT ![p] = Opened(s, row)]
    BY <2>1, <2>2
  <2> QED BY <1>1, <2>3, <2>4, <2>5, <2>6, <2>7, <2>8, TakeStep
<1> QED BY <1>3, <1>4 DEF Start

LEMMA SwitchStep ==
    ASSUME Inv, NEW p \in Procs, Switch(p) PROVE Inv'
<1>1. PICK s \in Sessions :
          /\ Exists(s) /\ SessionLockFree(s)
          /\ cur' = [cur EXCEPT ![p] = Opened(s, saved[s])]
          /\ (IF Active(p) THEN RetryRows(cur[p], TRUE, TRUE) ELSE UNCHANGED <<storeVars, erased>>)
          /\ HandOver(p, s)
  BY DEF Switch
<1>2. UNCHANGED <<entry, preview, nextFact>>
  BY DEF Switch
<1>3. PICK row \in SavedRows : row = saved[s]
  BY <1>1 DEF Inv, Types, Exists
<1>4. lock[s] = Nobody /\ lock[s] # p
  BY <1>1, NobodyAssumption DEF SessionLockFree
<1>5. PICK gone : Leaves(p, gone, {})
  <2>1. CASE Active(p)
    BY <1>1, <2>1, RetryLeaves
  <2>2. CASE ~Active(p)
    BY <1>1, <2>2, StayLeaves
  <2> QED BY <2>1, <2>2
<1>6. Leaves(p, gone, {s})
  BY <1>5 DEF Leaves
<1>7. saved'[s] # NoRow /\ saved'[s].task = row.task
  BY <1>1, <1>3, <1>4, <1>5 DEF Leaves, Exists
<1>8. /\ \A t \in Sessions :
             lock'[t] = IF t = s THEN p ELSE IF lock[t] = p THEN Nobody ELSE lock[t]
      /\ lock' = [t \in Sessions |-> lock'[t]]
  BY <1>1 DEF HandOver
<1>9. cur' = [cur EXCEPT ![p] = Opened(s, row)]
  BY <1>1, <1>3
<1> QED BY <1>2, <1>4, <1>6, <1>7, <1>8, <1>9, TakeStep

LEMMA CloseStep ==
    ASSUME Inv, NEW p \in Procs, Close(p) \/ Crash(p) PROVE Inv'
<1>1. /\ cur' = [cur EXCEPT ![p] = Down] /\ preview' = [preview EXCEPT ![p] = NoRow]
      /\ lock' = [s \in Sessions |-> IF lock[s] = p THEN Nobody ELSE lock[s]]
      /\ entry' = [entry EXCEPT ![p] = "strict"] /\ nextFact' = nextFact
  BY DEF Close, Crash
<1>2. PICK gone : Leaves(p, gone, {})
  <2>1. CASE Active(p) /\ \E keep, erase \in BOOLEAN : RetryRows(cur[p], keep, erase)
    BY <2>1, RetryLeaves
  <2>2. CASE UNCHANGED <<storeVars, erased>>
    BY <2>2, StayLeaves
  <2> QED BY <2>1, <2>2 DEF Close, Crash
<1>3. entry' \in [Procs -> Levels \cup {"strict"}]
  BY <1>1 DEF Inv, Types
<1>4. PreviewInv' /\ DOMAIN preview' = Procs /\ preview' = [q \in Procs |-> preview'[q]]
  <2>1. PreviewOK(NoRow)
    BY DEF PreviewOK
  <2> QED BY <1>1, <2>1, PreviewSet
<1> QED BY <1>1, <1>2, <1>3, <1>4, LeaveStep

LEMMA CreateStep ==
    ASSUME Inv, NEW p \in Procs, Create(p) PROVE Inv'
<1>1. PICK s \in Sessions :
          /\ ~Exists(s) /\ SessionLockFree(s)
          /\ cur' = [cur EXCEPT ![p] = Opened(s, Prepared(p))]
          /\ IF Active(p)
             THEN LET c == cur[p] IN
                  /\ saved' = [saved EXCEPT ![s] = ColumnDefaults,
                                 ![c.session] = IF c.dirty THEN c.memory ELSE @]
                  /\ reviewed' = IF c.pendingClear
                                 THEN [reviewed EXCEPT ![c.session] = NoRow] ELSE reviewed
                  /\ erased' = IF c.pendingClear /\ reviewed[c.session] # NoRow
                               THEN erased \cup FactsOf(reviewed[c.session].memory) ELSE erased
                  /\ UNCHANGED <<marker, accepted>>
             ELSE InsertPrepared(s, ColumnDefaults) /\ UNCHANGED erased
          /\ HandOver(p, s)
  BY DEF Create
<1>2. UNCHANGED <<entry, preview, nextFact>>
  BY DEF Create
<1>3. lock[s] = Nobody /\ lock[s] # p
  BY <1>1, NobodyAssumption DEF SessionLockFree
<1>4. ColumnDefaults \in SavedRows /\ ColumnDefaults # NoRow /\ ColumnDefaults.task = 0
  BY SentinelAssumption DEF ColumnDefaults, SavedRows
<1>5. PICK row : row = Prepared(p)
  OBVIOUS
<1>6. row \in SavedRows /\ row.task = 0
  <2>1. Inherited(p) \in Levels \cup {"strict"}
    <3>1. CASE Active(p)
      BY <3>1, OwnerFacts DEF Inherited, OpenSessions, SavedRows
    <3>2. CASE ~Active(p)
      BY <3>2 DEF Inherited, Inv, Types
    <3> QED BY <3>1, <3>2
  <2> QED BY <1>5, <2>1 DEF Prepared, SavedRows
<1>7. \E gone : Leaves(p, gone, {s}) /\ saved'[s] = ColumnDefaults
  <2>1. CASE Active(p)
    <3>1. PICK c \in OpenSessions : c = cur[p]
      BY <2>1, OwnerFacts
    <3>2. PICK o \in Sessions : o = c.session
      BY DEF OpenSessions
    <3>3. \A t \in Sessions : lock[t] = p <=> t = o
      BY <2>1, <3>1, <3>2, OwnerFacts
    <3>4. s # o
      BY <1>3, <3>3
    <3>5. c.memory \in SavedRows
      BY DEF OpenSessions
    <3>6. /\ saved' = [saved EXCEPT ![s] = ColumnDefaults,
                                    ![o] = IF c.dirty THEN c.memory ELSE @]
          /\ reviewed' = IF c.pendingClear THEN [reviewed EXCEPT ![o] = NoRow] ELSE reviewed
          /\ erased' = IF c.pendingClear /\ reviewed[o] # NoRow
                       THEN erased \cup FactsOf(reviewed[o].memory) ELSE erased
      BY <1>1, <2>1, <3>1, <3>2
    <3>7. PICK gone : gone = IF c.pendingClear THEN StoredFacts(o) ELSE {}
      OBVIOUS
    <3>8. erased' = erased \cup gone
      BY <3>6, <3>7 DEF StoredFacts
    <3>9. /\ saved' \in [Sessions -> SavedRows \cup {NoRow}] /\ saved'[s] = ColumnDefaults
          /\ \A t \in Sessions \ {s, o} : saved'[t] = saved[t]
      BY <1>4, <3>4, <3>5, <3>6 DEF Inv, Types
    <3>10. /\ reviewed' \in [Sessions -> ReviewedRows \cup {NoRow}]
           /\ \A t \in Sessions \ {o} : reviewed'[t] = reviewed[t]
           /\ (reviewed'[o] = reviewed[o] /\ gone = {}) \/ reviewed'[o] = NoRow
      BY <3>6, <3>7 DEF Inv, Types
    <3>11. gone # {} => gone \subseteq StoredFacts(o)
      BY <3>7
    <3> QED BY <3>3, <3>8, <3>9, <3>10, <3>11 DEF Leaves
  <2>2. CASE ~Active(p)
    <3>1. /\ saved' = [saved EXCEPT ![s] = ColumnDefaults]
          /\ reviewed' = reviewed /\ erased' = erased
      BY <1>1, <2>2 DEF InsertPrepared
    <3>2. Leaves(p, {}, {s})
      BY <1>4, <3>1 DEF Leaves, Inv, Types
    <3>3. saved'[s] = ColumnDefaults
      BY <3>1 DEF Inv, Types
    <3> QED BY <3>2, <3>3
  <2> QED BY <2>1, <2>2
<1>8. PICK gone : Leaves(p, gone, {s}) /\ saved'[s] = ColumnDefaults
  BY <1>7
<1>9. saved'[s] # NoRow /\ saved'[s].task = row.task
  BY <1>4, <1>6, <1>8
<1>10. /\ \A t \in Sessions :
              lock'[t] = IF t = s THEN p ELSE IF lock[t] = p THEN Nobody ELSE lock[t]
       /\ lock' = [t \in Sessions |-> lock'[t]]
  BY <1>1 DEF HandOver
<1>11. cur' = [cur EXCEPT ![p] = Opened(s, row)]
  BY <1>1, <1>5
<1> QED BY <1>2, <1>3, <1>6, <1>8, <1>9, <1>10, <1>11, TakeStep

-----------------------------------------------------------------------------
(* The invariant holds *)

LEMMA InitInv == ASSUME Init PROVE Inv
<1>1. /\ saved = [s \in Sessions |-> NoRow] /\ reviewed = [s \in Sessions |-> NoRow]
      /\ lock = [s \in Sessions |-> Nobody]
      /\ cur = [p \in Procs |-> Down] /\ entry = [p \in Procs |-> "strict"]
      /\ preview = [p \in Procs |-> NoRow] /\ nextFact = 1 /\ erased = {}
  BY DEF Init, StoreInit
<1>2. Types
  BY <1>1 DEF Types
<1>3. LockInv
  BY <1>1 DEF LockInv, Active
<1>4. SessionInv
  BY <1>1 DEF SessionInv, SessionOK
<1>5. \A s \in Sessions : FactsAt(s) = {}
  BY <1>1 DEF FactsAt, StoredFacts
<1>6. FactsInv
  BY <1>1, <1>5 DEF FactsInv
<1>7. PreviewInv
  BY <1>1 DEF PreviewInv, PreviewOK
<1> QED BY <1>2, <1>3, <1>4, <1>6, <1>7 DEF Inv

LEMMA IdleStep == ASSUME Inv, UNCHANGED vars PROVE Inv'
<1>1. /\ saved' = saved /\ reviewed' = reviewed /\ lock' = lock /\ cur' = cur /\ entry' = entry
      /\ preview' = preview /\ nextFact' = nextFact /\ erased' = erased
  BY DEF vars
<1>2. Types' /\ LockInv'
  BY <1>1 DEF Inv, Types, LockInv, Active
<1>3. \A s \in Sessions : StoredFacts(s)' = StoredFacts(s) /\ ReviewedRevision(s)' = ReviewedRevision(s)
  BY <1>1 DEF StoredFacts, ReviewedRevision
<1>4. SessionInv'
  BY <1>1, <1>3 DEF Inv, SessionInv, SessionOK, OwnerOK
<1>5. \A s \in Sessions : FactsAt(s)' = FactsAt(s)
  BY <1>1, <1>3 DEF FactsAt
<1>6. FactsInv'
  BY <1>1, <1>5 DEF Inv, FactsInv, Learned
<1>7. PreviewInv'
  BY <1>1, PreviewKept
<1> QED BY <1>2, <1>4, <1>6, <1>7 DEF Inv

LEMMA StepInv == ASSUME Inv, [Next]_vars PROVE Inv'
<1>1. CASE UNCHANGED vars
  BY <1>1, IdleStep
<1>2. ASSUME NEW p \in Procs, Start(p) \/ Create(p) \/ Switch(p) \/ Close(p) \/ Crash(p)
      PROVE  Inv'
  BY <1>2, StartStep, CreateStep, SwitchStep, CloseStep
<1>3. ASSUME NEW p \in Procs,
             RetryPersist(p) \/ Task(p) \/ Refresh(p) \/ Clear(p) \/ SetPermission(p)
      PROVE  Inv'
  BY <1>3, RetryPersistStep, TaskStep, RefreshStep, ClearStep, SetPermissionStep
<1>4. ASSUME NEW p \in Procs, PreviewSave(p) \/ PreviewEdit(p) \/ PreviewArchiveDelete(p)
      PROVE  Inv'
  BY <1>4, ShownStep
<1>5. ASSUME NEW p \in Procs, SavePreview(p) PROVE Inv'
  BY <1>5, SavePreviewStep
<1>6. ASSUME NEW p \in Procs, ApplyEdit(p) \/ ApplyArchiveDelete(p) PROVE Inv'
  <2>1. PICK kind \in {"edit", "archive"}, n \in Nat : Apply(p, kind, n)
    BY <1>6 DEF ApplyEdit, ApplyArchiveDelete
  <2> QED BY <2>1, ApplyStep
<1> QED BY <1>1, <1>2, <1>3, <1>4, <1>5, <1>6 DEF Next

\* Every state the processes can reach satisfies the invariant: the records have
\* their types, a session that is open is locked by the one process that has it
\* open, what that process believes of the rows is so, nothing known is out of the
\* memory and of the messages at once, and no fact is in two sessions.
THEOREM Invariance == Spec => []Inv
<1>1. Init => Inv
  BY InitInv
<1>2. Inv /\ [Next]_vars => Inv'
  BY StepInv
<1> QED BY <1>1, <1>2, PTL DEF Spec

\* One process has a session open, and it holds no other lock (session/lock.py and
\* the hand-over in session/runtime.py).
THEOREM LockFollowsSession == Spec => []OwnerHoldsLock
<1>1. Inv => OwnerHoldsLock
  <2> SUFFICES ASSUME Inv, NEW p \in Procs
               PROVE  Held(p) = IF Active(p) THEN {cur[p].session} ELSE {}
    BY DEF OwnerHoldsLock
  <2>1. CASE Active(p)
    BY <2>1, OwnerFacts DEF Held
  <2>2. CASE ~Active(p)
    BY <2>2, IdleHoldsNothing DEF Held
  <2> QED BY <2>1, <2>2
<1> QED BY <1>1, Invariance, PTL

\* The revision a process expects in its compare-and-swap is the stored one: the
\* swap in save_conversation_memory never refuses who keeps to the lock.
THEOREM RevisionIsKnown == Spec => []OwnerKnowsRevision
<1>1. Inv => OwnerKnowsRevision
  BY OwnerFacts DEF OwnerKnowsRevision, OwnerOK
<1> QED BY <1>1, Invariance, PTL

\* A process whose memory is not dirty has its last task in the database, through
\* failing saves, clears, switches and restarts (_persist_current).
THEOREM CleanIsSaved == Spec => []CleanMeansSaved
<1>1. Inv => CleanMeansSaved
  <2> SUFFICES ASSUME Inv, NEW p \in Procs, Active(p)
               PROVE  /\ cur[p].persisted.task = saved[cur[p].session].task
                      /\ ~cur[p].dirty => cur[p].memory.task = saved[cur[p].session].task
    BY DEF CleanMeansSaved
  <2> QED BY OwnerFacts DEF OwnerOK
<1> QED BY <1>1, Invariance, PTL

\* What a clear has removed from the disk is never again in a memory, stored or
\* held (clear_current): not through a preview made before it, an overtaken
\* candidate, a retry of the deletion or another process.
THEOREM ErasedIsGone == Spec => []ErasedStaysErased
<1>1. Inv => ErasedStaysErased
  <2> SUFFICES ASSUME Inv PROVE ErasedStaysErased
    OBVIOUS
  <2>1. \A s \in Sessions : FactsAt(s) \cap erased = {}
    BY DEF Inv, FactsInv
  <2>2. \A s \in Sessions : reviewed[s] # NoRow => FactsOf(reviewed[s].memory) \subseteq FactsAt(s)
    BY DEF FactsAt, StoredFacts
  <2>3. ASSUME NEW p \in Procs, Active(p)
        PROVE  (FactsOf(cur[p].conv) \cup FactsOf(cur[p].review)) \cap erased = {}
    <3>1. PICK s \in Sessions : s = cur[p].session
      BY <2>3, OwnerFacts
    <3>2. lock[s] = p /\ p # Nobody
      BY <2>3, <3>1, OwnerFacts, NobodyAssumption
    <3>3. FactsOf(cur[p].conv) \cup FactsOf(cur[p].review) \subseteq FactsAt(s)
      BY <3>2 DEF FactsAt, Mind
    <3> QED BY <2>1, <3>3
  <2> QED BY <2>1, <2>2, <2>3 DEF ErasedStaysErased
<1> QED BY <1>1, Invariance, PTL

-----------------------------------------------------------------------------
(* What a step does to the reviewed memories and their locks *)

\* Only the owner of a session changes its reviewed memory: it erases it, or saves
\* a preview and keeps the session.  A lock passes through nobody's hands.
OwnerWrites(p) ==
    \A s \in Sessions :
        /\ lock'[s] = lock[s] \/ lock[s] = Nobody \/ lock'[s] = Nobody
        /\ \/ reviewed'[s] = reviewed[s]
           \/ lock[s] = p /\ reviewed'[s] = NoRow
           \/ lock[s] = p /\ lock'[s] = p /\ SavePreview(p)

\* What a retry and a clear do to them.
LEMMA RetryErases ==
    ASSUME Inv, NEW p \in Procs, Active(p), NEW keep \in BOOLEAN, NEW erase \in BOOLEAN,
           RetryRows(cur[p], keep, erase), NEW s \in Sessions
    PROVE  reviewed'[s] = reviewed[s] \/ (lock[s] = p /\ reviewed'[s] = NoRow)
<1>1. PICK c \in OpenSessions : c = cur[p]
  BY OwnerFacts
<1>2. lock[c.session] = p
  BY <1>1, OwnerFacts DEF OpenSessions
<1>3. reviewed' = IF c.pendingClear /\ erase
                  THEN [reviewed EXCEPT ![c.session] = NoRow] ELSE reviewed
  BY <1>1 DEF RetryRows
<1> QED BY <1>2, <1>3 DEF Inv, Types

LEMMA OwnerWritesStep ==
    ASSUME Inv, [Next]_vars, NEW t \in Procs
    PROVE  \E p \in Procs : OwnerWrites(p)
<1>1. CASE UNCHANGED vars
  BY <1>1 DEF vars, OwnerWrites
<1>2. ASSUME NEW p \in Procs, Start(p) PROVE OwnerWrites(p)
  BY <1>2 DEF Start, OwnerWrites, storeVars, SessionLockFree, Inv, Types
<1>3. ASSUME NEW p \in Procs, NEW s \in Sessions, lock[s] = Nobody, HandOver(p, s)
      PROVE  \A k \in Sessions : lock'[k] = lock[k] \/ lock[k] = Nobody \/ lock'[k] = Nobody
  BY <1>3 DEF HandOver
<1>4. ASSUME NEW p \in Procs, Create(p) PROVE OwnerWrites(p)
  <2>1. PICK s \in Sessions :
            /\ SessionLockFree(s) /\ HandOver(p, s)
            /\ IF Active(p)
               THEN reviewed' = IF cur[p].pendingClear
                                THEN [reviewed EXCEPT ![cur[p].session] = NoRow] ELSE reviewed
               ELSE reviewed' = reviewed
    BY <1>4 DEF Create, InsertPrepared
  <2>2. \A k \in Sessions : lock'[k] = lock[k] \/ lock[k] = Nobody \/ lock'[k] = Nobody
    BY <1>3, <2>1 DEF SessionLockFree
  <2>3. \A k \in Sessions : reviewed'[k] = reviewed[k] \/ (lock[k] = p /\ reviewed'[k] = NoRow)
    BY <2>1, OwnerFacts DEF Inv, Types
  <2> QED BY <2>2, <2>3 DEF OwnerWrites
<1>5. ASSUME NEW p \in Procs, Switch(p) PROVE OwnerWrites(p)
  <2>1. PICK s \in Sessions :
            /\ SessionLockFree(s) /\ HandOver(p, s)
            /\ IF Active(p) THEN RetryRows(cur[p], TRUE, TRUE) ELSE UNCHANGED <<storeVars, erased>>
    BY <1>5 DEF Switch
  <2>2. \A k \in Sessions : lock'[k] = lock[k] \/ lock[k] = Nobody \/ lock'[k] = Nobody
    BY <1>3, <2>1 DEF SessionLockFree
  <2>3. \A k \in Sessions : reviewed'[k] = reviewed[k] \/ (lock[k] = p /\ reviewed'[k] = NoRow)
    BY <2>1, RetryErases DEF storeVars
  <2> QED BY <2>2, <2>3 DEF OwnerWrites
<1>6. ASSUME NEW p \in Procs, Close(p) \/ Crash(p) PROVE OwnerWrites(p)
  <2>1. lock' = [s \in Sessions |-> IF lock[s] = p THEN Nobody ELSE lock[s]]
    BY <1>6 DEF Close, Crash
  <2>2. \A k \in Sessions : reviewed'[k] = reviewed[k] \/ (lock[k] = p /\ reviewed'[k] = NoRow)
    <3>1. CASE Active(p) /\ \E keep, erase \in BOOLEAN : RetryRows(cur[p], keep, erase)
      BY <3>1, RetryErases
    <3>2. CASE UNCHANGED storeVars
      BY <3>2 DEF storeVars
    <3> QED BY <1>6, <3>1, <3>2 DEF Close, Crash
  <2> QED BY <2>1, <2>2 DEF OwnerWrites
<1>7. ASSUME NEW p \in Procs, RetryPersist(p) PROVE OwnerWrites(p)
  <2>1. Active(p) /\ lock' = lock
        /\ \E keep, erase \in BOOLEAN : RetryRows(cur[p], keep, erase)
    BY <1>7 DEF RetryPersist
  <2>2. \A k \in Sessions : reviewed'[k] = reviewed[k] \/ (lock[k] = p /\ reviewed'[k] = NoRow)
    BY <2>1, RetryErases
  <2> QED BY <2>1, <2>2 DEF OwnerWrites
<1>8. ASSUME NEW p \in Procs, Clear(p) PROVE OwnerWrites(p)
  <2>1. Active(p) /\ lock' = lock
    BY <1>8 DEF Clear
  <2>2. PICK c \in OpenSessions : c = cur[p]
    BY <2>1, OwnerFacts
  <2>3. lock[c.session] = p /\ Cleared(c).session = c.session
    BY <2>1, <2>2, OwnerFacts, ClearedOK DEF OpenSessions, OwnerOK
  <2>4. reviewed' = reviewed \/ reviewed' = [reviewed EXCEPT ![c.session] = NoRow]
    BY <1>8, <2>2, <2>3 DEF Clear
  <2>5. \A k \in Sessions : reviewed'[k] = reviewed[k] \/ (lock[k] = p /\ reviewed'[k] = NoRow)
    BY <2>3, <2>4 DEF Inv, Types
  <2> QED BY <2>1, <2>5 DEF OwnerWrites
<1>9. ASSUME NEW p \in Procs, SavePreview(p) PROVE OwnerWrites(p)
  <2>1. Active(p) /\ lock' = lock
    BY <1>9 DEF SavePreview, SameBase
  <2>2. lock[cur[p].session] = p /\ \A k \in Sessions \ {cur[p].session} : reviewed'[k] = reviewed[k]
    BY <1>9, <2>1, OwnerFacts DEF SavePreview, SaveConversation, Inv, Types
  <2> QED BY <1>9, <2>1, <2>2 DEF OwnerWrites
<1>10. ASSUME NEW p \in Procs,
              \/ Task(p) \/ Refresh(p) \/ SetPermission(p)
              \/ PreviewSave(p) \/ PreviewEdit(p) \/ PreviewArchiveDelete(p)
              \/ ApplyEdit(p) \/ ApplyArchiveDelete(p)
       PROVE  OwnerWrites(p)
  <2>1. lock' = lock /\ reviewed' = reviewed
    BY <1>10 DEF Task, Refresh, SetPermission, PreviewSave, PreviewEdit, PreviewArchiveDelete,
                 ApplyEdit, ApplyArchiveDelete, Apply, SaveMemory, storeVars
  <2> QED BY <2>1 DEF OwnerWrites
<1> QED BY <1>1, <1>2, <1>4, <1>5, <1>6, <1>7, <1>8, <1>9, <1>10 DEF Next

\* A memory that is saved holds everything its session has learned and its user has
\* not taken out (save_memory_preview): no compaction, failed summary or edit in
\* between leaves a fact in neither the saved memory nor the messages.
THEOREM NothingLeftOut == Spec => SaveLeavesNothingOut
<1>1. Inv /\ [Next]_vars =>
        \A p \in Procs : Active(p) /\ reviewed'[cur[p].session] # reviewed[cur[p].session]
                         /\ reviewed'[cur[p].session] # NoRow
          => cur[p].known \subseteq FactsOf(reviewed'[cur[p].session].memory)
  <2> SUFFICES ASSUME Inv, [Next]_vars, NEW p \in Procs, Active(p),
                      reviewed'[cur[p].session] # reviewed[cur[p].session],
                      reviewed'[cur[p].session] # NoRow
               PROVE  cur[p].known \subseteq FactsOf(reviewed'[cur[p].session].memory)
    OBVIOUS
  <2>1. PICK s \in Sessions : s = cur[p].session
    BY OwnerFacts
  <2>2. PICK q \in Procs : OwnerWrites(q)
    BY OwnerWritesStep
  <2>3. lock[s] = p /\ SavePreview(p)
    BY <2>1, <2>2, OwnerFacts DEF OwnerWrites
  <2>4. PICK c \in OpenSessions : c = cur[p]
    BY OwnerFacts
  <2>5. OwnerOK(s, c) /\ Complete(c)
    BY <2>1, <2>3, <2>4, OwnerFacts DEF SavePreview
  <2>6. PICK m \in Memories : m = Base(c)
    BY BaseType DEF OpenSessions
  <2>7. reviewed' = [reviewed EXCEPT ![s] = [memory |-> m, next |-> preview[p].next]]
    BY <2>1, <2>3, <2>4, <2>6 DEF SavePreview, SaveConversation
  <2>8. reviewed'[s].memory = m
    BY <2>7 DEF Inv, Types
  <2>9. ~Overtaken(c) /\ \A x \in c.messages : ~(Base(c).covered < x.seq)
    BY <2>5 DEF OwnerOK, Ordered, Complete, Overtaken, Base, OpenSessions, Memories
  <2>10. c.known \subseteq FactsOf(m)
    BY <2>5, <2>6, <2>9 DEF OwnerOK, Remembers
  <2> QED BY <2>1, <2>4, <2>8, <2>10
<1> QED BY <1>1, Invariance, PTL DEF Spec, SaveLeavesNothingOut

-----------------------------------------------------------------------------
(* The register *)

\* What the owner of a session takes for the stored revision is the stored one.
LEMMA SeenIs ==
    ASSUME Inv, NEW s \in Sessions
    PROVE  /\ Seen(s) = IF lock[s] = Nobody THEN NoRow ELSE ReviewedRevision(s)
           /\ Seen(s) \in Nat \cup {NoRow} /\ ReviewedRevision(s) \in Nat \cup {NoRow}
<1>1. ReviewedRevision(s) \in Nat \cup {NoRow}
  BY StoredType DEF Inv
<1>2. lock[s] # Nobody => cur[lock[s]].persistedRevision = ReviewedRevision(s)
  BY DEF Inv, SessionInv, SessionOK, OwnerOK
<1> QED BY <1>1, <1>2 DEF Seen

LEMMA SeenPrimed ==
    ASSUME Inv', NEW s \in Sessions
    PROVE  /\ Seen(s)' = IF lock'[s] = Nobody THEN NoRow ELSE ReviewedRevision(s)'
           /\ Seen(s)' \in Nat \cup {NoRow} /\ ReviewedRevision(s)' \in Nat \cup {NoRow}
<1>1. reviewed'[s] \in ReviewedRows \cup {NoRow}
  BY DEF Inv, Types
<1>2. ReviewedRevision(s)' \in Nat \cup {NoRow}
  BY <1>1 DEF ReviewedRevision, ReviewedRows, Memories
<1>3. lock'[s] # Nobody => cur'[lock'[s]].persistedRevision = ReviewedRevision(s)'
  BY DEF Inv, SessionInv, SessionOK, OwnerOK
<1> QED BY <1>2, <1>3 DEF Seen

LEMMA RegisterStep ==
    ASSUME Inv, Inv', NEW p \in Procs, OwnerWrites(p), NEW s \in Sessions
    PROVE  Register!Take(s) \/ Register!Publish(s) \/ Register!Erase(s)
           \/ Register!LetGo(s) \/ Register!Keep(s)
<1>1. /\ Seen(s) = IF lock[s] = Nobody THEN NoRow ELSE ReviewedRevision(s)
      /\ ReviewedRevision(s) \in Nat \cup {NoRow}
  BY SeenIs
<1>2. /\ Seen(s)' = IF lock'[s] = Nobody THEN NoRow ELSE ReviewedRevision(s)'
      /\ ReviewedRevision(s)' \in Nat \cup {NoRow}
  BY SeenPrimed
<1>3. /\ lock'[s] = lock[s] \/ lock[s] = Nobody \/ lock'[s] = Nobody
      /\ \/ ReviewedRevision(s)' = ReviewedRevision(s)
         \/ lock[s] = p /\ ReviewedRevision(s)' = NoRow
         \/ lock[s] = p /\ lock'[s] = p
  BY DEF OwnerWrites, ReviewedRevision
<1>4. lock'[s] \in Procs \cup {Nobody} /\ p # Nobody
  BY NobodyAssumption DEF Inv, Types
<1> DEFINE version == [t \in Sessions |-> ReviewedRevision(t)]
           held == [t \in Sessions |-> Seen(t)]
<1>5. /\ version[s] = ReviewedRevision(s) /\ version'[s] = ReviewedRevision(s)'
      /\ held[s] = Seen(s) /\ held'[s] = Seen(s)'
  OBVIOUS
<1> HIDE DEF version, held
<1>6. CASE lock[s] = Nobody /\ lock'[s] = Nobody
  BY <1>1, <1>2, <1>3, <1>4, <1>5, <1>6 DEF Register!Keep, version, held
<1>7. CASE lock[s] = Nobody /\ lock'[s] # Nobody
  BY <1>1, <1>2, <1>3, <1>4, <1>5, <1>7 DEF Register!Take, version, held
<1>8. CASE lock[s] # Nobody /\ lock'[s] = Nobody
  BY <1>1, <1>2, <1>3, <1>4, <1>5, <1>8 DEF Register!LetGo, Register!UpToDate, version, held
<1>9. CASE lock[s] # Nobody /\ lock'[s] = lock[s]
  <2>1. CASE ReviewedRevision(s)' = NoRow
    BY <1>1, <1>2, <1>5, <1>9, <2>1 DEF Register!Erase, Register!UpToDate, version, held
  <2>2. CASE ReviewedRevision(s)' # NoRow
    BY <1>1, <1>2, <1>5, <1>9, <2>2 DEF Register!Publish, Register!UpToDate, version, held
  <2> QED BY <2>1, <2>2
<1> QED BY <1>3, <1>6, <1>7, <1>8, <1>9

\* A reviewed memory is a register only its present owner writes, over the version
\* it has seen (save_conversation_memory and the session lock).
THEOREM MemoryIsRegister == Spec => ImplementsRegister
<1>1. Init => Register!Init
  BY DEF Init, StoreInit, Register!Init, Seen, ReviewedRevision
<1>2. Inv /\ Inv' /\ [Next]_vars => [Register!Next]_(Register!vars)
  <2> SUFFICES ASSUME Inv, Inv', [Next]_vars PROVE [Register!Next]_(Register!vars)
    OBVIOUS
  <2>1. CASE Procs = {}
    <3>1. UNCHANGED vars
      BY <2>1 DEF Next
    <3> QED BY <3>1 DEF vars, Register!vars, Seen, ReviewedRevision
  <2>2. CASE Procs # {}
    <3>1. PICK p \in Procs : OwnerWrites(p)
      BY <2>2, OwnerWritesStep
    <3>2. \A s \in Sessions : \/ Register!Take(s) \/ Register!Publish(s) \/ Register!Erase(s)
                              \/ Register!LetGo(s) \/ Register!Keep(s)
      BY <3>1, RegisterStep
    <3>3. lock' \in [Sessions -> Procs \cup {Nobody}]
      BY DEF Inv, Types
    <3>4. \A s \in Sessions : ReviewedRevision(s)' \in Nat \cup {NoRow}
                              /\ Seen(s)' \in Nat \cup {NoRow}
      BY SeenPrimed
    <3>5. [s \in Sessions |-> ReviewedRevision(s)]' \in [Sessions -> Nat \cup {NoRow}]
          /\ [s \in Sessions |-> Seen(s)]' \in [Sessions -> Nat \cup {NoRow}]
      BY <3>4
    <3> QED BY <3>2, <3>3, <3>5 DEF Register!Next
  <2> QED BY <2>1, <2>2
<1> QED BY <1>1, <1>2, Invariance, PTL DEF Spec, ImplementsRegister, Register!Spec
-----------------------------------------------------------------------------
(***************************************************************************)
(* What a session owes: the verification of its tasks.                     *)
(***************************************************************************)
\* A complete scan has the workspace; what a failure becomes is a scan again.
LEMMA ScanType ==
    ASSUME VerificationTypes
    PROVE  /\ \A s \in Capture : s \in Scan /\ (s # Nothing => s = disk)
           /\ \A s : FailureAt(s) \in Scan
BY DEF VerificationTypes, Capture, Scan, FailureAt

\* The table stays a sequence of records, and what is in it was in it or is new.
LEMMA ObserveLemma ==
    ASSUME VerificationTypes, NEW r \in Runs, Observe(r)
    PROVE  /\ records' \in Seq(Runs)
           /\ \A i \in DOMAIN records' :
                records'[i] = r \/ \E j \in DOMAIN records : records'[i] = records[j]
           /\ stale' \in SUBSET Checks /\ unresolved' \in SUBSET Checks
<1> DEFINE all == Append(records, r)
<1>0. records \in Seq(Runs)
  BY DEF VerificationTypes
<1>1. all \in Seq(Runs) /\ Len(all) = Len(records) + 1
  BY <1>0
<1>2. \A i \in 1 .. Len(all) : all[i] = IF i \in 1 .. Len(records) THEN records[i] ELSE r
  BY <1>0
<1>3. Tail(all) \in Seq(Runs) /\ Len(Tail(all)) = Len(records)
      /\ \A i \in 1 .. Len(records) : Tail(all)[i] = all[i + 1]
  <2>1. all # <<>>
    BY <1>0, AppendProperties
  <2> QED BY <1>1, <1>0, <2>1, HeadTailProperties
<1>4. records' = all \/ records' = Tail(all)
  BY DEF Observe
<1>5. records' \in Seq(Runs)
  BY <1>1, <1>3, <1>4
<1>6. ASSUME NEW i \in DOMAIN records'
      PROVE  records'[i] = r \/ \E j \in DOMAIN records : records'[i] = records[j]
  <2>0. DOMAIN records = 1 .. Len(records) /\ Len(records) \in Nat
    BY <1>0
  <2>1. CASE records' = all
    BY <1>1, <1>2, <2>0, <2>1, <1>6
  <2>2. CASE records' = Tail(all)
    <3>1. i \in 1 .. Len(records)
      BY <1>3, <2>0, <2>2, <1>6
    <3>2. records'[i] = all[i + 1] /\ i + 1 \in 1 .. Len(all)
      BY <1>1, <1>3, <2>0, <2>2, <3>1
    <3> QED BY <1>2, <2>0, <3>2
  <2> QED BY <1>4, <2>1, <2>2
<1>7. r.check \in Checks
  BY DEF Runs
<1>8. stale' \in SUBSET Checks /\ unresolved' \in SUBSET Checks
  BY <1>7 DEF Observe, VerificationTypes
<1> QED BY <1>5, <1>6, <1>8

\* A check whose record is looked at is a check of the table.
LEMMA LatestLemma ==
    ASSUME VerificationTypes
    PROVE  /\ Latest \subseteq Runs
           /\ \A r \in Latest : \E i \in DOMAIN records : r = records[i]
           /\ Checked \subseteq Checks
<1>1. \A i \in DOMAIN records : records[i] \in Runs
  BY DEF VerificationTypes
<1> QED BY <1>1 DEF Latest, Checked, Runs
-----------------------------------------------------------------------------
LEMMA InitVerification == VerificationInit => VerificationTypes
<1> SUFFICES ASSUME VerificationInit PROVE VerificationTypes
  OBVIOUS
<1>1. records \in Seq(Runs)
  BY DEF VerificationInit
<1>2. base \in Snapshots /\ seen \in Scan /\ evidence \in Scan /\ failure \in Scan
  BY DEF VerificationInit, Scan
<1>3. disk \in Snapshots /\ edits \in 0 .. MaxEdits /\ tasks \in 0 .. MaxTasks
      /\ rounds \in 0 .. MaxRounds
  BY BoundsAssumption DEF VerificationInit
<1>4. first \in [Paths -> Contents \cup {Nothing}]
      /\ last \in [Paths -> Contents \cup {Nothing}]
  BY DEF VerificationInit
<1>5. phase = "idle" /\ recovered = FALSE /\ ok = FALSE /\ required = FALSE
      /\ unknown = FALSE /\ legacy = FALSE
  BY DEF VerificationInit
<1>6. tainted = {} /\ modified = {} /\ stale = {} /\ unresolved = {} /\ pending = {}
      /\ proofs = {} /\ failing = {} /\ owed = {}
  BY DEF VerificationInit
<1> QED BY <1>1, <1>2, <1>3, <1>4, <1>5, <1>6 DEF VerificationTypes

\* The judgement of a finish, for a scan and a set of outdated checks.
LEMMA JudgeTyping ==
    ASSUME VerificationTypes, NEW s, NEW outdated \in SUBSET Checks, NEW claimed \in BOOLEAN,
           Judge(s, outdated, claimed)
    PROVE  /\ stale' \in SUBSET Checks /\ required' \in BOOLEAN
           /\ failure' \in Scan /\ evidence' \in Scan
           /\ recovered' \in BOOLEAN /\ ok' \in BOOLEAN
           /\ phase' \in {phase, "seal"}
<1>1. required \in BOOLEAN /\ failure \in Scan /\ evidence \in Scan
      /\ recovered \in BOOLEAN /\ ok \in BOOLEAN
  BY DEF VerificationTypes
<1>2. Outdated(outdated, s) \in BOOLEAN
  BY DEF Outdated
<1>3. Satisfied(outdated, s) \in BOOLEAN
  BY DEF Satisfied
<1>4. Nothing \in Scan /\ FailureAt(s) \in Scan
  BY ScanType DEF Scan
<1>5. required' \in BOOLEAN /\ failure' \in Scan /\ stale' \in SUBSET Checks
  BY <1>1, <1>2, <1>4 DEF Judge
<1>6. evidence' \in Scan
  BY <1>1, <1>4, Zenon DEF Judge
<1>7. recovered' \in BOOLEAN /\ ok' \in BOOLEAN /\ phase' \in {phase, "seal"}
  BY <1>1, <1>2, <1>3 DEF Judge
<1> QED BY <1>5, <1>6, <1>7

LEMMA VerificationStep == VerificationTypes /\ [VerificationNext]_verificationVars => VerificationTypes'
<1> SUFFICES ASSUME VerificationTypes, [VerificationNext]_verificationVars PROVE VerificationTypes'
  OBVIOUS
<1> USE BoundsAssumption DEF VerificationTypes
<1>0. ASSUME UNCHANGED verificationVars PROVE VerificationTypes'
  BY <1>0 DEF verificationVars, workspace, journal, context, tracker, obligation, history,
     progress
<1> USE DEF journal, context, tracker, obligation, history, progress, workspace
<1>1. CASE Edit
  BY <1>1 DEF Edit
<1>2. CASE EnterGate
  BY <1>2 DEF EnterGate, Compare, Scan
<1>3. CASE ObserveChange
  <2>1. PICK s \in Capture : Revoke(s)
    BY <1>3 DEF ObserveChange
  <2>2. evidence' \in Scan /\ failure' \in Scan
    BY <2>1 DEF Revoke, Scan
  <2>3. pending' \in SUBSET Paths
    BY <1>3 DEF ObserveChange, Differing
  <2> QED BY <1>3, <2>2, <2>3 DEF ObserveChange
<1>4. CASE Confirm
  BY <1>4 DEF Confirm, Compare, Scan
<1>5. CASE TurnAway
  BY <1>5 DEF TurnAway, Scan
<1>6. CASE StartTask
  <2>1. evidence' \in Scan /\ failure' \in Scan /\ required' \in BOOLEAN
    BY <1>6, ScanType DEF StartTask, Scan
  <2>2. phase' \in {"close", "running"} /\ recovered' = FALSE /\ ok' = FALSE
    BY <1>6 DEF StartTask
  <2>3. rounds' \in 0 .. MaxRounds
    BY <1>6 DEF StartTask
  <2>4. proofs' = {} /\ failing' = {} /\ owed' = pending
    BY <1>6 DEF StartTask
  <2>5. UNCHANGED <<disk, edits, base, seen, tasks, first, last, tainted, unknown,
                    modified, records, stale, unresolved, pending, legacy>>
    BY <1>6 DEF StartTask
  <2> QED BY <2>1, <2>2, <2>3, <2>4, <2>5
<1>7. ASSUME NEW p \in Paths, NEW c \in Contents, Record(p, c)
      PROVE  /\ first' \in [Paths -> Contents \cup {Nothing}]
             /\ last' \in [Paths -> Contents \cup {Nothing}]
             /\ modified' \in SUBSET Paths
  <2>1. disk[p] \in Contents
    BY DEF Snapshots
  <2> QED BY <1>7, <2>1 DEF Record
<1>8. ASSUME LoseTrack
      PROVE  /\ unknown' \in BOOLEAN /\ required' \in BOOLEAN /\ evidence' \in Scan
             /\ stale' \in SUBSET Checks /\ ok' \in BOOLEAN
             /\ phase' = "seal" /\ seen' \in Scan
  BY <1>8, LatestLemma DEF LoseTrack, Scan
<1>9. ASSUME Call PROVE rounds' \in 0 .. MaxRounds
  BY <1>9 DEF Call
<1>10. ASSUME NEW p \in Paths, NEW c \in Contents, Write(p, c) PROVE VerificationTypes'
  <2>1. disk' \in Snapshots
    BY <1>10 DEF Write, Snapshots
  <2>2. stale' \in SUBSET Checks /\ evidence' \in Scan /\ failure' \in Scan
    BY <1>10, LatestLemma DEF Write, Scan
  <2> QED BY <1>7, <1>9, <1>10, <2>1, <2>2 DEF Write
<1>11. ASSUME NEW p \in Paths, NEW c \in Contents, WriteUncertain(p, c) PROVE VerificationTypes'
  <2>1. disk' \in Snapshots
    BY <1>11 DEF WriteUncertain, Snapshots
  <2> QED BY <1>7, <1>8, <1>9, <1>11, <2>1 DEF WriteUncertain
<1>12. ASSUME NEW p \in Paths, WriteRefused(p) PROVE VerificationTypes'
  BY <1>8, <1>9, <1>12 DEF WriteRefused
<1>13. CASE BeginCommand \/ NotStarted
  BY <1>9, <1>13, ScanType DEF BeginCommand, NotStarted, Scan
<1>14. ASSUME NEW c \in Checks, NEW result \in {"pass", "fail", "hollow"},
              EndStable(c, result)
       PROVE  VerificationTypes'
  <2> DEFINE r == [check |-> c, result |-> result, at |-> seen]
  <2>1. seen \in Snapshots
    BY <1>14 DEF EndStable
  <2>2. r \in Runs /\ Observe(r)
    BY <1>14, <2>1 DEF EndStable, Runs
  <2>3. records' \in Seq(Runs) /\ stale' \in SUBSET Checks /\ unresolved' \in SUBSET Checks
    BY <2>2, ObserveLemma
  <2>4. evidence' \in Scan /\ failure' \in Scan
    BY <1>14, ScanType DEF EndStable, Scan
  <2>5. failing' \in SUBSET Checks
    BY <1>14 DEF EndStable
  <2>6. proofs' \in SUBSET Proof
    BY <1>14, <2>1 DEF EndStable, Proof
  <2>7. phase' = "running" /\ seen' \in Scan
    BY <1>14 DEF EndStable, Scan
  <2> QED BY <1>14, <2>3, <2>4, <2>5, <2>6, <2>7 DEF EndStable
<1>15. CASE EndUnstable
  BY <1>8, <1>15, ScanType DEF EndUnstable
<1>16. CASE Finish
  <2> DEFINE outdated(s) == stale \cup {r.check : r \in {r \in Latest : r.at # s}}
  <2>1. PICK s \in Capture, claimed \in BOOLEAN : Judge(s, outdated(s), claimed)
    BY <1>16 DEF Finish, Capture
  <2>0. outdated(s) \in SUBSET Checks
    BY LatestLemma DEF Checked
  <2>2. /\ stale' \in SUBSET Checks /\ required' \in BOOLEAN
        /\ failure' \in Scan /\ evidence' \in Scan
        /\ recovered' \in BOOLEAN /\ ok' \in BOOLEAN
        /\ phase' \in {phase, "seal"}
    <3> HIDE DEF outdated
    <3> QED BY <2>0, <2>1, JudgeTyping
  <2> QED BY <1>9, <1>16, <2>2 DEF Finish
<1>17. CASE GiveUp
  BY <1>17 DEF GiveUp, Scan
<1>18. CASE Raise
  BY <1>18 DEF Raise, Effects, Net, Touched, Scan
<1>19. CASE Seal
  <2>1. ok' \in BOOLEAN /\ required' \in BOOLEAN /\ evidence' \in Scan
        /\ legacy' \in BOOLEAN /\ pending' \in SUBSET Paths
    BY <1>19 DEF Seal, Effects, Net, Touched, Scan
  <2> QED BY <1>19, <2>1 DEF Seal
<1>20. ASSUME Forget
       PROVE  /\ first' \in [Paths -> Contents \cup {Nothing}]
              /\ last' \in [Paths -> Contents \cup {Nothing}]
              /\ tainted' \in SUBSET Paths /\ records' \in Seq(Runs)
              /\ stale' \in SUBSET Checks /\ unresolved' \in SUBSET Checks
              /\ required' \in BOOLEAN /\ rounds' \in 0 .. MaxRounds
              /\ recovered' \in BOOLEAN
  <2>1. first' \in [Paths -> Contents \cup {Nothing}]
        /\ last' \in [Paths -> Contents \cup {Nothing}]
    BY <1>20 DEF Forget
  <2>2. records' \in Seq(Runs)
    BY <1>20 DEF Forget
  <2>3. rounds' \in 0 .. MaxRounds
    BY <1>20 DEF Forget
  <2> QED BY <1>20, <2>1, <2>2, <2>3 DEF Forget
<1>21. CASE CloseTask
  <2>1. base' \in Snapshots /\ phase' \in {"idle", "revoke"} /\ ok' \in BOOLEAN
    BY <1>21, ScanType DEF CloseTask, Attributable
  <2> QED BY <1>20, <1>21, <2>1 DEF CloseTask
<1>22. CASE CloseRaised
  BY <1>20, <1>22 DEF CloseRaised
<1>23. CASE RevokeEvidence
  <2>1. evidence' \in Scan /\ failure' \in Scan
    BY <1>23 DEF RevokeEvidence, Revoke, Scan
  <2>2. pending' \in SUBSET Paths /\ legacy' \in BOOLEAN
    BY <1>23 DEF RevokeEvidence
  <2> QED BY <1>23, <2>1, <2>2 DEF RevokeEvidence
<1>24. CASE ClearSession
  BY <1>24 DEF ClearSession, Scan
<1> QED BY <1>0, <1>1, <1>2, <1>3, <1>4, <1>5, <1>6, <1>10, <1>11, <1>12, <1>13,
           <1>14, <1>15, <1>16, <1>17, <1>18, <1>19, <1>21, <1>22, <1>23, <1>24
        DEF VerificationNext

\* The state of a session and its task stays what it is said to be, however many
\* paths, checks, rounds and tasks there are.
THEOREM VerificationTyping == VerificationSpec => []VerificationTypes
BY InitVerification, VerificationStep, PTL DEF VerificationSpec
-----------------------------------------------------------------------------
\* Outside a task the journal and the table are empty.
Clean ==
    phase \in {"idle", "observe", "confirm", "start", "revoke"} =>
        Touched = {} /\ records = <<>> /\ unresolved = {}

\* A record of a pass is a pass of this task, on the snapshot it names.
Proven ==
    \A i \in DOMAIN records : records[i].result = "pass" =>
        [check |-> records[i].check, at |-> records[i].at] \in proofs

Turn == {"running", "command", "seal"}

\* A turn that wrote has a duty; the tracker knows each last word.
Duty == phase \in Turn /\ Touched # {} => required
LastWord == phase \in Turn => failing = unresolved

\* What SuccessHasEvidence and LastWordOfEachCheck say holds from the moment the
\* turn was judged.
Judged ==
    phase \in {"seal", "close"} /\ ok /\ Touched # {} =>
        /\ failing = {}
        /\ \A p \in Touched : \E pr \in proofs : pr.at = evidence /\ p \in Targets[pr.check]

\* What a person is asked about is owed a check already.
Shown == phase = "confirm" => Differing(base, seen) \subseteq pending

EvidenceInv == VerificationTypes /\ Clean /\ Proven /\ Duty /\ LastWord /\ Judged /\ Shown

\* What current records cover, a pass of this task on that snapshot covers.
LEMMA CoveredLemma ==
    ASSUME VerificationTypes, Proven, NEW s, NEW outdated, NEW rs \in SUBSET Current(outdated, s)
    PROVE  \A p \in Covered(rs) :
             \E pr \in proofs : pr.at = s /\ p \in Targets[pr.check]
<1> SUFFICES ASSUME NEW p \in Covered(rs)
             PROVE  \E pr \in proofs : pr.at = s /\ p \in Targets[pr.check]
  OBVIOUS
<1>1. PICK r \in rs : Passes(r) /\ p \in Targets[r.check]
  BY DEF Covered
<1>2. r \in Latest /\ r.at = s
  BY <1>1 DEF Current
<1>3. PICK i \in DOMAIN records : r = records[i]
  BY <1>2, LatestLemma
<1>4. [check |-> r.check, at |-> r.at] \in proofs
  BY <1>1, <1>3 DEF Proven, Passes
<1> QED BY <1>1, <1>2, <1>4

\* A turn that wrote and is judged completed has what Judged asks for.
LEMMA JudgeLemma ==
    ASSUME EvidenceInv, phase = "running", NEW s, NEW outdated \in SUBSET Checks,
           NEW claimed \in BOOLEAN, Judge(s, outdated, claimed),
           Touched # {}, phase' = "seal", ok'
    PROVE  /\ failing = {} /\ evidence' = evidence
           /\ \A p \in Touched : \E pr \in proofs : pr.at = evidence /\ p \in Targets[pr.check]
<1>1. required
  BY DEF EvidenceInv, Duty, Turn
<1>2. Satisfied(outdated, s)
  BY <1>1 DEF Judge
<1>3. required' /\ ~Outdated(outdated, s)
  BY <1>1 DEF Judge
<1>4. evidence' = evidence
  BY <1>1, <1>2, <1>3 DEF Judge
<1>5. evidence = s /\ unresolved = {} /\ Touched \subseteq Covered(Current(outdated, s))
  BY <1>2 DEF Satisfied
<1>6. \A p \in Covered(Current(outdated, s)) :
        \E pr \in proofs : pr.at = s /\ p \in Targets[pr.check]
  BY CoveredLemma DEF EvidenceInv
<1> QED BY <1>4, <1>5, <1>6 DEF EvidenceInv, LastWord, Turn

LEMMA InitEvidence == VerificationInit => EvidenceInv
<1> SUFFICES ASSUME VerificationInit PROVE EvidenceInv
  OBVIOUS
<1>1. VerificationTypes
  BY InitVerification
<1>2. Touched = {} /\ records = <<>> /\ unresolved = {}
  BY DEF VerificationInit, Touched
<1>3. Proven
  BY <1>2 DEF Proven
<1> QED BY <1>1, <1>2, <1>3
        DEF VerificationInit, EvidenceInv, Clean, Duty, LastWord, Judged, Shown, Turn

LEMMA EvidenceStep == EvidenceInv /\ [VerificationNext]_verificationVars => EvidenceInv'
<1> SUFFICES ASSUME EvidenceInv, [VerificationNext]_verificationVars PROVE EvidenceInv'
  OBVIOUS
<1> USE DEF EvidenceInv
<1>0. VerificationTypes'
  BY VerificationStep
\* An action that leaves the journal, the table and the passes alone.
<1> DEFINE Quiet == UNCHANGED <<journal, records, unresolved, proofs, failing>>
<1>a. ASSUME Quiet PROVE Touched' = Touched /\ (Proven' <=> Proven)
  BY <1>a DEF journal, Touched, Proven
<1>b. ASSUME Forget PROVE Touched' = {} /\ records' = <<>> /\ unresolved' = {} /\ Proven'
  <2>1. Touched' = {}
    BY <1>b DEF Forget, Touched
  <2>2. records' = <<>> /\ unresolved' = {}
    BY <1>b DEF Forget
  <2> QED BY <2>1, <2>2 DEF Proven
<1>c. ASSUME UNCHANGED verificationVars PROVE EvidenceInv'
  <2>1. Quiet
    BY <1>c DEF verificationVars, journal, tracker, history
  <2>2. UNCHANGED <<phase, ok, required, evidence, base, seen, pending>>
    BY <1>c DEF verificationVars, context, obligation
  <2>3. Judged'
    BY <1>a, <2>1, <2>2 DEF Judged
  <2> QED BY <1>0, <1>a, <2>1, <2>2, <2>3
          DEF Clean, Duty, LastWord, Shown, Differing
<1> USE DEF Clean, Duty, LastWord, Shown, Turn, context, tracker, obligation, history
<1>1. CASE Edit
  <2>1. Quiet /\ UNCHANGED <<phase, ok, required, evidence, base, seen, pending>>
    BY <1>1 DEF Edit
  <2>2. Judged'
    BY <1>a, <2>1 DEF Judged
  <2> QED BY <1>0, <1>a, <2>1, <2>2 DEF Differing
<1>2. CASE EnterGate
  <2>1. Quiet /\ phase = "idle" /\ phase' \in {"start", "observe"}
    BY <1>2 DEF EnterGate, Compare
  <2> QED BY <1>0, <1>a, <2>1 DEF Judged
<1>3. CASE ObserveChange
  <2>1. Quiet /\ phase = "observe" /\ phase' = "confirm" /\ UNCHANGED <<base, seen>>
    BY <1>3 DEF ObserveChange
  <2>2. Differing(base, seen) \subseteq pending'
    BY <1>3 DEF ObserveChange
  <2> QED BY <1>0, <1>a, <2>1, <2>2 DEF Judged, Differing
<1>4. CASE Confirm
  <2>1. Quiet /\ phase = "confirm" /\ phase' \in {"start", "observe"}
    BY <1>4 DEF Confirm, Compare
  <2> QED BY <1>0, <1>a, <2>1 DEF Judged
<1>5. CASE TurnAway
  <2>1. Quiet /\ phase \in {"confirm", "start"} /\ phase' = "idle"
    BY <1>5 DEF TurnAway
  <2> QED BY <1>0, <1>a, <2>1 DEF Judged
<1>6. CASE StartTask
  <2>1. phase = "start" /\ phase' \in {"running", "close"} /\ ok' = FALSE
        /\ failing' = {} /\ UNCHANGED <<journal, records, unresolved>>
    BY <1>6 DEF StartTask
  <2>2. Touched' = {} /\ records' = <<>> /\ unresolved' = {}
    BY <2>1 DEF journal, Touched
  <2>3. Proven'
    BY <2>2 DEF Proven
  <2> QED BY <1>0, <2>1, <2>2, <2>3 DEF Judged
<1>7. ASSUME NEW p \in Paths,
             WriteRefused(p) \/ \E c \in Contents : Write(p, c) \/ WriteUncertain(p, c)
      PROVE  EvidenceInv'
  <2>1. phase = "running" /\ phase' \in {"running", "seal"} /\ required' = TRUE
        /\ (phase' = "seal" => ok' = FALSE)
    BY <1>7 DEF Write, WriteUncertain, WriteRefused, LoseTrack, Call
  <2>2. UNCHANGED <<records, unresolved, proofs, failing>>
    BY <1>7 DEF Write, WriteUncertain, WriteRefused
  <2>3. Proven'
    BY <2>2 DEF Proven
  <2> QED BY <1>0, <2>1, <2>2, <2>3 DEF Judged
<1>8. CASE BeginCommand \/ NotStarted
  <2>1. Quiet /\ UNCHANGED required
        /\ phase \in {"running", "command"} /\ phase' \in {"running", "command"}
    BY <1>8 DEF BeginCommand, NotStarted, Call
  <2> QED BY <1>0, <1>a, <2>1 DEF Judged
<1>9. ASSUME NEW c \in Checks, NEW result \in {"pass", "fail", "hollow"},
             EndStable(c, result)
      PROVE  EvidenceInv'
  <2> DEFINE r == [check |-> c, result |-> result, at |-> seen]
  <2>1. phase = "command" /\ phase' = "running" /\ UNCHANGED <<journal, required>>
    BY <1>9 DEF EndStable
  <2>2. Touched' = Touched
    BY <2>1 DEF journal, Touched
  <2>3. failing' = unresolved'
    BY <1>9, <2>1 DEF EndStable, Observe
  <2>4. r \in Runs /\ Observe(r)
    BY <1>9 DEF EndStable, Runs, VerificationTypes
  <2>5. proofs \subseteq proofs' /\ (result = "pass" => [check |-> c, at |-> seen] \in proofs')
    BY <1>9 DEF EndStable
  <2>6. \A i \in DOMAIN records' :
          records'[i] = r \/ \E j \in DOMAIN records : records'[i] = records[j]
    BY <2>4, ObserveLemma
  <2>7. Proven'
    BY <2>5, <2>6 DEF Proven
  <2> QED BY <1>0, <2>1, <2>2, <2>3, <2>7 DEF Judged
<1>10. CASE EndUnstable
  <2>1. Quiet /\ phase = "command" /\ phase' = "seal" /\ ok' = FALSE /\ required' = TRUE
    BY <1>10 DEF EndUnstable, LoseTrack
  <2> QED BY <1>0, <1>a, <2>1 DEF Judged
<1>11. CASE Finish
  <2> DEFINE outdated(s) == stale \cup {r.check : r \in {r \in Latest : r.at # s}}
  <2>1. PICK s \in Capture, claimed \in BOOLEAN : Judge(s, outdated(s), claimed)
    BY <1>11 DEF Finish, Capture
  <2>2. outdated(s) \in SUBSET Checks
    BY LatestLemma DEF Checked, VerificationTypes
  <2>3. Quiet /\ phase = "running"
    BY <1>11 DEF Finish, Call
  <2>4. phase' \in {"running", "seal"} /\ (required => required')
    BY <2>1, <2>3 DEF Judge
  <2>5. Judged'
    <3> HIDE DEF outdated
    <3> SUFFICES ASSUME phase' = "seal", ok', Touched # {}
                 PROVE  /\ failing = {} /\ evidence' = evidence
                        /\ \A p \in Touched :
                             \E pr \in proofs : pr.at = evidence /\ p \in Targets[pr.check]
      BY <1>a, <2>3, <2>4 DEF Judged
    <3> QED BY <2>1, <2>2, <2>3, JudgeLemma
  <2> QED BY <1>0, <1>a, <2>3, <2>4, <2>5
<1>12. CASE GiveUp
  <2>1. Quiet /\ phase = "running" /\ phase' = "seal" /\ ok' = FALSE
        /\ (required => required')
    BY <1>12 DEF GiveUp, VerificationTypes
  <2> QED BY <1>0, <1>a, <2>1 DEF Judged
<1>13. CASE Raise
  <2>1. Quiet /\ phase' = "raised"
    BY <1>13 DEF Raise
  <2> QED BY <1>0, <1>a, <2>1 DEF Judged
<1>14. CASE Seal
  <2>1. Quiet /\ phase = "seal" /\ phase' = "close"
    BY <1>14 DEF Seal
  <2>2. ASSUME ok', Touched # {} PROVE ok /\ evidence' = evidence
    <3>1. required
      BY <2>1, <2>2
    <3> QED BY <1>14, <2>2, <3>1 DEF Seal, Trusted
  <2>3. Judged'
    BY <1>a, <2>1, <2>2 DEF Judged
  <2> QED BY <1>0, <1>a, <2>1, <2>3
<1>15. ASSUME CloseTask \/ CloseRaised PROVE EvidenceInv'
  <2>1. Forget /\ phase' \in {"idle", "revoke"}
    BY <1>15 DEF CloseTask, CloseRaised
  <2> QED BY <1>0, <1>b, <2>1 DEF Judged
<1>16. CASE RevokeEvidence
  <2>1. Quiet /\ phase = "revoke" /\ phase' = "idle"
    BY <1>16 DEF RevokeEvidence
  <2> QED BY <1>0, <1>a, <2>1 DEF Judged
<1>17. CASE ClearSession
  <2>1. Quiet /\ phase = "idle" /\ phase' = "idle"
    BY <1>17 DEF ClearSession
  <2> QED BY <1>0, <1>a, <2>1 DEF Judged
<1> QED BY <1>c, <1>1, <1>2, <1>3, <1>4, <1>5, <1>6, <1>7, <1>8, <1>9, <1>10, <1>11,
           <1>12, <1>13, <1>14, <1>15, <1>16, <1>17
        DEF VerificationNext

\* Every state a session can reach has the invariant the results below rest on.
THEOREM EvidenceInvariant == VerificationSpec => []EvidenceInv
BY InitEvidence, EvidenceStep, PTL DEF VerificationSpec

\* A success of a task that wrote rests on checks of this task, passed on one
\* snapshot, that cover every path it wrote: for any paths and checks.
THEOREM SuccessIsProven == VerificationSpec => []SuccessHasEvidence
<1>1. EvidenceInv => SuccessHasEvidence
  BY DEF EvidenceInv, Judged, SuccessHasEvidence
<1> QED BY EvidenceInvariant, <1>1, PTL

\* A table of any size, which drops its oldest records, never lets a task that
\* wrote succeed after a check whose last conclusive run failed.
THEOREM LastWordKept == VerificationSpec => []LastWordOfEachCheck
<1>1. EvidenceInv => LastWordOfEachCheck
  BY DEF EvidenceInv, Judged, LastWordOfEachCheck
<1> QED BY EvidenceInvariant, <1>1, PTL

LEMMA LiftStep ==
    ASSUME EvidenceInv, [VerificationNext]_verificationVars
    PROVE  /\ \A p \in pending \ pending' :
                \E pr \in proofs : pr.at = disk /\ p \in Targets[pr.check]
           /\ legacy /\ ~legacy' =>
                \E pr \in proofs : pr.at = disk /\ pr.check \in Whole
<1> USE DEF EvidenceInv
<1>1. CASE Seal
  <2>1. PICK s \in Scan :
          /\ s # Nothing => s = disk
          /\ pending' = (pending \cup Effects) \ Covered(Lifting(s))
          /\ legacy' = (legacy /\ ~\E r \in Lifting(s) : r.check \in Whole)
    <3>1. Nothing \in Scan
      BY DEF Scan
    <3> QED BY <1>1, <3>1, ScanType DEF Seal
  <2>2. Lifting(s) \subseteq Current(stale, s)
    BY DEF Lifting
  <2>3. \A r \in Lifting(s) : s = disk /\ Passes(r)
    BY <2>1 DEF Lifting, Trusted
  <2>4. \A p \in Covered(Lifting(s)) :
          \E pr \in proofs : pr.at = disk /\ p \in Targets[pr.check]
    <3>1. \A p \in Covered(Lifting(s)) :
            \E pr \in proofs : pr.at = s /\ p \in Targets[pr.check]
      BY <2>2, CoveredLemma
    <3>2. Covered(Lifting(s)) # {} => s = disk
      BY <2>3 DEF Covered
    <3> QED BY <3>1, <3>2
  <2>5. ASSUME NEW r \in Lifting(s), r.check \in Whole
        PROVE  \E pr \in proofs : pr.at = disk /\ pr.check \in Whole
    <3>1. r \in Latest /\ r.at = s
      BY <2>2 DEF Current
    <3>2. PICK i \in DOMAIN records : r = records[i]
      BY <3>1, LatestLemma
    <3>3. [check |-> r.check, at |-> r.at] \in proofs
      BY <2>3, <3>2 DEF Proven, Passes
    <3> QED BY <2>3, <2>5, <3>1, <3>3
  <2> QED BY <2>1, <2>4, <2>5
<1>2. CASE RevokeEvidence
  BY <1>2 DEF RevokeEvidence, Restores, obligation
<1>3. CASE ObserveChange \/ Raise
  BY <1>3 DEF ObserveChange, Raise
<1>4. CASE UNCHANGED obligation
  BY <1>4 DEF obligation
<1>5. ASSUME Edit \/ EnterGate \/ Confirm \/ TurnAway \/ StartTask \/ BeginCommand
             \/ NotStarted \/ EndUnstable \/ Finish \/ GiveUp \/ CloseTask \/ CloseRaised \/ ClearSession
      PROVE  UNCHANGED obligation
  BY <1>5 DEF Edit, EnterGate, Confirm, TurnAway, StartTask, BeginCommand, NotStarted,
     EndUnstable, Finish, GiveUp, CloseTask, CloseRaised, ClearSession
<1>6. ASSUME NEW p \in Paths,
             WriteRefused(p) \/ \E c \in Contents : Write(p, c) \/ WriteUncertain(p, c)
      PROVE  UNCHANGED obligation
  BY <1>6 DEF WriteRefused, Write, WriteUncertain
<1>7. ASSUME NEW c \in Checks, NEW result, EndStable(c, result)
      PROVE  UNCHANGED obligation
  BY <1>7 DEF EndStable
<1>8. CASE UNCHANGED verificationVars
  BY <1>8 DEF verificationVars, obligation
<1> QED BY <1>1, <1>2, <1>3, <1>4, <1>5, <1>6, <1>7, <1>8 DEF VerificationNext

\* No path leaves the obligation, and no unknown past is settled, but by a check
\* of this task that passed on the workspace as it stands.
THEOREM ObligationLifted == VerificationSpec => LiftedByCheck
<1>1. EvidenceInv /\ [VerificationNext]_verificationVars =>
        [/\ \A p \in pending \ pending' :
              \E pr \in proofs : pr.at = disk /\ p \in Targets[pr.check]
         /\ legacy /\ ~legacy' =>
              \E pr \in proofs : pr.at = disk /\ pr.check \in Whole]_verificationVars
  BY LiftStep
<1> QED BY EvidenceInvariant, <1>1, PTL DEF VerificationSpec, LiftedByCheck

LEMMA VerifiedStep ==
    ASSUME EvidenceInv, [VerificationNext]_verificationVars
    PROVE  \A p \in Differing(base, base') :
             \/ p \in pending'
             \/ last[p] = base'[p] /\ \E pr \in proofs : p \in Targets[pr.check]
<1> USE DEF EvidenceInv
<1>1. CASE Confirm
  <2>1. CASE disk = seen /\ base' = disk
    BY <1>1, <2>1 DEF Confirm, Shown, obligation
  <2>2. CASE UNCHANGED base
    BY <2>2 DEF Differing
  <2> QED BY <1>1, <2>1, <2>2 DEF Confirm
<1>2. CASE CloseTask
  <2>1. CASE UNCHANGED base
    BY <2>1 DEF Differing
  <2>2. ASSUME NEW s, Attributable(s), s = base \/ ok, base' = s, phase = "close",
               NEW p \in Differing(base, s)
        PROVE  last[p] = s[p] /\ \E pr \in proofs : p \in Targets[pr.check]
    <3>1. p \in Paths /\ base[p] # s[p]
      BY <2>2 DEF Differing
    <3>2. ok
      BY <2>2, <3>1
    <3>3. p \in Net
      BY <2>2, <3>1 DEF Attributable
    <3>4. p \in Touched /\ last[p] = s[p]
      BY <2>2, <3>3 DEF Net, Attributable
    <3> QED BY <2>2, <3>2, <3>4 DEF Judged
  <2> QED BY <1>2, <2>1, <2>2 DEF CloseTask
<1>3. CASE UNCHANGED base
  BY <1>3 DEF Differing
<1>4. ASSUME Edit \/ EnterGate \/ ObserveChange \/ TurnAway \/ StartTask \/ BeginCommand
             \/ NotStarted \/ EndUnstable \/ Finish \/ GiveUp \/ Raise \/ Seal \/ CloseRaised
             \/ RevokeEvidence \/ ClearSession
      PROVE  UNCHANGED base
  BY <1>4 DEF Edit, EnterGate, ObserveChange, TurnAway, StartTask, BeginCommand,
     NotStarted, EndUnstable, Finish, GiveUp, Raise, Seal, CloseRaised, RevokeEvidence, ClearSession
<1>5. ASSUME NEW p \in Paths,
             WriteRefused(p) \/ \E c \in Contents : Write(p, c) \/ WriteUncertain(p, c)
      PROVE  UNCHANGED base
  BY <1>5 DEF WriteRefused, Write, WriteUncertain
<1>6. ASSUME NEW c \in Checks, NEW result, EndStable(c, result)
      PROVE  UNCHANGED base
  BY <1>6 DEF EndStable
<1>7. ASSUME UNCHANGED verificationVars PROVE UNCHANGED base
  BY <1>7 DEF verificationVars
<1> QED BY <1>1, <1>2, <1>3, <1>4, <1>5, <1>6, <1>7 DEF VerificationNext

\* The baseline takes only what a person saw and is owed a check, or what this
\* task wrote and checked, whoever else changes files meanwhile.
THEOREM BaselineAccounted == VerificationSpec => AcceptedIsAccountedFor
<1>1. EvidenceInv /\ [VerificationNext]_verificationVars =>
        [\A p \in Differing(base, base') :
           \/ p \in pending'
           \/ last[p] = base'[p] /\ \E pr \in proofs : p \in Targets[pr.check]]_verificationVars
  BY VerifiedStep
<1> QED BY EvidenceInvariant, <1>1, PTL DEF VerificationSpec, AcceptedIsAccountedFor
=============================================================================
