---------------------- MODULE WorkspaceBaseline_proofs ----------------------
(***************************************************************************)
(* WorkspaceBaseline for any processes, sessions, paths and contents, and  *)
(* any number of edits, damages, tasks and confirmations.                  *)
(***************************************************************************)
EXTENDS WorkspaceBaseline, TLAPS

-----------------------------------------------------------------------------
(* The invariant *)

\* The cached row is the row, unless that was lost and its marker tells so.
Tracks(c) ==
    \/ c.stored = accepted[c.session]
    \/ accepted[c.session] = NoRow /\ marker[c.session]

\* The operation has read the row.
Past == {"scan", "asking", "rescan", "accept", "working", "finalize"}

ProcOK(c) ==
    /\ c.session = NoSession => c.pc = "idle" /\ c.base = NoRow
    /\ c.base # NoRow \/ c.pc \in Past => Tracks(c)
    /\ c.base # NoRow => c.stored # NoRow /\ c.base = c.stored.record
    /\ c.pc \in {"asking", "rescan", "accept"} => c.candidate # NoRow
    /\ c.pc = "rescan" => c.approved = c.candidate
    /\ c.pc = "accept" =>
           c.stored = NoRow \/ c.stored.record = c.candidate \/ c.approved = c.candidate
    /\ c.pc \in {"working", "finalize"} => c.base # NoRow

StoreTypes ==
    /\ saved \in [Sessions -> Obligations \cup {NoRow}]
    /\ accepted \in [Sessions -> Rows \cup {NoRow}]
    /\ marker \in [Sessions -> BOOLEAN]
Types ==
    /\ StoreTypes
    /\ lock \in [Sessions -> Procs \cup {Nobody}]
    /\ disk \in States
    /\ cur \in [Procs -> Processes \cup {Down}]

StoreInv ==
    \A s \in Sessions :
        /\ accepted[s] # NoRow => marker[s]
        /\ ~Exists(s) => accepted[s] = NoRow /\ ~marker[s]
LockInv ==
    \A p \in Procs, s \in Sessions : lock[s] = p <=> (Running(p) /\ cur[p].session = s)
ProcInv == \A p \in Procs : Running(p) => ProcOK(cur[p])

Inv == Types /\ StoreInv /\ LockInv /\ ProcInv

LEMMA ProcType ==
    ASSUME Inv, NEW p \in Procs, Running(p)
    PROVE  cur[p] \in Processes /\ ProcOK(cur[p])
BY DEF Inv, Types, ProcInv, Running

\* What another process relies on: the row of its own session.
LEMMA OtherKept ==
    ASSUME Inv, NEW q \in Procs, Running(q), cur'[q] = cur[q],
           cur[q].session \in Sessions =>
               /\ accepted'[cur[q].session] = accepted[cur[q].session]
               /\ marker'[cur[q].session] = marker[cur[q].session]
    PROVE  ProcOK(cur[q])'
<1>1. PICK c \in Processes : c = cur[q]
  BY ProcType
<1>2. ProcOK(c)
  BY <1>1, ProcType
<1>3. c.session \in Sessions \cup {NoSession}
  BY DEF Processes
<1>4. CASE c.session \in Sessions
  <2>1. Tracks(c)' <=> Tracks(c)
    BY <1>1, <1>4 DEF Tracks
  <2>2. ProcOK(c)'
    BY <1>2, <2>1 DEF ProcOK
  <2> QED BY <1>1, <2>2
<1>5. CASE c.session = NoSession
  <2>1. c.pc = "idle" /\ c.base = NoRow
    BY <1>2, <1>5 DEF ProcOK
  <2>2. ProcOK(c)'
    BY <1>2, <2>1 DEF ProcOK, Past
  <2> QED BY <1>1, <2>2
<1> QED BY <1>3, <1>4, <1>5

\* A step of a process in the session it has open, or without one.
LEMMA OwnStep ==
    ASSUME Inv, NEW p \in Procs, Running(p), NEW d \in Processes, d.session = cur[p].session,
           cur' = [cur EXCEPT ![p] = d], lock' = lock, disk' \in States,
           StoreTypes', StoreInv', ProcOK(d)',
           \A s \in Sessions : s # d.session =>
               accepted'[s] = accepted[s] /\ marker'[s] = marker[s]
    PROVE  Inv'
<1>1. cur'[p] = d /\ \A q \in Procs \ {p} : cur'[q] = cur[q]
  BY DEF Inv, Types
<1>2. d # Down
  BY SentinelAssumption
<1>3. Types'
  BY DEF Inv, Types
<1>4. LockInv'
  BY <1>1, <1>2 DEF Inv, LockInv, Running
<1>5. ASSUME NEW q \in Procs, Running(q)' PROVE ProcOK(cur[q])'
  <2>1. CASE q = p
    BY <1>1, <2>1
  <2>2. CASE q # p
    <3>1. cur'[q] = cur[q] /\ Running(q)
      BY <1>1, <1>5, <2>2 DEF Running
    <3>2. cur[q].session \in Sessions => cur[q].session # d.session
      BY <2>2, <3>1 DEF Inv, LockInv
    <3> QED BY <3>1, <3>2, OtherKept
  <2> QED BY <2>1, <2>2
<1> QED BY <1>3, <1>4, <1>5 DEF Inv, ProcInv

\* The rows stay, but for memories that are saved.
RowsKept ==
    /\ accepted' = accepted /\ marker' = marker
    /\ saved' \in [Sessions -> Obligations \cup {NoRow}]
    /\ \A s \in Sessions : saved[s] # NoRow => saved'[s] # NoRow

LEMMA RowsKeptStep ==
    ASSUME Inv, RowsKept PROVE StoreTypes' /\ StoreInv'
BY DEF Inv, Types, StoreTypes, StoreInv, RowsKept, Exists

LEMMA StoreUnchanged ==
    ASSUME Inv, UNCHANGED storeVars PROVE RowsKept
BY DEF Inv, Types, StoreTypes, RowsKept, storeVars

LEMMA QuietStep ==
    ASSUME Inv, NEW p \in Procs, Running(p), NEW d \in Processes, d.session = cur[p].session,
           cur' = [cur EXCEPT ![p] = d], lock' = lock, disk' \in States, RowsKept, ProcOK(d)
    PROVE  Inv'
<1>1. StoreTypes' /\ StoreInv' /\ accepted' = accepted /\ marker' = marker
  BY RowsKeptStep DEF RowsKept
<1>2. ProcOK(d)'
  BY <1>1 DEF ProcOK, Tracks
<1> QED BY <1>1, <1>2, OwnStep

\* A process lets its session go, takes the one of d, or both.
LEMMA MoveStep ==
    ASSUME Inv, NEW p \in Procs, NEW d \in Processes \cup {Down},
           cur' = [cur EXCEPT ![p] = d], disk' \in States, RowsKept,
           lock' \in [Sessions -> Procs \cup {Nobody}],
           \A t \in Sessions :
               IF d # Down /\ d.session = t THEN lock[t] = Nobody /\ lock'[t] = p
               ELSE lock'[t] = IF lock[t] = p THEN Nobody ELSE lock[t],
           d # Down => ProcOK(d)
    PROVE  Inv'
<1>1. cur'[p] = d /\ \A q \in Procs \ {p} : cur'[q] = cur[q]
  BY DEF Inv, Types
<1>2. StoreTypes' /\ StoreInv' /\ accepted' = accepted /\ marker' = marker
  BY RowsKeptStep DEF RowsKept
<1>3. Types'
  BY <1>2 DEF Inv, Types
<1>4. LockInv'
  <2> SUFFICES ASSUME NEW q \in Procs, NEW t \in Sessions
               PROVE  lock'[t] = q <=> (cur'[q] # Down /\ cur'[q].session = t)
    BY DEF LockInv, Running
  <2>1. lock[t] = q <=> (cur[q] # Down /\ cur[q].session = t)
    BY DEF Inv, LockInv, Running
  <2>2. q # Nobody /\ p # Nobody
    BY NobodyAssumption
  <2>3. CASE q = p
    BY <1>1, <2>2, <2>3
  <2>4. CASE q # p
    BY <1>1, <2>1, <2>2, <2>4
  <2> QED BY <2>3, <2>4
<1>5. ASSUME NEW q \in Procs, Running(q)' PROVE ProcOK(cur[q])'
  <2>1. CASE q = p
    BY <1>1, <1>2, <1>5, <2>1 DEF Running, ProcOK, Tracks
  <2>2. CASE q # p
    <3>1. cur'[q] = cur[q] /\ Running(q)
      BY <1>1, <1>5, <2>2 DEF Running
    <3> QED BY <1>2, <3>1, OtherKept
  <2> QED BY <2>1, <2>2
<1> QED BY <1>2, <1>3, <1>4, <1>5 DEF Inv, ProcInv
-----------------------------------------------------------------------------
(* Opening, persisting and leaving *)

LEMMA FreshType ==
    ASSUME NEW s \in Sessions \cup {NoSession}
    PROVE  Fresh(s) \in Processes
<1>1. [x \in {} |-> 0] \in Ledgers
  <2>1. [x \in {} |-> 0] \in [{} -> [before : Contents, after : Contents]]
    OBVIOUS
  <2> QED BY <2>1 DEF Ledgers
<1>2. NoObligation \in Obligations
  BY DEF NoObligation, Obligations
<1> QED BY <1>1, <1>2 DEF Fresh, Processes

LEMMA OpenStep ==
    ASSUME Inv, NEW p \in Procs, NEW s \in Sessions, Open(p, s) PROVE Inv'
<1>1. RowFor(s) \in Obligations
  BY DEF RowFor, Exists, NoObligation, Obligations, Inv, Types, StoreTypes
<1>2. PICK f \in Processes : f = Fresh(s)
  BY FreshType
<1>3. PICK row \in Obligations : row = RowFor(s)
  BY <1>1
<1>4. PICK d : d = [f EXCEPT !.memory = row, !.pc = "take", !.mode = "activation"]
  OBVIOUS
<1>5. d \in Processes /\ d.session = s /\ d.base = NoRow /\ d.pc = "take"
  BY <1>2, <1>4 DEF Processes, Fresh
<1>6. cur' = [cur EXCEPT ![p] = d] /\ disk' \in States
  BY <1>2, <1>3, <1>4 DEF Open, Inv, Types
<1>7. /\ lock[s] = Nobody
      /\ lock' = [t \in Sessions |-> IF t = s THEN p ELSE IF lock[t] = p THEN Nobody ELSE lock[t]]
  BY DEF Open, SessionLockFree
<1>8. RowsKept
  <2>1. \A t \in Sessions : lock[t] = p => cur[p].memory \in Obligations
    BY DEF Inv, Types, LockInv, Running, Processes
  <2>2. \A t \in Sessions : saved[t] \in Obligations \cup {NoRow}
    BY DEF Inv, Types, StoreTypes
  <2>3. saved' = [t \in Sessions |-> IF t = s THEN row
                                     ELSE IF lock[t] = p THEN cur[p].memory ELSE saved[t]]
        /\ accepted' = accepted /\ marker' = marker
    BY <1>3 DEF Open
  <2>4. saved' \in [Sessions -> Obligations \cup {NoRow}]
    BY <2>1, <2>2, <2>3
  <2>5. \A t \in Sessions : saved[t] # NoRow => saved'[t] # NoRow
    BY <2>1, <2>3, SentinelAssumption
  <2> QED BY <2>3, <2>4, <2>5 DEF RowsKept
<1>9. ProcOK(d)
  BY <1>5, SentinelAssumption DEF ProcOK, Past
<1>10. lock' \in [Sessions -> Procs \cup {Nobody}]
  BY <1>7 DEF Inv, Types
<1>11. \A t \in Sessions : IF d # Down /\ d.session = t THEN lock[t] = Nobody /\ lock'[t] = p
                           ELSE lock'[t] = IF lock[t] = p THEN Nobody ELSE lock[t]
  BY <1>5, <1>7, SentinelAssumption
<1>12. d \in Processes \cup {Down}
  BY <1>5
<1> QED BY <1>6, <1>8, <1>9, <1>10, <1>11, <1>12, MoveStep

LEMMA EnterStep ==
    ASSUME Inv, NEW p \in Procs, Enter(p) PROVE Inv'
<1>1. PICK d \in Processes : d = Fresh(NoSession)
  BY FreshType
<1>2. /\ cur[p] = Down /\ cur' = [cur EXCEPT ![p] = d] /\ lock' = lock /\ disk' = disk
      /\ UNCHANGED storeVars
  BY <1>1 DEF Enter
<1>3. d.session = NoSession /\ d.base = NoRow /\ d.pc = "idle"
  BY <1>1 DEF Fresh
<1>4. ProcOK(d)
  BY <1>3 DEF ProcOK, Past
<1>5. \A t \in Sessions : lock[t] # p
  BY <1>2 DEF Inv, LockInv, Running
<1>6. disk' \in States /\ lock' \in [Sessions -> Procs \cup {Nobody}]
  BY <1>2 DEF Inv, Types
<1>7. \A t \in Sessions : d.session # t
  BY <1>3, SentinelAssumption
<1>8. \A t \in Sessions : IF d # Down /\ d.session = t THEN lock[t] = Nobody /\ lock'[t] = p
                          ELSE lock'[t] = IF lock[t] = p THEN Nobody ELSE lock[t]
  BY <1>2, <1>5, <1>7
<1>9. RowsKept
  BY <1>2, StoreUnchanged
<1>10. d \in Processes \cup {Down} /\ cur' = [cur EXCEPT ![p] = d]
  BY <1>2
<1> QED BY <1>4, <1>6, <1>8, <1>9, <1>10, MoveStep

LEMMA FirstTaskStep ==
    ASSUME Inv, NEW p \in Procs, NEW s \in Sessions, FirstTask(p, s) PROVE Inv'
<1>1. PICK f \in Processes : f = Fresh(s)
  BY FreshType
<1>2. PICK found \in States : found = disk
  BY DEF Inv, Types
<1>3. PICK d : d = [f EXCEPT !.pc = "accept", !.mode = "task", !.candidate = found]
  OBVIOUS
<1>4. /\ d \in Processes /\ d.session = s /\ d.base = NoRow /\ d.pc = "accept"
      /\ d.stored = NoRow /\ d.candidate = found
  BY <1>1, <1>3 DEF Processes, Fresh
<1>5. /\ ~Exists(s) /\ lock[s] = Nobody /\ Running(p) /\ cur[p].session = NoSession
      /\ saved' = [saved EXCEPT ![s] = NoObligation] /\ accepted' = accepted /\ marker' = marker
      /\ lock' = [lock EXCEPT ![s] = p] /\ disk' = disk
  BY DEF FirstTask, SessionLockFree, InsertPrepared, Idle
<1>6. cur' = [cur EXCEPT ![p] = d]
  BY <1>1, <1>2, <1>3 DEF FirstTask, Captured
<1>7. NoObligation \in Obligations
  BY DEF NoObligation, Obligations
<1>8. RowsKept
  BY <1>5, <1>7, SentinelAssumption DEF RowsKept, Inv, Types, StoreTypes
<1>9. accepted[s] = NoRow
  BY <1>5 DEF Inv, StoreInv
<1>10. ProcOK(d)
  BY <1>4, <1>9, SentinelAssumption DEF ProcOK, Tracks
<1>11. \A t \in Sessions : lock[t] # p
  BY <1>5, SentinelAssumption DEF Inv, LockInv
<1>12. disk' \in States /\ lock' \in [Sessions -> Procs \cup {Nobody}]
  BY <1>5 DEF Inv, Types
<1>13. \A t \in Sessions : IF d # Down /\ d.session = t THEN lock[t] = Nobody /\ lock'[t] = p
                           ELSE lock'[t] = IF lock[t] = p THEN Nobody ELSE lock[t]
  BY <1>4, <1>5, <1>11, SentinelAssumption DEF Inv, Types
<1>14. d \in Processes \cup {Down}
  BY <1>4
<1> QED BY <1>6, <1>8, <1>10, <1>12, <1>13, <1>14, MoveStep

LEMMA GoneStep ==
    ASSUME Inv, NEW p \in Procs, Close(p) \/ Crash(p) PROVE Inv'
<1>1. /\ cur' = [cur EXCEPT ![p] = Down] /\ disk' = disk
      /\ lock' = [t \in Sessions |-> IF lock[t] = p THEN Nobody ELSE lock[t]]
      /\ accepted' = accepted /\ marker' = marker
  BY DEF Close, Crash, Gone
<1>2. \A t \in Sessions : lock[t] = p => cur[p].memory \in Obligations
  BY DEF Inv, Types, LockInv, Running, Processes
<1>3. \A t \in Sessions : saved[t] \in Obligations \cup {NoRow}
  BY DEF Inv, Types, StoreTypes
<1>4. saved' = saved
      \/ saved' = [t \in Sessions |-> IF lock[t] = p THEN cur[p].memory ELSE saved[t]]
  BY DEF Close, Crash
<1>5. saved' \in [Sessions -> Obligations \cup {NoRow}]
  BY <1>2, <1>3, <1>4 DEF Inv, Types, StoreTypes
<1>6. \A t \in Sessions : saved[t] # NoRow => saved'[t] # NoRow
  BY <1>2, <1>4, SentinelAssumption
<1>7. RowsKept
  BY <1>1, <1>5, <1>6 DEF RowsKept
<1>8. disk' \in States /\ lock' \in [Sessions -> Procs \cup {Nobody}]
  BY <1>1 DEF Inv, Types
<1> QED BY <1>1, <1>7, <1>8, MoveStep

-----------------------------------------------------------------------------
(* The gate *)

LEMMA MemoryStep ==
    ASSUME Inv, NEW p \in Procs, Persist(p) PROVE Inv'
<1>1. PICK c \in Processes : c = cur[p]
  BY ProcType DEF Persist, Idle
<1>2. Running(p) /\ ProcOK(c)
  BY <1>1, ProcType DEF Persist, Idle
<1>3. PICK d : d = [c EXCEPT !.dirty = FALSE]
  OBVIOUS
<1>4. /\ d \in Processes /\ d.session = c.session /\ d.base = c.base /\ d.stored = c.stored
      /\ d.pc = c.pc /\ d.candidate = c.candidate /\ d.approved = c.approved
  BY <1>3 DEF Processes
<1>5. ProcOK(d)
  BY <1>2, <1>4 DEF ProcOK, Tracks
<1>6. cur' = [cur EXCEPT ![p] = d] /\ lock' = lock /\ disk' = disk
  BY <1>1, <1>3 DEF Persist
<1>7. SaveMemory(c.session, c.memory) /\ c.memory \in Obligations
  BY <1>1 DEF Persist, Processes
<1>8. RowsKept
  BY <1>7, SentinelAssumption DEF SaveMemory, RowsKept, Inv, Types, StoreTypes
<1>9. disk' \in States
  BY <1>6 DEF Inv, Types
<1> QED BY <1>1, <1>2, <1>4, <1>5, <1>6, <1>8, <1>9, QuietStep

LEMMA BeginStep ==
    ASSUME Inv, NEW p \in Procs, BeginTask(p) PROVE Inv'
<1>1. PICK c \in Processes : c = cur[p]
  BY ProcType DEF BeginTask, Idle
<1>2. Running(p) /\ ProcOK(c) /\ c.session # NoSession
  BY <1>1, ProcType DEF BeginTask, Idle, Opened
<1>3. PICK d : d = [c EXCEPT !.pc = "take", !.mode = "task"]
  OBVIOUS
<1>4. /\ d \in Processes /\ d.session = c.session /\ d.base = c.base /\ d.stored = c.stored
      /\ d.pc = "take"
  BY <1>3 DEF Processes
<1>5. ProcOK(d)
  BY <1>2, <1>4 DEF ProcOK, Tracks, Past
<1>6. cur' = [cur EXCEPT ![p] = d] /\ lock' = lock /\ disk' = disk /\ UNCHANGED storeVars
  BY <1>1, <1>3 DEF BeginTask
<1>7. RowsKept /\ disk' \in States
  BY <1>6, StoreUnchanged DEF Inv, Types
<1> QED BY <1>1, <1>2, <1>4, <1>5, <1>6, <1>7, QuietStep

\* An operation that ends early changes nothing the invariant speaks of.
LEMMA LeftOK ==
    ASSUME NEW c \in Processes
    PROVE  /\ Left(c) \in Processes /\ Left(c).session = c.session /\ Left(c).base = c.base
           /\ Left(c).stored = c.stored /\ Left(c).pc = "idle"
BY DEF Left, Processes

LEMMA LeftProcOK ==
    ASSUME NEW c \in Processes, ProcOK(c)
    PROVE  ProcOK(Left(c))
BY LeftOK DEF ProcOK, Tracks, Past

LEMMA TakeStep ==
    ASSUME Inv, NEW p \in Procs, Take(p) PROVE Inv'
<1>1. PICK c \in Processes : c = cur[p]
  BY ProcType DEF Take, At
<1>2. Running(p) /\ ProcOK(c) /\ c.pc = "take" /\ c.session \in Sessions
  BY <1>1, ProcType DEF Take, At, ProcOK, Processes
<1>3. lock' = lock /\ disk' = disk /\ UNCHANGED storeVars
  BY DEF Take
<1>4. RowsKept /\ disk' \in States
  BY <1>3, StoreUnchanged DEF Inv, Types
<1>5. CASE BaselineVerdict(c.session) = "ok"
           /\ cur' = [cur EXCEPT ![p].pc = "scan", ![p].stored = accepted[c.session]]
  <2>1. PICK row \in Rows \cup {NoRow} : row = accepted[c.session]
    BY <1>2 DEF Inv, Types, StoreTypes
  <2>2. PICK d : d = [c EXCEPT !.pc = "scan", !.stored = row]
    OBVIOUS
  <2>3. /\ d \in Processes /\ d.session = c.session /\ d.base = c.base /\ d.stored = row
        /\ d.pc = "scan"
    BY <2>2 DEF Processes
  <2>4. ~(marker[c.session] /\ accepted[c.session] = NoRow)
    BY <1>5 DEF BaselineVerdict
  <2>5. c.base # NoRow => row = c.stored
    BY <1>2, <2>1, <2>4 DEF ProcOK, Tracks
  <2>6. ProcOK(d)
    BY <1>2, <2>1, <2>3, <2>5, SentinelAssumption DEF ProcOK, Tracks
  <2>7. cur' = [cur EXCEPT ![p] = d]
    BY <1>1, <1>5, <2>1, <2>2 DEF Inv, Types
  <2> QED BY <1>1, <1>2, <1>3, <1>4, <2>3, <2>6, <2>7, QuietStep
<1>6. CASE cur' = [cur EXCEPT ![p] = Left(c)]
  BY <1>1, <1>2, <1>3, <1>4, <1>6, LeftOK, LeftProcOK, QuietStep
<1> QED BY <1>1, <1>5, <1>6 DEF Take

LEMMA ForcedOK ==
    ASSUME NEW c \in Processes
    PROVE  /\ Forced(c) \in Processes /\ Forced(c).session = c.session
           /\ Forced(c).base = c.base /\ Forced(c).stored = c.stored /\ Forced(c).pc = c.pc
           /\ Forced(c).candidate = c.candidate /\ Forced(c).approved = c.approved
<1>1. CASE c.memory.kind # "none"
  BY <1>1 DEF Forced
<1>2. CASE c.memory.kind = "none"
  <2>1. PICK m : m = IF c.known # {} THEN [kind |-> "pending", paths |-> c.known]
                     ELSE [kind |-> "legacy_unknown", paths |-> {}]
    OBVIOUS
  <2>2. m \in Obligations
    BY <2>1 DEF Obligations, Processes
  <2>3. Forced(c) = [c EXCEPT !.memory = m, !.dirty = TRUE]
    BY <1>2, <2>1 DEF Forced
  <2> QED BY <2>2, <2>3 DEF Processes
<1> QED BY <1>1, <1>2

LEMMA ObservedOK ==
    ASSUME NEW c \in Processes, NEW changed \in SUBSET Paths
    PROVE  LET d == Observed(c, changed) IN
           /\ d \in Processes /\ d.session = c.session /\ d.base = c.base
           /\ d.stored = c.stored /\ d.pc = c.pc
           /\ d.candidate = c.candidate /\ d.approved = c.approved
<1>1. PICK e \in Processes : e = Forced(c)
  BY ForcedOK
<1>2. /\ e.session = c.session /\ e.base = c.base /\ e.stored = c.stored /\ e.pc = c.pc
      /\ e.candidate = c.candidate /\ e.approved = c.approved
  BY <1>1, ForcedOK
<1>3. CASE changed = {}
  BY <1>1, <1>2, <1>3 DEF Observed
<1>4. CASE changed # {}
  <2>1. PICK m : m = [kind |-> IF c.memory.kind = "legacy_unknown"
                               THEN "legacy_unknown" ELSE "pending",
                      paths |-> e.memory.paths \cup changed]
    OBVIOUS
  <2>2. e.memory.paths \in SUBSET Paths
    BY DEF Processes, Obligations
  <2>3. m \in Obligations
    BY <2>1, <2>2 DEF Obligations
  <2>4. Observed(c, changed) = [e EXCEPT !.memory = m, !.dirty = TRUE]
    BY <1>1, <1>4, <2>1 DEF Observed
  <2>5. PICK d : d = [e EXCEPT !.memory = m, !.dirty = TRUE]
    OBVIOUS
  <2>6. d \in Processes
    BY <2>3, <2>5 DEF Processes
  <2>7. /\ d.session = e.session /\ d.base = e.base /\ d.stored = e.stored /\ d.pc = e.pc
        /\ d.candidate = e.candidate /\ d.approved = e.approved
    BY <2>5 DEF Processes
  <2> QED BY <1>2, <2>4, <2>5, <2>6, <2>7
<1> QED BY <1>3, <1>4

LEMMA ReferenceIs ==
    ASSUME NEW c \in Processes, c.base # NoRow => c.stored # NoRow /\ c.base = c.stored.record
    PROVE  Reference(c) = IF c.stored = NoRow THEN NoRow ELSE c.stored.record
BY DEF Reference

\* What the gate does with a candidate: it accepts what is recorded, or shows it.
LEMMA ComparedOK ==
    ASSUME NEW c \in Processes, NEW found \in States, Tracks(c), c.session # NoSession,
           c.base # NoRow => c.stored # NoRow /\ c.base = c.stored.record
    PROVE  LET d == Compared(c, found) IN
           d \in Processes /\ d.session = c.session /\ ProcOK(d)
<1> DEFINE d == Compared(c, found)
<1>1. Reference(c) = IF c.stored = NoRow THEN NoRow ELSE c.stored.record
  BY ReferenceIs
<1>2. found # NoRow
  BY SentinelAssumption
<1>3. CASE Reference(c) = NoRow \/ Reference(c) = found
  <2>1. d = [c EXCEPT !.pc = "accept", !.candidate = found]
    BY <1>3 DEF Compared
  <2>2. /\ d \in Processes /\ d.session = c.session /\ d.base = c.base /\ d.stored = c.stored
        /\ d.pc = "accept" /\ d.candidate = found
    BY <2>1 DEF Processes
  <2>3. c.stored # NoRow => c.stored.record # NoRow
    BY SentinelAssumption DEF Processes, Rows
  <2> HIDE DEF d
  <2>4. ProcOK(d)
    BY <1>1, <1>2, <1>3, <2>2, <2>3 DEF ProcOK, Tracks
  <2> QED BY <2>2, <2>4 DEF d
<1>4. CASE ~(Reference(c) = NoRow \/ Reference(c) = found)
  <2>1. PICK e : e = Observed(c, Changed(Reference(c), found))
    OBVIOUS
  <2>2. /\ e \in Processes /\ e.session = c.session /\ e.base = c.base /\ e.stored = c.stored
    <3>1. Changed(Reference(c), found) \in SUBSET Paths
      BY DEF Changed
    <3> QED BY <2>1, <3>1, ObservedOK
  <2>3. d = [e EXCEPT !.pc = "asking", !.candidate = found, !.attempts = e.attempts + 1]
    BY <1>4, <2>1 DEF Compared
  <2> HIDE DEF d
  <2>4. e.attempts + 1 \in Nat
    BY <2>2 DEF Processes
  <2>5. /\ d \in Processes /\ d.session = c.session /\ d.base = c.base /\ d.stored = c.stored
        /\ d.pc = "asking" /\ d.candidate = found
    BY <2>2, <2>3, <2>4 DEF Processes
  <2>6. ProcOK(d)
    BY <1>2, <2>5 DEF ProcOK, Tracks
  <2> QED BY <2>5, <2>6 DEF d
<1> QED BY <1>3, <1>4

LEMMA ScanStep ==
    ASSUME Inv, NEW p \in Procs, Scan(p) PROVE Inv'
<1>1. PICK c \in Processes : c = cur[p]
  BY ProcType DEF Scan, At
<1>2. Running(p) /\ ProcOK(c) /\ c.pc = "scan" /\ c.session # NoSession
  BY <1>1, ProcType DEF Scan, At, ProcOK
<1>3. PICK found \in States : found = disk
  BY DEF Inv, Types
<1>4. PICK d : d = Compared(c, found)
  OBVIOUS
<1>5. d \in Processes /\ d.session = c.session /\ ProcOK(d)
  <2>1. Tracks(c) /\ (c.base # NoRow => c.stored # NoRow /\ c.base = c.stored.record)
    BY <1>2 DEF ProcOK, Past
  <2> QED BY <1>2, <1>4, <2>1, ComparedOK
<1>6. cur' = [cur EXCEPT ![p] = d] /\ lock' = lock /\ disk' = disk /\ UNCHANGED storeVars
  BY <1>1, <1>3, <1>4 DEF Scan, Captured
<1>7. RowsKept /\ disk' \in States
  BY <1>6, StoreUnchanged DEF Inv, Types
<1> QED BY <1>1, <1>2, <1>5, <1>6, <1>7, QuietStep

LEMMA ApproveStep ==
    ASSUME Inv, NEW p \in Procs, Approve(p) PROVE Inv'
<1>1. PICK c \in Processes : c = cur[p]
  BY ProcType DEF Approve, At
<1>2. Running(p) /\ ProcOK(c) /\ c.pc = "asking"
  BY <1>1, ProcType DEF Approve, At
<1>3. PICK d : d = [c EXCEPT !.pc = "rescan", !.approved = c.candidate]
  OBVIOUS
<1>4. /\ d \in Processes /\ d.session = c.session /\ d.base = c.base /\ d.stored = c.stored
      /\ d.pc = "rescan" /\ d.candidate = c.candidate /\ d.approved = c.candidate
  BY <1>3 DEF Processes
<1>5. ProcOK(d)
  BY <1>2, <1>4 DEF ProcOK, Tracks, Past
<1>6. cur' = [cur EXCEPT ![p] = d] /\ lock' = lock /\ disk' = disk /\ UNCHANGED storeVars
  BY <1>1, <1>3 DEF Approve, Inv, Types
<1>7. RowsKept /\ disk' \in States
  BY <1>6, StoreUnchanged DEF Inv, Types
<1> QED BY <1>1, <1>2, <1>4, <1>5, <1>6, <1>7, QuietStep

LEMMA RescanStep ==
    ASSUME Inv, NEW p \in Procs, Rescan(p) PROVE Inv'
<1>1. PICK c \in Processes : c = cur[p]
  BY ProcType DEF Rescan, At
<1>2. Running(p) /\ ProcOK(c) /\ c.pc = "rescan" /\ c.session # NoSession
  BY <1>1, ProcType DEF Rescan, At, ProcOK
<1>3. PICK found \in States : found = disk
  BY DEF Inv, Types
<1>4. PICK d : d = Rescanned(c, found)
  OBVIOUS
<1>5. d \in Processes /\ d.session = c.session /\ ProcOK(d)
  <2>1. CASE found = c.candidate
    <3>1. d = [c EXCEPT !.pc = "accept"]
      BY <1>4, <2>1 DEF Rescanned
    <3>2. /\ d \in Processes /\ d.session = c.session /\ d.base = c.base
          /\ d.stored = c.stored /\ d.pc = "accept" /\ d.candidate = c.candidate
          /\ d.approved = c.approved
      BY <3>1 DEF Processes
    <3> QED BY <1>2, <3>2 DEF ProcOK, Tracks, Past
  <2>2. CASE found # c.candidate /\ c.attempts < MaxConfirmations
    <3>1. PICK e : e = [c EXCEPT !.approved = NoRow]
      OBVIOUS
    <3>2. /\ e \in Processes /\ e.session = c.session /\ e.base = c.base
          /\ e.stored = c.stored /\ e.pc = c.pc /\ e.candidate = c.candidate
      BY <3>1 DEF Processes
    <3>3. Tracks(e) /\ (e.base # NoRow => e.stored # NoRow /\ e.base = e.stored.record)
      BY <1>2, <3>2 DEF ProcOK, Tracks, Past
    <3>4. d = Compared(e, found)
      BY <1>4, <2>2, <3>1 DEF Rescanned
    <3> QED BY <1>2, <3>2, <3>3, <3>4, ComparedOK
  <2>3. CASE d = Left(c)
    BY <1>2, <2>3, LeftOK, LeftProcOK
  <2> QED BY <1>4, <2>1, <2>2, <2>3 DEF Rescanned
<1>6. cur' = [cur EXCEPT ![p] = d] /\ lock' = lock /\ disk' = disk /\ UNCHANGED storeVars
  BY <1>1, <1>3, <1>4 DEF Rescan, Captured
<1>7. RowsKept /\ disk' \in States
  BY <1>6, StoreUnchanged DEF Inv, Types
<1> QED BY <1>1, <1>2, <1>5, <1>6, <1>7, QuietStep

LEMMA GiveUpStep ==
    ASSUME Inv, NEW p \in Procs, GiveUp(p) PROVE Inv'
<1>1. PICK c \in Processes : c = cur[p]
  BY ProcType DEF GiveUp
<1>2. Running(p) /\ ProcOK(c)
  BY <1>1, ProcType DEF GiveUp
<1>3. /\ cur' = [cur EXCEPT ![p] = Left(c)] /\ lock' = lock /\ disk' = disk
      /\ UNCHANGED storeVars
  BY <1>1 DEF GiveUp
<1>4. RowsKept /\ disk' \in States
  BY <1>3, StoreUnchanged DEF Inv, Types
<1> QED BY <1>1, <1>2, <1>3, <1>4, LeftOK, LeftProcOK, QuietStep
-----------------------------------------------------------------------------
(* Accepting, working and the end of a task *)

\* What a saved row leaves: another one only over the one that was read.
LEMMA SavedRow ==
    ASSUME Inv, NEW c \in Processes, c.session \in Sessions, Tracks(c), SaveRow(c),
           c.candidate # NoRow
    PROVE  /\ StoreTypes' /\ StoreInv'
           /\ \A s \in Sessions : s # c.session =>
                  accepted'[s] = accepted[s] /\ marker'[s] = marker[s]
           /\ NeedsSave(c) => accepted'[c.session] = RowOf(c)
           /\ ~NeedsSave(c) => accepted'[c.session] = accepted[c.session]
           /\ marker[c.session] => marker'[c.session]
<1>1. c.candidate \in States /\ c.stored \in Rows \cup {NoRow}
  BY DEF Processes
<1>2. RowOf(c) \in Rows
  <2>1. c.stored # NoRow => c.stored.revision + 1 \in Nat
    BY <1>1 DEF Rows
  <2> QED BY <1>1, <2>1 DEF RowOf, Rows
<1>3. CASE NeedsSave(c)
  <2>1. SaveBaseline(c.session, c.candidate, IF c.stored = NoRow THEN 0 ELSE c.stored.revision)
    BY <1>3 DEF SaveRow
  <2>2. c.stored # NoRow => c.stored.revision \in Nat
    BY <1>1 DEF Rows
  <2>3. /\ Exists(c.session) /\ saved' = saved
        /\ accepted' = [accepted EXCEPT ![c.session] = RowOf(c)]
        /\ marker' = [marker EXCEPT ![c.session] = TRUE]
    BY <2>1, <2>2 DEF SaveBaseline, RowOf
  <2>4. StoreTypes'
    BY <1>2, <2>3 DEF Inv, Types, StoreTypes
  <2>5. StoreInv'
    BY <2>3 DEF Inv, Types, StoreTypes, StoreInv, Exists
  <2> QED BY <1>3, <2>3, <2>4, <2>5 DEF Inv, Types, StoreTypes
<1>4. CASE ~NeedsSave(c)
  <2>1. UNCHANGED storeVars
    BY <1>4 DEF SaveRow
  <2>2. StoreTypes' /\ StoreInv'
    BY <2>1, StoreUnchanged, RowsKeptStep
  <2> QED BY <1>4, <2>1, <2>2 DEF storeVars
<1> QED BY <1>3, <1>4

LEMMA PublishedOK ==
    ASSUME NEW c \in Processes, c.candidate # NoRow
    PROVE  LET d == Published(c) IN
           /\ d \in Processes /\ d.session = c.session /\ d.pc = c.pc
           /\ d.base = c.candidate /\ d.stored # NoRow /\ d.stored.record = c.candidate
           /\ d.stored = IF NeedsSave(c) THEN RowOf(c) ELSE c.stored
<1> DEFINE row == IF NeedsSave(c) THEN RowOf(c) ELSE c.stored
           d == Published(c)
<1>1. c.candidate \in States /\ c.stored \in Rows \cup {NoRow}
  BY DEF Processes
<1>2. c.stored # NoRow => c.stored.revision + 1 \in Nat
  BY <1>1 DEF Rows
<1>3. RowOf(c) \in Rows /\ RowOf(c).record = c.candidate
  BY <1>1, <1>2 DEF RowOf, Rows
<1>4. row \in Rows /\ row.record = c.candidate /\ row # NoRow
  BY <1>1, <1>3, SentinelAssumption DEF NeedsSave
<1>5. d = [c EXCEPT !.base = c.candidate, !.stored = row]
  BY DEF Published
<1> HIDE DEF row, d
<1>6. d \in Processes
  BY <1>1, <1>4, <1>5 DEF Processes
<1>7. d.session = c.session /\ d.pc = c.pc /\ d.base = c.candidate /\ d.stored = row
  BY <1>5 DEF Processes
<1> QED BY <1>4, <1>6, <1>7 DEF row, d

\* The row and the memory of a process that has accepted.
LEMMA PublishedTracks ==
    ASSUME Inv, NEW c \in Processes, c.session \in Sessions, Tracks(c), SaveRow(c),
           c.candidate # NoRow, NEW d, d.session = c.session,
           d.stored = IF NeedsSave(c) THEN RowOf(c) ELSE c.stored
    PROVE  Tracks(d)'
BY SavedRow DEF Tracks

LEMMA AcceptStep ==
    ASSUME Inv, NEW p \in Procs, Accept(p) PROVE Inv'
<1>1. PICK c \in Processes : c = cur[p]
  BY ProcType DEF Accept, At
<1>2. /\ Running(p) /\ ProcOK(c) /\ c.pc = "accept" /\ c.session \in Sessions
      /\ Tracks(c) /\ c.candidate # NoRow
  BY <1>1, ProcType DEF Accept, At, ProcOK, Processes, Past
<1>3. SaveRow(c) /\ lock' = lock /\ disk' = disk
  BY <1>1 DEF Accept
<1>4. PICK e : e = Published(c)
  OBVIOUS
<1>5. /\ e \in Processes /\ e.session = c.session /\ e.pc = c.pc
      /\ e.base = c.candidate /\ e.stored # NoRow /\ e.stored.record = c.candidate
      /\ e.stored = IF NeedsSave(c) THEN RowOf(c) ELSE c.stored
  BY <1>2, <1>4, PublishedOK
<1>6. PICK d : /\ d \in Processes /\ d.session = e.session /\ d.base = e.base
               /\ d.stored = e.stored /\ d.pc \in {"idle", "working"}
               /\ cur' = [cur EXCEPT ![p] = d]
  <2>1. CASE cur' = [cur EXCEPT ![p] = Left(e)]
    BY <1>5, <2>1, LeftOK
  <2>2. CASE cur' = [cur EXCEPT ![p] = [e EXCEPT !.pc = "working"]]
    <3>1. PICK d : d = [e EXCEPT !.pc = "working"]
      OBVIOUS
    <3>2. /\ d \in Processes /\ d.session = e.session /\ d.base = e.base
          /\ d.stored = e.stored /\ d.pc = "working"
      BY <1>5, <3>1 DEF Processes
    <3> QED BY <2>2, <3>1, <3>2
  <2> QED BY <1>1, <1>4, <2>1, <2>2 DEF Accept
<1>7. Tracks(d)'
  BY <1>2, <1>3, <1>5, <1>6, PublishedTracks
<1>8. ProcOK(d)'
  BY <1>2, <1>5, <1>6, <1>7, SentinelAssumption DEF ProcOK
<1>9. /\ StoreTypes' /\ StoreInv'
      /\ \A s \in Sessions : s # d.session =>
             accepted'[s] = accepted[s] /\ marker'[s] = marker[s]
  BY <1>2, <1>3, <1>5, <1>6, SavedRow
<1>10. disk' \in States /\ d.session = cur[p].session /\ d \in Processes
  BY <1>1, <1>3, <1>5, <1>6 DEF Inv, Types
<1> QED BY <1>2, <1>3, <1>6, <1>8, <1>9, <1>10, OwnStep

LEMMA WriteStep ==
    ASSUME Inv, NEW p \in Procs, Write(p) PROVE Inv'
<1>1. PICK c \in Processes : c = cur[p]
  BY ProcType DEF Write, At
<1>2. Running(p) /\ ProcOK(c)
  BY <1>1, ProcType DEF Write, At
<1>3. PICK x \in Paths, v \in Contents :
          /\ disk' = [disk EXCEPT !.files[x] = v]
          /\ cur' = [cur EXCEPT ![p].own =
                       [y \in DOMAIN @ \cup {x} |->
                           IF y = x THEN [before |-> disk.files[x], after |-> v] ELSE @[y]]]
  BY DEF Write
<1>4. PICK own : own = [y \in DOMAIN c.own \cup {x} |->
                           IF y = x THEN [before |-> disk.files[x], after |-> v] ELSE c.own[y]]
  OBVIOUS
<1>5. own \in Ledgers
  <2>1. PICK D \in SUBSET Paths : c.own \in [D -> [before : Contents, after : Contents]]
    BY DEF Processes, Ledgers
  <2>2. disk.files[x] \in Contents
    BY DEF Inv, Types, States
  <2>3. own \in [D \cup {x} -> [before : Contents, after : Contents]]
    BY <1>4, <2>1, <2>2
  <2>4. D \cup {x} \in SUBSET Paths
    OBVIOUS
  <2> QED BY <2>3, <2>4 DEF Ledgers
<1>6. PICK d : d = [c EXCEPT !.own = own]
  OBVIOUS
<1>7. d \in Processes
  BY <1>5, <1>6 DEF Processes
<1>8. /\ d.session = c.session /\ d.base = c.base /\ d.stored = c.stored
      /\ d.pc = c.pc /\ d.candidate = c.candidate /\ d.approved = c.approved
  BY <1>6 DEF Processes
<1>9. ProcOK(d)
  BY <1>2, <1>8 DEF ProcOK, Tracks
<1>10. cur' = [cur EXCEPT ![p] = d]
  BY <1>1, <1>3, <1>4, <1>6
<1>11. disk' \in States
  BY <1>3 DEF Inv, Types, States
<1>12. lock' = lock /\ UNCHANGED storeVars
  BY DEF Write
<1> QED BY <1>1, <1>2, <1>7, <1>8, <1>9, <1>10, <1>11, <1>12, StoreUnchanged, QuietStep

\* A save of the memory, or nothing.
LEMMA KeptRow ==
    ASSUME Inv, NEW s \in Sessions, NEW m \in Obligations,
           SaveMemory(s, m) \/ UNCHANGED storeVars
    PROVE  RowsKept
<1>1. CASE SaveMemory(s, m)
  BY <1>1, SentinelAssumption DEF SaveMemory, RowsKept, Inv, Types, StoreTypes
<1>2. CASE UNCHANGED storeVars
  BY <1>2, StoreUnchanged
<1> QED BY <1>1, <1>2

LEMMA RanStep ==
    ASSUME Inv, NEW p \in Procs, Ran(p) PROVE Inv'
<1>1. PICK c \in Processes : c = cur[p]
  BY ProcType DEF Ran, At
<1>2. Running(p) /\ ProcOK(c) /\ c.pc = "working" /\ c.session \in Sessions
  BY <1>1, ProcType DEF Ran, At, ProcOK, Processes
<1>3. PICK covered \in {{}, Paths}, ok \in BOOLEAN, keep \in BOOLEAN :
          LET m == Merged(c.memory, DOMAIN c.own, covered) IN
          /\ cur' = [cur EXCEPT ![p] = [c EXCEPT !.memory = m, !.dirty = ~keep, !.ok = ok,
                                           !.known = @ \cup DOMAIN c.own, !.pc = "finalize"]]
          /\ IF keep THEN SaveMemory(c.session, m) ELSE UNCHANGED storeVars
  BY <1>1 DEF Ran
<1>4. DOMAIN c.own \in SUBSET Paths
  BY DEF Processes, Ledgers
<1>5. PICK m : m = Merged(c.memory, DOMAIN c.own, covered)
  OBVIOUS
<1>6. m \in Obligations
  <2>1. (c.memory.paths \cup DOMAIN c.own) \ covered \in SUBSET Paths
    BY <1>4 DEF Processes, Obligations
  <2> QED BY <1>5, <2>1 DEF Merged, Obligations
<1>7. PICK known \in SUBSET Paths : known = c.known \cup DOMAIN c.own
  BY <1>4 DEF Processes
<1>8. PICK dirty \in BOOLEAN : dirty = ~keep
  OBVIOUS
<1>9. PICK d : d = [c EXCEPT !.memory = m, !.dirty = dirty, !.ok = ok,
                             !.known = known, !.pc = "finalize"]
  OBVIOUS
<1>10. d \in Processes
  <2>1. PICK e : e = [c EXCEPT !.memory = m, !.dirty = dirty]
    OBVIOUS
  <2>2. e \in Processes
    BY <1>6, <2>1 DEF Processes
  <2>3. PICK f : f = [e EXCEPT !.ok = ok]
    OBVIOUS
  <2>4. f \in Processes
    BY <2>2, <2>3 DEF Processes
  <2>5. d = [f EXCEPT !.known = known, !.pc = "finalize"]
    BY <1>9, <2>1, <2>3
  <2> QED BY <2>4, <2>5 DEF Processes
<1>11. d.session = c.session /\ d.base = c.base /\ d.stored = c.stored /\ d.pc = "finalize"
  BY <1>9 DEF Processes
<1>12. ProcOK(d)
  BY <1>2, <1>11 DEF ProcOK, Tracks, Past
<1>13. cur' = [cur EXCEPT ![p] = d]
  BY <1>3, <1>5, <1>7, <1>8, <1>9
<1>14. RowsKept
  BY <1>2, <1>3, <1>5, <1>6, KeptRow
<1>15. lock' = lock /\ disk' \in States
  BY DEF Ran, Inv, Types
<1> QED BY <1>1, <1>2, <1>10, <1>11, <1>12, <1>13, <1>14, <1>15, QuietStep

LEMMA DoneOK ==
    ASSUME NEW c \in Processes
    PROVE  /\ Done(c) \in Processes /\ Done(c).session = c.session /\ Done(c).base = c.base
           /\ Done(c).stored = c.stored /\ Done(c).pc = "idle" /\ Done(c).memory = c.memory
<1>1. [x \in {} |-> 0] \in Ledgers
  <2>1. [x \in {} |-> 0] \in [{} -> [before : Contents, after : Contents]]
    OBVIOUS
  <2> QED BY <2>1 DEF Ledgers
<1>2. PICK e : e = Left(c)
  OBVIOUS
<1>3. /\ e \in Processes /\ e.session = c.session /\ e.base = c.base
      /\ e.stored = c.stored /\ e.pc = "idle" /\ e.memory = c.memory
  BY <1>2, LeftOK, ZenonT(40) DEF Left, Processes
<1>4. Done(c) = [e EXCEPT !.own = [x \in {} |-> 0], !.ok = FALSE]
  BY <1>2 DEF Done
<1> QED BY <1>1, <1>3, <1>4, ZenonT(40) DEF Processes

LEMMA FinalizeStep ==
    ASSUME Inv, NEW p \in Procs, Finalize(p) PROVE Inv'
<1>1. PICK o \in Processes : o = cur[p]
  BY ProcType DEF Finalize, At
<1>2. /\ Running(p) /\ ProcOK(o) /\ o.pc = "finalize" /\ o.session \in Sessions
      /\ Tracks(o) /\ o.base # NoRow
  BY <1>1, ProcType DEF Finalize, At, ProcOK, Processes, Past
<1>3. PICK found \in States : found = disk
  BY DEF Inv, Types
<1>4. PICK c : c = [o EXCEPT !.candidate = found]
  OBVIOUS
<1>5. /\ c \in Processes /\ c.session = o.session /\ c.base = o.base /\ c.stored = o.stored
      /\ c.candidate = found /\ found # NoRow
  BY <1>4, SentinelAssumption DEF Processes
<1>6. lock' = lock /\ disk' = disk /\ disk' \in States
  BY DEF Finalize, Inv, Types
<1>7. Tracks(c)
  BY <1>2, <1>5 DEF Tracks
<1>8. CASE SaveRow(c) /\ cur' = [cur EXCEPT ![p] = Done(Published(c))]
  <2>1. PICK e : e = Published(c)
    OBVIOUS
  <2>2. /\ e \in Processes /\ e.session = c.session /\ e.base = c.candidate
        /\ e.stored # NoRow /\ e.stored.record = c.candidate
        /\ e.stored = IF NeedsSave(c) THEN RowOf(c) ELSE c.stored
    BY <1>5, <2>1, PublishedOK
  <2>3. PICK d : d = Done(e)
    OBVIOUS
  <2>4. /\ d \in Processes /\ d.session = c.session /\ d.base = c.candidate
        /\ d.stored = e.stored /\ d.pc = "idle"
    BY <2>2, <2>3, DoneOK
  <2>5. Tracks(d)'
    BY <1>2, <1>5, <1>7, <1>8, <2>2, <2>4, PublishedTracks
  <2>6. ProcOK(d)'
    BY <1>2, <1>5, <2>2, <2>4, <2>5, SentinelAssumption DEF ProcOK
  <2>7. /\ StoreTypes' /\ StoreInv'
        /\ \A s \in Sessions : s # d.session =>
               accepted'[s] = accepted[s] /\ marker'[s] = marker[s]
    BY <1>2, <1>5, <1>7, <1>8, <2>4, SavedRow
  <2>8. cur' = [cur EXCEPT ![p] = d] /\ d.session = cur[p].session
    BY <1>1, <1>5, <1>8, <2>1, <2>3, <2>4
  <2> QED BY <1>2, <1>6, <2>4, <2>6, <2>7, <2>8, OwnStep
<1>9. CASE UNCHANGED storeVars /\ cur' = [cur EXCEPT ![p] = Done(Unsaved(c))]
  <2>1. PICK e : e = Unsaved(c)
    OBVIOUS
  <2>2. /\ e \in Processes /\ e.session = c.session /\ e.base = c.base /\ e.stored = c.stored
    BY <1>5, <2>1 DEF Unsaved, Processes
  <2>3. PICK d : d = Done(e)
    OBVIOUS
  <2>4. /\ d \in Processes /\ d.session = o.session /\ d.base = o.base
        /\ d.stored = o.stored /\ d.pc = "idle"
    BY <1>5, <2>2, <2>3, DoneOK
  <2>5. ProcOK(d)
    BY <1>2, <2>4, SentinelAssumption DEF ProcOK, Tracks
  <2>6. cur' = [cur EXCEPT ![p] = d] /\ d.session = cur[p].session
    BY <1>1, <1>9, <2>1, <2>3, <2>4
  <2> QED BY <1>2, <1>6, <1>9, <2>4, <2>5, <2>6, StoreUnchanged, QuietStep
<1>10. ASSUME NEW keep \in BOOLEAN,
              LET e == Done(Forced(o)) IN
              /\ cur' = [cur EXCEPT ![p] = [e EXCEPT !.dirty = @ /\ ~keep]]
              /\ IF e.dirty /\ keep THEN SaveMemory(e.session, e.memory) ELSE UNCHANGED storeVars
       PROVE  Inv'
  <2>1. PICK f : f = Forced(o)
    OBVIOUS
  <2>2. /\ f \in Processes /\ f.session = o.session /\ f.base = o.base /\ f.stored = o.stored
    BY <2>1, ForcedOK
  <2>3. PICK e : e = Done(f)
    OBVIOUS
  <2>4. /\ e \in Processes /\ e.session = o.session /\ e.base = o.base /\ e.stored = o.stored
        /\ e.pc = "idle"
    BY <2>2, <2>3, DoneOK
  <2>5. PICK dirty \in BOOLEAN : dirty = (e.dirty /\ ~keep)
    OBVIOUS
  <2>6. PICK d : d = [e EXCEPT !.dirty = dirty]
    OBVIOUS
  <2>7. /\ d \in Processes /\ d.session = o.session /\ d.base = o.base /\ d.stored = o.stored
        /\ d.pc = "idle"
    BY <2>4, <2>6 DEF Processes
  <2>8. ProcOK(d)
    BY <1>2, <2>7, SentinelAssumption DEF ProcOK, Tracks
  <2>9. cur' = [cur EXCEPT ![p] = d] /\ d.session = cur[p].session
    BY <1>1, <1>10, <2>1, <2>3, <2>5, <2>6, <2>7
  <2>10. RowsKept
    <3>1. e.memory \in Obligations /\ e.session \in Sessions
      BY <1>2, <2>4 DEF Processes
    <3> QED BY <1>10, <2>1, <2>3, <3>1, KeptRow
  <2> QED BY <1>2, <1>6, <2>7, <2>8, <2>9, <2>10, QuietStep
<1> QED BY <1>1, <1>3, <1>4, <1>8, <1>9, <1>10 DEF Finalize, Captured

\* A step of the surroundings: processes and locks stay as they are.
LEMMA OutsideStep ==
    ASSUME Inv, cur' = cur, lock' = lock, disk' \in States,
           saved' = saved, marker' = marker,
           \A s \in Sessions : accepted'[s] \in {accepted[s], NoRow},
           accepted' \in [Sessions -> Rows \cup {NoRow}]
    PROVE  Inv'
<1>1. Types'
  BY DEF Inv, Types, StoreTypes
<1>2. StoreInv'
  BY DEF Inv, StoreInv, Exists
<1>3. LockInv'
  BY DEF Inv, LockInv, Running
<1>4. ASSUME NEW p \in Procs, Running(p)' PROVE ProcOK(cur[p])'
  <2>1. PICK c \in Processes : c = cur[p]
    BY <1>4, ProcType DEF Running
  <2>2. ProcOK(c) /\ c.session \in Sessions \cup {NoSession}
    BY <1>4, <2>1, ProcType DEF Running, Processes
  <2>3. CASE c.session \in Sessions
    <3>1. Tracks(c) => Tracks(c)'
      BY <2>3 DEF Tracks, Inv, StoreInv
    <3>2. ProcOK(c)'
      BY <2>2, <3>1 DEF ProcOK
    <3> QED BY <2>1, <3>2
  <2>4. CASE c.session = NoSession
    <3>1. ProcOK(c)'
      BY <2>2, <2>4 DEF ProcOK, Past
    <3> QED BY <2>1, <3>1
  <2> QED BY <2>2, <2>3, <2>4
<1> QED BY <1>1, <1>2, <1>3, <1>4 DEF Inv, ProcInv

LEMMA EditStep ==
    ASSUME Inv, Edit PROVE Inv'
<1>1. disk' \in States
  <2>1. PICK d \in States : d = disk
    BY DEF Inv, Types
  <2>2. CASE \E x \in Paths, v \in Contents : disk' = [disk EXCEPT !.files[x] = v]
    BY <2>1, <2>2 DEF States
  <2>3. CASE disk' = [disk EXCEPT !.root = 1 - @]
    <3>1. 1 - d.root \in {0, 1} /\ disk' = [d EXCEPT !.root = 1 - d.root]
      BY <2>1, <2>3 DEF States
    <3> QED BY <3>1 DEF States
  <2> QED BY <2>2, <2>3 DEF Edit
<1>2. UNCHANGED storeVars /\ cur' = cur /\ lock' = lock
  BY DEF Edit
<1> QED BY <1>1, <1>2, OutsideStep DEF storeVars, Inv, Types, StoreTypes

LEMMA LoseRowStep ==
    ASSUME Inv, NEW s \in Sessions, LoseRow(s) PROVE Inv'
<1>1. /\ cur' = cur /\ lock' = lock /\ disk' = disk /\ saved' = saved /\ marker' = marker
      /\ accepted' = [accepted EXCEPT ![s] = NoRow]
  BY DEF LoseRow
<1>2. accepted \in [Sessions -> Rows \cup {NoRow}] /\ disk' \in States
  BY <1>1 DEF Inv, Types, StoreTypes
<1>3. accepted' \in [Sessions -> Rows \cup {NoRow}]
  BY <1>1, <1>2
<1>4. \A t \in Sessions : accepted'[t] \in {accepted[t], NoRow}
  BY <1>1, <1>2
<1> QED BY <1>1, <1>2, <1>3, <1>4, OutsideStep

LEMMA InitInv == Init => Inv
<1> SUFFICES ASSUME Init PROVE Inv
  OBVIOUS
<1>1. Types
  <2>1. (CHOOSE c \in Contents : TRUE) \in Contents
    BY ContentsAssumption
  <2>2. disk \in States
    BY <2>1 DEF Init, States
  <2> QED BY <2>2 DEF Init, StoreInit, Types, StoreTypes
<1>2. StoreInv
  BY DEF Init, StoreInit, StoreInv, Exists
<1>3. LockInv /\ ProcInv
  BY NobodyAssumption DEF Init, StoreInit, LockInv, ProcInv, Running
<1> QED BY <1>1, <1>2, <1>3 DEF Inv

LEMMA StepInv == Inv /\ [Next]_vars => Inv'
<1> SUFFICES ASSUME Inv, [Next]_vars PROVE Inv'
  OBVIOUS
<1>1. ASSUME NEW p \in Procs, NEW s \in Sessions, Open(p, s) \/ FirstTask(p, s) PROVE Inv'
  BY <1>1, OpenStep, FirstTaskStep
<1>2. ASSUME NEW p \in Procs, Enter(p) \/ Persist(p) PROVE Inv'
  BY <1>2, EnterStep, MemoryStep
<1>3. ASSUME NEW p \in Procs, Close(p) \/ Crash(p) PROVE Inv'
  BY <1>3, GoneStep
<1>4. ASSUME NEW p \in Procs, BeginTask(p) \/ Take(p) \/ Scan(p) PROVE Inv'
  BY <1>4, BeginStep, TakeStep, ScanStep
<1>5. ASSUME NEW p \in Procs, Approve(p) \/ Rescan(p) \/ GiveUp(p) PROVE Inv'
  BY <1>5, ApproveStep, RescanStep, GiveUpStep
<1>6. ASSUME NEW p \in Procs, Accept(p) \/ Write(p) \/ Ran(p) \/ Finalize(p) PROVE Inv'
  BY <1>6, AcceptStep, WriteStep, RanStep, FinalizeStep
<1>7. ASSUME Recover \/ UNCHANGED vars PROVE Inv'
  <2>1. /\ UNCHANGED storeVars /\ cur' = cur /\ lock' = lock /\ disk' = disk
    BY <1>7 DEF Recover, vars, storeVars
  <2> QED BY <2>1, OutsideStep DEF storeVars, Inv, Types, StoreTypes
<1> QED BY <1>1, <1>2, <1>3, <1>4, <1>5, <1>6, <1>7, EditStep, LoseRowStep DEF Next

\* A process owns the lock of the session it has open; a cached row is the row of
\* the database unless that was lost, and then its marker tells so; the baseline in
\* memory is the one of the cached row; and no operation reaches the acceptance
\* with a state that is neither the first, nor the same, nor approved.
THEOREM Invariance == Spec => []Inv
<1> QED BY InitInv, StepInv, PTL DEF Spec

\* The row and the memory advance together or not at all
\* (_accept_workspace_baseline): what the gate compares with in this process is
\* what it would compare with after a restart.
THEOREM AdvanceTogether == Spec => []BothOrNeither
<1>1. Inv => BothOrNeither
  <2> SUFFICES ASSUME Inv, NEW p \in Procs, Opened(p), cur[p].base # NoRow,
                      accepted[cur[p].session] # NoRow
               PROVE  accepted[cur[p].session].record = cur[p].base
    BY DEF BothOrNeither
  <2>1. ProcOK(cur[p])
    BY ProcType DEF Opened
  <2>2. Tracks(cur[p]) /\ cur[p].base = cur[p].stored.record
    BY <2>1 DEF ProcOK
  <2> QED BY <2>2 DEF Tracks
<1> QED BY <1>1, Invariance, PTL

-----------------------------------------------------------------------------
(* What may become a session's own *)

\* Every action but these leaves the rows of the baselines alone.
LEMMA OthersAccept ==
    ASSUME Inv, [Next]_vars
    PROVE  \/ accepted' = accepted
           \/ \E s \in Sessions : LoseRow(s)
           \/ \E p \in Procs : Accept(p) \/ Finalize(p)
<1>1. ASSUME NEW p \in Procs, NEW s \in Sessions, Open(p, s) \/ FirstTask(p, s)
      PROVE  accepted' = accepted
  BY <1>1 DEF Open, FirstTask, InsertPrepared
<1>2. ASSUME NEW p \in Procs, \/ Enter(p) \/ Persist(p) \/ Close(p) \/ Crash(p)
                              \/ BeginTask(p) \/ Take(p) \/ Scan(p) \/ Approve(p)
                              \/ Rescan(p) \/ GiveUp(p) \/ Write(p) \/ Ran(p)
      PROVE  accepted' = accepted
  BY <1>2 DEF Enter, Persist, Close, Crash, Gone, BeginTask, Take, Scan, Approve,
              Rescan, GiveUp, Write, Ran, SaveMemory, storeVars
<1>3. ASSUME Recover \/ Edit \/ UNCHANGED vars PROVE accepted' = accepted
  BY <1>3 DEF Recover, Edit, vars, storeVars
<1> QED BY <1>1, <1>2, <1>3 DEF Next

\* The row that is written is the candidate's, of the session of the process.
LEMMA VouchedByAccept ==
    ASSUME Inv, NEW p \in Procs, Accept(p), NEW s \in Sessions,
           accepted[s] # NoRow, accepted'[s] # accepted[s]
    PROVE  lock[s] = p /\ cur[p].approved = accepted'[s].record
<1>1. PICK c \in Processes : c = cur[p]
  BY ProcType DEF Accept, At
<1>2. /\ Running(p) /\ ProcOK(c) /\ c.pc = "accept" /\ c.session \in Sessions
      /\ Tracks(c) /\ c.candidate # NoRow
  BY <1>1, ProcType DEF Accept, At, ProcOK, Processes, Past
<1>3. SaveRow(c)
  BY <1>1 DEF Accept
<1>4. /\ s = c.session
      /\ NeedsSave(c) => accepted'[c.session] = RowOf(c)
      /\ ~NeedsSave(c) => accepted'[c.session] = accepted[c.session]
  BY <1>2, <1>3, SavedRow
<1>5. c.stored = accepted[s] /\ NeedsSave(c)
  BY <1>2, <1>4 DEF Tracks
<1>6. c.approved = c.candidate /\ accepted'[s].record = c.candidate
  BY <1>2, <1>4, <1>5 DEF ProcOK, NeedsSave, RowOf
<1>7. lock[s] = p
  BY <1>1, <1>2, <1>4 DEF Inv, LockInv
<1> QED BY <1>1, <1>6, <1>7

LEMMA VouchedByFinalize ==
    ASSUME Inv, NEW p \in Procs, Finalize(p), NEW s \in Sessions,
           accepted[s] # NoRow, accepted'[s] # accepted[s]
    PROVE  /\ lock[s] = p /\ cur[p].pc = "finalize"
           /\ accepted'[s].record = WithOwn(accepted[s].record, cur[p].own)
<1>1. PICK o \in Processes : o = cur[p]
  BY ProcType DEF Finalize, At
<1>2. /\ Running(p) /\ ProcOK(o) /\ o.pc = "finalize" /\ o.session \in Sessions
      /\ Tracks(o) /\ o.base # NoRow /\ o.base = o.stored.record
  BY <1>1, ProcType DEF Finalize, At, ProcOK, Processes, Past
<1>3. PICK found \in States : found = disk
  BY DEF Inv, Types
<1>4. PICK c : c = [o EXCEPT !.candidate = found]
  OBVIOUS
<1>5. /\ c \in Processes /\ c.session = o.session /\ c.base = o.base /\ c.stored = o.stored
      /\ c.candidate = found /\ c.own = o.own /\ found # NoRow
  BY <1>4, SentinelAssumption DEF Processes
<1>6. Advances(c, found) /\ SaveRow(c)
  <2>1. accepted' # accepted
    OBVIOUS
  <2>2. \/ Advances(c, found) /\ SaveRow(c)
        \/ UNCHANGED storeVars
        \/ \E e : SaveMemory(e.session, e.memory)
    BY <1>1, <1>3, <1>4, <1>5 DEF Finalize, Captured
  <2> QED BY <2>1, <2>2 DEF SaveMemory, storeVars
<1>7. Tracks(c)
  BY <1>2, <1>5 DEF Tracks
<1>8. /\ s = c.session
      /\ NeedsSave(c) => accepted'[c.session] = RowOf(c)
      /\ ~NeedsSave(c) => accepted'[c.session] = accepted[c.session]
  BY <1>2, <1>5, <1>6, <1>7, SavedRow
<1>9. c.stored = accepted[s] /\ accepted'[s].record = found
  BY <1>5, <1>7, <1>8 DEF Tracks, RowOf
<1>10. found = WithOwn(c.base, c.own)
  BY <1>6 DEF Advances, Attributable
<1>11. lock[s] = p
  BY <1>1, <1>2, <1>5, <1>8 DEF Inv, LockInv
<1> QED BY <1>1, <1>2, <1>5, <1>9, <1>10, <1>11

\* No state becomes a session's own without being the first one, or exactly the one
\* a person was shown and found again, or the last one with nothing but what the
\* task itself wrote (workspace/gate.py and _finalize_workspace_task).
THEOREM Vouched == Spec => AcceptedIsVouched
<1>1. Inv /\ [Next]_vars =>
        \A s \in Sessions : accepted[s] # NoRow /\ accepted'[s] \notin {accepted[s], NoRow} =>
          LET c == cur[lock[s]] IN
          \/ c.approved = accepted'[s].record
          \/ c.pc = "finalize" /\ accepted'[s].record = WithOwn(accepted[s].record, c.own)
  <2> SUFFICES ASSUME Inv, [Next]_vars, NEW s \in Sessions, accepted[s] # NoRow,
                      accepted'[s] \notin {accepted[s], NoRow}
               PROVE  \/ cur[lock[s]].approved = accepted'[s].record
                      \/ /\ cur[lock[s]].pc = "finalize"
                         /\ accepted'[s].record = WithOwn(accepted[s].record, cur[lock[s]].own)
    OBVIOUS
  <2>1. ~ \E t \in Sessions : LoseRow(t)
    BY DEF LoseRow, Inv, Types, StoreTypes
  <2>2. PICK p \in Procs : Accept(p) \/ Finalize(p)
    BY <2>1, OthersAccept
  <2>3. CASE Accept(p)
    BY <2>3, VouchedByAccept
  <2>4. CASE Finalize(p)
    BY <2>4, VouchedByFinalize
  <2> QED BY <2>2, <2>3, <2>4
<1> QED BY <1>1, Invariance, PTL DEF Spec, AcceptedIsVouched

\* A row that was lost stays lost (the marker of save_workspace_baseline): it is
\* never taken for a session that has not had one yet.
THEOREM LossRemembered == Spec => LossIsNotForgotten
<1>1. Inv /\ [Next]_vars =>
        \A s \in Sessions : marker[s] /\ accepted[s] = NoRow => accepted'[s] = NoRow
  <2> SUFFICES ASSUME Inv, [Next]_vars, NEW s \in Sessions, marker[s], accepted[s] = NoRow,
                      accepted'[s] # NoRow
               PROVE  FALSE
    OBVIOUS
  <2>1. ~ \E t \in Sessions : LoseRow(t)
    BY DEF LoseRow, Inv, Types, StoreTypes
  <2>2. PICK c : SaveRow(c) /\ NeedsSave(c)
    <3>1. PICK p \in Procs : Accept(p) \/ Finalize(p)
      BY <2>1, OthersAccept
    <3>2. accepted' # accepted
      OBVIOUS
    <3> QED BY <3>1, <3>2 DEF Accept, Finalize, SaveRow, SaveMemory, storeVars
  <2>3. PICK t, r, n : SaveBaseline(t, r, n)
    BY <2>2 DEF SaveRow
  <2>4. BaselineVerdict(t) = "ok" /\ \A u \in Sessions \ {t} : accepted'[u] = accepted[u]
    BY <2>3 DEF SaveBaseline, Inv, Types, StoreTypes
  <2>5. s = t
    BY <2>4
  <2> QED BY <2>4, <2>5 DEF BaselineVerdict
<1> QED BY <1>1, Invariance, PTL DEF Spec, LossIsNotForgotten
=============================================================================
