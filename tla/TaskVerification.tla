-------------------------- MODULE TaskVerification --------------------------
(***************************************************************************)
(* When a task of a session may be called a success, and what it still     *)
(* owes the session when it is not.                                        *)
(*                                                                         *)
(* A session has an accepted baseline of its workspace (gate.py) and an    *)
(* obligation: paths that were changed and not checked since.  A task      *)
(* writes files and runs checks.  A check that passes on a workspace that  *)
(* stands still is evidence for exactly that snapshot; the records of all  *)
(* checks are in a bounded table (engine/validation.py).  The loop         *)
(* assesses a finish (engine/completion.py), the runtime scans again,      *)
(* merges the obligation and scans a last time before it moves the         *)
(* baseline (session/runtime.py).  Files change from outside at any time,  *)
(* between any two of these scans.                                         *)
(*                                                                         *)
(* A snapshot is the contents of all paths.  Left out: directories,        *)
(* permissions, version queries, a patch of several files, the undo of a   *)
(* task, a storage that refuses the new baseline.  The verification label  *)
(* is not kept: it says passed when there is evidence and no failure.  A   *)
(* task has one session; a restart forgets what ClearSession forgets.      *)
(***************************************************************************)
EXTENDS Naturals, Sequences

CONSTANTS Paths, Contents, Checks,
          Targets,     \* the paths a check covers; none: a plain script
          Whole,       \* the checks whose target is the workspace root
          Nothing,     \* no snapshot, no contents
          MaxRecords,  \* max_records of TaskValidationTracker, 32
          MaxRounds,   \* max_rounds of the agent, here one tool call in each
          MaxTasks, MaxEdits  \* bounds on tasks and on changes from outside

Snapshots == [Paths -> Contents]

ASSUME TargetsAssumption ==
    /\ Targets \in [Checks -> SUBSET Paths]
    /\ Whole \in SUBSET Checks /\ \A c \in Whole : Targets[c] = Paths
ASSUME NothingAssumption == Nothing \notin Snapshots /\ Nothing \notin Contents
ASSUME BoundsAssumption ==
    MaxRecords \in Nat \ {0} /\ MaxRounds \in Nat /\ MaxTasks \in Nat /\ MaxEdits \in Nat

VARIABLES
    disk, edits,  \* the workspace; how often it was changed from outside
    base,         \* the accepted baseline
    phase, seen,  \* the place in run_task; the scan it works with
    tasks, rounds, recovered,  \* recovered: finish_verification_recoveries
    ok,           \* ok of the result
    first, last,  \* the journal: each path before and after the writes
    tainted,      \* its tainted paths
    required, evidence, failure, unknown,  \* of SessionContext
    modified,     \* modified_files of the session
    records, stale, unresolved,            \* of the tracker
    pending, legacy,  \* the obligation: its paths; is it legacy_unknown?
    \* History: the passes of this task and where, the checks whose last run
    \* failed, the paths that were pending when it began.
    proofs, failing, owed

workspace == <<disk, edits>>
journal == <<first, last, tainted>>
context == <<required, evidence, failure, unknown>>
tracker == <<records, stale, unresolved>>
obligation == <<pending, legacy>>
history == <<proofs, failing, owed>>
progress == <<tasks, rounds, recovered>>
verificationVars == <<workspace, base, phase, seen, progress, ok, journal, context,
                      modified, tracker, obligation, history>>

Runs == [check : Checks, result : {"pass", "fail", "hollow"}, at : Snapshots]
Proof == [check : Checks, at : Snapshots]
Scan == Snapshots \cup {Nothing}

VerificationTypes ==
    /\ disk \in Snapshots /\ edits \in 0 .. MaxEdits
    /\ base \in Snapshots
    /\ phase \in {"idle", "observe", "confirm", "start", "running", "command",
                  "seal", "close", "raised", "revoke"}
    /\ seen \in Scan
    /\ tasks \in 0 .. MaxTasks /\ rounds \in 0 .. MaxRounds
    /\ recovered \in BOOLEAN /\ ok \in BOOLEAN
    /\ first \in [Paths -> Contents \cup {Nothing}]
    /\ last \in [Paths -> Contents \cup {Nothing}]
    /\ tainted \in SUBSET Paths
    /\ required \in BOOLEAN /\ unknown \in BOOLEAN
    /\ evidence \in Scan /\ failure \in Scan
    /\ modified \in SUBSET Paths
    /\ records \in Seq(Runs)
    /\ stale \in SUBSET Checks /\ unresolved \in SUBSET Checks
    /\ pending \in SUBSET Paths /\ legacy \in BOOLEAN
    /\ proofs \in SUBSET Proof
    /\ failing \in SUBSET Checks /\ owed \in SUBSET Paths

VerificationInit ==
    /\ disk \in Snapshots /\ edits = 0
    /\ base = disk
    /\ phase = "idle" /\ seen = Nothing
    /\ tasks = 0 /\ rounds = 0 /\ recovered = FALSE /\ ok = FALSE
    /\ first = [p \in Paths |-> Nothing] /\ last = [p \in Paths |-> Nothing]
    /\ tainted = {}
    /\ required = FALSE /\ evidence = Nothing /\ failure = Nothing /\ unknown = FALSE
    /\ modified = {}
    /\ records = <<>> /\ stale = {} /\ unresolved = {}
    /\ pending = {} /\ legacy = FALSE
    /\ proofs = {} /\ failing = {} /\ owed = {}
-----------------------------------------------------------------------------
\* A scan of the workspace: complete, or given up.
Capture == {disk, Nothing}
Differing(s, t) == {p \in Paths : s[p] # t[p]}

\* The journal: the paths written, those among them with a net change, and the
\* effects it reports at the end.
Touched == {p \in Paths : last[p] # Nothing}
Net == {p \in Touched : first[p] # last[p]}
Effects == IF Net \cup tainted = {} THEN Touched ELSE Net \cup tainted

\* _latest of the tracker: the last record of each check, unless it was evicted.
Latest == {records[i] : i \in {i \in DOMAIN records :
               \A j \in DOMAIN records : j > i => records[j].check # records[i].check}}
Checked == {r.check : r \in Latest}

\* A record that counts as a check that passed; what a set of records covers.
Passes(r) == r.result = "pass" /\ Targets[r.check] # {}
Covered(rs) == UNION {Targets[r.check] : r \in {r \in rs : Passes(r)}}

\* current_records for the stale set outdated.
Current(outdated, s) == {r \in Latest : r.check \notin outdated /\ r.at = s}

\* status of the report for the stale set outdated.
Status(outdated) ==
    IF unresolved # {} THEN "failed"
    ELSE IF outdated # {} /\ ~\E r \in Latest : r.check \notin outdated /\ Passes(r)
         THEN "stale"
    ELSE IF records # <<>> THEN "observed" ELSE "unverified"

\* proves_new_file_version clears a failure.
FailureAt(s) == IF s # Nothing /\ s # failure THEN Nothing ELSE failure

\* UNKNOWN effects: a transition, then the batch and the task stop.
LoseTrack ==
    /\ unknown' = TRUE /\ required' = TRUE /\ evidence' = Nothing
    /\ stale' = stale \cup Checked
    /\ ok' = FALSE /\ phase' = "seal" /\ seen' = Nothing
-----------------------------------------------------------------------------
(***************************************************************************)
(* The gate before a task                                                  *)
(***************************************************************************)
\* A change from outside: any number of files at once.
Edit ==
    /\ edits < MaxEdits
    /\ disk' \in Snapshots \ {disk}
    /\ edits' = edits + 1
    /\ UNCHANGED <<base, phase, seen, progress, ok, journal, context, modified,
                   tracker, obligation, history>>

\* _invalidate_current_after_workspace_finish_failure on its scan s: what is
\* known of exactly this version stays; else it goes, and a session without an
\* obligation gets its modified paths back as one.
Keeps(s) == s # Nothing /\ s \in {evidence, failure}
Revoke(s) ==
    IF Keeps(s) THEN UNCHANGED <<evidence, failure>>
    ELSE evidence' = Nothing /\ failure' = Nothing
Restores(s) == ~Keeps(s) /\ pending = {} /\ ~legacy

\* The gate scans and compares with the baseline.  A scan that fails ends it
\* with nothing changed, and is left out.
Compare ==
    /\ phase' = IF disk = base THEN "start" ELSE "observe"
    /\ seen' = IF disk = base THEN Nothing ELSE disk

EnterGate ==
    /\ phase = "idle" /\ tasks < MaxTasks
    /\ tasks' = tasks + 1
    /\ Compare
    /\ UNCHANGED <<workspace, base, rounds, recovered, ok, journal, context,
                   modified, tracker, obligation, history>>

\* _observe_workspace_change: before anyone is asked.
ObserveChange ==
    /\ phase = "observe"
    /\ \E s \in Capture :
         /\ Revoke(s)
         /\ pending' = pending \cup (IF Restores(s) THEN modified ELSE {})
                               \cup Differing(base, seen)
    /\ phase' = "confirm"
    /\ UNCHANGED <<workspace, base, seen, progress, ok, journal, required, unknown,
                   modified, tracker, legacy, history>>

\* A person confirms the preview; the workspace is scanned again.
Confirm ==
    /\ phase = "confirm"
    /\ \/ /\ disk = seen
          /\ base' = disk /\ phase' = "start" /\ seen' = Nothing
       \/ disk # seen /\ Compare /\ UNCHANGED base
    /\ UNCHANGED <<workspace, progress, ok, journal, context, modified, tracker,
                   obligation, history>>

\* The person refuses, nobody can be asked, or the task is cancelled meanwhile.
TurnAway ==
    /\ phase \in {"confirm", "start"}
    /\ phase' = "idle" /\ seen' = Nothing /\ ok' = FALSE
    /\ UNCHANGED <<workspace, base, progress, journal, context, modified, tracker,
                   obligation, history>>

\* The task begins with no evidence and no duty; a failure that was seen on this
\* very version stays.  With unknown effects it ends at once.
StartTask ==
    /\ phase = "start"
    /\ proofs' = {} /\ failing' = {} /\ owed' = pending
    /\ rounds' = 0 /\ recovered' = FALSE /\ ok' = FALSE
    /\ IF unknown THEN phase' = "close" /\ UNCHANGED <<required, evidence, failure>>
       ELSE /\ phase' = "running" /\ evidence' = Nothing
            /\ \E s \in Capture : /\ required' = (failure # Nothing /\ s = Nothing)
                                  /\ failure' = FailureAt(s)
    /\ UNCHANGED <<workspace, base, seen, tasks, journal, unknown, modified, tracker,
                   obligation>>
-----------------------------------------------------------------------------
(***************************************************************************)
(* The tools of a task                                                     *)
(***************************************************************************)
Call == phase = "running" /\ rounds < MaxRounds /\ rounds' = rounds + 1

\* _journal_before_is_continuous: the file is as this task left it.
Continuous(p) == last[p] \in {Nothing, disk[p]}

Record(p, c) ==
    /\ first' = IF last[p] = Nothing THEN [first EXCEPT ![p] = disk[p]] ELSE first
    /\ last' = [last EXCEPT ![p] = c]
    /\ modified' = modified \cup {p}

\* A confirmed write: the old evidence and the old failure are void, and what
\* was checked is stale.
Write(p, c) ==
    /\ Call /\ Continuous(p) /\ c # disk[p]
    /\ disk' = [disk EXCEPT ![p] = c]
    /\ Record(p, c)
    /\ required' = TRUE /\ evidence' = Nothing /\ failure' = Nothing
    /\ stale' = stale \cup Checked
    /\ UNCHANGED <<edits, base, phase, seen, tasks, recovered, ok, tainted, unknown,
                   records, unresolved, obligation, history>>

\* A write whose outcome could not be read back.
WriteUncertain(p, c) ==
    /\ Call /\ Continuous(p) /\ c # disk[p]
    /\ disk' \in {disk, [disk EXCEPT ![p] = c]}
    /\ Record(p, c)
    /\ tainted' = tainted \cup {p}
    /\ LoseTrack
    /\ UNCHANGED <<edits, base, tasks, recovered, failure, records, unresolved,
                   obligation, history>>

\* A write that finds another file than the task had left: nothing is written.
WriteRefused(p) ==
    /\ Call /\ ~Continuous(p)
    /\ tainted' = tainted \cup {p} /\ modified' = modified \cup {p}
    /\ LoseTrack
    /\ UNCHANGED <<workspace, base, tasks, recovered, first, last, failure, records,
                   unresolved, obligation, history>>

\* run_command scans before it starts the process.  Which command it is matters
\* only when it ends.
BeginCommand ==
    /\ Call
    /\ seen' \in Capture /\ phase' = "command"
    /\ UNCHANGED <<workspace, base, tasks, recovered, ok, journal, context, modified,
                   tracker, obligation, history>>

\* The process could not be started.
NotStarted ==
    /\ phase = "command"
    /\ phase' = "running" /\ seen' = Nothing
    /\ UNCHANGED <<workspace, base, progress, ok, journal, context, modified, tracker,
                   obligation, history>>

\* observe of the tracker, with its bound; the mutant forgets a failure with its
\* record.
EvictFailure(r) ==
    LET all == Append(records, r) IN
    /\ records' = IF Len(all) > MaxRecords THEN Tail(all) ELSE all
    /\ stale' = stale \ {r.check}
    /\ unresolved' =
         (IF r.result = "fail" THEN unresolved \cup {r.check}
          ELSE IF r.result = "pass" THEN unresolved \ {r.check} ELSE unresolved)
         \ (IF Len(all) > MaxRecords THEN {Head(all).check} \ {r.check} ELSE {})

Observe(r) ==
    LET all == Append(records, r) IN
    /\ records' = IF Len(all) > MaxRecords THEN Tail(all) ELSE all
    /\ stale' = stale \ {r.check}
    /\ unresolved' = IF r.result = "fail" THEN unresolved \cup {r.check}
                     ELSE IF r.result = "pass" THEN unresolved \ {r.check}
                     ELSE unresolved

\* The workspace stood still.  A hollow success (no test run, or a filter) is a
\* record and nothing else; only a check gives evidence.
EndStable(c, result) ==
    LET r == [check |-> c, result |-> result, at |-> seen] IN
    /\ phase = "command" /\ seen = disk
    /\ result = "hollow" => Targets[c] # {}
    /\ Observe(r)
    /\ failing' = IF result = "fail" THEN failing \cup {c}
                  ELSE IF result = "pass" THEN failing \ {c} ELSE failing
    /\ proofs' = IF result = "pass" THEN proofs \cup {[check |-> c, at |-> seen]}
                 ELSE proofs
    /\ IF Targets[c] = {} \/ result = "hollow" THEN UNCHANGED <<evidence, failure>>
       ELSE IF result = "pass" THEN evidence' = seen /\ failure' = FailureAt(seen)
       ELSE evidence' = Nothing /\ failure' = seen
    /\ phase' = "running" /\ seen' = Nothing
    /\ UNCHANGED <<workspace, base, progress, ok, journal, required, unknown, modified,
                   obligation, owed>>

\* The workspace changed under the command, a scan was given up, or the process
\* ran out of its time or output, or was not confirmed to have ended: the effects
\* are unknown.  Its record is left
\* out, for nothing reads the records of a task that cannot succeed.
EndUnstable ==
    /\ phase = "command"
    /\ LoseTrack
    /\ failure' \in {failure, FailureAt(seen)}
    /\ UNCHANGED <<workspace, base, progress, journal, modified, records, unresolved,
                   obligation, history>>
-----------------------------------------------------------------------------
(***************************************************************************)
(* The end of the agent's turn                                             *)
(***************************************************************************)
\* current_verification_satisfied; the mutant takes any check that passed.
SatisfiedByAny(outdated, s) ==
    /\ s # Nothing /\ evidence = s /\ FailureAt(s) = Nothing /\ unresolved = {}
    /\ \E r \in Current(outdated, s) : Passes(r)

Satisfied(outdated, s) ==
    /\ s # Nothing /\ evidence = s /\ FailureAt(s) = Nothing /\ unresolved = {}
    /\ \E r \in Current(outdated, s) : Passes(r)
    /\ Touched \subseteq Covered(Current(outdated, s))

\* The report is stale, or nothing in it holds for the workspace as scanned.
Outdated(outdated, s) ==
    \/ Status(outdated) = "stale"
    \/ outdated # {} /\ (s = Nothing \/ Current(outdated, s) = {})

\* assess_finish says why one more try may help: a check is missing, or one that
\* failed can be run again.
Recoverable(outdated, s) ==
    /\ required \/ Outdated(outdated, s)
    /\ s # Nothing /\ ~legacy
    /\ ~(required /\ evidence \notin {Nothing, s})
    /\ \/ /\ Status(outdated) \in {"unverified", "observed"} /\ FailureAt(s) = Nothing
          /\ required => ~Satisfied(outdated, s)
          /\ ~(Touched \subseteq Covered(Current(outdated, s)))
       \/ /\ unresolved # {}
          /\ \E r \in Current(outdated, s) :
               Targets[r.check] # {} /\ r.result \in {"pass", "fail"}

\* The finish is judged by a scan s: what it contradicts is stale from now on.
\* One that claims no completion, or is cancelled, is judged all the same.
Judge(s, outdated, claimed) ==
    LET satisfied == required /\ Satisfied(outdated, s) /\ ~Outdated(outdated, s)
        completed == /\ claimed /\ Status(outdated) # "stale"
                     /\ satisfied \/ ~(required \/ Outdated(outdated, s))
    IN
    /\ stale' = outdated
    /\ required' = (required \/ Outdated(outdated, s))
    /\ failure' = IF required THEN FailureAt(s) ELSE failure
    /\ evidence' = IF required' /\ ~satisfied THEN Nothing ELSE evidence
    /\ IF /\ claimed /\ ~completed /\ Recoverable(outdated, s)
          /\ ~recovered /\ rounds' < MaxRounds
       THEN recovered' = TRUE /\ UNCHANGED <<phase, ok>>
       ELSE phase' = "seal" /\ ok' = completed /\ UNCHANGED recovered

\* finish.  It is scanned for when there is a duty or a record (reconcile_snapshot).
Finish ==
    /\ Call
    /\ \E s \in IF required \/ Latest # {} THEN Capture ELSE {Nothing},
          claimed \in BOOLEAN :
         Judge(s, stale \cup {r.check : r \in {r \in Latest : r.at # s}}, claimed)
    /\ UNCHANGED <<workspace, base, seen, tasks, journal, unknown, modified, records,
                   unresolved, obligation, history>>

\* Every other end of the turn.  A cancelled one, or one that could not clean
\* up, has no evidence.
GiveUp ==
    /\ phase = "running"
    /\ \/ UNCHANGED <<evidence, required>>
       \/ evidence' = Nothing /\ required' = (required \/ evidence # Nothing)
    /\ phase' = "seal" /\ ok' = FALSE
    /\ UNCHANGED <<workspace, base, seen, progress, journal, failure, unknown, modified,
                   tracker, obligation, history>>

\* An exception leaves the turn: the effects are added to the obligation, and
\* nothing is lifted.  Out of a command it leaves unknown effects.
Raise ==
    /\ phase \in {"running", "command"}
    /\ unknown' = (phase = "command")
    /\ \/ phase = "running" /\ UNCHANGED <<evidence, required>>
       \/ evidence' = Nothing /\ required' = TRUE
    /\ pending' = pending \cup Effects
    /\ phase' = "raised" /\ seen' = Nothing /\ ok' = FALSE
    /\ UNCHANGED <<workspace, base, progress, journal, failure, modified, tracker,
                   legacy, history>>
-----------------------------------------------------------------------------
(***************************************************************************)
(* The runtime's end of the task                                           *)
(***************************************************************************)
\* The evidence holds for the runtime's own scan s, and nothing speaks against it.
Trusted(s) ==
    s # Nothing /\ evidence = s /\ failure = Nothing /\ unresolved = {}

\* The records that lift an obligation.
Lifting(s) == IF Trusted(s) THEN {r \in Current(stale, s) : Passes(r)} ELSE {}

\* Mutant of Seal: any passed check of the task lifts what it covers.
SealStale ==
    /\ phase = "seal"
    /\ \E s \in IF evidence # Nothing THEN Capture ELSE {Nothing},
          cancelled \in BOOLEAN :
         LET needed == required \/ evidence \notin {Nothing, s}
             lifting == {r \in Latest : Passes(r)} IN
         /\ required' = needed
         /\ evidence' = IF cancelled \/ evidence # s \/ (needed /\ ~Trusted(s))
                        THEN Nothing ELSE evidence
         /\ ok' = (ok /\ ~cancelled /\ ~unknown /\ (needed => Trusted(s)))
         /\ pending' = (pending \cup Effects) \ Covered(lifting)
         /\ legacy' = (legacy /\ ~\E r \in lifting : r.check \in Whole)
    /\ phase' = "close"
    /\ UNCHANGED <<workspace, base, seen, progress, journal, failure, unknown, modified,
                   tracker, history>>

\* The rest of _run_task_locked, _merge_verification_obligation in it, and
\* _commit_task_outcome, which reads the cancellation for the last time.
Seal ==
    /\ phase = "seal"
    /\ \E s \in IF evidence # Nothing THEN Capture ELSE {Nothing},
          cancelled \in BOOLEAN :
         LET needed == required \/ evidence \notin {Nothing, s} IN
         /\ required' = needed
         /\ evidence' = IF cancelled \/ evidence # s \/ (needed /\ ~Trusted(s))
                        THEN Nothing ELSE evidence
         /\ ok' = (ok /\ ~cancelled /\ ~unknown /\ (needed => Trusted(s)))
         /\ pending' = (pending \cup Effects) \ Covered(Lifting(s))
         /\ legacy' = (legacy /\ ~\E r \in Lifting(s) : r.check \in Whole)
    /\ phase' = "close"
    /\ UNCHANGED <<workspace, base, seen, progress, journal, failure, unknown, modified,
                   tracker, history>>

\* The journal and the tracker end with the task.
Forget ==
    /\ first' = [p \in Paths |-> Nothing] /\ last' = [p \in Paths |-> Nothing]
    /\ tainted' = {}
    /\ records' = <<>> /\ stale' = {} /\ unresolved' = {}
    /\ required' = FALSE /\ rounds' = 0 /\ recovered' = FALSE

\* task_changes_match_baselines: what differs is what this task has written.
\* The mutant does not ask who changed the other paths.
AttributableInPart(s) ==
    /\ s # Nothing /\ tainted = {}
    /\ \A p \in Net : base[p] = first[p] /\ s[p] = last[p]

Attributable(s) ==
    /\ s # Nothing /\ tainted = {}
    /\ \A p \in Net : base[p] = first[p] /\ s[p] = last[p]
    /\ \A p \in Paths \ Net : base[p] = s[p]

\* _finalize_workspace_task.
CloseTask ==
    /\ phase = "close"
    /\ \E s \in Capture :
         \/ /\ Attributable(s) /\ (s = base \/ ok)
            /\ base' = s /\ phase' = "idle"
            /\ UNCHANGED ok
         \/ /\ ~(Attributable(s) /\ (s = base \/ ok))
            /\ phase' = "revoke" /\ ok' = FALSE
            /\ UNCHANGED base
    /\ Forget
    /\ UNCHANGED <<workspace, seen, tasks, evidence, failure, unknown, modified,
                   obligation, history>>

\* _finalize_workspace_exception: only a workspace without any change is settled.
CloseRaised ==
    /\ phase = "raised"
    /\ \E s \in Capture : phase' = IF s = base THEN "idle" ELSE "revoke"
    /\ Forget
    /\ UNCHANGED <<workspace, base, seen, tasks, ok, evidence, failure, unknown,
                   modified, obligation, history>>

\* The invalidation scans on its own.
RevokeEvidence ==
    /\ phase = "revoke"
    /\ \E s \in Capture :
         /\ Revoke(s)
         /\ IF Restores(s)
            THEN pending' = modified /\ legacy' = (modified = {})
            ELSE UNCHANGED obligation
    /\ phase' = "idle"
    /\ UNCHANGED <<workspace, base, seen, progress, ok, journal, required, unknown,
                   modified, tracker, history>>

\* /clear, confirmed: the obligation stays.
ClearSession ==
    /\ phase = "idle"
    /\ unknown' = FALSE /\ evidence' = Nothing /\ failure' = Nothing
    /\ UNCHANGED <<workspace, base, phase, seen, progress, ok, journal, required,
                   modified, tracker, obligation, history>>

VerificationNext ==
    \/ Edit
    \/ EnterGate \/ ObserveChange \/ Confirm \/ TurnAway \/ StartTask
    \/ \E p \in Paths : WriteRefused(p) \/ \E c \in Contents : Write(p, c) \/ WriteUncertain(p, c)
    \/ BeginCommand \/ NotStarted \/ EndUnstable
    \/ \E c \in Checks, result \in {"pass", "fail", "hollow"} : EndStable(c, result)
    \/ Finish \/ GiveUp \/ Raise
    \/ Seal \/ CloseTask \/ CloseRaised \/ RevokeEvidence \/ ClearSession

VerificationSpec == VerificationInit /\ [][VerificationNext]_verificationVars
-----------------------------------------------------------------------------
(***************************************************************************)
(* Properties                                                              *)
(***************************************************************************)
\* A success of a task that wrote rests on checks that passed in this task, on
\* one snapshot, that of the runtime's last look at the evidence, and that
\* together cover every path it wrote (README.md:497-500).
SuccessHasEvidence ==
    phase = "close" /\ ok => \A p \in Touched :
        \E pr \in proofs : pr.at = evidence /\ p \in Targets[pr.check]

\* The last word of each check counts, however many records came after it: no
\* task that wrote succeeds after a check whose last conclusive run failed.
LastWordOfEachCheck ==
    phase = "close" /\ ok /\ Touched # {} => failing = {}

\* A path leaves the obligation only by a check of this task that covers it and
\* passed on the workspace as it stands; the unknown past only by a check of the
\* whole workspace.
LiftedByCheck ==
    [][/\ \A p \in pending \ pending' :
            \E pr \in proofs : pr.at = disk /\ p \in Targets[pr.check]
       /\ legacy /\ ~legacy' =>
            \E pr \in proofs : pr.at = disk /\ pr.check \in Whole]_verificationVars

\* The baseline takes no contents unaccounted for: a path in it changes because
\* a person saw the change and it is owed a check, or because this task wrote
\* just these contents and a check that covers the path passed meanwhile.
AcceptedIsAccountedFor ==
    [][\A p \in Differing(base, base') :
         \/ p \in pending'
         \/ last[p] = base'[p] /\ \E pr \in proofs : p \in Targets[pr.check]]_verificationVars

\* What a task that failed has lifted is back, unless the contents that remain
\* are those it checked: README.md:499 lifts a pending path only by a check for
\* which the final snapshot is valid.
FailureLiftsNothing ==
    phase = "idle" /\ ~ok /\ disk = base =>
        \A p \in owed \ pending :
            legacy \/ \E pr \in proofs : p \in Targets[pr.check] /\ pr.at[p] = base[p]
=============================================================================
