--------------------------- MODULE ProgressGuard ---------------------------
(***************************************************************************)
(* The guard against a task that gets nowhere (engine/progress.py) and what*)
(* it is shown by a batch of calls (engine/tool_batch.py): after a call    *)
(* that only read, or that failed and may be tried another way, the        *)
(* workspace is scanned and the observation is compared with the last ones.*)
(* The scan is taken after the call: others may change files in between.   *)
(* Arguments, results and contents are compared only by their digests, so  *)
(* a call is its tool with its arguments, and what it brings is decided by *)
(* the contents it ran on.                                                 *)
(***************************************************************************)
EXTENDS Naturals, FiniteSets, Sequences

CONSTANTS
    Reads,          \* calls that only read
    Checks,         \* commands that are checks
    Tools,          \* other calls that can fail, such as one that reads
    Contents,       \* contents of the workspace
    Unseen,         \* the state of a scan that was not complete
    Window,         \* observations kept, MAX_PROGRESS_OBSERVATIONS
    Plans           \* how often each thing happens in one task

Calls == Reads \cup Checks \cup Tools
Things == {"reads", "checks", "failures", "changes", "answers", "blind", "outside"}

ASSUME GuardAssumption ==
    /\ Window \in Nat \ {0}
    /\ Unseen \notin Contents
    /\ Plans \subseteq [Things -> Nat]

VARIABLES
    disk,           \* what the workspace holds
    phase,          \* where the task is
    pending,        \* the call whose result waits for its scan
    window,         \* _observations
    epoch,          \* _read_epoch
    left,           \* what may still happen in this task
    log             \* history: every observation, change and answer of the task

guardVars == <<disk, phase, pending, window, epoch, left, log>>

States == Contents \cup {Unseen}
ObservedKinds == {"read", "failure"}
Fingerprints == [kind : ObservedKinds, call : Calls, result : Contents]
Observations == [kind : ObservedKinds, call : Calls, result : Contents, state : States, epoch : Nat]
Records ==
    [kind : ObservedKinds, call : Calls, result : Contents, state : States,
     said : {"continue", "warn", "stop"}] \cup [kind : {"change", "answer"}]
Silence == [kind |-> "none"]

GuardTypes ==
    /\ disk \in Contents
    /\ phase \in {"running", "scanning", "stopped", "over"}
    /\ pending \in Fingerprints \cup {Silence} /\ (phase = "scanning" <=> pending # Silence)
    /\ window \in Seq(Observations) /\ Len(window) <= Window
    /\ log \in Seq(Records)
    /\ epoch \in Nat /\ left \in [Things -> Nat]

Fresh ==
    /\ phase = "running" /\ pending = Silence /\ window = <<>> /\ epoch = 0
    /\ left \in Plans /\ log = <<>>

GuardInit == disk \in Contents /\ Fresh

Uses(thing) == left[thing] > 0 /\ left' = [left EXCEPT ![thing] = @ - 1]

-----------------------------------------------------------------------------
(* What is remembered *)

Appended(o) == Append(IF Len(window) < Window THEN window ELSE Tail(window), o)

Seen(o) == o.state # Unseen

Alike(o, p) == o.kind = p.kind /\ o.call = p.call /\ o.result = p.result /\ o.state = p.state

\* The observations of w that are complete and say the same as o.
SameFailures(w, o) == {i \in DOMAIN w : Seen(w[i]) /\ Alike(w[i], o)}
SameReads(w, o) == {i \in SameFailures(w, o) : w[i].epoch = o.epoch}

\* Where the check of o failed.
CheckFailures(w, o) ==
    {i \in DOMAIN w : Seen(w[i]) /\ w[i].kind = "failure" /\ w[i].call = o.call}

\* Those whose state is not that of the failure before: what is left of the states
\* when one that comes again at once is left out.
Turns(w, o) ==
    LET failed == CheckFailures(w, o)
    IN  {i \in failed : \A j \in failed :
            j < i /\ failed \cap (j + 1)..(i - 1) = {} => w[j].state # w[i].state}

\* The last five of them go to and fro.
Oscillates(w, o) ==
    /\ o.call \in Checks
    /\ \E t \in [1..5 -> Turns(w, o)] :
        /\ \A k \in 1..4 : t[k] < t[k + 1]
        /\ \A i \in Turns(w, o) : i < t[1] \/ \E k \in 1..5 : i = t[k]
        /\ \A k \in 1..3 : w[t[k]].state = w[t[k + 2]].state
        /\ w[t[1]].state # w[t[2]].state

Decision(w, o) ==
    LET alike == Cardinality(IF o.kind = "read" THEN SameReads(w, o) ELSE SameFailures(w, o))
        limit == IF o.kind = "read" THEN 4 ELSE 3
        circling == o.kind = "failure" /\ Oscillates(w, o)
    IN  IF ~Seen(o) THEN "continue"
        ELSE IF circling \/ alike >= limit THEN "stop"
        ELSE IF alike = 2 THEN "warn"
        ELSE "continue"

\* Mutants: an answer wipes out what was seen; a change does not begin new reads.
ForgetsAll == epoch' = epoch + 1 /\ window' = <<>>
KeepsEpoch == UNCHANGED <<epoch, window>>

NoteUserAnswer == epoch' = epoch + 1 /\ UNCHANGED window
NoteWorkspaceChange == epoch' = epoch + 1 /\ UNCHANGED window

-----------------------------------------------------------------------------
(* What happens in a task *)

\* What of a result is compared: which call it was and what came out.
Fingerprint(kind, call) == [kind |-> kind, call |-> call, result |-> disk]

\* A call has run and has to be looked at: it read, or it can be tried another way.
Brings(kind, call) ==
    /\ phase = "running" /\ phase' = "scanning"
    /\ pending' = Fingerprint(kind, call)
    /\ UNCHANGED <<disk, window, epoch, log>>

ReadsSomething == Uses("reads") /\ \E c \in Reads : Brings("read", c)
CheckFails == Uses("checks") /\ \E c \in Checks : Brings("failure", c)
ToolFails == Uses("failures") /\ \E c \in Tools : Brings("failure", c)

\* A call that succeeded has changed files, as the ledger confirms.
ChangesFiles ==
    /\ phase = "running" /\ Uses("changes")
    /\ disk' \in Contents \ {disk}
    /\ NoteWorkspaceChange
    /\ log' = Append(log, [kind |-> "change"])
    /\ UNCHANGED <<phase, pending>>

IsAnswered ==
    /\ phase = "running" /\ Uses("answers")
    /\ NoteUserAnswer
    /\ log' = Append(log, [kind |-> "answer"])
    /\ UNCHANGED <<disk, phase, pending>>

\* Somebody else, or a command that fails, changes files.
ChangeOutside ==
    /\ phase \in {"running", "scanning"} /\ Uses("outside")
    /\ disk' \in Contents \ {disk}
    /\ UNCHANGED <<phase, pending, window, epoch, log>>

\* What the scan of the workspace, complete or not, makes of the call.
Observation(state) ==
    [kind |-> pending.kind, call |-> pending.call, result |-> pending.result,
     state |-> state, epoch |-> epoch]

\* What the guard says to it is recorded; a task whose record fails is over.
Observe(state) ==
    /\ phase = "scanning"
    /\ LET o == Observation(state)
           says == Decision(Appended(o), o)
       IN  /\ window' = Appended(o)
           /\ log' = Append(log, [kind |-> o.kind, call |-> o.call, result |-> o.result,
                                  state |-> state, said |-> says])
           /\ \/ says = "stop" /\ phase' = "stopped"
              \/ says # "stop" /\ phase' = "running"
              \/ says # "continue" /\ phase' = "over"
    /\ pending' = Silence
    /\ UNCHANGED <<disk, epoch>>

ScanAll == Observe(disk) /\ UNCHANGED left
ScanPart == Observe(Unseen) /\ Uses("blind")

\* The task is cancelled, before a call or while it is scanned, or ends.
EndsTask ==
    /\ phase \in {"running", "scanning"} /\ phase' = "over" /\ pending' = Silence
    /\ UNCHANGED <<disk, window, epoch, left, log>>

\* The next task has a guard of its own.
NewTask ==
    /\ phase \in {"stopped", "over"} /\ phase' = "running"
    /\ window' = <<>> /\ epoch' = 0 /\ left' \in Plans /\ log' = <<>>
    /\ UNCHANGED <<disk, pending>>

GuardNext ==
    \/ ReadsSomething \/ CheckFails \/ ToolFails \/ ChangesFiles \/ IsAnswered
    \/ ChangeOutside \/ ScanAll \/ ScanPart \/ EndsTask \/ NewTask

GuardSpec == GuardInit /\ [][GuardNext]_guardVars

-----------------------------------------------------------------------------
(* Properties *)

\* The observations in the history, and the last Window of them.
Noticed == {i \in DOMAIN log : log[i].kind \in ObservedKinds}
Recent == {i \in Noticed : Cardinality({j \in Noticed : j > i}) < Window}

\* They say the same, and of two readings, the task had no change and no answer between.
Same(i, j) == log[i].state # Unseen /\ Alike(log[i], log[j])
Untouched(i, j) == \A k \in i..j : log[k].kind \in ObservedKinds
Repeats(i, j) == Same(i, j) /\ (log[j].kind = "read" => Untouched(i, j))

\* The same failure in the same state three times, whatever was done in between.
FailedThrice ==
    \E i, j, k \in Recent :
        i < j /\ j < k /\ log[k].kind = "failure" /\ Same(i, k) /\ Same(j, k)

\* The same reading four times, with no change of the task's and no answer between.
ReadInVain ==
    \E h, i, j, k \in Recent :
        /\ h < i /\ i < j /\ j < k /\ log[k].kind = "read"
        /\ Same(h, k) /\ Same(i, k) /\ Same(j, k) /\ Untouched(h, k)

\* A check that failed in one state, in another, and so on twice around, and
\* meanwhile in no third one.
GoesRound ==
    \E c \in Checks :
        LET failed == {i \in Recent : log[i].kind = "failure" /\ log[i].call = c /\ log[i].state # Unseen}
        IN  \E p \in [1..5 -> failed] :
                /\ \A k \in 1..4 : p[k] < p[k + 1]
                /\ \A k \in 1..3 : log[p[k]].state = log[p[k + 2]].state
                /\ log[p[1]].state # log[p[2]].state
                /\ \A i \in failed \cap p[1]..p[5] :
                        log[i].state \in {log[p[1]].state, log[p[2]].state}

\* The model was told before that it repeats itself, if only by an observation that the
\* guard has forgotten since.
Announced ==
    LET i == Len(log)
    IN  \E j \in Noticed \ {i} : log[j].said = "warn" /\ Repeats(j, i)

\* Judged by all that happened in the task, not by what the guard kept: a task is
\* stopped when, and only when, it got nowhere, and one that repeats itself was
\* warned.  Changes, answers, blind scans and other calls neither hide a
\* repetition of failures nor make one of readings.
StopsWhenStuck ==
    /\ phase = "stopped" => GoesRound \/ ((FailedThrice \/ ReadInVain) /\ Announced)
    /\ phase \in {"running", "scanning"} => ~(GoesRound \/ FailedThrice \/ ReadInVain)
=============================================================================
