----------------------------- MODULE UserWaits -----------------------------
(***************************************************************************)
(* How a thread of the terminal interface waits for a person: a tool of a  *)
(* task, or a command beside it, asks for an approval                      *)
(* (presentation/approval_wait.py), or the task asks a question            *)
(* (presentation/clarification_wait.py, tools/clarification.py).  The      *)
(* thread posts the request to the interface's event loop, which shows a   *)
(* modal screen, and polls a one-shot result until a decision, the         *)
(* cancellation of its task or its deadline ends the wait.  The loop runs  *)
(* one callback at a time, but a cancel or a quit it carries out is not    *)
(* atomic for the threads.  The question tool scans the workspace around   *)
(* the wait and adopts an answer only for an unchanged one.                *)
(***************************************************************************)
EXTENDS Naturals, FiniteSets, Sequences

CONSTANTS
    Agent,          \* the thread that runs tasks
    Beside,         \* the thread of a command that only asks for an approval
    MaxTasks,       \* bound on tasks
    MaxWaits,       \* bound on waits
    MaxEdits,       \* bound on edits of the workspace by others
    Contents,       \* what can be in the workspace
    Original        \* what is in it at first

ASSUME OriginalAssumption == Original \in Contents

VARIABLES
    tasks,          \* the tasks started so far
    running,        \* the task the agent thread runs, 0 for none
    cancelled,      \* the tasks whose token is cancelled
    closed,         \* what no longer takes requests: "approval", "question"
    pending,        \* the registered waits that no close has taken over
    waits,          \* every wait made, in order
    thread,         \* what each thread does: its wait and its place in the call
    stack,          \* the modal screens, the one on top last
    ui,             \* the handler the event loop is in, and the waits it took
    workspace       \* the contents the workspace has had, the present ones last

vars == <<tasks, running, cancelled, closed, pending, waits, thread, stack, ui, workspace>>

Threads == {Agent, Beside}
Ids == 1..Len(waits)
NoTask == 0     \* the token of a command beside no task: nobody cancels it

Idle == [at |-> "idle", wait |-> 0]
Top(w) == stack # <<>> /\ stack[Len(stack)] = w
Popped == SubSeq(stack, 1, Len(stack) - 1)

(* The version of the workspace: a version is one of its contents in time. *)
Now == Len(workspace)

TypeOK ==
    /\ tasks \in 0..MaxTasks /\ running \in 0..tasks /\ cancelled \subseteq 1..tasks
    /\ closed \subseteq {"approval", "question"} /\ pending \subseteq Ids
    /\ \A w \in Ids :
          /\ waits[w].kind \in {"approval", "question"}
          /\ waits[w].token \in 0..MaxTasks
          /\ waits[w].ask \in {"posted", "scheduled", "shown", "dismissed", "gone"}
          /\ waits[w].value \in {"none", "yes", "no", "cancelled", "timed out"}
          /\ waits[w].result \in {"none", "yes", "no", "cancelled", "timed out", "unavailable"}
          /\ waits[w].verdict \in {"none", "yes", "no"}
          /\ waits[w].first \in {"none", "person", "other"}
    /\ \A t \in Threads :
          /\ thread[t].wait \in 0..Len(waits)
          /\ thread[t].at \in {"idle", "posting", "waiting", "expired", "leaving",
                               "dismissing", "answered", "scanned"}
    /\ ui.at \in {"loop", "approvals", "questions", "shutdown", "cancelling", "exited"}
    /\ \A i \in 1..Len(stack) : stack[i] \in Ids
    /\ workspace \in Seq(Contents) /\ Now \in 1..(MaxEdits + 1)

Init ==
    /\ tasks = 0 /\ running = 0 /\ cancelled = {}
    /\ closed = {} /\ pending = {} /\ waits = <<>>
    /\ thread = [t \in Threads |-> Idle]
    /\ stack = <<>> /\ ui = [at |-> "loop", taken |-> {}]
    /\ workspace = <<Original>>

-----------------------------------------------------------------------------
(* The one-shot result (approval_wait.py, clarification_wait.py). *)

(* A late decision replaces the first one. *)
ResolveLast(r, who, value) ==
    [r EXCEPT !.first = IF @ = "none" THEN who ELSE @, !.result = value]

(* A result is set once; "who" is a ghost: who tried first. *)
Resolve(r, who, value) ==
    [r EXCEPT !.first = IF @ = "none" THEN who ELSE @,
              !.result = IF @ = "none" THEN value ELSE @]

(* What ends a wait that nobody decided: approvals are refused. *)
Close(r) == Resolve(r, "other", IF r.kind = "approval" THEN "no" ELSE "unavailable")
Cancel(r) == Resolve(r, "other", IF r.kind = "approval" THEN "no" ELSE "cancelled")

TokenCancelled(r) == r.token \in cancelled

-----------------------------------------------------------------------------
(* Tasks and threads. *)

(* The coroutines that show screens belong to the default worker group: *)
(* an exclusive worker cancels them.  One that has not started never    *)
(* resolves its wait; one that awaits a screen refuses it.              *)
ExclusiveCancels(ws) ==
    [w \in DOMAIN ws |->
        CASE ws[w].ask = "scheduled" -> [ws[w] EXCEPT !.ask = "gone"]
          [] ws[w].ask \in {"shown", "dismissed"} -> [Close(ws[w]) EXCEPT !.ask = "gone", !.value = "none"]
          [] OTHER -> ws[w]]

(* A person can submit a line only while no modal screen covers the input. *)
InputReachable == ui.at = "loop" /\ stack = <<>>

StartTask ==
    /\ InputReachable /\ thread[Agent] = Idle /\ running = 0 /\ tasks < MaxTasks
    /\ tasks' = tasks + 1 /\ running' = tasks + 1
    /\ waits' = ExclusiveCancels(waits)
    /\ UNCHANGED <<cancelled, closed, pending, thread, stack, ui, workspace>>

EndTask ==
    /\ running # 0 /\ thread[Agent] = Idle
    /\ running' = 0
    /\ UNCHANGED <<tasks, cancelled, closed, pending, waits, thread, stack, ui, workspace>>

NewWait(kind) ==
    [kind |-> kind, token |-> running, ask |-> "posted", value |-> "none", result |-> "none",
     verdict |-> "none", first |-> "none",
     before |-> IF kind = "question" THEN Now ELSE 0, after |-> 0, said |-> 0]

(* What is left of a wait the thread has returned from. *)
Ended(r) == [r EXCEPT !.before = 0, !.after = 0, !.said = 0]

(* The closed flag is not looked at. *)
RegisterAnyway(t, ws, kind) ==
    /\ Len(waits) < MaxWaits
    /\ waits' = Append(ws, NewWait(kind))
    /\ pending' = pending \cup {Len(waits) + 1}
    /\ thread' = [thread EXCEPT ![t] = [at |-> "posting", wait |-> Len(waits) + 1]]

(* Registration and closing share one lock: a closed host refuses. *)
Register(t, ws, kind) ==
    /\ Len(waits) < MaxWaits
    /\ IF kind \in closed
       THEN UNCHANGED <<waits, pending, thread>>
       ELSE /\ waits' = Append(ws, NewWait(kind))
            /\ pending' = pending \cup {Len(waits) + 1}
            /\ thread' = [thread EXCEPT ![t] = [at |-> "posting", wait |-> Len(waits) + 1]]

(* A tool of the task asks for an approval, or the question tool, having *)
(* scanned the workspace, asks its question.                             *)
TaskAsks ==
    /\ running # 0 /\ thread[Agent] = Idle
    /\ \/ Register(Agent, waits, "approval")
       \/ running \notin cancelled /\ Register(Agent, waits, "question")
    /\ UNCHANGED <<tasks, running, cancelled, closed, stack, ui, workspace>>

(* A command typed beside the task starts an exclusive worker, which asks. *)
CommandAsks ==
    /\ InputReachable /\ thread[Beside] = Idle
    /\ Register(Beside, ExclusiveCancels(waits), "approval")
    /\ UNCHANGED <<tasks, running, cancelled, closed, stack, ui, workspace>>

-----------------------------------------------------------------------------
(* The event loop and the person in front of it. *)

Moves(t, place) == thread' = [thread EXCEPT ![t].at = place]

(* The posted callback runs and hands the request to a worker coroutine; *)
(* it fails when the loop has ended.                                     *)
RunRequest(t) ==
    LET w == thread[t].wait IN
    /\ thread[t].at = "posting"
    /\ \/ ui.at = "loop" /\ waits' = [waits EXCEPT ![w].ask = "scheduled"]
       \/ ui.at = "exited" /\ waits' = [waits EXCEPT ![w] = [Close(@) EXCEPT !.ask = "gone"]]
    /\ Moves(t, "waiting")
    /\ UNCHANGED <<tasks, running, cancelled, closed, pending, stack, ui, workspace>>

ShowScreen(w) ==
    /\ ui.at = "loop" /\ waits[w].ask = "scheduled"
    /\ \/ waits' = [waits EXCEPT ![w].ask = "shown"] /\ stack' = Append(stack, w)
       \/ waits' = [waits EXCEPT ![w] = [Close(@) EXCEPT !.ask = "gone"]] /\ UNCHANGED stack
    /\ UNCHANGED <<tasks, running, cancelled, closed, pending, thread, ui, workspace>>

(* The screen goes, with a value for the coroutine that awaits it. *)
Dismissed(r, value) ==
    IF r.ask = "shown" THEN [r EXCEPT !.ask = "dismissed", !.value = value] ELSE r

(* The person decides on the screen on top; a question also has a clock. *)
Decide(w) ==
    /\ ui.at = "loop" /\ Top(w)
    /\ \E value \in IF waits[w].kind = "approval" THEN {"yes", "no"}
                    ELSE {"yes", "cancelled", "timed out"} :
          waits' = [waits EXCEPT ![w] =
              LET r == Dismissed(@, value) IN
              IF r.kind = "question" /\ r.result = "none"
              THEN [r EXCEPT !.said = Now] ELSE r]
    /\ stack' = Popped
    /\ UNCHANGED <<tasks, running, cancelled, closed, pending, thread, ui, workspace>>

(* The coroutine that awaited the screen delivers what came back. *)
Deliver(w) ==
    /\ ui.at = "loop" /\ waits[w].ask = "dismissed"
    /\ waits' = [waits EXCEPT ![w] = [Resolve(@, "person", @.value) EXCEPT !.ask = "gone", !.value = "none"]]
    /\ UNCHANGED <<tasks, running, cancelled, closed, pending, thread, stack, ui, workspace>>

(* Ctrl+C: the token, then the questions; approvals see the token. *)
PersonCancels ==
    /\ ui.at = "loop" /\ running # 0 /\ running \notin cancelled
    /\ cancelled' = cancelled \cup {running}
    /\ ui' = [at |-> "cancelling", taken |-> {w \in pending : waits[w].kind = "question"}]
    /\ pending' = {w \in pending : waits[w].kind # "question"}
    /\ UNCHANGED <<tasks, running, closed, waits, thread, stack, workspace>>

(* Every wait that was taken over ends, and the question on top goes. *)
EndTaken(next) ==
    LET gone(w) == ui.at # "approvals" /\ Top(w) /\ waits[w].kind = "question" IN
    /\ waits' = [w \in DOMAIN waits |->
          LET r == IF w \in ui.taken THEN Cancel(waits[w]) ELSE waits[w] IN
          IF gone(w) THEN Dismissed(r, "cancelled") ELSE r]
    /\ stack' = IF \E w \in Ids : gone(w) THEN Popped ELSE stack
    /\ next

CancelQuestions ==
    /\ ui.at = "cancelling"
    /\ EndTaken(ui' = [at |-> "loop", taken |-> {}])
    /\ UNCHANGED <<tasks, running, cancelled, closed, pending, thread, workspace>>

TakeOver(kind, place) ==
    /\ closed' = closed \cup {kind}
    /\ ui' = [at |-> place, taken |-> {w \in pending : waits[w].kind = kind}]
    /\ pending' = {w \in pending : waits[w].kind # kind}

(* Quit, and the unmounting of the interface: approvals, questions, task. *)
Quit ==
    /\ ui.at = "loop"
    /\ TakeOver("approval", "approvals")
    /\ UNCHANGED <<tasks, running, cancelled, waits, thread, stack, workspace>>

QuitApprovals ==
    /\ ui.at = "approvals"
    /\ EndTaken(TakeOver("question", "questions"))
    /\ UNCHANGED <<tasks, running, cancelled, thread, workspace>>

QuitQuestions ==
    /\ ui.at = "questions"
    /\ EndTaken(ui' = [at |-> "shutdown", taken |-> {}])
    /\ UNCHANGED <<tasks, running, cancelled, closed, pending, thread, workspace>>

(* The running task is cancelled; the loop ends and drops its coroutines. *)
Exit ==
    /\ ui.at = "shutdown"
    /\ cancelled' = cancelled \cup ({running} \ {0})
    /\ ui' = [at |-> "exited", taken |-> {}]
    /\ waits' = ExclusiveCancels(waits) /\ stack' = <<>>
    /\ UNCHANGED <<tasks, running, closed, pending, thread, workspace>>

-----------------------------------------------------------------------------
(* The thread that waits (wait() and the callers' finally blocks). *)

Return(t, r, verdict) ==
    /\ waits' = [waits EXCEPT ![thread[t].wait] = [r EXCEPT !.verdict = verdict]]
    /\ Moves(t, "leaving")

(* The token is read first.  An approval is then refused whatever came; *)
(* a question returns what came first.                                  *)
PollToken(t) ==
    LET r == waits[thread[t].wait] IN
    /\ thread[t].at = "waiting" /\ TokenCancelled(r)
    /\ IF r.kind = "approval"
       THEN Return(t, Close(r), "no")
       ELSE LET e == Cancel(r) IN Return(t, e, IF e.result = "yes" THEN "yes" ELSE "no")
    /\ UNCHANGED <<tasks, running, cancelled, closed, pending, stack, ui, workspace>>

PollResult(t) ==
    LET r == waits[thread[t].wait] IN
    /\ thread[t].at = "waiting" /\ ~TokenCancelled(r) /\ r.result # "none"
    /\ Return(t, r, IF r.result = "yes" THEN "yes" ELSE "no")
    /\ UNCHANGED <<tasks, running, cancelled, closed, pending, stack, ui, workspace>>

(* The deadline of a wait is not looked at. *)
ExpireNever(t) == FALSE /\ UNCHANGED vars

(* No result was there when the deadline is found to have passed ... *)
Expire(t) ==
    /\ thread[t].at = "waiting" /\ waits[thread[t].wait].result = "none"
    /\ ~TokenCancelled(waits[thread[t].wait])
    /\ Moves(t, "expired")
    /\ UNCHANGED <<tasks, running, cancelled, closed, pending, waits, stack, ui, workspace>>

(* ... one may be there when the wait is ended: an approval is refused, a *)
(* question looks again.                                                  *)
GiveUp(t) ==
    LET w == thread[t].wait IN
    /\ thread[t].at = "expired"
    /\ IF waits[w].kind = "approval"
       THEN Return(t, Close(waits[w]), "no")
       ELSE /\ waits' = [waits EXCEPT ![w] = Resolve(@, "other", "timed out")]
            /\ Moves(t, "waiting")
    /\ UNCHANGED <<tasks, running, cancelled, closed, pending, stack, ui, workspace>>

(* finally: the wait is ended and forgotten; a question's screen is to go. *)
Leave(t) ==
    LET w == thread[t].wait IN
    /\ thread[t].at = "leaving"
    /\ waits' = [waits EXCEPT ![w] = Close(@)]
    /\ pending' = pending \ {w}
    /\ thread' = [thread EXCEPT ![t] = IF waits[w].kind = "approval" THEN Idle
                                       ELSE [@ EXCEPT !.at = "dismissing"]]
    /\ UNCHANGED <<tasks, running, cancelled, closed, stack, ui, workspace>>

DismissOwn(t) ==
    LET w == thread[t].wait IN
    /\ thread[t].at = "dismissing"
    /\ \/ ui.at = "loop" /\ Top(w) /\ stack' = Popped
          /\ waits' = [waits EXCEPT ![w] = Dismissed(@, "cancelled")]
       \/ ui.at \in {"loop", "exited"} /\ ~Top(w) /\ UNCHANGED <<waits, stack>>
    /\ Moves(t, "answered")
    /\ UNCHANGED <<tasks, running, cancelled, closed, pending, ui, workspace>>

(* The tool reads the token again, then scans the workspace again; an      *)
(* answer after which the scan is not complete is dropped.                *)
ScanAgain ==
    LET w == thread[Agent].wait IN
    /\ thread[Agent].at = "answered"
    /\ \E complete \in BOOLEAN :
          waits' = [waits EXCEPT ![w].after = Now,
              ![w].verdict = IF TokenCancelled(waits[w]) \/ ~complete THEN "no" ELSE @]
    /\ Moves(Agent, "scanned")
    /\ UNCHANGED <<tasks, running, cancelled, closed, pending, stack, ui, workspace>>

(* The second scan is not compared with the first. *)
AnySnapshots(r) == TRUE

(* The digests of two scans: what lay between them leaves no trace. *)
StableSnapshots(r) == workspace[r.before] = workspace[r.after]

Adopt ==
    LET w == thread[Agent].wait IN
    /\ thread[Agent].at = "scanned"
    /\ waits' = [waits EXCEPT ![w] = [Ended(waits[w]) EXCEPT !.verdict =
                    IF waits[w].verdict = "yes" /\ ~TokenCancelled(waits[w]) /\ StableSnapshots(waits[w])
                    THEN "yes" ELSE "no"]]
    /\ thread' = [thread EXCEPT ![Agent] = Idle]
    /\ UNCHANGED <<tasks, running, cancelled, closed, pending, stack, ui, workspace>>

(* Somebody else edits the workspace, or puts back what was there before. *)
(* Only the two scans of a question look at it: other edits are left out. *)
Edit ==
    /\ Now <= MaxEdits
    /\ thread[Agent].at \notin {"idle", "scanned"} /\ waits[thread[Agent].wait].kind = "question"
    /\ \E c \in Contents \ {workspace[Now]} : workspace' = Append(workspace, c)
    /\ UNCHANGED <<tasks, running, cancelled, closed, pending, waits, thread, stack, ui>>

Next ==
    \/ StartTask \/ EndTask \/ TaskAsks \/ CommandAsks \/ Edit
    \/ PersonCancels \/ CancelQuestions
    \/ Quit \/ QuitApprovals \/ QuitQuestions \/ Exit
    \/ \E w \in Ids : ShowScreen(w) \/ Decide(w) \/ Deliver(w)
    \/ \E t \in Threads :
          \/ RunRequest(t) \/ PollToken(t) \/ PollResult(t) \/ Expire(t) \/ GiveUp(t)
          \/ Leave(t) \/ DismissOwn(t)
    \/ ScanAgain \/ Adopt

(* The threads run, their clocks advance and the loop finishes a handler it *)
(* has begun; no person has to answer, and no coroutine has to show a screen. *)
Fairness ==
    /\ \A t \in Threads :
          /\ WF_vars(RunRequest(t)) /\ WF_vars(PollToken(t) \/ PollResult(t))
          /\ WF_vars(Expire(t)) /\ WF_vars(GiveUp(t))
    /\ WF_vars(CancelQuestions \/ QuitApprovals \/ QuitQuestions \/ Exit)

Spec == Init /\ [][Next]_vars
FairSpec == Spec /\ Fairness

-----------------------------------------------------------------------------
(* Properties. *)

(* An answer the task goes on with was the first thing to end the wait and *)
(* was given about the files the tool scanned before it asked; or somebody *)
(* changed the files before the person answered and put every one of them  *)
(* back after it, before the second scan, which the comparison of the two  *)
(* scans cannot tell (clarification.py: an answer given while the          *)
(* workspace changed is not used).                                         *)
PutBack(r) ==
    /\ r.before < r.said /\ r.said < r.after
    /\ workspace[r.before] = workspace[r.after]

AnswerIsCurrent ==
    [][\A w \in Ids :
           /\ thread[Agent] = [at |-> "scanned", wait |-> w]
           /\ thread'[Agent] = Idle /\ waits'[w].verdict = "yes"
           => /\ waits[w].first = "person"
              /\ workspace[waits[w].said] = workspace[waits[w].before] \/ PutBack(waits[w])]_vars

(* Nothing that comes after a timeout, a cancellation, a quit or the loss  *)
(* of the screen turns a wait into a consent: what returns "yes" was       *)
(* decided by a person before anything else ended the wait.                *)
LateIsLost ==
    \A w \in Ids : waits[w].verdict = "yes" => waits[w].first = "person"

(* Once a quit has closed a kind of request no thread is left waiting for  *)
(* one: each registered before was released, none is registered after.     *)
QuitReleases ==
    \A t \in Threads : LET w == thread[t].wait IN
        /\ thread[t].at \in {"posting", "waiting"}
        /\ waits[w].kind \in closed /\ w \notin ui.taken
        => waits[w].result # "none"

(* Every wait ends, though the person never answers and the screen of a   *)
(* request may never be shown.                                            *)
EveryWaitEnds ==
    \A t \in Threads :
        (thread[t].at \in {"posting", "waiting", "expired"})
            ~> (thread[t].at \notin {"posting", "waiting", "expired"})
=============================================================================
