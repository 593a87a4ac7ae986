------------------------------ MODULE AgentLoop ------------------------------
(***************************************************************************)
(* The agent's loop and the conversation it leaves behind.                 *)
(*                                                                         *)
(* A task asks the model in rounds.  An answer is a batch of tool calls,   *)
(* run one after the other, or text that has to be corrected.  There are   *)
(* many ways out of a round; whichever is taken, every call has one result *)
(* before the model is asked again, and the messages of the task are a     *)
(* closed block: a delivered task, or one that ends with a notice that it  *)
(* did not succeed.  Memory is built from closed blocks only: a gap would  *)
(* hold the watermark of the session for good.                             *)
(*                                                                         *)
(* A conversation is cancelled from another thread at any moment, a        *)
(* callback or an audit record fails at any moment, and the runtime may    *)
(* reject what the agent delivered.                                        *)
(*                                                                         *)
(* Left out: what the tools do and what a finish is judged by              *)
(* (TaskVerification), the summaries of the memory and the messages that a *)
(* compaction drops, messages with the role of the system.  A message has  *)
(* its position as number: /clear keeps the next number of the session and *)
(* sets the watermark to zero, which no comparison tells apart from        *)
(* numbers that start again.                                               *)
(***************************************************************************)
EXTENDS Naturals, Sequences

CONSTANTS MaxRounds,      \* max_rounds of the configuration
          MaxCalls,       \* bound on the calls of one answer
          MissingLimit,   \* MAX_NATIVE_MISSING_TOOL_RESPONSES, 3
          QuestionLimit,  \* questions of a task that count, 2
          MaxTasks,       \* bound on the tasks
          MaxHistory      \* bound on the history a task begins on

ASSUME BoundsAssumption ==
    /\ MaxRounds \in Nat \ {0} /\ MaxCalls \in Nat \ {0} /\ MissingLimit \in Nat \ {0}
    /\ QuestionLimit \in Nat /\ MaxTasks \in Nat /\ MaxHistory \in Nat

VARIABLES
    history, latest,  \* messages and latest_completed_task_seq of the session
    unknown,          \* unknown_effects of the session
    tasks,            \* how many tasks were begun; the last one's task_id
    outcome,          \* history: what run_task returned for each task
    pc,               \* the place in AgentRunner.run and in run_task
    draft, reached,   \* AgentRunState: the task's own messages, its watermark
    dirty,            \* AgentRunState.unknown_effects
    round, missing, questions, recoveries,
    calls, next, got, \* the batch: its calls, those answered, the last result
    ok, rollback,     \* the result given to TaskFinalizer.finish
    cancelled         \* the task's CancellationToken

session == <<history, latest, unknown, tasks, outcome>>
counters == <<missing, questions, recoveries>>
batch == <<calls, next, got>>
vars == <<session, pc, draft, reached, dirty, round, counters, batch, ok, rollback, cancelled>>

Message(kind, n) == [kind |-> kind, n |-> n, task |-> tasks]
Add(kind) == Append(draft, Message(kind, 0))

\* What the result of a call may say.  Only "ok" lets the batch go on.
Outcomes == {"ok", "replan", "fatal", "interrupted", "withdrawn", "answered", "unanswered",
             "completed", "incomplete"}
Asked == {"withdrawn", "answered", "unanswered"}
Answer(result) == CASE result = "ok" -> "done"
                    [] result \in {"answered", "completed", "incomplete"} -> "ended"
                    [] OTHER -> "failed"
Answers == {"done", "ended", "failed", "skipped"}

Init ==
    /\ history = <<>> /\ latest = 0 /\ unknown = FALSE /\ tasks = 0
    /\ outcome = [t \in 1 .. MaxTasks |-> "none"]
    /\ pc = "idle" /\ draft = <<>> /\ reached = 0 /\ dirty = FALSE
    /\ round = 0 /\ missing = 0 /\ questions = 0 /\ recoveries = 0
    /\ calls = 0 /\ next = 0 /\ got = "ok"
    /\ ok = FALSE /\ rollback = FALSE /\ cancelled = FALSE

-----------------------------------------------------------------------------
(* Closed blocks *)

\* The results of calls message i of a block follow it, one each and in order.
Answered(b, i) == \A j \in 1 .. b[i].n :
    i + j <= Len(b) /\ b[i + j].kind \in Answers /\ b[i + j].n = j

\* Result i of a block belongs to a calls message.
Belongs(b, i) ==
    b[i].n < i /\ b[i - b[i].n].kind = "calls" /\ b[i].n <= b[i - b[i].n].n

Paired(b) == \A i \in 1 .. Len(b) : /\ b[i].kind = "calls" => Answered(b, i)
                                    /\ b[i].kind \in Answers => Belongs(b, i)

Notices(b) == {i \in 1 .. Len(b) : b[i].kind = "notice"}

Closed(b) ==
    /\ b[1].kind = "task" /\ Paired(b)
    /\ \A i \in 1 .. Len(b) : b[i].kind = "text" =>
           i < Len(b) /\ b[i + 1].kind \in {"feedback", "notice"}
    /\ \/ Notices(b) = {} /\ \E i \in 1 .. Len(b) : b[i].kind = "calls"
       \/ Notices(b) = {Len(b)}

\* A block is a task message and what follows it up to the next one.
Block(h, a, b) ==
    /\ h[a].kind = "task" /\ \A i \in a + 1 .. b : h[i].kind # "task"
    /\ b = Len(h) \/ h[b + 1].kind = "task"

\* closed_task_boundary is not None: it is then the last message's number.  Only
\* the block of the current task, the last one, may hold the watermark inside.
Continuous(h, covered, current) ==
    /\ h # <<>> /\ h[1].kind = "task"
    /\ \A a \in 1 .. Len(h) : \A b \in a .. Len(h) : Block(h, a, b) =>
           /\ Closed(SubSeq(h, a, b))
           /\ b = Len(h) => h[a].task = current
           /\ a <= covered /\ covered < b => b = Len(h) /\ h[a].task = current

\* Mutant of Told: every failed closing adds a notice.
ToldAgain(success, d) == IF success THEN d ELSE Append(d, Message("notice", 0))

\* The part of close_task that adds a notice, once.
Told(success, d) ==
    IF success \/ Notices(d) # {} THEN d ELSE Append(d, Message("notice", 0))

-----------------------------------------------------------------------------
(* Ways out *)

\* finalizer.finish is next, with this result.
Exit(success, back) ==
    pc' = "finish" /\ ok' = success /\ rollback' = back

\* The task is over: nothing of its state is left.
Reset ==
    /\ pc' = "idle" /\ draft' = <<>> /\ reached' = 0 /\ dirty' = FALSE /\ round' = 0
    /\ missing' = 0 /\ questions' = 0 /\ recoveries' = 0 /\ calls' = 0 /\ next' = 0
    /\ got' = "ok" /\ ok' = FALSE /\ rollback' = FALSE /\ cancelled' = FALSE

\* The rest of the batch gets results that say skipped.
Skipped == draft \o [k \in 1 .. calls - next |-> Message("skipped", next + k)]

-----------------------------------------------------------------------------
(* Before the first round *)

Start ==
    /\ pc = "idle" /\ tasks < MaxTasks /\ Len(history) <= MaxHistory
    /\ tasks' = tasks + 1
    /\ IF unknown THEN pc' = "returned" /\ UNCHANGED <<draft, reached>>
       ELSE /\ pc' = "prepare" /\ reached' = latest
            /\ draft' = <<[Message("task", 0) EXCEPT !.task = tasks + 1]>>
    /\ UNCHANGED <<history, latest, unknown, outcome, dirty, round, counters, batch, ok,
                   rollback, cancelled>>

\* A worker left over from before makes effects unknown; the audit file, the
\* memory or the planning phase fails.
Prepare ==
    /\ pc = "prepare"
    /\ \/ dirty' = TRUE /\ Exit(FALSE, FALSE)
       \/ UNCHANGED dirty /\ Exit(FALSE, TRUE)
       \/ pc' = "round" /\ UNCHANGED <<dirty, ok, rollback>>
    /\ UNCHANGED <<session, draft, reached, round, counters, batch, cancelled>>

-----------------------------------------------------------------------------
(* A round *)

RoundsUsedUp ==
    /\ pc = "round" /\ round = MaxRounds /\ Exit(FALSE, FALSE)
    /\ UNCHANGED <<session, draft, reached, dirty, round, counters, batch, cancelled>>

StopBeforeRound ==
    /\ pc = "round" /\ round < MaxRounds /\ cancelled /\ Exit(FALSE, TRUE)
    /\ UNCHANGED <<session, draft, reached, dirty, round, counters, batch, cancelled>>

\* build_round_budget_feedback: in the first round and in the last three.
Hint(r) == r = 1 \/ MaxRounds - r + 1 <= 3

BeginRound ==
    /\ pc = "round" /\ round < MaxRounds /\ ~cancelled
    /\ round' = round + 1
    /\ draft' = IF Hint(round + 1) THEN Add("feedback") ELSE draft
    /\ \/ pc' = "request" /\ UNCHANGED <<ok, rollback>>
       \/ Exit(FALSE, TRUE)  \* the memory fails, or history would be cut silently
    /\ UNCHANGED <<session, reached, dirty, counters, batch, cancelled>>

\* Cancelled, the provider fails, or an audit record before the answer is kept.
RequestFails ==
    /\ pc = "request" /\ Exit(FALSE, TRUE)
    /\ UNCHANGED <<session, draft, reached, dirty, round, counters, batch, cancelled>>

\* Mutant of BrokenAnswer: it costs no round.
BrokenAnswerIsFree ==
    /\ pc = "request" /\ pc' = "round" /\ draft' = Add("feedback") /\ round' = round - 1
    /\ UNCHANGED <<session, reached, dirty, counters, batch, ok, rollback, cancelled>>

\* ProviderProtocolError.
BrokenAnswer ==
    /\ pc = "request" /\ pc' = "round" /\ draft' = Add("feedback")
    /\ UNCHANGED <<session, reached, dirty, round, counters, batch, ok, rollback, cancelled>>

AnswerWithCalls ==
    /\ pc = "request" /\ pc' = "call"
    /\ \E n \in 1 .. MaxCalls :
           draft' = Append(draft, Message("calls", n)) /\ calls' = n
    /\ next' = 0
    /\ UNCHANGED <<session, reached, dirty, round, counters, got, ok, rollback, cancelled>>

\* An answer with no call: text or nothing, and whether it counts as a native
\* answer that misses its tool call.  The token is read before the audit.
AnswerWithoutCalls ==
    /\ pc = "request" /\ pc' = "logged"
    /\ \E text, counts \in BOOLEAN :
        /\ missing' = IF counts THEN missing + 1 ELSE missing
        /\ draft' = (IF text THEN Add("text") ELSE draft) \o
                    (IF missing' >= MissingLimit \/ cancelled THEN <<>>
                     ELSE <<Message("feedback", 0)>>)
    /\ UNCHANGED <<session, reached, dirty, round, questions, recoveries, batch, ok, rollback,
                   cancelled>>

\* After the audit the token is read again.
AfterCorrection ==
    /\ pc = "logged"
    /\ \/ Exit(FALSE, TRUE) /\ UNCHANGED draft  \* the audit failed
       \/ cancelled /\ Exit(FALSE, TRUE) /\ UNCHANGED draft
       \/ ~cancelled /\ missing >= MissingLimit /\ draft' = Add("notice") /\ Exit(FALSE, FALSE)
       \/ ~cancelled /\ missing < MissingLimit /\ pc' = "round" /\ UNCHANGED <<draft, ok, rollback>>
    /\ UNCHANGED <<session, reached, dirty, round, counters, batch, cancelled>>

-----------------------------------------------------------------------------
(* A batch of calls *)

\* The token is read before each call; the rest is skipped.
StopBeforeCall ==
    /\ pc = "call" /\ cancelled
    /\ draft' = Skipped /\ next' = calls /\ Exit(FALSE, FALSE)
    /\ UNCHANGED <<session, reached, dirty, round, counters, calls, got, cancelled>>

RunCall ==
    /\ pc = "call" /\ ~cancelled /\ pc' = "running"
    /\ UNCHANGED <<session, draft, reached, dirty, round, counters, batch, ok, rollback, cancelled>>

\* The result of the call is applied and kept.  A question beyond the limit is
\* not asked and stays unanswered; every other one counts.  Effects may be
\* unknown whatever the result says: a worker of an earlier call can still write.
Result ==
    /\ pc = "running" /\ pc' = "ran"
    /\ \E result \in Outcomes :
        /\ got' = result
        /\ questions >= QuestionLimit => result \notin Asked \ {"unanswered"}
        /\ questions' = IF result \in Asked /\ questions < QuestionLimit
                        THEN questions + 1 ELSE questions
        /\ draft' = Append(draft, Message(Answer(result), next + 1))
    /\ next' = next + 1
    /\ dirty' \in {dirty, TRUE}
    /\ UNCHANGED <<session, reached, round, missing, recoveries, calls, ok, rollback, cancelled>>

\* Mutants of Stops: a cancelled call is followed by no results; a failed call
\* is followed by the next one.
StopsUnlessCancelled(audited) == got # "ok" \/ dirty \/ ~audited
StopsUnlessFailed(audited) == got \notin {"ok", "replan"} \/ dirty \/ cancelled \/ ~audited

\* A call that is asked to stop ends the batch; its audit record may fail.
Stops(audited) == got # "ok" \/ dirty \/ cancelled \/ ~audited

\* What a result that is no way out leads to.
After == [result \in {"answered", "completed", "incomplete", "ok", "replan"} |->
    CASE result = "answered" -> "round"
      [] result \in {"ok", "replan"} -> "progress"
      [] OTHER -> "assess"]

\* The first reason that applies decides: the audit, unknown effects, the
\* cancellation, an answer, a question without one, a fatal error, a finish.
AfterCall ==
    /\ pc = "ran"
    /\ \E audited \in BOOLEAN :
        LET told == IF Stops(audited) THEN Skipped ELSE draft
            withdrawn == cancelled \/ got \in {"interrupted", "withdrawn"}
            notice == <<Message("notice", 0)>>
        IN  /\ next' = IF Stops(audited) THEN calls ELSE next
            /\ \/ (~audited \/ dirty) /\ draft' = told /\ Exit(FALSE, FALSE)
               \/ /\ audited /\ ~dirty /\ withdrawn /\ Exit(FALSE, FALSE)
                  /\ draft' = IF got \in Asked THEN told \o notice ELSE told
               \/ /\ audited /\ ~dirty /\ ~withdrawn
                  /\ \/ got = "unanswered" /\ draft' = told \o notice /\ Exit(FALSE, FALSE)
                     \/ got = "fatal" /\ draft' = told /\ Exit(FALSE, FALSE)
                     \/ /\ got \in DOMAIN After /\ pc' = After[got] /\ draft' = told
                        /\ UNCHANGED <<ok, rollback>>
    /\ UNCHANGED <<session, reached, dirty, round, counters, calls, got, cancelled>>

\* The progress guard stops the task, its scan is cancelled, or its audit
\* record fails.  The rest of the batch is skipped if it was not already.
ProgressStops ==
    /\ pc = "progress" /\ Exit(FALSE, FALSE)
    /\ next' = calls
    /\ \E warned \in {<<>>, <<Message("feedback", 0)>>},
          told \in {<<>>, <<Message("notice", 0)>>} :
        /\ told # <<>> => ~cancelled
        /\ draft' = Skipped \o warned \o told
    /\ UNCHANGED <<session, reached, dirty, round, counters, calls, got, cancelled>>

\* The next call; after the last one or a failure, the next round, perhaps with
\* warnings of the guard and feedback about checks.
ProgressAllows ==
    /\ pc = "progress" /\ ~cancelled
    /\ \/ next < calls /\ pc' = "call" /\ UNCHANGED draft
       \/ next = calls /\ pc' = "round" /\ draft' \in {draft, Add("feedback")}
    /\ UNCHANGED <<session, reached, dirty, round, counters, batch, ok, rollback, cancelled>>

-----------------------------------------------------------------------------
(* A finish *)

\* assess_finish, and the audit record of what it says.  One finish of a task
\* may be corrected, if there is a round left to do it.
Assess ==
    /\ pc = "assess"
    /\ LET sound == got = "completed" /\ ~cancelled /\ ~dirty
       IN  \/ Exit(FALSE, FALSE) /\ UNCHANGED recoveries  \* the audit failed
           \/ /\ \E success \in BOOLEAN : (success => sound) /\ ok' = success
              /\ pc' = "close" /\ UNCHANGED <<rollback, recoveries>>
           \/ /\ sound /\ recoveries < 1 /\ round < MaxRounds
              /\ recoveries' = recoveries + 1 /\ pc' = "recover" /\ UNCHANGED <<ok, rollback>>
    /\ UNCHANGED <<session, draft, reached, dirty, round, missing, questions, batch, cancelled>>

\* After its audit the token, the cleanup and the effects are read again.
Recover ==
    /\ pc = "recover"
    /\ \/ Exit(FALSE, FALSE) /\ dirty' \in {dirty, TRUE} /\ UNCHANGED draft
       \/ /\ ~cancelled /\ draft' = Add("feedback") /\ pc' = "round"
          /\ UNCHANGED <<dirty, ok, rollback>>
    /\ UNCHANGED <<session, reached, round, counters, batch, cancelled>>

\* _finish_success closes the task before a review candidate is prepared.  If
\* the history has a gap, the task has failed after all.
CloseTask ==
    /\ pc = "close" /\ pc' = "review"
    /\ LET first == Told(ok, draft)
           closed == Continuous(history \o first, reached, tasks)
       IN  /\ ok' = (ok /\ closed)
           /\ draft' = Told(ok', first)
           /\ reached' = IF Continuous(history \o draft', reached, tasks)
                         THEN Len(history \o draft') ELSE reached
    /\ UNCHANGED <<session, dirty, round, counters, batch, rollback, cancelled>>

\* The review candidate is cancelled or not audited; it may also fail quietly.
Review ==
    /\ pc = "review"
    /\ Exit(FALSE, FALSE) \/ Exit(ok, FALSE)
    /\ UNCHANGED <<session, draft, reached, dirty, round, counters, batch, cancelled>>

-----------------------------------------------------------------------------
(* The end of a task *)

\* TaskFinalizer.finish: the context the agent returns.  A history with a gap
\* is given up if the task had not come to run a tool in this round.
Finish ==
    /\ pc = "finish" /\ pc' = "returned"
    /\ LET all == history \o Told(ok, draft)
           closed == Continuous(all, reached, tasks)
       IN  /\ history' = IF rollback /\ ~closed THEN history ELSE all
           /\ latest' = IF closed THEN Len(all) ELSE reached
    /\ unknown' \in {dirty, TRUE}
    /\ UNCHANGED <<tasks, outcome, draft, reached, dirty, round, counters, batch, ok, rollback,
                   cancelled>>

\* A callback or a tool raises.  The messages of the task are lost, what it
\* did to the files is not.
Raise ==
    /\ pc \notin {"idle", "returned"}
    /\ unknown' \in {dirty, TRUE}
    /\ UNCHANGED <<history, latest, tasks, outcome>> /\ Reset

\* Mutant of CloseFailure: a notice of an earlier task is taken for this one's.
CloseFailureOnce(h) ==
    LET told == IF Notices(h) # {} THEN h
                ELSE Append(h, [kind |-> "notice", n |-> 0, task |-> h[Len(h)].task])
    IN  history' = told /\ latest' = Len(told)

\* close_runtime_failure_context: the last task of the history is told to have
\* failed, and the watermark follows if the history has no gap.
CloseFailure(h) ==
    LET last == h[Len(h)].task
        told == IF \E i \in Notices(h) : h[i].task = last THEN h
                ELSE Append(h, [kind |-> "notice", n |-> 0, task |-> last])
    IN  /\ history' = told
        /\ latest' = IF Continuous(told, latest, last) THEN Len(told) ELSE latest

\* run_task has the last word: a cancellation, unknown effects, the scans of
\* the workspace or its baseline turn a success into a failure.
Deliver ==
    /\ pc = "returned" /\ ok /\ ~cancelled /\ ~unknown
    /\ outcome' = [outcome EXCEPT ![tasks] = "delivered"]
    /\ UNCHANGED <<history, latest, unknown, tasks>> /\ Reset

Reject ==
    /\ pc = "returned"
    /\ outcome' = [outcome EXCEPT ![tasks] = "failed"]
    /\ IF history = <<>> THEN UNCHANGED <<history, latest>> ELSE CloseFailure(history)
    /\ UNCHANGED <<unknown, tasks>> /\ Reset

\* The change journal cannot be sealed, or the end of the task is interrupted:
\* run_task raises with the agent's context already taken over.
Break ==
    /\ pc = "returned" /\ unknown' \in {unknown, TRUE}
    /\ UNCHANGED <<history, latest, tasks, outcome>> /\ Reset

Clear ==
    /\ pc = "idle" /\ history' = <<>> /\ latest' = 0 /\ unknown' = FALSE
    /\ UNCHANGED <<tasks, outcome, pc, draft, reached, dirty, round, counters, batch, ok,
                   rollback, cancelled>>

Cancel ==
    /\ pc # "idle" /\ ~cancelled /\ cancelled' = TRUE
    /\ UNCHANGED <<session, pc, draft, reached, dirty, round, counters, batch, ok, rollback>>

-----------------------------------------------------------------------------
Advance ==
    \/ Prepare \/ RoundsUsedUp \/ StopBeforeRound \/ BeginRound
    \/ RequestFails \/ BrokenAnswer \/ AnswerWithCalls \/ AnswerWithoutCalls \/ AfterCorrection
    \/ StopBeforeCall \/ RunCall \/ Result \/ AfterCall \/ ProgressStops \/ ProgressAllows
    \/ Assess \/ Recover \/ CloseTask \/ Review \/ Finish
    \/ Deliver \/ Reject

Next == Start \/ Advance \/ Raise \/ Break \/ Clear \/ Cancel

Spec == Init /\ [][Next]_vars

-----------------------------------------------------------------------------
(* Properties *)

Kinds == {"task", "text", "calls", "feedback", "notice"} \cup Answers
Messages == [kind : Kinds, n : Nat, task : Nat]
InBatch == {"call", "running", "ran", "progress"}
Places == {"idle", "prepare", "round", "request", "logged", "assess", "recover", "close",
           "review", "finish", "returned"} \cup InBatch

TypeOK ==
    /\ history \in Seq(Messages) /\ draft \in Seq(Messages) /\ latest \in Nat /\ reached \in Nat
    /\ tasks \in 0 .. MaxTasks /\ outcome \in [1 .. MaxTasks -> {"none", "delivered", "failed"}]
    /\ pc \in Places /\ round \in 0 .. MaxRounds
    /\ missing \in Nat /\ questions \in Nat /\ recoveries \in Nat
    /\ calls \in Nat /\ next \in Nat /\ got \in Outcomes
    /\ unknown \in BOOLEAN /\ dirty \in BOOLEAN /\ ok \in BOOLEAN /\ rollback \in BOOLEAN
    /\ cancelled \in BOOLEAN

\* Every call the model made has exactly one result, in order, whenever the
\* model is asked again and in everything a session keeps (tool_batch.py
\* fill_remaining_results; a provider refuses a call without a result).
EveryCallAnswered ==
    /\ pc \in {"round", "request", "assess", "close", "review", "finish", "returned"}
           => Paired(draft)
    /\ Paired(history)

\* In one batch nothing runs after a call that failed, finished or asked: the
\* result after such a one, and so each later one, says skipped, whatever the
\* callbacks and the audit do meanwhile (tool_batch.py execute).
NothingRunsAfterStop ==
    \A b \in {draft, history} : \A i \in 1 .. Len(b) - 1 :
        b[i].kind \in Answers \ {"done"} /\ b[i + 1].kind \in Answers
            => b[i + 1].kind = "skipped"

\* Between tasks every block is closed and the watermark is at the end: no way
\* out of a task leaves a gap that would stop the memory of the session
\* (finalization.py close_task, context/manager.py closed_task_boundary).
HistoryClosed ==
    pc = "idle" /\ history # <<>> =>
        /\ latest = Len(history)
        /\ Continuous(history, latest, history[Len(history)].task)

\* A task in the history that did not succeed says so in its last message,
\* also when the runtime rejects it after the agent had closed it
\* (session/runtime.py _synchronize_runtime_final_outcome).
FailureIsTold ==
    pc = "idle" => \A i \in 1 .. Len(history) :
        outcome[history[i].task] = "failed"
        /\ (i = Len(history) \/ history[i + 1].task # history[i].task)
            => history[i].kind = "notice"

\* Once effects on the files are unknown no tool runs and no model is asked,
\* until a person clears the session (tool_batch.py: unknown effects come
\* before an answer or a cancellation; runtime.py _run_task_locked).
UnknownStops ==
    dirty \/ unknown => pc \notin {"round", "request", "call", "running"}

\* What a task can still do at most: rounds, then steps of this round.
Place == [prepare |-> 5, round |-> 4, request |-> 11 + 4 * MaxCalls, logged |-> 5,
          call |-> 8, running |-> 7, ran |-> 10, progress |-> 9,
          assess |-> 6, recover |-> 5, close |-> 3, review |-> 2, finish |-> 1, returned |-> 0]
StepsLeft == Place[pc] + IF pc \in InBatch THEN 4 * (calls - next) ELSE 0
RoundsLeft == MaxRounds - round

\* No task goes on for ever, whatever the model answers and the tools return:
\* what is left to do shrinks with every step but the cancellation, and only a
\* new round buys new steps (loop.py: corrections, answered questions, retries
\* and the recovery of a finish all cost a round).
WorkShrinks ==
    [][pc # "idle" /\ pc' # "idle" /\ cancelled' = cancelled =>
           \/ RoundsLeft' < RoundsLeft
           \/ RoundsLeft' = RoundsLeft /\ StepsLeft' < StepsLeft]_vars

\* A task that was delivered is never told to have failed.  The code does not
\* keep to it: a task that is refused because effects are unknown never became
\* part of the history, and the last one in it gets the notice.
DeliveredStaysDelivered ==
    \A i \in Notices(history) : outcome[history[i].task] # "delivered"
=============================================================================
