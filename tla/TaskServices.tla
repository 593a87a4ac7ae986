---------------------------- MODULE TaskServices ----------------------------
(***************************************************************************)
(* A task and its services (mcp/runtime.py, engine/loop.py): the servers   *)
(* are started, the task's operation asks the model, calls the servers'    *)
(* tools and runs commands, one thing at a time, and when it ends, by      *)
(* itself, by an error, by the person's cancellation or by Ctrl-C, what it *)
(* used is stopped.  All of them share the token and the scope.            *)
(***************************************************************************)
EXTENDS ProviderStream, McpServers, CommandProcess

CONSTANTS
    Plans           \* what a task may be configured with and do

ASSUME BoundsAssumption ==
    /\ MaxAttempts \in Nat
    /\ Plans \subseteq [servers : 0..Cardinality(Servers), calls : Nat, requests : Nat,
                       connections : Nat, chunks : Nat, interrupts : Nat,
                       commands : Nat, kinds : SUBSET Kinds, windows : BOOLEAN,
                       prompt : BOOLEAN]
    /\ IsFiniteSet(Servers) /\ Servers = 1..Cardinality(Servers)

VARIABLES
    requests,       \* requests made so far; the first is for a plan
    commands        \* commands run so far

counts == <<requests, commands>>
vars == <<plan, cancelled, scope, streamVars, mcpVars, commandVars, counts>>

TypeOK ==
    /\ StreamTypeOK /\ McpTypeOK /\ CommandTypeOK
    /\ plan \in Plans /\ cancelled \in BOOLEAN /\ requests \in 0..plan.requests
    /\ commands \in 0..plan.commands
    /\ scope.deadline \in {"none", "running", "over"} /\ scope.failed \in BOOLEAN

Init ==
    /\ plan \in Plans /\ cancelled = FALSE /\ scope = FreshScope
    /\ requests = 0 /\ commands = 0
    /\ StreamInit /\ McpInit /\ CommandInit

InBody == main.at = "body" /\ request.at = "idle"

(* A request that failed ends the task, unless it was for a plan; so does a *)
(* command whose result is one to stop at.                                  *)
GoesOn ==
    /\ request.outcome \in {"none", "ok"} \/ (request.outcome = "failed" /\ requests = 1)
    /\ cmd.result \in {"none", "ok", "replan"}

AskModel ==
    /\ InBody /\ GoesOn /\ requests < plan.requests /\ BeginRequest
    /\ requests' = requests + 1
    /\ UNCHANGED <<mcpVars, commandVars, commands>>

CallTool ==
    /\ InBody /\ GoesOn /\ \E s \in Servers : Call(s)
    /\ UNCHANGED <<streamVars, commandVars, counts>>

(* The operation waits for the thread of a command. *)
RunCommand ==
    /\ InBody /\ GoesOn /\ commands < plan.commands /\ ~cancelled
    /\ \E kind \in plan.kinds : Submit(kind)
    /\ main' = [main EXCEPT !.at = "running"] /\ commands' = commands + 1
    /\ UNCHANGED <<cancelled, srv, streamVars, requests>>

CommandEnds ==
    /\ main.at = "running" /\ ~Working
    /\ IF cmd.result = "cancelled" THEN BodyEnds("cancelled")
       ELSE main' = [main EXCEPT !.at = "body"] /\ UNCHANGED <<scope, srv>>
    /\ UNCHANGED <<cancelled, streamVars, commandVars, counts>>

(* The operation returns its result or raises; a cancellation is seen at *)
(* the next thing it does, or came out of its request.                   *)
OperationEnds ==
    /\ InBody
    /\ \/ request.outcome # "cancelled" /\ \E primary \in {"none", "error"} : BodyEnds(primary)
       \/ (cancelled \/ request.outcome = "cancelled") /\ BodyEnds("cancelled")
    /\ cancelled' = (cancelled \/ request.outcome = "cancelled")
    /\ UNCHANGED <<streamVars, commandVars, counts>>

(* Ctrl-C interrupts the operation, or the request it is waiting for. *)
OperationInterrupted ==
    /\ main.at = "body" /\ main.interrupts < plan.interrupts
    /\ LET m == [main EXCEPT !.interrupts = @ + 1] IN
       IF request.at \in {"idle", "attempt"}
       THEN /\ Terminate(m, "cancelled") /\ scope' = BeginTermination(scope) /\ cancelled' = TRUE
            /\ request' = [request EXCEPT !.at = "idle", !.outcome = "cancelled"]
            /\ UNCHANGED <<conns, owners, closing>>
       ELSE RequestInterrupted /\ main' = m /\ UNCHANGED cancelled
    /\ UNCHANGED <<srv, commandVars, counts>>

(* A thread that waits for a command is not interrupted with it: it is left *)
(* to the scope, and if it has not begun it never does.                     *)
CommandInterrupted ==
    /\ main.at = "running" /\ Working /\ main.interrupts < plan.interrupts
    /\ Terminate([main EXCEPT !.interrupts = @ + 1], "cancelled") /\ cancelled' = TRUE
    /\ scope' = MarkFailed(BeginTermination(scope))
    /\ cmd' = [cmd EXCEPT !.abandoned = TRUE]
    /\ UNCHANGED <<srv, streamVars, jobVars, counts>>

(* The person cancels the task from another thread. *)
Cancel ==
    /\ ~cancelled /\ main.at # "returned" /\ cancelled' = TRUE
    /\ UNCHANGED <<scope, streamVars, mcpVars, commandVars, counts>>

(* The time for terminating the task is over before anything that keeps to *)
(* the time it is given is over: the operation itself went on for longer.  *)
DeadlinePasses ==
    /\ scope.deadline = "running" /\ plan.prompt /\ main.at = "body"
    /\ scope' = [scope EXCEPT !.deadline = "over"]
    /\ UNCHANGED <<cancelled, streamVars, mcpVars, commandVars, counts>>

Streams == StreamStep /\ UNCHANGED <<mcpVars, commandVars, counts>>
Manages == MainStep /\ UNCHANGED <<streamVars, commandVars, counts>>
Serves(s) == ServerStep(s) /\ UNCHANGED <<streamVars, commandVars, counts>>
Runs == (ThreadStep \/ SystemStep) /\ UNCHANGED <<streamVars, mcpVars, counts>>

Next ==
    /\ \/ AskModel \/ CallTool \/ OperationEnds \/ OperationInterrupted \/ Cancel \/ DeadlinePasses
       \/ RunCommand \/ CommandEnds \/ CommandInterrupted
       \/ Streams \/ Manages \/ Runs
       \/ \E s \in Servers : Serves(s)
    /\ UNCHANGED plan

Spec == Init /\ [][Next]_vars

(* Where a task may be held for ever by a person, who need not answer, or  *)
(* by the agent, whose rounds are counted in AgentLoop: the start of a     *)
(* server and a command ask for an approval, and so may the operation, of  *)
(* a change or of a tool from outside (mcp/security.py, tools/handlers.py, *)
(* tools/__init__.py; presentation/console.py asks without a time limit).  *)
StartAsks == main.at = "starting" /\ main.queue # <<>>
CommandAsks == main.at = "running" /\ cmd.at = "asking"
Held == StartAsks \/ CommandAsks \/ (InBody /\ GoesOn)

(* The coroutine's own steps and those of a command's thread are taken      *)
(* where nobody is asked, an attempt is left, and every wait ends when its  *)
(* time does; a server need never answer unless it keeps to its time, a     *)
(* connection never.                                                        *)
RequestAdvances ==
    \/ Attempt \/ TakeChunk \/ GiveUpReading \/ ConnectionEnds \/ LeavingTimesOut \/ RetryOrReturn
MainAdvances ==
    \/ (StartNext /\ ~StartAsks) \/ StartIsReady \/ StartEnded \/ StartGivenUp \/ AbortEnds
    \/ RequestGivenUp \/ RequestLost \/ RequestReaped
    \/ StopOne \/ OwnerStopped \/ StopTimesOut \/ OwnerReaped \/ StopsDone

KeepsItsTime(s) ==
    plan.prompt /\ (OwnerStep(s) \/ Answered(s)) /\ UNCHANGED <<plan, streamVars, commandVars, counts>>

Fairness ==
    /\ WF_vars(RequestAdvances /\ UNCHANGED <<plan, mcpVars, commandVars, counts>>)
    /\ WF_vars(MainAdvances /\ UNCHANGED <<plan, streamVars, commandVars, counts>>)
    /\ WF_vars((CommandEnds \/ (OperationEnds /\ ~GoesOn)) /\ UNCHANGED plan)
    /\ WF_vars(ThreadStep /\ cmd.at # "asking" /\ UNCHANGED <<plan, streamVars, mcpVars, counts>>)
    /\ \A s \in Servers : WF_vars(KeepsItsTime(s))

FairSpec == Spec /\ Fairness

-----------------------------------------------------------------------------
(* Properties. *)

(* What a server's lifetime leaves behind: a process, an owner task or a *)
(* request that still runs.                                              *)
LeftBehind(s) ==
    {r \in {Owner(s), Transport(s), Operation(s)} :
        \/ r = Owner(s) /\ srv[s].owner \notin {"none", "done"}
        \/ r = Transport(s) /\ srv[s].owner = "done" /\ srv[s].proc = "running"
        \/ r = Operation(s) /\ srv[s].lost}

(* A task that returned has handed every process, task, request and         *)
(* connection that still lives to its cleanup scope, and has not reported a *)
(* result as good while one of them remains or a cleanup failed.            *)
LeftoverIsReported ==
    main.at = "returned" =>
        /\ \A s \in Servers : LeftBehind(s) \subseteq scope.resources
        /\ \A k \in Conns : Alive(k) => Connection(k) \in scope.resources
        /\ CommandLeaves \subseteq scope.resources
        /\ main.verdict = "ok" => ~HasPending(scope) /\ ~scope.failed

(* What the agent acts on is whole: a response sent to its end with no half *)
(* a call, and the output of a command that nobody can add to.              *)
ResultIsWhole == ResponseIsWhole /\ OutputIsWhole

(* Whatever a server, a process or a connection does or does not do, the   *)
(* task returns, unless it stays for ever where a person was asked for an  *)
(* approval or where its operation has something left to do.               *)
TaskReturns == <>(main.at = "returned") \/ <>[]Held

(* A server that could not be started, and has ended, does not fail a task *)
(* whose every other service keeps to its time ("普通失败隔离",            *)
(* mcp/manager.py, start_all).                                             *)
IsolatedFailure ==
    plan.prompt /\ main.at = "returned" /\ main.primary = "none" => main.verdict = "ok"
=============================================================================
