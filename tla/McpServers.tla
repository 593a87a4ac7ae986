----------------------------- MODULE McpServers -----------------------------
(***************************************************************************)
(* The MCP servers of one task (mcp/runtime.py, mcp/manager.py,            *)
(* mcp/client.py, mcp/transport.py, extensions/host.py).  One coroutine    *)
(* starts the servers in order, runs the task's operation with their tools *)
(* registered, and stops them in reverse.  Each server has an owner task,  *)
(* the only one that enters and leaves its session and process; a start,   *)
(* a request or a stop waits for it, or for the request's own task, for a  *)
(* bounded time, and what does not end then is kept by the task's scope.   *)
(***************************************************************************)
EXTENDS TaskScope, Naturals, Sequences, SequencesExt

CONSTANTS
    Servers         \* the servers, 1..n in configuration order

VARIABLES
    srv,            \* each server: its client, owner task, process and requests
    main            \* the coroutine

mcpVars == <<srv, main>>

Owner(s) == <<"owner", s>>
Transport(s) == <<"transport", s>>
Operation(s) == <<"operation", s>>

Unstarted == [client |-> "none", owner |-> "none", announced |-> FALSE, cut |-> FALSE,
              stop |-> FALSE, abandoned |-> FALSE, unclean |-> FALSE, proc |-> "none",
              op |-> FALSE, lost |-> FALSE, usable |-> FALSE, stopFailed |-> FALSE]

McpTypeOK ==
    /\ \A s \in Servers :
          /\ srv[s].client \in {"none", "starting", "ready", "stopping", "failed", "stopped"}
          /\ srv[s].owner \in {"none", "entering", "initializing", "serving", "closing", "done"}
          /\ srv[s].proc \in {"none", "running", "exited"}
    /\ main.at \in {"starting", "awaiting", "aborting", "asking", "reaping", "body",
                    "running",
                    "stops", "stopping", "stoppingAgain", "reapingOwner", "returned"}
    /\ main.phase \in {"start", "isolate", "rollback", "final"}
    /\ main.error \in {"none", "cancelled", "interrupted", "timeout"}
    /\ main.primary \in {"none", "cancelled", "error"}
    /\ main.verdict \in {"none", "ok", "cleanup failed", "cancelled", "error"}
    /\ main.interrupts \in 0..plan.interrupts /\ main.calls \in 0..plan.calls

McpInit ==
    /\ srv = [s \in Servers |-> Unstarted]
    /\ main = [at |-> "starting", phase |-> "start", queue |-> [i \in 1..plan.servers |-> i],
               s |-> 1, ask |-> "list", error |-> "none", primary |-> "none",
               started |-> <<>>, stuck |-> <<>>, stops |-> <<>>, routes |-> {},
               stopCancelled |-> FALSE, calls |-> 0, interrupts |-> 0, verdict |-> "none"]

-----------------------------------------------------------------------------
(* The owner task of a server (_run_lifecycle) and its transport. *)

SetServer(s, r) == srv' = [srv EXCEPT ![s] = r]

(* Leaving the session and the transport begins the task's termination. *)
BeginClosing(s) ==
    SetServer(s, [srv[s] EXCEPT !.owner = "closing"]) /\ scope' = BeginTermination(scope)

(* The transport is entered, which starts the process, or it fails. *)
Enter(s) ==
    /\ srv[s].owner = "entering"
    /\ \/ ~srv[s].cut /\ UNCHANGED scope
          /\ SetServer(s, [srv[s] EXCEPT !.owner = "initializing", !.proc = "running"])
       \/ BeginClosing(s)
    /\ UNCHANGED <<cancelled, main>>

(* The session is initialised and announced as ready, or it fails. *)
Initialize(s) ==
    /\ srv[s].owner = "initializing"
    /\ \/ ~srv[s].cut /\ UNCHANGED scope
          /\ SetServer(s, [srv[s] EXCEPT !.owner = "serving", !.client = "ready",
                                         !.announced = TRUE])
       \/ BeginClosing(s)
    /\ UNCHANGED <<cancelled, main>>

Serve(s) ==
    /\ srv[s].owner = "serving" /\ (srv[s].stop \/ srv[s].cut)
    /\ BeginClosing(s)
    /\ UNCHANGED <<cancelled, main>>

ClientAfter(r) ==
    IF r.announced /\ ~r.cut /\ ~r.unclean /\ ~r.abandoned THEN "stopped" ELSE "failed"

(* The transport proves that the process exited and closes what it owns; *)
(* failing that the scope keeps it.  A session that does not end as it   *)
(* should is a cleanup that failed all the same.                         *)
ShutDown(s) ==
    LET exited == [srv[s] EXCEPT !.proc = IF @ = "none" THEN @ ELSE "exited"]
        ends(r, unclean) ==
            LET e == [r EXCEPT !.owner = "done", !.unclean = @ \/ unclean] IN
            SetServer(s, [e EXCEPT !.client = ClientAfter(e)]) IN
    /\ srv[s].owner = "closing"
    /\ \/ ends(exited, FALSE)
          /\ scope' = IF srv[s].unclean THEN MarkFailed(scope) ELSE scope
       \/ ~plan.prompt /\ ends(exited, TRUE) /\ scope' = MarkFailed(scope)
       \/ TimeIsUp /\ ends(srv[s], TRUE) /\ scope' = Leave(scope, Transport(s))
    /\ UNCHANGED <<cancelled, main>>

(* A request whose task did not end in time ends after all. *)
LostRequestEnds(s) ==
    /\ srv[s].lost /\ SetServer(s, [srv[s] EXCEPT !.lost = FALSE])
    /\ UNCHANGED <<cancelled, scope, main>>

-----------------------------------------------------------------------------
(* Starting (ExtensionHost.start, _MCPServerExtension.start, client.start). *)

(* A failed start is isolated: its server is stopped and the next started. *)
StartFails(s) ==
    main' = [main EXCEPT !.at = "stops", !.phase = "isolate", !.error = "none", !.stops = <<s>>]

(* A cancelled start stops its server and those started before. *)
StartIsCancelled(stops) ==
    main' = [main EXCEPT !.at = "stops", !.phase = "rollback", !.error = "none",
                         !.primary = "cancelled", !.stops = stops \o Reverse(main.started), !.started = <<>>]

(* The next server is refused before it runs or is started; after the last *)
(* the tools are registered and the operation begins.                      *)
StartNext ==
    /\ main.at = "starting"
    /\ IF cancelled /\ main.queue # <<>>
       THEN StartIsCancelled(<<>>) /\ UNCHANGED srv
       ELSE IF main.queue = <<>>
       THEN /\ main' = [main EXCEPT !.at = "body", !.routes = {s \in Servers : srv[s].usable}]
            /\ UNCHANGED srv
       ELSE LET s == Head(main.queue)
                next == [main EXCEPT !.queue = Tail(@), !.s = s] IN
            \/ main' = next /\ UNCHANGED srv
            \/ /\ main' = [next EXCEPT !.at = "awaiting"]
               /\ SetServer(s, [Unstarted EXCEPT !.client = "starting", !.owner = "entering"])
    /\ UNCHANGED <<cancelled, scope>>

Ask(s, what) ==
    /\ SetServer(s, [srv[s] EXCEPT !.op = TRUE])
    /\ main' = [main EXCEPT !.at = "asking", !.s = s, !.ask = what]

(* The owner announced the session: its tools are listed. *)
StartIsReady ==
    LET s == main.s IN
    /\ main.at = "awaiting" /\ srv[s].announced
    /\ IF cancelled THEN StartIsCancelled(<<s>>) /\ UNCHANGED srv ELSE Ask(s, "list")
    /\ UNCHANGED <<cancelled, scope>>

StartEnded ==
    LET s == main.s IN
    /\ main.at = "awaiting" /\ srv[s].owner = "done" /\ ~srv[s].announced
    /\ StartFails(s)
    /\ UNCHANGED <<cancelled, scope, srv>>

(* The cancellation, an interrupt or the timeout of a start cancels the *)
(* owner, which is awaited; that begins the task's termination.         *)
AbortStart(error) ==
    /\ SetServer(main.s, [srv[main.s] EXCEPT !.cut = TRUE,
                                             !.unclean = @ \/ srv[main.s].owner = "closing"])
    /\ main' = [main EXCEPT !.at = "aborting", !.error = error,
                            !.interrupts = IF error = "interrupted" THEN @ + 1 ELSE @]
    /\ scope' = BeginTermination(scope)

StartGivenUp ==
    /\ main.at = "awaiting"
    /\ \/ cancelled /\ AbortStart("cancelled") /\ UNCHANGED cancelled
       \/ ~plan.prompt /\ AbortStart("timeout") /\ UNCHANGED cancelled
       \/ /\ main.interrupts < plan.interrupts
          /\ AbortStart("interrupted") /\ cancelled' = TRUE

AfterAbort(s) == IF main.error = "timeout" THEN StartFails(s) ELSE StartIsCancelled(<<s>>)

(* The owner ends in its time, or is abandoned to the scope. *)
AbortEnds ==
    LET s == main.s IN
    /\ main.at = "aborting" /\ AfterAbort(s)
    /\ \/ srv[s].owner = "done" /\ UNCHANGED scope
          /\ SetServer(s, [srv[s] EXCEPT !.client = "failed"])
       \/ /\ srv[s].owner # "done" /\ TimeIsUp
          /\ SetServer(s, [srv[s] EXCEPT !.client = "failed", !.abandoned = TRUE, !.unclean = TRUE])
          /\ scope' = Leave(scope, Owner(s))
    /\ UNCHANGED cancelled

(* An interrupt while the owner is awaited leaves it to the scope and *)
(* changes nothing about why the start is given up.                   *)
AbortInterrupted ==
    LET s == main.s IN
    /\ main.at = "aborting" /\ main.interrupts < plan.interrupts
    /\ main' = [main EXCEPT !.interrupts = @ + 1, !.at = "stops", !.error = "none",
                   !.phase = IF main.error = "timeout" THEN "isolate" ELSE "rollback",
                   !.primary = IF main.error = "timeout" THEN @ ELSE "cancelled",
                   !.stops = IF main.error = "timeout" THEN <<s>> ELSE <<s>> \o Reverse(main.started),
                   !.started = IF main.error = "timeout" THEN @ ELSE <<>>]
    /\ SetServer(s, [srv[s] EXCEPT !.client = "failed"])
    /\ scope' = IF srv[s].owner = "done" THEN scope ELSE Leave(scope, Owner(s))
    /\ UNCHANGED cancelled

-----------------------------------------------------------------------------
(* A request to a server: the list of its tools, or a call (_await_bounded). *)

(* The operation is over: the tools are unregistered and all is stopped, *)
(* and what could not be stopped before is tried again.                  *)
Terminate(m, primary) ==
    main' = [m EXCEPT !.at = "stops", !.phase = "final", !.error = "none", !.primary = primary,
                      !.routes = {}, !.stops = Reverse(m.started) \o m.stuck, !.started = <<>>, !.stuck = <<>>]

(* What a request leads to: "ok", "failed" or "cancelled". *)
AfterRequest(s, result) ==
    IF main.ask = "list"
    THEN CASE result = "ok" /\ ~cancelled ->
                  main' = [main EXCEPT !.at = "starting", !.started = Append(@, s)]
           [] result = "failed" -> StartFails(s)
           [] OTHER -> StartIsCancelled(<<s>>)
    ELSE IF result = "cancelled" THEN Terminate(main, "cancelled")
         ELSE main' = [main EXCEPT !.at = "body", !.error = "none"]

Answered(s) ==
    /\ main.at = "asking" /\ s = main.s
    /\ \E result \in {"ok", "failed"} :
          /\ AfterRequest(s, result)
          /\ SetServer(s, [srv[s] EXCEPT !.op = FALSE, !.usable = @ \/ result = "ok"])
    /\ UNCHANGED <<cancelled, scope>>

(* A request is given up: its task is cancelled and awaited. *)
RequestGivenUp ==
    LET reap(error) == main' = [main EXCEPT !.at = "reaping", !.error = error,
                           !.interrupts = IF error = "interrupted" THEN @ + 1 ELSE @] IN
    /\ main.at = "asking"
    /\ \/ cancelled /\ reap("cancelled") /\ UNCHANGED cancelled
       \/ ~plan.prompt /\ reap("timeout") /\ UNCHANGED cancelled
       \/ main.interrupts < plan.interrupts /\ reap("interrupted") /\ cancelled' = TRUE
    /\ scope' = BeginTermination(scope)
    /\ UNCHANGED srv

ReapResult == IF main.error = "timeout" THEN "failed" ELSE "cancelled"

(* The task of the request ended: the session may be used again, unless *)
(* the caller itself was interrupted.                                   *)
RequestReaped ==
    LET s == main.s IN
    /\ main.at = "reaping" /\ AfterRequest(s, ReapResult)
    /\ SetServer(s, [srv[s] EXCEPT !.op = FALSE,
                                   !.client = IF main.error = "interrupted" THEN "failed" ELSE @])
    /\ UNCHANGED <<cancelled, scope>>

(* The scope keeps a request that did not end, and its session is not used *)
(* again; a call like that ends the task.                                  *)
RequestLost ==
    LET s == main.s IN
    /\ main.at = "reaping"
    /\ \/ /\ TimeIsUp
          /\ IF main.ask = "call" /\ ReapResult = "failed"
             THEN Terminate(main, "none") ELSE AfterRequest(s, ReapResult)
       \/ /\ main.interrupts < plan.interrupts
          /\ LET m == [main EXCEPT !.interrupts = @ + 1] IN
             IF main.ask = "call" THEN Terminate(m, "cancelled")
             ELSE main' = [m EXCEPT !.at = "stops", !.phase = "rollback", !.error = "none",
                                    !.primary = "cancelled",
                                    !.stops = <<s>> \o Reverse(m.started), !.started = <<>>]
    /\ SetServer(s, [srv[s] EXCEPT !.op = FALSE, !.lost = TRUE, !.client = "failed"])
    /\ scope' = Leave(scope, Operation(s))
    /\ UNCHANGED cancelled

(* A tool is called through its registered route, on a client that is ready. *)
Call(s) ==
    /\ main.at = "body" /\ s \in main.routes /\ main.calls < plan.calls /\ ~cancelled
    /\ srv[s].client = "ready" /\ SetServer(s, [srv[s] EXCEPT !.op = TRUE])
    /\ main' = [main EXCEPT !.at = "asking", !.s = s, !.ask = "call", !.calls = @ + 1]
    /\ UNCHANGED <<cancelled, scope>>

(* The operation ends: with its result, an error or the cancellation, by *)
(* itself or while it waits for a command.                               *)
BodyEnds(primary) ==
    /\ main.at \in {"body", "running"} /\ Terminate(main, primary)
    /\ scope' = BeginTermination(scope)
    /\ UNCHANGED srv

-----------------------------------------------------------------------------
(* Stopping (ExtensionHost.stop, _MCPServerExtension.stop, client.stop). *)

(* A server that could not be stopped is kept for another try. *)
NextStop(m, s, ok) ==
    main' = [m EXCEPT !.at = "stops", !.s = s, !.stops = Tail(@),
                      !.stuck = IF ok THEN @ ELSE Append(@, s)]
StoppedServer(r, ok) ==
    [r EXCEPT !.usable = FALSE, !.stopFailed = ~ok, !.client = IF ok THEN "none" ELSE @]

Over(r) == r.client \in {"none", "stopped"} \/ (r.client = "failed" /\ r.owner = "done")

StopOne ==
    LET s == Head(main.stops)
        ok == ~(srv[s].client = "failed" /\ srv[s].unclean) IN
    /\ main.at = "stops" /\ main.stops # <<>>
    /\ IF Over(srv[s])
       THEN /\ NextStop(main, s, ok) /\ SetServer(s, StoppedServer(srv[s], ok))
            /\ UNCHANGED scope
       ELSE /\ SetServer(s, [srv[s] EXCEPT !.usable = FALSE, !.stop = TRUE, !.client = "stopping"])
            /\ main' = [main EXCEPT !.at = "stopping", !.s = s]
            /\ scope' = BeginTermination(scope)
    /\ UNCHANGED cancelled

(* The owner ended: with the cancellation it was given, with a cleanup *)
(* that failed, or as it should.                                       *)
OwnerStopped ==
    LET s == main.s
        hit == main.at = "stoppingAgain" \/ (srv[s].announced /\ srv[s].cut)
        ok == IF hit THEN srv[s].client = "stopped" ELSE ~(srv[s].announced /\ srv[s].unclean) IN
    /\ main.at \in {"stopping", "stoppingAgain"} /\ srv[s].owner = "done"
    /\ NextStop([main EXCEPT !.stopCancelled = @ \/ hit], s, ok)
    /\ SetServer(s, StoppedServer(srv[s], ok))
    /\ scope' = IF srv[s].unclean THEN MarkFailed(scope) ELSE scope
    /\ UNCHANGED cancelled

(* An interrupt makes the stop wait once more, for what is left. *)
StopInterrupted ==
    /\ main.at = "stopping" /\ main.interrupts < plan.interrupts
    /\ main' = [main EXCEPT !.at = "stoppingAgain", !.interrupts = @ + 1]
    /\ UNCHANGED <<cancelled, scope, srv>>

(* The owner is not awaited any longer: it is cancelled and reaped. *)
StopTimesOut ==
    LET s == main.s IN
    /\ main.at \in {"stopping", "stoppingAgain"} /\ srv[s].owner # "done" /\ TimeIsUp
    /\ SetServer(s, [srv[s] EXCEPT !.abandoned = TRUE, !.unclean = TRUE, !.cut = TRUE])
    /\ main' = [main EXCEPT !.at = "reapingOwner", !.stopCancelled = @ \/ main.at = "stoppingAgain"]
    /\ UNCHANGED <<cancelled, scope>>

OwnerReaped ==
    LET s == main.s IN
    /\ main.at = "reapingOwner" /\ NextStop(main, s, FALSE)
    /\ SetServer(s, [StoppedServer(srv[s], FALSE) EXCEPT !.client = "failed"])
    /\ scope' = IF srv[s].owner = "done" THEN MarkFailed(scope) ELSE Leave(scope, Owner(s))
    /\ UNCHANGED cancelled

(* The scope's judgement is not asked for. *)
JudgedByStops(failed, sc) == failed

(* A task that leaves something behind, or failed to clean up, says so. *)
CleanupFailed(failed, sc) == failed \/ sc.failed \/ HasPending(sc)

(* All is stopped that could be: after a failed start the next server is *)
(* started, after a rollback the task terminates, at last it returns.    *)
StopsDone ==
    LET failed == \E s \in Servers : srv[s].stopFailed
        verdict == IF main.primary # "none" THEN main.primary
                   ELSE IF main.stopCancelled THEN "cancelled"
                   ELSE IF CleanupFailed(failed, scope) THEN "cleanup failed" ELSE "ok" IN
    /\ main.at = "stops" /\ main.stops = <<>>
    /\ CASE main.phase = "isolate" ->
              main' = [main EXCEPT !.at = "starting", !.phase = "start"] /\ UNCHANGED scope
         [] main.phase = "rollback" ->
              Terminate(main, "cancelled") /\ scope' = BeginTermination(scope)
         [] main.phase = "final" ->
              /\ main' = [main EXCEPT !.at = "returned", !.verdict = verdict]
              /\ scope' = IF failed \/ main.stopCancelled \/ HasPending(scope)
                          THEN MarkFailed(scope) ELSE scope
    /\ UNCHANGED <<cancelled, srv>>

MainStep ==
    \/ StartNext \/ StartIsReady \/ StartEnded \/ StartGivenUp \/ AbortEnds \/ AbortInterrupted
    \/ RequestGivenUp \/ RequestReaped \/ RequestLost
    \/ StopOne \/ OwnerStopped \/ StopInterrupted \/ StopTimesOut \/ OwnerReaped \/ StopsDone

OwnerStep(s) == Enter(s) \/ Initialize(s) \/ Serve(s) \/ ShutDown(s)

ServerStep(s) == OwnerStep(s) \/ LostRequestEnds(s) \/ Answered(s)
=============================================================================
