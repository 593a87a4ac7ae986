--------------------------- MODULE ProviderStream ---------------------------
(***************************************************************************)
(* A streamed request to the model (engine/provider_request.py,            *)
(* providers.py, process/provider_stream.py).  The requesting coroutine    *)
(* makes up to MaxAttempts attempts; each owns one connection with a       *)
(* thread that connects and reads into a queue of two chunks, and a thread *)
(* that closes it.  Neither can be interrupted: leaving an attempt means   *)
(* asking the connection to stop and waiting, for a bounded time, until    *)
(* both threads have ended; a connection that outlives the wait stays with *)
(* the transport and with the task's scope, and no other is opened beside  *)
(* it.  A chunk of the model is one event of the server's stream.          *)
(***************************************************************************)
EXTENDS TaskScope, Naturals, FiniteSets, Sequences

CONSTANTS
    MaxAttempts     \* the attempts of one request

VARIABLES
    conns,      \* every connection opened, in order
    owners,     \* the connections the transport has not seen end
    closing,    \* pending reads the provider could not wait for, by connection
    request     \* the request being made

streamVars == <<conns, owners, closing, request>>

Conns == 1..Len(conns)
Connection(k) == <<"connection", k>>
Reading(k) == <<"read", k>>

Events == {"text", "call", "finish", "done"}
NoRequest == [at |-> "idle", attempt |-> 0, conn |-> 0, error |-> "none", outcome |-> "none",
              reading |-> FALSE, emitted |-> FALSE, ended |-> FALSE, calls |-> "none",
              spoke |-> {}]

StreamTypeOK ==
    /\ \A k \in Conns :
          /\ conns[k].worker \in {"connecting", "reading", "ended"}
          /\ conns[k].closer \in {"none", "running", "ended"}
          /\ conns[k].response \in {"none", "open", "closed", "broken"}
          /\ Len(conns[k].queue) <= 2 /\ conns[k].chunks \in 0..plan.chunks
    /\ owners \subseteq Conns /\ closing \subseteq Conns
    /\ request.at \in {"idle", "attempt", "reading", "leaving", "left"}
    /\ request.error \in {"none", "cancelled", "cleanup", "budget", "protocol", "refused",
                         "eof", "broken"}
    /\ request.outcome \in {"none", "ok", "cancelled", "failed"}
    /\ request.attempt \in 0..MaxAttempts /\ request.conn \in 0..Len(conns)
    /\ request.calls \in {"none", "partial", "published"}

StreamInit == conns = <<>> /\ owners = {} /\ closing = {} /\ request = NoRequest

-----------------------------------------------------------------------------
(* The connection (UrllibStreamOwner). *)

NewConnection == [worker |-> "connecting", closer |-> "none", response |-> "none",
                  stop |-> FALSE, queue |-> <<>>, chunks |-> 0, done |-> FALSE,
                  abandoned |-> FALSE]

(* The closing thread is started once, and only for a response. *)
StartClose(c) ==
    IF c.response # "none" /\ c.closer = "none" THEN [c EXCEPT !.closer = "running"] ELSE c

WorkerEnds(c) == [StartClose(c) EXCEPT !.worker = "ended"]

Clean(c) == /\ c.worker = "ended" /\ c.closer \in {"none", "ended"}
            /\ c.response \in {"none", "closed"}

(* cleanup() asks the connection to stop before it looks; nobody reads *)
(* what is queued any more.                                            *)
Stopped(c) == StartClose([c EXCEPT !.stop = TRUE, !.queue = <<>>])

Put(c, chunk) == IF c.stop THEN c ELSE [c EXCEPT !.queue = Append(@, chunk)]
Room(c) == c.stop \/ Len(c.queue) < 2

Set(k, c) == conns' = [conns EXCEPT ![k] = c]

(* The connection is made, however late, or it fails; an HTTP error has a *)
(* body to close, and may not be worth another attempt.                   *)
Connect(k) ==
    LET c == conns[k] IN
    /\ c.worker = "connecting"
    /\ \/ Set(k, [c EXCEPT !.worker = "reading", !.response = "open"])
       \/ Room(c) /\ \E response \in {"none", "open"}, e \in {"error", "refused"} :
             Set(k, WorkerEnds([Put(c, e) EXCEPT !.response = response]))
    /\ UNCHANGED <<cancelled, scope, owners, closing, request>>

(* A chunk, the end of the stream or an error is read and queued; the *)
(* thread ends after the last two, and when it is told to stop.       *)
Read(k) ==
    LET c == conns[k] IN
    /\ c.worker = "reading"
    /\ IF c.stop
       THEN Set(k, WorkerEnds(c))
       ELSE Room(c) /\ \/ \E e \in Events :
                             /\ c.chunks < plan.chunks
                             /\ Set(k, [Put(c, e) EXCEPT !.chunks = @ + 1, !.done = @ \/ e = "done"])
                       \/ \E e \in {"eof", "error", "garbage"} :
                             Set(k, WorkerEnds(Put(c, e)))
    /\ UNCHANGED <<cancelled, scope, owners, closing, request>>

(* The closing thread interrupts the socket and closes the response. *)
CloseResponse(k) ==
    /\ conns[k].closer = "running"
    /\ \E response \in {"closed", "broken"} :
          Set(k, [conns[k] EXCEPT !.closer = "ended", !.response = response])
    /\ UNCHANGED <<cancelled, scope, owners, closing, request>>

-----------------------------------------------------------------------------
(* The request. *)

(* Leaving an attempt: its connection is asked to stop.  "reading" says *)
(* that a read is still pending and has to be cancelled and awaited.    *)
LeaveWith(r, error, reading) ==
    /\ request' = [r EXCEPT !.at = "leaving", !.error = error, !.reading = reading]
    /\ conns' = [conns EXCEPT ![r.conn] = Stopped(@)]
    /\ scope' = IF reading THEN Retain(BeginTermination(scope), Reading(r.conn)) ELSE scope

Left(error) == request' = [request EXCEPT !.at = "left", !.error = error, !.reading = FALSE]

(* A request is refused while a read that could not be awaited goes on. *)
BeginRequest ==
    /\ request.at = "idle" /\ ~cancelled /\ Len(conns) < plan.connections
    /\ request' = IF closing = {}
                  THEN [NoRequest EXCEPT !.at = "attempt", !.attempt = 1]
                  ELSE [NoRequest EXCEPT !.at = "left", !.attempt = 1, !.error = "cleanup"]
    /\ UNCHANGED <<cancelled, scope, conns, owners, closing>>

Unfinished == {k \in owners : ~Clean(Stopped(conns[k]))}

(* A connection that has not been seen to end does not forbid another. *)
AlwaysOpens == TRUE

(* It does. *)
MayOpen == Unfinished = {}

(* An attempt: earlier connections are looked at again, then one is opened *)
(* and belongs to the transport and to the scope.                          *)
Attempt ==
    LET k == Len(conns) + 1
        seen == [j \in Conns |-> IF j \in owners THEN Stopped(conns[j]) ELSE conns[j]] IN
    /\ request.at = "attempt"
    /\ IF cancelled
       THEN Left("cancelled") /\ UNCHANGED <<scope, conns, owners>>
       ELSE IF MayOpen /\ Len(conns) < plan.connections
       THEN /\ conns' = Append(seen, NewConnection)
            /\ owners' = Unfinished \cup {k}
            /\ scope' = Retain(scope, Connection(k))
            /\ request' = [request EXCEPT !.at = "reading", !.conn = k]
       ELSE conns' = seen /\ owners' = Unfinished /\ Left("cleanup") /\ UNCHANGED scope
    /\ UNCHANGED <<cancelled, closing>>

(* The cancellation is seen, or the time for progress is over, while a read *)
(* is pending; a chunk that has just come makes no difference but that.     *)
GiveUpReading ==
    /\ request.at = "reading"
    /\ \/ cancelled /\ \E reading \in BOOLEAN :
             /\ reading \/ conns[request.conn].queue # <<>>
             /\ LeaveWith(request, "cancelled", reading)
       \/ ~plan.prompt /\ conns[request.conn].queue = <<>> /\ LeaveWith(request, "budget", TRUE)
    /\ UNCHANGED <<cancelled, owners, closing>>

(* The finish reason is taken for the end. *)
EndsEarly(e) == e \in {"finish", "done"}

(* What ends the stream of events. *)
EndsStream(e) == e = "done"

(* Complete tool calls are published at the finish reason or at the end; *)
(* a call that is not complete there is an error.                        *)
Publishes(r) == [r EXCEPT !.calls = IF @ = "partial" THEN "published" ELSE @,
                          !.emitted = @ \/ r.calls = "partial", !.ended = TRUE]

(* The request after an event, and whether the event is in order. *)
AfterEvent(r, e) ==
    CASE e = "text" -> [r EXCEPT !.emitted = TRUE]
      [] e = "call" -> [r EXCEPT !.emitted = TRUE, !.calls = "partial"]
      [] e = "finish" -> Publishes(r)
      [] e = "done" -> [Publishes(r) EXCEPT !.emitted = TRUE]
InOrder(r, e) == ~(r.ended /\ e \in {"call", "finish"})

(* A chunk is taken from the queue.  The collector reads the token before  *)
(* it takes an event: it then drops the generators, which nobody closes    *)
(* but the collection of garbage.                                          *)
TakeChunk ==
    LET k == request.conn
        e == conns[k].queue[1]
        rest == [conns[k] EXCEPT !.queue = Tail(@)]
        r == AfterEvent(request, e)
        said == [r EXCEPT !.spoke = IF r.emitted THEN @ \cup {k} ELSE @] IN
    /\ request.at = "reading" /\ conns[k].queue # <<>>
    /\ CASE e \in {"eof", "error", "refused", "garbage"} ->
               /\ request' = [request EXCEPT !.at = "leaving", !.error =
                      CASE e = "error" -> "broken" [] e = "garbage" -> "protocol" [] OTHER -> e]
               /\ Set(k, Stopped(rest)) /\ UNCHANGED scope
          [] e \in Events ->
               \/ /\ InOrder(request, e)
                  /\ IF cancelled /\ (e # "finish" \/ request.calls = "partial")
                     THEN /\ Set(k, [rest EXCEPT !.abandoned = TRUE])
                          /\ Left("cancelled") /\ UNCHANGED scope
                     ELSE IF EndsStream(e)
                     THEN /\ request' = [said EXCEPT !.at = "leaving"]
                          /\ Set(k, Stopped(rest)) /\ UNCHANGED scope
                     ELSE /\ request' = said /\ Set(k, rest) /\ UNCHANGED scope
               \/ /\ ~InOrder(request, e) \/ (e \in {"finish", "done"} /\ request.calls = "partial")
                  /\ request' = [request EXCEPT !.at = "leaving", !.error = "protocol"]
                  /\ Set(k, Stopped(rest)) /\ UNCHANGED scope
    /\ UNCHANGED <<cancelled, owners, closing>>

(* The connection is seen to have ended: nobody owns it any more. *)
ConnectionEnds ==
    LET k == request.conn IN
    /\ request.at = "leaving" /\ Clean(conns[k])
    /\ owners' = owners \ {k}
    /\ scope' = Discard(Discard(scope, Connection(k)), Reading(k))
    /\ Left(request.error)
    /\ UNCHANGED <<cancelled, conns, closing>>

(* The time for leaving is over: the connection stays with the transport  *)
(* and the scope, and so may the pending read that waits for it.  An      *)
(* attempt that had not failed fails with this.                           *)
LeavingTimesOut ==
    LET k == request.conn
        left == Leave(BeginTermination(scope), Connection(k)) IN
    /\ request.at = "leaving" /\ ~Clean(conns[k]) /\ TimeIsUp
    /\ \/ request.reading /\ closing' = closing \cup {k} /\ scope' = Leave(scope, Reading(k))
       \/ UNCHANGED closing /\ scope' = Discard(left, Reading(k))
    /\ Left(IF request.error \in {"none", "eof"} THEN "cleanup" ELSE request.error)
    /\ UNCHANGED <<cancelled, conns, owners>>

(* The connection's own end or error is seen by the read that is pending: *)
(* it waits for the connection, and can still be given up.                *)
WithinRead == request.error \in {"eof", "broken", "refused"} /\ ~request.reading

LeavingGivenUp(error) ==
    /\ request.at = "leaving" /\ WithinRead
    /\ scope' = Leave(BeginTermination(scope), Connection(request.conn))
    /\ Left(error)
    /\ UNCHANGED <<conns, owners, closing>>

GiveUpLeaving ==
    /\ \/ cancelled /\ LeavingGivenUp("cancelled")
       \/ ~plan.prompt /\ LeavingGivenUp("budget")
    /\ UNCHANGED cancelled

(* The requesting coroutine is interrupted: a read that is pending, or the *)
(* closing that has begun, is awaited once more; after that nothing is.    *)
RequestInterrupted ==
    LET k == request.conn IN
    \/ request.at = "reading" /\ LeaveWith(request, "cancelled", TRUE) /\ UNCHANGED <<owners, closing>>
    \/ LeavingGivenUp("cancelled")
    \/ /\ request.at = "leaving" /\ ~WithinRead
       /\ IF request.reading
          THEN closing' = closing \cup {k} /\ scope' = Leave(scope, Reading(k)) /\ Left("cancelled")
          ELSE /\ scope' = Retain(BeginTermination(scope), Reading(k))
               /\ request' = [request EXCEPT !.reading = TRUE, !.error = "cancelled"]
               /\ UNCHANGED closing
       /\ UNCHANGED <<conns, owners>>

(* The pending read ends later, with the connection or without it. *)
PendingReadEnds(k) ==
    /\ k \in closing /\ closing' = closing \ {k}
    /\ IF Clean(conns[k])
       THEN owners' = owners \ {k} /\ scope' = Discard(scope, Connection(k))
       ELSE TimeIsUp /\ scope' = Leave(scope, Connection(k)) /\ UNCHANGED owners
    /\ UNCHANGED <<cancelled, conns, request>>

(* The generators that were dropped are closed by a task of their own. *)
DroppedIsClosed(k) ==
    /\ conns[k].abandoned
    /\ IF conns[k].stop
       THEN /\ Set(k, [conns[k] EXCEPT !.abandoned = FALSE])
            /\ IF Clean(conns[k])
               THEN owners' = owners \ {k} /\ scope' = Discard(scope, Connection(k))
               ELSE TimeIsUp /\ scope' = Leave(scope, Connection(k)) /\ UNCHANGED owners
       ELSE Set(k, Stopped(conns[k])) /\ UNCHANGED <<scope, owners>>
    /\ UNCHANGED <<cancelled, closing, request>>

Broken == request.error \in {"eof", "broken"}

(* Another attempt is made whatever was said. *)
RetriesAnyway == TRUE

(* Another attempt is made only if this one said nothing. *)
SaidNothing == ~request.emitted

RetryOrReturn ==
    /\ request.at = "left"
    /\ request' =
          IF Broken /\ SaidNothing /\ ~scope.failed /\ ~HasPending(scope)
             /\ request.attempt < MaxAttempts
          THEN IF cancelled THEN [NoRequest EXCEPT !.outcome = "cancelled"]
               ELSE [NoRequest EXCEPT !.at = "attempt", !.attempt = request.attempt + 1,
                                      !.spoke = request.spoke]
          ELSE [request EXCEPT !.at = "idle",
                   !.outcome = CASE request.error = "cancelled" -> "cancelled"
                                 [] request.error = "none" -> "ok"
                                 [] OTHER -> "failed"]
    /\ UNCHANGED <<cancelled, scope, conns, owners, closing>>

StreamStep ==
    \/ Attempt \/ GiveUpReading \/ TakeChunk
    \/ ConnectionEnds \/ LeavingTimesOut \/ GiveUpLeaving \/ RetryOrReturn
    \/ \E k \in Conns : \/ Connect(k) \/ Read(k) \/ CloseResponse(k)
                        \/ PendingReadEnds(k) \/ DroppedIsClosed(k)

-----------------------------------------------------------------------------
(* Properties. *)

Alive(k) == conns[k].worker # "ended" \/ conns[k].response = "open"

(* The answer the person and the agent see comes from one attempt: a retry *)
(* never repeats text or calls an earlier attempt has already published.   *)
OneAttemptSpeaks == Cardinality(request.spoke) <= 1

(* The transport never has two connections at once, though a thread that *)
(* connects or reads cannot be interrupted.                              *)
OneConnection == \A j, k \in Conns : Alive(j) /\ Alive(k) => j = k

(* A response the agent acts on was sent to its end, with no half a call. *)
ResponseIsWhole ==
    request.outcome = "ok" => conns[request.conn].done /\ request.calls # "partial"
=============================================================================
