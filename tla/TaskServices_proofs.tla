------------------------ MODULE TaskServices_proofs -------------------------
(***************************************************************************)
(* TaskServices for any servers, plans and number of attempts.  The proofs *)
(* go layer by layer: the connections and the request, the command and its *)
(* processes, the servers and the coroutine; then what the scope holds of  *)
(* each.  Last comes TaskCleanup, the owner that outlives the scopes, for  *)
(* any workers and any number of tasks; the two share no variable.         *)
(***************************************************************************)
EXTENDS TaskServices, TaskCleanup, SequenceTheorems, FiniteSetTheorems, TLAPS

(***************************************************************************)
(* The connections: their types, and that the end of the stream is known   *)
(* as soon as it is queued.  A step never takes that back, and never       *)
(* brings a connection back to life.                                       *)
(***************************************************************************)
Chunks == Events \cup {"eof", "error", "refused", "garbage"}
ConnSet == [worker : {"connecting", "reading", "ended"}, closer : {"none", "running", "ended"},
            response : {"none", "open", "closed", "broken"}, stop : BOOLEAN,
            queue : Seq(Chunks), chunks : Nat, done : BOOLEAN, abandoned : BOOLEAN]

EndIsKnown(c) == \A i \in 1..Len(c.queue) : c.queue[i] = "done" => c.done
Finished(c) == c.worker = "ended" /\ c.response # "open"
Follows(c, d) == (c.done => d.done) /\ (Finished(c) => Finished(d))

ConnsInv == conns \in Seq(ConnSet) /\ \A k \in Conns : EndIsKnown(conns[k])

\* A step adds connections and changes those there are as it may; the only one it
\* drops the generators of is that of the request.
GivenUp(k) == k = request.conn /\ request.at = "reading" /\ request'.at = "left"
Grown ==
    /\ \A k \in Conns : k \in Conns' /\ Follows(conns[k], conns'[k])
    /\ \A k \in Conns' : conns'[k].abandoned => k \in Conns /\ (conns[k].abandoned \/ GivenUp(k))

(***************************************************************************)
(* The request: the connection it reads or leaves is nobody else's; what   *)
(* has been said was said by its one attempt; and when an attempt ends     *)
(* without an error the stream was sent to its end.                        *)
(***************************************************************************)
RequestSet ==
    [at : {"idle", "attempt", "reading", "leaving", "left"}, attempt : Nat, conn : Nat,
     error : {"none", "cancelled", "cleanup", "budget", "protocol", "refused", "eof", "broken"},
     outcome : {"none", "ok", "cancelled", "failed"}, reading : BOOLEAN, emitted : BOOLEAN,
     ended : BOOLEAN, calls : {"none", "partial", "published"}, spoke : SUBSET Nat]

Attended ==
    /\ request.conn \in 0..Len(conns) /\ owners \subseteq Conns /\ closing \subseteq Conns
    /\ request.at \in {"reading", "leaving"} =>
          /\ request.conn \in Conns /\ request.conn \notin closing
          /\ ~conns[request.conn].abandoned
    /\ request.at # "idle" => request.outcome = "none"

Spoken == /\ request.spoke \subseteq {request.conn}
          /\ request.spoke # {} => request.emitted /\ request.at # "attempt"

WholeSoFar ==
    (request.at \in {"leaving", "left"} /\ request.error = "none") \/ request.outcome = "ok" =>
        request.conn \in Conns /\ conns[request.conn].done /\ request.calls # "partial"

RequestInv == request \in RequestSet /\ Attended /\ Spoken /\ WholeSoFar
StreamInv == ConnsInv /\ RequestInv

LEMMA StartCloseConn ==
    ASSUME NEW c \in ConnSet
    PROVE  /\ StartClose(c) \in ConnSet /\ StartClose(c).queue = c.queue
           /\ StartClose(c).done = c.done /\ StartClose(c).stop = c.stop
           /\ StartClose(c).worker = c.worker /\ StartClose(c).response = c.response
           /\ StartClose(c).abandoned = c.abandoned
BY DEF StartClose, ConnSet

LEMMA StoppedConn ==
    ASSUME NEW c \in ConnSet
    PROVE  /\ StartClose(c) \in ConnSet /\ Stopped(c) \in ConnSet /\ WorkerEnds(c) \in ConnSet
           /\ EndIsKnown(c) => EndIsKnown(Stopped(c)) /\ EndIsKnown(WorkerEnds(c))
           /\ Follows(c, Stopped(c)) /\ Follows(c, WorkerEnds(c))
           /\ Stopped(c).abandoned = c.abandoned /\ WorkerEnds(c).abandoned = c.abandoned
           /\ Stopped(c).done = c.done /\ Stopped(c).stop
<1>2. WorkerEnds(c) \in ConnSet /\ WorkerEnds(c).queue = c.queue /\ WorkerEnds(c).done = c.done
      /\ WorkerEnds(c).worker = "ended" /\ WorkerEnds(c).response = c.response
      /\ WorkerEnds(c).abandoned = c.abandoned
  BY StartCloseConn DEF WorkerEnds, ConnSet
<1> DEFINE d == [c EXCEPT !.stop = TRUE, !.queue = <<>>]
<1>3. d \in ConnSet /\ d.queue = <<>> /\ d.done = c.done /\ d.stop
      /\ d.worker = c.worker /\ d.response = c.response /\ d.abandoned = c.abandoned
  <2>1. <<>> \in Seq(Chunks)
    OBVIOUS
  <2> QED BY <2>1 DEF ConnSet
<1>4. Stopped(c) = StartClose(d)
  BY DEF Stopped
<1> HIDE DEF d
<1>5. Stopped(c) \in ConnSet /\ Stopped(c).queue = <<>> /\ Stopped(c).done = c.done
      /\ Stopped(c).worker = c.worker /\ Stopped(c).response = c.response
      /\ Stopped(c).abandoned = c.abandoned /\ Stopped(c).stop
  BY <1>3, <1>4, StartCloseConn
<1> QED BY StartCloseConn, <1>2, <1>5 DEF EndIsKnown, Follows, Finished

LEMMA PutConn ==
    ASSUME NEW c \in ConnSet, NEW e \in Chunks
    PROVE  /\ Put(c, e) \in ConnSet
           /\ Put(c, e).done = c.done /\ Put(c, e).worker = c.worker
           /\ Put(c, e).response = c.response /\ Put(c, e).abandoned = c.abandoned
           /\ EndIsKnown(c) /\ (c.done \/ e # "done") => EndIsKnown(Put(c, e))
<1>1. CASE c.stop
  BY <1>1 DEF Put
<1>2. CASE ~c.stop
  <2>1. Put(c, e) = [c EXCEPT !.queue = Append(c.queue, e)]
    BY <1>2 DEF Put
  <2>2. Append(c.queue, e) \in Seq(Chunks) /\ Len(Append(c.queue, e)) = Len(c.queue) + 1
        /\ \A i \in 1..(Len(c.queue) + 1) :
              Append(c.queue, e)[i] = IF i <= Len(c.queue) THEN c.queue[i] ELSE e
    BY DEF ConnSet
  <2>3. Put(c, e) \in ConnSet /\ Put(c, e).queue = Append(c.queue, e)
        /\ Put(c, e).done = c.done /\ Put(c, e).worker = c.worker
        /\ Put(c, e).response = c.response /\ Put(c, e).abandoned = c.abandoned
    BY <2>1, <2>2 DEF ConnSet
  <2>4. ASSUME EndIsKnown(c), c.done \/ e # "done" PROVE EndIsKnown(Put(c, e))
    <3> SUFFICES ASSUME NEW i \in 1..(Len(c.queue) + 1), Append(c.queue, e)[i] = "done"
                 PROVE  c.done
      BY <2>2, <2>3 DEF EndIsKnown
    <3>1. Len(c.queue) \in Nat
      BY DEF ConnSet
    <3> QED BY <2>2, <2>4, <3>1 DEF EndIsKnown
  <2> QED BY <2>3, <2>4
<1> QED BY <1>1, <1>2 DEF ConnSet

\* The chunk that is taken, and what is left.
LEMMA TakenConn ==
    ASSUME NEW c \in ConnSet, EndIsKnown(c), c.queue # <<>>,
           NEW rest, rest = [c EXCEPT !.queue = Tail(@)]
    PROVE  /\ rest \in ConnSet /\ EndIsKnown(rest) /\ Follows(c, rest)
           /\ rest.abandoned = c.abandoned /\ rest.done = c.done
           /\ c.queue[1] \in Chunks /\ (c.queue[1] = "done" => c.done)
<1>1. c.queue \in Seq(Chunks) /\ Len(c.queue) \in Nat \ {0}
  BY DEF ConnSet
<1>2. Tail(c.queue) \in Seq(Chunks) /\ Len(Tail(c.queue)) = Len(c.queue) - 1
      /\ \A i \in 1..(Len(c.queue) - 1) : Tail(c.queue)[i] = c.queue[i + 1]
  BY <1>1
<1>3. rest \in ConnSet /\ rest.queue = Tail(c.queue) /\ rest.done = c.done
      /\ rest.worker = c.worker /\ rest.response = c.response /\ rest.abandoned = c.abandoned
  BY <1>2 DEF ConnSet
<1>4. EndIsKnown(rest)
  BY <1>1, <1>2, <1>3 DEF EndIsKnown
<1> QED BY <1>1, <1>3, <1>4 DEF EndIsKnown, Follows, Finished

\* One connection changes as it may.
LEMMA SetConn ==
    ASSUME ConnsInv, NEW k \in Conns, NEW d \in ConnSet, EndIsKnown(d),
           Follows(conns[k], d), Set(k, d), d.abandoned => conns[k].abandoned \/ GivenUp(k)
    PROVE  /\ ConnsInv' /\ Grown /\ Len(conns') = Len(conns) /\ conns'[k] = d
           /\ \A j \in Conns : j # k => conns'[j] = conns[j]
<1>1. conns' \in Seq(ConnSet) /\ Len(conns') = Len(conns)
      /\ \A j \in Conns : conns'[j] = IF j = k THEN d ELSE conns[j]
  BY DEF ConnsInv, Conns, Set
<1> QED BY <1>1 DEF ConnsInv, Conns, Grown, Follows

LEMMA SameConns == ConnsInv /\ UNCHANGED conns => ConnsInv' /\ Grown
BY DEF ConnsInv, Grown, Follows, Conns, EndIsKnown

\* Where the request itself does not move, its facts stay.
LEMMA SameRequest ==
    ASSUME StreamInv, ConnsInv', Grown, UNCHANGED request, closing' \subseteq closing,
           owners' \subseteq owners, Len(conns') = Len(conns)
    PROVE  RequestInv'
BY DEF StreamInv, RequestInv, Attended, Spoken, WholeSoFar, Grown, Follows, Conns, GivenUp

-----------------------------------------------------------------------------
(* The connections' own steps. *)

LEMMA ConnectStep == ASSUME StreamInv, NEW k \in Conns, Connect(k) PROVE StreamInv' /\ Grown
<1> DEFINE c == conns[k]
<1>1. c \in ConnSet /\ EndIsKnown(c) /\ c.worker = "connecting"
  BY DEF StreamInv, ConnsInv, Conns, Connect
<1>2. PICK d \in ConnSet : /\ Set(k, d) /\ EndIsKnown(d) /\ Follows(c, d)
                           /\ d.abandoned = c.abandoned
  <2>1. CASE Set(k, [c EXCEPT !.worker = "reading", !.response = "open"])
    <3> DEFINE d == [c EXCEPT !.worker = "reading", !.response = "open"]
    <3>1. d \in ConnSet /\ d.queue = c.queue /\ d.done = c.done /\ d.abandoned = c.abandoned
      BY <1>1 DEF ConnSet
    <3>2. EndIsKnown(d) /\ Follows(c, d)
      BY <1>1, <3>1 DEF EndIsKnown, Follows, Finished
    <3> QED BY <2>1, <3>1, <3>2
  <2>2. ASSUME NEW response \in {"none", "open"}, NEW e \in {"error", "refused"},
               Set(k, WorkerEnds([Put(c, e) EXCEPT !.response = response]))
        PROVE  \E d \in ConnSet : /\ Set(k, d) /\ EndIsKnown(d) /\ Follows(c, d)
                                  /\ d.abandoned = c.abandoned
    <3>1. PICK b \in ConnSet : b = Put(c, e) /\ EndIsKnown(b) /\ b.done = c.done
                               /\ b.abandoned = c.abandoned
      BY <1>1, PutConn DEF Chunks
    <3> DEFINE d == [b EXCEPT !.response = response]
    <3>2. d \in ConnSet /\ d.queue = b.queue /\ d.done = b.done /\ d.abandoned = b.abandoned
      BY DEF ConnSet
    <3>3. EndIsKnown(d) /\ Set(k, WorkerEnds(d))
      BY <2>2, <3>1, <3>2 DEF EndIsKnown
    <3> HIDE DEF d
    <3>4. WorkerEnds(d) \in ConnSet /\ EndIsKnown(WorkerEnds(d)) /\ Follows(d, WorkerEnds(d))
          /\ WorkerEnds(d).abandoned = d.abandoned
      BY <3>2, <3>3, StoppedConn
    <3>5. Follows(c, WorkerEnds(d))
      BY <1>1, <3>1, <3>2, <3>4 DEF Follows, Finished
    <3> QED BY <3>1, <3>2, <3>3, <3>4, <3>5
  <2> QED BY <2>1, <2>2 DEF Connect
<1>3. ConnsInv' /\ Grown /\ Len(conns') = Len(conns)
  BY <1>2, SetConn DEF StreamInv
<1> QED BY <1>3, SameRequest DEF StreamInv, Connect

LEMMA ReadStep == ASSUME StreamInv, NEW k \in Conns, Read(k) PROVE StreamInv' /\ Grown
<1> DEFINE c == conns[k]
<1>1. c \in ConnSet /\ EndIsKnown(c) /\ c.worker = "reading"
  <2>1. c.worker = "reading"
    BY DEF Read
  <2> QED BY <2>1 DEF StreamInv, ConnsInv, Conns
<1>2. PICK d \in ConnSet : /\ Set(k, d) /\ EndIsKnown(d) /\ Follows(c, d)
                           /\ d.abandoned = c.abandoned
  <2>1. CASE Set(k, WorkerEnds(c))
    BY <1>1, <2>1, StoppedConn
  <2>2. ASSUME NEW e \in Events,
               Set(k, [Put(c, e) EXCEPT !.chunks = @ + 1, !.done = @ \/ e = "done"])
        PROVE  \E d \in ConnSet : /\ Set(k, d) /\ EndIsKnown(d) /\ Follows(c, d)
                                  /\ d.abandoned = c.abandoned
    <3>1. PICK b \in ConnSet : b = Put(c, e) /\ b.abandoned = c.abandoned
      BY <1>1, PutConn DEF Chunks
    <3>5. PICK v \in BOOLEAN : v = (b.done \/ e = "done")
      OBVIOUS
    <3> DEFINE d == [b EXCEPT !.chunks = @ + 1, !.done = v]
    <3>2. d \in ConnSet /\ d.queue = b.queue /\ d.done = v /\ d.abandoned = b.abandoned
          /\ d.worker = b.worker
      <4>1. PICK n \in Nat : n = b.chunks + 1
        BY DEF ConnSet
      <4>2. d = [b EXCEPT !.chunks = n, !.done = v]
        BY <4>1
      <4> HIDE DEF d
      <4> QED BY <4>2 DEF ConnSet
    <3>3. \A i \in 1..Len(b.queue) : b.queue[i] = "done" => c.done \/ e = "done"
      <4>1. CASE c.stop
        BY <1>1, <3>1, <4>1 DEF Put, EndIsKnown
      <4>2. CASE ~c.stop
        <5>1. b = [c EXCEPT !.queue = Append(c.queue, e)]
          BY <3>1, <4>2 DEF Put
        <5>2. b.queue = Append(c.queue, e) /\ c.queue \in Seq(Chunks) /\ e \in Chunks
          BY <1>1, <5>1 DEF ConnSet, Chunks
        <5> QED BY <1>1, <5>2 DEF EndIsKnown
      <4> QED BY <4>1, <4>2
    <3>4. b.done = c.done
      BY <1>1, <3>1, PutConn DEF Chunks
    <3>6. EndIsKnown(d) /\ Follows(c, d)
      <4>1. EndIsKnown(d)
        BY <3>2, <3>3, <3>4, <3>5 DEF EndIsKnown
      <4>2. b.worker = c.worker /\ ~Finished(c)
        BY <1>1, <3>1, PutConn DEF Chunks, ConnSet, Finished
      <4> QED BY <3>2, <3>4, <3>5, <4>1, <4>2 DEF Follows
    <3>7. Set(k, d)
      BY <2>2, <3>1, <3>5
    <3> QED BY <3>1, <3>2, <3>6, <3>7
  <2>3. ASSUME NEW e \in {"eof", "error", "garbage"}, Set(k, WorkerEnds(Put(c, e)))
        PROVE  \E d \in ConnSet : /\ Set(k, d) /\ EndIsKnown(d) /\ Follows(c, d)
                                  /\ d.abandoned = c.abandoned
    <3>1. PICK b \in ConnSet : b = Put(c, e) /\ EndIsKnown(b) /\ b.done = c.done
                               /\ b.abandoned = c.abandoned
      BY <1>1, PutConn DEF Chunks
    <3>2. WorkerEnds(b) \in ConnSet /\ EndIsKnown(WorkerEnds(b)) /\ Follows(b, WorkerEnds(b))
          /\ WorkerEnds(b).abandoned = b.abandoned
      BY <3>1, StoppedConn
    <3>3. Follows(c, WorkerEnds(b))
      BY <1>1, <3>1, <3>2 DEF Follows, Finished
    <3> QED BY <2>3, <3>1, <3>2, <3>3
  <2> QED BY <2>1, <2>2, <2>3 DEF Read
<1>3. ConnsInv' /\ Grown /\ Len(conns') = Len(conns)
  BY <1>2, SetConn DEF StreamInv
<1> QED BY <1>3, SameRequest DEF StreamInv, Read

LEMMA CloseResponseStep == ASSUME StreamInv, NEW k \in Conns, CloseResponse(k) PROVE StreamInv' /\ Grown
<1> DEFINE c == conns[k]
<1>1. c \in ConnSet /\ EndIsKnown(c)
  BY DEF StreamInv, ConnsInv, Conns
<1>2. PICK response \in {"closed", "broken"} :
         Set(k, [c EXCEPT !.closer = "ended", !.response = response])
  BY DEF CloseResponse
<1> DEFINE d == [c EXCEPT !.closer = "ended", !.response = response]
<1>3. d \in ConnSet /\ d.queue = c.queue /\ d.done = c.done /\ d.abandoned = c.abandoned
      /\ d.worker = c.worker /\ d.response # "open"
  BY <1>1 DEF ConnSet
<1>4. EndIsKnown(d) /\ Follows(c, d) /\ Set(k, d)
  BY <1>1, <1>2, <1>3 DEF EndIsKnown, Follows, Finished
<1> HIDE DEF d
<1>5. ConnsInv' /\ Grown /\ Len(conns') = Len(conns)
  BY <1>3, <1>4, SetConn DEF StreamInv
<1> QED BY <1>5, SameRequest DEF StreamInv, CloseResponse

LEMMA PendingReadStep == ASSUME StreamInv, NEW k \in Conns, PendingReadEnds(k) PROVE StreamInv' /\ Grown
<1>1. ConnsInv' /\ Grown
  BY SameConns DEF StreamInv, PendingReadEnds
<1> QED BY <1>1, SameRequest DEF StreamInv, PendingReadEnds

LEMMA DroppedStep == ASSUME StreamInv, NEW k \in Conns, DroppedIsClosed(k) PROVE StreamInv' /\ Grown
<1> DEFINE c == conns[k]
<1>1. c \in ConnSet /\ EndIsKnown(c)
  BY DEF StreamInv, ConnsInv, Conns
<1>2. PICK d \in ConnSet : /\ Set(k, d) /\ EndIsKnown(d) /\ Follows(c, d)
                           /\ d.abandoned => c.abandoned
  <2>1. CASE c.stop
    <3> DEFINE d == [c EXCEPT !.abandoned = FALSE]
    <3>1. d \in ConnSet /\ d.queue = c.queue /\ d.done = c.done /\ ~d.abandoned
          /\ d.worker = c.worker /\ d.response = c.response
      BY <1>1 DEF ConnSet
    <3>2. EndIsKnown(d) /\ Follows(c, d) /\ Set(k, d)
      BY <1>1, <2>1, <3>1 DEF EndIsKnown, Follows, Finished, DroppedIsClosed
    <3> QED BY <3>1, <3>2
  <2>2. CASE ~c.stop
    BY <1>1, <2>2, StoppedConn DEF DroppedIsClosed
  <2> QED BY <2>1, <2>2
<1>3. ConnsInv' /\ Grown /\ Len(conns') = Len(conns)
  BY <1>2, SetConn DEF StreamInv
<1> QED BY <1>3, SameRequest DEF StreamInv, DroppedIsClosed

-----------------------------------------------------------------------------
(* The request's steps. *)

Errors == {"none", "cancelled", "cleanup", "budget", "protocol", "refused", "eof", "broken"}

\* An attempt is left with an error, or with what it was left with.
LEMMA LeftStep ==
    ASSUME StreamInv, NEW error \in Errors, Left(error), request.at # "idle", ConnsInv', Grown,
           Len(conns') >= Len(conns), owners' \subseteq Conns', closing' \subseteq Conns',
           error # "none" \/ (request.at = "leaving" /\ error = request.error)
    PROVE  RequestInv'
<1>1. /\ request' \in RequestSet /\ request'.at = "left" /\ request'.error = error
      /\ request'.conn = request.conn /\ request'.spoke = request.spoke
      /\ request'.emitted = request.emitted /\ request'.outcome = request.outcome
      /\ request'.calls = request.calls
  BY DEF StreamInv, RequestInv, RequestSet, Left, Errors
<1>2. Attended'
  BY <1>1 DEF StreamInv, RequestInv, Attended, ConnsInv
<1>3. Spoken' /\ WholeSoFar'
  BY <1>1 DEF StreamInv, RequestInv, Spoken, WholeSoFar, Grown, Follows
<1> QED BY <1>1, <1>2, <1>3 DEF RequestInv

\* An attempt begins to be left: its connection is asked to stop.
LEMMA LeavingStep ==
    ASSUME StreamInv, NEW error \in Errors \ {"none"}, NEW reading \in BOOLEAN,
           request.at = "reading", LeaveWith(request, error, reading), UNCHANGED <<owners, closing>>
    PROVE  StreamInv' /\ Grown
<1>1. request.conn \in Conns /\ conns[request.conn] \in ConnSet /\ EndIsKnown(conns[request.conn])
  BY DEF StreamInv, RequestInv, Attended, ConnsInv, Conns
<1>2. Set(request.conn, Stopped(conns[request.conn]))
  BY DEF LeaveWith, Set
<1>3. ConnsInv' /\ Grown /\ Len(conns') = Len(conns)
      /\ conns'[request.conn] = Stopped(conns[request.conn])
  BY <1>1, <1>2, StoppedConn, SetConn DEF StreamInv
<1>4. /\ request' \in RequestSet /\ request'.at = "leaving" /\ request'.error = error
      /\ request'.conn = request.conn /\ request'.spoke = request.spoke
      /\ request'.emitted = request.emitted /\ request'.outcome = request.outcome
      /\ request'.calls = request.calls
  BY DEF StreamInv, RequestInv, RequestSet, LeaveWith, Errors
<1>5. ~conns'[request.conn].abandoned
  BY <1>1, <1>3, StoppedConn DEF StreamInv, RequestInv, Attended
<1>6. Attended'
  BY <1>1, <1>3, <1>4, <1>5 DEF StreamInv, RequestInv, Attended, Conns
<1>7. Spoken' /\ WholeSoFar'
  BY <1>3, <1>4 DEF StreamInv, RequestInv, Spoken, WholeSoFar, Grown, Follows
<1> QED BY <1>3, <1>4, <1>6, <1>7 DEF StreamInv, RequestInv

LEMMA BeginRequestStep == ASSUME StreamInv, BeginRequest PROVE StreamInv' /\ Grown
<1>1. ConnsInv' /\ Grown
  BY SameConns DEF StreamInv, BeginRequest
<1>2. request' \in RequestSet
  BY DEF BeginRequest, NoRequest, RequestSet
<1>3. Attended' /\ Spoken' /\ WholeSoFar'
  BY DEF BeginRequest, NoRequest, Attended, Spoken, WholeSoFar, StreamInv, RequestInv, ConnsInv, Conns
<1> QED BY <1>1, <1>2, <1>3 DEF StreamInv, RequestInv

LEMMA AttemptStep == ASSUME StreamInv, Attempt PROVE StreamInv' /\ Grown
<1> DEFINE k == Len(conns) + 1
           seen == [j \in Conns |-> IF j \in owners THEN Stopped(conns[j]) ELSE conns[j]]
<1>1. Len(conns) \in Nat /\ Conns = 1..Len(conns) /\ \A j \in Conns : conns[j] \in ConnSet /\ EndIsKnown(conns[j])
  BY DEF StreamInv, ConnsInv, Conns
<1>2. \A j \in Conns : /\ seen[j] \in ConnSet /\ EndIsKnown(seen[j])
                       /\ Follows(conns[j], seen[j]) /\ seen[j].abandoned = conns[j].abandoned
  BY <1>1, StoppedConn DEF Follows
<1>3. seen \in Seq(ConnSet) /\ Len(seen) = Len(conns)
  <2>1. seen \in [1..Len(conns) -> ConnSet]
    BY <1>1, <1>2
  <2> QED BY <1>1, <2>1, LenProperties
<1>4. CASE cancelled
  <2>1. Left("cancelled") /\ UNCHANGED <<conns, owners, closing>> /\ request.at = "attempt"
    BY <1>4 DEF Attempt
  <2>2. ConnsInv' /\ Grown
    BY <2>1, SameConns DEF StreamInv
  <2>3. Len(conns') >= Len(conns) /\ owners' \subseteq Conns' /\ closing' \subseteq Conns'
    BY <1>1, <2>1 DEF StreamInv, RequestInv, Attended, Conns
  <2>4. RequestInv'
    BY <2>1, <2>2, <2>3, LeftStep DEF Errors
  <2> QED BY <2>2, <2>4 DEF StreamInv
<1>5. CASE ~cancelled /\ ~(MayOpen /\ Len(conns) < plan.connections)
  <2>1. conns' = seen /\ Left("cleanup") /\ owners' = Unfinished /\ UNCHANGED closing
        /\ request.at = "attempt"
    BY <1>5 DEF Attempt
  <2> HIDE DEF seen
  <2>2. ConnsInv' /\ Grown /\ Len(conns') = Len(conns)
    BY <1>1, <1>2, <1>3, <2>1 DEF ConnsInv, Conns, Grown
  <2>3. owners' \subseteq Conns' /\ closing' \subseteq Conns'
    BY <2>1, <2>2 DEF StreamInv, RequestInv, Attended, Unfinished, Conns
  <2>4. RequestInv'
    BY <1>1, <2>1, <2>2, <2>3, LeftStep DEF Errors
  <2> QED BY <2>2, <2>4 DEF StreamInv
<1>6. CASE ~cancelled /\ MayOpen /\ Len(conns) < plan.connections
  <2>1. /\ conns' = Append(seen, NewConnection) /\ owners' = Unfinished \cup {k}
        /\ request' = [request EXCEPT !.at = "reading", !.conn = k] /\ UNCHANGED closing
        /\ request.at = "attempt"
    BY <1>6 DEF Attempt
  <2> HIDE DEF seen
  <2>2. NewConnection \in ConnSet /\ EndIsKnown(NewConnection) /\ ~NewConnection.abandoned
    <3>1. <<>> \in Seq(Chunks)
      OBVIOUS
    <3> QED BY <3>1 DEF NewConnection, ConnSet, EndIsKnown
  <2>3. conns' \in Seq(ConnSet) /\ Len(conns') = k /\ conns'[k] = NewConnection
        /\ \A j \in Conns : conns'[j] = seen[j]
    BY <1>1, <1>3, <2>1, <2>2
  <2>4. ConnsInv' /\ Grown
    BY <1>1, <1>2, <2>2, <2>3 DEF ConnsInv, Conns, Grown
  <2>5. /\ request' \in RequestSet /\ request'.conn = k /\ request'.at = "reading"
        /\ request'.spoke = request.spoke /\ request.spoke = {}
        /\ request'.outcome = "none" /\ request.outcome = "none"
    <3>1. request \in RequestSet /\ k \in Nat
      BY <1>1 DEF StreamInv, RequestInv
    <3>2. request.outcome = "none" /\ request.spoke = {}
      BY <2>1 DEF StreamInv, RequestInv, Attended, Spoken
    <3> HIDE DEF k
    <3> QED BY <2>1, <3>1, <3>2 DEF RequestSet
  <2>6. Attended'
    BY <1>1, <2>1, <2>2, <2>3, <2>5 DEF StreamInv, RequestInv, Attended, Unfinished, Conns
  <2> QED BY <2>4, <2>5, <2>6 DEF StreamInv, RequestInv, Spoken, WholeSoFar
<1> QED BY <1>4, <1>5, <1>6

LEMMA GiveUpReadingStep == ASSUME StreamInv, GiveUpReading PROVE StreamInv' /\ Grown
<1>1. PICK error \in Errors \ {"none"}, reading \in BOOLEAN : LeaveWith(request, error, reading)
  BY DEF GiveUpReading, Errors
<1> QED BY <1>1, LeavingStep DEF GiveUpReading

\* The request after an event: what it has said is its own.
LEMMA AfterEventRequest ==
    ASSUME NEW r \in RequestSet, NEW e \in Events
    PROVE  /\ AfterEvent(r, e) \in RequestSet
           /\ AfterEvent(r, e).at = r.at /\ AfterEvent(r, e).conn = r.conn
           /\ AfterEvent(r, e).error = r.error /\ AfterEvent(r, e).outcome = r.outcome
           /\ AfterEvent(r, e).spoke = r.spoke /\ (r.emitted => AfterEvent(r, e).emitted)
           /\ e = "done" => AfterEvent(r, e).calls # "partial"
<1> DEFINE p == Publishes(r)
<1>1. /\ p \in RequestSet /\ p.at = r.at /\ p.conn = r.conn /\ p.error = r.error
      /\ p.outcome = r.outcome /\ p.spoke = r.spoke /\ (r.emitted => p.emitted)
      /\ p.calls # "partial"
  <2>1. PICK c \in {"none", "published"} : c = IF r.calls = "partial" THEN "published" ELSE r.calls
    BY DEF RequestSet
  <2>2. PICK m \in BOOLEAN : m = (r.emitted \/ r.calls = "partial")
    OBVIOUS
  <2>3. p = [r EXCEPT !.calls = c, !.emitted = m, !.ended = TRUE]
    BY <2>1, <2>2 DEF Publishes
  <2> HIDE DEF p
  <2>4. p \in RequestSet /\ p.calls = c /\ p.emitted = m
        /\ p.at = r.at /\ p.conn = r.conn /\ p.error = r.error
        /\ p.outcome = r.outcome /\ p.spoke = r.spoke
    BY <2>3 DEF RequestSet
  <2> QED BY <2>2, <2>4
<1>2. CASE e = "text"
  <2>1. AfterEvent(r, e) = [r EXCEPT !.emitted = TRUE]
    BY <1>2 DEF AfterEvent
  <2> QED BY <1>2, <2>1 DEF RequestSet
<1>3. CASE e = "call"
  <2>1. AfterEvent(r, e) = [r EXCEPT !.emitted = TRUE, !.calls = "partial"]
    BY <1>3 DEF AfterEvent
  <2> QED BY <1>3, <2>1 DEF RequestSet
<1>4. CASE e = "finish"
  <2>1. AfterEvent(r, e) = p
    BY <1>4 DEF AfterEvent
  <2> HIDE DEF p
  <2> QED BY <1>1, <1>4, <2>1
<1>5. CASE e = "done"
  <2>1. AfterEvent(r, e) = [p EXCEPT !.emitted = TRUE]
    BY <1>5 DEF AfterEvent
  <2> HIDE DEF p
  <2> DEFINE q == [p EXCEPT !.emitted = TRUE]
  <2>2. /\ q \in RequestSet /\ q.at = p.at /\ q.conn = p.conn /\ q.error = p.error
        /\ q.outcome = p.outcome /\ q.spoke = p.spoke /\ q.emitted /\ q.calls = p.calls
    BY <1>1 DEF RequestSet
  <2> HIDE DEF q
  <2> QED BY <1>1, <1>5, <2>1, <2>2 DEF q
<1> QED BY <1>2, <1>3, <1>4, <1>5 DEF Events

LEMMA TakeChunkStep == ASSUME StreamInv, TakeChunk PROVE StreamInv' /\ Grown
<1> DEFINE k == request.conn
           c == conns[k]
           e == c.queue[1]
           rest == [c EXCEPT !.queue = Tail(@)]
<1>1. request.at = "reading" /\ c.queue # <<>> /\ UNCHANGED <<owners, closing>>
  BY DEF TakeChunk
<1>2. k \in Conns /\ c \in ConnSet /\ EndIsKnown(c) /\ k \in Nat
  BY <1>1 DEF StreamInv, ConnsInv, RequestInv, Attended, Conns
<1>3. /\ rest \in ConnSet /\ EndIsKnown(rest) /\ Follows(c, rest)
      /\ rest.abandoned = c.abandoned /\ rest.done = c.done
      /\ e \in Chunks /\ (e = "done" => c.done)
  BY <1>1, <1>2, TakenConn
<1>4. ~c.abandoned /\ request.outcome = "none"
  BY <1>1 DEF StreamInv, RequestInv, Attended
<1> DEFINE stopped == Stopped(rest)
<1>5. stopped \in ConnSet /\ EndIsKnown(stopped) /\ Follows(c, stopped)
      /\ ~stopped.abandoned /\ stopped.done = c.done
  <2> HIDE DEF rest
  <2> QED BY <1>3, <1>4, StoppedConn DEF Follows
<1> HIDE DEF rest, stopped
<1>6. ASSUME Set(k, stopped), NEW r \in RequestSet, request' = r, r.at = "leaving", r.conn = k,
             r.outcome = "none", r.spoke \subseteq {k}, r.spoke # {} => r.emitted,
             r.error = "none" => e = "done" /\ r.calls # "partial"
      PROVE  StreamInv' /\ Grown
  <2>1. ConnsInv' /\ Grown /\ Len(conns') = Len(conns) /\ conns'[k] = stopped
    BY <1>2, <1>5, <1>6, SetConn DEF StreamInv
  <2>2. Attended'
    BY <1>1, <1>2, <1>5, <1>6, <2>1 DEF StreamInv, RequestInv, Attended, Conns
  <2>3. WholeSoFar'
    <3>1. ASSUME request'.error = "none" PROVE /\ request'.conn \in Conns' /\ conns'[k].done
                                               /\ request'.calls # "partial" /\ request'.conn = k
      BY <1>2, <1>3, <1>5, <1>6, <2>1, <3>1 DEF Conns
    <3> QED BY <1>6, <3>1 DEF WholeSoFar
  <2> QED BY <1>6, <2>1, <2>2, <2>3 DEF StreamInv, RequestInv, Spoken
<1>7. CASE e \notin Events
  <2>1. PICK error \in Errors \ {"none"} :
           request' = [request EXCEPT !.at = "leaving", !.error = error]
    BY <1>3, <1>7 DEF TakeChunk, Chunks, Events, Errors
  <2>2. Set(k, stopped)
    BY <1>3, <1>7 DEF TakeChunk, Chunks, Events, rest, stopped
  <2>3. request' \in RequestSet /\ request'.at = "leaving" /\ request'.conn = k
        /\ request'.outcome = "none" /\ request'.spoke = request.spoke
        /\ request'.emitted = request.emitted /\ request'.error = error
    BY <1>4, <2>1 DEF StreamInv, RequestInv, RequestSet, Errors
  <2> QED BY <1>6, <2>2, <2>3 DEF StreamInv, RequestInv, Spoken
<1> DEFINE r == AfterEvent(request, e)
           said == [r EXCEPT !.spoke = IF r.emitted THEN @ \cup {k} ELSE @]
<1>8. CASE e \in Events
  <2>1. /\ r \in RequestSet /\ r.at = "reading" /\ r.conn = k /\ r.error = request.error
        /\ r.outcome = "none" /\ r.spoke = request.spoke /\ (request.emitted => r.emitted)
        /\ e = "done" => r.calls # "partial"
    BY <1>1, <1>4, <1>8, AfterEventRequest DEF StreamInv, RequestInv
  <2>2. /\ said \in RequestSet /\ said.at = "reading" /\ said.conn = k /\ said.error = request.error
        /\ said.outcome = "none" /\ said.spoke \subseteq {k} /\ (said.spoke # {} => said.emitted)
        /\ e = "done" => said.calls # "partial"
    <3>1. PICK spoke \in SUBSET Nat : spoke = IF r.emitted THEN r.spoke \cup {k} ELSE r.spoke
      BY <1>2, <2>1 DEF RequestSet
    <3>2. said = [r EXCEPT !.spoke = spoke]
      BY <3>1
    <3>3. spoke \subseteq {k} /\ (spoke # {} => r.emitted)
      BY <2>1, <3>1 DEF StreamInv, RequestInv, Spoken
    <3> HIDE DEF r, said
    <3>4. said \in RequestSet /\ said.spoke = spoke /\ said.emitted = r.emitted
          /\ said.at = r.at /\ said.conn = r.conn /\ said.error = r.error
          /\ said.outcome = r.outcome /\ said.calls = r.calls
      BY <2>1, <3>2 DEF RequestSet
    <3> QED BY <2>1, <3>3, <3>4
  <2>3. \/ Set(k, [rest EXCEPT !.abandoned = TRUE]) /\ Left("cancelled")
        \/ EndsStream(e) /\ request' = [said EXCEPT !.at = "leaving"] /\ Set(k, stopped)
        \/ request' = said /\ Set(k, rest)
        \/ request' = [request EXCEPT !.at = "leaving", !.error = "protocol"] /\ Set(k, stopped)
    BY <1>8 DEF TakeChunk, Events, rest, stopped
  <2> HIDE DEF said, r
  <2>4. CASE Set(k, [rest EXCEPT !.abandoned = TRUE]) /\ Left("cancelled")
    <3> DEFINE d == [rest EXCEPT !.abandoned = TRUE]
    <3>1. d \in ConnSet /\ d.queue = rest.queue /\ d.done = rest.done
          /\ d.worker = rest.worker /\ d.response = rest.response
      BY <1>3 DEF ConnSet
    <3>2. EndIsKnown(d) /\ Follows(c, d)
      BY <1>3, <3>1 DEF EndIsKnown, Follows, Finished
    <3>3. GivenUp(k)
      BY <1>1, <2>4 DEF GivenUp, Left, StreamInv, RequestInv, RequestSet
    <3>4. ConnsInv' /\ Grown /\ Len(conns') = Len(conns)
      <4> HIDE DEF d
      <4> QED BY <1>2, <2>4, <3>1, <3>2, <3>3, SetConn DEF StreamInv, d
    <3>5. Len(conns') >= Len(conns) /\ owners' \subseteq Conns' /\ closing' \subseteq Conns'
      BY <1>1, <3>4 DEF StreamInv, RequestInv, Attended, Conns, ConnsInv
    <3>6. RequestInv'
      BY <1>1, <2>4, <3>4, <3>5, LeftStep DEF Errors
    <3> QED BY <3>4, <3>6 DEF StreamInv
  <2>5. CASE EndsStream(e) /\ request' = [said EXCEPT !.at = "leaving"] /\ Set(k, stopped)
    <3>1. request' \in RequestSet /\ request'.at = "leaving" /\ request'.conn = k
          /\ request'.outcome = "none" /\ request'.spoke = said.spoke
          /\ request'.emitted = said.emitted /\ request'.error = said.error
          /\ request'.calls = said.calls
      BY <2>2, <2>5 DEF RequestSet
    <3> QED BY <1>6, <2>2, <2>5, <3>1 DEF EndsStream
  <2>6. CASE request' = said /\ Set(k, rest)
    <3>1. ConnsInv' /\ Grown /\ Len(conns') = Len(conns) /\ conns'[k] = rest
      BY <1>2, <1>3, <2>6, SetConn DEF StreamInv
    <3>2. Attended'
      BY <1>1, <1>2, <1>3, <1>4, <2>2, <2>6, <3>1 DEF StreamInv, RequestInv, Attended, Conns
    <3> QED BY <2>2, <2>6, <3>1, <3>2 DEF StreamInv, RequestInv, Spoken, WholeSoFar
  <2>7. CASE request' = [request EXCEPT !.at = "leaving", !.error = "protocol"] /\ Set(k, stopped)
    <3>1. request' \in RequestSet /\ request'.at = "leaving" /\ request'.conn = k
          /\ request'.outcome = "none" /\ request'.spoke = request.spoke
          /\ request'.emitted = request.emitted /\ request'.error = "protocol"
      BY <1>4, <2>7 DEF StreamInv, RequestInv, RequestSet
    <3> QED BY <1>6, <2>7, <3>1 DEF StreamInv, RequestInv, Spoken
  <2> QED BY <2>3, <2>4, <2>5, <2>6, <2>7
<1> QED BY <1>7, <1>8

LEMMA ConnectionEndsStep == ASSUME StreamInv, ConnectionEnds PROVE StreamInv' /\ Grown
<1>1. Left(request.error) /\ request.at = "leaving" /\ UNCHANGED <<conns, closing>>
      /\ owners' \subseteq owners
  BY DEF ConnectionEnds
<1>2. ConnsInv' /\ Grown
  BY <1>1, SameConns DEF StreamInv
<1>3. Len(conns') >= Len(conns) /\ owners' \subseteq Conns' /\ closing' \subseteq Conns'
      /\ request.error \in Errors
  BY <1>1 DEF StreamInv, RequestInv, Attended, Conns, ConnsInv, RequestSet, Errors
<1> QED BY <1>1, <1>2, <1>3, LeftStep DEF StreamInv

\* Where an attempt is left at last, and its read may stay behind.
LEMMA GivenUpStep ==
    ASSUME StreamInv, request.at = "leaving", UNCHANGED <<conns, owners>>,
           NEW error \in Errors \ {"none"}, Left(error),
           closing' \subseteq closing \cup {request.conn}
    PROVE  StreamInv' /\ Grown
<1>1. ConnsInv' /\ Grown
  BY SameConns DEF StreamInv
<1>2. Len(conns') >= Len(conns) /\ owners' \subseteq Conns' /\ closing' \subseteq Conns'
  BY DEF StreamInv, RequestInv, Attended, Conns, ConnsInv
<1> QED BY <1>1, <1>2, LeftStep DEF StreamInv

LEMMA LeavingTimesOutStep == ASSUME StreamInv, LeavingTimesOut PROVE StreamInv' /\ Grown
<1>1. PICK error \in Errors \ {"none"} : Left(error)
  BY DEF LeavingTimesOut, StreamInv, RequestInv, RequestSet, Errors
<1>2. request.at = "leaving" /\ UNCHANGED <<conns, owners>>
      /\ closing' \subseteq closing \cup {request.conn}
  BY DEF LeavingTimesOut
<1> QED BY <1>1, <1>2, GivenUpStep

LEMMA LeavingGivenUpStep ==
    ASSUME StreamInv, NEW error \in Errors \ {"none"}, LeavingGivenUp(error) PROVE StreamInv' /\ Grown
BY GivenUpStep DEF LeavingGivenUp

LEMMA RequestInterruptedStep == ASSUME StreamInv, RequestInterrupted PROVE StreamInv' /\ Grown
<1>1. "cancelled" \in Errors \ {"none"}
  BY DEF Errors
<1>2. CASE request.at = "reading" /\ LeaveWith(request, "cancelled", TRUE) /\ UNCHANGED <<owners, closing>>
  BY <1>1, <1>2, LeavingStep
<1>3. CASE LeavingGivenUp("cancelled")
  BY <1>1, <1>3, LeavingGivenUpStep
<1>4. CASE request.at = "leaving" /\ request.reading /\ closing' = closing \cup {request.conn}
           /\ Left("cancelled") /\ UNCHANGED <<conns, owners>>
  BY <1>1, <1>4, GivenUpStep
<1>5. CASE /\ request.at = "leaving" /\ UNCHANGED <<conns, owners, closing>>
           /\ request' = [request EXCEPT !.reading = TRUE, !.error = "cancelled"]
  <2>1. ConnsInv' /\ Grown
    BY <1>5, SameConns DEF StreamInv
  <2>2. /\ request' \in RequestSet /\ request'.at = "leaving" /\ request'.error = "cancelled"
        /\ request'.conn = request.conn /\ request'.spoke = request.spoke
        /\ request'.emitted = request.emitted /\ request'.outcome = request.outcome
    BY <1>5 DEF StreamInv, RequestInv, RequestSet
  <2>3. Attended' /\ Spoken' /\ WholeSoFar'
    BY <1>5, <2>2 DEF StreamInv, RequestInv, Attended, Spoken, WholeSoFar, Conns
  <2> QED BY <2>1, <2>2, <2>3 DEF StreamInv, RequestInv
<1> QED BY <1>2, <1>3, <1>4, <1>5 DEF RequestInterrupted

LEMMA RetryOrReturnStep == ASSUME StreamInv, RetryOrReturn PROVE StreamInv' /\ Grown
<1>1. ConnsInv' /\ Grown /\ UNCHANGED <<conns, owners, closing>> /\ request.at = "left"
  BY SameConns DEF StreamInv, RetryOrReturn
<1>2. CASE request' = [NoRequest EXCEPT !.outcome = "cancelled"]
  <2>1. /\ request' \in RequestSet /\ request'.at = "idle" /\ request'.conn = 0
        /\ request'.spoke = {} /\ request'.outcome = "cancelled"
    BY <1>2 DEF NoRequest, RequestSet
  <2>2. Attended'
    BY <1>1, <2>1 DEF StreamInv, RequestInv, Attended, ConnsInv, Conns
  <2> QED BY <1>1, <2>1, <2>2 DEF StreamInv, RequestInv, Spoken, WholeSoFar
<1>3. CASE /\ SaidNothing
           /\ request' = [NoRequest EXCEPT !.at = "attempt", !.attempt = request.attempt + 1,
                                           !.spoke = request.spoke]
  <2>1. request.spoke = {} /\ request.attempt + 1 \in Nat
    BY <1>3 DEF SaidNothing, StreamInv, RequestInv, Spoken, RequestSet
  <2>2. /\ request' \in RequestSet /\ request'.at = "attempt" /\ request'.conn = 0
        /\ request'.spoke = {} /\ request'.outcome = "none"
    BY <1>3, <2>1 DEF NoRequest, RequestSet
  <2>3. Attended'
    BY <1>1, <2>2 DEF StreamInv, RequestInv, Attended, ConnsInv, Conns
  <2> QED BY <1>1, <2>2, <2>3 DEF StreamInv, RequestInv, Spoken, WholeSoFar
<1>4. ASSUME NEW outcome, outcome \in {"ok", "cancelled", "failed"}, outcome = "ok" => request.error = "none",
             request' = [request EXCEPT !.at = "idle", !.outcome = outcome]
      PROVE  StreamInv' /\ Grown
  <2>1. /\ request' \in RequestSet /\ request'.at = "idle" /\ request'.error = request.error
        /\ request'.conn = request.conn /\ request'.spoke = request.spoke
        /\ request'.emitted = request.emitted /\ request'.outcome = outcome
        /\ request'.calls = request.calls
    BY <1>4 DEF StreamInv, RequestInv, RequestSet
  <2> QED BY <1>1, <1>4, <2>1 DEF StreamInv, RequestInv, Attended, Spoken, WholeSoFar, Conns
<1> QED BY <1>2, <1>3, <1>4 DEF RetryOrReturn

\* An interrupt outside a request, or before its connection is opened, ends it.
LEMMA RequestDroppedStep ==
    ASSUME StreamInv, request.at \in {"idle", "attempt"}, UNCHANGED <<conns, owners, closing>>,
           request' = [request EXCEPT !.at = "idle", !.outcome = "cancelled"]
    PROVE  StreamInv' /\ Grown
<1>1. ConnsInv' /\ Grown
  BY SameConns DEF StreamInv
<1>2. /\ request' \in RequestSet /\ request'.at = "idle" /\ request'.error = request.error
      /\ request'.conn = request.conn /\ request'.spoke = request.spoke
      /\ request'.emitted = request.emitted /\ request'.outcome = "cancelled"
  BY DEF StreamInv, RequestInv, RequestSet
<1> QED BY <1>1, <1>2 DEF StreamInv, RequestInv, Attended, Spoken, WholeSoFar, Conns

\* Any step of the task.
LEMMA StreamInvStep == ASSUME StreamInv, [Next]_vars PROVE StreamInv' /\ Grown
<1>1. CASE UNCHANGED streamVars
  BY <1>1, SameConns DEF StreamInv, RequestInv, Attended, Spoken, WholeSoFar, Conns, streamVars
<1>2. CASE AskModel
  BY <1>2, BeginRequestStep DEF AskModel
<1>3. CASE OperationInterrupted
  BY <1>3, RequestInterruptedStep, RequestDroppedStep DEF OperationInterrupted
<1>4. CASE Streams
  <2>1. CASE Attempt
    BY <2>1, AttemptStep
  <2>2. CASE GiveUpReading
    BY <2>2, GiveUpReadingStep
  <2>3. CASE TakeChunk
    BY <2>3, TakeChunkStep
  <2>4. CASE ConnectionEnds
    BY <2>4, ConnectionEndsStep
  <2>5. CASE LeavingTimesOut
    BY <2>5, LeavingTimesOutStep
  <2>6. CASE GiveUpLeaving
    BY <2>6, LeavingGivenUpStep DEF GiveUpLeaving, Errors
  <2>7. CASE RetryOrReturn
    BY <2>7, RetryOrReturnStep
  <2>8. ASSUME NEW k \in Conns, Connect(k) \/ Read(k) \/ CloseResponse(k)
                                \/ PendingReadEnds(k) \/ DroppedIsClosed(k)
        PROVE  StreamInv' /\ Grown
    BY <2>8, ConnectStep, ReadStep, CloseResponseStep, PendingReadStep, DroppedStep
  <2> QED BY <1>4, <2>1, <2>2, <2>3, <2>4, <2>5, <2>6, <2>7, <2>8 DEF Streams, StreamStep
<1>5. CASE CallTool \/ OperationEnds \/ Cancel \/ DeadlinePasses \/ RunCommand \/ CommandEnds
           \/ CommandInterrupted \/ Manages \/ Runs \/ \E s \in Servers : Serves(s)
  BY <1>1, <1>5 DEF CallTool, OperationEnds, Cancel, DeadlinePasses, RunCommand, CommandEnds,
     CommandInterrupted, Manages, Runs, Serves
<1> QED BY <1>1, <1>2, <1>3, <1>4, <1>5 DEF Next, vars

LEMMA StreamInvInit == Init => StreamInv
<1> SUFFICES ASSUME Init PROVE StreamInv
  OBVIOUS
<1>1. conns = <<>> /\ owners = {} /\ closing = {} /\ request = NoRequest
  BY DEF Init, StreamInit
<1>2. conns \in Seq(ConnSet) /\ Len(conns) = 0 /\ Conns = {}
  BY <1>1 DEF Conns
<1> QED BY <1>1, <1>2 DEF StreamInv, ConnsInv, RequestInv, RequestSet, Attended, Spoken,
       WholeSoFar, NoRequest

LEMMA Streaming == Spec => []StreamInv
<1>1. StreamInv /\ [Next]_vars => StreamInv'
  BY StreamInvStep
<1> QED BY <1>1, StreamInvInit, PTL DEF Spec

\* The answer the person and the agent see comes from one attempt, for any number of
\* attempts and requests: a retry is made only by a request that has said nothing.
THEOREM SpeaksOnce == Spec => []OneAttemptSpeaks
<1>1. StreamInv => OneAttemptSpeaks
  <2> SUFFICES ASSUME StreamInv PROVE Cardinality(request.spoke) <= 1
    BY DEF OneAttemptSpeaks
  <2>1. request.spoke = {} \/ request.spoke = {request.conn}
    BY DEF StreamInv, RequestInv, Spoken
  <2>2. Cardinality({}) = 0 /\ Cardinality({request.conn}) = 1
    BY FS_EmptySet, FS_Singleton
  <2> QED BY <2>1, <2>2
<1> QED BY <1>1, Streaming, PTL

-----------------------------------------------------------------------------
(***************************************************************************)
(* The command: its thread, its processes and their job.                   *)
(***************************************************************************)
Lives5 == {"none", "suspended", "running", "dying", "gone"}
TreeSet == [root : Lives5, child : Lives5, escaped : BOOLEAN, holds : BOOLEAN]
JobSet == [state : {"none", "made", "assigned", "closed"},
           observer : {"none", "starting", "observing", "done", "dumb"},
           queue : Seq(Procs \cup {"stop"}), ledger : SUBSET Procs, broken : BOOLEAN,
           asked : BOOLEAN, terminated : BOOLEAN, complete : BOOLEAN]
Steps == {"idle", "queued", "preparing", "asking", "launching", "binding", "waiting", "cleaning",
          "listing", "terminating", "members", "closing", "reaping", "joining", "cached",
          "deleting", "observing", "ended"}
Reasons == {"none", "exited", "cancelled", "exceeded", "timeout", "error", "unstarted"}
Results == {"none", "ok", "replan", "stop", "cancelled"}
CmdSet == [kind : Kinds, at : Steps, why : Reasons, readers : {"none", "reading", "ended"},
           exceeded : BOOLEAN, clean : BOOLEAN, failed : BOOLEAN,
           cache : {"none", "there", "unknown", "deleting", "stuck", "gone"},
           again : BOOLEAN, abandoned : BOOLEAN, result : Results]

CommandTypes == tree \in TreeSet /\ job \in JobSet /\ cmd \in CmdSet

LEMMA EmptyQueue == <<>> \in Seq(Procs \cup {"stop"})
OBVIOUS

LEMMA QueuedOne ==
    ASSUME NEW q \in Seq(Procs \cup {"stop"}), NEW p \in Procs \cup {"stop"}
    PROVE  /\ Append(q, p) \in Seq(Procs \cup {"stop"})
           /\ \A i \in 1..Len(Append(q, p)) :
                 Append(q, p)[i] = p \/ \E j \in 1..Len(q) : Append(q, p)[i] = q[j]
OBVIOUS

LEMMA TakenOne ==
    ASSUME NEW q \in Seq(Procs \cup {"stop"}), q # <<>>
    PROVE  /\ Head(q) \in Procs \cup {"stop"} /\ Head(q) = q[1] /\ 1 \in 1..Len(q)
           /\ Tail(q) \in Seq(Procs \cup {"stop"})
           /\ \A i \in 1..Len(Tail(q)) : \E j \in 1..Len(q) : Tail(q)[i] = q[j]
<1>1. Len(q) \in Nat \ {0} /\ Len(Tail(q)) = Len(q) - 1
      /\ \A i \in 1..(Len(q) - 1) : Tail(q)[i] = q[i + 1]
  OBVIOUS
<1>2. \A i \in 1..Len(Tail(q)) : i + 1 \in 1..Len(q)
  BY <1>1
<1> QED BY <1>1, <1>2

\* What the processes and the observer may do to the tree and the job.
LEMMA JobChanges ==
    ASSUME CommandTypes
    PROVE  /\ Killed(tree) \in TreeSet /\ KilledRoot(tree) \in TreeSet
           /\ \A p \in Procs : Announced(p) => job' \in JobSet
           /\ AskObserver => job' \in JobSet
           /\ Listed => job' \in JobSet
           /\ TerminateJob => tree' \in TreeSet /\ job' \in JobSet
<1>1. Killed(tree) \in TreeSet /\ KilledRoot(tree) \in TreeSet
  BY DEF CommandTypes, TreeSet, Lives5, Killed, KilledRoot, Dying
<1>2. ASSUME NEW p \in Procs, Announced(p) PROVE job' \in JobSet
  <2>1. Append(job.queue, p) \in Seq(Procs \cup {"stop"})
    BY QueuedOne DEF CommandTypes, JobSet
  <2> QED BY <1>2, <2>1 DEF CommandTypes, JobSet, Announced
<1>3. ASSUME AskObserver PROVE job' \in JobSet
  <2>1. Append(job.queue, "stop") \in Seq(Procs \cup {"stop"})
    BY QueuedOne DEF CommandTypes, JobSet
  <2> QED BY <1>3, <2>1 DEF CommandTypes, JobSet, AskObserver
<1>4. ASSUME Listed PROVE job' \in JobSet
  BY <1>4 DEF CommandTypes, JobSet, Listed
<1>5. ASSUME TerminateJob PROVE tree' \in TreeSet /\ job' \in JobSet
  BY <1>1, <1>5 DEF CommandTypes, JobSet, TerminateJob
<1> QED BY <1>1, <1>2, <1>3, <1>4, <1>5

LEMMA SystemTypes == ASSUME CommandTypes, SystemStep PROVE CommandTypes'
<1>1. CASE Exceed
  BY <1>1 DEF Exceed, CommandTypes, CmdSet, jobVars
<1>2. CASE ReadersEnd
  BY <1>2 DEF ReadersEnd, CommandTypes, CmdSet, jobVars
<1>3. CASE DeleteEnds
  BY <1>3 DEF DeleteEnds, CommandTypes, CmdSet, jobVars
<1>4. CASE Spawn /\ UNCHANGED cmd
  <2>1. job' \in JobSet
    BY <1>4, JobChanges DEF Spawn, Procs
  <2>2. PICK escaped \in BOOLEAN, holds \in BOOLEAN :
           tree' = [tree EXCEPT !.child = "running", !.escaped = escaped, !.holds = holds]
    BY <1>4 DEF Spawn
  <2> QED BY <1>4, <2>1, <2>2 DEF CommandTypes, TreeSet, Lives5
<1>5. ASSUME NEW p \in Procs, Exits(p), UNCHANGED cmd PROVE CommandTypes'
  <2>1. job' \in JobSet
    BY <1>5, JobChanges DEF Exits
  <2>2. tree' = [tree EXCEPT !.root = "gone"] \/ tree' = [tree EXCEPT !.child = "gone"]
    BY <1>5 DEF Exits, Procs
  <2>3. tree' \in TreeSet
    BY <2>2 DEF CommandTypes, TreeSet, Lives5
  <2> QED BY <1>5, <2>1, <2>3 DEF CommandTypes
<1>6. CASE ObserverBegins /\ UNCHANGED cmd
  BY <1>6 DEF ObserverBegins, CommandTypes, JobSet
<1>7. CASE Observe /\ UNCHANGED cmd
  <2>1. job.queue \in Seq(Procs \cup {"stop"}) /\ UNCHANGED tree
    BY <1>7 DEF Observe, CommandTypes, JobSet
  <2>2. CASE job' = [job EXCEPT !.observer = "done", !.broken = TRUE]
    BY <1>7, <2>1, <2>2 DEF CommandTypes, JobSet
  <2>3. ASSUME NEW q, q = Tail(job.queue), NEW p, p = Head(job.queue), job.queue # <<>>,
               job' \in IF p = "stop" THEN {[[job EXCEPT !.queue = q] EXCEPT !.observer = "done"]}
                        ELSE {[job EXCEPT !.queue = q], [[job EXCEPT !.queue = q] EXCEPT !.ledger = @ \cup {p}]}
        PROVE  CommandTypes'
    <3>1. q \in Seq(Procs \cup {"stop"}) /\ p \in Procs \cup {"stop"}
      BY <2>1, <2>3, TakenOne
    <3>2. job' \in JobSet
      <4> DEFINE rest == [job EXCEPT !.queue = q]
      <4>1. rest \in JobSet
        BY <3>1 DEF CommandTypes, JobSet
      <4>2. CASE job' = [rest EXCEPT !.observer = "done"]
        <5> HIDE DEF rest
        <5> QED BY <4>1, <4>2 DEF JobSet
      <4>3. CASE p \in Procs /\ job' = [rest EXCEPT !.ledger = @ \cup {p}]
        <5> HIDE DEF rest
        <5> QED BY <4>1, <4>3 DEF JobSet
      <4> QED BY <2>3, <3>1, <4>1, <4>2, <4>3
    <3> QED BY <1>7, <2>1, <3>2 DEF CommandTypes
  <2> QED BY <1>7, <2>2, <2>3 DEF Observe
<1> QED BY <1>1, <1>2, <1>3, <1>4, <1>5, <1>6, <1>7 DEF SystemStep

\* The thread's cmd after the steps that share an end.
LEMMA EndTypes ==
    ASSUME NEW c \in CmdSet, NEW result \in Results, NEW sc
    PROVE  /\ Ends(c, result, sc) => cmd' \in CmdSet
           /\ Report(c, sc) => cmd' \in CmdSet
           /\ Goes(c, sc) => cmd' \in CmdSet
           /\ StartDelete(c) => cmd' \in CmdSet
<1>1. \A r \in Results : Ends(c, r, sc) => cmd' \in CmdSet
  BY ZenonT(40) DEF Ends, CmdSet, Steps
<1>2. Verdict(c) \in Results
  BY DEF Verdict, Results
<1>3. Report(c, sc) => cmd' \in CmdSet
  BY <1>1, <1>2 DEF Report, CmdSet, Steps
<1>4. Goes(c, sc) => cmd' \in CmdSet
  BY <1>3 DEF Goes, CmdSet, Steps
<1> QED BY <1>1, <1>3, <1>4, ZenonT(40) DEF StartDelete, CmdSet, Steps

\* What joining the processes leads to.
LEMMA JoinCases ==
    ASSUME CommandTypes, Join
    PROVE  \/ cmd.again /\ cmd.clean /\ Joined /\ StartDelete(cmd) /\ UNCHANGED scope
           \/ cmd.again /\ TimeIsUp /\ CacheStays(cmd)
           \/ \E clean \in BOOLEAN, c \in CmdSet : \E sc :
                 /\ ~cmd.again /\ Goes(c, sc) /\ (clean => cmd.clean /\ Joined)
                 /\ c.failed = ~clean /\ c.why \in {cmd.why, "cancelled"} /\ c.kind = cmd.kind
                 /\ c.readers = cmd.readers /\ c.exceeded = cmd.exceeded /\ c.cache = cmd.cache
                 /\ ~c.again /\ c.result = cmd.result
                 /\ (clean /\ sc \in {scope, BeginTermination(scope)})
                    \/ \E s0 \in {scope, BeginTermination(scope)} :
                          ~clean /\ sc = Leave(BeginTermination(s0), Process)
<1> DEFINE hit == SeesCancellation /\ cmd.why # "error"
           s0 == IF hit THEN BeginTermination(scope) ELSE scope
<1>1. PICK clean \in BOOLEAN :
         /\ clean => cmd.clean /\ Joined
         /\ clean \/ TimeIsUp
         /\ IF cmd.again
            THEN IF clean THEN StartDelete(cmd) /\ UNCHANGED scope ELSE CacheStays(cmd)
            ELSE Goes([cmd EXCEPT !.failed = ~clean, !.why = IF hit THEN "cancelled" ELSE @],
                      IF clean THEN s0 ELSE Leave(BeginTermination(s0), Process))
  <2>1. (cmd.clean /\ Joined) \in BOOLEAN
    BY DEF CommandTypes, CmdSet
  <2> QED BY <2>1 DEF Join
<1>2. CASE cmd.again
  BY <1>1, <1>2
<1>3. CASE ~cmd.again
  <2> DEFINE c == [cmd EXCEPT !.failed = ~clean, !.why = IF hit THEN "cancelled" ELSE @]
             sc == IF clean THEN s0 ELSE Leave(BeginTermination(s0), Process)
  <2>1. PICK f \in BOOLEAN : f = ~clean
    OBVIOUS
  <2>2. PICK w \in Reasons : w = IF hit THEN "cancelled" ELSE cmd.why
    BY DEF CommandTypes, CmdSet, Reasons
  <2>3. c = [cmd EXCEPT !.failed = f, !.why = w]
    BY <2>1, <2>2
  <2>4. Goes(c, sc)
    BY <1>1, <1>3
  <2>5. (clean /\ sc \in {scope, BeginTermination(scope)})
        \/ \E s1 \in {scope, BeginTermination(scope)} :
              ~clean /\ sc = Leave(BeginTermination(s1), Process)
    OBVIOUS
  <2> HIDE DEF c, sc
  <2>6. /\ c \in CmdSet /\ c.failed = f /\ c.why = w /\ c.kind = cmd.kind
        /\ c.readers = cmd.readers /\ c.exceeded = cmd.exceeded /\ c.cache = cmd.cache
        /\ c.again = cmd.again /\ c.result = cmd.result
    BY <2>3 DEF CommandTypes, CmdSet
  <2>7. w \in {cmd.why, "cancelled"}
    BY <2>2
  <2> QED BY <1>1, <1>3, <2>1, <2>4, <2>5, <2>6, <2>7
<1> QED BY <1>2, <1>3

\* Where the thread is after the steps that share an end.
LEMMA EndsAt ==
    ASSUME NEW c \in CmdSet, NEW sc
    PROVE  /\ \A result : Ends(c, result, sc) => cmd'.at = "ended"
           /\ Report(c, sc) => cmd'.at \in {"observing", "ended"}
           /\ Goes(c, sc) => cmd'.at \in {"cached", "observing", "ended"}
           /\ StartDelete(c) => cmd'.at = "deleting"
           /\ CacheStays(c) => cmd'.at \in {"observing", "ended"}
<1>1. \A d \in CmdSet : \A s1, result : Ends(d, result, s1) => cmd'.at = "ended"
  BY DEF Ends, CmdSet
<1>2. \A d \in CmdSet : \A s1 : Report(d, s1) => cmd'.at \in {"observing", "ended"}
  BY <1>1 DEF Report, CmdSet
<1>3. [c EXCEPT !.failed = TRUE] \in CmdSet
  BY DEF CmdSet
<1> QED BY <1>1, <1>2, <1>3 DEF Goes, StartDelete, CacheStays, CmdSet

LEMMA ThreadTypes == ASSUME CommandTypes, ThreadStep PROVE CommandTypes'
<1> USE DEF jobVars
<1>1. \A stage \in Steps : At(stage) => cmd' \in CmdSet
  BY DEF At, CommandTypes, CmdSet
<1>2. CASE ThreadBegins
  <2>1. Ends(cmd, "none", scope) \/ At("preparing")
    BY <1>2 DEF ThreadBegins
  <2>2. cmd' \in CmdSet
    BY <1>1, <2>1, EndTypes DEF CommandTypes, Steps, Results
  <2> QED BY <1>2, <2>2 DEF ThreadBegins, CommandTypes
<1>3. CASE Prepare \/ Approve
  <2>1. [cmd EXCEPT !.cache = "unknown"] \in CmdSet
    BY DEF CommandTypes, CmdSet
  <2>2. \/ \E result \in Results : Ends(cmd, result, scope)
        \/ At("launching") \/ At("asking")
        \/ cmd' = [cmd EXCEPT !.at = "launching", !.cache = "there"]
        \/ Ends([cmd EXCEPT !.cache = "unknown"], "stop", Leave(scope, Cache))
    BY <1>3 DEF Prepare, Approve, GoAhead, SearchItself, Raise, Results
  <2>3. cmd' \in CmdSet
    <3>1. CASE \E result \in Results : Ends(cmd, result, scope)
      BY <3>1, EndTypes DEF CommandTypes
    <3>2. CASE At("launching") \/ At("asking")
      BY <1>1, <3>2 DEF Steps
    <3>3. CASE cmd' = [cmd EXCEPT !.at = "launching", !.cache = "there"]
      BY <3>3 DEF CommandTypes, CmdSet, Steps
    <3>4. CASE Ends([cmd EXCEPT !.cache = "unknown"], "stop", Leave(scope, Cache))
      BY <2>1, <3>4, EndTypes DEF Results
    <3> QED BY <2>2, <3>1, <3>2, <3>3, <3>4
  <2> QED BY <1>3, <2>3 DEF Prepare, Approve, CommandTypes
<1>4. CASE Launch
  <2>1. ASSUME NEW why \in {"cancelled", "unstarted"}, NotLaunched(why) PROVE cmd' \in CmdSet
    <3>1. [cmd EXCEPT !.why = why] \in CmdSet
      BY DEF CommandTypes, CmdSet, Reasons
    <3>2. CASE cmd' = [cmd EXCEPT !.at = "cached", !.why = why]
      BY <3>2 DEF CommandTypes, CmdSet, Reasons, Steps
    <3>3. CASE Ends([cmd EXCEPT !.why = why], IF why = "cancelled" THEN why ELSE "replan", scope)
      BY <3>1, <3>3, EndTypes DEF Results
    <3> QED BY <2>1, <3>2, <3>3 DEF NotLaunched
  <2>2. CASE UNCHANGED jobVars /\ \E why \in {"cancelled", "unstarted"} : NotLaunched(why)
    BY <2>1, <2>2 DEF CommandTypes
  <2>3. CASE tree' = [tree EXCEPT !.root = "suspended"] /\ MakeJob /\ At("binding")
    <3>1. job' \in JobSet
      BY <2>3, ZenonT(40) DEF MakeJob, StartObserver, CommandTypes, JobSet
    <3>2. tree' \in TreeSet
      BY <2>3 DEF CommandTypes, TreeSet, Lives5
    <3> QED BY <1>1, <2>3, <3>1, <3>2 DEF CommandTypes, Steps
  <2>4. CASE /\ tree' = [tree EXCEPT !.root = "running"] /\ UNCHANGED job
             /\ cmd' = [cmd EXCEPT !.at = "waiting", !.readers = "reading"]
    BY <2>4 DEF CommandTypes, TreeSet, Lives5, CmdSet, Steps
  <2> QED BY <1>4, <2>2, <2>3, <2>4 DEF Launch
<1>5. ASSUME NEW why \in Reasons, Stop(why) PROVE cmd' \in CmdSet
  BY <1>5 DEF Stop, CommandTypes, CmdSet, Steps
<1>6. CASE Resume
  <2>1. cmd' \in CmdSet
    <3>1. CASE cmd' = [cmd EXCEPT !.at = "waiting", !.readers = "reading"]
      BY <3>1 DEF CommandTypes, CmdSet, Steps
    <3> QED BY <1>5, <1>6, <3>1 DEF Resume, Reasons
  <2>2. tree' \in TreeSet
    BY <1>6 DEF Resume, CommandTypes, TreeSet, Lives5
  <2> QED BY <1>6, <2>1, <2>2 DEF Resume, CommandTypes
<1>7. CASE Watch
  BY <1>5, <1>7 DEF Watch, CommandTypes, Reasons
<1>8. CASE Finish
  <2>1. FirstStep \in Steps
    BY DEF FirstStep, Steps, CommandTypes, JobSet
  <2> QED BY <1>1, <1>8, <2>1 DEF Finish, CommandTypes
<1>9. CASE ListMembers
  BY <1>1, <1>9, JobChanges DEF ListMembers, CommandTypes, Steps
<1>10. CASE KillTree
  <2>1. cmd' \in CmdSet
    <3>1. CASE cmd' = [cmd EXCEPT !.at = "reaping", !.clean = FALSE]
      BY <3>1 DEF CommandTypes, CmdSet, Steps
    <3> QED BY <1>1, <1>10, <3>1 DEF KillTree, Steps
  <2>2. tree' \in TreeSet /\ job' \in JobSet
    BY <1>10, JobChanges DEF KillTree, CommandTypes
  <2> QED BY <2>1, <2>2 DEF CommandTypes
<1>11. CASE EndObserver
  BY <1>1, <1>11, JobChanges DEF EndObserver, CommandTypes, Steps
<1>12. CASE CloseJob
  <2>1. cmd' \in CmdSet
    <3>1. CASE cmd' = [cmd EXCEPT !.at = "reaping", !.clean = FALSE]
      BY <3>1 DEF CommandTypes, CmdSet, Steps
    <3> QED BY <1>1, <1>12, <3>1 DEF CloseJob, Steps
  <2>2. PICK complete \in BOOLEAN :
           \/ job' = [job EXCEPT !.complete = complete, !.state = "closed"]
           \/ job' = [job EXCEPT !.complete = complete]
    <3>1. (job.complete \/ (ObserverOver /\ Complete)) \in BOOLEAN
      BY DEF CommandTypes, JobSet
    <3> QED BY <1>12, <3>1 DEF CloseJob
  <2>3. job' \in JobSet
    BY <2>2 DEF CommandTypes, JobSet
  <2> QED BY <1>12, <2>1, <2>3 DEF CloseJob, CommandTypes
<1>13. CASE Reap
  <2>1. CASE cmd' = [cmd EXCEPT !.at = "joining", !.clean = FALSE]
    BY <1>13, <2>1, JobChanges DEF Reap, CommandTypes, CmdSet, Steps
  <2>2. CASE At("joining")
    BY <1>1, <1>13, <2>2, JobChanges DEF Reap, CommandTypes, Steps
  <2> QED BY <1>13, <2>1, <2>2 DEF Reap
<1>14. ASSUME NEW c \in CmdSet, CacheStays(c) PROVE cmd' \in CmdSet
  <2>1. [c EXCEPT !.failed = TRUE] \in CmdSet
    BY DEF CmdSet
  <2> QED BY <1>14, <2>1, EndTypes DEF CacheStays, Results
<1>15. CASE Join
  <2>1. StartDelete(cmd) => cmd' \in CmdSet
    BY EndTypes DEF CommandTypes, Results
  <2>2. \A c \in CmdSet : \A sc : Goes(c, sc) => cmd' \in CmdSet
    BY EndTypes DEF Results
  <2>3. cmd' \in CmdSet
    BY <1>14, <1>15, <2>1, <2>2, JoinCases DEF CommandTypes
  <2> QED BY <1>15, <2>3 DEF Join, CommandTypes
<1>16. CASE RemoveCache
  <2>1. cmd' \in CmdSet
    <3>1. FirstStep \in Steps
      BY DEF FirstStep, Steps, CommandTypes, JobSet
    <3>2. CASE cmd' = [cmd EXCEPT !.again = TRUE, !.clean = TRUE, !.at = FirstStep]
      BY <3>1, <3>2 DEF CommandTypes, CmdSet
    <3>3. CASE StartDelete(cmd)
      BY <3>3, EndTypes DEF CommandTypes, Results
    <3> QED BY <1>16, <3>2, <3>3 DEF RemoveCache
  <2> QED BY <1>16, <2>1 DEF RemoveCache, CommandTypes
<1>17. CASE CacheRemoved
  <2>1. cmd' \in CmdSet
    BY <1>14, <1>17, EndTypes DEF CacheRemoved, CommandTypes, Results
  <2> QED BY <1>17, <2>1 DEF CacheRemoved, CommandTypes
<1>18. CASE Observed
  <2>1. PICK result \in Results : Ends(cmd, result, scope)
    BY <1>18 DEF Observed, Answers, Results
  <2>2. cmd' \in CmdSet
    BY <2>1, EndTypes DEF CommandTypes
  <2> QED BY <1>18, <2>2 DEF Observed, CommandTypes
<1> QED BY <1>2, <1>3, <1>4, <1>6, <1>7, <1>8, <1>9, <1>10, <1>11, <1>12, <1>13, <1>15, <1>16,
       <1>17, <1>18 DEF ThreadStep

\* Commands are touched by their own steps, by the task that submits one and by the
\* interrupt that leaves it.
LEMMA CommandSteps ==
    ASSUME [Next]_vars
    PROVE  \/ UNCHANGED commandVars
           \/ ThreadStep \/ SystemStep
           \/ RunCommand /\ \E kind \in plan.kinds : Submit(kind)
           \/ Working /\ cmd' = [cmd EXCEPT !.abandoned = TRUE] /\ UNCHANGED jobVars
<1>1. CASE AskModel \/ CallTool \/ OperationEnds \/ OperationInterrupted \/ Cancel
           \/ DeadlinePasses \/ CommandEnds \/ Streams \/ Manages \/ \E s \in Servers : Serves(s)
  BY <1>1 DEF AskModel, CallTool, OperationEnds, OperationInterrupted, Cancel,
     DeadlinePasses, CommandEnds, Streams, Manages, Serves
<1>2. CASE RunCommand
  BY <1>2 DEF RunCommand
<1>3. CASE CommandInterrupted
  BY <1>3 DEF CommandInterrupted
<1>4. CASE Runs
  BY <1>4 DEF Runs
<1>5. CASE UNCHANGED vars
  BY <1>5 DEF vars
<1> QED BY <1>1, <1>2, <1>3, <1>4, <1>5 DEF Next

LEMMA PlanStays == [Next]_vars => UNCHANGED plan
BY DEF Next, vars

PlanInv == plan \in Plans

LEMMA PlanKinds == PlanInv => plan.kinds \subseteq Kinds
BY BoundsAssumption DEF PlanInv

LEMMA CommandTypesStep == ASSUME PlanInv, CommandTypes, [Next]_vars PROVE CommandTypes'
<1>1. CASE UNCHANGED commandVars
  BY <1>1 DEF CommandTypes, commandVars, jobVars
<1>2. CASE \E kind \in plan.kinds : Submit(kind)
  <2>1. PICK kind \in Kinds : Submit(kind)
    BY <1>2, PlanKinds
  <2>2. NoTree \in TreeSet /\ NoJob \in JobSet /\ NoCommand \in CmdSet
    BY EmptyQueue DEF NoTree, TreeSet, Lives5, NoJob, JobSet, Procs, NoCommand, CmdSet, Kinds,
       Steps, Reasons, Results
  <2>3. cmd' \in CmdSet
    BY <2>1, <2>2, ZenonT(40) DEF Submit, CmdSet, Steps, Results
  <2> QED BY <2>1, <2>2, <2>3 DEF Submit, CommandTypes, jobVars
<1>3. CASE cmd' = [cmd EXCEPT !.abandoned = TRUE] /\ UNCHANGED jobVars
  BY <1>3 DEF CommandTypes, CmdSet, jobVars
<1> QED BY <1>1, <1>2, <1>3, CommandSteps, ThreadTypes, SystemTypes

-----------------------------------------------------------------------------
(***************************************************************************)
(* The job.  A root that was never observed in a job never ran; who is in  *)
(* the ledger was born; so a job that is complete has nobody left.         *)
(***************************************************************************)
Early == {"idle", "queued", "preparing", "asking", "launching"}
InJob == {"listing", "members", "closing"}
JobInv ==
    /\ tree.root = "none" => tree.child = "none"
    /\ ~plan.windows => job.state = "none" /\ ~job.complete
    /\ job.state \in {"none", "made"} =>
          /\ job.observer = "none"
          /\ plan.windows => tree.root # "running" /\ tree.child = "none"
    /\ "root" \in job.ledger /\ job.ledger \subseteq Born \cup {"root"}
    /\ \A i \in 1..Len(job.queue) : job.queue[i] \in Born \cup {"stop"}
    /\ job.complete => tree.root = "gone" /\ tree.child \in {"none", "gone"}
    /\ job.state = "closed" => job.complete
    /\ cmd.at \in Early => tree = NoTree /\ job = NoJob
    /\ cmd.at = "binding" => tree.root = "suspended"
    /\ cmd.at \in InJob => job.state = "assigned"

\* Somebody born stays so; who is over stays over.
LEMMA CompleteIsOver ==
    ASSUME CommandTypes, JobInv, Complete
    PROVE  tree.root = "gone" /\ tree.child \in {"none", "gone"}
<1>1. CASE job.complete
  BY <1>1 DEF JobInv
<1>2. CASE MembersGone /\ AllCounted
  <2>1. tree["root"] = "gone" /\ "root" \in Born
    BY <1>2 DEF JobInv, MembersGone, Born, Procs, CommandTypes, TreeSet
  <2>2. IsFiniteSet(Procs) /\ Born \subseteq Procs
    <3>1. IsFiniteSet({"root"} \cup {"child"})
      BY FS_AddElement, FS_Singleton
    <3> QED BY <3>1 DEF Procs, Born
  <2>3. IsFiniteSet(Born) /\ job.ledger \subseteq Born
    BY <2>1, <2>2, FS_Subset DEF JobInv
  <2>4. job.ledger = Born
    BY <1>2, <2>3, FS_Subset DEF AllCounted
  <2>5. tree["child"] # "none" => tree["child"] = "gone"
    BY <1>2, <2>4 DEF MembersGone, Born, Procs
  <2> QED BY <2>1, <2>5 DEF CommandTypes, TreeSet
<1> QED BY <1>1, <1>2 DEF Complete

\* A step that leaves the tree and the job alone, and does not go back to the start.
LEMMA JobSame ==
    ASSUME JobInv, UNCHANGED <<plan, tree, job>>, cmd'.at \in Early => cmd.at \in Early,
           cmd'.at = "binding" => cmd.at = "binding",
           cmd'.at \in InJob => cmd'.at = cmd.at \/ job.state = "assigned"
    PROVE  JobInv'
BY DEF JobInv, Born

\* The tree changes by births and exits, and the queue with them.
LEMMA JobGrows ==
    ASSUME CommandTypes, CommandTypes', JobInv, UNCHANGED plan, cmd'.at \notin Early,
           cmd'.at = "binding" => tree'.root = "suspended",
           cmd'.at \in InJob => cmd'.at = cmd.at \/ job.state = "assigned", Born \subseteq Born', tree.root # "none",
           tree'.root = "running" => tree.root = "running",
           tree'.child # tree.child =>
              (tree.child = "none" /\ tree.root = "running") \/ tree'.child \in {"dying", "gone"},
           tree.root = "gone" => tree'.root = "gone",
           tree.child = "gone" => tree'.child = "gone",
           tree.child = "none" /\ tree.root # "running" => tree'.child = "none",
           job'.state = job.state, job'.complete = job.complete,
           job.observer = "none" => job'.observer = "none",
           job.ledger \subseteq job'.ledger, job'.ledger \subseteq job.ledger \cup Born',
           \A i \in 1..Len(job'.queue) : job'.queue[i] \in Born' \cup {"stop"}
    PROVE  JobInv'
<1>1. tree'.root # "none"
  BY DEF Born, Procs, CommandTypes, TreeSet
<1>2. job.state \in {"none", "made"} /\ plan.windows => tree'.root # "running" /\ tree'.child = "none"
  BY DEF JobInv
<1>3. job.complete => tree'.root = "gone" /\ tree'.child \in {"none", "gone"}
  BY DEF JobInv
<1> QED BY <1>1, <1>2, <1>3 DEF JobInv

LEMMA JobSystem == ASSUME CommandTypes, CommandTypes', JobInv, UNCHANGED plan, SystemStep PROVE JobInv'
<1>1. CASE Exceed \/ ReadersEnd \/ DeleteEnds
  <2>1. UNCHANGED <<tree, job>> /\ cmd'.at = cmd.at
    BY <1>1 DEF Exceed, ReadersEnd, DeleteEnds, jobVars, CommandTypes, CmdSet
  <2> QED BY <2>1, JobSame
<1>2. ASSUME tree.root # "none", tree' \in TreeSet, Born \subseteq Born', NEW p \in Procs \cap Born',
             Announced(p)
      PROVE  /\ job'.state = job.state /\ job'.complete = job.complete
             /\ job'.observer = job.observer /\ job'.ledger = job.ledger
             /\ \A i \in 1..Len(job'.queue) : job'.queue[i] \in Born' \cup {"stop"}
  <2>1. CASE UNCHANGED job
    BY <1>2, <2>1 DEF JobInv
  <2>2. CASE job' = [job EXCEPT !.queue = Append(@, p)]
    <3>1. job.queue \in Seq(Procs \cup {"stop"}) /\ job'.queue = Append(job.queue, p)
      BY <2>2 DEF CommandTypes, JobSet
    <3> QED BY <1>2, <2>2, <3>1, QueuedOne DEF JobInv, CommandTypes, JobSet
  <2> QED BY <1>2, <2>1, <2>2 DEF Announced
<1>3. ASSUME Spawn, UNCHANGED cmd PROVE JobInv'
  <2>1. /\ tree.root = "running" /\ tree.child = "none" /\ tree'.root = "running"
        /\ tree'.child = "running" /\ tree' \in TreeSet
    BY <1>3 DEF Spawn, CommandTypes, TreeSet
  <2>2. Born \subseteq Born' /\ "child" \in Procs \cap Born'
    BY <2>1 DEF Born, Procs, TreeSet
  <2>3. /\ job'.state = job.state /\ job'.complete = job.complete
        /\ job'.observer = job.observer /\ job'.ledger = job.ledger
        /\ \A i \in 1..Len(job'.queue) : job'.queue[i] \in Born' \cup {"stop"}
    BY <1>2, <1>3, <2>1, <2>2 DEF Spawn
  <2>4. cmd'.at \notin Early \cup {"binding"}
    BY <1>3, <2>1 DEF JobInv, NoTree
  <2> QED BY <1>3, <2>1, <2>2, <2>3, <2>4, JobGrows
<1>4. ASSUME NEW p \in Procs, Exits(p), UNCHANGED cmd PROVE JobInv'
  <2>1. CASE p = "root"
    <3>1. /\ tree.root \in {"running", "dying"} /\ tree'.root = "gone"
          /\ tree'.child = tree.child /\ tree' \in TreeSet
      BY <1>4, <2>1 DEF Exits, CommandTypes, TreeSet
    <3>2. Born \subseteq Born' /\ p \in Procs \cap Born'
      BY <2>1, <3>1 DEF Born, Procs, TreeSet
    <3>3. /\ job'.state = job.state /\ job'.complete = job.complete
          /\ job'.observer = job.observer /\ job'.ledger = job.ledger
          /\ \A i \in 1..Len(job'.queue) : job'.queue[i] \in Born' \cup {"stop"}
      BY <1>2, <1>4, <3>1, <3>2 DEF Exits
    <3>4. cmd'.at \notin Early /\ (cmd'.at = "binding" => tree'.root = "suspended")
      BY <1>4, <3>1 DEF JobInv, NoTree
    <3> QED BY <3>1, <3>2, <3>3, <3>4, <1>4, JobGrows
  <2>2. CASE p = "child"
    <3>1. /\ tree.child \in {"running", "dying"} /\ tree'.child = "gone"
          /\ tree'.root = tree.root /\ tree' \in TreeSet /\ tree.root # "none"
      BY <1>4, <2>2 DEF Exits, CommandTypes, TreeSet, JobInv
    <3>2. Born \subseteq Born' /\ p \in Procs \cap Born'
      BY <2>2, <3>1 DEF Born, Procs, TreeSet
    <3>3. /\ job'.state = job.state /\ job'.complete = job.complete
          /\ job'.observer = job.observer /\ job'.ledger = job.ledger
          /\ \A i \in 1..Len(job'.queue) : job'.queue[i] \in Born' \cup {"stop"}
      BY <1>2, <1>4, <3>1, <3>2 DEF Exits
    <3>4. cmd'.at \notin Early /\ (cmd'.at = "binding" => tree'.root = "suspended")
      BY <1>4, <3>1 DEF JobInv, NoTree
    <3> QED BY <3>1, <3>2, <3>3, <3>4, <1>4, JobGrows
  <2> QED BY <2>1, <2>2 DEF Procs
<1>5. ASSUME ObserverBegins, UNCHANGED cmd PROVE JobInv'
  <2>1. /\ job.observer = "starting" /\ UNCHANGED tree /\ job'.state = job.state
        /\ job'.complete = job.complete /\ job'.ledger = job.ledger /\ job'.queue = job.queue
    BY <1>5 DEF ObserverBegins, CommandTypes, JobSet
  <2>2. cmd'.at \notin Early
    BY <1>5, <2>1 DEF JobInv, NoJob
  <2> QED BY <1>5, <2>1, <2>2 DEF JobInv, Born
<1>6. ASSUME Observe, UNCHANGED cmd PROVE JobInv'
  <2>1. job.observer = "observing" /\ UNCHANGED tree /\ job.queue \in Seq(Procs \cup {"stop"})
    BY <1>6 DEF Observe, CommandTypes, JobSet
  <2>2. /\ job'.state = job.state /\ job'.complete = job.complete
        /\ job.ledger \subseteq job'.ledger /\ job'.ledger \subseteq job.ledger \cup Born
        /\ \A i \in 1..Len(job'.queue) : job'.queue[i] \in Born \cup {"stop"}
    <3>1. CASE job' = [job EXCEPT !.observer = "done", !.broken = TRUE]
      BY <3>1 DEF CommandTypes, JobSet, JobInv
    <3>2. ASSUME NEW q, q = Tail(job.queue), NEW p, p = Head(job.queue), job.queue # <<>>,
                 job' \in IF p = "stop" THEN {[[job EXCEPT !.queue = q] EXCEPT !.observer = "done"]}
                          ELSE {[job EXCEPT !.queue = q],
                                [[job EXCEPT !.queue = q] EXCEPT !.ledger = @ \cup {p}]}
          PROVE  /\ job'.state = job.state /\ job'.complete = job.complete
                 /\ job.ledger \subseteq job'.ledger /\ job'.ledger \subseteq job.ledger \cup Born
                 /\ \A i \in 1..Len(job'.queue) : job'.queue[i] \in Born \cup {"stop"}
      <4>1. p \in Born \cup {"stop"} /\ \A i \in 1..Len(q) : q[i] \in Born \cup {"stop"}
        <5>1. \A j \in 1..Len(job.queue) : job.queue[j] \in Born \cup {"stop"}
          BY DEF JobInv
        <5>2. /\ Head(job.queue) = job.queue[1] /\ 1 \in 1..Len(job.queue)
              /\ \A i \in 1..Len(Tail(job.queue)) :
                    \E j \in 1..Len(job.queue) : Tail(job.queue)[i] = job.queue[j]
          BY <2>1, <3>2, TakenOne
        <5> QED BY <3>2, <5>1, <5>2
      <4>2. /\ job'.state = job.state /\ job'.complete = job.complete /\ job'.queue = q
            /\ job'.ledger = job.ledger \/ (p # "stop" /\ job'.ledger = job.ledger \cup {p})
        BY <3>2 DEF CommandTypes, JobSet
      <4> QED BY <4>1, <4>2
    <3> QED BY <1>6, <3>1, <3>2 DEF Observe
  <2>3. cmd'.at \notin Early
    BY <1>6, <2>1 DEF JobInv, NoJob
  <2> QED BY <1>6, <2>1, <2>2, <2>3 DEF JobInv, Born
<1> QED BY <1>1, <1>3, <1>4, <1>5, <1>6 DEF SystemStep

\* Ending a tree takes nobody back from the dead, and does not make anybody run.
LEMMA JobKills ==
    ASSUME CommandTypes, JobInv, UNCHANGED plan, NEW t, t \in {Killed(tree), KilledRoot(tree)},
           tree' = t, cmd'.at \notin Early \cup {"binding"},
           cmd'.at \in InJob => job.state = "assigned",
           job'.state = job.state, job'.complete = job.complete, job'.observer = job.observer,
           job'.ledger = job.ledger, job'.queue = job.queue
    PROVE  JobInv'
<1>1. /\ t \in TreeSet /\ (t.root = "none" <=> tree.root = "none") /\ t.root # "running"
      /\ (tree.root = "gone" => t.root = "gone") /\ (t.child = "none" <=> tree.child = "none")
      /\ (tree.child = "gone" => t.child = "gone")
  BY ZenonT(40) DEF Killed, KilledRoot, Dying, CommandTypes, TreeSet, Lives5
<1>2. Born' = Born
  BY <1>1 DEF Born, Procs, CommandTypes, TreeSet
<1> QED BY <1>1, <1>2 DEF JobInv

LEMMA JobThread ==
    ASSUME CommandTypes, CommandTypes', JobInv, UNCHANGED plan, ThreadStep
    PROVE  JobInv'
<1>1. CASE ThreadBegins \/ Prepare \/ Approve \/ Watch \/ Finish \/ Join \/ RemoveCache \/ CacheRemoved \/ Observed
  <2>1. UNCHANGED <<tree, job>>
    BY <1>1 DEF ThreadBegins, Prepare, Approve, Watch, Finish, Join, RemoveCache, CacheRemoved, Observed, jobVars
  <2>2. FirstStep \notin Early \cup {"binding"} /\ (FirstStep \in InJob => job.state = "assigned")
    BY DEF FirstStep, Early, InJob
  <2>3. CASE ThreadBegins \/ Prepare \/ Approve
    <3>1. cmd.at \in Early /\ cmd.at # "binding"
      BY <2>3 DEF ThreadBegins, Prepare, Approve, Early
    <3>2. cmd'.at \in {"preparing", "asking", "launching", "ended"}
      <4>1. [cmd EXCEPT !.cache = "unknown"] \in CmdSet
        BY DEF CommandTypes, CmdSet
      <4>2. \A result, sc : Ends(cmd, result, sc) => cmd'.at = "ended"
        BY EndsAt DEF CommandTypes
      <4>3. \A result, sc : Ends([cmd EXCEPT !.cache = "unknown"], result, sc) => cmd'.at = "ended"
        BY <4>1, EndsAt
      <4>4. CASE ThreadBegins
        BY <4>2, <4>4 DEF ThreadBegins, At, CommandTypes, CmdSet
      <4>5. CASE Prepare \/ Approve
        BY <4>2, <4>3, <4>5 DEF Prepare, Approve, GoAhead, SearchItself, Raise, At, CommandTypes, CmdSet
      <4> QED BY <2>3, <4>4, <4>5
    <3> QED BY <2>1, <3>1, <3>2, JobSame DEF InJob
  <2>4. CASE Watch \/ Finish
    <3>1. cmd.at \notin Early /\ cmd'.at \in {"cleaning", FirstStep}
      BY <2>4 DEF Watch, Finish, Stop, At, Early, CommandTypes, CmdSet
    <3> QED BY <2>1, <2>2, <3>1, JobSame DEF Early, InJob
  <2>5. CASE Join \/ RemoveCache \/ CacheRemoved \/ Observed
    <3>1. cmd.at \notin Early
      BY <2>5 DEF Join, RemoveCache, CacheRemoved, Observed, Early
    <3>2. cmd'.at \in {"cached", "deleting", "observing", "ended", FirstStep}
      <4>1. CASE Observed
        BY <4>1, EndsAt DEF Observed, CommandTypes
      <4>2. CASE RemoveCache
        BY <4>2, EndsAt DEF RemoveCache, CommandTypes, CmdSet
      <4>3. CASE CacheRemoved
        BY <4>3, EndsAt DEF CacheRemoved, CommandTypes
      <4>4. CASE Join
        <5>1. \A c \in CmdSet : \A sc : Goes(c, sc) => cmd'.at \in {"cached", "observing", "ended"}
          BY EndsAt
        <5>2. StartDelete(cmd) => cmd'.at = "deleting"
          BY EndsAt DEF CommandTypes
        <5>3. CacheStays(cmd) => cmd'.at \in {"observing", "ended"}
          BY EndsAt DEF CommandTypes
        <5> QED BY <4>4, <5>1, <5>2, <5>3, JoinCases
      <4> QED BY <2>5, <4>1, <4>2, <4>3, <4>4
    <3> QED BY <2>1, <2>2, <3>1, <3>2, JobSame DEF Early, InJob
  <2> QED BY <1>1, <2>3, <2>4, <2>5
<1>2. CASE Launch
  <2>1. tree = NoTree /\ job = NoJob /\ cmd.at = "launching"
    BY <1>2 DEF Launch, JobInv, Early
  <2>2. CASE UNCHANGED jobVars
    <3>1. cmd'.at \in {"cached", "ended"}
      <4>1. \A why \in Reasons : [cmd EXCEPT !.why = why] \in CmdSet
        BY DEF CommandTypes, CmdSet
      <4>2. \A why \in Reasons : NotLaunched(why) => cmd'.at \in {"cached", "ended"}
        <5> SUFFICES ASSUME NEW why \in Reasons, NotLaunched(why)
                     PROVE  cmd'.at \in {"cached", "ended"}
          OBVIOUS
        <5>1. CASE cmd' = [cmd EXCEPT !.at = "cached", !.why = why]
          BY <5>1 DEF CommandTypes, CmdSet
        <5>2. CASE Ends([cmd EXCEPT !.why = why], IF why = "cancelled" THEN why ELSE "replan", scope)
          BY <4>1, <5>2, EndsAt
        <5> QED BY <5>1, <5>2 DEF NotLaunched
      <4>3. NotLaunched("cancelled") \/ NotLaunched("unstarted")
        BY <1>2, <2>1, <2>2 DEF Launch, NoTree, jobVars
      <4> QED BY <4>2, <4>3 DEF Reasons
    <3> QED BY <2>1, <2>2, <3>1, JobSame DEF jobVars, Early, InJob
  <2>3. CASE plan.windows /\ tree' = [tree EXCEPT !.root = "suspended"] /\ MakeJob /\ At("binding")
    <3>1. tree'.root = "suspended" /\ tree'.child = "none" /\ cmd'.at = "binding"
      BY <2>1, <2>3 DEF NoTree, At, CommandTypes, CmdSet
    <3>2. /\ job'.complete = FALSE /\ job'.ledger = {"root"} /\ job'.queue = <<>>
          /\ job'.state # "closed" /\ (job'.state \in {"none", "made"} => job'.observer = "none")
      <4>1. job' \in {NoJob, [NoJob EXCEPT !.state = "made"], [NoJob EXCEPT !.state = "assigned"],
                      [NoJob EXCEPT !.state = "assigned", !.observer = "starting"]}
        BY <2>1, <2>3 DEF MakeJob, StartObserver
      <4>2. NoJob \in JobSet
        BY <2>1 DEF CommandTypes
      <4>3. /\ NoJob.complete = FALSE /\ NoJob.ledger = {"root"} /\ NoJob.queue = <<>>
            /\ NoJob.state = "none" /\ NoJob.observer = "none"
        BY DEF NoJob
      <4> QED BY <4>1, <4>2, <4>3 DEF JobSet
    <3> QED BY <2>3, <3>1, <3>2 DEF JobInv, Early, InJob
  <2>4. CASE /\ ~plan.windows /\ tree' = [tree EXCEPT !.root = "running"] /\ UNCHANGED job
             /\ cmd' = [cmd EXCEPT !.at = "waiting", !.readers = "reading"]
    <3>1. tree'.root = "running" /\ tree'.child = "none" /\ cmd'.at = "waiting"
      BY <2>1, <2>4 DEF NoTree, CommandTypes, CmdSet
    <3>2. job' = NoJob
      BY <2>1, <2>4
    <3> QED BY <2>4, <3>1, <3>2 DEF JobInv, Early, InJob, NoJob
  <2> QED BY <1>2, <2>2, <2>3, <2>4 DEF Launch
<1>3. CASE Resume
  <2>1. UNCHANGED job /\ cmd'.at \in {"waiting", "cleaning"}
    BY <1>3 DEF Resume, Stop, CommandTypes, CmdSet
  <2>2. CASE UNCHANGED tree
    BY <2>1, <2>2, JobSame DEF Early, InJob
  <2>3. CASE job.observer = "observing" /\ tree' = [tree EXCEPT !.root = "running"]
    <3>1. tree'.root = "running" /\ tree'.child = tree.child
      BY <2>3 DEF CommandTypes, TreeSet
    <3>2. job.state \notin {"none", "made"}
      BY <2>3 DEF JobInv
    <3>3. tree.root = "suspended" /\ ~job.complete /\ plan.windows
      BY <1>3, <3>2 DEF JobInv, Resume
    <3>4. Born' = Born
      BY <2>3, <3>1, <3>3 DEF Born, Procs, CommandTypes, TreeSet
    <3>5. cmd'.at = "binding" => FALSE
      BY <2>1
    <3> QED BY <2>1, <3>1, <3>2, <3>3, <3>4, <3>5 DEF JobInv, Early, InJob
  <2> QED BY <1>3, <2>2, <2>3 DEF Resume
<1>4. CASE ListMembers
  <2>1. PICK members \in SUBSET {p \in Procs : Lives(p)} : job' = [job EXCEPT !.ledger = @ \cup members]
    BY <1>4 DEF ListMembers, Listed
  <2>2. members \subseteq Born
    BY DEF Born, Lives
  <2>3. UNCHANGED tree /\ cmd'.at = "terminating" /\ job'.ledger = job.ledger \cup members
        /\ job'.state = job.state /\ job'.complete = job.complete
        /\ job'.observer = job.observer /\ job'.queue = job.queue
    BY <1>4, <2>1 DEF ListMembers, At, CommandTypes, CmdSet, JobSet
  <2> QED BY <2>2, <2>3 DEF JobInv, Early, InJob, Born
<1>5. CASE KillTree
  <2>1. cmd'.at \in {"members", "reaping"}
    BY <1>5 DEF KillTree, At, CommandTypes, CmdSet
  <2>2. /\ job'.state = job.state /\ job'.complete = job.complete /\ job'.queue = job.queue
        /\ job'.observer = job.observer /\ job'.ledger = job.ledger
        /\ tree' = Killed(tree) \/ UNCHANGED tree
    BY <1>5 DEF KillTree, TerminateJob, CommandTypes, JobSet
  <2>5. cmd'.at \in InJob => job.state = "assigned"
    BY <1>5, <2>1 DEF KillTree, At, CommandTypes, CmdSet, InJob
  <2>3. CASE tree' = Killed(tree)
    BY <2>1, <2>5, <2>2, <2>3, JobKills DEF Early, InJob
  <2>4. CASE UNCHANGED tree
    BY <2>1, <2>2, <2>4, <2>5 DEF JobInv, Early, InJob, Born
  <2> QED BY <2>2, <2>3, <2>4
<1>6. CASE EndObserver
  <2>1. UNCHANGED tree /\ cmd'.at = "closing" /\ job.state = "assigned"
    BY <1>6 DEF EndObserver, At, CommandTypes, CmdSet, JobInv, InJob
  <2>2. CASE job' = job
    BY <2>1, <2>2 DEF JobInv, Early, InJob, Born
  <2>3. CASE job' = [job EXCEPT !.asked = TRUE, !.queue = Append(@, "stop")]
    <3>1. /\ job'.state = job.state /\ job'.complete = job.complete
          /\ job'.observer = job.observer /\ job'.ledger = job.ledger
          /\ job.queue \in Seq(Procs \cup {"stop"}) /\ job'.queue = Append(job.queue, "stop")
      BY <2>3 DEF CommandTypes, JobSet
    <3>2. \A i \in 1..Len(job'.queue) : job'.queue[i] \in Born \cup {"stop"}
      <4>1. \A j \in 1..Len(job.queue) : job.queue[j] \in Born \cup {"stop"}
        BY DEF JobInv
      <4> QED BY <3>1, <4>1, QueuedOne
    <3> QED BY <2>1, <3>1, <3>2 DEF JobInv, Early, InJob, Born
  <2> QED BY <1>6, <2>2, <2>3 DEF EndObserver, AskObserver
<1>7. CASE CloseJob
  <2>1. UNCHANGED tree /\ cmd'.at = "reaping" /\ job.state = "assigned" /\ plan.windows
    BY <1>7 DEF CloseJob, At, CommandTypes, CmdSet, JobInv, InJob
  <2>2. CASE Complete /\ job' = [job EXCEPT !.complete = TRUE, !.state = "closed"]
    <3>1. tree.root = "gone" /\ tree.child \in {"none", "gone"}
      BY <2>2, CompleteIsOver
    <3>2. /\ job'.state = "closed" /\ job'.complete /\ job'.queue = job.queue
          /\ job'.observer = job.observer /\ job'.ledger = job.ledger
      BY <2>2 DEF CommandTypes, JobSet
    <3>3. cmd.at = "closing"
      BY <1>7 DEF CloseJob
    <3> QED BY <2>1, <3>1, <3>2, <3>3 DEF JobInv, Early, InJob, Born
  <2>3. CASE job' = [job EXCEPT !.complete = @ \/ (ObserverOver /\ Complete)]
    <3>1. /\ job'.state = job.state /\ job'.queue = job.queue /\ job'.observer = job.observer
          /\ job'.ledger = job.ledger /\ (job'.complete => job.complete \/ Complete)
      BY <2>3 DEF CommandTypes, JobSet
    <3>2. job'.complete => tree.root = "gone" /\ tree.child \in {"none", "gone"}
      BY <3>1, CompleteIsOver DEF JobInv
    <3> QED BY <2>1, <3>1, <3>2 DEF JobInv, Early, InJob, Born
  <2> QED BY <1>7, <2>2, <2>3 DEF CloseJob
<1>8. CASE Reap
  <2>1. cmd'.at = "joining" /\ UNCHANGED job
    BY <1>8 DEF Reap, At, CommandTypes, CmdSet
  <2>2. CASE tree' = KilledRoot(tree)
    BY <2>1, <2>2, JobKills DEF Early, InJob
  <2>3. CASE UNCHANGED tree
    BY <2>1, <2>3, JobSame DEF Early, InJob
  <2> QED BY <1>8, <2>2, <2>3 DEF Reap
<1> QED BY <1>1, <1>2, <1>3, <1>4, <1>5, <1>6, <1>7, <1>8 DEF ThreadStep

LEMMA JobInvStep ==
    ASSUME PlanInv, CommandTypes, JobInv, [Next]_vars PROVE JobInv'
<1>1. CommandTypes' /\ UNCHANGED plan
  BY CommandTypesStep, PlanStays
<1>2. CASE UNCHANGED commandVars
  BY <1>1, <1>2, JobSame DEF commandVars, jobVars
<1>3. CASE \E kind \in plan.kinds : Submit(kind)
  <2>1. PICK kind : Submit(kind)
    BY <1>3
  <2>2. CASE UNCHANGED jobVars /\ cmd' = [NoCommand EXCEPT !.at = "ended", !.result = "stop"]
    <3>1. cmd'.at = "ended"
      BY <2>2 DEF NoCommand
    <3> QED BY <1>1, <2>2, <3>1, JobSame DEF jobVars, Early, InJob
  <2>3. CASE tree' = NoTree /\ job' = NoJob /\ cmd' = [NoCommand EXCEPT !.kind = kind, !.at = "queued"]
    <3>1. cmd'.at = "queued"
      BY <2>3 DEF NoCommand
    <3>2. tree'.root = "none" /\ tree'.child = "none"
      BY <2>3 DEF NoTree
    <3>3. /\ job'.state = "none" /\ job'.observer = "none" /\ job'.ledger = {"root"}
          /\ job'.complete = FALSE /\ job'.queue = <<>>
      BY <2>3 DEF NoJob
    <3> QED BY <2>3, <3>1, <3>2, <3>3 DEF JobInv, Early, InJob
  <2> QED BY <2>1, <2>2, <2>3 DEF Submit
<1>4. CASE Working /\ cmd' = [cmd EXCEPT !.abandoned = TRUE] /\ UNCHANGED jobVars
  <2>1. cmd'.at = cmd.at
    BY <1>4 DEF CommandTypes, CmdSet
  <2> QED BY <1>1, <1>4, <2>1, JobSame DEF jobVars
<1> QED BY <1>1, <1>2, <1>3, <1>4, CommandSteps, JobThread, JobSystem

-----------------------------------------------------------------------------
(***************************************************************************)
(* The thread.  Where ending the tree went well so far, the tree is ended; *)
(* what exited by itself, and was joined without a failure, has a tree     *)
(* that is over and an output that was read.                               *)
(***************************************************************************)
TreeEnded ==
    IF plan.windows THEN job.state \in {"assigned", "closed"} => job.complete
    ELSE tree.root \notin {"running", "suspended"} /\ (tree.escaped \/ tree.child # "running")

ThreadInv ==
    /\ cmd.at = "waiting" \/ cmd.why = "exited" => cmd.readers # "none"
    /\ cmd.at \in {"reaping", "joining"} /\ cmd.clean => TreeEnded
    /\ cmd.at \in {"cached", "deleting", "observing"} /\ ~cmd.failed /\ cmd.why = "exited" =>
          TreeOver /\ cmd.readers # "reading"
    /\ cmd.at = "observing" => /\ cmd.why = "exited" /\ ~cmd.failed /\ ~cmd.exceeded
                               /\ cmd.cache \in {"none", "gone"}
    /\ cmd.at \notin {"deleting", "observing", "ended"} => cmd.cache \in {"none", "there"}
    /\ cmd.again => cmd.failed \/ cmd.why = "cancelled"
    /\ cmd.at \in Early \cup {"binding", "waiting"} => ~cmd.again
    /\ cmd.result # "none" => cmd.at = "ended"
    /\ OutputIsWhole

\* Once a tree is ended, or over, it stays so.
LEMMA TreeStaysOver ==
    ASSUME CommandTypes, JobInv, UNCHANGED plan,
           SystemStep \/ tree' \in {KilledRoot(tree), Killed(tree)} \/ UNCHANGED tree
    PROVE  /\ TreeOver => TreeOver'
           /\ tree.root = "none" => tree'.root = "none"
<1>1. CASE UNCHANGED tree
  BY <1>1 DEF TreeOver
<1>2. CASE tree' = KilledRoot(tree)
  BY <1>2 DEF TreeOver, KilledRoot, Dying, CommandTypes, TreeSet
<1>3. CASE tree' = Killed(tree)
  <2>1. KilledRoot(tree) \in TreeSet
    BY DEF KilledRoot, Dying, CommandTypes, TreeSet, Lives5
  <2>2. /\ tree'.root = Dying(tree.root) /\ tree'.escaped = tree.escaped
        /\ tree'.child \in {tree.child, Dying(tree.child)}
    <3> DEFINE t == KilledRoot(tree)
    <3>1. t.root = Dying(tree.root) /\ t.escaped = tree.escaped /\ t.child = tree.child
      BY DEF KilledRoot, CommandTypes, TreeSet
    <3>2. tree' = [t EXCEPT !.child = IF tree.escaped THEN t.child ELSE Dying(t.child)]
      BY <1>3 DEF Killed
    <3> HIDE DEF t
    <3>3. t \in TreeSet
      BY <2>1 DEF t
    <3> QED BY <3>1, <3>2, <3>3 DEF TreeSet
  <2> QED BY <2>2 DEF TreeOver, Dying
<1>4. CASE Spawn
  <2>1. tree.root = "running"
    BY <1>4 DEF Spawn
  <2> QED BY <2>1 DEF TreeOver
<1>5. ASSUME NEW p \in Procs, Exits(p)
      PROVE  (TreeOver => TreeOver') /\ (tree.root = "none" => tree'.root = "none")
  <2>1. (tree' = [tree EXCEPT !.root = "gone"] /\ tree.root # "none")
        \/ tree' = [tree EXCEPT !.child = "gone"]
    BY <1>5 DEF Exits, Procs
  <2> QED BY <2>1 DEF TreeOver, CommandTypes, TreeSet
<1>6. CASE Exceed \/ ReadersEnd \/ DeleteEnds \/ ObserverBegins \/ Observe
  BY <1>1, <1>6 DEF Exceed, ReadersEnd, DeleteEnds, ObserverBegins, Observe, jobVars
<1> QED BY <1>1, <1>2, <1>3, <1>4, <1>5, <1>6 DEF SystemStep

LEMMA TreeStaysEnded ==
    ASSUME CommandTypes, JobInv, UNCHANGED plan, SystemStep
    PROVE  TreeEnded => TreeEnded'
<1>1. job'.state = job.state /\ job'.complete = job.complete
  <2>1. CASE UNCHANGED job
    BY <2>1
  <2>2. \A p : Announced(p) => job'.state = job.state /\ job'.complete = job.complete
    BY DEF Announced, CommandTypes, JobSet
  <2>3. CASE ObserverBegins
    BY <2>3 DEF ObserverBegins, CommandTypes, JobSet
  <2>4. CASE Observe
    BY <2>4 DEF Observe, CommandTypes, JobSet
  <2> QED BY <2>1, <2>2, <2>3, <2>4 DEF SystemStep, Spawn, Exits, Exceed, ReadersEnd, DeleteEnds,
           jobVars
<1>2. CASE plan.windows
  BY <1>1, <1>2 DEF TreeEnded
<1>3. CASE ~plan.windows
  <2>1. CASE UNCHANGED tree
    BY <2>1, <1>3 DEF TreeEnded
  <2>2. CASE Spawn
    BY <1>3, <2>2 DEF Spawn, TreeEnded
  <2>3. ASSUME NEW p \in Procs, Exits(p) PROVE TreeEnded => TreeEnded'
    <3>1. tree' = [tree EXCEPT !.root = "gone"] \/ tree' = [tree EXCEPT !.child = "gone"]
      BY <2>3 DEF Exits, Procs
    <3> QED BY <1>3, <3>1 DEF TreeEnded, CommandTypes, TreeSet
  <2> QED BY <2>1, <2>2, <2>3 DEF SystemStep, Exceed, ReadersEnd, DeleteEnds, jobVars,
           ObserverBegins, Observe
<1> QED BY <1>2, <1>3

LEMMA ThreadSystem ==
    ASSUME CommandTypes, JobInv, ThreadInv, UNCHANGED plan, SystemStep PROVE ThreadInv'
<1>1. (TreeOver => TreeOver') /\ (TreeEnded => TreeEnded')
  BY TreeStaysOver, TreeStaysEnded
<1>2. tree'.root # "none" => tree.root # "none"
  <2>1. ASSUME NEW p \in Procs, Exits(p) PROVE tree'.root # "none" => tree.root # "none"
    <3>1. \/ tree' = [tree EXCEPT !.root = "gone"] /\ tree.root # "none"
          \/ tree' = [tree EXCEPT !.child = "gone"]
      BY <2>1 DEF Exits, Procs
    <3> QED BY <3>1 DEF CommandTypes, TreeSet
  <2> QED BY <2>1 DEF SystemStep, Exceed, ReadersEnd, DeleteEnds, jobVars, ObserverBegins, Observe,
           Spawn, CommandTypes, TreeSet
<1>3. CASE UNCHANGED cmd
  <2>1. OutputIsWhole'
    BY <1>1, <1>2, <1>3 DEF ThreadInv, OutputIsWhole
  <2> QED BY <1>1, <1>3, <2>1 DEF ThreadInv
<1>4. CASE Exceed
  <2>1. /\ cmd.readers = "reading" /\ UNCHANGED <<tree, job>> /\ cmd'.at = cmd.at
        /\ cmd'.why = cmd.why /\ cmd'.readers = cmd.readers /\ cmd'.clean = cmd.clean
        /\ cmd'.failed = cmd.failed /\ cmd'.cache = cmd.cache /\ cmd'.again = cmd.again
        /\ cmd'.result = cmd.result
    BY <1>4 DEF Exceed, jobVars, CommandTypes, CmdSet
  <2>2. OutputIsWhole'
    BY <2>1 DEF ThreadInv, OutputIsWhole
  <2> QED BY <1>1, <2>1, <2>2 DEF ThreadInv
<1>5. CASE ReadersEnd
  <2>1. /\ cmd.readers = "reading" /\ UNCHANGED <<tree, job>> /\ cmd'.at = cmd.at
        /\ cmd'.why = cmd.why /\ cmd'.readers = "ended" /\ cmd'.clean = cmd.clean
        /\ cmd'.failed = cmd.failed /\ cmd'.cache = cmd.cache /\ cmd'.again = cmd.again
        /\ cmd'.result = cmd.result /\ cmd'.exceeded = cmd.exceeded
    BY <1>5 DEF ReadersEnd, jobVars, CommandTypes, CmdSet
  <2>2. OutputIsWhole'
    BY <1>1, <2>1 DEF ThreadInv, OutputIsWhole
  <2> QED BY <1>1, <2>1, <2>2 DEF ThreadInv
<1>6. CASE DeleteEnds
  <2>1. /\ cmd.cache = "deleting" /\ UNCHANGED <<tree, job>> /\ cmd'.at = cmd.at
        /\ cmd'.why = cmd.why /\ cmd'.readers = cmd.readers /\ cmd'.clean = cmd.clean
        /\ cmd'.failed = cmd.failed /\ cmd'.again = cmd.again
        /\ cmd'.result = cmd.result /\ cmd'.exceeded = cmd.exceeded
    BY <1>6 DEF DeleteEnds, jobVars, CommandTypes, CmdSet
  <2>2. cmd.at \in {"deleting", "ended"} /\ OutputIsWhole'
    BY <1>1, <2>1 DEF ThreadInv, OutputIsWhole
  <2> QED BY <1>1, <2>1, <2>2 DEF ThreadInv
<1> QED BY <1>3, <1>4, <1>5, <1>6 DEF SystemStep

\* The thread ends with a result that is not one to build on, or reports.
LEMMA EndInv ==
    ASSUME NEW c \in CmdSet, NEW result, NEW sc, Ends(c, result, sc), result # "ok",
           c.why = "exited" => c.readers # "none",
           c.again => c.failed \/ c.why = "cancelled"
    PROVE  ThreadInv'
<1>1. /\ cmd'.at = "ended" /\ cmd'.why = c.why /\ cmd'.readers = c.readers
      /\ cmd'.again = c.again /\ cmd'.failed = c.failed /\ cmd'.result = result
  BY DEF Ends, CmdSet
<1> QED BY <1>1 DEF ThreadInv, OutputIsWhole, Early

LEMMA ReportInv ==
    ASSUME NEW c \in CmdSet, NEW sc, Report(c, sc), UNCHANGED <<plan, tree, job>>,
           c.result = "none",
           c.why = "exited" => c.readers # "none",
           c.again => c.failed \/ c.why = "cancelled",
           c.why = "exited" /\ ~c.failed =>
              TreeOver /\ c.readers # "reading" /\ c.cache \in {"none", "gone"}
    PROVE  ThreadInv'
<1>1. Verdict(c) \in {"none", "replan", "stop", "cancelled"}
      /\ (Verdict(c) = "none" => c.why = "exited" /\ ~c.failed /\ ~c.exceeded)
  BY DEF Verdict
<1>2. CASE Verdict(c) = "none"
  <2>1. cmd' = [c EXCEPT !.at = "observing"]
    BY <1>2 DEF Report
  <2>2. /\ cmd'.at = "observing" /\ cmd'.why = c.why /\ cmd'.readers = c.readers
        /\ cmd'.again = c.again /\ cmd'.failed = c.failed /\ cmd'.result = c.result
        /\ cmd'.exceeded = c.exceeded /\ cmd'.cache = c.cache
    BY <2>1 DEF CmdSet
  <2>3. TreeOver => TreeOver'
    BY DEF TreeOver
  <2> QED BY <1>1, <1>2, <2>2, <2>3 DEF ThreadInv, OutputIsWhole, Early
<1>3. CASE Verdict(c) # "none"
  <2>1. Ends(c, Verdict(c), sc)
    BY <1>3 DEF Report
  <2> QED BY <1>1, <2>1, EndInv
<1> QED BY <1>2, <1>3

\* The cache stays: that failed.
LEMMA StaysInv ==
    ASSUME CommandTypes, ThreadInv, CacheStays(cmd), UNCHANGED <<plan, tree, job>>,
           cmd.at # "ended"
    PROVE  ThreadInv'
<1> DEFINE c == [cmd EXCEPT !.failed = TRUE]
<1>1. c \in CmdSet /\ c.failed /\ c.why = cmd.why /\ c.readers = cmd.readers /\ c.result = cmd.result
  BY DEF CommandTypes, CmdSet
<1>2. Report(c, Leave(BeginTermination(scope), Cache))
  BY DEF CacheStays
<1>3. cmd.result = "none" /\ (cmd.why = "exited" => cmd.readers # "none")
  BY DEF ThreadInv, CommandTypes, CmdSet
<1> HIDE DEF c
<1> QED BY <1>1, <1>2, <1>3, ReportInv

LEMMA DeleteInv ==
    ASSUME CommandTypes, ThreadInv, StartDelete(cmd), UNCHANGED <<plan, tree, job>>,
           cmd.at # "ended",
           cmd.why = "exited" /\ ~cmd.failed => TreeOver /\ cmd.readers # "reading"
    PROVE  ThreadInv'
<1>1. /\ cmd'.at = "deleting" /\ cmd'.why = cmd.why /\ cmd'.readers = cmd.readers
      /\ cmd'.again = cmd.again /\ cmd'.failed = cmd.failed /\ cmd'.result = cmd.result
  BY DEF StartDelete, CommandTypes, CmdSet
<1>2. TreeOver => TreeOver'
  BY DEF TreeOver
<1>3. cmd.result = "none"
  BY DEF ThreadInv
<1> QED BY <1>1, <1>2, <1>3 DEF ThreadInv, OutputIsWhole, Early

\* A step that only moves the thread on, before the tree's end is judged.
LEMMA MovesInv ==
    ASSUME CommandTypes, ThreadInv, NEW stage \in Steps, At(stage),
           stage \in {"preparing", "asking", "launching", "binding", "listing", "terminating",
                     "members", "closing", "reaping", "joining"},
           cmd.at \notin {"ended", "deleting", "observing"},
           stage \in {"reaping", "joining"} /\ cmd.clean => TreeEnded',
           stage \in Early \cup {"binding"} => ~cmd.again
    PROVE  ThreadInv'
<1>1. /\ cmd'.at = stage /\ cmd'.why = cmd.why /\ cmd'.readers = cmd.readers
      /\ cmd'.again = cmd.again /\ cmd'.failed = cmd.failed /\ cmd'.result = cmd.result
      /\ cmd'.clean = cmd.clean /\ cmd'.cache = cmd.cache
  BY DEF At, CommandTypes, CmdSet
<1>2. cmd.result = "none"
  BY DEF ThreadInv
<1> QED BY <1>1, <1>2 DEF ThreadInv, OutputIsWhole, Early

\* Joined after an end that went well, the tree is over.
LEMMA JoinedOver ==
    ASSUME CommandTypes, JobInv, ThreadInv, cmd.at = "joining", cmd.clean, Joined
    PROVE  TreeOver /\ cmd.readers # "reading"
<1>1. TreeEnded
  BY DEF ThreadInv
<1>2. CASE plan.windows /\ job.state \in {"assigned", "closed"}
  BY <1>1, <1>2 DEF TreeEnded, TreeOver, Joined, JobInv
<1>3. CASE plan.windows /\ job.state \notin {"assigned", "closed"}
  BY <1>3 DEF TreeOver, Joined, JobInv, CommandTypes, JobSet
<1>4. CASE ~plan.windows
  BY <1>1, <1>4 DEF TreeEnded, TreeOver, Joined
<1> QED BY <1>2, <1>3, <1>4

LEMMA ThreadThread ==
    ASSUME CommandTypes, CommandTypes', JobInv, JobInv', ThreadInv, UNCHANGED plan, ThreadStep
    PROVE  ThreadInv'
<1> USE DEF jobVars
<1>1. cmd.at # "ended" => cmd.result = "none"
  BY DEF ThreadInv
<1>2. cmd \in CmdSet /\ (cmd.why = "exited" => cmd.readers # "none")
      /\ (cmd.again => cmd.failed \/ cmd.why = "cancelled")
  BY DEF CommandTypes, ThreadInv
<1>3. CASE ThreadBegins
  <2>1. ~cmd.again /\ cmd.at = "queued"
    BY <1>3 DEF ThreadBegins, ThreadInv, Early
  <2> QED BY <1>2, <1>3, <2>1, EndInv, MovesInv DEF ThreadBegins, Steps
<1>4. CASE Prepare \/ Approve
  <2>1. CASE \E result \in {"replan", "stop", "cancelled"} : Ends(cmd, result, scope)
    BY <1>2, <2>1, EndInv
  <2>2. CASE Ends(cmd, "ok", scope)
    <3>1. tree'.root = "none" /\ cmd.at \in {"preparing", "asking"}
      BY <1>4 DEF Prepare, Approve, JobInv, Early, NoTree
    <3>2. /\ cmd'.at = "ended" /\ cmd'.why = cmd.why /\ cmd'.readers = cmd.readers
          /\ cmd'.again = cmd.again /\ cmd'.failed = cmd.failed
      BY <1>2, <2>2 DEF Ends, CmdSet
    <3> QED BY <1>2, <3>1, <3>2 DEF ThreadInv, OutputIsWhole, Early
  <2>3. CASE At("launching") \/ At("asking")
    <3>1. ~cmd.again /\ cmd.at \in {"preparing", "asking"}
      BY <1>4 DEF Prepare, Approve, ThreadInv, Early
    <3> QED BY <1>4, <2>3, <3>1, MovesInv DEF Steps
  <2>4. CASE cmd' = [cmd EXCEPT !.at = "launching", !.cache = "there"]
    <3>1. /\ cmd'.at = "launching" /\ cmd'.why = cmd.why /\ cmd'.readers = cmd.readers
          /\ cmd'.again = cmd.again /\ cmd'.failed = cmd.failed /\ cmd'.result = cmd.result
          /\ cmd'.cache = "there"
      BY <1>2, <2>4 DEF CmdSet
    <3>2. cmd.result = "none" /\ ~cmd.again
      BY <1>1, <1>4 DEF Prepare, Approve, ThreadInv, Early
    <3> QED BY <1>2, <3>1, <3>2 DEF ThreadInv, OutputIsWhole, Early
  <2>5. CASE Ends([cmd EXCEPT !.cache = "unknown"], "stop", Leave(scope, Cache))
    <3> DEFINE c == [cmd EXCEPT !.cache = "unknown"]
    <3>1. /\ c \in CmdSet /\ c.why = cmd.why /\ c.readers = cmd.readers
          /\ c.again = cmd.again /\ c.failed = cmd.failed
      BY <1>2 DEF CmdSet
    <3> HIDE DEF c
    <3> QED BY <1>2, <2>5, <3>1, EndInv DEF c
  <2> QED BY <1>4, <2>1, <2>2, <2>3, <2>4, <2>5 DEF Prepare, Approve, GoAhead, SearchItself, Raise
<1>5. CASE Launch
  <2>0. cmd.at = "launching" /\ cmd.result = "none" /\ cmd.cache \in {"none", "there"}
        /\ ~cmd.again
    BY <1>1, <1>5 DEF Launch, ThreadInv, Early
  <2>1. ASSUME NEW why \in {"cancelled", "unstarted"}, NotLaunched(why) PROVE ThreadInv'
    <3> DEFINE c == [cmd EXCEPT !.why = why]
    <3>1. /\ c \in CmdSet /\ c.why = why /\ c.again = cmd.again /\ c.failed = cmd.failed
      BY <1>2 DEF CmdSet, Reasons
    <3>2. CASE Ends(c, IF why = "cancelled" THEN why ELSE "replan", scope)
      <4>1. c.again => c.failed \/ c.why = "cancelled"
        BY <2>0, <3>1
      <4> HIDE DEF c
      <4> QED BY <3>1, <3>2, <4>1, EndInv
    <3>3. CASE cmd' = [cmd EXCEPT !.at = "cached", !.why = why]
      <4>1. /\ cmd'.at = "cached" /\ cmd'.why = why /\ cmd'.again = cmd.again
            /\ cmd'.failed = cmd.failed /\ cmd'.result = "none" /\ cmd'.cache = cmd.cache
        BY <1>2, <2>0, <3>3 DEF CmdSet
      <4> QED BY <2>0, <4>1 DEF ThreadInv, OutputIsWhole, Early
    <3> QED BY <2>1, <3>2, <3>3 DEF NotLaunched
  <2>2. CASE At("binding")
    BY <2>0, <2>2, MovesInv DEF Steps
  <2>3. CASE cmd' = [cmd EXCEPT !.at = "waiting", !.readers = "reading"]
    <3>1. /\ cmd'.at = "waiting" /\ cmd'.why = cmd.why /\ cmd'.readers = "reading"
          /\ cmd'.again = cmd.again /\ cmd'.failed = cmd.failed /\ cmd'.result = "none"
          /\ cmd'.cache = cmd.cache
      BY <1>2, <2>0, <2>3 DEF CmdSet
    <3> QED BY <1>2, <2>0, <3>1 DEF ThreadInv, OutputIsWhole, Early
  <2> QED BY <1>5, <2>1, <2>2, <2>3 DEF Launch
<1>6. ASSUME NEW why \in Reasons, Stop(why), cmd.at \in {"binding", "waiting"},
             why = "exited" => cmd.at = "waiting", UNCHANGED <<plan, job>>
      PROVE  ThreadInv'
  <2>1. /\ cmd'.at = "cleaning" /\ cmd'.why = why /\ cmd'.readers = cmd.readers
        /\ cmd'.again = cmd.again /\ cmd'.failed = cmd.failed /\ cmd'.result = cmd.result
        /\ cmd'.cache = cmd.cache
    BY <1>2, <1>6 DEF Stop, CmdSet
  <2>2. cmd.result = "none" /\ ~cmd.again
    BY <1>1, <1>6 DEF ThreadInv
  <2>3. why = "exited" => cmd.readers # "none"
    BY <1>6 DEF ThreadInv
  <2> QED BY <1>6, <2>1, <2>2, <2>3 DEF ThreadInv, OutputIsWhole, Early
<1>7. CASE Resume
  <2>1. CASE cmd' = [cmd EXCEPT !.at = "waiting", !.readers = "reading"]
    <3>1. /\ cmd'.at = "waiting" /\ cmd'.why = cmd.why /\ cmd'.readers = "reading"
          /\ cmd'.again = cmd.again /\ cmd'.failed = cmd.failed /\ cmd'.result = cmd.result
          /\ cmd'.cache = cmd.cache
      BY <1>2, <2>1 DEF CmdSet
    <3>2. cmd.result = "none" /\ ~cmd.again /\ cmd.at = "binding"
      BY <1>1, <1>7 DEF Resume, ThreadInv
    <3> QED BY <1>2, <3>1, <3>2 DEF ThreadInv, OutputIsWhole, Early
  <2>2. CASE Stop("cancelled") \/ Stop("error")
    BY <1>6, <1>7, <2>2 DEF Resume, Reasons
  <2> QED BY <1>7, <2>1, <2>2 DEF Resume
<1>8. CASE Watch
  <2>1. PICK why \in Reasons : Stop(why)
    BY <1>8 DEF Watch, Reasons
  <2> QED BY <1>6, <1>8, <2>1 DEF Watch
<1>9. job.state = "closed" => job.complete
  BY DEF JobInv
<1>10. FirstStep = "reaping" => TreeEnded
  BY <1>9 DEF FirstStep, TreeEnded, JobInv
<1>11. FirstStep \in {"closing", "listing", "reaping", "terminating"}
  BY DEF FirstStep
<1>12. CASE Finish
  <2>1. At(FirstStep) /\ cmd.at = "cleaning" /\ UNCHANGED <<tree, job>>
    BY <1>12 DEF Finish
  <2>2. TreeEnded => TreeEnded'
    BY <2>1 DEF TreeEnded
  <2> QED BY <1>10, <1>11, <2>1, <2>2, MovesInv DEF Steps, Early
<1>13. CASE ListMembers
  BY <1>13, MovesInv DEF ListMembers, Steps, Early
<1>14. CASE KillTree
  <2>1. CASE At("members")
    BY <1>14, <2>1, MovesInv DEF KillTree, Steps, Early
  <2>2. CASE tree' = Killed(tree) /\ At("reaping") /\ UNCHANGED job
    <3>1. job.state # "assigned"
      <4>1. cmd'.at = "reaping"
        BY <1>2, <2>2 DEF At, CmdSet
      <4> QED BY <1>2, <1>14, <4>1 DEF KillTree, At, CmdSet
    <3>2. TreeEnded'
      BY <1>9, <2>2, <3>1 DEF TreeEnded, Killed, KilledRoot, Dying, CommandTypes, TreeSet
    <3> QED BY <1>14, <2>2, <3>2, MovesInv DEF KillTree, Steps, Early
  <2>3. CASE cmd' = [cmd EXCEPT !.at = "reaping", !.clean = FALSE]
    <3>1. /\ cmd'.at = "reaping" /\ cmd'.why = cmd.why /\ cmd'.readers = cmd.readers
          /\ cmd'.again = cmd.again /\ cmd'.failed = cmd.failed /\ cmd'.result = cmd.result
          /\ cmd'.cache = cmd.cache /\ ~cmd'.clean
      BY <1>2, <2>3 DEF CmdSet
    <3>2. cmd.result = "none" /\ cmd.at = "terminating"
      BY <1>1, <1>14 DEF KillTree
    <3> QED BY <1>2, <3>1, <3>2 DEF ThreadInv, OutputIsWhole, Early
  <2> QED BY <1>14, <2>1, <2>2, <2>3 DEF KillTree
<1>15. CASE EndObserver
  BY <1>15, MovesInv DEF EndObserver, Steps, Early
<1>16. CASE CloseJob
  <2>1. CASE /\ job' = [job EXCEPT !.complete = TRUE, !.state = "closed"] /\ At("reaping")
    <3>1. job'.complete /\ plan.windows
      BY <1>16, <2>1 DEF CloseJob, CommandTypes, JobSet, JobInv, InJob
    <3>2. TreeEnded'
      BY <3>1 DEF TreeEnded
    <3> QED BY <1>16, <2>1, <3>2, MovesInv DEF CloseJob, Steps, Early
  <2>2. CASE cmd' = [cmd EXCEPT !.at = "reaping", !.clean = FALSE]
    <3>1. /\ cmd'.at = "reaping" /\ cmd'.why = cmd.why /\ cmd'.readers = cmd.readers
          /\ cmd'.again = cmd.again /\ cmd'.failed = cmd.failed /\ cmd'.result = cmd.result
          /\ cmd'.cache = cmd.cache /\ ~cmd'.clean
      BY <1>2, <2>2 DEF CmdSet
    <3>2. cmd.result = "none" /\ cmd.at = "closing"
      BY <1>1, <1>16 DEF CloseJob
    <3> QED BY <1>2, <3>1, <3>2 DEF ThreadInv, OutputIsWhole, Early
  <2> QED BY <1>16, <2>1, <2>2 DEF CloseJob
<1>17. CASE Reap
  <2>1. CASE tree' = KilledRoot(tree) /\ At("joining")
    <3>1. TreeEnded => TreeEnded'
      BY <1>17, <2>1 DEF Reap, TreeEnded, KilledRoot, Dying, CommandTypes, TreeSet
    <3>2. cmd.at = "reaping" /\ (cmd.clean => TreeEnded)
      BY <1>17 DEF Reap, ThreadInv
    <3> QED BY <2>1, <3>1, <3>2, MovesInv DEF Steps, Early
  <2>2. CASE cmd' = [cmd EXCEPT !.at = "joining", !.clean = FALSE]
    <3>1. /\ cmd'.at = "joining" /\ cmd'.why = cmd.why /\ cmd'.readers = cmd.readers
          /\ cmd'.again = cmd.again /\ cmd'.failed = cmd.failed /\ cmd'.result = cmd.result
          /\ cmd'.cache = cmd.cache /\ ~cmd'.clean
      BY <1>2, <2>2 DEF CmdSet
    <3>2. cmd.result = "none" /\ cmd.at = "reaping"
      BY <1>1, <1>17 DEF Reap
    <3> QED BY <1>2, <3>1, <3>2 DEF ThreadInv, OutputIsWhole, Early
  <2> QED BY <1>17, <2>1, <2>2 DEF Reap
<1>19. CASE Join
  <2>1. cmd.at = "joining" /\ cmd.result = "none" /\ UNCHANGED <<tree, job>>
        /\ cmd.cache \in {"none", "there"}
    BY <1>1, <1>19 DEF Join, ThreadInv
  <2>2. CASE cmd.again /\ cmd.clean /\ Joined /\ StartDelete(cmd)
    BY JoinedOver, <2>1, <2>2, DeleteInv
  <2>3. CASE CacheStays(cmd)
    BY <2>1, <2>3, StaysInv
  <2>4. ASSUME NEW clean \in BOOLEAN, NEW c \in CmdSet, NEW sc, Goes(c, sc),
               clean => cmd.clean /\ Joined, c.failed = ~clean, c.why \in {cmd.why, "cancelled"},
               c.readers = cmd.readers, c.exceeded = cmd.exceeded, c.cache = cmd.cache, ~c.again,
               c.result = "none"
        PROVE  ThreadInv'
    <3>1. c.why = "exited" => c.readers # "none"
      BY <1>2, <2>4
    <3>2. c.why = "exited" /\ ~c.failed => TreeOver /\ c.readers # "reading"
      BY JoinedOver, <2>1, <2>4
    <3>3. CASE Report(c, sc) /\ c.cache # "there"
      BY <2>1, <2>4, <3>1, <3>2, <3>3, ReportInv
    <3>4. CASE cmd' = [c EXCEPT !.at = "cached"] /\ c.cache = "there"
      <4>1. /\ cmd'.at = "cached" /\ cmd'.why = c.why /\ cmd'.readers = c.readers
            /\ cmd'.again = c.again /\ cmd'.failed = c.failed /\ cmd'.result = c.result
            /\ cmd'.cache = c.cache
        BY <3>4 DEF CmdSet
      <4>2. TreeOver => TreeOver'
        BY <2>1 DEF TreeOver
      <4> QED BY <2>4, <3>1, <3>2, <3>4, <4>1, <4>2 DEF ThreadInv, OutputIsWhole, Early
    <3> QED BY <2>4, <3>3, <3>4 DEF Goes
  <2> QED BY <1>19, <2>1, <2>2, <2>3, <2>4, JoinCases
<1>20. CASE RemoveCache
  <2>1. cmd.at = "cached" /\ cmd.result = "none" /\ UNCHANGED <<tree, job>>
        /\ cmd.cache \in {"none", "there"}
    BY <1>1, <1>20 DEF RemoveCache, ThreadInv
  <2>2. CASE StartDelete(cmd)
    BY <2>1, <2>2, DeleteInv DEF ThreadInv
  <2>3. CASE Depends /\ cmd' = [cmd EXCEPT !.again = TRUE, !.clean = TRUE, !.at = FirstStep]
    <3>1. /\ cmd'.at = FirstStep /\ cmd'.why = cmd.why /\ cmd'.readers = cmd.readers
          /\ cmd'.again /\ cmd'.failed = cmd.failed /\ cmd'.result = cmd.result
          /\ cmd'.cache = cmd.cache
      BY <1>2, <2>3 DEF CmdSet
    <3>2. TreeEnded => TreeEnded'
      BY <2>1 DEF TreeEnded
    <3> QED BY <1>2, <1>10, <1>11, <2>1, <2>3, <3>1, <3>2 DEF ThreadInv, OutputIsWhole, Early, Depends
  <2> QED BY <1>20, <2>2, <2>3 DEF RemoveCache
<1>21. CASE CacheRemoved
  <2>1. cmd.at = "deleting" /\ cmd.result = "none" /\ UNCHANGED <<tree, job>>
    BY <1>1, <1>21 DEF CacheRemoved
  <2>2. CASE cmd.cache = "gone" /\ Report(cmd, Discard(scope, Cache))
    <3>1. cmd.why = "exited" /\ ~cmd.failed => TreeOver /\ cmd.readers # "reading"
      BY <2>1 DEF ThreadInv
    <3> QED BY <1>2, <2>1, <2>2, <3>1, ReportInv
  <2>3. CASE CacheStays(cmd)
    BY <2>1, <2>3, StaysInv
  <2> QED BY <1>21, <2>2, <2>3 DEF CacheRemoved
<1>22. CASE Observed
  <2>1. PICK result : Ends(cmd, result, scope)
    BY <1>22 DEF Observed
  <2>2. /\ cmd.at = "observing" /\ UNCHANGED <<tree, job>> /\ cmd.why = "exited" /\ ~cmd.failed
        /\ ~cmd.exceeded /\ cmd.cache \in {"none", "gone"} /\ TreeOver /\ cmd.readers = "ended"
    BY <1>2, <1>22 DEF Observed, ThreadInv, CmdSet
  <2>3. /\ cmd'.at = "ended" /\ cmd'.why = cmd.why /\ cmd'.readers = cmd.readers
        /\ cmd'.again = cmd.again /\ cmd'.failed = cmd.failed /\ cmd'.cache = cmd.cache
        /\ cmd'.exceeded = cmd.exceeded
    BY <1>2, <2>1 DEF Ends, CmdSet
  <2>4. TreeOver'
    BY <2>2 DEF TreeOver
  <2> QED BY <1>2, <2>2, <2>3, <2>4 DEF ThreadInv, OutputIsWhole, Early
<1> QED BY <1>3, <1>4, <1>5, <1>7, <1>8, <1>12, <1>13, <1>14, <1>15, <1>16, <1>17, <1>19, <1>20,
       <1>21, <1>22 DEF ThreadStep

LEMMA ThreadInvStep ==
    ASSUME PlanInv, CommandTypes, JobInv, ThreadInv, [Next]_vars PROVE ThreadInv'
<1>1. CommandTypes' /\ JobInv' /\ UNCHANGED plan
  BY CommandTypesStep, JobInvStep, PlanStays
<1>2. CASE UNCHANGED commandVars
  BY <1>1, <1>2 DEF ThreadInv, OutputIsWhole, TreeOver, TreeEnded, commandVars, jobVars
<1>3. CASE \E kind \in plan.kinds : Submit(kind)
  <2>1. PICK kind \in Kinds : Submit(kind)
    BY <1>3, PlanKinds
  <2>2. NoCommand \in CmdSet /\ NoCommand.why = "none" /\ NoCommand.readers = "none"
        /\ NoCommand.cache = "none" /\ ~NoCommand.again /\ NoCommand.result = "none"
    BY DEF NoCommand, CmdSet, Kinds, Steps, Reasons, Results
  <2> HIDE DEF NoCommand
  <2>3. CASE cmd' = [NoCommand EXCEPT !.at = "ended", !.result = "stop"]
    <3>1. /\ cmd'.at = "ended" /\ cmd'.why = "none" /\ ~cmd'.again /\ cmd'.result = "stop"
      BY <2>2, <2>3 DEF CmdSet
    <3> QED BY <3>1 DEF ThreadInv, OutputIsWhole, Early
  <2>4. CASE cmd' = [NoCommand EXCEPT !.kind = kind, !.at = "queued"]
    <3>1. /\ cmd'.at = "queued" /\ cmd'.why = "none" /\ ~cmd'.again /\ cmd'.result = "none"
          /\ cmd'.cache = "none"
      BY <2>2, <2>4 DEF CmdSet
    <3> QED BY <3>1 DEF ThreadInv, OutputIsWhole, Early
  <2> QED BY <2>1, <2>3, <2>4 DEF Submit
<1>4. CASE cmd' = [cmd EXCEPT !.abandoned = TRUE] /\ UNCHANGED jobVars
  <2>1. /\ cmd'.at = cmd.at /\ cmd'.why = cmd.why /\ cmd'.readers = cmd.readers
        /\ cmd'.again = cmd.again /\ cmd'.failed = cmd.failed /\ cmd'.result = cmd.result
        /\ cmd'.clean = cmd.clean /\ cmd'.exceeded = cmd.exceeded /\ cmd'.cache = cmd.cache
    BY <1>4 DEF CommandTypes, CmdSet
  <2>2. UNCHANGED <<tree, job>>
    BY <1>4 DEF jobVars
  <2>3. (TreeOver <=> TreeOver') /\ (TreeEnded <=> TreeEnded')
    BY <1>1, <2>2 DEF TreeOver, TreeEnded
  <2>4. OutputIsWhole'
    BY <2>1, <2>2, <2>3 DEF ThreadInv, OutputIsWhole
  <2> QED BY <2>1, <2>2, <2>3, <2>4 DEF ThreadInv
<1> QED BY <1>1, <1>2, <1>3, <1>4, CommandSteps, ThreadThread, ThreadSystem

CommandInv == PlanInv /\ CommandTypes /\ JobInv /\ ThreadInv

LEMMA CommandInvStep == ASSUME CommandInv, [Next]_vars PROVE CommandInv'
BY PlanStays, CommandTypesStep, JobInvStep, ThreadInvStep DEF CommandInv, PlanInv

LEMMA CommandInvInit == Init => CommandInv
<1> SUFFICES ASSUME Init PROVE CommandInv
  OBVIOUS
<1>1. tree = NoTree /\ job = NoJob /\ cmd = NoCommand /\ PlanInv
  BY DEF Init, CommandInit, JobInit, PlanInv
<1>2. CommandTypes
  BY <1>1, EmptyQueue DEF CommandTypes, NoTree, TreeSet, Lives5, NoJob, JobSet, Procs, NoCommand,
     CmdSet, Kinds, Steps, Reasons, Results
<1>3. JobInv
  BY <1>1 DEF JobInv, NoTree, NoJob, NoCommand, Early, InJob
<1>4. ThreadInv
  BY <1>1 DEF ThreadInv, OutputIsWhole, NoCommand, Early
<1> QED BY <1>1, <1>2, <1>3, <1>4 DEF CommandInv

LEMMA Commanding == Spec => []CommandInv
<1>1. CommandInv /\ [Next]_vars => CommandInv'
  BY CommandInvStep
<1> QED BY <1>1, CommandInvInit, PTL DEF Spec

\* What the agent acts on is whole, whatever the connections, the processes and the
\* system do: a response that is taken for good was sent to its end with no half a
\* call, and a command's output that is taken for good is that of a process that
\* exited by itself, to which nobody can add any more.
THEOREM ActsOnWhole == Spec => []ResultIsWhole
<1>1. StreamInv /\ CommandInv => ResultIsWhole
  BY DEF ResultIsWhole, StreamInv, RequestInv, WholeSoFar, ResponseIsWhole, CommandInv, ThreadInv
<1> QED BY <1>1, Streaming, Commanding, PTL

-----------------------------------------------------------------------------
(***************************************************************************)
(* The scope.                                                              *)
(***************************************************************************)
IsScope(sc) ==
    /\ sc = [deadline |-> sc.deadline, failed |-> sc.failed, resources |-> sc.resources]
    /\ sc.failed \in BOOLEAN

Has(r) == r \in scope.resources

LEMMA ScopeOps ==
    ASSUME NEW sc, IsScope(sc), NEW r
    PROVE  /\ IsScope(BeginTermination(sc)) /\ BeginTermination(sc).resources = sc.resources
           /\ BeginTermination(sc).failed = sc.failed
           /\ IsScope(MarkFailed(sc)) /\ MarkFailed(sc).resources = sc.resources
           /\ MarkFailed(sc).failed
           /\ IsScope(Retain(sc, r)) /\ Retain(sc, r).resources = sc.resources \cup {r}
           /\ Retain(sc, r).failed = sc.failed
           /\ IsScope(Discard(sc, r)) /\ Discard(sc, r).resources = sc.resources \ {r}
           /\ Discard(sc, r).failed = sc.failed
           /\ IsScope(Leave(sc, r)) /\ Leave(sc, r).resources = sc.resources \cup {r}
           /\ Leave(sc, r).failed
<1>1. PICK d, f, rs : sc = [deadline |-> d, failed |-> f, resources |-> rs] /\ f \in BOOLEAN
  BY DEF IsScope
<1>2. PICK e : e = IF d = "none" THEN "running" ELSE d
  OBVIOUS
<1>3. BeginTermination(sc) = [deadline |-> e, failed |-> f, resources |-> rs]
  BY <1>1, <1>2 DEF BeginTermination
<1>4. PICK w \in BOOLEAN : w = TRUE
  OBVIOUS
<1>5. MarkFailed(sc) = [deadline |-> d, failed |-> w, resources |-> rs]
  <2>1. MarkFailed(sc) = [sc EXCEPT !.failed = w]
    BY <1>4 DEF MarkFailed
  <2> QED BY <1>1, <2>1
<1>6. Retain(sc, r) = [deadline |-> d, failed |-> f, resources |-> rs \cup {r}]
  BY <1>1 DEF Retain
<1>7. Discard(sc, r) = [deadline |-> d, failed |-> f, resources |-> rs \ {r}]
  BY <1>1 DEF Discard
<1>8. Leave(sc, r) = [deadline |-> d, failed |-> w, resources |-> rs \cup {r}]
  BY <1>5 DEF Leave, Retain
<1> DEFINE built(s, g, y) == IsScope(s) /\ s.failed = g /\ s.resources = y
<1>9. built(sc, f, rs)
  BY <1>1 DEF IsScope
<1>10. built(BeginTermination(sc), f, rs)
  BY <1>1, <1>3 DEF IsScope
<1>11. built(MarkFailed(sc), w, rs)
  BY <1>4, <1>5 DEF IsScope
<1>12. built(Retain(sc, r), f, rs \cup {r})
  BY <1>1, <1>6 DEF IsScope
<1>13. built(Discard(sc, r), f, rs \ {r})
  BY <1>1, <1>7 DEF IsScope
<1>14. built(Leave(sc, r), w, rs \cup {r})
  BY <1>4, <1>8 DEF IsScope
<1> QED BY <1>4, <1>9, <1>10, <1>11, <1>12, <1>13, <1>14

\* A step loses no resource but those of X.
Loses(X) == IsScope(scope') /\ scope.resources \subseteq scope'.resources \cup X

-----------------------------------------------------------------------------
(***************************************************************************)
(* What the scope holds of the connections: those that live, those whose   *)
(* generators were dropped and are still to be closed, and the reads the   *)
(* provider could not wait for.                                            *)
(***************************************************************************)
Streamed == {Connection(k) : k \in Nat} \cup {Reading(k) : k \in Nat}

StreamKept ==
    /\ \A k \in Conns : Alive(k) \/ conns[k].abandoned => Has(Connection(k))
    /\ \A k \in closing : Has(Reading(k)) /\ ~conns[k].abandoned
    /\ request.at = "reading" => Has(Connection(request.conn))

LEMMA Apart == \A j, k : /\ Connection(j) # Reading(k)
                         /\ (Connection(j) = Connection(k) => j = k)
                         /\ (Reading(j) = Reading(k) => j = k)
BY DEF Connection, Reading

\* A step that discards a connection only when it has ended, and keeps the reads.
LEMMA StreamKeptBy ==
    ASSUME StreamInv, StreamInv', Grown, StreamKept,
           \A k \in Conns : Has(Connection(k)) =>
              Has(Connection(k))' \/ (Finished(conns'[k]) /\ ~conns'[k].abandoned
                                      /\ ~(request'.at = "reading" /\ request'.conn = k)),
           \A k \in Conns' \ Conns : Has(Connection(k))',
           \A k \in closing' : Has(Reading(k))'
              /\ (k \in closing \/ (k = request.conn /\ request.at = "leaving")),
           request'.at = "reading" =>
              request'.conn \in Conns' \ Conns
              \/ (request.at = "reading" /\ request'.conn = request.conn)
    PROVE  StreamKept'
<1>1. \A k \in Conns : Alive(k) \/ Finished(conns[k])
  BY DEF Alive, Finished
<1>2. ASSUME NEW k \in Conns', Alive(k)' \/ conns'[k].abandoned PROVE Has(Connection(k))'
  <2>1. CASE k \notin Conns
    BY <1>2, <2>1
  <2>2. CASE k \in Conns
    <3>1. ~(Finished(conns'[k]) /\ ~conns'[k].abandoned)
      BY <1>2 DEF Alive, Finished
    <3>2. Alive(k) \/ conns[k].abandoned \/ GivenUp(k)
      BY <1>1, <1>2, <2>2, <3>1 DEF Grown, Follows
    <3>3. Has(Connection(k))
      BY <2>2, <3>2 DEF StreamKept, GivenUp
    <3> QED BY <2>2, <3>1, <3>3
  <2> QED BY <2>1, <2>2
<1>3. ASSUME NEW k \in closing' PROVE ~conns'[k].abandoned
  <2>1. k \in Conns' /\ k \in Conns
    BY DEF StreamInv, RequestInv, Attended
  <2>2. ~conns[k].abandoned
    BY <2>1 DEF StreamInv, RequestInv, Attended, StreamKept
  <2>3. ~GivenUp(k)
    BY DEF StreamInv, RequestInv, Attended, GivenUp
  <2> QED BY <2>1, <2>2, <2>3 DEF Grown
<1>4. ASSUME request'.at = "reading" PROVE Has(Connection(request.conn))'
  <2>1. CASE request'.conn \in Conns' \ Conns
    BY <2>1
  <2>2. CASE request.at = "reading" /\ request'.conn = request.conn
    <3>1. request.conn \in Conns /\ Has(Connection(request.conn))
      BY <2>2 DEF StreamInv, RequestInv, Attended, StreamKept
    <3> QED BY <1>4, <2>2, <3>1
  <2> QED BY <1>4, <2>1, <2>2
<1> QED BY <1>2, <1>3, <1>4 DEF StreamKept

LEMMA SetConns == ASSUME ConnsInv, NEW k, NEW c, Set(k, c) PROVE Conns' = Conns
BY DEF ConnsInv, Set, Conns

\* Where no resource is lost there is little to see.
LEMMA StreamKeptSame ==
    ASSUME StreamInv, StreamInv', Grown, StreamKept, Conns' = Conns, closing' \subseteq closing,
           scope.resources \subseteq scope'.resources,
           request'.at = "reading" => request.at = "reading" /\ request'.conn = request.conn
    PROVE  StreamKept'
<1>1. \A r : Has(r) => Has(r)'
  BY DEF Has
<1> QED BY <1>1, StreamKeptBy DEF StreamKept

LEMMA LosesNone ==
    ASSUME IsScope(scope), NEW r, NEW X,
           scope' \in {scope, BeginTermination(scope), MarkFailed(scope), Retain(scope, r),
                       Leave(scope, r), Retain(BeginTermination(scope), r),
                       Leave(BeginTermination(scope), r)}
    PROVE  Loses(X) /\ scope.resources \subseteq scope'.resources
<1>1. IsScope(BeginTermination(scope)) /\ BeginTermination(scope).resources = scope.resources
  BY ScopeOps
<1> QED BY <1>1, ScopeOps DEF Loses

LEMMA StreamKeptRequest ==
    ASSUME StreamInv, StreamKept, IsScope(scope), StreamInv', Grown,
           BeginRequest \/ GiveUpReading \/ TakeChunk \/ GiveUpLeaving \/ RetryOrReturn
    PROVE  StreamKept' /\ Loses(Streamed)
<1>1. CASE BeginRequest \/ RetryOrReturn
  <2>1. UNCHANGED <<scope, conns, closing>> /\ request'.at # "reading"
    BY <1>1, ZenonT(40) DEF BeginRequest, RetryOrReturn, NoRequest, StreamInv, RequestInv, RequestSet
  <2> QED BY <2>1, StreamKeptSame, LosesNone DEF Conns
<1>2. CASE GiveUpReading
  <2>1. PICK error, reading : LeaveWith(request, error, reading) /\ UNCHANGED closing
    BY <1>2 DEF GiveUpReading
  <2>2. request'.at = "leaving" /\ Conns' = Conns
    BY <2>1 DEF LeaveWith, StreamInv, RequestInv, RequestSet, ConnsInv, Conns
  <2>3. scope' \in {scope, Retain(BeginTermination(scope), Reading(request.conn))}
    BY <2>1 DEF LeaveWith
  <2>4. Loses(Streamed) /\ scope.resources \subseteq scope'.resources
    BY <2>3, LosesNone
  <2> QED BY <2>1, <2>2, <2>4, StreamKeptSame
<1>3. CASE TakeChunk
  <2> DEFINE k == request.conn
             e == conns[k].queue[1]
  <2>0. e \in Chunks
    <3>1. request.at = "reading" /\ conns[k].queue # <<>>
      BY <1>3 DEF TakeChunk
    <3>2. k \in Conns /\ conns[k] \in ConnSet /\ EndIsKnown(conns[k])
      BY <3>1 DEF StreamInv, ConnsInv, RequestInv, Attended, Conns
    <3> QED BY <3>1, <3>2, TakenConn
  <2>1. UNCHANGED <<scope, closing>> /\ request.at = "reading"
    BY <1>3, <2>0 DEF TakeChunk, Events, Chunks
  <2>2. \E c : Set(k, c)
    BY <1>3, <2>0 DEF TakeChunk, Events, Chunks
  <2>3. Conns' = Conns
    BY <2>2, SetConns DEF StreamInv
  <2>4. request' \in RequestSet /\ request \in RequestSet
    BY DEF StreamInv, RequestInv
  <2>5. request'.at = "reading" => request'.conn = request.conn
    <3>1. CASE e \notin Events
      <4>1. \E error : request' = [request EXCEPT !.at = "leaving", !.error = error]
        BY <1>3, <2>0, <3>1 DEF TakeChunk, Events, Chunks
      <4> QED BY <2>4, <4>1 DEF RequestSet
    <3>2. CASE e \in Events
      <4> DEFINE r == AfterEvent(request, e)
                 said == [r EXCEPT !.spoke = IF r.emitted THEN @ \cup {k} ELSE @]
      <4>1. r \in RequestSet /\ r.conn = k
        BY <2>4, <3>2, AfterEventRequest
      <4> HIDE DEF r
      <4>2. said.conn = k
        BY <4>1 DEF RequestSet
      <4>3. \/ Left("cancelled") \/ request' = said
            \/ request' = [said EXCEPT !.at = "leaving"]
            \/ request' = [request EXCEPT !.at = "leaving", !.error = "protocol"]
        BY <1>3, <3>2 DEF TakeChunk, Events, r
      <4>4. [said EXCEPT !.at = "leaving"].conn = said.conn
        BY <4>1 DEF RequestSet
      <4> HIDE DEF said
      <4> QED BY <2>4, <4>2, <4>3, <4>4 DEF Left, RequestSet
    <3> QED BY <3>1, <3>2
  <2> QED BY <2>1, <2>3, <2>5, StreamKeptSame, LosesNone
<1>4. CASE GiveUpLeaving
  <2>1. PICK error : LeavingGivenUp(error)
    BY <1>4 DEF GiveUpLeaving
  <2>2. request'.at = "left" /\ UNCHANGED <<conns, closing>>
        /\ scope' = Leave(BeginTermination(scope), Connection(request.conn))
    BY <2>1 DEF LeavingGivenUp, Left, StreamInv, RequestInv, RequestSet
  <2> QED BY <2>2, StreamKeptSame, LosesNone DEF Conns
<1> QED BY <1>1, <1>2, <1>3, <1>4

LEMMA StreamKeptAttempt ==
    ASSUME StreamInv, StreamKept, IsScope(scope), StreamInv', Grown, Attempt
    PROVE  StreamKept' /\ Loses(Streamed)
<1> DEFINE k == Len(conns) + 1
           seen == [j \in Conns |-> IF j \in owners THEN Stopped(conns[j]) ELSE conns[j]]
<1>1. Len(conns) \in Nat /\ Conns = 1..Len(conns) /\ Len(seen) = Len(conns)
  <2>1. Len(conns) \in Nat
    BY DEF StreamInv, ConnsInv
  <2>2. seen \in [1..Len(conns) -> {seen[j] : j \in 1..Len(conns)}]
    BY DEF Conns
  <2> QED BY <2>1, <2>2, LenProperties DEF Conns
<1>2. request.at = "attempt" /\ UNCHANGED closing
  BY DEF Attempt
<1>3. CASE conns' \in {conns, seen} /\ (Left("cancelled") \/ Left("cleanup")) /\ UNCHANGED scope
  <2>1. request'.at = "left"
    BY <1>3 DEF Left, StreamInv, RequestInv, RequestSet
  <2>2. Conns' = Conns
    <3>1. Len(conns') = Len(conns)
      BY <1>1, <1>3
    <3> QED BY <1>1, <3>1 DEF Conns
  <2> QED BY <1>2, <1>3, <2>1, <2>2, StreamKeptSame, LosesNone
<1>4. CASE /\ conns' = Append(seen, NewConnection) /\ scope' = Retain(scope, Connection(k))
           /\ request' = [request EXCEPT !.at = "reading", !.conn = k]
  <2> HIDE DEF seen
  <2>1. PICK n \in Nat : n = k
    BY <1>1
  <2>2. request'.conn = n
    BY <1>4, <2>1 DEF StreamInv, RequestInv, RequestSet
  <2>3. Conns' = Conns \cup {n} /\ n \notin Conns
    <3>1. seen \in Seq({seen[j] : j \in 1..Len(conns)})
      BY <1>1 DEF Conns, seen
    <3>2. Len(conns') = n
      BY <1>1, <1>4, <2>1, <3>1
    <3> QED BY <1>1, <2>1, <3>2 DEF Conns
  <2>4. scope' = Retain(scope, Connection(n))
    BY <1>4, <2>1
  <2>5. Loses(Streamed) /\ scope'.resources = scope.resources \cup {Connection(n)}
    <3>1. scope'.resources = scope.resources \cup {Connection(n)}
      BY <2>4, ScopeOps
    <3> QED BY <2>4, <3>1, ScopeOps DEF Loses
  <2>6. Has(Connection(n))' /\ \A r : Has(r) => Has(r)'
    BY <2>5 DEF Has
  <2> QED BY <1>2, <2>2, <2>3, <2>5, <2>6, StreamKeptBy DEF StreamKept
<1> QED BY <1>3, <1>4 DEF Attempt

\* The connection that is left, and its read.
LEMMA LosesOne ==
    ASSUME IsScope(scope), NEW k \in Nat, NEW s, IsScope(s), scope.resources \subseteq s.resources
    PROVE  /\ scope' = Discard(s, Connection(k)) =>
                 /\ Loses(Streamed) /\ \A j : Has(Reading(j)) => Has(Reading(j))'
                 /\ \A j : Has(Connection(j)) /\ j # k => Has(Connection(j))'
           /\ scope' = Discard(s, Reading(k)) =>
                 /\ Loses(Streamed) /\ \A j : Has(Connection(j)) => Has(Connection(j))'
                 /\ \A j : Has(Reading(j)) /\ j # k => Has(Reading(j))'
           /\ scope' = Discard(Discard(s, Connection(k)), Reading(k)) =>
                 /\ Loses(Streamed)
                 /\ \A j : Has(Reading(j)) /\ j # k => Has(Reading(j))'
                 /\ \A j : Has(Connection(j)) /\ j # k => Has(Connection(j))'
<1>1. {Connection(k), Reading(k)} \subseteq Streamed
  BY DEF Streamed
<1>2. ASSUME scope' = Discard(s, Connection(k))
      PROVE  /\ Loses(Streamed) /\ \A j : Has(Reading(j)) => Has(Reading(j))'
             /\ \A j : Has(Connection(j)) /\ j # k => Has(Connection(j))'
  <2>1. IsScope(scope') /\ scope'.resources = s.resources \ {Connection(k)}
    BY <1>2, ScopeOps
  <2> QED BY <1>1, <2>1, Apart DEF Loses, Has
<1>3. ASSUME scope' = Discard(s, Reading(k))
      PROVE  /\ Loses(Streamed) /\ \A j : Has(Connection(j)) => Has(Connection(j))'
             /\ \A j : Has(Reading(j)) /\ j # k => Has(Reading(j))'
  <2>1. IsScope(scope') /\ scope'.resources = s.resources \ {Reading(k)}
    BY <1>3, ScopeOps
  <2> QED BY <1>1, <2>1, Apart DEF Loses, Has
<1>4. ASSUME scope' = Discard(Discard(s, Connection(k)), Reading(k))
      PROVE  /\ Loses(Streamed)
             /\ \A j : Has(Reading(j)) /\ j # k => Has(Reading(j))'
             /\ \A j : Has(Connection(j)) /\ j # k => Has(Connection(j))'
  <2>1. IsScope(Discard(s, Connection(k)))
        /\ Discard(s, Connection(k)).resources = s.resources \ {Connection(k)}
    BY ScopeOps
  <2>2. IsScope(scope') /\ scope'.resources = s.resources \ {Connection(k), Reading(k)}
    BY <1>4, <2>1, ScopeOps
  <2> QED BY <1>1, <2>2, Apart DEF Loses, Has
<1> QED BY <1>2, <1>3, <1>4

LEMMA StreamKeptLeaving ==
    ASSUME StreamInv, StreamKept, IsScope(scope), StreamInv', Grown,
           ConnectionEnds \/ LeavingTimesOut \/ RequestInterrupted
    PROVE  StreamKept' /\ Loses(Streamed)
<1> DEFINE k == request.conn
<1>1. k \in Nat /\ request \in RequestSet
  BY DEF StreamInv, RequestInv, RequestSet
<1>2. ASSUME NEW error, Left(error) PROVE request'.at = "left"
  BY <1>1, <1>2 DEF Left, RequestSet
<1>3. request.at \in {"reading", "leaving"} =>
         k \in Conns /\ k \notin closing /\ ~conns[k].abandoned
  BY DEF StreamInv, RequestInv, Attended
<1>4. CASE ConnectionEnds
  <2>1. /\ request.at = "leaving" /\ Clean(conns[k]) /\ UNCHANGED <<conns, closing>>
        /\ request'.at = "left" /\ scope' = Discard(Discard(scope, Connection(k)), Reading(k))
    BY <1>2, <1>4 DEF ConnectionEnds
  <2>2. Finished(conns'[k]) /\ ~conns'[k].abandoned
    BY <1>3, <2>1 DEF Clean, Finished
  <2>3. /\ Loses(Streamed)
        /\ \A j : Has(Reading(j)) /\ j # k => Has(Reading(j))'
        /\ \A j : Has(Connection(j)) /\ j # k => Has(Connection(j))'
    BY <1>1, <2>1, LosesOne
  <2> HIDE DEF k
  <2> QED BY <1>3, <2>1, <2>2, <2>3, StreamKeptBy DEF StreamKept, Conns
<1>5. CASE LeavingTimesOut
  <2>1. request.at = "leaving" /\ UNCHANGED conns /\ request'.at = "left"
    BY <1>2, <1>5 DEF LeavingTimesOut
  <2>2. CASE closing' = closing \cup {k} /\ scope' = Leave(scope, Reading(k))
    <3>1. Loses(Streamed) /\ scope'.resources = scope.resources \cup {Reading(k)}
      BY <2>2, ScopeOps, LosesNone
    <3>2. \A r : Has(r) => Has(r)'
      BY <3>1 DEF Has
    <3>3. \A j : j = k => Has(Reading(j))'
      BY <3>1 DEF Has
    <3> QED BY <2>1, <2>2, <3>1, <3>2, <3>3, StreamKeptBy DEF StreamKept, Conns
  <2>3. CASE UNCHANGED closing
             /\ scope' = Discard(Leave(BeginTermination(scope), Connection(k)), Reading(k))
    <3> DEFINE s == Leave(BeginTermination(scope), Connection(k))
    <3>1. IsScope(s) /\ scope.resources \subseteq s.resources
      <4>1. PICK b : b = BeginTermination(scope) /\ IsScope(b) /\ b.resources = scope.resources
        BY ScopeOps
      <4>2. s = Leave(b, Connection(k))
        BY <4>1
      <4> HIDE DEF s
      <4> QED BY <4>1, <4>2, ScopeOps
    <3> HIDE DEF s
    <3>2. /\ Loses(Streamed) /\ \A j : Has(Connection(j)) => Has(Connection(j))'
          /\ \A j : Has(Reading(j)) /\ j # k => Has(Reading(j))'
      BY <1>1, <2>3, <3>1, LosesOne DEF s
    <3> QED BY <1>3, <2>1, <2>3, <3>2, StreamKeptBy DEF StreamKept, Conns
  <2> QED BY <1>5, <2>1, <2>2, <2>3 DEF LeavingTimesOut
<1>6. CASE RequestInterrupted
  <2>1. CASE request.at = "reading" /\ LeaveWith(request, "cancelled", TRUE) /\ UNCHANGED closing
    <3>1. request'.at = "leaving" /\ scope' = Retain(BeginTermination(scope), Reading(k))
      BY <1>1, <2>1 DEF LeaveWith, RequestSet
    <3>2. Conns' = Conns
      BY <2>1 DEF LeaveWith, StreamInv, ConnsInv, Conns
    <3> QED BY <2>1, <3>1, <3>2, StreamKeptSame, LosesNone
  <2>2. CASE LeavingGivenUp("cancelled")
    <3>1. request'.at = "left" /\ UNCHANGED <<conns, closing>>
          /\ scope' = Leave(BeginTermination(scope), Connection(k))
      BY <1>2, <2>2 DEF LeavingGivenUp
    <3> QED BY <3>1, StreamKeptSame, LosesNone DEF Conns
  <2>3. CASE /\ closing' = closing \cup {k} /\ scope' = Leave(scope, Reading(k))
             /\ Left("cancelled") /\ request.at = "leaving" /\ UNCHANGED conns
    <3>1. Loses(Streamed) /\ scope'.resources = scope.resources \cup {Reading(k)}
      BY <2>3, ScopeOps, LosesNone
    <3>2. \A r : Has(r) => Has(r)'
      BY <3>1 DEF Has
    <3>3. \A j : j = k => Has(Reading(j))'
      BY <3>1 DEF Has
    <3> QED BY <1>2, <2>3, <3>1, <3>2, <3>3, StreamKeptBy DEF StreamKept, Conns
  <2>4. CASE /\ scope' = Retain(BeginTermination(scope), Reading(k)) /\ UNCHANGED <<conns, closing>>
             /\ request' = [request EXCEPT !.reading = TRUE, !.error = "cancelled"]
             /\ request.at = "leaving"
    <3>1. request'.at = "leaving"
      BY <1>1, <2>4 DEF RequestSet
    <3> QED BY <2>4, <3>1, StreamKeptSame, LosesNone DEF Conns
  <2> QED BY <1>6, <2>1, <2>2, <2>3, <2>4 DEF RequestInterrupted
<1> QED BY <1>4, <1>5, <1>6

LEMMA StreamKeptConns ==
    ASSUME StreamInv, StreamKept, IsScope(scope), StreamInv', Grown, NEW k \in Conns,
           Connect(k) \/ Read(k) \/ CloseResponse(k) \/ PendingReadEnds(k) \/ DroppedIsClosed(k)
    PROVE  StreamKept' /\ Loses(Streamed)
<1>1. k \in Nat
  BY DEF Conns
<1>2. request.at = "reading" => request.conn # k \/ (k \notin closing /\ ~conns[k].abandoned)
  BY DEF StreamInv, RequestInv, Attended
<1>3. CASE Connect(k) \/ Read(k) \/ CloseResponse(k)
  <2>1. UNCHANGED <<scope, closing, request>> /\ \E c : Set(k, c)
    BY <1>3 DEF Connect, Read, CloseResponse
  <2>2. Conns' = Conns
    BY <2>1, SetConns DEF StreamInv
  <2> QED BY <2>1, <2>2, StreamKeptSame, LosesNone
<1>4. CASE PendingReadEnds(k)
  <2>1. k \in closing /\ closing' = closing \ {k} /\ UNCHANGED <<conns, request>>
    BY <1>4 DEF PendingReadEnds
  <2>2. CASE Clean(conns[k]) /\ scope' = Discard(scope, Connection(k))
    <3>1. Finished(conns'[k]) /\ ~conns'[k].abandoned
      BY <2>1, <2>2 DEF Clean, Finished, StreamKept
    <3>2. /\ Loses(Streamed) /\ \A j : Has(Reading(j)) => Has(Reading(j))'
          /\ \A j : Has(Connection(j)) /\ j # k => Has(Connection(j))'
      BY <1>1, <2>2, LosesOne
    <3> QED BY <1>2, <2>1, <3>1, <3>2, StreamKeptBy DEF StreamKept, Conns
  <2>3. CASE scope' = Leave(scope, Connection(k))
    <3>1. Loses(Streamed) /\ scope.resources \subseteq scope'.resources
      BY <2>3, LosesNone
    <3>2. Conns' = Conns /\ closing' \subseteq closing
      BY <2>1 DEF Conns
    <3> QED BY <2>1, <3>1, <3>2, StreamKeptSame
  <2> QED BY <1>4, <2>2, <2>3 DEF PendingReadEnds
<1>5. CASE DroppedIsClosed(k)
  <2>1. conns[k].abandoned /\ UNCHANGED <<closing, request>> /\ \E c : Set(k, c)
    BY <1>5 DEF DroppedIsClosed
  <2>2. Conns' = Conns
    BY <2>1, SetConns DEF StreamInv
  <2>3. CASE /\ Set(k, [conns[k] EXCEPT !.abandoned = FALSE]) /\ Clean(conns[k])
             /\ scope' = Discard(scope, Connection(k))
    <3>1. Finished(conns'[k]) /\ ~conns'[k].abandoned
      <4>1. conns[k] \in ConnSet
        BY DEF StreamInv, ConnsInv, Conns
      <4> DEFINE d == [conns[k] EXCEPT !.abandoned = FALSE]
      <4>2. /\ d \in ConnSet /\ d.worker = conns[k].worker /\ d.response = conns[k].response
            /\ ~d.abandoned
        BY <4>1 DEF ConnSet
      <4>3. Set(k, d)
        BY <2>3
      <4> HIDE DEF d
      <4>4. conns'[k] = d
        BY <4>3 DEF Set, StreamInv, ConnsInv, Conns
      <4> QED BY <2>3, <4>2, <4>4 DEF Clean, Finished
    <3>2. /\ Loses(Streamed) /\ \A j : Has(Reading(j)) => Has(Reading(j))'
          /\ \A j : Has(Connection(j)) /\ j # k => Has(Connection(j))'
      BY <1>1, <2>3, LosesOne
    <3> QED BY <1>2, <2>1, <2>2, <3>1, <3>2, StreamKeptBy DEF StreamKept
  <2>4. CASE scope' \in {scope, Leave(scope, Connection(k))}
    BY <2>1, <2>2, <2>4, StreamKeptSame, LosesNone, SMTT(30)
  <2> QED BY <1>5, <2>3, <2>4 DEF DroppedIsClosed
<1> QED BY <1>3, <1>4, <1>5

-----------------------------------------------------------------------------
(***************************************************************************)
(* What the scope holds of the command: its thread while that works, its   *)
(* cache until that is removed, and its processes where the thread gave    *)
(* them up.                                                                *)
(***************************************************************************)
ProcDone == cmd.at \in {"cached", "deleting", "observing", "ended"} \/ cmd.again

CommandKept ==
    /\ Working => Has(Worker)
    /\ cmd.cache \notin {"none", "gone"} => Has(Cache)
    /\ cmd.at = "cached" \/ cmd.again => cmd.cache # "none"
    /\ ProcDone /\ tree.root # "none" /\ (~TreeOver \/ cmd.readers = "reading") => Has(Process)

LEMMA CommandApart == Worker # Process /\ Worker # Cache /\ Process # Cache
BY DEF Worker, Process, Cache

\* A scope that holds what there is to hold of a command, and whose tree is as it is.
Holds(c, sc) ==
    /\ IsScope(sc) /\ scope.resources \subseteq sc.resources \cup {Cache}
    /\ c.cache \notin {"none", "gone"} => Cache \in sc.resources
    /\ tree.root # "none" /\ (~TreeOver \/ c.readers = "reading") => Process \in sc.resources

LEMMA EndKept ==
    ASSUME NEW c \in CmdSet, NEW sc, Holds(c, sc), NEW result, Ends(c, result, sc),
           ~c.again \/ c.cache # "none", UNCHANGED <<plan, tree>>
    PROVE  CommandKept' /\ Loses({Worker, Cache})
<1> DEFINE rest == Discard(sc, Worker)
<1>1. IsScope(rest) /\ rest.resources = sc.resources \ {Worker}
  BY ScopeOps DEF Holds
<1>2. IsScope(scope') /\ scope'.resources = rest.resources
  <2>1. scope' \in {rest, MarkFailed(rest)}
    BY DEF Ends
  <2> HIDE DEF rest
  <2> QED BY <1>1, <2>1, ScopeOps
<1> HIDE DEF rest
<1>3. /\ cmd'.at = "ended" /\ cmd'.cache = c.cache /\ cmd'.readers = c.readers
      /\ cmd'.again = c.again
  BY DEF Ends, CmdSet
<1>4. TreeOver <=> TreeOver'
  BY DEF TreeOver
<1>5. Cache \in sc.resources => Has(Cache)'
  BY <1>1, <1>2, CommandApart DEF Has
<1>6. Process \in sc.resources => Has(Process)'
  BY <1>1, <1>2, CommandApart DEF Has
<1>7. Loses({Worker, Cache})
  BY <1>1, <1>2 DEF Loses, Holds
<1> QED BY <1>3, <1>4, <1>5, <1>6, <1>7 DEF CommandKept, Holds, Working

LEMMA ReportKept ==
    ASSUME NEW c \in CmdSet, NEW sc, Holds(c, sc), Report(c, sc), Worker \in sc.resources,
           ~c.again \/ c.cache # "none", UNCHANGED <<plan, tree>>
    PROVE  CommandKept' /\ Loses({Worker, Cache})
<1>1. CASE Verdict(c) = "none"
  <2>1. /\ cmd'.at = "observing" /\ cmd'.cache = c.cache /\ cmd'.readers = c.readers
        /\ cmd'.again = c.again /\ scope' = sc
    BY <1>1 DEF Report, CmdSet
  <2>2. TreeOver <=> TreeOver'
    BY DEF TreeOver
  <2> QED BY <2>1, <2>2 DEF CommandKept, Holds, Working, Has, Loses
<1>2. CASE Verdict(c) # "none"
  BY <1>2, EndKept DEF Report
<1> QED BY <1>1, <1>2

LEMMA GoesKept ==
    ASSUME NEW c \in CmdSet, NEW sc, Holds(c, sc), Goes(c, sc), Worker \in sc.resources,
           ~c.again, UNCHANGED <<plan, tree>>
    PROVE  CommandKept' /\ Loses({Worker, Cache})
<1>1. CASE c.cache = "there"
  <2>1. /\ cmd'.at = "cached" /\ cmd'.cache = c.cache /\ cmd'.readers = c.readers
        /\ cmd'.again = c.again /\ scope' = sc
    BY <1>1 DEF Goes, CmdSet
  <2>2. TreeOver <=> TreeOver'
    BY DEF TreeOver
  <2> QED BY <1>1, <2>1, <2>2 DEF CommandKept, Holds, Working, Has, Loses
<1>2. CASE c.cache # "there"
  BY <1>2, ReportKept DEF Goes
<1> QED BY <1>1, <1>2

\* What holds of the command before it is judged still holds of it.
LEMMA HoldsAsIs ==
    ASSUME CommandTypes, CommandKept, IsScope(scope), NEW c \in CmdSet, NEW sc,
           c.readers = cmd.readers,
           IsScope(sc) /\ scope.resources \subseteq sc.resources,
           c.cache \notin {"none", "gone"} =>
              Cache \in sc.resources \/ cmd.cache \notin {"none", "gone"},
           ProcDone \/ tree.root = "none" \/ (TreeOver /\ c.readers # "reading")
              \/ Process \in sc.resources
    PROVE  Holds(c, sc)
BY DEF Holds, CommandKept, Has

LEMMA StaysKept ==
    ASSUME CommandTypes, CommandKept, IsScope(scope), CacheStays(cmd), Working, ProcDone,
           UNCHANGED <<plan, tree>>
    PROVE  CommandKept' /\ Loses({Worker, Cache})
<1> DEFINE c == [cmd EXCEPT !.failed = TRUE]
           b == BeginTermination(scope)
           sc == Leave(b, Cache)
<1>1. c \in CmdSet /\ c.cache = cmd.cache /\ c.readers = cmd.readers /\ c.again = cmd.again
  BY DEF CommandTypes, CmdSet
<1>2. IsScope(b) /\ b.resources = scope.resources
  BY ScopeOps
<1> HIDE DEF b
<1>3. IsScope(sc) /\ sc.resources = scope.resources \cup {Cache}
  <2>1. \A s : IsScope(s) => /\ IsScope(Leave(s, Cache))
                             /\ Leave(s, Cache).resources = s.resources \cup {Cache}
    BY ScopeOps
  <2> QED BY <1>2, <2>1
<1>4. Report(c, sc)
  BY DEF CacheStays, b
<1> HIDE DEF c, sc
<1>5. Holds(c, sc)
  BY <1>1, <1>3, HoldsAsIs
<1>6. Worker \in sc.resources /\ (cmd.again => cmd.cache # "none")
  BY <1>3 DEF CommandKept, Has
<1> QED BY <1>1, <1>4, <1>5, <1>6, ReportKept

\* A step after which the scope holds no less, and the command needs no more.
LEMMA CommandKeptSame ==
    ASSUME CommandTypes, JobInv, CommandKept, IsScope(scope), UNCHANGED plan,
           scope.resources \subseteq scope'.resources,
           SystemStep \/ tree' \in {KilledRoot(tree), Killed(tree)} \/ UNCHANGED tree,
           Working' => Working,
           cmd'.cache \notin {"none", "gone"} => cmd.cache \notin {"none", "gone"},
           cmd'.at = "cached" \/ cmd'.again => cmd'.cache # "none",
           cmd'.readers = "reading" => cmd.readers = "reading",
           ProcDone' => ProcDone
    PROVE  CommandKept'
<1>1. (TreeOver => TreeOver') /\ (tree.root = "none" => tree'.root = "none")
  BY TreeStaysOver
<1> QED BY <1>1 DEF CommandKept, Has

LEMMA CommandKeptSystem ==
    ASSUME CommandTypes, JobInv, CommandKept, IsScope(scope), UNCHANGED plan, SystemStep
    PROVE  CommandKept' /\ UNCHANGED scope
<1>1. UNCHANGED scope
  BY DEF SystemStep, Exceed, ReadersEnd, DeleteEnds
<1>2. /\ cmd'.at = cmd.at /\ cmd'.again = cmd.again
      /\ cmd'.cache \notin {"none", "gone"} => cmd.cache \notin {"none", "gone"}
      /\ cmd'.cache = "none" => cmd.cache = "none"
      /\ cmd'.readers = "reading" => cmd.readers = "reading"
  <2>1. CASE Exceed
    BY <2>1 DEF Exceed, CommandTypes, CmdSet
  <2>2. CASE ReadersEnd
    BY <2>2 DEF ReadersEnd, CommandTypes, CmdSet
  <2>3. CASE DeleteEnds
    BY <2>3 DEF DeleteEnds, CommandTypes, CmdSet
  <2> QED BY <2>1, <2>2, <2>3 DEF SystemStep
<1>3. cmd'.at = "cached" \/ cmd'.again => cmd'.cache # "none"
  BY <1>2 DEF CommandKept
<1> QED BY <1>1, <1>2, <1>3, CommandKeptSame DEF Working, ProcDone

\* The thread moves on without an end.
LEMMA MovesKept ==
    ASSUME CommandTypes, JobInv, CommandKept, IsScope(scope), UNCHANGED plan, Working,
           tree' \in {KilledRoot(tree), Killed(tree)} \/ UNCHANGED tree,
           scope' \in {scope, BeginTermination(scope)},
           cmd'.cache = cmd.cache, cmd'.readers = cmd.readers, cmd'.again = cmd.again,
           cmd'.at \notin {"cached", "deleting", "observing", "ended"}
    PROVE  CommandKept' /\ Loses({Worker, Cache})
<1>1. Loses({Worker, Cache}) /\ scope.resources \subseteq scope'.resources
  BY LosesNone
<1>2. cmd'.again => cmd'.cache # "none"
  BY DEF CommandKept
<1> QED BY <1>1, <1>2, CommandKeptSame DEF ProcDone

LEMMA CommandKeptThread ==
    ASSUME CommandTypes, JobInv, ThreadInv, CommandKept, IsScope(scope), UNCHANGED plan,
           ThreadStep
    PROVE  CommandKept' /\ Loses({Worker, Cache})
<1> USE DEF jobVars
<1>1. cmd \in CmdSet /\ IsScope(scope)
  BY DEF CommandTypes
<1>2. cmd.at \in Early => tree.root = "none" /\ UNCHANGED <<plan>>
  BY DEF JobInv, NoTree
<1>3. Working => Worker \in scope.resources
  BY DEF CommandKept, Has
<1>4. \A stage : At(stage) => /\ cmd'.cache = cmd.cache /\ cmd'.readers = cmd.readers
                            /\ cmd'.again = cmd.again /\ cmd'.at = stage
  BY <1>1 DEF At, CmdSet
\* Before the process is started there is none to hold.
<1>5. ASSUME cmd.at \in Early, NEW c \in CmdSet, NEW result, Ends(c, result, scope),
             c.cache = cmd.cache, c.readers = cmd.readers, c.again = cmd.again, UNCHANGED tree
      PROVE  CommandKept' /\ Loses({Worker, Cache})
  <2>1. Holds(c, scope)
    BY <1>1, <1>2, <1>5, HoldsAsIs
  <2> QED BY <1>5, <2>1, EndKept DEF CommandKept
<1>6. CASE ThreadBegins
  <2>1. cmd.at = "queued" /\ UNCHANGED tree /\ Working
    BY <1>6 DEF ThreadBegins, Working
  <2>2. CASE Ends(cmd, "none", scope)
    BY <1>1, <1>5, <2>1, <2>2 DEF Early
  <2>3. CASE At("preparing") /\ UNCHANGED scope
    BY <1>4, <2>1, <2>3, MovesKept
  <2> QED BY <1>6, <2>2, <2>3 DEF ThreadBegins
<1>7. CASE Prepare \/ Approve
  <2>1. cmd.at \in {"preparing", "asking"} /\ UNCHANGED tree /\ Working /\ ~cmd.again
    BY <1>7 DEF Prepare, Approve, Working, ThreadInv, Early
  <2>2. CASE \E result : Ends(cmd, result, scope)
    BY <1>1, <1>5, <2>1, <2>2 DEF Early
  <2>3. CASE (At("launching") \/ At("asking")) /\ UNCHANGED scope
    BY <1>4, <2>1, <2>3, MovesKept
  <2>4. CASE cmd' = [cmd EXCEPT !.at = "launching", !.cache = "there"] /\ scope' = Retain(scope, Cache)
    <3>1. /\ cmd'.at = "launching" /\ cmd'.cache = "there" /\ cmd'.again = cmd.again
      BY <1>1, <2>4 DEF CmdSet
    <3>2. IsScope(scope') /\ scope'.resources = scope.resources \cup {Cache}
      BY <2>4, ScopeOps
    <3> QED BY <1>3, <2>1, <3>1, <3>2 DEF CommandKept, Loses, Has, Working, ProcDone
  <2>5. CASE Ends([cmd EXCEPT !.cache = "unknown"], "stop", Leave(scope, Cache))
    <3> DEFINE c == [cmd EXCEPT !.cache = "unknown"]
               sc == Leave(scope, Cache)
    <3>1. c \in CmdSet /\ c.readers = cmd.readers /\ c.again = cmd.again
      BY <1>1 DEF CmdSet
    <3>2. IsScope(sc) /\ sc.resources = scope.resources \cup {Cache}
      BY ScopeOps
    <3> HIDE DEF c, sc
    <3>3. Holds(c, sc)
      BY <1>2, <2>1, <3>1, <3>2, HoldsAsIs DEF Early
    <3> QED BY <2>1, <2>5, <3>1, <3>3, EndKept DEF c, sc
  <2> QED BY <1>7, <2>2, <2>3, <2>4, <2>5 DEF Prepare, Approve, GoAhead, SearchItself, Raise
<1>8. CASE Launch
  <2>1. cmd.at = "launching" /\ Working /\ ~cmd.again
    BY <1>8 DEF Launch, Working, ThreadInv, Early
  <2>2. ASSUME NEW why \in {"cancelled", "unstarted"}, NotLaunched(why), UNCHANGED tree
        PROVE  CommandKept' /\ Loses({Worker, Cache})
    <3> DEFINE c == [cmd EXCEPT !.why = why]
    <3>1. c \in CmdSet /\ c.cache = cmd.cache /\ c.readers = cmd.readers /\ c.again = cmd.again
      BY <1>1 DEF CmdSet, Reasons
    <3>2. CASE cmd.cache = "there" /\ cmd' = [cmd EXCEPT !.at = "cached", !.why = why]
               /\ UNCHANGED scope
      <4>1. /\ cmd'.at = "cached" /\ cmd'.cache = "there" /\ cmd'.again = cmd.again
        BY <1>1, <3>2 DEF CmdSet
      <4>2. tree'.root = "none"
        BY <1>2, <2>1, <2>2 DEF Early
      <4> QED BY <1>3, <2>1, <3>2, <4>1, <4>2 DEF CommandKept, Loses, Has, Working, ProcDone
    <3>3. CASE \E result : Ends(c, result, scope)
      <4> HIDE DEF c
      <4> QED BY <1>5, <2>1, <2>2, <3>1, <3>3 DEF Early
    <3> QED BY <2>2, <3>2, <3>3 DEF NotLaunched
  <2>3. ASSUME NEW at \in {"binding", "waiting"}, cmd'.at = at, UNCHANGED scope,
               cmd'.cache = cmd.cache, cmd'.again = cmd.again
        PROVE  CommandKept' /\ Loses({Worker, Cache})
    BY <1>3, <2>1, <2>3 DEF CommandKept, Loses, Has, Working, ProcDone
  <2>4. CASE At("binding") /\ UNCHANGED scope
    BY <1>4, <2>3, <2>4
  <2>5. CASE cmd' = [cmd EXCEPT !.at = "waiting", !.readers = "reading"] /\ UNCHANGED scope
    BY <1>1, <2>3, <2>5 DEF CmdSet
  <2> QED BY <1>8, <2>2, <2>4, <2>5 DEF Launch
<1>9. CASE Resume \/ Watch
  <2>1. cmd.at \in {"binding", "waiting"} /\ Working /\ UNCHANGED scope /\ ~cmd.again
    BY <1>9 DEF Resume, Watch, Working, ThreadInv
  <2>2. cmd'.at \in {"waiting", "cleaning"} /\ cmd'.cache = cmd.cache /\ cmd'.again = cmd.again
    BY <1>1, <1>9 DEF Resume, Watch, Stop, CmdSet
  <2> QED BY <1>3, <2>1, <2>2 DEF CommandKept, Loses, Has, Working, ProcDone
<1>10. CASE Finish \/ ListMembers \/ KillTree \/ EndObserver \/ CloseJob \/ Reap
  <2>1. /\ Working /\ cmd.at \notin {"cached", "deleting", "observing", "ended"}
        /\ scope' \in {scope, BeginTermination(scope)}
    BY <1>10 DEF Finish, ListMembers, KillTree, EndObserver, CloseJob, Reap, Working
  <2>2. FirstStep \in {"closing", "listing", "reaping", "terminating"}
    BY DEF FirstStep
  <2>3. tree' \in {KilledRoot(tree), Killed(tree)} \/ UNCHANGED tree
    BY <1>10 DEF Finish, ListMembers, KillTree, TerminateJob, EndObserver, CloseJob, Reap
  <2>4. \/ \E stage \in {"closing", "listing", "reaping", "terminating", "members", "joining"} : At(stage)
        \/ \E stage \in {"reaping", "joining"} : cmd' = [cmd EXCEPT !.at = stage, !.clean = FALSE]
    BY <1>10, <2>2 DEF Finish, ListMembers, KillTree, EndObserver, CloseJob, Reap
  <2>5. /\ cmd'.at \notin {"cached", "deleting", "observing", "ended"}
        /\ cmd'.cache = cmd.cache /\ cmd'.readers = cmd.readers /\ cmd'.again = cmd.again
    BY <1>1, <2>4 DEF At, CmdSet
  <2> QED BY <2>1, <2>3, <2>5, MovesKept
<1>11. ASSUME StartDelete(cmd), UNCHANGED <<plan, tree>>, ProcDone, Working, cmd.cache = "there",
              scope' \in {scope, BeginTermination(scope)}
       PROVE  CommandKept' /\ Loses({Worker, Cache})
  <2>1. /\ cmd'.at = "deleting" /\ cmd'.cache = "deleting" /\ cmd'.readers = cmd.readers
        /\ cmd'.again = cmd.again
    BY <1>1, <1>11 DEF StartDelete, CmdSet
  <2>2. Loses({Worker, Cache}) /\ scope.resources \subseteq scope'.resources
    BY <1>11, LosesNone
  <2> QED BY <1>11, <2>1, <2>2, CommandKeptSame DEF Working, ProcDone
<1>12. cmd.at \in {"joining", "cached"} /\ (cmd.again \/ cmd.at = "cached") => cmd.cache = "there"
  BY DEF ThreadInv, CommandKept
<1>13. CASE Join
  <2>1. cmd.at = "joining" /\ Working /\ UNCHANGED <<plan, tree>>
    BY <1>13 DEF Join, Working
  <2>2. CASE cmd.again /\ StartDelete(cmd) /\ UNCHANGED scope
    BY <1>11, <1>12, <2>1, <2>2 DEF ProcDone
  <2>3. CASE cmd.again /\ CacheStays(cmd)
    BY <1>12, <2>1, <2>3, StaysKept DEF ProcDone
  <2>4. ASSUME NEW clean \in BOOLEAN, NEW c \in CmdSet, NEW sc, Goes(c, sc), ~c.again,
               clean => cmd.clean /\ Joined, c.readers = cmd.readers, c.cache = cmd.cache,
               (clean /\ sc \in {scope, BeginTermination(scope)})
               \/ \E s0 \in {scope, BeginTermination(scope)} :
                     ~clean /\ sc = Leave(BeginTermination(s0), Process)
        PROVE  CommandKept' /\ Loses({Worker, Cache})
    <3>1. \A s0 \in {scope, BeginTermination(scope)} : IsScope(s0) /\ s0.resources = scope.resources
      BY ScopeOps
    <3>2. \A s0 \in {scope, BeginTermination(scope)} :
             /\ IsScope(BeginTermination(s0))
             /\ BeginTermination(s0).resources = scope.resources
      BY <3>1, ScopeOps
    <3>3. \A s1 : IsScope(s1) => IsScope(Leave(s1, Process))
                                 /\ Leave(s1, Process).resources = s1.resources \cup {Process}
      BY ScopeOps
    <3>4. CASE clean
      <4>1. IsScope(sc) /\ sc.resources = scope.resources /\ TreeOver /\ c.readers # "reading"
        BY <2>1, <2>4, <3>1, <3>4, JoinedOver
      <4>2. Holds(c, sc)
        BY <2>4, <4>1, HoldsAsIs
      <4> QED BY <1>3, <2>1, <2>4, <4>1, <4>2, GoesKept
    <3>5. CASE ~clean
      <4>1. IsScope(sc) /\ sc.resources = scope.resources \cup {Process}
        BY <2>4, <3>2, <3>3, <3>5
      <4>2. Holds(c, sc)
        BY <2>4, <4>1, HoldsAsIs
      <4> QED BY <1>3, <2>1, <2>4, <4>1, <4>2, GoesKept
    <3> QED BY <3>4, <3>5
  <2> QED BY <1>13, <2>2, <2>3, <2>4, JoinCases
<1>14. CASE RemoveCache
  <2>1. cmd.at = "cached" /\ Working /\ ProcDone /\ UNCHANGED <<plan, tree>>
        /\ scope' \in {scope, BeginTermination(scope)}
    BY <1>14 DEF RemoveCache, Working, ProcDone
  <2>2. CASE StartDelete(cmd)
    BY <1>11, <1>12, <2>1, <2>2
  <2>3. CASE cmd' = [cmd EXCEPT !.again = TRUE, !.clean = TRUE, !.at = FirstStep]
    <3>1. FirstStep \in {"closing", "listing", "reaping", "terminating"}
      BY DEF FirstStep
    <3>2. /\ cmd'.at \in {"closing", "listing", "reaping", "terminating"}
          /\ cmd'.cache = cmd.cache /\ cmd'.readers = cmd.readers
      BY <1>1, <2>3, <3>1 DEF CmdSet
    <3>3. Loses({Worker, Cache}) /\ scope.resources \subseteq scope'.resources
      BY <2>1, LosesNone
    <3> QED BY <1>12, <2>1, <3>2, <3>3, CommandKeptSame
  <2> QED BY <1>14, <2>2, <2>3 DEF RemoveCache
<1>15. CASE CacheRemoved
  <2>1. cmd.at = "deleting" /\ Working /\ ProcDone /\ UNCHANGED <<plan, tree>>
    BY <1>15 DEF CacheRemoved, Working, ProcDone
  <2>2. CASE cmd.cache = "gone" /\ Report(cmd, Discard(scope, Cache))
    <3> DEFINE sc == Discard(scope, Cache)
    <3>1. IsScope(sc) /\ sc.resources = scope.resources \ {Cache}
      BY ScopeOps
    <3> HIDE DEF sc
    <3>2. Holds(cmd, sc)
      BY <2>1, <2>2, <3>1, CommandApart DEF Holds, CommandKept, Has
    <3>3. Worker \in sc.resources
      BY <1>3, <2>1, <3>1, CommandApart
    <3> QED BY <1>1, <2>1, <2>2, <3>2, <3>3, ReportKept DEF sc
  <2>3. CASE CacheStays(cmd)
    BY <2>1, <2>3, StaysKept
  <2> QED BY <1>15, <2>2, <2>3 DEF CacheRemoved
<1>16. CASE Observed
  <2>1. cmd.at = "observing" /\ Working /\ ProcDone /\ UNCHANGED <<plan, tree>>
        /\ \E result : Ends(cmd, result, scope)
    BY <1>16 DEF Observed, Working, ProcDone
  <2>2. Holds(cmd, scope)
    BY <1>1, <2>1, HoldsAsIs
  <2> QED BY <1>1, <2>1, <2>2, EndKept DEF CommandKept
<1> QED BY <1>6, <1>7, <1>8, <1>9, <1>10, <1>13, <1>14, <1>15, <1>16 DEF ThreadStep

-----------------------------------------------------------------------------
(***************************************************************************)
(* The coroutine and the servers.                                          *)
(***************************************************************************)
In(s, q) == \E i \in 1..Len(q) : q[i] = s

LEMMA InAppend ==
    ASSUME NEW q \in Seq(Nat), NEW x \in Nat
    PROVE  Append(q, x) \in Seq(Nat) /\ \A s : In(s, Append(q, x)) <=> In(s, q) \/ s = x
<1>1. /\ Append(q, x) \in Seq(Nat) /\ Len(q) \in Nat /\ Len(Append(q, x)) = Len(q) + 1
      /\ \A i \in 1..(Len(q) + 1) : Append(q, x)[i] = IF i <= Len(q) THEN q[i] ELSE x
  OBVIOUS
<1>2. \A s : In(s, q) => In(s, Append(q, x))
  BY <1>1 DEF In
<1>3. In(x, Append(q, x))
  BY <1>1 DEF In
<1>4. \A s : In(s, Append(q, x)) => In(s, q) \/ s = x
  BY <1>1 DEF In
<1> QED BY <1>1, <1>2, <1>3, <1>4

LEMMA InConcat ==
    ASSUME NEW p \in Seq(Nat), NEW q \in Seq(Nat)
    PROVE  p \o q \in Seq(Nat) /\ \A s : In(s, p) \/ In(s, q) => In(s, p \o q)
<1>1. /\ p \o q \in Seq(Nat) /\ Len(p) \in Nat /\ Len(q) \in Nat /\ Len(p \o q) = Len(p) + Len(q)
      /\ \A i \in 1..(Len(p) + Len(q)) : (p \o q)[i] = IF i <= Len(p) THEN p[i] ELSE q[i - Len(p)]
  OBVIOUS
<1>2. \A s : In(s, p) => In(s, p \o q)
  BY <1>1 DEF In
<1>3. ASSUME NEW s, In(s, q) PROVE In(s, p \o q)
  <2>1. PICK i \in 1..Len(q) : q[i] = s
    BY <1>3 DEF In
  <2>2. PICK j \in 1..(Len(p) + Len(q)) : j = Len(p) + i
    BY <1>1
  <2>3. ~(j <= Len(p)) /\ j - Len(p) = i
    BY <1>1, <2>2
  <2>4. (p \o q)[j] = q[i]
    BY <1>1, <2>3
  <2> QED BY <1>1, <2>1, <2>4 DEF In
<1> QED BY <1>1, <1>2, <1>3

LEMMA InReverse ==
    ASSUME NEW q \in Seq(Nat)
    PROVE  Reverse(q) \in Seq(Nat) /\ \A s : In(s, q) => In(s, Reverse(q))
<1>1. Len(q) \in Nat /\ \A i \in 1..Len(q) : q[i] \in Nat
  OBVIOUS
<1>2. Reverse(q) = [i \in 1..Len(q) |-> q[(Len(q) - i) + 1]]
  BY DEF Reverse
<1>3. Reverse(q) \in [1..Len(q) -> Nat]
  BY <1>1, <1>2
<1>4. Reverse(q) \in Seq(Nat) /\ Len(Reverse(q)) = Len(q)
  BY <1>1, <1>3, LenProperties
<1>5. ASSUME NEW s, In(s, q) PROVE In(s, Reverse(q))
  <2>1. PICK i \in 1..Len(q) : q[i] = s
    BY <1>5 DEF In
  <2>2. (Len(q) - i) + 1 \in 1..Len(q)
    BY <1>1, <2>1
  <2>3. PICK j \in 1..Len(q) : j = (Len(q) - i) + 1
    BY <2>2
  <2>4. (Len(q) - j) + 1 = i
    BY <1>1, <2>3
  <2>5. Reverse(q)[j] = q[i]
    BY <1>1, <1>2, <2>4
  <2> QED BY <1>4, <2>1, <2>5 DEF In
<1> QED BY <1>4, <1>5

LEMMA InTail ==
    ASSUME NEW q \in Seq(Nat), q # <<>>
    PROVE  /\ Head(q) \in Nat /\ Tail(q) \in Seq(Nat)
           /\ \A s : In(s, q) => s = Head(q) \/ In(s, Tail(q))
<1>1. /\ Len(q) \in Nat \ {0} /\ Head(q) = q[1] /\ Head(q) \in Nat /\ Tail(q) \in Seq(Nat)
      /\ Len(Tail(q)) = Len(q) - 1 /\ \A i \in 1..(Len(q) - 1) : Tail(q)[i] = q[i + 1]
  OBVIOUS
<1>2. ASSUME NEW s, In(s, q), s # Head(q) PROVE In(s, Tail(q))
  <2>1. PICK i \in 1..Len(q) : q[i] = s
    BY <1>2 DEF In
  <2>2. i - 1 \in 1..(Len(q) - 1) /\ Tail(q)[i - 1] = q[i]
    BY <1>1, <1>2, <2>1
  <2> QED BY <1>1, <2>1, <2>2 DEF In
<1> QED BY <1>1, <1>2

LEMMA InFew ==
    /\ <<>> \in Seq(Nat) /\ \A s : ~In(s, <<>>)
    /\ \A x \in Nat : <<x>> \in Seq(Nat) /\ <<x>> # <<>> /\ In(x, <<x>>)
<1>1. <<>> \in Seq(Nat) /\ Len(<<>>) = 0
  OBVIOUS
<1>2. \A x \in Nat : <<x>> \in Seq(Nat) /\ Len(<<x>>) = 1 /\ <<x>>[1] = x
  OBVIOUS
<1> QED BY <1>1, <1>2 DEF In

Places == {"starting", "awaiting", "aborting", "asking", "reaping", "body", "running", "stops",
           "stopping", "stoppingAgain", "reapingOwner", "returned"}
Primaries == {"none", "cancelled", "error"}
Phases == {"start", "isolate", "rollback", "final"}
MainErrors == {"none", "cancelled", "interrupted", "timeout"}
Verdicts == {"none", "ok", "cleanup failed", "cancelled", "error"}
MainSet == [at : Places, phase : Phases, queue : Seq(Nat), s : Nat, ask : {"list", "call"},
            error : MainErrors, primary : Primaries, started : Seq(Nat), stuck : Seq(Nat),
            stops : Seq(Nat), routes : SUBSET Servers, stopCancelled : BOOLEAN, calls : Nat,
            interrupts : Nat, verdict : Verdicts]

AtStop == main.at \in {"stops", "stopping", "stoppingAgain", "reapingOwner"}

\* The servers to stop are known while they are stopped, and the one that is being
\* stopped is the first of them; at the end nothing that was started is left out.
MainInv ==
    /\ main \in MainSet
    /\ ~AtStop => main.stops = <<>>
    /\ main.at \in {"stopping", "stoppingAgain", "reapingOwner"} =>
          main.stops # <<>> /\ Head(main.stops) = main.s
    /\ main.phase = "final" => main.started = <<>> /\ (AtStop \/ main.at = "returned")
    /\ main.at = "returned" => main.phase = "final"
    /\ AtStop => main.phase # "start"

\* The coroutine still has to answer for a server: it is started, or will be stopped.
InHand(s) ==
    \/ In(s, main.started) \/ In(s, main.stops)
    \/ main.s = s /\ main.at \in {"awaiting", "aborting"}
    \/ main.s = s /\ main.at \in {"asking", "reaping"} /\ main.ask = "list"

LEMMA ServersAreNat == Servers \subseteq Nat
<1>1. Cardinality(Servers) \in Nat
  BY BoundsAssumption, FS_CardinalityType
<1> QED BY <1>1, BoundsAssumption

LEMMA TerminateFields ==
    ASSUME NEW m \in MainSet, NEW p \in Primaries, Terminate(m, p)
    PROVE  /\ main' \in MainSet /\ main'.at = "stops" /\ main'.phase = "final"
           /\ main'.started = <<>> /\ \A s : In(s, m.started) => In(s, main'.stops)
<1>1. m.started \in Seq(Nat) /\ m.stuck \in Seq(Nat)
  BY DEF MainSet
<1>2. PICK q \in Seq(Nat) : /\ q = Reverse(m.started) \o m.stuck
                            /\ \A s : In(s, m.started) => In(s, q)
  <2>1. Reverse(m.started) \in Seq(Nat) /\ \A s : In(s, m.started) => In(s, Reverse(m.started))
    BY <1>1, InReverse
  <2> QED BY <1>1, <2>1, InConcat
<1>3. main' = [m EXCEPT !.at = "stops", !.phase = "final", !.error = "none", !.primary = p,
                        !.routes = {}, !.stops = q, !.started = <<>>, !.stuck = <<>>]
  BY <1>2 DEF Terminate
<1>4. PICK e \in Seq(Nat) : e = <<>>
  BY InFew
<1>5. main' = [m EXCEPT !.at = "stops", !.phase = "final", !.error = "none", !.primary = p,
                        !.routes = {}, !.stops = q, !.started = e, !.stuck = e]
  BY <1>3, <1>4
<1>6. main' \in MainSet /\ main'.at = "stops" /\ main'.phase = "final"
      /\ main'.started = e /\ main'.stops = q
  BY <1>5 DEF MainSet, Places, Phases, MainErrors
<1> QED BY <1>2, <1>4, <1>6

LEMMA CancelledFields ==
    ASSUME MainInv, NEW stops \in Seq(Nat), StartIsCancelled(stops)
    PROVE  /\ main' \in MainSet /\ main'.at = "stops" /\ main'.phase = "rollback"
           /\ main'.started = <<>>
           /\ \A s : In(s, main.started) \/ In(s, stops) => In(s, main'.stops)
<1>1. main \in MainSet /\ main.started \in Seq(Nat)
  BY DEF MainInv, MainSet
<1>2. PICK q \in Seq(Nat) : /\ q = stops \o Reverse(main.started)
                            /\ \A s : In(s, main.started) \/ In(s, stops) => In(s, q)
  <2>1. /\ Reverse(main.started) \in Seq(Nat)
        /\ \A s : In(s, main.started) => In(s, Reverse(main.started))
    BY <1>1, InReverse
  <2> QED BY <1>1, <2>1, InConcat
<1>3. PICK e \in Seq(Nat) : e = <<>>
  BY InFew
<1>4. main' = [main EXCEPT !.at = "stops", !.phase = "rollback", !.error = "none",
                           !.primary = "cancelled", !.stops = q, !.started = e]
  BY <1>2, <1>3 DEF StartIsCancelled
<1>5. main' \in MainSet /\ main'.at = "stops" /\ main'.phase = "rollback"
      /\ main'.started = e /\ main'.stops = q
  BY <1>1, <1>4, ZenonT(40) DEF MainSet, Places, Phases, MainErrors, Primaries
<1> QED BY <1>2, <1>3, <1>5

LEMMA FailsFields ==
    ASSUME MainInv, NEW s \in Nat, StartFails(s)
    PROVE  /\ main' \in MainSet /\ main'.at = "stops" /\ main'.phase = "isolate"
           /\ main'.started = main.started /\ In(s, main'.stops)
<1>1. main \in MainSet
  BY DEF MainInv
<1>2. PICK q \in Seq(Nat) : q = <<s>> /\ In(s, q)
  BY InFew
<1>3. main' = [main EXCEPT !.at = "stops", !.phase = "isolate", !.error = "none", !.stops = q]
  BY <1>2 DEF StartFails
<1>4. main' \in MainSet /\ main'.at = "stops" /\ main'.phase = "isolate"
      /\ main'.started = main.started /\ main'.stops = q
  BY <1>1, <1>3 DEF MainSet, Places, Phases, MainErrors
<1> QED BY <1>2, <1>4

LEMMA NextStopFields ==
    ASSUME NEW m \in MainSet, NEW s \in Nat, NEW ok \in BOOLEAN, m.stops # <<>>, NextStop(m, s, ok)
    PROVE  /\ main' \in MainSet /\ main'.at = "stops" /\ main'.phase = m.phase
           /\ main'.started = m.started /\ main'.stops = Tail(m.stops)
<1>1. PICK q \in Seq(Nat) : q = Tail(m.stops)
  BY InTail DEF MainSet
<1>2. PICK k \in Seq(Nat) : k = IF ok THEN m.stuck ELSE Append(m.stuck, s)
  <2>1. m.stuck \in Seq(Nat)
    BY DEF MainSet
  <2> QED BY <2>1, InAppend
<1>3. main' = [m EXCEPT !.at = "stops", !.s = s, !.stops = q, !.stuck = k]
  BY <1>1, <1>2 DEF NextStop
<1>4. main' \in MainSet /\ main'.at = "stops" /\ main'.phase = m.phase
      /\ main'.started = m.started /\ main'.stops = q
  BY <1>3 DEF MainSet, Places
<1> QED BY <1>1, <1>4

(***************************************************************************)
(* What the scope holds of the servers: an owner that still runs is the    *)
(* scope's unless the coroutine has yet to stop it; a process that outlives *)
(* its owner and a request that was lost are always.                       *)
(***************************************************************************)
Clients == {"none", "starting", "ready", "stopping", "failed", "stopped"}
Lifetimes == {"none", "entering", "initializing", "serving", "closing", "done"}
SrvSet == [client : Clients, owner : Lifetimes, announced : BOOLEAN, cut : BOOLEAN,
           stop : BOOLEAN, abandoned : BOOLEAN, unclean : BOOLEAN,
           proc : {"none", "running", "exited"}, op : BOOLEAN, lost : BOOLEAN,
           usable : BOOLEAN, stopFailed : BOOLEAN]

Lasts(r) == r.owner \notin {"none", "done"}
Outlived(r) == r.owner = "done" /\ r.proc = "running"

ServerKept(s) ==
    /\ Outlived(srv[s]) => Has(Transport(s))
    /\ srv[s].lost => Has(Operation(s))
    /\ Lasts(srv[s]) => Has(Owner(s)) \/ InHand(s)
    /\ Lasts(srv[s]) => srv[s].client \notin {"none", "stopped"}

ServersInv == MainInv /\ srv \in [Servers -> SrvSet] /\ \A s \in Servers : ServerKept(s)

\* The coroutine turns to stopping, or goes on with something else.
LEMMA ToStops ==
    ASSUME main' \in MainSet, main'.at = "stops", main'.phase # "start",
           main'.phase = "final" => main'.started = <<>>
    PROVE  MainInv'
BY DEF MainInv, AtStop

LEMMA Onward ==
    ASSUME main' \in MainSet, main'.stops = <<>>, main'.phase # "final",
           main'.at \in {"starting", "awaiting", "aborting", "asking", "reaping", "body", "running"}
    PROVE  MainInv'
BY DEF MainInv, AtStop

\* Until then it has nothing to stop and is not at its end.
LEMMA NotYetStopping ==
    ASSUME MainInv,
           main.at \in {"starting", "awaiting", "aborting", "asking", "reaping", "body", "running"}
    PROVE  main.stops = <<>> /\ main.phase # "final" /\ ~AtStop
BY DEF MainInv, AtStop

\* No server changes.
LEMMA ServersSame ==
    ASSUME ServersInv, MainInv', UNCHANGED srv, scope.resources \subseteq scope'.resources,
           \A s : InHand(s) => InHand(s)'
    PROVE  ServersInv'
BY DEF ServersInv, ServerKept, Has

\* One server changes, and is still where it should be.
LEMMA ServerChanges ==
    ASSUME ServersInv, MainInv', scope.resources \subseteq scope'.resources,
           NEW s, NEW r, SetServer(s, r), \A t : InHand(t) /\ t # s => InHand(t)',
           s \in Servers =>
              /\ r \in SrvSet /\ (Outlived(r) => Has(Transport(s))')
              /\ (r.lost => Has(Operation(s))') /\ (Lasts(r) => Has(Owner(s))' \/ InHand(s)')
              /\ (Lasts(r) => r.client \notin {"none", "stopped"})
    PROVE  ServersInv'
<1>1. /\ srv' \in [Servers -> SrvSet] /\ (s \in Servers => srv'[s] = r)
      /\ \A t \in Servers : t # s => srv'[t] = srv[t]
  BY DEF SetServer, ServersInv
<1>2. ASSUME NEW t \in Servers PROVE ServerKept(t)'
  <2>1. CASE t = s
    BY <1>1, <2>1 DEF ServerKept
  <2>2. CASE t # s
    BY <1>1, <2>2 DEF ServersInv, ServerKept, Has
  <2> QED BY <2>1, <2>2
<1> QED BY <1>1, <1>2 DEF ServersInv

\* One server changes but not in whether it lasts.
LEMMA ServerStays ==
    ASSUME ServersInv, MainInv', scope.resources \subseteq scope'.resources,
           NEW s, NEW r, SetServer(s, r), \A t : InHand(t) => InHand(t)',
           s \in Servers =>
              /\ r \in SrvSet /\ (Outlived(r) => Outlived(srv[s]))
              /\ (r.lost => srv[s].lost \/ Has(Operation(s))')
              /\ Lasts(r) => /\ Lasts(srv[s])
                             /\ r.client \in (Clients \ {"none", "stopped"}) \cup {srv[s].client}
    PROVE  ServersInv'
<1>1. s \in Servers => ServerKept(s)
  BY DEF ServersInv
<1>2. s \in Servers =>
         /\ r \in SrvSet /\ (Outlived(r) => Has(Transport(s))')
         /\ (r.lost => Has(Operation(s))') /\ (Lasts(r) => Has(Owner(s))' \/ InHand(s)')
         /\ (Lasts(r) => r.client \notin {"none", "stopped"})
  BY <1>1 DEF ServerKept, Has
<1> QED BY <1>2, ServerChanges

-----------------------------------------------------------------------------
(* The owners. *)

\* A server's own steps leave the coroutine where it is.
LEMMA MainStays ==
    ASSUME ServersInv, UNCHANGED main PROVE MainInv' /\ \A t : InHand(t) => InHand(t)'
BY DEF ServersInv, MainInv, InHand, AtStop

LEMMA OwnerGoes ==
    ASSUME ServersInv, IsScope(scope), NEW s \in Servers, UNCHANGED main, NEW r \in SrvSet,
           SetServer(s, r), scope' \in {scope, BeginTermination(scope)}, Lasts(srv[s]),
           r.owner # "done", ~r.lost \/ srv[s].lost,
           r.client \in {"ready", srv[s].client}
    PROVE  ServersInv' /\ Loses({})
<1>1. Loses({}) /\ scope.resources \subseteq scope'.resources
  BY LosesNone
<1>2. MainInv' /\ \A t : InHand(t) => InHand(t)'
  BY MainStays
<1>3. ~Outlived(r) /\ r.client \in (Clients \ {"none", "stopped"}) \cup {srv[s].client}
  BY DEF Outlived, Clients
<1> QED BY <1>1, <1>2, <1>3, ServerStays

LEMMA ServesKept ==
    ASSUME ServersInv, IsScope(scope), NEW s \in Servers,
           OwnerStep(s) \/ LostRequestEnds(s)
    PROVE  ServersInv' /\ Loses({})
<1>1. srv[s] \in SrvSet /\ UNCHANGED main
  BY DEF ServersInv, OwnerStep, Enter, Initialize, Serve, ShutDown, LostRequestEnds
<1>2. ASSUME BeginClosing(s), Lasts(srv[s]) PROVE ServersInv' /\ Loses({})
  <2> DEFINE r == [srv[s] EXCEPT !.owner = "closing"]
  <2>1. r \in SrvSet /\ r.owner = "closing" /\ r.client = srv[s].client /\ r.lost = srv[s].lost
    BY <1>1 DEF SrvSet, Lifetimes
  <2>2. SetServer(s, r) /\ scope' = BeginTermination(scope)
    BY <1>2 DEF BeginClosing
  <2> HIDE DEF r
  <2> QED BY <1>1, <1>2, <2>1, <2>2, OwnerGoes
<1>3. CASE Enter(s)
  <2>1. Lasts(srv[s])
    BY <1>3 DEF Enter, Lasts
  <2>2. CASE /\ SetServer(s, [srv[s] EXCEPT !.owner = "initializing", !.proc = "running"])
             /\ UNCHANGED scope
    <3> DEFINE r == [srv[s] EXCEPT !.owner = "initializing", !.proc = "running"]
    <3>1. r \in SrvSet /\ r.owner = "initializing" /\ r.client = srv[s].client /\ r.lost = srv[s].lost
      BY <1>1 DEF SrvSet, Lifetimes
    <3> HIDE DEF r
    <3> QED BY <1>1, <2>1, <2>2, <3>1, OwnerGoes DEF r
  <2> QED BY <1>2, <1>3, <2>1, <2>2 DEF Enter
<1>4. CASE Initialize(s)
  <2>1. Lasts(srv[s])
    BY <1>4 DEF Initialize, Lasts
  <2>2. CASE /\ SetServer(s, [srv[s] EXCEPT !.owner = "serving", !.client = "ready",
                                            !.announced = TRUE])
             /\ UNCHANGED scope
    <3> DEFINE r == [srv[s] EXCEPT !.owner = "serving", !.client = "ready", !.announced = TRUE]
    <3>1. r \in SrvSet /\ r.owner = "serving" /\ r.client = "ready" /\ r.lost = srv[s].lost
      BY <1>1 DEF SrvSet, Lifetimes, Clients
    <3> HIDE DEF r
    <3> QED BY <1>1, <2>1, <2>2, <3>1, OwnerGoes DEF r
  <2> QED BY <1>2, <1>4, <2>1, <2>2 DEF Initialize
<1>5. CASE Serve(s)
  BY <1>2, <1>5 DEF Serve, Lasts
<1>6. CASE ShutDown(s)
  <2> DEFINE exited == [srv[s] EXCEPT !.proc = IF @ = "none" THEN @ ELSE "exited"]
  <2>1. exited \in SrvSet /\ exited.proc # "running" /\ exited.lost = srv[s].lost
    BY <1>1 DEF SrvSet
  <2>2. ASSUME NEW r0 \in SrvSet, r0.lost = srv[s].lost, NEW unclean \in BOOLEAN,
               r0.proc # "running" \/ Has(Transport(s))', Loses({}),
               scope.resources \subseteq scope'.resources,
               LET e == [r0 EXCEPT !.owner = "done", !.unclean = @ \/ unclean]
               IN  SetServer(s, [e EXCEPT !.client = ClientAfter(e)])
        PROVE  ServersInv' /\ Loses({})
    <3>1. PICK v \in BOOLEAN : v = (r0.unclean \/ unclean)
      OBVIOUS
    <3> DEFINE e == [r0 EXCEPT !.owner = "done", !.unclean = v]
               r == [e EXCEPT !.client = ClientAfter(e)]
    <3>2. e \in SrvSet /\ e.owner = "done" /\ e.proc = r0.proc /\ e.lost = r0.lost
      BY DEF SrvSet, Lifetimes
    <3>3. SetServer(s, r)
      BY <2>2, <3>1
    <3> HIDE DEF e
    <3>4. ClientAfter(e) \in {"stopped", "failed"}
      BY DEF ClientAfter
    <3>5. r \in SrvSet /\ r.owner = "done" /\ r.proc = r0.proc /\ r.lost = r0.lost
      BY <3>2, <3>4 DEF SrvSet, Clients
    <3> HIDE DEF r
    <3>6. (Outlived(r) => Has(Transport(s))') /\ (r.lost => Has(Operation(s))') /\ ~Lasts(r)
      BY <2>2, <3>5 DEF Outlived, Lasts, ServersInv, ServerKept, Has
    <3> QED BY <1>1, <2>2, <3>3, <3>5, <3>6, MainStays, ServerChanges
  <2> HIDE DEF exited
  <2>3. CASE scope' \in {scope, MarkFailed(scope)} /\ \E unclean \in BOOLEAN :
                LET e == [exited EXCEPT !.owner = "done", !.unclean = @ \/ unclean]
                IN  SetServer(s, [e EXCEPT !.client = ClientAfter(e)])
    <3>1. Loses({}) /\ scope.resources \subseteq scope'.resources
      BY <2>3, LosesNone
    <3> QED BY <2>1, <2>2, <2>3, <3>1
  <2>4. CASE /\ scope' = Leave(scope, Transport(s))
             /\ LET e == [srv[s] EXCEPT !.owner = "done", !.unclean = @ \/ TRUE]
                IN  SetServer(s, [e EXCEPT !.client = ClientAfter(e)])
    <3>1. Loses({}) /\ scope.resources \subseteq scope'.resources
      BY <2>4, LosesNone
    <3>2. Has(Transport(s))'
      BY <2>4, ScopeOps DEF Has
    <3> QED BY <1>1, <2>2, <2>4, <3>1, <3>2
  <2> QED BY <1>6, <2>3, <2>4 DEF ShutDown, exited
<1>7. CASE LostRequestEnds(s)
  <2> DEFINE r == [srv[s] EXCEPT !.lost = FALSE]
  <2>1. r \in SrvSet /\ r.owner = srv[s].owner /\ r.client = srv[s].client /\ ~r.lost
        /\ r.proc = srv[s].proc
    BY <1>1 DEF SrvSet
  <2>2. SetServer(s, r) /\ UNCHANGED scope
    BY <1>7 DEF LostRequestEnds
  <2>3. Loses({}) /\ scope.resources \subseteq scope'.resources
    BY <2>2, LosesNone
  <2>4. MainInv' /\ \A t : InHand(t) => InHand(t)'
    BY <1>1, MainStays
  <2>5. (Outlived(r) <=> Outlived(srv[s])) /\ (Lasts(r) <=> Lasts(srv[s]))
    BY <2>1 DEF Outlived, Lasts
  <2> HIDE DEF r
  <2> QED BY <2>1, <2>2, <2>3, <2>4, <2>5, ServerStays
<1> QED BY <1>3, <1>4, <1>5, <1>6, <1>7 DEF OwnerStep

-----------------------------------------------------------------------------
(* Starting the servers and asking them. *)

\* The rest of the queue is for the next turns.
LEMMA StartNextKept ==
    ASSUME ServersInv, IsScope(scope), StartNext
    PROVE  ServersInv' /\ Loses({})
<1>1. main \in MainSet /\ main.at = "starting" /\ main.stops = <<>> /\ main.phase # "final"
      /\ main.queue \in Seq(Nat)
  BY NotYetStopping DEF ServersInv, MainInv, StartNext, MainSet
<1>2. Loses({}) /\ scope.resources \subseteq scope'.resources
  BY LosesNone DEF StartNext
<1>3. CASE StartIsCancelled(<<>>) /\ UNCHANGED srv
  <2>1. /\ main' \in MainSet /\ main'.at = "stops" /\ main'.phase = "rollback"
        /\ \A s : In(s, main.started) => In(s, main'.stops)
    BY <1>3, InFew, CancelledFields DEF ServersInv
  <2>2. \A s : InHand(s) => InHand(s)'
    BY <1>1, <2>1, InFew DEF InHand
  <2> QED BY <1>2, <1>3, <2>1, <2>2, ToStops, ServersSame
<1>4. CASE /\ main' = [main EXCEPT !.at = "body", !.routes = {s \in Servers : srv[s].usable}]
           /\ UNCHANGED srv
  <2>1. /\ main' \in MainSet /\ main'.at = "body" /\ main'.phase = main.phase
        /\ main'.started = main.started /\ main'.stops = main.stops
    BY <1>1, <1>4 DEF MainSet, Places
  <2>2. \A s : InHand(s) => InHand(s)'
    BY <1>1, <2>1 DEF InHand
  <2>3. MainInv'
    BY <1>1, <2>1, Onward
  <2> QED BY <1>2, <1>4, <2>2, <2>3, ServersSame
<1> DEFINE s == Head(main.queue)
           next == [main EXCEPT !.queue = Tail(main.queue), !.s = s]
<1>5. main.queue # <<>> =>
         /\ next \in MainSet /\ next.at = "starting" /\ next.phase = main.phase /\ next.s = s
         /\ next.started = main.started /\ next.stops = main.stops /\ s \in Nat
  <2> SUFFICES ASSUME main.queue # <<>>
               PROVE  /\ next \in MainSet /\ next.at = "starting" /\ next.phase = main.phase
                      /\ next.s = s /\ next.started = main.started /\ next.stops = main.stops
                      /\ s \in Nat
    OBVIOUS
  <2>1. s \in Nat /\ Tail(main.queue) \in Seq(Nat)
    BY <1>1, InTail
  <2> HIDE DEF s
  <2> QED BY <1>1, <2>1 DEF MainSet
<1> HIDE DEF next
<1>6. CASE main.queue # <<>> /\ main' = next /\ UNCHANGED srv
  <2>1. \A t : InHand(t) => InHand(t)'
    BY <1>1, <1>5, <1>6 DEF InHand
  <2>2. MainInv'
    BY <1>1, <1>5, <1>6, Onward
  <2> QED BY <1>2, <1>6, <2>1, <2>2, ServersSame
<1>7. CASE /\ main.queue # <<>> /\ main' = [next EXCEPT !.at = "awaiting"]
           /\ SetServer(s, [Unstarted EXCEPT !.client = "starting", !.owner = "entering"])
  <2> DEFINE r == [Unstarted EXCEPT !.client = "starting", !.owner = "entering"]
  <2>1. /\ main' \in MainSet /\ main'.at = "awaiting" /\ main'.phase = main.phase /\ main'.s = s
        /\ main'.started = main.started /\ main'.stops = main.stops
    BY <1>5, <1>7 DEF MainSet, Places
  <2>2. r \in SrvSet /\ r.owner = "entering" /\ ~r.lost /\ r.client = "starting"
    BY DEF Unstarted, SrvSet, Clients, Lifetimes
  <2>3. SetServer(s, r)
    BY <1>7
  <2> HIDE DEF r
  <2>4. ~Outlived(r)
    BY <2>2 DEF Outlived
  <2> HIDE DEF s
  <2>5. \A t : InHand(t) => InHand(t)'
    BY <1>1, <2>1 DEF InHand
  <2>6. \A t : t = s => InHand(t)'
    BY <2>1 DEF InHand
  <2>7. MainInv'
    BY <1>1, <2>1, Onward
  <2>8. PICK t : t = s
    OBVIOUS
  <2>9. SetServer(t, r)
    BY <2>3, <2>8
  <2> QED BY <1>2, <2>2, <2>4, <2>5, <2>6, <2>7, <2>8, <2>9, ServerChanges
<1> QED BY <1>3, <1>4, <1>6, <1>7 DEF StartNext, next

\* A failed or a cancelled start leads to stopping its server.
LEMMA GivenUpKept ==
    ASSUME ServersInv, StartFails(main.s) \/ StartIsCancelled(<<main.s>>),
           main.at \in {"starting", "awaiting", "aborting", "asking", "reaping"}
    PROVE  MainInv' /\ \A t : InHand(t) => InHand(t)'
<1>1. main \in MainSet /\ main.s \in Nat /\ main.stops = <<>>
  BY NotYetStopping DEF ServersInv, MainInv, MainSet
<1>2. CASE StartFails(main.s)
  <2>1. /\ main' \in MainSet /\ main'.at = "stops" /\ main'.phase = "isolate"
        /\ main'.started = main.started /\ In(main.s, main'.stops)
    BY <1>1, <1>2, FailsFields DEF ServersInv
  <2>2. \A t : InHand(t) => InHand(t)'
    BY <1>1, <2>1, InFew DEF InHand
  <2> QED BY <2>1, <2>2, ToStops
<1>3. CASE StartIsCancelled(<<main.s>>)
  <2>1. <<main.s>> \in Seq(Nat) /\ In(main.s, <<main.s>>)
    BY <1>1, InFew
  <2>2. /\ main' \in MainSet /\ main'.at = "stops" /\ main'.phase = "rollback"
        /\ \A t : In(t, main.started) \/ In(t, <<main.s>>) => In(t, main'.stops)
    BY <1>3, <2>1, CancelledFields DEF ServersInv
  <2>3. \A t : InHand(t) => InHand(t)'
    BY <1>1, <2>1, <2>2, InFew DEF InHand
  <2> QED BY <2>2, <2>3, ToStops
<1> QED BY <1>2, <1>3

\* The coroutine waits for a server.
LEMMA AskKept ==
    ASSUME ServersInv, NEW m, m \in MainSet, NEW s \in Nat, NEW what \in {"list", "call"},
           m.stops = <<>>, m.phase # "final", main' = [m EXCEPT !.at = "asking", !.s = s, !.ask = what]
    PROVE  /\ MainInv' /\ main'.started = m.started /\ main'.s = s /\ main'.ask = what
           /\ main'.at = "asking"
<1>1. /\ main' \in MainSet /\ main'.at = "asking" /\ main'.s = s /\ main'.ask = what
      /\ main'.started = m.started /\ main'.stops = m.stops /\ main'.phase = m.phase
  BY DEF MainSet, Places
<1> QED BY <1>1, Onward

LEMMA StartIsReadyKept ==
    ASSUME ServersInv, IsScope(scope), StartIsReady
    PROVE  ServersInv' /\ Loses({})
<1>1. main \in MainSet /\ main.at = "awaiting" /\ main.stops = <<>> /\ main.phase # "final"
      /\ main.s \in Nat
  BY NotYetStopping DEF ServersInv, MainInv, StartIsReady, MainSet
<1>2. Loses({}) /\ scope.resources \subseteq scope'.resources
  BY LosesNone DEF StartIsReady
<1>3. CASE StartIsCancelled(<<main.s>>) /\ UNCHANGED srv
  BY <1>1, <1>2, <1>3, GivenUpKept, ServersSame
<1>4. CASE Ask(main.s, "list")
  <2> DEFINE r == [srv[main.s] EXCEPT !.op = TRUE]
  <2>1. MainInv' /\ main'.started = main.started /\ main'.s = main.s /\ main'.ask = "list"
        /\ main'.at = "asking"
    BY <1>1, <1>4, AskKept DEF Ask
  <2>2. \A t : InHand(t) => InHand(t)'
    BY <1>1, <2>1, InFew DEF InHand
  <2>3. main.s \in Servers =>
           /\ r \in SrvSet /\ r.owner = srv[main.s].owner /\ r.proc = srv[main.s].proc
           /\ r.lost = srv[main.s].lost /\ r.client = srv[main.s].client
    <3>1. main.s \in Servers => srv[main.s] \in SrvSet
      BY DEF ServersInv
    <3> QED BY <3>1 DEF SrvSet
  <2>4. SetServer(main.s, r)
    BY <1>4 DEF Ask
  <2> HIDE DEF r
  <2>5. main.s \in Servers =>
           /\ r \in SrvSet /\ (Outlived(r) => Outlived(srv[main.s]))
           /\ (r.lost => srv[main.s].lost) /\ (Lasts(r) => Lasts(srv[main.s]))
           /\ r.client = srv[main.s].client
    BY <2>3 DEF Outlived, Lasts
  <2> QED BY <1>2, <2>1, <2>2, <2>4, <2>5, ServerStays
<1> QED BY <1>3, <1>4 DEF StartIsReady

LEMMA StartEndedKept ==
    ASSUME ServersInv, IsScope(scope), StartEnded
    PROVE  ServersInv' /\ Loses({})
<1>1. main.at = "awaiting" /\ StartFails(main.s) /\ UNCHANGED <<scope, srv>>
  BY DEF StartEnded
<1> QED BY <1>1, GivenUpKept, ServersSame, LosesNone

LEMMA StartGivenUpKept ==
    ASSUME ServersInv, IsScope(scope), StartGivenUp
    PROVE  ServersInv' /\ Loses({})
<1>1. PICK error \in {"cancelled", "timeout", "interrupted"} : AbortStart(error)
  BY DEF StartGivenUp
<1>2. main \in MainSet /\ main.at = "awaiting" /\ main.stops = <<>> /\ main.phase # "final"
  BY NotYetStopping DEF ServersInv, MainInv, StartGivenUp
<1>3. Loses({}) /\ scope.resources \subseteq scope'.resources
  BY <1>1, LosesNone DEF AbortStart
<1>4. /\ main' \in MainSet /\ main'.at = "aborting" /\ main'.s = main.s /\ main'.phase = main.phase
      /\ main'.started = main.started /\ main'.stops = main.stops
  <2>1. PICK n \in Nat : n = IF error = "interrupted" THEN main.interrupts + 1 ELSE main.interrupts
    BY <1>2 DEF MainSet
  <2>2. main' = [main EXCEPT !.at = "aborting", !.error = error, !.interrupts = n]
    BY <1>1, <2>1 DEF AbortStart
  <2> QED BY <1>2, <2>2 DEF MainSet, Places, MainErrors
<1>5. \A t : InHand(t) => InHand(t)'
  BY <1>2, <1>4 DEF InHand
<1>6. MainInv'
  BY <1>2, <1>4, Onward
<1>7. PICK v \in BOOLEAN : v = (srv[main.s].unclean \/ srv[main.s].owner = "closing")
  OBVIOUS
<1> DEFINE r == [srv[main.s] EXCEPT !.cut = TRUE, !.unclean = v]
<1>8. main.s \in Servers =>
         /\ r \in SrvSet /\ r.owner = srv[main.s].owner /\ r.proc = srv[main.s].proc
         /\ r.lost = srv[main.s].lost /\ r.client = srv[main.s].client
  <2>1. main.s \in Servers => srv[main.s] \in SrvSet
    BY DEF ServersInv
  <2> QED BY <2>1 DEF SrvSet
<1>9. SetServer(main.s, r)
  BY <1>1, <1>7 DEF AbortStart
<1> HIDE DEF r
<1>10. main.s \in Servers =>
          /\ r \in SrvSet /\ (Outlived(r) => Outlived(srv[main.s]))
          /\ (r.lost => srv[main.s].lost) /\ (Lasts(r) => Lasts(srv[main.s]))
          /\ r.client = srv[main.s].client
  BY <1>8 DEF Outlived, Lasts
<1> QED BY <1>3, <1>5, <1>6, <1>9, <1>10, ServerStays

\* An owner that is given up is the scope's.
LEMMA AbortEndsKept ==
    ASSUME ServersInv, IsScope(scope), AbortEnds
    PROVE  ServersInv' /\ Loses({})
<1>1. main.at = "aborting" /\ (StartFails(main.s) \/ StartIsCancelled(<<main.s>>))
  BY DEF AbortEnds, AfterAbort
<1>2. MainInv' /\ \A t : InHand(t) => InHand(t)'
  BY <1>1, GivenUpKept
<1>3. main.s \in Servers => srv[main.s] \in SrvSet
  BY DEF ServersInv
<1>4. ASSUME scope' \in {scope, Leave(scope, Owner(main.s))}, NEW a \in BOOLEAN, NEW u \in BOOLEAN,
             SetServer(main.s, [srv[main.s] EXCEPT !.client = "failed", !.abandoned = a,
                                                   !.unclean = u])
      PROVE  ServersInv' /\ Loses({})
  <2> DEFINE r == [srv[main.s] EXCEPT !.client = "failed", !.abandoned = a, !.unclean = u]
  <2>1. main.s \in Servers => /\ r \in SrvSet /\ r.client = "failed" /\ r.lost = srv[main.s].lost
                              /\ r.owner = srv[main.s].owner /\ r.proc = srv[main.s].proc
    BY <1>3 DEF SrvSet, Clients
  <2>2. SetServer(main.s, r)
    BY <1>4
  <2> HIDE DEF r
  <2>3. Loses({}) /\ scope.resources \subseteq scope'.resources
    BY <1>4, LosesNone
  <2>4. main.s \in Servers =>
           /\ r \in SrvSet /\ (Outlived(r) => Outlived(srv[main.s]))
           /\ (r.lost => srv[main.s].lost) /\ (Lasts(r) => Lasts(srv[main.s]))
           /\ r.client \in Clients \ {"none", "stopped"}
    BY <2>1 DEF Outlived, Lasts, Clients
  <2> QED BY <1>2, <2>2, <2>3, <2>4, ServerStays
<1>5. CASE /\ UNCHANGED scope /\ SetServer(main.s, [srv[main.s] EXCEPT !.client = "failed"])
  <2>1. CASE main.s \in Servers
    <3> DEFINE r0 == srv[main.s]
    <3>1. [r0 EXCEPT !.client = "failed"] =
             [r0 EXCEPT !.client = "failed", !.abandoned = r0.abandoned, !.unclean = r0.unclean]
          /\ r0.abandoned \in BOOLEAN /\ r0.unclean \in BOOLEAN
      BY <1>3, <2>1 DEF SrvSet
    <3> QED BY <1>4, <1>5, <3>1
  <2>2. CASE main.s \notin Servers
    <3>1. UNCHANGED srv
      BY <1>5, <2>2 DEF SetServer, ServersInv
    <3> QED BY <1>2, <1>5, <3>1, ServersSame, LosesNone
  <2> QED BY <2>1, <2>2
<1>6. CASE /\ scope' = Leave(scope, Owner(main.s))
           /\ SetServer(main.s, [srv[main.s] EXCEPT !.client = "failed", !.abandoned = TRUE,
                                                    !.unclean = TRUE])
  BY <1>4, <1>6
<1> QED BY <1>5, <1>6 DEF AbortEnds

\* The start or the request is given up at once.
LEMMA AtOnceFields ==
    ASSUME MainInv, NEW n \in Nat, NEW ph \in Phases, NEW p \in Primaries, NEW q \in Seq(Nat),
           NEW st \in Seq(Nat), ph # "start", ph # "final",
           main' = [main EXCEPT !.interrupts = n, !.at = "stops", !.error = "none", !.phase = ph,
                                !.primary = p, !.stops = q, !.started = st]
    PROVE  MainInv' /\ main'.stops = q /\ main'.started = st
<1>1. main \in MainSet
  BY DEF MainInv
<1>2. /\ main' \in MainSet /\ main'.at = "stops" /\ main'.phase = ph /\ main'.stops = q
      /\ main'.started = st
  BY <1>1 DEF MainSet, Places, MainErrors
<1> QED BY <1>2, ToStops

LEMMA AbortInterruptedKept ==
    ASSUME ServersInv, IsScope(scope), AbortInterrupted
    PROVE  ServersInv' /\ Loses({})
<1>1. main \in MainSet /\ main.at = "aborting" /\ main.s \in Nat /\ main.started \in Seq(Nat)
      /\ main.stops = <<>> /\ main.primary \in Primaries /\ main.interrupts + 1 \in Nat
  <2>1. MainInv /\ main \in MainSet /\ main.at = "aborting"
    BY DEF ServersInv, MainInv, AbortInterrupted
  <2>2. main.stops = <<>>
    BY <2>1, NotYetStopping
  <2> QED BY <2>1, <2>2 DEF MainSet
<1>2. <<main.s>> \in Seq(Nat) /\ In(main.s, <<main.s>>) /\ <<>> \in Seq(Nat)
  BY <1>1, InFew
<1>3. PICK n \in Nat : n = main.interrupts + 1
  BY <1>1
<1>4. MainInv' /\ \A t : InHand(t) => InHand(t)'
  <2>1. CASE main.error = "timeout"
    <3>1. main' = [main EXCEPT !.interrupts = n, !.at = "stops", !.error = "none",
                               !.phase = "isolate", !.primary = main.primary,
                               !.stops = <<main.s>>, !.started = main.started]
      BY <1>3, <2>1 DEF AbortInterrupted
    <3>2. MainInv' /\ main'.stops = <<main.s>> /\ main'.started = main.started
      <4>1. PICK q \in Seq(Nat) : q = <<main.s>>
        BY <1>2
      <4>2. PICK ph \in Phases : ph = "isolate"
        BY DEF Phases
      <4>3. PICK pr \in Primaries : pr = main.primary
        BY <1>1
      <4>4. PICK st \in Seq(Nat) : st = main.started
        BY <1>1
      <4>5. main' = [main EXCEPT !.interrupts = n, !.at = "stops", !.error = "none",
                                 !.phase = ph, !.primary = pr, !.stops = q, !.started = st]
        BY <3>1, <4>1, <4>2, <4>3, <4>4
      <4>6. MainInv' /\ main'.stops = q /\ main'.started = st
        BY <4>2, <4>5, AtOnceFields DEF ServersInv
      <4> QED BY <4>1, <4>4, <4>6
    <3> QED BY <1>1, <1>2, <3>2, InFew DEF InHand
  <2>2. CASE main.error # "timeout"
    <3>1. Reverse(main.started) \in Seq(Nat) /\ \A t : In(t, main.started) => In(t, Reverse(main.started))
      BY <1>1, InReverse
    <3>2. PICK q \in Seq(Nat) : /\ q = <<main.s>> \o Reverse(main.started) /\ In(main.s, q)
                                /\ \A t : In(t, main.started) => In(t, q)
      <4>1. PICK p \in Seq(Nat) : p = <<main.s>> /\ In(main.s, p)
        BY <1>2
      <4>2. PICK r \in Seq(Nat) : r = Reverse(main.started) /\ \A t : In(t, main.started) => In(t, r)
        BY <3>1
      <4>3. p \o r \in Seq(Nat) /\ \A t : In(t, p) \/ In(t, r) => In(t, p \o r)
        BY InConcat
      <4> QED BY <4>1, <4>2, <4>3
    <3>3. main' = [main EXCEPT !.interrupts = n, !.at = "stops", !.error = "none",
                               !.phase = "rollback", !.primary = "cancelled",
                               !.stops = q, !.started = <<>>]
      BY <1>3, <2>2, <3>2 DEF AbortInterrupted
    <3>4. MainInv' /\ main'.stops = q /\ main'.started = <<>>
      BY <1>2, <3>3, AtOnceFields DEF ServersInv, Phases, Primaries
    <3> QED BY <1>1, <3>2, <3>4, InFew DEF InHand
  <2> QED BY <2>1, <2>2
<1> DEFINE r == [srv[main.s] EXCEPT !.client = "failed"]
<1>5. main.s \in Servers => /\ r \in SrvSet /\ r.client = "failed" /\ r.lost = srv[main.s].lost
                            /\ r.owner = srv[main.s].owner /\ r.proc = srv[main.s].proc
  <2>1. main.s \in Servers => srv[main.s] \in SrvSet
    BY DEF ServersInv
  <2> QED BY <2>1 DEF SrvSet, Clients
<1>6. SetServer(main.s, r) /\ scope' \in {scope, Leave(scope, Owner(main.s))}
  BY DEF AbortInterrupted
<1> HIDE DEF r
<1>7. Loses({}) /\ scope.resources \subseteq scope'.resources
  BY <1>6, LosesNone
<1>8. main.s \in Servers =>
         /\ r \in SrvSet /\ (Outlived(r) => Outlived(srv[main.s]))
         /\ (r.lost => srv[main.s].lost) /\ (Lasts(r) => Lasts(srv[main.s]))
         /\ r.client \in Clients \ {"none", "stopped"}
  BY <1>5 DEF Outlived, Lasts, Clients
<1> QED BY <1>4, <1>6, <1>7, <1>8, ServerStays

-----------------------------------------------------------------------------
(* The requests to a server. *)

\* The operation is over; what was started will be stopped.
LEMMA TerminateKept ==
    ASSUME MainInv, NEW m \in MainSet, m.started = main.started, NEW p \in Primaries,
           Terminate(m, p), main.stops = <<>>, main.at \notin {"awaiting", "aborting"},
           main.at \in {"asking", "reaping"} => main.ask = "call"
    PROVE  MainInv' /\ \A t : InHand(t) => InHand(t)'
<1>1. /\ main' \in MainSet /\ main'.at = "stops" /\ main'.phase = "final"
      /\ main'.started = <<>> /\ \A s : In(s, main.started) => In(s, main'.stops)
  BY TerminateFields
<1>2. \A t : InHand(t) => InHand(t)'
  BY <1>1, InFew DEF InHand
<1> QED BY <1>1, <1>2, ToStops

LEMMA AfterRequestKept ==
    ASSUME ServersInv, main.at \in {"asking", "reaping"}, NEW result \in {"ok", "failed", "cancelled"},
           AfterRequest(main.s, result)
    PROVE  MainInv' /\ \A t : InHand(t) => InHand(t)'
<1>1. MainInv /\ main \in MainSet
  BY DEF ServersInv, MainInv
<1>2. main.stops = <<>> /\ main.phase # "final"
  BY <1>1, NotYetStopping
<1>3. main.s \in Nat /\ main.started \in Seq(Nat) /\ main.ask \in {"list", "call"}
  BY <1>1 DEF MainSet
<1>4. CASE main.ask = "list" /\ main' = [main EXCEPT !.at = "starting",
                                                     !.started = Append(main.started, main.s)]
  <2>1. PICK q \in Seq(Nat) : /\ q = Append(main.started, main.s) /\ In(main.s, q)
                              /\ \A t : In(t, main.started) => In(t, q)
    <3>1. PICK p \in Seq(Nat) : p = main.started
      BY <1>3
    <3>2. PICK x \in Nat : x = main.s
      BY <1>3
    <3>3. Append(p, x) \in Seq(Nat) /\ \A t : In(t, Append(p, x)) <=> In(t, p) \/ t = x
      BY InAppend
    <3> QED BY <3>1, <3>2, <3>3
  <2>2. main' = [main EXCEPT !.at = "starting", !.started = q]
    BY <1>4, <2>1
  <2>3. /\ main' \in MainSet /\ main'.at = "starting" /\ main'.started = q
        /\ main'.stops = main.stops /\ main'.phase = main.phase
    BY <1>1, <2>2 DEF MainSet, Places
  <2>4. \A t : InHand(t) => InHand(t)'
    BY <1>2, <2>1, <2>3, InFew DEF InHand
  <2> QED BY <1>2, <2>3, <2>4, Onward
<1>5. CASE main.ask = "list" /\ (StartFails(main.s) \/ StartIsCancelled(<<main.s>>))
  BY <1>5, GivenUpKept
<1>6. CASE main.ask = "call" /\ Terminate(main, "cancelled")
  BY <1>1, <1>2, <1>6, TerminateKept DEF Primaries
<1>7. CASE main.ask = "call" /\ main' = [main EXCEPT !.at = "body", !.error = "none"]
  <2>1. /\ main' \in MainSet /\ main'.at = "body" /\ main'.started = main.started
        /\ main'.stops = main.stops /\ main'.phase = main.phase
    BY <1>1, <1>7 DEF MainSet, Places, MainErrors
  <2>2. \A t : InHand(t) => InHand(t)'
    BY <1>2, <1>7, <2>1 DEF InHand
  <2> QED BY <1>2, <2>1, <2>2, Onward
<1>8. CASE main.ask = "list"
  <2>1. \/ main' = [main EXCEPT !.at = "starting", !.started = Append(main.started, main.s)]
        \/ StartFails(main.s) \/ StartIsCancelled(<<main.s>>)
    BY <1>8 DEF AfterRequest
  <2> QED BY <1>4, <1>5, <1>8, <2>1
<1> QED BY <1>3, <1>6, <1>7, <1>8 DEF AfterRequest

\* The server of a request is as good as it was, or its client has failed.
LEMMA AskedKept ==
    ASSUME ServersInv, IsScope(scope), MainInv', \A t : InHand(t) => InHand(t)',
           NEW s, NEW r, SetServer(s, r),
           s \in Servers =>
              /\ r \in SrvSet /\ r.owner = srv[s].owner /\ r.proc = srv[s].proc
              /\ r.client \in {"failed", srv[s].client}
              /\ r.lost => srv[s].lost \/ scope' = Leave(scope, Operation(s)),
           scope' \in {scope, Leave(scope, Operation(s))}
    PROVE  ServersInv' /\ Loses({})
<1>1. Loses({}) /\ scope.resources \subseteq scope'.resources
  BY LosesNone
<1>2. scope' = Leave(scope, Operation(s)) => Has(Operation(s))'
  BY ScopeOps DEF Has
<1>3. s \in Servers =>
         /\ r \in SrvSet /\ (Outlived(r) => Outlived(srv[s]))
         /\ (r.lost => srv[s].lost \/ Has(Operation(s))')
         /\ (Lasts(r) => Lasts(srv[s]))
         /\ r.client \in (Clients \ {"none", "stopped"}) \cup {srv[s].client}
  BY <1>2 DEF Outlived, Lasts, Clients
<1> QED BY <1>1, <1>3, ServerStays

LEMMA AnsweredKept ==
    ASSUME ServersInv, IsScope(scope), NEW s \in Servers, Answered(s)
    PROVE  ServersInv' /\ Loses({})
<1>1. PICK result \in {"ok", "failed"} :
         /\ AfterRequest(s, result)
         /\ SetServer(s, [srv[s] EXCEPT !.op = FALSE, !.usable = srv[s].usable \/ result = "ok"])
  BY DEF Answered
<1>2. MainInv' /\ \A t : InHand(t) => InHand(t)'
  BY <1>1, AfterRequestKept DEF Answered
<1>3. srv[s] \in SrvSet
  BY DEF ServersInv
<1>4. PICK v \in BOOLEAN : v = (srv[s].usable \/ result = "ok")
  OBVIOUS
<1> DEFINE r == [srv[s] EXCEPT !.op = FALSE, !.usable = v]
<1>5. SetServer(s, r)
  BY <1>1, <1>4
<1>6. /\ r \in SrvSet /\ r.owner = srv[s].owner /\ r.proc = srv[s].proc
      /\ r.client = srv[s].client /\ r.lost = srv[s].lost
  BY <1>3 DEF SrvSet
<1> HIDE DEF r
<1>7. UNCHANGED scope
  BY DEF Answered
<1> QED BY <1>2, <1>5, <1>6, <1>7, AskedKept

LEMMA RequestGivenUpKept ==
    ASSUME ServersInv, IsScope(scope), RequestGivenUp
    PROVE  ServersInv' /\ Loses({})
<1>1. main \in MainSet /\ MainInv /\ main.at = "asking" /\ UNCHANGED srv
      /\ scope' = BeginTermination(scope)
  BY DEF ServersInv, MainInv, RequestGivenUp
<1>2. main.stops = <<>> /\ main.phase # "final"
  BY <1>1, NotYetStopping
<1>3. PICK error \in MainErrors, n \in Nat :
         main' = [main EXCEPT !.at = "reaping", !.error = error, !.interrupts = n]
  <2>1. main.interrupts \in Nat /\ main.interrupts + 1 \in Nat
    BY <1>1 DEF MainSet
  <2>2. PICK error \in {"cancelled", "timeout", "interrupted"} :
           main' = [main EXCEPT !.at = "reaping", !.error = error,
                       !.interrupts = IF error = "interrupted" THEN main.interrupts + 1
                                      ELSE main.interrupts]
    BY DEF RequestGivenUp
  <2>3. PICK n \in Nat : n = IF error = "interrupted" THEN main.interrupts + 1
                             ELSE main.interrupts
    BY <2>1
  <2>4. main' = [main EXCEPT !.at = "reaping", !.error = error, !.interrupts = n]
    BY <2>2, <2>3
  <2> QED BY <2>4 DEF MainErrors
<1>4. /\ main' \in MainSet /\ main'.at = "reaping" /\ main'.started = main.started
      /\ main'.stops = main.stops /\ main'.phase = main.phase /\ main'.s = main.s
      /\ main'.ask = main.ask
  BY <1>1, <1>3 DEF MainSet, Places
<1>5. \A t : InHand(t) => InHand(t)'
  BY <1>1, <1>4 DEF InHand
<1>6. MainInv'
  BY <1>2, <1>4, Onward
<1> QED BY <1>1, <1>5, <1>6, ServersSame, LosesNone

LEMMA RequestReapedKept ==
    ASSUME ServersInv, IsScope(scope), RequestReaped
    PROVE  ServersInv' /\ Loses({})
<1>1. main.at = "reaping" /\ AfterRequest(main.s, ReapResult) /\ UNCHANGED scope
      /\ ReapResult \in {"failed", "cancelled"}
  BY DEF RequestReaped, ReapResult
<1>2. MainInv' /\ \A t : InHand(t) => InHand(t)'
  BY <1>1, AfterRequestKept
<1>3. PICK s : s = main.s
  OBVIOUS
<1>4. PICK c : c = IF main.error = "interrupted" THEN "failed" ELSE srv[s].client
  OBVIOUS
<1> DEFINE r == [srv[s] EXCEPT !.op = FALSE, !.client = c]
<1>5. SetServer(s, r)
  BY <1>3, <1>4 DEF RequestReaped
<1>6. s \in Servers =>
         /\ r \in SrvSet /\ r.owner = srv[s].owner /\ r.proc = srv[s].proc
         /\ r.client \in {"failed", srv[s].client} /\ r.lost = srv[s].lost
  <2>1. s \in Servers => srv[s] \in SrvSet
    BY DEF ServersInv
  <2>2. s \in Servers => c \in Clients /\ c \in {"failed", srv[s].client}
    BY <1>4, <2>1 DEF Clients, SrvSet
  <2> QED BY <2>1, <2>2 DEF SrvSet
<1> HIDE DEF r
<1> QED BY <1>1, <1>2, <1>5, <1>6, AskedKept

\* A request that is lost is the scope's.
LEMMA RequestLostKept ==
    ASSUME ServersInv, IsScope(scope), RequestLost
    PROVE  ServersInv' /\ Loses({})
<1>1. main \in MainSet /\ MainInv /\ main.at = "reaping" /\ main.s \in Nat
      /\ main.started \in Seq(Nat) /\ main.primary \in Primaries
  BY DEF ServersInv, MainInv, RequestLost, MainSet
<1>2. main.stops = <<>> /\ main.ask \in {"list", "call"}
  BY <1>1, NotYetStopping DEF MainSet
<1>3. PICK n \in Nat : n = main.interrupts + 1
  BY <1>1 DEF MainSet
<1>4. MainInv' /\ \A t : InHand(t) => InHand(t)'
  <2>1. CASE main.ask = "call" /\ Terminate(main, "none")
    BY <1>1, <1>2, <2>1, TerminateKept DEF Primaries
  <2>2. CASE AfterRequest(main.s, ReapResult)
    BY <1>1, <2>2, AfterRequestKept DEF ReapResult
  <2> DEFINE m == [main EXCEPT !.interrupts = n]
  <2>3. m \in MainSet /\ m.started = main.started
    BY <1>1 DEF MainSet
  <2>4. CASE main.ask = "call" /\ Terminate(m, "cancelled")
    <3> HIDE DEF m
    <3> QED BY <1>1, <1>2, <2>3, <2>4, TerminateKept DEF Primaries
  <2>5. CASE /\ main.ask = "list"
             /\ main' = [m EXCEPT !.at = "stops", !.phase = "rollback", !.error = "none",
                                  !.primary = "cancelled",
                                  !.stops = <<main.s>> \o Reverse(m.started), !.started = <<>>]
    <3>1. PICK q \in Seq(Nat) : /\ q = <<main.s>> \o Reverse(main.started) /\ In(main.s, q)
                                /\ \A t : In(t, main.started) => In(t, q)
      <4>1. PICK p \in Seq(Nat) : p = <<main.s>> /\ In(main.s, p)
        BY <1>1, InFew
      <4>2. PICK r \in Seq(Nat) : r = Reverse(main.started) /\ \A t : In(t, main.started) => In(t, r)
        <5>1. /\ Reverse(main.started) \in Seq(Nat)
              /\ \A t : In(t, main.started) => In(t, Reverse(main.started))
          BY <1>1, InReverse
        <5> QED BY <5>1
      <4>3. p \o r \in Seq(Nat) /\ \A t : In(t, p) \/ In(t, r) => In(t, p \o r)
        BY InConcat
      <4> QED BY <4>1, <4>2, <4>3
    <3>2. PICK e \in Seq(Nat) : e = <<>>
      BY InFew
    <3>3. PICK ph \in Phases, pr \in Primaries : ph = "rollback" /\ pr = "cancelled"
      BY DEF Phases, Primaries
    <3>4. main' = [main EXCEPT !.interrupts = n, !.at = "stops", !.error = "none", !.phase = ph,
                               !.primary = pr, !.stops = q, !.started = e]
      BY <1>1, <1>3, <2>5, <3>1, <3>2, <3>3 DEF MainSet
    <3>5. MainInv' /\ main'.stops = q /\ main'.started = e
      BY <1>1, <3>3, <3>4, AtOnceFields, ZenonT(40)
    <3> QED BY <1>1, <1>2, <3>1, <3>5, InFew DEF InHand
  <2> QED BY <1>2, <1>3, <2>1, <2>2, <2>4, <2>5 DEF RequestLost
<1>5. PICK s : s = main.s
  OBVIOUS
<1> DEFINE r == [srv[s] EXCEPT !.op = FALSE, !.lost = TRUE, !.client = "failed"]
<1>6. SetServer(s, r) /\ scope' = Leave(scope, Operation(s))
  BY <1>5 DEF RequestLost
<1>7. s \in Servers =>
         /\ r \in SrvSet /\ r.owner = srv[s].owner /\ r.proc = srv[s].proc
         /\ r.client = "failed"
  <2>1. s \in Servers => srv[s] \in SrvSet
    BY DEF ServersInv
  <2> QED BY <2>1 DEF SrvSet, Clients
<1> HIDE DEF r
<1> QED BY <1>4, <1>6, <1>7, AskedKept

LEMMA CallKept ==
    ASSUME ServersInv, IsScope(scope), NEW s \in Servers, Call(s)
    PROVE  ServersInv' /\ Loses({})
<1>1. main \in MainSet /\ MainInv /\ main.at = "body" /\ s \in Nat /\ UNCHANGED scope
  BY ServersAreNat DEF ServersInv, MainInv, Call
<1>2. main.stops = <<>> /\ main.phase # "final"
  BY <1>1, NotYetStopping
<1>3. PICK n \in Nat : n = main.calls + 1
  BY <1>1 DEF MainSet
<1>4. main' = [main EXCEPT !.at = "asking", !.s = s, !.ask = "call", !.calls = n]
  BY <1>3 DEF Call
<1>5. /\ main' \in MainSet /\ main'.at = "asking" /\ main'.started = main.started
      /\ main'.stops = main.stops /\ main'.phase = main.phase
  BY <1>1, <1>4 DEF MainSet, Places
<1>6. \A t : InHand(t) => InHand(t)'
  BY <1>1, <1>5 DEF InHand
<1>7. MainInv'
  BY <1>2, <1>5, Onward
<1> DEFINE r == [srv[s] EXCEPT !.op = TRUE]
<1>8. /\ r \in SrvSet /\ r.owner = srv[s].owner /\ r.proc = srv[s].proc
      /\ r.client = srv[s].client /\ r.lost = srv[s].lost
  <2>1. srv[s] \in SrvSet
    BY DEF ServersInv
  <2> QED BY <2>1 DEF SrvSet
<1>9. SetServer(s, r)
  BY DEF Call
<1> HIDE DEF r
<1> QED BY <1>1, <1>6, <1>7, <1>8, <1>9, AskedKept

-----------------------------------------------------------------------------
(* The servers are stopped. *)

\* A server that was stopped or given up is not in hand any more, the others are.
LEMMA TakenOff ==
    ASSUME MainInv, main.stops # <<>>, NEW m \in MainSet, m.started = main.started,
           m.stops = main.stops, m.phase = main.phase,
           NEW s, s = Head(main.stops), NEW ok \in BOOLEAN, NextStop(m, s, ok)
    PROVE  /\ MainInv' /\ \A t : InHand(t) /\ t # s => InHand(t)'
<1>1. main \in MainSet /\ main.stops \in Seq(Nat) /\ AtStop
  BY DEF MainInv, MainSet
<1>2. s \in Nat /\ \A t : In(t, main.stops) => t = s \/ In(t, Tail(main.stops))
  BY <1>1, InTail
<1>3. /\ main' \in MainSet /\ main'.at = "stops" /\ main'.phase = main.phase
      /\ main'.started = main.started /\ main'.stops = Tail(main.stops)
  BY <1>2, NextStopFields
<1>4. main'.phase # "start" /\ (main'.phase = "final" => main'.started = <<>>)
  BY <1>1, <1>3 DEF MainInv
<1>5. \A t : InHand(t) /\ t # s => InHand(t)'
  BY <1>1, <1>2, <1>3 DEF InHand, AtStop
<1> QED BY <1>3, <1>4, <1>5, ToStops

\* Its record says how that went.
LEMMA StoppedKept ==
    ASSUME ServersInv, IsScope(scope), MainInv', NEW s, \A t : InHand(t) /\ t # s => InHand(t)',
           NEW c, NEW f \in BOOLEAN, s \in Servers => c \in Clients,
           SetServer(s, [srv[s] EXCEPT !.usable = FALSE, !.stopFailed = f, !.client = c]),
           scope' \in {scope, MarkFailed(scope), Leave(scope, Owner(s))},
           s \in Servers /\ Lasts(srv[s]) => scope' = Leave(scope, Owner(s)) /\ c = "failed"
    PROVE  ServersInv' /\ Loses({})
<1>1. Loses({}) /\ scope.resources \subseteq scope'.resources
  BY LosesNone
<1>2. scope' = Leave(scope, Owner(s)) => Has(Owner(s))'
  BY ScopeOps DEF Has
<1>3. s \in Servers => srv[s] \in SrvSet /\ ServerKept(s)
  BY DEF ServersInv
<1> DEFINE r == [srv[s] EXCEPT !.usable = FALSE, !.stopFailed = f, !.client = c]
<1>4. s \in Servers =>
         /\ r \in SrvSet /\ r.owner = srv[s].owner /\ r.proc = srv[s].proc
         /\ r.client = c /\ r.lost = srv[s].lost
  BY <1>3 DEF SrvSet
<1>5. SetServer(s, r)
  OBVIOUS
<1> HIDE DEF r
<1>6. s \in Servers =>
         /\ r \in SrvSet /\ (Outlived(r) => Has(Transport(s))')
         /\ (r.lost => Has(Operation(s))') /\ (Lasts(r) => Has(Owner(s))' \/ InHand(s)')
         /\ (Lasts(r) => r.client \notin {"none", "stopped"})
  BY <1>1, <1>2, <1>3, <1>4 DEF ServerKept, Has, Outlived, Lasts
<1> QED BY <1>1, <1>5, <1>6, ServerChanges

LEMMA StopOneKept ==
    ASSUME ServersInv, IsScope(scope), StopOne
    PROVE  ServersInv' /\ Loses({})
<1>1. main \in MainSet /\ MainInv /\ main.at = "stops" /\ main.stops # <<>>
      /\ main.stops \in Seq(Nat)
  BY DEF ServersInv, MainInv, StopOne, MainSet
<1>2. PICK s \in Nat : s = Head(main.stops)
  BY <1>1, InTail
<1>3. PICK ok \in BOOLEAN : ok = ~(srv[s].client = "failed" /\ srv[s].unclean)
  OBVIOUS
<1>4. s \in Servers => srv[s] \in SrvSet /\ ServerKept(s)
  BY DEF ServersInv
<1>5. CASE /\ Over(srv[s]) /\ NextStop(main, s, ok) /\ SetServer(s, StoppedServer(srv[s], ok))
           /\ UNCHANGED scope
  <2>1. MainInv' /\ \A t : InHand(t) /\ t # s => InHand(t)'
    BY <1>1, <1>2, <1>5, TakenOff
  <2>2. s \in Servers => ~Lasts(srv[s])
    BY <1>4, <1>5 DEF ServerKept, Lasts, Over
  <2>3. PICK c : c = IF ok THEN "none" ELSE srv[s].client
    OBVIOUS
  <2>4. s \in Servers => c \in Clients
    BY <1>4, <2>3 DEF Clients, SrvSet
  <2>5. PICK f \in BOOLEAN : f = ~ok
    OBVIOUS
  <2>6. SetServer(s, [srv[s] EXCEPT !.usable = FALSE, !.stopFailed = f, !.client = c])
    BY <1>5, <2>3, <2>5 DEF StoppedServer
  <2> QED BY <1>5, <2>1, <2>2, <2>4, <2>6, StoppedKept
<1> DEFINE r == [srv[s] EXCEPT !.usable = FALSE, !.stop = TRUE, !.client = "stopping"]
<1>6. CASE /\ SetServer(s, r) /\ main' = [main EXCEPT !.at = "stopping", !.s = s]
           /\ scope' = BeginTermination(scope)
  <2>1. /\ main' \in MainSet /\ main'.at = "stopping" /\ main'.s = s
        /\ main'.started = main.started /\ main'.stops = main.stops /\ main'.phase = main.phase
    BY <1>1, <1>6 DEF MainSet, Places
  <2>2. MainInv'
    BY <1>1, <1>2, <2>1 DEF MainInv, AtStop
  <2>3. \A t : InHand(t) => InHand(t)'
    BY <1>1, <2>1 DEF InHand
  <2>4. Loses({}) /\ scope.resources \subseteq scope'.resources
    BY <1>6, LosesNone
  <2>5. s \in Servers =>
           /\ r \in SrvSet /\ r.owner = srv[s].owner /\ r.proc = srv[s].proc
           /\ r.client = "stopping" /\ r.lost = srv[s].lost
    BY <1>4 DEF SrvSet, Clients
  <2> HIDE DEF r
  <2>6. s \in Servers =>
           /\ r \in SrvSet /\ (Outlived(r) => Outlived(srv[s]))
           /\ (r.lost => srv[s].lost) /\ (Lasts(r) => Lasts(srv[s]))
           /\ r.client \in Clients \ {"none", "stopped"}
    BY <2>5 DEF Outlived, Lasts, Clients
  <2> QED BY <1>6, <2>2, <2>3, <2>4, <2>6, ServerStays
<1> QED BY <1>2, <1>3, <1>5, <1>6 DEF StopOne

LEMMA OwnerStoppedKept ==
    ASSUME ServersInv, IsScope(scope), OwnerStopped
    PROVE  ServersInv' /\ Loses({})
<1>1. main \in MainSet /\ MainInv /\ main.stops # <<>> /\ main.s = Head(main.stops)
      /\ main.stopCancelled \in BOOLEAN
  BY DEF ServersInv, MainInv, OwnerStopped, MainSet
<1>2. PICK s : s = main.s
  OBVIOUS
<1>3. PICK hit \in BOOLEAN : hit = (main.at = "stoppingAgain" \/ (srv[s].announced /\ srv[s].cut))
  OBVIOUS
<1>4. PICK ok \in BOOLEAN : ok = IF hit THEN srv[s].client = "stopped"
                                 ELSE ~(srv[s].announced /\ srv[s].unclean)
  OBVIOUS
<1>5. PICK v \in BOOLEAN : v = (main.stopCancelled \/ hit)
  OBVIOUS
<1> DEFINE m == [main EXCEPT !.stopCancelled = v]
<1>6. m \in MainSet /\ m.started = main.started /\ m.stops = main.stops /\ m.phase = main.phase
  BY <1>1 DEF MainSet
<1>7. /\ srv[s].owner = "done" /\ NextStop(m, s, ok) /\ SetServer(s, StoppedServer(srv[s], ok))
      /\ scope' \in {scope, MarkFailed(scope)}
  BY <1>2, <1>3, <1>4, <1>5 DEF OwnerStopped
<1> HIDE DEF m
<1>8. MainInv' /\ \A t : InHand(t) /\ t # s => InHand(t)'
  BY <1>1, <1>2, <1>6, <1>7, TakenOff
<1>9. PICK c : c = IF ok THEN "none" ELSE srv[s].client
  OBVIOUS
<1>10. s \in Servers => c \in Clients
  <2>1. s \in Servers => srv[s] \in SrvSet
    BY DEF ServersInv
  <2> QED BY <1>9, <2>1 DEF Clients, SrvSet
<1>11. PICK f \in BOOLEAN : f = ~ok
  OBVIOUS
<1>12. SetServer(s, [srv[s] EXCEPT !.usable = FALSE, !.stopFailed = f, !.client = c])
  BY <1>7, <1>9, <1>11 DEF StoppedServer
<1>13. ~Lasts(srv[s])
  BY <1>7 DEF Lasts
<1> QED BY <1>7, <1>8, <1>10, <1>12, <1>13, StoppedKept

\* The owner that does not end is cancelled, or waited for once more.
LEMMA StopGoesOnKept ==
    ASSUME ServersInv, IsScope(scope), StopInterrupted \/ StopTimesOut
    PROVE  ServersInv' /\ Loses({})
<1>1. main \in MainSet /\ MainInv /\ main.at \in {"stopping", "stoppingAgain"} /\ UNCHANGED scope
      /\ main.stopCancelled \in BOOLEAN /\ main.interrupts \in Nat
  BY DEF ServersInv, MainInv, StopInterrupted, StopTimesOut, MainSet
<1>2. Loses({}) /\ scope.resources \subseteq scope'.resources
  BY <1>1, LosesNone
<1>3. ASSUME NEW at \in {"stoppingAgain", "reapingOwner"}, NEW n \in Nat, NEW v \in BOOLEAN,
             main' = [main EXCEPT !.at = at, !.interrupts = n, !.stopCancelled = v]
      PROVE  MainInv' /\ \A t : InHand(t) => InHand(t)'
  <2>1. /\ main' \in MainSet /\ main'.at = at /\ main'.s = main.s
        /\ main'.started = main.started /\ main'.stops = main.stops /\ main'.phase = main.phase
    BY <1>1, <1>3 DEF MainSet, Places
  <2>2. MainInv'
    BY <1>1, <2>1 DEF MainInv, AtStop
  <2> QED BY <1>1, <2>1, <2>2 DEF InHand
<1>4. CASE StopInterrupted
  <2>1. PICK n \in Nat : n = main.interrupts + 1
    BY <1>1
  <2>2. main' = [main EXCEPT !.at = "stoppingAgain", !.interrupts = n,
                             !.stopCancelled = main.stopCancelled]
    BY <1>1, <1>4, <2>1 DEF StopInterrupted, MainSet
  <2>3. MainInv' /\ \A t : InHand(t) => InHand(t)'
    BY <1>1, <1>3, <2>2
  <2> QED BY <1>2, <1>4, <2>3, ServersSame DEF StopInterrupted
<1>5. CASE StopTimesOut
  <2>1. PICK v \in BOOLEAN : v = (main.stopCancelled \/ main.at = "stoppingAgain")
    OBVIOUS
  <2>2. main' = [main EXCEPT !.at = "reapingOwner", !.interrupts = main.interrupts,
                             !.stopCancelled = v]
    BY <1>1, <1>5, <2>1 DEF StopTimesOut, MainSet
  <2>3. MainInv' /\ \A t : InHand(t) => InHand(t)'
    BY <1>1, <1>3, <2>2
  <2>4. PICK s : s = main.s
    OBVIOUS
  <2> DEFINE r == [srv[s] EXCEPT !.abandoned = TRUE, !.unclean = TRUE, !.cut = TRUE]
  <2>5. SetServer(s, r)
    BY <1>5, <2>4 DEF StopTimesOut
  <2>6. s \in Servers =>
           /\ r \in SrvSet /\ r.owner = srv[s].owner /\ r.proc = srv[s].proc
           /\ r.client = srv[s].client /\ r.lost = srv[s].lost
    <3>1. s \in Servers => srv[s] \in SrvSet
      BY DEF ServersInv
    <3> QED BY <3>1 DEF SrvSet
  <2> HIDE DEF r
  <2> QED BY <1>1, <2>3, <2>5, <2>6, AskedKept
<1> QED BY <1>4, <1>5

LEMMA OwnerReapedKept ==
    ASSUME ServersInv, IsScope(scope), OwnerReaped
    PROVE  ServersInv' /\ Loses({})
<1>1. main \in MainSet /\ MainInv /\ main.stops # <<>> /\ main.s = Head(main.stops)
  BY DEF ServersInv, MainInv, OwnerReaped
<1>2. PICK s : s = main.s
  OBVIOUS
<1>3. MainInv' /\ \A t : InHand(t) /\ t # s => InHand(t)'
  BY <1>1, <1>2, TakenOff DEF OwnerReaped
<1>4. scope' = IF srv[s].owner = "done" THEN MarkFailed(scope) ELSE Leave(scope, Owner(s))
  BY <1>2 DEF OwnerReaped
<1>5. s \in Servers /\ Lasts(srv[s]) => scope' = Leave(scope, Owner(s))
  BY <1>4 DEF Lasts
<1>6. SetServer(s, [srv[s] EXCEPT !.usable = FALSE, !.stopFailed = TRUE, !.client = "failed"])
  <2>1. SetServer(s, [StoppedServer(srv[s], FALSE) EXCEPT !.client = "failed"])
    BY <1>2 DEF OwnerReaped
  <2>2. CASE s \in Servers
    <3>1. srv[s] \in SrvSet
      BY <2>2 DEF ServersInv
    <3>2. [StoppedServer(srv[s], FALSE) EXCEPT !.client = "failed"] =
             [srv[s] EXCEPT !.usable = FALSE, !.stopFailed = TRUE, !.client = "failed"]
      BY <3>1 DEF StoppedServer, SrvSet
    <3> QED BY <2>1, <3>2
  <2>3. CASE s \notin Servers
    BY <2>1, <2>3 DEF SetServer, ServersInv
  <2> QED BY <2>2, <2>3
<1>7. "failed" \in Clients
  BY DEF Clients
<1> QED BY <1>3, <1>4, <1>5, <1>6, <1>7, StoppedKept

LEMMA StopsDoneKept ==
    ASSUME ServersInv, IsScope(scope), StopsDone
    PROVE  ServersInv' /\ Loses({})
<1>1. main \in MainSet /\ MainInv /\ main.at = "stops" /\ main.stops = <<>> /\ UNCHANGED srv
      /\ main.primary \in Primaries
  BY DEF ServersInv, MainInv, StopsDone, MainSet
<1>2. scope' \in {scope, MarkFailed(scope), BeginTermination(scope)}
  <2>1. main.phase \in {"isolate", "rollback", "final"}
    BY <1>1 DEF MainInv, AtStop, MainSet, Phases
  <2> QED BY <2>1 DEF StopsDone
<1>3. Loses({}) /\ scope.resources \subseteq scope'.resources
  BY <1>2, LosesNone
<1>4. CASE main.phase = "rollback" /\ Terminate(main, "cancelled")
  <2>1. MainInv' /\ \A t : InHand(t) => InHand(t)'
    BY <1>1, <1>4, TerminateKept DEF Primaries
  <2> QED BY <1>1, <1>3, <2>1, ServersSame
<1>5. CASE main.phase = "isolate" /\ main' = [main EXCEPT !.at = "starting", !.phase = "start"]
  <2>1. /\ main' \in MainSet /\ main'.at = "starting" /\ main'.phase = "start"
        /\ main'.started = main.started /\ main'.stops = main.stops
    BY <1>1, <1>5 DEF MainSet, Places, Phases
  <2>2. \A t : InHand(t) => InHand(t)'
    BY <1>1, <2>1 DEF InHand
  <2>3. MainInv'
    BY <1>1, <2>1, Onward
  <2> QED BY <1>1, <1>3, <2>2, <2>3, ServersSame
<1>6. CASE /\ main.phase = "final"
           /\ \E verdict \in Verdicts : main' = [main EXCEPT !.at = "returned", !.verdict = verdict]
  <2>1. /\ main' \in MainSet /\ main'.at = "returned" /\ main'.phase = "final"
        /\ main'.started = main.started /\ main'.stops = main.stops
    BY <1>1, <1>6 DEF MainSet, Places
  <2>2. \A t : InHand(t) => InHand(t)'
    BY <1>1, <2>1 DEF InHand
  <2>3. MainInv'
    BY <1>1, <1>6, <2>1 DEF MainInv, AtStop
  <2> QED BY <1>1, <1>3, <2>2, <2>3, ServersSame
<1>7. main.phase = "final" =>
         \E verdict \in Verdicts : main' = [main EXCEPT !.at = "returned", !.verdict = verdict]
  <2> SUFFICES ASSUME main.phase = "final"
               PROVE  \E verdict \in Verdicts :
                         main' = [main EXCEPT !.at = "returned", !.verdict = verdict]
    OBVIOUS
  <2> DEFINE verdict ==
          IF main.primary # "none" THEN main.primary
            ELSE IF main.stopCancelled THEN "cancelled"
            ELSE IF CleanupFailed(\E s \in Servers : srv[s].stopFailed, scope) THEN "cleanup failed" ELSE "ok"
  <2>1. main' = [main EXCEPT !.at = "returned", !.verdict = verdict]
    BY DEF StopsDone
  <2>2. verdict \in Verdicts
    BY <1>1 DEF Verdicts, Primaries
  <2> HIDE DEF verdict
  <2> QED BY <2>1, <2>2
<1>8. main.phase \in {"isolate", "rollback", "final"}
  BY <1>1 DEF MainInv, AtStop, MainSet, Phases
<1> QED BY <1>4, <1>5, <1>6, <1>7, <1>8 DEF StopsDone

-----------------------------------------------------------------------------
(***************************************************************************)
(* Together.  A layer's step leaves alone what the scope holds of the      *)
(* others.                                                                 *)
(***************************************************************************)
KeepsStreams == \A k : /\ Has(Connection(k)) => Has(Connection(k))'
                       /\ Has(Reading(k)) => Has(Reading(k))'
KeepsServers == \A s : /\ Has(Owner(s)) => Has(Owner(s))'
                       /\ Has(Transport(s)) => Has(Transport(s))'
                       /\ Has(Operation(s)) => Has(Operation(s))'
KeepsCommand == /\ Has(Worker) => Has(Worker)'
                /\ Has(Cache) => Has(Cache)'
                /\ Has(Process) => Has(Process)'

LEMMA Keeps ==
    /\ Loses({}) => KeepsStreams /\ KeepsServers /\ KeepsCommand
    /\ Loses(Streamed) => KeepsServers /\ KeepsCommand
    /\ Loses({Worker, Cache}) => KeepsStreams /\ KeepsServers
<1>1. \A s : /\ Owner(s) \notin Streamed /\ Transport(s) \notin Streamed
             /\ Operation(s) \notin Streamed
  BY DEF Streamed, Owner, Transport, Operation, Connection, Reading
<1>2. Worker \notin Streamed /\ Cache \notin Streamed /\ Process \notin Streamed
  BY DEF Streamed, Worker, Cache, Process, Connection, Reading
<1>3. \A s : /\ Owner(s) \notin {Worker, Cache} /\ Transport(s) \notin {Worker, Cache}
             /\ Operation(s) \notin {Worker, Cache}
  BY DEF Worker, Cache, Owner, Transport, Operation
<1>4. \A k : Connection(k) \notin {Worker, Cache} /\ Reading(k) \notin {Worker, Cache}
  BY DEF Worker, Cache, Connection, Reading
<1>5. ASSUME Loses({}) PROVE KeepsStreams /\ KeepsServers /\ KeepsCommand
  BY <1>5 DEF Loses, KeepsStreams, KeepsServers, KeepsCommand, Has
<1>6. ASSUME Loses(Streamed) PROVE KeepsServers /\ KeepsCommand
  BY <1>1, <1>2, <1>6 DEF Loses, KeepsServers, KeepsCommand, Has
<1>7. ASSUME Loses({Worker, Cache}) PROVE KeepsStreams /\ KeepsServers
  BY <1>3, <1>4, <1>7 DEF Loses, KeepsStreams, KeepsServers, Has
<1> QED BY <1>5, <1>6, <1>7

LEMMA StreamElse == StreamKept /\ KeepsStreams /\ UNCHANGED streamVars => StreamKept'
BY DEF StreamKept, KeepsStreams, streamVars, Conns, Alive

LEMMA CommandElse ==
    CommandKept /\ KeepsCommand /\ UNCHANGED <<commandVars, plan>> => CommandKept'
BY DEF CommandKept, KeepsCommand, commandVars, jobVars, Working, ProcDone, TreeOver

LEMMA ServersElse ==
    ASSUME ServersInv, KeepsServers, UNCHANGED srv, MainInv', \A s : InHand(s) => InHand(s)'
    PROVE  ServersInv'
BY DEF ServersInv, ServerKept, KeepsServers

(***************************************************************************)
(* The task does one thing at a time: while it asks the model its          *)
(* operation runs, while a command's thread works the operation waits for  *)
(* it or is over.  And what it reported stays true.                        *)
(***************************************************************************)
Busy ==
    /\ request.at # "idle" => main.at = "body"
    /\ Working => main.at = "running" \/ main.phase = "final"

Reported ==
    main.at = "returned" /\ main.verdict = "ok" => scope.resources = {} /\ ~scope.failed

KeptInv == IsScope(scope) /\ StreamKept /\ CommandKept /\ ServersInv /\ Busy /\ Reported

LEMMA Quiet ==
    ASSUME MainInv, Busy, main.at \in {"body", "starting"} PROVE ~Working
BY NotYetStopping DEF Busy

\* A task that returned has no server in hand.
LEMMA OutOfHand == MainInv /\ main.at = "returned" => \A s : ~InHand(s)
BY InFew DEF MainInv, InHand, AtStop

-----------------------------------------------------------------------------
(* The steps of the connections and the request. *)

LEMMA StreamStepKept ==
    ASSUME StreamInv, StreamInv', Grown, StreamKept, IsScope(scope), StreamStep \/ BeginRequest
    PROVE  StreamKept' /\ Loses(Streamed)
<1>1. ASSUME NEW k \in Conns, \/ Connect(k) \/ Read(k) \/ CloseResponse(k)
                              \/ PendingReadEnds(k) \/ DroppedIsClosed(k)
      PROVE  StreamKept' /\ Loses(Streamed)
  BY <1>1, StreamKeptConns
<1>2. CASE Attempt
  BY <1>2, StreamKeptAttempt
<1>3. CASE BeginRequest \/ GiveUpReading \/ TakeChunk \/ GiveUpLeaving \/ RetryOrReturn
  BY <1>3, StreamKeptRequest
<1>4. CASE ConnectionEnds \/ LeavingTimesOut
  BY <1>4, StreamKeptLeaving
<1> QED BY <1>1, <1>2, <1>3, <1>4 DEF StreamStep

\* Where nobody makes a request and nothing is held, nothing is done to the scope.
LEMMA StreamStepQuiet ==
    ASSUME StreamKept, StreamInv, StreamStep, request.at = "idle"
    PROVE  UNCHANGED request /\ (scope.resources = {} => UNCHANGED scope)
<1>1. ~Attempt /\ ~GiveUpReading /\ ~ConnectionEnds /\ ~LeavingTimesOut
      /\ ~GiveUpLeaving /\ ~RetryOrReturn /\ ~TakeChunk
  BY DEF Attempt, GiveUpReading, TakeChunk, ConnectionEnds, LeavingTimesOut, GiveUpLeaving,
     LeavingGivenUp, RetryOrReturn
<1>2. PICK k \in Conns : \/ Connect(k) \/ Read(k) \/ CloseResponse(k)
                         \/ PendingReadEnds(k) \/ DroppedIsClosed(k)
  BY <1>1 DEF StreamStep
<1>3. UNCHANGED request
  BY <1>2 DEF Connect, Read, CloseResponse, PendingReadEnds, DroppedIsClosed
<1>4. CASE Connect(k) \/ Read(k) \/ CloseResponse(k)
  BY <1>3, <1>4 DEF Connect, Read, CloseResponse
<1>5. CASE PendingReadEnds(k)
  BY <1>3, <1>5 DEF PendingReadEnds, StreamKept, Has
<1>6. CASE DroppedIsClosed(k)
  BY <1>3, <1>6 DEF DroppedIsClosed, StreamKept, Has
<1> QED BY <1>2, <1>4, <1>5, <1>6

LEMMA KeptStreams ==
    ASSUME StreamInv, StreamInv', Grown, KeptInv, UNCHANGED <<plan, mcpVars, commandVars>>,
           StreamStep \/ (BeginRequest /\ InBody)
    PROVE  KeptInv'
<1>1. StreamKept' /\ Loses(Streamed)
  BY StreamStepKept DEF KeptInv
<1>2. IsScope(scope') /\ KeepsServers /\ KeepsCommand
  BY <1>1, Keeps DEF Loses
<1>3. CommandKept' /\ (Working' <=> Working)
  BY <1>2, CommandElse DEF KeptInv, Working, commandVars
<1>4. ServersInv'
  BY <1>2, MainStays, ServersElse DEF KeptInv, mcpVars
<1>5. Busy'
  <2>1. request.at # "idle" \/ main.at = "body" \/ UNCHANGED request
    BY StreamStepQuiet DEF InBody, KeptInv
  <2> QED BY <1>3, <2>1 DEF Busy, KeptInv, mcpVars
<1>6. Reported'
  <2>1. CASE main.at = "returned" /\ main.verdict = "ok"
    <3>1. request.at = "idle" /\ scope.resources = {} /\ StreamStep
      BY <2>1 DEF KeptInv, Busy, Reported, InBody
    <3>2. UNCHANGED scope
      BY <3>1, StreamStepQuiet DEF KeptInv
    <3> QED BY <3>2 DEF KeptInv, Reported, mcpVars
  <2> QED BY <2>1 DEF Reported, mcpVars
<1> QED BY <1>1, <1>2, <1>3, <1>4, <1>5, <1>6 DEF KeptInv

-----------------------------------------------------------------------------
(* The steps of the command's thread, and of what it waits for. *)

LEMMA ThreadWorks == ThreadStep => Working
BY DEF ThreadStep, Working, ThreadBegins, Prepare, Approve, Launch, Resume, Watch, Finish, ListMembers,
   KillTree, EndObserver, CloseJob, Reap, Join, RemoveCache, CacheRemoved, Observed

LEMMA SystemKeepsAt == ASSUME CommandTypes, SystemStep PROVE cmd'.at = cmd.at
<1>1. CASE Exceed
  BY <1>1 DEF Exceed, CommandTypes, CmdSet
<1>2. CASE ReadersEnd
  BY <1>2 DEF ReadersEnd, CommandTypes, CmdSet
<1>3. CASE DeleteEnds
  BY <1>3 DEF DeleteEnds, CommandTypes, CmdSet
<1> QED BY <1>1, <1>2, <1>3 DEF SystemStep

LEMMA KeptRuns ==
    ASSUME CommandInv, KeptInv, UNCHANGED <<plan, mcpVars, streamVars>>,
           ThreadStep \/ SystemStep
    PROVE  KeptInv'
<1>1. CommandKept' /\ Loses({Worker, Cache})
  <2>1. CASE ThreadStep
    BY <2>1, CommandKeptThread DEF KeptInv, CommandInv
  <2>2. CASE SystemStep
    <3>1. CommandKept' /\ UNCHANGED scope
      BY <2>2, CommandKeptSystem DEF KeptInv, CommandInv
    <3> QED BY <3>1, LosesNone DEF KeptInv
  <2> QED BY <2>1, <2>2
<1>2. IsScope(scope') /\ KeepsServers /\ KeepsStreams
  BY <1>1, Keeps DEF Loses
<1>3. StreamKept'
  BY <1>2, StreamElse DEF KeptInv
<1>4. ServersInv'
  BY <1>2, MainStays, ServersElse DEF KeptInv, mcpVars
<1>5. Working' => Working
  BY ThreadWorks, SystemKeepsAt DEF Working, CommandInv
<1>6. Busy'
  BY <1>5 DEF Busy, KeptInv, mcpVars, streamVars
<1>7. Reported'
  <2>1. CASE main.at = "returned" /\ main.verdict = "ok"
    <3>1. ~ThreadStep
      BY <2>1, ThreadWorks DEF KeptInv, Reported, CommandKept, Has
    <3>2. UNCHANGED scope
      BY <3>1, CommandKeptSystem DEF KeptInv, CommandInv
    <3> QED BY <3>2 DEF KeptInv, Reported, mcpVars
  <2> QED BY <2>1 DEF Reported, mcpVars
<1> QED BY <1>1, <1>2, <1>3, <1>4, <1>6, <1>7 DEF KeptInv

-----------------------------------------------------------------------------
(* The steps of the coroutine and of the servers. *)

LEMMA McpStepKept ==
    ASSUME ServersInv, IsScope(scope),
           MainStep \/ \E s \in Servers : Call(s) \/ ServerStep(s)
    PROVE  ServersInv' /\ Loses({})
<1>1. CASE StartNext \/ StartIsReady \/ StartEnded \/ StartGivenUp \/ AbortEnds
           \/ AbortInterrupted
  BY <1>1, StartNextKept, StartIsReadyKept, StartEndedKept, StartGivenUpKept, AbortEndsKept,
     AbortInterruptedKept
<1>2. CASE RequestGivenUp \/ RequestReaped \/ RequestLost
  BY <1>2, RequestGivenUpKept, RequestReapedKept, RequestLostKept
<1>3. CASE StopOne \/ OwnerStopped \/ StopInterrupted \/ StopTimesOut \/ OwnerReaped \/ StopsDone
  BY <1>3, StopOneKept, OwnerStoppedKept, StopGoesOnKept, OwnerReapedKept, StopsDoneKept
<1>4. ASSUME NEW s \in Servers, Call(s) PROVE ServersInv' /\ Loses({})
  BY <1>4, CallKept
<1>5. ASSUME NEW s \in Servers, ServerStep(s) PROVE ServersInv' /\ Loses({})
  BY <1>5, ServesKept, AnsweredKept DEF ServerStep
<1> QED BY <1>1, <1>2, <1>3, <1>4, <1>5 DEF MainStep

\* Where the coroutine goes.
LEMMA MainGoes ==
    ASSUME MainInv, MainStep \/ \E s \in Servers : ServerStep(s)
    PROVE  /\ main.at \in {"body", "running", "returned"} => UNCHANGED main
           /\ main.at = "returned" => \E s \in Servers : OwnerStep(s) \/ LostRequestEnds(s)
           /\ main.phase = "final" => main'.phase = "final"
           /\ main'.at = "returned" => main.at = "returned" \/ StopsDone
<1>1. main \in MainSet /\ main.s \in Nat /\ (main.phase = "final" => AtStop \/ main.at = "returned")
  BY DEF MainInv, MainSet
<1> DEFINE Goal == /\ main.at \in {"body", "running", "returned"} => UNCHANGED main
                   /\ main.at = "returned" => \E s \in Servers : OwnerStep(s) \/ LostRequestEnds(s)
                   /\ main.phase = "final" => main'.phase = "final"
                   /\ main'.at = "returned" => main.at = "returned" \/ StopsDone
<1>2. ASSUME NEW s \in Servers, OwnerStep(s) \/ LostRequestEnds(s) PROVE Goal
  <2>1. UNCHANGED main
    BY <1>2 DEF OwnerStep, Enter, Initialize, Serve, ShutDown, LostRequestEnds
  <2> QED BY <1>2, <2>1
\* Until it stops there is no final phase.
<1>3. ASSUME main.at \in {"starting", "awaiting", "aborting", "asking", "reaping"},
             main'.at # "returned"
      PROVE  Goal
  BY <1>1, <1>3 DEF AtStop
<1>4. StartFails(main.s) \/ StartIsCancelled(<<main.s>>) \/ StartIsCancelled(<<>>)
         => main'.at = "stops"
  BY <1>1, InFew, FailsFields, CancelledFields
<1>5. \A m, p : m \in MainSet /\ p \in Primaries /\ Terminate(m, p) => main'.at = "stops"
  BY TerminateFields
<1>6. CASE StartNext
  <2>1. main'.at \in {"stops", "body", "starting", "awaiting"}
    BY <1>1, <1>4, <1>6 DEF StartNext, MainSet
  <2> QED BY <1>3, <1>6, <2>1 DEF StartNext
<1>7. CASE StartIsReady \/ StartEnded \/ StartGivenUp
  <2>1. main'.at \in {"stops", "asking", "aborting"}
    BY <1>1, <1>4, <1>7 DEF StartIsReady, StartEnded, StartGivenUp, AbortStart, Ask, MainSet
  <2> QED BY <1>3, <1>7, <2>1 DEF StartIsReady, StartEnded, StartGivenUp
<1>8. CASE AbortEnds \/ AbortInterrupted
  <2>1. main'.at = "stops"
    BY <1>1, <1>4, <1>8 DEF AbortEnds, AfterAbort, AbortInterrupted, MainSet
  <2> QED BY <1>3, <1>8, <2>1 DEF AbortEnds, AbortInterrupted
<1>9. ASSUME NEW result \in {"ok", "failed", "cancelled"}, AfterRequest(main.s, result)
      PROVE  main'.at # "returned"
  <2>1. "cancelled" \in Primaries
    BY DEF Primaries
  <2>2. \/ main' = [main EXCEPT !.at = "starting", !.started = Append(@, main.s)]
        \/ StartFails(main.s) \/ StartIsCancelled(<<main.s>>)
        \/ Terminate(main, "cancelled") \/ main' = [main EXCEPT !.at = "body", !.error = "none"]
    BY <1>9 DEF AfterRequest
  <2> QED BY <1>1, <1>4, <1>5, <2>1, <2>2 DEF MainSet
<1>10. ASSUME NEW s \in Servers, Answered(s) PROVE Goal
  <2>1. main'.at # "returned"
    BY <1>9, <1>10 DEF Answered
  <2> QED BY <1>3, <1>10, <2>1 DEF Answered
<1>11. CASE RequestGivenUp
  <2>1. main'.at = "reaping"
    BY <1>1, <1>11 DEF RequestGivenUp, MainSet
  <2> QED BY <1>3, <1>11, <2>1 DEF RequestGivenUp
<1>12. CASE RequestReaped
  <2>1. main'.at # "returned"
    BY <1>9, <1>12 DEF RequestReaped, ReapResult
  <2> QED BY <1>3, <1>12, <2>1 DEF RequestReaped
<1>13. CASE RequestLost
  <2>1. "cancelled" \in Primaries /\ "none" \in Primaries
    BY DEF Primaries
  <2>0. PICK n \in Nat : n = main.interrupts + 1
    BY <1>1 DEF MainSet
  <2> DEFINE m == [main EXCEPT !.interrupts = n]
  <2>2. m \in MainSet
    BY <1>1 DEF MainSet
  <2>3. \/ Terminate(main, "none") \/ AfterRequest(main.s, ReapResult) \/ Terminate(m, "cancelled")
        \/ main' = [m EXCEPT !.at = "stops", !.phase = "rollback", !.error = "none",
                             !.primary = "cancelled",
                             !.stops = <<main.s>> \o Reverse(m.started), !.started = <<>>]
    BY <1>13, <2>0 DEF RequestLost
  <2> HIDE DEF m
  <2>4. main'.at # "returned"
    BY <1>1, <1>5, <1>9, <2>1, <2>2, <2>3 DEF ReapResult, MainSet
  <2> QED BY <1>3, <1>13, <2>4 DEF RequestLost
<1>14. CASE StopsDone
  <2>1. main.at = "stops"
    BY <1>14 DEF StopsDone
  <2>2. main.phase = "final" => main'.phase = "final"
    <3> SUFFICES ASSUME main.phase = "final" PROVE main'.phase = "final"
      OBVIOUS
    <3>1. \E verdict : main' = [main EXCEPT !.at = "returned", !.verdict = verdict]
      BY <1>14 DEF StopsDone
    <3> QED BY <1>1, <3>1 DEF MainSet
  <2> QED BY <1>14, <2>1, <2>2
\* Stopping one after the other leaves the phase as it is.
<1>15. ASSUME NEW m \in MainSet, m.phase = main.phase, m.stops = main.stops, main.stops # <<>>,
              NEW s \in Nat, NEW ok \in BOOLEAN, NextStop(m, s, ok)
       PROVE  main'.phase = main.phase /\ main'.at = "stops"
  BY <1>15, NextStopFields
<1>16. CASE StopOne
  <2>1. main.at = "stops" /\ main.stops # <<>> /\ Head(main.stops) \in Nat
    <3>1. main.stops \in Seq(Nat) /\ main.stops # <<>>
      BY <1>1, <1>16 DEF StopOne, MainSet
    <3> QED BY <1>16, <3>1, InTail DEF StopOne
  <2>2. PICK s \in Nat : s = Head(main.stops)
    BY <2>1
  <2>3. \/ \E ok \in BOOLEAN : NextStop(main, s, ok)
        \/ main' = [main EXCEPT !.at = "stopping", !.s = s]
    BY <1>16, <2>2 DEF StopOne
  <2>4. main'.phase = main.phase /\ main'.at # "returned"
    BY <1>1, <1>15, <2>1, <2>3 DEF MainSet
  <2> QED BY <2>1, <2>4
<1>17. CASE StopInterrupted \/ StopTimesOut
  <2>1. main.at \in {"stopping", "stoppingAgain"} /\ main'.phase = main.phase
        /\ main'.at \in {"stoppingAgain", "reapingOwner"}
    BY <1>1, <1>17 DEF StopInterrupted, StopTimesOut, MainSet
  <2> QED BY <2>1
<1>18. CASE OwnerReaped \/ OwnerStopped
  <2>1. main.at \in {"stopping", "stoppingAgain", "reapingOwner"} /\ main.stops # <<>>
    BY <1>18 DEF OwnerReaped, OwnerStopped, MainInv
  <2>2. \E ok \in BOOLEAN, v \in BOOLEAN :
           NextStop([main EXCEPT !.stopCancelled = v], main.s, ok)
    <3>1. CASE OwnerReaped
      <4>1. main = [main EXCEPT !.stopCancelled = main.stopCancelled]
            /\ main.stopCancelled \in BOOLEAN
        BY <1>1 DEF MainSet
      <4> QED BY <3>1, <4>1 DEF OwnerReaped
    <3>2. CASE OwnerStopped
      <4> DEFINE hit == main.at = "stoppingAgain" \/ (srv[main.s].announced /\ srv[main.s].cut)
                 ok == IF hit THEN srv[main.s].client = "stopped"
                       ELSE ~(srv[main.s].announced /\ srv[main.s].unclean)
                 v == main.stopCancelled \/ hit
      <4>1. NextStop([main EXCEPT !.stopCancelled = v], main.s, ok)
        BY <3>2 DEF OwnerStopped
      <4>2. ok \in BOOLEAN /\ v \in BOOLEAN
        OBVIOUS
      <4> HIDE DEF ok, v
      <4> QED BY <4>1, <4>2
    <3> QED BY <1>18, <3>1, <3>2
  <2>3. PICK ok \in BOOLEAN, v \in BOOLEAN :
           NextStop([main EXCEPT !.stopCancelled = v], main.s, ok)
    BY <2>2
  <2> DEFINE m == [main EXCEPT !.stopCancelled = v]
  <2>4. m \in MainSet /\ m.phase = main.phase /\ m.stops = main.stops
    BY <1>1 DEF MainSet
  <2> HIDE DEF m
  <2>5. main'.phase = main.phase /\ main'.at = "stops"
    BY <1>1, <1>15, <2>1, <2>3, <2>4 DEF m
  <2> QED BY <2>1, <2>5
<1> QED BY <1>2, <1>6, <1>7, <1>8, <1>10, <1>11, <1>12, <1>13, <1>14, <1>16, <1>17, <1>18
       DEF MainStep, ServerStep

\* What the task reports is what is left.
LEMMA StopsDoneReports ==
    ASSUME MainInv, StopsDone, main'.at = "returned", main'.verdict = "ok", IsScope(scope)
    PROVE  scope'.resources = {} /\ ~scope'.failed
<1>1. main \in MainSet /\ main.stops = <<>> /\ main.at = "stops"
  BY DEF MainInv, StopsDone
<1>2. main.phase = "final"
  <2>1. main.phase \in {"isolate", "rollback", "final"}
    BY <1>1 DEF MainInv, AtStop, MainSet, Phases
  <2>2. main.phase = "isolate" => main'.at = "starting"
    BY <1>1 DEF StopsDone, MainSet
  <2>3. main.phase = "rollback" => main'.at = "stops"
    BY <1>1, TerminateFields DEF StopsDone, Primaries
  <2> QED BY <2>1, <2>2, <2>3
<1> DEFINE stuck == \E s \in Servers : srv[s].stopFailed
           verdict == IF main.primary # "none" THEN main.primary
                        ELSE IF main.stopCancelled THEN "cancelled"
                        ELSE IF CleanupFailed(stuck, scope) THEN "cleanup failed" ELSE "ok"
<1>3. /\ main' = [main EXCEPT !.at = "returned", !.verdict = verdict]
      /\ scope' = IF stuck \/ main.stopCancelled \/ HasPending(scope)
                  THEN MarkFailed(scope) ELSE scope
  BY <1>2 DEF StopsDone
<1>4. verdict = "ok"
  BY <1>1, <1>3 DEF MainSet
<1>5. ~main.stopCancelled /\ ~CleanupFailed(stuck, scope)
  BY <1>1, <1>4 DEF MainSet, Primaries
<1>6. ~stuck /\ ~scope.failed /\ ~HasPending(scope)
  BY <1>5 DEF CleanupFailed
<1> QED BY <1>3, <1>5, <1>6 DEF HasPending

LEMMA KeptServers ==
    ASSUME KeptInv, UNCHANGED <<plan, commandVars, streamVars>>,
           \/ MainStep \/ \E s \in Servers : ServerStep(s)
           \/ InBody /\ \E s \in Servers : Call(s)
    PROVE  KeptInv'
<1>1. ServersInv' /\ Loses({})
  BY McpStepKept DEF KeptInv
<1>2. IsScope(scope') /\ KeepsStreams /\ KeepsCommand
  BY <1>1, Keeps DEF Loses
<1>3. StreamKept' /\ CommandKept' /\ (Working' <=> Working)
  BY <1>2, StreamElse, CommandElse DEF KeptInv, Working, commandVars
<1>4. MainInv /\ main \in MainSet
  BY DEF KeptInv, ServersInv, MainInv
<1>5. CASE InBody /\ \E s \in Servers : Call(s)
  <2>1. main'.at = "asking" /\ request.at = "idle" /\ ~Working
    BY <1>4, <1>5, Quiet DEF InBody, Call, MainSet, KeptInv
  <2> QED BY <1>1, <1>2, <1>3, <2>1 DEF KeptInv, Busy, Reported, streamVars
<1>6. CASE MainStep \/ \E s \in Servers : ServerStep(s)
  <2>1. Busy'
    BY <1>3, <1>4, <1>6, MainGoes DEF Busy, KeptInv, streamVars
  <2>2. Reported'
    <3> SUFFICES ASSUME main'.at = "returned", main'.verdict = "ok"
                 PROVE  scope'.resources = {} /\ ~scope'.failed
      BY DEF Reported
    <3>1. CASE main.at = "returned"
      <4>1. UNCHANGED main /\ scope.resources = {} /\ ~scope.failed
        BY <1>4, <1>6, <3>1, MainGoes DEF KeptInv, Reported
      <4>2. PICK s \in Servers : OwnerStep(s) \/ LostRequestEnds(s)
        BY <1>4, <1>6, <3>1, MainGoes
      <4>3. ~Lasts(srv[s])
        BY <1>4, <3>1, <4>1, OutOfHand DEF KeptInv, ServersInv, ServerKept, Has
      <4>4. LostRequestEnds(s)
        BY <4>2, <4>3 DEF OwnerStep, Enter, Initialize, Serve, ShutDown, Lasts
      <4> QED BY <4>1, <4>4 DEF LostRequestEnds
    <3>2. CASE StopsDone
      BY <1>4, <3>2, StopsDoneReports DEF KeptInv
    <3> QED BY <1>4, <1>6, <3>1, <3>2, MainGoes
  <2> QED BY <1>1, <1>2, <1>3, <2>1, <2>2 DEF KeptInv
<1> QED BY <1>5, <1>6

-----------------------------------------------------------------------------
(* The task's own steps. *)

\* The operation ends, where it was or at its command, and what it began is stopped.
LEMMA KeptEnds ==
    ASSUME KeptInv, UNCHANGED <<plan, commandVars, streamVars>>, request.at = "idle", ~Working,
           main.at \in {"body", "running"},
           \/ \E p \in Primaries : BodyEnds(p)
           \/ main' = [main EXCEPT !.at = "body"] /\ UNCHANGED <<scope, srv>>
    PROVE  KeptInv'
<1>1. MainInv /\ main \in MainSet /\ UNCHANGED srv
  BY DEF KeptInv, ServersInv, MainInv, BodyEnds
<1>2. main.stops = <<>> /\ main.phase # "final"
  BY <1>1, NotYetStopping
<1>3. Loses({})
  <2>1. scope' \in {scope, BeginTermination(scope)}
    BY DEF BodyEnds
  <2> QED BY <2>1, LosesNone DEF KeptInv
<1>4. /\ MainInv' /\ main'.at \in {"stops", "body"}
      /\ \A t : InHand(t) => InHand(t)'
  <2>1. ASSUME NEW p \in Primaries, BodyEnds(p)
        PROVE  MainInv' /\ main'.at = "stops" /\ \A t : InHand(t) => InHand(t)'
    BY <1>1, <1>2, <2>1, TerminateFields, TerminateKept DEF BodyEnds
  <2>2. CASE main' = [main EXCEPT !.at = "body"]
    <3>1. /\ main' \in MainSet /\ main'.at = "body" /\ main'.phase = main.phase
          /\ main'.stops = main.stops /\ main'.started = main.started
      BY <1>1, <2>2 DEF MainSet, Places
    <3> QED BY <1>2, <3>1, Onward DEF InHand
  <2> QED BY <2>1, <2>2
<1>5. IsScope(scope') /\ KeepsStreams /\ KeepsCommand /\ KeepsServers
  BY <1>3, Keeps DEF Loses
<1>6. StreamKept' /\ CommandKept' /\ ServersInv' /\ ~Working'
  BY <1>1, <1>4, <1>5, StreamElse, CommandElse, ServersElse DEF KeptInv, Working, commandVars
<1> QED BY <1>4, <1>5, <1>6 DEF KeptInv, Busy, Reported, streamVars

\* A command that is not given a thread leaves what there was; one that is finds
\* nothing left.
LEMMA KeptSubmits ==
    ASSUME CommandInv, KeptInv, UNCHANGED <<plan, streamVars, srv>>, InBody,
           NEW kind \in Kinds, Submit(kind), main' = [main EXCEPT !.at = "running"]
    PROVE  KeptInv'
<1>1. MainInv /\ main \in MainSet /\ main.at = "body" /\ request.at = "idle"
  BY DEF KeptInv, ServersInv, MainInv, InBody
<1>2. main.stops = <<>> /\ main.phase # "final"
  BY <1>1, NotYetStopping
<1>3. cmd.at \in {"idle", "ended"} /\ cmd \in CmdSet
  BY <1>1, Quiet DEF KeptInv, Working, CommandInv, CommandTypes
<1>4. /\ main' \in MainSet /\ main'.at = "running" /\ main'.phase = main.phase
      /\ main'.stops = main.stops /\ main'.started = main.started
  BY <1>1 DEF MainSet, Places
<1>5. MainInv' /\ \A t : InHand(t) => InHand(t)'
  BY <1>1, <1>2, <1>4, Onward DEF InHand
<1>6. Loses({})
  <2>1. scope' \in {scope, Retain(scope, Worker)}
    BY DEF Submit
  <2> QED BY <2>1, LosesNone DEF KeptInv
<1>7. IsScope(scope') /\ KeepsStreams /\ KeepsServers
  BY <1>6, Keeps DEF Loses
<1>8. StreamKept' /\ ServersInv'
  BY <1>5, <1>7, StreamElse, ServersElse DEF KeptInv
<1>9. /\ NoCommand \in CmdSet /\ NoCommand.cache = "none" /\ ~NoCommand.again
      /\ NoCommand.readers = "none"
  BY DEF NoCommand, CmdSet, Kinds, Steps, Reasons, Results
<1> HIDE DEF NoCommand
<1>10. CommandKept'
  <2>1. CASE /\ cmd' = [NoCommand EXCEPT !.at = "ended", !.result = "stop"]
             /\ UNCHANGED <<scope, tree, job>>
    <3>1. /\ cmd'.at = "ended" /\ cmd'.cache = "none" /\ ~cmd'.again /\ cmd'.readers = "none"
      BY <1>9, <2>1 DEF CmdSet
    <3>2. tree.root = "none" \/ ProcDone
      BY <1>3 DEF CommandInv, JobInv, Early, NoTree, ProcDone
    <3>3. TreeOver <=> TreeOver'
      BY <2>1 DEF TreeOver
    <3> QED BY <2>1, <3>1, <3>2, <3>3 DEF CommandKept, KeptInv, Has, Working
  <2>2. CASE /\ cmd' = [NoCommand EXCEPT !.kind = kind, !.at = "queued"]
             /\ scope' = Retain(scope, Worker)
    <3>1. /\ cmd'.at = "queued" /\ cmd'.cache = "none" /\ ~cmd'.again
      BY <1>9, <2>2 DEF CmdSet
    <3>2. Has(Worker)'
      BY <2>2, ScopeOps DEF KeptInv, Has
    <3> QED BY <3>1, <3>2 DEF CommandKept, ProcDone
  <2> QED BY <2>1, <2>2 DEF Submit, jobVars
<1> QED BY <1>1, <1>4, <1>7, <1>8, <1>10 DEF KeptInv, Busy, Reported, streamVars

LEMMA KeptInterrupt ==
    ASSUME StreamInv, StreamInv', Grown, KeptInv, UNCHANGED plan, OperationInterrupted
    PROVE  KeptInv'
<1>1. MainInv /\ main \in MainSet /\ main.at = "body" /\ UNCHANGED <<srv, commandVars>>
      /\ request \in RequestSet
  BY DEF KeptInv, ServersInv, MainInv, OperationInterrupted, StreamInv, RequestInv
<1>2. main.stops = <<>> /\ main.phase # "final" /\ ~Working
  BY <1>1, NotYetStopping, Quiet DEF KeptInv
<1>3. PICK n \in Nat : n = main.interrupts + 1
  BY <1>1 DEF MainSet
<1> DEFINE m == [main EXCEPT !.interrupts = n]
<1>4. /\ m \in MainSet /\ m.at = main.at /\ m.phase = main.phase /\ m.started = main.started
      /\ m.stops = main.stops
  BY <1>1 DEF MainSet
<1>5. \/ /\ Terminate(m, "cancelled") /\ scope' = BeginTermination(scope)
         /\ request' = [request EXCEPT !.at = "idle", !.outcome = "cancelled"]
         /\ UNCHANGED <<conns, owners, closing>>
      \/ RequestInterrupted /\ main' = m
  BY <1>3 DEF OperationInterrupted
<1> HIDE DEF m
<1>6. CASE /\ Terminate(m, "cancelled") /\ scope' = BeginTermination(scope)
           /\ request' = [request EXCEPT !.at = "idle", !.outcome = "cancelled"]
           /\ UNCHANGED <<conns, owners, closing>>
  <2>1. request'.at = "idle"
    BY <1>1, <1>6 DEF RequestSet
  <2>2. Loses({}) /\ scope.resources \subseteq scope'.resources
    BY <1>6, LosesNone DEF KeptInv
  <2>3. StreamKept'
    BY <1>6, <2>1, <2>2, StreamKeptSame DEF KeptInv, Conns
  <2>4. IsScope(scope') /\ KeepsServers /\ KeepsCommand
    BY <2>2, Keeps DEF Loses
  <2>5. MainInv' /\ main'.at = "stops" /\ \A t : InHand(t) => InHand(t)'
    <3>1. "cancelled" \in Primaries
      BY DEF Primaries
    <3> QED BY <1>1, <1>2, <1>4, <1>6, <3>1, TerminateFields, TerminateKept
  <2>6. ServersInv' /\ CommandKept' /\ ~Working'
    BY <1>1, <1>2, <2>4, <2>5, ServersElse, CommandElse DEF KeptInv, Working, commandVars
  <2> QED BY <2>1, <2>3, <2>4, <2>5, <2>6 DEF KeptInv, Busy, Reported
<1>7. CASE RequestInterrupted /\ main' = m
  <2>1. StreamKept' /\ Loses(Streamed)
    BY <1>7, StreamKeptLeaving DEF KeptInv
  <2>2. IsScope(scope') /\ KeepsServers /\ KeepsCommand
    BY <2>1, Keeps DEF Loses
  <2>3. MainInv' /\ \A t : InHand(t) => InHand(t)'
    BY <1>1, <1>2, <1>4, <1>7, Onward DEF InHand
  <2>4. ServersInv' /\ CommandKept' /\ ~Working'
    BY <1>1, <1>2, <2>2, <2>3, ServersElse, CommandElse DEF KeptInv, Working, commandVars
  <2> QED BY <1>1, <1>4, <1>7, <2>1, <2>2, <2>4 DEF KeptInv, Busy, Reported
<1> QED BY <1>5, <1>6, <1>7

LEMMA KeptLeft ==
    ASSUME CommandInv, KeptInv, UNCHANGED plan, CommandInterrupted
    PROVE  KeptInv'
<1>1. MainInv /\ main \in MainSet /\ main.at = "running" /\ UNCHANGED <<srv, streamVars, jobVars>>
      /\ cmd \in CmdSet
  BY DEF KeptInv, ServersInv, MainInv, CommandInterrupted, CommandInv, CommandTypes
<1>2. main.stops = <<>> /\ request.at = "idle"
  BY <1>1, NotYetStopping DEF KeptInv, Busy
<1>3. PICK n \in Nat : n = main.interrupts + 1
  BY <1>1 DEF MainSet
<1> DEFINE m == [main EXCEPT !.interrupts = n]
<1>4. m \in MainSet /\ m.started = main.started
  BY <1>1 DEF MainSet
<1>5. Terminate(m, "cancelled")
  BY <1>3 DEF CommandInterrupted
<1> HIDE DEF m
<1>6. MainInv' /\ main'.at = "stops" /\ main'.phase = "final" /\ \A t : InHand(t) => InHand(t)'
  <2>1. "cancelled" \in Primaries
    BY DEF Primaries
  <2> QED BY <1>1, <1>2, <1>4, <1>5, <2>1, TerminateFields, TerminateKept
<1>7. Loses({})
  <2>1. IsScope(BeginTermination(scope)) /\ BeginTermination(scope).resources = scope.resources
    BY ScopeOps DEF KeptInv
  <2>2. IsScope(scope') /\ scope'.resources = scope.resources
    BY <2>1, ScopeOps DEF CommandInterrupted
  <2> QED BY <2>2 DEF Loses
<1>8. IsScope(scope') /\ KeepsServers /\ KeepsCommand /\ KeepsStreams
  BY <1>7, Keeps DEF Loses
<1>9. /\ cmd'.at = cmd.at /\ cmd'.cache = cmd.cache /\ cmd'.readers = cmd.readers
      /\ cmd'.again = cmd.again
  BY <1>1 DEF CommandInterrupted, CmdSet
<1>10. CommandKept'
  <2>1. (TreeOver <=> TreeOver') /\ UNCHANGED tree
    BY <1>1 DEF TreeOver, jobVars
  <2> QED BY <1>8, <1>9, <2>1 DEF CommandKept, KeepsCommand, KeptInv, Working, ProcDone
<1>11. StreamKept' /\ ServersInv'
  BY <1>1, <1>6, <1>8, StreamElse, ServersElse DEF KeptInv
<1> QED BY <1>1, <1>2, <1>6, <1>8, <1>10, <1>11 DEF KeptInv, Busy, Reported, streamVars

\* Nothing of this is touched.
LEMMA KeptElse ==
    ASSUME KeptInv, UNCHANGED <<plan, streamVars, mcpVars, commandVars>>,
           UNCHANGED scope \/ DeadlinePasses
    PROVE  KeptInv'
<1>1. IsScope(scope') /\ scope'.resources = scope.resources /\ scope'.failed = scope.failed
  <2>1. CASE UNCHANGED scope
    BY <2>1 DEF KeptInv
  <2>2. CASE scope' = [scope EXCEPT !.deadline = "over"]
    <3>1. PICK d, f, rs : scope = [deadline |-> d, failed |-> f, resources |-> rs] /\ f \in BOOLEAN
      BY DEF KeptInv, IsScope
    <3>2. scope' = [deadline |-> "over", failed |-> f, resources |-> rs]
      BY <2>2, <3>1
    <3> QED BY <3>1, <3>2 DEF IsScope
  <2> QED BY <2>1, <2>2 DEF DeadlinePasses
<1>2. KeepsStreams /\ KeepsServers /\ KeepsCommand
  BY <1>1, Keeps DEF Loses
<1>3. StreamKept' /\ CommandKept' /\ ServersInv'
  BY <1>2, StreamElse, CommandElse, MainStays, ServersElse DEF KeptInv, mcpVars
<1> QED BY <1>1, <1>3 DEF KeptInv, Busy, Reported, streamVars, mcpVars, commandVars, Working

LEMMA KeptInvStep ==
    ASSUME StreamInv, CommandInv, KeptInv, [Next]_vars PROVE KeptInv'
<1>1. StreamInv' /\ Grown /\ UNCHANGED plan
  BY StreamInvStep, PlanStays
<1>2. CASE AskModel \/ Streams
  BY <1>1, <1>2, KeptStreams DEF AskModel, Streams
<1>3. CASE Runs
  BY <1>1, <1>3, KeptRuns DEF Runs
<1>4. CASE CallTool \/ Manages \/ \E s \in Servers : Serves(s)
  BY <1>1, <1>4, KeptServers DEF CallTool, Manages, Serves
<1>5. CASE OperationEnds
  <2>1. main.at = "body" /\ request.at = "idle" /\ ~Working
    BY <1>5, Quiet DEF OperationEnds, InBody, KeptInv, ServersInv
  <2>2. \E p \in Primaries : BodyEnds(p)
    BY <1>5 DEF OperationEnds, Primaries
  <2> QED BY <1>1, <1>5, <2>1, <2>2, KeptEnds DEF OperationEnds
<1>6. CASE CommandEnds
  <2>1. main.at = "running" /\ request.at = "idle" /\ ~Working
    BY <1>6 DEF CommandEnds, KeptInv, Busy
  <2>2. \/ \E p \in Primaries : BodyEnds(p)
        \/ main' = [main EXCEPT !.at = "body"] /\ UNCHANGED <<scope, srv>>
    BY <1>6 DEF CommandEnds, Primaries
  <2> QED BY <1>1, <1>6, <2>1, <2>2, KeptEnds DEF CommandEnds
<1>7. CASE RunCommand
  <2>1. PICK kind \in Kinds : Submit(kind)
    BY <1>7, PlanKinds DEF RunCommand, CommandInv
  <2> QED BY <1>1, <1>7, <2>1, KeptSubmits DEF RunCommand
<1>8. CASE OperationInterrupted
  BY <1>1, <1>8, KeptInterrupt
<1>9. CASE CommandInterrupted
  BY <1>1, <1>9, KeptLeft
<1>10. CASE Cancel \/ DeadlinePasses
  BY <1>1, <1>10, KeptElse DEF Cancel, DeadlinePasses
<1>11. CASE UNCHANGED vars
  BY <1>11, KeptElse DEF vars
<1> QED BY <1>2, <1>3, <1>4, <1>5, <1>6, <1>7, <1>8, <1>9, <1>10, <1>11 DEF Next

LEMMA KeptInvInit == Init => KeptInv
<1> SUFFICES ASSUME Init PROVE KeptInv
  OBVIOUS
<1>1. /\ conns = <<>> /\ closing = {} /\ request.at = "idle"
      /\ tree.root = "none" /\ cmd.at = "idle" /\ cmd.cache = "none" /\ ~cmd.again
      /\ plan \in Plans /\ scope = FreshScope
  BY DEF Init, StreamInit, CommandInit, JobInit, NoRequest, NoTree, NoCommand
<1>2. IsScope(scope)
  BY <1>1 DEF IsScope, FreshScope
<1>3. StreamKept
  <2>1. Conns = {}
    BY <1>1 DEF Conns
  <2> QED BY <1>1, <2>1 DEF StreamKept
<1>4. CommandKept /\ ~Working
  BY <1>1 DEF CommandKept, Working, ProcDone
<1>5. plan.servers \in Nat
  <2>1. Cardinality(Servers) \in Nat
    BY BoundsAssumption, FS_CardinalityType
  <2>2. plan.servers \in 0..Cardinality(Servers)
    BY <1>1, BoundsAssumption
  <2> QED BY <2>1, <2>2
<1>6. PICK q \in Seq(Nat) : q = [i \in 1..plan.servers |-> i]
  <2>1. PICK n \in Nat : n = plan.servers
    BY <1>5
  <2>2. [i \in 1..n |-> i] \in [1..n -> Nat]
    OBVIOUS
  <2>3. [i \in 1..n |-> i] \in Seq(Nat)
    BY <2>2
  <2> QED BY <2>1, <2>3
<1>7. PICK e \in Seq(Nat) : e = <<>>
  BY InFew
<1>8. main = [at |-> "starting", phase |-> "start", queue |-> q,
              s |-> 1, ask |-> "list", error |-> "none", primary |-> "none",
              started |-> e, stuck |-> e, stops |-> e, routes |-> {},
              stopCancelled |-> FALSE, calls |-> 0, interrupts |-> 0, verdict |-> "none"]
  BY <1>6, <1>7 DEF Init, McpInit
<1>9. main \in MainSet
  BY <1>8 DEF MainSet, Places, Phases, MainErrors, Primaries, Verdicts
<1>10. main.at = "starting" /\ main.phase = "start" /\ main.stops = <<>>
  BY <1>7, <1>8
<1>11. MainInv
  BY <1>9, <1>10 DEF MainInv, AtStop
<1>12. srv \in [Servers -> SrvSet] /\ \A s \in Servers : ServerKept(s)
  <2>1. Unstarted \in SrvSet /\ Unstarted.owner = "none" /\ ~Unstarted.lost
    BY DEF Unstarted, SrvSet, Clients, Lifetimes
  <2>2. srv = [s \in Servers |-> Unstarted]
    BY DEF Init, McpInit
  <2> HIDE DEF Unstarted
  <2> QED BY <2>1, <2>2 DEF ServerKept, Lasts, Outlived
<1> QED BY <1>1, <1>2, <1>3, <1>4, <1>10, <1>11, <1>12 DEF KeptInv, ServersInv, Busy, Reported

LEMMA Keeping == Spec => []KeptInv
<1>1. StreamInv /\ CommandInv /\ KeptInv /\ [Next]_vars => KeptInv'
  BY KeptInvStep
<1> QED BY <1>1, KeptInvInit, Streaming, Commanding, PTL DEF Spec

\* A task that returned has handed every process, owner task, request, connection and
\* thread that still lives to its cleanup scope, and has not reported a result as good
\* while one of them remains or a cleanup failed: however the servers, the connections
\* and the processes behave, and wherever the person cancels or interrupts it.
THEOREM NothingLeftUnsaid == Spec => []LeftoverIsReported
<1>1. CommandInv /\ KeptInv => LeftoverIsReported
  <2> SUFFICES ASSUME CommandInv, KeptInv, main.at = "returned" PROVE
               /\ \A s \in Servers : LeftBehind(s) \subseteq scope.resources
               /\ \A k \in Conns : Alive(k) => Connection(k) \in scope.resources
               /\ CommandLeaves \subseteq scope.resources
               /\ main.verdict = "ok" => ~HasPending(scope) /\ ~scope.failed
    BY DEF LeftoverIsReported
  <2>1. ASSUME NEW s \in Servers PROVE LeftBehind(s) \subseteq scope.resources
    <3>1. ServerKept(s) /\ ~InHand(s)
      BY OutOfHand DEF KeptInv, ServersInv
    <3> QED BY <3>1 DEF LeftBehind, ServerKept, Lasts, Outlived, Has
  <2>2. ASSUME NEW k \in Conns, Alive(k) PROVE Connection(k) \in scope.resources
    BY <2>2 DEF KeptInv, StreamKept, Has
  <2>3. CommandLeaves \subseteq scope.resources
    <3>1. Working \/ tree.root = "none" \/ ProcDone
      BY DEF CommandInv, JobInv, Early, NoTree, ProcDone, Working, CommandTypes
    <3> QED BY <3>1 DEF CommandLeaves, KeptInv, CommandKept, Has
  <2>4. main.verdict = "ok" => ~HasPending(scope) /\ ~scope.failed
    BY DEF KeptInv, Reported, HasPending
  <2> QED BY <2>1, <2>2, <2>3, <2>4
<1> QED BY <1>1, Commanding, Keeping, PTL
-----------------------------------------------------------------------------
(***************************************************************************)
(* TaskCleanup, for any set of workers and any number of tasks.            *)
(***************************************************************************)
\* A worker past its start has a scope, and so has an open task.
Leased == /\ \A w \in Workers : lease[w] = 0 <=> step[w] = "free"
          /\ pc # "idle" => task # 0

LeaseTypes == CleanupTypes /\ Leased

LEMMA LeaseTypesInit == CleanupInit => LeaseTypes
<1> SUFFICES ASSUME CleanupInit PROVE LeaseTypes
  OBVIOUS
<1>1. host \in {"runtime", "alone"} /\ pc \in {"idle", "open", "handing"}
  BY DEF CleanupInit
<1>2. task \in 0 .. MaxTasks /\ lease \in [Workers -> 0 .. MaxTasks]
  BY MaxTasksAssumption DEF CleanupInit
<1>3. step \in [Workers -> {"free", "queued", "running", "finish", "discard",
                            "gone"}]
  BY DEF CleanupInit
<1>4. failed \in [Scopes -> BOOLEAN]
  BY DEF CleanupInit
<1>5. Leased
  BY DEF CleanupInit, Leased
<1> QED BY <1>1, <1>2, <1>3, <1>4, <1>5 DEF CleanupInit, CleanupTypes, LeaseTypes

LEMMA LeaseTypesStep == LeaseTypes /\ [CleanupNext]_cleanupVars => LeaseTypes'
<1> SUFFICES ASSUME LeaseTypes, [CleanupNext]_cleanupVars PROVE LeaseTypes'
  OBVIOUS
<1> USE MaxTasksAssumption DEF LeaseTypes, CleanupTypes, Leased, Scopes, threads, scopes,
    owner, Goto
<1>1. CASE EnterTask
  BY <1>1 DEF EnterTask
<1>2. CASE EndTask
  <2>1. task \in Scopes
    BY <1>2 DEF EndTask
  <2>2. CASE host = "alone" /\ HasUnfinished(task)
    BY <1>2, <2>1, <2>2 DEF EndTask
  <2>3. CASE ~(host = "alone" /\ HasUnfinished(task))
    BY <1>2, <2>1, <2>3 DEF EndTask
  <2> QED BY <2>2, <2>3
<1>3. CASE HandTask
  <2>1. task \in Scopes
    BY <1>3 DEF HandTask
  <2>2. CASE HasUnfinished(task)
    BY <1>3, <2>1, <2>2 DEF HandTask, HandOff
  <2>3. CASE ~HasUnfinished(task)
    BY <1>3, <2>3 DEF HandTask
  <2> QED BY <2>2, <2>3
<1>4. ASSUME NEW s \in Scopes, Retry(s) PROVE LeaseTypes'
  BY <1>4, ZenonT(40) DEF Retry, ReleaseIdle
<1>5. ASSUME NEW w \in Workers, StartWorker(w) PROVE LeaseTypes'
  <2>1. task \in Scopes
    BY <1>5 DEF StartWorker
  <2>2. CASE Goto(w, "queued")
    BY <1>5, <2>1, <2>2 DEF StartWorker
  <2>3. CASE Goto(w, "finish")
    BY <1>5, <2>1, <2>3 DEF StartWorker
  <2> QED BY <1>5, <2>2, <2>3 DEF StartWorker
<1>6. ASSUME NEW w \in Workers, Await(w) \/ Abandon(w) PROVE LeaseTypes'
  BY <1>6 DEF Await, Abandon
<1>7. ASSUME NEW w \in Workers, Open(w) PROVE LeaseTypes'
  <2>1. CASE UNCHANGED resources
    BY <1>7, <2>1 DEF Open
  <2>2. CASE resources' = [resources EXCEPT ![lease[w]] = @ \cup {w}]
    BY <1>7, <2>2 DEF Open
  <2> QED BY <1>7, <2>1, <2>2 DEF Open
<1>8. ASSUME NEW w \in Workers, Thread(w) PROVE LeaseTypes'
  <2>1. CASE Begin(w) \/ Dropped(w) \/ DiscardLease(w)
    BY <2>1 DEF Begin, Dropped, DiscardLease
  <2>2. CASE EndWork(w)
    <3>1. CASE w \in alive /\ UNCHANGED alive /\
               resources' = [resources EXCEPT ![lease[w]] = @ \cup {w}]
      BY <2>2, <3>1, ZenonT(40) DEF EndWork
    <3>2. CASE resources' = [resources EXCEPT ![lease[w]] = @ \ {w}]
               /\ alive' = alive \ {w} /\ UNCHANGED failed
      BY <2>2, <3>2 DEF EndWork
    <3> QED BY <2>2, <3>1, <3>2 DEF EndWork
  <2>3. CASE FinishWorker(w)
    <3>1. lease[w] \in Scopes
      BY <2>3 DEF FinishWorker
    <3>2. CASE resources[lease[w]] # {}
      BY <2>3, <3>1, <3>2 DEF FinishWorker, HandOff
    <3>3. CASE resources[lease[w]] = {}
      BY <2>3, <3>1, <3>3 DEF FinishWorker, ReleaseIdle
    <3> QED BY <3>2, <3>3
  <2> QED BY <1>8, <2>1, <2>2, <2>3 DEF Thread
<1>9. CASE UNCHANGED cleanupVars
  BY <1>9 DEF cleanupVars
<1> QED BY <1>1, <1>2, <1>3, <1>4, <1>5, <1>6, <1>7, <1>8, <1>9 DEF CleanupNext

\* The type invariant of the cleanup protocol.
THEOREM LeaseTyping == CleanupSpec => []CleanupTypes
<1>1. LeaseTypes => CleanupTypes
  BY DEF LeaseTypes
<1> QED BY <1>1, LeaseTypesInit, LeaseTypesStep, PTL DEF CleanupSpec
-----------------------------------------------------------------------------
(***************************************************************************)
(* No gap.  A thread is in _workers of its scope, and its lease with the   *)
(* owner, until it ends; a resource that outlives its thread is in its     *)
(* scope; and a scope with resources, once its task and its threads have   *)
(* ended, is with the owner or on the runtime's list.                      *)
(***************************************************************************)
LeaseInv == \A w \in Workers :
    /\ lease[w] <= task
    /\ \A s \in Scopes : w \in workers[s]
         <=> lease[w] = s /\ step[w] \in {"queued", "running", "finish"}
    /\ step[w] \notin {"free", "gone"} => w \in held

ResourceInv == \A w \in Workers : w \in alive =>
    /\ step[w] \in {"running", "finish", "discard", "gone"}
    /\ step[w] # "running" => w \in resources[lease[w]]

Ended(s) == s < task \/ (s = task /\ pc = "idle")

OwnerInv == \A s \in Scopes :
    Ended(s) /\ resources[s] # {} /\ workers[s] = {} => s \in kept \cup pending

\* A scope nobody has entered is empty.
FreshInv == \A s \in Scopes : s > task => resources[s] = {}

NoGap == LeaseTypes /\ LeaseInv /\ ResourceInv /\ OwnerInv /\ FreshInv /\ NothingFromBefore

LEMMA NoGapInit == CleanupInit => NoGap
<1> SUFFICES ASSUME CleanupInit PROVE NoGap
  OBVIOUS
<1>1. LeaseTypes
  BY LeaseTypesInit
<1>2. LeaseInv /\ ResourceInv /\ OwnerInv /\ FreshInv /\ NothingFromBefore
  BY DEF CleanupInit, LeaseInv, ResourceInv, OwnerInv, FreshInv, NothingFromBefore, Scopes
<1> QED BY <1>1, <1>2 DEF NoGap

LEMMA NoGapStep == NoGap /\ [CleanupNext]_cleanupVars => NoGap'
<1> SUFFICES ASSUME NoGap, [CleanupNext]_cleanupVars PROVE NoGap'
  OBVIOUS
<1>a. LeaseTypes'
  BY LeaseTypesStep DEF NoGap
<1>b. LeaseInv' /\ ResourceInv' /\ OwnerInv' /\ FreshInv' /\ NothingFromBefore'
      => NoGap'
  BY <1>a DEF NoGap
<1> USE MaxTasksAssumption DEF NoGap, LeaseTypes, CleanupTypes, Leased, Scopes, threads,
    scopes, owner, Goto
<1>1. CASE EnterTask
  <2>1. \A w \in Workers : step[w] \in {"free", "gone"}
    BY <1>1 DEF EnterTask, Blocked, LeaseInv
  <2>2. \A s \in Scopes : workers[s] = {}
    BY <2>1 DEF LeaseInv
  <2>3. \A s \in Scopes : resources[s] = {}
    <3>1. pc = "idle" /\ kept = {} /\ pending = {}
      BY <1>1 DEF EnterTask, Blocked
    <3>2. \A s \in Scopes : s <= task => resources[s] = {}
      BY <2>2, <3>1 DEF OwnerInv, Ended
    <3> QED BY <3>2 DEF FreshInv
  <2>4. alive = {}
    <3> SUFFICES ASSUME NEW w \in Workers, w \in alive PROVE FALSE
      OBVIOUS
    <3>1. step[w] = "gone" /\ w \in resources[lease[w]]
      BY <2>1 DEF ResourceInv
    <3> QED BY <2>3, <3>1
  <2>5. LeaseInv'
    BY <1>1 DEF EnterTask, LeaseInv
  <2>6. ResourceInv' /\ OwnerInv' /\ FreshInv'
    BY <1>1, <2>3, <2>4 DEF EnterTask, ResourceInv, OwnerInv, FreshInv
  <2>7. NothingFromBefore'
    BY <1>1, <2>1, <2>4 DEF EnterTask, NothingFromBefore
  <2> QED BY <1>b, <2>5, <2>6, <2>7
<1>2. CASE EndTask
  <2>1. LeaseInv' /\ ResourceInv' /\ FreshInv'
    BY <1>2 DEF EndTask, LeaseInv, ResourceInv, FreshInv
  <2>2. OwnerInv'
    BY <1>2 DEF EndTask, OwnerInv, Ended, HasUnfinished
  <2>3. NothingFromBefore'
    BY <1>2 DEF EndTask, NothingFromBefore
  <2> QED BY <1>b, <2>1, <2>2, <2>3
<1>3. CASE HandTask
  <2>1. LeaseInv' /\ ResourceInv' /\ FreshInv'
    BY <1>3 DEF HandTask, LeaseInv, ResourceInv, FreshInv
  <2>2. OwnerInv'
    BY <1>3 DEF HandTask, HandOff, OwnerInv, Ended, HasUnfinished
  <2>3. NothingFromBefore'
    BY <1>3 DEF HandTask, NothingFromBefore
  <2> QED BY <1>b, <2>1, <2>2, <2>3
<1>4. ASSUME NEW s \in Scopes, Retry(s) PROVE NoGap'
  <2>1. LeaseInv' /\ NothingFromBefore'
    BY <1>4 DEF Retry, LeaseInv, NothingFromBefore
  <2>2. ResourceInv'
    BY <1>4 DEF Retry, ResourceInv, LeaseInv
  <2>3. FreshInv'
    BY <1>4 DEF Retry, FreshInv
  <2>4. OwnerInv'
    BY <1>4, SMTT(30) DEF Retry, ReleaseIdle, OwnerInv, Ended
  <2> QED BY <1>b, <2>1, <2>2, <2>3, <2>4
<1>5. ASSUME NEW w \in Workers, StartWorker(w) PROVE NoGap'
  <2>1. task \in Scopes
    BY <1>5 DEF StartWorker
  <2>2. w \in workers'[task] /\ \A s \in Scopes \ {task} : workers'[s] = workers[s]
    BY <1>5, <2>1 DEF StartWorker
  <2>3. LeaseInv'
    BY <1>5, <2>1 DEF StartWorker, LeaseInv
  <2>a. w \notin alive
    BY <1>5 DEF StartWorker, ResourceInv
  <2>4. ResourceInv' /\ FreshInv'
    BY <1>5, <2>a DEF StartWorker, ResourceInv, FreshInv
  <2>5. OwnerInv'
    BY <1>5, <2>1, <2>2 DEF StartWorker, OwnerInv, Ended
  <2>6. NothingFromBefore'
    BY <1>5, <2>1 DEF StartWorker, NothingFromBefore
  <2> QED BY <1>b, <2>3, <2>4, <2>5, <2>6
<1>6. ASSUME NEW w \in Workers, Await(w) \/ Abandon(w) PROVE NoGap'
  <2>1. LeaseInv' /\ ResourceInv' /\ FreshInv'
    BY <1>6 DEF Await, Abandon, LeaseInv, ResourceInv, FreshInv
  <2>2. OwnerInv' /\ NothingFromBefore'
    BY <1>6 DEF Await, Abandon, OwnerInv, Ended, NothingFromBefore
  <2> QED BY <1>b, <2>1, <2>2
<1>7. ASSUME NEW w \in Workers, Open(w) PROVE NoGap'
  <2>1. lease[w] \in Scopes /\ w \in workers[lease[w]]
    BY <1>7 DEF Open, LeaseInv
  <2>2. LeaseInv'
    BY <1>7 DEF Open, LeaseInv
  <2>3. \A s \in Scopes : resources[s] \subseteq resources'[s]
                         /\ (s # lease[w] => resources'[s] = resources[s])
    BY <1>7, <2>1 DEF Open
  <2>4. ResourceInv'
    BY <1>7, <2>3 DEF Open, ResourceInv
  <2>5. OwnerInv'
    BY <1>7, <2>1, <2>3 DEF Open, OwnerInv, Ended
  <2>6. FreshInv'
    BY <1>7, <2>1, <2>3 DEF FreshInv, LeaseInv, Open
  <2>7. NothingFromBefore'
    BY <1>7 DEF Open, NothingFromBefore
  <2> QED BY <1>b, <2>2, <2>4, <2>5, <2>6, <2>7
<1>8. ASSUME NEW w \in Workers, Begin(w) \/ Dropped(w) \/ DiscardLease(w) PROVE NoGap'
  <2>1. LeaseInv'
    BY <1>8 DEF Begin, Dropped, DiscardLease, LeaseInv
  <2>2. ResourceInv' /\ FreshInv'
    BY <1>8 DEF Begin, Dropped, DiscardLease, ResourceInv, FreshInv
  <2>3. OwnerInv'
    BY <1>8 DEF Begin, Dropped, DiscardLease, OwnerInv, Ended
  <2>4. NothingFromBefore'
    BY <1>8 DEF Begin, Dropped, DiscardLease, NothingFromBefore
  <2> QED BY <1>b, <2>1, <2>2, <2>3, <2>4
<1>9. ASSUME NEW w \in Workers, EndWork(w) PROVE NoGap'
  <2>1. lease[w] \in Scopes /\ w \in workers[lease[w]] /\ lease[w] <= task
    BY <1>9 DEF EndWork, LeaseInv
  <2>2. LeaseInv'
    BY <1>9 DEF EndWork, LeaseInv
  <2>3. \A s \in Scopes : /\ resources[s] \ {w} \subseteq resources'[s]
                         /\ s # lease[w] => resources'[s] = resources[s]
    BY <1>9, <2>1 DEF EndWork
  <2>4. w \in alive' => w \in resources'[lease[w]]
    BY <1>9, <2>1 DEF EndWork
  <2>5. ResourceInv'
    BY <1>9, <2>1, <2>3, <2>4 DEF EndWork, ResourceInv
  <2>a. OwnerInv'
    <3>1. UNCHANGED <<workers, task, pc, kept, pending>>
      BY <1>9 DEF EndWork
    <3> QED BY <2>1, <2>3, <3>1 DEF OwnerInv, Ended
  <2>b. FreshInv'
    <3>1. UNCHANGED task
      BY <1>9 DEF EndWork
    <3>2. ASSUME NEW s \in Scopes, s > task PROVE s # lease[w]
      BY <2>1, <3>2
    <3> QED BY <2>3, <3>1, <3>2 DEF FreshInv
  <2>6. OwnerInv' /\ FreshInv'
    BY <2>a, <2>b
  <2>7. NothingFromBefore'
    BY <1>9 DEF EndWork, NothingFromBefore
  <2> QED BY <1>b, <2>2, <2>5, <2>6, <2>7
<1>10. ASSUME NEW w \in Workers, FinishWorker(w) PROVE NoGap'
  <2>1. lease[w] \in Scopes
    BY <1>10 DEF FinishWorker
  <2>2. LeaseInv'
    BY <1>10, <2>1 DEF FinishWorker, LeaseInv
  <2>3. ResourceInv' /\ FreshInv'
    BY <1>10 DEF FinishWorker, ResourceInv, FreshInv
  <2>4. \A s \in Scopes : s # lease[w] => workers'[s] = workers[s]
    BY <1>10, <2>1 DEF FinishWorker
  <2>5. OwnerInv'
    <3>1. CASE resources[lease[w]] # {}
      <4>1. kept' = kept \cup {lease[w]}
        BY <1>10, <3>1 DEF FinishWorker, HandOff
      <4> QED BY <1>10, <2>4, <4>1 DEF FinishWorker, OwnerInv, Ended
    <3>2. CASE resources[lease[w]] = {}
      <4>1. kept \ {lease[w]} \subseteq kept'
        BY <1>10, <3>2 DEF FinishWorker, ReleaseIdle
      <4> QED BY <1>10, <2>4, <3>2, <4>1 DEF FinishWorker, OwnerInv, Ended
    <3> QED BY <3>1, <3>2
  <2>6. NothingFromBefore'
    BY <1>10 DEF FinishWorker, NothingFromBefore
  <2> QED BY <1>b, <2>2, <2>3, <2>5, <2>6
<1>11. CASE UNCHANGED cleanupVars
  BY <1>11 DEF cleanupVars, LeaseInv, ResourceInv, OwnerInv, Ended, FreshInv, NothingFromBefore
<1> QED BY <1>1, <1>2, <1>3, <1>4, <1>5, <1>6, <1>7, <1>8, <1>9, <1>10, <1>11
        DEF CleanupNext, Thread

\* For any number of threads and tasks: while a task runs, no thread and no
\* resource of an earlier one is alive.
THEOREM NothingLeaks == CleanupSpec => []NothingFromBefore
<1>1. NoGap => NothingFromBefore
  BY DEF NoGap
<1> QED BY <1>1, NoGapInit, NoGapStep, PTL DEF CleanupSpec
-----------------------------------------------------------------------------
(***************************************************************************)
(* Nothing is held for what is gone.  The owner has the lease of a worker  *)
(* no longer than the thread goes on, what is retained is alive and in the *)
(* scope of its worker, and the owner has no scope in which nothing is     *)
(* left: whoever empties a scope last finds the owner in its _owners.      *)
(***************************************************************************)
HeldInv == \A w \in held : step[w] \notin {"free", "gone"}
AliveInv == \A s \in Scopes : \A w \in resources[s] : w \in alive /\ lease[w] = s
PendingInv == \A s \in kept : s \in owned /\ HasUnfinished(s)

NoneKept == HeldInv /\ AliveInv /\ PendingInv

LEMMA NoneKeptInit == CleanupInit => NoneKept
BY DEF CleanupInit, NoneKept, HeldInv, AliveInv, PendingInv, Scopes

\* What is kept when an idle owner is released, or the scope is handed to it.
LEMMA ReleasedOK ==
    ASSUME NoGap, NoneKept, NEW s \in Scopes, ReleaseIdle(s),
           \A t \in Scopes \ {s} : workers'[t] = workers[t] /\ resources'[t] = resources[t]
    PROVE  PendingInv'
<1>1. kept \subseteq Scopes
  BY DEF NoGap, LeaseTypes, CleanupTypes
<1>2. \A t \in kept \ {s} : t \in owned /\ HasUnfinished(t)'
  BY <1>1 DEF NoneKept, PendingInv, HasUnfinished
<1>3. CASE resources'[s] = {} /\ workers'[s] = {}
  <2>1. s \in kept => s \in owned
    BY DEF NoneKept, PendingInv
  <2>2. kept' \subseteq kept \ {s} /\ owned' = owned \ {s}
    BY <1>3, <2>1 DEF ReleaseIdle
  <2> QED BY <1>2, <2>2 DEF PendingInv
<1>4. CASE ~(resources'[s] = {} /\ workers'[s] = {})
  <2>1. kept' = kept /\ owned' = owned
    BY <1>4 DEF ReleaseIdle
  <2>2. HasUnfinished(s)'
    BY <1>4 DEF HasUnfinished
  <2> QED BY <1>2, <2>1, <2>2 DEF NoneKept, PendingInv
<1> QED BY <1>3, <1>4

LEMMA HandedOK ==
    ASSUME NoGap, NoneKept, NEW s \in Scopes, HandOff(s), HasUnfinished(s)',
           \A t \in Scopes \ {s} : workers'[t] = workers[t] /\ resources'[t] = resources[t]
    PROVE  PendingInv'
BY DEF HandOff, HasUnfinished, NoneKept, PendingInv, NoGap, LeaseTypes, CleanupTypes

LEMMA NoneKeptStep == NoGap /\ NoneKept /\ [CleanupNext]_cleanupVars => NoneKept'
<1> SUFFICES ASSUME NoGap, NoneKept, [CleanupNext]_cleanupVars PROVE NoneKept'
  OBVIOUS
<1>a. /\ lease \in [Workers -> 0 .. MaxTasks] /\ workers \in [Scopes -> SUBSET Workers]
      /\ resources \in [Scopes -> SUBSET Workers] /\ kept \subseteq Scopes
      /\ step \in [Workers -> {"free", "queued", "running", "finish", "discard", "gone"}]
      /\ held \subseteq Workers /\ alive \subseteq Workers
  BY DEF NoGap, LeaseTypes, CleanupTypes
<1>1. CASE EnterTask \/ EndTask \/ UNCHANGED cleanupVars
  BY <1>1 DEF EnterTask, EndTask, cleanupVars, threads, scopes, owner,
              NoneKept, HeldInv, AliveInv, PendingInv, HasUnfinished
<1>2. CASE HandTask
  <2>1. HeldInv' /\ AliveInv'
    BY <1>2 DEF HandTask, threads, NoneKept, HeldInv, AliveInv
  <2>2. PendingInv'
    <3>1. task \in Scopes
      BY <1>2 DEF HandTask, NoGap, LeaseTypes, CleanupTypes, Leased, Scopes
    <3>2. CASE HasUnfinished(task)
      <4>1. HandOff(task) /\ workers' = workers /\ resources' = resources
        BY <1>2, <3>2 DEF HandTask
      <4> QED BY <3>1, <3>2, <4>1, HandedOK DEF HasUnfinished
    <3>3. CASE ~HasUnfinished(task)
      BY <1>2, <3>3 DEF HandTask, NoneKept, PendingInv, HasUnfinished
    <3> QED BY <3>2, <3>3
  <2> QED BY <2>1, <2>2 DEF NoneKept
<1>3. ASSUME NEW s \in Scopes, Retry(s) PROVE NoneKept'
  <2>1. PICK closed \in SUBSET resources[s] :
            /\ resources' = [resources EXCEPT ![s] = @ \ closed] /\ alive' = alive \ closed
    BY <1>3 DEF Retry
  <2>2. AliveInv'
    BY <1>3, <1>a, <2>1 DEF Retry, threads, NoneKept, AliveInv
  <2>3. PendingInv'
    BY <1>3, <1>a, <2>1, ReleasedOK DEF Retry
  <2>4. HeldInv'
    BY <1>3 DEF Retry, threads, NoneKept, HeldInv
  <2> QED BY <2>2, <2>3, <2>4 DEF NoneKept
<1>4. ASSUME NEW w \in Workers, StartWorker(w) PROVE NoneKept'
  <2>1. /\ lease[w] = 0 /\ task \in Scopes
    BY <1>4 DEF StartWorker, NoGap, LeaseTypes, CleanupTypes, Leased, Scopes
  <2>2. HeldInv'
    BY <1>4, <1>a DEF StartWorker, Goto, NoneKept, HeldInv
  <2>3. AliveInv'
    BY <1>4, <1>a, <2>1 DEF StartWorker, NoneKept, AliveInv, Scopes
  <2>4. PendingInv'
    BY <1>4, <1>a, <2>1 DEF StartWorker, NoneKept, PendingInv, HasUnfinished
  <2> QED BY <2>2, <2>3, <2>4 DEF NoneKept
<1>5. ASSUME NEW w \in Workers, Await(w) \/ Abandon(w) PROVE NoneKept'
  BY <1>5 DEF Await, Abandon, scopes, owner, NoneKept, HeldInv, AliveInv, PendingInv, HasUnfinished
<1>6. ASSUME NEW w \in Workers, Begin(w) \/ Dropped(w) PROVE NoneKept'
  <2>1. HeldInv'
    BY <1>6, <1>a DEF Begin, Dropped, Goto, owner, NoneKept, HeldInv
  <2> QED BY <1>6, <2>1 DEF Begin, Dropped, scopes, owner, NoneKept, AliveInv, PendingInv, HasUnfinished
<1>7. ASSUME NEW w \in Workers, Open(w) PROVE NoneKept'
  <2>1. lease[w] \in Scopes
    BY <1>7, <1>a DEF Open, NoGap, LeaseTypes, Leased, Scopes
  <2>2. \A t \in Scopes : resources[t] \subseteq resources'[t] /\ resources'[t] \subseteq resources[t] \cup {w}
    BY <1>7, <1>a, <2>1 DEF Open
  <2>3. \A t \in Scopes : w \in resources'[t] => w \in resources[t] \/ t = lease[w]
    BY <1>7, <1>a, <2>1 DEF Open
  <2>4. AliveInv'
    BY <1>7, <2>2, <2>3 DEF Open, threads, NoneKept, AliveInv
  <2>5. PendingInv'
    BY <1>7, <1>a, <2>2 DEF Open, owner, NoneKept, PendingInv, HasUnfinished
  <2>6. HeldInv'
    BY <1>7 DEF Open, threads, owner, NoneKept, HeldInv
  <2> QED BY <2>4, <2>5, <2>6 DEF NoneKept
<1>8. ASSUME NEW w \in Workers, EndWork(w) PROVE NoneKept'
  <2>1. lease[w] \in Scopes /\ w \in workers[lease[w]]
    BY <1>8, <1>a DEF EndWork, NoGap, LeaseTypes, Leased, Scopes, LeaseInv
  <2>2. HeldInv'
    BY <1>8, <1>a DEF EndWork, Goto, owner, NoneKept, HeldInv
  <2>3. AliveInv'
    <3>1. CASE /\ alive' = alive \ {w}
               /\ resources' = [resources EXCEPT ![lease[w]] = @ \ {w}]
      BY <1>8, <1>a, <2>1, <3>1 DEF EndWork, NoneKept, AliveInv
    <3>2. CASE /\ w \in alive /\ UNCHANGED alive
               /\ resources' = [resources EXCEPT ![lease[w]] = @ \cup {w}]
      BY <1>8, <1>a, <2>1, <3>2 DEF EndWork, NoneKept, AliveInv
    <3> QED BY <1>8, <3>1, <3>2 DEF EndWork
  <2>4. PendingInv'
    <3>1. \A t \in Scopes \ {lease[w]} : resources'[t] = resources[t]
      BY <1>8, <1>a DEF EndWork
    <3>2. workers' = workers /\ owned' = owned /\ kept' = kept
      BY <1>8 DEF EndWork, owner
    <3> QED BY <1>a, <2>1, <3>1, <3>2 DEF NoneKept, PendingInv, HasUnfinished
  <2> QED BY <2>2, <2>3, <2>4 DEF NoneKept
<1>9. ASSUME NEW w \in Workers, FinishWorker(w) PROVE NoneKept'
  <2>1. lease[w] \in Scopes
    BY <1>9, <1>a DEF FinishWorker, NoGap, LeaseTypes, Leased, Scopes
  <2>2. /\ resources' = resources
        /\ \A t \in Scopes \ {lease[w]} : workers'[t] = workers[t]
    BY <1>9, <1>a DEF FinishWorker
  <2>3. HeldInv' /\ AliveInv'
    BY <1>9, <1>a DEF FinishWorker, Goto, NoneKept, HeldInv, AliveInv
  <2>4. PendingInv'
    <3>1. CASE resources[lease[w]] # {}
      <4>1. HandOff(lease[w])
        BY <1>9, <3>1 DEF FinishWorker
      <4>2. PICK s \in Scopes : s = lease[w]
        BY <2>1
      <4>3. HandOff(s) /\ HasUnfinished(s)'
        <5>1. resources'[s] # {}
          BY <2>2, <3>1, <4>2
        <5> QED BY <4>1, <4>2, <5>1 DEF HasUnfinished
      <4> QED BY <2>2, <4>2, <4>3, HandedOK
    <3>2. CASE resources[lease[w]] = {}
      <4>1. PICK s \in Scopes : s = lease[w]
        BY <2>1
      <4>2. ReleaseIdle(s)
        BY <1>9, <3>2, <4>1 DEF FinishWorker
      <4> QED BY <2>2, <4>1, <4>2, ReleasedOK
    <3> QED BY <3>1, <3>2
  <2> QED BY <2>3, <2>4 DEF NoneKept
<1>10. ASSUME NEW w \in Workers, DiscardLease(w) PROVE NoneKept'
  <2>1. HeldInv'
    BY <1>10, <1>a DEF DiscardLease, Goto, NoneKept, HeldInv
  <2> QED BY <1>10, <2>1 DEF DiscardLease, scopes, NoneKept, AliveInv, PendingInv, HasUnfinished
<1> QED BY <1>1, <1>2, <1>3, <1>4, <1>5, <1>6, <1>7, <1>8, <1>9, <1>10 DEF CleanupNext, Thread

\* When no thread and no resource is left and every unfinished scope was retried,
\* neither the owner nor the runtime is in the way of the next task (blocks and
\* _pending_cleanup): no order of hand-offs and releases leaves a scope behind that
\* nobody will ever empty.
THEOREM OpensAgain == CleanupSpec => []GateOpensAgain
<1>1. NoGap /\ NoneKept => GateOpensAgain
  <2> SUFFICES ASSUME NoGap, NoneKept, \A w \in Workers : step[w] \in {"free", "gone"},
                      alive = {}, pending = {}
               PROVE  held = {} /\ kept = {}
    BY DEF GateOpensAgain, Blocked
  <2>1. held = {}
    BY DEF NoneKept, HeldInv, NoGap, LeaseTypes, CleanupTypes
  <2>2. \A s \in Scopes : workers[s] = {}
    BY DEF NoGap, LeaseInv, LeaseTypes, CleanupTypes
  <2>3. \A s \in Scopes : resources[s] = {}
    BY DEF NoneKept, AliveInv
  <2>4. kept \subseteq Scopes
    BY DEF NoGap, LeaseTypes, CleanupTypes
  <2> QED BY <2>1, <2>2, <2>3, <2>4 DEF NoneKept, PendingInv, HasUnfinished
<1>2. CleanupSpec => [](NoGap /\ NoneKept)
  BY NoGapInit, NoGapStep, NoneKeptInit, NoneKeptStep, PTL DEF CleanupSpec
<1> QED BY <1>1, <1>2, PTL
=============================================================================
