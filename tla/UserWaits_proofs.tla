-------------------------- MODULE UserWaits_proofs --------------------------
(***************************************************************************)
(* UserWaits for any number of tasks, waits and edits: what comes late     *)
(* never counts, a quit leaves no thread waiting, and an answer that is    *)
(* used was given between two scans that agree.                            *)
(***************************************************************************)
EXTENDS UserWaits, SequenceTheorems, TLAPS

Results == {"none", "yes", "no", "cancelled", "timed out", "unavailable"}
Wait == [kind : {"approval", "question"}, token : Nat,
         ask : {"posted", "scheduled", "shown", "dismissed", "gone"},
         value : {"none", "yes", "no", "cancelled", "timed out"}, result : Results,
         verdict : {"none", "yes", "no"}, first : {"none", "person", "other"},
         before : Nat, after : Nat, said : Nat]

\* The answer of a question that is, or will be, its result.
Counts(r) ==
    /\ r.kind = "question"
    /\ \/ r.result = "yes"
       \/ r.result = "none" /\ r.ask = "dismissed" /\ r.value = "yes"

\* A wait on its own, when the workspace is at version now.
Fit(r, now) ==
    /\ r.first = "none" <=> r.result = "none"
    /\ r.result = "yes" => r.first = "person"
    /\ r.verdict = "yes" => r.result = "yes"
    /\ r.ask = "dismissed" => r.value # "none"
    /\ r.before <= now
    /\ Counts(r) => r.before <= r.said /\ r.said <= now

\* What no step takes away from a wait.
Later(r, q) ==
    /\ q.kind = r.kind
    /\ r.result # "none" => q.result = r.result
    /\ r.result = "yes" /\ r.said <= r.after => q.said <= q.after

Places == {"idle", "posting", "waiting", "expired", "leaving", "dismissing", "answered", "scanned"}
Handlers == {"loop", "approvals", "questions", "shutdown", "cancelling", "exited"}

Types ==
    /\ tasks \in Nat /\ running \in Nat /\ workspace \in Seq(Contents)
    /\ waits \in Seq(Wait)
    /\ thread \in [Threads -> [at : Places, wait : Nat]]
    /\ ui.at \in Handlers /\ ui = [at |-> ui.at, taken |-> ui.taken]

WaitsInv == \A w \in Ids : Fit(waits[w], Now)

\* A thread and the wait it has made.
Made(t, w) ==
    /\ thread[t].at # "idle" => w \in Ids
    /\ thread[t].at \in {"dismissing", "answered", "scanned"} =>
           waits[w].kind = "question" /\ waits[w].result # "none"
    /\ thread[t].at \in {"posting", "waiting"} /\ waits[w].result = "none" =>
           w \in pending \cup ui.taken
    /\ thread[t].at = "scanned" /\ waits[w].result = "yes" => waits[w].said <= waits[w].after
ThreadInv == \A t \in Threads : Made(t, thread[t].wait)

QuitInv ==
    /\ \A w \in pending : w \in Ids /\ waits[w].kind \notin closed
    /\ ui.at \in {"loop", "shutdown", "exited"} => ui.taken = {}

Inv == Types /\ WaitsInv /\ ThreadInv /\ QuitInv
-----------------------------------------------------------------------------
(* What a step does to one wait *)

LEMMA NowIsNat == ASSUME Types PROVE Now \in Nat
BY LenProperties DEF Types, Now

\* A step that changes one wait r to q, or keeps it.
Good(r, q) == q \in Wait /\ Fit(q, Now) /\ Later(r, q)

LEMMA ResolveIsGood ==
    ASSUME NEW r \in Wait, Fit(r, Now), NEW value \in Results \ {"none"},
           NEW who \in {"person", "other"},
           who = "other" => value # "yes",
           who = "person" /\ r.kind = "question" /\ r.result = "none" /\ value = "yes" =>
               r.before <= r.said /\ r.said <= Now
    PROVE  Good(r, Resolve(r, who, value)) /\ Resolve(r, who, value).result # "none"
<1>1. CASE r.result = "none"
  <2> DEFINE e == [r EXCEPT !.first = who, !.result = value]
  <2>1. e \in Wait
    BY DEF Wait
  <2>2. /\ e.kind = r.kind /\ e.ask = r.ask /\ e.value = r.value /\ e.verdict = r.verdict
        /\ e.before = r.before /\ e.after = r.after /\ e.said = r.said
        /\ e.first = who /\ e.result = value
    BY DEF Wait
  <2>3. Resolve(r, who, value) = e
    BY <1>1 DEF Resolve, Fit
  <2> HIDE DEF e
  <2>4. Good(r, e)
    BY <1>1, <2>1, <2>2 DEF Good, Fit, Counts, Later
  <2> QED BY <2>2, <2>3, <2>4
<1>2. CASE r.result # "none"
  <2>1. Resolve(r, who, value) = r
    BY <1>2 DEF Resolve, Fit, Wait
  <2> QED BY <1>2, <2>1 DEF Good, Later
<1> QED BY <1>1, <1>2

LEMMA CloseIsGood ==
    ASSUME NEW r \in Wait, Fit(r, Now)
    PROVE  /\ Good(r, Close(r)) /\ Close(r).result # "none"
           /\ Good(r, Cancel(r)) /\ Cancel(r).result # "none"
BY ResolveIsGood DEF Close, Cancel, Results

\* Steps that leave result, verdict and scans alone.
LEMMA AskIsGood ==
    ASSUME NEW r \in Wait, Fit(r, Now), NEW ask \in {"scheduled", "shown", "gone"}
    PROVE  Good(r, [r EXCEPT !.ask = ask])
<1> DEFINE e == [r EXCEPT !.ask = ask]
<1>1. e \in Wait
  BY DEF Good, Wait
<1>2. /\ e.kind = r.kind /\ e.value = r.value /\ e.result = r.result /\ e.verdict = r.verdict
        /\ e.first = r.first /\ e.before = r.before /\ e.after = r.after /\ e.said = r.said
        /\ e.ask = ask
  BY DEF Wait
<1> HIDE DEF e
<1>3. Good(r, e)
  BY <1>1, <1>2 DEF Good, Fit, Counts, Later
<1> QED BY <1>3 DEF e

LEMMA GoneIsGood ==
    ASSUME NEW r \in Wait, NEW q \in Wait, Good(r, q), q.result # "none"
    PROVE  Good(r, [q EXCEPT !.ask = "gone"])
<1> DEFINE e == [q EXCEPT !.ask = "gone"]
<1>1. e \in Wait
  BY DEF Good, Wait
<1>2. /\ e.kind = q.kind /\ e.value = q.value /\ e.result = q.result /\ e.verdict = q.verdict
        /\ e.first = q.first /\ e.before = q.before /\ e.after = q.after /\ e.said = q.said
        /\ e.ask = "gone"
  BY DEF Wait
<1> HIDE DEF e
<1>3. Good(r, e)
  BY <1>1, <1>2 DEF Good, Fit, Counts, Later
<1> QED BY <1>3 DEF e

LEMMA DeliveredIsGood ==
    ASSUME NEW r \in Wait, NEW q \in Wait, Good(r, q), q.result # "none"
    PROVE  Good(r, [q EXCEPT !.ask = "gone", !.value = "none"])
<1> DEFINE e == [q EXCEPT !.ask = "gone", !.value = "none"]
<1>1. e \in Wait
  BY DEF Good, Wait
<1>2. /\ e.kind = q.kind /\ e.result = q.result /\ e.verdict = q.verdict /\ e.first = q.first
        /\ e.before = q.before /\ e.after = q.after /\ e.said = q.said
        /\ e.ask = "gone" /\ e.value = "none"
  BY DEF Wait
<1> HIDE DEF e
<1>3. Good(r, e)
  BY <1>1, <1>2 DEF Good, Fit, Counts, Later
<1> QED BY <1>3 DEF e

LEMMA DismissedIsGood ==
    ASSUME NEW r \in Wait, NEW q \in Wait, Good(r, q),
           NEW value \in {"yes", "no", "cancelled", "timed out"},
           q.kind = "question" /\ q.result = "none" /\ value = "yes" =>
               q.before <= q.said /\ q.said <= Now
    PROVE  Good(r, Dismissed(q, value)) /\ Dismissed(q, value).result = q.result
<1>1. CASE q.ask = "shown"
  <2> DEFINE e == [q EXCEPT !.ask = "dismissed", !.value = value]
  <2>1. e \in Wait
    BY DEF Wait
  <2>2. /\ e.kind = q.kind /\ e.result = q.result /\ e.verdict = q.verdict /\ e.first = q.first
        /\ e.before = q.before /\ e.after = q.after /\ e.said = q.said
        /\ e.ask = "dismissed" /\ e.value = value
    BY DEF Wait
  <2> HIDE DEF e
  <2>3. Good(r, e)
    BY <2>1, <2>2 DEF Good, Fit, Counts, Later
  <2>4. Dismissed(q, value) = e
    BY <1>1 DEF Dismissed, e
  <2> QED BY <2>2, <2>3, <2>4
<1>2. CASE q.ask # "shown"
  BY <1>2 DEF Dismissed
<1> QED BY <1>1, <1>2

LEMMA VerdictIsGood ==
    ASSUME NEW r \in Wait, NEW q \in Wait, Good(r, q), NEW verdict \in {"yes", "no"},
           verdict = "yes" => q.result = "yes"
    PROVE  Good(r, [q EXCEPT !.verdict = verdict])
<1> DEFINE e == [q EXCEPT !.verdict = verdict]
<1>1. e \in Wait
  BY DEF Good, Wait
<1>2. /\ e.kind = q.kind /\ e.ask = q.ask /\ e.value = q.value /\ e.result = q.result
        /\ e.first = q.first /\ e.before = q.before /\ e.after = q.after /\ e.said = q.said
        /\ e.verdict = verdict
  BY DEF Wait
<1> HIDE DEF e
<1>3. Good(r, e)
  BY <1>1, <1>2 DEF Good, Fit, Counts, Later
<1> QED BY <1>3 DEF e

LEMMA SameIsGood ==
    ASSUME NEW r \in Wait, Fit(r, Now)
    PROVE  Good(r, r)
BY DEF Good, Later
-----------------------------------------------------------------------------
(* What a step does to all waits and to the threads *)

WaitsStep ==
    /\ waits' \in Seq(Wait) /\ Len(waits') >= Len(waits)
    /\ WaitsInv'
    /\ \A w \in Ids : Later(waits[w], waits'[w])

\* Nobody lets go of a wait that has no result.
Kept == \A w \in Ids : w \in pending \cup ui.taken =>
            waits'[w].result # "none" \/ w \in pending' \cup ui'.taken

LEMMA OneWait ==
    ASSUME Types, WaitsInv, NEW w \in Ids, NEW q, Good(waits[w], q),
           waits' = [waits EXCEPT ![w] = q], UNCHANGED workspace
    PROVE  WaitsStep /\ Len(waits') = Len(waits) /\ waits'[w] = q
<1>1. q \in Wait
  BY DEF Good
<1>a. Now' = Now
  BY DEF Now
<1>2. /\ waits' \in Seq(Wait) /\ Len(waits') = Len(waits)
      /\ \A v \in Ids : waits'[v] = IF v = w THEN q ELSE waits[v]
  BY <1>1, ExceptSeq DEF Types, Ids
<1>3. \A v \in Ids : Fit(waits'[v], Now) /\ Later(waits[v], waits'[v])
  BY <1>2 DEF WaitsInv, Good, Later
<1> QED BY <1>a, <1>2, <1>3, LenProperties DEF WaitsStep, WaitsInv, Ids, Types

LEMMA EachWait ==
    ASSUME Types, NEW f, f \in [1 .. Len(waits) -> Wait],
           \A w \in Ids : Good(waits[w], f[w]), waits' = f, UNCHANGED workspace
    PROVE  WaitsStep /\ Len(waits') = Len(waits)
<1>1. Len(waits) \in Nat
  BY LenProperties DEF Types
<1>2. waits' \in Seq(Wait) /\ Len(waits') = Len(waits)
  BY <1>1
<1>a. Now' = Now
  BY DEF Now
<1> QED BY <1>a, <1>1, <1>2 DEF WaitsStep, WaitsInv, Ids, Good

LEMMA SameWaits ==
    ASSUME Types, WaitsInv, UNCHANGED <<waits, workspace>>
    PROVE  WaitsStep
<1>1. Now' = Now
  BY DEF Now
<1> QED BY <1>1, LenProperties DEF Types, WaitsInv, WaitsStep, Later, Ids

LEMMA ExclusiveIsGood ==
    ASSUME Types, WaitsInv
    PROVE  /\ ExclusiveCancels(waits) \in [1 .. Len(waits) -> Wait]
           /\ \A w \in Ids : Good(waits[w], ExclusiveCancels(waits)[w])
<1> DEFINE f == ExclusiveCancels(waits)
<1>1. waits \in [1 .. Len(waits) -> Wait] /\ DOMAIN waits = Ids
  BY LenProperties DEF Types, Ids
<1>2. ASSUME NEW w \in Ids PROVE Good(waits[w], f[w])
  <2>1. waits[w] \in Wait /\ Fit(waits[w], Now)
    BY <1>1 DEF WaitsInv, Ids
  <2>2. CASE waits[w].ask = "scheduled"
    BY <1>1, <2>1, <2>2, AskIsGood DEF ExclusiveCancels
  <2>3. CASE waits[w].ask \in {"shown", "dismissed"}
    <3>1. f[w] = [Close(waits[w]) EXCEPT !.ask = "gone", !.value = "none"]
      BY <1>1, <2>3 DEF ExclusiveCancels
    <3>2. Good(waits[w], Close(waits[w])) /\ Close(waits[w]).result # "none"
      BY <2>1, CloseIsGood
    <3>3. Close(waits[w]) \in Wait
      BY <3>2 DEF Good
    <3> QED BY <2>1, <3>1, <3>2, <3>3, DeliveredIsGood
  <2>4. CASE waits[w].ask \notin {"scheduled", "shown", "dismissed"}
    BY <1>1, <2>1, <2>4, SameIsGood DEF ExclusiveCancels
  <2> QED BY <2>2, <2>3, <2>4
<1>3. DOMAIN f = 1 .. Len(waits)
  BY <1>1 DEF ExclusiveCancels, Ids
<1>4. f = [w \in 1 .. Len(waits) |-> f[w]]
  BY <1>1 DEF ExclusiveCancels, Ids
<1> HIDE DEF f
<1>5. f \in [1 .. Len(waits) -> Wait]
  BY <1>2, <1>4 DEF Good, Ids
<1> QED BY <1>2, <1>5 DEF f

LEMMA ThreadsStay ==
    ASSUME Types, ThreadInv, WaitsStep, Kept, NEW t \in Threads, thread'[t] = thread[t]
    PROVE  Made(t, thread[t].wait)'
<1> DEFINE w == thread[t].wait
<1>1. Made(t, w)
  BY DEF ThreadInv
<1>2. CASE thread[t].at = "idle"
  BY <1>2 DEF Made
<1>3. CASE thread[t].at # "idle"
  <2>1. w \in Ids /\ w \in Ids'
    BY <1>1, <1>3, LenProperties DEF Made, WaitsStep, Ids, Types
  <2>2. Later(waits[w], waits'[w])
    BY <2>1 DEF WaitsStep
  <2>3. w \in pending \cup ui.taken =>
            waits'[w].result # "none" \/ w \in pending' \cup ui'.taken
    BY <2>1 DEF Kept
  <2>4. thread'[t].at = thread[t].at /\ thread'[t].wait = w
    OBVIOUS
  <2>5. thread[t].at \in {"dismissing", "answered", "scanned"} =>
            /\ waits[w].kind = "question" /\ waits'[w].kind = "question"
            /\ waits[w].result # "none" /\ waits'[w].result = waits[w].result
    BY <1>1, <2>2 DEF Made, Later
  <2>6. thread[t].at \in {"posting", "waiting"} /\ waits'[w].result = "none" =>
            w \in pending' \cup ui'.taken
    BY <1>1, <2>2, <2>3 DEF Made, Later
  <2>7. thread[t].at = "scanned" /\ waits'[w].result = "yes" => waits'[w].said <= waits'[w].after
    BY <1>1, <2>2, <2>5 DEF Made, Later
  <2> QED BY <2>1, <2>4, <2>5, <2>6, <2>7 DEF Made
<1> QED BY <1>2, <1>3

LEMMA OneThread ==
    ASSUME Types, ThreadInv, WaitsStep, Kept, NEW t \in Threads,
           NEW v \in [at : Places, wait : Nat],
           thread' = [thread EXCEPT ![t] = v], Made(t, v.wait)'
    PROVE  ThreadInv' /\ thread' \in [Threads -> [at : Places, wait : Nat]]
<1>1. ASSUME NEW s \in Threads PROVE Made(s, thread[s].wait)'
  <2>1. CASE s = t
    BY <2>1 DEF Types
  <2>2. CASE s # t
    <3>1. thread'[s] = thread[s]
      BY <2>2 DEF Types
    <3> QED BY <3>1, ThreadsStay
  <2> QED BY <2>1, <2>2
<1>2. thread' \in [Threads -> [at : Places, wait : Nat]]
  BY DEF Types
<1> QED BY <1>1, <1>2 DEF ThreadInv

LEMMA NoThread ==
    ASSUME Types, ThreadInv, WaitsStep, Kept, UNCHANGED thread
    PROVE  ThreadInv'
BY ThreadsStay DEF ThreadInv
LEMMA NotMoved ==
    ASSUME Types, NEW t \in Threads, NEW place \in Places, Moves(t, place)
    PROVE  thread' = [thread EXCEPT ![t] = [at |-> place, wait |-> thread[t].wait]]
<1>1. [thread[t] EXCEPT !.at = place] = [at |-> place, wait |-> thread[t].wait]
  BY DEF Types
<1> QED BY <1>1 DEF Moves, Types

LEMMA QuitStays ==
    ASSUME Types, QuitInv, WaitsStep, pending' \subseteq pending, UNCHANGED <<closed, ui>>
    PROVE  QuitInv'
<1>1. \A w \in Ids : w \in Ids' /\ waits'[w].kind = waits[w].kind
  BY LenProperties DEF Types, WaitsStep, Ids, Later
<1> QED BY <1>1 DEF QuitInv

\* A step of a thread that leaves the event loop alone.
LEMMA ThreadStep ==
    ASSUME Inv, WaitsStep, NEW t \in Threads, NEW v \in [at : Places, wait : Nat],
           thread' = [thread EXCEPT ![t] = v], Made(t, v.wait)', Kept,
           pending' \subseteq pending, UNCHANGED <<tasks, running, closed, ui, workspace>>
    PROVE  Inv'
<1>1. ThreadInv' /\ thread' \in [Threads -> [at : Places, wait : Nat]]
  BY OneThread DEF Inv
<1>2. QuitInv'
  BY QuitStays DEF Inv
<1>3. Types'
  BY <1>1 DEF Inv, Types, WaitsStep
<1> QED BY <1>1, <1>2, <1>3 DEF Inv, WaitsStep

\* A step of the event loop or of the person that leaves the quit alone.
LEMMA ScreenStep ==
    ASSUME Inv, WaitsStep, tasks' \in Nat, running' \in Nat,
           UNCHANGED <<closed, pending, ui, thread, workspace>>
    PROVE  Inv'
<1>1. Kept
  BY DEF Kept
<1>2. ThreadInv'
  BY <1>1, NoThread DEF Inv
<1>3. QuitInv'
  BY QuitStays DEF Inv
<1>4. Types'
  BY DEF Inv, Types, WaitsStep
<1> QED BY <1>2, <1>3, <1>4 DEF Inv, WaitsStep

\* A new wait behind waits that were kept or refused.
LEMMA RegisterStep ==
    ASSUME Inv, NEW t \in Threads, NEW ws \in Seq(Wait), Len(ws) = Len(waits),
           \A w \in Ids : Good(waits[w], ws[w]), NEW kind \in {"approval", "question"},
           Register(t, ws, kind), UNCHANGED <<tasks, running, closed, ui, workspace>>
    PROVE  Inv'
<1>1. CASE kind \in closed
  BY <1>1, SameWaits, ScreenStep DEF Register, Inv, Types
<1>2. CASE kind \notin closed
  <2>a. Len(waits) \in Nat
    BY LenProperties DEF Inv, Types
  <2> PICK n \in Nat : n = Len(waits) + 1
    BY <2>a
  <2> DEFINE r == NewWait(kind)
  <2>1. /\ waits' = Append(ws, r) /\ pending' = pending \cup {n}
        /\ thread' = [thread EXCEPT ![t] = [at |-> "posting", wait |-> n]]
    BY <1>2 DEF Register
  <2>2. r \in Wait /\ Fit(r, Now) /\ r.kind = kind
    <3>1. r \in Wait
      BY NowIsNat DEF NewWait, Wait, Results, Inv, Types
    <3>2. Fit(r, Now) /\ r.kind = kind
      BY NowIsNat DEF NewWait, Fit, Counts, Inv, Types
    <3> QED BY <3>1, <3>2
  <2> HIDE DEF r
  <2>4. /\ waits' \in Seq(Wait) /\ Len(waits') = n /\ waits'[n] = r
        /\ \A w \in Ids : waits'[w] = ws[w]
    BY <2>1, <2>2, <2>a DEF Ids
  <2>5. Ids' = Ids \cup {n}
    BY <2>a, <2>4 DEF Ids
  <2>6. WaitsStep
    <3>1. Now' = Now
      BY DEF Now
    <3> QED BY <2>2, <2>a, <2>4, <2>5, <3>1 DEF WaitsStep, WaitsInv, Good
  <2>7. Kept
    BY <2>1 DEF Kept
  <2>8. Made(t, n)'
    BY <2>1, <2>5 DEF Made, Inv, Types
  <2>9. ThreadInv' /\ thread' \in [Threads -> [at : Places, wait : Nat]]
    <3> DEFINE v == [at |-> "posting", wait |-> n]
    <3>1. v \in [at : Places, wait : Nat] /\ v.wait = n
      BY DEF Places
    <3>2. thread' = [thread EXCEPT ![t] = v]
      BY <2>1
    <3>3. Made(t, v.wait)'
      BY <2>8, <3>1
    <3> HIDE DEF v
    <3> QED BY <2>6, <2>7, <3>1, <3>2, <3>3, OneThread DEF Inv
  <2>10. QuitInv'
    <3>1. \A w \in Ids : waits'[w].kind = waits[w].kind
      BY <2>6 DEF WaitsStep, Later
    <3> QED BY <1>2, <2>1, <2>2, <2>4, <2>5, <3>1 DEF QuitInv, Inv
  <2>11. Types'
    BY <2>6, <2>9 DEF Inv, Types, WaitsStep
  <2> QED BY <2>6, <2>9, <2>10, <2>11 DEF Inv, WaitsStep
<1> QED BY <1>1, <1>2
\* A thread goes on to another place of its wait.
LEMMA MoveStep ==
    ASSUME Inv, WaitsStep, NEW t \in Threads, NEW place \in Places \ {"idle"},
           NEW w \in Ids, w = thread[t].wait, Moves(t, place),
           place \in {"dismissing", "answered", "scanned"} =>
               waits'[w].kind = "question" /\ waits'[w].result # "none",
           place \in {"posting", "waiting"} /\ waits'[w].result = "none" =>
               w \in pending' \cup ui.taken,
           place = "scanned" /\ waits'[w].result = "yes" => waits'[w].said <= waits'[w].after,
           UNCHANGED <<tasks, running, closed, pending, ui, workspace>>
    PROVE  Inv'
<1> DEFINE v == [at |-> place, wait |-> w]
<1>1. Len(waits) \in Nat /\ w \in Nat /\ w \in Ids'
  BY LenProperties DEF Inv, Types, WaitsStep, Ids
<1>2. v \in [at : Places, wait : Nat] /\ v.wait = w /\ v.at = place
  BY <1>1
<1>3. thread' = [thread EXCEPT ![t] = v]
  BY NotMoved DEF Inv
<1>4. Made(t, w)'
  <2>1. thread'[t].at = place
    BY <1>2, <1>3 DEF Inv, Types
  <2> QED BY <1>1, <2>1 DEF Made
<1> HIDE DEF v
<1>5. Kept
  BY DEF Kept
<1> QED BY <1>2, <1>3, <1>4, <1>5, ThreadStep

\* What a thread that has begun a wait knows of it.
LEMMA OwnWait ==
    ASSUME Inv, NEW t \in Threads, thread[t].at # "idle"
    PROVE  LET w == thread[t].wait IN
           /\ w \in Ids /\ waits[w] \in Wait /\ Fit(waits[w], Now) /\ Made(t, w)
BY ElementOfSeq DEF Inv, Types, ThreadInv, WaitsInv, Made, Ids

LEMMA KnownWait ==
    ASSUME Inv, NEW w \in Ids
    PROVE  waits[w] \in Wait /\ Fit(waits[w], Now)
BY ElementOfSeq DEF Inv, Types, WaitsInv, Ids
-----------------------------------------------------------------------------
(* The steps *)

LEMMA InitInv == Init => Inv
<1> SUFFICES ASSUME Init PROVE Inv
  OBVIOUS
<1>1. waits \in Seq(Wait) /\ Len(waits) = 0
  BY DEF Init
<1>2. Types
  BY <1>1, OriginalAssumption DEF Init, Types, Idle, Places, Handlers
<1> QED BY <1>1, <1>2 DEF Init, Inv, WaitsInv, ThreadInv, QuitInv, Made, Idle, Ids

LEMMA Reflexive == \A n \in Nat : n <= n
OBVIOUS

LEMMA LoopStep ==
    ASSUME Inv, NEW w \in Ids, ShowScreen(w) \/ Decide(w) \/ Deliver(w)
    PROVE  Inv'
<1> DEFINE r == waits[w]
<1>0. r \in Wait /\ Fit(r, Now)
  BY KnownWait
<1>1. CASE ShowScreen(w)
  <2>1. PICK q : Good(r, q) /\ waits' = [waits EXCEPT ![w] = q]
    <3>1. Good(r, [r EXCEPT !.ask = "shown"])
      BY <1>0, AskIsGood
    <3>2. Good(r, [Close(r) EXCEPT !.ask = "gone"])
      <4>1. Good(r, Close(r)) /\ Close(r).result # "none" /\ Close(r) \in Wait
        BY <1>0, CloseIsGood DEF Good
      <4> QED BY <1>0, <4>1, GoneIsGood
    <3> QED BY <1>1, <3>1, <3>2 DEF ShowScreen
  <2>2. WaitsStep
    BY <1>1, <2>1, OneWait DEF ShowScreen, Inv
  <2> QED BY <1>1, <2>2, ScreenStep DEF ShowScreen, Inv, Types
<1>2. CASE Decide(w)
  <2>1. PICK q : Good(r, q) /\ waits' = [waits EXCEPT ![w] = q]
    <3>1. PICK value \in {"yes", "no", "cancelled", "timed out"} :
             waits' = [waits EXCEPT ![w] =
                 LET d == Dismissed(r, value) IN
                 IF d.kind = "question" /\ d.result = "none"
                 THEN [d EXCEPT !.said = Now] ELSE d]
      BY <1>2 DEF Decide
    <3> DEFINE d == Dismissed(r, value)
               e == IF d.kind = "question" /\ d.result = "none"
                    THEN [d EXCEPT !.said = Now] ELSE d
    <3>a. Now \in Nat
      BY NowIsNat DEF Inv
    <3>2. Good(r, e)
      <4>1. CASE r.kind = "question" /\ r.result = "none"
        <5>1. /\ e \in Wait /\ e.kind = r.kind /\ e.result = r.result /\ e.first = r.first
              /\ e.verdict = r.verdict /\ e.before = r.before /\ e.said = Now
              /\ e.ask = "dismissed" => e.value # "none"
          <6>1. CASE r.ask = "shown"
            <7>1. d = [r EXCEPT !.ask = "dismissed", !.value = value]
              BY <6>1 DEF Dismissed
            <7>2. d \in Wait /\ d.kind = r.kind /\ d.result = r.result /\ d.value = value
              BY <1>0, <7>1 DEF Wait
            <7>3. e = [r EXCEPT !.ask = "dismissed", !.value = value, !.said = Now]
              BY <4>1, <7>1, <7>2
            <7> QED BY <1>0, <3>a, <7>3, ZenonT(40) DEF Wait
          <6>2. CASE r.ask # "shown"
            <7>1. e = [r EXCEPT !.said = Now]
              BY <4>1, <6>2 DEF Dismissed
            <7> QED BY <1>0, <3>a, <7>1 DEF Wait, Fit
          <6> QED BY <6>1, <6>2
        <5> HIDE DEF e
        <5>2. Now <= Now
          BY <3>a, Reflexive
        <5>3. Later(r, e)
          BY <4>1, <5>1 DEF Later
        <5>4. Fit(e, Now)
          BY <1>0, <4>1, <5>1, <5>2 DEF Fit, Counts
        <5> QED BY <5>1, <5>3, <5>4 DEF Good
      <4>2. CASE ~(r.kind = "question" /\ r.result = "none")
        <5>1. Good(r, r)
          BY <1>0, SameIsGood
        <5>2. Good(r, d) /\ d.result = r.result
          BY <1>0, <4>2, <5>1, DismissedIsGood
        <5>3. d.kind = r.kind
          BY <5>2 DEF Good, Later
        <5> QED BY <4>2, <5>2, <5>3
      <4> QED BY <4>1, <4>2
    <3> QED BY <3>1, <3>2
  <2>2. WaitsStep
    BY <1>2, <2>1, OneWait DEF Decide, Inv
  <2> QED BY <1>2, <2>2, ScreenStep DEF Decide, Inv, Types
<1>3. CASE Deliver(w)
  <2> DEFINE d == Resolve(r, "person", r.value)
  <2>1. Good(r, d) /\ d.result # "none"
    <3>1. r.ask = "dismissed" /\ r.value # "none"
      BY <1>0, <1>3 DEF Deliver, Fit
    <3>2. r.value \in Results \ {"none"}
      BY <1>0, <3>1 DEF Wait, Results
    <3>3. r.kind = "question" /\ r.result = "none" /\ r.value = "yes" =>
              r.before <= r.said /\ r.said <= Now
      BY <1>0, <3>1 DEF Fit, Counts
    <3> QED BY <1>0, <3>2, <3>3, ResolveIsGood
  <2>2. Good(r, [d EXCEPT !.ask = "gone", !.value = "none"])
    BY <1>0, <2>1, DeliveredIsGood DEF Good
  <2>3. waits' = [waits EXCEPT ![w] = [d EXCEPT !.ask = "gone", !.value = "none"]]
    BY <1>3 DEF Deliver
  <2>4. WaitsStep
    BY <1>3, <2>2, <2>3, OneWait DEF Deliver, Inv
  <2> QED BY <1>3, <2>4, ScreenStep DEF Deliver, Inv, Types
<1> QED BY <1>1, <1>2, <1>3
LEMMA TaskStep ==
    ASSUME Inv, StartTask \/ EndTask \/ TaskAsks \/ CommandAsks \/ Edit
    PROVE  Inv'
<1>0. Types /\ WaitsInv /\ waits \in Seq(Wait) /\ Len(waits) \in Nat
  BY LenProperties DEF Inv, Types
<1>1. CASE StartTask
  <2>1. WaitsStep
    <3> DEFINE f == ExclusiveCancels(waits)
    <3>1. f \in [1 .. Len(waits) -> Wait] /\ \A w \in Ids : Good(waits[w], f[w])
      BY <1>0, ExclusiveIsGood
    <3>2. waits' = f /\ UNCHANGED workspace
      BY <1>1 DEF StartTask
    <3> HIDE DEF f
    <3> QED BY <1>0, <3>1, <3>2, EachWait
  <2> QED BY <1>0, <1>1, <2>1, ScreenStep DEF StartTask, Types
<1>2. CASE EndTask
  <2>1. WaitsStep
    BY <1>0, <1>2, SameWaits DEF EndTask
  <2> QED BY <1>0, <1>2, <2>1, ScreenStep DEF EndTask, Types
<1>3. CASE TaskAsks
  <2>1. \A w \in Ids : Good(waits[w], waits[w])
    BY KnownWait, SameIsGood
  <2>2. Agent \in Threads
    BY DEF Threads
  <2>3. PICK kind \in {"approval", "question"} : Register(Agent, waits, kind)
    BY <1>3 DEF TaskAsks
  <2> QED BY <1>0, <1>3, <2>1, <2>2, <2>3, RegisterStep DEF TaskAsks
<1>4. CASE CommandAsks
  <2> DEFINE f == ExclusiveCancels(waits)
  <2>1. f \in [1 .. Len(waits) -> Wait] /\ \A w \in Ids : Good(waits[w], f[w])
    BY <1>0, ExclusiveIsGood
  <2>2. Register(Beside, f, "approval")
    BY <1>4 DEF CommandAsks
  <2> HIDE DEF f
  <2>3. f \in Seq(Wait) /\ Len(f) = Len(waits)
    BY <1>0, <2>1
  <2>4. Beside \in Threads
    BY DEF Threads
  <2> QED BY <1>4, <2>1, <2>2, <2>3, <2>4, RegisterStep DEF CommandAsks
<1>5. CASE Edit
  <2>a. PICK c \in Contents : workspace' = Append(workspace, c) /\ UNCHANGED waits
    BY <1>5 DEF Edit
  <2>b. workspace \in Seq(Contents)
    BY <1>0 DEF Types
  <2>1. workspace' \in Seq(Contents) /\ Now' = Now + 1 /\ UNCHANGED waits
    BY <2>a, <2>b, AppendProperties DEF Now
  <2>2. Now \in Nat /\ Now' \in Nat
    BY <1>0, <2>1, NowIsNat
  <2>3. ASSUME NEW w \in Ids PROVE Fit(waits[w], Now') /\ Later(waits[w], waits[w])
    <3>1. Fit(waits[w], Now) /\ waits[w].before \in Nat /\ waits[w].said \in Nat
      BY KnownWait DEF Wait
    <3> QED BY <2>1, <2>2, <3>1 DEF Fit, Later
  <2>4. WaitsStep
    BY <1>0, <2>1, <2>3 DEF WaitsStep, WaitsInv, Ids
  <2>5. Kept
    BY <1>5 DEF Kept, Edit
  <2>6. ThreadInv'
    BY <1>5, <2>4, <2>5, NoThread DEF Inv, Edit
  <2>7. QuitInv'
    BY <1>5, <2>4, QuitStays DEF Inv, Edit
  <2>8. Types'
    BY <1>5, <2>1 DEF Inv, Types, Edit
  <2> QED BY <2>4, <2>6, <2>7, <2>8 DEF Inv, WaitsStep
<1> QED BY <1>1, <1>2, <1>3, <1>4, <1>5

\* The waits that a handler has taken over get a result.
LEMMA EndTakenStep ==
    ASSUME Inv, NEW ACTION next, EndTaken(next), UNCHANGED workspace
    PROVE  /\ WaitsStep /\ next /\ Ids' = Ids
           /\ \A w \in Ids \cap ui.taken : waits'[w].result # "none"
<1> DEFINE Gone(w) == ui.at # "approvals" /\ Top(w) /\ waits[w].kind = "question"
           Refused(w) == IF w \in ui.taken THEN Cancel(waits[w]) ELSE waits[w]
           f == [w \in DOMAIN waits |-> IF Gone(w) THEN Dismissed(Refused(w), "cancelled")
                                        ELSE Refused(w)]
<1>1. DOMAIN waits = 1 .. Len(waits) /\ Types /\ Len(waits) \in Nat
  BY LenProperties DEF Inv, Types
<1>2. waits' = f /\ next
  BY DEF EndTaken
<1>3. ASSUME NEW w \in Ids
      PROVE  Good(waits[w], f[w]) /\ (w \in ui.taken => f[w].result # "none")
  <2>1. waits[w] \in Wait /\ Fit(waits[w], Now)
    BY KnownWait
  <2>2. /\ Good(waits[w], Refused(w)) /\ Refused(w) \in Wait
        /\ w \in ui.taken => Refused(w).result # "none"
    BY <2>1, CloseIsGood, SameIsGood DEF Good
  <2>3. f[w] = IF Gone(w) THEN Dismissed(Refused(w), "cancelled") ELSE Refused(w)
    BY <1>1 DEF Ids
  <2> HIDE DEF f, Gone, Refused
  <2>4. CASE Gone(w)
    BY <2>1, <2>2, <2>3, <2>4, DismissedIsGood
  <2>5. CASE ~Gone(w)
    BY <2>2, <2>3, <2>5
  <2> QED BY <2>4, <2>5
<1>4. f = [w \in 1 .. Len(waits) |-> f[w]]
  BY <1>1
<1> HIDE DEF f
<1>5. f \in [1 .. Len(waits) -> Wait]
  BY <1>3, <1>4 DEF Good, Ids
<1>6. WaitsStep /\ Len(waits') = Len(waits)
  BY <1>1, <1>2, <1>3, <1>5, EachWait
<1> QED BY <1>2, <1>3, <1>6 DEF Ids

LEMMA HandlerStep ==
    ASSUME Inv,
           \/ PersonCancels \/ CancelQuestions \/ Quit
           \/ QuitApprovals \/ QuitQuestions \/ Exit
    PROVE  Inv'
<1>0. Types /\ WaitsInv /\ ThreadInv /\ QuitInv /\ Len(waits) \in Nat
  BY LenProperties DEF Inv, Types
<1>a. SUFFICES WaitsStep /\ Kept /\ QuitInv' /\ Types'
  <2>1. UNCHANGED thread
    BY DEF PersonCancels, CancelQuestions, Quit, QuitApprovals, QuitQuestions, Exit
  <2>2. ThreadInv'
    BY <1>0, <1>a, <2>1, NoThread
  <2> QED BY <1>a, <2>2 DEF Inv, WaitsStep
<1>1. CASE PersonCancels
  <2>1. WaitsStep
    BY <1>0, <1>1, SameWaits DEF PersonCancels
  <2>2. ui.taken = {}
    BY <1>0, <1>1 DEF PersonCancels, QuitInv
  <2>3. Kept
    <3>1. pending \subseteq pending' \cup ui'.taken
      BY <1>1 DEF PersonCancels
    <3> QED BY <2>2, <3>1 DEF Kept
  <2>4. QuitInv' /\ Types'
    BY <1>0, <1>1 DEF PersonCancels, QuitInv, Types, Handlers, Ids
  <2> QED BY <2>1, <2>3, <2>4
<1>2. CASE CancelQuestions
  <2>1. /\ WaitsStep /\ Ids' = Ids /\ ui' = [at |-> "loop", taken |-> {}]
        /\ \A w \in Ids \cap ui.taken : waits'[w].result # "none"
    BY <1>2, EndTakenStep DEF CancelQuestions
  <2>2. Kept
    BY <1>2, <2>1 DEF Kept, CancelQuestions
  <2>3. QuitInv'
    <3>1. \A w \in Ids : waits'[w].kind = waits[w].kind
      BY <2>1 DEF WaitsStep, Later
    <3> QED BY <1>0, <1>2, <2>1, <3>1 DEF CancelQuestions, QuitInv
  <2>4. Types'
    BY <1>0, <1>2, <2>1 DEF CancelQuestions, Types, WaitsStep, Handlers
  <2> QED BY <2>1, <2>2, <2>3, <2>4
<1>3. CASE Quit
  <2>1. WaitsStep
    BY <1>0, <1>3, SameWaits DEF Quit
  <2>2. ui.taken = {}
    BY <1>0, <1>3 DEF Quit, QuitInv
  <2>3. Kept
    <3>1. pending \subseteq pending' \cup ui'.taken
      BY <1>3 DEF Quit, TakeOver
    <3> QED BY <2>2, <3>1 DEF Kept
  <2>4. QuitInv' /\ Types'
    BY <1>0, <1>3 DEF Quit, TakeOver, QuitInv, Types, Handlers, Ids
  <2> QED BY <2>1, <2>3, <2>4
<1>4. CASE QuitApprovals
  <2>1. /\ WaitsStep /\ Ids' = Ids /\ TakeOver("question", "questions")
        /\ \A w \in Ids \cap ui.taken : waits'[w].result # "none"
    BY <1>4, EndTakenStep DEF QuitApprovals
  <2>2. Kept
    <3>1. pending \subseteq pending' \cup ui'.taken
      BY <2>1 DEF TakeOver
    <3> QED BY <2>1, <3>1 DEF Kept
  <2>3. QuitInv'
    <3>1. \A w \in Ids : waits'[w].kind = waits[w].kind
      BY <2>1 DEF WaitsStep, Later
    <3> QED BY <1>0, <2>1, <3>1 DEF TakeOver, QuitInv
  <2>4. Types'
    BY <1>0, <1>4, <2>1 DEF QuitApprovals, TakeOver, Types, WaitsStep, Handlers
  <2> QED BY <2>1, <2>2, <2>3, <2>4
<1>5. CASE QuitQuestions
  <2>1. /\ WaitsStep /\ Ids' = Ids /\ ui' = [at |-> "shutdown", taken |-> {}]
        /\ \A w \in Ids \cap ui.taken : waits'[w].result # "none"
    BY <1>5, EndTakenStep DEF QuitQuestions
  <2>2. Kept
    BY <1>5, <2>1 DEF Kept, QuitQuestions
  <2>3. QuitInv'
    <3>1. \A w \in Ids : waits'[w].kind = waits[w].kind
      BY <2>1 DEF WaitsStep, Later
    <3> QED BY <1>0, <1>5, <2>1, <3>1 DEF QuitQuestions, QuitInv
  <2>4. Types'
    BY <1>0, <1>5, <2>1 DEF QuitQuestions, Types, WaitsStep, Handlers
  <2> QED BY <2>1, <2>2, <2>3, <2>4
<1>6. CASE Exit
  <2>1. WaitsStep /\ Ids' = Ids
    <3> DEFINE f == ExclusiveCancels(waits)
    <3>1. f \in [1 .. Len(waits) -> Wait] /\ \A w \in Ids : Good(waits[w], f[w])
      BY <1>0, ExclusiveIsGood
    <3>2. waits' = f /\ UNCHANGED workspace
      BY <1>6 DEF Exit
    <3> HIDE DEF f
    <3> QED BY <1>0, <3>1, <3>2, EachWait DEF Ids
  <2>2. ui.taken = {}
    BY <1>0, <1>6 DEF Exit, QuitInv
  <2>3. Kept
    BY <1>6, <2>2 DEF Kept, Exit
  <2>4. QuitInv'
    <3>1. \A w \in Ids : waits'[w].kind = waits[w].kind
      BY <2>1 DEF WaitsStep, Later
    <3> QED BY <1>0, <1>6, <2>1, <3>1 DEF Exit, QuitInv
  <2>5. Types'
    BY <1>0, <1>6, <2>1 DEF Exit, Types, WaitsStep, Handlers
  <2> QED BY <2>1, <2>3, <2>4, <2>5
<1> QED BY <1>1, <1>2, <1>3, <1>4, <1>5, <1>6
\* The thread returns with a verdict on the result r.
LEMMA ReturnStep ==
    ASSUME Inv, NEW t \in Threads, thread[t].at # "idle", NEW r,
           Good(waits[thread[t].wait], r), NEW verdict \in {"yes", "no"},
           verdict = "yes" => r.result = "yes", Return(t, r, verdict),
           UNCHANGED <<tasks, running, closed, pending, ui, workspace>>
    PROVE  Inv'
<1>1. PICK w \in Ids : w = thread[t].wait
  BY OwnWait
<1>2. Good(waits[w], [r EXCEPT !.verdict = verdict])
  BY <1>1, KnownWait, VerdictIsGood DEF Good
<1>3. waits' = [waits EXCEPT ![w] = [r EXCEPT !.verdict = verdict]] /\ Moves(t, "leaving")
  BY <1>1 DEF Return
<1>4. WaitsStep
  BY <1>2, <1>3, OneWait DEF Inv
<1> QED BY <1>1, <1>3, <1>4, MoveStep DEF Places

LEMMA PollStep ==
    ASSUME Inv, NEW t \in Threads,
           RunRequest(t) \/ PollToken(t) \/ PollResult(t) \/ Expire(t) \/ GiveUp(t)
    PROVE  Inv'
<1>0. thread[t].at # "idle"
  BY DEF RunRequest, PollToken, PollResult, Expire, GiveUp
<1>1. PICK w \in Ids : w = thread[t].wait
  BY <1>0, OwnWait
<1>2. waits[w] \in Wait /\ Fit(waits[w], Now) /\ Made(t, w)
  BY <1>0, <1>1, OwnWait
<1>3. Good(waits[w], waits[w])
  BY <1>2, SameIsGood
<1>4. /\ Good(waits[w], Close(waits[w])) /\ Close(waits[w]).result # "none"
      /\ Good(waits[w], Cancel(waits[w])) /\ Cancel(waits[w]).result # "none"
  BY <1>2, CloseIsGood
<1>5. CASE RunRequest(t)
  <2>1. PICK q : Good(waits[w], q) /\ waits' = [waits EXCEPT ![w] = q]
                 /\ (q.result = waits[w].result \/ q.result # "none")
    <3>1. CASE waits' = [waits EXCEPT ![w].ask = "scheduled"]
      <4>1. Good(waits[w], [waits[w] EXCEPT !.ask = "scheduled"])
        BY <1>2, AskIsGood
      <4>2. [waits[w] EXCEPT !.ask = "scheduled"].result = waits[w].result
        BY <1>2 DEF Wait
      <4> QED BY <3>1, <4>1, <4>2
    <3>2. CASE waits' = [waits EXCEPT ![w] = [Close(@) EXCEPT !.ask = "gone"]]
      <4>1. Close(waits[w]) \in Wait
        BY <1>4 DEF Good
      <4>2. Good(waits[w], [Close(waits[w]) EXCEPT !.ask = "gone"])
        BY <1>2, <1>4, <4>1, GoneIsGood
      <4>3. [Close(waits[w]) EXCEPT !.ask = "gone"].result = Close(waits[w]).result
        BY <4>1 DEF Wait
      <4> QED BY <1>4, <3>2, <4>2, <4>3
    <3> QED BY <1>1, <1>5, <3>1, <3>2 DEF RunRequest
  <2>2. WaitsStep /\ waits'[w] = q
    BY <1>5, <2>1, OneWait DEF RunRequest, Inv
  <2>3. waits'[w].result = "none" => w \in pending \cup ui.taken
    BY <1>1, <1>2, <1>5, <2>1, <2>2 DEF Made, RunRequest
  <2>4. Moves(t, "waiting") /\ UNCHANGED <<tasks, running, closed, pending, ui, workspace>>
    BY <1>5 DEF RunRequest
  <2> QED BY <1>1, <2>2, <2>3, <2>4, MoveStep DEF Places
<1>6. CASE PollToken(t)
  <2>1. CASE waits[w].kind = "approval"
    BY <1>0, <1>1, <1>4, <1>6, <2>1, ReturnStep DEF PollToken
  <2>2. CASE waits[w].kind # "approval"
    <3>1. Return(t, Cancel(waits[w]), IF Cancel(waits[w]).result = "yes" THEN "yes" ELSE "no")
      BY <1>1, <1>6, <2>2 DEF PollToken
    <3>2. PICK verdict \in {"yes", "no"} :
              verdict = IF Cancel(waits[w]).result = "yes" THEN "yes" ELSE "no"
      OBVIOUS
    <3>3. Return(t, Cancel(waits[w]), verdict)
      BY <3>1, <3>2
    <3> QED BY <1>0, <1>1, <1>4, <1>6, <3>2, <3>3, ReturnStep DEF PollToken
  <2> QED BY <2>1, <2>2
<1>7. CASE PollResult(t)
  <2>1. PICK verdict \in {"yes", "no"} :
            verdict = IF waits[w].result = "yes" THEN "yes" ELSE "no"
    OBVIOUS
  <2>2. Return(t, waits[w], verdict)
    BY <1>1, <1>7, <2>1 DEF PollResult
  <2> QED BY <1>0, <1>1, <1>3, <1>7, <2>1, <2>2, ReturnStep DEF PollResult
<1>8. CASE Expire(t)
  <2>1. WaitsStep
    BY <1>8, SameWaits DEF Expire, Inv
  <2> QED BY <1>1, <1>8, <2>1, MoveStep DEF Expire, Places
<1>9. CASE GiveUp(t)
  <2>1. CASE waits[w].kind = "approval"
    BY <1>0, <1>1, <1>4, <1>9, <2>1, ReturnStep DEF GiveUp
  <2>2. CASE waits[w].kind # "approval"
    <3> DEFINE q == Resolve(waits[w], "other", "timed out")
    <3>1. Good(waits[w], q) /\ q.result # "none"
      BY <1>2, ResolveIsGood DEF Results
    <3>2. waits' = [waits EXCEPT ![w] = q] /\ Moves(t, "waiting")
      BY <1>1, <1>9, <2>2 DEF GiveUp
    <3> HIDE DEF q
    <3>3. WaitsStep /\ waits'[w] = q
      BY <1>9, <3>1, <3>2, OneWait DEF GiveUp, Inv
    <3> QED BY <1>1, <1>9, <3>1, <3>2, <3>3, MoveStep DEF GiveUp, Places
  <2> QED BY <2>1, <2>2
<1> QED BY <1>5, <1>6, <1>7, <1>8, <1>9
LEMMA LeaveStep ==
    ASSUME Inv, NEW t \in Threads, Leave(t) \/ DismissOwn(t)
    PROVE  Inv'
<1>0. thread[t].at # "idle"
  BY DEF Leave, DismissOwn
<1>1. PICK w \in Ids : w = thread[t].wait
  BY <1>0, OwnWait
<1>2. waits[w] \in Wait /\ Fit(waits[w], Now) /\ Made(t, w)
  BY <1>0, <1>1, OwnWait
<1>3. CASE Leave(t)
  <2> DEFINE q == Close(waits[w])
  <2>1. Good(waits[w], q) /\ q.result # "none" /\ q.kind = waits[w].kind
    BY <1>2, CloseIsGood DEF Good, Later
  <2>2. /\ waits' = [waits EXCEPT ![w] = q] /\ pending' = pending \ {w}
        /\ thread' = [thread EXCEPT ![t] = IF waits[w].kind = "approval" THEN Idle
                                           ELSE [@ EXCEPT !.at = "dismissing"]]
        /\ UNCHANGED <<tasks, running, closed, ui, workspace>>
    BY <1>1, <1>3 DEF Leave
  <2> HIDE DEF q
  <2>3. WaitsStep /\ waits'[w] = q
    BY <2>1, <2>2, OneWait DEF Inv
  <2>4. Kept
    BY <2>1, <2>2, <2>3 DEF Kept
  <2>5. PICK v \in [at : Places, wait : Nat] :
            /\ thread' = [thread EXCEPT ![t] = v]
            /\ v = Idle \/ (v = [at |-> "dismissing", wait |-> w] /\ waits[w].kind = "question")
    <3>1. w \in Nat
      BY LenProperties DEF Inv, Types, Ids
    <3>2. Idle \in [at : Places, wait : Nat]
      BY DEF Idle, Places
    <3>3. [at |-> "dismissing", wait |-> w] \in [at : Places, wait : Nat]
      BY <3>1 DEF Places
    <3>4. [thread[t] EXCEPT !.at = "dismissing"] = [at |-> "dismissing", wait |-> w]
      BY <1>1 DEF Inv, Types
    <3>5. waits[w].kind \in {"approval", "question"}
      BY <1>2 DEF Wait
    <3>6. CASE waits[w].kind = "approval"
      BY <2>2, <3>2, <3>6
    <3>7. CASE waits[w].kind = "question"
      <4>1. thread' = [thread EXCEPT ![t] = [thread[t] EXCEPT !.at = "dismissing"]]
        BY <2>2, <3>7
      <4> QED BY <3>3, <3>4, <3>7, <4>1
    <3> QED BY <3>5, <3>6, <3>7
  <2>6. Made(t, v.wait)'
    <3>1. thread'[t] = v
      BY <2>5 DEF Inv, Types
    <3>2. w \in Ids'
      BY <2>3, LenProperties DEF WaitsStep, Ids, Inv, Types
    <3>3. CASE v = Idle
      BY <3>1, <3>3 DEF Made, Idle
    <3>4. CASE v = [at |-> "dismissing", wait |-> w] /\ waits[w].kind = "question"
      BY <2>1, <2>3, <3>1, <3>2, <3>4 DEF Made
    <3> QED BY <2>5, <3>3, <3>4
  <2> QED BY <2>2, <2>3, <2>4, <2>5, <2>6, ThreadStep
<1>4. CASE DismissOwn(t)
  <2>1. waits[w].kind = "question" /\ waits[w].result # "none"
    BY <1>1, <1>2, <1>4 DEF Made, DismissOwn
  <2>2. WaitsStep /\ waits'[w].kind = "question" /\ waits'[w].result # "none"
    <3>1. CASE waits' = [waits EXCEPT ![w] = Dismissed(@, "cancelled")]
      <4>1. Good(waits[w], Dismissed(waits[w], "cancelled"))
        BY <1>2, SameIsGood, DismissedIsGood
      <4>2. WaitsStep
        BY <1>4, <3>1, <4>1, OneWait DEF DismissOwn, Inv
      <4> QED BY <2>1, <4>2 DEF WaitsStep, Later
    <3>2. CASE UNCHANGED waits
      BY <1>4, <2>1, <3>2, SameWaits DEF DismissOwn, Inv
    <3> QED BY <1>1, <1>4, <3>1, <3>2 DEF DismissOwn
  <2>3. Moves(t, "answered") /\ UNCHANGED <<tasks, running, closed, pending, ui, workspace>>
    BY <1>4 DEF DismissOwn
  <2> QED BY <1>1, <2>2, <2>3, MoveStep DEF Places
<1> QED BY <1>3, <1>4

LEMMA QuestionStep == ASSUME Inv, ScanAgain \/ Adopt PROVE Inv'
<1>0. thread[Agent].at # "idle" /\ Agent \in Threads
  BY DEF ScanAgain, Adopt, Threads
<1>1. PICK w \in Ids : w = thread[Agent].wait
  BY <1>0, OwnWait
<1>2. waits[w] \in Wait /\ Fit(waits[w], Now) /\ Made(Agent, w)
  BY <1>0, <1>1, OwnWait
<1>3. waits[w].kind = "question" /\ waits[w].result # "none"
  BY <1>1, <1>2 DEF Made, ScanAgain, Adopt
<1>4. Now \in Nat
  BY NowIsNat DEF Inv
<1>5. CASE ScanAgain
  <2>1. PICK verdict \in {"none", "yes", "no"} :
            /\ verdict \in {"no", waits[w].verdict}
            /\ waits' = [waits EXCEPT ![w].after = Now, ![w].verdict = verdict]
    <3>1. waits[w].verdict \in {"none", "yes", "no"}
      BY <1>2 DEF Wait
    <3>a. PICK verdict \in {"no", waits[w].verdict} :
              waits' = [waits EXCEPT ![w].after = Now, ![w].verdict = verdict]
      <4>1. PICK complete \in BOOLEAN :
                waits' = [waits EXCEPT ![w].after = Now,
                    ![w].verdict = IF TokenCancelled(waits[w]) \/ ~complete THEN "no" ELSE @]
        BY <1>1, <1>5 DEF ScanAgain
      <4>2. CASE TokenCancelled(waits[w]) \/ ~complete
        BY <4>1, <4>2
      <4>3. CASE ~(TokenCancelled(waits[w]) \/ ~complete)
        <5>1. waits' = [waits EXCEPT ![w].after = Now, ![w].verdict = @]
          BY <4>1, <4>3
        <5>2. w \in DOMAIN waits
          BY LenProperties DEF Inv, Types, Ids
        <5> QED BY <1>2, <5>1, <5>2 DEF Wait
      <4> QED BY <4>2, <4>3
    <3> QED BY <3>1, <3>a
  <2> DEFINE q == [waits[w] EXCEPT !.after = Now, !.verdict = verdict]
  <2>2. q \in Wait
    BY <1>2, <1>4 DEF Wait
  <2>3. /\ q.kind = waits[w].kind /\ q.ask = waits[w].ask /\ q.value = waits[w].value
        /\ q.result = waits[w].result /\ q.first = waits[w].first /\ q.before = waits[w].before
        /\ q.said = waits[w].said /\ q.after = Now /\ q.verdict = verdict
    BY <1>2 DEF Wait
  <2>4. waits' = [waits EXCEPT ![w] = q]
    BY <2>1
  <2> HIDE DEF q
  <2>5. waits[w].result = "yes" => waits[w].said <= Now
    BY <1>2, <1>3 DEF Fit, Counts
  <2>6. Good(waits[w], q)
    BY <1>2, <2>1, <2>2, <2>3, <2>5 DEF Good, Fit, Counts, Later
  <2>7. WaitsStep /\ waits'[w] = q
    BY <1>5, <2>4, <2>6, OneWait DEF ScanAgain, Inv
  <2>8. /\ Moves(Agent, "scanned")
        /\ UNCHANGED <<tasks, running, closed, pending, ui, workspace>>
    BY <1>5 DEF ScanAgain
  <2> QED BY <1>0, <1>1, <1>3, <2>3, <2>5, <2>7, <2>8, MoveStep DEF Places
<1>6. CASE Adopt
  <2>1. PICK verdict \in {"yes", "no"} :
            /\ verdict = "yes" => waits[w].result = "yes"
            /\ waits' = [waits EXCEPT ![w] = [Ended(waits[w]) EXCEPT !.verdict = verdict]]
    <3>1. Ended(waits[w]).verdict = waits[w].verdict
      BY <1>2 DEF Ended, Wait
    <3>2. waits[w].verdict = "yes" => waits[w].result = "yes"
      BY <1>2 DEF Fit
    <3>3. waits' = [waits EXCEPT ![w] = [Ended(waits[w]) EXCEPT !.verdict =
              IF waits[w].verdict = "yes" /\ ~TokenCancelled(waits[w]) /\ StableSnapshots(waits[w])
              THEN "yes" ELSE "no"]]
      BY <1>1, <1>6 DEF Adopt
    <3> DEFINE z == IF waits[w].verdict = "yes" /\ ~TokenCancelled(waits[w])
                       /\ StableSnapshots(waits[w]) THEN "yes" ELSE "no"
    <3>4. waits' = [waits EXCEPT ![w] = [Ended(waits[w]) EXCEPT !.verdict = z]]
      BY <3>1, <3>3
    <3>5. z \in {"yes", "no"} /\ (z = "yes" => waits[w].result = "yes")
      BY <3>2
    <3> HIDE DEF z
    <3> QED BY <3>4, <3>5
  <2> DEFINE e == Ended(waits[w])
  <2>2. /\ e \in Wait /\ e.kind = waits[w].kind /\ e.ask = waits[w].ask
        /\ e.value = waits[w].value /\ e.result = waits[w].result /\ e.first = waits[w].first
        /\ e.verdict = waits[w].verdict /\ e.before = 0 /\ e.said = 0 /\ e.after = 0
    BY <1>2 DEF Ended, Wait
  <2>3. Good(waits[w], e)
    <3> HIDE DEF e
    <3> QED BY <1>2, <1>4, <2>2 DEF Good, Fit, Counts, Later
  <2>4. Good(waits[w], [e EXCEPT !.verdict = verdict])
    BY <1>2, <2>1, <2>2, <2>3, VerdictIsGood
  <2>5. WaitsStep
    BY <1>6, <2>1, <2>4, OneWait DEF Adopt, Inv
  <2>6. PICK v \in [at : Places, wait : Nat] : v = Idle
    BY DEF Idle, Places
  <2>7. /\ thread' = [thread EXCEPT ![Agent] = v]
        /\ UNCHANGED <<tasks, running, closed, pending, ui, workspace>>
    BY <1>6, <2>6 DEF Adopt
  <2>8. Made(Agent, v.wait)'
    BY <1>0, <2>6, <2>7 DEF Made, Idle, Inv, Types
  <2>9. Kept
    BY <2>7 DEF Kept
  <2> QED BY <1>0, <2>5, <2>7, <2>8, <2>9, ThreadStep
<1> QED BY <1>5, <1>6

LEMMA StepInv == Inv /\ [Next]_vars => Inv'
<1> SUFFICES ASSUME Inv, [Next]_vars PROVE Inv'
  OBVIOUS
<1>1. CASE Next
  BY <1>1, TaskStep, HandlerStep, LoopStep, PollStep, LeaveStep, QuestionStep DEF Next
<1>2. CASE UNCHANGED vars
  <2>1. WaitsStep
    BY <1>2, SameWaits DEF vars, Inv
  <2> QED BY <1>2, <2>1, ScreenStep DEF vars, Inv, Types
<1> QED BY <1>1, <1>2
-----------------------------------------------------------------------------
(* The theorems *)

\* The invariant from which the others follow.
THEOREM Waits == Spec => []Inv
BY InitInv, StepInv, PTL DEF Spec

\* A wait that returns a consent was decided by a person before anything else ended
\* it: a timeout, a cancellation, a quit or a lost screen is never overtaken.
THEOREM LateNeverCounts == Spec => []LateIsLost
<1>1. Inv => LateIsLost
  BY DEF Inv, WaitsInv, Fit, LateIsLost
<1> QED BY <1>1, Waits, PTL

\* No thread is left waiting for a kind of request that a quit has closed.
THEOREM QuitLeavesNobody == Spec => []QuitReleases
<1>1. Inv => QuitReleases
  <2> SUFFICES ASSUME Inv, NEW t \in Threads,
                      thread[t].at \in {"posting", "waiting"},
                      waits[thread[t].wait].kind \in closed,
                      thread[t].wait \notin ui.taken
               PROVE  waits[thread[t].wait].result # "none"
    BY DEF QuitReleases
  <2>1. Made(t, thread[t].wait) /\ QuitInv
    BY DEF Inv, ThreadInv
  <2> QED BY <2>1 DEF Made, QuitInv
<1> QED BY <1>1, Waits, PTL

\* An answer that is used was given about the files of the two scans around its
\* question, or about files that somebody had changed by then and put back later.
THEOREM AnswersAreCurrent == Spec => AnswerIsCurrent
<1>1. ASSUME Inv, [Next]_vars, NEW w \in Ids, thread[Agent] = [at |-> "scanned", wait |-> w],
             thread'[Agent] = Idle, waits'[w].verdict = "yes"
      PROVE  /\ waits[w].first = "person"
             /\ workspace[waits[w].said] = workspace[waits[w].before] \/ PutBack(waits[w])
  <2>1. Adopt
    <3>1. thread[Agent].at = "scanned" /\ thread[Agent] # Idle /\ thread[Agent].at # Idle.at
      BY <1>1 DEF Idle
    <3>2. thread'[Agent] # thread[Agent]
      BY <1>1, <3>1
    <3>a. thread \in [Threads -> [at : Places, wait : Nat]] /\ {Agent, Beside} \subseteq Threads
      BY <1>1 DEF Inv, Types, Threads
    <3>3. ASSUME NEW t \in Threads,
                 RunRequest(t) \/ PollToken(t) \/ PollResult(t) \/ Expire(t) \/ GiveUp(t)
                 \/ Leave(t) \/ DismissOwn(t)
          PROVE  FALSE
      <4>1. t # Agent
        BY <3>1, <3>3 DEF RunRequest, PollToken, PollResult, Expire, GiveUp, Leave, DismissOwn
      <4>2. thread'[Agent] = thread[Agent]
        <5>1. \E v : thread' = [thread EXCEPT ![t] = v]
          BY <3>3 DEF RunRequest, PollToken, PollResult, Expire, GiveUp, Leave,
             DismissOwn, Return, Moves
        <5> QED BY <3>a, <4>1, <5>1
      <4> QED BY <3>2, <4>2
    <3>4. ASSUME CommandAsks PROVE FALSE
      <4>1. Agent # Beside
        BY <3>1, <3>4 DEF CommandAsks
      <4>2. UNCHANGED thread \/ \E v : thread' = [thread EXCEPT ![Beside] = v]
        BY <3>4 DEF CommandAsks, Register
      <4> QED BY <3>2, <3>a, <4>1, <4>2
    <3>5. ~ScanAgain /\ ~TaskAsks
      BY <3>1 DEF ScanAgain, TaskAsks
    <3>6. ASSUME \/ StartTask \/ EndTask \/ Edit \/ PersonCancels \/ CancelQuestions
                 \/ Quit \/ QuitApprovals \/ QuitQuestions \/ Exit
                 \/ \E v \in Ids : ShowScreen(v) \/ Decide(v) \/ Deliver(v)
                 \/ UNCHANGED vars
          PROVE  FALSE
      BY <3>2, <3>6 DEF StartTask, EndTask, Edit, PersonCancels, CancelQuestions, Quit,
         QuitApprovals, QuitQuestions, Exit, ShowScreen, Decide, Deliver, vars
    <3> QED BY <1>1, <3>3, <3>4, <3>5, <3>6 DEF Next
  <2>2. Agent \in Threads /\ thread[Agent].at # "idle" /\ thread[Agent].wait = w
    BY <1>1 DEF Threads
  <2>3. waits[w] \in Wait /\ Fit(waits[w], Now) /\ Made(Agent, w)
    BY <1>1, <2>2, OwnWait
  <2>4. waits[w].verdict = "yes" /\ workspace[waits[w].before] = workspace[waits[w].after]
    <3>1. Ended(waits[w]) \in Wait /\ Ended(waits[w]).verdict = waits[w].verdict
      BY <2>3 DEF Ended, Wait
    <3>2. waits'[w] = [Ended(waits[w]) EXCEPT !.verdict =
              IF waits[w].verdict = "yes" /\ ~TokenCancelled(waits[w]) /\ StableSnapshots(waits[w])
              THEN "yes" ELSE "no"]
      <4>1. w \in DOMAIN waits
        BY <1>1, LenProperties DEF Inv, Types, Ids
      <4>2. waits' = [waits EXCEPT ![w] = [Ended(waits[w]) EXCEPT !.verdict =
                IF waits[w].verdict = "yes" /\ ~TokenCancelled(waits[w]) /\ StableSnapshots(waits[w])
                THEN "yes" ELSE "no"]]
        BY <2>1, <2>2 DEF Adopt
      <4> QED BY <4>1, <4>2
    <3>3. waits'[w].verdict =
              IF waits[w].verdict = "yes" /\ ~TokenCancelled(waits[w]) /\ StableSnapshots(waits[w])
              THEN "yes" ELSE "no"
      BY <3>1, <3>2 DEF Wait
    <3> QED BY <1>1, <3>3 DEF StableSnapshots
  <2>5. waits[w].result = "yes" /\ waits[w].first = "person"
    BY <2>3, <2>4 DEF Fit
  <2>6. waits[w].before <= waits[w].said /\ waits[w].said <= waits[w].after
    BY <1>1, <2>2, <2>3, <2>5 DEF Made, Fit, Counts
  <2>7. waits[w].before \in Nat /\ waits[w].said \in Nat /\ waits[w].after \in Nat
    BY <2>3 DEF Wait
  <2>8. CASE waits[w].said = waits[w].before
    BY <2>5, <2>8
  <2>9. CASE waits[w].said = waits[w].after
    BY <2>4, <2>5, <2>9
  <2>10. CASE waits[w].before < waits[w].said /\ waits[w].said < waits[w].after
    BY <2>4, <2>5, <2>10 DEF PutBack
  <2> QED BY <2>6, <2>7, <2>8, <2>9, <2>10
<1>2. Inv /\ [Next]_vars =>
          [\A w \in Ids :
             /\ thread[Agent] = [at |-> "scanned", wait |-> w]
             /\ thread'[Agent] = Idle /\ waits'[w].verdict = "yes"
             => /\ waits[w].first = "person"
                /\ workspace[waits[w].said] = workspace[waits[w].before] \/ PutBack(waits[w])]_vars
  BY <1>1
<1> QED BY <1>2, Waits, PTL DEF Spec, AnswerIsCurrent
=============================================================================
