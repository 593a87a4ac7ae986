----------------------------- MODULE WindowsJob -----------------------------
(***************************************************************************)
(* The processes of one command, and on Windows the job that holds them    *)
(* (process/control.py, process/windows_job.py).  The job is made while    *)
(* the command's root is suspended; a thread observes the births and exits *)
(* the system announces and keeps a handle of every member it can open in  *)
(* a ledger.  An announcement may be lost, and a process that has exited   *)
(* may not be opened any more: the job is only taken for over when as many *)
(* members as it ever had are in the ledger, each of them has exited, and  *)
(* the observer has ended.  A command has one descendant at most.          *)
(***************************************************************************)
EXTENDS TaskScope, Naturals, FiniteSets, Sequences

VARIABLES
    tree,           \* the command's processes
    job             \* the job, its observer and its ledger

jobVars == <<tree, job>>

Procs == {"root", "child"}
NoTree == [root |-> "none", child |-> "none", escaped |-> FALSE, holds |-> FALSE]
NoJob == [state |-> "none", observer |-> "none", queue |-> <<>>, ledger |-> {"root"},
          broken |-> FALSE, asked |-> FALSE, terminated |-> FALSE, complete |-> FALSE]

JobTypeOK ==
    /\ \A p \in Procs : tree[p] \in {"none", "suspended", "running", "dying", "gone"}
    /\ job.state \in {"none", "made", "assigned", "closed"}
    /\ job.observer \in {"none", "starting", "observing", "done", "dumb"}
    /\ job.ledger \subseteq Procs

JobInit == tree = NoTree /\ job = NoJob

Lives(p) == tree[p] \in {"suspended", "running", "dying"}
Dying(state) == IF state \in {"suspended", "running"} THEN "dying" ELSE state
KilledRoot(t) == [t EXCEPT !.root = Dying(@)]

(* Whoever left the group is not reached. *)
Killed(t) == [KilledRoot(t) EXCEPT !.child = IF t.escaped THEN @ ELSE Dying(@)]

Born == {p \in Procs : tree[p] # "none"}

-----------------------------------------------------------------------------
(* The processes. *)

(* The system announces a birth or an exit to the job's port, or does not; *)
(* for a member of the ledger that makes no difference.                    *)
Announced(p) ==
    \/ /\ job.state = "assigned" /\ p \notin job.ledger
       /\ job' = [job EXCEPT !.queue = Append(@, p)]
    \/ UNCHANGED job

(* The root starts a process, which may hold the pipes its output is read *)
(* from; where there is no job it may leave its group.                     *)
Spawn ==
    /\ tree.root = "running" /\ tree.child = "none"
    /\ \E escaped \in IF plan.windows THEN {FALSE} ELSE BOOLEAN, holds \in BOOLEAN :
          tree' = [tree EXCEPT !.child = "running", !.escaped = escaped, !.holds = holds]
    /\ Announced("child")

(* A process exits by itself or of the signal it was sent. *)
Exits(p) ==
    /\ tree[p] \in {"running", "dying"}
    /\ tree' = [tree EXCEPT ![p] = "gone"]
    /\ Announced(p)

-----------------------------------------------------------------------------
(* The observer. *)

(* It cannot even say that it has begun, or waits for announcements. *)
ObserverBegins ==
    /\ job.observer = "starting" /\ \E o \in {"observing", "dumb"} : job' = [job EXCEPT !.observer = o]
    /\ UNCHANGED tree

(* An announced process is opened and entered, or cannot be opened; the *)
(* observer ends when it is asked to, and when its port fails.          *)
Observe ==
    /\ job.observer = "observing"
    /\ \/ /\ job.queue # <<>>
          /\ LET p == Head(job.queue)
                 rest == [job EXCEPT !.queue = Tail(@)] IN
             job' \in IF p = "stop" THEN {[rest EXCEPT !.observer = "done"]}
                      ELSE {rest, [rest EXCEPT !.ledger = @ \cup {p}]}
       \/ job' = [job EXCEPT !.observer = "done", !.broken = TRUE]
    /\ UNCHANGED tree

-----------------------------------------------------------------------------
(* Making and ending the job, in the thread of the command. *)

(* The port for the announcements cannot be had, or the observer's thread is *)
(* started; it is then waited for.                                           *)
StartObserver(j) == {j, [j EXCEPT !.observer = "starting"]}

(* The job is not made, the root is not put into it, or it is and the job is *)
(* to be observed.                                                           *)
MakeJob ==
    job' \in {job, [job EXCEPT !.state = "made"]} \cup
             StartObserver([job EXCEPT !.state = "assigned"])

(* The members that still live are listed, and entered if they can be opened. *)
Listed == \E members \in SUBSET {p \in Procs : Lives(p)} :
              job' = [job EXCEPT !.ledger = @ \cup members]

TerminateJob ==
    \/ tree' = Killed(tree) /\ job' = [job EXCEPT !.terminated = TRUE]
    \/ UNCHANGED tree /\ job' = [job EXCEPT !.terminated = FALSE]

(* The observer is asked to end once, behind what was announced before. *)
AskObserver ==
    job' = IF job.observer \in {"starting", "observing"} /\ ~job.asked
           THEN [job EXCEPT !.asked = TRUE, !.queue = Append(@, "stop")] ELSE job

ObserverOver == job.observer \in {"none", "done"}
MembersGone == \A p \in job.ledger : tree[p] = "gone"

(* Members that exited are enough. *)
NoneRemains == TRUE

(* The members ever counted are those of the ledger. *)
AllCounted == Cardinality(Born) = Cardinality(job.ledger)

Complete == job.complete \/ (job.terminated /\ ~job.broken /\ MembersGone /\ AllCounted)
=============================================================================
