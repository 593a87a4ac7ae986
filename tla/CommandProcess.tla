--------------------------- MODULE CommandProcess ---------------------------
(***************************************************************************)
(* A tool that runs a process (tools/command.py, tools/search.py,          *)
(* process/control.py, process/cache.py, task_cleanup.py).  It runs in a   *)
(* thread that nobody can stop: the task awaits it, and when the task is   *)
(* interrupted it leaves the thread to its cleanup scope.  The thread      *)
(* starts the process, watches it, ends its tree and waits, for a bounded  *)
(* time, until the processes and the threads that read their output have   *)
(* ended; compiling also has a cache to remove.                            *)
(***************************************************************************)
EXTENDS WindowsJob

VARIABLES
    cmd             \* the tool's thread and what it owns

commandVars == <<tree, job, cmd>>

Worker == <<"command", "thread">>
Process == <<"command", "process">>
Cache == <<"command", "cache">>

Kinds == {"command", "compile", "search", "diff"}
NoCommand == [kind |-> "command", at |-> "idle", why |-> "none", readers |-> "none",
              exceeded |-> FALSE, clean |-> TRUE, failed |-> FALSE, cache |-> "none", again |-> FALSE,
              abandoned |-> FALSE, result |-> "none"]

CommandTypeOK ==
    /\ JobTypeOK
    /\ cmd.kind \in Kinds
    /\ cmd.at \in {"idle", "queued", "preparing", "asking", "launching", "binding",
                   "waiting", "cleaning", "listing", "terminating", "members", "closing", "reaping",
                   "joining", "cached", "deleting", "observing", "ended"}
    /\ cmd.why \in {"none", "exited", "cancelled", "exceeded", "timeout", "error", "unstarted"}
    /\ cmd.readers \in {"none", "reading", "ended"}
    /\ cmd.cache \in {"none", "there", "unknown", "deleting", "stuck", "gone"}
    /\ cmd.result \in {"none", "ok", "replan", "stop", "cancelled"}

CommandInit == JobInit /\ cmd = NoCommand

At(step) == cmd' = [cmd EXCEPT !.at = step]
Working == cmd.at \notin {"idle", "ended"}

(* The tool looks at the task's token; the one for the diff is not given it. *)
SeesCancellation == cancelled /\ cmd.kind # "diff"

(* The thread ends: what it was is no longer the scope's, and what it leaves *)
(* there has failed to be cleaned up.                                        *)
Ends(c, result, sc) ==
    /\ cmd' = [c EXCEPT !.at = "ended", !.result = result]
    /\ scope' = LET rest == Discard(sc, Worker) IN
                IF HasPending(rest) THEN MarkFailed(rest) ELSE rest

Raise(c, sc) == Ends(c, "cancelled", sc)

-----------------------------------------------------------------------------
(* Before the process. *)

(* A task whose scope has something pending is not given another thread. *)
Submit(kind) ==
    IF HasPending(scope)
    THEN cmd' = [NoCommand EXCEPT !.at = "ended", !.result = "stop"] /\ UNCHANGED <<scope, jobVars>>
    ELSE /\ cmd' = [NoCommand EXCEPT !.kind = kind, !.at = "queued"]
         /\ scope' = Retain(scope, Worker)
         /\ tree' = NoTree /\ job' = NoJob

(* A thread that was left before it began does nothing. *)
ThreadBegins ==
    /\ cmd.at = "queued"
    /\ IF cmd.abandoned THEN Ends(cmd, "none", scope) ELSE At("preparing") /\ UNCHANGED scope
    /\ UNCHANGED <<cancelled, jobVars>>

(* A search for a text needs no process: it has been through the files, or *)
(* gives up when its time or one of its budgets is used up.                *)
SearchItself == cmd.kind = "search" /\ \E result \in {"ok", "replan"} : Ends(cmd, result, scope)

(* The process is to be launched; for compiling, with a cache of its own, *)
(* which may not be made, or be made and not be identified.               *)
GoAhead ==
    \/ cmd.kind # "compile" /\ At("launching") /\ UNCHANGED scope
    \/ /\ cmd.kind = "compile"
       /\ \/ cmd' = [cmd EXCEPT !.at = "launching", !.cache = "there"]
             /\ scope' = Retain(scope, Cache)
          \/ Ends([cmd EXCEPT !.cache = "unknown"], "stop", Leave(scope, Cache))

(* The policy or the first scan of the files refuses, no process is needed, *)
(* it goes ahead, or a person is asked to approve of the command.           *)
Prepare ==
    /\ cmd.at = "preparing"
    /\ \/ cancelled /\ Raise(cmd, scope)
       \/ \E result \in {"replan", "stop"} : Ends(cmd, result, scope)
       \/ SearchItself
       \/ GoAhead
       \/ cmd.kind \in {"command", "compile"} /\ At("asking") /\ UNCHANGED scope
    /\ UNCHANGED <<cancelled, jobVars>>

(* The person answers, which on the console no time limit makes them do; the *)
(* task may have been cancelled by then, and the first scan may still refuse. *)
Approve ==
    /\ cmd.at = "asking"
    /\ \/ cancelled /\ Raise(cmd, scope)
       \/ Ends(cmd, "stop", scope)
       \/ GoAhead
    /\ UNCHANGED <<cancelled, jobVars>>

(* Without a process there is a cache to remove, or nothing. *)
NotLaunched(why) ==
    IF cmd.cache = "there"
    THEN cmd' = [cmd EXCEPT !.at = "cached", !.why = why] /\ UNCHANGED scope
    ELSE Ends([cmd EXCEPT !.why = why], IF why = "cancelled" THEN why ELSE "replan", scope)

Launch ==
    /\ cmd.at = "launching"
    /\ IF SeesCancellation THEN NotLaunched("cancelled") /\ UNCHANGED jobVars
       ELSE \/ NotLaunched("unstarted") /\ UNCHANGED jobVars
            \/ /\ plan.windows /\ tree' = [tree EXCEPT !.root = "suspended"]
               /\ MakeJob /\ At("binding") /\ UNCHANGED scope
            \/ /\ ~plan.windows /\ tree' = [tree EXCEPT !.root = "running"]
               /\ cmd' = [cmd EXCEPT !.at = "waiting", !.readers = "reading"]
               /\ UNCHANGED <<scope, job>>
    /\ UNCHANGED cancelled

Stop(why) == cmd' = [cmd EXCEPT !.at = "cleaning", !.why = why]

(* The root runs once it is in the job and is observed; failing that it is *)
(* ended as it is.                                                         *)
Resume ==
    /\ cmd.at = "binding"
    /\ \/ SeesCancellation /\ Stop("cancelled") /\ UNCHANGED tree
       \/ Stop("error") /\ UNCHANGED tree
       \/ /\ job.observer = "observing" /\ tree' = [tree EXCEPT !.root = "running"]
          /\ \/ cmd' = [cmd EXCEPT !.at = "waiting", !.readers = "reading"]
             \/ Stop("error")
    /\ UNCHANGED <<cancelled, scope, job>>

-----------------------------------------------------------------------------
(* The process. *)

(* The output is more than is kept: the reader that found it ends. *)
Exceed ==
    /\ cmd.readers = "reading" /\ ~cmd.exceeded
    /\ cmd' = [cmd EXCEPT !.exceeded = TRUE]
    /\ UNCHANGED <<cancelled, scope, jobVars>>

(* The readers end when nobody can write any more. *)
ReadersEnd ==
    /\ cmd.readers = "reading" /\ ~Lives("root") /\ ~(tree.holds /\ Lives("child"))
    /\ cmd' = [cmd EXCEPT !.readers = "ended"]
    /\ UNCHANGED <<cancelled, scope, jobVars>>

(* The thread looks, in this order, whether the root exited, the task is *)
(* cancelled, the output is too long or the time is over.                *)
Watch ==
    /\ cmd.at = "waiting"
    /\ \/ tree.root = "gone" /\ Stop("exited")
       \/ tree.root # "gone" /\ Stop(IF SeesCancellation THEN "cancelled"
                                     ELSE IF cmd.exceeded THEN "exceeded" ELSE "timeout")
    /\ UNCHANGED <<cancelled, scope, jobVars>>

-----------------------------------------------------------------------------
(* Ending the tree (_ProcessResources.finish, cleanup). *)

(* Every end but that of the process itself, or of a search that takes too *)
(* long, is the task's.                                                    *)
Terminal ==
    \/ cmd.why \in {"cancelled", "error"} \/ cmd.exceeded \/ SeesCancellation
    \/ cmd.why = "timeout" /\ cmd.kind # "search"

(* Where ending the tree begins: a job that is over only has handles to close. *)
FirstStep ==
    CASE job.state = "assigned" -> IF job.complete THEN "closing" ELSE "listing"
      [] job.state = "closed" -> "reaping"
      [] OTHER -> "terminating"

Finish ==
    /\ cmd.at = "cleaning" /\ At(FirstStep)
    /\ scope' = IF Terminal THEN BeginTermination(scope) ELSE scope
    /\ UNCHANGED <<cancelled, jobVars>>

ListMembers ==
    /\ cmd.at = "listing" /\ Listed /\ At("terminating")
    /\ UNCHANGED <<cancelled, scope, tree>>

(* The group is killed, or the job, or, where the root could not be put into *)
(* one, its tree is by another program; that may be refused.                 *)
KillTree ==
    /\ cmd.at = "terminating"
    /\ IF job.state = "assigned"
       THEN TerminateJob /\ At("members")
       ELSE /\ UNCHANGED job
            /\ \/ tree' = Killed(tree) /\ At("reaping")
               \/ UNCHANGED tree /\ cmd' = [cmd EXCEPT !.at = "reaping", !.clean = FALSE]
    /\ UNCHANGED <<cancelled, scope>>

EndObserver ==
    /\ cmd.at = "members" /\ AskObserver /\ At("closing")
    /\ UNCHANGED <<cancelled, scope, tree>>

(* The job is over and its handles are closed, or one cannot be, or it is *)
(* not seen to be over.                                                   *)
CloseJob ==
    /\ cmd.at = "closing"
    /\ \/ /\ ObserverOver /\ Complete /\ job' = [job EXCEPT !.complete = TRUE, !.state = "closed"]
          /\ At("reaping")
       \/ /\ job' = [job EXCEPT !.complete = @ \/ (ObserverOver /\ Complete)]
          /\ cmd' = [cmd EXCEPT !.at = "reaping", !.clean = FALSE]
    /\ UNCHANGED <<cancelled, scope, tree>>

(* A root that still runs is killed by itself; then it is awaited. *)
Reap ==
    /\ cmd.at = "reaping"
    /\ \/ tree' = KilledRoot(tree) /\ At("joining")
       \/ /\ KilledRoot(tree) # tree /\ UNCHANGED tree
          /\ cmd' = [cmd EXCEPT !.at = "joining", !.clean = FALSE]
    /\ UNCHANGED <<cancelled, scope, job>>

(* The root has exited and nothing reads its output any more. *)
Joined == tree.root = "gone" /\ cmd.readers # "reading"

(* What is known of the result once the processes are over. *)
Verdict(c) ==
    IF c.why = "cancelled" THEN "cancelled"
    ELSE IF c.why = "unstarted" \/ (c.why = "error" /\ c.kind = "search") THEN "replan"
    ELSE IF c.why = "error" \/ c.failed THEN "stop"
    ELSE IF c.why # "exited" \/ c.exceeded THEN IF c.kind = "search" THEN "replan" ELSE "stop"
    ELSE "none"

(* A cancellation or a failure is reported; the result of a process that *)
(* exited is looked at.                                                  *)
Report(c, sc) ==
    IF Verdict(c) = "none" THEN cmd' = [c EXCEPT !.at = "observing"] /\ scope' = sc
    ELSE Ends(c, Verdict(c), sc)

(* The cache is still to be removed. *)
Goes(c, sc) ==
    IF c.cache = "there" THEN cmd' = [c EXCEPT !.at = "cached"] /\ scope' = sc
    ELSE Report(c, sc)

(* The cache could not be removed. *)
CacheStays(c) == Report([c EXCEPT !.failed = TRUE], Leave(BeginTermination(scope), Cache))

StartDelete(c) == cmd' = [c EXCEPT !.at = "deleting", !.cache = "deleting"]

(* The tree has ended, or the time for it has: then the task has to end, *)
(* and its scope keeps the process.  A cancellation that came meanwhile  *)
(* counts.                                                               *)
Join ==
    /\ cmd.at = "joining"
    /\ \E clean \in {cmd.clean /\ Joined, FALSE} :
          LET hit == SeesCancellation /\ cmd.why # "error"
              c == [cmd EXCEPT !.failed = ~clean, !.why = IF hit THEN "cancelled" ELSE @]
              sc == IF hit THEN BeginTermination(scope) ELSE scope IN
          /\ clean \/ TimeIsUp
          /\ IF cmd.again
             THEN IF clean THEN StartDelete(cmd) /\ UNCHANGED scope ELSE CacheStays(cmd)
             ELSE Goes(c, IF clean THEN sc ELSE Leave(BeginTermination(sc), Process))
    /\ UNCHANGED <<cancelled, jobVars>>

-----------------------------------------------------------------------------
(* The cache of a compilation (CompileCache), which depends on the process. *)

CacheTerminal == cmd.why # "exited" \/ cmd.failed \/ cmd.exceeded

(* The processes of a command that was cancelled, or that could not be *)
(* ended, are ended once more before it.                               *)
Depends == cmd.failed \/ (cmd.why = "cancelled" /\ cmd.readers # "none")

RemoveCache ==
    /\ cmd.at = "cached"
    /\ scope' = IF CacheTerminal THEN BeginTermination(scope) ELSE scope
    /\ IF Depends THEN cmd' = [cmd EXCEPT !.again = TRUE, !.clean = TRUE, !.at = FirstStep]
       ELSE StartDelete(cmd)
    /\ UNCHANGED <<cancelled, jobVars>>

(* The thread that deletes the directory ends, whoever still waits for it; *)
(* it leaves alone what is not, or not any more, the one that was made.    *)
DeleteEnds ==
    /\ cmd.cache = "deleting"
    /\ \E cache \in {"gone", "stuck"} : cmd' = [cmd EXCEPT !.cache = cache]
    /\ UNCHANGED <<cancelled, scope, jobVars>>

CacheRemoved ==
    /\ cmd.at = "deleting"
    /\ \/ cmd.cache = "gone" /\ Report(cmd, Discard(scope, Cache))
       \/ (cmd.cache = "stuck" \/ TimeIsUp) /\ cmd.cache # "gone" /\ CacheStays(cmd)
    /\ UNCHANGED <<cancelled, jobVars>>

-----------------------------------------------------------------------------
(* What the output of a process that exited amounts to: an answer, or a *)
(* failure that another call may avoid.                                 *)
Answers == {"ok", "replan"}

(* The files are looked at again, where they were before, and the result of *)
(* the process is the tool's; an observation that failed is one to stop at. *)
Observed ==
    LET observes == cmd.kind \in {"command", "compile"} IN
    /\ cmd.at = "observing"
    /\ IF cancelled /\ observes THEN Ends(cmd, "cancelled", scope)
       ELSE \E result \in Answers \cup (IF observes THEN {"stop"} ELSE {}) :
               Ends(cmd, result, scope)
    /\ UNCHANGED <<cancelled, jobVars>>

(* The steps of the tool's thread, and those of what it waits for. *)
ThreadStep ==
    \/ ThreadBegins \/ Prepare \/ Approve \/ Launch \/ Resume \/ Watch \/ Finish
    \/ ListMembers \/ KillTree \/ EndObserver \/ CloseJob \/ Reap \/ Join
    \/ RemoveCache \/ CacheRemoved \/ Observed

SystemStep ==
    \/ Exceed \/ ReadersEnd \/ DeleteEnds
    \/ /\ Spawn \/ (\E p \in Procs : Exits(p)) \/ ObserverBegins \/ Observe
       /\ UNCHANGED <<cancelled, scope, cmd>>

-----------------------------------------------------------------------------
(* Properties. *)

(* Nobody the command started can still write or change files; where there *)
(* is no job, but for whoever left the group.                              *)
TreeOver ==
    /\ tree.root = "gone"
    /\ IF plan.windows THEN tree.child \in {"none", "gone"}
       ELSE tree.escaped \/ tree.child # "running"

(* A result the agent may build on is that of a process that exited by     *)
(* itself, whose tree is over, whose output was read to its end and whose  *)
(* cache is removed.                                                       *)
OutputIsWhole ==
    cmd.result = "ok" /\ tree.root # "none" =>
        /\ cmd.why = "exited" /\ ~cmd.exceeded /\ cmd.readers = "ended"
        /\ TreeOver /\ cmd.cache \in {"none", "gone"}

(* What a command leaves behind. *)
CommandLeaves ==
    {r \in {Worker, Process, Cache} :
        \/ r = Worker /\ Working
        \/ r = Process /\ ~Working /\ tree.root # "none"
              /\ (~TreeOver \/ cmd.readers = "reading")
        \/ r = Cache /\ ~Working /\ cmd.cache \notin {"none", "gone"}}
=============================================================================
