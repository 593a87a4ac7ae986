----------------------------- MODULE TaskScope -----------------------------
(***************************************************************************)
(* What the services of one task share (task_cleanup.py,                   *)
(* core/cancellation.py): the token that cancels it, and its cleanup       *)
(* scope, which says how much is left of the one deadline for terminating  *)
(* the task, whether a cleanup failed, and which resources somebody still  *)
(* has to clean up.                                                        *)
(***************************************************************************)
VARIABLES
    plan,           \* the servers to start, bounds on what the operation does, and
                    \* whether every service ends within the time it is given
    cancelled,      \* the task's token is cancelled
    scope           \* [deadline, failed, resources]

FreshScope == [deadline |-> "none", failed |-> FALSE, resources |-> {}]

(* The deadline is set once, by whoever begins to terminate first. *)
BeginTermination(sc) == [sc EXCEPT !.deadline = IF @ = "none" THEN "running" ELSE @]
MarkFailed(sc) == [sc EXCEPT !.failed = TRUE]
Retain(sc, resource) == [sc EXCEPT !.resources = @ \cup {resource}]
Discard(sc, resource) == [sc EXCEPT !.resources = @ \ {resource}]

(* A resource that could not be cleaned up within its time. *)
Leave(sc, resource) == Retain(MarkFailed(sc), resource)

HasPending(sc) == sc.resources # {}

(* A wait that is not bounded. *)
NeverUp == FALSE

(* A bounded wait for something that has not ended may be given up. *)
TimeIsUp == ~plan.prompt \/ scope.deadline = "over"
=============================================================================
