-------------------------- MODULE MCSessionRuntime --------------------------
(***************************************************************************)
(* SessionRuntime with the threads of its hosts: a user who waits for each *)
(* operation to return, or the TUI.                                        *)
(***************************************************************************)
EXTENDS SessionRuntime

CONSTANTS worker1, worker2, screen

\* A user who waits for each operation to return, and may cancel or leave at
\* any moment.
OneAtATime == [
    calls |-> [t \in Threads |->
        IF t = screen THEN {"close", "cancel"}
        ELSE IF t = worker1
        THEN {"run", "refresh", "change", "prepare", "confirm", "cancelUndo"}
        ELSE {}],
    dialogues |-> {worker1}]

\* The TUI: every task and every undo gets a worker thread when it is
\* submitted, the other commands and the way out run beside them.
Tui == [
    calls |-> [t \in Threads |->
        IF t = screen THEN {"shutdown", "cancel", "cleanup", "close", "change"}
        ELSE IF t = worker1 THEN {"run", "refresh"}
        ELSE {"run", "prepare", "confirm", "cancelUndo"}],
    dialogues |-> {}]

BothHosts == {OneAtATime, Tui}

\* The TUI's exit: request_shutdown on quit, close on unmount.
TuiExit == {[
    calls |-> [t \in Threads |-> IF t = screen THEN {"shutdown", "close"} ELSE {"run"}],
    dialogues |-> {}]}

\* /undo while the worker of a task is returning.
UndoBeside == {[
    calls |-> [t \in Threads |-> IF t = worker1 THEN {"run"} ELSE {"prepare"}],
    dialogues |-> {}]}
=============================================================================
