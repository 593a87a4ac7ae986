--------------------------- MODULE MCTaskServices ---------------------------
(***************************************************************************)
(* TaskServices with two servers, with a few calls of one, with requests   *)
(* to the model alone, with a request beside a server, and with commands   *)
(* of each kind, compiling and searching on Windows among them; where the  *)
(* services keep to their time, with two servers and nothing else.         *)
(***************************************************************************)
EXTENDS TaskServices

Task(s, c, r, k, n, i) ==
    [servers |-> s, calls |-> c, requests |-> r, connections |-> k, chunks |-> n,
     interrupts |-> i, commands |-> 0, kinds |-> {}, windows |-> FALSE, prompt |-> FALSE]

Command(n, kinds, windows) ==
    [Task(0, 0, 0, 0, 0, 1) EXCEPT !.commands = n, !.kinds = kinds, !.windows = windows]

CommandPlans ==
    {Command(1, {"command", "compile", "diff"}, FALSE), Command(2, {"search"}, FALSE),
     [Command(1, {"compile"}, TRUE) EXCEPT !.interrupts = 0],
     [Command(1, {"search"}, TRUE) EXCEPT !.interrupts = 0]}

PromptPlans == {[Task(2, 0, 0, 0, 0, 0) EXCEPT !.prompt = TRUE]}

MCPlans ==
    {Task(2, 1, 0, 0, 0, 0), Task(1, 2, 0, 0, 0, 1), Task(0, 0, 2, 2, 2, 0),
     Task(0, 0, 1, 2, 2, 1), Task(1, 0, 1, 1, 0, 0)} \cup PromptPlans \cup CommandPlans
=============================================================================
