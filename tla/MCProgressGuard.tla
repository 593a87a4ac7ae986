-------------------------- MODULE MCProgressGuard --------------------------
(***************************************************************************)
(* ProgressGuard with a window of five: tasks that mostly read, that       *)
(* mostly fail, that move between three contents while a check fails, and  *)
(* that read again and again with other calls between.                     *)
(***************************************************************************)
EXTENDS ProgressGuard, TLC

Plan(reads, checks, failures, changes, answers, blind, outside) ==
    [reads |-> reads, checks |-> checks, failures |-> failures, changes |-> changes,
     answers |-> answers, blind |-> blind, outside |-> outside]

MCPlans ==
    {Plan(6, 0, 0, 2, 1, 0, 0), Plan(5, 0, 0, 0, 1, 1, 1), Plan(1, 3, 3, 1, 1, 1, 0),
     Plan(0, 6, 1, 4, 0, 1, 0), Plan(0, 4, 0, 0, 0, 1, 3), Plan(6, 2, 0, 0, 0, 0, 0)}

-----------------------------------------------------------------------------
(* Turns and Oscillates speak of positions; the code builds a list in a loop. *)

Seqs == INSTANCE SequencesExt

\* The list states of _oscillation_decision.
ListedStates(w, o) ==
    LET Counts(p) == Seen(p) /\ p.kind = "failure" /\ p.call = o.call
        Listed(states, p) == IF states # <<>> /\ Seqs!Last(states) = p.state
                             THEN states ELSE Append(states, p.state)
    IN  Seqs!FoldLeft(Listed, <<>>, SelectSeq(w, Counts))

ListOscillates(w, o) ==
    LET states == ListedStates(w, o)
        tail(k) == states[Len(states) - 5 + k]
    IN  /\ Len(states) >= 5
        /\ tail(1) = tail(3) /\ tail(3) = tail(5) /\ tail(2) = tail(4) /\ tail(1) # tail(2)

\* A failure of the check in some state, or of another call.
Failures ==
    [kind : {"failure"}, call : Checks, state : States]
        \cup [kind : {"failure"}, call : Tools, state : {CHOOSE s \in Contents : TRUE}]

\* Both say the same of every window of up to six failures.
ASSUME LoopAgrees ==
    \A n \in 0..6 : \A w \in [1..n -> Failures] : \A c \in Checks :
        LET o == [kind |-> "failure", call |-> c]
        IN  /\ ListOscillates(w, o) <=> Oscillates(w, o)
            /\ Len(ListedStates(w, o)) = Cardinality(Turns(w, o))

-----------------------------------------------------------------------------

ContentsSymmetry == Permutations(Contents)
=============================================================================
