---------------------------- MODULE MCStateMachine ----------------------------
(***************************************************************************)
(* Instances of StateMachine for TLC: a chain of three states top, mid and *)
(* leaf, the deepest for which the exit loop stops early, and runs on, at  *)
(* a master state that is neither the first nor the last of the chain; and *)
(* a state aside without a master.                                         *)
(***************************************************************************)
EXTENDS StateMachine, TLC

CONSTANTS top, mid, leaf, aside, t1, t2

MCMaster == [s \in State |-> CASE s = mid -> top [] s = leaf -> mid [] OTHER -> NoState]

(* The moves of a Disciplined application, and all there are.              *)
DisciplinedMoves ==
    [h \in State |->
        {n \in State :
            \A s \in State : h \in Chain(s) =>
                n \in Chain(s) \/ master[n] \in Chain(s) \cup {NoState}}]

(* The same, without Chain, which depends on the constants it defines.     *)
MCDisciplinedMoves ==
    [h \in State |->
        State \cap (CASE h = top -> {top, mid, aside}
                     [] h = aside -> {top, aside}
                     [] OTHER -> {top, mid, leaf, aside})]

MCAnyMoves == [s \in State |-> State]

(* The first kind of moves is Disciplined, as far as Initial is.           *)
ASSUME MovesAreDisciplined ==
    /\ Moves = MCDisciplinedMoves => Moves = DisciplinedMoves
    /\ Moves # MCAnyMoves => Disciplined

ThreadSymmetry == Permutations(Thread)

=============================================================================
