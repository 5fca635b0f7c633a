------------------------------ MODULE EventTimer ------------------------------
(***************************************************************************)
(* What a TimerClient promises of the timer of each event: it fires only   *)
(* while it is set, once unless it has an interval, and never again after  *)
(* it has been cancelled.                                                  *)
(***************************************************************************)

CONSTANTS
    Event,
    Periodic    \* the events with an interval time

VARIABLE phase  \* of the timer of each event

Phase == {"unset", "pending", "firing", "over"}

Init == phase = [e \in Event |-> "unset"]

Become(e, from, to) == phase[e] = from /\ phase' = [phase EXCEPT ![e] = to]

Set(e) == Become(e, "unset", "pending")

Fire(e) == Become(e, "pending", "firing")

(* The callback is over; a timer with an interval waits for the next one,  *)
(* unless it was cancelled meanwhile.                                      *)
Finish(e) ==
    \/ Become(e, "firing", "over")
    \/ e \in Periodic /\ Become(e, "firing", "pending")

(* The pending timers of some events are cancelled together.               *)
Cancel(S) ==
    phase' = [e \in Event |-> IF e \in S /\ phase[e] = "pending" THEN "over" ELSE phase[e]]

Next ==
    \/ \E e \in Event : Set(e) \/ Fire(e) \/ Finish(e)
    \/ \E S \in SUBSET Event : Cancel(S)

Spec == Init /\ [][Next]_phase

=============================================================================
