---------------------------- MODULE PriorityChannel ----------------------------
(***************************************************************************)
(* What triggerEvent() promises of the order of events: those of one       *)
(* priority are handled first in, first out, and none while one of a       *)
(* higher priority waits (Handles.cpp:51-55).                              *)
(***************************************************************************)
EXTENDS Integers

CONSTANTS
    Event,
    NoEvent,
    priority

VARIABLES
    waiting,    \* the events that were accepted and not taken yet
    older,      \* <<f, e>>: f and e wait, have one priority, and f came first
    inHand      \* the event that is being handled

Init == waiting = {} /\ older = {} /\ inHand = NoEvent

(* An event is accepted behind the others of its priority.                 *)
Accept(e) ==
    /\ e \notin waiting
    /\ waiting' = waiting \cup {e}
    /\ older' = older \cup ({f \in waiting : priority[f] = priority[e]} \X {e})
    /\ UNCHANGED inHand

(* One of the highest priority is taken, the one that came first.          *)
Take(e) ==
    /\ inHand = NoEvent
    /\ e \in waiting
    /\ \A f \in waiting : priority[f] <= priority[e] /\ <<f, e>> \notin older
    /\ inHand' = e
    /\ waiting' = waiting \ {e}
    /\ older' = {x \in older : e \notin {x[1], x[2]}}

Finish ==
    /\ inHand # NoEvent
    /\ inHand' = NoEvent
    /\ UNCHANGED <<waiting, older>>

(* A new setup() drops what an earlier one left.                           *)
Reset ==
    /\ inHand = NoEvent
    /\ waiting' = {} /\ older' = {}
    /\ UNCHANGED inHand

Next ==
    \/ \E e \in Event : Accept(e)
    \/ \E e \in Event : Take(e)
    \/ Finish
    \/ Reset

Spec == Init /\ [][Next]_<<waiting, older, inHand>>

=============================================================================
