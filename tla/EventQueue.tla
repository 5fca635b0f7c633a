------------------------------ MODULE EventQueue ------------------------------
(***************************************************************************)
(* The queue of triggered events, ContextHandle::AsyncData::eventQueue, as *)
(* AsyncStateMachine and WindowProcStateMachine use it: kept in ascending  *)
(* order of priority, taken from the back.                                 *)
(*                                                                         *)
(* A queue is a sequence; its last element is deque::back().  Each         *)
(* operator is one critical section of eventQueueLock.                     *)
(***************************************************************************)
EXTENDS Integers, SequencesExt

CONSTANTS
    Event,      \* the application's IEvent objects
    priority,   \* Event::m_priority: [Event -> int]
    Half        \* an int ranges over -Half .. Half - 1

IntRange == -Half .. Half - 1

ASSUME EventAssumption ==
    /\ Half \in Nat \ {0}
    /\ priority \in [Event -> IntRange]

(* The result of a subtraction of two ints as the build computes it: it    *)
(* wraps around where the C++ standard leaves it undefined.                *)
Wrap(d) == IF d >= Half THEN d - 2 * Half ELSE IF d < -Half THEN d + 2 * Half ELSE d

(* Event::comparePriority().                                               *)
ComparePriority(e, f) == Wrap(priority[e] - priority[f])

(* Any two priorities are near enough for their difference to be an int.   *)
NoOverflow == \A e, f \in Event : priority[e] - priority[f] \in IntRange

(* A mutant: a new event goes behind those of its own priority.            *)
StopsAfterEqual(q, e, i) == ComparePriority(e, q[i]) < 0

(* The loop of queueEvent() stops at index i for a new event e.            *)
StopsAt(q, e, i) == ComparePriority(e, q[i]) <= 0

(* A mutant: every event goes to the back.                                 *)
PositionAtBack(q, e) == Len(q) + 1

(* Where queueEvent() inserts e: before the first element at which its     *)
(* loop stops, or at the end.                                              *)
Position(q, e) ==
    CHOOSE i \in 1 .. Len(q) + 1 :
        /\ \A j \in 1 .. i - 1 : ~StopsAt(q, e, j)
        /\ i <= Len(q) => StopsAt(q, e, i)

(* queueEvent() of e.                                                      *)
QueueEvent(q, e) == InsertAt(q, Position(q, e), e)

(* back() and pop_back().                                                  *)
Back(q) == q[Len(q)]
PopBack(q) == SubSeq(q, 1, Len(q) - 1)

-----------------------------------------------------------------------------
(* Events are "added to the queue by ascending priority order".            *)
Ascending(q) == \A i, j \in 1 .. Len(q) : i < j => priority[q[i]] <= priority[q[j]]

(* No event object is in the queue twice.                                  *)
Distinct(q) == \A i, j \in 1 .. Len(q) : q[i] = q[j] => i = j

(* Of two events of one priority, the one nearer to the back came first.   *)
Older(q) ==
    {x \in Event \X Event :
        /\ priority[x[1]] = priority[x[2]]
        /\ \E i, j \in 1 .. Len(q) : j < i /\ q[i] = x[1] /\ q[j] = x[2]}

=============================================================================
