------------------------------ MODULE TimerClient ------------------------------
(***************************************************************************)
(* StateMachine/TimerClient.cpp: the event timers of one owner, a context  *)
(* or a state.  Each timer has a thread of its own, which waits, calls the *)
(* state machine back, and removes the timer from the owner's map.         *)
(*                                                                         *)
(* EventHandle::isTimerCreated is never reset, so an event has at most one *)
(* timer in its life, after which it is handled at once, without a client: *)
(* timers are named by their events.  The application does not trigger an  *)
(* event on two threads at once for the first time.                        *)
(***************************************************************************)
EXTENDS FiniteSets

CONSTANTS
    Event,
    Delayed,         \* the events with a delay time
    Periodic,        \* the events with an interval time
    Thread,          \* the threads of the application
    NoEvent,
    NoCaller,        \* nobody owns TimerHandle::lock
    DispatchMayFail, \* TRUE if no timer thread may be had
    MayTimeOut       \* TRUE if a wait with a timeout may end by it

(* A timer thread, named by its event too, calls from its callback.        *)
Caller == Thread \cup Event

ASSUME TimerAssumption ==
    /\ Delayed \subseteq Event
    /\ Periodic \subseteq Event
    /\ NoEvent \notin Event
    /\ NoCaller \notin Caller
    /\ DispatchMayFail \in BOOLEAN
    /\ MayTimeOut \in BOOLEAN

VARIABLES
    pending,    \* the events in TimerHandle::timers
    canceled,   \* the events whose Timer::canceledEvent is set
    timer,      \* where the timer of each event is
    lock,       \* the owner of TimerHandle::lock
    pc,         \* where each caller is; "idle" is outside the client
    arg,        \* the event of the call, or the one being cancelled
    waits,      \* the callers that cancel with a timeout
    todo        \* the events cancelAllEventTimers() has yet to cancel

calls == <<pc, arg, waits, todo>>
vars == <<pending, canceled, timer, lock, calls>>

(* "none" is isTimerCreated = FALSE; from "started" on there is a thread.  *)
TimerLabel == {"none", "created", "inserted", "failed", "started", "delay",
               "interval", "check", "callback", "erase", "ended", "lost"}
Label == {"idle", "insert", "dispatch", "return", "signal", "wait", "cancelAll", "waitAll"}

Goto(c, label) == pc' = [pc EXCEPT ![c] = label]
Become(e, label) == timer' = [timer EXCEPT ![e] = label]

Init ==
    /\ pending = {}
    /\ canceled = {}
    /\ timer = [e \in Event |-> "none"]
    /\ lock = NoCaller
    /\ pc = [c \in Caller |-> "idle"]
    /\ arg = [c \in Caller |-> NoEvent]
    /\ waits = {}
    /\ todo = [c \in Caller |-> {}]

MayCall(c) ==
    /\ pc[c] = "idle"
    /\ c \in Event => timer[c] = "callback"

(* The owner's first timer creates its TimerHandle.                        *)
HandleCreated == \E e \in Event : timer[e] \notin {"none", "created"}

-----------------------------------------------------------------------------
(* handleEvent() or triggerEvent() of an event with a timer, the first     *)
(* time: _setEventTimer() marks it and creates a Timer.                    *)
SetEventTimer(c, e) ==
    /\ MayCall(c)
    /\ timer[e] = "none"
    /\ Become(e, "created")
    /\ arg' = [arg EXCEPT ![c] = e]
    /\ Goto(c, "insert")
    /\ UNCHANGED <<pending, canceled, lock, waits, todo>>

Insert(c) ==
    /\ pc[c] = "insert"
    /\ lock = NoCaller
    /\ pending' = pending \cup {arg[c]}
    /\ Become(arg[c], "inserted")
    /\ Goto(c, "dispatch")
    /\ UNCHANGED <<canceled, lock, arg, waits, todo>>

(* The timer thread is dispatched; the caller keeps the Timer until it     *)
(* returns.  On a failure the map keeps it, and has it still.              *)
Dispatch(c) ==
    /\ pc[c] = "dispatch"
    /\ Become(arg[c], "started")
    /\ Goto(c, "return")
    /\ UNCHANGED <<pending, canceled, lock, arg, waits, todo>>

DispatchFails(c) ==
    /\ DispatchMayFail
    /\ pc[c] = "dispatch"
    /\ Become(arg[c], "failed")
    /\ Goto(c, "idle")
    /\ UNCHANGED <<pending, canceled, lock, arg, waits, todo>>

SetterReturns(c) ==
    /\ pc[c] = "return"
    /\ Goto(c, "idle")
    /\ UNCHANGED <<pending, canceled, timer, lock, arg, waits, todo>>

-----------------------------------------------------------------------------
(* cancelEventTimer(), with a timeout or without: under the lock the Timer *)
(* leaves the map.  If the event is not in the map nothing is done.        *)
CancelEventTimer(c, e, wait) ==
    /\ MayCall(c)
    /\ HandleCreated
    /\ lock = NoCaller
    /\ e \in pending
    /\ pending' = pending \ {e}
    /\ arg' = [arg EXCEPT ![c] = e]
    /\ waits' = IF wait THEN waits \cup {c} ELSE waits \ {c}
    /\ Goto(c, "signal")
    /\ UNCHANGED <<canceled, timer, lock, todo>>

(* A mutant: only a caller that waits sets canceledEvent.                  *)
SignalToWait(c) ==
    /\ pc[c] = "signal"
    /\ canceled' = IF c \in waits THEN canceled \cup {arg[c]} ELSE canceled
    /\ Goto(c, IF c \in waits THEN "wait" ELSE "idle")
    /\ UNCHANGED <<pending, timer, lock, arg, waits, todo>>

(* Timer::cancel(), after the lock has been given back.                    *)
Signal(c) ==
    /\ pc[c] = "signal"
    /\ canceled' = canceled \cup {arg[c]}
    /\ Goto(c, IF c \in waits THEN "wait" ELSE "idle")
    /\ UNCHANGED <<pending, timer, lock, arg, waits, todo>>

(* The wait for terminatedEvent ends: the thread has ended, there is no    *)
(* handle to wait for, or                                                  *)
HasEnded(c) == timer[arg[c]] \in {"inserted", "failed", "ended"}

(* the timeout has elapsed: TSM_E_CANCEL_TIMER_BY_TIMEOUT.                 *)
TimesOut(c) == MayTimeOut /\ ~HasEnded(c)

WaitReturns(c) ==
    /\ pc[c] = "wait"
    /\ HasEnded(c) \/ TimesOut(c)
    /\ Goto(c, "idle")
    /\ UNCHANGED <<pending, canceled, timer, lock, arg, waits, todo>>

-----------------------------------------------------------------------------
(* cancelAllEventTimers(): the lock is held until all are cancelled.  If   *)
(* no timer is pending nothing is done.                                    *)
CancelAllEventTimers(c, wait) ==
    /\ MayCall(c)
    /\ HandleCreated
    /\ lock = NoCaller
    /\ pending # {}
    /\ lock' = c
    /\ todo' = [todo EXCEPT ![c] = pending]
    /\ waits' = IF wait THEN waits \cup {c} ELSE waits \ {c}
    /\ Goto(c, "cancelAll")
    /\ UNCHANGED <<pending, canceled, timer, arg>>

(* Timer::cancel() of the next timer in the map.                           *)
CancelNext(c, e) ==
    /\ pc[c] = "cancelAll"
    /\ e \in todo[c]
    /\ canceled' = canceled \cup {e}
    /\ arg' = [arg EXCEPT ![c] = e]
    /\ todo' = [todo EXCEPT ![c] = @ \ {e}]
    /\ Goto(c, IF c \in waits THEN "waitAll" ELSE "cancelAll")
    /\ UNCHANGED <<pending, timer, lock, waits>>

(* Whatever the wait ends with, the next timer is cancelled.               *)
WaitNext(c) ==
    /\ pc[c] = "waitAll"
    /\ HasEnded(c) \/ TimesOut(c)
    /\ Goto(c, "cancelAll")
    /\ UNCHANGED <<pending, canceled, timer, lock, arg, waits, todo>>

(* The map is cleared and the lock given back.                             *)
Clear(c) ==
    /\ pc[c] = "cancelAll"
    /\ todo[c] = {}
    /\ pending' = {}
    /\ lock' = NoCaller
    /\ Goto(c, "idle")
    /\ UNCHANGED <<canceled, timer, arg, waits, todo>>

-----------------------------------------------------------------------------
(* The Timer of e is referred to by the map, or by a call under way.       *)
Referenced(e) ==
    \/ e \in pending
    \/ \E c \in Caller : pc[c] \in {"return", "signal", "wait"} /\ arg[c] = e

AfterDelay(e) == IF e \in Periodic THEN "interval" ELSE "erase"

(* A mutant: the delay of an event without an interval is left out.        *)
StartWithInterval(e) ==
    /\ timer[e] = "started"
    /\ Become(e, IF ~Referenced(e) THEN "lost" ELSE AfterDelay(e))
    /\ UNCHANGED <<pending, canceled, lock, calls>>

(* The thread starts and refers to its Timer.  If that is deleted already  *)
(* nothing is known of what it does.                                       *)
Start(e) ==
    /\ timer[e] = "started"
    /\ Become(e, IF ~Referenced(e) THEN "lost"
                 ELSE IF e \in Delayed THEN "delay" ELSE AfterDelay(e))
    /\ UNCHANGED <<pending, canceled, lock, calls>>

(* A wait for canceledEvent ends by its timeout,                           *)
Elapse(e) ==
    /\ timer[e] \in {"delay", "interval"}
    /\ e \notin canceled
    /\ Become(e, "check")
    /\ UNCHANGED <<pending, canceled, lock, calls>>

(* or because it is set.                                                   *)
Stop(e) ==
    /\ timer[e] \in {"delay", "interval"}
    /\ e \in canceled
    /\ Become(e, "erase")
    /\ UNCHANGED <<pending, canceled, lock, calls>>

(* A mutant: a timer that is not signalled is taken for one in the map.    *)
CheckSignal(e) ==
    /\ timer[e] = "check"
    /\ lock = NoCaller
    /\ IF e \notin canceled
       THEN Become(e, "callback") /\ pending' = pending \ ({e} \ Periodic)
       ELSE Become(e, AfterDelay(e)) /\ UNCHANGED pending
    /\ UNCHANGED <<canceled, lock, calls>>

(* timerCallback(): under the lock, a timer that is not in the map has     *)
(* been cancelled, and one without an interval leaves the map.  Cancelled  *)
(* is no error: a timer with an interval waits once more.                  *)
Check(e) ==
    /\ timer[e] = "check"
    /\ lock = NoCaller
    /\ IF e \in pending
       THEN Become(e, "callback") /\ pending' = pending \ ({e} \ Periodic)
       ELSE Become(e, AfterDelay(e)) /\ UNCHANGED pending
    /\ UNCHANGED <<canceled, lock, calls>>

(* handleEvent() or triggerEvent() returns: an error ends the thread.      *)
CallbackReturns(e) ==
    /\ timer[e] = "callback"
    /\ pc[e] = "idle"
    /\ Become(e, AfterDelay(e)) \/ Become(e, "erase")
    /\ UNCHANGED <<pending, canceled, lock, calls>>

(* A mutant: the entry is erased without the lock.                         *)
EraseUnlocked(e) ==
    /\ timer[e] = "erase"
    /\ pending' = pending \ {e}
    /\ Become(e, "ended")
    /\ UNCHANGED <<canceled, lock, calls>>

(* A mutant: the entry stays in the map.                                   *)
EraseNothing(e) ==
    /\ timer[e] = "erase"
    /\ lock = NoCaller
    /\ Become(e, "ended")
    /\ UNCHANGED <<pending, canceled, lock, calls>>

(* The thread removes what is left of its timer, and ends.                 *)
Erase(e) ==
    /\ timer[e] = "erase"
    /\ lock = NoCaller
    /\ pending' = pending \ {e}
    /\ Become(e, "ended")
    /\ UNCHANGED <<canceled, lock, calls>>

-----------------------------------------------------------------------------
Call(c) ==
    \/ \E e \in Event : SetEventTimer(c, e)
    \/ \E e \in Event, wait \in BOOLEAN : CancelEventTimer(c, e, wait)
    \/ \E wait \in BOOLEAN : CancelAllEventTimers(c, wait)

Step(c) ==
    \/ Insert(c)
    \/ Dispatch(c)
    \/ DispatchFails(c)
    \/ SetterReturns(c)
    \/ Signal(c)
    \/ WaitReturns(c)
    \/ \E e \in Event : CancelNext(c, e)
    \/ WaitNext(c)
    \/ Clear(c)

TimerStep(e) ==
    \/ Start(e)
    \/ Elapse(e)
    \/ Stop(e)
    \/ Check(e)
    \/ CallbackReturns(e)
    \/ Erase(e)

Next ==
    \/ \E c \in Caller : Call(c) \/ Step(c)
    \/ \E e \in Event : TimerStep(e)

Spec == Init /\ [][Next]_vars

(* Time goes on, threads that can run do, and callbacks return.            *)
FairSpec ==
    /\ Spec
    /\ \A c \in Caller : WF_vars(Step(c))
    /\ \A e \in Event : WF_vars(TimerStep(e))

-----------------------------------------------------------------------------
TypeOK ==
    /\ pending \subseteq Event
    /\ canceled \subseteq Event
    /\ timer \in [Event -> TimerLabel]
    /\ lock \in Caller \cup {NoCaller}
    /\ pc \in [Caller -> Label]
    /\ arg \in [Caller -> Event \cup {NoEvent}]
    /\ waits \subseteq Caller
    /\ todo \in [Caller -> SUBSET Event]

(* What a caller sees of the timer of each event.                          *)
TimerPhase ==
    [e \in Event |->
        CASE timer[e] \in {"none", "created"} -> "unset"
          [] timer[e] = "callback" -> "firing"
          [] OTHER -> IF e \in pending THEN "pending" ELSE "over"]

(* The timers keep the promise of EventTimer.  In particular none starts a *)
(* callback once cancelEventTimer() has taken it from the map, nor after   *)
(* cancelAllEventTimers() has returned.  Of a lost thread nothing is said. *)
Promise == INSTANCE EventTimer WITH phase <- TimerPhase
PromiseSpec == Promise!Spec

(* No timer outlives its thread in the map: getPendingEvents() names only  *)
(* events whose thread will still come, or could not be had.               *)
PendingHasThread == \A e \in pending : timer[e] \notin {"none", "created", "ended", "lost"}

(* The map does not change under the loop of cancelAllEventTimers(): what  *)
(* it has yet to cancel, and the timer it waits for, are in the map.       *)
IterationIsStable ==
    \A c \in Caller :
        /\ pc[c] \in {"cancelAll", "waitAll"} => todo[c] \subseteq pending
        /\ pc[c] = "waitAll" => arg[c] \in pending

(* A timer that has left the map ends its thread, signalled or not.        *)
RemovedTimersEnd ==
    \A e \in Event :
        timer[e] \notin {"none", "created"} /\ e \notin pending
            ~> timer[e] \in {"failed", "ended", "lost"}

(* An event with a delay or an interval is handled, unless its timer gets  *)
(* no thread or is cancelled.                                              *)
TimersFire ==
    \A e \in Delayed \cup Periodic :
        timer[e] = "started" ~> timer[e] = "callback" \/ e \in canceled

=============================================================================
