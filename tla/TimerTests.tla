------------------------------ MODULE TimerTests ------------------------------
(***************************************************************************)
(* The tests of StateMachineUnitTest/TimerUnitTest.cpp, and those of       *)
(* StateMachine.NET.UnitTest/TimerUnitTest.cs that differ from them:       *)
(* TimerClient with a clock, and a script for each test.  A thread that    *)
(* can run does so before the clock ticks, which is what the tests rely    *)
(* on; a tick is ten milliseconds.  An event is named by its test.         *)
(***************************************************************************)
EXTENDS TimerClient, Integers, Sequences

CONSTANTS
    DelayTime, IntervalTime,    \* Event::m_delayTime and m_intervalTime
    FailingHandler              \* the events whose handleEvent() fails

VARIABLES
    now,        \* the time
    due,        \* when the wait of each timer thread will time out
    handled,    \* when each event was handled
    cancels,    \* the calls of cancelTimer() a handler has still to make
    wake,       \* when the Sleep() of the test is over
    test, script

timed == <<now, due, handled, cancels, wake>>
testVars == <<vars, timed, test, script>>

tester == "testThread"
worker == "workerThread"

-----------------------------------------------------------------------------
Trigger(e) == [do |-> "triggerEvent", on |-> e]
Sleep(n) == [do |-> "Sleep", for |-> n]
(* An event without a timer is handled, and the state is left.             *)
Leave == [do |-> "exit"]
(* shutdown() leaves the state, whose timers it cancels.                   *)
Shutdown == [do |-> "shutdown"]
Cancel(e) == [do |-> "cancelEventTimer", on |-> e]
CancelUnset(e) == [do |-> "TSM_S_TIMER_IS_STOPPED", on |-> e]
PendingAre(S) == [do |-> "getPendingEvents", are |-> S]
Deleted(e) == [do |-> "EXPECT_TRUE(deleted)", on |-> e]
NotDeleted(e) == [do |-> "EXPECT_FALSE(deleted)", on |-> e]
HandledAt(e, times) == [do |-> "handleEvent", on |-> e, at |-> times]

NotTriggered(e) == <<CancelUnset(e), HandledAt(e, <<>>)>>

(* Tests 0 and 1: the timer of the context, or of a state.                 *)
Fires(e) ==
    <<Trigger(e), Sleep(5), PendingAre({e}), Sleep(10), PendingAre({}), Deleted(e),
      HandledAt(e, <<10>>)>>

(* Test 2.                                                                 *)
CancelOneShot(e) ==
    <<Trigger(e), Sleep(5), PendingAre({e}), Cancel(e), PendingAre({}), Deleted(e), Sleep(50),
      HandledAt(e, <<>>)>>

(* Test 3.                                                                 *)
CancelInterval(e) ==
    <<Trigger(e), PendingAre({e}), Sleep(10), PendingAre({e}), Cancel(e), PendingAre({}),
      Sleep(1), Deleted(e), Sleep(50), HandledAt(e, <<5, 8>>)>>

(* Test 4: the timers of a state end with its exit().                      *)
CancelOnExit(e) ==
    <<Trigger(e), PendingAre({e}), Sleep(20), NotDeleted(e), Leave, Sleep(20), PendingAre({}),
      Deleted(e), HandledAt(e, <<5, 15>>)>>

(* Test 5.                                                                 *)
Accuracy(e) == <<Trigger(e), Sleep(80), Cancel(e), HandledAt(e, <<10, 30, 50, 70>>)>>

(* HandleEventUnitTest: an error of the handler ends the timer thread.     *)
HandleEventFails(e) ==
    <<Trigger(e), Sleep(5), PendingAre({e}), Sleep(10), PendingAre({}), Deleted(e),
      HandledAt(e, <<10>>)>>

(* The state is left by the transition of another event.                   *)
CancelByStateChange(e) == <<Trigger(e), Sleep(20), Leave, Sleep(10), HandledAt(e, <<5, 15>>)>>

IntervalTimer(e) ==
    <<Trigger(e), Sleep(5), PendingAre({e}), Sleep(50), Cancel(e), PendingAre({}),
      HandledAt(e, <<10, 30, 50>>)>>

CancelByShutdown(e) ==
    <<Trigger(e), Sleep(5), PendingAre({e}), Shutdown, Sleep(10), PendingAre({}),
      HandledAt(e, <<>>)>>

CancelInHandleEvent(e) ==
    <<Trigger(e), PendingAre({e}), Sleep(50), PendingAre({}), HandledAt(e, <<5, 15, 25>>)>>

CancelOther(e, other) ==
    <<Trigger(e), Trigger(other), PendingAre({e, other}), Sleep(20), PendingAre({}),
      HandledAt(other, <<>>)>>

NetAccuracy(e) == <<Trigger(e), Sleep(100), Cancel(e), HandledAt(e, <<10, 30, 50, 70, 90>>)>>

(* cancelTimer() in the handler: at its third call by the timer thread     *)
(* itself; or by the worker, for which the timer thread triggered the      *)
(* event, and which waits.                                                 *)
CancelsIn(e, count) ==
    IF e = "CancelInHandleEvent" /\ count = 3 THEN {[by |-> e, on |-> e, wait |-> FALSE]}
    ELSE IF e = "CancelOther" THEN {[by |-> worker, on |-> "OtherTimer", wait |-> TRUE]}
    ELSE {}

Scripts ==
    [NotTriggered |-> NotTriggered("NotTriggered"), Fires |-> Fires("Fires"),
     CancelOneShot |-> CancelOneShot("CancelOneShot"),
     CancelInterval |-> CancelInterval("CancelInterval"),
     CancelOnExit |-> CancelOnExit("CancelOnExit"), Accuracy |-> Accuracy("Accuracy"),
     HandleEventFails |-> HandleEventFails("HandleEventFails"),
     CancelByStateChange |-> CancelByStateChange("CancelByStateChange"),
     IntervalTimer |-> IntervalTimer("IntervalTimer"),
     CancelByShutdown |-> CancelByShutdown("CancelByShutdown"),
     CancelInHandleEvent |-> CancelInHandleEvent("CancelInHandleEvent"),
     CancelOther |-> CancelOther("CancelOther", "OtherTimer"),
     NetAccuracy |-> NetAccuracy("NetAccuracy")]

-----------------------------------------------------------------------------
ClockInit ==
    /\ Init
    /\ now = 0
    /\ due = [e \in Event |-> 0]
    /\ handled = [e \in Event |-> <<>>]
    /\ cancels = {}
    /\ wake = 0

TestInit == ClockInit /\ test \in DOMAIN Scripts /\ script = Scripts[test]

(* WaitForSingleObject() with the delay or the interval of e.              *)
SetDue(e) ==
    due' = CASE timer'[e] = "delay" -> [due EXCEPT ![e] = now + DelayTime[e]]
             [] timer'[e] = "interval" -> [due EXCEPT ![e] = now + IntervalTime[e]]
             [] OTHER -> due

(* What a thread can do now.                                               *)
Runs ==
    \/ \E c \in Caller : Step(c) /\ UNCHANGED timed
    \/ \E call \in cancels :
          /\ CancelEventTimer(call.by, call.on, call.wait)
          /\ cancels' = cancels \ {call}
          /\ UNCHANGED <<now, due, handled, wake>>
    \/ \E e \in Event :
          /\ \/ Start(e)
             \/ Elapse(e) /\ due[e] = now
             \/ Stop(e)
             \/ Erase(e)
          /\ SetDue(e)
          /\ UNCHANGED <<now, handled, cancels, wake>>
    \/ \E e \in Event :
          /\ Check(e)
          /\ SetDue(e)
          /\ IF timer'[e] = "callback"
             THEN /\ handled' = [handled EXCEPT ![e] = Append(@, now)]
                  /\ cancels' = cancels \cup CancelsIn(e, Len(handled'[e]))
             ELSE UNCHANGED <<handled, cancels>>
          /\ UNCHANGED <<now, wake>>
    \/ \E e \in Event :
          /\ CallbackReturns(e)
          /\ \A call \in cancels : call.by # e
          /\ e \in FailingHandler <=> timer'[e] = "erase" /\ AfterDelay(e) # "erase"
          /\ SetDue(e)
          /\ UNCHANGED <<now, handled, cancels, wake>>

ThreadStep == Runs /\ UNCHANGED <<test, script>>

(* The test thread has nothing to wait for.                                *)
Ready ==
    /\ script # <<>>
    /\ cancels = {}
    /\ \A c \in Caller : pc[c] = "idle"
    /\ \A e \in Event :
          \/ timer[e] \in {"none", "ended"}
          \/ timer[e] \in {"delay", "interval"} /\ due[e] > now /\ e \notin canceled

Todo == Head(script)
Awake == Ready /\ now >= wake
Follow == script' = Tail(script) /\ UNCHANGED test

Tick ==
    /\ Ready /\ now < wake
    /\ now' = now + 1
    /\ UNCHANGED <<vars, due, handled, cancels, wake, test, script>>

CallStep ==
    /\ Awake
    /\ \/ Todo.do = "triggerEvent" /\ SetEventTimer(tester, Todo.on) /\ UNCHANGED timed
       \/ Todo.do = "cancelEventTimer" /\ CancelEventTimer(tester, Todo.on, TRUE) /\ UNCHANGED timed
       \/ Todo.do = "exit" /\ CancelAllEventTimers(worker, FALSE) /\ UNCHANGED timed
       \/ Todo.do = "shutdown" /\ CancelAllEventTimers(tester, FALSE) /\ UNCHANGED timed
       \/ /\ Todo.do = "Sleep"
          /\ wake' = now + Todo.for
          /\ UNCHANGED <<vars, now, due, handled, cancels>>
    /\ Follow

Holds ==
    CASE Todo.do = "TSM_S_TIMER_IS_STOPPED" -> ~HandleCreated
      [] Todo.do = "getPendingEvents" -> pending = Todo.are
      [] Todo.do = "EXPECT_TRUE(deleted)" -> Todo.on \notin pending /\ timer[Todo.on] = "ended"
      [] Todo.do = "EXPECT_FALSE(deleted)" -> Todo.on \in pending
      [] Todo.do = "handleEvent" -> handled[Todo.on] = Todo.at
      [] OTHER -> FALSE

IsAssertion ==
    /\ Awake
    /\ Todo.do \notin {"triggerEvent", "cancelEventTimer", "exit", "shutdown", "Sleep"}

AssertionStep == IsAssertion /\ Holds /\ Follow /\ UNCHANGED <<vars, timed>>

Passes == script = <<>> /\ UNCHANGED testVars

TestNext == ThreadStep \/ Tick \/ CallStep \/ AssertionStep \/ Passes

-----------------------------------------------------------------------------
(* Each timer fires at the times the test expects, stays in the map while  *)
(* it is set, and is gone when it is over or cancelled.                    *)
TestsPass == IsAssertion => Holds

=============================================================================
