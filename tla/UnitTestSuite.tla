----------------------------- MODULE UnitTestSuite -----------------------------
(***************************************************************************)
(* StateMachineUnitTest and StateMachine.NET.UnitTest as a whole: a run    *)
(* executes one test of one of their suites.                               *)
(***************************************************************************)
EXTENDS NetUnitTests

VARIABLES
    pending, canceled, timer, lock, pc, arg, waits, todo,
    now, due, handled, cancels, wake,
    queue, order

syncVars == <<mem, current, entered, stack, client, result>>
timedVars == <<pending, canceled, timer, lock, pc, arg, waits, todo, now, due, handled, cancels,
              wake>>
asyncVars == <<queue, order>>
suiteVars == <<syncVars, timedVars, asyncVars, test, script>>

(* setTimer() of the event of each test, in ticks of ten milliseconds.     *)
Time(delay, interval) == [delay |-> delay, interval |-> interval]
SetTimer ==
    [NotTriggered |-> Time(10, 0), Fires |-> Time(10, 0), CancelOneShot |-> Time(10, 0),
     CancelInterval |-> Time(5, 3), CancelOnExit |-> Time(5, 10), Accuracy |-> Time(10, 20),
     HandleEventFails |-> Time(10, 10),
     CancelByStateChange |-> Time(5, 10), IntervalTimer |-> Time(10, 20),
     CancelByShutdown |-> Time(10, 0), CancelInHandleEvent |-> Time(5, 10),
     CancelOther |-> Time(5, 0), OtherTimer |-> Time(10, 5), NetAccuracy |-> Time(10, 20)]

TimedEvent == DOMAIN SetTimer

Timed == INSTANCE TimerTests WITH
    Event <- TimedEvent, NoEvent <- None, NoCaller <- None,
    Delayed <- {e \in TimedEvent : SetTimer[e].delay > 0},
    Periodic <- {e \in TimedEvent : SetTimer[e].interval > 0},
    Thread <- {"testThread", "workerThread"}, DispatchMayFail <- FALSE, MayTimeOut <- FALSE,
    DelayTime <- [e \in TimedEvent |-> SetTimer[e].delay],
    IntervalTime <- [e \in TimedEvent |-> SetTimer[e].interval],
    FailingHandler <- {"HandleEventFails"}

Async == INSTANCE AsyncTests

SuiteInit ==
    \/ (TestInit \/ NetTestInit) /\ Timed!ClockInit /\ Async!QueueInit
    \/ Timed!TestInit /\ Init /\ Async!QueueInit
    \/ Async!TestInit /\ Init /\ Timed!ClockInit

Sync == test \in DOMAIN Scripts \cup DOMAIN NetScripts
IsTimed == test \in DOMAIN Timed!Scripts
IsAsync == test \in DOMAIN Async!Scripts

SuiteNext ==
    \/ Sync /\ TestNext /\ UNCHANGED <<timedVars, asyncVars>>
    \/ IsTimed /\ Timed!TestNext /\ UNCHANGED <<syncVars, asyncVars>>
    \/ IsAsync /\ Async!TestNext /\ UNCHANGED <<syncVars, timedVars>>

SuiteSpec == SuiteInit /\ [][SuiteNext]_suiteVars

-----------------------------------------------------------------------------
(* Every test of the authors passes on the modules: the calls they expect  *)
(* of the machine, the lifetimes, the times and the order of the events.   *)
AllTestsPass ==
    /\ Sync => TestsPass
    /\ IsTimed => Timed!TestsPass
    /\ IsAsync => Async!TestsPass

=============================================================================
