------------------------------ MODULE Dispatchers ------------------------------
(***************************************************************************)
(* The two implementations of IAsyncDispatcher: DefaultAsyncDispatcher     *)
(* (StateMachine/AsyncStateMachine.cpp), whose handle is a Win32 thread,   *)
(* and AsyncDispatcher (StateMachine.NET/NativeObjects.cpp), which starts  *)
(* a managed thread that sets an event at its end.                         *)
(*                                                                         *)
(* A dispatcher belongs to the AsyncData of a context, where setup() puts  *)
(* a new one in its place, or to a Timer, which is deleted with the last   *)
(* reference to it.  Its destructor closes the handle.  The state, and     *)
(* what is promised of it, is that of DispatcherContract.                  *)
(***************************************************************************)
EXTENDS DispatcherContract

CONSTANTS
    HandleMayFail, \* TRUE if no thread, or no event, may be had
    MayTimeOut     \* TRUE if a wait with a timeout may end by it

ASSUME OutcomeAssumption == HandleMayFail \in BOOLEAN /\ MayTimeOut \in BOOLEAN

threads == <<thread, noHandle, signalled, exitCode, returned>>
context == <<useNativeThread, isSetup, asyncDispatcher, answer>>
vars == <<context, exists, threads, refs, caller, target>>

Become(d, label) == thread' = [thread EXCEPT ![d] = label]

(* The lock of the timers, held across the waits of cancelAllEventTimers() *)
Locked == caller \in {"waitAll", "clear"}

Init ==
    /\ useNativeThread \in BOOLEAN
    /\ exists = {}
    /\ thread = [d \in Dispatcher |-> "none"]
    /\ noHandle = {}
    /\ signalled = {}
    /\ exitCode = [d \in Dispatcher |-> None]
    /\ returned = [d \in Dispatcher |-> None]
    /\ refs = [d \in Timer |-> {}]
    /\ isSetup = FALSE
    /\ asyncDispatcher = None
    /\ caller = "idle"
    /\ target = None
    /\ answer = [hr |-> "none", code |-> None, of |-> None]

-----------------------------------------------------------------------------
(* dispatch() of DefaultAsyncDispatcher: a Win32 thread, which is its own  *)
(* handle.                                                                 *)
DefaultDispatch(d) ==
    /\ \/ Become(d, "start") /\ UNCHANGED noHandle
       \/ HandleMayFail /\ Become(d, "failed") /\ noHandle' = noHandle \cup {d}
    /\ UNCHANGED signalled

(* dispatch() of AsyncDispatcher: an event and a managed thread, which is  *)
(* started even if there is no event.  setup(), told of an error, deletes  *)
(* the parameter of the thread it knows nothing of.                        *)
ManagedDispatch(d) ==
    /\ \/ Become(d, "start") /\ UNCHANGED noHandle
       \/ /\ HandleMayFail
          /\ Become(d, IF d \in Worker THEN "lost" ELSE "start")
          /\ noHandle' = noHandle \cup {d}
    /\ UNCHANGED signalled

(* Each dispatcher is new, and dispatches once.                            *)
Dispatch(d) ==
    /\ thread[d] = "none"
    /\ IF Managed THEN ManagedDispatch(d) ELSE DefaultDispatch(d)
    /\ UNCHANGED <<exitCode, returned>>

(* setup(): a new AsyncData takes the place of the old one.                *)
Setup(d) ==
    /\ caller = "idle"
    /\ ~isSetup
    /\ Dispatch(d)
    /\ isSetup' = TRUE
    /\ exists' = (exists \ {asyncDispatcher}) \cup {d}
    /\ asyncDispatcher' = d
    /\ UNCHANGED <<useNativeThread, answer, refs, caller, target>>

(* shutdown() asks the worker to end, and waits for the handle.            *)
Shutdown ==
    /\ caller = "idle"
    /\ isSetup
    /\ asyncDispatcher \notin noHandle
    /\ caller' = "join"
    /\ UNCHANGED <<context, exists, threads, refs, target>>

(* A mutant: the result of the wait is dropped.                            *)
JoinIgnoresTimeout ==
    /\ caller = "join"
    /\ HandleSet(asyncDispatcher) \/ MayTimeOut
    /\ isSetup' = FALSE
    /\ caller' = "idle"
    /\ UNCHANGED <<useNativeThread, asyncDispatcher, answer, exists, threads, refs, target>>

(* The handle is set, or the wait has timed out: then shutdown() ends.     *)
Join ==
    /\ caller = "join"
    /\ \/ HandleSet(asyncDispatcher) /\ isSetup' = FALSE
       \/ ~HandleSet(asyncDispatcher) /\ MayTimeOut /\ UNCHANGED isSetup
    /\ caller' = "idle"
    /\ UNCHANGED <<useNativeThread, asyncDispatcher, answer, exists, threads, refs, target>>

-----------------------------------------------------------------------------
(* A mutant: the exit code is read without a look at the event.            *)
ManagedExitCodeNow(d) == [hr |-> "S_OK", code |-> exitCode[d], of |-> d]

(* getExitCode() of AsyncDispatcher,                                       *)
ManagedExitCode(d) ==
    IF HandleSet(d) THEN [hr |-> "S_OK", code |-> exitCode[d], of |-> d]
    ELSE [hr |-> "E_ILLEGAL_METHOD_CALL", code |-> None, of |-> d]

(* of DefaultAsyncDispatcher,                                              *)
DefaultExitCode(d) ==
    IF d \in noHandle THEN [hr |-> "E_FAIL", code |-> None, of |-> d]
    ELSE [hr |-> "S_OK", code |-> IF HandleSet(d) THEN returned[d] ELSE "STILL_ACTIVE", of |-> d]

(* and of a context, whichever of the two it has.                          *)
NativeExitCode ==
    CASE asyncDispatcher = None -> [hr |-> "TSM_E_GET_DISPATCHER", code |-> None, of |-> None]
      [] asyncDispatcher # None /\ Managed -> ManagedExitCode(asyncDispatcher)
      [] asyncDispatcher # None /\ ~Managed -> DefaultExitCode(asyncDispatcher)

(* getAsyncExitCode() of the managed context.                              *)
GetAsyncExitCode ==
    /\ caller = "idle"
    /\ answer' = NativeExitCode
    /\ UNCHANGED <<useNativeThread, isSetup, asyncDispatcher, exists, threads, refs, caller, target>>

-----------------------------------------------------------------------------
(* One of those that refer to a Timer does so no longer: with the last of  *)
(* them the Timer is deleted, and its dispatcher.                          *)
Drop(d, holder) ==
    /\ refs' = [refs EXCEPT ![d] = @ \ {holder}]
    /\ exists' = IF refs[d] \subseteq {holder} THEN exists \ {d} ELSE exists

(* _setEventTimer() makes a Timer, puts it into the map and dispatches its *)
(* thread,                                                                 *)
SetEventTimer(d) ==
    /\ ~Locked
    /\ Dispatch(d)
    /\ refs' = [refs EXCEPT ![d] = {"map", "setter"}]
    /\ exists' = exists \cup {d}
    /\ UNCHANGED <<context, caller, target>>

(* and returns.                                                            *)
SetterReturns(d) ==
    /\ "setter" \in refs[d]
    /\ Drop(d, "setter")
    /\ UNCHANGED <<context, threads, caller, target>>

(* A mutant: the Timer is not preserved while the caller waits for it.     *)
CancelWithoutReference(d, wait) ==
    /\ caller = "idle"
    /\ "map" \in refs[d]
    /\ Drop(d, "map")
    /\ target' = d
    /\ caller' = IF wait THEN "waitTimer" ELSE "release"
    /\ UNCHANGED <<context, threads>>

(* cancelEventTimer(): the Timer leaves the map for a local of the caller. *)
CancelEventTimer(d, wait) ==
    /\ caller = "idle"
    /\ "map" \in refs[d]
    /\ refs' = [refs EXCEPT ![d] = (@ \ {"map"}) \cup {"canceler"}]
    /\ target' = d
    /\ caller' = IF wait THEN "waitTimer" ELSE "release"
    /\ UNCHANGED <<context, exists, threads>>

(* The wait of Timer::cancel() ends: at once if there is no handle.        *)
WaitEnds(d) == HandleSet(d) \/ d \in noHandle \/ MayTimeOut

TimerWaitReturns ==
    /\ caller = "waitTimer"
    /\ WaitEnds(target)
    /\ caller' = "release"
    /\ UNCHANGED <<context, exists, threads, refs, target>>

Release ==
    /\ caller = "release"
    /\ Drop(target, "canceler")
    /\ caller' = "idle"
    /\ UNCHANGED <<context, threads, target>>

(* cancelAllEventTimers() keeps the lock and the map until all waits end.  *)
CancelAllEventTimers(wait) ==
    /\ caller = "idle"
    /\ InMap # {}
    /\ caller' = IF wait THEN "waitAll" ELSE "clear"
    /\ UNCHANGED <<context, exists, threads, refs, target>>

WaitAllReturns ==
    /\ caller = "waitAll"
    /\ \A d \in InMap : WaitEnds(d)
    /\ caller' = "clear"
    /\ UNCHANGED <<context, exists, threads, refs, target>>

Clear ==
    /\ caller = "clear"
    /\ refs' = [d \in Timer |-> refs[d] \ {"map"}]
    /\ exists' = exists \ {d \in InMap : refs[d] = {"map"}}
    /\ caller' = "idle"
    /\ UNCHANGED <<context, threads, target>>

-----------------------------------------------------------------------------
(* The thread calls the method it was dispatched for.  That of a timer     *)
(* refers to its Timer from then on, if it is there still.                 *)
StartWorker(d) ==
    /\ thread[d] = "start"
    /\ Become(d, "method")
    /\ UNCHANGED <<context, exists, noHandle, signalled, exitCode, returned, refs, caller, target>>

StartTimer(d) ==
    /\ thread[d] = "start"
    /\ IF refs[d] = {}
       THEN Become(d, "lost") /\ UNCHANGED refs
       ELSE Become(d, "method") /\ refs' = [refs EXCEPT ![d] = @ \cup {"thread"}]
    /\ UNCHANGED <<context, exists, noHandle, signalled, exitCode, returned, caller, target>>

(* What the method returned goes to the managed dispatcher, or is the exit *)
(* code of a thread that ends so.                                          *)
Returns(d, code) ==
    /\ returned' = [returned EXCEPT ![d] = code]
    /\ Become(d, IF Managed THEN "store" ELSE "ended")
    /\ UNCHANGED <<noHandle, signalled, exitCode>>

WorkerReturns(d, code) ==
    /\ thread[d] = "method"
    /\ Returns(d, code)
    /\ UNCHANGED <<context, exists, refs, caller, target>>

(* Before its last callback, a timer leaves the map; or it does so at its  *)
(* end, under the lock.                                                    *)
TakeFromMap(d) ==
    /\ thread[d] = "method"
    /\ ~Locked
    /\ "map" \in refs[d]
    /\ Drop(d, "map")
    /\ UNCHANGED <<context, threads, caller, target>>

LeaveMap(d) ==
    /\ thread[d] = "method"
    /\ ~Locked
    /\ Drop(d, "map")
    /\ Become(d, "leave")
    /\ UNCHANGED <<context, noHandle, signalled, exitCode, returned, caller, target>>

(* The local of timerThread() that refers to the Timer goes as it returns. *)
TimerReturns(d) ==
    /\ thread[d] = "leave"
    /\ Drop(d, "thread")
    /\ Returns(d, "S_OK")
    /\ UNCHANGED <<context, caller, target>>

(* threadMethod() of AsyncDispatcher, in two steps: the exit code is kept, *)
(* and the event, if there is one, is set.  What becomes of a write to a   *)
(* deleted dispatcher is not known.                                        *)
StoreExitCode(d) ==
    /\ thread[d] = "store"
    /\ IF d \in exists
       THEN Become(d, "signal") /\ exitCode' = [exitCode EXCEPT ![d] = returned[d]]
       ELSE Become(d, "lost") /\ UNCHANGED exitCode
    /\ UNCHANGED <<context, exists, noHandle, signalled, returned, refs, caller, target>>

SetExitThreadEvent(d) ==
    /\ thread[d] = "signal"
    /\ IF d \in exists
       THEN Become(d, "ended") /\ signalled' = signalled \cup ({d} \ noHandle)
       ELSE Become(d, "lost") /\ UNCHANGED signalled
    /\ UNCHANGED <<context, exists, noHandle, exitCode, returned, refs, caller, target>>

-----------------------------------------------------------------------------
Application ==
    \/ \E d \in Worker : Setup(d)
    \/ Shutdown
    \/ Join
    \/ GetAsyncExitCode
    \/ \E d \in Timer : SetEventTimer(d) \/ SetterReturns(d)
    \/ \E d \in Timer, wait \in BOOLEAN : CancelEventTimer(d, wait)
    \/ TimerWaitReturns
    \/ Release
    \/ \E wait \in BOOLEAN : CancelAllEventTimers(wait)
    \/ WaitAllReturns
    \/ Clear

WorkerThread(d) == StartWorker(d) \/ \E code \in Code : WorkerReturns(d, code)

TimerThread(d) == StartTimer(d) \/ TakeFromMap(d) \/ LeaveMap(d) \/ TimerReturns(d)

ManagedThread(d) == StoreExitCode(d) \/ SetExitThreadEvent(d)

Next ==
    \/ Application
    \/ \E d \in Worker : WorkerThread(d)
    \/ \E d \in Timer : TimerThread(d)
    \/ \E d \in Dispatcher : ManagedThread(d)

Spec == Init /\ [][Next]_vars

=============================================================================
