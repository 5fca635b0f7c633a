-------------------------- MODULE DispatcherContract --------------------------
(***************************************************************************)
(* What IAsyncDispatcher (public/include/StateMachine/Interface.h) promises *)
(* to those who have a method dispatched on a thread and wait for the      *)
(* handle they are given: the state of the dispatchers and of their owners *)
(* as the callers depend on it, and the promises.                          *)
(***************************************************************************)
CONSTANTS
    Worker, \* the dispatchers of worker threads
    Timer,  \* the dispatchers of timer threads
    Code,   \* what a worker thread may return
    None    \* no dispatcher, no code

Dispatcher == Worker \cup Timer

ASSUME DispatcherAssumption ==
    /\ Worker \cap Timer = {} /\ None \notin Dispatcher
    /\ "S_OK" \in Code /\ {None, "STILL_ACTIVE"} \cap Code = {}

VARIABLES
    useNativeThread, \* m_useNativeThread of the context
    exists,          \* the dispatchers that have been created and not deleted
    thread,          \* where the thread of each dispatcher is
    noHandle,        \* the dispatchers whose dispatch() failed to give a handle
    signalled,       \* the dispatchers whose exitThreadEvent is set
    exitCode,        \* AsyncDispatcher::exitCode
    returned,        \* history: what the dispatched method has returned
    refs,            \* who refers to the Timer of each dispatcher
    isSetup,         \* the context has a current state
    asyncDispatcher, \* AsyncData::asyncDispatcher
    caller,          \* where the thread of the application is
    target,          \* the timer it cancels
    answer           \* what the last getAsyncExitCode() gave, and of which worker

(* "failed" is a dispatch that gave no thread; of a "lost" thread, which   *)
(* uses what was deleted, nothing is said.                                 *)
ThreadLabel == {"none", "failed", "start", "method", "leave", "store", "signal", "ended", "lost"}
CallerLabel == {"idle", "join", "waitTimer", "release", "waitAll", "clear"}
Holder == {"map", "setter", "thread", "canceler"}

DispatcherTypes ==
    /\ useNativeThread \in BOOLEAN /\ isSetup \in BOOLEAN
    /\ exists \subseteq Dispatcher /\ noHandle \subseteq Dispatcher /\ signalled \subseteq Dispatcher
    /\ thread \in [Dispatcher -> ThreadLabel]
    /\ exitCode \in [Dispatcher -> Code \cup {None}]
    /\ returned \in [Dispatcher -> Code \cup {None}]
    /\ refs \in [Timer -> SUBSET Holder]
    /\ asyncDispatcher \in Worker \cup {None}
    /\ caller \in CallerLabel

(* _createAsyncDispatcher() has its condition this way round.              *)
Managed == useNativeThread

(* The handle that dispatch() gave is set.                                 *)
HandleSet(d) == IF Managed THEN d \in signalled ELSE thread[d] = "ended"

(* The timers in the map of their client.                                  *)
InMap == {d \in Timer : "map" \in refs[d]}

-----------------------------------------------------------------------------
(* The thread of a worker uses its dispatcher, before the method and after *)
(* it, only while it exists: setup() does not delete that of a worker that *)
(* has not come to its end.                                                *)
WorkerUsesItsDispatcher ==
    \A d \in Worker :
        thread[d] \in {"start", "method", "store", "signal"} => d \in exists

(* No handle is closed while somebody waits for it.                        *)
Awaited ==
    CASE caller = "join" -> {asyncDispatcher}
      [] caller = "waitTimer" -> {target}
      [] caller = "waitAll" -> InMap
      [] OTHER -> {}

WaitedHandleIsOpen == Awaited \subseteq exists

(* A handle that is set means that the method has returned: a caller that  *)
(* waited for it need not expect any callback of that thread.              *)
HandleSetMeansReturned == \A d \in Dispatcher : HandleSet(d) => returned[d] # None

(* getAsyncExitCode() gives what the method of that worker returned, or    *)
(* that there is nothing to give yet; of a Win32 thread that runs it says  *)
(* so with S_OK.                                                           *)
ExitCodeIsTrue ==
    answer.hr = "S_OK"
        => \/ answer.code = returned[answer.of] /\ answer.code # None
           \/ answer.code = "STILL_ACTIVE" /\ ~Managed

=============================================================================
