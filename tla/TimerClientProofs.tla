--------------------------- MODULE TimerClientProofs ---------------------------
(***************************************************************************)
(* Theorems about TimerClient, for any events, threads and timers, and     *)
(* about the dispatchers, for any number of them.                          *)
(***************************************************************************)
EXTENDS TimerClient, DispatcherContract, TLAPS

(* A caller that sets a timer is the only one to do so for its event.      *)
Sets(c) == pc[c] \in {"insert", "dispatch"}

SettersApart ==
    \A c \in Caller :
        /\ pc[c] = "insert" => arg[c] \in Event /\ timer[arg[c]] = "created"
        /\ pc[c] = "dispatch" => arg[c] \in Event /\ timer[arg[c]] = "inserted"
        /\ \A d \in Caller : Sets(c) /\ Sets(d) /\ arg[c] = arg[d] => c = d

CancelNamesEvent ==
    \A c \in Caller : pc[c] \in {"signal", "wait", "waitAll"} => arg[c] \in Event

(* Only cancelAllEventTimers() holds the lock from one action to another.  *)
LockOwner == \A c \in Caller : pc[c] \in {"cancelAll", "waitAll"} <=> lock = c

(* A callback that is pending still belongs to a timer with an interval.   *)
PendingCallback == \A e \in pending : timer[e] = "callback" => e \in Periodic

Inv ==
    /\ TypeOK
    /\ SettersApart
    /\ CancelNamesEvent
    /\ LockOwner
    /\ IterationIsStable
    /\ PendingHasThread
    /\ PendingCallback

-----------------------------------------------------------------------------
LEMMA InitInv == Init => Inv
<1> SUFFICES ASSUME Init PROVE Inv
  OBVIOUS
<1>1. TypeOK
  BY DEF Init, TypeOK, TimerLabel, Label
<1>2. SettersApart /\ CancelNamesEvent /\ IterationIsStable
  BY DEF Init, SettersApart, Sets, CancelNamesEvent, IterationIsStable
<1>3. LockOwner
  BY TimerAssumption DEF Init, LockOwner
<1>4. PendingHasThread /\ PendingCallback
  BY DEF Init, PendingHasThread, PendingCallback
<1> QED
  BY <1>1, <1>2, <1>3, <1>4 DEF Inv

(* The types.                                                              *)
LEMMA TypeStep == ASSUME Inv, [Next]_vars PROVE TypeOK'
<1> USE DEF Inv, TypeOK, TimerLabel, Label, Become, Goto
<1>1. ASSUME NEW c \in Caller, NEW e \in Event, SetEventTimer(c, e) PROVE TypeOK'
  BY <1>1 DEF SetEventTimer
<1>2. ASSUME NEW c \in Caller, Insert(c) \/ Dispatch(c) \/ DispatchFails(c) PROVE TypeOK'
  BY <1>2 DEF Insert, Dispatch, DispatchFails, SettersApart
<1>3. ASSUME NEW c \in Caller, NEW e \in Event, NEW w \in BOOLEAN, CancelEventTimer(c, e, w)
      PROVE TypeOK'
  BY <1>3 DEF CancelEventTimer
<1>4. ASSUME NEW c \in Caller,
             SetterReturns(c) \/ Signal(c) \/ WaitReturns(c) \/ WaitNext(c) \/ Clear(c)
      PROVE TypeOK'
  BY <1>4 DEF SetterReturns, Signal, WaitReturns, WaitNext, Clear, CancelNamesEvent
<1>5. ASSUME NEW c \in Caller, NEW w \in BOOLEAN, CancelAllEventTimers(c, w) PROVE TypeOK'
  BY <1>5 DEF CancelAllEventTimers
<1>6. ASSUME NEW c \in Caller, NEW e \in Event, CancelNext(c, e) PROVE TypeOK'
  BY <1>6 DEF CancelNext
<1>7. ASSUME NEW e \in Event, TimerStep(e) PROVE TypeOK'
  BY <1>7 DEF TimerStep, Start, Elapse, Stop, Check, CallbackReturns, Erase, AfterDelay, calls
<1>8. CASE UNCHANGED vars
  BY <1>8 DEF vars, calls
<1> QED
  BY <1>1, <1>2, <1>3, <1>4, <1>5, <1>6, <1>7, <1>8 DEF Next, Call, Step

(* Who is where in the client, whose timer it is about, and the lock.      *)
LEMMA CallerStep ==
    ASSUME Inv, [Next]_vars
    PROVE  SettersApart' /\ CancelNamesEvent' /\ LockOwner'
<1> DEFINE Callers == SettersApart /\ CancelNamesEvent /\ LockOwner
<1> USE TimerAssumption
    DEF Inv, TypeOK, Become, Goto, SettersApart, Sets, CancelNamesEvent, LockOwner
<1>1. ASSUME NEW c \in Caller, NEW e \in Event, SetEventTimer(c, e) PROVE Callers'
  BY <1>1 DEF SetEventTimer, MayCall
<1>2. ASSUME NEW c \in Caller, Insert(c) PROVE Callers'
  BY <1>2 DEF Insert
<1>3. ASSUME NEW c \in Caller, Dispatch(c) \/ DispatchFails(c) PROVE Callers'
  BY <1>3 DEF Dispatch, DispatchFails
<1>4. ASSUME NEW c \in Caller, NEW e \in Event, NEW w \in BOOLEAN, CancelEventTimer(c, e, w)
      PROVE Callers'
  BY <1>4 DEF CancelEventTimer, MayCall
<1>5. ASSUME NEW c \in Caller, SetterReturns(c) \/ Signal(c) \/ WaitReturns(c) \/ WaitNext(c)
      PROVE Callers'
  BY <1>5 DEF SetterReturns, Signal, WaitReturns, WaitNext
<1>6. ASSUME NEW c \in Caller, NEW w \in BOOLEAN, CancelAllEventTimers(c, w) PROVE Callers'
  BY <1>6 DEF CancelAllEventTimers, MayCall
<1>7. ASSUME NEW c \in Caller, NEW e \in Event, CancelNext(c, e) PROVE Callers'
  BY <1>7 DEF CancelNext
<1>8. ASSUME NEW c \in Caller, Clear(c) PROVE Callers'
  BY <1>8 DEF Clear
<1>9. ASSUME NEW e \in Event, TimerStep(e) PROVE Callers'
  <2>1. /\ UNCHANGED <<lock, pc, arg>>
        /\ timer[e] \notin {"none", "created", "inserted"}
        /\ \A f \in Event \ {e} : timer'[f] = timer[f]
    BY <1>9 DEF TimerStep, Start, Elapse, Stop, Check, CallbackReturns, Erase, calls
  <2> QED
    BY <2>1
<1>10. CASE UNCHANGED vars
  BY <1>10 DEF vars, calls
<1> QED
  BY <1>1, <1>2, <1>3, <1>4, <1>5, <1>6, <1>7, <1>8, <1>9, <1>10 DEF Next, Call, Step

(* The map changes by who holds the lock only.                             *)
LEMMA IterationStep == ASSUME Inv, [Next]_vars PROVE IterationIsStable'
<1> USE TimerAssumption DEF Inv, TypeOK, Become, Goto, LockOwner, IterationIsStable
<1>1. ASSUME NEW c \in Caller, NEW e \in Event, SetEventTimer(c, e) PROVE IterationIsStable'
  BY <1>1 DEF SetEventTimer, MayCall
<1>2. ASSUME NEW c \in Caller, Insert(c) \/ Dispatch(c) \/ DispatchFails(c)
      PROVE IterationIsStable'
  BY <1>2 DEF Insert, Dispatch, DispatchFails
<1>3. ASSUME NEW c \in Caller, NEW e \in Event, NEW w \in BOOLEAN, CancelEventTimer(c, e, w)
      PROVE IterationIsStable'
  BY <1>3 DEF CancelEventTimer, MayCall
<1>4. ASSUME NEW c \in Caller, SetterReturns(c) \/ Signal(c) \/ WaitReturns(c) \/ WaitNext(c)
      PROVE IterationIsStable'
  BY <1>4 DEF SetterReturns, Signal, WaitReturns, WaitNext
<1>5. ASSUME NEW c \in Caller, NEW w \in BOOLEAN, CancelAllEventTimers(c, w)
      PROVE IterationIsStable'
  BY <1>5 DEF CancelAllEventTimers
<1>6. ASSUME NEW c \in Caller, NEW e \in Event, CancelNext(c, e) PROVE IterationIsStable'
  BY <1>6 DEF CancelNext
<1>7. ASSUME NEW c \in Caller, Clear(c) PROVE IterationIsStable'
  BY <1>7 DEF Clear
<1>8. ASSUME NEW e \in Event, TimerStep(e) PROVE IterationIsStable'
  <2>1. UNCHANGED calls /\ (UNCHANGED pending \/ lock = NoCaller)
    BY <1>8 DEF TimerStep, Start, Elapse, Stop, Check, CallbackReturns, Erase
  <2> QED
    BY <2>1 DEF calls
<1>9. CASE UNCHANGED vars
  BY <1>9 DEF vars, calls
<1> QED
  BY <1>1, <1>2, <1>3, <1>4, <1>5, <1>6, <1>7, <1>8, <1>9 DEF Next, Call, Step

(* What the map holds.                                                     *)
LEMMA PendingStep == ASSUME Inv, [Next]_vars PROVE PendingHasThread' /\ PendingCallback'
<1> DEFINE Pending == PendingHasThread /\ PendingCallback
<1> USE DEF Inv, TypeOK, Become, PendingHasThread, PendingCallback
<1>1. ASSUME NEW c \in Caller, NEW e \in Event, SetEventTimer(c, e) PROVE Pending'
  BY <1>1 DEF SetEventTimer
<1>2. ASSUME NEW c \in Caller, Insert(c) \/ Dispatch(c) \/ DispatchFails(c) PROVE Pending'
  BY <1>2 DEF Insert, Dispatch, DispatchFails, SettersApart
<1>3. ASSUME NEW c \in Caller, Step(c), ~(Insert(c) \/ Dispatch(c) \/ DispatchFails(c))
      PROVE Pending'
  BY <1>3 DEF Step, SetterReturns, Signal, WaitReturns, CancelNext, WaitNext, Clear
<1>4. ASSUME NEW c \in Caller, NEW e \in Event, NEW w \in BOOLEAN, CancelEventTimer(c, e, w)
      PROVE Pending'
  BY <1>4 DEF CancelEventTimer
<1>5. ASSUME NEW c \in Caller, NEW w \in BOOLEAN, CancelAllEventTimers(c, w) PROVE Pending'
  BY <1>5 DEF CancelAllEventTimers
<1>6. ASSUME NEW e \in Event, TimerStep(e) PROVE Pending'
  <2>1. CASE Start(e)
    BY <2>1 DEF Start, Referenced, AfterDelay
  <2>2. CASE Check(e)
    BY <2>2 DEF Check, AfterDelay
  <2>3. CASE Elapse(e) \/ Stop(e) \/ CallbackReturns(e) \/ Erase(e)
    BY <2>3 DEF Elapse, Stop, CallbackReturns, Erase, AfterDelay
  <2> QED
    BY <1>6, <2>1, <2>2, <2>3 DEF TimerStep
<1>7. CASE UNCHANGED vars
  BY <1>7 DEF vars
<1> QED
  BY <1>1, <1>2, <1>3, <1>4, <1>5, <1>6, <1>7 DEF Next, Call

LEMMA NextInv == ASSUME Inv, [Next]_vars PROVE Inv'
BY TypeStep, CallerStep, IterationStep, PendingStep DEF Inv

(* The inductive invariant holds.                                          *)
THEOREM TimerInvariant == Spec => []Inv
<1>1. Init => Inv
  BY InitInv
<1>2. Inv /\ [Next]_vars => Inv'
  BY NextInv
<1> QED
  BY <1>1, <1>2, PTL DEF Spec

(* The variables of TimerClient keep their types.                          *)
THEOREM TimerTypeCorrect == Spec => []TypeOK
<1>1. Inv => TypeOK
  BY DEF Inv
<1> QED
  BY <1>1, TimerInvariant, PTL

(* Every timer in the map has a thread to come, or could not get one: the  *)
(* threads remove what the application does not.                           *)
THEOREM NoStaleEntry == Spec => []PendingHasThread
<1>1. Inv => PendingHasThread
  BY DEF Inv
<1> QED
  BY <1>1, TimerInvariant, PTL

(* The loop of cancelAllEventTimers() meets the timers it started with.    *)
THEOREM LoopIsStable == Spec => []IterationIsStable
<1>1. Inv => IterationIsStable
  BY DEF Inv
<1> QED
  BY <1>1, TimerInvariant, PTL

-----------------------------------------------------------------------------
(* Each action changes the phase of its event only, as EventTimer says.    *)
LEMMA PhaseStep == ASSUME Inv, [Next]_vars PROVE [Promise!Next]_TimerPhase
<1> DEFINE Same == UNCHANGED TimerPhase
<1> USE DEF Inv, TypeOK, Become, PendingHasThread, TimerPhase
<1>1. ASSUME NEW c \in Caller, NEW e \in Event, SetEventTimer(c, e) PROVE Same
  BY <1>1 DEF SetEventTimer
<1>2. ASSUME NEW c \in Caller, Insert(c) PROVE Promise!Set(arg[c])
  BY <1>2 DEF Insert, SettersApart, Promise!Set, Promise!Become
<1>3. ASSUME NEW c \in Caller, Dispatch(c) \/ DispatchFails(c) PROVE Same
  BY <1>3 DEF Dispatch, DispatchFails, SettersApart
<1>4. ASSUME NEW c \in Caller, NEW e \in Event, NEW w \in BOOLEAN, CancelEventTimer(c, e, w)
      PROVE Promise!Cancel({e})
  BY <1>4 DEF CancelEventTimer, Promise!Cancel
<1>5. ASSUME NEW c \in Caller, NEW w \in BOOLEAN, CancelAllEventTimers(c, w) PROVE Same
  BY <1>5 DEF CancelAllEventTimers
<1>6. ASSUME NEW c \in Caller, Step(c), ~(Insert(c) \/ Dispatch(c) \/ DispatchFails(c) \/ Clear(c))
      PROVE Same
  BY <1>6 DEF Step, SetterReturns, Signal, WaitReturns, CancelNext, WaitNext
<1>7. ASSUME NEW c \in Caller, Clear(c) PROVE Promise!Cancel(Event)
  BY <1>7 DEF Clear, Promise!Cancel
<1>8. ASSUME NEW e \in Event, Start(e) \/ Elapse(e) \/ Stop(e) PROVE Same
  BY <1>8 DEF Start, Elapse, Stop, AfterDelay
<1>9. ASSUME NEW e \in Event, Check(e) PROVE Promise!Fire(e) \/ Same
  <2>1. CASE e \in pending
    BY <1>9, <2>1 DEF Check, Promise!Fire, Promise!Become
  <2>2. CASE e \notin pending
    BY <1>9, <2>2 DEF Check, AfterDelay
  <2> QED
    BY <2>1, <2>2
<1>10. ASSUME NEW e \in Event, CallbackReturns(e) PROVE Promise!Finish(e)
  BY <1>10 DEF CallbackReturns, AfterDelay, PendingCallback, Promise!Finish, Promise!Become
<1>11. ASSUME NEW e \in Event, Erase(e) PROVE Promise!Cancel({e})
  BY <1>11 DEF Erase, Promise!Cancel
<1>12. CASE UNCHANGED vars
  BY <1>12 DEF vars
<1> HIDE DEF Inv, TypeOK, Become, PendingHasThread, TimerPhase
<1>13. ASSUME NEW c \in Caller, Call(c) PROVE Promise!Next \/ Same
  <2>1. \A e \in Event : {e} \subseteq Event
    OBVIOUS
  <2> QED
    BY <1>1, <1>4, <1>5, <1>13, <2>1 DEF Call, Promise!Next
<1>14. ASSUME NEW c \in Caller, Step(c) PROVE Promise!Next \/ Same
  <2>1. Insert(c) => arg[c] \in Event
    BY DEF Insert, Inv, SettersApart
  <2>2. Insert(c) => Promise!Next
    BY <1>2, <2>1 DEF Promise!Next
  <2>3. Clear(c) => Promise!Next
    BY <1>7 DEF Promise!Next
  <2> QED
    BY <1>3, <1>6, <1>14, <2>2, <2>3
<1>15. ASSUME NEW e \in Event, TimerStep(e) PROVE Promise!Next \/ Same
  <2>1. Erase(e) => Promise!Next
    BY <1>11 DEF Promise!Next
  <2>2. Check(e) => Promise!Next \/ Same
    BY <1>9 DEF Promise!Next
  <2>3. CallbackReturns(e) => Promise!Next
    BY <1>10 DEF Promise!Next
  <2> QED
    BY <1>8, <1>15, <2>1, <2>2, <2>3 DEF TimerStep
<1> QED
  BY <1>12, <1>13, <1>14, <1>15 DEF Next

(* The timers of a client keep the promise of EventTimer: none makes a     *)
(* callback that was cancelled before it started.                          *)
THEOREM TimersKeepPromise == Spec => PromiseSpec
<1>1. Init => Promise!Init
  BY DEF Init, Promise!Init, TimerPhase
<1>2. Inv /\ [Next]_vars => [Promise!Next]_TimerPhase
  BY PhaseStep
<1> QED
  BY <1>1, <1>2, TimerInvariant, PTL DEF Spec, PromiseSpec, Promise!Spec

-----------------------------------------------------------------------------
(* The dispatchers whose threads the timers, and the workers, run in: what *)
(* DispatcherContract promises holds of Dispatchers.                       *)
CONSTANT HandleMayFail

D == INSTANCE Dispatchers

(* What the thread of a dispatcher leaves behind as it goes on.            *)
LeftBehind(d) ==
    /\ thread[d] \in {"none", "failed", "start", "method", "leave"} => returned[d] = None
    /\ thread[d] \in {"store", "signal", "ended"} => returned[d] # None
    /\ thread[d] \in {"store", "signal"} => Managed
    /\ thread[d] = "signal" => exitCode[d] = returned[d]
    /\ d \in signalled => thread[d] = "ended" /\ exitCode[d] = returned[d]

AllLeftBehind == \A d \in Dispatcher : LeftBehind(d)

(* The dispatcher of a context exists, and its worker is the only one that *)
(* has not come to its end.                                                *)
WorkerKept ==
    /\ isSetup => asyncDispatcher # None
    /\ caller = "join" => isSetup
    /\ asyncDispatcher # None => asyncDispatcher \in exists
    /\ \A d \in Worker :
          thread[d] \in {"start", "method", "store", "signal"} => isSetup /\ asyncDispatcher = d

(* A Timer exists as long as somebody refers to it: whoever cancels it     *)
(* does so from when it takes it from the map until its wait is over.      *)
TimerKept(d) ==
    /\ d \in exists <=> refs[d] # {}
    /\ thread[d] = "none" => refs[d] = {}
    /\ thread[d] \in {"method", "leave"} => "thread" \in refs[d]
    /\ "canceler" \in refs[d] <=> caller \in {"waitTimer", "release"} /\ target = d

AllTimersKept ==
    /\ \A d \in Timer : TimerKept(d)
    /\ caller \in {"waitTimer", "release"} => target \in Timer

AnswerIsTrue == ExitCodeIsTrue /\ (answer.hr = "S_OK" => answer.of \in Worker)

DispatcherInv ==
    /\ DispatcherTypes
    /\ AllLeftBehind
    /\ WorkerKept
    /\ AllTimersKept
    /\ AnswerIsTrue

(* No dispatcher exists, and nothing has been answered.                    *)
LEMMA InitDispatcherInv == D!Init => DispatcherInv
<1> SUFFICES ASSUME D!Init PROVE DispatcherInv
  OBVIOUS
<1> USE DispatcherAssumption DEF D!Init, D!Dispatcher, Dispatcher
<1>1. DispatcherTypes
  BY DEF DispatcherTypes, ThreadLabel, Holder, CallerLabel
<1>2. AllLeftBehind
  BY DEF AllLeftBehind, LeftBehind
<1>3. WorkerKept /\ AnswerIsTrue
  BY DEF WorkerKept, AnswerIsTrue, ExitCodeIsTrue
<1>4. AllTimersKept
  BY DEF AllTimersKept, TimerKept
<1> QED
  BY <1>1, <1>2, <1>3, <1>4 DEF DispatcherInv

(* The types.                                                              *)
LEMMA DispatcherTypesStep == ASSUME DispatcherInv, [D!Next]_D!vars PROVE DispatcherTypes'
<1> USE DispatcherAssumption DEF DispatcherInv, D!context, D!threads, D!vars, D!Become,
         D!Dispatcher, Dispatcher, DispatcherTypes, ThreadLabel, Holder, CallerLabel
<1>1. ASSUME NEW d \in Worker, D!Setup(d) PROVE DispatcherTypes'
  BY <1>1 DEF D!Setup, D!Dispatch, D!DefaultDispatch, D!ManagedDispatch
<1>2. ASSUME D!Shutdown \/ D!Join \/ D!GetAsyncExitCode PROVE DispatcherTypes'
  BY <1>2 DEF D!Shutdown, D!Join, D!GetAsyncExitCode
<1>3. ASSUME NEW d \in Timer, D!SetEventTimer(d) PROVE DispatcherTypes'
  BY <1>3 DEF D!SetEventTimer, D!Dispatch, D!DefaultDispatch, D!ManagedDispatch
<1>4. ASSUME NEW d \in Timer, D!SetterReturns(d) \/ D!TakeFromMap(d) \/ D!LeaveMap(d)
      PROVE DispatcherTypes'
  BY <1>4 DEF D!SetterReturns, D!TakeFromMap, D!LeaveMap, D!Drop
<1>5. ASSUME NEW d \in Timer, NEW w \in BOOLEAN, D!CancelEventTimer(d, w) PROVE DispatcherTypes'
  BY <1>5 DEF D!CancelEventTimer
<1>6. ASSUME D!TimerWaitReturns \/ D!Release PROVE DispatcherTypes'
  BY <1>6 DEF D!TimerWaitReturns, D!Release, D!Drop
<1>7. ASSUME NEW w \in BOOLEAN, D!CancelAllEventTimers(w) \/ D!WaitAllReturns
      PROVE DispatcherTypes'
  BY <1>7 DEF D!CancelAllEventTimers, D!WaitAllReturns
<1>8. ASSUME D!Clear PROVE DispatcherTypes'
  BY <1>8 DEF D!Clear, D!InMap
<1>9. ASSUME NEW d \in Worker, NEW code \in Code, D!StartWorker(d) \/ D!WorkerReturns(d, code)
      PROVE DispatcherTypes'
  BY <1>9 DEF D!StartWorker, D!WorkerReturns, D!Returns
<1>10. ASSUME NEW d \in Timer, D!StartTimer(d) PROVE DispatcherTypes'
  BY <1>10 DEF D!StartTimer
<1>11. ASSUME NEW d \in Timer, D!TimerReturns(d) PROVE DispatcherTypes'
  BY <1>11 DEF D!TimerReturns, D!Drop, D!Returns
<1>12. ASSUME NEW d \in Dispatcher, D!StoreExitCode(d) \/ D!SetExitThreadEvent(d)
      PROVE DispatcherTypes'
  BY <1>12 DEF D!StoreExitCode, D!SetExitThreadEvent
<1>13. CASE UNCHANGED D!vars
  BY <1>13
<1> QED
BY <1>1, <1>2, <1>3, <1>4, <1>5, <1>6, <1>7, <1>8, <1>9, <1>10, <1>11, <1>12, <1>13
    DEF D!Next, D!Application, D!WorkerThread, D!TimerThread, D!ManagedThread, D!Dispatcher

(* The codes and the event: both are written after the method returned.    *)
LEMMA LeftBehindStep == ASSUME DispatcherInv, [D!Next]_D!vars PROVE AllLeftBehind'
<1> USE DispatcherAssumption DEF DispatcherInv, D!context, D!threads, D!vars, D!Become,
         D!Dispatcher, Dispatcher, AllLeftBehind, LeftBehind, DispatcherTypes, Managed, D!Managed
<1>1. ASSUME NEW d \in Worker, D!Setup(d) PROVE AllLeftBehind'
  BY <1>1 DEF D!Setup, D!Dispatch, D!DefaultDispatch, D!ManagedDispatch
<1>2. ASSUME D!Shutdown \/ D!Join \/ D!GetAsyncExitCode PROVE AllLeftBehind'
  BY <1>2 DEF D!Shutdown, D!Join, D!GetAsyncExitCode
<1>3. ASSUME NEW d \in Timer, D!SetEventTimer(d) PROVE AllLeftBehind'
  BY <1>3 DEF D!SetEventTimer, D!Dispatch, D!DefaultDispatch, D!ManagedDispatch
<1>4. ASSUME NEW d \in Timer, D!SetterReturns(d) \/ D!TakeFromMap(d) \/ D!LeaveMap(d)
      PROVE AllLeftBehind'
  BY <1>4 DEF D!SetterReturns, D!TakeFromMap, D!LeaveMap, D!Drop
<1>5. ASSUME NEW d \in Timer, NEW w \in BOOLEAN, D!CancelEventTimer(d, w) PROVE AllLeftBehind'
  BY <1>5 DEF D!CancelEventTimer
<1>6. ASSUME D!TimerWaitReturns \/ D!Release PROVE AllLeftBehind'
  BY <1>6 DEF D!TimerWaitReturns, D!Release, D!Drop
<1>7. ASSUME NEW w \in BOOLEAN, D!CancelAllEventTimers(w) \/ D!WaitAllReturns PROVE AllLeftBehind'
  BY <1>7 DEF D!CancelAllEventTimers, D!WaitAllReturns
<1>8. ASSUME D!Clear PROVE AllLeftBehind'
  BY <1>8 DEF D!Clear, D!InMap
<1>9. ASSUME NEW d \in Worker, NEW code \in Code, D!StartWorker(d) \/ D!WorkerReturns(d, code)
      PROVE AllLeftBehind'
  BY <1>9 DEF D!StartWorker, D!WorkerReturns, D!Returns
<1>10. ASSUME NEW d \in Timer, D!StartTimer(d) PROVE AllLeftBehind'
  BY <1>10 DEF D!StartTimer
<1>11. ASSUME NEW d \in Timer, D!TimerReturns(d) PROVE AllLeftBehind'
  BY <1>11 DEF D!TimerReturns, D!Drop, D!Returns
<1>12. ASSUME NEW d \in Dispatcher, D!StoreExitCode(d) \/ D!SetExitThreadEvent(d)
      PROVE AllLeftBehind'
  BY <1>12 DEF D!StoreExitCode, D!SetExitThreadEvent
<1>13. CASE UNCHANGED D!vars
  BY <1>13
<1> QED
BY <1>1, <1>2, <1>3, <1>4, <1>5, <1>6, <1>7, <1>8, <1>9, <1>10, <1>11, <1>12, <1>13
    DEF D!Next, D!Application, D!WorkerThread, D!TimerThread, D!ManagedThread, D!Dispatcher

(* The worker: a join that timed out leaves the context, and its worker,   *)
(* as they are.                                                            *)
LEMMA WorkerKeptStep == ASSUME DispatcherInv, [D!Next]_D!vars PROVE WorkerKept'
<1> USE DispatcherAssumption DEF DispatcherInv, D!context, D!threads, D!vars, D!Become,
         D!Dispatcher, Dispatcher, WorkerKept, DispatcherTypes, D!HandleSet, D!Managed,
         AllLeftBehind, LeftBehind, Managed, AllTimersKept
<1>1. ASSUME NEW d \in Worker, D!Setup(d) PROVE WorkerKept'
  BY <1>1 DEF D!Setup, D!Dispatch, D!DefaultDispatch, D!ManagedDispatch
<1>2. ASSUME D!Shutdown \/ D!Join \/ D!GetAsyncExitCode PROVE WorkerKept'
  BY <1>2 DEF D!Shutdown, D!Join, D!GetAsyncExitCode
<1>3. ASSUME NEW d \in Timer, D!SetEventTimer(d) PROVE WorkerKept'
  BY <1>3 DEF D!SetEventTimer, D!Dispatch, D!DefaultDispatch, D!ManagedDispatch
<1>4. ASSUME NEW d \in Timer, D!SetterReturns(d) \/ D!TakeFromMap(d) \/ D!LeaveMap(d)
      PROVE WorkerKept'
  BY <1>4 DEF D!SetterReturns, D!TakeFromMap, D!LeaveMap, D!Drop
<1>5. ASSUME NEW d \in Timer, NEW w \in BOOLEAN, D!CancelEventTimer(d, w) PROVE WorkerKept'
  BY <1>5 DEF D!CancelEventTimer
<1>6. ASSUME D!TimerWaitReturns \/ D!Release PROVE WorkerKept'
  BY <1>6 DEF D!TimerWaitReturns, D!Release, D!Drop
<1>7. ASSUME NEW w \in BOOLEAN, D!CancelAllEventTimers(w) \/ D!WaitAllReturns PROVE WorkerKept'
  BY <1>7 DEF D!CancelAllEventTimers, D!WaitAllReturns
<1>8. ASSUME D!Clear PROVE WorkerKept'
  BY <1>8 DEF D!Clear, D!InMap
<1>9. ASSUME NEW d \in Worker, NEW code \in Code, D!StartWorker(d) \/ D!WorkerReturns(d, code)
      PROVE WorkerKept'
  BY <1>9 DEF D!StartWorker, D!WorkerReturns, D!Returns
<1>10. ASSUME NEW d \in Timer, D!StartTimer(d) PROVE WorkerKept'
  BY <1>10 DEF D!StartTimer
<1>11. ASSUME NEW d \in Timer, D!TimerReturns(d) PROVE WorkerKept'
  BY <1>11 DEF D!TimerReturns, D!Drop, D!Returns
<1>12. ASSUME NEW d \in Dispatcher, D!StoreExitCode(d) \/ D!SetExitThreadEvent(d) PROVE WorkerKept'
  BY <1>12 DEF D!StoreExitCode, D!SetExitThreadEvent
<1>13. CASE UNCHANGED D!vars
  BY <1>13
<1> QED
BY <1>1, <1>2, <1>3, <1>4, <1>5, <1>6, <1>7, <1>8, <1>9, <1>10, <1>11, <1>12, <1>13
    DEF D!Next, D!Application, D!WorkerThread, D!TimerThread, D!ManagedThread, D!Dispatcher

(* The references to a Timer.                                              *)
LEMMA TimersKeptStep == ASSUME DispatcherInv, [D!Next]_D!vars PROVE AllTimersKept'
<1> USE DispatcherAssumption DEF DispatcherInv, D!context, D!threads, D!vars, D!Become,
         D!Dispatcher, Dispatcher, AllTimersKept, TimerKept, DispatcherTypes, Holder, D!Locked
<1>1. ASSUME NEW d \in Worker, D!Setup(d) PROVE AllTimersKept'
  BY <1>1 DEF D!Setup, D!Dispatch, D!DefaultDispatch, D!ManagedDispatch
<1>2. ASSUME D!Shutdown \/ D!Join \/ D!GetAsyncExitCode PROVE AllTimersKept'
  BY <1>2 DEF D!Shutdown, D!Join, D!GetAsyncExitCode
<1>3. ASSUME NEW d \in Timer, D!SetEventTimer(d) PROVE AllTimersKept'
  BY <1>3 DEF D!SetEventTimer, D!Dispatch, D!DefaultDispatch, D!ManagedDispatch
<1>4. ASSUME NEW d \in Timer, D!SetterReturns(d) \/ D!TakeFromMap(d) \/ D!LeaveMap(d)
      PROVE AllTimersKept'
  BY <1>4 DEF D!SetterReturns, D!TakeFromMap, D!LeaveMap, D!Drop
<1>5. ASSUME NEW d \in Timer, NEW w \in BOOLEAN, D!CancelEventTimer(d, w) PROVE AllTimersKept'
  BY <1>5 DEF D!CancelEventTimer
<1>6. ASSUME D!TimerWaitReturns \/ D!Release PROVE AllTimersKept'
  BY <1>6 DEF D!TimerWaitReturns, D!Release, D!Drop
<1>7. ASSUME NEW w \in BOOLEAN, D!CancelAllEventTimers(w) \/ D!WaitAllReturns PROVE AllTimersKept'
  BY <1>7 DEF D!CancelAllEventTimers, D!WaitAllReturns
<1>8. ASSUME D!Clear PROVE AllTimersKept'
  BY <1>8 DEF D!Clear, D!InMap
<1>9. ASSUME NEW d \in Worker, NEW code \in Code, D!StartWorker(d) \/ D!WorkerReturns(d, code)
      PROVE AllTimersKept'
  BY <1>9 DEF D!StartWorker, D!WorkerReturns, D!Returns
<1>10. ASSUME NEW d \in Timer, D!StartTimer(d) PROVE AllTimersKept'
  BY <1>10 DEF D!StartTimer
<1>11. ASSUME NEW d \in Timer, D!TimerReturns(d) PROVE AllTimersKept'
  BY <1>11 DEF D!TimerReturns, D!Drop, D!Returns
<1>12. ASSUME NEW d \in Dispatcher, D!StoreExitCode(d) \/ D!SetExitThreadEvent(d)
      PROVE AllTimersKept'
  BY <1>12 DEF D!StoreExitCode, D!SetExitThreadEvent
<1>13. CASE UNCHANGED D!vars
  BY <1>13
<1> QED
BY <1>1, <1>2, <1>3, <1>4, <1>5, <1>6, <1>7, <1>8, <1>9, <1>10, <1>11, <1>12, <1>13
    DEF D!Next, D!Application, D!WorkerThread, D!TimerThread, D!ManagedThread, D!Dispatcher

(* The answer: a code that was returned is not returned again.             *)
LEMMA AnswerStep == ASSUME DispatcherInv, [D!Next]_D!vars PROVE AnswerIsTrue'
<1> USE DispatcherAssumption DEF DispatcherInv, D!context, D!threads, D!vars, D!Become,
         D!Dispatcher, Dispatcher, AnswerIsTrue, ExitCodeIsTrue, DispatcherTypes, Managed,
         D!Managed, D!HandleSet, AllLeftBehind, LeftBehind, D!NativeExitCode, D!ManagedExitCode,
         D!DefaultExitCode
<1>1. ASSUME NEW d \in Worker, D!Setup(d) PROVE AnswerIsTrue'
  BY <1>1 DEF D!Setup, D!Dispatch, D!DefaultDispatch, D!ManagedDispatch
<1>2. ASSUME D!Shutdown \/ D!Join \/ D!GetAsyncExitCode PROVE AnswerIsTrue'
  BY <1>2 DEF D!Shutdown, D!Join, D!GetAsyncExitCode
<1>3. ASSUME NEW d \in Timer, D!SetEventTimer(d) PROVE AnswerIsTrue'
  BY <1>3 DEF D!SetEventTimer, D!Dispatch, D!DefaultDispatch, D!ManagedDispatch
<1>4. ASSUME NEW d \in Timer, D!SetterReturns(d) \/ D!TakeFromMap(d) \/ D!LeaveMap(d)
      PROVE AnswerIsTrue'
  BY <1>4 DEF D!SetterReturns, D!TakeFromMap, D!LeaveMap, D!Drop
<1>5. ASSUME NEW d \in Timer, NEW w \in BOOLEAN, D!CancelEventTimer(d, w) PROVE AnswerIsTrue'
  BY <1>5 DEF D!CancelEventTimer
<1>6. ASSUME D!TimerWaitReturns \/ D!Release PROVE AnswerIsTrue'
  BY <1>6 DEF D!TimerWaitReturns, D!Release, D!Drop
<1>7. ASSUME NEW w \in BOOLEAN, D!CancelAllEventTimers(w) \/ D!WaitAllReturns PROVE AnswerIsTrue'
  BY <1>7 DEF D!CancelAllEventTimers, D!WaitAllReturns
<1>8. ASSUME D!Clear PROVE AnswerIsTrue'
  BY <1>8 DEF D!Clear, D!InMap
<1>9. ASSUME NEW d \in Worker, NEW code \in Code, D!StartWorker(d) \/ D!WorkerReturns(d, code)
      PROVE AnswerIsTrue'
  BY <1>9 DEF D!StartWorker, D!WorkerReturns, D!Returns
<1>10. ASSUME NEW d \in Timer, D!StartTimer(d) PROVE AnswerIsTrue'
  BY <1>10 DEF D!StartTimer
<1>11. ASSUME NEW d \in Timer, D!TimerReturns(d) PROVE AnswerIsTrue'
  BY <1>11 DEF D!TimerReturns, D!Drop, D!Returns
<1>12. ASSUME NEW d \in Dispatcher, D!StoreExitCode(d) \/ D!SetExitThreadEvent(d)
      PROVE AnswerIsTrue'
  BY <1>12 DEF D!StoreExitCode, D!SetExitThreadEvent
<1>13. CASE UNCHANGED D!vars
  BY <1>13
<1> QED
BY <1>1, <1>2, <1>3, <1>4, <1>5, <1>6, <1>7, <1>8, <1>9, <1>10, <1>11, <1>12, <1>13
    DEF D!Next, D!Application, D!WorkerThread, D!TimerThread, D!ManagedThread, D!Dispatcher

(* The inductive invariant of the dispatchers.                             *)
THEOREM DispatcherInvariant == D!Spec => []DispatcherInv
<1>1. DispatcherInv /\ [D!Next]_D!vars => DispatcherInv'
  BY DispatcherTypesStep, LeftBehindStep, WorkerKeptStep, TimersKeptStep, AnswerStep
  DEF DispatcherInv
<1> QED
  BY <1>1, InitDispatcherInv, PTL DEF D!Spec

(* The dispatcher of a worker is not deleted while its thread uses it,     *)
(* before the method and, on a managed thread, after it.                   *)
THEOREM WorkerDispatcherExists == D!Spec => []WorkerUsesItsDispatcher
<1>1. DispatcherInv => WorkerUsesItsDispatcher
  BY DispatcherAssumption DEF DispatcherInv, WorkerKept, WorkerUsesItsDispatcher, Dispatcher
<1> QED
  BY <1>1, DispatcherInvariant, PTL

(* Neither shutdown(), cancelEventTimer() nor cancelAllEventTimers() waits *)
(* for a handle that is closed meanwhile.                                  *)
THEOREM NoWaitOnClosedHandle == D!Spec => []WaitedHandleIsOpen
<1>1. ASSUME DispatcherInv PROVE WaitedHandleIsOpen
  <2>1. caller = "join" => asyncDispatcher \in exists
    BY <1>1 DEF DispatcherInv, WorkerKept
  <2>2. caller = "waitTimer" => target \in exists
    BY <1>1 DEF DispatcherInv, AllTimersKept, TimerKept
  <2>3. InMap \subseteq exists
    BY <1>1 DEF DispatcherInv, AllTimersKept, TimerKept, InMap
  <2> QED
    BY <2>1, <2>2, <2>3 DEF WaitedHandleIsOpen, Awaited
<1> QED
  BY <1>1, DispatcherInvariant, PTL

(* The handle of a thread, of either kind, is set only after the method    *)
(* has returned.                                                           *)
THEOREM SetHandleIsTrusted == D!Spec => []HandleSetMeansReturned
<1>1. DispatcherInv => HandleSetMeansReturned
  BY DEF DispatcherInv, AllLeftBehind, LeftBehind, HandleSetMeansReturned, HandleSet
<1> QED
  BY <1>1, DispatcherInvariant, PTL

(* getAsyncExitCode() answers with what that worker's method returned.     *)
THEOREM ExitCodeIsTrusted == D!Spec => []ExitCodeIsTrue
<1>1. DispatcherInv => ExitCodeIsTrue
  BY DEF DispatcherInv, AnswerIsTrue
<1> QED
  BY <1>1, DispatcherInvariant, PTL

=============================================================================
