----------------------- MODULE AsyncStateMachineProofs -----------------------
(***************************************************************************)
(* Theorems about AsyncStateMachine, for any number of threads and events, *)
(* any priorities, and any choice of the threads that make each call.      *)
(***************************************************************************)
EXTENDS AsyncStateMachine, EventQueueProofs

-----------------------------------------------------------------------------
(* The inductive invariant, in parts.                                      *)

Queued(e) == \E i \in 1 .. Len(queue) : queue[i] = e

(* setup() has the context for itself while it replaces the handle.        *)
SetupExclusive ==
    /\ \A t \in Thread : pc[t] \in {"create", "dispatch"} => t = Owner
    /\ pc[Owner] \in {"create", "dispatch"} =>
          /\ isSetup
          /\ \A t \in Thread \ {Owner} : pc[t] = "idle"
          /\ worker \in {"none", "exited"}
    /\ pc[Owner] = "dispatch" => worker = "none" /\ queue = <<>> /\ due = {}
    /\ ~created => worker = "none" /\ queue = <<>> /\ due = {}
    /\ isSetup /\ pc[Owner] # "create" => created
    /\ \A t \in Thread : pc[t] = "queueEvent" => created

(* The worker thread calls methods only from a callback.                   *)
CallbacksOnly == pc[Worker] # "idle" => worker \in {"start", "handle"}

ArgIsEvent == \A t \in Thread : pc[t] \in {"queueEvent", "setEvent"} => arg[t] \in Event

(* The worker has ended when shutdown() goes on to shutdownInner().        *)
StoppedWorker ==
    /\ \A t \in Thread : pc[t] = "shutdownInner" => worker \in {"none", "exited"}
    /\ NoWorkerAfterShutdown

(* Where the worker is about to wait, or will be without having fetched.   *)
BeforeWait == {"none", "start", "signalReady", "wait"}

(* The wakeup of each queued event: `available' is set, or the caller that *)
(* queued it is about to set it.                                           *)
Woken ==
    worker \in BeforeWait /\ pc[Owner] # "create" =>
        \A e \in Event : Queued(e) =>
            available \/ \E t \in Thread : pc[t] = "setEvent" /\ arg[t] = e

(* The events that shutdown() must let through are queued, and the worker  *)
(* will be woken for them.                                                 *)
DueWaits ==
    /\ \A e \in due : Queued(e)
    /\ worker \in BeforeWait /\ pc[Owner] # "create" /\ due # {} => available

(* A worker that obeys shutdown() has none of them left.                   *)
Obeying ==
    /\ worker = "resetShutdown" => shutdownEvent /\ due = {}
    /\ worker # "exited" => exitCode = "none"
    /\ ShutdownDrains

Entered ==
    /\ worker = "signalReady" => entryDone
    /\ ReadyMeansEntered

Inv ==
    /\ TypeOK
    /\ SetupExclusive
    /\ CallbacksOnly
    /\ ArgIsEvent
    /\ StoppedWorker
    /\ Woken
    /\ DueWaits
    /\ Obeying
    /\ Entered

-----------------------------------------------------------------------------
LEMMA EmptyQueue == <<>> \in Seq(Event) /\ Len(<<>>) = 0
OBVIOUS

LEMMA InvInit == Init => Inv
<1> SUFFICES ASSUME Init PROVE Inv
  OBVIOUS
<1> USE ThreadAssumption DEF Init
<1>1. TypeOK
  BY EmptyQueue DEF TypeOK, WorkerLabel, Label, Outcome
<1>2. SetupExclusive /\ CallbacksOnly /\ ArgIsEvent
  BY DEF SetupExclusive, CallbacksOnly, ArgIsEvent
<1>3. StoppedWorker /\ Obeying /\ Entered
  BY DEF StoppedWorker, NoWorkerAfterShutdown, Obeying, ShutdownDrains, Entered, ReadyMeansEntered
<1>4. \A e \in Event : ~Queued(e)
  BY EmptyQueue DEF Queued
<1>5. Woken /\ DueWaits
  BY <1>4 DEF Woken, DueWaits
<1> QED
  BY <1>1, <1>2, <1>3, <1>5 DEF Inv

(* What Enqueue and Fetch do to the events that are queued.                *)
LEMMA EnqueueQueued ==
    ASSUME queue \in Seq(Event), NEW f \in Event, queue' = QueueEvent(queue, f)
    PROVE  /\ queue' \in Seq(Event)
           /\ \A e \in Event : Queued(e)' <=> Queued(e) \/ e = f
<1> DEFINE i == Position(queue, f)
<1>1. i \in 1 .. Len(queue) + 1
  BY PositionProperties
<1>2. /\ queue' \in Seq(Event)
      /\ Len(queue') = Len(queue) + 1
      /\ queue'[i] = f
      /\ \A j \in 1 .. i - 1 : queue'[j] = queue[j]
      /\ \A j \in i + 1 .. Len(queue) + 1 : queue'[j] = queue[j - 1]
  BY QueueEventProperties
<1>3. Len(queue) \in Nat
  OBVIOUS
<1> HIDE DEF i
<1>4. ASSUME NEW e \in Event, Queued(e)'
      PROVE  Queued(e) \/ e = f
  <2>1. PICK j \in 1 .. Len(queue') : queue'[j] = e
    BY <1>4 DEF Queued
  <2>2. j < i \/ j = i \/ (j > i /\ j - 1 \in 1 .. Len(queue))
    BY <1>1, <1>2, <1>3, <2>1
  <2> QED
    BY <1>1, <1>2, <1>3, <2>1, <2>2 DEF Queued
<1>5. Queued(f)'
  BY <1>1, <1>2, <1>3 DEF Queued
<1>6. ASSUME NEW e \in Event, Queued(e)
      PROVE  Queued(e)'
  <2>1. PICK j \in 1 .. Len(queue) : queue[j] = e
    BY <1>6 DEF Queued
  <2>2. CASE j < i
    BY <1>1, <1>2, <1>3, <2>1, <2>2 DEF Queued
  <2>3. CASE j >= i
    <3>1. j + 1 \in i + 1 .. Len(queue) + 1 /\ (j + 1) - 1 = j /\ j + 1 \in 1 .. Len(queue')
      BY <1>1, <1>2, <1>3, <2>1, <2>3
    <3>2. queue'[j + 1] = e
      BY <1>2, <2>1, <3>1
    <3> QED
      BY <3>1, <3>2 DEF Queued
  <2> QED
    BY <1>1, <1>3, <2>1, <2>2, <2>3
<1> QED
  BY <1>2, <1>4, <1>5, <1>6

LEMMA PopQueued ==
    ASSUME queue \in Seq(Event), queue # <<>>, queue' = PopBack(queue)
    PROVE  /\ Back(queue) \in Event
           /\ queue' \in Seq(Event)
           /\ Len(queue') = Len(queue) - 1
           /\ \A i \in 1 .. Len(queue') : queue'[i] = queue[i]
           /\ \A e \in Event : Queued(e) /\ e # Back(queue) => Queued(e)'
<1>1. Len(queue) \in Nat \ {0} /\ queue \in [1 .. Len(queue) -> Event]
  BY LenProperties, EmptySeq
<1>2. /\ queue' \in Seq(Event)
      /\ Len(queue') = Len(queue) - 1
      /\ \A i \in 1 .. Len(queue) - 1 : queue'[i] = queue[i]
  BY <1>1, SubSeqProperties DEF PopBack
<1> QED
  BY <1>1, <1>2 DEF Queued, Back

LEMMA InvStep ==
    ASSUME Inv, [Next]_vars
    PROVE  Inv'
<1> USE ThreadAssumption DEF Inv, TypeOK, SetupExclusive, CallbacksOnly, ArgIsEvent, StoppedWorker, NoWorkerAfterShutdown, Woken, DueWaits, Obeying, ShutdownDrains, Entered, ReadyMeansEntered, BeforeWait, Queued, Goto, Return, Label, WorkerLabel, Outcome, Terminated, MayCall, CallbackReturns, events, work, calls
<1>1. ASSUME Setup
     PROVE  Inv'
  BY <1>1 DEF Setup
<1>2. ASSUME CreateEvents
     PROVE  Inv'
  <2>1. /\ pc[Owner] = "create" /\ pc' = [pc EXCEPT ![Owner] = "dispatch"]
        /\ queue' = <<>> /\ due' = {} /\ worker' = "none" /\ exitCode' = "none"
        /\ created' = TRUE /\ ready' = FALSE /\ available' = FALSE
        /\ shutdownEvent' = FALSE /\ entryDone' = FALSE
        /\ UNCHANGED <<isSetup, inHand, arg, result>>
    BY <1>2 DEF CreateEvents
  <2>2. TypeOK'
    BY <2>1, EmptyQueue
  <2>3. (SetupExclusive /\ CallbacksOnly /\ ArgIsEvent)'
    BY <2>1
  <2>4. (StoppedWorker /\ Obeying /\ Entered)'
    BY <2>1
  <2>5. \A e \in Event : ~Queued(e)'
    BY <2>1, EmptyQueue
  <2>6. (Woken /\ DueWaits)'
    BY <2>1, <2>5
  <2> QED
    BY <2>2, <2>3, <2>4, <2>6
<1>3. ASSUME Dispatch
     PROVE  Inv'
  <2>1. /\ pc[Owner] = "dispatch" /\ pc' = [pc EXCEPT ![Owner] = "idle"]
        /\ worker = "none" /\ worker' \in {"none", "start"}
        /\ queue = <<>> /\ due = {}
        /\ UNCHANGED <<isSetup, created, ready, available, shutdownEvent, queue>>
        /\ UNCHANGED <<exitCode, inHand, arg, result, entryDone, due>>
    BY <1>3 DEF Dispatch
  <2>2. created
    BY <1>3 DEF Dispatch
  <2>3. (TypeOK /\ CallbacksOnly /\ ArgIsEvent)'
    BY <2>1
  <2>4. SetupExclusive'
    BY <2>1, <2>2
  <2>5. (StoppedWorker /\ Obeying /\ Entered)'
    BY <2>1
  <2>6. \A e \in Event : ~Queued(e)'
    BY <2>1, EmptyQueue
  <2>7. (Woken /\ DueWaits)'
    BY <2>1, <2>6
  <2> QED
    BY <2>3, <2>4, <2>5, <2>7
<1>4. ASSUME NEW t \in Producers, NEW e \in Event, TriggerEvent(t, e)
     PROVE  Inv'
  BY <1>4 DEF TriggerEvent
<1>5. ASSUME NEW t \in Waiters, WaitReady(t)
     PROVE  Inv'
  BY <1>5 DEF WaitReady
<1>6. ASSUME NEW t \in Closers, Shutdown(t)
     PROVE  Inv'
  <2>1. /\ pc[t] = "idle" /\ t \in Thread /\ pc[Owner] \notin {"create", "dispatch"}
        /\ t = Worker => worker \in {"start", "handle"}
        /\ UNCHANGED <<isSetup, created, ready, available, queue>>
        /\ UNCHANGED <<worker, exitCode, inHand, arg, entryDone>>
    BY <1>6 DEF Shutdown
  <2>2. CASE ~created /\ Goto(t, "shutdownInner") /\ UNCHANGED <<shutdownEvent, result, due>>
    BY <2>1, <2>2
  <2>3. CASE Return(t, "WAIT_FAILED") /\ UNCHANGED <<shutdownEvent, due>>
    BY <2>1, <2>3
  <2>4. CASE /\ created /\ worker # "none" /\ shutdownEvent' = TRUE
             /\ due' = IF shutdownEvent \/ worker = "exited" THEN due ELSE Waiting
             /\ Goto(t, "join") /\ UNCHANGED result
    <3>1. /\ Waiting \subseteq Event
          /\ \A e \in Waiting : Queued(e) /\ \A u \in Thread : pc[u] = "setEvent" => arg[u] # e
      BY DEF Waiting
    <3>2. (TypeOK /\ SetupExclusive /\ CallbacksOnly /\ ArgIsEvent)'
      BY <2>1, <2>4, <3>1
    <3>3. (StoppedWorker /\ Entered)'
      BY <2>1, <2>4
    <3>4. Obeying'
      BY <2>1, <2>4
    <3>5. worker \in BeforeWait /\ Waiting # {} => available
      BY <2>1, <3>1
    <3>6. Woken'
      BY <2>1, <2>4
    <3>7. DueWaits'
      BY <2>1, <2>4, <3>1, <3>5
    <3> QED
      BY <3>2, <3>3, <3>4, <3>6, <3>7
  <2> QED
    BY <1>6, <2>2, <2>3, <2>4 DEF Shutdown
<1>7. ASSUME NEW t \in Thread, Enqueue(t)
     PROVE  Inv'
  <2> DEFINE f == arg[t]
  <2>1. /\ pc[t] = "queueEvent" /\ pc' = [pc EXCEPT ![t] = "setEvent"]
        /\ queue' = QueueEvent(queue, f)
        /\ UNCHANGED <<isSetup, created, ready, available, shutdownEvent>>
        /\ UNCHANGED <<worker, exitCode, inHand, arg, result, entryDone, due>>
    BY <1>7 DEF Enqueue
  <2>2. f \in Event
    BY <2>1
  <2>3. queue' \in Seq(Event) /\ \A e \in Event : Queued(e)' <=> Queued(e) \/ e = f
    BY <2>1, <2>2, EnqueueQueued
  <2>4. created /\ pc[Owner] \notin {"create", "dispatch"}
    BY <2>1
  <2>5. (TypeOK /\ SetupExclusive /\ CallbacksOnly /\ ArgIsEvent)'
    BY <2>1, <2>2, <2>3, <2>4
  <2>6. (StoppedWorker /\ Obeying /\ Entered)'
    BY <2>1
  <2>7. pc'[t] = "setEvent" /\ arg'[t] = f
    BY <2>1
  <2>8. Woken'
    BY <2>1, <2>3, <2>7
  <2>9. DueWaits'
    BY <2>1, <2>3
  <2> QED
    BY <2>5, <2>6, <2>8, <2>9
<1>8. ASSUME NEW t \in Thread, SetAvailable(t)
     PROVE  Inv'
  BY <1>8 DEF SetAvailable
<1>9. ASSUME NEW t \in Thread, WaitReadyReturn(t)
     PROVE  Inv'
  BY <1>9 DEF WaitReadyReturn
<1>10. ASSUME NEW t \in Thread, Join(t)
     PROVE  Inv'
  BY <1>10 DEF Join
<1>11. ASSUME NEW t \in Thread, ShutdownInner(t)
     PROVE  Inv'
  <2>1. /\ pc[t] = "shutdownInner" /\ pc' = [pc EXCEPT ![t] = "idle"]
        /\ isSetup' = FALSE /\ result' = [result EXCEPT ![t] = "S_OK"]
        /\ UNCHANGED <<created, ready, available, shutdownEvent, queue>>
        /\ UNCHANGED <<worker, exitCode, inHand, arg, entryDone, due>>
    BY <1>11 DEF ShutdownInner
  <2>2. worker \in {"none", "exited"} /\ pc[Owner] \notin {"create", "dispatch"}
    BY <2>1
  <2>7. TypeOK'
    BY <2>1
  <2>3. (CallbacksOnly /\ ArgIsEvent)'
    BY <2>1
  <2>6. SetupExclusive'
    BY <2>1, <2>2
  <2>4. (StoppedWorker /\ Obeying /\ Entered)'
    BY <2>1, <2>2
  <2>5. (Woken /\ DueWaits)'
    BY <2>1, <2>2
  <2> QED
    BY <2>3, <2>4, <2>5, <2>6, <2>7
<1>12. ASSUME NEW r \in Result, InitialEntry(r)
     PROVE  Inv'
  BY <1>12 DEF InitialEntry
<1>13. ASSUME SignalReady
     PROVE  Inv'
  BY <1>13 DEF SignalReady
<1>14. ASSUME Wait
     PROVE  Inv'
  BY <1>14 DEF Wait
<1>15. ASSUME ResetAvailable
     PROVE  Inv'
  <2>1. /\ worker = "resetAvailable" /\ worker' = "fetch" /\ available' = FALSE
        /\ UNCHANGED <<isSetup, created, ready, shutdownEvent, queue, exitCode, inHand>>
        /\ UNCHANGED <<pc, arg, result, entryDone, due>>
    BY <1>15 DEF ResetAvailable
  <2>2. (TypeOK /\ SetupExclusive /\ CallbacksOnly /\ ArgIsEvent)'
    BY <2>1
  <2>3. (StoppedWorker /\ Obeying /\ Entered /\ Woken /\ DueWaits)'
    BY <2>1
  <2> QED
    BY <2>2, <2>3
<1>16. ASSUME ResetShutdown
     PROVE  Inv'
  BY <1>16 DEF ResetShutdown
<1>17. ASSUME Fetch
     PROVE  Inv'
  <2>1. CASE queue = <<>>
    BY <1>17, <2>1 DEF Fetch
  <2>2. CASE queue # <<>>
    <3>1. /\ worker = "fetch" /\ worker' = "handle" /\ queue' = PopBack(queue)
          /\ inHand' = Back(queue) /\ due' = due \ {Back(queue)}
          /\ UNCHANGED <<isSetup, created, ready, available, shutdownEvent, exitCode>>
          /\ UNCHANGED <<pc, arg, result, entryDone>>
      BY <1>17, <2>2 DEF Fetch
    <3>2. queue \in Seq(Event)
      OBVIOUS
    <3>3. /\ Back(queue) \in Event /\ queue' \in Seq(Event)
          /\ \A e \in Event : Queued(e) /\ e # Back(queue) => Queued(e)'
      BY <2>2, <3>1, <3>2, PopQueued
    <3>4. (TypeOK /\ SetupExclusive /\ CallbacksOnly /\ ArgIsEvent)'
      BY <3>1, <3>3
    <3>5. (StoppedWorker /\ Entered)'
      BY <3>1, <3>3
    <3>6. (Obeying /\ Woken /\ DueWaits)'
      BY <3>1, <3>3
    <3> QED
      BY <3>4, <3>5, <3>6
  <2> QED
    BY <2>1, <2>2
<1>18. ASSUME NEW r \in Result, HandleEvent(r)
     PROVE  Inv'
  BY <1>18 DEF HandleEvent
<1>19. CASE UNCHANGED vars
  BY <1>19 DEF vars
<1> QED
  BY <1>1, <1>2, <1>3, <1>4, <1>5, <1>6, <1>7, <1>8, <1>9, <1>10, <1>11, <1>12, <1>13, <1>14, <1>15, <1>16, <1>17, <1>18, <1>19 DEF Next, Call, Step, WorkerStep

-----------------------------------------------------------------------------
(* Every reachable state satisfies the inductive invariant.                *)
THEOREM AsyncInvariant == Spec => []Inv
BY InvInit, InvStep, PTL DEF Spec

(* The variables of the asynchronous machine keep their types: only events *)
(* are ever queued and taken.                                              *)
THEOREM AsyncTypeCorrect == Spec => []TypeOK
<1>1. Inv => TypeOK
  BY DEF Inv
<1> QED
  BY <1>1, AsyncInvariant, PTL

(* triggerEvent() gives back the lock of the queue before it sets          *)
(* hEventAvailable, and the worker resets hEventAvailable before it reads  *)
(* the queue: however these steps interleave, the worker never sleeps on a *)
(* queued event.                                                           *)
THEOREM WakeupNotLost == Spec => []NoLostWakeup
<1>1. Inv => NoLostWakeup
  <2> SUFFICES ASSUME Inv, worker = "wait", queue # <<>>
               PROVE  available \/ \E t \in Thread : pc[t] = "setEvent"
    BY DEF NoLostWakeup
  <2>1. queue \in Seq(Event)
    BY DEF Inv, TypeOK
  <2>2. 1 \in 1 .. Len(queue) /\ queue[1] \in Event
    BY <2>1, EmptySeq, LenProperties
  <2>3. Queued(queue[1])
    BY <2>2 DEF Queued
  <2>4. Owner \in Thread /\ (pc[Owner] = "create" => worker # "wait")
    BY ThreadAssumption DEF Inv, SetupExclusive
  <2> QED
    BY <2>2, <2>3, <2>4 DEF Inv, Woken, BeforeWait
<1> QED
  BY <1>1, AsyncInvariant, PTL

(* A worker that obeys shutdown() has taken every event whose              *)
(* triggerEvent() had returned when shutdown() signalled, because          *)
(* checkWaitResult() sees hEventAvailable before hEventShutdown.           *)
THEOREM Drains == Spec => []ShutdownDrains
<1>1. Inv => ShutdownDrains
  BY DEF Inv, Obeying
<1> QED
  BY <1>1, AsyncInvariant, PTL

(* shutdown() clears the current state only after the worker has ended: no *)
(* callback runs in a context that is shut down.                           *)
THEOREM NoCallbackAfterShutdown == Spec => []NoWorkerAfterShutdown
<1>1. Inv => NoWorkerAfterShutdown
  BY DEF Inv, StoppedWorker
<1> QED
  BY <1>1, AsyncInvariant, PTL

(* hEventReady is trusted only after this setup's entry() has returned.    *)
THEOREM ReadyIsTrusted == Spec => []ReadyMeansEntered
<1>1. Inv => ReadyMeansEntered
  BY DEF Inv, Entered
<1> QED
  BY <1>1, AsyncInvariant, PTL

(* As long as no subtraction of two priorities overflows, the queue stays  *)
(* sorted, whatever is triggered and taken in between.                     *)
THEOREM QueueStaysSorted ==
    ASSUME NoOverflow
    PROVE  Spec => []QueueAscends
<1>1. Init => QueueAscends
  BY EmptyQueue DEF Init, QueueAscends, Ascending
<1>2. ASSUME Inv, QueueAscends, [Next]_vars
      PROVE  QueueAscends'
  <2>1. CASE UNCHANGED queue
    BY <1>2, <2>1 DEF QueueAscends, Ascending
  <2>2. CASE queue' = <<>>
    BY <2>2, EmptyQueue DEF QueueAscends, Ascending
  <2>3. ASSUME NEW t \in Thread, Enqueue(t)
        PROVE  QueueAscends'
    <3>1. queue \in Seq(Event) /\ arg[t] \in Event /\ queue' = QueueEvent(queue, arg[t])
      BY <1>2, <2>3 DEF Inv, TypeOK, ArgIsEvent, Enqueue
    <3> QED
      BY <1>2, <3>1, NoOverflow, QueueEventKeepsAscending DEF QueueAscends
  <2>4. CASE Fetch /\ queue # <<>>
    <3>1. queue \in Seq(Event) /\ queue' = PopBack(queue)
      BY <1>2, <2>4 DEF Inv, TypeOK, Fetch
    <3>2. /\ Len(queue') = Len(queue) - 1
          /\ \A i \in 1 .. Len(queue') : queue'[i] = queue[i]
      BY <2>4, <3>1, PopQueued
    <3>3. Len(queue) \in Nat
      BY <3>1
    <3> QED
      BY <1>2, <3>2, <3>3 DEF QueueAscends, Ascending
  <2>5. \/ UNCHANGED queue
        \/ queue' = <<>>
        \/ \E t \in Thread : Enqueue(t)
        \/ Fetch /\ queue # <<>>
    BY <1>2 DEF Next, Call, Step, WorkerStep, vars, events, work, calls, Setup, CreateEvents,
       Dispatch, TriggerEvent, SetAvailable, WaitReady, WaitReadyReturn, Shutdown, Join,
       ShutdownInner, InitialEntry, SignalReady, Wait, ResetAvailable, ResetShutdown, Fetch,
       HandleEvent
  <2> QED
    BY <2>1, <2>2, <2>3, <2>4, <2>5
<1> QED
  BY <1>1, <1>2, AsyncInvariant, PTL DEF Spec

-----------------------------------------------------------------------------
(* The refinement of PriorityChannel.                                      *)

(* No event is queued, or about to be, twice, and the worker has an event  *)
(* in hand exactly while it handles it.                                    *)
NotTwice ==
    /\ Distinct(queue)
    /\ \A t \in Thread : pc[t] = "queueEvent" =>
          /\ arg[t] \notin ToSet(queue)
          /\ \A u \in Thread : pc[u] = "queueEvent" /\ arg[u] = arg[t] => u = t
    /\ (worker = "handle") <=> (inHand # NoEvent)

LEMMA EmptyIsDistinct == Distinct(<<>>) /\ ToSet(<<>>) = {} /\ Older(<<>>) = {}
BY EmptyQueue DEF Distinct, ToSet, Older

(* What the steps do to the queue and to the event in hand.                *)
LEMMA QueueSteps ==
    ASSUME Next
    PROVE  \/ UNCHANGED <<queue, inHand>>
           \/ CreateEvents
           \/ \E t \in Thread : Enqueue(t)
           \/ Fetch /\ queue # <<>>
           \/ \E r \in Result : HandleEvent(r)
BY DEF Next, Call, Step, WorkerStep, work, Setup, Dispatch, TriggerEvent, SetAvailable, WaitReady,
   WaitReadyReturn, Shutdown, Join, ShutdownInner, InitialEntry, SignalReady, Wait, ResetAvailable,
   ResetShutdown, Fetch

LEMMA NotTwiceStep ==
    ASSUME Inv, NotTwice, [Next]_vars
    PROVE  NotTwice'
<1> DEFINE Apart == \A t \in Thread : pc[t] = "queueEvent" =>
               /\ arg[t] \notin ToSet(queue)
               /\ \A u \in Thread : pc[u] = "queueEvent" /\ arg[u] = arg[t] => u = t
           InHand == (worker = "handle") <=> (inHand # NoEvent)
<1> USE ThreadAssumption
<1>t. /\ queue \in Seq(Event) /\ pc \in [Thread -> Label] /\ arg \in [Thread -> Event \cup {NoEvent}]
      /\ ArgIsEvent
  BY DEF Inv, TypeOK
<1>1. CASE /\ UNCHANGED <<queue, arg>>
           /\ \A t \in Thread : pc'[t] = "queueEvent" => pc[t] = "queueEvent"
           /\ InHand'
  BY <1>1 DEF NotTwice
<1>2. ASSUME NEW t \in Producers, NEW e \in Event, TriggerEvent(t, e)
      PROVE  NotTwice'
  <2>1. /\ \A i \in 1 .. Len(queue) : queue[i] # e
        /\ \A u \in Thread : pc[u] = "queueEvent" => arg[u] # e
        /\ t \in Thread
        /\ arg' = [arg EXCEPT ![t] = e] /\ pc' = [pc EXCEPT ![t] = "queueEvent"]
        /\ UNCHANGED <<queue, worker, inHand>>
    BY <1>2 DEF TriggerEvent, Goto, work
  <2>2. e \notin ToSet(queue)
    BY <1>t, <2>1 DEF ToSet
  <2> QED
    BY <1>t, <2>1, <2>2 DEF NotTwice
<1>3. ASSUME CreateEvents PROVE NotTwice'
  <2>1. /\ pc[Owner] = "create" /\ pc' = [pc EXCEPT ![Owner] = "dispatch"]
        /\ queue' = <<>> /\ worker' = "none" /\ inHand' = inHand
    BY <1>3 DEF CreateEvents, Goto
  <2>2. worker # "handle" /\ \A t \in Thread : pc'[t] # "queueEvent"
    BY <1>t, <2>1 DEF Inv, SetupExclusive
  <2> QED
    BY <2>1, <2>2, EmptyIsDistinct DEF NotTwice
<1>4. ASSUME NEW t \in Thread, Enqueue(t) PROVE NotTwice'
  <2>1. /\ pc[t] = "queueEvent" /\ pc' = [pc EXCEPT ![t] = "setEvent"]
        /\ queue' = QueueEvent(queue, arg[t]) /\ UNCHANGED <<arg, worker, inHand>>
    BY <1>4 DEF Enqueue, Goto, work
  <2>2. arg[t] \in Event /\ arg[t] \notin ToSet(queue) /\ Distinct(queue)
    BY <1>t, <2>1 DEF ArgIsEvent, NotTwice
  <2>3. ToSet(queue') = ToSet(queue) \cup {arg[t]} /\ Distinct(queue')
    BY <1>t, <2>1, <2>2, QueueEventSet
  <2> QED
    BY <1>t, <2>1, <2>3 DEF NotTwice
<1>5. ASSUME Fetch, queue # <<>> PROVE NotTwice'
  <2>1. /\ inHand' = Back(queue) /\ queue' = PopBack(queue) /\ worker' = "handle"
        /\ UNCHANGED <<pc, arg>>
    BY <1>5 DEF Fetch, calls
  <2>2. Back(queue) \in Event /\ ToSet(queue') \subseteq ToSet(queue) /\ Distinct(queue')
    BY <1>t, <1>5, <2>1, PopBackProperties, PopBackSet DEF NotTwice
  <2> QED
    BY <2>1, <2>2 DEF NotTwice
<1>6. ASSUME NEW t \in Thread, t = Owner /\ Dispatch PROVE NotTwice'
  BY <1>1, <1>6, <1>t DEF Dispatch, Goto, Inv, SetupExclusive, NotTwice
<1>7. ASSUME NEW r \in Result, InitialEntry(r) \/ HandleEvent(r) PROVE NotTwice'
  BY <1>1, <1>7 DEF InitialEntry, HandleEvent, calls, NotTwice
<1>8. ASSUME SignalReady \/ Wait \/ ResetAvailable \/ ResetShutdown \/ (Fetch /\ queue = <<>>)
      PROVE  NotTwice'
  BY <1>1, <1>8 DEF SignalReady, Wait, ResetAvailable, ResetShutdown, Fetch, calls, NotTwice
<1>9. ASSUME Setup PROVE NotTwice'
  BY <1>1, <1>9, <1>t DEF Setup, Goto, work, NotTwice
<1>10. ASSUME NEW t \in Thread,
              \/ SetAvailable(t) \/ WaitReady(t) \/ WaitReadyReturn(t)
              \/ Shutdown(t) \/ Join(t) \/ ShutdownInner(t)
       PROVE  NotTwice'
  <2>1. /\ UNCHANGED <<queue, arg, worker, inHand>>
        /\ \/ pc' = pc
           \/ \E label \in Label \ {"queueEvent"} : pc' = [pc EXCEPT ![t] = label]
    BY <1>10 DEF SetAvailable, WaitReady, WaitReadyReturn, Shutdown, Join, ShutdownInner, Goto, Return,
       Label, work
  <2>2. \A u \in Thread : pc'[u] = "queueEvent" => pc[u] = "queueEvent"
    BY <1>t, <2>1
  <2> QED
    BY <1>1, <2>1, <2>2 DEF NotTwice
<1>11. CASE UNCHANGED vars
  BY <1>1, <1>11 DEF vars, work, calls, NotTwice
<1> QED
  BY <1>2, <1>3, <1>4, <1>5, <1>6, <1>7, <1>8, <1>9, <1>10, <1>11 DEF Next, Call, Step, WorkerStep

(* Each step is one of PriorityChannel, or none.                           *)
LEMMA ChannelStep ==
    ASSUME NoOverflow, Inv, NotTwice, QueueAscends, [Next]_vars
    PROVE  [Channel!Next]_<<ToSet(queue), Older(queue), inHand>>
<1> USE ThreadAssumption
<1>t. queue \in Seq(Event) /\ Distinct(queue) /\ Ascending(queue)
  BY DEF Inv, TypeOK, NotTwice, QueueAscends
<1>1. CASE UNCHANGED <<queue, inHand>>
  BY <1>1
<1>2. ASSUME CreateEvents PROVE Channel!Reset
  <2>1. queue' = <<>> /\ inHand' = inHand /\ worker # "handle"
    BY <1>2 DEF CreateEvents, Inv, SetupExclusive
  <2> QED
    BY <2>1, EmptyIsDistinct DEF Channel!Reset, NotTwice
<1>3. ASSUME NEW t \in Thread, Enqueue(t) PROVE Channel!Accept(arg[t]) /\ arg[t] \in Event
  <2>1. pc[t] = "queueEvent" /\ queue' = QueueEvent(queue, arg[t]) /\ inHand' = inHand
    BY <1>3 DEF Enqueue, work
  <2>2. arg[t] \in Event /\ arg[t] \notin ToSet(queue)
    BY <2>1 DEF Inv, ArgIsEvent, NotTwice
  <2>3. /\ ToSet(queue') = ToSet(queue) \cup {arg[t]}
        /\ Older(queue') = Older(queue) \cup ({f \in ToSet(queue) : priority[f] = priority[arg[t]]} \X {arg[t]})
    BY <1>t, <2>1, <2>2, NoOverflow, QueueEventSet, QueueEventOlder
  <2> QED
    BY <2>1, <2>2, <2>3 DEF Channel!Accept
<1>4. ASSUME Fetch, queue # <<>> PROVE Channel!Take(Back(queue)) /\ Back(queue) \in Event
  <2>1. worker = "fetch" /\ inHand' = Back(queue) /\ queue' = PopBack(queue)
    BY <1>4 DEF Fetch
  <2>2. Back(queue) \in ToSet(queue) /\ Back(queue) \in Event
    BY <1>t, <1>4, PopBackProperties
  <2>3. /\ ToSet(queue') = ToSet(queue) \ {Back(queue)}
        /\ Older(queue') = {x \in Older(queue) : Back(queue) \notin {x[1], x[2]}}
    BY <1>t, <1>4, <2>1, PopBackSet
  <2>4. \A f \in ToSet(queue) : priority[f] <= priority[Back(queue)] /\ <<f, Back(queue)>> \notin Older(queue)
    BY <1>t, <1>4, BackIsFirst
  <2> QED
    BY <2>1, <2>2, <2>3, <2>4 DEF Channel!Take, NotTwice
<1>5. ASSUME NEW r \in Result, HandleEvent(r) PROVE Channel!Finish
  BY <1>5 DEF HandleEvent, Channel!Finish, NotTwice
<1> QED
  BY <1>1, <1>2, <1>3, <1>4, <1>5, QueueSteps DEF Channel!Next, vars, work

(* Events are handled in the order that triggerEvent() promises, however   *)
(* triggering and handling interleave: first the highest priority, and     *)
(* within one priority first in, first out.                                *)
THEOREM AsyncKeepsOrder ==
    ASSUME NoOverflow
    PROVE  Spec => ChannelSpec
<1>1. Init => Channel!Init /\ NotTwice
  BY EmptyIsDistinct, EmptyQueue, ThreadAssumption DEF Init, Channel!Init, NotTwice
<1>2. Inv /\ NotTwice /\ [Next]_vars => NotTwice'
  BY NotTwiceStep
<1>3. Inv /\ NotTwice /\ QueueAscends /\ [Next]_vars
          => [Channel!Next]_<<ToSet(queue), Older(queue), inHand>>
  BY NoOverflow, ChannelStep
<1>4. Spec => []QueueAscends
  BY NoOverflow, QueueStaysSorted
<1> QED
  BY <1>1, <1>2, <1>3, <1>4, AsyncInvariant, PTL DEF Spec, ChannelSpec, Channel!Spec

=============================================================================
