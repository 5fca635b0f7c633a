-------------------------- MODULE AsyncStateMachine --------------------------
(***************************************************************************)
(* StateMachine/AsyncStateMachine.cpp: triggerEvent() queues an event from *)
(* any thread, and a worker thread takes the events off the queue and      *)
(* handles them.  setup() creates the worker, shutdown() stops and joins   *)
(* it, waitReady() waits for it.  Three manual-reset Win32 events connect  *)
(* them.                                                                   *)
(*                                                                         *)
(* What handling an event does to the states is the subject of module      *)
(* StateMachine; here it takes some time and succeeds or fails.            *)
(***************************************************************************)
EXTENDS EventQueue, FiniteSets

CONSTANTS
    NoEvent,
    Thread,          \* the threads that call the methods of the context
    Owner,           \* the thread that calls setup()
    Closers,         \* the threads that call shutdown()
    Producers,       \* the threads that call triggerEvent()
    Worker,          \* the worker thread, as a caller from its callbacks
    Waiters,         \* the threads that call waitReady()
    Result,          \* what entry() and handleEvent() may return
    DispatchMayFail, \* TRUE if no worker thread may be had
    MayTimeOut       \* TRUE if a wait with a timeout may end by it

ASSUME ThreadAssumption ==
    /\ NoEvent \notin Event
    /\ {Owner, Worker} \cup Closers \cup Producers \cup Waiters \subseteq Thread
    /\ Owner # Worker
    /\ Result \subseteq {"S_OK", "E_FAIL"}
    /\ DispatchMayFail \in BOOLEAN
    /\ MayTimeOut \in BOOLEAN

VARIABLES
    isSetup,        \* whether the context has a current state
    created,        \* whether the event handles exist: setup() created them
    ready,          \* hEventReady is set
    available,      \* hEventAvailable is set
    shutdownEvent,  \* hEventShutdown is set
    queue,          \* eventQueue
    worker,         \* where the worker thread is; "none" is hWorkerThread = NULL
    exitCode,       \* what the worker thread returned
    inHand,         \* the event the worker has taken off the queue
    pc,             \* where each caller is; "idle" is outside the machine
    arg,            \* the event of a triggerEvent() under way
    result,         \* what the last waitReady() or shutdown() returned
    entryDone,      \* history: this setup's entry() of the initial state returned
    due             \* history: the events that waited when shutdown() first
                    \* signalled, and still do

events == <<created, ready, available, shutdownEvent>>
work == <<worker, exitCode, inHand>>
calls == <<pc, arg, result>>
vars == <<isSetup, events, queue, work, calls, entryDone, due>>

WorkerLabel == {"none", "start", "signalReady", "wait", "resetAvailable",
                "resetShutdown", "fetch", "handle", "exited"}
Label == {"idle", "create", "dispatch", "queueEvent", "setEvent", "waitReady",
          "join", "shutdownInner"}
Outcome == {"none", "S_OK", "TSM_S_NO_WORKER_THREAD", "TSM_S_SHUT_DOWN",
            "WAIT_TIMEOUT", "WAIT_FAILED"}

Goto(t, label) == pc' = [pc EXCEPT ![t] = label]
Return(t, r) == Goto(t, "idle") /\ result' = [result EXCEPT ![t] = r]

(* The worker thread has a handle that can be waited for, and it is set.   *)
Terminated == worker = "exited"

(* A thread may make a call now: the worker only from a callback.          *)
MayCall(t) ==
    /\ pc[t] = "idle"
    /\ t = Worker => worker \in {"start", "handle"}

Init ==
    /\ isSetup = FALSE
    /\ created = FALSE
    /\ ready = FALSE
    /\ available = FALSE
    /\ shutdownEvent = FALSE
    /\ queue = <<>>
    /\ worker = "none"
    /\ exitCode = "none"
    /\ inHand = NoEvent
    /\ pc = [t \in Thread |-> "idle"]
    /\ arg = [t \in Thread |-> NoEvent]
    /\ result = [t \in Thread |-> "none"]
    /\ entryDone = FALSE
    /\ due = {}

-----------------------------------------------------------------------------
(* setup(): setupInner() finds no current state and sets the initial one.  *)
(* The application lets no other call overlap: setup() replaces the        *)
(* context's handle, which every other method holds a pointer to.          *)
Setup ==
    /\ \A t \in Thread : pc[t] = "idle"
    /\ ~isSetup
    /\ isSetup' = TRUE
    /\ Goto(Owner, "create")
    /\ UNCHANGED <<events, queue, work, arg, result, entryDone, due>>

(* A mutant: the handle of an earlier setup() is used again.               *)
CreateEventsKeepsReady ==
    /\ pc[Owner] = "create"
    /\ created' = TRUE
    /\ available' = FALSE
    /\ shutdownEvent' = FALSE
    /\ queue' = <<>>
    /\ worker' = "none"
    /\ exitCode' = "none"
    /\ entryDone' = FALSE
    /\ due' = {}
    /\ Goto(Owner, "dispatch")
    /\ UNCHANGED <<isSetup, ready, inHand, arg, result>>

(* A new handle: an empty queue, three events that are not set, no worker. *)
CreateEvents ==
    /\ pc[Owner] = "create"
    /\ created' = TRUE
    /\ ready' = FALSE
    /\ available' = FALSE
    /\ shutdownEvent' = FALSE
    /\ queue' = <<>>
    /\ worker' = "none"
    /\ exitCode' = "none"
    /\ entryDone' = FALSE
    /\ due' = {}
    /\ Goto(Owner, "dispatch")
    /\ UNCHANGED <<isSetup, inHand, arg, result>>

(* The worker thread is dispatched; on a failure the context stays set up. *)
Dispatch ==
    /\ pc[Owner] = "dispatch"
    /\ \/ worker' = "start"
       \/ DispatchMayFail /\ UNCHANGED worker
    /\ Goto(Owner, "idle")
    /\ UNCHANGED <<isSetup, events, queue, exitCode, inHand, arg, result, entryDone, due>>

-----------------------------------------------------------------------------
(* triggerEvent() of an event without a timer: the setup check.  An event  *)
(* object is not triggered again before it is taken off the queue.         *)
TriggerEvent(t, e) ==
    /\ MayCall(t)
    /\ isSetup
    /\ pc[Owner] \notin {"create", "dispatch"}
    /\ \A i \in 1 .. Len(queue) : queue[i] # e
    /\ \A u \in Thread : pc[u] \in {"queueEvent", "setEvent"} => arg[u] # e
    /\ arg' = [arg EXCEPT ![t] = e]
    /\ Goto(t, "queueEvent")
    /\ UNCHANGED <<isSetup, events, queue, work, result, entryDone, due>>

(* queueEvent(), under the lock of the queue.                              *)
Enqueue(t) ==
    /\ pc[t] = "queueEvent"
    /\ queue' = QueueEvent(queue, arg[t])
    /\ Goto(t, "setEvent")
    /\ UNCHANGED <<isSetup, events, work, arg, result, entryDone, due>>

(* A mutant: only the event that finds the queue empty wakes the worker.   *)
SetAvailableIfAlone(t) ==
    /\ pc[t] = "setEvent"
    /\ available' = (available \/ Len(queue) = 1)
    /\ Goto(t, "idle")
    /\ UNCHANGED <<isSetup, created, ready, shutdownEvent, queue, work, arg, result, entryDone, due>>

(* SetEvent(hEventAvailable), after the lock has been given back.          *)
SetAvailable(t) ==
    /\ pc[t] = "setEvent"
    /\ available' = TRUE
    /\ Goto(t, "idle")
    /\ UNCHANGED <<isSetup, created, ready, shutdownEvent, queue, work, arg, result, entryDone, due>>

-----------------------------------------------------------------------------
(* waitReady(): without the handles the wait fails at once.                *)
WaitReady(t) ==
    /\ MayCall(t)
    /\ pc[Owner] \notin {"create", "dispatch"}
    /\ IF created /\ worker # "none"
       THEN Goto(t, "waitReady") /\ UNCHANGED result
       ELSE Return(t, "WAIT_FAILED")
    /\ UNCHANGED <<isSetup, events, queue, work, arg, entryDone, due>>

(* WaitForMultipleObjects() reports the first of the three that is set, or *)
(* a timeout.                                                              *)
WaitReadyReturn(t) ==
    /\ pc[t] = "waitReady"
    /\ \/ ready /\ Return(t, "S_OK")
       \/ ~ready /\ Terminated /\ Return(t, "TSM_S_NO_WORKER_THREAD")
       \/ ~ready /\ ~Terminated /\ shutdownEvent /\ Return(t, "TSM_S_SHUT_DOWN")
       \/ ~ready /\ ~Terminated /\ ~shutdownEvent /\ MayTimeOut /\ Return(t, "WAIT_TIMEOUT")
    /\ UNCHANGED <<isSetup, events, queue, work, arg, entryDone, due>>

-----------------------------------------------------------------------------
(* The events whose triggerEvent() has returned and that wait in the queue *)
Waiting ==
    {e \in Event : /\ \E i \in 1 .. Len(queue) : queue[i] = e
                   /\ \A t \in Thread : pc[t] = "setEvent" => arg[t] # e}

(* shutdown(): signal the worker and wait for it.  SignalObjectAndWait()   *)
(* fails if there is no worker to wait for.  Without handles there is      *)
(* nothing to signal.                                                      *)
Shutdown(t) ==
    /\ MayCall(t)
    /\ pc[Owner] \notin {"create", "dispatch"}
    /\ \/ /\ ~created
          /\ Goto(t, "shutdownInner")
          /\ UNCHANGED <<shutdownEvent, result, due>>
       \/ /\ created /\ worker = "none"
          /\ Return(t, "WAIT_FAILED")
          /\ UNCHANGED <<shutdownEvent, due>>
       \/ /\ created /\ worker # "none"
          /\ shutdownEvent' = TRUE
          /\ due' = IF shutdownEvent \/ Terminated THEN due ELSE Waiting
          /\ Goto(t, "join")
          /\ UNCHANGED result
    /\ UNCHANGED <<isSetup, created, ready, available, queue, work, arg, entryDone>>

(* A mutant: the result of the wait is dropped.                            *)
JoinIgnoresTimeout(t) ==
    /\ pc[t] = "join"
    /\ Terminated \/ MayTimeOut
    /\ Goto(t, "shutdownInner")
    /\ UNCHANGED <<isSetup, events, queue, work, arg, result, entryDone, due>>

(* The worker has terminated, or the wait has timed out: then shutdown()   *)
(* returns, and nothing else of it is done.                                *)
Join(t) ==
    /\ pc[t] = "join"
    /\ \/ Terminated /\ Goto(t, "shutdownInner") /\ UNCHANGED result
       \/ ~Terminated /\ MayTimeOut /\ Return(t, "WAIT_TIMEOUT")
    /\ UNCHANGED <<isSetup, events, queue, work, arg, entryDone, due>>

(* shutdownInner(): the context has no current state any more.             *)
ShutdownInner(t) ==
    /\ pc[t] = "shutdownInner"
    /\ isSetup' = FALSE
    /\ Return(t, "S_OK")
    /\ UNCHANGED <<events, queue, work, arg, entryDone, due>>

-----------------------------------------------------------------------------
(* The worker thread.  A callback returns when no call it made is under    *)
(* way.                                                                    *)
CallbackReturns == pc[Worker] = "idle"

(* entry() of the initial state returns r.  After an error the thread ends *)
InitialEntry(r) ==
    /\ worker = "start"
    /\ CallbackReturns
    /\ IF r = "S_OK"
       THEN worker' = "signalReady" /\ entryDone' = TRUE /\ UNCHANGED exitCode
       ELSE worker' = "exited" /\ exitCode' = r /\ UNCHANGED entryDone
    /\ UNCHANGED <<isSetup, events, queue, inHand, calls, due>>

SignalReady ==
    /\ worker = "signalReady"
    /\ ready' = TRUE
    /\ worker' = "wait"
    /\ UNCHANGED <<isSetup, created, available, shutdownEvent, queue, exitCode, inHand, calls, entryDone, due>>

(* A mutant: the two events are waited for in the other order.             *)
WaitShutdownFirst ==
    /\ worker = "wait"
    /\ \/ shutdownEvent /\ worker' = "resetShutdown"
       \/ ~shutdownEvent /\ available /\ worker' = "resetAvailable"
    /\ UNCHANGED <<isSetup, events, queue, exitCode, inHand, calls, entryDone, due>>

(* WaitForMultipleObjects() reports `available' if both events are set.    *)
Wait ==
    /\ worker = "wait"
    /\ \/ available /\ worker' = "resetAvailable"
       \/ ~available /\ shutdownEvent /\ worker' = "resetShutdown"
    /\ UNCHANGED <<isSetup, events, queue, exitCode, inHand, calls, entryDone, due>>

(* A mutant: the event is left set.                                        *)
LeaveAvailable ==
    /\ worker = "resetAvailable"
    /\ worker' = "fetch"
    /\ UNCHANGED <<isSetup, events, queue, exitCode, inHand, calls, entryDone, due>>

(* ResetEvent() of the event that was reported, before the queue is read.  *)
ResetAvailable ==
    /\ worker = "resetAvailable"
    /\ available' = FALSE
    /\ worker' = "fetch"
    /\ UNCHANGED <<isSetup, created, ready, shutdownEvent, queue, exitCode, inHand, calls, entryDone, due>>

ResetShutdown ==
    /\ worker = "resetShutdown"
    /\ shutdownEvent' = FALSE
    /\ worker' = "exited"
    /\ exitCode' = "S_OK"
    /\ UNCHANGED <<isSetup, created, ready, available, queue, inHand, calls, entryDone, due>>

(* Under the lock of the queue: the back of it is taken, if there is one.  *)
Fetch ==
    /\ worker = "fetch"
    /\ IF queue = <<>>
       THEN worker' = "wait" /\ UNCHANGED <<queue, inHand, due>>
       ELSE /\ inHand' = Back(queue)
            /\ queue' = PopBack(queue)
            /\ due' = due \ {Back(queue)}
            /\ worker' = "handle"
    /\ UNCHANGED <<isSetup, events, exitCode, calls, entryDone>>

(* handleEvent() returns r.  After an error the thread ends.               *)
HandleEvent(r) ==
    /\ worker = "handle"
    /\ CallbackReturns
    /\ inHand' = NoEvent
    /\ IF r = "S_OK"
       THEN worker' = "fetch" /\ UNCHANGED exitCode
       ELSE worker' = "exited" /\ exitCode' = r
    /\ UNCHANGED <<isSetup, events, queue, calls, entryDone, due>>

-----------------------------------------------------------------------------
(* The application starts a call.                                          *)
Call ==
    \/ Setup
    \/ \E t \in Producers, e \in Event : TriggerEvent(t, e)
    \/ \E t \in Waiters : WaitReady(t)
    \/ \E t \in Closers : Shutdown(t)

(* A call under way goes on.                                               *)
Step(t) ==
    \/ t = Owner /\ (CreateEvents \/ Dispatch)
    \/ Enqueue(t)
    \/ SetAvailable(t)
    \/ WaitReadyReturn(t)
    \/ Join(t)
    \/ ShutdownInner(t)

WorkerStep ==
    \/ \E r \in Result : InitialEntry(r)
    \/ SignalReady
    \/ Wait
    \/ ResetAvailable
    \/ ResetShutdown
    \/ Fetch
    \/ \E r \in Result : HandleEvent(r)

Next == Call \/ (\E t \in Thread : Step(t)) \/ WorkerStep

Spec == Init /\ [][Next]_vars

(* The scheduler runs every thread that can run, and callbacks return.     *)
FairSpec ==
    /\ Spec
    /\ \A t \in Thread : WF_vars(Step(t))
    /\ WF_vars(WorkerStep)

-----------------------------------------------------------------------------
TypeOK ==
    /\ isSetup \in BOOLEAN /\ created \in BOOLEAN
    /\ ready \in BOOLEAN /\ available \in BOOLEAN /\ shutdownEvent \in BOOLEAN
    /\ entryDone \in BOOLEAN
    /\ queue \in Seq(Event)
    /\ worker \in WorkerLabel
    /\ exitCode \in {"none", "S_OK", "E_FAIL"}
    /\ inHand \in Event \cup {NoEvent}
    /\ pc \in [Thread -> Label]
    /\ arg \in [Thread -> Event \cup {NoEvent}]
    /\ result \in [Thread -> Outcome]
    /\ due \subseteq Event

(* The worker never sleeps on an event: while it waits and the queue is    *)
(* not empty, `available' is set, or a triggerEvent() is about to set it.  *)
NoLostWakeup ==
    worker = "wait" /\ queue # <<>>
        => available \/ \E t \in Thread : pc[t] = "setEvent"

(* An event whose triggerEvent() had returned when shutdown() signalled is *)
(* handled before the worker obeys: a worker that ends without an error    *)
(* leaves none of them in the queue.                                       *)
ShutdownDrains == worker = "exited" /\ exitCode = "S_OK" => due = {}

(* Once shutdown() has cleared the current state, no worker runs callbacks *)
(* of the application, until the next setup().                             *)
NoWorkerAfterShutdown == ~isSetup => worker \in {"none", "exited"}

(* hEventReady set means that entry() of the initial state has returned in *)
(* this setup, not in an earlier one: waitReady() can trust it.            *)
ReadyMeansEntered == ready => entryDone

(* The queue is sorted, which queueEvent() relies on and keeps.            *)
QueueAscends == Ascending(queue)

(* Events are taken in the order that PriorityChannel promises.            *)
Channel == INSTANCE PriorityChannel WITH waiting <- ToSet(queue), older <- Older(queue)
ChannelSpec == Channel!Spec

Highest == {e \in Event : \A f \in Event : priority[f] <= priority[e]}

(* An event of the highest priority that is queued is taken eventually,    *)
(* whatever else is triggered, unless the worker has ended.                *)
HighestPriorityIsServed ==
    \A e \in Highest :
        (\E i \in 1 .. Len(queue) : queue[i] = e)
            ~> (inHand = e \/ worker \in {"none", "exited"})

(* shutdown() without a timeout returns once no thread triggers events     *)
(* any more.                                                               *)
ShutdownReturns ==
    <>[](\A t \in Thread : pc[t] # "queueEvent")
        => \A t \in Closers : pc[t] = "join" ~> pc[t] # "join"

=============================================================================
