------------------------ MODULE WindowProcStateMachine ------------------------
(***************************************************************************)
(* StateMachine/WindowProcStateMachine.cpp: triggerEvent() queues an event *)
(* from any thread and posts a message to a window; the thread of that     *)
(* window takes one event off the queue for each message and posts another *)
(* while events are left.  setup() subclasses the window and posts the     *)
(* message that calls entry() of the initial state; shutdown() undoes the  *)
(* subclassing.                                                            *)
(*                                                                         *)
(* A window has one queue of posted messages, which other messages of the  *)
(* application share, and which may be full.                               *)
(***************************************************************************)
EXTENDS EventQueue, FiniteSets

CONSTANTS
    NoEvent,
    Thread,         \* the threads that call triggerEvent() and waitReady()
    UI,             \* the thread of the window
    Result,         \* what entry() and handleEvent() may return
    QueueLimit      \* the posted messages a window has room for

ASSUME WindowAssumption ==
    /\ NoEvent \notin Event
    /\ UI \in Thread
    /\ IsFiniteSet(Thread) /\ IsFiniteSet(Event)
    /\ Result \subseteq {"S_OK", "E_FAIL"}
    /\ QueueLimit \in Nat \ {0}

(* enum MessageType, and a message of the application's own.               *)
Message == {"Setup", "HandleEvent", "App"}

VARIABLES
    attached,       \* asyncData->hWnd: the window is subclassed, the context
                    \* set up
    ready,          \* hEventReady is set
    shutdownEvent,  \* hEventShutdown is set
    queue,          \* eventQueue
    messages,       \* the messages posted to the window
    entered,        \* StateHandle::entryCalled of the current state
    ui,             \* what the window procedure is at
    inHand,         \* the event it has taken off the queue
    pc,             \* where each caller is; "idle" is outside the machine
    arg,            \* the event of a triggerEvent() under way
    entryDone,      \* history: this setup's entry() returned S_OK
    inOrder,        \* history: the Setup message of this setup() was posted,
                    \* and to a window with no message of an earlier one
    lost            \* history: the posts of triggerEvent() that failed since
                    \* the queue was last empty

events == <<ready, shutdownEvent>>
calls == <<pc, arg>>
history == <<entryDone, inOrder, lost>>
vars == <<attached, events, queue, messages, entered, ui, inHand, calls, history>>

Place == {"idle", "entry", "handle", "direct", "repost"}
Callback == {"entry", "handle", "direct"}

Goto(t, label) == pc' = [pc EXCEPT ![t] = label]

(* PostMessage() of m to the window.                                       *)
HasRoom == Len(messages) < QueueLimit
Posted(m) == IF HasRoom THEN Append(messages, m) ELSE messages

(* The thread of the window makes a call when it is in a callback, or when *)
(* the application's own code runs.                                        *)
UIMayCall == pc[UI] = "idle" /\ ui # "repost"

Init ==
    /\ attached = FALSE
    /\ ready = FALSE
    /\ shutdownEvent = FALSE
    /\ queue = <<>>
    /\ messages = <<>>
    /\ entered = FALSE
    /\ ui = "idle"
    /\ inHand = NoEvent
    /\ pc = [t \in Thread |-> "idle"]
    /\ arg = [t \in Thread |-> NoEvent]
    /\ entryDone = FALSE
    /\ inOrder = FALSE
    /\ lost = 0

-----------------------------------------------------------------------------
(* setup(): a new handle, with an empty queue and two events that are not  *)
(* set; the window is subclassed.  If the Setup message cannot be posted   *)
(* setup() fails and leaves all that as it is.  The application lets no    *)
(* other call overlap.                                                     *)
Setup ==
    /\ ui = "idle"
    /\ \A t \in Thread : pc[t] = "idle"
    /\ ~attached
    /\ attached' = TRUE
    /\ ready' = FALSE
    /\ shutdownEvent' = FALSE
    /\ queue' = <<>>
    /\ messages' = Posted("Setup")
    /\ entered' = FALSE
    /\ entryDone' = FALSE
    /\ inOrder' = (HasRoom /\ \A i \in 1 .. Len(messages) : messages[i] = "App")
    /\ lost' = 0
    /\ UNCHANGED <<ui, inHand, calls>>

(* shutdown() by the thread of the window, which no other message or       *)
(* callback can then overlap.  On a context that is not set up it changes  *)
(* nothing.  shutdownInner() forgets the entry of the current state.       *)
Shutdown ==
    /\ UIMayCall
    /\ attached
    /\ shutdownEvent' = TRUE
    /\ attached' = FALSE
    /\ entered' = FALSE
    /\ UNCHANGED <<ready, queue, messages, ui, inHand, calls, history>>

-----------------------------------------------------------------------------
(* triggerEvent() of an event without a timer: the setup check.  An event  *)
(* object is not triggered again before it is taken off the queue.         *)
TriggerEvent(t, e) ==
    /\ pc[t] = "idle"
    /\ t = UI => UIMayCall
    /\ attached
    /\ \A i \in 1 .. Len(queue) : queue[i] # e
    /\ \A u \in Thread : pc[u] \in {"queueEvent", "post"} => arg[u] # e
    /\ arg' = [arg EXCEPT ![t] = e]
    /\ Goto(t, "queueEvent")
    /\ UNCHANGED <<attached, events, queue, messages, entered, ui, inHand, history>>

(* queueEvent(), under the lock of the queue.                              *)
Enqueue(t) ==
    /\ pc[t] = "queueEvent"
    /\ queue' = QueueEvent(queue, arg[t])
    /\ Goto(t, "post")
    /\ UNCHANGED <<attached, events, messages, entered, ui, inHand, arg, history>>

(* A mutant: only the event that finds the queue empty posts a message.    *)
PostIfAlone(t) ==
    /\ pc[t] = "post"
    /\ messages' = IF attached /\ Len(queue) = 1 THEN Posted("HandleEvent") ELSE messages
    /\ lost' = IF attached /\ ~HasRoom /\ lost < Cardinality(Event) THEN lost + 1 ELSE lost
    /\ Goto(t, "idle")
    /\ UNCHANGED <<attached, events, queue, entered, ui, inHand, arg, entryDone, inOrder>>

(* postMessage(), without the lock.  If it fails triggerEvent() returns an *)
(* error, and the event stays in the queue.  After shutdown() it posts to  *)
(* no window, and succeeds.                                                *)
Post(t) ==
    /\ pc[t] = "post"
    /\ messages' = IF attached THEN Posted("HandleEvent") ELSE messages
    /\ lost' = IF attached /\ ~HasRoom /\ lost < Cardinality(Event) THEN lost + 1 ELSE lost
    /\ Goto(t, "idle")
    /\ UNCHANGED <<attached, events, queue, entered, ui, inHand, arg, entryDone, inOrder>>

(* waitReady() by another thread; the thread of the window would wait for  *)
(* itself.  Before the first setup() there is nothing to wait for.         *)
WaitReady(t) ==
    /\ pc[t] = "idle"
    /\ t # UI
    /\ attached \/ shutdownEvent
    /\ Goto(t, "waitReady")
    /\ UNCHANGED <<attached, events, queue, messages, entered, ui, inHand, arg, history>>

(* It returns S_OK for `ready', S_FALSE for `shutdown'.                    *)
WaitReadyReturn(t) ==
    /\ pc[t] = "waitReady"
    /\ ready \/ shutdownEvent
    /\ Goto(t, "idle")
    /\ UNCHANGED <<attached, events, queue, messages, entered, ui, inHand, arg, history>>

-----------------------------------------------------------------------------
(* The application posts a message of its own.                             *)
PostAppMessage ==
    /\ HasRoom
    /\ \A i \in 1 .. Len(messages) : messages[i] # "App"
    /\ messages' = Append(messages, "App")
    /\ UNCHANGED <<attached, events, queue, entered, ui, inHand, calls, history>>

(* The message loop takes the next message.                                *)
Retrieve(m) ==
    /\ ui = "idle"
    /\ pc[UI] = "idle"
    /\ messages # <<>>
    /\ Head(messages) = m
    /\ messages' = Tail(messages)

(* WndProc() passes it to the application's window procedure if it is the  *)
(* application's, or if the window is not subclassed any more.             *)
AppWndProc ==
    /\ \E m \in Message : Retrieve(m) /\ (m = "App" \/ ~attached)
    /\ UNCHANGED <<attached, events, queue, entered, ui, inHand, calls, history>>

(* A mutant: entry() is left for a later message.                          *)
SetupProcLater ==
    /\ Retrieve("Setup")
    /\ attached
    /\ ~entered
    /\ ready' = TRUE
    /\ entryDone' = TRUE
    /\ UNCHANGED <<attached, shutdownEvent, queue, entered, ui, inHand, calls, inOrder, lost>>

(* setupProc(): callEntry() marks the state and calls entry().             *)
SetupProc ==
    /\ Retrieve("Setup")
    /\ attached
    /\ ~entered
    /\ entered' = TRUE
    /\ ui' = "entry"
    /\ UNCHANGED <<attached, events, queue, inHand, calls, history>>

(* The state is entered already: nothing is called.                        *)
SetupProcAgain ==
    /\ Retrieve("Setup")
    /\ attached
    /\ entered
    /\ ready' = TRUE
    /\ UNCHANGED <<attached, shutdownEvent, queue, entered, ui, inHand, calls, history>>

(* A mutant: `ready' is set whatever entry() returns.                      *)
EntryReturnAlwaysReady(r) ==
    /\ ui = "entry"
    /\ pc[UI] = "idle"
    /\ ready' = TRUE
    /\ entryDone' = (entryDone \/ r = "S_OK")
    /\ ui' = "idle"
    /\ UNCHANGED <<attached, shutdownEvent, queue, messages, entered, inHand, calls, inOrder, lost>>

(* entry() returns r.  After an error `ready' is never set, while events   *)
(* go on being handled.                                                    *)
EntryReturn(r) ==
    /\ ui = "entry"
    /\ pc[UI] = "idle"
    /\ ready' = (ready \/ r = "S_OK")
    /\ entryDone' = (entryDone \/ r = "S_OK")
    /\ ui' = "idle"
    /\ UNCHANGED <<attached, shutdownEvent, queue, messages, entered, inHand, calls, inOrder, lost>>

(* handleEventProc(): one event is taken off the queue, under its lock.    *)
HandleEventProc ==
    /\ Retrieve("HandleEvent")
    /\ attached
    /\ IF queue = <<>>
       THEN ui' = "repost" /\ UNCHANGED <<queue, inHand, lost>>
       ELSE /\ inHand' = Back(queue)
            /\ queue' = PopBack(queue)
            /\ lost' = IF Len(queue) = 1 THEN 0 ELSE lost
            /\ ui' = "handle"
    /\ UNCHANGED <<attached, events, entered, calls, entryDone, inOrder>>

(* handleEvent() returns r.  After an error no other message is posted.    *)
HandleReturn(r) ==
    /\ ui = "handle"
    /\ pc[UI] = "idle"
    /\ inHand' = NoEvent
    /\ ui' = IF r = "S_OK" THEN "repost" ELSE "idle"
    /\ UNCHANGED <<attached, events, queue, messages, entered, calls, history>>

(* A mutant: the events that are left are handled before the procedure     *)
(* returns to the message loop.                                            *)
RepostLoops ==
    /\ ui = "repost"
    /\ IF queue = <<>> \/ ~attached
       THEN ui' = "idle" /\ UNCHANGED <<queue, inHand>>
       ELSE inHand' = Back(queue) /\ queue' = PopBack(queue) /\ ui' = "handle"
    /\ UNCHANGED <<attached, events, messages, entered, calls, history>>

(* Another message is posted if events are left; the queue is looked at    *)
(* without its lock.  Else onIdle() is called.                             *)
Repost ==
    /\ ui = "repost"
    /\ messages' = IF queue # <<>> /\ attached THEN Posted("HandleEvent") ELSE messages
    /\ ui' = "idle"
    /\ UNCHANGED <<attached, events, queue, entered, inHand, calls, history>>

(* The thread of the window calls handleEvent() itself.                    *)
DirectHandleEvent ==
    /\ UIMayCall
    /\ ui = "idle"
    /\ attached
    /\ ui' = "direct"
    /\ UNCHANGED <<attached, events, queue, messages, entered, inHand, calls, history>>

DirectReturn ==
    /\ ui = "direct"
    /\ pc[UI] = "idle"
    /\ ui' = "idle"
    /\ UNCHANGED <<attached, events, queue, messages, entered, inHand, calls, history>>

-----------------------------------------------------------------------------
(* The application starts a call.                                          *)
Call ==
    \/ Setup
    \/ Shutdown
    \/ \E t \in Thread, e \in Event : TriggerEvent(t, e)
    \/ \E t \in Thread : WaitReady(t)
    \/ PostAppMessage
    \/ DirectHandleEvent

(* A call under way goes on.                                               *)
Step(t) == Enqueue(t) \/ Post(t) \/ WaitReadyReturn(t)

(* The message loop retrieves a message, and the window procedure starts.  *)
Dispatch == AppWndProc \/ SetupProc \/ SetupProcAgain \/ HandleEventProc

(* The window procedure, or a callback, goes on.                           *)
Proceed ==
    \/ \E r \in Result : EntryReturn(r)
    \/ \E r \in Result : HandleReturn(r)
    \/ Repost
    \/ DirectReturn

Next == Call \/ (\E t \in Thread : Step(t)) \/ Dispatch \/ Proceed

Spec == Init /\ [][Next]_vars

(* The scheduler runs every thread that can run and callbacks return. The *)
(* application's code on the thread of the window runs from the messages   *)
(* it retrieves: however often it calls the context in between, it goes    *)
(* back to its message loop.                                               *)
FairSpec ==
    /\ Spec
    /\ \A t \in Thread : WF_vars(Step(t))
    /\ WF_vars(Proceed)
    /\ SF_vars(Dispatch)

-----------------------------------------------------------------------------
TypeOK ==
    /\ attached \in BOOLEAN /\ ready \in BOOLEAN /\ shutdownEvent \in BOOLEAN
    /\ entered \in BOOLEAN /\ entryDone \in BOOLEAN /\ inOrder \in BOOLEAN
    /\ queue \in Seq(Event)
    /\ messages \in Seq(Message)
    /\ ui \in Place
    /\ inHand \in Event \cup {NoEvent}
    /\ pc \in [Thread -> {"idle", "queueEvent", "post", "waitReady"}]
    /\ arg \in [Thread -> Event \cup {NoEvent}]
    /\ lost \in Nat

(* Where the messages are that take an event off the queue, and who is     *)
(* about to post one.                                                      *)
HandleMessages == {i \in 1 .. Len(messages) : messages[i] = "HandleEvent"}
Posting == {t \in Thread : pc[t] = "post"}

(* Every event in the queue has a message under way that will take it, or  *)
(* one that will take another: no event is stranded, however handling, its *)
(* errors, its callbacks' triggerEvent() and other threads interleave,     *)
(* unless PostMessage() failed.                                            *)
QueuedHasMessage ==
    attached => Len(queue) <= Cardinality(HandleMessages) + Cardinality(Posting) + lost

(* No event is handled before entry() of the initial state was called,     *)
(* whatever threads trigger right after setup(), if no message of an       *)
(* earlier setup() was left.                                               *)
EntryFirst == inOrder /\ attached /\ ui = "handle" => entered

(* hEventReady set means that entry() of the initial state has returned    *)
(* without an error, on the same condition.                                *)
ReadyMeansEntered == inOrder /\ ready => entryDone

(* Events are taken in the order that PriorityChannel promises.            *)
Channel == INSTANCE PriorityChannel WITH waiting <- ToSet(queue), older <- Older(queue)
ChannelSpec == Channel!Spec

Highest == {e \in Event : \A f \in Event : priority[f] <= priority[e]}

(* An event of the highest priority that is queued is taken eventually,    *)
(* unless the context is shut down or a post failed.                       *)
HighestPriorityIsServed ==
    \A e \in Highest :
        (attached /\ \E i \in 1 .. Len(queue) : queue[i] = e)
            ~> (inHand = e \/ ~attached \/ lost > 0)

(* "Handling event does not disturb app to process own messages"           *)
(* (WindowProcStateMachine.cpp:216): they are retrieved in spite of other  *)
(* threads that keep triggering events.                                    *)
AppIsServed ==
    (\E i \in 1 .. Len(messages) : messages[i] = "App")
        ~> (\A i \in 1 .. Len(messages) : messages[i] # "App")

=============================================================================
