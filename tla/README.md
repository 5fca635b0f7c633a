# tsm: specifications and proofs

`tsm` is a C++ library of hierarchical state machines for Windows. An application derives
states, events and a context from its templates; the library runs the transitions, queues events
for a worker thread, and handles events after a delay. This directory holds TLA+ modules of the
library, the instances TLC checks, and the theorems TLAPS proves about them.

## Inventory

| Component | State | Operations | Correct when |
|---|---|---|---|
| `StateMachine` (StateMachine.cpp, State.h, Context.h) | the current state; `entryCalled` of each state; pending timers of each owner; the recursive `_handleEventLock` | `setup`, `handleEvent`, `shutdown` | states entered = current state and its masters; no stale current state; callbacks exclude one another; no timer of a state that was left; the lock is given back; shutdown leaves nothing behind |
| `AsyncStateMachine`, `DefaultAsyncDispatcher` (AsyncStateMachine.cpp) | `hEventReady`, `hEventAvailable`, `hEventShutdown`, `hWorkerThread`; the worker's position | `setup`, `triggerEvent`, `waitReady`, `shutdown`, the worker thread | no lost wakeup; events triggered before a shutdown are handled; no callback after it; `waitReady` means ready; everything asked for happens |
| Event queue (Handles.cpp, Event.h) | a deque of events under its own lock | `queueEvent`, `back`, `pop_back`, `comparePriority` | sorted by priority, first in first out within one; total on all ints |
| `TimerClient` (TimerClient.cpp) | the map of pending timers; `isTimerCreated`; per timer a thread, `canceledEvent`, `terminatedEvent` | `_setEventTimer`, `cancelEventTimer`, `cancelAllEventTimers`, `getPendingEvents`, the timer thread | a cancelled timer never calls back; one timer per event; cancelling ends; a timer that is over can be set again |
| `WindowProcStateMachine` (WindowProcStateMachine.cpp) | the queue, the subclassed window, its posted messages, `hEventReady`, `hEventShutdown` | `setup`, `triggerEvent`, `waitReady`, `shutdown`, `WndProc` | every queued event has a message to come; `entry()` of the initial state comes before every event; no message of an earlier setup is taken for one of this; the application's own messages are served |
| `Context`, `State`, `Event`, handles (the templates and Handles.h) | current state, master, `entryCalled`, priority; handles and clients created on demand | accessors | the state an accessor gives is the one the machine acts on |
| `Unknown` (Unknown.h) | the reference count of each object | `AddRef`, `Release` | nothing deleted is used, nothing is left behind |
| `StateMonitor` | none | notifications | what it is told is one path of states |
| StateMachine.NET (NativeObjects.cpp, GenericObject.cpp) | native object and managed wrapper, each keeping the other | callbacks, `ManagedDispatcher`, `getAsyncExitCode`, disposal | neither half outlives the other's use of it; a thread's handle is set at its end |
| jpp `JsonParser` (JsonParser.cpp, JsonParserObject.cpp) | previous character, column; four states on the library | one event per character | output = input less comments, spaces and line ends outside of literals |
| jpp command line (jpp.cpp) | the options | `checkArgs`, `checkOptions` | options that were accepted make sense |
| Manual test application | a dialog on a window machine: `stateList`, properties, views, timers | `createState`, `createEvent`, `HandleEvent`, `WM_STATE_CHANGED` | the dialog shows, and points to, the states the machine is in |
| Unit tests (C++ and C#) | mocks and what they expect | the tests | they say what the authors require of the machine |
| `Assert` (Assert.h) | two hooks of the application | `checkHResult` | a failure is told to one writer |
| Interfaces, .NET test console, packages | | | no logic of their own |

**Interactions.** Callers run on threads of the application, on the worker thread of an
asynchronous context, and on one thread per timer. A timer thread calls `handleEvent` or
`triggerEvent` of the context like any other caller; the worker calls `handleEvent`;
transitions cancel the timers of the states they leave; `shutdown` joins the worker, then exits the
states and cancels what is left. Callbacks of the application run inside all of these.

**Hard behaviours.** `setup` and `shutdown` take no lock; the setup check of `handleEvent` comes
before the lock. The wakeup of the worker is split between the lock of the queue and a manual-reset
event. An enumeration of states stops at the first result that is not `S_OK`, and the
default of `exit()` is `S_FALSE`. The exit loop knows the next state and its direct master
only. Waits time out, and what they waited for goes on. Posted messages outlive the shutdown of the
machine that posted them, and a window takes no more of them when its queue is full. The lock of `handleEvent` is
recursive, so callbacks change the machine under the call they were made from. `PROJECT.json` lists each of these
hazards at its line, with the properties that watch it.

## Modules

| Module | What it is |
|---|---|
| `StateMachine` | the synchronous machine: any number of threads in `setup`, `handleEvent`, `shutdown` |
| `MCStateMachine` | the hierarchy and the moves of TLC's instances |
| `StateMachineProofs` | its theorems |
| `EventQueue` | the queue as pure operators on sequences, ints of bounded width included |
| `EventQueueProofs` | lemmas on `queueEvent()` |
| `PriorityChannel` | abstract specification: what `triggerEvent()` promises of the order of events |
| `AsyncStateMachine` | the asynchronous machine: callers, worker thread, Win32 events; uses `EventQueue`, implements `PriorityChannel` |
| `MCAsyncStateMachine` | priorities of TLC's instances |
| `AsyncStateMachineProofs` | its theorems |
| `EventTimer` | abstract specification: what becomes of the timer of an event |
| `TimerClient` | the timers of one owner: callers, timer threads, the map and its lock; implements `EventTimer` |
| `MCTimerClient` | the events of TLC's instances |
| `TimerClientProofs` | its theorems, the refinement of `EventTimer` among them, and those about `Dispatchers` |
| `DispatcherContract` | what those who have a method dispatched on a thread rely on: the state of the dispatchers and the promises |
| `Dispatchers` | the two implementations of `IAsyncDispatcher`, Win32 and managed, under a context and under timers; extends `DispatcherContract` |
| `MCDispatchers` | the dispatchers of TLC's instance |
| `WindowProcStateMachine` | the machine of a window: its callers, posted messages, window procedure; uses `EventQueue`, implements `PriorityChannel` |
| `MCWindowProcStateMachine` | the priorities of TLC's instance |
| `WindowProcStateMachineProofs` | its theorems |
| `Lifetimes` | reference counts of native and managed objects, with callbacks that call the machine again |
| `MCLifetimes` | the objects of TLC's instance |
| `LifetimesProofs` | its theorems |
| `JsonText` | abstract specification: the output that jpp promises for a text, with the whole text at hand |
| `JsonParser` | the command line and the parser, character by character, against `JsonText` |
| `MCJsonParser` | the command lines of TLC's instances |
| `JsonParserProofs` | its theorems |
| `UnitTests`, `NetUnitTests` | the synchronous tests in C++ and in C#, as scripts that `Lifetimes` has to follow |
| `TimerTests` | the timer tests, as scripts for `TimerClient` with a clock |
| `AsyncTests` | the tests of priorities, as scripts for `EventQueue` |
| `UnitTestSuite`, `MCUnitTestSuite` | the composition of the three |
| `ReportView` | the columns of the list view, as operators on rows |
| `ManualTest`, `MCManualTest` | the dialog of the manual test on its window machine, with timers; uses `ReportView` |
| `ManualTestProofs` | its theorems |

### StateMachine

| Variable | Code |
|---|---|
| `current` | `Context::m_currentState` |
| `entered` | the states with `StateHandle::entryCalled` |
| `armed` | owners (states, the context) whose `TimerHandle::timers` is not empty |
| `lock` | owner of `ContextHandle::_handleEventLock` |
| `observed` | the state last named to `StateMonitor::onStateChanged` in this setup (history) |
| `pc`, `op` | where a thread is, in which method |
| `cur`, `next`, `walk` | the locals `currentState` and `nextState`, and the position of `forEachState` |
| `missed` | history: the states that were to be left, but are masters of one whose `exit()` ended the enumeration, until they are in the chain again |

An action is the code between two points where another thread may come in: a lock, a callback, an
access to the shared current state. Callbacks are the pairs `CallEntry`/`EntryReturn`,
`CallExit`/`ExitReturn` and the single labels `preHandle`, `handle`, `post`; they return any result
in the constants. `setup` that finds a current state, and `handleEvent` that finds none, change
nothing and are left out. `Chain(s)`, what `forEachState` visits from `s`, is the least set
closed under `_getMasterState`, so that the module needs no recursion and can be proved about.

`Overlapping` names the methods whose calls the application lets overlap. The class leaves
that to the application: only `handleEvent` has a lock. The runs and the theorems take
`{"handleEvent"}`; Findings says what happens otherwise.

Abstractions: the event itself (what matters are the results of its callbacks); a failing
`SetEvent`; the number of timers of an owner (`armed` is "one or more"); timers are armed in
`entry()`, the place every example uses; a timer's callback is a `handleEvent` by any thread.
Callbacks do not call the machine again: those that do are in `Lifetimes`.

### AsyncStateMachine

| Variable | Code |
|---|---|
| `isSetup` | the current state is not `nullptr` |
| `created`, `ready`, `available`, `shutdownEvent` | the Win32 events exist; `hEventReady`, `hEventAvailable`, `hEventShutdown` are set |
| `queue` | `AsyncData::eventQueue`; the last element is `back()` |
| `worker`, `exitCode`, `inHand` | the worker's place in `doWorkerThread`, its exit code, the local `event` |
| `pc`, `arg`, `result` | callers: where they are, which event, what the last wait reported |
| `entryDone`, `due` | history: `entry()` of this setup has returned; the events a shutdown must let through |

Each Win32 call, and each critical section of the queue, is one action.
`WaitForMultipleObjects` reports the lowest index that is set: the order of its handles is
the order of the disjuncts of `Wait` and `WaitReadyReturn`. The worker is also a caller
(`Worker`): a callback may trigger events and shut the machine down, and returns when its calls have.
`shutdown` may be called by several threads, time out and be called again.

Abstractions: handling an event is one step that succeeds or fails (module `StateMachine` is about
what it does); an event object is not triggered again while it is queued; no call overlaps
`setup`, which replaces the handle the others use; creating the thread and storing its
handle are one step; events without a timer only.

### TimerClient

| Variable | Code |
|---|---|
| `pending` | the keys of `TimerHandle::timers` |
| `canceled` | the timers whose `canceledEvent` is set |
| `timer` | where the timer of each event is: `none` is `isTimerCreated` unset, `created` to `failed` are in `_setEventTimer`, the others in the timer thread |
| `lock` | owner of `TimerHandle::lock`, where it is held from one action to the next: `cancelAllEventTimers` only |
| `pc`, `arg` | where a caller is, and the event it sets or cancels |
| `waits` | the callers whose `timeout` is not 0 |
| `todo` | what the loop of `cancelAllEventTimers` has not reached |

A critical section under the lock is one action; so is each `SetEvent` and each wait. Callers are
threads of the application and the timer threads themselves, whose callbacks may set and cancel timers,
their own included. A wait for `terminatedEvent` ends when the thread has ended, at once when there
is no thread handle, or by its timeout. `isTimerCreated` is never reset: an event that is
triggered again is handled at once and does not come back to the client, so a timer has the name of its event.

The `Timer` is kept by the map, by the caller that sets it until `_setEventTimer` returns, and by one that cancels it. A thread that starts after its `Timer` was deleted is `lost`: what the program does
from there is undefined, and the module says nothing more of it. Delays and intervals elapse at
any time; whether an event has them is in the constants, and what time they take is in `TimerTests`.
Monitors and the timeout count are left out.

Abstractions: the first trigger of an event comes from one thread (`isTimerCreated` is tested without a lock); what
the callback does in the state machine is the business of `StateMachine`.

### Dispatchers

| Variable | Code |
|---|---|
| `useNativeThread` | `m_useNativeThread` of the managed context, which chooses the dispatcher (`Managed`, the way round it is in the code) |
| `exists` | the dispatchers that are not deleted; the destructor closes the handle |
| `thread` | where a thread is: `start` and `method`, for a timer `leave` (out of the map, its `Timer` not yet released), for a managed one `store` and `signal` in `threadMethod()`, `ended` |
| `noHandle`, `signalled` | the dispatches that gave no handle; the dispatchers whose `exitThreadEvent` is set |
| `exitCode`, `returned` | `AsyncDispatcher::exitCode`; what the method has returned (history, and the exit code of a Win32 thread) |
| `refs` | who refers to the `Timer` that owns the dispatcher: the map, `_setEventTimer`, its thread, a cancel |
| `isSetup`, `asyncDispatcher` | the current state is set; `AsyncData::asyncDispatcher`, replaced by the next `setup()` |
| `caller`, `target`, `answer` | where the thread of the application is, the timer it cancels, what `getAsyncExitCode()` said last |

`TimerClient` is about which timer fires and `Lifetimes` about states and events; `Dispatchers` is about the objects behind the handles.
One thread of the application sets up and shuts down, cancels and waits; timers are set from any thread, in one step (`TimerClient` has its parts).
A method returns whatever is in `Code`; a wait may time out; `CreateThread` and `CreateEvent` may fail. A thread that uses what was deleted is
`lost`: from there the program's behaviour is undefined, and no property speaks of it. Whether a timer is periodic makes no difference here.

### WindowProcStateMachine

| Variable | Code |
|---|---|
| `attached` | `asyncData->hWnd` is set: the window is subclassed and the context set up |
| `ready`, `shutdownEvent` | `hEventReady`, `hEventShutdown` are set |
| `queue` | `AsyncData::eventQueue`; the last element is `back()` |
| `messages` | what is posted to the window, the application's own messages (`App`) among it |
| `entered` | `entryCalled` of the current state |
| `ui`, `inHand` | what the window procedure is at, and the event it took off the queue |
| `pc`, `arg` | callers: where they are, and the event they trigger |
| `entryDone`, `inOrder`, `lost` | history: this setup's `entry()` succeeded; the `Setup` message of this setup was posted, to a window that had no message of an earlier one; the posts that failed since the queue was last empty |

`triggerEvent()` is two actions, the critical section of the queue and the post, and a post fails when the window has
no room. The window's thread retrieves one message at a time; the window procedure takes one event off
the queue and, when more are left, posts a message for them (`Repost`), which may fail too. Callbacks run on the
window's thread, which may trigger and shut down inside of them; `setup()` is called between two messages. A `shutdown()` leaves the messages it finds:
they meet a window procedure that is gone, or that of the next setup.

Abstractions: handling an event is one step that succeeds or fails, and so is a timer's `triggerEvent`, which any thread may call; `setup` and
`shutdown` are called by the window's thread, and no call of another thread overlaps `setup`; one message of the application is under way at a time.

### Lifetimes

| Variable | Code |
|---|---|
| `mem.made`, `mem.refs`, `mem.released` | the objects constructed, `UnknownImpl::m_cRef`, and the objects a `Release()` brought to 0 |
| `mem.master` | `State::m_masterState`, which owns |
| `mem.linked` | the native objects whose managed object still points to them |
| `current`, `entered` | `Context::m_currentState`, `entryCalled` |
| `stack` | the calls of the machine under way with their locals, which own or do not |
| `client` | the `CComPtr`s of the application |
| `result` | what the last call returned |

One thread, whose callbacks may call `setup`, `handleEvent` and `shutdown` again: the lock lets it in. Each local of the code is
an owner where it is a `CComPtr` and not where it is a plain pointer. A deleted object stays in `mem.released`, so that a later
read of it is seen. A managed object either goes with its native half (`autoDispose`), or holds a reference to it until it is disposed of (`kept`).
`Release` deletes, as in the code, along the masters as far as each had its last reference; what it deletes (`Gone`) is the least set closed
under that, so that the module needs no recursion and can be proved about.

Which callbacks nest is in `NestFrom`. After `preHandle`, `handle` or `exit` the code goes on with plain pointers that a nested call may
have released; the application must hold what it uses there (see Findings), so the run nests from `entry`, `onStateChanged` and `postHandle`.

### JsonParser

| Variable | Code |
|---|---|
| `phase`, `args`, `option` | where `_tmain` is, the arguments left, `CJsonParser::Option` |
| `text` | what was read from the stream |
| `state`, `previous`, `column` | the current state, `previousCharacter` and `column` of `CParserContext` |
| `out` | what was written |

One action is one argument, or one character through `handle()` of the current state, the transition and `entry()` and `exit()` of the
states. Characters the parser does not tell apart are one. A tab stop is a number that `_tstoi` can read: `errno` (jpp.cpp:113) is left out. `JsonText` splits the text into regions with a definition that looks at any index,
and the runs compare. `KnownDifference` names the texts on which code and promise differ (see Findings), `Unfinished` those that
end in a literal, behind an escape.

### ManualTest

| Variable | Code |
|---|---|
| `object`, `current`, `queue`, `timers`, `posted` | the machine: the states at each address, the current state, events, timers and messages |
| `stateList` | `CEventProperties::stateList`, plain pointers set by `WM_STATE_CHANGED` |
| `nextName`, `masterName`, `enabled` | the texts of the properties, and whether the one for masters may be edited |
| `statesView` | the rows of `m_statesView` |

`Chain`, what `updateStates` finds from a state along the masters, is the path that starts there, follows the masters and ends where
there is none; `Object` is finite, as addresses are, so a path has a bound.

Addresses are reused, which is how a stale pointer would show. The dialog is told of a change by a message, so it may be behind; the window
retrieves posted messages before input. Assumed of the user: the properties are left alone between a shutdown and the next setup;
an exit that ends early is chosen only where no state
with a timer is freed by it; no two equal events are under way. Left out: the button that calls `handleEvent` directly, for an event with a timer (Findings). The log, the clipboard's text and the layout are left out.

### The tests

A script is a sequence of calls, of calls the mocks expect with the answers they give, and of assertions. A step of a module is taken only if the
script allows it, and a script that cannot go on is a failed test: `AllTestsPass` says that every script reaches its end, the deadlock check that no
state is stuck before it. The scripts in C# run on objects that a managed object owns (`autoDispose`, or kept). A few scripts
take the result of a call that the test goes on to compare, or leave out an assertion that an object was deleted: of the results of each test, not every one is required. `TimerTests` adds a clock to
`TimerClient`: `now`, `due` (when each wait times out), `handled`, `cancels`, `wake` (the test's `Sleep`); a thread that can run does so before the clock ticks,
the assumption those tests make when they sleep. A C# timer test is here when its script differs from the one in C++.

## Runs

| Run | Kind | What it shows |
|---|---|---|
| `disciplined` | pass | `ConfigurationIsChain`, `ExitPairsWithEntry`: for transitions to ancestors, direct sub-states of the chain, or states without a master, and exits that succeed, `entryCalled` never drifts |
| `any_moves` | pass | any next state, any result of every callback: `OnlyChainEntered`, `TimersOfCurrentChain`: only what an `exit()` itself kept from being left (`missed`) stays entered, or keeps timers, outside the chain; `CapturedStateIsCurrent`, `CallbacksExclusive`, `ReportsFormPath`, and `LockIsReleased` under fairness |
| `async_safety` | pass | five invariants, and the refinement of `PriorityChannel` (`ChannelSpec`) |
| `async_liveness` | pass | `HighestPriorityIsServed`, `ShutdownReturns`, under fairness |
| `timers` | pass | `PendingHasThread`, `IterationIsStable`, the refinement of `EventTimer` (`PromiseSpec`), and under fairness `RemovedTimersEnd`, `TimersFire` |
| `dispatchers` | pass | `WorkerUsesItsDispatcher`, `WaitedHandleIsOpen`, `ExitCodeIsTrue`: dispatchers live as long as a worker or a wait needs them, and an exit code is the worker's |
| `window` | pass | `QueuedHasMessage`: but for posts that failed, no queued event is without a message, or a trigger that is about to post it; `EntryFirst`, `ReadyMeansEntered`; the refinement of `PriorityChannel`; under fairness `HighestPriorityIsServed`, and `AppIsServed`: the machine's own messages do not starve the application's |
| `jpp` | pass | `AcceptedOptionsAreValid`, `OutputIsPreprocessed`, `ColumnIsOfOutput`: every command line with every text |
| `literal_escape` | violation | `LiteralsAreKept`: a literal that ends in an escaped escape does not end |
| `lifetimes` | pass | `NothingDeletedIsRead`, `ReferencesAreOwned`, `NothingLeaks`, `ManagedPointsToNative`, with calls of the machine from callbacks of it |
| `unit_tests` | pass | `AllTestsPass`: 67 tests of the two suites hold of the modules |
| `manual_test` | pass | `ViewIsCurrent`: when the dialog has had its messages, it shows the machine's states; `MasterIsAskedForNewStates`: a master is asked for when, and only when, the state to create is new |

**Bounds.** A chain of three states is the deepest that matters to the exit loop: it can stop at,
below and above the direct master of the next state, and run on past it. A fourth state
without a master is the target of a transition that leaves a whole chain. Two threads are
enough for the lock: every property speaks of one thread's locals and another's step. The
`any_moves` run drops the leaf state to afford fairness and every result of every callback: `exit()` may succeed, fail, or return its default
`S_FALSE`, in a transition as on shutdown, where one state asks for it. The theorems are about any states and any such choice. The queue holds two
events of one priority and one of a higher: what tells "before the first that is not lower" from
"at an end" and from "after the equal ones". Ints have `Half = 4`.
`timers` has a one-shot and a periodic event, whose callbacks are callers too, and two threads:
four actors that may cancel each other, themselves, or all. Its configurations turn the deadlock check
off: once every timer is over the client stops, and what must not block is in `RemovedTimersEnd`. `dispatchers` has two workers, so that one takes the
place of the other while its thread may still run, and two timers, so that one is cancelled while the other ends; it stops too, as each dispatcher is
used once. The window has two events, two
threads and room for three messages (`QueueLimit`): enough for one of each kind, and for a post that fails while another is under way.
jpp reads every text of up to five characters (`TextLimit`), the shortest that hold a literal with an escaped character, or a comment with
something before it; command lines have up to three arguments, an option, its tab stop and one more. `lifetimes` has a native state, a
managed one and a kept one, one event, and calls that are two deep (`Depth`): the one under way, and the one its callback makes. Its
configuration and that of `jpp` stop: an object is not made twice, a text ends. `manual_test` has three addresses, the least that
lets one be reused while another state refers to the first, two names and two events under way (`EventLimit`). The unit tests need no bound; a tick is 10 ms.
All state spaces are finite and exhausted.

**Fairness.** `WF` on each thread's `Step` and on the worker: the scheduler runs a thread that can
run, a callback of the application returns, and time goes on: a delay elapses, a timeout ends its wait. Starting a call is never fair: the application
may stop calling. Waiting for the lock needs no stronger fairness, because no property says that
a given thread gets it; a timer thread that needs the lock of the timers gets it because each timer is set once, so
that only finitely many calls of `cancelAllEventTimers` find one pending. `ShutdownReturns` assumes that triggering stops: `hEventAvailable` has the lower
index, so a thread that triggers for ever keeps the worker from the shutdown event. In the liveness
instance of the asynchronous machine no wait times out. In the window, `WF` on each thread's steps, and `SF` on retrieving a message: the code of the application
on that thread runs from messages it retrieves, so it goes back to its message loop again and again, though not at once.

Types are proved for all values of the constants (Proofs), so no run spends a property on them.

Each property of a passing run has a mutant, defined next to the operator it changes and named
after the mistake (`SetAvailableIfAlone`, `WaitShutdownFirst`, ...), that violates it.

## Findings

The run `literal_escape`: `LiteralState::handleEvent()` (JsonParserObject.cpp:174) takes a character for escaped whenever the previous one is an escape,
be that itself escaped. A literal that ends in an escaped escape goes on behind its closing quote, and an escape is written once too often, against
:167 and :175.

Seen while reading and modelling, without a run of their own:

- StateMachine.cpp:77-80 and :156-162: `shutdown()`, and a transition, enumerate until the first result that is not `S_OK`, and `exit()` returns `S_FALSE`
  by default (State.h:41): the masters of a state that was left keep `entryCalled` and their timers, and are not entered again when they come back into the
  chain or after the next `setup`. The history variable `missed` names them; `OnlyChainEntered` and `TimersOfCurrentChain` say that no other state is left so.
- StateMachine.cpp:85 against :165: a `handleEvent()` under way revives a machine that was shut down. Timer threads make the overlap
  hard to avoid: `callExit` does not wait for them.
- AsyncStateMachine.cpp:92-96: a failed dispatch leaves the current state set, and :108 then waits for a NULL handle.
- AsyncStateMachine.cpp:171: `waitReady` returns `TSM_S_SHUT_DOWN` as soon as the shutdown is asked for.
- Event.h:36 against Handles.cpp:54: the difference of two priorities overflows.
- TimerClient.cpp:84 against :161 and :30: cancelling all with an infinite timeout waits under the lock that the timer thread needs.
- TimerClient.cpp:146 against :52: a cancel without timeout, when the setter has returned, deletes a timer whose thread has not started. A thread that is cancelled
  without a wait may also use the `TimerHandle` of a state that was deleted meanwhile.
- TimerClient.cpp:138: `_setEventTimer` keeps the event in the map when the dispatch fails (action `DispatchFails`).
- StateMonitor.h:34: no monitor is told of a shutdown (StateMachine.cpp:85).
- Callbacks that call the machine again from `preHandle`, `handle` or `exit` may release the state or event that the outer call still reads.
- WindowProcStateMachine.cpp:39: a failed post in `setup()` leaves the window subclassed; :93: `waitReady()` on the window's thread waits for itself; an
  `entry()` that fails leaves a machine that is never ready but handles events; :213 reads the queue without its lock; a `Message` retrieved after the shutdown is never freed. A `Setup` or
  `HandleEvent` message that outlives its setup (:55-59 removes none) is taken for one of the next, which may then handle an event before `entry()`; `inOrder` excludes that setup.
- JsonParserObject.cpp:117: `/*/` counts as a whole comment; :106: a pending `/` is lost before a tab that is expanded, and at the end of the
  input; so is an escape at the end of the input, in a literal. `KnownDifference` and `Unfinished` exclude these from `OutputIsPreprocessed`.
- JsonParserObject.cpp:45-49 against :31-32 ("characters should be out as is"): under `-r` an end of line in a literal is dropped like any other. `JsonText` keeps it, and
  `KnownDifference` has the case. The comment also speaks of comments, of which only the ends of line are written (:119), and of symbols, for which there is no state.
- JsonParserObject.h:62 speaks of single and double quotation marks; the code knows the double one only, and so does `JsonText`.
- NativeObjects.cpp:114 against TimerClient.cpp:171: on a managed thread, the last release of a `Timer` may be that of its own thread as `timerThread()` returns; its
  dispatcher is gone when `threadMethod()` stores the exit code and sets the event (`StoreExitCode`, to `lost`).
- NativeObjects.cpp:105 against AsyncStateMachine.cpp:94: if `CreateEvent` fails, the managed thread is started nevertheless, and `setup()`, told of an error, deletes the
  parameter it runs with (`ManagedDispatch`).
- AsyncStateMachine.cpp:40: of a Win32 worker that runs, `getAsyncExitCode()` says `S_OK` with `STILL_ACTIVE`; that of a managed one is an error
  (NativeObjects.cpp:130), and Interface.h:208 speaks of the exit code only. `ExitCodeIsTrue` has the exception.
- NativeObjects.cpp:157: `_createAsyncDispatcher` has its condition inverted. GenericObject.h:189 ignores `autoDispose`; objects that are kept
  are not finalised; a next state that the handler of a master replaces is not released.
- StateMachineManualTestDlg.cpp:258: an event with a timer that is passed to `handleEvent` is handled on the thread of its timer, outside of the window's messages: the machine moves and
  frees states while the dialog is at work, and `stateList` may dangle. `ViewIsCurrent` is about the events that are triggered, and those without a timer.
- EventProperties.cpp:133-136: a shutdown posts no `WM_STATE_CHANGED`, so `stateList` dangles until the next setup; :217 against :185: the name of the
  current state is new to one and known to the other. ReportView.cpp:132 and :141: a row shorter than the leftmost column's position loses its last item.

## Proofs

The theorems hold for every forest of states, any sets of threads, events and objects, any priorities, and any command line and text.

**StateMachineProofs** assumes `SerialSetup`: only `handleEvent` calls overlap. The base is
`ControlInv`: which labels belong to which method (`LabelOfMethod`), that two calls under way are
`handleEvent` calls (`SerialCalls`), that a thread past the lock is its owner and no other
(`LockOwner`), and that the locals a label uses are states. From it follow `TypeCorrect`,
`NeverStale` (a captured current state is current because only the owner of the lock replaces it)
and `Exclusive`. `OnlyChainEntered` speaks of moments between calls only, so it is not inductive:
`EnteredInv` adds, for each label inside a transition, what is still entered relative to the
position of the enumeration (`EnteredAt`). It counts `missed` among
what may be entered, from the result of the `exit()` that ended the enumeration to the transition that makes these states part of the chain again, so `NoStrayEntry` needs no
assumption on what callbacks return. `ExactConfiguration` and `ExitsArePaired` strengthen the inclusion to an equality
(`ConfigurationAt`), for `Disciplined` applications whose exits succeed; the key is that the exit loop
stops no later than the next state or its master (`Stops`). `NoStrayTimer` has none either. `TimersOfCurrentChain` is not
inductive either: `TimersInv` says for each label (`ArmedAt`) which owners may have timers while the states are left and entered, and that a thread
whose transition is over holds none of another chain's. `ReportsAreAPath` holds whatever callbacks return: `ReportsInv` relates `observed` to the captured
state of the one thread that has left states but not reported yet (`ReportedAt`). The lemmas on `Chain` replace induction
along the masters: a chain is the least closed set, so each fact is shown by exhibiting a closed set.

**AsyncStateMachineProofs** has one invariant, `Inv`. `Woken` is the strengthening of `NoLostWakeup`: wherever
the worker is about to wait, each queued event has `available` set or its own caller about to set it. It must
speak of each event, not of the queue as a whole, and hold before the worker first waits. `DueWaits` and `Obeying`
carry `ShutdownDrains`: the events due are queued, and none is left when the worker has seen `available` unset and
`shutdownEvent` set. `StoppedWorker` carries `NoWorkerAfterShutdown` through the callers between the join and
`shutdownInner`. `QueueStaysSorted` has the premise `NoOverflow`, without which it is false (Findings), and rests
on `QueueEventKeepsAscending` of **EventQueueProofs**, where the loop of `queueEvent()` is a `CHOOSE` whose witness is
the least index at which it stops. `QueueEventIsFifo` says that a new event goes behind its equals.
`AsyncKeepsOrder` is the refinement of `PriorityChannel`: its three variables are functions of the queue and of the event in hand, and what a step must
keep is which of two waiting events is the `Older` one. `QueueEventPositions` gives that without an induction, by the least index at which the
new sequence differs; that no event is queued twice (`Distinct`, `NotTwice`) makes it a relation on events.

**TimerClientProofs** proves the types and the invariants of `timers` and, as `TimersKeepPromise`, that `TimerClient`
implements `EventTimer`. The mapping (`TimerPhase`) calls a timer pending while it is in the map and not in its
callback. `Inv` adds to the invariants: that no two callers set the timer of one event (`SettersApart`), that
whoever iterates holds the lock (`LockOwner`), and that a callback whose timer is still in the map belongs to a
periodic one (`PendingCallback`), which is why a one-shot timer never goes back to pending. Each action is one
step or no step of `EventTimer` (`PhaseStep`).

The same module has the theorems about `Dispatchers`, whose threads timers run in: `WorkerDispatcherExists`, `NoWaitOnClosedHandle`, `SetHandleIsTrusted`, `ExitCodeIsTrusted`, for any
number of workers and timers, whichever dispatcher the context has and whatever fails. `DispatcherInv` has a part for each owner. `WorkerKept`: the dispatcher of a context exists, and a worker that is not
over is that of the current setup, because a join that timed out leaves `isSetup`; so `setup()` deletes only dispatchers whose threads have ended. `TimerKept`: a `Timer` exists exactly
while somebody refers to it, and a cancel does from the map to the end of its wait. `LeftBehind`: what a thread has written when it is where it is, by which a set event means a stored code.

**WindowProcStateMachineProofs** proves `WindowTypeCorrect`, `EntryComesFirst` and `WindowReadyIsTrusted` for any threads, priorities and room of the window.
`EntryFirst` is about what has been handled, so it is not inductive: `Inv` says of a setup whose post went in order that
its `Setup` message is the only one and comes before every `HandleEvent` message until it is retrieved, and that until `entry()` is over no
event is in hand. The lemmas are about sequences: what appending to the end and dropping the front do to the order of messages.
`NoEventIsStranded` (`QueuedHasMessage`) is a count: an event in the queue is matched by a message, by a trigger between the queue and its post, by a repost that
is due, or by a failed post, and each action moves one unit between them. `WindowKeepsOrder` is the refinement of `PriorityChannel`, by the lemmas of the asynchronous one.

**JsonParserProofs** proves `CommandLineIsChecked`: an invariant on the options after each argument (`OptionsInv`), of which the
tab stop that is legal once it was given (`TabStopIsLegal`) is the part that lasts. `ColumnIsExact` compares `column`, which is kept up character by character, with the
last line of the output (`LastLine`); `InColumn` carries it through `OutIn()`, with the spaces a tab becomes.
`OutputIsExact` (`OutputIsPreprocessed`) is about texts of any length: what the parser writes one character at a time is what `JsonText` says of the whole text.
The two functions of `JsonText` are recursive, so they are first shown to satisfy their equations (`RegionsAre`, `OutputsAre`, by the least index at which they would not),
and to say the same of a text when another character comes (`RegionsAreKept`, `OutputsAreKept`), but for the `/` that turns out to open a comment. `FollowsInv` then says
that, on a text that is `Clean`, the state of the parser is the region behind the last character, that `previousCharacter` is that character unless it ended a comment, and
that the output is the one behind the last character, or the one before it while a `/` or an escape is `Pending`. Each of the four states keeps that
(`ParserStep`, `CommentStep`, `SingleLineStep`, `LiteralStep`); the texts of `KnownDifference` are those on which one of these cases fails.

**LifetimesProofs** assumes `NestsSafely`: callbacks call the machine from `entry`, `onStateChanged` and `postHandle` only, since the others are followed by a read
through a plain pointer (Findings). `Inv` has two parts. `Sound` is about the objects, for any number of holders outside of them: the counts are those of the
holders, sub-states and managed objects (`Balanced`), and what has no reference was released, is new, or was never made (`Referred`). `StackInv` says that under the running
call there are only calls at such callbacks, and that what the running one reads through plain pointers still has a reference (`TopInv`). `AddRef()`, `Release()`, construction and
disposal each keep `Sound` with one holder more or less; an action is a chain of them, whose holders in between are written down. The hard case is `Release()`, which
may delete a whole chain of masters: each deleted object had one reference, that of the deleted one before it (`GoneIsReached`), and no survivor loses two
(`GoneIsChain`). `OwnersAreCounted`, `NoDanglingRead`, `NothingIsLeftBehind` and `ManagedStaysLinked` follow from `Inv`.

**ManualTestProofs** proves both invariants of `manual_test` for any finite set of addresses. `ViewIsCurrent` speaks of moments without messages only; `ShownOrTold`
says of the others that the dialog shows what the machine is in or a message that makes it do so is posted. It needs `RootsAreGood`: from the current state, and from the
next state of every event queued or waiting for its timer, the masters are a path (`Whole`) without a repetition and without a freed address. There is
one such path (`ShorterIsSame`, by the least index of a difference), so it stays where its states stay (`WholeIsKept`); a state made of a freed address
is on none (`CreatedKeepsOthers`) and is put before its master's, whose length is then bounded by the number of addresses (`CreatedIsGood`); what `Release` frees is on none that
is left (`FreedKeepsOthers`). `MasterIsAskedForNewStates` adds that the current state, which one of the two look-ups leaves out, is the first of the list (`FirstIsNotNamed`), and
`CopiedRow` that a row is copied as it was added for any columns, not only those of this dialog.

**Model-checked only:** liveness, which is out of the prover's reach (`LockIsReleased`, `HighestPriorityIsServed`, `ShutdownReturns`, `RemovedTimersEnd`, `TimersFire`,
`AppIsServed`); `AllTestsPass`, which is about scripts and has no other instance.

## Not modelled

Handles and clients created on demand, sequence numbers and the memory weight, formatting and logging, the clipboard. Of StateMachine.NET the
monitor and the code that passes a call on. The .NET test console measures and prints. The tests in C# that use an asynchronous
context have the scripts of those on a synchronous one; `Class1.cs` is an older copy. Reading files and standard input.

## Plan

1. Done: `StateMachine`, `EventQueue`, `AsyncStateMachine`, `PriorityChannel`; `TimerClient`, `EventTimer`, with the refinement proved;
   `WindowProcStateMachine`; `Dispatchers`; `JsonParser`; `Lifetimes`; the unit tests; the manual test; the theorems about each.
2. `AsyncSystem`: `AsyncStateMachine` over the transitions of `StateMachine`, with timer threads as callers and direct `handleEvent` calls.
3. Several `Timer`s of one event, for two threads that trigger it first at once.
4. Proofs: of every invariant and refinement of the runs but `AllTestsPass` done. Next those about `AsyncSystem`.
