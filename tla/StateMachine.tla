----------------------------- MODULE StateMachine -----------------------------
(***************************************************************************)
(* The synchronous state machine of StateMachine/StateMachine.cpp, run by  *)
(* any number of threads on one Context.                                   *)
(*                                                                         *)
(* States form a forest (State::m_masterState).  handleEvent() serialises  *)
(* its callers with ContextHandle::_handleEventLock; setup() and           *)
(* shutdown() take no lock.  The callbacks an application writes           *)
(* (preHandle, handleEvent, entry, exit, postHandle) return any of the     *)
(* results the constants allow.                                            *)
(***************************************************************************)
EXTENDS Naturals, FiniteSets

CONSTANTS
    Thread,          \* the threads that call the methods of the context
    State,           \* the application's IState objects
    NoState,         \* nullptr
    NoThread,        \* nobody owns the handleEvent lock
    Context,         \* the context, as the owner of event timers
    master,          \* _getMasterState(): [State -> State \cup {NoState}]
    Initial,         \* the states the application passes to setup()
    Moves,           \* the next states that handleEvent() of a state may set
    ExitOnShutdown,  \* the states whose _isExitCalledOnShutdown() is true
    ExitResult,      \* what exit() may return
    EntryResult,     \* what entry() may return
    Overlapping      \* the methods whose calls the application lets
                     \* overlap with one another

Method == {"setup", "handleEvent", "shutdown"}

(* An HRESULT, as the code tells them apart.                               *)
HResult == {"S_OK", "S_FALSE", "E_FAIL"}

StateOrNone == State \cup {NoState}

ASSUME StateAssumption ==
    /\ NoState \notin State
    /\ NoThread \notin Thread
    /\ Context \notin State
    /\ master \in [State -> StateOrNone]
    /\ Initial \subseteq State
    /\ Moves \in [State -> SUBSET State]
    /\ ExitOnShutdown \subseteq State
    /\ ExitResult \subseteq HResult
    /\ EntryResult \subseteq HResult
    /\ Overlapping \subseteq Method

(* A set of states that contains the master of each of its members.        *)
Closed(S) == \A s \in S : master[s] # NoState => master[s] \in S

(* The states forEachState() visits from s: s and its masters, as the      *)
(* least closed set that contains s.  No state is visited from nullptr.    *)
ChainOf ==
    [s \in StateOrNone |->
        {a \in State : /\ s # NoState
                       /\ \A S \in SUBSET State : s \in S /\ Closed(S) => a \in S}]

Chain(s) == ChainOf[s]

(* A State is constructed on an existing master.                           *)
ASSUME MasterAcyclic == \A s \in State : s \notin Chain(master[s])

VARIABLES
    current,    \* Context::m_currentState
    entered,    \* the states whose StateHandle::entryCalled is true
    armed,      \* the timer owners with a pending event timer
    lock,       \* the owner of ContextHandle::_handleEventLock
    observed,   \* the state that StateMonitor::onStateChanged() named last
    pc,         \* where each thread is; "idle" is outside the machine
    op,         \* the method each thread is in, or was in last
    cur,        \* handleEvent(): the local currentState
    next,       \* handleEvent(): the local nextState; setup(): initialState
    walk,       \* the state that forEachState() is at
    missed      \* not in the code: the states that the exit() of a state
                \* below has kept from being left

locals == <<op, cur, next, walk>>
vars == <<current, entered, armed, lock, observed, pc, locals, missed>>

Label == {"idle", "setCurrent", "entry", "inEntry", "report", "lock",
          "preHandle", "handle", "exit", "inExit", "post", "down",
          "inDownExit", "clear"}

Goto(t, label) == pc' = [pc EXCEPT ![t] = label]

Idle(t) == pc[t] = "idle"

Init ==
    /\ current = NoState
    /\ entered = {}
    /\ armed = {}
    /\ lock = NoThread
    /\ observed = NoState
    /\ pc = [t \in Thread |-> "idle"]
    /\ op = [t \in Thread |-> "handleEvent"]
    /\ cur = [t \in Thread |-> NoState]
    /\ next = [t \in Thread |-> NoState]
    /\ walk = [t \in Thread |-> NoState]
    /\ missed = {}

-----------------------------------------------------------------------------
(* The application may call m now: every call under way may overlap it.    *)
MayCall(m) == \A t \in Thread : ~Idle(t) => {m, op[t]} \subseteq Overlapping

(* setup(): setupInner() finds no current state.  A setup() that finds one *)
(* returns TSM_E_SETUP_HAS_BEEN_MADE and changes nothing.  What a monitor  *)
(* was told of an earlier setup is over.                                   *)
Setup(t, s) ==
    /\ Idle(t)
    /\ MayCall("setup")
    /\ current = NoState
    /\ op' = [op EXCEPT ![t] = "setup"]
    /\ cur' = [cur EXCEPT ![t] = NoState]
    /\ next' = [next EXCEPT ![t] = s]
    /\ observed' = NoState
    /\ Goto(t, "setCurrent")
    /\ UNCHANGED <<current, entered, armed, lock, walk, missed>>

(* A mutant: the lock is given back as soon as the state is set.           *)
SetCurrentStateAndUnlock(t) ==
    /\ pc[t] = "setCurrent"
    /\ current' = next[t]
    /\ lock' = IF lock = t THEN NoThread ELSE lock
    /\ Goto(t, "entry")
    /\ missed' = missed \ Chain(next[t])
    /\ UNCHANGED <<entered, armed, observed, locals>>

(* Both setup() and handleEvent(): _setCurrentState().  What was missed is *)
(* owed an exit() again once it is part of the chain.                      *)
SetCurrentState(t) ==
    /\ pc[t] = "setCurrent"
    /\ current' = next[t]
    /\ Goto(t, "entry")
    /\ missed' = missed \ Chain(next[t])
    /\ UNCHANGED <<entered, armed, lock, observed, locals>>

(* callEntry() of a state that is entered already does nothing.            *)
EntrySkipped(t) ==
    /\ pc[t] = "entry"
    /\ next[t] \in entered
    /\ Goto(t, "report")
    /\ UNCHANGED <<current, entered, armed, lock, observed, locals, missed>>

(* callEntry() of any other state marks it and calls entry().              *)
CallEntry(t) ==
    /\ pc[t] = "entry"
    /\ next[t] \notin entered
    /\ entered' = entered \cup {next[t]}
    /\ Goto(t, "inEntry")
    /\ UNCHANGED <<current, armed, lock, observed, locals, missed>>

(* entry() has started timers of the owners and returns r.  On an error    *)
(* setup() returns at once; handleEvent() still reports the transition.    *)
EntryReturn(t, r, owners) ==
    /\ pc[t] = "inEntry"
    /\ armed' = armed \cup owners
    /\ Goto(t, IF op[t] = "setup" /\ r = "E_FAIL" THEN "idle" ELSE "report")
    /\ UNCHANGED <<current, entered, lock, observed, locals, missed>>

(* StateMonitor::onStateChanged(): setup() names the context's current     *)
(* state, handleEvent() its own nextState.                                 *)
Report(t) ==
    /\ pc[t] = "report"
    /\ observed' = IF op[t] = "setup" THEN current ELSE next[t]
    /\ Goto(t, IF op[t] = "setup" THEN "idle" ELSE "post")
    /\ UNCHANGED <<current, entered, armed, lock, locals, missed>>

-----------------------------------------------------------------------------
(* handleEvent(): the setup check, made before the lock is taken.          *)
HandleEvent(t) ==
    /\ Idle(t)
    /\ MayCall("handleEvent")
    /\ current # NoState
    /\ op' = [op EXCEPT ![t] = "handleEvent"]
    /\ Goto(t, "lock")
    /\ UNCHANGED <<current, entered, armed, lock, observed, cur, next, walk, missed>>

(* A mutant: the current state is captured without the lock.               *)
CaptureWithoutLock(t) ==
    /\ pc[t] = "lock"
    /\ cur' = [cur EXCEPT ![t] = current]
    /\ next' = [next EXCEPT ![t] = NoState]
    /\ walk' = [walk EXCEPT ![t] = current]
    /\ Goto(t, "preHandle")
    /\ UNCHANGED <<current, entered, armed, lock, observed, op, missed>>

(* The lock is taken and the current state captured.                       *)
Acquire(t) ==
    /\ pc[t] = "lock"
    /\ lock = NoThread
    /\ lock' = t
    /\ cur' = [cur EXCEPT ![t] = current]
    /\ next' = [next EXCEPT ![t] = NoState]
    /\ walk' = [walk EXCEPT ![t] = current]
    /\ Goto(t, "preHandle")
    /\ UNCHANGED <<current, entered, armed, observed, op, missed>>

(* A mutant: the early return keeps the lock.                              *)
PreHandleKeepsLock(t) ==
    /\ pc[t] = "preHandle"
    /\ Goto(t, "handle") \/ Goto(t, "idle")
    /\ UNCHANGED <<current, entered, armed, lock, observed, locals, missed>>

(* preHandle() returns S_OK, or handleEvent() returns at once.             *)
PreHandle(t) ==
    /\ pc[t] = "preHandle"
    /\ \/ Goto(t, "handle") /\ UNCHANGED lock
       \/ Goto(t, "idle") /\ lock' = NoThread
    /\ UNCHANGED <<current, entered, armed, observed, locals, missed>>

(* A mutant: the exit loop starts where the handlers' enumeration ended.   *)
DecideFromHandler(t, n) ==
    /\ Goto(t, IF n = NoState THEN "post" ELSE "exit")
    /\ UNCHANGED walk

(* The enumeration of the handlers is over without an error: go on to the  *)
(* exit loop if some handler has set nextState, here n.                    *)
Decide(t, n) ==
    IF n = NoState
    THEN Goto(t, "post") /\ UNCHANGED walk
    ELSE Goto(t, "exit") /\ walk' = [walk EXCEPT ![t] = cur[t]]

(* State::handleEvent() of the state at walk leaves nextState at n and     *)
(* returns r: S_OK ends the enumeration, S_FALSE passes the event to the   *)
(* master state, an error ends the transition.                             *)
StateHandleEvent(t, r, n) ==
    /\ pc[t] = "handle"
    /\ walk[t] # NoState
    /\ n \in Moves[walk[t]] \cup {next[t]}
    /\ next' = [next EXCEPT ![t] = n]
    /\ \/ r = "S_OK" /\ Decide(t, n)
       \/ r = "S_FALSE" /\ walk' = [walk EXCEPT ![t] = master[walk[t]]] /\ UNCHANGED pc
       \/ r = "E_FAIL" /\ Goto(t, "post") /\ UNCHANGED walk
    /\ UNCHANGED <<current, entered, armed, lock, observed, op, cur, missed>>

(* Every state has ignored the event.                                      *)
Ignored(t) ==
    /\ pc[t] = "handle"
    /\ walk[t] = NoState
    /\ Decide(t, next[t])
    /\ UNCHANGED <<current, entered, armed, lock, observed, op, cur, next, missed>>

(* A mutant: the master of the next state is left too.                     *)
ExitStopsAtNext(t) == {NoState, next[t]}

(* The states at which the exit loop stops.                                *)
ExitStops(t) == {NoState, next[t], master[next[t]]}

(* callExit(): forget the entry, cancel the state's timers, call exit().   *)
CallExit(t) ==
    /\ pc[t] = "exit"
    /\ walk[t] \notin ExitStops(t)
    /\ entered' = entered \ {walk[t]}
    /\ armed' = armed \ {walk[t]}
    /\ Goto(t, "inExit")
    /\ UNCHANGED <<current, lock, observed, locals, missed>>

(* exit() returns r: only S_OK continues with the master state; S_FALSE,   *)
(* the default of State::exit(), ends the loop, and the transition goes on *)
(* with the masters missed; an error ends it, and keeps the current state. *)
ExitReturn(t, r) ==
    /\ pc[t] = "inExit"
    /\ \/ /\ r = "S_OK"
          /\ walk' = [walk EXCEPT ![t] = master[walk[t]]]
          /\ Goto(t, "exit")
          /\ UNCHANGED missed
       \/ /\ r = "S_FALSE"
          /\ Goto(t, "setCurrent")
          /\ missed' = missed \cup Chain(master[walk[t]])
          /\ UNCHANGED walk
       \/ r = "E_FAIL" /\ Goto(t, "post") /\ UNCHANGED <<walk, missed>>
    /\ UNCHANGED <<current, entered, armed, lock, observed, op, cur, next>>

ExitDone(t) ==
    /\ pc[t] = "exit"
    /\ walk[t] \in ExitStops(t)
    /\ Goto(t, "setCurrent")
    /\ UNCHANGED <<current, entered, armed, lock, observed, locals, missed>>

(* postHandle() is called and the lock released.                           *)
PostHandle(t) ==
    /\ pc[t] = "post"
    /\ lock' = NoThread
    /\ Goto(t, "idle")
    /\ UNCHANGED <<current, entered, armed, observed, locals, missed>>

-----------------------------------------------------------------------------
(* shutdown(), at any time: shutdownInner() reads the current state.       *)
Shutdown(t) ==
    /\ Idle(t)
    /\ MayCall("shutdown")
    /\ op' = [op EXCEPT ![t] = "shutdown"]
    /\ walk' = [walk EXCEPT ![t] = current]
    /\ Goto(t, "down")
    /\ UNCHANGED <<current, entered, armed, lock, observed, cur, next, missed>>

(* callExit() with no next state: exit() is called only where the state    *)
(* asks for it.                                                            *)
CallExitOnShutdown(t) ==
    /\ pc[t] = "down"
    /\ walk[t] # NoState
    /\ entered' = entered \ {walk[t]}
    /\ armed' = armed \ {walk[t]}
    /\ IF walk[t] \in ExitOnShutdown
       THEN Goto(t, "inDownExit") /\ UNCHANGED walk
       ELSE walk' = [walk EXCEPT ![t] = master[walk[t]]] /\ UNCHANGED pc
    /\ UNCHANGED <<current, lock, observed, op, cur, next, missed>>

(* A result other than S_OK ends the enumeration, and is then dropped: the *)
(* masters are missed.                                                     *)
ExitReturnOnShutdown(t, r) ==
    /\ pc[t] = "inDownExit"
    /\ IF r = "S_OK"
       THEN walk' = [walk EXCEPT ![t] = master[walk[t]]] /\ UNCHANGED missed
       ELSE /\ walk' = [walk EXCEPT ![t] = NoState]
            /\ missed' = missed \cup Chain(master[walk[t]])
    /\ Goto(t, "down")
    /\ UNCHANGED <<current, entered, armed, lock, observed, op, cur, next>>

(* A mutant: the timers of the context survive the shutdown.               *)
KeepContextTimers(t) ==
    /\ pc[t] = "down"
    /\ walk[t] = NoState
    /\ Goto(t, "clear")
    /\ UNCHANGED <<current, entered, armed, lock, observed, locals, missed>>

(* The timers of the context itself are cancelled.                         *)
CancelContextTimers(t) ==
    /\ pc[t] = "down"
    /\ walk[t] = NoState
    /\ armed' = armed \ {Context}
    /\ Goto(t, "clear")
    /\ UNCHANGED <<current, entered, lock, observed, locals, missed>>

(* The current state is cleared; no monitor is told.                       *)
ClearCurrentState(t) ==
    /\ pc[t] = "clear"
    /\ current' = NoState
    /\ Goto(t, "idle")
    /\ UNCHANGED <<entered, armed, lock, observed, locals, missed>>

(* The timer threads: the last pending timer of an owner expires.          *)
TimersExpire(o) ==
    /\ o \in armed
    /\ armed' = armed \ {o}
    /\ UNCHANGED <<current, entered, lock, observed, pc, locals, missed>>

-----------------------------------------------------------------------------
(* The application starts a call.                                          *)
Call(t) ==
    \/ \E s \in Initial : Setup(t, s)
    \/ HandleEvent(t)
    \/ Shutdown(t)

(* A call that has started, its callbacks included, takes a step.          *)
Step(t) ==
    \/ SetCurrentState(t)
    \/ EntrySkipped(t)
    \/ CallEntry(t)
    \/ \E r \in EntryResult, owners \in SUBSET {next[t], Context} : EntryReturn(t, r, owners)
    \/ Report(t)
    \/ Acquire(t)
    \/ PreHandle(t)
    \/ \E r \in HResult, n \in StateOrNone : StateHandleEvent(t, r, n)
    \/ Ignored(t)
    \/ CallExit(t)
    \/ \E r \in ExitResult : ExitReturn(t, r)
    \/ ExitDone(t)
    \/ PostHandle(t)
    \/ CallExitOnShutdown(t)
    \/ \E r \in ExitResult : ExitReturnOnShutdown(t, r)
    \/ CancelContextTimers(t)
    \/ ClearCurrentState(t)

Next ==
    \/ \E t \in Thread : Call(t) \/ Step(t)
    \/ \E o \in armed : TimersExpire(o)

Spec == Init /\ [][Next]_vars

(* Every callback returns, and the scheduler runs every thread that can    *)
(* run.                                                                    *)
FairSpec == Spec /\ \A t \in Thread : WF_vars(Step(t))

-----------------------------------------------------------------------------
TypeOK ==
    /\ current \in StateOrNone
    /\ entered \subseteq State
    /\ armed \subseteq State \cup {Context}
    /\ lock \in Thread \cup {NoThread}
    /\ observed \in StateOrNone
    /\ pc \in [Thread -> Label]
    /\ op \in [Thread -> Method]
    /\ cur \in [Thread -> StateOrNone]
    /\ next \in [Thread -> StateOrNone]
    /\ walk \in [Thread -> StateOrNone]
    /\ missed \subseteq State

(* No thread is between the two ends of a transition, setup or shutdown.   *)
AtRest == \A t \in Thread : pc[t] \in {"idle", "lock"}

(* A transition in which every state below `master of next' is left, and   *)
(* only next entered, is exact when next is a state that is entered, or    *)
(* one whose master is entered, or one without a master.                   *)
Disciplined ==
    /\ \A s \in Initial : master[s] = NoState
    /\ \A s, h \in State : h \in Chain(s) =>
          \A n \in Moves[h] :
              n \in Chain(s) \/ master[n] \in Chain(s) \cup {NoState}

(* The entry/exit bookkeeping of the states (StateHandle::entryCalled)     *)
(* never drifts from the current state: between calls exactly the current  *)
(* state and its masters are entered.  It takes applications that are      *)
(* Disciplined and callbacks that succeed.                                 *)
ConfigurationIsChain == AtRest => entered = Chain(current)

(* Whatever next states the handlers choose and whatever the callbacks     *)
(* return, callExit() has been called for every state that was left, but   *)
(* for the masters of one whose exit() itself ended the enumeration: with  *)
(* S_FALSE in a transition, with anything but S_OK on shutdown.  Nothing   *)
(* else outside the chain of the current state stays entered.              *)
OnlyChainEntered == AtRest => entered \subseteq Chain(current) \cup missed

(* Between calls an event timer is pending only on the context, the        *)
(* current state or a master of it, and on nothing after shutdown():       *)
(* callExit() and shutdownInner() have cancelled all others, but for those *)
(* of the states that they missed because of the result of an exit().      *)
TimersOfCurrentChain ==
    AtRest =>
        armed \subseteq (IF current = NoState THEN {} ELSE Chain(current) \cup {Context}) \cup missed

(* The currentState that handleEvent() captured under the lock is the      *)
(* context's state until it is replaced, and its nextState afterwards: no  *)
(* transition is computed from a stale state, none is overwritten.         *)
CapturedStateIsCurrent ==
    \A t \in Thread : op[t] = "handleEvent" =>
        /\ pc[t] \in {"preHandle", "handle", "exit", "inExit", "setCurrent"} => current = cur[t]
        /\ pc[t] \in {"entry", "inEntry", "report"} => current = next[t]

InCallback == {"preHandle", "handle", "inEntry", "inExit", "post", "inDownExit"}

(* The application's callbacks never run on two threads at once.           *)
CallbacksExclusive ==
    \A t, u \in Thread : pc[t] \in InCallback /\ pc[u] \in InCallback => t = u

(* exit() is never called on a state that is not entered, be it by a       *)
(* transition or on shutdown.                                              *)
ExitPairsWithEntry ==
    [][\A t \in Thread :
          pc[t] # pc'[t] /\ pc'[t] \in {"inExit", "inDownExit"} => walk[t] \in entered]_vars

(* What a monitor sees is one path: each transition reported starts at the *)
(* state the last report named, or is the first one reported.              *)
ReportsFormPath ==
    [][\A t \in Thread :
          pc[t] = "report" /\ pc'[t] = "post" => observed \in {NoState, cur[t]}]_vars

(* Whoever takes the handleEvent lock gives it back, on every path.        *)
LockIsReleased == \A t \in Thread : lock = t ~> lock # t

=============================================================================
