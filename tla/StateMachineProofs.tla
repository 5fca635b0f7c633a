-------------------------- MODULE StateMachineProofs --------------------------
(***************************************************************************)
(* Theorems about StateMachine, for every forest of states, every choice   *)
(* of next states by the handlers and every number of threads.             *)
(***************************************************************************)
EXTENDS StateMachine, TLAPS

(* What an application must respect for the invariants below: no setup()   *)
(* and no shutdown() overlaps with another call.                           *)
SerialSetup == Overlapping \subseteq {"handleEvent"}

-----------------------------------------------------------------------------
(* The inductive invariant, in parts.                                      *)

HandleLabel == {"lock", "preHandle", "handle", "exit", "inExit", "post"}
EnterLabel == {"setCurrent", "entry", "inEntry", "report"}
ShutdownLabel == {"down", "inDownExit", "clear"}

(* Each label belongs to the methods that reach it.                        *)
LabelOfMethod ==
    \A t \in Thread :
        /\ pc[t] \in HandleLabel => op[t] = "handleEvent"
        /\ pc[t] \in EnterLabel => op[t] \in {"setup", "handleEvent"}
        /\ pc[t] \in ShutdownLabel => op[t] = "shutdown"

(* Calls under way together are calls of handleEvent().                    *)
SerialCalls ==
    \A t, u \in Thread :
        ~Idle(t) /\ ~Idle(u) /\ t # u => op[t] = "handleEvent"

(* The threads past the lock of handleEvent().                             *)
Locked(t) == pc[t] \notin {"idle", "lock"} /\ op[t] = "handleEvent"

(* The lock has the owner it seems to have.                                *)
LockOwner == \A t \in Thread : Locked(t) <=> lock = t

(* The locals a label relies on are states, not nullptr.                   *)
LocalsAreStates ==
    \A t \in Thread :
        /\ pc[t] \in {"exit", "inExit"} \cup EnterLabel => next[t] \in State
        /\ pc[t] = "inExit" => walk[t] \in State
        /\ pc[t] = "inDownExit" => walk[t] \in ExitOnShutdown

(* While setup() runs it is its initial state that is current.             *)
SetupState ==
    \A t \in Thread : op[t] = "setup" =>
        /\ pc[t] = "setCurrent" => current = NoState
        /\ pc[t] \in {"entry", "inEntry", "report"} => current = next[t]

ControlInv ==
    /\ TypeOK
    /\ LabelOfMethod
    /\ SerialCalls
    /\ LockOwner
    /\ LocalsAreStates
    /\ SetupState
    /\ CapturedStateIsCurrent

Inside(t) == pc[t] \notin {"idle", "lock"}

(* What a thread inside the machine still has to leave, from where it is.  *)
EnteredAt(t) ==
    /\ pc[t] \in {"preHandle", "handle", "post"} => entered \subseteq Chain(current) \cup missed
    /\ pc[t] = "exit" => /\ entered \subseteq Chain(walk[t]) \cup missed
                         /\ Chain(walk[t]) \subseteq Chain(cur[t])
    /\ pc[t] = "inExit" => /\ entered \subseteq Chain(master[walk[t]]) \cup missed
                           /\ Chain(master[walk[t]]) \subseteq Chain(cur[t])
    /\ pc[t] \in EnterLabel => entered \subseteq Chain(next[t]) \cup missed
    /\ pc[t] = "down" => entered \subseteq Chain(walk[t]) \cup missed
    /\ pc[t] = "inDownExit" => entered \subseteq Chain(master[walk[t]]) \cup missed
    /\ pc[t] = "clear" => entered \subseteq missed

EnteredInv ==
    /\ OnlyChainEntered
    /\ \A t \in Thread : Inside(t) => EnteredAt(t)

-----------------------------------------------------------------------------
(* Facts about Chain, the states that forEachState() visits.               *)

LEMMA ChainNone == Chain(NoState) = {}
BY StateAssumption DEF Chain, ChainOf, StateOrNone

LEMMA ChainDef ==
    ASSUME NEW s \in State
    PROVE  Chain(s) = {a \in State : \A S \in SUBSET State : s \in S /\ Closed(S) => a \in S}
BY StateAssumption DEF Chain, ChainOf, StateOrNone

LEMMA ChainIsStates ==
    ASSUME NEW s \in StateOrNone
    PROVE  Chain(s) \subseteq State
BY ChainNone, ChainDef DEF StateOrNone

LEMMA ChainSelf ==
    ASSUME NEW s \in State
    PROVE  s \in Chain(s)
BY ChainDef

LEMMA ChainClosed ==
    ASSUME NEW s \in StateOrNone
    PROVE  Closed(Chain(s))
<1>1. CASE s = NoState
  BY <1>1, ChainNone DEF Closed
<1>2. CASE s \in State
  BY <1>2, ChainDef, StateAssumption DEF Closed, StateOrNone
<1> QED
  BY <1>1, <1>2 DEF StateOrNone

(* Chain(s) is the least closed set around s.                              *)
LEMMA ChainLeast ==
    ASSUME NEW s \in State, NEW S \in SUBSET State, s \in S, Closed(S)
    PROVE  Chain(s) \subseteq S
BY ChainDef

(* The enumeration visits s, then what it visits from the master of s.     *)
LEMMA ChainStep ==
    ASSUME NEW s \in State
    PROVE  Chain(s) = {s} \cup Chain(master[s])
<1> DEFINE S == {s} \cup Chain(master[s])
<1>1. master[s] \in StateOrNone
  BY StateAssumption
<1>2. S \in SUBSET State
  BY <1>1, ChainIsStates
<1>3. Closed(S)
  BY <1>1, ChainClosed, ChainSelf DEF Closed, StateOrNone
<1>4. Chain(s) \subseteq S
  BY <1>2, <1>3, ChainLeast
<1>5. master[s] # NoState => master[s] \in Chain(s)
  BY ChainSelf, ChainClosed DEF Closed, StateOrNone
<1>6. Chain(master[s]) \subseteq Chain(s)
  BY <1>1, <1>5, ChainNone, ChainLeast, ChainClosed, ChainIsStates DEF StateOrNone
<1> QED
  BY <1>4, <1>6, ChainSelf

-----------------------------------------------------------------------------
(* The control invariant: what the labels, the lock and the locals of the  *)
(* threads say of one another.                                             *)
LEMMA ControlInit == Init => ControlInv
BY StateAssumption
DEF Init, ControlInv, TypeOK, LabelOfMethod, SerialCalls, LockOwner, LocalsAreStates, SetupState, CapturedStateIsCurrent, Idle, Locked, Goto, Label, Method, HandleLabel, EnterLabel, ShutdownLabel, StateOrNone

LEMMA ControlStep ==
    ASSUME SerialSetup, ControlInv, [Next]_vars
    PROVE  ControlInv'
<1> USE StateAssumption DEF ControlInv, TypeOK, LabelOfMethod, SerialCalls, LockOwner, LocalsAreStates, SetupState, CapturedStateIsCurrent, Idle, Locked, Goto, Label, Method, HandleLabel, EnterLabel, ShutdownLabel, StateOrNone, locals
<1>1. ASSUME NEW t \in Thread, NEW s \in Initial, Setup(t, s)
     PROVE  ControlInv'
  BY <1>1 DEF Setup, MayCall, SerialSetup
<1>2. ASSUME NEW t \in Thread, SetCurrentState(t)
     PROVE  ControlInv'
  BY <1>2 DEF SetCurrentState
<1>3. ASSUME NEW t \in Thread, EntrySkipped(t)
     PROVE  ControlInv'
  BY <1>3 DEF EntrySkipped
<1>4. ASSUME NEW t \in Thread, CallEntry(t)
     PROVE  ControlInv'
  BY <1>4 DEF CallEntry
<1>5. ASSUME NEW t \in Thread, Report(t)
     PROVE  ControlInv'
  BY <1>5 DEF Report
<1>6. ASSUME NEW t \in Thread, HandleEvent(t)
     PROVE  ControlInv'
  BY <1>6 DEF HandleEvent, MayCall, SerialSetup
<1>7. ASSUME NEW t \in Thread, Acquire(t)
     PROVE  ControlInv'
  BY <1>7 DEF Acquire
<1>8. ASSUME NEW t \in Thread, PreHandle(t)
     PROVE  ControlInv'
  BY <1>8 DEF PreHandle
<1>9. ASSUME NEW t \in Thread, Ignored(t)
     PROVE  ControlInv'
  BY <1>9 DEF Ignored, Decide
<1>10. ASSUME NEW t \in Thread, CallExit(t)
     PROVE  ControlInv'
  BY <1>10 DEF CallExit, ExitStops
<1>11. ASSUME NEW t \in Thread, ExitDone(t)
     PROVE  ControlInv'
  BY <1>11 DEF ExitDone, ExitStops
<1>12. ASSUME NEW t \in Thread, PostHandle(t)
     PROVE  ControlInv'
  BY <1>12 DEF PostHandle
<1>13. ASSUME NEW t \in Thread, Shutdown(t)
     PROVE  ControlInv'
  BY <1>13 DEF Shutdown, MayCall, SerialSetup
<1>14. ASSUME NEW t \in Thread, CallExitOnShutdown(t)
     PROVE  ControlInv'
  BY <1>14 DEF CallExitOnShutdown
<1>15. ASSUME NEW t \in Thread, CancelContextTimers(t)
     PROVE  ControlInv'
  BY <1>15 DEF CancelContextTimers
<1>16. ASSUME NEW t \in Thread, ClearCurrentState(t)
     PROVE  ControlInv'
  BY <1>16 DEF ClearCurrentState
<1>17. ASSUME NEW t \in Thread, NEW r \in EntryResult, NEW owners \in SUBSET {next[t], Context}, EntryReturn(t, r, owners)
     PROVE  ControlInv'
  BY <1>17 DEF EntryReturn
<1>18. ASSUME NEW t \in Thread, NEW r \in HResult, NEW n \in StateOrNone, StateHandleEvent(t, r, n)
     PROVE  ControlInv'
  BY <1>18 DEF StateHandleEvent, Decide
<1>19. ASSUME NEW t \in Thread, NEW r \in ExitResult, ExitReturn(t, r)
     PROVE  ControlInv'
  <2>1. missed' \subseteq State
    BY <1>19, ChainIsStates DEF ExitReturn
  <2> QED
    BY <1>19, <2>1 DEF ExitReturn
<1>20. ASSUME NEW t \in Thread, NEW r \in ExitResult, ExitReturnOnShutdown(t, r)
     PROVE  ControlInv'
  <2>1. missed' \subseteq State
    BY <1>20, ChainIsStates DEF ExitReturnOnShutdown
  <2> QED
    BY <1>20, <2>1 DEF ExitReturnOnShutdown
<1>21. ASSUME NEW o \in armed, TimersExpire(o)
     PROVE  ControlInv'
  BY <1>21 DEF TimersExpire
<1>22. CASE UNCHANGED vars
  BY <1>22 DEF vars
<1> QED
  BY <1>1, <1>2, <1>3, <1>4, <1>5, <1>6, <1>7, <1>8, <1>9, <1>10, <1>11, <1>12, <1>13, <1>14, <1>15, <1>16, <1>17, <1>18, <1>19, <1>20, <1>21, <1>22 DEF Next, Call, Step

-----------------------------------------------------------------------------
(* What is entered, wherever the threads are.                              *)
LEMMA EnteredInit == Init => EnteredInv
BY ChainNone DEF Init, EnteredInv, OnlyChainEntered, AtRest, Inside

LEMMA EnteredStep ==
    ASSUME SerialSetup, ControlInv, EnteredInv, [Next]_vars
    PROVE  EnteredInv'
<1> USE StateAssumption, ChainNone, ChainStep
<1> USE DEF ControlInv, TypeOK, LabelOfMethod, SerialCalls, LockOwner, LocalsAreStates, SetupState,
        CapturedStateIsCurrent, Locked, EnteredInv, OnlyChainEntered, AtRest, Inside, EnteredAt, Idle, Goto, HandleLabel, EnterLabel, ShutdownLabel, StateOrNone, locals
<1>1. ASSUME NEW t \in Thread, NEW s \in Initial, Setup(t, s)
     PROVE  EnteredInv'
  BY <1>1 DEF Setup, MayCall, SerialSetup
<1>2. ASSUME NEW t \in Thread, SetCurrentState(t)
     PROVE  EnteredInv'
  BY <1>2 DEF SetCurrentState
<1>3. ASSUME NEW t \in Thread, EntrySkipped(t)
     PROVE  EnteredInv'
  BY <1>3 DEF EntrySkipped
<1>4. ASSUME NEW t \in Thread, CallEntry(t)
     PROVE  EnteredInv'
  BY <1>4 DEF CallEntry
<1>5. ASSUME NEW t \in Thread, Report(t)
     PROVE  EnteredInv'
  BY <1>5 DEF Report
<1>6. ASSUME NEW t \in Thread, HandleEvent(t)
     PROVE  EnteredInv'
  BY <1>6 DEF HandleEvent, MayCall, SerialSetup
<1>7. ASSUME NEW t \in Thread, Acquire(t)
     PROVE  EnteredInv'
  BY <1>7 DEF Acquire
<1>8. ASSUME NEW t \in Thread, PreHandle(t)
     PROVE  EnteredInv'
  BY <1>8 DEF PreHandle
<1>9. ASSUME NEW t \in Thread, Ignored(t)
     PROVE  EnteredInv'
  BY <1>9 DEF Ignored, Decide
<1>10. ASSUME NEW t \in Thread, CallExit(t)
     PROVE  EnteredInv'
  BY <1>10 DEF CallExit, ExitStops
<1>11. ASSUME NEW t \in Thread, ExitDone(t)
     PROVE  EnteredInv'
  BY <1>11 DEF ExitDone, ExitStops
<1>12. ASSUME NEW t \in Thread, PostHandle(t)
     PROVE  EnteredInv'
  BY <1>12 DEF PostHandle
<1>13. ASSUME NEW t \in Thread, Shutdown(t)
     PROVE  EnteredInv'
  BY <1>13 DEF Shutdown, MayCall, SerialSetup
<1>14. ASSUME NEW t \in Thread, CallExitOnShutdown(t)
     PROVE  EnteredInv'
  BY <1>14 DEF CallExitOnShutdown
<1>15. ASSUME NEW t \in Thread, CancelContextTimers(t)
     PROVE  EnteredInv'
  BY <1>15 DEF CancelContextTimers
<1>16. ASSUME NEW t \in Thread, ClearCurrentState(t)
     PROVE  EnteredInv'
  BY <1>16 DEF ClearCurrentState
<1>17. ASSUME NEW t \in Thread, NEW r \in EntryResult, NEW owners \in SUBSET {next[t], Context}, EntryReturn(t, r, owners)
     PROVE  EnteredInv'
  BY <1>17 DEF EntryReturn
<1>18. ASSUME NEW t \in Thread, NEW r \in HResult, NEW n \in StateOrNone, StateHandleEvent(t, r, n)
     PROVE  EnteredInv'
  BY <1>18 DEF StateHandleEvent, Decide
<1>19. ASSUME NEW t \in Thread, NEW r \in ExitResult, ExitReturn(t, r)
     PROVE  EnteredInv'
  BY <1>19 DEF ExitReturn
<1>20. ASSUME NEW t \in Thread, NEW r \in ExitResult, ExitReturnOnShutdown(t, r)
     PROVE  EnteredInv'
  BY <1>20 DEF ExitReturnOnShutdown
<1>21. ASSUME NEW o \in armed, TimersExpire(o)
     PROVE  EnteredInv'
  BY <1>21 DEF TimersExpire
<1>22. CASE UNCHANGED vars
  BY <1>22 DEF vars
<1> QED
  BY <1>1, <1>2, <1>3, <1>4, <1>5, <1>6, <1>7, <1>8, <1>9, <1>10, <1>11, <1>12, <1>13, <1>14, <1>15, <1>16, <1>17, <1>18, <1>19, <1>20, <1>21, <1>22 DEF Next, Call, Step

-----------------------------------------------------------------------------
(* Every reachable state of a serial application satisfies ControlInv.     *)
THEOREM ControlInvariant ==
    ASSUME SerialSetup
    PROVE  Spec => []ControlInv
<1>1. Init => ControlInv
  BY ControlInit
<1>2. ControlInv /\ [Next]_vars => ControlInv'
  BY ControlStep
<1> QED
  BY <1>1, <1>2, PTL DEF Spec

(* The variables keep their types: the current state is a state or nullptr,*)
(* only states are ever marked as entered, only states and the context own *)
(* timers.                                                                 *)
THEOREM TypeCorrect ==
    ASSUME SerialSetup
    PROVE  Spec => []TypeOK
BY ControlInvariant, PTL DEF ControlInv

(* handleEvent() never works on a stale current state and never loses a    *)
(* transition of another thread (StateMachine.cpp:122-166).                *)
THEOREM NeverStale ==
    ASSUME SerialSetup
    PROVE  Spec => []CapturedStateIsCurrent
BY ControlInvariant, PTL DEF ControlInv

(* No two threads are in callbacks of the application together.            *)
THEOREM Exclusive ==
    ASSUME SerialSetup
    PROVE  Spec => []CallbacksExclusive
<1>1. ControlInv => CallbacksExclusive
  BY DEF ControlInv, LabelOfMethod, SerialCalls, LockOwner, Locked, Idle, CallbacksExclusive,
         InCallback, HandleLabel, EnterLabel, ShutdownLabel
<1> QED
  BY <1>1, ControlInvariant, PTL

(* Whatever the callbacks return, between calls no state outside the chain *)
(* of the current state is entered, other than the masters of a state      *)
(* whose own exit() ended the enumeration: the exit loop of handleEvent()  *)
(* and the enumeration of shutdownInner() miss none by themselves.         *)
THEOREM NoStrayEntry ==
    ASSUME SerialSetup
    PROVE  Spec => []OnlyChainEntered
<1>1. Init => EnteredInv
  BY EnteredInit
<1>2. ControlInv /\ EnteredInv /\ [Next]_vars => EnteredInv'
  BY EnteredStep
<1>3. EnteredInv => OnlyChainEntered
  BY DEF EnteredInv
<1> QED
  BY <1>1, <1>2, <1>3, ControlInvariant, PTL DEF Spec

-----------------------------------------------------------------------------
(* Exact bookkeeping, for disciplined applications.                        *)

AlwaysExits == ExitResult = {"S_OK"}

(* Where a Disciplined transition from the chain of s may go.              *)
Target(s, n) == n \in Chain(s) \/ master[n] \in Chain(s) \cup {NoState}

(* The exit loop has not yet passed the state at which it must stop.       *)
Stops(t) ==
    /\ next[t] \in Chain(cur[t]) => next[t] \in Chain(walk[t])
    /\ next[t] \notin Chain(cur[t]) =>
          /\ next[t] \notin Chain(walk[t])
          /\ master[next[t]] # NoState => master[next[t]] \in Chain(walk[t])

ConfigurationAt(t) ==
    /\ pc[t] \in {"preHandle", "handle", "post"} => entered = Chain(current)
    /\ pc[t] = "preHandle" => next[t] = NoState /\ walk[t] = cur[t]
    /\ pc[t] = "handle" => /\ walk[t] # NoState => walk[t] \in Chain(cur[t])
                           /\ next[t] # NoState => Target(cur[t], next[t])
    /\ pc[t] = "exit" => entered = Chain(walk[t]) /\ Stops(t)
    /\ pc[t] = "inExit" =>
          /\ entered = Chain(master[walk[t]])
          /\ walk[t] \notin {next[t], master[next[t]]}
          /\ Stops(t)
    /\ pc[t] \in {"setCurrent", "entry"} =>
          \/ entered = Chain(next[t])
          \/ entered = Chain(master[next[t]])
    /\ pc[t] \in {"inEntry", "report"} => entered = Chain(next[t])
    /\ pc[t] = "down" => entered = Chain(walk[t])
    /\ pc[t] = "inDownExit" => entered = Chain(master[walk[t]])
    /\ pc[t] = "clear" => entered = {}

ConfigurationInv ==
    /\ ConfigurationIsChain
    /\ \A t \in Thread : Inside(t) => ConfigurationAt(t)

LEMMA ConfigurationInit == Init => ConfigurationInv
BY ChainNone DEF Init, ConfigurationInv, ConfigurationIsChain, AtRest, Inside

LEMMA ConfigurationStep ==
    ASSUME SerialSetup, AlwaysExits, Disciplined, ControlInv, ConfigurationInv, [Next]_vars
    PROVE  ConfigurationInv'
<1> USE StateAssumption, MasterAcyclic, ChainNone, ChainSelf, ChainStep
<1> USE DEF ControlInv, TypeOK, LabelOfMethod, SerialCalls, LockOwner, LocalsAreStates, SetupState,
        CapturedStateIsCurrent, Locked, ConfigurationInv, ConfigurationIsChain, AtRest, Inside, ConfigurationAt, Target, Idle, Goto, HandleLabel, EnterLabel, ShutdownLabel, StateOrNone, locals
<1>1. ASSUME NEW t \in Thread, NEW s \in Initial, Setup(t, s)
     PROVE  ConfigurationInv'
  BY <1>1 DEF Setup, MayCall, SerialSetup, Disciplined
<1>2. ASSUME NEW t \in Thread, SetCurrentState(t)
     PROVE  ConfigurationInv'
  BY <1>2 DEF SetCurrentState
<1>3. ASSUME NEW t \in Thread, EntrySkipped(t)
     PROVE  ConfigurationInv'
  BY <1>3 DEF EntrySkipped
<1>4. ASSUME NEW t \in Thread, CallEntry(t)
     PROVE  ConfigurationInv'
  BY <1>4 DEF CallEntry
<1>5. ASSUME NEW t \in Thread, Report(t)
     PROVE  ConfigurationInv'
  BY <1>5 DEF Report
<1>6. ASSUME NEW t \in Thread, HandleEvent(t)
     PROVE  ConfigurationInv'
  BY <1>6 DEF HandleEvent, MayCall, SerialSetup, Stops
<1>7. ASSUME NEW t \in Thread, Acquire(t)
     PROVE  ConfigurationInv'
  BY <1>7 DEF Acquire
<1>8. ASSUME NEW t \in Thread, PreHandle(t)
     PROVE  ConfigurationInv'
  BY <1>8 DEF PreHandle
<1>9. ASSUME NEW t \in Thread, Ignored(t)
     PROVE  ConfigurationInv'
  BY <1>9 DEF Ignored, Decide, Stops
<1>10. ASSUME NEW t \in Thread, CallExit(t)
     PROVE  ConfigurationInv'
  BY <1>10 DEF CallExit, ExitStops, Stops
<1>11. ASSUME NEW t \in Thread, ExitDone(t)
     PROVE  ConfigurationInv'
  BY <1>11 DEF ExitDone, ExitStops, Stops
<1>12. ASSUME NEW t \in Thread, PostHandle(t)
     PROVE  ConfigurationInv'
  BY <1>12 DEF PostHandle
<1>13. ASSUME NEW t \in Thread, Shutdown(t)
     PROVE  ConfigurationInv'
  BY <1>13 DEF Shutdown, MayCall, SerialSetup
<1>14. ASSUME NEW t \in Thread, CallExitOnShutdown(t)
     PROVE  ConfigurationInv'
  BY <1>14 DEF CallExitOnShutdown
<1>15. ASSUME NEW t \in Thread, CancelContextTimers(t)
     PROVE  ConfigurationInv'
  BY <1>15 DEF CancelContextTimers
<1>16. ASSUME NEW t \in Thread, ClearCurrentState(t)
     PROVE  ConfigurationInv'
  <2>1. entered = {} /\ op[t] = "shutdown"
    BY <1>16 DEF ClearCurrentState
  <2>2. \A u \in Thread : pc'[u] = "idle"
    BY <1>16, <2>1 DEF ClearCurrentState
  <2>3. entered' = {} /\ current' = NoState
    BY <1>16, <2>1 DEF ClearCurrentState
  <2> QED
    BY <2>2, <2>3
<1>17. ASSUME NEW t \in Thread, NEW r \in EntryResult, NEW owners \in SUBSET {next[t], Context}, EntryReturn(t, r, owners)
     PROVE  ConfigurationInv'
  BY <1>17 DEF EntryReturn
<1>18. ASSUME NEW t \in Thread, NEW r \in HResult, NEW n \in StateOrNone, StateHandleEvent(t, r, n)
     PROVE  ConfigurationInv'
  <2>1. walk[t] \in Chain(cur[t]) /\ walk[t] \in State /\ cur[t] \in State
    BY <1>18 DEF StateHandleEvent
  <2>2. n # NoState => Target(cur[t], n)
    BY <1>18, <2>1 DEF StateHandleEvent, Disciplined
  <2>3. master[walk[t]] # NoState => master[walk[t]] \in Chain(cur[t])
    BY <2>1, ChainClosed DEF Closed
  <2> QED
    BY <1>18, <2>1, <2>2, <2>3 DEF StateHandleEvent, Decide, Stops
<1>19. ASSUME NEW t \in Thread, NEW r \in ExitResult, ExitReturn(t, r)
     PROVE  ConfigurationInv'
  BY <1>19 DEF ExitReturn, AlwaysExits, Stops
<1>20. ASSUME NEW t \in Thread, NEW r \in ExitResult, ExitReturnOnShutdown(t, r)
     PROVE  ConfigurationInv'
  BY <1>20 DEF ExitReturnOnShutdown, AlwaysExits
<1>21. ASSUME NEW o \in armed, TimersExpire(o)
     PROVE  ConfigurationInv'
  BY <1>21 DEF TimersExpire, Stops
<1>22. CASE UNCHANGED vars
  BY <1>22 DEF vars, Stops
<1> QED
  BY <1>1, <1>2, <1>3, <1>4, <1>5, <1>6, <1>7, <1>8, <1>9, <1>10, <1>11, <1>12, <1>13, <1>14, <1>15, <1>16, <1>17, <1>18, <1>19, <1>20, <1>21, <1>22 DEF Next, Call, Step

(* For a disciplined application whose exit() always returns S_OK, the     *)
(* states marked as entered are between calls exactly the current state    *)
(* and its masters, whatever the depth of the hierarchy.                   *)
THEOREM ExactConfiguration ==
    ASSUME SerialSetup, AlwaysExits, Disciplined
    PROVE  Spec => []ConfigurationIsChain
<1>1. Init => ConfigurationInv
  BY ConfigurationInit
<1>2. ControlInv /\ ConfigurationInv /\ [Next]_vars => ConfigurationInv'
  BY ConfigurationStep
<1>3. ConfigurationInv => ConfigurationIsChain
  BY DEF ConfigurationInv
<1> QED
  BY <1>1, <1>2, <1>3, ControlInvariant, PTL DEF Spec

(* Under the same conditions exit() is only ever called on a state whose   *)
(* entry() was called.                                                     *)
THEOREM ExitsArePaired ==
    ASSUME SerialSetup, AlwaysExits, Disciplined
    PROVE  Spec => ExitPairsWithEntry
<1> DEFINE Paired ==
        \A t \in Thread :
            pc[t] # pc'[t] /\ pc'[t] \in {"inExit", "inDownExit"} => walk[t] \in entered
<1>1. ASSUME ControlInv, ConfigurationInv, [Next]_vars
      PROVE  [Paired]_vars
  <2> SUFFICES ASSUME Next, NEW t \in Thread,
                      pc[t] # pc'[t], pc'[t] \in {"inExit", "inDownExit"}
               PROVE  walk[t] \in entered
    BY <1>1
  <2>1. CallExit(t) \/ CallExitOnShutdown(t)
    <3>1. pc \in [Thread -> Label]
      BY <1>1 DEF ControlInv, TypeOK
    <3>2. ASSUME NEW o \in armed, TimersExpire(o)
          PROVE  FALSE
      BY <3>2 DEF TimersExpire
    <3>3. ASSUME NEW u \in Thread, Call(u)
          PROVE  FALSE
      BY <3>1, <3>3 DEF Call, Setup, HandleEvent, Shutdown, Goto
    <3>4. PICK u \in Thread : Step(u)
      BY <3>2, <3>3 DEF Next
    <3>5. CASE CallExit(u) \/ CallExitOnShutdown(u)
      BY <3>1, <3>5 DEF CallExit, CallExitOnShutdown, Goto
    <3>6. CASE SetCurrentState(u) \/ EntrySkipped(u) \/ CallEntry(u) \/ Report(u) \/ Acquire(u) \/ PreHandle(u)
      BY <3>1, <3>6 DEF SetCurrentState, EntrySkipped, CallEntry, Report, Acquire, PreHandle, Goto
    <3>7. ASSUME NEW r \in EntryResult, NEW owners \in SUBSET {next[u], Context}, EntryReturn(u, r, owners)
          PROVE  FALSE
      BY <3>1, <3>7 DEF EntryReturn, Goto
    <3>8. ASSUME NEW r \in HResult, NEW n \in StateOrNone, StateHandleEvent(u, r, n)
          PROVE  FALSE
      BY <3>1, <3>8 DEF StateHandleEvent, Decide, Goto
    <3>9. CASE Ignored(u) \/ ExitDone(u)
      BY <3>1, <3>9 DEF Ignored, Decide, ExitDone, Goto
    <3>10. CASE PostHandle(u) \/ CancelContextTimers(u) \/ ClearCurrentState(u)
      BY <3>1, <3>10 DEF PostHandle, CancelContextTimers, ClearCurrentState, Goto
    <3>11. ASSUME NEW r \in ExitResult, ExitReturn(u, r) \/ ExitReturnOnShutdown(u, r)
           PROVE  FALSE
      BY <3>1, <3>11 DEF ExitReturn, ExitReturnOnShutdown, Goto
    <3> QED
      BY <3>4, <3>5, <3>6, <3>7, <3>8, <3>9, <3>10, <3>11 DEF Step
  <2>2. walk[t] \in State /\ (pc[t] = "exit" \/ pc[t] = "down")
    BY <1>1, <2>1 DEF CallExit, CallExitOnShutdown, ExitStops, ControlInv, TypeOK, StateOrNone
  <2>3. entered = Chain(walk[t])
    BY <1>1, <2>2 DEF ConfigurationInv, ConfigurationAt, Inside
  <2> QED
    BY <2>2, <2>3, ChainSelf
<1>2. Init => ConfigurationInv
  BY ConfigurationInit
<1>3. ControlInv /\ ConfigurationInv /\ [Next]_vars => ConfigurationInv'
  BY ConfigurationStep
<1> QED
  BY <1>1, <1>2, <1>3, ControlInvariant, PTL DEF Spec, ExitPairsWithEntry

-----------------------------------------------------------------------------
(* Event timers.                                                           *)

(* handleEvent() only runs on a context that is set up.                    *)
HandlesAState == \A t \in Thread : ~Idle(t) /\ op[t] = "handleEvent" => current # NoState

(* Who may own a pending timer while s is the current state.               *)
OwnersOf(s) == IF s = NoState THEN {} ELSE Chain(s) \cup {Context}

(* What a thread inside the machine still has to cancel.                   *)
ArmedAt(t) ==
    /\ pc[t] \in {"preHandle", "handle", "post"} => armed \subseteq OwnersOf(current) \cup missed
    /\ pc[t] = "exit" => /\ armed \subseteq Chain(walk[t]) \cup {Context} \cup missed
                         /\ Chain(walk[t]) \subseteq Chain(cur[t])
    /\ pc[t] = "inExit" => /\ armed \subseteq Chain(master[walk[t]]) \cup {Context} \cup missed
                           /\ Chain(master[walk[t]]) \subseteq Chain(cur[t])
    /\ pc[t] \in EnterLabel => armed \subseteq Chain(next[t]) \cup {Context} \cup missed
    /\ pc[t] = "down" => armed \subseteq Chain(walk[t]) \cup {Context} \cup missed
    /\ pc[t] = "inDownExit" => armed \subseteq Chain(master[walk[t]]) \cup {Context} \cup missed
    /\ pc[t] = "clear" => armed \subseteq missed

TimersInv ==
    /\ HandlesAState
    /\ TimersOfCurrentChain
    /\ \A t \in Thread : Inside(t) => ArmedAt(t)

LEMMA TimersInit == Init => TimersInv
BY DEF Init, TimersInv, HandlesAState, Idle, TimersOfCurrentChain, AtRest, Inside

LEMMA TimersStep ==
    ASSUME SerialSetup, ControlInv, TimersInv, [Next]_vars
    PROVE  TimersInv'
<1> USE StateAssumption, ChainNone, ChainStep
<1> USE DEF ControlInv, TypeOK, LabelOfMethod, SerialCalls, LockOwner, LocalsAreStates, SetupState,
        CapturedStateIsCurrent, Locked, TimersInv, TimersOfCurrentChain, OwnersOf, ArmedAt, HandlesAState, AtRest, Inside, Idle, Goto, HandleLabel, EnterLabel, ShutdownLabel, StateOrNone, locals
<1>1. ASSUME NEW t \in Thread, NEW s \in Initial, Setup(t, s)
     PROVE  TimersInv'
  BY <1>1 DEF Setup, MayCall, SerialSetup
<1>2. ASSUME NEW t \in Thread, SetCurrentState(t)
     PROVE  TimersInv'
  BY <1>2 DEF SetCurrentState
<1>3. ASSUME NEW t \in Thread, EntrySkipped(t)
     PROVE  TimersInv'
  BY <1>3 DEF EntrySkipped
<1>4. ASSUME NEW t \in Thread, CallEntry(t)
     PROVE  TimersInv'
  BY <1>4 DEF CallEntry
<1>5. ASSUME NEW t \in Thread, Report(t)
     PROVE  TimersInv'
  BY <1>5 DEF Report
<1>6. ASSUME NEW t \in Thread, HandleEvent(t)
     PROVE  TimersInv'
  BY <1>6 DEF HandleEvent, MayCall, SerialSetup
<1>7. ASSUME NEW t \in Thread, Acquire(t)
     PROVE  TimersInv'
  BY <1>7 DEF Acquire
<1>8. ASSUME NEW t \in Thread, PreHandle(t)
     PROVE  TimersInv'
  BY <1>8 DEF PreHandle
<1>9. ASSUME NEW t \in Thread, Ignored(t)
     PROVE  TimersInv'
  BY <1>9 DEF Ignored, Decide
<1>10. ASSUME NEW t \in Thread, CallExit(t)
     PROVE  TimersInv'
  BY <1>10 DEF CallExit, ExitStops
<1>11. ASSUME NEW t \in Thread, ExitDone(t)
     PROVE  TimersInv'
  BY <1>11 DEF ExitDone, ExitStops
<1>12. ASSUME NEW t \in Thread, PostHandle(t)
     PROVE  TimersInv'
  BY <1>12 DEF PostHandle
<1>13. ASSUME NEW t \in Thread, Shutdown(t)
     PROVE  TimersInv'
  BY <1>13 DEF Shutdown, MayCall, SerialSetup
<1>14. ASSUME NEW t \in Thread, CallExitOnShutdown(t)
     PROVE  TimersInv'
  BY <1>14 DEF CallExitOnShutdown
<1>15. ASSUME NEW t \in Thread, CancelContextTimers(t)
     PROVE  TimersInv'
  BY <1>15 DEF CancelContextTimers
<1>16. ASSUME NEW t \in Thread, ClearCurrentState(t)
     PROVE  TimersInv'
  BY <1>16 DEF ClearCurrentState
<1>17. ASSUME NEW t \in Thread, NEW r \in EntryResult, NEW owners \in SUBSET {next[t], Context}, EntryReturn(t, r, owners)
     PROVE  TimersInv'
  BY <1>17 DEF EntryReturn
<1>18. ASSUME NEW t \in Thread, NEW r \in HResult, NEW n \in StateOrNone, StateHandleEvent(t, r, n)
     PROVE  TimersInv'
  BY <1>18 DEF StateHandleEvent, Decide
<1>19. ASSUME NEW t \in Thread, NEW r \in ExitResult, ExitReturn(t, r)
     PROVE  TimersInv'
  BY <1>19 DEF ExitReturn
<1>20. ASSUME NEW t \in Thread, NEW r \in ExitResult, ExitReturnOnShutdown(t, r)
     PROVE  TimersInv'
  BY <1>20 DEF ExitReturnOnShutdown
<1>21. ASSUME NEW o \in armed, TimersExpire(o)
     PROVE  TimersInv'
  BY <1>21 DEF TimersExpire
<1>22. CASE UNCHANGED vars
  BY <1>22 DEF vars
<1> QED
  BY <1>1, <1>2, <1>3, <1>4, <1>5, <1>6, <1>7, <1>8, <1>9, <1>10, <1>11, <1>12, <1>13, <1>14, <1>15, <1>16, <1>17, <1>18, <1>19, <1>20, <1>21, <1>22 DEF Next, Call, Step

(* Whatever the callbacks return, between calls no event timer is pending  *)
(* on a state that was left, and none at all after shutdown(), not even on *)
(* the context; but for the masters of a state whose own exit() ended the  *)
(* enumeration, callExit() and shutdownInner() miss none.                  *)
THEOREM NoStrayTimer ==
    ASSUME SerialSetup
    PROVE  Spec => []TimersOfCurrentChain
<1>1. Init => TimersInv
  BY TimersInit
<1>2. ControlInv /\ TimersInv /\ [Next]_vars => TimersInv'
  BY TimersStep
<1>3. TimersInv => TimersOfCurrentChain
  BY DEF TimersInv
<1> QED
  BY <1>1, <1>2, <1>3, ControlInvariant, PTL DEF Spec

-----------------------------------------------------------------------------
(* What the monitor has been told.                                         *)

(* A thread inside handleEvent() goes on from the state reported last; a   *)
(* setup() under way has not reported yet.                                 *)
ReportedAt(t) ==
    /\ pc[t] \in {"preHandle", "handle", "exit", "inExit"} => observed \in {NoState, cur[t]}
    /\ pc[t] \in EnterLabel => observed \in {NoState} \cup (IF op[t] = "setup" THEN {} ELSE {cur[t]})
    /\ pc[t] = "post" => observed \in {NoState, current}

ReportsInv ==
    /\ HandlesAState
    /\ AtRest => current = NoState \/ observed \in {NoState, current}
    /\ \A t \in Thread : Inside(t) => ReportedAt(t)

LEMMA ReportsInit == Init => ReportsInv
BY DEF Init, ReportsInv, HandlesAState, Idle, AtRest, Inside

LEMMA ReportsStep ==
    ASSUME SerialSetup, ControlInv, ReportsInv, [Next]_vars
    PROVE  ReportsInv'
<1> USE StateAssumption
<1> USE DEF ControlInv, TypeOK, LabelOfMethod, SerialCalls, LockOwner, LocalsAreStates, SetupState,
        CapturedStateIsCurrent, Locked, ReportsInv, ReportedAt, HandlesAState, AtRest, Inside, Idle, Goto, HandleLabel, EnterLabel, ShutdownLabel, StateOrNone, locals
<1>1. ASSUME NEW t \in Thread, NEW s \in Initial, Setup(t, s)
     PROVE  ReportsInv'
  BY <1>1 DEF Setup, MayCall, SerialSetup
<1>2. ASSUME NEW t \in Thread, SetCurrentState(t)
     PROVE  ReportsInv'
  BY <1>2 DEF SetCurrentState
<1>3. ASSUME NEW t \in Thread, EntrySkipped(t)
     PROVE  ReportsInv'
  BY <1>3 DEF EntrySkipped
<1>4. ASSUME NEW t \in Thread, CallEntry(t)
     PROVE  ReportsInv'
  BY <1>4 DEF CallEntry
<1>5. ASSUME NEW t \in Thread, Report(t)
     PROVE  ReportsInv'
  BY <1>5 DEF Report
<1>6. ASSUME NEW t \in Thread, HandleEvent(t)
     PROVE  ReportsInv'
  BY <1>6 DEF HandleEvent, MayCall, SerialSetup
<1>7. ASSUME NEW t \in Thread, Acquire(t)
     PROVE  ReportsInv'
  BY <1>7 DEF Acquire
<1>8. ASSUME NEW t \in Thread, PreHandle(t)
     PROVE  ReportsInv'
  BY <1>8 DEF PreHandle
<1>9. ASSUME NEW t \in Thread, Ignored(t)
     PROVE  ReportsInv'
  BY <1>9 DEF Ignored, Decide
<1>10. ASSUME NEW t \in Thread, CallExit(t)
     PROVE  ReportsInv'
  BY <1>10 DEF CallExit, ExitStops
<1>11. ASSUME NEW t \in Thread, ExitDone(t)
     PROVE  ReportsInv'
  BY <1>11 DEF ExitDone, ExitStops
<1>12. ASSUME NEW t \in Thread, PostHandle(t)
     PROVE  ReportsInv'
  BY <1>12 DEF PostHandle
<1>13. ASSUME NEW t \in Thread, Shutdown(t)
     PROVE  ReportsInv'
  BY <1>13 DEF Shutdown, MayCall, SerialSetup
<1>14. ASSUME NEW t \in Thread, CallExitOnShutdown(t)
     PROVE  ReportsInv'
  BY <1>14 DEF CallExitOnShutdown
<1>15. ASSUME NEW t \in Thread, CancelContextTimers(t)
     PROVE  ReportsInv'
  BY <1>15 DEF CancelContextTimers
<1>16. ASSUME NEW t \in Thread, ClearCurrentState(t)
     PROVE  ReportsInv'
  BY <1>16 DEF ClearCurrentState
<1>17. ASSUME NEW t \in Thread, NEW r \in EntryResult, NEW owners \in SUBSET {next[t], Context}, EntryReturn(t, r, owners)
     PROVE  ReportsInv'
  BY <1>17 DEF EntryReturn
<1>18. ASSUME NEW t \in Thread, NEW r \in HResult, NEW n \in StateOrNone, StateHandleEvent(t, r, n)
     PROVE  ReportsInv'
  BY <1>18 DEF StateHandleEvent, Decide
<1>19. ASSUME NEW t \in Thread, NEW r \in ExitResult, ExitReturn(t, r)
     PROVE  ReportsInv'
  BY <1>19 DEF ExitReturn
<1>20. ASSUME NEW t \in Thread, NEW r \in ExitResult, ExitReturnOnShutdown(t, r)
     PROVE  ReportsInv'
  BY <1>20 DEF ExitReturnOnShutdown
<1>21. ASSUME NEW o \in armed, TimersExpire(o)
     PROVE  ReportsInv'
  BY <1>21 DEF TimersExpire
<1>22. CASE UNCHANGED vars
  BY <1>22 DEF vars
<1> QED
  BY <1>1, <1>2, <1>3, <1>4, <1>5, <1>6, <1>7, <1>8, <1>9, <1>10, <1>11, <1>12, <1>13, <1>14, <1>15, <1>16, <1>17, <1>18, <1>19, <1>20, <1>21, <1>22 DEF Next, Call, Step

(* Whatever the callbacks return, the transitions that a monitor is told   *)
(* of follow one another: each starts where the last one ended, although   *)
(* the report is made after the current state has changed.                 *)
THEOREM ReportsAreAPath ==
    ASSUME SerialSetup
    PROVE  Spec => ReportsFormPath
<1> DEFINE OnPath ==
        \A t \in Thread : pc[t] = "report" /\ pc'[t] = "post" => observed \in {NoState, cur[t]}
<1>1. ASSUME ControlInv, ReportsInv, [Next]_vars
      PROVE  [OnPath]_vars
  <2> SUFFICES ASSUME Next, NEW t \in Thread, pc[t] = "report", pc'[t] = "post"
               PROVE  observed \in {NoState, cur[t]}
    BY <1>1
  <2> QED
    BY <1>1 DEF ReportsInv, ReportedAt, Inside, EnterLabel
<1>2. Init => ReportsInv
  BY ReportsInit
<1>3. ControlInv /\ ReportsInv /\ [Next]_vars => ReportsInv'
  BY ReportsStep
<1> QED
  BY <1>1, <1>2, <1>3, ControlInvariant, PTL DEF Spec, ReportsFormPath

=============================================================================
