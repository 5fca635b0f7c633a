------------------------------ MODULE Lifetimes ------------------------------
(***************************************************************************)
(* Who keeps the states and the events alive.  The synchronous machine of  *)
(* StateMachine/StateMachine.cpp, run by one thread, with the reference    *)
(* counts of Unknown.h: which of its pointers own what they point to and   *)
(* which are plain, while callbacks call the machine again (the            *)
(* handleEvent lock is recursive).  Some of the objects belong to a        *)
(* managed object of StateMachine.NET.                                     *)
(***************************************************************************)
EXTENDS Integers, FiniteSets, Sequences

CONSTANTS
    State, Event, None,
    Kind,            \* "native", or whose managed object owns it:
                     \* "autoDispose" or "kept"
    Holdable,        \* the objects the application may hold a CComPtr to
    ExitOnShutdown,  \* the states whose _isExitCalledOnShutdown() is true
    NestFrom,        \* the callbacks that call the machine again
    Depth            \* how deep calls of the machine are nested

Object == State \cup Event
Callback == {"preHandle", "handle", "exit", "entry", "onStateChanged", "postHandle"}

ASSUME LifetimesAssumption ==
    /\ IsFiniteSet(Object)
    /\ None \notin Object /\ State \cap Event = {}
    /\ Kind \in [Object -> {"native", "autoDispose", "kept"}]
    /\ Holdable \subseteq Object
    /\ ExitOnShutdown \subseteq State
    /\ NestFrom \subseteq Callback
    /\ Depth \in Nat

Pending == "none"

VARIABLES
    mem,        \* the objects: see Memory
    current,    \* Context::m_currentState
    entered,    \* the states whose StateHandle::entryCalled is true
    stack,      \* the calls of the machine under way, the last one first
    client,     \* the objects the application has a CComPtr to
    result      \* what the last step returned from a call of the machine

vars == <<mem, current, entered, stack, client, result>>

(* made: the objects constructed; refs: UnknownImpl::m_cRef; released:     *)
(* those a Release() brought to 0; master: State::m_masterState; linked:   *)
(* the objects that their managed object points to.                        *)
Memory == [made : SUBSET Object, refs : [Object -> Nat], released : SUBSET Object,
           master : [State -> State \cup {None}], linked : SUBSET Object]

DeletedIn(m) == {o \in m.released : m.refs[o] = 0}
Deleted == DeletedIn(mem)

Init ==
    /\ mem = [made |-> {}, refs |-> [o \in Object |-> 0], released |-> {},
              master |-> [s \in State |-> None], linked |-> {}]
    /\ current = None
    /\ entered = {}
    /\ stack = <<>>
    /\ client = {}
    /\ result = Pending

-----------------------------------------------------------------------------
(* UnknownImpl::AddRef(); a CComPtr to nullptr does nothing.               *)
AddRef(m, o) == IF o = None THEN m ELSE [m EXCEPT !.refs[o] = @ + 1]

(* native::State::~State() and native::Event::~Event(): the managed object *)
(* goes with the native one.                                               *)
Destroy(m, gone) ==
    [m EXCEPT !.linked = {o \in @ : o \notin gone \/ Kind[o] # "autoDispose"}]

(* What is deleted by a Release() of o: o, if that was its last reference; *)
(* and with a state its master, if it was the state that kept it.          *)
Gone(m, o) ==
    LET last(x) == m.refs[x] = 1
        closed(S) ==
            /\ last(o) => o \in S
            /\ \A s \in S \cap State :
                  m.master[s] # None /\ last(m.master[s]) => m.master[s] \in S
    IN  {x \in Object : \A S \in SUBSET Object : closed(S) => x \in S}

(* UnknownImpl::Release(): at 0 the object is deleted, and with it a       *)
(* state's pointer to its master, which is released in turn.               *)
Release(m, o) ==
    IF o = None THEN m
    ELSE LET gone == Gone(m, o)
             released == {o} \cup {m.master[s] : s \in gone \cap State}
         IN  Destroy([m EXCEPT !.refs = [x \in Object |-> IF x \in released THEN @[x] - 1 ELSE @[x]],
                               !.released = @ \cup gone,
                               !.master = [s \in State |-> IF s \in gone THEN None ELSE @[s]]],
                     gone)

(* A mutant: the native object is not kept for its managed object.         *)
ConstructWithoutAddRef(m, o) ==
    [m EXCEPT !.made = @ \cup {o},
              !.linked = IF Kind[o] = "native" THEN @ ELSE @ \cup {o}]

(* construct() of a managed object: without autoDispose it owns the native *)
(* one.                                                                    *)
Construct(m, o) ==
    LET n == [m EXCEPT !.made = @ \cup {o},
                       !.linked = IF Kind[o] = "native" THEN @ ELSE @ \cup {o}]
    IN  IF Kind[o] = "kept" THEN AddRef(n, o) ELSE n

(* State::State().                                                         *)
ConstructState(m, s, p) == Construct(AddRef([m EXCEPT !.master[s] = p], p), s)

(* Event::Event().                                                         *)
ConstructEvent(m, e) == Construct(m, e)

(* ~State() and ~Event() of a managed object, which is Dispose().          *)
Disposed(m, o) ==
    IF o \notin m.linked THEN m
    ELSE LET n == [m EXCEPT !.linked = @ \ {o}]
         IN  IF Kind[o] = "kept" THEN Release(n, o) ELSE n

-----------------------------------------------------------------------------
(* A call of the machine that has not returned: the callback it is in, or  *)
(* "leaving" between two exit() calls, and the local variables.            *)
Frame == [op : {"setup", "handleEvent", "shutdown"}, at : Callback \cup {"leaving"},
          event : Event \cup {None}, cur : State \cup {None}, next : State \cup {None},
          walk : State \cup {None}, hr : {"S_OK", "E_ABORT"}]

Top == Head(stack)
In(op, at) == stack # <<>> /\ Top.op \in op /\ Top.at = at
AnyOp == {"setup", "handleEvent", "shutdown"}

(* The application runs, and may call the machine.                         *)
MayCall == stack # <<>> => Top.at \in NestFrom /\ Len(stack) < Depth

Call(f) == stack' = <<f>> \o stack /\ result' = Pending
Stay(f) == stack' = <<f>> \o Tail(stack) /\ result' = Pending
Return(hr) == stack' = Tail(stack) /\ result' = hr
Failed(hr) == hr \notin {"S_OK", "S_FALSE"}

(* callEntry() in the frame f: entry() is called once.                     *)
CallEntry(f, s) ==
    IF s \in entered THEN [f EXCEPT !.at = "onStateChanged"] ELSE [f EXCEPT !.at = "entry"]

(* StateMachine::setup().  In passed the new objects are constructed.      *)
Setup(s, e, passed) ==
    LET m == AddRef(AddRef(passed, s), e)
        f == [op |-> "setup", at |-> "entry", event |-> e, cur |-> None, next |-> s,
              walk |-> None, hr |-> "S_OK"]
    IN  IF current # None
        THEN /\ mem' = Release(Release(m, e), s)
             /\ result' = "TSM_E_SETUP_HAS_BEEN_MADE"
             /\ UNCHANGED <<current, entered, stack, client>>
        ELSE /\ mem' = AddRef(m, s)
             /\ current' = s
             /\ Call(CallEntry(f, s))
             /\ entered' = entered \cup {s}
             /\ UNCHANGED client

(* StateMachine::shutdown(): the states are left from the current one up.  *)
Shutdown ==
    /\ Call([op |-> "shutdown", at |-> "leaving", event |-> None, cur |-> None, next |-> None,
             walk |-> current, hr |-> "S_OK"])
    /\ UNCHANGED <<mem, current, entered, client>>

(* StateMachine::triggerEvent() is for asynchronous machines.              *)
TriggerEvent(e, passed) ==
    /\ mem' = Release(AddRef(passed, e), e)
    /\ result' = "TSM_E_NOT_SUPPORTED"
    /\ UNCHANGED <<current, entered, stack, client>>

(* StateMachine::handleEvent(): currentState is a plain pointer.           *)
HandleEvent(e, passed) ==
    IF current = None
    THEN /\ mem' = Release(AddRef(passed, e), e)
         /\ result' = "TSM_E_SETUP_HAS_NOT_BEEN_MADE"
         /\ UNCHANGED <<current, entered, stack, client>>
    ELSE /\ mem' = AddRef(passed, e)
         /\ Call([op |-> "handleEvent", at |-> "preHandle", event |-> e, cur |-> current,
                  next |-> None, walk |-> None, hr |-> "S_OK"])
         /\ UNCHANGED <<current, entered, client>>

PreHandleReturn(hr) ==
    /\ In({"handleEvent"}, "preHandle")
    /\ IF hr = "S_OK"
       THEN /\ Stay([Top EXCEPT !.at = "handle", !.walk = Top.cur])
            /\ UNCHANGED mem
       ELSE Return(hr) /\ mem' = Release(mem, Top.event)
    /\ UNCHANGED <<current, entered, client>>

(* A mutant: the next state is not held until the transition is over.      *)
HandleReturnUnheld(hr, n, m) ==
    /\ In({"handleEvent"}, "handle")
    /\ LET up == mem.master[Top.walk]
           f == [Top EXCEPT !.next = n, !.hr = IF Failed(hr) THEN hr ELSE "S_OK"]
       IN  IF hr = "S_FALSE" /\ up # None
           THEN Stay([f EXCEPT !.walk = up])
           ELSE IF ~Failed(hr) /\ f.next # None
                THEN Stay([f EXCEPT !.at = "leaving", !.walk = Top.cur])
                ELSE Stay([f EXCEPT !.at = "postHandle"])
    /\ mem' = m
    /\ UNCHANGED <<current, entered, client>>

(* IState::_handleEvent() has set n, in memory m.  When the states are     *)
(* asked, _nextState holds it.                                             *)
HandleReturn(hr, n, m) ==
    /\ In({"handleEvent"}, "handle")
    /\ LET up == mem.master[Top.walk]
           f == [Top EXCEPT !.next = IF n = None THEN @ ELSE n,
                            !.hr = IF Failed(hr) THEN hr ELSE "S_OK"]
       IN  IF hr = "S_FALSE" /\ up # None
           THEN Stay([f EXCEPT !.walk = up]) /\ mem' = m
           ELSE /\ mem' = AddRef(m, f.next)
                /\ IF ~Failed(hr) /\ f.next # None
                   THEN Stay([f EXCEPT !.at = "leaving", !.walk = Top.cur])
                   ELSE Stay([f EXCEPT !.at = "postHandle"])
    /\ UNCHANGED <<current, entered, client>>

(* The states that handleEvent() leaves end at the next state or its       *)
(* master.                                                                 *)
LeftAll == Top.walk = None \/ (Top.op = "handleEvent" /\ Top.walk \in {Top.next, mem.master[Top.next]})

(* callExit() of the next state to leave.                                  *)
CallExit ==
    /\ In(AnyOp, "leaving")
    /\ ~LeftAll
    /\ entered' = entered \ {Top.walk}
    /\ IF Top.op = "handleEvent" \/ Top.walk \in ExitOnShutdown
       THEN Stay([Top EXCEPT !.at = "exit"])
       ELSE Stay([Top EXCEPT !.walk = mem.master[Top.walk]])
    /\ UNCHANGED <<mem, current, client>>

(* An error of exit() ends a transition; on shutdown it only ends the      *)
(* enumeration.                                                            *)
ExitReturn(hr) ==
    /\ In(AnyOp, "exit")
    /\ IF Failed(hr) /\ Top.op = "handleEvent"
       THEN Stay([Top EXCEPT !.at = "postHandle", !.hr = hr])
       ELSE Stay([Top EXCEPT !.at = "leaving",
                             !.walk = IF hr = "S_OK" THEN mem.master[Top.walk] ELSE None])
    /\ UNCHANGED <<mem, current, entered, client>>

(* A mutant: the state that was left is not held.                          *)
TransitionUnheld ==
    /\ In({"handleEvent"}, "leaving")
    /\ LeftAll
    /\ mem' = Release(AddRef(mem, Top.next), current)
    /\ current' = Top.next
    /\ Stay(CallEntry(Top, Top.next))
    /\ entered' = entered \cup {Top.next}
    /\ UNCHANGED client

(* All states are left: previousState holds the one the event came in.     *)
Transition ==
    /\ In({"handleEvent"}, "leaving")
    /\ LeftAll
    /\ mem' = Release(AddRef(AddRef(mem, Top.cur), Top.next), current)
    /\ current' = Top.next
    /\ Stay(CallEntry(Top, Top.next))
    /\ entered' = entered \cup {Top.next}
    /\ UNCHANGED client

(* The end of shutdownInner().                                             *)
ClearCurrent ==
    /\ In({"shutdown"}, "leaving")
    /\ LeftAll
    /\ mem' = Release(mem, current)
    /\ current' = None
    /\ Return("S_OK")
    /\ UNCHANGED <<entered, client>>

EntryReturn(hr) ==
    /\ In({"setup", "handleEvent"}, "entry")
    /\ IF Failed(hr) /\ Top.op = "setup"
       THEN /\ mem' = Release(Release(mem, Top.event), Top.next)
            /\ Return(hr)
       ELSE /\ Stay([Top EXCEPT !.at = "onStateChanged", !.hr = IF Failed(hr) THEN hr ELSE "S_OK"])
            /\ UNCHANGED mem
    /\ UNCHANGED <<current, entered, client>>

(* IStateMonitor::onStateChanged() returns.                                *)
OnStateChangedReturn ==
    /\ In({"setup", "handleEvent"}, "onStateChanged")
    /\ IF Top.op = "setup"
       THEN /\ mem' = Release(Release(mem, Top.event), Top.next)
            /\ Return("S_OK")
       ELSE /\ mem' = Release(mem, Top.cur)
            /\ Stay([Top EXCEPT !.at = "postHandle"])
    /\ UNCHANGED <<current, entered, client>>

(* A mutant: the event is not released.                                    *)
PostHandleReturnLeaks(hr) ==
    /\ In({"handleEvent"}, "postHandle")
    /\ mem' = Release(mem, Top.next)
    /\ Return(hr)
    /\ UNCHANGED <<current, entered, client>>

PostHandleReturn(hr) ==
    /\ In({"handleEvent"}, "postHandle")
    /\ mem' = Release(Release(mem, Top.next), Top.event)
    /\ Return(hr)
    /\ UNCHANGED <<current, entered, client>>

-----------------------------------------------------------------------------
(* The application.  It never passes an object that is deleted; one that   *)
(* belongs to a managed object is passed through it.                       *)
Fresh(o) == o \notin mem.made
Usable(o) == o \in mem.made \ Deleted /\ (Kind[o] # "native" => o \in mem.linked)

(* A new object may be passed as soon as it is constructed.                *)
Passed(m, o) ==
    IF o = None \/ o \in m.made THEN m
    ELSE IF o \in State THEN ConstructState(m, o, None) ELSE ConstructEvent(m, o)

CallSetup ==
    /\ MayCall
    /\ \E s \in State, e \in Event \cup {None} :
          /\ Fresh(s) \/ Usable(s)
          /\ e = None \/ Fresh(e) \/ Usable(e)
          /\ Setup(s, e, Passed(Passed(mem, s), e))

(* The application takes a CComPtr to an object, which may be new.         *)
Take(o) ==
    /\ MayCall
    /\ Fresh(o) \/ Usable(o)
    /\ o \in Holdable \ client
    /\ mem' = AddRef(Passed(mem, o), o)
    /\ client' = client \cup {o}
    /\ UNCHANGED <<current, entered, stack>>
    /\ result' = Pending

Drop(o) ==
    /\ MayCall
    /\ o \in client
    /\ mem' = Release(mem, o)
    /\ client' = client \ {o}
    /\ UNCHANGED <<current, entered, stack>>
    /\ result' = Pending

(* The application disposes of a managed object.                           *)
Dispose(o) ==
    /\ MayCall
    /\ o \in mem.linked
    /\ mem' = Disposed(mem, o)
    /\ UNCHANGED <<current, entered, stack, client>>
    /\ result' = Pending

CallHandleEvent ==
    /\ MayCall
    /\ \E e \in Event :
          /\ Fresh(e) \/ Usable(e)
          /\ HandleEvent(e, Passed(mem, e))

CallShutdown == MayCall /\ Shutdown

(* A state's handleEvent() goes to a new sub-state of its own, to a new    *)
(* state beside it, to a state there is, or nowhere; only one that handles *)
(* the event sets the next state.                                          *)
Handle ==
    \/ \E hr \in {"S_OK", "S_FALSE", "E_ABORT"} : HandleReturn(hr, None, mem)
    \/ \E n \in State : Usable(n) /\ HandleReturn("S_OK", n, mem)
    \/ /\ In({"handleEvent"}, "handle")
       /\ \E n \in State, p \in {Top.walk, mem.master[Top.walk]} :
             Fresh(n) /\ HandleReturn("S_OK", n, ConstructState(mem, n, p))

Next ==
    \/ CallSetup \/ CallShutdown \/ CallHandleEvent
    \/ \E o \in Object : Take(o) \/ Drop(o) \/ Dispose(o)
    \/ \E hr \in {"S_OK", "S_FALSE"} : PreHandleReturn(hr)
    \/ Handle
    \/ CallExit \/ Transition \/ ClearCurrent
    \/ \E hr \in {"S_OK", "S_FALSE", "E_ABORT"} : ExitReturn(hr)
    \/ \E hr \in {"S_OK", "E_ABORT"} : EntryReturn(hr)
    \/ OnStateChangedReturn
    \/ PostHandleReturn("S_OK")

Spec == Init /\ [][Next]_vars

-----------------------------------------------------------------------------
Slot == {"event", "next", "cur"}

(* The local variables of a call that own what they point to.              *)
Owning(f) ==
    CASE f.op = "setup" -> {"event", "next"}
      [] f.op = "shutdown" -> {}
      [] f.op = "handleEvent" ->
            {"event"} \cup (IF f.at \in {"preHandle", "handle"} THEN {} ELSE {"next"})
                      \cup (IF f.at \in {"entry", "onStateChanged"} THEN {"cur"} ELSE {})

(* What a call still reads, through pointers that own it or plain ones.    *)
Read(f) ==
    {f[v] : v \in Owning(f)}
    \cup (IF f.at \in {"preHandle", "handle", "exit", "leaving"} THEN {f.cur, f.walk} ELSE {})

(* No call of the machine under way, the ones that a callback of another   *)
(* interrupted included, reads an object that was deleted meanwhile.       *)
NothingDeletedIsRead ==
    \A o \in Deleted : o # current /\ \A i \in 1 .. Len(stack) : o \notin Read(stack[i])

(* The calls under way are counted from the first one on.                  *)
Under(st, i) == st[Len(st) + 1 - i]

(* The local variables, of all calls, that own o.                          *)
Locals(st, o) ==
    {x \in (1 .. Len(st)) \X Slot :
        x[2] \in Owning(Under(st, x[1])) /\ Under(st, x[1])[x[2]] = o}

SubStates(m, o) == {s \in State : m.master[s] = o}

One(p) == IF p THEN 1 ELSE 0

(* Every reference that is counted is owned: by a local variable of a call *)
(* under way, the context, a sub-state, the application, or the managed    *)
(* object that was told to keep it.                                        *)
ReferencesAreOwned ==
    \A o \in Object :
        mem.refs[o] =
            Cardinality(Locals(stack, o)) + Cardinality(SubStates(mem, o))
            + One(current = o) + One(o \in client) + One(Kind[o] = "kept" /\ o \in mem.linked)

(* When the machine is down, only what the application or a managed object *)
(* keeps, and the masters of it, is left.                                  *)
Kept == client \cup {o \in mem.linked : Kind[o] = "kept"}
NothingLeaks ==
    stack = <<>> /\ current = None =>
        \A o \in mem.made \ Deleted :
            \/ o \in Kept
            \/ \E s \in mem.made \ Deleted : s \in State /\ mem.master[s] = o

(* A managed object never points to a native one that is deleted.          *)
ManagedPointsToNative == mem.linked \cap Deleted = {}

=============================================================================
