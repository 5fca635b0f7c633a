------------------------------ MODULE ManualTest ------------------------------
(***************************************************************************)
(* StateMachineManualTest: a dialog that lets its user build states and    *)
(* events and watch the machine, which runs on the dialog's own window     *)
(* (WindowProcStateMachine).  What the dialog knows of the machine it is   *)
(* told by a posted WM_STATE_CHANGED, and keeps as plain pointers.         *)
(*                                                                         *)
(* The window retrieves its posted messages before the user's input.  The  *)
(* log is left out, and so is the order of priorities, which is that of    *)
(* EventQueue.                                                             *)
(***************************************************************************)
EXTENDS ReportView, FiniteSets

CONSTANTS
    Object,         \* where MyState objects are
    Name,           \* the names the user types
    InitialName,    \* that of the initial state
    None,
    ContextOwner,   \* TimerType::Context
    EventLimit      \* a bound of the events under way

ASSUME ManualTestAssumption ==
    /\ IsFiniteSet(Object)
    /\ InitialName \in Name /\ "" \notin Name
    /\ None \notin Object \cup {ContextOwner} /\ ContextOwner \notin Object
    /\ EventLimit \in Nat

ASSUME RowsAreCopied

VARIABLES
    object,         \* the name and the master of each object
    current,        \* Context::m_currentState
    queue,          \* the events queued, the next one first
    timers,         \* the events whose timers are set
    posted,         \* the messages posted to the window
    stateList,      \* CEventProperties::stateList
    nextName,       \* the text of the property nextStates
    masterName,     \* the text of the property masterStates
    enabled,        \* masterStates is enabled
    statesView      \* the rows of m_statesView

machine == <<object, current, queue, timers, posted>>
dialog == <<stateList, nextName, masterName, enabled, statesView>>
vars == <<machine, dialog>>

Freed == [name |-> "", master |-> None]
(* An event, by the state it goes to (MyEvent::nextState), the owner of    *)
(* its timer, and whether that has an interval.                            *)
Event == [next : Object \cup {None}, owner : Object \cup {ContextOwner, None},
          periodic : BOOLEAN]

(* No path needs more objects than there are.                             *)
Path == UNION {[1 .. n -> Object] : n \in 0 .. Cardinality(Object)}

(* A state and its masters: each is followed by its master, if it has one. *)
IsChain(obj, o, s) ==
    \A i \in 1 .. Len(s) + 1 :
        (IF i <= Len(s) THEN s[i] ELSE None) = (IF i = 1 THEN o ELSE obj[s[i - 1]].master)

Chain(obj, o) == CHOOSE s \in Path : IsChain(obj, o, s)

(* The objects that the context or an event refers to; the rest is freed.  *)
Alive(obj, cur, events) ==
    UNION {ToSet(Chain(obj, o)) : o \in {cur} \cup {e.next : e \in events}}

Under == ToSet(queue) \cup timers
IsFree(o) == object[o] = Freed

Init ==
    /\ object = [o \in Object |-> Freed]
    /\ current = None
    /\ queue = <<>>
    /\ timers = {}
    /\ posted = <<>>
    /\ stateList = <<>>
    /\ nextName = "" /\ masterName = ""
    /\ enabled = FALSE
    /\ statesView = <<>>

(* The user's input comes when no message is left.                         *)
Input == posted = <<>>

-----------------------------------------------------------------------------
(* CEventProperties.  getOptionPropertyValue(): the first of the listed    *)
(* states whose name is the text.                                          *)
Option(list, text) ==
    LET S == {i \in 1 .. Len(list) : object[list[i]].name = text}
    IN  IF S = {} THEN None ELSE list[CHOOSE i \in S : \A j \in S : i <= j]

(* updateNextStates(): a master is asked for only if the next state is new. *)
MasterIsAsked(list, text) == text # "" /\ list # <<>> /\ Option(list, text) = None

(* After a shutdown the list still points to states that are deleted: the  *)
(* properties may not be touched until the context is set up again.        *)
Usable == current # None \/ stateList = <<>>

(* The user types the name of the next state, or selects it.               *)
SetNextName(text) ==
    /\ Input /\ Usable
    /\ nextName' = text
    /\ enabled' = MasterIsAsked(stateList, text)
    /\ UNCHANGED <<machine, stateList, masterName, statesView>>

SetMasterName(text) ==
    /\ Input /\ Usable
    /\ enabled
    /\ text = "" \/ Option(stateList, text) # None
    /\ masterName' = text
    /\ UNCHANGED <<machine, stateList, nextName, enabled, statesView>>

(* createEvent(): the state the text names, unless it is the current one;  *)
(* otherwise a new state of that name, if there is one.                    *)
Selected == Option(SubSeq(stateList, 2, Len(stateList)), nextName)
CreatesState == Selected = None /\ nextName # ""

Created(o) ==
    IF CreatesState
    THEN [object EXCEPT ![o] = [name |-> nextName, master |-> Option(stateList, masterName)]]
    ELSE object

CreateEvent(e) ==
    /\ Input /\ Usable
    /\ e \notin Under /\ Cardinality(Under) < EventLimit
    /\ e.owner \in {None, ContextOwner, current}
    /\ e.owner = None => ~e.periodic
    /\ IF CreatesState THEN e.next \in Object /\ IsFree(e.next) ELSE e.next = Selected
    /\ nextName' = IF CreatesState THEN "" ELSE nextName
    /\ UNCHANGED <<stateList, masterName, enabled, statesView>>

-----------------------------------------------------------------------------
(* The machine, in the dialog's window.                                    *)

(* The states a transition to n leaves.                                    *)
Left(obj, n) ==
    LET chain == Chain(obj, current)
        stops == {i \in 1 .. Len(chain) : chain[i] \in {n, obj[n].master}}
    IN  IF n = None THEN <<>>
        ELSE IF stops = {} THEN chain
        ELSE SubSeq(chain, 1, (CHOOSE i \in stops : \A j \in stops : i <= j) - 1)

(* handleEvent() of e in memory obj.  It may be ignored, or fail, or end   *)
(* with an error of exit(); exit() of the first states is called, and      *)
(* cancels their timers.  The user lets exit() end the enumeration early   *)
(* only where no state is freed that has a timer.                          *)
HandleEvent(e, obj, others, moved) ==
    \E n \in 0 .. Len(Left(obj, e.next)) :
        LET left == ToSet(SubSeq(Left(obj, e.next), 1, n))
            cur == IF moved THEN e.next ELSE current
            set == {t \in timers : t.owner \notin left}
            alive == Alive(obj, cur, others \cup set)
        IN  /\ moved => e.next # None
            /\ moved /\ n = 0 => Left(obj, e.next) = <<>>
            /\ \A t \in set : t.owner \in alive \cup {ContextOwner}
            /\ current' = cur
            /\ timers' = set
            /\ object' = [o \in Object |-> IF o \in alive THEN obj[o] ELSE Freed]

(* MyContext::onStateChanged().                                            *)
Report(moved) == IF moved THEN <<"StateChanged">> ELSE <<>>

ClickSetup ==
    /\ Input
    /\ current = None
    /\ \E o \in Object :
          /\ IsFree(o)
          /\ object' = [object EXCEPT ![o] = [name |-> InitialName, master |-> None]]
          /\ current' = o
    /\ queue' = <<>>
    /\ posted' = <<"Setup">>
    /\ UNCHANGED <<timers, dialog>>

(* All states are left, which cancels their timers and the context's.      *)
ClickShutdown ==
    /\ Input
    /\ current # None
    /\ current' = None
    /\ timers' = {}
    /\ object' = [o \in Object |-> IF o \in Alive(object, None, ToSet(queue)) THEN object[o] ELSE Freed]
    /\ UNCHANGED <<queue, posted, dialog>>

(* triggerEvent(): a timer is set or the event queued; not set up, the     *)
(* event is released at once.                                              *)
ClickTriggerEvent ==
    \E e \in Event :
        /\ CreateEvent(e)
        /\ IF current = None THEN UNCHANGED machine
           ELSE /\ object' = Created(e.next)
                /\ UNCHANGED current
                /\ IF e.owner # None
                   THEN timers' = timers \cup {e} /\ UNCHANGED <<queue, posted>>
                   ELSE /\ queue' = Append(queue, e)
                        /\ posted' = <<"HandleEvent">>
                        /\ UNCHANGED timers

(* handleEvent(), of an event without a timer.                             *)
ClickHandleEvent ==
    \E e \in Event, moved \in BOOLEAN :
        /\ CreateEvent(e)
        /\ e.owner = None
        /\ IF current = None THEN UNCHANGED machine
           ELSE /\ HandleEvent(e, Created(e.next), ToSet(queue), moved)
                /\ posted' = Report(moved)
                /\ UNCHANGED queue

(* A timer thread calls triggerEvent().  The window keeps up with periodic *)
(* timers, within EventLimit.                                              *)
TimerFires(e) ==
    /\ e \in timers
    /\ Len(queue) < EventLimit /\ Len(posted) < EventLimit
    /\ timers' = IF e.periodic THEN timers ELSE timers \ {e}
    /\ queue' = Append(queue, e)
    /\ posted' = Append(posted, "HandleEvent")
    /\ UNCHANGED <<object, current, dialog>>

-----------------------------------------------------------------------------
(* The window's messages.                                                  *)
Retrieve(msg) == posted # <<>> /\ Head(posted) = msg

(* setupProc().                                                            *)
SetupMessage ==
    /\ Retrieve("Setup")
    /\ posted' = Tail(posted) \o Report(TRUE)
    /\ UNCHANGED <<object, current, queue, timers, dialog>>

(* handleEventProc(): a failed event posts no message for the next.        *)
HandleEventMessage ==
    /\ Retrieve("HandleEvent")
    /\ IF queue = <<>>
       THEN posted' = Tail(posted) /\ UNCHANGED <<object, current, queue, timers>>
       ELSE \E moved \in BOOLEAN, next \in {<<>>, <<"HandleEvent">>} :
                /\ HandleEvent(Head(queue), object, ToSet(Tail(queue)), moved)
                /\ queue' = Tail(queue)
                /\ queue' = <<>> => next = <<>>
                /\ posted' = Tail(posted) \o Report(moved) \o next
    /\ UNCHANGED dialog

StatesColumns == <<"String", "Number", "Bool">>
Row(o) == <<object[o].name, o, object[o].master # None>>

(* A mutant: what the user typed is not looked up in the new list.         *)
StateChangedMessageKeepsEnabled ==
    LET list == Chain(object, current) IN
    /\ Retrieve("StateChanged")
    /\ posted' = Tail(posted)
    /\ stateList' = list
    /\ statesView' = [i \in 1 .. Len(list) |-> AddItems(StatesColumns, Row(list[i]))]
    /\ UNCHANGED <<object, current, queue, timers, nextName, masterName, enabled>>

(* A mutant: the list is not cleared.                                      *)
StateChangedMessageAppends ==
    LET list == Chain(object, current) IN
    /\ Retrieve("StateChanged")
    /\ posted' = Tail(posted)
    /\ stateList' = stateList \o list
    /\ enabled' = MasterIsAsked(list, nextName)
    /\ statesView' = [i \in 1 .. Len(list) |-> AddItems(StatesColumns, Row(list[i]))]
    /\ UNCHANGED <<object, current, queue, timers, nextName, masterName>>

(* updateStates(): the list is read again, and what the user typed is      *)
(* looked up in it.                                                        *)
UpdateStates(list) == stateList' = list /\ enabled' = MasterIsAsked(list, nextName)

(* OnStateChanged().                                                       *)
StateChangedMessage ==
    LET list == Chain(object, current) IN
    /\ Retrieve("StateChanged")
    /\ posted' = Tail(posted)
    /\ UpdateStates(list)
    /\ statesView' = [i \in 1 .. Len(list) |-> AddItems(StatesColumns, Row(list[i]))]
    /\ UNCHANGED <<object, current, queue, timers, nextName, masterName>>

Next ==
    \/ \E text \in Name \cup {""} : SetNextName(text) \/ SetMasterName(text)
    \/ ClickSetup \/ ClickShutdown \/ ClickTriggerEvent \/ ClickHandleEvent
    \/ \E e \in timers : TimerFires(e)
    \/ SetupMessage \/ HandleEventMessage \/ StateChangedMessage

Spec == Init /\ [][Next]_vars

-----------------------------------------------------------------------------
(* When the user looks, the list and the properties show the state the     *)
(* machine is in and its masters, though it may have moved on its own: no  *)
(* click reads a state that is deleted, and what is copied is what is.     *)
ViewIsCurrent ==
    Input /\ current # None =>
        LET chain == Chain(object, current) IN
        /\ stateList = chain
        /\ [i \in 1 .. Len(statesView) |-> Copied(StatesColumns, statesView[i])]
               = [i \in 1 .. Len(chain) |-> Row(chain[i])]

(* The master of a new state can be chosen exactly if createEvent() would  *)
(* make one ("see createEvent() method", EventProperties.cpp:219).         *)
(* The name of the current state is an exception: the list to look it up   *)
(* in is another one there.                                                *)
MasterIsAskedForNewStates ==
    Input /\ current # None /\ nextName \notin {"", object[current].name} =>
        (enabled <=> CreatesState)

=============================================================================
