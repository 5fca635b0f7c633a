--------------------- MODULE WindowProcStateMachineProofs ---------------------
(***************************************************************************)
(* Theorems about WindowProcStateMachine, for any number of threads and    *)
(* events, any priorities, and any room for messages.                      *)
(***************************************************************************)
EXTENDS WindowProcStateMachine, EventQueueProofs, FiniteSetTheorems

-----------------------------------------------------------------------------
(* The inductive invariant, in parts.                                      *)

ArgIsEvent == \A t \in Thread : pc[t] \in {"queueEvent", "post"} => arg[t] \in Event

(* Until entry() is called, the Setup message is ahead of any HandleEvent. *)
SetupAhead ==
    inOrder /\ attached /\ ~entered =>
        \E i \in 1 .. Len(messages) :
            /\ messages[i] = "Setup"
            /\ \A j \in 1 .. i - 1 : messages[j] = "App"

(* There is one Setup message, and none when it has been dispatched.       *)
SetupOnce ==
    inOrder /\ attached =>
        \A i \in 1 .. Len(messages) : messages[i] = "Setup" =>
            /\ ~entered
            /\ \A j \in 1 .. Len(messages) : messages[j] = "Setup" => j = i

Inv ==
    /\ TypeOK
    /\ ArgIsEvent
    /\ SetupAhead
    /\ SetupOnce
    /\ EntryFirst
    /\ ReadyMeansEntered

(* The part of it that is about the messages.                              *)
Ordered == SetupAhead /\ SetupOnce

-----------------------------------------------------------------------------
LEMMA EmptyQueue == <<>> \in Seq(Event) /\ Len(<<>>) = 0 /\ <<>> \in Seq(Message)
OBVIOUS

(* What posting a message does to those that are posted already.           *)
LEMMA PostedProperties ==
    ASSUME messages \in Seq(Message), NEW m \in Message, messages' = Posted(m)
    PROVE  /\ messages' \in Seq(Message)
           /\ Len(messages') \in Nat /\ Len(messages) \in Nat
           /\ Len(messages) <= Len(messages') /\ Len(messages') <= Len(messages) + 1
           /\ \A i \in 1 .. Len(messages) : messages'[i] = messages[i]
           /\ \A i \in 1 .. Len(messages') : i > Len(messages) => messages'[i] = m
           /\ HasRoom => Len(messages') = Len(messages) + 1
<1>1. CASE HasRoom
  <2>1. messages' = Append(messages, m)
    BY <1>1 DEF Posted
  <2> QED
    BY <1>1, <2>1, AppendProperties, LenProperties
<1>2. CASE ~HasRoom
  BY <1>2 DEF Posted
<1> QED
  BY <1>1, <1>2

(* What retrieving one does.                                               *)
LEMMA RetrieveProperties ==
    ASSUME messages \in Seq(Message), NEW m, Retrieve(m)
    PROVE  /\ messages' \in Seq(Message)
           /\ Len(messages) \in Nat \ {0}
           /\ Len(messages') = Len(messages) - 1
           /\ messages[1] = m
           /\ \A i \in 1 .. Len(messages') : messages'[i] = messages[i + 1]
<1>1. messages # <<>> /\ messages' = Tail(messages) /\ Head(messages) = m
  BY DEF Retrieve
<1> QED
  BY <1>1, HeadTailProperties, EmptySeq, LenProperties

(* A message other than Setup, posted behind the others, keeps the order.  *)
LEMMA PostKeepsOrder ==
    ASSUME messages \in Seq(Message), Ordered,
           NEW m \in {"HandleEvent", "App"}, messages' = Posted(m),
           UNCHANGED <<inOrder, attached, entered>>
    PROVE  Ordered'
<1> m \in Message
  BY DEF Message
<1>1. SetupAhead'
  BY PostedProperties DEF Ordered, SetupAhead
<1>2. SetupOnce'
  BY PostedProperties DEF Ordered, SetupOnce
<1> QED
  BY <1>1, <1>2 DEF Ordered

(* So does retrieving one that is not Setup.                               *)
LEMMA RetrieveKeepsOrder ==
    ASSUME messages \in Seq(Message), Ordered, NEW m \in {"HandleEvent", "App"}, Retrieve(m),
           UNCHANGED <<inOrder, attached, entered>>,
           inOrder /\ attached /\ ~entered => m = "App"
    PROVE  Ordered'
<1>1. SetupAhead'
  <2> SUFFICES ASSUME inOrder, attached, ~entered
               PROVE  \E i \in 1 .. Len(messages') :
                          /\ messages'[i] = "Setup"
                          /\ \A j \in 1 .. i - 1 : messages'[j] = "App"
    BY DEF SetupAhead
  <2>1. PICK i \in 1 .. Len(messages) :
            messages[i] = "Setup" /\ \A j \in 1 .. i - 1 : messages[j] = "App"
    BY DEF Ordered, SetupAhead
  <2>2. i # 1 /\ i - 1 \in 1 .. Len(messages')
    BY <2>1, RetrieveProperties
  <2>3. /\ (i - 1) + 1 = i
        /\ \A j \in 1 .. (i - 1) - 1 : j \in 1 .. Len(messages') /\ j + 1 \in 1 .. i - 1
    BY <2>1, <2>2
  <2>4. messages'[i - 1] = "Setup" /\ \A j \in 1 .. (i - 1) - 1 : messages'[j] = "App"
    BY <2>1, <2>2, <2>3, RetrieveProperties
  <2> QED
    BY <2>2, <2>4
<1>2. SetupOnce'
  <2> SUFFICES ASSUME inOrder, attached,
                      NEW i \in 1 .. Len(messages'), messages'[i] = "Setup"
               PROVE  ~entered /\ \A j \in 1 .. Len(messages') : messages'[j] = "Setup" => j = i
    BY DEF SetupOnce
  <2>1. i + 1 \in 1 .. Len(messages) /\ messages[i + 1] = "Setup"
    BY RetrieveProperties
  <2>2. \A j \in 1 .. Len(messages') :
            j + 1 \in 1 .. Len(messages) /\ messages'[j] = messages[j + 1]
    BY RetrieveProperties
  <2>3. ASSUME NEW j \in 1 .. Len(messages'), messages'[j] = "Setup"
        PROVE  j = i
    <3>1. j + 1 = i + 1
      BY <2>1, <2>2, <2>3 DEF Ordered, SetupOnce
    <3> QED
      BY <3>1
  <2> QED
    BY <2>1, <2>3 DEF Ordered, SetupOnce
<1> QED
  BY <1>1, <1>2 DEF Ordered

(* The same messages, or a context that is shut down.                      *)
LEMMA SameOrder ==
    ASSUME Ordered, UNCHANGED <<messages, inOrder>>,
           UNCHANGED <<attached, entered>> \/ ~attached'
    PROVE  Ordered'
BY DEF Ordered, SetupAhead, SetupOnce

LEMMA QueueTypes ==
    ASSUME queue \in Seq(Event), NEW e \in Event
    PROVE  /\ QueueEvent(queue, e) \in Seq(Event)
           /\ queue # <<>> => Back(queue) \in Event /\ PopBack(queue) \in Seq(Event)
<1>1. QueueEvent(queue, e) \in Seq(Event)
  BY QueueEventProperties
<1>2. ASSUME queue # <<>>
      PROVE  Back(queue) \in Event /\ PopBack(queue) \in Seq(Event)
  <2>1. Len(queue) \in Nat \ {0} /\ queue \in [1 .. Len(queue) -> Event]
    BY <1>2, LenProperties, EmptySeq
  <2> QED
    BY <2>1, SubSeqProperties DEF Back, PopBack
<1> QED
  BY <1>1, <1>2

-----------------------------------------------------------------------------
LEMMA InvInit == Init => Inv
<1> SUFFICES ASSUME Init PROVE Inv
  OBVIOUS
<1>2. TypeOK
  BY EmptyQueue, WindowAssumption DEF Init, TypeOK, Place
<1>3. ArgIsEvent /\ SetupAhead /\ SetupOnce /\ EntryFirst /\ ReadyMeansEntered
  BY DEF Init, ArgIsEvent, SetupAhead, SetupOnce, EntryFirst, ReadyMeansEntered
<1> QED
  BY <1>2, <1>3 DEF Inv

LEMMA InvStep ==
    ASSUME Inv, [Next]_vars
    PROVE  Inv'
<1> USE WindowAssumption
<1>0. Ordered
  BY DEF Inv, Ordered
<1> DEFINE Rest == TypeOK /\ ArgIsEvent /\ EntryFirst /\ ReadyMeansEntered
<1>q. ASSUME Rest', Ordered' PROVE Inv'
  BY <1>q DEF Inv, Ordered
<1> HIDE DEF Rest
<1>1. ASSUME Setup PROVE Inv'
  <2>1. /\ messages' = Posted("Setup") /\ "Setup" \in Message /\ messages \in Seq(Message)
        /\ ~entered' /\ ui' = "idle" /\ ~ready'
        /\ inOrder' => HasRoom /\ \A i \in 1 .. Len(messages) : messages[i] = "App"
    BY <1>1 DEF Setup, Inv, TypeOK, Message
  <2>2. Rest'
    BY <1>0, <1>1, <2>1, PostedProperties, EmptyQueue
       DEF Setup, Rest, Inv, TypeOK, ArgIsEvent, EntryFirst, ReadyMeansEntered, calls, Place
  <2>3. SetupAhead'
    <3> SUFFICES ASSUME inOrder'
                 PROVE  \E i \in 1 .. Len(messages') :
                            /\ messages'[i] = "Setup"
                            /\ \A j \in 1 .. i - 1 : messages'[j] = "App"
      BY DEF SetupAhead
    <3>1. /\ Len(messages) \in Nat /\ Len(messages') = Len(messages) + 1
          /\ messages'[Len(messages')] = "Setup"
      BY <2>1, PostedProperties
    <3>2. \A j \in 1 .. Len(messages) : messages'[j] = "App"
      BY <2>1, PostedProperties
    <3> QED
      BY <3>1, <3>2
  <2>4. SetupOnce'
    <3> SUFFICES ASSUME inOrder', NEW i \in 1 .. Len(messages'), messages'[i] = "Setup"
                 PROVE  \A j \in 1 .. Len(messages') : messages'[j] = "Setup" => j = i
      BY <2>1 DEF SetupOnce
    <3>1. /\ Len(messages) \in Nat /\ Len(messages') = Len(messages) + 1
          /\ \A j \in 1 .. Len(messages) : messages'[j] # "Setup"
      BY <2>1, PostedProperties
    <3> QED
      BY <3>1
  <2> QED
    BY <1>q, <2>2, <2>3, <2>4 DEF Ordered
<1>2. ASSUME Shutdown PROVE Inv'
  <2>1. Rest'
    BY <1>2 DEF Shutdown, Rest, Inv, TypeOK, ArgIsEvent, EntryFirst, ReadyMeansEntered, calls, history
  <2>2. Ordered'
    BY <1>0, <1>2, SameOrder DEF Shutdown, history
  <2> QED
    BY <1>q, <2>1, <2>2
<1>3. ASSUME NEW t \in Thread, NEW e \in Event, TriggerEvent(t, e) PROVE Inv'
  <2>1. Rest'
    BY <1>3 DEF TriggerEvent, Rest, Inv, TypeOK, ArgIsEvent, EntryFirst, ReadyMeansEntered, Goto, events, history
  <2>2. Ordered'
    BY <1>0, <1>3, SameOrder DEF TriggerEvent, history
  <2> QED
    BY <1>q, <2>1, <2>2
<1>4. ASSUME NEW t \in Thread, Enqueue(t) PROVE Inv'
  <2>1. queue \in Seq(Event) /\ arg[t] \in Event
    BY <1>4 DEF Enqueue, Inv, TypeOK, ArgIsEvent
  <2>2. QueueEvent(queue, arg[t]) \in Seq(Event)
    BY <2>1, QueueTypes
  <2>3. Rest'
    BY <1>4, <2>2 DEF Enqueue, Rest, Inv, TypeOK, ArgIsEvent, EntryFirst, ReadyMeansEntered, Goto, events, history
  <2>4. Ordered'
    BY <1>0, <1>4, SameOrder DEF Enqueue, history
  <2> QED
    BY <1>q, <2>3, <2>4
<1>5. ASSUME NEW t \in Thread, Post(t) PROVE Inv'
  <2>1. messages \in Seq(Message) /\ (messages' = Posted("HandleEvent") \/ messages' = messages)
    BY <1>5 DEF Post, Inv, TypeOK
  <2>2. messages' \in Seq(Message)
    BY <2>1, PostedProperties DEF Message
  <2>3. lost' \in Nat
    BY <1>0, <1>5 DEF Post, Inv, TypeOK
  <2>4. Rest'
    BY <1>5, <2>2, <2>3 DEF Post, Rest, Inv, TypeOK, ArgIsEvent, EntryFirst, ReadyMeansEntered, Goto, events
  <2>5. Ordered'
    BY <1>0, <1>5, <2>1, SameOrder, PostKeepsOrder DEF Post
  <2> QED
    BY <1>q, <2>4, <2>5
<1>6. ASSUME NEW t \in Thread, WaitReady(t) \/ WaitReadyReturn(t) PROVE Inv'
  <2>1. Rest'
    BY <1>6 DEF WaitReady, WaitReadyReturn, Rest, Inv, TypeOK, ArgIsEvent, EntryFirst,
       ReadyMeansEntered, Goto, events, history
  <2>2. Ordered'
    BY <1>0, <1>6, SameOrder DEF WaitReady, WaitReadyReturn, history
  <2> QED
    BY <1>q, <2>1, <2>2
<1>7. ASSUME PostAppMessage PROVE Inv'
  <2>1. messages \in Seq(Message) /\ messages' = Posted("App") /\ "App" \in Message
    BY <1>7 DEF PostAppMessage, Posted, Inv, TypeOK, Message
  <2>2. messages' \in Seq(Message)
    BY <2>1, PostedProperties
  <2>3. Rest'
    BY <1>7, <2>2 DEF PostAppMessage, Rest, Inv, TypeOK, ArgIsEvent, EntryFirst, ReadyMeansEntered,
       events, calls, history
  <2>4. Ordered'
    BY <1>0, <1>7, <2>1, PostKeepsOrder DEF PostAppMessage, history
  <2> QED
    BY <1>q, <2>3, <2>4
<1>8. ASSUME AppWndProc PROVE Inv'
  <2>1. PICK m \in Message : Retrieve(m) /\ (m = "App" \/ ~attached)
    BY <1>8 DEF AppWndProc
  <2>2. messages' \in Seq(Message)
    BY <2>1, RetrieveProperties DEF Inv, TypeOK
  <2>3. Rest'
    BY <1>8, <2>2 DEF AppWndProc, Rest, Inv, TypeOK, ArgIsEvent, EntryFirst, ReadyMeansEntered,
       events, calls, history
  <2>4. Ordered'
    <3>1. CASE m = "App"
      BY <1>0, <1>8, <2>1, <3>1, RetrieveKeepsOrder DEF AppWndProc, history, Inv, TypeOK
    <3>2. CASE ~attached
      BY <1>8, <3>2 DEF AppWndProc, Ordered, SetupAhead, SetupOnce
    <3> QED
      BY <2>1, <3>1, <3>2
  <2> QED
    BY <1>q, <2>3, <2>4
<1>9. ASSUME SetupProc PROVE Inv'
  <2>1. messages \in Seq(Message) /\ Retrieve("Setup") /\ attached /\ ~entered /\ entered'
    BY <1>9 DEF SetupProc, Inv, TypeOK
  <2>2. messages' \in Seq(Message)
    BY <2>1, RetrieveProperties
  <2>3. Rest'
    BY <1>9, <2>2 DEF SetupProc, Rest, Inv, TypeOK, ArgIsEvent, EntryFirst, ReadyMeansEntered,
       events, calls, history, Place
  <2>4. SetupAhead'
    BY <2>1 DEF SetupAhead
  <2>5. SetupOnce'
    <3> SUFFICES ASSUME inOrder, NEW i \in 1 .. Len(messages'), messages'[i] = "Setup"
                 PROVE  FALSE
      BY <1>9 DEF SetupOnce, SetupProc, history
    <3>1. /\ messages[1] = "Setup" /\ 1 \in 1 .. Len(messages)
          /\ i + 1 \in 1 .. Len(messages) /\ messages[i + 1] = "Setup" /\ i + 1 # 1
      BY <2>1, RetrieveProperties
    <3> QED
      BY <1>0, <2>1, <3>1 DEF Ordered, SetupOnce
  <2> QED
    BY <1>q, <2>3, <2>4, <2>5 DEF Ordered
<1>10. ASSUME SetupProcAgain PROVE Inv'
  <2>1. messages \in Seq(Message) /\ Retrieve("Setup") /\ attached /\ entered
    BY <1>10 DEF SetupProcAgain, Inv, TypeOK
  <2>2. messages' \in Seq(Message) /\ messages[1] = "Setup" /\ 1 \in 1 .. Len(messages)
    BY <2>1, RetrieveProperties
  <2>3. ~inOrder
    BY <1>0, <2>1, <2>2 DEF Ordered, SetupOnce
  <2>4. Rest'
    BY <1>10, <2>2, <2>3 DEF SetupProcAgain, Rest, Inv, TypeOK, ArgIsEvent, EntryFirst,
       ReadyMeansEntered, events, calls, history
  <2>5. Ordered'
    BY <1>10, <2>3 DEF SetupProcAgain, Ordered, SetupAhead, SetupOnce, history
  <2> QED
    BY <1>q, <2>4, <2>5
<1>11. ASSUME NEW r \in Result, EntryReturn(r) PROVE Inv'
  <2>1. Rest'
    BY <1>11 DEF EntryReturn, Rest, Inv, TypeOK, ArgIsEvent, EntryFirst, ReadyMeansEntered, calls, Place
  <2>2. Ordered'
    BY <1>0, <1>11, SameOrder DEF EntryReturn
  <2> QED
    BY <1>q, <2>1, <2>2
<1>12. ASSUME HandleEventProc PROVE Inv'
  <2>1. /\ messages \in Seq(Message) /\ queue \in Seq(Event) /\ Retrieve("HandleEvent") /\ attached
        /\ UNCHANGED <<attached, inOrder, entered>>
    BY <1>12 DEF HandleEventProc, Inv, TypeOK
  <2>2. /\ messages' \in Seq(Message) /\ messages[1] = "HandleEvent" /\ 1 \in 1 .. Len(messages)
        /\ Len(messages) \in Nat
    BY <2>1, RetrieveProperties
  <2>3. inOrder => entered
    <3> SUFFICES ASSUME inOrder, ~entered PROVE FALSE
      OBVIOUS
    <3>1. PICK i \in 1 .. Len(messages) :
              messages[i] = "Setup" /\ \A j \in 1 .. i - 1 : messages[j] = "App"
      BY <1>0, <2>1 DEF Ordered, SetupAhead
    <3>2. i # 1 /\ 1 \in 1 .. i - 1
      BY <2>2, <3>1
    <3> QED
      BY <2>2, <3>1, <3>2
  <2>4. queue' \in Seq(Event) /\ inHand' \in Event \cup {NoEvent} /\ ui' \in Place
        /\ lost' \in Nat
    <3>1. CASE queue = <<>>
      BY <1>12, <3>1 DEF HandleEventProc, Inv, TypeOK, Place
    <3>2. CASE queue # <<>>
      <4>1. Back(queue) \in Event /\ PopBack(queue) \in Seq(Event)
        <5>1. Len(queue) \in Nat \ {0} /\ queue \in [1 .. Len(queue) -> Event]
          BY <2>1, <3>2, LenProperties, EmptySeq
        <5> QED
          BY <2>1, <5>1, SubSeqProperties DEF Back, PopBack
      <4> QED
        BY <1>0, <1>12, <3>2, <4>1 DEF HandleEventProc, Inv, TypeOK, Place
    <3> QED
      BY <3>1, <3>2
  <2>5. Rest'
    BY <1>12, <2>1, <2>2, <2>3, <2>4 DEF HandleEventProc, Rest, Inv, TypeOK, ArgIsEvent, EntryFirst,
       ReadyMeansEntered, events, calls
  <2>6. Ordered'
    BY <1>0, <2>1, <2>3, RetrieveKeepsOrder
  <2> QED
    BY <1>q, <2>5, <2>6
<1>13. ASSUME NEW r \in Result, HandleReturn(r) PROVE Inv'
  <2>1. Rest'
    BY <1>13 DEF HandleReturn, Rest, Inv, TypeOK, ArgIsEvent, EntryFirst, ReadyMeansEntered,
       events, calls, history, Place
  <2>2. Ordered'
    BY <1>0, <1>13, SameOrder DEF HandleReturn, history
  <2> QED
    BY <1>q, <2>1, <2>2
<1>14. ASSUME Repost PROVE Inv'
  <2>1. messages \in Seq(Message) /\ (messages' = Posted("HandleEvent") \/ messages' = messages)
    BY <1>14 DEF Repost, Inv, TypeOK
  <2>2. messages' \in Seq(Message)
    BY <2>1, PostedProperties DEF Message
  <2>3. Rest'
    BY <1>14, <2>2 DEF Repost, Rest, Inv, TypeOK, ArgIsEvent, EntryFirst, ReadyMeansEntered,
       events, calls, history, Place
  <2>4. Ordered'
    BY <1>0, <1>14, <2>1, SameOrder, PostKeepsOrder DEF Repost, history
  <2> QED
    BY <1>q, <2>3, <2>4
<1>15. ASSUME DirectHandleEvent \/ DirectReturn PROVE Inv'
  <2>1. Rest'
    BY <1>15 DEF DirectHandleEvent, DirectReturn, Rest, Inv, TypeOK, ArgIsEvent, EntryFirst,
       ReadyMeansEntered, events, calls, history, Place
  <2>2. Ordered'
    BY <1>0, <1>15, SameOrder DEF DirectHandleEvent, DirectReturn, history
  <2> QED
    BY <1>q, <2>1, <2>2
<1>16. CASE UNCHANGED vars
  <2>1. Rest'
    BY <1>16 DEF vars, Rest, Inv, TypeOK, ArgIsEvent, EntryFirst, ReadyMeansEntered, events, calls, history
  <2>2. Ordered'
    BY <1>0, <1>16, SameOrder DEF vars, history
  <2> QED
    BY <1>q, <2>1, <2>2
<1> QED
  BY <1>1, <1>2, <1>3, <1>4, <1>5, <1>6, <1>7, <1>8, <1>9, <1>10, <1>11, <1>12, <1>13, <1>14,
     <1>15, <1>16 DEF Next, Call, Step, Dispatch, Proceed

-----------------------------------------------------------------------------
(* Every reachable state satisfies the inductive invariant.                *)
THEOREM WindowInvariant == Spec => []Inv
<1>1. Init => Inv
  BY InvInit
<1>2. Inv /\ [Next]_vars => Inv'
  BY InvStep
<1> QED
  BY <1>1, <1>2, PTL DEF Spec

(* The variables of the window's machine keep their types.                 *)
THEOREM WindowTypeCorrect == Spec => []TypeOK
<1>1. Inv => TypeOK
  BY DEF Inv
<1> QED
  BY <1>1, WindowInvariant, PTL

(* setup() posts its message before any triggerEvent() can post one, and   *)
(* the window retrieves messages in the order of their posting: entry() of *)
(* the initial state precedes the first event that is handled.             *)
THEOREM EntryComesFirst == Spec => []EntryFirst
<1>1. Inv => EntryFirst
  BY DEF Inv
<1> QED
  BY <1>1, WindowInvariant, PTL

(* waitReady() reports a setup whose entry() has succeeded: no second      *)
(* Setup message sets hEventReady after an entry() that failed.            *)
THEOREM WindowReadyIsTrusted == Spec => []ReadyMeansEntered
<1>1. Inv => ReadyMeansEntered
  BY DEF Inv
<1> QED
  BY <1>1, WindowInvariant, PTL

-----------------------------------------------------------------------------
(* No event is queued, or about to be, twice, and an event is in hand      *)
(* exactly while the window procedure handles it.                          *)
NotTwice ==
    /\ Distinct(queue)
    /\ \A t \in Thread : pc[t] = "queueEvent" =>
          /\ arg[t] \notin ToSet(queue)
          /\ \A u \in Thread : pc[u] = "queueEvent" /\ arg[u] = arg[t] => u = t
    /\ (ui = "handle") <=> (inHand # NoEvent)

LEMMA EmptyIsDistinct == Distinct(<<>>) /\ ToSet(<<>>) = {} /\ Older(<<>>) = {} /\ Ascending(<<>>)
BY EmptyQueue DEF Distinct, ToSet, Older, Ascending

(* What the steps do to the queue and to the event in hand.                *)
LEMMA QueueSteps ==
    ASSUME Next
    PROVE  \/ UNCHANGED <<queue, inHand>>
           \/ Setup
           \/ \E t \in Thread : Enqueue(t)
           \/ HandleEventProc /\ queue # <<>>
           \/ \E r \in Result : HandleReturn(r)
BY DEF Next, Call, Step, Dispatch, Proceed, Shutdown, TriggerEvent, Post, WaitReady,
   WaitReadyReturn, PostAppMessage, AppWndProc, SetupProc, SetupProcAgain, EntryReturn,
   HandleEventProc, Repost, DirectHandleEvent, DirectReturn

LEMMA NotTwiceStep ==
    ASSUME Inv, NotTwice, [Next]_vars
    PROVE  NotTwice'
<1> DEFINE InHand == (ui = "handle") <=> (inHand # NoEvent)
<1> USE WindowAssumption
<1>t. /\ queue \in Seq(Event) /\ arg \in [Thread -> Event \cup {NoEvent}]
      /\ pc \in [Thread -> {"idle", "queueEvent", "post", "waitReady"}] /\ ArgIsEvent
  BY DEF Inv, TypeOK
<1>1. CASE /\ UNCHANGED <<queue, arg>>
           /\ \A t \in Thread : pc'[t] = "queueEvent" => pc[t] = "queueEvent"
           /\ InHand'
  BY <1>1 DEF NotTwice
<1>2. ASSUME NEW t \in Thread, NEW e \in Event, TriggerEvent(t, e)
      PROVE  NotTwice'
  <2>1. /\ \A i \in 1 .. Len(queue) : queue[i] # e
        /\ \A u \in Thread : pc[u] = "queueEvent" => arg[u] # e
        /\ arg' = [arg EXCEPT ![t] = e] /\ pc' = [pc EXCEPT ![t] = "queueEvent"]
        /\ UNCHANGED <<queue, ui, inHand>>
    BY <1>2 DEF TriggerEvent, Goto
  <2>2. e \notin ToSet(queue)
    BY <1>t, <2>1 DEF ToSet
  <2> QED
    BY <1>t, <2>1, <2>2 DEF NotTwice
<1>3. ASSUME Setup PROVE NotTwice'
  <2>1. queue' = <<>> /\ UNCHANGED <<pc, arg, ui, inHand>> /\ \A t \in Thread : pc[t] = "idle"
    BY <1>3 DEF Setup, calls
  <2> QED
    BY <2>1, EmptyIsDistinct DEF NotTwice
<1>4. ASSUME NEW t \in Thread, Enqueue(t) PROVE NotTwice'
  <2>1. /\ pc[t] = "queueEvent" /\ pc' = [pc EXCEPT ![t] = "post"]
        /\ queue' = QueueEvent(queue, arg[t]) /\ UNCHANGED <<arg, ui, inHand>>
    BY <1>4 DEF Enqueue, Goto
  <2>2. arg[t] \in Event /\ arg[t] \notin ToSet(queue) /\ Distinct(queue)
    BY <1>t, <2>1 DEF ArgIsEvent, NotTwice
  <2>3. ToSet(queue') = ToSet(queue) \cup {arg[t]} /\ Distinct(queue')
    BY <1>t, <2>1, <2>2, QueueEventSet
  <2> QED
    BY <1>t, <2>1, <2>3 DEF NotTwice
<1>5. ASSUME HandleEventProc, queue # <<>> PROVE NotTwice'
  <2>1. /\ inHand' = Back(queue) /\ queue' = PopBack(queue) /\ ui' = "handle"
        /\ UNCHANGED <<pc, arg>>
    BY <1>5 DEF HandleEventProc, calls
  <2>2. Back(queue) \in Event /\ ToSet(queue') \subseteq ToSet(queue) /\ Distinct(queue')
    BY <1>t, <1>5, <2>1, PopBackProperties, PopBackSet DEF NotTwice
  <2> QED
    BY <2>1, <2>2 DEF NotTwice
<1>6. ASSUME NEW t \in Thread, Post(t) \/ WaitReady(t) \/ WaitReadyReturn(t) PROVE NotTwice'
  <2>1. /\ UNCHANGED <<queue, arg, ui, inHand>>
        /\ \E label \in {"idle", "waitReady"} : pc' = [pc EXCEPT ![t] = label]
    BY <1>6 DEF Post, WaitReady, WaitReadyReturn, Goto
  <2>2. \A u \in Thread : pc'[u] = "queueEvent" => pc[u] = "queueEvent"
    BY <1>t, <2>1
  <2> QED
    BY <1>1, <2>1, <2>2 DEF NotTwice
<1>7. ASSUME NEW r \in Result, EntryReturn(r) \/ HandleReturn(r) PROVE NotTwice'
  BY <1>1, <1>7 DEF EntryReturn, HandleReturn, calls, NotTwice
<1>8. ASSUME \/ Shutdown \/ PostAppMessage \/ AppWndProc \/ SetupProcAgain \/ SetupProc
             \/ (HandleEventProc /\ queue = <<>>)
      PROVE  NotTwice'
  BY <1>1, <1>8 DEF Shutdown, PostAppMessage, AppWndProc, SetupProcAgain, SetupProc, Retrieve,
     HandleEventProc, calls, NotTwice
<1>9. ASSUME Repost \/ DirectHandleEvent \/ DirectReturn PROVE NotTwice'
  BY <1>1, <1>9 DEF Repost, DirectHandleEvent, DirectReturn, calls, NotTwice
<1>10. CASE UNCHANGED vars
  BY <1>1, <1>10 DEF vars, calls, NotTwice
<1> QED
  BY <1>2, <1>3, <1>4, <1>5, <1>6, <1>7, <1>8, <1>9, <1>10 DEF Next, Call, Step, Dispatch, Proceed

-----------------------------------------------------------------------------
(* Counting the messages and the events.                                   *)
LEMMA CountsAreNaturals ==
    ASSUME TypeOK
    PROVE  /\ IsFiniteSet(HandleMessages) /\ Cardinality(HandleMessages) \in Nat
           /\ IsFiniteSet(Posting) /\ Cardinality(Posting) \in Nat
<1>1. Len(messages) \in Nat /\ IsFiniteSet(1 .. Len(messages))
  BY FS_Interval DEF TypeOK
<1>2. HandleMessages \in SUBSET (1 .. Len(messages)) /\ Posting \in SUBSET Thread
  BY DEF HandleMessages, Posting
<1>3. IsFiniteSet(HandleMessages) /\ IsFiniteSet(Posting)
  BY <1>1, <1>2, WindowAssumption, FS_Subset
<1> QED
  BY <1>3, FS_CardinalityType

(* No event is queued twice, so that there are not more than all.          *)
LEMMA QueueIsBounded ==
    ASSUME queue \in Seq(Event), Distinct(queue)
    PROVE  Len(queue) \in Nat /\ Cardinality(Event) \in Nat /\ Len(queue) <= Cardinality(Event)
<1>1. Len(queue) \in Nat /\ queue \in [1 .. Len(queue) -> Event]
  OBVIOUS
<1>2. queue \in Injection(1 .. Len(queue), Event)
  BY <1>1 DEF Injection, IsInjective, Distinct
<1>3. Cardinality(1 .. Len(queue)) <= Cardinality(Event)
  BY <1>2, WindowAssumption, FS_Injection
<1>4. Cardinality(1 .. Len(queue)) = Len(queue)
  BY <1>1, FS_Interval
<1> QED
  BY <1>1, <1>3, <1>4, WindowAssumption, FS_CardinalityType

(* Posting a message keeps those that are there.                           *)
LEMMA PostedCount ==
    ASSUME TypeOK, NEW m \in Message, messages' = Posted(m)
    PROVE  /\ Cardinality(HandleMessages)' \in Nat
           /\ Cardinality(HandleMessages)' >= Cardinality(HandleMessages)
           /\ m = "HandleEvent" /\ HasRoom =>
                 Cardinality(HandleMessages)' = Cardinality(HandleMessages) + 1
<1>1. /\ Len(messages') \in Nat /\ Len(messages) \in Nat /\ Len(messages) <= Len(messages')
      /\ Len(messages') <= Len(messages) + 1
      /\ \A i \in 1 .. Len(messages) : messages'[i] = messages[i]
      /\ \A i \in 1 .. Len(messages') : i > Len(messages) => messages'[i] = m
      /\ HasRoom => Len(messages') = Len(messages) + 1
  BY PostedProperties DEF TypeOK
<1>2. IsFiniteSet(1 .. Len(messages')) /\ HandleMessages' \in SUBSET (1 .. Len(messages'))
  BY <1>1, FS_Interval DEF HandleMessages
<1>3. IsFiniteSet(HandleMessages') /\ Cardinality(HandleMessages') \in Nat
  BY <1>2, FS_Subset, FS_CardinalityType
<1>4. HandleMessages \in SUBSET HandleMessages'
  BY <1>1 DEF HandleMessages
<1>5. Cardinality(HandleMessages) <= Cardinality(HandleMessages')
  BY <1>3, <1>4, FS_Subset
<1>6. ASSUME m = "HandleEvent", HasRoom
      PROVE  Cardinality(HandleMessages') = Cardinality(HandleMessages) + 1
  <2> DEFINE n == Len(messages) + 1
  <2>1. HandleMessages' = HandleMessages \cup {n} /\ n \notin HandleMessages
    BY <1>1, <1>6 DEF HandleMessages
  <2> QED
    BY <2>1, CountsAreNaturals, FS_AddElement
<1> QED
  BY <1>3, <1>5, <1>6, CountsAreNaturals

(* Retrieving one takes no other away.                                     *)
LEMMA RetrieveCount ==
    ASSUME TypeOK, NEW m, Retrieve(m)
    PROVE  /\ Cardinality(HandleMessages)' \in Nat
           /\ Cardinality(HandleMessages)' + 1 >= Cardinality(HandleMessages)
           /\ m # "HandleEvent" => Cardinality(HandleMessages)' >= Cardinality(HandleMessages)
<1>1. /\ messages' \in Seq(Message) /\ Len(messages) \in Nat \ {0}
      /\ Len(messages') = Len(messages) - 1 /\ messages[1] = m
      /\ \A i \in 1 .. Len(messages') : messages'[i] = messages[i + 1]
  BY RetrieveProperties DEF TypeOK
<1>0. Len(messages') \in Int /\ 1 \in Int
  BY <1>1
<1>2. IsFiniteSet(1 .. Len(messages')) /\ HandleMessages' \in SUBSET (1 .. Len(messages'))
  BY <1>0, FS_Interval DEF HandleMessages
<1>3. IsFiniteSet(HandleMessages') /\ Cardinality(HandleMessages') \in Nat
  BY <1>2, FS_Subset, FS_CardinalityType
<1> DEFINE Rest == HandleMessages \ {1}
           f == [i \in Rest |-> i - 1]
<1>4. \A i \in Rest : i \in Nat /\ i - 1 \in HandleMessages'
  <2> SUFFICES ASSUME NEW i \in Rest PROVE i \in Nat /\ i - 1 \in HandleMessages'
    OBVIOUS
  <2>1. i \in 1 .. Len(messages) /\ i # 1 /\ messages[i] = "HandleEvent"
    BY DEF HandleMessages
  <2>2. i - 1 \in 1 .. Len(messages') /\ (i - 1) + 1 = i
    BY <1>1, <2>1
  <2> QED
    BY <1>1, <2>1, <2>2 DEF HandleMessages
<1>5. f \in Injection(Rest, HandleMessages')
  <2>1. f \in [Rest -> HandleMessages']
    BY <1>4
  <2>2. \A i, j \in Rest : f[i] = f[j] => i = j
    BY <1>4
  <2> QED
    BY <2>1, <2>2 DEF Injection, IsInjective
<1>6. Cardinality(Rest) <= Cardinality(HandleMessages')
  BY <1>3, <1>5, FS_Injection
<1>7. /\ 1 \in HandleMessages => Cardinality(Rest) = Cardinality(HandleMessages) - 1
      /\ 1 \notin HandleMessages => Cardinality(Rest) = Cardinality(HandleMessages)
  BY CountsAreNaturals, FS_RemoveElement
<1>8. m # "HandleEvent" => 1 \notin HandleMessages
  BY <1>1 DEF HandleMessages
<1> QED
  BY <1>3, <1>6, <1>7, <1>8, CountsAreNaturals

-----------------------------------------------------------------------------
(* Each step that adds an event to the queue adds a call that is about to  *)
(* post, and a message is given up only with an event, or with a failure.  *)
LEMMA QueuedStep ==
    ASSUME Inv, NotTwice, QueuedHasMessage, [Next]_vars
    PROVE  QueuedHasMessage'
<1> DEFINE Count == Cardinality(HandleMessages)
           Posters == Cardinality(Posting)
<1> USE WindowAssumption
<1>t. /\ TypeOK /\ messages \in Seq(Message) /\ queue \in Seq(Event) /\ lost \in Nat
      /\ pc \in [Thread -> {"idle", "queueEvent", "post", "waitReady"}] /\ attached \in BOOLEAN
  BY DEF Inv, TypeOK
<1>n. /\ IsFiniteSet(Posting) /\ Posters \in Nat /\ Count \in Nat /\ Len(queue) \in Nat
  BY <1>t, CountsAreNaturals, LenProperties
<1>b. Len(queue) <= Cardinality(Event) /\ Cardinality(Event) \in Nat
  BY <1>t, QueueIsBounded DEF NotTwice
<1>m. {"Setup", "HandleEvent", "App"} \subseteq Message
  BY DEF Message
<1>s. ASSUME UNCHANGED <<attached, queue, lost>>, Posting' = Posting,
             Count' \in Nat, Count' >= Count
      PROVE  QueuedHasMessage'
  BY <1>s, <1>n, <1>t DEF QueuedHasMessage
<1>k. ASSUME UNCHANGED messages PROVE Count' = Count
  BY <1>k DEF HandleMessages
<1>i. \A t \in Thread, label \in {"idle", "queueEvent", "waitReady"} :
          pc' = [pc EXCEPT ![t] = label] => Posting' = Posting \ {t}
  BY <1>t DEF Posting
<1> HIDE DEF Count, Posters
<1>1. ASSUME Setup PROVE QueuedHasMessage'
  <2>1. queue' = <<>> /\ lost' = 0 /\ pc' = pc /\ messages' = Posted("Setup")
    BY <1>1 DEF Setup, calls
  <2>2. Posting' = Posting /\ Count' \in Nat
    BY <1>t, <1>m, <2>1, PostedCount DEF Posting, Count
  <2>3. Len(queue') = 0 /\ Posters' = Posters
    BY <2>1, <2>2, EmptyQueue DEF Posters
  <2> QED
    BY <1>n, <2>1, <2>2, <2>3 DEF QueuedHasMessage, Count, Posters
<1>2. ASSUME Shutdown PROVE QueuedHasMessage'
  BY <1>2 DEF Shutdown, QueuedHasMessage
<1>3. ASSUME NEW t \in Thread,
             (\E e \in Event : TriggerEvent(t, e)) \/ WaitReady(t) \/ WaitReadyReturn(t)
      PROVE  QueuedHasMessage'
  <2>1. /\ UNCHANGED <<attached, queue, lost, messages>> /\ pc[t] # "post"
        /\ \E label \in {"idle", "queueEvent", "waitReady"} : pc' = [pc EXCEPT ![t] = label]
    BY <1>3 DEF TriggerEvent, WaitReady, WaitReadyReturn, Goto, history
  <2>2. Posting' = Posting
    BY <1>i, <2>1 DEF Posting
  <2> QED
    BY <1>k, <1>n, <1>s, <2>1, <2>2
<1>4. ASSUME NEW t \in Thread, Enqueue(t) PROVE QueuedHasMessage'
  <2>1. /\ pc[t] = "queueEvent" /\ pc' = [pc EXCEPT ![t] = "post"]
        /\ queue' = QueueEvent(queue, arg[t]) /\ UNCHANGED <<attached, lost, messages>>
    BY <1>4 DEF Enqueue, Goto, history
  <2>2. Len(queue') = Len(queue) + 1
    BY <1>t, <2>1, QueueEventProperties DEF Inv, ArgIsEvent
  <2>3. Posting' = Posting \cup {t} /\ t \notin Posting
    BY <1>t, <2>1 DEF Posting
  <2>4. Posters' = Posters + 1
    BY <1>n, <2>3, FS_AddElement DEF Posters
  <2>5. Count' = Count
    BY <1>k, <2>1
  <2> QED
    BY <1>n, <1>t, <2>1, <2>2, <2>4, <2>5 DEF QueuedHasMessage, Count, Posters
<1>5. ASSUME NEW t \in Thread, Post(t) PROVE QueuedHasMessage'
  <2>1. /\ pc[t] = "post" /\ pc' = [pc EXCEPT ![t] = "idle"] /\ UNCHANGED <<attached, queue>>
        /\ messages' = IF attached THEN Posted("HandleEvent") ELSE messages
        /\ lost' = IF attached /\ ~HasRoom /\ lost < Cardinality(Event) THEN lost + 1 ELSE lost
    BY <1>5 DEF Post, Goto
  <2>2. t \in Posting /\ Posting' = Posting \ {t}
    BY <1>i, <2>1 DEF Posting
  <2>3. Posters' = Posters - 1
    BY <1>n, <2>2, FS_RemoveElement DEF Posters
  <2>4. CASE attached /\ HasRoom
    <3>1. Count' = Count + 1 /\ lost' = lost
      BY <1>m, <1>t, <2>1, <2>4, PostedCount DEF Count
    <3> QED
      BY <1>n, <1>t, <2>1, <2>3, <3>1 DEF QueuedHasMessage, Count, Posters
  <2>5. CASE attached /\ ~HasRoom /\ lost < Cardinality(Event)
    <3>1. messages' = messages /\ lost' = lost + 1
      BY <2>1, <2>5 DEF Posted
    <3>2. Count' = Count
      BY <1>k, <3>1
    <3> QED
      BY <1>n, <1>t, <2>1, <2>3, <3>1, <3>2 DEF QueuedHasMessage, Count, Posters
  <2>6. CASE attached /\ ~HasRoom /\ ~(lost < Cardinality(Event))
    <3>1. messages' = messages /\ lost' = lost /\ Len(queue') = Len(queue)
      BY <2>1, <2>6 DEF Posted
    <3>2. Count' = Count
      BY <1>k, <3>1
    <3>3. Posters' \in Nat
      <4>1. IsFiniteSet(Posting')
        BY <1>n, <2>2, FS_RemoveElement
      <4> QED
        BY <4>1, FS_CardinalityType DEF Posters
    <3> QED
      BY <1>b, <1>n, <1>t, <2>6, <3>1, <3>2, <3>3 DEF QueuedHasMessage, Count, Posters
  <2>7. CASE ~attached
    BY <2>1, <2>7 DEF QueuedHasMessage
  <2> QED
    BY <2>4, <2>5, <2>6, <2>7
<1>6. ASSUME PostAppMessage \/ Repost PROVE QueuedHasMessage'
  <2>1. /\ UNCHANGED <<attached, queue, lost, pc>>
        /\ \/ messages' = messages
           \/ messages' = Posted("App")
           \/ messages' = Posted("HandleEvent")
    BY <1>6 DEF PostAppMessage, Repost, Posted, calls, history
  <2>2. Count' \in Nat /\ Count' >= Count
    BY <1>k, <1>m, <1>n, <1>t, <2>1, PostedCount DEF Count
  <2>3. Posting' = Posting
    BY <2>1 DEF Posting
  <2> QED
    BY <1>s, <2>1, <2>2, <2>3
<1>7. ASSUME AppWndProc PROVE QueuedHasMessage'
  <2>1. PICK m \in Message : Retrieve(m) /\ (m = "App" \/ ~attached)
    BY <1>7 DEF AppWndProc
  <2>2. UNCHANGED <<attached, queue, lost, pc>>
    BY <1>7 DEF AppWndProc, calls, history
  <2>3. CASE m = "App"
    <3>1. Count' \in Nat /\ Count' >= Count
      BY <1>t, <2>1, <2>3, RetrieveCount DEF Count
    <3> QED
      BY <1>s, <2>2, <3>1 DEF Posting
  <2> QED
    BY <2>1, <2>2, <2>3 DEF QueuedHasMessage
<1>8. ASSUME SetupProc \/ SetupProcAgain PROVE QueuedHasMessage'
  <2>1. Retrieve("Setup") /\ UNCHANGED <<attached, queue, lost, pc>>
    BY <1>8 DEF SetupProc, SetupProcAgain, calls, history
  <2>2. Count' \in Nat /\ Count' >= Count
    BY <1>t, <2>1, RetrieveCount DEF Count
  <2> QED
    BY <1>s, <2>1, <2>2 DEF Posting
<1>9. ASSUME HandleEventProc PROVE QueuedHasMessage'
  <2>1. Retrieve("HandleEvent") /\ UNCHANGED <<attached, pc>>
    BY <1>9 DEF HandleEventProc, calls
  <2>2. Count' \in Nat /\ Count' + 1 >= Count
    BY <1>t, <2>1, RetrieveCount DEF Count
  <2>3. Posters' = Posters
    BY <2>1 DEF Posting, Posters
  <2>4. CASE queue = <<>>
    <3>1. queue' = <<>> /\ lost' = lost
      BY <1>9, <2>4 DEF HandleEventProc
    <3>2. Len(queue') = 0
      BY <3>1, EmptyQueue
    <3> QED
      BY <1>n, <1>t, <2>2, <2>3, <3>1, <3>2 DEF QueuedHasMessage, Count, Posters
  <2>5. CASE queue # <<>>
    <3>1. queue' = PopBack(queue) /\ lost' = IF Len(queue) = 1 THEN 0 ELSE lost
      BY <1>9, <2>5 DEF HandleEventProc
    <3>2. Len(queue') = Len(queue) - 1
      BY <1>t, <2>5, <3>1, PopBackProperties
    <3>3. CASE Len(queue) = 1
      BY <1>n, <2>2, <2>3, <3>1, <3>2, <3>3 DEF QueuedHasMessage, Count, Posters
    <3>4. CASE Len(queue) # 1
      BY <1>n, <1>t, <2>1, <2>2, <2>3, <3>1, <3>2, <3>4 DEF QueuedHasMessage, Count, Posters
    <3> QED
      BY <3>3, <3>4
  <2> QED
    BY <2>4, <2>5
<1>10. ASSUME UNCHANGED <<attached, queue, lost, messages, pc>> PROVE QueuedHasMessage'
  BY <1>10, <1>k, <1>n, <1>s DEF Posting
<1>11. ASSUME NEW r \in Result, EntryReturn(r) \/ HandleReturn(r) PROVE QueuedHasMessage'
  BY <1>10, <1>11 DEF EntryReturn, HandleReturn, calls, history
<1>12. ASSUME DirectHandleEvent \/ DirectReturn PROVE QueuedHasMessage'
  BY <1>10, <1>12 DEF DirectHandleEvent, DirectReturn, calls, history
<1>13. CASE UNCHANGED vars
  BY <1>10, <1>13 DEF vars, calls, history
<1> QED
  BY <1>1, <1>2, <1>3, <1>4, <1>5, <1>6, <1>7, <1>8, <1>9, <1>11, <1>12, <1>13
     DEF Next, Call, Step, Dispatch, Proceed

LEMMA NotTwiceInit == Init => NotTwice
BY EmptyIsDistinct, WindowAssumption DEF Init, NotTwice

(* A message is under way for every event that is queued, unless as many   *)
(* posts failed: handleEventProc() posts for the events that are left,     *)
(* though it reads the queue without the lock and gives up after an error. *)
THEOREM NoEventIsStranded == Spec => []QueuedHasMessage
<1>1. Init => QueuedHasMessage
  BY DEF Init, QueuedHasMessage
<1>2. Inv /\ NotTwice /\ [Next]_vars => NotTwice'
  BY NotTwiceStep
<1>3. Inv /\ NotTwice /\ QueuedHasMessage /\ [Next]_vars => QueuedHasMessage'
  BY QueuedStep
<1> QED
  BY <1>1, <1>2, <1>3, NotTwiceInit, WindowInvariant, PTL DEF Spec

-----------------------------------------------------------------------------
(* The refinement of PriorityChannel.                                      *)
LEMMA AscendingStep ==
    ASSUME NoOverflow, Inv, Ascending(queue), [Next]_vars
    PROVE  Ascending(queue)'
<1>t. queue \in Seq(Event) /\ ArgIsEvent
  BY DEF Inv, TypeOK
<1>1. CASE UNCHANGED queue
  BY <1>1 DEF Ascending
<1>2. ASSUME Setup PROVE Ascending(queue)'
  BY <1>2, EmptyIsDistinct DEF Setup
<1>3. ASSUME NEW t \in Thread, Enqueue(t) PROVE Ascending(queue)'
  BY <1>t, <1>3, NoOverflow, QueueEventKeepsAscending DEF Enqueue, ArgIsEvent
<1>4. ASSUME HandleEventProc, queue # <<>> PROVE Ascending(queue)'
  BY <1>t, <1>4, PopBackProperties DEF HandleEventProc
<1>5. ASSUME NEW r \in Result, HandleReturn(r) PROVE Ascending(queue)'
  BY <1>1, <1>5 DEF HandleReturn
<1> QED
  BY <1>1, <1>2, <1>3, <1>4, <1>5, QueueSteps DEF vars

(* Each step is one of PriorityChannel, or none.                           *)
LEMMA ChannelStep ==
    ASSUME NoOverflow, Inv, NotTwice, Ascending(queue), [Next]_vars
    PROVE  [Channel!Next]_<<ToSet(queue), Older(queue), inHand>>
<1> USE WindowAssumption
<1>t. queue \in Seq(Event) /\ Distinct(queue)
  BY DEF Inv, TypeOK, NotTwice
<1>1. CASE UNCHANGED <<queue, inHand>>
  BY <1>1
<1>2. ASSUME Setup PROVE Channel!Reset
  <2>1. queue' = <<>> /\ inHand' = inHand /\ ui = "idle"
    BY <1>2 DEF Setup
  <2> QED
    BY <2>1, EmptyIsDistinct DEF Channel!Reset, NotTwice
<1>3. ASSUME NEW t \in Thread, Enqueue(t) PROVE Channel!Accept(arg[t]) /\ arg[t] \in Event
  <2>1. pc[t] = "queueEvent" /\ queue' = QueueEvent(queue, arg[t]) /\ inHand' = inHand
    BY <1>3 DEF Enqueue
  <2>2. arg[t] \in Event /\ arg[t] \notin ToSet(queue)
    BY <2>1 DEF Inv, ArgIsEvent, NotTwice
  <2>3. /\ ToSet(queue') = ToSet(queue) \cup {arg[t]}
        /\ Older(queue') = Older(queue) \cup ({f \in ToSet(queue) : priority[f] = priority[arg[t]]} \X {arg[t]})
    BY <1>t, <2>1, <2>2, NoOverflow, QueueEventSet, QueueEventOlder
  <2> QED
    BY <2>1, <2>2, <2>3 DEF Channel!Accept
<1>4. ASSUME HandleEventProc, queue # <<>> PROVE Channel!Take(Back(queue)) /\ Back(queue) \in Event
  <2>1. ui = "idle" /\ inHand' = Back(queue) /\ queue' = PopBack(queue)
    BY <1>4 DEF HandleEventProc, Retrieve
  <2>2. Back(queue) \in ToSet(queue) /\ Back(queue) \in Event
    BY <1>t, <1>4, PopBackProperties
  <2>3. /\ ToSet(queue') = ToSet(queue) \ {Back(queue)}
        /\ Older(queue') = {x \in Older(queue) : Back(queue) \notin {x[1], x[2]}}
    BY <1>t, <1>4, <2>1, PopBackSet
  <2>4. \A f \in ToSet(queue) : priority[f] <= priority[Back(queue)] /\ <<f, Back(queue)>> \notin Older(queue)
    BY <1>t, <1>4, BackIsFirst
  <2> QED
    BY <2>1, <2>2, <2>3, <2>4 DEF Channel!Take, NotTwice
<1>5. ASSUME NEW r \in Result, HandleReturn(r) PROVE Channel!Finish
  BY <1>5 DEF HandleReturn, Channel!Finish, NotTwice
<1> QED
  BY <1>1, <1>2, <1>3, <1>4, <1>5, QueueSteps DEF Channel!Next, vars

(* The window handles events in the order that triggerEvent() promises,    *)
(* however posting and retrieving interleave.                              *)
THEOREM WindowKeepsOrder ==
    ASSUME NoOverflow
    PROVE  Spec => ChannelSpec
<1>1. Init => Channel!Init /\ Ascending(queue)
  BY EmptyIsDistinct DEF Init, Channel!Init
<1>2. Inv /\ NotTwice /\ [Next]_vars => NotTwice'
  BY NotTwiceStep
<1>3. Inv /\ Ascending(queue) /\ [Next]_vars => Ascending(queue)'
  BY NoOverflow, AscendingStep
<1>4. Inv /\ NotTwice /\ Ascending(queue) /\ [Next]_vars
          => [Channel!Next]_<<ToSet(queue), Older(queue), inHand>>
  BY NoOverflow, ChannelStep
<1> QED
  BY <1>1, <1>2, <1>3, <1>4, NotTwiceInit, WindowInvariant, PTL DEF Spec, ChannelSpec, Channel!Spec

=============================================================================
