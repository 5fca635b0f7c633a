------------------------------ MODULE AsyncTests ------------------------------
(***************************************************************************)
(* The tests of StateMachineUnitTest/AsyncUnitTest.cpp and of              *)
(* StateMachine.NET.UnitTest/AsyncUnitTest.cs: events of given priorities  *)
(* are triggered, by the test thread or by the handler of a first event,   *)
(* and the worker takes them from an EventQueue in the order the test      *)
(* expects.                                                                *)
(***************************************************************************)
EXTENDS Integers, SequencesExt

VARIABLES
    queue,      \* the queue of the context
    order,      \* the events handled so far
    test, script

testVars == <<queue, order, test, script>>

Id == 0 .. 4
Q(priority) == INSTANCE EventQueue WITH Event <- Id, Half <- 8

(* A test triggers an event for each of its priorities.  All but the first *)
(* test let the worker begin with the first event before they go on.       *)
Case(waits, priorities, sequence) ==
    [waits |-> waits, sequence |-> sequence,
     priorities |-> [id \in Id |-> IF id < Len(priorities) THEN priorities[id + 1] ELSE 0]]

AsyncUnitTest0 == Case(FALSE, <<0, 0, 0>>, <<0, 1, 2>>)
AsyncUnitTest1 == Case(TRUE, <<0, 0, 0, 0>>, <<0, 1, 2, 3>>)

(* In C# preHandle() of a first event, which goes no further, triggers the *)
(* others.                                                                 *)
NetCase(priorities, sequence) ==
    Case(TRUE, <<0>> \o priorities, <<0>> \o [i \in 1 .. Len(sequence) |-> sequence[i] + 1])

DefaultPriorityTest == NetCase(<<0, 0, 0, 0>>, <<0, 1, 2, 3>>)

(* PriorityValueTestData.                                                  *)
NetScripts ==
    [DefaultPriorityTest |-> DefaultPriorityTest,
     NetSamePriority |-> NetCase(<<0, 0, 0, 0>>, <<0, 1, 2, 3>>),
     NetFirstIsLower |-> NetCase(<<-2, 0, 0, 0>>, <<1, 2, 3, 0>>),
     NetLastIsHigher |-> NetCase(<<0, 0, 0, 2>>, <<3, 0, 1, 2>>),
     NetMiddleIsLower |-> NetCase(<<0, -2, 0, 0>>, <<0, 2, 3, 1>>),
     NetMiddleIsHigher |-> NetCase(<<0, 0, 2, 0>>, <<2, 0, 1, 3>>),
     NetPriorityOrder |-> NetCase(<<4, 3, 2, 1>>, <<0, 1, 2, 3>>),
     NetReverseOrder |-> NetCase(<<1, 2, 3, 4>>, <<3, 2, 1, 0>>)]

(* The tests in C++, with AsyncPriorityUnitTestDataList, and those in C#.  *)
Scripts == NetScripts @@
    [AsyncUnitTest0 |-> AsyncUnitTest0,
     AsyncUnitTest1 |-> AsyncUnitTest1,
     SamePriority |-> Case(TRUE, <<0, 0, 0, 0, 0>>, <<0, 1, 2, 3, 4>>),
     FirstIsLower |-> Case(TRUE, <<0, -2, 0, 0, 0>>, <<0, 2, 3, 4, 1>>),
     LastIsHigher |-> Case(TRUE, <<0, 0, 0, 0, 2>>, <<0, 4, 1, 2, 3>>),
     MiddleIsLower |-> Case(TRUE, <<0, 0, -2, 0, 0>>, <<0, 1, 3, 4, 2>>),
     MiddleIsHigher |-> Case(TRUE, <<0, 0, 0, 2, 0>>, <<0, 3, 1, 2, 4>>),
     PriorityOrder |-> Case(TRUE, <<0, 4, 3, 2, 1>>, <<0, 1, 2, 3, 4>>),
     ReverseOrder |-> Case(TRUE, <<0, 1, 2, 3, 4>>, <<0, 4, 3, 2, 1>>)]

Data == Scripts[test]

QueueInit == queue = <<>> /\ order = <<>>

(* script: the events still to trigger.                                    *)
TestInit ==
    /\ QueueInit
    /\ test \in DOMAIN Scripts
    /\ script = [i \in 1 .. Len(Data.sequence) |-> i - 1]

TriggerEvent ==
    /\ script # <<>>
    /\ Data.waits /\ Head(script) # 0 => order # <<>>
    /\ queue' = Q(Data.priorities)!QueueEvent(queue, Head(script))
    /\ script' = Tail(script)
    /\ UNCHANGED <<order, test>>

(* The handler of the first event sleeps until all are triggered.          *)
HandleEvent ==
    /\ queue # <<>>
    /\ order # <<>> => script = <<>>
    /\ order' = Append(order, Q(Data.priorities)!Back(queue))
    /\ queue' = Q(Data.priorities)!PopBack(queue)
    /\ UNCHANGED <<test, script>>

Passes == script = <<>> /\ queue = <<>> /\ UNCHANGED testVars

TestNext == TriggerEvent \/ HandleEvent \/ Passes

-----------------------------------------------------------------------------
(* The events are handled in the order the test expects, and all of them.  *)
TestsPass ==
    /\ IsPrefix(order, Data.sequence)
    /\ script = <<>> /\ queue = <<>> => order = Data.sequence

=============================================================================
