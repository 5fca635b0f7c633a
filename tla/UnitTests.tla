------------------------------ MODULE UnitTests ------------------------------
(***************************************************************************)
(* The tests of StateMachineUnitTest/UnitTest.cpp, on a synchronous        *)
(* context, as scripts that Lifetimes has to follow: the calls a test      *)
(* makes, the calls its mocks expect with what they answer, in the order   *)
(* of the machine, and what the test asserts in between.  It holds module  *)
(* Lifetimes to what the authors of the code require of it.                *)
(***************************************************************************)
EXTENDS Lifetimes, SequencesExt

VARIABLES
    test,       \* the name of the test that runs
    script      \* what is left of it

testVars == <<vars, test, script>>

s0 == "mockState0"
s1 == "mockState1"
ev == "mockEvent"
testee == "testee"
ASSUME UnitTestsAssumption ==
    /\ {s0, s1} \subseteq State /\ {ev, testee} \subseteq Event /\ None = "nullptr"
    /\ \A o \in {s0, s1, ev, testee} : Kind[o] = "native"
    /\ NestFrom = {} /\ Depth = 1

-----------------------------------------------------------------------------
(* The steps of a script: calls, ...                                       *)
DoSetup(s, e) == [do |-> "setup", on |-> s, arg |-> e]
DoHandleEvent(e) == [do |-> "handleEvent", on |-> e]
DoTriggerEvent(e) == [do |-> "triggerEvent", on |-> e]
DoShutdown == [do |-> "shutdown"]
SetMasterState(s, p) == [do |-> "setMasterState", on |-> s, arg |-> p]
AddRefTo(o) == [do |-> "AddRef", on |-> o]
ReleaseOf(o) == [do |-> "Release", on |-> o]
Fails(hr) == [do |-> "nothing", hr |-> hr]

(* ... calls of mocks, with their arguments and their answers, ...         *)
PreHandle(e, hr) == [do |-> "preHandle", on |-> e, args |-> <<>>, hr |-> hr]
HandleTo(s, e, n, hr) == [do |-> "handle", on |-> s, args |-> <<e>>, next |-> n, hr |-> hr]
Exit(s, e, n, hr) == [do |-> "exit", on |-> s, args |-> <<e, n>>, hr |-> hr]
Entry(s, e, p, hr) == [do |-> "entry", on |-> s, args |-> <<e, p>>, hr |-> hr]
PostHandle(e, given, hr) == [do |-> "postHandle", on |-> e, args |-> <<given>>, hr |-> hr]

(* ... and assertions.                                                     *)
Returns(hr) == [do |-> "ASSERT_EQ(hr)", hr |-> hr]
CurrentIs(s) == [do |-> "EXPECT_EQ(current)", on |-> s]
DeletedAre(S) == [do |-> "EXPECT_TRUE(deleted)", are |-> S]
NotDeleted(S) == [do |-> "EXPECT_FALSE(deleted)", are |-> S]
RefsAre(o, n) == [do |-> "EXPECT_EQ(references)", on |-> o, count |-> n]
Reported(proc, writer, to) == [do |-> "EXPECT_CALL(Assert)", proc |-> proc, writer |-> writer, to |-> to]

(* Assert::checkHResult(): whom it tells of a failure, given the two hooks *)
(* of the application.                                                     *)
CheckHResult(hr, proc, writer) ==
    CASE ~Failed(hr) -> None
      [] Failed(hr) /\ proc # None -> proc
      [] Failed(hr) /\ proc = None -> IF writer # None THEN writer ELSE "defaultAssertFailedWriter"

-----------------------------------------------------------------------------
(* SetupUnitTest, with UnitTestBase::TearDown().                           *)
SetupTearDown == <<DoShutdown, Returns("S_OK"), CurrentIs(None)>>

SetupUnitTest0 ==
    <<DoSetup(s0, None), Entry(s0, None, None, "S_OK"), Returns("S_OK"), CurrentIs(s0),
      NotDeleted({s0}), DoShutdown, Returns("S_OK"), DeletedAre({s0})>> \o SetupTearDown

SetupUnitTest1 ==
    <<DoSetup(s0, ev), Entry(s0, ev, None, "S_OK"), Returns("S_OK"), CurrentIs(s0),
      DeletedAre({ev}), NotDeleted({s0}), DoShutdown, Returns("S_OK"), DeletedAre({s0})>>
    \o SetupTearDown

SetupUnitTest2 ==
    <<DoSetup(s0, ev), Entry(s0, ev, None, "E_ABORT"), Returns("E_ABORT"), CurrentIs(s0),
      DeletedAre({ev}), NotDeleted({s0}), DoShutdown, Returns("S_OK"), DeletedAre({s0})>>
    \o SetupTearDown

SetupUnitTest3 ==
    <<DoSetup(s0, None), Entry(s0, None, None, "S_OK"), Returns("S_OK"),
      DoSetup(s0, ev), Returns("TSM_E_SETUP_HAS_BEEN_MADE"), DeletedAre({ev}), RefsAre(s0, 1),
      DoShutdown, Returns("S_OK"), DeletedAre({s0})>> \o SetupTearDown

SetupUnitTest4 == <<DoShutdown, Returns("S_OK"), CurrentIs(None)>> \o SetupTearDown

SetupUnitTest5 ==
    <<DoHandleEvent(ev), Returns("TSM_E_SETUP_HAS_NOT_BEEN_MADE"), DeletedAre({ev})>>
    \o SetupTearDown

-----------------------------------------------------------------------------
(* EventUnitTest::SetUp() and TearDown() around a test.                    *)
EventUnitTest(body) ==
    <<DoSetup(s0, None), Entry(s0, None, None, "S_OK"), Returns("S_OK")>> \o body \o SetupTearDown

NoStateTransition ==
    EventUnitTest(<<
        DoHandleEvent(ev), PreHandle(ev, "S_OK"), HandleTo(s0, ev, None, "S_OK"),
        PostHandle(ev, "S_OK", "S_OK"), Returns("S_OK"),
        CurrentIs(s0), DeletedAre({ev}), NotDeleted({s0})>>)

PreHandleFalse ==
    EventUnitTest(<<
        DoHandleEvent(ev), PreHandle(ev, "S_FALSE"), Returns("S_FALSE"),
        CurrentIs(s0), DeletedAre({ev}), NotDeleted({s0})>>)

PreHandleError ==
    EventUnitTest(<<
        DoHandleEvent(ev), PreHandle(ev, "E_ABORT"), Returns("E_ABORT"),
        CurrentIs(s0), DeletedAre({ev}), NotDeleted({s0})>>)

StateTransition ==
    EventUnitTest(<<
        DoHandleEvent(ev), PreHandle(ev, "S_OK"), HandleTo(s0, ev, s1, "S_OK"),
        Exit(s0, ev, s1, "S_OK"), Entry(s1, ev, s0, "S_OK"), PostHandle(ev, "S_OK", "S_OK"),
        Returns("S_OK"), CurrentIs(s1), DeletedAre({ev, s0}), NotDeleted({s1})>>)

HandleEventError ==
    EventUnitTest(<<
        DoHandleEvent(ev), PreHandle(ev, "S_OK"), HandleTo(s0, ev, None, "E_ABORT"),
        PostHandle(ev, "E_ABORT", "E_ABORT"), Returns("E_ABORT"),
        CurrentIs(s0), DeletedAre({ev}), NotDeleted({s0})>>)

ExitError ==
    EventUnitTest(<<
        DoHandleEvent(ev), PreHandle(ev, "S_OK"), HandleTo(s0, ev, s1, "S_OK"),
        Exit(s0, ev, s1, "E_ABORT"), PostHandle(ev, "E_ABORT", "E_ABORT"), Returns("E_ABORT"),
        CurrentIs(s0), DeletedAre({ev, s1}), NotDeleted({s0})>>)

EntryError ==
    EventUnitTest(<<
        DoHandleEvent(ev), PreHandle(ev, "S_OK"), HandleTo(s0, ev, s1, "S_OK"),
        Exit(s0, ev, s1, "S_OK"), Entry(s1, ev, s0, "E_ABORT"),
        PostHandle(ev, "E_ABORT", "E_ABORT"), Returns("E_ABORT"),
        CurrentIs(s1), DeletedAre({ev, s0}), NotDeleted({s1})>>)

SubStateUnitTest0 ==
    <<DoSetup(s0, None), Entry(s0, None, None, "S_OK"), Returns("S_OK"), SetMasterState(s1, s0),
      DoHandleEvent(ev), PreHandle(ev, "S_OK"), HandleTo(s0, ev, s1, "S_OK"),
      Entry(s1, ev, s0, "S_OK"), PostHandle(ev, "S_OK", "S_OK"), Returns("S_OK"),
      DoHandleEvent(ev), PreHandle(ev, "S_OK"), HandleTo(s1, ev, s0, "S_OK"),
      Exit(s1, ev, s0, "S_OK"), PostHandle(ev, "S_OK", "S_OK"), Returns("S_OK"),
      CurrentIs(s0), NotDeleted({s0}), DeletedAre({s1}),
      DoShutdown, Returns("S_OK"), DeletedAre({s0})>> \o SetupTearDown

(* The calls that only an asynchronous context implements.                 *)
NotImplTest0 ==
    EventUnitTest(<<
        Fails("E_NOTIMPL"), DoTriggerEvent(ev), Returns("TSM_E_NOT_SUPPORTED"), DeletedAre({ev})>>)

(* AssertUnitTest: with both hooks set, and with the writer alone.         *)
AssertProc ==
    <<DoHandleEvent(ev), Returns("TSM_E_SETUP_HAS_NOT_BEEN_MADE"),
      Reported("proc", "writer", "proc")>> \o SetupTearDown

AssertWriter ==
    <<DoHandleEvent(ev), Returns("TSM_E_SETUP_HAS_NOT_BEEN_MADE"),
      Reported(None, "writer", "writer")>> \o SetupTearDown

(* UnknownImplUnitTest, on an object of its own; a failed QueryInterface() *)
(* changes no count.                                                       *)
CreateDelete == <<AddRefTo(testee), RefsAre(testee, 1), ReleaseOf(testee), DeletedAre({testee})>>

CountReferences ==
    <<AddRefTo(testee), AddRefTo(testee), RefsAre(testee, 2), NotDeleted({testee}),
      ReleaseOf(testee), RefsAre(testee, 1), NotDeleted({testee}),
      ReleaseOf(testee), DeletedAre({testee})>>

QueryInterface ==
    <<AddRefTo(testee), AddRefTo(testee), RefsAre(testee, 2),
      Fails("E_NOINTERFACE"), Fails("E_POINTER"), RefsAre(testee, 2),
      ReleaseOf(testee), ReleaseOf(testee), DeletedAre({testee})>>

QuerySupportErrorInfo ==
    <<AddRefTo(testee), RefsAre(testee, 1), NotDeleted({testee}), AddRefTo(testee),
      RefsAre(testee, 2), NotDeleted({testee}), ReleaseOf(testee), ReleaseOf(testee),
      DeletedAre({testee})>>

Scripts ==
    [SetupUnitTest0 |-> SetupUnitTest0, SetupUnitTest1 |-> SetupUnitTest1,
     SetupUnitTest2 |-> SetupUnitTest2, SetupUnitTest3 |-> SetupUnitTest3,
     SetupUnitTest4 |-> SetupUnitTest4, SetupUnitTest5 |-> SetupUnitTest5,
     NoStateTransition |-> NoStateTransition, PreHandleFalse |-> PreHandleFalse,
     PreHandleError |-> PreHandleError, StateTransition |-> StateTransition,
     HandleEventError |-> HandleEventError, ExitError |-> ExitError, EntryError |-> EntryError,
     SubStateUnitTest0 |-> SubStateUnitTest0, NotImplTest0 |-> NotImplTest0,
     AssertProc |-> AssertProc, AssertWriter |-> AssertWriter,
     CreateDelete |-> CreateDelete, CountReferences |-> CountReferences,
     QueryInterface |-> QueryInterface, QuerySupportErrorInfo |-> QuerySupportErrorInfo]

-----------------------------------------------------------------------------
TestInit == Init /\ test \in DOMAIN Scripts /\ script = Scripts[test]

Step == Head(script)
IsStep(do) == script # <<>> /\ Step.do = do
Follow == script' = Tail(script) /\ UNCHANGED test
(* An assertion does not touch the machine, and neither does a call that   *)
(* fails at once.                                                          *)
Untouched == UNCHANGED <<mem, current, entered, stack, client, result>>

Outside == stack = <<>>

CallStep ==
    /\ Outside
    /\ \/ IsStep("setup") /\ Setup(Step.on, Step.arg, Passed(Passed(mem, Step.on), Step.arg))
       \/ IsStep("handleEvent") /\ HandleEvent(Step.on, Passed(mem, Step.on))
       \/ IsStep("triggerEvent") /\ TriggerEvent(Step.on, Passed(mem, Step.on))
       \/ IsStep("shutdown") /\ Shutdown
       \/ IsStep("nothing") /\ Untouched
    /\ Follow

ObjectStep ==
    /\ Outside
    /\ \/ /\ IsStep("setMasterState")
          /\ mem' = [AddRef(Passed(mem, Step.on), Step.arg) EXCEPT !.master[Step.on] = Step.arg]
       \/ IsStep("AddRef") /\ mem' = AddRef(Passed(mem, Step.on), Step.on)
       \/ IsStep("Release") /\ mem' = Release(mem, Step.on)
    /\ UNCHANGED <<current, entered, stack, client, result>>
    /\ Follow

(* The call of a mock that the machine is in.                              *)
Calls ==
    [do |-> Top.at,
     on |-> CASE Top.at \in {"preHandle", "postHandle"} -> Top.event
              [] Top.at = "entry" -> Top.next
              [] OTHER -> Top.walk,
     args |-> CASE Top.at = "preHandle" -> <<>>
                [] Top.at = "handle" -> <<Top.event>>
                [] Top.at = "exit" -> <<Top.event, Top.next>>
                [] Top.at = "entry" -> <<Top.event, Top.cur>>
                [] OTHER -> <<Top.hr>>]

InMock == ~Outside /\ Top.at \in {"preHandle", "handle", "exit", "entry", "postHandle"}
Expected ==
    /\ script # <<>>
    /\ Step.do = Calls.do
    /\ Step.on = Calls.on
    /\ Step.args = Calls.args

MockStep ==
    /\ InMock
    /\ Expected
    /\ \/ PreHandleReturn(Step.hr)
       \/ IsStep("handle") /\ HandleReturn(Step.hr, Step.next, Passed(mem, Step.next))
       \/ ExitReturn(Step.hr)
       \/ EntryReturn(Step.hr)
       \/ PostHandleReturn(Step.hr)
    /\ Follow

(* What the machine does between the calls of the mocks.                   *)
MachineStep ==
    /\ ~Outside
    /\ CallExit \/ Transition \/ ClearCurrent \/ OnStateChangedReturn
    /\ UNCHANGED <<test, script>>

(* The result a step returned stays to be asserted.                        *)
Holds ==
    CASE Step.do = "ASSERT_EQ(hr)" -> result = Step.hr
      [] Step.do = "EXPECT_EQ(current)" -> current = Step.on
      [] Step.do = "EXPECT_TRUE(deleted)" -> Step.are \subseteq Deleted
      [] Step.do = "EXPECT_FALSE(deleted)" -> Step.are \cap Deleted = {}
      [] Step.do = "EXPECT_EQ(references)" -> mem.refs[Step.on] = Step.count
      [] Step.do = "EXPECT_CALL(Assert)" ->
            CheckHResult(result, Step.proc, Step.writer) = Step.to
      [] OTHER -> FALSE

IsAssertion ==
    /\ Outside /\ script # <<>>
    /\ Step.do \in {"ASSERT_EQ(hr)", "EXPECT_EQ(current)", "EXPECT_TRUE(deleted)",
                    "EXPECT_FALSE(deleted)", "EXPECT_EQ(references)", "EXPECT_CALL(Assert)"}

AssertionStep == IsAssertion /\ Holds /\ Untouched /\ Follow

(* The test is over.                                                       *)
Passes == Outside /\ script = <<>> /\ UNCHANGED testVars

TestNext == CallStep \/ ObjectStep \/ MockStep \/ MachineStep \/ AssertionStep \/ Passes

-----------------------------------------------------------------------------
(* A test passes: its mocks are called as expected and by nobody else, its *)
(* assertions hold, and in the end every object was released as often as   *)
(* it was acquired (TestUnknown::~TestUnknown(), Mocks.cpp:76), but for    *)
(* the one reference of a managed object that keeps a native one.          *)
TestsPass ==
    /\ InMock => Expected
    /\ IsAssertion => Holds
    /\ Outside /\ script = <<>> =>
           \A o \in Object :
               mem.refs[o] = IF Kind[o] = "kept" /\ o \in mem.linked THEN 1 ELSE 0

=============================================================================
