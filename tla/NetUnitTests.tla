----------------------------- MODULE NetUnitTests -----------------------------
(***************************************************************************)
(* The tests of StateMachine.NET.UnitTest/UnitTest.cs, on a synchronous    *)
(* context: those of UnitTests on objects that a managed object owns,      *)
(* which is disposed of with the native one, or keeps it.  A call that a   *)
(* test says its substitutes do not receive is one its script has not.     *)
(***************************************************************************)
EXTENDS UnitTests

n0 == "managedState0"
n1 == "managedState1"
managed == "managedEvent"
managed1 == "managedEvent1"
kept == "keptEvent"

ASSUME NetUnitTestsAssumption ==
    /\ {n0, n1} \subseteq State /\ {managed, managed1, kept} \subseteq Event
    /\ \A o \in {n0, n1, managed, managed1} : Kind[o] = "autoDispose"
    /\ Kind[kept] = "kept"

-----------------------------------------------------------------------------
NetTearDown == <<CurrentIs(None)>>

NetSetup0 ==
    <<DoSetup(n0, None), Entry(n0, None, None, "S_OK"), Returns("S_OK"), CurrentIs(n0),
      DoShutdown, Returns("S_OK")>> \o NetTearDown

NetSetup1 ==
    <<DoSetup(n0, managed), Entry(n0, managed, None, "S_OK"), Returns("S_OK"), CurrentIs(n0),
      DoShutdown, Returns("S_OK")>> \o NetTearDown

NetSetup2 ==
    <<DoSetup(n0, None), Entry(n0, None, None, "E_UNEXPECTED"), Returns("E_UNEXPECTED"),
      CurrentIs(n0), DoShutdown, Returns("S_OK")>> \o NetTearDown

NetSetup3 ==
    <<DoSetup(n0, None), Entry(n0, None, None, "S_OK"), Returns("S_OK"),
      DoSetup(n0, None), Returns("TSM_E_SETUP_HAS_BEEN_MADE"), CurrentIs(n0),
      DoShutdown, Returns("S_OK")>> \o NetTearDown

NetSetup4 == <<DoShutdown, Returns("S_OK"), CurrentIs(None)>> \o NetTearDown

NetSetup5 == <<DoHandleEvent(managed), Returns("TSM_E_SETUP_HAS_NOT_BEEN_MADE")>> \o NetTearDown

-----------------------------------------------------------------------------
NetEventTest(body) ==
    <<DoSetup(n0, None), Entry(n0, None, None, "S_OK"), Returns("S_OK")>> \o body
    \o <<DoShutdown, Returns("S_OK")>> \o NetTearDown

NetNoTransition ==
    NetEventTest(<<
        DoHandleEvent(managed), PreHandle(managed, "S_OK"), HandleTo(n0, managed, None, "S_OK"),
        PostHandle(managed, "S_OK", "S_OK"), Returns("S_OK"), CurrentIs(n0)>>)

NetPreHandle(hr) ==
    NetEventTest(<<DoHandleEvent(managed), PreHandle(managed, hr), Returns(hr), CurrentIs(n0)>>)

NetTransition ==
    NetEventTest(<<
        DoHandleEvent(managed), PreHandle(managed, "S_OK"), HandleTo(n0, managed, n1, "S_OK"),
        Exit(n0, managed, n1, "S_OK"), Entry(n1, managed, n0, "S_OK"),
        PostHandle(managed, "S_OK", "S_OK"), Returns("S_OK"), CurrentIs(n1)>>)

NetHandleError ==
    NetEventTest(<<
        DoHandleEvent(managed), PreHandle(managed, "S_OK"), HandleTo(n0, managed, None, "E_ABORT"),
        PostHandle(managed, "E_ABORT", "E_ABORT"), Returns("E_ABORT"), CurrentIs(n0)>>)

NetExitError ==
    NetEventTest(<<
        DoHandleEvent(managed), PreHandle(managed, "S_OK"), HandleTo(n0, managed, n1, "S_OK"),
        Exit(n0, managed, n1, "E_ABORT"), PostHandle(managed, "E_ABORT", "E_ABORT"),
        Returns("E_ABORT"), CurrentIs(n0)>>)

NetEntryError ==
    NetEventTest(<<
        DoHandleEvent(managed), PreHandle(managed, "S_OK"), HandleTo(n0, managed, n1, "S_OK"),
        Exit(n0, managed, n1, "S_OK"), Entry(n1, managed, n0, "E_ABORT"),
        PostHandle(managed, "E_ABORT", "E_ABORT"), Returns("E_ABORT"), CurrentIs(n1)>>)

(* With one event for each call, or one that is kept for both.             *)
NetSubState(e0, e1) ==
    NetEventTest(<<
        SetMasterState(n1, n0),
        DoHandleEvent(e0), PreHandle(e0, "S_OK"), HandleTo(n0, e0, n1, "S_OK"),
        Entry(n1, e0, n0, "S_OK"), PostHandle(e0, "S_OK", "S_OK"), Returns("S_OK"),
        DoHandleEvent(e1), PreHandle(e1, "S_OK"), HandleTo(n1, e1, n0, "S_OK"),
        Exit(n1, e1, n0, "S_OK"), PostHandle(e1, "S_OK", "S_OK"), Returns("S_OK"),
        CurrentIs(n0)>>)

NetScripts ==
    [NetSetup0 |-> NetSetup0, NetSetup1 |-> NetSetup1, NetSetup2 |-> NetSetup2,
     NetSetup3 |-> NetSetup3, NetSetup4 |-> NetSetup4, NetSetup5 |-> NetSetup5,
     NetNoTransition |-> NetNoTransition, NetPreHandleFalse |-> NetPreHandle("S_FALSE"),
     NetPreHandleAbort |-> NetPreHandle("E_ABORT"),
     NetPreHandleUnexpected |-> NetPreHandle("E_UNEXPECTED"),
     NetTransition |-> NetTransition, NetHandleError |-> NetHandleError,
     NetExitError |-> NetExitError, NetEntryError |-> NetEntryError,
     NetSubStateDisposed |-> NetSubState(managed, managed1),
     NetSubStateKept |-> NetSubState(kept, kept)]

NetTestInit == Init /\ test \in DOMAIN NetScripts /\ script = NetScripts[test]

=============================================================================
