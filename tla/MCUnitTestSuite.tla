---------------------------- MODULE MCUnitTestSuite ----------------------------
(* The unit tests: those in C++ on plain objects, those in C# on managed   *)
(* ones.                                                                   *)
EXTENDS UnitTestSuite

MCKind ==
    [o \in Object |->
        CASE o \in {n0, n1, managed, managed1} -> "autoDispose"
          [] o = kept -> "kept"
          [] OTHER -> "native"]

=============================================================================
