-------------------------- MODULE MCAsyncStateMachine --------------------------
(***************************************************************************)
(* Instances of AsyncStateMachine for TLC: two events of one priority and  *)
(* one of a higher priority, the least that tells a queue that is sorted   *)
(* and fair within a priority from one that is not.                        *)
(***************************************************************************)
EXTENDS AsyncStateMachine

CONSTANTS low, low2, high

MCPriority == [e \in Event |-> IF e = high THEN 1 ELSE 0]

=============================================================================
