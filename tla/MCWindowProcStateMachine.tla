----------------------- MODULE MCWindowProcStateMachine -----------------------
(***************************************************************************)
(* An instance of WindowProcStateMachine for TLC: an event of a low and    *)
(* one of a high priority, one thread besides that of the window, and a    *)
(* window with room for few messages, so that a post may fail.             *)
(***************************************************************************)
EXTENDS WindowProcStateMachine

CONSTANTS low, high

MCPriority == [e \in Event |-> IF e = high THEN 1 ELSE 0]

=============================================================================
