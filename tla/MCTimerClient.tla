----------------------------- MODULE MCTimerClient -----------------------------
(***************************************************************************)
(* Instances of TimerClient for TLC: an event that is handled once, and    *)
(* one that is handled every interval.                                     *)
(***************************************************************************)
EXTENDS TimerClient

CONSTANTS once, every, t1, t2

=============================================================================
