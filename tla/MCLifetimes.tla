----------------------------- MODULE MCLifetimes -----------------------------
(***************************************************************************)
(* An instance of Lifetimes for TLC: a state of a C++ application, states  *)
(* of both kinds of managed objects, and an event that is kept.            *)
(***************************************************************************)
EXTENDS Lifetimes

CONSTANTS s, a, k, e

MCState == {s, a, k}
MCEvent == {e}
MCKind == [o \in {s, a, k, e} |->
    CASE o = a -> "autoDispose" [] o \in {k, e} -> "kept" [] OTHER -> "native"]
MCExitOnShutdown == {s, k}

=============================================================================
