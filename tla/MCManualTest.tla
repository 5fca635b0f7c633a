---------------------------- MODULE MCManualTest ----------------------------
(* An instance of ManualTest for TLC; addresses are interchangeable.       *)
EXTENDS ManualTest, TLC

CONSTANTS o1, o2, o3

Addresses == Permutations({o1, o2, o3})

=============================================================================
