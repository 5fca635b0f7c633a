----------------------------- MODULE MCJsonParser -----------------------------
(***************************************************************************)
(* Instances of JsonParser for TLC: every text of up to TextLimit          *)
(* characters, and command lines of up to three arguments.                 *)
(***************************************************************************)
EXTENDS JsonParser

MCArgument ==
    {[kind |-> "options", letters |-> l] : l \in {<<"c">>, <<"s">>, <<"r">>, <<"e">>, <<"e", "c">>, <<"other">>}}
    \cup {[kind |-> "number", value |-> n] : n \in {1, 3, 9}}
    \cup {[kind |-> "text"]}

MCArguments == UNION {[1 .. n -> MCArgument] : n \in 0 .. 3}

(* "-s": the fewest options.                                               *)
MCRemoveSpace == {<<[kind |-> "options", letters |-> <<"s">>]>>}

=============================================================================
