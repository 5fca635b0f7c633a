------------------------------ MODULE JsonParser ------------------------------
(***************************************************************************)
(* The JSON preprocessor jpp, an application of the synchronous state      *)
(* machine: jpp/jpp.cpp reads the options, JsonParser.cpp the text, and    *)
(* each character is an event that one of the four states of               *)
(* JsonParserObject.cpp handles.  Parser is the initial state and the      *)
(* master of the others, so that its moves are Disciplined in the sense of *)
(* module StateMachine.                                                    *)
(***************************************************************************)
EXTENDS JsonText

CONSTANTS
    Arguments,      \* the command lines, each a sequence of Argument
    TextLimit       \* the longest text read

(* An argument: the letters behind a '-', a number, or any other text.     *)
Letter == {"c", "s", "r", "e", "other"}
Argument == [kind : {"options"}, letters : Seq(Letter)]
            \cup [kind : {"number"}, value : Nat]
            \cup [kind : {"text"}]

ASSUME JsonAssumption ==
    /\ Arguments \subseteq Seq(Argument)
    /\ TextLimit \in Nat

VARIABLES
    phase,          \* "args", "read", "done", or an error that ends jpp
    args,           \* the arguments checkArgs() has still to look at
    option,         \* CJsonParser::Option
    text,           \* the characters read from the stream
    state,          \* the current state of CParserContext
    previous,       \* CParserContext::previousCharacter
    column,         \* CParserContext::column
    out             \* what was written to the output stream

parser == <<state, previous, column, out>>
vars == <<phase, args, option, text, parser>>

Null == "null"
DefaultTabStop == 2

Init ==
    /\ phase = "args"
    /\ args \in Arguments
    /\ option = [removeComment |-> FALSE, removeSpace |-> FALSE, removeEol |-> FALSE,
                 expandTab |-> FALSE, tabStop |-> 0]
    /\ text = <<>>
    /\ state = "Parser"
    /\ previous = Null
    /\ column = 0
    /\ out = <<>>

-----------------------------------------------------------------------------
(* checkOptions(): the letters of one argument.                            *)
WithLetters(o, letters) ==
    LET given(c) == \E i \in 1 .. Len(letters) : letters[i] = c
    IN  [o EXCEPT !.removeComment = @ \/ given("c"),
                  !.removeSpace = @ \/ given("s"),
                  !.removeEol = @ \/ given("r"),
                  !.expandTab = @ \/ given("e")]

(* A mutant: the number behind "-e" is only bounded from above.            *)
LegalUpTo8(n) == n <= 8

(* A tab stop that checkArgs() takes.                                      *)
LegalTabStop(n) == 1 < n /\ n <= 8

(* The next argument is a set of options with, perhaps, a number behind it *)
NextIsOptions == args # <<>> /\ args[1].kind = "options"
Given(c) == \E i \in 1 .. Len(args[1].letters) : args[1].letters[i] = c
HasNumber == Len(args) > 1 /\ args[2].kind = "number"

(* One turn of the loop of checkArgs(): an option that expands tabs takes  *)
(* the number behind it as its tab stop, which is an error if it is not a  *)
(* legal one.                                                              *)
CheckArg ==
    /\ phase = "args"
    /\ NextIsOptions
    /\ LET o == WithLetters(option, args[1].letters)
       IN  \/ /\ Given("other") \/ (Given("e") /\ HasNumber /\ ~LegalTabStop(args[2].value))
              /\ phase' = "usage error"
              /\ UNCHANGED <<args, option>>
           \/ /\ ~Given("other") /\ ~Given("e")
              /\ option' = o
              /\ args' = Tail(args)
              /\ UNCHANGED phase
           \/ /\ ~Given("other") /\ Given("e") /\ ~HasNumber
              /\ option' = [o EXCEPT !.tabStop = DefaultTabStop]
              /\ args' = Tail(args)
              /\ UNCHANGED phase
           \/ /\ ~Given("other") /\ Given("e") /\ HasNumber /\ LegalTabStop(args[2].value)
              /\ option' = [o EXCEPT !.tabStop = args[2].value]
              /\ args' = Tail(Tail(args))
              /\ UNCHANGED phase
    /\ UNCHANGED <<text, parser>>

(* preprocess() rejects these options.                                     *)
Invalid(o) == (o.removeSpace /\ o.expandTab) \/ (o.expandTab /\ o.tabStop < 2)

(* _tmain() behind the options: the default option, and the check of       *)
(* preprocess().  What is left of the arguments only names the stream.     *)
Start ==
    /\ phase = "args"
    /\ ~NextIsOptions
    /\ LET none == ~(option.removeComment \/ option.removeSpace \/ option.removeEol \/ option.expandTab)
           o == [option EXCEPT !.removeComment = @ \/ none]
       IN  /\ option' = o
           /\ phase' = IF o.removeSpace /\ o.expandTab THEN "usage error"
                       ELSE IF Invalid(o) THEN "E_INVALIDARG" ELSE "read"
    /\ args' = <<>>
    /\ UNCHANGED <<text, parser>>

-----------------------------------------------------------------------------
(* A mutant: the end of a line does not reset the column.                  *)
OutInKeepsColumn(s, w, c) ==
    IF \/ c \in {Space, Tab} /\ s = "Parser" /\ option.removeSpace
       \/ c = EOL /\ option.removeEol
    THEN w
    ELSE [out |-> Append(w.out, c), column |-> w.column + 1]

(* CParserContext::out() of a character, on what is written and the column *)
(* so far: in a sub-state spaces are written as they are.                  *)
OutIn(s, w, c) ==
    IF \/ c \in {Space, Tab} /\ s = "Parser" /\ option.removeSpace
       \/ c = EOL /\ option.removeEol
    THEN w
    ELSE [out |-> Append(w.out, c), column |-> IF c = EOL THEN 0 ELSE w.column + 1]

Written == [out |-> out, column |-> column]

Write(w) == out' = w.out /\ column' = w.column

(* The character goes to the output; a '/' before it that opened no        *)
(* comment goes first.                                                     *)
ParserOut(c) ==
    LET w == IF previous = Slash /\ option.removeComment THEN OutIn(state, Written, Slash) ELSE Written
    IN  OutIn(state, w, c)

(* A mutant: "//" is not told from "/*" in the state it starts.            *)
ParserStateSlashStar(c) ==
    /\ state = "Parser"
    /\ state' = IF c \in {Star, Slash} /\ option.removeComment /\ previous = Slash THEN "Comment"
                ELSE IF c = Quote THEN "Literal" ELSE "Parser"
    /\ IF (c = Slash \/ (c = Star /\ previous = Slash)) /\ option.removeComment
       THEN UNCHANGED <<out, column>>
       ELSE Write(ParserOut(c))
    /\ previous' = c

(* CParserState::handleEvent().                                            *)
ParserStateHandle(c) ==
    /\ state = "Parser"
    /\ state' = CASE c = Star /\ option.removeComment /\ previous = Slash -> "Comment"
                  [] c = Slash /\ option.removeComment /\ previous = Slash -> "SingleLineComment"
                  [] c = Quote -> "Literal"
                  [] OTHER -> "Parser"
    /\ CASE c = Star /\ option.removeComment /\ previous = Slash -> UNCHANGED <<out, column>>
         [] c = Slash /\ option.removeComment -> UNCHANGED <<out, column>>
         [] c = Tab /\ option.expandTab ->
                LET n == option.tabStop - (column % option.tabStop)
                IN  Write([out |-> out \o Spaces(n), column |-> column + n])
         [] OTHER -> Write(ParserOut(c))
    /\ previous' = c

(* CCommentState::handleEvent(): the '/' that ends the comment is not kept *)
(* as the previous character.                                              *)
CommentStateHandle(c) ==
    /\ state = "Comment"
    /\ state' = IF c = Slash /\ previous = Star THEN "Parser" ELSE "Comment"
    /\ previous' = IF c = Slash /\ previous = Star THEN Null ELSE c
    /\ IF c = EOL THEN Write(OutIn(state, Written, c)) ELSE UNCHANGED <<out, column>>

(* CSingleLineCommentState::handleEvent().                                 *)
SingleLineCommentStateHandle(c) ==
    /\ state = "SingleLineComment"
    /\ IF c = EOL
       THEN state' = "Parser" /\ Write(OutIn(state, Written, c))
       ELSE UNCHANGED <<state, out, column>>
    /\ previous' = c

(* CLiteralState::handleEvent(): an escape is written with the character   *)
(* behind it.                                                              *)
LiteralStateHandle(c) ==
    /\ state = "Literal"
    /\ CASE previous = Escape ->
                /\ Write(OutIn(state, OutIn(state, Written, Escape), c))
                /\ UNCHANGED state
         [] previous # Escape /\ c = Escape -> UNCHANGED <<state, out, column>>
         [] OTHER ->
                /\ Write(OutIn(state, Written, c))
                /\ state' = IF c = Quote THEN "Parser" ELSE "Literal"
    /\ previous' = c

(* preprocess() reads the next character and handles it.                   *)
Read(c) ==
    /\ phase = "read"
    /\ Len(text) < TextLimit
    /\ text' = Append(text, c)
    /\ \/ ParserStateHandle(c)
       \/ CommentStateHandle(c)
       \/ SingleLineCommentStateHandle(c)
       \/ LiteralStateHandle(c)
    /\ UNCHANGED <<phase, args, option>>

(* The end of the stream.                                                  *)
Stop ==
    /\ phase = "read"
    /\ phase' = "done"
    /\ UNCHANGED <<args, option, text, parser>>

Next == CheckArg \/ Start \/ (\E c \in Character : Read(c)) \/ Stop

Spec == Init /\ [][Next]_vars

-----------------------------------------------------------------------------
(* Every command line that jpp takes gives options that preprocess() takes *)
AcceptedOptionsAreValid == phase # "E_INVALIDARG"

Adjacent(s) == \E i \in 1 .. Len(text) - Len(s) + 1 : SubSeq(text, i, i + Len(s) - 1) = s

(* A literal has an end of line in it.                                     *)
LiteralHasEOL ==
    LET region == Regions(text, option.removeComment)
    IN  \E i \in 1 .. Len(text) : text[i] = EOL /\ region[i - 1].kind = "literal"

(* The texts on which the parser is known to differ from what it promises: *)
(* an escaped escape in a literal; when ends of line are removed, one in a *)
(* literal, which is removed too; when comments are removed, one that      *)
(* begins with "/*/", a '/' before a tab that is expanded, and one at the  *)
(* end of the text.                                                        *)
KnownDifference ==
    \/ Adjacent(<<Escape, Escape>>)
    \/ option.removeEol /\ LiteralHasEOL
    \/ /\ option.removeComment
       /\ \/ Adjacent(<<Slash, Star, Slash>>)
          \/ option.expandTab /\ Adjacent(<<Slash, Tab>>)
          \/ text # <<>> /\ text[Len(text)] = Slash

(* A text that ends in a literal ends in an escape that is never written.  *)
Unfinished == state = "Literal" /\ previous = Escape

(* The characters handled one at a time give the preprocessed text.        *)
OutputIsPreprocessed ==
    phase = "done" /\ ~KnownDifference /\ ~Unfinished => out = Preprocessed(text, option)

(* The column that expands tabs is that of the output, on every text.      *)
ColumnIsOfOutput ==
    LET ends == {i \in 1 .. Len(out) : out[i] = EOL}
    IN  \/ ends = {} /\ column = Len(out)
        \/ \E i \in ends : (\A j \in ends : j <= i) /\ column = Len(out) - i

(* "Recognizes escape sequence '\x' and end of literal" and "Character     *)
(* following '\' is treated as ordinary character"                         *)
(* (JsonParserObject.cpp:167 and 175): literals are kept as they are, and  *)
(* end where they end.                                                     *)
LiteralsAreKept ==
    phase = "done" /\ state # "Literal" /\ (\A i \in 1 .. Len(text) : text[i] # Slash)
        => out = Preprocessed(text, option)

=============================================================================
