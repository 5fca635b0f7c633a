------------------------------- MODULE JsonText -------------------------------
(***************************************************************************)
(* What the JSON preprocessor promises (the usage text of jpp.cpp:28-40    *)
(* and the comments of JsonParserObject.cpp): the text without its         *)
(* comments, spaces or ends of line, or with its tabs expanded; and with   *)
(* its literals as they are, their ends of line included ("characters      *)
(* should be out as is", JsonParserObject.cpp:31-32).  Of a comment only   *)
(* the ends of line are kept (:119), where they are not removed.  It reads *)
(* the whole text at once, where the parser sees one character at a time.  *)
(*                                                                         *)
(* A literal is enclosed by double quotation marks, as in JSON; the single *)
(* one that JsonParserObject.h:62 speaks of is a character like any other. *)
(*                                                                         *)
(* A text is a sequence of characters; only those the parser tells apart   *)
(* have names here.                                                        *)
(***************************************************************************)
EXTENDS Integers, Sequences

Slash == "/"
Star == "*"
Quote == "quote"
Escape == "backslash"
Space == " "
Tab == "tab"
EOL == "eol"
Other == "x"
Character == {Slash, Star, Quote, Escape, Space, Tab, EOL, Other}

(* CJsonParser::Option.                                                    *)
Option == [removeComment : BOOLEAN, removeSpace : BOOLEAN, removeEol : BOOLEAN,
           expandTab : BOOLEAN, tabStop : Nat]

Spaces(n) == [i \in 1 .. n |-> Space]

(* The escape characters right before index i, down to index low.          *)
EscapesBefore(text, i, low) ==
    LET run == {k \in 0 .. i - low : \A j \in i - k .. i - 1 : text[j] = Escape}
    IN  CHOOSE k \in run : \A n \in run : n <= k

(* The region that text is in behind index i, with region p before it:     *)
(* outside of comments and literals, or inside of one, whose opening ends  *)
(* at index since.                                                         *)
Outside == [kind |-> "outside", since |-> 0]

Opens(text, i, p, c) ==
    p.kind = "outside" /\ i - 1 > p.since /\ text[i - 1] = Slash /\ text[i] = c

Closes(text, i, p) ==
    \/ p.kind = "comment" /\ text[i] = Slash /\ text[i - 1] = Star /\ i - 1 > p.since
    \/ p.kind = "line" /\ text[i] = EOL
    \/ p.kind = "literal" /\ text[i] = Quote /\ (EscapesBefore(text, i, p.since + 1) % 2) = 0

RegionBehind(text, removeComment, i, p) ==
    CASE removeComment /\ Opens(text, i, p, Star) -> [kind |-> "comment", since |-> i]
      [] removeComment /\ Opens(text, i, p, Slash) -> [kind |-> "line", since |-> i]
      [] p.kind = "outside" /\ text[i] = Quote -> [kind |-> "literal", since |-> i]
      [] Closes(text, i, p) -> [kind |-> "outside", since |-> i]
      [] OTHER -> p

Regions(text, removeComment) ==
    LET region[i \in 0 .. Len(text)] ==
            IF i = 0 THEN Outside ELSE RegionBehind(text, removeComment, i, region[i - 1])
    IN  region

(* Where the character at index i ends up: in a comment, its opening and   *)
(* closing included; in a literal; or outside of both.                     *)
Place(text, region, i) ==
    CASE region[i - 1].kind \in {"comment", "line"} \/ region[i].kind \in {"comment", "line"} -> "comment"
      [] i < Len(text) /\ region[i + 1].kind \in {"comment", "line"} /\ region[i + 1].since = i + 1
            -> "comment"
      [] region[i - 1].kind = "literal" \/ region[i].kind = "literal" -> "literal"
      [] OTHER -> "outside"

Nothing == [out |-> <<>>, column |-> 0]

(* The output behind index i, with output d before it.                     *)
OutputBehind(text, option, region, i, d) ==
    LET place == Place(text, region, i)
        keep(s) == [out |-> d.out \o s, column |-> d.column + Len(s)]
        removed == option.removeEol /\ place # "literal"
    IN  CASE text[i] = EOL /\ removed -> d
          [] text[i] = EOL /\ ~removed -> [out |-> Append(d.out, EOL), column |-> 0]
          [] text[i] # EOL /\ place = "comment" -> d
          [] place = "outside" /\ text[i] \in {Space, Tab} /\ option.removeSpace -> d
          [] place = "outside" /\ text[i] = Tab /\ option.expandTab ->
                keep(Spaces(option.tabStop - (d.column % option.tabStop)))
          [] OTHER -> keep(<<text[i]>>)

Outputs(text, option) ==
    LET region == Regions(text, option.removeComment)
        done[i \in 0 .. Len(text)] ==
            IF i = 0 THEN Nothing ELSE OutputBehind(text, option, region, i, done[i - 1])
    IN  done

(* The preprocessed text.                                                  *)
Preprocessed(text, option) == Outputs(text, option)[Len(text)].out

=============================================================================
