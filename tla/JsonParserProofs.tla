--------------------------- MODULE JsonParserProofs ---------------------------
(***************************************************************************)
(* Theorems about JsonParser, for every command line and every text: the   *)
(* options that reach preprocess() are legal, the tab stop that it divides *)
(* by is never zero, the column is that of the output, and the output is   *)
(* the preprocessed text of module JsonText.                               *)
(***************************************************************************)
EXTENDS JsonParser, SequenceTheorems, NaturalsInduction, WellFoundedInduction, TLAPS

Phase == {"args", "read", "done", "usage error", "E_INVALIDARG"}

(* The types of what checkArgs() works on.                                 *)
ArgsOK ==
    /\ phase \in Phase
    /\ args \in Seq(Argument)
    /\ option \in Option

(* A tab stop is only used together with the option that sets it.          *)
TabStopIsLegal == option.expandTab => option.tabStop > 1

OptionsInv ==
    /\ ArgsOK
    /\ TabStopIsLegal
    /\ AcceptedOptionsAreValid

-----------------------------------------------------------------------------
(* The options.                                                            *)

LEMMA TailType ==
    ASSUME NEW S, NEW s \in Seq(S), s # <<>>
    PROVE  Tail(s) \in Seq(S) /\ (Len(s) > 1 => Tail(s) # <<>>)
<1>1. Tail(s) \in Seq(S) /\ Len(Tail(s)) = Len(s) - 1
  OBVIOUS
<1>2. Tail(s) = <<>> => Len(Tail(s)) = 0
  BY <1>1, EmptySeq
<1> QED
  BY <1>1, <1>2

LEMMA WithLettersProperties ==
    ASSUME NEW o \in Option, NEW letters
    PROVE  /\ WithLetters(o, letters) \in Option
           /\ WithLetters(o, letters).tabStop = o.tabStop
           /\ WithLetters(o, letters).expandTab
                <=> (o.expandTab \/ \E i \in 1 .. Len(letters) : letters[i] = "e")
BY DEF WithLetters, Option

LEMMA OptionsInit == Init => OptionsInv
BY JsonAssumption
DEF Init, OptionsInv, ArgsOK, TabStopIsLegal, AcceptedOptionsAreValid, Phase, Option

LEMMA CheckArgStep ==
    ASSUME OptionsInv, CheckArg
    PROVE  OptionsInv'
<1> DEFINE o == WithLetters(option, args[1].letters)
<1> USE DEF OptionsInv, ArgsOK, TabStopIsLegal, AcceptedOptionsAreValid
<1>1. Tail(args) \in Seq(Argument)
  BY TailType DEF CheckArg, NextIsOptions
<1>2. ASSUME HasNumber
      PROVE  Tail(Tail(args)) \in Seq(Argument)
  <2>1. args # <<>> /\ Len(args) > 1
    BY <1>2 DEF HasNumber
  <2>2. Tail(args) # <<>>
    BY <2>1, TailType
  <2> QED
    BY <1>1, <2>2, TailType
<1>3. o \in Option /\ o.tabStop = option.tabStop /\ (o.expandTab <=> (option.expandTab \/ Given("e")))
  BY WithLettersProperties DEF Given
<1>4. CASE phase' = "usage error" /\ UNCHANGED <<args, option>>
  BY <1>4 DEF Phase
<1>5. CASE ~Given("e") /\ option' = o /\ args' = Tail(args) /\ UNCHANGED phase
  BY <1>1, <1>3, <1>5
<1>6. CASE option' = [o EXCEPT !.tabStop = DefaultTabStop] /\ args' = Tail(args) /\ UNCHANGED phase
  BY <1>1, <1>3, <1>6 DEF DefaultTabStop, Option
<1>7. CASE /\ HasNumber /\ LegalTabStop(args[2].value)
           /\ option' = [o EXCEPT !.tabStop = args[2].value]
           /\ args' = Tail(Tail(args)) /\ UNCHANGED phase
  <2>1. args[2] \in Argument /\ args[2].kind = "number"
    BY <1>7 DEF HasNumber
  <2>2. args[2].value \in Nat
    BY <2>1 DEF Argument
  <2> QED
    BY <1>2, <1>3, <1>7, <2>2 DEF LegalTabStop, Option
<1> QED
  BY <1>4, <1>5, <1>6, <1>7 DEF CheckArg

LEMMA OptionsStep ==
    ASSUME OptionsInv, [Next]_vars
    PROVE  OptionsInv'
<1> USE DEF OptionsInv, ArgsOK, TabStopIsLegal, AcceptedOptionsAreValid
<1>1. CASE CheckArg
  BY <1>1, CheckArgStep
<1>2. CASE Start
  <2> DEFINE none == ~(option.removeComment \/ option.removeSpace \/ option.removeEol \/ option.expandTab)
             o == [option EXCEPT !.removeComment = @ \/ none]
  <2>1. option \in Option /\ option' = o /\ args' = <<>>
    BY <1>2 DEF Start
  <2>2. o \in Option /\ o.tabStop = option.tabStop /\ o.expandTab = option.expandTab
    BY <2>1 DEF Option
  <2>3. o.expandTab => ~(o.tabStop < 2)
    BY <2>1, <2>2 DEF Option
  <2>4. phase' = IF o.removeSpace /\ o.expandTab THEN "usage error"
                 ELSE IF Invalid(o) THEN "E_INVALIDARG" ELSE "read"
    BY <1>2 DEF Start
  <2>5. phase' \in {"usage error", "read"}
    <3> HIDE DEF o
    <3> QED
      BY <2>3, <2>4 DEF Invalid
  <2>6. args' \in Seq(Argument)
    BY <2>1, EmptySeq
  <2> HIDE DEF o
  <2> QED
    BY <2>1, <2>2, <2>5, <2>6 DEF Phase
<1>3. ASSUME NEW c \in Character, Read(c)
      PROVE  OptionsInv'
  BY <1>3 DEF Read
<1>4. CASE Stop
  BY <1>4 DEF Stop, Phase
<1>5. CASE UNCHANGED vars
  BY <1>5 DEF vars
<1> QED
  BY <1>1, <1>2, <1>3, <1>4, <1>5 DEF Next

(* Whatever the command line, the checks of checkArgs() and _tmain() leave *)
(* nothing for the check of preprocess() to reject: jpp reports a wrong    *)
(* command line as such, never as E_INVALIDARG (JsonParser.cpp:37-39).      *)
THEOREM CommandLineIsChecked == Spec => []AcceptedOptionsAreValid
<1>1. Init => OptionsInv
  BY OptionsInit
<1>2. OptionsInv /\ [Next]_vars => OptionsInv'
  BY OptionsStep
<1>3. OptionsInv => AcceptedOptionsAreValid
  BY DEF OptionsInv
<1> QED
  BY <1>1, <1>2, <1>3, PTL DEF Spec

-----------------------------------------------------------------------------
(* The column.                                                             *)

(* The last line of o, which starts behind index k, has n characters.      *)
LastLine(o, k, n) ==
    /\ k = 0 \/ o[k] = EOL
    /\ \A i \in k + 1 .. Len(o) : o[i] # EOL
    /\ n = Len(o) - k

(* An output and the column where it ends, as OutIn() passes them on.      *)
InColumn(w) ==
    /\ w.out \in Seq(Character)
    /\ w.column \in Nat
    /\ \E k \in 0 .. Len(w.out) : LastLine(w.out, k, w.column)

LEMMA AppendInColumn ==
    ASSUME NEW w, InColumn(w), NEW c \in Character
    PROVE  InColumn([out |-> Append(w.out, c), column |-> IF c = EOL THEN 0 ELSE w.column + 1])
<1> DEFINE o == Append(w.out, c)
           n == IF c = EOL THEN 0 ELSE w.column + 1
<1>1. /\ o \in Seq(Character)
      /\ Len(o) = Len(w.out) + 1
      /\ Len(w.out) \in Nat
      /\ o[Len(w.out) + 1] = c
      /\ \A i \in 1 .. Len(w.out) : o[i] = w.out[i]
  BY DEF InColumn
<1>2. n \in Nat
  BY DEF InColumn
<1>3. PICK k \in 0 .. Len(w.out) : LastLine(w.out, k, w.column)
  BY DEF InColumn
<1>4. c = EOL => LastLine(o, Len(o), n)
  BY <1>1 DEF LastLine
<1>5. c # EOL => LastLine(o, k, n)
  <2> SUFFICES ASSUME c # EOL PROVE LastLine(o, k, n)
    OBVIOUS
  <2>1. n = Len(o) - k
    BY <1>1, <1>3 DEF LastLine, InColumn
  <2> HIDE DEF o, n
  <2>2. k = 0 \/ o[k] = EOL
    BY <1>1, <1>3 DEF LastLine
  <2>3. ASSUME NEW i \in k + 1 .. Len(o)
        PROVE  o[i] # EOL
    <3>1. i = Len(w.out) + 1 \/ i \in k + 1 .. Len(w.out)
      BY <1>1
    <3> QED
      BY <1>1, <1>3, <3>1 DEF LastLine
  <2> QED
    BY <2>1, <2>2, <2>3 DEF LastLine
<1> HIDE DEF o, n
<1>6. \E j \in 0 .. Len(o) : LastLine(o, j, n)
  BY <1>1, <1>4, <1>5
<1> QED
  BY <1>1, <1>2, <1>6 DEF InColumn, o, n

LEMMA SpacesInColumn ==
    ASSUME NEW w, InColumn(w), NEW n \in Nat
    PROVE  InColumn([out |-> w.out \o Spaces(n), column |-> w.column + n])
<1> DEFINE o == w.out \o Spaces(n)
<1>1. /\ Spaces(n) \in Seq(Character)
      /\ Len(Spaces(n)) = n
      /\ \A i \in 1 .. n : Spaces(n)[i] # EOL
  BY DEF Spaces, Character, Space, EOL
<1>2. w.out \in Seq(Character) /\ w.column \in Nat /\ Len(w.out) \in Nat
  BY DEF InColumn
<1>3. /\ o \in Seq(Character)
      /\ Len(o) = Len(w.out) + n
      /\ \A i \in 1 .. Len(o) : o[i] = IF i <= Len(w.out) THEN w.out[i] ELSE Spaces(n)[i - Len(w.out)]
  BY <1>1, <1>2
<1>4. PICK k \in 0 .. Len(w.out) : LastLine(w.out, k, w.column)
  BY DEF InColumn
<1>5. LastLine(o, k, w.column + n)
  <2> HIDE DEF o
  <2>1. k = 0 \/ o[k] = EOL
    BY <1>2, <1>3, <1>4 DEF LastLine
  <2>2. ASSUME NEW i \in k + 1 .. Len(o)
        PROVE  o[i] # EOL
    <3>1. CASE i <= Len(w.out)
      BY <1>2, <1>3, <1>4, <3>1 DEF LastLine
    <3>2. CASE i > Len(w.out)
      <4>1. i - Len(w.out) \in 1 .. n
        BY <1>2, <1>3, <3>2
      <4>2. o[i] = Spaces(n)[i - Len(w.out)]
        BY <1>2, <1>3, <3>2
      <4> QED
        BY <1>1, <4>1, <4>2
    <3> QED
      BY <1>2, <1>3, <3>1, <3>2
  <2> QED
    BY <1>2, <1>3, <1>4, <2>1, <2>2 DEF LastLine
<1> HIDE DEF o
<1>6. k \in 0 .. Len(o)
  BY <1>2, <1>3, <1>4
<1> QED
  BY <1>2, <1>3, <1>5, <1>6 DEF InColumn, o

LEMMA OutInColumn ==
    ASSUME NEW w, InColumn(w), NEW c \in Character, NEW s
    PROVE  InColumn(OutIn(s, w, c))
BY AppendInColumn DEF OutIn

(* The column is that of the output; what divides it is a tab stop.        *)
ColumnInv ==
    /\ OptionsInv
    /\ InColumn(Written)

LEMMA ColumnInit == Init => ColumnInv
<1> SUFFICES ASSUME Init PROVE ColumnInv
  OBVIOUS
<1>1. LastLine(<<>>, 0, 0) /\ 0 \in 0 .. Len(<<>>)
  BY DEF LastLine
<1>2. <<>> \in Seq(Character)
  BY EmptySeq
<1>3. Written = [out |-> <<>>, column |-> 0]
  BY DEF Init, Written
<1>4. InColumn(Written)
  BY <1>1, <1>2, <1>3 DEF InColumn
<1> QED
  BY <1>4, OptionsInit DEF ColumnInv

LEMMA ColumnStep ==
    ASSUME ColumnInv, [Next]_vars
    PROVE  ColumnInv'
<1>1. OptionsInv'
  BY OptionsStep DEF ColumnInv
<1>2. CASE UNCHANGED <<out, column>>
  BY <1>1, <1>2 DEF ColumnInv, Written
<1>3. ASSUME NEW w, InColumn(w), Write(w)
      PROVE  InColumn(Written')
  <2>1. Written' = [out |-> w.out, column |-> w.column]
    BY <1>3 DEF Write, Written
  <2> QED
    BY <1>3, <2>1 DEF InColumn
<1>4. ASSUME NEW c \in Character, Read(c)
      PROVE  InColumn(Written')
  <2>1. InColumn(Written)
    BY DEF ColumnInv
  <2>2. Escape \in Character /\ Slash \in Character
    BY DEF Character
  <2>3. CASE ParserStateHandle(c)
    <3>1. CASE UNCHANGED <<out, column>>
      BY <2>1, <3>1 DEF Written
    <3> DEFINE n == option.tabStop - (column % option.tabStop)
    <3>2. CASE option.expandTab /\ Write([out |-> out \o Spaces(n), column |-> column + n])
      <4>1. option.tabStop \in Nat /\ option.tabStop > 1 /\ column \in Nat
        BY <2>1, <3>2 DEF ColumnInv, OptionsInv, ArgsOK, TabStopIsLegal, Option, InColumn, Written
      <4>2. n \in Nat
        BY <4>1
      <4>3. InColumn([out |-> out \o Spaces(n), column |-> column + n])
        <5> HIDE DEF n
        <5>1. InColumn([out |-> Written.out \o Spaces(n), column |-> Written.column + n])
          BY <2>1, <4>2, SpacesInColumn
        <5>2. Written.out = out /\ Written.column = column
          BY DEF Written
        <5> QED
          BY <5>1, <5>2
      <4> QED
        BY <1>3, <3>2, <4>3
    <3>3. CASE Write(ParserOut(c))
      BY <1>3, <2>1, <2>2, <3>3, OutInColumn DEF ParserOut
    <3> QED
      BY <2>3, <3>1, <3>2, <3>3 DEF ParserStateHandle
  <2>4. CASE CommentStateHandle(c)
    BY <1>3, <2>1, <2>4, OutInColumn DEF CommentStateHandle, Written
  <2>5. CASE SingleLineCommentStateHandle(c)
    BY <1>3, <2>1, <2>5, OutInColumn DEF SingleLineCommentStateHandle, Written
  <2>6. CASE LiteralStateHandle(c)
    BY <1>3, <2>1, <2>2, <2>6, OutInColumn DEF LiteralStateHandle, Written
  <2> QED
    BY <1>4, <2>3, <2>4, <2>5, <2>6 DEF Read
<1> QED
  BY <1>1, <1>2, <1>4 DEF ColumnInv, Next, CheckArg, Start, Stop, vars, parser

(* On every text and with every option, the column that the tabs are       *)
(* expanded by is that of the output: it counts the characters behind the  *)
(* last end of line that was written, not that was read.                   *)
THEOREM ColumnIsExact == Spec => []ColumnIsOfOutput
<1>1. Init => ColumnInv
  BY ColumnInit
<1>2. ColumnInv /\ [Next]_vars => ColumnInv'
  BY ColumnStep
<1>3. ASSUME ColumnInv PROVE ColumnIsOfOutput
  <2> DEFINE ends == {i \in 1 .. Len(out) : out[i] = EOL}
  <2>1. Len(out) \in Nat
    BY <1>3 DEF ColumnInv, InColumn, Written
  <2>2. PICK k \in 0 .. Len(out) : LastLine(out, k, column)
    BY <1>3 DEF ColumnInv, InColumn, Written
  <2>3. CASE k = 0
    BY <2>1, <2>2, <2>3 DEF LastLine, ColumnIsOfOutput
  <2>4. CASE k # 0
    <3>1. k \in ends
      BY <2>1, <2>2, <2>4 DEF LastLine
    <3>2. \A j \in ends : j <= k
      BY <2>1, <2>2 DEF LastLine
    <3> QED
      BY <2>2, <3>1, <3>2 DEF LastLine, ColumnIsOfOutput
  <2> QED
    BY <2>3, <2>4
<1> QED
  BY <1>1, <1>2, <1>3, PTL DEF Spec

-----------------------------------------------------------------------------
(* The abstract specification.  Its two functions on a text are recursive  *)
(* ones; what holds of them for every index is shown by the least index at *)
(* which it does not.                                                      *)
LEMMA LeastIndex ==
    ASSUME NEW T \in SUBSET Nat, T # {}
    PROVE  \E i \in T : \A j \in T : i <= j
<1>1. T \subseteq Nat /\ T # {}
  OBVIOUS
<1> DEFINE Less == OpToRel(<, Nat)
<1>2. \A j, k \in Nat : j < k => <<j, k>> \in Less
  BY Zenon DEF OpToRel
<1>3. IsWellFoundedOn(Less, Nat)
  BY NatLessThanWellFounded
<1> HIDE DEF Less
<1>4. PICK i \in T : \A j \in T : ~(<<j, i>> \in Less)
  BY <1>1, <1>3, WFMin
<1>5. ASSUME NEW j \in T
      PROVE  i <= j
  <2>1. i \in Nat /\ j \in Nat /\ ~(<<j, i>> \in Less)
    BY <1>1, <1>4
  <2>2. ~(j < i)
    BY <1>2, <2>1
  <2> QED
    BY <2>1, <2>2
<1> QED
  BY <1>5

RegionAt(t, rc, r, i) == IF i = 0 THEN Outside ELSE RegionBehind(t, rc, i, r[i - 1])

LEMMA RegionsExist ==
    ASSUME NEW t, NEW rc, NEW n \in Nat
    PROVE  \E r : r = [i \in 0 .. n |-> RegionAt(t, rc, r, i)]
<1> DEFINE T == {m \in Nat : ~\E r : r = [i \in 0 .. m |-> RegionAt(t, rc, r, i)]}
<1> SUFFICES ASSUME T # {}
             PROVE  FALSE
  OBVIOUS
<1>1. T \in SUBSET Nat
  OBVIOUS
<1> HIDE DEF T
<1>2. PICK m \in T : \A j \in T : m <= j
  BY <1>1, LeastIndex
<1>3. m \in Nat
  BY <1>1, <1>2
<1>4. CASE m = 0
  <2> DEFINE r == [i \in 0 .. 0 |-> Outside]
  <2>1. \A i \in 0 .. 0 : i = 0
    OBVIOUS
  <2>2. \A i \in 0 .. 0 : RegionAt(t, rc, r, i) = Outside
    BY <2>1 DEF RegionAt
  <2>3. r = [i \in 0 .. 0 |-> RegionAt(t, rc, r, i)]
    BY <2>2
  <2> HIDE DEF r
  <2> QED
    BY <1>2, <1>4, <2>3 DEF T
<1>5. CASE m # 0
  <2>1. m - 1 \in Nat /\ ~(m <= m - 1)
    BY <1>3, <1>5
  <2>2. PICK r : r = [i \in 0 .. m - 1 |-> RegionAt(t, rc, r, i)]
    BY <1>2, <2>1 DEF T
  <2> DEFINE s == [i \in 0 .. m |-> RegionAt(t, rc, r, i)]
  <2>3. ASSUME NEW i \in 0 .. m
        PROVE  RegionAt(t, rc, s, i) = RegionAt(t, rc, r, i)
    <3>1. CASE i = 0
      BY <3>1 DEF RegionAt
    <3>2. CASE i # 0
      <4>1. i - 1 \in 0 .. m - 1 /\ i - 1 \in 0 .. m
        BY <1>3, <3>2
      <4>2. s[i - 1] = RegionAt(t, rc, r, i - 1) /\ r[i - 1] = RegionAt(t, rc, r, i - 1)
        BY <2>2, <4>1
      <4> HIDE DEF s
      <4> QED
        BY <3>2, <4>2 DEF RegionAt
    <3> QED
      BY <3>1, <3>2
  <2>4. s = [i \in 0 .. m |-> RegionAt(t, rc, s, i)]
    BY <2>3
  <2> HIDE DEF s
  <2> QED
    BY <1>2, <1>3, <2>4 DEF T
<1> QED
  BY <1>4, <1>5

LEMMA RegionsAre ==
    ASSUME NEW t \in Seq(Character), NEW rc
    PROVE  /\ Regions(t, rc)[0] = Outside
           /\ \A i \in 1 .. Len(t) : Regions(t, rc)[i] = RegionBehind(t, rc, i, Regions(t, rc)[i - 1])
<1> DEFINE R == Regions(t, rc)
           n == Len(t)
<1>1. n \in Nat
  BY LenProperties
<1>2. PICK r : r = [i \in 0 .. n |-> RegionAt(t, rc, r, i)]
  BY <1>1, RegionsExist
<1>3. R = CHOOSE s : s = [i \in 0 .. n |-> RegionAt(t, rc, s, i)]
  BY DEF Regions, RegionAt
<1> HIDE DEF R, n
<1>4. R = [i \in 0 .. n |-> RegionAt(t, rc, R, i)]
  BY <1>2, <1>3
<1>5. \A i \in 0 .. n : R[i] = RegionAt(t, rc, R, i)
  BY <1>4
<1>6. 0 \in 0 .. n /\ \A i \in 1 .. n : i \in 0 .. n /\ i # 0
  BY <1>1
<1>7. R[0] = Outside
  BY <1>5, <1>6 DEF RegionAt
<1>8. \A i \in 1 .. n : R[i] = RegionBehind(t, rc, i, R[i - 1])
  BY <1>5, <1>6 DEF RegionAt
<1> QED
  BY <1>7, <1>8 DEF R, n

OutputAt(t, o, R, r, i) ==
    IF i = 0 THEN Nothing ELSE OutputBehind(t, o, R, i, r[i - 1])
AreOutputs(t, o, R, n, r) == r = [i \in 0 .. n |-> OutputAt(t, o, R, r, i)]

LEMMA OutputsExist ==
    ASSUME NEW t, NEW o, NEW R, NEW n \in Nat
    PROVE  \E r : AreOutputs(t, o, R, n, r)
<1> DEFINE T == {m \in Nat : ~\E r : AreOutputs(t, o, R, m, r)}
<1> SUFFICES ASSUME T # {}
             PROVE  FALSE
  OBVIOUS
<1>1. T \in SUBSET Nat
  OBVIOUS
<1> HIDE DEF T
<1>2. PICK m \in T : \A j \in T : m <= j
  BY <1>1, LeastIndex
<1>3. m \in Nat
  BY <1>1, <1>2
<1>4. CASE m = 0
  <2> DEFINE r == [i \in 0 .. 0 |-> Nothing]
  <2>1. \A i \in 0 .. 0 : i = 0
    OBVIOUS
  <2>2. \A i \in 0 .. 0 : OutputAt(t, o, R, r, i) = Nothing
    BY <2>1 DEF OutputAt
  <2>3. r = [i \in 0 .. 0 |-> OutputAt(t, o, R, r, i)]
    BY <2>2
  <2> HIDE DEF r
  <2> QED
    BY <1>2, <1>4, <2>3 DEF T, AreOutputs
<1>5. CASE m # 0
  <2>1. m - 1 \in Nat /\ ~(m <= m - 1)
    BY <1>3, <1>5
  <2>2. PICK r : AreOutputs(t, o, R, m - 1, r)
    BY <1>2, <2>1 DEF T
  <2> DEFINE s == [i \in 0 .. m |-> OutputAt(t, o, R, r, i)]
  <2>3. ASSUME NEW i \in 0 .. m
        PROVE  OutputAt(t, o, R, s, i) = OutputAt(t, o, R, r, i)
    <3>1. CASE i = 0
      BY <3>1 DEF OutputAt
    <3>2. CASE i # 0
      <4>1. i - 1 \in 0 .. m - 1 /\ i - 1 \in 0 .. m
        BY <1>3, <3>2
      <4>2. s[i - 1] = OutputAt(t, o, R, r, i - 1) /\ r[i - 1] = OutputAt(t, o, R, r, i - 1)
        BY <2>2, <4>1 DEF AreOutputs
      <4> HIDE DEF s
      <4> QED
        BY <3>2, <4>2 DEF OutputAt
    <3> QED
      BY <3>1, <3>2
  <2>4. s = [i \in 0 .. m |-> OutputAt(t, o, R, s, i)]
    BY <2>3
  <2> HIDE DEF s
  <2> QED
    BY <1>2, <1>3, <2>4 DEF T, AreOutputs
<1> QED
  BY <1>4, <1>5

LEMMA OutputsAre ==
    ASSUME NEW t \in Seq(Character), NEW o
    PROVE  /\ Outputs(t, o)[0] = Nothing
           /\ \A i \in 1 .. Len(t) :
                Outputs(t, o)[i] = OutputBehind(t, o, Regions(t, o.removeComment), i, Outputs(t, o)[i - 1])
<1> DEFINE R == Regions(t, o.removeComment)
           D == Outputs(t, o)
           n == Len(t)
<1>1. n \in Nat
  BY LenProperties
<1> HIDE DEF D, R, n
<1>2. PICK r : AreOutputs(t, o, R, n, r)
  BY <1>1, OutputsExist
<1>3. D = CHOOSE s : s = [i \in 0 .. n |-> OutputAt(t, o, R, s, i)]
  BY DEF Outputs, OutputAt, D, R, n
<1>4. D = [i \in 0 .. n |-> OutputAt(t, o, R, D, i)]
  BY <1>2, <1>3 DEF AreOutputs
<1>5. \A i \in 0 .. n : D[i] = OutputAt(t, o, R, D, i)
  BY <1>4
<1>6. 0 \in 0 .. n /\ \A i \in 1 .. n : i \in 0 .. n /\ i # 0
  BY <1>1
<1>7. D[0] = Nothing
  BY <1>5, <1>6 DEF OutputAt
<1>8. \A i \in 1 .. n : D[i] = OutputBehind(t, o, R, i, D[i - 1])
  BY <1>5, <1>6 DEF OutputAt
<1> QED
  BY <1>7, <1>8 DEF D, R, n

(* A region begins at the character behind it, or is that before it.       *)
LEMMA RegionIsOf ==
    ASSUME NEW t, NEW rc, NEW i, NEW p
    PROVE  RegionBehind(t, rc, i, p) = p \/ RegionBehind(t, rc, i, p).since = i
BY DEF RegionBehind

LEMMA SinceIsBehind ==
    ASSUME NEW t \in Seq(Character), NEW rc
    PROVE  \A i \in 0 .. Len(t) : Regions(t, rc)[i].since \in 0 .. i
<1> DEFINE R == Regions(t, rc)
           T == {i \in 0 .. Len(t) : ~(R[i].since \in 0 .. i)}
<1> SUFFICES ASSUME T # {}
             PROVE  FALSE
  OBVIOUS
<1>1. Len(t) \in Nat
  BY LenProperties
<1>2. T \in SUBSET Nat
  BY <1>1
<1> HIDE DEF T
<1>3. PICK i \in T : \A j \in T : i <= j
  BY <1>2, LeastIndex
<1>4. i \in 0 .. Len(t) /\ ~(R[i].since \in 0 .. i)
  BY <1>3 DEF T
<1>5. R[0] = Outside /\ \A j \in 1 .. Len(t) : R[j] = RegionBehind(t, rc, j, R[j - 1])
  BY RegionsAre
<1> HIDE DEF R
<1>6. i # 0
  <2>1. Outside.since = 0
    BY DEF Outside
  <2> QED
    BY <1>4, <1>5, <2>1
<1>7. i \in 1 .. Len(t) /\ i - 1 \in 0 .. Len(t) /\ ~(i <= i - 1) /\ i \in 0 .. i
  BY <1>1, <1>4, <1>6
<1>8. R[i - 1].since \in 0 .. i - 1
  BY <1>3, <1>7 DEF T
<1>9. R[i] = R[i - 1] \/ R[i].since = i
  BY <1>5, <1>7, RegionIsOf
<1>10. R[i - 1].since \in 0 .. i
  BY <1>7, <1>8
<1> QED
  BY <1>4, <1>7, <1>9, <1>10

(* Another character changes nothing of the regions before it.             *)
LEMMA EscapesAreKept ==
    ASSUME NEW t, NEW t2, NEW i \in Int, NEW low \in Int,
           \A j \in low .. i - 1 : t2[j] = t[j]
    PROVE  EscapesBefore(t2, i, low) = EscapesBefore(t, i, low)
<1> DEFINE run == {k \in 0 .. i - low : \A j \in i - k .. i - 1 : t[j] = Escape}
           run2 == {k \in 0 .. i - low : \A j \in i - k .. i - 1 : t2[j] = Escape}
           Most(r) == CHOOSE k \in r : \A n \in r : n <= k
<1>1. \A k \in 0 .. i - low : \A j \in i - k .. i - 1 : j \in low .. i - 1
  OBVIOUS
<1>2. run2 = run
  BY <1>1
<1>3. EscapesBefore(t, i, low) = Most(run) /\ EscapesBefore(t2, i, low) = Most(run2)
  BY DEF EscapesBefore
<1> HIDE DEF run, run2, Most
<1> QED
  BY <1>2, <1>3

LEMMA RegionIsKept ==
    ASSUME NEW t, NEW t2, NEW rc, NEW i \in Nat, i > 0, NEW p, p.since \in 0 .. i - 1,
           \A j \in 1 .. i : t2[j] = t[j]
    PROVE  RegionBehind(t2, rc, i, p) = RegionBehind(t, rc, i, p)
<1>1. t2[i] = t[i] /\ (i - 1 > p.since => t2[i - 1] = t[i - 1])
  OBVIOUS
<1>2. \A c : Opens(t2, i, p, c) <=> Opens(t, i, p, c)
  BY <1>1 DEF Opens
<1>3. EscapesBefore(t2, i, p.since + 1) = EscapesBefore(t, i, p.since + 1)
  <2>1. \A j \in p.since + 1 .. i - 1 : j \in 1 .. i
    OBVIOUS
  <2>2. \A j \in p.since + 1 .. i - 1 : t2[j] = t[j]
    BY <2>1
  <2>3. p.since + 1 \in Int
    OBVIOUS
  <2> QED
    BY <2>2, <2>3, EscapesAreKept
<1>4. Closes(t2, i, p) <=> Closes(t, i, p)
  BY <1>1, <1>3 DEF Closes
<1> QED
  BY <1>1, <1>2, <1>4 DEF RegionBehind

LEMMA RegionsAreKept ==
    ASSUME NEW t \in Seq(Character), NEW c \in Character, NEW rc
    PROVE  \A i \in 0 .. Len(t) : Regions(Append(t, c), rc)[i] = Regions(t, rc)[i]
<1> DEFINE t2 == Append(t, c)
           n == Len(t)
<1>1. /\ t2 \in Seq(Character) /\ Len(t2) = n + 1 /\ n \in Nat
      /\ \A i \in 1 .. n : t2[i] = t[i]
  BY AppendProperties, LenProperties
<1> HIDE DEF t2, n
<1> DEFINE R == Regions(t, rc)
           S == Regions(t2, rc)
           T == {i \in 0 .. n : S[i] # R[i]}
<1> SUFFICES ASSUME T # {}
             PROVE  FALSE
  BY DEF t2, n
<1>2. T \in SUBSET Nat
  BY <1>1
<1>3. R[0] = Outside /\ \A j \in 1 .. n : R[j] = RegionBehind(t, rc, j, R[j - 1])
  BY RegionsAre DEF n
<1>4. S[0] = Outside /\ \A j \in 1 .. n + 1 : S[j] = RegionBehind(t2, rc, j, S[j - 1])
  BY <1>1, RegionsAre
<1>5. \A j \in 0 .. n : R[j].since \in 0 .. j
  BY SinceIsBehind DEF n
<1> HIDE DEF T, R, S
<1>6. PICK i \in T : \A j \in T : i <= j
  BY <1>2, LeastIndex
<1>7. i \in 0 .. n /\ S[i] # R[i]
  BY <1>6 DEF T
<1>8. i \in 1 .. n /\ i \in 1 .. n + 1 /\ i - 1 \in 0 .. n /\ ~(i <= i - 1) /\ i \in Nat /\ i > 0
  BY <1>1, <1>3, <1>4, <1>7
<1>9. S[i - 1] = R[i - 1]
  BY <1>6, <1>8 DEF T
<1>10. \A j \in 1 .. i : t2[j] = t[j]
  BY <1>1, <1>8
<1>11. R[i - 1].since \in 0 .. i - 1
  BY <1>5, <1>8
<1>12. RegionBehind(t2, rc, i, R[i - 1]) = RegionBehind(t, rc, i, R[i - 1])
  BY <1>8, <1>10, <1>11, RegionIsKept
<1> QED
  BY <1>3, <1>4, <1>7, <1>8, <1>9, <1>12

(* Nor does it change the output before it, unless it opens a comment.     *)
OpensComment(R, i) == R[i].kind \in {"comment", "line"} /\ R[i].since = i

IsAppended(t, t2, R, R2, n) ==
    n \in Nat /\ Len(t) = n /\ Len(t2) = n + 1 /\ \A j \in 0 .. n : R2[j] = R[j]

LEMMA OutputIsKept ==
    ASSUME NEW t, NEW t2, NEW R, NEW R2, NEW n, IsAppended(t, t2, R, R2, n),
           NEW i \in 1 .. n, i = n => ~OpensComment(R2, n + 1), t2[i] = t[i],
           NEW o, NEW d
    PROVE  OutputBehind(t2, o, R2, i, d) = OutputBehind(t, o, R, i, d)
<1>0. n \in Nat /\ Len(t) = n /\ Len(t2) = n + 1 /\ \A j \in 0 .. n : R2[j] = R[j]
  BY DEF IsAppended
<1>1. i - 1 \in 0 .. n /\ i \in 0 .. n /\ i < n + 1 /\ (i < n => i + 1 \in 0 .. n) /\ (i < n \/ i = n)
  BY <1>0
<1>2. Place(t2, R2, i) = Place(t, R, i)
  <2>1. R2[i - 1] = R[i - 1] /\ R2[i] = R[i]
    BY <1>0, <1>1
  <2>2. CASE i < n
    <3>1. R2[i + 1] = R[i + 1]
      BY <1>0, <1>1, <2>2
    <3> QED
      BY <1>0, <1>1, <2>1, <2>2, <3>1 DEF Place
  <2>3. CASE i = n
    BY <1>0, <1>1, <2>1, <2>3 DEF Place, OpensComment
  <2> QED
    BY <1>1, <2>2, <2>3
<1> QED
  BY <1>2 DEF OutputBehind

LEMMA OutputsAreKept ==
    ASSUME NEW t \in Seq(Character), NEW c \in Character, NEW o,
           NEW i \in 0 .. Len(t),
           i = Len(t) => ~OpensComment(Regions(Append(t, c), o.removeComment), Len(t) + 1)
    PROVE  Outputs(Append(t, c), o)[i] = Outputs(t, o)[i]
<1> DEFINE t2 == Append(t, c)
           n == Len(t)
           rc == o.removeComment
           R == Regions(t, rc)
           R2 == Regions(t2, rc)
           D == Outputs(t, o)
           D2 == Outputs(t2, o)
<1>1. /\ t2 \in Seq(Character) /\ Len(t2) = n + 1 /\ n \in Nat
      /\ \A j \in 1 .. n : t2[j] = t[j]
  BY AppendProperties, LenProperties
<1>2. \A j \in 0 .. n : R2[j] = R[j]
  BY RegionsAreKept
<1>3. D[0] = Nothing /\ \A j \in 1 .. n : D[j] = OutputBehind(t, o, R, j, D[j - 1])
  BY OutputsAre
<1> HIDE DEF t2
<1>4. D2[0] = Nothing /\ \A j \in 1 .. n + 1 : D2[j] = OutputBehind(t2, o, R2, j, D2[j - 1])
  <2>1. /\ D2[0] = Nothing
        /\ \A j \in 1 .. Len(t2) : D2[j] = OutputBehind(t2, o, R2, j, D2[j - 1])
    BY <1>1, OutputsAre
  <2> QED
    BY <1>1, <2>1
<1> DEFINE T == {j \in 0 .. i : D2[j] # D[j]}
<1> HIDE DEF n, rc, R, R2, D, D2
<1>5. i \in 0 .. n /\ (i = n => ~OpensComment(R2, n + 1)) /\ n = Len(t)
  BY DEF n, R2, rc, t2
<1>6. ASSUME T # {}
      PROVE  FALSE
  <2>1. T \in SUBSET Nat
    BY <1>1, <1>5
  <2> HIDE DEF T
  <2>2. PICK j \in T : \A k \in T : j <= k
    BY <1>6, <2>1, LeastIndex
  <2>3. j \in 0 .. i /\ D2[j] # D[j]
    BY <2>2 DEF T
  <2>4. j # 0
    BY <1>3, <1>4, <2>3
  <2>5. j \in 1 .. n /\ j \in 1 .. n + 1 /\ j - 1 \in 0 .. i /\ ~(j <= j - 1) /\ (j = n => i = n)
    BY <1>1, <1>5, <2>3, <2>4
  <2>6. D2[j - 1] = D[j - 1]
    BY <2>2, <2>5 DEF T
  <2>7. OutputBehind(t2, o, R2, j, D[j - 1]) = OutputBehind(t, o, R, j, D[j - 1])
    <3>1. IsAppended(t, t2, R, R2, n)
      BY <1>1, <1>2, <1>5 DEF IsAppended
    <3>2. (j = n => ~OpensComment(R2, n + 1)) /\ t2[j] = t[j]
      BY <1>1, <1>5, <2>5
    <3> QED
      BY <2>5, <3>1, <3>2, OutputIsKept
  <2> QED
    BY <1>3, <1>4, <2>3, <2>5, <2>6, <2>7
<1>7. D2[i] = D[i]
  <2>1. i \in 0 .. i
    BY <1>1, <1>5
  <2> QED
    BY <1>6, <2>1
<1> QED
  BY <1>7 DEF D, D2, t2

(* Without two escapes in a row, one before a quote escapes it.            *)
LEMMA OneEscape ==
    ASSUME NEW t, NEW i \in Nat, NEW low \in Nat, low > 0, low <= i,
           i > 2 => ~(t[i - 2] = Escape /\ t[i - 1] = Escape)
    PROVE  (EscapesBefore(t, i, low) % 2) = 0 <=> ~(i > low /\ t[i - 1] = Escape)
<1> DEFINE run == {k \in 0 .. i - low : \A j \in i - k .. i - 1 : t[j] = Escape}
           most == CHOOSE k \in run : \A n \in run : n <= k
<1>1. EscapesBefore(t, i, low) = most
  BY DEF EscapesBefore
<1>2. 0 \in run
  OBVIOUS
<1>3. 1 \in run <=> i > low /\ t[i - 1] = Escape
  <2>1. 1 \in 0 .. i - low <=> i > low
    OBVIOUS
  <2>2. \A j : j \in i - 1 .. i - 1 <=> j = i - 1
    OBVIOUS
  <2> QED
    BY <2>1, <2>2
<1>4. ASSUME NEW k \in run
      PROVE  k = 0 \/ k = 1
  <2> SUFFICES ASSUME k # 0, k # 1
               PROVE  FALSE
    OBVIOUS
  <2>1. k \in 0 .. i - low /\ k >= 2 /\ \A j \in i - k .. i - 1 : t[j] = Escape
    OBVIOUS
  <2> HIDE DEF run
  <2>2. i - 2 \in i - k .. i - 1 /\ i - 1 \in i - k .. i - 1 /\ i > 2
    BY <2>1
  <2> QED
    BY <2>1, <2>2
<1> HIDE DEF run
<1>5. \E k \in run : \A n \in run : n <= k
  <2>1. CASE 1 \in run
    BY <1>4, <2>1
  <2>2. CASE 1 \notin run
    BY <1>2, <1>4, <2>2
  <2> QED
    BY <2>1, <2>2
<1>6. most \in run /\ \A n \in run : n <= most
  BY <1>5
<1> HIDE DEF most
<1>7. CASE most = 0
  <2>1. 1 \notin run
    BY <1>6, <1>7
  <2>2. (0 % 2) = 0
    OBVIOUS
  <2> QED
    BY <1>1, <1>3, <1>7, <2>1, <2>2
<1>8. CASE most = 1
  <2>1. (1 % 2) = 1
    OBVIOUS
  <2> QED
    BY <1>1, <1>3, <1>6, <1>8, <2>1
<1> QED
  BY <1>4, <1>6, <1>7, <1>8

-----------------------------------------------------------------------------
(* The parser and the abstract specification, character by character.      *)

LEMMA Distinct ==
    /\ Slash \notin {Star, Quote, Escape, Space, Tab, EOL, Null}
    /\ Star \notin {Quote, Escape, Space, Tab, EOL, Null}
    /\ Quote \notin {Escape, Space, Tab, EOL, Null}
    /\ Escape \notin {Space, Tab, EOL, Null}
    /\ EOL \notin {Space, Tab, Null}
    /\ Space # Tab
BY DEF Slash, Star, Quote, Escape, Space, Tab, EOL, Null

LEMMA RegionIs ==
    ASSUME NEW t, NEW rc, NEW i, NEW p
    PROVE  LET q == RegionBehind(t, rc, i, p)
               opens == rc /\ i - 1 > p.since /\ t[i - 1] = Slash
           IN  /\ p.kind = "outside" /\ opens /\ t[i] = Star => q = [kind |-> "comment", since |-> i]
               /\ p.kind = "outside" /\ opens /\ t[i] = Slash => q = [kind |-> "line", since |-> i]
               /\ p.kind = "outside" /\ ~(opens /\ t[i] \in {Star, Slash})
                    => q = IF t[i] = Quote THEN [kind |-> "literal", since |-> i] ELSE p
               /\ p.kind = "comment"
                    => q = IF t[i] = Slash /\ t[i - 1] = Star /\ i - 1 > p.since
                           THEN [kind |-> "outside", since |-> i] ELSE p
               /\ p.kind = "line" => q = IF t[i] = EOL THEN [kind |-> "outside", since |-> i] ELSE p
               /\ p.kind = "literal"
                    => q = IF t[i] = Quote /\ (EscapesBefore(t, i, p.since + 1) % 2) = 0
                           THEN [kind |-> "outside", since |-> i] ELSE p
<1> DEFINE even == (EscapesBefore(t, i, p.since + 1) % 2) = 0
<1>1. Closes(t, i, p) <=> \/ p.kind = "comment" /\ t[i] = Slash /\ t[i - 1] = Star /\ i - 1 > p.since
                          \/ p.kind = "line" /\ t[i] = EOL
                          \/ p.kind = "literal" /\ t[i] = Quote /\ even
  BY DEF Closes
<1> HIDE DEF even
<1>2. \A c : Opens(t, i, p, c) <=> p.kind = "outside" /\ i - 1 > p.since /\ t[i - 1] = Slash /\ t[i] = c
  BY DEF Opens
<1> DEFINE q == RegionBehind(t, rc, i, p)
<1>3. q = CASE rc /\ Opens(t, i, p, Star) -> [kind |-> "comment", since |-> i]
            [] rc /\ Opens(t, i, p, Slash) -> [kind |-> "line", since |-> i]
            [] p.kind = "outside" /\ t[i] = Quote -> [kind |-> "literal", since |-> i]
            [] Closes(t, i, p) -> [kind |-> "outside", since |-> i]
            [] OTHER -> p
  BY DEF RegionBehind
<1> HIDE DEF q
<1>4. CASE p.kind = "outside"
  BY <1>1, <1>2, <1>3, <1>4, Distinct DEF q
<1>5. CASE p.kind = "comment"
  BY <1>1, <1>2, <1>3, <1>5 DEF q
<1>6. CASE p.kind = "line"
  BY <1>1, <1>2, <1>3, <1>6 DEF q
<1>7. CASE p.kind = "literal"
  BY <1>1, <1>2, <1>3, <1>7 DEF q, even
<1> QED
  BY <1>4, <1>5, <1>6, <1>7

(* OutIn(), with the options o.                                            *)
OutOf(o, s, w, c) ==
    IF \/ c \in {Space, Tab} /\ s = "Parser" /\ o.removeSpace
       \/ c = EOL /\ o.removeEol
    THEN w
    ELSE [out |-> Append(w.out, c), column |-> IF c = EOL THEN 0 ELSE w.column + 1]

(* The output r of the last character c of a text, by the kinds a and b of *)
(* the regions before and behind it.                                       *)
OutputFits(o, c, a, b, d, r) ==
    /\ (a \in {"comment", "line"} \/ b \in {"comment", "line"}) /\ "literal" \notin {a, b}
         => r = IF c = EOL THEN OutOf(o, "Comment", d, EOL) ELSE d
    /\ {a, b} \in {{"literal"}, {"literal", "outside"}} /\ ~(c = EOL /\ o.removeEol)
         => r = OutOf(o, "Literal", d, c)
    /\ {a, b} = {"outside"} /\ ~(c = Tab /\ o.expandTab) => r = OutOf(o, "Parser", d, c)
    /\ {a, b} = {"outside"} /\ c = Tab /\ o.expandTab
         => LET m == o.tabStop - (d.column % o.tabStop)
            IN  r = [out |-> d.out \o Spaces(m), column |-> d.column + Len(Spaces(m))]

LEMMA LastOutput ==
    ASSUME NEW t \in Seq(Character), Len(t) > 0, NEW o, NEW R, NEW d, d.out \in Seq(Character),
           ~(o.removeSpace /\ o.expandTab)
    PROVE  OutputFits(o, t[Len(t)], R[Len(t) - 1].kind, R[Len(t)].kind, d,
                      OutputBehind(t, o, R, Len(t), d))
<1> DEFINE n == Len(t)
           r == OutputBehind(t, o, R, n, d)
           a == R[n - 1].kind
           b == R[n].kind
           c == t[n]
           place == Place(t, R, n)
           m == o.tabStop - (d.column % o.tabStop)
           keep(s) == [out |-> d.out \o s, column |-> d.column + Len(s)]
<1>1. n \in Nat /\ n > 0 /\ c \in Character
  BY LenProperties
<1>2. /\ (a \in {"comment", "line"} \/ b \in {"comment", "line"}) /\ "literal" \notin {a, b}
            => place = "comment"
      /\ a \notin {"comment", "line"} /\ b \notin {"comment", "line"} =>
            place = IF a = "literal" \/ b = "literal" THEN "literal" ELSE "outside"
  <2> DEFINE ahead == n < Len(t) /\ R[n + 1].kind \in {"comment", "line"} /\ R[n + 1].since = n + 1
  <2>1. place = CASE a \in {"comment", "line"} \/ b \in {"comment", "line"} -> "comment"
                  [] ahead -> "comment"
                  [] a = "literal" \/ b = "literal" -> "literal"
                  [] OTHER -> "outside"
    BY DEF Place
  <2>2. ~ahead
    BY <1>1
  <2> DEFINE inComment == a \in {"comment", "line"} \/ b \in {"comment", "line"}
             inLiteral == a = "literal" \/ b = "literal"
  <2> HIDE DEF place, ahead, inComment, inLiteral
  <2>3. place = CASE inComment -> "comment"
                  [] ahead -> "comment"
                  [] inLiteral -> "literal"
                  [] OTHER -> "outside"
    BY <2>1 DEF inComment, inLiteral
  <2>4. inComment /\ ~inLiteral => place = "comment"
    BY <2>2, <2>3
  <2>5. ~inComment => place = IF inLiteral THEN "literal" ELSE "outside"
    BY <2>2, <2>3
  <2> QED
    BY <2>4, <2>5 DEF inComment, inLiteral
<1>3. r = CASE c = EOL /\ (o.removeEol /\ place # "literal") -> d
            [] c = EOL /\ ~(o.removeEol /\ place # "literal") -> [out |-> Append(d.out, EOL), column |-> 0]
            [] c # EOL /\ place = "comment" -> d
            [] place = "outside" /\ c \in {Space, Tab} /\ o.removeSpace -> d
            [] place = "outside" /\ c = Tab /\ o.expandTab -> keep(Spaces(m))
            [] OTHER -> keep(<<c>>)
  BY DEF OutputBehind
<1>4. keep(<<c>>) = [out |-> Append(d.out, c), column |-> d.column + 1]
  <2>1. d.out \o <<c>> = Append(d.out, c)
    BY <1>1, AppendIsConcat
  <2>2. Len(<<c>>) = 1
    OBVIOUS
  <2> QED
    BY <2>1, <2>2
<1>5. keep(Spaces(m)) = [out |-> d.out \o Spaces(m), column |-> d.column + Len(Spaces(m))]
  OBVIOUS
<1> HIDE DEF r, a, b, c, place, m, keep
<1>6. (a \in {"comment", "line"} \/ b \in {"comment", "line"}) /\ "literal" \notin {a, b}
        => r = IF c = EOL THEN OutOf(o, "Comment", d, EOL) ELSE d
  BY <1>2, <1>3, Distinct DEF OutOf
<1>7. place = "literal" /\ ~(c = EOL /\ o.removeEol) => r = OutOf(o, "Literal", d, c)
  BY <1>3, <1>4, Distinct DEF OutOf
<1>8. place = "outside" /\ ~(c = Tab /\ o.expandTab) => r = OutOf(o, "Parser", d, c)
  BY <1>3, <1>4, Distinct DEF OutOf
<1>9. place = "outside" /\ c = Tab /\ o.expandTab => r = keep(Spaces(m))
  BY <1>3, Distinct
<1>10. {a, b} \in {{"literal"}, {"literal", "outside"}} => place = "literal"
  BY <1>2
<1>11. {a, b} = {"outside"} => place = "outside"
  BY <1>2
<1> QED
  BY <1>5, <1>6, <1>7, <1>8, <1>9, <1>10, <1>11 DEF OutputFits, r, a, b, c, m, n

(* The '/' that opens a comment is no output.                              *)
LEMMA OpeningOutput ==
    ASSUME NEW t, NEW o, NEW R, NEW i, NEW d, i < Len(t), OpensComment(R, i + 1),
           R[i - 1].kind = "outside", R[i].kind = "outside", t[i] = Slash
    PROVE  OutputBehind(t, o, R, i, d) = d
<1> DEFINE place == Place(t, R, i)
<1>1. place = "comment"
  BY DEF Place, OpensComment
<1>2. t[i] # EOL
  BY Distinct
<1> HIDE DEF place
<1>3. OutputBehind(t, o, R, i, d) = d
  BY <1>1, <1>2 DEF OutputBehind, place
<1> QED
  BY <1>3

(* What is known of a text with another character.                         *)
IsExtended(t, c, o) ==
    LET n == Len(t)
        t2 == Append(t, c)
        R == Regions(t, o.removeComment)
        R2 == Regions(t2, o.removeComment)
        D == Outputs(t, o)
        D2 == Outputs(t2, o)
    IN  /\ n \in Nat /\ t2 \in Seq(Character) /\ Len(t2) = n + 1 /\ t2[n + 1] = c
        /\ \A j \in 1 .. n : t2[j] = t[j]
        /\ R2[n] = R[n] /\ R2[n + 1] = RegionBehind(t2, o.removeComment, n + 1, R[n])
        /\ R[n].since \in 0 .. n
        /\ n = 0 => R[n] = Outside /\ D[n] = Nothing
        /\ n > 0 => /\ R2[n - 1] = R[n - 1] /\ (R[n] = R[n - 1] \/ R[n].since = n)
                    /\ D2[n - 1] = D[n - 1]
                    /\ D[n] = OutputBehind(t, o, R, n, D[n - 1])
                    /\ D2[n] = OutputBehind(t2, o, R2, n, D2[n - 1])
        /\ D2[n + 1] = OutputBehind(t2, o, R2, n + 1, D2[n])
        /\ ~OpensComment(R2, n + 1) => D2[n] = D[n]

LEMMA Appended ==
    ASSUME NEW t \in Seq(Character), NEW c \in Character, NEW o
    PROVE  IsExtended(t, c, o)
<1> DEFINE n == Len(t)
           t2 == Append(t, c)
           rc == o.removeComment
           R == Regions(t, rc)
           R2 == Regions(t2, rc)
           D == Outputs(t, o)
           D2 == Outputs(t2, o)
<1>1. /\ n \in Nat /\ t2 \in Seq(Character) /\ Len(t2) = n + 1 /\ t2[n + 1] = c
      /\ \A j \in 1 .. n : t2[j] = t[j]
  BY AppendProperties, LenProperties
<1>2. \A j \in 0 .. n : R2[j] = R[j]
  BY RegionsAreKept
<1>3. R[0] = Outside /\ \A j \in 1 .. n : R[j] = RegionBehind(t, rc, j, R[j - 1])
  BY RegionsAre
<1>4. \A j \in 0 .. n : R[j].since \in 0 .. j
  BY SinceIsBehind
<1>5. D[0] = Nothing /\ \A j \in 1 .. n : D[j] = OutputBehind(t, o, R, j, D[j - 1])
  BY OutputsAre
<1>6. \A j \in 0 .. n : (j = n => ~OpensComment(R2, n + 1)) => D2[j] = D[j]
  BY OutputsAreKept
<1> HIDE DEF t2
<1>7. \A j \in 1 .. n + 1 : R2[j] = RegionBehind(t2, rc, j, R2[j - 1])
  BY <1>1, RegionsAre
<1>8. \A j \in 1 .. n + 1 : D2[j] = OutputBehind(t2, o, R2, j, D2[j - 1])
  BY <1>1, OutputsAre
<1> HIDE DEF n, rc, R, R2, D, D2
<1>9. /\ n \in 0 .. n /\ n + 1 \in 1 .. n + 1 /\ n + 1 - 1 = n
      /\ n > 0 => n \in 1 .. n /\ n \in 1 .. n + 1 /\ n - 1 \in 0 .. n /\ n - 1 # n
  BY <1>1
<1>10. R2[n] = R[n] /\ R2[n + 1] = RegionBehind(t2, rc, n + 1, R[n]) /\ R[n].since \in 0 .. n
  BY <1>2, <1>4, <1>7, <1>9
<1>11. n = 0 => R[n] = Outside /\ D[n] = Nothing
  BY <1>3, <1>5
<1>12. ASSUME n > 0
       PROVE  /\ R2[n - 1] = R[n - 1] /\ (R[n] = R[n - 1] \/ R[n].since = n)
              /\ D2[n - 1] = D[n - 1]
              /\ D[n] = OutputBehind(t, o, R, n, D[n - 1])
              /\ D2[n] = OutputBehind(t2, o, R2, n, D2[n - 1])
  <2>1. R2[n - 1] = R[n - 1] /\ D2[n - 1] = D[n - 1]
    BY <1>2, <1>6, <1>9, <1>12
  <2>2. R[n] = RegionBehind(t, rc, n, R[n - 1])
    BY <1>3, <1>9, <1>12
  <2>3. R[n] = R[n - 1] \/ R[n].since = n
    BY <2>2, RegionIsOf
  <2> QED
    BY <1>5, <1>8, <1>9, <1>12, <2>1, <2>3
<1>13. D2[n + 1] = OutputBehind(t2, o, R2, n + 1, D2[n])
  BY <1>8, <1>9
<1>14. ~OpensComment(R2, n + 1) => D2[n] = D[n]
  BY <1>6, <1>9
<1> QED
  BY <1>1, <1>10, <1>11, <1>12, <1>13, <1>14 DEF IsExtended, n, t2, rc, R, R2, D, D2

(* The parser is where the abstract specification is, but for a '/' or an  *)
(* escape that it has not written yet.                                     *)
InRegion(s, kind) ==
    \/ s = "Parser" /\ kind = "outside"
    \/ s = "Comment" /\ kind = "comment"
    \/ s = "SingleLineComment" /\ kind = "line"
    \/ s = "Literal" /\ kind = "literal"

Pending(o, s, prev) ==
    \/ s = "Parser" /\ o.removeComment /\ prev = Slash
    \/ s = "Literal" /\ prev = Escape

(* The end of a comment is not kept as the previous character.             *)
PreviousIs(t, p, prev) ==
    prev = IF Len(t) = 0 \/ (p.kind = "outside" /\ p.since = Len(t) /\ t[Len(t)] = Slash)
           THEN Null ELSE t[Len(t)]

OpenedBy(t, o, p) ==
    p.since = Len(t) =>
        /\ p.kind = "literal" => t[Len(t)] = Quote
        /\ p.kind = "comment" =>
              o.removeComment /\ Len(t) > 1 /\ t[Len(t)] = Star /\ t[Len(t) - 1] = Slash

Follows(t, o, s, prev, w) ==
    LET n == Len(t)
        p == Regions(t, o.removeComment)[n]
    IN  /\ InRegion(s, p.kind)
        /\ PreviousIs(t, p, prev)
        /\ OpenedBy(t, o, p)
        /\ w = Outputs(t, o)[IF Pending(o, s, prev) THEN n - 1 ELSE n]

(* No KnownDifference, but for the end of the text.                        *)
Clean(t, o) ==
    /\ \A k \in 1 .. Len(t) - 1 : ~(t[k] = Escape /\ t[k + 1] = Escape)
    /\ o.removeComment =>
          \A k \in 1 .. Len(t) - 2 : ~(t[k] = Slash /\ t[k + 1] = Star /\ t[k + 2] = Slash)
    /\ o.removeComment /\ o.expandTab =>
          \A k \in 1 .. Len(t) - 1 : ~(t[k] = Slash /\ t[k + 1] = Tab)
    /\ o.removeEol =>
          \A k \in 1 .. Len(t) : ~(t[k] = EOL /\ Regions(t, o.removeComment)[k - 1].kind = "literal")

(* An end of line in a comment, and the rest of it.                        *)
LEMMA CommentStep ==
    ASSUME NEW t \in Seq(Character), NEW c \in Character, NEW o, ~(o.removeSpace /\ o.expandTab),
           Clean(Append(t, c), o), NEW prev, NEW w, w.out \in Seq(Character),
           Follows(t, o, "Comment", prev, w),
           NEW ends \in BOOLEAN, ends <=> c = Slash /\ prev = Star
    PROVE  Follows(Append(t, c), o, IF ends THEN "Parser" ELSE "Comment", IF ends THEN Null ELSE c,
                   IF c = EOL THEN OutOf(o, "Comment", w, EOL) ELSE w)
<1> DEFINE n == Len(t)
           t2 == Append(t, c)
           rc == o.removeComment
           R == Regions(t, rc)
           R2 == Regions(t2, rc)
           D == Outputs(t, o)
           D2 == Outputs(t2, o)
           p == R[n]
           q == R2[n + 1]
<1>1. IsExtended(t, c, o)
  BY Appended
<1>2. /\ n \in Nat /\ t2 \in Seq(Character) /\ Len(t2) = n + 1 /\ t2[n + 1] = c
      /\ \A j \in 1 .. n : t2[j] = t[j]
      /\ R2[n] = p /\ q = RegionBehind(t2, rc, n + 1, p)
      /\ p.since \in 0 .. n
      /\ n = 0 => p = Outside
      /\ D2[n + 1] = OutputBehind(t2, o, R2, n + 1, D2[n])
      /\ ~OpensComment(R2, n + 1) => D2[n] = D[n]
  BY <1>1 DEF IsExtended
<1>3. /\ InRegion("Comment", p.kind) /\ PreviousIs(t, p, prev) /\ OpenedBy(t, o, p)
      /\ w = D[IF Pending(o, "Comment", prev) THEN n - 1 ELSE n]
  BY DEF Follows
<1>4. p.kind = "comment" /\ ~Pending(o, "Comment", prev) /\ w = D[n]
  BY <1>3 DEF InRegion, Pending
<1>5. n > 0 /\ prev = t[n]
  BY <1>2, <1>3, <1>4 DEF PreviousIs, Outside
<1>6. Follows(t2, o, IF ends THEN "Parser" ELSE "Comment", IF ends THEN Null ELSE c,
              IF c = EOL THEN OutOf(o, "Comment", w, EOL) ELSE w)
      <=> /\ InRegion(IF ends THEN "Parser" ELSE "Comment", q.kind)
          /\ PreviousIs(t2, q, IF ends THEN Null ELSE c)
          /\ OpenedBy(t2, o, q)
          /\ (IF c = EOL THEN OutOf(o, "Comment", w, EOL) ELSE w) =
             D2[IF Pending(o, IF ends THEN "Parser" ELSE "Comment", IF ends THEN Null ELSE c)
                THEN n + 1 - 1 ELSE n + 1]
  BY <1>2 DEF Follows
<1> HIDE DEF t2, n, R, R2, D, D2, p, q, rc
<1>7. ends => n > p.since
  <2> SUFFICES ASSUME ends, n = p.since
               PROVE  FALSE
    BY <1>2
  <2>1. o.removeComment /\ n > 1 /\ t[n] = Star /\ t[n - 1] = Slash
    BY <1>3, <1>4 DEF OpenedBy, n
  <2>2. n - 1 \in 1 .. Len(t2) - 2 /\ n - 1 \in 1 .. n /\ n \in 1 .. n /\ n - 1 + 1 = n /\ n - 1 + 2 = n + 1
    BY <1>2, <2>1
  <2>3. t2[n - 1] = Slash /\ t2[n] = Star /\ t2[n + 1] = Slash
    BY <1>2, <2>1, <2>2
  <2>4. ~(t2[n - 1] = Slash /\ t2[n - 1 + 1] = Star /\ t2[n - 1 + 2] = Slash)
    BY <2>1, <2>2 DEF Clean, t2
  <2> QED
    BY <2>2, <2>3, <2>4
<1>8. ends <=> t2[n + 1] = Slash /\ t2[n + 1 - 1] = Star /\ n + 1 - 1 > p.since
  <2>1. n + 1 - 1 = n /\ n \in 1 .. n
    BY <1>2, <1>5
  <2>2. t2[n] = t[n]
    BY <1>2, <2>1
  <2> QED
    BY <1>2, <1>5, <1>7, <2>1, <2>2
<1>9. q = IF ends THEN [kind |-> "outside", since |-> n + 1] ELSE p
  BY <1>2, <1>4, <1>8, RegionIs
<1>10. q.kind = (IF ends THEN "outside" ELSE "comment") /\ q.since = (IF ends THEN n + 1 ELSE p.since)
  BY <1>4, <1>9
<1>11. ~OpensComment(R2, n + 1)
  BY <1>2, <1>10 DEF OpensComment, q
<1>12. D2[n + 1] = IF c = EOL THEN OutOf(o, "Comment", w, EOL) ELSE w
  <2>1. D2[n] = w
    BY <1>2, <1>4, <1>11
  <2>2. R2[n + 1 - 1].kind = "comment" /\ R2[n + 1].kind \in {"comment", "outside"} /\ n + 1 > 0
    BY <1>2, <1>4, <1>10 DEF q
  <2>3. OutputFits(o, t2[n + 1], R2[n + 1 - 1].kind, R2[n + 1].kind, w, OutputBehind(t2, o, R2, n + 1, w))
    BY <1>2, <2>2, LastOutput
  <2>4. OutputBehind(t2, o, R2, n + 1, w) = IF t2[n + 1] = EOL THEN OutOf(o, "Comment", w, EOL) ELSE w
    BY <2>2, <2>3 DEF OutputFits
  <2> QED
    BY <1>2, <2>1, <2>4
<1>13. InRegion(IF ends THEN "Parser" ELSE "Comment", q.kind)
  BY <1>10 DEF InRegion
<1>14. PreviousIs(t2, q, IF ends THEN Null ELSE c)
  BY <1>2, <1>8, <1>10 DEF PreviousIs
<1>15. OpenedBy(t2, o, q)
  BY <1>2, <1>10 DEF OpenedBy
<1>16. ~Pending(o, IF ends THEN "Parser" ELSE "Comment", IF ends THEN Null ELSE c)
  BY Distinct DEF Pending
<1> QED
  BY <1>6, <1>12, <1>13, <1>14, <1>15, <1>16 DEF t2

(* The rest of a line that is a comment.                                   *)
LEMMA SingleLineStep ==
    ASSUME NEW t \in Seq(Character), NEW c \in Character, NEW o, ~(o.removeSpace /\ o.expandTab),
           Clean(Append(t, c), o), NEW prev, NEW w, w.out \in Seq(Character),
           Follows(t, o, "SingleLineComment", prev, w)
    PROVE  Follows(Append(t, c), o, IF c = EOL THEN "Parser" ELSE "SingleLineComment", c,
                   IF c = EOL THEN OutOf(o, "Comment", w, EOL) ELSE w)
<1> DEFINE n == Len(t)
           t2 == Append(t, c)
           rc == o.removeComment
           R == Regions(t, rc)
           R2 == Regions(t2, rc)
           D == Outputs(t, o)
           D2 == Outputs(t2, o)
           p == R[n]
           q == R2[n + 1]
<1>1. IsExtended(t, c, o)
  BY Appended
<1>2. /\ n \in Nat /\ t2 \in Seq(Character) /\ Len(t2) = n + 1 /\ t2[n + 1] = c
      /\ \A j \in 1 .. n : t2[j] = t[j]
      /\ R2[n] = p /\ q = RegionBehind(t2, rc, n + 1, p)
      /\ p.since \in 0 .. n
      /\ n = 0 => p = Outside
      /\ D2[n + 1] = OutputBehind(t2, o, R2, n + 1, D2[n])
      /\ ~OpensComment(R2, n + 1) => D2[n] = D[n]
      /\ n > 0 => /\ R2[n - 1] = R[n - 1] /\ (p = R[n - 1] \/ p.since = n)
                  /\ D2[n - 1] = D[n - 1]
                  /\ D[n] = OutputBehind(t, o, R, n, D[n - 1])
                  /\ D2[n] = OutputBehind(t2, o, R2, n, D2[n - 1])
  BY <1>1 DEF IsExtended
<1>3. /\ InRegion("SingleLineComment", p.kind) /\ PreviousIs(t, p, prev) /\ OpenedBy(t, o, p)
      /\ w = D[IF Pending(o, "SingleLineComment", prev) THEN n - 1 ELSE n]
  BY DEF Follows
<1> DEFINE s2 == IF c = EOL THEN "Parser" ELSE "SingleLineComment"
           w2 == IF c = EOL THEN OutOf(o, "Comment", w, EOL) ELSE w
<1>4. Follows(t2, o, s2, c, w2)
      <=> /\ InRegion(s2, q.kind)
          /\ PreviousIs(t2, q, c)
          /\ OpenedBy(t2, o, q)
          /\ w2 = D2[IF Pending(o, s2, c) THEN n + 1 - 1 ELSE n + 1]
  BY <1>2 DEF Follows
<1>5. t \in Seq(Character) /\ n = Len(t)
  OBVIOUS
<1> HIDE DEF t2, n, R, R2, D, D2, p, q, rc, s2, w2
<1>6. p.kind = "line" /\ ~Pending(o, "SingleLineComment", prev) /\ w = D[n]
  BY <1>3 DEF InRegion, Pending
<1>7. q = IF c = EOL THEN [kind |-> "outside", since |-> n + 1] ELSE p
  BY <1>2, <1>6, RegionIs
<1>8. q.kind = (IF c = EOL THEN "outside" ELSE "line") /\ q.since = (IF c = EOL THEN n + 1 ELSE p.since)
  BY <1>6, <1>7
<1>9. ~OpensComment(R2, n + 1)
  BY <1>2, <1>8 DEF OpensComment, q
<1>10. D2[n + 1] = w2
  <2>1. D2[n] = w
    BY <1>2, <1>6, <1>9
  <2>2. R2[n + 1 - 1].kind = "line" /\ R2[n + 1].kind \in {"line", "outside"} /\ n + 1 > 0
    BY <1>2, <1>6, <1>8 DEF q
  <2>3. OutputFits(o, t2[n + 1], R2[n + 1 - 1].kind, R2[n + 1].kind, w, OutputBehind(t2, o, R2, n + 1, w))
    BY <1>2, <2>2, LastOutput
  <2>4. OutputBehind(t2, o, R2, n + 1, w) = IF t2[n + 1] = EOL THEN OutOf(o, "Comment", w, EOL) ELSE w
    BY <2>2, <2>3 DEF OutputFits
  <2> QED
    BY <1>2, <2>1, <2>4 DEF w2
<1>11. InRegion(s2, q.kind)
  BY <1>8 DEF InRegion, s2
<1>12. PreviousIs(t2, q, c)
  BY <1>2, <1>8, Distinct DEF PreviousIs
<1>13. OpenedBy(t2, o, q)
  BY <1>2, <1>8 DEF OpenedBy
<1>14. ~Pending(o, s2, c)
  BY Distinct DEF Pending, s2
<1> QED
  BY <1>4, <1>10, <1>11, <1>12, <1>13, <1>14 DEF t2, s2, w2

(* In a literal, an escape is written with the character behind it.        *)
LEMMA LiteralStep ==
    ASSUME NEW t \in Seq(Character), NEW c \in Character, NEW o, ~(o.removeSpace /\ o.expandTab),
           Clean(Append(t, c), o), NEW prev, NEW w, w.out \in Seq(Character),
           Follows(t, o, "Literal", prev, w)
    PROVE  Follows(Append(t, c), o, IF prev # Escape /\ c = Quote THEN "Parser" ELSE "Literal", c,
                   IF prev = Escape THEN OutOf(o, "Literal", OutOf(o, "Literal", w, Escape), c)
                   ELSE IF c = Escape THEN w ELSE OutOf(o, "Literal", w, c))
<1> DEFINE n == Len(t)
           t2 == Append(t, c)
           rc == o.removeComment
           R == Regions(t, rc)
           R2 == Regions(t2, rc)
           D == Outputs(t, o)
           D2 == Outputs(t2, o)
           p == R[n]
           q == R2[n + 1]
<1>1. IsExtended(t, c, o)
  BY Appended
<1>2. /\ n \in Nat /\ t2 \in Seq(Character) /\ Len(t2) = n + 1 /\ t2[n + 1] = c
      /\ \A j \in 1 .. n : t2[j] = t[j]
      /\ R2[n] = p /\ q = RegionBehind(t2, rc, n + 1, p)
      /\ p.since \in 0 .. n
      /\ n = 0 => p = Outside
      /\ D2[n + 1] = OutputBehind(t2, o, R2, n + 1, D2[n])
      /\ ~OpensComment(R2, n + 1) => D2[n] = D[n]
      /\ n > 0 => /\ R2[n - 1] = R[n - 1] /\ (p = R[n - 1] \/ p.since = n)
                  /\ D2[n - 1] = D[n - 1]
                  /\ D[n] = OutputBehind(t, o, R, n, D[n - 1])
                  /\ D2[n] = OutputBehind(t2, o, R2, n, D2[n - 1])
  BY <1>1 DEF IsExtended
<1>3. /\ InRegion("Literal", p.kind) /\ PreviousIs(t, p, prev) /\ OpenedBy(t, o, p)
      /\ w = D[IF Pending(o, "Literal", prev) THEN n - 1 ELSE n]
  BY DEF Follows
<1> DEFINE s2 == IF prev # Escape /\ c = Quote THEN "Parser" ELSE "Literal"
           w2 == IF prev = Escape THEN OutOf(o, "Literal", OutOf(o, "Literal", w, Escape), c)
                                ELSE IF c = Escape THEN w ELSE OutOf(o, "Literal", w, c)
<1>4. Follows(t2, o, s2, c, w2)
      <=> /\ InRegion(s2, q.kind)
          /\ PreviousIs(t2, q, c)
          /\ OpenedBy(t2, o, q)
          /\ w2 = D2[IF Pending(o, s2, c) THEN n + 1 - 1 ELSE n + 1]
  BY <1>2 DEF Follows
<1>5. t \in Seq(Character) /\ n = Len(t)
  OBVIOUS
<1> HIDE DEF t2, n, R, R2, D, D2, p, q, rc, s2, w2
<1>6. p.kind = "literal" /\ (Pending(o, "Literal", prev) <=> prev = Escape)
  BY <1>3 DEF InRegion, Pending
<1>7. n > 0 /\ prev = t[n] /\ t2[n] = t[n] /\ n + 1 - 1 = n
  BY <1>2, <1>3, <1>5, <1>6 DEF PreviousIs, Outside
<1>8. w = D[IF prev = Escape THEN n - 1 ELSE n]
  BY <1>3, <1>6
<1>9. p.since = n => t[n] # Escape
  BY <1>3, <1>5, <1>6, Distinct DEF OpenedBy
<1>10. prev = Escape => c # Escape
  <2>1. n \in 1 .. Len(t2) - 1 => ~(t2[n] = Escape /\ t2[n + 1] = Escape)
    BY DEF Clean, t2
  <2> QED
    BY <1>2, <1>7, <2>1
<1>11. (EscapesBefore(t2, n + 1, p.since + 1) % 2) = 0 <=> prev # Escape
  <2>1. n > 1 => ~(t2[n - 1] = Escape /\ t2[n] = Escape)
    <3> SUFFICES ASSUME n > 1
                 PROVE  ~(t2[n - 1] = Escape /\ t2[n] = Escape)
      OBVIOUS
    <3>1. n - 1 \in 1 .. Len(t2) - 1 /\ n - 1 + 1 = n
      BY <1>2
    <3>2. ~(t2[n - 1] = Escape /\ t2[n - 1 + 1] = Escape)
      BY <3>1 DEF Clean, t2
    <3> QED
      BY <3>1, <3>2
  <2>2. n + 1 \in Nat /\ p.since + 1 \in Nat /\ p.since + 1 > 0 /\ p.since + 1 <= n + 1
    BY <1>2
  <2> DEFINE i == n + 1
             low == p.since + 1
  <2>3. i \in Nat /\ low \in Nat /\ low > 0 /\ low <= i
    BY <2>2
  <2>4. n = i - 1 /\ n - 1 = i - 2 /\ (i > 2 <=> n > 1)
    BY <1>2
  <2>5. i > low <=> n # p.since
    BY <1>2
  <2> HIDE DEF i, low
  <2>6. i > 2 => ~(t2[i - 2] = Escape /\ t2[i - 1] = Escape)
    BY <2>1, <2>4
  <2>7. (EscapesBefore(t2, i, low) % 2) = 0 <=> ~(i > low /\ t2[i - 1] = Escape)
    BY <2>3, <2>6, OneEscape
  <2> QED
    BY <1>7, <1>9, <2>4, <2>5, <2>7 DEF i, low
<1> DEFINE ends == prev # Escape /\ c = Quote
<1>12. q = IF ends THEN [kind |-> "outside", since |-> n + 1] ELSE p
  BY <1>2, <1>6, <1>11, RegionIs
<1>13. q.kind = (IF ends THEN "outside" ELSE "literal") /\ q.since = (IF ends THEN n + 1 ELSE p.since)
  BY <1>6, <1>12
<1>14. D2[n] = D[n]
  BY <1>2, <1>13 DEF OpensComment, q
<1>15. D[n] = IF prev = Escape THEN OutOf(o, "Literal", w, Escape) ELSE w
  <2> SUFFICES ASSUME prev = Escape
               PROVE  D[n] = OutOf(o, "Literal", w, Escape)
    BY <1>8
  <2>1. R[n - 1].kind = "literal" /\ R[n].kind = "literal" /\ D[n - 1] = w
    BY <1>2, <1>6, <1>7, <1>8, <1>9 DEF p
  <2>2. OutputFits(o, t[n], R[n - 1].kind, R[n].kind, w, OutputBehind(t, o, R, n, w))
    BY <1>5, <1>7, LastOutput
  <2>3. OutputBehind(t, o, R, n, w) = OutOf(o, "Literal", w, t[n])
    BY <1>7, <2>1, <2>2, Distinct DEF OutputFits
  <2> QED
    BY <1>2, <1>7, <2>1, <2>3
<1>16. D2[n + 1] = OutOf(o, "Literal", D[n], c)
  <2>0. ~(t2[n + 1] = EOL /\ o.removeEol)
    <3>1. o.removeEol => ~(t2[n + 1] = EOL /\ R2[n + 1 - 1].kind = "literal")
      <4>1. n + 1 \in 1 .. Len(t2)
        BY <1>2
      <4>2. Clean(t2, o)
        BY DEF t2
      <4>3. o.removeEol => \A k \in 1 .. Len(t2) : ~(t2[k] = EOL /\ R2[k - 1].kind = "literal")
        BY <4>2 DEF Clean, R2, rc
      <4> QED
        BY <1>2, <4>1, <4>3
    <3> QED
      BY <1>2, <1>6, <1>7, <3>1
  <2>1. D[n].out \in Seq(Character)
    BY <1>15, AppendProperties DEF OutOf, Character
  <2>2. R2[n + 1 - 1].kind = "literal" /\ R2[n + 1].kind \in {"literal", "outside"} /\ n + 1 > 0
    BY <1>2, <1>6, <1>13 DEF q
  <2>3. OutputFits(o, t2[n + 1], R2[n + 1 - 1].kind, R2[n + 1].kind, D[n], OutputBehind(t2, o, R2, n + 1, D[n]))
    BY <1>2, <2>1, <2>2, LastOutput
  <2>4. OutputBehind(t2, o, R2, n + 1, D[n]) = OutOf(o, "Literal", D[n], t2[n + 1])
    BY <2>0, <2>2, <2>3 DEF OutputFits
  <2> QED
    BY <1>2, <1>14, <2>4
<1>17. InRegion(s2, q.kind)
  BY <1>13 DEF InRegion, s2
<1>18. PreviousIs(t2, q, c)
  BY <1>2, <1>13, Distinct DEF PreviousIs
<1>19. OpenedBy(t2, o, q)
  BY <1>2, <1>13 DEF OpenedBy
<1>20. Pending(o, s2, c) <=> c = Escape
  BY <1>10, Distinct DEF Pending, s2
<1>21. w2 = D2[IF c = Escape THEN n + 1 - 1 ELSE n + 1]
  BY <1>7, <1>10, <1>14, <1>15, <1>16 DEF w2
<1> QED
  BY <1>4, <1>17, <1>18, <1>19, <1>20, <1>21 DEF t2, s2, w2

(* Outside of comments and literals; a '/' before the character goes first, *)
(* unless the two open a comment.                                          *)
OutBehind(o, w, prev, c) ==
    OutOf(o, "Parser", IF prev = Slash /\ o.removeComment THEN OutOf(o, "Parser", w, Slash) ELSE w, c)

Opening(o, prev, c) == o.removeComment /\ prev = Slash /\ c \in {Star, Slash}

ParserWrites(o, w, prev, c) ==
    LET m == o.tabStop - (w.column % o.tabStop)
    IN  IF Opening(o, prev, c) \/ (c = Slash /\ o.removeComment) THEN w
        ELSE IF c = Tab /\ o.expandTab THEN [out |-> w.out \o Spaces(m), column |-> w.column + m]
        ELSE OutBehind(o, w, prev, c)

ParserBecomes(o, prev, c) ==
    IF Opening(o, prev, c) THEN IF c = Star THEN "Comment" ELSE "SingleLineComment"
    ELSE IF c = Quote THEN "Literal" ELSE "Parser"

IsOutput(w) == w = [out |-> w.out, column |-> w.column] /\ InColumn(w)

LEMMA SpacesAre ==
    ASSUME NEW o, o.tabStop \in Nat, o.tabStop > 1, NEW k \in Nat
    PROVE  /\ o.tabStop - (k % o.tabStop) \in Nat
           /\ Len(Spaces(o.tabStop - (k % o.tabStop))) = o.tabStop - (k % o.tabStop)
<1> DEFINE m == o.tabStop - (k % o.tabStop)
<1>1. m \in Nat
  OBVIOUS
<1> HIDE DEF m
<1>2. Len(Spaces(m)) = m
  BY <1>1 DEF Spaces
<1> QED
  BY <1>1, <1>2 DEF m

LEMMA ParserStep ==
    ASSUME NEW t \in Seq(Character), NEW c \in Character, NEW o, ~(o.removeSpace /\ o.expandTab),
           Clean(Append(t, c), o), NEW prev, NEW w, IsOutput(w),
           o.tabStop \in Nat, o.expandTab => o.tabStop > 1,
           Follows(t, o, "Parser", prev, w)
    PROVE  Follows(Append(t, c), o, ParserBecomes(o, prev, c), c, ParserWrites(o, w, prev, c))
<1> DEFINE n == Len(t)
           t2 == Append(t, c)
           rc == o.removeComment
           R == Regions(t, rc)
           R2 == Regions(t2, rc)
           D == Outputs(t, o)
           D2 == Outputs(t2, o)
           p == R[n]
           q == R2[n + 1]
<1>1. IsExtended(t, c, o)
  BY Appended
<1>2. /\ n \in Nat /\ t2 \in Seq(Character) /\ Len(t2) = n + 1 /\ t2[n + 1] = c
      /\ \A j \in 1 .. n : t2[j] = t[j]
      /\ R2[n] = p /\ q = RegionBehind(t2, rc, n + 1, p)
      /\ p.since \in 0 .. n
      /\ n = 0 => p = Outside
      /\ D2[n + 1] = OutputBehind(t2, o, R2, n + 1, D2[n])
      /\ ~OpensComment(R2, n + 1) => D2[n] = D[n]
      /\ n > 0 => /\ R2[n - 1] = R[n - 1] /\ (p = R[n - 1] \/ p.since = n)
                  /\ D2[n - 1] = D[n - 1]
                  /\ D[n] = OutputBehind(t, o, R, n, D[n - 1])
                  /\ D2[n] = OutputBehind(t2, o, R2, n, D2[n - 1])
  BY <1>1 DEF IsExtended
<1>3. /\ InRegion("Parser", p.kind) /\ PreviousIs(t, p, prev) /\ OpenedBy(t, o, p)
      /\ w = D[IF Pending(o, "Parser", prev) THEN n - 1 ELSE n]
  BY DEF Follows
<1> DEFINE s2 == ParserBecomes(o, prev, c)
           w2 == ParserWrites(o, w, prev, c)
<1>4. Follows(t2, o, s2, c, w2)
      <=> /\ InRegion(s2, q.kind)
          /\ PreviousIs(t2, q, c)
          /\ OpenedBy(t2, o, q)
          /\ w2 = D2[IF Pending(o, s2, c) THEN n + 1 - 1 ELSE n + 1]
  BY <1>2 DEF Follows
<1>5. t \in Seq(Character) /\ n = Len(t)
  OBVIOUS
<1> HIDE DEF t2, n, R, R2, D, D2, p, q, rc, s2, w2
<1>6. p.kind = "outside" /\ w.out \in Seq(Character) /\ w.column \in Nat
  BY <1>3 DEF InRegion, IsOutput, InColumn
<1>7. n + 1 - 1 = n /\ (n > 0 => t2[n] = t[n])
  BY <1>2
<1>8. prev = Slash <=> n > 0 /\ t[n] = Slash /\ n > p.since
  <2>1. n > p.since <=> n # p.since
    BY <1>2
  <2> QED
    BY <1>2, <1>3, <1>5, <1>6, <2>1, Distinct DEF PreviousIs
<1> DEFINE opens == Opening(o, prev, c)
           pending == prev = Slash /\ rc
           flushed == IF pending THEN OutOf(o, "Parser", w, Slash) ELSE w
<1>9. w = D[IF pending THEN n - 1 ELSE n]
  BY <1>3 DEF Pending, rc
<1>10. q = IF opens THEN [kind |-> IF c = Star THEN "comment" ELSE "line", since |-> n + 1]
           ELSE IF c = Quote THEN [kind |-> "literal", since |-> n + 1] ELSE p
  <2>1. n + 1 - 1 > p.since /\ t2[n + 1 - 1] = Slash <=> prev = Slash
    BY <1>2, <1>7, <1>8
  <2> QED
    BY <1>2, <1>6, <2>1, RegionIs, Distinct DEF Opening, rc
<1> HIDE DEF opens
<1>11. PreviousIs(t2, q, c)
  <2>1. q.kind = "outside" => q.since # n + 1
    BY <1>2, <1>6, <1>10
  <2> QED
    BY <1>2, <2>1 DEF PreviousIs
<1>12. CASE opens
  <2>1. rc /\ prev = Slash /\ pending /\ (c = Star \/ c = Slash) /\ n > 0 /\ t[n] = Slash /\ n > p.since
    BY <1>8, <1>12 DEF opens, Opening, rc
  <2>2. q.kind = (IF c = Star THEN "comment" ELSE "line") /\ q.since = n + 1
    BY <1>10, <1>12
  <2>3. OpensComment(R2, n + 1)
    BY <2>2 DEF OpensComment, q
  <2>4. D2[n - 1] = w /\ R[n - 1] = p
    BY <1>2, <1>9, <2>1
  <2>5. OutputBehind(t2, o, R2, n, w) = w
    <3>1. n < Len(t2) /\ R2[n - 1].kind = "outside" /\ R2[n].kind = "outside" /\ t2[n] = Slash
      BY <1>2, <1>6, <1>7, <2>1, <2>4
    <3> QED
      BY <2>3, <3>1, OpeningOutput
  <2>6. D2[n] = w
    BY <1>2, <2>1, <2>4, <2>5
  <2>7. D2[n + 1] = w
    <3>1. OutputFits(o, t2[n + 1], R2[n + 1 - 1].kind, R2[n + 1].kind, w, OutputBehind(t2, o, R2, n + 1, w))
      <4>1. n + 1 > 0
        BY <1>2
      <4> QED
        BY <1>2, <1>6, <4>1, LastOutput
    <3>2. R2[n + 1 - 1].kind = "outside" /\ R2[n + 1].kind \in {"comment", "line"} /\ c # EOL
      BY <1>2, <1>6, <1>7, <2>1, <2>2, Distinct DEF q
    <3> QED
      BY <1>2, <2>6, <3>1, <3>2 DEF OutputFits
  <2>8. s2 = IF c = Star THEN "Comment" ELSE "SingleLineComment"
    BY <1>12 DEF s2, ParserBecomes, opens
  <2>9. w2 = w
    BY <1>12 DEF w2, ParserWrites, opens
  <2>10. InRegion(s2, q.kind)
    BY <2>2, <2>8 DEF InRegion
  <2>11. OpenedBy(t2, o, q)
    <3>1. Len(t2) > 1 /\ t2[Len(t2) - 1] = Slash /\ t2[Len(t2)] = c
      BY <1>2, <1>7, <2>1
    <3>2. q.kind # "literal" /\ (q.kind = "comment" => c = Star) /\ o.removeComment
      BY <2>1, <2>2 DEF rc
    <3> QED
      BY <3>1, <3>2 DEF OpenedBy
  <2>12. ~Pending(o, s2, c)
    BY <2>8 DEF Pending
  <2> QED
    BY <1>4, <1>11, <2>7, <2>9, <2>10, <2>11, <2>12 DEF t2, s2, w2
<1>13. CASE ~opens
  <2>1. /\ q.kind = IF c = Quote THEN "literal" ELSE "outside"
        /\ q.since = IF c = Quote THEN n + 1 ELSE p.since
    BY <1>6, <1>10, <1>13
  <2>2. D2[n] = D[n]
    BY <1>2, <2>1 DEF OpensComment, q
  <2>3. D[n] = flushed
    <3> SUFFICES ASSUME pending
                 PROVE  D[n] = OutOf(o, "Parser", w, Slash)
      BY <1>9
    <3>1. R[n - 1].kind = "outside" /\ R[n].kind = "outside" /\ D[n - 1] = w /\ n > 0 /\ t[n] = Slash
      BY <1>2, <1>6, <1>8, <1>9 DEF p
    <3>2. OutputFits(o, t[n], R[n - 1].kind, R[n].kind, w, OutputBehind(t, o, R, n, w))
      BY <1>5, <1>6, <3>1, LastOutput
    <3>3. OutputBehind(t, o, R, n, w) = OutOf(o, "Parser", w, Slash)
      BY <3>1, <3>2, Distinct DEF OutputFits
    <3> QED
      BY <1>2, <3>1, <3>3
  <2>4. D[n].out \in Seq(Character)
    BY <1>6, <2>3, AppendProperties DEF OutOf, Character
  <2>5. OutputFits(o, c, "outside", q.kind, D[n], D2[n + 1])
    <3>1. OutputFits(o, t2[n + 1], R2[n + 1 - 1].kind, R2[n + 1].kind, D[n], OutputBehind(t2, o, R2, n + 1, D[n]))
      BY <1>2, <2>4, LastOutput
    <3> QED
      BY <1>2, <1>6, <1>7, <2>2, <3>1 DEF q
  <2>6. s2 = IF c = Quote THEN "Literal" ELSE "Parser"
    BY <1>13 DEF s2, ParserBecomes, opens
  <2>7. InRegion(s2, q.kind)
    BY <2>1, <2>6 DEF InRegion
  <2>8. OpenedBy(t2, o, q)
    BY <1>2, <2>1 DEF OpenedBy
  <2>9. Pending(o, s2, c) <=> c = Slash /\ rc
    BY <2>6, Distinct DEF Pending, rc
  <2>10. w2 = D2[IF c = Slash /\ rc THEN n + 1 - 1 ELSE n + 1]
    <3>1. CASE c = Slash /\ rc
      <4>1. ~pending
        BY <1>13, <3>1 DEF opens, Opening, rc
      <4> QED
        BY <1>7, <2>2, <2>3, <3>1, <4>1 DEF w2, ParserWrites, rc
    <3>2. CASE ~(c = Slash /\ rc) /\ c = Tab /\ o.expandTab
      <4>1. ~pending
        <5>1. n \in 1 .. Len(t2) - 1 /\ rc => ~(t2[n] = Slash /\ t2[n + 1] = Tab)
          BY <3>2 DEF Clean, t2, rc
        <5> QED
          BY <1>2, <1>7, <1>8, <3>2, <5>1
      <4>2. D[n] = w /\ q.kind = "outside"
        BY <2>1, <2>3, <3>2, <4>1, Distinct
      <4> DEFINE m == o.tabStop - (w.column % o.tabStop)
      <4>3. Len(Spaces(m)) = m
        BY <1>6, <3>2, SpacesAre
      <4>4. D2[n + 1] = [out |-> w.out \o Spaces(m), column |-> w.column + Len(Spaces(m))]
        BY <2>5, <3>2, <4>2 DEF OutputFits
      <4>5. w2 = [out |-> w.out \o Spaces(m), column |-> w.column + m]
        BY <1>13, <3>2 DEF w2, ParserWrites, opens, rc
      <4> HIDE DEF m
      <4> QED
        BY <3>2, <4>3, <4>4, <4>5
    <3>3. CASE ~(c = Slash /\ rc) /\ ~(c = Tab /\ o.expandTab)
      <4>1. w2 = OutOf(o, "Parser", D[n], c)
        BY <1>13, <2>3, <3>3 DEF w2, ParserWrites, OutBehind, opens, rc
      <4>2. D2[n + 1] = OutOf(o, "Parser", D[n], c)
        <5>1. CASE c = Quote
          <6>1. D2[n + 1] = OutOf(o, "Literal", D[n], c)
            BY <2>1, <2>5, <5>1, Distinct DEF OutputFits
          <6> QED
            BY <5>1, <6>1, Distinct DEF OutOf
        <5>2. CASE c # Quote
          BY <2>1, <2>5, <3>3, <5>2 DEF OutputFits
        <5> QED
          BY <5>1, <5>2
      <4> QED
        BY <3>3, <4>1, <4>2
    <3> QED
      BY <3>1, <3>2, <3>3
  <2> QED
    BY <1>4, <1>11, <2>7, <2>8, <2>9, <2>10 DEF t2, s2, w2
<1> QED
  BY <1>12, <1>13

(* The handlers of JsonParserObject.cpp take these steps.                  *)
OutOfIn(s, w, c) == OutIn(s, w, c) = OutOf(option, s, w, c)

LEMMA OutInIs ==
    ASSUME NEW s, NEW w, NEW c
    PROVE  OutOfIn(s, w, c)
BY DEF OutOfIn, OutIn, OutOf

LEMMA WriteIs ==
    ASSUME NEW w, w = [out |-> w.out, column |-> w.column], Write(w)
    PROVE  Written' = w
BY DEF Write, Written

LEMMA OutOfShape ==
    ASSUME NEW o, NEW s, NEW w, w = [out |-> w.out, column |-> w.column], NEW c
    PROVE  LET r == OutOf(o, s, w, c) IN r = [out |-> r.out, column |-> r.column]
BY DEF OutOf

Follow(t) == Follows(t, option, state, previous, Written)

(* What preprocess() reads with.                                           *)
Reading ==
    /\ text \in Seq(Character)
    /\ option.tabStop \in Nat /\ (option.expandTab => option.tabStop > 1)
    /\ ~(option.removeSpace /\ option.expandTab)
    /\ IsOutput(Written)

LEMMA ParserFollows ==
    ASSUME Reading, Follow(text), NEW c \in Character, Clean(Append(text, c), option),
           ParserStateHandle(c)
    PROVE  Follows(Append(text, c), option, state', previous', Written')
<1>1. state = "Parser" /\ Follows(text, option, "Parser", previous, Written)
  BY DEF ParserStateHandle, Follow
<1>2. Follows(Append(text, c), option, ParserBecomes(option, previous, c), c,
              ParserWrites(option, Written, previous, c))
  BY <1>1, ParserStep DEF Reading
<1>3. previous' = c
  BY DEF ParserStateHandle
<1>4. state' = ParserBecomes(option, previous, c)
  BY Distinct DEF ParserStateHandle, ParserBecomes, Opening
<1>5. ParserOut(c) = OutBehind(option, Written, previous, c)
  BY <1>1, OutInIs DEF ParserOut, OutBehind, OutOfIn
<1>6. /\ Written.out = out /\ Written.column = column
      /\ Written = [out |-> Written.out, column |-> Written.column]
  BY DEF Written
<1>7. Written' = ParserWrites(option, Written, previous, c)
  <2>1. CASE Opening(option, previous, c) \/ (c = Slash /\ option.removeComment)
    <3>1. UNCHANGED <<out, column>>
      BY <2>1, Distinct DEF ParserStateHandle, Opening
    <3> QED
      BY <2>1, <3>1 DEF ParserWrites, Written
  <2>2. CASE /\ ~(Opening(option, previous, c) \/ (c = Slash /\ option.removeComment))
             /\ c = Tab /\ option.expandTab
    <3> DEFINE m == option.tabStop - (column % option.tabStop)
    <3>1. Write([out |-> out \o Spaces(m), column |-> column + m])
      BY <2>2, Distinct DEF ParserStateHandle, Opening
    <3>2. Written' = [out |-> out \o Spaces(m), column |-> column + m]
      BY <3>1 DEF Write, Written
    <3> QED
      BY <1>6, <2>2, <3>2 DEF ParserWrites
  <2>3. CASE /\ ~(Opening(option, previous, c) \/ (c = Slash /\ option.removeComment))
             /\ ~(c = Tab /\ option.expandTab)
    <3>1. Write(ParserOut(c))
      BY <2>3, Distinct DEF ParserStateHandle, Opening
    <3> DEFINE b == OutBehind(option, Written, previous, c)
    <3>2. b = [out |-> b.out, column |-> b.column]
      BY <1>6, OutOfShape DEF OutBehind
    <3> HIDE DEF b
    <3>3. Written' = b
      BY <1>5, <3>1, <3>2, WriteIs DEF b
    <3> QED
      BY <2>3, <3>3 DEF ParserWrites, b
  <2> QED
    BY <2>1, <2>2, <2>3
<1> QED
  BY <1>2, <1>3, <1>4, <1>7

LEMMA CommentFollows ==
    ASSUME Reading, Follow(text), NEW c \in Character, Clean(Append(text, c), option),
           CommentStateHandle(c)
    PROVE  Follows(Append(text, c), option, state', previous', Written')
<1> DEFINE ends == c = Slash /\ previous = Star
<1>1. /\ state = "Comment" /\ Follows(text, option, "Comment", previous, Written)
      /\ Written.out \in Seq(Character) /\ ~(option.removeSpace /\ option.expandTab)
      /\ text \in Seq(Character) /\ ends \in BOOLEAN
  BY DEF CommentStateHandle, Follow, Reading, IsOutput, InColumn
<1>2. Follows(Append(text, c), option, IF ends THEN "Parser" ELSE "Comment", IF ends THEN Null ELSE c,
              IF c = EOL THEN OutOf(option, "Comment", Written, EOL) ELSE Written)
  BY <1>1, CommentStep
<1>3. Written' = IF c = EOL THEN OutOf(option, "Comment", Written, EOL) ELSE Written
  <2>1. CASE c = EOL
    <3>1. Write(OutIn("Comment", Written, EOL))
      BY <1>1, <2>1 DEF CommentStateHandle
    <3> DEFINE b == OutOf(option, "Comment", Written, EOL)
    <3>2. b = [out |-> b.out, column |-> b.column]
      BY OutOfShape DEF Written
    <3>3. OutIn("Comment", Written, EOL) = b
      BY OutInIs DEF OutOfIn
    <3> HIDE DEF b
    <3>4. Written' = b
      BY <3>1, <3>2, <3>3, WriteIs
    <3> QED
      BY <2>1, <3>4 DEF b
  <2>2. CASE c # EOL
    BY <2>2 DEF CommentStateHandle, Written
  <2> QED
    BY <2>1, <2>2
<1>4. state' = (IF ends THEN "Parser" ELSE "Comment") /\ previous' = IF ends THEN Null ELSE c
  BY DEF CommentStateHandle
<1> QED
  BY <1>2, <1>3, <1>4

LEMMA SingleLineFollows ==
    ASSUME Reading, Follow(text), NEW c \in Character, Clean(Append(text, c), option),
           SingleLineCommentStateHandle(c)
    PROVE  Follows(Append(text, c), option, state', previous', Written')
<1>1. /\ state = "SingleLineComment" /\ Follows(text, option, "SingleLineComment", previous, Written)
      /\ Written.out \in Seq(Character) /\ ~(option.removeSpace /\ option.expandTab)
      /\ text \in Seq(Character)
  BY DEF SingleLineCommentStateHandle, Follow, Reading, IsOutput, InColumn
<1>2. Follows(Append(text, c), option, IF c = EOL THEN "Parser" ELSE "SingleLineComment", c,
              IF c = EOL THEN OutOf(option, "Comment", Written, EOL) ELSE Written)
  BY <1>1, SingleLineStep
<1>3. Written' = IF c = EOL THEN OutOf(option, "Comment", Written, EOL) ELSE Written
  <2>1. CASE c = EOL
    <3>1. Write(OutIn("SingleLineComment", Written, EOL))
      BY <1>1, <2>1 DEF SingleLineCommentStateHandle
    <3> DEFINE b == OutOf(option, "Comment", Written, EOL)
    <3>2. b = [out |-> b.out, column |-> b.column]
      BY OutOfShape DEF Written
    <3>3. OutIn("SingleLineComment", Written, EOL) = b
      BY Distinct DEF OutIn, OutOf
    <3> HIDE DEF b
    <3>4. Written' = b
      BY <3>1, <3>2, <3>3, WriteIs
    <3> QED
      BY <2>1, <3>4 DEF b
  <2>2. CASE c # EOL
    BY <2>2 DEF SingleLineCommentStateHandle, Written
  <2> QED
    BY <2>1, <2>2
<1>4. state' = (IF c = EOL THEN "Parser" ELSE "SingleLineComment") /\ previous' = c
  BY <1>1 DEF SingleLineCommentStateHandle
<1> QED
  BY <1>2, <1>3, <1>4

LEMMA LiteralFollows ==
    ASSUME Reading, Follow(text), NEW c \in Character, Clean(Append(text, c), option),
           LiteralStateHandle(c)
    PROVE  Follows(Append(text, c), option, state', previous', Written')
<1> DEFINE w == IF previous = Escape
                THEN OutOf(option, "Literal", OutOf(option, "Literal", Written, Escape), c)
                ELSE IF c = Escape THEN Written ELSE OutOf(option, "Literal", Written, c)
<1>1. /\ state = "Literal" /\ Follows(text, option, "Literal", previous, Written)
      /\ Written.out \in Seq(Character) /\ ~(option.removeSpace /\ option.expandTab)
      /\ text \in Seq(Character)
  BY DEF LiteralStateHandle, Follow, Reading, IsOutput, InColumn
<1>2. Follows(Append(text, c), option, IF previous # Escape /\ c = Quote THEN "Parser" ELSE "Literal", c, w)
  BY <1>1, LiteralStep
<1>3. Written' = w
  <2>1. Written = [out |-> Written.out, column |-> Written.column]
    BY DEF Written
  <2>2. w = [out |-> w.out, column |-> w.column]
    BY <2>1, OutOfShape
  <2>3. CASE previous # Escape /\ c = Escape
    BY <2>3 DEF LiteralStateHandle, Written
  <2>4. CASE ~(previous # Escape /\ c = Escape)
    <3>1. Write(w)
      BY <1>1, <2>4, OutInIs DEF LiteralStateHandle, OutOfIn
    <3> HIDE DEF w
    <3> QED
      BY <2>2, <3>1, WriteIs
  <2> QED
    BY <2>3, <2>4
<1>4. state' = (IF previous # Escape /\ c = Quote THEN "Parser" ELSE "Literal") /\ previous' = c
  BY <1>1, Distinct DEF LiteralStateHandle
<1> QED
  BY <1>2, <1>3, <1>4

-----------------------------------------------------------------------------
(* What the parser keeps with what was read so far.                        *)
LEMMA CleanBefore ==
    ASSUME NEW t \in Seq(Character), NEW c \in Character, NEW o, Clean(Append(t, c), o)
    PROVE  Clean(t, o)
<1> DEFINE n == Len(t)
           t2 == Append(t, c)
<1>1. n \in Nat /\ Len(t2) = n + 1 /\ \A j \in 1 .. n : t2[j] = t[j]
  BY AppendProperties, LenProperties
<1>2. Clean(t2, o)
  OBVIOUS
<1> HIDE DEF t2
<1>3. ASSUME NEW k \in 1 .. n - 1
      PROVE  k \in 1 .. n + 1 - 1 /\ k \in 1 .. n /\ k + 1 \in 1 .. n
  BY <1>1
<1>4. ASSUME NEW k \in 1 .. n - 2
      PROVE  k \in 1 .. n + 1 - 2 /\ k \in 1 .. n /\ k + 1 \in 1 .. n /\ k + 2 \in 1 .. n
  BY <1>1
<1> HIDE DEF n
<1>5. ASSUME NEW k \in 1 .. n - 1
      PROVE  /\ ~(t[k] = Escape /\ t[k + 1] = Escape)
             /\ o.removeComment /\ o.expandTab => ~(t[k] = Slash /\ t[k + 1] = Tab)
  <2>1. t2[k] = t[k] /\ t2[k + 1] = t[k + 1] /\ k \in 1 .. Len(t2) - 1
    BY <1>1, <1>3
  <2> QED
    BY <1>2, <2>1 DEF Clean
<1>6. ASSUME NEW k \in 1 .. n - 2, o.removeComment
      PROVE  ~(t[k] = Slash /\ t[k + 1] = Star /\ t[k + 2] = Slash)
  <2>1. t2[k] = t[k] /\ t2[k + 1] = t[k + 1] /\ t2[k + 2] = t[k + 2] /\ k \in 1 .. Len(t2) - 2
    BY <1>1, <1>4
  <2> QED
    BY <1>2, <1>6, <2>1 DEF Clean
<1>7. ASSUME o.removeEol, NEW k \in 1 .. n
      PROVE  ~(t[k] = EOL /\ Regions(t, o.removeComment)[k - 1].kind = "literal")
  <2>1. t2[k] = t[k] /\ k \in 1 .. Len(t2) /\ k - 1 \in 0 .. n
    BY <1>1
  <2>2. Regions(t2, o.removeComment)[k - 1] = Regions(t, o.removeComment)[k - 1]
    BY <2>1, RegionsAreKept DEF n, t2
  <2> QED
    BY <1>2, <1>7, <2>1, <2>2 DEF Clean
<1> QED
  BY <1>5, <1>6, <1>7 DEF Clean, n

FollowsInv ==
    /\ ColumnInv
    /\ text \in Seq(Character)
    /\ phase = "args" => /\ text = <<>> /\ state = "Parser" /\ previous = Null
                         /\ Written = [out |-> <<>>, column |-> 0]
    /\ phase \in {"read", "done"} => /\ ~(option.removeSpace /\ option.expandTab)
                                     /\ Clean(text, option) => Follow(text)

LEMMA FollowsNothing ==
    ASSUME NEW o
    PROVE  Follows(<<>>, o, "Parser", Null, Nothing)
<1>1. <<>> \in Seq(Character) /\ Len(<<>>) = 0
  OBVIOUS
<1>2. Regions(<<>>, o.removeComment)[0] = Outside
  BY <1>1, RegionsAre
<1>3. Outputs(<<>>, o)[0] = Nothing
  BY <1>1, OutputsAre
<1>4. InRegion("Parser", Outside.kind) /\ PreviousIs(<<>>, Outside, Null) /\ OpenedBy(<<>>, o, Outside)
  BY <1>1 DEF InRegion, PreviousIs, OpenedBy, Outside
<1>5. ~Pending(o, "Parser", Null)
  BY Distinct DEF Pending
<1> QED
  BY <1>1, <1>2, <1>3, <1>4, <1>5 DEF Follows

LEMMA FollowsInit == Init => FollowsInv
<1> SUFFICES ASSUME Init PROVE FollowsInv
  OBVIOUS
<1>1. text = <<>> /\ state = "Parser" /\ previous = Null /\ out = <<>> /\ column = 0 /\ phase = "args"
  BY DEF Init
<1>2. text \in Seq(Character)
  BY <1>1
<1> QED
  BY <1>1, <1>2, ColumnInit DEF FollowsInv, Written

LEMMA FollowsStep ==
    ASSUME FollowsInv, [Next]_vars
    PROVE  FollowsInv'
<1>1. ColumnInv'
  BY ColumnStep DEF FollowsInv
<1>2. CASE CheckArg
  <2>1. /\ UNCHANGED <<text, state, previous, column, out>>
        /\ phase = "args" /\ phase' \in {"args", "usage error"}
    BY <1>2 DEF CheckArg, parser
  <2> QED
    BY <1>1, <2>1 DEF FollowsInv, Written
<1>3. CASE Start
  <2>1. UNCHANGED <<text, state, previous, column, out>> /\ phase = "args" /\ phase' # "args"
    BY <1>3 DEF Start, parser
  <2>2. phase' \in {"read", "done"} => ~(option'.removeSpace /\ option'.expandTab)
    BY <1>3 DEF Start
  <2>3. text' = <<>> /\ text' \in Seq(Character) /\ state' = "Parser" /\ previous' = Null /\ Written' = Nothing
    BY <2>1 DEF FollowsInv, Written, Nothing
  <2>4. Follow(text)'
    BY <2>3, FollowsNothing DEF Follow
  <2> QED
    BY <1>1, <2>1, <2>2, <2>3, <2>4 DEF FollowsInv
<1>4. ASSUME NEW c \in Character, Read(c)
      PROVE  FollowsInv'
  <2>1. phase = "read" /\ phase' = "read" /\ UNCHANGED option /\ text' = Append(text, c)
    BY <1>4 DEF Read
  <2>2. text \in Seq(Character) /\ text' \in Seq(Character)
    BY <2>1, AppendProperties DEF FollowsInv
  <2>3. ~(option.removeSpace /\ option.expandTab) /\ (Clean(text, option) => Follow(text))
    BY <2>1 DEF FollowsInv
  <2>4. ASSUME Clean(text', option)
        PROVE  Follows(text', option, state', previous', Written')
    <3>1. Follow(text)
      BY <2>1, <2>2, <2>3, <2>4, CleanBefore
    <3>2. Reading
      <4>1. ColumnInv
        BY DEF FollowsInv
      <4>2. option.tabStop \in Nat /\ (option.expandTab => option.tabStop > 1)
        BY <4>1 DEF ColumnInv, OptionsInv, ArgsOK, TabStopIsLegal, Option
      <4>3. IsOutput(Written)
        BY <4>1 DEF ColumnInv, IsOutput, Written
      <4> QED
        BY <2>2, <2>3, <4>2, <4>3 DEF Reading
    <3>3. Clean(Append(text, c), option)
      BY <2>1, <2>4
    <3>4. \/ ParserStateHandle(c) \/ CommentStateHandle(c)
          \/ SingleLineCommentStateHandle(c) \/ LiteralStateHandle(c)
      BY <1>4 DEF Read
    <3>5. Follows(Append(text, c), option, state', previous', Written')
      BY <3>1, <3>2, <3>3, <3>4, ParserFollows, CommentFollows, SingleLineFollows, LiteralFollows
    <3> QED
      BY <2>1, <3>5
  <2> QED
    BY <1>1, <2>1, <2>2, <2>3, <2>4 DEF FollowsInv, Follow
<1>5. CASE Stop \/ UNCHANGED vars
  <2>1. /\ UNCHANGED <<option, text, state, previous, column, out>>
        /\ (phase' = phase \/ (phase = "read" /\ phase' = "done"))
    BY <1>5 DEF Stop, vars, parser
  <2> QED
    BY <1>1, <2>1 DEF FollowsInv, Follow, Written
<1> QED
  BY <1>2, <1>3, <1>4, <1>5 DEF Next

(* A text without a known difference is clean.                             *)
LEMMA PairIsAdjacent ==
    ASSUME NEW t \in Seq(Character), NEW k \in 1 .. Len(t) - 1
    PROVE  SubSeq(t, k, k + Len(<<t[k], t[k + 1]>>) - 1) = <<t[k], t[k + 1]>>
<1>1. Len(<<t[k], t[k + 1]>>) = 2 /\ k + 2 - 1 = k + 1
  OBVIOUS
<1>2. SubSeq(t, k, k + 1) = <<t[k], t[k + 1]>>
  <2> DEFINE s == SubSeq(t, k, k + 1)
             r == <<t[k], t[k + 1]>>
  <2>1. /\ s \in Seq(Character) /\ Len(s) = 2 /\ \A i \in 1 .. 2 : s[i] = t[k + i - 1]
    <3> DEFINE last == k + 1
    <3>1. /\ k \in Int /\ last \in Int /\ k <= last /\ last - k + 1 = 2
          /\ \A i \in k .. last : i \in 1 .. Len(t)
      BY LenProperties
    <3> HIDE DEF last
    <3>2. \A i \in k .. last : t[i] \in Character
      BY <3>1, ElementOfSeq
    <3>3. LET u == SubSeq(t, k, last)
          IN  /\ u \in Seq(Character) /\ Len(u) = last - k + 1
              /\ \A i \in 1 .. last - k + 1 : u[i] = t[k + i - 1]
      BY <3>1, <3>2, SubSeqProperties
    <3> QED
      BY <3>1, <3>3 DEF last
  <2>2. r \in Seq(Character) /\ Len(r) = 2
    OBVIOUS
  <2>3. s[1] = r[1] /\ s[2] = r[2]
    BY <2>1
  <2>4. \A i \in 1 .. 2 : i = 1 \/ i = 2
    OBVIOUS
  <2> HIDE DEF s, r
  <2>5. \A i \in 1 .. Len(s) : s[i] = r[i]
    BY <2>1, <2>3, <2>4
  <2>6. s = r
    BY <2>1, <2>2, <2>5, SeqEqual
  <2> QED
    BY <2>6 DEF s, r
<1> QED
  BY <1>1, <1>2

LEMMA TripleIsAdjacent ==
    ASSUME NEW t \in Seq(Character), NEW k \in 1 .. Len(t) - 2
    PROVE  SubSeq(t, k, k + Len(<<t[k], t[k + 1], t[k + 2]>>) - 1) = <<t[k], t[k + 1], t[k + 2]>>
<1>1. Len(<<t[k], t[k + 1], t[k + 2]>>) = 3 /\ k + 3 - 1 = k + 2
  OBVIOUS
<1>2. SubSeq(t, k, k + 2) = <<t[k], t[k + 1], t[k + 2]>>
  <2> DEFINE s == SubSeq(t, k, k + 2)
             r == <<t[k], t[k + 1], t[k + 2]>>
  <2>1. /\ s \in Seq(Character) /\ Len(s) = 3 /\ \A i \in 1 .. 3 : s[i] = t[k + i - 1]
    <3> DEFINE last == k + 2
    <3>1. /\ k \in Int /\ last \in Int /\ k <= last /\ last - k + 1 = 3
          /\ \A i \in k .. last : i \in 1 .. Len(t)
      BY LenProperties
    <3> HIDE DEF last
    <3>2. \A i \in k .. last : t[i] \in Character
      BY <3>1, ElementOfSeq
    <3>3. LET u == SubSeq(t, k, last)
          IN  /\ u \in Seq(Character) /\ Len(u) = last - k + 1
              /\ \A i \in 1 .. last - k + 1 : u[i] = t[k + i - 1]
      BY <3>1, <3>2, SubSeqProperties
    <3> QED
      BY <3>1, <3>3 DEF last
  <2>2. r \in Seq(Character) /\ Len(r) = 3
    OBVIOUS
  <2>3. s[1] = r[1] /\ s[2] = r[2] /\ s[3] = r[3]
    BY <2>1
  <2>4. \A i \in 1 .. 3 : i = 1 \/ i = 2 \/ i = 3
    OBVIOUS
  <2> HIDE DEF s, r
  <2>5. \A i \in 1 .. Len(s) : s[i] = r[i]
    BY <2>1, <2>3, <2>4
  <2>6. s = r
    BY <2>1, <2>2, <2>5, SeqEqual
  <2> QED
    BY <2>6 DEF s, r
<1> QED
  BY <1>1, <1>2

LEMMA NoDifferenceIsClean ==
    ASSUME text \in Seq(Character), ~KnownDifference
    PROVE  Clean(text, option)
<1>1. Len(text) \in Nat
  BY LenProperties
<1>2. ASSUME NEW a, NEW b, NEW k \in 1 .. Len(text) - 1, text[k] = a, text[k + 1] = b
      PROVE  Adjacent(<<a, b>>)
  <2>1. SubSeq(text, k, k + Len(<<a, b>>) - 1) = <<a, b>>
    BY <1>2, PairIsAdjacent
  <2>2. k \in 1 .. Len(text) - Len(<<a, b>>) + 1
    BY <1>1
  <2> QED
    BY <2>1, <2>2 DEF Adjacent
<1>3. ASSUME NEW a, NEW b, NEW c, NEW k \in 1 .. Len(text) - 2, text[k] = a, text[k + 1] = b, text[k + 2] = c
      PROVE  Adjacent(<<a, b, c>>)
  <2>1. SubSeq(text, k, k + Len(<<a, b, c>>) - 1) = <<a, b, c>>
    BY <1>3, TripleIsAdjacent
  <2>2. k \in 1 .. Len(text) - Len(<<a, b, c>>) + 1
    BY <1>1
  <2> QED
    BY <2>1, <2>2 DEF Adjacent
<1> QED
  BY <1>2, <1>3 DEF Clean, KnownDifference, LiteralHasEOL

(* Whatever the text and the options, the characters that the four states  *)
(* of the parser write one by one are the text that the usage message of   *)
(* jpp promises, with its comments, spaces and ends of line removed and    *)
(* its tabs expanded, and its literals as they are; but for the texts of   *)
(* KnownDifference and those that end with an escape inside a literal.     *)
THEOREM OutputIsExact == Spec => []OutputIsPreprocessed
<1>1. Init => FollowsInv
  BY FollowsInit
<1>2. FollowsInv /\ [Next]_vars => FollowsInv'
  BY FollowsStep
<1>3. ASSUME FollowsInv PROVE OutputIsPreprocessed
  <2> SUFFICES ASSUME phase = "done", ~KnownDifference, ~Unfinished
               PROVE  out = Preprocessed(text, option)
    BY DEF OutputIsPreprocessed
  <2>1. text \in Seq(Character) /\ Clean(text, option)
    BY <1>3, NoDifferenceIsClean DEF FollowsInv
  <2>2. Follows(text, option, state, previous, Written)
    BY <1>3, <2>1 DEF FollowsInv, Follow
  <2>3. ~Pending(option, state, previous)
    <3> SUFFICES ASSUME option.removeComment, previous = Slash
                 PROVE  FALSE
      BY DEF Pending, Unfinished
    <3>1. Len(text) # 0 /\ text[Len(text)] = Slash
      BY <2>2, Distinct DEF Follows, PreviousIs
    <3>2. text # <<>>
      BY <3>1
    <3> QED
      BY <3>1, <3>2 DEF KnownDifference
  <2>4. Written = Outputs(text, option)[Len(text)]
    BY <2>2, <2>3 DEF Follows
  <2> QED
    BY <2>4 DEF Preprocessed, Written
<1> QED
  BY <1>1, <1>2, <1>3, PTL DEF Spec

=============================================================================
