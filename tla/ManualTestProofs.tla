--------------------------- MODULE ManualTestProofs ---------------------------
(***************************************************************************)
(* Theorems about ManualTest, for any addresses, names and events: what    *)
(* the dialog shows, and points to, is what the machine is in.             *)
(***************************************************************************)
EXTENDS ManualTest, FiniteSetTheorems, SequenceTheorems, FunctionTheorems,
        WellFoundedInduction, NaturalsInduction, TLAPS

(* The inductive invariant, in parts.                                      *)

(* s is what updateStates() finds from o: each object once, and none freed. *)
Whole(obj, o, s) ==
    /\ s \in Path
    /\ IsChain(obj, o, s)
    /\ \A i, j \in 1 .. Len(s) : s[i] = s[j] => i = j
    /\ \A i \in 1 .. Len(s) : obj[s[i]].name # ""

Good(obj, o) == o \in Object \cup {None} /\ \E s \in Path : Whole(obj, o, s)

Memory == [Object -> [name : Name \cup {""}, master : Object \cup {None}]]
Message == {"Setup", "HandleEvent", "StateChanged"}

Types ==
    /\ object \in Memory
    /\ current \in Object \cup {None}
    /\ queue \in Seq(Event)
    /\ timers \subseteq Event
    /\ posted \in Seq(Message)
    /\ nextName \in Name \cup {""}

(* Nothing that the machine or an event refers to is freed.                *)
AllGood(obj, cur, events) == Good(obj, cur) /\ \A e \in events : Good(obj, e.next)
RootsAreGood == AllGood(object, current, Under)

OptionOf(obj, list, text) ==
    LET S == {i \in 1 .. Len(list) : obj[list[i]].name = text}
    IN  IF S = {} THEN None ELSE list[CHOOSE i \in S : \A j \in S : i <= j]
AskedOf(obj, list, text) == text # "" /\ list # <<>> /\ OptionOf(obj, list, text) = None
RowOf(obj, o) == <<obj[o].name, o, obj[o].master # None>>
RowsOf(obj, list) == [i \in 1 .. Len(list) |-> AddItems(StatesColumns, RowOf(obj, list[i]))]

(* The dialog shows what the machine is in.                                *)
IsShown(obj, cur, list, view, next, en) ==
    /\ list = Chain(obj, cur)
    /\ view = RowsOf(obj, list)
    /\ next = "" \/ en = AskedOf(obj, list, next)

Shown == IsShown(object, current, stateList, statesView, nextName, enabled)

(* What is not shown is about to be.                                       *)
Told(msgs) == "Setup" \in ToSet(msgs) \/ "StateChanged" \in ToSet(msgs)
ShownOrTold == current # None /\ ~Told(posted) => Shown

Inv == Types /\ RootsAreGood /\ ShownOrTold

-----------------------------------------------------------------------------
(* The rows of the list view.                                              *)

(* The leftmost column is moved to the front and back.                     *)
LEMMA LeastIndex ==
    ASSUME NEW T \in SUBSET Nat, T # {}
    PROVE  \E i \in T : \A j \in T : i <= j
<1>1. T \subseteq Nat /\ T # {}
  OBVIOUS
<1> DEFINE Less == OpToRel(<, Nat)
<1>2. \A j, k \in Nat : j < k => <<j, k>> \in Less
  BY Zenon DEF OpToRel
<1>3. IsWellFoundedOn(Less, Nat)
  BY NatLessThanWellFounded
<1> HIDE DEF Less
<1>4. PICK i \in T : \A j \in T : ~(<<j, i>> \in Less)
  BY <1>1, <1>3, WFMin
<1>5. ASSUME NEW j \in T
      PROVE  i <= j
  <2>1. i \in Nat /\ j \in Nat /\ ~(<<j, i>> \in Less)
    BY <1>1, <1>4
  <2>2. ~(j < i)
    BY <1>2, <2>1
  <2> QED
    BY <2>1, <2>2
<1> QED
  BY <1>5

LEMMA CopiedRow ==
    ASSUME NEW columns \in Seq(ColumnType), columns # <<>>,
           NEW items, Len(items) = Len(columns),
           items = [i \in 1 .. Len(columns) |-> items[i]]
    PROVE  Copied(columns, AddItems(columns, items)) = items
<1> DEFINE n == Len(columns)
           left == LeftMost(columns)
           row == AddItems(columns, items)
<1>1. n \in Nat /\ n >= 1
  BY EmptySeq, LenProperties
<1>2. left \in 1 .. n
  <2> DEFINE S == {i \in 1 .. n : columns[i] = "String"}
  <2>1. left = IF S = {} THEN 1 ELSE CHOOSE i \in S : \A j \in S : i <= j
    BY DEF LeftMost
  <2>2. S \subseteq 1 .. n /\ S \in SUBSET Nat
    BY <1>1
  <2> HIDE DEF S
  <2>3. CASE S = {}
    BY <1>1, <2>1, <2>3
  <2>4. CASE S # {}
    <3>1. \E i \in S : \A j \in S : i <= j
      BY <2>2, <2>4, LeastIndex
    <3>2. (CHOOSE i \in S : \A j \in S : i <= j) \in S
      BY <3>1
    <3> QED
      BY <2>1, <2>2, <2>4, <3>2
  <2> QED
    BY <2>3, <2>4
<1> HIDE DEF left
<1>3. row = [i \in 1 .. n |-> items[Order(left, i)]]
  BY <1>1, <1>2 DEF AddItems, left
<1> HIDE DEF row
<1>4. Copied(columns, row) = [k \in 1 .. n |-> row[IF k < left THEN k + 1 ELSE IF k = left THEN 1 ELSE k]]
  BY DEF Copied, ItemText, left
<1>5. ASSUME NEW k \in 1 .. n
      PROVE  row[IF k < left THEN k + 1 ELSE IF k = left THEN 1 ELSE k] = items[k]
  <2>1. CASE k < left
    <3>1. k + 1 \in 1 .. n /\ Order(left, k + 1) = k
      BY <1>1, <1>2, <2>1 DEF Order
    <3> QED
      BY <1>3, <2>1, <3>1
  <2>2. CASE k = left
    <3>1. 1 \in 1 .. n /\ Order(left, 1) = k
      BY <1>1, <2>2 DEF Order
    <3> QED
      BY <1>2, <1>3, <2>2, <3>1
  <2>3. CASE k > left
    <3>1. Order(left, k) = k
      BY <1>1, <1>2, <2>3 DEF Order
    <3> QED
      BY <1>2, <1>3, <2>3, <3>1
  <2> QED
    BY <1>1, <1>2, <2>1, <2>2, <2>3
<1>6. [k \in 1 .. n |-> row[IF k < left THEN k + 1 ELSE IF k = left THEN 1 ELSE k]] = [k \in 1 .. n |-> items[k]]
  BY <1>5
<1>7. Copied(columns, row) = [k \in 1 .. n |-> items[k]]
  BY <1>4, <1>6
<1> QED
  BY <1>7 DEF row


-----------------------------------------------------------------------------
(* What a state and its masters are.                                       *)
LEMMA InPath ==
    ASSUME NEW s \in Path
    PROVE  /\ s \in Seq(Object)
           /\ Len(s) \in 0 .. Cardinality(Object)
           /\ \A i \in 1 .. Len(s) : s[i] \in Object /\ s[i] # None
<1>1. PICK n \in 0 .. Cardinality(Object) : s \in [1 .. n -> Object]
  BY DEF Path
<1>2. Cardinality(Object) \in Nat
  BY ManualTestAssumption, FS_CardinalityType
<1>3. n \in Nat
  BY <1>1, <1>2
<1>4. s \in Seq(Object)
  BY <1>1, <1>3, SeqDef
<1>5. Len(s) = n
  BY <1>1, <1>3, <1>4, LenProperties
<1> QED
  BY <1>1, <1>4, <1>5, ManualTestAssumption

LEMMA IsInPath ==
    ASSUME NEW s \in Seq(Object), Len(s) <= Cardinality(Object)
    PROVE  s \in Path
<1>1. Len(s) \in Nat /\ s \in [1 .. Len(s) -> Object]
  BY LenProperties
<1>2. Cardinality(Object) \in Nat
  BY ManualTestAssumption, FS_CardinalityType
<1>3. Len(s) \in 0 .. Cardinality(Object)
  BY <1>1, <1>2
<1> QED
  BY <1>1, <1>3 DEF Path

(* There is one way through the masters of a state.                        *)
LEMMA ShorterIsSame ==
    ASSUME NEW obj, NEW o, NEW s \in Path, NEW t \in Path,
           IsChain(obj, o, s), IsChain(obj, o, t), Len(s) <= Len(t)
    PROVE  s = t
<1> DEFINE At(u, i) == IF i <= Len(u) THEN u[i] ELSE None
           T == {i \in 1 .. Len(s) + 1 : At(s, i) # At(t, i)}
<1>1. Len(s) \in Nat /\ Len(t) \in Nat /\ s \in Seq(Object) /\ t \in Seq(Object)
  BY InPath
<1>2. \A i \in 1 .. Len(s) + 1 : At(s, i) = IF i = 1 THEN o ELSE obj[s[i - 1]].master
  BY DEF IsChain
<1>3. \A i \in 1 .. Len(t) + 1 : At(t, i) = IF i = 1 THEN o ELSE obj[t[i - 1]].master
  BY DEF IsChain
<1>4. ASSUME T # {}
      PROVE  FALSE
  <2>1. T \in SUBSET Nat
    BY <1>1
  <2> HIDE DEF T
  <2>2. PICK i \in T : \A j \in T : i <= j
    BY <1>4, <2>1, LeastIndex
  <2>3. i \in 1 .. Len(s) + 1 /\ i \in 1 .. Len(t) + 1 /\ At(s, i) # At(t, i)
    BY <1>1, <2>2 DEF T
  <2> HIDE DEF At
  <2>4. i # 1
    BY <1>2, <1>3, <2>3
  <2>5. i - 1 \in 1 .. Len(s) /\ i - 1 \in 1 .. Len(t) /\ i - 1 \in 1 .. Len(s) + 1 /\ ~(i <= i - 1)
    BY <1>1, <2>3, <2>4
  <2>6. ~(i - 1 \in T)
    BY <2>2, <2>5
  <2>7. At(s, i - 1) = At(t, i - 1)
    BY <2>5, <2>6 DEF T
  <2>8. s[i - 1] = t[i - 1]
    BY <2>5, <2>7 DEF At
  <2> QED
    BY <1>2, <1>3, <2>3, <2>4, <2>8
<1>5. \A i \in 1 .. Len(s) + 1 : At(s, i) = At(t, i)
  BY <1>4
<1>6. Len(s) = Len(t)
  <2>1. Len(s) + 1 \in 1 .. Len(s) + 1 /\ ~(Len(s) + 1 <= Len(s))
    BY <1>1
  <2>2. At(t, Len(s) + 1) = None
    BY <1>5, <2>1
  <2>3. ~(Len(s) + 1 \in 1 .. Len(t))
    BY <2>2, InPath
  <2> QED
    BY <1>1, <2>3
<1>7. \A i \in 1 .. Len(s) : s[i] = t[i]
  BY <1>1, <1>5, <1>6
<1> QED
  BY <1>1, <1>6, <1>7, SeqEqual

LEMMA ChainIs ==
    ASSUME NEW obj, NEW o, NEW s, Whole(obj, o, s)
    PROVE  Chain(obj, o) = s
<1>1. s \in Path /\ IsChain(obj, o, s)
  BY DEF Whole
<1> DEFINE t == Chain(obj, o)
<1>2. t \in Path /\ IsChain(obj, o, t)
  BY <1>1 DEF Chain
<1> HIDE DEF t
<1>3. Len(s) \in Nat /\ Len(t) \in Nat
  BY <1>1, <1>2, InPath
<1>4. Len(s) <= Len(t) \/ Len(t) <= Len(s)
  BY <1>3
<1>5. s = t
  BY <1>1, <1>2, <1>4, ShorterIsSame
<1> QED
  BY <1>5 DEF t

LEMMA ChainIsWhole ==
    ASSUME NEW obj, NEW o, Good(obj, o)
    PROVE  Whole(obj, o, Chain(obj, o))
BY ChainIs DEF Good

(* Where the states of a chain are as they were, so is the chain.          *)
LEMMA WholeIsKept ==
    ASSUME NEW obj, NEW obj2, NEW o, NEW s, Whole(obj, o, s),
           \A i \in 1 .. Len(s) : obj2[s[i]] = obj[s[i]]
    PROVE  Whole(obj2, o, s)
<1>1. s \in Path /\ Len(s) \in Nat
  <2>1. s \in Path
    BY DEF Whole
  <2> QED
    BY <2>1, InPath
<1>2. IsChain(obj2, o, s)
  <2> SUFFICES ASSUME NEW i \in 1 .. Len(s) + 1
               PROVE  (IF i <= Len(s) THEN s[i] ELSE None) = (IF i = 1 THEN o ELSE obj2[s[i - 1]].master)
    BY DEF IsChain
  <2>1. (IF i <= Len(s) THEN s[i] ELSE None) = (IF i = 1 THEN o ELSE obj[s[i - 1]].master)
    BY DEF Whole, IsChain
  <2>2. CASE i = 1
    BY <2>1, <2>2
  <2>3. CASE i # 1
    <3>1. i - 1 \in 1 .. Len(s)
      BY <1>1, <2>3
    <3>2. obj2[s[i - 1]] = obj[s[i - 1]]
      BY <3>1
    <3> QED
      BY <2>1, <2>3, <3>2
  <2> QED
    BY <2>2, <2>3
<1> QED
  BY <1>1, <1>2 DEF Whole

(* A state that is freed is in no chain.                                   *)
LEMMA FreeIsOutside ==
    ASSUME NEW obj, NEW o, NEW s, Whole(obj, o, s), NEW p, obj[p] = Freed
    PROVE  \A i \in 1 .. Len(s) : s[i] # p
<1>1. obj[p].name = ""
  <2>1. Freed.name = ""
    BY DEF Freed
  <2> QED
    BY <2>1
<1>2. \A i \in 1 .. Len(s) : obj[s[i]].name # ""
  BY DEF Whole
<1> QED
  BY <1>1, <1>2

(* The masters of a state of a chain are the rest of the chain.            *)
LEMMA SuffixIsWhole ==
    ASSUME NEW obj, NEW o, NEW s, Whole(obj, o, s), NEW k \in 1 .. Len(s)
    PROVE  Good(obj, s[k])
<1>1. s \in Path /\ s \in Seq(Object) /\ Len(s) \in Nat /\ Len(s) <= Cardinality(Object)
  <2>1. s \in Path
    BY DEF Whole
  <2>2. Cardinality(Object) \in Nat
    BY ManualTestAssumption, FS_CardinalityType
  <2> QED
    BY <2>1, <2>2, InPath
<1> DEFINE n == Len(s) - k + 1
           t == SubSeq(s, k, Len(s))
<1>2. /\ t \in Seq(Object) /\ Len(t) = n
      /\ \A i \in 1 .. n : t[i] = s[k + i - 1]
  BY <1>1, SubSeqProperties
<1> HIDE DEF t
<1>3. t \in Path
  <2>1. Cardinality(Object) \in Nat
    BY ManualTestAssumption, FS_CardinalityType
  <2>2. n <= Cardinality(Object)
    BY <1>1, <2>1
  <2> QED
    BY <1>2, <2>2, IsInPath
<1>4. \A i \in 1 .. n : k + i - 1 \in 1 .. Len(s) /\ t[i] = s[k + i - 1]
  BY <1>1, <1>2
<1>5. IsChain(obj, s[k], t)
  <2> SUFFICES ASSUME NEW i \in 1 .. n + 1
               PROVE  (IF i <= n THEN t[i] ELSE None) = (IF i = 1 THEN s[k] ELSE obj[t[i - 1]].master)
    BY <1>2 DEF IsChain
  <2>1. CASE i = 1
    <3>1. 1 \in 1 .. n /\ k + 1 - 1 = k
      BY <1>1
    <3> QED
      BY <1>4, <2>1, <3>1
  <2>2. CASE i # 1
    <3> DEFINE j == k + i - 1
    <3>1. j \in 1 .. Len(s) + 1 /\ j # 1 /\ (i <= n <=> j <= Len(s)) /\ j - 1 = k + (i - 1) - 1 /\ i - 1 \in 1 .. n
      BY <1>1, <2>2
    <3>2. (IF j <= Len(s) THEN s[j] ELSE None) = obj[s[j - 1]].master
      BY <3>1 DEF Whole, IsChain
    <3>3. t[i - 1] = s[j - 1]
      BY <1>4, <3>1
    <3>4. i <= n => i \in 1 .. n
      BY <1>1
    <3>5. i <= n => t[i] = s[j]
      BY <1>4, <3>4
    <3> HIDE DEF j, n
    <3> QED
      BY <2>2, <3>1, <3>2, <3>3, <3>5
  <2> QED
    BY <2>1, <2>2
<1>6. \A i, j \in 1 .. n : t[i] = t[j] => i = j
  <2> SUFFICES ASSUME NEW i \in 1 .. n, NEW j \in 1 .. n, t[i] = t[j]
               PROVE  i = j
    OBVIOUS
  <2>1. k + i - 1 = k + j - 1
    BY <1>4 DEF Whole
  <2> QED
    BY <1>1, <2>1
<1>7. \A i \in 1 .. n : obj[t[i]].name # ""
  <2>1. \A i \in 1 .. Len(s) : obj[s[i]].name # ""
    BY DEF Whole
  <2> HIDE DEF n
  <2> QED
    BY <1>4, <2>1
<1>8. Whole(obj, s[k], t)
  BY <1>2, <1>3, <1>5, <1>6, <1>7 DEF Whole
<1> QED
  BY <1>1, <1>3, <1>8, InPath DEF Good

(* No state has no masters.                                                *)
LEMMA NoneIsGood ==
    ASSUME NEW obj
    PROVE  Good(obj, None)
<1> DEFINE s == <<>>
<1>1. s \in Seq(Object) /\ Len(s) = 0
  BY EmptySeq
<1>2. Cardinality(Object) \in Nat
  BY ManualTestAssumption, FS_CardinalityType
<1> HIDE DEF s
<1>3. s \in Path
  <2>1. Len(s) <= Cardinality(Object)
    BY <1>1, <1>2
  <2> QED
    BY <1>1, <2>1, IsInPath
<1>4. \A i \in 1 .. Len(s) : FALSE
  BY <1>1
<1>5. \A i \in 1 .. Len(s) + 1 : i = 1 /\ ~(i <= Len(s))
  BY <1>1
<1>6. IsChain(obj, None, s)
  BY <1>5 DEF IsChain
<1>7. Whole(obj, None, s)
  BY <1>3, <1>4, <1>6 DEF Whole
<1> QED
  BY <1>3, <1>7 DEF Good

Same(obj, obj2, o) ==
    \A i \in 1 .. Len(Chain(obj, o)) : obj2[Chain(obj, o)[i]] = obj[Chain(obj, o)[i]]

LEMMA GoodIsKept ==
    ASSUME NEW obj, NEW obj2, NEW o, Good(obj, o), Same(obj, obj2, o)
    PROVE  Good(obj2, o) /\ Chain(obj2, o) = Chain(obj, o)
<1>1. Whole(obj, o, Chain(obj, o))
  BY ChainIsWhole
<1>2. Whole(obj2, o, Chain(obj, o))
  BY <1>1, WholeIsKept DEF Same
<1>3. Chain(obj, o) \in Path
  BY <1>1 DEF Whole
<1> QED
  BY <1>2, <1>3, ChainIs DEF Good

(* A state made of free memory stands before its master's chain, and no    *)
(* other chain is changed.                                                 *)
IsCreated(obj, obj2, o, m) ==
    /\ o \in Object
    /\ obj[o] = Freed
    /\ obj2[o].name # "" /\ obj2[o].master = m
    /\ \A p \in Object : p # o => obj2[p] = obj[p]

LEMMA CreatedKeepsOthers ==
    ASSUME NEW obj, NEW obj2, NEW o, NEW m, IsCreated(obj, obj2, o, m),
           NEW r, Good(obj, r)
    PROVE  Same(obj, obj2, r)
<1> DEFINE s == Chain(obj, r)
<1>1. Whole(obj, r, s)
  BY ChainIsWhole
<1> HIDE DEF s
<1>2. s \in Path
  BY <1>1 DEF Whole
<1>3. obj[o] = Freed
  BY DEF IsCreated
<1>4. \A i \in 1 .. Len(s) : s[i] \in Object /\ s[i] # o
  BY <1>1, <1>2, <1>3, InPath, FreeIsOutside
<1>5. \A i \in 1 .. Len(s) : obj2[s[i]] = obj[s[i]]
  BY <1>4 DEF IsCreated
<1> QED
  BY <1>5 DEF Same, s

LEMMA CreatedIsGood ==
    ASSUME NEW obj, NEW obj2, NEW o, NEW m, IsCreated(obj, obj2, o, m), Good(obj, m)
    PROVE  Good(obj2, o)
<1> DEFINE s == Chain(obj, m)
           t == <<o>> \o s
<1>1. Whole(obj, m, s)
  BY ChainIsWhole
<1>2. Same(obj, obj2, m)
  BY CreatedKeepsOthers
<1>3. Whole(obj2, m, s)
  BY <1>1, <1>2, WholeIsKept DEF Same
<1>4. o \in Object /\ obj[o] = Freed /\ obj2[o].name # "" /\ obj2[o].master = m
  BY DEF IsCreated
<1>5. \A i \in 1 .. Len(s) : s[i] # o
  BY <1>1, <1>4, FreeIsOutside
<1> HIDE DEF s
<1>6. s \in Path /\ s \in Seq(Object) /\ Len(s) \in Nat
  <2>1. s \in Path
    BY <1>1 DEF Whole
  <2> QED
    BY <2>1, InPath
<1>7. /\ t \in Seq(Object) /\ Len(t) = Len(s) + 1 /\ t[1] = o
      /\ \A i \in 1 .. Len(s) : t[i + 1] = s[i]
  <2> DEFINE u == <<o>>
  <2>1. u \in Seq(Object) /\ Len(u) = 1 /\ u[1] = o
    <3>1. o \in Object
      BY <1>4
    <3> QED
      BY <3>1
  <2> HIDE DEF u
  <2>2. /\ u \o s \in Seq(Object) /\ Len(u \o s) = 1 + Len(s)
        /\ \A i \in 1 .. 1 + Len(s) : (u \o s)[i] = IF i <= 1 THEN u[i] ELSE s[i - 1]
    <3>1. /\ u \o s \in Seq(Object) /\ Len(u \o s) = Len(u) + Len(s)
          /\ \A i \in 1 .. Len(u) + Len(s) : (u \o s)[i] = IF i <= Len(u) THEN u[i] ELSE s[i - Len(u)]
      BY <1>6, <2>1, ConcatProperties
    <3> QED
      BY <2>1, <3>1
  <2>3. 1 \in 1 .. 1 + Len(s) /\ Len(s) + 1 = 1 + Len(s)
    BY <1>6
  <2>4. (u \o s)[1] = o
    BY <2>1, <2>2, <2>3
  <2>5. ASSUME NEW i \in 1 .. Len(s)
        PROVE  (u \o s)[i + 1] = s[i]
    <3>1. i + 1 \in 1 .. 1 + Len(s) /\ ~(i + 1 <= 1) /\ i + 1 - 1 = i
      BY <1>6
    <3> QED
      BY <2>2, <3>1
  <2> QED
    BY <2>2, <2>3, <2>4, <2>5 DEF u
<1> HIDE DEF t
<1>8. \A i \in 1 .. Len(t) : i = 1 \/ (i - 1 \in 1 .. Len(s) /\ t[i] = s[i - 1])
  <2> SUFFICES ASSUME NEW i \in 1 .. Len(t), i # 1
               PROVE  i - 1 \in 1 .. Len(s) /\ t[i] = s[i - 1]
    OBVIOUS
  <2>1. i - 1 \in 1 .. Len(s) /\ i - 1 + 1 = i
    BY <1>6, <1>7
  <2> QED
    BY <1>7, <2>1
<1>9. \A i, j \in 1 .. Len(t) : t[i] = t[j] => i = j
  <2> SUFFICES ASSUME NEW i \in 1 .. Len(t), NEW j \in 1 .. Len(t), t[i] = t[j]
               PROVE  i = j
    OBVIOUS
  <2>1. CASE i = 1 \/ j = 1
    BY <1>5, <1>7, <1>8, <2>1
  <2>2. CASE i # 1 /\ j # 1
    <3>1. i - 1 \in 1 .. Len(s) /\ j - 1 \in 1 .. Len(s) /\ s[i - 1] = s[j - 1]
      BY <1>8, <2>2
    <3>2. i - 1 = j - 1
      BY <1>1, <3>1 DEF Whole
    <3> QED
      BY <1>6, <1>7, <3>2
  <2> QED
    BY <2>1, <2>2
<1>10. Len(t) <= Cardinality(Object)
  <2>1. Len(t) \in Nat /\ t \in [1 .. Len(t) -> Object]
    BY <1>7, LenProperties
  <2>2. t \in Injection(1 .. Len(t), Object)
    BY <1>9, <2>1 DEF Injection, IsInjective
  <2>3. Cardinality(1 .. Len(t)) <= Cardinality(Object)
    BY <2>2, FS_Injection, ManualTestAssumption
  <2>4. Cardinality(1 .. Len(t)) = IF 1 > Len(t) THEN 0 ELSE Len(t) - 1 + 1
    BY <2>1, FS_Interval
  <2>5. Cardinality(Object) \in Nat
    BY ManualTestAssumption, FS_CardinalityType
  <2> QED
    BY <2>1, <2>3, <2>4, <2>5
<1>11. t \in Path
  BY <1>7, <1>10, IsInPath
<1>12. IsChain(obj2, o, t)
  <2> SUFFICES ASSUME NEW i \in 1 .. Len(t) + 1
               PROVE  (IF i <= Len(t) THEN t[i] ELSE None) = (IF i = 1 THEN o ELSE obj2[t[i - 1]].master)
    BY DEF IsChain
  <2>1. CASE i = 1
    BY <1>6, <1>7, <2>1
  <2>2. CASE i # 1
    <3> DEFINE j == i - 1
    <3>1. j \in 1 .. Len(s) + 1 /\ (i <= Len(t) <=> j <= Len(s)) /\ (i <= Len(t) => i \in 1 .. Len(t)) /\ j \in 1 .. Len(t)
      BY <1>6, <1>7, <2>2
    <3> HIDE DEF j
    <3>2. (IF j <= Len(s) THEN s[j] ELSE None) = (IF j = 1 THEN m ELSE obj2[s[j - 1]].master)
      BY <1>3, <3>1 DEF Whole, IsChain
    <3>3. i <= Len(t) => t[i] = s[j]
      BY <1>8, <2>2, <3>1 DEF j
    <3>4. (IF j = 1 THEN m ELSE obj2[s[j - 1]].master) = obj2[t[j]].master
      BY <1>4, <1>7, <1>8, <3>1
    <3> QED
      BY <2>2, <3>1, <3>2, <3>3, <3>4 DEF j
  <2> QED
    BY <2>1, <2>2
<1>13. \A i \in 1 .. Len(t) : obj2[t[i]].name # ""
  <2>1. \A i \in 1 .. Len(s) : obj2[s[i]].name # ""
    BY <1>3 DEF Whole
  <2> QED
    BY <1>4, <1>7, <1>8, <2>1
<1>14. Whole(obj2, o, t)
  BY <1>9, <1>11, <1>12, <1>13 DEF Whole
<1> QED
  BY <1>4, <1>11, <1>14 DEF Good

(* What is freed is in no chain of those that are left.                    *)
Chains(obj, R) == UNION {ToSet(Chain(obj, o)) : o \in R}

LEMMA FreedKeepsOthers ==
    ASSUME NEW obj, NEW R, \A r \in R : Good(obj, r), NEW obj2,
           obj2 = [o \in Object |-> IF o \in Chains(obj, R) THEN obj[o] ELSE Freed]
    PROVE  \A r \in R : Good(obj, r) /\ Same(obj, obj2, r)
<1> SUFFICES ASSUME NEW r \in R
             PROVE  Same(obj, obj2, r)
  OBVIOUS
<1> DEFINE s == Chain(obj, r)
<1>1. Whole(obj, r, s)
  BY ChainIsWhole
<1>2. ToSet(s) \subseteq Chains(obj, R)
  BY DEF Chains
<1> HIDE DEF s
<1>3. s \in Path
  BY <1>1 DEF Whole
<1>4. s \in Seq(Object) /\ DOMAIN s = 1 .. Len(s)
  BY <1>3, InPath, LenProperties
<1>5. \A i \in 1 .. Len(s) : s[i] \in ToSet(s) /\ s[i] \in Object
  BY <1>3, <1>4, InPath DEF ToSet
<1>6. \A i \in 1 .. Len(s) : obj2[s[i]] = obj[s[i]]
  BY <1>2, <1>5
<1> QED
  BY <1>6 DEF Same, s

LEMMA FreedIsMemory ==
    ASSUME NEW obj \in Memory, NEW A
    PROVE  [o \in Object |-> IF o \in A THEN obj[o] ELSE Freed] \in Memory
<1>1. Freed \in [name : Name \cup {""}, master : Object \cup {None}]
  BY DEF Freed
<1>2. \A o \in Object : obj[o] \in [name : Name \cup {""}, master : Object \cup {None}]
  BY DEF Memory
<1> QED
  BY <1>1, <1>2 DEF Memory

-----------------------------------------------------------------------------
(* What is looked up in a list is one of its states, if one has the name.  *)
LEMMA OptionIs ==
    ASSUME NEW obj, NEW list \in Seq(Object), NEW text
    PROVE  \/ /\ OptionOf(obj, list, text) = None
              /\ \A i \in 1 .. Len(list) : obj[list[i]].name # text
           \/ \E i \in 1 .. Len(list) :
                /\ OptionOf(obj, list, text) = list[i]
                /\ obj[list[i]].name = text
<1> DEFINE S == {i \in 1 .. Len(list) : obj[list[i]].name = text}
           k == CHOOSE i \in S : \A j \in S : i <= j
<1>1. OptionOf(obj, list, text) = IF S = {} THEN None ELSE list[k]
  BY DEF OptionOf
<1>2. S \in SUBSET Nat
  OBVIOUS
<1>3. CASE S = {}
  BY <1>1, <1>3
<1>4. CASE S # {}
  <2>1. \E i \in S : \A j \in S : i <= j
    BY <1>2, <1>4, LeastIndex
  <2>2. k \in S
    BY <2>1
  <2> QED
    BY <1>1, <1>4, <2>2
<1> QED
  BY <1>3, <1>4

LEMMA RestOfList ==
    ASSUME NEW list \in Seq(Object)
    PROVE  LET rest == SubSeq(list, 2, Len(list))
           IN  /\ rest \in Seq(Object)
               /\ \A i \in 1 .. Len(rest) : i + 1 \in 1 .. Len(list) /\ rest[i] = list[i + 1]
               /\ \A i \in 1 .. Len(list) : i # 1 => i - 1 \in 1 .. Len(rest) /\ rest[i - 1] = list[i]
<1> DEFINE n == Len(list)
           rest == SubSeq(list, 2, n)
<1>1. n \in Nat
  BY LenProperties
<1>2. CASE n < 2
  <2>1. rest = <<>>
    BY <1>2, SubSeqEmpty
  <2>2. Len(rest) = 0 /\ rest \in Seq(Object)
    BY <2>1, EmptySeq
  <2> HIDE DEF rest
  <2>3. \A i \in 1 .. n : i = 1
    BY <1>1, <1>2
  <2> QED
    BY <2>2, <2>3 DEF rest
<1>3. CASE n >= 2
  <2>2. /\ rest \in Seq(Object) /\ Len(rest) = n - 2 + 1
        /\ \A i \in 1 .. n - 2 + 1 : rest[i] = list[2 + i - 1]
    <3>1. \A i \in 2 .. n : list[i] \in Object
      BY <1>1, LenProperties
    <3>2. 2 <= n
      BY <1>1, <1>3
    <3> QED
      BY <1>1, <3>1, <3>2, SubSeqProperties
  <2> HIDE DEF rest
  <2>3. ASSUME NEW i \in 1 .. Len(rest)
        PROVE  i + 1 \in 1 .. n /\ rest[i] = list[i + 1]
    <3>1. i + 1 \in 1 .. n /\ 2 + i - 1 = i + 1 /\ i \in 1 .. n - 2 + 1
      BY <1>1, <2>2
    <3> QED
      BY <2>2, <3>1
  <2>4. ASSUME NEW i \in 1 .. n, i # 1
        PROVE  i - 1 \in 1 .. Len(rest) /\ rest[i - 1] = list[i]
    <3>1. i - 1 \in 1 .. n - 2 + 1 /\ 2 + (i - 1) - 1 = i
      BY <1>1, <2>4
    <3> QED
      BY <2>2, <3>1
  <2> QED
    BY <2>2, <2>3, <2>4 DEF rest
<1> QED
  BY <1>1, <1>2, <1>3

LEMMA OptionIsListed ==
    ASSUME NEW obj, NEW list \in Seq(Object), NEW text
    PROVE  OptionOf(obj, list, text) = None \/ \E i \in 1 .. Len(list) : OptionOf(obj, list, text) = list[i]
BY OptionIs

LEMMA OptionIsNone ==
    ASSUME NEW obj, NEW list \in Seq(Object), NEW text,
           \A i \in 1 .. Len(list) : list[i] # None
    PROVE  OptionOf(obj, list, text) = None <=> \A i \in 1 .. Len(list) : obj[list[i]].name # text
BY OptionIs

(* It is a state that is not freed, or None.                               *)
LEMMA OptionIsGood ==
    ASSUME NEW obj, NEW o, Good(obj, o), NEW list \in Seq(Object),
           \A i \in 1 .. Len(list) :
                \E j \in 1 .. Len(Chain(obj, o)) : list[i] = Chain(obj, o)[j],
           NEW text
    PROVE  Good(obj, OptionOf(obj, list, text))
<1>1. Whole(obj, o, Chain(obj, o))
  BY ChainIsWhole
<1>2. \A j \in 1 .. Len(Chain(obj, o)) : Good(obj, Chain(obj, o)[j])
  BY <1>1, SuffixIsWhole
<1>3. \A i \in 1 .. Len(list) : Good(obj, list[i])
  BY <1>2
<1>4. OptionOf(obj, list, text) = None \/ \E i \in 1 .. Len(list) : OptionOf(obj, list, text) = list[i]
  BY OptionIsListed
<1> QED
  BY <1>3, <1>4, NoneIsGood

LEMMA ChainIsSeq ==
    ASSUME NEW obj, NEW o, Good(obj, o)
    PROVE  Chain(obj, o) \in Seq(Object) /\ Len(Chain(obj, o)) \in Nat
<1>1. Chain(obj, o) \in Path
  BY ChainIsWhole DEF Whole
<1> QED
  BY <1>1, InPath

(* What is shown of a chain stays so where its states are as they were.    *)
LEMMA ShownIsKept ==
    ASSUME NEW obj, NEW obj2, NEW cur, NEW list, NEW view, NEW next, NEW next2, NEW en,
           Good(obj, cur), Same(obj, obj2, cur),
           IsShown(obj, cur, list, view, next, en), next2 \in {next, ""}
    PROVE  IsShown(obj2, cur, list, view, next2, en)
<1>1. list = Chain(obj, cur) /\ list = Chain(obj2, cur)
  BY GoodIsKept DEF IsShown
<1>2. \A i \in 1 .. Len(list) : obj2[list[i]] = obj[list[i]]
  <2>1. \A i \in 1 .. Len(Chain(obj, cur)) : obj2[Chain(obj, cur)[i]] = obj[Chain(obj, cur)[i]]
    BY DEF Same
  <2>2. list = Chain(obj, cur)
    BY <1>1
  <2> QED
    BY <2>1, <2>2, Zenon
<1>3. \A i \in 1 .. Len(list) : RowOf(obj2, list[i]) = RowOf(obj, list[i])
  BY <1>2 DEF RowOf
<1>4. RowsOf(obj2, list) = RowsOf(obj, list)
  BY <1>3 DEF RowsOf
<1>5. AskedOf(obj2, list, next) = AskedOf(obj, list, next)
  <2> DEFINE S == {i \in 1 .. Len(list) : obj[list[i]].name = next}
             S2 == {i \in 1 .. Len(list) : obj2[list[i]].name = next}
             First(set) == IF set = {} THEN None ELSE list[CHOOSE i \in set : \A j \in set : i <= j]
  <2>1. S2 = S
    BY <1>2
  <2>2. OptionOf(obj, list, next) = First(S)
    BY DEF OptionOf
  <2>3. OptionOf(obj2, list, next) = First(S2)
    BY DEF OptionOf
  <2> HIDE DEF S, S2, First
  <2>4. OptionOf(obj2, list, next) = OptionOf(obj, list, next)
    BY <2>1, <2>2, <2>3
  <2> QED
    BY <2>4 DEF AskedOf
<1> QED
  BY <1>1, <1>4, <1>5 DEF IsShown

-----------------------------------------------------------------------------
(* Sequences and what they hold.                                           *)
LEMMA ElementsOf ==
    ASSUME NEW S, NEW s \in Seq(S)
    PROVE  /\ ToSet(s) = {s[i] : i \in 1 .. Len(s)}
           /\ ToSet(s) \subseteq S
<1>1. DOMAIN s = 1 .. Len(s) /\ \A i \in 1 .. Len(s) : s[i] \in S
  BY LenProperties
<1> QED
  BY <1>1 DEF ToSet

LEMMA NoElements == ToSet(<<>>) = {}
BY DEF ToSet

LEMMA AppendElements ==
    ASSUME NEW S, NEW s \in Seq(S), NEW e \in S
    PROVE  Append(s, e) \in Seq(S) /\ ToSet(Append(s, e)) = ToSet(s) \cup {e}
<1> DEFINE t == Append(s, e)
<1>1. /\ t \in Seq(S) /\ Len(t) = Len(s) + 1 /\ t[Len(s) + 1] = e
      /\ \A i \in 1 .. Len(s) : t[i] = s[i]
  BY AppendProperties
<1> HIDE DEF t
<1>2. Len(s) \in Nat
  BY LenProperties
<1>3. ToSet(t) = {t[i] : i \in 1 .. Len(s) + 1} /\ ToSet(s) = {s[i] : i \in 1 .. Len(s)}
  BY <1>1, ElementsOf
<1>4. \A i : i \in 1 .. Len(s) + 1 <=> i \in 1 .. Len(s) \/ i = Len(s) + 1
  BY <1>2
<1>5. ToSet(t) = ToSet(s) \cup {e}
  BY <1>1, <1>3, <1>4
<1> QED
  BY <1>1, <1>5 DEF t

LEMMA HeadAndTail ==
    ASSUME NEW S, NEW s \in Seq(S), s # <<>>
    PROVE  /\ Head(s) \in S /\ Tail(s) \in Seq(S)
           /\ ToSet(s) = {Head(s)} \cup ToSet(Tail(s))
<1> DEFINE t == Tail(s)
<1>1. /\ Head(s) \in S /\ t \in Seq(S) /\ Len(t) = Len(s) - 1
      /\ \A i \in 1 .. Len(t) : t[i] = s[i + 1]
  BY HeadTailProperties
<1>2. Head(s) = s[1]
  OBVIOUS
<1> HIDE DEF t
<1>3. Len(s) \in Nat /\ Len(s) >= 1
  BY LenProperties, EmptySeq
<1>4. ToSet(t) = {t[i] : i \in 1 .. Len(t)} /\ ToSet(s) = {s[i] : i \in 1 .. Len(s)}
  BY <1>1, ElementsOf
<1>5. ToSet(t) \subseteq ToSet(s)
  <2> SUFFICES ASSUME NEW i \in 1 .. Len(t)
               PROVE  t[i] \in ToSet(s)
    BY <1>4
  <2>1. i + 1 \in 1 .. Len(s) /\ t[i] = s[i + 1]
    BY <1>1, <1>3
  <2> QED
    BY <1>4, <2>1
<1>6. ToSet(s) \subseteq {Head(s)} \cup ToSet(t)
  <2> SUFFICES ASSUME NEW i \in 1 .. Len(s)
               PROVE  s[i] = s[1] \/ s[i] \in ToSet(t)
    BY <1>2, <1>4
  <2>1. CASE i = 1
    BY <2>1
  <2>2. CASE i # 1
    <3>1. i - 1 \in 1 .. Len(t) /\ i - 1 + 1 = i
      BY <1>1, <1>3, <2>2
    <3> QED
      BY <1>1, <1>4, <3>1
  <2> QED
    BY <2>1, <2>2
<1>7. Head(s) \in ToSet(s)
  <2>1. 1 \in 1 .. Len(s)
    BY <1>3
  <2> QED
    BY <1>2, <1>4, <2>1
<1> QED
  BY <1>1, <1>5, <1>6, <1>7 DEF t

LEMMA ConcatElements ==
    ASSUME NEW S, NEW a \in Seq(S), NEW b \in Seq(S)
    PROVE  a \o b \in Seq(S) /\ ToSet(a) \cup ToSet(b) \subseteq ToSet(a \o b)
<1> DEFINE c == a \o b
<1>1. /\ c \in Seq(S) /\ Len(c) = Len(a) + Len(b)
      /\ \A i \in 1 .. Len(a) + Len(b) : c[i] = IF i <= Len(a) THEN a[i] ELSE b[i - Len(a)]
  BY ConcatProperties
<1> HIDE DEF c
<1>2. Len(a) \in Nat /\ Len(b) \in Nat
  BY LenProperties
<1>3. /\ ToSet(a) = {a[i] : i \in 1 .. Len(a)} /\ ToSet(b) = {b[i] : i \in 1 .. Len(b)}
      /\ ToSet(c) = {c[i] : i \in 1 .. Len(c)}
  BY <1>1, ElementsOf
<1>4. \A i \in 1 .. Len(a) : i \in 1 .. Len(c) /\ c[i] = a[i]
  BY <1>1, <1>2
<1>5. ASSUME NEW i \in 1 .. Len(b)
      PROVE  b[i] \in ToSet(c)
  <2>1. i + Len(a) \in 1 .. Len(c) /\ ~(i + Len(a) <= Len(a)) /\ i + Len(a) - Len(a) = i
    BY <1>1, <1>2
  <2>2. c[i + Len(a)] = b[i]
    BY <1>1, <2>1
  <2> QED
    BY <1>3, <2>1, <2>2
<1> QED
  BY <1>1, <1>3, <1>4, <1>5 DEF c

LEMMA ReportIs ==
    ASSUME NEW moved \in BOOLEAN
    PROVE  /\ Report(moved) \in Seq(Message)
           /\ moved => "StateChanged" \in ToSet(Report(moved))
<1>1. <<"StateChanged">> \in Seq(Message) /\ <<>> \in Seq(Message)
  BY DEF Message
<1>2. "StateChanged" \in ToSet(<<"StateChanged">>)
  BY DEF ToSet
<1> QED
  BY <1>1, <1>2 DEF Report

LEMMA NothingIsTold == ~Told(<<>>)
BY DEF Told, ToSet

-----------------------------------------------------------------------------
(* The steps.                                                              *)
LEMMA InitIsGood == Init => Inv
<1> SUFFICES ASSUME Init
             PROVE  Inv
  OBVIOUS
<1> USE DEF Init
<1>1. Types
  <2>1. Freed \in [name : Name \cup {""}, master : Object \cup {None}]
    BY DEF Freed
  <2>2. object \in Memory
    BY <2>1 DEF Memory
  <2>3. queue \in Seq(Event) /\ posted \in Seq(Message)
    BY EmptySeq
  <2>4. timers \subseteq Event /\ current \in Object \cup {None} /\ nextName \in Name \cup {""}
    OBVIOUS
  <2> QED
    BY <2>2, <2>3, <2>4 DEF Types
<1>2. RootsAreGood
  <2> QED
    BY NoElements, NoneIsGood DEF RootsAreGood, AllGood, Under
<1>3. ShownOrTold
  BY DEF ShownOrTold
<1> QED
  BY <1>1, <1>2, <1>3 DEF Inv

(* What the user's input finds.                                            *)
LEMMA InputFinds ==
    ASSUME Inv, Input, Usable
    PROVE  /\ current # None => Shown
           /\ stateList \in Seq(Object)
           /\ \A text : Good(object, Option(stateList, text))
           /\ Good(object, Selected)
<1>1. current # None => Shown
  <2>1. ~Told(posted)
    BY NothingIsTold DEF Input
  <2> QED
    BY <2>1 DEF Inv, ShownOrTold
<1>2. Good(object, current)
  BY DEF Inv, RootsAreGood, AllGood
<1>3. stateList = <<>> \/ stateList = Chain(object, current)
  BY <1>1 DEF Usable, Shown, IsShown
<1>4. stateList \in Seq(Object) /\ Len(stateList) \in Nat
  <2>1. <<>> \in Seq(Object)
    BY EmptySeq
  <2> QED
    BY <1>2, <1>3, <2>1, ChainIsSeq, LenProperties
<1>5. \A i \in 1 .. Len(stateList) :
          \E j \in 1 .. Len(Chain(object, current)) : stateList[i] = Chain(object, current)[j]
  <2>1. CASE stateList = <<>>
    <3>1. Len(stateList) = 0
      BY <2>1
    <3> QED
      BY <3>1
  <2>2. CASE stateList = Chain(object, current)
    BY <2>2
  <2> QED
    BY <1>3, <2>1, <2>2
<1>6. \A text : Good(object, OptionOf(object, stateList, text))
  BY <1>2, <1>4, <1>5, OptionIsGood
<1> DEFINE rest == SubSeq(stateList, 2, Len(stateList))
<1>7. /\ rest \in Seq(Object)
      /\ \A i \in 1 .. Len(rest) : i + 1 \in 1 .. Len(stateList) /\ rest[i] = stateList[i + 1]
  BY <1>4, RestOfList
<1> HIDE DEF rest
<1>8. Good(object, OptionOf(object, rest, nextName))
  <2>1. \A i \in 1 .. Len(rest) :
            \E j \in 1 .. Len(Chain(object, current)) : rest[i] = Chain(object, current)[j]
    BY <1>5, <1>7
  <2> QED
    BY <1>2, <1>7, <2>1, OptionIsGood
<1>9. Selected = OptionOf(object, rest, nextName)
  BY DEF Selected, Option, OptionOf, rest
<1>10. \A text : Option(stateList, text) = OptionOf(object, stateList, text)
  BY DEF Option, OptionOf
<1> QED
  BY <1>1, <1>4, <1>6, <1>8, <1>9, <1>10

(* createEvent(): what the event refers to is not freed, and nothing else  *)
(* is changed by a new state.                                              *)
LEMMA CreateEventIsGood ==
    ASSUME Inv, NEW e \in Event, CreateEvent(e)
    PROVE  /\ Created(e.next) \in Memory
           /\ AllGood(Created(e.next), current, Under)
           /\ Good(Created(e.next), e.next)
           /\ Same(object, Created(e.next), current)
           /\ nextName' \in {nextName, ""}
           /\ ~CreatesState => Created(e.next) = object
<1> DEFINE obj2 == Created(e.next)
           m == Option(stateList, masterName)
<1>1. Input /\ Usable /\ nextName' \in {nextName, ""}
  BY DEF CreateEvent
<1>2. Good(object, m) /\ Good(object, Selected)
  BY <1>1, InputFinds
<1>3. object \in Memory /\ nextName \in Name \cup {""} /\ AllGood(object, current, Under)
  BY DEF Inv, Types, RootsAreGood
<1> HIDE DEF m
<1>4. CASE ~CreatesState
  <2>1. obj2 = object
    BY <1>4 DEF Created
  <2>2. e.next = Selected
    BY <1>4 DEF CreateEvent
  <2> HIDE DEF obj2
  <2>3. Same(object, obj2, current)
    BY <2>1 DEF Same
  <2> QED
    BY <1>1, <1>2, <1>3, <2>1, <2>2, <2>3 DEF obj2
<1>5. CASE CreatesState
  <2>1. e.next \in Object /\ object[e.next] = Freed
    BY <1>5 DEF CreateEvent, IsFree
  <2>2. obj2 = [object EXCEPT ![e.next] = [name |-> nextName, master |-> m]]
    BY <1>5 DEF Created, m
  <2> HIDE DEF obj2
  <2>3. m \in Object \cup {None} /\ nextName # ""
    BY <1>2, <1>5 DEF Good, CreatesState
  <2>4. obj2 \in Memory
    BY <1>3, <2>1, <2>2, <2>3 DEF Memory
  <2>5. obj2[e.next] = [name |-> nextName, master |-> m] /\ \A q \in Object : q # e.next => obj2[q] = object[q]
    BY <1>3, <2>1, <2>2 DEF Memory
  <2>6. IsCreated(object, obj2, e.next, m)
    <3>1. obj2[e.next].name = nextName /\ obj2[e.next].master = m
      BY <2>5
    <3> QED
      BY <2>1, <2>3, <2>5, <3>1 DEF IsCreated
  <2>7. \A q : Good(object, q) => Good(obj2, q) /\ Same(object, obj2, q)
    BY <2>6, CreatedKeepsOthers, GoodIsKept
  <2>8. Good(obj2, e.next)
    BY <1>2, <2>6, CreatedIsGood
  <2>9. AllGood(obj2, current, Under) /\ Same(object, obj2, current)
    BY <1>3, <2>7 DEF AllGood
  <2> QED
    BY <1>1, <1>5, <2>4, <2>8, <2>9 DEF obj2
<1> QED
  BY <1>4, <1>5

(* handleEvent(): what is left refers to nothing that is freed.            *)
LEMMA HandleEventIsGood ==
    ASSUME Types, NEW e \in Event, NEW obj \in Memory, NEW others, NEW moved \in BOOLEAN,
           HandleEvent(e, obj, others, moved),
           AllGood(obj, current, others \cup timers), Good(obj, e.next)
    PROVE  /\ object' \in Memory
           /\ current' = IF moved THEN e.next ELSE current
           /\ timers' \subseteq timers
           /\ AllGood(object', current', others \cup timers')
           /\ Same(obj, object', current')
<1>1. /\ current' = IF moved THEN e.next ELSE current
      /\ timers' \subseteq timers
      /\ object' = [o \in Object |-> IF o \in Alive(obj, current', others \cup timers') THEN obj[o] ELSE Freed]
  BY DEF HandleEvent
<1> DEFINE R == {current'} \cup {t.next : t \in others \cup timers'}
<1>2. \A q \in R : Good(obj, q)
  BY <1>1 DEF AllGood
<1>3. object' = [o \in Object |-> IF o \in Chains(obj, R) THEN obj[o] ELSE Freed]
  BY <1>1 DEF Alive, Chains
<1> HIDE DEF R
<1>4. object' \in Memory
  BY <1>3, FreedIsMemory
<1>5. \A q \in R : Same(obj, object', q)
  BY <1>2, <1>3, FreedKeepsOthers
<1>6. \A q \in R : Good(object', q) /\ Same(obj, object', q)
  BY <1>2, <1>5, GoodIsKept
<1>7. AllGood(object', current', others \cup timers') /\ Same(obj, object', current')
  BY <1>6 DEF R, AllGood
<1> QED
  BY <1>1, <1>4, <1>7

(* The machine takes no part in what the user types.                       *)
LEMMA UnchangedMachine ==
    ASSUME Inv, UNCHANGED machine
    PROVE  RootsAreGood'
BY DEF Inv, RootsAreGood, Under, machine

LEMMA SetNextNameKeeps ==
    ASSUME Inv, NEW text \in Name \cup {""}, SetNextName(text)
    PROVE  Inv'
<1>1. RootsAreGood'
  BY UnchangedMachine DEF SetNextName
<1>2. Types'
  BY DEF Inv, Types, SetNextName, machine
<1>3. current # None => Shown
  BY InputFinds DEF SetNextName
<1>4. MasterIsAsked(stateList, text) = AskedOf(object, stateList, text)
  BY DEF MasterIsAsked, AskedOf, Option, OptionOf
<1>5. ShownOrTold'
  BY <1>3, <1>4 DEF SetNextName, machine, ShownOrTold, Shown, IsShown
<1> QED
  BY <1>1, <1>2, <1>5 DEF Inv

LEMMA SetMasterNameKeeps ==
    ASSUME Inv, NEW text, SetMasterName(text)
    PROVE  Inv'
<1>1. RootsAreGood'
  BY UnchangedMachine DEF SetMasterName
<1>2. Types' /\ ShownOrTold'
  BY DEF Inv, Types, SetMasterName, machine, ShownOrTold, Shown, Told
<1> QED
  BY <1>1, <1>2 DEF Inv

LEMMA ClickSetupKeeps ==
    ASSUME Inv, ClickSetup
    PROVE  Inv'
<1>1. PICK o \in Object :
          /\ object[o] = Freed /\ current' = o
          /\ object' = [object EXCEPT ![o] = [name |-> InitialName, master |-> None]]
  BY DEF ClickSetup, IsFree
<1>2. queue' = <<>> /\ posted' = <<"Setup">> /\ timers' = timers /\ nextName' = nextName
  BY DEF ClickSetup, dialog
<1>3. object \in Memory /\ AllGood(object, current, Under)
  BY DEF Inv, Types, RootsAreGood
<1>4. InitialName \in Name /\ InitialName # ""
  BY ManualTestAssumption
<1>5. object' \in Memory
  BY <1>1, <1>3, <1>4 DEF Memory
<1>6. object'[o] = [name |-> InitialName, master |-> None] /\ \A q \in Object : q # o => object'[q] = object[q]
  BY <1>1, <1>3 DEF Memory
<1>7. IsCreated(object, object', o, None)
  <2>1. object'[o].name = InitialName /\ object'[o].master = None
    BY <1>6
  <2> QED
    BY <1>1, <1>4, <1>6, <2>1 DEF IsCreated
<1>8. Good(object', o)
  BY <1>7, CreatedIsGood, NoneIsGood
<1>9. \A q : Good(object, q) => Good(object', q)
  BY <1>7, CreatedKeepsOthers, GoodIsKept
<1>10. RootsAreGood'
  <2>1. \A e \in timers : Good(object', e.next)
    BY <1>3, <1>9 DEF AllGood, Under
  <2>2. ToSet(queue') = {}
    BY <1>2, NoElements
  <2> QED
    BY <1>1, <1>2, <1>8, <2>1, <2>2 DEF RootsAreGood, AllGood, Under
<1>11. Types'
  <2>1. queue' \in Seq(Event) /\ posted' \in Seq(Message)
    BY <1>2, EmptySeq DEF Message
  <2>2. timers' \subseteq Event /\ current' \in Object \cup {None} /\ nextName' \in Name \cup {""}
    BY <1>1, <1>2 DEF Inv, Types
  <2> QED
    BY <1>5, <2>1, <2>2 DEF Types
<1>12. ShownOrTold'
  <2>1. "Setup" \in ToSet(posted')
    BY <1>2 DEF ToSet
  <2> QED
    BY <2>1 DEF ShownOrTold, Told
<1> QED
  BY <1>10, <1>11, <1>12 DEF Inv

LEMMA ClickShutdownKeeps ==
    ASSUME Inv, ClickShutdown
    PROVE  Inv'
<1>1. /\ current' = None /\ timers' = {} /\ queue' = queue /\ posted' = posted /\ nextName' = nextName
      /\ object' = [o \in Object |-> IF o \in Alive(object, None, ToSet(queue)) THEN object[o] ELSE Freed]
  BY DEF ClickShutdown, dialog
<1>2. Types /\ object \in Memory /\ AllGood(object, current, Under)
  BY DEF Inv, Types, RootsAreGood
<1> DEFINE R == {None} \cup {e.next : e \in ToSet(queue)}
<1>3. object' = [o \in Object |-> IF o \in Chains(object, R) THEN object[o] ELSE Freed]
  BY <1>1 DEF Alive, Chains
<1>4. \A q \in R : Good(object, q)
  BY <1>2, NoneIsGood DEF AllGood, Under
<1> HIDE DEF R
<1>5. object' \in Memory
  BY <1>2, <1>3, FreedIsMemory
<1>6. \A q \in R : Same(object, object', q)
  BY <1>3, <1>4, FreedKeepsOthers
<1>7. \A q \in R : Good(object', q)
  BY <1>4, <1>6, GoodIsKept
<1>8. RootsAreGood'
  BY <1>1, <1>7 DEF R, RootsAreGood, AllGood, Under
<1>9. Types'
  BY <1>1, <1>2, <1>5 DEF Types
<1>10. ShownOrTold'
  BY <1>1 DEF ShownOrTold
<1> QED
  BY <1>8, <1>9, <1>10 DEF Inv

LEMMA ClickTriggerEventKeeps ==
    ASSUME Inv, ClickTriggerEvent
    PROVE  Inv'
<1>1. PICK e \in Event :
          /\ CreateEvent(e)
          /\ IF current = None THEN UNCHANGED machine
             ELSE /\ object' = Created(e.next)
                  /\ UNCHANGED current
                  /\ IF e.owner # None
                     THEN timers' = timers \cup {e} /\ UNCHANGED <<queue, posted>>
                     ELSE /\ queue' = Append(queue, e)
                          /\ posted' = <<"HandleEvent">>
                          /\ UNCHANGED timers
  BY DEF ClickTriggerEvent
<1>2. /\ Created(e.next) \in Memory
      /\ AllGood(Created(e.next), current, Under)
      /\ Good(Created(e.next), e.next)
      /\ Same(object, Created(e.next), current)
      /\ nextName' \in {nextName, ""}
  BY <1>1, CreateEventIsGood
<1>3. Input /\ Usable /\ UNCHANGED <<stateList, enabled, statesView>>
  BY <1>1 DEF CreateEvent
<1>4. Types /\ RootsAreGood
  BY DEF Inv
<1>5. nextName' \in Name \cup {""}
  BY <1>2, <1>4 DEF Types
<1>6. CASE current = None
  <2>1. UNCHANGED machine
    BY <1>1, <1>6
  <2>2. RootsAreGood'
    BY <2>1, UnchangedMachine
  <2>3. Types'
    BY <1>4, <1>5, <2>1 DEF Types, machine
  <2>4. ShownOrTold'
    BY <1>6, <2>1 DEF ShownOrTold, machine
  <2> QED
    BY <2>2, <2>3, <2>4 DEF Inv
<1>7. CASE current # None
  <2>1. object' = Created(e.next) /\ current' = current
    BY <1>1, <1>7
  <2>2. queue \in Seq(Event)
    BY <1>4 DEF Types
  <2>3. \/ timers' = timers \cup {e} /\ queue' = queue /\ posted' = posted
        \/ timers' = timers /\ queue' = Append(queue, e) /\ posted' = <<"HandleEvent">>
    BY <1>1, <1>7
  <2>4. Under' = Under \cup {e} /\ queue' \in Seq(Event)
    <3>1. Append(queue, e) \in Seq(Event) /\ ToSet(Append(queue, e)) = ToSet(queue) \cup {e}
      BY <2>2, AppendElements
    <3> QED
      BY <2>2, <2>3, <3>1 DEF Under
  <2>5. RootsAreGood'
    BY <1>2, <2>1, <2>4 DEF RootsAreGood, AllGood
  <2>6. Types'
    <3>1. timers' \subseteq Event /\ current' \in Object \cup {None}
      BY <1>4, <2>1, <2>3 DEF Types
    <3>2. posted' \in Seq(Message)
      <4>1. <<"HandleEvent">> \in Seq(Message)
        BY DEF Message
      <4> QED
        BY <1>4, <2>3, <4>1 DEF Types
    <3> QED
      BY <1>2, <1>5, <2>1, <2>4, <3>1, <3>2 DEF Types
  <2>7. ShownOrTold'
    <3>1. Shown
      BY <1>3, <1>7, InputFinds
    <3>2. Good(object, current)
      BY <1>4 DEF RootsAreGood, AllGood
    <3>3. IsShown(object', current, stateList, statesView, nextName', enabled)
      BY <1>2, <2>1, <3>1, <3>2, ShownIsKept DEF Shown
    <3> QED
      BY <1>3, <2>1, <3>3 DEF ShownOrTold, Shown
  <2> QED
    BY <2>5, <2>6, <2>7 DEF Inv
<1> QED
  BY <1>6, <1>7

LEMMA ClickHandleEventKeeps ==
    ASSUME Inv, ClickHandleEvent
    PROVE  Inv'
<1>1. PICK e \in Event, moved \in BOOLEAN :
          /\ CreateEvent(e)
          /\ IF current = None THEN UNCHANGED machine
             ELSE /\ HandleEvent(e, Created(e.next), ToSet(queue), moved)
                  /\ posted' = Report(moved)
                  /\ UNCHANGED queue
  BY DEF ClickHandleEvent
<1> DEFINE obj == Created(e.next)
<1>2. /\ obj \in Memory
      /\ AllGood(obj, current, Under)
      /\ Good(obj, e.next)
      /\ Same(object, obj, current)
      /\ nextName' \in {nextName, ""}
  BY <1>1, CreateEventIsGood
<1>3. Input /\ Usable /\ UNCHANGED <<stateList, enabled, statesView>>
  BY <1>1 DEF CreateEvent
<1>4. Types /\ RootsAreGood
  BY DEF Inv
<1>5. nextName' \in Name \cup {""}
  BY <1>2, <1>4 DEF Types
<1>6. CASE current = None
  <2>1. UNCHANGED machine
    BY <1>1, <1>6
  <2>2. RootsAreGood'
    BY <2>1, UnchangedMachine
  <2>3. Types'
    BY <1>4, <1>5, <2>1 DEF Types, machine
  <2>4. ShownOrTold'
    BY <1>6, <2>1 DEF ShownOrTold, machine
  <2> QED
    BY <2>2, <2>3, <2>4 DEF Inv
<1>7. CASE current # None
  <2>1. HandleEvent(e, obj, ToSet(queue), moved) /\ posted' = Report(moved) /\ queue' = queue
    BY <1>1, <1>7
  <2> HIDE DEF obj
  <2>2. AllGood(obj, current, ToSet(queue) \cup timers)
    BY <1>2 DEF Under
  <2>3. /\ object' \in Memory
        /\ current' = IF moved THEN e.next ELSE current
        /\ timers' \subseteq timers
        /\ AllGood(object', current', ToSet(queue) \cup timers')
        /\ Same(obj, object', current')
    BY <1>2, <1>4, <2>1, <2>2, HandleEventIsGood
  <2>4. RootsAreGood'
    BY <2>1, <2>3 DEF RootsAreGood, Under
  <2>5. Types'
    <3>1. current' \in Object \cup {None}
      BY <2>4 DEF RootsAreGood, AllGood, Good
    <3>2. posted' \in Seq(Message)
      BY <2>1, ReportIs
    <3>3. queue' \in Seq(Event) /\ timers' \subseteq Event
      BY <1>4, <2>1, <2>3 DEF Types
    <3> QED
      BY <1>5, <2>3, <3>1, <3>2, <3>3 DEF Types
  <2>6. ShownOrTold'
    <3>1. CASE moved
      <4>1. "StateChanged" \in ToSet(posted')
        BY <2>1, <3>1, ReportIs
      <4> QED
        BY <4>1 DEF ShownOrTold, Told
    <3>2. CASE ~moved
      <4>1. current' = current
        BY <2>3, <3>2
      <4>2. Shown
        BY <1>3, <1>7, InputFinds
      <4>3. Good(object, current)
        BY <1>4 DEF RootsAreGood, AllGood
      <4>4. IsShown(obj, current, stateList, statesView, nextName', enabled)
        BY <1>2, <4>2, <4>3, ShownIsKept DEF Shown
      <4>5. Good(obj, current) /\ Same(obj, object', current)
        BY <1>2, <2>3, <4>1 DEF AllGood
      <4>6. IsShown(object', current, stateList, statesView, nextName', enabled)
        BY <4>4, <4>5, ShownIsKept
      <4> QED
        BY <1>3, <4>1, <4>6 DEF ShownOrTold, Shown
    <3> QED
      BY <3>1, <3>2
  <2> QED
    BY <2>4, <2>5, <2>6 DEF Inv
<1> QED
  BY <1>6, <1>7

LEMMA TimerFiresKeeps ==
    ASSUME Inv, NEW e \in timers, TimerFires(e)
    PROVE  Inv'
<1>1. /\ timers' \subseteq timers /\ queue' = Append(queue, e)
      /\ posted' = Append(posted, "HandleEvent")
      /\ UNCHANGED <<object, current, dialog>>
  BY DEF TimerFires
<1>2. Types /\ RootsAreGood /\ ShownOrTold
  BY DEF Inv
<1>3. e \in Event /\ queue \in Seq(Event) /\ posted \in Seq(Message) /\ "HandleEvent" \in Message
  BY <1>2 DEF Types, Message
<1>4. queue' \in Seq(Event) /\ ToSet(queue') = ToSet(queue) \cup {e}
  BY <1>1, <1>3, AppendElements
<1>5. posted' \in Seq(Message) /\ ToSet(posted') = ToSet(posted) \cup {"HandleEvent"}
  BY <1>1, <1>3, AppendElements
<1>6. RootsAreGood'
  BY <1>1, <1>2, <1>4 DEF RootsAreGood, AllGood, Under
<1>7. Types'
  BY <1>1, <1>2, <1>4, <1>5 DEF Types, dialog
<1>8. ShownOrTold'
  BY <1>1, <1>2, <1>5 DEF ShownOrTold, Told, Shown, dialog
<1> QED
  BY <1>6, <1>7, <1>8 DEF Inv

(* A message that is retrieved is told no more.                            *)
LEMMA RetrieveIs ==
    ASSUME Types, NEW msg, Retrieve(msg)
    PROVE  /\ Tail(posted) \in Seq(Message)
           /\ ToSet(posted) = {msg} \cup ToSet(Tail(posted))
BY HeadAndTail DEF Types, Retrieve

LEMMA SetupMessageKeeps ==
    ASSUME Inv, SetupMessage
    PROVE  Inv'
<1>1. Types /\ RootsAreGood
  BY DEF Inv
<1>2. posted' = Tail(posted) \o Report(TRUE) /\ UNCHANGED <<object, current, queue, timers, dialog>>
  BY DEF SetupMessage
<1>3. Tail(posted) \in Seq(Message)
  BY <1>1, RetrieveIs DEF SetupMessage
<1>4. Report(TRUE) \in Seq(Message) /\ "StateChanged" \in ToSet(Report(TRUE))
  BY ReportIs
<1>5. posted' \in Seq(Message) /\ "StateChanged" \in ToSet(posted')
  BY <1>2, <1>3, <1>4, ConcatElements
<1>6. RootsAreGood'
  BY <1>1, <1>2 DEF RootsAreGood, Under
<1>7. Types'
  BY <1>1, <1>2, <1>5 DEF Types, dialog
<1>8. ShownOrTold'
  BY <1>5 DEF ShownOrTold, Told
<1> QED
  BY <1>6, <1>7, <1>8 DEF Inv

LEMMA HandleEventMessageKeeps ==
    ASSUME Inv, HandleEventMessage
    PROVE  Inv'
<1>1. Types /\ RootsAreGood /\ ShownOrTold
  BY DEF Inv
<1>2. UNCHANGED dialog /\ Retrieve("HandleEvent")
  BY DEF HandleEventMessage
<1>3. /\ Tail(posted) \in Seq(Message)
      /\ ToSet(posted) = {"HandleEvent"} \cup ToSet(Tail(posted))
  BY <1>1, <1>2, RetrieveIs
<1>4. Told(posted) => "Setup" \in ToSet(Tail(posted)) \/ "StateChanged" \in ToSet(Tail(posted))
  BY <1>3 DEF Told
<1>5. CASE queue = <<>>
  <2>1. posted' = Tail(posted) /\ UNCHANGED <<object, current, queue, timers>>
    BY <1>5 DEF HandleEventMessage
  <2>2. RootsAreGood'
    BY <1>1, <2>1 DEF RootsAreGood, Under
  <2>3. Types'
    BY <1>1, <1>2, <1>3, <2>1 DEF Types, dialog
  <2>4. ShownOrTold'
    BY <1>1, <1>2, <1>4, <2>1 DEF ShownOrTold, Told, Shown, dialog
  <2> QED
    BY <2>2, <2>3, <2>4 DEF Inv
<1>6. CASE queue # <<>>
  <2> DEFINE e == Head(queue)
             others == ToSet(Tail(queue))
  <2>1. PICK moved \in BOOLEAN, next \in {<<>>, <<"HandleEvent">>} :
            /\ HandleEvent(e, object, others, moved)
            /\ queue' = Tail(queue)
            /\ posted' = Tail(posted) \o Report(moved) \o next
    BY <1>6 DEF HandleEventMessage
  <2>2. e \in Event /\ Tail(queue) \in Seq(Event) /\ ToSet(queue) = {e} \cup others
    BY <1>1, <1>6, HeadAndTail DEF Types
  <2> HIDE DEF e, others
  <2>3. AllGood(object, current, others \cup timers) /\ Good(object, e.next) /\ object \in Memory
    BY <1>1, <2>2 DEF RootsAreGood, AllGood, Under, Types
  <2>4. /\ object' \in Memory
        /\ current' = IF moved THEN e.next ELSE current
        /\ timers' \subseteq timers
        /\ AllGood(object', current', others \cup timers')
        /\ Same(object, object', current')
    BY <1>1, <2>1, <2>2, <2>3, HandleEventIsGood
  <2>5. RootsAreGood'
    BY <2>1, <2>4 DEF RootsAreGood, Under, others
  <2>6. /\ posted' \in Seq(Message)
        /\ ToSet(Tail(posted)) \subseteq ToSet(posted')
        /\ moved => "StateChanged" \in ToSet(posted')
    <3>1. Report(moved) \in Seq(Message) /\ (moved => "StateChanged" \in ToSet(Report(moved)))
      BY ReportIs
    <3>2. next \in Seq(Message)
      <4>1. <<>> \in Seq(Message) /\ <<"HandleEvent">> \in Seq(Message)
        BY DEF Message
      <4> QED
        BY <4>1
    <3> DEFINE a == Tail(posted) \o Report(moved)
    <3>3. a \in Seq(Message) /\ ToSet(Tail(posted)) \cup ToSet(Report(moved)) \subseteq ToSet(a)
      BY <1>3, <3>1, ConcatElements
    <3>4. posted' = a \o next
      BY <2>1
    <3> HIDE DEF a
    <3>5. posted' \in Seq(Message) /\ ToSet(a) \subseteq ToSet(posted')
      BY <3>2, <3>3, <3>4, ConcatElements
    <3> QED
      BY <3>1, <3>3, <3>5
  <2>7. Types'
    <3>1. current' \in Object \cup {None}
      BY <2>5 DEF RootsAreGood, AllGood, Good
    <3>2. timers' \subseteq Event /\ queue' \in Seq(Event) /\ nextName' \in Name \cup {""}
      BY <1>1, <1>2, <2>1, <2>2, <2>4 DEF Types, dialog
    <3> QED
      BY <2>4, <2>6, <3>1, <3>2 DEF Types
  <2>8. ShownOrTold'
    <3> SUFFICES ASSUME current' # None, ~Told(posted')
                 PROVE  Shown'
      BY DEF ShownOrTold
    <3>1. ~moved /\ ~Told(posted)
      BY <1>4, <2>6 DEF Told
    <3>2. current' = current
      BY <2>4, <3>1
    <3>3. Shown
      BY <1>1, <3>1, <3>2 DEF ShownOrTold
    <3>4. IsShown(object', current, stateList, statesView, nextName, enabled)
      BY <2>3, <2>4, <3>2, <3>3, ShownIsKept DEF Shown, AllGood
    <3> QED
      BY <1>2, <3>2, <3>4 DEF Shown, dialog
  <2> QED
    BY <2>5, <2>7, <2>8 DEF Inv
<1> QED
  BY <1>5, <1>6

LEMMA StateChangedMessageKeeps ==
    ASSUME Inv, StateChangedMessage
    PROVE  Inv'
<1>1. Types /\ RootsAreGood
  BY DEF Inv
<1> DEFINE list == Chain(object, current)
<1>2. /\ posted' = Tail(posted) /\ stateList' = list
      /\ enabled' = MasterIsAsked(list, nextName)
      /\ statesView' = [i \in 1 .. Len(list) |-> AddItems(StatesColumns, Row(list[i]))]
      /\ UNCHANGED <<object, current, queue, timers, nextName, masterName>>
  BY DEF StateChangedMessage, UpdateStates
<1>3. Tail(posted) \in Seq(Message)
  BY <1>1, RetrieveIs DEF StateChangedMessage
<1>4. RootsAreGood'
  BY <1>1, <1>2 DEF RootsAreGood, Under
<1>5. Types'
  BY <1>1, <1>2, <1>3 DEF Types
<1> HIDE DEF list
<1>6. MasterIsAsked(list, nextName) = AskedOf(object, list, nextName)
  BY DEF MasterIsAsked, AskedOf, Option, OptionOf
<1>7. statesView' = RowsOf(object, list)
  BY <1>2 DEF Row, RowsOf, RowOf
<1>8. IsShown(object, current, list, statesView', nextName, enabled')
  BY <1>2, <1>6, <1>7 DEF IsShown, list
<1>9. ShownOrTold'
  BY <1>2, <1>8 DEF ShownOrTold, Shown
<1> QED
  BY <1>4, <1>5, <1>9 DEF Inv

LEMMA UnchangedKeeps ==
    ASSUME Inv, UNCHANGED vars
    PROVE  Inv'
<1>1. Types' /\ RootsAreGood'
  BY DEF Inv, Types, RootsAreGood, Under, vars, machine, dialog
<1>2. ShownOrTold'
  BY DEF Inv, ShownOrTold, Told, Shown, vars, machine, dialog
<1> QED
  BY <1>1, <1>2 DEF Inv

LEMMA NextKeeps == Inv /\ [Next]_vars => Inv'
<1> SUFFICES ASSUME Inv, [Next]_vars
             PROVE  Inv'
  OBVIOUS
<1>1. ASSUME NEW text \in Name \cup {""}, SetNextName(text) \/ SetMasterName(text)
      PROVE  Inv'
  BY <1>1, SetNextNameKeeps, SetMasterNameKeeps
<1>2. CASE ClickSetup
  BY <1>2, ClickSetupKeeps
<1>3. CASE ClickShutdown
  BY <1>3, ClickShutdownKeeps
<1>4. CASE ClickTriggerEvent
  BY <1>4, ClickTriggerEventKeeps
<1>5. CASE ClickHandleEvent
  BY <1>5, ClickHandleEventKeeps
<1>6. ASSUME NEW e \in timers, TimerFires(e)
      PROVE  Inv'
  BY <1>6, TimerFiresKeeps
<1>7. CASE SetupMessage
  BY <1>7, SetupMessageKeeps
<1>8. CASE HandleEventMessage
  BY <1>8, HandleEventMessageKeeps
<1>9. CASE StateChangedMessage
  BY <1>9, StateChangedMessageKeeps
<1>10. CASE UNCHANGED vars
  BY <1>10, UnchangedKeeps
<1> QED
  BY <1>1, <1>2, <1>3, <1>4, <1>5, <1>6, <1>7, <1>8, <1>9, <1>10 DEF Next

LEMMA InvHolds == Spec => []Inv
<1>1. Init => Inv
  BY InitIsGood
<1>2. Inv /\ [Next]_vars => Inv'
  BY NextKeeps
<1> QED
  BY <1>1, <1>2, PTL DEF Spec

-----------------------------------------------------------------------------
(* The theorems.                                                           *)
LEMMA RowsAre ==
    ASSUME NEW obj, NEW list \in Seq(Object)
    PROVE  LET view == RowsOf(obj, list)
           IN  [i \in 1 .. Len(view) |-> Copied(StatesColumns, view[i])]
                   = [i \in 1 .. Len(list) |-> RowOf(obj, list[i])]
<1> DEFINE view == RowsOf(obj, list)
           n == Len(list)
<1>1. n \in Nat
  BY LenProperties
<1> HIDE DEF n
<1>2. view = [i \in 1 .. n |-> AddItems(StatesColumns, RowOf(obj, list[i]))]
  BY DEF RowsOf, n
<1> HIDE DEF view
<1>3. Len(view) = n
  <2>1. \A i \in 1 .. n : view[i] \in {view[j] : j \in 1 .. n}
    OBVIOUS
  <2>2. view \in [1 .. n -> {view[j] : j \in 1 .. n}]
    BY <1>2, <2>1
  <2>3. view \in Seq({view[j] : j \in 1 .. n})
    BY <1>1, <2>2, SeqDef
  <2>4. DOMAIN view = 1 .. n /\ DOMAIN view = 1 .. Len(view) /\ Len(view) \in Nat
    BY <1>2, <2>3, LenProperties
  <2> HIDE DEF n
  <2>5. 1 .. n = 1 .. Len(view)
    BY <2>4
  <2> QED
    BY <1>1, <2>4, <2>5
<1>4. StatesColumns \in Seq(ColumnType) /\ Len(StatesColumns) = 3 /\ StatesColumns # <<>>
  BY DEF StatesColumns, ColumnType
<1>5. ASSUME NEW i \in 1 .. n
      PROVE  Copied(StatesColumns, view[i]) = RowOf(obj, list[i])
  <2> DEFINE items == RowOf(obj, list[i])
  <2>1. Len(items) = 3 /\ items = [k \in 1 .. 3 |-> items[k]]
    BY DEF RowOf
  <2> HIDE DEF items
  <2>2. Copied(StatesColumns, AddItems(StatesColumns, items)) = items
    BY <1>4, <2>1, CopiedRow
  <2> QED
    BY <1>2, <2>2 DEF items
<1>6. [i \in 1 .. n |-> Copied(StatesColumns, view[i])] = [i \in 1 .. n |-> RowOf(obj, list[i])]
  BY <1>5
<1> QED
  BY <1>3, <1>6 DEF view, n

(* When the user looks, whatever the machine did on its own (a timer, an   *)
(* event that failed, an exit() that did), OnStateChanged() has rebuilt    *)
(* the list: it is the current state and its masters, none of them         *)
(* deleted, and a row is copied as it was added.                           *)
THEOREM ViewStaysCurrent == Spec => []ViewIsCurrent
<1>1. Inv => ViewIsCurrent
  <2> SUFFICES ASSUME Inv, Input, current # None
               PROVE  LET chain == Chain(object, current)
                      IN  /\ stateList = chain
                          /\ [i \in 1 .. Len(statesView) |-> Copied(StatesColumns, statesView[i])]
                                 = [i \in 1 .. Len(chain) |-> Row(chain[i])]
    BY DEF ViewIsCurrent
  <2>1. Shown
    BY InputFinds DEF Usable
  <2>2. Good(object, current)
    BY DEF Inv, RootsAreGood, AllGood
  <2> DEFINE chain == Chain(object, current)
  <2>3. chain \in Seq(Object)
    BY <2>2, ChainIsSeq
  <2>4. stateList = chain /\ statesView = RowsOf(object, chain)
    BY <2>1 DEF Shown, IsShown
  <2> HIDE DEF chain
  <2>5. [i \in 1 .. Len(statesView) |-> Copied(StatesColumns, statesView[i])]
            = [i \in 1 .. Len(chain) |-> RowOf(object, chain[i])]
    BY <2>3, <2>4, RowsAre
  <2> QED
    BY <2>4, <2>5 DEF Row, RowOf, chain
<1> QED
  BY <1>1, InvHolds, PTL

(* A name that is not that of the first state is looked up alike with and  *)
(* without it.                                                             *)
LEMMA FirstIsNotNamed ==
    ASSUME NEW obj, NEW o, o # None, Good(obj, o), NEW text, obj[o].name # text
    PROVE  LET list == Chain(obj, o)
               rest == SubSeq(list, 2, Len(list))
           IN  /\ list # <<>>
               /\ OptionOf(obj, list, text) = None <=> OptionOf(obj, rest, text) = None
<1> DEFINE list == Chain(obj, o)
           rest == SubSeq(list, 2, Len(list))
<1>1. Whole(obj, o, list) /\ list \in Seq(Object)
  BY ChainIsWhole, ChainIsSeq
<1> HIDE DEF list
<1>2. /\ rest \in Seq(Object)
      /\ \A i \in 1 .. Len(rest) : i + 1 \in 1 .. Len(list) /\ rest[i] = list[i + 1]
      /\ \A i \in 1 .. Len(list) : i # 1 => i - 1 \in 1 .. Len(rest) /\ rest[i - 1] = list[i]
  BY <1>1, RestOfList
<1> HIDE DEF rest
<1>3. list \in Path /\ IsChain(obj, o, list)
  BY <1>1 DEF Whole
<1>4. Len(list) \in Nat
  BY <1>1, LenProperties
<1>5. 1 \in 1 .. Len(list) + 1
  BY <1>4
<1>6. (IF 1 <= Len(list) THEN list[1] ELSE None) = o
  BY <1>3, <1>5 DEF IsChain
<1>7. 1 <= Len(list) /\ list[1] = o
  BY <1>6
<1>8. list # <<>>
  <2>1. Len(<<>>) = 0
    BY EmptySeq
  <2> QED
    BY <1>7, <2>1
<1>9. \A i \in 1 .. Len(list) : list[i] # None
  BY <1>3, InPath
<1>10. \A i \in 1 .. Len(rest) : rest[i] # None
  BY <1>2, <1>9
<1>11. OptionOf(obj, list, text) = None <=> \A i \in 1 .. Len(list) : obj[list[i]].name # text
  BY <1>1, <1>9, OptionIsNone
<1>12. OptionOf(obj, rest, text) = None <=> \A i \in 1 .. Len(rest) : obj[rest[i]].name # text
  BY <1>2, <1>10, OptionIsNone
<1>13. ASSUME \A i \in 1 .. Len(list) : obj[list[i]].name # text
       PROVE  \A i \in 1 .. Len(rest) : obj[rest[i]].name # text
  BY <1>2, <1>13
<1>14. ASSUME \A i \in 1 .. Len(rest) : obj[rest[i]].name # text,
              NEW i \in 1 .. Len(list)
       PROVE  obj[list[i]].name # text
  <2>1. CASE i = 1
    BY <1>7, <2>1
  <2>2. CASE i # 1
    BY <1>2, <1>14, <2>2
  <2> QED
    BY <2>1, <2>2
<1>15. OptionOf(obj, list, text) = None <=> OptionOf(obj, rest, text) = None
  BY <1>11, <1>12, <1>13, <1>14
<1> QED
  BY <1>8, <1>15 DEF list, rest

(* updateNextStates() asks for a master exactly where createEvent() will   *)
(* make a state of that name, though the one looks the name up among all   *)
(* states of the list and the other leaves out the current one, and the    *)
(* list may have been replaced after the name was typed.                   *)
THEOREM MasterIsAskedInTime == Spec => []MasterIsAskedForNewStates
<1>1. Inv => MasterIsAskedForNewStates
  <2> SUFFICES ASSUME Inv, Input, current # None, nextName # "", object[current].name # nextName
               PROVE  enabled <=> CreatesState
    BY DEF MasterIsAskedForNewStates
  <2>1. Shown
    BY InputFinds DEF Usable
  <2>2. Good(object, current)
    BY DEF Inv, RootsAreGood, AllGood
  <2> DEFINE list == Chain(object, current)
             rest == SubSeq(list, 2, Len(list))
  <2>3. list # <<>> /\ (OptionOf(object, list, nextName) = None <=> OptionOf(object, rest, nextName) = None)
    BY <2>2, FirstIsNotNamed
  <2>4. stateList = list /\ enabled = AskedOf(object, list, nextName)
    BY <2>1 DEF Shown, IsShown
  <2>5. Selected = OptionOf(object, rest, nextName)
    <3>1. Selected = OptionOf(object, SubSeq(stateList, 2, Len(stateList)), nextName)
      BY DEF Selected, Option, OptionOf
    <3> QED
      BY <2>4, <3>1
  <2> HIDE DEF list, rest
  <2>6. AskedOf(object, list, nextName) <=> CreatesState
    BY <2>3, <2>5 DEF AskedOf, CreatesState
  <2> QED
    BY <2>4, <2>6
<1> QED
  BY <1>1, InvHolds, PTL

=============================================================================
