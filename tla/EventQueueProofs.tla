--------------------------- MODULE EventQueueProofs ---------------------------
(***************************************************************************)
(* What queueEvent() does to a queue, for every queue and every event.     *)
(***************************************************************************)
EXTENDS EventQueue, WellFoundedInduction, SequenceTheorems, TLAPS

(* The loop of queueEvent() has a first index at which it stops, if only   *)
(* the end.                                                                *)
LEMMA PositionProperties ==
    ASSUME NEW q \in Seq(Event), NEW e \in Event
    PROVE  LET i == Position(q, e)
           IN  /\ i \in 1 .. Len(q) + 1
               /\ \A j \in 1 .. i - 1 : ~StopsAt(q, e, j)
               /\ i <= Len(q) => StopsAt(q, e, i)
<1> DEFINE T == {i \in 1 .. Len(q) + 1 : i <= Len(q) => StopsAt(q, e, i)}
<1>1. T \subseteq Nat /\ T # {}
  <2>1. Len(q) \in Nat
    OBVIOUS
  <2>2. Len(q) + 1 \in T
    BY <2>1
  <2> QED
    BY <2>1, <2>2
<1> DEFINE Less == OpToRel(<, Nat)
<1>2. \A j, k \in Nat : j < k => <<j, k>> \in Less
  BY Zenon DEF OpToRel
<1>3. IsWellFoundedOn(Less, Nat)
  BY NatLessThanWellFounded
<1> HIDE DEF Less
<1>4. PICK i \in T : \A j \in T : ~(<<j, i>> \in Less)
  <2> HIDE DEF T
  <2> QED
    BY <1>1, <1>3, WFMin
<1>5. \A j \in 1 .. i - 1 : ~StopsAt(q, e, j)
  <2> SUFFICES ASSUME NEW j \in 1 .. i - 1, StopsAt(q, e, j)
               PROVE  FALSE
    OBVIOUS
  <2>1. j \in Nat /\ i \in Nat /\ j < i /\ j \in T
    BY <1>1
  <2> QED
    BY <2>1, <1>2, <1>4
<1> QED
  BY <1>4, <1>5 DEF Position

(* queueEvent() adds e at one index and keeps the events before and behind *)
(* it in their order.                                                      *)
LEMMA QueueEventProperties ==
    ASSUME NEW q \in Seq(Event), NEW e \in Event
    PROVE  LET i == Position(q, e)
               r == QueueEvent(q, e)
           IN  /\ r \in Seq(Event)
               /\ Len(r) = Len(q) + 1
               /\ r[i] = e
               /\ \A j \in 1 .. i - 1 : r[j] = q[j]
               /\ \A j \in i + 1 .. Len(q) + 1 : r[j] = q[j - 1]
<1> DEFINE i == Position(q, e)
<1>1. i \in 1 .. Len(q) + 1
  BY PositionProperties
<1> HIDE DEF i
<1> DEFINE r == SubSeq(q, 1, i - 1) \o <<e>> \o SubSeq(q, i, Len(q))
<1> DEFINE a == SubSeq(q, 1, i - 1)
           b == SubSeq(q, i, Len(q))
<1>3. Len(q) \in Nat /\ i \in Int /\ q \in [1 .. Len(q) -> Event]
  BY <1>1, LenProperties
<1>4. /\ a \in Seq(Event) /\ Len(a) = i - 1
      /\ \A j \in 1 .. i - 1 : a[j] = q[j]
  BY <1>1, <1>3, SubSeqProperties
<1>5. /\ b \in Seq(Event) /\ Len(b) = Len(q) + 1 - i
      /\ \A j \in 1 .. Len(b) : b[j] = q[i + j - 1]
  BY <1>1, <1>3, SubSeqProperties
<1> HIDE DEF a, b
<1>6. /\ a \o <<e>> \in Seq(Event) /\ Len(a \o <<e>>) = i
      /\ (a \o <<e>>)[i] = e
      /\ \A j \in 1 .. i - 1 : (a \o <<e>>)[j] = q[j]
  <2> DEFINE u == <<e>>
  <2>1. u \in Seq(Event) /\ Len(u) = 1 /\ u[1] = e
    OBVIOUS
  <2> HIDE DEF u
  <2>2. /\ a \o u \in Seq(Event) /\ Len(a \o u) = i
        /\ (a \o u)[i] = e
        /\ \A j \in 1 .. i - 1 : (a \o u)[j] = q[j]
    <3>1. /\ a \o u \in Seq(Event)
          /\ Len(a \o u) = Len(a) + Len(u)
          /\ \A j \in 1 .. Len(a) + Len(u) :
                (a \o u)[j] = IF j <= Len(a) THEN a[j] ELSE u[j - Len(a)]
      BY <1>4, <2>1, ConcatProperties
    <3>2. i - (i - 1) = 1 /\ (i - 1) + 1 = i /\ i \in 1 .. i
      BY <1>1
    <3>3. (a \o u)[i] = e
      BY <1>1, <1>4, <2>1, <3>1, <3>2
    <3> QED
      BY <1>1, <1>4, <2>1, <3>1, <3>3
  <2> QED
    BY <2>2 DEF u
<1> DEFINE c == a \o <<e>>
<1> HIDE DEF c
<1>7. /\ c \o b \in Seq(Event) /\ Len(c \o b) = Len(q) + 1
      /\ \A j \in 1 .. i : (c \o b)[j] = c[j]
      /\ \A j \in i + 1 .. Len(q) + 1 : (c \o b)[j] = b[j - i]
  BY <1>1, <1>3, <1>5, <1>6, ConcatProperties DEF c
<1>2. /\ r \in Seq(Event)
      /\ Len(r) = Len(q) + 1
      /\ r[i] = e
      /\ \A j \in 1 .. i - 1 : r[j] = q[j]
      /\ \A j \in i + 1 .. Len(q) + 1 : r[j] = q[j - 1]
  <2>1. r = c \o b
    BY DEF a, b, c
  <2>2. c[i] = e /\ \A j \in 1 .. i - 1 : c[j] = q[j]
    BY <1>6 DEF c
  <2> HIDE DEF r
  <2> QED
    BY <1>1, <1>3, <1>5, <1>7, <2>1, <2>2
<1> QED
  BY <1>2 DEF i, QueueEvent, InsertAt

(* Without an overflow comparePriority() compares the priorities.          *)
LEMMA CompareIsExact ==
    ASSUME NoOverflow, NEW e \in Event, NEW f \in Event
    PROVE  ComparePriority(e, f) <= 0 <=> priority[e] <= priority[f]
BY EventAssumption DEF NoOverflow, ComparePriority, Wrap, IntRange

(* What the loop has passed is of lower priority than e, and where it      *)
(* stops there is none.                                                    *)
LEMMA PositionIsExact ==
    ASSUME NoOverflow, NEW q \in Seq(Event), NEW e \in Event
    PROVE  LET i == Position(q, e)
           IN  /\ i \in 1 .. Len(q) + 1
               /\ \A j \in 1 .. i - 1 : priority[q[j]] < priority[e]
               /\ i <= Len(q) => priority[e] <= priority[q[i]]
<1> DEFINE i == Position(q, e)
<1>1. /\ i \in 1 .. Len(q) + 1
      /\ \A j \in 1 .. i - 1 : ~StopsAt(q, e, j)
      /\ i <= Len(q) => StopsAt(q, e, i)
  BY PositionProperties
<1> HIDE DEF i
<1>2. Len(q) \in Nat /\ \A j \in 1 .. Len(q) : q[j] \in Event
  BY LenProperties, ElementOfSeq
<1>3. \A f \in Event : priority[f] \in Int
  BY EventAssumption DEF IntRange
<1>4. ASSUME NEW j \in 1 .. Len(q)
      PROVE  StopsAt(q, e, j) <=> priority[e] <= priority[q[j]]
  BY <1>2, CompareIsExact DEF StopsAt
<1>5. \A j \in 1 .. i - 1 : j \in 1 .. Len(q)
  BY <1>1, <1>2
<1>6. ASSUME NEW j \in 1 .. i - 1
      PROVE  priority[q[j]] < priority[e]
  <2>1. ~(priority[e] <= priority[q[j]]) /\ q[j] \in Event
    BY <1>1, <1>2, <1>4, <1>5
  <2> QED
    BY <1>3, <2>1
<1>7. i <= Len(q) => priority[e] <= priority[q[i]]
  BY <1>1, <1>2, <1>4
<1> QED
  BY <1>1, <1>6, <1>7 DEF i

(* queueEvent() keeps a sorted queue sorted (Handles.cpp:52).              *)
LEMMA QueueEventKeepsAscending ==
    ASSUME NoOverflow, NEW q \in Seq(Event), NEW e \in Event, Ascending(q)
    PROVE  Ascending(QueueEvent(q, e))
<1> DEFINE i == Position(q, e)
           r == QueueEvent(q, e)
<1>1. /\ i \in 1 .. Len(q) + 1
      /\ \A j \in 1 .. i - 1 : priority[q[j]] < priority[e]
      /\ i <= Len(q) => priority[e] <= priority[q[i]]
  BY PositionIsExact
<1>2. /\ Len(r) = Len(q) + 1
      /\ r[i] = e
      /\ \A j \in 1 .. i - 1 : r[j] = q[j]
      /\ \A j \in i + 1 .. Len(q) + 1 : r[j] = q[j - 1]
  BY QueueEventProperties
<1> HIDE DEF i, r
<1>3. Len(q) \in Nat /\ priority[e] \in Int /\ \A j \in 1 .. Len(q) : priority[q[j]] \in Int
  <2>1. \A f \in Event : priority[f] \in Int
    BY EventAssumption DEF IntRange
  <2> QED
    BY <2>1, LenProperties, ElementOfSeq
<1>4. \A j, k \in 1 .. Len(q) : j <= k => priority[q[j]] <= priority[q[k]]
  BY <1>3 DEF Ascending
<1>5. \A j \in i .. Len(q) : priority[e] <= priority[q[j]]
  <2> SUFFICES ASSUME NEW j \in i .. Len(q)
               PROVE  priority[e] <= priority[q[j]]
    OBVIOUS
  <2>1. i \in 1 .. Len(q) /\ j \in 1 .. Len(q) /\ i <= j /\ i <= Len(q)
    BY <1>1, <1>3
  <2>2. priority[e] <= priority[q[i]] /\ priority[q[i]] <= priority[q[j]]
    BY <1>1, <1>4, <2>1
  <2> QED
    BY <1>3, <2>1, <2>2
<1> SUFFICES ASSUME NEW j \in 1 .. Len(r), NEW k \in 1 .. Len(r), j < k
             PROVE  priority[r[j]] <= priority[r[k]]
  BY DEF Ascending, r
<1>6. CASE k < i
  <2>1. j \in 1 .. i - 1 /\ k \in 1 .. i - 1 /\ j \in 1 .. Len(q) /\ k \in 1 .. Len(q) /\ j <= k
    BY <1>1, <1>3, <1>6
  <2> QED
    BY <1>2, <1>4, <2>1
<1>7. CASE j < i /\ k = i
  <2>1. j \in 1 .. i - 1 /\ j \in 1 .. Len(q)
    BY <1>1, <1>3, <1>7
  <2>2. r[j] = q[j] /\ r[k] = e
    BY <1>2, <1>7, <2>1
  <2>3. priority[q[j]] < priority[e]
    BY <1>1, <2>1
  <2> QED
    BY <1>3, <2>1, <2>2, <2>3
<1>8. CASE j < i /\ k > i
  <2>1. j \in 1 .. i - 1 /\ j \in 1 .. Len(q) /\ k \in i + 1 .. Len(q) + 1 /\ k - 1 \in 1 .. Len(q) /\ j <= k - 1
    BY <1>1, <1>2, <1>3, <1>8
  <2>2. r[j] = q[j] /\ r[k] = q[k - 1]
    BY <1>2, <2>1
  <2> QED
    BY <1>4, <2>1, <2>2
<1>9. CASE j = i
  <2>1. k \in i + 1 .. Len(q) + 1 /\ k - 1 \in i .. Len(q)
    BY <1>1, <1>2, <1>3, <1>9
  <2> QED
    BY <1>2, <1>5, <1>9, <2>1
<1>10. CASE j > i
  <2>1. /\ j \in i + 1 .. Len(q) + 1 /\ k \in i + 1 .. Len(q) + 1
        /\ j - 1 \in 1 .. Len(q) /\ k - 1 \in 1 .. Len(q) /\ j - 1 <= k - 1
    BY <1>1, <1>2, <1>3, <1>10
  <2>2. r[j] = q[j - 1] /\ r[k] = q[k - 1]
    BY <1>2, <2>1
  <2> QED
    BY <1>4, <2>1, <2>2
<1> QED
  BY <1>1, <1>6, <1>7, <1>8, <1>9, <1>10

(* "Events with same priority are added by FIFO order" (Handles.cpp:55):   *)
(* no event of the priority of e, or a higher one, is taken after e.       *)
LEMMA QueueEventIsFifo ==
    ASSUME NoOverflow, NEW q \in Seq(Event), NEW e \in Event, Ascending(q),
           NEW j \in 1 .. Len(q), priority[e] <= priority[q[j]]
    PROVE  Position(q, e) < j + 1 /\ QueueEvent(q, e)[j + 1] = q[j]
<1> DEFINE i == Position(q, e)
<1>1. i \in 1 .. Len(q) + 1 /\ \A k \in 1 .. i - 1 : priority[q[k]] < priority[e]
  BY PositionIsExact
<1> HIDE DEF i
<1>2. i <= j
  <2> SUFFICES ASSUME j \in 1 .. i - 1 PROVE FALSE
    BY <1>1
  <2>1. priority[q[j]] < priority[e] /\ priority[e] \in Int /\ priority[q[j]] \in Int
    BY <1>1, EventAssumption DEF IntRange
  <2> QED
    BY <2>1
<1> USE DEF i
<1>3. \A k \in i + 1 .. Len(q) + 1 : QueueEvent(q, e)[k] = q[k - 1]
  BY QueueEventProperties
<1> HIDE DEF i
<1>4. j + 1 \in i + 1 .. Len(q) + 1 /\ (j + 1) - 1 = j
  BY <1>1, <1>2
<1>5. i < j + 1 /\ QueueEvent(q, e)[j + 1] = q[j]
  BY <1>1, <1>2, <1>3, <1>4
<1> QED
  BY <1>5 DEF i

-----------------------------------------------------------------------------
(* Where the events of a queue are after queueEvent().                     *)
LEMMA QueueEventMoves ==
    ASSUME NEW q \in Seq(Event), NEW e \in Event
    PROVE  LET i == Position(q, e)
               r == QueueEvent(q, e)
           IN  /\ i \in 1 .. Len(r) /\ r[i] = e
               /\ Len(q) \in Nat /\ Len(r) = Len(q) + 1
               /\ \A j \in 1 .. Len(q) :
                     \/ j < i /\ r[j] = q[j]
                     \/ j >= i /\ r[j + 1] = q[j]
               /\ \A k \in 1 .. Len(r) : k # i =>
                     \/ k < i /\ k \in 1 .. Len(q) /\ r[k] = q[k]
                     \/ k > i /\ k - 1 \in 1 .. Len(q) /\ r[k] = q[k - 1]
<1> DEFINE i == Position(q, e)
           r == QueueEvent(q, e)
<1>1. Len(q) \in Nat /\ i \in 1 .. Len(q) + 1
  BY PositionProperties
<1>2. /\ Len(r) = Len(q) + 1
      /\ r[i] = e
      /\ \A j \in 1 .. i - 1 : r[j] = q[j]
      /\ \A j \in i + 1 .. Len(q) + 1 : r[j] = q[j - 1]
  BY QueueEventProperties
<1> HIDE DEF i, r
<1>3. ASSUME NEW j \in 1 .. Len(q), j >= i
      PROVE  r[j + 1] = q[j]
  <2>1. j + 1 \in i + 1 .. Len(q) + 1 /\ (j + 1) - 1 = j
    BY <1>1, <1>3
  <2> QED
    BY <1>2, <2>1
<1>4. \A j \in 1 .. Len(q) : (j < i /\ r[j] = q[j]) \/ (j >= i /\ r[j + 1] = q[j])
  BY <1>1, <1>2, <1>3
<1>5. \A k \in 1 .. Len(r) : k # i =>
          \/ k < i /\ k \in 1 .. Len(q) /\ r[k] = q[k]
          \/ k > i /\ k - 1 \in 1 .. Len(q) /\ r[k] = q[k - 1]
  <2> SUFFICES ASSUME NEW k \in 1 .. Len(r), k # i
               PROVE  \/ k < i /\ k \in 1 .. Len(q) /\ r[k] = q[k]
                      \/ k > i /\ k - 1 \in 1 .. Len(q) /\ r[k] = q[k - 1]
    OBVIOUS
  <2>1. \/ k < i /\ k \in 1 .. i - 1 /\ k \in 1 .. Len(q)
        \/ k > i /\ k \in i + 1 .. Len(q) + 1 /\ k - 1 \in 1 .. Len(q)
    BY <1>1, <1>2
  <2> QED
    BY <1>2, <2>1
<1> QED
  BY <1>1, <1>2, <1>4, <1>5 DEF i, r

(* It adds e and no other event, and none twice.                           *)
LEMMA QueueEventSet ==
    ASSUME NEW q \in Seq(Event), NEW e \in Event
    PROVE  /\ ToSet(QueueEvent(q, e)) = ToSet(q) \cup {e}
           /\ Distinct(q) /\ e \notin ToSet(q) => Distinct(QueueEvent(q, e))
<1> DEFINE i == Position(q, e)
           r == QueueEvent(q, e)
<1>1. /\ i \in 1 .. Len(r) /\ r[i] = e
      /\ Len(q) \in Nat /\ Len(r) = Len(q) + 1
      /\ \A j \in 1 .. Len(q) : (j < i /\ r[j] = q[j]) \/ (j >= i /\ r[j + 1] = q[j])
      /\ \A k \in 1 .. Len(r) : k # i =>
            \/ k < i /\ k \in 1 .. Len(q) /\ r[k] = q[k]
            \/ k > i /\ k - 1 \in 1 .. Len(q) /\ r[k] = q[k - 1]
  BY QueueEventMoves
<1>2. r \in Seq(Event)
  BY QueueEventProperties
<1> HIDE DEF i, r
<1>3. DOMAIN q = 1 .. Len(q) /\ DOMAIN r = 1 .. Len(r)
  BY <1>2
<1>4. \A f \in ToSet(q) : f \in ToSet(r)
  <2> SUFFICES ASSUME NEW j \in 1 .. Len(q) PROVE \E k \in 1 .. Len(r) : r[k] = q[j]
    BY <1>3 DEF ToSet
  <2>1. j \in 1 .. Len(r) /\ j + 1 \in 1 .. Len(r)
    BY <1>1
  <2> QED
    BY <1>1, <2>1
<1>5. \A f \in ToSet(r) : f \in ToSet(q) \cup {e}
  <2>1. \A k \in 1 .. Len(r) : k # i => \E j \in 1 .. Len(q) : q[j] = r[k]
    BY <1>1
  <2> QED
    BY <1>1, <1>3, <2>1 DEF ToSet
<1>6. e \in ToSet(r)
  BY <1>1, <1>3 DEF ToSet
<1>7. ASSUME Distinct(q), e \notin ToSet(q)
      PROVE  Distinct(r)
  <2> SUFFICES ASSUME NEW k \in 1 .. Len(r), NEW l \in 1 .. Len(r), r[k] = r[l], k # l
               PROVE  FALSE
    BY DEF Distinct
  <2>1. \A j \in 1 .. Len(q) : q[j] # e
    BY <1>3, <1>7 DEF ToSet
  <2>2. k # i /\ l # i
    BY <1>1, <2>1
  <2>3. CASE k < i /\ l < i
    BY <1>1, <1>7, <2>2, <2>3 DEF Distinct
  <2>4. CASE k < i /\ l > i
    BY <1>1, <1>7, <2>2, <2>4 DEF Distinct
  <2>5. CASE k > i /\ l < i
    BY <1>1, <1>7, <2>2, <2>5 DEF Distinct
  <2>6. CASE k > i /\ l > i
    <3>1. k - 1 \in 1 .. Len(q) /\ l - 1 \in 1 .. Len(q) /\ q[k - 1] = q[l - 1]
      BY <1>1, <2>2, <2>6
    <3>2. k - 1 = l - 1
      BY <1>7, <3>1 DEF Distinct
    <3> QED
      BY <3>2
  <2> QED
    BY <1>1, <2>2, <2>3, <2>4, <2>5, <2>6
<1> QED
  BY <1>4, <1>5, <1>6, <1>7 DEF r

(* A new event is the youngest of its priority, and the others keep their  *)
(* order.                                                                  *)
LEMMA QueueEventOlder ==
    ASSUME NoOverflow, NEW q \in Seq(Event), NEW e \in Event,
           Ascending(q), e \notin ToSet(q)
    PROVE  Older(QueueEvent(q, e))
               = Older(q) \cup ({f \in ToSet(q) : priority[f] = priority[e]} \X {e})
<1> DEFINE i == Position(q, e)
           r == QueueEvent(q, e)
           New == {f \in ToSet(q) : priority[f] = priority[e]} \X {e}
<1>1. /\ i \in 1 .. Len(r) /\ r[i] = e
      /\ Len(q) \in Nat /\ Len(r) = Len(q) + 1
      /\ \A j \in 1 .. Len(q) : (j < i /\ r[j] = q[j]) \/ (j >= i /\ r[j + 1] = q[j])
      /\ \A k \in 1 .. Len(r) : k # i =>
            \/ k < i /\ k \in 1 .. Len(q) /\ r[k] = q[k]
            \/ k > i /\ k - 1 \in 1 .. Len(q) /\ r[k] = q[k - 1]
  BY QueueEventMoves
<1>2. \A j \in 1 .. Len(q) : j < i => priority[q[j]] < priority[e]
  <2> SUFFICES ASSUME NEW j \in 1 .. Len(q), j < i PROVE priority[q[j]] < priority[e]
    OBVIOUS
  <2>1. q[j] \in Event /\ priority[q[j]] \in Int /\ priority[e] \in Int
    BY EventAssumption DEF IntRange
  <2>2. i \in Int /\ j \in 1 .. i - 1
    BY <1>1
  <2>3. ~StopsAt(q, e, j)
    BY <2>2, PositionProperties
  <2>4. ~(priority[e] <= priority[q[j]])
    BY <2>1, <2>3, CompareIsExact DEF StopsAt
  <2> QED
    BY <2>1, <2>4
<1>3. /\ DOMAIN q = 1 .. Len(q)
      /\ \A j \in 1 .. Len(q) : q[j] \in Event /\ priority[q[j]] \in Int
      /\ priority[e] \in Int
  BY EventAssumption DEF IntRange
<1> HIDE DEF i, r
<1>4. \A j \in 1 .. Len(q) : q[j] # e
  BY <1>3 DEF ToSet
<1>5. \A j, k \in 1 .. Len(q) : j < k =>
          \E l, m \in 1 .. Len(r) : l < m /\ r[l] = q[j] /\ r[m] = q[k]
  <2> SUFFICES ASSUME NEW j \in 1 .. Len(q), NEW k \in 1 .. Len(q), j < k
               PROVE  \E l, m \in 1 .. Len(r) : l < m /\ r[l] = q[j] /\ r[m] = q[k]
    OBVIOUS
  <2>1. /\ j \in 1 .. Len(r) /\ k \in 1 .. Len(r)
        /\ j + 1 \in 1 .. Len(r) /\ k + 1 \in 1 .. Len(r)
    BY <1>1
  <2>2. CASE k < i
    <3>1. j < k /\ r[j] = q[j] /\ r[k] = q[k]
      BY <1>1, <2>2
    <3> QED
      BY <2>1, <3>1
  <2>3. CASE j < i /\ k >= i
    <3>1. j < k + 1 /\ r[j] = q[j] /\ r[k + 1] = q[k]
      BY <1>1, <2>3
    <3> QED
      BY <2>1, <3>1
  <2>4. CASE j >= i
    <3>1. j + 1 < k + 1 /\ r[j + 1] = q[j] /\ r[k + 1] = q[k]
      BY <1>1, <2>4
    <3> QED
      BY <2>1, <3>1
  <2> QED
    BY <1>1, <2>2, <2>3, <2>4
<1>6. Older(q) \subseteq Older(r)
  <2> SUFFICES ASSUME NEW x \in Older(q) PROVE x \in Older(r)
    OBVIOUS
  <2>1. x \in Event \X Event /\ priority[x[1]] = priority[x[2]]
    BY DEF Older
  <2>2. PICK k, j \in 1 .. Len(q) : j < k /\ q[k] = x[1] /\ q[j] = x[2]
    BY DEF Older
  <2>3. \E l, m \in 1 .. Len(r) : l < m /\ r[l] = x[2] /\ r[m] = x[1]
    BY <1>5, <2>2
  <2> QED
    BY <2>1, <2>3 DEF Older
<1>7. New \subseteq Older(r)
  <2> SUFFICES ASSUME NEW f \in ToSet(q), priority[f] = priority[e] PROVE <<f, e>> \in Older(r)
    OBVIOUS
  <2>1. PICK j \in 1 .. Len(q) : q[j] = f
    BY <1>3 DEF ToSet
  <2>2. j >= i /\ r[j + 1] = f
    BY <1>1, <1>2, <1>3, <2>1
  <2>3. j + 1 \in 1 .. Len(r) /\ i < j + 1 /\ f \in Event
    BY <1>1, <1>3, <2>1, <2>2
  <2> QED
    BY <1>1, <2>2, <2>3 DEF Older
<1>8. Older(r) \subseteq Older(q) \cup New
  <2> SUFFICES ASSUME NEW x \in Older(r) PROVE x \in Older(q) \cup New
    OBVIOUS
  <2>1. x \in Event \X Event /\ x = <<x[1], x[2]>> /\ priority[x[1]] = priority[x[2]]
    BY DEF Older
  <2>2. PICK k, j \in 1 .. Len(r) : j < k /\ r[k] = x[1] /\ r[j] = x[2]
    BY DEF Older
  <2>3. CASE j = i
    <3>1. k - 1 \in 1 .. Len(q) /\ x[1] = q[k - 1] /\ x[2] = e
      BY <1>1, <2>2, <2>3
    <3>2. x[1] \in ToSet(q)
      BY <1>3, <3>1 DEF ToSet
    <3> QED
      BY <2>1, <3>1, <3>2
  <2>4. CASE k = i
    <3>1. j \in 1 .. Len(q) /\ j < i /\ x[2] = q[j] /\ x[1] = e
      BY <1>1, <2>2, <2>4
    <3> QED
      BY <1>2, <1>3, <2>1, <3>1
  <2>5. CASE j # i /\ k # i
    <3>1. \E l, m \in 1 .. Len(q) : l < m /\ q[l] = x[2] /\ q[m] = x[1]
      <4>1. CASE k < i
        <5>1. j \in 1 .. Len(q) /\ k \in 1 .. Len(q) /\ q[j] = x[2] /\ q[k] = x[1]
          BY <1>1, <2>2, <2>5, <4>1
        <5> QED
          BY <2>2, <5>1
      <4>2. CASE j < i /\ k > i
        <5>1. j \in 1 .. Len(q) /\ k - 1 \in 1 .. Len(q) /\ q[j] = x[2] /\ q[k - 1] = x[1]
          BY <1>1, <2>2, <2>5, <4>2
        <5>2. j < k - 1
          BY <1>1, <4>2
        <5> QED
          BY <5>1, <5>2
      <4>3. CASE j > i
        <5>1. j - 1 \in 1 .. Len(q) /\ k - 1 \in 1 .. Len(q) /\ q[j - 1] = x[2] /\ q[k - 1] = x[1]
          BY <1>1, <2>2, <2>5, <4>3
        <5>2. j - 1 < k - 1
          BY <2>2
        <5> QED
          BY <5>1, <5>2
      <4> QED
        BY <1>1, <2>2, <2>5, <4>1, <4>2, <4>3
    <3> QED
      BY <2>1, <3>1 DEF Older
  <2> QED
    BY <2>3, <2>4, <2>5
<1> QED
  BY <1>6, <1>7, <1>8 DEF r

(* back() and pop_back() take the last event, and leave the others in      *)
(* their order.                                                            *)
LEMMA PopBackProperties ==
    ASSUME NEW q \in Seq(Event), q # <<>>
    PROVE  /\ Len(q) \in Nat \ {0} /\ Back(q) = q[Len(q)] /\ Back(q) \in ToSet(q)
           /\ Back(q) \in Event
           /\ PopBack(q) \in Seq(Event) /\ Len(PopBack(q)) = Len(q) - 1
           /\ \A i \in 1 .. Len(q) - 1 : PopBack(q)[i] = q[i]
           /\ Ascending(q) => Ascending(PopBack(q))
<1>1. Len(q) \in Nat \ {0} /\ DOMAIN q = 1 .. Len(q) /\ q \in [1 .. Len(q) -> Event]
  BY LenProperties, EmptySeq
<1>2. /\ PopBack(q) \in Seq(Event) /\ Len(PopBack(q)) = Len(q) - 1
      /\ \A i \in 1 .. Len(q) - 1 : PopBack(q)[i] = q[i]
  BY <1>1, SubSeqProperties DEF PopBack
<1>3. Back(q) = q[Len(q)] /\ Back(q) \in ToSet(q) /\ Back(q) \in Event
  BY <1>1 DEF Back, ToSet
<1>4. Ascending(q) => Ascending(PopBack(q))
  BY <1>1, <1>2 DEF Ascending
<1> QED
  BY <1>1, <1>2, <1>3, <1>4

(* What is left when no event is queued twice.                             *)
LEMMA PopBackSet ==
    ASSUME NEW q \in Seq(Event), q # <<>>, Distinct(q)
    PROVE  /\ ToSet(PopBack(q)) = ToSet(q) \ {Back(q)}
           /\ Distinct(PopBack(q))
           /\ Older(PopBack(q)) = {x \in Older(q) : Back(q) \notin {x[1], x[2]}}
<1> DEFINE r == PopBack(q)
<1>1. /\ Len(q) \in Nat \ {0} /\ Back(q) = q[Len(q)]
      /\ r \in Seq(Event) /\ Len(r) = Len(q) - 1
      /\ \A i \in 1 .. Len(q) - 1 : r[i] = q[i]
  BY PopBackProperties
<1>2. DOMAIN q = 1 .. Len(q) /\ DOMAIN r = 1 .. Len(r)
  BY <1>1
<1> HIDE DEF r
<1>3. \A i \in 1 .. Len(q) : q[i] = Back(q) <=> i = Len(q)
  BY <1>1 DEF Distinct
<1>4. ToSet(r) = ToSet(q) \ {Back(q)}
  <2>1. \A f \in ToSet(r) : f \in ToSet(q) \ {Back(q)}
    BY <1>1, <1>2, <1>3 DEF ToSet
  <2>2. \A f \in ToSet(q) \ {Back(q)} : f \in ToSet(r)
    BY <1>1, <1>2, <1>3 DEF ToSet
  <2> QED
    BY <2>1, <2>2
<1>5. Distinct(r)
  BY <1>1 DEF Distinct
<1>6. Older(r) \subseteq {x \in Older(q) : Back(q) \notin {x[1], x[2]}}
  BY <1>1, <1>3 DEF Older
<1>7. {x \in Older(q) : Back(q) \notin {x[1], x[2]}} \subseteq Older(r)
  <2> SUFFICES ASSUME NEW x \in Older(q), Back(q) \notin {x[1], x[2]} PROVE x \in Older(r)
    OBVIOUS
  <2>1. x \in Event \X Event /\ priority[x[1]] = priority[x[2]]
    BY DEF Older
  <2>2. PICK k, j \in 1 .. Len(q) : j < k /\ q[k] = x[1] /\ q[j] = x[2]
    BY DEF Older
  <2>3. k \in 1 .. Len(r) /\ j \in 1 .. Len(r) /\ r[k] = x[1] /\ r[j] = x[2]
    BY <1>1, <1>3, <2>2
  <2> QED
    BY <2>1, <2>2, <2>3 DEF Older
<1> QED
  BY <1>4, <1>5, <1>6, <1>7 DEF r

(* The event at the back is one that PriorityChannel may take: none of a   *)
(* higher priority is queued, and none of its own that came before it.     *)
LEMMA BackIsFirst ==
    ASSUME NEW q \in Seq(Event), q # <<>>, Distinct(q), Ascending(q),
           NEW f \in ToSet(q)
    PROVE  priority[f] <= priority[Back(q)] /\ <<f, Back(q)>> \notin Older(q)
<1>1. Len(q) \in Nat \ {0} /\ Back(q) = q[Len(q)] /\ Back(q) \in Event
  BY PopBackProperties
<1>2. DOMAIN q = 1 .. Len(q)
  OBVIOUS
<1>3. PICK i \in 1 .. Len(q) : q[i] = f
  BY <1>2 DEF ToSet
<1>4. priority[f] <= priority[Back(q)]
  <2>1. CASE i = Len(q)
    <3>1. priority[Back(q)] \in Int
      BY <1>1, EventAssumption DEF IntRange
    <3> QED
      BY <1>1, <1>3, <2>1, <3>1
  <2>2. CASE i < Len(q)
    BY <1>1, <1>3, <2>2 DEF Ascending
  <2> QED
    BY <1>1, <2>1, <2>2
<1>5. ASSUME <<f, Back(q)>> \in Older(q) PROVE FALSE
  <2>1. PICK k, j \in 1 .. Len(q) : j < k /\ q[j] = Back(q)
    BY <1>5 DEF Older
  <2>2. j = Len(q)
    BY <1>1, <2>1 DEF Distinct
  <2> QED
    BY <1>1, <2>1, <2>2
<1> QED
  BY <1>4, <1>5

=============================================================================
