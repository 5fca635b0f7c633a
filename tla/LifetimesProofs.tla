--------------------------- MODULE LifetimesProofs ---------------------------
(***************************************************************************)
(* Theorems about Lifetimes, for every set of states and events of any     *)
(* kinds and for calls nested to any depth: what is counted is owned,      *)
(* nothing that is deleted is read, and nothing is left behind.            *)
(***************************************************************************)
EXTENDS Lifetimes, FiniteSetTheorems, SequenceTheorems, TLAPS

(* What an application must respect: no callback of a call that reads      *)
(* through plain pointers afterwards calls the machine.                    *)
NestsSafely == NestFrom \subseteq {"entry", "onStateChanged", "postHandle"}

-----------------------------------------------------------------------------
(* The inductive invariant, in parts.                                      *)

(* The owners of o outside of the objects: calls, context, application.    *)
Outside(c, k, x) == One(c = x) + One(x \in k)
Holders(st, c, k) == [o \in Object |-> Cardinality(Locals(st, o)) + Outside(c, k, o)]
Held == Holders(stack, current, client)

(* Memory m counts the owners in h and those among its own objects.        *)
Balanced(m, h) ==
    \A o \in Object :
        m.refs[o] = h[o] + Cardinality(SubStates(m, o)) + One(Kind[o] = "kept" /\ o \in m.linked)

(* An object with a reference is constructed; one without was released or  *)
(* is among the new ones, which were not referred to yet; a managed object *)
(* points to neither.                                                      *)
Alive(m, new, o) == o \in new \/ m.refs[o] > 0
Referred(m, new, o) ==
    /\ m.refs[o] > 0 => o \in m.made
    /\ o \in m.made /\ ~Alive(m, new, o) => o \in m.released
    /\ o \in m.linked => o \in m.made /\ Kind[o] # "native" /\ Alive(m, new, o)

Sound(m, h, new) ==
    /\ m \in Memory
    /\ h \in [Object -> Nat]
    /\ new \subseteq m.made
    /\ Balanced(m, h)
    /\ \A o \in Object : Referred(m, new, o)
    /\ \A s \in State : m.master[s] # None => Alive(m, new, s)

(* What the labels of a call f that runs say of its plain pointers.        *)
Live(m, o) == o # None => m.refs[o] > 0
TopInv(m, f) ==
    /\ f.at \in {"preHandle", "handle"} => f.op = "handleEvent" /\ f.next = None /\ f.cur # None
    /\ f.at \in {"handle", "exit"} => f.walk # None
    /\ f.at \in {"preHandle", "handle", "exit", "leaving"} => Live(m, f.cur) /\ Live(m, f.walk)

(* A callback that is not of the last call called the machine.             *)
Nested(st) == \A i \in 2 .. Len(st) : st[i].at \in NestFrom

StackInv ==
    /\ stack \in Seq(Frame)
    /\ current \in State \cup {None}
    /\ client \subseteq Object
    /\ Nested(stack)
    /\ stack # <<>> => TopInv(mem, Top)

Inv == Sound(mem, Held, {}) /\ StackInv

-----------------------------------------------------------------------------
(* The objects that keep o.                                                *)

LEMMA SubStatesFinite ==
    ASSUME NEW m, NEW o
    PROVE  IsFiniteSet(SubStates(m, o)) /\ Cardinality(SubStates(m, o)) \in Nat
<1>1. IsFiniteSet(State)
  BY LifetimesAssumption, FS_Subset DEF Object
<1>2. SubStates(m, o) \subseteq State
  BY DEF SubStates
<1> QED
  BY <1>1, <1>2, FS_Subset, FS_CardinalityType

(* What AddRef() changes.                                                  *)
LEMMA AddRefValues ==
    ASSUME NEW m \in Memory, NEW o \in Object \cup {None}
    PROVE  /\ AddRef(m, o) \in Memory
           /\ \A x \in Object : AddRef(m, o).refs[x] = m.refs[x] + One(x = o)
           /\ AddRef(m, o).made = m.made
           /\ AddRef(m, o).released = m.released
           /\ AddRef(m, o).master = m.master
           /\ AddRef(m, o).linked = m.linked
<1>1. CASE o = None
  BY <1>1, LifetimesAssumption DEF AddRef, Memory, One
<1>2. CASE o \in Object
  <2>1. AddRef(m, o) = [m EXCEPT !.refs[o] = @ + 1]
    BY <1>2, LifetimesAssumption DEF AddRef
  <2>2. m.refs \in [Object -> Nat]
    BY DEF Memory
  <2> QED
    BY <1>2, <2>1, <2>2 DEF Memory, One
<1> QED
  BY <1>1, <1>2

(* The same, as one fact about k and the a that it becomes.                *)
Referenced(k, o, a) ==
    /\ a \in Memory
    /\ \A x \in Object : a.refs[x] = k.refs[x] + One(x = o)
    /\ a.made = k.made /\ a.released = k.released
    /\ a.master = k.master /\ a.linked = k.linked

LEMMA AddRefReferences ==
    ASSUME NEW k \in Memory, NEW o \in Object \cup {None}
    PROVE  Referenced(k, o, AddRef(k, o))
BY AddRefValues DEF Referenced

LEMMA AddRefSound ==
    ASSUME NEW m, NEW h, NEW new, Sound(m, h, new),
           NEW o \in Object \cup {None}, o # None => o \in m.made,
           NEW g \in [Object -> Nat], \A x \in Object : g[x] = h[x] + One(x = o)
    PROVE  Sound(AddRef(m, o), g, new \ {o})
<1> DEFINE n == AddRef(m, o)
<1>1. m \in Memory
  BY DEF Sound
<1>2. /\ n \in Memory
      /\ \A x \in Object : n.refs[x] = m.refs[x] + One(x = o)
      /\ n.made = m.made /\ n.released = m.released
      /\ n.master = m.master /\ n.linked = m.linked
  BY <1>1, AddRefValues
<1> HIDE DEF n
<1>3. \A x \in Object : m.refs[x] \in Nat /\ h[x] \in Nat
  BY <1>1 DEF Memory, Sound
<1>4. Balanced(n, g)
  <2> SUFFICES ASSUME NEW x \in Object
               PROVE  n.refs[x] = g[x] + Cardinality(SubStates(n, x)) + One(Kind[x] = "kept" /\ x \in n.linked)
    BY DEF Balanced
  <2>1. SubStates(n, x) = SubStates(m, x)
    BY <1>2 DEF SubStates
  <2>2. m.refs[x] = h[x] + Cardinality(SubStates(m, x)) + One(Kind[x] = "kept" /\ x \in m.linked)
    BY DEF Sound, Balanced
  <2> QED
    BY <1>2, <1>3, <2>1, <2>2, SubStatesFinite DEF One
<1>5. \A x \in Object : n.refs[x] = m.refs[x] \/ (x = o /\ n.refs[x] = m.refs[x] + 1)
  BY <1>2, <1>3 DEF One
<1>6. \A x \in Object : x # o => n.refs[x] = m.refs[x]
  BY <1>2, <1>3 DEF One
<1>7. \A x \in Object : n.refs[x] \in Nat /\ (x = o => n.refs[x] > 0)
  BY <1>2, <1>3 DEF One
<1>8. \A x \in Object : Alive(m, new, x) => Alive(n, new \ {o}, x)
  BY <1>6, <1>7 DEF Alive
<1>9. ASSUME NEW x \in Object
      PROVE  Referred(n, new \ {o}, x)
  <2>1. Referred(m, new, x)
    BY DEF Sound
  <2>2. CASE x = o
    BY <1>2, <1>7, <1>8, <2>1, <2>2, LifetimesAssumption DEF Referred, Alive
  <2>3. CASE x # o
    BY <1>2, <1>6, <1>8, <2>1, <2>3 DEF Referred
  <2> QED
    BY <2>2, <2>3
<1>10. ASSUME NEW s \in State, n.master[s] # None
       PROVE  Alive(n, new \ {o}, s)
  BY <1>2, <1>8, <1>10 DEF Sound, Object
<1>11. new \ {o} \subseteq n.made
  BY <1>2 DEF Sound
<1> QED
  BY <1>2, <1>4, <1>9, <1>10, <1>11 DEF Sound, n

-----------------------------------------------------------------------------
(* What Release() deletes.                                                 *)

Last(m, x) == m.refs[x] = 1

ClosedUp(m, o, S) ==
    /\ Last(m, o) => o \in S
    /\ \A s \in S \cap State : m.master[s] # None /\ Last(m, m.master[s]) => m.master[s] \in S

LEMMA GoneIsLeast ==
    ASSUME NEW m, NEW o \in Object,
           \A s \in State : m.master[s] \in State \cup {None}
    PROVE  /\ Gone(m, o) \subseteq Object
           /\ ClosedUp(m, o, Gone(m, o))
           /\ \A S \in SUBSET Object : ClosedUp(m, o, S) => Gone(m, o) \subseteq S
<1>1. Gone(m, o) = {x \in Object : \A S \in SUBSET Object : ClosedUp(m, o, S) => x \in S}
  BY DEF Gone, ClosedUp, Last
<1>2. \A s \in State : m.master[s] # None => m.master[s] \in Object
  BY DEF Object
<1> QED
  BY <1>1, <1>2 DEF ClosedUp

(* Each deleted object but the first was the master of a deleted one, and  *)
(* each was referred to once.                                              *)
LEMMA GoneIsReached ==
    ASSUME NEW m, NEW o \in Object,
           \A s \in State : m.master[s] \in State \cup {None},
           NEW x \in Gone(m, o)
    PROVE  /\ Last(m, x)
           /\ x # o => \E s \in Gone(m, o) \cap State : m.master[s] = x
<1> DEFINE G == Gone(m, o)
<1>1. /\ G \subseteq Object
      /\ ClosedUp(m, o, G)
      /\ \A S \in SUBSET Object : ClosedUp(m, o, S) => G \subseteq S
  BY GoneIsLeast
<1> HIDE DEF G
<1>2. ~ ClosedUp(m, o, G \ {x})
  BY <1>1 DEF G
<1>3. Last(m, x)
  BY <1>1, <1>2 DEF ClosedUp
<1>4. x # o => \E s \in G \cap State : m.master[s] = x
  BY <1>1, <1>2 DEF ClosedUp
<1> QED
  BY <1>3, <1>4 DEF G

(* The deleted objects form a chain: no two of them have the same master.  *)
LEMMA GoneIsChain ==
    ASSUME NEW m, NEW o \in Object,
           \A s \in State : m.master[s] \in State \cup {None},
           NEW s1 \in Gone(m, o) \cap State, NEW s2 \in Gone(m, o) \cap State,
           m.master[s1] = m.master[s2], m.master[s1] \notin Gone(m, o), m.master[s1] # None
    PROVE  s1 = s2
<1> DEFINE G == Gone(m, o)
           Below(T) == s1 \in T /\ \A s \in G \cap State : m.master[s] \in T => s \in T
           T0 == {x \in G : \A T \in SUBSET G : Below(T) => x \in T}
<1>1. /\ G \subseteq Object
      /\ ClosedUp(m, o, G)
      /\ \A S \in SUBSET Object : ClosedUp(m, o, S) => G \subseteq S
  BY GoneIsLeast
<1>2. s1 \in G /\ s2 \in G
  OBVIOUS
<1>3. T0 \subseteq G /\ Below(T0)
  BY <1>2
<1>4. ASSUME NEW t \in T0, t # s1
      PROVE  t \in State /\ m.master[t] \in T0
  <2>1. ~ Below(T0 \ {t})
    BY <1>3, <1>4
  <2>2. PICK s \in G \cap State : m.master[s] \in T0 \ {t} /\ s \notin T0 \ {t}
    BY <1>3, <1>4, <2>1
  <2>3. s = t
    BY <1>3, <2>2
  <2> QED
    BY <2>2, <2>3
<1>5. o \in T0
  <2> SUFFICES ASSUME o \notin T0 PROVE FALSE
    OBVIOUS
  <2>1. ClosedUp(m, o, G \ T0)
    BY <1>1, <1>3 DEF ClosedUp
  <2> QED
    BY <1>1, <1>3, <2>1
<1>6. ClosedUp(m, o, T0)
  <2> SUFFICES ASSUME NEW s \in T0 \cap State, m.master[s] # None, Last(m, m.master[s])
               PROVE  m.master[s] \in T0
    BY <1>5 DEF ClosedUp
  <2>1. m.master[s] \in G
    BY <1>1, <1>3 DEF ClosedUp
  <2>2. s # s1
    BY <2>1
  <2> QED
    BY <1>4, <2>2
<1>7. G \subseteq T0
  BY <1>1, <1>3, <1>6
<1>8. s2 # s1 => m.master[s2] \in T0
  BY <1>2, <1>4, <1>7
<1> QED
  BY <1>3, <1>8

(* Who loses a reference.                                                  *)
Losing(m, o) == {o} \cup {m.master[s] : s \in Gone(m, o) \cap State}

LEMMA ReleaseValues ==
    ASSUME NEW m \in Memory, NEW o \in Object
    PROVE  LET n == Release(m, o) G == Gone(m, o)
           IN  /\ n.made = m.made
               /\ n.refs = [x \in Object |-> IF x \in Losing(m, o) THEN m.refs[x] - 1 ELSE m.refs[x]]
               /\ n.released = m.released \cup G
               /\ n.master = [s \in State |-> IF s \in G THEN None ELSE m.master[s]]
               /\ n.linked = {x \in m.linked : x \notin G \/ Kind[x] # "autoDispose"}
               /\ n = [made |-> n.made, refs |-> n.refs, released |-> n.released,
                       master |-> n.master, linked |-> n.linked]
<1> DEFINE G == Gone(m, o)
           d == [m EXCEPT !.refs = [x \in Object |-> IF x \in Losing(m, o) THEN @[x] - 1 ELSE @[x]],
                          !.released = @ \cup G,
                          !.master = [s \in State |-> IF s \in G THEN None ELSE @[s]]]
<1>1. Release(m, o) = Destroy(d, G)
  BY LifetimesAssumption DEF Release, Losing
<1> HIDE DEF G
<1> QED
  BY <1>1 DEF Destroy, Memory, G

(* A set of sub-states from which one of them is gone.                     *)
LEMMA SubStatesCount ==
    ASSUME NEW m, NEW x, NEW s \in State, m.master[s] = x
    PROVE  /\ Cardinality(SubStates(m, x)) > 0
           /\ Cardinality(SubStates(m, x) \ {s}) = Cardinality(SubStates(m, x)) - 1
<1>1. s \in SubStates(m, x)
  BY DEF SubStates
<1>2. Cardinality(SubStates(m, x) \ {s}) = Cardinality(SubStates(m, x)) - 1
  BY <1>1, SubStatesFinite, FS_RemoveElement
<1>3. IsFiniteSet(SubStates(m, x) \ {s})
  BY SubStatesFinite, FS_Subset
<1>4. Cardinality(SubStates(m, x) \ {s}) \in Nat
  BY <1>3, FS_CardinalityType
<1> QED
  BY <1>2, <1>4, SubStatesFinite

LEMMA ReleaseSound ==
    ASSUME NEW m, NEW h, Sound(m, h, {}), NEW o \in Object \cup {None},
           NEW g \in [Object -> Nat], \A x \in Object : h[x] = g[x] + One(x = o)
    PROVE  Sound(Release(m, o), g, {})
<1>1. CASE o = None
  <2>1. Release(m, o) = m
    BY <1>1 DEF Release
  <2>2. \A x \in Object : h[x] = g[x]
    BY <1>1, LifetimesAssumption DEF One
  <2>3. Balanced(m, g)
    BY <2>2 DEF Balanced, Sound
  <2> QED
    BY <2>1, <2>3 DEF Sound
<1>2. CASE o \in Object
  <2> DEFINE n == Release(m, o)
             G == Gone(m, o)
             R == Losing(m, o)
             K(q, x) == One(Kind[x] = "kept" /\ x \in q.linked)
             M(q, x) == Cardinality(SubStates(q, x))
  <2>1. m \in Memory /\ m.refs \in [Object -> Nat] /\ m.linked \subseteq Object
    BY DEF Sound, Memory
  <2>2. \A s \in State : m.master[s] \in State \cup {None}
    BY <2>1 DEF Memory
  <2>3. /\ n.made = m.made
        /\ n.refs = [x \in Object |-> IF x \in R THEN m.refs[x] - 1 ELSE m.refs[x]]
        /\ n.released = m.released \cup G
        /\ n.master = [s \in State |-> IF s \in G THEN None ELSE m.master[s]]
        /\ n.linked = {x \in m.linked : x \notin G \/ Kind[x] # "autoDispose"}
        /\ n = [made |-> n.made, refs |-> n.refs, released |-> n.released,
                master |-> n.master, linked |-> n.linked]
    BY <1>2, <2>1, ReleaseValues
  <2>4. /\ G \subseteq Object
        /\ ClosedUp(m, o, G)
        /\ \A S \in SUBSET Object : ClosedUp(m, o, S) => G \subseteq S
    BY <1>2, <2>2, GoneIsLeast
  <2>5. \A x \in G : Last(m, x) /\ (x # o => \E s \in G \cap State : m.master[s] = x)
    BY <1>2, <2>2, GoneIsReached
  <2>6. ASSUME NEW s1 \in G \cap State, NEW s2 \in G \cap State,
               m.master[s1] = m.master[s2], m.master[s1] \notin G, m.master[s1] # None
        PROVE  s1 = s2
    BY <1>2, <2>2, <2>6, GoneIsChain
  <2>7. R = {o} \cup {m.master[s] : s \in G \cap State}
    BY DEF Losing
  <2> HIDE DEF n, G, R
  <2>8. \A x \in Object : m.refs[x] = h[x] + M(m, x) + K(m, x)
    BY DEF Sound, Balanced
  <2>9. \A x \in Object : /\ m.refs[x] \in Nat /\ h[x] \in Nat /\ g[x] \in Nat
                          /\ M(m, x) \in Nat /\ M(n, x) \in Nat
                          /\ K(m, x) \in {0, 1} /\ K(n, x) \in {0, 1}
    BY <2>1, SubStatesFinite DEF One, Sound
  <2>10. h[o] = g[o] + 1 /\ \A x \in Object : x # o => h[x] = g[x]
    BY <1>2 DEF One
  <2> HIDE DEF M, K
  <2>11. \A x \in Object : SubStates(n, x) = SubStates(m, x) \ G
    BY <2>3, LifetimesAssumption DEF SubStates
  <2>12. \A x \in R \cap Object : m.refs[x] > 0
    <3> SUFFICES ASSUME NEW x \in R \cap Object PROVE m.refs[x] > 0
      OBVIOUS
    <3>1. CASE x = o
      BY <2>8, <2>9, <2>10, <3>1
    <3>2. CASE x # o
      <4>1. PICK s \in State : m.master[s] = x
        BY <2>7, <3>2
      <4>2. M(m, x) > 0
        BY <4>1, SubStatesCount DEF M
      <4> QED
        BY <2>8, <2>9, <4>2
    <3> QED
      BY <3>1, <3>2
  <2>13. n \in Memory
    <3>1. n.refs \in [Object -> Nat]
      BY <2>3, <2>9, <2>12
    <3>2. n.made \subseteq Object /\ n.released \subseteq Object /\ n.linked \subseteq Object
      BY <2>1, <2>3, <2>4 DEF Memory
    <3>3. n.master \in [State -> State \cup {None}]
      BY <2>2, <2>3
    <3> QED
      BY <2>3, <3>1, <3>2, <3>3 DEF Memory
  <2>14. ASSUME NEW x \in G
         PROVE  /\ n.refs[x] = 0 /\ g[x] = 0 /\ M(n, x) = 0 /\ K(m, x) = 0
    <3>1. x \in Object /\ m.refs[x] = 1 /\ x \in R
      BY <2>4, <2>5, <2>7 DEF Last
    <3>2. n.refs[x] = 0
      BY <2>3, <3>1
    <3>3. CASE x = o
      <4>1. h[x] = g[x] + 1 /\ 1 = h[x] + M(m, x) + K(m, x)
        BY <2>8, <2>10, <3>1, <3>3
      <4>2. g[x] \in Nat /\ M(m, x) \in Nat /\ K(m, x) \in Nat
        BY <2>9, <3>1
      <4>3. g[x] = 0 /\ M(m, x) = 0 /\ K(m, x) = 0
        BY <4>1, <4>2
      <4>4. SubStates(m, x) = {}
        BY <4>3, SubStatesFinite, FS_EmptySet DEF M
      <4>5. M(n, x) = 0
        BY <2>11, <3>1, <4>4, FS_EmptySet DEF M
      <4> QED
        BY <3>2, <4>3, <4>5
    <3>4. CASE x # o
      <4>1. PICK s \in G \cap State : m.master[s] = x
        BY <2>5, <3>4
      <4>2. M(m, x) > 0 /\ Cardinality(SubStates(m, x) \ {s}) = M(m, x) - 1
        BY <4>1, SubStatesCount DEF M
      <4>3. h[x] = 0 /\ M(m, x) = 1 /\ K(m, x) = 0
        BY <2>8, <2>9, <3>1, <4>2
      <4>4. IsFiniteSet(SubStates(m, x) \ {s})
        BY SubStatesFinite, FS_Subset
      <4>5. SubStates(m, x) \ {s} = {}
        BY <4>2, <4>3, <4>4, FS_EmptySet
      <4>6. SubStates(n, x) = {}
        BY <2>11, <3>1, <4>1, <4>5
      <4>7. M(n, x) = 0
        BY <4>6, FS_EmptySet DEF M
      <4> QED
        BY <2>10, <3>1, <3>2, <3>4, <4>3, <4>7
    <3> QED
      BY <3>3, <3>4
  <2>15. \A x \in Object \ G : x \in R => m.refs[x] > 1
    <3> SUFFICES ASSUME NEW x \in Object \ G, x \in R PROVE ~Last(m, x)
      BY <2>9, <2>12 DEF Last
    <3> QED
      BY <2>4, <2>7, LifetimesAssumption DEF ClosedUp
  <2>16. ASSUME NEW x \in Object \ G
         PROVE  n.refs[x] = g[x] + M(n, x) + K(n, x)
    <3>1. K(n, x) = K(m, x)
      BY <2>3 DEF K
    <3>2. CASE x \notin R
      <4>1. x # o /\ \A s \in G \cap State : m.master[s] # x
        BY <2>7, <3>2
      <4>2. SubStates(n, x) = SubStates(m, x)
        BY <2>11, <4>1 DEF SubStates
      <4> QED
        BY <2>3, <2>8, <2>10, <3>1, <3>2, <4>1, <4>2 DEF M
    <3>3. CASE x = o
      <4>1. ClosedUp(m, o, {})
        BY <2>4, <3>3 DEF ClosedUp
      <4>2. G = {}
        BY <2>4, <4>1
      <4>3. SubStates(n, x) = SubStates(m, x) /\ x \in R
        BY <2>7, <2>11, <3>3, <4>2
      <4> QED
        BY <2>3, <2>8, <2>9, <2>10, <3>1, <3>3, <4>3 DEF M
    <3>4. CASE x \in R /\ x # o
      <4>1. PICK s \in G \cap State : m.master[s] = x
        BY <2>7, <3>4
      <4>2. \A z \in G \cap State : m.master[z] = x => z = s
        BY <2>6, <4>1, LifetimesAssumption
      <4>3. SubStates(n, x) = SubStates(m, x) \ {s}
        BY <2>11, <4>1, <4>2 DEF SubStates
      <4>4. Cardinality(SubStates(m, x) \ {s}) = Cardinality(SubStates(m, x)) - 1
        BY <4>1, SubStatesCount
      <4>5. M(n, x) = M(m, x) - 1
        BY <4>3, <4>4 DEF M
      <4> QED
        BY <2>3, <2>8, <2>9, <2>10, <3>1, <3>4, <4>5
    <3> QED
      BY <3>2, <3>3, <3>4
  <2>17. Balanced(n, g)
    <3> SUFFICES ASSUME NEW x \in Object
                 PROVE  n.refs[x] = g[x] + M(n, x) + K(n, x)
      BY DEF Balanced, M, K
    <3>1. CASE x \in G
      <4>1. K(n, x) = 0
        BY <2>3, <2>14, <3>1 DEF K, One
      <4> QED
        BY <2>14, <3>1, <4>1
    <3> QED
      BY <2>16, <3>1
  <2>18. \A x \in Object \ G : m.refs[x] > 0 => n.refs[x] > 0
    BY <2>3, <2>9, <2>15
  <2>19. ASSUME NEW x \in Object
         PROVE  Referred(n, {}, x)
    <3>1. Referred(m, {}, x)
      BY DEF Sound
    <3>2. CASE x \in G
      <4>1. Kind[x] # "kept" \/ x \notin m.linked
        <5>1. K(m, x) = 0
          BY <2>14, <3>2
        <5> QED
          BY <5>1 DEF K, One
      <4>2. x \in m.linked => Kind[x] # "native"
        BY <3>1 DEF Referred
      <4>3. Kind[x] \in {"native", "autoDispose", "kept"}
        BY LifetimesAssumption
      <4>4. x \notin n.linked
        BY <2>3, <3>2, <4>1, <4>2, <4>3
      <4> QED
        BY <2>3, <2>14, <3>2, <4>4 DEF Referred
    <3>3. CASE x \notin G
      <4>1. n.refs[x] > 0 <=> m.refs[x] > 0
        BY <2>3, <2>9, <2>12, <2>18, <3>3
      <4> QED
        BY <2>3, <3>1, <3>3, <4>1 DEF Referred, Alive
    <3> QED
      BY <3>2, <3>3
  <2>20. ASSUME NEW s \in State, n.master[s] # None
         PROVE  Alive(n, {}, s)
    <3>1. s \in Object \ G /\ m.master[s] # None
      BY <2>3, <2>20 DEF Object
    <3>2. m.refs[s] > 0
      BY <3>1 DEF Sound, Alive
    <3> QED
      BY <2>18, <3>1, <3>2 DEF Alive
  <2> QED
    BY <2>13, <2>17, <2>19, <2>20 DEF Sound, n
<1> QED
  BY <1>1, <1>2

-----------------------------------------------------------------------------
(* Objects that are constructed.                                           *)

(* In memory n, object o is new, with master p.                            *)
New(m, n, o, p) ==
    /\ n \in Memory
    /\ n.made = m.made \cup {o} /\ n.released = m.released
    /\ n.linked = IF Kind[o] = "native" THEN m.linked ELSE m.linked \cup {o}
    /\ \A s \in State : n.master[s] = IF s = o THEN p ELSE m.master[s]
    /\ o \notin State => p = None
    /\ \A x \in Object : n.refs[x] = m.refs[x] + One(x = p) + One(Kind[o] = "kept" /\ x = o)

LEMMA NewSound ==
    ASSUME NEW m, NEW h, NEW new, Sound(m, h, new),
           NEW o \in Object, o \notin m.made,
           NEW p \in State \cup {None}, p # None => p \in m.made,
           NEW n, New(m, n, o, p)
    PROVE  Sound(n, h, new \cup {o})
<1> USE DEF New
<1> DEFINE K(q, x) == One(Kind[x] = "kept" /\ x \in q.linked)
           M(q, x) == Cardinality(SubStates(q, x))
<1>1. m \in Memory /\ h \in [Object -> Nat]
  BY DEF Sound
<1>2. \A x \in Object : m.refs[x] \in Nat /\ h[x] \in Nat /\ n.refs[x] \in Nat
  BY <1>1 DEF Memory
<1>3. \A x \in Object : Referred(m, new, x)
  BY DEF Sound
<1>4. m.refs[o] = 0 /\ o \notin m.linked /\ p # o
  BY <1>2, <1>3, LifetimesAssumption DEF Referred
<1>5. o \notin new /\ (o \in State => m.master[o] = None)
  BY <1>4 DEF Sound, Alive
<1>6. \A x \in Object : n.refs[x] >= m.refs[x] /\ (x = p => n.refs[x] > 0)
  BY <1>2 DEF One
<1>7. \A x \in Object : x # p /\ x # o => n.refs[x] = m.refs[x]
  BY <1>2 DEF One
<1>8. ASSUME NEW x \in Object
      PROVE  n.refs[x] = h[x] + M(n, x) + K(n, x)
  <2>1. m.refs[x] = h[x] + M(m, x) + K(m, x)
    BY DEF Sound, Balanced
  <2>2. K(n, x) = K(m, x) + One(Kind[o] = "kept" /\ x = o)
    BY <1>4 DEF One
  <2>3. M(n, x) = M(m, x) + One(x = p)
    <3>1. CASE x = p
      <4>1. o \in State /\ m.master[o] # x
        BY <1>5, <3>1, LifetimesAssumption
      <4>2. SubStates(n, x) = SubStates(m, x) \cup {o} /\ o \notin SubStates(m, x)
        BY <3>1, <4>1 DEF SubStates
      <4>3. Cardinality(SubStates(m, x) \cup {o}) = Cardinality(SubStates(m, x)) + 1
        BY <4>2, SubStatesFinite, FS_AddElement
      <4> QED
        BY <3>1, <4>2, <4>3 DEF One
    <3>2. CASE x # p
      <4>1. SubStates(n, x) = SubStates(m, x)
        BY <1>5, <3>2, LifetimesAssumption DEF SubStates
      <4> QED
        BY <3>2, <4>1, SubStatesFinite DEF One
    <3> QED
      BY <3>1, <3>2
  <2>4. M(m, x) \in Nat /\ K(m, x) \in Nat /\ One(x = p) \in Nat /\ One(Kind[o] = "kept" /\ x = o) \in Nat
    BY SubStatesFinite DEF One
  <2> HIDE DEF M, K
  <2> QED
    BY <1>2, <2>1, <2>2, <2>3, <2>4
<1>9. Balanced(n, h)
  BY <1>8 DEF Balanced
<1>10. \A x \in Object : Alive(m, new, x) => Alive(n, new \cup {o}, x)
  BY <1>2, <1>6 DEF Alive
<1>11. ASSUME NEW x \in Object
       PROVE  Referred(n, new \cup {o}, x)
  <2>1. CASE x = o
    BY <1>4, <2>1 DEF Referred, Alive
  <2>2. CASE x # o
    <3>1. Referred(m, new, x) /\ (Alive(m, new, x) => Alive(n, new \cup {o}, x))
      BY <1>3, <1>10
    <3>2. x \in n.made <=> x \in m.made
      BY <2>2
    <3>3. x \in n.linked <=> x \in m.linked
      BY <2>2
    <3>4. n.refs[x] > 0 => x \in m.made
      BY <1>7, <2>2, <3>1, LifetimesAssumption DEF Referred
    <3> QED
      BY <3>1, <3>2, <3>3, <3>4 DEF Referred
  <2> QED
    BY <2>1, <2>2
<1>12. ASSUME NEW s \in State, n.master[s] # None
       PROVE  Alive(n, new \cup {o}, s)
  BY <1>10, <1>12 DEF Sound, Alive, Object
<1>13. new \cup {o} \subseteq n.made
  BY DEF Sound
<1> QED
  BY <1>1, <1>9, <1>11, <1>12, <1>13 DEF Sound

(* A constructed object, and what else construction leaves.                *)
Constructed(m, h, new, o, n) ==
    /\ Sound(n, h, new \cup {o})
    /\ n.made = m.made \cup {o}
    /\ \A x \in Object : n.refs[x] >= m.refs[x]

LEMMA ConstructStateSound ==
    ASSUME NEW m, NEW h, NEW new, Sound(m, h, new),
           NEW s \in State, s \notin m.made,
           NEW p \in State \cup {None}, p # None => p \in m.made
    PROVE  Constructed(m, h, new, s, ConstructState(m, s, p))
<1> DEFINE k == [m EXCEPT !.master[s] = p]
           a == AddRef(k, p)
           c == [a EXCEPT !.made = @ \cup {s},
                          !.linked = IF Kind[s] = "native" THEN @ ELSE @ \cup {s}]
           n == ConstructState(m, s, p)
<1>1. m \in Memory /\ s \in Object /\ p \in Object \cup {None}
  BY DEF Sound, Object
<1>2. /\ k \in Memory /\ k.made = m.made /\ k.refs = m.refs /\ k.released = m.released
      /\ k.linked = m.linked /\ \A x \in State : k.master[x] = IF x = s THEN p ELSE m.master[x]
  BY <1>1 DEF Memory
<1> HIDE DEF k
<1>3. /\ a \in Memory
      /\ \A x \in Object : a.refs[x] = k.refs[x] + One(x = p)
      /\ a.made = k.made /\ a.released = k.released
      /\ a.master = k.master /\ a.linked = k.linked
  <2>1. Referenced(k, p, AddRef(k, p))
    BY <1>1, <1>2, AddRefReferences
  <2> QED
    BY <2>1 DEF Referenced
<1> HIDE DEF a
<1>4. /\ c \in Memory /\ c.made = a.made \cup {s} /\ c.refs = a.refs /\ c.released = a.released
      /\ c.linked = (IF Kind[s] = "native" THEN a.linked ELSE a.linked \cup {s})
      /\ c.master = a.master
  BY <1>1, <1>3 DEF Memory
<1>5. n = IF Kind[s] = "kept" THEN AddRef(c, s) ELSE c
  BY DEF ConstructState, Construct, a, k
<1> HIDE DEF c, n
<1>6. \A x \in Object : m.refs[x] \in Nat /\ a.refs[x] \in Nat /\ c.refs[x] \in Nat
  BY <1>1, <1>3, <1>4 DEF Memory
<1>7. /\ n \in Memory
      /\ \A x \in Object : n.refs[x] = c.refs[x] + One(Kind[s] = "kept" /\ x = s)
      /\ n.made = c.made /\ n.released = c.released
      /\ n.master = c.master /\ n.linked = c.linked
  <2>1. CASE Kind[s] = "kept"
    BY <1>1, <1>4, <1>5, <2>1, AddRefValues
  <2>2. CASE Kind[s] # "kept"
    BY <1>4, <1>5, <1>6, <2>2 DEF One
  <2> QED
    BY <2>1, <2>2
<1>8. \A x \in Object : n.refs[x] = m.refs[x] + One(x = p) + One(Kind[s] = "kept" /\ x = s)
  BY <1>2, <1>3, <1>4, <1>7
<1>9. Sound(n, h, new \cup {s})
  <2>1. n \in Memory /\ n.made = m.made \cup {s} /\ n.released = m.released
    BY <1>2, <1>3, <1>4, <1>7
  <2>2. n.linked = IF Kind[s] = "native" THEN m.linked ELSE m.linked \cup {s}
    BY <1>2, <1>3, <1>4, <1>7
  <2>3. \A x \in State : n.master[x] = IF x = s THEN p ELSE m.master[x]
    BY <1>2, <1>3, <1>4, <1>7
  <2>4. New(m, n, s, p)
    BY <1>8, <2>1, <2>2, <2>3 DEF New
  <2> QED
    BY <1>1, <2>4, NewSound
<1>10. \A x \in Object : n.refs[x] >= m.refs[x]
  BY <1>6, <1>8 DEF One
<1> QED
  BY <1>2, <1>3, <1>4, <1>7, <1>9, <1>10 DEF Constructed, n

LEMMA ConstructEventSound ==
    ASSUME NEW m, NEW h, NEW new, Sound(m, h, new),
           NEW e \in Event, e \notin m.made
    PROVE  Constructed(m, h, new, e, ConstructEvent(m, e))
<1> DEFINE c == [m EXCEPT !.made = @ \cup {e},
                          !.linked = IF Kind[e] = "native" THEN @ ELSE @ \cup {e}]
           n == ConstructEvent(m, e)
<1>1. m \in Memory /\ e \in Object /\ e \notin State
  BY LifetimesAssumption DEF Sound, Object
<1>2. /\ c \in Memory /\ c.made = m.made \cup {e} /\ c.refs = m.refs /\ c.released = m.released
      /\ c.linked = (IF Kind[e] = "native" THEN m.linked ELSE m.linked \cup {e})
      /\ c.master = m.master
  BY <1>1 DEF Memory
<1>3. n = IF Kind[e] = "kept" THEN AddRef(c, e) ELSE c
  BY DEF ConstructEvent, Construct
<1> HIDE DEF c, n
<1>4. \A x \in Object : m.refs[x] \in Nat /\ c.refs[x] \in Nat /\ x # None
  BY <1>1, <1>2, LifetimesAssumption DEF Memory
<1>5. /\ n \in Memory
      /\ \A x \in Object : n.refs[x] = c.refs[x] + One(Kind[e] = "kept" /\ x = e)
      /\ n.made = c.made /\ n.released = c.released
      /\ n.master = c.master /\ n.linked = c.linked
  <2>1. CASE Kind[e] = "kept"
    BY <1>1, <1>2, <1>3, <2>1, AddRefValues
  <2>2. CASE Kind[e] # "kept"
    BY <1>2, <1>3, <1>4, <2>2 DEF One
  <2> QED
    BY <2>1, <2>2
<1>6. \A x \in Object : n.refs[x] = m.refs[x] + One(x = None) + One(Kind[e] = "kept" /\ x = e)
  BY <1>2, <1>4, <1>5 DEF One
<1>7. Sound(n, h, new \cup {e})
  <2>1. n \in Memory /\ n.made = m.made \cup {e} /\ n.released = m.released
    BY <1>2, <1>5
  <2>2. n.linked = IF Kind[e] = "native" THEN m.linked ELSE m.linked \cup {e}
    BY <1>2, <1>5
  <2>3. \A x \in State : n.master[x] = IF x = e THEN None ELSE m.master[x]
    BY <1>1, <1>2, <1>5
  <2>4. New(m, n, e, None)
    BY <1>1, <1>6, <2>1, <2>2, <2>3 DEF New
  <2> QED
    BY <1>1, <2>4, NewSound
<1>8. \A x \in Object : n.refs[x] >= m.refs[x]
  BY <1>4, <1>6 DEF One
<1> QED
  BY <1>2, <1>5, <1>7, <1>8 DEF Constructed, n

(* More objects may count as new.                                          *)
LEMMA SoundOfMore ==
    ASSUME NEW m, NEW h, NEW new, Sound(m, h, new), NEW more, more \subseteq m.made
    PROVE  Sound(m, h, new \cup more)
BY DEF Sound, Referred, Alive

LEMMA PassedSound ==
    ASSUME NEW m, NEW h, NEW new, Sound(m, h, new), NEW o \in Object \cup {None}
    PROVE  /\ Sound(Passed(m, o), h, new \cup ({o} \ {None}))
           /\ m.made \subseteq Passed(m, o).made
           /\ o # None => o \in Passed(m, o).made
           /\ \A x \in Object : Passed(m, o).refs[x] >= m.refs[x]
<1>1. \A x \in Object : m.refs[x] \in Nat
  BY DEF Sound, Memory
<1>2. CASE o = None \/ o \in m.made
  <2>1. Passed(m, o) = m
    BY <1>2 DEF Passed
  <2>2. {o} \ {None} \subseteq m.made
    BY <1>2
  <2>3. Sound(m, h, new \cup ({o} \ {None}))
    BY <2>2, SoundOfMore
  <2> QED
    BY <1>1, <1>2, <2>1, <2>3
<1>3. CASE o # None /\ o \notin m.made /\ o \in State
  <2>1. Passed(m, o) = ConstructState(m, o, None)
    BY <1>3 DEF Passed
  <2>2. Constructed(m, h, new, o, ConstructState(m, o, None))
    BY <1>3, ConstructStateSound
  <2>3. {o} \ {None} = {o}
    BY <1>3
  <2> QED
    BY <2>1, <2>2, <2>3 DEF Constructed
<1>4. CASE o # None /\ o \notin m.made /\ o \notin State
  <2>1. Passed(m, o) = ConstructEvent(m, o)
    BY <1>4 DEF Passed
  <2>2. Constructed(m, h, new, o, ConstructEvent(m, o))
    BY <1>4, ConstructEventSound DEF Object
  <2>3. {o} \ {None} = {o}
    BY <1>4
  <2> QED
    BY <2>1, <2>2, <2>3 DEF Constructed
<1> QED
  BY <1>2, <1>3, <1>4

LEMMA DisposedSound ==
    ASSUME NEW m, NEW h, Sound(m, h, {}), NEW o \in m.linked
    PROVE  Sound(Disposed(m, o), h, {})
<1> DEFINE n == [m EXCEPT !.linked = @ \ {o}]
           g == [x \in Object |-> h[x] + One(Kind[o] = "kept" /\ x = o)]
<1>1. m \in Memory /\ h \in [Object -> Nat] /\ o \in Object
  BY DEF Sound, Memory
<1>2. /\ n \in Memory /\ n.made = m.made /\ n.refs = m.refs /\ n.released = m.released
      /\ n.master = m.master /\ n.linked = m.linked \ {o}
  BY <1>1 DEF Memory
<1>3. Disposed(m, o) = IF Kind[o] = "kept" THEN Release(n, o) ELSE n
  BY DEF Disposed
<1> HIDE DEF n
<1>4. \A x \in Object : h[x] \in Nat /\ m.refs[x] \in Nat
  BY <1>1 DEF Memory
<1>5. g \in [Object -> Nat]
  BY <1>4 DEF One
<1>6. Balanced(n, g)
  <2> SUFFICES ASSUME NEW x \in Object
               PROVE  n.refs[x] = g[x] + Cardinality(SubStates(n, x)) + One(Kind[x] = "kept" /\ x \in n.linked)
    BY DEF Balanced
  <2>1. SubStates(n, x) = SubStates(m, x)
    BY <1>2 DEF SubStates
  <2>2. m.refs[x] = h[x] + Cardinality(SubStates(m, x)) + One(Kind[x] = "kept" /\ x \in m.linked)
    BY DEF Sound, Balanced
  <2>3. One(Kind[x] = "kept" /\ x \in m.linked)
            = One(Kind[o] = "kept" /\ x = o) + One(Kind[x] = "kept" /\ x \in n.linked)
    BY <1>2 DEF One
  <2>4. /\ One(Kind[o] = "kept" /\ x = o) \in Nat /\ One(Kind[x] = "kept" /\ x \in n.linked) \in Nat
        /\ Cardinality(SubStates(m, x)) \in Nat
    BY SubStatesFinite DEF One
  <2> QED
    BY <1>2, <1>4, <2>1, <2>2, <2>3, <2>4
<1>7. Sound(n, g, {})
  <2>1. \A x \in Object : Referred(n, {}, x)
    BY <1>2 DEF Sound, Referred, Alive
  <2>2. \A s \in State : n.master[s] # None => Alive(n, {}, s)
    BY <1>2 DEF Sound, Alive
  <2> HIDE DEF g
  <2> QED
    BY <1>2, <1>5, <1>6, <2>1, <2>2 DEF Sound
<1>8. CASE Kind[o] = "kept"
  <2>1. \A x \in Object : g[x] = h[x] + One(x = o)
    BY <1>8
  <2> HIDE DEF g
  <2> QED
    BY <1>1, <1>3, <1>7, <1>8, <2>1, ReleaseSound
<1>9. CASE Kind[o] # "kept"
  <2>1. \A x \in Object : g[x] = h[x]
    BY <1>4, <1>9 DEF One
  <2>2. g = h
    BY <1>1, <2>1
  <2> HIDE DEF g
  <2> QED
    BY <1>3, <1>7, <1>9, <2>2
<1> QED
  BY <1>8, <1>9

(* The master of a state is kept by it.                                    *)
LEMMA MasterIsReferred ==
    ASSUME NEW m, NEW h, NEW new, Sound(m, h, new), NEW s \in State, m.master[s] # None
    PROVE  m.master[s] \in State /\ m.refs[m.master[s]] > 0
<1>1. m.master[s] \in State
  BY DEF Sound, Memory
<1> DEFINE x == m.master[s]
<1>2. m.refs[x] = h[x] + Cardinality(SubStates(m, x)) + One(Kind[x] = "kept" /\ x \in m.linked)
  BY <1>1 DEF Sound, Balanced, Object
<1>3. Cardinality(SubStates(m, x)) > 0
  BY SubStatesCount
<1>4. h[x] \in Nat /\ Cardinality(SubStates(m, x)) \in Nat /\ One(Kind[x] = "kept" /\ x \in m.linked) \in Nat
  BY <1>1, SubStatesFinite DEF Sound, Object, One
<1> QED
  BY <1>1, <1>2, <1>3, <1>4

-----------------------------------------------------------------------------
(* The calls under way.                                                    *)

(* The local variables of f that own o.                                    *)
Owns(f, v, o) == v \in Owning(f) /\ f[v] = o
Own(f, o) == One(Owns(f, "event", o)) + One(Owns(f, "next", o)) + One(Owns(f, "cur", o))

LEMMA AddIf ==
    ASSUME NEW S, IsFiniteSet(S), NEW x, x \notin S, NEW p \in BOOLEAN,
           NEW T, T = IF p THEN S \cup {x} ELSE S
    PROVE  IsFiniteSet(T) /\ Cardinality(T) = Cardinality(S) + One(p)
<1>1. CASE p
  BY <1>1, FS_AddElement DEF One
<1>2. CASE ~p
  BY <1>2, FS_CardinalityType DEF One
<1> QED
  BY <1>1, <1>2

LEMMA LocalsFinite ==
    ASSUME NEW st \in Seq(Frame), NEW o
    PROVE  IsFiniteSet(Locals(st, o)) /\ Cardinality(Locals(st, o)) \in Nat
<1>1. IsFiniteSet(1 .. Len(st))
  BY FS_Interval, LenProperties
<1>2. IsFiniteSet(Slot)
  <2>1. Slot = ({"event"} \cup {"next"}) \cup {"cur"}
    BY DEF Slot
  <2> QED
    BY <2>1, FS_Singleton, FS_Union
<1>3. IsFiniteSet((1 .. Len(st)) \X Slot)
  BY <1>1, <1>2, FS_Product
<1>4. Locals(st, o) \subseteq (1 .. Len(st)) \X Slot
  BY DEF Locals
<1> QED
  BY <1>3, <1>4, FS_Subset, FS_CardinalityType

LEMMA Pushed ==
    ASSUME NEW f \in Frame, NEW st \in Seq(Frame)
    PROVE  /\ <<f>> \o st \in Seq(Frame) /\ <<f>> \o st # <<>>
           /\ Len(<<f>> \o st) = Len(st) + 1 /\ Len(st) \in Nat
           /\ (<<f>> \o st)[1] = f
           /\ \A i \in 1 .. Len(st) : (<<f>> \o st)[i + 1] = st[i]
           /\ Head(<<f>> \o st) = f
<1>1. <<f>> \in Seq(Frame) /\ Len(<<f>>) = 1 /\ <<f>>[1] = f
  OBVIOUS
<1>2. /\ <<f>> \o st \in Seq(Frame)
      /\ Len(<<f>> \o st) = 1 + Len(st)
      /\ \A i \in 1 .. 1 + Len(st) : (<<f>> \o st)[i] = IF i <= 1 THEN <<f>>[i] ELSE st[i - 1]
  BY <1>1, ConcatProperties
<1>3. Len(st) \in Nat
  BY LenProperties
<1> DEFINE n == <<f>> \o st
<1> HIDE DEF n
<1>4. n # <<>>
  BY <1>2, <1>3, EmptySeq DEF n
<1>5. n[1] = f /\ \A i \in 1 .. Len(st) : n[i + 1] = st[i]
  BY <1>1, <1>2, <1>3 DEF n
<1>6. Head(n) = n[1]
  BY <1>2, <1>4 DEF n
<1> QED
  BY <1>2, <1>3, <1>4, <1>5, <1>6 DEF n

LEMMA Popped ==
    ASSUME NEW st \in Seq(Frame), st # <<>>
    PROVE  /\ Head(st) \in Frame /\ Tail(st) \in Seq(Frame)
           /\ st = <<Head(st)>> \o Tail(st)
           /\ Len(st) = Len(Tail(st)) + 1 /\ Len(Tail(st)) \in Nat
           /\ \A i \in 1 .. Len(Tail(st)) : Tail(st)[i] = st[i + 1]
<1>1. /\ Head(st) \in Frame /\ Tail(st) \in Seq(Frame)
      /\ Len(Tail(st)) = Len(st) - 1
      /\ \A i \in 1 .. Len(Tail(st)) : Tail(st)[i] = st[i + 1]
  BY HeadTailProperties
<1>2. Len(st) \in Nat /\ Len(Tail(st)) \in Nat /\ Head(st) = st[1]
  BY <1>1, LenProperties
<1> DEFINE n == <<Head(st)>> \o Tail(st)
<1>3. /\ n \in Seq(Frame) /\ Len(n) = Len(Tail(st)) + 1 /\ n[1] = Head(st)
      /\ \A i \in 1 .. Len(Tail(st)) : n[i + 1] = Tail(st)[i]
  BY <1>1, Pushed
<1> HIDE DEF n
<1>4. \A i \in 1 .. Len(st) : n[i] = st[i]
  <2> SUFFICES ASSUME NEW i \in 1 .. Len(st) PROVE n[i] = st[i]
    OBVIOUS
  <2>1. CASE i = 1
    BY <1>2, <1>3, <2>1
  <2>2. CASE i # 1
    <3>1. i - 1 \in 1 .. Len(Tail(st)) /\ (i - 1) + 1 = i
      BY <1>1, <1>2, <2>2
    <3> QED
      BY <1>1, <1>3, <3>1
  <2> QED
    BY <2>1, <2>2
<1>5. n = st
  BY <1>1, <1>2, <1>3, <1>4, SeqEqual
<1> QED
  BY <1>1, <1>2, <1>5 DEF n

LEMMA LocalsPush ==
    ASSUME NEW f \in Frame, NEW st \in Seq(Frame), NEW o
    PROVE  Cardinality(Locals(<<f>> \o st, o)) = Cardinality(Locals(st, o)) + Own(f, o)
<1> DEFINE n == <<f>> \o st
           k == Len(st) + 1
           L0 == Locals(st, o)
           L1 == IF Owns(f, "event", o) THEN L0 \cup {<<k, "event">>} ELSE L0
           L2 == IF Owns(f, "next", o) THEN L1 \cup {<<k, "next">>} ELSE L1
           L3 == IF Owns(f, "cur", o) THEN L2 \cup {<<k, "cur">>} ELSE L2
<1>1. /\ Len(n) = Len(st) + 1 /\ Len(st) \in Nat
      /\ n[1] = f /\ \A i \in 1 .. Len(st) : n[i + 1] = st[i]
  BY Pushed
<1>2. \A x \in L0 : x[1] # k
  BY <1>1 DEF Locals
<1>3. Under(n, k) = f /\ \A i \in 1 .. Len(st) : Under(n, i) = Under(st, i)
  <2>1. Len(n) + 1 - k = 1
    BY <1>1
  <2>2. ASSUME NEW i \in 1 .. Len(st) PROVE Under(n, i) = Under(st, i)
    <3>1. Len(st) + 1 - i \in 1 .. Len(st) /\ Len(n) + 1 - i = (Len(st) + 1 - i) + 1
      BY <1>1
    <3> QED
      BY <1>1, <3>1 DEF Under
  <2> QED
    BY <1>1, <2>1, <2>2 DEF Under
<1> HIDE DEF n
<1>4. Locals(n, o) = L3
  <2>1. 1 .. Len(n) = (1 .. Len(st)) \cup {k} /\ k \notin 1 .. Len(st)
    BY <1>1
  <2> HIDE DEF k
  <2>2. \A v \in Slot : <<k, v>> \in Locals(n, o) <=> Owns(f, v, o)
    BY <1>3, <2>1 DEF Locals, Owns
  <2>3. \A i \in 1 .. Len(st), v \in Slot : <<i, v>> \in Locals(n, o) <=> <<i, v>> \in L0
    BY <1>3, <2>1 DEF Locals
  <2>4. L0 \subseteq (1 .. Len(st)) \X Slot /\ Locals(n, o) \subseteq (1 .. Len(n)) \X Slot
    BY DEF Locals
  <2>5. \A i \in 1 .. Len(st), v \in Slot : <<i, v>> \in L3 <=> <<i, v>> \in L0
    BY <2>1
  <2> HIDE DEF L0
  <2>6. \A v \in Slot : <<k, v>> \in L3 <=> Owns(f, v, o)
    BY <2>1, <2>4 DEF Slot
  <2>7. L3 \subseteq (1 .. Len(n)) \X Slot
    BY <2>1, <2>4 DEF Slot
  <2> HIDE DEF L3
  <2>8. \A i \in 1 .. Len(n), v \in Slot : <<i, v>> \in L3 <=> <<i, v>> \in Locals(n, o)
    BY <2>1, <2>2, <2>3, <2>5, <2>6
  <2>9. ASSUME NEW x \in (1 .. Len(n)) \X Slot
        PROVE  x \in L3 <=> x \in Locals(n, o)
    <3>1. PICK i \in 1 .. Len(n), v \in Slot : x = <<i, v>>
      OBVIOUS
    <3> QED
      BY <2>8, <3>1
  <2> QED
    BY <2>4, <2>7, <2>9
<1>5. IsFiniteSet(L0) /\ Cardinality(L0) \in Nat
  BY LocalsFinite
<1>6. \A v : <<k, v>> \notin L0
  BY <1>2
<1> HIDE DEF L0, k
<1>7. IsFiniteSet(L1) /\ Cardinality(L1) = Cardinality(L0) + One(Owns(f, "event", o))
  BY <1>5, <1>6, AddIf DEF Owns
<1>8. <<k, "next">> \notin L1 /\ <<k, "cur">> \notin L1
  BY <1>6
<1> HIDE DEF L1
<1>9. IsFiniteSet(L2) /\ Cardinality(L2) = Cardinality(L1) + One(Owns(f, "next", o))
  BY <1>7, <1>8, AddIf DEF Owns
<1>10. <<k, "cur">> \notin L2
  BY <1>8
<1> HIDE DEF L2
<1>11. Cardinality(L3) = Cardinality(L2) + One(Owns(f, "cur", o))
  BY <1>9, <1>10, AddIf DEF Owns
<1>12. /\ One(Owns(f, "event", o)) \in Nat /\ One(Owns(f, "next", o)) \in Nat
       /\ One(Owns(f, "cur", o)) \in Nat
  BY DEF One
<1> HIDE DEF L3
<1>13. Cardinality(L3) = Cardinality(L0) + Own(f, o)
  BY <1>5, <1>7, <1>9, <1>11, <1>12 DEF Own
<1> QED
  BY <1>4, <1>13 DEF n, L0

(* The references of the calls that st holds, and of nothing else.         *)
Base(st, x) == Cardinality(Locals(st, x))

LEMMA OwnValues ==
    ASSUME NEW f, NEW x
    PROVE  Own(f, x) \in Nat
BY DEF Own, One

LEMMA HoldersValues ==
    ASSUME NEW st \in Seq(Frame), NEW c, NEW k
    PROVE  /\ Holders(st, c, k) \in [Object -> Nat]
           /\ \A x \in Object : /\ Holders(st, c, k)[x] = Base(st, x) + Outside(c, k, x)
                                /\ Base(st, x) \in Nat /\ Outside(c, k, x) \in Nat
<1>1. \A x \in Object : Base(st, x) \in Nat /\ Outside(c, k, x) \in Nat
  BY LocalsFinite DEF Base, Outside, One
<1>2. \A x \in Object : Base(st, x) + Outside(c, k, x) \in Nat
  BY <1>1
<1> QED
  BY <1>1, <1>2 DEF Holders, Base

(* A stack on which f was pushed.                                          *)
OnTop(st, f, n) ==
    /\ n \in Seq(Frame) /\ n # <<>> /\ Head(n) = f
    /\ Nested(n)
    /\ \A x \in Object : Base(n, x) = Base(st, x) + Own(f, x)

LEMMA PushedOnTop ==
    ASSUME NEW st \in Seq(Frame), NEW f \in Frame, Nested(st),
           st # <<>> => Head(st).at \in NestFrom
    PROVE  OnTop(st, f, <<f>> \o st)
<1> DEFINE n == <<f>> \o st
<1>1. /\ n \in Seq(Frame) /\ n # <<>> /\ Head(n) = f
      /\ Len(n) = Len(st) + 1 /\ Len(st) \in Nat
      /\ \A i \in 1 .. Len(st) : n[i + 1] = st[i]
  BY Pushed
<1>2. \A x \in Object : Base(n, x) = Base(st, x) + Own(f, x)
  BY LocalsPush DEF Base
<1> HIDE DEF n
<1>3. ASSUME NEW i \in 2 .. Len(n) PROVE n[i].at \in NestFrom
  <2>1. i - 1 \in 1 .. Len(st) /\ n[i] = st[i - 1]
    <3>1. i - 1 \in 1 .. Len(st) /\ (i - 1) + 1 = i
      BY <1>1
    <3> QED
      BY <1>1, <3>1
  <2>2. CASE i = 2
    <3>1. Len(st) # 0 /\ st[1] = Head(st)
      BY <1>1, <2>1, <2>2
    <3> QED
      BY <2>1, <2>2, <3>1, EmptySeq
  <2>3. CASE i # 2
    BY <2>1, <2>3 DEF Nested
  <2> QED
    BY <2>2, <2>3
<1> QED
  BY <1>1, <1>2, <1>3 DEF OnTop, Nested, n

(* The stack without its last call.                                        *)
LEMMA PoppedStack ==
    ASSUME NEW st \in Seq(Frame), st # <<>>, Nested(st)
    PROVE  /\ Head(st) \in Frame
           /\ Tail(st) \in Seq(Frame) /\ Nested(Tail(st))
           /\ Tail(st) # <<>> => Head(Tail(st)).at \in NestFrom
           /\ \A x \in Object : Base(st, x) = Base(Tail(st), x) + Own(Head(st), x)
<1> DEFINE t == Tail(st)
<1>1. /\ Head(st) \in Frame /\ t \in Seq(Frame) /\ st = <<Head(st)>> \o t
      /\ Len(st) = Len(t) + 1 /\ Len(t) \in Nat
      /\ \A i \in 1 .. Len(t) : t[i] = st[i + 1]
  BY Popped
<1>2. \A x \in Object : Base(st, x) = Base(t, x) + Own(Head(st), x)
  BY <1>1, LocalsPush DEF Base
<1> HIDE DEF t
<1>3. ASSUME NEW i \in 1 .. Len(t) PROVE t[i].at \in NestFrom
  <2>1. i + 1 \in 2 .. Len(st) /\ t[i] = st[i + 1]
    BY <1>1
  <2> QED
    BY <2>1 DEF Nested
<1>4. Nested(t)
  BY <1>1, <1>3 DEF Nested
<1>5. t # <<>> => Head(t).at \in NestFrom
  <2> SUFFICES ASSUME t # <<>> PROVE Head(t).at \in NestFrom
    OBVIOUS
  <2>1. Len(t) \in Nat \ {0} /\ Head(t) = t[1]
    BY <1>1, EmptySeq
  <2> QED
    BY <1>3, <2>1
<1> QED
  BY <1>1, <1>2, <1>4, <1>5 DEF t

LEMMA CallStep ==
    ASSUME StackInv, MayCall, NEW f \in Frame, Call(f)
    PROVE  OnTop(stack, f, stack')
BY PushedOnTop DEF StackInv, MayCall, Call, Top

LEMMA StayStep ==
    ASSUME StackInv, stack # <<>>, NEW f \in Frame, Stay(f)
    PROVE  OnTop(Tail(stack), f, stack')
BY PoppedStack, PushedOnTop DEF StackInv, Stay

(* The references that the calls held, after a step of the last one.       *)
LEMMA HeldOnTop ==
    ASSUME NEW st, NEW f, OnTop(st, f, stack')
    PROVE  /\ Held' \in [Object -> Nat]
           /\ \A x \in Object :
                 Held'[x] = Base(st, x) + Own(f, x) + Outside(current', client', x)
<1>1. stack' \in Seq(Frame) /\ \A x \in Object : Base(stack', x) = Base(st, x) + Own(f, x)
  BY DEF OnTop
<1>2. Held' = Holders(stack', current', client')
  BY DEF Held
<1>3. /\ Held' \in [Object -> Nat]
      /\ \A x \in Object : Held'[x] = Base(stack', x) + Outside(current', client', x)
  BY <1>1, <1>2, HoldersValues
<1> QED
  BY <1>1, <1>3

(* After these callbacks nothing is read through a plain pointer.          *)
Quiet == {"entry", "onStateChanged", "postHandle"}

LEMMA QuietTop ==
    ASSUME NEW m, NEW f, f.at \in Quiet
    PROVE  TopInv(m, f)
BY DEF Quiet, TopInv

LEMMA InvOnTop ==
    ASSUME NEW st, NEW f, OnTop(st, f, stack'), TopInv(mem', f),
           current' \in State \cup {None}, client' \subseteq Object,
           Sound(mem', Held', {})
    PROVE  Inv'
BY DEF Inv, StackInv, OnTop, Top

LEMMA InvPopped ==
    ASSUME StackInv, NestsSafely, stack # <<>>, stack' = Tail(stack),
           current' \in State \cup {None}, client' \subseteq Object,
           Sound(mem', Held', {})
    PROVE  Inv'
<1>1. stack' # <<>> => TopInv(mem', Head(stack'))
  <2>1. stack' # <<>> => Head(stack').at \in Quiet
    BY PoppedStack DEF StackInv, NestsSafely, Quiet
  <2> QED
    BY <2>1, QuietTop
<1>2. stack' \in Seq(Frame) /\ Nested(stack')
  BY PoppedStack DEF StackInv
<1> QED
  BY <1>1, <1>2 DEF Inv, StackInv, Top

LEMMA InvSame ==
    ASSUME StackInv, NestsSafely, MayCall, stack' = stack,
           current' \in State \cup {None}, client' \subseteq Object,
           Sound(mem', Held', {})
    PROVE  Inv'
<1>1. stack # <<>> => TopInv(mem', Head(stack))
  <2>1. stack # <<>> => Head(stack).at \in Quiet
    BY DEF MayCall, NestsSafely, Quiet, Top
  <2> QED
    BY <2>1, QuietTop
<1> QED
  BY <1>1 DEF Inv, StackInv, Top

(* What is held while the calls are st and the application holds no less.  *)
LEMMA HeldPopped ==
    ASSUME StackInv, stack # <<>>
    PROVE  /\ Held \in [Object -> Nat]
           /\ \A x \in Object : /\ Held[x] = Base(Tail(stack), x) + Own(Top, x) + Outside(current, client, x)
                                /\ Base(Tail(stack), x) \in Nat /\ Own(Top, x) \in Nat
                                /\ Outside(current, client, x) \in Nat
<1>1. Held \in [Object -> Nat] /\ \A x \in Object : Held[x] = Base(stack, x) + Outside(current, client, x)
  BY HoldersValues DEF StackInv, Held
<1>2. Tail(stack) \in Seq(Frame) /\ \A x \in Object : Base(stack, x) = Base(Tail(stack), x) + Own(Top, x)
  BY PoppedStack DEF StackInv, Top
<1>3. \A x \in Object : Base(Tail(stack), x) \in Nat /\ Outside(current, client, x) \in Nat
  BY <1>2, HoldersValues
<1>4. \A x \in Object : Own(Top, x) \in Nat
  BY OwnValues
<1> QED
  BY <1>1, <1>2, <1>3, <1>4

-----------------------------------------------------------------------------
(* The steps of the application.                                           *)

LEMMA TakeStep ==
    ASSUME Inv, NestsSafely, NEW o \in Object, Take(o)
    PROVE  Inv'
<1>1. /\ MayCall /\ o \notin client /\ mem' = AddRef(Passed(mem, o), o)
      /\ client' = client \cup {o} /\ current' = current /\ stack' = stack
  BY DEF Take
<1>2. StackInv /\ Sound(mem, Held, {})
  BY DEF Inv
<1>3. Sound(Passed(mem, o), Held, {o}) /\ o \in Passed(mem, o).made
  <2>1. o # None /\ {} \cup ({o} \ {None}) = {o}
    BY LifetimesAssumption
  <2> QED
    BY <1>2, <2>1, PassedSound
<1>4. /\ Held' \in [Object -> Nat]
      /\ \A x \in Object : Held'[x] = Held[x] + One(x = o)
  <2>1. Held' = Holders(stack, current, client')
    BY <1>1 DEF Held
  <2>2. stack \in Seq(Frame)
    BY <1>2 DEF StackInv
  <2>3. \A x \in Object : Outside(current, client', x) = Outside(current, client, x) + One(x = o)
    BY <1>1 DEF Outside, One
  <2>4. \A x \in Object : One(x = o) \in Nat
    BY DEF One
  <2>5. \A x \in Object : /\ Held[x] = Base(stack, x) + Outside(current, client, x)
                          /\ Base(stack, x) \in Nat /\ Outside(current, client, x) \in Nat
    BY <2>2, HoldersValues DEF Held
  <2>6. Held' \in [Object -> Nat] /\ \A x \in Object : Held'[x] = Base(stack, x) + Outside(current, client', x)
    BY <2>1, <2>2, HoldersValues
  <2> QED
    BY <2>3, <2>4, <2>5, <2>6
<1>5. Sound(mem', Held', {o} \ {o})
  BY <1>1, <1>3, <1>4, AddRefSound
<1>6. {o} \ {o} = {}
  OBVIOUS
<1>7. current' \in State \cup {None} /\ client' \subseteq Object
  BY <1>1, <1>2 DEF StackInv
<1> QED
  BY <1>1, <1>2, <1>5, <1>6, <1>7, InvSame

LEMMA DropStep ==
    ASSUME Inv, NestsSafely, NEW o \in Object, Drop(o)
    PROVE  Inv'
<1>1. /\ MayCall /\ o \in client /\ mem' = Release(mem, o)
      /\ client' = client \ {o} /\ current' = current /\ stack' = stack
  BY DEF Drop
<1>2. StackInv /\ Sound(mem, Held, {})
  BY DEF Inv
<1>3. /\ Held' \in [Object -> Nat]
      /\ \A x \in Object : Held[x] = Held'[x] + One(x = o)
  <2>1. Held' = Holders(stack, current, client')
    BY <1>1 DEF Held
  <2>2. stack \in Seq(Frame)
    BY <1>2 DEF StackInv
  <2>3. \A x \in Object : Outside(current, client, x) = Outside(current, client', x) + One(x = o)
    BY <1>1 DEF Outside, One
  <2>4. \A x \in Object : One(x = o) \in Nat
    BY DEF One
  <2>5. \A x \in Object : Held[x] = Base(stack, x) + Outside(current, client, x)
    BY <2>2, HoldersValues DEF Held
  <2>6. /\ Held' \in [Object -> Nat]
        /\ \A x \in Object : /\ Held'[x] = Base(stack, x) + Outside(current, client', x)
                             /\ Base(stack, x) \in Nat /\ Outside(current, client', x) \in Nat
    BY <2>1, <2>2, HoldersValues
  <2> QED
    BY <2>3, <2>4, <2>5, <2>6
<1>4. Sound(mem', Held', {})
  BY <1>1, <1>2, <1>3, ReleaseSound
<1>5. current' \in State \cup {None} /\ client' \subseteq Object
  BY <1>1, <1>2 DEF StackInv
<1> QED
  BY <1>1, <1>2, <1>4, <1>5, InvSame

LEMMA DisposeStep ==
    ASSUME Inv, NestsSafely, NEW o \in Object, Dispose(o)
    PROVE  Inv'
<1>1. /\ MayCall /\ o \in mem.linked /\ mem' = Disposed(mem, o)
      /\ client' = client /\ current' = current /\ stack' = stack
  BY DEF Dispose
<1>2. StackInv /\ Sound(mem, Held, {})
  BY DEF Inv
<1>3. Held' = Held
  BY <1>1 DEF Held
<1>4. Sound(mem', Held', {})
  BY <1>1, <1>2, <1>3, DisposedSound
<1>5. current' \in State \cup {None} /\ client' \subseteq Object
  BY <1>1, <1>2 DEF StackInv
<1> QED
  BY <1>1, <1>2, <1>4, <1>5, InvSame

-----------------------------------------------------------------------------
(* What the local variables of each call own.                              *)
LEMMA OwnOfCalls ==
    ASSUME NEW f \in Frame, NEW x
    PROVE  /\ f.op = "setup" => Own(f, x) = One(x = f.event) + One(x = f.next)
           /\ f.op = "shutdown" => Own(f, x) = 0
           /\ f.op = "handleEvent" /\ f.at \in {"preHandle", "handle"} => Own(f, x) = One(x = f.event)
           /\ f.op = "handleEvent" /\ f.at \in {"leaving", "exit", "postHandle"} =>
                 Own(f, x) = One(x = f.event) + One(x = f.next)
           /\ f.op = "handleEvent" /\ f.at \in {"entry", "onStateChanged"} =>
                 Own(f, x) = One(x = f.event) + One(x = f.next) + One(x = f.cur)
<1>1. f["event"] = f.event /\ f["next"] = f.next /\ f["cur"] = f.cur
  BY DEF Frame
<1>2. CASE f.op = "setup"
  <2>1. Owning(f) = {"event", "next"}
    BY <1>2 DEF Owning
  <2> QED
    BY <1>1, <1>2, <2>1 DEF Own, Owns, One
<1>3. CASE f.op = "shutdown"
  <2>1. Owning(f) = {}
    BY <1>3 DEF Owning
  <2> QED
    BY <1>3, <2>1 DEF Own, Owns, One
<1>4. CASE f.op = "handleEvent"
  <2>1. Owning(f) = {"event"} \cup (IF f.at \in {"preHandle", "handle"} THEN {} ELSE {"next"})
                              \cup (IF f.at \in {"entry", "onStateChanged"} THEN {"cur"} ELSE {})
    BY <1>4 DEF Owning
  <2>2. CASE f.at \in {"preHandle", "handle"}
    BY <1>1, <1>4, <2>1, <2>2 DEF Own, Owns, One
  <2>3. CASE f.at \in {"leaving", "exit", "postHandle"}
    BY <1>1, <1>4, <2>1, <2>3 DEF Own, Owns, One
  <2>4. CASE f.at \in {"entry", "onStateChanged"}
    BY <1>1, <1>4, <2>1, <2>4 DEF Own, Owns, One
  <2> QED
    BY <1>4, <2>2, <2>3, <2>4
<1> QED
  BY <1>2, <1>3, <1>4 DEF Frame

LEMMA NoneIsHeld ==
    ASSUME NEW x \in Object
    PROVE  One(x = None) = 0 /\ One(None = x) = 0
BY LifetimesAssumption DEF One

LEMMA OneValues ==
    ASSUME NEW p
    PROVE  One(p) \in Nat
BY DEF One

(* The current state is kept by the context.                               *)
LEMMA CurrentIsReferred ==
    ASSUME StackInv, Sound(mem, Held, {})
    PROVE  Live(mem, current)
<1> SUFFICES ASSUME current # None PROVE mem.refs[current] > 0
  BY DEF Live
<1>1. current \in Object
  BY DEF StackInv, Object
<1>2. /\ Held[current] = Base(stack, current) + Outside(current, client, current)
      /\ Base(stack, current) \in Nat
  BY <1>1, HoldersValues DEF Held, StackInv
<1>3. Outside(current, client, current) \in Nat /\ Outside(current, client, current) > 0
  BY DEF Outside, One
<1>4. mem.refs[current] = Held[current] + Cardinality(SubStates(mem, current))
                            + One(Kind[current] = "kept" /\ current \in mem.linked)
  BY <1>1 DEF Sound, Balanced
<1> QED
  BY <1>2, <1>3, <1>4, SubStatesFinite, OneValues

-----------------------------------------------------------------------------
(* The steps that call the machine.                                        *)

LEMMA CallSetupStep ==
    ASSUME Inv, NestsSafely, CallSetup
    PROVE  Inv'
<1>1. PICK s \in State, e \in Event \cup {None} : MayCall /\ Setup(s, e, Passed(Passed(mem, s), e))
  BY DEF CallSetup
<1>2. StackInv /\ Sound(mem, Held, {}) /\ s \in Object /\ e \in Object \cup {None}
  BY <1>1 DEF Inv, Object
<1> DEFINE q == Passed(mem, s)
           r == Passed(q, e)
           a == AddRef(r, s)
           b == AddRef(a, e)
           g1 == [x \in Object |-> Held[x] + One(x = s)]
           g2 == [x \in Object |-> g1[x] + One(x = e)]
           f == [op |-> "setup", at |-> "entry", event |-> e, cur |-> None, next |-> s,
                 walk |-> None, hr |-> "S_OK"]
<1>3. Sound(q, Held, {s}) /\ s \in q.made
  <2>1. s # None /\ {} \cup ({s} \ {None}) = {s}
    BY <1>2, LifetimesAssumption
  <2> QED
    BY <1>2, <2>1, PassedSound
<1> HIDE DEF q
<1>4. Sound(r, Held, {s} \cup ({e} \ {None})) /\ s \in r.made /\ (e # None => e \in r.made)
  BY <1>2, <1>3, PassedSound
<1> HIDE DEF r
<1>5. \A x \in Object : Held[x] \in Nat
  BY <1>2 DEF Sound
<1>6. g1 \in [Object -> Nat] /\ \A x \in Object : g1[x] = Held[x] + One(x = s)
  BY <1>5, OneValues
<1>7. g2 \in [Object -> Nat] /\ \A x \in Object : g2[x] = g1[x] + One(x = e)
  BY <1>6, OneValues
<1> HIDE DEF g1, g2
<1>8. Sound(a, g1, ({s} \cup ({e} \ {None})) \ {s})
  BY <1>2, <1>4, <1>6, AddRefSound
<1>9. a.made = r.made
  BY <1>2, <1>4, AddRefValues DEF Sound
<1> HIDE DEF a
<1>10. Sound(b, g2, (({s} \cup ({e} \ {None})) \ {s}) \ {e})
  BY <1>2, <1>4, <1>7, <1>8, <1>9, AddRefSound
<1>11. (({s} \cup ({e} \ {None})) \ {s}) \ {e} = {}
  OBVIOUS
<1>12. Sound(b, g2, {}) /\ b.made = a.made
  <2>1. Sound(b, g2, {})
    BY <1>10, <1>11
  <2>2. a \in Memory
    BY <1>8 DEF Sound
  <2> QED
    BY <1>2, <2>1, <2>2, AddRefValues
<1> HIDE DEF b
<1>13. CASE current # None
  <2>1. mem' = Release(Release(b, e), s) /\ UNCHANGED <<current, stack, client>>
    BY <1>1, <1>13 DEF Setup, b, a, r, q
  <2>2. Sound(Release(b, e), g1, {})
    BY <1>2, <1>6, <1>7, <1>12, ReleaseSound
  <2>3. Sound(mem', Held, {})
    BY <1>2, <1>6, <2>1, <2>2, ReleaseSound DEF Sound
  <2>4. Held' = Held
    BY <2>1 DEF Held
  <2>5. current' \in State \cup {None} /\ client' \subseteq Object /\ stack' = stack
    BY <1>2, <2>1 DEF StackInv
  <2> QED
    BY <1>1, <1>2, <2>3, <2>4, <2>5, InvSame
<1>14. CASE current = None
  <2> DEFINE c == CallEntry(f, s)
  <2>1. /\ mem' = AddRef(b, s) /\ current' = s /\ Call(c) /\ client' = client
    BY <1>1, <1>14 DEF Setup, b, a, r, q
  <2>2. c \in Frame /\ c.op = "setup" /\ c.at \in Quiet /\ c.event = e /\ c.next = s
    BY <1>1 DEF CallEntry, Frame, Callback, Quiet
  <2> HIDE DEF c
  <2>3. OnTop(stack, c, stack')
    BY <1>1, <1>2, <2>1, <2>2, CallStep
  <2>4. /\ Held' \in [Object -> Nat]
        /\ \A x \in Object : Held'[x] = Base(stack, x) + Own(c, x) + Outside(current', client', x)
    BY <2>3, HeldOnTop
  <2>5. ASSUME NEW x \in Object
        PROVE  Held'[x] = g2[x] + One(x = s)
    <3>1. Own(c, x) = One(x = e) + One(x = s)
      BY <2>2, OwnOfCalls
    <3>2. Outside(current', client', x) = One(x = s) + One(x \in client)
      BY <2>1 DEF Outside, One
    <3>3. Held[x] = Base(stack, x) + Outside(current, client, x) /\ Base(stack, x) \in Nat
      BY <1>2, HoldersValues DEF Held, StackInv
    <3>4. Outside(current, client, x) = One(x \in client)
      BY <1>14, NoneIsHeld, OneValues DEF Outside
    <3>5. One(x = e) \in Nat /\ One(x = s) \in Nat /\ One(x \in client) \in Nat
      BY OneValues
    <3>6. g2[x] = Held[x] + One(x = s) + One(x = e)
      BY <1>6, <1>7
    <3>7. Held'[x] = Base(stack, x) + Own(c, x) + Outside(current', client', x)
      BY <2>4
    <3> QED
      BY <3>1, <3>2, <3>3, <3>4, <3>5, <3>6, <3>7
  <2>6. Sound(mem', Held', {} \ {s})
    BY <1>2, <1>4, <1>9, <1>12, <2>1, <2>4, <2>5, AddRefSound
  <2>7. {} \ {s} = {}
    OBVIOUS
  <2>8. current' \in State \cup {None} /\ client' \subseteq Object
    BY <1>2, <2>1 DEF StackInv
  <2>9. TopInv(mem', c)
    BY <2>2, QuietTop
  <2> QED
    BY <2>3, <2>6, <2>7, <2>8, <2>9, InvOnTop
<1> QED
  BY <1>13, <1>14

LEMMA CallShutdownStep ==
    ASSUME Inv, NestsSafely, CallShutdown
    PROVE  Inv'
<1> DEFINE f == [op |-> "shutdown", at |-> "leaving", event |-> None, cur |-> None,
                 next |-> None, walk |-> current, hr |-> "S_OK"]
<1>1. /\ MayCall /\ Call(f)
      /\ mem' = mem /\ current' = current /\ client' = client
  BY DEF CallShutdown, Shutdown
<1>2. StackInv /\ Sound(mem, Held, {})
  BY DEF Inv
<1>3. f \in Frame /\ f.op = "shutdown"
  BY <1>2 DEF StackInv, Frame
<1>4. TopInv(mem', f)
  <2>1. Live(mem, current)
    BY <1>2, CurrentIsReferred
  <2> QED
    BY <1>1, <2>1 DEF TopInv, Live
<1> HIDE DEF f
<1>5. OnTop(stack, f, stack')
  BY <1>1, <1>2, <1>3, CallStep
<1>6. Held' = Held
  <2>1. /\ Held' \in [Object -> Nat]
        /\ \A x \in Object : Held'[x] = Base(stack, x) + Own(f, x) + Outside(current', client', x)
    BY <1>5, HeldOnTop
  <2>2. /\ Held \in [Object -> Nat]
        /\ \A x \in Object : /\ Held[x] = Base(stack, x) + Outside(current, client, x)
                             /\ Base(stack, x) \in Nat /\ Outside(current, client, x) \in Nat
    BY <1>2, HoldersValues DEF Held, StackInv
  <2>3. \A x \in Object : Own(f, x) = 0
    BY <1>3, OwnOfCalls
  <2>4. \A x \in Object : Held'[x] = Held[x]
    BY <1>1, <2>1, <2>2, <2>3
  <2> QED
    BY <2>1, <2>2, <2>4
<1>7. current' \in State \cup {None} /\ client' \subseteq Object
  BY <1>1, <1>2 DEF StackInv
<1> QED
  BY <1>1, <1>2, <1>4, <1>5, <1>6, <1>7, InvOnTop

LEMMA CallHandleEventStep ==
    ASSUME Inv, NestsSafely, CallHandleEvent
    PROVE  Inv'
<1>1. PICK e \in Event : MayCall /\ HandleEvent(e, Passed(mem, e))
  BY DEF CallHandleEvent
<1>2. StackInv /\ Sound(mem, Held, {}) /\ e \in Object /\ e # None
  BY <1>1, LifetimesAssumption DEF Inv, Object
<1> DEFINE q == Passed(mem, e)
           b == AddRef(q, e)
           g == [x \in Object |-> Held[x] + One(x = e)]
           f == [op |-> "handleEvent", at |-> "preHandle", event |-> e, cur |-> current,
                 next |-> None, walk |-> None, hr |-> "S_OK"]
<1>3. /\ Sound(q, Held, {e}) /\ e \in q.made
      /\ \A x \in Object : q.refs[x] >= mem.refs[x]
  <2>1. {} \cup ({e} \ {None}) = {e}
    BY <1>2
  <2> QED
    BY <1>2, <2>1, PassedSound
<1> HIDE DEF q
<1>4. \A x \in Object : Held[x] \in Nat
  BY <1>2 DEF Sound
<1>5. g \in [Object -> Nat] /\ \A x \in Object : g[x] = Held[x] + One(x = e)
  BY <1>4, OneValues
<1> HIDE DEF g
<1>6. Sound(b, g, {})
  <2>1. Sound(b, g, {e} \ {e})
    BY <1>2, <1>3, <1>5, AddRefSound
  <2>2. {e} \ {e} = {}
    OBVIOUS
  <2> QED
    BY <2>1, <2>2
<1>7. \A x \in Object : b.refs[x] = q.refs[x] + One(x = e)
  BY <1>2, <1>3, AddRefValues DEF Sound
<1> HIDE DEF b
<1>8. CASE current = None
  <2>1. mem' = Release(b, e) /\ UNCHANGED <<current, stack, client>>
    BY <1>1, <1>8 DEF HandleEvent, b, q
  <2>2. Sound(mem', Held, {})
    BY <1>2, <1>5, <1>6, <2>1, ReleaseSound DEF Sound
  <2>3. Held' = Held
    BY <2>1 DEF Held
  <2>4. current' \in State \cup {None} /\ client' \subseteq Object /\ stack' = stack
    BY <1>2, <2>1 DEF StackInv
  <2> QED
    BY <1>1, <1>2, <2>2, <2>3, <2>4, InvSame
<1>9. CASE current # None
  <2>1. mem' = b /\ current' = current /\ Call(f) /\ client' = client
    BY <1>1, <1>9 DEF HandleEvent, b, q
  <2>2. /\ f \in Frame /\ f.op = "handleEvent" /\ f.at = "preHandle" /\ f.event = e
        /\ f.next = None /\ f.cur = current /\ f.walk = None
    BY <1>1, <1>2 DEF Frame, Callback, StackInv
  <2> HIDE DEF f
  <2>3. OnTop(stack, f, stack')
    BY <1>1, <1>2, <2>1, <2>2, CallStep
  <2>4. /\ Held' \in [Object -> Nat]
        /\ \A x \in Object : Held'[x] = Base(stack, x) + Own(f, x) + Outside(current', client', x)
    BY <2>3, HeldOnTop
  <2>5. ASSUME NEW x \in Object
        PROVE  Held'[x] = g[x]
    <3>1. Own(f, x) = One(x = e)
      BY <2>2, OwnOfCalls
    <3>2. /\ Held[x] = Base(stack, x) + Outside(current, client, x)
          /\ Base(stack, x) \in Nat /\ Outside(current, client, x) \in Nat
      BY <1>2, HoldersValues DEF Held, StackInv
    <3>3. One(x = e) \in Nat
      BY OneValues
    <3>4. Held'[x] = Base(stack, x) + Own(f, x) + Outside(current, client, x)
      BY <2>1, <2>4
    <3> QED
      BY <1>5, <3>1, <3>2, <3>3, <3>4
  <2>6. Held' = g
    BY <1>5, <2>4, <2>5
  <2>7. TopInv(mem', f)
    <3>1. Live(mem, current) /\ current \in Object
      BY <1>2, <1>9, CurrentIsReferred DEF StackInv, Object
    <3>2. mem.refs[current] \in Nat /\ q.refs[current] \in Nat /\ One(current = e) \in Nat
      BY <1>2, <1>3, <3>1, OneValues DEF Sound, Memory
    <3>3. mem'.refs[current] > 0
      BY <1>3, <1>7, <1>9, <2>1, <3>1, <3>2 DEF Live
    <3> QED
      BY <1>9, <2>2, <3>3 DEF TopInv, Live
  <2>8. current' \in State \cup {None} /\ client' \subseteq Object
    BY <1>2, <2>1 DEF StackInv
  <2> QED
    BY <1>6, <2>1, <2>3, <2>6, <2>7, <2>8, InvOnTop
<1> QED
  BY <1>8, <1>9

-----------------------------------------------------------------------------
(* The steps of the machine.                                               *)

LEMMA TopOf ==
    ASSUME Inv, stack # <<>>
    PROVE  /\ StackInv /\ Sound(mem, Held, {}) /\ TopInv(mem, Top) /\ Top \in Frame
           /\ Top.event \in Event \cup {None} /\ Top.cur \in State \cup {None}
           /\ Top.next \in State \cup {None} /\ Top.walk \in State \cup {None}
           /\ current \in State \cup {None} /\ client \subseteq Object
<1>1. Top \in Frame
  BY PoppedStack DEF Inv, StackInv, Top
<1> QED
  BY <1>1 DEF Inv, StackInv, Frame

(* What the calls hold after a step of the last one, and before.           *)
LEMMA StayHeld ==
    ASSUME Inv, stack # <<>>, NEW f \in Frame, Stay(f)
    PROVE  /\ OnTop(Tail(stack), f, stack')
           /\ Held' \in [Object -> Nat]
           /\ \A x \in Object :
                 /\ Held'[x] + Own(Top, x) + Outside(current, client, x)
                       = Held[x] + Own(f, x) + Outside(current', client', x)
                 /\ Own(Top, x) \in Nat /\ Own(f, x) \in Nat
                 /\ Outside(current, client, x) \in Nat /\ Outside(current', client', x) \in Nat
<1>1. OnTop(Tail(stack), f, stack')
  BY StayStep DEF Inv
<1>2. /\ Held' \in [Object -> Nat]
      /\ \A x \in Object :
            Held'[x] = Base(Tail(stack), x) + Own(f, x) + Outside(current', client', x)
  BY <1>1, HeldOnTop
<1>3. \A x \in Object : /\ Held[x] = Base(Tail(stack), x) + Own(Top, x) + Outside(current, client, x)
                        /\ Base(Tail(stack), x) \in Nat /\ Own(Top, x) \in Nat
                        /\ Outside(current, client, x) \in Nat
  BY HeldPopped DEF Inv
<1>4. \A x \in Object : Own(f, x) \in Nat /\ Outside(current', client', x) \in Nat
  BY OwnValues DEF Outside, One
<1> QED
  BY <1>1, <1>2, <1>3, <1>4

LEMMA ReturnHeld ==
    ASSUME Inv, stack # <<>>, stack' = Tail(stack)
    PROVE  /\ Held' \in [Object -> Nat]
           /\ \A x \in Object :
                 /\ Held[x] + Outside(current', client', x)
                       = Held'[x] + Own(Top, x) + Outside(current, client, x)
                 /\ Outside(current, client, x) \in Nat /\ Outside(current', client', x) \in Nat
<1>1. Held' = Holders(Tail(stack), current', client') /\ Tail(stack) \in Seq(Frame)
  BY PoppedStack DEF Held, Inv, StackInv
<1>2. /\ Held' \in [Object -> Nat]
      /\ \A x \in Object : /\ Held'[x] = Base(Tail(stack), x) + Outside(current', client', x)
                           /\ Outside(current', client', x) \in Nat
  BY <1>1, HoldersValues
<1>3. \A x \in Object : /\ Held[x] = Base(Tail(stack), x) + Own(Top, x) + Outside(current, client, x)
                        /\ Base(Tail(stack), x) \in Nat /\ Own(Top, x) \in Nat
                        /\ Outside(current, client, x) \in Nat
  BY HeldPopped DEF Inv
<1> QED
  BY <1>2, <1>3

(* A step that moves no reference.                                         *)
LEMMA StaySame ==
    ASSUME Inv, stack # <<>>, NEW f \in Frame, Stay(f),
           \A x \in Object : Own(f, x) = Own(Top, x),
           mem' = mem, current' = current, client' = client,
           TopInv(mem, f)
    PROVE  Inv'
<1>1. /\ OnTop(Tail(stack), f, stack')
      /\ Held' \in [Object -> Nat]
      /\ \A x \in Object :
            /\ Held'[x] + Own(Top, x) + Outside(current, client, x)
                  = Held[x] + Own(f, x) + Outside(current', client', x)
            /\ Own(Top, x) \in Nat /\ Own(f, x) \in Nat
            /\ Outside(current, client, x) \in Nat /\ Outside(current', client', x) \in Nat
  BY StayHeld
<1>2. Sound(mem, Held, {}) /\ current \in State \cup {None} /\ client \subseteq Object
  BY TopOf
<1>3. Held \in [Object -> Nat]
  BY <1>2 DEF Sound
<1>4. \A x \in Object : Held'[x] = Held[x]
  BY <1>1, <1>3
<1>5. Held' = Held
  BY <1>1, <1>3, <1>4
<1> QED
  BY <1>1, <1>2, <1>5, InvOnTop

(* Two pointers are released.                                              *)
LEMMA ReleasesSound ==
    ASSUME NEW m, NEW h, Sound(m, h, {}),
           NEW a \in Object \cup {None}, NEW b \in Object \cup {None},
           NEW g \in [Object -> Nat], \A x \in Object : h[x] = g[x] + One(x = a) + One(x = b)
    PROVE  Sound(Release(Release(m, a), b), g, {})
<1> DEFINE k == [x \in Object |-> g[x] + One(x = b)]
<1>1. k \in [Object -> Nat] /\ \A x \in Object : k[x] = g[x] + One(x = b)
  BY OneValues
<1> HIDE DEF k
<1>2. \A x \in Object : h[x] = k[x] + One(x = a)
  BY <1>1, OneValues
<1>3. Sound(Release(m, a), k, {})
  BY <1>1, <1>2, ReleaseSound
<1> QED
  BY <1>1, <1>3, ReleaseSound

LEMMA SameOnBothSides ==
    ASSUME NEW a \in Nat, NEW b \in Nat, NEW c \in Nat, NEW d \in Nat, a + d = b + c + d
    PROVE  a = b + c
OBVIOUS

(* A call that returns, and what it held.                                  *)
LEMMA ReturnReleases ==
    ASSUME Inv, NestsSafely, stack # <<>>, stack' = Tail(stack),
           current' = current, client' = client,
           NEW a \in Object \cup {None}, NEW b \in Object \cup {None},
           \A x \in Object : Own(Top, x) = One(x = a) + One(x = b),
           mem' = Release(Release(mem, a), b)
    PROVE  Inv'
<1>1. StackInv /\ Sound(mem, Held, {}) /\ current \in State \cup {None} /\ client \subseteq Object
  BY TopOf
<1>2. /\ Held' \in [Object -> Nat]
      /\ \A x \in Object :
            /\ Held[x] + Outside(current', client', x)
                  = Held'[x] + Own(Top, x) + Outside(current, client, x)
            /\ Outside(current, client, x) \in Nat /\ Outside(current', client', x) \in Nat
  BY ReturnHeld
<1>3. ASSUME NEW x \in Object
      PROVE  Held[x] = Held'[x] + One(x = a) + One(x = b)
  <2>1. Held[x] \in Nat /\ Held'[x] \in Nat
    BY <1>1, <1>2 DEF Sound
  <2>2. One(x = a) \in Nat /\ One(x = b) \in Nat
    BY OneValues
  <2>3. Own(Top, x) = One(x = a) + One(x = b)
    OBVIOUS
  <2>4. Held[x] + Outside(current, client, x) = Held'[x] + Own(Top, x) + Outside(current, client, x)
    BY <1>2
  <2>5. Outside(current, client, x) \in Nat
    BY <1>2
  <2>6. Own(Top, x) \in Nat
    BY OwnValues
  <2>7. Held[x] = Held'[x] + Own(Top, x)
    BY <2>1, <2>4, <2>5, <2>6, SameOnBothSides
  <2> QED
    BY <2>1, <2>2, <2>3, <2>7
<1>4. Sound(mem', Held', {})
  BY <1>1, <1>2, <1>3, ReleasesSound
<1> QED
  BY <1>1, <1>4, InvPopped

LEMMA PreHandleReturnStep ==
    ASSUME Inv, NestsSafely, NEW hr, PreHandleReturn(hr)
    PROVE  Inv'
<1>1. /\ stack # <<>> /\ Top.op = "handleEvent" /\ Top.at = "preHandle"
      /\ current' = current /\ client' = client
  BY DEF PreHandleReturn, In
<1>2. /\ TopInv(mem, Top) /\ Top \in Frame /\ Top.event \in Event \cup {None}
  BY <1>1, TopOf
<1>3. CASE hr = "S_OK"
  <2> DEFINE f == [Top EXCEPT !.at = "handle", !.walk = Top.cur]
  <2>1. Stay(f) /\ mem' = mem
    BY <1>3 DEF PreHandleReturn
  <2>2. /\ f \in Frame /\ f.op = Top.op /\ f.event = Top.event /\ f.at = "handle"
        /\ f.next = Top.next /\ f.cur = Top.cur /\ f.walk = Top.cur
    BY <1>2 DEF Frame, Callback
  <2> HIDE DEF f
  <2>3. \A x \in Object : Own(f, x) = Own(Top, x)
    BY <1>1, <1>2, <2>2, OwnOfCalls
  <2>4. TopInv(mem, f)
    BY <1>1, <1>2, <2>2 DEF TopInv
  <2> QED
    BY <1>1, <2>1, <2>2, <2>3, <2>4, StaySame
<1>4. CASE hr # "S_OK"
  <2>1. stack' = Tail(stack) /\ mem' = Release(mem, Top.event)
    BY <1>4 DEF PreHandleReturn, Return
  <2>2. mem' = Release(Release(mem, Top.event), None)
    BY <2>1 DEF Release
  <2>3. \A x \in Object : Own(Top, x) = One(x = Top.event) + One(x = None)
    BY <1>1, <1>2, OwnOfCalls, NoneIsHeld, OneValues
  <2>4. Top.event \in Object \cup {None}
    BY <1>2 DEF Object
  <2> QED
    BY <1>1, <2>1, <2>2, <2>3, <2>4, ReturnReleases
<1> QED
  BY <1>3, <1>4

LEMMA CallExitStep ==
    ASSUME Inv, NestsSafely, CallExit
    PROVE  Inv'
<1>1. /\ stack # <<>> /\ Top.op \in AnyOp /\ Top.at = "leaving"
      /\ mem' = mem /\ current' = current /\ client' = client
  BY DEF CallExit, In
<1>2. /\ TopInv(mem, Top) /\ Top \in Frame /\ Sound(mem, Held, {})
      /\ Top.walk \in State \cup {None}
  BY <1>1, TopOf
<1>3. Top.walk \in State /\ Top.walk # None
  BY <1>2 DEF CallExit, LeftAll
<1>4. mem.master[Top.walk] \in State \cup {None} /\ Live(mem, mem.master[Top.walk])
  BY <1>2, <1>3, MasterIsReferred DEF Live
<1>5. CASE Top.op = "handleEvent" \/ Top.walk \in ExitOnShutdown
  <2> DEFINE f == [Top EXCEPT !.at = "exit"]
  <2>1. Stay(f)
    BY <1>5 DEF CallExit
  <2>2. /\ f \in Frame /\ f.op = Top.op /\ f.event = Top.event /\ f.at = "exit"
        /\ f.next = Top.next /\ f.cur = Top.cur /\ f.walk = Top.walk
    BY <1>2 DEF Frame, Callback
  <2> HIDE DEF f
  <2>3. \A x \in Object : Own(f, x) = Own(Top, x)
    BY <1>1, <1>2, <2>2, OwnOfCalls DEF AnyOp
  <2>4. TopInv(mem, f)
    BY <1>1, <1>2, <1>3, <2>2 DEF TopInv
  <2> QED
    BY <1>1, <2>1, <2>2, <2>3, <2>4, StaySame
<1>6. CASE ~(Top.op = "handleEvent" \/ Top.walk \in ExitOnShutdown)
  <2> DEFINE f == [Top EXCEPT !.walk = mem.master[Top.walk]]
  <2>1. Stay(f)
    BY <1>6 DEF CallExit
  <2>2. /\ f \in Frame /\ f.op = Top.op /\ f.event = Top.event /\ f.at = "leaving"
        /\ f.next = Top.next /\ f.cur = Top.cur /\ f.walk = mem.master[Top.walk]
    BY <1>1, <1>2, <1>4 DEF Frame
  <2> HIDE DEF f
  <2>3. \A x \in Object : Own(f, x) = Own(Top, x)
    BY <1>1, <1>2, <2>2, OwnOfCalls DEF AnyOp
  <2>4. TopInv(mem, f)
    BY <1>1, <1>2, <1>4, <2>2 DEF TopInv
  <2> QED
    BY <1>1, <2>1, <2>2, <2>3, <2>4, StaySame
<1> QED
  BY <1>5, <1>6

LEMMA ExitReturnStep ==
    ASSUME Inv, NestsSafely, NEW hr \in {"S_OK", "S_FALSE", "E_ABORT"}, ExitReturn(hr)
    PROVE  Inv'
<1>1. /\ stack # <<>> /\ Top.op \in AnyOp /\ Top.at = "exit"
      /\ mem' = mem /\ current' = current /\ client' = client
  BY DEF ExitReturn, In
<1>2. /\ TopInv(mem, Top) /\ Top \in Frame /\ Sound(mem, Held, {})
      /\ Top.walk \in State \cup {None}
  BY <1>1, TopOf
<1>3. Top.walk \in State /\ Top.walk # None
  BY <1>1, <1>2 DEF TopInv
<1>4. mem.master[Top.walk] \in State \cup {None} /\ Live(mem, mem.master[Top.walk])
  BY <1>2, <1>3, MasterIsReferred DEF Live
<1>5. CASE Failed(hr) /\ Top.op = "handleEvent"
  <2> DEFINE f == [Top EXCEPT !.at = "postHandle", !.hr = hr]
  <2>1. Stay(f)
    BY <1>5 DEF ExitReturn
  <2>2. /\ f \in Frame /\ f.op = Top.op /\ f.event = Top.event /\ f.at = "postHandle"
        /\ f.next = Top.next /\ f.cur = Top.cur /\ f.walk = Top.walk
    BY <1>2, <1>5 DEF Frame, Callback, Failed
  <2> HIDE DEF f
  <2>3. \A x \in Object : Own(f, x) = Own(Top, x)
    BY <1>1, <1>2, <1>5, <2>2, OwnOfCalls
  <2>4. TopInv(mem, f)
    BY <2>2, QuietTop DEF Quiet
  <2> QED
    BY <1>1, <2>1, <2>2, <2>3, <2>4, StaySame
<1>6. CASE ~(Failed(hr) /\ Top.op = "handleEvent")
  <2> DEFINE w == IF hr = "S_OK" THEN mem.master[Top.walk] ELSE None
             f == [Top EXCEPT !.at = "leaving", !.walk = w]
  <2>1. Stay(f)
    BY <1>6 DEF ExitReturn
  <2>2. w \in State \cup {None} /\ Live(mem, w)
    BY <1>4 DEF Live
  <2> HIDE DEF w
  <2>3. /\ f \in Frame /\ f.op = Top.op /\ f.event = Top.event /\ f.at = "leaving"
        /\ f.next = Top.next /\ f.cur = Top.cur /\ f.walk = w
    BY <1>2, <2>2 DEF Frame, Callback
  <2> HIDE DEF f
  <2>4. \A x \in Object : Own(f, x) = Own(Top, x)
    BY <1>1, <1>2, <2>3, OwnOfCalls DEF AnyOp
  <2>5. TopInv(mem, f)
    BY <1>1, <1>2, <2>2, <2>3 DEF TopInv
  <2> QED
    BY <1>1, <2>1, <2>3, <2>4, <2>5, StaySame
<1> QED
  BY <1>5, <1>6

LEMMA HandleReturnStep ==
    ASSUME Inv, NestsSafely, NEW hr \in {"S_OK", "S_FALSE", "E_ABORT"}, NEW n \in State \cup {None},
           NEW m, Sound(m, Held, {n} \ {None}), n # None => n \in m.made,
           \A x \in Object : m.refs[x] >= mem.refs[x],
           hr = "S_FALSE" => n = None /\ m = mem,
           HandleReturn(hr, n, m)
    PROVE  Inv'
<1>1. /\ stack # <<>> /\ Top.op = "handleEvent" /\ Top.at = "handle"
      /\ current' = current /\ client' = client
  BY DEF HandleReturn, In
<1>2. /\ TopInv(mem, Top) /\ Top \in Frame /\ Sound(mem, Held, {})
      /\ Top.cur \in State \cup {None} /\ Top.next = None /\ Top.cur # None
      /\ Top.walk \in State
      /\ Live(mem, Top.cur) /\ Live(mem, Top.walk)
      /\ current \in State \cup {None} /\ client \subseteq Object
  BY <1>1, TopOf DEF TopInv
<1> DEFINE up == mem.master[Top.walk]
           f == [Top EXCEPT !.next = IF n = None THEN @ ELSE n,
                            !.hr = IF Failed(hr) THEN hr ELSE "S_OK"]
<1>3. /\ f \in Frame /\ f.op = "handleEvent" /\ f.at = "handle" /\ f.event = Top.event
      /\ f.next = n /\ f.cur = Top.cur /\ f.walk = Top.walk
  BY <1>1, <1>2 DEF Frame, Failed
<1>4. CASE hr = "S_FALSE" /\ up # None
  <2> DEFINE d == [f EXCEPT !.walk = up]
  <2>1. Stay(d) /\ mem' = mem
    BY <1>4 DEF HandleReturn
  <2>2. up \in State /\ Live(mem, up)
    BY <1>2, <1>4, MasterIsReferred DEF Live
  <2> HIDE DEF f
  <2>3. /\ d \in Frame /\ d.op = "handleEvent" /\ d.at = "handle" /\ d.event = Top.event
        /\ d.next = None /\ d.cur = Top.cur /\ d.walk = up
    BY <1>3, <1>4, <2>2 DEF Frame
  <2> HIDE DEF d
  <2>4. \A x \in Object : Own(d, x) = Own(Top, x)
    BY <1>1, <1>2, <2>3, OwnOfCalls
  <2>5. TopInv(mem, d)
    BY <1>2, <1>4, <2>2, <2>3 DEF TopInv
  <2> QED
    BY <1>1, <2>1, <2>3, <2>4, <2>5, StaySame
<1>5. CASE ~(hr = "S_FALSE" /\ up # None)
  <2> DEFINE d == IF ~Failed(hr) /\ f.next # None
                  THEN [f EXCEPT !.at = "leaving", !.walk = Top.cur]
                  ELSE [f EXCEPT !.at = "postHandle"]
  <2>1. Stay(d) /\ mem' = AddRef(m, f.next)
    BY <1>5 DEF HandleReturn
  <2> HIDE DEF f
  <2>2. mem' = AddRef(m, n)
    BY <1>3, <2>1
  <2>3. /\ d \in Frame /\ d.op = "handleEvent" /\ d.event = Top.event /\ d.next = n
        /\ d.cur = Top.cur
        /\ d.at = "postHandle" \/ (d.at = "leaving" /\ d.walk = Top.cur)
    <3>1. CASE ~Failed(hr) /\ f.next # None
      <4>1. d = [f EXCEPT !.at = "leaving", !.walk = Top.cur]
        BY <3>1
      <4> QED
        BY <1>2, <1>3, <4>1 DEF Frame
    <3>2. CASE ~(~Failed(hr) /\ f.next # None)
      <4>1. d = [f EXCEPT !.at = "postHandle"]
        BY <3>2
      <4> QED
        BY <1>3, <4>1 DEF Frame, Callback
    <3> QED
      BY <3>1, <3>2
  <2> HIDE DEF d
  <2>4. /\ OnTop(Tail(stack), d, stack')
        /\ Held' \in [Object -> Nat]
        /\ \A x \in Object :
              /\ Held'[x] + Own(Top, x) + Outside(current, client, x)
                    = Held[x] + Own(d, x) + Outside(current', client', x)
              /\ Outside(current, client, x) \in Nat
    BY <1>1, <2>1, <2>3, StayHeld
  <2>5. ASSUME NEW x \in Object
        PROVE  Held'[x] = Held[x] + One(x = n)
    <3>1. Own(Top, x) = One(x = Top.event) /\ Own(d, x) = One(x = Top.event) + One(x = n)
      BY <1>1, <1>2, <2>3, OwnOfCalls
    <3>2. One(x = Top.event) \in Nat /\ One(x = n) \in Nat
      BY OneValues
    <3>3. Held[x] \in Nat /\ Held'[x] \in Nat /\ Outside(current, client, x) \in Nat
      BY <1>2, <2>4 DEF Sound
    <3>4. Held'[x] + Own(Top, x) + Outside(current, client, x)
             = Held[x] + Own(d, x) + Outside(current, client, x)
      BY <1>1, <2>4
    <3> QED
      BY <3>1, <3>2, <3>3, <3>4
  <2>6. Sound(mem', Held', {})
    <3>1. n \in Object \cup {None}
      BY DEF Object
    <3>2. Sound(mem', Held', ({n} \ {None}) \ {n})
      BY <2>2, <2>4, <2>5, <3>1, AddRefSound
    <3>3. ({n} \ {None}) \ {n} = {}
      OBVIOUS
    <3> QED
      BY <3>2, <3>3
  <2>7. TopInv(mem', d)
    <3>1. CASE d.at = "postHandle"
      BY <3>1, QuietTop DEF Quiet
    <3>2. CASE d.at = "leaving" /\ d.walk = Top.cur
      <4>1. Top.cur \in Object
        BY <1>2 DEF Object
      <4>2. mem'.refs[Top.cur] = m.refs[Top.cur] + One(Top.cur = n) /\ m.refs[Top.cur] \in Nat
        <5>1. m \in Memory /\ n \in Object \cup {None}
          BY DEF Sound, Object
        <5> QED
          BY <2>2, <4>1, <5>1, AddRefValues DEF Memory
      <4>3. m.refs[Top.cur] >= mem.refs[Top.cur] /\ mem.refs[Top.cur] \in Nat
        BY <1>2, <4>1 DEF Sound, Memory
      <4>4. One(Top.cur = n) \in Nat
        BY OneValues
      <4>5. mem.refs[Top.cur] > 0
        BY <1>2 DEF Live
      <4>6. mem'.refs[Top.cur] > 0
        BY <4>2, <4>3, <4>4, <4>5
      <4> QED
        BY <2>3, <3>2, <4>6 DEF TopInv, Live
    <3> QED
      BY <2>3, <3>1, <3>2
  <2> QED
    BY <1>1, <1>2, <2>4, <2>6, <2>7, InvOnTop
<1> QED
  BY <1>4, <1>5

LEMMA HandleStep ==
    ASSUME Inv, NestsSafely, Handle
    PROVE  Inv'
<1>1. Sound(mem, Held, {}) /\ \A x \in Object : mem.refs[x] >= mem.refs[x]
  BY DEF Inv, Sound, Memory
<1>2. CASE \E hr \in {"S_OK", "S_FALSE", "E_ABORT"} : HandleReturn(hr, None, mem)
  <2>1. PICK hr \in {"S_OK", "S_FALSE", "E_ABORT"} : HandleReturn(hr, None, mem)
    BY <1>2
  <2>2. {None} \ {None} = {}
    OBVIOUS
  <2> QED
    BY <1>1, <2>1, <2>2, HandleReturnStep
<1>3. CASE \E n \in State : Usable(n) /\ HandleReturn("S_OK", n, mem)
  <2>1. PICK n \in State : Usable(n) /\ HandleReturn("S_OK", n, mem)
    BY <1>3
  <2>2. n \in mem.made
    BY <2>1 DEF Usable
  <2>3. Sound(mem, Held, {} \cup ({n} \ {None}))
    BY <1>1, <2>2, SoundOfMore
  <2>4. {} \cup ({n} \ {None}) = {n} \ {None}
    OBVIOUS
  <2> QED
    BY <1>1, <2>1, <2>2, <2>3, <2>4, HandleReturnStep
<1>4. CASE /\ In({"handleEvent"}, "handle")
           /\ \E n \in State, p \in {Top.walk, mem.master[Top.walk]} :
                 Fresh(n) /\ HandleReturn("S_OK", n, ConstructState(mem, n, p))
  <2>1. PICK n \in State, p \in {Top.walk, mem.master[Top.walk]} :
                 Fresh(n) /\ HandleReturn("S_OK", n, ConstructState(mem, n, p))
    BY <1>4
  <2>2. stack # <<>> /\ Top.at = "handle"
    BY <1>4 DEF In
  <2>3. Top.walk \in State /\ mem.refs[Top.walk] > 0
    BY <2>2, TopOf DEF TopInv, Live
  <2>4. /\ mem.master[Top.walk] \in State \cup {None}
        /\ mem.master[Top.walk] # None => mem.refs[mem.master[Top.walk]] > 0
    BY <1>1, <2>3, MasterIsReferred
  <2>5. p \in State \cup {None} /\ (p # None => p \in mem.made)
    <3>1. p \in State \cup {None} /\ (p # None => mem.refs[p] > 0)
      BY <2>1, <2>3, <2>4
    <3>2. \A x \in Object : mem.refs[x] > 0 => x \in mem.made
      BY <1>1 DEF Sound, Referred
    <3> QED
      BY <3>1, <3>2 DEF Object
  <2> DEFINE m == ConstructState(mem, n, p)
  <2>6. Constructed(mem, Held, {}, n, m)
    BY <1>1, <2>1, <2>5, ConstructStateSound DEF Fresh
  <2>7. HandleReturn("S_OK", n, m)
    BY <2>1
  <2> HIDE DEF m
  <2>8. Sound(m, Held, {n} \ {None}) /\ n \in m.made /\ \A x \in Object : m.refs[x] >= mem.refs[x]
    <3>1. {} \cup {n} = {n} \ {None}
      BY LifetimesAssumption DEF Object
    <3> QED
      BY <2>6, <3>1 DEF Constructed
  <2> QED
    BY <2>7, <2>8, HandleReturnStep
<1> QED
  BY <1>2, <1>3, <1>4 DEF Handle

LEMMA TransitionStep ==
    ASSUME Inv, NestsSafely, Transition
    PROVE  Inv'
<1>1. /\ stack # <<>> /\ Top.op = "handleEvent" /\ Top.at = "leaving"
      /\ mem' = Release(AddRef(AddRef(mem, Top.cur), Top.next), current)
      /\ current' = Top.next /\ Stay(CallEntry(Top, Top.next)) /\ client' = client
  BY DEF Transition, In
<1>2. /\ TopInv(mem, Top) /\ Top \in Frame /\ Sound(mem, Held, {})
      /\ Top.cur \in State \cup {None} /\ Top.next \in State \cup {None}
      /\ current \in State \cup {None} /\ client \subseteq Object
  BY <1>1, TopOf
<1> DEFINE f == CallEntry(Top, Top.next)
           a == AddRef(mem, Top.cur)
           b == AddRef(a, Top.next)
           g1 == [x \in Object |-> Held[x] + One(x = Top.cur)]
           g2 == [x \in Object |-> g1[x] + One(x = Top.next)]
<1>3. /\ f \in Frame /\ f.op = "handleEvent" /\ f.at \in {"entry", "onStateChanged"}
      /\ f.event = Top.event /\ f.next = Top.next /\ f.cur = Top.cur
  BY <1>1, <1>2 DEF CallEntry, Frame, Callback
<1> HIDE DEF f
<1>4. /\ OnTop(Tail(stack), f, stack')
      /\ Held' \in [Object -> Nat]
      /\ \A x \in Object :
            /\ Held'[x] + Own(Top, x) + Outside(current, client, x)
                  = Held[x] + Own(f, x) + Outside(current', client', x)
            /\ Own(Top, x) \in Nat
  BY <1>1, <1>3, StayHeld DEF f
<1>5. \A x \in Object : Held[x] \in Nat /\ Held'[x] \in Nat
  BY <1>2, <1>4 DEF Sound
<1>6. g1 \in [Object -> Nat] /\ \A x \in Object : g1[x] = Held[x] + One(x = Top.cur)
  BY <1>5, OneValues
<1>7. g2 \in [Object -> Nat] /\ \A x \in Object : g2[x] = g1[x] + One(x = Top.next)
  BY <1>6, OneValues
<1> HIDE DEF g1, g2
<1>8. \A x \in Object : mem.refs[x] > 0 => x \in mem.made
  BY <1>2 DEF Sound, Referred
<1>9. Top.cur # None => Top.cur \in mem.made
  BY <1>1, <1>2, <1>8 DEF TopInv, Live, Object
<1>10. Top.next # None => Top.next \in mem.made
  <2> SUFFICES ASSUME Top.next # None PROVE mem.refs[Top.next] > 0
    BY <1>2, <1>8 DEF Object
  <2> DEFINE x == Top.next
  <2>1. x \in Object
    BY <1>2 DEF Object
  <2>2. Own(Top, x) = One(x = Top.event) + One(x = x)
    BY <1>1, <1>2, OwnOfCalls
  <2>3. /\ Held[x] = Base(Tail(stack), x) + Own(Top, x) + Outside(current, client, x)
        /\ Base(Tail(stack), x) \in Nat /\ Outside(current, client, x) \in Nat
    BY <1>1, <2>1, HeldPopped DEF Inv
  <2>4. mem.refs[x] = Held[x] + Cardinality(SubStates(mem, x)) + One(Kind[x] = "kept" /\ x \in mem.linked)
    BY <1>2, <2>1 DEF Sound, Balanced
  <2>5. One(x = x) = 1 /\ One(x = Top.event) \in Nat
    BY DEF One
  <2>6. Cardinality(SubStates(mem, x)) \in Nat /\ One(Kind[x] = "kept" /\ x \in mem.linked) \in Nat
    BY SubStatesFinite, OneValues
  <2> HIDE DEF x
  <2>7. mem.refs[x] > 0
    BY <2>2, <2>3, <2>4, <2>5, <2>6
  <2> QED
    BY <2>7 DEF x
<1>11. Top.cur \in Object \cup {None} /\ Top.next \in Object \cup {None} /\ current \in Object \cup {None}
  BY <1>2 DEF Object
<1>12. Sound(a, g1, {} \ {Top.cur}) /\ a.made = mem.made
  <2>1. Sound(a, g1, {} \ {Top.cur})
    BY <1>2, <1>6, <1>9, <1>11, AddRefSound
  <2>2. a.made = mem.made
    BY <1>2, <1>11, AddRefValues DEF Sound
  <2> QED
    BY <2>1, <2>2
<1> HIDE DEF a
<1>13. Sound(b, g2, ({} \ {Top.cur}) \ {Top.next})
  BY <1>7, <1>10, <1>11, <1>12, AddRefSound
<1>14. ({} \ {Top.cur}) \ {Top.next} = {}
  OBVIOUS
<1> HIDE DEF b
<1>15. ASSUME NEW x \in Object
       PROVE  g2[x] = Held'[x] + One(x = current)
  <2>1. /\ Own(Top, x) = One(x = Top.event) + One(x = Top.next)
        /\ Own(f, x) = One(x = Top.event) + One(x = Top.next) + One(x = Top.cur)
    BY <1>1, <1>2, <1>3, OwnOfCalls
  <2>2. /\ Outside(current, client, x) = One(x = current) + One(x \in client)
        /\ Outside(current', client', x) = One(x = Top.next) + One(x \in client)
    BY <1>1 DEF Outside, One
  <2>3. /\ One(x = Top.event) \in Nat /\ One(x = Top.next) \in Nat /\ One(x = Top.cur) \in Nat
        /\ One(x = current) \in Nat /\ One(x \in client) \in Nat
    BY OneValues
  <2>4. g2[x] = Held[x] + One(x = Top.cur) + One(x = Top.next)
    BY <1>6, <1>7
  <2>5. Held'[x] + Own(Top, x) + Outside(current, client, x)
           = Held[x] + Own(f, x) + Outside(current', client', x)
    BY <1>4
  <2>6. Held[x] \in Nat /\ Held'[x] \in Nat
    BY <1>5
  <2> QED
    BY <2>1, <2>2, <2>3, <2>4, <2>5, <2>6
<1>16. Sound(mem', Held', {})
  <2>1. mem' = Release(b, current)
    BY <1>1 DEF b, a
  <2> QED
    BY <1>4, <1>11, <1>13, <1>14, <1>15, <2>1, ReleaseSound
<1>17. TopInv(mem', f)
  BY <1>3, QuietTop DEF Quiet
<1>18. current' \in State \cup {None} /\ client' \subseteq Object
  BY <1>1, <1>2
<1> QED
  BY <1>4, <1>16, <1>17, <1>18, InvOnTop

LEMMA ClearCurrentStep ==
    ASSUME Inv, NestsSafely, ClearCurrent
    PROVE  Inv'
<1>1. /\ stack # <<>> /\ Top.op = "shutdown"
      /\ mem' = Release(mem, current) /\ current' = None /\ stack' = Tail(stack) /\ client' = client
  BY DEF ClearCurrent, In, Return
<1>2. /\ StackInv /\ Top \in Frame /\ Sound(mem, Held, {})
      /\ current \in State \cup {None} /\ client \subseteq Object
  BY <1>1, TopOf
<1>3. /\ Held' \in [Object -> Nat]
      /\ \A x \in Object :
            Held[x] + Outside(current', client', x) = Held'[x] + Own(Top, x) + Outside(current, client, x)
  BY <1>1, ReturnHeld
<1>4. ASSUME NEW x \in Object
      PROVE  Held[x] = Held'[x] + One(x = current)
  <2>1. Own(Top, x) = 0
    BY <1>1, <1>2, OwnOfCalls
  <2>2. /\ Outside(current, client, x) = One(x = current) + One(x \in client)
        /\ Outside(current', client', x) = One(x \in client)
    BY <1>1, NoneIsHeld, OneValues DEF Outside, One
  <2>3. One(x = current) \in Nat /\ One(x \in client) \in Nat
    BY OneValues
  <2>4. Held[x] \in Nat /\ Held'[x] \in Nat
    BY <1>2, <1>3 DEF Sound
  <2>5. Held[x] + Outside(current', client', x) = Held'[x] + Own(Top, x) + Outside(current, client, x)
    BY <1>3
  <2> QED
    BY <2>1, <2>2, <2>3, <2>4, <2>5
<1>5. Sound(mem', Held', {})
  <2>1. current \in Object \cup {None}
    BY <1>2 DEF Object
  <2> QED
    BY <1>1, <1>2, <1>3, <1>4, <2>1, ReleaseSound
<1>6. current' \in State \cup {None} /\ client' \subseteq Object
  BY <1>1, <1>2
<1> QED
  BY <1>1, <1>2, <1>5, <1>6, InvPopped

(* The end of setup(), by an error of entry() or after it.                 *)
LEMMA SetupReturns ==
    ASSUME Inv, NestsSafely, stack # <<>>, Top.op = "setup", stack' = Tail(stack),
           current' = current, client' = client,
           mem' = Release(Release(mem, Top.event), Top.next)
    PROVE  Inv'
<1>1. Top \in Frame /\ Top.event \in Object \cup {None} /\ Top.next \in Object \cup {None}
  BY TopOf DEF Object
<1>2. \A x \in Object : Own(Top, x) = One(x = Top.event) + One(x = Top.next)
  BY <1>1, OwnOfCalls
<1> QED
  BY <1>1, <1>2, ReturnReleases

LEMMA EntryReturnStep ==
    ASSUME Inv, NestsSafely, NEW hr \in {"S_OK", "E_ABORT"}, EntryReturn(hr)
    PROVE  Inv'
<1>1. /\ stack # <<>> /\ Top.op \in {"setup", "handleEvent"} /\ Top.at = "entry"
      /\ current' = current /\ client' = client
  BY DEF EntryReturn, In
<1>2. Top \in Frame
  BY <1>1, TopOf
<1>3. CASE Failed(hr) /\ Top.op = "setup"
  BY <1>1, <1>3, SetupReturns DEF EntryReturn, Return
<1>4. CASE ~(Failed(hr) /\ Top.op = "setup")
  <2> DEFINE f == [Top EXCEPT !.at = "onStateChanged", !.hr = IF Failed(hr) THEN hr ELSE "S_OK"]
  <2>1. Stay(f) /\ mem' = mem
    BY <1>4 DEF EntryReturn
  <2>2. /\ f \in Frame /\ f.op = Top.op /\ f.event = Top.event /\ f.at = "onStateChanged"
        /\ f.next = Top.next /\ f.cur = Top.cur
    BY <1>2 DEF Frame, Callback, Failed
  <2> HIDE DEF f
  <2>3. \A x \in Object : Own(f, x) = Own(Top, x)
    BY <1>1, <1>2, <2>2, OwnOfCalls
  <2>4. TopInv(mem, f)
    BY <2>2, QuietTop DEF Quiet
  <2> QED
    BY <1>1, <2>1, <2>2, <2>3, <2>4, StaySame
<1> QED
  BY <1>3, <1>4

LEMMA OnStateChangedReturnStep ==
    ASSUME Inv, NestsSafely, OnStateChangedReturn
    PROVE  Inv'
<1>1. /\ stack # <<>> /\ Top.op \in {"setup", "handleEvent"} /\ Top.at = "onStateChanged"
      /\ current' = current /\ client' = client
  BY DEF OnStateChangedReturn, In
<1>2. /\ Top \in Frame /\ Sound(mem, Held, {}) /\ Top.cur \in Object \cup {None}
      /\ current \in State \cup {None} /\ client \subseteq Object
  BY <1>1, TopOf DEF Object
<1>3. CASE Top.op = "setup"
  BY <1>1, <1>3, SetupReturns DEF OnStateChangedReturn, Return
<1>4. CASE Top.op = "handleEvent"
  <2> DEFINE f == [Top EXCEPT !.at = "postHandle"]
  <2>1. Stay(f) /\ mem' = Release(mem, Top.cur)
    BY <1>4 DEF OnStateChangedReturn
  <2>2. /\ f \in Frame /\ f.op = Top.op /\ f.event = Top.event /\ f.at = "postHandle"
        /\ f.next = Top.next /\ f.cur = Top.cur
    BY <1>2 DEF Frame, Callback
  <2> HIDE DEF f
  <2>3. /\ OnTop(Tail(stack), f, stack')
        /\ Held' \in [Object -> Nat]
        /\ \A x \in Object :
              /\ Held'[x] + Own(Top, x) + Outside(current, client, x)
                    = Held[x] + Own(f, x) + Outside(current', client', x)
              /\ Own(f, x) \in Nat /\ Outside(current, client, x) \in Nat
    BY <1>1, <2>1, <2>2, StayHeld
  <2>4. ASSUME NEW x \in Object
        PROVE  Held[x] = Held'[x] + One(x = Top.cur)
    <3>1. Own(Top, x) = Own(f, x) + One(x = Top.cur)
      BY <1>1, <1>2, <1>4, <2>2, OwnOfCalls
    <3>2. One(x = Top.cur) \in Nat /\ Held[x] \in Nat /\ Held'[x] \in Nat
      BY <1>2, <2>3, OneValues DEF Sound
    <3>3. /\ Held'[x] + Own(Top, x) + Outside(current, client, x)
                = Held[x] + Own(f, x) + Outside(current, client, x)
          /\ Own(f, x) \in Nat /\ Outside(current, client, x) \in Nat
      BY <1>1, <2>3
    <3> QED
      BY <3>1, <3>2, <3>3
  <2>5. Sound(mem', Held', {})
    BY <1>2, <2>1, <2>3, <2>4, ReleaseSound
  <2>6. TopInv(mem', f)
    BY <2>2, QuietTop DEF Quiet
  <2> QED
    BY <1>1, <1>2, <2>3, <2>5, <2>6, InvOnTop
<1> QED
  BY <1>1, <1>3, <1>4

LEMMA PostHandleReturnStep ==
    ASSUME Inv, NestsSafely, NEW hr, PostHandleReturn(hr)
    PROVE  Inv'
<1>1. /\ stack # <<>> /\ Top.op = "handleEvent" /\ Top.at = "postHandle"
      /\ mem' = Release(Release(mem, Top.next), Top.event)
      /\ stack' = Tail(stack) /\ current' = current /\ client' = client
  BY DEF PostHandleReturn, In, Return
<1>2. Top \in Frame /\ Top.event \in Object \cup {None} /\ Top.next \in Object \cup {None}
  BY <1>1, TopOf DEF Object
<1>3. \A x \in Object : Own(Top, x) = One(x = Top.next) + One(x = Top.event)
  BY <1>1, <1>2, OwnOfCalls, OneValues
<1> QED
  BY <1>1, <1>2, <1>3, ReturnReleases

-----------------------------------------------------------------------------
(* The theorems.                                                           *)

LEMMA InitInv ==
    ASSUME Init
    PROVE  Inv
<1>1. /\ mem \in Memory /\ mem.made = {} /\ mem.released = {} /\ mem.linked = {}
      /\ \A o \in Object : mem.refs[o] = 0
      /\ \A s \in State : mem.master[s] = None
      /\ current = None /\ stack = <<>> /\ client = {}
  BY DEF Init, Memory
<1>2. stack \in Seq(Frame) /\ Len(stack) = 0
  BY <1>1, EmptySeq
<1>3. ASSUME NEW o \in Object
      PROVE  Locals(stack, o) = {} /\ SubStates(mem, o) = {} /\ current # o
  BY <1>1, <1>2, <1>3, LifetimesAssumption DEF Locals, SubStates
<1>4. ASSUME NEW o \in Object
      PROVE  Held[o] = 0 /\ Cardinality(SubStates(mem, o)) = 0
  <2>1. Cardinality({}) = 0
    BY FS_EmptySet
  <2>2. Outside(current, client, o) = 0
    BY <1>1, <1>3 DEF Outside, One
  <2>3. Base(stack, o) = 0
    BY <1>3, <2>1 DEF Base
  <2>4. Held[o] = Base(stack, o) + Outside(current, client, o)
    BY <1>2, HoldersValues DEF Held
  <2> QED
    BY <1>3, <2>1, <2>2, <2>3, <2>4
<1>5. Held \in [Object -> Nat]
  BY <1>2, HoldersValues DEF Held
<1>6. Balanced(mem, Held)
  BY <1>1, <1>4 DEF Balanced, One
<1>7. Sound(mem, Held, {})
  BY <1>1, <1>5, <1>6 DEF Sound, Referred, Alive
<1>8. Nested(stack)
  BY <1>2 DEF Nested
<1> QED
  BY <1>1, <1>2, <1>7, <1>8 DEF Inv, StackInv

LEMMA NextInv ==
    ASSUME Inv, NestsSafely, [Next]_vars
    PROVE  Inv'
<1>1. CASE UNCHANGED vars
  <2>1. Held' = Held
    BY <1>1 DEF Held, vars
  <2> QED
    BY <1>1, <2>1 DEF vars, Inv, StackInv, Top
<1>2. CASE CallSetup
  BY <1>2, CallSetupStep
<1>3. CASE CallShutdown
  BY <1>3, CallShutdownStep
<1>4. CASE CallHandleEvent
  BY <1>4, CallHandleEventStep
<1>5. CASE \E o \in Object : Take(o) \/ Drop(o) \/ Dispose(o)
  BY <1>5, TakeStep, DropStep, DisposeStep
<1>6. CASE \E hr \in {"S_OK", "S_FALSE"} : PreHandleReturn(hr)
  BY <1>6, PreHandleReturnStep
<1>7. CASE Handle
  BY <1>7, HandleStep
<1>8. CASE CallExit
  BY <1>8, CallExitStep
<1>9. CASE Transition
  BY <1>9, TransitionStep
<1>10. CASE ClearCurrent
  BY <1>10, ClearCurrentStep
<1>11. CASE \E hr \in {"S_OK", "S_FALSE", "E_ABORT"} : ExitReturn(hr)
  BY <1>11, ExitReturnStep
<1>12. CASE \E hr \in {"S_OK", "E_ABORT"} : EntryReturn(hr)
  BY <1>12, EntryReturnStep
<1>13. CASE OnStateChangedReturn
  BY <1>13, OnStateChangedReturnStep
<1>14. CASE PostHandleReturn("S_OK")
  BY <1>14, PostHandleReturnStep
<1> QED
  BY <1>1, <1>2, <1>3, <1>4, <1>5, <1>6, <1>7, <1>8, <1>9, <1>10, <1>11, <1>12, <1>13, <1>14 DEF Next

(* The inductive invariant holds in every reachable state.                 *)
THEOREM ReferencesBalance ==
    ASSUME NestsSafely
    PROVE  Spec => []Inv
<1>1. Init => Inv
  BY InitInv
<1>2. Inv /\ [Next]_vars => Inv'
  BY NextInv
<1> QED
  BY <1>1, <1>2, PTL DEF Spec

(* Every reference that AddRef() counted belongs to a pointer that will    *)
(* release it, across nested calls and errors of callbacks: the counts of  *)
(* Unknown.h are those of its owners.                                      *)
THEOREM OwnersAreCounted ==
    ASSUME NestsSafely
    PROVE  Spec => []ReferencesAreOwned
<1>1. ASSUME Inv
      PROVE  ReferencesAreOwned
  <2> SUFFICES ASSUME NEW o \in Object
               PROVE  mem.refs[o] =
                         Cardinality(Locals(stack, o)) + Cardinality(SubStates(mem, o))
                         + One(current = o) + One(o \in client) + One(Kind[o] = "kept" /\ o \in mem.linked)
    BY DEF ReferencesAreOwned
  <2>1. mem.refs[o] = Held[o] + Cardinality(SubStates(mem, o)) + One(Kind[o] = "kept" /\ o \in mem.linked)
    BY <1>1 DEF Inv, Sound, Balanced
  <2>2. Held[o] = Base(stack, o) + Outside(current, client, o) /\ Base(stack, o) \in Nat
    BY <1>1, HoldersValues DEF Held, Inv, StackInv
  <2>3. Base(stack, o) = Cardinality(Locals(stack, o))
    BY DEF Base
  <2>4. Outside(current, client, o) = One(current = o) + One(o \in client)
    BY DEF Outside
  <2>5. /\ Cardinality(SubStates(mem, o)) \in Nat /\ One(current = o) \in Nat
        /\ One(o \in client) \in Nat /\ One(Kind[o] = "kept" /\ o \in mem.linked) \in Nat
    BY SubStatesFinite, OneValues
  <2> QED
    BY <2>1, <2>2, <2>3, <2>4, <2>5
<1> QED
  BY <1>1, ReferencesBalance, PTL

(* An object that a call under way owns is referred to.                    *)
LEMMA OwnedIsReferred ==
    ASSUME Inv, NEW i \in 1 .. Len(stack), NEW v \in Slot, v \in Owning(stack[i]),
           stack[i][v] \in Object
    PROVE  mem.refs[stack[i][v]] > 0
<1> DEFINE o == stack[i][v]
           k == Len(stack) + 1 - i
<1>1. stack \in Seq(Frame) /\ Len(stack) \in Nat
  BY LenProperties DEF Inv, StackInv
<1>2. k \in 1 .. Len(stack) /\ Len(stack) + 1 - k = i
  BY <1>1
<1>3. <<k, v>> \in Locals(stack, o)
  BY <1>2 DEF Locals, Under
<1> HIDE DEF k
<1>4. Locals(stack, o) # {}
  BY <1>3
<1> HIDE DEF o
<1>5. Base(stack, o) \in Nat /\ Base(stack, o) # 0
  BY <1>1, <1>4, LocalsFinite, FS_EmptySet DEF Base
<1>6. o \in Object
  BY DEF o
<1>7. Held[o] = Base(stack, o) + Outside(current, client, o) /\ Outside(current, client, o) \in Nat
  BY <1>1, <1>6, HoldersValues DEF Held
<1>8. mem.refs[o] = Held[o] + Cardinality(SubStates(mem, o)) + One(Kind[o] = "kept" /\ o \in mem.linked)
  BY <1>6 DEF Inv, Sound, Balanced
<1>9. mem.refs[o] > 0
  BY <1>5, <1>7, <1>8, SubStatesFinite, OneValues
<1> QED
  BY <1>9 DEF o

(* handleEvent() and shutdown() go through plain pointers to the current   *)
(* state and its masters: no callback, and no call that a callback makes,  *)
(* deletes what they are going to read.                                    *)
THEOREM NoDanglingRead ==
    ASSUME NestsSafely
    PROVE  Spec => []NothingDeletedIsRead
<1>1. ASSUME Inv
      PROVE  NothingDeletedIsRead
  <2> SUFFICES ASSUME NEW o \in Deleted
               PROVE  o # current /\ \A i \in 1 .. Len(stack) : o \notin Read(stack[i])
    BY DEF NothingDeletedIsRead
  <2>1. StackInv /\ Sound(mem, Held, {})
    BY <1>1 DEF Inv
  <2>2. o \in Object /\ o # None /\ ~(mem.refs[o] > 0)
    BY <2>1, LifetimesAssumption DEF Deleted, DeletedIn, Sound, Memory
  <2>3. o # current
    BY <2>1, <2>2, CurrentIsReferred DEF Live
  <2>4. ASSUME NEW i \in 1 .. Len(stack), o \in Read(stack[i])
        PROVE  FALSE
    <3>1. ASSUME NEW v \in Owning(stack[i]), o = stack[i][v]
          PROVE  FALSE
      <4>1. v \in Slot
        <5>1. stack[i] \in Frame
          BY <2>1 DEF StackInv
        <5> QED
          BY <5>1 DEF Owning, Slot, Frame
      <4> QED
        BY <1>1, <2>2, <3>1, <4>1, OwnedIsReferred
    <3>2. /\ stack[i].at \in {"preHandle", "handle", "exit", "leaving"}
          /\ o \in {stack[i].cur, stack[i].walk}
      BY <2>4, <3>1 DEF Read
    <3>3. CASE i = 1
      <4>1. stack # <<>> /\ stack[i] = Top
        <5>1. stack \in Seq(Frame) /\ Len(stack) # 0
          BY <2>1, <3>3 DEF StackInv
        <5> QED
          BY <3>3, <5>1, EmptySeq DEF Top
      <4>2. Live(mem, Top.cur) /\ Live(mem, Top.walk)
        BY <1>1, <3>2, <4>1, TopOf DEF TopInv
      <4> QED
        BY <2>2, <3>2, <4>1, <4>2 DEF Live
    <3>4. CASE i # 1
      <4>1. stack[i].at \in NestFrom
        BY <2>1, <3>4 DEF StackInv, Nested
      <4> QED
        BY <3>2, <4>1 DEF NestsSafely
    <3> QED
      BY <3>3, <3>4
  <2> QED
    BY <2>3, <2>4
<1> QED
  BY <1>1, ReferencesBalance, PTL

(* A machine that is down has left no object behind: each one that still   *)
(* exists is kept by the application or by its managed object, or is the   *)
(* master of one that is.                                                  *)
THEOREM NothingIsLeftBehind ==
    ASSUME NestsSafely
    PROVE  Spec => []NothingLeaks
<1>1. ASSUME Inv
      PROVE  \A o \in Object : Held[o] = Base(stack, o) + Outside(current, client, o)
  BY <1>1, HoldersValues DEF Held, Inv, StackInv
<1>2. ASSUME Inv
      PROVE  NothingLeaks
  <2> SUFFICES ASSUME stack = <<>>, current = None, NEW o \in mem.made \ Deleted, o \notin Kept
               PROVE  \E s \in mem.made \ Deleted : s \in State /\ mem.master[s] = o
    BY DEF NothingLeaks
  <2>1. StackInv /\ Sound(mem, Held, {}) /\ mem \in Memory /\ o \in Object
    BY <1>2 DEF Inv, Sound, Memory
  <2>2. mem.refs[o] \in Nat /\ mem.refs[o] # 0
    BY <2>1 DEF Sound, Referred, Alive, Deleted, DeletedIn, Memory
  <2>3. mem.refs[o] = Held[o] + Cardinality(SubStates(mem, o)) + One(Kind[o] = "kept" /\ o \in mem.linked)
    BY <2>1 DEF Sound, Balanced
  <2>4. One(Kind[o] = "kept" /\ o \in mem.linked) = 0
    BY DEF Kept, One
  <2>5. Held[o] = 0
    <3>1. Held[o] = Base(stack, o) + Outside(current, client, o)
      BY <1>1, <1>2, <2>1
    <3>2. Locals(stack, o) = {}
      <4>1. Len(stack) = 0
        BY EmptySeq
      <4> QED
        BY <4>1 DEF Locals
    <3>3. Base(stack, o) = 0
      BY <3>2, FS_EmptySet DEF Base
    <3>4. Outside(current, client, o) = 0
      BY <2>1, LifetimesAssumption DEF Outside, One, Kept
    <3> QED
      BY <3>1, <3>3, <3>4
  <2>6. SubStates(mem, o) # {}
    <3>1. Cardinality(SubStates(mem, o)) \in Nat
      BY SubStatesFinite
    <3>2. Cardinality(SubStates(mem, o)) # 0
      BY <2>2, <2>3, <2>4, <2>5, <3>1
    <3> QED
      BY <3>2, FS_EmptySet
  <2>7. PICK s \in State : mem.master[s] = o
    BY <2>6 DEF SubStates
  <2>8. s \in Object /\ mem.refs[s] > 0
    BY <2>1, <2>7, LifetimesAssumption DEF Sound, Alive, Object
  <2>9. s \in mem.made \ Deleted
    BY <2>1, <2>8 DEF Sound, Referred, Deleted, DeletedIn
  <2> QED
    BY <2>7, <2>9
<1> QED
  BY <1>2, ReferencesBalance, PTL

(* The native object of a managed one of StateMachine.NET exists as long   *)
(* as the managed object points to it.                                     *)
THEOREM ManagedStaysLinked ==
    ASSUME NestsSafely
    PROVE  Spec => []ManagedPointsToNative
<1>1. ASSUME Inv
      PROVE  ManagedPointsToNative
  <2> SUFFICES ASSUME NEW o \in mem.linked, o \in Deleted PROVE FALSE
    BY DEF ManagedPointsToNative
  <2>1. Sound(mem, Held, {}) /\ o \in Object
    BY <1>1 DEF Inv, Sound, Memory
  <2>2. mem.refs[o] > 0
    BY <2>1 DEF Sound, Referred, Alive
  <2>3. mem.refs[o] = 0
    BY DEF Deleted, DeletedIn
  <2> QED
    BY <2>2, <2>3
<1> QED
  BY <1>1, ReferencesBalance, PTL

=============================================================================
