------------------------- MODULE NativeObjectProofs -------------------------
(***************************************************************************)
(* Proofs about NativeObject, for every set of objects, keys and values.   *)
(***************************************************************************)
EXTENDS NativeObject, TLAPS, WellFoundedInduction, FiniteSetTheorems

(* Pointers lead to allocated objects only.                                *)
Pointers ==
    /\ live \subseteq Object
    /\ proto \in [Object -> live \union {Null}]
    /\ building \subseteq live

IInv == Pointers /\ PrototypesAcyclic

(* What the steps of the ABI do to the graph of prototypes: nothing, add   *)
(* an object that nothing points to yet, or redirect one pointer.          *)
Same == UNCHANGED <<live, proto>>

Added(o, p) ==
    /\ o \in Object \ live
    /\ p \in live \union {Null}
    /\ live' = live \union {o}
    /\ proto' = [proto EXCEPT ![o] = p]

Redirected(o, p) ==
    /\ o \in live
    /\ p \in live \union {Null}
    /\ p = Null \/ ~Reaches(p, o)
    /\ live' = live
    /\ proto' = [proto EXCEPT ![o] = p]

(* A set that the walk from the prototype of x never leaves, without x: it *)
(* witnesses that x is not on its own chain.                               *)
Separates(S, x) == S \in SUBSET Object /\ proto[x] \in S /\ Closed(S) /\ x \notin S

LEMMA AcyclicBySets ==
    PrototypesAcyclic
      <=> \A x \in Object : proto[x] # Null => \E S \in SUBSET Object : Separates(S, x)
BY DEF PrototypesAcyclic, Reaches, Separates

LEMMA GraphSteps ==
    ASSUME Pointers, [Next]_vars
    PROVE  /\ Same \/ (\E o \in Object, p \in Object \union {Null} : Added(o, p) \/ Redirected(o, p))
           /\ building' \subseteq live'
<1> USE DEF Pointers, Same
<1>1. CASE UNCHANGED vars
  BY <1>1 DEF vars
<1>2. ASSUME NEW o \in Object, NEW p \in Object \union {Null}, NEW props, New(o, p, props)
      PROVE  Added(o, p)
  BY <1>2 DEF New, Added, Usable
<1>3. ASSUME NEW o \in Object, NEW p \in Object \union {Null}, ObjectNew(o, p)
      PROVE  Added(o, p) /\ building' \subseteq live'
  BY <1>2, <1>3 DEF ObjectNew, Added
<1>4. ASSUME NEW o \in Object, NEW p \in Object \union {Null}, SetPrototype(o, p)
      PROVE  Redirected(o, p) /\ building' \subseteq live'
  BY <1>4 DEF SetPrototype, Redirected, Usable
<1>5. ASSUME NEW o \in Object, NEW elements, ArrayOf(o, elements)
      PROVE  Added(o, Null) /\ building' \subseteq live'
  BY <1>2, <1>5 DEF ArrayOf, Added
<1>6. ASSUME NEW o \in Object, BeginLiteral(o)
      PROVE  Added(o, Null) /\ building' \subseteq live'
  BY <1>2, <1>6 DEF BeginLiteral, Added
<1>7. ASSUME NEW o \in Object, EndLiteral(o)
      PROVE  Same /\ building' \subseteq live'
  BY <1>7 DEF EndLiteral
<1>8. ASSUME NEW o \in Object, NEW v, ArrayPush(o, v)
      PROVE  Same /\ building' \subseteq live'
  BY <1>8 DEF ArrayPush
<1>9. ASSUME NEW o \in Object, NEW src \in Object, ArraySpread(o, src)
      PROVE  Same /\ building' \subseteq live'
  BY <1>9 DEF ArraySpread
<1>10. ASSUME NEW o \in Object, NEW k, NEW v, SetValue(o, k, v)
       PROVE  Same /\ building' \subseteq live'
  BY <1>10 DEF SetValue
<1>11. ASSUME NEW o \in Object, NEW k, NEW g, NEW s, NEW e, NEW c,
              DefineAccessor(o, k, g, s, e, c)
       PROVE  Same /\ building' \subseteq live'
  BY <1>11 DEF DefineAccessor
<1>12. ASSUME NEW o \in Object, NEW k, Delete(o, k)
       PROVE  Same /\ building' \subseteq live'
  BY <1>12 DEF Delete
<1>13. CASE Next
  BY <1>3, <1>4, <1>5, <1>6, <1>7, <1>8, <1>9, <1>10, <1>11, <1>12, <1>13
     DEF Next, Literal
<1>14. QED BY <1>1, <1>13

LEMMA AddedKeepsAcyclic ==
    ASSUME IInv, NEW o \in Object, NEW p \in Object \union {Null}, Added(o, p)
    PROVE  PrototypesAcyclic'
<1> USE ObjectsAssumption DEF IInv, Pointers, Added, Separates, Closed
<1>1. SUFFICES ASSUME NEW x \in Object, proto'[x] # Null
               PROVE  \E S \in SUBSET Object : Separates(S, x)'
  BY DEF PrototypesAcyclic, Reaches
<1>2. PICK L \in SUBSET Object : L = live
  OBVIOUS
<1>3. CASE x = o
  <2>1. Separates(L, x)'
    BY <1>1, <1>2, <1>3
  <2>2. QED BY <2>1
<1>4. CASE x # o
  <2>1. PICK S \in SUBSET Object : Separates(S, x)
    BY <1>1, <1>4, AcyclicBySets
  <2>2. Separates(S \intersect L, x)'
    BY <1>1, <1>2, <1>4, <2>1
  <2>3. QED BY <2>2
<1>5. QED BY <1>3, <1>4

(* The refused cycle is what matters here: S0 holds the chain of p and not *)
(* o, so it is not disturbed.                                              *)
LEMMA RedirectedKeepsAcyclic ==
    ASSUME IInv, NEW o \in Object, NEW p \in Object \union {Null}, Redirected(o, p)
    PROVE  PrototypesAcyclic'
<1> USE ObjectsAssumption DEF IInv, Pointers, Redirected, Separates, Closed
<1>1. SUFFICES ASSUME NEW x \in Object, proto'[x] # Null
               PROVE  \E S \in SUBSET Object : Separates(S, x)'
  BY DEF PrototypesAcyclic, Reaches
<1>2. PICK S0 \in SUBSET Object : o \notin S0 /\ Closed(S0) /\ (p # Null => p \in S0)
  <2>1. CASE p = Null
    <3>1. {} \in SUBSET Object /\ o \notin {} /\ Closed({})
      OBVIOUS
    <3>2. QED BY <2>1, <3>1
  <2>2. CASE p # Null
    BY <2>2 DEF Reaches
  <2>3. QED BY <2>1, <2>2
<1>3. CASE x = o
  <2>1. Separates(S0, x)'
    BY <1>1, <1>2, <1>3
  <2>2. QED BY <2>1
<1>4. CASE x # o
  <2>1. PICK S \in SUBSET Object : Separates(S, x)
    BY <1>1, <1>4, AcyclicBySets
  <2>2. CASE x \in S0
    <3>1. Separates(S \intersect S0, x)'
      BY <1>1, <1>2, <1>4, <2>1, <2>2
    <3>2. QED BY <3>1
  <2>3. CASE x \notin S0
    <3>1. Separates(S \union S0, x)'
      BY <1>1, <1>2, <1>4, <2>1, <2>3
    <3>2. QED BY <3>1
  <2>4. QED BY <2>2, <2>3
<1>5. QED BY <1>3, <1>4

LEMMA SameKeepsAcyclic ==
    ASSUME IInv, Same
    PROVE  PrototypesAcyclic'
BY DEF IInv, Same, PrototypesAcyclic, Reaches, Closed

-----------------------------------------------------------------------------
(* Every walk along a prototype chain ends: no object is on its own chain, *)
(* and the chain stays within the allocated objects.                       *)
THEOREM Invariance == Spec => []IInv
<1>1. Init => IInv
  BY DEF Init, IInv, Pointers, PrototypesAcyclic
<1>2. IInv /\ [Next]_vars => IInv'
  <2> SUFFICES ASSUME IInv, [Next]_vars
               PROVE  IInv'
    OBVIOUS
  <2>1. /\ Same \/ (\E o \in Object, p \in Object \union {Null} : Added(o, p) \/ Redirected(o, p))
        /\ building' \subseteq live'
    BY GraphSteps DEF IInv
  <2>2. Pointers'
    BY <2>1 DEF IInv, Pointers, Same, Added, Redirected
  <2>3. PrototypesAcyclic'
    BY <2>1, SameKeepsAcyclic, AddedKeepsAcyclic, RedirectedKeepsAcyclic
  <2>4. QED BY <2>2, <2>3 DEF IInv
<1>3. QED BY <1>1, <1>2, PTL DEF Spec

(* The chain that ecmora_value_get_property follows to a null prototype    *)
(* never comes back to an object it left, whatever the program allocates   *)
(* and redirects: the loop over prototypes in object_abi.c ends.           *)
THEOREM AcyclicAlways == Spec => []PrototypesAcyclic
<1>1. IInv => PrototypesAcyclic
  BY DEF IInv
<1>2. QED BY <1>1, Invariance, PTL

-----------------------------------------------------------------------------
(* Recursion and induction on numbers, from the least element of a set.    *)
LEMMA LeastElement ==
    ASSUME NEW T \in SUBSET Nat, T # {}
    PROVE  \E x \in T : \A y \in T : ~(y < x)
<1>1. PICK R : R = OpToRel(<, Nat)
  OBVIOUS
<1>2. IsWellFoundedOn(R, Nat)
  BY <1>1, NatLessThanWellFounded
<1>3. PICK x \in T : \A y \in T : ~(<<y, x>> \in R)
  BY <1>2, WFMin
<1>4. \A y \in T : y < x => <<y, x>> \in R
  BY <1>1 DEF OpToRel
<1>5. QED BY <1>3, <1>4

LEMMA UpTo ==
    ASSUME NEW N \in Nat, NEW T, 0 \in T, \A n \in 0 .. (N - 1) : n \in T => n + 1 \in T
    PROVE  N \in T
<1> SUFFICES ASSUME N \notin T
             PROVE  FALSE
  OBVIOUS
<1>1. PICK U : U = {m \in 0 .. N : m \notin T}
  OBVIOUS
<1>2. PICK x \in U : \A y \in U : ~(y < x)
  <2>1. U \in SUBSET Nat /\ U # {}
    BY <1>1
  <2>2. QED BY <2>1, LeastElement
<1>3. x \in 1 .. N /\ x - 1 \in 0 .. (N - 1) /\ x \notin T
  BY <1>1, <1>2
<1>4. x - 1 \notin U
  BY <1>2, <1>3
<1>5. x - 1 \in T
  BY <1>1, <1>3, <1>4
<1>6. QED BY <1>3, <1>5

-----------------------------------------------------------------------------
(* FoldLeft is the last value of a function on sets of positions, each of  *)
(* which is made from the one without its greatest position.               *)
Unfolds(iter, base, seq, D) ==
    iter = [s \in SUBSET D |->
              IF s = {} THEN base ELSE PushIn(iter[s \ {Max(s)}], seq[Max(s)])]

Iter(base, seq) == CHOOSE iter : Unfolds(iter, base, seq, DOMAIN seq)

LEMMA FoldIsIter ==
    ASSUME NEW base, NEW seq
    PROVE  FoldLeft(PushIn, base, seq) = Iter(base, seq)[DOMAIN seq]
BY DEF FoldLeft, MapThenFoldSet, Iter, Unfolds

LEMMA TopOf ==
    ASSUME NEW n \in Nat, NEW s \in SUBSET (1 .. (n + 1)), n + 1 \in s
    PROVE  Max(s) = n + 1
<1>1. \A x \in s : (\A y \in s : x >= y) => x = n + 1
  OBVIOUS
<1>2. \A y \in s : n + 1 >= y
  OBVIOUS
<1>3. QED BY <1>1, <1>2 DEF Max

LEMMA Unfolding ==
    ASSUME NEW N \in Nat, NEW base, NEW seq
    PROVE  \E iter : Unfolds(iter, base, seq, 1 .. N)
<1>1. PICK T : T = {n \in 0 .. N : \E iter : Unfolds(iter, base, seq, 1 .. n)}
  OBVIOUS
<1>2. 0 \in T
  <2>1. PICK iter : iter = [s \in SUBSET (1 .. 0) |-> base]
    OBVIOUS
  <2>2. \A s \in SUBSET (1 .. 0) : s = {}
    OBVIOUS
  <2>3. Unfolds(iter, base, seq, 1 .. 0)
    BY <2>1, <2>2 DEF Unfolds
  <2>4. QED BY <1>1, <2>3
<1>3. ASSUME NEW n \in 0 .. (N - 1), n \in T
      PROVE  n + 1 \in T
  <2>1. PICK old : Unfolds(old, base, seq, 1 .. n)
    BY <1>1, <1>3
  <2>2. PICK iter : iter = [s \in SUBSET (1 .. (n + 1)) |->
                              IF n + 1 \in s THEN PushIn(old[s \ {n + 1}], seq[n + 1])
                              ELSE old[s]]
    OBVIOUS
  <2>3. ASSUME NEW s \in SUBSET (1 .. n)
        PROVE  iter[s] = old[s]
    <3>1. s \in SUBSET (1 .. (n + 1)) /\ n + 1 \notin s
      OBVIOUS
    <3>2. QED BY <2>2, <3>1
  <2>4. ASSUME NEW s \in SUBSET (1 .. (n + 1))
        PROVE  iter[s] = IF s = {} THEN base ELSE PushIn(iter[s \ {Max(s)}], seq[Max(s)])
    <3>1. CASE n + 1 \in s
      <4>1. Max(s) = n + 1
        BY <3>1, TopOf
      <4>2. s \ {n + 1} \in SUBSET (1 .. n)
        OBVIOUS
      <4>3. iter[s \ {n + 1}] = old[s \ {n + 1}]
        BY <2>3, <4>2
      <4>4. iter[s] = PushIn(old[s \ {n + 1}], seq[n + 1])
        BY <2>2, <3>1
      <4>5. s # {}
        BY <3>1
      <4>6. QED BY <4>1, <4>3, <4>4, <4>5
    <3>2. CASE n + 1 \notin s
      <4>1. s \in SUBSET (1 .. n)
        BY <3>2
      <4>2. iter[s] = old[s]
        BY <2>3, <4>1
      <4>3. old[s] = IF s = {} THEN base ELSE PushIn(old[s \ {Max(s)}], seq[Max(s)])
        BY <2>1, <4>1 DEF Unfolds
      <4>4. s \ {Max(s)} \in SUBSET (1 .. n)
        BY <4>1
      <4>5. iter[s \ {Max(s)}] = old[s \ {Max(s)}]
        BY <2>3, <4>4
      <4>6. QED BY <4>2, <4>3, <4>5
    <3>3. QED BY <3>1, <3>2
  <2>5. Unfolds(iter, base, seq, 1 .. (n + 1))
    BY <2>2, <2>4 DEF Unfolds
  <2>6. QED BY <1>1, <2>5
<1>4. N \in T
  <2>1. \A n \in 0 .. (N - 1) : n \in T => n + 1 \in T
    BY <1>3
  <2>2. QED BY <1>2, <2>1, UpTo
<1>5. QED BY <1>1, <1>4

(* What holds of the empty array and is kept by each push, holds of what a *)
(* loop of pushes makes: S[n] is what may be said after n of them.         *)
LEMMA Pushes ==
    ASSUME NEW N \in Nat, NEW seq, DOMAIN seq = 1 .. N, NEW base, NEW S,
           base \in S[0],
           \A n \in 0 .. (N - 1) : \A props \in S[n] : PushIn(props, seq[n + 1]) \in S[n + 1]
    PROVE  FoldLeft(PushIn, base, seq) \in S[N]
<1>1. PICK iter : iter = Iter(base, seq)
  OBVIOUS
<1>2. Unfolds(iter, base, seq, 1 .. N)
  BY <1>1, Unfolding DEF Iter
<1>3. PICK T : T = {n \in 0 .. N : iter[1 .. n] \in S[n]}
  OBVIOUS
<1>4. 0 \in T
  <2>1. 1 .. 0 = {}
    OBVIOUS
  <2>2. {} \in SUBSET (1 .. N)
    OBVIOUS
  <2>3. iter[{}] = base
    BY <1>2, <2>2 DEF Unfolds
  <2>4. QED BY <1>3, <2>1, <2>3
<1>5. ASSUME NEW n \in 0 .. (N - 1), n \in T
      PROVE  n + 1 \in T
  <2>1. PICK s, t : s = 1 .. (n + 1) /\ t = 1 .. n
    OBVIOUS
  <2>2. s \in SUBSET (1 .. N) /\ s # {} /\ t = s \ {n + 1}
    <3>1. n + 1 \in s
      BY <2>1
    <3>2. \A i \in s : i \in 1 .. N
      BY <2>1
    <3>3. \A i : i \in t <=> i \in s /\ i # n + 1
      BY <2>1
    <3>4. QED BY <3>1, <3>2, <3>3
  <2>3. Max(s) = n + 1
    BY <2>1, TopOf
  <2>4. iter[s] = IF s = {} THEN base ELSE PushIn(iter[s \ {Max(s)}], seq[Max(s)])
    BY <1>2, <2>2 DEF Unfolds
  <2>8. iter[s] = PushIn(iter[t], seq[n + 1])
    BY <2>2, <2>3, <2>4
  <2>5. iter[t] \in S[n]
    BY <1>3, <1>5, <2>1
  <2>6. iter[s] \in S[n + 1]
    BY <1>5, <2>5, <2>8
  <2>7. QED BY <1>3, <2>1, <2>6
<1>6. N \in T
  <2>1. \A n \in 0 .. (N - 1) : n \in T => n + 1 \in T
    BY <1>5
  <2>2. QED BY <1>4, <2>1, UpTo
<1>7. iter[1 .. N] \in S[N]
  BY <1>3, <1>6
<1>8. FoldLeft(PushIn, base, seq) = Iter(base, seq)[DOMAIN seq]
  BY FoldIsIter
<1>9. QED BY <1>1, <1>7, <1>8

-----------------------------------------------------------------------------
(* Property lists.  A property that is not configurable cannot be written: *)
(* only then does writing keep what is sealed.                             *)
PropertyList == [Key -> Property \union {Absent}]
Sealed(props, k) == props[k].present /\ ~props[k].configurable
ReadOnly(props) == \A k \in Key : Sealed(props, k) => ~props[k].writable
Sound(props) == props \in PropertyList /\ ReadOnly(props)
Keeps(old, props) == Sound(props) /\ \A k \in Key : Sealed(old, k) => props[k] = old[k]

(* An array literal of n elements.                                         *)
Built(props, n) ==
    /\ props \in PropertyList
    /\ \A i \in Index : props[i].present <=> i < n
    /\ IF n = 0 THEN ~props[Length].present
       ELSE props[Length].present /\ props[Length].writable /\ props[Length].value = n

LEMMA Keys == Length \in Key /\ \A i \in Index : i \in Key /\ i # Length
BY KeysAssumption DEF Key

LEMMA PropertyFields ==
    ASSUME NEW p \in Property \union {Absent}
    PROVE  /\ p.present \in BOOLEAN
           /\ p.present => p \in Property
           /\ ~p.present => p = Absent
<1>1. CASE p \in Property
  BY <1>1 DEF Property
<1>2. CASE p = Absent
  <2>1. p.present = FALSE
    BY <1>2 DEF Absent
  <2>2. QED BY <1>2, <2>1
<1>3. QED BY <1>1, <1>2

LEMMA NewPropertyFields ==
    ASSUME NEW v \in Value
    PROVE  /\ NewProperty(v) \in Property
           /\ NewProperty(v).present /\ NewProperty(v).configurable
           /\ NewProperty(v).writable /\ NewProperty(v).value = v
BY DEF NewProperty, Property

Revalued(p, v, q) ==
    /\ q \in Property /\ q.present /\ q.value = v
    /\ q.configurable = p.configurable /\ q.writable = p.writable

LEMMA ValueWritten ==
    ASSUME NEW p \in Property, NEW v \in Value, NEW q, q = [p EXCEPT !.value = v]
    PROVE  Revalued(p, v, q)
BY DEF Property, Revalued

(* SetIn changes one property, and no read-only one.                       *)
WrittenAt(props, k, v, q) ==
    /\ q \in PropertyList
    /\ \A j \in Key \ {k} : q[j] = props[j]
    /\ q[k].present
    /\ props[k].present => /\ q[k].configurable = props[k].configurable
                           /\ q[k].writable = props[k].writable
    /\ props[k].present /\ ~props[k].writable => q[k] = props[k]
    /\ ~props[k].present => q[k].configurable /\ q[k].writable
    /\ ~props[k].present \/ props[k].writable => q[k].value = v

LEMMA SetInAt ==
    ASSUME NEW props \in PropertyList, NEW k \in Key, NEW v \in Value, NEW q, q = SetIn(props, k, v)
    PROVE  WrittenAt(props, k, v, q)
<1>1. props[k] \in Property \union {Absent}
  BY DEF PropertyList
<1>2. CASE ~props[k].present
  <2>1. q = [props EXCEPT ![k] = NewProperty(v)]
    BY <1>2 DEF SetIn
  <2>2. q \in PropertyList
    BY <2>1, NewPropertyFields DEF PropertyList
  <2>3. q[k] = NewProperty(v) /\ \A j \in Key \ {k} : q[j] = props[j]
    BY <2>1 DEF PropertyList
  <2>4. QED BY <1>2, <2>2, <2>3, NewPropertyFields DEF WrittenAt
<1>3. CASE props[k].present /\ props[k].writable
  <2>1. PICK p : p = [props[k] EXCEPT !.value = v]
    OBVIOUS
  <2>2. q = [props EXCEPT ![k] = p]
    BY <1>3, <2>1 DEF SetIn
  <2>3. /\ p \in Property /\ p.present /\ p.value = v
        /\ p.configurable = props[k].configurable /\ p.writable = props[k].writable
    <3>1. PICK r : r = props[k]
      OBVIOUS
    <3>2. r \in Property
      BY <1>1, <1>3, <3>1, PropertyFields
    <3>3. p = [r EXCEPT !.value = v]
      BY <2>1, <3>1
    <3>4. Revalued(r, v, p)
      BY <3>2, <3>3, ValueWritten
    <3>5. QED BY <3>1, <3>4 DEF Revalued
  <2>4. q \in PropertyList
    BY <2>2, <2>3 DEF PropertyList
  <2>5. q[k] = p /\ \A j \in Key \ {k} : q[j] = props[j]
    BY <2>2 DEF PropertyList
  <2>6. QED BY <1>3, <2>3, <2>4, <2>5 DEF WrittenAt
<1>4. CASE props[k].present /\ ~props[k].writable
  <2>1. q = props
    BY <1>4 DEF SetIn
  <2>2. QED BY <1>4, <2>1 DEF WrittenAt
<1>5. QED BY <1>2, <1>3, <1>4

LEMMA SetInKeeps ==
    ASSUME NEW props, Sound(props), NEW k \in Key, NEW v \in Value
    PROVE  Keeps(props, SetIn(props, k, v))
<1>1. PICK q : q = SetIn(props, k, v)
  OBVIOUS
<1>2. props \in PropertyList /\ ReadOnly(props)
  BY DEF Sound
<1>3. WrittenAt(props, k, v, q)
  BY <1>1, <1>2, SetInAt
<1>4. ASSUME NEW j \in Key, Sealed(props, j)
      PROVE  q[j] = props[j]
  BY <1>2, <1>3, <1>4 DEF Sealed, ReadOnly, WrittenAt
<1>5. ASSUME NEW j \in Key, Sealed(q, j)
      PROVE  ~q[j].writable
  BY <1>2, <1>3, <1>5 DEF Sealed, ReadOnly, WrittenAt
<1>6. QED BY <1>1, <1>3, <1>4, <1>5 DEF Keeps, Sound, ReadOnly, WrittenAt

LEMMA KeepsOn ==
    ASSUME NEW a, NEW b, NEW c, Keeps(a, b), Keeps(b, c)
    PROVE  Keeps(a, c)
BY DEF Keeps, Sealed

LEMMA KeepsItself ==
    ASSUME NEW a, Sound(a)
    PROVE  Keeps(a, a)
BY DEF Keeps

LEMMA OwnLengthType ==
    ASSUME NEW props \in PropertyList
    PROVE  OwnLength(props) \in Number
BY BoundsAssumption DEF OwnLength, Number

(* The index a push writes to.                                             *)
NextIndex(props) == IF OwnLength(props) < Limit THEN OwnLength(props) ELSE Limit

LEMMA NextIndexType ==
    ASSUME NEW props \in PropertyList
    PROVE  /\ NextIndex(props) \in Index /\ NextIndex(props) \in Key
           /\ NextIndex(props) + 1 \in Value
<1>1. OwnLength(props) \in 0 .. (Limit + 1)
  BY OwnLengthType DEF Number
<1>2. NextIndex(props) \in 0 .. Limit
  BY <1>1, BoundsAssumption DEF NextIndex
<1>3. NextIndex(props) + 1 \in 0 .. (Limit + 1)
  BY <1>2, BoundsAssumption
<1>4. QED BY <1>2, <1>3 DEF Index, Key, Value, Number

(* A push stores the value and, when the index is not below the length,    *)
(* then the length; both are writes with SetIn.                            *)
LEMMA PushWrites ==
    ASSUME NEW props, NEW v, NEW i, i = NextIndex(props), NEW q, q = SetIn(props, i, v)
    PROVE  PushIn(props, v) = q \/ PushIn(props, v) = SetIn(q, Length, i + 1)
BY DEF PushIn, SetIndexIn, NextIndex

LEMMA PushKeeps ==
    ASSUME NEW props, Sound(props), NEW v \in Value
    PROVE  Keeps(props, PushIn(props, v))
<1>1. PICK i, q : i = NextIndex(props) /\ q = SetIn(props, i, v)
  OBVIOUS
<1>2. i \in Key /\ i + 1 \in Value
  BY <1>1, NextIndexType DEF Sound
<1>3. Keeps(props, q)
  BY <1>1, <1>2, SetInKeeps
<1>4. Keeps(q, SetIn(q, Length, i + 1))
  BY <1>2, <1>3, Keys, SetInKeeps DEF Keeps
<1>5. PushIn(props, v) = q \/ PushIn(props, v) = SetIn(q, Length, i + 1)
  BY <1>1, PushWrites
<1>6. CASE PushIn(props, v) = q
  BY <1>3, <1>6
<1>7. CASE PushIn(props, v) = SetIn(q, Length, i + 1)
  BY <1>3, <1>4, <1>7, KeepsOn
<1>8. QED BY <1>5, <1>6, <1>7

LEMMA PushesKeep ==
    ASSUME NEW N \in Nat, NEW seq, DOMAIN seq = 1 .. N,
           \A n \in 1 .. N : seq[n] \in Value, NEW base, Sound(base)
    PROVE  Keeps(base, FoldLeft(PushIn, base, seq))
<1>1. PICK S : S = [n \in 0 .. N |-> {props \in PropertyList : Keeps(base, props)}]
  OBVIOUS
<1>2. \A n \in 0 .. N : \A props : props \in S[n] <=> Keeps(base, props)
  BY <1>1 DEF Keeps, Sound
<1>3. base \in S[0]
  BY <1>2, KeepsItself
<1>4. ASSUME NEW n \in 0 .. (N - 1), NEW props \in S[n]
      PROVE  PushIn(props, seq[n + 1]) \in S[n + 1]
  <2>1. Keeps(base, props) /\ Sound(props)
    BY <1>2, <1>4 DEF Keeps
  <2>2. n + 1 \in 1 .. N /\ n + 1 \in 0 .. N
    OBVIOUS
  <2>3. seq[n + 1] \in Value
    BY <2>2
  <2>4. Keeps(props, PushIn(props, seq[n + 1]))
    BY <2>1, <2>3, PushKeeps
  <2>5. Keeps(base, PushIn(props, seq[n + 1]))
    BY <2>1, <2>4, KeepsOn
  <2>6. QED BY <1>2, <2>2, <2>5
<1>5. FoldLeft(PushIn, base, seq) \in S[N]
  BY <1>3, <1>4, Pushes
<1>6. QED BY <1>2, <1>5

(* The length of a literal is the number of its elements; a push adds one. *)
LEMMA BuiltLength ==
    ASSUME NEW n \in 0 .. MaxLength, NEW props, Built(props, n)
    PROVE  OwnLength(props) = n /\ NextIndex(props) = n
<1>1. n \in Number /\ n < Limit
  BY BoundsAssumption DEF Number
<1>2. OwnLength(props) = n
  BY <1>1, ValuesAssumption DEF OwnLength, Built, Number
<1>3. QED BY <1>1, <1>2 DEF NextIndex

LEMMA PushBuilds ==
    ASSUME NEW n \in 0 .. MaxLength, n < MaxLength, NEW props, Built(props, n), NEW v \in Value
    PROVE  Built(PushIn(props, v), n + 1)
<1>1. /\ n \in Nat /\ n < Limit /\ n \in Index /\ n \in Key /\ n # Length /\ n + 1 # 0
      /\ n + 1 \in Value
  BY BoundsAssumption, Keys DEF Index, Value, Number
<1>2. OwnLength(props) = n /\ NextIndex(props) = n
  BY BuiltLength
<1>3. PICK q : q = SetIn(props, n, v)
  OBVIOUS
<1>4. PICK r : r = SetIn(q, Length, n + 1)
  OBVIOUS
<1>5. PushIn(props, v) = r
  BY <1>1, <1>2, <1>3, <1>4 DEF PushIn, SetIndexIn
<1>6. props \in PropertyList /\ Length \in Key
  BY Keys DEF Built
<1>7. q \in PropertyList /\ (\A j \in Key \ {n} : q[j] = props[j]) /\ q[n].present
  <2>1. WrittenAt(props, n, v, q)
    BY <1>1, <1>3, <1>6, SetInAt
  <2>2. QED BY <2>1 DEF WrittenAt
<1>8. /\ r \in PropertyList /\ (\A j \in Key \ {Length} : r[j] = q[j]) /\ r[Length].present
      /\ q[Length].present => r[Length].writable = q[Length].writable
      /\ ~q[Length].present => r[Length].writable
      /\ ~q[Length].present \/ q[Length].writable => r[Length].value = n + 1
  <2>1. WrittenAt(q, Length, n + 1, r)
    BY <1>1, <1>4, <1>6, <1>7, SetInAt
  <2>2. QED BY <2>1 DEF WrittenAt
<1>9. q[Length] = props[Length]
  BY <1>1, <1>6, <1>7
<1>10. r[Length].present /\ r[Length].writable /\ r[Length].value = n + 1
  BY <1>8, <1>9 DEF Built
<1>11. ASSUME NEW i \in Index
       PROVE  r[i].present <=> i < n + 1
  <2>1. i \in Key /\ i # Length /\ i \in Nat
    BY Keys, BoundsAssumption DEF Index
  <2>2. r[i] = q[i]
    BY <1>8, <2>1
  <2>3. CASE i = n
    BY <1>7, <2>2, <2>3, <1>1
  <2>4. CASE i # n
    <3>1. r[i] = props[i]
      BY <1>7, <2>1, <2>2, <2>4
    <3>2. props[i].present <=> i < n
      BY DEF Built
    <3>3. QED BY <1>1, <2>1, <2>4, <3>1, <3>2
  <2>5. QED BY <2>3, <2>4
<1>12. QED BY <1>1, <1>5, <1>8, <1>10, <1>11 DEF Built

LEMMA PushesBuild ==
    ASSUME NEW n \in 0 .. MaxLength, NEW N \in Nat, n + N <= MaxLength,
           NEW seq, DOMAIN seq = 1 .. N, \A m \in 1 .. N : seq[m] \in Value,
           NEW base, Built(base, n)
    PROVE  Built(FoldLeft(PushIn, base, seq), n + N)
<1>1. PICK S : S = [m \in 0 .. N |-> {props \in PropertyList : Built(props, n + m)}]
  OBVIOUS
<1>2. \A m \in 0 .. N : \A props : props \in S[m] <=> Built(props, n + m)
  BY <1>1 DEF Built
<1>3. base \in S[0]
  BY <1>2
<1>4. ASSUME NEW m \in 0 .. (N - 1), NEW props \in S[m]
      PROVE  PushIn(props, seq[m + 1]) \in S[m + 1]
  <2>1. m \in 0 .. N /\ m + 1 \in 1 .. N /\ m + 1 \in 0 .. N /\ n + (m + 1) = (n + m) + 1
    OBVIOUS
  <2>2. n + m \in 0 .. MaxLength /\ n + m < MaxLength
    BY BoundsAssumption
  <2>3. Built(props, n + m) /\ seq[m + 1] \in Value
    BY <1>2, <1>4, <2>1
  <2>4. Built(PushIn(props, seq[m + 1]), (n + m) + 1)
    BY <2>2, <2>3, PushBuilds
  <2>5. QED BY <1>2, <2>1, <2>4
<1>5. FoldLeft(PushIn, base, seq) \in S[N]
  BY <1>3, <1>4, Pushes
<1>6. QED BY <1>2, <1>5

LEMMA Empty == Sound(NoProperties) /\ Built(NoProperties, 0)
<1>1. \A k \in Key : NoProperties[k] = Absent /\ ~NoProperties[k].present
  BY DEF NoProperties, Absent
<1>2. NoProperties \in PropertyList
  BY DEF NoProperties, PropertyList
<1>3. \A i \in Index : ~(i < 0)
  BY BoundsAssumption DEF Index
<1>4. QED BY <1>1, <1>2, <1>3, Keys DEF Sound, ReadOnly, Sealed, Built

(* Defining an accessor leaves it read-only; a sealed one is defined again *)
(* only as it is.                                                          *)
LEMMA DefineKeeps ==
    ASSUME NEW props, Sound(props), NEW k \in Key,
           NEW g \in Function \union {Null}, NEW s \in Function \union {Null},
           NEW e \in BOOLEAN, NEW c \in BOOLEAN
    PROVE  Keeps(props, DefineAccessorIn(props, k, g, s, e, c))
<1>1. PICK old : old = IF props[k].present THEN props[k] ELSE NewProperty(Undefined)
  OBVIOUS
<1>2. PICK p : p = [old EXCEPT !.getter = IF g # Null THEN g ELSE @,
                               !.setter = IF s # Null THEN s ELSE @,
                               !.enumerable = e, !.configurable = c, !.writable = FALSE]
  OBVIOUS
<1>3. PICK q : q = [props EXCEPT ![k] = p]
  OBVIOUS
<1>4. \/ DefineAccessorIn(props, k, g, s, e, c) = props
      \/ /\ DefineAccessorIn(props, k, g, s, e, c) = q
         /\ ~old.configurable => /\ old.enumerable = e /\ ~c
                                 /\ g # Null => old.getter = g
                                 /\ s # Null => old.setter = s
  BY <1>1, <1>2, <1>3 DEF DefineAccessorIn
<1>5. CASE DefineAccessorIn(props, k, g, s, e, c) = props
  BY <1>5, KeepsItself
<1>6. CASE /\ DefineAccessorIn(props, k, g, s, e, c) = q
           /\ ~old.configurable => /\ old.enumerable = e /\ ~c
                                   /\ g # Null => old.getter = g
                                   /\ s # Null => old.setter = s
  <2>1. props \in PropertyList /\ props[k] \in Property \union {Absent}
    BY DEF Sound, PropertyList
  <2>2. old \in Property
    <3>1. Undefined \in Value
      BY ValuesAssumption DEF Value
    <3>2. QED BY <1>1, <2>1, <3>1, PropertyFields, NewPropertyFields
  <2>3. p \in Property /\ p.present /\ ~p.writable
    <3>1. PICK a, b : /\ a = IF g # Null THEN g ELSE old.getter
                      /\ b = IF s # Null THEN s ELSE old.setter
      OBVIOUS
    <3>2. a \in Function \union {Null} /\ b \in Function \union {Null}
      BY <2>2, <3>1 DEF Property
    <3>3. p = [old EXCEPT !.getter = a, !.setter = b,
                          !.enumerable = e, !.configurable = c, !.writable = FALSE]
      BY <1>2, <3>1
    <3>4. QED BY <2>2, <3>2, <3>3 DEF Property
  <2>4. q \in PropertyList /\ q[k] = p /\ \A j \in Key \ {k} : q[j] = props[j]
    BY <1>3, <2>1, <2>3 DEF PropertyList
  <2>5. ASSUME Sealed(props, k)
        PROVE  p = props[k]
    <3>1. old = props[k] /\ ~old.configurable /\ ~old.writable
      BY <1>1, <2>5 DEF Sealed, Sound, ReadOnly
    <3>2. /\ p.getter = old.getter /\ p.setter = old.setter /\ p.value = old.value
          /\ p.enumerable = old.enumerable /\ p.configurable = old.configurable
          /\ p.writable = old.writable /\ p.present = old.present
      BY <1>2, <1>6, <2>2, <3>1 DEF Property
    <3>3. p = old
      BY <2>2, <2>3, <3>2 DEF Property
    <3>4. QED BY <3>1, <3>3
  <2>6. ReadOnly(q)
    BY <2>3, <2>4 DEF ReadOnly, Sealed, Sound
  <2>7. \A j \in Key : Sealed(props, j) => q[j] = props[j]
    BY <2>4, <2>5
  <2>8. QED BY <1>6, <2>4, <2>6, <2>7 DEF Keeps, Sound
<1>7. QED BY <1>4, <1>5, <1>6

LEMMA DeleteKeeps ==
    ASSUME NEW props, Sound(props), NEW k \in Key, props[k].present, props[k].configurable
    PROVE  Keeps(props, [props EXCEPT ![k] = Absent])
<1>1. PICK q : q = [props EXCEPT ![k] = Absent]
  OBVIOUS
<1>2. q \in PropertyList /\ q[k] = Absent /\ \A j \in Key \ {k} : q[j] = props[j]
  BY <1>1 DEF Sound, PropertyList
<1>3. ~q[k].present /\ ~Sealed(props, k)
  BY <1>2 DEF Absent, Sealed
<1>4. QED BY <1>1, <1>2, <1>3 DEF Keeps, Sound, ReadOnly, Sealed

-----------------------------------------------------------------------------
(* Reading along the prototype chain.                                      *)
Climbs(up, o, g, D) ==
    up = [n \in D |-> IF n = 0 THEN o ELSE IF up[n - 1] = Null THEN Null ELSE g[up[n - 1]]]

LEMMA Climbing ==
    ASSUME NEW N \in Nat, NEW o, NEW g
    PROVE  \E up : Climbs(up, o, g, 0 .. N)
<1>1. PICK T : T = {n \in 0 .. N : \E up : Climbs(up, o, g, 0 .. n)}
  OBVIOUS
<1>2. 0 \in T
  <2>1. PICK up : up = [n \in 0 .. 0 |-> o]
    OBVIOUS
  <2>2. Climbs(up, o, g, 0 .. 0)
    BY <2>1 DEF Climbs
  <2>3. QED BY <1>1, <2>2
<1>3. ASSUME NEW n \in 0 .. (N - 1), n \in T
      PROVE  n + 1 \in T
  <2>1. PICK old : Climbs(old, o, g, 0 .. n)
    BY <1>1, <1>3
  <2>2. PICK up : up = [m \in 0 .. (n + 1) |->
                          IF m = n + 1 THEN IF old[n] = Null THEN Null ELSE g[old[n]]
                          ELSE old[m]]
    OBVIOUS
  <2>3. \A m \in 0 .. n : m \in 0 .. (n + 1) /\ m # n + 1 /\ up[m] = old[m]
    BY <2>2
  <2>4. ASSUME NEW m \in 0 .. (n + 1)
        PROVE  up[m] = IF m = 0 THEN o ELSE IF up[m - 1] = Null THEN Null ELSE g[up[m - 1]]
    <3>1. CASE m = n + 1
      <4>1. m - 1 = n /\ n \in 0 .. n /\ m # 0
        BY <3>1
      <4>2. up[m] = IF old[n] = Null THEN Null ELSE g[old[n]]
        BY <2>2, <3>1
      <4>3. up[m - 1] = old[n]
        BY <2>3, <4>1
      <4>4. QED BY <4>1, <4>2, <4>3
    <3>2. CASE m \in 0 .. n
      <4>1. old[m] = IF m = 0 THEN o ELSE IF old[m - 1] = Null THEN Null ELSE g[old[m - 1]]
        BY <2>1, <3>2 DEF Climbs
      <4>2. up[m] = old[m]
        BY <2>3, <3>2
      <4>3. CASE m = 0
        BY <4>1, <4>2, <4>3
      <4>4. CASE m # 0
        <5>1. m - 1 \in 0 .. n
          BY <3>2, <4>4
        <5>2. up[m - 1] = old[m - 1]
          BY <2>3, <5>1
        <5>3. QED BY <4>1, <4>2, <5>2
      <4>5. QED BY <4>3, <4>4
    <3>3. QED BY <3>1, <3>2
  <2>5. Climbs(up, o, g, 0 .. (n + 1))
    BY <2>2, <2>4 DEF Climbs
  <2>6. QED BY <1>1, <2>5
<1>4. N \in T
  <2>1. \A n \in 0 .. (N - 1) : n \in T => n + 1 \in T
    BY <1>3
  <2>2. QED BY <1>2, <2>1, UpTo
<1>5. QED BY <1>1, <1>4

Climb(o, g) == CHOOSE up : Climbs(up, o, g, 0 .. Cardinality(Object))

LEMMA ChainIsClimb ==
    ASSUME NEW o
    PROVE  Chain(o) = Climb(o, proto)
BY DEF Chain, Climb, Climbs

LEMMA ClimbSteps ==
    ASSUME NEW o, NEW g
    PROVE  /\ Cardinality(Object) \in Nat
           /\ DOMAIN Climb(o, g) = 0 .. Cardinality(Object)
           /\ Climb(o, g)[0] = o
           /\ \A n \in 1 .. Cardinality(Object) :
                 Climb(o, g)[n] = IF Climb(o, g)[n - 1] = Null THEN Null ELSE g[Climb(o, g)[n - 1]]
<1>1. Cardinality(Object) \in Nat
  BY ObjectsAssumption, FS_CardinalityType
<1>2. PICK N : N = Cardinality(Object)
  OBVIOUS
<1>3. PICK up : up = Climb(o, g)
  OBVIOUS
<1>4. Climbs(up, o, g, 0 .. N)
  BY <1>1, <1>2, <1>3, Climbing DEF Climb
<1>5. DOMAIN up = 0 .. N
  BY <1>4 DEF Climbs
<1>6. \A n \in 0 .. N : up[n] = IF n = 0 THEN o ELSE IF up[n - 1] = Null THEN Null ELSE g[up[n - 1]]
  BY <1>4 DEF Climbs
<1>7. 0 \in 0 .. N /\ \A n \in 1 .. N : n \in 0 .. N /\ n # 0
  BY <1>1, <1>2
<1>8. up[0] = o
  BY <1>6, <1>7
<1>9. \A n \in 1 .. N : up[n] = IF up[n - 1] = Null THEN Null ELSE g[up[n - 1]]
  BY <1>6, <1>7
<1>10. \A n \in 1 .. N : Climb(o, g)[n] = IF Climb(o, g)[n - 1] = Null THEN Null
                                            ELSE g[Climb(o, g)[n - 1]]
  BY <1>3, <1>9
<1>11. QED BY <1>1, <1>2, <1>3, <1>5, <1>8, <1>10

(* The chain stays within the objects; without a prototype it is the       *)
(* object alone.                                                           *)
OnChain(up, o) ==
    /\ DOMAIN up \in SUBSET Nat /\ 0 \in DOMAIN up /\ up[0] = o
    /\ \A n \in DOMAIN up : up[n] \in Object \union {Null}

LEMMA ClimbStays ==
    ASSUME NEW o \in Object, NEW g \in [Object -> Object \union {Null}]
    PROVE  /\ OnChain(Climb(o, g), o)
           /\ g[o] = Null => \A n \in DOMAIN Climb(o, g) \ {0} : Climb(o, g)[n] = Null
<1>1. PICK up, N : up = Climb(o, g) /\ N = Cardinality(Object)
  OBVIOUS
<1>2. /\ N \in Nat /\ DOMAIN up = 0 .. N /\ up[0] = o
      /\ \A n \in 1 .. N : up[n] = IF up[n - 1] = Null THEN Null ELSE g[up[n - 1]]
  BY <1>1, ClimbSteps
<1>3. ASSUME NEW m \in 0 .. N
      PROVE  up[m] \in Object \union {Null} /\ (g[o] = Null /\ m # 0 => up[m] = Null)
  <2>1. PICK T : T = {n \in 0 .. m : /\ up[n] \in Object \union {Null}
                                     /\ g[o] = Null /\ n # 0 => up[n] = Null}
    OBVIOUS
  <2>2. 0 \in T
    BY <1>2, <2>1
  <2>3. ASSUME NEW n \in 0 .. (m - 1), n \in T
        PROVE  n + 1 \in T
    <3>1. n + 1 \in 1 .. N /\ n + 1 \in 0 .. m /\ (n + 1) - 1 = n
      BY <1>2
    <3>2. up[n + 1] = IF up[n] = Null THEN Null ELSE g[up[n]]
      BY <1>2, <3>1
    <3>3. up[n] \in Object \union {Null} /\ (g[o] = Null /\ n # 0 => up[n] = Null)
      BY <2>1, <2>3
    <3>4. up[n + 1] \in Object \union {Null}
      BY <3>2, <3>3
    <3>5. g[o] = Null => up[n + 1] = Null
      BY <1>2, <3>2, <3>3
    <3>6. QED BY <2>1, <3>1, <3>4, <3>5
  <2>4. m \in T
    <3>1. \A n \in 0 .. (m - 1) : n \in T => n + 1 \in T
      BY <2>3
    <3>2. m \in Nat
      OBVIOUS
    <3>3. QED BY <2>2, <3>1, <3>2, UpTo
  <2>5. QED BY <2>1, <2>4
<1>4. OnChain(up, o)
  <2>1. DOMAIN up \in SUBSET Nat /\ 0 \in DOMAIN up
    BY <1>2
  <2>2. QED BY <1>2, <1>3, <2>1 DEF OnChain
<1>5. g[o] = Null => \A n \in DOMAIN up \ {0} : up[n] = Null
  BY <1>2, <1>3
<1>6. QED BY <1>1, <1>4, <1>5

(* Prototypes lead to objects.                                             *)
Typed ==
    /\ proto \in [Object -> Object \union {Null}]
    /\ own \in [Object -> PropertyList]

LEMMA ChainStays ==
    ASSUME Typed, NEW o \in Object
    PROVE  /\ OnChain(Chain(o), o)
           /\ proto[o] = Null => \A n \in DOMAIN Chain(o) \ {0} : Chain(o)[n] = Null
<1>1. PICK g : g = proto
  OBVIOUS
<1>2. g \in [Object -> Object \union {Null}]
  BY <1>1 DEF Typed
<1>3. Chain(o) = Climb(o, g)
  BY <1>1, ChainIsClimb
<1>4. /\ OnChain(Climb(o, g), o)
      /\ g[o] = Null => \A n \in DOMAIN Climb(o, g) \ {0} : Climb(o, g)[n] = Null
  BY <1>2, ClimbStays
<1>5. QED BY <1>1, <1>3, <1>4

LEMMA Found ==
    ASSUME Typed, NEW o \in Object, NEW k \in Key
    PROVE  /\ FindProperty(o, k) \in Property \union {Absent}
           /\ proto[o] = Null => FindProperty(o, k) = own[o][k]
<1>1. PICK up, H : up = Chain(o) /\ H = Holders(o, k)
  OBVIOUS
<1>2. OnChain(up, o) /\ (proto[o] = Null => \A n \in DOMAIN up \ {0} : up[n] = Null)
  BY <1>1, ChainStays
<1>3. H = {n \in DOMAIN up : up[n] # Null /\ own[up[n]][k].present}
  BY <1>1 DEF Holders
<1>4. o # Null /\ own[o][k] \in Property \union {Absent}
  BY ObjectsAssumption DEF Typed, PropertyList
<1>5. CASE H = {}
  <2>1. FindProperty(o, k) = Absent
    BY <1>1, <1>5 DEF FindProperty
  <2>2. ~own[o][k].present
    BY <1>2, <1>3, <1>4, <1>5 DEF OnChain
  <2>3. own[o][k] = Absent
    BY <1>4, <2>2, PropertyFields
  <2>4. QED BY <2>1, <2>3
<1>6. CASE H # {}
  <2>1. H \in SUBSET Nat
    BY <1>2, <1>3 DEF OnChain
  <2>2. PICK n : n = CHOOSE i \in H : \A m \in H : i <= m
    OBVIOUS
  <2>3. n \in H
    <3>1. PICK x \in H : \A y \in H : ~(y < x)
      BY <1>6, <2>1, LeastElement
    <3>2. \A m \in H : x <= m
      BY <2>1, <3>1
    <3>3. QED BY <2>2, <3>2
  <2>4. FindProperty(o, k) = own[up[n]][k]
    BY <1>1, <1>6, <2>2 DEF FindProperty
  <2>5. up[n] \in Object
    BY <1>2, <1>3, <2>3 DEF OnChain
  <2>6. own[up[n]][k] \in Property \union {Absent}
    BY <2>5 DEF Typed, PropertyList
  <2>7. ASSUME proto[o] = Null
        PROVE  up[n] = o
    BY <1>2, <1>3, <2>3, <2>7 DEF OnChain
  <2>8. QED BY <2>4, <2>6, <2>7
<1>7. QED BY <1>5, <1>6

LEMMA ValueRead ==
    ASSUME Typed, NEW o \in Object, NEW k \in Key
    PROVE  GetValue(o, k) \in Value
<1>1. PICK p : p = FindProperty(o, k)
  OBVIOUS
<1>2. p \in Property \union {Absent}
  BY <1>1, Found
<1>3. p.present => p.value \in Value
  BY <1>2, PropertyFields DEF Property
<1>4. Undefined \in Value
  BY ValuesAssumption DEF Value
<1>5. QED BY <1>1, <1>3, <1>4 DEF GetValue

LEMMA LengthRead ==
    ASSUME Typed, NEW o \in Object
    PROVE  LengthOf(o) \in 0 .. Limit
BY BoundsAssumption DEF LengthOf, Number

(* The length of an array literal is that of its own list: it has no       *)
(* prototype.                                                              *)
LEMMA LiteralLength ==
    ASSUME Typed, NEW o \in Object, proto[o] = Null,
           NEW n \in 0 .. MaxLength, Built(own[o], n)
    PROVE  LengthOf(o) = n
<1>1. PICK v : v = GetValue(o, Length)
  OBVIOUS
<1>2. PICK p : p = own[o][Length]
  OBVIOUS
<1>3. FindProperty(o, Length) = p
  BY <1>2, Keys, Found
<1>4. v = IF p.present THEN p.value ELSE Undefined
  BY <1>1, <1>3 DEF GetValue
<1>5. IF n = 0 THEN ~p.present ELSE p.present /\ p.value = n
  BY <1>2 DEF Built
<1>6. IF n = 0 THEN v \notin Number ELSE v = n
  BY <1>4, <1>5, ValuesAssumption
<1>7. n \in Number /\ n < Limit /\ n \in Nat /\ Limit \in Nat
  BY BoundsAssumption DEF Number
<1>8. LengthOf(o) = IF v \in Number THEN IF v >= Limit THEN Limit ELSE v ELSE 0
  BY <1>1 DEF LengthOf
<1>9. QED BY <1>6, <1>7, <1>8

-----------------------------------------------------------------------------
(* The invariant: lists are sound, and a literal still being evaluated has *)
(* no prototype and as many elements as its length says.                   *)
Lists == \A o \in Object : Sound(own[o])
Literals == \A o \in building : proto[o] = Null /\ \E n \in 0 .. MaxLength : Built(own[o], n)
OInv == TypeOK /\ Lists /\ Literals

Advances == OInv' /\ \A o \in live : Keeps(own[o], own'[o])

LEMMA OInvTyped ==
    ASSUME OInv
    PROVE  Typed
BY DEF OInv, TypeOK, Typed, PropertyList

LEMMA NewAdvances ==
    ASSUME OInv, NEW o \in Object, NEW p, NEW props, Sound(props), New(o, p, props),
           \/ building' = building
           \/ building' = building \union {o} /\ p = Null /\ \E n \in 0 .. MaxLength : Built(props, n)
    PROVE  Advances
<1>1. /\ o \notin live /\ p \in live \union {Null} /\ live' = live \union {o}
      /\ proto' = [proto EXCEPT ![o] = p] /\ own' = [own EXCEPT ![o] = props]
      /\ building \subseteq live /\ live \subseteq Object
      /\ proto \in [Object -> live \union {Null}] /\ own \in [Object -> PropertyList]
      /\ props \in PropertyList
  BY DEF OInv, TypeOK, New, Usable, Sound, PropertyList
<1>2. own'[o] = props /\ proto'[o] = p
  BY <1>1
<1>3. \A x \in Object \ {o} : own'[x] = own[x] /\ proto'[x] = proto[x]
  BY <1>1
<1>4. TypeOK'
  <2>1. proto' \in [Object -> live' \union {Null}]
    BY <1>1
  <2>2. own' \in [Object -> PropertyList]
    BY <1>1
  <2>3. live' \subseteq Object /\ building' \subseteq live'
    BY <1>1
  <2>4. QED BY <2>1, <2>2, <2>3 DEF TypeOK, PropertyList
<1>5. Lists'
  BY <1>2, <1>3 DEF OInv, Lists
<1>6. ASSUME NEW x \in building'
      PROVE  proto'[x] = Null /\ \E n \in 0 .. MaxLength : Built(own'[x], n)
  <2>1. CASE x \in building
    <3>1. x \in Object \ {o}
      BY <1>1, <2>1
    <3>2. proto[x] = Null /\ \E n \in 0 .. MaxLength : Built(own[x], n)
      BY <2>1 DEF OInv, Literals
    <3>3. QED BY <1>3, <3>1, <3>2
  <2>2. CASE x \notin building
    BY <1>2, <1>6, <2>2
  <2>3. QED BY <2>1, <2>2
<1>7. Literals'
  BY <1>6 DEF Literals
<1>8. \A x \in live : Keeps(own[x], own'[x])
  <2> SUFFICES ASSUME NEW x \in live
               PROVE  Keeps(own[x], own'[x])
    OBVIOUS
  <2>1. x \in Object /\ own'[x] = own[x]
    BY <1>1, <1>3
  <2>2. Sound(own[x])
    BY <2>1 DEF OInv, Lists
  <2>3. QED BY <2>1, <2>2, KeepsItself
<1>9. QED BY <1>4, <1>5, <1>7, <1>8 DEF Advances, OInv

LEMMA WriteAdvances ==
    ASSUME OInv, NEW o \in live, NEW props, Keeps(own[o], props),
           own' = [own EXCEPT ![o] = props], UNCHANGED <<live, proto, building>>,
           o \in building => \E n \in 0 .. MaxLength : Built(props, n)
    PROVE  Advances
<1>1. /\ building \subseteq live /\ live \subseteq Object
      /\ proto \in [Object -> live \union {Null}] /\ own \in [Object -> PropertyList]
      /\ Sound(props) /\ props \in PropertyList
  BY DEF OInv, TypeOK, Keeps, Sound, PropertyList
<1>2. own'[o] = props /\ \A x \in Object \ {o} : own'[x] = own[x]
  BY <1>1
<1>3. TypeOK'
  <2>1. own' \in [Object -> PropertyList]
    BY <1>1
  <2>2. QED BY <1>1, <2>1 DEF TypeOK, PropertyList
<1>4. Lists'
  BY <1>1, <1>2 DEF OInv, Lists
<1>5. Literals'
  <2> SUFFICES ASSUME NEW x \in building
               PROVE  proto[x] = Null /\ \E n \in 0 .. MaxLength : Built(own'[x], n)
    BY DEF Literals
  <2>1. x \in Object /\ proto[x] = Null /\ \E n \in 0 .. MaxLength : Built(own[x], n)
    BY <1>1 DEF OInv, Literals
  <2>2. CASE x = o
    BY <1>2, <2>1, <2>2
  <2>3. CASE x # o
    BY <1>2, <2>1, <2>3
  <2>4. QED BY <2>2, <2>3
<1>6. \A x \in live : Keeps(own[x], own'[x])
  <2> SUFFICES ASSUME NEW x \in live
               PROVE  Keeps(own[x], own'[x])
    OBVIOUS
  <2>1. CASE x = o
    BY <1>2, <2>1
  <2>2. CASE x # o
    <3>1. x \in Object /\ own'[x] = own[x]
      BY <1>1, <1>2, <2>2
    <3>2. Sound(own[x])
      BY <3>1 DEF OInv, Lists
    <3>3. QED BY <3>1, <3>2, KeepsItself
  <2>3. QED BY <2>1, <2>2
<1>7. QED BY <1>3, <1>4, <1>5, <1>6 DEF Advances, OInv

(* Nothing but prototypes of finished objects, or which objects are        *)
(* finished, changes.                                                      *)
LEMMA ListsStayAdvances ==
    ASSUME OInv, UNCHANGED <<live, own>>, building' \subseteq building,
           proto' \in [Object -> live \union {Null}], \A x \in building' : proto'[x] = proto[x]
    PROVE  Advances
<1>1. TypeOK'
  BY DEF OInv, TypeOK
<1>2. Lists' /\ Literals'
  BY DEF OInv, Lists, Literals
<1>3. \A x \in live : Keeps(own[x], own'[x])
  BY KeepsItself DEF OInv, Lists, TypeOK
<1>4. QED BY <1>1, <1>2, <1>3 DEF Advances, OInv

LEMMA SpreadAdvances ==
    ASSUME OInv, NEW o \in Object, NEW src \in Object, ArraySpread(o, src)
    PROVE  Advances
<1>1. PICK m, seq, base : /\ m = LengthOf(src) /\ base = own[o]
                          /\ seq = [i \in 1 .. m |-> GetValue(src, i - 1)]
  OBVIOUS
<1>2. /\ o \in building /\ o \in live /\ LengthOf(o) + m <= MaxLength
      /\ own' = [own EXCEPT ![o] = FoldLeft(PushIn, base, seq)]
      /\ UNCHANGED <<live, proto, building>>
  BY <1>1 DEF ArraySpread, OInv, TypeOK
<1>3. Typed /\ m \in 0 .. Limit
  BY <1>1, OInvTyped, LengthRead
<1>4. DOMAIN seq = 1 .. m /\ \A i \in 1 .. m : seq[i] \in Value
  <2>1. ASSUME NEW i \in 1 .. m
        PROVE  seq[i] \in Value
    <3>1. i - 1 \in Key
      BY <1>3, BoundsAssumption DEF Index, Key
    <3>2. QED BY <1>1, <1>3, <3>1, ValueRead
  <2>2. QED BY <1>1, <2>1
<1>5. Sound(base)
  BY <1>1 DEF OInv, Lists
<1>6. PICK n \in 0 .. MaxLength : Built(base, n)
  BY <1>1, <1>2 DEF OInv, Literals
<1>7. LengthOf(o) = n
  BY <1>1, <1>2, <1>3, <1>6, LiteralLength DEF OInv, Literals
<1>8. m \in Nat /\ n + m <= MaxLength /\ n + m \in 0 .. MaxLength
  BY <1>2, <1>3, <1>7, BoundsAssumption
<1>9. PICK props : props = FoldLeft(PushIn, base, seq)
  OBVIOUS
<1>10. Built(props, n + m)
  BY <1>4, <1>6, <1>8, <1>9, PushesBuild
<1>11. Keeps(base, props)
  BY <1>4, <1>5, <1>8, <1>9, PushesKeep
<1>12. Keeps(own[o], props) /\ own' = [own EXCEPT ![o] = props]
  BY <1>1, <1>2, <1>9, <1>11
<1>13. QED BY <1>2, <1>8, <1>10, <1>12, WriteAdvances

LEMMA PushAdvances ==
    ASSUME OInv, NEW o \in Object, NEW v \in Plain, ArrayPush(o, v)
    PROVE  Advances
<1>1. PICK base, props : base = own[o] /\ props = PushIn(base, v)
  OBVIOUS
<1>2. /\ o \in building /\ o \in live /\ LengthOf(o) < MaxLength
      /\ own' = [own EXCEPT ![o] = props] /\ UNCHANGED <<live, proto, building>>
  BY <1>1 DEF ArrayPush, OInv, TypeOK
<1>3. v \in Value
  BY DEF Value
<1>4. Keeps(base, props)
  BY <1>1, <1>3, PushKeeps DEF OInv, Lists
<1>5. PICK n \in 0 .. MaxLength : Built(base, n)
  BY <1>1, <1>2 DEF OInv, Literals
<1>6. LengthOf(o) = n
  BY <1>1, <1>2, <1>5, OInvTyped, LiteralLength DEF OInv, Literals
<1>7. Built(props, n + 1) /\ n + 1 \in 0 .. MaxLength
  <2>1. n < MaxLength /\ n + 1 \in 0 .. MaxLength
    BY <1>2, <1>6, BoundsAssumption
  <2>2. QED BY <1>1, <1>3, <1>5, <2>1, PushBuilds
<1>8. Keeps(own[o], props)
  BY <1>1, <1>4
<1>9. QED BY <1>2, <1>7, <1>8, WriteAdvances

LEMMA ArrayOfAdvances ==
    ASSUME OInv, NEW o \in Object, NEW N \in Nat, NEW elements, DOMAIN elements = 1 .. N,
           \A i \in 1 .. N : elements[i] \in Plain, ArrayOf(o, elements)
    PROVE  Advances
<1>1. PICK props : props = FoldLeft(PushIn, NoProperties, elements)
  OBVIOUS
<1>2. \A i \in 1 .. N : elements[i] \in Value
  BY DEF Value
<1>3. Sound(props)
  BY <1>1, <1>2, Empty, PushesKeep DEF Keeps
<1>4. New(o, Null, props) /\ building' = building
  BY <1>1 DEF ArrayOf
<1>5. QED BY <1>3, <1>4, NewAdvances

LEMMA UsableWritten ==
    ASSUME OInv, NEW o \in Usable, NEW props, Keeps(own[o], props),
           own' = [own EXCEPT ![o] = props], UNCHANGED <<live, proto, building>>
    PROVE  Advances
BY WriteAdvances DEF Usable

LEMMA UsableList ==
    ASSUME OInv, NEW o \in Usable
    PROVE  o \in Object /\ Sound(own[o])
BY DEF OInv, Lists, TypeOK, Usable

LEMMA OInvInit == Init => OInv
<1> SUFFICES ASSUME Init
             PROVE  OInv
  OBVIOUS
<1>1. NoProperties \in PropertyList
  BY Empty DEF Sound
<1>2. TypeOK
  BY <1>1 DEF Init, TypeOK, PropertyList
<1>3. Lists /\ Literals
  BY Empty DEF Init, Lists, Literals
<1>4. QED BY <1>2, <1>3 DEF OInv

LEMMA OInvStep ==
    ASSUME OInv, [Next]_vars
    PROVE  Advances
<1>1. CASE UNCHANGED vars
  BY <1>1, ListsStayAdvances DEF vars, OInv, TypeOK
<1>2. ASSUME NEW o \in Object, NEW p \in Object \union {Null}, ObjectNew(o, p)
      PROVE  Advances
  BY <1>2, Empty, NewAdvances DEF ObjectNew
<1>3. ASSUME NEW o \in Object, NEW p \in Object \union {Null}, SetPrototype(o, p)
      PROVE  Advances
  <2>1. proto' \in [Object -> live \union {Null}] /\ \A x \in building : proto'[x] = proto[x]
    BY <1>3 DEF SetPrototype, Usable, OInv, TypeOK
  <2>2. UNCHANGED <<live, own, building>>
    BY <1>3 DEF SetPrototype
  <2>3. QED BY <2>1, <2>2, ListsStayAdvances
<1>4. ASSUME NEW o \in Object, ArrayOf(o, << >>)
      PROVE  Advances
  <2>1. DOMAIN << >> = 1 .. 0 /\ \A i \in 1 .. 0 : << >>[i] \in Plain
    OBVIOUS
  <2>2. QED BY <1>4, <2>1, ArrayOfAdvances
<1>5. ASSUME NEW o \in Object, NEW v \in Plain, ArrayOf(o, <<v>>)
      PROVE  Advances
  <2>1. DOMAIN <<v>> = 1 .. 1 /\ \A i \in 1 .. 1 : <<v>>[i] \in Plain
    OBVIOUS
  <2>2. QED BY <1>5, <2>1, ArrayOfAdvances
<1>6. ASSUME NEW o \in Object, NEW k \in Named, NEW v \in Stored, SetValue(o, k, v)
      PROVE  Advances
  <2>1. PICK props : props = SetIn(own[o], k, v)
    OBVIOUS
  <2>2. o \in Usable /\ own' = [own EXCEPT ![o] = props] /\ UNCHANGED <<live, proto, building>>
    BY <1>6, <2>1 DEF SetValue
  <2>3. Keeps(own[o], props)
    <3>1. PICK old : old = own[o]
      OBVIOUS
    <3>2. Sound(old) /\ k \in Key /\ v \in Value
      BY <2>2, <3>1, UsableList, ProgramAssumption
    <3>3. Keeps(old, SetIn(old, k, v))
      BY <3>2, SetInKeeps
    <3>4. QED BY <2>1, <3>1, <3>3
  <2>4. QED BY <2>2, <2>3, UsableWritten
<1>7. ASSUME NEW o \in Object, NEW k \in Named, NEW g \in Function \union {Null},
             NEW s \in Function \union {Null}, NEW e \in BOOLEAN, NEW c \in BOOLEAN,
             DefineAccessor(o, k, g, s, e, c)
      PROVE  Advances
  <2>1. PICK props : props = DefineAccessorIn(own[o], k, g, s, e, c)
    OBVIOUS
  <2>2. o \in Usable /\ own' = [own EXCEPT ![o] = props] /\ UNCHANGED <<live, proto, building>>
    BY <1>7, <2>1 DEF DefineAccessor
  <2>3. Keeps(own[o], props)
    <3>1. PICK old : old = own[o]
      OBVIOUS
    <3>2. Sound(old) /\ k \in Key
      BY <2>2, <3>1, UsableList, ProgramAssumption
    <3>3. Keeps(old, DefineAccessorIn(old, k, g, s, e, c))
      BY <3>2, DefineKeeps
    <3>4. QED BY <2>1, <3>1, <3>3
  <2>4. QED BY <2>2, <2>3, UsableWritten
<1>8. ASSUME NEW o \in Object, NEW k \in Named, Delete(o, k)
      PROVE  Advances
  <2>1. PICK old : old = own[o]
    OBVIOUS
  <2>2. PICK props : props = [old EXCEPT ![k] = Absent]
    OBVIOUS
  <2>3. /\ o \in Usable /\ old[k].present /\ old[k].configurable
        /\ own' = [own EXCEPT ![o] = props] /\ UNCHANGED <<live, proto, building>>
    BY <1>8, <2>1, <2>2 DEF Delete
  <2>4. Sound(old) /\ k \in Key
    BY <2>1, <2>3, UsableList, ProgramAssumption
  <2>5. Keeps(own[o], props)
    BY <2>1, <2>2, <2>3, <2>4, DeleteKeeps
  <2>6. QED BY <2>3, <2>5, UsableWritten
<1>9. ASSUME NEW o \in Object, BeginLiteral(o)
      PROVE  Advances
  <2>1. 0 \in 0 .. MaxLength /\ Built(NoProperties, 0) /\ Sound(NoProperties)
    BY Empty, BoundsAssumption
  <2>2. New(o, Null, NoProperties) /\ building' = building \union {o}
    BY <1>9 DEF BeginLiteral
  <2>3. QED BY <2>1, <2>2, NewAdvances
<1>10. ASSUME NEW o \in Object, EndLiteral(o)
       PROVE  Advances
  BY <1>10, ListsStayAdvances DEF EndLiteral, OInv, TypeOK
<1>11. CASE Literal
  BY <1>9, <1>10, <1>11, PushAdvances, SpreadAdvances DEF Literal
<1>12. CASE \E o \in Object, p \in Object \union {Null} : ObjectNew(o, p) \/ SetPrototype(o, p)
  BY <1>2, <1>3, <1>12
<1>13. CASE \E o \in Object, v \in Plain : ArrayOf(o, << >>) \/ ArrayOf(o, <<v>>)
  BY <1>4, <1>5, <1>13
<1>14. CASE \E o \in Object, k \in Named, v \in Stored : SetValue(o, k, v)
  BY <1>6, <1>14
<1>15. CASE \E o \in Object, k \in Named, g, s \in Function \union {Null}, e, c \in BOOLEAN :
               DefineAccessor(o, k, g, s, e, c)
  BY <1>7, <1>15
<1>16. CASE \E o \in Object, k \in Named : Delete(o, k)
  BY <1>8, <1>16
<1>17. QED BY <1>1, <1>11, <1>12, <1>13, <1>14, <1>15, <1>16 DEF Next

(* No call writes a sealed property, and a literal that is being built has *)
(* exactly the elements its length counts, so a spread appends without a   *)
(* gap whatever it reads.                                                  *)
THEOREM ListsAlways == Spec => []OInv
<1>1. OInv /\ [Next]_vars => OInv'
  BY OInvStep DEF Advances
<1>2. QED BY <1>1, OInvInit, PTL DEF Spec

(* Type correctness: prototypes are allocated, and every property has all  *)
(* its attributes, after any calls of the ABI.                             *)
THEOREM TypesAlways == Spec => []TypeOK
<1>1. OInv => TypeOK
  BY DEF OInv
<1>2. QED BY <1>1, ListsAlways, PTL

(* The elements of an array literal are 0 .. length - 1 without a gap, for *)
(* any values pushed and any objects spread, up to any length.             *)
THEOREM DenseAlways == Spec => []LiteralDense
<1>1. OInv => LiteralDense
  <2> SUFFICES ASSUME OInv, NEW o \in building, NEW i \in Index
               PROVE  own[o][i].present <=> i < LengthOf(o)
    BY DEF LiteralDense
  <2>1. o \in Object /\ proto[o] = Null
    BY DEF OInv, TypeOK, Literals
  <2>2. PICK n \in 0 .. MaxLength : Built(own[o], n)
    BY DEF OInv, Literals
  <2>3. LengthOf(o) = n
    BY <2>1, <2>2, OInvTyped, LiteralLength
  <2>4. QED BY <2>2, <2>3 DEF Built
<1>2. QED BY <1>1, ListsAlways, PTL

(* A property defined as not configurable stays as it is: sets, deletes,   *)
(* definitions and the array hooks leave it alone.                         *)
THEOREM SealedAlways == Spec => SealedStaysSealed
<1>1. OInv /\ [Next]_vars =>
         [\A o \in live, k \in Key :
             own[o][k].present /\ ~own[o][k].configurable => own'[o][k] = own[o][k]]_vars
  <2> SUFFICES ASSUME OInv, [Next]_vars, NEW o \in live, NEW k \in Key,
                      own[o][k].present, ~own[o][k].configurable
               PROVE  own'[o][k] = own[o][k]
    OBVIOUS
  <2>1. Keeps(own[o], own'[o])
    BY OInvStep DEF Advances
  <2>2. QED BY <2>1 DEF Keeps, Sealed
<1>2. QED BY <1>1, ListsAlways, PTL DEF Spec, SealedStaysSealed

=============================================================================
