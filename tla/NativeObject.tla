---------------------------- MODULE NativeObject ----------------------------
(***************************************************************************)
(* The object ABI of the native runtime, runtime/native/object_abi.c:      *)
(* objects with own properties and a prototype pointer, and the array      *)
(* hooks built on them.  The caller is left open: it may make any call of  *)
(* the ABI with the objects it holds, except that array_push and           *)
(* array_spread are emitted only for an array literal that is still being  *)
(* evaluated (lower_array).                                                *)
(*                                                                         *)
(* The own property list of an object becomes a function from keys; NULL   *)
(* pointers become Null.  A number matters only as a length, and indices   *)
(* are the keys that are numbers.                                          *)
(***************************************************************************)
EXTENDS Naturals, FiniteSets, SequencesExt

CONSTANTS
    Object,     \* addresses ecmora_object_new may return
    Name,       \* property names other than "length" and indices
    Length,     \* the key "length"
    Plain,      \* values that are not numbers
    Undefined,  \* the zeroed EcmoraValue
    Function,   \* callables, used as getters and setters
    Null,       \* the NULL pointer, of whatever type
    Named,      \* keys the program names in its own stores and definitions
    Stored,     \* values it stores there
    Limit,      \* UINT32_MAX
    MaxLength   \* bound: length of the arrays a behaviour builds

Index == 0 .. Limit
Key == Name \union {Length} \union Index
Number == 0 .. (Limit + 1)
Value == Plain \union Number

ASSUME ObjectsAssumption == Null \notin Object /\ IsFiniteSet(Object)
ASSUME KeysAssumption == Length \notin Index
ASSUME ValuesAssumption == Undefined \in Plain /\ Plain \intersect Number = {}
ASSUME ProgramAssumption == Named \subseteq Key /\ Stored \subseteq Value
ASSUME BoundsAssumption == Limit \in Nat /\ MaxLength \in Nat /\ MaxLength < Limit

VARIABLES
    live,       \* allocated objects
    proto,      \* proto[o], the prototype pointer
    own,        \* own[o], the property list
    building    \* array literals whose elements are still being evaluated

vars == <<live, proto, own, building>>

Absent == [present |-> FALSE]
Property == [present : {TRUE}, value : Value,
             getter : Function \union {Null}, setter : Function \union {Null},
             enumerable : BOOLEAN, configurable : BOOLEAN, writable : BOOLEAN]
NoProperties == [k \in Key |-> Absent]
NewProperty(v) == [present |-> TRUE, value |-> v, getter |-> Null, setter |-> Null,
                   enumerable |-> TRUE, configurable |-> TRUE, writable |-> TRUE]

TypeOK ==
    /\ live \subseteq Object
    /\ proto \in [Object -> live \union {Null}]
    /\ own \in [Object -> [Key -> Property \union {Absent}]]
    /\ building \subseteq live

Init ==
    /\ live = {}
    /\ proto = [o \in Object |-> Null]
    /\ own = [o \in Object |-> NoProperties]
    /\ building = {}

-----------------------------------------------------------------------------
(* Walking the prototype chain.                                            *)

(* The walk from p visits o.                                               *)
Closed(S) == \A x \in S : proto[x] \in S \union {Null}
Reaches(p, o) == \A S \in SUBSET Object : p \in S /\ Closed(S) => o \in S

(* find_property: the first object on the chain that has the key.          *)
Chain(o) ==
    LET up[n \in 0 .. Cardinality(Object)] ==
            IF n = 0 THEN o ELSE IF up[n - 1] = Null THEN Null ELSE proto[up[n - 1]]
    IN up

Holders(o, k) == {n \in DOMAIN Chain(o) : Chain(o)[n] # Null /\ own[Chain(o)[n]][k].present}

FindProperty(o, k) ==
    IF Holders(o, k) = {} THEN Absent
    ELSE own[Chain(o)[CHOOSE n \in Holders(o, k) : \A m \in Holders(o, k) : n <= m]][k]

(* ecmora_object_get_value reads the value field, whatever the getter.     *)
GetValue(o, k) ==
    IF FindProperty(o, k).present THEN FindProperty(o, k).value ELSE Undefined

(* ecmora_object_length.                                                   *)
LengthOf(o) ==
    IF GetValue(o, Length) \in Number
    THEN IF GetValue(o, Length) >= Limit THEN Limit ELSE GetValue(o, Length)
    ELSE 0

-----------------------------------------------------------------------------
(* Writing own properties, as functions of the property list.              *)

SetIn(props, k, v) ==
    IF ~props[k].present THEN [props EXCEPT ![k] = NewProperty(v)]
    ELSE IF props[k].writable THEN [props EXCEPT ![k].value = v]
    ELSE props

(* ecmora_object_set_index on an object without a prototype, as array      *)
(* literals, rest arrays and arguments objects are.                        *)
OwnLength(props) ==
    LET v == IF props[Length].present THEN props[Length].value ELSE Undefined
    IN IF v \in Number THEN v ELSE 0

(* Variants with a plausible defect, which the properties must rule out,   *)
(* stand before the definition they vary.                                  *)
SetIndexInPastLength(props, i, v) ==
    LET length == IF OwnLength(props) < Limit THEN OwnLength(props) ELSE 0
        stored == SetIn(props, i, v)
    IN IF i > length THEN SetIn(stored, Length, i + 1) ELSE stored

SetIndexIn(props, i, v) ==
    LET length == IF OwnLength(props) < Limit THEN OwnLength(props) ELSE 0
        stored == SetIn(props, i, v)
    IN IF i >= length THEN SetIn(stored, Length, i + 1) ELSE stored

PushIn(props, v) ==
    SetIndexIn(props, IF OwnLength(props) < Limit THEN OwnLength(props) ELSE Limit, v)

DefineAccessorIn(props, k, g, s, enumerable, configurable) ==
    LET old == IF props[k].present THEN props[k] ELSE NewProperty(Undefined)
        refused == /\ ~old.configurable
                   /\ \/ old.enumerable # enumerable
                      \/ configurable
                      \/ g # Null /\ old.getter # g
                      \/ s # Null /\ old.setter # s
    IN IF refused THEN props
       ELSE [props EXCEPT ![k] =
               [old EXCEPT !.getter = IF g # Null THEN g ELSE @,
                           !.setter = IF s # Null THEN s ELSE @,
                           !.enumerable = enumerable,
                           !.configurable = configurable,
                           !.writable = FALSE]]

-----------------------------------------------------------------------------
(* The ABI.                                                                *)

Usable == live \ building

New(o, p, props) ==
    /\ o \in Object \ live
    /\ p \in Usable \union {Null}
    /\ live' = live \union {o}
    /\ proto' = [proto EXCEPT ![o] = p]
    /\ own' = [own EXCEPT ![o] = props]

ObjectNew(o, p) == New(o, p, NoProperties) /\ UNCHANGED building

(* ecmora_arguments_object and ecmora_rest_array.                          *)
ArrayOf(o, elements) ==
    /\ New(o, Null, FoldLeft(PushIn, NoProperties, elements))
    /\ UNCHANGED building

SetPrototypeChecksParent(o, p) ==
    /\ o \in Usable
    /\ p \in Usable \union {Null}
    /\ p # o
    /\ proto' = [proto EXCEPT ![o] = p]
    /\ UNCHANGED <<live, own, building>>

(* A cycle is refused without a word.                                      *)
SetPrototype(o, p) ==
    /\ o \in Usable
    /\ p \in Usable \union {Null}
    /\ p = Null \/ ~Reaches(p, o)
    /\ proto' = [proto EXCEPT ![o] = p]
    /\ UNCHANGED <<live, own, building>>

SetValue(o, k, v) ==
    /\ o \in Usable
    /\ own' = [own EXCEPT ![o] = SetIn(@, k, v)]
    /\ UNCHANGED <<live, proto, building>>

DefineAccessor(o, k, g, s, enumerable, configurable) ==
    /\ o \in Usable
    /\ own' = [own EXCEPT ![o] = DefineAccessorIn(@, k, g, s, enumerable, configurable)]
    /\ UNCHANGED <<live, proto, building>>

DeleteAnything(o, k) ==
    /\ o \in Usable
    /\ own' = [own EXCEPT ![o][k] = Absent]
    /\ UNCHANGED <<live, proto, building>>

Delete(o, k) ==
    /\ o \in Usable
    /\ own[o][k].present /\ own[o][k].configurable
    /\ own' = [own EXCEPT ![o][k] = Absent]
    /\ UNCHANGED <<live, proto, building>>

BeginLiteral(o) ==
    /\ New(o, Null, NoProperties)
    /\ building' = building \union {o}

ArrayPush(o, v) ==
    /\ o \in building
    /\ LengthOf(o) < MaxLength
    /\ own' = [own EXCEPT ![o] = PushIn(@, v)]
    /\ UNCHANGED <<live, proto, building>>

ArraySpread(o, src) ==
    /\ o \in building
    /\ src \in Usable
    /\ LengthOf(o) + LengthOf(src) <= MaxLength
    /\ own' = [own EXCEPT ![o] =
          FoldLeft(PushIn, @, [i \in 1 .. LengthOf(src) |-> GetValue(src, i - 1)])]
    /\ UNCHANGED <<live, proto, building>>

EndLiteral(o) ==
    /\ o \in building
    /\ building' = building \ {o}
    /\ UNCHANGED <<live, proto, own>>

-----------------------------------------------------------------------------
Literal == \E o \in Object :
    \/ BeginLiteral(o) \/ EndLiteral(o)
    \/ \E v \in Plain : ArrayPush(o, v)
    \/ \E src \in Object : ArraySpread(o, src)

Next ==
    \/ \E o \in Object, p \in Object \union {Null} : ObjectNew(o, p) \/ SetPrototype(o, p)
    \/ \E o \in Object, v \in Plain : ArrayOf(o, << >>) \/ ArrayOf(o, <<v>>)
    \/ \E o \in Object, k \in Named, v \in Stored : SetValue(o, k, v)
    \/ \E o \in Object, k \in Named, g, s \in Function \union {Null}, e, c \in BOOLEAN :
          DefineAccessor(o, k, g, s, e, c)
    \/ \E o \in Object, k \in Named : Delete(o, k)
    \/ Literal

Spec == Init /\ [][Next]_vars

-----------------------------------------------------------------------------
(* Correctness.                                                            *)

(* find_property, instanceof and set_prototype itself walk the chain with  *)
(* no limit: they end because no object is ever on its own chain, however  *)
(* prototypes are replaced.                                                *)
PrototypesAcyclic ==
    \A o \in Object : proto[o] # Null => ~Reaches(proto[o], o)

(* A property defined as not configurable is frozen: no sequence of sets,  *)
(* deletes and definitions changes or removes it.                          *)
SealedStaysSealed ==
    [][\A o \in live, k \in Key :
          own[o][k].present /\ ~own[o][k].configurable => own'[o][k] = own[o][k]]_vars

(* The elements of an array literal are 0 .. length - 1 without a gap,     *)
(* also when it spreads an object whose length and indices disagree.       *)
LiteralDense ==
    \A o \in building : \A i \in Index :
        own[o][i].present <=> i < LengthOf(o)

=============================================================================
