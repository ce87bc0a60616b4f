--------------------------------- MODULE Heap ---------------------------------
(***************************************************************************)
(* ecmora-value: the values of a program, and the objects, arrays and      *)
(* functions some of them refer to.  A heap h is a function from the datum *)
(* of a reference to what it refers to.                                    *)
(*                                                                         *)
(* Left out: attributes of properties, which a program of this language    *)
(* level cannot change, and the properties of strings.                     *)
(***************************************************************************)
EXTENDS Integers, Sequences, FiniteSets, TLC, SequencesExt

(* Values carry their type tag.                                            *)
Value(type, datum) == [type |-> type, datum |-> datum]
Undefined == Value("Undefined", "")
Null == Value("Null", "")
True == Value("Bool", "true")
False == Value("Bool", "false")
Bool(b) == IF b THEN True ELSE False
Number(datum) == Value("Number", datum)
String(datum) == Value("String", datum)
IsReference(v) == v.type \in {"Object", "Array", "Function"}

Truthy(v) ==
    CASE v.type = "Bool" -> v.datum = "true"
      [] v.type = "Number" -> v.datum # "0"
      [] v.type = "String" -> v.datum # ""
      [] OTHER -> IsReference(v)

TypeOf(v) ==
    CASE v.type = "Undefined" -> "undefined"
      [] v.type = "Bool" -> "boolean"
      [] v.type = "Number" -> "number"
      [] v.type = "String" -> "string"
      [] v.type = "Function" -> "function"
      [] OTHER -> "object"

(* The key a value names (to_string).                                      *)
KeyOf(v) ==
    CASE v.type = "Undefined" -> "undefined"
      [] v.type = "Null" -> "null"
      [] OTHER -> v.datum

(* Bounds: the keys programs use, sorted, and the elements of an array.    *)
Keys == <<"0", "1", "2", "3", "4", "7", "a", "b", "c", "length", "x", "y">>
MaxIndex == 4
IsIndex(key) == \E n \in 0 .. MaxIndex : ToString(n) = key
IndexOf(key) == CHOOSE n \in 0 .. MaxIndex : ToString(n) = key

Nowhere == Undefined              \* no prototype, no getter, no setter
Hole == Value("Hole", "")         \* an element that is not there
NoKeys == [key \in {} |-> Undefined]

ObjectData(properties, accessors, prototype) ==
    [properties |-> properties, accessors |-> accessors, prototype |-> prototype]
NewObject == ObjectData(NoKeys, NoKeys, Nowhere)
Accessor(getter, setter) == [getter |-> getter, setter |-> setter]
NoAccessor == Accessor(Nowhere, Nowhere)

Empty == [id \in {} |-> NewObject]
NextReference(h, type) == Value(type, ToString(Cardinality(DOMAIN h) + 1))
Allocate(h, v, data) == (v.datum :> data) @@ h
Without(f, key) == [k \in DOMAIN f \ {key} |-> f[k]]

-----------------------------------------------------------------------------
RECURSIVE GetProperty(_, _, _), GetAccessor(_, _, _), HasProperty(_, _, _), Chain(_, _)

GetProperty(h, v, key) ==
    CASE v.type = "Object" ->
           LET o == h[v.datum]
           IN IF key \in DOMAIN o.properties THEN o.properties[key]
              ELSE IF key \in DOMAIN o.accessors THEN Undefined
              ELSE GetProperty(h, o.prototype, key)
      [] v.type = "Array" ->
           LET items == h[v.datum]
           IN IF key = "length" THEN Number(ToString(Len(items)))
              ELSE IF IsIndex(key) /\ IndexOf(key) < Len(items) /\ items[IndexOf(key) + 1] # Hole
                   THEN items[IndexOf(key) + 1]
              ELSE Undefined
      [] OTHER -> Undefined

(* Looked for up the prototypes, whatever data properties are on the way.  *)
GetAccessor(h, v, key) ==
    IF v.type # "Object" THEN NoAccessor
    ELSE IF key \in DOMAIN h[v.datum].accessors THEN h[v.datum].accessors[key]
    ELSE GetAccessor(h, h[v.datum].prototype, key)

HasProperty(h, v, key) ==
    CASE v.type = "Object" ->
           \/ key \in DOMAIN h[v.datum].properties \union DOMAIN h[v.datum].accessors
           \/ HasProperty(h, h[v.datum].prototype, key)
      [] v.type = "Array" ->
           \/ key = "length"
           \/ IsIndex(key) /\ IndexOf(key) < Len(h[v.datum]) /\ h[v.datum][IndexOf(key) + 1] # Hole
      [] OTHER -> FALSE

OwnPropertyKeys(h, v) ==
    LET Owns(key) ==
          CASE v.type = "Object" -> key \in DOMAIN h[v.datum].properties \union DOMAIN h[v.datum].accessors
            [] v.type = "Array" -> key # "length" /\ HasProperty(h, v, key)
            [] OTHER -> FALSE
    IN SelectSeq(Keys, Owns)

(* An array of n elements that begins with the given ones.                 *)
Resized(items, n) == [i \in 1 .. n |-> IF i <= Len(items) THEN items[i] ELSE Hole]

(* set_property: no heap where it fails.                                   *)
NoHeap == <<>>
SetProperty(h, v, key, new) ==
    CASE v.type = "Object" ->
           LET o == h[v.datum]
           IN IF key \in DOMAIN o.accessors /\ o.accessors[key].setter = Nowhere THEN NoHeap
              ELSE [h EXCEPT ![v.datum].properties = (key :> new) @@ @,
                             ![v.datum].accessors = Without(@, key)]
      [] v.type = "Array" ->
           IF key = "length"
           THEN IF new.type = "Number" /\ IsIndex(new.datum)
                THEN [h EXCEPT ![v.datum] = Resized(@, IndexOf(new.datum))] ELSE NoHeap
           ELSE IF ~IsIndex(key) THEN NoHeap
           ELSE [h EXCEPT ![v.datum] =
                   [Resized(@, Max({Len(@), IndexOf(key) + 1})) EXCEPT ![IndexOf(key) + 1] = new]]
      [] OTHER -> NoHeap

(* Half of an accessor leaves the other half.                              *)
DefineAccessor(h, v, key, getter, setter) ==
    LET o == h[v.datum]
        previous == IF key \in DOMAIN o.accessors THEN o.accessors[key] ELSE NoAccessor
        Either(new, old) == IF new = Nowhere THEN old ELSE new
    IN [h EXCEPT ![v.datum] =
          ObjectData(Without(o.properties, key),
                     (key :> Accessor(Either(getter, previous.getter), Either(setter, previous.setter)))
                       @@ o.accessors,
                     o.prototype)]

Chain(h, v) == IF v.type # "Object" THEN {} ELSE {v} \union Chain(h, h[v.datum].prototype)
SetPrototype(h, v, prototype) ==
    IF v \in Chain(h, prototype) THEN NoHeap ELSE [h EXCEPT ![v.datum].prototype = prototype]

DeleteProperty(h, v, key) ==
    CASE v.type = "Object" ->
           [h EXCEPT ![v.datum].properties = Without(@, key), ![v.datum].accessors = Without(@, key)]
      [] v.type = "Array" /\ IsIndex(key) /\ IndexOf(key) < Len(h[v.datum]) ->
           [h EXCEPT ![v.datum][IndexOf(key) + 1] = Hole]
      [] OTHER -> h
=============================================================================
