----------------------------- MODULE CallContract -----------------------------
(***************************************************************************)
(* What a call means to a program, with the C stack, frames and depth      *)
(* counter of the native runtime abstracted away: the execution contexts   *)
(* of the language.  A call of a bound function is a call of the function  *)
(* at the end of its chain; a call that fails ends every context up to the *)
(* process; a tail call takes the place of its caller.                     *)
(*                                                                         *)
(* NativeCall is checked against this specification.                       *)
(***************************************************************************)
EXTENDS Naturals, Sequences

CONSTANTS
    Numbers,  \* primitive values
    Programs  \* the programs, records with the fields below

(* A program is strict or sloppy, and uses callables as values ("generic") *)
(* or not ("typed"); in a typed program nothing reads this.  limit is how  *)
(* many contexts the runtime admits above the process; lists, receivers,   *)
(* callables and objects bound what it passes and creates.                 *)
VARIABLES
    program,
    callables,  \* the callables created so far
    objects,    \* objects[n]: the callable whose prototype object n has
    contexts,   \* the running execution contexts, the process first
    control     \* what the top context is about

vars == <<program, callables, objects, contexts, control>>

-----------------------------------------------------------------------------
Undefined == [tag |-> "undefined", id |-> 0]
Object(n) == [tag |-> "object", id |-> n]
Callable(c) == [tag |-> "callable", id |-> c]
GlobalThis == Object(0)

Number(n) == [tag |-> "number", id |-> n]

Callables == 1 .. Len(callables)
Values ==
    {Undefined} \union {Number(n) : n \in Numbers}
    \union {Object(n) : n \in 1 .. Len(objects)} \union {Callable(c) : c \in Callables}
Uncallable == Values \ {Callable(c) : c \in Callables}
Receivers == {v \in Values : v = Undefined \/ v.tag \in program.receivers}
IsBound(c) == callables[c].kind = "bound"
Has(c, flag) == flag \in callables[c].flags

(* The end of a chain of bound functions, the receiver that the last of    *)
(* them fixes, and the arguments they put before those of the call.        *)
Chain ==
    LET chain[c \in Callables] ==
          IF ~IsBound(c) THEN [target |-> c, this |-> Undefined, bound |-> FALSE, arguments |-> <<>>]
          ELSE LET next == chain[callables[c].target]
               IN [target |-> next.target,
                   this |-> IF next.bound THEN next.this ELSE callables[c].this,
                   bound |-> TRUE,
                   arguments |-> next.arguments \o callables[c].arguments]
    IN chain

(* What a function sees as this, given what it was called on.              *)
ThisOf(f, receiver) ==
    IF program.path = "typed" THEN Undefined
    ELSE CASE Has(f, "lexical") -> callables[f].this
           [] ~Has(f, "lexical") /\ ~Has(f, "strict") /\ receiver = Undefined -> GlobalThis
           [] OTHER -> receiver

Context(callee, this, newTarget, arguments, receiver) ==
    [callee |-> callee, this |-> this, newTarget |-> newTarget, arguments |-> arguments,
     receiver |-> receiver]
Process == Context(0, Undefined, Undefined, <<>>, Undefined)

(* The context a call leads to.                                            *)
Calls(c, receiver, arguments) ==
    LET end == Chain[c]
    IN Context(end.target, ThisOf(end.target, IF end.bound THEN end.this ELSE receiver),
               Undefined, end.arguments \o arguments, Undefined)

(* The context that constructing an object leads to.                       *)
Constructs(c, object, arguments) ==
    LET end == Chain[c]
    IN Context(end.target, ThisOf(end.target, object), Callable(end.target),
               end.arguments \o arguments, object)

Run == [k |-> "run"]
Invoking(context) == [k |-> "invoke", context |-> context]
Completing(status, value) == [k |-> "complete", status |-> status, value |-> value]
Ended(how) == [k |-> "ended", how |-> how]
Fails == Completing(1, Undefined)

-----------------------------------------------------------------------------
Init ==
    /\ program \in Programs
    /\ callables = <<>>
    /\ objects = <<>>
    /\ contexts = <<Process>>
    /\ control = Run

Top == contexts[Len(contexts)]
Pop == SubSeq(contexts, 1, Len(contexts) - 1)
Inside == Len(contexts) > 1

(* A new function: an arrow keeps the this of the context it is made in,   *)
(* and strictness, which is about this, matters only where this is read.   *)
Create ==
    /\ control = Run
    /\ Len(callables) < program.callables
    /\ \E c \in {"function", "arrow"} :
         callables' = Append(callables,
            [kind |-> "native",
             flags |-> (IF c = "arrow" THEN {"lexical"} ELSE {"constructable"})
                         \union (IF program.path = "generic" /\ program.strict THEN {"strict"} ELSE {}),
             this |-> IF c = "arrow" THEN Top.this ELSE Undefined,
             target |-> 0, arguments |-> <<>>])
    /\ UNCHANGED <<program, objects, contexts, control>>

(* bind: a function to be called on a fixed receiver.                      *)
Bind ==
    /\ control = Run
    /\ UNCHANGED <<program, objects, contexts>>
    /\ \/ /\ UNCHANGED control
          /\ Len(callables) < program.callables
          /\ \E c \in Callables, this \in Receivers, a \in program.lists :
               callables' = Append(callables, [kind |-> "bound", flags |-> {}, this |-> this,
                                               target |-> c, arguments |-> a])
       \/ Uncallable # {} /\ UNCHANGED callables /\ control' = Fails

Call ==
    /\ control = Run
    /\ UNCHANGED <<program, callables, objects, contexts>>
    /\ \/ \E c \in Callables, r \in Receivers, a \in program.lists : control' = Invoking(Calls(c, r, a))
       \/ Uncallable # {} /\ control' = Fails

(* In a typed program the compiler names the function.                     *)
CallDirect ==
    /\ control = Run
    /\ program.path = "typed"
    /\ UNCHANGED <<program, callables, objects, contexts>>
    /\ \E a \in program.lists : control' = Invoking(Context(0, Undefined, Undefined, a, Undefined))

TailCall ==
    /\ control = Run
    /\ program.path = "typed"
    /\ Inside
    /\ UNCHANGED <<program, callables, objects>>
    /\ contexts' = Pop
    /\ \E a \in program.lists : control' = Invoking(Context(0, Undefined, Undefined, a, Undefined))

Constructable(c) == Has(Chain[c].target, "constructable")
Construct ==
    /\ control = Run
    /\ UNCHANGED <<program, callables, contexts>>
    /\ \/ /\ Len(objects') = Len(objects) + 1
          /\ Len(objects) < program.objects
          /\ \E c \in Callables, a \in program.lists :
               /\ Constructable(c)
               /\ objects' = Append(objects, Chain[c].target)
               /\ control' = Invoking(Constructs(c, Object(Len(objects) + 1), a))
       \/ /\ Uncallable # {} \/ \E c \in Callables : ~Constructable(c)
          /\ UNCHANGED objects
          /\ control' = Fails

(* The context begins, unless the limit is reached.                        *)
Enter ==
    /\ control.k = "invoke"
    /\ IF Len(contexts) - 1 < program.limit
       THEN contexts' = Append(contexts, control.context) /\ control' = Run
       ELSE control' = Ended("overflow") /\ UNCHANGED contexts
    /\ UNCHANGED <<program, callables, objects>>

(* A constructor that returns no object returns the one it was given.      *)
Return ==
    /\ control = Run
    /\ Inside
    /\ UNCHANGED <<program, callables, objects>>
    /\ contexts' = Pop
    /\ \E v \in Values :
         control' = Completing(0, IF Top.receiver # Undefined /\ v.tag \notin {"object", "callable"}
                                  THEN Top.receiver ELSE v)

Throw ==
    /\ control = Run
    /\ UNCHANGED <<program, callables, objects>>
    /\ IF Inside THEN contexts' = Pop /\ \E v \in Values : control' = Completing(1, v)
       ELSE control' = Ended("uncaught") /\ UNCHANGED contexts

(* The caller goes on with a value, and ends with an exception.            *)
Resume ==
    /\ control.k = "complete"
    /\ control.status = 0
    /\ control' = Run
    /\ UNCHANGED <<program, callables, objects, contexts>>

Unwind ==
    /\ control.k = "complete"
    /\ control.status = 1
    /\ IF Inside THEN contexts' = Pop /\ UNCHANGED control
       ELSE control' = Ended("uncaught") /\ UNCHANGED contexts
    /\ UNCHANGED <<program, callables, objects>>

Exit ==
    /\ control = Run
    /\ ~Inside
    /\ control' = Ended("exit")
    /\ UNCHANGED <<program, callables, objects, contexts>>

Next ==
    \/ Create \/ Bind \/ Call \/ CallDirect \/ TailCall \/ Construct
    \/ Enter \/ Return \/ Throw \/ Resume \/ Unwind \/ Exit

Spec == Init /\ [][Next]_vars

=============================================================================
