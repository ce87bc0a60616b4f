------------------------------ MODULE NativeCall ------------------------------
(***************************************************************************)
(* Calls in a native program: callable_abi.c, frame_abi.c, recursion_abi.c *)
(* and the code that codegen-llvm emits around a call.  stack is the C     *)
(* stack: the process entry, activations of compiled functions (code), and *)
(* the runtime functions that call them: ecmora_dispatch_native with its   *)
(* InvocationFrame (frame), ecmora_callable_dispatch of a bound function   *)
(* (bound) and ecmora_callable_construct (construct).  control says what   *)
(* the top of the stack is about: it runs, it calls into the runtime, it   *)
(* jumps to a compiled function, or a callee returned to it.               *)
(*                                                                         *)
(* The program is open: at any point it makes any call its lowering emits. *)
(* A program of the typed Lowerer names the functions it calls or calls    *)
(* closures, and reads no this; one of the GenericLowerer calls values.    *)
(* A spread argument contributes its elements, or nothing when it cannot   *)
(* be spread, so that an argument list is any sequence of values.  Left    *)
(* out: NULL arguments, which emitted code does not pass; captures; the    *)
(* receiver of a sloppy function that is a primitive, which is not boxed;  *)
(* and new prototypes stored into a callable.                              *)
(***************************************************************************)
EXTENDS Integers, Sequences, FiniteSets

CONSTANTS
    Numbers,  \* primitive values
    Programs  \* bounds for the kinds of programs, see ProgramType

ValueType == [tag : {"undefined", "number", "object", "callable"}, id : Nat]

(* A program: how it was lowered and whether it is strict, how many        *)
(* compiled functions may be active (512 in the code), and bounds: the     *)
(* argument lists it passes, what kinds of values besides undefined it     *)
(* calls functions on, and the callables and the objects it creates.       *)
ProgramType ==
    [path : {"typed", "generic"}, strict : BOOLEAN, limit : Nat,
     lists : SUBSET Seq(ValueType),
     receivers : SUBSET {"object", "callable"}, callables : Nat, objects : Nat]

ASSUME NumbersAssumption == Numbers \subseteq Nat
ASSUME ProgramsAssumption == \A p \in Programs : p \in ProgramType

VARIABLES
    program,        \* the program that runs
    callables,      \* the heap's EcmoraCallable records
    objects,        \* objects[n]: the callable whose prototype object n has
    stack,          \* the C stack
    invocationTop,  \* ecmora_invocation_top: a position in stack, 0 for NULL
    depth,          \* ecmora_recursion_depth
    tailArgv,       \* ecmora_tail_argv_buffer
    control         \* what the top of the stack is about

heap == <<program, callables, objects>>
vars == <<program, callables, objects, stack, invocationTop, depth, tailArgv, control>>

-----------------------------------------------------------------------------
Undefined == [tag |-> "undefined", id |-> 0]
Number(n) == [tag |-> "number", id |-> n]
Object(n) == [tag |-> "object", id |-> n]
Callable(c) == [tag |-> "callable", id |-> c]
GlobalThis == Object(0)   \* ecmora_global_this_object

Callables == 1 .. Len(callables)
Values ==
    {Undefined} \union {Number(n) : n \in Numbers}
    \union {Object(n) : n \in 1 .. Len(objects)} \union {Callable(c) : c \in Callables}

Receivers == {v \in Values : v = Undefined \/ v.tag \in program.receivers}

IsCallable(v) == v.tag = "callable" /\ v.id \in Callables
IsObjectLike(v) == v.tag \in {"object", "callable"}
IsBound(c) == callables[c].kind = "bound"
Has(c, flag) == flag \in callables[c].flags

Native(flags, this) ==
    [kind |-> "native", flags |-> flags, this |-> this, target |-> 0, arguments |-> <<>>]
BoundTo(target, this, arguments) ==
    [kind |-> "bound", flags |-> {}, this |-> this, target |-> target, arguments |-> arguments]

(* Records of the stack.                                                   *)
Record(kind, callee, this, newTarget, arguments, previous) ==
    [kind |-> kind, callee |-> callee, this |-> this, newTarget |-> newTarget,
     arguments |-> arguments, previous |-> previous]
Entry == Record("entry", 0, Undefined, Undefined, <<>>, 0)
Code(closure, parameters) == Record("code", closure, Undefined, Undefined, parameters, 0)
FrameForgetful(c, this, newTarget) == Record("frame", c, this, newTarget, <<>>, 0)
Frame(c, this, newTarget) == Record("frame", c, this, newTarget, <<>>, invocationTop)
BoundDispatch(c) == Record("bound", c, Undefined, Undefined, <<>>, 0)
Constructing(c, receiver) == Record("construct", c, receiver, Undefined, <<>>, 0)

Run == [k |-> "run"]
Dispatch(v, this, newTarget, constructing, argv) ==
    [k |-> "dispatch", callee |-> v, this |-> this, newTarget |-> newTarget,
     constructing |-> constructing, argv |-> argv]
Jump(closure, argv) ==
    [k |-> "jump", closure |-> closure, argc |-> Len(argv), argv |-> argv, tail |-> FALSE]
TailJump(argc) == [k |-> "jump", closure |-> 0, argc |-> argc, argv |-> <<>>, tail |-> TRUE]
Returned(status, value) == [k |-> "returned", status |-> status, value |-> value]
Ended(how) == [k |-> "ended", how |-> how]
Fails == Returned(1, Undefined)

Top == stack[Len(stack)]
Pop == SubSeq(stack, 1, Len(stack) - 1)
Running == control = Run
InFunction == Top.kind = "code"

(* ecmora_recursion_leave                                                  *)
Left == IF depth # 0 THEN depth - 1 ELSE 0

Init ==
    /\ program \in Programs
    /\ callables = <<>>
    /\ objects = <<>>
    /\ stack = <<Entry>>
    /\ invocationTop = 0
    /\ depth = 0
    /\ tailArgv = <<>>
    /\ control = Run

-----------------------------------------------------------------------------
(* ecmora_current_this                                                     *)
CurrentThis == IF invocationTop = 0 THEN Undefined ELSE stack[invocationTop].this

(* ecmora_closure_new and ecmora_closure_new_ex, with the flags emitted for *)
(* a function and for an arrow function.  The typed lowerer knows neither   *)
(* flag and makes every closure constructable.                              *)
Create(flags, this) ==
    /\ Running
    /\ Len(callables) < program.callables
    /\ callables' = Append(callables, Native(flags, this))
    /\ UNCHANGED <<program, objects, stack, invocationTop, depth, tailArgv, control>>

StrictFlag == IF program.strict THEN {"strict"} ELSE {}
NewClosure == program.path = "typed" /\ Create({"constructable"}, Undefined)
NewFunction == program.path = "generic" /\ Create({"constructable"} \union StrictFlag, Undefined)
NewArrow == program.path = "generic" /\ Create({"lexical"} \union StrictFlag, CurrentThis)

(* ecmora_callable_bind_value                                              *)
BindValue(v, this, arguments) ==
    /\ Running
    /\ program.path = "generic"
    /\ \/ /\ IsCallable(v)
          /\ Len(callables) < program.callables
          /\ callables' = Append(callables, BoundTo(v.id, this, arguments))
          /\ UNCHANGED control
       \/ /\ ~IsCallable(v)
          /\ control' = Fails
          /\ UNCHANGED callables
    /\ UNCHANGED <<program, objects, stack, invocationTop, depth, tailArgv>>

-----------------------------------------------------------------------------
(* Calls as emitted.  The arguments lie on the caller's stack.             *)
CallDirect(arguments) ==
    /\ Running
    /\ program.path = "typed"
    /\ control' = Jump(0, arguments)
    /\ UNCHANGED <<heap, stack, invocationTop, depth, tailArgv>>

(* ecmora_closure_call                                                     *)
CallIndirect(c, arguments) ==
    /\ Running
    /\ program.path = "typed"
    /\ control' = Dispatch(Callable(c), Undefined, Undefined, FALSE, arguments)
    /\ UNCHANGED <<heap, stack, invocationTop, depth, tailArgv>>

CallValue(v, receiver, arguments) ==
    /\ Running
    /\ program.path = "generic"
    /\ control' = Dispatch(v, receiver, Undefined, FALSE, arguments)
    /\ UNCHANGED <<heap, stack, invocationTop, depth, tailArgv>>

(* Writing n arguments into the buffer, which is not made smaller.         *)
Written(buffer, arguments) ==
    arguments \o SubSeq(buffer, Len(arguments) + 1, Len(buffer))

(* Terminator::TailCallDirect: the arguments go to the thread's buffer,    *)
(* the function leaves before its callee enters, and its activation is     *)
(* replaced.                                                               *)
TailCallDirect(arguments) ==
    /\ Running
    /\ program.path = "typed"
    /\ InFunction
    /\ tailArgv' = Written(tailArgv, arguments)
    /\ depth' = Left
    /\ stack' = Pop
    /\ control' = TailJump(Len(arguments))
    /\ UNCHANGED <<heap, invocationTop>>

(* The end of a chain of bound functions (ecmora_callable_construct).      *)
ConstructTarget ==
    LET end[c \in Callables] == IF IsBound(c) THEN end[callables[c].target] ELSE c
    IN end
CanConstruct(v) ==
    /\ IsCallable(v)
    /\ ConstructTarget[v.id] \in Callables
    /\ Has(ConstructTarget[v.id], "constructable")

ConstructValue(v, arguments) ==
    /\ Running
    /\ program.path = "generic"
    /\ \/ /\ CanConstruct(v)
          /\ Len(objects) < program.objects
          /\ LET receiver == Object(Len(objects) + 1)
             IN /\ objects' = Append(objects, ConstructTarget[v.id])
                /\ stack' = Append(stack, Constructing(v.id, receiver))
                /\ control' = Dispatch(v, receiver, v, TRUE, arguments)
       \/ /\ ~CanConstruct(v)
          /\ control' = Fails
          /\ UNCHANGED <<objects, stack>>
    /\ UNCHANGED <<program, callables, invocationTop, depth, tailArgv>>

-----------------------------------------------------------------------------
(* ecmora_callable_dispatch                                                *)
DispatchUncallable ==
    /\ control.k = "dispatch"
    /\ ~IsCallable(control.callee)
    /\ control' = Fails
    /\ UNCHANGED <<heap, stack, invocationTop, depth, tailArgv>>

(* The arguments and the receiver that a bound function hands on.          *)
BoundArgv(bound, argv) == bound.arguments \o argv
BoundReceiver(bound, call) == IF call.constructing THEN call.this ELSE bound.this

DispatchBound ==
    /\ control.k = "dispatch"
    /\ IsCallable(control.callee)
    /\ IsBound(control.callee.id)
    /\ LET bound == callables[control.callee.id]
           newTarget == IF control.constructing /\ control.newTarget = control.callee
                        THEN Callable(bound.target) ELSE control.newTarget
       IN control' = Dispatch(Callable(bound.target), BoundReceiver(bound, control), newTarget,
                              control.constructing, BoundArgv(bound, control.argv))
    /\ stack' = Append(stack, BoundDispatch(control.callee.id))
    /\ UNCHANGED <<heap, invocationTop, depth, tailArgv>>

(* ecmora_dispatch_native: this by the function's flags, and a frame.      *)
FrameThis(c, receiver) ==
    IF Has(c, "lexical") THEN callables[c].this
    ELSE IF ~Has(c, "strict") /\ receiver = Undefined THEN GlobalThis
    ELSE receiver

DispatchNative ==
    /\ control.k = "dispatch"
    /\ IsCallable(control.callee)
    /\ LET c == control.callee.id
       IN /\ ~IsBound(c)
          /\ stack' = Append(stack, Frame(c, FrameThis(c, control.this), control.newTarget))
          /\ control' = Jump(c, control.argv)
    /\ invocationTop' = Len(stack) + 1
    /\ UNCHANGED <<heap, depth, tailArgv>>

(* The start of a compiled function: ecmora_recursion_enter, which stops   *)
(* the program at the limit, then every parameter is read from argv.       *)
ParametersOfBuffer(jump) == IF jump.tail THEN tailArgv ELSE jump.argv
Parameters(jump) == IF jump.tail THEN SubSeq(tailArgv, 1, jump.argc) ELSE jump.argv

EnterFunction ==
    /\ control.k = "jump"
    /\ IF depth >= program.limit
       THEN control' = Ended("overflow") /\ UNCHANGED <<stack, depth>>
       ELSE /\ depth' = depth + 1
            /\ stack' = Append(stack, Code(control.closure, Parameters(control)))
            /\ control' = Run
    /\ UNCHANGED <<heap, invocationTop, tailArgv>>

-----------------------------------------------------------------------------
(* Terminator::ReturnValue and Terminator::ThrowValue                      *)
LeaveWithOnReturn(status, v) ==
    /\ InFunction
    /\ depth' = IF status = 0 THEN Left ELSE depth
    /\ stack' = Pop
    /\ control' = Returned(status, v)
LeaveWith(status, v) ==
    /\ InFunction
    /\ depth' = Left
    /\ stack' = Pop
    /\ control' = Returned(status, v)

ReturnValue(v) ==
    /\ Running
    /\ LeaveWith(0, v)
    /\ UNCHANGED <<heap, invocationTop, tailArgv>>

ThrowValue(v) ==
    /\ Running
    /\ \/ LeaveWith(1, v)
       \/ ~InFunction /\ control' = Ended("uncaught") /\ UNCHANGED <<stack, depth>>
    /\ UNCHANGED <<heap, invocationTop, tailArgv>>

(* The process entry returns.                                              *)
ReturnI32 ==
    /\ Running
    /\ ~InFunction
    /\ control' = Ended("exit")
    /\ UNCHANGED <<heap, stack, invocationTop, depth, tailArgv>>

-----------------------------------------------------------------------------
(* A callee returned to the top of the stack.                              *)
Back(kind) == control.k = "returned" /\ Top.kind = kind

(* ecmora_dispatch_native takes its frame away.                            *)
ReturnToFrameKept ==
    /\ Back("frame")
    /\ stack' = Pop
    /\ UNCHANGED <<heap, invocationTop, depth, tailArgv, control>>
ReturnToFrame ==
    /\ Back("frame")
    /\ invocationTop' = Top.previous
    /\ stack' = Pop
    /\ UNCHANGED <<heap, depth, tailArgv, control>>

ReturnToBound ==
    /\ Back("bound")
    /\ stack' = Pop
    /\ UNCHANGED <<heap, invocationTop, depth, tailArgv, control>>

(* ecmora_callable_construct: an object that the constructor returns takes *)
(* the place of the receiver.                                              *)
ConstructResult(receiver, returned) ==
    IF returned.status = 0 /\ ~IsObjectLike(returned.value) THEN Returned(0, receiver) ELSE returned

ReturnToConstruct ==
    /\ Back("construct")
    /\ stack' = Pop
    /\ control' = ConstructResult(Top.this, control)
    /\ UNCHANGED <<heap, invocationTop, depth, tailArgv>>

(* propagate_call_completion: a caller that gets an exception ends with it *)
PropagateCompletion ==
    /\ Back("code")
    /\ \/ control.status = 0 /\ control' = Run /\ UNCHANGED <<stack, depth>>
       \/ control.status = 1 /\ LeaveWith(1, control.value)
    /\ UNCHANGED <<heap, invocationTop, tailArgv>>

ReturnToEntry ==
    /\ Back("entry")
    /\ control' = IF control.status = 0 THEN Run ELSE Ended("uncaught")
    /\ UNCHANGED <<heap, stack, invocationTop, depth, tailArgv>>

-----------------------------------------------------------------------------
ProgramStep ==
    \/ NewClosure \/ NewFunction \/ NewArrow \/ ReturnI32
    \/ \E v \in Values : ReturnValue(v) \/ ThrowValue(v)
    \/ \E a \in program.lists : CallDirect(a) \/ TailCallDirect(a)
    \/ \E c \in Callables, a \in program.lists : CallIndirect(c, a)
    \/ \E v \in Values, r \in Receivers, a \in program.lists : CallValue(v, r, a) \/ BindValue(v, r, a)
    \/ \E v \in Values, a \in program.lists : ConstructValue(v, a)

RuntimeStep ==
    \/ DispatchUncallable \/ DispatchBound \/ DispatchNative \/ EnterFunction
    \/ ReturnToFrame \/ ReturnToBound \/ ReturnToConstruct \/ PropagateCompletion \/ ReturnToEntry

Next == ProgramStep \/ RuntimeStep

Spec == Init /\ [][Next]_vars

-----------------------------------------------------------------------------
CallableType ==
    [kind : {"native", "bound"}, flags : SUBSET {"constructable", "lexical", "strict"},
     this : ValueType, target : Nat, arguments : Seq(ValueType)]

RecordType ==
    [kind : {"entry", "code", "frame", "bound", "construct"}, callee : Nat, this : ValueType,
     newTarget : ValueType, arguments : Seq(ValueType), previous : Nat]

ControlType ==
    {Run}
    \union [k : {"dispatch"}, callee : ValueType, this : ValueType, newTarget : ValueType,
            constructing : BOOLEAN, argv : Seq(ValueType)]
    \union [k : {"jump"}, closure : Nat, argc : Nat, argv : Seq(ValueType), tail : BOOLEAN]
    \union [k : {"returned"}, status : {0, 1}, value : ValueType]
    \union [k : {"ended"}, how : {"exit", "uncaught", "overflow"}]

(* Bound functions lead to older callables, so that dispatch ends.         *)
HeapOK ==
    /\ program \in Programs
    /\ callables \in Seq(CallableType)
    /\ \A c \in Callables : IsBound(c) => callables[c].target \in 1 .. c - 1
    /\ objects \in Seq(Nat)

(* The process stays at the bottom of the stack.                           *)
StackOK(s) ==
    /\ s \in Seq(RecordType)
    /\ s # <<>>
    /\ \A i \in 1 .. Len(s) : s[i].kind = "entry" <=> i = 1

TypeOK ==
    /\ HeapOK
    /\ StackOK(stack)
    /\ invocationTop \in 0 .. Len(stack)
    /\ depth \in Nat
    /\ tailArgv \in Seq(ValueType)
    /\ control \in ControlType

(* ecmora_recursion_depth is the number of compiled functions that are     *)
(* active, however each of the others was left: by a return, a throw, the  *)
(* throw of a callee or a tail call.  A leave too few would stop a program *)
(* that does not recurse; one too many would let recursion overflow the    *)
(* stack.                                                                  *)
Active == {i \in 1 .. Len(stack) : stack[i].kind = "code"}
DepthCounts == depth = Cardinality(Active) /\ depth <= program.limit

(* Whoever runs finds its own invocation on top of the frames, also after  *)
(* calls that threw through frames above it: a function of a generic       *)
(* program sees the this it was called with, and the process none.         *)
ThisIsOwn ==
    Running =>
        /\ ~InFunction => invocationTop = 0
        /\ InFunction /\ program.path = "generic" =>
              /\ invocationTop = Len(stack) - 1
              /\ stack[invocationTop].kind = "frame"
              /\ stack[invocationTop].callee = Top.callee

-----------------------------------------------------------------------------
(* The execution contexts of a stack: its entry and its functions, each    *)
(* with the records between it and its caller.                             *)
Positions == {i \in 1 .. Len(stack) : stack[i].kind \in {"entry", "code"}}
CallerOf(i) == CHOOSE p \in Positions : p < i /\ \A q \in Positions : q < i => q <= p
ReceiverAbove(p) ==
    IF p < Len(stack) /\ stack[p + 1].kind = "construct" THEN stack[p + 1].this ELSE Undefined

ContextOf(closure, frame, parameters, receiver) ==
    LET read == program.path = "generic"   \* a typed program reads no this
    IN [callee |-> closure, this |-> IF read THEN stack[frame].this ELSE Undefined,
        newTarget |-> IF read THEN stack[frame].newTarget ELSE Undefined,
        arguments |-> parameters, receiver |-> receiver]

ContextAt(i) ==
    IF i = 1
    THEN [callee |-> 0, this |-> Undefined, newTarget |-> Undefined, arguments |-> <<>>,
          receiver |-> Undefined]
    ELSE ContextOf(stack[i].callee, i - 1, stack[i].arguments, ReceiverAbove(CallerOf(i)))

Nth(n) == CHOOSE i \in Positions : Cardinality({p \in Positions : p <= i}) = n
Contexts == [n \in 1 .. Cardinality(Positions) |-> ContextAt(Nth(n))]
Pending == ReceiverAbove(CallerOf(Len(stack) + 1))

(* The contract's reading of callables, which no other variable enters.    *)
Language == INSTANCE CallContract WITH contexts <- <<>>

(* What a dispatch will lead to, through all the bound functions.          *)
Led(call) ==
    LET chain == Language!Chain[call.callee.id]
        target == chain.target
    IN [callee |-> target,
        this |-> Language!ThisOf(target, IF chain.bound /\ ~call.constructing THEN chain.this ELSE call.this),
        newTarget |-> IF call.constructing /\ call.newTarget = call.callee
                      THEN Callable(target) ELSE call.newTarget,
        arguments |-> chain.arguments \o call.argv,
        receiver |-> Pending]

Completion(c) ==
    LET r == IF Pending = Undefined THEN c ELSE ConstructResult(Pending, c)
    IN [k |-> "complete", status |-> r.status, value |-> r.value]

ControlOf ==
    CASE control.k = "dispatch" /\ IsCallable(control.callee) ->
           [k |-> "invoke", context |-> Led(control)]
      [] control.k = "dispatch" /\ ~IsCallable(control.callee) -> Completion(Fails)
      [] control.k = "jump" ->
           [k |-> "invoke", context |-> ContextOf(control.closure, Len(stack), Parameters(control), Pending)]
      [] control.k = "returned" -> Completion(control)
      [] OTHER -> control

Calls == INSTANCE CallContract WITH contexts <- Contexts, control <- ControlOf

(* Calls mean to a program what the language says: receivers, arguments    *)
(* and results pass through bound functions, constructors, frames and the  *)
(* shared tail-call buffer unchanged, an exception ends every function up  *)
(* to the process, and the guard stops a program at the limit only.        *)
ImplementsCalls == Calls!Spec

=============================================================================
