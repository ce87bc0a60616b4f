--------------------------- MODULE NativeCallProofs ---------------------------
(***************************************************************************)
(* Proofs about NativeCall, for every program, limit and bound: types, the *)
(* depth counter and this, and that the runtime implements CallContract.   *)
(***************************************************************************)
EXTENDS NativeCall, FiniteSetTheorems, SequenceTheorems, NaturalsInduction, WellFoundedInduction, TLAPS

-----------------------------------------------------------------------------
(* Types.                                                                  *)

LEMMA ValuesHaveType ==
    ASSUME TypeOK
    PROVE  Values \subseteq ValueType
BY NumbersAssumption DEF TypeOK, HeapOK, Values, ValueType, Undefined, Number, Object, Callable, Callables

LEMMA ProgramHasType ==
    ASSUME TypeOK
    PROVE  /\ program \in ProgramType
           /\ program.limit \in Nat
           /\ \A a \in program.lists : a \in Seq(ValueType)
<1>1. program \in ProgramType
  BY ProgramsAssumption DEF TypeOK, HeapOK
<1>2. QED BY <1>1 DEF ProgramType

(* Stacks, pushed and popped.                                              *)
LEMMA Pushed ==
    ASSUME NEW s, StackOK(s), NEW r \in RecordType, r.kind # "entry"
    PROVE  /\ StackOK(Append(s, r))
           /\ Len(Append(s, r)) = Len(s) + 1
           /\ Append(s, r)[Len(s) + 1] = r
           /\ \A i \in 1 .. Len(s) : Append(s, r)[i] = s[i]
BY DEF StackOK

LEMMA Popped ==
    ASSUME NEW s, StackOK(s), s[Len(s)].kind # "entry"
    PROVE  /\ StackOK(SubSeq(s, 1, Len(s) - 1))
           /\ Len(SubSeq(s, 1, Len(s) - 1)) = Len(s) - 1
           /\ Len(s) > 1
           /\ \A i \in 1 .. Len(s) - 1 : SubSeq(s, 1, Len(s) - 1)[i] = s[i]
<1>1. Len(s) \in Nat /\ Len(s) > 1
  BY DEF StackOK
<1> DEFINE t == SubSeq(s, 1, Len(s) - 1)
<1>2. /\ t \in Seq(RecordType)
      /\ Len(t) = Len(s) - 1
      /\ \A i \in 1 .. Len(s) - 1 : t[i] = s[i]
  BY <1>1 DEF StackOK
<1> HIDE DEF t
<1>3. StackOK(t)
  BY <1>1, <1>2 DEF StackOK
<1>4. QED BY <1>1, <1>2, <1>3 DEF t

(* What TypeOK says apart from the heap and the stack.                     *)
LEMMA RecordsHaveType ==
    ASSUME TypeOK, NEW c \in Nat, NEW this \in ValueType, NEW target \in ValueType,
           NEW a \in Seq(ValueType)
    PROVE  /\ Code(c, a) \in RecordType /\ Code(c, a).kind = "code"
           /\ Frame(c, this, target) \in RecordType /\ Frame(c, this, target).kind = "frame"
           /\ BoundDispatch(c) \in RecordType /\ BoundDispatch(c).kind = "bound"
           /\ Constructing(c, this) \in RecordType /\ Constructing(c, this).kind = "construct"
BY DEF TypeOK, Code, Frame, BoundDispatch, Constructing, Record, RecordType, ValueType, Undefined

LEMMA ControlsHaveType ==
    ASSUME NEW c \in Nat, NEW v \in ValueType, NEW this \in ValueType, NEW target \in ValueType,
           NEW b \in BOOLEAN, NEW a \in Seq(ValueType), NEW status \in {0, 1}
    PROVE  /\ Run \in ControlType
           /\ Dispatch(v, this, target, b, a) \in ControlType
           /\ Jump(c, a) \in ControlType
           /\ TailJump(Len(a)) \in ControlType
           /\ Returned(status, v) \in ControlType
           /\ Fails \in ControlType
           /\ Ended("uncaught") \in ControlType
           /\ Ended("overflow") \in ControlType
           /\ Ended("exit") \in ControlType
<1>1. Len(a) \in Nat
  OBVIOUS
<1>2. Run \in ControlType
  BY DEF ControlType
<1>3. Dispatch(v, this, target, b, a) \in ControlType
  BY DEF ControlType, Dispatch
<1>4. Jump(c, a) \in ControlType /\ TailJump(Len(a)) \in ControlType
  BY <1>1 DEF ControlType, Jump, TailJump
<1>5. Returned(status, v) \in ControlType /\ Fails \in ControlType
  BY DEF ControlType, Returned, Fails, Undefined, ValueType
<1>6. Ended("uncaught") \in ControlType /\ Ended("overflow") \in ControlType /\ Ended("exit") \in ControlType
  BY DEF ControlType, Ended
<1>7. QED BY <1>2, <1>3, <1>4, <1>5, <1>6

LEMMA UndefinedHasType == Undefined \in ValueType
BY DEF Undefined, ValueType

(* The heap.                                                               *)
LEMMA HeapStays ==
    ASSUME HeapOK, UNCHANGED heap
    PROVE  HeapOK'
BY DEF HeapOK, heap, Callables, IsBound

(* A new callable, native or bound to an older one, is well formed.        *)
LEMMA HeapGrows ==
    ASSUME HeapOK, NEW c \in CallableType,
           c.kind = "bound" => c.target \in 1 .. Len(callables),
           callables' = Append(callables, c), UNCHANGED <<program, objects>>
    PROVE  HeapOK'
<1>1. Len(callables) \in Nat /\ callables' \in Seq(CallableType)
  BY DEF HeapOK
<1>2. ASSUME NEW d \in Callables', IsBound(d)'
      PROVE  callables'[d].target \in 1 .. d - 1
  <2>1. CASE d = Len(callables) + 1
    BY <1>1, <1>2, <2>1 DEF HeapOK, Callables, IsBound
  <2>2. CASE d # Len(callables) + 1
    BY <1>1, <1>2, <2>2 DEF HeapOK, Callables, IsBound
  <2>3. QED BY <2>1, <2>2
<1>3. QED BY <1>1, <1>2 DEF HeapOK

(* What a callable holds, and what current_this reads.                     *)
LEMMA HeldHasType ==
    ASSUME TypeOK, NEW c \in Callables
    PROVE  /\ c \in Nat
           /\ callables[c] \in CallableType
           /\ callables[c].this \in ValueType
           /\ callables[c].arguments \in Seq(ValueType)
           /\ IsBound(c) => callables[c].target \in Callables /\ callables[c].target \in Nat
<1>1. Len(callables) \in Nat /\ c \in 1 .. Len(callables)
  BY DEF TypeOK, HeapOK, Callables
<1>2. callables[c] \in CallableType
  BY <1>1 DEF TypeOK, HeapOK
<1>3. IsBound(c) => callables[c].target \in 1 .. c - 1
  BY DEF TypeOK, HeapOK
<1>4. QED BY <1>1, <1>2, <1>3 DEF CallableType, Callables

LEMMA CurrentThisHasType ==
    ASSUME TypeOK
    PROVE  CurrentThis \in ValueType
<1>1. CASE invocationTop = 0
  BY <1>1, UndefinedHasType DEF CurrentThis
<1>2. CASE invocationTop # 0
  <2>1. stack[invocationTop] \in RecordType
    BY <1>2 DEF TypeOK, StackOK
  <2>2. QED BY <1>2, <2>1 DEF CurrentThis, RecordType
<1>3. QED BY <1>1, <1>2

LEMMA LeftHasType ==
    ASSUME depth \in Nat
    PROVE  Left \in Nat
BY DEF Left

-----------------------------------------------------------------------------
(* Each operation keeps the types.                                         *)

LEMMA CreateTyped ==
    ASSUME TypeOK, NewClosure \/ NewFunction \/ NewArrow
    PROVE  TypeOK'
<1> DEFINE kinds == {"constructable", "lexical", "strict"}
<1>1. PICK flags \in SUBSET kinds, this \in ValueType : Create(flags, this)
  BY UndefinedHasType, CurrentThisHasType DEF NewClosure, NewFunction, NewArrow, StrictFlag
<1>2. Native(flags, this) \in CallableType /\ Native(flags, this).kind # "bound"
  BY DEF Native, CallableType
<1>3. HeapOK'
  BY <1>1, <1>2, HeapGrows DEF TypeOK, Create
<1>4. QED BY <1>1, <1>3 DEF TypeOK, Create, StackOK

LEMMA BindTyped ==
    ASSUME TypeOK, NEW v \in Values, NEW r \in Receivers, NEW a \in program.lists, BindValue(v, r, a)
    PROVE  TypeOK'
<1>1. v \in ValueType /\ r \in ValueType /\ a \in Seq(ValueType)
  BY ValuesHaveType, ProgramHasType DEF Receivers
<1>2. CASE ~IsCallable(v)
  BY <1>2, HeapStays, ControlsHaveType, <1>1 DEF TypeOK, BindValue, heap, StackOK
<1>3. CASE IsCallable(v)
  <2>1. BoundTo(v.id, r, a) \in CallableType /\ v.id \in 1 .. Len(callables)
    BY <1>1, <1>3 DEF BoundTo, CallableType, IsCallable, Callables, ValueType
  <2>2. HeapOK'
    BY <1>3, <2>1, HeapGrows DEF TypeOK, BindValue, BoundTo
  <2>3. QED BY <1>3, <2>2 DEF TypeOK, BindValue, StackOK
<1>4. QED BY <1>2, <1>3

(* A step that only redirects control.                                     *)
LEMMA ControlTyped ==
    ASSUME TypeOK, control' \in ControlType, UNCHANGED <<heap, stack, invocationTop, depth, tailArgv>>
    PROVE  TypeOK'
BY HeapStays DEF TypeOK, StackOK

LEMMA ClosureCallTyped ==
    ASSUME TypeOK, NEW c \in Callables, NEW a \in program.lists, CallIndirect(c, a)
    PROVE  TypeOK'
<1>1. a \in Seq(ValueType) /\ Callable(c) \in ValueType
  BY ProgramHasType, HeldHasType DEF Callable, ValueType
<1>2. control' \in ControlType
  BY <1>1, ControlsHaveType, UndefinedHasType DEF CallIndirect
<1>3. QED BY <1>2, ControlTyped DEF CallIndirect

LEMMA ValueCallTyped ==
    ASSUME TypeOK, NEW v \in Values, NEW r \in Receivers, NEW a \in program.lists, CallValue(v, r, a)
    PROVE  TypeOK'
<1>1. v \in ValueType /\ r \in ValueType /\ a \in Seq(ValueType)
  BY ValuesHaveType, ProgramHasType DEF Receivers
<1>2. control' \in ControlType
  BY <1>1, ControlsHaveType, UndefinedHasType DEF CallValue
<1>3. QED BY <1>2, ControlTyped DEF CallValue

(* The frame that invocationTop points to is below a function that runs.   *)
FrameOnTop == invocationTop = 0 \/ stack[invocationTop].kind = "frame"

LEMMA LeavingTyped ==
    ASSUME TypeOK, FrameOnTop, InFunction, stack' = Pop, depth' = Left, UNCHANGED <<heap, invocationTop>>,
           tailArgv' \in Seq(ValueType), control' \in ControlType
    PROVE  TypeOK'
<1>1. Top.kind = "code"
  BY DEF InFunction
<1>2. StackOK(stack') /\ Len(stack') = Len(stack) - 1 /\ Len(stack) \in Nat
  BY <1>1, Popped DEF TypeOK, Top, Pop, StackOK
<1>3. invocationTop # Len(stack)
  BY <1>1 DEF FrameOnTop, Top, TypeOK, StackOK
<1>4. invocationTop' \in 0 .. Len(stack')
  BY <1>2, <1>3 DEF TypeOK
<1>5. QED BY <1>2, <1>4, HeapStays, LeftHasType DEF TypeOK

LEMMA TailCallTyped ==
    ASSUME TypeOK, FrameOnTop, NEW a \in program.lists, TailCallDirect(a)
    PROVE  TypeOK'
<1>1. a \in Seq(ValueType)
  BY ProgramHasType
<1>2. tailArgv' \in Seq(ValueType)
  BY <1>1 DEF TypeOK, TailCallDirect, Written
<1>3. control' \in ControlType
  BY <1>1, ControlsHaveType, UndefinedHasType DEF TailCallDirect
<1>4. QED BY <1>2, <1>3, LeavingTyped DEF TailCallDirect

LEMMA LeaveTyped ==
    ASSUME TypeOK, FrameOnTop, NEW v \in ValueType, NEW status \in {0, 1}, LeaveWith(status, v),
           UNCHANGED <<heap, invocationTop, tailArgv>>
    PROVE  TypeOK'
<1>1. Returned(status, v) \in ControlType
  BY DEF ControlType, Returned
<1>2. tailArgv' \in Seq(ValueType) /\ control' \in ControlType
  BY <1>1 DEF TypeOK, LeaveWith
<1>3. QED BY <1>1, <1>2, LeavingTyped DEF LeaveWith

(* A step that pushes a record other than a frame.                         *)
LEMMA PushTyped ==
    ASSUME TypeOK, control' \in ControlType, NEW r \in RecordType, r.kind # "entry",
           stack' = Append(stack, r), HeapOK', depth' \in Nat, UNCHANGED tailArgv,
           invocationTop' = invocationTop \/ invocationTop' = Len(stack) + 1
    PROVE  TypeOK'
<1>1. StackOK(stack)
  BY DEF TypeOK
<1>2. StackOK(stack') /\ Len(stack') = Len(stack) + 1
  BY <1>1, Pushed
<1>3. Len(stack) \in Nat
  BY <1>1 DEF StackOK
<1>4. invocationTop' \in 0 .. Len(stack')
  BY <1>2, <1>3 DEF TypeOK
<1>5. QED BY <1>2, <1>4 DEF TypeOK

LEMMA ConstructTyped ==
    ASSUME TypeOK, NEW v \in Values, NEW a \in program.lists, ConstructValue(v, a)
    PROVE  TypeOK'
<1>1. v \in ValueType /\ a \in Seq(ValueType)
  BY ValuesHaveType, ProgramHasType
<1>2. CASE ~CanConstruct(v)
  <2>1. control' \in ControlType
    BY <1>1, <1>2, ControlsHaveType, UndefinedHasType DEF ConstructValue
  <2>2. UNCHANGED <<heap, stack, invocationTop, depth, tailArgv>>
    BY <1>2 DEF ConstructValue, heap
  <2>3. QED BY <2>1, <2>2, ControlTyped
<1>3. CASE CanConstruct(v)
  <2> DEFINE receiver == Object(Len(objects) + 1)
  <2>1. ConstructTarget[v.id] \in Nat
    BY <1>3 DEF CanConstruct, Callables
  <2>2. UNCHANGED <<program, callables>> /\ objects' = Append(objects, ConstructTarget[v.id])
    BY <1>3 DEF ConstructValue
  <2> HIDE DEF receiver
  <2>3. objects' \in Seq(Nat)
    BY <2>1, <2>2 DEF TypeOK, HeapOK
  <2>4. HeapOK'
    BY <2>2, <2>3 DEF TypeOK, HeapOK, Callables, IsBound
  <2>5. receiver \in ValueType /\ v.id \in Nat
    BY <1>1 DEF TypeOK, HeapOK, Object, ValueType, receiver
  <2>6. Constructing(v.id, receiver) \in RecordType /\ Constructing(v.id, receiver).kind = "construct"
    BY <2>5, <1>1, UndefinedHasType, RecordsHaveType
  <2>7. control' \in ControlType
    BY <1>1, <1>3, <2>5, ControlsHaveType DEF ConstructValue, receiver
  <2>8. QED BY <1>3, <2>4, <2>6, <2>7, PushTyped DEF ConstructValue, TypeOK, receiver
<1>4. QED BY <1>2, <1>3

LEMMA DispatchTyped ==
    ASSUME TypeOK, DispatchUncallable \/ DispatchBound \/ DispatchNative
    PROVE  TypeOK'
<1>1. control.k = "dispatch"
  BY DEF DispatchUncallable, DispatchBound, DispatchNative
<1>2. /\ control.callee \in ValueType /\ control.this \in ValueType /\ control.newTarget \in ValueType
      /\ control.constructing \in BOOLEAN /\ control.argv \in Seq(ValueType)
  BY <1>1 DEF TypeOK, ControlType, Run
<1>3. CASE DispatchUncallable
  BY <1>2, <1>3, ControlsHaveType, ControlTyped DEF DispatchUncallable
<1>4. CASE DispatchBound
  <2> DEFINE c == control.callee.id
  <2>1. c \in Callables /\ IsBound(c)
    BY <1>4 DEF DispatchBound, IsCallable
  <2>2. /\ callables[c].target \in Nat /\ callables[c].this \in ValueType
        /\ callables[c].arguments \in Seq(ValueType) /\ c \in Nat
    BY <2>1, HeldHasType
  <2>3. Callable(callables[c].target) \in ValueType
    BY <2>2 DEF Callable, ValueType
  <2>4. /\ BoundReceiver(callables[c], control) \in ValueType
        /\ BoundArgv(callables[c], control.argv) \in Seq(ValueType)
    BY <1>2, <2>2 DEF BoundReceiver, BoundArgv
  <2>5. PICK t \in ValueType : control' = Dispatch(Callable(callables[c].target),
           BoundReceiver(callables[c], control), t, control.constructing, BoundArgv(callables[c], control.argv))
    BY <1>2, <1>4, <2>3 DEF DispatchBound
  <2>6. control' \in ControlType
    BY <1>2, <2>3, <2>4, <2>5, ControlsHaveType
  <2>7. BoundDispatch(c) \in RecordType /\ BoundDispatch(c).kind = "bound"
    BY <1>2, <2>2, RecordsHaveType
  <2>8. QED BY <1>4, <2>6, <2>7, HeapStays, PushTyped DEF DispatchBound, TypeOK
<1>5. CASE DispatchNative
  <2> DEFINE c == control.callee.id
             this == FrameThis(c, control.this)
  <2>1. c \in Callables /\ c \in Nat
    BY <1>5, HeldHasType DEF DispatchNative, IsCallable
  <2>2. this \in ValueType
    BY <1>2, <2>1, HeldHasType DEF FrameThis, GlobalThis, Object, ValueType
  <2>3. Frame(c, this, control.newTarget) \in RecordType /\ Frame(c, this, control.newTarget).kind = "frame"
    BY <1>2, <2>1, <2>2, RecordsHaveType
  <2>4. control' \in ControlType
    BY <1>2, <1>5, <2>1, ControlsHaveType DEF DispatchNative
  <2>5. QED BY <1>5, <2>3, <2>4, HeapStays, PushTyped DEF DispatchNative, TypeOK
<1>6. QED BY <1>3, <1>4, <1>5

(* The buffer holds the arguments of a pending tail call.                  *)
BufferHolds == control.k = "jump" /\ control.tail => control.argc <= Len(tailArgv)

LEMMA EnterTyped ==
    ASSUME TypeOK, BufferHolds, EnterFunction
    PROVE  TypeOK'
<1>1. control.k = "jump"
  BY DEF EnterFunction
<1>2. control.closure \in Nat /\ control.argc \in Nat /\ control.argv \in Seq(ValueType)
  BY <1>1 DEF TypeOK, ControlType, Run
<1>3. CASE depth >= program.limit
  <2>1. control' \in ControlType
    BY <1>2, <1>3, ControlsHaveType, UndefinedHasType DEF EnterFunction
  <2>2. QED BY <1>3, <2>1, ControlTyped DEF EnterFunction
<1>4. CASE ~(depth >= program.limit)
  <2>1. control' \in ControlType
    BY <1>2, <1>4, ControlsHaveType, UndefinedHasType DEF EnterFunction
  <2>2. Parameters(control) \in Seq(ValueType)
    BY <1>1, <1>2 DEF BufferHolds, Parameters, TypeOK
  <2>3. /\ Code(control.closure, Parameters(control)).kind = "code"
        /\ Code(control.closure, Parameters(control)) \in RecordType
    BY <1>2, <2>2, UndefinedHasType, RecordsHaveType
  <2>4. QED BY <1>4, <2>1, <2>3, HeapStays, PushTyped DEF EnterFunction, TypeOK
<1>5. QED BY <1>3, <1>4

(* A step that pops a record other than an activation.                     *)
LEMMA PopTyped ==
    ASSUME TypeOK, Top.kind # "entry", stack' = Pop, control' \in ControlType,
           UNCHANGED <<heap, depth, tailArgv>>, invocationTop' \in 0 .. Len(stack) - 1
    PROVE  TypeOK'
<1>1. StackOK(stack') /\ Len(stack') = Len(stack) - 1
  BY Popped DEF TypeOK, Top, Pop
<1>2. QED BY <1>1, HeapStays DEF TypeOK

-----------------------------------------------------------------------------
(* The frames of a stack form a list from the latest one down, which       *)
(* invocationTop heads: t is the latest frame among the first n records.   *)
Latest(s, n, t) ==
    /\ t \in 0 .. n
    /\ t # 0 => s[t].kind = "frame"
    /\ \A i \in t + 1 .. n : s[i].kind # "frame"

Nested(s, top) ==
    /\ Latest(s, Len(s), top)
    /\ \A i \in 1 .. Len(s) : s[i].kind = "frame" => Latest(s, i - 1, s[i].previous)

LEMMA NestPushed ==
    ASSUME NEW s, NEW top, StackOK(s), Nested(s, top), NEW r \in RecordType, r.kind # "entry"
    PROVE  /\ r.kind # "frame" => Nested(Append(s, r), top)
           /\ r.kind = "frame" /\ r.previous = top => Nested(Append(s, r), Len(s) + 1)
<1> DEFINE u == Append(s, r)
<1>1. /\ Len(s) \in Nat /\ Len(u) = Len(s) + 1 /\ u[Len(s) + 1] = r
      /\ \A i \in 1 .. Len(s) : u[i] = s[i]
  BY Pushed DEF StackOK
<1> HIDE DEF u
<1>2. ASSUME NEW n \in 0 .. Len(s), NEW t, Latest(s, n, t)
      PROVE  Latest(u, n, t)
  BY <1>1, <1>2 DEF Latest
<1>3. Latest(u, Len(s), top)
  BY <1>1, <1>2 DEF Nested
<1>4. ASSUME NEW i \in 1 .. Len(s), u[i].kind = "frame"
      PROVE  Latest(u, i - 1, u[i].previous)
  BY <1>1, <1>2, <1>4 DEF Nested
<1>5. CASE r.kind # "frame"
  BY <1>1, <1>3, <1>4, <1>5 DEF Nested, Latest, u
<1>6. CASE r.kind = "frame" /\ r.previous = top
  <2>1. Latest(u, Len(s) + 1, Len(s) + 1)
    BY <1>1, <1>6 DEF Latest
  <2>2. \A i \in 1 .. Len(u) : u[i].kind = "frame" => Latest(u, i - 1, u[i].previous)
    BY <1>1, <1>3, <1>4, <1>6
  <2>3. QED BY <1>1, <1>6, <2>1, <2>2 DEF Nested, u
<1>7. QED BY <1>5, <1>6

LEMMA NestPopped ==
    ASSUME NEW s, NEW top, StackOK(s), Nested(s, top), s[Len(s)].kind # "entry"
    PROVE  /\ s[Len(s)].kind # "frame" => Nested(SubSeq(s, 1, Len(s) - 1), top)
           /\ s[Len(s)].kind = "frame" =>
                 /\ Nested(SubSeq(s, 1, Len(s) - 1), s[Len(s)].previous)
                 /\ s[Len(s)].previous \in 0 .. Len(s) - 1
<1> DEFINE u == SubSeq(s, 1, Len(s) - 1)
<1>1. /\ Len(s) \in Nat /\ Len(s) > 1 /\ Len(u) = Len(s) - 1
      /\ \A i \in 1 .. Len(s) - 1 : u[i] = s[i]
  BY Popped DEF StackOK
<1> HIDE DEF u
<1>2. ASSUME NEW n \in 0 .. Len(u), NEW t, Latest(s, n, t)
      PROVE  Latest(u, n, t)
  BY <1>1, <1>2 DEF Latest
<1>3. ASSUME NEW i \in 1 .. Len(u), u[i].kind = "frame"
      PROVE  Latest(u, i - 1, u[i].previous)
  BY <1>1, <1>2, <1>3 DEF Nested
<1>4. CASE s[Len(s)].kind # "frame"
  <2>1. Latest(s, Len(s) - 1, top)
    BY <1>1, <1>4 DEF Nested, Latest
  <2>2. Latest(u, Len(u), top)
    BY <1>1, <1>2, <2>1
  <2>3. QED BY <1>3, <1>4, <2>2 DEF Nested, u
<1>5. CASE s[Len(s)].kind = "frame"
  <2>1. Latest(s, Len(s) - 1, s[Len(s)].previous)
    BY <1>1, <1>5 DEF Nested
  <2>2. Latest(u, Len(u), s[Len(s)].previous)
    BY <1>1, <1>2, <2>1
  <2>3. QED BY <1>1, <1>3, <1>5, <2>1, <2>2 DEF Nested, Latest, u
<1>6. QED BY <1>4, <1>5

(* Activations of a stack, counted.                                        *)
CodeIn(s) == {i \in 1 .. Len(s) : s[i].kind = "code"}

LEMMA CodeIsFinite ==
    ASSUME NEW s, StackOK(s)
    PROVE  IsFiniteSet(CodeIn(s)) /\ Cardinality(CodeIn(s)) \in Nat
<1>1. Len(s) \in Nat
  BY DEF StackOK
<1>2. IsFiniteSet(1 .. Len(s))
  BY <1>1, FS_Interval
<1>3. QED BY <1>2, FS_Subset, FS_CardinalityType DEF CodeIn

LEMMA CodePushed ==
    ASSUME NEW s, StackOK(s), NEW r \in RecordType, r.kind # "entry"
    PROVE  Cardinality(CodeIn(Append(s, r))) =
              IF r.kind = "code" THEN Cardinality(CodeIn(s)) + 1 ELSE Cardinality(CodeIn(s))
<1> DEFINE u == Append(s, r)
<1>1. /\ Len(s) \in Nat /\ Len(u) = Len(s) + 1 /\ u[Len(s) + 1] = r
      /\ \A i \in 1 .. Len(s) : u[i] = s[i]
  BY Pushed DEF StackOK
<1> HIDE DEF u
<1>2. CASE r.kind = "code"
  <2>1. CodeIn(u) = CodeIn(s) \union {Len(s) + 1} /\ Len(s) + 1 \notin CodeIn(s)
    BY <1>1, <1>2 DEF CodeIn
  <2>2. QED BY <1>2, <2>1, CodeIsFinite, FS_AddElement DEF u
<1>3. CASE r.kind # "code"
  <2>1. CodeIn(u) = CodeIn(s)
    BY <1>1, <1>3 DEF CodeIn
  <2>2. QED BY <1>3, <2>1 DEF u
<1>4. QED BY <1>2, <1>3

LEMMA CodePopped ==
    ASSUME NEW s, StackOK(s), s[Len(s)].kind # "entry"
    PROVE  Cardinality(CodeIn(SubSeq(s, 1, Len(s) - 1))) =
              IF s[Len(s)].kind = "code" THEN Cardinality(CodeIn(s)) - 1 ELSE Cardinality(CodeIn(s))
<1> DEFINE u == SubSeq(s, 1, Len(s) - 1)
<1>1. /\ Len(s) \in Nat /\ Len(s) > 1 /\ Len(u) = Len(s) - 1
      /\ \A i \in 1 .. Len(s) - 1 : u[i] = s[i]
  BY Popped DEF StackOK
<1> HIDE DEF u
<1>2. CASE s[Len(s)].kind = "code"
  <2>1. CodeIn(u) = CodeIn(s) \ {Len(s)} /\ Len(s) \in CodeIn(s)
    BY <1>1, <1>2 DEF CodeIn
  <2>2. QED BY <1>2, <2>1, CodeIsFinite, FS_RemoveElement DEF u
<1>3. CASE s[Len(s)].kind # "code"
  <2>1. CodeIn(u) = CodeIn(s)
    BY <1>1, <1>3 DEF CodeIn
  <2>2. QED BY <1>3, <2>1 DEF u
<1>4. QED BY <1>2, <1>3

(* In a generic program an activation lies on the frame of its callable.   *)
OnFrames(s) ==
    \A i \in 1 .. Len(s) : s[i].kind = "code" =>
        i > 1 /\ s[i - 1].kind = "frame" /\ s[i - 1].callee = s[i].callee

LEMMA OnFramesPushed ==
    ASSUME NEW s, StackOK(s), OnFrames(s), NEW r \in RecordType, r.kind # "entry",
           r.kind = "code" => s[Len(s)].kind = "frame" /\ s[Len(s)].callee = r.callee
    PROVE  OnFrames(Append(s, r))
<1> DEFINE u == Append(s, r)
<1>1. /\ Len(s) \in Nat /\ Len(s) >= 1 /\ Len(u) = Len(s) + 1 /\ u[Len(s) + 1] = r
      /\ \A i \in 1 .. Len(s) : u[i] = s[i]
  BY Pushed DEF StackOK
<1> HIDE DEF u
<1>2. OnFrames(u)
  BY <1>1 DEF OnFrames
<1>3. QED BY <1>2 DEF u

LEMMA OnFramesPopped ==
    ASSUME NEW s, StackOK(s), OnFrames(s), s[Len(s)].kind # "entry"
    PROVE  OnFrames(SubSeq(s, 1, Len(s) - 1))
<1> DEFINE u == SubSeq(s, 1, Len(s) - 1)
<1>1. /\ Len(s) \in Nat /\ Len(s) > 1 /\ Len(u) = Len(s) - 1
      /\ \A i \in 1 .. Len(s) - 1 : u[i] = s[i]
  BY Popped DEF StackOK
<1> HIDE DEF u
<1>2. OnFrames(u)
  BY <1>1 DEF OnFrames
<1>3. QED BY <1>2 DEF u

-----------------------------------------------------------------------------
(* The inductive invariant: what the stack looks like between two steps,   *)
(* and what control says of its top.                                       *)
Stacked(s, top, d) ==
    /\ Nested(s, top)
    /\ d = Cardinality(CodeIn(s))
    /\ d <= program.limit
    /\ program.path = "generic" => OnFrames(s)

ControlFits ==
    /\ BufferHolds
    /\ Running => Top.kind \in {"entry", "code"}
    /\ control.k = "jump" /\ program.path = "generic" =>
          Top.kind = "frame" /\ Top.callee = control.closure

IInv == TypeOK /\ Stacked(stack, invocationTop, depth) /\ ControlFits

LEMMA StackedStays ==
    ASSUME IInv, UNCHANGED <<program, stack, invocationTop, depth>>
    PROVE  Stacked(stack, invocationTop, depth)'
BY DEF IInv, Stacked, Nested, Latest, CodeIn, OnFrames

(* A frame becomes the top of the frames, another record leaves it.        *)
LEMMA StackedPushed ==
    ASSUME IInv, NEW r \in RecordType, r.kind # "entry", stack' = Append(stack, r), program' = program,
           invocationTop' = IF r.kind = "frame" THEN Len(stack) + 1 ELSE invocationTop,
           r.kind = "frame" => r.previous = invocationTop,
           depth' = IF r.kind = "code" THEN depth + 1 ELSE depth,
           r.kind = "code" => ~(depth >= program.limit),
           r.kind = "code" /\ program.path = "generic" => Top.kind = "frame" /\ Top.callee = r.callee
    PROVE  Stacked(stack, invocationTop, depth)'
<1>1. StackOK(stack) /\ depth \in Nat /\ program.limit \in Nat
  BY ProgramHasType DEF IInv, TypeOK
<1>2. Nested(Append(stack, r), invocationTop')
  BY <1>1, NestPushed DEF IInv, Stacked
<1>3. depth' = Cardinality(CodeIn(Append(stack, r))) /\ depth' <= program.limit
  BY <1>1, CodePushed DEF IInv, Stacked
<1>4. program.path = "generic" => OnFrames(Append(stack, r))
  BY <1>1, OnFramesPushed DEF IInv, Stacked, Top
<1>5. QED BY <1>2, <1>3, <1>4 DEF Stacked, Nested, Latest, CodeIn, OnFrames

LEMMA StackedPopped ==
    ASSUME IInv, Top.kind # "entry", stack' = Pop, program' = program,
           invocationTop' = IF Top.kind = "frame" THEN Top.previous ELSE invocationTop,
           depth' = IF Top.kind = "code" THEN Left ELSE depth
    PROVE  Stacked(stack, invocationTop, depth)'
<1>1. StackOK(stack) /\ depth \in Nat /\ program.limit \in Nat
  BY ProgramHasType DEF IInv, TypeOK
<1>2. StackOK(Pop)
  BY <1>1, Popped DEF Top, Pop
<1>3. Nested(Pop, invocationTop')
  BY <1>1, NestPopped DEF IInv, Stacked, Top, Pop
<1>4. Cardinality(CodeIn(Pop)) = IF Top.kind = "code" THEN depth - 1 ELSE depth
  BY <1>1, CodePopped DEF IInv, Stacked, Top, Pop
<1>5. Cardinality(CodeIn(Pop)) \in Nat
  BY <1>2, CodeIsFinite
<1>6. depth' = Cardinality(CodeIn(Pop)) /\ depth' <= program.limit
  BY <1>1, <1>4, <1>5 DEF IInv, Stacked, Left
<1>7. program.path = "generic" => OnFrames(Pop)
  BY <1>1, OnFramesPopped DEF IInv, Stacked, Top, Pop
<1>8. QED BY <1>3, <1>6, <1>7 DEF Stacked, Nested, Latest, CodeIn, OnFrames

(* What the two conditions on frames of the type lemmas follow from.       *)
LEMMA FrameIsOnTop ==
    ASSUME IInv
    PROVE  /\ FrameOnTop
           /\ Top.kind # "frame" => invocationTop \in 0 .. Len(stack) - 1
<1>1. Len(stack) \in Nat /\ Len(stack) >= 1 /\ invocationTop \in 0 .. Len(stack)
  BY DEF IInv, TypeOK, StackOK
<1>2. Latest(stack, Len(stack), invocationTop)
  BY DEF IInv, Stacked, Nested
<1>3. QED BY <1>1, <1>2 DEF Latest, FrameOnTop, Top

(* A control that neither runs nor jumps fits every stack.                 *)
LEMMA OtherControlFits ==
    ASSUME control'.k \notin {"run", "jump"}
    PROVE  ControlFits'
BY DEF ControlFits, BufferHolds, Running, Run

LEMMA Kinds ==
    ASSUME NEW v, NEW this, NEW target, NEW b, NEW a, NEW status, NEW how
    PROVE  /\ Run.k = "run"
           /\ Dispatch(v, this, target, b, a).k = "dispatch"
           /\ Returned(status, v).k = "returned"
           /\ Fails.k = "returned"
           /\ Ended(how).k = "ended"
BY DEF Run, Dispatch, Returned, Fails, Ended

-----------------------------------------------------------------------------
LEMMA Initially == Init => IInv
<1> SUFFICES ASSUME Init
             PROVE  IInv
  OBVIOUS
<1>1. Entry \in RecordType /\ Entry.kind = "entry"
  BY UndefinedHasType DEF Entry, Record, RecordType
<1>2. stack = <<Entry>> /\ Len(stack) = 1 /\ stack[1].kind = "entry" /\ invocationTop = 0 /\ depth = 0
  BY <1>1 DEF Init
<1>3. StackOK(stack)
  BY <1>1, <1>2 DEF StackOK, RecordType
<1>4. HeapOK
  BY DEF Init, HeapOK, Callables
<1>5. TypeOK
  BY <1>2, <1>3, <1>4 DEF Init, TypeOK, ControlType
<1>6. Nested(stack, invocationTop) /\ OnFrames(stack)
  BY <1>2 DEF Nested, Latest, OnFrames
<1>7. CodeIn(stack) = {}
  BY <1>2 DEF CodeIn
<1>8. Stacked(stack, invocationTop, depth)
  <2>1. program.limit \in Nat
    BY <1>5, ProgramHasType
  <2>2. depth = Cardinality(CodeIn(stack))
    BY <1>2, <1>7, FS_EmptySet
  <2>3. QED BY <1>2, <1>6, <2>1, <2>2 DEF Stacked
<1>9. ControlFits
  BY <1>2 DEF ControlFits, BufferHolds, Init, Run, Top
<1>10. QED BY <1>5, <1>8, <1>9 DEF IInv

(* Steps of the program.                                                   *)
LEMMA ProgramStepKeeps ==
    ASSUME IInv, ProgramStep
    PROVE  IInv'
<1>1. Running /\ control.k = "run" /\ Top.kind \in {"entry", "code"} /\ TypeOK
  <2>1. Running
    BY DEF ProgramStep, NewClosure, NewFunction, NewArrow, Create, ReturnI32, ReturnValue, ThrowValue,
           CallDirect, TailCallDirect, CallIndirect, CallValue, BindValue, ConstructValue
  <2>2. QED BY <2>1 DEF IInv, ControlFits, Running, Run
<1>2. CASE NewClosure \/ NewFunction \/ NewArrow
  <2>1. UNCHANGED <<program, stack, invocationTop, depth, tailArgv, control>>
    BY <1>2 DEF NewClosure, NewFunction, NewArrow, Create
  <2>2. ControlFits'
    BY <1>1, <2>1 DEF ControlFits, BufferHolds, Running, Top
  <2>3. QED BY <1>1, <1>2, <2>1, <2>2, CreateTyped, StackedStays DEF IInv
<1>3. CASE ReturnI32
  <2>1. control' \in ControlType /\ control'.k = "ended"
    BY <1>3 DEF ReturnI32, Ended, ControlType
  <2>2. QED BY <1>1, <1>3, <2>1, ControlTyped, StackedStays, OtherControlFits DEF ReturnI32, IInv, heap
<1>4. ASSUME NEW v \in Values, ReturnValue(v) \/ ThrowValue(v)
      PROVE  IInv'
  <2>1. v \in ValueType
    BY <1>1, ValuesHaveType
  <2>2. CASE \E status \in {0, 1} : LeaveWith(status, v)
    <3>1. PICK status \in {0, 1} : LeaveWith(status, v)
      BY <2>2
    <3>2. UNCHANGED <<heap, invocationTop, tailArgv>>
      BY <1>4 DEF ReturnValue, ThrowValue
    <3>3. TypeOK'
      BY <1>1, <2>1, <3>1, <3>2, LeaveTyped, FrameIsOnTop
    <3>4. control'.k = "returned"
      BY <3>1 DEF LeaveWith, Returned
    <3>5. Stacked(stack, invocationTop, depth)'
      BY <3>1, <3>2, StackedPopped DEF LeaveWith, InFunction, heap
    <3>6. QED BY <3>3, <3>4, <3>5, OtherControlFits DEF IInv
  <2>3. CASE ~ \E status \in {0, 1} : LeaveWith(status, v)
    <3>1. UNCHANGED <<heap, stack, invocationTop, depth, tailArgv>> /\ control' = Ended("uncaught")
      BY <1>4, <2>3 DEF ReturnValue, ThrowValue
    <3>2. control' \in ControlType /\ control'.k = "ended"
      BY <3>1 DEF Ended, ControlType
    <3>3. QED BY <1>1, <3>1, <3>2, ControlTyped, StackedStays, OtherControlFits DEF IInv, heap
  <2>4. QED BY <2>2, <2>3
<1>5. ASSUME NEW a \in program.lists, CallDirect(a)
      PROVE  IInv'
  <2>1. a \in Seq(ValueType)
    BY <1>1, ProgramHasType
  <2>2. control' = Jump(0, a) /\ program.path = "typed" /\ UNCHANGED <<heap, stack, invocationTop, depth, tailArgv>>
    BY <1>5 DEF CallDirect
  <2>3. control' \in ControlType
    BY <2>1, <2>2 DEF Jump, ControlType
  <2>4. ControlFits'
    BY <2>2 DEF ControlFits, BufferHolds, Running, Run, Jump, heap
  <2>5. QED BY <1>1, <2>2, <2>3, <2>4, ControlTyped, StackedStays DEF IInv, heap
<1>6. ASSUME NEW a \in program.lists, TailCallDirect(a)
      PROVE  IInv'
  <2>1. a \in Seq(ValueType) /\ tailArgv \in Seq(ValueType)
    BY <1>1, ProgramHasType DEF TypeOK
  <2>2. /\ control' = TailJump(Len(a)) /\ program.path = "typed" /\ tailArgv' = Written(tailArgv, a)
        /\ Top.kind = "code" /\ stack' = Pop /\ depth' = Left /\ UNCHANGED <<heap, invocationTop>>
    BY <1>6 DEF TailCallDirect, InFunction
  <2>3. Len(a) <= Len(tailArgv')
    BY <2>1, <2>2 DEF Written
  <2>4. ControlFits'
    BY <2>2, <2>3 DEF ControlFits, BufferHolds, Running, Run, TailJump, heap
  <2>5. Stacked(stack, invocationTop, depth)'
    BY <2>2, StackedPopped DEF heap
  <2>6. QED BY <1>1, <1>6, <2>4, <2>5, TailCallTyped, FrameIsOnTop DEF IInv
<1>7. ASSUME NEW c \in Callables, NEW a \in program.lists, CallIndirect(c, a)
      PROVE  IInv'
  <2>1. control'.k = "dispatch" /\ UNCHANGED <<heap, stack, invocationTop, depth, tailArgv>>
    BY <1>7 DEF CallIndirect, Dispatch
  <2>2. QED BY <1>1, <1>7, <2>1, ClosureCallTyped, StackedStays, OtherControlFits DEF IInv, heap
<1>8. ASSUME NEW v \in Values, NEW r \in Receivers, NEW a \in program.lists, CallValue(v, r, a)
      PROVE  IInv'
  <2>1. control'.k = "dispatch" /\ UNCHANGED <<heap, stack, invocationTop, depth, tailArgv>>
    BY <1>8 DEF CallValue, Dispatch
  <2>2. QED BY <1>1, <1>8, <2>1, ValueCallTyped, StackedStays, OtherControlFits DEF IInv, heap
<1>9. ASSUME NEW v \in Values, NEW r \in Receivers, NEW a \in program.lists, BindValue(v, r, a)
      PROVE  IInv'
  <2>1. UNCHANGED <<program, stack, invocationTop, depth, tailArgv>> /\ (control' = control \/ control' = Fails)
    BY <1>9 DEF BindValue
  <2>2. ControlFits'
    BY <1>1, <2>1, OtherControlFits DEF ControlFits, BufferHolds, Running, Top, Fails, Returned
  <2>3. QED BY <1>1, <1>9, <2>1, <2>2, BindTyped, StackedStays DEF IInv
<1>10. ASSUME NEW v \in Values, NEW a \in program.lists, ConstructValue(v, a)
      PROVE  IInv'
  <2>1. control'.k \in {"dispatch", "returned"} /\ UNCHANGED <<program, invocationTop, depth, tailArgv>>
    BY <1>10 DEF ConstructValue, Dispatch, Fails, Returned
  <2>2. Stacked(stack, invocationTop, depth)'
    <3>1. CASE ~CanConstruct(v)
      BY <1>10, <2>1, <3>1, StackedStays DEF ConstructValue
    <3>2. CASE CanConstruct(v)
      <4>1. PICK o \in Nat : stack' = Append(stack, Constructing(v.id, Object(o)))
        BY <1>1, <1>10, <3>2 DEF ConstructValue, TypeOK, HeapOK
      <4>2. Object(o) \in ValueType /\ v.id \in Nat
        BY <1>1, <4>1, ValuesHaveType DEF Object, ValueType
      <4>3. Constructing(v.id, Object(o)) \in RecordType /\ Constructing(v.id, Object(o)).kind = "construct"
        BY <4>2, UndefinedHasType DEF Constructing, Record, RecordType
      <4>4. QED BY <2>1, <4>1, <4>3, StackedPushed
    <3>3. QED BY <3>1, <3>2
  <2>3. QED BY <1>1, <1>10, <2>1, <2>2, ConstructTyped, OtherControlFits DEF IInv
<1>11. (\E v \in Values : ReturnValue(v) \/ ThrowValue(v)) => IInv'
  BY <1>4
<1>12. (\E a \in program.lists : CallDirect(a) \/ TailCallDirect(a)) => IInv'
  BY <1>5, <1>6
<1>13. (\E v \in Values, a \in program.lists : ConstructValue(v, a)) => IInv'
  BY <1>10
<1>14. QED BY <1>2, <1>3, <1>7, <1>9, <1>8, <1>11, <1>12, <1>13 DEF ProgramStep

(* Steps of the runtime.                                                   *)
LEMMA RuntimeStepKeeps ==
    ASSUME IInv, RuntimeStep
    PROVE  IInv'
<1>1. TypeOK /\ BufferHolds /\ Len(stack) \in Nat /\ Top \in RecordType
  BY DEF IInv, ControlFits, TypeOK, StackOK, Top
<1>2. CASE DispatchUncallable
  <2>1. control'.k = "returned" /\ UNCHANGED <<heap, stack, invocationTop, depth, tailArgv>>
    BY <1>2 DEF DispatchUncallable, Fails, Returned
  <2>2. QED BY <1>1, <1>2, <2>1, DispatchTyped, StackedStays, OtherControlFits DEF IInv, heap
<1>3. CASE DispatchBound
  <2>1. /\ control'.k = "dispatch" /\ UNCHANGED <<heap, invocationTop, depth, tailArgv>>
        /\ stack' = Append(stack, BoundDispatch(control.callee.id)) /\ control.callee.id \in Nat
    BY <1>3 DEF DispatchBound, Dispatch, IsCallable, Callables
  <2>2. BoundDispatch(control.callee.id) \in RecordType /\ BoundDispatch(control.callee.id).kind = "bound"
    BY <2>1, UndefinedHasType DEF BoundDispatch, Record, RecordType
  <2>3. QED BY <1>1, <1>3, <2>1, <2>2, DispatchTyped, StackedPushed, OtherControlFits DEF IInv, heap
<1>4. CASE DispatchNative
  <2> DEFINE c == control.callee.id
             r == Frame(c, FrameThis(c, control.this), control.newTarget)
  <2>1. /\ control' = Jump(c, control.argv) /\ UNCHANGED <<heap, depth, tailArgv>>
        /\ stack' = Append(stack, r) /\ invocationTop' = Len(stack) + 1
    BY <1>4 DEF DispatchNative
  <2>2. r.kind = "frame" /\ r.callee = c /\ r.previous = invocationTop
    BY DEF Frame, Record
  <2>3. TypeOK'
    BY <1>1, <1>4, DispatchTyped
  <2>4. r \in RecordType /\ stack'[Len(stack')] = r
    <3> HIDE DEF r
    <3>1. Len(stack') = Len(stack) + 1 /\ stack'[Len(stack) + 1] = r
      BY <1>1, <2>1 DEF TypeOK, StackOK
    <3>2. QED BY <2>3, <3>1 DEF TypeOK, StackOK
  <2>5. Stacked(stack, invocationTop, depth)'
    <3> HIDE DEF r
    <3>1. QED BY <2>1, <2>2, <2>4, StackedPushed DEF heap
  <2>6. ControlFits'
    <3> HIDE DEF r
    <3>1. QED BY <2>1, <2>2, <2>4 DEF ControlFits, BufferHolds, Running, Run, Jump, Top
  <2>7. QED BY <2>3, <2>5, <2>6 DEF IInv
<1>5. CASE EnterFunction
  <2>1. TypeOK'
    BY <1>1, <1>5, EnterTyped
  <2>2. CASE depth >= program.limit
    <3>1. control'.k = "ended" /\ UNCHANGED <<heap, stack, invocationTop, depth, tailArgv>>
      BY <1>5, <2>2 DEF EnterFunction, Ended
    <3>2. QED BY <2>1, <3>1, StackedStays, OtherControlFits DEF IInv, heap
  <2>3. CASE ~(depth >= program.limit)
    <3> DEFINE r == Code(control.closure, Parameters(control))
    <3>1. /\ control.k = "jump" /\ control' = Run /\ UNCHANGED <<heap, invocationTop, tailArgv>>
          /\ stack' = Append(stack, r) /\ depth' = depth + 1
      BY <1>5, <2>3 DEF EnterFunction
    <3>2. r.kind = "code" /\ r.callee = control.closure
      BY DEF Code, Record
    <3> HIDE DEF r
    <3>3. Len(stack') = Len(stack) + 1 /\ stack'[Len(stack) + 1] = r
      BY <1>1, <3>1 DEF TypeOK, StackOK
    <3>4. r \in RecordType /\ Top' = r
      BY <2>1, <3>1, <3>3 DEF TypeOK, StackOK, Top
    <3>5. program.path = "generic" => Top.kind = "frame" /\ Top.callee = r.callee
      BY <3>1, <3>2 DEF IInv, ControlFits
    <3>6. Stacked(stack, invocationTop, depth)'
      BY <2>3, <3>1, <3>2, <3>4, <3>5, StackedPushed DEF heap
    <3>7. ControlFits'
      BY <3>1, <3>2, <3>4 DEF ControlFits, BufferHolds, Run
    <3>8. QED BY <2>1, <3>6, <3>7 DEF IInv
  <2>4. QED BY <2>2, <2>3
<1>6. CASE ReturnToFrame \/ ReturnToBound \/ ReturnToConstruct
  <2>1. /\ control.k = "returned" /\ control.status \in {0, 1} /\ control.value \in ValueType
        /\ Top.kind \in {"frame", "bound", "construct"} /\ Top.this \in ValueType
    BY <1>1, <1>6 DEF ReturnToFrame, ReturnToBound, ReturnToConstruct, Back, TypeOK, ControlType, Run, RecordType
  <2>2. /\ stack' = Pop /\ UNCHANGED <<heap, depth, tailArgv>>
        /\ invocationTop' = IF Top.kind = "frame" THEN Top.previous ELSE invocationTop
    BY <1>6 DEF ReturnToFrame, ReturnToBound, ReturnToConstruct, Back
  <2>3. control' \in ControlType /\ control'.k = "returned"
    <3>1. Returned(0, Top.this) \in ControlType /\ Returned(0, Top.this).k = "returned"
      BY <2>1 DEF Returned, ControlType
    <3>2. QED BY <1>1, <1>6, <2>1, <3>1
              DEF ReturnToFrame, ReturnToBound, ReturnToConstruct, ConstructResult, TypeOK
  <2>4. invocationTop' \in 0 .. Len(stack) - 1
    <3>1. CASE Top.kind = "frame"
      BY <1>1, <2>1, <2>2, <3>1, NestPopped DEF IInv, Stacked, TypeOK, Top
    <3>2. CASE Top.kind # "frame"
      BY <2>2, <3>2, FrameIsOnTop
    <3>3. QED BY <3>1, <3>2
  <2>5. TypeOK'
    BY <1>1, <2>1, <2>2, <2>3, <2>4, PopTyped
  <2>6. Stacked(stack, invocationTop, depth)'
    BY <2>1, <2>2, StackedPopped DEF heap
  <2>7. QED BY <2>3, <2>5, <2>6, OtherControlFits DEF IInv
<1>7. CASE PropagateCompletion
  <2>1. control.k = "returned" /\ control.status \in {0, 1} /\ control.value \in ValueType /\ Top.kind = "code"
    BY <1>1, <1>7 DEF PropagateCompletion, Back, TypeOK, ControlType, Run
  <2>2. CASE control.status = 0
    <3>1. control' = Run /\ UNCHANGED <<heap, stack, invocationTop, depth, tailArgv>>
      BY <1>7, <2>2 DEF PropagateCompletion
    <3>2. control' \in ControlType
      BY <3>1 DEF ControlType
    <3>3. ControlFits'
      BY <2>1, <3>1 DEF ControlFits, BufferHolds, Run, Top
    <3>4. QED BY <1>1, <3>1, <3>2, <3>3, ControlTyped, StackedStays DEF IInv, heap
  <2>3. CASE control.status = 1
    <3>1. LeaveWith(1, control.value) /\ UNCHANGED <<heap, invocationTop, tailArgv>>
      BY <1>7, <2>3 DEF PropagateCompletion
    <3>2. TypeOK'
      BY <1>1, <2>1, <3>1, LeaveTyped, FrameIsOnTop
    <3>3. control'.k = "returned"
      BY <3>1 DEF LeaveWith, Returned
    <3>4. Stacked(stack, invocationTop, depth)'
      BY <2>1, <3>1, StackedPopped DEF LeaveWith, heap
    <3>5. QED BY <3>2, <3>3, <3>4, OtherControlFits DEF IInv
  <2>4. QED BY <2>1, <2>2, <2>3
<1>8. CASE ReturnToEntry
  <2>1. Top.kind = "entry" /\ UNCHANGED <<heap, stack, invocationTop, depth, tailArgv>>
        /\ (control' = Run \/ control' = Ended("uncaught"))
    BY <1>8 DEF ReturnToEntry, Back
  <2>2. control' \in ControlType
    BY <2>1 DEF ControlType, Ended
  <2>3. ControlFits'
    BY <2>1 DEF ControlFits, BufferHolds, Running, Run, Ended, Top
  <2>4. QED BY <1>1, <2>1, <2>2, <2>3, ControlTyped, StackedStays DEF IInv, heap
<1>9. QED BY <1>2, <1>3, <1>4, <1>5, <1>6, <1>7, <1>8 DEF RuntimeStep

LEMMA Inductive == IInv /\ [Next]_vars => IInv'
<1> SUFFICES ASSUME IInv, [Next]_vars
             PROVE  IInv'
  OBVIOUS
<1>1. CASE Next
  BY <1>1, ProgramStepKeeps, RuntimeStepKeeps DEF Next
<1>2. CASE UNCHANGED vars
  <2>1. UNCHANGED <<heap, stack, invocationTop, depth, tailArgv, control>>
    BY <1>2 DEF vars, heap
  <2>2. control' \in ControlType
    BY <2>1 DEF IInv, TypeOK
  <2>3. ControlFits'
    BY <2>1 DEF IInv, ControlFits, BufferHolds, Running, Top, heap
  <2>4. QED BY <2>1, <2>2, <2>3, ControlTyped, StackedStays DEF IInv, heap
<1>3. QED BY <1>1, <1>2

LEMMA Invariant == Spec => []IInv
BY Initially, Inductive, PTL DEF Spec

-----------------------------------------------------------------------------
(* The stack, the heap and what the runtime hands on are well formed: a    *)
(* frame that is taken away leaves invocationTop in the stack, bound       *)
(* functions lead to older callables, and a tail call reads no argument    *)
(* beyond the buffer.                                                      *)
THEOREM TypeCorrect == Spec => []TypeOK
<1>1. IInv => TypeOK
  BY DEF IInv
<1>2. QED BY <1>1, Invariant, PTL

(* ecmora_recursion_depth is the number of active compiled functions and   *)
(* at most the limit, for every limit and however functions are left.      *)
THEOREM DepthCorrect == Spec => []DepthCounts
<1>1. IInv => DepthCounts
  BY DEF IInv, Stacked, DepthCounts, Active, CodeIn
<1>2. QED BY <1>1, Invariant, PTL

(* Who runs finds its own frame, or none.                                  *)
LEMMA OwnFrame ==
    ASSUME IInv
    PROVE  ThisIsOwn
<1> SUFFICES ASSUME IInv, Running
             PROVE  /\ ~InFunction => invocationTop = 0
                    /\ InFunction /\ program.path = "generic" =>
                          /\ invocationTop = Len(stack) - 1
                          /\ stack[invocationTop].kind = "frame"
                          /\ stack[invocationTop].callee = Top.callee
  BY DEF ThisIsOwn
<1>1. /\ Latest(stack, Len(stack), invocationTop) /\ StackOK(stack)
      /\ Top.kind \in {"entry", "code"} /\ Len(stack) \in Nat /\ Len(stack) >= 1
  BY DEF IInv, Stacked, Nested, ControlFits, TypeOK, StackOK
<1>2. CASE ~InFunction
  <2>1. stack[Len(stack)].kind = "entry" /\ Len(stack) \in 1 .. Len(stack)
    BY <1>1, <1>2 DEF InFunction, Top
  <2>2. Len(stack) = 1
    BY <1>1, <2>1 DEF StackOK
  <2>3. stack[1].kind = "entry" /\ invocationTop \in 0 .. 1
    BY <1>1, <2>2, <2>1 DEF Latest
  <2>4. invocationTop = 0
    BY <1>1, <2>2, <2>3 DEF Latest
  <2>5. QED BY <1>2, <2>4
<1>3. CASE InFunction /\ program.path = "generic"
  <2>1. OnFrames(stack) /\ Top.kind = "code"
    BY <1>3 DEF IInv, Stacked, InFunction
  <2>2. Len(stack) > 1 /\ stack[Len(stack) - 1].kind = "frame" /\ stack[Len(stack) - 1].callee = Top.callee
    BY <1>1, <2>1 DEF OnFrames, Top
  <2>3. invocationTop = Len(stack) - 1
    BY <1>1, <2>1, <2>2 DEF Latest, Top
  <2>4. QED BY <1>3, <2>2, <2>3
<1>4. QED BY <1>2, <1>3

(* Whoever runs finds its own invocation on top of the frames.             *)
THEOREM ThisCorrect == Spec => []ThisIsOwn
<1>1. IInv => ThisIsOwn
  BY OwnFrame
<1>2. QED BY <1>1, Invariant, PTL

-----------------------------------------------------------------------------
(* The refinement of CallContract.  The execution contexts of a stack and  *)
(* what control means to the contract, with the state made a parameter.    *)
PositionsIn(s) == {i \in 1 .. Len(s) : s[i].kind \in {"entry", "code"}}
CallerIn(P, i) == CHOOSE p \in P : p < i /\ \A q \in P : q < i => q <= p
Below(P, i) == {p \in P : p <= i}
NthIn(P, n) == CHOOSE i \in P : Cardinality(Below(P, i)) = n
AboveIn(s, p) == IF p < Len(s) /\ s[p + 1].kind = "construct" THEN s[p + 1].this ELSE Undefined
PendingIn(s) == AboveIn(s, CallerIn(PositionsIn(s), Len(s) + 1))

ContextFor(s, path, closure, frame, parameters, receiver) ==
    LET read == path = "generic"
    IN [callee |-> closure, this |-> IF read THEN s[frame].this ELSE Undefined,
        newTarget |-> IF read THEN s[frame].newTarget ELSE Undefined,
        arguments |-> parameters, receiver |-> receiver]

ContextIn(s, path, i) ==
    IF i = 1
    THEN [callee |-> 0, this |-> Undefined, newTarget |-> Undefined, arguments |-> <<>>,
          receiver |-> Undefined]
    ELSE ContextFor(s, path, s[i].callee, i - 1, s[i].arguments, AboveIn(s, CallerIn(PositionsIn(s), i)))

ContextsIn(s, path) ==
    [n \in 1 .. Cardinality(PositionsIn(s)) |-> ContextIn(s, path, NthIn(PositionsIn(s), n))]

(* The chains of bound functions among the callables cs.                   *)
ChainStep(r, cs, c) ==
    IF ~(cs[c].kind = "bound")
    THEN [target |-> c, this |-> Undefined, bound |-> FALSE, arguments |-> <<>>]
    ELSE LET next == r[cs[c].target]
         IN [target |-> next.target,
             this |-> IF next.bound THEN next.this ELSE cs[c].this,
             bound |-> TRUE,
             arguments |-> next.arguments \o cs[c].arguments]
IsChain(r, cs, D) == r = [c \in D |-> ChainStep(r, cs, c)]
ChainIn(cs) == CHOOSE r : IsChain(r, cs, 1 .. Len(cs))

ThisIn(cs, path, f, receiver) ==
    IF path = "typed" THEN Undefined
    ELSE CASE "lexical" \in cs[f].flags -> cs[f].this
           [] /\ ~("lexical" \in cs[f].flags) /\ ~("strict" \in cs[f].flags)
              /\ receiver = Undefined -> GlobalThis
           [] OTHER -> receiver

LedIn(cs, path, call, receiver) ==
    LET chain == ChainIn(cs)[call.callee.id]
    IN [callee |-> chain.target,
        this |-> ThisIn(cs, path, chain.target,
                        IF chain.bound /\ ~call.constructing THEN chain.this ELSE call.this),
        newTarget |-> IF call.constructing /\ call.newTarget = call.callee
                      THEN Callable(chain.target) ELSE call.newTarget,
        arguments |-> chain.arguments \o call.argv,
        receiver |-> receiver]

CompletionIn(receiver, c) ==
    LET r == IF receiver = Undefined THEN c ELSE ConstructResult(receiver, c)
    IN [k |-> "complete", status |-> r.status, value |-> r.value]

ParametersIn(buffer, jump) == IF jump.tail THEN SubSeq(buffer, 1, jump.argc) ELSE jump.argv
CallableIn(cs, v) == v.tag = "callable" /\ v.id \in 1 .. Len(cs)

ControlIn(k, s, cs, path, buffer) ==
    CASE k.k = "dispatch" /\ CallableIn(cs, k.callee) ->
           [k |-> "invoke", context |-> LedIn(cs, path, k, PendingIn(s))]
      [] k.k = "dispatch" /\ ~CallableIn(cs, k.callee) -> CompletionIn(PendingIn(s), Fails)
      [] k.k = "jump" ->
           [k |-> "invoke",
            context |-> ContextFor(s, path, k.closure, Len(s), ParametersIn(buffer, k), PendingIn(s))]
      [] k.k = "returned" -> CompletionIn(PendingIn(s), k)
      [] OTHER -> k

Seen == ControlIn(control, stack, callables, program.path, tailArgv)

LEMMA ChainIsChain ==
    /\ Language!Chain = ChainIn(callables)
    /\ Calls!Chain = ChainIn(callables)
<1>1. Language!Chain = ChainIn(callables)
  BY DEF Undefined, Language!Undefined, Language!Chain, Language!Callables, Language!IsBound,
         ChainIn, IsChain, ChainStep
<1>2. Calls!Chain = ChainIn(callables)
  BY DEF Undefined, Calls!Undefined, Calls!Chain, Calls!Callables, Calls!IsBound,
         ChainIn, IsChain, ChainStep
<1>3. QED BY <1>1, <1>2

LEMMA ThisIsThis ==
    ASSUME NEW f, NEW r
    PROVE  /\ Language!ThisOf(f, r) = ThisIn(callables, program.path, f, r)
           /\ Calls!ThisOf(f, r) = ThisIn(callables, program.path, f, r)
<1>1. Language!ThisOf(f, r) = ThisIn(callables, program.path, f, r)
  BY DEF Language!ThisOf, Language!Has, Language!Undefined, Language!GlobalThis, Language!Object,
         ThisIn, GlobalThis, Object, Undefined
<1>2. Calls!ThisOf(f, r) = ThisIn(callables, program.path, f, r)
  BY DEF Calls!ThisOf, Calls!Has, Calls!Undefined, Calls!GlobalThis, Calls!Object,
         ThisIn, GlobalThis, Object, Undefined
<1>3. QED BY <1>1, <1>2

LEMMA ContextsNow == Contexts = ContextsIn(stack, program.path)
BY DEF Contexts, ContextAt, ContextOf, Nth, CallerOf, ReceiverAbove, Positions,
       ContextsIn, ContextIn, ContextFor, NthIn, Below, CallerIn, AboveIn, PositionsIn

LEMMA PendingNow == Pending = PendingIn(stack)
BY DEF Pending, PendingIn, ReceiverAbove, AboveIn, CallerOf, CallerIn, Positions, PositionsIn

LEMMA LedNow ==
    ASSUME NEW call
    PROVE  Led(call) = LedIn(callables, program.path, call, PendingIn(stack))
BY PendingNow, ChainIsChain, ThisIsThis DEF Led, LedIn

LEMMA ControlNow == ControlOf = Seen
<1>1. Led(control) = LedIn(callables, program.path, control, PendingIn(stack))
  BY LedNow
<1>2. /\ Completion(Fails) = CompletionIn(PendingIn(stack), Fails)
      /\ Completion(control) = CompletionIn(PendingIn(stack), control)
  BY PendingNow DEF Completion, CompletionIn
<1>3. ContextOf(control.closure, Len(stack), Parameters(control), Pending)
      = ContextFor(stack, program.path, control.closure, Len(stack), ParametersIn(tailArgv, control),
                   PendingIn(stack))
  BY PendingNow DEF ContextOf, ContextFor, Parameters, ParametersIn
<1>4. IsCallable(control.callee) <=> CallableIn(callables, control.callee)
  BY DEF IsCallable, CallableIn, Callables
<1>5. QED BY <1>1, <1>2, <1>3, <1>4 DEF ControlOf, Seen, ControlIn

-----------------------------------------------------------------------------
(* Positions in the order of the stack.                                    *)
LEMMA LeastElement ==
    ASSUME NEW T \in SUBSET Nat, T # {}
    PROVE  \E x \in T : \A y \in T : x <= y
<1>1. PICK R : R = OpToRel(<, Nat)
  OBVIOUS
<1>2. IsWellFoundedOn(R, Nat)
  BY <1>1, NatLessThanWellFounded
<1>3. PICK x \in T : \A y \in T : ~(<<y, x>> \in R)
  BY <1>2, WFMin
<1>4. \A y \in T : y < x => <<y, x>> \in R
  BY <1>1 DEF OpToRel
<1>5. \A y \in T : ~(y < x)
  BY <1>3, <1>4
<1>6. QED BY <1>5

(* A set of numbers that holds 0 and with each number the next, up to N.   *)
LEMMA Climbs ==
    ASSUME NEW N \in Nat, NEW T, 0 \in T, \A n \in 0 .. (N - 1) : n \in T => n + 1 \in T
    PROVE  N \in T
<1> SUFFICES ASSUME N \notin T
             PROVE  FALSE
  OBVIOUS
<1>1. PICK U : U = {m \in 0 .. N : m \notin T}
  OBVIOUS
<1>2. PICK x \in U : \A y \in U : x <= y
  <2>1. U \in SUBSET Nat /\ U # {}
    BY <1>1
  <2>2. QED BY <2>1, LeastElement
<1>3. x \in 1 .. N /\ x - 1 \in 0 .. (N - 1) /\ x \notin T
  BY <1>1, <1>2
<1>4. x - 1 \notin U
  BY <1>2, <1>3
<1>5. x - 1 \in T
  BY <1>1, <1>3, <1>4
<1>6. QED BY <1>3, <1>5

(* Positions below a number are finitely many.                             *)
LEMMA BelowIsFinite ==
    ASSUME NEW L \in Nat, NEW P, \A p \in P : p \in 1 .. L, NEW i
    PROVE  /\ IsFiniteSet(Below(P, i)) /\ Cardinality(Below(P, i)) \in Nat
           /\ IsFiniteSet(P) /\ Cardinality(P) \in Nat
<1>1. PICK a : a = 1
  OBVIOUS
<1>2. IsFiniteSet(a .. L)
  BY <1>1, FS_Interval
<1>3. IsFiniteSet(P) /\ IsFiniteSet(Below(P, i))
  BY <1>1, <1>2, FS_Subset DEF Below
<1>4. QED BY <1>3, FS_CardinalityType

LEMMA NthExists ==
    ASSUME NEW L \in Nat, NEW P, \A p \in P : p \in 1 .. L, NEW n \in 1 .. Cardinality(P)
    PROVE  \E i \in P : Cardinality(Below(P, i)) = n
<1>1. PICK T : T = {m \in 0 .. L : \A k \in 1 .. Cardinality(Below(P, m)) :
                                      \E i \in P : Cardinality(Below(P, i)) = k}
  OBVIOUS
<1>2. 0 \in T
  <2>1. Below(P, 0) = {}
    BY DEF Below
  <2>2. Cardinality(Below(P, 0)) = 0
    BY <2>1, FS_EmptySet
  <2>3. QED BY <1>1, <2>2
<1>3. ASSUME NEW m \in 0 .. (L - 1), m \in T
      PROVE  m + 1 \in T
  <2>1. CASE m + 1 \notin P
    <3>1. Below(P, m + 1) = Below(P, m)
      BY <2>1 DEF Below
    <3>2. QED BY <1>1, <1>3, <3>1
  <2>2. CASE m + 1 \in P
    <3>1. Below(P, m + 1) = Below(P, m) \union {m + 1} /\ m + 1 \notin Below(P, m)
      BY <2>2 DEF Below
    <3>2. Cardinality(Below(P, m + 1)) = Cardinality(Below(P, m)) + 1 /\ Cardinality(Below(P, m)) \in Nat
      BY <3>1, BelowIsFinite, FS_AddElement
    <3>3. \A k \in 1 .. Cardinality(Below(P, m + 1)) :
             k \in 1 .. Cardinality(Below(P, m)) \/ k = Cardinality(Below(P, m + 1))
      BY <3>2
    <3>4. m + 1 \in 0 .. L
      OBVIOUS
    <3>5. QED BY <1>1, <1>3, <2>2, <3>3, <3>4
  <2>3. QED BY <2>1, <2>2
<1>4. L \in T
  BY <1>2, <1>3, Climbs
<1>5. Below(P, L) = P
  BY DEF Below
<1>6. QED BY <1>1, <1>4, <1>5

LEMMA RanksDiffer ==
    ASSUME NEW L \in Nat, NEW P, \A p \in P : p \in 1 .. L, NEW i \in P, NEW j \in P,
           Cardinality(Below(P, i)) = Cardinality(Below(P, j))
    PROVE  i = j
<1>1. ASSUME NEW x \in P, NEW y \in P, x < y, Cardinality(Below(P, x)) = Cardinality(Below(P, y))
      PROVE  FALSE
  <2>1. Below(P, x) \subseteq Below(P, y) /\ y \in Below(P, y) /\ y \notin Below(P, x)
    BY <1>1 DEF Below
  <2>2. IsFiniteSet(Below(P, y))
    BY BelowIsFinite
  <2>3. QED BY <1>1, <2>1, <2>2, FS_Subset
<1>2. i < j \/ j < i \/ i = j
  OBVIOUS
<1>3. QED BY <1>1, <1>2

(* The n-th position is one, and no other has its rank.                    *)
LEMMA NthIs ==
    ASSUME NEW L \in Nat, NEW P, \A p \in P : p \in 1 .. L, NEW n \in 1 .. Cardinality(P)
    PROVE  /\ NthIn(P, n) \in P
           /\ Cardinality(Below(P, NthIn(P, n))) = n
           /\ \A i \in P : Cardinality(Below(P, i)) = n => i = NthIn(P, n)
<1>1. NthIn(P, n) \in P /\ Cardinality(Below(P, NthIn(P, n))) = n
  BY NthExists DEF NthIn
<1>2. QED BY <1>1, RanksDiffer

(* The position before a number, when the first record is one.             *)
IsCaller(P, i, p) == p \in P /\ p < i /\ \A q \in P : q < i => q <= p

LEMMA CallerIs ==
    ASSUME NEW L \in Nat, NEW P, \A p \in P : p \in 1 .. L, 1 \in P, NEW i \in Nat, i > 1
    PROVE  /\ IsCaller(P, i, CallerIn(P, i))
           /\ \A p : IsCaller(P, i, p) => p = CallerIn(P, i)
<1>1. PICK T : T = {i - p : p \in {q \in P : q < i}}
  OBVIOUS
<1>2. T \in SUBSET Nat /\ i - 1 \in T
  BY <1>1
<1>3. PICK d \in T : \A e \in T : d <= e
  BY <1>2, LeastElement
<1>4. PICK p \in P : p < i /\ d = i - p
  BY <1>1
<1>5. \A q \in P : q < i => q <= p
  BY <1>1, <1>3, <1>4
<1>6. \E q \in P : q < i /\ \A r \in P : r < i => r <= q
  BY <1>4, <1>5
<1>7. IsCaller(P, i, CallerIn(P, i))
  BY <1>6 DEF CallerIn, IsCaller
<1>8. ASSUME NEW q, IsCaller(P, i, q)
      PROVE  q = CallerIn(P, i)
  BY <1>7, <1>8 DEF IsCaller
<1>9. QED BY <1>7, <1>8

-----------------------------------------------------------------------------
(* What pushing a record does to the contexts.                             *)
LEMMA PositionsAre ==
    ASSUME NEW s, StackOK(s)
    PROVE  /\ Len(s) \in Nat /\ Len(s) >= 1
           /\ 1 \in PositionsIn(s)
           /\ \A p \in PositionsIn(s) : p \in 1 .. Len(s)
BY DEF StackOK, PositionsIn

LEMMA PositionsPushed ==
    ASSUME NEW s, StackOK(s), NEW r \in RecordType, r.kind # "entry"
    PROVE  PositionsIn(Append(s, r)) =
              IF r.kind = "code" THEN PositionsIn(s) \union {Len(s) + 1} ELSE PositionsIn(s)
<1> DEFINE u == Append(s, r)
<1>1. /\ Len(s) \in Nat /\ Len(u) = Len(s) + 1 /\ u[Len(s) + 1] = r
      /\ \A i \in 1 .. Len(s) : u[i] = s[i]
  BY Pushed DEF StackOK
<1> HIDE DEF u
<1>2. \A i \in 1 .. Len(u) : i = Len(s) + 1 \/ i \in 1 .. Len(s)
  BY <1>1
<1>3. \A i \in 1 .. Len(s) : i \in 1 .. Len(u)
  BY <1>1
<1>4. CASE r.kind = "code"
  <2>1. Len(s) + 1 \in 1 .. Len(u)
    BY <1>1
  <2>2. PositionsIn(u) = PositionsIn(s) \union {Len(s) + 1}
    BY <1>1, <1>2, <1>3, <1>4, <2>1 DEF PositionsIn
  <2>3. QED BY <1>4, <2>2 DEF u
<1>5. CASE r.kind # "code"
  <2>1. PositionsIn(u) = PositionsIn(s)
    BY <1>1, <1>2, <1>3, <1>5 DEF PositionsIn
  <2>2. QED BY <1>5, <2>1 DEF u
<1>6. QED BY <1>4, <1>5

(* Callers stay the same below the top.                                    *)
LEMMA CallerKept ==
    ASSUME NEW s, StackOK(s), NEW r \in RecordType, r.kind # "entry",
           NEW i \in 2 .. Len(s) + 1
    PROVE  /\ CallerIn(PositionsIn(Append(s, r)), i) = CallerIn(PositionsIn(s), i)
           /\ CallerIn(PositionsIn(s), i) \in 1 .. (i - 1)
<1>1. PICK P, L, R, q : /\ P = PositionsIn(s) /\ L = Len(s) /\ R = PositionsIn(Append(s, r))
                        /\ q = CallerIn(P, i)
  OBVIOUS
<1>2. /\ L \in Nat /\ L >= 1 /\ 1 \in P /\ \A p \in P : p \in 1 .. L
      /\ \A p \in P : p \in 1 .. (L + 1)
  BY <1>1, PositionsAre
<1>3. P \subseteq R /\ \A p \in R : p \in P \/ p = L + 1
  BY <1>1, PositionsPushed
<1>4. L + 1 \in Nat /\ 1 \in R /\ \A p \in R : p \in 1 .. (L + 1)
  BY <1>2, <1>3
<1>5. i \in Nat /\ i > 1 /\ i <= L + 1
  BY <1>1, <1>2
<1>6. IsCaller(P, i, q)
  BY <1>1, <1>2, <1>5, CallerIs
<1>7. IsCaller(R, i, q)
  BY <1>2, <1>3, <1>4, <1>5, <1>6 DEF IsCaller
<1>8. q = CallerIn(R, i)
  BY <1>4, <1>5, <1>7, CallerIs
<1>9. q \in 1 .. (i - 1)
  BY <1>2, <1>5, <1>6 DEF IsCaller
<1>10. QED BY <1>1, <1>8, <1>9

LEMMA AboveKept ==
    ASSUME NEW s, StackOK(s), NEW r \in RecordType, r.kind # "entry", NEW q \in 1 .. (Len(s) - 1)
    PROVE  AboveIn(Append(s, r), q) = AboveIn(s, q)
<1> DEFINE u == Append(s, r)
<1>1. /\ Len(s) \in Nat /\ Len(u) = Len(s) + 1
      /\ \A i \in 1 .. Len(s) : u[i] = s[i]
  BY Pushed DEF StackOK
<1> HIDE DEF u
<1>2. q < Len(s) /\ q < Len(u) /\ u[q + 1] = s[q + 1]
  BY <1>1
<1>3. AboveIn(u, q) = AboveIn(s, q)
  BY <1>2 DEF AboveIn
<1>4. QED BY <1>3 DEF u

LEMMA ContextKept ==
    ASSUME NEW s, StackOK(s), NEW r \in RecordType, r.kind # "entry", NEW path,
           NEW i \in PositionsIn(s)
    PROVE  ContextIn(Append(s, r), path, i) = ContextIn(s, path, i)
<1>1. CASE i = 1
  BY <1>1 DEF ContextIn
<1>2. CASE i # 1
  <2> DEFINE u == Append(s, r)
  <2>1. /\ Len(s) \in Nat /\ i \in 2 .. Len(s) /\ i \in 2 .. Len(s) + 1
        /\ i - 1 \in 1 .. Len(s) /\ i \in 1 .. Len(s)
    BY <1>2, PositionsAre
  <2>2. u[i] = s[i] /\ u[i - 1] = s[i - 1]
    BY <2>1, Pushed
  <2>3. PICK q : q = CallerIn(PositionsIn(s), i)
    OBVIOUS
  <2>4. q = CallerIn(PositionsIn(u), i) /\ q \in 1 .. (i - 1)
    BY <2>1, <2>3, CallerKept
  <2>5. q \in 1 .. (Len(s) - 1)
    BY <2>1, <2>4
  <2>6. AboveIn(u, q) = AboveIn(s, q)
    BY <2>5, AboveKept
  <2> HIDE DEF u
  <2>7. ContextIn(u, path, i) = ContextIn(s, path, i)
    BY <1>2, <2>2, <2>3, <2>4, <2>6 DEF ContextIn, ContextFor
  <2>8. QED BY <2>7 DEF u
<1>3. QED BY <1>1, <1>2

(* A record of the runtime changes no context.                             *)
LEMMA ContextsOther ==
    ASSUME NEW s, StackOK(s), NEW r \in RecordType, r.kind \notin {"entry", "code"}, NEW path
    PROVE  ContextsIn(Append(s, r), path) = ContextsIn(s, path)
<1>1. PICK P, N : P = PositionsIn(s) /\ N = Cardinality(P)
  OBVIOUS
<1>2. PositionsIn(Append(s, r)) = P
  BY <1>1, PositionsPushed
<1>3. ASSUME NEW n \in 1 .. N
      PROVE  ContextIn(Append(s, r), path, NthIn(P, n)) = ContextIn(s, path, NthIn(P, n))
  <2>1. NthIn(P, n) \in P
    BY <1>1, <1>3, PositionsAre, NthIs
  <2>2. QED BY <1>1, <2>1, ContextKept
<1>4. QED BY <1>1, <1>2, <1>3 DEF ContextsIn

LEMMA ContextsLength ==
    ASSUME NEW s, StackOK(s), NEW path
    PROVE  /\ Len(ContextsIn(s, path)) = Cardinality(PositionsIn(s))
           /\ Cardinality(PositionsIn(s)) \in Nat
           /\ ContextsIn(s, path) \in Seq({ContextIn(s, path, i) : i \in PositionsIn(s)})
<1>1. PICK P, N, L : P = PositionsIn(s) /\ N = Cardinality(P) /\ L = Len(s)
  OBVIOUS
<1>2. L \in Nat /\ \A p \in P : p \in 1 .. L
  BY <1>1, PositionsAre
<1>3. N \in Nat
  BY <1>1, <1>2, BelowIsFinite
<1>4. PICK C : C = ContextsIn(s, path)
  OBVIOUS
<1>5. C = [n \in 1 .. N |-> ContextIn(s, path, NthIn(P, n))]
  BY <1>1, <1>4 DEF ContextsIn
<1>6. PICK S : S = {ContextIn(s, path, i) : i \in P}
  OBVIOUS
<1>7. \A n \in 1 .. N : NthIn(P, n) \in P
  BY <1>1, <1>2, NthIs
<1>8. C \in [1 .. N -> S]
  BY <1>5, <1>6, <1>7
<1>9. C \in Seq(S) /\ Len(C) = N
  BY <1>3, <1>8
<1>10. QED BY <1>1, <1>3, <1>4, <1>6, <1>9

(* The position under the top record of a stack, and what is above it.     *)
LEMMA PendingAtPosition ==
    ASSUME NEW s, StackOK(s), s[Len(s)].kind \in {"entry", "code"}
    PROVE  /\ PendingIn(s) = Undefined
           /\ CallerIn(PositionsIn(s), Len(s) + 1) = Len(s)
<1>1. PICK P, L : P = PositionsIn(s) /\ L = Len(s)
  OBVIOUS
<1>2. L \in Nat /\ L >= 1 /\ 1 \in P /\ \A p \in P : p \in 1 .. L
  BY <1>1, PositionsAre
<1>3. L \in P
  BY <1>1, <1>2 DEF PositionsIn
<1>4. IsCaller(P, L + 1, L)
  BY <1>2, <1>3 DEF IsCaller
<1>5. L + 1 \in Nat /\ L + 1 > 1
  BY <1>2
<1>6. L = CallerIn(P, L + 1)
  BY <1>2, <1>4, <1>5, CallerIs
<1>7. QED BY <1>1, <1>2, <1>6 DEF PendingIn, AboveIn

LEMMA PendingElsewhere ==
    ASSUME NEW s, StackOK(s), s[Len(s)].kind \notin {"entry", "code"}
    PROVE  CallerIn(PositionsIn(s), Len(s) + 1) \in 1 .. (Len(s) - 1)
<1>1. PICK P, L, q : P = PositionsIn(s) /\ L = Len(s) /\ q = CallerIn(P, L + 1)
  OBVIOUS
<1>2. L \in Nat /\ L >= 1 /\ 1 \in P /\ \A p \in P : p \in 1 .. L
  BY <1>1, PositionsAre
<1>3. L + 1 \in Nat /\ L + 1 > 1
  BY <1>2
<1>4. IsCaller(P, L + 1, q)
  BY <1>1, <1>2, <1>3, CallerIs
<1>5. q \in P /\ q # L
  BY <1>1, <1>4 DEF IsCaller, PositionsIn
<1>6. q \in 1 .. (L - 1)
  BY <1>2, <1>5
<1>7. QED BY <1>1, <1>6

(* A function that starts is a context over the others, with what was      *)
(* pending.                                                                *)
LEMMA ContextsCode ==
    ASSUME NEW s, StackOK(s), NEW r \in RecordType, r.kind = "code", NEW path
    PROVE  /\ ContextsIn(Append(s, r), path) =
                 Append(ContextsIn(s, path),
                        ContextFor(s, path, r.callee, Len(s), r.arguments, PendingIn(s)))
           /\ Len(ContextsIn(Append(s, r), path)) = Len(ContextsIn(s, path)) + 1
<1>1. PICK P, L, N, u : P = PositionsIn(s) /\ L = Len(s) /\ N = Cardinality(P) /\ u = Append(s, r)
  OBVIOUS
<1>2. L \in Nat /\ L >= 1 /\ 1 \in P /\ \A p \in P : p \in 1 .. L
  BY <1>1, PositionsAre
<1>3. PICK R : R = P \union {L + 1}
  OBVIOUS
<1>4. PositionsIn(u) = R
  BY <1>1, <1>3, PositionsPushed
<1>5. N \in Nat /\ IsFiniteSet(P)
  BY <1>1, <1>2, BelowIsFinite
<1>6. Cardinality(R) = N + 1
  <2>1. L + 1 \notin P
    BY <1>2
  <2>2. QED BY <1>1, <1>3, <1>5, <2>1, FS_AddElement
<1>7. L + 1 \in Nat /\ \A p \in R : p \in 1 .. (L + 1)
  BY <1>2, <1>3
<1>8. ASSUME NEW n \in 1 .. N
      PROVE  NthIn(R, n) = NthIn(P, n) /\ NthIn(P, n) \in P
  <2>1. PICK i : i = NthIn(P, n)
    OBVIOUS
  <2>2. i \in P /\ Cardinality(Below(P, i)) = n
    BY <1>1, <1>2, <1>8, <2>1, NthIs
  <2>3. Below(R, i) = Below(P, i)
    BY <1>2, <1>3, <2>2 DEF Below
  <2>4. i \in R /\ n \in 1 .. Cardinality(R) /\ Cardinality(Below(R, i)) = n
    BY <1>3, <1>5, <1>6, <2>2, <2>3
  <2>5. i = NthIn(R, n)
    BY <1>7, <2>4, NthIs
  <2>6. QED BY <2>1, <2>2, <2>5
<1>9. NthIn(R, N + 1) = L + 1
  <2>1. Below(R, L + 1) = R /\ L + 1 \in R
    BY <1>3, <1>7 DEF Below
  <2>2. N + 1 \in 1 .. Cardinality(R)
    BY <1>5, <1>6
  <2>3. QED BY <1>6, <1>7, <2>1, <2>2, NthIs
<1>10. PICK c : c = ContextFor(s, path, r.callee, L, r.arguments, PendingIn(s))
  OBVIOUS
<1>11. ContextIn(u, path, L + 1) = c
  <2>1. /\ Len(u) = L + 1 /\ u[L + 1] = r /\ u[L] = s[L]
    BY <1>1, <1>2, Pushed
  <2>2. PICK q : q = CallerIn(P, L + 1)
    OBVIOUS
  <2>3. q = CallerIn(R, L + 1) /\ q \in 1 .. L
    <3>1. L + 1 \in 2 .. Len(s) + 1
      BY <1>1, <1>2
    <3>2. QED BY <1>1, <1>2, <1>4, <2>2, <3>1, CallerKept
  <2>4. AboveIn(u, q) = AboveIn(s, q)
    <3>1. CASE q = L
      BY <1>1, <1>2, <2>1, <3>1 DEF AboveIn
    <3>2. CASE q # L
      <4>1. q \in 1 .. (Len(s) - 1)
        BY <1>1, <1>2, <2>3, <3>2
      <4>2. QED BY <1>1, <4>1, AboveKept
    <3>3. QED BY <3>1, <3>2
  <2>5. AboveIn(s, q) = PendingIn(s)
    BY <1>1, <2>2 DEF PendingIn
  <2>6. L + 1 # 1 /\ (L + 1) - 1 = L
    BY <1>2
  <2>7. ContextIn(u, path, L + 1) = ContextFor(u, path, r.callee, L, r.arguments, PendingIn(s))
    BY <1>4, <2>1, <2>3, <2>4, <2>5, <2>6 DEF ContextIn
  <2>8. QED BY <1>10, <2>1, <2>7 DEF ContextFor
<1>12. PICK C, D, S : /\ C = ContextsIn(s, path) /\ D = ContextsIn(u, path)
                      /\ S = {ContextIn(s, path, i) : i \in P} \union {c}
  OBVIOUS
<1>13. C \in Seq(S) /\ Len(C) = N
  <2>1. PICK Q : Q = {ContextIn(s, path, i) : i \in P}
    OBVIOUS
  <2>2. C \in Seq(Q) /\ Len(C) = N
    BY <1>1, <1>12, <2>1, ContextsLength
  <2>3. Q \subseteq S
    BY <1>12, <2>1
  <2>4. QED BY <2>2, <2>3, SeqMonotonic
<1>14. \A n \in 1 .. N : C[n] = ContextIn(s, path, NthIn(P, n))
  BY <1>1, <1>12 DEF ContextsIn
<1>15. D = [n \in 1 .. (N + 1) |-> ContextIn(u, path, NthIn(R, n))]
  BY <1>4, <1>6, <1>12 DEF ContextsIn
<1>16. \A n \in 1 .. N : ContextIn(u, path, NthIn(R, n)) = C[n]
  BY <1>1, <1>8, <1>14, ContextKept
<1>17. \A n \in 1 .. (N + 1) : D[n] = IF n <= N THEN C[n] ELSE c
  <2>1. \A n \in 1 .. (N + 1) : n \in 1 .. N \/ (n = N + 1 /\ ~(n <= N))
    BY <1>5
  <2>2. QED BY <1>5, <1>9, <1>11, <1>15, <1>16, <2>1
<1>18. D = Append(C, c)
  <2>1. c \in S
    BY <1>12
  <2>2. /\ Append(C, c) \in Seq(S) /\ Len(Append(C, c)) = N + 1
        /\ \A n \in 1 .. N : Append(C, c)[n] = C[n]
        /\ Append(C, c)[N + 1] = c
    BY <1>13, <2>1, AppendProperties
  <2>3. D \in [1 .. (N + 1) -> S]
    <3>1. \A n \in 1 .. N : C[n] \in S
      BY <1>13, ElementOfSeq
    <3>2. \A n \in 1 .. (N + 1) : D[n] \in S
      BY <1>5, <1>17, <2>1, <3>1
    <3>3. QED BY <1>15, <3>2
  <2>4. D \in Seq(S) /\ Len(D) = N + 1
    BY <1>5, <2>3
  <2>5. \A n \in 1 .. (N + 1) : D[n] = Append(C, c)[n]
    BY <1>5, <1>17, <2>2
  <2>6. QED BY <2>2, <2>4, <2>5, SeqEqual
<1>19. QED
  <2>1. Len(Append(C, c)) = Len(C) + 1
    BY <1>12, <1>13, AppendProperties
  <2>2. QED BY <1>1, <1>10, <1>12, <1>18, <2>1

(* What is pending after a record of the runtime is pushed.                *)
LEMMA PendingPushed ==
    ASSUME NEW s, StackOK(s), NEW r \in RecordType, r.kind # "entry"
    PROVE  /\ r.kind \in {"frame", "bound"} => PendingIn(Append(s, r)) = PendingIn(s)
           /\ r.kind = "construct" /\ s[Len(s)].kind \in {"entry", "code"} =>
                 PendingIn(Append(s, r)) = r.this /\ PendingIn(s) = Undefined
           /\ r.kind = "code" => PendingIn(Append(s, r)) = Undefined
<1>1. PICK P, L, u : P = PositionsIn(s) /\ L = Len(s) /\ u = Append(s, r)
  OBVIOUS
<1>2. L \in Nat /\ L >= 1 /\ 1 \in P /\ \A p \in P : p \in 1 .. L
  BY <1>1, PositionsAre
<1>3. StackOK(u) /\ Len(u) = L + 1 /\ u[L + 1] = r
  BY <1>1, Pushed
<1>4. CASE r.kind = "code"
  BY <1>1, <1>3, <1>4, PendingAtPosition
<1>5. CASE r.kind \in {"frame", "bound", "construct"}
  <2>1. PositionsIn(u) = P
    BY <1>1, <1>5, PositionsPushed
  <2>2. CASE s[L].kind \in {"entry", "code"}
    <3>1. L \in P
      BY <1>1, <1>2, <2>2 DEF PositionsIn
    <3>2. IsCaller(P, L + 2, L) /\ L + 2 \in Nat /\ L + 2 > 1 /\ (L + 1) + 1 = L + 2
      BY <1>2, <3>1 DEF IsCaller
    <3>3. CallerIn(P, L + 2) = L
      BY <1>2, <3>2, CallerIs
    <3>4. PendingIn(u) = AboveIn(u, L)
      BY <1>3, <2>1, <3>2, <3>3 DEF PendingIn
    <3>5. AboveIn(u, L) = IF r.kind = "construct" THEN r.this ELSE Undefined
      BY <1>2, <1>3 DEF AboveIn
    <3>6. PendingIn(s) = Undefined
      BY <1>1, <2>2, PendingAtPosition
    <3>7. QED BY <1>1, <1>5, <3>4, <3>5, <3>6
  <2>3. CASE s[L].kind \notin {"entry", "code"}
    <3>1. PICK q : q = CallerIn(P, L + 1)
      OBVIOUS
    <3>2. q \in 1 .. (L - 1)
      BY <1>1, <2>3, <3>1, PendingElsewhere
    <3>3. IsCaller(P, L + 1, q)
      BY <1>2, <3>1, CallerIs
    <3>4. L + 1 \notin P
      BY <1>2
    <3>5. IsCaller(P, L + 2, q) /\ L + 2 \in Nat /\ L + 2 > 1 /\ (L + 1) + 1 = L + 2
      BY <1>2, <3>2, <3>3, <3>4 DEF IsCaller
    <3>6. CallerIn(P, L + 2) = q
      BY <1>2, <3>5, CallerIs
    <3>7. AboveIn(u, q) = AboveIn(s, q)
      BY <1>1, <3>2, AboveKept
    <3>8. PendingIn(u) = PendingIn(s)
      BY <1>1, <1>3, <2>1, <3>1, <3>5, <3>6, <3>7 DEF PendingIn
    <3>9. QED BY <1>1, <1>5, <2>3, <3>8
  <2>4. QED BY <2>2, <2>3
<1>6. QED BY <1>4, <1>5 DEF RecordType

(* The record on top pushed on what is below it.                           *)
LEMMA PopPushed ==
    ASSUME NEW s, StackOK(s), s[Len(s)].kind # "entry"
    PROVE  /\ s = Append(SubSeq(s, 1, Len(s) - 1), s[Len(s)])
           /\ StackOK(SubSeq(s, 1, Len(s) - 1))
           /\ s[Len(s)] \in RecordType
           /\ Len(SubSeq(s, 1, Len(s) - 1)) = Len(s) - 1
           /\ SubSeq(s, 1, Len(s) - 1)[Len(s) - 1] = s[Len(s) - 1]
           /\ Len(s) \in Nat /\ Len(s) > 1
<1>1. PICK t, L : t = SubSeq(s, 1, Len(s) - 1) /\ L = Len(s)
  OBVIOUS
<1>2. StackOK(t) /\ Len(t) = L - 1 /\ L > 1 /\ \A i \in 1 .. L - 1 : t[i] = s[i]
  BY <1>1, Popped
<1>3. s \in Seq(RecordType) /\ t \in Seq(RecordType) /\ L \in Nat /\ s[L] \in RecordType
  BY <1>1, <1>2 DEF StackOK
<1>4. /\ Append(t, s[L]) \in Seq(RecordType) /\ Len(Append(t, s[L])) = (L - 1) + 1
      /\ \A i \in 1 .. L - 1 : Append(t, s[L])[i] = t[i]
      /\ Append(t, s[L])[(L - 1) + 1] = s[L]
  BY <1>2, <1>3, AppendProperties
<1>5. \A i \in 1 .. L : Append(t, s[L])[i] = s[i]
  <2>1. \A i \in 1 .. L : i \in 1 .. L - 1 \/ i = L
    BY <1>3
  <2>2. (L - 1) + 1 = L
    BY <1>3
  <2>3. QED BY <1>2, <1>4, <2>1, <2>2
<1>6. Len(Append(t, s[L])) = L
  BY <1>3, <1>4
<1>7. s = Append(t, s[L])
  BY <1>1, <1>3, <1>4, <1>5, <1>6, SeqEqual
<1>8. L - 1 \in 1 .. L - 1
  BY <1>2, <1>3
<1>9. QED BY <1>1, <1>2, <1>3, <1>7, <1>8

(* What a pop does to the contexts and to what is pending.                 *)
LEMMA ContextsPopped ==
    ASSUME NEW s, StackOK(s), s[Len(s)].kind # "entry", NEW path
    PROVE  /\ s[Len(s)].kind # "code" =>
                 ContextsIn(SubSeq(s, 1, Len(s) - 1), path) = ContextsIn(s, path)
           /\ s[Len(s)].kind = "code" =>
                 /\ ContextsIn(SubSeq(s, 1, Len(s) - 1), path) =
                       SubSeq(ContextsIn(s, path), 1, Len(ContextsIn(s, path)) - 1)
                 /\ ContextsIn(s, path)[Len(ContextsIn(s, path))] =
                       ContextFor(s, path, s[Len(s)].callee, Len(s) - 1, s[Len(s)].arguments,
                                  PendingIn(SubSeq(s, 1, Len(s) - 1)))
                 /\ Len(ContextsIn(s, path)) > 1
<1>1. PICK t, r : t = SubSeq(s, 1, Len(s) - 1) /\ r = s[Len(s)]
  OBVIOUS
<1>2. /\ s = Append(t, r) /\ StackOK(t) /\ r \in RecordType /\ Len(t) = Len(s) - 1
      /\ t[Len(s) - 1] = s[Len(s) - 1] /\ Len(s) \in Nat /\ Len(s) > 1
  BY <1>1, PopPushed
<1>3. CASE r.kind # "code"
  <2>1. ContextsIn(Append(t, r), path) = ContextsIn(t, path)
    BY <1>1, <1>2, <1>3, ContextsOther
  <2>2. QED BY <1>1, <1>2, <1>3, <2>1
<1>4. CASE r.kind = "code"
  <2>1. PICK C, D, c : /\ C = ContextsIn(t, path) /\ D = ContextsIn(s, path)
                       /\ c = ContextFor(t, path, r.callee, Len(t), r.arguments, PendingIn(t))
    OBVIOUS
  <2>2. D = Append(C, c) /\ Len(D) = Len(C) + 1
    BY <1>2, <1>4, <2>1, ContextsCode
  <2>3. PICK S : C \in Seq(S)
    BY <1>2, <2>1, ContextsLength
  <2>4. PICK T : T = S \union {c}
    OBVIOUS
  <2>5. C \in Seq(T) /\ c \in T
    BY <2>3, <2>4, SeqMonotonic
  <2>6. /\ D \in Seq(T) /\ Len(C) \in Nat
        /\ \A i \in 1 .. Len(C) : D[i] = C[i]
        /\ D[Len(C) + 1] = c
    BY <2>2, <2>5, AppendProperties, LenProperties
  <2>7. C = SubSeq(D, 1, Len(D) - 1)
    <3>1. Len(D) - 1 = Len(C) /\ 1 \in Int /\ Len(C) \in Int
      BY <2>2, <2>6
    <3>2. \A i \in 1 .. Len(C) : D[i] \in T
      BY <2>5, <2>6, ElementOfSeq
    <3>3. PICK a : a = 1
      OBVIOUS
    <3>4. /\ SubSeq(D, a, Len(C)) \in Seq(T)
          /\ Len(SubSeq(D, a, Len(C))) = IF a <= Len(C) THEN Len(C) - a + 1 ELSE 0
          /\ \A i \in 1 .. Len(C) - a + 1 : SubSeq(D, a, Len(C))[i] = D[a + i - 1]
      BY <3>1, <3>2, <3>3, SubSeqProperties
    <3>5. Len(SubSeq(D, 1, Len(C))) = Len(C)
      BY <2>6, <3>3, <3>4
    <3>6. \A i \in 1 .. Len(C) : SubSeq(D, 1, Len(C))[i] = C[i]
      <4>1. ASSUME NEW i \in 1 .. Len(C)
            PROVE  i \in 1 .. Len(C) - a + 1 /\ a + i - 1 = i
        BY <2>6, <3>3
      <4>2. QED BY <2>6, <3>3, <3>4, <4>1
    <3>7. C = SubSeq(D, 1, Len(C))
      BY <2>5, <3>3, <3>4, <3>5, <3>6, SeqEqual
    <3>8. QED BY <3>1, <3>7
  <2>8. D[Len(D)] = c /\ Len(D) > 1
    <3>1. Len(C) >= 1
      <4>1. Len(C) = Cardinality(PositionsIn(t))
        BY <1>2, <2>1, ContextsLength
      <4>2. PICK P, n : P = PositionsIn(t) /\ n = Len(t)
        OBVIOUS
      <4>3. n \in Nat /\ 1 \in P /\ \A p \in P : p \in 1 .. n
        BY <1>2, <4>2, PositionsAre
      <4>4. IsFiniteSet(P) /\ Cardinality(P) \in Nat
        BY <4>3, BelowIsFinite
      <4>5. Cardinality(P) # 0
        BY <4>3, <4>4, FS_EmptySet
      <4>6. QED BY <4>1, <4>2, <4>4, <4>5
    <3>2. QED BY <2>2, <2>6, <3>1
  <2>9. c = ContextFor(s, path, r.callee, Len(s) - 1, r.arguments, PendingIn(t))
    BY <1>2, <2>1 DEF ContextFor
  <2>10. QED BY <1>1, <1>4, <2>1, <2>7, <2>8, <2>9
<1>5. QED BY <1>1, <1>3, <1>4

LEMMA PendingPopped ==
    ASSUME NEW s, StackOK(s), s[Len(s)].kind # "entry"
    PROVE  /\ s[Len(s)].kind \in {"frame", "bound"} =>
                 PendingIn(SubSeq(s, 1, Len(s) - 1)) = PendingIn(s)
           /\ s[Len(s)].kind = "construct" /\ s[Len(s) - 1].kind \in {"entry", "code"} =>
                 /\ PendingIn(s) = s[Len(s)].this
                 /\ PendingIn(SubSeq(s, 1, Len(s) - 1)) = Undefined
           /\ s[Len(s)].kind = "code" => PendingIn(s) = Undefined
<1>1. PICK t, r : t = SubSeq(s, 1, Len(s) - 1) /\ r = s[Len(s)]
  OBVIOUS
<1>2. /\ s = Append(t, r) /\ StackOK(t) /\ r \in RecordType /\ Len(t) = Len(s) - 1
      /\ t[Len(t)] = s[Len(s) - 1] /\ Len(s) \in Nat /\ Len(s) > 1
  BY <1>1, PopPushed
<1>3. /\ r.kind \in {"frame", "bound"} => PendingIn(Append(t, r)) = PendingIn(t)
      /\ r.kind = "construct" /\ t[Len(t)].kind \in {"entry", "code"} =>
            PendingIn(Append(t, r)) = r.this /\ PendingIn(t) = Undefined
      /\ r.kind = "code" => PendingIn(Append(t, r)) = Undefined
  <2>1. r.kind # "entry"
    BY <1>1
  <2>2. QED BY <1>2, <2>1, PendingPushed
<1>4. QED BY <1>1, <1>2, <1>3

-----------------------------------------------------------------------------
(* Chains of bound functions, which lead to older callables.               *)
Older(cs) ==
    /\ cs \in Seq(CallableType)
    /\ \A c \in 1 .. Len(cs) : cs[c].kind = "bound" => cs[c].target \in 1 .. c - 1

NativeEnd(e, c) == e.target = c /\ e.bound = FALSE /\ e.arguments = <<>>
BoundEnd(e, f, callable) ==
    /\ e.target = f.target
    /\ e.bound = TRUE
    /\ e.this = IF f.bound THEN f.this ELSE callable.this
    /\ e.arguments = f.arguments \o callable.arguments

LEMMA StepFields ==
    ASSUME NEW r, NEW cs, NEW c, NEW e, e = ChainStep(r, cs, c)
    PROVE  /\ cs[c].kind # "bound" => NativeEnd(e, c)
           /\ cs[c].kind = "bound" => BoundEnd(e, r[cs[c].target], cs[c])
<1>1. CASE cs[c].kind # "bound"
  <2>1. e = [target |-> c, this |-> Undefined, bound |-> FALSE, arguments |-> <<>>]
    BY <1>1 DEF ChainStep
  <2>2. QED BY <1>1, <2>1 DEF NativeEnd
<1>2. CASE cs[c].kind = "bound"
  <2>1. PICK f : f = r[cs[c].target]
    OBVIOUS
  <2>2. e = [target |-> f.target, this |-> IF f.bound THEN f.this ELSE cs[c].this, bound |-> TRUE,
             arguments |-> f.arguments \o cs[c].arguments]
    BY <1>2, <2>1 DEF ChainStep
  <2>3. PICK x, a : x = (IF f.bound THEN f.this ELSE cs[c].this) /\ a = f.arguments \o cs[c].arguments
    OBVIOUS
  <2>4. e = [target |-> f.target, this |-> x, bound |-> TRUE, arguments |-> a]
    BY <2>2, <2>3
  <2>5. e.target = f.target /\ e.this = x /\ e.arguments = a
    BY <2>4
  <2>6. e.bound = TRUE
    BY <2>4
  <2>7. QED BY <1>2, <2>1, <2>3, <2>5, <2>6 DEF BoundEnd
<1>3. QED BY <1>1, <1>2

LEMMA ChainExists ==
    ASSUME NEW cs, Older(cs)
    PROVE  \E r : IsChain(r, cs, 1 .. Len(cs))
<1>1. PICK L : L = Len(cs)
  OBVIOUS
<1>2. L \in Nat /\ \A c \in 1 .. L : cs[c].kind = "bound" => cs[c].target \in 1 .. c - 1
  BY <1>1 DEF Older
<1>3. PICK T : T = {n \in 0 .. L : \E r : IsChain(r, cs, 1 .. n)}
  OBVIOUS
<1>4. 0 \in T
  <2>1. PICK r : r = [c \in 1 .. 0 |-> 0]
    OBVIOUS
  <2>2. r = [c \in 1 .. 0 |-> ChainStep(r, cs, c)]
    <3>1. \A c \in 1 .. 0 : r[c] = ChainStep(r, cs, c)
      <4>1. \A c \in 1 .. 0 : FALSE
        OBVIOUS
      <4>2. QED BY <4>1
    <3>2. QED BY <2>1, <3>1
  <2>3. IsChain(r, cs, 1 .. 0)
    BY <2>2 DEF IsChain
  <2>4. QED BY <1>2, <1>3, <2>3
<1>5. ASSUME NEW n \in 0 .. (L - 1), n \in T
      PROVE  n + 1 \in T
  <2>1. PICK old : IsChain(old, cs, 1 .. n)
    BY <1>3, <1>5
  <2>2. PICK r : r = [c \in 1 .. (n + 1) |-> IF c = n + 1 THEN ChainStep(old, cs, n + 1) ELSE old[c]]
    OBVIOUS
  <2>3. \A c \in 1 .. n : r[c] = old[c]
    BY <2>2
  <2>4. \A c \in 1 .. (n + 1) : cs[c].kind = "bound" => cs[c].target \in 1 .. n
    BY <1>2
  <2>5. \A c \in 1 .. (n + 1) : ChainStep(r, cs, c) = ChainStep(old, cs, c)
    BY <2>3, <2>4 DEF ChainStep
  <2>6. \A c \in 1 .. n : old[c] = ChainStep(old, cs, c)
    BY <2>1 DEF IsChain
  <2>7. \A c \in 1 .. (n + 1) : r[c] = ChainStep(r, cs, c)
    <3>1. ASSUME NEW c \in 1 .. (n + 1)
          PROVE  r[c] = ChainStep(r, cs, c)
      <4>1. CASE c = n + 1
        BY <2>2, <2>5, <4>1
      <4>2. CASE c # n + 1
        <5>1. c \in 1 .. n
          BY <4>2
        <5>2. QED BY <2>3, <2>5, <2>6, <5>1
      <4>3. QED BY <4>1, <4>2
    <3>2. QED BY <3>1
  <2>8. IsChain(r, cs, 1 .. (n + 1))
    BY <2>2, <2>7 DEF IsChain
  <2>9. n + 1 \in 0 .. L
    BY <1>2
  <2>10. QED BY <1>3, <2>8, <2>9
<1>6. L \in T
  BY <1>2, <1>4, <1>5, Climbs
<1>7. QED BY <1>1, <1>3, <1>6

LEMMA ChainUnfolds ==
    ASSUME NEW cs, Older(cs), NEW c \in 1 .. Len(cs)
    PROVE  ChainIn(cs)[c] = ChainStep(ChainIn(cs), cs, c)
<1>1. PICK r : r = ChainIn(cs)
  OBVIOUS
<1>2. IsChain(r, cs, 1 .. Len(cs))
  BY <1>1, ChainExists DEF ChainIn
<1>3. r[c] = ChainStep(r, cs, c)
  BY <1>2 DEF IsChain
<1>4. QED BY <1>1, <1>3

(* A chain ends at a native function, with the arguments of all of it.     *)
EndOf(e, cs, c) ==
    /\ e.target \in 1 .. Len(cs)
    /\ cs[e.target].kind # "bound"
    /\ e.arguments \in Seq(ValueType)
    /\ e.bound <=> cs[c].kind = "bound"

LEMMA ChainEnds ==
    ASSUME NEW cs, Older(cs), NEW c \in 1 .. Len(cs)
    PROVE  EndOf(ChainIn(cs)[c], cs, c)
<1>1. PICK L, r : L = Len(cs) /\ r = ChainIn(cs)
  OBVIOUS
<1>2. L \in Nat /\ cs \in Seq(CallableType) /\ \A d \in 1 .. L : cs[d] \in CallableType
  BY <1>1 DEF Older
<1>3. \A d \in 1 .. L : cs[d].kind = "bound" => cs[d].target \in 1 .. d - 1
  BY <1>1 DEF Older
<1>4. \A d \in 1 .. L : r[d] = ChainStep(r, cs, d)
  BY <1>1, ChainUnfolds
<1>5. SUFFICES ASSUME ~EndOf(r[c], cs, c)
               PROVE  FALSE
  BY <1>1
<1>6. PICK U : U = {d \in 1 .. L : ~EndOf(r[d], cs, d)}
  OBVIOUS
<1>7. U \in SUBSET Nat /\ U # {}
  BY <1>1, <1>5, <1>6
<1>8. PICK d \in U : \A y \in U : d <= y
  BY <1>7, LeastElement
<1>9. d \in 1 .. L /\ ~EndOf(r[d], cs, d)
  BY <1>6, <1>8
<1>10. CASE cs[d].kind # "bound"
  <2>1. r[d].target = d /\ r[d].bound = FALSE /\ r[d].arguments = <<>>
    <3>1. r[d] = ChainStep(r, cs, d)
      BY <1>4, <1>9
    <3>2. NativeEnd(r[d], d)
      BY <1>10, <3>1, StepFields
    <3>3. QED BY <3>2 DEF NativeEnd
  <2>2. <<>> \in Seq(ValueType)
    OBVIOUS
  <2>3. EndOf(r[d], cs, d)
    BY <1>1, <1>9, <1>10, <2>1, <2>2 DEF EndOf
  <2>4. QED BY <1>9, <2>3
<1>11. CASE cs[d].kind = "bound"
  <2>1. PICK e : e = cs[d].target
    OBVIOUS
  <2>2. e \in 1 .. d - 1 /\ e \in 1 .. L
    BY <1>2, <1>3, <1>9, <1>11, <2>1
  <2>3. e \notin U
    BY <1>8, <1>9, <2>2
  <2>4. EndOf(r[e], cs, e)
    BY <1>6, <2>2, <2>3
  <2>5. r[d].target = r[e].target /\ r[d].bound = TRUE /\ r[d].arguments = r[e].arguments \o cs[d].arguments
    <3>1. r[d] = ChainStep(r, cs, d)
      BY <1>4, <1>9
    <3>2. BoundEnd(r[d], r[e], cs[d])
      BY <1>11, <2>1, <3>1, StepFields
    <3>3. QED BY <3>2 DEF BoundEnd
  <2>6. cs[d].arguments \in Seq(ValueType)
    BY <1>2, <1>9 DEF CallableType
  <2>7. r[e].arguments \in Seq(ValueType)
    BY <2>4 DEF EndOf
  <2>8. r[e].arguments \o cs[d].arguments \in Seq(ValueType)
    BY <2>6, <2>7, ConcatProperties
  <2>9. EndOf(r[d], cs, d)
    BY <1>11, <2>4, <2>5, <2>8 DEF EndOf
  <2>10. QED BY <1>9, <2>9
<1>12. QED BY <1>10, <1>11

(* Constructing finds the end that calling finds.                          *)
IsTargets(t, cs) == t = [c \in 1 .. Len(cs) |-> IF cs[c].kind = "bound" THEN t[cs[c].target] ELSE c]
TargetsIn(cs) == CHOOSE t : IsTargets(t, cs)

LEMMA TargetsAreEnds ==
    ASSUME NEW cs, Older(cs), NEW c \in 1 .. Len(cs)
    PROVE  TargetsIn(cs)[c] = ChainIn(cs)[c].target
<1>1. PICK L, r, t : L = Len(cs) /\ r = ChainIn(cs) /\ t = TargetsIn(cs)
  OBVIOUS
<1>2. L \in Nat
  BY <1>1 DEF Older
<1>3. \A d \in 1 .. L : cs[d].kind = "bound" => cs[d].target \in 1 .. d - 1 /\ cs[d].target \in 1 .. L
  BY <1>1, <1>2 DEF Older
<1>4. \A d \in 1 .. L : r[d].target = IF cs[d].kind = "bound" THEN r[cs[d].target].target ELSE d
  <2>1. ASSUME NEW d \in 1 .. L
        PROVE  r[d].target = IF cs[d].kind = "bound" THEN r[cs[d].target].target ELSE d
    <3>1. r[d] = ChainStep(r, cs, d)
      BY <1>1, ChainUnfolds
    <3>2. /\ cs[d].kind # "bound" => NativeEnd(r[d], d)
          /\ cs[d].kind = "bound" => BoundEnd(r[d], r[cs[d].target], cs[d])
      BY <3>1, StepFields
    <3>3. QED BY <3>2 DEF NativeEnd, BoundEnd
  <2>2. QED BY <2>1
<1>5. IsTargets(t, cs)
  <2>1. PICK u : u = [d \in 1 .. L |-> r[d].target]
    OBVIOUS
  <2>2. \A d \in 1 .. L : u[d] = IF cs[d].kind = "bound" THEN u[cs[d].target] ELSE d
    BY <1>3, <1>4, <2>1
  <2>3. IsTargets(u, cs)
    BY <1>1, <2>1, <2>2 DEF IsTargets
  <2>4. QED BY <1>1, <2>3 DEF TargetsIn
<1>6. \A d \in 1 .. L : t[d] = IF cs[d].kind = "bound" THEN t[cs[d].target] ELSE d
  BY <1>1, <1>5 DEF IsTargets
<1>7. SUFFICES ASSUME t[c] # r[c].target
               PROVE  FALSE
  BY <1>1
<1>8. PICK U : U = {d \in 1 .. L : t[d] # r[d].target}
  OBVIOUS
<1>9. U \in SUBSET Nat /\ U # {}
  BY <1>1, <1>7, <1>8
<1>10. PICK d \in U : \A y \in U : d <= y
  BY <1>9, LeastElement
<1>11. d \in 1 .. L /\ t[d] # r[d].target
  BY <1>8, <1>10
<1>12. CASE cs[d].kind # "bound"
  BY <1>4, <1>6, <1>11, <1>12
<1>13. CASE cs[d].kind = "bound"
  <2>1. PICK e : e = cs[d].target
    OBVIOUS
  <2>2. e \in 1 .. d - 1 /\ e \in 1 .. L
    BY <1>3, <1>11, <1>13, <2>1
  <2>3. e \notin U
    BY <1>10, <1>11, <2>2
  <2>4. t[e] = r[e].target
    BY <1>8, <2>2, <2>3
  <2>5. QED BY <1>4, <1>6, <1>11, <1>13, <2>1, <2>4
<1>14. QED BY <1>12, <1>13

LEMMA ConstructTargetIsEnd ==
    ASSUME Older(callables), NEW c \in Callables
    PROVE  /\ ConstructTarget[c] = ChainIn(callables)[c].target
           /\ ConstructTarget[c] \in Callables
<1>1. ConstructTarget = TargetsIn(callables)
  BY DEF ConstructTarget, TargetsIn, IsTargets, Callables, IsBound
<1>2. EndOf(ChainIn(callables)[c], callables, c)
  BY ChainEnds DEF Callables
<1>3. TargetsIn(callables)[c] = ChainIn(callables)[c].target
  BY TargetsAreEnds DEF Callables
<1>4. QED BY <1>1, <1>2, <1>3 DEF EndOf, Callables

(* Dispatching a bound function leads where dispatching what it is bound   *)
(* to leads, with its receiver and its arguments put before the call's.    *)
LEMMA LedThroughBound ==
    ASSUME NEW cs, Older(cs), NEW path, NEW receiver, NEW c \in 1 .. Len(cs), cs[c].kind = "bound",
           NEW call, NEW next,
           call.callee = Callable(c), call.argv \in Seq(ValueType), call.constructing \in BOOLEAN,
           call.constructing => call.newTarget = call.callee,
           next = Dispatch(Callable(cs[c].target), BoundReceiver(cs[c], call),
                           IF call.constructing /\ call.newTarget = call.callee
                           THEN Callable(cs[c].target) ELSE call.newTarget,
                           call.constructing, BoundArgv(cs[c], call.argv))
    PROVE  LedIn(cs, path, next, receiver) = LedIn(cs, path, call, receiver)
<1>1. PICK d, e, f : d = cs[c].target /\ e = ChainIn(cs)[c] /\ f = ChainIn(cs)[d]
  OBVIOUS
<1>2. d \in 1 .. Len(cs)
  BY <1>1 DEF Older
<1>3. /\ e.target = f.target /\ e.bound = TRUE /\ e.arguments = f.arguments \o cs[c].arguments
      /\ e.this = IF f.bound THEN f.this ELSE cs[c].this
  <2>1. e = ChainStep(ChainIn(cs), cs, c)
    BY <1>1, ChainUnfolds
  <2>2. BoundEnd(e, f, cs[c])
    BY <1>1, <2>1, StepFields
  <2>3. QED BY <2>2 DEF BoundEnd
<1>4. f.arguments \in Seq(ValueType) /\ cs[c].arguments \in Seq(ValueType)
  <2>1. EndOf(f, cs, d)
    BY <1>1, <1>2, ChainEnds
  <2>2. cs[c] \in CallableType
    BY DEF Older
  <2>3. QED BY <2>1, <2>2 DEF EndOf, CallableType
<1>5. /\ next.callee = Callable(d) /\ next.callee.id = d /\ call.callee.id = c
      /\ next.this = IF call.constructing THEN call.this ELSE cs[c].this
      /\ next.newTarget = IF call.constructing THEN Callable(d) ELSE call.newTarget
      /\ next.constructing = call.constructing
      /\ next.argv = cs[c].arguments \o call.argv
  <2>1. call.callee.id = c
    BY DEF Callable
  <2>2. PICK w, n, b, a :
           /\ w = (IF call.constructing THEN call.this ELSE cs[c].this)
           /\ n = (IF call.constructing /\ call.newTarget = call.callee THEN Callable(d) ELSE call.newTarget)
           /\ b = call.constructing
           /\ a = cs[c].arguments \o call.argv
    OBVIOUS
  <2>3. next = [k |-> "dispatch", callee |-> Callable(d), this |-> w, newTarget |-> n,
                constructing |-> b, argv |-> a]
    BY <1>1, <2>2 DEF Dispatch, BoundReceiver, BoundArgv
  <2>4. next.callee = Callable(d) /\ next.this = w /\ next.newTarget = n /\ next.argv = a
    BY <2>3
  <2>5. next.constructing = b
    BY <2>3
  <2>6. next.callee.id = d
    BY <2>4 DEF Callable
  <2>7. n = IF call.constructing THEN Callable(d) ELSE call.newTarget
    BY <2>2
  <2>8. QED BY <2>1, <2>2, <2>4, <2>5, <2>6, <2>7
<1>6. f.arguments \o next.argv = e.arguments \o call.argv
  <2>1. PICK a, b, g : a = f.arguments /\ b = cs[c].arguments /\ g = call.argv
    OBVIOUS
  <2>2. (a \o b) \o g = a \o (b \o g)
    <3>1. a \in Seq(ValueType) /\ b \in Seq(ValueType) /\ g \in Seq(ValueType)
      BY <1>4, <2>1
    <3>2. PICK S : S = ValueType
      OBVIOUS
    <3>3. a \in Seq(S) /\ b \in Seq(S) /\ g \in Seq(S)
      BY <3>1, <3>2
    <3>4. QED BY <3>3, ConcatAssociative, SMTT(30)
  <2>3. QED BY <1>3, <1>5, <2>1, <2>2
<1>7. (IF f.bound /\ ~next.constructing THEN f.this ELSE next.this)
      = (IF e.bound /\ ~call.constructing THEN e.this ELSE call.this)
  BY <1>3, <1>5
<1>8. (IF next.constructing /\ next.newTarget = next.callee THEN Callable(f.target) ELSE next.newTarget)
      = (IF call.constructing /\ call.newTarget = call.callee THEN Callable(e.target) ELSE call.newTarget)
  BY <1>3, <1>5
<1>9. PICK w, n, a :
         /\ w = (IF e.bound /\ ~call.constructing THEN e.this ELSE call.this)
         /\ n = (IF call.constructing /\ call.newTarget = call.callee
                 THEN Callable(e.target) ELSE call.newTarget)
         /\ a = e.arguments \o call.argv
  OBVIOUS
<1>10. LedIn(cs, path, call, receiver) =
          [callee |-> e.target, this |-> ThisIn(cs, path, e.target, w), newTarget |-> n, arguments |-> a,
           receiver |-> receiver]
  BY <1>1, <1>5, <1>9 DEF LedIn
<1>11. LedIn(cs, path, next, receiver) =
          [callee |-> f.target, this |-> ThisIn(cs, path, f.target, w), newTarget |-> n, arguments |-> a,
           receiver |-> receiver]
  <2>1. ChainIn(cs)[next.callee.id] = f
    BY <1>1, <1>5
  <2>2. LedIn(cs, path, next, receiver) =
           [callee |-> f.target,
            this |-> ThisIn(cs, path, f.target, IF f.bound /\ ~next.constructing THEN f.this ELSE next.this),
            newTarget |-> IF next.constructing /\ next.newTarget = next.callee
                          THEN Callable(f.target) ELSE next.newTarget,
            arguments |-> f.arguments \o next.argv, receiver |-> receiver]
    BY <2>1 DEF LedIn
  <2>3. QED BY <1>6, <1>7, <1>8, <1>9, <2>2
<1>12. QED BY <1>3, <1>10, <1>11

(* Dispatching a native function leads to it, on the this of its frame.    *)
LEMMA LedToNative ==
    ASSUME NEW cs, Older(cs), NEW path, NEW receiver, NEW c \in 1 .. Len(cs), cs[c].kind # "bound",
           NEW call, call.callee = Callable(c), call.argv \in Seq(ValueType), call.constructing \in BOOLEAN,
           call.constructing => call.newTarget = call.callee
    PROVE  LedIn(cs, path, call, receiver) =
              [callee |-> c, this |-> ThisIn(cs, path, c, call.this), newTarget |-> call.newTarget,
               arguments |-> call.argv, receiver |-> receiver]
<1>1. PICK e : e = ChainIn(cs)[c]
  OBVIOUS
<1>2. e.target = c /\ e.bound = FALSE /\ e.arguments = <<>>
  <2>1. e = ChainStep(ChainIn(cs), cs, c)
    BY <1>1, ChainUnfolds
  <2>2. NativeEnd(e, c)
    BY <2>1, StepFields
  <2>3. QED BY <2>2 DEF NativeEnd
<1>3. call.callee.id = c
  BY DEF Callable
<1>4. <<>> \o call.argv = call.argv
  BY ConcatEmptySeq
<1>5. (IF e.bound /\ ~call.constructing THEN e.this ELSE call.this) = call.this
  BY <1>2
<1>6. (IF call.constructing /\ call.newTarget = call.callee THEN Callable(e.target) ELSE call.newTarget)
      = call.newTarget
  BY <1>2
<1>7. QED BY <1>1, <1>2, <1>3, <1>4, <1>5, <1>6 DEF LedIn

-----------------------------------------------------------------------------
(* What each control means to the contract.                                *)
Invoke(context) == [k |-> "invoke", context |-> context]
Complete(status, value) == [k |-> "complete", status |-> status, value |-> value]

LEMMA SeenRun ==
    ASSUME NEW s, NEW cs, NEW path, NEW b, NEW how
    PROVE  /\ ControlIn(Run, s, cs, path, b) = Run
           /\ ControlIn(Ended(how), s, cs, path, b) = Ended(how)
<1>1. PICK k : k = Ended(how)
  OBVIOUS
<1>2. k.k = "ended" /\ Run.k = "run"
  BY <1>1 DEF Ended, Run
<1>3. ControlIn(Run, s, cs, path, b) = Run
  BY <1>2 DEF ControlIn
<1>4. ControlIn(k, s, cs, path, b) = k
  BY <1>2 DEF ControlIn
<1>5. QED BY <1>1, <1>3, <1>4

LEMMA SeenReturned ==
    ASSUME NEW k, k.k = "returned", NEW s, NEW cs, NEW path, NEW b
    PROVE  ControlIn(k, s, cs, path, b) = CompletionIn(PendingIn(s), k)
BY DEF ControlIn

LEMMA SeenJump ==
    ASSUME NEW k, k.k = "jump", NEW s, NEW cs, NEW path, NEW b
    PROVE  ControlIn(k, s, cs, path, b) =
              Invoke(ContextFor(s, path, k.closure, Len(s), ParametersIn(b, k), PendingIn(s)))
BY DEF ControlIn, Invoke

LEMMA SeenDispatch ==
    ASSUME NEW k, k.k = "dispatch", NEW s, NEW cs, NEW path, NEW b
    PROVE  /\ CallableIn(cs, k.callee) =>
                 ControlIn(k, s, cs, path, b) = Invoke(LedIn(cs, path, k, PendingIn(s)))
           /\ ~CallableIn(cs, k.callee) =>
                 ControlIn(k, s, cs, path, b) = CompletionIn(PendingIn(s), Fails)
BY DEF ControlIn, Invoke

LEMMA Completions ==
    ASSUME NEW receiver, NEW c, c.status \in {0, 1}
    PROVE  /\ CompletionIn(Undefined, c) = Complete(c.status, c.value)
           /\ c.status = 1 => CompletionIn(receiver, c) = Complete(1, c.value)
           /\ c.status = 0 => CompletionIn(receiver, c) =
                 Complete(0, IF receiver # Undefined /\ ~IsObjectLike(c.value) THEN receiver ELSE c.value)
<1>1. CompletionIn(Undefined, c) = Complete(c.status, c.value)
  BY DEF CompletionIn, Complete
<1>2. CASE c.status = 1
  BY <1>1, <1>2 DEF CompletionIn, Complete, ConstructResult
<1>3. CASE c.status = 0
  <2>1. CASE receiver # Undefined /\ ~IsObjectLike(c.value)
    <3>1. Returned(0, receiver).status = 0 /\ Returned(0, receiver).value = receiver
      BY DEF Returned
    <3>2. QED BY <1>1, <1>3, <2>1, <3>1 DEF CompletionIn, Complete, ConstructResult
  <2>2. CASE ~(receiver # Undefined /\ ~IsObjectLike(c.value))
    BY <1>1, <1>3, <2>2 DEF CompletionIn, Complete, ConstructResult
  <2>3. QED BY <2>1, <2>2
<1>4. QED BY <1>1, <1>2, <1>3

LEMMA FailureSeen ==
    ASSUME NEW receiver
    PROVE  CompletionIn(receiver, Fails) = Complete(1, Undefined)
<1>1. Fails.status = 1 /\ Fails.value = Undefined
  BY DEF Fails, Returned
<1>2. QED BY <1>1, Completions

(* Arguments written to the buffer are read back.                          *)
LEMMA WrittenRead ==
    ASSUME NEW b \in Seq(ValueType), NEW a \in Seq(ValueType)
    PROVE  SubSeq(Written(b, a), 1, Len(a)) = a
<1>1. PICK n, m, t, w : n = Len(a) /\ m = Len(b) /\ t = SubSeq(b, n + 1, m) /\ w = a \o t
  OBVIOUS
<1>2. n \in Nat /\ m \in Nat
  BY <1>1
<1>3. t \in Seq(ValueType)
  <2>1. \A i \in n + 1 .. m : b[i] \in ValueType
    BY <1>1, <1>2, ElementOfSeq
  <2>2. n + 1 \in Int /\ m \in Int
    BY <1>2
  <2>3. QED BY <1>1, <2>1, <2>2, SubSeqProperties
<1>4. /\ w \in Seq(ValueType) /\ Len(w) = n + Len(t) /\ Len(t) \in Nat
      /\ \A i \in 1 .. n + Len(t) : w[i] = IF i <= n THEN a[i] ELSE t[i - n]
  BY <1>1, <1>3, ConcatProperties
<1>5. \A i \in 1 .. n : w[i] = a[i] /\ w[i] \in ValueType
  <2>1. \A i \in 1 .. n : i \in 1 .. n + Len(t) /\ i <= n /\ a[i] \in ValueType
    BY <1>1, <1>2, <1>4, ElementOfSeq
  <2>2. QED BY <1>4, <2>1
<1>6. PICK e : e = 1
  OBVIOUS
<1>7. /\ SubSeq(w, e, n) \in Seq(ValueType)
      /\ Len(SubSeq(w, e, n)) = IF e <= n THEN n - e + 1 ELSE 0
      /\ \A i \in 1 .. n - e + 1 : SubSeq(w, e, n)[i] = w[e + i - 1]
  <2>1. e \in Int /\ n \in Int /\ \A i \in e .. n : w[i] \in ValueType
    BY <1>2, <1>5, <1>6
  <2>2. QED BY <2>1, SubSeqProperties
<1>8. Len(SubSeq(w, e, n)) = n
  BY <1>2, <1>6, <1>7
<1>9. \A i \in 1 .. n : SubSeq(w, e, n)[i] = a[i]
  <2>1. \A i \in 1 .. n : i \in 1 .. n - e + 1 /\ e + i - 1 = i
    BY <1>2, <1>6
  <2>2. QED BY <1>5, <1>7, <2>1
<1>10. SubSeq(w, e, n) = a
  BY <1>1, <1>7, <1>8, <1>9, SeqEqual
<1>11. QED BY <1>1, <1>6, <1>10 DEF Written

-----------------------------------------------------------------------------
(* What the invariant of the refinement adds: a constructor is called from *)
(* a context, with an object to fill, and a call that constructs is about  *)
(* the callable it started with.                                           *)
Built(s, path) ==
    \A i \in 1 .. Len(s) : s[i].kind = "construct" =>
        path = "generic" /\ i > 1 /\ s[i - 1].kind \in {"entry", "code"} /\ s[i].this # Undefined

Aimed(k, path) ==
    k.k = "dispatch" =>
        /\ k.constructing => path = "generic" /\ k.newTarget = k.callee
        /\ ~k.constructing => k.newTarget = Undefined

RInv == IInv /\ Built(stack, program.path) /\ Aimed(control, program.path)

LEMMA BuiltPushed ==
    ASSUME NEW s, StackOK(s), NEW path, Built(s, path), NEW r \in RecordType, r.kind # "entry",
           r.kind = "construct" =>
               path = "generic" /\ s[Len(s)].kind \in {"entry", "code"} /\ r.this # Undefined
    PROVE  Built(Append(s, r), path)
<1> DEFINE u == Append(s, r)
<1>1. /\ Len(s) \in Nat /\ Len(s) >= 1 /\ Len(u) = Len(s) + 1 /\ u[Len(s) + 1] = r
      /\ \A i \in 1 .. Len(s) : u[i] = s[i]
  BY Pushed DEF StackOK
<1> HIDE DEF u
<1>2. Built(u, path)
  BY <1>1 DEF Built
<1>3. QED BY <1>2 DEF u

LEMMA BuiltPopped ==
    ASSUME NEW s, StackOK(s), NEW path, Built(s, path), s[Len(s)].kind # "entry"
    PROVE  Built(SubSeq(s, 1, Len(s) - 1), path)
<1> DEFINE u == SubSeq(s, 1, Len(s) - 1)
<1>1. /\ Len(s) \in Nat /\ Len(s) > 1 /\ Len(u) = Len(s) - 1
      /\ \A i \in 1 .. Len(s) - 1 : u[i] = s[i]
  BY Popped DEF StackOK
<1> HIDE DEF u
<1>2. Built(u, path)
  BY <1>1 DEF Built
<1>3. QED BY <1>2 DEF u

LEMMA AimedElsewhere ==
    ASSUME NEW k, k.k # "dispatch", NEW path
    PROVE  Aimed(k, path)
BY DEF Aimed

-----------------------------------------------------------------------------
(* The mapping before and after a step.                                    *)
LEMMA Later ==
    /\ Contexts' = ContextsIn(stack', program'.path)
    /\ ControlOf' = ControlIn(control', stack', callables', program'.path, tailArgv')
<1>1. (Contexts = ContextsIn(stack, program.path))'
  BY ContextsNow, PTL
<1>2. (ControlOf = Seen)'
  BY ControlNow, PTL
<1>3. QED BY <1>1, <1>2 DEF Seen

LEMMA ContextsCounted ==
    ASSUME NEW s, StackOK(s), NEW path
    PROVE  Len(ContextsIn(s, path)) = Cardinality(CodeIn(s)) + 1
<1>1. PositionsIn(s) = CodeIn(s) \union {1} /\ 1 \notin CodeIn(s)
  BY DEF StackOK, PositionsIn, CodeIn
<1>2. IsFiniteSet(CodeIn(s)) /\ Cardinality(CodeIn(s)) \in Nat
  BY CodeIsFinite
<1>3. Cardinality(PositionsIn(s)) = Cardinality(CodeIn(s)) + 1
  BY <1>1, <1>2, FS_AddElement
<1>4. QED BY <1>3, ContextsLength

LEMMA StackFacts ==
    ASSUME IInv
    PROVE  /\ StackOK(stack) /\ Older(callables) /\ program.limit \in Nat /\ depth \in Nat
           /\ Len(Contexts) = depth + 1
           /\ Top.kind = "code" => Len(Contexts) > 1
           /\ Top.kind = "entry" => Len(Contexts) = 1 /\ invocationTop = 0 /\ Len(stack) = 1
           /\ Top.kind \in {"entry", "code"} => PendingIn(stack) = Undefined
           /\ Contexts = ContextsIn(stack, program.path)
           /\ Calls!Inside <=> Len(Contexts) > 1
<1>1. StackOK(stack) /\ Older(callables) /\ program.limit \in Nat /\ depth \in Nat
  BY ProgramHasType DEF IInv, TypeOK, HeapOK, Older, Callables, IsBound
<1>2. Contexts = ContextsIn(stack, program.path)
  BY ContextsNow
<1>3. Len(Contexts) = depth + 1
  BY <1>1, <1>2, ContextsCounted DEF IInv, Stacked
<1>4. Len(stack) \in Nat /\ Len(stack) >= 1
  BY <1>1 DEF StackOK
<1>5. ASSUME Top.kind = "code"
      PROVE  Len(Contexts) > 1
  <2>1. Len(stack) \in CodeIn(stack)
    BY <1>4, <1>5 DEF CodeIn, Top
  <2>2. Cardinality(CodeIn(stack)) # 0
    BY <1>1, <2>1, CodeIsFinite, FS_EmptySet
  <2>3. QED BY <1>1, <1>3, <2>2 DEF IInv, Stacked
<1>6. ASSUME Top.kind = "entry"
      PROVE  Len(Contexts) = 1 /\ invocationTop = 0 /\ Len(stack) = 1
  <2>1. Len(stack) = 1
    <3>1. Len(stack) \in 1 .. Len(stack) /\ stack[Len(stack)].kind = "entry"
      BY <1>4, <1>6 DEF Top
    <3>2. QED BY <1>1, <3>1 DEF StackOK
  <2>2. CodeIn(stack) = {}
    BY <1>6, <2>1 DEF CodeIn, Top
  <2>3. depth = 0
    BY <2>2, FS_EmptySet DEF IInv, Stacked
  <2>4. Latest(stack, Len(stack), invocationTop)
    BY DEF IInv, Stacked, Nested
  <2>5. invocationTop = 0
    BY <1>6, <2>1, <2>4 DEF Latest, Top
  <2>6. QED BY <1>3, <2>1, <2>3, <2>5
<1>7. Top.kind \in {"entry", "code"} => PendingIn(stack) = Undefined
  BY <1>1, PendingAtPosition DEF Top
<1>8. Calls!Inside <=> Len(Contexts) > 1
  BY DEF Calls!Inside
<1>9. QED BY <1>1, <1>2, <1>3, <1>5, <1>6, <1>7, <1>8

LEMMA RunningFacts ==
    ASSUME IInv, Running
    PROVE  /\ control = Run /\ ControlOf = Calls!Run
           /\ PendingIn(stack) = Undefined
           /\ Top.kind \in {"entry", "code"}
           /\ Calls!Inside <=> InFunction
<1>1. control = Run /\ Top.kind \in {"entry", "code"}
  BY DEF IInv, ControlFits, Running
<1>2. ControlOf = Calls!Run
  BY <1>1, ControlNow, SeenRun DEF Seen, Calls!Run, Run
<1>3. QED BY <1>1, <1>2, StackFacts DEF InFunction

(* At the process entry there is one context, the process.                 *)
LEMMA EntryContexts ==
    ASSUME NEW s, StackOK(s), s[Len(s)].kind = "entry", NEW path
    PROVE  ContextsIn(s, path) =
              <<[callee |-> 0, this |-> Undefined, newTarget |-> Undefined, arguments |-> <<>>,
                 receiver |-> Undefined]>>
<1>1. Len(s) \in Nat /\ Len(s) = 1
  <2>1. Len(s) \in Nat /\ Len(s) >= 1
    BY DEF StackOK
  <2>2. Len(s) \in 1 .. Len(s)
    BY <2>1
  <2>3. QED BY <2>1, <2>2 DEF StackOK
<1>2. PICK P, L : P = PositionsIn(s) /\ L = Len(s)
  OBVIOUS
<1>3. L \in Nat /\ (\A p \in P : p \in 1 .. L) /\ L = 1 /\ 1 \in P
  BY <1>1, <1>2, PositionsAre
<1>4. P = {1}
  BY <1>3
<1>5. Cardinality(P) = 1
  BY <1>4, FS_Singleton
<1>6. NthIn(P, 1) \in P
  <2>1. 1 \in 1 .. Cardinality(P)
    BY <1>5
  <2>2. QED BY <1>3, <2>1, NthIs
<1>7. NthIn(P, 1) = 1
  BY <1>4, <1>6
<1>8. PICK C : C = ContextsIn(s, path)
  OBVIOUS
<1>9. C = [n \in 1 .. 1 |-> ContextIn(s, path, NthIn(P, n))]
  BY <1>2, <1>5, <1>8 DEF ContextsIn
<1>10. PICK c : c = ContextIn(s, path, 1)
  OBVIOUS
<1>11. C = <<c>>
  BY <1>7, <1>9, <1>10
<1>12. QED BY <1>8, <1>10, <1>11 DEF ContextIn

(* What a step has to do.                                                  *)
Kept == Built(stack', program'.path) /\ Aimed(control', program'.path)
Matched == Kept /\ [Calls!Next]_(Calls!vars)

(* A step that leaves the stack and its contexts.                          *)
LEMMA StackStays ==
    ASSUME RInv, stack' = stack, program' = program
    PROVE  /\ Contexts' = Contexts
           /\ Built(stack', program'.path)
           /\ PendingIn(stack') = PendingIn(stack)
BY ContextsNow, Later DEF RInv

(* The control after a step.                                               *)
LEMMA NextRun ==
    ASSUME control' = Run
    PROVE  ControlOf' = Calls!Run /\ Aimed(control', program'.path)
<1>1. ControlOf' = Run
  BY Later, SeenRun
<1>2. control'.k # "dispatch"
  BY DEF Run
<1>3. QED BY <1>1, <1>2, AimedElsewhere DEF Calls!Run, Run

LEMMA NextEnded ==
    ASSUME NEW how, control' = Ended(how)
    PROVE  ControlOf' = Calls!Ended(how) /\ Aimed(control', program'.path)
<1>1. ControlOf' = Ended(how)
  BY Later, SeenRun
<1>2. control'.k # "dispatch"
  BY DEF Ended
<1>3. QED BY <1>1, <1>2, AimedElsewhere DEF Calls!Ended, Ended

LEMMA NextReturned ==
    ASSUME NEW k, control' = k, k.k = "returned"
    PROVE  ControlOf' = CompletionIn(PendingIn(stack'), k) /\ Aimed(control', program'.path)
<1>1. ControlOf' = CompletionIn(PendingIn(stack'), k)
  BY Later, SeenReturned
<1>2. QED BY <1>1, AimedElsewhere

LEMMA NextFails ==
    ASSUME control' = Fails
    PROVE  ControlOf' = Calls!Fails /\ Aimed(control', program'.path)
<1>1. Fails.k = "returned"
  BY DEF Fails, Returned
<1>2. ControlOf' = CompletionIn(PendingIn(stack'), Fails) /\ Aimed(control', program'.path)
  BY <1>1, NextReturned
<1>3. ControlOf' = Complete(1, Undefined)
  BY <1>2, FailureSeen
<1>4. QED BY <1>2, <1>3 DEF Complete, Calls!Fails, Calls!Completing, Undefined, Calls!Undefined

LEMMA NextJump ==
    ASSUME NEW k, control' = k, k.k = "jump"
    PROVE  /\ ControlOf' = Invoke(ContextFor(stack', program'.path, k.closure, Len(stack'),
                                             ParametersIn(tailArgv', k), PendingIn(stack')))
           /\ Aimed(control', program'.path)
<1>1. ControlOf' = Invoke(ContextFor(stack', program'.path, k.closure, Len(stack'),
                                     ParametersIn(tailArgv', k), PendingIn(stack')))
  BY Later, SeenJump
<1>2. QED BY <1>1, AimedElsewhere

LEMMA NextDispatch ==
    ASSUME NEW k, control' = k, k.k = "dispatch"
    PROVE  /\ CallableIn(callables', k.callee) =>
                 ControlOf' = Invoke(LedIn(callables', program'.path, k, PendingIn(stack')))
           /\ ~CallableIn(callables', k.callee) => ControlOf' = Complete(1, Undefined)
<1>1. CallableIn(callables', k.callee) =>
         ControlOf' = Invoke(LedIn(callables', program'.path, k, PendingIn(stack')))
  BY Later, SeenDispatch
<1>2. ~CallableIn(callables', k.callee) => ControlOf' = CompletionIn(PendingIn(stack'), Fails)
  BY Later, SeenDispatch
<1>3. QED BY <1>1, <1>2, FailureSeen

-----------------------------------------------------------------------------
(* Steps of the program.                                                   *)
LEMMA ThisSeen ==
    ASSUME IInv, Running, program.path = "generic"
    PROVE  Contexts[Len(Contexts)].this = CurrentThis
<1>1. StackOK(stack) /\ Contexts = ContextsIn(stack, program.path)
  BY StackFacts
<1>2. CASE Top.kind = "entry"
  <2>1. Len(Contexts) = 1 /\ invocationTop = 0
    BY <1>2, StackFacts
  <2>2. Contexts[1].this = Undefined
    BY <1>1, <1>2, EntryContexts DEF Top
  <2>3. QED BY <2>1, <2>2 DEF CurrentThis
<1>3. CASE Top.kind = "code"
  <2>1. PICK c : c = Contexts[Len(Contexts)]
    OBVIOUS
  <2>2. c = ContextFor(stack, program.path, stack[Len(stack)].callee, Len(stack) - 1,
                       stack[Len(stack)].arguments, PendingIn(SubSeq(stack, 1, Len(stack) - 1)))
    BY <1>1, <1>3, <2>1, ContextsPopped DEF Top
  <2>3. c.this = stack[Len(stack) - 1].this
    BY <2>2 DEF ContextFor
  <2>4. invocationTop = Len(stack) - 1
    BY <1>3, OwnFrame DEF ThisIsOwn, InFunction
  <2>5. Len(stack) \in Nat /\ Len(stack) > 1
    BY <1>1, <1>3, Popped DEF Top, StackOK
  <2>6. invocationTop # 0
    <3>1. PICK n : n = Len(stack)
      OBVIOUS
    <3>2. n \in Nat /\ n > 1 /\ n - 1 # 0
      BY <2>5, <3>1
    <3>3. QED BY <2>4, <3>1, <3>2
  <2>7. CurrentThis = c.this
    <3>1. CurrentThis = stack[invocationTop].this
      BY <2>6 DEF CurrentThis
    <3>2. QED BY <2>3, <2>4, <3>1
  <2>8. QED BY <2>1, <2>7
<1>4. QED BY <1>2, <1>3, RunningFacts

LEMMA CreateMatched ==
    ASSUME RInv, NewClosure \/ NewFunction \/ NewArrow
    PROVE  Matched
<1>1. IInv /\ Running /\ Len(callables) < program.callables
      /\ UNCHANGED <<program, objects, stack, invocationTop, depth, tailArgv, control>>
  BY DEF RInv, NewClosure, NewFunction, NewArrow, Create
<1>2. control = Run /\ ControlOf = Calls!Run
  BY <1>1, RunningFacts
<1>3. ControlOf' = Calls!Run /\ Aimed(control', program'.path)
  BY <1>1, <1>2, NextRun
<1>4. Contexts' = Contexts /\ Built(stack', program'.path)
  BY <1>1, StackStays
<1>5. PICK arrow \in BOOLEAN :
         callables' = Append(callables,
            [kind |-> "native",
             flags |-> (IF arrow THEN {"lexical"} ELSE {"constructable"})
                         \union (IF program.path = "generic" /\ program.strict THEN {"strict"} ELSE {}),
             this |-> IF arrow THEN Contexts[Len(Contexts)].this ELSE Undefined,
             target |-> 0, arguments |-> <<>>])
  <2>1. CASE NewClosure
    <3>1. program.path = "typed" /\ callables' = Append(callables, Native({"constructable"}, Undefined))
      BY <2>1 DEF NewClosure, Create
    <3>2. {"constructable"} \union (IF program.path = "generic" /\ program.strict THEN {"strict"} ELSE {})
          = {"constructable"}
      BY <3>1
    <3>3. QED BY <3>1, <3>2 DEF Native
  <2>2. CASE NewFunction
    <3>1. /\ program.path = "generic"
          /\ callables' = Append(callables, Native({"constructable"} \union StrictFlag, Undefined))
      BY <2>2 DEF NewFunction, Create
    <3>2. StrictFlag = IF program.path = "generic" /\ program.strict THEN {"strict"} ELSE {}
      BY <3>1 DEF StrictFlag
    <3>3. QED BY <3>1, <3>2 DEF Native
  <2>3. CASE NewArrow
    <3>1. /\ program.path = "generic"
          /\ callables' = Append(callables, Native({"lexical"} \union StrictFlag, CurrentThis))
      BY <2>3 DEF NewArrow, Create
    <3>2. StrictFlag = IF program.path = "generic" /\ program.strict THEN {"strict"} ELSE {}
      BY <3>1 DEF StrictFlag
    <3>3. Contexts[Len(Contexts)].this = CurrentThis
      BY <1>1, <3>1, ThisSeen
    <3>4. QED BY <3>1, <3>2, <3>3 DEF Native
  <2>4. QED BY <2>1, <2>2, <2>3
<1>6. Calls!Create
  <2>1. PICK c \in {"function", "arrow"} : c = "arrow" <=> arrow
    <3>1. CASE arrow
      BY <3>1
    <3>2. CASE ~arrow
      BY <3>2
    <3>3. QED BY <3>1, <3>2
  <2>2. callables' = Append(callables,
            [kind |-> "native",
             flags |-> (IF c = "arrow" THEN {"lexical"} ELSE {"constructable"})
                         \union (IF program.path = "generic" /\ program.strict THEN {"strict"} ELSE {}),
             this |-> IF c = "arrow" THEN Contexts[Len(Contexts)].this ELSE Undefined,
             target |-> 0, arguments |-> <<>>])
    BY <1>5, <2>1
  <2>3. QED BY <1>1, <1>2, <1>3, <1>4, <2>2 DEF Calls!Create, Calls!Top, Calls!Undefined, Undefined
<1>7. QED BY <1>3, <1>4, <1>6 DEF Matched, Kept, Calls!Next

(* A value that cannot be called is one of the contract's.                 *)
LEMMA UncallableSeen ==
    ASSUME NEW v \in Values, ~IsCallable(v)
    PROVE  Calls!Uncallable # {}
<1>1. v \notin {Callable(c) : c \in Callables}
  BY DEF IsCallable, Callable
<1>2. v \in Calls!Uncallable
  BY <1>1 DEF Calls!Uncallable, Calls!Values, Values, Calls!Undefined, Undefined, Calls!Number, Number,
              Calls!Object, Object, Calls!Callable, Callable, Calls!Callables, Callables
<1>3. QED BY <1>2

LEMMA NamesSeen ==
    /\ Calls!Callables = Callables
    /\ Calls!Values = Values
    /\ Calls!Receivers = Receivers
    /\ Calls!Undefined = Undefined
<1>1. Calls!Callables = Callables /\ Calls!Undefined = Undefined
  BY DEF Calls!Callables, Callables, Calls!Undefined, Undefined
<1>2. Calls!Values = Values
  BY <1>1 DEF Calls!Values, Values, Calls!Number, Number, Calls!Object, Object, Calls!Callable, Callable
<1>3. Calls!Receivers = Receivers
  BY <1>1, <1>2 DEF Calls!Receivers, Receivers
<1>4. QED BY <1>1, <1>2, <1>3

LEMMA BindMatched ==
    ASSUME RInv, NEW v \in Values, NEW r \in Receivers, NEW a \in program.lists, BindValue(v, r, a)
    PROVE  Matched
<1>1. IInv /\ Running /\ UNCHANGED <<program, objects, stack, invocationTop, depth, tailArgv>>
  BY DEF RInv, BindValue
<1>2. control = Run /\ ControlOf = Calls!Run
  BY <1>1, RunningFacts
<1>3. Contexts' = Contexts /\ Built(stack', program'.path)
  BY <1>1, StackStays
<1>4. CASE IsCallable(v)
  <2>1. /\ Len(callables) < program.callables /\ control' = control
        /\ callables' = Append(callables, BoundTo(v.id, r, a))
    BY <1>4 DEF BindValue
  <2>2. ControlOf' = Calls!Run /\ Aimed(control', program'.path)
    BY <1>2, <2>1, NextRun
  <2>3. v.id \in Calls!Callables /\ r \in Calls!Receivers
    BY <1>4, NamesSeen DEF IsCallable
  <2>4. callables' = Append(callables, [kind |-> "bound", flags |-> {}, this |-> r, target |-> v.id,
                                        arguments |-> a])
    BY <2>1 DEF BoundTo
  <2>5. Calls!Bind
    BY <1>1, <1>2, <1>3, <2>1, <2>2, <2>3, <2>4 DEF Calls!Bind
  <2>6. QED BY <1>3, <2>2, <2>5 DEF Matched, Kept, Calls!Next
<1>5. CASE ~IsCallable(v)
  <2>1. control' = Fails /\ callables' = callables
    BY <1>5 DEF BindValue
  <2>2. ControlOf' = Calls!Fails /\ Aimed(control', program'.path)
    BY <2>1, NextFails
  <2>3. Calls!Uncallable # {}
    BY <1>5, UncallableSeen
  <2>4. Calls!Bind
    BY <1>1, <1>2, <1>3, <2>1, <2>2, <2>3 DEF Calls!Bind
  <2>5. QED BY <1>3, <2>2, <2>4 DEF Matched, Kept, Calls!Next
<1>6. QED BY <1>4, <1>5

(* What a typed program jumps to reads no this.                            *)
LEMMA TypedContext ==
    ASSUME NEW s, NEW c, NEW n, NEW a, NEW path, path = "typed"
    PROVE  Invoke(ContextFor(s, path, c, n, a, Undefined)) =
              Calls!Invoking(Calls!Context(c, Undefined, Undefined, a, Undefined))
BY DEF Invoke, ContextFor, Calls!Invoking, Calls!Context

LEMMA DirectMatched ==
    ASSUME RInv, NEW a \in program.lists, CallDirect(a)
    PROVE  Matched
<1>1. /\ IInv /\ Running /\ UNCHANGED <<program, callables, objects, stack>> /\ program.path = "typed"
      /\ control' = Jump(0, a)
  BY DEF RInv, CallDirect, heap
<1>2. control = Run /\ ControlOf = Calls!Run /\ PendingIn(stack) = Undefined
  BY <1>1, RunningFacts
<1>3. Contexts' = Contexts /\ Built(stack', program'.path) /\ PendingIn(stack') = Undefined
  BY <1>1, <1>2, StackStays
<1>4. PICK k : k = Jump(0, a)
  OBVIOUS
<1>5. k.k = "jump" /\ k.closure = 0
  BY <1>4 DEF Jump
<1>6. ParametersIn(tailArgv', k) = a
  BY <1>4 DEF Jump, ParametersIn
<1>7. /\ ControlOf' = Invoke(ContextFor(stack', program'.path, 0, Len(stack'), a, Undefined))
      /\ Aimed(control', program'.path)
  BY <1>1, <1>3, <1>4, <1>5, <1>6, NextJump
<1>8. ControlOf' = Calls!Invoking(Calls!Context(0, Undefined, Undefined, a, Undefined))
  <2>1. PICK s, p, n : s = stack' /\ p = program'.path /\ n = Len(stack')
    OBVIOUS
  <2>2. p = "typed"
    BY <1>1, <2>1
  <2>3. QED BY <1>7, <2>1, <2>2, TypedContext
<1>9. Calls!CallDirect
  BY <1>1, <1>2, <1>3, <1>8, NamesSeen DEF Calls!CallDirect
<1>10. QED BY <1>3, <1>7, <1>9 DEF Matched, Kept, Calls!Next

LEMMA UndefinedIsReceiver == Undefined \in Receivers
BY DEF Receivers, Values

(* A call of a callable leads where the contract says.                     *)
LEMMA CallsSeen ==
    ASSUME NEW c \in Callables, NEW r, NEW a, NEW k, k = Dispatch(Callable(c), r, Undefined, FALSE, a)
    PROVE  Invoke(LedIn(callables, program.path, k, Undefined)) = Calls!Invoking(Calls!Calls(c, r, a))
<1>1. PICK e : e = ChainIn(callables)[c]
  OBVIOUS
<1>2. /\ k.callee.id = c /\ k.this = r /\ k.newTarget = Undefined /\ k.argv = a
  BY DEF Dispatch, Callable
<1>3. k.constructing = FALSE
  BY DEF Dispatch
<1>4. PICK t : t = IF e.bound THEN e.this ELSE r
  OBVIOUS
<1>5. LedIn(callables, program.path, k, Undefined) =
        [callee |-> e.target, this |-> ThisIn(callables, program.path, e.target, t), newTarget |-> Undefined,
         arguments |-> e.arguments \o a, receiver |-> Undefined]
  BY <1>1, <1>2, <1>3, <1>4 DEF LedIn
<1>6. Calls!Calls(c, r, a) =
        [callee |-> e.target, this |-> ThisIn(callables, program.path, e.target, t), newTarget |-> Undefined,
         arguments |-> e.arguments \o a, receiver |-> Undefined]
  BY <1>1, <1>4, ChainIsChain, ThisIsThis, NamesSeen DEF Calls!Calls, Calls!Context
<1>7. QED BY <1>5, <1>6 DEF Invoke, Calls!Invoking

LEMMA IndirectMatched ==
    ASSUME RInv, NEW c \in Callables, NEW a \in program.lists, CallIndirect(c, a)
    PROVE  Matched
<1>1. /\ IInv /\ Running /\ UNCHANGED <<program, callables, objects, stack>>
  BY DEF RInv, CallIndirect, heap
<1>2. control = Run /\ ControlOf = Calls!Run /\ PendingIn(stack) = Undefined
  BY <1>1, RunningFacts
<1>3. Contexts' = Contexts /\ Built(stack', program'.path) /\ PendingIn(stack') = Undefined
  BY <1>1, <1>2, StackStays
<1>4. PICK k : k = Dispatch(Callable(c), Undefined, Undefined, FALSE, a)
  OBVIOUS
<1>5. control' = k
  BY <1>4 DEF CallIndirect
<1>6. k.k = "dispatch" /\ k.callee = Callable(c) /\ k.newTarget = Undefined
  BY <1>4 DEF Dispatch
<1>7. k.constructing = FALSE
  BY <1>4 DEF Dispatch
<1>8. CallableIn(callables', k.callee)
  BY <1>1, <1>6 DEF CallableIn, Callable, Callables
<1>9. ControlOf' = Invoke(LedIn(callables', program'.path, k, PendingIn(stack')))
  BY <1>5, <1>6, <1>8, NextDispatch
<1>10. ControlOf' = Invoke(LedIn(callables, program.path, k, Undefined))
  BY <1>1, <1>3, <1>9
<1>11. ControlOf' = Calls!Invoking(Calls!Calls(c, Undefined, a))
  BY <1>4, <1>10, CallsSeen
<1>12. Aimed(control', program'.path)
  BY <1>5, <1>6, <1>7 DEF Aimed
<1>13. Calls!Call
  BY <1>1, <1>2, <1>3, <1>11, NamesSeen, UndefinedIsReceiver DEF Calls!Call
<1>14. QED BY <1>3, <1>12, <1>13 DEF Matched, Kept, Calls!Next

LEMMA ValueCallMatched ==
    ASSUME RInv, NEW v \in Values, NEW r \in Receivers, NEW a \in program.lists, CallValue(v, r, a)
    PROVE  Matched
<1>1. /\ IInv /\ Running /\ UNCHANGED <<program, callables, objects, stack>>
  BY DEF RInv, CallValue, heap
<1>2. control = Run /\ ControlOf = Calls!Run /\ PendingIn(stack) = Undefined
  BY <1>1, RunningFacts
<1>3. Contexts' = Contexts /\ Built(stack', program'.path) /\ PendingIn(stack') = Undefined
  BY <1>1, <1>2, StackStays
<1>4. PICK k : k = Dispatch(v, r, Undefined, FALSE, a)
  OBVIOUS
<1>5. control' = k
  BY <1>4 DEF CallValue
<1>6. k.k = "dispatch" /\ k.callee = v /\ k.newTarget = Undefined
  BY <1>4 DEF Dispatch
<1>7. k.constructing = FALSE
  BY <1>4 DEF Dispatch
<1>8. Aimed(control', program'.path)
  BY <1>5, <1>6, <1>7 DEF Aimed
<1>9. CallableIn(callables', k.callee) <=> IsCallable(v)
  BY <1>1, <1>6 DEF CallableIn, IsCallable, Callables
<1>10. CASE IsCallable(v)
  <2>1. ControlOf' = Invoke(LedIn(callables', program'.path, k, PendingIn(stack')))
    BY <1>5, <1>6, <1>9, <1>10, NextDispatch
  <2>2. ControlOf' = Invoke(LedIn(callables, program.path, k, Undefined))
    BY <1>1, <1>3, <2>1
  <2>3. v.id \in Callables /\ v = Callable(v.id)
    BY <1>10 DEF IsCallable, Callable, Values, Undefined, Number, Object
  <2>4. ControlOf' = Calls!Invoking(Calls!Calls(v.id, r, a))
    BY <1>4, <2>2, <2>3, CallsSeen
  <2>5. Calls!Call
    BY <1>1, <1>2, <1>3, <2>3, <2>4, NamesSeen DEF Calls!Call
  <2>6. QED BY <1>3, <1>8, <2>5 DEF Matched, Kept, Calls!Next
<1>11. CASE ~IsCallable(v)
  <2>1. ControlOf' = Complete(1, Undefined)
    BY <1>5, <1>6, <1>9, <1>11, NextDispatch
  <2>2. ControlOf' = Calls!Fails
    BY <2>1 DEF Complete, Calls!Fails, Calls!Completing, Undefined, Calls!Undefined
  <2>3. Calls!Uncallable # {}
    BY <1>11, UncallableSeen
  <2>4. Calls!Call
    BY <1>1, <1>2, <1>3, <2>2, <2>3 DEF Calls!Call
  <2>5. QED BY <1>3, <1>8, <2>4 DEF Matched, Kept, Calls!Next
<1>12. QED BY <1>10, <1>11

(* A step that leaves a function, which then has a completion pending for  *)
(* its caller.                                                             *)
LEMMA PopFacts ==
    ASSUME RInv, InFunction, stack' = Pop, program' = program
    PROVE  /\ Calls!Inside
           /\ Contexts' = Calls!Pop
           /\ Contexts[Len(Contexts)].receiver = PendingIn(stack')
           /\ Built(stack', program'.path)
           /\ PendingIn(stack') = Undefined \/ program.path = "generic"
<1>1. /\ StackOK(stack) /\ Top.kind = "code" /\ Built(stack, program.path)
      /\ stack' = SubSeq(stack, 1, Len(stack) - 1)
  BY StackFacts DEF RInv, InFunction, Pop
<1>2. PICK s, t, n : s = stack /\ t = SubSeq(s, 1, Len(s) - 1) /\ n = Len(s)
  OBVIOUS
<1>3. stack' = t /\ StackOK(s) /\ s[n].kind = "code" /\ Built(s, program.path) /\ s[Len(s)].kind # "entry"
  BY <1>1, <1>2 DEF Top
<1>4. Calls!Inside /\ Contexts = ContextsIn(s, program.path)
  BY <1>1, <1>2, StackFacts DEF RInv
<1>5. Contexts' = ContextsIn(t, program.path)
  BY <1>3, Later
<1>6. /\ ContextsIn(t, program.path) =
            SubSeq(ContextsIn(s, program.path), 1, Len(ContextsIn(s, program.path)) - 1)
      /\ ContextsIn(s, program.path)[Len(ContextsIn(s, program.path))] =
           ContextFor(s, program.path, s[n].callee, n - 1, s[n].arguments, PendingIn(t))
  <2>1. PICK path : path = program.path
    OBVIOUS
  <2>2. StackOK(s) /\ s[Len(s)].kind # "entry" /\ s[Len(s)].kind = "code"
    BY <1>2, <1>3
  <2>3. /\ ContextsIn(SubSeq(s, 1, Len(s) - 1), path) =
              SubSeq(ContextsIn(s, path), 1, Len(ContextsIn(s, path)) - 1)
        /\ ContextsIn(s, path)[Len(ContextsIn(s, path))] =
              ContextFor(s, path, s[Len(s)].callee, Len(s) - 1, s[Len(s)].arguments,
                         PendingIn(SubSeq(s, 1, Len(s) - 1)))
    BY <2>2, ContextsPopped
  <2>4. QED BY <1>2, <2>1, <2>3
<1>7. Contexts' = Calls!Pop
  BY <1>4, <1>5, <1>6 DEF Calls!Pop
<1>8. Contexts[Len(Contexts)].receiver = PendingIn(t)
  BY <1>4, <1>6 DEF ContextFor
<1>9. Built(t, program.path)
  BY <1>2, <1>3, BuiltPopped
<1>10. StackOK(t)
  BY <1>2, <1>3, Popped
<1>11. PendingIn(t) = Undefined \/ program.path = "generic"
  <2>1. CASE t[Len(t)].kind \in {"entry", "code"}
    BY <1>10, <2>1, PendingAtPosition
  <2>2. CASE t[Len(t)].kind \notin {"entry", "code"}
    <3>1. PICK q : q = CallerIn(PositionsIn(t), Len(t) + 1)
      OBVIOUS
    <3>2. Len(t) \in Nat /\ q \in 1 .. (Len(t) - 1)
      BY <1>10, <2>2, <3>1, PendingElsewhere DEF StackOK
    <3>3. q + 1 \in 1 .. Len(t)
      BY <3>2
    <3>4. t[q + 1].kind = "construct" => program.path = "generic"
      BY <1>9, <3>3 DEF Built
    <3>5. QED BY <3>1, <3>4 DEF PendingIn, AboveIn
  <2>3. QED BY <2>1, <2>2
<1>12. QED BY <1>3, <1>4, <1>7, <1>8, <1>9, <1>11

LEMMA TailCallMatched ==
    ASSUME RInv, NEW a \in program.lists, TailCallDirect(a)
    PROVE  Matched
<1>1. /\ IInv /\ Running /\ InFunction /\ program.path = "typed" /\ UNCHANGED <<program, callables, objects>>
      /\ stack' = Pop /\ control' = TailJump(Len(a)) /\ tailArgv' = Written(tailArgv, a)
  BY DEF RInv, TailCallDirect, heap
<1>2. control = Run /\ ControlOf = Calls!Run
  BY <1>1, RunningFacts
<1>3. Calls!Inside /\ Contexts' = Calls!Pop /\ Built(stack', program'.path) /\ PendingIn(stack') = Undefined
  BY <1>1, PopFacts
<1>4. PICK k : k = TailJump(Len(a))
  OBVIOUS
<1>5. k.k = "jump" /\ k.closure = 0 /\ k.argc = Len(a)
  BY <1>4 DEF TailJump
<1>6. k.tail = TRUE
  BY <1>4 DEF TailJump
<1>7. ParametersIn(tailArgv', k) = a
  <2>1. tailArgv \in Seq(ValueType) /\ a \in Seq(ValueType)
    BY <1>1, ProgramHasType DEF IInv, TypeOK
  <2>2. SubSeq(tailArgv', 1, k.argc) = a
    BY <1>1, <1>5, <2>1, WrittenRead
  <2>3. QED BY <1>6, <2>2 DEF ParametersIn
<1>8. /\ ControlOf' = Invoke(ContextFor(stack', program'.path, 0, Len(stack'), a, Undefined))
      /\ Aimed(control', program'.path)
  BY <1>1, <1>3, <1>4, <1>5, <1>7, NextJump
<1>9. ControlOf' = Calls!Invoking(Calls!Context(0, Undefined, Undefined, a, Undefined))
  <2>1. PICK s, p, n : s = stack' /\ p = program'.path /\ n = Len(stack')
    OBVIOUS
  <2>2. p = "typed"
    BY <1>1, <2>1
  <2>3. QED BY <1>8, <2>1, <2>2, TypedContext
<1>10. Calls!TailCall
  BY <1>1, <1>2, <1>3, <1>9, NamesSeen DEF Calls!TailCall
<1>11. QED BY <1>3, <1>8, <1>10 DEF Matched, Kept, Calls!Next

(* What constructing leads to.                                             *)
LEMMA ConstructsSeen ==
    ASSUME IInv, NEW c \in Callables, NEW n, NEW a,
           NEW k, k = Dispatch(Callable(c), Object(n), Callable(c), TRUE, a)
    PROVE  Invoke(LedIn(callables, program.path, k, Object(n))) =
              Calls!Invoking(Calls!Constructs(c, Calls!Object(n), a))
<1>1. PICK e, o : e = ChainIn(callables)[c] /\ o = Object(n)
  OBVIOUS
<1>2. /\ k.callee = Callable(c) /\ k.callee.id = c /\ k.this = o /\ k.newTarget = k.callee /\ k.argv = a
  BY <1>1 DEF Dispatch, Callable
<1>3. k.constructing = TRUE
  BY DEF Dispatch
<1>4. LedIn(callables, program.path, k, o) =
        [callee |-> e.target, this |-> ThisIn(callables, program.path, e.target, o),
         newTarget |-> Callable(e.target), arguments |-> e.arguments \o a, receiver |-> o]
  BY <1>1, <1>2, <1>3 DEF LedIn
<1>5. Calls!Constructs(c, o, a) =
        [callee |-> e.target, this |-> ThisIn(callables, program.path, e.target, o),
         newTarget |-> Callable(e.target), arguments |-> e.arguments \o a, receiver |-> o]
  BY <1>1, ChainIsChain, ThisIsThis DEF Calls!Constructs, Calls!Context, Calls!Callable, Callable
<1>6. Calls!Object(n) = o
  BY <1>1 DEF Calls!Object, Object
<1>7. QED BY <1>1, <1>4, <1>5, <1>6 DEF Invoke, Calls!Invoking

LEMMA ConstructableSeen ==
    ASSUME IInv, NEW c \in Callables
    PROVE  /\ Calls!Chain[c].target = ConstructTarget[c]
           /\ Calls!Constructable(c) <=> CanConstruct(Callable(c))
<1>1. ConstructTarget[c] = ChainIn(callables)[c].target /\ ConstructTarget[c] \in Callables
  BY StackFacts, ConstructTargetIsEnd
<1>2. Calls!Chain[c].target = ConstructTarget[c]
  BY <1>1, ChainIsChain
<1>3. IsCallable(Callable(c)) /\ Callable(c).id = c
  BY DEF IsCallable, Callable
<1>4. Calls!Constructable(c) <=> CanConstruct(Callable(c))
  BY <1>1, <1>2, <1>3 DEF Calls!Constructable, Calls!Has, Has, CanConstruct
<1>5. QED BY <1>2, <1>4

LEMMA ConstructMatched ==
    ASSUME RInv, NEW v \in Values, NEW a \in program.lists, ConstructValue(v, a)
    PROVE  Matched
<1>1. /\ IInv /\ Running /\ program.path = "generic" /\ UNCHANGED <<program, callables>>
  BY DEF RInv, ConstructValue
<1>2. control = Run /\ ControlOf = Calls!Run /\ PendingIn(stack) = Undefined /\ Top.kind \in {"entry", "code"}
  BY <1>1, RunningFacts
<1>3. CASE CanConstruct(v)
  <2>1. PICK n : n = Len(objects) + 1
    OBVIOUS
  <2>2. /\ Len(objects) < program.objects /\ objects' = Append(objects, ConstructTarget[v.id])
        /\ stack' = Append(stack, Constructing(v.id, Object(n)))
        /\ control' = Dispatch(v, Object(n), v, TRUE, a)
    BY <1>3, <2>1 DEF ConstructValue
  <2>3. v.id \in Callables /\ v = Callable(v.id)
    BY <1>3 DEF CanConstruct, IsCallable, Callable, Values, Undefined, Number, Object
  <2>4. PICK r, s : r = Constructing(v.id, Object(n)) /\ s = stack
    OBVIOUS
  <2>5. /\ r \in RecordType /\ r.kind = "construct" /\ r.this = Object(n) /\ r.this # Undefined
    <3>1. objects \in Seq(Nat) /\ n \in Nat /\ TypeOK
      BY <1>1, <2>1 DEF IInv, TypeOK, HeapOK
    <3>2. v.id \in Nat /\ Object(n) \in ValueType
      BY <2>3, <3>1, HeldHasType DEF Object, ValueType
    <3>3. r \in RecordType /\ r.kind = "construct"
      <4>1. Undefined \in ValueType /\ <<>> \in Seq(ValueType)
        BY UndefinedHasType
      <4>2. QED BY <2>4, <3>1, <3>2, <4>1, RecordsHaveType
    <3>4. r.this = Object(n) /\ Object(n) # Undefined
      BY <2>4 DEF Constructing, Record, Object, Undefined
    <3>5. QED BY <3>3, <3>4
  <2>6. StackOK(s) /\ s[Len(s)].kind \in {"entry", "code"} /\ Built(s, program.path) /\ stack' = Append(s, r)
    BY <1>1, <1>2, <2>2, <2>4, StackFacts DEF Top, RInv
  <2>7. Built(stack', program'.path)
    BY <1>1, <2>5, <2>6, BuiltPushed
  <2>8. Contexts' = Contexts
    <3>1. ContextsIn(Append(s, r), program.path) = ContextsIn(s, program.path)
      BY <2>5, <2>6, ContextsOther
    <3>2. QED BY <1>1, <2>4, <2>6, <3>1, ContextsNow, Later
  <2>9. PendingIn(stack') = Object(n)
    BY <2>5, <2>6, PendingPushed
  <2>10. PICK k : k = Dispatch(Callable(v.id), Object(n), Callable(v.id), TRUE, a)
    OBVIOUS
  <2>11. control' = k /\ k.k = "dispatch" /\ k.callee = Callable(v.id) /\ k.newTarget = k.callee
    BY <2>2, <2>3, <2>10 DEF Dispatch
  <2>12. k.constructing = TRUE
    BY <2>10 DEF Dispatch
  <2>13. CallableIn(callables', k.callee)
    BY <1>1, <2>3, <2>11 DEF CallableIn, Callable, Callables
  <2>14. ControlOf' = Invoke(LedIn(callables', program'.path, k, PendingIn(stack')))
    BY <2>11, <2>13, NextDispatch
  <2>15. ControlOf' = Invoke(LedIn(callables, program.path, k, Object(n)))
    BY <1>1, <2>9, <2>14
  <2>16. ControlOf' = Calls!Invoking(Calls!Constructs(v.id, Calls!Object(n), a))
    BY <1>1, <2>3, <2>10, <2>15, ConstructsSeen
  <2>17. Aimed(control', program'.path)
    BY <1>1, <2>11, <2>12 DEF Aimed
  <2>18. Calls!Constructable(v.id) /\ objects' = Append(objects, Calls!Chain[v.id].target)
    BY <1>1, <1>3, <2>2, <2>3, ConstructableSeen
  <2>19. Len(objects') = Len(objects) + 1
    BY <1>1, <2>2 DEF IInv, TypeOK, HeapOK
  <2>20. Calls!Construct
    BY <1>1, <1>2, <2>1, <2>2, <2>3, <2>8, <2>16, <2>18, <2>19, NamesSeen DEF Calls!Construct
  <2>21. QED BY <2>7, <2>17, <2>20 DEF Matched, Kept, Calls!Next
<1>4. CASE ~CanConstruct(v)
  <2>1. control' = Fails /\ UNCHANGED <<objects, stack>>
    BY <1>4 DEF ConstructValue
  <2>2. ControlOf' = Calls!Fails /\ Aimed(control', program'.path)
    BY <2>1, NextFails
  <2>3. Contexts' = Contexts /\ Built(stack', program'.path)
    BY <1>1, <2>1, StackStays
  <2>4. Calls!Uncallable # {} \/ \E c \in Callables : ~Calls!Constructable(c)
    <3>1. CASE IsCallable(v)
      <4>1. v.id \in Callables /\ v = Callable(v.id)
        BY <3>1 DEF IsCallable, Callable, Values, Undefined, Number, Object
      <4>2. ~Calls!Constructable(v.id)
        BY <1>1, <1>4, <4>1, ConstructableSeen
      <4>3. QED BY <4>1, <4>2
    <3>2. CASE ~IsCallable(v)
      BY <3>2, UncallableSeen
    <3>3. QED BY <3>1, <3>2
  <2>5. Calls!Construct
    BY <1>1, <1>2, <2>1, <2>2, <2>3, <2>4, NamesSeen DEF Calls!Construct
  <2>6. QED BY <2>2, <2>3, <2>5 DEF Matched, Kept, Calls!Next
<1>5. QED BY <1>3, <1>4

LEMMA ReturnMatched ==
    ASSUME RInv, NEW v \in Values, ReturnValue(v)
    PROVE  Matched
<1>1. /\ IInv /\ Running /\ InFunction /\ UNCHANGED <<program, callables, objects>>
      /\ stack' = Pop /\ control' = Returned(0, v)
  BY DEF RInv, ReturnValue, LeaveWith, heap
<1>2. control = Run /\ ControlOf = Calls!Run
  BY <1>1, RunningFacts
<1>3. PICK receiver : receiver = PendingIn(stack')
  OBVIOUS
<1>4. /\ Calls!Inside /\ Contexts' = Calls!Pop /\ Built(stack', program'.path)
      /\ Calls!Top.receiver = receiver
  BY <1>1, <1>3, PopFacts DEF Calls!Top
<1>5. PICK k : k = Returned(0, v)
  OBVIOUS
<1>6. k.k = "returned" /\ k.status = 0 /\ k.value = v
  BY <1>5 DEF Returned
<1>7. ControlOf' = CompletionIn(receiver, k) /\ Aimed(control', program'.path)
  BY <1>1, <1>3, <1>5, <1>6, NextReturned
<1>8. CompletionIn(receiver, k) =
        Complete(0, IF receiver # Undefined /\ ~IsObjectLike(v) THEN receiver ELSE v)
  BY <1>6, Completions
<1>9. ControlOf' =
        Calls!Completing(0, IF Calls!Top.receiver # Calls!Undefined /\ v.tag \notin {"object", "callable"}
                            THEN Calls!Top.receiver ELSE v)
  BY <1>4, <1>7, <1>8, NamesSeen DEF Complete, Calls!Completing, IsObjectLike
<1>10. Calls!Return
  BY <1>1, <1>2, <1>4, <1>9, NamesSeen DEF Calls!Return
<1>11. QED BY <1>4, <1>7, <1>10 DEF Matched, Kept, Calls!Next

LEMMA ThrowMatched ==
    ASSUME RInv, NEW v \in Values, ThrowValue(v)
    PROVE  Matched
<1>1. /\ IInv /\ Running /\ UNCHANGED <<program, callables, objects>>
  BY DEF RInv, ThrowValue, heap
<1>2. control = Run /\ ControlOf = Calls!Run /\ (Calls!Inside <=> InFunction)
  BY <1>1, RunningFacts
<1>3. CASE InFunction
  <2>1. stack' = Pop /\ control' = Returned(1, v)
    BY <1>3 DEF ThrowValue, LeaveWith
  <2>2. Contexts' = Calls!Pop /\ Built(stack', program'.path)
    BY <1>1, <1>3, <2>1, PopFacts
  <2>3. PICK k, receiver : k = Returned(1, v) /\ receiver = PendingIn(stack')
    OBVIOUS
  <2>4. k.k = "returned" /\ k.status = 1 /\ k.value = v
    BY <2>3 DEF Returned
  <2>5. ControlOf' = CompletionIn(receiver, k) /\ Aimed(control', program'.path)
    BY <2>1, <2>3, <2>4, NextReturned
  <2>6. CompletionIn(receiver, k) = Complete(1, v)
    BY <2>4, Completions
  <2>7. ControlOf' = Calls!Completing(1, v)
    BY <2>5, <2>6 DEF Complete, Calls!Completing
  <2>8. Calls!Throw
    BY <1>1, <1>2, <1>3, <2>2, <2>7, NamesSeen DEF Calls!Throw
  <2>9. QED BY <2>2, <2>5, <2>8 DEF Matched, Kept, Calls!Next
<1>4. CASE ~InFunction
  <2>1. stack' = stack /\ control' = Ended("uncaught")
    BY <1>4 DEF ThrowValue, LeaveWith
  <2>2. Contexts' = Contexts /\ Built(stack', program'.path)
    BY <1>1, <2>1, StackStays
  <2>3. ControlOf' = Calls!Ended("uncaught") /\ Aimed(control', program'.path)
    BY <2>1, NextEnded
  <2>4. Calls!Throw
    BY <1>1, <1>2, <1>4, <2>2, <2>3 DEF Calls!Throw
  <2>5. QED BY <2>2, <2>3, <2>4 DEF Matched, Kept, Calls!Next
<1>5. QED BY <1>3, <1>4

LEMMA ExitMatched ==
    ASSUME RInv, ReturnI32
    PROVE  Matched
<1>1. /\ IInv /\ Running /\ ~InFunction /\ UNCHANGED <<program, callables, objects, stack>>
      /\ control' = Ended("exit")
  BY DEF RInv, ReturnI32, heap
<1>2. control = Run /\ ControlOf = Calls!Run /\ ~Calls!Inside
  BY <1>1, RunningFacts
<1>3. Contexts' = Contexts /\ Built(stack', program'.path)
  BY <1>1, StackStays
<1>4. ControlOf' = Calls!Ended("exit") /\ Aimed(control', program'.path)
  BY <1>1, NextEnded
<1>5. Calls!Exit
  BY <1>1, <1>2, <1>3, <1>4 DEF Calls!Exit
<1>6. QED BY <1>3, <1>4, <1>5 DEF Matched, Kept, Calls!Next

-----------------------------------------------------------------------------
(* Steps of the runtime.                                                   *)
Stutters == UNCHANGED <<program, callables, objects, Contexts, ControlOf>>

LEMMA StutterMatched ==
    ASSUME Kept, Stutters
    PROVE  Matched
BY DEF Matched, Stutters, Calls!vars

LEMMA DispatchFacts ==
    ASSUME IInv, control.k = "dispatch"
    PROVE  /\ control.callee \in ValueType /\ control.this \in ValueType /\ control.newTarget \in ValueType
           /\ control.constructing \in BOOLEAN /\ control.argv \in Seq(ValueType)
BY DEF IInv, TypeOK, ControlType, Run

LEMMA UncallableMatched ==
    ASSUME RInv, DispatchUncallable
    PROVE  Matched
<1>1. /\ control.k = "dispatch" /\ ~IsCallable(control.callee) /\ control' = Fails
      /\ UNCHANGED <<program, callables, objects, stack>>
  BY DEF DispatchUncallable, heap
<1>2. ~CallableIn(callables, control.callee)
  BY <1>1 DEF CallableIn, IsCallable, Callables
<1>3. ControlOf = CompletionIn(PendingIn(stack), Fails)
  BY <1>1, <1>2, ControlNow, SeenDispatch DEF Seen
<1>4. ControlOf = Complete(1, Undefined)
  BY <1>3, FailureSeen
<1>5. ControlOf' = Calls!Fails /\ Aimed(control', program'.path)
  BY <1>1, NextFails
<1>6. Contexts' = Contexts /\ Built(stack', program'.path)
  BY <1>1, StackStays
<1>7. ControlOf' = ControlOf
  BY <1>4, <1>5, NamesSeen DEF Complete, Calls!Fails, Calls!Completing
<1>8. QED BY <1>1, <1>5, <1>6, <1>7, StutterMatched DEF Kept, Stutters

(* Pushing a record of the runtime other than a constructor's.             *)
LEMMA RuntimePushes ==
    ASSUME RInv, NEW r \in RecordType, r.kind \in {"frame", "bound"}, stack' = Append(stack, r),
           program' = program
    PROVE  /\ Contexts' = Contexts /\ PendingIn(stack') = PendingIn(stack)
           /\ Built(stack', program'.path)
<1>1. PICK s : s = stack
  OBVIOUS
<1>2. StackOK(s) /\ Built(s, program.path) /\ stack' = Append(s, r)
  BY <1>1, StackFacts DEF RInv
<1>3. ContextsIn(Append(s, r), program.path) = ContextsIn(s, program.path)
  BY <1>2, ContextsOther
<1>4. PendingIn(Append(s, r)) = PendingIn(s)
  BY <1>2, PendingPushed
<1>5. Built(Append(s, r), program.path)
  BY <1>2, BuiltPushed
<1>6. QED BY <1>1, <1>2, <1>3, <1>4, <1>5, ContextsNow, Later

LEMMA BoundMatched ==
    ASSUME RInv, DispatchBound
    PROVE  Matched
<1>1. PICK c, call, cs : c = control.callee.id /\ call = control /\ cs = callables
  OBVIOUS
<1>2. PICK next : next = Dispatch(Callable(cs[c].target), BoundReceiver(cs[c], call),
                           IF call.constructing /\ call.newTarget = call.callee
                           THEN Callable(cs[c].target) ELSE call.newTarget,
                           call.constructing, BoundArgv(cs[c], call.argv))
  OBVIOUS
<1>3. /\ call.k = "dispatch" /\ IsCallable(call.callee) /\ IsBound(c)
      /\ control' = next
      /\ stack' = Append(stack, BoundDispatch(c)) /\ UNCHANGED <<program, callables, objects>>
  BY <1>1, <1>2 DEF DispatchBound, heap
<1>4. /\ IInv /\ TypeOK /\ Older(cs) /\ call.callee \in ValueType /\ call.newTarget \in ValueType
      /\ call.constructing \in BOOLEAN /\ call.argv \in Seq(ValueType)
  BY <1>1, <1>3, StackFacts, DispatchFacts DEF RInv, IInv
<1>5. c \in 1 .. Len(cs) /\ c \in Callables /\ cs[c].kind = "bound" /\ call.callee = Callable(c)
  BY <1>1, <1>3, <1>4 DEF IsCallable, IsBound, Callables, Callable, ValueType
<1>6. /\ call.constructing => program.path = "generic" /\ call.newTarget = call.callee
      /\ ~call.constructing => call.newTarget = Undefined
  BY <1>1, <1>3 DEF RInv, Aimed
<1>7. PICK r : r = BoundDispatch(c)
  OBVIOUS
<1>8. r \in RecordType /\ r.kind = "bound"
  <2>1. c \in Nat /\ Undefined \in ValueType /\ <<>> \in Seq(ValueType)
    BY <1>4, <1>5, HeldHasType, UndefinedHasType
  <2>2. QED BY <1>4, <1>7, <2>1, RecordsHaveType
<1>9. Contexts' = Contexts /\ PendingIn(stack') = PendingIn(stack) /\ Built(stack', program'.path)
  BY <1>3, <1>7, <1>8, RuntimePushes
<1>10. PICK receiver, path : receiver = PendingIn(stack) /\ path = program.path
  OBVIOUS
<1>11. LedIn(cs, path, next, receiver) = LedIn(cs, path, call, receiver)
  <2>1. call.constructing => call.newTarget = call.callee
    BY <1>6
  <2>2. QED BY <1>2, <1>4, <1>5, <2>1, LedThroughBound
<1>12. ControlOf = Invoke(LedIn(cs, path, call, receiver))
  <2>1. CallableIn(cs, call.callee)
    BY <1>5 DEF CallableIn, Callable
  <2>2. QED BY <1>1, <1>3, <1>10, <2>1, ControlNow, SeenDispatch DEF Seen
<1>13. next.k = "dispatch" /\ next.callee = Callable(cs[c].target) /\ next.constructing = call.constructing
  BY <1>2 DEF Dispatch
<1>14. next.newTarget = IF call.constructing /\ call.newTarget = call.callee
                        THEN Callable(cs[c].target) ELSE call.newTarget
  BY <1>2 DEF Dispatch
<1>15. ControlOf' = Invoke(LedIn(cs, path, next, receiver))
  <2>1. cs[c].target \in 1 .. Len(cs)
    BY <1>4, <1>5 DEF Older
  <2>2. CallableIn(cs, next.callee)
    BY <1>13, <2>1 DEF CallableIn, Callable
  <2>3. callables' = cs /\ program'.path = path /\ PendingIn(stack') = receiver
    BY <1>1, <1>3, <1>9, <1>10
  <2>4. CallableIn(callables', next.callee)
    BY <2>2, <2>3
  <2>5. ControlOf' = Invoke(LedIn(callables', program'.path, next, PendingIn(stack')))
    BY <1>3, <1>13, <2>4, NextDispatch
  <2>6. QED BY <2>3, <2>5
<1>16. Aimed(control', program'.path)
  <2>1. Aimed(next, program.path)
    <3>1. CASE call.constructing
      <4>1. next.constructing /\ next.newTarget = next.callee /\ program.path = "generic"
        BY <1>6, <1>13, <1>14, <3>1
      <4>2. QED BY <4>1 DEF Aimed
    <3>2. CASE ~call.constructing
      <4>1. ~next.constructing /\ next.newTarget = Undefined
        BY <1>6, <1>13, <1>14, <3>2
      <4>2. QED BY <4>1 DEF Aimed
    <3>3. QED BY <3>1, <3>2
  <2>2. QED BY <1>3, <2>1
<1>17. ControlOf' = ControlOf
  BY <1>11, <1>12, <1>15
<1>18. QED BY <1>3, <1>9, <1>16, <1>17, StutterMatched DEF Kept, Stutters

LEMMA FrameThisSeen ==
    ASSUME NEW c, NEW receiver, program.path = "generic"
    PROVE  ThisIn(callables, program.path, c, receiver) = FrameThis(c, receiver)
<1>1. program.path # "typed"
  OBVIOUS
<1>2. CASE Has(c, "lexical")
  <2>1. "lexical" \in callables[c].flags
    BY <1>2 DEF Has
  <2>2. ThisIn(callables, program.path, c, receiver) = callables[c].this
    BY <1>1, <2>1 DEF ThisIn
  <2>3. QED BY <1>2, <2>2 DEF FrameThis
<1>3. CASE ~Has(c, "lexical") /\ ~Has(c, "strict") /\ receiver = Undefined
  <2>1. ~("lexical" \in callables[c].flags) /\ ~("strict" \in callables[c].flags)
    BY <1>3 DEF Has
  <2>2. ThisIn(callables, program.path, c, receiver) = GlobalThis
    BY <1>1, <1>3, <2>1 DEF ThisIn
  <2>3. QED BY <1>3, <2>2 DEF FrameThis
<1>4. CASE ~Has(c, "lexical") /\ ~(~Has(c, "strict") /\ receiver = Undefined)
  <2>1. ~("lexical" \in callables[c].flags) /\ ~(~("strict" \in callables[c].flags) /\ receiver = Undefined)
    BY <1>4 DEF Has
  <2>2. ThisIn(callables, program.path, c, receiver) = receiver
    BY <1>1, <2>1 DEF ThisIn
  <2>3. QED BY <1>4, <2>2 DEF FrameThis
<1>5. QED BY <1>2, <1>3, <1>4

LEMMA NativeMatched ==
    ASSUME RInv, DispatchNative
    PROVE  Matched
<1>1. PICK c, call, cs : c = control.callee.id /\ call = control /\ cs = callables
  OBVIOUS
<1>2. PICK r, k : r = Frame(c, FrameThis(c, call.this), call.newTarget) /\ k = Jump(c, call.argv)
  OBVIOUS
<1>3. /\ call.k = "dispatch" /\ IsCallable(call.callee) /\ ~IsBound(c)
      /\ control' = k /\ stack' = Append(stack, r) /\ UNCHANGED <<program, callables, objects>>
  BY <1>1, <1>2 DEF DispatchNative, heap
<1>4. /\ IInv /\ TypeOK /\ Older(cs) /\ call.callee \in ValueType /\ call.newTarget \in ValueType
      /\ call.this \in ValueType /\ call.constructing \in BOOLEAN /\ call.argv \in Seq(ValueType)
  BY <1>1, <1>3, StackFacts, DispatchFacts DEF RInv, IInv
<1>5. c \in 1 .. Len(cs) /\ c \in Callables /\ cs[c].kind # "bound" /\ call.callee = Callable(c)
  BY <1>1, <1>3, <1>4 DEF IsCallable, IsBound, Callables, Callable, ValueType
<1>6. /\ call.constructing => program.path = "generic" /\ call.newTarget = call.callee
      /\ ~call.constructing => call.newTarget = Undefined
  BY <1>1, <1>3 DEF RInv, Aimed
<1>7. /\ r \in RecordType /\ r.kind = "frame" /\ r.this = FrameThis(c, call.this)
      /\ r.newTarget = call.newTarget
  <2>1. c \in Nat /\ callables[c].this \in ValueType
    BY <1>4, <1>5, HeldHasType
  <2>2. GlobalThis \in ValueType
    BY DEF GlobalThis, Object, ValueType
  <2>3. FrameThis(c, call.this) \in ValueType
    BY <1>4, <2>1, <2>2 DEF FrameThis
  <2>4. <<>> \in Seq(ValueType)
    OBVIOUS
  <2>5. r \in RecordType /\ r.kind = "frame"
    BY <1>2, <1>4, <2>1, <2>3, <2>4, RecordsHaveType
  <2>6. QED BY <1>2, <2>5 DEF Frame, Record
<1>8. Contexts' = Contexts /\ PendingIn(stack') = PendingIn(stack) /\ Built(stack', program'.path)
  BY <1>3, <1>7, RuntimePushes
<1>9. PICK receiver, path : receiver = PendingIn(stack) /\ path = program.path
  OBVIOUS
<1>10. ControlOf = Invoke(LedIn(cs, path, call, receiver))
  <2>1. CallableIn(cs, call.callee)
    BY <1>5 DEF CallableIn, Callable
  <2>2. QED BY <1>1, <1>3, <1>9, <2>1, ControlNow, SeenDispatch DEF Seen
<1>11. LedIn(cs, path, call, receiver) =
          [callee |-> c, this |-> ThisIn(cs, path, c, call.this), newTarget |-> call.newTarget,
           arguments |-> call.argv, receiver |-> receiver]
  <2>1. call.constructing => call.newTarget = call.callee
    BY <1>6
  <2>2. QED BY <1>4, <1>5, <2>1, LedToNative
<1>12. k.k = "jump" /\ k.closure = c
  BY <1>2 DEF Jump
<1>13. ParametersIn(tailArgv', k) = call.argv
  BY <1>2 DEF Jump, ParametersIn
<1>14. /\ ControlOf' = Invoke(ContextFor(stack', path, c, Len(stack'), call.argv, receiver))
       /\ Aimed(control', program'.path)
  BY <1>3, <1>8, <1>9, <1>12, <1>13, NextJump
<1>15. stack'[Len(stack')] = r
  <2>1. Len(stack') = Len(stack) + 1 /\ stack'[Len(stack) + 1] = r
    BY <1>3, <1>4, <1>7, Pushed DEF TypeOK
  <2>2. QED BY <2>1
<1>16. ContextFor(stack', path, c, Len(stack'), call.argv, receiver) =
          [callee |-> c, this |-> ThisIn(cs, path, c, call.this), newTarget |-> call.newTarget,
           arguments |-> call.argv, receiver |-> receiver]
  <2>1. PICK t, n : t = stack' /\ n = Len(stack')
    OBVIOUS
  <2>2. t[n] = r
    BY <1>15, <2>1
  <2>3. CASE path = "generic"
    <3>1. ThisIn(cs, path, c, call.this) = FrameThis(c, call.this)
      BY <1>1, <1>9, <2>3, FrameThisSeen
    <3>2. t[n].this = ThisIn(cs, path, c, call.this) /\ t[n].newTarget = call.newTarget
      BY <1>7, <2>2, <3>1
    <3>3. ContextFor(t, path, c, n, call.argv, receiver) =
            [callee |-> c, this |-> ThisIn(cs, path, c, call.this), newTarget |-> call.newTarget,
             arguments |-> call.argv, receiver |-> receiver]
      BY <2>3, <3>2 DEF ContextFor
    <3>4. QED BY <2>1, <3>3
  <2>4. CASE path # "generic"
    <3>1. path = "typed"
      BY <1>4, <1>9, <2>4, ProgramHasType DEF ProgramType
    <3>2. ThisIn(cs, path, c, call.this) = Undefined
      BY <3>1 DEF ThisIn
    <3>3. call.newTarget = Undefined
      BY <1>4, <1>6, <1>9, <2>4
    <3>4. ContextFor(t, path, c, n, call.argv, receiver) =
            [callee |-> c, this |-> ThisIn(cs, path, c, call.this), newTarget |-> call.newTarget,
             arguments |-> call.argv, receiver |-> receiver]
      BY <2>4, <3>2, <3>3 DEF ContextFor
    <3>5. QED BY <2>1, <3>4
  <2>5. QED BY <2>3, <2>4
<1>17. ControlOf' = ControlOf
  BY <1>10, <1>11, <1>14, <1>16
<1>18. QED BY <1>3, <1>8, <1>14, <1>17, StutterMatched DEF Kept, Stutters

(* The limit counts the contexts above the process, so that a function is  *)
(* entered when its context begins.                                        *)
LEMMA EnterMatched ==
    ASSUME RInv, EnterFunction
    PROVE  Matched
<1>1. PICK k : k = control
  OBVIOUS
<1>2. /\ control.k = "jump" /\ k.k = "jump" /\ UNCHANGED <<program, callables, objects, tailArgv>>
      /\ IInv /\ TypeOK
  BY <1>1 DEF EnterFunction, heap, RInv, IInv
<1>3. /\ k.closure \in Nat /\ k.argc \in Nat /\ k.argv \in Seq(ValueType) /\ BufferHolds
      /\ tailArgv \in Seq(ValueType)
  BY <1>1, <1>2 DEF IInv, ControlFits, TypeOK, ControlType, Run
<1>4. PICK s, n, path, a, receiver : /\ s = stack /\ n = Len(stack) /\ path = program.path
                                     /\ a = Parameters(k) /\ receiver = PendingIn(stack)
  OBVIOUS
<1>5. PICK context : context = ContextFor(s, path, k.closure, n, a, receiver)
  OBVIOUS
<1>6. ControlOf = Calls!Invoking(context)
  <2>1. ParametersIn(tailArgv, k) = a
    BY <1>4 DEF ParametersIn, Parameters
  <2>2. ControlOf = Invoke(ContextFor(s, path, k.closure, n, ParametersIn(tailArgv, k), receiver))
    BY <1>1, <1>2, <1>4, ControlNow, SeenJump DEF Seen
  <2>3. QED BY <1>5, <2>1, <2>2 DEF Invoke, Calls!Invoking
<1>7. ControlOf.k = "invoke" /\ ControlOf.context = context
  BY <1>6 DEF Calls!Invoking
<1>8. Len(Contexts) = depth + 1 /\ depth \in Nat /\ program.limit \in Nat
  BY <1>2, StackFacts
<1>9. CASE depth >= program.limit
  <2>1. control' = Ended("overflow") /\ stack' = stack
    BY <1>9 DEF EnterFunction
  <2>2. Contexts' = Contexts /\ Built(stack', program'.path)
    BY <1>2, <2>1, StackStays
  <2>3. ControlOf' = Calls!Ended("overflow") /\ Aimed(control', program'.path)
    BY <2>1, NextEnded
  <2>4. ~(Len(Contexts) - 1 < program.limit)
    BY <1>8, <1>9
  <2>5. Calls!Enter
    BY <1>2, <1>7, <2>2, <2>3, <2>4 DEF Calls!Enter
  <2>6. QED BY <2>2, <2>3, <2>5 DEF Matched, Kept, Calls!Next
<1>10. CASE ~(depth >= program.limit)
  <2>1. PICK r : r = Code(k.closure, a)
    OBVIOUS
  <2>2. control' = Run /\ stack' = Append(s, r)
    BY <1>1, <1>4, <1>10, <2>1 DEF EnterFunction
  <2>3. r \in RecordType /\ r.kind = "code" /\ r.callee = k.closure /\ r.arguments = a
    <3>1. a \in Seq(ValueType)
      <4>1. CASE k.tail
        <5>1. k.argc <= Len(tailArgv)
          BY <1>1, <1>2, <1>3, <4>1 DEF BufferHolds
        <5>2. SubSeq(tailArgv, 1, k.argc) \in Seq(ValueType)
          BY <1>3, <5>1
        <5>3. QED BY <1>4, <4>1, <5>2 DEF Parameters
      <4>2. CASE ~k.tail
        BY <1>3, <1>4, <4>2 DEF Parameters
      <4>3. QED BY <4>1, <4>2
    <3>2. Undefined \in ValueType
      BY UndefinedHasType
    <3>3. r \in RecordType /\ r.kind = "code"
      BY <1>2, <1>3, <2>1, <3>1, <3>2, RecordsHaveType
    <3>4. QED BY <2>1, <3>3 DEF Code, Record
  <2>4. StackOK(s) /\ Built(s, path)
    BY <1>2, <1>4 DEF TypeOK, RInv
  <2>5. ContextsIn(Append(s, r), path) =
           Append(ContextsIn(s, path), ContextFor(s, path, r.callee, Len(s), r.arguments, PendingIn(s)))
    BY <2>3, <2>4, ContextsCode
  <2>6. Contexts' = Append(Contexts, context)
    <3>1. ContextFor(s, path, r.callee, Len(s), r.arguments, PendingIn(s)) = context
      BY <1>4, <1>5, <2>3
    <3>2. Contexts = ContextsIn(s, path)
      BY <1>4, ContextsNow
    <3>3. program'.path = path
      BY <1>2, <1>4
    <3>4. Contexts' = ContextsIn(Append(s, r), path)
      BY <2>2, <3>3, Later
    <3>5. QED BY <2>5, <3>1, <3>2, <3>4
  <2>7. Built(stack', program'.path)
    <3>1. Built(Append(s, r), path)
      BY <2>3, <2>4, BuiltPushed
    <3>2. QED BY <1>2, <1>4, <2>2, <3>1
  <2>8. ControlOf' = Calls!Run /\ Aimed(control', program'.path)
    BY <2>2, NextRun
  <2>9. Len(Contexts) - 1 < program.limit
    BY <1>8, <1>10
  <2>10. Calls!Enter
    BY <1>2, <1>7, <2>6, <2>8, <2>9 DEF Calls!Enter
  <2>11. QED BY <2>7, <2>8, <2>10 DEF Matched, Kept, Calls!Next
<1>11. QED BY <1>9, <1>10

(* A callee's completion, as the contract sees it.                         *)
LEMMA BackFacts ==
    ASSUME RInv, control.k = "returned"
    PROVE  /\ IInv /\ StackOK(stack) /\ control.status \in {0, 1}
           /\ ControlOf = CompletionIn(PendingIn(stack), control)
           /\ PendingIn(stack) = Undefined => ControlOf = Complete(control.status, control.value)
           /\ control.status = 1 => ControlOf = Complete(1, control.value)
<1>1. IInv /\ StackOK(stack) /\ control.status \in {0, 1}
  BY DEF RInv, IInv, TypeOK, ControlType, Run
<1>2. ControlOf = CompletionIn(PendingIn(stack), control)
  BY ControlNow, SeenReturned DEF Seen
<1>3. QED BY <1>1, <1>2, Completions

(* Popping a record of the runtime.                                        *)
LEMMA RuntimePops ==
    ASSUME RInv, Top.kind \notin {"entry", "code"}, stack' = Pop, program' = program
    PROVE  /\ Contexts' = Contexts /\ Built(stack', program'.path)
           /\ Top.kind \in {"frame", "bound"} => PendingIn(stack') = PendingIn(stack)
           /\ Top.kind = "construct" =>
                 PendingIn(stack) = Top.this /\ PendingIn(stack') = Undefined /\ Top.this # Undefined
<1>1. PICK s, t, path : s = stack /\ t = SubSeq(s, 1, Len(s) - 1) /\ path = program.path
  OBVIOUS
<1>2. /\ StackOK(s) /\ Built(s, path) /\ s[Len(s)].kind \notin {"entry", "code"} /\ stack' = t
      /\ s[Len(s)] = Top /\ s[Len(s)].kind # "entry"
  BY <1>1, StackFacts DEF RInv, Top, Pop
<1>3. ContextsIn(t, path) = ContextsIn(s, path)
  BY <1>1, <1>2, ContextsPopped
<1>4. Contexts' = Contexts
  <2>1. program'.path = path
    BY <1>1
  <2>2. Contexts' = ContextsIn(t, path)
    BY <1>2, <2>1, Later
  <2>3. QED BY <1>1, <1>3, <2>2, ContextsNow
<1>5. Built(t, path)
  BY <1>1, <1>2, BuiltPopped
<1>6. s[Len(s)].kind \in {"frame", "bound"} => PendingIn(t) = PendingIn(s)
  BY <1>1, <1>2, PendingPopped
<1>7. ASSUME s[Len(s)].kind = "construct"
      PROVE  PendingIn(s) = s[Len(s)].this /\ PendingIn(t) = Undefined /\ s[Len(s)].this # Undefined
  <2>1. Len(s) \in 1 .. Len(s)
    BY <1>2 DEF StackOK
  <2>2. s[Len(s) - 1].kind \in {"entry", "code"} /\ s[Len(s)].this # Undefined
    BY <1>2, <1>7, <2>1 DEF Built
  <2>3. QED BY <1>1, <1>2, <1>7, <2>2, PendingPopped
<1>8. QED BY <1>1, <1>2, <1>4, <1>5, <1>6, <1>7

LEMMA FrameMatched ==
    ASSUME RInv, ReturnToFrame \/ ReturnToBound
    PROVE  Matched
<1>1. /\ control.k = "returned" /\ Top.kind \in {"frame", "bound"} /\ stack' = Pop /\ control' = control
      /\ UNCHANGED <<program, callables, objects>>
  BY DEF ReturnToFrame, ReturnToBound, Back, heap
<1>2. ControlOf = CompletionIn(PendingIn(stack), control)
  BY <1>1, BackFacts
<1>3. Contexts' = Contexts /\ Built(stack', program'.path) /\ PendingIn(stack') = PendingIn(stack)
  BY <1>1, RuntimePops
<1>4. PICK k : k = control
  OBVIOUS
<1>5. ControlOf' = CompletionIn(PendingIn(stack'), k) /\ Aimed(control', program'.path)
  BY <1>1, <1>4, NextReturned
<1>6. ControlOf' = ControlOf
  BY <1>2, <1>3, <1>4, <1>5
<1>7. QED BY <1>1, <1>3, <1>5, <1>6, StutterMatched DEF Kept, Stutters

LEMMA ConstructorMatched ==
    ASSUME RInv, ReturnToConstruct
    PROVE  Matched
<1>1. /\ control.k = "returned" /\ Top.kind = "construct" /\ stack' = Pop
      /\ UNCHANGED <<program, callables, objects>>
  BY DEF ReturnToConstruct, Back, heap
<1>2. PICK k, receiver : k = ConstructResult(Top.this, control) /\ receiver = Top.this
  OBVIOUS
<1>3. control' = k
  BY <1>2 DEF ReturnToConstruct
<1>4. Contexts' = Contexts /\ Built(stack', program'.path) /\ PendingIn(stack') = Undefined
      /\ PendingIn(stack) = receiver /\ receiver # Undefined
  BY <1>1, <1>2, RuntimePops
<1>5. ControlOf = CompletionIn(receiver, control)
  BY <1>1, <1>4, BackFacts
<1>6. k.k = "returned"
  BY <1>1, <1>2 DEF ConstructResult, Returned
<1>7. ControlOf' = CompletionIn(Undefined, k) /\ Aimed(control', program'.path)
  BY <1>3, <1>4, <1>6, NextReturned
<1>8. CompletionIn(receiver, control) = CompletionIn(Undefined, k)
  BY <1>2, <1>4 DEF CompletionIn
<1>9. ControlOf' = ControlOf
  BY <1>5, <1>7, <1>8
<1>10. QED BY <1>1, <1>4, <1>7, <1>9, StutterMatched DEF Kept, Stutters

LEMMA PropagateMatched ==
    ASSUME RInv, PropagateCompletion
    PROVE  Matched
<1>1. control.k = "returned" /\ Top.kind = "code" /\ UNCHANGED <<program, callables, objects>>
  BY DEF PropagateCompletion, Back, heap
<1>2. /\ control.status \in {0, 1} /\ ControlOf = Complete(control.status, control.value) /\ Calls!Inside
  <2>1. control.status \in {0, 1} /\ IInv
    BY <1>1, BackFacts
  <2>2. PendingIn(stack) = Undefined /\ Calls!Inside
    BY <1>1, <2>1, StackFacts
  <2>3. QED BY <1>1, <2>1, <2>2, BackFacts
<1>3. ControlOf.k = "complete" /\ ControlOf.status = control.status
  BY <1>2 DEF Complete
<1>4. CASE control.status = 0
  <2>1. control' = Run /\ stack' = stack
    BY <1>4 DEF PropagateCompletion, LeaveWith
  <2>2. Contexts' = Contexts /\ Built(stack', program'.path)
    BY <1>1, <2>1, StackStays
  <2>3. ControlOf' = Calls!Run /\ Aimed(control', program'.path)
    BY <2>1, NextRun
  <2>4. Calls!Resume
    BY <1>1, <1>3, <1>4, <2>2, <2>3 DEF Calls!Resume
  <2>5. QED BY <2>2, <2>3, <2>4 DEF Matched, Kept, Calls!Next
<1>5. CASE control.status = 1
  <2>1. InFunction /\ stack' = Pop /\ control' = Returned(1, control.value)
    BY <1>5 DEF PropagateCompletion, LeaveWith
  <2>2. Contexts' = Calls!Pop /\ Built(stack', program'.path)
    BY <1>1, <2>1, PopFacts
  <2>3. PICK k, receiver : k = Returned(1, control.value) /\ receiver = PendingIn(stack')
    OBVIOUS
  <2>4. k.k = "returned" /\ k.status = 1 /\ k.value = control.value
    BY <2>3 DEF Returned
  <2>5. ControlOf' = CompletionIn(receiver, k) /\ Aimed(control', program'.path)
    BY <2>1, <2>3, <2>4, NextReturned
  <2>6. CompletionIn(receiver, k) = Complete(1, control.value)
    BY <2>4, Completions
  <2>7. ControlOf' = ControlOf
    BY <1>2, <1>5, <2>5, <2>6
  <2>8. Calls!Unwind
    BY <1>1, <1>2, <1>3, <1>5, <2>2, <2>7 DEF Calls!Unwind
  <2>9. QED BY <2>2, <2>5, <2>8 DEF Matched, Kept, Calls!Next
<1>6. QED BY <1>2, <1>4, <1>5

LEMMA EntryMatched ==
    ASSUME RInv, ReturnToEntry
    PROVE  Matched
<1>1. /\ control.k = "returned" /\ Top.kind = "entry" /\ UNCHANGED <<program, callables, objects, stack>>
      /\ control' = IF control.status = 0 THEN Run ELSE Ended("uncaught")
  BY DEF ReturnToEntry, Back, heap
<1>2. /\ control.status \in {0, 1} /\ ControlOf = Complete(control.status, control.value) /\ ~Calls!Inside
  <2>1. control.status \in {0, 1} /\ IInv
    BY <1>1, BackFacts
  <2>2. PendingIn(stack) = Undefined /\ Len(Contexts) = 1 /\ (Calls!Inside <=> Len(Contexts) > 1)
    BY <1>1, <2>1, StackFacts
  <2>3. QED BY <1>1, <2>1, <2>2, BackFacts
<1>3. ControlOf.k = "complete" /\ ControlOf.status = control.status
  BY <1>2 DEF Complete
<1>4. Contexts' = Contexts /\ Built(stack', program'.path)
  BY <1>1, StackStays
<1>5. CASE control.status = 0
  <2>1. ControlOf' = Calls!Run /\ Aimed(control', program'.path)
    BY <1>1, <1>5, NextRun
  <2>2. Calls!Resume
    BY <1>1, <1>3, <1>4, <1>5, <2>1 DEF Calls!Resume
  <2>3. QED BY <1>4, <2>1, <2>2 DEF Matched, Kept, Calls!Next
<1>6. CASE control.status = 1
  <2>1. control' = Ended("uncaught")
    BY <1>1, <1>6
  <2>2. ControlOf' = Calls!Ended("uncaught") /\ Aimed(control', program'.path)
    BY <2>1, NextEnded
  <2>3. Calls!Unwind
    BY <1>1, <1>2, <1>3, <1>4, <1>6, <2>2 DEF Calls!Unwind
  <2>4. QED BY <1>4, <2>2, <2>3 DEF Matched, Kept, Calls!Next
<1>7. QED BY <1>2, <1>5, <1>6

-----------------------------------------------------------------------------
(* Every initial state is one of the contract's, and every step a step of  *)
(* the contract or a stutter.                                              *)
LEMMA RefinesInit == Init => RInv /\ Calls!Init
<1> SUFFICES ASSUME Init
             PROVE  RInv /\ Calls!Init
  OBVIOUS
<1>1. IInv /\ control = Run /\ stack = <<Entry>> /\ program \in Programs /\ callables = <<>> /\ objects = <<>>
  BY Initially DEF Init
<1>2. Len(stack) = 1 /\ stack[1].kind = "entry" /\ StackOK(stack)
  BY <1>1 DEF IInv, TypeOK, Entry, Record
<1>3. Built(stack, program.path)
  BY <1>2 DEF Built
<1>4. control.k # "dispatch"
  BY <1>1 DEF Run
<1>5. RInv
  BY <1>1, <1>3, <1>4, AimedElsewhere DEF RInv
<1>6. Running
  BY <1>1 DEF Running
<1>7. ControlOf = Calls!Run
  BY <1>1, <1>6, RunningFacts
<1>8. Contexts = <<Calls!Process>>
  <2>1. Contexts = <<[callee |-> 0, this |-> Undefined, newTarget |-> Undefined, arguments |-> <<>>,
                      receiver |-> Undefined]>>
    BY <1>2, ContextsNow, EntryContexts
  <2>2. QED BY <2>1, NamesSeen DEF Calls!Process, Calls!Context
<1>9. Calls!Init
  BY <1>1, <1>7, <1>8 DEF Calls!Init
<1>10. QED BY <1>5, <1>9

LEMMA RefinesNext == RInv /\ [Next]_vars => RInv' /\ [Calls!Next]_(Calls!vars)
<1> SUFFICES ASSUME RInv, [Next]_vars
             PROVE  RInv' /\ [Calls!Next]_(Calls!vars)
  OBVIOUS
<1>1. IInv'
  BY Inductive DEF RInv
<1>2. SUFFICES Matched
  BY <1>1 DEF Matched, Kept, RInv
<1>3. CASE ProgramStep
  <2>1. CASE NewClosure \/ NewFunction \/ NewArrow
    BY <2>1, CreateMatched
  <2>2. CASE ReturnI32
    BY <2>2, ExitMatched
  <2>3. CASE \E v \in Values : ReturnValue(v) \/ ThrowValue(v)
    BY <2>3, ReturnMatched, ThrowMatched
  <2>4. CASE \E a \in program.lists : CallDirect(a) \/ TailCallDirect(a)
    BY <2>4, DirectMatched, TailCallMatched
  <2>5. CASE \E c \in Callables, a \in program.lists : CallIndirect(c, a)
    BY <2>5, IndirectMatched
  <2>6. CASE \E v \in Values, r \in Receivers, a \in program.lists : CallValue(v, r, a) \/ BindValue(v, r, a)
    BY <2>6, ValueCallMatched, BindMatched
  <2>7. CASE \E v \in Values, a \in program.lists : ConstructValue(v, a)
    BY <2>7, ConstructMatched
  <2>8. QED BY <1>3, <2>1, <2>2, <2>3, <2>4, <2>5, <2>6, <2>7 DEF ProgramStep
<1>4. CASE RuntimeStep
  BY <1>4, UncallableMatched, BoundMatched, NativeMatched, EnterMatched, FrameMatched,
     ConstructorMatched, PropagateMatched, EntryMatched DEF RuntimeStep
<1>5. CASE UNCHANGED vars
  <2>1. UNCHANGED <<program, callables, objects, stack, tailArgv, control>>
    BY <1>5 DEF vars
  <2>2. Contexts' = Contexts /\ ControlOf' = ControlOf
    BY <2>1, Later, ContextsNow, ControlNow DEF Seen
  <2>3. Built(stack', program'.path) /\ Aimed(control', program'.path)
    BY <2>1 DEF RInv
  <2>4. QED BY <2>1, <2>2, <2>3, StutterMatched DEF Kept, Stutters
<1>6. QED BY <1>3, <1>4, <1>5 DEF Next

(* Calls mean to a program what the language says, for every program,      *)
(* limit, nesting of bound functions and argument list: receivers,         *)
(* arguments and results pass unchanged through ecmora_callable_dispatch,  *)
(* ecmora_callable_construct, the frames and the tail-call buffer; an      *)
(* exception ends every function up to the process; and the recursion      *)
(* guard stops a program at the limit only.                                *)
THEOREM CallsImplemented == Spec => ImplementsCalls
BY RefinesInit, RefinesNext, PTL DEF Spec, ImplementsCalls, Calls!Spec

=============================================================================
