------------------------------ MODULE CallableCfg ------------------------------
(***************************************************************************)
(* GenericLowerer of callable_native.rs: from a tree without try to blocks *)
(* of instructions over cells.  A variable is a cell; with each the        *)
(* compiler keeps the type it believes the cell to hold at the current     *)
(* point, and a read is emitted for that type: the code generator unpacks  *)
(* the cell without looking at its tag.                                    *)
(*                                                                         *)
(* g is a lowerer in the course of its work: the blocks so far, the one    *)
(* being filled, the believed types (of the innermost binding of a name),  *)
(* the stack of jump targets, the next value number, and whether it gave   *)
(* up, in which case no code is generated.  A cell is named by its         *)
(* variable.  Function values, objects, arrays and operators other than    *)
(* strict equality are left out.                                           *)
(***************************************************************************)
EXTENDS BasicBlocks

Uninitialized == "uninitialized"   \* declared, not yet initialized

NewLowerer == [blocks |-> <<PendingBlock>>, current |-> 1, types |-> [x \in {} |-> Dynamic],
               controls |-> <<>>, next |-> 1, bailed |-> FALSE]

ControlTarget(l, break, continue) == [label |-> l, break |-> break, continue |-> continue]
NoTarget == 0

In(g, b, types) == [g EXCEPT !.current = b, !.types = types]
Believes(g, x, type) == [g EXCEPT !.types = (x :> type) @@ @]

Lowered(g, r, type) == [g |-> g, r |-> r, type |-> type]
Constant(g, v) == Lowered(Emits(g, Const(g.next, v)), g.next, v.type)
CreateCell(g, x, v) == Emits(g, CellNew(x, v))
ReadCell(g, x, type) == Lowered(Emits(g, CellGet(g.next, x, type)),
                                g.next, type)
WriteCell(g, x, r) == Emit(g, CellSet(x, r))

(* Defect: the first path wins where two meet.                             *)
MergeScopeStatesFirst(base, left, right, leftReaches, rightReaches) ==
    IF leftReaches THEN left ELSE IF rightReaches THEN right ELSE base

(* Where control flow meets: a type both paths agree on.                   *)
MergeScopeStates(base, left, right, leftReaches, rightReaches) ==
    IF leftReaches /\ ~rightReaches THEN left
    ELSE IF rightReaches /\ ~leftReaches THEN right
    ELSE IF ~leftReaches THEN base
    ELSE [x \in DOMAIN base |-> IF Uninitialized \in {left[x], right[x]} THEN Uninitialized
                                ELSE JoinType(left[x], right[x])]

-----------------------------------------------------------------------------
(* What a loop or switch may write, with the types its values seem to have *)
(* at its entry.                                                           *)
RECURSIVE InferType(_, _)
InferType(e, types) ==
    CASE e.k = "literal" -> e.v.type
      [] e.k = "variable" -> IF e.x \in DOMAIN types /\ types[e.x] # Uninitialized
                             THEN types[e.x] ELSE Dynamic
      [] e.k = "assign" -> InferType(e.e, types)
      [] e.k = "conditional" -> JoinType(InferType(e.yes, types), InferType(e.no, types))
      [] e.k \in {"and", "or"} -> JoinType(InferType(e.left, types), InferType(e.right, types))
      [] e.k = "equal" -> "Bool"
      [] OTHER -> Dynamic

RECURSIVE ExpressionWrites(_, _)
ExpressionWrites(e, types) ==
    CASE e.k = "assign" -> ExpressionWrites(e.e, types) \union {<<e.x, InferType(e.e, types)>>}
      [] e.k = "conditional" ->
           UNION {ExpressionWrites(d, types) : d \in {e.test, e.yes, e.no}}
      [] e.k \in {"and", "or", "equal"} ->
           ExpressionWrites(e.left, types) \union ExpressionWrites(e.right, types)
      [] OTHER -> {}

RECURSIVE StatementWrites(_, _)
StatementWrites(s, types) ==
    LET Of(e) == ExpressionWrites(e, types)
        All(ss) == UNION {StatementWrites(ss[i], types) : i \in DOMAIN ss}
    IN CASE s.k \in {"expr", "throw", "let", "return"} -> Of(s.e)
         [] s.k = "block" -> All(s.ss)
         [] s.k = "if" -> Of(s.e) \union All(<<s.yes, s.no>>)
         [] s.k \in {"while", "dowhile"} -> Of(s.e) \union All(<<s.body>>)
         [] s.k = "for" -> Of(s.e) \union Of(s.update) \union All(<<s.init, s.body>>)
         [] s.k = "labeled" -> All(<<s.body>>)
         [] s.k = "switch" ->
              Of(s.e) \union UNION {Of(s.cases[i].e) \union All(s.cases[i].ss) : i \in DOMAIN s.cases}
         [] OTHER -> {}

Widen(types, writes) ==
    [x \in DOMAIN types |->
       LET written == {w[2] : w \in {u \in writes : u[1] = x}}
       IN IF types[x] = Uninitialized \/ written \subseteq {types[x]} THEN types[x] ELSE Dynamic]

WidenLoopTypes(g, body, test, update) ==
    [g EXCEPT !.types = Widen(@, StatementWrites(body, @) \union ExpressionWrites(test, @)
                                 \union ExpressionWrites(update, @))]

-----------------------------------------------------------------------------
ToBoolean(l) ==
    IF l.type = "Bool" THEN l
    ELSE Lowered(Emits(l.g, ConvertToBoolean(l.g.next, l.r)), l.g.next, "Bool")

(* Ends the block with a branch on the condition.                          *)
BranchOn(l, yes, no) ==
    LET c == ToBoolean(l) IN SetTerminator(c.g, Branch(c.r, yes, no))

Lookup(g, x) ==
    IF x \in DOMAIN g.types /\ g.types[x] # Uninitialized THEN ReadCell(g, x, g.types[x])
    ELSE Lowered(Bails(g), 0, Dynamic)

RECURSIVE LowerExpression(_, _)

EmitCall(n, args) ==
    Lowered(Emits(args.g, Call(args.g.next, n, args.rs)),
            args.g.next, Dynamic)
LowerCall(e, g) ==
    EmitCall(e.n, FoldLeft(LAMBDA a, x : LET l == Lookup(a.g, x) IN [g |-> l.g, rs |-> Append(a.rs, l.r)],
                           [g |-> g, rs |-> <<>>], e.args))

Stores(x, l) == Lowered(Believes(WriteCell(l.g, x, l.r), x, l.type), l.r, l.type)
LowerAssignment(e, g) == Stores(e.x, LowerExpression(e.e, g))

(* Two arms that begin with the types of base, in the blocks behind first, *)
(* and meet in the third.                                                  *)
MeetArms(base, first, yes, no) ==
    LET met == In(FallInto(no, first + 3), first + 3,
                  MergeScopeStates(base.types, yes.types, no.types, ~Terminated(yes), ~Terminated(no)))
    IN IF Terminated(yes) /\ Terminated(no) THEN SetTerminator(met, Unreachable) ELSE met
SecondArm(base, first, yes, No(_)) ==
    MeetArms(base, first, yes, No(In(FallInto(yes, first + 3), first + 2, base.types)))
LowerArms(base, first, Yes(_), No(_)) ==
    SecondArm(base, first, Yes(In(base, first + 1, base.types)), No)

(* The value of a conditional or logical expression is in a cell of its    *)
(* own, which each arm assigns.                                            *)
ResultCell(g) == "@cell" \o ToString(g.next)
Leaves(e, cell, g) == LowerAssignment(Assign(cell, e), g).g

ChooseArm(e, cell, test) ==
    LET first == Len(test.g.blocks)     \* then, else, merge follow
    IN Lookup(LowerArms(BranchOn([test EXCEPT !.g = NewBlocks(@, 3)], first + 1, first + 2), first,
                        LAMBDA g : Leaves(e.yes, cell, g), LAMBDA g : Leaves(e.no, cell, g)),
              cell)
LowerConditional(e, g) ==
    LET cell == ResultCell(g)
    IN ChooseArm(e, cell, LowerExpression(e.test, Believes(CreateCell(g, cell, Undefined), cell, "Undefined")))

GoRight(e, left) ==
    LET cell == ResultCell(left.g)
        made == WriteCell(CreateCell(left.g, cell, Undefined), cell, left.r)
        first == Len(made.blocks)       \* rhs, short, merge follow
        l == [left EXCEPT !.g = NewBlocks(Believes(made, cell, left.type), 3)]
    IN Lookup(LowerArms(IF e.k = "or" THEN BranchOn(l, first + 2, first + 1)
                        ELSE BranchOn(l, first + 1, first + 2), first,
                        LAMBDA g : Leaves(e.right, cell, g), LAMBDA g : g),
              cell)
LowerLogical(e, g) == GoRight(e, LowerExpression(e.left, g))

EmitRawDynamicBinary(left, right) ==
    Lowered(Emits(right.g, CompareValues(right.g.next, Dynamic, left.r, right.r)), right.g.next, Dynamic)

(* Strict equality of two values, left being lowered first: decided here   *)
(* where the believed types decide it.                                     *)
EmitKnownEquality(left, right) ==
    CASE left.type = right.type /\ right.type \in {"Undefined", "Null"} -> Constant(right.g, True)
      [] left.type = right.type /\ right.type \in {"Number", "String"} ->
           Lowered(Emits(right.g, CompareValues(right.g.next, "Bool", left.r, right.r)), right.g.next, "Bool")
      [] left.type # right.type /\ Dynamic \notin {left.type, right.type} -> Constant(right.g, False)
      [] OTHER -> EmitRawDynamicBinary(left, right)

LowerExpression(e, g) ==
    CASE e.k = "none" -> Constant(g, Undefined)
      [] e.k = "literal" -> Constant(g, e.v)
      [] e.k = "variable" -> Lookup(g, e.x)
      [] e.k = "site" -> LowerCall(e, g)
      [] e.k = "assign" -> LowerAssignment(e, g)
      [] e.k = "conditional" -> LowerConditional(e, g)
      [] e.k \in {"and", "or"} -> LowerLogical(e, g)
      [] e.k = "equal" ->
           LET l == LowerExpression(e.left, g) IN EmitKnownEquality(l, LowerExpression(e.right, l.g))

-----------------------------------------------------------------------------
RECURSIVE LowerStatement(_, _)

Predeclare(ss, g) ==
    FoldLeft(LAMBDA h, s : IF s.k = "let"
                           THEN Believes(CreateCell(h, s.x, Undefined), s.x, Uninitialized) ELSE h,
             g, ss)

(* Statements behind a terminator are dropped.                             *)
LowerList(ss, g) ==
    FoldLeft(LAMBDA h, s : IF Terminated(h) THEN h ELSE LowerStatement(s, h), g, ss)
LowerScope(ss, g) == LowerList(ss, Predeclare(ss, g))

LowerDeclaration(s, g) == Stores(s.x, LowerExpression(s.e, g)).g

(* Defect: the innermost target, whatever its label.                       *)
ResolveControlUnlabeled(g, label, wantContinue) ==
    LET fitting == {i \in DOMAIN g.controls : wantContinue => g.controls[i].continue # NoTarget}
    IN IF fitting = {} THEN NoTarget
       ELSE IF wantContinue THEN g.controls[Max(fitting)].continue
       ELSE g.controls[Max(fitting)].break

(* resolve_control: the innermost target that fits, or none.               *)
ResolveControl(g, label, wantContinue) ==
    LET Fits(i) == /\ label = NoName \/ g.controls[i].label = label
                   /\ wantContinue => g.controls[i].continue # NoTarget
        fitting == {i \in DOMAIN g.controls : Fits(i)}
    IN IF fitting = {} THEN NoTarget
       ELSE IF wantContinue THEN g.controls[Max(fitting)].continue
       ELSE g.controls[Max(fitting)].break

LowerJump(s, g) ==
    LET to == ResolveControl(g, s.l, s.k = "continue")
    IN IF to = NoTarget THEN Bails(g) ELSE SetTerminator(g, Jump(to))

LowerBranches(s, test) ==
    LET first == Len(test.g.blocks)     \* then, else, merge follow
    IN LowerArms(BranchOn([test EXCEPT !.g = NewBlocks(@, 3)], first + 1, first + 2), first,
                 LAMBDA g : LowerStatement(s.yes, g), LAMBDA g : LowerStatement(s.no, g))
LowerIf(s, g) == LowerBranches(s, LowerExpression(s.e, g))

(* A loop or region around body: its targets are on the stack meanwhile.   *)
LowerUnder(g, target, body) ==
    [LowerStatement(body, [g EXCEPT !.controls = Append(@, target)]) EXCEPT !.controls = g.controls]

(* Jumps to the first of n new blocks.                                     *)
EnterBlocks(g, n) ==
    LET first == Len(g.blocks) + 1 IN In(SetTerminator(NewBlocks(g, n), Jump(first)), first, g.types)

WhileFrom(s, wide, label) ==
    LET header == Len(wide.blocks) + 1     \* header, body, exit
        tested == BranchOn(LowerExpression(s.e, EnterBlocks(wide, 3)), header + 1, header + 2)
        body == LowerUnder(In(tested, header + 1, wide.types),
                           ControlTarget(label, header + 2, header), s.body)
    IN In(FallInto(body, header), header + 2, wide.types)
LowerWhile(s, g, label) == WhileFrom(s, WidenLoopTypes(g, s.body, s.e, NoExpression), label)

(* The test sees the types at the end of the body.                         *)
RepeatOn(s, start, body) ==
    BranchOn(LowerExpression(s.e, In(FallInto(body, start + 1), start + 1, body.types)), start, start + 2)
DoWhileFrom(s, wide, label) ==
    LET start == Len(wide.blocks) + 1      \* body, test, exit
        body == LowerUnder(EnterBlocks(wide, 3), ControlTarget(label, start + 2, start + 1), s.body)
    IN In(RepeatOn(s, start, body), start + 2, wide.types)
LowerDoWhile(s, g, label) == DoWhileFrom(s, WidenLoopTypes(g, s.body, s.e, NoExpression), label)

LowerForInit(init, g) ==
    IF init.k = "let" THEN LowerDeclaration(init, Predeclare(<<init>>, g)) ELSE LowerStatement(init, g)

UpdateAfter(s, header, body) ==
    FallInto(LowerExpression(s.update, In(FallInto(body, header + 2), header + 2, body.types)).g, header)
ForFrom(s, wide, label) ==
    LET header == Len(wide.blocks) + 1     \* header, body, update, exit
        test == IF s.e = NoExpression THEN Constant(EnterBlocks(wide, 4), True)
                ELSE LowerExpression(s.e, EnterBlocks(wide, 4))
        body == LowerUnder(In(BranchOn(test, header + 1, header + 3), header + 1, wide.types),
                           ControlTarget(label, header + 3, header + 2), s.body)
    IN In(UpdateAfter(s, header, body), header + 3, wide.types)
LowerFor(s, g, label) ==
    ForFrom(s, WidenLoopTypes(LowerForInit(s.init, g), s.body, s.e, s.update), label)

(* The cases are compared in source order, the default comes last; then    *)
(* their bodies, each falling into the next.                               *)
CompareCase(s, value, h, at, i, body, otherwise) ==
    BranchOn(EmitKnownEquality(value, LowerExpression(s.cases[i].e, In(h, at, h.types))), body, otherwise)
FillCases(s, exit, compared, controls) ==
    LET Fill(h, i) == FallInto(LowerList(s.cases[i].ss, In(h, exit + i, compared.types)),
                               IF i = Len(s.cases) THEN exit ELSE exit + i + 1)
        filled == FoldLeft(Fill, [compared EXCEPT !.controls = Append(@, ControlTarget(NoName, exit, NoTarget))],
                           [i \in DOMAIN s.cases |-> i])
    IN [In(filled, exit, compared.types) EXCEPT !.controls = controls]
SwitchOn(s, value) ==
    LET exit == Len(value.g.blocks) + 1
        tested == SelectSeq([i \in DOMAIN s.cases |-> i], LAMBDA i : s.cases[i].e # NoExpression)
        defaults == {i \in DOMAIN s.cases : s.cases[i].e = NoExpression}
        Select(j) == IF j <= Len(tested) THEN exit + Len(s.cases) + j
                     ELSE IF defaults = {} THEN exit ELSE exit + Min(defaults)
        Compare(h, j) == CompareCase(s, value, h, Select(j), tested[j], exit + tested[j], Select(j + 1))
    IN FillCases(s, exit,
                 FoldLeft(Compare,
                          SetTerminator(NewBlocks(value.g, 1 + Len(s.cases) + Len(tested)), Jump(Select(1))),
                          [j \in DOMAIN tested |-> j]),
                 value.g.controls)
DeclaresDirectly(s) == \E i \in DOMAIN s.cases : \E t \in ToSet(s.cases[i].ss) : t.k = "let"
LowerSwitch(s, g) ==
    IF DeclaresDirectly(s) THEN Bails(g)
    ELSE SwitchOn(s, LowerExpression(s.e, [g EXCEPT !.types =
                       Widen(@, StatementWrites([s EXCEPT !.e = NoExpression], @))]))

(* A label on anything but a loop: a region that break leaves.             *)
LowerLabeledBlock(s, g) ==
    LET exit == Len(g.blocks) + 1
        body == LowerUnder(NewBlocks(g, 1), ControlTarget(s.l, exit, NoTarget), s.body)
    IN In(FallInto(body, exit), exit, body.types)

LowerLoop(s, g, label) ==
    CASE s.k = "while" -> LowerWhile(s, g, label)
      [] s.k = "dowhile" -> LowerDoWhile(s, g, label)
      [] s.k = "for" -> LowerFor(s, g, label)
Loops == {"while", "dowhile", "for"}

ExitWith(k, l) == SetTerminator(l.g, IF k = "return" THEN ReturnValue(l.r) ELSE ThrowValue(l.r))
LowerExit(s, g) == ExitWith(s.k, LowerExpression(s.e, g))

LowerStatement(s, g) ==
    CASE s.k = "expr" -> LowerExpression(s.e, g).g
      [] s.k = "let" -> LowerDeclaration(s, g)
      [] s.k = "block" -> LowerScope(s.ss, g)
      [] s.k = "if" -> LowerIf(s, g)
      [] s.k \in Loops -> LowerLoop(s, g, NoName)
      [] s.k = "switch" -> LowerSwitch(s, g)
      [] s.k = "labeled" /\ s.body.k \in Loops -> LowerLoop(s.body, g, s.l)
      [] s.k = "labeled" /\ s.body.k \notin Loops -> LowerLabeledBlock(s, g)
      [] s.k \in {"break", "continue"} -> LowerJump(s, g)
      [] s.k \in {"return", "throw"} -> LowerExit(s, g)
      [] s.k = "try" -> Bails(g)

(* A function body; it returns undefined at its end.                       *)
FinishFunction(g) == IF Terminated(g) THEN g ELSE ExitWith("return", Constant(g, Undefined))
LowerFunction(ss) == FinishFunction(LowerScope(ss, NewLowerer))
=============================================================================
