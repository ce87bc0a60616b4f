------------------------------- MODULE TypedCfg -------------------------------
(***************************************************************************)
(* Lowerer of analysis/src/lib.rs: from a tree without try to blocks in    *)
(* static single assignment form.  A binding names the value its variable  *)
(* holds at the current point, the type of that value and, where it is     *)
(* known while compiling, the value itself; control flow that meets joins  *)
(* the bindings of its edges with phis.  A test whose value is known is    *)
(* decided by the compiler.                                                *)
(*                                                                         *)
(* t is the lowerer: the blocks, the stack of scopes, for each scope the   *)
(* names its statements use, the jump targets with the edges that reach    *)
(* them so far, the next value number, and whether it gave up.  It also    *)
(* gives up where the code indexes out of range, which stops the compiler. *)
(* The body is that of a function; a site is a direct call whose result is *)
(* not known.  Captured variables, objects, functions, for-in and for-of,  *)
(* const, and operators other than strict equality are left out.           *)
(***************************************************************************)
EXTENDS BasicBlocks

NoValue == Value("unknown", "")   \* the value is not known while compiling

Binding(initialized, id, type, known) ==
    [initialized |-> initialized, id |-> id, type |-> type, known |-> known]
NoBindings == [x \in {} |-> Binding(FALSE, 0, Dynamic, NoValue)]

NewLowerer == [blocks |-> <<PendingBlock>>, current |-> 1, scopes |-> <<NoBindings>>, used |-> <<>>,
               controls |-> <<>>, next |-> 1, bailed |-> FALSE]

Typed(t, r, type, known) == [t |-> t, r |-> r, type |-> type, known |-> known]
EmitValue(t, v) == Typed(Emits(t, Const(t.next, v)), t.next, v.type, v)
IsKnown(l) == l.known # NoValue

At(t, b, scopes) == [t EXCEPT !.current = b, !.scopes = scopes]
EnterScope(t) == [t EXCEPT !.scopes = Append(@, NoBindings)]
LeaveScope(t) == [t EXCEPT !.scopes = Front(@)]

(* The innermost scope that declares a name; 0 if none does.               *)
Declaring(t, x) == Max({0} \union {d \in DOMAIN t.scopes : x \in DOMAIN t.scopes[d]})
Declare(t, x) ==
    [t EXCEPT !.scopes[Len(t.scopes)] = (x :> Binding(FALSE, t.next, "Undefined", NoValue)) @@ @,
              !.next = @ + 1]
Initialize(x, l) ==
    [l.t EXCEPT !.scopes[Declaring(l.t, x)][x] = Binding(TRUE, l.r, l.type, l.known)]

(* Reading a name that is not declared or not yet initialized.             *)
Readable(t, x) == Declaring(t, x) # 0 /\ t.scopes[Declaring(t, x)][x].initialized
GivesUp(t) == Typed(Bails(t), 0, Dynamic, NoValue)
Lookup(t, x) ==
    IF ~Readable(t, x) THEN GivesUp(t)
    ELSE LET b == t.scopes[Declaring(t, x)][x] IN Typed(t, b.id, b.type, b.known)

-----------------------------------------------------------------------------
(* An edge into a block: where it comes from and the scopes it brings.     *)
EdgeHere(t) == [block |-> t.current, scopes |-> t.scopes]
NaturalEdges(t) == IF Terminated(t) THEN <<>> ELSE <<EdgeHere(t)>>

Declares(scopes, d, x) == d \in DOMAIN scopes /\ x \in DOMAIN scopes[d]
AllInitialized(bs) == \A i \in DOMAIN bs : bs[i].initialized
CommonValue(bs) == IF \A i \in DOMAIN bs : bs[i].known = bs[1].known THEN bs[1].known ELSE NoValue
CommonType(bs) == IF \A i \in DOMAIN bs : bs[i].type = bs[1].type THEN bs[1].type ELSE Dynamic

JoinWithPhi(t, edges, d, x, bs, flags) ==
    [Emits(t, Phi(t.next, CommonType(bs), [i \in DOMAIN bs |-> Incoming(edges[i].block, bs[i].id)]))
       EXCEPT !.scopes[d][x] = Binding(flags.initialized, t.next, CommonType(bs), flags.known)]

(* One variable where edges meet: Agree for a value they all bring, Differ *)
(* for the flags of the phi otherwise.                                     *)
JoinBindings(t, edges, d, x, bs, Agree(_), Differ(_)) ==
    IF \A i \in DOMAIN bs : bs[i].id = bs[1].id THEN [t EXCEPT !.scopes[d][x] = Agree(bs)]
    ELSE JoinWithPhi(t, edges, d, x, bs, Differ(bs))

(* Every variable of the scopes t stands in; the code indexes each edge.   *)
MergeEdges(t, edges, Agree(_), Differ(_, _)) ==
    LET Places == {<<d, x>> \in (DOMAIN t.scopes) \X UNION {DOMAIN t.scopes[e] : e \in DOMAIN t.scopes} :
                     x \in DOMAIN t.scopes[d]}
        Join(p, u) ==
          JoinBindings(u, edges, p[1], p[2], [i \in DOMAIN edges |-> edges[i].scopes[p[1]][p[2]]], Agree,
                       LAMBDA bs : Differ(bs, u.scopes[p[1]][p[2]]))
    IN IF \E p \in Places : \E i \in DOMAIN edges : ~Declares(edges[i].scopes, p[1], p[2]) THEN Bails(t)
       ELSE FoldSet(Join, t, Places)

Flags(initialized, known) == [initialized |-> initialized, known |-> known]
WithoutValue(bs, b) == Flags(AllInitialized(bs), NoValue)
WithCommonValue(bs, b) == Flags(AllInitialized(bs), CommonValue(bs))

(* The end of a labeled statement.                                         *)
MergeControlExitScopes(t, outer, edges) ==
    IF edges = <<>> THEN SetTerminator([t EXCEPT !.scopes = outer], Unreachable)
    ELSE MergeEdges([t EXCEPT !.scopes = outer], edges, Head, WithoutValue)

(* The end of a switch; whether a variable is initialized is not joined.   *)
MergeSwitchExit(t, outer, edges) ==
    IF edges = <<>> THEN [t EXCEPT !.scopes = outer]
    ELSE MergeEdges([t EXCEPT !.scopes = outer], edges, Head, LAMBDA bs, b : Flags(b.initialized, NoValue))

(* Defect: the first edge wins.                                            *)
MergePredecessorScopesFirst(t, edges) == [t EXCEPT !.scopes = edges[1].scopes]

(* The parts of a loop.  The scopes are those of the first edge, however   *)
(* deep in the body it starts.                                             *)
MergePredecessorScopes(t, edges) ==
    IF Len(edges) = 1 THEN [t EXCEPT !.scopes = edges[1].scopes]
    ELSE MergeEdges([t EXCEPT !.scopes = edges[1].scopes], edges,
                    LAMBDA bs : [bs[1] EXCEPT !.initialized = AllInitialized(bs), !.known = CommonValue(bs)],
                    WithoutValue)

(* Two arms of an if, and of an expression or two ways into a case.        *)
MergeArms(t, left, right) ==
    MergeEdges(t, <<left, right>>,
               LAMBDA bs : [bs[1] EXCEPT !.initialized = AllInitialized(bs), !.known = CommonValue(bs)],
               WithCommonValue)
MergeScopeValues(t, left, right) ==
    MergeEdges(t, <<left, right>>, LAMBDA bs : [bs[1] EXCEPT !.known = CommonValue(bs)], WithCommonValue)

-----------------------------------------------------------------------------
RECURSIVE UsedIn(_), Used(_), AssignedIn(_), Assigned(_)

(* collect_used_names: read, assigned or passed.                           *)
UsedIn(e) ==
    UNION {UsedIn(d) : d \in Parts(e)}
    \union (IF e.k \in {"variable", "assign"} THEN {e.x} ELSE IF e.k = "site" THEN ToSet(e.args) ELSE {})
Used(s) == UNION {UsedIn(e) : e \in Expressions(s)} \union UNION {Used(u) : u \in Substatements(s)}

(* LoopWriteCollector.                                                     *)
AssignedIn(e) == UNION {AssignedIn(d) : d \in Parts(e)} \union (IF e.k = "assign" THEN {e.x} ELSE {})
Assigned(s) == UNION {AssignedIn(e) : e \in Expressions(s)} \union UNION {Assigned(u) : u \in Substatements(s)}

CollectLoopWrites(test, body, update) == AssignedIn(test) \union Assigned(body) \union AssignedIn(update)

RECURSIVE IsPure(_)
IsPure(e) ==
    e.k \notin {"variable", "assign", "site", "yield"} /\ \A d \in Parts(e) : IsPure(d)

-----------------------------------------------------------------------------
ToBoolean(l) ==
    IF l.type = "Bool" THEN l
    ELSE IF IsKnown(l) THEN EmitValue(l.t, IF Truthy(l.known) THEN True ELSE False)
    ELSE Typed(Emits(l.t, ConvertToBoolean(l.t.next, l.r)), l.t.next, "Bool", NoValue)
BranchOn(l, yes, no) == LET c == ToBoolean(l) IN SetTerminator(c.t, Branch(c.r, yes, no))

RECURSIVE LowerExpression(_, _)

EmitCall(n, args) ==
    Typed(Emits(args.t, Call(args.t.next, n, args.rs)), args.t.next, Dynamic, NoValue)
LowerCall(e, t) ==
    EmitCall(e.n, FoldLeft(LAMBDA a, x : LET l == Lookup(a.t, x) IN [t |-> l.t, rs |-> Append(a.rs, l.r)],
                           [t |-> t, rs |-> <<>>], e.args))

(* store_assignment.                                                       *)
StoreAssignment(x, l) == [l EXCEPT !.t = Initialize(x, l)]
LowerAssignment(e, t) ==
    IF Readable(t, e.x) THEN StoreAssignment(e.x, LowerExpression(e.e, t)) ELSE GivesUp(t)

(* A phi for the value of an expression that has two arms.                 *)
JoinValues(t, from, left, otherwise, right, known) ==
    Typed(Emits(t, Phi(t.next, JoinType(left.type, right.type),
                       <<Incoming(from, left.r), Incoming(otherwise, right.r)>>)),
          t.next, JoinType(left.type, right.type), known)

MeetConditional(test, merge, yes, no) ==
    JoinValues(MergeScopeValues(At(SetTerminator(no.t, Jump(merge)), merge, test.t.scopes),
                                EdgeHere(yes.t), EdgeHere(no.t)),
               yes.t.current, yes, no.t.current, no, CommonValue(<<yes, no>>))
ElseConditional(e, test, merge, yes) ==
    MeetConditional(test, merge, yes,
                    LowerExpression(e.no, At(SetTerminator(yes.t, Jump(merge)), merge - 1, test.t.scopes)))
Choose(e, test, merge) ==
    ElseConditional(e, test, merge,
                    LowerExpression(e.yes, At(BranchOn([test EXCEPT !.t = NewBlocks(@, 3)], merge - 2, merge - 1),
                                              merge - 2, test.t.scopes)))
LowerConditional(e, test) ==
    IF IsKnown(test) THEN LowerExpression(IF Truthy(test.known) THEN e.yes ELSE e.no, test.t)
    ELSE Choose(e, test, Len(test.t.blocks) + 3)

(* lower_logical_cfg: the variables keep the bindings of the right operand *)
(* behind the expression.                                                  *)
MeetLogical(left, merge, right) ==
    JoinValues([SetTerminator(right.t, Jump(merge)) EXCEPT !.current = merge],
               merge - 1, left, right.t.current, right, NoValue)
ShortCircuit(t, merge) == SetTerminator([t EXCEPT !.current = merge - 1], Jump(merge))
LowerLogicalCfg(e, left, merge) ==      \* rhs, short, merge
    MeetLogical(left, merge,
      LowerExpression(e.right,
        [ShortCircuit(IF e.k = "or" THEN BranchOn([left EXCEPT !.t = NewBlocks(@, 3)], merge - 1, merge - 2)
                      ELSE BranchOn([left EXCEPT !.t = NewBlocks(@, 3)], merge - 2, merge - 1), merge)
           EXCEPT !.current = merge - 2]))
LowerLogical(e, left) ==
    IF ~IsKnown(left) THEN LowerLogicalCfg(e, left, Len(left.t.blocks) + 3)
    ELSE IF Truthy(left.known) = (e.k = "and") THEN LowerExpression(e.right, left.t)
    ELSE left

CompareTyped(left, right) ==
    LET known == IF IsKnown(left) /\ IsKnown(right)
                 THEN IF left.known = right.known THEN True ELSE False
                 ELSE NoValue
        Compared(type) ==
          Typed(Emits(right.t, CompareValues(right.t.next, type, left.r, right.r)), right.t.next, type, known)
    IN IF left.type = right.type /\ left.type \in {"Number", "String"} THEN Compared("Bool")
       ELSE IF known # NoValue THEN EmitValue(right.t, known)
       ELSE Compared(Dynamic)

LowerExpression(e, t) ==
    IF t.bailed THEN GivesUp(t)
    ELSE CASE e.k = "none" -> EmitValue(t, Undefined)
           [] e.k = "literal" -> EmitValue(t, e.v)
           [] e.k = "variable" -> Lookup(t, e.x)
           [] e.k = "site" -> LowerCall(e, t)
           [] e.k = "assign" -> LowerAssignment(e, t)
           [] e.k = "conditional" -> LowerConditional(e, LowerExpression(e.test, t))
           [] e.k \in {"and", "or"} -> LowerLogical(e, LowerExpression(e.left, t))
           [] e.k = "equal" ->
                LET left == LowerExpression(e.left, t) IN CompareTyped(left, LowerExpression(e.right, left.t))

-----------------------------------------------------------------------------
(* Jump targets.  Breaks and continues collect the edges that use them.    *)
NoTarget == 0
ControlTarget(labels, plain, break, continue) ==
    [labels |-> labels, plain |-> plain, break |-> break, continue |-> continue,
     breaks |-> <<>>, continues |-> <<>>]
Push(t, target) == [t EXCEPT !.controls = Append(@, target)]
Popped(t) == [t EXCEPT !.controls = Front(@)]
Target(t) == Last(t.controls)

ResolveBreakTarget(t, l) ==
    Max({0} \union {i \in DOMAIN t.controls :
                      IF l = NoName THEN t.controls[i].plain ELSE l \in t.controls[i].labels})

(* The innermost loop, or the statement with the label if it is one.       *)
ResolveContinueTarget(t, l) ==
    LET loops == {i \in DOMAIN t.controls : t.controls[i].continue # NoTarget}
        labeled == Max({0} \union {i \in DOMAIN t.controls : l \in t.controls[i].labels})
    IN IF l = NoName THEN Max({0} \union loops) ELSE IF labeled \in loops THEN labeled ELSE 0

LowerBreak(t, i) ==
    IF i = 0 THEN Bails(t)
    ELSE SetTerminator([t EXCEPT !.controls[i].breaks = Append(@, EdgeHere(t))], Jump(t.controls[i].break))
LowerContinue(t, i) ==
    IF i = 0 THEN Bails(t)
    ELSE SetTerminator([t EXCEPT !.controls[i].continues = Append(@, EdgeHere(t))],
                       Jump(t.controls[i].continue))

-----------------------------------------------------------------------------
RECURSIVE LowerStatement(_, _)

Predeclare(ss, t) == FoldLeft(LAMBDA u, s : IF s.k = "let" THEN Declare(u, s.x) ELSE u, t, ss)
UsesOf(ss) == UNION {Used(ss[i]) : i \in DOMAIN ss}

(* Statements behind a terminator are dropped.                             *)
LowerList(ss, t) == FoldLeft(LAMBDA u, s : IF Terminated(u) THEN u ELSE LowerStatement(s, u), t, ss)
LowerScope(ss, t) ==
    [LowerList(ss, Predeclare(ss, [t EXCEPT !.used = Append(@, UsesOf(ss))])) EXCEPT !.used = t.used]

(* An initializer without effect of a variable nobody uses is dropped.     *)
LowerDeclaration(s, t) ==
    Initialize(s.x, IF s.x \notin Last(t.used) /\ IsPure(s.e) THEN EmitValue(t, Undefined)
                    ELSE LowerExpression(s.e, t))

MeetIf(test, merge, yes, no) ==
    LET met == At(FallInto(no, merge), merge, test.t.scopes)
    IN IF Terminated(yes) /\ Terminated(no) THEN SetTerminator(met, Unreachable)
       ELSE IF Terminated(no) THEN [met EXCEPT !.scopes = yes.scopes]
       ELSE IF Terminated(yes) THEN [met EXCEPT !.scopes = no.scopes]
       ELSE MergeArms(met, EdgeHere(yes), EdgeHere(no))
ElseOf(s, test, merge, yes) ==
    MeetIf(test, merge, yes, LowerStatement(s.no, At(FallInto(yes, merge), merge - 1, test.t.scopes)))
LowerArms(s, test, merge) ==
    ElseOf(s, test, merge,
           LowerStatement(s.yes, At(BranchOn([test EXCEPT !.t = NewBlocks(@, 3)], merge - 2, merge - 1),
                                    merge - 2, test.t.scopes)))
LowerIf(s, test) ==
    IF IsKnown(test) THEN LowerStatement(IF Truthy(test.known) THEN s.yes ELSE s.no, test.t)
    ELSE LowerArms(s, test, Len(test.t.blocks) + 3)

(* Variables a loop writes get a phi where the loop begins, with the type  *)
(* they have there; the edges back are filled in behind the body.          *)
OpenPhi(h, p, from) ==
    LET b == h.t.scopes[p[1]][p[2]]
    IN [t |-> [Emits(h.t, Phi(h.t.next, b.type, <<Incoming(from, b.id)>>)) EXCEPT
                 !.scopes[p[1]][p[2]] = Binding(TRUE, h.t.next, b.type, NoValue)],
        phis |-> Append(h.phis, [scope |-> p[1], x |-> p[2], at |-> Len(h.t.blocks[h.t.current].code) + 1,
                                 type |-> b.type])]
OpenPhis(t, from, writes) ==
    FoldSet(LAMBDA p, h : OpenPhi(h, p, from), [t |-> t, phis |-> <<>>],
            {p \in (DOMAIN t.scopes) \X writes :
               p[2] \in DOMAIN t.scopes[p[1]] /\ t.scopes[p[1]][p[2]].initialized})

ClosePhi(t, header, phi, edge) ==
    IF ~Declares(edge.scopes, phi.scope, phi.x) THEN Bails(t)
    ELSE IF phi.type \notin {Dynamic, edge.scopes[phi.scope][phi.x].type} THEN Bails(t)
    ELSE [t EXCEPT !.blocks[header].code[phi.at].incoming =
            Append(@, Incoming(edge.block, edge.scopes[phi.scope][phi.x].id))]
ClosePhis(t, header, phis, edges) ==
    FoldLeft(LAMBDA u, phi : FoldLeft(LAMBDA v, edge : ClosePhi(v, header, phi, edge), u, edges), t, phis)

EnterBlocks(t, n) ==
    LET first == Len(t.blocks) + 1
    IN [SetTerminator(NewBlocks(t, n), Jump(first)) EXCEPT !.current = first]

(* Behind a loop: by its breaks, and by its test if that may fail.         *)
ExitBy(t, exit, edges) ==
    IF edges = <<>> THEN SetTerminator([t EXCEPT !.current = exit], Unreachable)
    ELSE MergePredecessorScopes([t EXCEPT !.current = exit], edges)

(* while and for: header, body, update if there is one, exit.  The header  *)
(* stands for the block that ends with the test.                           *)
UpdateOf(s) == IF s.k = "for" THEN s.update ELSE NoExpression
LoopFrame(s, t) ==
    LET header == Len(t.blocks) + 1
        updates == IF UpdateOf(s) = NoExpression THEN 0 ELSE 1
    IN [header |-> header, body |-> header + 1, update |-> IF updates = 1 THEN header + 2 ELSE header,
        exit |-> header + 2 + updates]

LowerForInit(init, t) ==
    IF init.k = "let" THEN Initialize(init.x, LowerExpression(init.e, Declare(t, init.x)))
    ELSE LowerExpression(init.e, t).t

LoopExit(f, phis, test, breaks, back) ==
    ExitBy(ClosePhis(back.t, f.header, phis, back.edges), f.exit,
           breaks \o IF IsKnown(test) THEN <<>> ELSE <<[block |-> f.header, scopes |-> test.t.scopes]>>)

Updated(f, u) == [t |-> SetTerminator(u, Jump(f.header)), edges |-> <<EdgeHere(u)>>]
LoopBack(s, f, t, continues, natural) ==
    IF f.update = f.header THEN [t |-> t, edges |-> natural \o continues]
    ELSE IF continues \o natural = <<>>
    THEN [t |-> SetTerminator([t EXCEPT !.current = f.update], Unreachable), edges |-> <<>>]
    ELSE Updated(f, LowerExpression(s.update,
                      MergePredecessorScopes([t EXCEPT !.current = f.update], continues \o natural)).t)

LoopEnd(s, f, phis, test, b) ==
    LoopExit(f, phis, test, Target(b).breaks,
             LoopBack(s, f, Popped(FallInto(b, f.update)), Target(b).continues, NaturalEdges(b)))
LoopBody(s, f, t, labels) ==
    LowerStatement(s.body, [Push(t, ControlTarget(labels, TRUE, f.exit, f.update)) EXCEPT !.current = f.body])
LoopOn(s, f, phis, test, labels) ==
    IF IsKnown(test) /\ ~Truthy(test.known)
    THEN At(SetTerminator(test.t, Jump(f.exit)), f.exit, test.t.scopes)
    ELSE LoopEnd(s, f, phis, test,
                 LoopBody(s, f, IF IsKnown(test) THEN SetTerminator(test.t, Jump(f.body))
                                ELSE BranchOn(test, f.body, f.exit), labels))
LoopTest(s, t) ==
    IF s.e = NoExpression THEN Typed(t, 0, "Bool", True) ELSE LowerExpression(s.e, t)
LoopFrom(s, f, h, labels) == LoopOn(s, f, h.phis, LoopTest(s, h.t), labels)
LoopIn(s, t, labels) ==
    LoopFrom(s, LoopFrame(s, t),
             OpenPhis(EnterBlocks(t, LoopFrame(s, t).exit - Len(t.blocks)), t.current,
                      CollectLoopWrites(s.e, s.body, UpdateOf(s))), labels)
LowerLoop(s, t, labels) ==
    IF s.k = "for" THEN LeaveScope(LoopIn(s, LowerForInit(s.init, EnterScope(t)), labels))
    ELSE LoopIn(s, t, labels)

(* do: body, test, exit.                                                   *)
RepeatOn(first, phis, breaks, test, ended) ==
    ExitBy(IF IsKnown(test) /\ ~Truthy(test.known) THEN ended
           ELSE ClosePhis(ended, first, phis, <<EdgeHere(ended)>>),
           first + 2,
           breaks \o IF IsKnown(test) /\ Truthy(test.known) THEN <<>> ELSE <<EdgeHere(ended)>>)
Repeat(first, phis, breaks, test) ==
    RepeatOn(first, phis, breaks, test,
             IF ~IsKnown(test) THEN BranchOn(test, first, first + 2)
             ELSE SetTerminator(test.t, Jump(IF Truthy(test.known) THEN first ELSE first + 2)))
DoWhileTest(s, first, phis, t, edges, breaks) ==
    IF edges = <<>> THEN ExitBy(SetTerminator(t, Unreachable), first + 2, breaks)
    ELSE Repeat(first, phis, breaks, LowerExpression(s.e, MergePredecessorScopes(t, edges)))
DoWhileEnd(s, first, phis, b) ==
    DoWhileTest(s, first, phis, [Popped(FallInto(b, first + 1)) EXCEPT !.current = first + 1],
                Target(b).continues \o NaturalEdges(b), Target(b).breaks)
DoWhileFrom(s, first, h, labels) ==
    DoWhileEnd(s, first, h.phis,
               LowerStatement(s.body, Push(h.t, ControlTarget(labels, TRUE, first + 2, first + 1))))
LowerDoWhile(s, t, labels) ==
    DoWhileFrom(s, Len(t.blocks) + 1,
                OpenPhis(EnterBlocks(t, 3), t.current, CollectLoopWrites(s.e, s.body, NoExpression)), labels)

(* The cases of a switch share a scope.  They are compared in source order *)
(* and entered from a comparison, from the case before, or from both.      *)
DefaultOf(s) == Max({0} \union {i \in DOMAIN s.cases : s.cases[i].e = NoExpression})
TestedCases(s) == SelectSeq([i \in DOMAIN s.cases |-> i], LAMBDA i : s.cases[i].e # NoExpression)

(* A comparison of a number with a number, of strings, or decided now.     *)
CompareCase(value, test) ==
    IF (value.type = test.type /\ test.type \in {"Number", "String"}) \/ (IsKnown(value) /\ IsKnown(test))
    THEN CompareTyped(value, test) ELSE GivesUp(test.t)

(* d.from: the block that enters a case; d.last: the last that compares.   *)
DispatchTo(d, i, body, next, l) ==
    [t |-> [SetTerminator(IF next > Len(l.t.blocks) THEN NewBlocks(l.t, 1) ELSE l.t, Branch(l.r, body, next))
              EXCEPT !.current = next],
     from |-> [d.from EXCEPT ![i] = l.t.current], last |-> l.t.current]
Dispatch(s, d, value, exit, i, final) ==
    LET l == CompareCase(value, LowerExpression(s.cases[i].e, d.t))
    IN DispatchTo(d, i, exit + i,
                  IF final THEN exit + DefaultOf(s) ELSE Len(l.t.blocks) + 1, l)
DispatchAll(s, value, t, exit) ==
    LET tested == TestedCases(s)
        start == [t |-> NewBlocks(t, 1 + Len(s.cases)), from |-> [i \in DOMAIN s.cases |-> 0], last |-> t.current]
    IN IF tested = <<>> THEN [start EXCEPT !.t = SetTerminator(@, Jump(exit + DefaultOf(s)))]
       ELSE FoldLeft(LAMBDA d, j : Dispatch(s, d, value, exit, tested[j], j = Len(tested)), start,
                     [j \in DOMAIN tested |-> j])

EnterCase(t, outer, from, previous) ==
    IF previous = <<>> THEN [t EXCEPT !.scopes = outer]
    ELSE IF from = 0 THEN [t EXCEPT !.scopes = previous[1].scopes]
    ELSE MergeScopeValues([t EXCEPT !.scopes = outer], [block |-> from, scopes |-> outer], previous[1])

(* c.previous: the edge that falls into the next case, or behind the last. *)
CaseEnd(c, to) == [t |-> FallInto(c, to), previous |-> NaturalEdges(c)]
LowerCase(s, c, i, exit, outer, from) ==
    CaseEnd(LowerList(s.cases[i].ss, EnterCase([c.t EXCEPT !.current = exit + i], outer, from, c.previous)),
            IF i = Len(s.cases) THEN exit ELSE exit + i + 1)
SwitchExit(s, t, exit, outer, edges) ==
    LeaveScope(MergeSwitchExit([Popped(t) EXCEPT !.current = exit, !.used = Front(@)], outer, edges))
SwitchCases(s, d, exit, outer, labels) ==
    LET From(i) == IF i = DefaultOf(s) THEN d.last ELSE d.from[i]
        unmatched == IF DefaultOf(s) = 0 THEN <<[block |-> d.last, scopes |-> outer]>> ELSE <<>>
        c == FoldLeft(LAMBDA b, i : LowerCase(s, b, i, exit, outer, From(i)),
                      [t |-> Push(d.t, ControlTarget(labels, TRUE, exit, NoTarget)), previous |-> <<>>],
                      [i \in DOMAIN s.cases |-> i])
    IN SwitchExit(s, c.t, exit, outer, Target(c.t).breaks \o c.previous \o unmatched)
SwitchIn(s, value, t, labels) ==
    SwitchCases(s, DispatchAll(s, value, t, Len(t.blocks) + 1), Len(t.blocks) + 1, t.scopes, labels)
CaseStatements(s) == FlattenSeq([i \in DOMAIN s.cases |-> s.cases[i].ss])
LowerSwitch(s, value, labels) ==
    SwitchIn(s, value, Predeclare(CaseStatements(s),
                         [EnterScope(value.t) EXCEPT !.used = Append(@, UsesOf(CaseStatements(s)))]), labels)

(* A label on anything else: a region that break leaves.                   *)
LabelExit(outer, exit, b) ==
    MergeControlExitScopes([Popped(FallInto(b, exit)) EXCEPT !.current = exit], outer,
                           Target(b).breaks \o NaturalEdges(b))
LowerNonIterationLabel(body, t, labels) ==
    LabelExit(t.scopes, Len(t.blocks) + 1,
              LowerStatement(body, Push(NewBlocks(t, 1),
                                        ControlTarget(labels, FALSE, Len(t.blocks) + 1, NoTarget))))

RECURSIVE LowerLabeled(_, _, _)
LowerLabeled(s, t, labels) ==
    CASE s.k = "labeled" -> LowerLabeled(s.body, t, labels \union {s.l})
      [] s.k \in {"while", "for"} -> LowerLoop(s, t, labels)
      [] s.k = "dowhile" -> LowerDoWhile(s, t, labels)
      [] s.k = "switch" -> LowerSwitch(s, LowerExpression(s.e, t), labels)
      [] OTHER -> LowerNonIterationLabel(s, t, labels)

ExitWith(k, l) == SetTerminator(l.t, IF k = "return" THEN ReturnValue(l.r) ELSE ThrowValue(l.r))

LowerStatement(s, t) ==
    IF t.bailed THEN t
    ELSE CASE s.k = "expr" -> LowerExpression(s.e, t).t
           [] s.k = "let" -> LowerDeclaration(s, t)
           [] s.k = "block" -> LeaveScope(LowerScope(s.ss, EnterScope(t)))
           [] s.k = "if" -> LowerIf(s, LowerExpression(s.e, t))
           [] s.k \in {"while", "for", "dowhile", "switch"} -> LowerLabeled(s, t, {})
           [] s.k = "labeled" -> LowerLabeled(s, t, {})
           [] s.k = "break" -> LowerBreak(t, ResolveBreakTarget(t, s.l))
           [] s.k = "continue" -> LowerContinue(t, ResolveContinueTarget(t, s.l))
           [] s.k \in {"return", "throw"} -> ExitWith(s.k, LowerExpression(s.e, t))
           [] s.k = "try" -> Bails(t)

(* A function body; it returns undefined at its end.                       *)
FinishFunction(t) == IF Terminated(t) THEN t ELSE ExitWith("return", EmitValue(t, Undefined))
LowerFunction(ss) == FinishFunction(LowerScope(ss, NewLowerer))
=============================================================================
