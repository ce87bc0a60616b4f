------------------------------ MODULE Statements ------------------------------
(***************************************************************************)
(* Statements, expressions, their completions, and what a statement list   *)
(* does: the reference that every pass and lowering is compared with.  It  *)
(* is the interpreter (ecmora-runtime, execute_statement_with_labels and   *)
(* evaluate_expression) over the tree of ecmora-hir.                       *)
(*                                                                         *)
(* A site is a call of code the program does not contain: it is observed   *)
(* with the values of the variables it is given, and an answer decides how *)
(* it ends.  A yield is observed and answered the same way.  A machine m   *)
(* holds the scopes, the heap, the answers not used yet and the            *)
(* observations made; where the answers run out, evaluation ends with the  *)
(* completion "wait", which no statement catches.  An error of the host,   *)
(* which ends the program, is the completion "error".                      *)
(*                                                                         *)
(* Left out: this, classes, rest parameters, const, compound assignments   *)
(* and the other operators; scopes that declare a name twice; an           *)
(* assignment to an undeclared name is the error it is in strict code.     *)
(***************************************************************************)
EXTENDS Heap

NoName == ""

(* Expressions.  A key is an expression; a static one is a literal.        *)
NoExpression == [k |-> "none"]
Literal(v) == [k |-> "literal", v |-> v]
Variable(x) == [k |-> "variable", x |-> x]
Site(n, args) == [k |-> "site", n |-> n, args |-> args]
Assign(x, e) == [k |-> "assign", x |-> x, e |-> e]
Conditional(t, yes, no) == [k |-> "conditional", test |-> t, yes |-> yes, no |-> no]
And(l, r) == [k |-> "and", left |-> l, right |-> r]
Or(l, r) == [k |-> "or", left |-> l, right |-> r]
StrictEqual(l, r) == [k |-> "equal", left |-> l, right |-> r]
Yield(e) == [k |-> "yield", e |-> e]
Unary(operator, e) == [k |-> operator, e |-> e]     \* typeof, void, not, delete
HasKey(l, r) == [k |-> "in", left |-> l, right |-> r]
Member(o, key) == [k |-> "member", o |-> o, key |-> key]
Store(o, key, e) == [k |-> "store", o |-> o, key |-> key, e |-> e]
ObjectLiteral(entries) == [k |-> "object", items |-> entries]
ArrayLiteral(elements) == [k |-> "array", items |-> elements]
Property(key, e) == [i |-> "property", key |-> key, e |-> e]
AccessorEntry(name, get, set) == [i |-> "accessor", name |-> name, get |-> get, set |-> set]
Element(e) == [i |-> "element", e |-> e]
Spread(e) == [i |-> "spread", e |-> e]
HoleElement == [i |-> "hole"]
Function(name, params, body) == [name |-> name, params |-> params, body |-> body]
FunctionExpression(f) == [k |-> "function", f |-> f]
Invoke(callee, args) == [k |-> "call", callee |-> callee, items |-> args]

(* Statements; a missing branch is the empty block.                        *)
Expr(e) == [k |-> "expr", e |-> e]
Let(x, e) == [k |-> "let", x |-> x, e |-> e]
Var(x, e) == [k |-> "var", x |-> x, e |-> e]
FunctionDeclaration(f) == [k |-> "function", f |-> f]
Block(ss) == [k |-> "block", ss |-> ss]
If(e, yes, no) == [k |-> "if", e |-> e, yes |-> yes, no |-> no]
While(e, body) == [k |-> "while", e |-> e, body |-> body]
DoWhile(body, e) == [k |-> "dowhile", e |-> e, body |-> body]
For(init, e, update, body) ==
    [k |-> "for", init |-> init, e |-> e, update |-> update, body |-> body]
ForEach(k, kind, x, e, body) == [k |-> k, kind |-> kind, x |-> x, e |-> e, body |-> body]
ForIn(kind, x, e, body) == ForEach("forin", kind, x, e, body)
ForOf(kind, x, e, body) == ForEach("forof", kind, x, e, body)
Case(e, ss) == [e |-> e, ss |-> ss]
Switch(e, cases) == [k |-> "switch", e |-> e, cases |-> cases]
Labeled(l, body) == [k |-> "labeled", l |-> l, body |-> body]
Try(block, x, handler, final) ==
    [k |-> "try", block |-> block, x |-> x, handler |-> handler, final |-> final]
Return(e) == [k |-> "return", e |-> e]
Throw(e) == [k |-> "throw", e |-> e]
Break(l) == [k |-> "break", l |-> l]
Continue(l) == [k |-> "continue", l |-> l]
Nothing == Block(<<>>)
NoStatement == [k |-> "none"]     \* a try without handler or finalizer

(* The parts of an expression, and what a statement directly holds; the    *)
(* body of a function is neither.  Whole takes it all in.                  *)
ItemParts(item) ==
    CASE item.i = "property" -> {item.key, item.e}
      [] item.i = "accessor" -> {item.get, item.set}
      [] item.i \in {"element", "spread"} -> {item.e}
      [] OTHER -> {}
Parts(e) ==
    CASE e.k \in {"assign", "yield", "typeof", "void", "not", "delete"} -> {e.e}
      [] e.k = "conditional" -> {e.test, e.yes, e.no}
      [] e.k \in {"and", "or", "equal", "in"} -> {e.left, e.right}
      [] e.k = "member" -> {e.o, e.key}
      [] e.k = "store" -> {e.o, e.key, e.e}
      [] e.k \in {"object", "array"} -> UNION {ItemParts(e.items[i]) : i \in DOMAIN e.items}
      [] e.k = "call" -> {e.callee} \union UNION {ItemParts(e.items[i]) : i \in DOMAIN e.items}
      [] OTHER -> {}
Expressions(s) ==
    CASE s.k = "for" -> {s.e, s.update}
      [] s.k = "switch" -> {s.e} \union {s.cases[i].e : i \in DOMAIN s.cases}
      [] s.k \notin {"for", "switch"} /\ "e" \in DOMAIN s -> {s.e}
      [] OTHER -> {}
Substatements(s) ==
    CASE s.k = "block" -> ToSet(s.ss)
      [] s.k = "if" -> {s.yes, s.no}
      [] s.k = "for" -> {s.init, s.body}
      [] s.k \in {"while", "dowhile", "labeled", "forin", "forof"} -> {s.body}
      [] s.k = "switch" -> UNION {ToSet(s.cases[i].ss) : i \in DOMAIN s.cases}
      [] s.k = "try" -> {s.block, s.handler, s.final}
      [] OTHER -> {}
RECURSIVE Whole(_), AllExpressions(_)
Whole(e) ==
    {e} \union UNION {Whole(d) : d \in Parts(e)}
        \union IF e.k = "function" THEN AllExpressions(Block(e.f.body)) ELSE {}
AllExpressions(s) ==
    UNION {Whole(e) : e \in Expressions(s)} \union UNION {AllExpressions(t) : t \in Substatements(s)}
        \union IF s.k = "function" THEN AllExpressions(Block(s.f.body)) ELSE {}

-----------------------------------------------------------------------------
(* Completions; the value of a normal one is that of an expression.        *)
Completion(k, l, v) == [k |-> k, l |-> l, v |-> v]
Normal(v) == Completion("normal", NoName, v)
Thrown(v) == Completion("throw", NoName, v)
Returned(v) == Completion("return", NoName, v)
Waiting == Completion("wait", NoName, Undefined)
HostError == Completion("error", NoName, Undefined)

Outcome(m, c) == [m |-> m, c |-> c]
Gives(m, v) == Outcome(m, Normal(v))
Ends(m) == Gives(m, Undefined)
Fails(m) == Outcome(m, HostError)
Then(r, Rest(_, _)) == IF r.c.k = "normal" THEN Rest(r.m, r.c.v) ELSE r

(* A frame is a scope: its variables and the scope around it.  at is the   *)
(* current one.  hoists: whether a var belongs to its function, as the     *)
(* language has it, or to its block, as the interpreter has it.            *)
NoNames == [x \in {} |-> Undefined]
DeadZone == Value("DeadZone", "")     \* declared, not yet initialized
ScopeFrame(vars, up) == [vars |-> vars, up |-> up]
MachineWith(vars, answers, hoists) ==
    [frames |-> <<ScopeFrame(vars, 0)>>, at |-> 1, heap |-> Empty, hoists |-> hoists,
     left |-> answers, seen |-> <<>>]
Machine(answers) == MachineWith(NoNames, answers, FALSE)
Sees(m, event) == [m EXCEPT !.seen = Append(@, event)]

(* find_binding: the innermost scope from at on that holds x, or 0.        *)
RECURSIVE FindBinding(_, _, _)
FindBinding(frames, at, x) ==
    IF at = 0 THEN 0 ELSE IF x \in DOMAIN frames[at].vars THEN at ELSE FindBinding(frames, frames[at].up, x)

Fetch(m, x) ==
    LET at == FindBinding(m.frames, m.at, x)
    IN IF at = 0 \/ m.frames[at].vars[x] = DeadZone THEN Fails(m) ELSE Gives(m, m.frames[at].vars[x])
Declared(m, x) == FindBinding(m.frames, m.at, x) # 0
Binds(m, x, v) == [m EXCEPT !.frames[FindBinding(m.frames, m.at, x)].vars[x] = v]
StoreIdentifier(m, x, v) ==
    LET r == Fetch(m, x) IN IF r.c = HostError THEN r ELSE Gives(Binds(m, x, v), v)

(* Runs in a scope of its own, within the scope up.                        *)
InFrame(m, up, vars, Run(_)) ==
    LET r == Run([m EXCEPT !.frames = Append(@, ScopeFrame(vars, up)), !.at = Len(m.frames) + 1])
    IN [r EXCEPT !.m.at = m.at]
InScope(m, vars, Run(_)) == InFrame(m, m.at, vars, Run)

(* An observation that is answered with a completion.                      *)
Ask(m, event) ==
    IF m.left = <<>> THEN Outcome(Sees(m, event), Waiting)
    ELSE Outcome([Sees(m, event) EXCEPT !.left = Tail(@)], Head(m.left))

(* An observer sees of a reference that it is one, and of what type.       *)
Shown(v) == IF IsReference(v) THEN Value(v.type, "") ELSE v
Event(k, n, values) == [k |-> k, n |-> n, values |-> values]
Called(n, values) == Event("called", n, [i \in DOMAIN values |-> Shown(values[i])])
Yielded(v) == Event("result", 0, <<v, False>>)

(* What an outside observer can tell of an outcome.                        *)
Observed(r) == [seen |-> r.m.seen, ends |-> [r.c EXCEPT !.v = Shown(@)]]

-----------------------------------------------------------------------------
RECURSIVE Eval(_, _), EvalAll(_, _, _), CopyProperties(_, _, _, _), AddEntries(_, _, _), EvalElements(_, _, _), ExecScope(_, _), VarNames(_)

(* One after the other; the value is the sequence of values.               *)
EvalAll(es, m, vs) ==
    IF es = <<>> THEN Gives(m, vs)
    ELSE Then(Eval(Head(es), m), LAMBDA n, v : EvalAll(Tail(es), n, Append(vs, v)))

(* The names var declares in a statement, in blocks within it too.         *)
VarNames(s) ==
    (IF s.k = "var" \/ (s.k \in {"forin", "forof"} /\ s.kind = "var") THEN {s.x} ELSE {})
    \union UNION {VarNames(t) : t \in Substatements(s)}
Hoisted(f, m) ==
    IF m.hoists THEN UNION {VarNames(f.body[i]) : i \in DOMAIN f.body} ELSE {}

(* call_function_with_bindings, for a function of the program.             *)
Arguments(f, args) ==
    [p \in ToSet(f.params) |->
       LET i == Max({j \in DOMAIN f.params : f.params[j] = p})
       IN IF i \in DOMAIN args THEN args[i] ELSE Undefined]
OwnName(f, callee) == IF f.name = NoName THEN NoNames ELSE f.name :> callee
ReturnsFrom(r) ==
    CASE r.c.k = "normal" -> Ends(r.m)
      [] r.c.k = "return" -> Gives(r.m, r.c.v)
      [] r.c.k \in {"break", "continue"} -> Fails(r.m)
      [] OTHER -> r
CallFunction(m, callee, args) ==
    LET closure == m.heap[callee.datum]
        f == closure.f
    IN ReturnsFrom(InFrame(m, closure.at, Arguments(f, args) @@ OwnName(f, callee) @@ [x \in Hoisted(f, m) |-> Undefined],
                           LAMBDA n : ExecScope(f.body, n)))

RegisterFunction(m, f) ==
    LET v == NextReference(m.heap, "Function")
    IN Gives([m EXCEPT !.heap = Allocate(@, v, [f |-> f, at |-> m.at])], v)

GetPropertyValue(m, o, key) ==
    LET getter == GetAccessor(m.heap, o, key).getter
    IN IF getter # Nowhere THEN CallFunction(m, getter, <<>>) ELSE Gives(m, GetProperty(m.heap, o, key))

SetsTo(m, heap, v) == IF heap = NoHeap THEN Fails(m) ELSE Gives([m EXCEPT !.heap = heap], v)
SetPropertyValue(m, o, key, v) ==
    LET setter == GetAccessor(m.heap, o, key).setter
    IN IF setter # Nowhere THEN CallFunction(m, setter, <<v>>)
       ELSE SetsTo(m, SetProperty(m.heap, o, key, v), v)

(* The entries of an object literal, added to the object o.                *)
DefineOwn(m, o, key, v) == SetsTo(m, SetProperty(m.heap, o, key, v), o)
AddProperty(m, o, key, v) ==
    IF key # "__proto__" THEN DefineOwn(m, o, key, v)
    ELSE IF v.type \in {"Object", "Null"}
         THEN SetsTo(m, SetPrototype(m.heap, o, IF v = Null THEN Nowhere ELSE v), o)
    ELSE Gives(m, o)
CopyProperties(m, o, source, keys) ==
    IF keys = <<>> THEN Gives(m, o)
    ELSE Then(GetPropertyValue(m, source, Head(keys)), LAMBDA n, v :
           Then(DefineOwn(n, o, Head(keys), v), LAMBDA p, w : CopyProperties(p, o, source, Tail(keys))))
AddEntry(m, o, entry) ==
    CASE entry.i = "property" ->
           Then(Eval(entry.key, m), LAMBDA n, key :
             Then(Eval(entry.e, n), LAMBDA p, v : AddProperty(p, o, KeyOf(key), v)))
      [] entry.i = "spread" -> Then(Eval(entry.e, m), LAMBDA n, v : CopyProperties(n, o, v, OwnPropertyKeys(n.heap, v)))
      [] entry.i = "accessor" ->
           Then(EvalAll(<<entry.get, entry.set>>, m, <<>>), LAMBDA n, vs :
             Gives([n EXCEPT !.heap = DefineAccessor(@, o, entry.name, vs[1], vs[2])], o))
AddEntries(m, o, entries) ==
    IF entries = <<>> THEN Gives(m, o)
    ELSE Then(AddEntry(m, o, Head(entries)), LAMBDA n, v : AddEntries(n, o, Tail(entries)))
EvalObject(e, m) ==
    LET o == NextReference(m.heap, "Object")
    IN AddEntries([m EXCEPT !.heap = Allocate(@, o, NewObject)], o, e.items)

(* The elements of an array, or the arguments of a call.  A spread makes   *)
(* holes undefined.                                                        *)
Filled(items) == [i \in DOMAIN items |-> IF items[i] = Hole THEN Undefined ELSE items[i]]
AddElement(m, items, element) ==
    CASE element.i = "hole" -> Gives(m, Append(items, Hole))
      [] element.i = "element" -> Then(Eval(element.e, m), LAMBDA n, v : Gives(n, Append(items, v)))
      [] element.i = "spread" ->
           Then(Eval(element.e, m), LAMBDA n, v :
             IF v.type = "Array" THEN Gives(n, items \o Filled(n.heap[v.datum])) ELSE Fails(n))
EvalElements(elements, m, items) ==
    IF elements = <<>> THEN Gives(m, items)
    ELSE Then(AddElement(m, items, Head(elements)), LAMBDA n, all : EvalElements(Tail(elements), n, all))
NewArray(m, items) ==
    LET v == NextReference(m.heap, "Array") IN Gives([m EXCEPT !.heap = Allocate(@, v, items)], v)

EvalDelete(e, m) ==
    CASE e.k = "member" ->
           Then(Eval(e.o, m), LAMBDA n, o :
             Then(Eval(e.key, n), LAMBDA p, key :
               Gives([p EXCEPT !.heap = DeleteProperty(@, o, KeyOf(key))], Bool(o.type \in {"Object", "Array"}))))
      [] e.k = "variable" -> Gives(m, False)
      [] OTHER -> Then(Eval(e, m), LAMBDA n, v : Gives(n, True))

(* A key comes before the object, and a stored value before both.          *)
EvalPlace(o, key, m, Use(_, _, _)) ==
    Then(Eval(key, m), LAMBDA n, k : Then(Eval(o, n), LAMBDA p, v : Use(p, v, KeyOf(k))))

Eval(e, m) ==
    CASE e.k = "none" -> Ends(m)
      [] e.k = "literal" -> Gives(m, e.v)
      [] e.k = "variable" -> Fetch(m, e.x)
      [] e.k = "site" ->
           Then(EvalAll([i \in DOMAIN e.args |-> Variable(e.args[i])], m, <<>>),
                LAMBDA n, vs : Ask(n, Called(e.n, vs)))
      [] e.k = "assign" -> Then(Eval(e.e, m), LAMBDA n, v : StoreIdentifier(n, e.x, v))
      [] e.k = "conditional" ->
           Then(Eval(e.test, m), LAMBDA n, v : Eval(IF Truthy(v) THEN e.yes ELSE e.no, n))
      [] e.k \in {"and", "or"} ->
           Then(Eval(e.left, m),
                LAMBDA n, v : IF Truthy(v) = (e.k = "and") THEN Eval(e.right, n) ELSE Gives(n, v))
      [] e.k = "equal" -> Then(EvalAll(<<e.left, e.right>>, m, <<>>), LAMBDA n, vs : Gives(n, Bool(vs[1] = vs[2])))
      [] e.k = "yield" -> Then(Eval(e.e, m), LAMBDA n, v : Ask(n, Yielded(v)))
      [] e.k = "typeof" ->
           IF e.e.k = "variable" /\ ~Declared(m, e.e.x) THEN Gives(m, String("undefined"))
           ELSE Then(Eval(e.e, m), LAMBDA n, v : Gives(n, String(TypeOf(v))))
      [] e.k = "void" -> Then(Eval(e.e, m), LAMBDA n, v : Ends(n))
      [] e.k = "not" -> Then(Eval(e.e, m), LAMBDA n, v : Gives(n, Bool(~Truthy(v))))
      [] e.k = "delete" -> EvalDelete(e.e, m)
      [] e.k = "in" ->
           Then(EvalAll(<<e.left, e.right>>, m, <<>>),
                LAMBDA n, vs : Gives(n, Bool(HasProperty(n.heap, vs[2], KeyOf(vs[1])))))
      [] e.k = "member" -> EvalPlace(e.o, e.key, m, GetPropertyValue)
      [] e.k = "store" ->
           Then(Eval(e.e, m), LAMBDA n, v :
             EvalPlace(e.o, e.key, n, LAMBDA p, o, key : SetPropertyValue(p, o, key, v)))
      [] e.k = "object" -> EvalObject(e, m)
      [] e.k = "array" -> Then(EvalElements(e.items, m, <<>>), NewArray)
      [] e.k = "function" -> RegisterFunction(m, e.f)
      [] e.k = "call" ->
           Then(Eval(e.callee, m), LAMBDA n, callee :
             Then(EvalElements(e.items, n, <<>>), LAMBDA p, args :
               IF callee.type = "Function" THEN CallFunction(p, callee, args) ELSE Fails(p)))

-----------------------------------------------------------------------------
(* A break or continue with no label, or with a label of the statement,    *)
(* ends there.                                                             *)
Absorbs(c, k, labels) == c.k = k /\ (c.l = NoName \/ c.l \in labels)

(* How a loop goes on after its body.                                      *)
AfterBody(r, labels, Again(_)) ==
    IF Absorbs(r.c, "break", labels) THEN Ends(r.m)
    ELSE IF r.c.k = "normal" \/ Absorbs(r.c, "continue", labels) THEN Again(r.m)
    ELSE r

RECURSIVE Exec(_, _, _), ExecStatements(_, _), ExecWhile(_, _, _), ExecDoWhile(_, _, _),
          ExecFor(_, _, _), ExecEach(_, _, _, _), ExecSwitch(_, _, _, _, _, _)

(* predeclare: names of the scope are there from its start, and functions  *)
(* can be called from its start.                                           *)
Introduces(s, m) == s.k = "let" \/ (s.k = "var" /\ ~m.hoists)
DeadNames(ss, m) == [x \in {ss[i].x : i \in {j \in DOMAIN ss : Introduces(ss[j], m)}} |-> DeadZone]
DeclareFunctions(ss, m) ==
    FoldLeft(LAMBDA n, s : IF s.k # "function" THEN n
                           ELSE LET r == RegisterFunction(n, s.f)
                                IN [r.m EXCEPT !.frames[r.m.at].vars = (s.f.name :> r.c.v) @@ @],
             m, ss)
Predeclared(ss, m) ==
    DeclareFunctions(ss, [m EXCEPT !.frames[m.at].vars = DeadNames(ss, m) @@ @])

ExecStatements(ss, m) ==
    IF ss = <<>> THEN Ends(m)
    ELSE Then(Exec(Head(ss), m, {}), LAMBDA n, v : ExecStatements(Tail(ss), n))
ExecScope(ss, m) == ExecStatements(ss, Predeclared(ss, m))

(* A block that declares nothing needs no scope of its own.                *)
ExecBlock(ss, m) ==
    IF \E i \in DOMAIN ss : Introduces(ss[i], m) \/ ss[i].k = "function"
    THEN InScope(m, NoNames, LAMBDA n : ExecScope(ss, n)) ELSE ExecStatements(ss, m)

ExecWhile(s, m, labels) ==
    Then(Eval(s.e, m), LAMBDA n, v :
      IF Truthy(v)
      THEN AfterBody(Exec(s.body, n, {}), labels, LAMBDA o : ExecWhile(s, o, labels))
      ELSE Ends(n))

ExecDoWhile(s, m, labels) ==
    AfterBody(Exec(s.body, m, {}), labels, LAMBDA n :
      Then(Eval(s.e, n), LAMBDA o, v :
        IF Truthy(v) THEN ExecDoWhile(s, o, labels) ELSE Ends(o)))

(* After the initializer.                                                  *)
ExecFor(s, m, labels) ==
    Then(IF s.e = NoExpression THEN Gives(m, True) ELSE Eval(s.e, m), LAMBDA n, v :
      IF Truthy(v)
      THEN AfterBody(Exec(s.body, n, {}), labels, LAMBDA o :
             Then(Eval(s.update, o), LAMBDA p, w : ExecFor(s, p, labels)))
      ELSE Ends(n))

(* The variable takes one value after the other.                           *)
ExecEach(s, values, m, labels) ==
    IF values = <<>> THEN Ends(m)
    ELSE AfterBody(Exec(s.body, Binds(m, s.x, Head(values)), {}), labels,
                   LAMBDA n : ExecEach(s, Tail(values), n, labels))
(* What is iterated is taken once, before the first round.                 *)
StartEach(s, m, labels) ==
    Then(Eval(s.e, m), LAMBDA n, v :
      LET keys == OwnPropertyKeys(n.heap, v)
          values == IF s.k = "forin" THEN [i \in DOMAIN keys |-> String(keys[i])] ELSE Filled(n.heap[v.datum])
          own == IF s.kind = "var" /\ n.hoists THEN NoNames ELSE s.x :> Undefined
      IN IF s.k = "forof" /\ v.type # "Array" THEN Fails(n)
         ELSE InScope(n, own, LAMBDA o : ExecEach(s, values, o, labels)))

(* All bodies from the first one that runs; they share one scope, in which *)
(* functions are not declared.                                             *)
StatementsFrom(s, first) ==
    FlattenSeq([j \in 1 .. Len(s.cases) - first + 1 |-> s.cases[first + j - 1].ss])
LeavesAtBreak(r, labels) == IF Absorbs(r.c, "break", labels) THEN Ends(r.m) ELSE r
RunCases(s, first, m, labels) ==
    LeavesAtBreak(InScope(m, DeadNames(StatementsFrom(s, 1), m), LAMBDA n : ExecStatements(StatementsFrom(s, first), n)),
                  labels)
(* The cases from the i-th on are still to be compared; d is the default.  *)
ExecSwitch(s, value, i, d, m, labels) ==
    IF i > Len(s.cases) THEN IF d = 0 THEN Ends(m) ELSE RunCases(s, d, m, labels)
    ELSE IF s.cases[i].e = NoExpression THEN ExecSwitch(s, value, i + 1, i, m, labels)
    ELSE Then(Eval(s.cases[i].e, m), LAMBDA n, v :
           IF v = value THEN RunCases(s, i, n, labels) ELSE ExecSwitch(s, value, i + 1, d, n, labels))

(* The prefix of a statement: its labels grow inwards.                     *)
LeavesLabel(r, labels) == IF r.c.k = "break" /\ r.c.l \in labels THEN Ends(r.m) ELSE r
ExecLabeled(s, m, labels) ==
    LeavesLabel(Exec(s.body, m, labels \union {s.l}), labels \union {s.l})

(* A finalizer that does not end normally replaces the completion.         *)
Caught(s, r) ==
    IF r.c.k # "throw" \/ s.handler = NoStatement THEN r
    ELSE IF s.x = NoName THEN Exec(s.handler, r.m, {})
    ELSE InScope(r.m, s.x :> r.c.v, LAMBDA n : Exec(s.handler, n, {}))
Finally(s, r) ==
    IF s.final = NoStatement \/ r.c.k \in {"wait", "error"} THEN r
    ELSE Then(Exec(s.final, r.m, {}), LAMBDA n, v : Outcome(n, r.c))
ExecTry(s, m) == Finally(s, Caught(s, Exec(s.block, m, {})))

ExecLet(s, m) == Then(Eval(s.e, m), LAMBDA n, v : Ends(Binds(n, s.x, v)))

Exec(s, m, labels) ==
    CASE s.k = "expr" -> Then(Eval(s.e, m), LAMBDA n, v : Ends(n))
      [] s.k = "let" -> ExecLet(s, m)
      [] s.k = "var" -> IF m.hoists /\ s.e = NoExpression THEN Ends(m) ELSE ExecLet(s, m)
      [] s.k = "function" -> Ends(m)
      [] s.k = "block" -> ExecBlock(s.ss, m)
      [] s.k = "if" -> Then(Eval(s.e, m), LAMBDA n, v : Exec(IF Truthy(v) THEN s.yes ELSE s.no, n, {}))
      [] s.k = "while" -> ExecWhile(s, m, labels)
      [] s.k = "dowhile" -> ExecDoWhile(s, m, labels)
      [] s.k = "for" ->
           InScope(m, DeadNames(<<s.init>>, m), LAMBDA o :
             Then(Exec(s.init, o, {}), LAMBDA n, v : ExecFor(s, n, labels)))
      [] s.k \in {"forin", "forof"} -> StartEach(s, m, labels)
      [] s.k = "switch" -> Then(Eval(s.e, m), LAMBDA n, v : ExecSwitch(s, v, 1, 0, n, labels))
      [] s.k = "labeled" -> ExecLabeled(s, m, labels)
      [] s.k = "try" -> ExecTry(s, m)
      [] s.k = "return" -> Then(Eval(s.e, m), LAMBDA n, v : Outcome(n, Returned(v)))
      [] s.k = "throw" -> Then(Eval(s.e, m), LAMBDA n, v : Outcome(n, Thrown(v)))
      [] s.k \in {"break", "continue"} -> Outcome(m, Completion(s.k, s.l, Undefined))

(* A program: its outermost scope, and what it does.                       *)
Program(ss, answers, hoists) ==
    ExecScope(ss, MachineWith([x \in Hoisted([body |-> ss], [hoists |-> hoists]) |-> Undefined],
                              answers, hoists))
=============================================================================
