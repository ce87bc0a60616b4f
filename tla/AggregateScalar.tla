---------------------------- MODULE AggregateScalar ----------------------------
(***************************************************************************)
(* aggregate_scalar.rs: an object or array that a let declares with a      *)
(* literal, and that never escapes, is replaced by one variable per field. *)
(* A first walk over the tree finds the candidates, a second one which of  *)
(* them escape, a third one rewrites the others.                           *)
(*                                                                         *)
(* A candidate is known by its declaration, so the copies of a finalizer   *)
(* share one, as they share a span in the code; a program does not write   *)
(* the same declaration twice.  The third walk gives the program up where  *)
(* it meets a candidate it cannot rewrite: the mark Escaped is left there. *)
(*                                                                         *)
(* Left out: imports and exports, the other operators, new and await.      *)
(***************************************************************************)
EXTENDS Statements

IsLiteral(e) == e.k \in {"object", "array"}

(* discover_statements: every declaration with a literal, in order.  The   *)
(* bodies of function expressions and the heads of loops are not looked at. *)
RECURSIVE Discover(_)
Discover(s) ==
    LET All(ss) == FlattenSeq([i \in DOMAIN ss |-> Discover(ss[i])])
    IN CASE s.k \in {"let", "var"} -> IF IsLiteral(s.e) THEN <<s>> ELSE <<>>
         [] s.k = "block" -> All(s.ss)
         [] s.k = "if" -> All(<<s.yes, s.no>>)
         [] s.k \in {"while", "dowhile", "for", "forin", "forof", "labeled"} -> Discover(s.body)
         [] s.k = "switch" -> FlattenSeq([i \in DOMAIN s.cases |-> All(s.cases[i].ss)])
         [] s.k = "try" -> All(<<s.block, s.handler, s.final>>)
         [] s.k = "function" -> All(s.f.body)
         [] OTHER -> <<>>

(* The candidates: a sequence of declarations.  Of equal ones the last.    *)
Declaration(registry, s) == Max({i \in DOMAIN registry : registry[i] = s} \union {0})

StaticKey(e) == e.k = "literal" /\ e.v.type \in {"String", "Number"}

ContainsLiteral(e) == \E d \in Whole(e) : IsLiteral(d)

(* inspect_literal.                                                        *)
BaseEligible(literal) ==
    \A i \in DOMAIN literal.items :
        LET item == literal.items[i]
        IN CASE item.i = "property" -> StaticKey(item.key) /\ ~ContainsLiteral(item.e)
             [] item.i = "element" -> ~ContainsLiteral(item.e)
             [] item.i = "spread" -> item.e.k = "variable"
             [] OTHER -> item.i = "hole"
ItemsOf(literal, i) == SelectSeq(literal.items, LAMBDA item : item.i = i)
DirectKeys(literal) ==
    LET properties == ItemsOf(literal, "property")
    IN {KeyOf(properties[i].key.v) : i \in {j \in DOMAIN properties : StaticKey(properties[j].key)}}

ReadIsStatic(literal, key) ==
    IF literal.k = "object" THEN key \in DirectKeys(literal)
    ELSE \/ key = "length"
         \/ /\ ItemsOf(literal, "spread") = <<>>
            /\ IsIndex(key)
            /\ IndexOf(key) < Len(literal.items)

(* Defect: takes a hole for an element.                                    *)
WriteIsStaticIntoHoles(literal, key) == key # "length" /\ ReadIsStatic(literal, key)
WriteIsStatic(literal, key) ==
    /\ ReadIsStatic(literal, key)
    /\ literal.k = "array" => key # "length" /\ literal.items[IndexOf(key) + 1].i = "element"

-----------------------------------------------------------------------------
(* The second walk.  An environment maps the names in scope to candidates, *)
(* 0 for another variable.  What is found are needs: a candidate can only  *)
(* be replaced if another one is; nothing can if it needs the outside.     *)
Outside == 0
Needs(owner, other) == [owner |-> owner, other |-> other]
Unbound == [x \in {} |-> 0]
Root(env, e) == IF e.k = "variable" /\ e.x \in DOMAIN env THEN env[e.x] ELSE 0

(* What a name stands for after its declaration.                           *)
Enter(registry, env, s) ==
    CASE s.k \in {"let", "var"} ->
           LET own == Declaration(registry, s)
           IN (s.x :> IF own # 0 THEN own ELSE Root(env, s.e)) @@ env
      [] s.k = "function" -> (s.f.name :> 0) @@ env
      [] OTHER -> env
Shadow(env, names) == [x \in names |-> 0] @@ env
FunctionNames(f) == ToSet(f.params) \union {f.name}

Nullish(e) == e.k = "literal" /\ e.v.type \in {"Undefined", "Null"}
(* An identity that is known: of two candidates, or of one and nothing.    *)
KnownEqual(env, e) ==
    \/ Root(env, e.left) # 0 /\ (Root(env, e.right) # 0 \/ Nullish(e.right))
    \/ Root(env, e.right) # 0 /\ Nullish(e.left)

RECURSIVE Scan(_, _, _), ScanStatements(_, _, _)

(* scan_expression: the needs of an expression.                            *)
ScanEach(registry, env, es) == UNION {Scan(registry, env, e) : e \in es}
ScanCondition(registry, env, e) == IF Root(env, e) # 0 THEN {} ELSE Scan(registry, env, e)
ScanVariable(registry, env, x) ==
    IF Root(env, Variable(x)) # 0 THEN {Needs(Root(env, Variable(x)), Outside)}
    ELSE {Needs(i, Outside) : i \in {j \in DOMAIN registry : registry[j].x = x}}
ScanPlace(registry, env, o, key, Static(_, _)) ==
    IF Root(env, o) = 0 THEN ScanEach(registry, env, {o, key})
    ELSE IF StaticKey(key) /\ Static(registry[Root(env, o)].e, KeyOf(key.v)) THEN {}
    ELSE {Needs(Root(env, o), Outside)} \union Scan(registry, env, key)
ScanArgument(registry, env, item) ==
    IF /\ item.i = "spread"
       /\ Root(env, item.e) # 0
       /\ registry[Root(env, item.e)].e.k = "array"
    THEN {} ELSE ScanEach(registry, env, ItemParts(item))
ScanFunction(registry, env, f) == ScanStatements(registry, Shadow(env, FunctionNames(f)), f.body)

Scan(registry, env, e) ==
    CASE e.k = "variable" -> ScanVariable(registry, env, e.x)
      [] e.k = "site" -> UNION {ScanVariable(registry, env, x) : x \in ToSet(e.args)}
      [] e.k = "member" -> ScanPlace(registry, env, e.o, e.key, ReadIsStatic)
      [] e.k = "in" -> ScanPlace(registry, env, e.right, e.left, ReadIsStatic)
      [] e.k = "store" ->
           ScanPlace(registry, env, e.o, e.key, WriteIsStatic) \union Scan(registry, env, e.e)
      [] e.k = "delete" /\ e.e.k = "member" ->
           ScanPlace(registry, env, e.e.o, e.e.key, LAMBDA literal, key : FALSE)
      [] e.k \in {"typeof", "not", "void"} -> ScanCondition(registry, env, e.e)
      [] e.k = "equal" /\ KnownEqual(env, e) -> {}
      [] e.k = "assign" -> ScanVariable(registry, env, e.x) \union Scan(registry, env, e.e)
      [] e.k = "conditional" ->
           ScanCondition(registry, env, e.test) \union ScanEach(registry, env, {e.yes, e.no})
      [] e.k = "call" ->
           (IF e.callee.k = "member"
            THEN ScanPlace(registry, env, e.callee.o, e.callee.key, LAMBDA literal, key : FALSE)
            ELSE Scan(registry, env, e.callee))
           \union UNION {ScanArgument(registry, env, item) : item \in ToSet(e.items)}
      [] e.k = "function" -> ScanFunction(registry, env, e.f)
      [] OTHER -> ScanEach(registry, env, Parts(e))

(* scan_candidate_initializer.                                             *)
ScanInitializer(registry, env, owner, literal) ==
    LET NeedsOf(item) ==
          CASE item.i = "spread" ->
                 IF \/ Root(env, item.e) = 0
                    \/ literal.k = "array" /\ registry[Root(env, item.e)].e.k # "array"
                 THEN {Needs(owner, Outside)} \union
                      (IF Root(env, item.e) = 0 THEN Scan(registry, env, item.e) ELSE {})
                 ELSE {Needs(owner, Root(env, item.e))}
            [] item.i = "accessor" -> {Needs(owner, Outside)}
            [] OTHER -> ScanEach(registry, env, ItemParts(item))
    IN UNION {NeedsOf(item) : item \in ToSet(literal.items)}

(* scan_statement; what it declares is added to the environment by Enter.  *)
ScanStatement(registry, env, s) ==
    LET Inner(ss, names) == ScanStatements(registry, Shadow(env, names), ss)
    IN CASE s.k \in {"let", "var"} ->
              IF Declaration(registry, s) # 0
              THEN ScanInitializer(registry, env, Declaration(registry, s), s.e)
              ELSE ScanCondition(registry, env, s.e)
         [] s.k = "function" -> ScanFunction(registry, Shadow(env, {s.f.name}), s.f)
         [] s.k \in {"if", "while", "dowhile"} ->
              ScanCondition(registry, env, s.e) \union UNION {Inner(<<t>>, {}) : t \in Substatements(s)}
         [] s.k = "for" ->
              LET own == IF s.init.k = "let" THEN Shadow(env, {s.init.x}) ELSE env
              IN ScanEach(registry, env, Expressions(s.init)) \union ScanCondition(registry, own, s.e)
                 \union Scan(registry, own, s.update) \union ScanStatements(registry, own, <<s.body>>)
         [] s.k \in {"forin", "forof"} -> Scan(registry, env, s.e) \union Inner(<<s.body>>, {s.x})
         [] s.k = "switch" ->
              Scan(registry, env, s.e) \union
              Inner(FlattenSeq([i \in DOMAIN s.cases |-> <<Expr(s.cases[i].e)>> \o s.cases[i].ss]), {})
         [] s.k = "block" -> Inner(s.ss, {})
         [] s.k = "labeled" -> Inner(<<s.body>>, {})
         [] s.k = "try" ->
              Inner(<<s.block>>, {}) \union Inner(<<s.handler>>, {s.x}) \union Inner(<<s.final>>, {})
         [] OTHER -> ScanEach(registry, env, Expressions(s))
ScanStatements(registry, env, ss) ==
    FoldLeft(LAMBDA r, s : [env |-> Enter(registry, r.env, s),
                            needs |-> r.needs \union ScanStatement(registry, r.env, s)],
             [env |-> env, needs |-> {}], ss).needs

(* finish: what needs something unsafe is unsafe.                          *)
RECURSIVE Unsafe(_, _)
Unsafe(needs, ids) ==
    LET more == ids \union {n.owner : n \in {p \in needs : p.other \in ids}}
    IN IF more = ids THEN ids ELSE Unsafe(needs, more)
Finish(registry, needs) == DOMAIN registry \ Unsafe(needs, {Outside})

-----------------------------------------------------------------------------
(* The third walk.  An environment maps the names in scope to layouts: the *)
(* candidate, its kind and its fields.                                     *)
Layout(id, kind, fields) == [id |-> id, kind |-> kind, fields |-> fields]
Field(key, present) == [key |-> key, present |-> present]
NotAggregate == Layout(0, "none", <<>>)
NoLayouts == [x \in {} |-> NotAggregate]
LayoutOf(env, e) == IF e.k = "variable" /\ e.x \in DOMAIN env THEN env[e.x] ELSE NotAggregate
Index(layout, key) == Max({i \in DOMAIN layout.fields : layout.fields[i].key = key} \union {0})
ValueName(layout, i) == "@aggregate:" \o ToString(layout.id) \o ":" \o ToString(i)
ValueNames(layout) == [i \in DOMAIN layout.fields |-> Variable(ValueName(layout, i))]

Escaped == [k |-> "escaped"]
Hide(env, names) == [x \in names |-> NotAggregate] @@ env

(* Every part of an expression rewritten.                                  *)
PartNames == {"e", "left", "right", "o", "key", "test", "yes", "no", "callee", "get", "set"}
Rebuilt(e, F(_)) == [part \in DOMAIN e |-> IF part \in PartNames THEN F(e[part]) ELSE e[part]]

ReadField(layout, key) ==
    IF layout.kind = "array" /\ key = "length" THEN Literal(Number(ToString(Len(layout.fields))))
    ELSE IF Index(layout, key) # 0 THEN Variable(ValueName(layout, Index(layout, key)))
    ELSE Literal(Undefined)
HasField(layout, key) ==
    \/ layout.kind = "array" /\ key = "length"
    \/ Index(layout, key) # 0 /\ layout.fields[Index(layout, key)].present

RECURSIVE Transform(_, _, _), TransformStatements(_, _, _)

TransformFunction(pass, env, f) ==
    [f EXCEPT !.body = TransformStatements(pass, Hide(env, FunctionNames(f)), @)]
TransformCondition(pass, env, e) ==
    IF LayoutOf(env, e) # NotAggregate THEN Literal(True) ELSE Transform(pass, env, e)
TransformEquality(env, e) ==
    LET left == LayoutOf(env, e.left)
        right == LayoutOf(env, e.right)
    IN IF left # NotAggregate /\ right # NotAggregate THEN Literal(Bool(left.id = right.id))
       ELSE IF Nullish(e.left) \/ Nullish(e.right) THEN Literal(False)
       ELSE Escaped
TransformItems(pass, env, items) ==
    [i \in DOMAIN items |-> Rebuilt(items[i], LAMBDA e : Transform(pass, env, e))]
TransformArguments(pass, env, items) ==
    LET Transformed(item) ==
          IF item.i = "spread" /\ LayoutOf(env, item.e) # NotAggregate
          THEN LET values == ValueNames(LayoutOf(env, item.e))
               IN [i \in DOMAIN values |-> Element(values[i])]
          ELSE TransformItems(pass, env, <<item>>)
    IN FlattenSeq([i \in DOMAIN items |-> Transformed(items[i])])

(* An expression that speaks of an aggregate directly.                     *)
TransformRoot(pass, env, e) ==
    CASE e.k = "member" /\ StaticKey(e.key) -> ReadField(LayoutOf(env, e.o), KeyOf(e.key.v))
      [] e.k = "in" /\ StaticKey(e.left) -> Literal(Bool(HasField(LayoutOf(env, e.right), KeyOf(e.left.v))))
      [] e.k = "store" /\ StaticKey(e.key) /\ Index(LayoutOf(env, e.o), KeyOf(e.key.v)) # 0 ->
           LET layout == LayoutOf(env, e.o)
           IN Assign(ValueName(layout, Index(layout, KeyOf(e.key.v))), Transform(pass, env, e.e))
      [] e.k = "equal" -> TransformEquality(env, e)
      [] e.k = "typeof" -> Literal(String("object"))
      [] e.k = "not" -> Literal(False)
      [] e.k = "void" -> Literal(Undefined)
      [] OTHER -> Escaped

Transform(pass, env, e) ==
    LET Aggregate(d) == LayoutOf(env, d) # NotAggregate
        T(d) == Transform(pass, env, d)
        AtRoot ==
          \/ Aggregate(e)
          \/ e.k = "site" /\ \E i \in DOMAIN e.args : Aggregate(Variable(e.args[i]))
          \/ e.k = "assign" /\ Aggregate(Variable(e.x))
          \/ e.k \in {"member", "store"} /\ Aggregate(e.o)
          \/ e.k = "in" /\ Aggregate(e.right)
          \/ e.k = "equal" /\ (Aggregate(e.left) \/ Aggregate(e.right))
          \/ e.k \in {"typeof", "not", "void", "delete"} /\ Aggregate(e.e)
    IN IF AtRoot THEN TransformRoot(pass, env, e)
       ELSE CASE e.k = "conditional" /\ Aggregate(e.test) -> [Rebuilt(e, T) EXCEPT !.test = Literal(True)]
              [] e.k \in {"object", "array"} -> [e EXCEPT !.items = TransformItems(pass, env, @)]
              [] e.k = "call" -> Invoke(T(e.callee), TransformArguments(pass, env, e.items))
              [] e.k = "function" -> FunctionExpression(TransformFunction(pass, env, e.f))
              [] OTHER -> Rebuilt(e, T)

(* materialize_object, materialize_array: the declarations of the fields   *)
(* and the layout they make.                                               *)
EmitField(made, field, value) ==
    LET old == Index(made.layout, field.key)
        new == Len(made.layout.fields) + 1
    IN IF made.layout.kind = "object" /\ old # 0
       THEN [made EXCEPT !.statements = Append(@, Expr(Assign(ValueName(made.layout, old), value)))]
       ELSE [layout |-> [made.layout EXCEPT !.fields = Append(@, field)],
             statements |-> Append(made.statements, Let(ValueName(made.layout, new), value))]
EmitElement(made, present, value) ==
    EmitField(made, Field(ToString(Len(made.layout.fields)), present), value)
EmitCopies(made, source) ==
    FoldLeft(LAMBDA r, i :
               IF r.layout.kind = "array" THEN EmitElement(r, TRUE, Variable(ValueName(source, i)))
               ELSE IF source.fields[i].present
                    THEN EmitField(r, source.fields[i], Variable(ValueName(source, i)))
               ELSE r,
             made, [i \in DOMAIN source.fields |-> i])
Materialize(pass, env, id, literal) ==
    LET Emit(made, item) ==
          CASE item.i = "property" ->
                 EmitField(made, Field(KeyOf(item.key.v), TRUE), Transform(pass, env, item.e))
            [] item.i = "element" -> EmitElement(made, TRUE, Transform(pass, env, item.e))
            [] item.i = "hole" -> EmitElement(made, FALSE, Literal(Undefined))
            [] item.i = "spread" -> EmitCopies(made, LayoutOf(env, item.e))
    IN FoldLeft(Emit, [layout |-> Layout(id, literal.k, <<>>), statements |-> <<>>], literal.items)

(* transform_declarations: what follows a declaration, and what the name   *)
(* stands for then.                                                        *)
SafeDeclaration(pass, s) ==
    IF Declaration(pass.registry, s) \in pass.safe THEN Declaration(pass.registry, s) ELSE 0
TransformDeclaration(pass, env, s) ==
    LET id == SafeDeclaration(pass, s)
        made == Materialize(pass, env, id, s.e)
    IN IF id # 0 THEN [env |-> (s.x :> made.layout) @@ env, statements |-> made.statements]
       ELSE IF LayoutOf(env, s.e) # NotAggregate
            THEN [env |-> (s.x :> LayoutOf(env, s.e)) @@ env, statements |-> <<>>]
       ELSE [env |-> Hide(env, {s.x}), statements |-> <<[s EXCEPT !.e = Transform(pass, env, @)]>>]

AsSingle(ss) == IF Len(ss) = 1 THEN ss[1] ELSE Block(ss)

TransformStatement(pass, env, s) ==
    LET T(e) == Transform(pass, env, e)
        Inner(names, t) == AsSingle(TransformStatements(pass, Hide(env, names), <<t>>))
    IN CASE s.k = "function" ->
              FunctionDeclaration(TransformFunction(pass, Hide(env, {s.f.name}), s.f))
         [] s.k = "block" -> Block(TransformStatements(pass, env, s.ss))
         [] s.k = "if" -> If(TransformCondition(pass, env, s.e), Inner({}, s.yes), Inner({}, s.no))
         [] s.k \in {"while", "dowhile"} ->
              [s EXCEPT !.e = TransformCondition(pass, env, @), !.body = Inner({}, @)]
         [] s.k = "for" ->
              LET names == IF s.init.k = "let" THEN {s.init.x} ELSE {}
                  own == Hide(env, names)
              IN For(IF "e" \in DOMAIN s.init THEN [s.init EXCEPT !.e = T(@)] ELSE s.init,
                     TransformCondition(pass, own, s.e), Transform(pass, own, s.update), Inner(names, s.body))
         [] s.k \in {"forin", "forof"} -> [s EXCEPT !.e = T(@), !.body = Inner({s.x}, @)]
         [] s.k = "labeled" -> Labeled(s.l, Inner({}, s.body))
         [] s.k = "switch" ->
              LET Before(i) == FlattenSeq([j \in 1 .. i - 1 |-> s.cases[j].ss])
                  EnvAt(i) == FoldLeft(LAMBDA own, t : IF t.k = "let" THEN TransformDeclaration(pass, own, t).env
                                                       ELSE IF t.k = "function" THEN Hide(own, {t.f.name})
                                                       ELSE own, env, Before(i))
              IN Switch(T(s.e), [i \in DOMAIN s.cases |->
                                   Case(Transform(pass, EnvAt(i), s.cases[i].e),
                                        TransformStatements(pass, EnvAt(i), s.cases[i].ss))])
         [] s.k = "try" -> Try(Inner({}, s.block), s.x, Inner({s.x}, s.handler), Inner({}, s.final))
         [] s.k \in {"expr", "return", "throw"} -> [s EXCEPT !.e = T(@)]
         [] OTHER -> s

TransformStatements(pass, env, ss) ==
    LET Step(r, s) ==
          IF s.k \in {"let", "var"}
          THEN LET d == TransformDeclaration(pass, r.env, s)
               IN [env |-> d.env, statements |-> r.statements \o d.statements]
          ELSE [env |-> IF s.k = "function" THEN Hide(r.env, {s.f.name}) ELSE r.env,
                statements |-> Append(r.statements, TransformStatement(pass, r.env, s))]
    IN FoldLeft(Step, [env |-> env, statements |-> <<>>], ss).statements

-----------------------------------------------------------------------------
Registry(ss) == Discover(Block(ss))
AllNeeds(ss) ==
    LET registry == Registry(ss)
    IN ScanStatements(registry, Unbound, ss)
       \union {Needs(i, Outside) : i \in {j \in DOMAIN registry : ~BaseEligible(registry[j].e)}}
Scalarize(ss) ==
    LET safe == Finish(Registry(ss), AllNeeds(ss))
    IN IF safe = {} THEN ss
       ELSE TransformStatements([registry |-> Registry(ss), safe |-> safe], NoLayouts, ss)
GivenUp(ss) == Escaped \in AllExpressions(Block(ss))
=============================================================================
