-------------------------- MODULE MCNativeControlFlow --------------------------
(* Bodies for NativeControlFlow.  Sites below 10 are asked for a truth     *)
(* value.                                                                  *)
EXTENDS NativeControlFlow

MCQuestions == 0 .. 9
Question(n) == Site(n, <<>>)
Do(n) == Expr(Site(n, <<>>))
Show(n, x) == Expr(Site(n, <<x>>))
When(n, s) == If(Question(n), s, Nothing)
One == Literal(Number("1"))
Word == Literal(String("s"))
Two == Literal(Number("2"))

(* How a part of a try may end, in a loop labeled a.                       *)
Exits == {Nothing, Return(One), Throw(Two), Break("a"), Continue("a"), Continue(NoName)}

(* One try in a labeled loop; each of its parts may end in any way.        *)
OneTry(i, j, k) ==
    <<Labeled("a", While(Question(1),
        Try(Block(<<When(2, i), Do(11)>>), "e", Block(<<Show(12, "e"), j>>),
            Block(<<Do(13), When(3, k)>>)))), Do(14)>>

(* A try with a finalizer within one with a handler, in a switch in a loop. *)
Nested(i, j, k) ==
    <<Labeled("a", DoWhile(Block(<<Switch(Question(1), <<
        Case(Literal(True), <<
          Try(Block(<<Try(Block(<<When(2, i), Do(11)>>), NoName, NoStatement, Block(<<Do(12), j>>)), Do(13)>>),
              "e", Block(<<Show(14, "e"), k>>), NoStatement), Break(NoName)>>),
        Case(NoExpression, <<Do(15)>>)>>), Do(16)>>), Question(3))), Return(Two)>>

(* A loop within a try: labels and loops that stay inside it.              *)
Inner(loop(_), i, j) ==
    <<Labeled("a", For(Let("y", One), Question(1), Site(11, <<"y">>), Block(<<
        Try(Block(<<loop(Block(<<When(3, i), Do(12)>>)), Do(13)>>), NoName, NoStatement,
            Block(<<Do(14)>>)), When(4, j)>>))), Do(15)>>
WhileIn(s) == While(Question(2), s)
DoIn(s) == DoWhile(s, Question(2))
LabeledIn(s) == Labeled("b", s)
SwitchIn(s) == Switch(Question(2), <<Case(Literal(False), <<Do(16)>>), Case(Literal(True), <<s>>)>>)

(* A handler that throws again, into the handler around it.                *)
Rethrow(i, j) ==
    <<Try(Block(<<
        Try(Block(<<When(1, i), Throw(One)>>), "e", Block(<<Show(11, "e"), When(2, j), Throw(Variable("e"))>>),
            Block(<<Do(12)>>))>>),
        "f", Block(<<Show(13, "f")>>), Block(<<Do(14)>>)), Do(15)>>

JumpPrograms ==
    {OneTry(i, j, k) : i, j, k \in Exits}
    \union {Nested(i, j, k) : i \in Exits, j \in Exits, k \in Exits}
    \union UNION {{Inner(WhileIn, i, j), Inner(DoIn, i, j)} :
                    i \in Exits \union {Break(NoName)}, j \in Exits \union {Break(NoName)}}
    \union {Inner(LabeledIn, i, j) : i \in Exits \union {Break("b")}, j \in Exits}
    \union {Inner(SwitchIn, i, j) : i \in Exits \union {Break(NoName)}, j \in Exits}
    \union {Rethrow(i, j) : i, j \in {Nothing, Return(One), Throw(Two)}}

(* What may happen to a variable x that holds a number, nested once.      *)
Values == {One, Word, Site(11, <<"x">>)}
Set(e) == Expr(Assign("x", e))
Wraps(s, e, n) ==
    {s, When(n, s), If(Question(n), Show(12, "x"), s), While(Question(n), Block(<<Show(13, "x"), s>>)),
     DoWhile(s, Question(n)), For(Let("y", One), Question(n), Assign("x", e), Show(14, "x")),
     Switch(Question(n), <<Case(Literal(True), <<s>>), Case(NoExpression, <<Show(15, "x")>>)>>),
     Switch(Conditional(Question(n), One, Two),
            <<Case(One, <<s>>), Case(NoExpression, <<Show(15, "x"), Set(One)>>), Case(Two, <<Set(Two)>>)>>),
     If(StrictEqual(Variable("x"), One), s, If(StrictEqual(Variable("x"), e), Show(14, "x"), s)),
     Expr(And(Question(n), Assign("x", e))), Expr(Or(Question(n), Assign("x", e))),
     Set(Conditional(Question(n), e, Two))}

ValuePrograms ==
    UNION {UNION {{<<Let("x", One), w, Show(16, "x")>> : w \in Wraps(Block(<<Set(d), v>>), d, 1)} :
                    v \in Wraps(Set(e), e, 2)} : d, e \in Values}

(* A variable carried around and out of two loops.                        *)
Around(i, j) ==
    <<Let("x", One), Labeled("a", For(Let("y", One), Question(1), Assign("x", Two), Block(<<
        Labeled("b", DoWhile(Block(<<Set(Conditional(Question(5), One, Two)), When(3, i), Show(12, "x")>>),
                             Question(2))),
        Set(One), When(4, j)>>))), Show(16, "x")>>
LoopPrograms ==
    {Around(i, j) : i \in Exits \union {Break(NoName), Break("b"), Continue("b")},
                    j \in Exits \union {Break(NoName)}}

(* A name that var declares, somewhere in a function that may have it as   *)
(* a parameter, or as the name of a function in it.                        *)
Key(k) == Literal(String(k))
Pair == ObjectLiteral(<<Property(Key("a"), One), Property(Key("b"), Two)>>)
List == ArrayLiteral(<<Element(One), HoleElement, Element(Word)>>)
VarPlaces ==
    LET declared == {Var("x", Two), Var("x", NoExpression)}
    IN declared \union UNION {
        {Block(<<v>>), When(1, v), While(Question(1), Block(<<Show(13, "x"), v>>)), DoWhile(v, Question(1)),
         Switch(Question(1), <<Case(Literal(True), <<v>>), Case(NoExpression, <<Show(13, "x")>>)>>),
         Try(Block(<<When(1, Throw(One)), v>>), "e", v, Show(13, "x")),
         For(v, Question(1), Site(14, <<"x">>), Show(13, "x")),
         For(v, Question(1), Assign("x", Site(14, <<>>)), Block(<<When(2, Break(NoName)), v>>))} : v \in declared}
      \union {ForIn("var", "x", Pair, Show(13, "x")), ForOf("var", "x", List, Show(13, "x")),
              ForIn("let", "x", Pair, Show(13, "x")), ForOf("let", "y", List, Block(<<Var("x", Variable("y"))>>))}
Reader == FunctionDeclaration(Function("g", <<>>, <<Return(Variable("x"))>>))
VarBody(s, also) == <<Show(11, "x"), s>> \o also \o <<Let("t", Invoke(Variable("g"), <<>>)), Show(15, "t"), Reader>>
CallOf(f, args) == Expr(Invoke(Variable(f), args))
VarPrograms ==
    UNION {{VarBody(s, also),
            <<CallOf("f", <<Element(One)>>), FunctionDeclaration(Function("f", <<>>, VarBody(s, also)))>>,
            <<CallOf("f", <<Element(One)>>), FunctionDeclaration(Function("f", <<"x">>, VarBody(s, also)))>>} :
              s \in VarPlaces,
              also \in {<<>>, <<Var("x", One)>>, <<FunctionDeclaration(Function("x", <<>>, <<>>))>>}}
    \ {VarBody(s, <<>>) : s \in {ForIn("let", "x", Pair, Show(13, "x"))}}

(* What may be done with an aggregate o, declared with a literal; p and q  *)
(* are other names.                                                        *)
Tells(n, e) == Block(<<Let("t", e), Show(n, "t")>>)
At(x, k) == Member(Variable(x), Key(k))
SetsField(x, k, e) == Expr(Store(Variable(x), Key(k), e))
Copy(e) == ObjectLiteral(<<Property(Key("y"), One), Spread(e), Property(Key("a"), Word)>>)
Getter(x, k) == FunctionExpression(Function(NoName, <<>>, <<Return(At(x, k))>>))
Same(x, e) == StrictEqual(Variable(x), e)
Reads(k) ==
    {At("o", k), Member(Variable("o"), Site(14, <<>>)), HasKey(Key(k), Variable("o")),
     Unary("typeof", Variable("o")), Unary("delete", At("o", k)), Same("o", Literal(Null)), Same("o", One),
     Conditional(Variable("o"), At("o", k), Two), And(Variable("o"), At("o", k))}
WaysToUse(k, p, q) ==
    {Tells(11, e) : e \in Reads(k)} \union
    {SetsField("o", k, Site(12, <<>>)), SetsField("o", "length", One), If(Unary("not", Variable("o")), Do(13), Do(14)),
     Show(11, "o"), Expr(Assign("o", One)),
     Block(<<Let(p, Variable("o")), SetsField(p, k, Two), Tells(11, Same(p, Variable("o")))>>),
     Block(<<Let(p, Copy(Variable("o"))), SetsField(p, "a", Two), Tells(11, At(p, "a")), When(1, Tells(12, At(p, k)))>>),
     Block(<<Let(p, Copy(Variable("o"))), Show(11, p), Tells(12, At(p, "a"))>>),
     Block(<<Let(p, Getter("o", k)), SetsField("o", k, Two), Tells(11, Invoke(Variable(p), <<>>))>>),
     Block(<<Let("o", ObjectLiteral(<<Property(Key(p), One)>>)), Tells(11, At("o", p))>>),
     While(Question(1), Block(<<Let(p, ObjectLiteral(<<Property(Key("x"), At("o", k))>>)), SetsField(p, "x", Word),
                                SetsField("o", k, At(p, "x")), Tells(11, At(p, "x"))>>)),
     Block(<<Let(p, ArrayLiteral(<<Element(Two), HoleElement>>)), Let(q, Variable(p)), SetsField(q, "0", Word),
             SetsField(p, "1", Site(14, <<>>)), Tells(11, At(p, "0")), Tells(12, HasKey(Key("1"), Variable(q)))>>)}
ArrayCopy(p) ==
    Block(<<Let(p, ArrayLiteral(<<HoleElement, Element(Two), Spread(Variable("o"))>>)), Tells(11, At(p, "length")),
            Tells(12, HasKey(Key("0"), Variable(p))), Tells(12, At(p, "length"))>>)
TakesTwo == FunctionDeclaration(Function("f", <<"p", "q">>, <<Show(15, "p"), Show(15, "q"), Return(Variable("q"))>>))
AggregatePrograms ==
    LET Ways(k, p, q) == WaysToUse(k, p, q) \union IF k = "a" THEN {} ELSE {ArrayCopy(p)}
        Calls(k) == {CallOf("f", <<Element(Word), Spread(Variable("o"))>>), CallOf("f", <<Element(At("o", k))>>),
                     SetsField("o", k, Two), Show(12, "o")}
        With(literal, k) ==
          {<<Let("o", literal), u, v, Tells(16, At("o", k))>> : u \in Ways(k, "a", "b"), v \in Ways(k, "c", "x")}
          \union {<<TakesTwo, Let("o", literal), FunctionDeclaration(Function("g", <<>>, <<u>>)), v, CallOf("g", <<>>)>> :
                    u \in Ways(k, "a", "b") \union Calls(k), v \in Calls(k)}
    IN With(Pair, "a") \union With(List, "1") \union With(List, "2")

(* Jumps between assignments that change the type of x.                    *)
Between(jump, d, e) == Block(<<Set(d), When(2, jump), Set(e), Show(13, "x")>>)
Left(s) ==
    {While(Question(1), s), DoWhile(s, Question(1)),
     DoWhile(s, Conditional(StrictEqual(Variable("x"), One), Question(1), Question(3))),
     For(Let("y", One), Question(1), Site(14, <<"x">>), s), For(Let("y", One), Question(1), NoExpression, s),
     For(Let("y", One), StrictEqual(Site(14, <<"x">>), Two), Assign("x", Two), s)}
Tests == If(StrictEqual(Variable("x"), One), Do(17), If(StrictEqual(Variable("x"), Word), Do(18), Show(16, "x")))
JumpValuePrograms ==
    UNION {
      {<<Let("x", One), Labeled("b", s), Tests>> :
         s \in UNION {Left(Between(j, d, e)) : j \in {Break(NoName), Break("b"), Continue(NoName)}}}
      \union {<<Let("x", One), Labeled("b", Between(Break("b"), d, e)), Tests>>,
              <<Let("x", One), Labeled("b", Switch(Question(1),
                   <<Case(Literal(True), <<Between(Break("b"), d, e)>>), Case(NoExpression, <<Tests>>)>>)), Tests>>,
              <<Let("x", One), Switch(Question(1),
                   <<Case(Literal(True), <<Between(Break(NoName), d, e)>>), Case(NoExpression, <<Tests>>)>>), Tests>>,
              <<Let("x", One), Try(Between(Throw(Two), d, e), "e", Block(<<Tests>>), NoStatement), Tests>>,
              <<Let("x", One), Try(Between(Return(Two), d, e), NoName, NoStatement, Block(<<Tests>>)), Tests>>} :
        d, e \in Values}

(* Two variables, one written with the value of the other.                 *)
Passed(d, e) == Block(<<Expr(Assign("z", d)), When(2, Set(e))>>)
WithTwo(s) == <<Let("x", One), Let("z", One), s, Tests>>
ThroughSwitch(d, e) ==
    WithTwo(Switch(Question(1), <<Case(Literal(True), <<Passed(d, e)>>),
                                  Case(NoExpression, <<Set(e), Show(12, "x")>>)>>))
ChainPrograms ==
    UNION {
      {ThroughSwitch(d, e)} \union
      {WithTwo(s) : s \in Left(Block(<<Passed(d, e), Show(12, "x")>>))
                           \union Left(Block(<<When(2, Set(e)), Expr(Assign("z", d))>>))} :
        d \in Values, e \in {Variable("z"), Two}}

(* A plain break in a try in a loop.                                       *)
BreakPrograms == {OneTry(Break(NoName), j, Nothing) : j \in Exits}

AllPrograms == JumpPrograms \union ValuePrograms \union LoopPrograms
               \union VarPrograms \union AggregatePrograms
               \union JumpValuePrograms \union ChainPrograms
=============================================================================
