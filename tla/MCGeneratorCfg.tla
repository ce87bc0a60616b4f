---------------------------- MODULE MCGeneratorCfg ----------------------------
(* Bodies for GeneratorCfg.  Sites below 10 are asked for a truth value.   *)
EXTENDS GeneratorCfg

MCQuestions == 0 .. 9
Question(n) == Site(n, <<>>)
Do(n) == Expr(Site(n, <<>>))
Show(n, x) == Expr(Site(n, <<x>>))
One == Literal(Number("1"))
Two == Literal(Number("2"))
Pause == Expr(Yield(Two))
Receive(x) == Let(x, Yield(One))

(* How a part of a try may end, in a loop labeled a.                       *)
Exits == {Nothing, Return(One), Return(Yield(One)), Throw(Two), Break("a"), Break(NoName), Continue(NoName)}

FinalExits == {Nothing, Return(One), Throw(Two), Break(NoName)}

InLoop(s) == <<Labeled("a", While(Question(1), s)), Do(14)>>

(* A yield in each part of a try, which may end in any way.                *)
OneTry(i, j, k) ==
    InLoop(Try(Block(<<Receive("x"), Show(11, "x"), i>>), "e", Block(<<Show(12, "e"), j>>),
               Block(<<Pause, k>>)))

(* A try within a try: finalizers on the way out, handlers on the way up.  *)
Nested(i, j, k) ==
    InLoop(Try(Block(<<Try(Block(<<Pause, i>>), NoName, NoStatement, Block(<<Do(12), j>>))>>),
               "e", Block(<<Show(13, "e"), k>>), Block(<<Pause>>)))

(* The other loops and a switch.                                           *)
Others(i) ==
    { <<Let("y", NoExpression), DoWhile(Block(<<Expr(Assign("y", Yield(Two))), i, Show(11, "y")>>), Question(2))>>,
      <<For(Let("y", One), Question(1), Assign("y", Two), Block(<<Pause, i, Show(11, "y")>>)), Pause>>,
      <<While(Question(1), Block(<<
          Switch(Site(2, <<>>), <<Case(Literal(True), <<Pause>>), Case(NoExpression, <<Do(11), i>>),
                                  Case(Site(3, <<>>), <<Receive("y"), Show(12, "y")>>)>>)>>))>>,
      <<If(Question(1), Pause, Try(Block(<<Receive("y"), Throw(Variable("y"))>>), NoName, Pause, NoStatement))>> }

AllPrograms ==
    {OneTry(i, j, k) : i, j \in Exits, k \in FinalExits}
    \union {Nested(i, j, k) : i \in Exits, j, k \in FinalExits \union {Return(Yield(One))}}
    \union UNION {Others(i) : i \in {Nothing, Continue(NoName), Break(NoName), Return(One)}}
=============================================================================
