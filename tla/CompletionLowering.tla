-------------------------- MODULE CompletionLowering --------------------------
(***************************************************************************)
(* completion_native.rs: try, catch and finally are erased from the tree   *)
(* before any control-flow graph is built.  A throw statement that a catch *)
(* clause sees becomes a copy of the clause's body and a break out of the  *)
(* labeled region the try became; a finalizer is copied before every       *)
(* statement that leaves the try and once behind its normal end.           *)
(*                                                                         *)
(* Only throw statements throw here: the calls that may are inlined by an  *)
(* earlier pass.  A fresh name is numbered by the nesting height of its    *)
(* try instead of a counter, which keeps it apart from those of the tries  *)
(* around and within it; its two uses in one try do not overlap.           *)
(***************************************************************************)
EXTENDS Statements

(* What a statement holds, rewritten by F.  A function declaration is left *)
(* as it is: its completions are its own.                                  *)
Within(s, F(_)) ==
    CASE s.k = "block" -> [s EXCEPT !.ss = [i \in DOMAIN @ |-> F(@[i])]]
      [] s.k = "if" -> [s EXCEPT !.yes = F(@), !.no = F(@)]
      [] s.k \in {"while", "dowhile", "for", "forin", "forof", "labeled"} -> [s EXCEPT !.body = F(@)]
      [] s.k = "switch" ->
           [s EXCEPT !.cases = [i \in DOMAIN @ |->
                                  Case(@[i].e, [j \in DOMAIN @[i].ss |-> F(@[i].ss[j])])]]
      [] OTHER -> s

RECURSIVE Height(_)
Height(s) == Max({Height(t) : t \in Substatements(s)} \union {0}) + IF s.k = "try" THEN 1 ELSE 0

Fresh(hint, height) == "@" \o hint \o ToString(height)

-----------------------------------------------------------------------------
(* replace_caught_throws.                                                  *)
RECURSIVE ReplaceCaughtThrows(_, _, _, _)
ReplaceCaughtThrows(s, x, handler, h) ==
    IF s.k = "throw"
    THEN LET thrown == Fresh("throw", h)
             caught == IF handler.k = "block" THEN handler.ss ELSE <<handler>>
             bound == IF x = NoName THEN <<>> ELSE <<Let(x, Variable(thrown))>>
         IN Block(<<Let(thrown, s.e), Block(bound \o caught), Break(Fresh("try_exit", h))>>)
    ELSE Within(s, LAMBDA t : ReplaceCaughtThrows(t, x, handler, h))

(* What surrounds a statement inside the try: a jump to it stays inside.   *)
NoControls == [breakable |-> 0, continuable |-> 0, labels |-> {}]
Enter(scope, s) ==
    CASE s.k \in {"while", "dowhile", "for", "forin", "forof"} ->
           [scope EXCEPT !.breakable = @ + 1, !.continuable = @ + 1]
      [] s.k = "switch" -> [scope EXCEPT !.breakable = @ + 1]
      [] s.k = "labeled" -> [scope EXCEPT !.labels = @ \union {s.l}]
      [] OTHER -> scope

(* Defect: does not see that a switch takes a break.                       *)
BreakExitsScopeOfLoops(l, scope) ==
    IF l = NoName THEN scope.continuable = 0 ELSE l \notin scope.labels
BreakExitsScope(l, scope) == IF l = NoName THEN scope.breakable = 0 ELSE l \notin scope.labels
ContinueExitsScope(l, scope) ==
    IF l = NoName THEN scope.continuable = 0 ELSE l \notin scope.labels

(* instrument_finally.  A returned or thrown value is computed before the  *)
(* finalizer runs.                                                         *)
RECURSIVE InstrumentFinally(_, _, _, _)
InstrumentFinally(s, final, scope, h) ==
    LET saved == Fresh(s.k, h)
    IN CASE s.k = "return" /\ s.e = NoExpression -> Block(<<final, s>>)
         [] s.k = "return" /\ s.e # NoExpression ->
              Block(<<Let(saved, s.e), final, Return(Variable(saved))>>)
         [] s.k = "throw" -> Block(<<Let(saved, s.e), final, Throw(Variable(saved))>>)
         [] s.k = "break" -> IF BreakExitsScope(s.l, scope) THEN Block(<<final, s>>) ELSE s
         [] s.k = "continue" -> IF ContinueExitsScope(s.l, scope) THEN Block(<<final, s>>) ELSE s
         [] OTHER -> Within(s, LAMBDA t : InstrumentFinally(t, final, Enter(scope, s), h))

AppendOnNormal(s, final) ==
    IF s.k = "block" THEN Block(Append(s.ss, final)) ELSE Block(<<s, final>>)

(* lower_try, with its parts already lowered.                              *)
LowerTry(block, x, handler, final, h) ==
    LET caught == IF handler = NoStatement THEN block
                  ELSE ReplaceCaughtThrows(block, x, handler, h)
        body == IF final = NoStatement THEN caught
                ELSE AppendOnNormal(InstrumentFinally(caught, final, NoControls, h), final)
    IN Labeled(Fresh("try_exit", h), body)

(* The pass over a statement.                                              *)
RECURSIVE LowerCompletions(_)
LowerCompletions(s) ==
    LET Part(t) == IF t = NoStatement THEN t ELSE LowerCompletions(t)
    IN IF s.k = "try"
       THEN LowerTry(LowerCompletions(s.block), s.x, Part(s.handler), Part(s.final), Height(s))
       ELSE IF s.k = "function"
       THEN FunctionDeclaration([s.f EXCEPT !.body = [i \in DOMAIN @ |-> LowerCompletions(@[i])]])
       ELSE Within(s, LowerCompletions)
=============================================================================
