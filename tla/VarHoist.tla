------------------------------- MODULE VarHoist -------------------------------
(***************************************************************************)
(* var_hoist.rs: the first pass over the tree.  The names var declares in  *)
(* a function become variables of its outermost scope, set to undefined;   *)
(* each var becomes the assignment of its initializer.                     *)
(*                                                                         *)
(* Functions are reached through their declarations only: the body of a    *)
(* function expression keeps its vars.  The variable that stands for a var *)
(* in the head of a for-in or for-of is named after it, not by a counter:  *)
(* it is read once, before anything in the body could hide it.             *)
(***************************************************************************)
EXTENDS Statements

RECURSIVE CollectVarNames(_), NormalizeFunctionScope(_, _), RewriteStatement(_)

CollectVarNames(ss) ==
    LET Names(s) ==
          CASE s.k = "var" -> {s.x}
            [] s.k = "block" -> CollectVarNames(s.ss)
            [] s.k = "if" -> CollectVarNames(<<s.yes, s.no>>)
            [] s.k \in {"while", "dowhile", "labeled"} -> CollectVarNames(<<s.body>>)
            [] s.k = "for" -> CollectVarNames(<<s.init, s.body>>)
            [] s.k \in {"forin", "forof"} ->
                 CollectVarNames(<<s.body>>) \union IF s.kind = "var" THEN {s.x} ELSE {}
            [] s.k = "switch" -> UNION {CollectVarNames(s.cases[i].ss) : i \in DOMAIN s.cases}
            [] s.k = "try" -> CollectVarNames(<<s.block, s.handler, s.final>>)
            [] OTHER -> {}
    IN UNION {Names(ss[i]) : i \in DOMAIN ss}

FunctionDeclarationNames(ss) == {ss[i].f.name : i \in {j \in DOMAIN ss : ss[j].k = "function"}}
LexicalNames(ss) == {ss[i].x : i \in {j \in DOMAIN ss : ss[j].k = "let"}}

(* The pass gives the program up.                                          *)
RECURSIVE Conflicts(_)
Conflicts(ss) ==
    \/ CollectVarNames(ss) \cap LexicalNames(ss) # {}
    \/ LET RECURSIVE Within(_)
           Within(s) == \/ s.k = "function" /\ Conflicts(s.f.body)
                        \/ \E t \in Substatements(s) : Within(t)
       IN \E i \in DOMAIN ss : Within(ss[i])

Pack(ss) == IF Len(ss) = 1 THEN ss[1] ELSE Block(ss)
RewriteAll(ss) == FlattenSeq([i \in DOMAIN ss |-> RewriteStatement(ss[i])])
RewriteOne(s) == IF s = NoStatement THEN s ELSE Pack(RewriteStatement(s))

(* Defect: a parameter that is declared again is not kept.                 *)
NormalizeFunctionAnew(f) == [f EXCEPT !.body = NormalizeFunctionScope(@, FunctionDeclarationNames(@))]
NormalizeFunction(f) ==
    [f EXCEPT !.body = NormalizeFunctionScope(@, ToSet(f.params) \union {f.name}
                                                 \union FunctionDeclarationNames(@))]

(* The assignment happens where the declaration was.                       *)
AssignmentOf(s) == IF s.e = NoExpression THEN <<>> ELSE <<Expr(Assign(s.x, s.e))>>

RewriteVarForEach(s) ==
    LET temporary == "@var.iter." \o s.x
    IN ForEach(s.k, "let", temporary, s.e,
               Block(<<Expr(Assign(s.x, Variable(temporary)))>> \o RewriteStatement(s.body)))

RewriteStatement(s) ==
    CASE s.k = "var" -> AssignmentOf(s)
      [] s.k = "block" -> <<Block(RewriteAll(s.ss))>>
      [] s.k = "if" -> <<If(s.e, RewriteOne(s.yes), RewriteOne(s.no))>>
      [] s.k = "for" /\ s.init.k = "var" ->
           <<Block(Append(AssignmentOf(s.init), For(Nothing, s.e, s.update, RewriteOne(s.body))))>>
      [] s.k \in {"while", "dowhile", "labeled"} \/ (s.k = "for" /\ s.init.k # "var") ->
           <<[s EXCEPT !.body = RewriteOne(@)]>>
      [] s.k \in {"forin", "forof"} ->
           <<IF s.kind = "var" THEN RewriteVarForEach(s) ELSE [s EXCEPT !.body = RewriteOne(@)]>>
      [] s.k = "switch" ->
           <<[s EXCEPT !.cases = [i \in DOMAIN @ |-> [@[i] EXCEPT !.ss = RewriteAll(@)]]]>>
      [] s.k = "try" ->
           <<[s EXCEPT !.block = RewriteOne(@), !.handler = RewriteOne(@), !.final = RewriteOne(@)]>>
      [] s.k = "function" -> <<FunctionDeclaration(NormalizeFunction(s.f))>>
      [] OTHER -> <<s>>

NormalizeFunctionScope(ss, existing) ==
    LET names == SetToSeq(CollectVarNames(ss) \ existing)
    IN [i \in DOMAIN names |-> Let(names[i], Literal(Undefined))] \o RewriteAll(ss)

NormalizeVarHoisting(ss) == NormalizeFunctionScope(ss, FunctionDeclarationNames(ss))
=============================================================================
