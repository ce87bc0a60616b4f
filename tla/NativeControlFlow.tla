--------------------------- MODULE NativeControlFlow ---------------------------
(***************************************************************************)
(* The native pipeline for the body of a function.  The frontend hoists    *)
(* var; analyze (analysis/src/lib.rs) erases try, replaces aggregates by   *)
(* variables and lowers what is left to blocks.  The blocks come from one  *)
(* of two lowerers; which one depends on how the rest of the program uses  *)
(* functions as values, so both are followed.  Then the world answers the  *)
(* calls the body makes, and all forms must be seen to make the same calls *)
(* with the same values and to end the same way.                           *)
(*                                                                         *)
(* Left out: the passes that inline calls and lower generators and classes *)
(* before try is erased.  Bodies with functions or objects in them are     *)
(* followed up to the trees only.                                          *)
(***************************************************************************)
EXTENDS CompletionLowering, CallableCfg

TypedPath == INSTANCE TypedCfg
Hoisting == INSTANCE VarHoist
Aggregates == INSTANCE AggregateScalar

CONSTANTS
    Programs,    \* bodies, each a sequence of statements
    Questions,   \* the sites that are asked for a truth value
    MaxAnswers   \* bound: answers given to one body

ASSUME BoundAssumption == MaxAnswers \in Nat
ASSUME QuestionsAssumption == Questions \subseteq Nat

VARIABLES
    source,    \* the body
    hoisted,   \* the body after var_hoist, when stage is past it
    tree,      \* the body after completion_native, when stage is past it
    scalar,    \* the body after aggregate_scalar, when stage is past it
    callable,  \* the blocks of the callable lowerer, when stage is past it
    typed,     \* the blocks of the typed lowerer, when stage is past it
    stage,     \* source, hoisted, erased, scalarized, compiled, running
    answers,   \* the completions of the calls made so far
    runs       \* what each form of the body is seen to do with them, once running

vars == <<source, hoisted, tree, scalar, callable, typed, stage, answers, runs>>

MaxSteps == 200   \* bound: blocks run in one execution; loops ask before they repeat

(* A function that reaches its end returns undefined.                      *)
AtEnd(r) == IF r.c.k = "normal" THEN Outcome(r.m, Returned(Undefined)) ELSE r

RunOf(ss, given, hoists) == Observed(AtEnd(Program(ss, given, hoists)))

(* The trees, each run anew only where its pass has changed something.     *)
Forms == <<source, hoisted, tree, IF Aggregates!GivenUp(scalar) THEN tree ELSE scalar>>
TreeRuns(given) ==
    FoldLeft(LAMBDA seen, i :
               Append(seen, IF Forms[i] = Forms[i - 1] THEN Last(seen) ELSE RunOf(Forms[i], given, FALSE)),
             <<RunOf(source, given, TRUE)>>, <<2, 3, 4>>)
BlocksRun(code, given) ==
    IF code.accepted THEN RunBlock(code.blocks, 1, Loaded(given, MaxSteps))
    ELSE Outcome(Loaded(given, MaxSteps), Waiting)
Runs(trees, callableRun, typedRun) ==
    [source |-> trees[1], hoisted |-> trees[2], erased |-> trees[3], scalarized |-> trees[4],
     callable |-> Observed(callableRun), misread |-> callableRun.m.misread, typed |-> Observed(typedRun)]
RunsOn(given) == Runs(TreeRuns(given), BlocksRun(callable, given), BlocksRun(typed, given))

Init ==
    /\ source \in Programs
    /\ hoisted = <<>>
    /\ tree = <<>>
    /\ scalar = <<>>
    /\ callable = NotCompiled
    /\ typed = NotCompiled
    /\ stage = "source"
    /\ answers = <<>>
    /\ runs = <<>>

(* normalize_var_hoisting.  A name declared by both let and var is an      *)
(* error, which ends the compilation.                                      *)
HoistVariables ==
    /\ stage = "source"
    /\ ~Hoisting!Conflicts(source)
    /\ stage' = "hoisted"
    /\ hoisted' = Hoisting!NormalizeVarHoisting(source)
    /\ UNCHANGED <<source, tree, scalar, callable, typed, answers, runs>>

(* completion_native::lower.                                               *)
EraseCompletions ==
    /\ stage = "hoisted"
    /\ stage' = "erased"
    /\ tree' = [i \in DOMAIN hoisted |-> LowerCompletions(hoisted[i])]
    /\ UNCHANGED <<source, hoisted, scalar, callable, typed, answers, runs>>

(* aggregate_scalar::scalarize.                                            *)
ReplaceAggregates ==
    /\ stage = "erased"
    /\ stage' = "scalarized"
    /\ scalar' = Aggregates!Scalarize(tree)
    /\ UNCHANGED <<source, hoisted, tree, callable, typed, answers, runs>>

(* What the models of the lowerers know.                                   *)
Known == {"none", "literal", "variable", "site", "assign", "conditional", "and", "or", "equal"}
RECURSIVE HasFunctions(_)
HasFunctions(s) == s.k \in {"function", "forin", "forof"} \/ \E t \in Substatements(s) : HasFunctions(t)
Finished(code) ==
    IF HasFunctions(Block(scalar)) \/ \E e \in AllExpressions(Block(scalar)) : e.k \notin Known
    THEN NotCompiled ELSE FinalizeNativeProgram(code)

(* callable_native::compile_function, or a specialization of the typed     *)
(* lowerer; both end in finalize_native_program.                           *)
Compile ==
    /\ stage = "scalarized"
    /\ stage' = "compiled"
    /\ callable' = IF Aggregates!GivenUp(scalar) THEN NotCompiled ELSE Finished(LowerFunction(scalar))
    /\ typed' = IF Aggregates!GivenUp(scalar) THEN NotCompiled ELSE Finished(TypedPath!LowerFunction(scalar))
    /\ UNCHANGED <<source, hoisted, tree, scalar, answers, runs>>

(* The body is called.                                                     *)
Start ==
    /\ stage = "compiled"
    /\ stage' = "running"
    /\ runs' = RunsOn(answers)
    /\ UNCHANGED <<source, hoisted, tree, scalar, callable, typed, answers>>

(* The call the body waits for returns.                                    *)
Answer ==
    /\ stage = "running"
    /\ Len(answers) < MaxAnswers
    /\ runs.source.ends = Waiting
    /\ \E v \in {True, False, Number("7")} :
          /\ v.type = "Bool" <=> Last(runs.source.seen).n \in Questions
          /\ answers' = Append(answers, Normal(v))
    /\ runs' = RunsOn(answers')
    /\ UNCHANGED <<source, hoisted, tree, scalar, callable, typed, stage>>

Next == HoistVariables \/ EraseCompletions \/ ReplaceAggregates \/ Compile \/ Start \/ Answer

Spec == Init /\ [][Next]_vars

-----------------------------------------------------------------------------
(* Where var_hoist changes what a body does.  A for with a var in its head *)
(* becomes a block, which its labels do not reach through; and the body of *)
(* a function expression keeps its vars, for which a block is a scope.     *)
RECURSIVE LosesLabel(_)
LosesLabel(s) ==
    \/ s.k = "labeled" /\ s.body.k = "for" /\ s.body.init.k = "var"
    \/ \E t \in Substatements(s) : LosesLabel(t)
KeepsVars(s) == \E e \in AllExpressions(s) : e.k = "function" /\ VarNames(Block(e.f.body)) # {}

(* Hoisting var to the start of its function changes nothing that can be   *)
(* observed: which variable a name is in nested blocks, loops, closures    *)
(* and parameters, and the value it has before its declaration.            *)
HoistAgrees ==
    stage = "running" =>
        \/ runs.hoisted = runs.source
        \/ LosesLabel(Block(source)) \/ KeepsVars(Block(source))

(* The names a statement declares anywhere, and those it mentions.         *)
RECURSIVE DeclaredWithin(_)
DeclaredWithin(s) ==
    (IF "x" \in DOMAIN s THEN {s.x} ELSE IF s.k = "function" THEN {s.f.name} ELSE {})
    \union UNION {DeclaredWithin(t) : t \in Substatements(s)}
Mentioned(s) ==
    UNION {IF e.k = "site" THEN ToSet(e.args) ELSE IF "x" \in DOMAIN e THEN {e.x} ELSE {} :
             e \in AllExpressions(s)}

(* A handler or finalizer that mentions a name its try declares: a copy of *)
(* it, put where the try is left, takes that variable for the one meant.   *)
RECURSIVE Captured(_)
Captured(s) ==
    \/ /\ s.k = "try"
       /\ \/ DeclaredWithin(s.block) \intersect ((Mentioned(s.handler) \ {s.x}) \union Mentioned(s.final)) # {}
          \/ ({s.x} \union DeclaredWithin(s.handler)) \intersect Mentioned(s.final) # {}
    \/ s.k = "function" /\ \E i \in DOMAIN s.f.body : Captured(s.f.body[i])
    \/ \E t \in Substatements(s) : Captured(t)

(* Erasing try, catch and finally changes nothing that can be observed:    *)
(* which finalizers run, in which order, with which value, and where       *)
(* control goes after them.                                                *)
TryErasureAgrees ==
    stage = "running" => runs.erased = runs.hoisted \/ Captured(Block(hoisted))

(* A function that comes before the declaration of a name it mentions: the *)
(* walks of aggregate_scalar take it for the variable the name was before. *)
MentionedByFunctions(s) == UNION {Mentioned(Expr(e)) : e \in {d \in AllExpressions(s) : d.k = "function"}}
                           \union IF s.k = "function" THEN Mentioned(s) ELSE {}
RECURSIVE MentionedAhead(_)
MentionedAhead(ss) ==
    \/ \E i, j \in DOMAIN ss :
         i < j /\ ss[j].k = "let" /\ ss[j].x \in MentionedByFunctions(ss[i])
    \/ \E i \in DOMAIN ss : \/ ss[i].k = "function" /\ MentionedAhead(ss[i].f.body)
                            \/ ss[i].k = "block" /\ MentionedAhead(ss[i].ss)

(* A copy of an aggregate that is replaced, in one that is not.            *)
CopiedToObject(ss) ==
    LET needs == Aggregates!AllNeeds(ss)
        safe == Aggregates!Finish(Aggregates!Registry(ss), needs)
    IN \E n \in needs : n.owner \notin safe /\ n.other \in safe

(* Variables in place of an object or array change nothing that can be     *)
(* observed: aliases, copies, identity, holes, captured objects and those  *)
(* made anew in each round of a loop; and no program is given up, except   *)
(* for a copy of a replaced aggregate into one that escapes.               *)
ScalarizedAgrees ==
    stage = "running" =>
        IF Aggregates!GivenUp(scalar) THEN CopiedToObject(tree) \/ MentionedAhead(tree)
        ELSE runs.scalarized = runs.erased \/ MentionedAhead(tree)

(* The blocks of the callable lowerer do what the tree says, as long as no *)
(* cell is read for a type it does not hold.                               *)
CompiledAgrees ==
    stage = "running" /\ callable.accepted => runs.misread \/ runs.callable = runs.scalarized

(* A logical operator whose right operand assigns.                         *)
OneSided(s) ==
    \E e \in AllExpressions(s) : e.k \in {"and", "or"} /\ TypedPath!AssignedIn(e.right) # {}

(* The blocks of the typed lowerer do what the tree says: the values     *)
(* joined where control flow meets, the tests decided while compiling and  *)
(* the variables carried around loops are those of the tree.  It does    *)
(* not hold where the right operand of && or || assigns, because           *)
(* lower_logical_cfg joins the value of the expression and no variables.   *)
TypedAgrees ==
    stage = "running" /\ typed.accepted =>
        runs.typed = runs.scalarized \/ OneSided(Block(scalar))

(* Behind a region or a loop's body the types are those of its normal end: *)
(* a break, or a continue to a test or update, may come with others.       *)
RECURSIVE AllStatements(_)
AllStatements(s) == {s} \union UNION {AllStatements(t) : t \in Substatements(s)}
Assignments(s) == {e \in AllExpressions(s) : e.k = "assign"}
JumpsOver(s, jump) == Assignments(s) # {} /\ \E t \in AllStatements(s) : t.k = jump
JumpsPastWrites(s) ==
    \E t \in AllStatements(s) :
       \/ t.k = "labeled" /\ t.body.k \notin Loops /\ JumpsOver(t.body, "break")
       \/ t.k = "dowhile" /\ JumpsOver(t.body, "continue")
       \/ t.k = "for" /\ t.update # NoExpression /\ JumpsOver(t.body, "continue")

(* The types a loop or switch writes are inferred once, from those at its  *)
(* entry: a value it takes from a variable it writes too may have another. *)
ChainsWrites(s) ==
    \E t \in AllStatements(s) :
       /\ t.k \in Loops \union {"switch"}
       /\ \E e, f \in Assignments(t) : e.x # f.x /\ f.x \in Mentioned(Expr(e.e))

(* Every path to a read has the cell hold what the read was emitted for:   *)
(* the code generator reads the payload without a check of the tag.        *)
OneRepresentation == stage = "running" => ~runs.misread

(* So it is where branches merge, on the ways back of loops, behind breaks *)
(* out of loops and switches and where cases fall through, except for the  *)
(* two kinds of bodies above, of which it is not true.                     *)
CellsHoldTheirTypes ==
    OneRepresentation \/ JumpsPastWrites(Block(scalar)) \/ ChainsWrites(Block(scalar))
=============================================================================
