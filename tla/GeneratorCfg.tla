------------------------------ MODULE GeneratorCfg ------------------------------
(***************************************************************************)
(* generator_cfg.rs: a generator function becomes a resumable machine, a   *)
(* frame object with a program counter over states, each a list of         *)
(* assignments and calls with a terminator and the state a throw goes to.  *)
(* next, return and throw set the frame up and run the machine until it    *)
(* yields or ends.                                                         *)
(*                                                                         *)
(* The reference is a generator of the language over the statements of     *)
(* module Statements: each request is answered with what the body yields,  *)
(* returns or throws.  The world makes requests and answers calls; both    *)
(* kinds are completions in answers.                                       *)
(*                                                                         *)
(* Slots of the frame are named by their variables, and the frame's own    *)
(* fields by @ names.  for-in and for-of, which may not yield, nested      *)
(* functions and the seeds of slots are left out; a second request while   *)
(* the body runs is not made.                                              *)
(***************************************************************************)
EXTENDS Statements

CONSTANTS
    Programs,    \* generator bodies
    Questions,   \* the sites that are asked for a truth value
    Throwing,    \* the sites that may throw
    MaxAnswers   \* bound: requests and answers together

ASSUME BoundAssumption == MaxAnswers \in Nat
ASSUME SitesAssumption == Questions \subseteq Nat /\ Throwing \subseteq Nat

Exception == "@exception"
ReturnSlot == "@return_value"
Out == "@out"
Input == "@input"

-----------------------------------------------------------------------------
(* Terminators.  State 0 is no state.                                      *)
Goto(to) == [k |-> "goto", to |-> to]
Branch(test, yes, no) == [k |-> "branch", test |-> test, yes |-> yes, no |-> no]
YieldTo(e, resume) == [k |-> "yield", e |-> e, resume |-> resume]
Resume(normal, flow, assign) ==
    [k |-> "resume", normal |-> normal, throws |-> flow.throw, returns |-> flow.return, assign |-> assign]
Stop == [k |-> "stop"]
Rethrow == [k |-> "rethrow"]

State(body, term, throwTarget) == [body |-> body, term |-> term, throwTarget |-> throwTarget]
Reserved == [term |-> [k |-> "reserved"]]

(* Where completions go: the targets of return and throw, and the          *)
(* enclosing statements a jump can name, innermost last.                   *)
Control(l, break, continue) == [label |-> l, break |-> break, continue |-> continue]
Inside(flow, control) == [flow EXCEPT !.controls = Append(@, control)]

(* 0 when there is none: then the machine is not built.                    *)
BreakTarget(flow, l) ==
    LET fitting == {i \in DOMAIN flow.controls : l = NoName \/ flow.controls[i].label = l}
    IN IF fitting = {} THEN 0 ELSE flow.controls[Max(fitting)].break
ContinueTarget(flow, l) ==
    LET fitting == {i \in DOMAIN flow.controls :
                      IF l = NoName THEN flow.controls[i].continue # 0
                      ELSE flow.controls[i].label = l}
    IN IF fitting = {} THEN 0 ELSE flow.controls[Max(fitting)].continue

(* A builder b holds the states so far, the temporary slots, and     *)
(* whether it gave up; compiling yields the entry state as well.           *)
Built(b, at) == [b |-> b, at |-> at]
Fill(b, at, state) == [b EXCEPT !.states[at] = state]
Reserve(b) == [b EXCEPT !.states = Append(@, Reserved)]
Push(b, state) == Built([b EXCEPT !.states = Append(@, state)], Len(b.states) + 1)
Temp(b, hint) == "@" \o hint \o ToString(Len(b.temps))
TakeTemp(b, hint) == [b EXCEPT !.temps = Append(@, Temp(b, hint))]
GivesUp(b) == Built([b EXCEPT !.bailed = TRUE], 1)

-----------------------------------------------------------------------------
CompileYield(b, e, assign, cont, flow) ==
    LET r == Push(b, State(<<>>, Resume(cont, flow, assign), flow.throw))
    IN Push(r.b, State(<<>>, YieldTo(e.e, r.at), flow.throw))

CompileExpression(b, e, cont, flow) ==
    IF e.k = "yield" THEN CompileYield(b, e, NoName, cont, flow)
    ELSE IF e.k = "assign" /\ e.e.k = "yield" THEN CompileYield(b, e.e, e.x, cont, flow)
    ELSE Push(b, State(<<e>>, Goto(cont), flow.throw))

(* A declaration without initializer compiles to nothing.                  *)
CompileDeclaration(b, s, cont, flow) ==
    IF s.e = NoExpression THEN Built(b, cont)
    ELSE IF s.e.k = "yield" THEN CompileYield(b, s.e, s.x, cont, flow)
    ELSE Push(b, State(<<Assign(s.x, s.e)>>, Goto(cont), flow.throw))

CompileReturn(b, s, flow) ==
    IF s.e.k = "yield"
    THEN LET temp == Temp(b, "return")
             finish == Push(TakeTemp(b, "return"), State(<<Assign(ReturnSlot, Variable(temp))>>,
                                               Goto(flow.return), flow.throw))
         IN CompileYield(finish.b, s.e, temp, finish.at, flow)
    ELSE Push(b, State(<<Assign(ReturnSlot, IF s.e = NoExpression THEN Literal(Undefined) ELSE s.e)>>,
                       Goto(flow.return), flow.throw))

CompileThrow(b, s, flow) ==
    Push(b, State(<<Assign(Exception, s.e)>>, Goto(flow.throw), flow.throw))

CompileJump(b, s, flow) ==
    LET to == IF s.k = "break" THEN BreakTarget(flow, s.l) ELSE ContinueTarget(flow, s.l)
    IN IF to = 0 THEN GivesUp(b) ELSE Push(b, State(<<>>, Goto(to), flow.throw))

RECURSIVE CompileStatement(_, _, _, _)

(* Back to front: each statement continues with the one behind it.         *)
CompileStatements(b, ss, cont, flow) ==
    FoldRight(LAMBDA s, built : CompileStatement(built.b, s, built.at, flow), ss, Built(b, cont))

CompileIf(b, s, cont, flow) ==
    LET yes == CompileStatement(b, s.yes, cont, flow)
        no == CompileStatement(yes.b, s.no, cont, flow)
    IN Push(no.b, State(<<>>, Branch(s.e, yes.at, no.at), flow.throw))

(* while and do-while: the test is where continue goes.                    *)
CompileLoop(b, s, cont, flow) ==
    LET test == Len(b.states) + 1
        body == CompileStatement(Reserve(b), s.body, test, Inside(flow, Control(NoName, cont, test)))
        filled == Fill(body.b, test, State(<<>>, Branch(s.e, body.at, cont), flow.throw))
    IN Built(filled, IF s.k = "while" THEN test ELSE body.at)

CompileFor(b, s, cont, flow) ==
    LET test == Len(b.states) + 1
        update == IF s.update = NoExpression THEN Built(Reserve(b), test)
                  ELSE Push(Reserve(b), State(<<s.update>>, Goto(test), flow.throw))
        body == CompileStatement(update.b, s.body, update.at,
                                 Inside(flow, Control(NoName, cont, update.at)))
        condition == IF s.e = NoExpression THEN Literal(True) ELSE s.e
        filled == Fill(body.b, test, State(<<>>, Branch(condition, body.at, cont), flow.throw))
    IN CompileStatement(filled, s.init, test, flow)

(* The bodies back to front, then the comparisons back to front.           *)
CompileSwitch(b, s, cont, flow) ==
    LET temp == Temp(b, "switch")
        inner == Inside(flow, Control(NoName, cont, 0))
        bodies == FoldRight(LAMBDA c, f :
                              LET built == CompileStatements(f.b, c.ss, f.entries[1], inner)
                              IN [b |-> built.b, entries |-> <<built.at>> \o f.entries],
                            s.cases, [b |-> TakeTemp(b, "switch"), entries |-> <<cont>>])
        default == LET d == {i \in DOMAIN s.cases : s.cases[i].e = NoExpression}
                   IN IF d = {} THEN cont ELSE bodies.entries[Min(d)]
        tests == FoldRight(LAMBDA i, built :
                             IF s.cases[i].e = NoExpression THEN built
                             ELSE Push(built.b, State(<<>>, Branch(StrictEqual(Variable(temp), s.cases[i].e),
                                                                   bodies.entries[i], built.at), flow.throw)),
                           [i \in DOMAIN s.cases |-> i], Built(bodies.b, default))
    IN Push(tests.b, State(<<Assign(temp, s.e)>>, Goto(tests.at), flow.throw))

CompileLabeled(b, s, cont, flow) ==
    CompileStatement(b, s.body, cont, Inside(flow, Control(s.l, cont, 0)))

(* The finalizer is compiled once for each way out: normal, return, throw, *)
(* and the break and continue of every enclosing statement.                *)
CompileTry(b, s, cont, flow) ==
    LET Final(built, to) ==
          IF s.final = NoStatement \/ to = 0 THEN Built(built, to)
          ELSE CompileStatement(built, s.final, to, flow)
        normal == Final(b, cont)
        returned == Final(normal.b, flow.return)
        thrown == Final(returned.b, flow.throw)
        routed == FoldLeft(LAMBDA f, c :
                             LET break == Final(f.b, c.break)
                                 continue == Final(break.b, c.continue)
                             IN [b |-> continue.b,
                                 controls |-> Append(f.controls, Control(c.label, break.at, continue.at))],
                           [b |-> thrown.b, controls |-> <<>>], flow.controls)
        catchFlow == [return |-> returned.at, throw |-> thrown.at, controls |-> routed.controls]
        handler == CompileStatement(routed.b, s.handler, normal.at, catchFlow)
        bound == IF s.x = NoName THEN <<>> ELSE <<Assign(s.x, Variable(Exception))>>
        catch == IF s.handler = NoStatement THEN Built(routed.b, thrown.at)
                 ELSE Push(handler.b, State(bound, Goto(handler.at), thrown.at))
    IN CompileStatement(catch.b, s.block, normal.at, [catchFlow EXCEPT !.throw = catch.at])

CompileStatement(b, s, cont, flow) ==
    CASE s.k = "expr" -> CompileExpression(b, s.e, cont, flow)
      [] s.k = "let" -> CompileDeclaration(b, s, cont, flow)
      [] s.k = "block" -> CompileStatements(b, s.ss, cont, flow)
      [] s.k = "if" -> CompileIf(b, s, cont, flow)
      [] s.k \in {"while", "dowhile"} -> CompileLoop(b, s, cont, flow)
      [] s.k = "for" -> CompileFor(b, s, cont, flow)
      [] s.k = "switch" -> CompileSwitch(b, s, cont, flow)
      [] s.k = "labeled" -> CompileLabeled(b, s, cont, flow)
      [] s.k = "try" -> CompileTry(b, s, cont, flow)
      [] s.k = "return" -> CompileReturn(b, s, flow)
      [] s.k = "throw" -> CompileThrow(b, s, flow)
      [] s.k \in {"break", "continue"} -> CompileJump(b, s, flow)

(* build: three final states, then the body.                               *)
FinishUndefined == 1
FinishReturn == 2
UnhandledThrow == 3
NewBuilder ==
    [states |-> << State(<<Assign(Out, Literal(Undefined))>>, Stop, 0),
                   State(<<Assign(Out, Variable(ReturnSlot))>>, Stop, 0),
                   State(<<>>, Rethrow, 0) >>,
     temps |-> <<>>, bailed |-> FALSE]
Build(body) ==
    CompileStatements(NewBuilder, body, FinishUndefined,
                      [return |-> FinishReturn, throw |-> UnhandledThrow, controls |-> <<>>])

-----------------------------------------------------------------------------
RECURSIVE CollectSlots(_)
CollectSlots(s) ==
    LET Of(ss) == UNION {CollectSlots(ss[i]) : i \in DOMAIN ss}
    IN CASE s.k = "let" -> {s.x}
         [] s.k = "block" -> Of(s.ss)
         [] s.k = "if" -> Of(<<s.yes, s.no>>)
         [] s.k \in {"while", "dowhile", "labeled"} -> CollectSlots(s.body)
         [] s.k = "for" -> Of(<<s.init, s.body>>)
         [] s.k = "switch" -> UNION {Of(s.cases[i].ss) : i \in DOMAIN s.cases}
         [] s.k = "try" -> Of(<<s.block, s.handler, s.final>>) \union ({s.x} \ {NoName})
         [] OTHER -> {}

MaxSteps == 100   \* bound: states run for one request; loops ask before they repeat

(* The frame object the factory returns.                                   *)
Frame(body, temps, entry, given) ==
    [pc |-> entry, started |-> FALSE, done |-> FALSE, outDone |-> FALSE, kind |-> "normal",
     steps |-> MaxSteps]
    @@ MachineWith([x \in CollectSlots(Block(body)) \union ToSet(temps)
                            \union {Exception, ReturnSlot, Out, Input} |-> Undefined],
                   given, FALSE)
Slot(m, x) == m.frames[1].vars[x]

Lost == Completion("lost", NoName, Undefined)   \* out of steps

(* What a terminator does; its value tells whether the machine stops.      *)
GoesOn(m, pc) == Gives([m EXCEPT !.pc = pc], False)
RunTerm(t, m) ==
    CASE t.k = "goto" -> GoesOn(m, t.to)
      [] t.k = "branch" ->
           Then(Eval(t.test, m), LAMBDA n, v : GoesOn(n, IF Truthy(v) THEN t.yes ELSE t.no))
      [] t.k = "yield" ->
           Then(Eval(t.e, [m EXCEPT !.pc = t.resume]),
                LAMBDA n, v : Gives([Binds(n, Out, v) EXCEPT !.outDone = FALSE], True))
      [] t.k = "resume" /\ m.kind = "throw" -> GoesOn(Binds(m, Exception, Slot(m, Input)), t.throws)
      [] t.k = "resume" /\ m.kind = "return" -> GoesOn(Binds(m, ReturnSlot, Slot(m, Input)), t.returns)
      [] t.k = "resume" /\ m.kind = "normal" ->
           GoesOn(IF t.assign = NoName THEN m ELSE Binds(m, t.assign, Slot(m, Input)), t.normal)
      [] t.k = "stop" -> Gives([m EXCEPT !.done = TRUE, !.outDone = TRUE], True)
      [] t.k = "rethrow" -> Outcome([m EXCEPT !.done = TRUE], Thrown(Slot(m, Exception)))

(* The body and terminator of a state run in a try of their own, but for   *)
(* the states that end the machine.                                        *)
RECURSIVE RunStates(_, _)
RunState(state, m) ==
    Then(FoldLeft(LAMBDA r, e : Then(r, LAMBDA n, v : Eval(e, n)), Ends(m), state.body),
         LAMBDA n, v : RunTerm(state.term, n))
AfterState(states, state, r) ==
    LET Later(n) == RunStates(states, [n EXCEPT !.steps = @ - 1])
    IN IF r.c.k = "throw" /\ state.throwTarget # 0
       THEN Later([Binds(r.m, Exception, r.c.v) EXCEPT !.pc = state.throwTarget])
       ELSE IF r.c = Normal(False) THEN Later(r.m)
       ELSE r
RunStates(states, m) ==
    IF m.steps = 0 THEN Outcome(m, Lost)
    ELSE AfterState(states, states[m.pc], RunState(states[m.pc], m))

(* The methods of the frame object.                                        *)
ResumeWith(states, m, kind, v) ==
    RunStates(states, [Binds(m, Input, v) EXCEPT !.kind = kind, !.started = TRUE])
Settles(m, v) == Ends([Binds(m, Out, v) EXCEPT !.started = TRUE, !.done = TRUE, !.outDone = TRUE])

NextMethod(states, m, v) ==
    IF m.done THEN Settles(m, Undefined)
    ELSE ResumeWith(states, m, "normal", IF m.started THEN v ELSE Undefined)
(* Defect: forgets that a generator that never ran has nothing to leave.   *)
ReturnMethodRuns(states, m, v) ==
    IF m.done THEN Settles(m, v) ELSE ResumeWith(states, m, "return", v)
ReturnMethod(states, m, v) ==
    IF m.done \/ ~m.started THEN Settles(m, v) ELSE ResumeWith(states, m, "return", v)
ThrowMethod(states, m, v) ==
    IF m.done \/ ~m.started
    THEN Outcome([m EXCEPT !.started = TRUE, !.done = TRUE], Thrown(v))
    ELSE ResumeWith(states, m, "throw", v)

Result(v, done) == Event("result", 0, <<v, done>>)
Threw(v) == Event("threw", 0, <<v>>)
Takes(m) == [m EXCEPT !.left = Tail(@)]

(* Answers requests in turn, until they run out.                           *)
RECURSIVE Serve(_, _)
ServeOne(states, request, m) ==
    CASE request.k = "normal" -> NextMethod(states, m, request.v)
      [] request.k = "return" -> ReturnMethod(states, m, request.v)
      [] request.k = "throw" -> ThrowMethod(states, m, request.v)
ServeLater(states, r) ==
    IF r.c.k \in {"wait", "lost"} THEN r
    ELSE Serve(states, Sees(r.m, IF r.c.k = "throw" THEN Threw(r.c.v)
                                 ELSE Result(Slot(r.m, Out), IF r.m.outDone THEN True ELSE False)))
Serve(states, m) ==
    IF m.left = <<>> THEN Outcome(m, Waiting)
    ELSE ServeLater(states, ServeOne(states, Head(m.left), [Takes(m) EXCEPT !.steps = MaxSteps]))

-----------------------------------------------------------------------------
(* A generator of the language.                                            *)
Ending(c) == IF c.k = "throw" THEN Threw(c.v) ELSE Result(c.v, True)

RECURSIVE Completed(_)
Completed(m) ==
    IF m.left = <<>> THEN Outcome(m, Waiting)
    ELSE LET request == Head(m.left)
         IN Completed(Sees(Takes(m), IF request.k = "normal" THEN Result(Undefined, True)
                                     ELSE Ending(request)))

CompletedAfter(r) == IF r.c.k = "wait" THEN r ELSE Completed(Sees(r.m, Ending(r.c)))
Generator(body, given) ==
    IF given = <<>> THEN Outcome(Machine(given), Waiting)
    ELSE IF Head(given).k # "normal" THEN Completed(Machine(given))
    ELSE CompletedAfter(ExecScope(body, Takes(Machine(given))))

-----------------------------------------------------------------------------
VARIABLES
    source,    \* the generator's body
    machine,   \* the built machine, once it is
    built,     \* whether it is
    answers    \* requests made, and answers to the calls of the body

vars == <<source, machine, built, answers>>

SourceRun == Generator(source, answers)
MachineRun == Serve(machine.b.states, Frame(source, machine.b.temps, machine.at, answers))

Init ==
    /\ source \in Programs
    /\ machine = Built(NewBuilder, FinishUndefined)
    /\ built = FALSE
    /\ answers = <<>>

BuildMachine ==
    /\ ~built
    /\ built' = TRUE
    /\ machine' = Build(source)
    /\ UNCHANGED <<source, answers>>

Gets(c) ==
    /\ answers' = Append(answers, c)
    /\ UNCHANGED <<source, machine, built>>

(* The call the body waits for.                                            *)
Calling == SourceRun.m.seen # <<>> /\ Last(SourceRun.m.seen).k = "called"

(* Somebody calls next, return or throw.                                   *)
Request(c) ==
    /\ built
    /\ Len(answers) < MaxAnswers
    /\ ~Calling
    /\ Gets(c)

(* A call of the body returns or throws.                                   *)
Answer(c) ==
    /\ built
    /\ Len(answers) < MaxAnswers
    /\ Calling
    /\ LET site == Last(SourceRun.m.seen).n
       IN /\ c.v.type = "Bool" => site \in Questions /\ c.k = "normal"
          /\ c.k = "normal" /\ c.v.type # "Bool" => site \notin Questions
          /\ c.k = "throw" => site \in Throwing
    /\ Gets(c)

Next ==
    \/ BuildMachine
    \/ \E c \in {Normal(Number("7")), Returned(Number("8")), Thrown(Number("9"))} : Request(c)
    \/ \E c \in {Normal(True), Normal(False), Normal(Number("7")), Thrown(Number("6"))} : Answer(c)

Spec == Init /\ [][Next]_vars

(* Every request of the machine is answered as the generator answers it,   *)
(* and in between it makes the same calls with the same values.            *)
MachineAgrees == built /\ ~machine.b.bailed => Observed(MachineRun) = Observed(SourceRun)

=============================================================================
