---------------------------- MODULE AsyncGenerator ----------------------------
(***************************************************************************)
(* Async generators of the Rust runtime (crates/ecmora-runtime/src/lib.rs, *)
(* enqueue_async_generator and resume_async_generator; state and request   *)
(* queue in crates/ecmora-value/src/object_model.rs).                      *)
(*                                                                         *)
(* A request takes the generator out of its slot, runs its body up to the  *)
(* next yield on the caller's stack, and puts it back.  The code that runs *)
(* in between, the statements of the body and the setter a resumed         *)
(* assignment may call, is user code and may make requests of its own, of  *)
(* the same generator or of another.  The promises are only followed to    *)
(* their settlement; what reacts to them is in PromiseMachine.             *)
(***************************************************************************)
EXTENDS Naturals, Sequences

CONSTANTS
    MaxGenerators,  \* bound: generators in one behaviour
    MaxRequests,    \* bound: requests in one behaviour
    Bodies          \* bodies of async function*, sequences of statements

Generator == 1 .. MaxGenerators
Promise == 1 .. MaxRequests

(* A statement is a direct yield, named by what its resumption does with   *)
(* the value sent (GeneratorResumeAction), or has no yield.                *)
Action == {"discard", "initialize", "assign", "return"}
Statement == Action \union {"plain"}
Request == {"next", "return", "throw"}

ASSUME BodiesAssumption == Bodies \subseteq Seq(Statement)
ASSUME BoundsAssumption == MaxGenerators \in Nat /\ MaxRequests \in Nat

VARIABLES
    generators,  \* generators[g]: what create_async_generator made
    slot,        \* async_generators[g]: free, some, or none while it is taken
    queue,       \* AsyncGeneratorSlots.queue
    answers,     \* the state of each request's promise
    asked,       \* asked[p]: the generator the request of p was made of
    requests,    \* how many requests were made
    stack,       \* the generators that are running, innermost last
    phase        \* running, or aborted by a host error

vars == <<generators, slot, queue, answers, asked, requests, stack, phase>>

States == {"SuspendedStart", "SuspendedYield", "Executing", "Completed"}
Frame == [generator : Generator, capability : Promise, stage : {"assign", "body"}]

TypeOK ==
    /\ \A g \in Generator : slot[g] # "free" =>
          /\ generators[g].body \in Bodies
          /\ generators[g].next \in 1 .. Len(generators[g].body) + 1
          /\ generators[g].action \in Action \union {"none"}
          /\ generators[g].completed \in BOOLEAN
          /\ generators[g].state \in States
    /\ slot \in [Generator -> {"free", "some", "none"}]
    /\ queue \in [Generator -> Seq(Promise)]
    /\ answers \in [Promise -> {"free", "pending", "yielded", "done", "rejected"}]
    /\ asked \in [Promise -> Generator \union {0}]
    /\ requests \in 0 .. MaxRequests
    /\ \A i \in DOMAIN stack : stack[i] \in Frame
    /\ phase \in {"running", "aborted"}

Init ==
    /\ generators = [g \in Generator |-> << >>]
    /\ slot = [g \in Generator |-> "free"]
    /\ queue = [g \in Generator |-> << >>]
    /\ answers = [p \in Promise |-> "free"]
    /\ asked = [p \in Promise |-> 0]
    /\ requests = 0
    /\ stack = << >>
    /\ phase = "running"

-----------------------------------------------------------------------------
Top == stack[Len(stack)]
Below == SubSeq(stack, 1, Len(stack) - 1)
Running(stage) == phase = "running" /\ stack # << >> /\ Top.stage = stage

Statements == generators[Top.generator].body
NextStatement == generators[Top.generator].next
AtStatement == Running("body") /\ NextStatement <= Len(Statements)

(* User code runs outside any generator, in a statement of the innermost   *)
(* body, or in the setter of the assignment it resumes with.               *)
UserCodeRuns == phase = "running" /\ (stack = << >> \/ AtStatement \/ Running("assign"))

(* Calling an async function*.                                             *)
CreateAsyncGenerator(g, body) ==
    /\ UserCodeRuns
    /\ slot[g] = "free"
    /\ \A h \in 1 .. g - 1 : slot[h] # "free"
    /\ slot' = [slot EXCEPT ![g] = "some"]
    /\ generators' = [generators EXCEPT ![g] =
          [body |-> body, next |-> 1, action |-> "none", completed |-> FALSE,
           state |-> "SuspendedStart"]]
    /\ UNCHANGED <<queue, answers, asked, requests, stack, phase>>

(* Variants with a plausible defect, which the properties must rule out,   *)
(* stand before the definition they vary.                                  *)
CompletedFlagOnly(g) == [generators EXCEPT ![g].completed = TRUE]

CompletedRewinds(g) ==
    [generators EXCEPT ![g].completed = TRUE, ![g].state = "Completed", ![g].next = 1]

Completed(g) == [generators EXCEPT ![g].completed = TRUE, ![g].state = "Completed"]

Answer(p, answer) == answers' = [answers EXCEPT ![p] = answer]

(* A completed generator, or one a request completes, answers p at once.   *)
AnswerAtOnce(g, p, answer) ==
    /\ Answer(p, answer)
    /\ generators' = Completed(g)
    /\ UNCHANGED <<slot, stack>>

(* The body runs with the generator out of its slot.                       *)
Run(g, p, stage) ==
    /\ slot' = [slot EXCEPT ![g] = "none"]
    /\ Answer(p, "pending")
    /\ stack' = Append(stack, [generator |-> g, capability |-> p, stage |-> stage])

Execute(g, p) ==
    /\ generators' = [generators EXCEPT ![g].state = "Executing", ![g].action = "none"]
    /\ Run(g, p, "body")

ResumeWithInput(g, p) ==
    LET action == generators[g].action IN
    \/ /\ action \in {"none", "discard", "initialize"}
       /\ Execute(g, p)
    \/ /\ action = "assign"
       /\ generators' = [generators EXCEPT ![g].action = "none"]
       /\ Run(g, p, "assign")
    \/ /\ action = "return"
       /\ Answer(p, "done")
       /\ generators' = [Completed(g) EXCEPT ![g].action = "none"]
       /\ UNCHANGED <<slot, stack>>

(* enqueue_async_generator and the start of resume_async_generator: the    *)
(* request that was just queued is the one that is taken.                  *)
Ask(g, request) ==
    /\ UserCodeRuns /\ slot[g] = "some"
    /\ requests < MaxRequests
    /\ requests' = requests + 1
    /\ asked' = [asked EXCEPT ![requests + 1] = g]
    /\ LET waiting == Append(queue[g], requests + 1)
           p == Head(waiting)
       IN /\ queue' = [queue EXCEPT ![g] = Tail(waiting)]
          /\ \/ request = "throw" /\ AnswerAtOnce(g, p, "rejected")
             \/ request = "return" /\ AnswerAtOnce(g, p, "done")
             \/ request = "next" /\ generators[g].completed /\ AnswerAtOnce(g, p, "done")
             \/ request = "next" /\ ~generators[g].completed /\ ResumeWithInput(g, p)
    /\ UNCHANGED phase

(* Of a generator that is not in its slot: a host error.                   *)
AskTaken(g) ==
    /\ UserCodeRuns /\ slot[g] = "none"
    /\ requests < MaxRequests
    /\ requests' = requests + 1
    /\ Answer(requests + 1, "pending")
    /\ asked' = [asked EXCEPT ![requests + 1] = g]
    /\ phase' = "aborted"
    /\ UNCHANGED <<generators, slot, queue, stack>>

-----------------------------------------------------------------------------
(* The innermost running generator goes on.                                *)

(* write_target: the setter returns, or throws out of the request, which   *)
(* takes the generator with it.                                            *)
AssignReturns ==
    /\ Running("assign")
    /\ generators' = [generators EXCEPT ![Top.generator].state = "Executing"]
    /\ stack' = Append(Below, [Top EXCEPT !.stage = "body"])
    /\ UNCHANGED <<slot, queue, answers, asked, requests, phase>>

AssignThrowsUnanswered ==
    /\ Running("assign")
    /\ generators' = Completed(Top.generator)
    /\ slot' = [slot EXCEPT ![Top.generator] = "some"]
    /\ stack' = Below
    /\ UNCHANGED <<queue, answers, asked, requests, phase>>

AssignThrows ==
    /\ Running("assign")
    /\ stack' = Below
    /\ UNCHANGED <<generators, slot, queue, answers, asked, requests, phase>>

PutBack(answer) ==
    /\ slot' = [slot EXCEPT ![Top.generator] = "some"]
    /\ Answer(Top.capability, answer)
    /\ stack' = Below
    /\ UNCHANGED <<queue, asked, requests, phase>>

StatementEnds ==
    /\ AtStatement /\ Statements[NextStatement] = "plain"
    /\ generators' = [generators EXCEPT ![Top.generator].next = @ + 1]
    /\ UNCHANGED <<slot, queue, answers, asked, requests, stack, phase>>

StatementReturns ==
    /\ AtStatement /\ Statements[NextStatement] = "plain"
    /\ generators' = [Completed(Top.generator) EXCEPT ![Top.generator].next = @ + 1]
    /\ PutBack("done")

(* A statement, or the operand of a yield, throws.                         *)
StatementThrows ==
    /\ AtStatement
    /\ generators' = [Completed(Top.generator) EXCEPT
          ![Top.generator].next = IF Statements[NextStatement] = "plain" THEN @ + 1 ELSE @]
    /\ PutBack("rejected")

Yield ==
    /\ AtStatement /\ Statements[NextStatement] # "plain"
    /\ generators' = [generators EXCEPT ![Top.generator].next = @ + 1,
                                        ![Top.generator].action = Statements[NextStatement],
                                        ![Top.generator].state = "SuspendedYield"]
    /\ PutBack("yielded")

BodyEndsOneFurther ==
    /\ Running("body") /\ NextStatement > Len(Statements)
    /\ generators' = [Completed(Top.generator) EXCEPT ![Top.generator].next = @ + 1]
    /\ PutBack("done")

BodyEnds ==
    /\ Running("body") /\ NextStatement > Len(Statements)
    /\ generators' = Completed(Top.generator)
    /\ PutBack("done")

-----------------------------------------------------------------------------
UserCode == \E g \in Generator :
    \/ \E body \in Bodies : CreateAsyncGenerator(g, body)
    \/ \E request \in Request : Ask(g, request)
    \/ AskTaken(g)

Body ==
    \/ AssignReturns \/ AssignThrows
    \/ StatementEnds \/ StatementReturns \/ StatementThrows \/ Yield \/ BodyEnds

Next == UserCode \/ Body

Spec == Init /\ [][Next]_vars

-----------------------------------------------------------------------------
(* Correctness.                                                            *)

Made == 1 .. requests
Alive == {g \in Generator : slot[g] = "some"}

(* The three places that say where a generator stands agree whenever it is *)
(* in its slot: its completed flag, the state of its object, and what its  *)
(* next resumption has to do.  Nothing waits in its queue.                 *)
RecordsAgree ==
    \A g \in Alive : LET gen == generators[g] IN
        /\ queue[g] = << >>
        /\ gen.completed <=> gen.state = "Completed"
        /\ ~gen.completed => gen.action = IF gen.next = 1 THEN "none" ELSE gen.body[gen.next - 1]
        /\ gen.state = "SuspendedStart" => gen.next = 1
        /\ gen.state # "Executing"

(* A generator answers its requests in the order in which they were made,  *)
(* also when they are made from inside other generators.                   *)
AnsweredInOrder ==
    \A p, q \in Made :
        p < q /\ asked[p] = asked[q] /\ answers[q] # "pending" => answers[p] # "pending"

(* No statement of a body is run again, and once a generator has answered  *)
(* that it is done, no value is yielded any more.                          *)
NeverReplays ==
    [][/\ \A g \in Generator : slot[g] # "free" => generators'[g].next >= generators[g].next
       /\ \A p \in Made : answers[p] # "pending" => answers'[p] = answers[p]
       /\ \A p, q \in Promise :
             answers[p] \in {"done", "rejected"} /\ asked'[q] = asked[p]
             /\ answers[q] # "yielded" => answers'[q] # "yielded"]_vars

(* What docs/class-generator-analysis.md says of next, return and throw:   *)
(* each creates a promise and resumes the generator.  So while the program *)
(* runs, the promise of a request is pending only while its generator runs. *)
NoRequestForgotten ==
    phase = "running" =>
        \A p \in Made : answers[p] = "pending" =>
            \E i \in DOMAIN stack : stack[i].capability = p

=============================================================================
