# A TLA+ verification of Emora

Emora compiles a JavaScript program to a native executable.  It has two backends.
The **native** one analyses the whole program, lowers it to a typed control-flow
graph, emits LLVM IR and links a small C runtime (`runtime/native/*.c`).  The
**compatibility** backend links the Rust interpreter (`ecmora-runtime`,
`ecmora-value`) with the program embedded.  This directory holds TLA+ models of the
parts of both that have state worth exploring, TLC runs over them, and TLAPS proofs.

Every module opens with a comment that says which code it models and what it leaves
out; `PROJECT.json` maps every definition to source lines.  Names follow the source.

## Inventory

| Part | Source | State it keeps | Operations | Interacts through | What makes it hard |
|---|---|---|---|---|---|
| native promise ABI | `runtime/native/promise_abi.c` | promise cells, reaction lists, one microtask list | allocate, resolve, reject, settle, adopt, `then`, drain | compiled code calls it; handlers call back into it | handlers run inside the drain loop and make any call |
| promise machine | `ecmora-runtime/src/lib.rs` (`Machine`) | promises, jobs, async tasks, host events | constructor and statics, `then`/`catch`/`finally`, `await`, `run_job`, rejection tracker | the interpreter's own call stack | nested await drains jobs in mid-statement; thenables are called at once |
| async generators | `lib.rs` `enqueue_async_generator`, `resume_async_generator`; `value/object_model.rs` | generator slots, request queues, object states | next, return, throw | user code between a resumption and its answer | re-entrant requests; errors between taking and putting back |
| native object ABI | `runtime/native/object_abi.c` | property lists, prototype pointers | get, set, define, delete, set-prototype, array hooks | compiled code; callable ABI invokes getters | long sequences of redefinitions; `length` kept apart from indices |
| static promise lowering | `ecmora-analysis/src/lib.rs` (`Lowerer`) | promise tokens, settlements, chains, resolution stack | promise expressions, `then`, `await`, drain | recursion through inlined handlers | recursion meets the drain's own pass |
| module loader | `ecmora-driver/src/modules.rs` | export tables, provisional tables, frames, emitted statements | load, bind, rename, export | recursion | cycles answered with provisional tables |
| native callable ABI | `runtime/native/callable_abi.c`, `frame_abi.c`, `recursion_abi.c`, `cell_abi.c` | invocation frames, tail-call buffer, recursion depth, capture cells | call, tail call, construct, spread, bind | compiled code calls it and is called by it | one buffer and one counter for all calls; frames left by exceptions |
| completion lowering | `ecmora-analysis/src/completion_native.rs` | none (rewrites a tree) | `try`, `catch`, `finally` to labeled blocks, flags and copies | feeds the callable and typed lowerers | bodies moved into other scopes; a pending completion kept across a finalizer |
| callable lowering | `ecmora-analysis/src/callable_native.rs` | blocks under construction, control stack, cells, believed types | statements and expressions to blocks over cells | runs on rewritten trees; feeds the code generator | which target a jump leaves for; types believed after a merge |
| typed lowering | `ecmora-analysis/src/lib.rs` (`Lowerer`) | blocks, value environment, known values, jump targets, scopes | statements and expressions to blocks over values | the same trees; `canonicalize_cfg` and `verify_program` judge the result | phis at joins and loop headers; what is still known after a branch |
| generator state machines | `ecmora-analysis/src/generator_cfg.rs`, `generator_native.rs` | one state number and value slots per generator | lowering of statements to states and terminators | output runs on the callable pipeline | completions through finalizers |
| interpreter | `ecmora-runtime/src/lib.rs` | environments, completions | statements and expressions | promise machine, generators; the reference of the lowerings | completions of `try`, loops, labels |
| value and object model | `ecmora-value` | objects, prototypes, accessors | lookup, conversion | interpreter | lookups through accessors and proxies |
| frontend | `ecmora-frontend-oxc` (`lower.rs`, `var_hoist.rs`) | none | tree translation, `var` hoisting | HIR | a variable moves out of loops, blocks and the scopes of closures |
| aggregate replacement | `ecmora-analysis/src/aggregate_scalar.rs` | candidates, aliases, field layouts | objects and arrays that do not escape become variables | runs on the trees of completion lowering, before both lowerers | every use in the program decides; presence of fields, holes, copies and identity |
| static analysis | `static_graph.rs`, `class_native.rs`, `generator_native.rs`, `async_normalize.rs`, `effects.rs`, `numeric.rs`, ... | tables of a pass | tree rewriting, fixpoints | each other | order of passes |
| typed IR and verifier | `ecmora-ir` | none | `canonicalize_cfg`, `verify_program` | everything that emits IR | dominance and block parameters |
| LLVM code generator | `ecmora-codegen-llvm` | text | emission | C runtime | choice of runtime functions |
| driver, CLI, HIR, optimiser, host, diagnostics | small crates | none | process I/O, data types | | |

The correctness questions per part: promises settle once, from one driver, run their
reactions in order and never lose one; a generator answers each request once and in
order and never replays its body; property attributes hold and prototype chains end;
the compiler decides each handler once and leaves nothing runnable; a module is emitted
after those it needs and its names meet the exports they were bound to; lowered control
flow does what the source statement does, and so does every tree a pass makes of it; a called function sees its own arguments, receiver
and `new.target`, and so does its caller after it returned or threw.

## Modules

`NativePromise` and `PromiseMachine` are two implementations of `PromiseContract`, the
abstract specification: cells that are pending, following another cell, or settled, with
reactions that become jobs exactly when their source settles and run first in first out.
Both `INSTANCE` it with a refinement mapping and are checked against it.

* **NativePromise** — one action per ABI function that changes state.  The program is the
  environment: from `main`, or inside a handler called by the drain loop (`running` is
  the job whose handler runs), it makes any call with the promises it holds.
* **PromiseMachine** — `stack` is the interpreter's call stack, one frame per piece of
  user code or per waiting `run_job`; user code makes any call with the values it holds.
  `program` fixes which features a behaviour uses, so that each combination can be
  explored with enough promises.  Rejection tracking (`handled`, `reported`, host events)
  is part of it.  `await` that cannot suspend runs jobs from inside a statement, as
  `await_value` does.
* **AsyncGenerator** — a request takes the generator out of its slot, runs the body on the
  caller's stack and puts it back; the code in between may make further requests.
* **NativeCall** — `stack` is the C stack: activations of compiled functions and the
  runtime functions between them; `control` says what its top is about.  One action per
  emitted call or terminator (`CallDirect`, `CallValue`, `TailCallDirect`, `ConstructValue`,
  `ReturnValue`, ...), per case of `ecmora_callable_dispatch`, and per place a callee returns
  to.  The program is open and makes any call its lowering emits.  **CallContract** is what
  calls mean in the language: execution contexts, where a call of a bound function is a call
  of its target and a tail call replaces its caller.  `NativeCall` implements it: a context is
  an activation with the frame below it, a dispatch through bound functions the single call
  it leads to.
* **NativeObject** — properties with attributes, prototypes, accessors, the indexed store
  and the array-literal hooks.
* **StaticPromise** — the compiler's own evaluation of promises: `calls` is the Rust
  recursion of `apply_promise_chain`, `pass` the copy of the order the drain walks over.  The
  script is open and makes any use of promises; the functions it may use are given, as a graph:
  an async function is lowered in place, may make a promise, register the next function on it,
  and await or return that reaction.  A synchronous function is lowered by a child `Lowerer`
  with tables of its own, which are dropped afterwards: reactions it registers never run, so it
  counts only by how it ends.  Reference 0 is every promise that no table knows, because it
  was read from a Cell or answered by a compiled function.  `p.then(f).then(g)` has its
  receiver lowered twice, as `lower_call` does.
* **ModuleLoader** — `frames` is the recursion of `load_parsed`; the program (imports,
  exports, declarations of each module) is chosen initially.  A namespace import is the
  specifier of `*`: it is no entry of the rename table (`bound`) but a copy of the table that
  the dependency answered with (`namespaces`), and its name is exported as it is.
  `Sanitized` is what `sanitize` makes of a name.  `export * as ns` reaches the loader as
  `export *`; the walk `rename_expression`, where a local may shadow a name, is left out.
* **Heap** — the objects, arrays and functions of `ecmora-value`: properties, accessors,
  prototypes, holes, deletion.
* **Statements** — the interpreter (`execute_statement_with_labels`, `evaluate_expression`,
  `call_function_with_bindings` and their kin) as recursive operators from a tree and a
  sequence of answers to what the program logs and how it completes.  A machine `m` holds
  scopes, the heap and the observations made.  Calls of code outside the program are
  *questions*, answered from the sequence, so that a lowered program that asks the same
  questions in the same order can be compared with its source.
* **VarHoist** — `normalize_var_hoisting` of the frontend as a rewriting of those trees;
  **CompletionLowering** — `completion_native`; **AggregateScalar** — `aggregate_scalar`:
  discovery of candidates, the escape analysis, and the rewriting with its alias environment
  and field layouts.
* **BasicBlocks** — what the two lowerers and the generator pass share: blocks, terminators,
  `canonicalize_cfg`, the part of `verify_program` that guards control flow, and the
  execution of a graph on the answers.
* **CallableCfg** — `GenericLowerer`: control stack, cells, and the type it believes each
  cell to have.  **TypedCfg** — the typed `Lowerer`: scopes, known values, phis, joins.
* **NativeControlFlow** — the pipeline of `analyze`: chooses a body, takes it one stage at a
  time through hoisting, completion lowering, aggregate replacement and both lowerers, and
  then answers its calls.  `runs` is what each form of the body is seen to do; each form is
  compared with the one before it, so that a difference names its pass.
* **GeneratorCfg** — `generator_cfg`: states, slots, terminators, and the resumption of the
  result by next, throw and return; a behaviour drives the source body and the machine with
  the same requests.
* **`MC*`** modules hold instances; **`*Proofs`** modules hold theorems about the module
  they are named after; `PromiseMachineContractProofs` those that rest on the identity of
  reactions, with the refinement of `PromiseContract`.

`TypeOK` of `PromiseContract` tells the reader the types of its variables.  That of `NativeCall` is
checked by its run and proved; that of the other modules with theorems is proved.

In each module a variant of a definition with a plausible defect stands right before the
definition; `PROJECT.json` "mutants" pairs each property with a variant that breaks it.

## Runs
| Run | Question | Bounds |
|---|---|---|
| `NativePromiseCalls` | settled once, never with a promise, one driver for each adopting promise, jobs carry their source's settlement, contract implemented, jobs run | 3 promises, 2 attachments, one plain value, one handler: a chain of two adoptions and a cycle of three fit, and no guard inspects a plain value |
| `PromiseMachine` | the same for the interpreter, plus single resumption, the rejection tracker, contract refinement, and running of jobs although `await` drains from within | five programs, each 2-3 promises, 2-3 reactions, call depth 3-12; `JobsRun` excepts programs with thenable objects |
| `PromiseMachineFirstCall` | *violation*: a test's comment says the first resolving call wins | 2 promises |
| `NativeObjectCalls` | chains end, literals are dense, sealed properties stay sealed | 2 objects with symmetry; `Limit` = 3 stands for `UINT32_MAX` |
| `StaticPromiseLowering` | code emitted once, settlements follow their chain, the drain keeps the order and is complete, the compiler terminates | the script makes 3 promises in every way, 7 functions for every way to end, with async functions inside async functions three deep; the bound of 26 tokens is never reached |
| `AsyncGeneratorRequests` | slots, queues and object states agree, answers in order, no replay | 2 generators, 5 requests, four bodies that cover every way of resuming |
| `AsyncGeneratorSetter` | *violation*: a setter that throws loses the generator | the same |
| `ModuleLoaderImports` | emission order, renaming, named imports, namespaces, termination | every graph of three modules with at most 2, 1 and 1 links (2, 2 and 1 where no namespace is used), which import a name or the namespace, import it and export it again, re-export or export everything; `sanitize` changes the name into the local name of the imports |
| `NativeControlFlow` | hoisted, erased and scalarized trees, callable graphs and typed graphs make the calls the source makes and complete as it does; a cell holds a value of the type believed of it | 3,733 bodies, 9 answers, 12 keys |
| `NativeControlFlowBreak` | *violation*: a plain `break` in a `try` leaves the wrong statement | a body of that shape |
| `GeneratorStateMachine` | a generator's state machine yields, completes and throws as its body does under every sequence of requests | every part of a `try` with every way out of it, 6 answers |
| `NativeCalls` | frames, recursion counter and tail-call buffer are right whoever returned, threw or was replaced; calls mean what `CallContract` says | four programs: typed with 3 active functions and lists of 0 to 2 arguments; generic, strict and sloppy, with 2 active functions, 2 callables (functions, arrows, bound) and 1 constructed object; chains of two bound functions |

In `NativeCalls` the limit of 512 becomes 1 to 3, so that the guard is reached; three
activations let a tail call follow a longer one with a caller below both, and two let an
exception leave a frame above a function that goes on.  Two bound functions in a chain are
the least that have an order of arguments and a receiver to be overruled.

Of the bodies of `NativeControlFlow`, 623 are about jumps (every nesting of two constructs
among blocks, labels, loops, `switch` and `try`, with every way out of each part), 876 about
values (an assignment in each branch, then a use), 207 about jumps between assignments (out of
labels, loops, `switch` and `try`), 78 about two variables that pass a value on, 63
about loops that carry one, 197 about `var` and 1,689 about objects and arrays.  Two
levels are enough because each lowering function inspects only its own construct and the
stack of targets, and two levels already put every kind of target over every other.  A loop
asks before it repeats, and 9 answers let one enter, repeat and leave while the other is
entered twice.  Of the 1,847 bodies of the first five kinds the callable lowerer accepts
every one, the typed one 1,027 (348, 503, 89, 24 and 63), and
refusing the others is what the code does: the program then takes another path.  A plain `break` directly in a
`try` in a loop is left to `NativeControlFlowBreak`; `TypedAgrees` excepts 108 of the typed
bodies, whose right operand of `&&` or `||` assigns, and `CellsHoldTheirTypes` 148 of the 1,224
about values (see "What was found" for both).

The bodies about `var` put a declaration into each statement that can hold one, in a function
that may also have the name as a parameter or as a function, with a closure that reads it.
Those about aggregates declare an object or an array with a hole and put it to two uses of
some twenty kinds (read, written, tested, deleted, compared, aliased, copied by spread, captured by
a closure, passed, shown, shadowed, made anew in each round of a loop), the first of which
may be in a function that runs after the second: whether an aggregate escapes depends on all
of its uses, and two are the least that can disagree.  These bodies are followed up to the
trees; the models of the lowerers know neither functions nor objects.  No body writes the same
declaration twice (the code tells candidates apart by their span), spreads what is not an
array into a list, or uses the key `__proto__`.

The bodies of `GeneratorStateMachine` place a `yield` in each part of a `try`, of two nested
ones, of each loop and of a `switch`, with every way out of the part; six answers let a body
pause, be resumed in each of the three ways, and be asked again after it ended.

Deadlock is not checked because every modelled program may stop.  `MaxReactions`,
`MaxRequests`, `MaxTokens` and similar constants only bound behaviours; each guard that
uses one is commented with the word *bound* where the constant is declared.

### Fairness

`FairSpec` asks weak fairness of what the code does by itself: the drain loop and
the return of a handler in the promise models (a handler of a program that terminates
returns; `ecmora_microtask_drain` and `run_jobs` are plain loops), the compiler's own steps in
`StaticPromise`, the loader's steps in `ModuleLoader`.  The open program's calls are never
fair: nobody promises that it calls anything.

## Proofs

TLAPS proves the following for every value of the constants, so for any number of promises,
objects, generators, values and handlers, any depth of calls and any bound.  Each module
proves an inductive invariant (`NativePromiseProofs` and `NativeCallProofs` two), and its
theorems follow from that.  None of the properties is
inductive alone; what had to be added is said here, because it is what the code relies on.

**`NativePromiseProofs`** — `TypeCorrect`, `NeverFulfilledWithPromise`, `NoneLeftBehind`,
`JobsCarrySettlement`, `SettlementIsFinal`.  That a queued job carries its source's settlement
needs that reactions are listed under the promise they were attached to (`source`), that a
settled promise has no reactions, and that the running job obeys the same; that a promise is
never fulfilled with a promise needs the bound on what `settle` is handed.  Lemmas about
moving a reaction list behind the queue (`JobsOf`, `SettleTo`) carry the action cases.

A second invariant in the same module, `CInv`, gives `NumberedAlways`, `OneDriverEach` and
`ContractImplemented`.
A reaction has a ticket, its number of attachment.  `CInv` says that each ticket sits
in one place (a list, the queue, or the running job), that lists and the queue are in
attachment order per source, and that the driver of a promise is known by its ticket.  A
count of drivers then changes by the one place a step touches, and a step of the code is the
contract's step on the mapped places, or a stutter.

**`PromiseMachineProofs`** — `InvariantAlways`, `TypesAlways`, `FulfilledNeverPromiseAlways`,
`SettledOnceAlways`, `RejectionsSurfaceAlways`.  The interpreter settles some promises
directly with what a callback returned or a `finally` preserved.  That none of these values is
a promise needs an invariant over the control stack: which frame holds which value, that a job
on the stack or in the queue carries its promise's settlement, that handlers fit the outcome
they run for, and that each `await` on the stack has a caller.

**`PromiseMachineContractProofs`** — `ContractImplemented`, `ResumedOnceAlways`,
`OneDriverAlways`.  The steps are told apart by what they do to tickets, drivers and frames
rather than one by one.  A promise is driven by a reaction, a job, a frame or a task; the
invariant balances these for every promise as long as no host error was swallowed (turned
into a rejection by a `then` getter's caller, see below), and a suspended
task is awaited by exactly the reaction or job that will resume it.  Nested drains are in
scope: the queue below them is what the frames above leave of it.

**`AsyncGeneratorProofs`** — `InvariantAlways`, `TypesAlways`, `RecordsAgreeAlways`,
`AnsweredInOrderAlways`, `NeverReplaysAlways`.  The invariant follows a generator out of its slot
and back: a frame runs a generator that is out, for its one pending request, and no two frames
the same; in its slot its two records agree and no request is pending.  (A setter that throws
leaves a generator out with no frame.)  It also shows that no request ever stays queued.

**`NativeObjectProofs`** — `AcyclicAlways`, `ListsAlways`, `TypesAlways`, `DenseAlways`,
`SealedAlways`.  `ecmora_object_set_prototype` walks the target's chain before it adds the edge;
acyclicity is stated with separating sets, which an edge to an object that does not reach the
source keeps.  A literal's indices are dense because an array under construction has exactly
the elements its length counts (`ListsAlways`), which induction over the fold of a spread and
over a prototype chain shows: from the least-element principle, without an induction rule.

**`NativeCallProofs`** — `TypeCorrect`, `DepthCorrect` (the recursion counter is the number of
active functions and never above the limit), `ThisCorrect` (whoever runs has its own frame on
top), `CallsImplemented` (the runtime implements `CallContract`).  The invariant `IInv` says of the stack that `invocationTop` is the latest frame and each
frame's `previous` the latest below it (`Nested`), that the counter is the cardinality of the
activations, and in a generic program that an activation lies on the frame of its callable; and
of `control` that code only runs on top of an activation or the process, that a jump of a
generic program has its frame on top, and that a tail call's arguments are in the buffer.
Lemmas on pushing and popping a record (`NestPushed`, `CodePopped`, ...) serve all actions.
That frames nest is also what keeps `invocationTop` inside the stack when one is taken away,
so the type theorem needs it.

`CallsImplemented` holds for chains of bound functions of any length, any nesting of calls and
constructors, any limit and all argument lists.  The mapping is restated with the state as a
parameter (`ContextsIn`, `PendingIn`, `LedIn`, `ControlIn`), so that lemmas say what pushing and
popping each kind of record does to the contexts: only an activation adds or takes one, a
constructor's record makes its object the pending receiver of the next, and other records
change neither.  `RInv` adds to `IInv` that a constructor's record lies on a context and has an
object (`Built`), and that a dispatch which constructs is for the callable it is about
(`Aimed`), without which `new.target` would be lost in a chain.  Nine actions of the runtime
are stutters or single steps by this: a dispatch through a bound function leads where it led
before (`LedThroughBound`), which needs that chains exist and end at a native function
(`ChainExists`, `ChainEnds`, by the least-element principle on the age of a callable) and that
concatenation is associative.  What a tail call wrote to the shared buffer is read back whole
(`WrittenRead`).  In a step of the program, the end of a chain that `ecmora_callable_construct`
walks to is the contract's (`TargetsAreEnds`), and an arrow keeps the this of its context
because the frame on top is its own.

**`StaticPromiseProofs`** — `TypesAlways`, `InlinedOnceAlways`, `SettlementsFollowAlways`,
`DrainCompleteAlways`, for any number of promises, any functions and any script over them.
`DataInv` is about the tables: what is not created is blank, a chain hangs on an older
promise, a settlement follows.  `Stack` is about the Rust recursion.
`promise_resolution_stack` refuses a token that is being resolved, but the drain calls
`apply_promise_chain` without entering its token there; that no promise gets a second frame
all the same (`Apart`) holds because a frame whose parent is unsettled is older than every
frame below it (`Falls`): a handler works on promises made after its own.  A frame whose handler
is at work says which promise it waits for (`Waits`) and that this will be settled with what
JavaScript makes of the handler (`Gives`), which is how `SettlementsFollow` reaches through
handlers inside handlers.  `EmittedInv` says code was emitted for settled promises and frames
at work only, `AwaitInv` ties an async call of the script to the frame it waits for, and
`PassInv` that a pass which settled nothing has each reaction that could run still ahead.
The theorem on the drain is about the reactions in the compiler's tables; those that
synchronous handlers register never get there (see below).

**`ModuleLoaderProofs`** — `InvariantAlways`, `TypesAlways`, `DependenciesFirstAlways`,
`RenamedApartAlways`, `ImportsMeetExportsAlways`, `NamespacesMeetExportsAlways`, for any number
of modules and any program of well-formed texts.  The invariant `Inv` has a part for each
thing the loader relies on.
`Stack`: the frames hold different modules, reached and unfinished, each imported by the one
below, and what a frame read of a dependency was its provisional or its final table (`View`).
`Ids`: the ids in use are numbered up to the count of modules reached, so the next one is fresh
and within the bound.  `Tables`: a finished table keeps every entry of the provisional one
(`Extends`), which is why a name bound on a back edge stays right.  `Bound` and `Held`: every name in a rename
table, an export table or a table read is the declaration of a module that was reached, or the
bare name of a namespace such a module exports again; and every named import is bound to what its
module exports now or will in the end (`Met`).  `Spaces`: a namespace has entries of its
module's table, now or in the end, and all of them if that module was finished first.  `Emission` and `Progress`: what a module imports came before it,
or is on the stack below it, so that a walk along the frames shows the two import one another.
`Needs`, a recursive function, is reasoned about by walks and closed sets (`Walk`, `Closure`),
from the least-element principle; that a walk need not be longer than the number of modules is
the pigeonhole principle on the frames.

Assumed of the constants are the assumptions the modules declare, each of which a run
evaluates: `Undefined` is a plain value, and plain values, promises and handlers are disjoint
(`ValuesAssumption` and its like); bounds are natural numbers (`BoundsAssumption`,
`NumbersAssumption`, `MaxReactionsAssumption`); programs name features that exist
(`ProgramAssumption`, `ProgramsAssumption`, where for the loader they are texts as JavaScript
allows them: no local name bound twice, exported names distinct and existing); `Result` gives
each function of the program what JavaScript makes of its body (`ResultAssumption`); there is a module, "default" is a name, `*` is none, and `sanitize` maps names
to names (`ModulesAssumption`, `NamesAssumption`); a heap is finite and `NULL` is no object
(`ObjectsAssumption`); `length` is no index (`KeysAssumption`).

Model-checked only are: liveness (`JobsRun`, `CompilerTerminates`, `LoadingEnds`, which need
fairness and ENABLED); `OrderKept`; and the passes over trees and the control-flow modules.
Statements are trees, and `Statements` and the lowerings are recursive operators on them: the
prover has no induction over such data, so modules that need them hold no theorems.

## What was found

* `resolve_into` does not record that a promise is already resolved, so a resolving
  function called again after the promise adopted a pending one settles it
  (`PromiseMachineFirstCall`).
* A throwing setter of a resumed assignment leaves `resume_async_generator` through `?`
  with the generator out of its slot (`AsyncGeneratorSetter`).
* `completion_native` wraps every `try` in a labeled region, and `resolve_control` lets an
  unlabeled `break` leave the innermost target of any kind: a plain `break` inside a `try`
  inside a loop leaves only the `try` (`NativeControlFlowBreak`; `docs/control-flow-completions.md`
  says it is consumed only by the nearest iteration or switch).

Met while modelling the promise lowering and the loader, and stated at the definitions concerned:

* A handler that returns or awaits a promise has it settled by recursion, and what it waits for
  then runs before reactions that were registered earlier and could already run, although the
  comment in `drain_promise_jobs` says these are not reordered (excepted in `OrderKept`).
* `lower_call` lowers the receiver of a method call twice, first to look for a static method: in
  `p.then(f).then(g)` the reaction with `f` is registered twice and both copies run
  (`ThenOnCall`; `InlinedOnce` is about each copy).
* A promise whose variable a closure captured is read from a Cell as a value that no promise
  table knows, and reactions registered through it never run (`Lookup`).
* The child `Lowerer` of a synchronous handler starts with empty promise tables, and only its
  counters and functions are merged back: a reaction registered inside the handler is lost, and
  a promise the handler returns ends the compilation (`InlinePromise`).
* A function whose async handler registers the function again keeps `drain_promise_jobs`
  making passes for ever; `CompilerTerminates` is about programs without such a cycle.
* The table answered on the back edge of a module cycle lacks re-exports, exported imports
  and `export *` names, although the comment at `modules.rs:69` calls it stable.  A named import
  of such a name is refused; a namespace keeps the copy it got and lacks the name (excepted in
  `NamespacesMeetExports`).
* A namespace that is exported again is exported under its bare name, which no module declares
  (`Forwarded` in `RenamedApart`); `sanitize` maps different characters to `_`, so two
  names of one module may become one.

Met while modelling the lowerings, and stated at the definitions concerned:

* The typed `lower_logical_cfg` joins no variables, so a binding assigned in the right
  operand of `&&` or `||` keeps the value of one side (excepted in `TypedAgrees`).
* Its loop exit edge names the header once more, and `canonicalize_cfg` refuses some graphs
  for it; `merge_predecessor_scopes` takes the scopes of the first edge; the code generator
  emits blocks in the order of their numbers, so a value defined in an inner block and used
  behind the loop can be missing.  These lose the typed path, not the meaning.
* The callable lowerer goes on behind a labeled block with the types of its normal end, and into
  the test of a `do`-`while` or the update of a `for` with those of the body's normal end,
  though a `break` or `continue` may come with others (`JumpsPastWrites` in
  `CellsHoldTheirTypes`).  It widens the variables of a loop or `switch` in one pass over the
  assignments, so a chain of two escapes it (`ChainsWrites`), although a comment in `lower_switch`
  promises one representation valid for every path.  Equality, in `===` and in the cases
  of a `switch`, is decided from the same types; `CompiledAgrees` is stated of executions
  that read each cell for the type it holds.
* `var_hoist` turns a `for` with a `var` in its head into a block, which the label of the
  loop does not reach through: `continue label` in it fails (`LosesLabel` in `HoistAgrees`).  It
  reaches functions through their declarations only, so a function expression keeps its
  vars, for which a block is then a scope (`KeepsVars`).
* `aggregate_scalar` resolves the names of a function where the function stands, before the
  declarations that follow it: a function that mentions a later object of the same name as
  an outer one takes the outer one's variables (`MentionedAhead` in `ScalarizedAgrees`).  A
  copy `{...o}` of a replaced object into one that escapes makes the pass give the program up
  although it could keep `o` (`CopiedToObject`), and analysis then fails.  A literal key
  `__proto__` becomes a field like any other.
* `completion_native` copies catch and finally bodies for the ways into them, into the scopes
  of that place: a name of the handler that the try declares is captured (`Captured` in
  `TryErasureAgrees`); a generator
  keeps one exception slot whatever the nesting, and a call that throws inside its `try` is
  not routed to the handler.

Observed while reading, and not judged by a property: a spread argument that cannot be
spread is left out of the call in silence; the comment in `take_direct_tail_call` speaks of a fresh `argv` for each
tail call, where the code generator shares one buffer; a sloppy function's primitive receiver
is not boxed; `.call`, `.apply` and `.bind` of any object are taken for those of functions; a callback that returns its own
derived promise makes the interpreter wait for ever where the C ABI rejects with a
cycle error; a host error below a `then` getter becomes a rejection; `await_value` does
not mark the promise it waits for as handled.

## Not modelled, and the plan

Value conversions and formatting have no state.  The translation of the parser's tree, the
driver, the native host and the text the LLVM code generator emits are syntax-directed or
process I/O.  The remaining parts, in order of importance:

1. `static_graph` (inlining of closures and object graphs before completion lowering) against
   `Statements`, and with it `this` and method calls;
2. captures and cells of closures, objects and the dynamic operators of the callable lowerer
   and of the callable ABI, so that bodies with functions and objects are followed to blocks;
3. async normalisation, the effect analysis, class lowering and the simple generator pass;
4. an inductive invariant for `OrderKept`, over what a pass has visited;
5. property lookup of the compatibility runtime with attributes, against the native object
   ABI's.
