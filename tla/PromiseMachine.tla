---------------------------- MODULE PromiseMachine ----------------------------
(***************************************************************************)
(* Promises, promise jobs and async functions of the Rust runtime          *)
(* (crates/ecmora-runtime/src/lib.rs, struct Machine).                     *)
(*                                                                         *)
(* The interpreter is a single thread; what makes it hard is its control   *)
(* stack.  A job calls a user callback, user code constructs promises whose *)
(* executors run at once, resolving a promise with an object reads and     *)
(* calls the object's "then" at once, an async function runs up to its     *)
(* first await, and an await nested in an expression runs other jobs while *)
(* its caller is suspended in the middle of a statement.  stack is that    *)
(* Rust call stack, one frame per piece of user code or per run_job that   *)
(* is waiting for one; the JavaScript program is open: its frame may make  *)
(* any call with the values it holds.  A reaction's id and source are      *)
(* history.                                                                *)
(***************************************************************************)
EXTENDS Naturals, Sequences, FiniteSets

CONSTANTS
    MaxPromises,   \* bound: promises, over all programs
    Plain,         \* values that are neither promises nor objects with a then
    Undefined,     \* Value::Undefined
    HostError,     \* an internal error rendered as a string
    CycleError,    \* "Chaining cycle detected for promise"
    MaxReactions,  \* bound: attachments, over all programs
    Programs       \* the programs to run: what each uses, and its bounds

Promise == 1 .. MaxPromises   \* promise handles, given out in order

AllFeatures == {"constructor", "then", "async", "await", "object", "getter", "reason"}

ASSUME ValuesAssumption ==
    /\ Undefined \in Plain
    /\ (Plain \union {HostError, CycleError}) \intersect Promise = {}
ASSUME BoundsAssumption == MaxPromises \in Nat /\ MaxReactions \in Nat
ASSUME ProgramsAssumption ==
    Programs \subseteq [features : SUBSET AllFeatures, promises : 0 .. MaxPromises,
                        reactions : 0 .. MaxReactions, depth : Nat]

VARIABLES
    program,    \* the program that is run
    state, result, reactions,  \* PromiseObject, per promise
    handled, reported,         \* PromiseObject.handled, .reported_unhandled
    jobs,       \* Machine.jobs
    events,     \* Machine.host_events
    tasks,      \* Machine.async_tasks
    capable,    \* promises whose Resolve and Reject functions exist
    origin,     \* the operation that created the promise
    stack,      \* the interpreter's frames, the running one last
    phase,      \* script, drain, deliver, done or aborted
    attached,   \* how many reactions were attached so far
    swallowed   \* history: a host error became a rejection

cells == <<state, result, reactions>>
tracking == <<handled, reported, events>>
vars == <<program, state, result, reactions, handled, reported, jobs, events, tasks,
          capable, origin, stack, phase, attached, swallowed>>

Value == Plain \union {HostError, CycleError} \union Promise
Settled == {"fulfilled", "rejected"}
State == {"free", "pending"} \union Settled
Origin == {"free", "constructor", "static", "then", "async", "ignored"}
TaskId == 1 .. MaxReactions

(* FunctionKind, as far as a reaction's handler goes.                      *)
NoHandler == [kind |-> "none"]
UserHandler == [kind |-> "user"]
ResumeNextTask(task, rejected) ==
    [kind |-> "resume", task |-> task + 1, rejected |-> rejected]

Resume(task, rejected) == [kind |-> "resume", task |-> task, rejected |-> rejected]
Preserve(v, rejected) == [kind |-> "preserve", original |-> v, rejected |-> rejected]

Handler ==
    {NoHandler, UserHandler}
    \union {Resume(k, b) : k \in TaskId, b \in BOOLEAN}
    \union {Preserve(v, b) : v \in Value, b \in BOOLEAN}

Reaction == [fulfilled : Handler, rejected : Handler, next : Promise,
             finally : BOOLEAN, id : Nat, source : Promise]
Job == [reaction : Reaction, state : Settled, value : Value]
NoTask == [live |-> FALSE]
Task == {NoTask}
        \union [live : {TRUE}, promise : Promise, action : {"continue", "return"}]
Event == [promise : Promise, operation : {"Reject", "Handle"}]

(* Frames.  A resolving frame is a Promise executor or a thenable's then,  *)
(* called with the resolving functions of promise.                         *)
Frame ==
    [kind : {"script"}]
    \union [kind : {"callback", "resume"}, job : Job]
    \union [kind : {"resolving", "getter", "async", "await"}, promise : Promise]

TypeOK ==
    /\ program \in Programs
    /\ state \in [Promise -> State]
    /\ result \in [Promise -> Value]
    /\ \A p \in Promise : \A i \in DOMAIN reactions[p] : reactions[p][i] \in Reaction
    /\ handled \in [Promise -> BOOLEAN]
    /\ reported \in [Promise -> BOOLEAN]
    /\ \A i \in DOMAIN jobs : jobs[i] \in Job
    /\ \A i \in DOMAIN events : events[i] \in Event
    /\ tasks \in Seq(Task)
    /\ capable \subseteq Promise
    /\ origin \in [Promise -> Origin]
    /\ \A i \in DOMAIN stack : stack[i] \in Frame
    /\ phase \in {"script", "drain", "deliver", "done", "aborted"}
    /\ attached \in 0 .. program.reactions
    /\ swallowed \in BOOLEAN

Init ==
    /\ program \in Programs
    /\ state = [p \in Promise |-> "free"]
    /\ result = [p \in Promise |-> Undefined]
    /\ reactions = [p \in Promise |-> << >>]
    /\ handled = [p \in Promise |-> FALSE]
    /\ reported = [p \in Promise |-> FALSE]
    /\ jobs = << >>
    /\ events = << >>
    /\ tasks = << >>
    /\ capable = {}
    /\ origin = [p \in Promise |-> "free"]
    /\ stack = <<[kind |-> "script"]>>
    /\ phase = "script"
    /\ attached = 0
    /\ swallowed = FALSE

-----------------------------------------------------------------------------
(* settle, attach_reaction and resolve_into for values without a then.     *)
(* Each has the queue it starts from as a parameter, so that it can follow *)
(* a pop_front, and is also used on a promise created in the same step.    *)

Live == {p \in Promise : state[p] # "free"}
Held == Plain \union Live
Reason == IF "reason" \in program.features THEN Held ELSE Plain  \* may be thrown

(* Variants with a plausible defect, which the properties must rule out,   *)
(* stand before the definition they vary.                                  *)
SettleSwapped(p, st, v, q) ==
    /\ state' = [state EXCEPT ![p] = v]
    /\ result' = [result EXCEPT ![p] = st]
    /\ reactions' = [reactions EXCEPT ![p] = << >>]
    /\ jobs' = q
    /\ UNCHANGED <<tracking, attached>>

SettleReversed(p, st, v, q) ==
    /\ state' = [state EXCEPT ![p] = st]
    /\ result' = [result EXCEPT ![p] = v]
    /\ reactions' = [reactions EXCEPT ![p] = << >>]
    /\ LET rs == reactions[p]
       IN jobs' = q \o [i \in 1 .. Len(rs) |->
                          [reaction |-> rs[Len(rs) - i + 1], state |-> st, value |-> v]]
    /\ UNCHANGED <<tracking, attached>>

Settle(p, st, v, q) ==
    /\ state' = [state EXCEPT ![p] = st]
    /\ result' = [result EXCEPT ![p] = v]
    /\ reactions' = [reactions EXCEPT ![p] = << >>]
    /\ jobs' = q \o [i \in 1 .. Len(reactions[p]) |->
                        [reaction |-> reactions[p][i], state |-> st, value |-> v]]
    /\ UNCHANGED <<tracking, attached>>

IfPendingAlways(p, q, Effect) == Effect

IfPending(p, q, Effect) ==
    \/ state[p] = "pending" /\ Effect
    \/ /\ state[p] # "pending"
       /\ jobs' = q
       /\ UNCHANGED <<cells, tracking, attached>>

NewReaction(src, f, r, next, finally) ==
    [fulfilled |-> f, rejected |-> r, next |-> next, finally |-> finally,
     id |-> attached + 1, source |-> src]

(* next, created in the same step or pending, waits on src.                *)
Attach(src, f, r, next, finally, q) ==
    LET reaction == NewReaction(src, f, r, next, finally) IN
    /\ attached < program.reactions
    /\ attached' = attached + 1
    /\ handled' = [handled EXCEPT ![src] = TRUE]
    /\ IF reported[src] /\ state[src] = "rejected"
       THEN /\ reported' = [reported EXCEPT ![src] = FALSE]
            /\ events' = Append(events, [promise |-> src, operation |-> "Handle"])
       ELSE UNCHANGED <<reported, events>>
    /\ IF state[src] = "pending"
       THEN reactions' = [reactions EXCEPT ![src] = Append(@, reaction)] /\ jobs' = q
       ELSE /\ jobs' = Append(q, [reaction |-> reaction, state |-> state[src],
                                  value |-> result[src]])
            /\ UNCHANGED reactions
    /\ state' = [state EXCEPT ![next] = IF @ = "free" THEN "pending" ELSE @]
    /\ UNCHANGED result

ResolveIntoShallow(p, v, q) == Settle(p, "fulfilled", v, q)

ResolveInto(p, v, q) ==
    IF v \notin Promise THEN Settle(p, "fulfilled", v, q)
    ELSE IF v = p THEN Settle(p, "rejected", CycleError, q)
    ELSE Attach(v, NoHandler, NoHandler, p, FALSE, q)

Push(frame) ==
    /\ Len(stack) < program.depth
    /\ stack' = Append(stack, frame)

Top == stack[Len(stack)]
TopIs(kind) == stack # << >> /\ Top.kind = kind
Below == SubSeq(stack, 1, Len(stack) - 1)
Pop == stack' = Below

(* resolve_into for an object: its then is read, by a getter perhaps, and, *)
(* when it is a function, called with new resolving functions of p.        *)
CallThen(p, frames) ==
    /\ Len(frames) < program.depth
    /\ capable' = capable \union {p}
    /\ stack' = Append(frames, [kind |-> "resolving", promise |-> p])

ReadThen(p, frames) ==
    /\ "getter" \in program.features
    /\ Len(frames) < program.depth
    /\ stack' = Append(frames, [kind |-> "getter", promise |-> p])
    /\ UNCHANGED capable

ResolveObject(p, frames) ==
    "object" \in program.features /\ (CallThen(p, frames) \/ ReadThen(p, frames))

-----------------------------------------------------------------------------
(* What user code may do: the running frame calls into the machine.        *)

UserCode == stack # << >> /\ Top.kind \notin {"resume", "await"}

Create(p, how) ==
    /\ UserCode
    /\ p = Cardinality(Live) + 1 /\ p <= program.promises
    /\ origin' = [origin EXCEPT ![p] = how]
    /\ UNCHANGED <<phase, swallowed, program>>

Pending(p) ==
    /\ state' = [state EXCEPT ![p] = "pending"]
    /\ UNCHANGED <<result, reactions, jobs, tracking, attached>>

(* new Promise(executor)                                                   *)
NewPromise(p) ==
    /\ "constructor" \in program.features
    /\ Create(p, "constructor")
    /\ Pending(p)
    /\ capable' = capable \union {p}
    /\ Push([kind |-> "resolving", promise |-> p])
    /\ UNCHANGED tasks

PromiseResolve(p, v) ==
    /\ v \in Plain
    /\ Create(p, "static")
    /\ ResolveInto(p, v, jobs)
    /\ UNCHANGED <<tasks, capable, stack>>

PromiseResolveObject(p) ==
    /\ Create(p, "static")
    /\ Pending(p)
    /\ ResolveObject(p, stack)
    /\ UNCHANGED tasks

PromiseReject(p, v) ==
    /\ v \in Reason
    /\ Create(p, "static")
    /\ Settle(p, "rejected", v, jobs)
    /\ UNCHANGED <<tasks, capable, stack>>

CallResolve(p, v) ==
    /\ UserCode
    /\ p \in capable /\ v \in Held
    /\ IfPending(p, jobs, ResolveInto(p, v, jobs))
    /\ UNCHANGED <<tasks, capable, origin, stack, phase, swallowed, program>>

CallResolveObject(p) ==
    /\ UserCode
    /\ p \in capable /\ state[p] = "pending"
    /\ ResolveObject(p, stack)
    /\ UNCHANGED <<cells, tracking, jobs, tasks, origin, phase, attached, swallowed, program>>

CallReject(p, v) ==
    /\ UserCode
    /\ p \in capable /\ v \in Reason
    /\ IfPending(p, jobs, Settle(p, "rejected", v, jobs))
    /\ UNCHANGED <<tasks, capable, origin, stack, phase, swallowed, program>>

(* .then, .catch and .finally, which passes its callback for both outcomes *)
Then(src, f, r, finally, next) ==
    /\ "then" \in program.features
    /\ src \in Live
    /\ finally => f = r
    /\ Create(next, "then")
    /\ Attach(src, f, r, next, finally, jobs)
    /\ UNCHANGED <<tasks, capable, stack>>

(* Calling an async function: its body runs before the call returns.       *)
AsyncCall(p) ==
    /\ "async" \in program.features
    /\ Create(p, "async")
    /\ Pending(p)
    /\ Push([kind |-> "async", promise |-> p])
    /\ UNCHANGED <<tasks, capable>>

-----------------------------------------------------------------------------
(* An async body, the frame on top, goes on to its next await or its end.  *)

InAsync == TopIs("async")

(* An await that is a whole statement: the rest of the body becomes a task *)
(* and the call returns to whoever started or resumed the body.            *)
DirectAwait(src, action, ignored) ==
    /\ InAsync
    /\ src \in Live
    /\ Create(ignored, "ignored")
    /\ tasks' = Append(tasks, [live |-> TRUE, promise |-> Top.promise, action |-> action])
    /\ Attach(src, Resume(Len(tasks) + 1, FALSE), Resume(Len(tasks) + 1, TRUE),
              ignored, FALSE, jobs)
    /\ Pop
    /\ UNCHANGED capable

(* An await inside an expression, and every await of the top level, runs    *)
(* jobs here and now (await_value).                                        *)
NestedAwait(src) ==
    /\ "await" \in program.features
    /\ InAsync \/ TopIs("script")
    /\ src \in Live
    /\ Push([kind |-> "await", promise |-> src])
    /\ UNCHANGED <<cells, tracking, jobs, tasks, capable, origin, phase, attached, swallowed, program>>

AsyncReturn(v) ==
    /\ InAsync
    /\ v \in Held
    /\ IfPending(Top.promise, jobs, ResolveInto(Top.promise, v, jobs))
    /\ Pop
    /\ UNCHANGED <<tasks, capable, origin, phase, swallowed, program>>

AsyncReturnObject ==
    /\ InAsync
    /\ state[Top.promise] = "pending"
    /\ ResolveObject(Top.promise, Below)
    /\ UNCHANGED <<cells, tracking, jobs, tasks, origin, phase, attached, swallowed, program>>

AsyncThrow(v) ==
    /\ InAsync
    /\ v \in Reason
    /\ IfPending(Top.promise, jobs, Settle(Top.promise, "rejected", v, jobs))
    /\ Pop
    /\ UNCHANGED <<tasks, capable, origin, phase, swallowed, program>>

(* Executors, then functions and getters end.                              *)
ResolvingReturns ==
    /\ TopIs("resolving")
    /\ Pop
    /\ UNCHANGED <<cells, tracking, jobs, tasks, capable, origin, phase, attached, swallowed, program>>

ResolvingThrows(v) ==
    /\ TopIs("resolving") \/ TopIs("getter")
    /\ v \in Reason
    /\ IfPending(Top.promise, jobs, Settle(Top.promise, "rejected", v, jobs))
    /\ Pop
    /\ UNCHANGED <<tasks, capable, origin, phase, swallowed, program>>

GetterReturnsFunction ==
    /\ TopIs("getter")
    /\ CallThen(Top.promise, Below)
    /\ UNCHANGED <<cells, tracking, jobs, tasks, origin, phase, attached, swallowed, program>>

GetterReturnsOther ==
    /\ TopIs("getter")
    /\ IfPending(Top.promise, jobs, Settle(Top.promise, "fulfilled", Undefined, jobs))
    /\ Pop
    /\ UNCHANGED <<tasks, capable, origin, phase, swallowed, program>>

-----------------------------------------------------------------------------
(* run_job, from drain_jobs or from the loop of await_value.               *)

Next1 == Head(jobs)
Rest == Tail(jobs)
Callback(job) == IF job.state = "fulfilled" THEN job.reaction.fulfilled ELSE job.reaction.rejected

MayRunJob ==
    /\ jobs # << >>
    /\ \/ phase = "drain" /\ stack = << >>
       \/ TopIs("await") /\ state[Top.promise] = "pending"

JobIs(kind) == MayRunJob /\ Callback(Next1).kind = kind

JobPassesOnUnpopped ==
    /\ JobIs("none")
    /\ IfPending(Next1.reaction.next, jobs,
                 Settle(Next1.reaction.next, Next1.state, Next1.value, jobs))
    /\ UNCHANGED <<tasks, capable, origin, stack, phase, swallowed, program>>

JobPassesOn ==
    /\ JobIs("none")
    /\ IfPending(Next1.reaction.next, Rest,
                 Settle(Next1.reaction.next, Next1.state, Next1.value, Rest))
    /\ UNCHANGED <<tasks, capable, origin, stack, phase, swallowed, program>>

JobCallsUser ==
    /\ JobIs("user")
    /\ Push([kind |-> "callback", job |-> Next1])
    /\ jobs' = Rest
    /\ UNCHANGED <<cells, tracking, tasks, capable, origin, phase, attached, swallowed, program>>

(* The end of a reaction's callback, whoever it was: what it returned      *)
(* settles the promise of the reaction, or is waited for.                  *)
Complete(job, v, q) ==
    LET next == job.reaction.next IN
    IF v \in Promise
    THEN Attach(v,
                IF job.reaction.finally THEN Preserve(job.value, job.state = "rejected")
                                        ELSE NoHandler,
                NoHandler, next, FALSE, q)
    ELSE IfPending(next, q,
             IF job.reaction.finally THEN Settle(next, job.state, job.value, q)
                                     ELSE Settle(next, "fulfilled", v, q))

CallbackReturns(v) ==
    /\ TopIs("callback")
    /\ v \in Held
    /\ Complete(Top.job, v, jobs)
    /\ Pop
    /\ UNCHANGED <<tasks, capable, origin, phase, swallowed, program>>

CallbackThrowsUnsettled(v) ==
    /\ TopIs("callback")
    /\ v \in Reason
    /\ Pop
    /\ UNCHANGED <<cells, tracking, jobs, tasks, capable, origin, phase, attached, swallowed, program>>

CallbackThrows(v) ==
    /\ TopIs("callback")
    /\ v \in Reason
    /\ IfPending(Top.job.reaction.next, jobs,
                 Settle(Top.job.reaction.next, "rejected", v, jobs))
    /\ Pop
    /\ UNCHANGED <<tasks, capable, origin, phase, swallowed, program>>

JobPreserves ==
    /\ JobIs("preserve")
    /\ LET callback == Callback(Next1)
           next == Next1.reaction.next
       IN IF callback.rejected
          THEN IfPending(next, Rest, Settle(next, "rejected", callback.original, Rest))
          ELSE Complete(Next1, callback.original, Rest)
    /\ UNCHANGED <<tasks, capable, origin, stack, phase, swallowed, program>>

(* resume_async takes the task, which is gone for a second call.  The job's *)
(* frame stays until the resumed body gives control back.                  *)
ResumeFrame == [kind |-> "resume", job |-> Next1]

JobResumes ==
    /\ JobIs("resume")
    /\ Len(stack) + 1 < program.depth
    /\ LET callback == Callback(Next1)
           task == tasks[callback.task]
           frames == Append(stack, ResumeFrame)
           settles == IF callback.rejected THEN Settle(task.promise, "rejected", Next1.value, Rest)
                      ELSE ResolveInto(task.promise, Next1.value, Rest)
           nothing == jobs' = Rest /\ UNCHANGED <<cells, tracking, attached>>
       IN /\ tasks' = [tasks EXCEPT ![callback.task] = NoTask]
          /\ \/ /\ ~task.live
                /\ nothing /\ stack' = frames /\ UNCHANGED capable
             \/ /\ task.live /\ (callback.rejected \/ task.action = "return")
                /\ IfPending(task.promise, Rest, settles)
                /\ stack' = frames /\ UNCHANGED capable
             \/ /\ task.live /\ ~callback.rejected /\ task.action = "return"
                /\ state[task.promise] = "pending" /\ Next1.value \in Plain
                /\ nothing /\ ResolveObject(task.promise, frames)
             \/ /\ task.live /\ ~callback.rejected /\ task.action = "continue"
                /\ nothing /\ UNCHANGED capable
                /\ stack' = Append(frames, [kind |-> "async", promise |-> task.promise])
    /\ UNCHANGED <<origin, phase, swallowed, program>>

ResumeDone ==
    /\ TopIs("resume")
    /\ Complete(Top.job, Undefined, jobs)
    /\ Pop
    /\ UNCHANGED <<tasks, capable, origin, phase, swallowed, program>>

-----------------------------------------------------------------------------
(* The loop of await_value ends.                                           *)

AwaitReturns ==
    /\ TopIs("await")
    /\ state[Top.promise] = "fulfilled"
    /\ Pop
    /\ UNCHANGED <<cells, tracking, jobs, tasks, capable, origin, phase, attached, swallowed, program>>

(* The rejection is thrown at the await: a try statement takes it, or it   *)
(* becomes the rejection of the async function's promise or ends the script. *)
AwaitThrowsCaught ==
    /\ TopIs("await")
    /\ state[Top.promise] = "rejected"
    /\ Pop
    /\ UNCHANGED <<cells, tracking, jobs, tasks, capable, origin, phase, attached, swallowed, program>>

AwaitThrows ==
    /\ TopIs("await")
    /\ state[Top.promise] = "rejected"
    /\ LET caller == stack[Len(stack) - 1] IN
       \/ /\ caller.kind = "async"
          /\ IfPending(caller.promise, jobs,
                       Settle(caller.promise, "rejected", result[Top.promise], jobs))
          /\ UNCHANGED phase
       \/ /\ caller.kind = "script"
          /\ phase' = "aborted"
          /\ UNCHANGED <<cells, tracking, jobs, attached>>
    /\ stack' = SubSeq(stack, 1, Len(stack) - 2)
    /\ UNCHANGED <<tasks, capable, origin, swallowed, program>>

(* Nothing left to run: a host error, which leaves every Rust frame up to  *)
(* the property read in resolve_into, where it turns into a rejection, or  *)
(* else the interpreter.                                                   *)
Getters == {i \in DOMAIN stack : stack[i].kind = "getter"}

AwaitStuck ==
    /\ TopIs("await")
    /\ state[Top.promise] = "pending" /\ jobs = << >>
    /\ \/ /\ Getters = {}
          /\ phase' = "aborted"
          /\ stack' = << >>
          /\ UNCHANGED <<cells, tracking, jobs, attached, swallowed>>
       \/ \E i \in Getters :
          /\ \A j \in Getters : j <= i
          /\ IfPending(stack[i].promise, jobs,
                       Settle(stack[i].promise, "rejected", HostError, jobs))
          /\ stack' = SubSeq(stack, 1, i - 1)
          /\ swallowed' = TRUE
          /\ UNCHANGED phase
    /\ UNCHANGED <<tasks, capable, origin, program>>

-----------------------------------------------------------------------------
(* execute_program: the script, the drain, the rejection tracker.          *)

ScriptEnds ==
    /\ TopIs("script")
    /\ Pop
    /\ phase' = "drain"
    /\ UNCHANGED <<cells, tracking, jobs, tasks, capable, origin, attached, swallowed, program>>

ScriptThrows ==
    /\ TopIs("script")
    /\ Pop
    /\ phase' = "aborted"
    /\ UNCHANGED <<cells, tracking, jobs, tasks, capable, origin, attached, swallowed, program>>

UnreportedForeign ==
    {p \in Promise : state[p] = "rejected" /\ ~handled[p] /\ ~reported[p] /\ origin[p] # "async"}

Unreported == {p \in Promise : state[p] = "rejected" /\ ~handled[p] /\ ~reported[p]}

(* The rejections nobody handled, in the order the promises were created.  *)
InOrder(S) == {s \in [1 .. Cardinality(S) -> S] : \A i, j \in DOMAIN s : i < j => s[i] < s[j]}

ReportRejections ==
    /\ phase = "drain" /\ stack = << >> /\ jobs = << >>
    /\ reported' = [p \in Promise |-> reported[p] \/ p \in Unreported]
    /\ \E unreported \in InOrder(Unreported) :
          events' = events \o [i \in 1 .. Cardinality(Unreported) |->
                                 [promise |-> unreported[i], operation |-> "Reject"]]
    /\ phase' = "deliver"
    /\ UNCHANGED <<cells, handled, jobs, tasks, capable, origin, stack, attached, swallowed, program>>

(* The host's tracker may refuse an event; the default one does.           *)
DeliverEvent ==
    /\ phase = "deliver" /\ events # << >>
    /\ events' = Tail(events)
    /\ phase' \in {"deliver", "aborted"}
    /\ UNCHANGED <<cells, handled, reported, jobs, tasks, capable, origin, stack,
                   attached, swallowed, program>>

Exit ==
    /\ phase = "deliver" /\ events = << >>
    /\ phase' = "done"
    /\ UNCHANGED <<cells, tracking, jobs, tasks, capable, origin, stack, attached, swallowed, program>>

-----------------------------------------------------------------------------
MakePromise == \E p \in Promise :
    \/ NewPromise(p) \/ PromiseResolveObject(p) \/ AsyncCall(p)
    \/ \E v \in Value : PromiseResolve(p, v) \/ PromiseReject(p, v)

UsePromise == \E p \in Promise :
    \/ CallResolveObject(p)
    \/ \E v \in Value : CallResolve(p, v) \/ CallReject(p, v)
    \/ \E f, r \in {NoHandler, UserHandler}, finally \in BOOLEAN, next \in Promise :
          Then(p, f, r, finally, next)

Awaits == \E src \in Promise : NestedAwait(src)

AsyncBodyEnds ==
    \/ AsyncReturnObject
    \/ \E v \in Value : AsyncReturn(v) \/ AsyncThrow(v)
    \/ \E src, ignored \in Promise, action \in {"continue", "return"} :
          DirectAwait(src, action, ignored)

EndOfCode ==
    \/ ResolvingReturns \/ GetterReturnsFunction \/ GetterReturnsOther
    \/ ScriptEnds \/ ScriptThrows
    \/ \E v \in Value : ResolvingThrows(v) \/ CallbackReturns(v) \/ CallbackThrows(v)

RunJob == JobPassesOn \/ JobCallsUser \/ JobPreserves \/ JobResumes \/ ResumeDone

AwaitLoop == AwaitReturns \/ AwaitThrowsCaught \/ AwaitThrows \/ AwaitStuck

Report == ReportRejections \/ DeliverEvent \/ Exit

Next ==
    \/ MakePromise \/ UsePromise \/ Awaits
    \/ AsyncBodyEnds \/ EndOfCode \/ RunJob \/ AwaitLoop \/ Report

(* User code does not loop for ever: code that gets control back again and *)
(* again comes to its end or suspends.  The loops of await_value and       *)
(* drain_jobs are sequential code and go on.                               *)
Fairness ==
    /\ SF_vars(EndOfCode \/ AsyncBodyEnds)
    /\ WF_vars(RunJob)
    /\ WF_vars(AwaitLoop)
    /\ WF_vars(Report)

Spec == Init /\ [][Next]_vars
FairSpec == Spec /\ Fairness

-----------------------------------------------------------------------------
(* Correctness.                                                            *)

Frames(kinds) == {i \in DOMAIN stack : stack[i].kind \in kinds}
WaitingOn(p) == {reactions[p][i] : i \in DOMAIN reactions[p]}
Waiting == UNION {WaitingOn(p) : p \in Promise}
Queued == {jobs[i].reaction : i \in DOMAIN jobs}
Running == {stack[i].job.reaction : i \in Frames({"callback", "resume"})}

(* First settlement wins for good: settle is the only writer and a promise *)
(* it settled keeps its state, through nested drains and late calls of its *)
(* resolving functions.                                                    *)
SettledOnce ==
    [][\A p \in Promise : state[p] \in Settled =>
          state'[p] = state[p] /\ result'[p] = result[p]]_vars

(* No promise is fulfilled with a promise, although a callback's plain     *)
(* result is settled without going through resolve_into.                   *)
FulfilledNeverPromise ==
    \A p \in Promise : state[p] = "fulfilled" => result[p] \notin Promise

(* Everything that may still settle p on its own account: a reaction, job  *)
(* or callback in progress whose next is p, a suspended or running async   *)
(* body, an object's then that is being read or called for p.              *)
Drivers(p) ==
    {<<"reaction", x.id>> : x \in {y \in Waiting \union Queued \union Running : y.next = p}}
    \union {<<"task", k>> : k \in {j \in DOMAIN tasks : tasks[j].live /\ tasks[j].promise = p}}
    \union {<<"frame", i>> : i \in {j \in Frames({"async", "getter", "resolving"}) :
                                      stack[j].promise = p}}

(* A promise the program holds no resolving functions of is settled by     *)
(* exactly one thing: while it is pending that one exists, so it cannot be *)
(* forgotten, and once it is settled nothing else is on its way to it.  A  *)
(* host error that a getter swallowed has unwound drivers, see AwaitStuck. *)
OneDriver ==
    \A p \in Promise \ capable :
        ~swallowed /\ phase # "aborted" /\ state[p] # "free" =>
            Cardinality(Drivers(p)) = IF state[p] = "pending" THEN 1 ELSE 0

(* A suspended async body is resumed by exactly one reaction, and resumed  *)
(* at most once: no reaction for a task that was taken is still around.    *)
ResumedOnce ==
    \A k \in DOMAIN tasks :
        LET resumers == {x \in Waiting \union Queued :
                            x.fulfilled.kind = "resume" /\ x.fulfilled.task = k}
        IN Cardinality(resumers) = IF tasks[k].live THEN 1 ELSE 0

(* A rejection is never silent: when the drain is over, the host was told  *)
(* of every rejected promise, or some promise or callback reacted to it.   *)
(* (A reaction is used up once it is neither waiting nor queued.)          *)
RejectionsSurface ==
    phase \in {"deliver", "done"} =>
        \A p \in Promise : state[p] = "rejected" =>
            IF reported[p] THEN ~handled[p] ELSE handled[p] /\ WaitingOn(p) = {}

(* A reaction of a settled promise is run before the program ends, unless  *)
(* the program fails.  An object whose then settles new promises with      *)
(* itself keeps run_job calling back for ever, so programs with such       *)
(* objects are excepted.                                                   *)
JobsRun ==
    \A r \in 1 .. MaxReactions :
        ("object" \notin program.features /\ \E x \in Queued : x.id = r)
            ~> (phase = "aborted" \/ \A x \in Queued : x.id # r)

(* The machine implements the promise contract: no reaction of a settled   *)
(* promise stays behind, and the reactions of one promise run in the order *)
(* of their attachment, also when an await runs jobs.                      *)
Life(r) ==
    IF \E x \in Waiting : x.id = r THEN "waiting"
    ELSE IF \E x \in Queued : x.id = r THEN "ready"
    ELSE IF r <= attached THEN "done" ELSE "none"

SourceOf(r) ==
    IF \E x \in Waiting \union Queued : x.id = r
    THEN (CHOOSE x \in Waiting \union Queued : x.id = r).source
    ELSE 0

Contract == INSTANCE PromiseContract WITH
    outcome <- state,
    life <- [r \in 1 .. MaxReactions |-> Life(r)],
    source <- [r \in 1 .. MaxReactions |-> SourceOf(r)]

ImplementsContract == Contract!Spec

(* What tests/promise-constructor-settlement.js says of the constructor:   *)
(* the first call of a resolving function wins.  A promise whose first     *)
(* call adopted another promise waits with an identity reaction; a later   *)
(* call of its functions, which user code makes without leaving its frame, *)
(* should do nothing.                                                      *)
Adopting(p) ==
    state[p] = "pending"
    /\ \E x \in Waiting \union Queued :
          x.next = p /\ x.fulfilled = NoHandler /\ x.rejected = NoHandler

FirstResolvingCallWins ==
    [][UserCode /\ stack' = stack =>
          \A p \in Promise : origin[p] = "constructor" /\ Adopting(p) =>
              state'[p] = "pending"]_vars

=============================================================================
