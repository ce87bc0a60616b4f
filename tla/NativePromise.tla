---------------------------- MODULE NativePromise ----------------------------
(***************************************************************************)
(* The promise ABI of the native runtime, runtime/native/promise_abi.c:    *)
(* EcmoraPromise cells with a linked list of reactions, and one global     *)
(* microtask list drained by ecmora_microtask_drain.                       *)
(*                                                                         *)
(* The program that calls the ABI is left open: while it runs (from main,  *)
(* or from a handler the drain loop called) it may make any call of the    *)
(* ABI with the promises it holds.  Memory addresses become elements of    *)
(* Promise, a linked list becomes a sequence, an EcmoraValue is a promise  *)
(* or an element of Plain.  The fields id and source of reactions and jobs *)
(* are history: the number of the attachment and the promise it was made   *)
(* to, which the C structures do not keep.                                 *)
(***************************************************************************)
EXTENDS Naturals, Sequences

CONSTANTS
    Promise,       \* addresses ecmora_promise_allocate may return
    Plain,         \* values that are not promises
    Undefined,     \* ecmora_undefined_value()
    Handler,       \* closures a program passes as reactions
    NullHandler,   \* a NULL closure pointer
    MaxReactions   \* bound: attachments in one behaviour

ASSUME ValuesAssumption ==
    /\ Undefined \in Plain
    /\ Plain \intersect Promise = {}
    /\ NullHandler \notin Handler
ASSUME MaxReactionsAssumption == MaxReactions \in Nat

VARIABLES
    state,      \* state[p], "free" before ecmora_promise_allocate returns p
    result,     \* result[p]
    reactions,  \* reactions[p], the list reactions_head .. reactions_tail
    jobs,       \* the list microtask_head .. microtask_tail
    origin,     \* origin[p]: the ABI call that allocated p
    running,    \* the job whose handler the drain loop is calling, or <<>>
    phase,      \* "main" outside ecmora_microtask_drain, "drain" inside
    attached    \* how many reactions were attached so far

heap == <<state, result, reactions, jobs>>
vars == <<state, result, reactions, jobs, origin, running, phase, attached>>

Value == Plain \union Promise
Settled == {"fulfilled", "rejected"}
State == {"free", "pending"} \union Settled
Origin == {"free", "resolved", "rejected", "pending", "then"}
Reaction == [onFulfilled : Handler \union {NullHandler},
             onRejected : Handler \union {NullHandler},
             next : Promise, id : Nat, source : Promise]
Job == [state : Settled, argument : Value, handler : Handler \union {NullHandler},
        next : Promise, id : Nat, source : Promise]

TypeOK ==
    /\ state \in [Promise -> State]
    /\ result \in [Promise -> Value]
    /\ reactions \in [Promise -> Seq(Reaction)]
    /\ jobs \in Seq(Job)
    /\ origin \in [Promise -> Origin]
    /\ running \in Job \union {<< >>}
    /\ phase \in {"main", "drain"}
    /\ attached \in Nat

Init ==
    /\ state = [p \in Promise |-> "free"]
    /\ result = [p \in Promise |-> Undefined]
    /\ reactions = [p \in Promise |-> << >>]
    /\ jobs = << >>
    /\ origin = [p \in Promise |-> "free"]
    /\ running = << >>
    /\ phase = "main"
    /\ attached = 0

-----------------------------------------------------------------------------
(* Helpers: the static functions of promise_abi.c.                         *)

Live == {p \in Promise : state[p] # "free"}
Held == Plain \union Live   \* values the program can pass

(* Variants with a plausible defect, which the properties must rule out,   *)
(* stand before the definition they vary.                                  *)
JobOfFulfilled(r, st, v) ==
    [state |-> "fulfilled", argument |-> v, handler |-> r.onFulfilled,
     next |-> r.next, id |-> r.id, source |-> r.source]

JobOf(r, st, v) ==
    [state |-> st, argument |-> v,
     handler |-> IF st = "fulfilled" THEN r.onFulfilled ELSE r.onRejected,
     next |-> r.next, id |-> r.id, source |-> r.source]

JobsOfReversed(rs, st, v) ==
    [i \in 1 .. Len(rs) |-> JobOf(rs[Len(rs) - i + 1], st, v)]

JobsOf(rs, st, v) == [i \in 1 .. Len(rs) |-> JobOf(rs[i], st, v)]

(* Settling p moves its reactions, in order, behind the queue q.           *)
SettleTo(p, st, v, q) ==
    /\ state' = [state EXCEPT ![p] = st]
    /\ result' = [result EXCEPT ![p] = v]
    /\ reactions' = [reactions EXCEPT ![p] = << >>]
    /\ jobs' = q \o JobsOf(reactions[p], st, v)
    /\ UNCHANGED attached

(* p, pending or fresh, waits on p or takes the state v already has.       *)
AppendReaction(src, f, r, next) ==
    reactions' = [reactions EXCEPT ![src] = Append(@,
        [onFulfilled |-> f, onRejected |-> r, next |-> next,
         id |-> attached + 1, source |-> src])]

AdoptPending(p, src, q) ==
    /\ attached < MaxReactions
    /\ attached' = attached + 1
    /\ AppendReaction(src, NullHandler, NullHandler, p)
    /\ state' = [state EXCEPT ![p] = "pending"]
    /\ jobs' = q
    /\ UNCHANGED result

ResolveShallow(p, v, q) == SettleTo(p, "fulfilled", v, q)

Resolve(p, v, q) ==
    \/ v \notin Promise /\ SettleTo(p, "fulfilled", v, q)
    \/ v = p /\ SettleTo(p, "rejected", Undefined, q)
    \/ /\ v \in Promise \ {p}
       /\ state[v] = "pending"
       /\ AdoptPending(p, v, q)
    \/ /\ v \in Promise \ {p}
       /\ state[v] \in Settled
       /\ SettleTo(p, state[v], result[v], q)

IfPendingAlways(p, q, Effect) == Effect

(* The guard every settling function starts with.                          *)
IfPending(p, q, Effect) ==
    \/ state[p] = "pending" /\ Effect
    \/ /\ state[p] # "pending"
       /\ jobs' = q
       /\ UNCHANGED <<state, result, reactions, attached>>

-----------------------------------------------------------------------------
(* The ABI, called by main or by the handler that runs.                    *)

MayCall == phase = "main" \/ running # << >>

Allocate(p, how) ==
    /\ MayCall
    /\ state[p] = "free"
    /\ origin' = [origin EXCEPT ![p] = how]
    /\ UNCHANGED <<running, phase>>

PromiseResolved(p, v) ==
    /\ v \in Held
    /\ Allocate(p, "resolved")
    /\ Resolve(p, v, jobs)

PromiseRejected(p, v) ==
    /\ v \in Held
    /\ Allocate(p, "rejected")
    /\ SettleTo(p, "rejected", v, jobs)

PromisePending(p) ==
    /\ Allocate(p, "pending")
    /\ state' = [state EXCEPT ![p] = "pending"]
    /\ UNCHANGED <<result, reactions, jobs, attached>>

(* Only a promise from ecmora_promise_pending is a capability a program    *)
(* settles: the code generator emits promise_settle for no other.          *)
PromiseSettle(p, rejected, v) ==
    /\ MayCall
    /\ origin[p] = "pending"
    /\ v \in Held
    /\ IfPending(p, jobs, IF rejected THEN SettleTo(p, "rejected", v, jobs)
                                      ELSE Resolve(p, v, jobs))
    /\ UNCHANGED <<origin, running, phase>>

ThenPending(src, f, r, next) ==
    /\ state[src] = "pending"
    /\ AppendReaction(src, f, r, next)
    /\ UNCHANGED jobs

ThenSettled(src, f, r, next) ==
    /\ state[src] \in Settled
    /\ jobs' = Append(jobs, JobOf([onFulfilled |-> f, onRejected |-> r, next |-> next,
                                   id |-> attached + 1, source |-> src],
                                  state[src], result[src]))
    /\ UNCHANGED reactions

PromiseThen(src, f, r, next) ==
    /\ src \in Live
    /\ attached < MaxReactions
    /\ Allocate(next, "then")
    /\ state' = [state EXCEPT ![next] = "pending"]
    /\ attached' = attached + 1
    /\ ThenPending(src, f, r, next) \/ ThenSettled(src, f, r, next)
    /\ UNCHANGED result

-----------------------------------------------------------------------------
(* ecmora_microtask_drain.                                                 *)

BeginDrain ==
    /\ phase = "main"
    /\ phase' = "drain"
    /\ UNCHANGED <<heap, origin, running, attached>>

RunDefaultUnpopped ==
    /\ phase = "drain" /\ running = << >> /\ jobs # << >>
    /\ LET job == Head(jobs) IN
        /\ job.handler = NullHandler
        /\ IfPending(job.next, jobs, SettleTo(job.next, job.state, job.argument, jobs))
    /\ UNCHANGED <<origin, running, phase>>

(* A job without a handler passes the settlement on.                       *)
RunDefault ==
    /\ phase = "drain" /\ running = << >> /\ jobs # << >>
    /\ LET job == Head(jobs) IN
        /\ job.handler = NullHandler
        /\ IfPending(job.next, Tail(jobs),
                     SettleTo(job.next, job.state, job.argument, Tail(jobs)))
    /\ UNCHANGED <<origin, running, phase>>

CallHandler ==
    /\ phase = "drain" /\ running = << >> /\ jobs # << >>
    /\ Head(jobs).handler # NullHandler
    /\ running' = Head(jobs)
    /\ jobs' = Tail(jobs)
    /\ UNCHANGED <<state, result, reactions, origin, phase, attached>>

HandlerReturns(v) ==
    /\ running # << >>
    /\ v \in Held
    /\ IfPending(running.next, jobs, Resolve(running.next, v, jobs))
    /\ running' = << >>
    /\ UNCHANGED <<origin, phase>>

HandlerThrowsUnsettled(v) ==
    /\ running # << >>
    /\ v \in Held
    /\ running' = << >>
    /\ UNCHANGED <<heap, attached, origin, phase>>

HandlerThrows(v) ==
    /\ running # << >>
    /\ v \in Held
    /\ IfPending(running.next, jobs, SettleTo(running.next, "rejected", v, jobs))
    /\ running' = << >>
    /\ UNCHANGED <<origin, phase>>

EndDrain ==
    /\ phase = "drain" /\ running = << >> /\ jobs = << >>
    /\ phase' = "main"
    /\ UNCHANGED <<heap, origin, running, attached>>

-----------------------------------------------------------------------------
Create == \E p \in Promise :
    \/ PromisePending(p)
    \/ \E v \in Value : PromiseResolved(p, v) \/ PromiseRejected(p, v)

Use ==
    \/ \E p \in Promise, rejected \in BOOLEAN, v \in Value : PromiseSettle(p, rejected, v)
    \/ \E src, next \in Promise, f, r \in Handler \union {NullHandler} :
          PromiseThen(src, f, r, next)

Finish == \E v \in Value : HandlerReturns(v) \/ HandlerThrows(v)

Next == Create \/ Use \/ BeginDrain \/ RunDefault \/ CallHandler \/ Finish \/ EndDrain

(* Main drains once its script is over, the loop is sequential code, and a *)
(* handler is assumed to complete.                                         *)
Fairness ==
    /\ WF_vars(BeginDrain)
    /\ WF_vars(RunDefault)
    /\ WF_vars(CallHandler)
    /\ WF_vars(Finish)

Spec == Init /\ [][Next]_vars
FairSpec == Spec /\ Fairness

-----------------------------------------------------------------------------
(* Correctness.                                                            *)

Waiting == UNION {{reactions[p][i] : i \in DOMAIN reactions[p]} : p \in Promise}
Queued == {jobs[i] : i \in DOMAIN jobs}
Active == IF running = << >> THEN {} ELSE {running}

(* A settled promise keeps its state and its result for ever, whatever the *)
(* program and the drain loop do (the guards of ecmora_reject_promise,     *)
(* ecmora_fulfill_promise and ecmora_resolve_promise).                     *)
SettledOnce ==
    [][\A p \in Promise : state[p] \in Settled =>
          state'[p] = state[p] /\ result'[p] = result[p]]_vars

(* No promise is fulfilled with a promise: resolution always looks through *)
(* to the settlement, through any chain of adoptions and default handlers. *)
FulfilledNeverPromise ==
    \A p \in Promise : state[p] = "fulfilled" => result[p] \notin Promise

(* Settling moves every reaction out of the list: none stays behind on a   *)
(* settled promise, where nothing would ever run it.                       *)
NoReactionLeftBehind ==
    \A p \in Promise : reactions[p] # << >> => state[p] = "pending"

(* A job carries a copy of its promise's settlement, made when it was      *)
(* queued; the copy is still what the promise holds when the job runs.     *)
JobCarriesSettlement ==
    \A job \in Queued \union Active :
        state[job.source] = job.state /\ result[job.source] = job.argument

(* A promise made by then, or by resolving with a pending promise, is      *)
(* settled by exactly one reaction or job: while it is pending that one is *)
(* still there (it cannot be lost), and afterwards no second one is left.  *)
Drivers(p) == {x.id : x \in {y \in Waiting \union Queued \union Active : y.next = p}}

OneDriver ==
    \A p \in Promise : origin[p] \in {"then", "resolved", "rejected"} =>
        IF state[p] = "pending"
        THEN \E d \in Drivers(p) : Drivers(p) = {d}
        ELSE Drivers(p) = {}

(* Every reaction of a settled promise is eventually run, even though the  *)
(* handlers that run before it may queue more work.                        *)
JobsRun ==
    \A r \in 1 .. MaxReactions :
        (\E job \in Queued : job.id = r) ~> (\A job \in Queued : job.id # r)

-----------------------------------------------------------------------------
(* The ABI implements the promise contract: in particular the reactions of *)
(* one promise run in the order of their attachment, whether they were     *)
(* attached before or after its settlement.                                *)

Life(r) ==
    IF \E x \in Waiting : x.id = r THEN "waiting"
    ELSE IF \E x \in Queued : x.id = r THEN "ready"
    ELSE IF r <= attached THEN "done" ELSE "none"

SourceOf(r) ==
    IF \E x \in Waiting \union Queued : x.id = r
    THEN (CHOOSE x \in Waiting \union Queued : x.id = r).source
    ELSE 0

Contract == INSTANCE PromiseContract WITH
    outcome <- state,
    life <- [r \in 1 .. MaxReactions |-> Life(r)],
    source <- [r \in 1 .. MaxReactions |-> SourceOf(r)]

ImplementsContract == Contract!Spec

=============================================================================
