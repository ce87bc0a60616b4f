------------------------- MODULE NativePromiseProofs -------------------------
(***************************************************************************)
(* Proofs about NativePromise, for every set of promises, values and       *)
(* handlers and every bound on the attachments.                            *)
(***************************************************************************)
EXTENDS NativePromise, SequenceTheorems, TLAPS

(* A reaction in the list of p was attached to p, by construction of       *)
(* ecmora_promise_append_reaction's callers.                               *)
OwnReactions ==
    \A p \in Promise : \A i \in 1 .. Len(reactions[p]) : reactions[p][i].source = p

(* A job carries the settlement of its source.                             *)
Carries(job) == state[job.source] = job.state /\ result[job.source] = job.argument

QueueCarries(q) == \A i \in 1 .. Len(q) : Carries(q[i])

RunningCarries == running # << >> => Carries(running)

IInv ==
    /\ TypeOK
    /\ FulfilledNeverPromise
    /\ NoReactionLeftBehind
    /\ OwnReactions
    /\ QueueCarries(jobs)
    /\ RunningCarries

(* What every step of the machine's heap relies on.                        *)
HeapOK ==
    /\ state \in [Promise -> State]
    /\ result \in [Promise -> Value]
    /\ reactions \in [Promise -> Seq(Reaction)]
    /\ attached \in Nat
    /\ FulfilledNeverPromise
    /\ NoReactionLeftBehind
    /\ OwnReactions

(* Nothing a step did disturbs what a job or frame already carries.        *)
KeepsSettled ==
    \A p \in Promise : state[p] \in Settled => state'[p] = state[p] /\ result'[p] = result[p]

-----------------------------------------------------------------------------
(* Turning a reaction list into jobs yields a sequence of jobs.            *)
LEMMA JobsOfType ==
    ASSUME NEW rs \in Seq(Reaction), NEW st \in Settled, NEW v \in Value
    PROVE  /\ JobsOf(rs, st, v) \in Seq(Job)
           /\ Len(JobsOf(rs, st, v)) = Len(rs)
           /\ \A i \in 1 .. Len(rs) : JobsOf(rs, st, v)[i] = JobOf(rs[i], st, v)
<1>1. ASSUME NEW i \in 1 .. Len(rs)
      PROVE  JobOf(rs[i], st, v) \in Job
  <2>1. rs[i] \in Reaction
    OBVIOUS
  <2>2. QED BY <2>1 DEF JobOf, Job, Reaction
<1>2. Len(rs) \in Nat
  OBVIOUS
<1>3. JobsOf(rs, st, v) \in Seq(Job)
  BY <1>1, <1>2, IsASeq DEF JobsOf
<1>4. QED BY <1>2, <1>3 DEF JobsOf

(* A step of the heap that keeps what the invariant says of it.            *)
HeapStep ==
    /\ HeapOK'
    /\ jobs' \in Seq(Job)
    /\ QueueCarries(jobs)'
    /\ KeepsSettled

(* A queue a step may start from: the microtask list, or what is left of   *)
(* it when the drain loop has taken its head.                              *)
QueueOK(q) == q \in Seq(Job) /\ QueueCarries(q)

(* As long as settlements are kept, a job goes on carrying one.            *)
LEMMA CarriesStays ==
    ASSUME KeepsSettled, NEW job \in Job, Carries(job)
    PROVE  Carries(job)'
BY DEF KeepsSettled, Carries, Job

LEMMA QueueStays ==
    ASSUME KeepsSettled, NEW q, QueueOK(q)
    PROVE  \A i \in 1 .. Len(q) : Carries(q[i])'
<1>1. TAKE i \in 1 .. Len(q)
<1>2. q[i] \in Job /\ Carries(q[i])
  BY <1>1 DEF QueueOK, QueueCarries
<1>3. QED BY <1>2, CarriesStays

(* ecmora_fulfill_promise and ecmora_reject_promise on a promise that is   *)
(* pending, or that the same call has allocated.                           *)
LEMMA SettleToOK ==
    ASSUME HeapOK, NEW p \in Promise, state[p] \notin Settled,
           NEW st \in Settled, NEW v \in Value, st = "fulfilled" => v \notin Promise,
           NEW q, QueueOK(q), SettleTo(p, st, v, q)
    PROVE  HeapStep
<1>0. PICK new : new = JobsOf(reactions[p], st, v)
  OBVIOUS
<1>1. reactions[p] \in Seq(Reaction)
  BY DEF HeapOK
<1>2. /\ new \in Seq(Job)
      /\ Len(new) = Len(reactions[p])
      /\ \A i \in 1 .. Len(new) : new[i] = JobOf(reactions[p][i], st, v)
  BY <1>0, <1>1, JobsOfType
<1>3. KeepsSettled
  BY DEF SettleTo, KeepsSettled, HeapOK
<1>4. /\ state' \in [Promise -> State]
      /\ result' \in [Promise -> Value]
      /\ attached' \in Nat
      /\ state'[p] = st /\ result'[p] = v
  BY DEF SettleTo, HeapOK, State
<1>5. reactions' \in [Promise -> Seq(Reaction)] /\ NoReactionLeftBehind' /\ OwnReactions'
  BY <1>1 DEF SettleTo, HeapOK, NoReactionLeftBehind, OwnReactions
<1>6. FulfilledNeverPromise'
  BY DEF SettleTo, HeapOK, FulfilledNeverPromise
<1>7. jobs' = q \o new /\ jobs' \in Seq(Job)
  BY <1>0, <1>2, ConcatProperties DEF SettleTo, QueueOK
<1>8. \A i \in 1 .. Len(new) : Carries(new[i])'
  <2>1. TAKE i \in 1 .. Len(new)
  <2>2. reactions[p][i].source = p
    BY <1>2, <2>1 DEF HeapOK, OwnReactions
  <2>3. new[i] = JobOf(reactions[p][i], st, v)
    BY <1>2, <2>1
  <2>4. new[i].source = reactions[p][i].source /\ new[i].state = st /\ new[i].argument = v
    BY <2>3 DEF JobOf
  <2>5. QED BY <1>4, <2>2, <2>4 DEF Carries
<1>9. QueueCarries(jobs)'
  <2> SUFFICES ASSUME NEW i \in 1 .. Len(jobs')
               PROVE  Carries(jobs[i])'
    BY DEF QueueCarries
  <2>1. CASE i \in 1 .. Len(q)
    <3>1. jobs'[i] = q[i]
      BY <1>2, <1>7, <2>1, ConcatProperties DEF QueueOK
    <3>2. Carries(q[i])'
      BY <1>3, <2>1, QueueStays
    <3>3. QED BY <3>1, <3>2 DEF Carries
  <2>2. CASE i \notin 1 .. Len(q)
    <3>1. i - Len(q) \in 1 .. Len(new) /\ jobs'[i] = new[i - Len(q)]
      BY <1>2, <1>7, <2>2, ConcatProperties DEF QueueOK
    <3>2. QED BY <1>8, <3>1 DEF Carries
  <2>3. QED BY <2>1, <2>2
<1>10. QED BY <1>3, <1>4, <1>5, <1>6, <1>7, <1>9 DEF HeapStep, HeapOK

(* Resolving with a pending promise leaves an identity reaction there.     *)
LEMMA AdoptPendingOK ==
    ASSUME HeapOK, NEW p \in Promise, state[p] \notin Settled,
           NEW src \in Promise, src # p, state[src] = "pending",
           NEW q, QueueOK(q), AdoptPending(p, src, q)
    PROVE  HeapStep
<1> DEFINE r == [onFulfilled |-> NullHandler, onRejected |-> NullHandler, next |-> p,
                 id |-> attached + 1, source |-> src]
<1>1. r \in Reaction /\ r.source = src
  BY DEF Reaction, HeapOK
<1>2. reactions[src] \in Seq(Reaction)
  BY DEF HeapOK
<1>3. /\ reactions' = [reactions EXCEPT ![src] = Append(reactions[src], r)]
      /\ Append(reactions[src], r) \in Seq(Reaction)
      /\ Len(Append(reactions[src], r)) = Len(reactions[src]) + 1
      /\ \A i \in 1 .. Len(reactions[src]) :
            Append(reactions[src], r)[i] = reactions[src][i]
      /\ Append(reactions[src], r)[Len(reactions[src]) + 1] = r
  BY <1>1, <1>2, AppendProperties DEF AdoptPending, AppendReaction
<1> HIDE DEF r
<1>4. /\ state' \in [Promise -> State] /\ result' \in [Promise -> Value]
      /\ attached' \in Nat /\ KeepsSettled /\ FulfilledNeverPromise'
  BY DEF AdoptPending, HeapOK, State, KeepsSettled, FulfilledNeverPromise
<1>5. reactions' \in [Promise -> Seq(Reaction)] /\ NoReactionLeftBehind'
  BY <1>3 DEF AdoptPending, HeapOK, NoReactionLeftBehind
<1>6. OwnReactions'
  <2> SUFFICES ASSUME NEW x \in Promise, NEW i \in 1 .. Len(reactions'[x])
               PROVE  reactions'[x][i].source = x
    BY DEF OwnReactions
  <2>1. CASE x # src
    BY <1>3, <2>1 DEF HeapOK, OwnReactions
  <2>2. CASE x = src
    <3>1. reactions'[x] = Append(reactions[src], r)
      BY <1>3, <2>2 DEF HeapOK
    <3>2. Len(reactions[src]) \in Nat
      BY <1>2, LenProperties
    <3>3. i \in 1 .. Len(reactions[src]) \/ i = Len(reactions[src]) + 1
      BY <1>3, <3>1, <3>2
    <3>4. QED BY <1>1, <1>3, <2>2, <3>1, <3>3 DEF HeapOK, OwnReactions
  <2>3. QED BY <2>1, <2>2
<1>7. jobs' = q
  BY DEF AdoptPending
<1>8. jobs' \in Seq(Job) /\ QueueCarries(jobs)'
  <2>1. \A i \in 1 .. Len(q) : Carries(q[i])'
    BY <1>4, QueueStays
  <2>2. QED BY <1>7, <2>1 DEF QueueOK, QueueCarries, Carries
<1>9. QED BY <1>4, <1>5, <1>6, <1>8 DEF HeapStep, HeapOK

(* ecmora_resolve_promise: the value stored is never a promise, because    *)
(* what a settled source is fulfilled with is not one.                     *)
LEMMA ResolveOK ==
    ASSUME HeapOK, NEW p \in Promise, state[p] \notin Settled, NEW v \in Value,
           NEW q, QueueOK(q), Resolve(p, v, q)
    PROVE  HeapStep
<1>1. CASE v \notin Promise /\ SettleTo(p, "fulfilled", v, q)
  BY <1>1, SettleToOK DEF Settled
<1>2. CASE v = p /\ SettleTo(p, "rejected", Undefined, q)
  <2>1. Undefined \in Value
    BY ValuesAssumption DEF Value
  <2>2. QED BY <1>2, <2>1, SettleToOK DEF Settled
<1>3. CASE v \in Promise \ {p} /\ state[v] = "pending" /\ AdoptPending(p, v, q)
  BY <1>3, AdoptPendingOK
<1>4. CASE v \in Promise \ {p} /\ state[v] \in Settled /\ SettleTo(p, state[v], result[v], q)
  <2>1. result[v] \in Value /\ (state[v] = "fulfilled" => result[v] \notin Promise)
    BY <1>4 DEF HeapOK, FulfilledNeverPromise
  <2>2. QED BY <1>4, <2>1, SettleToOK
<1>5. QED BY <1>1, <1>2, <1>3, <1>4 DEF Resolve

(* A call on a promise that is already settled changes nothing but the     *)
(* queue it was taken from.                                                *)
LEMMA NothingOK ==
    ASSUME HeapOK, NEW q, QueueOK(q), jobs' = q,
           UNCHANGED <<state, result, reactions, attached>>
    PROVE  HeapStep
<1>1. HeapOK' /\ KeepsSettled
  BY DEF HeapOK, KeepsSettled, FulfilledNeverPromise, NoReactionLeftBehind, OwnReactions
<1>2. \A i \in 1 .. Len(q) : Carries(q[i])'
  BY <1>1, QueueStays
<1>3. QED BY <1>1, <1>2 DEF HeapStep, QueueOK, QueueCarries, Carries

-----------------------------------------------------------------------------
(* The invariant holds initially and every action keeps it.                *)

LEMMA InitIInv == Init => IInv
<1> SUFFICES ASSUME Init PROVE IInv
  OBVIOUS
<1>1. TypeOK
  BY ValuesAssumption DEF Init, TypeOK, State, Value, Origin
<1>2. QED BY <1>1 DEF Init, IInv, FulfilledNeverPromise, NoReactionLeftBehind, OwnReactions,
             QueueCarries, RunningCarries

(* What a step has to keep besides the heap.                               *)
LEMMA HeapStepIInv ==
    ASSUME IInv, HeapStep,
           origin' \in [Promise -> Origin],
           phase' \in {"main", "drain"},
           running' \in {<< >>, running}
    PROVE  IInv'
<1>1. TypeOK'
  BY DEF IInv, TypeOK, HeapStep, HeapOK
<1>2. RunningCarries'
  <2> SUFFICES ASSUME running' # << >> PROVE Carries(running)'
    BY DEF RunningCarries
  <2>1. running' = running /\ running \in Job /\ Carries(running)
    BY DEF IInv, TypeOK, RunningCarries
  <2>2. PICK job : job = running
    OBVIOUS
  <2>3. Carries(job)'
    BY <2>1, <2>2, CarriesStays DEF HeapStep
  <2>4. QED BY <2>1, <2>2, <2>3 DEF Carries
<1>3. QED BY <1>1, <1>2 DEF IInv, HeapStep, HeapOK

LEMMA QueueOfIInv ==
    ASSUME IInv
    PROVE  HeapOK /\ QueueOK(jobs)
BY DEF IInv, TypeOK, HeapOK, QueueOK

(* The jobs behind the head are a queue to start from, too.                *)
LEMMA TailOfIInv ==
    ASSUME IInv, jobs # << >>
    PROVE  /\ Head(jobs) \in Job /\ Carries(Head(jobs))
           /\ QueueOK(Tail(jobs))
<1>1. jobs \in Seq(Job) /\ QueueCarries(jobs)
  BY DEF IInv, TypeOK
<1>2. Len(jobs) \in Nat \ {0}
  BY <1>1, EmptySeq
<1>3. /\ Head(jobs) = jobs[1] /\ jobs[1] \in Job
      /\ Tail(jobs) \in Seq(Job) /\ Len(Tail(jobs)) = Len(jobs) - 1
      /\ \A i \in 1 .. Len(Tail(jobs)) : Tail(jobs)[i] = jobs[i + 1]
  BY <1>1, <1>2, HeadTailProperties
<1>4. Carries(jobs[1])
  BY <1>1, <1>2 DEF QueueCarries
<1>5. QueueCarries(Tail(jobs))
  BY <1>1, <1>2, <1>3 DEF QueueCarries
<1>6. QED BY <1>3, <1>4, <1>5 DEF QueueOK

LEMMA AllocateEffect ==
    ASSUME IInv, NEW p \in Promise, NEW how \in Origin, Allocate(p, how)
    PROVE  /\ state[p] = "free" /\ state[p] \notin Settled
           /\ origin' \in [Promise -> Origin]
           /\ phase' \in {"main", "drain"} /\ running' = running
BY DEF Allocate, IInv, TypeOK, Settled

LEMMA PromiseResolvedIInv ==
    ASSUME IInv, NEW p \in Promise, NEW v \in Value, PromiseResolved(p, v)
    PROVE  IInv' /\ KeepsSettled
<1>1. "resolved" \in Origin
  BY DEF Origin
<1>2. PICK q : q = jobs
  OBVIOUS
<1>3. HeapStep
  BY <1>1, <1>2, QueueOfIInv, AllocateEffect, ResolveOK DEF PromiseResolved
<1>4. QED BY <1>1, <1>3, AllocateEffect, HeapStepIInv DEF PromiseResolved, HeapStep

LEMMA PromiseRejectedIInv ==
    ASSUME IInv, NEW p \in Promise, NEW v \in Value, PromiseRejected(p, v)
    PROVE  IInv' /\ KeepsSettled
<1>1. "rejected" \in Origin /\ "rejected" \in Settled
  BY DEF Origin, Settled
<1>2. PICK q : q = jobs
  OBVIOUS
<1>3. HeapStep
  BY <1>1, <1>2, QueueOfIInv, AllocateEffect, SettleToOK DEF PromiseRejected
<1>4. QED BY <1>1, <1>3, AllocateEffect, HeapStepIInv DEF PromiseRejected, HeapStep

LEMMA PromisePendingIInv ==
    ASSUME IInv, NEW p \in Promise, PromisePending(p)
    PROVE  IInv' /\ KeepsSettled
<1>1. "pending" \in Origin /\ state[p] = "free"
  BY DEF Origin, PromisePending, Allocate
<1>2. PICK q : q = jobs
  OBVIOUS
<1>3. KeepsSettled
  BY <1>1 DEF PromisePending, KeepsSettled, Settled, IInv, TypeOK
<1>4. HeapOK'
  BY <1>1 DEF PromisePending, IInv, TypeOK, HeapOK, State, FulfilledNeverPromise,
              NoReactionLeftBehind, OwnReactions
<1>5. HeapStep
  <2>1. QueueOK(q) /\ jobs' = q
    BY <1>2, QueueOfIInv DEF PromisePending
  <2>2. \A i \in 1 .. Len(q) : Carries(q[i])'
    BY <1>3, <2>1, QueueStays
  <2>3. QED BY <1>3, <1>4, <2>1, <2>2 DEF HeapStep, QueueOK, QueueCarries, Carries
<1>6. QED BY <1>1, <1>5, AllocateEffect, HeapStepIInv DEF PromisePending, HeapStep

LEMMA PromiseSettleIInv ==
    ASSUME IInv, NEW p \in Promise, NEW rejected \in BOOLEAN, NEW v \in Value,
           PromiseSettle(p, rejected, v)
    PROVE  IInv' /\ KeepsSettled
<1>1. PICK q : q = jobs
  OBVIOUS
<1>2. HeapOK /\ QueueOK(q)
  BY <1>1, QueueOfIInv
<1>3. CASE state[p] # "pending"
  <2>1. jobs' = q /\ UNCHANGED <<state, result, reactions, attached>>
    BY <1>1, <1>3 DEF PromiseSettle, IfPending
  <2>2. QED BY <1>2, <2>1, NothingOK, HeapStepIInv DEF PromiseSettle, IInv, TypeOK, HeapStep
<1>4. CASE state[p] = "pending"
  <2>1. state[p] \notin Settled /\ "rejected" \in Settled
    BY <1>4 DEF Settled
  <2>2. IF rejected THEN SettleTo(p, "rejected", v, q) ELSE Resolve(p, v, q)
    BY <1>1, <1>4 DEF PromiseSettle, IfPending
  <2>3. HeapStep
    BY <1>2, <2>1, <2>2, SettleToOK, ResolveOK
  <2>4. QED BY <2>3, HeapStepIInv DEF PromiseSettle, IInv, TypeOK, HeapStep
<1>5. QED BY <1>3, <1>4

LEMMA PromiseThenIInv ==
    ASSUME IInv, NEW src \in Promise, NEW next \in Promise,
           NEW f \in Handler \union {NullHandler}, NEW r \in Handler \union {NullHandler},
           PromiseThen(src, f, r, next)
    PROVE  IInv' /\ KeepsSettled
<1> DEFINE x == [onFulfilled |-> f, onRejected |-> r, next |-> next,
                 id |-> attached + 1, source |-> src]
<1>1. PICK q : q = jobs
  OBVIOUS
<1>2. /\ HeapOK /\ QueueOK(q)
      /\ state[next] = "free" /\ src # next /\ state[src] # "free"
      /\ state' = [state EXCEPT ![next] = "pending"]
      /\ UNCHANGED <<result, running, phase>>
      /\ attached' = attached + 1
  BY <1>1, QueueOfIInv DEF PromiseThen, Allocate, Live
<1>3. x \in Reaction /\ x.source = src
  BY <1>2 DEF Reaction, HeapOK
<1>4. KeepsSettled /\ FulfilledNeverPromise' /\ state' \in [Promise -> State]
      /\ attached' \in Nat
  BY <1>2 DEF HeapOK, KeepsSettled, FulfilledNeverPromise, State, Settled
<1>5. \A i \in 1 .. Len(q) : Carries(q[i])'
  BY <1>2, <1>4, QueueStays
<1>6. CASE ThenPending(src, f, r, next)
  <2>1. /\ state[src] = "pending" /\ jobs' = q
        /\ reactions' = [reactions EXCEPT ![src] = Append(reactions[src], x)]
    BY <1>1, <1>6 DEF ThenPending, AppendReaction
  <2> HIDE DEF x
  <2>2. /\ reactions[src] \in Seq(Reaction) /\ Len(reactions[src]) \in Nat
        /\ Append(reactions[src], x) \in Seq(Reaction)
        /\ Len(Append(reactions[src], x)) = Len(reactions[src]) + 1
        /\ \A i \in 1 .. Len(reactions[src]) :
              Append(reactions[src], x)[i] = reactions[src][i]
        /\ Append(reactions[src], x)[Len(reactions[src]) + 1] = x
    BY <1>2, <1>3, AppendProperties, LenProperties DEF HeapOK
  <2>3. reactions' \in [Promise -> Seq(Reaction)] /\ NoReactionLeftBehind'
    BY <1>2, <2>1, <2>2 DEF HeapOK, NoReactionLeftBehind
  <2>4. OwnReactions'
    <3> SUFFICES ASSUME NEW y \in Promise, NEW i \in 1 .. Len(reactions'[y])
                 PROVE  reactions'[y][i].source = y
      BY DEF OwnReactions
    <3>1. CASE y # src
      BY <1>2, <2>1, <3>1 DEF HeapOK, OwnReactions
    <3>2. CASE y = src
      <4>1. reactions'[y] = Append(reactions[src], x)
        BY <1>2, <2>1, <3>2 DEF HeapOK
      <4>2. i \in 1 .. Len(reactions[src]) \/ i = Len(reactions[src]) + 1
        BY <2>2, <4>1
      <4>3. QED BY <1>2, <1>3, <2>2, <3>2, <4>1, <4>2 DEF HeapOK, OwnReactions
    <3>3. QED BY <3>1, <3>2
  <2>5. HeapStep
    BY <1>2, <1>4, <1>5, <2>1, <2>3, <2>4
       DEF HeapStep, HeapOK, QueueOK, QueueCarries, Carries
  <2>6. QED BY <2>5, AllocateEffect, HeapStepIInv DEF PromiseThen, HeapStep, Origin
<1>7. CASE ThenSettled(src, f, r, next)
  <2>1. PICK job : job = JobOf(x, state[src], result[src])
    OBVIOUS
  <2>2. /\ state[src] \in Settled /\ jobs' = Append(q, job)
        /\ UNCHANGED reactions
    BY <1>1, <1>7, <2>1 DEF ThenSettled
  <2>3. /\ job.source = src /\ job.state = state[src] /\ job.argument = result[src]
    BY <2>1 DEF JobOf
  <2>4. job \in Job
    BY <1>2, <1>3, <2>1, <2>2 DEF JobOf, Job, Reaction, HeapOK
  <2>5. Carries(job)'
    BY <1>2, <1>4, <2>2, <2>3 DEF Carries, KeepsSettled
  <2>6. /\ Append(q, job) \in Seq(Job) /\ Len(q) \in Nat
        /\ Len(Append(q, job)) = Len(q) + 1
        /\ \A i \in 1 .. Len(q) : Append(q, job)[i] = q[i]
        /\ Append(q, job)[Len(q) + 1] = job
    BY <1>2, <2>4, AppendProperties, LenProperties DEF QueueOK
  <2>7. QueueCarries(jobs)'
    <3> SUFFICES ASSUME NEW i \in 1 .. Len(jobs') PROVE Carries(jobs[i])'
      BY DEF QueueCarries
    <3>1. i \in 1 .. Len(q) \/ i = Len(q) + 1
      BY <2>2, <2>6
    <3>2. QED BY <1>5, <2>2, <2>5, <2>6, <3>1 DEF Carries
  <2>8. reactions' \in [Promise -> Seq(Reaction)] /\ NoReactionLeftBehind' /\ OwnReactions'
    BY <1>2, <2>2 DEF HeapOK, NoReactionLeftBehind, OwnReactions
  <2>9. HeapStep
    BY <1>2, <1>4, <2>2, <2>6, <2>7, <2>8 DEF HeapStep, HeapOK
  <2>10. QED BY <2>9, AllocateEffect, HeapStepIInv DEF PromiseThen, HeapStep, Origin
<1>8. QED BY <1>6, <1>7 DEF PromiseThen

LEMMA BeginEndIInv ==
    ASSUME IInv, BeginDrain \/ EndDrain
    PROVE  IInv' /\ KeepsSettled
<1>1. UNCHANGED <<heap, origin, running, attached>> /\ phase' \in {"main", "drain"}
  BY DEF BeginDrain, EndDrain
<1>2. PICK q : q = jobs
  OBVIOUS
<1>3. HeapStep
  BY <1>1, <1>2, QueueOfIInv, NothingOK DEF heap
<1>4. QED BY <1>1, <1>3, HeapStepIInv DEF HeapStep, IInv, TypeOK

LEMMA RunDefaultIInv ==
    ASSUME IInv, RunDefault
    PROVE  IInv' /\ KeepsSettled
<1>1. PICK job, q : job = Head(jobs) /\ q = Tail(jobs)
  OBVIOUS
<1>2. HeapOK /\ job \in Job /\ Carries(job) /\ QueueOK(q)
  BY <1>1, QueueOfIInv, TailOfIInv DEF RunDefault
<1>3. CASE state[job.next] # "pending"
  <2>1. jobs' = q /\ UNCHANGED <<state, result, reactions, attached>>
    BY <1>1, <1>3 DEF RunDefault, IfPending
  <2>2. QED BY <1>2, <2>1, NothingOK, HeapStepIInv DEF RunDefault, IInv, TypeOK, HeapStep
<1>4. CASE state[job.next] = "pending"
  <2>1. SettleTo(job.next, job.state, job.argument, q)
    BY <1>1, <1>4 DEF RunDefault, IfPending
  <2>2. /\ job.next \in Promise /\ job.source \in Promise
        /\ job.state \in Settled /\ job.argument \in Value
    BY <1>2 DEF Job
  <2>3. state[job.next] \notin Settled
    BY <1>4 DEF Settled
  <2>4. job.state = "fulfilled" => job.argument \notin Promise
    BY <1>2, <2>2 DEF Carries, HeapOK, FulfilledNeverPromise
  <2>5. HeapStep
    BY <1>2, <2>1, <2>2, <2>3, <2>4, SettleToOK
  <2>6. QED BY <2>5, HeapStepIInv DEF RunDefault, IInv, TypeOK, HeapStep
<1>5. QED BY <1>3, <1>4

LEMMA CallHandlerIInv ==
    ASSUME IInv, CallHandler
    PROVE  IInv' /\ KeepsSettled
<1>1. PICK job, q : job = Head(jobs) /\ q = Tail(jobs)
  OBVIOUS
<1>2. /\ HeapOK /\ job \in Job /\ Carries(job) /\ QueueOK(q)
      /\ jobs' = q /\ running' = job
      /\ UNCHANGED <<state, result, reactions, origin, phase, attached>>
  BY <1>1, QueueOfIInv, TailOfIInv DEF CallHandler
<1>3. HeapStep
  BY <1>2, NothingOK
<1>4. TypeOK'
  BY <1>2, <1>3 DEF IInv, TypeOK, HeapStep, HeapOK
<1>5. RunningCarries'
  <2>1. Carries(job)'
    BY <1>2, <1>3, CarriesStays DEF HeapStep
  <2>2. QED BY <1>2, <2>1 DEF RunningCarries, Carries
<1>6. QED BY <1>3, <1>4, <1>5 DEF IInv, HeapStep, HeapOK

(* A handler's completion settles the promise of its reaction.             *)
LEMMA FinishIInv ==
    ASSUME IInv, NEW v \in Value, HandlerReturns(v) \/ HandlerThrows(v)
    PROVE  IInv' /\ KeepsSettled
<1>1. PICK p, q : p = running.next /\ q = jobs
  OBVIOUS
<1>2. /\ HeapOK /\ QueueOK(q) /\ p \in Promise
      /\ running' = << >> /\ UNCHANGED <<origin, phase>>
      /\ origin' \in [Promise -> Origin] /\ phase' \in {"main", "drain"}
  BY <1>1, QueueOfIInv DEF HandlerReturns, HandlerThrows, IInv, TypeOK, Job
<1>3. CASE state[p] # "pending"
  <2>1. jobs' = q /\ UNCHANGED <<state, result, reactions, attached>>
    BY <1>1, <1>3 DEF HandlerReturns, HandlerThrows, IfPending
  <2>2. QED BY <1>2, <2>1, NothingOK, HeapStepIInv DEF HeapStep
<1>4. CASE state[p] = "pending"
  <2>1. state[p] \notin Settled /\ "rejected" \in Settled /\ "rejected" # "fulfilled"
    BY <1>4 DEF Settled
  <2>2. Resolve(p, v, q) \/ SettleTo(p, "rejected", v, q)
    BY <1>1, <1>4 DEF HandlerReturns, HandlerThrows, IfPending
  <2>3. HeapStep
    BY <1>2, <2>1, <2>2, SettleToOK, ResolveOK
  <2>4. QED BY <1>2, <2>3, HeapStepIInv DEF HeapStep
<1>5. QED BY <1>3, <1>4

LEMMA StutterIInv ==
    ASSUME IInv, UNCHANGED vars
    PROVE  IInv' /\ KeepsSettled
BY DEF IInv, vars, TypeOK, FulfilledNeverPromise, NoReactionLeftBehind, OwnReactions,
       QueueCarries, RunningCarries, Carries, KeepsSettled

LEMMA NextIInv ==
    ASSUME IInv, [Next]_vars
    PROVE  IInv' /\ KeepsSettled
<1>1. CASE Create
  BY <1>1, PromisePendingIInv, PromiseResolvedIInv, PromiseRejectedIInv DEF Create
<1>2. CASE Use
  BY <1>2, PromiseSettleIInv, PromiseThenIInv DEF Use
<1>3. CASE Finish
  BY <1>3, FinishIInv DEF Finish
<1>4. CASE BeginDrain \/ EndDrain
  BY <1>4, BeginEndIInv
<1>5. CASE RunDefault
  BY <1>5, RunDefaultIInv
<1>6. CASE CallHandler
  BY <1>6, CallHandlerIInv
<1>7. CASE UNCHANGED vars
  BY <1>7, StutterIInv
<1>8. QED BY <1>1, <1>2, <1>3, <1>4, <1>5, <1>6, <1>7 DEF Next

-----------------------------------------------------------------------------
(* The inductive invariant of the promise ABI.                             *)
THEOREM Invariance == Spec => []IInv
<1>1. Init => IInv
  BY InitIInv
<1>2. IInv /\ [Next]_vars => IInv'
  BY NextIInv
<1>3. QED BY <1>1, <1>2, PTL DEF Spec

(* Every cell, list and job of promise_abi.c has its type: in particular a *)
(* reaction or job always has a promise to settle.                         *)
THEOREM TypeCorrect == Spec => []TypeOK
<1>1. IInv => TypeOK
  BY DEF IInv
<1>2. QED BY <1>1, Invariance, PTL

(* However long the chains of adoption, no promise is fulfilled with a     *)
(* promise.                                                                *)
THEOREM NeverFulfilledWithPromise == Spec => []FulfilledNeverPromise
<1>1. IInv => FulfilledNeverPromise
  BY DEF IInv
<1>2. QED BY <1>1, Invariance, PTL

(* No reaction stays on a settled promise.                                 *)
THEOREM NoneLeftBehind == Spec => []NoReactionLeftBehind
<1>1. IInv => NoReactionLeftBehind
  BY DEF IInv
<1>2. QED BY <1>1, Invariance, PTL

(* The settlement copied into a job, or handed to a running handler, is    *)
(* the settlement of its promise.                                          *)
THEOREM JobsCarrySettlement == Spec => []JobCarriesSettlement
<1>1. IInv => JobCarriesSettlement
  <2> SUFFICES ASSUME IInv, NEW job \in Queued \union Active
               PROVE  Carries(job)
    BY DEF JobCarriesSettlement, Carries
  <2>1. CASE job \in Queued
    BY <2>1, LenProperties DEF IInv, TypeOK, Queued, QueueCarries
  <2>2. CASE job \in Active
    BY <2>2 DEF IInv, Active, RunningCarries
  <2>3. QED BY <2>1, <2>2
<1>2. QED BY <1>1, Invariance, PTL

(* First settlement wins, for every program.                               *)
THEOREM SettlementIsFinal == Spec => SettledOnce
<1>1. IInv /\ [Next]_vars =>
        [\A p \in Promise : state[p] \in Settled =>
            state'[p] = state[p] /\ result'[p] = result[p]]_vars
  BY NextIInv DEF KeepsSettled
<1>2. QED BY <1>1, Invariance, PTL DEF Spec, SettledOnce

-----------------------------------------------------------------------------
(* A promise of then or of a resolution has exactly one reaction or job    *)
(* left to settle it, and the ABI implements PromiseContract: both rest on *)
(* the identity of reactions.                                              *)
(*                                                                         *)
(* A reaction keeps its number (id) from its attachment to its run, while  *)
(* it moves from the list of its promise to the microtask queue and to the *)
(* running handler.  The invariant says that no number is in two places    *)
(* and that places and numbers are in the same order; q stands for the     *)
(* queue a step starts from, the microtask list or what is left of it when *)
(* the drain loop has taken its head.                                      *)

(* Numbers were given out: no place holds one that is still to come.       *)
Numbered(q) ==
    /\ \A p \in Promise : \A i \in 1 .. Len(reactions[p]) : reactions[p][i].id \in 1 .. attached
    /\ \A i \in 1 .. Len(q) : q[i].id \in 1 .. attached

(* Lists are in the order of attachment, and no two share a number.        *)
ListsOrdered ==
    \A p \in Promise : \A i, j \in 1 .. Len(reactions[p]) :
        i < j => reactions[p][i].id < reactions[p][j].id

ListsApart ==
    \A p, r \in Promise : p # r =>
        \A i \in 1 .. Len(reactions[p]), j \in 1 .. Len(reactions[r]) :
            reactions[p][i].id # reactions[r][j].id

(* So is the queue, as far as the jobs of one promise go.                  *)
QueueOrdered(q) ==
    \A i, j \in 1 .. Len(q) : i < j =>
        /\ q[i].id # q[j].id
        /\ q[i].source = q[j].source => q[i].id < q[j].id

QueueApart(q) ==
    \A p \in Promise : \A i \in 1 .. Len(reactions[p]), j \in 1 .. Len(q) :
        reactions[p][i].id # q[j].id

Tickets(q) ==
    /\ Numbered(q)
    /\ ListsOrdered
    /\ ListsApart
    /\ QueueOrdered(q)
    /\ QueueApart(q)

(* The job x was taken out: its number is nowhere else.                    *)
Taken(x, q) ==
    /\ x.id \in 1 .. attached
    /\ \A p \in Promise : \A i \in 1 .. Len(reactions[p]) : reactions[p][i].id # x.id
    /\ \A j \in 1 .. Len(q) : q[j].id # x.id

(* Reaction or job number d settles p when it runs.                        *)
Has(s, p, d) == \E i \in 1 .. Len(s) : s[i].next = p /\ s[i].id = d

Drives(p, d, q) == (\E y \in Promise : Has(reactions[y], p, d)) \/ Has(q, p, d)

-----------------------------------------------------------------------------
(* What the steps of the heap do to the places.                            *)

Follows(job, r, p) == job.id = r.id /\ job.next = r.next /\ job.source = p

(* Settling p: its list is appended to the queue.                          *)
Moved(p, q) ==
    /\ UNCHANGED attached
    /\ reactions[p] \in Seq(Reaction) /\ Len(reactions[p]) \in Nat /\ Len(q) \in Nat
    /\ reactions'[p] = << >> /\ Len(reactions'[p]) = 0
    /\ \A y \in Promise \ {p} : reactions'[y] = reactions[y]
    /\ Len(jobs') = Len(q) + Len(reactions[p])
    /\ \A i \in 1 .. Len(q) : i \in 1 .. Len(jobs') /\ jobs'[i] = q[i]
    /\ \A i \in 1 .. Len(reactions[p]) :
          Len(q) + i \in 1 .. Len(jobs') /\ Follows(jobs'[Len(q) + i], reactions[p][i], p)
    /\ \A i \in 1 .. Len(jobs') : i \notin 1 .. Len(q) =>
          \E k \in 1 .. Len(reactions[p]) :
              i = Len(q) + k /\ Follows(jobs'[i], reactions[p][k], p)

LEMMA SettleToMoves ==
    ASSUME HeapOK, NEW p \in Promise, NEW st \in Settled, NEW v \in Value,
           NEW q, QueueOK(q), SettleTo(p, st, v, q)
    PROVE  Moved(p, q)
<1>1. PICK rs, new : rs = reactions[p] /\ new = JobsOf(rs, st, v)
  OBVIOUS
<1>2. rs \in Seq(Reaction) /\ Len(rs) \in Nat
  BY <1>1, LenProperties DEF HeapOK
<1>3. /\ new \in Seq(Job)
      /\ Len(new) = Len(rs)
      /\ \A i \in 1 .. Len(rs) : new[i] = JobOf(rs[i], st, v)
  BY <1>1, <1>2, JobsOfType
<1>4. q \in Seq(Job) /\ Len(q) \in Nat
  BY LenProperties DEF QueueOK
<1>5. jobs' = q \o new
  BY <1>1 DEF SettleTo
<1>51. /\ Len(jobs') = Len(q) + Len(rs)
       /\ \A i \in 1 .. Len(q) + Len(rs) :
             jobs'[i] = IF i <= Len(q) THEN q[i] ELSE new[i - Len(q)]
  <2>1. /\ Len(q \o new) = Len(q) + Len(new)
        /\ \A i \in 1 .. Len(q) + Len(new) :
              (q \o new)[i] = IF i <= Len(q) THEN q[i] ELSE new[i - Len(q)]
    BY <1>3, <1>4, ConcatProperties
  <2>2. QED BY <1>3, <1>5, <2>1
<1>6. ASSUME NEW i \in 1 .. Len(rs)
      PROVE  Len(q) + i \in 1 .. Len(jobs') /\ Follows(jobs'[Len(q) + i], rs[i], p)
  <2>1. jobs'[Len(q) + i] = JobOf(rs[i], st, v)
    BY <1>2, <1>3, <1>4, <1>51
  <2>2. rs[i].source = p
    BY <1>1 DEF HeapOK, OwnReactions
  <2>3. QED BY <1>2, <1>4, <1>51, <2>1, <2>2 DEF JobOf, Follows
<1>7. /\ UNCHANGED attached /\ reactions'[p] = << >>
      /\ \A y \in Promise \ {p} : reactions'[y] = reactions[y]
  BY DEF SettleTo, HeapOK
<1>8. ASSUME NEW i \in 1 .. Len(jobs'), i \notin 1 .. Len(q)
      PROVE  \E k \in 1 .. Len(rs) : i = Len(q) + k /\ Follows(jobs'[i], rs[k], p)
  <2>1. i - Len(q) \in 1 .. Len(rs) /\ i = Len(q) + (i - Len(q))
    BY <1>2, <1>4, <1>51, <1>8
  <2>2. QED BY <1>6, <2>1
<1>9. \A i \in 1 .. Len(q) : i \in 1 .. Len(jobs') /\ jobs'[i] = q[i]
  BY <1>2, <1>4, <1>51
<1>10. Len(reactions'[p]) = 0
  BY <1>7, EmptySeq
<1>11. QED BY <1>1, <1>2, <1>4, <1>51, <1>6, <1>7, <1>8, <1>9, <1>10 DEF Moved

(* An attachment: a new number goes to the end of a list or of the queue.  *)
Joins(s, t, src, next) ==
    /\ Len(s) \in Nat /\ Len(t) = Len(s) + 1
    /\ \A i \in 1 .. Len(s) : t[i] = s[i]
    /\ t[Len(s) + 1].id = attached + 1
    /\ t[Len(s) + 1].next = next
    /\ t[Len(s) + 1].source = src

JoinedList(src, next, q) ==
    /\ attached' = attached + 1
    /\ Joins(reactions[src], reactions'[src], src, next)
    /\ \A y \in Promise \ {src} : reactions'[y] = reactions[y]
    /\ jobs' = q

JoinedQueue(src, next, q) ==
    /\ attached' = attached + 1
    /\ UNCHANGED reactions
    /\ Joins(q, jobs', src, next)

LEMMA AppendReactionJoins ==
    ASSUME HeapOK, NEW src \in Promise, NEW next \in Promise,
           NEW f \in Handler \union {NullHandler}, NEW r \in Handler \union {NullHandler},
           AppendReaction(src, f, r, next)
    PROVE  /\ Joins(reactions[src], reactions'[src], src, next)
           /\ \A y \in Promise \ {src} : reactions'[y] = reactions[y]
<1>1. PICK x : x = [onFulfilled |-> f, onRejected |-> r, next |-> next,
                    id |-> attached + 1, source |-> src]
  OBVIOUS
<1>2. x \in Reaction /\ x.id = attached + 1 /\ x.next = next /\ x.source = src
  BY <1>1 DEF Reaction, HeapOK
<1>3. reactions' = [reactions EXCEPT ![src] = Append(reactions[src], x)]
  BY <1>1 DEF AppendReaction
<1>4. reactions[src] \in Seq(Reaction) /\ Len(reactions[src]) \in Nat
  BY LenProperties DEF HeapOK
<1>5. reactions'[src] = Append(reactions[src], x)
  BY <1>3 DEF HeapOK
<1>6. /\ Len(reactions'[src]) = Len(reactions[src]) + 1
      /\ \A i \in 1 .. Len(reactions[src]) : reactions'[src][i] = reactions[src][i]
      /\ reactions'[src][Len(reactions[src]) + 1] = x
  BY <1>2, <1>4, <1>5, AppendProperties
<1>7. QED BY <1>2, <1>3, <1>4, <1>6 DEF Joins, HeapOK

-----------------------------------------------------------------------------
(* Moving and joining keep the places in order.                            *)

LEMMA MovedTickets ==
    ASSUME HeapOK, NEW p \in Promise, state[p] \notin Settled,
           NEW q, QueueOK(q), Tickets(q), Moved(p, q)
    PROVE  Tickets(jobs)'
<1>1. ASSUME NEW i \in 1 .. Len(jobs')
      PROVE  \/ i \in 1 .. Len(q) /\ jobs'[i] = q[i]
             \/ \E k \in 1 .. Len(reactions[p]) :
                   /\ i = Len(q) + k
                   /\ jobs'[i].id = reactions[p][k].id /\ jobs'[i].source = p
  BY DEF Moved, Follows
<1>2. \A y \in Promise : \A i \in 1 .. Len(reactions'[y]) :
         y # p /\ reactions'[y] = reactions[y] /\ i \in 1 .. Len(reactions[y])
  BY DEF Moved
<1>3. attached' = attached
  BY DEF Moved
<1>4. Numbered(jobs)'
  BY <1>1, <1>2, <1>3 DEF Tickets, Numbered
<1>5. ListsOrdered' /\ ListsApart'
  <2>1. ListsOrdered /\ ListsApart
    BY DEF Tickets
  <2>2. ListsOrdered'
    BY <1>2, <2>1 DEF ListsOrdered
  <2>3. ListsApart'
    BY <1>2, <2>1 DEF ListsApart
  <2>4. QED BY <2>2, <2>3
<1>6. \A k \in 1 .. Len(q) : q[k].source # p
  <2>1. TAKE k \in 1 .. Len(q)
  <2>2. q[k] \in Job /\ Carries(q[k])
    BY <2>1 DEF QueueOK, QueueCarries
  <2>3. QED BY <2>2 DEF Carries, Job
<1>7. QueueOrdered(jobs)'
  <2> SUFFICES ASSUME NEW i \in 1 .. Len(jobs'), NEW j \in 1 .. Len(jobs'), i < j
               PROVE  /\ jobs'[i].id # jobs'[j].id
                      /\ jobs'[i].source = jobs'[j].source => jobs'[i].id < jobs'[j].id
    BY DEF QueueOrdered
  <2>1. CASE i \in 1 .. Len(q) /\ j \in 1 .. Len(q)
    <3>1. jobs'[i] = q[i] /\ jobs'[j] = q[j]
      BY <2>1 DEF Moved
    <3>2. QED BY <2>1, <3>1 DEF Tickets, QueueOrdered
  <2>2. CASE i \in 1 .. Len(q) /\ j \notin 1 .. Len(q)
    <3>1. PICK k \in 1 .. Len(reactions[p]) :
              jobs'[j].id = reactions[p][k].id /\ jobs'[j].source = p
      BY <1>1, <2>2
    <3>2. reactions[p][k].id # q[i].id
      BY <2>2, <3>1 DEF Tickets, QueueApart
    <3>3. jobs'[i] = q[i] /\ q[i].source # p
      BY <1>6, <2>2 DEF Moved
    <3>4. QED BY <3>1, <3>2, <3>3
  <2>3. CASE i \notin 1 .. Len(q)
    <3>1. j \notin 1 .. Len(q)
      BY <2>3 DEF Moved
    <3>2. PICK k \in 1 .. Len(reactions[p]), l \in 1 .. Len(reactions[p]) :
              /\ i = Len(q) + k /\ j = Len(q) + l
              /\ jobs'[i].id = reactions[p][k].id /\ jobs'[j].id = reactions[p][l].id
      BY <1>1, <2>3, <3>1
    <3>3. k < l
      BY <3>2 DEF Moved
    <3>4. reactions[p][k].id < reactions[p][l].id
      BY <3>2, <3>3 DEF Tickets, ListsOrdered
    <3>5. \A m \in 1 .. Len(reactions[p]) : reactions[p][m].id \in 1 .. attached
      BY DEF Tickets, Numbered
    <3>6. attached \in Nat
      BY DEF HeapOK
    <3>7. reactions[p][k].id \in Nat /\ reactions[p][l].id \in Nat
      BY <3>5, <3>6
    <3>8. QED BY <3>2, <3>4, <3>7
  <2>4. QED BY <2>1, <2>2, <2>3
<1>8. QueueApart(jobs)'
  <2> SUFFICES ASSUME NEW y \in Promise, NEW i \in 1 .. Len(reactions'[y]),
                      NEW j \in 1 .. Len(jobs')
               PROVE  reactions'[y][i].id # jobs'[j].id
    BY DEF QueueApart
  <2>1. y # p /\ reactions'[y] = reactions[y] /\ i \in 1 .. Len(reactions[y])
    BY <1>2
  <2>2. CASE j \in 1 .. Len(q)
    BY <2>1, <2>2 DEF Tickets, QueueApart, Moved
  <2>3. CASE j \notin 1 .. Len(q)
    <3>1. PICK k \in 1 .. Len(reactions[p]) : jobs'[j].id = reactions[p][k].id
      BY <1>1, <2>3
    <3>2. reactions[y][i].id # reactions[p][k].id
      BY <2>1, <3>1 DEF Tickets, ListsApart
    <3>3. QED BY <2>1, <3>1, <3>2
  <2>4. QED BY <2>2, <2>3
<1>9. QED BY <1>4, <1>5, <1>7, <1>8 DEF Tickets

LEMMA MovedTaken ==
    ASSUME HeapOK, NEW p \in Promise, NEW q, Moved(p, q), NEW x, Taken(x, q)
    PROVE  Taken(x, jobs)'
<1>1. attached' = attached
  BY DEF Moved
<1>2. \A y \in Promise : \A i \in 1 .. Len(reactions'[y]) :
         reactions'[y] = reactions[y] /\ i \in 1 .. Len(reactions[y])
  BY DEF Moved
<1>3. ASSUME NEW i \in 1 .. Len(jobs')
      PROVE  jobs'[i].id # x.id
  <2>1. CASE i \in 1 .. Len(q)
    BY <2>1 DEF Moved, Taken
  <2>2. CASE i \notin 1 .. Len(q)
    <3>1. \E k \in 1 .. Len(reactions[p]) : jobs'[i].id = reactions[p][k].id
      BY <2>2 DEF Moved, Follows
    <3>2. QED BY <3>1 DEF Taken
  <2>3. QED BY <2>1, <2>2
<1>4. QED BY <1>1, <1>2, <1>3 DEF Taken

LEMMA MovedDrives ==
    ASSUME HeapOK, NEW p \in Promise, NEW q, Moved(p, q), NEW y, NEW d
    PROVE  Drives(y, d, jobs)' <=> Drives(y, d, q)
<1>1. ASSUME Drives(y, d, q)
      PROVE  Drives(y, d, jobs)'
  <2>1. ASSUME NEW z \in Promise, NEW i \in 1 .. Len(reactions[z]),
               reactions[z][i].next = y, reactions[z][i].id = d
        PROVE  Drives(y, d, jobs)'
    <3>1. CASE z = p
      <4>1. /\ Len(q) + i \in 1 .. Len(jobs')
            /\ jobs'[Len(q) + i].next = y /\ jobs'[Len(q) + i].id = d
        BY <2>1, <3>1 DEF Moved, Follows
      <4>2. QED BY <4>1 DEF Drives, Has
    <3>2. CASE z # p
      BY <2>1, <3>2 DEF Moved, Drives, Has
    <3>3. QED BY <3>1, <3>2
  <2>2. ASSUME NEW i \in 1 .. Len(q), q[i].next = y, q[i].id = d
        PROVE  Drives(y, d, jobs)'
    <3>1. i \in 1 .. Len(jobs') /\ jobs'[i] = q[i]
      BY DEF Moved
    <3>2. QED BY <2>2, <3>1 DEF Drives, Has
  <2>3. QED BY <1>1, <2>1, <2>2 DEF Drives, Has
<1>2. ASSUME Drives(y, d, jobs)'
      PROVE  Drives(y, d, q)
  <2>1. ASSUME NEW z \in Promise, NEW i \in 1 .. Len(reactions'[z]),
               reactions'[z][i].next = y, reactions'[z][i].id = d
        PROVE  Drives(y, d, q)
    BY <2>1 DEF Moved, Drives, Has
  <2>2. ASSUME NEW i \in 1 .. Len(jobs'), jobs'[i].next = y, jobs'[i].id = d
        PROVE  Drives(y, d, q)
    <3>1. CASE i \in 1 .. Len(q)
      BY <2>2, <3>1 DEF Moved, Drives, Has
    <3>2. CASE i \notin 1 .. Len(q)
      <4>1. PICK k \in 1 .. Len(reactions[p]) : Follows(jobs'[i], reactions[p][k], p)
        BY <3>2 DEF Moved
      <4>2. QED BY <2>2, <4>1 DEF Drives, Has, Follows
    <3>3. QED BY <3>1, <3>2
  <2>3. QED BY <1>2, <2>1, <2>2 DEF Drives, Has
<1>3. QED BY <1>1, <1>2

(* A new number is greater than all there are, so joining keeps the order. *)
LEMMA JoinedPlaces ==
    ASSUME NEW s, NEW t, NEW src, NEW next, Joins(s, t, src, next)
    PROVE  /\ \A i \in 1 .. Len(s) : i \in 1 .. Len(t) /\ t[i] = s[i]
           /\ Len(s) + 1 \in 1 .. Len(t)
           /\ \A i \in 1 .. Len(t) : i \in 1 .. Len(s) \/ i = Len(s) + 1
BY DEF Joins

LEMMA JoinedListTickets ==
    ASSUME HeapOK, NEW src \in Promise, NEW next \in Promise,
           NEW q, Tickets(q), JoinedList(src, next, q)
    PROVE  Tickets(jobs)'
<1>1. attached \in Nat /\ attached' = attached + 1 /\ jobs' = q
  BY DEF HeapOK, JoinedList
<1>2. PICK s, t : s = reactions[src] /\ t = reactions'[src]
  OBVIOUS
<1>3. Joins(s, t, src, next)
  BY <1>2 DEF JoinedList
<1>4. \A i \in 1 .. Len(t) : \/ i \in 1 .. Len(s) /\ t[i] = s[i]
                             \/ i = Len(s) + 1 /\ t[i].id = attached + 1
  BY <1>3, JoinedPlaces DEF Joins
<1>5. \A y \in Promise \ {src} : reactions'[y] = reactions[y]
  BY DEF JoinedList
<1>6. ASSUME NEW y \in Promise, NEW i \in 1 .. Len(reactions'[y])
      PROVE  \/ i \in 1 .. Len(reactions[y]) /\ reactions'[y][i] = reactions[y][i]
             \/ y = src /\ i = Len(s) + 1 /\ reactions'[y][i].id = attached + 1
  BY <1>2, <1>4, <1>5
<1>7. \A y \in Promise : \A i \in 1 .. Len(reactions[y]) : reactions[y][i].id \in 1 .. attached
  BY DEF Tickets, Numbered
<1>8. \A i \in 1 .. Len(q) : q[i].id \in 1 .. attached
  BY DEF Tickets, Numbered
<1>9. Numbered(jobs)'
  <2>1. ASSUME NEW y \in Promise, NEW i \in 1 .. Len(reactions'[y])
        PROVE  reactions'[y][i].id \in 1 .. attached'
    BY <1>1, <1>6, <1>7
  <2>2. ASSUME NEW i \in 1 .. Len(jobs')
        PROVE  jobs'[i].id \in 1 .. attached'
    BY <1>1, <1>8
  <2>3. QED BY <2>1, <2>2 DEF Numbered
<1>10. ListsOrdered'
  <2> SUFFICES ASSUME NEW y \in Promise, NEW i \in 1 .. Len(reactions'[y]),
                      NEW j \in 1 .. Len(reactions'[y]), i < j
               PROVE  reactions'[y][i].id < reactions'[y][j].id
    BY DEF ListsOrdered
  <2>1. Len(s) \in Nat
    BY <1>3 DEF Joins
  <2>2. i \in 1 .. Len(reactions[y]) /\ reactions'[y][i] = reactions[y][i]
    <3>1. CASE y # src
      BY <1>5, <3>1
    <3>2. CASE y = src
      BY <1>2, <1>4, <2>1, <1>3, <3>2 DEF Joins
    <3>3. QED BY <3>1, <3>2
  <2>3. CASE j \in 1 .. Len(reactions[y]) /\ reactions'[y][j] = reactions[y][j]
    BY <2>2, <2>3 DEF Tickets, ListsOrdered
  <2>4. CASE reactions'[y][j].id = attached + 1
    BY <1>1, <1>7, <2>2, <2>4
  <2>5. QED BY <1>6, <2>3, <2>4
<1>11. ListsApart'
  <2> SUFFICES ASSUME NEW y \in Promise, NEW z \in Promise, y # z,
                      NEW i \in 1 .. Len(reactions'[y]), NEW j \in 1 .. Len(reactions'[z])
               PROVE  reactions'[y][i].id # reactions'[z][j].id
    BY DEF ListsApart
  <2>1. CASE /\ i \in 1 .. Len(reactions[y]) /\ reactions'[y][i] = reactions[y][i]
             /\ j \in 1 .. Len(reactions[z]) /\ reactions'[z][j] = reactions[z][j]
    BY <2>1 DEF Tickets, ListsApart
  <2>2. CASE reactions'[y][i].id = attached + 1 /\ y = src
    <3>1. j \in 1 .. Len(reactions[z]) /\ reactions'[z][j] = reactions[z][j]
      BY <1>6, <2>2
    <3>2. QED BY <1>1, <1>7, <2>2, <3>1
  <2>3. CASE reactions'[z][j].id = attached + 1 /\ z = src
    <3>1. i \in 1 .. Len(reactions[y]) /\ reactions'[y][i] = reactions[y][i]
      BY <1>6, <2>3
    <3>2. QED BY <1>1, <1>7, <2>3, <3>1
  <2>4. QED BY <1>6, <2>1, <2>2, <2>3
<1>12. QueueOrdered(jobs)'
  BY <1>1 DEF Tickets, QueueOrdered
<1>13. QueueApart(jobs)'
  <2> SUFFICES ASSUME NEW y \in Promise, NEW i \in 1 .. Len(reactions'[y]),
                      NEW j \in 1 .. Len(q)
               PROVE  reactions'[y][i].id # q[j].id
    BY <1>1 DEF QueueApart
  <2>1. CASE i \in 1 .. Len(reactions[y]) /\ reactions'[y][i] = reactions[y][i]
    BY <2>1 DEF Tickets, QueueApart
  <2>2. CASE reactions'[y][i].id = attached + 1
    BY <1>1, <1>8, <2>2
  <2>3. QED BY <1>6, <2>1, <2>2
<1>14. QED BY <1>9, <1>10, <1>11, <1>12, <1>13 DEF Tickets

LEMMA JoinedQueueTickets ==
    ASSUME HeapOK, NEW src \in Promise, NEW next \in Promise,
           NEW q, Tickets(q), JoinedQueue(src, next, q)
    PROVE  Tickets(jobs)'
<1>1. /\ attached \in Nat /\ attached' = attached + 1 /\ reactions' = reactions
      /\ Joins(q, jobs', src, next)
  BY DEF HeapOK, JoinedQueue
<1>2. PICK t : t = jobs'
  OBVIOUS
<1>3. \A i \in 1 .. Len(t) : \/ i \in 1 .. Len(q) /\ t[i] = q[i]
                             \/ i = Len(q) + 1 /\ t[i].id = attached + 1
  BY <1>1, <1>2, JoinedPlaces DEF Joins
<1>4. \A y \in Promise : \A i \in 1 .. Len(reactions[y]) : reactions[y][i].id \in 1 .. attached
  BY DEF Tickets, Numbered
<1>5. \A i \in 1 .. Len(q) : q[i].id \in 1 .. attached
  BY DEF Tickets, Numbered
<1>6. Numbered(jobs)'
  <2>1. ASSUME NEW y \in Promise, NEW i \in 1 .. Len(reactions'[y])
        PROVE  reactions'[y][i].id \in 1 .. attached'
    BY <1>1, <1>4
  <2>2. ASSUME NEW i \in 1 .. Len(jobs')
        PROVE  jobs'[i].id \in 1 .. attached'
    BY <1>1, <1>2, <1>3, <1>5
  <2>3. QED BY <2>1, <2>2 DEF Numbered
<1>7. ListsOrdered' /\ ListsApart'
  BY <1>1 DEF Tickets, ListsOrdered, ListsApart
<1>8. QueueOrdered(jobs)'
  <2> SUFFICES ASSUME NEW i \in 1 .. Len(t), NEW j \in 1 .. Len(t), i < j
               PROVE  t[i].id # t[j].id /\ (t[i].source = t[j].source => t[i].id < t[j].id)
    BY <1>2 DEF QueueOrdered
  <2>1. Len(q) \in Nat /\ Len(t) = Len(q) + 1
    BY <1>1, <1>2 DEF Joins
  <2>2. i \in 1 .. Len(q) /\ t[i] = q[i]
    BY <1>3, <2>1
  <2>3. CASE j \in 1 .. Len(q) /\ t[j] = q[j]
    BY <2>2, <2>3 DEF Tickets, QueueOrdered
  <2>4. CASE t[j].id = attached + 1
    BY <1>1, <1>5, <2>2, <2>4
  <2>5. QED BY <1>3, <2>3, <2>4
<1>9. QueueApart(jobs)'
  <2> SUFFICES ASSUME NEW y \in Promise, NEW i \in 1 .. Len(reactions[y]),
                      NEW j \in 1 .. Len(t)
               PROVE  reactions[y][i].id # t[j].id
    BY <1>1, <1>2 DEF QueueApart
  <2>1. CASE j \in 1 .. Len(q) /\ t[j] = q[j]
    BY <2>1 DEF Tickets, QueueApart
  <2>2. CASE t[j].id = attached + 1
    BY <1>1, <1>4, <2>2
  <2>3. QED BY <1>3, <2>1, <2>2
<1>10. QED BY <1>6, <1>7, <1>8, <1>9 DEF Tickets

LEMMA JoinedTaken ==
    ASSUME HeapOK, NEW src \in Promise, NEW next \in Promise, NEW q, NEW x, Taken(x, q),
           JoinedList(src, next, q) \/ JoinedQueue(src, next, q)
    PROVE  Taken(x, jobs)'
<1>1. attached \in Nat /\ attached' = attached + 1 /\ x.id \in 1 .. attached
  BY DEF HeapOK, JoinedList, JoinedQueue, Taken
<1>2. ASSUME NEW y \in Promise, NEW i \in 1 .. Len(reactions'[y])
      PROVE  reactions'[y][i].id # x.id
  <2>1. CASE y # src \/ JoinedQueue(src, next, q)
    <3>1. reactions'[y] = reactions[y]
      BY <2>1 DEF JoinedList, JoinedQueue
    <3>2. QED BY <3>1 DEF Taken
  <2>2. CASE y = src /\ JoinedList(src, next, q)
    <3>1. PICK s, t : s = reactions[src] /\ t = reactions'[src]
      OBVIOUS
    <3>2. Joins(s, t, src, next)
      BY <2>2, <3>1 DEF JoinedList
    <3>3. (i \in 1 .. Len(s) /\ t[i] = s[i]) \/ t[i].id = attached + 1
      BY <2>2, <3>1, <3>2, JoinedPlaces DEF Joins
    <3>4. QED BY <1>1, <2>2, <3>1, <3>3 DEF Taken
  <2>3. QED BY <2>1, <2>2
<1>3. ASSUME NEW i \in 1 .. Len(jobs')
      PROVE  jobs'[i].id # x.id
  <2>1. CASE JoinedList(src, next, q)
    BY <2>1 DEF JoinedList, Taken
  <2>2. CASE JoinedQueue(src, next, q)
    <3>1. PICK t : t = jobs'
      OBVIOUS
    <3>2. Joins(q, t, src, next)
      BY <2>2, <3>1 DEF JoinedQueue
    <3>3. (i \in 1 .. Len(q) /\ t[i] = q[i]) \/ t[i].id = attached + 1
      BY <3>1, <3>2, JoinedPlaces DEF Joins
    <3>4. QED BY <1>1, <3>1, <3>3 DEF Taken
  <2>3. QED BY <2>1, <2>2
<1>4. QED BY <1>1, <1>2, <1>3 DEF Taken

LEMMA JoinedHas ==
    ASSUME NEW s, NEW t, NEW src, NEW next, Joins(s, t, src, next), NEW y, NEW d
    PROVE  Has(t, y, d) <=> Has(s, y, d) \/ (y = next /\ d = attached + 1)
<1>1. ASSUME NEW i \in 1 .. Len(t), t[i].next = y, t[i].id = d
      PROVE  Has(s, y, d) \/ (y = next /\ d = attached + 1)
  <2>1. (i \in 1 .. Len(s) /\ t[i] = s[i]) \/ i = Len(s) + 1
    BY JoinedPlaces
  <2>2. QED BY <1>1, <2>1 DEF Joins, Has
<1>2. ASSUME NEW i \in 1 .. Len(s), s[i].next = y, s[i].id = d
      PROVE  Has(t, y, d)
  BY <1>2, JoinedPlaces DEF Has
<1>3. ASSUME y = next, d = attached + 1
      PROVE  Has(t, y, d)
  BY <1>3, JoinedPlaces DEF Joins, Has
<1>4. QED BY <1>1, <1>2, <1>3 DEF Has

LEMMA JoinedDrives ==
    ASSUME HeapOK, NEW src \in Promise, NEW next \in Promise, NEW q,
           JoinedList(src, next, q) \/ JoinedQueue(src, next, q), NEW y, NEW d
    PROVE  Drives(y, d, jobs)' <=> Drives(y, d, q) \/ (y = next /\ d = attached + 1)
<1>1. CASE JoinedList(src, next, q)
  <2>1. PICK s, t : s = reactions[src] /\ t = reactions'[src]
    OBVIOUS
  <2>2. /\ Joins(s, t, src, next) /\ jobs' = q
        /\ \A z \in Promise \ {src} : reactions'[z] = reactions[z]
    BY <1>1, <2>1 DEF JoinedList
  <2>3. Has(t, y, d) <=> Has(s, y, d) \/ (y = next /\ d = attached + 1)
    BY <2>2, JoinedHas
  <2>4. ASSUME NEW z \in Promise
        PROVE  Has(reactions'[z], y, d)
                 <=> Has(reactions[z], y, d) \/ (z = src /\ y = next /\ d = attached + 1)
    BY <2>1, <2>2, <2>3
  <2>5. QED BY <2>2, <2>4 DEF Drives, Has
<1>2. CASE JoinedQueue(src, next, q)
  <2>1. PICK t : t = jobs'
    OBVIOUS
  <2>2. Joins(q, t, src, next) /\ reactions' = reactions
    BY <1>2, <2>1 DEF JoinedQueue
  <2>3. Has(t, y, d) <=> Has(q, y, d) \/ (y = next /\ d = attached + 1)
    BY <2>2, JoinedHas
  <2>4. QED BY <2>1, <2>2, <2>3 DEF Drives, Has
<1>3. QED BY <1>1, <1>2

(* Taking the head of the queue.                                           *)
LEMMA TailPlaces ==
    ASSUME NEW q \in Seq(Job), q # << >>, Tickets(q)
    PROVE  /\ Tickets(Tail(q))
           /\ Taken(Head(q), Tail(q))
           /\ \A i \in 1 .. Len(Tail(q)) :
                 Tail(q)[i].source = Head(q).source => Head(q).id < Tail(q)[i].id
           /\ \A y, d : Drives(y, d, q) <=>
                 Drives(y, d, Tail(q)) \/ (Head(q).next = y /\ Head(q).id = d)
<1>1. PICK h, t : h = Head(q) /\ t = Tail(q)
  OBVIOUS
<1>2. /\ Len(q) \in Nat \ {0} /\ 1 \in 1 .. Len(q)
      /\ h = q[1] /\ Len(t) = Len(q) - 1
      /\ \A i \in 1 .. Len(t) : t[i] = q[i + 1]
  BY <1>1, EmptySeq, HeadTailProperties
<1>3. \A i \in 1 .. Len(t) : i + 1 \in 1 .. Len(q) /\ 1 < i + 1 /\ t[i] = q[i + 1]
  BY <1>2
<1>4. \A i \in 1 .. Len(q) : i = 1 \/ (i - 1 \in 1 .. Len(t) /\ t[i - 1] = q[i])
  BY <1>2
<1>5. Numbered(t) /\ QueueApart(t)
  <2>1. Numbered(q) /\ QueueApart(q)
    BY DEF Tickets
  <2>2. Numbered(t)
    BY <1>3, <2>1 DEF Numbered
  <2>3. QueueApart(t)
    BY <1>3, <2>1 DEF QueueApart
  <2>4. QED BY <2>2, <2>3
<1>6. QueueOrdered(t)
  <2> SUFFICES ASSUME NEW i \in 1 .. Len(t), NEW j \in 1 .. Len(t), i < j
               PROVE  t[i].id # t[j].id /\ (t[i].source = t[j].source => t[i].id < t[j].id)
    BY DEF QueueOrdered
  <2>1. i + 1 < j + 1 /\ t[i] = q[i + 1] /\ t[j] = q[j + 1]
    BY <1>2
  <2>2. i + 1 \in 1 .. Len(q) /\ j + 1 \in 1 .. Len(q)
    BY <1>3
  <2>3. QueueOrdered(q)
    BY DEF Tickets
  <2>4. QED BY <2>1, <2>2, <2>3 DEF QueueOrdered
<1>7. Tickets(t)
  BY <1>5, <1>6 DEF Tickets
<1>8. /\ Taken(h, t)
      /\ \A i \in 1 .. Len(t) : t[i].source = h.source => h.id < t[i].id
  <2>1. h.id \in 1 .. attached
    BY <1>2 DEF Tickets, Numbered
  <2>2. \A p \in Promise : \A i \in 1 .. Len(reactions[p]) : reactions[p][i].id # h.id
    BY <1>2 DEF Tickets, QueueApart
  <2>3. ASSUME NEW i \in 1 .. Len(t)
        PROVE  t[i].id # h.id /\ (t[i].source = h.source => h.id < t[i].id)
    <3>1. i + 1 \in 1 .. Len(q) /\ 1 < i + 1 /\ t[i] = q[i + 1]
      BY <1>3
    <3>2. QED BY <1>2, <3>1 DEF Tickets, QueueOrdered
  <2>4. QED BY <2>1, <2>2, <2>3 DEF Taken
<1>9. ASSUME NEW y, NEW d
      PROVE  Drives(y, d, q) <=> Drives(y, d, t) \/ (h.next = y /\ h.id = d)
  <2>1. (\E i \in 1 .. Len(q) : q[i].next = y /\ q[i].id = d)
          <=> \/ \E i \in 1 .. Len(t) : t[i].next = y /\ t[i].id = d
              \/ h.next = y /\ h.id = d
    BY <1>2, <1>3, <1>4
  <2>2. QED BY <2>1 DEF Drives, Has
<1>10. QED BY <1>1, <1>7, <1>8, <1>9

-----------------------------------------------------------------------------
(* One driver per promise.  a is the job that was taken out of the queue   *)
(* and has not done its work yet, or <<>>.                                 *)

DrivenBy(p, d, q, a) == Drives(p, d, q) \/ (a # << >> /\ a.next = p /\ a.id = d)

(* A pending promise has one driver, a promise in any other state none.    *)
Single(p, q, a) ==
    IF state[p] = "pending" THEN \E d : \A e : DrivenBy(p, e, q, a) <=> e = d
                            ELSE \A e : ~DrivenBy(p, e, q, a)

(* Promises from ecmora_promise_pending are left out: the program settles  *)
(* them, whatever else waits to settle them.                               *)
Singles(q, a) == \A p \in Promise : origin[p] # "pending" => Single(p, q, a)

Allocated == \A p \in Promise : state[p] = "free" <=> origin[p] = "free"

CInv ==
    /\ IInv
    /\ Tickets(jobs)
    /\ running # << >> => Taken(running, jobs)
    /\ Allocated
    /\ Singles(jobs, running)

(* A step gives p an outcome: p is settled and no driver is new, or p      *)
(* waits with a new one; or the step does nothing to the heap.             *)
Passes(q) == \A y, d : Drives(y, d, jobs)' <=> Drives(y, d, q)
Gains(p, q) ==
    \A y, d : Drives(y, d, jobs)' <=> Drives(y, d, q) \/ (y = p /\ d = attached + 1)

Gives(p, q) ==
    /\ \A y \in Promise \ {p} : state'[y] = state[y]
    /\ \/ state'[p] \in Settled /\ Passes(q)
       \/ state'[p] = "pending" /\ Gains(p, q)

Nothing(q) == jobs' = q /\ UNCHANGED <<state, result, reactions, attached>>

(* The identity part of a heap step from the queue q.                      *)
TicketStep(q) == Tickets(jobs)' /\ \A x : Taken(x, q) => Taken(x, jobs)'

LEMMA SettleToGives ==
    ASSUME HeapOK, NEW p \in Promise, state[p] \notin Settled, NEW st \in Settled,
           NEW v \in Value, NEW q, QueueOK(q), Tickets(q), SettleTo(p, st, v, q)
    PROVE  Gives(p, q) /\ TicketStep(q)
<1>1. Moved(p, q)
  BY SettleToMoves
<1>2. TicketStep(q)
  BY <1>1, MovedTickets, MovedTaken DEF TicketStep
<1>3. Passes(q)
  BY <1>1, MovedDrives DEF Passes
<1>4. state'[p] = st /\ \A y \in Promise \ {p} : state'[y] = state[y]
  BY DEF SettleTo, HeapOK
<1>5. QED BY <1>2, <1>3, <1>4 DEF Gives

LEMMA AdoptPendingGives ==
    ASSUME HeapOK, NEW p \in Promise, NEW src \in Promise,
           NEW q, QueueOK(q), Tickets(q), AdoptPending(p, src, q)
    PROVE  Gives(p, q) /\ TicketStep(q)
<1>1. JoinedList(src, p, q)
  BY AppendReactionJoins DEF AdoptPending, JoinedList
<1>2. TicketStep(q)
  BY <1>1, JoinedListTickets, JoinedTaken DEF TicketStep
<1>3. Gains(p, q)
  BY <1>1, JoinedDrives DEF Gains
<1>4. state'[p] = "pending" /\ \A y \in Promise \ {p} : state'[y] = state[y]
  BY DEF AdoptPending, HeapOK
<1>5. QED BY <1>2, <1>3, <1>4 DEF Gives

LEMMA ResolveGives ==
    ASSUME HeapOK, NEW p \in Promise, state[p] \notin Settled, NEW v \in Value,
           NEW q, QueueOK(q), Tickets(q), Resolve(p, v, q)
    PROVE  Gives(p, q) /\ TicketStep(q)
<1>1. CASE v \notin Promise /\ SettleTo(p, "fulfilled", v, q)
  BY <1>1, SettleToGives DEF Settled
<1>2. CASE v = p /\ SettleTo(p, "rejected", Undefined, q)
  <2>1. Undefined \in Value
    BY ValuesAssumption DEF Value
  <2>2. QED BY <1>2, <2>1, SettleToGives DEF Settled
<1>3. CASE v \in Promise \ {p} /\ state[v] = "pending" /\ AdoptPending(p, v, q)
  BY <1>3, AdoptPendingGives
<1>4. CASE v \in Promise \ {p} /\ state[v] \in Settled /\ SettleTo(p, state[v], result[v], q)
  <2>1. result[v] \in Value
    BY <1>4 DEF HeapOK
  <2>2. QED BY <1>4, <2>1, SettleToGives
<1>5. QED BY <1>1, <1>2, <1>3, <1>4 DEF Resolve

LEMMA NothingGives ==
    ASSUME NEW q, Tickets(q), Nothing(q)
    PROVE  Passes(q) /\ TicketStep(q) /\ \A y \in Promise : state'[y] = state[y]
<1>1. Tickets(jobs)'
  <2>1. jobs' = q /\ reactions' = reactions /\ attached' = attached
    BY DEF Nothing
  <2>2. Numbered(jobs)' /\ QueueApart(jobs)'
    BY <2>1 DEF Tickets, Numbered, QueueApart
  <2>3. QueueOrdered(jobs)' /\ ListsOrdered' /\ ListsApart'
    BY <2>1 DEF Tickets, QueueOrdered, ListsOrdered, ListsApart
  <2>4. QED BY <2>2, <2>3 DEF Tickets
<1>2. \A x : Taken(x, q) => Taken(x, jobs)'
  BY DEF Nothing, Taken
<1>3. Passes(q)
  BY DEF Nothing, Passes, Drives, Has
<1>4. QED BY <1>1, <1>2, <1>3 DEF Nothing, TicketStep

(* A step that gives p an outcome keeps one driver, if p had none but the  *)
(* job a that was taken and is now done with.                              *)
LEMMA GivesSingles ==
    ASSUME NEW p \in Promise, NEW q, NEW a, Gives(p, q),
           \A y \in Promise \ {p} : origin'[y] # "pending" => Single(y, q, a),
           origin'[p] # "pending" => \A e : ~DrivenBy(p, e, q, a)
    PROVE  Singles(jobs, a)'
<1> SUFFICES ASSUME NEW y \in Promise, origin'[y] # "pending"
             PROVE  Single(y, jobs, a)'
  BY DEF Singles
<1>1. CASE y # p
  <2>1. Single(y, q, a) /\ state'[y] = state[y]
    BY <1>1 DEF Gives
  <2>2. \A e : DrivenBy(y, e, jobs, a)' <=> DrivenBy(y, e, q, a)
    BY <1>1 DEF Gives, Passes, Gains, DrivenBy
  <2>3. QED BY <2>1, <2>2 DEF Single
<1>2. CASE y = p
  <2>1. \A e : ~DrivenBy(p, e, q, a)
    BY <1>2
  <2>2. CASE state'[p] \in Settled /\ Passes(q)
    <3>1. \A e : ~DrivenBy(p, e, jobs, a)'
      BY <2>1, <2>2 DEF Passes, DrivenBy
    <3>2. QED BY <1>2, <2>2, <3>1 DEF Single, Settled
  <2>3. CASE state'[p] = "pending" /\ Gains(p, q)
    <3>1. \A e : DrivenBy(p, e, jobs, a)' <=> e = attached + 1
      BY <2>1, <2>3 DEF Gains, DrivenBy
    <3>2. QED BY <1>2, <2>3, <3>1 DEF Single
  <2>4. QED BY <2>2, <2>3 DEF Gives
<1>3. QED BY <1>1, <1>2

LEMMA PassesSingles ==
    ASSUME NEW q, NEW a, Passes(q), \A y \in Promise : state'[y] = state[y],
           \A y \in Promise : origin'[y] # "pending" => Single(y, q, a)
    PROVE  Singles(jobs, a)'
<1> SUFFICES ASSUME NEW y \in Promise, origin'[y] # "pending"
             PROVE  Single(y, jobs, a)'
  BY DEF Singles
<1>1. \A e : DrivenBy(y, e, jobs, a)' <=> DrivenBy(y, e, q, a)
  BY DEF Passes, DrivenBy
<1>2. Single(y, q, a) /\ state'[y] = state[y]
  OBVIOUS
<1>3. QED BY <1>1, <1>2 DEF Single

(* Once the job a is done with, nothing drives the promise it settled.     *)
LEMMA DoneWith ==
    ASSUME NEW p \in Promise, NEW q, NEW a, a # << >>, a.next = p, Taken(a, q),
           NEW y \in Promise, Single(y, q, a), y = p => state[p] = "pending"
    PROVE  /\ y # p => Single(y, q, << >>)
           /\ y = p => \A e : ~DrivenBy(p, e, q, << >>)
<1>1. CASE y # p
  <2>1. \A e : DrivenBy(y, e, q, a) <=> DrivenBy(y, e, q, << >>)
    BY <1>1 DEF DrivenBy
  <2>2. QED BY <1>1, <2>1 DEF Single
<1>2. CASE y = p
  <2>1. PICK d : \A e : DrivenBy(p, e, q, a) <=> e = d
    BY <1>2 DEF Single
  <2>2. d = a.id
    BY <2>1 DEF DrivenBy
  <2>3. ~Has(q, p, a.id) /\ \A z \in Promise : ~Has(reactions[z], p, a.id)
    BY DEF Taken, Has
  <2>4. ~Drives(p, a.id, q)
    BY <2>3 DEF Drives
  <2>5. QED BY <1>2, <2>1, <2>2, <2>4 DEF DrivenBy
<1>3. QED BY <1>1, <1>2

-----------------------------------------------------------------------------
(* Every action keeps the invariant.                                       *)

LEMMA InitCInv == Init => CInv
<1> SUFFICES ASSUME Init PROVE CInv
  OBVIOUS
<1>1. IInv
  BY InitIInv
<1>2. jobs = << >> /\ running = << >> /\ \A p \in Promise : reactions[p] = << >>
  BY DEF Init
<1>3. \A i : i \notin 1 .. Len(jobs)
  BY <1>2, EmptySeq
<1>4. \A p \in Promise : \A i : i \notin 1 .. Len(reactions[p])
  BY <1>2, EmptySeq
<1>5. Tickets(jobs)
  BY <1>3, <1>4 DEF Tickets, Numbered, ListsOrdered, ListsApart, QueueOrdered, QueueApart
<1>6. Allocated
  BY DEF Init, Allocated
<1>7. \A p, d : ~DrivenBy(p, d, jobs, running)
  BY <1>2, <1>3, <1>4 DEF DrivenBy, Drives, Has
<1>8. Singles(jobs, running)
  BY <1>7 DEF Singles, Single, Init
<1>9. QED BY <1>1, <1>2, <1>5, <1>6, <1>8 DEF CInv

(* A step of a call: the queue is the microtask list and the running       *)
(* handler, the caller perhaps, goes on.                                   *)
LEMMA CallKeeps ==
    ASSUME CInv, IInv', NEW p \in Promise, NEW q, q = jobs,
           Gives(p, q), TicketStep(q), UNCHANGED running,
           origin'[p] # "pending" => state[p] = "free",
           origin'[p] # "free",
           \A y \in Promise \ {p} : origin'[y] = origin[y]
    PROVE  CInv'
<1>1. PICK a : a = running
  OBVIOUS
<1>2. (running # << >> => Taken(running, jobs))'
  BY <1>1 DEF CInv, TicketStep
<1>3. Allocated'
  BY DEF CInv, Allocated, Gives, Settled
<1>4. \A y \in Promise \ {p} : origin'[y] # "pending" => Single(y, q, a)
  BY <1>1 DEF CInv, Singles
<1>5. origin'[p] # "pending" => \A e : ~DrivenBy(p, e, q, a)
  BY <1>1 DEF CInv, Singles, Single, Allocated
<1>6. Singles(jobs, a)'
  BY <1>4, <1>5, GivesSingles
<1>7. Singles(jobs, running)'
  <2> SUFFICES ASSUME NEW y \in Promise, origin'[y] # "pending"
               PROVE  Single(y, jobs, running)'
    BY DEF Singles
  <2>1. Single(y, jobs, a)'
    BY <1>6 DEF Singles
  <2>2. \A e : DrivenBy(y, e, jobs, running)' <=> DrivenBy(y, e, jobs, a)'
    BY <1>1 DEF DrivenBy
  <2>3. QED BY <2>1, <2>2 DEF Single
<1>8. QED BY <1>2, <1>3, <1>7 DEF CInv, TicketStep

LEMMA CreateKeeps ==
    ASSUME CInv, IInv', NEW p \in Promise, NEW v \in Value,
           PromiseResolved(p, v) \/ PromiseRejected(p, v)
    PROVE  CInv'
<1>1. PICK q : q = jobs
  OBVIOUS
<1>2. /\ HeapOK /\ QueueOK(q) /\ Tickets(q)
      /\ state[p] = "free" /\ state[p] \notin Settled /\ "rejected" \in Settled
  BY <1>1, QueueOfIInv DEF CInv, PromiseResolved, PromiseRejected, Allocate, Settled
<1>3. Resolve(p, v, q) \/ SettleTo(p, "rejected", v, q)
  BY <1>1 DEF PromiseResolved, PromiseRejected
<1>4. Gives(p, q) /\ TicketStep(q)
  BY <1>2, <1>3, ResolveGives, SettleToGives
<1>5. /\ UNCHANGED running /\ origin'[p] # "free"
      /\ \A y \in Promise \ {p} : origin'[y] = origin[y]
  BY DEF PromiseResolved, PromiseRejected, Allocate, CInv, IInv, TypeOK
<1>6. QED BY <1>1, <1>2, <1>4, <1>5, CallKeeps

LEMMA PendingKeeps ==
    ASSUME CInv, IInv', NEW p \in Promise, PromisePending(p)
    PROVE  CInv'
<1>1. PICK q, a : q = jobs /\ a = running
  OBVIOUS
<1>2. /\ jobs' = q /\ UNCHANGED <<result, reactions, attached, running>>
      /\ state[p] = "free" /\ state' = [state EXCEPT ![p] = "pending"]
      /\ origin' = [origin EXCEPT ![p] = "pending"]
  BY <1>1 DEF PromisePending, Allocate
<1>3. Tickets(jobs)'
  BY <1>2, <1>1 DEF CInv, Tickets, Numbered, ListsOrdered, ListsApart, QueueOrdered, QueueApart
<1>4. (running # << >> => Taken(running, jobs))'
  BY <1>2, <1>1 DEF CInv, Taken
<1>5. Allocated'
  BY <1>2 DEF CInv, Allocated, IInv, TypeOK
<1>6. Singles(jobs, running)'
  <2> SUFFICES ASSUME NEW y \in Promise, origin'[y] # "pending"
               PROVE  Single(y, jobs, running)'
    BY DEF Singles
  <2>1. y # p /\ state'[y] = state[y] /\ origin[y] # "pending"
    BY <1>2 DEF CInv, IInv, TypeOK
  <2>2. Single(y, jobs, running)
    BY <2>1 DEF CInv, Singles
  <2>3. \A e : DrivenBy(y, e, jobs, running)' <=> DrivenBy(y, e, jobs, running)
    BY <1>1, <1>2 DEF DrivenBy, Drives, Has
  <2>4. QED BY <2>1, <2>2, <2>3 DEF Single
<1>7. QED BY <1>3, <1>4, <1>5, <1>6 DEF CInv

(* A step that leaves the heap alone, apart from what it took of the queue. *)
LEMMA NothingKeeps ==
    ASSUME CInv, IInv', NEW q, NEW a, Tickets(q), Nothing(q), UNCHANGED origin,
           running' = a, a # << >> => Taken(a, q), Singles(q, a)
    PROVE  CInv'
<1>1. Passes(q) /\ TicketStep(q) /\ \A y \in Promise : state'[y] = state[y]
  BY NothingGives
<1>2. Singles(jobs, a)'
  BY <1>1, PassesSingles DEF Singles
<1>3. Singles(jobs, running)'
  <2> SUFFICES ASSUME NEW y \in Promise, origin'[y] # "pending"
               PROVE  Single(y, jobs, running)'
    BY DEF Singles
  <2>1. Single(y, jobs, a)'
    BY <1>2 DEF Singles
  <2>2. \A e : DrivenBy(y, e, jobs, running)' <=> DrivenBy(y, e, jobs, a)'
    BY DEF DrivenBy
  <2>3. QED BY <2>1, <2>2 DEF Single
<1>4. (running # << >> => Taken(running, jobs))'
  BY <1>1 DEF TicketStep, Taken
<1>5. Allocated'
  BY <1>1 DEF CInv, Allocated
<1>6. QED BY <1>1, <1>3, <1>4, <1>5 DEF CInv, TicketStep

LEMMA SettleKeeps ==
    ASSUME CInv, IInv', NEW p \in Promise, NEW rejected \in BOOLEAN, NEW v \in Value,
           PromiseSettle(p, rejected, v)
    PROVE  CInv'
<1>1. PICK q, a : q = jobs /\ a = running
  OBVIOUS
<1>2. HeapOK /\ QueueOK(q) /\ Tickets(q) /\ UNCHANGED <<origin, running>> /\ origin[p] = "pending"
  BY <1>1, QueueOfIInv DEF CInv, PromiseSettle
<1>3. CASE state[p] # "pending"
  <2>1. Nothing(q)
    BY <1>1, <1>3 DEF PromiseSettle, IfPending, Nothing
  <2>2. QED BY <1>1, <1>2, <2>1, NothingKeeps DEF CInv
<1>4. CASE state[p] = "pending"
  <2>1. state[p] \notin Settled /\ "rejected" \in Settled
    BY <1>4 DEF Settled
  <2>2. IF rejected THEN SettleTo(p, "rejected", v, q) ELSE Resolve(p, v, q)
    BY <1>1, <1>4 DEF PromiseSettle, IfPending
  <2>3. Gives(p, q) /\ TicketStep(q)
    BY <1>2, <2>1, <2>2, ResolveGives, SettleToGives
  <2>4. QED BY <1>1, <1>2, <2>3, CallKeeps
<1>5. QED BY <1>3, <1>4

LEMMA ThenJoins ==
    ASSUME HeapOK, NEW src \in Promise, NEW next \in Promise,
           NEW f \in Handler \union {NullHandler}, NEW r \in Handler \union {NullHandler},
           NEW q, q = jobs, QueueOK(q), PromiseThen(src, f, r, next)
    PROVE  JoinedList(src, next, q) \/ JoinedQueue(src, next, q)
<1>1. attached' = attached + 1
  BY DEF PromiseThen
<1>2. CASE ThenPending(src, f, r, next)
  BY <1>1, <1>2, AppendReactionJoins DEF ThenPending, JoinedList
<1>3. CASE ThenSettled(src, f, r, next)
  <2>1. PICK x : x = [onFulfilled |-> f, onRejected |-> r, next |-> next,
                      id |-> attached + 1, source |-> src]
    OBVIOUS
  <2>2. PICK job : job = JobOf(x, state[src], result[src])
    OBVIOUS
  <2>3. job.id = attached + 1 /\ job.next = next /\ job.source = src
    BY <2>1, <2>2 DEF JobOf
  <2>4. jobs' = Append(q, job) /\ UNCHANGED reactions
    BY <1>3, <2>1, <2>2 DEF ThenSettled
  <2>5. job \in Job
    BY <1>3, <2>1, <2>2 DEF ThenSettled, JobOf, Job, HeapOK
  <2>6. /\ Len(q) \in Nat /\ Len(Append(q, job)) = Len(q) + 1
        /\ \A i \in 1 .. Len(q) : Append(q, job)[i] = q[i]
        /\ Append(q, job)[Len(q) + 1] = job
    BY <2>5, AppendProperties, LenProperties DEF QueueOK
  <2>7. QED BY <1>1, <2>3, <2>4, <2>6 DEF JoinedQueue, Joins
<1>4. QED BY <1>2, <1>3 DEF PromiseThen

LEMMA ThenKeeps ==
    ASSUME CInv, IInv', NEW src \in Promise, NEW next \in Promise,
           NEW f \in Handler \union {NullHandler}, NEW r \in Handler \union {NullHandler},
           PromiseThen(src, f, r, next)
    PROVE  CInv'
<1>1. PICK q : q = jobs
  OBVIOUS
<1>2. /\ HeapOK /\ QueueOK(q) /\ Tickets(q)
      /\ state[next] = "free" /\ state' = [state EXCEPT ![next] = "pending"]
      /\ attached' = attached + 1 /\ UNCHANGED <<running, result>>
      /\ origin' = [origin EXCEPT ![next] = "then"]
  BY <1>1, QueueOfIInv DEF CInv, PromiseThen, Allocate
<1>3. JoinedList(src, next, q) \/ JoinedQueue(src, next, q)
  BY <1>1, <1>2, ThenJoins
<1>4. TicketStep(q)
  BY <1>2, <1>3, JoinedListTickets, JoinedQueueTickets, JoinedTaken DEF TicketStep
<1>5. Gives(next, q)
  <2>1. Gains(next, q)
    BY <1>2, <1>3, JoinedDrives DEF Gains
  <2>2. QED BY <1>2, <2>1 DEF Gives, HeapOK
<1>6. origin'[next] = "then" /\ \A y \in Promise \ {next} : origin'[y] = origin[y]
  BY <1>2 DEF CInv, IInv, TypeOK
<1>7. QED BY <1>1, <1>2, <1>4, <1>5, <1>6, CallKeeps

LEMMA BeginEndKeeps ==
    ASSUME CInv, IInv', BeginDrain \/ EndDrain \/ UNCHANGED vars
    PROVE  CInv'
<1>1. PICK q, a : q = jobs /\ a = running
  OBVIOUS
<1>2. Nothing(q) /\ UNCHANGED <<origin, running>>
  BY <1>1 DEF BeginDrain, EndDrain, vars, heap, Nothing
<1>3. QED BY <1>1, <1>2, NothingKeeps DEF CInv

(* The job a is done with: a step from the queue q behind it.              *)
LEMMA DoneKeeps ==
    ASSUME CInv, IInv', NEW p \in Promise, NEW q, NEW a, a # << >>, a.next = p,
           Tickets(q), Taken(a, q), Singles(q, a), UNCHANGED origin, running' = << >>,
           \/ state[p] = "pending" /\ Gives(p, q) /\ TicketStep(q)
           \/ state[p] # "pending" /\ Nothing(q)
    PROVE  CInv'
<1>1. CASE state[p] = "pending" /\ Gives(p, q) /\ TicketStep(q)
  <2>1. \A y \in Promise \ {p} : origin'[y] # "pending" => Single(y, q, << >>)
    BY DoneWith DEF Singles
  <2>2. origin'[p] # "pending" => \A e : ~DrivenBy(p, e, q, << >>)
    BY <1>1, DoneWith DEF Singles
  <2>3. Singles(jobs, << >>)'
    BY <1>1, <2>1, <2>2, GivesSingles
  <2>4. Singles(jobs, running)'
    <3> SUFFICES ASSUME NEW y \in Promise, origin'[y] # "pending"
                 PROVE  Single(y, jobs, running)'
      BY DEF Singles
    <3>1. Single(y, jobs, << >>)'
      BY <2>3 DEF Singles
    <3>2. \A e : DrivenBy(y, e, jobs, running)' <=> DrivenBy(y, e, jobs, << >>)'
      BY DEF DrivenBy
    <3>3. QED BY <3>1, <3>2 DEF Single
  <2>5. Allocated'
    BY <1>1 DEF CInv, Allocated, Gives, Settled
  <2>6. QED BY <1>1, <2>4, <2>5 DEF CInv, TicketStep
<1>2. CASE state[p] # "pending" /\ Nothing(q)
  <2>1. origin[p] = "pending"
    BY <1>2 DEF Singles, Single, DrivenBy
  <2>2. Singles(q, << >>)
    <3> SUFFICES ASSUME NEW y \in Promise, origin[y] # "pending"
                 PROVE  Single(y, q, << >>)
      BY DEF Singles
    <3>1. y # p /\ Single(y, q, a)
      BY <2>1 DEF Singles
    <3>2. QED BY <3>1, DoneWith
  <2>3. PICK b : b = << >>
    OBVIOUS
  <2>4. QED BY <1>2, <2>2, <2>3, NothingKeeps
<1>3. QED BY <1>1, <1>2

LEMMA RunDefaultKeeps ==
    ASSUME CInv, IInv', RunDefault
    PROVE  CInv'
<1>1. PICK job, q : job = Head(jobs) /\ q = Tail(jobs)
  OBVIOUS
<1>2. /\ HeapOK /\ job \in Job /\ QueueOK(q) /\ job # << >>
      /\ jobs \in Seq(Job) /\ jobs # << >> /\ Tickets(jobs)
      /\ running = << >> /\ UNCHANGED <<origin, running>>
  BY <1>1, QueueOfIInv, TailOfIInv DEF CInv, RunDefault, QueueOK, Job
<1>3. /\ Tickets(q) /\ Taken(job, q)
      /\ \A y, d : Drives(y, d, jobs) <=> Drives(y, d, q) \/ (job.next = y /\ job.id = d)
  BY <1>1, <1>2, TailPlaces
<1>4. Singles(q, job)
  <2> SUFFICES ASSUME NEW y \in Promise, origin[y] # "pending"
               PROVE  Single(y, q, job)
    BY DEF Singles
  <2>1. Single(y, jobs, running)
    BY DEF CInv, Singles
  <2>2. \A e : DrivenBy(y, e, jobs, running) <=> DrivenBy(y, e, q, job)
    BY <1>2, <1>3 DEF DrivenBy
  <2>3. QED BY <2>1, <2>2 DEF Single
<1>5. job.next \in Promise /\ job.state \in Settled /\ job.argument \in Value
  BY <1>2 DEF Job
<1>6. CASE state[job.next] # "pending"
  <2>1. Nothing(q)
    BY <1>1, <1>6 DEF RunDefault, IfPending, Nothing
  <2>2. QED BY <1>2, <1>3, <1>4, <1>5, <1>6, <2>1, DoneKeeps
<1>7. CASE state[job.next] = "pending"
  <2>1. SettleTo(job.next, job.state, job.argument, q)
    BY <1>1, <1>7 DEF RunDefault, IfPending
  <2>2. Gives(job.next, q) /\ TicketStep(q)
    BY <1>2, <1>3, <1>5, <1>7, <2>1, SettleToGives DEF Settled
  <2>3. QED BY <1>2, <1>3, <1>4, <1>5, <1>7, <2>2, DoneKeeps
<1>8. QED BY <1>6, <1>7

LEMMA CallHandlerKeeps ==
    ASSUME CInv, IInv', CallHandler
    PROVE  CInv'
<1>1. PICK job, q : job = Head(jobs) /\ q = Tail(jobs)
  OBVIOUS
<1>2. /\ job \in Job /\ job # << >> /\ QueueOK(q)
      /\ jobs \in Seq(Job) /\ jobs # << >> /\ Tickets(jobs)
      /\ running = << >> /\ running' = job /\ UNCHANGED origin /\ Nothing(q)
  BY <1>1, QueueOfIInv, TailOfIInv DEF CInv, CallHandler, QueueOK, Job, Nothing
<1>3. /\ Tickets(q) /\ Taken(job, q)
      /\ \A y, d : Drives(y, d, jobs) <=> Drives(y, d, q) \/ (job.next = y /\ job.id = d)
  BY <1>1, <1>2, TailPlaces
<1>4. Singles(q, job)
  <2> SUFFICES ASSUME NEW y \in Promise, origin[y] # "pending"
               PROVE  Single(y, q, job)
    BY DEF Singles
  <2>1. Single(y, jobs, running)
    BY DEF CInv, Singles
  <2>2. \A e : DrivenBy(y, e, jobs, running) <=> DrivenBy(y, e, q, job)
    BY <1>2, <1>3 DEF DrivenBy
  <2>3. QED BY <2>1, <2>2 DEF Single
<1>5. QED BY <1>2, <1>3, <1>4, NothingKeeps

LEMMA FinishKeeps ==
    ASSUME CInv, IInv', NEW v \in Value, HandlerReturns(v) \/ HandlerThrows(v)
    PROVE  CInv'
<1>1. PICK q, a : q = jobs /\ a = running
  OBVIOUS
<1>2. /\ HeapOK /\ QueueOK(q) /\ Tickets(q) /\ a \in Job /\ a # << >> /\ Taken(a, q)
      /\ Singles(q, a) /\ running' = << >> /\ UNCHANGED origin
  BY <1>1, QueueOfIInv DEF CInv, HandlerReturns, HandlerThrows, IInv, TypeOK
<1>3. a.next \in Promise
  BY <1>2 DEF Job
<1>4. CASE state[a.next] # "pending"
  <2>1. Nothing(q)
    BY <1>1, <1>4 DEF HandlerReturns, HandlerThrows, IfPending, Nothing
  <2>2. QED BY <1>2, <1>3, <1>4, <2>1, DoneKeeps
<1>5. CASE state[a.next] = "pending"
  <2>1. state[a.next] \notin Settled /\ "rejected" \in Settled
    BY <1>5 DEF Settled
  <2>2. Resolve(a.next, v, q) \/ SettleTo(a.next, "rejected", v, q)
    BY <1>1, <1>5 DEF HandlerReturns, HandlerThrows, IfPending
  <2>3. Gives(a.next, q) /\ TicketStep(q)
    BY <1>2, <1>3, <2>1, <2>2, ResolveGives, SettleToGives
  <2>4. QED BY <1>2, <1>3, <1>5, <2>3, DoneKeeps
<1>6. QED BY <1>4, <1>5

LEMMA NextCInv ==
    ASSUME CInv, [Next]_vars
    PROVE  CInv'
<1>1. IInv'
  BY NextIInv DEF CInv
<1>2. CASE Create
  BY <1>1, <1>2, PendingKeeps, CreateKeeps DEF Create
<1>3. CASE Use
  BY <1>1, <1>3, SettleKeeps, ThenKeeps DEF Use
<1>4. CASE Finish
  BY <1>1, <1>4, FinishKeeps DEF Finish
<1>5. CASE BeginDrain \/ EndDrain \/ UNCHANGED vars
  BY <1>1, <1>5, BeginEndKeeps
<1>6. CASE RunDefault
  BY <1>1, <1>6, RunDefaultKeeps
<1>7. CASE CallHandler
  BY <1>1, <1>7, CallHandlerKeeps
<1>8. QED BY <1>2, <1>3, <1>4, <1>5, <1>6, <1>7 DEF Next

(* The invariant of numbers and drivers.                                   *)
THEOREM NumberedAlways == Spec => []CInv
<1>1. Init => CInv
  BY InitCInv
<1>2. CInv /\ [Next]_vars => CInv'
  BY NextCInv
<1>3. QED BY <1>1, <1>2, PTL DEF Spec

(* A promise that then or a resolution made is settled by exactly one      *)
(* reaction or job: it cannot be forgotten, and nothing is left to settle  *)
(* it a second time.                                                       *)
THEOREM OneDriverEach == Spec => []OneDriver
<1>1. CInv => OneDriver
  <2> SUFFICES ASSUME CInv, NEW p \in Promise, origin[p] \in {"then", "resolved", "rejected"}
               PROVE  IF state[p] = "pending"
                      THEN \E d \in Drivers(p) : Drivers(p) = {d}
                      ELSE Drivers(p) = {}
    BY DEF OneDriver
  <2>1. \A d : d \in Drivers(p) <=> DrivenBy(p, d, jobs, running)
    <3>1. jobs \in Seq(Job) /\ reactions \in [Promise -> Seq(Reaction)]
      BY DEF CInv, IInv, TypeOK
    <3>2. DOMAIN jobs = 1 .. Len(jobs) /\ \A y \in Promise : DOMAIN reactions[y] = 1 .. Len(reactions[y])
      BY <3>1, LenProperties
    <3>3. \A x : x \in Waiting <=> \E y \in Promise : \E i \in 1 .. Len(reactions[y]) : x = reactions[y][i]
      BY <3>2 DEF Waiting
    <3>4. \A x : x \in Queued <=> \E i \in 1 .. Len(jobs) : x = jobs[i]
      BY <3>2 DEF Queued
    <3>5. \A x : x \in Active <=> running # << >> /\ x = running
      BY DEF Active
    <3>6. \A d : d \in Drivers(p) <=> \E x : x \in Waiting \union Queued \union Active /\ x.next = p /\ x.id = d
      BY DEF Drivers
    <3>7. QED BY <3>3, <3>4, <3>5, <3>6 DEF DrivenBy, Drives, Has
  <2>2. Single(p, jobs, running)
    BY DEF CInv, Singles
  <2>3. CASE state[p] = "pending"
    <3>1. PICK d : \A e : DrivenBy(p, e, jobs, running) <=> e = d
      BY <2>2, <2>3 DEF Single
    <3>2. QED BY <2>1, <2>3, <3>1
  <2>4. CASE state[p] # "pending"
    BY <2>1, <2>2, <2>4 DEF Single
  <2>5. QED BY <2>3, <2>4
<1>2. QED BY <1>1, NumberedAlways, PTL

-----------------------------------------------------------------------------
(* The refinement.  A reaction waits in the list of a promise, is ready in *)
(* the queue, or is in neither place.                                      *)

Sits(r, y) == \E i \in 1 .. Len(reactions[y]) : reactions[y][i].id = r
Ready(r, y, q) == \E j \in 1 .. Len(q) : q[j].id = r /\ q[j].source = y
Nowhere(r) == \A y \in Promise : ~Sits(r, y) /\ ~Ready(r, y, jobs)

(* What the refinement mapping says of a reaction, read off its place.     *)
Readings ==
    /\ \A r, y : y \in Promise /\ Sits(r, y) => Life(r) = "waiting" /\ SourceOf(r) = y
    /\ \A r, y : y \in Promise /\ Ready(r, y, jobs) => Life(r) = "ready" /\ SourceOf(r) = y
    /\ \A r : Nowhere(r) =>
          /\ Life(r) = IF r <= attached THEN "done" ELSE "none"
          /\ SourceOf(r) = 0

(* A reaction waits at a pending promise and is ready at a settled one.    *)
Waits ==
    \A r, y : y \in Promise =>
        /\ Sits(r, y) => state[y] = "pending"
        /\ Ready(r, y, jobs) => state[y] \in Settled

LEMMA PlacesRead == CInv => Readings /\ Waits
<1> SUFFICES ASSUME CInv PROVE Readings /\ Waits
  OBVIOUS
<1>1. jobs \in Seq(Job) /\ reactions \in [Promise -> Seq(Reaction)]
  BY DEF CInv, IInv, TypeOK
<1>2. DOMAIN jobs = 1 .. Len(jobs) /\ \A y \in Promise : DOMAIN reactions[y] = 1 .. Len(reactions[y])
  BY <1>1, LenProperties
<1>3. \A x : x \in Waiting <=> \E y \in Promise : \E i \in 1 .. Len(reactions[y]) : x = reactions[y][i]
  BY <1>2 DEF Waiting
<1>4. \A x : x \in Queued <=> \E i \in 1 .. Len(jobs) : x = jobs[i]
  BY <1>2 DEF Queued
<1>5. \A y \in Promise : \A i \in 1 .. Len(reactions[y]) : reactions[y][i].source = y
  BY DEF CInv, IInv, OwnReactions
<1>6. \A j \in 1 .. Len(jobs) : jobs[j].source \in Promise
  <2>1. TAKE j \in 1 .. Len(jobs)
  <2>2. jobs[j] \in Job
    BY <1>1
  <2>3. QED BY <2>2 DEF Job
<1>7. ASSUME NEW r, NEW y \in Promise, Sits(r, y)
      PROVE  Life(r) = "waiting" /\ SourceOf(r) = y
  <2>1. PICK i \in 1 .. Len(reactions[y]) : reactions[y][i].id = r
    BY <1>7 DEF Sits
  <2>2. reactions[y][i] \in Waiting
    BY <1>3
  <2>3. ASSUME NEW x, x \in Waiting \union Queued, x.id = r
        PROVE  x.source = y
    <3>1. CASE x \in Waiting
      <4>1. PICK z \in Promise : \E k \in 1 .. Len(reactions[z]) : x = reactions[z][k]
        BY <1>3, <3>1
      <4>2. PICK k \in 1 .. Len(reactions[z]) : x = reactions[z][k]
        BY <4>1
      <4>3. z = y
        BY <2>1, <2>3, <4>2 DEF CInv, Tickets, ListsApart
      <4>4. QED BY <1>5, <4>2, <4>3
    <3>2. CASE x \in Queued
      <4>1. PICK k \in 1 .. Len(jobs) : x = jobs[k]
        BY <1>4, <3>2
      <4>2. QED BY <2>1, <2>3, <4>1 DEF CInv, Tickets, QueueApart
    <3>3. QED BY <2>3, <3>1, <3>2
  <2>4. Life(r) = "waiting"
    BY <2>1, <2>2 DEF Life
  <2>5. SourceOf(r) = y
    <3>1. \E x \in Waiting \union Queued : x.id = r
      BY <2>1, <2>2
    <3>2. PICK x : x = CHOOSE z \in Waiting \union Queued : z.id = r
      OBVIOUS
    <3>3. x \in Waiting \union Queued /\ x.id = r
      BY <3>1, <3>2
    <3>4. SourceOf(r) = x.source
      BY <3>1, <3>2 DEF SourceOf
    <3>5. QED BY <2>3, <3>3, <3>4
  <2>6. QED BY <2>4, <2>5
<1>8. ASSUME NEW r, NEW y \in Promise, Ready(r, y, jobs)
      PROVE  Life(r) = "ready" /\ SourceOf(r) = y
  <2>1. PICK j \in 1 .. Len(jobs) : jobs[j].id = r /\ jobs[j].source = y
    BY <1>8 DEF Ready
  <2>2. jobs[j] \in Queued
    BY <1>4
  <2>3. \A x \in Waiting : x.id # r
    <3>1. TAKE x \in Waiting
    <3>2. PICK z \in Promise : \E k \in 1 .. Len(reactions[z]) : x = reactions[z][k]
      BY <1>3, <3>1
    <3>3. QED BY <2>1, <3>2 DEF CInv, Tickets, QueueApart
  <2>4. ASSUME NEW x, x \in Waiting \union Queued, x.id = r
        PROVE  x.source = y
    <3>1. x \in Queued
      BY <2>3, <2>4
    <3>2. PICK k \in 1 .. Len(jobs) : x = jobs[k]
      BY <1>4, <3>1
    <3>3. ~(j < k) /\ ~(k < j)
      BY <2>1, <2>4, <3>2 DEF CInv, Tickets, QueueOrdered
    <3>4. j = k
      BY <3>3
    <3>5. QED BY <2>1, <3>2, <3>4
  <2>5. Life(r) = "ready"
    BY <2>1, <2>2, <2>3 DEF Life
  <2>6. SourceOf(r) = y
    <3>1. \E x \in Waiting \union Queued : x.id = r
      BY <2>1, <2>2
    <3>2. PICK x : x = CHOOSE z \in Waiting \union Queued : z.id = r
      OBVIOUS
    <3>3. x \in Waiting \union Queued /\ x.id = r
      BY <3>1, <3>2
    <3>4. SourceOf(r) = x.source
      BY <3>1, <3>2 DEF SourceOf
    <3>5. QED BY <2>4, <3>3, <3>4
  <2>7. QED BY <2>5, <2>6
<1>9. ASSUME NEW r, Nowhere(r)
      PROVE  /\ Life(r) = IF r <= attached THEN "done" ELSE "none"
             /\ SourceOf(r) = 0
  <2>1. \A x \in Waiting : x.id # r
    BY <1>3, <1>9 DEF Nowhere, Sits
  <2>2. \A x \in Queued : x.id # r
    BY <1>4, <1>6, <1>9 DEF Nowhere, Ready
  <2>3. QED BY <2>1, <2>2 DEF Life, SourceOf
<1>10. Readings
  BY <1>7, <1>8, <1>9 DEF Readings
<1>11. Waits
  <2>1. ASSUME NEW r, NEW y \in Promise, Sits(r, y)
        PROVE  state[y] = "pending"
    <3>1. reactions[y] # << >>
      BY <2>1, EmptySeq DEF Sits
    <3>2. QED BY <3>1 DEF CInv, IInv, NoReactionLeftBehind
  <2>2. ASSUME NEW r, NEW y \in Promise, Ready(r, y, jobs)
        PROVE  state[y] \in Settled
    <3>1. PICK j \in 1 .. Len(jobs) : jobs[j].source = y
      BY <2>2 DEF Ready
    <3>2. jobs[j] \in Job /\ Carries(jobs[j])
      BY <1>1 DEF CInv, IInv, QueueCarries
    <3>3. QED BY <3>1, <3>2 DEF Carries, Job
  <2>3. QED BY <2>1, <2>2 DEF Waits
<1>12. QED BY <1>10, <1>11

(* A step from the queue q: a reaction stays where it is or moves from the *)
(* list of its promise to the queue, and only the next number joins.       *)
NewNumber(r) == r = attached + 1 /\ attached' = attached + 1

PlaceStep(q) ==
    /\ \A r, y : y \in Promise /\ Sits(r, y) => Sits(r, y)' \/ Ready(r, y, jobs)'
    /\ \A r, y : y \in Promise /\ Ready(r, y, q) => Ready(r, y, jobs)'
    /\ \A r, y : y \in Promise /\ Sits(r, y)' => Sits(r, y) \/ NewNumber(r)
    /\ \A r, y : y \in Promise /\ Ready(r, y, jobs)' =>
          Ready(r, y, q) \/ Sits(r, y) \/ NewNumber(r)
    /\ \/ attached' = attached
       \/ \E r, y : y \in Promise /\ NewNumber(r) /\ (Sits(r, y)' \/ Ready(r, y, jobs)')

LEMMA MovedPlaces ==
    ASSUME HeapOK, NEW p \in Promise, NEW q, QueueOK(q), Moved(p, q)
    PROVE  PlaceStep(q)
<1>1. ASSUME NEW r, NEW y \in Promise, Sits(r, y)
      PROVE  Sits(r, y)' \/ Ready(r, y, jobs)'
  <2>1. CASE y # p
    BY <1>1, <2>1 DEF Sits, Moved
  <2>2. CASE y = p
    <3>1. PICK i \in 1 .. Len(reactions[p]) : reactions[p][i].id = r
      BY <1>1, <2>2 DEF Sits
    <3>2. QED BY <2>2, <3>1 DEF Moved, Follows, Ready
  <2>3. QED BY <2>1, <2>2
<1>2. ASSUME NEW r, NEW y \in Promise, Ready(r, y, q)
      PROVE  Ready(r, y, jobs)'
  BY <1>2 DEF Ready, Moved
<1>3. ASSUME NEW r, NEW y \in Promise, Sits(r, y)'
      PROVE  Sits(r, y)
  BY <1>3 DEF Sits, Moved
<1>4. ASSUME NEW r, NEW y \in Promise, Ready(r, y, jobs)'
      PROVE  Ready(r, y, q) \/ Sits(r, y)
  <2>1. PICK j \in 1 .. Len(jobs') : jobs'[j].id = r /\ jobs'[j].source = y
    BY <1>4 DEF Ready
  <2>2. CASE j \in 1 .. Len(q)
    BY <2>1, <2>2 DEF Moved, Ready
  <2>3. CASE j \notin 1 .. Len(q)
    BY <2>1, <2>3 DEF Moved, Follows, Sits
  <2>4. QED BY <2>2, <2>3
<1>5. attached' = attached
  BY DEF Moved
<1>6. QED BY <1>1, <1>2, <1>3, <1>4, <1>5 DEF PlaceStep

LEMMA JoinedPlaceStep ==
    ASSUME HeapOK, NEW src \in Promise, NEW next \in Promise, NEW q,
           JoinedList(src, next, q) \/ JoinedQueue(src, next, q)
    PROVE  PlaceStep(q)
<1>1. CASE JoinedList(src, next, q)
  <2>1. PICK s, t : s = reactions[src] /\ t = reactions'[src]
    OBVIOUS
  <2>2. /\ Joins(s, t, src, next) /\ jobs' = q /\ attached' = attached + 1
        /\ \A z \in Promise \ {src} : reactions'[z] = reactions[z]
    BY <1>1, <2>1 DEF JoinedList
  <2>3. /\ \A i \in 1 .. Len(s) : i \in 1 .. Len(t) /\ t[i] = s[i]
        /\ Len(s) + 1 \in 1 .. Len(t) /\ t[Len(s) + 1].id = attached + 1
        /\ \A i \in 1 .. Len(t) : i \in 1 .. Len(s) \/ i = Len(s) + 1
    BY <2>2, JoinedPlaces DEF Joins
  <2>4. ASSUME NEW r, NEW y \in Promise, Sits(r, y)
        PROVE  Sits(r, y)'
    BY <2>1, <2>2, <2>3, <2>4 DEF Sits
  <2>5. ASSUME NEW r, NEW y \in Promise, Sits(r, y)'
        PROVE  Sits(r, y) \/ NewNumber(r)
    BY <2>1, <2>2, <2>3, <2>5 DEF Sits, NewNumber
  <2>6. \A r, y : Ready(r, y, jobs)' <=> Ready(r, y, q)
    BY <2>2 DEF Ready
  <2>7. \E r : Sits(r, src)' /\ NewNumber(r)
    <3>1. PICK r : r = attached + 1
      OBVIOUS
    <3>2. Sits(r, src)' /\ NewNumber(r)
      BY <2>1, <2>2, <2>3, <3>1 DEF Sits, NewNumber
    <3>3. QED BY <3>2
  <2>8. QED BY <2>4, <2>5, <2>6, <2>7 DEF PlaceStep
<1>2. CASE JoinedQueue(src, next, q)
  <2>1. PICK t : t = jobs'
    OBVIOUS
  <2>2. Joins(q, t, src, next) /\ reactions' = reactions /\ attached' = attached + 1
    BY <1>2, <2>1 DEF JoinedQueue
  <2>3. /\ \A i \in 1 .. Len(q) : i \in 1 .. Len(t) /\ t[i] = q[i]
        /\ Len(q) + 1 \in 1 .. Len(t)
        /\ t[Len(q) + 1].id = attached + 1 /\ t[Len(q) + 1].source = src
        /\ \A i \in 1 .. Len(t) : i \in 1 .. Len(q) \/ i = Len(q) + 1
    BY <2>2, JoinedPlaces DEF Joins
  <2>4. \A r, y : Sits(r, y)' <=> Sits(r, y)
    BY <2>2 DEF Sits
  <2>5. ASSUME NEW r, NEW y, Ready(r, y, q)
        PROVE  Ready(r, y, jobs)'
    BY <2>1, <2>3, <2>5 DEF Ready
  <2>6. ASSUME NEW r, NEW y, Ready(r, y, jobs)'
        PROVE  Ready(r, y, q) \/ NewNumber(r)
    BY <2>1, <2>2, <2>3, <2>6 DEF Ready, NewNumber
  <2>7. \E r : Ready(r, src, jobs)' /\ NewNumber(r)
    <3>1. PICK r : r = attached + 1
      OBVIOUS
    <3>2. Ready(r, src, jobs)' /\ NewNumber(r)
      BY <2>1, <2>2, <2>3, <3>1 DEF Ready, NewNumber
    <3>3. QED BY <3>2
  <2>8. QED BY <2>4, <2>5, <2>6, <2>7 DEF PlaceStep
<1>3. QED BY <1>1, <1>2

LEMMA NothingPlaceStep ==
    ASSUME NEW q, Nothing(q)
    PROVE  PlaceStep(q)
BY DEF Nothing, PlaceStep, Sits, Ready

(* The outcome of a promise is final.                                      *)
OutcomeMoves ==
    \A p \in Promise :
        \/ state'[p] = state[p]
        \/ state[p] = "free" /\ state'[p] \in {"pending"} \union Settled
        \/ state[p] = "pending" /\ state'[p] \in Settled

Turns(q) == PlaceStep(q) /\ OutcomeMoves

LEMMA SettleToTurns ==
    ASSUME HeapOK, NEW p \in Promise, state[p] \notin Settled, NEW st \in Settled,
           NEW v \in Value, NEW q, QueueOK(q), SettleTo(p, st, v, q)
    PROVE  Turns(q)
<1>1. Moved(p, q)
  BY SettleToMoves
<1>2. state'[p] = st /\ \A y \in Promise \ {p} : state'[y] = state[y]
  BY DEF SettleTo, HeapOK
<1>3. state[p] \in {"free", "pending"}
  BY DEF HeapOK, State
<1>4. OutcomeMoves
  BY <1>2, <1>3 DEF OutcomeMoves
<1>5. QED BY <1>1, <1>4, MovedPlaces DEF Turns

LEMMA AdoptPendingTurns ==
    ASSUME HeapOK, NEW p \in Promise, state[p] \notin Settled, NEW src \in Promise,
           NEW q, AdoptPending(p, src, q)
    PROVE  Turns(q)
<1>1. JoinedList(src, p, q)
  BY AppendReactionJoins DEF AdoptPending, JoinedList
<1>2. state'[p] = "pending" /\ \A y \in Promise \ {p} : state'[y] = state[y]
  BY DEF AdoptPending, HeapOK
<1>3. state[p] \in {"free", "pending"}
  BY DEF HeapOK, State
<1>4. OutcomeMoves
  BY <1>2, <1>3 DEF OutcomeMoves
<1>5. QED BY <1>1, <1>4, JoinedPlaceStep DEF Turns

LEMMA ResolveTurns ==
    ASSUME HeapOK, NEW p \in Promise, state[p] \notin Settled, NEW v \in Value,
           NEW q, QueueOK(q), Resolve(p, v, q)
    PROVE  Turns(q)
<1>1. CASE v \notin Promise /\ SettleTo(p, "fulfilled", v, q)
  BY <1>1, SettleToTurns DEF Settled
<1>2. CASE v = p /\ SettleTo(p, "rejected", Undefined, q)
  <2>1. Undefined \in Value
    BY ValuesAssumption DEF Value
  <2>2. QED BY <1>2, <2>1, SettleToTurns DEF Settled
<1>3. CASE v \in Promise \ {p} /\ state[v] = "pending" /\ AdoptPending(p, v, q)
  BY <1>3, AdoptPendingTurns
<1>4. CASE v \in Promise \ {p} /\ state[v] \in Settled /\ SettleTo(p, state[v], result[v], q)
  <2>1. result[v] \in Value
    BY <1>4 DEF HeapOK
  <2>2. QED BY <1>4, <2>1, SettleToTurns
<1>5. QED BY <1>1, <1>2, <1>3, <1>4 DEF Resolve

(* Every step starts from the queue or from what is behind its head.       *)
LEMMA NextTurns ==
    ASSUME CInv, [Next]_vars
    PROVE  Turns(jobs) \/ (jobs # << >> /\ Turns(Tail(jobs)))
<1>1. PICK q : q = jobs
  OBVIOUS
<1>2. HeapOK /\ QueueOK(q) /\ "rejected" \in Settled /\ "free" \notin Settled /\ "pending" \notin Settled
  BY <1>1, QueueOfIInv DEF CInv, Settled
<1>3. CASE \E p \in Promise : PromisePending(p)
  <2>1. PICK p \in Promise : PromisePending(p)
    BY <1>3
  <2>2. /\ state[p] = "free" /\ state' = [state EXCEPT ![p] = "pending"]
        /\ UNCHANGED <<reactions, jobs, attached>>
    BY <2>1 DEF PromisePending, Allocate
  <2>3. PlaceStep(q)
    BY <1>1, <2>2 DEF PlaceStep, Sits, Ready
  <2>4. OutcomeMoves
    BY <1>2, <2>2 DEF OutcomeMoves, HeapOK
  <2>5. QED BY <1>1, <2>3, <2>4 DEF Turns
<1>4. CASE \E p \in Promise, v \in Value : PromiseResolved(p, v) \/ PromiseRejected(p, v)
  <2>1. PICK p \in Promise, v \in Value : PromiseResolved(p, v) \/ PromiseRejected(p, v)
    BY <1>4
  <2>2. state[p] \notin Settled /\ (Resolve(p, v, q) \/ SettleTo(p, "rejected", v, q))
    BY <1>1, <1>2, <2>1 DEF PromiseResolved, PromiseRejected, Allocate
  <2>3. Turns(q)
    BY <1>2, <2>2, ResolveTurns, SettleToTurns
  <2>4. QED BY <1>1, <2>3
<1>5. CASE \E p \in Promise, rejected \in BOOLEAN, v \in Value : PromiseSettle(p, rejected, v)
  <2>1. PICK p \in Promise, rejected \in BOOLEAN, v \in Value : PromiseSettle(p, rejected, v)
    BY <1>5
  <2>2. CASE state[p] = "pending"
    <3>1. SettleTo(p, "rejected", v, q) \/ Resolve(p, v, q)
      BY <1>1, <2>1, <2>2 DEF PromiseSettle, IfPending
    <3>2. Turns(q)
      BY <1>2, <2>2, <3>1, ResolveTurns, SettleToTurns
    <3>3. QED BY <1>1, <3>2
  <2>3. CASE state[p] # "pending"
    <3>1. Nothing(q)
      BY <1>1, <2>1, <2>3 DEF PromiseSettle, IfPending, Nothing
    <3>2. QED BY <1>1, <3>1, NothingPlaceStep DEF Turns, OutcomeMoves, Nothing
  <2>4. QED BY <2>2, <2>3
<1>6. CASE \E src, next \in Promise, f, r \in Handler \union {NullHandler} :
              PromiseThen(src, f, r, next)
  <2>1. PICK src \in Promise, next \in Promise, f \in Handler \union {NullHandler},
             r \in Handler \union {NullHandler} : PromiseThen(src, f, r, next)
    BY <1>6
  <2>2. JoinedList(src, next, q) \/ JoinedQueue(src, next, q)
    BY <1>1, <1>2, <2>1, ThenJoins
  <2>3. state[next] = "free" /\ state' = [state EXCEPT ![next] = "pending"]
    BY <2>1 DEF PromiseThen, Allocate
  <2>4. OutcomeMoves
    BY <1>2, <2>3 DEF OutcomeMoves, HeapOK
  <2>5. QED BY <1>1, <1>2, <2>2, <2>4, JoinedPlaceStep DEF Turns
<1>7. CASE RunDefault
  <2>1. PICK job, t : job = Head(jobs) /\ t = Tail(jobs)
    OBVIOUS
  <2>2. jobs # << >> /\ job \in Job /\ QueueOK(t)
    BY <1>2, <1>7, <2>1, TailOfIInv, QueueOfIInv DEF RunDefault, CInv
  <2>3. job.next \in Promise /\ job.state \in Settled /\ job.argument \in Value
    BY <2>2 DEF Job
  <2>4. CASE state[job.next] = "pending"
    <3>1. SettleTo(job.next, job.state, job.argument, t)
      BY <1>7, <2>1, <2>4 DEF RunDefault, IfPending
    <3>2. Turns(t)
      BY <1>2, <2>2, <2>3, <2>4, <3>1, SettleToTurns
    <3>3. QED BY <2>1, <2>2, <3>2
  <2>5. CASE state[job.next] # "pending"
    <3>1. Nothing(t)
      BY <1>7, <2>1, <2>5 DEF RunDefault, IfPending, Nothing
    <3>2. Turns(t)
      BY <3>1, NothingPlaceStep DEF Turns, OutcomeMoves, Nothing
    <3>3. QED BY <2>1, <2>2, <3>2
  <2>6. QED BY <2>4, <2>5
<1>8. CASE CallHandler
  <2>1. PICK t : t = Tail(jobs)
    OBVIOUS
  <2>2. jobs # << >> /\ Nothing(t)
    BY <1>8, <2>1 DEF CallHandler, Nothing
  <2>3. Turns(t)
    BY <2>2, NothingPlaceStep DEF Turns, OutcomeMoves, Nothing
  <2>4. QED BY <2>1, <2>2, <2>3
<1>9. CASE Finish
  <2>1. PICK v \in Value : HandlerReturns(v) \/ HandlerThrows(v)
    BY <1>9 DEF Finish
  <2>2. PICK a : a = running
    OBVIOUS
  <2>3. a \in Job
    BY <2>1, <2>2 DEF HandlerReturns, HandlerThrows, CInv, IInv, TypeOK
  <2>4. a.next \in Promise
    BY <2>3 DEF Job
  <2>5. CASE state[a.next] = "pending"
    <3>1. SettleTo(a.next, "rejected", v, q) \/ Resolve(a.next, v, q)
      BY <1>1, <2>1, <2>2, <2>5 DEF HandlerReturns, HandlerThrows, IfPending
    <3>2. Turns(q)
      BY <1>2, <2>4, <2>5, <3>1, ResolveTurns, SettleToTurns
    <3>3. QED BY <1>1, <3>2
  <2>6. CASE state[a.next] # "pending"
    <3>1. Nothing(q)
      BY <1>1, <2>1, <2>2, <2>6 DEF HandlerReturns, HandlerThrows, IfPending, Nothing
    <3>2. QED BY <1>1, <3>1, NothingPlaceStep DEF Turns, OutcomeMoves, Nothing
  <2>7. QED BY <2>5, <2>6
<1>10. CASE BeginDrain \/ EndDrain \/ UNCHANGED vars
  <2>1. Nothing(q)
    BY <1>1, <1>10 DEF BeginDrain, EndDrain, vars, heap, Nothing
  <2>2. QED BY <1>1, <2>1, NothingPlaceStep DEF Turns, OutcomeMoves, Nothing
<1>11. QED BY <1>3, <1>4, <1>5, <1>6, <1>7, <1>8, <1>9, <1>10 DEF Next, Create, Use

(* What such a step does to the life of a reaction: the one it consumes is *)
(* the head of the queue.                                                  *)
LEMMA LifeMoves ==
    ASSUME CInv, NEW q, PlaceStep(q), Readings, Readings', NEW r \in Nat,
           \/ q = jobs
           \/ jobs # << >> /\ q = Tail(jobs)
    PROVE  /\ \/ Life(r)' = Life(r)
              \/ Life(r) = "none" /\ Life(r)' \in {"waiting", "ready"}
              \/ Life(r) = "waiting" /\ Life(r)' = "ready"
              \/ /\ Life(r) = "ready" /\ Life(r)' = "done"
                 /\ jobs # << >> /\ q = Tail(jobs) /\ r = Head(jobs).id
           /\ Life(r) # "none" /\ Life(r)' # "done" => SourceOf(r)' = SourceOf(r)
<1>1. jobs \in Seq(Job) /\ attached \in Nat /\ Tickets(jobs)
  BY DEF CInv, IInv, TypeOK
<1>2. \A y : y \in Promise /\ Ready(r, y, q) => Ready(r, y, jobs)
  <2>1. CASE q = jobs
    BY <2>1
  <2>2. CASE jobs # << >> /\ q = Tail(jobs)
    <3>1. \A i \in 1 .. Len(q) : i + 1 \in 1 .. Len(jobs) /\ q[i] = jobs[i + 1]
      BY <1>1, <2>2, EmptySeq, HeadTailProperties
    <3>2. QED BY <3>1 DEF Ready
  <2>3. QED BY <2>1, <2>2
<1>3. CASE \E y \in Promise : Sits(r, y)
  <2>1. PICK y \in Promise : Sits(r, y)
    BY <1>3
  <2>2. Life(r) = "waiting" /\ SourceOf(r) = y
    BY <2>1 DEF Readings
  <2>3. Sits(r, y)' \/ Ready(r, y, jobs)'
    BY <2>1 DEF PlaceStep
  <2>4. Life(r)' \in {"waiting", "ready"} /\ SourceOf(r)' = y
    BY <2>3 DEF Readings
  <2>5. QED BY <2>2, <2>4
<1>4. CASE \E y \in Promise : Ready(r, y, q)
  <2>1. PICK y \in Promise : Ready(r, y, q)
    BY <1>4
  <2>2. Life(r) = "ready" /\ SourceOf(r) = y
    BY <1>2, <2>1 DEF Readings
  <2>3. Ready(r, y, jobs)'
    BY <2>1 DEF PlaceStep
  <2>4. Life(r)' = "ready" /\ SourceOf(r)' = y
    BY <2>3 DEF Readings
  <2>5. QED BY <2>2, <2>4
<1>5. CASE \A y \in Promise : ~Sits(r, y) /\ ~Ready(r, y, q)
  <2>1. ~NewNumber(r) => Nowhere(r)'
    BY <1>5 DEF PlaceStep, Nowhere
  <2>2. CASE Nowhere(r)
    <3>1. CASE NewNumber(r)
      <4>1. \E y : y \in Promise /\ (Sits(r, y)' \/ Ready(r, y, jobs)')
        BY <1>1, <3>1 DEF PlaceStep, NewNumber
      <4>2. Life(r)' \in {"waiting", "ready"}
        BY <4>1 DEF Readings
      <4>3. Life(r) = "none"
        BY <1>1, <2>2, <3>1 DEF Readings, NewNumber
      <4>4. QED BY <4>2, <4>3
    <3>2. CASE ~NewNumber(r)
      <4>1. attached' = attached \/ attached' = attached + 1
        BY DEF PlaceStep, NewNumber
      <4>2. r <= attached' <=> r <= attached
        BY <1>1, <3>2, <4>1 DEF NewNumber
      <4>3. /\ Life(r)' = IF r <= attached' THEN "done" ELSE "none"
            /\ SourceOf(r)' = 0
        BY <2>1, <3>2 DEF Readings
      <4>4. /\ Life(r) = IF r <= attached THEN "done" ELSE "none"
            /\ SourceOf(r) = 0
        BY <2>2 DEF Readings
      <4>5. QED BY <4>2, <4>3, <4>4
    <3>3. QED BY <3>1, <3>2
  <2>3. CASE ~Nowhere(r)
    <3>1. PICK y \in Promise : Ready(r, y, jobs)
      BY <1>5, <2>3 DEF Nowhere
    <3>2. jobs # << >> /\ q = Tail(jobs)
      BY <1>5, <3>1
    <3>3. PICK j \in 1 .. Len(jobs) : jobs[j].id = r /\ jobs[j].source = y
      BY <3>1 DEF Ready
    <3>4. j = 1
      <4>1. Len(jobs) \in Nat /\ Len(q) = Len(jobs) - 1
            /\ \A i \in 1 .. Len(q) : q[i] = jobs[i + 1]
        BY <1>1, <3>2, HeadTailProperties, LenProperties
      <4>2. j # 1 => j - 1 \in 1 .. Len(q) /\ q[j - 1] = jobs[j]
        BY <4>1
      <4>3. QED BY <1>5, <3>3, <4>2 DEF Ready
    <3>5. r = Head(jobs).id
      BY <1>1, <3>2, <3>3, <3>4, HeadTailProperties
    <3>6. r <= attached /\ Life(r) = "ready"
      BY <1>1, <3>1, <3>3 DEF Readings, Tickets, Numbered
    <3>7. r <= attached' /\ Nowhere(r)'
      BY <1>1, <2>1, <3>6 DEF PlaceStep, NewNumber
    <3>8. Life(r)' = "done"
      BY <3>7 DEF Readings
    <3>9. QED BY <3>2, <3>5, <3>6, <3>8
  <2>4. QED BY <2>2, <2>3
<1>6. QED BY <1>3, <1>4, <1>5

(* No reaction that is left is older than the consumed one and of its      *)
(* promise.                                                                *)
LEMMA HeadIsOldest ==
    ASSUME CInv, Readings, Waits, jobs # << >>, NEW r \in Nat, r = Head(jobs).id,
           NEW s \in Nat, s < r, Life(s) \in {"waiting", "ready"}
    PROVE  SourceOf(s) # SourceOf(r)
<1>1. jobs \in Seq(Job) /\ Tickets(jobs) /\ attached \in Nat
  BY DEF CInv, IInv, TypeOK
<1>2. PICK h, t : h = Head(jobs) /\ t = Tail(jobs)
  OBVIOUS
<1>3. 1 \in 1 .. Len(jobs) /\ h = jobs[1] /\ h \in Job
  BY <1>1, <1>2, EmptySeq, HeadTailProperties
<1>4. h.source \in Promise /\ Ready(r, h.source, jobs)
  BY <1>2, <1>3 DEF Ready, Job
<1>5. SourceOf(r) = h.source
  BY <1>4 DEF Readings
<1>6. state[h.source] \in Settled
  BY <1>4 DEF Waits
<1>7. ~Nowhere(s)
  BY DEF Readings
<1>8. CASE \E y \in Promise : Sits(s, y)
  <2>1. PICK y \in Promise : Sits(s, y)
    BY <1>8
  <2>2. SourceOf(s) = y /\ state[y] = "pending"
    BY <2>1 DEF Readings, Waits
  <2>3. QED BY <1>5, <1>6, <2>2 DEF Settled
<1>9. CASE \E y \in Promise : Ready(s, y, jobs)
  <2>1. PICK y \in Promise : Ready(s, y, jobs)
    BY <1>9
  <2>2. SourceOf(s) = y
    BY <2>1 DEF Readings
  <2>3. PICK j \in 1 .. Len(jobs) : jobs[j].id = s /\ jobs[j].source = y
    BY <2>1 DEF Ready
  <2>4. j # 1 /\ 1 < j
    BY <1>2, <1>3, <2>3
  <2>5. jobs[1].source = jobs[j].source => jobs[1].id < jobs[j].id
    BY <1>1, <1>3, <2>4 DEF Tickets, QueueOrdered
  <2>6. h.source # y
    BY <1>2, <1>3, <2>3, <2>5
  <2>7. QED BY <1>5, <2>2, <2>6
<1>10. QED BY <1>7, <1>8, <1>9 DEF Nowhere

LEMMA WaitsInContract == CInv => Contract!WaitsWhilePending
<1> SUFFICES ASSUME CInv, NEW r \in 1 .. MaxReactions
             PROVE  /\ Life(r) = "waiting" => state[SourceOf(r)] = "pending"
                    /\ Life(r) = "ready" => state[SourceOf(r)] \in {"fulfilled", "rejected"}
  BY DEF Contract!WaitsWhilePending, Contract!Reaction, Contract!Settled
<1>1. Readings /\ Waits
  BY PlacesRead
<1>2. CASE \E y \in Promise : Sits(r, y)
  BY <1>1, <1>2 DEF Readings, Waits
<1>3. CASE \E y \in Promise : Ready(r, y, jobs)
  BY <1>1, <1>3 DEF Readings, Waits, Settled
<1>4. CASE Nowhere(r)
  BY <1>1, <1>4 DEF Readings
<1>5. QED BY <1>2, <1>3, <1>4 DEF Nowhere

(* The native ABI implements the promise contract: a promise is settled at *)
(* most once, a reaction waits while its promise is pending and is ready   *)
(* from then on, and the drain loop consumes the reactions of one promise  *)
(* one by one in the order of their attachment, none of them twice.        *)
THEOREM ContractImplemented == Spec => ImplementsContract
<1>1. Init => Contract!Init
  <2> SUFFICES ASSUME Init PROVE Contract!Init
    OBVIOUS
  <2>1. CInv /\ Readings
    BY InitCInv, PlacesRead
  <2>2. jobs = << >> /\ \A p \in Promise : reactions[p] = << >>
    BY DEF Init
  <2>3. \A i : i \notin 1 .. Len(jobs) /\ \A p \in Promise : i \notin 1 .. Len(reactions[p])
    BY <2>2, EmptySeq
  <2>4. \A r : Nowhere(r)
    BY <2>3 DEF Nowhere, Sits, Ready
  <2>5. \A r \in 1 .. MaxReactions : Life(r) = "none" /\ SourceOf(r) = 0
    <3>1. TAKE r \in 1 .. MaxReactions
    <3>2. attached = 0
      BY DEF Init
    <3>3. ~(r <= attached)
      BY <3>2, MaxReactionsAssumption
    <3>4. QED BY <2>1, <2>4, <3>3 DEF Readings
  <2>6. state = [p \in Promise |-> "free"]
    BY DEF Init
  <2>7. QED BY <2>5, <2>6 DEF Contract!Init, Contract!Reaction
<1>2. CInv /\ CInv' /\ [Next]_vars => [Contract!Next]_(Contract!vars)
  <2> SUFFICES ASSUME CInv, CInv', [Next]_vars PROVE Contract!Next
    OBVIOUS
  <2>1. Readings /\ Waits
    BY PlacesRead
  <2>2. Readings' /\ Waits'
    <3>1. CInv' => (Readings /\ Waits)'
      BY PlacesRead, PTL
    <3>2. QED BY <3>1
  <2>3. PICK q : /\ Turns(q)
                 /\ q = jobs \/ (jobs # << >> /\ q = Tail(jobs))
    BY NextTurns
  <2>4. \A r \in 1 .. MaxReactions : r \in Nat
    BY MaxReactionsAssumption
  <2>5. ASSUME NEW r \in 1 .. MaxReactions
        PROVE  /\ \/ Life(r)' = Life(r)
                  \/ Life(r) = "none" /\ Life(r)' \in {"waiting", "ready"}
                  \/ Life(r) = "waiting" /\ Life(r)' = "ready"
                  \/ /\ Life(r) = "ready" /\ Life(r)' = "done"
                     /\ jobs # << >> /\ r = Head(jobs).id
               /\ Life(r) # "none" /\ Life(r)' # "done" => SourceOf(r)' = SourceOf(r)
    BY <2>1, <2>2, <2>3, <2>4, LifeMoves DEF Turns
  <2>6. Contract!OutcomeStep
    BY <2>3 DEF Turns, OutcomeMoves, Contract!OutcomeStep, Contract!Settled,
                Contract!Outcome, Settled
  <2>7. Contract!LifeStep
    BY <2>5 DEF Contract!LifeStep, Contract!Reaction
  <2>8. Contract!SourceFixed
    BY <2>5 DEF Contract!SourceFixed, Contract!Reaction
  <2>9. Contract!WaitsWhilePending'
    <3>1. CInv' => Contract!WaitsWhilePending'
      BY WaitsInContract, PTL
    <3>2. QED BY <3>1
  <2>10. Contract!OldestFirst
    <3>1. ASSUME NEW r \in 1 .. MaxReactions, Life(r) = "ready", Life(r)' = "done"
          PROVE  jobs # << >> /\ r = Head(jobs).id
      BY <2>5, <3>1
    <3>2. ASSUME NEW r \in 1 .. MaxReactions, Life(r) = "ready", Life(r)' = "done",
                 NEW s \in 1 .. MaxReactions, s < r, Life(s) \in {"waiting", "ready"}
          PROVE  SourceOf(s) # SourceOf(r)
      BY <2>1, <2>4, <3>1, <3>2, HeadIsOldest
    <3>3. ASSUME NEW r \in 1 .. MaxReactions, Life(r) = "ready", Life(r)' = "done",
                 NEW s \in 1 .. MaxReactions, Life(s) = "ready", Life(s)' = "done"
          PROVE  s = r
      BY <3>1, <3>3
    <3>4. QED BY <3>2, <3>3 DEF Contract!OldestFirst, Contract!Consumed, Contract!Reaction
  <2>11. QED BY <2>6, <2>7, <2>8, <2>9, <2>10 DEF Contract!Next
<1>3. QED BY <1>1, <1>2, NumberedAlways, PTL DEF Spec, ImplementsContract, Contract!Spec

=============================================================================
