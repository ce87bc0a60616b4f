------------------------- MODULE PromiseMachineProofs -------------------------
(***************************************************************************)
(* Proofs about PromiseMachine, for all programs and bounds.               *)
(*                                                                         *)
(* Settlement is safe because of what a job carries: a copy of the         *)
(* settlement of the promise it was queued for, which stays true while     *)
(* other jobs, callbacks and nested awaits run, and handlers that were     *)
(* made for one outcome.  The invariant says so of the reactions in the    *)
(* lists, of the jobs in the queue and of the jobs in the frames of the    *)
(* control stack.                                                          *)
(***************************************************************************)
EXTENDS PromiseMachine, SequenceTheorems, FiniteSetTheorems, TLAPS

(* A resuming handler is of a task there is, and a resuming or preserving  *)
(* handler fits the outcome it stands for: what is preserved past a        *)
(* callback of finally as a value is no promise.                           *)
FitsOutcome(h, rejected) ==
    /\ h.kind = "resume" => h.rejected = rejected /\ h.task \in 1 .. Len(tasks)
    /\ h.kind = "preserve" /\ h.rejected = FALSE => h.original \notin Promise

(* A reaction's next promise has been made.                                *)
ReactionOK(x) ==
    /\ x \in Reaction
    /\ FitsOutcome(x.fulfilled, FALSE)
    /\ FitsOutcome(x.rejected, TRUE)
    /\ state[x.next] # "free"

(* A reaction in the list of p was attached to p.                          *)
ListOK(p) ==
    \A i \in 1 .. Len(reactions[p]) :
        ReactionOK(reactions[p][i]) /\ reactions[p][i].source = p

(* A job carries the settlement of its source.                             *)
JobOK(job) ==
    /\ job \in Job
    /\ ReactionOK(job.reaction)
    /\ state[job.reaction.source] = job.state
    /\ result[job.reaction.source] = job.value

QueueOK(q) == q \in Seq(Job) /\ \A i \in 1 .. Len(q) : JobOK(q[i])

FrameOK(f) == f \in Frame /\ (f.kind \in {"callback", "resume"} => JobOK(f.job))

(* An await has a caller.                                                  *)
StackOK(s) ==
    /\ s \in Seq(Frame)
    /\ \A i \in 1 .. Len(s) : FrameOK(s[i]) /\ (s[i].kind = "await" => i # 1)

NoReactionLeftBehind ==
    \A p \in Promise : reactions[p] # << >> => state[p] = "pending"

(* The host has been told of rejections only, and of none that is handled. *)
ReportsOK == \A p \in Promise : reported[p] => state[p] = "rejected" /\ ~handled[p]

(* What the steps of the heap rely on and keep.                            *)
HeapOK ==
    /\ program \in Programs
    /\ tasks \in Seq(Task)
    /\ state \in [Promise -> State]
    /\ result \in [Promise -> Value]
    /\ reactions \in [Promise -> Seq(Reaction)]
    /\ handled \in [Promise -> BOOLEAN]
    /\ reported \in [Promise -> BOOLEAN]
    /\ events \in Seq(Event)
    /\ attached \in 0 .. program.reactions
    /\ FulfilledNeverPromise
    /\ NoReactionLeftBehind
    /\ \A p \in Promise : ListOK(p)
    /\ ReportsOK

(* Handles are given out in order, so the next one is not in use.          *)
LiveInOrder == \E n \in 0 .. MaxPromises : Live = 1 .. n

(* Nothing runs any more when the tracker is told of the rejections.       *)
PhaseOK ==
    /\ phase \in {"script", "drain", "deliver", "done", "aborted"}
    /\ phase \in {"deliver", "done"} =>
          stack = << >> /\ \A p \in Promise : state[p] = "rejected" => reported[p] \/ handled[p]

(* A task is made with a reaction.                                         *)
Others ==
    /\ Len(tasks) <= attached
    /\ capable \subseteq Promise
    /\ origin \in [Promise -> Origin]
    /\ swallowed \in BOOLEAN

IInv ==
    /\ HeapOK
    /\ QueueOK(jobs)
    /\ StackOK(stack)
    /\ LiveInOrder
    /\ PhaseOK
    /\ Others

-----------------------------------------------------------------------------
(* What every step keeps, whatever it does to the heap.                    *)

KeepsSettled ==
    \A p \in Promise : state[p] \in Settled => state'[p] = state[p] /\ result'[p] = result[p]

SameProgram ==
    program' = program /\ tasks' \in Seq(Task) /\ Len(tasks) <= Len(tasks')

Grows ==
    /\ SameProgram
    /\ KeepsSettled
    /\ \A p \in Promise : state[p] # "free" => state'[p] # "free"

HeapStep ==
    /\ HeapOK'
    /\ QueueOK(jobs)'
    /\ Grows
    /\ attached <= attached'

(* The only promise a step may make.                                       *)
Makes(p) == Live' = Live \union {p}

LEMMA ReactionStays ==
    ASSUME HeapOK, Grows, NEW x, ReactionOK(x)
    PROVE  ReactionOK(x)'
<1>1. Len(tasks) \in Nat /\ Len(tasks') \in Nat /\ Len(tasks) <= Len(tasks')
  BY LenProperties DEF HeapOK, Grows, SameProgram
<1>2. ASSUME NEW h, NEW b, FitsOutcome(h, b) PROVE FitsOutcome(h, b)'
  BY <1>1, <1>2 DEF FitsOutcome
<1>3. x \in Reaction /\ FitsOutcome(x.fulfilled, FALSE)' /\ FitsOutcome(x.rejected, TRUE)'
  BY <1>2 DEF ReactionOK
<1>4. x.next \in Promise
  BY <1>3 DEF Reaction
<1>5. state'[x.next] # "free"
  BY <1>4 DEF Grows, ReactionOK
<1>6. QED BY <1>3, <1>5 DEF ReactionOK

LEMMA JobStays ==
    ASSUME HeapOK, Grows, NEW job, JobOK(job)
    PROVE  JobOK(job)'
<1>1. job \in Job /\ job.reaction \in Reaction /\ job.state \in Settled
      /\ job.reaction.source \in Promise
  BY DEF JobOK, Job, Reaction
<1>2. PICK x : x = job.reaction
  OBVIOUS
<1>3. ReactionOK(x)'
  BY <1>2, ReactionStays DEF JobOK
<1>4. ReactionOK(job.reaction)'
  BY <1>2, <1>3
<1>5. state'[x.source] = job.state /\ result'[x.source] = job.value
  BY <1>1, <1>2 DEF JobOK, Grows, KeepsSettled
<1>6. QED BY <1>1, <1>2, <1>4, <1>5 DEF JobOK

LEMMA QueueStays ==
    ASSUME HeapOK, Grows, NEW q, QueueOK(q)
    PROVE  QueueOK(q)'
BY JobStays DEF QueueOK

LEMMA StackStays ==
    ASSUME HeapOK, Grows, NEW s, StackOK(s)
    PROVE  StackOK(s)'
<1>1. s \in Seq(Frame)
  BY DEF StackOK
<1>2. ASSUME NEW i \in 1 .. Len(s) PROVE FrameOK(s[i])' /\ (s[i].kind = "await" => i # 1)
  <2>1. FrameOK(s[i]) /\ (s[i].kind = "await" => i # 1)
    BY <1>2 DEF StackOK
  <2>2. PICK job : job = s[i].job
    OBVIOUS
  <2>3. JobOK(job) => JobOK(job)'
    BY JobStays
  <2>4. JobOK(s[i].job) => JobOK(s[i].job)'
    BY <2>2, <2>3
  <2>5. QED BY <2>1, <2>4 DEF FrameOK
<1>3. QED BY <1>1, <1>2 DEF StackOK

-----------------------------------------------------------------------------
(* settle, attach_reaction, resolve_into.                                  *)

JobOf(x, st, v) == [reaction |-> x, state |-> st, value |-> v]
JobsOf(rs, st, v) == [i \in 1 .. Len(rs) |-> JobOf(rs[i], st, v)]

LEMMA JobsMade ==
    ASSUME NEW rs \in Seq(Reaction), NEW st \in Settled, NEW v \in Value
    PROVE  /\ JobsOf(rs, st, v) \in Seq(Job)
           /\ Len(JobsOf(rs, st, v)) = Len(rs)
           /\ \A i \in 1 .. Len(rs) : JobsOf(rs, st, v)[i] = JobOf(rs[i], st, v)
<1>1. ASSUME NEW i \in 1 .. Len(rs)
      PROVE  JobOf(rs[i], st, v) \in Job
  <2>1. rs[i] \in Reaction
    OBVIOUS
  <2>2. QED BY <2>1 DEF JobOf, Job
<1>2. Len(rs) \in Nat
  OBVIOUS
<1>3. JobsOf(rs, st, v) \in Seq(Job)
  BY <1>1, <1>2, IsASeq DEF JobsOf
<1>4. QED BY <1>2, <1>3 DEF JobsOf

LEMMA SettleOK ==
    ASSUME HeapOK, SameProgram, NEW p \in Promise, state[p] \notin Settled,
           NEW st \in Settled, NEW v \in Value, st = "fulfilled" => v \notin Promise,
           NEW q, QueueOK(q), Settle(p, st, v, q)
    PROVE  HeapStep /\ Makes(p)
<1>1. PICK new : new = JobsOf(reactions[p], st, v)
  OBVIOUS
<1>2. reactions[p] \in Seq(Reaction) /\ ListOK(p)
  BY DEF HeapOK
<1>3. /\ new \in Seq(Job) /\ Len(new) = Len(reactions[p])
      /\ \A i \in 1 .. Len(new) : new[i] = JobOf(reactions[p][i], st, v)
  BY <1>1, <1>2, JobsMade
<1>4. /\ state' = [state EXCEPT ![p] = st] /\ result' = [result EXCEPT ![p] = v]
      /\ reactions' = [reactions EXCEPT ![p] = << >>]
      /\ jobs' = q \o new
      /\ UNCHANGED <<handled, reported, events, attached>>
  BY <1>1 DEF Settle, tracking, JobsOf, JobOf
<1>5. /\ state' \in [Promise -> State] /\ result' \in [Promise -> Value]
      /\ reactions' \in [Promise -> Seq(Reaction)]
      /\ state'[p] = st /\ result'[p] = v
  BY <1>4 DEF HeapOK, State
<1>6. Grows
  BY <1>4 DEF HeapOK, Grows, KeepsSettled, Settled
<1>7. FulfilledNeverPromise' /\ NoReactionLeftBehind' /\ ReportsOK'
  BY <1>4 DEF HeapOK, FulfilledNeverPromise, NoReactionLeftBehind, ReportsOK, Settled
<1>8. ASSUME NEW o \in Promise PROVE ListOK(o)'
  <2>1. CASE o = p
    <3>1. reactions'[o] = << >> /\ Len(<< >>) = 0
      BY <1>4, <2>1 DEF HeapOK
    <3>2. QED BY <3>1 DEF ListOK
  <2>2. CASE o # p
    <3>1. PICK rs : rs = reactions[o]
      OBVIOUS
    <3>2. reactions'[o] = rs
      BY <1>4, <2>2, <3>1 DEF HeapOK
    <3>3. \A i \in 1 .. Len(rs) : ReactionOK(rs[i]) /\ rs[i].source = o
      BY <3>1 DEF HeapOK, ListOK
    <3>4. \A i \in 1 .. Len(rs) : ReactionOK(rs[i])'
      BY <1>6, <3>3, ReactionStays
    <3>5. QED BY <3>2, <3>3, <3>4 DEF ListOK
  <2>3. QED BY <2>1, <2>2
<1>9. ASSUME NEW i \in 1 .. Len(new) PROVE JobOK(new[i])'
  <2>1. PICK x : x = reactions[p][i]
    OBVIOUS
  <2>2. ReactionOK(x) /\ x.source = p
    BY <1>2, <1>3, <2>1 DEF ListOK
  <2>3. ReactionOK(x)'
    BY <1>6, <2>2, ReactionStays
  <2>4. new[i] = [reaction |-> x, state |-> st, value |-> v] /\ new[i] \in Job
    BY <1>3, <2>1 DEF JobOf
  <2>5. QED BY <1>5, <2>2, <2>3, <2>4 DEF JobOK
<1>10. QueueOK(jobs)'
  <2>1. QueueOK(q)'
    BY <1>6, QueueStays
  <2>2. q \in Seq(Job) /\ \A i \in 1 .. Len(q) : JobOK(q[i])'
    BY <2>1 DEF QueueOK
  <2>3. /\ q \o new \in Seq(Job) /\ Len(q \o new) = Len(q) + Len(new)
        /\ Len(q) \in Nat /\ Len(new) \in Nat
        /\ \A i \in 1 .. Len(q) + Len(new) :
              (q \o new)[i] = IF i <= Len(q) THEN q[i] ELSE new[i - Len(q)]
    <3>1. q \in Seq(Job) /\ new \in Seq(Job)
      BY <1>3, <2>2
    <3>2. Len(q) \in Nat /\ Len(new) \in Nat
      BY <3>1, LenProperties
    <3>3. QED BY <3>1, <3>2, ConcatProperties
  <2>4. ASSUME NEW i \in 1 .. Len(q \o new) PROVE JobOK((q \o new)[i])'
    <3>1. CASE i <= Len(q)
      <4>1. i \in 1 .. Len(q) /\ (q \o new)[i] = q[i]
        BY <2>3, <3>1
      <4>2. QED BY <2>2, <4>1
    <3>2. CASE ~(i <= Len(q))
      <4>1. i - Len(q) \in 1 .. Len(new) /\ (q \o new)[i] = new[i - Len(q)]
        BY <2>3, <3>2
      <4>2. QED BY <1>9, <4>1
    <3>3. QED BY <3>1, <3>2
  <2>5. QED BY <1>4, <2>3, <2>4 DEF QueueOK
<1>11. Makes(p)
  BY <1>4 DEF Makes, Live, HeapOK, Settled
<1>12. program' \in Programs /\ tasks' \in Seq(Task) /\ attached' \in 0 .. program'.reactions
       /\ events' \in Seq(Event) /\ handled' \in [Promise -> BOOLEAN]
       /\ reported' \in [Promise -> BOOLEAN] /\ attached <= attached'
  BY <1>4, ProgramsAssumption, BoundsAssumption DEF HeapOK, SameProgram
<1>13. HeapOK'
  BY <1>5, <1>7, <1>8, <1>12 DEF HeapOK
<1>14. QED BY <1>6, <1>10, <1>11, <1>12, <1>13 DEF HeapStep

(* next comes to wait on src, which has been made.                         *)
LEMMA AttachOK ==
    ASSUME HeapOK, SameProgram, NEW src \in Live, NEW f \in Handler, NEW r \in Handler,
           NEW next \in Promise, NEW finally \in BOOLEAN,
           FitsOutcome(f, FALSE)', FitsOutcome(r, TRUE)',
           NEW q, QueueOK(q), Attach(src, f, r, next, finally, q)
    PROVE  HeapStep /\ Makes(next) /\ attached' = attached + 1
<1>1. PICK x : x = NewReaction(src, f, r, next, finally)
  OBVIOUS
<1>2. src \in Promise /\ state[src] # "free"
  BY DEF Live
<1>3. PICK job : job = JobOf(x, state[src], result[src])
  OBVIOUS
<1>4. /\ attached < program.reactions /\ attached' = attached + 1
      /\ handled' = [handled EXCEPT ![src] = TRUE]
      /\ IF reported[src] /\ state[src] = "rejected"
         THEN /\ reported' = [reported EXCEPT ![src] = FALSE]
              /\ events' = Append(events, [promise |-> src, operation |-> "Handle"])
         ELSE UNCHANGED <<reported, events>>
      /\ state' = [state EXCEPT ![next] = IF state[next] = "free" THEN "pending" ELSE state[next]]
      /\ result' = result
  BY DEF Attach
<1>5. IF state[src] = "pending"
      THEN reactions' = [reactions EXCEPT ![src] = Append(reactions[src], x)] /\ jobs' = q
      ELSE jobs' = Append(q, job) /\ reactions' = reactions
  BY <1>1, <1>3 DEF Attach, JobOf
<1>6. program \in Programs /\ program.reactions \in Nat /\ attached \in Nat
  BY ProgramsAssumption, BoundsAssumption DEF HeapOK
<1>7. x \in Reaction /\ x.source = src /\ x.next = next /\ x.fulfilled = f /\ x.rejected = r
  BY <1>1, <1>2, <1>6 DEF NewReaction, Reaction
<1>8. Grows
  BY <1>4 DEF Grows, HeapOK, KeepsSettled, Settled
<1>9. state' \in [Promise -> State] /\ state'[next] # "free"
  BY <1>4 DEF HeapOK, State
<1>10. ReactionOK(x)'
  BY <1>7, <1>9 DEF ReactionOK
<1>11. FulfilledNeverPromise' /\ ReportsOK'
  BY <1>2, <1>4 DEF HeapOK, FulfilledNeverPromise, ReportsOK
<1>12. reactions' \in [Promise -> Seq(Reaction)] /\ NoReactionLeftBehind'
  <2>1. reactions[src] \in Seq(Reaction)
    BY <1>2 DEF HeapOK
  <2>2. Append(reactions[src], x) \in Seq(Reaction)
    BY <1>7, <2>1, AppendProperties
  <2>3. reactions' \in [Promise -> Seq(Reaction)]
    BY <1>5, <2>2 DEF HeapOK
  <2>4. \A o \in Promise : state[o] = "pending" => state'[o] = "pending"
    BY <1>4 DEF HeapOK
  <2>5. \A o \in Promise : reactions'[o] = reactions[o] \/ state[o] = "pending"
    BY <1>2, <1>5 DEF HeapOK
  <2>6. QED BY <2>3, <2>4, <2>5 DEF HeapOK, NoReactionLeftBehind
<1>13. ASSUME NEW o \in Promise PROVE ListOK(o)'
  <2>1. PICK rs : rs = reactions[o]
    OBVIOUS
  <2>2. rs \in Seq(Reaction) /\ \A i \in 1 .. Len(rs) : ReactionOK(rs[i]) /\ rs[i].source = o
    BY <2>1 DEF HeapOK, ListOK
  <2>3. \A i \in 1 .. Len(rs) : ReactionOK(rs[i])'
    BY <1>8, <2>2, ReactionStays
  <2>4. CASE reactions'[o] = rs
    BY <2>2, <2>3, <2>4 DEF ListOK
  <2>5. CASE o = src /\ reactions'[o] = Append(rs, x)
    <3>1. PICK rs2 : rs2 = Append(rs, x)
      OBVIOUS
    <3>2. /\ Len(rs2) = Len(rs) + 1 /\ Len(rs) \in Nat /\ rs2[Len(rs) + 1] = x
          /\ \A i \in 1 .. Len(rs) : rs2[i] = rs[i]
      BY <1>7, <2>2, <3>1, AppendProperties, LenProperties
    <3>3. ASSUME NEW i \in 1 .. Len(rs2) PROVE ReactionOK(rs2[i])' /\ rs2[i].source = o
      <4>1. CASE i \in 1 .. Len(rs)
        <5>1. rs2[i] = rs[i]
          BY <3>2, <4>1
        <5>2. QED BY <2>2, <2>3, <4>1, <5>1
      <4>2. CASE i = Len(rs) + 1
        <5>1. rs2[i] = x
          BY <3>2, <4>2
        <5>2. QED BY <1>7, <1>10, <2>5, <5>1
      <4>3. QED BY <3>2, <4>1, <4>2
    <3>4. reactions'[o] = rs2
      BY <2>5, <3>1
    <3>5. QED BY <3>3, <3>4 DEF ListOK
  <2>6. reactions'[o] = rs \/ (o = src /\ reactions'[o] = Append(rs, x))
    BY <1>5, <2>1 DEF HeapOK
  <2>7. QED BY <2>4, <2>5, <2>6
<1>14. QueueOK(jobs)'
  <2>1. QueueOK(q)'
    BY <1>8, QueueStays
  <2>2. q \in Seq(Job) /\ \A i \in 1 .. Len(q) : JobOK(q[i])'
    BY <2>1 DEF QueueOK
  <2>3. CASE state[src] = "pending"
    BY <1>5, <2>2, <2>3 DEF QueueOK
  <2>4. CASE state[src] # "pending"
    <3>1. state[src] \in Settled /\ result[src] \in Value
      BY <1>2, <2>4 DEF HeapOK, State
    <3>2. state'[src] = state[src] /\ result'[src] = result[src]
      BY <1>2, <1>8, <3>1 DEF Grows, KeepsSettled
    <3>3. job \in Job /\ job.reaction = x /\ job.state = state[src] /\ job.value = result[src]
      BY <1>3, <1>7, <3>1 DEF JobOf, Job
    <3>4. JobOK(job)'
      BY <1>7, <1>10, <3>2, <3>3 DEF JobOK
    <3>5. PICK q2 : q2 = Append(q, job)
      OBVIOUS
    <3>6. /\ q2 \in Seq(Job) /\ Len(q2) = Len(q) + 1 /\ Len(q) \in Nat /\ q2[Len(q) + 1] = job
          /\ \A i \in 1 .. Len(q) : q2[i] = q[i]
      BY <2>2, <3>3, <3>5, AppendProperties, LenProperties
    <3>7. ASSUME NEW i \in 1 .. Len(q2) PROVE JobOK(q2[i])'
      <4>1. CASE i \in 1 .. Len(q)
        <5>1. q2[i] = q[i]
          BY <3>6, <4>1
        <5>2. QED BY <2>2, <4>1, <5>1
      <4>2. CASE i = Len(q) + 1
        <5>1. q2[i] = job
          BY <3>6, <4>2
        <5>2. QED BY <3>4, <5>1
      <4>3. QED BY <3>6, <4>1, <4>2
    <3>8. jobs' = q2
      BY <1>5, <2>4, <3>5
    <3>9. QED BY <3>6, <3>7, <3>8 DEF QueueOK
  <2>5. QED BY <2>3, <2>4
<1>15. Makes(next)
  BY <1>4 DEF Makes, Live, HeapOK
<1>16. events' \in Seq(Event)
  <2>1. events \in Seq(Event) /\ [promise |-> src, operation |-> "Handle"] \in Event
    BY <1>2 DEF HeapOK, Event
  <2>2. Append(events, [promise |-> src, operation |-> "Handle"]) \in Seq(Event)
    BY <2>1, AppendProperties
  <2>3. QED BY <1>4, <2>1, <2>2
<1>17. /\ handled' \in [Promise -> BOOLEAN] /\ reported' \in [Promise -> BOOLEAN]
       /\ attached' \in 0 .. program'.reactions /\ attached <= attached'
       /\ program' \in Programs /\ tasks' \in Seq(Task) /\ result' \in [Promise -> Value]
  <2>1. handled' \in [Promise -> BOOLEAN] /\ reported' \in [Promise -> BOOLEAN]
    BY <1>4 DEF HeapOK
  <2>2. attached' \in 0 .. program'.reactions /\ attached <= attached'
    BY <1>4, <1>6 DEF SameProgram
  <2>3. QED BY <1>4, <2>1, <2>2 DEF HeapOK, SameProgram
<1>18. HeapOK'
  BY <1>9, <1>11, <1>12, <1>13, <1>16, <1>17 DEF HeapOK
<1>19. QED BY <1>4, <1>8, <1>14, <1>15, <1>17, <1>18 DEF HeapStep

LEMMA NothingOK ==
    ASSUME HeapOK, SameProgram, NEW q, QueueOK(q), jobs' = q,
           UNCHANGED <<cells, tracking, attached>>
    PROVE  HeapStep /\ Live' = Live
<1>1. UNCHANGED <<state, result, reactions, handled, reported, events, attached>>
  BY DEF cells, tracking
<1>2. Grows
  BY <1>1 DEF Grows, KeepsSettled
<1>3. QueueOK(jobs)'
  <2>1. QueueOK(q)'
    BY <1>2, QueueStays
  <2>2. q \in Seq(Job) /\ \A i \in 1 .. Len(q) : JobOK(q[i])'
    BY <2>1 DEF QueueOK
  <2>3. QED BY <2>2 DEF QueueOK
<1>4. ASSUME NEW o \in Promise PROVE ListOK(o)'
  <2>1. PICK rs : rs = reactions[o]
    OBVIOUS
  <2>2. \A i \in 1 .. Len(rs) : ReactionOK(rs[i]) /\ rs[i].source = o
    BY <2>1 DEF HeapOK, ListOK
  <2>3. \A i \in 1 .. Len(rs) : ReactionOK(rs[i])'
    BY <1>2, <2>2, ReactionStays
  <2>4. QED BY <1>1, <2>1, <2>2, <2>3 DEF ListOK
<1>5. FulfilledNeverPromise' /\ NoReactionLeftBehind' /\ ReportsOK'
  BY <1>1 DEF HeapOK, FulfilledNeverPromise, NoReactionLeftBehind, ReportsOK
<1>6. HeapOK'
  BY <1>1, <1>4, <1>5 DEF HeapOK, SameProgram
<1>7. attached <= attached'
  BY <1>1, ProgramsAssumption, BoundsAssumption DEF HeapOK
<1>8. QED BY <1>1, <1>2, <1>3, <1>6, <1>7 DEF HeapStep, Live

LEMMA ResolveIntoOK ==
    ASSUME HeapOK, SameProgram, NEW p \in Promise, state[p] \notin Settled,
           NEW v \in Value, v \in Promise => v \in Live,
           NEW q, QueueOK(q), ResolveInto(p, v, q)
    PROVE  HeapStep /\ Makes(p)
<1>1. CASE v \notin Promise
  <2>1. Settle(p, "fulfilled", v, q)
    BY <1>1 DEF ResolveInto
  <2>2. QED BY <1>1, <2>1, SettleOK DEF Settled
<1>2. CASE v \in Promise /\ v = p
  <2>1. Settle(p, "rejected", CycleError, q) /\ CycleError \in Value
    BY <1>2 DEF ResolveInto, Value
  <2>2. QED BY <2>1, SettleOK DEF Settled
<1>3. CASE v \in Promise /\ v # p
  <2>1. Attach(v, NoHandler, NoHandler, p, FALSE, q)
    BY <1>3 DEF ResolveInto
  <2>2. NoHandler \in Handler /\ FitsOutcome(NoHandler, FALSE)' /\ FitsOutcome(NoHandler, TRUE)'
    BY DEF Handler, FitsOutcome, NoHandler
  <2>3. v \in Live
    BY <1>3
  <2>4. QED BY <2>1, <2>2, <2>3, AttachOK
<1>4. QED BY <1>1, <1>2, <1>3

(* IfPending: a promise that is settled already is left alone.             *)
LiveStep == HeapStep /\ Live' = Live

LEMMA IfPendingSettles ==
    ASSUME HeapOK, SameProgram, NEW p \in Promise,
           NEW st \in Settled, NEW v \in Value, st = "fulfilled" => v \notin Promise,
           NEW q, QueueOK(q), IfPending(p, q, Settle(p, st, v, q))
    PROVE  LiveStep
<1>1. CASE state[p] = "pending" /\ Settle(p, st, v, q)
  <2>1. HeapStep /\ Makes(p) /\ p \in Live
    BY <1>1, SettleOK DEF Settled, Live
  <2>2. QED BY <2>1 DEF LiveStep, Makes
<1>2. CASE jobs' = q /\ UNCHANGED <<cells, tracking, attached>>
  BY <1>2, NothingOK DEF LiveStep
<1>3. QED BY <1>1, <1>2 DEF IfPending

LEMMA IfPendingResolves ==
    ASSUME HeapOK, SameProgram, NEW p \in Promise,
           NEW v \in Value, v \in Promise => v \in Live,
           NEW q, QueueOK(q), IfPending(p, q, ResolveInto(p, v, q))
    PROVE  LiveStep
<1>1. CASE state[p] = "pending" /\ ResolveInto(p, v, q)
  <2>1. HeapStep /\ Makes(p) /\ p \in Live
    BY <1>1, ResolveIntoOK DEF Settled, Live
  <2>2. QED BY <2>1 DEF LiveStep, Makes
<1>2. CASE jobs' = q /\ UNCHANGED <<cells, tracking, attached>>
  BY <1>2, NothingOK DEF LiveStep
<1>3. QED BY <1>1, <1>2 DEF IfPending

(* What a job or a callback carries.                                       *)
LEMMA JobParts ==
    ASSUME HeapOK, NEW job, JobOK(job)
    PROVE  /\ job.reaction.next \in Promise /\ job.reaction.next \in Live
           /\ job.state \in Settled /\ job.value \in Value
           /\ job.state = "fulfilled" => job.value \notin Promise
           /\ job.reaction.finally \in BOOLEAN
           /\ job.reaction.fulfilled \in Handler /\ job.reaction.rejected \in Handler
           /\ FitsOutcome(job.reaction.fulfilled, FALSE) /\ FitsOutcome(job.reaction.rejected, TRUE)
<1>1. job \in Job /\ job.reaction \in Reaction
  BY DEF JobOK, Job
<1>2. PICK x : x = job.reaction
  OBVIOUS
<1>3. /\ x.next \in Promise /\ x.source \in Promise /\ x.finally \in BOOLEAN
      /\ x.fulfilled \in Handler /\ x.rejected \in Handler
  BY <1>1, <1>2 DEF Reaction
<1>4. ReactionOK(x) /\ state[x.source] = job.state /\ result[x.source] = job.value
  BY <1>2 DEF JobOK
<1>5. x.next \in Live /\ FitsOutcome(x.fulfilled, FALSE) /\ FitsOutcome(x.rejected, TRUE)
  BY <1>3, <1>4 DEF ReactionOK, Live
<1>6. job.state \in Settled /\ job.value \in Value
  BY <1>1 DEF Job
<1>7. job.state = "fulfilled" => job.value \notin Promise
  BY <1>3, <1>4 DEF HeapOK, FulfilledNeverPromise
<1>8. QED BY <1>2, <1>3, <1>5, <1>6, <1>7

LEMMA PreserveParts ==
    ASSUME NEW v \in Value, NEW b \in BOOLEAN
    PROVE  /\ Preserve(v, b) \in Handler
           /\ Preserve(v, b).kind = "preserve"
           /\ Preserve(v, b).original = v /\ Preserve(v, b).rejected = b
<1>1. Preserve(v, b) \in Handler
  BY DEF Handler
<1>2. QED BY <1>1 DEF Preserve

LEMMA CompleteOK ==
    ASSUME HeapOK, SameProgram, NEW job, JobOK(job),
           NEW v \in Value, v \in Promise => v \in Live,
           NEW q, QueueOK(q), Complete(job, v, q)
    PROVE  LiveStep
<1>1. PICK next : next = job.reaction.next
  OBVIOUS
<1>2. /\ next \in Promise /\ next \in Live
      /\ job.state \in Settled /\ job.value \in Value
      /\ job.state = "fulfilled" => job.value \notin Promise
  BY <1>1, JobParts
<1>3. CASE v \in Promise
  <2>1. PICK f : f = IF job.reaction.finally THEN Preserve(job.value, job.state = "rejected")
                                             ELSE NoHandler
    OBVIOUS
  <2>2. Attach(v, f, NoHandler, next, FALSE, q)
    BY <1>1, <1>3, <2>1 DEF Complete
  <2>3. CASE f = NoHandler
    <3>1. NoHandler \in Handler /\ FitsOutcome(NoHandler, FALSE)' /\ FitsOutcome(NoHandler, TRUE)'
      BY DEF Handler, FitsOutcome, NoHandler
    <3>2. HeapStep /\ Makes(next)
      BY <1>2, <1>3, <2>2, <2>3, <3>1, AttachOK
    <3>3. QED BY <1>2, <3>2 DEF LiveStep, Makes
  <2>4. CASE f = Preserve(job.value, job.state = "rejected")
    <3>1. NoHandler \in Handler /\ FitsOutcome(NoHandler, TRUE)'
      BY DEF Handler, FitsOutcome, NoHandler
    <3>2. PICK b \in BOOLEAN : b = (job.state = "rejected")
      OBVIOUS
    <3>3. f = Preserve(job.value, b)
      BY <2>4, <3>2
    <3>4. f \in Handler /\ f.kind = "preserve" /\ f.original = job.value /\ f.rejected = b
      BY <1>2, <3>2, <3>3, PreserveParts
    <3>5. f.rejected = FALSE => job.state = "fulfilled"
      BY <1>2, <3>2, <3>4 DEF Settled
    <3>6. FitsOutcome(f, FALSE)'
      BY <1>2, <3>4, <3>5 DEF FitsOutcome
    <3>7. HeapStep /\ Makes(next)
      BY <1>2, <1>3, <2>2, <3>1, <3>4, <3>6, AttachOK
    <3>8. QED BY <1>2, <3>7 DEF LiveStep, Makes
  <2>5. QED BY <2>1, <2>3, <2>4
<1>4. CASE v \notin Promise
  <2>1. IfPending(next, q, IF job.reaction.finally THEN Settle(next, job.state, job.value, q)
                                                    ELSE Settle(next, "fulfilled", v, q))
    BY <1>1, <1>4 DEF Complete
  <2>2. \/ IfPending(next, q, Settle(next, job.state, job.value, q))
        \/ IfPending(next, q, Settle(next, "fulfilled", v, q))
    BY <2>1 DEF IfPending
  <2>3. "fulfilled" \in Settled
    BY DEF Settled
  <2>4. CASE IfPending(next, q, Settle(next, job.state, job.value, q))
    BY <1>2, <2>4, IfPendingSettles
  <2>5. CASE IfPending(next, q, Settle(next, "fulfilled", v, q))
    BY <1>2, <1>4, <2>3, <2>5, IfPendingSettles
  <2>6. QED BY <2>2, <2>4, <2>5
<1>5. QED BY <1>3, <1>4

-----------------------------------------------------------------------------
(* The queue and the control stack.                                        *)

LEMMA NextJob ==
    ASSUME QueueOK(jobs), jobs # << >>
    PROVE  JobOK(Next1) /\ QueueOK(Rest)
<1>1. PICK q : q = jobs
  OBVIOUS
<1>2. q \in Seq(Job) /\ q # << >> /\ \A i \in 1 .. Len(q) : JobOK(q[i])
  BY <1>1 DEF QueueOK
<1>3. /\ Tail(q) \in Seq(Job) /\ Len(Tail(q)) = Len(q) - 1 /\ Len(q) \in Nat \ {0}
      /\ \A i \in 1 .. Len(Tail(q)) : Tail(q)[i] = q[i + 1]
      /\ Head(q) = q[1]
  BY <1>2, HeadTailProperties, EmptySeq
<1>4. JobOK(Head(q))
  BY <1>2, <1>3
<1>5. ASSUME NEW i \in 1 .. Len(Tail(q)) PROVE JobOK(Tail(q)[i])
  <2>1. i + 1 \in 1 .. Len(q) /\ Tail(q)[i] = q[i + 1]
    BY <1>3
  <2>2. QED BY <1>2, <2>1
<1>6. QED BY <1>1, <1>3, <1>4, <1>5 DEF QueueOK, Next1, Rest

LEMMA CutStack ==
    ASSUME NEW s, StackOK(s), NEW k \in Int, k <= Len(s)
    PROVE  StackOK(SubSeq(s, 1, k))
<1>1. s \in Seq(Frame) /\ Len(s) \in Nat
  BY LenProperties DEF StackOK
<1>2. PICK t : t = SubSeq(s, 1, k)
  OBVIOUS
<1>3. \A i \in 1 .. k : s[i] \in Frame
  BY <1>1
<1>4. /\ t \in Seq(Frame) /\ Len(t) = (IF 1 <= k THEN k - 1 + 1 ELSE 0)
      /\ \A i \in 1 .. k - 1 + 1 : t[i] = s[1 + i - 1]
  BY <1>2, <1>3, SubSeqProperties
<1>5. ASSUME NEW i \in 1 .. Len(t) PROVE FrameOK(t[i]) /\ (t[i].kind = "await" => i # 1)
  <2>1. i \in 1 .. Len(s) /\ t[i] = s[i]
    BY <1>1, <1>4
  <2>2. QED BY <2>1 DEF StackOK
<1>6. StackOK(t)
  BY <1>4, <1>5 DEF StackOK
<1>7. QED BY <1>2, <1>6

LEMMA OnTop ==
    ASSUME NEW s, StackOK(s), NEW f, FrameOK(f), f.kind = "await" => s # << >>
    PROVE  StackOK(Append(s, f))
<1>1. s \in Seq(Frame) /\ Len(s) \in Nat /\ f \in Frame
  BY LenProperties DEF StackOK, FrameOK
<1>2. s # << >> => Len(s) # 0
  BY <1>1, EmptySeq
<1>3. PICK t : t = Append(s, f)
  OBVIOUS
<1>4. /\ t \in Seq(Frame) /\ Len(t) = Len(s) + 1 /\ t[Len(s) + 1] = f
      /\ \A i \in 1 .. Len(s) : t[i] = s[i]
  BY <1>1, <1>3, AppendProperties
<1>5. ASSUME NEW i \in 1 .. Len(t) PROVE FrameOK(t[i]) /\ (t[i].kind = "await" => i # 1)
  <2>1. CASE i \in 1 .. Len(s)
    <3>1. t[i] = s[i]
      BY <1>4, <2>1
    <3>2. QED BY <2>1, <3>1 DEF StackOK
  <2>2. CASE i = Len(s) + 1
    <3>1. t[i] = f
      BY <1>4, <2>2
    <3>2. QED BY <1>1, <1>2, <2>2, <3>1
  <2>3. QED BY <1>1, <1>4, <2>1, <2>2
<1>6. StackOK(t)
  BY <1>4, <1>5 DEF StackOK
<1>7. QED BY <1>3, <1>6

(* Promise and job of a frame.                                             *)
LEMMA FrameParts ==
    ASSUME NEW f, FrameOK(f)
    PROVE  /\ f.kind \in {"callback", "resume"} => JobOK(f.job)
           /\ f.kind \in {"resolving", "getter", "async", "await"} => f.promise \in Promise
BY DEF FrameOK, Frame

LEMMA StackTop ==
    ASSUME StackOK(stack), stack # << >>
    PROVE  FrameOK(Top) /\ StackOK(Below) /\ Len(stack) \in Nat \ {0}
<1>1. PICK s : s = stack
  OBVIOUS
<1>2. s \in Seq(Frame) /\ Len(s) \in Nat \ {0}
  BY <1>1, EmptySeq DEF StackOK
<1>3. FrameOK(s[Len(s)])
  BY <1>1, <1>2 DEF StackOK
<1>4. PICK k : k = Len(s) - 1
  OBVIOUS
<1>5. StackOK(SubSeq(s, 1, k))
  BY <1>1, <1>2, <1>4, CutStack
<1>6. QED BY <1>1, <1>2, <1>3, <1>4, <1>5 DEF Top, Below

LEMMA MadeFrames ==
    ASSUME NEW p \in Promise, NEW kind \in {"resolving", "getter", "async", "await"}
    PROVE  /\ FrameOK([kind |-> kind, promise |-> p])
           /\ [kind |-> kind, promise |-> p].kind = kind
BY DEF FrameOK, Frame

LEMMA MadeJobFrames ==
    ASSUME NEW job, JobOK(job), NEW kind \in {"callback", "resume"}
    PROVE  /\ FrameOK([kind |-> kind, job |-> job])
           /\ [kind |-> kind, job |-> job].kind = kind
<1>1. job \in Job
  BY DEF JobOK
<1>2. PICK f : f = [kind |-> kind, job |-> job]
  OBVIOUS
<1>3. f \in Frame /\ f.kind = kind /\ f.job = job
  BY <1>1, <1>2 DEF Frame
<1>4. FrameOK(f)
  BY <1>3 DEF FrameOK
<1>5. QED BY <1>2, <1>3, <1>4

-----------------------------------------------------------------------------
(* The actions.                                                            *)

Running1 == {"script", "drain", "aborted"}

LEMMA StepKeeps ==
    ASSUME IInv, HeapStep, LiveInOrder', NEW s, StackOK(s), stack' = s,
           phase' \in Running1, capable' \subseteq Promise,
           origin' \in [Promise -> Origin], swallowed' \in BOOLEAN,
           Len(tasks') <= attached'
    PROVE  IInv' /\ KeepsSettled
<1>1. StackOK(s)'
  BY StackStays DEF IInv, HeapStep
<1>2. StackOK(stack)'
  <2>1. s \in Seq(Frame) /\ \A i \in 1 .. Len(s) : FrameOK(s[i])' /\ (s[i].kind = "await" => i # 1)
    BY <1>1 DEF StackOK
  <2>2. QED BY <2>1 DEF StackOK
<1>3. PhaseOK'
  BY DEF PhaseOK, Running1
<1>4. Others'
  BY DEF Others
<1>5. QED BY <1>2, <1>3, <1>4 DEF IInv, HeapStep, Grows

LEMMA LiveStepKeeps ==
    ASSUME IInv, LiveStep, NEW s, StackOK(s), stack' = s,
           phase' \in Running1, capable' \subseteq Promise,
           origin' = origin, swallowed' \in BOOLEAN, Len(tasks') = Len(tasks)
    PROVE  IInv' /\ KeepsSettled
<1>1. LiveInOrder'
  BY DEF IInv, LiveInOrder, LiveStep
<1>2. Len(tasks') <= attached'
  <2>1. Len(tasks) \in Nat /\ Len(tasks) <= attached /\ attached \in Nat /\ attached' \in Nat
    BY LenProperties, ProgramsAssumption, BoundsAssumption
       DEF IInv, HeapOK, Others, LiveStep, HeapStep
  <2>2. QED BY <2>1 DEF LiveStep, HeapStep
<1>3. QED BY <1>1, <1>2, StepKeeps DEF IInv, Others, LiveStep

(* Where code or jobs run, the phase is not one of the last.               *)
LEMMA RunsCode ==
    ASSUME IInv, UserCode \/ stack # << >> \/ MayRunJob
    PROVE  phase \in Running1
BY DEF IInv, PhaseOK, Running1, UserCode, MayRunJob, TopIs

LEMMA Same ==
    ASSUME IInv, UNCHANGED <<tasks, program>>
    PROVE  SameProgram /\ Len(tasks') = Len(tasks)
<1>1. tasks \in Seq(Task) /\ Len(tasks) \in Nat
  BY LenProperties DEF IInv, HeapOK
<1>2. QED BY <1>1 DEF SameProgram

(* The next promise.                                                       *)
LEMMA NextHandle ==
    ASSUME IInv, NEW p \in Promise, NEW how \in Origin, Create(p, how)
    PROVE  /\ state[p] = "free" /\ state[p] \notin Settled /\ p \notin Live
           /\ origin' \in [Promise -> Origin]
           /\ phase' \in Running1 /\ swallowed' \in BOOLEAN /\ program' = program
           /\ Makes(p) => LiveInOrder'
<1>1. PICK n \in 0 .. MaxPromises : Live = 1 .. n
  BY DEF IInv, LiveInOrder
<1>2. p = n + 1
  <2>1. n \in Nat /\ Cardinality(1 .. n) = n
    BY <1>1, BoundsAssumption, FS_Interval
  <2>2. QED BY <1>1, <2>1 DEF Create
<1>3. p \notin Live /\ state[p] = "free"
  BY <1>1, <1>2, BoundsAssumption DEF Live
<1>4. Makes(p) => LiveInOrder'
  <2> SUFFICES ASSUME Makes(p) PROVE LiveInOrder'
    OBVIOUS
  <2>1. Live' = 1 .. n + 1
    BY <1>1, <1>2, BoundsAssumption DEF Makes
  <2>2. n + 1 \in 0 .. MaxPromises
    BY <1>1, <1>2, BoundsAssumption DEF Promise
  <2>3. QED BY <2>1, <2>2 DEF LiveInOrder
<1>5. origin' \in [Promise -> Origin]
  BY DEF Create, IInv, Others
<1>6. phase' \in Running1 /\ swallowed' \in BOOLEAN /\ program' = program
  BY RunsCode DEF Create, IInv, Others
<1>7. QED BY <1>3, <1>4, <1>5, <1>6 DEF Settled

LEMMA PendingOK ==
    ASSUME HeapOK, QueueOK(jobs), SameProgram, NEW p \in Promise, state[p] = "free", Pending(p)
    PROVE  HeapStep /\ Makes(p)
<1>1. /\ state' = [state EXCEPT ![p] = "pending"]
      /\ UNCHANGED <<result, reactions, jobs, handled, reported, events, attached>>
  BY DEF Pending, tracking
<1>2. Grows
  BY <1>1 DEF Grows, KeepsSettled, HeapOK, Settled
<1>3. QueueOK(jobs)'
  <2>1. PICK q : q = jobs
    OBVIOUS
  <2>2. QueueOK(q)'
    BY <1>2, <2>1, QueueStays
  <2>3. q \in Seq(Job) /\ \A i \in 1 .. Len(q) : JobOK(q[i])'
    BY <2>2 DEF QueueOK
  <2>4. QED BY <1>1, <2>1, <2>3 DEF QueueOK
<1>4. ASSUME NEW o \in Promise PROVE ListOK(o)'
  <2>1. PICK rs : rs = reactions[o]
    OBVIOUS
  <2>2. \A i \in 1 .. Len(rs) : ReactionOK(rs[i]) /\ rs[i].source = o
    BY <2>1 DEF HeapOK, ListOK
  <2>3. \A i \in 1 .. Len(rs) : ReactionOK(rs[i])'
    BY <1>2, <2>2, ReactionStays
  <2>4. QED BY <1>1, <2>1, <2>2, <2>3 DEF ListOK
<1>5. state' \in [Promise -> State] /\ Makes(p)
  BY <1>1 DEF HeapOK, State, Makes, Live
<1>6. FulfilledNeverPromise' /\ NoReactionLeftBehind' /\ ReportsOK'
  BY <1>1 DEF HeapOK, FulfilledNeverPromise, NoReactionLeftBehind, ReportsOK
<1>7. HeapOK'
  BY <1>1, <1>4, <1>5, <1>6 DEF HeapOK, SameProgram
<1>8. attached <= attached'
  BY <1>1, ProgramsAssumption, BoundsAssumption DEF HeapOK
<1>9. QED BY <1>2, <1>3, <1>5, <1>7, <1>8 DEF HeapStep

(* A new promise, with the heap step that made it.                         *)
LEMMA CreateKeeps ==
    ASSUME IInv, NEW p \in Promise, NEW how \in Origin, Create(p, how),
           HeapStep, Makes(p), NEW s, StackOK(s), stack' = s,
           capable' \subseteq Promise, Len(tasks') <= attached'
    PROVE  IInv' /\ KeepsSettled
BY NextHandle, StepKeeps

LEMMA TasksStayBelow ==
    ASSUME IInv, HeapStep, tasks' = tasks
    PROVE  Len(tasks') <= attached'
<1>1. Len(tasks) \in Nat /\ Len(tasks) <= attached /\ attached \in Nat /\ attached' \in Nat
  BY LenProperties, ProgramsAssumption, BoundsAssumption DEF IInv, HeapOK, Others, HeapStep
<1>2. QED BY <1>1 DEF HeapStep

(* resolve_into of an object: a frame is pushed for its then.              *)
LEMMA ResolveObjectFrames ==
    ASSUME NEW p \in Promise, NEW s, StackOK(s), capable \subseteq Promise, ResolveObject(p, s)
    PROVE  /\ capable' \subseteq Promise
           /\ \E t : StackOK(t) /\ stack' = t
<1>1. CASE CallThen(p, s)
  <2>1. stack' = Append(s, [kind |-> "resolving", promise |-> p]) /\ capable' \subseteq Promise
    BY <1>1 DEF CallThen
  <2>2. StackOK(Append(s, [kind |-> "resolving", promise |-> p]))
    BY MadeFrames, OnTop
  <2>3. QED BY <2>1, <2>2
<1>2. CASE ReadThen(p, s)
  <2>1. stack' = Append(s, [kind |-> "getter", promise |-> p]) /\ capable' \subseteq Promise
    BY <1>2 DEF ReadThen
  <2>2. StackOK(Append(s, [kind |-> "getter", promise |-> p]))
    BY MadeFrames, OnTop
  <2>3. QED BY <2>1, <2>2
<1>3. QED BY <1>1, <1>2 DEF ResolveObject

LEMMA MakePromiseKeeps ==
    ASSUME IInv, NEW p \in Promise,
           \/ NewPromise(p) \/ PromiseResolveObject(p) \/ AsyncCall(p)
           \/ \E v \in Value : PromiseResolve(p, v) \/ PromiseReject(p, v)
    PROVE  IInv' /\ KeepsSettled
<1>1. PICK q : q = jobs
  OBVIOUS
<1>2. PICK s : s = stack
  OBVIOUS
<1>3. HeapOK /\ QueueOK(jobs) /\ QueueOK(q) /\ StackOK(s) /\ StackOK(stack) /\ capable \subseteq Promise
  BY <1>1, <1>2 DEF IInv, Others
<1>4. CASE NewPromise(p)
  <2>1. /\ Create(p, "constructor") /\ Pending(p) /\ capable' \subseteq Promise /\ tasks' = tasks
        /\ stack' = Append(s, [kind |-> "resolving", promise |-> p])
    BY <1>2, <1>3, <1>4 DEF NewPromise, Push
  <2>2. "constructor" \in Origin
    BY DEF Origin
  <2>3. state[p] = "free" /\ SameProgram
    BY <2>1, <2>2, NextHandle, Same
  <2>4. HeapStep /\ Makes(p)
    BY <1>3, <2>1, <2>3, PendingOK
  <2>5. StackOK(Append(s, [kind |-> "resolving", promise |-> p]))
    BY <1>3, MadeFrames, OnTop
  <2>6. QED BY <2>1, <2>2, <2>4, <2>5, TasksStayBelow, CreateKeeps
<1>5. CASE PromiseResolveObject(p)
  <2>1. Create(p, "static") /\ Pending(p) /\ ResolveObject(p, s) /\ tasks' = tasks
    BY <1>2, <1>5 DEF PromiseResolveObject
  <2>2. "static" \in Origin
    BY DEF Origin
  <2>3. state[p] = "free" /\ SameProgram
    BY <2>1, <2>2, NextHandle, Same
  <2>4. HeapStep /\ Makes(p)
    BY <1>3, <2>1, <2>3, PendingOK
  <2>5. PICK t : capable' \subseteq Promise /\ StackOK(t) /\ stack' = t
    BY <1>3, <2>1, ResolveObjectFrames
  <2>6. QED BY <2>1, <2>2, <2>4, <2>5, TasksStayBelow, CreateKeeps
<1>6. CASE AsyncCall(p)
  <2>1. /\ Create(p, "async") /\ Pending(p) /\ capable' = capable /\ tasks' = tasks
        /\ stack' = Append(s, [kind |-> "async", promise |-> p])
    BY <1>2, <1>6 DEF AsyncCall, Push
  <2>2. "async" \in Origin
    BY DEF Origin
  <2>3. state[p] = "free" /\ SameProgram
    BY <2>1, <2>2, NextHandle, Same
  <2>4. HeapStep /\ Makes(p)
    BY <1>3, <2>1, <2>3, PendingOK
  <2>5. StackOK(Append(s, [kind |-> "async", promise |-> p]))
    BY <1>3, MadeFrames, OnTop
  <2>6. QED BY <1>3, <2>1, <2>2, <2>4, <2>5, TasksStayBelow, CreateKeeps
<1>7. ASSUME NEW v \in Value, PromiseResolve(p, v) PROVE IInv' /\ KeepsSettled
  <2>1. /\ v \in Plain /\ Create(p, "static") /\ ResolveInto(p, v, q)
        /\ capable' = capable /\ tasks' = tasks /\ stack' = s
    BY <1>1, <1>2, <1>7 DEF PromiseResolve
  <2>2. "static" \in Origin
    BY DEF Origin
  <2>3. state[p] = "free" /\ SameProgram
    BY <2>1, <2>2, NextHandle, Same
  <2>4. v \notin Promise
    BY <2>1, ValuesAssumption
  <2>5. HeapStep /\ Makes(p)
    BY <1>3, <2>1, <2>3, <2>4, ResolveIntoOK DEF Settled
  <2>6. QED BY <1>3, <2>1, <2>2, <2>5, TasksStayBelow, CreateKeeps
<1>8. ASSUME NEW v \in Value, PromiseReject(p, v) PROVE IInv' /\ KeepsSettled
  <2>1. /\ Create(p, "static") /\ Settle(p, "rejected", v, q)
        /\ capable' = capable /\ tasks' = tasks /\ stack' = s
    BY <1>1, <1>2, <1>8 DEF PromiseReject
  <2>2. "static" \in Origin
    BY DEF Origin
  <2>3. state[p] = "free" /\ SameProgram
    BY <2>1, <2>2, NextHandle, Same
  <2>5. HeapStep /\ Makes(p)
    BY <1>3, <2>1, <2>3, SettleOK DEF Settled
  <2>6. QED BY <1>3, <2>1, <2>2, <2>5, TasksStayBelow, CreateKeeps
<1>9. QED BY <1>4, <1>5, <1>6, <1>7, <1>8

(* Steps that make no promise and leave the tasks alone.                   *)
LEMMA CallKeeps ==
    ASSUME IInv, LiveStep, UNCHANGED <<tasks, origin>>, NEW s, StackOK(s), stack' = s,
           phase' \in Running1, capable' \subseteq Promise, swallowed' \in BOOLEAN
    PROVE  IInv' /\ KeepsSettled
BY LiveStepKeeps

LEMMA HeldValues ==
    ASSUME NEW v \in Held
    PROVE  v \in Value /\ (v \in Promise => v \in Live)
BY ValuesAssumption DEF Held, Value, Live

LEMMA ReasonValues == \A v \in Reason : v \in Value
BY DEF Reason, Held, Value, Live

(* A step that leaves the heap alone.                                      *)
LEMMA FrameStepKeeps ==
    ASSUME IInv, UNCHANGED <<cells, tracking, jobs, tasks, origin, attached, program>>,
           NEW s, StackOK(s), stack' = s,
           phase' \in Running1, capable' \subseteq Promise, swallowed' \in BOOLEAN
    PROVE  IInv' /\ KeepsSettled
<1>1. PICK q : q = jobs
  OBVIOUS
<1>2. HeapOK /\ QueueOK(q) /\ SameProgram
  BY <1>1, Same DEF IInv
<1>3. LiveStep
  BY <1>1, <1>2, NothingOK DEF LiveStep
<1>4. QED BY <1>3, CallKeeps

LEMMA UsePromiseKeeps ==
    ASSUME IInv, NEW p \in Promise,
           \/ CallResolveObject(p)
           \/ \E v \in Value : CallResolve(p, v) \/ CallReject(p, v)
    PROVE  IInv' /\ KeepsSettled
<1>1. PICK q : q = jobs
  OBVIOUS
<1>2. PICK s : s = stack
  OBVIOUS
<1>3. /\ HeapOK /\ QueueOK(q) /\ StackOK(s) /\ capable \subseteq Promise /\ swallowed \in BOOLEAN
  BY <1>1, <1>2 DEF IInv, Others
<1>4. CASE CallResolveObject(p)
  <2>1. ResolveObject(p, s) /\ UserCode
        /\ UNCHANGED <<cells, tracking, jobs, tasks, origin, phase, attached, swallowed, program>>
    BY <1>2, <1>4 DEF CallResolveObject
  <2>2. PICK t : capable' \subseteq Promise /\ StackOK(t) /\ stack' = t
    BY <1>3, <2>1, ResolveObjectFrames
  <2>3. phase' \in Running1 /\ swallowed' \in BOOLEAN
    BY <1>3, <2>1, RunsCode
  <2>4. QED BY <2>1, <2>2, <2>3, FrameStepKeeps
<1>5. ASSUME NEW v \in Value, CallResolve(p, v) PROVE IInv' /\ KeepsSettled
  <2>1. /\ UserCode /\ v \in Held /\ IfPending(p, q, ResolveInto(p, v, q))
        /\ UNCHANGED <<tasks, capable, origin, stack, phase, swallowed, program>>
    BY <1>1, <1>5 DEF CallResolve
  <2>2. LiveStep
    BY <1>3, <2>1, Same, HeldValues, IfPendingResolves
  <2>3. phase' \in Running1 /\ stack' = s
    BY <1>2, <2>1, RunsCode
  <2>4. QED BY <1>3, <2>1, <2>2, <2>3, CallKeeps
<1>6. ASSUME NEW v \in Value, CallReject(p, v) PROVE IInv' /\ KeepsSettled
  <2>1. /\ UserCode /\ IfPending(p, q, Settle(p, "rejected", v, q))
        /\ UNCHANGED <<tasks, capable, origin, stack, phase, swallowed, program>>
    BY <1>1, <1>6 DEF CallReject
  <2>2. LiveStep
    BY <1>3, <2>1, Same, IfPendingSettles DEF Settled
  <2>3. phase' \in Running1 /\ stack' = s
    BY <1>2, <2>1, RunsCode
  <2>4. QED BY <1>3, <2>1, <2>2, <2>3, CallKeeps
<1>7. QED BY <1>4, <1>5, <1>6

LEMMA ThenKeeps ==
    ASSUME IInv, NEW src \in Promise, NEW f \in {NoHandler, UserHandler},
           NEW r \in {NoHandler, UserHandler}, NEW finally \in BOOLEAN, NEW next \in Promise,
           Then(src, f, r, finally, next)
    PROVE  IInv' /\ KeepsSettled
<1>1. PICK q : q = jobs
  OBVIOUS
<1>2. PICK s : s = stack
  OBVIOUS
<1>3. HeapOK /\ QueueOK(q) /\ StackOK(s) /\ capable \subseteq Promise
  BY <1>1, <1>2 DEF IInv, Others
<1>4. /\ src \in Live /\ Create(next, "then") /\ Attach(src, f, r, next, finally, q)
      /\ tasks' = tasks /\ capable' = capable /\ stack' = s
  BY <1>1, <1>2 DEF Then
<1>5. "then" \in Origin
  BY DEF Origin
<1>6. SameProgram
  BY <1>4, <1>5, NextHandle, Same
<1>7. /\ f \in Handler /\ r \in Handler /\ FitsOutcome(f, FALSE)' /\ FitsOutcome(r, TRUE)'
  BY DEF Handler, FitsOutcome, NoHandler, UserHandler
<1>8. HeapStep /\ Makes(next)
  BY <1>3, <1>4, <1>6, <1>7, AttachOK
<1>9. QED BY <1>3, <1>4, <1>5, <1>8, TasksStayBelow, CreateKeeps

LEMMA NestedAwaitKeeps ==
    ASSUME IInv, NEW src \in Promise, NestedAwait(src)
    PROVE  IInv' /\ KeepsSettled
<1>1. PICK s : s = stack
  OBVIOUS
<1>2. StackOK(s) /\ capable \subseteq Promise /\ swallowed \in BOOLEAN
  BY <1>1 DEF IInv, Others
<1>3. /\ s # << >> /\ stack' = Append(s, [kind |-> "await", promise |-> src])
      /\ UNCHANGED <<cells, tracking, jobs, tasks, capable, origin, phase, attached, swallowed, program>>
  BY <1>1 DEF NestedAwait, Push, InAsync, TopIs
<1>4. StackOK(Append(s, [kind |-> "await", promise |-> src]))
  BY <1>2, <1>3, MadeFrames, OnTop
<1>5. phase' \in Running1
  BY <1>1, <1>3, RunsCode
<1>6. QED BY <1>2, <1>3, <1>4, <1>5, FrameStepKeeps

(* What the steps of a frame on top start from.                            *)
LEMMA FrameOnTop ==
    ASSUME IInv, NEW kind, TopIs(kind)
    PROVE  /\ stack # << >> /\ Top.kind = kind /\ FrameOK(Top) /\ StackOK(Below)
           /\ kind \in {"callback", "resume"} => JobOK(Top.job)
           /\ kind \in {"resolving", "getter", "async", "await"} => Top.promise \in Promise
           /\ phase \in Running1
           /\ HeapOK /\ QueueOK(jobs) /\ capable \subseteq Promise /\ swallowed \in BOOLEAN
<1>1. stack # << >> /\ Top.kind = kind /\ StackOK(stack)
  BY DEF TopIs, IInv
<1>2. FrameOK(Top) /\ StackOK(Below)
  BY <1>1, StackTop
<1>3. PICK f : f = Top
  OBVIOUS
<1>4. /\ f.kind \in {"callback", "resume"} => JobOK(f.job)
      /\ f.kind \in {"resolving", "getter", "async", "await"} => f.promise \in Promise
  BY <1>2, <1>3, FrameParts
<1>5. phase \in Running1
  BY <1>1, RunsCode
<1>6. QED BY <1>1, <1>2, <1>3, <1>4, <1>5 DEF IInv, Others

LEMMA ResumeParts ==
    ASSUME NEW k \in TaskId, NEW b \in BOOLEAN
    PROVE  /\ Resume(k, b) \in Handler
           /\ Resume(k, b).kind = "resume"
           /\ Resume(k, b).task = k /\ Resume(k, b).rejected = b
<1>1. Resume(k, b) \in Handler
  BY DEF Handler
<1>2. QED BY <1>1 DEF Resume

(* The await that is a statement makes a task and a reaction to resume it. *)
LEMMA DirectAwaitKeeps ==
    ASSUME IInv, NEW src \in Promise, NEW ignored \in Promise,
           NEW action \in {"continue", "return"}, DirectAwait(src, action, ignored)
    PROVE  IInv' /\ KeepsSettled
<1>1. PICK q : q = jobs
  OBVIOUS
<1>2. PICK s : s = Below
  OBVIOUS
<1>3. PICK task : task = [live |-> TRUE, promise |-> Top.promise, action |-> action]
  OBVIOUS
<1>4. PICK k : k = Len(tasks) + 1
  OBVIOUS
<1>5. /\ TopIs("async") /\ src \in Live /\ Create(ignored, "ignored")
      /\ tasks' = Append(tasks, task)
      /\ Attach(src, Resume(k, FALSE), Resume(k, TRUE), ignored, FALSE, q)
      /\ stack' = s /\ capable' = capable
  BY <1>1, <1>2, <1>3, <1>4 DEF DirectAwait, InAsync, Pop
<1>6. "ignored" \in Origin
  BY DEF Origin
<1>7. Top.promise \in Promise /\ StackOK(s) /\ HeapOK /\ QueueOK(q) /\ capable \subseteq Promise
  BY <1>1, <1>2, <1>5, FrameOnTop
<1>8. task \in Task
  BY <1>3, <1>7 DEF Task
<1>9. tasks \in Seq(Task) /\ Len(tasks) \in Nat
  BY <1>7, LenProperties DEF HeapOK
<1>10. tasks' \in Seq(Task) /\ Len(tasks') = k
  BY <1>4, <1>5, <1>8, <1>9, AppendProperties
<1>11. SameProgram
  BY <1>4, <1>5, <1>6, <1>9, <1>10, NextHandle DEF SameProgram
<1>12. /\ Len(tasks) <= attached /\ attached < program.reactions /\ program.reactions <= MaxReactions
       /\ attached \in Nat /\ program.reactions \in Nat
  BY <1>5, <1>7, ProgramsAssumption, BoundsAssumption DEF IInv, Others, HeapOK, Attach
<1>13. k \in TaskId
  BY <1>4, <1>9, <1>12, BoundsAssumption DEF TaskId
<1>14. FitsOutcome(Resume(k, FALSE), FALSE)' /\ FitsOutcome(Resume(k, TRUE), TRUE)'
  <2>1. k \in 1 .. Len(tasks')
    BY <1>4, <1>9, <1>10
  <2>2. QED BY <1>13, <2>1, ResumeParts DEF FitsOutcome
<1>15. HeapStep /\ Makes(ignored) /\ attached' = attached + 1
  BY <1>5, <1>7, <1>11, <1>13, <1>14, ResumeParts, AttachOK
<1>16. Len(tasks') <= attached'
  BY <1>4, <1>9, <1>10, <1>12, <1>15
<1>17. QED BY <1>5, <1>6, <1>7, <1>15, <1>16, CreateKeeps

(* A frame ends and settles the promise p it was for, or not.              *)
LEMMA PopKeeps ==
    ASSUME IInv, NEW kind, TopIs(kind), LiveStep, Pop,
           UNCHANGED <<tasks, capable, origin, phase, swallowed>>
    PROVE  IInv' /\ KeepsSettled
<1>1. PICK s : s = Below
  OBVIOUS
<1>2. StackOK(s) /\ stack' = s
  BY <1>1, FrameOnTop DEF Pop
<1>3. phase' \in Running1 /\ capable' \subseteq Promise /\ swallowed' \in BOOLEAN
  BY FrameOnTop
<1>4. QED BY <1>2, <1>3, CallKeeps

LEMMA AsyncBodyKeeps ==
    ASSUME IInv, AsyncReturnObject \/ \E v \in Value : AsyncReturn(v) \/ AsyncThrow(v)
    PROVE  IInv' /\ KeepsSettled
<1>1. PICK q : q = jobs
  OBVIOUS
<1>2. PICK s : s = Below
  OBVIOUS
<1>3. PICK p : p = Top.promise
  OBVIOUS
<1>4. TopIs("async")
  BY DEF AsyncReturnObject, AsyncReturn, AsyncThrow, InAsync
<1>5. /\ p \in Promise /\ StackOK(s) /\ HeapOK /\ QueueOK(q) /\ capable \subseteq Promise
      /\ swallowed \in BOOLEAN /\ phase \in Running1
  BY <1>1, <1>2, <1>3, <1>4, FrameOnTop
<1>6. CASE AsyncReturnObject
  <2>1. /\ ResolveObject(p, s)
        /\ UNCHANGED <<cells, tracking, jobs, tasks, origin, phase, attached, swallowed, program>>
    BY <1>2, <1>3, <1>6 DEF AsyncReturnObject
  <2>2. PICK t : capable' \subseteq Promise /\ StackOK(t) /\ stack' = t
    BY <1>5, <2>1, ResolveObjectFrames
  <2>3. QED BY <1>5, <2>1, <2>2, FrameStepKeeps
<1>7. ASSUME NEW v \in Value, AsyncReturn(v) PROVE IInv' /\ KeepsSettled
  <2>1. /\ v \in Held /\ IfPending(p, q, ResolveInto(p, v, q)) /\ Pop
        /\ UNCHANGED <<tasks, capable, origin, phase, swallowed, program>>
    BY <1>1, <1>3, <1>7 DEF AsyncReturn
  <2>2. LiveStep
    BY <1>5, <2>1, Same, HeldValues, IfPendingResolves
  <2>3. QED BY <1>4, <2>1, <2>2, PopKeeps
<1>8. ASSUME NEW v \in Value, AsyncThrow(v) PROVE IInv' /\ KeepsSettled
  <2>1. /\ IfPending(p, q, Settle(p, "rejected", v, q)) /\ Pop
        /\ UNCHANGED <<tasks, capable, origin, phase, swallowed, program>>
    BY <1>1, <1>3, <1>8 DEF AsyncThrow
  <2>2. LiveStep
    BY <1>5, <2>1, Same, IfPendingSettles DEF Settled
  <2>3. QED BY <1>4, <2>1, <2>2, PopKeeps
<1>9. QED BY <1>6, <1>7, <1>8

LEMMA ResolvingKeeps ==
    ASSUME IInv,
           \/ ResolvingReturns \/ GetterReturnsFunction \/ GetterReturnsOther
           \/ \E v \in Value : ResolvingThrows(v)
    PROVE  IInv' /\ KeepsSettled
<1>1. PICK q : q = jobs
  OBVIOUS
<1>2. PICK s : s = Below
  OBVIOUS
<1>3. PICK p : p = Top.promise
  OBVIOUS
<1>4. PICK kind \in {"resolving", "getter"} : TopIs(kind)
  BY DEF ResolvingReturns, GetterReturnsFunction, GetterReturnsOther, ResolvingThrows
<1>5. /\ p \in Promise /\ StackOK(s) /\ HeapOK /\ QueueOK(q) /\ capable \subseteq Promise
      /\ swallowed \in BOOLEAN /\ phase \in Running1
  BY <1>1, <1>2, <1>3, <1>4, FrameOnTop
<1>6. CASE ResolvingReturns
  <2>1. /\ stack' = s
        /\ UNCHANGED <<cells, tracking, jobs, tasks, capable, origin, phase, attached, swallowed, program>>
    BY <1>2, <1>6 DEF ResolvingReturns, Pop
  <2>2. QED BY <1>5, <2>1, FrameStepKeeps
<1>7. CASE GetterReturnsFunction
  <2>1. /\ CallThen(p, s)
        /\ UNCHANGED <<cells, tracking, jobs, tasks, origin, phase, attached, swallowed, program>>
    BY <1>2, <1>3, <1>7 DEF GetterReturnsFunction
  <2>2. stack' = Append(s, [kind |-> "resolving", promise |-> p]) /\ capable' \subseteq Promise
    BY <1>5, <2>1 DEF CallThen
  <2>3. StackOK(Append(s, [kind |-> "resolving", promise |-> p]))
    BY <1>5, MadeFrames, OnTop
  <2>4. QED BY <1>5, <2>1, <2>2, <2>3, FrameStepKeeps
<1>8. CASE GetterReturnsOther
  <2>1. /\ IfPending(p, q, Settle(p, "fulfilled", Undefined, q)) /\ Pop
        /\ UNCHANGED <<tasks, capable, origin, phase, swallowed, program>>
    BY <1>1, <1>3, <1>8 DEF GetterReturnsOther
  <2>2. Undefined \in Value /\ Undefined \notin Promise
    BY ValuesAssumption DEF Value
  <2>3. LiveStep
    BY <1>5, <2>1, <2>2, Same, IfPendingSettles DEF Settled
  <2>4. QED BY <1>4, <2>1, <2>3, PopKeeps
<1>9. ASSUME NEW v \in Value, ResolvingThrows(v) PROVE IInv' /\ KeepsSettled
  <2>1. /\ IfPending(p, q, Settle(p, "rejected", v, q)) /\ Pop
        /\ UNCHANGED <<tasks, capable, origin, phase, swallowed, program>>
    BY <1>1, <1>3, <1>9 DEF ResolvingThrows
  <2>2. LiveStep
    BY <1>5, <2>1, Same, IfPendingSettles DEF Settled
  <2>3. QED BY <1>4, <2>1, <2>2, PopKeeps
<1>10. QED BY <1>6, <1>7, <1>8, <1>9

LEMMA CallbackKeeps ==
    ASSUME IInv, ResumeDone \/ \E v \in Value : CallbackReturns(v) \/ CallbackThrows(v)
    PROVE  IInv' /\ KeepsSettled
<1>1. PICK q : q = jobs
  OBVIOUS
<1>2. PICK job : job = Top.job
  OBVIOUS
<1>3. PICK kind \in {"callback", "resume"} : TopIs(kind)
  BY DEF ResumeDone, CallbackReturns, CallbackThrows
<1>4. JobOK(job) /\ HeapOK /\ QueueOK(q)
  BY <1>1, <1>2, <1>3, FrameOnTop
<1>5. CASE ResumeDone
  <2>1. Complete(job, Undefined, q) /\ Pop
        /\ UNCHANGED <<tasks, capable, origin, phase, swallowed, program>>
    BY <1>1, <1>2, <1>5 DEF ResumeDone
  <2>2. Undefined \in Value /\ Undefined \notin Promise
    BY ValuesAssumption DEF Value
  <2>3. LiveStep
    BY <1>4, <2>1, <2>2, Same, CompleteOK
  <2>4. QED BY <1>3, <2>1, <2>3, PopKeeps
<1>6. ASSUME NEW v \in Value, CallbackReturns(v) PROVE IInv' /\ KeepsSettled
  <2>1. v \in Held /\ Complete(job, v, q) /\ Pop
        /\ UNCHANGED <<tasks, capable, origin, phase, swallowed, program>>
    BY <1>1, <1>2, <1>6 DEF CallbackReturns
  <2>2. LiveStep
    BY <1>4, <2>1, Same, HeldValues, CompleteOK
  <2>3. QED BY <1>3, <2>1, <2>2, PopKeeps
<1>7. ASSUME NEW v \in Value, CallbackThrows(v) PROVE IInv' /\ KeepsSettled
  <2>1. PICK next : next = job.reaction.next
    OBVIOUS
  <2>2. IfPending(next, q, Settle(next, "rejected", v, q)) /\ Pop
        /\ UNCHANGED <<tasks, capable, origin, phase, swallowed, program>>
    BY <1>1, <1>2, <1>7, <2>1 DEF CallbackThrows
  <2>3. next \in Promise
    BY <1>4, <2>1, JobParts
  <2>4. LiveStep
    BY <1>4, <2>2, <2>3, Same, IfPendingSettles DEF Settled
  <2>5. QED BY <1>3, <2>2, <2>4, PopKeeps
<1>8. QED BY <1>5, <1>6, <1>7

-----------------------------------------------------------------------------
(* Jobs.                                                                   *)

LEMMA JobToRun ==
    ASSUME IInv, MayRunJob
    PROVE  /\ JobOK(Next1) /\ QueueOK(Rest) /\ HeapOK /\ StackOK(stack)
           /\ phase \in Running1 /\ capable \subseteq Promise /\ swallowed \in BOOLEAN
<1>1. jobs # << >> /\ QueueOK(jobs)
  BY DEF MayRunJob, IInv
<1>2. QED BY <1>1, NextJob, RunsCode DEF IInv, Others

(* The handler of a job was made for its state.                            *)
LEMMA CallbackFits ==
    ASSUME HeapOK, NEW job, JobOK(job)
    PROVE  /\ Callback(job) \in Handler
           /\ FitsOutcome(Callback(job), job.state = "rejected")
<1>1. job.state \in Settled
  BY JobParts
<1>2. CASE job.state = "fulfilled"
  <2>1. Callback(job) = job.reaction.fulfilled /\ (job.state = "rejected") = FALSE
    BY <1>2 DEF Callback
  <2>2. QED BY <2>1, JobParts
<1>3. CASE job.state = "rejected"
  <2>1. Callback(job) = job.reaction.rejected /\ (job.state = "rejected") = TRUE
    BY <1>3 DEF Callback
  <2>2. QED BY <2>1, JobParts
<1>4. QED BY <1>1, <1>2, <1>3 DEF Settled

LEMMA HandlerParts ==
    ASSUME NEW h \in Handler
    PROVE  /\ h.kind = "resume" => h.task \in TaskId /\ h.rejected \in BOOLEAN
           /\ h.kind = "preserve" => h.original \in Value /\ h.rejected \in BOOLEAN
<1>1. CASE h \in {NoHandler, UserHandler}
  BY <1>1 DEF NoHandler, UserHandler
<1>2. CASE \E k \in TaskId, b \in BOOLEAN : h = Resume(k, b)
  BY <1>2, ResumeParts
<1>3. CASE \E v \in Value, b \in BOOLEAN : h = Preserve(v, b)
  BY <1>3, PreserveParts
<1>4. QED BY <1>1, <1>2, <1>3 DEF Handler

LEMMA JobPassesOnKeeps ==
    ASSUME IInv, JobPassesOn
    PROVE  IInv' /\ KeepsSettled
<1>1. PICK q : q = Rest
  OBVIOUS
<1>2. PICK job : job = Next1
  OBVIOUS
<1>3. PICK s : s = stack
  OBVIOUS
<1>4. PICK next : next = job.reaction.next
  OBVIOUS
<1>5. /\ MayRunJob /\ IfPending(next, q, Settle(next, job.state, job.value, q))
      /\ UNCHANGED <<tasks, capable, origin, stack, phase, swallowed, program>>
  BY <1>1, <1>2, <1>4 DEF JobPassesOn, JobIs
<1>6. /\ JobOK(job) /\ QueueOK(q) /\ HeapOK /\ StackOK(s) /\ stack' = s
      /\ phase' \in Running1 /\ capable' \subseteq Promise /\ swallowed' \in BOOLEAN
  BY <1>1, <1>2, <1>3, <1>5, JobToRun
<1>7. /\ next \in Promise /\ job.state \in Settled /\ job.value \in Value
      /\ job.state = "fulfilled" => job.value \notin Promise
  BY <1>4, <1>6, JobParts
<1>8. LiveStep
  BY <1>5, <1>6, <1>7, Same, IfPendingSettles
<1>9. QED BY <1>5, <1>6, <1>8, CallKeeps

LEMMA JobCallsUserKeeps ==
    ASSUME IInv, JobCallsUser
    PROVE  IInv' /\ KeepsSettled
<1>1. PICK q : q = Rest
  OBVIOUS
<1>2. PICK job : job = Next1
  OBVIOUS
<1>3. PICK s : s = stack
  OBVIOUS
<1>4. /\ MayRunJob /\ stack' = Append(s, [kind |-> "callback", job |-> job]) /\ jobs' = q
      /\ UNCHANGED <<cells, tracking, tasks, capable, origin, phase, attached, swallowed, program>>
  BY <1>1, <1>2, <1>3 DEF JobCallsUser, JobIs, Push
<1>5. /\ JobOK(job) /\ QueueOK(q) /\ HeapOK /\ StackOK(s)
      /\ phase' \in Running1 /\ capable' \subseteq Promise /\ swallowed' \in BOOLEAN
  BY <1>1, <1>2, <1>3, <1>4, JobToRun
<1>6. LiveStep
  BY <1>4, <1>5, Same, NothingOK DEF LiveStep
<1>7. StackOK(Append(s, [kind |-> "callback", job |-> job]))
  BY <1>5, MadeJobFrames, OnTop
<1>8. QED BY <1>4, <1>5, <1>6, <1>7, CallKeeps

LEMMA JobPreservesKeeps ==
    ASSUME IInv, JobPreserves
    PROVE  IInv' /\ KeepsSettled
<1>1. PICK q : q = Rest
  OBVIOUS
<1>2. PICK job : job = Next1
  OBVIOUS
<1>3. PICK s : s = stack
  OBVIOUS
<1>4. PICK next : next = job.reaction.next
  OBVIOUS
<1>5. PICK h : h = Callback(job)
  OBVIOUS
<1>6. /\ MayRunJob /\ h.kind = "preserve"
      /\ IF h.rejected THEN IfPending(next, q, Settle(next, "rejected", h.original, q))
                       ELSE Complete(job, h.original, q)
      /\ UNCHANGED <<tasks, capable, origin, stack, phase, swallowed, program>>
  BY <1>1, <1>2, <1>4, <1>5 DEF JobPreserves, JobIs
<1>7. /\ JobOK(job) /\ QueueOK(q) /\ HeapOK /\ StackOK(s) /\ stack' = s
      /\ phase' \in Running1 /\ capable' \subseteq Promise /\ swallowed' \in BOOLEAN
  BY <1>1, <1>2, <1>3, <1>6, JobToRun
<1>8. next \in Promise /\ h.original \in Value /\ h.rejected \in BOOLEAN
  BY <1>4, <1>5, <1>6, <1>7, JobParts, CallbackFits, HandlerParts
<1>9. CASE h.rejected = TRUE
  <2>1. IfPending(next, q, Settle(next, "rejected", h.original, q))
    BY <1>6, <1>9
  <2>2. LiveStep
    BY <1>6, <1>7, <1>8, <2>1, Same, IfPendingSettles DEF Settled
  <2>3. QED BY <1>6, <1>7, <2>2, CallKeeps
<1>10. CASE h.rejected = FALSE
  <2>1. Complete(job, h.original, q)
    BY <1>6, <1>10
  <2>2. h.original \notin Promise
    BY <1>5, <1>6, <1>7, <1>10, CallbackFits DEF FitsOutcome
  <2>3. LiveStep
    BY <1>6, <1>7, <1>8, <2>1, <2>2, Same, CompleteOK
  <2>4. QED BY <1>6, <1>7, <2>3, CallKeeps
<1>11. QED BY <1>8, <1>9, <1>10

LEMMA TaskParts ==
    ASSUME NEW task \in Task, task.live
    PROVE  task.promise \in Promise
<1>1. CASE task = NoTask
  <2>1. NoTask.live = FALSE
    BY DEF NoTask
  <2>2. QED BY <1>1, <2>1
<1>2. CASE task \in [live : {TRUE}, promise : Promise, action : {"continue", "return"}]
  BY <1>2
<1>3. QED BY <1>1, <1>2 DEF Task

(* The task is there, taken or not, because its reaction is.               *)
LEMMA JobResumesKeeps ==
    ASSUME IInv, JobResumes
    PROVE  IInv' /\ KeepsSettled
<1>1. PICK q : q = Rest
  OBVIOUS
<1>2. PICK job : job = Next1
  OBVIOUS
<1>3. PICK s : s = Append(stack, [kind |-> "resume", job |-> job])
  OBVIOUS
<1>4. PICK h : h = Callback(job)
  OBVIOUS
<1>5. PICK task : task = tasks[h.task]
  OBVIOUS
<1>6. PICK p : p = task.promise
  OBVIOUS
<1>7. /\ MayRunJob /\ h.kind = "resume" /\ tasks' = [tasks EXCEPT ![h.task] = NoTask]
      /\ UNCHANGED <<origin, phase, swallowed, program>>
  BY <1>2, <1>4 DEF JobResumes, JobIs
<1>8. /\ JobOK(job) /\ QueueOK(q) /\ HeapOK /\ StackOK(stack)
      /\ phase' \in Running1 /\ capable \subseteq Promise /\ swallowed' \in BOOLEAN
  BY <1>1, <1>2, <1>7, JobToRun
<1>9. StackOK(s)
  BY <1>3, <1>8, MadeJobFrames, OnTop
<1>10. h.task \in 1 .. Len(tasks) /\ h.rejected = (job.state = "rejected")
  BY <1>4, <1>7, <1>8, CallbackFits DEF FitsOutcome
<1>11. /\ tasks \in Seq(Task) /\ Len(tasks) \in Nat /\ task \in Task
       /\ tasks' \in Seq(Task) /\ Len(tasks') = Len(tasks)
  <2>1. tasks \in Seq(Task) /\ NoTask \in Task
    BY <1>8 DEF HeapOK, Task
  <2>2. QED BY <1>5, <1>7, <1>10, <2>1, ExceptSeq, LenProperties, ElementOfSeq
<1>12. SameProgram
  BY <1>7, <1>11 DEF SameProgram
<1>13. task.live => p \in Promise
  BY <1>6, <1>11, TaskParts
<1>14. /\ job.state \in Settled /\ job.value \in Value
       /\ job.state = "fulfilled" => job.value \notin Promise
  BY <1>8, JobParts
<1>15. ASSUME LiveStep, NEW t, StackOK(t), stack' = t, capable' \subseteq Promise
       PROVE  IInv' /\ KeepsSettled
  BY <1>7, <1>8, <1>11, <1>15, LiveStepKeeps
<1>16. ASSUME jobs' = q, UNCHANGED <<cells, tracking, attached>>
       PROVE  LiveStep
  BY <1>8, <1>12, <1>16, NothingOK DEF LiveStep
<1>17. \/ /\ jobs' = q /\ UNCHANGED <<cells, tracking, attached>>
          /\ stack' = s /\ UNCHANGED capable
       \/ /\ task.live
          /\ IfPending(p, q, IF h.rejected THEN Settle(p, "rejected", job.value, q)
                                           ELSE ResolveInto(p, job.value, q))
          /\ stack' = s /\ UNCHANGED capable
       \/ /\ task.live /\ jobs' = q /\ UNCHANGED <<cells, tracking, attached>>
          /\ ResolveObject(p, s)
       \/ /\ task.live /\ jobs' = q /\ UNCHANGED <<cells, tracking, attached>>
          /\ UNCHANGED capable /\ stack' = Append(s, [kind |-> "async", promise |-> p])
  BY <1>1, <1>2, <1>3, <1>4, <1>5, <1>6 DEF JobResumes, ResumeFrame
<1>18. CASE jobs' = q /\ UNCHANGED <<cells, tracking, attached>> /\ stack' = s /\ UNCHANGED capable
  BY <1>8, <1>9, <1>15, <1>16, <1>18
<1>19. CASE /\ task.live
            /\ IfPending(p, q, IF h.rejected THEN Settle(p, "rejected", job.value, q)
                                             ELSE ResolveInto(p, job.value, q))
            /\ stack' = s /\ UNCHANGED capable
  <2>1. CASE job.state = "rejected"
    <3>1. IfPending(p, q, Settle(p, "rejected", job.value, q))
      BY <1>10, <1>19, <2>1 DEF IfPending
    <3>2. LiveStep
      BY <1>8, <1>12, <1>13, <1>14, <1>19, <3>1, IfPendingSettles DEF Settled
    <3>3. QED BY <1>8, <1>9, <1>15, <1>19, <3>2
  <2>2. CASE job.state # "rejected"
    <3>1. IfPending(p, q, ResolveInto(p, job.value, q))
      BY <1>10, <1>19, <2>2 DEF IfPending
    <3>2. job.value \notin Promise
      BY <1>14, <2>2 DEF Settled
    <3>3. LiveStep
      BY <1>8, <1>12, <1>13, <1>14, <1>19, <3>1, <3>2, IfPendingResolves
    <3>4. QED BY <1>8, <1>9, <1>15, <1>19, <3>3
  <2>3. QED BY <2>1, <2>2
<1>20. CASE /\ task.live /\ jobs' = q /\ UNCHANGED <<cells, tracking, attached>>
            /\ ResolveObject(p, s)
  <2>1. PICK t : capable' \subseteq Promise /\ StackOK(t) /\ stack' = t
    BY <1>8, <1>9, <1>13, <1>20, ResolveObjectFrames
  <2>2. QED BY <1>15, <1>16, <1>20, <2>1
<1>21. CASE /\ task.live /\ jobs' = q /\ UNCHANGED <<cells, tracking, attached>>
            /\ UNCHANGED capable /\ stack' = Append(s, [kind |-> "async", promise |-> p])
  <2>1. StackOK(Append(s, [kind |-> "async", promise |-> p]))
    BY <1>9, <1>13, <1>21, MadeFrames, OnTop
  <2>2. QED BY <1>8, <1>15, <1>16, <1>21, <2>1
<1>22. QED BY <1>17, <1>18, <1>19, <1>20, <1>21

-----------------------------------------------------------------------------
(* Awaits, the end of the script, and the rejection tracker.               *)

LEMMA AwaitLoopKeeps ==
    ASSUME IInv, AwaitLoop
    PROVE  IInv' /\ KeepsSettled
<1>1. PICK s : s = stack
  OBVIOUS
<1>2. PICK q : q = jobs
  OBVIOUS
<1>3. TopIs("await")
  BY DEF AwaitLoop, AwaitReturns, AwaitThrowsCaught, AwaitThrows, AwaitStuck
<1>4. /\ StackOK(s) /\ StackOK(Below) /\ HeapOK /\ QueueOK(q) /\ Top.promise \in Promise
      /\ Top.kind = "await" /\ s # << >>
      /\ phase \in Running1 /\ capable \subseteq Promise /\ swallowed \in BOOLEAN
  BY <1>1, <1>2, <1>3, FrameOnTop DEF IInv
<1>5. s \in Seq(Frame) /\ Len(s) \in Nat \ {0}
  BY <1>4, EmptySeq DEF StackOK
<1>6. "aborted" \in Running1 /\ "rejected" \in Settled
  BY DEF Running1, Settled
<1>7. CASE AwaitReturns \/ AwaitThrowsCaught
  <2>1. PICK t : t = Below
    OBVIOUS
  <2>2. /\ stack' = t
        /\ UNCHANGED <<cells, tracking, jobs, tasks, capable, origin, phase, attached, swallowed, program>>
    BY <1>7, <2>1 DEF AwaitReturns, AwaitThrowsCaught, Pop
  <2>3. QED BY <1>4, <2>1, <2>2, FrameStepKeeps
<1>8. CASE AwaitThrows
  <2>1. PICK t : t = SubSeq(s, 1, Len(s) - 2)
    OBVIOUS
  <2>2. PICK caller : caller = s[Len(s) - 1]
    OBVIOUS
  <2>3. PICK v : v = result[Top.promise]
    OBVIOUS
  <2>4. /\ stack' = t /\ UNCHANGED <<tasks, capable, origin, swallowed, program>>
        /\ \/ /\ caller.kind = "async"
              /\ IfPending(caller.promise, q, Settle(caller.promise, "rejected", v, q))
              /\ UNCHANGED phase
           \/ /\ phase' = "aborted"
              /\ UNCHANGED <<cells, tracking, jobs, attached>>
    BY <1>1, <1>2, <1>8, <2>1, <2>2, <2>3 DEF AwaitThrows
  <2>5. Len(s) # 1
    <3>1. s[Len(s)].kind = "await"
      BY <1>1, <1>4 DEF Top
    <3>2. Len(s) \in 1 .. Len(s)
      BY <1>5
    <3>3. s[Len(s)].kind = "await" => Len(s) # 1
      BY <1>4, <3>2 DEF StackOK
    <3>4. QED BY <3>1, <3>3
  <2>6. FrameOK(caller)
    <3>1. PICK n : n = Len(s)
      OBVIOUS
    <3>2. n \in Nat \ {0} /\ n # 1
      BY <1>5, <2>5, <3>1
    <3>3. n - 1 \in 1 .. n
      BY <3>2
    <3>4. \A i \in 1 .. n : FrameOK(s[i])
      BY <1>4, <3>1 DEF StackOK
    <3>5. FrameOK(s[n - 1])
      BY <3>3, <3>4
    <3>6. QED BY <2>2, <3>1, <3>5
  <2>7. StackOK(t)
    BY <1>4, <1>5, <2>1, CutStack
  <2>8. v \in Value
    BY <1>4, <2>3 DEF HeapOK
  <2>9. CASE /\ caller.kind = "async"
             /\ IfPending(caller.promise, q, Settle(caller.promise, "rejected", v, q))
             /\ UNCHANGED phase
    <3>1. caller.promise \in Promise
      BY <2>6, <2>9, FrameParts
    <3>2. LiveStep
      BY <1>4, <1>6, <2>4, <2>8, <2>9, <3>1, Same, IfPendingSettles
    <3>3. QED BY <1>4, <2>4, <2>7, <2>9, <3>2, CallKeeps
  <2>10. CASE phase' = "aborted" /\ UNCHANGED <<cells, tracking, jobs, attached>>
    BY <1>4, <1>6, <2>4, <2>7, <2>10, FrameStepKeeps
  <2>11. QED BY <2>4, <2>9, <2>10
<1>9. CASE AwaitStuck
  <2>1. CASE /\ phase' = "aborted" /\ stack' = << >>
             /\ UNCHANGED <<cells, tracking, jobs, attached, swallowed>>
    <3>1. PICK t : t = SubSeq(s, 1, 0)
      OBVIOUS
    <3>2. t = << >> /\ StackOK(t)
      BY <1>4, <1>5, <3>1, CutStack, SubSeqEmpty
    <3>3. UNCHANGED <<tasks, capable, origin, program>>
      BY <1>9 DEF AwaitStuck
    <3>4. QED BY <1>4, <1>6, <2>1, <3>2, <3>3, FrameStepKeeps
  <2>2. ASSUME NEW i \in Getters,
               IfPending(stack[i].promise, jobs, Settle(stack[i].promise, "rejected", HostError, jobs)),
               stack' = SubSeq(stack, 1, i - 1), swallowed' = TRUE, UNCHANGED phase
        PROVE  IInv' /\ KeepsSettled
    <3>1. PICK p : p = s[i].promise
      OBVIOUS
    <3>2. PICK t : t = SubSeq(s, 1, i - 1)
      OBVIOUS
    <3>3. i \in 1 .. Len(s) /\ s[i].kind = "getter"
      BY <1>1, <1>5, LenProperties DEF Getters
    <3>4. p \in Promise
      BY <1>4, <3>1, <3>3, FrameParts DEF StackOK
    <3>5. StackOK(t)
      BY <1>4, <1>5, <3>2, <3>3, CutStack
    <3>6. UNCHANGED <<tasks, capable, origin, program>>
      BY <1>9 DEF AwaitStuck
    <3>7. IfPending(p, q, Settle(p, "rejected", HostError, q)) /\ HostError \in Value
      BY <1>1, <1>2, <2>2, <3>1 DEF Value
    <3>8. LiveStep
      BY <1>4, <1>6, <3>4, <3>6, <3>7, Same, IfPendingSettles
    <3>9. stack' = t
      BY <1>1, <2>2, <3>2
    <3>10. QED BY <1>4, <2>2, <3>5, <3>6, <3>8, <3>9, CallKeeps
  <2>3. QED BY <1>9, <2>1, <2>2 DEF AwaitStuck
<1>10. QED BY <1>7, <1>8, <1>9 DEF AwaitLoop

LEMMA ScriptKeeps ==
    ASSUME IInv, ScriptEnds \/ ScriptThrows
    PROVE  IInv' /\ KeepsSettled
<1>1. PICK s : s = Below
  OBVIOUS
<1>2. TopIs("script") /\ stack' = s /\ phase' \in Running1
      /\ UNCHANGED <<cells, tracking, jobs, tasks, capable, origin, attached, swallowed, program>>
  BY <1>1 DEF ScriptEnds, ScriptThrows, Pop, Running1
<1>3. StackOK(s) /\ capable \subseteq Promise /\ swallowed \in BOOLEAN
  BY <1>1, <1>2, FrameOnTop
<1>4. QED BY <1>2, <1>3, FrameStepKeeps

ReportsOf(s, n) == [i \in 1 .. n |-> [promise |-> s[i], operation |-> "Reject"]]

LEMMA ReportsMade ==
    ASSUME NEW n \in Nat, NEW s \in [1 .. n -> Promise]
    PROVE  ReportsOf(s, n) \in Seq(Event)
<1>1. ASSUME NEW i \in 1 .. n
      PROVE  [promise |-> s[i], operation |-> "Reject"] \in Event
  BY DEF Event
<1>2. QED BY <1>1, IsASeq DEF ReportsOf

LEMMA ReportRejectionsKeeps ==
    ASSUME IInv, ReportRejections
    PROVE  IInv' /\ KeepsSettled
<1>1. /\ stack = << >> /\ jobs = << >> /\ phase' = "deliver"
      /\ reported' = [p \in Promise |-> reported[p] \/ p \in Unreported]
      /\ UNCHANGED <<state, result, reactions, handled, jobs, tasks, capable, origin, stack,
                     attached, swallowed, program>>
  BY DEF ReportRejections, cells
<1>2. HeapOK /\ QueueOK(jobs) /\ StackOK(stack) /\ LiveInOrder /\ Others
  BY DEF IInv
<1>3. SameProgram /\ Grows
  BY <1>1, Same DEF Grows, KeepsSettled
<1>4. events' \in Seq(Event)
  <2>1. PICK n : n = Cardinality(Unreported)
    OBVIOUS
  <2>2. PICK s \in InOrder(Unreported) : events' = events \o ReportsOf(s, n)
    BY <2>1 DEF ReportRejections, ReportsOf
  <2>3. n \in Nat
    <3>1. IsFiniteSet(Promise) /\ Unreported \subseteq Promise
      BY BoundsAssumption, FS_Interval DEF Promise, Unreported
    <3>2. QED BY <2>1, <3>1, FS_Subset, FS_CardinalityType
  <2>4. s \in [1 .. n -> Promise]
    BY <2>1, <2>2 DEF InOrder, Unreported
  <2>5. ReportsOf(s, n) \in Seq(Event) /\ events \in Seq(Event)
    BY <1>2, <2>3, <2>4, ReportsMade DEF HeapOK
  <2>6. QED BY <2>2, <2>5, ConcatProperties
<1>5. /\ reported' \in [Promise -> BOOLEAN]
      /\ \A p \in Promise : reported'[p] <=> reported[p] \/ p \in Unreported
  BY <1>1
<1>6. ReportsOK'
  BY <1>1, <1>2, <1>5 DEF HeapOK, ReportsOK, Unreported
<1>7. \A p \in Promise : state'[p] = "rejected" => reported'[p] \/ handled'[p]
  BY <1>1, <1>5 DEF Unreported
<1>8. ASSUME NEW o \in Promise PROVE ListOK(o)'
  <2>1. PICK rs : rs = reactions[o]
    OBVIOUS
  <2>2. \A i \in 1 .. Len(rs) : ReactionOK(rs[i]) /\ rs[i].source = o
    BY <1>2, <2>1 DEF HeapOK, ListOK
  <2>3. \A i \in 1 .. Len(rs) : ReactionOK(rs[i])'
    BY <1>2, <1>3, <2>2, ReactionStays
  <2>4. QED BY <1>1, <2>1, <2>2, <2>3 DEF ListOK
<1>9. FulfilledNeverPromise' /\ NoReactionLeftBehind'
  BY <1>1, <1>2 DEF HeapOK, FulfilledNeverPromise, NoReactionLeftBehind
<1>10. HeapOK'
  BY <1>1, <1>2, <1>4, <1>5, <1>6, <1>8, <1>9 DEF HeapOK
<1>11. \A i \in 1 .. Len(<< >>) : FALSE
  OBVIOUS
<1>12. QueueOK(jobs)' /\ StackOK(stack)'
  BY <1>1, <1>11, EmptySeq DEF QueueOK, StackOK
<1>13. PhaseOK'
  BY <1>1, <1>7 DEF PhaseOK
<1>14. LiveInOrder' /\ Others'
  BY <1>1, <1>2 DEF LiveInOrder, Live, Others
<1>15. QED BY <1>3, <1>10, <1>12, <1>13, <1>14 DEF IInv, Grows

(* Nothing but the events and the phase change.                            *)
LEMMA DeliverKeeps ==
    ASSUME IInv, events' \in Seq(Event),
           phase' \in {"deliver", "done", "aborted"}, phase = "deliver",
           UNCHANGED <<cells, handled, reported, jobs, tasks, capable, origin, stack,
                       attached, swallowed, program>>
    PROVE  IInv' /\ KeepsSettled
<1>1. UNCHANGED <<state, result, reactions, handled, reported, jobs, tasks, capable, origin, stack,
                  attached, swallowed, program>>
  BY DEF cells
<1>2. KeepsSettled
  BY <1>1 DEF KeepsSettled
<1>3. \A x : ReactionOK(x) => ReactionOK(x)'
  BY <1>1 DEF ReactionOK, FitsOutcome
<1>4. HeapOK'
  BY <1>1, <1>3 DEF IInv, HeapOK, FulfilledNeverPromise, NoReactionLeftBehind, ListOK, ReportsOK
<1>5. QueueOK(jobs)'
  <2>1. \A job : JobOK(job) => JobOK(job)'
    BY <1>1, <1>3 DEF JobOK
  <2>2. QED BY <1>1, <2>1 DEF IInv, QueueOK
<1>6. stack = << >> /\ StackOK(stack)'
  <2>1. stack = << >>
    BY DEF IInv, PhaseOK
  <2>2. \A i \in 1 .. Len(<< >>) : FALSE
    OBVIOUS
  <2>3. QED BY <1>1, <2>1, <2>2, EmptySeq DEF StackOK
<1>7. LiveInOrder' /\ Others' /\ PhaseOK'
  BY <1>1 DEF IInv, LiveInOrder, Live, Others, PhaseOK
<1>8. QED BY <1>2, <1>4, <1>5, <1>6, <1>7 DEF IInv

LEMMA ReportKeeps ==
    ASSUME IInv, Report
    PROVE  IInv' /\ KeepsSettled
<1>1. CASE DeliverEvent
  <2>1. events \in Seq(Event) /\ events # << >> /\ events' = Tail(events)
    BY <1>1 DEF DeliverEvent, IInv, HeapOK
  <2>2. events' \in Seq(Event)
    BY <2>1, HeadTailProperties
  <2>3. QED BY <1>1, <2>2, DeliverKeeps DEF DeliverEvent
<1>2. CASE Exit
  <2>1. events' \in Seq(Event)
    BY <1>2 DEF Exit, IInv, HeapOK, tracking
  <2>2. QED BY <1>2, <2>1, DeliverKeeps DEF Exit, tracking
<1>3. QED BY <1>1, <1>2, ReportRejectionsKeeps DEF Report

-----------------------------------------------------------------------------
LEMMA InitIInv == Init => IInv
<1> SUFFICES ASSUME Init PROVE IInv
  OBVIOUS
<1>1. HeapOK
  <2>1. Undefined \in Value
    BY ValuesAssumption DEF Value
  <2>2. attached \in 0 .. program.reactions
    BY ProgramsAssumption DEF Init
  <2>3. \A p \in Promise : ListOK(p)
    <3>1. \A i \in 1 .. Len(<< >>) : FALSE
      OBVIOUS
    <3>2. QED BY <3>1 DEF Init, ListOK
  <2>4. tasks \in Seq(Task) /\ events \in Seq(Event) /\ reactions \in [Promise -> Seq(Reaction)]
    BY EmptySeq DEF Init
  <2>5. QED BY <2>1, <2>2, <2>3, <2>4
        DEF Init, HeapOK, State, FulfilledNeverPromise, NoReactionLeftBehind, ReportsOK
<1>2. QueueOK(jobs)
  <2>1. \A i \in 1 .. Len(<< >>) : FALSE
    OBVIOUS
  <2>2. QED BY <2>1, EmptySeq DEF Init, QueueOK
<1>3. StackOK(stack)
  <2>1. PICK f : f = [kind |-> "script"]
    OBVIOUS
  <2>2. f \in Frame /\ f.kind = "script"
    BY <2>1 DEF Frame
  <2>3. FrameOK(f)
    BY <2>2 DEF FrameOK
  <2>4. stack = <<f>>
    BY <2>1 DEF Init
  <2>5. QED BY <2>2, <2>3, <2>4 DEF StackOK
<1>4. LiveInOrder
  <2>1. Live = 1 .. 0
    BY DEF Init, Live
  <2>2. QED BY <2>1, BoundsAssumption DEF LiveInOrder
<1>5. PhaseOK /\ Others
  <2>1. Len(tasks) = 0 /\ attached = 0
    BY DEF Init
  <2>2. Len(tasks) <= attached
    BY <2>1
  <2>3. PhaseOK
    BY DEF Init, PhaseOK
  <2>4. capable \subseteq Promise /\ origin \in [Promise -> Origin] /\ swallowed \in BOOLEAN
    BY DEF Init, Origin
  <2>5. QED BY <2>2, <2>3, <2>4 DEF Others
<1>6. QED BY <1>1, <1>2, <1>3, <1>4, <1>5 DEF IInv

LEMMA NextKeeps ==
    ASSUME IInv, [Next]_vars
    PROVE  IInv' /\ KeepsSettled
<1>1. CASE MakePromise
  BY <1>1, MakePromiseKeeps DEF MakePromise
<1>2. CASE UsePromise
  BY <1>2, UsePromiseKeeps, ThenKeeps DEF UsePromise
<1>3. CASE Awaits
  BY <1>3, NestedAwaitKeeps DEF Awaits
<1>4. CASE AsyncBodyEnds
  BY <1>4, AsyncBodyKeeps, DirectAwaitKeeps DEF AsyncBodyEnds
<1>5. CASE EndOfCode
  BY <1>5, ResolvingKeeps, ScriptKeeps, CallbackKeeps DEF EndOfCode
<1>6. CASE RunJob
  BY <1>6, JobPassesOnKeeps, JobCallsUserKeeps, JobPreservesKeeps, JobResumesKeeps, CallbackKeeps
     DEF RunJob
<1>7. CASE AwaitLoop
  BY <1>7, AwaitLoopKeeps
<1>8. CASE Report
  BY <1>8, ReportKeeps
<1>9. CASE UNCHANGED vars
  <2>1. UNCHANGED <<program, state, result, reactions, handled, reported, jobs, events, tasks,
                    capable, origin, stack, phase, attached, swallowed>>
    BY <1>9 DEF vars
  <2>2. \A x : ReactionOK(x) => ReactionOK(x)'
    BY <2>1 DEF ReactionOK, FitsOutcome
  <2>3. \A job : JobOK(job) => JobOK(job)'
    BY <2>1, <2>2 DEF JobOK
  <2>4. HeapOK'
    BY <2>1, <2>2 DEF IInv, HeapOK, FulfilledNeverPromise, NoReactionLeftBehind, ListOK, ReportsOK
  <2>5. QueueOK(jobs)' /\ StackOK(stack)'
    BY <2>1, <2>3 DEF IInv, QueueOK, StackOK, FrameOK
  <2>6. LiveInOrder' /\ PhaseOK' /\ Others' /\ KeepsSettled
    BY <2>1 DEF IInv, LiveInOrder, Live, PhaseOK, Others, KeepsSettled
  <2>7. QED BY <2>4, <2>5, <2>6 DEF IInv
<1>10. QED BY <1>1, <1>2, <1>3, <1>4, <1>5, <1>6, <1>7, <1>8, <1>9 DEF Next

(* The invariant holds in every state of every program.                    *)
THEOREM InvariantAlways == Spec => []IInv
<1>1. IInv /\ [Next]_vars => IInv'
  BY NextKeeps
<1>2. QED BY InitIInv, <1>1, PTL DEF Spec

(* Every variable keeps its type: in particular every job and every frame   *)
(* has a promise to settle, every resuming handler has a task, and an      *)
(* await has a caller to throw to.                                         *)
THEOREM TypesAlways == Spec => []TypeOK
<1>1. IInv => TypeOK
  <2> SUFFICES ASSUME IInv PROVE TypeOK
    OBVIOUS
  <2>1. /\ program \in Programs /\ state \in [Promise -> State] /\ result \in [Promise -> Value]
        /\ handled \in [Promise -> BOOLEAN] /\ reported \in [Promise -> BOOLEAN]
        /\ tasks \in Seq(Task) /\ attached \in 0 .. program.reactions
        /\ reactions \in [Promise -> Seq(Reaction)] /\ events \in Seq(Event)
        /\ jobs \in Seq(Job) /\ stack \in Seq(Frame)
    BY DEF IInv, HeapOK, QueueOK, StackOK
  <2>2. \A p \in Promise : \A i \in DOMAIN reactions[p] : reactions[p][i] \in Reaction
    <3>1. TAKE p \in Promise
    <3>2. reactions[p] \in Seq(Reaction)
      BY <2>1
    <3>3. QED BY <3>2, LenProperties, ElementOfSeq
  <2>3. \A i \in DOMAIN jobs : jobs[i] \in Job
    BY <2>1, LenProperties, ElementOfSeq
  <2>4. \A i \in DOMAIN events : events[i] \in Event
    BY <2>1, LenProperties, ElementOfSeq
  <2>5. \A i \in DOMAIN stack : stack[i] \in Frame
    BY <2>1, LenProperties, ElementOfSeq
  <2>6. /\ capable \subseteq Promise /\ origin \in [Promise -> Origin] /\ swallowed \in BOOLEAN
        /\ phase \in {"script", "drain", "deliver", "done", "aborted"}
    BY DEF IInv, Others, PhaseOK
  <2>7. QED BY <2>1, <2>2, <2>3, <2>4, <2>5, <2>6 DEF TypeOK
<1>2. QED BY InvariantAlways, <1>1, PTL

(* However a promise is fulfilled, by its functions, by a handler's result, *)
(* past a callback of finally, by an async function's end, it is not with  *)
(* a promise (resolve_into, complete_reaction, run_job).                   *)
THEOREM FulfilledNeverPromiseAlways == Spec => []FulfilledNeverPromise
<1>1. IInv => FulfilledNeverPromise
  BY DEF IInv, HeapOK
<1>2. QED BY InvariantAlways, <1>1, PTL

(* A promise is settled once, whatever is called and whatever jobs a       *)
(* nested await runs meanwhile.                                            *)
THEOREM SettledOnceAlways == Spec => SettledOnce
<1>1. IInv /\ [Next]_vars =>
         [\A p \in Promise : state[p] \in Settled =>
             state'[p] = state[p] /\ result'[p] = result[p]]_vars
  BY NextKeeps DEF KeepsSettled
<1>2. QED BY InvariantAlways, <1>1, PTL DEF Spec, SettledOnce

(* When the drain is over, every rejection was handled or is reported to   *)
(* the host, none both, and none has a reaction that was not run           *)
(* (execute_program, attach_reaction).                                     *)
THEOREM RejectionsSurfaceAlways == Spec => []RejectionsSurface
<1>1. IInv => RejectionsSurface
  <2> SUFFICES ASSUME IInv, phase \in {"deliver", "done"},
                      NEW p \in Promise, state[p] = "rejected"
               PROVE  IF reported[p] THEN ~handled[p] ELSE handled[p] /\ WaitingOn(p) = {}
    BY DEF RejectionsSurface
  <2>1. reported[p] \/ handled[p]
    BY DEF IInv, PhaseOK
  <2>2. reported[p] => ~handled[p]
    BY DEF IInv, HeapOK, ReportsOK
  <2>3. reactions[p] = << >>
    BY DEF IInv, HeapOK, NoReactionLeftBehind
  <2>4. WaitingOn(p) = {}
    BY <2>3 DEF WaitingOn
  <2>5. QED BY <2>1, <2>2, <2>4
<1>2. QED BY InvariantAlways, <1>1, PTL
===============================================================================
