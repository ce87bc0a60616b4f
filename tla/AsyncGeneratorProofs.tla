------------------------- MODULE AsyncGeneratorProofs -------------------------
(***************************************************************************)
(* Theorems about AsyncGenerator, for any number of generators, requests   *)
(* and bodies: the records of a generator agree while it is in its slot,   *)
(* requests are answered in order, and no statement and no answer is       *)
(* repeated.                                                               *)
(*                                                                         *)
(* The invariant follows a generator out of its slot and back.  While it   *)
(* is out it belongs to one frame of the stack, whose capability is the    *)
(* promise of its last request; while it is in, none of its requests is    *)
(* pending.  A setter that throws leaves it out with no frame, which is    *)
(* why "out" is not the same as "has a frame".                             *)
(***************************************************************************)
EXTENDS AsyncGenerator, SequenceTheorems, TLAPS

Gen == [body : Bodies, next : Nat, action : Action \union {"none"},
        completed : BOOLEAN, state : States]

Answers == {"free", "pending", "yielded", "done", "rejected"}

(* Types, and nothing ever stays in a queue.                               *)
Shape ==
    /\ generators \in [Generator -> Gen \union {<< >>}]
    /\ \A g \in Generator : slot[g] # "free" =>
          generators[g] \in Gen /\ generators[g].next \in 1 .. Len(generators[g].body) + 1
    /\ slot \in [Generator -> {"free", "some", "none"}]
    /\ queue = [g \in Generator |-> << >>]
    /\ answers \in [Promise -> Answers]
    /\ asked \in [Promise -> Generator \union {0}]
    /\ requests \in 0 .. MaxRequests
    /\ stack \in Seq(Frame)
    /\ phase \in {"running", "aborted"}

(* A promise is given out with its request, which is of a generator there  *)
(* is.                                                                     *)
Given ==
    /\ \A p \in Promise : p <= requests =>
          answers[p] # "free" /\ asked[p] \in Generator /\ slot[asked[p]] # "free"
    /\ \A p \in Promise : requests < p => answers[p] = "free" /\ asked[p] = 0

(* What has to agree of a generator in its slot.                           *)
Agrees(gen) ==
    /\ gen.completed <=> gen.state = "Completed"
    /\ ~gen.completed => gen.action = IF gen.next = 1 THEN "none" ELSE gen.body[gen.next - 1]
    /\ gen.state = "SuspendedStart" => gen.next = 1
    /\ gen.state # "Executing"

InSlot == \A g \in Generator : slot[g] = "some" => Agrees(generators[g])

(* A frame runs a generator that is out of its slot and has not completed, *)
(* for a request that is pending; no two frames run the same generator.    *)
FrameOK(f) ==
    /\ slot[f.generator] = "none"
    /\ ~generators[f.generator].completed
    /\ f.capability <= requests
    /\ asked[f.capability] = f.generator
    /\ answers[f.capability] = "pending"

Frames ==
    /\ \A i \in 1 .. Len(stack) : FrameOK(stack[i])
    /\ \A i, j \in 1 .. Len(stack) : i # j => stack[i].generator # stack[j].generator

(* Only a generator that is out has a pending request, while the program   *)
(* runs only the last one; once it answered that it is done, it is.        *)
PendingIsOut == \A p \in Promise : answers[p] = "pending" => slot[asked[p]] = "none"

PendingIsLast ==
    \A p, q \in Promise : p < q /\ asked[p] = asked[q] /\ asked[p] # 0 =>
        /\ phase = "running" => answers[p] # "pending"
        /\ answers[q] # "pending" => answers[p] # "pending"

DoneIsCompleted ==
    \A p \in Promise : answers[p] \in {"done", "rejected"} => generators[asked[p]].completed

IInv ==
    /\ Shape
    /\ Given
    /\ InSlot
    /\ Frames
    /\ PendingIsOut
    /\ PendingIsLast
    /\ DoneIsCompleted

(* The inside of NeverReplays.                                             *)
NoReplay ==
    /\ \A g \in Generator : slot[g] # "free" => generators'[g].next >= generators[g].next
    /\ \A p \in Made : answers[p] # "pending" => answers'[p] = answers[p]
    /\ \A p, q \in Promise :
          answers[p] \in {"done", "rejected"} /\ asked'[q] = asked[p]
          /\ answers[q] # "yielded" => answers'[q] # "yielded"

LEMMA InitIInv == Init => IInv
<1> SUFFICES ASSUME Init PROVE IInv
  OBVIOUS
<1>1. Shape
  BY BoundsAssumption, EmptySeq DEF Init, Shape, Answers
<1>2. Given
  BY DEF Init, Given, Promise
<1>3. InSlot /\ PendingIsOut /\ PendingIsLast /\ DoneIsCompleted
  BY DEF Init, InSlot, PendingIsOut, PendingIsLast, DoneIsCompleted
<1>4. Frames
  <2>1. \A i : i \notin 1 .. Len(stack)
    BY EmptySeq DEF Init
  <2>2. QED BY <2>1 DEF Frames
<1>5. QED BY <1>1, <1>2, <1>3, <1>4 DEF IInv

-----------------------------------------------------------------------------
(* The stack.                                                              *)

LEMMA StackTop ==
    ASSUME Shape, stack # << >>
    PROVE  /\ Len(stack) \in 1 .. Len(stack) /\ Top \in Frame
           /\ Below \in Seq(Frame) /\ Len(Below) = Len(stack) - 1
           /\ \A i \in 1 .. Len(Below) :
                 i \in 1 .. Len(stack) /\ i # Len(stack) /\ Below[i] = stack[i]
<1>1. stack \in Seq(Frame) /\ Len(stack) \in Nat /\ Len(stack) # 0
  BY EmptySeq, LenProperties DEF Shape
<1>2. Len(stack) \in 1 .. Len(stack) /\ Top \in Frame
  BY <1>1 DEF Top
<1>3. PICK n : n = Len(stack) - 1
  OBVIOUS
<1>4. /\ SubSeq(stack, 1, n) \in Seq(Frame) /\ Len(SubSeq(stack, 1, n)) = n
      /\ \A i \in 1 .. n : SubSeq(stack, 1, n)[i] = stack[i]
  BY <1>1, <1>3, SubSeqProperties
<1>5. QED BY <1>1, <1>2, <1>3, <1>4 DEF Below

-----------------------------------------------------------------------------
(* What the steps do to a generator.                                       *)

(* The record of g changes and stays a record; its position never goes     *)
(* back.                                                                   *)
Turned(g) ==
    /\ generators' \in [Generator -> Gen \union {<< >>}]
    /\ \A h \in Generator \ {g} : generators'[h] = generators[h]
    /\ generators'[g] \in Gen
    /\ generators'[g].next \in 1 .. Len(generators'[g].body) + 1
    /\ slot[g] # "free" => generators'[g].next >= generators[g].next

LEMMA CompletedTurns ==
    ASSUME Shape, NEW g \in Generator, slot[g] # "free",
           NEW n \in 1 .. Len(generators[g].body) + 1, n >= generators[g].next,
           NEW a \in Action \union {"none"},
           generators' = [generators EXCEPT ![g] =
              [generators[g] EXCEPT !.completed = TRUE, !.state = "Completed",
                                    !.next = n, !.action = a]]
    PROVE  Turned(g) /\ Agrees(generators[g])' /\ generators'[g].completed
<1>1. PICK x : x = generators[g]
  OBVIOUS
<1>2. x \in Gen /\ Len(x.body) \in Nat /\ n \in Nat
  BY <1>1, BodiesAssumption, LenProperties DEF Shape, Gen
<1>3. PICK y : y = [x EXCEPT !.completed = TRUE, !.state = "Completed", !.next = n, !.action = a]
  OBVIOUS
<1>4. /\ y \in Gen /\ y.body = x.body /\ y.next = n /\ y.completed = TRUE
      /\ y.state = "Completed"
  <2>1. y = [body |-> x.body, next |-> n, action |-> a, completed |-> TRUE, state |-> "Completed"]
    BY <1>2, <1>3 DEF Gen
  <2>2. x.body \in Bodies
    BY <1>2 DEF Gen
  <2>3. QED BY <1>2, <2>1, <2>2 DEF Gen, States
<1>5. generators' = [generators EXCEPT ![g] = y]
  BY <1>1, <1>3
<1>6. /\ generators' \in [Generator -> Gen \union {<< >>}] /\ generators'[g] = y
      /\ \A h \in Generator \ {g} : generators'[h] = generators[h]
  BY <1>4, <1>5 DEF Shape
<1>7. Turned(g)
  BY <1>1, <1>4, <1>6 DEF Turned
<1>8. Agrees(generators[g])'
  BY <1>4, <1>6 DEF Agrees
<1>9. QED BY <1>4, <1>6, <1>7, <1>8

(* Asking: the promise of the request was not given out yet, and is now of *)
(* g; the queue is as empty as before.                                     *)
Asked(g, p, answer) ==
    /\ p = requests + 1 /\ p \in Promise
    /\ requests' = p
    /\ asked' = [asked EXCEPT ![p] = g]
    /\ answers' = [answers EXCEPT ![p] = answer]
    /\ UNCHANGED queue

LEMMA AskedKeeps ==
    ASSUME IInv, NEW g \in Generator, NEW p, NEW answer \in Answers, answer # "free",
           Asked(g, p, answer),
           slot'[g] # "free" /\ slot' \in [Generator -> {"free", "some", "none"}],
           \A h \in Generator \ {g} : slot'[h] = slot[h],
           slot[g] # "free",
           answer = "pending" => slot'[g] = "none",
           slot[g] = "none" => slot'[g] = "none",
           phase' = "running" => slot[g] = "some",
           phase = "running",
           answer # "pending" => slot[g] = "some",
           Turned(g) \/ UNCHANGED generators,
           \A h \in Generator : slot[h] # "free" /\ generators[h].completed =>
              generators'[h].completed,
           answer \in {"done", "rejected"} => generators'[g].completed
    PROVE  Given' /\ PendingIsOut' /\ PendingIsLast' /\ DoneIsCompleted'
<1>1. /\ p \in Nat /\ requests \in Nat /\ requests < p /\ requests' = p
      /\ \A r \in Promise : r \in Nat
      /\ answers \in [Promise -> Answers] /\ asked \in [Promise -> Generator \union {0}]
  BY BoundsAssumption DEF IInv, Shape, Asked, Promise
<1>2. /\ asked'[p] = g /\ answers'[p] = answer
      /\ \A r \in Promise \ {p} : asked'[r] = asked[r] /\ answers'[r] = answers[r]
  BY <1>1 DEF Asked
<1>3. answers[p] = "free" /\ asked[p] = 0 /\ p \in Promise
  BY <1>1 DEF IInv, Given, Asked
<1>4. \A r \in Promise : requests < r => answers[r] = "free" /\ asked[r] = 0
  BY DEF IInv, Given
<1>5. \A r \in Promise : r <= requests =>
         answers[r] # "free" /\ asked[r] \in Generator /\ slot[asked[r]] # "free"
  BY DEF IInv, Given
<1>6. 0 \notin Generator
  BY BoundsAssumption DEF Generator
<1>7. Given'
  <2>1. ASSUME NEW r \in Promise, r <= requests'
        PROVE  answers'[r] # "free" /\ asked'[r] \in Generator /\ slot'[asked'[r]] # "free"
    <3>1. CASE r = p
      BY <1>2, <3>1
    <3>2. CASE r # p
      <4>1. r <= requests
        BY <1>1, <2>1, <3>2 DEF Asked
      <4>2. QED BY <1>2, <1>5, <3>2, <4>1
    <3>3. QED BY <3>1, <3>2
  <2>2. ASSUME NEW r \in Promise, requests' < r
        PROVE  answers'[r] = "free" /\ asked'[r] = 0
    <3>1. r # p /\ requests < r
      BY <1>1, <2>2
    <3>2. QED BY <1>2, <1>4, <3>1
  <2>3. QED BY <2>1, <2>2 DEF Given
<1>8. PendingIsOut'
  <2> SUFFICES ASSUME NEW r \in Promise, answers'[r] = "pending"
               PROVE  slot'[asked'[r]] = "none"
    BY DEF PendingIsOut
  <2>1. CASE r = p
    BY <1>2, <2>1
  <2>2. CASE r # p
    <3>1. slot[asked[r]] = "none" /\ asked'[r] = asked[r]
      BY <1>2, <2>2 DEF IInv, PendingIsOut
    <3>2. asked[r] \in Generator
      <4>1. ~(requests < r)
        BY <1>2, <1>4, <2>2
      <4>2. r <= requests
        BY <1>1, <4>1
      <4>3. QED BY <1>5, <4>2
    <3>3. QED BY <3>1, <3>2
  <2>3. QED BY <2>1, <2>2
<1>9. PendingIsLast'
  <2> SUFFICES ASSUME NEW r \in Promise, NEW t \in Promise, r < t,
                      asked'[r] = asked'[t], asked'[r] # 0
               PROVE  /\ phase' = "running" => answers'[r] # "pending"
                      /\ answers'[t] # "pending" => answers'[r] # "pending"
    BY DEF PendingIsLast
  <2>1. CASE r # p /\ t # p
    BY <1>2, <2>1 DEF IInv, PendingIsLast
  <2>2. CASE r = p
    <3>1. requests < t /\ t # p
      BY <1>1, <2>2
    <3>2. asked'[t] = 0
      BY <1>2, <1>4, <3>1
    <3>3. QED BY <1>2, <1>6, <2>2, <3>2
  <2>3. CASE r # p /\ t = p
    <3>1. asked[r] = g /\ answers'[r] = answers[r]
      BY <1>2, <2>3
    <3>2. answers[r] = "pending" => slot[g] = "none"
      BY <3>1 DEF IInv, PendingIsOut
    <3>3. QED BY <1>2, <2>3, <3>1, <3>2
  <2>4. QED BY <2>1, <2>2, <2>3
<1>10. DoneIsCompleted'
  <2> SUFFICES ASSUME NEW r \in Promise, answers'[r] \in {"done", "rejected"}
               PROVE  generators'[asked'[r]].completed
    BY DEF DoneIsCompleted
  <2>1. CASE r = p
    BY <1>2, <2>1
  <2>2. CASE r # p
    <3>1. answers[r] \in {"done", "rejected"} /\ asked'[r] = asked[r]
      BY <1>2, <2>2
    <3>2. ~(requests < r)
      BY <1>4, <3>1
    <3>3. r <= requests
      BY <1>1, <3>2
    <3>4. asked[r] \in Generator /\ slot[asked[r]] # "free" /\ generators[asked[r]].completed
      BY <1>5, <3>1, <3>3 DEF IInv, DoneIsCompleted
    <3>5. QED BY <3>1, <3>4
  <2>3. QED BY <2>1, <2>2
<1>11. QED BY <1>7, <1>8, <1>9, <1>10

LEMMA QueueStaysEmpty ==
    ASSUME Shape, NEW g \in Generator, NEW n \in Promise
    PROVE  /\ Head(Append(queue[g], n)) = n
           /\ [queue EXCEPT ![g] = Tail(Append(queue[g], n))] = queue
<1>1. queue[g] = << >> /\ Append(<< >>, n) = <<n>>
  BY DEF Shape
<1>2. Head(<<n>>) = n /\ Tail(<<n>>) = << >>
  OBVIOUS
<1>3. [queue EXCEPT ![g] = << >>] = queue
  BY DEF Shape
<1>4. QED BY <1>1, <1>2, <1>3

(* A request leaves the frames of other generators as they were.           *)
LEMMA FrameStays ==
    ASSUME IInv, NEW f \in Frame, FrameOK(f), NEW g \in Generator, NEW p, NEW answer,
           Asked(g, p, answer), slot'[f.generator] = "none",
           generators'[f.generator] = generators[f.generator]
    PROVE  FrameOK(f)'
<1>1. f.capability \in Promise /\ requests \in Nat /\ requests' = requests + 1
  BY DEF IInv, Shape, Frame, Asked
<1>2. f.capability # p /\ f.capability <= requests'
  BY <1>1, BoundsAssumption DEF FrameOK, Asked, Promise
<1>3. /\ asked'[f.capability] = asked[f.capability]
      /\ answers'[f.capability] = answers[f.capability]
  BY <1>1, <1>2 DEF Asked, IInv, Shape
<1>4. QED BY <1>2, <1>3 DEF FrameOK

(* Nothing is replayed by a request: it only gives its own promise an      *)
(* answer, and no value.                                                   *)
LEMMA AskedNoReplay ==
    ASSUME IInv, NEW g \in Generator, NEW p, NEW answer \in Answers, answer # "yielded",
           Asked(g, p, answer), Turned(g) \/ UNCHANGED generators
    PROVE  NoReplay
<1>1. answers \in [Promise -> Answers] /\ requests \in Nat /\ p = requests + 1
  BY DEF IInv, Shape, Asked
<1>2. answers'[p] = answer /\ \A r \in Promise \ {p} : answers'[r] = answers[r]
  BY <1>1 DEF Asked
<1>3. \A h \in Generator : slot[h] # "free" => generators'[h].next >= generators[h].next
  <2>1. TAKE h \in Generator
  <2>2. HAVE slot[h] # "free"
  <2>3. generators[h].next \in Nat
    BY <2>2 DEF IInv, Shape, Gen
  <2>4. QED BY <2>2, <2>3 DEF Turned
<1>4. \A r \in Made : r \in Promise /\ r # p
  <2>1. requests \in 0 .. MaxRequests
    BY DEF IInv, Shape
  <2>2. QED BY <1>1, <2>1, BoundsAssumption DEF Made, Promise
<1>5. QED BY <1>2, <1>3, <1>4 DEF NoReplay

LEMMA AtOnceKeeps ==
    ASSUME IInv, NEW g \in Generator, NEW p, NEW answer \in {"done", "rejected"},
           Asked(g, p, answer), slot[g] = "some", phase = "running",
           NEW a \in Action \union {"none"},
           generators' = [generators EXCEPT ![g] =
              [generators[g] EXCEPT !.completed = TRUE, !.state = "Completed",
                                    !.next = generators[g].next, !.action = a]],
           UNCHANGED <<slot, stack, phase>>
    PROVE  IInv' /\ NoReplay
<1>1. Shape /\ generators[g].next \in 1 .. Len(generators[g].body) + 1
  BY DEF IInv, Shape
<1>2. Len(generators[g].body) \in Nat
  BY BodiesAssumption, LenProperties DEF IInv, Shape, Gen
<1>3. Turned(g) /\ Agrees(generators[g])' /\ generators'[g].completed
  <2>1. PICK n : n = generators[g].next
    OBVIOUS
  <2>2. n \in 1 .. Len(generators[g].body) + 1 /\ n >= generators[g].next /\ slot[g] # "free"
    BY <1>1, <1>2, <2>1
  <2>3. generators' = [generators EXCEPT ![g] =
           [generators[g] EXCEPT !.completed = TRUE, !.state = "Completed",
                                 !.next = n, !.action = a]]
    BY <2>1
  <2>4. QED BY <1>1, <2>2, <2>3, CompletedTurns
<1>4. answer \in Answers /\ answer # "free" /\ answer # "pending" /\ answer # "yielded"
  BY DEF Answers
<1>5. slot \in [Generator -> {"free", "some", "none"}] /\ slot' = slot
  BY DEF IInv, Shape
<1>6. \A h \in Generator : slot[h] # "free" /\ generators[h].completed => generators'[h].completed
  BY <1>3 DEF Turned
<1>7. Given' /\ PendingIsOut' /\ PendingIsLast' /\ DoneIsCompleted'
  BY <1>3, <1>4, <1>5, <1>6, AskedKeeps
<1>8. NoReplay
  BY <1>3, <1>4, AskedNoReplay
<1>9. InSlot'
  BY <1>3, <1>5 DEF IInv, InSlot, Turned, Agrees
<1>10. Frames'
  <2>1. ASSUME NEW i \in 1 .. Len(stack) PROVE FrameOK(stack[i])'
    <3>1. PICK f : f = stack[i]
      OBVIOUS
    <3>2. f \in Frame /\ FrameOK(f)
      BY <3>1 DEF IInv, Frames, Shape
    <3>3. slot'[f.generator] = "none" /\ f.generator # g /\ f.generator \in Generator
      BY <1>5, <3>2 DEF FrameOK, Frame
    <3>4. generators'[f.generator] = generators[f.generator]
      BY <1>3, <3>3 DEF Turned
    <3>5. FrameOK(f)'
      BY <3>2, <3>3, <3>4, FrameStays
    <3>6. QED BY <3>1, <3>5 DEF FrameOK
  <2>2. QED BY <2>1 DEF IInv, Frames
<1>11. Shape'
  <2>1. requests' \in 0 .. MaxRequests
    BY BoundsAssumption DEF Asked, Promise
  <2>2. asked' \in [Promise -> Generator \union {0}] /\ answers' \in [Promise -> Answers]
    BY <1>4 DEF IInv, Shape, Asked
  <2>3. \A h \in Generator : slot'[h] # "free" =>
           generators'[h] \in Gen /\ generators'[h].next \in 1 .. Len(generators'[h].body) + 1
    BY <1>3, <1>5 DEF IInv, Shape, Turned
  <2>4. generators' \in [Generator -> Gen \union {<< >>}]
    BY <1>3 DEF Turned
  <2>5. QED BY <2>1, <2>2, <2>3, <2>4 DEF IInv, Shape, Asked
<1>12. QED BY <1>7, <1>8, <1>9, <1>10, <1>11 DEF IInv

LEMMA RunKeeps ==
    ASSUME IInv, NEW g \in Generator, NEW p, Asked(g, p, "pending"), slot[g] = "some",
           NEW stage \in {"assign", "body"}, Run(g, p, stage), Turned(g),
           ~generators'[g].completed, ~generators[g].completed,
           phase = "running", UNCHANGED phase
    PROVE  IInv' /\ NoReplay
<1>1. /\ slot \in [Generator -> {"free", "some", "none"}]
      /\ slot' = [slot EXCEPT ![g] = "none"]
  BY DEF IInv, Shape, Run
<1>2. /\ slot' \in [Generator -> {"free", "some", "none"}] /\ slot'[g] = "none"
      /\ \A h \in Generator \ {g} : slot'[h] = slot[h]
  BY <1>1
<1>3. "pending" \in Answers
  BY DEF Answers
<1>4. \A h \in Generator : slot[h] # "free" /\ generators[h].completed => generators'[h].completed
  BY DEF Turned
<1>5. Given' /\ PendingIsOut' /\ PendingIsLast' /\ DoneIsCompleted'
  BY <1>2, <1>3, <1>4, AskedKeeps
<1>6. NoReplay
  BY <1>3, AskedNoReplay
<1>7. InSlot'
  <2> SUFFICES ASSUME NEW h \in Generator, slot'[h] = "some"
               PROVE  Agrees(generators'[h])
    BY DEF InSlot, Agrees
  <2>1. h # g /\ slot[h] = "some" /\ generators'[h] = generators[h]
    BY <1>2 DEF Turned
  <2>2. QED BY <2>1 DEF IInv, InSlot
<1>8. PICK x : x = [generator |-> g, capability |-> p, stage |-> stage]
  OBVIOUS
<1>9. x \in Frame /\ x.generator = g /\ x.capability = p
  BY <1>8 DEF Frame, Asked
<1>10. stack \in Seq(Frame) /\ Len(stack) \in Nat /\ stack' = Append(stack, x)
  BY <1>8, LenProperties DEF IInv, Shape, Run
<1>11. /\ stack' \in Seq(Frame) /\ Len(stack') = Len(stack) + 1
       /\ \A i \in 1 .. Len(stack) : stack'[i] = stack[i]
       /\ stack'[Len(stack) + 1] = x
  BY <1>9, <1>10, AppendProperties
<1>12. \A i \in 1 .. Len(stack') : i \in 1 .. Len(stack) \/ i = Len(stack) + 1
  BY <1>10, <1>11
<1>13. Frames'
  <2>1. ASSUME NEW i \in 1 .. Len(stack)
        PROVE  stack[i] \in Frame /\ FrameOK(stack[i]) /\ stack[i].generator # g
    BY <1>10 DEF IInv, Frames, FrameOK
  <2>2. FrameOK(x)'
    <3>1. asked'[p] = g /\ answers'[p] = "pending" /\ p <= requests'
      BY DEF IInv, Shape, Asked
    <3>2. QED BY <1>2, <1>9, <3>1 DEF FrameOK
  <2>3. ASSUME NEW i \in 1 .. Len(stack') PROVE FrameOK(stack[i])'
    <3>1. CASE i \in 1 .. Len(stack)
      <4>1. PICK f : f = stack[i]
        OBVIOUS
      <4>2. f \in Frame /\ FrameOK(f) /\ f.generator # g
        BY <2>1, <3>1, <4>1
      <4>3. f.generator \in Generator
        BY <4>2 DEF Frame
      <4>4. slot'[f.generator] = "none" /\ generators'[f.generator] = generators[f.generator]
        BY <1>2, <4>2, <4>3 DEF FrameOK, Turned
      <4>5. FrameOK(f)'
        BY <4>2, <4>4, FrameStays
      <4>6. stack'[i] = f
        BY <1>11, <3>1, <4>1
      <4>7. QED BY <4>5, <4>6 DEF FrameOK
    <3>2. CASE i = Len(stack) + 1
      <4>1. stack'[i] = x
        BY <1>11, <3>2
      <4>2. QED BY <2>2, <4>1 DEF FrameOK
    <3>3. QED BY <1>12, <3>1, <3>2
  <2>4. ASSUME NEW i \in 1 .. Len(stack'), NEW j \in 1 .. Len(stack'), i # j
        PROVE  stack'[i].generator # stack'[j].generator
    <3>1. CASE i \in 1 .. Len(stack) /\ j \in 1 .. Len(stack)
      BY <1>11, <2>4, <3>1 DEF IInv, Frames
    <3>2. CASE i \in 1 .. Len(stack) /\ j = Len(stack) + 1
      BY <1>9, <1>11, <2>1, <3>2
    <3>3. CASE i = Len(stack) + 1 /\ j \in 1 .. Len(stack)
      BY <1>9, <1>11, <2>1, <3>3
    <3>4. QED BY <1>12, <2>4, <3>1, <3>2, <3>3
  <2>5. QED BY <2>3, <2>4 DEF Frames
<1>14. Shape'
  <2>1. requests' \in 0 .. MaxRequests
    BY BoundsAssumption DEF Asked, Promise
  <2>2. asked' \in [Promise -> Generator \union {0}] /\ answers' \in [Promise -> Answers]
    BY <1>3 DEF IInv, Shape, Asked
  <2>3. \A h \in Generator : slot'[h] # "free" =>
           generators'[h] \in Gen /\ generators'[h].next \in 1 .. Len(generators'[h].body) + 1
    BY <1>2 DEF IInv, Shape, Turned
  <2>4. generators' \in [Generator -> Gen \union {<< >>}]
    BY DEF Turned
  <2>5. QED BY <1>2, <1>11, <2>1, <2>2, <2>3, <2>4 DEF IInv, Shape, Asked
<1>15. QED BY <1>5, <1>6, <1>7, <1>13, <1>14 DEF IInv

(* A resumption starts the body or a setter: the record is a record still. *)
LEMMA ResumedTurns ==
    ASSUME Shape, NEW g \in Generator, slot[g] # "free",
           NEW st \in States,
           generators' = [generators EXCEPT ![g] =
              [generators[g] EXCEPT !.state = st, !.action = "none"]]
    PROVE  Turned(g) /\ generators'[g].completed = generators[g].completed
<1>1. PICK x : x = generators[g]
  OBVIOUS
<1>2. x \in Gen /\ x.next \in Nat /\ x.next \in 1 .. Len(x.body) + 1
  BY <1>1 DEF Shape, Gen
<1>3. PICK y : y = [x EXCEPT !.state = st, !.action = "none"]
  OBVIOUS
<1>4. /\ y \in Gen /\ y.body = x.body /\ y.next = x.next
      /\ y.completed = x.completed
  BY <1>2, <1>3 DEF Gen
<1>5. generators' = [generators EXCEPT ![g] = y]
  BY <1>1, <1>3
<1>6. /\ generators' \in [Generator -> Gen \union {<< >>}] /\ generators'[g] = y
      /\ \A h \in Generator \ {g} : generators'[h] = generators[h]
  BY <1>4, <1>5 DEF Shape
<1>7. y.next >= x.next
  BY <1>2, <1>4
<1>8. QED BY <1>1, <1>2, <1>4, <1>6, <1>7 DEF Turned

LEMMA AskKeeps ==
    ASSUME IInv, NEW g \in Generator, NEW request \in Request, Ask(g, request)
    PROVE  IInv' /\ NoReplay
<1>1. Shape /\ slot[g] = "some" /\ slot[g] # "free" /\ phase = "running" /\ UNCHANGED phase
  BY DEF IInv, Ask, UserCodeRuns
<1>2. PICK p : p = requests + 1
  OBVIOUS
<1>3. p \in Promise
  BY <1>1, <1>2, BoundsAssumption DEF Ask, Shape, Promise
<1>4. /\ Head(Append(queue[g], p)) = p
      /\ [queue EXCEPT ![g] = Tail(Append(queue[g], p))] = queue
  BY <1>1, <1>3, QueueStaysEmpty
<1>5. /\ UNCHANGED queue
      /\ \/ request = "throw" /\ AnswerAtOnce(g, p, "rejected")
         \/ request = "return" /\ AnswerAtOnce(g, p, "done")
         \/ request = "next" /\ generators[g].completed /\ AnswerAtOnce(g, p, "done")
         \/ request = "next" /\ ~generators[g].completed /\ ResumeWithInput(g, p)
  BY <1>2, <1>4 DEF Ask
<1>6. \A answer : Answer(p, answer) => Asked(g, p, answer)
  BY <1>2, <1>3, <1>5 DEF Ask, Answer, Asked
<1>7. generators[g] \in Gen /\ generators \in [Generator -> Gen \union {<< >>}]
  BY <1>1 DEF Shape
<1>8. PICK x : x = generators[g]
  OBVIOUS
<1>9. ASSUME NEW answer \in {"done", "rejected"}, AnswerAtOnce(g, p, answer)
      PROVE  IInv' /\ NoReplay
  <2>1. PICK a : a = x.action
    OBVIOUS
  <2>2. a \in Action \union {"none"}
    BY <1>7, <1>8, <2>1 DEF Gen
  <2>3. [x EXCEPT !.completed = TRUE, !.state = "Completed", !.next = x.next, !.action = a]
          = [x EXCEPT !.completed = TRUE, !.state = "Completed"]
    BY <1>7, <1>8, <2>1 DEF Gen
  <2>4. generators' = [generators EXCEPT ![g] = [x EXCEPT !.completed = TRUE, !.state = "Completed"]]
    BY <1>7, <1>8, <1>9 DEF AnswerAtOnce, Completed
  <2>5. generators' = [generators EXCEPT ![g] =
           [generators[g] EXCEPT !.completed = TRUE, !.state = "Completed",
                                 !.next = generators[g].next, !.action = a]]
    BY <1>8, <2>3, <2>4
  <2>6. Asked(g, p, answer) /\ UNCHANGED <<slot, stack>>
    BY <1>6, <1>9 DEF AnswerAtOnce
  <2>7. QED BY <1>1, <2>2, <2>5, <2>6, AtOnceKeeps
<1>10. ASSUME ~generators[g].completed, ResumeWithInput(g, p)
       PROVE  IInv' /\ NoReplay
  <2>1. CASE Execute(g, p)
    <3>1. generators' = [generators EXCEPT ![g] =
             [generators[g] EXCEPT !.state = "Executing", !.action = "none"]]
      BY <1>7, <2>1 DEF Execute
    <3>2. Turned(g) /\ generators'[g].completed = generators[g].completed
      BY <1>1, <3>1, ResumedTurns DEF States
    <3>3. Run(g, p, "body") /\ Asked(g, p, "pending")
      BY <1>6, <2>1 DEF Execute, Run
    <3>4. QED BY <1>1, <1>10, <3>2, <3>3, RunKeeps
  <2>2. CASE /\ generators' = [generators EXCEPT ![g].action = "none"]
             /\ Run(g, p, "assign")
    <3>1. PICK st : st = x.state
      OBVIOUS
    <3>2. st \in States
      BY <1>7, <1>8, <3>1 DEF Gen
    <3>3. [x EXCEPT !.state = st, !.action = "none"] = [x EXCEPT !.action = "none"]
      BY <1>7, <1>8, <3>1 DEF Gen
    <3>4. generators' = [generators EXCEPT ![g] = [generators[g] EXCEPT !.state = st, !.action = "none"]]
      BY <1>8, <2>2, <3>3
    <3>5. Turned(g) /\ generators'[g].completed = generators[g].completed
      BY <1>1, <3>2, <3>4, ResumedTurns
    <3>6. Asked(g, p, "pending")
      BY <1>6, <2>2 DEF Run
    <3>7. QED BY <1>1, <1>10, <2>2, <3>5, <3>6, RunKeeps
  <2>3. CASE /\ Answer(p, "done")
             /\ generators' = [Completed(g) EXCEPT ![g].action = "none"]
             /\ UNCHANGED <<slot, stack>>
    <3>1. PICK y : y = [x EXCEPT !.completed = TRUE, !.state = "Completed"]
      OBVIOUS
    <3>2. [y EXCEPT !.action = "none"]
            = [x EXCEPT !.completed = TRUE, !.state = "Completed", !.next = x.next,
                        !.action = "none"]
      BY <1>7, <1>8, <3>1 DEF Gen
    <3>3. Completed(g) = [generators EXCEPT ![g] = y]
      BY <1>7, <1>8, <3>1 DEF Completed
    <3>4. generators' = [generators EXCEPT ![g] = [y EXCEPT !.action = "none"]]
      BY <1>7, <2>3, <3>3
    <3>5. generators' = [generators EXCEPT ![g] =
             [generators[g] EXCEPT !.completed = TRUE, !.state = "Completed",
                                   !.next = generators[g].next, !.action = "none"]]
      BY <1>8, <3>2, <3>4
    <3>6. Asked(g, p, "done")
      BY <1>6, <2>3
    <3>7. QED BY <1>1, <2>3, <3>5, <3>6, AtOnceKeeps
  <2>4. QED BY <1>10, <2>1, <2>2, <2>3 DEF ResumeWithInput
<1>11. QED BY <1>5, <1>9, <1>10

LEMMA AskTakenKeeps ==
    ASSUME IInv, NEW g \in Generator, AskTaken(g)
    PROVE  IInv' /\ NoReplay
<1>1. PICK p : p = requests + 1
  OBVIOUS
<1>2. p \in Promise /\ phase = "running" /\ slot[g] = "none" /\ phase' = "aborted"
  BY <1>1, BoundsAssumption DEF IInv, Shape, AskTaken, UserCodeRuns, Promise
<1>3. Asked(g, p, "pending") /\ UNCHANGED <<generators, slot, stack>>
  BY <1>1, <1>2 DEF AskTaken, Answer, Asked
<1>4. "pending" \in Answers
  BY DEF Answers
<1>5. slot \in [Generator -> {"free", "some", "none"}]
  BY DEF IInv, Shape
<1>6. Given' /\ PendingIsOut' /\ PendingIsLast' /\ DoneIsCompleted'
  BY <1>2, <1>3, <1>4, <1>5, AskedKeeps
<1>7. NoReplay
  BY <1>3, <1>4, AskedNoReplay
<1>8. Frames'
  <2>1. ASSUME NEW i \in 1 .. Len(stack) PROVE FrameOK(stack[i])'
    <3>1. PICK f : f = stack[i]
      OBVIOUS
    <3>2. f \in Frame /\ FrameOK(f)
      BY <3>1 DEF IInv, Frames, Shape
    <3>3. slot'[f.generator] = "none" /\ generators'[f.generator] = generators[f.generator]
      BY <1>3, <3>2 DEF FrameOK
    <3>4. FrameOK(f)'
      BY <1>3, <3>2, <3>3, FrameStays
    <3>5. QED BY <1>3, <3>1, <3>4 DEF FrameOK
  <2>2. QED BY <1>3, <2>1 DEF IInv, Frames
<1>9. Shape'
  <2>1. requests' \in 0 .. MaxRequests
    BY <1>2, <1>3, BoundsAssumption DEF Asked, Promise
  <2>2. asked' \in [Promise -> Generator \union {0}] /\ answers' \in [Promise -> Answers]
    BY <1>3, <1>4 DEF IInv, Shape, Asked
  <2>3. QED BY <1>2, <1>3, <2>1, <2>2 DEF IInv, Shape, Asked
<1>10. InSlot'
  BY <1>3 DEF IInv, InSlot, Agrees
<1>11. QED BY <1>6, <1>7, <1>8, <1>9, <1>10 DEF IInv

LEMMA CreateKeeps ==
    ASSUME IInv, NEW g \in Generator, NEW body \in Bodies, CreateAsyncGenerator(g, body)
    PROVE  IInv' /\ NoReplay
<1>1. PICK x : x = [body |-> body, next |-> 1, action |-> "none", completed |-> FALSE,
                    state |-> "SuspendedStart"]
  OBVIOUS
<1>2. /\ x \in Gen /\ x.body = body /\ x.next = 1 /\ x.action = "none" /\ x.completed = FALSE
      /\ x.state = "SuspendedStart"
  BY <1>1 DEF Gen, States
<1>3. Len(body) \in Nat
  BY BodiesAssumption, LenProperties
<1>4. /\ slot[g] = "free" /\ slot' = [slot EXCEPT ![g] = "some"]
      /\ generators' = [generators EXCEPT ![g] = x]
      /\ UNCHANGED <<queue, answers, asked, requests, stack, phase>>
  BY <1>1 DEF CreateAsyncGenerator
<1>5. /\ slot' \in [Generator -> {"free", "some", "none"}] /\ slot'[g] = "some"
      /\ \A h \in Generator \ {g} : slot'[h] = slot[h]
      /\ generators' \in [Generator -> Gen \union {<< >>}] /\ generators'[g] = x
      /\ \A h \in Generator \ {g} : generators'[h] = generators[h]
  BY <1>2, <1>4 DEF IInv, Shape
<1>6. Shape'
  <2>1. \A h \in Generator : slot'[h] # "free" =>
           generators'[h] \in Gen /\ generators'[h].next \in 1 .. Len(generators'[h].body) + 1
    BY <1>2, <1>3, <1>5 DEF IInv, Shape
  <2>2. QED BY <1>4, <1>5, <2>1 DEF IInv, Shape
<1>7. requests \in Nat /\ \A p \in Promise : p \in Nat
  BY BoundsAssumption DEF IInv, Shape, Promise
<1>8. \A p \in Promise : answers[p] # "free" => asked[p] \in Generator \ {g}
  <2>1. TAKE p \in Promise
  <2>2. HAVE answers[p] # "free"
  <2>3. ~(requests < p)
    BY <2>2 DEF IInv, Given
  <2>4. p <= requests
    BY <1>7, <2>3
  <2>5. QED BY <1>4, <2>4 DEF IInv, Given
<1>9. Given'
  BY <1>4, <1>5, <1>8 DEF IInv, Given
<1>10. InSlot'
  BY <1>2, <1>5 DEF IInv, InSlot, Agrees
<1>11. Frames'
  <2>1. ASSUME NEW i \in 1 .. Len(stack) PROVE FrameOK(stack[i])'
    <3>1. PICK f : f = stack[i]
      OBVIOUS
    <3>2. f \in Frame /\ FrameOK(f)
      BY <3>1 DEF IInv, Frames, Shape
    <3>3. f.generator \in Generator \ {g}
      BY <1>4, <3>2 DEF FrameOK, Frame
    <3>4. QED BY <1>4, <1>5, <3>1, <3>2, <3>3 DEF FrameOK
  <2>2. QED BY <1>4, <2>1 DEF IInv, Frames
<1>12. PendingIsOut' /\ PendingIsLast' /\ DoneIsCompleted'
  <2>1. PendingIsOut'
    BY <1>4, <1>5, <1>8 DEF IInv, PendingIsOut
  <2>2. PendingIsLast'
    BY <1>4 DEF IInv, PendingIsLast
  <2>3. DoneIsCompleted'
    BY <1>4, <1>5, <1>8 DEF IInv, DoneIsCompleted
  <2>4. QED BY <2>1, <2>2, <2>3
<1>13. NoReplay
  <2>1. \A h \in Generator : slot[h] # "free" => generators'[h].next >= generators[h].next
    <3>1. TAKE h \in Generator
    <3>2. HAVE slot[h] # "free"
    <3>3. generators[h].next \in Nat /\ h # g
      BY <1>4, <3>2 DEF IInv, Shape, Gen
    <3>4. QED BY <1>5, <3>3
  <2>2. QED BY <1>4, <2>1 DEF NoReplay
<1>14. QED BY <1>6, <1>9, <1>10, <1>11, <1>12, <1>13 DEF IInv


-----------------------------------------------------------------------------
(* The innermost generator goes on.                                        *)

LEMMA TopFrame ==
    ASSUME IInv, stack # << >>
    PROVE  /\ Top \in Frame /\ FrameOK(Top)
           /\ Top.generator \in Generator /\ Top.capability \in Promise
           /\ slot[Top.generator] # "free" /\ slot[Top.generator] # "some"
           /\ \A i \in 1 .. Len(Below) :
                 Below[i] \in Frame /\ FrameOK(Below[i]) /\ Below[i].generator # Top.generator
<1>1. /\ Len(stack) \in 1 .. Len(stack) /\ Top \in Frame
      /\ Below \in Seq(Frame) /\ Len(Below) = Len(stack) - 1
      /\ \A i \in 1 .. Len(Below) :
            i \in 1 .. Len(stack) /\ i # Len(stack) /\ Below[i] = stack[i]
  BY StackTop DEF IInv
<1>2. FrameOK(Top)
  BY <1>1 DEF IInv, Frames, Top
<1>3. \A i \in 1 .. Len(Below) :
         Below[i] \in Frame /\ FrameOK(Below[i]) /\ Below[i].generator # Top.generator
  BY <1>1 DEF IInv, Frames, Top
<1>4. Top.generator \in Generator /\ Top.capability \in Promise
  BY <1>1 DEF Frame
<1>5. slot[Top.generator] # "free" /\ slot[Top.generator] # "some"
  BY <1>2 DEF FrameOK
<1>6. QED BY <1>1, <1>2, <1>3, <1>4, <1>5

(* Frames that are not of g are untouched by a step of g, which answers    *)
(* the request of its own frame.                                           *)
LEMMA OthersStay ==
    ASSUME IInv, NEW f \in Frame, FrameOK(f), NEW g \in Generator, f.generator # g,
           \A h \in Generator \ {g} :
              slot'[h] = slot[h] /\ generators'[h] = generators[h],
           \A p \in Promise : asked[p] # g => answers'[p] = answers[p],
           UNCHANGED <<asked, requests>>
    PROVE  FrameOK(f)'
<1>1. f.generator \in Generator \ {g} /\ f.capability \in Promise
  BY DEF Frame
<1>2. answers'[f.capability] = answers[f.capability]
  BY <1>1 DEF FrameOK
<1>3. QED BY <1>1, <1>2 DEF FrameOK

(* The generator goes back into its slot with an answer to its request.    *)
LEMMA PutBackKeeps ==
    ASSUME IInv, phase = "running", stack # << >>, NEW g, g = Top.generator,
           NEW answer \in {"yielded", "done", "rejected"},
           Turned(g), Agrees(generators[g])',
           answer \in {"done", "rejected"} => generators'[g].completed,
           PutBack(answer)
    PROVE  IInv' /\ NoReplay
<1>1. PICK c, n : c = Top.capability /\ n = requests
  OBVIOUS
<1>2. /\ g \in Generator /\ c \in Promise /\ slot[g] = "none" /\ asked[c] = g
      /\ answers[c] = "pending" /\ ~generators[g].completed /\ c <= n
  BY <1>1, TopFrame DEF FrameOK
<1>3. /\ slot' = [slot EXCEPT ![g] = "some"] /\ answers' = [answers EXCEPT ![c] = answer]
      /\ stack' = Below /\ UNCHANGED <<queue, asked, requests, phase>>
  BY <1>1 DEF PutBack, Answer
<1>4. /\ slot' \in [Generator -> {"free", "some", "none"}] /\ slot'[g] = "some"
      /\ \A h \in Generator \ {g} : slot'[h] = slot[h]
      /\ answers' \in [Promise -> Answers] /\ answers'[c] = answer
      /\ \A p \in Promise \ {c} : answers'[p] = answers[p]
  BY <1>2, <1>3 DEF IInv, Shape, Answers
<1>5. \A h \in Generator \ {g} : generators'[h] = generators[h]
  BY DEF Turned
<1>6. \A p \in Promise : p \in Nat
  BY BoundsAssumption DEF Promise
<1>7. 0 \notin Generator
  BY BoundsAssumption DEF Generator
<1>8. ASSUME NEW p \in Promise \ {c}, asked[p] = g
      PROVE  answers[p] # "pending"
  <2>1. p < c \/ c < p
    BY <1>2, <1>6
  <2>2. CASE p < c
    BY <1>2, <1>7, <1>8, <2>2 DEF IInv, PendingIsLast
  <2>3. CASE c < p
    BY <1>2, <1>7, <1>8, <2>3 DEF IInv, PendingIsLast
  <2>4. QED BY <2>1, <2>2, <2>3
<1>9. Shape'
  <2>1. Below \in Seq(Frame)
    BY StackTop DEF IInv
  <2>2. \A h \in Generator : slot'[h] # "free" =>
           generators'[h] \in Gen /\ generators'[h].next \in 1 .. Len(generators'[h].body) + 1
    BY <1>4, <1>5 DEF IInv, Shape, Turned
  <2>3. generators' \in [Generator -> Gen \union {<< >>}]
    BY DEF Turned
  <2>4. QED BY <1>3, <1>4, <2>1, <2>2, <2>3 DEF IInv, Shape
<1>10. Given'
  BY <1>1, <1>2, <1>3, <1>4, <1>6 DEF IInv, Shape, Given
<1>11. InSlot'
  BY <1>4, <1>5 DEF IInv, InSlot, Agrees
<1>12. Frames'
  <2>1. ASSUME NEW i \in 1 .. Len(Below) PROVE FrameOK(stack[i])'
    <3>1. PICK f : f = Below[i]
      OBVIOUS
    <3>2. f \in Frame /\ FrameOK(f) /\ f.generator # g
      BY <3>1, TopFrame
    <3>3. FrameOK(f)'
      BY <1>2, <1>3, <1>4, <1>5, <3>2, OthersStay
    <3>4. stack'[i] = f
      BY <1>3, <3>1
    <3>5. QED BY <1>3, <3>3, <3>4 DEF FrameOK
  <2>2. \A i \in 1 .. Len(Below) :
           i \in 1 .. Len(stack) /\ Below[i] = stack[i]
    BY StackTop DEF IInv
  <2>3. QED BY <1>3, <2>1, <2>2 DEF IInv, Frames
<1>13. PendingIsOut'
  BY <1>2, <1>3, <1>4, <1>8 DEF IInv, PendingIsOut
<1>14. PendingIsLast'
  <2> SUFFICES ASSUME NEW p \in Promise, NEW r \in Promise, p < r,
                      asked[p] = asked[r], asked[p] # 0
               PROVE  /\ phase = "running" => answers'[p] # "pending"
                      /\ answers'[r] # "pending" => answers'[p] # "pending"
    BY <1>3 DEF PendingIsLast
  <2>1. answers'[p] = "pending" => answers[p] = "pending"
    BY <1>4
  <2>2. QED BY <2>1 DEF IInv, PendingIsLast
<1>15. DoneIsCompleted'
  <2> SUFFICES ASSUME NEW p \in Promise, answers'[p] \in {"done", "rejected"}
               PROVE  generators'[asked[p]].completed
    BY <1>3 DEF DoneIsCompleted
  <2>1. CASE p = c
    BY <1>2, <1>4, <2>1
  <2>2. CASE p # c
    <3>1. generators[asked[p]].completed
      BY <1>4, <2>2 DEF IInv, DoneIsCompleted
    <3>2. asked[p] # g
      BY <1>2, <3>1
    <3>3. ~(requests < p)
      BY <1>4, <2>2 DEF IInv, Given
    <3>4. p <= requests
      BY <1>6, <3>3 DEF IInv, Shape
    <3>5. asked[p] \in Generator
      BY <3>4 DEF IInv, Given
    <3>6. QED BY <1>5, <3>1, <3>2, <3>5
  <2>3. QED BY <2>1, <2>2
<1>16. NoReplay
  <2>1. \A h \in Generator : slot[h] # "free" => generators'[h].next >= generators[h].next
    <3>1. TAKE h \in Generator
    <3>2. HAVE slot[h] # "free"
    <3>3. generators[h].next \in Nat
      BY <3>2 DEF IInv, Shape, Gen
    <3>4. QED BY <1>5, <3>2, <3>3 DEF Turned
  <2>2. \A p \in Made : answers[p] # "pending" => answers'[p] = answers[p]
    <3>1. Made \subseteq Promise
      <4>1. requests \in 0 .. MaxRequests
        BY DEF IInv, Shape
      <4>2. QED BY <4>1, BoundsAssumption DEF Made, Promise
    <3>2. QED BY <1>2, <1>4, <3>1
  <2>3. ASSUME NEW p \in Promise, NEW r \in Promise, answers[p] \in {"done", "rejected"},
               asked[r] = asked[p]
        PROVE  r # c
    <3>1. generators[asked[p]].completed
      BY <2>3 DEF IInv, DoneIsCompleted
    <3>2. QED BY <1>2, <2>3, <3>1
  <2>4. QED BY <1>3, <1>4, <2>1, <2>2, <2>3 DEF NoReplay
<1>17. QED BY <1>9, <1>10, <1>11, <1>12, <1>13, <1>14, <1>15, <1>16 DEF IInv

(* The innermost generator stays out of its slot; only its record, and the *)
(* stage of its frame, change.                                             *)
LEMMA StayOutKeeps ==
    ASSUME IInv, stack # << >>, NEW g, g = Top.generator,
           Turned(g), generators'[g].completed = generators[g].completed,
           stack' \in Seq(Frame), Len(stack') = Len(stack),
           \A i \in 1 .. Len(stack) :
              /\ stack'[i].generator = stack[i].generator
              /\ stack'[i].capability = stack[i].capability,
           UNCHANGED <<slot, queue, answers, asked, requests, phase>>
    PROVE  IInv' /\ NoReplay
<1>1. g \in Generator /\ slot[g] = "none"
  BY TopFrame DEF FrameOK
<1>2. \A h \in Generator \ {g} : generators'[h] = generators[h]
  BY DEF Turned
<1>3. Shape'
  <2>1. \A h \in Generator : slot'[h] # "free" =>
           generators'[h] \in Gen /\ generators'[h].next \in 1 .. Len(generators'[h].body) + 1
    BY <1>2 DEF IInv, Shape, Turned
  <2>2. generators' \in [Generator -> Gen \union {<< >>}]
    BY DEF Turned
  <2>3. QED BY <2>1, <2>2 DEF IInv, Shape
<1>4. Given' /\ PendingIsOut' /\ PendingIsLast'
  BY DEF IInv, Given, PendingIsOut, PendingIsLast
<1>5. InSlot'
  BY <1>1, <1>2 DEF IInv, InSlot, Agrees
<1>6. \A h \in Generator : generators'[h].completed = generators[h].completed
  BY <1>2
<1>7. DoneIsCompleted'
  <2> SUFFICES ASSUME NEW p \in Promise, answers[p] \in {"done", "rejected"}
               PROVE  generators'[asked[p]].completed
    BY DEF DoneIsCompleted
  <2>1. p \in Nat /\ requests \in Nat
    BY BoundsAssumption DEF IInv, Shape, Promise
  <2>2. ~(requests < p)
    BY DEF IInv, Given
  <2>3. p <= requests
    BY <2>1, <2>2
  <2>4. asked[p] \in Generator /\ generators[asked[p]].completed
    BY <2>3 DEF IInv, Given, DoneIsCompleted
  <2>5. QED BY <1>6, <2>4
<1>8. Frames'
  <2>1. ASSUME NEW i \in 1 .. Len(stack) PROVE FrameOK(stack[i])'
    <3>1. PICK f, t : f = stack[i] /\ t = stack'[i]
      OBVIOUS
    <3>2. FrameOK(f) /\ f.generator \in Generator
      <4>1. stack \in Seq(Frame) /\ FrameOK(stack[i])
        BY DEF IInv, Frames, Shape
      <4>2. f \in Frame
        BY <3>1, <4>1
      <4>3. QED BY <3>1, <4>1, <4>2 DEF Frame
    <3>3. t.generator = f.generator /\ t.capability = f.capability
      BY <3>1
    <3>4. generators'[f.generator].completed = generators[f.generator].completed
      BY <1>6, <3>2
    <3>5. FrameOK(t)'
      <4>1. ~generators'[f.generator].completed
        BY <3>2, <3>4 DEF FrameOK
      <4>2. slot'[f.generator] = "none" /\ f.capability <= requests'
        BY <3>2 DEF FrameOK
      <4>3. asked'[f.capability] = f.generator /\ answers'[f.capability] = "pending"
        BY <3>2 DEF FrameOK
      <4>4. QED BY <3>3, <4>1, <4>2, <4>3 DEF FrameOK
    <3>6. QED BY <3>1, <3>5 DEF FrameOK
  <2>2. QED BY <2>1 DEF IInv, Frames
<1>9. NoReplay
  <2>1. \A h \in Generator : slot[h] # "free" => generators'[h].next >= generators[h].next
    <3>1. TAKE h \in Generator
    <3>2. HAVE slot[h] # "free"
    <3>3. generators[h].next \in Nat
      BY <3>2 DEF IInv, Shape, Gen
    <3>4. QED BY <1>2, <3>2, <3>3 DEF Turned
  <2>2. QED BY <2>1 DEF NoReplay
<1>10. QED BY <1>3, <1>4, <1>5, <1>7, <1>8, <1>9 DEF IInv

(* The record of g steps to n, with the action a and the state st.         *)
LEMMA SteppedTurns ==
    ASSUME Shape, NEW g \in Generator, slot[g] # "free",
           NEW n \in 1 .. Len(generators[g].body) + 1, n >= generators[g].next,
           NEW a \in Action \union {"none"}, NEW st \in States,
           generators' = [generators EXCEPT ![g] =
              [generators[g] EXCEPT !.next = n, !.action = a, !.state = st]]
    PROVE  /\ Turned(g)
           /\ generators'[g].completed = generators[g].completed
<1>1. PICK x : x = generators[g]
  OBVIOUS
<1>2. x \in Gen /\ Len(x.body) \in Nat /\ n \in Nat
  BY <1>1, BodiesAssumption, LenProperties DEF Shape, Gen
<1>3. PICK y : y = [x EXCEPT !.next = n, !.action = a, !.state = st]
  OBVIOUS
<1>4. /\ y \in Gen /\ y.body = x.body /\ y.next = n /\ y.action = a /\ y.state = st
      /\ y.completed = x.completed
  BY <1>2, <1>3 DEF Gen
<1>5. generators' = [generators EXCEPT ![g] = y]
  BY <1>1, <1>3
<1>6. /\ generators' \in [Generator -> Gen \union {<< >>}] /\ generators'[g] = y
      /\ \A h \in Generator \ {g} : generators'[h] = generators[h]
  BY <1>4, <1>5 DEF Shape
<1>7. Turned(g)
  BY <1>1, <1>4, <1>6 DEF Turned
<1>8. QED BY <1>1, <1>4, <1>6, <1>7

LEMMA BodyKeeps ==
    ASSUME IInv, Body
    PROVE  IInv' /\ NoReplay
<1>1. PICK g, x : g = Top.generator /\ x = generators[g]
  OBVIOUS
<1>2. phase = "running" /\ stack # << >> /\ Shape
  BY DEF Body, AssignReturns, AssignThrows, StatementEnds, StatementReturns,
         StatementThrows, Yield, BodyEnds, AtStatement, Running, IInv
<1>3. /\ g \in Generator /\ slot[g] # "free" /\ ~x.completed /\ x \in Gen
      /\ generators \in [Generator -> Gen \union {<< >>}]
      /\ Len(x.body) \in Nat /\ x.next \in 1 .. Len(x.body) + 1 /\ x.next >= x.next
      /\ x.action \in Action \union {"none"} /\ x.state \in States
  <2>1. g \in Generator /\ slot[g] # "free" /\ ~x.completed
    BY <1>1, <1>2, TopFrame DEF FrameOK
  <2>2. x \in Gen /\ x.next \in 1 .. Len(x.body) + 1
    BY <1>1, <1>2, <2>1 DEF Shape
  <2>3. Len(x.body) \in Nat
    BY <2>2, BodiesAssumption, LenProperties DEF Gen
  <2>4. QED BY <1>2, <2>1, <2>2, <2>3 DEF Gen, Shape
<1>4. NextStatement = x.next /\ Statements = x.body
  BY <1>1 DEF NextStatement, Statements
<1>5. ASSUME NEW n \in 1 .. Len(x.body) + 1, n >= x.next, NEW answer \in {"done", "rejected"},
             generators' = [Completed(g) EXCEPT ![g].next = n], PutBack(answer)
      PROVE  IInv' /\ NoReplay
  <2>1. PICK y : y = [x EXCEPT !.completed = TRUE, !.state = "Completed"]
    OBVIOUS
  <2>2. PICK a : a = x.action
    OBVIOUS
  <2>3. [y EXCEPT !.next = n]
          = [x EXCEPT !.completed = TRUE, !.state = "Completed", !.next = n, !.action = a]
    BY <1>3, <2>1, <2>2 DEF Gen
  <2>4. Completed(g) = [generators EXCEPT ![g] = y]
    BY <1>1, <1>3, <2>1 DEF Completed
  <2>5. generators' = [generators EXCEPT ![g] = [y EXCEPT !.next = n]]
    BY <1>3, <1>5, <2>4
  <2>6. generators' = [generators EXCEPT ![g] =
           [generators[g] EXCEPT !.completed = TRUE, !.state = "Completed",
                                 !.next = n, !.action = a]]
    BY <1>1, <2>3, <2>5
  <2>7. Turned(g) /\ Agrees(generators[g])' /\ generators'[g].completed
    BY <1>1, <1>2, <1>3, <1>5, <2>2, <2>6, CompletedTurns
  <2>8. QED BY <1>1, <1>2, <1>5, <2>7, PutBackKeeps
<1>6. CASE AssignReturns
  <2>1. PICK n, a, st : n = x.next /\ a = x.action /\ st = "Executing"
    OBVIOUS
  <2>2. [x EXCEPT !.state = "Executing"] = [x EXCEPT !.next = n, !.action = a, !.state = st]
    BY <1>3, <2>1 DEF Gen
  <2>3. generators' = [generators EXCEPT ![g] =
           [generators[g] EXCEPT !.next = n, !.action = a, !.state = st]]
    BY <1>1, <1>3, <1>6, <2>2 DEF AssignReturns
  <2>4. Turned(g) /\ generators'[g].completed = generators[g].completed
    BY <1>1, <1>2, <1>3, <2>1, <2>3, SteppedTurns DEF States
  <2>5. PICK b, f, t : b = Below /\ f = Top /\ t = [Top EXCEPT !.stage = "body"]
    OBVIOUS
  <2>6. /\ Len(stack) \in 1 .. Len(stack) /\ f \in Frame /\ f = stack[Len(stack)]
        /\ b \in Seq(Frame) /\ Len(b) = Len(stack) - 1
        /\ \A i \in 1 .. Len(b) : b[i] = stack[i]
    BY <1>2, <2>5, StackTop DEF Top
  <2>7. t \in Frame /\ t.generator = f.generator /\ t.capability = f.capability
    BY <2>5, <2>6 DEF Frame
  <2>8. stack' = Append(b, t)
    BY <1>6, <2>5 DEF AssignReturns
  <2>9. /\ stack' \in Seq(Frame) /\ Len(stack') = Len(b) + 1
        /\ \A i \in 1 .. Len(b) : stack'[i] = b[i]
        /\ stack'[Len(b) + 1] = t
    BY <2>6, <2>7, <2>8, AppendProperties
  <2>10. Len(stack') = Len(stack) /\ \A i \in 1 .. Len(stack) : i \in 1 .. Len(b) \/ i = Len(stack)
    BY <2>6, <2>9
  <2>11. \A i \in 1 .. Len(stack) :
            /\ stack'[i].generator = stack[i].generator
            /\ stack'[i].capability = stack[i].capability
    <3>1. TAKE i \in 1 .. Len(stack)
    <3>2. CASE i \in 1 .. Len(b)
      BY <2>6, <2>9, <3>2
    <3>3. CASE i = Len(stack)
      BY <2>6, <2>7, <2>9, <3>3
    <3>4. QED BY <2>10, <3>2, <3>3
  <2>12. UNCHANGED <<slot, queue, answers, asked, requests, phase>>
    BY <1>6 DEF AssignReturns
  <2>13. QED BY <1>1, <1>2, <2>4, <2>9, <2>10, <2>11, <2>12, StayOutKeeps
<1>7. CASE AssignThrows
  <2>1. stack' = Below /\ UNCHANGED <<generators, slot, queue, answers, asked, requests, phase>>
    BY <1>7 DEF AssignThrows
  <2>2. /\ Below \in Seq(Frame)
        /\ \A i \in 1 .. Len(Below) : i \in 1 .. Len(stack) /\ Below[i] = stack[i]
    BY <1>2, StackTop
  <2>3. Shape'
    BY <1>2, <2>1, <2>2 DEF Shape
  <2>4. Given' /\ PendingIsOut' /\ PendingIsLast' /\ DoneIsCompleted' /\ InSlot'
    BY <2>1 DEF IInv, Given, PendingIsOut, PendingIsLast, DoneIsCompleted, InSlot, Agrees
  <2>5. Frames'
    BY <2>1, <2>2 DEF IInv, Frames, FrameOK
  <2>6. NoReplay
    <3>1. \A h \in Generator : slot[h] # "free" => generators[h].next \in Nat
      BY <1>2 DEF Shape, Gen
    <3>2. \A n \in Nat : n >= n
      OBVIOUS
    <3>3. QED BY <2>1, <3>1, <3>2 DEF NoReplay
  <2>7. QED BY <2>3, <2>4, <2>5, <2>6 DEF IInv
<1>8. CASE StatementEnds
  <2>1. PICK n, a, st : n = x.next + 1 /\ a = x.action /\ st = x.state
    OBVIOUS
  <2>2. n \in 1 .. Len(x.body) + 1 /\ n >= x.next
    BY <1>3, <1>4, <1>8, <2>1 DEF StatementEnds, AtStatement
  <2>3. [x EXCEPT !.next = x.next + 1] = [x EXCEPT !.next = n, !.action = a, !.state = st]
    BY <1>3, <2>1 DEF Gen
  <2>4. generators' = [generators EXCEPT ![g] =
           [generators[g] EXCEPT !.next = n, !.action = a, !.state = st]]
    BY <1>1, <1>3, <1>8, <2>3 DEF StatementEnds
  <2>5. Turned(g) /\ generators'[g].completed = generators[g].completed
    <3>1. /\ n \in 1 .. Len(generators[g].body) + 1 /\ n >= generators[g].next
          /\ a \in Action \union {"none"} /\ st \in States
      BY <1>1, <1>3, <2>1, <2>2
    <3>2. QED BY <1>2, <1>3, <2>4, <3>1, SteppedTurns
  <2>6. UNCHANGED <<slot, queue, answers, asked, requests, phase, stack>>
    BY <1>8 DEF StatementEnds
  <2>7. stack \in Seq(Frame)
    BY <1>2 DEF Shape
  <2>8. QED BY <1>1, <1>2, <2>5, <2>6, <2>7, StayOutKeeps
<1>9. CASE StatementReturns
  <2>1. PICK n : n = x.next + 1
    OBVIOUS
  <2>2. n \in 1 .. Len(x.body) + 1 /\ n >= x.next
    BY <1>3, <1>4, <1>9, <2>1 DEF StatementReturns, AtStatement
  <2>3. Completed(g)[g].next = x.next
    BY <1>1, <1>3 DEF Completed, Gen
  <2>4. generators' = [Completed(g) EXCEPT ![g].next = n] /\ PutBack("done")
    BY <1>1, <1>9, <2>1, <2>3 DEF StatementReturns
  <2>5. QED BY <1>5, <2>2, <2>4
<1>10. CASE StatementThrows
  <2>1. PICK n : n = IF x.body[x.next] = "plain" THEN x.next + 1 ELSE x.next
    OBVIOUS
  <2>2. n \in 1 .. Len(x.body) + 1 /\ n >= x.next
    BY <1>3, <1>4, <1>10, <2>1 DEF StatementThrows, AtStatement
  <2>3. Completed(g)[g].next = x.next
    BY <1>1, <1>3 DEF Completed, Gen
  <2>4. generators' = [Completed(g) EXCEPT ![g].next = n] /\ PutBack("rejected")
    BY <1>1, <1>4, <1>10, <2>1, <2>3 DEF StatementThrows
  <2>5. QED BY <1>5, <2>2, <2>4
<1>11. CASE Yield
  <2>1. PICK n, a, st : n = x.next + 1 /\ a = x.body[x.next] /\ st = "SuspendedYield"
    OBVIOUS
  <2>2. n \in 1 .. Len(x.body) + 1 /\ n >= x.next /\ x.next \in 1 .. Len(x.body) /\ n # 1
    BY <1>3, <1>4, <1>11, <2>1 DEF Yield, AtStatement
  <2>3. x.body \in Seq(Statement)
    BY <1>3, BodiesAssumption DEF Gen
  <2>4. a \in Action /\ st \in States
    BY <1>4, <1>11, <2>1, <2>2, <2>3 DEF Yield, Statement, States
  <2>5. [x EXCEPT !.next = x.next + 1, !.action = x.body[x.next], !.state = "SuspendedYield"]
          = [x EXCEPT !.next = n, !.action = a, !.state = st]
    BY <2>1
  <2>6. generators' = [generators EXCEPT ![g] =
           [generators[g] EXCEPT !.next = n, !.action = a, !.state = st]]
    BY <1>1, <1>3, <1>4, <1>11, <2>5 DEF Yield
  <2>7. /\ Turned(g) /\ generators'[g].completed = generators[g].completed
        /\ generators'[g].next = n /\ generators'[g].action = a
        /\ generators'[g].state = st /\ generators'[g].body = x.body
    <3>1. /\ n \in 1 .. Len(generators[g].body) + 1 /\ n >= generators[g].next
          /\ a \in Action \union {"none"} /\ st \in States
      BY <1>1, <2>2, <2>4
    <3>2. g \in Generator /\ slot[g] # "free"
      BY <1>3
    <3>3. Turned(g) /\ generators'[g].completed = generators[g].completed
      BY <1>2, <2>6, <3>1, <3>2, SteppedTurns
    <3>4. /\ generators'[g].next = n /\ generators'[g].action = a
          /\ generators'[g].state = st /\ generators'[g].body = x.body
      <4>1. generators'[g] = [x EXCEPT !.next = n, !.action = a, !.state = st]
        BY <1>1, <1>3, <2>6
      <4>2. QED BY <1>3, <4>1 DEF Gen
    <3>5. QED BY <1>1, <3>3, <3>4
  <2>8. Agrees(generators[g])'
    <3>1. ~generators'[g].completed
      BY <1>1, <1>3, <2>7
    <3>2. n - 1 = x.next
      BY <1>3, <2>1
    <3>3. QED BY <2>1, <2>2, <2>7, <3>1, <3>2 DEF Agrees
  <2>9. PutBack("yielded")
    BY <1>11 DEF Yield
  <2>10. QED BY <1>1, <1>2, <2>7, <2>8, <2>9, PutBackKeeps
<1>12. CASE BodyEnds
  <2>1. PICK n : n = x.next
    OBVIOUS
  <2>2. PICK y : y = [x EXCEPT !.completed = TRUE, !.state = "Completed"]
    OBVIOUS
  <2>3. Completed(g) = [generators EXCEPT ![g] = y] /\ [y EXCEPT !.next = n] = y
    BY <1>1, <1>3, <2>1, <2>2 DEF Completed, Gen
  <2>4. Completed(g) = [Completed(g) EXCEPT ![g].next = n]
    BY <1>3, <2>3
  <2>5. generators' = [Completed(g) EXCEPT ![g].next = n] /\ PutBack("done")
    BY <1>1, <1>12, <2>4 DEF BodyEnds
  <2>6. QED BY <1>3, <1>5, <2>1, <2>5
<1>13. QED BY <1>6, <1>7, <1>8, <1>9, <1>10, <1>11, <1>12 DEF Body

LEMMA NextKeeps ==
    ASSUME IInv, [Next]_vars
    PROVE  IInv' /\ [NoReplay]_vars
<1>1. CASE UserCode
  <2>1. PICK g \in Generator :
           \/ \E body \in Bodies : CreateAsyncGenerator(g, body)
           \/ \E request \in Request : Ask(g, request)
           \/ AskTaken(g)
    BY <1>1 DEF UserCode
  <2>2. QED BY <2>1, CreateKeeps, AskKeeps, AskTakenKeeps
<1>2. CASE Body
  BY <1>2, BodyKeeps
<1>3. CASE UNCHANGED vars
  <2>1. Shape' /\ Given' /\ InSlot'
    BY <1>3 DEF IInv, Shape, Given, InSlot, Agrees, vars
  <2>2. Frames' /\ PendingIsOut' /\ PendingIsLast' /\ DoneIsCompleted'
    BY <1>3 DEF IInv, Frames, FrameOK, PendingIsOut, PendingIsLast, DoneIsCompleted, vars
  <2>3. QED BY <1>3, <2>1, <2>2 DEF IInv
<1>4. QED BY <1>1, <1>2, <1>3 DEF Next

-----------------------------------------------------------------------------
(* The theorems.                                                           *)

THEOREM InvariantAlways == Spec => []IInv
<1>1. IInv /\ [Next]_vars => IInv'
  BY NextKeeps
<1>2. QED BY InitIInv, <1>1, PTL DEF Spec

(* Every variable keeps its type: what create_async_generator made stays a *)
(* record of its body, and its position never runs past the end.           *)
THEOREM TypesAlways == Spec => []TypeOK
<1>1. IInv => TypeOK
  <2> SUFFICES ASSUME IInv PROVE TypeOK
    OBVIOUS
  <2>1. \A g \in Generator : slot[g] # "free" =>
           /\ generators[g].body \in Bodies
           /\ generators[g].next \in 1 .. Len(generators[g].body) + 1
           /\ generators[g].action \in Action \union {"none"}
           /\ generators[g].completed \in BOOLEAN
           /\ generators[g].state \in States
    BY DEF IInv, Shape, Gen
  <2>2. queue \in [Generator -> Seq(Promise)]
    BY EmptySeq DEF IInv, Shape
  <2>3. \A i \in DOMAIN stack : stack[i] \in Frame
    BY LenProperties DEF IInv, Shape
  <2>4. QED BY <2>1, <2>2, <2>3 DEF IInv, Shape, Answers, TypeOK
<1>2. QED BY <1>1, InvariantAlways, PTL

(* Whenever resume_async_generator has put a generator back, its completed *)
(* flag, the state of its object and what its next resumption has to do    *)
(* say the same of it, and no request is left in its queue.                *)
THEOREM RecordsAgreeAlways == Spec => []RecordsAgree
<1>1. IInv => RecordsAgree
  BY DEF IInv, Shape, InSlot, Agrees, RecordsAgree, Alive
<1>2. QED BY <1>1, InvariantAlways, PTL

(* A generator answers its requests in the order in which they were made,  *)
(* from wherever they were made and whatever its body does in between.     *)
THEOREM AnsweredInOrderAlways == Spec => []AnsweredInOrder
<1>1. IInv => AnsweredInOrder
  <2> SUFFICES ASSUME IInv, NEW p \in Made, NEW q \in Made, p < q, asked[p] = asked[q],
                      answers[q] # "pending"
               PROVE  answers[p] # "pending"
    BY DEF AnsweredInOrder
  <2>1. requests \in 0 .. MaxRequests
    BY DEF IInv, Shape
  <2>2. p \in Promise /\ q \in Promise /\ p <= requests
    BY <2>1, BoundsAssumption DEF Made, Promise
  <2>3. asked[p] # 0
    BY <2>2, BoundsAssumption DEF IInv, Given, Generator
  <2>4. QED BY <2>2, <2>3 DEF IInv, PendingIsLast
<1>2. QED BY <1>1, InvariantAlways, PTL

(* No step goes back in a body, changes an answer that was given, or       *)
(* yields a value of a generator that has answered that it is done.        *)
THEOREM NeverReplaysAlways == Spec => NeverReplays
<1>1. IInv /\ [Next]_vars => [NoReplay]_vars
  BY NextKeeps
<1>2. QED BY <1>1, InvariantAlways, PTL DEF Spec, NeverReplays, NoReplay

===============================================================================
