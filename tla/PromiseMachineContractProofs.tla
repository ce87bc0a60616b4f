---------------------- MODULE PromiseMachineContractProofs ----------------------
(***************************************************************************)
(* Proofs about PromiseMachine that rest on the identity of reactions: the *)
(* machine implements PromiseContract, a suspended async body is resumed   *)
(* once, and a promise nobody holds functions of has one thing to settle   *)
(* it.                                                                     *)
(*                                                                         *)
(* A reaction keeps its number (id) while it moves from the list of its    *)
(* promise to the queue and, with its job, into a frame of the control     *)
(* stack.  The invariant says that no number is in two places and that the *)
(* places are in the order of the numbers; q stands for the queue a step   *)
(* starts from, the queue itself or what is behind its head.               *)
(***************************************************************************)
EXTENDS PromiseMachineProofs

(* Numbers were given out: no place holds one that is still to come.       *)
Numbered(q) ==
    /\ \A p \in Promise : \A i \in 1 .. Len(reactions[p]) : reactions[p][i].id \in 1 .. attached
    /\ \A i \in 1 .. Len(q) : q[i].reaction.id \in 1 .. attached

(* Lists are in the order of attachment, and no two share a number.        *)
ListsOrdered ==
    \A p \in Promise : \A i, j \in 1 .. Len(reactions[p]) :
        i < j => reactions[p][i].id < reactions[p][j].id

ListsApart ==
    \A p, r \in Promise : p # r =>
        \A i \in 1 .. Len(reactions[p]), j \in 1 .. Len(reactions[r]) :
            reactions[p][i].id # reactions[r][j].id

(* So is the queue, as far as the jobs of one promise go.                  *)
QueueOrdered(q) ==
    \A i, j \in 1 .. Len(q) : i < j =>
        /\ q[i].reaction.id # q[j].reaction.id
        /\ q[i].reaction.source = q[j].reaction.source =>
              q[i].reaction.id < q[j].reaction.id

QueueApart(q) ==
    \A p \in Promise : \A i \in 1 .. Len(reactions[p]), j \in 1 .. Len(q) :
        reactions[p][i].id # q[j].reaction.id

Tickets(q) ==
    /\ Numbered(q)
    /\ ListsOrdered
    /\ ListsApart
    /\ QueueOrdered(q)
    /\ QueueApart(q)

(* The reaction x was taken out of the queue: its number is not there or   *)
(* in a list.                                                              *)
Taken(x, q) ==
    /\ x.id \in 1 .. attached
    /\ \A p \in Promise : \A i \in 1 .. Len(reactions[p]) : reactions[p][i].id # x.id
    /\ \A j \in 1 .. Len(q) : q[j].reaction.id # x.id

(* Frames with a job hold taken reactions, each another one.               *)
Bears(s, i) == i \in 1 .. Len(s) /\ s[i].kind \in {"callback", "resume"}

Borne(s, q) ==
    \A i \in 1 .. Len(s) : Bears(s, i) =>
        /\ Taken(s[i].job.reaction, q)
        /\ \A j \in 1 .. Len(s) : Bears(s, j) /\ i # j =>
              s[i].job.reaction.id # s[j].job.reaction.id

-----------------------------------------------------------------------------
(* What the steps of the heap do to the places.                            *)

(* Settling p: its list is appended to the queue.                          *)
Moved(p, q) ==
    /\ UNCHANGED attached
    /\ Len(reactions[p]) \in Nat /\ Len(q) \in Nat
    /\ Len(reactions'[p]) = 0
    /\ \A i \in 1 .. Len(reactions[p]) : reactions[p][i].source = p
    /\ \A y \in Promise \ {p} : reactions'[y] = reactions[y]
    /\ Len(jobs') = Len(q) + Len(reactions[p])
    /\ \A i \in 1 .. Len(q) : i \in 1 .. Len(jobs') /\ jobs'[i] = q[i]
    /\ \A i \in 1 .. Len(reactions[p]) :
          Len(q) + i \in 1 .. Len(jobs') /\ jobs'[Len(q) + i].reaction = reactions[p][i]
    /\ \A i \in 1 .. Len(jobs') : i \notin 1 .. Len(q) =>
          \E k \in 1 .. Len(reactions[p]) :
              i = Len(q) + k /\ jobs'[i].reaction = reactions[p][k]

LEMMA SettleMoves ==
    ASSUME HeapOK, NEW p \in Promise, NEW st \in Settled, NEW v \in Value,
           NEW q, QueueOK(q), Settle(p, st, v, q)
    PROVE  Moved(p, q)
<1>1. PICK rs, new : rs = reactions[p] /\ new = JobsOf(rs, st, v)
  OBVIOUS
<1>2. rs \in Seq(Reaction) /\ Len(rs) \in Nat
  BY <1>1, LenProperties DEF HeapOK
<1>3. /\ new \in Seq(Job) /\ Len(new) = Len(rs)
      /\ \A i \in 1 .. Len(rs) : new[i] = JobOf(rs[i], st, v)
  BY <1>1, <1>2, JobsMade
<1>4. q \in Seq(Job) /\ Len(q) \in Nat
  BY LenProperties DEF QueueOK
<1>5. jobs' = q \o new
  BY <1>1 DEF Settle, JobsOf, JobOf
<1>6. /\ Len(jobs') = Len(q) + Len(rs)
      /\ \A i \in 1 .. Len(q) + Len(rs) :
            jobs'[i] = IF i <= Len(q) THEN q[i] ELSE new[i - Len(q)]
  <2>1. /\ Len(q \o new) = Len(q) + Len(new)
        /\ \A i \in 1 .. Len(q) + Len(new) :
              (q \o new)[i] = IF i <= Len(q) THEN q[i] ELSE new[i - Len(q)]
    BY <1>3, <1>4, ConcatProperties
  <2>2. QED BY <1>3, <1>5, <2>1
<1>7. ASSUME NEW i \in 1 .. Len(rs)
      PROVE  Len(q) + i \in 1 .. Len(jobs') /\ jobs'[Len(q) + i].reaction = rs[i]
  <2>1. jobs'[Len(q) + i] = JobOf(rs[i], st, v)
    BY <1>2, <1>3, <1>4, <1>6
  <2>2. QED BY <1>2, <1>4, <1>6, <2>1 DEF JobOf
<1>8. /\ UNCHANGED attached /\ reactions'[p] = << >>
      /\ \A y \in Promise \ {p} : reactions'[y] = reactions[y]
  BY DEF Settle, HeapOK
<1>9. ASSUME NEW i \in 1 .. Len(jobs'), i \notin 1 .. Len(q)
      PROVE  \E k \in 1 .. Len(rs) : i = Len(q) + k /\ jobs'[i].reaction = rs[k]
  <2>1. i - Len(q) \in 1 .. Len(rs) /\ i = Len(q) + (i - Len(q))
    BY <1>2, <1>4, <1>6, <1>9
  <2>2. QED BY <1>7, <2>1
<1>10. \A i \in 1 .. Len(q) : i \in 1 .. Len(jobs') /\ jobs'[i] = q[i]
  BY <1>2, <1>4, <1>6
<1>11. Len(reactions'[p]) = 0
  BY <1>8, EmptySeq
<1>12. \A i \in 1 .. Len(reactions[p]) : reactions[p][i].source = p
  BY DEF HeapOK, ListOK
<1>13. QED BY <1>1, <1>2, <1>4, <1>6, <1>7, <1>8, <1>9, <1>10, <1>11, <1>12 DEF Moved

(* An attachment: a new number goes to the end of a list or of the queue.  *)
Grown(s, t, x) ==
    /\ Len(s) \in Nat /\ Len(t) = Len(s) + 1
    /\ \A i \in 1 .. Len(s) : i \in 1 .. Len(t) /\ t[i] = s[i]
    /\ Len(s) + 1 \in 1 .. Len(t) /\ t[Len(s) + 1] = x
    /\ \A i \in 1 .. Len(t) : i \in 1 .. Len(s) \/ i = Len(s) + 1

NewNumber(r) == r = attached + 1 /\ attached' = attached + 1

JoinedList(x, src, q) ==
    /\ NewNumber(x.id) /\ x.source = src
    /\ Grown(reactions[src], reactions'[src], x)
    /\ \A y \in Promise \ {src} : reactions'[y] = reactions[y]
    /\ jobs' = q

JoinedQueue(x, src, q) ==
    /\ NewNumber(x.id) /\ x.source = src
    /\ UNCHANGED reactions
    /\ \E job : job.reaction = x /\ Grown(q, jobs', job)

Joined(x, src, q) == JoinedList(x, src, q) \/ JoinedQueue(x, src, q)

(* What is appended to a sequence of frames leaves one.                    *)
LEMMA AppendedFrames ==
    ASSUME NEW t, NEW f, t \in Seq(Frame), f \in Frame
    PROVE  Append(t, f) \in Seq(Frame)
BY AppendProperties

LEMMA AppendGrows ==
    ASSUME NEW S, NEW s \in Seq(S), NEW x \in S
    PROVE  Grown(s, Append(s, x), x)
<1>1. PICK t : t = Append(s, x)
  OBVIOUS
<1>2. /\ Len(s) \in Nat /\ Len(t) = Len(s) + 1 /\ t[Len(s) + 1] = x
      /\ \A i \in 1 .. Len(s) : t[i] = s[i]
  BY <1>1, AppendProperties, LenProperties
<1>3. Grown(s, t, x)
  BY <1>2 DEF Grown
<1>4. QED BY <1>1, <1>3

LEMMA AttachJoins ==
    ASSUME HeapOK, NEW src \in Live, NEW f \in Handler, NEW r \in Handler,
           NEW next \in Promise, NEW finally \in BOOLEAN,
           NEW q, QueueOK(q), Attach(src, f, r, next, finally, q)
    PROVE  Joined(NewReaction(src, f, r, next, finally), src, q)
<1>1. PICK x : x = NewReaction(src, f, r, next, finally)
  OBVIOUS
<1>2. src \in Promise /\ state[src] # "free"
  BY DEF Live
<1>3. PICK job : job = JobOf(x, state[src], result[src])
  OBVIOUS
<1>4. attached' = attached + 1 /\ attached \in Nat
  BY ProgramsAssumption, BoundsAssumption DEF Attach, HeapOK
<1>5. IF state[src] = "pending"
      THEN reactions' = [reactions EXCEPT ![src] = Append(reactions[src], x)] /\ jobs' = q
      ELSE jobs' = Append(q, job) /\ reactions' = reactions
  BY <1>1, <1>3 DEF Attach, JobOf
<1>6. x \in Reaction /\ x.source = src /\ x.id = attached + 1
  BY <1>1, <1>2, <1>4 DEF NewReaction, Reaction
<1>7. CASE state[src] = "pending"
  <2>1. reactions[src] \in Seq(Reaction)
    BY <1>2 DEF HeapOK
  <2>2. reactions'[src] = Append(reactions[src], x)
        /\ \A y \in Promise \ {src} : reactions'[y] = reactions[y]
    BY <1>2, <1>5, <1>7 DEF HeapOK
  <2>3. Grown(reactions[src], reactions'[src], x)
    BY <1>6, <2>1, <2>2, AppendGrows
  <2>4. QED BY <1>1, <1>4, <1>5, <1>6, <1>7, <2>2, <2>3 DEF Joined, JoinedList, NewNumber
<1>8. CASE state[src] # "pending"
  <2>1. state[src] \in Settled /\ result[src] \in Value
    BY <1>2, <1>8 DEF HeapOK, State
  <2>2. job \in Job /\ job.reaction = x
    BY <1>3, <1>6, <2>1 DEF JobOf, Job
  <2>3. Grown(q, jobs', job)
    BY <1>5, <1>8, <2>2, AppendGrows DEF QueueOK
  <2>4. QED BY <1>1, <1>4, <1>5, <1>6, <1>8, <2>2, <2>3 DEF Joined, JoinedQueue, NewNumber
<1>9. QED BY <1>7, <1>8

-----------------------------------------------------------------------------
(* Moving and joining keep the places in order.                            *)

LEMMA MovedTickets ==
    ASSUME HeapOK, NEW p \in Promise, state[p] \notin Settled,
           NEW q, QueueOK(q), Tickets(q), Moved(p, q)
    PROVE  Tickets(jobs)'
<1>1. ASSUME NEW i \in 1 .. Len(jobs')
      PROVE  \/ i \in 1 .. Len(q) /\ jobs'[i] = q[i]
             \/ \E k \in 1 .. Len(reactions[p]) :
                   i = Len(q) + k /\ jobs'[i].reaction = reactions[p][k]
  BY DEF Moved
<1>2. \A y \in Promise : \A i \in 1 .. Len(reactions'[y]) :
         y # p /\ reactions'[y] = reactions[y] /\ i \in 1 .. Len(reactions[y])
  BY DEF Moved
<1>3. attached' = attached /\ attached \in Nat
  BY ProgramsAssumption, BoundsAssumption DEF Moved, HeapOK
<1>4. Numbered(jobs)'
  BY <1>1, <1>2, <1>3 DEF Tickets, Numbered
<1>5. ListsOrdered' /\ ListsApart'
  <2>1. ListsOrdered /\ ListsApart
    BY DEF Tickets
  <2>2. ListsOrdered'
    BY <1>2, <2>1 DEF ListsOrdered
  <2>3. ListsApart'
    BY <1>2, <2>1 DEF ListsApart
  <2>4. QED BY <2>2, <2>3
<1>6. \A k \in 1 .. Len(q) : q[k].reaction.source # p
  <2>1. TAKE k \in 1 .. Len(q)
  <2>2. JobOK(q[k]) /\ q[k].state \in Settled
    BY <2>1 DEF QueueOK, JobOK, Job
  <2>3. state[q[k].reaction.source] = q[k].state
    BY <2>2 DEF JobOK
  <2>4. QED BY <2>2, <2>3
<1>7. QueueOrdered(jobs)'
  <2> SUFFICES ASSUME NEW i \in 1 .. Len(jobs'), NEW j \in 1 .. Len(jobs'), i < j
               PROVE  /\ jobs'[i].reaction.id # jobs'[j].reaction.id
                      /\ jobs'[i].reaction.source = jobs'[j].reaction.source =>
                            jobs'[i].reaction.id < jobs'[j].reaction.id
    BY DEF QueueOrdered
  <2>1. CASE i \in 1 .. Len(q) /\ j \in 1 .. Len(q)
    <3>1. jobs'[i] = q[i] /\ jobs'[j] = q[j]
      BY <2>1 DEF Moved
    <3>2. QED BY <2>1, <3>1 DEF Tickets, QueueOrdered
  <2>2. CASE i \in 1 .. Len(q) /\ j \notin 1 .. Len(q)
    <3>1. PICK k \in 1 .. Len(reactions[p]) : jobs'[j].reaction = reactions[p][k]
      BY <1>1, <2>2
    <3>2. reactions[p][k].id # q[i].reaction.id /\ reactions[p][k].source = p
      BY <2>2, <3>1 DEF Tickets, QueueApart, Moved
    <3>3. jobs'[i] = q[i] /\ q[i].reaction.source # p
      BY <1>6, <2>2 DEF Moved
    <3>4. QED BY <3>1, <3>2, <3>3
  <2>3. CASE i \notin 1 .. Len(q)
    <3>1. j \notin 1 .. Len(q)
      BY <2>3 DEF Moved
    <3>2. PICK k \in 1 .. Len(reactions[p]) :
              i = Len(q) + k /\ jobs'[i].reaction = reactions[p][k]
      BY <1>1, <2>3
    <3>3. PICK l \in 1 .. Len(reactions[p]) :
              j = Len(q) + l /\ jobs'[j].reaction = reactions[p][l]
      BY <1>1, <3>1
    <3>4. k < l
      BY <3>2, <3>3 DEF Moved
    <3>5. reactions[p][k].id < reactions[p][l].id
      BY <3>4 DEF Tickets, ListsOrdered
    <3>6. reactions[p][k].id \in Nat /\ reactions[p][l].id \in Nat
      BY <1>3 DEF Tickets, Numbered
    <3>7. QED BY <3>2, <3>3, <3>5, <3>6
  <2>4. QED BY <2>1, <2>2, <2>3
<1>8. QueueApart(jobs)'
  <2> SUFFICES ASSUME NEW y \in Promise, NEW i \in 1 .. Len(reactions'[y]),
                      NEW j \in 1 .. Len(jobs')
               PROVE  reactions'[y][i].id # jobs'[j].reaction.id
    BY DEF QueueApart
  <2>1. y # p /\ reactions'[y] = reactions[y] /\ i \in 1 .. Len(reactions[y])
    BY <1>2
  <2>2. CASE j \in 1 .. Len(q)
    BY <2>1, <2>2 DEF Tickets, QueueApart, Moved
  <2>3. CASE j \notin 1 .. Len(q)
    <3>1. PICK k \in 1 .. Len(reactions[p]) : jobs'[j].reaction = reactions[p][k]
      BY <1>1, <2>3
    <3>2. reactions[y][i].id # reactions[p][k].id
      BY <2>1, <3>1 DEF Tickets, ListsApart
    <3>3. QED BY <2>1, <3>1, <3>2
  <2>4. QED BY <2>2, <2>3
<1>9. QED BY <1>4, <1>5, <1>7, <1>8 DEF Tickets

LEMMA MovedTaken ==
    ASSUME NEW p \in Promise, NEW q, Moved(p, q), NEW x, Taken(x, q)
    PROVE  Taken(x, jobs)'
<1>1. attached' = attached
  BY DEF Moved
<1>2. \A y \in Promise : \A i \in 1 .. Len(reactions'[y]) :
         reactions'[y] = reactions[y] /\ i \in 1 .. Len(reactions[y])
  BY DEF Moved
<1>3. ASSUME NEW i \in 1 .. Len(jobs')
      PROVE  jobs'[i].reaction.id # x.id
  <2>1. CASE i \in 1 .. Len(q)
    BY <2>1 DEF Moved, Taken
  <2>2. CASE i \notin 1 .. Len(q)
    <3>1. \E k \in 1 .. Len(reactions[p]) : jobs'[i].reaction = reactions[p][k]
      BY <2>2 DEF Moved
    <3>2. QED BY <3>1 DEF Taken
  <2>3. QED BY <2>1, <2>2
<1>4. QED BY <1>1, <1>2, <1>3 DEF Taken

(* A new number is greater than all there are, so joining keeps the order. *)
LEMMA JoinedListTickets ==
    ASSUME HeapOK, NEW src \in Promise, NEW x, NEW q, Tickets(q), JoinedList(x, src, q)
    PROVE  Tickets(jobs)'
<1>1. attached \in Nat /\ attached' = attached + 1 /\ jobs' = q /\ x.id = attached + 1
  BY ProgramsAssumption, BoundsAssumption DEF HeapOK, JoinedList, NewNumber
<1>2. PICK s, t : s = reactions[src] /\ t = reactions'[src]
  OBVIOUS
<1>3. Grown(s, t, x) /\ \A y \in Promise \ {src} : reactions'[y] = reactions[y]
  BY <1>2 DEF JoinedList
<1>4. ASSUME NEW y \in Promise, NEW i \in 1 .. Len(reactions'[y])
      PROVE  \/ i \in 1 .. Len(reactions[y]) /\ reactions'[y][i] = reactions[y][i]
             \/ y = src /\ i = Len(s) + 1 /\ reactions'[y][i].id = attached + 1
  BY <1>1, <1>2, <1>3 DEF Grown
<1>5. \A y \in Promise : \A i \in 1 .. Len(reactions[y]) : reactions[y][i].id \in 1 .. attached
  BY DEF Tickets, Numbered
<1>6. \A i \in 1 .. Len(q) : q[i].reaction.id \in 1 .. attached
  BY DEF Tickets, Numbered
<1>7. Numbered(jobs)'
  <2>1. ASSUME NEW y \in Promise, NEW i \in 1 .. Len(reactions'[y])
        PROVE  reactions'[y][i].id \in 1 .. attached'
    <3>1. CASE i \in 1 .. Len(reactions[y]) /\ reactions'[y][i] = reactions[y][i]
      <4>1. reactions'[y][i].id \in 1 .. attached
        BY <1>5, <3>1
      <4>2. QED BY <1>1, <4>1
    <3>2. CASE reactions'[y][i].id = attached + 1
      BY <1>1, <3>2
    <3>3. QED BY <1>4, <2>1, <3>1, <3>2
  <2>2. ASSUME NEW i \in 1 .. Len(jobs')
        PROVE  jobs'[i].reaction.id \in 1 .. attached'
    BY <1>1, <1>6
  <2>3. QED BY <2>1, <2>2 DEF Numbered
<1>8. ListsOrdered'
  <2> SUFFICES ASSUME NEW y \in Promise, NEW i \in 1 .. Len(reactions'[y]),
                      NEW j \in 1 .. Len(reactions'[y]), i < j
               PROVE  reactions'[y][i].id < reactions'[y][j].id
    BY DEF ListsOrdered
  <2>1. Len(s) \in Nat /\ Len(t) = Len(s) + 1
    BY <1>3 DEF Grown
  <2>2. i \in 1 .. Len(reactions[y]) /\ reactions'[y][i] = reactions[y][i]
    <3>1. CASE y # src
      BY <1>3, <3>1
    <3>2. CASE y = src
      BY <1>2, <1>3, <2>1, <3>2 DEF Grown
    <3>3. QED BY <3>1, <3>2
  <2>3. CASE j \in 1 .. Len(reactions[y]) /\ reactions'[y][j] = reactions[y][j]
    BY <2>2, <2>3 DEF Tickets, ListsOrdered
  <2>4. CASE reactions'[y][j].id = attached + 1
    BY <1>1, <1>5, <2>2, <2>4
  <2>5. QED BY <1>4, <2>3, <2>4
<1>9. ListsApart'
  <2> SUFFICES ASSUME NEW y \in Promise, NEW z \in Promise, y # z,
                      NEW i \in 1 .. Len(reactions'[y]), NEW j \in 1 .. Len(reactions'[z])
               PROVE  reactions'[y][i].id # reactions'[z][j].id
    BY DEF ListsApart
  <2>1. CASE /\ i \in 1 .. Len(reactions[y]) /\ reactions'[y][i] = reactions[y][i]
             /\ j \in 1 .. Len(reactions[z]) /\ reactions'[z][j] = reactions[z][j]
    BY <2>1 DEF Tickets, ListsApart
  <2>2. CASE reactions'[y][i].id = attached + 1 /\ y = src
    <3>1. j \in 1 .. Len(reactions[z]) /\ reactions'[z][j] = reactions[z][j]
      BY <1>4, <2>2
    <3>2. QED BY <1>1, <1>5, <2>2, <3>1
  <2>3. CASE reactions'[z][j].id = attached + 1 /\ z = src
    <3>1. i \in 1 .. Len(reactions[y]) /\ reactions'[y][i] = reactions[y][i]
      BY <1>4, <2>3
    <3>2. QED BY <1>1, <1>5, <2>3, <3>1
  <2>4. QED BY <1>4, <2>1, <2>2, <2>3
<1>10. QueueOrdered(jobs)'
  BY <1>1 DEF Tickets, QueueOrdered
<1>11. QueueApart(jobs)'
  <2> SUFFICES ASSUME NEW y \in Promise, NEW i \in 1 .. Len(reactions'[y]),
                      NEW j \in 1 .. Len(q)
               PROVE  reactions'[y][i].id # q[j].reaction.id
    BY <1>1 DEF QueueApart
  <2>1. CASE i \in 1 .. Len(reactions[y]) /\ reactions'[y][i] = reactions[y][i]
    BY <2>1 DEF Tickets, QueueApart
  <2>2. CASE reactions'[y][i].id = attached + 1
    BY <1>1, <1>6, <2>2
  <2>3. QED BY <1>4, <2>1, <2>2
<1>12. QED BY <1>7, <1>8, <1>9, <1>10, <1>11 DEF Tickets

LEMMA JoinedQueueTickets ==
    ASSUME HeapOK, NEW src \in Promise, NEW x, NEW q, Tickets(q), JoinedQueue(x, src, q)
    PROVE  Tickets(jobs)'
<1>1. attached \in Nat /\ attached' = attached + 1 /\ reactions' = reactions /\ x.id = attached + 1
  BY ProgramsAssumption, BoundsAssumption DEF HeapOK, JoinedQueue, NewNumber
<1>2. PICK t : t = jobs'
  OBVIOUS
<1>3. PICK job : job.reaction = x /\ Grown(q, t, job)
  BY <1>2 DEF JoinedQueue
<1>4. \A i \in 1 .. Len(t) : \/ i \in 1 .. Len(q) /\ t[i] = q[i]
                             \/ i = Len(q) + 1 /\ t[i].reaction.id = attached + 1
  BY <1>1, <1>3 DEF Grown
<1>5. \A y \in Promise : \A i \in 1 .. Len(reactions[y]) : reactions[y][i].id \in 1 .. attached
  BY DEF Tickets, Numbered
<1>6. \A i \in 1 .. Len(q) : q[i].reaction.id \in 1 .. attached
  BY DEF Tickets, Numbered
<1>7. Numbered(jobs)'
  <2>1. ASSUME NEW y \in Promise, NEW i \in 1 .. Len(reactions'[y])
        PROVE  reactions'[y][i].id \in 1 .. attached'
    BY <1>1, <1>5
  <2>2. ASSUME NEW i \in 1 .. Len(jobs')
        PROVE  jobs'[i].reaction.id \in 1 .. attached'
    BY <1>1, <1>2, <1>4, <1>6
  <2>3. QED BY <2>1, <2>2 DEF Numbered
<1>8. ListsOrdered' /\ ListsApart'
  BY <1>1 DEF Tickets, ListsOrdered, ListsApart
<1>9. QueueOrdered(jobs)'
  <2> SUFFICES ASSUME NEW i \in 1 .. Len(t), NEW j \in 1 .. Len(t), i < j
               PROVE  /\ t[i].reaction.id # t[j].reaction.id
                      /\ t[i].reaction.source = t[j].reaction.source =>
                            t[i].reaction.id < t[j].reaction.id
    BY <1>2 DEF QueueOrdered
  <2>1. Len(q) \in Nat /\ Len(t) = Len(q) + 1
    BY <1>3 DEF Grown
  <2>2. i \in 1 .. Len(q) /\ t[i] = q[i]
    BY <1>4, <2>1
  <2>3. CASE j \in 1 .. Len(q) /\ t[j] = q[j]
    BY <2>2, <2>3 DEF Tickets, QueueOrdered
  <2>4. CASE t[j].reaction.id = attached + 1
    BY <1>1, <1>6, <2>2, <2>4
  <2>5. QED BY <1>4, <2>3, <2>4
<1>10. QueueApart(jobs)'
  <2> SUFFICES ASSUME NEW y \in Promise, NEW i \in 1 .. Len(reactions[y]),
                      NEW j \in 1 .. Len(t)
               PROVE  reactions[y][i].id # t[j].reaction.id
    BY <1>1, <1>2 DEF QueueApart
  <2>1. CASE j \in 1 .. Len(q) /\ t[j] = q[j]
    BY <2>1 DEF Tickets, QueueApart
  <2>2. CASE t[j].reaction.id = attached + 1
    BY <1>1, <1>5, <2>2
  <2>3. QED BY <1>4, <2>1, <2>2
<1>11. QED BY <1>7, <1>8, <1>9, <1>10 DEF Tickets

LEMMA JoinedTaken ==
    ASSUME HeapOK, NEW src \in Promise, NEW y, NEW q, Joined(y, src, q), NEW x, Taken(x, q)
    PROVE  Taken(x, jobs)'
<1>1. /\ attached \in Nat /\ attached' = attached + 1 /\ x.id \in 1 .. attached
      /\ y.id = attached + 1
  BY ProgramsAssumption, BoundsAssumption
     DEF HeapOK, Joined, JoinedList, JoinedQueue, NewNumber, Taken
<1>2. ASSUME NEW z \in Promise, NEW i \in 1 .. Len(reactions'[z])
      PROVE  reactions'[z][i].id # x.id
  <2>1. CASE reactions'[z] = reactions[z]
    BY <2>1 DEF Taken
  <2>2. CASE z = src /\ JoinedList(y, src, q)
    <3>1. PICK s, t : s = reactions[src] /\ t = reactions'[src]
      OBVIOUS
    <3>2. Grown(s, t, y)
      BY <2>2, <3>1 DEF JoinedList
    <3>3. (i \in 1 .. Len(s) /\ t[i] = s[i]) \/ t[i] = y
      BY <2>2, <3>1, <3>2 DEF Grown
    <3>4. QED BY <1>1, <2>2, <3>1, <3>3 DEF Taken
  <2>3. QED BY <2>1, <2>2 DEF Joined, JoinedList, JoinedQueue
<1>3. ASSUME NEW i \in 1 .. Len(jobs')
      PROVE  jobs'[i].reaction.id # x.id
  <2>1. CASE JoinedList(y, src, q)
    BY <2>1 DEF JoinedList, Taken
  <2>2. CASE JoinedQueue(y, src, q)
    <3>1. PICK t : t = jobs'
      OBVIOUS
    <3>2. PICK job : job.reaction = y /\ Grown(q, t, job)
      BY <2>2, <3>1 DEF JoinedQueue
    <3>3. (i \in 1 .. Len(q) /\ t[i] = q[i]) \/ t[i] = job
      BY <3>1, <3>2 DEF Grown
    <3>4. QED BY <1>1, <3>1, <3>2, <3>3 DEF Taken
  <2>3. QED BY <2>1, <2>2 DEF Joined
<1>4. x.id \in 1 .. attached'
  BY <1>1
<1>5. QED BY <1>2, <1>3, <1>4 DEF Taken

-----------------------------------------------------------------------------
(* The steps, told apart by what they do to places, frames and tasks.      *)

OthersStay(p) == \A o \in Promise \ {p} : state'[o] = state[o]

Idle(q) == jobs' = q /\ UNCHANGED <<state, reactions, attached>>

Settling(p, q) ==
    /\ state[p] \notin Settled /\ state'[p] \in Settled /\ OthersStay(p)
    /\ Moved(p, q)

Attaching(x, q) ==
    /\ x.next \in Promise /\ OthersStay(x.next)
    /\ state'[x.next] = IF state[x.next] = "free" THEN "pending" ELSE state[x.next]
    /\ \E src \in Promise : Joined(x, src, q)

Birth(p) ==
    /\ state[p] = "free" /\ state'[p] = "pending" /\ OthersStay(p)
    /\ UNCHANGED <<reactions, jobs, attached>>

Attached(f, r, next, q) ==
    \E x : x.next = next /\ x.fulfilled = f /\ x.rejected = r /\ Attaching(x, q)

(* A reaction that resumes no task.                                        *)
Ordinary(x) == x.fulfilled.kind # "resume" /\ x.rejected.kind # "resume"

(* The end of what was to settle p: p is settled now if it was not, or     *)
(* waits for another promise.                                              *)
Disposes(p, q) ==
    /\ p \in Promise
    /\ \/ state[p] = "pending" /\ Settling(p, q)
       \/ state[p] # "pending" /\ Idle(q)
       \/ \E x : x.next = p /\ Ordinary(x) /\ Attaching(x, q)

LEMMA SettlesThere ==
    ASSUME HeapOK, NEW p \in Promise, state[p] \notin Settled, NEW st \in Settled, NEW v \in Value,
           NEW q, QueueOK(q), Settle(p, st, v, q)
    PROVE  Settling(p, q)
<1>1. Moved(p, q)
  BY SettleMoves
<1>2. state'[p] = st /\ OthersStay(p)
  BY DEF Settle, HeapOK, OthersStay
<1>3. QED BY <1>1, <1>2 DEF Settling

LEMMA AttachesThere ==
    ASSUME HeapOK, NEW src \in Live, NEW f \in Handler, NEW r \in Handler,
           NEW next \in Promise, NEW finally \in BOOLEAN,
           NEW q, QueueOK(q), Attach(src, f, r, next, finally, q)
    PROVE  Attached(f, r, next, q)
<1>1. PICK x : x = NewReaction(src, f, r, next, finally)
  OBVIOUS
<1>2. x.next = next /\ x.fulfilled = f /\ x.rejected = r
  BY <1>1 DEF NewReaction
<1>3. Joined(x, src, q) /\ src \in Promise
  BY <1>1, AttachJoins DEF Live
<1>4. state' = [state EXCEPT ![next] = IF state[next] = "free" THEN "pending" ELSE state[next]]
  BY DEF Attach
<1>5. /\ state'[next] = (IF state[next] = "free" THEN "pending" ELSE state[next])
      /\ OthersStay(next)
  BY <1>4 DEF HeapOK, OthersStay
<1>6. Attaching(x, q)
  BY <1>2, <1>3, <1>5 DEF Attaching
<1>7. QED BY <1>2, <1>6 DEF Attached

LEMMA ResolvesThere ==
    ASSUME HeapOK, NEW p \in Promise, state[p] \notin Settled,
           NEW v \in Value, v \in Promise => v \in Live,
           NEW q, QueueOK(q), ResolveInto(p, v, q)
    PROVE  Settling(p, q) \/ \E x : x.next = p /\ Ordinary(x) /\ Attaching(x, q)
<1>1. CASE v \notin Promise
  <2>1. Settle(p, "fulfilled", v, q)
    BY <1>1 DEF ResolveInto
  <2>2. QED BY <2>1, SettlesThere DEF Settled
<1>2. CASE v = p
  <2>1. Settle(p, "rejected", CycleError, q) /\ CycleError \in Value
    BY <1>2 DEF ResolveInto, Value
  <2>2. QED BY <2>1, SettlesThere DEF Settled
<1>3. CASE v \in Promise /\ v # p
  <2>1. Attach(v, NoHandler, NoHandler, p, FALSE, q) /\ v \in Live
    BY <1>3 DEF ResolveInto
  <2>2. NoHandler \in Handler /\ NoHandler.kind # "resume"
    BY DEF Handler, NoHandler
  <2>3. Attached(NoHandler, NoHandler, p, q)
    BY <2>1, <2>2, AttachesThere
  <2>4. QED BY <2>2, <2>3 DEF Attached, Ordinary
<1>4. QED BY <1>1, <1>2, <1>3

LEMMA DisposesSettle ==
    ASSUME HeapOK, NEW p \in Promise, NEW st \in Settled, NEW v \in Value,
           NEW q, QueueOK(q), IfPending(p, q, Settle(p, st, v, q))
    PROVE  Disposes(p, q)
<1>1. CASE state[p] = "pending" /\ Settle(p, st, v, q)
  BY <1>1, SettlesThere DEF Disposes, Settled
<1>2. CASE state[p] # "pending" /\ jobs' = q /\ UNCHANGED <<cells, tracking, attached>>
  BY <1>2 DEF Disposes, Idle, cells
<1>3. QED BY <1>1, <1>2 DEF IfPending

LEMMA DisposesResolve ==
    ASSUME HeapOK, NEW p \in Promise, NEW v \in Value, v \in Promise => v \in Live,
           NEW q, QueueOK(q), IfPending(p, q, ResolveInto(p, v, q))
    PROVE  Disposes(p, q)
<1>1. CASE state[p] = "pending" /\ ResolveInto(p, v, q)
  BY <1>1, ResolvesThere DEF Disposes, Settled
<1>2. CASE state[p] # "pending" /\ jobs' = q /\ UNCHANGED <<cells, tracking, attached>>
  BY <1>2 DEF Disposes, Idle, cells
<1>3. QED BY <1>1, <1>2 DEF IfPending

LEMMA DisposesComplete ==
    ASSUME HeapOK, NEW job, JobOK(job),
           NEW v \in Value, v \in Promise => v \in Live,
           NEW q, QueueOK(q), Complete(job, v, q)
    PROVE  Disposes(job.reaction.next, q)
<1>1. PICK next : next = job.reaction.next
  OBVIOUS
<1>2. next \in Promise /\ job.state \in Settled /\ job.value \in Value
  BY <1>1, JobParts
<1>3. CASE v \in Promise
  <2>1. PICK f : f = IF job.reaction.finally THEN Preserve(job.value, job.state = "rejected")
                                             ELSE NoHandler
    OBVIOUS
  <2>2. Attach(v, f, NoHandler, next, FALSE, q)
    BY <1>1, <1>3, <2>1 DEF Complete
  <2>3. NoHandler \in Handler /\ NoHandler.kind # "resume"
    BY DEF Handler, NoHandler
  <2>4. f \in Handler /\ f.kind # "resume"
    <3>1. PICK b \in BOOLEAN : b = (job.state = "rejected")
      OBVIOUS
    <3>2. f = Preserve(job.value, b) \/ f = NoHandler
      BY <2>1, <3>1
    <3>3. QED BY <1>2, <2>3, <3>2, PreserveParts
  <2>5. Attached(f, NoHandler, next, q)
    BY <1>2, <1>3, <2>2, <2>3, <2>4, AttachesThere
  <2>6. QED BY <1>1, <1>2, <2>3, <2>4, <2>5 DEF Attached, Ordinary, Disposes
<1>4. CASE v \notin Promise
  <2>1. \/ IfPending(next, q, Settle(next, job.state, job.value, q))
        \/ IfPending(next, q, Settle(next, "fulfilled", v, q))
    BY <1>1, <1>4 DEF Complete, IfPending
  <2>2. "fulfilled" \in Settled
    BY DEF Settled
  <2>3. QED BY <1>1, <1>2, <2>1, <2>2, DisposesSettle
<1>5. QED BY <1>3, <1>4

(* A frame for p goes on top of s, for code that has p's functions or is   *)
(* to settle p by its end.                                                 *)
Opens(p, s) ==
    \E kind \in {"resolving", "getter", "async"} :
        /\ stack' = Append(s, [kind |-> kind, promise |-> p])
        /\ capable' = IF kind = "resolving" THEN capable \union {p} ELSE capable

HasJob(f) == f.kind \in {"callback", "resume"}

Opening == \E p \in Promise :
    /\ Birth(p) /\ Opens(p, stack) /\ UNCHANGED <<tasks, phase, swallowed>>

BornSettled == \E p \in Promise :
    /\ state[p] = "free" /\ Settling(p, jobs)
    /\ UNCHANGED <<tasks, capable, stack, phase, swallowed>>

Deriving == \E x :
    /\ state[x.next] = "free" /\ Ordinary(x) /\ Attaching(x, jobs)
    /\ UNCHANGED <<tasks, capable, stack, phase, swallowed>>

Calling == \E p \in capable :
    \/ Disposes(p, jobs) /\ UNCHANGED <<tasks, capable, stack, phase, swallowed>>
    \/ Idle(jobs) /\ Opens(p, stack) /\ UNCHANGED <<tasks, phase, swallowed>>

Entering == \E src \in Promise :
    /\ Idle(jobs) /\ stack' = Append(stack, [kind |-> "await", promise |-> src])
    /\ UNCHANGED <<tasks, capable, phase, swallowed>>

(* The frame on top ends.                                                  *)
Ending ==
    /\ stack # << >> /\ stack' = Below
    /\ \/ Top.kind \in {"async", "getter", "resolving"} /\ Disposes(Top.promise, jobs)
       \/ HasJob(Top) /\ Disposes(Top.job.reaction.next, jobs)
       \/ Top.kind \in {"resolving", "await", "script"} /\ Idle(jobs)
    /\ phase' = phase \/ Top.kind = "script"
    /\ UNCHANGED <<tasks, capable, swallowed>>

(* It ends with an object, whose then is read or called.                   *)
Passing ==
    /\ stack # << >> /\ Top.kind \in {"async", "getter"}
    /\ Idle(jobs) /\ Opens(Top.promise, Below)
    /\ UNCHANGED <<tasks, phase, swallowed>>

(* The body becomes a task, and a reaction to resume it is attached.       *)
Suspending == \E x, k, action :
    /\ stack # << >> /\ Top.kind = "async" /\ stack' = Below
    /\ k = Len(tasks) + 1 /\ action \in {"continue", "return"}
    /\ tasks' = Append(tasks, [live |-> TRUE, promise |-> Top.promise, action |-> action])
    /\ x.fulfilled = Resume(k, FALSE) /\ x.rejected = Resume(k, TRUE)
    /\ state[x.next] = "free" /\ Attaching(x, jobs)
    /\ UNCHANGED <<capable, phase, swallowed>>

(* The first job: it is done at once, calls user code or resumes a task.   *)
Doing ==
    /\ jobs # << >> /\ Callback(Next1).kind # "resume" /\ Disposes(Next1.reaction.next, Rest)
    /\ UNCHANGED <<tasks, capable, stack, phase, swallowed>>

CallingBack ==
    /\ jobs # << >> /\ Callback(Next1).kind # "resume" /\ Idle(Rest)
    /\ stack' = Append(stack, [kind |-> "callback", job |-> Next1])
    /\ UNCHANGED <<tasks, capable, phase, swallowed>>

Resuming == \E k, s :
    /\ jobs # << >> /\ Callback(Next1).kind = "resume" /\ k = Callback(Next1).task
    /\ s = Append(stack, [kind |-> "resume", job |-> Next1])
    /\ tasks' = [tasks EXCEPT ![k] = NoTask]
    /\ \/ ~tasks[k].live /\ Idle(Rest) /\ stack' = s /\ UNCHANGED capable
       \/ tasks[k].live /\ Disposes(tasks[k].promise, Rest) /\ stack' = s /\ UNCHANGED capable
       \/ tasks[k].live /\ Idle(Rest) /\ Opens(tasks[k].promise, s)
    /\ UNCHANGED <<phase, swallowed>>

(* A rejection is thrown at an await and leaves its async caller.          *)
Throwing ==
    /\ Len(stack) \in Nat \ {0, 1} /\ stack[Len(stack)].kind = "await"
    /\ stack[Len(stack) - 1].kind = "async"
    /\ stack' = SubSeq(stack, 1, Len(stack) - 2)
    /\ Disposes(stack[Len(stack) - 1].promise, jobs)
    /\ UNCHANGED <<tasks, capable, phase, swallowed>>

(* Nothing that settled promises goes on, or a host error was swallowed.   *)
Cuts(s, t) ==
    \E n \in 0 .. Len(s) : Len(t) = n /\ \A i \in 1 .. n : t[i] = s[i]

Failing ==
    /\ stack # << >> /\ Cuts(stack, stack')
    /\ \/ phase' = "aborted" /\ Idle(jobs)
          /\ \/ stack' = << >>
             \/ /\ Len(stack) \in Nat \ {0, 1} /\ stack[Len(stack) - 1].kind = "script"
                /\ stack' = SubSeq(stack, 1, Len(stack) - 2)
       \/ phase' = phase /\ swallowed' = TRUE /\ \E p \in Promise : Disposes(p, jobs)
    /\ UNCHANGED <<tasks, capable>>

Reporting ==
    /\ Idle(jobs) /\ UNCHANGED <<tasks, capable, stack, swallowed>>
    /\ phase' = phase \/ (stack = << >> /\ phase # "aborted")

Effects ==
    \/ Opening \/ BornSettled \/ Deriving \/ Calling \/ Entering \/ Ending \/ Passing
    \/ Suspending \/ Doing \/ CallingBack \/ Resuming \/ Throwing \/ Failing \/ Reporting

LEMMA ObjectOpens ==
    ASSUME NEW p, NEW s, ResolveObject(p, s)
    PROVE  Opens(p, s)
BY DEF ResolveObject, CallThen, ReadThen, Opens

LEMMA MakePromiseEffects ==
    ASSUME IInv, MakePromise
    PROVE  Effects
<1>1. PICK p \in Promise :
          \/ NewPromise(p) \/ PromiseResolveObject(p) \/ AsyncCall(p)
          \/ \E v \in Value : PromiseResolve(p, v) \/ PromiseReject(p, v)
  BY DEF MakePromise
<1>2. PICK q : q = jobs
  OBVIOUS
<1>3. HeapOK /\ QueueOK(q)
  BY <1>2 DEF IInv
<1>4. ASSUME NEW how \in Origin, Create(p, how)
      PROVE  state[p] = "free" /\ state[p] \notin Settled /\ UNCHANGED <<phase, swallowed>>
  BY <1>4, NextHandle DEF Create
<1>5. Pending(p) /\ state[p] = "free" => Birth(p)
  BY <1>3 DEF Pending, Birth, OthersStay, HeapOK
<1>6. {"constructor", "static", "async"} \subseteq Origin
  BY DEF Origin
<1>7. CASE NewPromise(p)
  <2>1. Create(p, "constructor") /\ Pending(p) /\ tasks' = tasks
    BY <1>7 DEF NewPromise
  <2>2. Opens(p, stack)
    BY <1>7 DEF NewPromise, Push, Opens
  <2>3. QED BY <1>4, <1>5, <1>6, <2>1, <2>2 DEF Effects, Opening
<1>8. CASE PromiseResolveObject(p)
  <2>1. Create(p, "static") /\ Pending(p) /\ tasks' = tasks
    BY <1>8 DEF PromiseResolveObject
  <2>2. Opens(p, stack)
    BY <1>8, ObjectOpens DEF PromiseResolveObject
  <2>3. QED BY <1>4, <1>5, <1>6, <2>1, <2>2 DEF Effects, Opening
<1>9. CASE AsyncCall(p)
  <2>1. Create(p, "async") /\ Pending(p) /\ tasks' = tasks
    BY <1>9 DEF AsyncCall
  <2>2. Opens(p, stack)
    BY <1>9 DEF AsyncCall, Push, Opens
  <2>3. QED BY <1>4, <1>5, <1>6, <2>1, <2>2 DEF Effects, Opening
<1>10. ASSUME NEW v \in Value, PromiseResolve(p, v) PROVE Effects
  <2>1. /\ v \in Plain /\ Create(p, "static") /\ ResolveInto(p, v, q)
        /\ UNCHANGED <<tasks, capable, stack>>
    BY <1>2, <1>10 DEF PromiseResolve
  <2>2. v \notin Promise
    BY <2>1, ValuesAssumption
  <2>3. Settle(p, "fulfilled", v, q)
    BY <2>1, <2>2 DEF ResolveInto
  <2>4. state[p] = "free" /\ state[p] \notin Settled /\ UNCHANGED <<phase, swallowed>>
    BY <1>4, <1>6, <2>1
  <2>5. Settling(p, q)
    BY <1>3, <2>3, <2>4, SettlesThere DEF Settled
  <2>6. QED BY <1>2, <2>1, <2>4, <2>5 DEF Effects, BornSettled
<1>11. ASSUME NEW v \in Value, PromiseReject(p, v) PROVE Effects
  <2>1. /\ Create(p, "static") /\ Settle(p, "rejected", v, q)
        /\ UNCHANGED <<tasks, capable, stack>>
    BY <1>2, <1>11 DEF PromiseReject
  <2>2. state[p] = "free" /\ state[p] \notin Settled /\ UNCHANGED <<phase, swallowed>>
    BY <1>4, <1>6, <2>1
  <2>3. Settling(p, q)
    BY <1>3, <2>1, <2>2, SettlesThere DEF Settled
  <2>4. QED BY <1>2, <2>1, <2>2, <2>3 DEF Effects, BornSettled
<1>12. QED BY <1>1, <1>7, <1>8, <1>9, <1>10, <1>11

LEMMA UsePromiseEffects ==
    ASSUME IInv, UsePromise
    PROVE  Effects
<1>1. PICK q : q = jobs
  OBVIOUS
<1>2. HeapOK /\ QueueOK(q) /\ capable \subseteq Promise
  BY <1>1 DEF IInv, Others
<1>3. ASSUME NEW p \in Promise, CallResolveObject(p) PROVE Effects
  <2>1. p \in capable /\ ResolveObject(p, stack)
        /\ UNCHANGED <<cells, tracking, jobs, tasks, origin, phase, attached, swallowed, program>>
    BY <1>3 DEF CallResolveObject
  <2>2. Idle(jobs) /\ Opens(p, stack)
    BY <2>1, ObjectOpens DEF Idle, cells
  <2>3. QED BY <2>1, <2>2 DEF Effects, Calling
<1>4. ASSUME NEW p \in Promise, NEW v \in Value, CallResolve(p, v) PROVE Effects
  <2>1. /\ p \in capable /\ v \in Held /\ IfPending(p, q, ResolveInto(p, v, q))
        /\ UNCHANGED <<tasks, capable, origin, stack, phase, swallowed, program>>
    BY <1>1, <1>4 DEF CallResolve
  <2>2. Disposes(p, q)
    BY <1>2, <2>1, HeldValues, DisposesResolve
  <2>3. QED BY <1>1, <2>1, <2>2 DEF Effects, Calling
<1>5. ASSUME NEW p \in Promise, NEW v \in Value, CallReject(p, v) PROVE Effects
  <2>1. /\ p \in capable /\ IfPending(p, q, Settle(p, "rejected", v, q))
        /\ UNCHANGED <<tasks, capable, origin, stack, phase, swallowed, program>>
    BY <1>1, <1>5 DEF CallReject
  <2>2. Disposes(p, q)
    BY <1>2, <2>1, DisposesSettle DEF Settled
  <2>3. QED BY <1>1, <2>1, <2>2 DEF Effects, Calling
<1>6. ASSUME NEW src \in Promise, NEW f \in {NoHandler, UserHandler},
             NEW r \in {NoHandler, UserHandler}, NEW finally \in BOOLEAN, NEW next \in Promise,
             Then(src, f, r, finally, next)
      PROVE  Effects
  <2>1. /\ src \in Live /\ Create(next, "then") /\ Attach(src, f, r, next, finally, q)
        /\ UNCHANGED <<tasks, capable, stack>>
    BY <1>1, <1>6 DEF Then
  <2>2. state[next] = "free" /\ UNCHANGED <<phase, swallowed>>
    BY <2>1, NextHandle DEF Create, Origin
  <2>3. f \in Handler /\ r \in Handler /\ f.kind # "resume" /\ r.kind # "resume"
    BY DEF Handler, NoHandler, UserHandler
  <2>4. Attached(f, r, next, q)
    BY <1>2, <2>1, <2>3, AttachesThere
  <2>5. PICK x : x.next = next /\ Ordinary(x) /\ Attaching(x, q)
    BY <2>3, <2>4 DEF Attached, Ordinary
  <2>6. QED BY <1>1, <2>1, <2>2, <2>5 DEF Effects, Deriving
<1>7. QED BY <1>3, <1>4, <1>5, <1>6 DEF UsePromise

LEMMA CodeEffects ==
    ASSUME IInv, Awaits \/ AsyncBodyEnds \/ EndOfCode \/ ResumeDone
    PROVE  Effects
<1>1. PICK q, f : q = jobs /\ f = Top
  OBVIOUS
<1>2. HeapOK /\ QueueOK(q) /\ "rejected" \in Settled /\ "fulfilled" \in Settled
  BY <1>1 DEF IInv, Settled
<1>3. /\ Undefined \in Value /\ Undefined \notin Promise
  BY ValuesAssumption DEF Value
<1>4. ASSUME NEW kind \in {"async", "getter", "resolving"}, TopIs(kind)
      PROVE  stack # << >> /\ f.kind = kind /\ f.promise \in Promise
  BY <1>1, <1>4, FrameOnTop
<1>5. ASSUME TopIs("callback") \/ TopIs("resume")
      PROVE  stack # << >> /\ HasJob(f) /\ JobOK(f.job)
  BY <1>1, <1>5, FrameOnTop DEF HasJob
<1>6. ASSUME NEW src \in Promise, NestedAwait(src) PROVE Effects
  <2>1. Idle(jobs) /\ stack' = Append(stack, [kind |-> "await", promise |-> src])
        /\ UNCHANGED <<tasks, capable, phase, swallowed>>
    BY <1>6 DEF NestedAwait, Push, Idle, cells
  <2>2. QED BY <2>1 DEF Effects, Entering
<1>7. ASSUME NEW p, stack # << >>,
             \/ f.kind \in {"async", "getter", "resolving"} /\ p = f.promise
             \/ HasJob(f) /\ p = f.job.reaction.next,
             Disposes(p, q), Pop, UNCHANGED <<tasks, capable, phase, swallowed>>
      PROVE  Effects
  BY <1>1, <1>7 DEF Effects, Ending, Pop
<1>8. CASE AsyncReturnObject
  <2>1. /\ TopIs("async") /\ ResolveObject(f.promise, Below)
        /\ UNCHANGED <<cells, tracking, jobs, tasks, origin, phase, attached, swallowed, program>>
    BY <1>1, <1>8 DEF AsyncReturnObject, InAsync
  <2>2. Idle(jobs) /\ Opens(f.promise, Below)
    BY <2>1, ObjectOpens DEF Idle, cells
  <2>3. QED BY <1>1, <1>4, <2>1, <2>2 DEF Effects, Passing
<1>9. ASSUME NEW v \in Value, AsyncReturn(v) PROVE Effects
  <2>1. /\ TopIs("async") /\ v \in Held /\ IfPending(f.promise, q, ResolveInto(f.promise, v, q))
        /\ Pop /\ UNCHANGED <<tasks, capable, origin, phase, swallowed, program>>
    BY <1>1, <1>9 DEF AsyncReturn, InAsync
  <2>2. PICK p \in Promise : p = f.promise
    BY <1>4, <2>1
  <2>3. Disposes(p, q)
    BY <1>2, <2>1, <2>2, HeldValues, DisposesResolve
  <2>4. QED BY <1>4, <1>7, <2>1, <2>2, <2>3
<1>10. ASSUME NEW v \in Value, AsyncThrow(v) \/ ResolvingThrows(v) PROVE Effects
  <2>1. PICK kind \in {"async", "getter", "resolving"} : TopIs(kind)
    BY <1>10 DEF AsyncThrow, ResolvingThrows, InAsync
  <2>2. /\ IfPending(f.promise, q, Settle(f.promise, "rejected", v, q))
        /\ Pop /\ UNCHANGED <<tasks, capable, origin, phase, swallowed, program>>
    BY <1>1, <1>10 DEF AsyncThrow, ResolvingThrows
  <2>3. PICK p \in Promise : p = f.promise
    BY <1>4, <2>1
  <2>4. Disposes(p, q)
    BY <1>2, <2>2, <2>3, DisposesSettle
  <2>5. QED BY <1>4, <1>7, <2>1, <2>2, <2>3, <2>4
<1>11. ASSUME NEW src \in Promise, NEW ignored \in Promise, NEW action \in {"continue", "return"},
              DirectAwait(src, action, ignored)
       PROVE  Effects
  <2>1. PICK k : k = Len(tasks) + 1
    OBVIOUS
  <2>2. /\ TopIs("async") /\ src \in Live /\ Create(ignored, "ignored")
        /\ tasks' = Append(tasks, [live |-> TRUE, promise |-> f.promise, action |-> action])
        /\ Attach(src, Resume(k, FALSE), Resume(k, TRUE), ignored, FALSE, q)
        /\ stack' = Below /\ capable' = capable
    BY <1>1, <1>11, <2>1 DEF DirectAwait, InAsync, Pop
  <2>3. state[ignored] = "free" /\ UNCHANGED <<phase, swallowed>>
    BY <2>2, NextHandle DEF Create, Origin
  <2>4. k \in TaskId
    <3>1. /\ Len(tasks) <= attached /\ attached < program.reactions /\ program.reactions <= MaxReactions
          /\ attached \in Nat /\ program.reactions \in Nat /\ Len(tasks) \in Nat
      BY <1>2, <2>2, LenProperties, ProgramsAssumption, BoundsAssumption
         DEF IInv, Others, HeapOK, Attach
    <3>2. QED BY <2>1, <3>1, BoundsAssumption DEF TaskId
  <2>5. Resume(k, FALSE) \in Handler /\ Resume(k, TRUE) \in Handler
    BY <2>4, ResumeParts
  <2>6. Attached(Resume(k, FALSE), Resume(k, TRUE), ignored, q)
    BY <1>2, <2>2, <2>5, AttachesThere
  <2>7. PICK x : /\ x.next = ignored /\ x.fulfilled = Resume(k, FALSE)
                 /\ x.rejected = Resume(k, TRUE) /\ Attaching(x, q)
    BY <2>6 DEF Attached
  <2>8. Suspending
    BY <1>1, <1>4, <2>1, <2>2, <2>3, <2>7 DEF Suspending
  <2>9. QED BY <2>8 DEF Effects
<1>12. CASE ResolvingReturns \/ ScriptEnds \/ ScriptThrows
  <2>1. PICK kind \in {"resolving", "script"} : TopIs(kind) /\ (phase' = phase \/ kind = "script")
    BY <1>12 DEF ResolvingReturns, ScriptEnds, ScriptThrows
  <2>2. stack' = Below /\ Idle(jobs) /\ UNCHANGED <<tasks, capable, swallowed>>
    BY <1>12 DEF ResolvingReturns, ScriptEnds, ScriptThrows, Pop, Idle, cells
  <2>3. QED BY <2>1, <2>2 DEF Effects, Ending, TopIs
<1>13. CASE GetterReturnsFunction
  <2>1. /\ TopIs("getter") /\ CallThen(f.promise, Below)
        /\ UNCHANGED <<cells, tracking, jobs, tasks, origin, phase, attached, swallowed, program>>
    BY <1>1, <1>13 DEF GetterReturnsFunction
  <2>2. Idle(jobs) /\ Opens(f.promise, Below)
    BY <2>1 DEF Idle, cells, CallThen, Opens
  <2>3. QED BY <1>1, <1>4, <2>1, <2>2 DEF Effects, Passing
<1>14. CASE GetterReturnsOther
  <2>1. /\ TopIs("getter") /\ IfPending(f.promise, q, Settle(f.promise, "fulfilled", Undefined, q))
        /\ Pop /\ UNCHANGED <<tasks, capable, origin, phase, swallowed, program>>
    BY <1>1, <1>14 DEF GetterReturnsOther
  <2>2. PICK p \in Promise : p = f.promise
    BY <1>4, <2>1
  <2>3. Disposes(p, q)
    BY <1>2, <1>3, <2>1, <2>2, DisposesSettle
  <2>4. QED BY <1>4, <1>7, <2>1, <2>2, <2>3
<1>15. CASE ResumeDone
  <2>1. TopIs("resume") /\ Complete(f.job, Undefined, q) /\ Pop
        /\ UNCHANGED <<tasks, capable, origin, phase, swallowed, program>>
    BY <1>1, <1>15 DEF ResumeDone
  <2>2. PICK job : job = f.job
    OBVIOUS
  <2>3. JobOK(job) /\ Complete(job, Undefined, q)
    BY <1>5, <2>1, <2>2
  <2>4. Disposes(job.reaction.next, q)
    BY <1>2, <1>3, <2>3, DisposesComplete
  <2>5. QED BY <1>5, <1>7, <2>1, <2>2, <2>4
<1>16. ASSUME NEW v \in Value, CallbackReturns(v) PROVE Effects
  <2>1. TopIs("callback") /\ v \in Held /\ Complete(f.job, v, q) /\ Pop
        /\ UNCHANGED <<tasks, capable, origin, phase, swallowed, program>>
    BY <1>1, <1>16 DEF CallbackReturns
  <2>2. PICK job : job = f.job
    OBVIOUS
  <2>3. JobOK(job) /\ Complete(job, v, q)
    BY <1>5, <2>1, <2>2
  <2>4. Disposes(job.reaction.next, q)
    BY <1>2, <2>1, <2>3, HeldValues, DisposesComplete
  <2>5. QED BY <1>5, <1>7, <2>1, <2>2, <2>4
<1>17. ASSUME NEW v \in Value, CallbackThrows(v) PROVE Effects
  <2>1. PICK next : next = f.job.reaction.next
    OBVIOUS
  <2>2. /\ TopIs("callback") /\ IfPending(next, q, Settle(next, "rejected", v, q))
        /\ Pop /\ UNCHANGED <<tasks, capable, origin, phase, swallowed, program>>
    BY <1>1, <1>17, <2>1 DEF CallbackThrows
  <2>3. PICK job : job = f.job
    OBVIOUS
  <2>4. next \in Promise
    BY <1>2, <1>5, <2>1, <2>2, <2>3, JobParts
  <2>5. Disposes(next, q)
    BY <1>2, <2>2, <2>4, DisposesSettle
  <2>6. QED BY <1>5, <1>7, <2>1, <2>2, <2>5
<1>18. QED BY <1>6, <1>8, <1>9, <1>10, <1>11, <1>12, <1>13, <1>14, <1>15, <1>16, <1>17
       DEF Awaits, AsyncBodyEnds, EndOfCode

LEMMA JobEffects ==
    ASSUME IInv, JobPassesOn \/ JobCallsUser \/ JobPreserves
    PROVE  Effects
<1>1. PICK q, job : q = Rest /\ job = Next1
  OBVIOUS
<1>2. PICK next, h : next = job.reaction.next /\ h = Callback(job)
  OBVIOUS
<1>3. MayRunJob /\ jobs # << >>
  BY DEF JobPassesOn, JobCallsUser, JobPreserves, JobIs, MayRunJob
<1>4. JobOK(job) /\ QueueOK(q) /\ HeapOK
  BY <1>1, <1>3, JobToRun
<1>5. next \in Promise /\ job.state \in Settled /\ job.value \in Value /\ "rejected" \in Settled
  BY <1>2, <1>4, JobParts DEF Settled
<1>6. CASE JobPassesOn
  <2>1. /\ h.kind = "none" /\ IfPending(next, q, Settle(next, job.state, job.value, q))
        /\ UNCHANGED <<tasks, capable, origin, stack, phase, swallowed, program>>
    BY <1>1, <1>2, <1>6 DEF JobPassesOn, JobIs
  <2>2. Disposes(next, q)
    BY <1>4, <1>5, <2>1, DisposesSettle
  <2>3. QED BY <1>1, <1>2, <1>3, <2>1, <2>2 DEF Effects, Doing
<1>7. CASE JobCallsUser
  <2>1. /\ h.kind = "user" /\ stack' = Append(stack, [kind |-> "callback", job |-> job]) /\ jobs' = q
        /\ UNCHANGED <<cells, tracking, tasks, capable, origin, phase, attached, swallowed, program>>
    BY <1>1, <1>2, <1>7 DEF JobCallsUser, JobIs, Push
  <2>2. Idle(q)
    BY <2>1 DEF Idle, cells
  <2>3. QED BY <1>1, <1>2, <1>3, <2>1, <2>2 DEF Effects, CallingBack
<1>8. CASE JobPreserves
  <2>1. /\ h.kind = "preserve"
        /\ IF h.rejected THEN IfPending(next, q, Settle(next, "rejected", h.original, q))
                         ELSE Complete(job, h.original, q)
        /\ UNCHANGED <<tasks, capable, origin, stack, phase, swallowed, program>>
    BY <1>1, <1>2, <1>8 DEF JobPreserves, JobIs
  <2>2. h.original \in Value /\ h.rejected \in BOOLEAN
    BY <1>2, <1>4, <2>1, CallbackFits, HandlerParts
  <2>3. CASE h.rejected = TRUE
    <3>1. IfPending(next, q, Settle(next, "rejected", h.original, q))
      BY <2>1, <2>3
    <3>2. Disposes(next, q)
      BY <1>4, <1>5, <2>2, <3>1, DisposesSettle
    <3>3. QED BY <1>1, <1>2, <1>3, <2>1, <3>2 DEF Effects, Doing
  <2>4. CASE h.rejected = FALSE
    <3>1. Complete(job, h.original, q)
      BY <2>1, <2>4
    <3>2. h.original \notin Promise
      BY <1>2, <1>4, <2>1, <2>4, CallbackFits DEF FitsOutcome
    <3>3. Disposes(next, q)
      BY <1>2, <1>4, <2>2, <3>1, <3>2, DisposesComplete
    <3>4. QED BY <1>1, <1>2, <1>3, <2>1, <3>3 DEF Effects, Doing
  <2>5. QED BY <2>2, <2>3, <2>4
<1>9. QED BY <1>6, <1>7, <1>8

LEMMA ResumeEffects ==
    ASSUME IInv, JobResumes
    PROVE  Effects
<1>1. PICK q, job : q = Rest /\ job = Next1
  OBVIOUS
<1>2. PICK s : s = Append(stack, [kind |-> "resume", job |-> job])
  OBVIOUS
<1>3. PICK h : h = Callback(job)
  OBVIOUS
<1>4. PICK k : k = h.task
  OBVIOUS
<1>5. PICK task : task = tasks[k]
  OBVIOUS
<1>6. PICK p : p = task.promise
  OBVIOUS
<1>7. /\ MayRunJob /\ h.kind = "resume" /\ tasks' = [tasks EXCEPT ![k] = NoTask]
      /\ UNCHANGED <<origin, phase, swallowed, program>>
  BY <1>1, <1>3, <1>4 DEF JobResumes, JobIs
<1>8. JobOK(job) /\ QueueOK(q) /\ HeapOK /\ jobs # << >>
  BY <1>1, <1>7, JobToRun DEF MayRunJob
<1>9. k \in 1 .. Len(tasks) /\ h.rejected = (job.state = "rejected")
  BY <1>3, <1>4, <1>7, <1>8, CallbackFits DEF FitsOutcome
<1>10. task.live => p \in Promise
  <2>1. tasks \in Seq(Task)
    BY <1>8 DEF HeapOK
  <2>2. task \in Task
    BY <1>5, <1>9, <2>1, ElementOfSeq
  <2>3. QED BY <1>6, <2>2, TaskParts
<1>11. /\ job.state \in Settled /\ job.value \in Value
       /\ job.state = "fulfilled" => job.value \notin Promise
  BY <1>8, JobParts
<1>12. \/ ~task.live /\ Idle(q) /\ stack' = s /\ UNCHANGED capable
       \/ /\ task.live /\ stack' = s /\ UNCHANGED capable
          /\ IfPending(p, q, IF h.rejected THEN Settle(p, "rejected", job.value, q)
                                           ELSE ResolveInto(p, job.value, q))
       \/ /\ task.live /\ Idle(q) /\ ResolveObject(p, s)
       \/ /\ task.live /\ Idle(q)
          /\ UNCHANGED capable /\ stack' = Append(s, [kind |-> "async", promise |-> p])
  BY <1>1, <1>2, <1>3, <1>4, <1>5, <1>6 DEF JobResumes, ResumeFrame, Idle, cells
<1>13. CASE ~task.live /\ Idle(q) /\ stack' = s /\ UNCHANGED capable
  BY <1>1, <1>2, <1>3, <1>4, <1>5, <1>7, <1>8, <1>13 DEF Effects, Resuming
<1>14. CASE /\ task.live /\ stack' = s /\ UNCHANGED capable
            /\ IfPending(p, q, IF h.rejected THEN Settle(p, "rejected", job.value, q)
                                             ELSE ResolveInto(p, job.value, q))
  <2>1. Disposes(p, q)
    <3>1. CASE job.state = "rejected"
      <4>1. IfPending(p, q, Settle(p, "rejected", job.value, q))
        BY <1>9, <1>14, <3>1 DEF IfPending
      <4>2. QED BY <1>8, <1>10, <1>11, <1>14, <4>1, DisposesSettle DEF Settled
    <3>2. CASE job.state # "rejected"
      <4>1. IfPending(p, q, ResolveInto(p, job.value, q))
        BY <1>9, <1>14, <3>2 DEF IfPending
      <4>2. job.value \notin Promise
        BY <1>11, <3>2 DEF Settled
      <4>3. QED BY <1>8, <1>10, <1>11, <1>14, <4>1, <4>2, DisposesResolve
    <3>3. QED BY <3>1, <3>2
  <2>2. QED BY <1>1, <1>2, <1>3, <1>4, <1>5, <1>6, <1>7, <1>8, <1>14, <2>1 DEF Effects, Resuming
<1>15. CASE \/ task.live /\ Idle(q) /\ ResolveObject(p, s)
            \/ /\ task.live /\ Idle(q)
               /\ UNCHANGED capable /\ stack' = Append(s, [kind |-> "async", promise |-> p])
  <2>1. Opens(p, s)
    BY <1>15, ObjectOpens DEF Opens
  <2>2. QED BY <1>1, <1>2, <1>3, <1>4, <1>5, <1>6, <1>7, <1>8, <1>15, <2>1 DEF Effects, Resuming
<1>16. QED BY <1>12, <1>13, <1>14, <1>15

(* What is left of a stack that is cut.                                    *)
LEMMA CutCuts ==
    ASSUME NEW s, StackOK(s), NEW n \in 0 .. Len(s)
    PROVE  /\ Cuts(s, SubSeq(s, 1, n)) /\ Len(SubSeq(s, 1, n)) = n
           /\ \A i \in 1 .. n : SubSeq(s, 1, n)[i] = s[i]
<1>1. s \in Seq(Frame) /\ Len(s) \in Nat
  BY LenProperties DEF StackOK
<1>2. PICK t : t = SubSeq(s, 1, n)
  OBVIOUS
<1>3. \A i \in 1 .. n : s[i] \in Frame
  BY <1>1
<1>4. /\ Len(t) = (IF 1 <= n THEN n - 1 + 1 ELSE 0)
      /\ \A i \in 1 .. n - 1 + 1 : t[i] = s[1 + i - 1]
  BY <1>2, <1>3, SubSeqProperties
<1>5. Len(t) = n /\ \A i \in 1 .. n : t[i] = s[i]
  BY <1>1, <1>4
<1>6. QED BY <1>2, <1>5 DEF Cuts

LEMMA AwaitEffects ==
    ASSUME IInv, AwaitLoop
    PROVE  Effects
<1>1. PICK q, s : q = jobs /\ s = stack
  OBVIOUS
<1>2. TopIs("await") /\ Top.kind = "await" /\ Top = s[Len(s)] /\ stack # << >>
  BY <1>1 DEF AwaitLoop, AwaitReturns, AwaitThrowsCaught, AwaitThrows, AwaitStuck, TopIs, Top
<1>3. StackOK(s) /\ HeapOK /\ QueueOK(q) /\ Top.promise \in Promise
  BY <1>1, <1>2, FrameOnTop DEF IInv
<1>4. s \in Seq(Frame) /\ Len(s) \in Nat \ {0}
  BY <1>1, <1>2, <1>3, EmptySeq DEF StackOK
<1>5. "rejected" \in Settled /\ HostError \in Value
  BY DEF Settled, Value
<1>6. CASE AwaitReturns \/ AwaitThrowsCaught
  <2>1. stack' = Below
        /\ UNCHANGED <<cells, tracking, jobs, tasks, capable, origin, phase, attached, swallowed, program>>
    BY <1>6 DEF AwaitReturns, AwaitThrowsCaught, Pop
  <2>2. QED BY <1>2, <2>1 DEF Effects, Ending, Idle, cells
<1>7. CASE AwaitThrows
  <2>1. PICK n : n = Len(s)
    OBVIOUS
  <2>2. n \in Nat \ {0, 1} /\ n - 1 \in 1 .. n /\ n - 2 \in 0 .. n
    <3>1. n \in 1 .. n
      BY <1>4, <2>1
    <3>2. n # 1
      BY <1>2, <1>3, <2>1, <3>1 DEF StackOK
    <3>3. QED BY <1>4, <2>1, <3>2
  <2>3. PICK caller, v : caller = s[n - 1] /\ v = result[Top.promise]
    OBVIOUS
  <2>4. FrameOK(caller) /\ v \in Value
    BY <1>3, <2>1, <2>2, <2>3 DEF StackOK, HeapOK
  <2>5. /\ stack' = SubSeq(s, 1, n - 2) /\ UNCHANGED <<tasks, capable, origin, swallowed, program>>
        /\ \/ /\ caller.kind = "async"
              /\ IfPending(caller.promise, q, Settle(caller.promise, "rejected", v, q))
              /\ UNCHANGED phase
           \/ /\ caller.kind = "script" /\ phase' = "aborted"
              /\ UNCHANGED <<cells, tracking, jobs, attached>>
    BY <1>1, <1>7, <2>1, <2>3 DEF AwaitThrows
  <2>6. CASE /\ caller.kind = "async"
             /\ IfPending(caller.promise, q, Settle(caller.promise, "rejected", v, q))
             /\ UNCHANGED phase
    <3>1. caller.promise \in Promise
      BY <2>4, <2>6, FrameParts
    <3>2. Disposes(caller.promise, q)
      BY <1>3, <1>5, <2>4, <2>6, <3>1, DisposesSettle
    <3>3. QED BY <1>1, <1>2, <2>1, <2>2, <2>3, <2>5, <2>6, <3>2 DEF Effects, Throwing
  <2>7. CASE /\ caller.kind = "script" /\ phase' = "aborted"
             /\ UNCHANGED <<cells, tracking, jobs, attached>>
    <3>1. Cuts(s, stack')
      BY <1>3, <2>1, <2>2, <2>5, CutCuts
    <3>2. Idle(jobs)
      BY <2>7 DEF Idle, cells
    <3>3. QED BY <1>1, <1>2, <2>1, <2>2, <2>3, <2>5, <2>7, <3>1, <3>2 DEF Effects, Failing
  <2>8. QED BY <2>5, <2>6, <2>7
<1>8. CASE AwaitStuck
  <2>1. UNCHANGED <<tasks, capable>>
    BY <1>8 DEF AwaitStuck
  <2>2. CASE /\ phase' = "aborted" /\ stack' = << >>
             /\ UNCHANGED <<cells, tracking, jobs, attached, swallowed>>
    <3>1. Cuts(s, stack') /\ Idle(jobs)
      BY <1>4, <2>2, EmptySeq DEF Cuts, Idle, cells
    <3>2. QED BY <1>1, <1>2, <2>1, <2>2, <3>1 DEF Effects, Failing
  <2>3. ASSUME NEW i \in Getters,
               IfPending(stack[i].promise, jobs, Settle(stack[i].promise, "rejected", HostError, jobs)),
               stack' = SubSeq(stack, 1, i - 1), swallowed' = TRUE, UNCHANGED phase
        PROVE  Effects
    <3>1. i \in 1 .. Len(s) /\ s[i].kind = "getter" /\ i - 1 \in 0 .. Len(s)
      BY <1>1, <1>4, LenProperties DEF Getters
    <3>2. PICK p : p = s[i].promise
      OBVIOUS
    <3>3. p \in Promise
      BY <1>3, <3>1, <3>2, FrameParts DEF StackOK
    <3>4. IfPending(p, q, Settle(p, "rejected", HostError, q))
      BY <1>1, <2>3, <3>2
    <3>5. Disposes(p, q)
      BY <1>3, <1>5, <3>3, <3>4, DisposesSettle
    <3>6. PICK m : m = i - 1
      OBVIOUS
    <3>7. Cuts(s, SubSeq(s, 1, m))
      BY <1>3, <3>1, <3>6, CutCuts
    <3>8. Cuts(stack, stack')
      BY <1>1, <2>3, <3>6, <3>7
    <3>9. QED BY <1>1, <1>2, <2>1, <2>3, <3>3, <3>5, <3>8 DEF Effects, Failing
  <2>4. QED BY <1>8, <2>2, <2>3 DEF AwaitStuck
<1>9. QED BY <1>6, <1>7, <1>8 DEF AwaitLoop

LEMMA NextEffects ==
    ASSUME IInv, [Next]_vars
    PROVE  Effects
<1>1. CASE Report \/ UNCHANGED vars
  <2>1. Idle(jobs) /\ UNCHANGED <<tasks, capable, stack, swallowed>>
    BY <1>1 DEF Report, ReportRejections, DeliverEvent, Exit, vars, cells, tracking, Idle
  <2>2. phase' = phase \/ (stack = << >> /\ phase # "aborted")
    BY <1>1 DEF Report, ReportRejections, DeliverEvent, Exit, vars, IInv, PhaseOK
  <2>3. QED BY <2>1, <2>2 DEF Effects, Reporting
<1>2. CASE MakePromise \/ UsePromise
  BY <1>2, MakePromiseEffects, UsePromiseEffects
<1>3. CASE Awaits \/ AsyncBodyEnds \/ EndOfCode \/ ResumeDone
  BY <1>3, CodeEffects
<1>4. CASE RunJob
  BY <1>4, JobEffects, ResumeEffects, CodeEffects DEF RunJob
<1>5. CASE AwaitLoop
  BY <1>5, AwaitEffects
<1>6. QED BY <1>1, <1>2, <1>3, <1>4, <1>5 DEF Next

-----------------------------------------------------------------------------
(* What every step does to promises, lists and queue: it starts from the   *)
(* queue or from what is behind its head, and settles one promise, joins   *)
(* one reaction to it or does neither.                                     *)
OutcomeMoves ==
    \A p \in Promise :
        \/ state'[p] = state[p]
        \/ state[p] = "free" /\ state'[p] \in {"pending"} \union Settled
        \/ state[p] = "pending" /\ state'[p] \in Settled

Still(q) == jobs' = q /\ UNCHANGED <<reactions, attached>>

Turn(q) ==
    /\ OutcomeMoves
    /\ \/ Still(q)
       \/ \E p \in Promise : state[p] \notin Settled /\ Moved(p, q)
       \/ \E x : \E src \in Promise : Joined(x, src, q)

LEMMA IdleTurn ==
    ASSUME NEW q, Idle(q)
    PROVE  Turn(q)
BY DEF Idle, Turn, Still, OutcomeMoves

LEMMA SettlingTurn ==
    ASSUME HeapOK, NEW p \in Promise, NEW q, Settling(p, q)
    PROVE  Turn(q)
<1>1. state[p] \in {"free", "pending"}
  BY DEF HeapOK, State, Settling
<1>2. OutcomeMoves
  BY <1>1 DEF Settling, OthersStay, OutcomeMoves
<1>3. QED BY <1>2 DEF Settling, Turn

LEMMA AttachingTurn ==
    ASSUME NEW x, NEW q, Attaching(x, q)
    PROVE  Turn(q)
<1>1. OutcomeMoves
  BY DEF Attaching, OthersStay, OutcomeMoves
<1>2. QED BY <1>1 DEF Attaching, Turn

LEMMA DisposesTurn ==
    ASSUME HeapOK, NEW p, NEW q, Disposes(p, q)
    PROVE  Turn(q)
BY IdleTurn, SettlingTurn, AttachingTurn DEF Disposes

LEMMA NextTurn ==
    ASSUME IInv, [Next]_vars
    PROVE  Turn(jobs) \/ (jobs # << >> /\ Turn(Tail(jobs)))
<1>1. Effects /\ HeapOK
  BY NextEffects DEF IInv
<1>2. PICK q, t : q = jobs /\ t = Tail(jobs)
  OBVIOUS
<1>3. CASE Opening
  <2>1. PICK p \in Promise : Birth(p)
    BY <1>3 DEF Opening
  <2>2. OutcomeMoves /\ Still(q)
    BY <1>2, <2>1 DEF Birth, OthersStay, OutcomeMoves, Still
  <2>3. QED BY <1>2, <2>2 DEF Turn
<1>4. CASE BornSettled
  <2>1. PICK p \in Promise : Settling(p, q)
    BY <1>2, <1>4 DEF BornSettled
  <2>2. Turn(q)
    BY <1>1, <2>1, SettlingTurn
  <2>3. QED BY <1>2, <2>2
<1>5. CASE Deriving \/ Suspending
  <2>1. PICK x : Attaching(x, q)
    BY <1>2, <1>5 DEF Deriving, Suspending
  <2>2. Turn(q)
    BY <2>1, AttachingTurn
  <2>3. QED BY <1>2, <2>2
<1>6. CASE Calling \/ Entering \/ Ending \/ Passing \/ Throwing \/ Failing \/ Reporting
  <2>1. Idle(q) \/ \E p : Disposes(p, q)
    BY <1>2, <1>6 DEF Calling, Entering, Ending, Passing, Throwing, Failing, Reporting
  <2>2. Turn(q)
    BY <1>1, <2>1, IdleTurn, DisposesTurn
  <2>3. QED BY <1>2, <2>2
<1>7. CASE Doing \/ CallingBack \/ Resuming
  <2>1. jobs # << >> /\ (Idle(t) \/ \E p : Disposes(p, t))
    BY <1>2, <1>7 DEF Doing, CallingBack, Resuming, Rest
  <2>2. Turn(t)
    BY <1>1, <2>1, IdleTurn, DisposesTurn
  <2>3. QED BY <1>2, <2>1, <2>2
<1>8. QED BY <1>1, <1>3, <1>4, <1>5, <1>6, <1>7 DEF Effects

LEMMA TurnTickets ==
    ASSUME HeapOK, NEW q, QueueOK(q), Tickets(q), Turn(q)
    PROVE  Tickets(jobs)'
<1>1. CASE Still(q)
  <2>1. Numbered(jobs)'
    BY <1>1 DEF Still, Tickets, Numbered
  <2>2. ListsOrdered'
    BY <1>1 DEF Still, Tickets, ListsOrdered
  <2>3. ListsApart'
    BY <1>1 DEF Still, Tickets, ListsApart
  <2>4. QueueOrdered(jobs)'
    BY <1>1 DEF Still, Tickets, QueueOrdered
  <2>5. QueueApart(jobs)'
    BY <1>1 DEF Still, Tickets, QueueApart
  <2>6. QED BY <2>1, <2>2, <2>3, <2>4, <2>5 DEF Tickets
<1>2. CASE \E p \in Promise : state[p] \notin Settled /\ Moved(p, q)
  BY <1>2, MovedTickets
<1>3. CASE \E x : \E src \in Promise : Joined(x, src, q)
  BY <1>3, JoinedListTickets, JoinedQueueTickets DEF Joined
<1>4. QED BY <1>1, <1>2, <1>3 DEF Turn

(* The head of the queue leaves it.                                        *)
LEMMA TailTickets ==
    ASSUME NEW q, QueueOK(q), Tickets(q), q # << >>
    PROVE  Tickets(Tail(q)) /\ Taken(Head(q).reaction, Tail(q))
<1>1. q \in Seq(Job)
  BY DEF QueueOK
<1>2. PICK h, t : h = Head(q) /\ t = Tail(q)
  OBVIOUS
<1>3. /\ Len(q) \in Nat \ {0} /\ Len(t) = Len(q) - 1 /\ h = q[1]
      /\ \A i \in 1 .. Len(t) : t[i] = q[i + 1]
  BY <1>1, <1>2, EmptySeq, HeadTailProperties
<1>4. \A i \in 1 .. Len(t) : i + 1 \in 1 .. Len(q) /\ t[i] = q[i + 1] /\ 1 < i + 1
  BY <1>3
<1>5. 1 \in 1 .. Len(q)
  BY <1>3
<1>6. Numbered(t)
  BY <1>4 DEF Tickets, Numbered
<1>7. QueueOrdered(t)
  <2> SUFFICES ASSUME NEW i \in 1 .. Len(t), NEW j \in 1 .. Len(t), i < j
               PROVE  /\ t[i].reaction.id # t[j].reaction.id
                      /\ t[i].reaction.source = t[j].reaction.source =>
                            t[i].reaction.id < t[j].reaction.id
    BY DEF QueueOrdered
  <2>1. i + 1 \in 1 .. Len(q) /\ j + 1 \in 1 .. Len(q) /\ i + 1 < j + 1
        /\ t[i] = q[i + 1] /\ t[j] = q[j + 1]
    BY <1>3, <1>4
  <2>2. QED BY <2>1 DEF Tickets, QueueOrdered
<1>8. QueueApart(t)
  <2> SUFFICES ASSUME NEW y \in Promise, NEW i \in 1 .. Len(reactions[y]), NEW j \in 1 .. Len(t)
               PROVE  reactions[y][i].id # t[j].reaction.id
    BY DEF QueueApart
  <2>1. j + 1 \in 1 .. Len(q) /\ t[j] = q[j + 1]
    BY <1>4
  <2>2. QED BY <2>1 DEF Tickets, QueueApart
<1>9. Tickets(t)
  BY <1>6, <1>7, <1>8 DEF Tickets
<1>10. Taken(h.reaction, t)
  <2>1. h.reaction.id \in 1 .. attached
    BY <1>3, <1>5 DEF Tickets, Numbered
  <2>2. \A p \in Promise : \A i \in 1 .. Len(reactions[p]) : reactions[p][i].id # h.reaction.id
    BY <1>3, <1>5 DEF Tickets, QueueApart
  <2>3. \A j \in 1 .. Len(t) : t[j].reaction.id # h.reaction.id
    BY <1>3, <1>4, <1>5 DEF Tickets, QueueOrdered
  <2>4. QED BY <2>1, <2>2, <2>3 DEF Taken
<1>11. QED BY <1>2, <1>9, <1>10

(* The invariant of the places.                                            *)
NInv == IInv /\ Tickets(jobs)

LEMMA InitNInv == Init => NInv
<1> SUFFICES ASSUME Init PROVE Tickets(jobs)
  BY InitIInv DEF NInv
<1>1. jobs = << >> /\ \A p \in Promise : reactions[p] = << >>
  BY DEF Init
<1>2. /\ \A i : i \notin 1 .. Len(jobs)
      /\ \A p \in Promise : \A i : i \notin 1 .. Len(reactions[p])
  BY <1>1, EmptySeq
<1>3. QED BY <1>2 DEF Tickets, Numbered, ListsOrdered, ListsApart, QueueOrdered, QueueApart

LEMMA NextNInv == NInv /\ [Next]_vars => NInv'
<1> SUFFICES ASSUME NInv, [Next]_vars PROVE NInv'
  OBVIOUS
<1>1. HeapOK /\ QueueOK(jobs) /\ Tickets(jobs) /\ IInv'
  BY NextKeeps DEF NInv, IInv
<1>2. PICK q : q = jobs
  OBVIOUS
<1>3. CASE Turn(q)
  BY <1>1, <1>2, <1>3, TurnTickets DEF NInv
<1>4. CASE jobs # << >> /\ Turn(Tail(q))
  <2>1. QueueOK(Tail(q)) /\ Tickets(Tail(q))
    BY <1>1, <1>2, <1>4, NextJob, TailTickets DEF Rest
  <2>2. PICK t : t = Tail(q)
    OBVIOUS
  <2>3. Tickets(jobs)'
    BY <1>1, <1>4, <2>1, <2>2, TurnTickets
  <2>4. QED BY <1>1, <2>3 DEF NInv
<1>5. QED BY <1>2, <1>3, <1>4, NextTurn DEF NInv

LEMMA NumbersAlways == Spec => []NInv
BY InitNInv, NextNInv, PTL DEF Spec

-----------------------------------------------------------------------------
(* The refinement.  A reaction waits in the list of a promise, is ready in *)
(* the queue, or is in neither place.                                      *)

Sits(r, y) == \E i \in 1 .. Len(reactions[y]) : reactions[y][i].id = r
Ready(r, y, q) == \E j \in 1 .. Len(q) : q[j].reaction.id = r /\ q[j].reaction.source = y
Nowhere(r) == \A y \in Promise : ~Sits(r, y) /\ ~Ready(r, y, jobs)

(* What the refinement mapping says of a reaction, read off its place.     *)
Readings ==
    /\ \A r, y : y \in Promise /\ Sits(r, y) => Life(r) = "waiting" /\ SourceOf(r) = y
    /\ \A r, y : y \in Promise /\ Ready(r, y, jobs) => Life(r) = "ready" /\ SourceOf(r) = y
    /\ \A r : Nowhere(r) =>
          /\ Life(r) = IF r <= attached THEN "done" ELSE "none"
          /\ SourceOf(r) = 0

(* A reaction waits at a pending promise and is ready at a settled one.    *)
Waits ==
    \A r, y : y \in Promise =>
        /\ Sits(r, y) => state[y] = "pending"
        /\ Ready(r, y, jobs) => state[y] \in Settled

(* The lists and the queue, place by place.                                *)
LEMMA PlacesListed ==
    ASSUME HeapOK, QueueOK(jobs)
    PROVE  /\ \A x : x \in Waiting <=> \E y \in Promise : \E i \in 1 .. Len(reactions[y]) : x = reactions[y][i]
           /\ \A x : x \in Queued <=> \E i \in 1 .. Len(jobs) : x = jobs[i].reaction
<1>1. jobs \in Seq(Job) /\ reactions \in [Promise -> Seq(Reaction)]
  BY DEF HeapOK, QueueOK
<1>2. DOMAIN jobs = 1 .. Len(jobs) /\ \A y \in Promise : DOMAIN reactions[y] = 1 .. Len(reactions[y])
  BY <1>1, LenProperties
<1>3. QED BY <1>2 DEF Waiting, WaitingOn, Queued

LEMMA PlacesRead == NInv => Readings /\ Waits
<1> SUFFICES ASSUME NInv PROVE Readings /\ Waits
  OBVIOUS
<1>1. HeapOK /\ QueueOK(jobs) /\ Tickets(jobs)
  BY DEF NInv, IInv
<1>2. \A x : x \in Waiting <=> \E y \in Promise : \E i \in 1 .. Len(reactions[y]) : x = reactions[y][i]
  BY <1>1, PlacesListed
<1>3. \A x : x \in Queued <=> \E i \in 1 .. Len(jobs) : x = jobs[i].reaction
  BY <1>1, PlacesListed
<1>4. \A y \in Promise : \A i \in 1 .. Len(reactions[y]) : reactions[y][i].source = y
  BY <1>1 DEF HeapOK, ListOK
<1>5. \A j \in 1 .. Len(jobs) : /\ jobs[j].reaction.source \in Promise
                                /\ state[jobs[j].reaction.source] \in Settled
  <2>1. TAKE j \in 1 .. Len(jobs)
  <2>2. JobOK(jobs[j])
    BY <1>1 DEF QueueOK
  <2>3. /\ jobs[j] \in Job /\ jobs[j].reaction \in Reaction /\ jobs[j].state \in Settled
        /\ state[jobs[j].reaction.source] = jobs[j].state
    BY <2>2 DEF JobOK, Job
  <2>4. QED BY <2>3 DEF Reaction
<1>6. ASSUME NEW r, NEW y \in Promise, Sits(r, y)
      PROVE  Life(r) = "waiting" /\ SourceOf(r) = y
  <2>1. PICK i \in 1 .. Len(reactions[y]) : reactions[y][i].id = r
    BY <1>6 DEF Sits
  <2>2. reactions[y][i] \in Waiting
    BY <1>2
  <2>3. ASSUME NEW x, x \in Waiting \union Queued, x.id = r
        PROVE  x.source = y
    <3>1. CASE x \in Waiting
      <4>1. PICK z \in Promise : \E k \in 1 .. Len(reactions[z]) : x = reactions[z][k]
        BY <1>2, <3>1
      <4>2. PICK k \in 1 .. Len(reactions[z]) : x = reactions[z][k]
        BY <4>1
      <4>3. z = y
        BY <1>1, <2>1, <2>3, <4>2 DEF Tickets, ListsApart
      <4>4. QED BY <1>4, <4>2, <4>3
    <3>2. CASE x \in Queued
      <4>1. PICK k \in 1 .. Len(jobs) : x = jobs[k].reaction
        BY <1>3, <3>2
      <4>2. QED BY <1>1, <2>1, <2>3, <4>1 DEF Tickets, QueueApart
    <3>3. QED BY <2>3, <3>1, <3>2
  <2>4. Life(r) = "waiting"
    BY <2>1, <2>2 DEF Life
  <2>5. SourceOf(r) = y
    <3>1. \E x \in Waiting \union Queued : x.id = r
      BY <2>1, <2>2
    <3>2. PICK x : x = CHOOSE z \in Waiting \union Queued : z.id = r
      OBVIOUS
    <3>3. x \in Waiting \union Queued /\ x.id = r
      BY <3>1, <3>2
    <3>4. SourceOf(r) = x.source
      BY <3>1, <3>2 DEF SourceOf
    <3>5. QED BY <2>3, <3>3, <3>4
  <2>6. QED BY <2>4, <2>5
<1>7. ASSUME NEW r, NEW y \in Promise, Ready(r, y, jobs)
      PROVE  Life(r) = "ready" /\ SourceOf(r) = y
  <2>1. PICK j \in 1 .. Len(jobs) : jobs[j].reaction.id = r /\ jobs[j].reaction.source = y
    BY <1>7 DEF Ready
  <2>2. jobs[j].reaction \in Queued
    BY <1>3
  <2>3. \A x \in Waiting : x.id # r
    <3>1. TAKE x \in Waiting
    <3>2. PICK z \in Promise : \E k \in 1 .. Len(reactions[z]) : x = reactions[z][k]
      BY <1>2, <3>1
    <3>3. QED BY <1>1, <2>1, <3>2 DEF Tickets, QueueApart
  <2>4. ASSUME NEW x, x \in Waiting \union Queued, x.id = r
        PROVE  x.source = y
    <3>1. x \in Queued
      BY <2>3, <2>4
    <3>2. PICK k \in 1 .. Len(jobs) : x = jobs[k].reaction
      BY <1>3, <3>1
    <3>3. ~(j < k) /\ ~(k < j)
      BY <1>1, <2>1, <2>4, <3>2 DEF Tickets, QueueOrdered
    <3>4. j = k
      <4>1. Len(jobs) \in Nat
        BY <1>1, LenProperties DEF QueueOK
      <4>2. QED BY <3>3, <4>1
    <3>5. QED BY <2>1, <3>2, <3>4
  <2>5. Life(r) = "ready"
    BY <2>1, <2>2, <2>3 DEF Life
  <2>6. SourceOf(r) = y
    <3>1. \E x \in Waiting \union Queued : x.id = r
      BY <2>1, <2>2
    <3>2. PICK x : x = CHOOSE z \in Waiting \union Queued : z.id = r
      OBVIOUS
    <3>3. x \in Waiting \union Queued /\ x.id = r
      BY <3>1, <3>2
    <3>4. SourceOf(r) = x.source
      BY <3>1, <3>2 DEF SourceOf
    <3>5. QED BY <2>4, <3>3, <3>4
  <2>7. QED BY <2>5, <2>6
<1>8. ASSUME NEW r, Nowhere(r)
      PROVE  /\ Life(r) = IF r <= attached THEN "done" ELSE "none"
             /\ SourceOf(r) = 0
  <2>1. \A x \in Waiting : x.id # r
    BY <1>2, <1>8 DEF Nowhere, Sits
  <2>2. \A x \in Queued : x.id # r
    BY <1>3, <1>5, <1>8 DEF Nowhere, Ready
  <2>3. QED BY <2>1, <2>2 DEF Life, SourceOf
<1>9. Readings
  BY <1>6, <1>7, <1>8 DEF Readings
<1>10. Waits
  <2>1. ASSUME NEW r, NEW y \in Promise, Sits(r, y)
        PROVE  state[y] = "pending"
    <3>1. reactions[y] # << >>
      BY <2>1, EmptySeq DEF Sits
    <3>2. QED BY <1>1, <3>1 DEF HeapOK, NoReactionLeftBehind
  <2>2. ASSUME NEW r, NEW y \in Promise, Ready(r, y, jobs)
        PROVE  state[y] \in Settled
    BY <1>5, <2>2 DEF Ready
  <2>3. QED BY <2>1, <2>2 DEF Waits
<1>11. QED BY <1>9, <1>10

(* A step from the queue q: a reaction stays where it is or moves from the *)
(* list of its promise to the queue, and only the next number joins.       *)
PlaceStep(q) ==
    /\ \A r, y : y \in Promise /\ Sits(r, y) => Sits(r, y)' \/ Ready(r, y, jobs)'
    /\ \A r, y : y \in Promise /\ Ready(r, y, q) => Ready(r, y, jobs)'
    /\ \A r, y : y \in Promise /\ Sits(r, y)' => Sits(r, y) \/ NewNumber(r)
    /\ \A r, y : y \in Promise /\ Ready(r, y, jobs)' =>
          Ready(r, y, q) \/ Sits(r, y) \/ NewNumber(r)
    /\ \/ attached' = attached
       \/ \E r, y : y \in Promise /\ NewNumber(r) /\ (Sits(r, y)' \/ Ready(r, y, jobs)')

LEMMA MovedPlaces ==
    ASSUME NEW p \in Promise, NEW q, Moved(p, q)
    PROVE  PlaceStep(q)
<1>1. ASSUME NEW r, NEW y \in Promise, Sits(r, y)
      PROVE  Sits(r, y)' \/ Ready(r, y, jobs)'
  <2>1. CASE y # p
    BY <1>1, <2>1 DEF Sits, Moved
  <2>2. CASE y = p
    <3>1. PICK i \in 1 .. Len(reactions[p]) : reactions[p][i].id = r
      BY <1>1, <2>2 DEF Sits
    <3>2. PICK j : /\ j \in 1 .. Len(jobs') /\ jobs'[j].reaction = reactions[p][i]
                   /\ reactions[p][i].source = p
      BY <3>1 DEF Moved
    <3>3. j \in 1 .. Len(jobs') /\ jobs'[j].reaction.id = r /\ jobs'[j].reaction.source = y
      BY <2>2, <3>1, <3>2
    <3>4. QED BY <3>3 DEF Ready
  <2>3. QED BY <2>1, <2>2
<1>2. ASSUME NEW r, NEW y \in Promise, Ready(r, y, q)
      PROVE  Ready(r, y, jobs)'
  BY <1>2 DEF Ready, Moved
<1>3. ASSUME NEW r, NEW y \in Promise, Sits(r, y)'
      PROVE  Sits(r, y)
  BY <1>3 DEF Sits, Moved
<1>4. ASSUME NEW r, NEW y \in Promise, Ready(r, y, jobs)'
      PROVE  Ready(r, y, q) \/ Sits(r, y)
  <2>1. PICK j \in 1 .. Len(jobs') : jobs'[j].reaction.id = r /\ jobs'[j].reaction.source = y
    BY <1>4 DEF Ready
  <2>2. CASE j \in 1 .. Len(q)
    BY <2>1, <2>2 DEF Moved, Ready
  <2>3. CASE j \notin 1 .. Len(q)
    <3>1. PICK k \in 1 .. Len(reactions[p]) :
              jobs'[j].reaction = reactions[p][k] /\ reactions[p][k].source = p
      BY <2>3 DEF Moved
    <3>2. QED BY <2>1, <3>1 DEF Sits
  <2>4. QED BY <2>2, <2>3
<1>5. attached' = attached
  BY DEF Moved
<1>6. QED BY <1>1, <1>2, <1>3, <1>4, <1>5 DEF PlaceStep

LEMMA JoinedPlaceStep ==
    ASSUME NEW x, NEW src \in Promise, NEW q, Joined(x, src, q)
    PROVE  PlaceStep(q)
<1>1. CASE JoinedList(x, src, q)
  <2>1. PICK s, t : s = reactions[src] /\ t = reactions'[src]
    OBVIOUS
  <2>2. /\ Grown(s, t, x) /\ jobs' = q /\ NewNumber(x.id)
        /\ \A z \in Promise \ {src} : reactions'[z] = reactions[z]
    BY <1>1, <2>1 DEF JoinedList
  <2>3. /\ \A i \in 1 .. Len(s) : i \in 1 .. Len(t) /\ t[i] = s[i]
        /\ Len(s) + 1 \in 1 .. Len(t) /\ t[Len(s) + 1] = x
        /\ \A i \in 1 .. Len(t) : i \in 1 .. Len(s) \/ i = Len(s) + 1
    BY <2>2 DEF Grown
  <2>4. ASSUME NEW r, NEW y \in Promise, Sits(r, y)
        PROVE  Sits(r, y)'
    BY <2>1, <2>2, <2>3, <2>4 DEF Sits
  <2>5. ASSUME NEW r, NEW y \in Promise, Sits(r, y)'
        PROVE  Sits(r, y) \/ NewNumber(r)
    BY <2>1, <2>2, <2>3, <2>5 DEF Sits
  <2>6. \A r, y : Ready(r, y, jobs)' <=> Ready(r, y, q)
    BY <2>2 DEF Ready
  <2>7. Sits(x.id, src)' /\ NewNumber(x.id)
    BY <2>1, <2>2, <2>3 DEF Sits
  <2>8. QED BY <2>4, <2>5, <2>6, <2>7 DEF PlaceStep
<1>2. CASE JoinedQueue(x, src, q)
  <2>1. PICK t : t = jobs'
    OBVIOUS
  <2>2. PICK job : job.reaction = x /\ Grown(q, t, job)
    BY <1>2, <2>1 DEF JoinedQueue
  <2>3. NewNumber(x.id) /\ x.source = src /\ reactions' = reactions
    BY <1>2 DEF JoinedQueue
  <2>4. /\ \A i \in 1 .. Len(q) : i \in 1 .. Len(t) /\ t[i] = q[i]
        /\ Len(q) + 1 \in 1 .. Len(t) /\ t[Len(q) + 1] = job
        /\ \A i \in 1 .. Len(t) : i \in 1 .. Len(q) \/ i = Len(q) + 1
    BY <2>2 DEF Grown
  <2>5. \A r, y : Sits(r, y)' <=> Sits(r, y)
    BY <2>3 DEF Sits
  <2>6. ASSUME NEW r, NEW y, Ready(r, y, q)
        PROVE  Ready(r, y, jobs)'
    BY <2>1, <2>4, <2>6 DEF Ready
  <2>7. ASSUME NEW r, NEW y, Ready(r, y, jobs)'
        PROVE  Ready(r, y, q) \/ NewNumber(r)
    BY <2>1, <2>2, <2>3, <2>4, <2>7 DEF Ready
  <2>8. Ready(x.id, src, jobs)'
    BY <2>1, <2>2, <2>3, <2>4 DEF Ready
  <2>9. QED BY <2>3, <2>5, <2>6, <2>7, <2>8 DEF PlaceStep
<1>3. QED BY <1>1, <1>2 DEF Joined

LEMMA TurnPlaces ==
    ASSUME NEW q, Turn(q)
    PROVE  PlaceStep(q)
<1>1. CASE Still(q)
  BY <1>1 DEF Still, PlaceStep, Sits, Ready
<1>2. QED BY <1>1, MovedPlaces, JoinedPlaceStep DEF Turn

(* What such a step does to the life of a reaction: the one it consumes is *)
(* the head of the queue.                                                  *)
LEMMA LifeMoves ==
    ASSUME NInv, NEW q, PlaceStep(q), Readings, Readings', NEW r \in Nat,
           \/ q = jobs
           \/ jobs # << >> /\ q = Tail(jobs)
    PROVE  /\ \/ Life(r)' = Life(r)
              \/ Life(r) = "none" /\ Life(r)' \in {"waiting", "ready"}
              \/ Life(r) = "waiting" /\ Life(r)' = "ready"
              \/ /\ Life(r) = "ready" /\ Life(r)' = "done"
                 /\ jobs # << >> /\ q = Tail(jobs) /\ r = Next1.reaction.id
           /\ Life(r) # "none" /\ Life(r)' # "done" => SourceOf(r)' = SourceOf(r)
<1>1. jobs \in Seq(Job) /\ attached \in Nat /\ Tickets(jobs)
  BY ProgramsAssumption, BoundsAssumption DEF NInv, IInv, HeapOK, QueueOK
<1>2. \A y : y \in Promise /\ Ready(r, y, q) => Ready(r, y, jobs)
  <2>1. CASE q = jobs
    BY <2>1
  <2>2. CASE jobs # << >> /\ q = Tail(jobs)
    <3>1. \A i \in 1 .. Len(q) : i + 1 \in 1 .. Len(jobs) /\ q[i] = jobs[i + 1]
      BY <1>1, <2>2, EmptySeq, HeadTailProperties
    <3>2. QED BY <3>1 DEF Ready
  <2>3. QED BY <2>1, <2>2
<1>3. CASE \E y \in Promise : Sits(r, y)
  <2>1. PICK y \in Promise : Sits(r, y)
    BY <1>3
  <2>2. Life(r) = "waiting" /\ SourceOf(r) = y
    BY <2>1 DEF Readings
  <2>3. Sits(r, y)' \/ Ready(r, y, jobs)'
    BY <2>1 DEF PlaceStep
  <2>4. Life(r)' \in {"waiting", "ready"} /\ SourceOf(r)' = y
    BY <2>3 DEF Readings
  <2>5. QED BY <2>2, <2>4
<1>4. CASE \E y \in Promise : Ready(r, y, q)
  <2>1. PICK y \in Promise : Ready(r, y, q)
    BY <1>4
  <2>2. Life(r) = "ready" /\ SourceOf(r) = y
    BY <1>2, <2>1 DEF Readings
  <2>3. Ready(r, y, jobs)'
    BY <2>1 DEF PlaceStep
  <2>4. Life(r)' = "ready" /\ SourceOf(r)' = y
    BY <2>3 DEF Readings
  <2>5. QED BY <2>2, <2>4
<1>5. CASE \A y \in Promise : ~Sits(r, y) /\ ~Ready(r, y, q)
  <2>1. ~NewNumber(r) => Nowhere(r)'
    BY <1>5 DEF PlaceStep, Nowhere
  <2>2. CASE Nowhere(r)
    <3>1. CASE NewNumber(r)
      <4>1. \E y : y \in Promise /\ (Sits(r, y)' \/ Ready(r, y, jobs)')
        BY <1>1, <3>1 DEF PlaceStep, NewNumber
      <4>2. Life(r)' \in {"waiting", "ready"}
        BY <4>1 DEF Readings
      <4>3. Life(r) = "none"
        BY <1>1, <2>2, <3>1 DEF Readings, NewNumber
      <4>4. QED BY <4>2, <4>3
    <3>2. CASE ~NewNumber(r)
      <4>1. attached' = attached \/ attached' = attached + 1
        BY DEF PlaceStep, NewNumber
      <4>2. r <= attached' <=> r <= attached
        BY <1>1, <3>2, <4>1 DEF NewNumber
      <4>3. /\ Life(r)' = IF r <= attached' THEN "done" ELSE "none"
            /\ SourceOf(r)' = 0
        BY <2>1, <3>2 DEF Readings
      <4>4. /\ Life(r) = IF r <= attached THEN "done" ELSE "none"
            /\ SourceOf(r) = 0
        BY <2>2 DEF Readings
      <4>5. QED BY <4>2, <4>3, <4>4
    <3>3. QED BY <3>1, <3>2
  <2>3. CASE ~Nowhere(r)
    <3>1. PICK y \in Promise : Ready(r, y, jobs)
      BY <1>5, <2>3 DEF Nowhere
    <3>2. jobs # << >> /\ q = Tail(jobs)
      BY <1>5, <3>1
    <3>3. PICK j \in 1 .. Len(jobs) : jobs[j].reaction.id = r /\ jobs[j].reaction.source = y
      BY <3>1 DEF Ready
    <3>4. j = 1
      <4>1. Len(jobs) \in Nat /\ Len(q) = Len(jobs) - 1
            /\ \A i \in 1 .. Len(q) : q[i] = jobs[i + 1]
        BY <1>1, <3>2, HeadTailProperties, LenProperties
      <4>2. j # 1 => j - 1 \in 1 .. Len(q) /\ q[j - 1] = jobs[j]
        BY <4>1
      <4>3. QED BY <1>5, <3>3, <4>2 DEF Ready
    <3>5. r = Next1.reaction.id
      BY <1>1, <3>2, <3>3, <3>4, HeadTailProperties DEF Next1
    <3>6. r <= attached /\ Life(r) = "ready"
      BY <1>1, <3>1, <3>3 DEF Readings, Tickets, Numbered
    <3>7. r <= attached' /\ Nowhere(r)'
      BY <1>1, <2>1, <3>6 DEF PlaceStep, NewNumber
    <3>8. Life(r)' = "done"
      BY <3>7 DEF Readings
    <3>9. QED BY <3>2, <3>5, <3>6, <3>8
  <2>4. QED BY <2>2, <2>3
<1>6. QED BY <1>3, <1>4, <1>5

(* No reaction that is left is older than the consumed one and of its      *)
(* promise.                                                                *)
LEMMA HeadIsOldest ==
    ASSUME NInv, Readings, Waits, jobs # << >>, NEW r \in Nat, r = Next1.reaction.id,
           NEW s \in Nat, s < r, Life(s) \in {"waiting", "ready"}
    PROVE  SourceOf(s) # SourceOf(r)
<1>1. jobs \in Seq(Job) /\ Tickets(jobs)
  BY DEF NInv, IInv, QueueOK
<1>2. PICK h, t : h = Head(jobs) /\ t = Tail(jobs)
  OBVIOUS
<1>3. 1 \in 1 .. Len(jobs) /\ h = jobs[1] /\ h \in Job /\ Len(jobs) \in Nat
  BY <1>1, <1>2, EmptySeq, HeadTailProperties
<1>4. PICK y1 : y1 = h.reaction.source
  OBVIOUS
<1>5. y1 \in Promise /\ Ready(r, y1, jobs)
  <2>1. h.reaction \in Reaction
    BY <1>3 DEF Job
  <2>2. QED BY <1>2, <1>3, <1>4, <2>1 DEF Ready, Reaction, Next1
<1>6. SourceOf(r) = y1
  BY <1>5 DEF Readings
<1>7. state[y1] \in Settled
  BY <1>5 DEF Waits
<1>8. CASE \E y \in Promise : Sits(s, y)
  <2>1. PICK y \in Promise : Sits(s, y)
    BY <1>8
  <2>2. SourceOf(s) = y /\ state[y] = "pending"
    BY <2>1 DEF Readings, Waits
  <2>3. QED BY <1>6, <1>7, <2>2 DEF Settled
<1>9. CASE \E y \in Promise : Ready(s, y, jobs)
  <2>1. PICK y \in Promise : Ready(s, y, jobs)
    BY <1>9
  <2>2. SourceOf(s) = y
    BY <2>1 DEF Readings
  <2>3. PICK j \in 1 .. Len(jobs) : jobs[j].reaction.id = s /\ jobs[j].reaction.source = y
    BY <2>1 DEF Ready
  <2>4. j # 1 /\ 1 < j
    BY <1>2, <1>3, <2>3 DEF Next1
  <2>5. jobs[1].reaction.source = jobs[j].reaction.source =>
            jobs[1].reaction.id < jobs[j].reaction.id
    BY <1>1, <1>3, <2>4 DEF Tickets, QueueOrdered
  <2>6. y1 # y
    BY <1>2, <1>3, <1>4, <2>3, <2>5 DEF Next1
  <2>7. QED BY <1>6, <2>2, <2>6
<1>10. QED BY <1>8, <1>9 DEF Nowhere, Readings

LEMMA WaitsInContract == NInv => Contract!WaitsWhilePending
<1> SUFFICES ASSUME NInv, NEW r \in 1 .. MaxReactions
             PROVE  /\ Life(r) = "waiting" => state[SourceOf(r)] = "pending"
                    /\ Life(r) = "ready" => state[SourceOf(r)] \in {"fulfilled", "rejected"}
  BY DEF Contract!WaitsWhilePending, Contract!Reaction, Contract!Settled
<1>1. Readings /\ Waits
  BY PlacesRead
<1>2. CASE \E y \in Promise : Sits(r, y)
  BY <1>1, <1>2 DEF Readings, Waits
<1>3. CASE \E y \in Promise : Ready(r, y, jobs)
  BY <1>1, <1>3 DEF Readings, Waits, Settled
<1>4. CASE Nowhere(r)
  BY <1>1, <1>4 DEF Readings
<1>5. QED BY <1>2, <1>3, <1>4 DEF Nowhere

(* The machine implements the promise contract: through callbacks, nested  *)
(* awaits and unwinding a promise is settled at most once, a reaction      *)
(* waits while its promise is pending and is ready from then on, and the   *)
(* reactions of one promise are consumed one by one in the order of their  *)
(* attachment, none of them twice.                                         *)
THEOREM ContractImplemented == Spec => ImplementsContract
<1>1. Init => Contract!Init
  <2> SUFFICES ASSUME Init PROVE Contract!Init
    OBVIOUS
  <2>1. NInv /\ Readings
    BY InitNInv, PlacesRead
  <2>2. jobs = << >> /\ \A p \in Promise : reactions[p] = << >>
    BY DEF Init
  <2>3. \A i : i \notin 1 .. Len(jobs) /\ \A p \in Promise : i \notin 1 .. Len(reactions[p])
    BY <2>2, EmptySeq
  <2>4. \A r : Nowhere(r)
    BY <2>3 DEF Nowhere, Sits, Ready
  <2>5. \A r \in 1 .. MaxReactions : Life(r) = "none" /\ SourceOf(r) = 0
    <3>1. TAKE r \in 1 .. MaxReactions
    <3>2. attached = 0
      BY DEF Init
    <3>3. ~(r <= attached)
      BY <3>2, BoundsAssumption
    <3>4. QED BY <2>1, <2>4, <3>3 DEF Readings
  <2>6. state = [p \in Promise |-> "free"]
    BY DEF Init
  <2>7. QED BY <2>5, <2>6 DEF Contract!Init, Contract!Reaction
<1>2. NInv /\ NInv' /\ [Next]_vars => [Contract!Next]_(Contract!vars)
  <2> SUFFICES ASSUME NInv, NInv', [Next]_vars PROVE Contract!Next
    OBVIOUS
  <2>1. Readings /\ Waits
    BY PlacesRead
  <2>2. Readings' /\ Waits'
    <3>1. NInv' => (Readings /\ Waits)'
      BY PlacesRead, PTL
    <3>2. QED BY <3>1
  <2>3. PICK q : /\ Turn(q)
                 /\ q = jobs \/ (jobs # << >> /\ q = Tail(jobs))
    BY NextTurn DEF NInv
  <2>4. \A r \in 1 .. MaxReactions : r \in Nat
    BY BoundsAssumption
  <2>5. PlaceStep(q)
    BY <2>3, TurnPlaces
  <2>6. ASSUME NEW r \in 1 .. MaxReactions
        PROVE  /\ \/ Life(r)' = Life(r)
                  \/ Life(r) = "none" /\ Life(r)' \in {"waiting", "ready"}
                  \/ Life(r) = "waiting" /\ Life(r)' = "ready"
                  \/ /\ Life(r) = "ready" /\ Life(r)' = "done"
                     /\ jobs # << >> /\ r = Next1.reaction.id
               /\ Life(r) # "none" /\ Life(r)' # "done" => SourceOf(r)' = SourceOf(r)
    BY <2>1, <2>2, <2>3, <2>4, <2>5, LifeMoves
  <2>7. Contract!OutcomeStep
    BY <2>3 DEF Turn, OutcomeMoves, Contract!OutcomeStep, Contract!Settled,
                Contract!Outcome, Settled
  <2>8. Contract!LifeStep
    BY <2>6 DEF Contract!LifeStep, Contract!Reaction
  <2>9. Contract!SourceFixed
    BY <2>6 DEF Contract!SourceFixed, Contract!Reaction
  <2>10. Contract!WaitsWhilePending'
    <3>1. NInv' => Contract!WaitsWhilePending'
      BY WaitsInContract, PTL
    <3>2. QED BY <3>1
  <2>11. Contract!OldestFirst
    <3>1. ASSUME NEW r \in 1 .. MaxReactions, Life(r) = "ready", Life(r)' = "done"
          PROVE  jobs # << >> /\ r = Next1.reaction.id
      BY <2>6, <3>1
    <3>2. ASSUME NEW r \in 1 .. MaxReactions, Life(r) = "ready", Life(r)' = "done",
                 NEW s \in 1 .. MaxReactions, s < r, Life(s) \in {"waiting", "ready"}
          PROVE  SourceOf(s) # SourceOf(r)
      BY <2>1, <2>4, <3>1, <3>2, HeadIsOldest
    <3>3. ASSUME NEW r \in 1 .. MaxReactions, Life(r) = "ready", Life(r)' = "done",
                 NEW s \in 1 .. MaxReactions, Life(s) = "ready", Life(s)' = "done"
          PROVE  s = r
      BY <3>1, <3>3
    <3>4. QED BY <3>2, <3>3 DEF Contract!OldestFirst, Contract!Consumed, Contract!Reaction
  <2>12. QED BY <2>7, <2>8, <2>9, <2>10, <2>11 DEF Contract!Next
<1>3. QED BY <1>1, <1>2, NumbersAlways, PTL DEF Spec, ImplementsContract, Contract!Spec

-----------------------------------------------------------------------------
(* Resumption.  A reaction is around until the job it became is taken.     *)
Around(x, q) ==
    \/ \E y \in Promise : \E i \in 1 .. Len(reactions[y]) : reactions[y][i] = x
    \/ \E j \in 1 .. Len(q) : q[j].reaction = x

Resumes(x, k) == x.fulfilled.kind = "resume" /\ x.fulfilled.task = k

(* Both handlers of a reaction resume the same task, or neither does one.  *)
Paired(x) ==
    /\ x.fulfilled.kind = "resume" <=> x.rejected.kind = "resume"
    /\ x.fulfilled.kind = "resume" => x.fulfilled.task = x.rejected.task

(* Reactions that resume are of suspended tasks, each of another one, and  *)
(* there is one for every suspended task.                                  *)
ResumesLive(q, ts) == \A x, k : Around(x, q) /\ Resumes(x, k) => k \in 1 .. Len(ts) /\ ts[k].live
ResumesApart(q) == \A x, y, k :
    Around(x, q) /\ Around(y, q) /\ Resumes(x, k) /\ Resumes(y, k) => x = y
LiveResumed(q, ts) == \A k \in 1 .. Len(ts) :
    ts[k].live => \E x : Around(x, q) /\ Resumes(x, k)

Resumption(q, ts) ==
    /\ \A x : Around(x, q) => Paired(x)
    /\ ResumesLive(q, ts)
    /\ ResumesApart(q)
    /\ LiveResumed(q, ts)

(* What is around after a step from the queue q.                           *)
Keeps(q) == \A x : Around(x, jobs)' <=> Around(x, q)
Adds(z, q) == \A x : Around(x, jobs)' <=> Around(x, q) \/ x = z

LEMMA MovedKeeps ==
    ASSUME NEW p \in Promise, NEW q, Moved(p, q)
    PROVE  Keeps(q)
<1>1. ASSUME NEW x, Around(x, q) PROVE Around(x, jobs)'
  <2>1. ASSUME NEW y \in Promise, NEW i \in 1 .. Len(reactions[y]), reactions[y][i] = x
        PROVE  Around(x, jobs)'
    <3>1. CASE y # p
      BY <2>1, <3>1 DEF Moved, Around
    <3>2. CASE y = p
      <4>1. Len(q) + i \in 1 .. Len(jobs') /\ jobs'[Len(q) + i].reaction = x
        BY <2>1, <3>2 DEF Moved
      <4>2. QED BY <4>1 DEF Around
    <3>3. QED BY <3>1, <3>2
  <2>2. ASSUME NEW j \in 1 .. Len(q), q[j].reaction = x PROVE Around(x, jobs)'
    <3>1. j \in 1 .. Len(jobs') /\ jobs'[j] = q[j]
      BY DEF Moved
    <3>2. QED BY <2>2, <3>1 DEF Around
  <2>3. QED BY <1>1, <2>1, <2>2 DEF Around
<1>2. ASSUME NEW x, Around(x, jobs)' PROVE Around(x, q)
  <2>1. ASSUME NEW y \in Promise, NEW i \in 1 .. Len(reactions'[y]), reactions'[y][i] = x
        PROVE  Around(x, q)
    BY <2>1 DEF Moved, Around
  <2>2. ASSUME NEW j \in 1 .. Len(jobs'), jobs'[j].reaction = x PROVE Around(x, q)
    <3>1. CASE j \in 1 .. Len(q)
      <4>1. jobs'[j] = q[j]
        BY <3>1 DEF Moved
      <4>2. QED BY <2>2, <3>1, <4>1 DEF Around
    <3>2. CASE j \notin 1 .. Len(q)
      <4>1. PICK k \in 1 .. Len(reactions[p]) : jobs'[j].reaction = reactions[p][k]
        BY <3>2 DEF Moved
      <4>2. QED BY <2>2, <4>1 DEF Around
    <3>3. QED BY <3>1, <3>2
  <2>3. QED BY <1>2, <2>1, <2>2 DEF Around
<1>3. QED BY <1>1, <1>2 DEF Keeps

LEMMA JoinedAdds ==
    ASSUME NEW z, NEW src \in Promise, NEW q, Joined(z, src, q)
    PROVE  Adds(z, q)
<1>1. CASE JoinedList(z, src, q)
  <2>1. PICK s, t : s = reactions[src] /\ t = reactions'[src]
    OBVIOUS
  <2>2. /\ Grown(s, t, z) /\ jobs' = q
        /\ \A y \in Promise \ {src} : reactions'[y] = reactions[y]
    BY <1>1, <2>1 DEF JoinedList
  <2>3. \A x : (\E i \in 1 .. Len(t) : t[i] = x) <=> (\E i \in 1 .. Len(s) : s[i] = x) \/ x = z
    <3>1. TAKE x
    <3>2. ASSUME NEW i \in 1 .. Len(t), t[i] = x
          PROVE  (\E k \in 1 .. Len(s) : s[k] = x) \/ x = z
      BY <2>2, <3>2 DEF Grown
    <3>3. ASSUME NEW i \in 1 .. Len(s), s[i] = x
          PROVE  \E k \in 1 .. Len(t) : t[k] = x
      BY <2>2, <3>3 DEF Grown
    <3>4. Len(s) + 1 \in 1 .. Len(t) /\ t[Len(s) + 1] = z
      BY <2>2 DEF Grown
    <3>5. QED BY <3>2, <3>3, <3>4
  <2>4. ASSUME NEW x PROVE Around(x, jobs)' <=> Around(x, q) \/ x = z
    <3>1. \A y \in Promise : y # src =>
             ((\E i \in 1 .. Len(reactions'[y]) : reactions'[y][i] = x)
                 <=> (\E i \in 1 .. Len(reactions[y]) : reactions[y][i] = x))
      BY <2>2
    <3>2. (\E i \in 1 .. Len(reactions'[src]) : reactions'[src][i] = x)
             <=> (\E i \in 1 .. Len(reactions[src]) : reactions[src][i] = x) \/ x = z
      BY <2>1, <2>3
    <3>3. (\E j \in 1 .. Len(jobs') : jobs'[j].reaction = x)
             <=> (\E j \in 1 .. Len(q) : q[j].reaction = x)
      BY <2>2
    <3>4. (\E y \in Promise : \E i \in 1 .. Len(reactions'[y]) : reactions'[y][i] = x)
             <=> \/ \E y \in Promise : \E i \in 1 .. Len(reactions[y]) : reactions[y][i] = x
                 \/ x = z
      BY <3>1, <3>2
    <3>5. QED BY <3>3, <3>4 DEF Around
  <2>5. QED BY <2>4 DEF Adds
<1>2. CASE JoinedQueue(z, src, q)
  <2>1. PICK t : t = jobs'
    OBVIOUS
  <2>2. PICK job : job.reaction = z /\ Grown(q, t, job)
    BY <1>2, <2>1 DEF JoinedQueue
  <2>3. reactions' = reactions
    BY <1>2 DEF JoinedQueue
  <2>4. \A x : (\E i \in 1 .. Len(t) : t[i].reaction = x)
                 <=> (\E i \in 1 .. Len(q) : q[i].reaction = x) \/ x = z
    <3>1. TAKE x
    <3>2. ASSUME NEW i \in 1 .. Len(t), t[i].reaction = x
          PROVE  (\E k \in 1 .. Len(q) : q[k].reaction = x) \/ x = z
      BY <2>2, <3>2 DEF Grown
    <3>3. ASSUME NEW i \in 1 .. Len(q), q[i].reaction = x
          PROVE  \E k \in 1 .. Len(t) : t[k].reaction = x
      BY <2>2, <3>3 DEF Grown
    <3>4. Len(q) + 1 \in 1 .. Len(t) /\ t[Len(q) + 1].reaction = z
      BY <2>2 DEF Grown
    <3>5. QED BY <3>2, <3>3, <3>4
  <2>5. QED BY <2>1, <2>3, <2>4 DEF Adds, Around
<1>3. QED BY <1>1, <1>2 DEF Joined

LEMMA IdleKeeps ==
    ASSUME NEW q, Idle(q)
    PROVE  Keeps(q)
BY DEF Idle, Keeps, Around

LEMMA AttachingAdds ==
    ASSUME NEW z, NEW q, Attaching(z, q)
    PROVE  Adds(z, q)
BY JoinedAdds DEF Attaching

LEMMA DisposesKeeps ==
    ASSUME NEW p, NEW q, Disposes(p, q)
    PROVE  Keeps(q) \/ \E z : Ordinary(z) /\ Adds(z, q)
<1>1. CASE Idle(q)
  BY <1>1, IdleKeeps
<1>2. CASE p \in Promise /\ Settling(p, q)
  BY <1>2, MovedKeeps DEF Settling
<1>3. CASE \E x : x.next = p /\ Ordinary(x) /\ Attaching(x, q)
  BY <1>3, AttachingAdds
<1>4. QED BY <1>1, <1>2, <1>3 DEF Disposes

(* The head of the queue is around once and leaves.                        *)
LEMMA TailAround ==
    ASSUME NEW q, QueueOK(q), Tickets(q), q # << >>
    PROVE  /\ \A x : Around(x, q) <=> x = Head(q).reaction \/ Around(x, Tail(q))
           /\ ~Around(Head(q).reaction, Tail(q))
<1>1. q \in Seq(Job)
  BY DEF QueueOK
<1>2. PICK h, t : h = Head(q) /\ t = Tail(q)
  OBVIOUS
<1>3. /\ Len(q) \in Nat \ {0} /\ Len(t) = Len(q) - 1 /\ h = q[1]
      /\ \A i \in 1 .. Len(t) : t[i] = q[i + 1]
  BY <1>1, <1>2, EmptySeq, HeadTailProperties
<1>4. ASSUME NEW x, Around(x, q) PROVE x = h.reaction \/ Around(x, t)
  <2>1. ASSUME NEW j \in 1 .. Len(q), q[j].reaction = x, j # 1 PROVE Around(x, t)
    <3>1. j - 1 \in 1 .. Len(t) /\ t[j - 1] = q[j]
      BY <1>3, <2>1
    <3>2. QED BY <2>1, <3>1 DEF Around
  <2>2. QED BY <1>3, <1>4, <2>1 DEF Around
<1>5. ASSUME NEW x, x = h.reaction \/ Around(x, t) PROVE Around(x, q)
  <2>1. 1 \in 1 .. Len(q)
    BY <1>3
  <2>2. \A i \in 1 .. Len(t) : i + 1 \in 1 .. Len(q) /\ t[i] = q[i + 1]
    BY <1>3
  <2>3. QED BY <1>3, <1>5, <2>1, <2>2 DEF Around
<1>6. Taken(h.reaction, t)
  BY <1>2, TailTickets
<1>7. ~Around(h.reaction, t)
  BY <1>6 DEF Taken, Around
<1>8. QED BY <1>2, <1>4, <1>5, <1>7

(* Reactions that resume nothing come and go; tasks stay as they are.      *)
LEMMA KeepsResumption ==
    ASSUME NEW q, NEW ts, Resumption(q, ts), tasks' = ts,
           Keeps(q) \/ \E z : Ordinary(z) /\ Adds(z, q)
    PROVE  Resumption(jobs, tasks)'
<1>1. /\ \A x : Around(x, q) => Around(x, jobs)'
      /\ \A x : Around(x, jobs)' => Around(x, q) \/ Ordinary(x)
  BY DEF Keeps, Adds
<1>2. ASSUME NEW x, Ordinary(x) PROVE Paired(x) /\ \A k : ~Resumes(x, k)
  BY <1>2 DEF Ordinary, Paired, Resumes
<1>3. \A x : Around(x, jobs)' => Paired(x)
  BY <1>1, <1>2 DEF Resumption
<1>4. \A x, k : Around(x, jobs)' /\ Resumes(x, k) => Around(x, q)
  BY <1>1, <1>2
<1>5. ResumesLive(jobs, tasks)'
  BY <1>4 DEF Resumption, ResumesLive, Resumes
<1>6. ResumesApart(jobs)'
  BY <1>4 DEF Resumption, ResumesApart, Resumes
<1>7. LiveResumed(jobs, tasks)'
  BY <1>1 DEF Resumption, LiveResumed, Resumes
<1>8. QED BY <1>3, <1>5, <1>6, <1>7 DEF Resumption, Paired

(* A job that resumes nothing is taken.                                    *)
LEMMA OtherJobTaken ==
    ASSUME NEW q, QueueOK(q), Tickets(q), q # << >>, Resumption(q, tasks),
           Callback(Head(q)).kind # "resume"
    PROVE  Resumption(Tail(q), tasks)
<1>1. PICK h, t : h = Head(q) /\ t = Tail(q)
  OBVIOUS
<1>2. \A x : Around(x, q) <=> x = h.reaction \/ Around(x, t)
  BY <1>1, TailAround
<1>3. Paired(h.reaction)
  BY <1>2 DEF Resumption
<1>4. \A k : ~Resumes(h.reaction, k)
  BY <1>1, <1>3 DEF Callback, Paired, Resumes
<1>5. \A x : Around(x, t) => Paired(x)
  BY <1>2 DEF Resumption
<1>6. ResumesLive(t, tasks) /\ ResumesApart(t)
  BY <1>2 DEF Resumption, ResumesLive, ResumesApart
<1>7. LiveResumed(t, tasks)
  BY <1>2, <1>4 DEF Resumption, LiveResumed
<1>8. Resumption(t, tasks)
  BY <1>5, <1>6, <1>7 DEF Resumption
<1>9. QED BY <1>1, <1>8

(* The job that resumes task k is taken, and the task with it.             *)
LEMMA ResumingJobTaken ==
    ASSUME NEW q, QueueOK(q), Tickets(q), q # << >>, Resumption(q, tasks), tasks \in Seq(Task),
           NEW k, Callback(Head(q)).kind = "resume", k = Callback(Head(q)).task
    PROVE  Resumption(Tail(q), [tasks EXCEPT ![k] = NoTask])
<1>1. PICK h, t, x : h = Head(q) /\ t = Tail(q) /\ x = h.reaction
  OBVIOUS
<1>2. /\ \A y : Around(y, q) <=> y = x \/ Around(y, t)
      /\ ~Around(x, t)
  BY <1>1, TailAround
<1>3. Paired(x)
  BY <1>2 DEF Resumption
<1>4. Resumes(x, k) /\ \A l : Resumes(x, l) => l = k
  BY <1>1, <1>3 DEF Callback, Paired, Resumes
<1>5. k \in 1 .. Len(tasks)
  BY <1>2, <1>4 DEF Resumption, ResumesLive
<1>6. PICK ts : ts = [tasks EXCEPT ![k] = NoTask]
  OBVIOUS
<1>7. NoTask \in Task /\ NoTask.live = FALSE
  BY DEF Task, NoTask
<1>8. /\ Len(ts) = Len(tasks) /\ ts[k].live = FALSE
      /\ \A l \in 1 .. Len(tasks) : l # k => ts[l] = tasks[l]
  BY <1>5, <1>6, <1>7, ExceptSeq
<1>9. \A y : Around(y, t) => Paired(y) /\ ~Resumes(y, k)
  BY <1>2, <1>4 DEF Resumption, ResumesApart
<1>10. ResumesLive(t, ts)
  BY <1>2, <1>8, <1>9 DEF Resumption, ResumesLive
<1>11. ResumesApart(t)
  BY <1>2 DEF Resumption, ResumesApart
<1>12. LiveResumed(t, ts)
  <2> SUFFICES ASSUME NEW l \in 1 .. Len(ts), ts[l].live
               PROVE  \E y : Around(y, t) /\ Resumes(y, l)
    BY DEF LiveResumed
  <2>1. l # k /\ l \in 1 .. Len(tasks) /\ tasks[l].live
    BY <1>8
  <2>2. PICK y : Around(y, q) /\ Resumes(y, l)
    BY <2>1 DEF Resumption, LiveResumed
  <2>3. QED BY <1>2, <1>4, <2>1, <2>2
<1>13. Resumption(t, ts)
  BY <1>9, <1>10, <1>11, <1>12 DEF Resumption
<1>14. QED BY <1>1, <1>6, <1>13

(* The body that suspends gets a task and a reaction for it.               *)
LEMMA SuspendingResumption ==
    ASSUME tasks \in Seq(Task), NEW q, Resumption(q, tasks), NEW x, NEW k, NEW task,
           k = Len(tasks) + 1, tasks' = Append(tasks, task), task \in Task, task.live,
           x.fulfilled = Resume(k, FALSE), x.rejected = Resume(k, TRUE), Adds(x, q)
    PROVE  Resumption(jobs, tasks)'
<1>1. \A y : Around(y, jobs)' <=> Around(y, q) \/ y = x
  BY DEF Adds
<1>2. Paired(x) /\ Resumes(x, k) /\ \A l : Resumes(x, l) => l = k
  BY DEF Resume, Paired, Resumes
<1>3. PICK ts, us : ts = tasks /\ us = tasks'
  OBVIOUS
<1>4. /\ Len(ts) \in Nat /\ Len(us) = k /\ k = Len(ts) + 1 /\ us[k].live
      /\ \A l \in 1 .. Len(ts) : us[l] = ts[l]
  BY <1>3, AppendProperties, LenProperties
<1>5. \A y : Around(y, q) => ~Resumes(y, k)
  BY <1>3, <1>4 DEF Resumption, ResumesLive
<1>6. \A y : Around(y, jobs)' => Paired(y)
  BY <1>1, <1>2 DEF Resumption
<1>7. ASSUME NEW y, NEW l, Around(y, jobs)', Resumes(y, l)
      PROVE  l \in 1 .. Len(us) /\ us[l].live
  <2>1. CASE y = x
    BY <1>2, <1>4, <1>7, <2>1
  <2>2. CASE y # x
    <3>1. l \in 1 .. Len(ts) /\ ts[l].live
      BY <1>1, <1>3, <1>7, <2>2 DEF Resumption, ResumesLive
    <3>2. QED BY <1>4, <3>1
  <2>3. QED BY <2>1, <2>2
<1>8. ASSUME NEW y, NEW z, NEW l, Around(y, jobs)', Around(z, jobs)', Resumes(y, l), Resumes(z, l)
      PROVE  y = z
  BY <1>1, <1>2, <1>5, <1>8 DEF Resumption, ResumesApart
<1>9. ASSUME NEW l \in 1 .. Len(us), us[l].live
      PROVE  \E y : Around(y, jobs)' /\ Resumes(y, l)
  <2>1. CASE l = k
    BY <1>1, <1>2, <2>1
  <2>2. CASE l # k
    <3>1. l \in 1 .. Len(ts) /\ us[l] = ts[l]
      BY <1>4, <2>2
    <3>2. PICK y : Around(y, q) /\ Resumes(y, l)
      BY <1>3, <1>9, <3>1 DEF Resumption, LiveResumed
    <3>3. QED BY <1>1, <3>2
  <2>3. QED BY <2>1, <2>2
<1>10. ResumesLive(jobs, tasks)' /\ ResumesApart(jobs)' /\ LiveResumed(jobs, tasks)'
  BY <1>3, <1>7, <1>8, <1>9 DEF ResumesLive, ResumesApart, LiveResumed, Resumes
<1>11. QED BY <1>6, <1>10 DEF Resumption, Paired

(* The invariant of resumption.                                            *)
RInv == NInv /\ Resumption(jobs, tasks)

LEMMA InitRInv == Init => RInv
<1> SUFFICES ASSUME Init PROVE Resumption(jobs, tasks)
  BY InitNInv DEF RInv
<1>1. jobs = << >> /\ tasks = << >> /\ \A p \in Promise : reactions[p] = << >>
  BY DEF Init
<1>2. /\ \A i : i \notin 1 .. Len(jobs)
      /\ \A i : i \notin 1 .. Len(tasks)
      /\ \A p \in Promise : \A i : i \notin 1 .. Len(reactions[p])
  BY <1>1, EmptySeq
<1>3. QED BY <1>2 DEF Resumption, ResumesLive, ResumesApart, LiveResumed, Around

LEMMA NextRInv == RInv /\ [Next]_vars => RInv'
<1> SUFFICES ASSUME RInv, [Next]_vars PROVE Resumption(jobs, tasks)'
  BY NextNInv DEF RInv
<1>1. /\ HeapOK /\ QueueOK(jobs) /\ Tickets(jobs) /\ StackOK(stack)
      /\ Resumption(jobs, tasks) /\ Effects
  BY NextEffects DEF RInv, NInv, IInv
<1>2. PICK q, t, h, ts : q = jobs /\ t = Rest /\ h = Next1 /\ ts = tasks
  OBVIOUS
<1>3. ASSUME tasks' = tasks, Keeps(q) \/ \E z : Ordinary(z) /\ Adds(z, q)
      PROVE  Resumption(jobs, tasks)'
  BY <1>1, <1>2, <1>3, KeepsResumption
<1>4. CASE Opening
  <2>1. UNCHANGED <<tasks, reactions, jobs>>
    BY <1>4 DEF Opening, Birth
  <2>2. Keeps(q)
    BY <1>2, <2>1 DEF Keeps, Around
  <2>3. QED BY <1>3, <2>1, <2>2
<1>5. CASE BornSettled
  <2>1. PICK p \in Promise : Settling(p, q) /\ tasks' = tasks
    BY <1>2, <1>5 DEF BornSettled
  <2>2. Keeps(q)
    BY <2>1, MovedKeeps DEF Settling
  <2>3. QED BY <1>3, <2>1, <2>2
<1>6. CASE Deriving
  <2>1. PICK x : Ordinary(x) /\ Attaching(x, q) /\ tasks' = tasks
    BY <1>2, <1>6 DEF Deriving
  <2>2. Adds(x, q)
    BY <2>1, AttachingAdds
  <2>3. QED BY <1>3, <2>1, <2>2
<1>7. CASE Calling \/ Entering \/ Ending \/ Passing \/ Throwing \/ Failing \/ Reporting
  <2>1. tasks' = tasks /\ (Idle(q) \/ \E p : Disposes(p, q))
    BY <1>2, <1>7 DEF Calling, Entering, Ending, Passing, Throwing, Failing, Reporting
  <2>2. Keeps(q) \/ \E z : Ordinary(z) /\ Adds(z, q)
    BY <2>1, IdleKeeps, DisposesKeeps
  <2>3. QED BY <1>3, <2>1, <2>2
<1>8. CASE Suspending
  <2>1. PICK x, k, action, p :
            /\ p = Top.promise /\ stack # << >> /\ Top.kind = "async" /\ k = Len(tasks) + 1
            /\ tasks' = Append(tasks, [live |-> TRUE, promise |-> p, action |-> action])
            /\ x.fulfilled = Resume(k, FALSE) /\ x.rejected = Resume(k, TRUE)
            /\ Attaching(x, q) /\ action \in {"continue", "return"}
    BY <1>2, <1>8 DEF Suspending
  <2>2. PICK task : task = [live |-> TRUE, promise |-> p, action |-> action]
    OBVIOUS
  <2>3. tasks' = Append(tasks, task) /\ task.live
    BY <2>1, <2>2
  <2>4. Adds(x, q)
    BY <2>1, AttachingAdds
  <2>5. FrameOK(Top) /\ tasks \in Seq(Task)
    BY <1>1, <2>1, StackTop DEF HeapOK
  <2>6. p \in Promise
    <3>1. PICK f : f = Top
      OBVIOUS
    <3>2. QED BY <2>1, <2>5, <3>1, FrameParts
  <2>7. task \in Task
    BY <2>1, <2>2, <2>6 DEF Task
  <2>8. QED BY <1>1, <1>2, <2>1, <2>3, <2>4, <2>5, <2>7, SuspendingResumption
<1>9. CASE Doing \/ CallingBack
  <2>1. /\ jobs # << >> /\ Callback(h).kind # "resume" /\ tasks' = tasks
        /\ Idle(t) \/ \E p : Disposes(p, t)
    BY <1>2, <1>9 DEF Doing, CallingBack
  <2>2. Resumption(Tail(q), tasks)
    BY <1>1, <1>2, <2>1, OtherJobTaken DEF Next1
  <2>3. Keeps(t) \/ \E z : Ordinary(z) /\ Adds(z, t)
    BY <2>1, IdleKeeps, DisposesKeeps
  <2>4. Resumption(t, ts) /\ tasks' = ts
    BY <1>2, <2>1, <2>2 DEF Rest
  <2>5. QED BY <2>3, <2>4, KeepsResumption
<1>10. CASE Resuming
  <2>1. PICK k : /\ jobs # << >> /\ Callback(h).kind = "resume" /\ k = Callback(h).task
                 /\ tasks' = [tasks EXCEPT ![k] = NoTask]
                 /\ Idle(t) \/ \E p : Disposes(p, t)
    BY <1>2, <1>10 DEF Resuming
  <2>4. PICK us : us = [tasks EXCEPT ![k] = NoTask]
    OBVIOUS
  <2>5. Resumption(Tail(q), [tasks EXCEPT ![k] = NoTask])
    BY <1>1, <1>2, <2>1, ResumingJobTaken DEF Next1, HeapOK
  <2>6. Keeps(t) \/ \E z : Ordinary(z) /\ Adds(z, t)
    BY <2>1, IdleKeeps, DisposesKeeps
  <2>7. Resumption(t, us) /\ tasks' = us
    BY <1>2, <2>1, <2>4, <2>5 DEF Rest
  <2>8. QED BY <2>6, <2>7, KeepsResumption
<1>11. QED BY <1>1, <1>4, <1>5, <1>6, <1>7, <1>8, <1>9, <1>10 DEF Effects

(* A suspended async body is resumed by exactly one reaction, and at most  *)
(* once: when resume_async takes the task, nothing that resumes it is left *)
(* in a list or in the queue, whatever its promise was awaited with.       *)
THEOREM ResumedOnceAlways == Spec => []ResumedOnce
<1>1. RInv => ResumedOnce
  <2> SUFFICES ASSUME RInv, NEW k \in DOMAIN tasks,
                      NEW resumers,
                      resumers = {x \in Waiting \union Queued :
                                     x.fulfilled.kind = "resume" /\ x.fulfilled.task = k}
               PROVE  Cardinality(resumers) = IF tasks[k].live THEN 1 ELSE 0
    BY DEF ResumedOnce
  <2>1. k \in 1 .. Len(tasks)
    BY LenProperties DEF RInv, NInv, IInv, HeapOK
  <2>2. HeapOK /\ QueueOK(jobs)
    BY DEF RInv, NInv, IInv
  <2>3. \A y : y \in Waiting \union Queued <=> Around(y, jobs)
    BY <2>2, PlacesListed DEF Around
  <2>4. \A y : y \in resumers <=> Around(y, jobs) /\ Resumes(y, k)
    BY <2>3 DEF Resumes
  <2>5. CASE tasks[k].live
    <3>1. PICK x : Around(x, jobs) /\ Resumes(x, k)
      BY <2>1, <2>5 DEF RInv, Resumption, LiveResumed
    <3>2. resumers = {x}
      BY <2>4, <3>1 DEF RInv, Resumption, ResumesApart
    <3>3. QED BY <2>5, <3>2, FS_Singleton
  <2>6. CASE ~tasks[k].live
    <3>1. resumers = {}
      BY <2>1, <2>4, <2>6 DEF RInv, Resumption, ResumesLive
    <3>2. QED BY <2>6, <3>1, FS_EmptySet
  <2>7. QED BY <2>5, <2>6
<1>2. QED BY <1>1, InitRInv, NextRInv, PTL DEF Spec

-----------------------------------------------------------------------------
(* Frames.  The functions of a promise whose resolving frame is on the     *)
(* stack exist, and the script runs at the bottom.                         *)
FramesFit(s, cap) ==
    \A i \in 1 .. Len(s) :
        /\ s[i].kind = "resolving" => s[i].promise \in cap
        /\ s[i].kind = "script" => i = 1

Opened(p, s) == \E f :
    /\ f.promise = p /\ f.kind \in {"resolving", "getter", "async"}
    /\ Grown(s, stack', f)
    /\ capable \subseteq capable'
    /\ f.kind = "resolving" => p \in capable'

LEMMA OpensGrown ==
    ASSUME NEW s \in Seq(Frame), NEW p \in Promise, Opens(p, s)
    PROVE  Opened(p, s)
<1>1. PICK kind \in {"resolving", "getter", "async"} :
          /\ stack' = Append(s, [kind |-> kind, promise |-> p])
          /\ capable' = IF kind = "resolving" THEN capable \union {p} ELSE capable
  BY DEF Opens
<1>2. PICK f : f = [kind |-> kind, promise |-> p]
  OBVIOUS
<1>3. f \in Frame /\ f.kind = kind /\ f.promise = p
  BY <1>2 DEF Frame
<1>4. Grown(s, stack', f)
  BY <1>1, <1>2, <1>3, AppendGrows
<1>5. capable \subseteq capable' /\ (f.kind = "resolving" => p \in capable')
  BY <1>1, <1>3
<1>6. QED BY <1>3, <1>4, <1>5 DEF Opened

LEMMA TopGrown ==
    ASSUME StackOK(stack), stack # << >>
    PROVE  Grown(Below, stack, Top)
<1>1. PICK s, n : s = stack /\ n = Len(s)
  OBVIOUS
<1>2. s \in Seq(Frame) /\ n \in Nat \ {0}
  BY <1>1, EmptySeq, LenProperties DEF StackOK
<1>3. PICK m : m = n - 1
  OBVIOUS
<1>4. PICK t : t = SubSeq(s, 1, m)
  OBVIOUS
<1>5. m \in 0 .. Len(s) /\ m \in Nat /\ n = m + 1
  BY <1>1, <1>2, <1>3
<1>6. Len(t) = m /\ \A i \in 1 .. m : t[i] = s[i]
  BY <1>1, <1>4, <1>5, CutCuts
<1>7. Grown(t, s, s[n])
  BY <1>1, <1>5, <1>6 DEF Grown
<1>8. QED BY <1>1, <1>3, <1>4, <1>7 DEF Below, Top

LEMMA GrownCuts ==
    ASSUME NEW s, NEW t, NEW f, Grown(t, s, f)
    PROVE  Cuts(s, t)
<1>1. PICK n : n = Len(t)
  OBVIOUS
<1>2. n \in 0 .. Len(s) /\ \A i \in 1 .. n : t[i] = s[i]
  BY <1>1 DEF Grown
<1>3. QED BY <1>1, <1>2 DEF Cuts

LEMMA CutBorne ==
    ASSUME NEW s, NEW t, NEW q, NEW cap, Len(s) \in Nat, Cuts(s, t)
    PROVE  /\ Borne(s, q) => Borne(t, q)
           /\ FramesFit(s, cap) => FramesFit(t, cap)
<1>1. \A i \in 1 .. Len(t) : i \in 1 .. Len(s) /\ t[i] = s[i]
  BY DEF Cuts
<1>2. QED BY <1>1 DEF Borne, Bears, FramesFit

LEMMA PushBorne ==
    ASSUME NEW s, NEW t, NEW f, NEW q, Grown(s, t, f), ~HasJob(f), Borne(s, q)
    PROVE  Borne(t, q)
<1>1. \A i \in 1 .. Len(t) : Bears(t, i) => i \in 1 .. Len(s) /\ Bears(s, i) /\ t[i] = s[i]
  BY DEF Grown, HasJob, Bears
<1>2. QED BY <1>1 DEF Borne

LEMMA PushFits ==
    ASSUME NEW s, NEW t, NEW f, NEW cap, Grown(s, t, f), FramesFit(s, cap),
           f.kind = "resolving" => f.promise \in cap, f.kind # "script"
    PROVE  FramesFit(t, cap)
BY DEF Grown, FramesFit

LEMMA TakeBorne ==
    ASSUME NEW s, NEW q, QueueOK(q), Tickets(q), q # << >>, Borne(s, q)
    PROVE  /\ Borne(s, Tail(q))
           /\ \A i \in 1 .. Len(s) : Bears(s, i) => s[i].job.reaction.id # Head(q).reaction.id
           /\ \A t, f : Grown(s, t, f) /\ f.job = Head(q) => Borne(t, Tail(q))
<1>1. q \in Seq(Job)
  BY DEF QueueOK
<1>2. PICK h, u : h = Head(q) /\ u = Tail(q)
  OBVIOUS
<1>3. /\ Len(q) \in Nat \ {0} /\ Len(u) = Len(q) - 1 /\ h = q[1]
      /\ \A i \in 1 .. Len(u) : u[i] = q[i + 1]
  BY <1>1, <1>2, EmptySeq, HeadTailProperties
<1>4. 1 \in 1 .. Len(q) /\ \A i \in 1 .. Len(u) : i + 1 \in 1 .. Len(q) /\ u[i] = q[i + 1]
  BY <1>3
<1>5. \A x : Taken(x, q) => Taken(x, u) /\ x.id # h.reaction.id
  BY <1>3, <1>4 DEF Taken
<1>6. Borne(s, u)
  BY <1>5 DEF Borne
<1>7. \A i \in 1 .. Len(s) : Bears(s, i) => s[i].job.reaction.id # h.reaction.id
  BY <1>5 DEF Borne
<1>8. Taken(h.reaction, u)
  BY <1>2, TailTickets
<1>9. ASSUME NEW t, NEW f, Grown(s, t, f), f.job = h PROVE Borne(t, u)
  <2>1. ASSUME NEW i \in 1 .. Len(t), Bears(t, i)
        PROVE  \/ i \in 1 .. Len(s) /\ Bears(s, i) /\ t[i] = s[i]
               \/ i = Len(s) + 1 /\ i \notin 1 .. Len(s) /\ t[i].job.reaction = h.reaction
    BY <1>9, <2>1 DEF Grown, Bears
  <2>2. ASSUME NEW i \in 1 .. Len(t), Bears(t, i) PROVE Taken(t[i].job.reaction, u)
    BY <1>6, <1>8, <2>1, <2>2 DEF Borne
  <2>3. ASSUME NEW i \in 1 .. Len(t), Bears(t, i), NEW j \in 1 .. Len(t), Bears(t, j), i # j
        PROVE  t[i].job.reaction.id # t[j].job.reaction.id
    <3>1. CASE i \in 1 .. Len(s) /\ Bears(s, i) /\ t[i] = s[i]
      <4>1. CASE j \in 1 .. Len(s) /\ Bears(s, j) /\ t[j] = s[j]
        BY <2>3, <3>1, <4>1 DEF Borne
      <4>2. CASE t[j].job.reaction = h.reaction
        BY <1>7, <3>1, <4>2
      <4>3. QED BY <2>1, <2>3, <4>1, <4>2
    <3>2. CASE i = Len(s) + 1 /\ t[i].job.reaction = h.reaction
      <4>1. j \in 1 .. Len(s) /\ Bears(s, j) /\ t[j] = s[j]
        BY <2>1, <2>3, <3>2
      <4>2. QED BY <1>7, <3>2, <4>1
    <3>3. QED BY <2>1, <2>3, <3>1, <3>2
  <2>4. QED BY <2>2, <2>3 DEF Borne
<1>10. QED BY <1>2, <1>6, <1>7, <1>9

LEMMA TurnBorne ==
    ASSUME HeapOK, NEW q, Turn(q), NEW s, Borne(s, q), stack' = s
    PROVE  Borne(stack, jobs)'
<1>1. ASSUME NEW x, Taken(x, q) PROVE Taken(x, jobs)'
  <2>1. CASE Still(q)
    BY <1>1, <2>1 DEF Still, Taken
  <2>2. QED BY <1>1, <2>1, MovedTaken, JoinedTaken DEF Turn
<1>2. ASSUME NEW i \in 1 .. Len(s), Bears(s, i)
      PROVE  Taken(s[i].job.reaction, jobs)'
  <2>1. PICK x : x = s[i].job.reaction
    OBVIOUS
  <2>2. Taken(x, jobs)'
    BY <1>1, <1>2, <2>1 DEF Borne
  <2>3. QED BY <2>1, <2>2 DEF Taken
<1>3. QED BY <1>2 DEF Borne, Bears

(* After an abort nothing runs any more.                                   *)
LEMMA AbortedStops ==
    ASSUME phase = "aborted", stack = << >>
    PROVE  ~Next
<1>1. ~UserCode /\ ~MayRunJob /\ \A kind : ~TopIs(kind)
  BY DEF UserCode, MayRunJob, TopIs
<1>2. ~MakePromise /\ ~UsePromise
  BY <1>1 DEF MakePromise, UsePromise, NewPromise, PromiseResolveObject, AsyncCall, PromiseResolve,
              PromiseReject, Create, CallResolveObject, CallResolve, CallReject, Then
<1>3. ~Awaits /\ ~AsyncBodyEnds
  BY <1>1 DEF Awaits, NestedAwait, InAsync, AsyncBodyEnds, AsyncReturnObject, AsyncReturn,
              AsyncThrow, DirectAwait
<1>4. ~EndOfCode
  BY <1>1 DEF EndOfCode, ResolvingReturns, GetterReturnsFunction, GetterReturnsOther, ScriptEnds,
              ScriptThrows, ResolvingThrows, CallbackReturns, CallbackThrows
<1>5. ~RunJob
  BY <1>1 DEF RunJob, JobPassesOn, JobCallsUser, JobPreserves, JobResumes, ResumeDone, JobIs
<1>6. ~AwaitLoop
  BY <1>1 DEF AwaitLoop, AwaitReturns, AwaitThrowsCaught, AwaitThrows, AwaitStuck
<1>7. ~Report
  BY DEF Report, ReportRejections, DeliverEvent, Exit
<1>8. QED BY <1>2, <1>3, <1>4, <1>5, <1>6, <1>7 DEF Next

LEMMA OpenFrames ==
    ASSUME NEW p \in Promise, NEW s \in Seq(Frame), NEW q, NEW t, NEW cap,
           Opens(p, s), t = stack', cap = capable', Borne(s, q), FramesFit(s, capable)
    PROVE  Borne(t, q) /\ FramesFit(t, cap)
<1>1. PICK f : /\ f.promise = p /\ f.kind \in {"resolving", "getter", "async"}
               /\ Grown(s, t, f)
               /\ capable \subseteq cap
               /\ f.kind = "resolving" => p \in cap
  BY OpensGrown DEF Opened
<1>2. FramesFit(s, cap)
  BY <1>1 DEF FramesFit
<1>3. ~HasJob(f)
  BY <1>1 DEF HasJob
<1>4. QED BY <1>1, <1>2, <1>3, PushBorne, PushFits

(* The invariant of the frames.                                            *)
FInv ==
    /\ RInv
    /\ Borne(stack, jobs)
    /\ FramesFit(stack, capable)
    /\ phase = "aborted" => stack = << >>

LEMMA InitFInv == Init => FInv
<1> SUFFICES ASSUME Init
             PROVE  Borne(stack, jobs) /\ FramesFit(stack, capable) /\ phase # "aborted"
  BY InitRInv DEF FInv
<1>1. stack = <<[kind |-> "script"]>> /\ phase = "script"
  BY DEF Init
<1>2. Len(stack) = 1 /\ stack[1].kind = "script"
  BY <1>1
<1>3. \A i \in 1 .. Len(stack) : i = 1
  BY <1>2
<1>4. QED BY <1>1, <1>2, <1>3 DEF Borne, Bears, FramesFit

(* The frames a step leaves on the stack fit the queue its heap part       *)
(* starts from.                                                            *)
Fitting(q) ==
    \E s, cap : s = stack' /\ cap = capable' /\ Borne(s, q) /\ FramesFit(s, cap)

LEMMA FittingKept ==
    ASSUME HeapOK, NEW q, Turn(q), Fitting(q)
    PROVE  Borne(stack, jobs)' /\ FramesFit(stack, capable)'
<1>1. PICK s, cap : s = stack' /\ cap = capable' /\ Borne(s, q) /\ FramesFit(s, cap)
  BY DEF Fitting
<1>2. Borne(stack, jobs)'
  BY <1>1, TurnBorne
<1>3. FramesFit(stack, capable)'
  BY <1>1 DEF FramesFit
<1>4. QED BY <1>2, <1>3

LEMMA BirthTurn ==
    ASSUME NEW p, Birth(p), NEW q, q = jobs
    PROVE  Turn(q)
BY DEF Birth, OthersStay, OutcomeMoves, Still, Turn

LEMMA OpenFits ==
    ASSUME NEW p \in Promise, NEW s \in Seq(Frame), NEW q,
           Opens(p, s), Borne(s, q), FramesFit(s, capable)
    PROVE  Fitting(q)
<1>1. PICK t, cap : t = stack' /\ cap = capable'
  OBVIOUS
<1>2. QED BY <1>1, OpenFrames DEF Fitting

LEMMA CutFits ==
    ASSUME FInv, Cuts(stack, stack'), UNCHANGED capable
    PROVE  Fitting(jobs)
<1>1. PICK s, t, q, cap : s = stack /\ t = stack' /\ q = jobs /\ cap = capable
  OBVIOUS
<1>2. Borne(s, q) /\ FramesFit(s, cap) /\ Cuts(s, t) /\ Len(s) \in Nat
  BY <1>1, LenProperties DEF FInv, RInv, NInv, IInv, StackOK
<1>3. Borne(t, q) /\ FramesFit(t, cap)
  BY <1>2, CutBorne
<1>4. QED BY <1>1, <1>3 DEF Fitting

LEMMA StackFits ==
    ASSUME FInv, UNCHANGED <<stack, capable>>
    PROVE  /\ Fitting(jobs)
           /\ jobs # << >> => Fitting(Rest)
<1>1. PICK s, q, cap : s = stack /\ q = jobs /\ cap = capable
  OBVIOUS
<1>2. /\ Borne(s, q) /\ FramesFit(s, cap) /\ s = stack' /\ cap = capable'
      /\ QueueOK(q) /\ Tickets(q)
  BY <1>1 DEF FInv, RInv, NInv, IInv
<1>3. q # << >> => Borne(s, Tail(q))
  BY <1>2, TakeBorne
<1>4. QED BY <1>1, <1>2, <1>3 DEF Fitting, Rest

LEMMA TakeFits ==
    ASSUME FInv, jobs # << >>, NEW kind \in {"callback", "resume"},
           NEW s, s = Append(stack, [kind |-> kind, job |-> Next1])
    PROVE  s \in Seq(Frame) /\ Borne(s, Rest) /\ FramesFit(s, capable)
<1>1. PICK q, t, h, f : q = jobs /\ t = stack /\ h = Next1 /\ f = [kind |-> kind, job |-> h]
  OBVIOUS
<1>2. /\ QueueOK(q) /\ Tickets(q) /\ StackOK(t) /\ Borne(t, q) /\ FramesFit(t, capable)
  BY <1>1 DEF FInv, RInv, NInv, IInv
<1>3. JobOK(h)
  BY <1>1, <1>2, NextJob
<1>4. FrameOK(f) /\ f.kind = kind /\ f.job = h
  BY <1>1, <1>3, MadeJobFrames
<1>5. s \in Seq(Frame) /\ Grown(t, s, f)
  <2>1. f \in Frame /\ t \in Seq(Frame)
    BY <1>2, <1>4 DEF FrameOK, StackOK
  <2>2. s = Append(t, f)
    BY <1>1
  <2>3. Append(t, f) \in Seq(Frame)
    BY <2>1, AppendedFrames
  <2>4. Grown(t, s, f)
    BY <2>1, <2>2, AppendGrows
  <2>5. QED BY <2>2, <2>3, <2>4
<1>6. Borne(s, Tail(q))
  BY <1>1, <1>2, <1>4, <1>5, TakeBorne DEF Next1
<1>7. FramesFit(s, capable)
  BY <1>2, <1>4, <1>5, PushFits
<1>8. QED BY <1>1, <1>5, <1>6, <1>7 DEF Rest


LEMMA BelowCuts ==
    ASSUME StackOK(stack), stack # << >>
    PROVE  Cuts(stack, Below) /\ Below \in Seq(Frame) /\ FrameOK(Top)
<1>1. PICK s, t, f : s = stack /\ t = Below /\ f = Top
  OBVIOUS
<1>2. Cuts(s, t)
  BY <1>1, TopGrown, GrownCuts
<1>3. StackOK(t) /\ FrameOK(f)
  BY <1>1, StackTop
<1>4. QED BY <1>1, <1>2, <1>3 DEF StackOK

LEMMA ThrowingCuts ==
    ASSUME StackOK(stack), Len(stack) \in Nat \ {0, 1}
    PROVE  Cuts(stack, SubSeq(stack, 1, Len(stack) - 2))
<1>1. PICK n : n = Len(stack) - 2
  OBVIOUS
<1>2. n \in 0 .. Len(stack)
  BY <1>1
<1>3. PICK s : s = stack
  OBVIOUS
<1>4. Cuts(s, SubSeq(s, 1, n))
  BY <1>2, <1>3, CutCuts
<1>5. QED BY <1>1, <1>3, <1>4

(* A frame gives way to one for the same promise.                          *)
LEMMA PassingFits ==
    ASSUME FInv, Passing
    PROVE  Fitting(jobs)
<1>1. PICK s, q, cap, t, f : s = stack /\ q = jobs /\ cap = capable /\ t = Below /\ f = Top
  OBVIOUS
<1>2. StackOK(stack) /\ stack # << >> /\ f.kind \in {"async", "getter"} /\ Opens(f.promise, t)
  BY <1>1 DEF FInv, RInv, NInv, IInv, Passing
<1>3. Borne(s, q) /\ FramesFit(s, cap) /\ Len(s) \in Nat
  BY <1>1, <1>2, LenProperties DEF FInv, StackOK
<1>4. Cuts(s, t) /\ t \in Seq(Frame) /\ FrameOK(f)
  BY <1>1, <1>2, BelowCuts
<1>5. Borne(t, q) /\ FramesFit(t, cap)
  BY <1>3, <1>4, CutBorne
<1>6. PICK p \in Promise : p = f.promise
  BY <1>2, <1>4, FrameParts
<1>7. Fitting(q)
  BY <1>1, <1>2, <1>4, <1>5, <1>6, OpenFits
<1>8. QED BY <1>1, <1>7

(* The task a resuming job is of is suspended.                             *)
LEMMA ResumedTask ==
    ASSUME RInv, jobs # << >>, Callback(Next1).kind = "resume"
    PROVE  /\ Callback(Next1).task \in 1 .. Len(tasks)
           /\ tasks[Callback(Next1).task].live
           /\ tasks[Callback(Next1).task].promise \in Promise
<1>1. PICK h, q, k : h = Next1 /\ q = jobs /\ k = Callback(h).task
  OBVIOUS
<1>2. QueueOK(q) /\ Tickets(q) /\ q # << >> /\ Resumption(q, tasks) /\ tasks \in Seq(Task)
  BY <1>1 DEF RInv, NInv, IInv, HeapOK
<1>3. Around(h.reaction, q)
  BY <1>1, <1>2, TailAround DEF Next1
<1>4. Paired(h.reaction)
  BY <1>2, <1>3 DEF Resumption
<1>5. Callback(h) \in {h.reaction.fulfilled, h.reaction.rejected} /\ Callback(h).kind = "resume"
  BY <1>1 DEF Callback
<1>6. Resumes(h.reaction, k)
  BY <1>1, <1>4, <1>5 DEF Paired, Resumes
<1>7. k \in 1 .. Len(tasks) /\ tasks[k].live
  BY <1>2, <1>3, <1>6 DEF Resumption, ResumesLive
<1>8. tasks[k] \in Task
  BY <1>2, <1>7
<1>9. PICK task : task = tasks[k]
  OBVIOUS
<1>10. task.promise \in Promise
  BY <1>7, <1>8, <1>9, TaskParts
<1>11. QED BY <1>1, <1>7, <1>9, <1>10

LEMMA ResumingFits ==
    ASSUME FInv, Resuming
    PROVE  Fitting(Rest)
<1>1. PICK k, s :
         /\ jobs # << >> /\ Callback(Next1).kind = "resume" /\ k = Callback(Next1).task
         /\ s = Append(stack, [kind |-> "resume", job |-> Next1])
         /\ (stack' = s /\ UNCHANGED capable) \/ (tasks[k].live /\ Opens(tasks[k].promise, s))
  BY DEF Resuming
<1>2. PICK q : q = Rest
  OBVIOUS
<1>3. s \in Seq(Frame) /\ Borne(s, q) /\ FramesFit(s, capable)
  BY <1>1, <1>2, TakeFits
<1>4. CASE stack' = s /\ UNCHANGED capable
  BY <1>2, <1>3, <1>4 DEF Fitting
<1>5. CASE Opens(tasks[k].promise, s)
  <2>1. PICK p \in Promise : p = tasks[k].promise
    BY <1>1, ResumedTask DEF FInv
  <2>2. Fitting(q)
    BY <1>3, <1>5, <2>1, OpenFits
  <2>3. QED BY <1>2, <2>2
<1>6. QED BY <1>1, <1>4, <1>5

LEMMA NextFits ==
    ASSUME FInv, Effects
    PROVE  \/ Turn(jobs) /\ Fitting(jobs)
           \/ jobs # << >> /\ Turn(Rest) /\ Fitting(Rest)
<1>1. HeapOK /\ StackOK(stack) /\ Borne(stack, jobs) /\ FramesFit(stack, capable)
  BY DEF FInv, RInv, NInv, IInv
<1>2. PICK q, t, s : q = jobs /\ t = Rest /\ s = stack
  OBVIOUS
<1>3. s \in Seq(Frame)
  BY <1>1, <1>2 DEF StackOK
<1>4. CASE Opening
  <2>1. PICK p \in Promise : Birth(p) /\ Opens(p, s)
    BY <1>2, <1>4 DEF Opening
  <2>2. Turn(q)
    BY <1>2, <2>1, BirthTurn
  <2>3. Fitting(q)
    BY <1>1, <1>2, <1>3, <2>1, OpenFits
  <2>4. QED BY <1>2, <2>2, <2>3
<1>5. CASE BornSettled \/ Deriving \/ Reporting
  <2>1. UNCHANGED <<stack, capable>>
    BY <1>5 DEF BornSettled, Deriving, Reporting
  <2>2. \/ Idle(q) \/ (\E p \in Promise : Settling(p, q)) \/ \E x : Attaching(x, q)
    BY <1>2, <1>5 DEF BornSettled, Deriving, Reporting
  <2>3. Turn(q)
    BY <1>1, <2>2, IdleTurn, SettlingTurn, AttachingTurn
  <2>4. QED BY <1>2, <2>1, <2>3, StackFits
<1>6. CASE Calling
  <2>1. PICK p \in capable :
          \/ Disposes(p, q) /\ UNCHANGED <<capable, stack>>
          \/ Idle(q) /\ Opens(p, s)
    BY <1>2, <1>6 DEF Calling
  <2>2. Turn(q)
    BY <1>1, <2>1, IdleTurn, DisposesTurn
  <2>3. CASE UNCHANGED <<capable, stack>>
    BY <1>2, <2>2, <2>3, StackFits
  <2>4. CASE Opens(p, s)
    <3>1. p \in Promise
      BY DEF FInv, RInv, NInv, IInv, Others
    <3>2. Fitting(q)
      BY <1>1, <1>2, <1>3, <2>4, <3>1, OpenFits
    <3>3. QED BY <1>2, <2>2, <3>2
  <2>5. QED BY <2>1, <2>3, <2>4
<1>7. CASE Entering
  <2>1. PICK src \in Promise :
          Idle(q) /\ stack' = Append(s, [kind |-> "await", promise |-> src]) /\ UNCHANGED capable
    BY <1>2, <1>7 DEF Entering
  <2>2. PICK f : f = [kind |-> "await", promise |-> src]
    OBVIOUS
  <2>3. FrameOK(f) /\ f.kind = "await"
    BY <2>2, MadeFrames
  <2>4. f \in Frame
    BY <2>3 DEF FrameOK
  <2>5. PICK u, cap : u = stack' /\ cap = capable
    OBVIOUS
  <2>6. Grown(s, u, f) /\ ~HasJob(f)
    BY <1>3, <2>1, <2>2, <2>3, <2>4, <2>5, AppendGrows DEF HasJob
  <2>7. Borne(u, q)
    BY <1>1, <1>2, <2>6, PushBorne
  <2>8. FramesFit(u, cap)
    BY <1>1, <1>2, <2>3, <2>5, <2>6, PushFits
  <2>9. Turn(q) /\ Fitting(q)
    BY <2>1, <2>5, <2>7, <2>8, IdleTurn DEF Fitting
  <2>10. QED BY <1>2, <2>9
<1>8. CASE Ending \/ Suspending \/ Throwing \/ Failing
  <2>1. Cuts(stack, stack') /\ UNCHANGED capable
    <3>1. CASE Ending \/ Suspending
      BY <1>1, <3>1, BelowCuts DEF Ending, Suspending
    <3>2. CASE Throwing
      BY <1>1, <3>2, ThrowingCuts DEF Throwing
    <3>3. CASE Failing
      BY <3>3 DEF Failing
    <3>4. QED BY <1>8, <3>1, <3>2, <3>3
  <2>2. Idle(q) \/ (\E p : Disposes(p, q)) \/ \E x : Attaching(x, q)
    BY <1>2, <1>8 DEF Ending, Suspending, Throwing, Failing
  <2>3. Turn(q)
    BY <1>1, <2>2, IdleTurn, DisposesTurn, AttachingTurn
  <2>4. QED BY <1>2, <2>1, <2>3, CutFits
<1>9. CASE Passing
  <2>1. Turn(q)
    BY <1>2, <1>9, IdleTurn DEF Passing
  <2>2. QED BY <1>2, <1>9, <2>1, PassingFits
<1>10. CASE Doing
  <2>1. jobs # << >> /\ UNCHANGED <<stack, capable>> /\ \E p : Disposes(p, t)
    BY <1>2, <1>10 DEF Doing
  <2>2. Turn(t)
    BY <1>1, <2>1, DisposesTurn
  <2>3. QED BY <1>2, <2>1, <2>2, StackFits
<1>11. CASE CallingBack
  <2>1. /\ jobs # << >> /\ Idle(t) /\ UNCHANGED capable
        /\ stack' = Append(stack, [kind |-> "callback", job |-> Next1])
    BY <1>2, <1>11 DEF CallingBack
  <2>2. Turn(t)
    BY <2>1, IdleTurn
  <2>3. PICK u, cap : u = stack' /\ cap = capable
    OBVIOUS
  <2>4. Borne(u, t) /\ FramesFit(u, cap)
    BY <1>2, <2>1, <2>3, TakeFits
  <2>5. Fitting(t)
    BY <2>1, <2>3, <2>4 DEF Fitting
  <2>6. QED BY <1>2, <2>1, <2>2, <2>5
<1>12. CASE Resuming
  <2>1. jobs # << >> /\ (Idle(t) \/ \E p : Disposes(p, t))
    BY <1>2, <1>12 DEF Resuming
  <2>2. Turn(t)
    BY <1>1, <2>1, IdleTurn, DisposesTurn
  <2>3. QED BY <1>2, <1>12, <2>1, <2>2, ResumingFits
<1>13. QED BY <1>4, <1>5, <1>6, <1>7, <1>8, <1>9, <1>10, <1>11, <1>12 DEF Effects

(* Where the program aborts, no frame is left.                             *)
LEMMA AbortEmpties ==
    ASSUME FInv, Effects, phase # "aborted", phase' = "aborted"
    PROVE  stack' = << >>
<1>1. StackOK(stack) /\ FramesFit(stack, capable)
  BY DEF FInv, RInv, NInv, IInv
<1>2. PICK s, n : s = stack /\ n = Len(s)
  OBVIOUS
<1>3. s \in Seq(Frame) /\ n \in Nat /\ (s # << >> => n # 0)
  BY <1>1, <1>2, EmptySeq, LenProperties DEF StackOK
<1>4. ASSUME NEW k \in {1, 2}, n \in Nat \ 0 .. k - 1, s[n - k + 1].kind = "script",
             stack' = SubSeq(s, 1, n - k)
      PROVE  stack' = << >>
  <2>1. n - k + 1 \in 1 .. n
    BY <1>4
  <2>2. n - k = 0
    <3>1. PICK m \in 1 .. n : m = n - k + 1
      BY <2>1
    <3>2. m = 1
      BY <1>1, <1>2, <1>4, <3>1 DEF FramesFit
    <3>3. QED BY <3>1, <3>2, <1>4
  <2>3. QED BY <1>4, <2>2
<1>5. CASE Ending
  <2>1. stack # << >> /\ stack' = Below /\ Top.kind = "script"
    BY <1>5 DEF Ending
  <2>2. QED BY <1>2, <1>3, <1>4, <2>1 DEF Below, Top
<1>6. CASE Failing
  BY <1>2, <1>3, <1>4, <1>6 DEF Failing
<1>7. CASE Reporting
  BY <1>7 DEF Reporting
<1>8. QED BY <1>5, <1>6, <1>7 DEF Effects, Opening, BornSettled, Deriving, Calling, Entering,
          Passing, Suspending, Doing, CallingBack, Resuming, Throwing

LEMMA NextFInv == FInv /\ [Next]_vars => FInv'
<1> SUFFICES ASSUME FInv, [Next]_vars
             PROVE  /\ Borne(stack, jobs)' /\ FramesFit(stack, capable)'
                    /\ phase' = "aborted" => stack' = << >>
  BY NextRInv DEF FInv
<1>1. Effects /\ HeapOK
  BY NextEffects DEF FInv, RInv, NInv, IInv
<1>2. Borne(stack, jobs)' /\ FramesFit(stack, capable)'
  <2>1. PICK q, t : q = jobs /\ t = Rest
    OBVIOUS
  <2>2. (Turn(q) /\ Fitting(q)) \/ (Turn(t) /\ Fitting(t))
    BY <1>1, <2>1, NextFits
  <2>3. QED BY <1>1, <2>2, FittingKept
<1>3. ASSUME phase' = "aborted" PROVE stack' = << >>
  <2>1. CASE phase = "aborted"
    <3>1. UNCHANGED stack
      BY <2>1, AbortedStops DEF vars, FInv
    <3>2. QED BY <2>1, <3>1 DEF FInv
  <2>2. QED BY <1>1, <1>3, <2>1, AbortEmpties
<1>4. QED BY <1>2, <1>3

-----------------------------------------------------------------------------
(* Drivers.  What is to settle a promise, by its name in Drivers.          *)
Rx(x) == <<"reaction", x.id>>
Tk(k) == <<"task", k>>
Fr(i) == <<"frame", i>>

LEMMA NamesApart ==
    /\ \A x, y : Rx(x) = Rx(y) => x.id = y.id
    /\ \A k, j : Tk(k) = Tk(j) => k = j
    /\ \A i, j : Fr(i) = Fr(j) => i = j
    /\ \A x, k : Rx(x) # Tk(k)
    /\ \A x, i : Rx(x) # Fr(i)
    /\ \A k, i : Tk(k) # Fr(i)
BY DEF Rx, Tk, Fr

(* Reactions in the lists, the queue q and the frames s.                   *)
InFrame(x, s) == \E i \in 1 .. Len(s) : Bears(s, i) /\ s[i].job.reaction = x
Afoot(x, q, s) == Around(x, q) \/ InFrame(x, s)

Settles(f, p) == f.kind \in {"async", "getter"} /\ f.promise = p

ByReaction(e, p, q, s) == \E x : e = Rx(x) /\ x.next = p /\ Afoot(x, q, s)
ByTask(e, p, ts) == \E k \in 1 .. Len(ts) : e = Tk(k) /\ ts[k].live /\ ts[k].promise = p
ByFrame(e, p, s) == \E i \in 1 .. Len(s) : e = Fr(i) /\ Settles(s[i], p)

Drives(e, p, q, s, ts) == ByReaction(e, p, q, s) \/ ByTask(e, p, ts) \/ ByFrame(e, p, s)

(* From the queue r, the frames t and the tasks us on, u has the driver a  *)
(* more in q, s and ts.                                                    *)
Beyond(a, u, q, s, ts, r, t, us) ==
    /\ \A e, p : Drives(e, p, q, s, ts) <=> Drives(e, p, r, t, us) \/ (e = a /\ p = u)
    /\ \A p : ~Drives(a, p, r, t, us)

Owns(e, p) == Drives(e, p, jobs, stack, tasks)

(* One thing is to settle the pending promise p, and nothing another one.  *)
Single(p) ==
    /\ state[p] = "pending" => \E e : Owns(e, p)
    /\ \A e : Owns(e, p) => state[p] = "pending"
    /\ \A e, f : Owns(e, p) /\ Owns(f, p) => e = f

(* What a step may do about the promise p: nothing; p is made with its one *)
(* driver or settled; its driver a becomes b; a settles it.                *)
Stays(p) == state'[p] = state[p] /\ \A e : Owns(e, p)' <=> Owns(e, p)
Born(p, b) == state[p] = "free" /\ state'[p] = "pending" /\ \A e : Owns(e, p)' <=> Owns(e, p) \/ e = b
Done(p) == state[p] = "free" /\ state'[p] \in Settled /\ \A e : Owns(e, p)' <=> Owns(e, p)
Passes(p, a, b) ==
    /\ state'[p] \in {state[p], "pending"}
    /\ \A e : Owns(e, p)' <=> (Owns(e, p) /\ e # a) \/ e = b
Ends(p, a) ==
    /\ state[p] = "pending" => state'[p] \in Settled /\ \A e : Owns(e, p)' <=> Owns(e, p) /\ e # a

Balanced(p) ==
    \/ Stays(p) \/ Done(p) \/ \E b : Born(p, b)
    \/ \E a : Owns(a, p) /\ (Ends(p, a) \/ \E b : Passes(p, a, b))

LEMMA BalancedSingle ==
    ASSUME NEW p, Single(p), Balanced(p)
    PROVE  Single(p)'
<1>1. CASE Stays(p)
  BY <1>1 DEF Stays, Single
<1>2. CASE Done(p)
  BY <1>2 DEF Done, Single, Settled
<1>3. CASE \E b : Born(p, b)
  BY <1>3 DEF Born, Single
<1>4. ASSUME NEW a, Owns(a, p), Ends(p, a) PROVE Single(p)'
  BY <1>4 DEF Ends, Single, Settled
<1>5. ASSUME NEW a, NEW b, Owns(a, p), Passes(p, a, b) PROVE Single(p)'
  <2>1. \A e : Owns(e, p) <=> e = a
    BY <1>5 DEF Single
  <2>2. \A e : Owns(e, p)' <=> e = b
    BY <1>5, <2>1 DEF Passes
  <2>3. state[p] = "pending"
    BY <1>5 DEF Single
  <2>4. state'[p] = "pending"
    BY <1>5, <2>3 DEF Passes
  <2>5. QED BY <2>2, <2>4 DEF Single
<1>6. QED BY <1>1, <1>2, <1>3, <1>4, <1>5 DEF Balanced

(* A frame on top of t adds what it carries.                               *)
LEMMA PlainPushed ==
    ASSUME NEW s, NEW t, NEW f, NEW q, NEW ts, Grown(t, s, f),
           ~HasJob(f), f.kind \notin {"async", "getter"}
    PROVE  \A e, p : Drives(e, p, q, s, ts) <=> Drives(e, p, q, t, ts)
<1>1. \A x : InFrame(x, s) <=> InFrame(x, t)
  BY DEF Grown, HasJob, InFrame, Bears
<1>2. \A e, p : ByFrame(e, p, s) <=> ByFrame(e, p, t)
  BY DEF Grown, ByFrame, Settles
<1>3. QED BY <1>1, <1>2 DEF Drives, ByReaction, Afoot

LEMMA SettlerPushed ==
    ASSUME NEW s, NEW t, NEW f, NEW q, NEW ts, Grown(t, s, f), f.kind \in {"async", "getter"}
    PROVE  Beyond(Fr(Len(t) + 1), f.promise, q, s, ts, q, t, ts)
<1>1. \A x : InFrame(x, s) <=> InFrame(x, t)
  BY DEF Grown, HasJob, InFrame, Bears
<1>2. \A e, p : ByFrame(e, p, s) <=> ByFrame(e, p, t) \/ (e = Fr(Len(t) + 1) /\ p = f.promise)
  BY DEF Grown, ByFrame, Settles
<1>3. ASSUME NEW p PROVE ~Drives(Fr(Len(t) + 1), p, q, t, ts)
  <2>1. ~ByFrame(Fr(Len(t) + 1), p, t)
    BY NamesApart DEF Grown, ByFrame
  <2>2. ~ByReaction(Fr(Len(t) + 1), p, q, t) /\ ~ByTask(Fr(Len(t) + 1), p, ts)
    BY NamesApart DEF ByReaction, ByTask
  <2>3. QED BY <2>1, <2>2 DEF Drives
<1>4. \A e, p : ByReaction(e, p, q, s) <=> ByReaction(e, p, q, t)
  BY <1>1 DEF ByReaction, Afoot
<1>5. \A e, p : Drives(e, p, q, s, ts)
                  <=> Drives(e, p, q, t, ts) \/ (e = Fr(Len(t) + 1) /\ p = f.promise)
  BY <1>2, <1>4 DEF Drives
<1>6. QED BY <1>3, <1>5 DEF Beyond

(* A taken reaction is one nothing else has the name of.                   *)
LEMMA TakenApart ==
    ASSUME NEW x, NEW q, NEW t, NEW ts, Taken(x, q),
           \A i \in 1 .. Len(t) : Bears(t, i) => t[i].job.reaction.id # x.id
    PROVE  \A p : ~Drives(Rx(x), p, q, t, ts)
<1>1. TAKE p
<1>2. ASSUME NEW y, Afoot(y, q, t), y.id = x.id PROVE FALSE
  BY <1>2 DEF Afoot, Around, InFrame, Taken
<1>3. ~ByReaction(Rx(x), p, q, t)
  BY <1>2, NamesApart DEF ByReaction
<1>4. ~ByTask(Rx(x), p, ts) /\ ~ByFrame(Rx(x), p, t)
  BY NamesApart DEF ByTask, ByFrame
<1>5. QED BY <1>3, <1>4 DEF Drives

LEMMA JobPushed ==
    ASSUME NEW s, NEW t, NEW f, NEW q, NEW ts, Grown(t, s, f), HasJob(f), Borne(s, q)
    PROVE  Beyond(Rx(f.job.reaction), f.job.reaction.next, q, s, ts, q, t, ts)
<1>1. PICK z : z = f.job.reaction
  OBVIOUS
<1>2. \A x : InFrame(x, s) <=> InFrame(x, t) \/ x = z
  <2>1. Bears(s, Len(t) + 1) /\ s[Len(t) + 1] = f
    BY DEF Grown, HasJob, Bears
  <2>2. \A i \in 1 .. Len(t) : i \in 1 .. Len(s) /\ s[i] = t[i] /\ (Bears(t, i) <=> Bears(s, i))
    BY DEF Grown, Bears
  <2>3. QED BY <1>1, <2>1, <2>2 DEF InFrame, Grown, Bears
<1>3. \A e, p : ByFrame(e, p, s) <=> ByFrame(e, p, t)
  BY DEF Grown, ByFrame, Settles, HasJob
<1>4. \A e, p : ByReaction(e, p, q, s) <=> ByReaction(e, p, q, t) \/ (e = Rx(z) /\ p = z.next)
  BY <1>2 DEF ByReaction, Afoot
<1>5. /\ Taken(z, q)
      /\ \A i \in 1 .. Len(t) : Bears(t, i) => t[i].job.reaction.id # z.id
  BY <1>1 DEF Grown, HasJob, Bears, Borne
<1>6. \A p : ~Drives(Rx(z), p, q, t, ts)
  BY <1>5, TakenApart
<1>7. \A e, p : Drives(e, p, q, s, ts) <=> Drives(e, p, q, t, ts) \/ (e = Rx(z) /\ p = z.next)
  BY <1>3, <1>4 DEF Drives
<1>8. QED BY <1>1, <1>6, <1>7 DEF Beyond

(* The head of the queue is taken.                                         *)
LEMMA HeadTaken ==
    ASSUME NEW s, NEW q, NEW ts, QueueOK(q), Tickets(q), q # << >>, Borne(s, q)
    PROVE  Beyond(Rx(Head(q).reaction), Head(q).reaction.next, q, s, ts, Tail(q), s, ts)
<1>1. PICK z, t : z = Head(q).reaction /\ t = Tail(q)
  OBVIOUS
<1>2. \A x : Around(x, q) <=> x = z \/ Around(x, t)
  BY <1>1, TailAround
<1>3. Taken(z, t) /\ \A i \in 1 .. Len(s) : Bears(s, i) => s[i].job.reaction.id # z.id
  BY <1>1, TailTickets, TakeBorne
<1>4. \A p : ~Drives(Rx(z), p, t, s, ts)
  BY <1>3, TakenApart
<1>5. \A e, p : ByReaction(e, p, q, s) <=> ByReaction(e, p, t, s) \/ (e = Rx(z) /\ p = z.next)
  BY <1>2 DEF ByReaction, Afoot
<1>6. \A e, p : Drives(e, p, q, s, ts) <=> Drives(e, p, t, s, ts) \/ (e = Rx(z) /\ p = z.next)
  BY <1>5 DEF Drives
<1>7. QED BY <1>1, <1>4, <1>6 DEF Beyond

(* A task is taken or made.                                                *)
LEMMA TaskTaken ==
    ASSUME NEW s, NEW q, NEW ts \in Seq(Task), NEW k \in 1 .. Len(ts), ts[k].live
    PROVE  Beyond(Tk(k), ts[k].promise, q, s, ts, q, s, [ts EXCEPT ![k] = NoTask])
<1>1. PICK us : us = [ts EXCEPT ![k] = NoTask]
  OBVIOUS
<1>2. NoTask \in Task /\ ~NoTask.live
  BY DEF NoTask, Task
<1>3. /\ Len(us) = Len(ts) /\ us[k] = NoTask
      /\ \A j \in 1 .. Len(ts) : j # k => us[j] = ts[j]
  BY <1>1, <1>2, ExceptSeq
<1>4. \A e, p : ByTask(e, p, ts) <=> ByTask(e, p, us) \/ (e = Tk(k) /\ p = ts[k].promise)
  BY <1>2, <1>3 DEF ByTask
<1>5. ASSUME NEW p PROVE ~Drives(Tk(k), p, q, s, us)
  <2>1. ~ByTask(Tk(k), p, us)
    BY <1>2, <1>3, NamesApart DEF ByTask
  <2>2. ~ByReaction(Tk(k), p, q, s) /\ ~ByFrame(Tk(k), p, s)
    BY NamesApart DEF ByReaction, ByFrame
  <2>3. QED BY <2>1, <2>2 DEF Drives
<1>6. \A e, p : Drives(e, p, q, s, ts)
                  <=> Drives(e, p, q, s, us) \/ (e = Tk(k) /\ p = ts[k].promise)
  BY <1>4 DEF Drives
<1>7. QED BY <1>1, <1>5, <1>6 DEF Beyond

LEMMA TaskAdded ==
    ASSUME NEW s, NEW q, NEW ts \in Seq(Task), NEW task \in Task, task.live
    PROVE  \A e, p : Drives(e, p, q, s, Append(ts, task))
                  <=> Drives(e, p, q, s, ts) \/ (e = Tk(Len(ts) + 1) /\ p = task.promise)
<1>1. PICK us : us = Append(ts, task)
  OBVIOUS
<1>2. Grown(ts, us, task)
  BY <1>1, AppendGrows
<1>3. \A e, p : ByTask(e, p, us) <=> ByTask(e, p, ts) \/ (e = Tk(Len(ts) + 1) /\ p = task.promise)
  BY <1>2 DEF ByTask, Grown
<1>4. QED BY <1>1, <1>3 DEF Drives

(* What the heap part of a step changes about the drivers.                 *)
LEMMA HeapDrives ==
    ASSUME NEW q, NEW s, NEW ts, s = stack', ts = tasks'
    PROVE  /\ Keeps(q) => \A e, p : Owns(e, p)' <=> Drives(e, p, q, s, ts)
           /\ \A z : Adds(z, q) =>
                 \A e, p : Owns(e, p)' <=> Drives(e, p, q, s, ts) \/ (e = Rx(z) /\ p = z.next)
<1>1. \A e, p : ByTask(e, p, tasks)' <=> ByTask(e, p, ts)
  BY DEF ByTask
<1>2. \A e, p : ByFrame(e, p, stack)' <=> ByFrame(e, p, s)
  BY DEF ByFrame, Settles
<1>3. \A x : InFrame(x, stack)' <=> InFrame(x, s)
  BY DEF InFrame, Bears
<1>4. ASSUME Keeps(q) PROVE \A e, p : Owns(e, p)' <=> Drives(e, p, q, s, ts)
  <2>1. \A e, p : ByReaction(e, p, jobs, stack)' <=> ByReaction(e, p, q, s)
    BY <1>3, <1>4 DEF Keeps, ByReaction, Afoot, Rx
  <2>2. QED BY <1>1, <1>2, <2>1 DEF Drives, Owns
<1>5. ASSUME NEW z, Adds(z, q)
      PROVE  \A e, p : Owns(e, p)' <=> Drives(e, p, q, s, ts) \/ (e = Rx(z) /\ p = z.next)
  <2>1. \A e, p : ByReaction(e, p, jobs, stack)'
                     <=> ByReaction(e, p, q, s) \/ (e = Rx(z) /\ p = z.next)
    BY <1>3, <1>5 DEF Adds, ByReaction, Afoot, Rx
  <2>2. QED BY <1>1, <1>2, <2>1 DEF Drives, Owns
<1>6. QED BY <1>4, <1>5

-----------------------------------------------------------------------------
(* What settles what after the control part of a step: as before, or u     *)
(* has lost a.                                                             *)
Intact(q, s, ts) == \A e, p : Owns(e, p) <=> Drives(e, p, q, s, ts)
Lost(a, u, q, s, ts) ==
    /\ \A e, p : Owns(e, p) <=> Drives(e, p, q, s, ts) \/ (e = a /\ p = u)
    /\ \A p : ~Drives(a, p, q, s, ts)

LEMMA IntactBeyond ==
    ASSUME NEW a, NEW u, NEW q, NEW s, NEW ts, NEW r, NEW t, NEW us,
           Beyond(a, u, q, s, ts, r, t, us)
    PROVE  /\ Intact(q, s, ts) => Lost(a, u, r, t, us)
           /\ Lost(a, u, r, t, us) => Intact(q, s, ts)
BY DEF Beyond, Intact, Lost

OthersBalanced(u) == \A p \in Promise \ {u} : Balanced(p)

LEMMA IntactIdle ==
    ASSUME NEW q, NEW s, NEW ts, s = stack', ts = tasks', Intact(q, s, ts), Idle(q)
    PROVE  \A p \in Promise : Balanced(p)
<1>1. \A e, p : Owns(e, p)' <=> Owns(e, p)
  BY IdleKeeps, HeapDrives DEF Intact
<1>2. QED BY <1>1 DEF Idle, Balanced, Stays

LEMMA IntactSettling ==
    ASSUME NEW q, NEW s, NEW ts, s = stack', ts = tasks', Intact(q, s, ts),
           NEW u \in Promise, Settling(u, q)
    PROVE  OthersBalanced(u) /\ (state[u] = "free" => Balanced(u))
<1>1. \A e, p : Owns(e, p)' <=> Owns(e, p)
  BY MovedKeeps, HeapDrives DEF Intact, Settling
<1>2. QED BY <1>1 DEF Settling, OthersStay, OthersBalanced, Balanced, Stays, Done

LEMMA IntactAttaching ==
    ASSUME NEW q, NEW s, NEW ts, s = stack', ts = tasks', Intact(q, s, ts),
           NEW x, Attaching(x, q)
    PROVE  OthersBalanced(x.next) /\ (state[x.next] = "free" => Balanced(x.next))
<1>1. \A e, p : Owns(e, p)' <=> Owns(e, p) \/ (e = Rx(x) /\ p = x.next)
  BY AttachingAdds, HeapDrives DEF Intact
<1>2. QED BY <1>1 DEF Attaching, OthersStay, OthersBalanced, Balanced, Stays, Born

LEMMA IntactDisposes ==
    ASSUME NEW q, NEW s, NEW ts, s = stack', ts = tasks', Intact(q, s, ts),
           NEW u, Disposes(u, q)
    PROVE  OthersBalanced(u)
<1>1. CASE Idle(q)
  BY <1>1, IntactIdle DEF OthersBalanced
<1>2. CASE u \in Promise /\ Settling(u, q)
  BY <1>2, IntactSettling
<1>3. CASE \E x : x.next = u /\ Attaching(x, q)
  BY <1>3, IntactAttaching
<1>4. QED BY <1>1, <1>2, <1>3 DEF Disposes

LEMMA LostDisposes ==
    ASSUME NEW q, NEW s, NEW ts, s = stack', ts = tasks',
           NEW a, NEW u, Lost(a, u, q, s, ts), Disposes(u, q)
    PROVE  \A p \in Promise : Balanced(p)
<1>1. /\ Owns(a, u) /\ u \in Promise
      /\ \A e, p : Drives(e, p, q, s, ts) <=> Owns(e, p) /\ ~(e = a /\ p = u)
  BY DEF Lost, Disposes
<1>2. CASE state[u] = "pending" /\ Settling(u, q)
  <2>1. \A e, p : Owns(e, p)' <=> Owns(e, p) /\ ~(e = a /\ p = u)
    BY <1>1, <1>2, MovedKeeps, HeapDrives DEF Settling
  <2>2. Ends(u, a)
    BY <1>2, <2>1 DEF Settling, Ends
  <2>3. \A p \in Promise \ {u} : Stays(p)
    BY <1>2, <2>1 DEF Settling, OthersStay, Stays
  <2>4. QED BY <1>1, <2>2, <2>3 DEF Balanced
<1>3. CASE state[u] # "pending" /\ Idle(q)
  <2>1. \A e, p : Owns(e, p)' <=> Owns(e, p) /\ ~(e = a /\ p = u)
    BY <1>1, <1>3, IdleKeeps, HeapDrives
  <2>2. Ends(u, a)
    BY <1>3 DEF Ends
  <2>3. \A p \in Promise \ {u} : Stays(p)
    BY <1>3, <2>1 DEF Idle, Stays
  <2>4. QED BY <1>1, <2>2, <2>3 DEF Balanced
<1>4. ASSUME NEW x, x.next = u, Attaching(x, q)
      PROVE  \A p \in Promise : Balanced(p)
  <2>1. \A e, p : Owns(e, p)' <=> (Owns(e, p) /\ ~(e = a /\ p = u)) \/ (e = Rx(x) /\ p = u)
    BY <1>1, <1>4, AttachingAdds, HeapDrives
  <2>2. Passes(u, a, Rx(x))
    BY <1>4, <2>1 DEF Attaching, Passes
  <2>3. \A p \in Promise \ {u} : Stays(p)
    BY <1>4, <2>1 DEF Attaching, OthersStay, Stays
  <2>4. QED BY <1>1, <2>2, <2>3 DEF Balanced
<1>5. QED BY <1>2, <1>3, <1>4 DEF Disposes

(* A frame is opened for a promise: its functions exist, or the frame is   *)
(* its driver.                                                             *)
Gained(u, q, t, s, ts) == \E b : \A e, p :
    Drives(e, p, q, s, ts) <=> Drives(e, p, q, t, ts) \/ (e = b /\ p = u)

LEMMA OpensDrives ==
    ASSUME NEW u \in Promise, NEW t \in Seq(Frame), Opens(u, t), NEW s, s = stack',
           NEW q, NEW ts
    PROVE  \/ u \in capable' /\ \A e, p : Drives(e, p, q, s, ts) <=> Drives(e, p, q, t, ts)
           \/ Gained(u, q, t, s, ts)
<1>1. PICK f : /\ f.promise = u /\ f.kind \in {"resolving", "getter", "async"}
               /\ Grown(t, s, f)
               /\ f.kind = "resolving" => u \in capable'
  BY OpensGrown DEF Opened
<1>2. CASE f.kind = "resolving"
  <2>1. ~HasJob(f)
    BY <1>2 DEF HasJob
  <2>2. QED BY <1>1, <1>2, <2>1, PlainPushed
<1>3. CASE f.kind # "resolving"
  <2>1. \A e, p : Drives(e, p, q, s, ts)
                  <=> Drives(e, p, q, t, ts) \/ (e = Fr(Len(t) + 1) /\ p = u)
    BY <1>1, <1>3, SettlerPushed DEF Beyond
  <2>2. QED BY <2>1 DEF Gained
<1>4. QED BY <1>2, <1>3

LEMMA OpenedIdle ==
    ASSUME NEW q, NEW t \in Seq(Frame), NEW ts, ts = tasks', Keeps(q),
           NEW u \in Promise, Opens(u, t), OthersStay(u)
    PROVE  /\ Intact(q, t, ts) => OthersBalanced(u)
           /\ Intact(q, t, ts) /\ state[u] = "free" /\ state'[u] = "pending" =>
                 u \in capable' \/ Balanced(u)
           /\ \A a : Lost(a, u, q, t, ts) /\ state'[u] = state[u] =>
                 OthersBalanced(u) /\ (u \in capable' \/ Balanced(u))
<1>1. PICK s : s = stack'
  OBVIOUS
<1>2. \A e, p : Owns(e, p)' <=> Drives(e, p, q, s, ts)
  BY <1>1, HeapDrives
<1>3. CASE u \in capable' /\ \A e, p : Drives(e, p, q, s, ts) <=> Drives(e, p, q, t, ts)
  <2>1. Intact(q, t, ts) => OthersBalanced(u)
    BY <1>2, <1>3 DEF Intact, OthersBalanced, Balanced, Stays, OthersStay
  <2>2. \A a : Lost(a, u, q, t, ts) => OthersBalanced(u)
    BY <1>2, <1>3 DEF Lost, OthersBalanced, Balanced, Stays, OthersStay
  <2>3. QED BY <1>3, <2>1, <2>2
<1>4. CASE Gained(u, q, t, s, ts)
  <2>1. PICK b : \A e, p : Drives(e, p, q, s, ts) <=> Drives(e, p, q, t, ts) \/ (e = b /\ p = u)
    BY <1>4 DEF Gained
  <2>2. Intact(q, t, ts) => OthersBalanced(u)
    BY <1>2, <2>1 DEF Intact, OthersBalanced, Balanced, Stays, OthersStay
  <2>3. ASSUME Intact(q, t, ts), state[u] = "free", state'[u] = "pending" PROVE Balanced(u)
    <3>1. Born(u, b)
      BY <1>2, <2>1, <2>3 DEF Intact, Born
    <3>2. QED BY <3>1 DEF Balanced
  <2>4. ASSUME NEW a, Lost(a, u, q, t, ts), state'[u] = state[u]
        PROVE  OthersBalanced(u) /\ Balanced(u)
    <3>1. OthersBalanced(u)
      BY <1>2, <2>1, <2>4 DEF Lost, OthersBalanced, Balanced, Stays, OthersStay
    <3>2. Owns(a, u) /\ Passes(u, a, b)
      BY <1>2, <2>1, <2>4 DEF Lost, Passes
    <3>3. QED BY <3>1, <3>2 DEF Balanced
  <2>5. QED BY <2>2, <2>3, <2>4
<1>5. QED BY <1>1, <1>3, <1>4, OpensDrives

LEMMA Untouched ==
    ASSUME NEW q, NEW s, NEW ts, q = jobs, s = stack, ts = tasks
    PROVE  Intact(q, s, ts)
BY DEF Intact, Owns

(* The frame on top of the stack leaves it.                                *)
LEMMA TopLeaves ==
    ASSUME FInv, stack # << >>, NEW q, q = jobs, NEW t, t = Below, NEW ts, ts = tasks
    PROVE  /\ ~HasJob(Top) /\ Top.kind \notin {"async", "getter"} => Intact(q, t, ts)
           /\ Top.kind \in {"async", "getter"} => Lost(Fr(Len(t) + 1), Top.promise, q, t, ts)
           /\ HasJob(Top) => Lost(Rx(Top.job.reaction), Top.job.reaction.next, q, t, ts)
<1>1. PICK s, f : s = stack /\ f = Top
  OBVIOUS
<1>2. Grown(t, s, f) /\ Borne(s, q)
  BY <1>1, TopGrown DEF FInv, RInv, NInv, IInv
<1>3. Intact(q, s, ts)
  BY <1>1, Untouched
<1>4. CASE ~HasJob(f) /\ f.kind \notin {"async", "getter"}
  <2>1. Intact(q, t, ts)
    BY <1>2, <1>3, <1>4, PlainPushed DEF Intact
  <2>2. QED BY <1>1, <1>4, <2>1
<1>5. CASE f.kind \in {"async", "getter"}
  <2>1. ~HasJob(f)
    BY <1>5 DEF HasJob
  <2>2. Lost(Fr(Len(t) + 1), f.promise, q, t, ts)
    BY <1>2, <1>3, <1>5, SettlerPushed, IntactBeyond
  <2>3. QED BY <1>1, <1>5, <2>1, <2>2
<1>6. CASE HasJob(f)
  <2>1. f.kind \notin {"async", "getter"}
    BY <1>6 DEF HasJob
  <2>2. Lost(Rx(f.job.reaction), f.job.reaction.next, q, t, ts)
    BY <1>2, <1>3, <1>6, JobPushed, IntactBeyond
  <2>3. QED BY <1>1, <1>6, <2>1, <2>2
<1>7. QED BY <1>4, <1>5, <1>6

(* The head of the queue leaves it, for a frame perhaps.                   *)
LEMMA HeadLeaves ==
    ASSUME FInv, jobs # << >>, NEW t, t = Rest, NEW ts, ts = tasks, NEW s, s = stack
    PROVE  /\ Lost(Rx(Next1.reaction), Next1.reaction.next, t, s, ts)
           /\ \A u, f : Grown(s, u, f) /\ HasJob(f) /\ f.job = Next1 => Intact(t, u, ts)
<1>1. PICK q, h : q = jobs /\ h = Next1
  OBVIOUS
<1>2. QueueOK(q) /\ Tickets(q) /\ q # << >> /\ Borne(s, q) /\ h = Head(q) /\ t = Tail(q)
  BY <1>1 DEF FInv, RInv, NInv, IInv, Next1, Rest
<1>3. Intact(q, s, ts)
  BY <1>1, Untouched
<1>4. Lost(Rx(h.reaction), h.reaction.next, t, s, ts)
  BY <1>2, <1>3, HeadTaken, IntactBeyond
<1>5. ASSUME NEW u, NEW f, Grown(s, u, f), HasJob(f), f.job = h PROVE Intact(t, u, ts)
  <2>1. Borne(u, t)
    BY <1>2, <1>5, TakeBorne
  <2>2. Beyond(Rx(h.reaction), h.reaction.next, t, u, ts, t, s, ts)
    BY <1>5, <2>1, JobPushed
  <2>3. QED BY <1>4, <2>2, IntactBeyond
<1>6. QED BY <1>1, <1>4, <1>5

-----------------------------------------------------------------------------
(* The effects keep every promise without functions balanced.              *)
Balance == \A p \in Promise \ capable' : Balanced(p)

LEMMA OpeningBalance ==
    ASSUME FInv, Opening
    PROVE  Balance
<1>1. PICK q, t, ts : q = jobs /\ t = stack /\ ts = tasks
  OBVIOUS
<1>2. PICK u \in Promise : Birth(u) /\ Opens(u, t) /\ ts = tasks'
  BY <1>1 DEF Opening
<1>3. Keeps(q) /\ OthersStay(u) /\ state[u] = "free" /\ state'[u] = "pending"
  BY <1>1, <1>2 DEF Birth, Keeps, Around
<1>4. t \in Seq(Frame) /\ Intact(q, t, ts)
  BY <1>1, Untouched DEF FInv, RInv, NInv, IInv, StackOK
<1>5. OthersBalanced(u) /\ (u \in capable' \/ Balanced(u))
  BY <1>2, <1>3, <1>4, OpenedIdle
<1>6. QED BY <1>5 DEF OthersBalanced, Balance

LEMMA MakingBalance ==
    ASSUME BornSettled \/ Deriving \/ Reporting
    PROVE  Balance
<1>1. PICK q, s, ts : q = jobs /\ s = stack' /\ ts = tasks'
  OBVIOUS
<1>2. CASE BornSettled
  <2>1. PICK u \in Promise : state[u] = "free" /\ Settling(u, q) /\ stack' = stack /\ tasks' = tasks
    BY <1>1, <1>2 DEF BornSettled
  <2>2. Intact(q, s, ts)
    BY <1>1, <2>1, Untouched
  <2>3. OthersBalanced(u) /\ Balanced(u)
    BY <1>1, <2>1, <2>2, IntactSettling
  <2>4. QED BY <2>3 DEF OthersBalanced, Balance
<1>3. CASE Deriving
  <2>1. PICK x : state[x.next] = "free" /\ Attaching(x, q) /\ stack' = stack /\ tasks' = tasks
    BY <1>1, <1>3 DEF Deriving
  <2>2. Intact(q, s, ts)
    BY <1>1, <2>1, Untouched
  <2>3. OthersBalanced(x.next) /\ Balanced(x.next)
    BY <1>1, <2>1, <2>2, IntactAttaching
  <2>4. QED BY <2>3 DEF OthersBalanced, Balance
<1>5. CASE Reporting
  <2>1. Idle(q) /\ stack' = stack /\ tasks' = tasks
    BY <1>1, <1>5 DEF Reporting
  <2>2. Intact(q, s, ts)
    BY <1>1, <2>1, Untouched
  <2>3. QED BY <1>1, <2>1, <2>2, IntactIdle DEF Balance
<1>6. QED BY <1>2, <1>3, <1>5

LEMMA EnteringBalance ==
    ASSUME FInv, Entering
    PROVE  Balance
<1>1. PICK q, t, s, ts : q = jobs /\ t = stack /\ s = stack' /\ ts = tasks
  OBVIOUS
<1>2. PICK src \in Promise :
        Idle(q) /\ s = Append(t, [kind |-> "await", promise |-> src]) /\ ts = tasks'
  BY <1>1 DEF Entering
<1>3. PICK f : f = [kind |-> "await", promise |-> src]
  OBVIOUS
<1>4. FrameOK(f) /\ f.kind = "await"
  BY <1>3, MadeFrames
<1>5. f \in Frame /\ t \in Seq(Frame)
  BY <1>1, <1>4 DEF FrameOK, FInv, RInv, NInv, IInv, StackOK
<1>6. Grown(t, s, f) /\ ~HasJob(f) /\ f.kind \notin {"async", "getter"}
  BY <1>2, <1>3, <1>4, <1>5, AppendGrows DEF HasJob
<1>7. Intact(q, t, ts)
  BY <1>1, Untouched
<1>8. Intact(q, s, ts)
  BY <1>6, <1>7, PlainPushed DEF Intact
<1>9. QED BY <1>1, <1>2, <1>8, IntactIdle DEF Balance

LEMMA CallingBalance ==
    ASSUME FInv, Calling
    PROVE  Balance
<1>1. PICK q, t, ts : q = jobs /\ t = stack /\ ts = tasks
  OBVIOUS
<1>2. PICK u \in capable :
        /\ ts = tasks'
        /\ \/ Disposes(u, q) /\ t = stack' /\ capable' = capable
           \/ Idle(q) /\ Opens(u, t)
  BY <1>1 DEF Calling
<1>3. t \in Seq(Frame) /\ Intact(q, t, ts) /\ u \in Promise
  BY <1>1, <1>2, Untouched DEF FInv, RInv, NInv, IInv, StackOK, Others
<1>4. CASE Disposes(u, q) /\ t = stack' /\ capable' = capable
  <2>1. OthersBalanced(u)
    BY <1>2, <1>3, <1>4, IntactDisposes
  <2>2. QED BY <1>2, <1>4, <2>1 DEF OthersBalanced, Balance
<1>5. CASE Idle(q) /\ Opens(u, t)
  <2>1. Keeps(q) /\ OthersStay(u)
    BY <1>5, IdleKeeps DEF Idle, OthersStay
  <2>2. OthersBalanced(u)
    BY <1>2, <1>3, <1>5, <2>1, OpenedIdle
  <2>3. u \in capable'
    BY <1>2, <1>5 DEF Opens
  <2>4. QED BY <2>2, <2>3 DEF OthersBalanced, Balance
<1>6. QED BY <1>2, <1>4, <1>5

LEMMA EndingBalance ==
    ASSUME FInv, Ending
    PROVE  Balance
<1>1. PICK q, t, ts, f : q = jobs /\ t = Below /\ ts = tasks /\ f = Top
  OBVIOUS
<1>2. /\ stack # << >> /\ t = stack' /\ ts = tasks' /\ capable' = capable
      /\ \/ f.kind \in {"async", "getter", "resolving"} /\ Disposes(f.promise, q)
         \/ HasJob(f) /\ Disposes(f.job.reaction.next, q)
         \/ f.kind \in {"resolving", "await", "script"} /\ Idle(q)
  BY <1>1 DEF Ending
<1>3. /\ ~HasJob(f) /\ f.kind \notin {"async", "getter"} => Intact(q, t, ts)
      /\ f.kind \in {"async", "getter"} => Lost(Fr(Len(t) + 1), f.promise, q, t, ts)
      /\ HasJob(f) => Lost(Rx(f.job.reaction), f.job.reaction.next, q, t, ts)
  BY <1>1, <1>2, TopLeaves
<1>4. CASE f.kind \in {"async", "getter"} /\ Disposes(f.promise, q)
  BY <1>2, <1>3, <1>4, LostDisposes DEF Balance
<1>5. CASE HasJob(f) /\ Disposes(f.job.reaction.next, q)
  BY <1>2, <1>3, <1>5, LostDisposes DEF Balance
<1>6. CASE f.kind = "resolving" /\ Disposes(f.promise, q)
  <2>1. Intact(q, t, ts)
    BY <1>3, <1>6 DEF HasJob
  <2>2. OthersBalanced(f.promise)
    BY <1>2, <1>6, <2>1, IntactDisposes
  <2>3. f.promise \in capable
    <3>1. Grown(t, stack, f)
      BY <1>1, <1>2, TopGrown DEF FInv, RInv, NInv, IInv
    <3>2. QED BY <1>6, <3>1 DEF FInv, FramesFit, Grown
  <2>4. QED BY <1>2, <2>2, <2>3 DEF OthersBalanced, Balance
<1>7. CASE f.kind \in {"resolving", "await", "script"} /\ Idle(q)
  <2>1. Intact(q, t, ts)
    BY <1>3, <1>7 DEF HasJob
  <2>2. QED BY <1>2, <1>7, <2>1, IntactIdle DEF Balance
<1>8. QED BY <1>2, <1>4, <1>5, <1>6, <1>7

LEMMA PassingBalance ==
    ASSUME FInv, Passing
    PROVE  Balance
<1>1. PICK q, t, ts, f : q = jobs /\ t = Below /\ ts = tasks /\ f = Top
  OBVIOUS
<1>2. /\ stack # << >> /\ f.kind \in {"async", "getter"}
      /\ Idle(q) /\ Opens(f.promise, t) /\ ts = tasks'
  BY <1>1 DEF Passing
<1>3. Lost(Fr(Len(t) + 1), f.promise, q, t, ts)
  BY <1>1, <1>2, TopLeaves
<1>4. StackOK(stack)
  BY DEF FInv, RInv, NInv, IInv
<1>5. t \in Seq(Frame) /\ FrameOK(f)
  BY <1>1, <1>2, <1>4, BelowCuts
<1>6. PICK u \in Promise : u = f.promise
  BY <1>2, <1>5, FrameParts
<1>7. Keeps(q) /\ OthersStay(u) /\ state'[u] = state[u]
  BY <1>2, IdleKeeps DEF Idle, OthersStay
<1>8. OthersBalanced(u) /\ (u \in capable' \/ Balanced(u))
  BY <1>2, <1>3, <1>5, <1>6, <1>7, OpenedIdle
<1>9. QED BY <1>8 DEF OthersBalanced, Balance

LEMMA JobBalance ==
    ASSUME FInv, Doing \/ CallingBack
    PROVE  Balance
<1>1. PICK t, s, ts, h : t = Rest /\ s = stack /\ ts = tasks /\ h = Next1
  OBVIOUS
<1>2. CASE Doing
  <2>1. jobs # << >> /\ Disposes(h.reaction.next, t) /\ s = stack' /\ ts = tasks'
    BY <1>1, <1>2 DEF Doing
  <2>2. Lost(Rx(h.reaction), h.reaction.next, t, s, ts)
    BY <1>1, <2>1, HeadLeaves
  <2>3. QED BY <2>1, <2>2, LostDisposes DEF Balance
<1>3. CASE CallingBack
  <2>1. PICK u, f : u = stack' /\ f = [kind |-> "callback", job |-> h]
    OBVIOUS
  <2>2. jobs # << >> /\ Idle(t) /\ u = Append(s, f) /\ ts = tasks'
    BY <1>1, <1>3, <2>1 DEF CallingBack
  <2>3. JobOK(h) /\ s \in Seq(Frame)
    BY <1>1, <2>2, NextJob DEF FInv, RInv, NInv, IInv, StackOK
  <2>4. FrameOK(f) /\ f.kind = "callback" /\ f.job = h
    BY <2>1, <2>3, MadeJobFrames
  <2>5. Grown(s, u, f) /\ HasJob(f)
    BY <2>2, <2>3, <2>4, AppendGrows DEF FrameOK, HasJob
  <2>6. Intact(t, u, ts)
    BY <1>1, <2>2, <2>4, <2>5, HeadLeaves
  <2>7. QED BY <2>1, <2>2, <2>6, IntactIdle DEF Balance
<1>4. QED BY <1>2, <1>3

LEMMA ResumingBalance ==
    ASSUME FInv, Resuming
    PROVE  Balance
<1>1. PICK t, b, ts, h : t = Rest /\ b = stack /\ ts = tasks /\ h = Next1
  OBVIOUS
<1>2. PICK k, s :
        /\ jobs # << >> /\ Callback(h).kind = "resume" /\ k = Callback(h).task
        /\ s = Append(b, [kind |-> "resume", job |-> h])
        /\ tasks' = [ts EXCEPT ![k] = NoTask]
        /\ \/ ~ts[k].live
           \/ Disposes(ts[k].promise, t) /\ stack' = s
           \/ Idle(t) /\ Opens(ts[k].promise, s)
  BY <1>1 DEF Resuming
<1>3. k \in 1 .. Len(ts) /\ ts[k].live /\ ts[k].promise \in Promise /\ ts \in Seq(Task)
  BY <1>1, <1>2, ResumedTask DEF FInv, RInv, NInv, IInv, HeapOK
<1>4. PICK us : us = [ts EXCEPT ![k] = NoTask]
  OBVIOUS
<1>5. PICK u \in Promise : u = ts[k].promise
  BY <1>3
<1>6. Intact(t, s, ts)
  <2>1. PICK f : f = [kind |-> "resume", job |-> h]
    OBVIOUS
  <2>2. JobOK(h) /\ b \in Seq(Frame)
    BY <1>1, <1>2, NextJob DEF FInv, RInv, NInv, IInv, StackOK
  <2>3. FrameOK(f) /\ f.kind = "resume" /\ f.job = h
    BY <2>1, <2>2, MadeJobFrames
  <2>4. Grown(b, s, f) /\ HasJob(f)
    BY <1>2, <2>1, <2>2, <2>3, AppendGrows DEF FrameOK, HasJob
  <2>5. QED BY <1>1, <1>2, <2>3, <2>4, HeadLeaves
<1>7. Lost(Tk(k), u, t, s, us)
  <2>1. Beyond(Tk(k), u, t, s, ts, t, s, us)
    BY <1>3, <1>4, <1>5, TaskTaken
  <2>2. QED BY <1>6, <2>1, IntactBeyond
<1>8. us = tasks'
  BY <1>2, <1>4
<1>9. CASE Disposes(u, t) /\ stack' = s
  BY <1>7, <1>8, <1>9, LostDisposes DEF Balance
<1>10. CASE Idle(t) /\ Opens(u, s)
  <2>1. Keeps(t) /\ OthersStay(u) /\ state'[u] = state[u]
    BY <1>10, IdleKeeps DEF Idle, OthersStay
  <2>2. s \in Seq(Frame)
    BY <1>1, <1>2, TakeFits
  <2>3. OthersBalanced(u) /\ (u \in capable' \/ Balanced(u))
    BY <1>7, <1>8, <1>10, <2>1, <2>2, OpenedIdle
  <2>4. QED BY <2>3 DEF OthersBalanced, Balance
<1>11. QED BY <1>2, <1>3, <1>5, <1>9, <1>10

LEMMA ThrowingBalance ==
    ASSUME FInv, Throwing
    PROVE  Balance
<1>1. PICK q, b, t, f, ts : q = jobs /\ b = stack /\ t = Below /\ f = Top /\ ts = tasks
  OBVIOUS
<1>2. PICK n : n = Len(b) - 2
  OBVIOUS
<1>3. PICK s, g : s = SubSeq(b, 1, n) /\ g = b[n + 1]
  OBVIOUS
<1>4. /\ Len(b) = n + 2 /\ n \in Nat /\ b # << >>
      /\ f.kind = "await" /\ g.kind = "async"
      /\ s = stack' /\ ts = tasks' /\ Disposes(g.promise, q)
  BY <1>1, <1>2, <1>3 DEF Throwing, Top
<1>5. StackOK(b) /\ Borne(b, q)
  BY <1>1 DEF FInv, RInv, NInv, IInv
<1>6. Intact(q, t, ts)
  BY <1>1, <1>4, TopLeaves DEF HasJob
<1>7. Grown(s, t, g)
  <2>1. Grown(t, b, f)
    BY <1>1, <1>4, <1>5, TopGrown
  <2>2. Len(s) = n /\ \A i \in 1 .. n : s[i] = b[i]
    BY <1>3, <1>4, <1>5, CutCuts
  <2>3. Len(t) = n + 1 /\ \A i \in 1 .. n + 1 : t[i] = b[i]
    BY <1>4, <2>1 DEF Grown
  <2>4. QED BY <1>3, <1>4, <2>2, <2>3 DEF Grown
<1>8. Lost(Fr(Len(s) + 1), g.promise, q, s, ts)
  BY <1>4, <1>6, <1>7, SettlerPushed, IntactBeyond
<1>9. QED BY <1>4, <1>8, LostDisposes DEF Balance

LEMMA SuspendingBalance ==
    ASSUME FInv, \A p \in Promise \ capable : Single(p), Suspending
    PROVE  Balance
<1>1. PICK q, t, ts, f : q = jobs /\ t = Below /\ ts = tasks /\ f = Top
  OBVIOUS
<1>2. PICK x, k, action :
        /\ stack # << >> /\ f.kind = "async" /\ t = stack' /\ k = Len(ts) + 1
        /\ tasks' = Append(ts, [live |-> TRUE, promise |-> f.promise, action |-> action])
        /\ action \in {"continue", "return"}
        /\ state[x.next] = "free" /\ Attaching(x, q) /\ capable' = capable
  BY <1>1 DEF Suspending
<1>3. StackOK(stack) /\ ts \in Seq(Task)
  BY <1>1 DEF FInv, RInv, NInv, IInv, HeapOK
<1>4. FrameOK(f)
  BY <1>1, <1>2, <1>3, BelowCuts
<1>5. PICK u \in Promise : u = f.promise
  BY <1>2, <1>4, FrameParts
<1>6. PICK a : a = Fr(Len(t) + 1)
  OBVIOUS
<1>7. Lost(a, u, q, t, ts)
  BY <1>1, <1>2, <1>5, <1>6, TopLeaves
<1>8. PICK task : task = [live |-> TRUE, promise |-> u, action |-> action]
  OBVIOUS
<1>9. task \in Task /\ task.live /\ task.promise = u
  BY <1>2, <1>8 DEF Task
<1>10. PICK us : us = Append(ts, task)
  OBVIOUS
<1>11. \A e, p : Drives(e, p, q, t, us) <=> Drives(e, p, q, t, ts) \/ (e = Tk(k) /\ p = u)
  BY <1>2, <1>3, <1>9, <1>10, TaskAdded
<1>12. us = tasks'
  BY <1>2, <1>5, <1>8, <1>10
<1>13. \A e, p : Owns(e, p)' <=> Drives(e, p, q, t, us) \/ (e = Rx(x) /\ p = x.next)
  BY <1>2, <1>12, AttachingAdds, HeapDrives
<1>14. Owns(a, u) /\ \A e, p : Drives(e, p, q, t, ts) <=> Owns(e, p) /\ ~(e = a /\ p = u)
  BY <1>7 DEF Lost
<1>15. /\ x.next \in Promise /\ state[x.next] = "free" /\ state'[x.next] = "pending"
       /\ OthersStay(x.next)
  BY <1>2 DEF Attaching
<1>16. u \in capable \/ u # x.next
  BY <1>14, <1>15 DEF Single
<1>17. ASSUME NEW p \in Promise \ capable PROVE Balanced(p)
  <2>1. CASE p = x.next
    <3>1. Born(p, Rx(x))
      BY <1>11, <1>13, <1>14, <1>15, <1>16, <1>17, <2>1 DEF Born
    <3>2. QED BY <3>1 DEF Balanced
  <2>2. CASE p # x.next /\ p = u
    <3>1. Passes(u, a, Tk(k))
      BY <1>11, <1>13, <1>14, <1>15, <2>2 DEF Passes, OthersStay
    <3>2. QED BY <1>14, <2>2, <3>1 DEF Balanced
  <2>3. CASE p # x.next /\ p # u
    <3>1. Stays(p)
      BY <1>11, <1>13, <1>14, <1>15, <2>3 DEF Stays, OthersStay
    <3>2. QED BY <3>1 DEF Balanced
  <2>4. QED BY <2>1, <2>2, <2>3
<1>18. QED BY <1>2, <1>17 DEF Balance

(* The invariant of the drivers.                                           *)
DInv ==
    /\ FInv
    /\ ~swallowed /\ phase # "aborted" => \A p \in Promise \ capable : Single(p)

LEMMA InitDInv == Init => DInv
<1> SUFFICES ASSUME Init, NEW p \in Promise PROVE Single(p)
  BY InitFInv DEF DInv
<1>1. /\ stack = <<[kind |-> "script"]>> /\ jobs = << >> /\ tasks = << >>
      /\ state[p] = "free" /\ \A y \in Promise : reactions[y] = << >>
  BY DEF Init
<1>2. /\ \A i \in 1 .. Len(stack) : stack[i].kind = "script"
      /\ \A i : i \notin 1 .. Len(jobs)
      /\ \A i : i \notin 1 .. Len(tasks)
      /\ \A y \in Promise : \A i : i \notin 1 .. Len(reactions[y])
  BY <1>1, EmptySeq
<1>3. \A x : ~Afoot(x, jobs, stack)
  BY <1>2 DEF Afoot, Around, InFrame, Bears
<1>4. \A e : ~Owns(e, p)
  BY <1>2, <1>3 DEF Owns, Drives, ByReaction, ByTask, ByFrame, Settles
<1>5. QED BY <1>1, <1>4 DEF Single

LEMMA NextDInv == DInv /\ [Next]_vars => DInv'
<1> SUFFICES ASSUME DInv, [Next]_vars, ~swallowed', phase' # "aborted"
             PROVE  \A p \in Promise \ capable' : Single(p)'
  BY NextFInv DEF DInv
<1>1. FInv /\ Effects
  BY NextEffects DEF DInv, FInv, RInv, NInv, IInv
<1>2. ~swallowed /\ phase # "aborted"
  <2>1. phase # "aborted"
    <3>1. CASE phase = "aborted"
      BY <1>1, <3>1, AbortedStops DEF FInv, vars
    <3>2. QED BY <3>1
  <2>2. ~swallowed
    BY <1>1 DEF Effects, Opening, BornSettled, Deriving, Calling, Entering, Ending, Passing,
                Suspending, Doing, CallingBack, Resuming, Throwing, Failing, Reporting, vars
  <2>3. QED BY <2>1, <2>2
<1>3. \A p \in Promise \ capable : Single(p)
  BY <1>2 DEF DInv
<1>4. capable \subseteq capable'
  <2>1. \A p, s : Opens(p, s) => capable \subseteq capable'
    BY DEF Opens
  <2>2. QED
    BY <1>1, <2>1 DEF Effects, Opening, BornSettled, Deriving, Calling, Entering, Ending, Passing,
                Suspending, Doing, CallingBack, Resuming, Throwing, Failing, Reporting
<1>5. Balance
  <2>1. ~Failing
    BY <1>2 DEF Failing
  <2>2. QED BY <1>1, <1>3, <2>1, OpeningBalance, MakingBalance, EnteringBalance, CallingBalance,
            EndingBalance, PassingBalance, JobBalance, ResumingBalance, ThrowingBalance,
            SuspendingBalance DEF Effects
<1>6. QED BY <1>3, <1>4, <1>5, BalancedSingle DEF Balance

(* A promise the program holds no resolving functions of is settled by     *)
(* exactly one thing while it is pending, be it a reaction, a suspended or *)
(* running async body or the read of a then, and by nothing afterwards: a  *)
(* job, an await or an async call never forgets a promise it is to settle, *)
(* nor leaves two of them to settle it.                                    *)
THEOREM OneDriverAlways == Spec => []OneDriver
<1>1. DInv => OneDriver
  <2> SUFFICES ASSUME DInv, NEW p \in Promise \ capable, ~swallowed, phase # "aborted",
                      NEW drivers, drivers = Drivers(p)
               PROVE  Cardinality(drivers) = IF state[p] = "pending" THEN 1 ELSE 0
    BY DEF OneDriver
  <2>1. HeapOK /\ QueueOK(jobs) /\ StackOK(stack) /\ FramesFit(stack, capable) /\ Single(p)
    BY DEF DInv, FInv, RInv, NInv, IInv
  <2>2. /\ DOMAIN tasks = 1 .. Len(tasks)
        /\ DOMAIN stack = 1 .. Len(stack)
    BY <2>1, LenProperties DEF HeapOK, StackOK
  <2>3. \A y : y \in Waiting \union Queued <=> Around(y, jobs)
    BY <2>1, PlacesListed DEF Around
  <2>4. \A y : y \in Running <=> InFrame(y, stack)
    BY <2>2 DEF Running, Frames, InFrame, Bears
  <2>5. \A y : y \in Waiting \union Queued \union Running <=> Afoot(y, jobs, stack)
    BY <2>3, <2>4 DEF Afoot
  <2>6. ASSUME NEW e PROVE e \in drivers <=> Owns(e, p)
    <3>1. ByReaction(e, p, jobs, stack) <=>
            e \in {<<"reaction", x.id>> : x \in {y \in Waiting \union Queued \union Running : y.next = p}}
      BY <2>5 DEF ByReaction, Rx
    <3>2. ByTask(e, p, tasks) <=>
            e \in {<<"task", k>> : k \in {j \in DOMAIN tasks : tasks[j].live /\ tasks[j].promise = p}}
      BY <2>2 DEF ByTask, Tk
    <3>3. \A j \in 1 .. Len(stack) : stack[j].kind = "resolving" => stack[j].promise # p
      BY <2>1 DEF FramesFit
    <3>4. ByFrame(e, p, stack) <=>
            e \in {<<"frame", i>> : i \in {j \in Frames({"async", "getter", "resolving"}) :
                                              stack[j].promise = p}}
      BY <2>2, <3>3 DEF ByFrame, Fr, Frames, Settles
    <3>5. QED BY <3>1, <3>2, <3>4 DEF Drivers, Owns, Drives
  <2>7. CASE state[p] = "pending"
    <3>1. PICK e : Owns(e, p)
      BY <2>1, <2>7 DEF Single
    <3>2. drivers = {e}
      BY <2>1, <2>6, <3>1 DEF Single
    <3>3. QED BY <2>7, <3>2, FS_Singleton
  <2>8. CASE state[p] # "pending"
    <3>1. drivers = {}
      BY <2>1, <2>6, <2>8 DEF Single
    <3>2. QED BY <2>8, <3>1, FS_EmptySet
  <2>9. QED BY <2>7, <2>8
<1>2. QED BY <1>1, InitDInv, NextDInv, PTL DEF Spec

===============================================================================
