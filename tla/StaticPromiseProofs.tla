------------------------ MODULE StaticPromiseProofs ------------------------
(***************************************************************************)
(* Proofs about StaticPromise, for every number of promises, every set of  *)
(* functions and every script that uses them.                              *)
(*                                                                         *)
(* The invariant has three parts.  DataInv: the tables.  Stack: the Rust   *)
(* call stack; each frame settles a promise of its own (Apart), because a  *)
(* frame whose parent is not settled is older than all frames below it     *)
(* (Falls), and what its handler is waiting for will be settled with what  *)
(* JavaScript makes of the handler (Waits, Gives).  PassInv: a pass of the *)
(* drain that has settled nothing has every reaction that could run ahead. *)
(***************************************************************************)
EXTENDS StaticPromise, SequenceTheorems, TLAPS

-----------------------------------------------------------------------------
(* Records.                                                                *)
LEMMA SettlementFields ==
    ASSUME NEW x \in Settlement \union {Unsettled}
    PROVE  /\ x # Unsettled <=> x \in Settlement
           /\ x \in Settlement => x.state \in Outcome /\ x.value \in Plain
           /\ x \in Settlement => x = [state |-> x.state, value |-> x.value]
<1>1. Unsettled \notin Settlement
  <2>1. \A y \in Settlement : y.state \in Outcome
    BY DEF Settlement
  <2>2. Unsettled.state = "none" /\ "none" \notin Outcome
    BY DEF Unsettled, Outcome
  <2>3. QED BY <2>1, <2>2
<1>2. QED BY <1>1 DEF Settlement

LEMMA CodeFields ==
    ASSUME NEW h \in Code
    PROVE  /\ h.ends \in {"return", "throw", "promise", "await", "forward", "then"}
           /\ h.value \in Plain /\ h.next \in Names /\ h # NoHandler
<1>1. /\ h.ends \in {"return", "throw", "promise", "await", "forward", "then"}
      /\ h.value \in Plain /\ h.next \in Names
  BY DEF Code, InPlace
<1>2. NoHandler.ends = "none"
  BY DEF NoHandler
<1>3. QED BY <1>1, <1>2

LEMMA HandlerFields ==
    ASSUME NEW h \in Handler
    PROVE  /\ h = NoHandler \/ h \in Code
           /\ h.ends # "none" => h \in Code
<1>1. NoHandler.ends = "none"
  BY DEF NoHandler
<1>2. QED BY <1>1 DEF Handler

(* What JavaScript makes of a function is a settlement.                    *)
LEMMA Results ==
    ASSUME NEW h \in Code
    PROVE  /\ ResultOf(h) \in Settlement /\ Program[h.next] \in Code
           /\ Result[h.next] \in Settlement /\ Result[h.next] = ResultOf(Program[h.next])
<1>1. h.next \in Names /\ h.value \in Plain
  BY CodeFields
<1>2. /\ Program[h.next] \in Code
      /\ Result[h.next] \in Settlement /\ Result[h.next] = ResultOf(Program[h.next])
  BY <1>1, ProgramAssumption, ResultAssumption
<1>3. ResultOf(h) \in Settlement
  BY <1>1, <1>2 DEF ResultOf, Settlement, Fulfilled, Outcome
<1>4. QED BY <1>2, <1>3

LEMMA ChainFields ==
    ASSUME NEW c \in Chain \union {Unchained}
    PROVE  /\ c # Unchained <=> c \in Chain
           /\ c \in Chain => /\ c.kind \in {"then", "finally"} /\ c.parent \in Reference
                             /\ c.fulfilled \in Handler /\ c.rejected \in Handler
<1>1. Unchained \notin Chain
  <2>1. \A y \in Chain : y.kind # "none"
    BY DEF Chain
  <2>2. Unchained.kind = "none"
    BY DEF Unchained
  <2>3. QED BY <2>1, <2>2
<1>2. QED BY <1>1 DEF Chain

LEMMA ReactionFields ==
    ASSUME NEW kind \in {"then", "finally"}, NEW p \in Reference,
           NEW f \in Handler, NEW r \in Handler
    PROVE  /\ Reaction(kind, p, f, r) \in Chain
           /\ Reaction(kind, p, f, r) # Unchained
           /\ Reaction(kind, p, f, r).kind = kind
           /\ Reaction(kind, p, f, r).parent = p
           /\ Reaction(kind, p, f, r).fulfilled = f
<1>1. Reaction(kind, p, f, r) \in Chain
  BY DEF Reaction, Chain
<1>2. Reaction(kind, p, f, r) # Unchained
  BY <1>1, ChainFields
<1>3. QED BY <1>1, <1>2 DEF Reaction

LEMMA NoHandlerType == NoHandler \in Handler
BY DEF Handler

-----------------------------------------------------------------------------
(* The promises: what is not created is blank, a chain hangs on an older   *)
(* promise, and a settled promise with a chain has the settlement its      *)
(* handler calls for.                                                      *)
Known == 0 .. created

Promises ==
    /\ created \in 0 .. MaxTokens
    /\ settlements \in [Reference -> Settlement \union {Unsettled}]
    /\ chains \in [Reference -> Chain \union {Unchained}]

Blank == \A t \in Reference : t \notin Created => ~IsSettled(t) /\ ~HasChain(t)

Hung == \A t \in Reference : HasChain(t) => chains[t].parent \in 0 .. t - 1

Due(t) == HasChain(t) /\ IsSettled(chains[t].parent)

Follows ==
    \A t \in Reference : IsSettled(t) /\ HasChain(t) => Due(t) /\ settlements[t] = Called(t)

DataInv == Promises /\ Blank /\ Hung /\ Follows

(* No settlement is taken back and no chain replaced.                      *)
Grows ==
    /\ created \in 0 .. MaxTokens /\ created' \in created .. MaxTokens
    /\ \A t \in Reference : IsSettled(t) => settlements'[t] = settlements[t]
    /\ \A t \in Known : chains'[t] = chains[t]

LEMMA KnownTokens ==
    ASSUME Promises
    PROVE  /\ created \in Nat /\ MaxTokens \in Nat /\ created <= MaxTokens
           /\ \A t \in Known : t \in Reference /\ t \in Nat /\ t <= created
           /\ \A t \in Created : t \in Known /\ t \in Token
           /\ \A t \in Known : t # 0 => t \in Created
           /\ \A t \in Token : t \in Reference
           /\ created < MaxTokens => created + 1 \in Token /\ created + 1 \notin Known
BY BoundsAssumption DEF Promises, Created, Token, Reference, Known

LEMMA GrowsKnown ==
    ASSUME Promises, Grows, NEW t \in Known
    PROVE  t \in Known'
BY BoundsAssumption DEF Promises, Grows, Known

LEMMA SettledIn ==
    ASSUME Promises, NEW t \in Reference, IsSettled(t)
    PROVE  settlements[t] \in Settlement
BY SettlementFields DEF Promises, IsSettled

LEMMA SettledCreated ==
    ASSUME DataInv, NEW t \in Reference, IsSettled(t) \/ HasChain(t)
    PROVE  t \in Created /\ t \in Token /\ t \in Known
BY KnownTokens DEF DataInv, Blank

LEMMA HandlerType ==
    ASSUME Promises, NEW t \in Reference, HasChain(t)
    PROVE  chains[t] \in Chain /\ chains[t].parent \in Reference /\ HandlerOf(t) \in Handler
<1>1. chains[t] \in Chain
  BY ChainFields DEF Promises, HasChain
<1>2. chains[t].parent \in Reference /\ chains[t].fulfilled \in Handler
      /\ chains[t].rejected \in Handler
  BY <1>1, ChainFields
<1>3. QED BY <1>1, <1>2 DEF HandlerOf

LEMMA DueStays ==
    ASSUME Promises, Grows, NEW t \in Known, Due(t)
    PROVE  /\ Due(t)' /\ HandlerOf(t)' = HandlerOf(t) /\ chains'[t] = chains[t]
           /\ settlements'[chains[t].parent] = settlements[chains[t].parent]
<1>1. t \in Reference /\ chains'[t] = chains[t]
  BY KnownTokens DEF Grows
<1>2. chains[t].parent \in Reference
  BY <1>1, HandlerType DEF Due
<1>3. settlements'[chains[t].parent] = settlements[chains[t].parent]
  BY <1>2 DEF Grows, Due
<1>4. QED BY <1>1, <1>2, <1>3 DEF Due, HasChain, IsSettled, HandlerOf

LEMMA CalledStays ==
    ASSUME Promises, Grows, NEW t \in Known, Due(t)
    PROVE  Called(t)' = Called(t)
<1>1. PICK h, s : h = HandlerOf(t) /\ s = ResultOf(h)
  OBVIOUS
<1>2. /\ HandlerOf(t)' = h /\ chains'[t] = chains[t]
      /\ settlements'[chains[t].parent] = settlements[chains[t].parent]
  BY <1>1, DueStays
<1>3. Completion(t, s)' = Completion(t, s)
  BY <1>2 DEF Completion
<1>4. Called(t) = IF h = NoHandler THEN settlements[chains[t].parent] ELSE Completion(t, s)
  BY <1>1 DEF Called
<1>5. Called(t)' = IF h = NoHandler THEN settlements'[chains'[t].parent] ELSE Completion(t, s)'
  BY <1>1, <1>2 DEF Called
<1>6. QED BY <1>2, <1>3, <1>4, <1>5

(* What a step that only adds settles in the new state.                    *)
LEMMA FollowsStays ==
    ASSUME DataInv, Grows, Promises',
           \A t \in Reference : IsSettled(t)' /\ HasChain(t)' =>
               \/ IsSettled(t)
               \/ Due(t) /\ t \in Known /\ settlements'[t] = Called(t)
    PROVE  Follows'
<1> SUFFICES ASSUME NEW t \in Reference, IsSettled(t)', HasChain(t)'
             PROVE  Due(t)' /\ settlements'[t] = Called(t)'
  BY DEF Follows
<1>1. CASE IsSettled(t)
  <2>1. t \in Known /\ settlements'[t] = settlements[t]
    BY <1>1, SettledCreated DEF Grows
  <2>2. HasChain(t)
    BY <2>1 DEF Grows, HasChain
  <2>3. Due(t) /\ settlements[t] = Called(t)
    BY <1>1, <2>2 DEF DataInv, Follows
  <2>4. QED BY <2>1, <2>3, DueStays, CalledStays DEF DataInv
<1>2. CASE Due(t) /\ t \in Known /\ settlements'[t] = Called(t)
  BY <1>2, DueStays, CalledStays DEF DataInv
<1>3. QED BY <1>1, <1>2

(* Only promises that did not exist get a chain, of an older promise.      *)
LEMMA MoreChains ==
    ASSUME DataInv, settlements' = settlements, NEW n \in Nat,
           created' = created + n, created + n <= MaxTokens,
           chains' \in [Reference -> Chain \union {Unchained}],
           \A t \in Reference : t \notin created + 1 .. created + n => chains'[t] = chains[t],
           \A t \in created + 1 .. created + n : HasChain(t)' => chains'[t].parent \in 0 .. t - 1
    PROVE  DataInv' /\ Grows
<1>1. Promises /\ created \in 0 .. MaxTokens /\ MaxTokens \in Nat /\ created \in Nat
  BY KnownTokens DEF DataInv, Promises
<1>2. created' \in created .. MaxTokens /\ created' \in 0 .. MaxTokens
  BY <1>1
<1>3. Promises'
  BY <1>1, <1>2 DEF Promises
<1>4. Grows
  <2>1. \A t \in Known : t \in Reference /\ t \notin created + 1 .. created + n
    BY <1>1, KnownTokens
  <2>2. QED BY <1>1, <1>2, <2>1 DEF Grows
<1>5. Blank'
  <2> SUFFICES ASSUME NEW t \in Reference, t \notin Created'
               PROVE  ~IsSettled(t)' /\ ~HasChain(t)'
    BY DEF Blank
  <2>1. t \notin Created /\ t \notin created + 1 .. created + n
    BY <1>1 DEF Created, Reference
  <2>2. QED BY <2>1 DEF DataInv, Blank, IsSettled, HasChain
<1>6. Hung'
  <2> SUFFICES ASSUME NEW t \in Reference, HasChain(t)'
               PROVE  chains'[t].parent \in 0 .. t - 1
    BY DEF Hung
  <2>1. CASE t \in created + 1 .. created + n
    BY <2>1
  <2>2. CASE t \notin created + 1 .. created + n
    BY <2>2 DEF DataInv, Hung, HasChain
  <2>3. QED BY <2>1, <2>2
<1>7. Follows'
  <2>1. \A t \in Reference : IsSettled(t)' => IsSettled(t)
    BY DEF IsSettled
  <2>2. QED BY <1>3, <1>4, <2>1, FollowsStays
<1>8. QED BY <1>3, <1>4, <1>5, <1>6, <1>7 DEF DataInv

LEMMA SameData ==
    ASSUME DataInv, UNCHANGED <<created, settlements, chains>>
    PROVE  DataInv' /\ Grows
<1>1. created \in Nat /\ created <= MaxTokens
  BY KnownTokens DEF DataInv
<1>2. chains' \in [Reference -> Chain \union {Unchained}]
  BY DEF DataInv, Promises
<1>3. \A t \in created + 1 .. created + 0 : FALSE
  BY <1>1
<1>4. QED BY <1>1, <1>2, <1>3, MoreChains

LEMMA PendingData ==
    ASSUME DataInv, NewPending
    PROVE  DataInv' /\ Grows
<1>1. /\ created \in Nat /\ created + 1 <= MaxTokens /\ MaxTokens \in Nat /\ created' = created + 1
      /\ settlements' = settlements /\ chains' = chains
  BY KnownTokens DEF DataInv, NewPending
<1>2. chains' \in [Reference -> Chain \union {Unchained}]
  BY <1>1 DEF DataInv, Promises
<1>3. \A t \in created + 1 .. created + 1 : ~HasChain(t)'
  BY <1>1, BoundsAssumption DEF DataInv, Blank, HasChain, Created, Reference
<1>4. QED BY <1>1, <1>2, <1>3, MoreChains

(* One promise more, with a chain.                                         *)
ChainedBy(kind, parent, f, r) ==
    /\ kind \in {"then", "finally"} /\ parent \in Known
    /\ f \in Handler /\ r \in Handler
    /\ NewChained(kind, parent, f, r)

LEMMA ChainedData ==
    ASSUME DataInv, NEW kind, NEW p, NEW f, NEW r, ChainedBy(kind, p, f, r)
    PROVE  /\ DataInv' /\ Grows /\ created' = created + 1 /\ created < MaxTokens
           /\ settlements' = settlements
           /\ chains'[created + 1] # Unchained
           /\ chains'[created + 1].kind = kind /\ chains'[created + 1].parent = p
           /\ chains'[created + 1].fulfilled = f
<1>1. PICK c, n : c = Reaction(kind, p, f, r) /\ n = created + 1
  OBVIOUS
<1>2. /\ created < MaxTokens /\ created' = n /\ chains' = [chains EXCEPT ![n] = c]
      /\ settlements' = settlements
  BY <1>1 DEF ChainedBy, NewChained
<1>3. /\ created \in Nat /\ MaxTokens \in Nat /\ n \in Token /\ n \in Reference
      /\ p \in Reference /\ p \in Nat /\ p <= created
  BY <1>1, <1>2, KnownTokens DEF DataInv, ChainedBy
<1>4. c \in Chain /\ c # Unchained /\ c.kind = kind /\ c.parent = p /\ c.fulfilled = f
  BY <1>1, <1>3, ReactionFields DEF ChainedBy
<1>5. /\ chains' \in [Reference -> Chain \union {Unchained}]
      /\ chains'[n] = c /\ \A t \in Reference \ {n} : chains'[t] = chains[t]
  BY <1>2, <1>3, <1>4 DEF DataInv, Promises
<1>6. p \in 0 .. n - 1
  BY <1>1, <1>3
<1>7. \A t : t \in created + 1 .. created + 1 <=> t = n
  BY <1>1, <1>3
<1>8. DataInv' /\ Grows
  BY <1>1, <1>2, <1>3, <1>4, <1>5, <1>6, <1>7, MoreChains
<1>9. QED BY <1>1, <1>2, <1>4, <1>5, <1>8

LEMMA SettledData ==
    ASSUME DataInv, NEW state \in Outcome, NEW v \in Plain, NewSettled(state, v)
    PROVE  /\ DataInv' /\ Grows /\ created' = created + 1 /\ created < MaxTokens
           /\ settlements'[created + 1] = [state |-> state, value |-> v]
           /\ \A t \in Known : settlements'[t] = settlements[t]
<1>1. PICK c, s : c = created + 1 /\ s = [state |-> state, value |-> v]
  OBVIOUS
<1>2. /\ Promises /\ created < MaxTokens /\ created \in 0 .. MaxTokens /\ created' = c
      /\ settlements' = [settlements EXCEPT ![c] = s] /\ chains' = chains
      /\ s \in Settlement /\ MaxTokens \in Nat /\ created \in Nat
  BY <1>1, KnownTokens DEF DataInv, Promises, NewSettled, Settlement
<1>3. c \in Reference /\ c \notin Created /\ c \notin Known /\ ~IsSettled(c) /\ ~HasChain(c)
  <2>1. c \in Reference /\ c \notin Known /\ c \notin Created
    BY <1>1, <1>2, KnownTokens
  <2>2. QED BY <2>1 DEF DataInv, Blank
<1>4. settlements'[c] = s /\ \A t \in Reference \ {c} : settlements'[t] = settlements[t]
  BY <1>2, <1>3 DEF Promises
<1>5. created' \in 0 .. MaxTokens /\ created' \in created .. MaxTokens
  BY <1>1, <1>2
<1>6. Promises'
  BY <1>2, <1>3, <1>5 DEF Promises
<1>7. \A t \in Known : t \in Reference /\ t # c
  BY <1>2, <1>3, KnownTokens
<1>8. Grows
  <2>1. \A t \in Reference : IsSettled(t) => settlements'[t] = settlements[t]
    BY <1>3, <1>4
  <2>2. QED BY <1>2, <1>5, <2>1 DEF Grows
<1>9. Blank'
  <2> SUFFICES ASSUME NEW t \in Reference, t \notin Created'
               PROVE  ~IsSettled(t)' /\ ~HasChain(t)'
    BY DEF Blank
  <2>1. t \notin Created /\ t # c
    BY <1>1, <1>2 DEF Created
  <2>2. QED BY <1>2, <1>4, <2>1 DEF DataInv, Blank, IsSettled, HasChain
<1>10. Hung'
  BY <1>2 DEF DataInv, Hung, HasChain
<1>11. Follows'
  <2>1. ASSUME NEW t \in Reference, IsSettled(t)', HasChain(t)'
        PROVE  IsSettled(t)
    BY <1>2, <1>3, <1>4, <2>1 DEF IsSettled, HasChain
  <2>2. QED BY <1>6, <1>8, <2>1, FollowsStays
<1>12. QED BY <1>1, <1>2, <1>4, <1>6, <1>7, <1>8, <1>9, <1>10, <1>11 DEF DataInv

(* t is settled as its handler calls for.                                  *)
Settling(t, s) ==
    /\ t \in Known /\ ~IsSettled(t) /\ Due(t)
    /\ s \in Settlement /\ s = Called(t)
    /\ settlements' = [settlements EXCEPT ![t] = s]
    /\ UNCHANGED <<created, chains>>

LEMMA SettlingData ==
    ASSUME DataInv, NEW t, NEW s, Settling(t, s)
    PROVE  /\ DataInv' /\ Grows /\ IsSettled(t)'
           /\ \A x \in Reference : x # t => settlements'[x] = settlements[x]
<1>1. /\ Promises /\ created \in 0 .. MaxTokens /\ MaxTokens \in Nat
      /\ t \in Reference /\ t \in Known /\ t \in Created
      /\ created' = created /\ chains' = chains
  <2>1. Promises /\ t \in Known /\ t \in Reference
    BY KnownTokens DEF DataInv, Settling
  <2>2. t \in Created
    BY <2>1, SettledCreated DEF Settling, Due
  <2>3. QED BY <2>1, <2>2, BoundsAssumption DEF Promises, Settling
<1>2. settlements'[t] = s /\ \A x \in Reference \ {t} : settlements'[x] = settlements[x]
  BY <1>1 DEF Promises, Settling
<1>3. s # Unsettled /\ s \in Settlement /\ s = Called(t)
  BY SettlementFields DEF Settling
<1>4. Promises'
  BY <1>1, <1>3 DEF Promises, Settling
<1>5. Grows
  <2>1. created' \in created .. MaxTokens
    BY <1>1
  <2>2. \A x \in Reference : IsSettled(x) => settlements'[x] = settlements[x]
    BY <1>2 DEF Settling
  <2>3. QED BY <1>1, <2>1, <2>2 DEF Grows
<1>6. Blank'
  BY <1>1, <1>2 DEF DataInv, Blank, IsSettled, HasChain, Created
<1>7. Hung'
  BY <1>1 DEF DataInv, Hung, HasChain
<1>8. Follows'
  <2>1. ASSUME NEW x \in Reference, IsSettled(x)', HasChain(x)'
        PROVE  \/ IsSettled(x)
               \/ Due(x) /\ x \in Known /\ settlements'[x] = Called(x)
    <3>1. CASE x = t
      BY <1>1, <1>2, <1>3, <3>1 DEF Settling
    <3>2. CASE x # t
      BY <1>2, <2>1, <3>2 DEF IsSettled
    <3>3. QED BY <3>1, <3>2
  <2>2. QED BY <1>4, <1>5, <2>1, FollowsStays
<1>9. QED BY <1>2, <1>3, <1>4, <1>5, <1>6, <1>7, <1>8 DEF DataInv, IsSettled

-----------------------------------------------------------------------------
(* The call stack.                                                         *)

(* When r is settled, it will be with s.                                   *)
Gives(r, s) ==
    /\ r \in Known
    /\ \/ IsSettled(r) /\ settlements[r] = s
       \/ /\ Due(r) /\ chains[r].kind = "then"
          /\ HandlerOf(r) \in Code /\ ResultOf(HandlerOf(r)) = s

(* What a frame whose handler was inlined waits for.                       *)
Waits(f) ==
    LET h == HandlerOf(f.token) IN
    \/ /\ f.stage = "making" /\ h.ends \in InPlace
       /\ f.on \in Known /\ settlements[f.on] = Fulfilled(h.value)
    \/ f.stage = "leaving" /\ h.ends = "then"
    \/ f.stage = "awaiting" /\ h.ends = "await" /\ Gives(f.on, Result[h.next])
    \/ f.stage = "returning" /\ h.ends \in {"await", "forward"} /\ Gives(f.on, ResultOf(h))

Fit(f) ==
    /\ f \in Frame /\ f.token \in Known
    /\ f.stage # "start" => Due(f.token) /\ Waits(f)

Fits(s) == \A i \in 1 .. Len(s) : Fit(s[i])
Open(s) == \A i \in 1 .. Len(s) : ~IsSettled(s[i].token)
Apart(s) == \A i, j \in 1 .. Len(s) : s[i].token = s[j].token => i = j
Falls(s) ==
    \A i, j \in 1 .. Len(s) : i < j /\ ~Due(s[j].token) => s[j].token < s[i].token

Stack(s) == s \in Seq(Frame) /\ Fits(s) /\ Open(s) /\ Apart(s) /\ Falls(s)

LEMMA DueHandler ==
    ASSUME DataInv, NEW t \in Reference, Due(t)
    PROVE  /\ HandlerOf(t) \in Handler /\ t \in Known /\ t \in Created /\ t \in Token
           /\ chains[t].parent \in Reference /\ settlements[chains[t].parent] \in Settlement
           /\ HandlerOf(t).ends # "none" => HandlerOf(t) \in Code
BY HandlerType, HandlerFields, SettledCreated, SettledIn DEF DataInv, Due

LEMMA GivesStays ==
    ASSUME DataInv, Grows, NEW r, NEW s, Gives(r, s)
    PROVE  Gives(r, s)'
<1>1. r \in Known /\ r \in Known' /\ r \in Reference /\ Promises
  BY KnownTokens, GrowsKnown DEF Gives, DataInv
<1>2. CASE IsSettled(r) /\ settlements[r] = s
  BY <1>1, <1>2 DEF Grows, Gives, IsSettled
<1>3. CASE /\ Due(r) /\ chains[r].kind = "then"
           /\ HandlerOf(r) \in Code /\ ResultOf(HandlerOf(r)) = s
  <2>1. Due(r)' /\ HandlerOf(r)' = HandlerOf(r) /\ chains'[r] = chains[r]
    BY <1>1, <1>3, DueStays
  <2>2. QED BY <1>1, <1>3, <2>1 DEF Gives
<1>4. QED BY <1>2, <1>3 DEF Gives

LEMMA GivesSettled ==
    ASSUME DataInv, NEW r, NEW s, Gives(r, s), IsSettled(r)
    PROVE  settlements[r] = s /\ r \in Reference
<1>1. r \in Reference
  BY KnownTokens DEF Gives, DataInv
<1>2. CASE /\ Due(r) /\ chains[r].kind = "then"
           /\ HandlerOf(r) \in Code /\ ResultOf(HandlerOf(r)) = s
  <2>1. HandlerOf(r) # NoHandler
    BY <1>2, CodeFields
  <2>2. settlements[r] = Called(r)
    BY <1>1, <1>2 DEF DataInv, Follows, Due
  <2>3. Called(r) = Completion(r, s)
    BY <1>2, <2>1 DEF Called
  <2>4. Completion(r, s) = s
    BY <1>2 DEF Completion
  <2>5. QED BY <1>1, <2>2, <2>3, <2>4
<1>3. QED BY <1>1, <1>2 DEF Gives

LEMMA FitStays ==
    ASSUME DataInv, Grows, NEW f, Fit(f)
    PROVE  Fit(f)'
<1>1. /\ f \in Frame /\ f.token \in Known /\ f.token \in Known' /\ f.token \in Reference
      /\ Promises
  BY GrowsKnown, KnownTokens DEF Fit, DataInv
<1>2. CASE f.stage = "start"
  BY <1>1, <1>2 DEF Fit
<1>3. CASE f.stage # "start"
  <2>1. PICK h : h = HandlerOf(f.token)
    OBVIOUS
  <2>2. Due(f.token) /\ Waits(f) /\ Due(f.token)' /\ HandlerOf(f.token)' = h
    BY <1>1, <1>3, <2>1, DueStays DEF Fit
  <2>3. CASE /\ f.stage = "making" /\ h.ends \in InPlace
             /\ f.on \in Known /\ settlements[f.on] = Fulfilled(h.value)
    <3>1. f.on \in Known' /\ f.on \in Reference
      BY <1>1, <2>3, GrowsKnown, KnownTokens
    <3>2. settlements[f.on] # Unsettled
      BY <2>3 DEF Fulfilled, Unsettled
    <3>3. settlements'[f.on] = settlements[f.on]
      BY <3>1, <3>2 DEF Grows, IsSettled
    <3>4. Waits(f)'
      BY <2>2, <2>3, <3>1, <3>3 DEF Waits
    <3>5. QED BY <1>1, <2>2, <3>4 DEF Fit
  <2>4. CASE f.stage = "leaving" /\ h.ends = "then"
    BY <1>1, <2>2, <2>4 DEF Waits, Fit
  <2>5. ASSUME f.stage = "awaiting", h.ends = "await", Gives(f.on, Result[h.next])
        PROVE  Fit(f)'
    <3>1. PICK s : s = Result[h.next]
      OBVIOUS
    <3>2. Gives(f.on, s)'
      BY <2>5, <3>1, GivesStays
    <3>3. Waits(f)'
      BY <2>2, <2>5, <3>1, <3>2 DEF Waits
    <3>4. QED BY <1>1, <2>2, <3>3 DEF Fit
  <2>6. ASSUME f.stage = "returning", h.ends \in {"await", "forward"}, Gives(f.on, ResultOf(h))
        PROVE  Fit(f)'
    <3>1. PICK s : s = ResultOf(h)
      OBVIOUS
    <3>2. Gives(f.on, s)'
      BY <2>6, <3>1, GivesStays
    <3>3. Waits(f)'
      BY <2>2, <2>6, <3>1, <3>2 DEF Waits
    <3>4. QED BY <1>1, <2>2, <3>3 DEF Fit
  <2>7. QED BY <2>1, <2>2, <2>3, <2>4, <2>5, <2>6 DEF Waits
<1>4. QED BY <1>2, <1>3

LEMMA StackStays ==
    ASSUME DataInv, Grows, NEW s, Stack(s), Open(s)'
    PROVE  Stack(s)'
<1>1. Fits(s)'
  BY FitStays DEF Stack, Fits
<1>2. Falls(s)'
  <2> SUFFICES ASSUME NEW i \in 1 .. Len(s), NEW j \in 1 .. Len(s), i < j, ~Due(s[j].token)'
               PROVE  s[j].token < s[i].token
    BY DEF Falls
  <2>1. s[j].token \in Known
    BY DEF Stack, Fits, Fit
  <2>2. ~Due(s[j].token)
    BY <2>1, DueStays DEF DataInv
  <2>3. QED BY <2>2 DEF Stack, Falls
<1>3. QED BY <1>1, <1>2 DEF Stack, Apart

(* t is s with x on top.                                                   *)
Grown(s, t, x) ==
    /\ Len(s) \in Nat /\ Len(t) = Len(s) + 1 /\ t[Len(s) + 1] = x
    /\ \A i \in 1 .. Len(s) : t[i] = s[i]

LEMMA Appended ==
    ASSUME NEW S, NEW s, s \in Seq(S), NEW x \in S
    PROVE  Append(s, x) \in Seq(S) /\ Grown(s, Append(s, x), x)
<1>1. PICK t : t = Append(s, x)
  OBVIOUS
<1>2. /\ t \in Seq(S) /\ Len(t) = Len(s) + 1 /\ t[Len(s) + 1] = x
      /\ \A i \in 1 .. Len(s) : t[i] = s[i]
  BY <1>1, AppendProperties
<1>3. Len(s) \in Nat
  BY LenProperties
<1>4. QED BY <1>1, <1>2, <1>3 DEF Grown

Under(s) == SubSeq(s, 1, Len(s) - 1)

LEMMA UnderTop ==
    ASSUME NEW S, NEW s, s \in Seq(S), s # << >>
    PROVE  /\ Under(s) \in Seq(S) /\ Len(s) \in Nat \ {0}
           /\ Grown(Under(s), s, s[Len(s)]) /\ s[Len(s)] \in S
<1>1. PICK n, b : n = Len(s) /\ b = Under(s)
  OBVIOUS
<1>2. n \in Nat \ {0}
  BY <1>1, EmptySeq, LenProperties
<1>3. \A i \in 1 .. (n - 1) : s[i] \in S
  BY <1>1, <1>2, ElementOfSeq
<1>4. b \in Seq(S) /\ Len(b) = n - 1 /\ \A i \in 1 .. (n - 1) : b[i] = s[i]
  <2>1. b = SubSeq(s, 1, n - 1)
    BY <1>1 DEF Under
  <2>2. 1 \in Int /\ n - 1 \in Int /\ (n - 1) - 1 + 1 = n - 1
    BY <1>2
  <2>3. /\ b \in Seq(S) /\ Len(b) = IF 1 <= n - 1 THEN (n - 1) - 1 + 1 ELSE 0
        /\ \A i \in 1 .. (n - 1) - 1 + 1 : b[i] = s[1 + i - 1]
    BY <1>3, <2>1, <2>2, SubSeqProperties
  <2>4. Len(b) = n - 1
    BY <1>2, <2>3
  <2>5. \A i \in 1 .. (n - 1) : b[i] = s[i]
    BY <1>2, <2>3
  <2>6. QED BY <2>3, <2>4, <2>5
<1>5. s[n] \in S
  BY <1>1, <1>2, ElementOfSeq
<1>6. QED BY <1>1, <1>2, <1>4, <1>5 DEF Grown

LEMMA StackBelow ==
    ASSUME NEW s, Stack(s), s # << >>
    PROVE  Stack(Under(s))
<1>1. PICK b, f : b = Under(s) /\ f = s[Len(s)]
  OBVIOUS
<1>2. b \in Seq(Frame) /\ Grown(b, s, f)
  BY <1>1, UnderTop DEF Stack
<1>3. \A i \in 1 .. Len(b) : i \in 1 .. Len(s) /\ b[i] = s[i]
  BY <1>2 DEF Grown
<1>4. Fits(b) /\ Open(b)
  BY <1>3 DEF Stack, Fits, Open
<1>5. Apart(b) /\ Falls(b)
  BY <1>3 DEF Stack, Apart, Falls
<1>6. QED BY <1>1, <1>2, <1>4, <1>5 DEF Stack

(* A frame is pushed for a promise older than those of all frames below,   *)
(* or for a reaction on a settled promise that has no frame yet.           *)
Fresh(s, f) ==
    \/ \A i \in 1 .. Len(s) : f.token < s[i].token
    \/ Due(f.token) /\ \A i \in 1 .. Len(s) : f.token # s[i].token

LEMMA StackPushed ==
    ASSUME NEW s, Stack(s), NEW t, NEW f, f \in Frame, Grown(s, t, f), t \in Seq(Frame),
           f.token \in Known, created \in Nat, ~IsSettled(f.token), f.stage = "start", Fresh(s, f)
    PROVE  Stack(t)
<1>1. \A i \in 1 .. Len(t) : \/ i = Len(s) + 1 /\ t[i] = f
                             \/ i \in 1 .. Len(s) /\ t[i] = s[i]
  BY DEF Grown
<1>2. Fits(t)
  BY <1>1 DEF Stack, Fits, Fit
<1>3. Open(t)
  BY <1>1 DEF Stack, Open
<1>4. \A i \in 1 .. Len(s) : f.token # s[i].token
  <2>1. f.token \in Nat
    BY DEF Known
  <2>2. QED BY <2>1 DEF Fresh
<1>5. Apart(t)
  <2> SUFFICES ASSUME NEW i \in 1 .. Len(t), NEW j \in 1 .. Len(t), t[i].token = t[j].token
               PROVE  i = j
    BY DEF Apart
  <2>1. CASE i \in 1 .. Len(s) /\ j \in 1 .. Len(s)
    BY <1>1, <2>1 DEF Stack, Apart, Grown
  <2>2. QED BY <1>1, <1>4, <2>1
<1>6. Falls(t)
  <2> SUFFICES ASSUME NEW i \in 1 .. Len(t), NEW j \in 1 .. Len(t), i < j, ~Due(t[j].token)
               PROVE  t[j].token < t[i].token
    BY DEF Falls
  <2>1. i \in 1 .. Len(s) /\ t[i] = s[i]
    BY <1>1 DEF Grown
  <2>2. CASE j \in 1 .. Len(s) /\ t[j] = s[j]
    BY <2>1, <2>2 DEF Stack, Falls
  <2>3. CASE t[j] = f
    BY <2>1, <2>3 DEF Fresh
  <2>4. QED BY <1>1, <2>2, <2>3
<1>7. QED BY <1>2, <1>3, <1>5, <1>6 DEF Stack

(* The frame on top of s becomes f, for the same token.                    *)
Restaged(s, t, f) ==
    /\ s # << >> /\ t \in Seq(Frame) /\ Grown(Under(s), t, f)
    /\ f.token = s[Len(s)].token

LEMMA StackRestaged ==
    ASSUME NEW s, Stack(s), NEW t, NEW f, Restaged(s, t, f), Fit(f)
    PROVE  Stack(t)
<1>1. PICK b, n : b = Under(s) /\ n = Len(s)
  OBVIOUS
<1>2. /\ n \in Nat \ {0} /\ Len(b) = n - 1 /\ Len(t) = n /\ t[n] = f
      /\ \A i \in 1 .. (n - 1) : t[i] = s[i]
  <2>1. b \in Seq(Frame) /\ n \in Nat \ {0} /\ Grown(b, s, s[n])
    BY <1>1, UnderTop DEF Stack, Restaged
  <2>2. Grown(b, t, f)
    BY <1>1 DEF Restaged
  <2>3. QED BY <1>1, <2>1, <2>2 DEF Grown
<1>3. \A i \in 1 .. n : t[i].token = s[i].token
  BY <1>1, <1>2 DEF Restaged
<1>4. Fits(t)
  BY <1>1, <1>2 DEF Stack, Fits
<1>5. Open(t) /\ Apart(t) /\ Falls(t)
  BY <1>1, <1>2, <1>3 DEF Stack, Open, Apart, Falls
<1>6. QED BY <1>4, <1>5 DEF Stack, Restaged

StackPushes ==
    \A s, t, f :
        /\ Stack(s) /\ f \in Frame /\ Grown(s, t, f) /\ t \in Seq(Frame)
        /\ f.token \in Known /\ created \in Nat /\ ~IsSettled(f.token) /\ f.stage = "start"
        /\ Fresh(s, f)
        => Stack(t)

StackRestages ==
    \A s, t, f : Stack(s) /\ Restaged(s, t, f) /\ Fit(f) => Stack(t)

LEMMA AnyStackPushed == StackPushes
BY StackPushed DEF StackPushes

LEMMA AnyStackRestaged == StackRestages
BY StackRestaged DEF StackRestages

LEMMA LaterStacks == StackPushes' /\ StackRestages'
<1>1. StackPushes'
  BY AnyStackPushed, PTL
<1>2. StackRestages'
  BY AnyStackRestaged, PTL
<1>3. QED BY <1>1, <1>2

-----------------------------------------------------------------------------
(* The handlers inlined so far: each is that of a settled promise, or its  *)
(* frame is still at work.                                                 *)
At(x, s) == \E k \in 1 .. Len(s) : s[k].token = x /\ s[k].stage # "start"
Inlined(x) == IsSettled(x) \/ At(x, calls)

Once(q) == \A i, j \in 1 .. Len(q) : q[i] = q[j] => i = j

EmittedInv ==
    /\ emitted \in Seq(Token) /\ Once(emitted)
    /\ phase # "failed" => \A i \in 1 .. Len(emitted) : Inlined(emitted[i])

CInv == DataInv /\ Stack(calls) /\ EmittedInv

BottomKept ==
    \A x : calls # << >> /\ calls[1].token = x =>
        \/ phase' = "failed"
        \/ IsSettled(x)'
        \/ calls' # << >> /\ calls'[1].token = x

Good ==
    /\ CInv' /\ Grows /\ BottomKept
    /\ phase' = phase \/ (phase' = "failed" /\ calls' = << >>)

LEMMA EmptyStack == Stack(<< >>)
BY DEF Stack, Fits, Open, Apart, Falls

LEMMA NoStack ==
    ASSUME calls' = << >>
    PROVE  Stack(calls)'
BY DEF Stack, Fits, Open, Apart, Falls

(* Another token is inlined.                                               *)
LEMMA OneMore ==
    ASSUME EmittedInv, phase # "failed", NEW x \in Token, ~Inlined(x),
           emitted' = Append(emitted, x)
    PROVE  emitted' \in Seq(Token) /\ Once(emitted') /\ Grown(emitted, emitted', x)
<1>1. PICK q, r : q = emitted /\ r = emitted'
  OBVIOUS
<1>2. q \in Seq(Token) /\ Once(q) /\ \A i \in 1 .. Len(q) : q[i] # x
  BY <1>1 DEF EmittedInv
<1>3. r \in Seq(Token) /\ Grown(q, r, x)
  BY <1>1, <1>2, Appended
<1>4. Once(r)
  BY <1>2, <1>3 DEF Once, Grown
<1>5. QED BY <1>1, <1>3, <1>4

LEMMA EmittedStays ==
    ASSUME EmittedInv, phase # "failed", \A x \in Token : Inlined(x) => Inlined(x)',
           \/ emitted' = emitted
           \/ \E x \in Token : /\ emitted' = Append(emitted, x) /\ ~Inlined(x) /\ Inlined(x)'
    PROVE  EmittedInv'
<1>1. /\ emitted \in Seq(Token) /\ Once(emitted)
      /\ \A i \in 1 .. Len(emitted) : emitted[i] \in Token /\ Inlined(emitted[i]) /\ Inlined(emitted[i])'
  <2>1. emitted \in Seq(Token)
    BY DEF EmittedInv
  <2>2. \A i \in 1 .. Len(emitted) : emitted[i] \in Token
    BY <2>1, ElementOfSeq
  <2>3. Once(emitted) /\ \A i \in 1 .. Len(emitted) : Inlined(emitted[i])
    BY DEF EmittedInv
  <2>4. QED BY <2>1, <2>2, <2>3
<1>2. PICK q, r : q = emitted /\ r = emitted'
  OBVIOUS
<1>3. CASE r = q
  <2>1. r \in Seq(Token) /\ Once(r) /\ \A i \in 1 .. Len(r) : Inlined(r[i])'
    BY <1>1, <1>2, <1>3
  <2>2. QED BY <1>2, <2>1 DEF EmittedInv, Once
<1>4. ASSUME NEW x \in Token, r = Append(q, x), ~Inlined(x), Inlined(x)'
      PROVE  EmittedInv'
  <2>1. r \in Seq(Token) /\ Once(r) /\ Grown(q, r, x)
    BY <1>2, <1>4, OneMore
  <2>2. \A i \in 1 .. Len(q) : Inlined(q[i])'
    BY <1>1, <1>2
  <2>3. \A i \in 1 .. Len(r) : Inlined(r[i])'
    <3> SUFFICES ASSUME NEW i \in 1 .. Len(r)
                 PROVE  Inlined(r[i])'
      OBVIOUS
    <3>1. CASE i \in 1 .. Len(q)
      <4>1. r[i] = q[i]
        BY <2>1, <3>1 DEF Grown
      <4>2. QED BY <2>2, <3>1, <4>1
    <3>2. CASE i = Len(q) + 1
      <4>1. r[i] = x
        BY <2>1, <3>2 DEF Grown
      <4>2. QED BY <1>4, <4>1
    <3>3. QED BY <2>1, <3>1, <3>2 DEF Grown
  <2>4. QED BY <1>2, <2>1, <2>3 DEF EmittedInv, Once
<1>5. QED BY <1>2, <1>3, <1>4

LEMMA Fails ==
    ASSUME CInv, UNCHANGED <<created, settlements, chains>>,
           phase' = "failed", calls' = << >>, emitted' \in Seq(Token), Once(emitted')
    PROVE  Good
<1>1. DataInv' /\ Grows
  BY SameData DEF CInv
<1>2. Stack(calls)'
  BY NoStack
<1>3. EmittedInv'
  BY DEF EmittedInv, Once
<1>4. QED BY <1>1, <1>2, <1>3 DEF Good, CInv, BottomKept

LEMMA TopFrame ==
    ASSUME CInv, calls # << >>
    PROVE  /\ Top \in Frame /\ Fit(Top) /\ Top.token \in Known /\ Top.token \in Reference
           /\ ~IsSettled(Top.token)
           /\ Below = Under(calls) /\ Stack(Under(calls)) /\ Grown(Under(calls), calls, Top)
           /\ Len(calls) \in Nat \ {0} /\ Under(calls) \in Seq(Frame)
<1>1. PICK s : s = calls
  OBVIOUS
<1>2. Stack(s) /\ s \in Seq(Frame) /\ s # << >>
  BY <1>1 DEF CInv, Stack
<1>3. /\ Under(s) \in Seq(Frame) /\ Len(s) \in Nat \ {0}
      /\ Grown(Under(s), s, s[Len(s)]) /\ s[Len(s)] \in Frame
  BY <1>2, UnderTop
<1>4. Stack(Under(s))
  BY <1>2, StackBelow
<1>5. Fit(s[Len(s)]) /\ ~IsSettled(s[Len(s)].token)
  BY <1>2, <1>3 DEF Stack, Fits, Open
<1>6. s[Len(s)].token \in Known /\ s[Len(s)].token \in Reference
  BY <1>5, KnownTokens DEF Fit, CInv, DataInv
<1>7. QED BY <1>1, <1>3, <1>4, <1>5, <1>6 DEF Top, Below, Under

(* Each frame has a token of its own.                                      *)
LEMMA Alone ==
    ASSUME CInv, calls # << >>
    PROVE  \A i \in 1 .. Len(calls) : calls[i].token = Top.token => i = Len(calls)
<1>1. Len(calls) \in 1 .. Len(calls)
  BY TopFrame
<1>2. QED BY <1>1 DEF CInv, Stack, Apart, Top

LEMMA NotYetInlined ==
    ASSUME CInv, calls # << >>, Top.stage = "start"
    PROVE  ~Inlined(Top.token)
BY TopFrame, Alone DEF Inlined, At, Top

(* The frame on top is done: its token is settled.                         *)
LEMMA Pops ==
    ASSUME CInv, calls # << >>, phase # "failed", phase' = phase, calls' = Below,
           NEW s, Settling(Top.token, s),
           \/ emitted' = emitted
           \/ emitted' = Append(emitted, Top.token) /\ Top.stage = "start"
    PROVE  Good
<1>1. PICK old, b, f, n : old = calls /\ b = Under(calls) /\ f = Top /\ n = Len(calls)
  OBVIOUS
<1>2. /\ f.token \in Reference /\ Stack(b) /\ Grown(b, old, f) /\ calls' = b /\ n \in Nat \ {0}
      /\ f.token \in Known
  BY <1>1, TopFrame
<1>3. DataInv /\ Promises /\ DataInv' /\ Grows
      /\ \A x \in Reference : x # f.token => settlements'[x] = settlements[x]
  BY <1>1, SettlingData DEF CInv, DataInv
<1>4. f.token \in Token
  BY <1>1, <1>2, <1>3, SettledCreated DEF Settling, Due
<1>5. IsSettled(f.token)'
  BY <1>1, <1>3, SettlingData
<1>6. \A i \in 1 .. Len(b) : /\ i \in 1 .. n /\ b[i] = old[i] /\ i # n
                             /\ b[i].token # f.token
  <2>1. \A i \in 1 .. Len(b) : i \in 1 .. n /\ b[i] = old[i] /\ i # n
    BY <1>1, <1>2 DEF Grown
  <2>2. QED BY <1>1, <2>1, Alone
<1>7. Open(b)'
  <2> SUFFICES ASSUME NEW i \in 1 .. Len(b)
               PROVE  ~IsSettled(b[i].token)'
    BY DEF Open
  <2>1. ~IsSettled(b[i].token) /\ b[i].token \in Reference
    BY <1>2, <1>3, KnownTokens DEF Stack, Open, Fits, Fit
  <2>2. QED BY <1>3, <1>6, <2>1 DEF IsSettled
<1>8. Stack(calls)'
  <2>1. Stack(b)'
    BY <1>2, <1>3, <1>7, StackStays
  <2>2. QED BY <1>2, <2>1
<1>9. ASSUME NEW x \in Token, Inlined(x)
      PROVE  Inlined(x)'
  <2>1. CASE IsSettled(x)
    BY <1>3, <2>1, KnownTokens DEF Grows, Inlined, IsSettled
  <2>2. ASSUME NEW k \in 1 .. Len(old), old[k].token = x, old[k].stage # "start"
        PROVE  Inlined(x)'
    <3>1. CASE k = n
      BY <1>1, <1>5, <2>2, <3>1 DEF Inlined, Top
    <3>2. CASE k # n
      <4>1. k \in 1 .. Len(b) /\ b[k] = old[k]
        BY <1>1, <1>2, <3>2 DEF Grown
      <4>2. At(x, b)
        BY <2>2, <4>1 DEF At
      <4>3. At(x, calls)'
        BY <1>2, <4>2 DEF At
      <4>4. QED BY <4>3 DEF Inlined
    <3>3. QED BY <3>1, <3>2
  <2>3. QED BY <1>1, <1>9, <2>1, <2>2 DEF Inlined, At
<1>10. Inlined(f.token)'
  BY <1>5 DEF Inlined
<1>11. EmittedInv'
  <2>1. CASE emitted' = emitted
    BY <1>9, <2>1, EmittedStays DEF CInv
  <2>2. CASE emitted' = Append(emitted, f.token) /\ f.stage = "start"
    <3>1. ~Inlined(f.token)
      BY <1>1, <2>2, NotYetInlined
    <3>2. QED BY <1>4, <1>9, <1>10, <2>2, <3>1, EmittedStays DEF CInv
  <2>3. QED BY <1>1, <2>1, <2>2
<1>12. BottomKept
  <2>1. CASE n = 1
    <3>1. calls[1].token = f.token
      BY <1>1, <2>1 DEF Top
    <3>2. QED BY <1>5, <3>1 DEF BottomKept
  <2>2. CASE n # 1
    <3>1. 1 \in 1 .. Len(b) /\ b[1] = old[1]
      BY <1>1, <1>2, <2>2 DEF Grown
    <3>2. calls' # << >> /\ calls'[1].token = calls[1].token
      BY <1>1, <1>2, <3>1
    <3>3. QED BY <3>2 DEF BottomKept
  <2>3. QED BY <2>1, <2>2
<1>13. QED BY <1>3, <1>8, <1>11, <1>12 DEF Good, CInv

LEMMA KeptAt ==
    ASSUME NEW s, NEW t, NEW f, s = t \/ Grown(s, t, f), NEW x, At(x, s)
    PROVE  At(x, t)
<1>1. PICK k \in 1 .. Len(s) : s[k].token = x /\ s[k].stage # "start"
  BY DEF At
<1>2. k \in 1 .. Len(t) /\ t[k] = s[k]
  BY <1>1 DEF Grown
<1>3. QED BY <1>1, <1>2 DEF At

LEMMA SameBottom ==
    ASSUME NEW s, s # << >>, Len(s) \in Nat \ {0}, NEW t, NEW f, s = t \/ Grown(s, t, f)
    PROVE  t # << >> /\ t[1] = s[1]
<1>1. CASE Grown(s, t, f)
  <2>1. 1 \in 1 .. Len(s) /\ 1 \in 1 .. Len(t)
    BY <1>1 DEF Grown
  <2>2. t # << >>
    BY <2>1
  <2>3. QED BY <1>1, <2>1, <2>2 DEF Grown
<1>2. QED BY <1>1

(* The frame on top goes on, its handler inlined.                          *)
LEMMA GoesOn ==
    ASSUME CInv, calls # << >>, phase # "failed", phase' = phase,
           DataInv', Grows, Stack(calls)',
           NEW s, NEW f, NEW g, Restaged(calls, s, f), f.stage # "start",
           s = calls' \/ Grown(s, calls', g),
           \/ emitted' = emitted
           \/ emitted' = Append(emitted, Top.token) /\ Top.stage = "start" /\ Top.token \in Token
    PROVE  Good
<1>1. PICK old, t : old = calls /\ t = calls'
  OBVIOUS
<1>2. PICK n : n = Len(old)
  OBVIOUS
<1>3. n \in Nat \ {0} /\ Grown(Under(old), old, Top) /\ Top = old[n]
  BY <1>1, <1>2, TopFrame DEF Top
<1>4. /\ Grown(Under(old), s, f) /\ f.token = Top.token /\ s \in Seq(Frame)
  BY <1>1, <1>2, <1>3 DEF Restaged
<1>5. /\ Len(s) = n /\ s[n] = f /\ \A i \in 1 .. n : i # n => s[i] = old[i]
  BY <1>1, <1>2, <1>3, <1>4 DEF Grown
<1>6. \A i \in 1 .. n : s[i].token = old[i].token
  BY <1>3, <1>4, <1>5
<1>7. At(Top.token, s)
  BY <1>3, <1>4, <1>5 DEF At
<1>8. ASSUME NEW x, At(x, old)
      PROVE  At(x, s)
  <2>1. PICK k \in 1 .. n : old[k].token = x /\ old[k].stage # "start"
    BY <1>2, <1>8 DEF At
  <2>2. CASE k = n
    BY <1>3, <1>7, <2>1, <2>2
  <2>3. CASE k # n
    BY <1>5, <2>1, <2>3 DEF At
  <2>4. QED BY <2>2, <2>3
<1>9. ASSUME NEW x, At(x, s)
      PROVE  Inlined(x)'
  <2>1. At(x, t)
    BY <1>1, <1>9, KeptAt
  <2>2. At(x, calls)'
    BY <1>1, <2>1 DEF At
  <2>3. QED BY <2>2 DEF Inlined
<1>10. ASSUME NEW x \in Token, Inlined(x)
       PROVE  Inlined(x)'
  <2>1. CASE IsSettled(x)
    BY <2>1, KnownTokens DEF Grows, Inlined, IsSettled, CInv, DataInv
  <2>2. CASE At(x, calls)
    BY <1>1, <1>8, <1>9, <2>2
  <2>3. QED BY <1>10, <2>1, <2>2 DEF Inlined
<1>11. EmittedInv'
  <2>1. CASE emitted' = emitted
    BY <1>10, <2>1, EmittedStays DEF CInv
  <2>2. CASE emitted' = Append(emitted, Top.token) /\ Top.stage = "start" /\ Top.token \in Token
    <3>1. ~Inlined(Top.token)
      BY <2>2, NotYetInlined
    <3>2. PICK x \in Token : emitted' = Append(emitted, x) /\ ~Inlined(x) /\ x = Top.token
      BY <2>2, <3>1
    <3>3. Inlined(x)'
      BY <1>7, <1>9, <3>2
    <3>4. QED BY <1>10, <3>2, <3>3, EmittedStays DEF CInv
  <2>3. QED BY <2>1, <2>2
<1>12. BottomKept
  <2>1. 1 \in 1 .. n /\ s # << >> /\ Len(s) \in Nat \ {0}
    BY <1>3, <1>5
  <2>2. t # << >> /\ t[1] = s[1]
    BY <1>1, <2>1, SameBottom
  <2>3. s[1].token = old[1].token
    BY <1>6, <2>1
  <2>4. QED BY <1>1, <2>2, <2>3 DEF BottomKept
<1>13. QED BY <1>11, <1>12 DEF Good, CInv

-----------------------------------------------------------------------------
(* The steps of a frame at work.                                           *)

(* resolve_promise(t) on the stack s: t is settled, or gets a frame.       *)
Resolved(t, s) ==
    phase' = phase /\ (calls' = s \/ Grown(s, calls', NewFrame(t, TRUE)))

LEMMA NewFrameFields ==
    ASSUME NEW t \in Reference, NEW tracked \in BOOLEAN
    PROVE  /\ NewFrame(t, tracked) \in Frame /\ NewFrame(t, tracked).token = t
           /\ NewFrame(t, tracked).stage = "start"
<1>1. 0 \in Reference
  BY BoundsAssumption DEF Reference
<1>2. QED BY <1>1 DEF NewFrame, Frame

LEMMA Resolves ==
    ASSUME DataInv, UNCHANGED <<created, settlements, chains>>,
           NEW t \in Known, NEW s, Stack(s), ResolvePromise(t, s),
           ~IsSettled(t) => \A i \in 1 .. Len(s) : t < s[i].token
    PROVE  /\ Resolved(t, s) \/ (phase' = "failed" /\ calls' = << >>)
           /\ Stack(calls)'
<1>1. PICK f : f = NewFrame(t, TRUE)
  OBVIOUS
<1>2. t \in Reference /\ f \in Frame /\ f.token = t /\ f.stage = "start"
  <2>1. t \in Reference
    BY KnownTokens DEF DataInv
  <2>2. QED BY <1>1, <2>1, NewFrameFields
<1>3. Grows
  BY SameData
<1>4. ASSUME NEW r, Stack(r)
      PROVE  Stack(r)'
  <2>1. Open(r)'
    BY <1>4 DEF Stack, Open, IsSettled
  <2>2. QED BY <1>3, <1>4, <2>1, StackStays
<1>5. CASE IsSettled(t) /\ calls' = s /\ UNCHANGED phase
  <2>1. Stack(s)'
    BY <1>4
  <2>2. QED BY <1>5, <2>1 DEF Resolved
<1>6. CASE ~IsSettled(t) /\ calls' = Append(s, f) /\ UNCHANGED phase
  <2>1. PICK r : r = Append(s, f)
    OBVIOUS
  <2>2. r \in Seq(Frame) /\ Grown(s, r, f)
    BY <1>2, <2>1, Appended DEF Stack
  <2>3. Fresh(s, f) /\ created \in Nat
    BY <1>2, <1>6, KnownTokens DEF Fresh, DataInv
  <2>4. Stack(r)
    BY <1>2, <1>6, <2>2, <2>3, StackPushed
  <2>5. Stack(r)'
    BY <1>4, <2>4
  <2>6. QED BY <1>1, <1>6, <2>1, <2>2, <2>5 DEF Resolved
<1>7. CASE phase' = "failed" /\ calls' = << >>
  BY <1>7, NoStack
<1>8. QED BY <1>1, <1>5, <1>6, <1>7 DEF ResolvePromise

LEMMA NoChainGood ==
    ASSUME CInv, NoChain
    PROVE  Good
BY Fails DEF NoChain, CInv, EmittedInv

LEMMA ResolveParentGood ==
    ASSUME CInv, ResolveParent
    PROVE  Good
<1>1. PICK s, f, p : s = calls /\ f = Top /\ p = chains[f.token].parent
  OBVIOUS
<1>2. /\ s # << >> /\ phase # "failed" /\ HasChain(f.token) /\ ~IsSettled(p)
      /\ ResolvePromise(p, s) /\ UNCHANGED <<created, settlements, chains, emitted>>
  BY <1>1 DEF ResolveParent, Busy
<1>3. /\ DataInv /\ Stack(s) /\ s[Len(s)] = f /\ Len(s) \in Nat \ {0}
      /\ f.token \in Known /\ f.token \in Reference /\ f.token \in Nat
  BY <1>1, <1>2, TopFrame, KnownTokens DEF CInv, DataInv, Top
<1>4. p \in 0 .. f.token - 1 /\ p \in Known /\ p < f.token
  <2>1. p \in 0 .. f.token - 1
    BY <1>1, <1>2, <1>3 DEF DataInv, Hung
  <2>2. f.token <= created /\ created \in Nat
    BY <1>3, KnownTokens DEF DataInv
  <2>3. QED BY <1>3, <2>1, <2>2 DEF Known
<1>5. \A i \in 1 .. Len(s) : p < s[i].token
  <2> SUFFICES ASSUME NEW i \in 1 .. Len(s)
               PROVE  p < s[i].token
    OBVIOUS
  <2>1. s[i].token \in Nat
    BY <1>3, KnownTokens DEF Stack, Fits, Fit, DataInv
  <2>2. i # Len(s) => f.token < s[i].token
    BY <1>1, <1>2, <1>3 DEF Stack, Falls, Due
  <2>3. QED BY <1>3, <1>4, <2>1, <2>2
<1>6. (Resolved(p, s) \/ (phase' = "failed" /\ calls' = << >>)) /\ Stack(calls)'
  BY <1>2, <1>3, <1>4, <1>5, Resolves
<1>7. CASE phase' = "failed" /\ calls' = << >>
  <2>1. emitted' \in Seq(Token) /\ Once(emitted')
    BY <1>2 DEF CInv, EmittedInv
  <2>2. QED BY <1>2, <1>7, <2>1, Fails
<1>8. CASE Resolved(p, s)
  <2>1. PICK t, g : t = calls' /\ g = NewFrame(p, TRUE)
    OBVIOUS
  <2>2. (s = t \/ Grown(s, t, g)) /\ phase' = phase
    BY <1>8, <2>1 DEF Resolved
  <2>3. DataInv' /\ Grows
    BY <1>2, <1>3, SameData
  <2>4. ASSUME NEW x \in Token, Inlined(x)
        PROVE  Inlined(x)'
    <3>1. IsSettled(x) => IsSettled(x)'
      BY <1>2 DEF IsSettled
    <3>2. At(x, s) => At(x, t)
      BY <2>2, KeptAt
    <3>3. At(x, calls) => At(x, calls)'
      BY <1>1, <2>1, <3>2 DEF At
    <3>4. QED BY <2>4, <3>1, <3>3 DEF Inlined
  <2>5. EmittedInv'
    BY <1>2, <2>4, EmittedStays DEF CInv
  <2>6. BottomKept
    <3>1. t # << >> /\ t[1] = s[1]
      BY <1>2, <1>3, <2>2, SameBottom
    <3>2. QED BY <1>1, <2>1, <3>1 DEF BottomKept
  <2>7. QED BY <1>6, <2>2, <2>3, <2>5, <2>6 DEF Good, CInv
<1>9. QED BY <1>6, <1>7, <1>8

(* What a frame settles its token with is what its handler calls for.      *)
LEMMA CompletionType ==
    ASSUME DataInv, NEW t \in Reference, Due(t), NEW s \in Settlement
    PROVE  Completion(t, s) \in Settlement
BY DueHandler DEF Completion

LEMMA FinishSettles ==
    ASSUME CInv, calls # << >>, Due(Top.token), UNCHANGED <<created, chains>>,
           NEW s \in Settlement, s = Called(Top.token), Finish(s)
    PROVE  Settling(Top.token, s) /\ calls' = Below
BY TopFrame DEF Finish, Settling

(* The frame on top, its parent settled and its handler not inlined yet.   *)
LEMMA Applies ==
    ASSUME CInv, MayApply
    PROVE  /\ calls # << >> /\ phase # "failed" /\ Top.stage = "start"
           /\ Due(Top.token) /\ Top.token \in Token /\ Top.token \in Reference
           /\ HandlerOf(Top.token) \in Handler
           /\ HandlerOf(Top.token).ends # "none" => HandlerOf(Top.token) \in Code
           /\ settlements[chains[Top.token].parent] \in Settlement
<1>1. calls # << >> /\ phase # "failed" /\ Top.stage = "start" /\ Due(Top.token)
  BY DEF MayApply, Busy, Due
<1>2. Top.token \in Reference
  BY <1>1, TopFrame
<1>3. QED BY <1>1, <1>2, DueHandler DEF CInv

LEMMA DefaultGood ==
    ASSUME CInv, DefaultHandler
    PROVE  Good
<1>1. PICK t, s : t = Top.token /\ s = settlements[chains[t].parent]
  OBVIOUS
<1>2. /\ calls # << >> /\ phase # "failed" /\ phase' = phase /\ HandlerOf(t) = NoHandler
      /\ Due(t) /\ s \in Settlement /\ Finish(s) /\ UNCHANGED <<created, chains, emitted>>
  BY <1>1, Applies DEF DefaultHandler
<1>3. s = Called(t)
  BY <1>1, <1>2 DEF Called
<1>4. Settling(Top.token, s) /\ calls' = Below
  BY <1>1, <1>2, <1>3, FinishSettles
<1>5. QED BY <1>2, <1>4, Pops

LEMMA PlainGood ==
    ASSUME CInv, InlinePlain
    PROVE  Good
<1>1. PICK t, h : t = Top.token /\ h = HandlerOf(t)
  OBVIOUS
<1>2. PICK s : s = Completion(t, Plainly(h))
  OBVIOUS
<1>3. /\ calls # << >> /\ phase # "failed" /\ phase' = phase /\ h.ends \in {"return", "throw"}
      /\ Due(t) /\ t \in Reference /\ h \in Code
      /\ Finish(s) /\ UNCHANGED <<created, chains>> /\ emitted' = Append(emitted, Top.token)
      /\ Top.stage = "start"
  BY <1>1, <1>2, Applies DEF InlinePlain
<1>4. h # NoHandler /\ h.value \in Plain
  BY <1>3, CodeFields
<1>5. Plainly(h) = ResultOf(h)
  BY <1>3 DEF Plainly, ResultOf, Fulfilled
<1>6. s \in Settlement
  BY <1>2, <1>3, <1>5, Results, CompletionType DEF CInv
<1>7. s = Called(t)
  BY <1>1, <1>2, <1>4, <1>5 DEF Called
<1>8. Settling(Top.token, s) /\ calls' = Below
  BY <1>1, <1>3, <1>6, <1>7, FinishSettles
<1>9. QED BY <1>3, <1>8, Pops

LEMMA InlinePromiseGood ==
    ASSUME CInv, InlinePromise
    PROVE  Good
<1>1. /\ calls # << >> /\ phase # "failed" /\ Top.stage = "start" /\ Top.token \in Token
      /\ phase' = "failed" /\ calls' = << >> /\ emitted' = Append(emitted, Top.token)
      /\ UNCHANGED <<created, settlements, chains>>
  BY Applies DEF InlinePromise
<1>2. ~Inlined(Top.token)
  BY <1>1, NotYetInlined
<1>3. emitted' \in Seq(Token) /\ Once(emitted')
  BY <1>1, <1>2, OneMore DEF CInv
<1>4. QED BY <1>1, <1>3, Fails

(* A frame in a later stage settles its token with what its handler gave.  *)
LEMMA Completes ==
    ASSUME CInv, calls # << >>, phase # "failed", phase' = phase, emitted' = emitted,
           UNCHANGED <<created, chains>>, Due(Top.token),
           HandlerOf(Top.token) \in Code, NEW x, x = ResultOf(HandlerOf(Top.token)),
           Finish(Completion(Top.token, x))
    PROVE  Good
<1>1. PICK t, s : t = Top.token /\ s = Completion(t, x)
  OBVIOUS
<1>2. t \in Reference
  BY <1>1, TopFrame
<1>3. HandlerOf(t) # NoHandler /\ x \in Settlement
  BY <1>1, CodeFields, Results
<1>4. s \in Settlement
  BY <1>1, <1>2, <1>3, CompletionType DEF CInv
<1>5. s = Called(t)
  BY <1>1, <1>3 DEF Called
<1>6. Settling(Top.token, s) /\ calls' = Below
  BY <1>1, <1>4, <1>5, FinishSettles
<1>7. QED BY <1>6, Pops

(* The frame on top, its handler inlined.                                  *)
LEMMA Works ==
    ASSUME CInv, Busy, Top.stage # "start"
    PROVE  /\ calls # << >> /\ phase # "failed" /\ Due(Top.token) /\ Waits(Top)
           /\ Top.token \in Known /\ Top \in Frame
           /\ HandlerOf(Top.token).ends # "none" => HandlerOf(Top.token) \in Code
<1>1. /\ calls # << >> /\ phase # "failed"
      /\ Top.token \in Known /\ Top.token \in Reference /\ Top \in Frame /\ Fit(Top)
  BY TopFrame DEF Busy
<1>2. Due(Top.token) /\ Waits(Top)
  BY <1>1 DEF Fit
<1>3. QED BY <1>1, <1>2, DueHandler DEF CInv

LEMMA LeavesGood ==
    ASSUME CInv, HandlerLeaves
    PROVE  Good
<1>1. PICK t, h : t = Top.token /\ h = HandlerOf(t)
  OBVIOUS
<1>2. /\ calls # << >> /\ phase # "failed" /\ phase' = phase /\ Top.stage = "leaving"
      /\ Due(t) /\ Waits(Top) /\ (h.ends # "none" => h \in Code)
      /\ Finish(Completion(t, Fulfilled(h.value))) /\ UNCHANGED <<created, chains, emitted>>
  BY <1>1, Works DEF HandlerLeaves
<1>3. h.ends = "then"
  BY <1>1, <1>2 DEF Waits
<1>4. h \in Code /\ Fulfilled(h.value) = ResultOf(h)
  BY <1>2, <1>3 DEF ResultOf
<1>5. QED BY <1>1, <1>2, <1>4, Completes

LEMMA ReturnsGood ==
    ASSUME CInv, HandlerReturns
    PROVE  Good
<1>1. PICK t, h, x : t = Top.token /\ h = HandlerOf(t) /\ x = settlements[Top.on]
  OBVIOUS
<1>2. /\ calls # << >> /\ phase # "failed" /\ phase' = phase /\ Top.stage = "returning"
      /\ Due(t) /\ Waits(Top) /\ (h.ends # "none" => h \in Code) /\ IsSettled(Top.on)
      /\ Finish(Completion(t, x)) /\ UNCHANGED <<created, chains, emitted>>
  BY <1>1, Works DEF HandlerReturns
<1>3. h.ends \in {"await", "forward"} /\ Gives(Top.on, ResultOf(h))
  BY <1>1, <1>2 DEF Waits
<1>4. h \in Code /\ x = ResultOf(h)
  <2>1. h \in Code
    BY <1>2, <1>3
  <2>2. PICK r, s : r = Top.on /\ s = ResultOf(h)
    OBVIOUS
  <2>3. settlements[r] = s
    BY <1>2, <1>3, <2>2, GivesSettled DEF CInv
  <2>4. QED BY <1>1, <2>1, <2>2, <2>3
<1>5. QED BY <1>1, <1>2, <1>4, Completes

(* The stack with the top frame at a later stage.                          *)
LEMMA Remark ==
    ASSUME CInv, calls # << >>, NEW f \in Frame, f.token = Top.token
    PROVE  /\ Restaged(calls, SetTop(f), f)
           /\ \A i \in 1 .. Len(SetTop(f)) : SetTop(f)[i].token \in Known
<1>1. PICK b, s, t, n : b = Under(calls) /\ s = calls /\ t = SetTop(f) /\ n = Len(calls)
  OBVIOUS
<1>2. /\ b \in Seq(Frame) /\ Grown(b, s, Top) /\ n \in Nat \ {0} /\ t = Append(b, f)
      /\ Stack(b) /\ Top.token \in Known
  BY <1>1, TopFrame DEF SetTop
<1>3. t \in Seq(Frame) /\ Grown(b, t, f)
  BY <1>2, Appended
<1>4. s[Len(s)] = Top
  BY <1>1 DEF Top
<1>5. \A i \in 1 .. Len(t) : t[i].token \in Known
  BY <1>2, <1>3 DEF Grown, Stack, Fits, Fit
<1>6. QED BY <1>1, <1>3, <1>4, <1>5 DEF Restaged

LEMMA Restages ==
    ASSUME CInv, calls # << >>, DataInv', Grows,
           \A y \in Known : settlements'[y] = settlements[y],
           NEW f \in Frame, f.token = Top.token, Fit(f)', NEW s, s = SetTop(f)
    PROVE  /\ Stack(s)' /\ Restaged(calls, s, f) /\ s \in Seq(Frame)
           /\ \A i \in 1 .. Len(s) : s[i].token \in Known
<1>1. PICK old : old = calls
  OBVIOUS
<1>2. Stack(old) /\ old # << >>
  BY <1>1 DEF CInv
<1>3. Restaged(old, s, f) /\ \A i \in 1 .. Len(s) : s[i].token \in Known
  BY <1>1, Remark
<1>4. Stack(old)'
  <2>1. Open(old)'
    BY <1>2 DEF Stack, Open, Fits, Fit, IsSettled
  <2>2. QED BY <1>2, <2>1, StackStays DEF CInv
<1>5. Restaged(old, s, f)'
  BY <1>3 DEF Restaged
<1>6. Stack(s)'
  BY <1>4, <1>5, LaterStacks DEF StackRestages
<1>7. QED BY <1>1, <1>3, <1>6 DEF Restaged

(* The handler at work makes a promise of its own that is settled.         *)
LEMMA MakesSettled ==
    ASSUME CInv, calls # << >>, phase # "failed", phase' = phase,
           NEW state \in Outcome, NEW v \in Plain, NewSettled(state, v),
           NEW f \in Frame, f.token = Top.token, f.stage # "start", Fit(f)', calls' = SetTop(f),
           \/ emitted' = emitted
           \/ emitted' = Append(emitted, Top.token) /\ Top.stage = "start" /\ Top.token \in Token
    PROVE  Good
<1>1. PICK s : s = SetTop(f)
  OBVIOUS
<1>2. DataInv' /\ Grows /\ \A y \in Known : settlements'[y] = settlements[y]
  BY SettledData DEF CInv
<1>3. Stack(s)' /\ Restaged(calls, s, f)
  BY <1>1, <1>2, Restages
<1>4. Stack(calls)' /\ s = calls'
  BY <1>1, <1>3
<1>5. QED BY <1>2, <1>3, <1>4, GoesOn

(* What a reaction h on the fulfilled promise r will be settled with.      *)
LEMMA Registered ==
    ASSUME DataInv, NEW r \in Known, NEW h \in Code,
           IsSettled(r), settlements[r].state = "fulfilled",
           NewChained("then", r, h, NoHandler), NEW c, c = created + 1
    PROVE  /\ DataInv' /\ Grows /\ settlements' = settlements
           /\ Due(c)' /\ Gives(c, ResultOf(h))' /\ ~IsSettled(c)' /\ c \in Known' /\ c \notin Known
           /\ c \in Reference
<1>1. r \in Created /\ r \in Reference
  BY SettledCreated, KnownTokens DEF DataInv
<1>2. ChainedBy("then", r, h, NoHandler)
  BY <1>1, NoHandlerType DEF ChainedBy, Handler
<1>3. /\ DataInv' /\ Grows /\ created' = c /\ created < MaxTokens /\ settlements' = settlements
      /\ chains'[c] # Unchained
      /\ chains'[c].kind = "then" /\ chains'[c].parent = r /\ chains'[c].fulfilled = h
  BY <1>2, ChainedData
<1>4. /\ c \in Reference /\ c \notin Known /\ c \in Known'
  BY <1>3, KnownTokens DEF DataInv, Known
<1>5. Due(c)'
  BY <1>3 DEF Due, HasChain, IsSettled
<1>6. ~IsSettled(c)'
  <2>1. ~IsSettled(c)
    BY <1>4, SettledCreated
  <2>2. QED BY <1>3, <2>1 DEF IsSettled
<1>7. HandlerOf(c)' = h
  BY <1>3 DEF HandlerOf
<1>8. PICK s : s = ResultOf(h)
  OBVIOUS
<1>9. Gives(c, s)'
  BY <1>3, <1>4, <1>5, <1>7, <1>8 DEF Gives
<1>10. Gives(c, ResultOf(h))'
  BY <1>8, <1>9
<1>11. QED BY <1>3, <1>4, <1>5, <1>6, <1>10

(* The handler at work registers a reaction on a promise of its own and    *)
(* may have it settled at once.                                            *)
LEMMA Registers ==
    ASSUME CInv, calls # << >>, phase # "failed", phase' = phase, emitted' = emitted,
           NEW r \in Known, NEW h \in Code,
           IsSettled(r), settlements[r].state = "fulfilled",
           NewChained("then", r, h, NoHandler), NEW c, c = created + 1,
           NEW f \in Frame, f.token = Top.token, f.stage # "start", Fit(f)',
           calls' = SetTop(f) \/ calls' = Append(SetTop(f), NewFrame(c, TRUE))
    PROVE  Good
<1>1. PICK s, t, g : s = SetTop(f) /\ t = calls' /\ g = NewFrame(c, TRUE)
  OBVIOUS
<1>2. /\ DataInv' /\ Grows /\ settlements' = settlements
      /\ Due(c)' /\ ~IsSettled(c)' /\ c \in Known' /\ c \notin Known /\ c \in Reference
  BY Registered DEF CInv
<1>3. /\ Stack(s)' /\ Restaged(calls, s, f) /\ s \in Seq(Frame)
      /\ \A i \in 1 .. Len(s) : s[i].token \in Known
  BY <1>1, <1>2, Restages
<1>4. CASE t = s
  <2>1. Stack(calls)' /\ s = calls'
    BY <1>1, <1>3, <1>4
  <2>2. QED BY <1>2, <1>3, <2>1, GoesOn
<1>5. CASE t = Append(s, g)
  <2>1. g \in Frame /\ g.token = c /\ g.stage = "start"
    BY <1>1, <1>2, NewFrameFields
  <2>2. t \in Seq(Frame) /\ Grown(s, t, g)
    BY <1>3, <1>5, <2>1, Appended
  <2>3. Fresh(s, g)'
    BY <1>2, <1>3, <2>1 DEF Fresh
  <2>4. created' \in Nat
    BY <1>2, BoundsAssumption DEF Grows
  <2>5. g.token \in Known' /\ ~IsSettled(g.token)' /\ Grown(s, t, g)'
    BY <1>2, <2>1, <2>2 DEF Grown
  <2>6. Stack(t)'
    BY <1>3, <2>1, <2>2, <2>3, <2>4, <2>5, LaterStacks DEF StackPushes
  <2>7. Stack(calls)' /\ Grown(s, calls', g)
    BY <1>1, <2>2, <2>6
  <2>8. QED BY <1>2, <1>3, <2>7, GoesOn
<1>6. QED BY <1>1, <1>4, <1>5

(* The top frame keeps its handler, and its token is still known.          *)
LEMMA SameWork ==
    ASSUME DataInv, Grows, NEW t \in Known, Due(t)
    PROVE  Due(t)' /\ HandlerOf(t)' = HandlerOf(t) /\ t \in Known'
BY DueStays, GrowsKnown DEF DataInv

LEMMA InlineAsyncGood ==
    ASSUME CInv, InlineAsync
    PROVE  Good
<1>1. PICK t, h, c : t = Top.token /\ h = HandlerOf(t) /\ c = created + 1
  OBVIOUS
<1>2. PICK f : f = [Top EXCEPT !.stage = "making", !.on = c]
  OBVIOUS
<1>3. /\ calls # << >> /\ phase # "failed" /\ phase' = phase /\ h.ends \in InPlace
      /\ Due(t) /\ t \in Token /\ Top.stage = "start" /\ Top \in Frame /\ t \in Known
      /\ h \in Code /\ h.value \in Plain
      /\ NewSettled("fulfilled", h.value) /\ calls' = SetTop(f)
      /\ emitted' = Append(emitted, Top.token)
  <2>1. /\ MayApply /\ phase' = phase /\ h.ends \in InPlace
        /\ NewSettled("fulfilled", h.value) /\ calls' = SetTop(f)
        /\ emitted' = Append(emitted, Top.token)
    BY <1>1, <1>2 DEF InlineAsync, Staged
  <2>2. /\ calls # << >> /\ phase # "failed" /\ Due(t) /\ t \in Token /\ Top.stage = "start"
        /\ h \in Code
    BY <1>1, <2>1, Applies DEF InPlace
  <2>3. QED BY <1>1, <2>1, <2>2, TopFrame, CodeFields
<1>4. "fulfilled" \in Outcome
  BY DEF Outcome
<1>5. /\ DataInv /\ Grows /\ created' = c /\ created < MaxTokens
      /\ settlements'[c] = Fulfilled(h.value)
  BY <1>1, <1>3, <1>4, SettledData DEF CInv, Fulfilled
<1>6. c \in Reference /\ c \in Known'
  BY <1>1, <1>5, KnownTokens DEF DataInv, Known
<1>7. f \in Frame /\ f.token = t /\ f.stage = "making" /\ f.on = c
  <2>1. Top \in Frame /\ c \in Reference /\ f = [Top EXCEPT !.stage = "making", !.on = c]
    BY <1>2, <1>3, <1>6
  <2>2. f \in Frame /\ f.token = Top.token /\ f.stage = "making" /\ f.on = c
    BY <2>1 DEF Frame
  <2>3. QED BY <1>1, <2>2
<1>8. Due(t)' /\ HandlerOf(t)' = h /\ t \in Known'
  BY <1>1, <1>3, <1>5, SameWork
<1>9. Fit(f)'
  <2>1. Waits(f)'
    BY <1>3, <1>5, <1>6, <1>7, <1>8 DEF Waits
  <2>2. QED BY <1>7, <1>8, <2>1 DEF Fit
<1>10. f.token = Top.token /\ f.stage # "start" /\ Top.token \in Token
  BY <1>1, <1>3, <1>7
<1>11. QED BY <1>3, <1>4, <1>7, <1>9, <1>10, MakesSettled

LEMMA RegistersGood ==
    ASSUME CInv, HandlerRegisters
    PROVE  Good
<1>1. PICK t, h, c, r : t = Top.token /\ h = HandlerOf(t) /\ c = created + 1 /\ r = Top.on
  OBVIOUS
<1>2. PICK k, s : k = Program[h.next] /\ s = ResultOf(k)
  OBVIOUS
<1>3. /\ calls # << >> /\ phase # "failed" /\ phase' = phase /\ emitted' = emitted
      /\ Top.stage = "making" /\ Due(t) /\ Waits(Top) /\ t \in Known /\ Top \in Frame
      /\ (h.ends # "none" => h \in Code)
      /\ NewChained("then", r, k, NoHandler)
      /\ \/ h.ends = "then" /\ calls' = Staged("leaving", 0)
         \/ h.ends = "await" /\ calls' = Append(Staged("awaiting", c), NewFrame(c, TRUE))
         \/ h.ends = "forward" /\ calls' = Append(Staged("returning", c), NewFrame(c, TRUE))
  <2>1. Busy /\ Top.stage = "making" /\ Top.stage # "start"
    BY DEF HandlerRegisters
  <2>2. /\ calls # << >> /\ phase # "failed" /\ Due(t) /\ Waits(Top) /\ t \in Known /\ Top \in Frame
        /\ (h.ends # "none" => h \in Code)
    BY <1>1, <2>1, Works
  <2>3. QED BY <1>1, <1>2, <2>1, <2>2 DEF HandlerRegisters
<1>4. h.ends \in InPlace /\ r \in Known /\ settlements[r] = Fulfilled(h.value)
  BY <1>1, <1>3 DEF Waits
<1>5. h \in Code /\ k \in Code /\ s = Result[h.next]
  BY <1>2, <1>3, <1>4, Results DEF InPlace
<1>6. IsSettled(r) /\ settlements[r].state = "fulfilled"
  BY <1>4 DEF IsSettled, Fulfilled, Unsettled
<1>7. /\ DataInv' /\ Grows /\ Gives(c, s)' /\ c \in Reference
  <2>1. Gives(c, ResultOf(k))'
    BY <1>1, <1>3, <1>4, <1>5, <1>6, Registered DEF CInv
  <2>2. QED BY <1>1, <1>2, <1>3, <1>4, <1>5, <1>6, <2>1, Registered DEF CInv
<1>8. Due(t)' /\ HandlerOf(t)' = h /\ t \in Known'
  BY <1>1, <1>3, <1>7, SameWork DEF CInv
<1>9. CASE h.ends = "then" /\ calls' = Staged("leaving", 0)
  <2>1. PICK f : f = [Top EXCEPT !.stage = "leaving", !.on = 0]
    OBVIOUS
  <2>2. 0 \in Reference
    BY BoundsAssumption DEF Reference
  <2>3. f \in Frame /\ f.token = t /\ f.stage = "leaving"
    BY <1>1, <1>3, <2>1, <2>2 DEF Frame
  <2>4. Waits(f)'
    BY <1>8, <1>9, <2>3 DEF Waits
  <2>5. Fit(f)'
    BY <1>8, <2>3, <2>4 DEF Fit
  <2>6. calls' = SetTop(f) /\ f.token = Top.token /\ f.stage # "start"
    BY <1>1, <1>9, <2>1, <2>3 DEF Staged
  <2>7. QED BY <1>1, <1>3, <1>4, <1>5, <1>6, <2>3, <2>5, <2>6, Registers
<1>10. ASSUME NEW stage \in {"awaiting", "returning"},
              h.ends = IF stage = "awaiting" THEN "await" ELSE "forward",
              calls' = Append(Staged(stage, c), NewFrame(c, TRUE))
       PROVE  Good
  <2>1. PICK f : f = [Top EXCEPT !.stage = stage, !.on = c]
    OBVIOUS
  <2>2. f \in Frame /\ f.token = t /\ f.stage = stage /\ f.on = c
    <3>1. stage \in {"start", "making", "leaving", "awaiting", "returning"} /\ Top \in Frame
      BY <1>3
    <3>2. QED BY <1>1, <1>7, <2>1, <3>1 DEF Frame
  <2>3. Waits(f)'
    <3>1. CASE h.ends = "await"
      BY <1>5, <1>7, <1>8, <1>10, <2>2, <3>1 DEF Waits
    <3>2. CASE h.ends = "forward"
      <4>1. s = ResultOf(h)
        BY <1>5, <3>2 DEF ResultOf
      <4>2. QED BY <1>7, <1>8, <1>10, <2>2, <3>2, <4>1 DEF Waits
    <3>3. QED BY <1>10, <3>1, <3>2
  <2>4. Fit(f)'
    BY <1>8, <2>2, <2>3 DEF Fit
  <2>5. /\ calls' = Append(SetTop(f), NewFrame(c, TRUE))
        /\ f.token = Top.token /\ f.stage # "start"
    BY <1>1, <1>10, <2>1, <2>2 DEF Staged
  <2>6. QED BY <1>1, <1>3, <1>4, <1>5, <1>6, <2>2, <2>4, <2>5, Registers
<1>11. QED BY <1>3, <1>9, <1>10

LEMMA HandlerGoesOnGood ==
    ASSUME CInv, HandlerGoesOn
    PROVE  Good
<1>1. PICK t, h, c, r : t = Top.token /\ h = HandlerOf(t) /\ c = created + 1 /\ r = Top.on
  OBVIOUS
<1>2. PICK f, rest, s : /\ f = [Top EXCEPT !.stage = "returning", !.on = c]
                        /\ rest = [h EXCEPT !.ends = "return"]
                        /\ s = settlements[r]
  OBVIOUS
<1>3. /\ calls # << >> /\ phase # "failed" /\ phase' = phase /\ emitted' = emitted
      /\ Top.stage = "awaiting" /\ Due(t) /\ Waits(Top) /\ t \in Known /\ Top \in Frame
      /\ (h.ends # "none" => h \in Code) /\ IsSettled(r)
      /\ \/ s.state = "rejected" /\ NewSettled("rejected", s.value) /\ calls' = SetTop(f)
         \/ /\ s.state = "fulfilled" /\ NewChained("then", r, rest, NoHandler)
            /\ calls' = Append(SetTop(f), NewFrame(c, TRUE))
  <2>1. Busy /\ Top.stage = "awaiting" /\ Top.stage # "start"
    BY DEF HandlerGoesOn
  <2>2. /\ calls # << >> /\ phase # "failed" /\ Due(t) /\ Waits(Top) /\ t \in Known /\ Top \in Frame
        /\ (h.ends # "none" => h \in Code)
    BY <1>1, <2>1, Works
  <2>3. QED BY <1>1, <1>2, <2>1, <2>2 DEF HandlerGoesOn, Staged
<1>4. h.ends = "await" /\ h \in Code /\ Gives(r, Result[h.next])
  BY <1>1, <1>3 DEF Waits
<1>5. s = Result[h.next] /\ r \in Known /\ r \in Reference
  <2>1. PICK x : x = Result[h.next]
    OBVIOUS
  <2>2. Gives(r, x)
    BY <1>4, <2>1
  <2>3. settlements[r] = x /\ r \in Reference /\ r \in Known
    BY <1>3, <2>2, GivesSettled DEF CInv, Gives
  <2>4. QED BY <1>2, <2>1, <2>3
<1>6. s \in Settlement /\ s = [state |-> s.state, value |-> s.value] /\ s.value \in Plain
  BY <1>4, <1>5, Results, SettlementFields
<1>7. created < MaxTokens /\ c \in Reference
  <2>1. created < MaxTokens
    BY <1>3 DEF NewSettled, NewChained
  <2>2. QED BY <1>1, <2>1, KnownTokens DEF CInv, DataInv
<1>8. f \in Frame /\ f.token = t /\ f.stage = "returning" /\ f.on = c
  <2>1. Top \in Frame /\ c \in Reference /\ f = [Top EXCEPT !.stage = "returning", !.on = c]
    BY <1>2, <1>3, <1>7
  <2>2. f \in Frame /\ f.token = Top.token /\ f.stage = "returning" /\ f.on = c
    BY <2>1 DEF Frame
  <2>3. QED BY <1>1, <2>2
<1>9. ASSUME DataInv', Grows, NEW x, x = ResultOf(h), Gives(c, x)'
      PROVE  Fit(f)'
  <2>1. Due(t)' /\ HandlerOf(t)' = h /\ t \in Known'
    BY <1>1, <1>3, <1>9, SameWork DEF CInv
  <2>2. Waits(f)'
    BY <1>4, <1>8, <1>9, <2>1 DEF Waits
  <2>3. QED BY <1>8, <2>1, <2>2 DEF Fit
<1>10. CASE s.state = "rejected" /\ NewSettled("rejected", s.value) /\ calls' = SetTop(f)
  <2>1. "rejected" \in Outcome
    BY DEF Outcome
  <2>2. /\ DataInv' /\ Grows /\ created' = c /\ settlements'[c] = s
    BY <1>1, <1>6, <1>10, <2>1, SettledData DEF CInv
  <2>3. s = ResultOf(h)
    BY <1>4, <1>5, <1>10 DEF ResultOf
  <2>4. Gives(c, s)'
    <3>1. s # Unsettled
      BY <1>6, SettlementFields
    <3>2. c \in Known'
      BY <1>1, <1>7, <2>2, KnownTokens DEF Known, CInv, DataInv
    <3>3. QED BY <2>2, <3>1, <3>2 DEF Gives, IsSettled
  <2>5. Fit(f)'
    BY <1>9, <2>2, <2>3, <2>4
  <2>6. f.token = Top.token /\ f.stage # "start"
    BY <1>1, <1>8
  <2>7. QED BY <1>3, <1>6, <1>8, <1>10, <2>1, <2>5, <2>6, MakesSettled
<1>11. CASE /\ s.state = "fulfilled" /\ NewChained("then", r, rest, NoHandler)
            /\ calls' = Append(SetTop(f), NewFrame(c, TRUE))
  <2>1. rest \in Code /\ rest.ends = "return" /\ rest.value = h.value
    BY <1>2, <1>4 DEF Code
  <2>2. PICK x : x = ResultOf(rest)
    OBVIOUS
  <2>3. x = ResultOf(h)
    BY <1>4, <1>5, <1>11, <2>1, <2>2 DEF ResultOf
  <2>4. settlements[r].state = "fulfilled"
    BY <1>2, <1>11
  <2>5. DataInv' /\ Grows /\ Gives(c, x)'
    <3>1. Gives(c, ResultOf(rest))'
      BY <1>1, <1>3, <1>5, <1>11, <2>1, <2>4, Registered DEF CInv
    <3>2. QED BY <1>1, <1>3, <1>5, <1>11, <2>1, <2>2, <2>4, <3>1, Registered DEF CInv
  <2>6. Fit(f)'
    BY <1>9, <2>3, <2>5
  <2>7. f.token = Top.token /\ f.stage # "start"
    BY <1>1, <1>8
  <2>8. QED BY <1>1, <1>3, <1>5, <1>8, <1>11, <2>1, <2>4, <2>6, <2>7, Registers
<1>12. QED BY <1>3, <1>10, <1>11

LEMMA ApplyGood ==
    ASSUME CInv, Apply
    PROVE  Good /\ calls # << >> /\ phase \in {"script", "drain"}
           /\ UNCHANGED <<awaiting, pass, progress>>
<1>1. Good
  BY NoChainGood, ResolveParentGood, DefaultGood, PlainGood, InlinePromiseGood, InlineAsyncGood,
     RegistersGood, LeavesGood, HandlerGoesOnGood, ReturnsGood DEF Apply
<1>2. Busy
  BY DEF Apply, NoChain, ResolveParent, DefaultHandler, InlinePlain, InlinePromise, InlineAsync,
         HandlerRegisters, HandlerLeaves, HandlerGoesOn, HandlerReturns, MayApply
<1>3. UNCHANGED <<awaiting, pass, progress>>
  BY DEF Apply, NoChain, ResolveParent, DefaultHandler, InlinePlain, InlinePromise, InlineAsync,
         HandlerRegisters, HandlerLeaves, HandlerGoesOn, HandlerReturns
<1>4. QED BY <1>1, <1>2, <1>3 DEF Busy

-----------------------------------------------------------------------------
(* The script and the drain.                                               *)

(* A step between two applications that leaves the promises alone.         *)
LEMMA Still ==
    ASSUME CInv, UNCHANGED <<created, settlements, chains, calls, emitted>>,
           phase # "failed" \/ phase' = phase
    PROVE  CInv'
<1>1. DataInv' /\ Grows
  BY SameData DEF CInv
<1>2. PICK s : s = calls
  OBVIOUS
<1>3. Stack(calls)'
  <2>1. Open(s)'
    BY <1>2 DEF CInv, Stack, Open, IsSettled
  <2>2. Stack(s)'
    BY <1>1, <1>2, <2>1, StackStays DEF CInv
  <2>3. QED BY <1>2, <2>2
<1>4. EmittedInv'
  <2>1. CASE phase = "failed"
    BY <2>1 DEF CInv, EmittedInv, Once
  <2>2. CASE phase # "failed"
    <3>1. \A x \in Token : Inlined(x) => Inlined(x)'
      BY DEF Inlined, At, IsSettled
    <3>2. QED BY <2>2, <3>1, EmittedStays DEF CInv
  <2>3. QED BY <2>1, <2>2
<1>5. QED BY <1>1, <1>3, <1>4 DEF CInv

(* A step that creates promises while nothing is being applied.            *)
LEMMA Creates ==
    ASSUME CInv, DataInv', Grows, calls = << >>, phase # "failed", UNCHANGED <<calls, emitted>>
    PROVE  CInv'
<1>1. Stack(calls)'
  BY NoStack
<1>2. ASSUME NEW x \in Token, Inlined(x)
      PROVE  Inlined(x)'
  <2>1. IsSettled(x) /\ x \in Reference
    BY <1>2, KnownTokens DEF Inlined, At, CInv, DataInv
  <2>2. QED BY <2>1 DEF Grows, Inlined, IsSettled
<1>3. EmittedInv'
  BY <1>2, EmittedStays DEF CInv
<1>4. QED BY <1>1, <1>3 DEF CInv

(* A frame is pushed on the empty stack, or none.                          *)
LEMMA Starts ==
    ASSUME CInv, UNCHANGED <<created, settlements, chains, emitted>>, calls = << >>,
           Stack(calls)', phase # "failed"
    PROVE  CInv'
<1>1. DataInv'
  BY SameData DEF CInv
<1>2. ASSUME NEW x \in Token, Inlined(x)
      PROVE  Inlined(x)'
  BY <1>2 DEF Inlined, At, IsSettled
<1>3. EmittedInv'
  BY <1>2, EmittedStays DEF CInv
<1>4. QED BY <1>1, <1>3 DEF CInv

(* Three promises at once, of a receiver that is lowered twice.            *)
LEMMA ThenOnCallData ==
    ASSUME DataInv, NEW p \in Token, NEW f \in Handler, NEW g \in Handler, ThenOnCall(p, f, g)
    PROVE  DataInv' /\ Grows
<1>1. PICK n1, n2, n3 : n1 = created + 1 /\ n2 = created + 2 /\ n3 = created + 3
  OBVIOUS
<1>2. PICK c1, c2, c3 : /\ c1 = Reaction("then", p, f, NoHandler)
                        /\ c2 = Reaction("then", p, f, NoHandler)
                        /\ c3 = Reaction("then", n2, g, NoHandler)
  OBVIOUS
<1>3. /\ created \in Nat /\ MaxTokens \in Nat /\ created + 3 <= MaxTokens
      /\ n1 \in Token /\ n2 \in Token /\ n3 \in Token /\ p \in Nat /\ p <= created
      /\ \A t \in Token : t \in Reference
      /\ created' = created + 3 /\ settlements' = settlements
      /\ chains' = [chains EXCEPT ![n1] = c1, ![n2] = c2, ![n3] = c3]
  <2>1. created \in Nat /\ MaxTokens \in Nat /\ created + 3 \in Token /\ p \in Created
        /\ \A t \in Token : t \in Reference
    BY KnownTokens DEF DataInv, ThenOnCall
  <2>2. created + 3 <= MaxTokens /\ p \in Nat /\ p <= created
        /\ n1 \in Token /\ n2 \in Token /\ n3 \in Token
    BY <1>1, <2>1 DEF Token, Created
  <2>3. QED BY <1>1, <1>2, <2>1, <2>2 DEF ThenOnCall
<1>4. /\ c1 \in Chain /\ c2 \in Chain /\ c3 \in Chain
      /\ c1.parent = p /\ c2.parent = p /\ c3.parent = n2
  <2>1. p \in Reference /\ n2 \in Reference /\ "then" \in {"then", "finally"}
    BY <1>3
  <2>2. c1 \in Chain /\ c1.parent = p /\ c2 = c1
    BY <1>2, <1>3, <2>1, NoHandlerType DEF Reaction, Chain
  <2>3. c3 \in Chain /\ c3.parent = n2
    BY <1>2, <1>3, <2>1, NoHandlerType DEF Reaction, Chain
  <2>4. QED BY <2>2, <2>3
<1>5. /\ chains' \in [Reference -> Chain \union {Unchained}]
      /\ chains'[n1] = c1 /\ chains'[n2] = c2 /\ chains'[n3] = c3
      /\ \A t \in Reference \ {n1, n2, n3} : chains'[t] = chains[t]
  BY <1>1, <1>3, <1>4 DEF DataInv, Promises
<1>6. \A t : t \in created + 1 .. created + 3 <=> t = n1 \/ t = n2 \/ t = n3
  BY <1>1, <1>3
<1>7. p \in 0 .. n1 - 1 /\ p \in 0 .. n2 - 1 /\ n2 \in 0 .. n3 - 1
  BY <1>1, <1>3
<1>8. \A t \in created + 1 .. created + 3 : chains'[t].parent \in 0 .. t - 1
  BY <1>4, <1>5, <1>6, <1>7
<1>9. \A t \in Reference : t \notin created + 1 .. created + 3 => chains'[t] = chains[t]
  BY <1>5, <1>6
<1>10. QED BY <1>3, <1>5, <1>8, <1>9, MoreChains

(* While an async call is being lowered, its await waits for the frame at  *)
(* the bottom of the stack, unless that promise is settled.                *)
AwaitInv ==
    /\ awaiting \in {NoAwait}
                \union [state : {"awaiting"}, on : Reference, continuation : Handler]
    /\ awaiting # NoAwait =>
          \/ phase = "failed" \/ IsSettled(awaiting.on)
          \/ calls # << >> /\ calls[1].token = awaiting.on

(* A pass that has applied nothing so far has every reaction that could    *)
(* run still ahead of it.                                                  *)
Ahead(t) == \E i \in 1 .. Len(pass) : pass[i] = t

PassInv ==
    /\ phase \in {"script", "drain", "done", "thrown", "failed"}
    /\ pass \in Seq(Token) /\ progress \in BOOLEAN
    /\ phase = "drain" /\ ~progress =>
          calls = << >> /\ \A t \in Token : Runnable(t) => Ahead(t)
    /\ phase = "done" => \A t \in Token : ~Runnable(t)

Inv == CInv /\ AwaitInv /\ PassInv

LEMMA AwaitedFields ==
    ASSUME AwaitInv, awaiting # NoAwait
    PROVE  awaiting.on \in Reference /\ awaiting.continuation \in Handler
BY DEF AwaitInv

LEMMA AwaitStays ==
    ASSUME AwaitInv, Grows, awaiting' = awaiting, BottomKept,
           phase = "failed" => phase' = "failed"
    PROVE  AwaitInv'
<1>1. PICK a : a = awaiting
  OBVIOUS
<1>2. CASE a = NoAwait
  BY <1>1, <1>2 DEF AwaitInv
<1>3. CASE a # NoAwait
  <2>1. a.on \in Reference
    BY <1>1, <1>3, AwaitedFields
  <2>2. \/ phase' = "failed" \/ IsSettled(a.on)'
        \/ (calls' # << >> /\ calls'[1].token = a.on)
    <3>1. CASE phase = "failed"
      BY <3>1
    <3>2. CASE IsSettled(a.on)
      BY <2>1, <3>2 DEF Grows, IsSettled
    <3>3. CASE calls # << >> /\ calls[1].token = a.on
      BY <3>3 DEF BottomKept
    <3>4. QED BY <1>1, <1>3, <3>1, <3>2, <3>3 DEF AwaitInv
  <2>3. a \in {NoAwait} \union [state : {"awaiting"}, on : Reference, continuation : Handler]
    BY <1>1 DEF AwaitInv
  <2>4. QED BY <1>1, <1>3, <2>2, <2>3 DEF AwaitInv
<1>4. QED BY <1>2, <1>3

LEMMA AwaitIdle ==
    ASSUME AwaitInv, Grows, awaiting' = awaiting, calls = << >>, phase # "failed"
    PROVE  AwaitInv'
BY AwaitStays DEF BottomKept

LEMMA NoAwaitLeft ==
    ASSUME awaiting' = NoAwait
    PROVE  AwaitInv'
BY DEF AwaitInv

LEMMA PassStays ==
    ASSUME PassInv, phase # "drain", phase' \in {phase, "failed"}, phase' # "done",
           UNCHANGED <<pass, progress>>
    PROVE  PassInv'
BY DEF PassInv

LEMMA RunnableStays ==
    ASSUME UNCHANGED <<settlements, chains>>, NEW t
    PROVE  Runnable(t)' <=> Runnable(t)
BY DEF Runnable, IsSettled, HasChain

LEMMA Numbered ==
    ASSUME Promises, BeginPass
    PROVE  /\ pass' \in Seq(Token) /\ progress' = FALSE
           /\ \A t \in Created : \E i \in 1 .. Len(pass') : pass'[i] = t
<1>1. PICK q : q = [t \in Created |-> t]
  OBVIOUS
<1>2. created \in Nat /\ Created = 1 .. created /\ Created \subseteq Token
  BY KnownTokens DEF Created
<1>3. q = [t \in 1 .. created |-> t]
  BY <1>1, <1>2
<1>4. \A i \in 1 .. created : i \in Token
  BY <1>2
<1>5. q \in Seq(Token)
  BY <1>2, <1>3, <1>4, IsASeq
<1>6. Len(q) = created
  BY <1>2, <1>3, <1>5, LenProperties
<1>7. \A t \in Created : t \in 1 .. Len(q) /\ q[t] = t
  BY <1>2, <1>3, <1>6
<1>8. QED BY <1>1, <1>5, <1>7 DEF BeginPass

LEMMA PassBegins ==
    ASSUME CInv, BeginPass, phase' = "drain", calls' = << >>, UNCHANGED <<settlements, chains>>
    PROVE  PassInv'
<1>1. PICK q : q = pass'
  OBVIOUS
<1>2. q \in Seq(Token) /\ progress' = FALSE /\ \A t \in Created : \E i \in 1 .. Len(q) : q[i] = t
  BY <1>1, Numbered DEF CInv, DataInv
<1>3. ASSUME NEW t \in Token, Runnable(t)'
      PROVE  Ahead(t)'
  <2>1. Runnable(t) /\ t \in Reference
    BY <1>3, RunnableStays, KnownTokens DEF CInv, DataInv
  <2>2. t \in Created
    BY <2>1, SettledCreated DEF CInv, Runnable
  <2>3. QED BY <1>1, <1>2, <2>2 DEF Ahead
<1>4. QED BY <1>1, <1>2, <1>3 DEF PassInv

LEMMA ApplyKeeps ==
    ASSUME Inv, Apply
    PROVE  Inv'
<1>1. Good /\ calls # << >> /\ phase \in {"script", "drain"} /\ UNCHANGED <<awaiting, pass, progress>>
  BY ApplyGood DEF Inv
<1>2. AwaitInv'
  BY <1>1, AwaitStays DEF Good, Inv
<1>3. PassInv'
  <2>1. CASE phase = "script"
    BY <1>1, <2>1, PassStays DEF Good, Inv
  <2>2. CASE phase = "drain"
    <3>1. progress = TRUE
      BY <1>1, <2>2 DEF Inv, PassInv
    <3>2. QED BY <1>1, <2>2, <3>1 DEF Inv, PassInv, Good
  <2>3. QED BY <1>1, <2>1, <2>2
<1>4. QED BY <1>1, <1>2, <1>3 DEF Good, Inv

(* The program creates promises.                                           *)
LEMMA ScriptCreates ==
    ASSUME Inv, Lowering, UNCHANGED <<calls, awaiting, phase, pass, progress, emitted>>,
           DataInv', Grows
    PROVE  Inv'
<1>1. CInv'
  BY Creates DEF Inv, Lowering
<1>2. AwaitInv'
  BY NoAwaitLeft DEF Lowering
<1>3. PassInv'
  BY PassStays DEF Inv, Lowering
<1>4. QED BY <1>1, <1>2, <1>3 DEF Inv

LEMMA LookedUp ==
    ASSUME DataInv, NEW p \in Created, NEW t \in Lookup(p)
    PROVE  t \in Known /\ t \in Reference
BY KnownTokens, BoundsAssumption DEF Lookup, DataInv, Known, Reference

LEMMA ScriptChains ==
    ASSUME Inv, Lowering, UNCHANGED <<calls, awaiting, phase, pass, progress, emitted>>,
           NEW kind \in {"then", "finally"}, NEW p \in Created, NEW f \in Handler, NEW r \in Handler,
           \E parent \in Lookup(p) : NewChained(kind, parent, f, r)
    PROVE  Inv'
<1>1. PICK parent \in Lookup(p) : NewChained(kind, parent, f, r)
  OBVIOUS
<1>2. parent \in Known
  BY LookedUp DEF Inv, CInv
<1>3. ChainedBy(kind, parent, f, r)
  BY <1>1, <1>2 DEF ChainedBy
<1>4. QED BY <1>3, ChainedData, ScriptCreates DEF Inv, CInv

LEMMA AsyncCallKeeps ==
    ASSUME Inv, NEW p \in Token, NEW h \in Handler, AsyncCall(p, h)
    PROVE  Inv'
<1>1. PICK t \in Lookup(p) : /\ awaiting' = [state |-> "awaiting", on |-> t, continuation |-> h]
                             /\ ResolvePromise(t, << >>)
  BY DEF AsyncCall
<1>2. /\ phase = "script" /\ calls = << >> /\ p \in Created
      /\ UNCHANGED <<created, settlements, chains, pass, progress, emitted>>
  BY DEF AsyncCall, Lowering
<1>3. t \in Known /\ t \in Reference
  BY <1>2, LookedUp DEF Inv, CInv
<1>4. /\ Resolved(t, << >>) \/ (phase' = "failed" /\ calls' = << >>)
      /\ Stack(calls)'
  <2>1. \A i \in 1 .. Len(<< >>) : FALSE
    OBVIOUS
  <2>2. QED BY <1>1, <1>2, <1>3, <2>1, EmptyStack, Resolves DEF Inv, CInv
<1>5. CInv'
  BY <1>2, <1>4, Starts DEF Inv
<1>6. AwaitInv'
  <2>1. PICK a, s : a = awaiting' /\ s = calls'
    OBVIOUS
  <2>2. a.on = t /\ a \in [state : {"awaiting"}, on : Reference, continuation : Handler]
    BY <1>1, <1>3, <2>1
  <2>3. phase' = "failed" \/ IsSettled(t)' \/ (s # << >> /\ s[1].token = t)
    <3>1. CASE ~IsSettled(t) /\ calls' = Append(<< >>, NewFrame(t, TRUE))
      <4>1. PICK f : f = NewFrame(t, TRUE)
        OBVIOUS
      <4>2. f.token = t
        BY <1>3, <4>1, NewFrameFields
      <4>3. s = <<f>>
        BY <2>1, <3>1, <4>1
      <4>4. s # << >> /\ s[1] = f
        BY <4>3
      <4>5. QED BY <4>2, <4>4
    <3>2. CASE IsSettled(t)
      BY <1>2, <3>2 DEF IsSettled
    <3>3. QED BY <1>1, <3>1, <3>2 DEF ResolvePromise
  <2>4. QED BY <2>1, <2>2, <2>3 DEF AwaitInv
<1>7. PassInv'
  <2>1. phase' \in {phase, "failed"}
    BY <1>4 DEF Resolved
  <2>2. QED BY <1>2, <2>1, PassStays DEF Inv
<1>8. QED BY <1>5, <1>6, <1>7 DEF Inv

LEMMA AsyncResultKeeps ==
    ASSUME Inv, AsyncResult
    PROVE  Inv'
<1>1. PICK p, h, x : p = awaiting.on /\ h = awaiting.continuation /\ x = settlements[awaiting.on]
  OBVIOUS
<1>2. /\ phase = "script" /\ calls = << >> /\ awaiting # NoAwait /\ awaiting' = NoAwait
      /\ NewSettled(x.state, x.value) \/ NewChained("then", p, h, NoHandler)
      /\ UNCHANGED <<calls, phase, pass, progress, emitted>>
  BY <1>1 DEF AsyncResult
<1>3. p \in Reference /\ h \in Handler /\ IsSettled(p)
  BY <1>1, <1>2, AwaitedFields DEF Inv, AwaitInv
<1>4. p \in Created /\ p \in Known /\ x.state \in Outcome /\ x.value \in Plain
  BY <1>1, <1>3, SettledCreated, SettledIn, SettlementFields DEF Inv, CInv, DataInv
<1>5. DataInv' /\ Grows
  <2>1. CASE NewSettled(x.state, x.value)
    BY <1>4, <2>1, SettledData DEF Inv, CInv
  <2>2. CASE NewChained("then", p, h, NoHandler)
    <3>1. ChainedBy("then", p, h, NoHandler)
      BY <1>3, <1>4, <2>2, NoHandlerType DEF ChainedBy
    <3>2. QED BY <3>1, ChainedData DEF Inv, CInv
  <2>3. QED BY <1>2, <2>1, <2>2
<1>6. CInv'
  BY <1>2, <1>5, Creates DEF Inv
<1>7. AwaitInv' /\ PassInv'
  BY <1>2, NoAwaitLeft, PassStays DEF Inv
<1>8. QED BY <1>6, <1>7 DEF Inv

LEMMA BeginDrainKeeps ==
    ASSUME Inv, BeginDrain
    PROVE  Inv'
<1>1. CInv'
  BY Still DEF BeginDrain, Lowering, Inv
<1>2. AwaitInv'
  BY NoAwaitLeft DEF BeginDrain, Lowering
<1>3. PassInv'
  BY PassBegins DEF BeginDrain, Lowering, Inv
<1>4. QED BY <1>1, <1>2, <1>3 DEF Inv

LEMMA ScriptThrowsKeeps ==
    ASSUME Inv, ScriptThrows
    PROVE  Inv'
<1>1. CInv'
  BY Still DEF ScriptThrows, Lowering, Inv
<1>2. AwaitInv'
  BY NoAwaitLeft DEF ScriptThrows, Lowering
<1>3. PassInv'
  BY DEF PassInv, ScriptThrows, Inv
<1>4. QED BY <1>1, <1>2, <1>3 DEF Inv

LEMMA NextPassKeeps ==
    ASSUME Inv, NextPass
    PROVE  Inv'
<1>1. CInv'
  BY Still DEF NextPass, Inv
<1>2. AwaitInv'
  BY SameData, AwaitIdle DEF NextPass, Draining, Inv, CInv
<1>3. PassInv'
  BY PassBegins DEF NextPass, Draining, Inv
<1>4. QED BY <1>1, <1>2, <1>3 DEF Inv

LEMMA EndDrainKeeps ==
    ASSUME Inv, EndDrain
    PROVE  Inv'
<1>1. CInv'
  BY Still DEF EndDrain, Draining, Inv
<1>2. AwaitInv'
  BY SameData, AwaitIdle DEF EndDrain, Draining, Inv, CInv
<1>3. ASSUME NEW t \in Token
      PROVE  ~Runnable(t)'
  <2>1. ~Ahead(t)
    BY DEF Ahead, EndDrain
  <2>2. ~Runnable(t)
    BY <2>1 DEF EndDrain, Draining, Inv, PassInv
  <2>3. QED BY <2>2, RunnableStays DEF EndDrain
<1>4. PassInv'
  BY <1>3 DEF PassInv, EndDrain, Inv
<1>5. QED BY <1>1, <1>2, <1>4 DEF Inv

LEMMA VisitKeeps ==
    ASSUME Inv, Visit
    PROVE  Inv'
<1>1. PICK q, t : q = pass /\ t = Head(pass)
  OBVIOUS
<1>2. /\ phase = "drain" /\ calls = << >> /\ q # << >> /\ pass' = Tail(q) /\ q \in Seq(Token)
      /\ IF Runnable(t) THEN calls' = <<NewFrame(t, FALSE)>> /\ progress' = TRUE
                        ELSE UNCHANGED <<calls, progress>>
      /\ UNCHANGED <<created, settlements, chains, awaiting, phase, emitted>>
  BY <1>1 DEF Visit, Draining, Inv, PassInv
<1>3. /\ t \in Token /\ Tail(q) \in Seq(Token) /\ Len(q) \in Nat \ {0}
      /\ Len(Tail(q)) = Len(q) - 1 /\ t = q[1]
      /\ \A i \in 1 .. Len(Tail(q)) : Tail(q)[i] = q[i + 1]
  <2>1. t \in Token /\ Tail(q) \in Seq(Token) /\ Len(Tail(q)) = Len(q) - 1
        /\ \A i \in 1 .. Len(Tail(q)) : Tail(q)[i] = q[i + 1]
    BY <1>1, <1>2, HeadTailProperties
  <2>2. Len(q) \in Nat \ {0}
    BY <1>2, EmptySeq, LenProperties
  <2>3. t = q[1]
    BY <1>1
  <2>4. QED BY <2>1, <2>2, <2>3
<1>4. Stack(calls)'
  <2>1. CASE Runnable(t)
    <3>1. PICK f : f = NewFrame(t, FALSE)
      OBVIOUS
    <3>2. t \in Reference /\ created \in Nat
      BY <1>3, KnownTokens DEF Inv, CInv, DataInv
    <3>3. f \in Frame /\ f.token = t /\ f.stage = "start"
      BY <3>1, <3>2, NewFrameFields
    <3>4. t \in Known /\ Due(t) /\ ~IsSettled(t)
      BY <2>1, <3>2, SettledCreated DEF Runnable, Due, Inv, CInv
    <3>5. PICK r : r = <<f>>
      OBVIOUS
    <3>6. r \in Seq(Frame) /\ Grown(<< >>, r, f)
      <4>1. r \in Seq(Frame)
        BY <3>3, <3>5
      <4>2. Len(r) = 1 /\ r[1] = f
        BY <3>5
      <4>3. QED BY <4>1, <4>2 DEF Grown
    <3>7. Fresh(<< >>, f)
      BY <3>3, <3>4 DEF Fresh
    <3>8. Stack(r)
      BY <3>2, <3>3, <3>4, <3>6, <3>7, EmptyStack, StackPushed
    <3>9. Grows /\ Open(r)'
      BY <1>2, <3>8, SameData DEF Stack, Open, IsSettled, Inv, CInv
    <3>10. Stack(r)'
      BY <3>8, <3>9, StackStays DEF Inv, CInv
    <3>11. calls' = r
      BY <1>2, <2>1, <3>1, <3>5
    <3>12. QED BY <3>10, <3>11
  <2>2. CASE ~Runnable(t)
    BY <1>2, <2>2, NoStack
  <2>3. QED BY <2>1, <2>2
<1>5. CInv'
  BY <1>2, <1>4, Starts DEF Inv
<1>6. AwaitInv'
  BY <1>2, SameData, AwaitIdle DEF Inv, CInv
<1>7. PassInv'
  <2>1. pass' \in Seq(Token) /\ phase' = "drain"
    BY <1>2, <1>3
  <2>2. CASE Runnable(t)
    BY <1>2, <2>1, <2>2 DEF PassInv
  <2>3. CASE ~Runnable(t)
    <3>1. calls' = << >> /\ progress' = progress /\ progress \in BOOLEAN
      BY <1>2, <2>3 DEF Inv, PassInv
    <3>2. ASSUME NEW x \in Token, Runnable(x)', ~progress
          PROVE  Ahead(x)'
      <4>1. Runnable(x)
        BY <1>2, <3>2, RunnableStays
      <4>2. PICK i \in 1 .. Len(q) : q[i] = x
        BY <1>1, <1>2, <3>2, <4>1 DEF Inv, PassInv, Ahead
      <4>3. i # 1
        BY <1>3, <2>3, <4>1, <4>2
      <4>4. i - 1 \in 1 .. Len(Tail(q)) /\ (i - 1) + 1 = i
        BY <1>3, <4>2, <4>3
      <4>5. Tail(q)[i - 1] = x
        BY <1>3, <4>2, <4>4
      <4>6. QED BY <1>2, <4>4, <4>5 DEF Ahead
    <3>3. QED BY <2>1, <3>1, <3>2 DEF PassInv
  <2>4. QED BY <2>2, <2>3
<1>8. QED BY <1>5, <1>6, <1>7 DEF Inv

-----------------------------------------------------------------------------
(* The invariant.                                                          *)
LEMMA InitInv ==
    ASSUME Init
    PROVE  Inv
<1>1. DataInv
  <2>1. Promises
    BY BoundsAssumption DEF Init, Promises
  <2>2. \A t \in Reference : ~IsSettled(t) /\ ~HasChain(t)
    BY DEF Init, IsSettled, HasChain
  <2>3. QED BY <2>1, <2>2 DEF DataInv, Blank, Hung, Follows
<1>2. Stack(calls)
  BY EmptyStack DEF Init
<1>3. EmittedInv
  BY DEF Init, EmittedInv, Once
<1>4. AwaitInv
  BY DEF Init, AwaitInv
<1>5. PassInv
  <2>1. pass \in Seq(Token)
    BY DEF Init
  <2>2. phase = "script" /\ progress = FALSE
    BY DEF Init
  <2>3. QED BY <2>1, <2>2 DEF PassInv
<1>6. QED BY <1>1, <1>2, <1>3, <1>4, <1>5 DEF Inv, CInv

LEMMA ScriptKeeps ==
    ASSUME Inv, Script
    PROVE  Inv'
<1>1. CASE CreatePending
  BY <1>1, ScriptCreates, PendingData DEF CreatePending, Inv, CInv
<1>2. ASSUME NEW state \in Outcome, NEW v \in Plain, CreateSettled(state, v)
      PROVE  Inv'
  BY <1>2, ScriptCreates, SettledData DEF CreateSettled, Inv, CInv
<1>3. /\ NoHandler \in Handler
      /\ \A h \in Handlers : h \in Handler
      /\ \A h \in AsyncHandlers : h \in Handler
  BY NoHandlerType, ProgramAssumption DEF Handler, Handlers, AsyncHandlers
<1>4. ASSUME NEW p \in Token, Adopt(p)
      PROVE  Inv'
  BY <1>3, <1>4, ScriptChains DEF Adopt
<1>5. ASSUME NEW p \in Token, NEW kind \in {"then", "finally"}, NEW f \in Handler, NEW r \in Handler,
             Then(kind, p, f, r)
      PROVE  Inv'
  BY <1>5, ScriptChains DEF Then
<1>6. ASSUME NEW p \in Token, NEW h \in Handler, NEW g \in Handler, ThenOnCall(p, h, g)
      PROVE  Inv'
  <2>1. DataInv' /\ Grows
    BY <1>6, ThenOnCallData DEF Inv, CInv
  <2>2. Lowering /\ UNCHANGED <<calls, awaiting, phase, pass, progress, emitted>>
    BY <1>6 DEF ThenOnCall
  <2>3. QED BY <2>1, <2>2, ScriptCreates
<1>7. ASSUME NEW p \in Token, NEW h \in Handler, AsyncCall(p, h)
      PROVE  Inv'
  BY <1>7, AsyncCallKeeps
<1>8. QED BY <1>1, <1>2, <1>3, <1>4, <1>5, <1>6, <1>7, BeginDrainKeeps, ScriptThrowsKeeps DEF Script

LEMMA NextInv ==
    ASSUME Inv, [Next]_vars
    PROVE  Inv'
<1>1. CASE Script
  BY <1>1, ScriptKeeps
<1>2. CASE Apply
  BY <1>2, ApplyKeeps
<1>3. CASE AsyncResult
  BY <1>3, AsyncResultKeeps
<1>4. CASE Drain
  BY <1>4, VisitKeeps, NextPassKeeps, EndDrainKeeps DEF Drain
<1>5. CASE UNCHANGED vars
  <2>1. UNCHANGED <<created, settlements, chains, calls, emitted, awaiting, phase, pass, progress>>
    BY <1>5 DEF vars
  <2>2. CInv'
    BY <2>1, Still DEF Inv
  <2>3. AwaitInv' /\ PassInv'
    BY <2>1 DEF Inv, AwaitInv, PassInv, IsSettled, Runnable, HasChain, Ahead
  <2>4. QED BY <2>2, <2>3 DEF Inv
<1>6. QED BY <1>1, <1>2, <1>3, <1>4, <1>5 DEF Next

LEMMA Invariance == Spec => []Inv
<1>1. Init => Inv
  BY InitInv
<1>2. Inv /\ [Next]_vars => Inv'
  BY NextInv
<1>3. QED BY <1>1, <1>2, PTL DEF Spec

LEMMA InvTypes ==
    ASSUME Inv
    PROVE  TypeOK
<1>1. \A i \in DOMAIN calls : calls[i] \in Frame
  BY ElementOfSeq, LenProperties DEF Inv, CInv, Stack
<1>2. \A i \in DOMAIN emitted : emitted[i] \in Token
  BY ElementOfSeq, LenProperties DEF Inv, CInv, EmittedInv
<1>3. QED BY <1>1, <1>2 DEF TypeOK, Inv, CInv, DataInv, Promises, AwaitInv, PassInv

(* The compiler's tables and its stack hold what they are declared to      *)
(* hold, whatever the program it lowers.                                   *)
THEOREM TypesAlways == Spec => []TypeOK
<1>1. Inv => TypeOK
  BY InvTypes
<1>2. QED BY <1>1, Invariance, PTL

(* The code of a reaction in the tables is emitted at most once            *)
(* (analysis/src/lib.rs, apply_promise_chain): no way of resolving         *)
(* promises by one another makes the compiler inline it again.             *)
THEOREM InlinedOnceAlways == Spec => []InlinedOnce
<1>1. Inv => InlinedOnce
  <2>1. Inv => emitted \in Seq(Token) /\ Once(emitted)
    BY DEF Inv, CInv, EmittedInv
  <2>2. emitted \in Seq(Token) => DOMAIN emitted = 1 .. Len(emitted)
    BY LenProperties
  <2>3. QED BY <2>1, <2>2 DEF Once, InlinedOnce
<1>2. QED BY <1>1, Invariance, PTL

(* Each settlement is what JavaScript makes of the parent's settlement and *)
(* the handler (settle_existing_promise), in whatever order and however    *)
(* deep inside one another resolve_promise and the drain apply the chains. *)
THEOREM SettlementsFollowAlways == Spec => []SettlementsFollow
<1>1. Inv => SettlementsFollow
  <2>1. Inv => \A t \in Token : t \in Reference
    BY KnownTokens DEF Inv, CInv, DataInv
  <2>2. QED BY <2>1 DEF Inv, CInv, DataInv, Follows, Due, SettlementsFollow
<1>2. QED BY <1>1, Invariance, PTL

(* When drain_promise_jobs ends, no reaction of its tables is left that    *)
(* could run: what async handlers register during a pass is seen by a      *)
(* later one.                                                              *)
THEOREM DrainCompleteAlways == Spec => []DrainComplete
<1>1. Inv => DrainComplete
  BY DEF Inv, PassInv, DrainComplete
<1>2. QED BY <1>1, Invariance, PTL

=============================================================================
