---------------------------- MODULE StaticPromise ----------------------------
(***************************************************************************)
(* Promise lowering of the typed native compiler (analysis/src/lib.rs,     *)
(* struct Lowerer).  The compiler does not leave reactions to the runtime: *)
(* it decides, while it lowers the program, which handler runs with which  *)
(* settlement, inlines the handler's code there, and emits one settle      *)
(* instruction.  The order of the emitted handlers is the order in which   *)
(* the compiled program runs them.                                         *)
(*                                                                         *)
(* A token is the SSA value of a promise; tokens are numbered in the order *)
(* of promise_order.  0 stands for every SSA value that no table of the    *)
(* compiler knows: a promise read back from the Cell that a closure's      *)
(* capture made of its variable, or answered by a compiled function.       *)
(*                                                                         *)
(* The script is open; the functions it uses as handlers are given         *)
(* (Program).  An async function is lowered in place and may work on a     *)
(* promise of its own, with a function `next` as reaction.  A synchronous  *)
(* function is lowered by a child Lowerer with promise tables of its own,  *)
(* which are dropped: what it registers never runs, so it only counts how  *)
(* it ends, and a promise it returns is 0 to the tables.                   *)
(* calls is the Rust call stack of apply_promise_chain and resolve_promise, *)
(* one frame per promise that is being settled.                            *)
(***************************************************************************)
EXTENDS Naturals, Sequences, FiniteSets

CONSTANTS
    MaxTokens,     \* bound: promises in one program
    ScriptTokens,  \* bound: promises that exist when the script has made its last
    Plain,         \* values that are not promises
    Names,         \* the functions of the program
    Program,       \* their bodies, a function from Names to Code
    Result,        \* what JavaScript makes of a call of each
    Uses           \* what the script does with promises, a subset of AllUses

AllUses == {"pending", "adopt", "then", "catch", "finally", "async", "chained", "celled"}

Token == 1 .. MaxTokens
Reference == 0 .. MaxTokens
Outcome == {"fulfilled", "rejected"}
Settlement == [state : Outcome, value : Plain]
Unsettled == [state |-> "none"]

(* return, throw: any function.  promise: a synchronous function that      *)
(* returns a promise.  await, forward, then: an async function that makes  *)
(* a promise of its own, registers next on it, and awaits that reaction    *)
(* before it returns value, returns that reaction, or just returns value.  *)
InPlace == {"await", "forward", "then"}
Code == [ends : {"return", "throw", "promise"} \union InPlace, value : Plain, next : Names]
NoHandler == [ends |-> "none"]
Handler == {NoHandler} \union Code

Fulfilled(v) == [state |-> "fulfilled", value |-> v]

ResultOf(code) ==
    IF code.ends = "throw" THEN [state |-> "rejected", value |-> code.value]
    ELSE IF \/ code.ends = "forward"
            \/ code.ends = "await" /\ Result[code.next].state = "rejected"
    THEN Result[code.next]
    ELSE Fulfilled(code.value)

ASSUME BoundsAssumption == MaxTokens \in Nat /\ ScriptTokens \in Nat
ASSUME ProgramAssumption == Uses \subseteq AllUses /\ Program \in [Names -> Code]
ASSUME ResultAssumption ==
    /\ Result \in [Names -> Settlement]
    /\ \A n \in Names : Result[n] = ResultOf(Program[n])

Unchained == [kind |-> "none"]
Chain == [kind : {"then", "finally"}, parent : Reference, fulfilled : Handler, rejected : Handler]

(* A frame settles token; from resolve_promise it is in                    *)
(* promise_resolution_stack, from drain_promise_jobs it is not.  Once its  *)
(* handler is being inlined, on is the promise the handler works with.     *)
Frame == [token : Reference, tracked : BOOLEAN,
          stage : {"start", "making", "leaving", "awaiting", "returning"}, on : Reference]

VARIABLES
    created,      \* length of promise_order
    settlements,  \* promise_settlements
    chains,       \* promise_chains
    calls,        \* the call stack
    awaiting,     \* the await of an async call of the script being lowered
    phase,        \* script, drain, done, thrown, or failed (the compiler gave up)
    pass,         \* tokens the current pass of the drain has yet to visit
    progress,     \* what the current pass did
    emitted       \* tokens in the order their handlers were inlined

vars == <<created, settlements, chains, calls, awaiting, phase, pass, progress, emitted>>

NoAwait == [state |-> "none"]

TypeOK ==
    /\ created \in 0 .. MaxTokens
    /\ settlements \in [Reference -> Settlement \union {Unsettled}]
    /\ chains \in [Reference -> Chain \union {Unchained}]
    /\ \A i \in DOMAIN calls : calls[i] \in Frame
    /\ awaiting \in {NoAwait}
                \union [state : {"awaiting"}, on : Reference, continuation : Handler]
    /\ phase \in {"script", "drain", "done", "thrown", "failed"}
    /\ pass \in Seq(Token)
    /\ progress \in BOOLEAN
    /\ \A i \in DOMAIN emitted : emitted[i] \in Token

Init ==
    /\ created = 0
    /\ settlements = [t \in Reference |-> Unsettled]
    /\ chains = [t \in Reference |-> Unchained]
    /\ calls = << >>
    /\ awaiting = NoAwait
    /\ phase = "script"
    /\ pass = << >>
    /\ progress = FALSE
    /\ emitted = << >>

-----------------------------------------------------------------------------
Created == 1 .. created
IsSettled(t) == settlements[t] # Unsettled
HasChain(t) == chains[t] # Unchained

NewSettled(state, v) ==
    /\ created < MaxTokens
    /\ created' = created + 1
    /\ settlements' = [settlements EXCEPT ![created + 1] = [state |-> state, value |-> v]]
    /\ UNCHANGED chains

NewPending ==
    /\ created < MaxTokens
    /\ created' = created + 1
    /\ UNCHANGED <<settlements, chains>>

Reaction(kind, parent, f, r) ==
    [kind |-> kind, parent |-> parent, fulfilled |-> f, rejected |-> r]

NewChained(kind, parent, f, r) ==
    /\ created < MaxTokens
    /\ created' = created + 1
    /\ chains' = [chains EXCEPT ![created + 1] = Reaction(kind, parent, f, r)]
    /\ UNCHANGED settlements

-----------------------------------------------------------------------------
(* The script.                                                             *)

Lowering == phase = "script" /\ calls = << >> /\ awaiting = NoAwait
Room(n) == created + n <= ScriptTokens   \* n: copies not counted

(* What the variable of promise p is lowered to.                           *)
Lookup(p) == {p} \union {t \in {0} : "celled" \in Uses}

(* Promise.resolve, Promise.reject, an executor, an async function.        *)
CreateSettled(state, v) ==
    /\ Lowering /\ Room(1)
    /\ NewSettled(state, v)
    /\ UNCHANGED <<calls, awaiting, phase, pass, progress, emitted>>

(* An executor that settles nothing.                                       *)
CreatePending ==
    /\ Lowering /\ Room(1)
    /\ NewPending
    /\ UNCHANGED <<calls, awaiting, phase, pass, progress, emitted>>

(* Resolving with another promise is an identity reaction on it.           *)
Adopt(p) ==
    /\ Lowering /\ Room(1)
    /\ p \in Created
    /\ \E parent \in Lookup(p) : NewChained("then", parent, NoHandler, NoHandler)
    /\ UNCHANGED <<calls, awaiting, phase, pass, progress, emitted>>

Then(kind, p, f, r) ==
    /\ Lowering /\ Room(1)
    /\ p \in Created
    /\ kind = "finally" => r = NoHandler
    /\ \E parent \in Lookup(p) : NewChained(kind, parent, f, r)
    /\ UNCHANGED <<calls, awaiting, phase, pass, progress, emitted>>

(* p.then(f).then(g): lower_call lowers a receiver that is not a variable  *)
(* once to look for a static method and once more for its value.           *)
ThenOnCall(p, f, g) ==
    /\ Lowering /\ Room(2) /\ created + 3 \in Token
    /\ p \in Created
    /\ created' = created + 3
    /\ chains' = [chains EXCEPT
          ![created + 1] = Reaction("then", p, f, NoHandler),
          ![created + 2] = Reaction("then", p, f, NoHandler),
          ![created + 3] = Reaction("then", created + 2, g, NoHandler)]
    /\ UNCHANGED <<settlements, calls, awaiting, phase, pass, progress, emitted>>

(* resolve_promise(t), on top of frames.                                   *)
Tracked(frames) == {frames[i].token : i \in {j \in DOMAIN frames : frames[j].tracked}}
NewFrame(t, tracked) ==
    [token |-> t, tracked |-> tracked, stage |-> "start", on |-> 0]

ResolvePromise(t, frames) ==
    IF IsSettled(t) THEN calls' = frames /\ UNCHANGED phase
    ELSE IF t \notin Tracked(frames)
    THEN calls' = Append(frames, NewFrame(t, TRUE)) /\ UNCHANGED phase
    ELSE phase' = "failed" /\ calls' = << >>

(* Calling an async function that awaits p: p is settled here and now, and *)
(* what follows the await becomes a reaction of p.                         *)
AsyncCall(p, continuation) ==
    /\ Lowering /\ Room(1)
    /\ p \in Created /\ created < MaxTokens
    /\ \E t \in Lookup(p) :
          /\ awaiting' = [state |-> "awaiting", on |-> t, continuation |-> continuation]
          /\ ResolvePromise(t, << >>)
    /\ UNCHANGED <<created, settlements, chains, pass, progress, emitted>>

AsyncResult ==
    /\ phase = "script" /\ calls = << >> /\ awaiting # NoAwait
    /\ LET on == awaiting.on
           s == settlements[on]
       IN \/ NewSettled(s.state, s.value)   \* of a rejection, or return await
          \/ /\ s.state = "fulfilled"
             /\ NewChained("then", on, awaiting.continuation, NoHandler)
    /\ awaiting' = NoAwait
    /\ UNCHANGED <<calls, phase, pass, progress, emitted>>

-----------------------------------------------------------------------------
(* A frame at work: apply_promise_chain, then settle_existing_promise.     *)

Top == calls[Len(calls)]
Below == SubSeq(calls, 1, Len(calls) - 1)
SetTop(frame) == Append(Below, frame)
Staged(stage, t) == SetTop([Top EXCEPT !.stage = stage, !.on = t])

Busy == calls # << >> /\ phase \in {"script", "drain"}

HandlerOf(t) ==
    LET chain == chains[t] IN
    IF chain.kind = "finally" \/ settlements[chain.parent].state = "fulfilled"
    THEN chain.fulfilled ELSE chain.rejected

Plainly(h) ==
    [state |-> IF h.ends = "return" THEN "fulfilled" ELSE "rejected", value |-> h.value]

(* What a handler's completion makes of the chain's own promise.           *)
Completion(t, s) ==
    IF chains[t].kind = "finally" /\ s.state = "fulfilled"
    THEN settlements[chains[t].parent] ELSE s

Finish(s) ==
    /\ settlements' = IF IsSettled(Top.token) THEN settlements
                      ELSE [settlements EXCEPT ![Top.token] = s]
    /\ calls' = Below

MayApply ==
    /\ Busy /\ Top.stage = "start"
    /\ HasChain(Top.token) /\ IsSettled(chains[Top.token].parent)

NoChain ==
    /\ Busy /\ ~HasChain(Top.token)
    /\ phase' = "failed" /\ calls' = << >>
    /\ UNCHANGED <<created, settlements, chains, awaiting, pass, progress, emitted>>

ResolveParent ==
    /\ Busy /\ HasChain(Top.token) /\ ~IsSettled(chains[Top.token].parent)
    /\ ResolvePromise(chains[Top.token].parent, calls)
    /\ UNCHANGED <<created, settlements, chains, awaiting, pass, progress, emitted>>

(* Variants with a plausible defect, which the properties must rule out,   *)
(* stand before the definition they vary.                                  *)
DefaultHandlerFulfils ==
    /\ MayApply /\ HandlerOf(Top.token) = NoHandler
    /\ Finish([settlements[chains[Top.token].parent] EXCEPT !.state = "fulfilled"])
    /\ UNCHANGED <<created, chains, awaiting, phase, pass, progress, emitted>>

DefaultHandler ==
    /\ MayApply /\ HandlerOf(Top.token) = NoHandler
    /\ Finish(settlements[chains[Top.token].parent])
    /\ UNCHANGED <<created, chains, awaiting, phase, pass, progress, emitted>>

InlinePlain ==
    /\ MayApply /\ HandlerOf(Top.token).ends \in {"return", "throw"}
    /\ Finish(Completion(Top.token, Plainly(HandlerOf(Top.token))))
    /\ emitted' = Append(emitted, Top.token)
    /\ UNCHANGED <<created, chains, awaiting, phase, pass, progress>>

(* The call of a compiled function answers a fresh SSA value; if its type  *)
(* is a promise, the compiler looks for a settlement nobody recorded.      *)
InlinePromise ==
    /\ MayApply /\ HandlerOf(Top.token).ends = "promise"
    /\ phase' = "failed" /\ calls' = << >>
    /\ emitted' = Append(emitted, Top.token)
    /\ UNCHANGED <<created, settlements, chains, awaiting, pass, progress>>

(* An async handler is lowered in place: it makes its promise,             *)
InlineAsync ==
    /\ MayApply /\ HandlerOf(Top.token).ends \in InPlace
    /\ NewSettled("fulfilled", HandlerOf(Top.token).value)
    /\ calls' = Staged("making", created + 1)
    /\ emitted' = Append(emitted, Top.token)
    /\ UNCHANGED <<awaiting, phase, pass, progress>>

(* registers next on it, and has that settled at once if it awaits or      *)
(* returns it.                                                             *)
HandlerRegisters ==
    /\ Busy /\ Top.stage = "making"
    /\ LET h == HandlerOf(Top.token) IN
       /\ NewChained("then", Top.on, Program[h.next], NoHandler)
       /\ \/ /\ h.ends = "then"
             /\ calls' = Staged("leaving", 0)
          \/ /\ h.ends \in {"await", "forward"}
             /\ calls' = Append(Staged(IF h.ends = "await" THEN "awaiting" ELSE "returning",
                                      created + 1),
                               NewFrame(created + 1, TRUE))
    /\ UNCHANGED <<awaiting, phase, pass, progress, emitted>>

HandlerLeaves ==
    /\ Busy /\ Top.stage = "leaving"
    /\ Finish(Completion(Top.token, Fulfilled(HandlerOf(Top.token).value)))
    /\ UNCHANGED <<created, chains, awaiting, phase, pass, progress, emitted>>

(* The await of an async handler is over: the rest of the handler becomes  *)
(* a reaction of its own, and the handler returns the promise of that.     *)
HandlerGoesOn ==
    /\ Busy /\ Top.stage = "awaiting" /\ IsSettled(Top.on)
    /\ LET s == settlements[Top.on]
           rest == [HandlerOf(Top.token) EXCEPT !.ends = "return"]
           frames == Staged("returning", created + 1)
       IN \/ /\ s.state = "rejected"
             /\ NewSettled("rejected", s.value)
             /\ calls' = frames
          \/ /\ s.state = "fulfilled"
             /\ NewChained("then", Top.on, rest, NoHandler)
             /\ calls' = Append(frames, NewFrame(created + 1, TRUE))
    /\ UNCHANGED <<awaiting, phase, pass, progress, emitted>>

HandlerReturns ==
    /\ Busy /\ Top.stage = "returning" /\ IsSettled(Top.on)
    /\ Finish(Completion(Top.token, settlements[Top.on]))
    /\ UNCHANGED <<created, chains, awaiting, phase, pass, progress, emitted>>

-----------------------------------------------------------------------------
(* The end of the script, and drain_promise_jobs.                          *)

BeginPassReversed ==
    /\ pass' = [t \in Created |-> created + 1 - t]
    /\ progress' = FALSE

BeginPass ==
    /\ pass' = [t \in Created |-> t]
    /\ progress' = FALSE

BeginDrain ==
    /\ Lowering
    /\ phase' = "drain"
    /\ BeginPass
    /\ UNCHANGED <<created, settlements, chains, calls, awaiting, emitted>>

(* A throw at the top level: queued reactions are not run.                 *)
ScriptThrows ==
    /\ Lowering
    /\ phase' = "thrown"
    /\ UNCHANGED <<created, settlements, chains, calls, awaiting, pass, progress, emitted>>

Draining == phase = "drain" /\ calls = << >>
RunnableAgain(t) == HasChain(t) /\ IsSettled(chains[t].parent)

Runnable(t) == ~IsSettled(t) /\ HasChain(t) /\ IsSettled(chains[t].parent)

Visit ==
    /\ Draining /\ pass # << >>
    /\ pass' = Tail(pass)
    /\ IF Runnable(Head(pass))
       THEN calls' = <<NewFrame(Head(pass), FALSE)>> /\ progress' = TRUE
       ELSE UNCHANGED <<calls, progress>>
    /\ UNCHANGED <<created, settlements, chains, awaiting, phase, emitted>>

NextPassAlways ==
    /\ Draining /\ pass = << >>
    /\ BeginPass
    /\ UNCHANGED <<created, settlements, chains, calls, awaiting, phase, emitted>>

NextPass ==
    /\ Draining /\ pass = << >> /\ progress
    /\ BeginPass
    /\ UNCHANGED <<created, settlements, chains, calls, awaiting, phase, emitted>>

EndDrainAfterOnePass ==
    /\ Draining /\ pass = << >>
    /\ phase' = "done"
    /\ UNCHANGED <<created, settlements, chains, calls, awaiting, pass, progress, emitted>>

EndDrain ==
    /\ Draining /\ pass = << >> /\ ~progress
    /\ phase' = "done"
    /\ UNCHANGED <<created, settlements, chains, calls, awaiting, pass, progress, emitted>>

-----------------------------------------------------------------------------
Handlers == {Program[n] : n \in Names}
AsyncHandlers == {h \in Handlers : h.ends # "promise"}

Script ==
    \/ "pending" \in Uses /\ CreatePending
    \/ \E state \in Outcome, v \in Plain : CreateSettled(state, v)
    \/ "adopt" \in Uses /\ \E p \in Token : Adopt(p)
    \/ \E p \in Token, h \in Handlers :
          \/ "then" \in Uses /\ Then("then", p, h, NoHandler)
          \/ "catch" \in Uses /\ Then("then", p, NoHandler, h)
          \/ "finally" \in Uses /\ Then("finally", p, h, NoHandler)
          \/ "chained" \in Uses /\ \E g \in Handlers : ThenOnCall(p, h, g)
    \/ "async" \in Uses /\ \E p \in Token, h \in AsyncHandlers : AsyncCall(p, h)
    \/ BeginDrain \/ ScriptThrows

Apply ==
    \/ NoChain \/ ResolveParent \/ DefaultHandler \/ InlinePlain \/ InlinePromise
    \/ InlineAsync \/ HandlerRegisters \/ HandlerLeaves \/ HandlerGoesOn \/ HandlerReturns

Drain == Visit \/ NextPass \/ EndDrain

Next == Script \/ Apply \/ AsyncResult \/ Drain

(* The compiler is a sequential program.                                   *)
Fairness == WF_vars(Apply \/ AsyncResult \/ Drain)

Spec == Init /\ [][Next]_vars
FairSpec == Spec /\ Fairness

-----------------------------------------------------------------------------
(* Correctness.                                                            *)

(* The code of a reaction in the tables is emitted at most once, although  *)
(* the drain goes over a copy of promise_order while handlers that it      *)
(* inlines, and async calls before it, settle promises out of turn.        *)
InlinedOnce == \A i, j \in DOMAIN emitted : emitted[i] = emitted[j] => i = j

(* Whatever the order in which chains were resolved, and however deep      *)
(* inside one another handlers were inlined, each settlement is the one    *)
(* JavaScript derives from the parent's settlement and the handler.        *)
Called(t) ==
    IF HandlerOf(t) = NoHandler THEN settlements[chains[t].parent]
    ELSE Completion(t, ResultOf(HandlerOf(t)))

SettlementsFollow ==
    \A t \in Token : IsSettled(t) /\ HasChain(t) =>
        IsSettled(chains[t].parent) /\ settlements[t] = Called(t)

(* The drain runs the reactions of its tables in the order they were       *)
(* registered in: one that could run never has to wait for a later one,    *)
(* except for those that an inlined handler awaits or returns, which are   *)
(* settled by recursion, out of turn.                                      *)
OrderKept ==
    [][phase = "drain" /\ Len(calls) = 1 /\ emitted' # emitted =>
          \A t \in Token : t < Top.token => ~Runnable(t)]_vars

(* The drain leaves no reaction of its tables behind that could run, those *)
(* included that inlined async handlers registered during its last pass.   *)
DrainComplete == phase = "done" => \A t \in Token : ~Runnable(t)

(* Lowering ends, although handlers are inlined inside one another and     *)
(* every pass may make another pass necessary, for functions that do not   *)
(* reach themselves through next.                                          *)
CompilerTerminates ==
    /\ calls # << >> ~> calls = << >>
    /\ phase = "drain" ~> phase \in {"done", "failed"}

=============================================================================
