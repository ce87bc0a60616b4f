--------------------------- MODULE PromiseContract ---------------------------
(***************************************************************************)
(* What both promise implementations of the compiler promise to a program, *)
(* with queues, jobs, handlers and values abstracted away: a promise is    *)
(* settled at most once, and a reaction attached to it waits while the     *)
(* promise is pending, is ready once it is settled, and is consumed        *)
(* exactly once, oldest first among the reactions of the same promise.     *)
(*                                                                         *)
(* NativePromise (the C ABI) and PromiseMachine (the Rust machine) are     *)
(* both checked against this specification.                                *)
(***************************************************************************)
EXTENDS Naturals

CONSTANTS
    Promise,      \* promise identities
    MaxReactions  \* how many reactions a behaviour may attach

VARIABLES
    outcome,  \* outcome[p]: "free" until p is allocated, then its state
    life,     \* life[r]: where reaction r stands
    source    \* source[r]: the promise r was attached to

vars == <<outcome, life, source>>

Reaction == 1 .. MaxReactions
Settled == {"fulfilled", "rejected"}
Outcome == {"free", "pending"} \union Settled
Life == {"none", "waiting", "ready", "done"}

TypeOK ==
    /\ outcome \in [Promise -> Outcome]
    /\ life \in [Reaction -> Life]
    /\ \A r \in Reaction : life[r] \in {"waiting", "ready"} => source[r] \in Promise

Init ==
    /\ outcome = [p \in Promise |-> "free"]
    /\ life = [r \in Reaction |-> "none"]
    /\ source = [r \in Reaction |-> 0]

(* A promise may be born pending or settled; a settled one never moves.    *)
OutcomeStep ==
    \A p \in Promise :
        \/ outcome'[p] = outcome[p]
        \/ outcome[p] = "free" /\ outcome'[p] \in Outcome
        \/ outcome[p] = "pending" /\ outcome'[p] \in Settled

(* A reaction is attached, becomes ready and is consumed, never backwards. *)
LifeStep ==
    \A r \in Reaction :
        \/ life'[r] = life[r]
        \/ life[r] = "none" /\ life'[r] \in {"waiting", "ready"}
        \/ life[r] = "waiting" /\ life'[r] = "ready"
        \/ life[r] = "ready" /\ life'[r] = "done"

(* The promise a reaction was attached to does not change while it counts. *)
SourceFixed ==
    \A r \in Reaction :
        life[r] # "none" /\ life'[r] # "done" => source'[r] = source[r]

(* A reaction waits exactly while its promise is pending.                  *)
WaitsWhilePending ==
    \A r \in Reaction :
        /\ life[r] = "waiting" => outcome[source[r]] = "pending"
        /\ life[r] = "ready" => outcome[source[r]] \in Settled

Consumed(r) == life[r] = "ready" /\ life'[r] = "done"

(* One reaction at a time, and no older one of the same promise is left.   *)
OldestFirst ==
    \A r \in Reaction : Consumed(r) =>
        /\ \A s \in Reaction : Consumed(s) => s = r
        /\ \A s \in Reaction :
              s < r /\ life[s] \in {"waiting", "ready"} => source[s] # source[r]

Next ==
    /\ OutcomeStep
    /\ LifeStep
    /\ SourceFixed
    /\ WaitsWhilePending'
    /\ OldestFirst

Spec == Init /\ [][Next]_vars

=============================================================================
