--------------------------- MODULE MCStaticPromise ---------------------------
(***************************************************************************)
(* Instances of StaticPromise for TLC: the functions of the programs and   *)
(* what the scripts use.                                                   *)
(***************************************************************************)
EXTENDS StaticPromise

CONSTANT undefined

Does(ends, next) == [ends |-> ends, value |-> undefined, next |-> next]

(* Every way to end, and async functions inside async functions.           *)
EveryFunction ==
    [ok |-> Does("return", "ok"), bad |-> Does("throw", "bad"),
     sync |-> Does("promise", "ok"),
     waits |-> Does("await", "ok"), fails |-> Does("await", "bad"),
     leaves |-> Does("then", "waits"), passes |-> Does("forward", "leaves")]

(* The results of programs whose functions do not reach themselves.        *)
ResultsOf(program) ==
    LET depth[k \in 0 .. Cardinality(DOMAIN program)] ==
            [n \in DOMAIN program |->
                LET code == program[n] IN
                IF code.ends = "throw" THEN [state |-> "rejected", value |-> code.value]
                ELSE IF k > 0 /\ \/ code.ends = "forward"
                                 \/ code.ends = "await" /\ depth[k - 1][code.next].state = "rejected"
                THEN depth[k - 1][code.next]
                ELSE Fulfilled(code.value)]
    IN depth[Cardinality(DOMAIN program)]

EveryName == DOMAIN EveryFunction
EveryResult == ResultsOf(EveryFunction)

=============================================================================
