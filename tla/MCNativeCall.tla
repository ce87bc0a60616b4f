----------------------------- MODULE MCNativeCall -----------------------------
(* Instances of NativeCall for TLC.  Two numbers tell the arguments of a   *)
(* bound function from those of its call; the lists of the typed program   *)
(* have different lengths and reuse the tail-call buffer.                  *)
EXTENDS NativeCall

One == Number(1)
Two == Number(2)

TypedProgram ==
    [path |-> "typed", strict |-> FALSE, limit |-> 3, lists |-> {<<>>, <<One>>, <<Two, One>>},
     receivers |-> {}, callables |-> 1, objects |-> 0]

(* Calls within calls, of functions, arrows and bound functions.           *)
NestedProgram(strict) ==
    [path |-> "generic", strict |-> strict, limit |-> 2, lists |-> {<<One>>},
     receivers |-> {"object", "callable"}, callables |-> 2, objects |-> 1]

(* Chains of two bound functions.                                          *)
BoundProgram ==
    [path |-> "generic", strict |-> FALSE, limit |-> 1, lists |-> {<<One>>, <<Two>>},
     receivers |-> {"object"}, callables |-> 3, objects |-> 1]

AllPrograms == {TypedProgram, NestedProgram(TRUE), NestedProgram(FALSE), BoundProgram}

=============================================================================
