--------------------------- MODULE MCPromiseMachine ---------------------------
(***************************************************************************)
(* Instances of PromiseMachine for TLC.  Each program uses some of the     *)
(* features, so that the interleavings of those can be explored with       *)
(* enough promises and reactions.                                          *)
(***************************************************************************)
EXTENDS PromiseMachine

ThenProgram ==
    [features |-> {"constructor", "then"}, promises |-> 3, reactions |-> 2, depth |-> 4]
AsyncProgram ==
    [features |-> {"async", "await"}, promises |-> 3, reactions |-> 3, depth |-> 5]
ObjectProgram ==
    [features |-> {"constructor", "then", "object", "getter", "reason"},
     promises |-> 2, reactions |-> 2, depth |-> 3]
AsyncObjectProgram ==
    [features |-> {"async", "object"}, promises |-> 2, reactions |-> 2, depth |-> 3]
AsyncThenProgram ==
    [features |-> {"then", "async", "await"}, promises |-> 3, reactions |-> 2, depth |-> 12]

AllPrograms == {ThenProgram, AsyncProgram, ObjectProgram, AsyncObjectProgram, AsyncThenProgram}
ConstructorPrograms == {[ThenProgram EXCEPT !.promises = 2, !.depth = 4]}

=============================================================================
