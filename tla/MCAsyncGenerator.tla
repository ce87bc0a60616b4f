-------------------------- MODULE MCAsyncGenerator --------------------------
(* Instances of AsyncGenerator for TLC: bodies that cover every way of     *)
(* resuming, with statements before, between and after the yields.         *)
EXTENDS AsyncGenerator

SomeBodies == {
    << >>,
    <<"plain", "discard">>,
    <<"initialize", "plain", "return">>,
    <<"assign", "discard">> }

=============================================================================
