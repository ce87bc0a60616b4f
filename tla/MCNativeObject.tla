--------------------------- MODULE MCNativeObject ---------------------------
(* Instances of NativeObject for TLC: objects are interchangeable.         *)
EXTENDS NativeObject, TLC

Symmetry == Permutations(Object)

=============================================================================
