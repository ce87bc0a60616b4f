--------------------------- MODULE MCNativePromise ---------------------------
(***************************************************************************)
(* Instances of NativePromise for TLC.  One plain value and one handler    *)
(* are enough: no guard of promise_abi.c looks at a plain value, and of a  *)
(* handler it only asks whether it is NULL.                                *)
(***************************************************************************)
EXTENDS NativePromise

=============================================================================
