--------------------------- MODULE MCNativeRuntime --------------------------
(* Two ids, which may be exchanged, and three payloads: one of the country  *)
(* with id 0, one of another country, one the parser refuses.               *)
EXTENDS NativeRuntime, TLC

IdSymmetry == Permutations(Ids)
=============================================================================
