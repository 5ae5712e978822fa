----------------------- MODULE MCCompatibilityControl ------------------------
(* Two scenarios in a plan that passes the offline check, and a plan of one *)
(* whose commands cannot be built.                                          *)
EXTENDS CompatibilityControl

CONSTANTS build, explore, good, broken

MCEnabled == [p \in Plans |-> IF p = good THEN <<build, explore>> ELSE <<explore>>]
=============================================================================
