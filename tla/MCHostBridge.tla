----------------------------- MODULE MCHostBridge -----------------------------
(* Two runs, one after the other or both at the lock.                       *)
EXTENDS HostBridge
===============================================================================
