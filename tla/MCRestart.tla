----------------------------- MODULE MCRestart -----------------------------
(* Constant values for the instance of Restart that TLC checks.            *)
EXTENDS Restart

CONSTANT s1
=============================================================================
