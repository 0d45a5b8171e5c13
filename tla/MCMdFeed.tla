------------------------------ MODULE MCMdFeed ------------------------------
(* Constant values for the instances of MdFeed that TLC checks.            *)
EXTENDS MdFeed, TLC

CONSTANTS s1, s2
=============================================================================
