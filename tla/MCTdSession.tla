---------------------------- MODULE MCTdSession ------------------------------
(* TdSession with one order and a settlement in two pieces.                *)
EXTENDS TdSession

CONSTANT o1
MCOrders == {o1}
=============================================================================
