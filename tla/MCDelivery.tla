----------------------------- MODULE MCDelivery -----------------------------
(* Constant values for the instances of Delivery that TLC checks.          *)
EXTENDS Delivery

(* main() listens to QUEUE_MD_COMMAND first.                               *)
MCOrder == <<"md", "td">>
=============================================================================
