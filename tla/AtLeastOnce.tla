----------------------------- MODULE AtLeastOnce -----------------------------
(***************************************************************************)
(* What the gateway is promised of the commands that are sent to it: each  *)
(* is handled at most once by one process and kept until it was handled,   *)
(* a new process gets again what was not acknowledged.  A command may be   *)
(* missed, and be lost with it, only before its queue is listened to.      *)
(***************************************************************************)
CONSTANTS
  Queues,    \* the command queues
  Messages   \* the commands, a record with the queue in field "to"

VARIABLES
  status,  \* what became of each command
  heard    \* the queues the process listens to

vars == <<status, heard>>

Statuses == {"unsent", "waiting", "handled", "missed", "gone", "dead"}

TypeOK ==
  /\ status \in [Messages -> Statuses]
  /\ heard \in [Queues -> BOOLEAN]

Init ==
  /\ status = [m \in Messages |-> "unsent"]
  /\ heard = [q \in Queues |-> FALSE]

Becomes(m, from, to) ==
  /\ status[m] = from
  /\ status' = [status EXCEPT ![m] = to]
  /\ UNCHANGED heard

Send(m) == Becomes(m, "unsent", "waiting")
Handle(m) == heard[m.to] /\ Becomes(m, "waiting", "handled")
Acknowledge(m) == Becomes(m, "handled", "gone")
Miss(m) == ~heard[m.to] /\ Becomes(m, "waiting", "missed")
Bury(m) == Becomes(m, "missed", "dead")

Listen(q) ==
  /\ heard' = [heard EXCEPT ![q] = TRUE]
  /\ UNCHANGED status

(* A new process: the commands that were not acknowledged wait again.      *)
Restart ==
  /\ status' = [m \in Messages |->
       IF status[m] \in {"handled", "missed"} THEN "waiting" ELSE status[m]]
  /\ heard' = [q \in Queues |-> FALSE]

Next ==
  \/ Restart
  \/ \E q \in Queues : Listen(q)
  \/ \E m \in Messages :
       Send(m) \/ Handle(m) \/ Acknowledge(m) \/ Miss(m) \/ Bury(m)

Spec == Init /\ [][Next]_vars
=============================================================================
