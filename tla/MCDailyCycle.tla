---------------------------- MODULE MCDailyCycle -----------------------------
(* DailyCycle with the times of future-context.xml, from a Friday to the   *)
(* Tuesday after: the sessions before and after a weekend.                 *)
EXTENDS DailyCycle

MCMonitor == {At(8, 57), At(20, 57)}
MCIntervals == {[from |-> At(9, 0), to |-> At(15, 0)],
                [from |-> At(21, 0), to |-> At(2, 30)]}

(* One instant in each part of the day, and those of the timers.           *)
MCInstants ==
  {0, At(2, 0), At(4, 0), At(8, 57), At(10, 0), At(14, 0), At(15, 10),
   At(15, 20), At(16, 30), At(20, 57), At(20, 59), At(21, 0)}
MCEnd == 8 * MinutesOfDay + At(4, 0)

(* Friday to Sunday.                                                       *)
MCStarts == {d * MinutesOfDay + i : d \in 4..6, i \in MCInstants}
=============================================================================
