----------------------------- MODULE TimeManager -----------------------------
(***************************************************************************)
(* TimeManagerImpl: when the threads sleep and when data is fetched again, *)
(* as functions of the time.  A time is a number of minutes since a Monday *)
(* 0:00; a thread reads the clock just after the full minute.              *)
(***************************************************************************)
EXTENDS Integers, FiniteSetsExt

CONSTANTS
  BarOpenTime,    \* when the night session opens (21:00)
  BarCloseTime,   \* when the day session closes (15:00)
  NightCloseHour  \* the last hour of the night session (3)

ASSUME TimeAssumption ==
  /\ BarOpenTime \in 0..1439 /\ BarCloseTime \in 0..1439
  /\ BarCloseTime + 60 < BarOpenTime
  /\ NightCloseHour \in 0..23

MinutesOfDay == 1440
At(hour, minute) == 60 * hour + minute
Clock(t) == t % MinutesOfDay             \* the time of the day
Date(t) == t \div MinutesOfDay           \* the day, 0 is a Monday
Midnight(t) == Date(t) * MinutesOfDay
DayOfWeek(t) == Date(t) % 7
Friday == 4
Saturday == 5
Sunday == 6
Weekend(t) == DayOfWeek(t) \in {Saturday, Sunday}
Next24(t, days) == Midnight(t) + days * MinutesOfDay

Closed(t) == Clock(t) >= BarCloseTime /\ Clock(t) < BarOpenTime

-----------------------------------------------------------------------------
(* waitTillNextRound: when a round that begins to wait at t comes.         *)

(* Calendar.HOUR is the hour of the half day: set to 0 in the afternoon it *)
(* gives noon.                                                             *)
NextMonday(t) ==
  Next24(t, 7 - DayOfWeek(t))
    + (IF Clock(t) >= At(12, 0) THEN At(12, 0) ELSE 0)

AllSaturday(t) == Weekend(t)  \* mutant: the night session of Friday is missed
WeekendBreak(t) ==
  \/ DayOfWeek(t) = Saturday /\ Clock(t) >= At(NightCloseHour + 1, 0)
  \/ DayOfWeek(t) = Sunday

(* The minute before the opening, where the rules are made again; from     *)
(* then on and in the sessions half a second, here a minute.               *)
Opening(t) == Midnight(t) + BarOpenTime  \* mutant: sleeps until the opening
BeforeOpen(t) == Midnight(t) + BarOpenTime - 1

NextRound(t) ==
  CASE WeekendBreak(t) -> NextMonday(t)
    [] ~WeekendBreak(t) /\ Closed(t) /\ t < BeforeOpen(t) -> BeforeOpen(t)
    [] OTHER -> t + 1

(* waitTillNextWorkingDay: the next time that it is runTime on a working   *)
(* day.                                                                    *)
Tomorrow(t) == 1  \* mutant: Friday is a day like the others
DaysToNext(t) ==
  CASE DayOfWeek(t) = Friday   -> 3
    [] DayOfWeek(t) = Saturday -> 2
    [] OTHER                   -> 1
DaysToThis(t) ==
  CASE DayOfWeek(t) = Saturday -> 2
    [] DayOfWeek(t) = Sunday   -> 1
    [] OTHER                   -> 0

NextRun(runTime, t) ==
  runTime + IF runTime <= Clock(t) THEN Next24(t, DaysToNext(t))
                                   ELSE Next24(t, DaysToThis(t))
NextRunOf(runTimes, t) == Min({NextRun(r, t) : r \in runTimes})

-----------------------------------------------------------------------------
(* needRefreshBeforeOpen: in the closed market of a working day, an hour   *)
(* after the close, unless refreshed since the close.                      *)
Never == -1
NeedRefreshBeforeOpen(last, t) ==
  /\ ~Weekend(t)
  /\ Clock(t) >= BarCloseTime + 60 /\ Clock(t) < BarOpenTime
  /\ last < Midnight(t) + BarCloseTime

(* isTimeInIntervals: the time of the day lies in one of the intervals,    *)
(* which may end on the next day.                                          *)
InInterval(c, from, to) ==
  IF from < to THEN from <= c /\ c <= to ELSE from <= c \/ c <= to
IsTimeInIntervals(t, intervals) ==
  \E i \in intervals : InInterval(Clock(t), i.from, i.to)
=============================================================================
