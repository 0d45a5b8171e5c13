-------------------------- MODULE DailyCycle_proofs --------------------------
(***************************************************************************)
(* Proofs about TimeManager and DailyCycle: no thread sleeps through what  *)
(* it is for.  A runner's next time is the next one of a working day, and  *)
(* the executor is awake in every session of any week, but for the Monday  *)
(* morning after a start on a weekend's afternoon.                         *)
(* From it follow the runner's days, the lists and the rules of a session. *)
(***************************************************************************)
EXTENDS DailyCycle, WellFoundedInduction, TLAPS

-----------------------------------------------------------------------------
(* Days and minutes.                                                       *)
LEMMA DayAndMinute ==
  ASSUME NEW t \in Nat
  PROVE  /\ Date(t) \in Nat /\ Clock(t) \in 0..1439
         /\ t = 1440 * Date(t) + Clock(t)
         /\ Midnight(t) = 1440 * Date(t)
         /\ DayOfWeek(t) = Date(t) % 7 /\ DayOfWeek(t) \in 0..6
BY DEF Date, Clock, Midnight, DayOfWeek, MinutesOfDay

(* A time is earlier when its day is, or on one day its minute.            *)
LEMMA Earlier ==
  ASSUME NEW t \in Nat, NEW u \in Nat
  PROVE  /\ t < u <=> \/ Date(t) < Date(u)
                      \/ Date(t) = Date(u) /\ Clock(t) < Clock(u)
         /\ t <= u => Date(u) >= Date(t) /\ (Date(u) = Date(t) => Clock(u) >= Clock(t))
BY DEF Date, Clock, MinutesOfDay

LEMMA DaysAhead ==
  ASSUME NEW d \in Nat
  PROVE  /\ d % 7 \in 0..6
         /\ (d + 1) % 7 = IF d % 7 = 6 THEN 0 ELSE (d % 7) + 1
         /\ (d + 2) % 7 = IF d % 7 >= 5 THEN (d % 7) - 5 ELSE (d % 7) + 2
         /\ (d + 3) % 7 = IF d % 7 >= 4 THEN (d % 7) - 4 ELSE (d % 7) + 3
OBVIOUS

(* The next working day, if the time of this day is over or not.           *)
NextAfter(d, over) ==
  IF over THEN CASE d % 7 = 4 -> 3 [] d % 7 = 5 -> 2 [] OTHER -> 1
          ELSE CASE d % 7 = 5 -> 2 [] d % 7 = 6 -> 1 [] OTHER -> 0

LEMMA NextDay ==
  ASSUME NEW d \in Nat, NEW over \in BOOLEAN
  PROVE  LET k == NextAfter(d, over)
         IN /\ k \in 0..3 /\ (over => k > 0) /\ (d + k) % 7 < 5
            /\ \A e \in d .. d + k - 1 : (over /\ e = d) \/ e % 7 >= 5
<1> DEFINE k == NextAfter(d, over)
<1>1. d % 7 \in 0..6
  BY DaysAhead
<1>2. /\ k \in 0..3 /\ (over => k > 0)
      /\ k = 0 => d % 7 < 5
      /\ k = 1 => d % 7 = 6 \/ (over /\ d % 7 < 4)
      /\ k = 2 => d % 7 = 5
      /\ k = 3 => over /\ d % 7 = 4
  BY <1>1 DEF NextAfter
<1> HIDE DEF k
<1>3. (d + k) % 7 < 5
  BY <1>1, <1>2, DaysAhead
<1>4. ASSUME NEW e \in d .. d + k - 1, ~(over /\ e = d) PROVE e % 7 >= 5
  <2>1. k = 1 => e = d
    BY <1>4
  <2>2. k = 2 => e \in {d, d + 1}
    BY <1>4
  <2>3. k = 3 => e \in {d + 1, d + 2}
    BY <1>2, <1>4
  <2>4. k # 0
    BY <1>4
  <2> QED
    BY <1>1, <1>2, <1>4, <2>1, <2>2, <2>3, <2>4, DaysAhead
<1> QED
  BY <1>2, <1>3, <1>4 DEF k

RunsAt(runTime, t) == Clock(t) = runTime /\ WorkingDay(Date(t))

(* waitTillNextWorkingDay: the thread wakes at its time of a working day,  *)
(* and there was no such time since.                                       *)
THEOREM NextRunIsNext ==
  ASSUME NEW t \in Nat, NEW runTime \in Nat, runTime < 1440
  PROVE  LET n == NextRun(runTime, t)
         IN /\ n \in Nat /\ n > t
            /\ RunsAt(runTime, n)
            /\ \A u \in t + 1 .. n - 1 : ~RunsAt(runTime, u)
<1> DEFINE n == NextRun(runTime, t)
           over == runTime <= Clock(t)
<1>1. PICK d \in Nat : Date(t) = d
  BY DayAndMinute
<1>2. /\ Clock(t) \in 0..1439
      /\ Midnight(t) = 1440 * d /\ DayOfWeek(t) = d % 7
  BY <1>1, DayAndMinute
<1>3. over \in BOOLEAN
  BY <1>2
<1> HIDE DEF over
<1>4. PICK k \in 0..3 :
        /\ k = NextAfter(d, over) /\ (over => k > 0) /\ (d + k) % 7 < 5
        /\ \A e \in d .. d + k - 1 : (over /\ e = d) \/ e % 7 >= 5
  BY <1>3, NextDay
<1>5. n = runTime + (1440 * d + k * 1440)
  <2>1. CASE over
    <3>1. DaysToNext(t) = k
      BY <1>1, <1>2, <1>4, <2>1 DEF DaysToNext, NextAfter, Friday, Saturday
    <3> QED
      BY <1>1, <1>2, <2>1, <3>1 DEF NextRun, Next24, MinutesOfDay, over
  <2>2. CASE ~over
    <3>1. DaysToThis(t) = k
      BY <1>1, <1>2, <1>4, <2>2 DEF DaysToThis, NextAfter, Saturday, Sunday
    <3> QED
      BY <1>1, <1>2, <2>2, <3>1 DEF NextRun, Next24, MinutesOfDay, over
  <2> QED
    BY <2>1, <2>2
<1> HIDE DEF n
<1>6. PICK e \in Nat : e = d + k /\ n = 1440 * e + runTime
  BY <1>5
<1>7. n \in Nat /\ Date(n) = e /\ Clock(n) = runTime
  BY <1>6 DEF Date, Clock, MinutesOfDay
<1>8. WorkingDay(Date(n))
  BY <1>4, <1>6, <1>7 DEF WorkingDay, Saturday
<1>9. n > t
  <2>1. d < e \/ (d = e /\ Clock(t) < runTime)
    <3>1. over \/ Clock(t) < runTime
      BY <1>2 DEF over
    <3> QED
      BY <1>4, <1>6, <3>1
  <2> QED
    BY <1>1, <1>7, <2>1, Earlier, SMTT(30)
<1>10. ASSUME NEW u \in t + 1 .. n - 1, Clock(u) = runTime, WorkingDay(Date(u))
      PROVE  FALSE
  <2>1. u \in Nat /\ t < u /\ u < n
    BY <1>7, <1>10
  <2>2. PICK f \in Nat : Date(u) = f
    BY <2>1, DayAndMinute
  <2>3. f >= d /\ f < e /\ ~(over /\ f = d)
    <3>1. f >= d /\ (f = d => runTime >= Clock(t) /\ u # t)
      BY <1>1, <1>10, <2>1, <2>2, Earlier, SMTT(30)
    <3>2. f < e
      BY <1>7, <1>10, <2>1, <2>2, Earlier, SMTT(30)
    <3>3. f = d => Clock(t) < runTime
      BY <1>1, <1>10, <2>1, <2>2, Earlier, SMTT(30)
    <3> QED
      BY <1>2, <3>1, <3>2, <3>3 DEF over
  <2>4. f % 7 < 5
    BY <1>10, <2>2 DEF WorkingDay, Saturday
  <2>5. f \in d .. d + k - 1
    BY <1>6, <2>3
  <2>6. f % 7 >= 5
    BY <1>4, <2>3, <2>5
  <2> QED
    BY <2>4, <2>6, DaysAhead
<1> QED
  BY <1>7, <1>8, <1>9, <1>10 DEF n, RunsAt
-----------------------------------------------------------------------------
(* The executor's sleep.                                                   *)

(* The night session is over when a weekend's break begins, in the morning *)
(* and before the day session would end; it opens in the afternoon.        *)
BreakBegins == At(NightCloseHour + 1, 0)
SessionTimes ==
  /\ At(9, 0) <= BarCloseTime /\ BreakBegins <= BarCloseTime
  /\ NightCloseHour \in 2..10 /\ BarOpenTime > At(12, 0)

Monday(t) == 1440 * (Date(t) + (7 - DayOfWeek(t)))

(* waitTillNextRound: the thread wakes on Monday, just before the night    *)
(* session or at once, and there is no session from now until the minute   *)
(* before it wakes.                                                        *)
LEMMA NoSessionMissed ==
  ASSUME SessionTimes, NEW t \in Nat, ~Afternoon(t)
  PROVE  /\ NextRound(t) \in Nat
         /\ WeekendBreak(t) => NextRound(t) = Monday(t)
         /\ ~WeekendBreak(t) =>
              \/ NextRound(t) <= t + 1
              \/ ~Weekend(t) /\ NextRound(t) <= BeforeOpen(t)
         /\ \A u \in Nat : t <= u /\ u < NextRound(t) - 1 => ~Trading(u)
<1> DEFINE n == NextRound(t)
<1>1. PICK d \in Nat : Date(t) = d
  BY DayAndMinute
<1>2. /\ Clock(t) \in 0..1439 /\ d % 7 \in 0..6
      /\ Midnight(t) = 1440 * d /\ DayOfWeek(t) = d % 7
  BY <1>1, DayAndMinute
<1>3. /\ BarOpenTime \in 0..1439 /\ BarCloseTime \in 540..1439
      /\ BarCloseTime + 60 < BarOpenTime /\ NightCloseHour \in 2..10
      /\ BreakBegins = 60 * (NightCloseHour + 1) /\ BreakBegins <= BarCloseTime
  BY TimeAssumption DEF SessionTimes, BreakBegins, At
<1>4. CASE WeekendBreak(t)
  <2>1. d % 7 \in {5, 6} /\ (d % 7 = 5 => Clock(t) >= At(NightCloseHour + 1, 0))
    BY <1>2, <1>4 DEF WeekendBreak, Saturday, Sunday
  <2>2. PICK h \in 180..1439 : h = At(NightCloseHour + 1, 0)
    BY <1>3 DEF At
  <2>3. PICK b \in 0..1439 : b = Clock(t)
    BY <1>2
  <2>4. d % 7 \in {5, 6} /\ (d % 7 = 5 => Clock(t) >= 180)
    BY <2>1, <2>2, <2>3
  <2>5. ~(Clock(t) >= At(12, 0))
    BY <1>1, <1>2, <2>4 DEF Weekend, Saturday, Sunday, Afternoon
  <2>6. n = 1440 * d + (7 - (d % 7)) * 1440
    BY <1>1, <1>2, <1>4, <2>5 DEF NextRound, NextMonday, Next24, MinutesOfDay
  <2> HIDE DEF n
  <2>7. PICK e \in Nat : /\ n = 1440 * e
                         /\ (d % 7 = 5 => e = d + 2) /\ (d % 7 = 6 => e = d + 1)
    BY <2>4, <2>6
  <2>8. n \in Nat /\ Date(n) = e /\ Clock(n) = 0
    <3>1. /\ 1440 * e \in Nat
          /\ Date(1440 * e) = e /\ Clock(1440 * e) = 0
      BY DEF Date, Clock, MinutesOfDay
    <3> QED
      BY <2>7, <3>1
  <2>9. ASSUME NEW u \in Nat, t <= u, u < n PROVE ~Trading(u)
    <3>1. PICK f \in Nat : Date(u) = f
      BY DEF Date, MinutesOfDay
    <3>2. PICK c \in 0..1439 : Clock(u) = c
      BY DEF Clock, MinutesOfDay
    <3>3. f < e
      <4>1. Date(u) < Date(n) \/ (Date(u) = Date(n) /\ Clock(u) < Clock(n))
        BY <2>8, <2>9, Earlier, SMTT(30)
      <4> QED
        BY <2>8, <3>1, <3>2, <4>1
    <3>4. f >= d /\ (f = d => c >= Clock(t))
      BY <1>1, <1>2, <2>9, <3>1, <3>2, Earlier, SMTT(30)
    <3>5. f \in {d, d + 1} /\ (d % 7 = 6 => f = d)
      BY <2>4, <2>7, <3>3, <3>4
    <3>6. f % 7 \in {5, 6} /\ (f % 7 = 5 => c >= 180)
      <4>1. CASE f = d
        BY <1>1, <1>2, <2>4, <3>4, <4>1
      <4>2. CASE f = d + 1
        BY <2>4, <3>5, <4>2, DaysAhead
      <4> QED
        BY <3>5, <4>1, <4>2
    <3>7. ~WorkingDay(f)
      BY <3>6 DEF WorkingDay, Saturday
    <3>8. ~(WorkingDay(f - 1) /\ c < At(2, 30))
      <4>1. CASE f % 7 = 5
        BY <3>6, <4>1 DEF At
      <4>2. CASE f % 7 = 6
        <5>1. f - 1 \in Nat /\ (f - 1) % 7 = 5
          BY <4>2
        <5> QED
          BY <5>1 DEF WorkingDay, Saturday
      <4> QED
        BY <3>6, <4>1, <4>2
    <3> QED
      BY <3>1, <3>2, <3>7, <3>8 DEF Trading
  <2>10. n = Monday(t)
    BY <1>1, <1>2, <2>4, <2>7 DEF Monday
  <2> QED
    BY <1>4, <2>8, <2>9, <2>10 DEF n
<1>5. CASE ~WeekendBreak(t) /\ Closed(t) /\ t < BeforeOpen(t)
  <2>1. n = 1440 * d + BarOpenTime - 1
    BY <1>1, <1>2, <1>5 DEF NextRound, BeforeOpen
  <2> HIDE DEF n
  <2>2. n \in Nat /\ Date(n) = d /\ Clock(n) = BarOpenTime - 1
    <3>1. PICK m \in 0..1439 : m = BarOpenTime - 1 /\ n = 1440 * d + m
      BY <1>3, <2>1
    <3>2. Date(1440 * d + m) = d /\ Clock(1440 * d + m) = m
      BY DEF Date, Clock, MinutesOfDay
    <3>3. 1440 * d + m \in Nat
      OBVIOUS
    <3> QED
      BY <3>1, <3>2, <3>3
  <2>3. Clock(t) >= BarCloseTime
    BY <1>5 DEF Closed
  <2>4. PICK b \in 0..1439 : Clock(t) = b
    BY <1>2
  <2>5. b >= BarCloseTime
    BY <2>4, <2>3
  <2>6. ASSUME NEW u \in Nat, t <= u, u < n PROVE ~Trading(u)
    <3>1. PICK f \in Nat : Date(u) = f
      BY DEF Date, MinutesOfDay
    <3>2. PICK c \in 0..1439 : Clock(u) = c
      BY DEF Clock, MinutesOfDay
    <3>3. f <= d /\ (f = d => c < BarOpenTime)
      BY <1>3, <2>2, <2>6, <3>1, <3>2, Earlier, SMTT(30)
    <3>4. f >= d /\ (f = d => c >= Clock(t))
      BY <1>1, <1>2, <2>6, <3>1, <3>2, Earlier, SMTT(30)
    <3>5. f = d
      BY <3>3, <3>4
    <3>6. c >= b /\ c < BarOpenTime
      BY <2>4, <3>3, <3>4, <3>5
    <3>7. c >= BarCloseTime
      BY <1>3, <2>4, <2>5, <3>6
    <3> QED
      BY <1>3, <3>1, <3>2, <3>6, <3>7 DEF Trading, At
  <2>7. n <= BeforeOpen(t)
    BY <1>5, <2>2 DEF n, NextRound
  <2>8. ~Weekend(t)
    <3>1. SUFFICES ASSUME d % 7 = 5 PROVE WeekendBreak(t)
      BY <1>1, <1>2, <1>5 DEF Weekend, WeekendBreak, Saturday, Sunday
    <3>2. b >= BreakBegins
      BY <1>3, <2>5
    <3> QED
      BY <1>1, <1>2, <2>4, <3>1, <3>2 DEF WeekendBreak, BreakBegins, Saturday
  <2> QED
    BY <1>5, <2>2, <2>6, <2>7, <2>8 DEF n
<1>6. CASE ~WeekendBreak(t) /\ ~(Closed(t) /\ t < BeforeOpen(t))
  <2>1. n = t + 1
    BY <1>6 DEF NextRound
  <2> QED
    BY <1>6, <2>1
<1> QED
  BY <1>4, <1>5, <1>6

-----------------------------------------------------------------------------
(* The passing of the time.                                                *)
LEMMA LeastNatural ==
  ASSUME NEW T, T \subseteq Nat, T # {}
  PROVE  Min(T) \in T /\ \A m \in T : Min(T) <= m
<1>1. PICK n \in T : \A m \in T : ~(<<m, n>> \in OpToRel(<, Nat))
  BY NatLessThanWellFounded, WFMin
<1>2. ASSUME NEW m \in T PROVE ~(m < n)
  BY <1>1 DEF OpToRel
<1>3. \A m \in T : n <= m
  BY <1>2
<1> QED
  BY <1>3 DEF Min

LEMMA NaturalInstants ==
  /\ \A i \in Instants : i \in 0..1439
  /\ Instants # {}
  /\ \A T \in SUBSET Instants : T # {} => Min(T) \in T /\ \A i \in T : Min(T) <= i
<1>1. \A i \in Instants : i \in 0..1439
  BY CycleAssumption
<1>2. Instants # {}
  BY CycleAssumption
<1>3. ASSUME NEW i \in Instants PROVE i \in Nat
  <2>1. i \in 0..1439
    BY <1>1
  <2> QED
    BY <2>1
<1>4. ASSUME NEW T \in SUBSET Instants, T # {}
      PROVE  Min(T) \in T /\ \A i \in T : Min(T) <= i
  <2>1. T \subseteq Nat
    BY <1>3, Zenon
  <2> QED
    BY <1>4, <2>1, LeastNatural, Zenon
<1> QED
  BY <1>1, <1>2, <1>4, Zenon

(* No instant is passed over.                                              *)
LEMMA NextInstantIs ==
  ASSUME now \in Nat
  PROVE  /\ NextInstant \in Nat
         /\ \/ /\ Date(NextInstant) = Date(now) /\ Clock(NextInstant) > Clock(now)
               /\ \A i \in Instants : i > Clock(now) => Clock(NextInstant) <= i
            \/ /\ Date(NextInstant) = Date(now) + 1
               /\ \A i \in Instants : Clock(NextInstant) <= i /\ i <= Clock(now)
<1> DEFINE later == {i \in Instants : i > Clock(now)}
           n == NextInstant
<1>1. PICK d \in Nat : Date(now) = d
  BY DEF Date, MinutesOfDay
<1>2. PICK c \in 0..1439 : Clock(now) = c
  BY DEF Clock, MinutesOfDay
<1>3. Midnight(now) = 1440 * d
  BY <1>1, DayAndMinute
<1>4. \A i \in Instants : i \in 0..1439
  BY NaturalInstants
<1>5. CASE later # {}
  <2>1. PICK m \in later : m = Min(later) /\ \A i \in later : m <= i
    BY <1>5, NaturalInstants
  <2>2. m \in 0..1439 /\ m > c
    BY <1>2, <1>4, <2>1
  <2>3. n = 1440 * d + m
    BY <1>3, <1>5, <2>1 DEF NextInstant
  <2> HIDE DEF n
  <2>4. n \in Nat /\ Date(n) = d /\ Clock(n) = m
    BY <2>2, <2>3 DEF Date, Clock, MinutesOfDay
  <2> QED
    BY <1>1, <1>2, <2>1, <2>2, <2>4 DEF n
<1>6. CASE later = {}
  <2>1. PICK m \in Instants : m = Min(Instants) /\ \A i \in Instants : m <= i
    BY NaturalInstants
  <2>2. m \in 0..1439
    BY <1>4, <2>1
  <2>3. n = 1440 * d + 1 * 1440 + m
    BY <1>3, <1>6, <2>1 DEF NextInstant, Next24, MinutesOfDay
  <2>4. PICK e \in Nat : e = d + 1 /\ n = 1440 * e + m
    BY <2>2, <2>3
  <2> HIDE DEF n
  <2>5. n \in Nat /\ Date(n) = e /\ Clock(n) = m
    BY <2>2, <2>4 DEF Date, Clock, MinutesOfDay
  <2>6. ASSUME NEW i \in Instants PROVE i <= c
    <3>1. i \notin later /\ i \in 0..1439
      BY <1>4, <1>6
    <3> QED
      BY <1>2, <3>1
  <2> QED
    BY <1>1, <1>2, <2>1, <2>4, <2>5, <2>6 DEF n
<1> QED
  BY <1>5, <1>6

-----------------------------------------------------------------------------
(* The executor's sleep never reaches past the end of a session's pause: a *)
(* round in a weekend's break sleeps until Monday, and the first instant   *)
(* of a break, at which the round before it is due, is in the morning.     *)
(* Only a start in a weekend's afternoon makes it sleep until Monday noon. *)
Executor == wake["executor"]
Asleep ==
  /\ now \in Nat /\ now >= start /\ DOMAIN wake = Threads
  /\ Oversleeps /\ Executor = MondayNoon(start)
Awake ==
  /\ now \in Nat /\ Executor \in Nat /\ DOMAIN wake = Threads
  /\ \A u \in Nat : now <= u /\ u < Executor - 1 => ~Trading(u)
  /\ WeekendBreak(now) => \/ Executor = Monday(now)
                          \/ Executor <= now /\ ~Afternoon(now)
  /\ ~WeekendBreak(now) => \/ Executor <= now + 1
                           \/ ~Weekend(now) /\ Executor <= BeforeOpen(now)

AwakeInv == Awake \/ Asleep

(* There is an instant in every morning after the night session.           *)
MorningInstant == \E i \in Instants : BreakBegins <= i /\ i < At(12, 0)

LEMMA AfternoonInBreak ==
  ASSUME SessionTimes, NEW t \in Nat, Afternoon(t)
  PROVE  WeekendBreak(t)
<1>1. PICK c \in 0..1439 : Clock(t) = c
  BY DEF Clock, MinutesOfDay
<1>2. NightCloseHour \in 2..10
  BY DEF SessionTimes
<1>3. c >= 720
  BY <1>1 DEF Afternoon, At
<1>4. c >= At(NightCloseHour + 1, 0)
  BY <1>2, <1>3 DEF At
<1> QED
  BY <1>1, <1>4 DEF Afternoon, Weekend, WeekendBreak

LEMMA MondayNoonIs ==
  ASSUME NEW t \in Nat, Afternoon(t)
  PROVE  /\ MondayNoon(t) \in Nat /\ MondayNoon(t) > t
         /\ Date(MondayNoon(t)) % 7 = 0 /\ Clock(MondayNoon(t)) = 720
<1>1. PICK d \in Nat : Date(t) = d
  BY DayAndMinute
<1>2. PICK c \in 0..1439 : Clock(t) = c
  BY DEF Clock, MinutesOfDay
<1>3. t = 1440 * d + c /\ Midnight(t) = 1440 * d /\ DayOfWeek(t) = d % 7
  BY <1>1, <1>2, DayAndMinute
<1>4. d % 7 \in {5, 6}
  BY <1>3 DEF Afternoon, Weekend, Saturday, Sunday
<1>5. PICK e \in Nat : e = d + (7 - (d % 7)) /\ e % 7 = 0 /\ e > d
  <2>1. CASE d % 7 = 5
    BY <2>1, DaysAhead, (d + 2) % 7 = 0
  <2>2. CASE d % 7 = 6
    BY <2>2, DaysAhead, (d + 1) % 7 = 0
  <2> QED
    BY <1>4, <2>1, <2>2
<1>6. PICK n \in Nat : n = 1440 * e + 720
  OBVIOUS
<1>7. MondayNoon(t) = n
  BY <1>3, <1>4, <1>5, <1>6 DEF MondayNoon, Next24, MinutesOfDay, At
<1>8. Date(n) = e /\ Clock(n) = 720
  BY <1>6 DEF Date, Clock, MinutesOfDay
<1>9. n > t
  BY <1>3, <1>5, <1>6
<1> QED
  BY <1>5, <1>7, <1>8, <1>9

LEMMA SleepsUntilNoon ==
  ASSUME SessionTimes, NEW t \in Nat, Afternoon(t)
  PROVE  NextRound(t) = MondayNoon(t)
<1>1. WeekendBreak(t)
  BY AfternoonInBreak
<1> QED
  BY <1>1 DEF NextRound, NextMonday, MondayNoon, Afternoon

LEMMA AwakeInit ==
  ASSUME SessionTimes, Init
  PROVE  AwakeInv
<1>1. now \in Nat /\ now = start
  BY CycleAssumption DEF Init
<1>2. Executor = NextRound(now) /\ DOMAIN wake = Threads
  BY <1>1 DEF Init, Executor, Threads
<1>3. CASE ~Afternoon(now)
  BY <1>1, <1>2, <1>3, NoSessionMissed DEF AwakeInv, Awake
<1>4. CASE Afternoon(now)
  <2>1. Oversleeps
    BY <1>1, <1>4, MondayNoonIs DEF Oversleeps
  <2> QED
    BY <1>1, <1>2, <1>4, <2>1, SleepsUntilNoon DEF AwakeInv, Asleep
<1> QED
  BY <1>3, <1>4

(* A round.                                                                *)
LEMMA RoundAwake ==
  ASSUME SessionTimes, AwakeInv, Due("executor"), Sleep("executor", NextRound(now)), now' = now,
         start \in Nat
  PROVE  AwakeInv'
<1>1. Awake
  <2>1. SUFFICES ASSUME Asleep PROVE FALSE
    BY DEF AwakeInv
  <2>2. PICK m \in Nat : m = MondayNoon(start)
    BY <2>1, MondayNoonIs DEF Asleep, Oversleeps
  <2>3. PICK t \in Nat : t = now
    BY <2>1 DEF Asleep
  <2>4. t < m /\ m <= t
    BY <2>1, <2>2, <2>3 DEF Asleep, Oversleeps, Due, Executor
  <2> QED
    BY <2>4
<1>2. now \in Nat /\ ~Afternoon(now)
  <2>1. SUFFICES ASSUME Afternoon(now) PROVE FALSE
    BY <1>1 DEF Awake
  <2>2. now \in Nat /\ WeekendBreak(now)
    BY <1>1, <2>1, AfternoonInBreak DEF Awake
  <2>3. Executor = Monday(now)
    BY <1>1, <2>1, <2>2 DEF Awake
  <2>4. PICK d \in Nat : Date(now) = d
    BY <2>2 DEF Date, MinutesOfDay
  <2>5. PICK c \in 0..1439 : Clock(now) = c
    BY <2>2 DEF Clock, MinutesOfDay
  <2>6. now = 1440 * d + c /\ DayOfWeek(now) = d % 7
    BY <2>2, <2>4, <2>5, DayAndMinute
  <2>7. Monday(now) = 1440 * (d + (7 - (d % 7)))
    BY <2>4, <2>6 DEF Monday
  <2>8. PICK m \in Nat : m = Monday(now) /\ m > 1440 * d + c
    BY <2>7, DaysAhead
  <2>9. m <= 1440 * d + c
    BY <2>3, <2>6, <2>8 DEF Due, Executor
  <2> QED
    BY <2>8, <2>9
<1>3. Executor' = NextRound(now) /\ DOMAIN wake' = Threads
  BY <1>1 DEF Sleep, Executor, Awake, Threads
<1>4. NextRound(now) \in Nat
  BY <1>2, NoSessionMissed
<1>5. \A u \in Nat : now <= u /\ u < NextRound(now) - 1 => ~Trading(u)
  BY <1>2, NoSessionMissed
<1>6. /\ WeekendBreak(now) => NextRound(now) = Monday(now)
      /\ ~WeekendBreak(now) =>
              \/ NextRound(now) <= now + 1
              \/ ~Weekend(now) /\ NextRound(now) <= BeforeOpen(now)
  BY <1>2, NoSessionMissed
<1> QED
  BY <1>2, <1>3, <1>4, <1>5, <1>6 DEF AwakeInv, Awake

(* Any other step at one time.                                             *)
LEMMA OthersAwake ==
  ASSUME AwakeInv, UNCHANGED <<now, start>>, Executor' = Executor, DOMAIN wake' = DOMAIN wake
  PROVE  AwakeInv'
<1>1. Awake => Awake'
  BY DEF Awake
<1>2. Asleep => Asleep'
  BY DEF Asleep, Oversleeps, MondayNoon, Next24, Midnight, Afternoon, Weekend, DayOfWeek,
         Date, Clock
<1> QED
  BY <1>1, <1>2 DEF AwakeInv

LEMMA OthersSleep ==
  ASSUME AwakeInv, UNCHANGED <<now, start>>, NEW th \in Threads \ {"executor"}, NEW t,
         Sleep(th, t)
  PROVE  AwakeInv'
<1>1. Executor' = Executor /\ DOMAIN wake' = DOMAIN wake
  BY DEF Sleep, Executor, AwakeInv, Awake, Asleep, Threads
<1> QED
  BY <1>1, OthersAwake

(* The time passes.                                                        *)
LEMMA TickAwake ==
  ASSUME SessionTimes, MorningInstant, Awake, Tick
  PROVE  Awake'
<1>1. PICK t \in Nat : t = now
  BY DEF Awake
<1>2. PICK n \in Nat : n = now' /\ n = NextInstant
  BY <1>1, NextInstantIs DEF Tick
<1>3. PICK w \in Nat : w = Executor
  BY DEF Awake
<1>4. wake' = wake /\ Executor' = w /\ DOMAIN wake = Threads /\ DOMAIN wake' = Threads
  BY <1>3 DEF Tick, Executor, Awake
<1>5. w > t
  BY <1>1, <1>3 DEF Tick, AllAsleep, Due, Executor, Threads
<1>6. PICK d \in Nat : Date(t) = d
  BY DEF Date, MinutesOfDay
<1>7. PICK b \in 0..1439 : Clock(t) = b
  BY DEF Clock, MinutesOfDay
<1>8. PICK e \in Nat : Date(n) = e
  BY DEF Date, MinutesOfDay
<1>9. PICK c \in 0..1439 : Clock(n) = c
  BY DEF Clock, MinutesOfDay
<1>10. PICK i \in Instants : BreakBegins <= i /\ i < 720
  BY DEF MorningInstant, At
<1>11. i \in 0..1439
  BY NaturalInstants
<1>12. \/ e = d /\ c > b /\ (i > b => c <= i)
       \/ e = d + 1 /\ c <= i
  BY <1>1, <1>2, <1>6, <1>7, <1>8, <1>9, NextInstantIs
<1>13. /\ t = 1440 * d + b /\ DayOfWeek(t) = d % 7 /\ Midnight(t) = 1440 * d
  BY <1>6, <1>7, DayAndMinute
<1>14. /\ n = 1440 * e + c /\ DayOfWeek(n) = e % 7 /\ Midnight(n) = 1440 * e
  BY <1>8, <1>9, DayAndMinute
<1>15. PICK h \in 180..660 : h = BreakBegins /\ h = At(NightCloseHour + 1, 0)
  BY DEF SessionTimes, BreakBegins, At
<1>16. /\ WeekendBreak(t) <=> (d % 7 = 5 /\ b >= h) \/ d % 7 = 6
       /\ Weekend(t) <=> d % 7 \in {5, 6}
       /\ WeekendBreak(n) <=> (e % 7 = 5 /\ c >= h) \/ e % 7 = 6
       /\ Weekend(n) <=> e % 7 \in {5, 6}
       /\ Afternoon(n) <=> e % 7 \in {5, 6} /\ c >= 720
  BY <1>7, <1>9, <1>13, <1>14, <1>15
     DEF WeekendBreak, Weekend, Afternoon, Saturday, Sunday, At
<1>17. Monday(t) = 1440 * (d + (7 - (d % 7))) /\ Monday(n) = 1440 * (e + (7 - (e % 7)))
  BY <1>6, <1>8, <1>13, <1>14 DEF Monday
<1>18. PICK o \in 0..1439 : o = BarOpenTime
  BY TimeAssumption
<1>19. BeforeOpen(t) = 1440 * d + o - 1 /\ BeforeOpen(n) = 1440 * e + o - 1
  BY <1>13, <1>14, <1>18 DEF BeforeOpen
<1>20. ASSUME e = d + 1 PROVE n > 1440 * d + o - 1
  <2>1. n = 1440 * d + 1440 + c
    BY <1>14, <1>20
  <2> QED
    BY <2>1
<1>21. n > t
  BY <1>12, <1>13, <1>14
<1>22. \A u \in Nat : n <= u /\ u < w - 1 => ~Trading(u)
  BY <1>1, <1>3, <1>21 DEF Awake
<1>23. WeekendBreak(t) => w = 1440 * (d + (7 - (d % 7)))
  BY <1>1, <1>3, <1>5, <1>17 DEF Awake
<1>24. ~WeekendBreak(t) => w <= t + 1 \/ (~Weekend(t) /\ w <= 1440 * d + o - 1)
  BY <1>1, <1>3, <1>19 DEF Awake
<1>25. CASE WeekendBreak(t)
  <2>1. CASE e = d
    <3>1. WeekendBreak(n) /\ w = Monday(n)
      BY <1>12, <1>16, <1>17, <1>23, <1>25, <2>1
    <3> QED
      BY <1>2, <1>4, <1>22, <3>1 DEF Awake
  <2>2. CASE e = d + 1 /\ d % 7 = 5
    <3>1. e % 7 = 6
      BY <2>2, DaysAhead
    <3>2. WeekendBreak(n) /\ w = Monday(n)
      BY <1>16, <1>17, <1>23, <1>25, <2>2, <3>1
    <3> QED
      BY <1>2, <1>4, <1>22, <3>2 DEF Awake
  <2>3. CASE e = d + 1 /\ d % 7 = 6
    <3>1. e % 7 = 0
      BY <2>3, DaysAhead
    <3>2. ~WeekendBreak(n)
      BY <1>16, <3>1
    <3>3. w <= n + 1
      BY <1>14, <1>23, <1>25, <2>3
    <3> QED
      BY <1>2, <1>4, <1>22, <3>2, <3>3 DEF Awake
  <2> QED
    BY <1>12, <1>16, <1>25, <2>1, <2>2, <2>3
<1>26. CASE ~WeekendBreak(t)
  <2>1. CASE WeekendBreak(n)
    <3>1. ~Afternoon(n)
      BY <1>11, <1>10, <1>12, <1>15, <1>16, <1>26, <2>1
    <3>2. e = d => Weekend(t)
      BY <1>16, <2>1
    <3>3. w <= n
      <4>1. CASE w <= t + 1
        BY <1>21, <4>1
      <4>2. CASE ~Weekend(t) /\ w <= 1440 * d + o - 1
        <5>1. e = d + 1
          BY <1>12, <3>2, <4>2
        <5> QED
          BY <1>20, <4>2, <5>1
      <4> QED
        BY <1>24, <1>26, <4>1, <4>2
    <3> QED
      BY <1>2, <1>4, <1>22, <2>1, <3>1, <3>3 DEF Awake
  <2>2. CASE ~WeekendBreak(n)
    <3>1. w <= n + 1 \/ (~Weekend(n) /\ w <= BeforeOpen(n))
      <4>1. CASE e = d
        <5>1. CASE w <= t + 1
          BY <1>21, <5>1
        <5>2. CASE ~Weekend(t) /\ w <= 1440 * d + o - 1
          <6>1. ~Weekend(n)
            BY <1>16, <4>1, <5>2
          <6> QED
            BY <1>19, <4>1, <5>2, <6>1
        <5> QED
          BY <1>24, <1>26, <5>1, <5>2
      <4>2. CASE e = d + 1
        <5>1. CASE w <= t + 1
          BY <1>21, <5>1
        <5>2. CASE w <= 1440 * d + o - 1
          BY <1>20, <4>2, <5>2
        <5> QED
          BY <1>24, <1>26, <5>1, <5>2
      <4> QED
        BY <1>12, <4>1, <4>2
    <3> QED
      BY <1>2, <1>4, <1>22, <2>2, <3>1 DEF Awake
  <2> QED
    BY <2>1, <2>2
<1> QED
  BY <1>25, <1>26

(* It sleeps on, or it is due on Monday afternoon or later.                *)
LEMMA TickAsleep ==
  ASSUME SessionTimes, Asleep, Tick, start \in Nat
  PROVE  AwakeInv'
<1>1. PICK t \in Nat : t = now
  BY DEF Asleep
<1>2. PICK n \in Nat : n = now' /\ n = NextInstant
  BY <1>1, NextInstantIs DEF Tick
<1>3. Afternoon(start) /\ t < MondayNoon(start)
  BY <1>1 DEF Asleep, Oversleeps
<1>4. PICK m \in Nat : /\ m = MondayNoon(start)
                       /\ Date(m) % 7 = 0 /\ Clock(m) = 720
  BY <1>3, MondayNoonIs
<1>5. /\ start' = start /\ Executor = m /\ Executor' = m /\ DOMAIN wake' = Threads
  BY <1>4 DEF Tick, Executor, Asleep
<1>6. Afternoon(start)' /\ MondayNoon(start)' = m
  BY <1>3, <1>4, <1>5 DEF Afternoon, MondayNoon, Weekend, DayOfWeek, Next24, Midnight,
                          Date, Clock
<1>7. CASE n < m
  <2>1. NextInstant > now
    BY <1>1, <1>2, NextInstantIs, Earlier, DayAndMinute, SMTT(30)
  <2>2. n >= start
    BY <1>1, <1>2, <2>1 DEF Asleep
  <2> QED
    BY <1>2, <1>5, <1>6, <1>7, <2>2 DEF AwakeInv, Asleep, Oversleeps
<1>8. CASE ~(n < m)
  <2>1. PICK d \in Nat : Date(t) = d
    BY DayAndMinute
  <2>2. PICK e \in Nat : Date(n) = e
    BY DayAndMinute
  <2>3. PICK f \in Nat : Date(m) = f /\ f % 7 = 0
    BY <1>4, DayAndMinute
  <2>4. e = d \/ e = d + 1
    BY <1>1, <1>2, <2>1, <2>2, NextInstantIs
  <2>5. d <= f
    BY <1>1, <1>3, <1>4, <2>1, <2>3, Earlier, SMTT(30)
  <2>6. e >= f
    BY <1>8, <2>2, <2>3, Earlier, SMTT(30)
  <2>7. e = f \/ e = f + 1
    BY <2>4, <2>5, <2>6
  <2>8. e % 7 \in {0, 1}
    BY <2>3, <2>7, DaysAhead
  <2>9. ~WeekendBreak(n)
    BY <2>2, <2>8 DEF WeekendBreak, DayOfWeek, Saturday, Sunday
  <2>10. m <= n
    BY <1>8
  <2> QED
    BY <1>2, <1>5, <2>9, <2>10 DEF AwakeInv, Awake
<1> QED
  BY <1>7, <1>8

LEMMA AwakeStep ==
  ASSUME SessionTimes, MorningInstant, AwakeInv, start \in Nat, [Next]_vars
  PROVE  AwakeInv'
<1>1. CASE InitRules
  BY <1>1, RoundAwake DEF InitRules
<1>2. CASE Round
  BY <1>2, RoundAwake DEF Round
<1>3. CASE SwitchFilled
  BY <1>3, OthersAwake DEF SwitchFilled, Executor
<1>4. CASE RunStrategy
  BY <1>4, OthersSleep DEF RunStrategy, Threads
<1>5. CASE RunSwitcher
  BY <1>5, OthersSleep DEF RunSwitcher, Threads
<1>6. CASE RunMonitor
  BY <1>6, OthersSleep DEF RunMonitor, Threads
<1>7. CASE Tick
  BY <1>7, TickAwake, TickAsleep DEF AwakeInv
<1>8. CASE UNCHANGED vars
  BY <1>8, OthersAwake DEF vars, Executor
<1> QED
  BY <1>1, <1>2, <1>3, <1>4, <1>5, <1>6, <1>7, <1>8 DEF Next

(* TimeManagerImpl.java 60-62: in the sessions a round comes after half a  *)
(* second, for any times of the timers and instants, except on the Monday  *)
(* morning after a start on a weekend's afternoon.                         *)
THEOREM AwakeCorrect ==
  ASSUME SessionTimes, MorningInstant
  PROVE  Spec => []AwakeWhenOpen
<1> DEFINE Inv == AwakeInv /\ start \in Nat
<1>1. Init => Inv
  <2>1. Init => start \in Nat
    BY CycleAssumption DEF Init
  <2> QED
    BY <2>1, AwakeInit
<1>2. Inv /\ [Next]_vars => Inv'
  <2>1. [Next]_vars => start' = start
    BY DEF Next, vars, InitRules, Round, SwitchFilled, RunStrategy, RunSwitcher,
           RunMonitor, Tick
  <2> QED
    BY <2>1, AwakeStep
<1>3. Inv => AwakeWhenOpen
  <2>1. SUFFICES ASSUME AwakeInv, Trading(now), ~Oversleeps PROVE Executor <= now + 1
    BY DEF AwakeWhenOpen, Executor
  <2>2. now \in Nat /\ Executor \in Nat /\ ~(now < Executor - 1)
    BY <2>1 DEF AwakeInv, Awake, Asleep
  <2> QED
    BY <2>2
<1> QED
  BY <1>1, <1>2, <1>3, PTL DEF Spec

-----------------------------------------------------------------------------
(* The types.                                                              *)

(* The latest working day whose bar is complete.                           *)
LEMMA LatestBarIs ==
  ASSUME NEW t \in Nat
  PROVE  /\ LatestBar(t) \in -7..Date(t) /\ WorkingDay(LatestBar(t))
         /\ 1440 * LatestBar(t) + BarCloseTime <= t
<1> DEFINE S == {d \in -7..Date(t) :
                   WorkingDay(d) /\ d * MinutesOfDay + BarCloseTime <= t}
           T == {Date(t) - d : d \in S}
<1>1. Date(t) \in Nat /\ BarCloseTime \in 0..1439
  BY DayAndMinute, TimeAssumption
<1>2. -7 \in S
  BY <1>1 DEF WorkingDay, Saturday, MinutesOfDay
<1>3. \A d \in S : d \in Int /\ Date(t) - d \in Nat
  BY <1>1
<1> HIDE DEF S
<1>4. T \subseteq Nat /\ T # {}
  BY <1>2, <1>3
<1>5. Min(T) \in T /\ \A m \in T : Min(T) <= m
  BY <1>4, LeastNatural
<1>6. PICK d \in S : \A c \in S : Date(t) - d <= Date(t) - c
  BY <1>5
<1>7. \A c \in S : d >= c
  BY <1>1, <1>3, <1>6
<1>8. Max(S) \in S
  BY <1>7 DEF Max
<1>9. LatestBar(t) = Max(S)
  BY DEF LatestBar, S
<1> QED
  BY <1>1, <1>8, <1>9 DEF S, MinutesOfDay

(* A history is that of a working day, or it has no refresh time.          *)
HistOK(h) ==
  /\ h \in [day : -7..Date(End), at : Int]
  /\ h.at <= now
  /\ h.day \in {Never, Empty} => h.at = Never

Wakes == \A th \in Threads : wake[th] \in Nat /\ wake[th] > now - MinutesOfDay
TypeInv ==
  /\ now \in Times /\ start \in Starts
  /\ DOMAIN wake = Threads /\ Wakes
  /\ {made, ruleRefresh, lastRun} \subseteq Times \cup {Never}
  /\ switched \subseteq Times /\ lists \subseteq switched
  /\ listRefresh \in Int /\ listRefresh <= now
  /\ HistOK(hist) /\ failed \in BOOLEAN

LEMMA NaturalTimes ==
  /\ End \in Nat /\ Starts \subseteq Times
  /\ \A t \in Times : t \in Nat /\ t <= End /\ Date(t) <= Date(End)
<1>1. End \in Nat /\ Starts \subseteq Times
  BY CycleAssumption DEF Times
<1>2. ASSUME NEW t \in Times PROVE t \in Nat /\ t <= End /\ Date(t) <= Date(End)
  BY <1>1, <1>2 DEF Times, Date, MinutesOfDay
<1> QED
  BY <1>1, <1>2

LEMMA RunTimes ==
  /\ StrategyRunTime \in Instants /\ SwitchRunTime \in Instants
  /\ StrategyRunTime \in Nat /\ StrategyRunTime < 1440
  /\ SwitchRunTime \in Nat /\ SwitchRunTime < 1440
  /\ \A r \in MonitorRunTimes : r \in Nat /\ r < 1440
  /\ BarOpenTime - 1 \in Instants
<1>1. {StrategyRunTime, SwitchRunTime} \cup MonitorRunTimes \subseteq Instants
  BY CycleAssumption
<1>2. BarOpenTime - 1 \in Instants
  BY CycleAssumption
<1>3. /\ StrategyRunTime \in Instants /\ SwitchRunTime \in Instants
      /\ \A r \in MonitorRunTimes : r \in Instants
  BY <1>1, Zenon
<1>4. \A i \in Instants : i \in 0..1439
  BY CycleAssumption
<1>5. \A i \in Instants : i \in Nat /\ i < 1440
  BY <1>4
<1>6. /\ StrategyRunTime \in Nat /\ StrategyRunTime < 1440
      /\ SwitchRunTime \in Nat /\ SwitchRunTime < 1440
      /\ \A r \in MonitorRunTimes : r \in Nat /\ r < 1440
  BY <1>3, <1>5
<1> QED
  BY <1>2, <1>3, <1>6

LEMMA LaterRun ==
  ASSUME NEW t \in Nat, NEW runTime \in Nat, runTime < 1440
  PROVE  NextRun(runTime, t) \in Nat /\ NextRun(runTime, t) > t
BY NextRunIsNext, SMT

(* Every wait is for a later time, and a runner's for one of this week.    *)
LEMMA LaterRound ==
  ASSUME NEW t \in Nat
  PROVE  NextRound(t) \in Nat /\ NextRound(t) > t
<1>1. PICK d \in Nat : Date(t) = d
  BY DayAndMinute
<1>2. PICK c \in 0..1439 : Clock(t) = c
  BY DEF Clock, MinutesOfDay
<1>3. t = 1440 * d + c /\ Midnight(t) = 1440 * d /\ DayOfWeek(t) \in 0..6
  BY <1>1, <1>2, DayAndMinute
<1>4. CASE WeekendBreak(t)
  <2>1. PICK k \in 1..7 : k = 7 - DayOfWeek(t)
    BY <1>3
  <2>2. NextRound(t) \in {1440 * d + k * 1440, 1440 * d + k * 1440 + 720}
    BY <1>3, <1>4, <2>1 DEF NextRound, NextMonday, Next24, MinutesOfDay, At
  <2> QED
    BY <1>3, <2>1, <2>2
<1>5. CASE ~WeekendBreak(t)
  <2>1. BeforeOpen(t) \in Int
    BY <1>3, TimeAssumption DEF BeforeOpen
  <2>2. NextRound(t) = t + 1 \/ (NextRound(t) = BeforeOpen(t) /\ t < BeforeOpen(t))
    BY <1>5 DEF NextRound
  <2> QED
    BY <2>1, <2>2
<1> QED
  BY <1>4, <1>5

LEMMA RunThisWeek ==
  ASSUME NEW t \in Nat, NEW runTime \in Nat, runTime < 1440
  PROVE  NextRun(runTime, t) < t + Week
<1>1. PICK d \in Nat : Date(t) = d
  BY DayAndMinute
<1>2. PICK c \in 0..1439 : Clock(t) = c
  BY DEF Clock, MinutesOfDay
<1>3. t = 1440 * d + c /\ Midnight(t) = 1440 * d
  BY <1>1, <1>2, DayAndMinute
<1>4. PICK k \in 0..3 : NextRun(runTime, t) = runTime + (1440 * d + k * 1440)
  <2>1. DaysToNext(t) \in 0..3 /\ DaysToThis(t) \in 0..3
    BY DEF DaysToNext, DaysToThis
  <2> QED
    BY <1>3, <2>1 DEF NextRun, Next24, MinutesOfDay
<1> QED
  BY <1>3, <1>4 DEF Week, MinutesOfDay

LEMMA LaterRunOf ==
  ASSUME NEW t \in Nat
  PROVE  NextRunOf(MonitorRunTimes, t) \in Nat /\ NextRunOf(MonitorRunTimes, t) > t
<1> DEFINE T == {NextRun(r, t) : r \in MonitorRunTimes}
<1>1. \A r \in MonitorRunTimes : NextRun(r, t) \in Nat /\ NextRun(r, t) > t
  BY LaterRun, RunTimes
<1>2. T \subseteq Nat /\ T # {}
  BY <1>1, CycleAssumption
<1>3. Min(T) \in T
  BY <1>2, LeastNatural
<1>4. PICK r \in MonitorRunTimes : Min(T) = NextRun(r, t)
  BY <1>3
<1> QED
  BY <1>1, <1>4 DEF NextRunOf

(* The histories that are fetched, and those a switch leaves.              *)
LEMMA FetchedHist ==
  ASSUME TypeInv, NEW h, HistOK(h), NEW load \in Loads
  PROVE  HistOK(GetBarHist(h, load))
<1>1. now \in Nat /\ Date(now) <= Date(End) /\ Date(now) \in Nat /\ Date(End) \in Nat
  BY NaturalTimes, DayAndMinute DEF TypeInv
<1>2. load \in -7..Date(End)
  BY <1>1, LatestBarIs DEF Loads, Empty
<1>3. load # Empty => load = LatestBar(now) /\ load # Never
  BY <1>1, LatestBarIs DEF Loads, WorkingDay, Never, Saturday
<1>4. CASE GetBarHist(h, load) = [day |-> load, at |-> now] /\ load # Empty
  BY <1>1, <1>2, <1>3, <1>4 DEF HistOK
<1>5. CASE GetBarHist(h, load) = [day |-> Empty, at |-> Never]
  BY <1>1, <1>5 DEF HistOK, Empty, Never
<1>6. CASE GetBarHist(h, load) = h
  BY <1>6
<1> QED
  BY <1>4, <1>5, <1>6 DEF GetBarHist

LEMMA SwitchedHistType ==
  ASSUME TypeInv
  PROVE  HistOK(SwitchedHist)
<1>1. now \in Nat /\ hist \in [day : -7..Date(End), at : Int] /\ hist.at <= now
  BY NaturalTimes DEF TypeInv, HistOK
<1>2. WeekBefore(hist.at) \in Int /\ WeekBefore(hist.at) <= now
  BY <1>1 DEF WeekBefore, Never, Week, MinutesOfDay
<1>3. SwitchedHist = [day |-> hist.day, at |-> WeekBefore(hist.at)]
  BY <1>1 DEF SwitchedHist
<1> HIDE DEF WeekBefore
<1>4. hist.day \in {Never, Empty} => WeekBefore(hist.at) = Never
  BY DEF TypeInv, HistOK, WeekBefore
<1> QED
  BY <1>1, <1>2, <1>3, <1>4 DEF HistOK

(* What the threads do with the lists.                                     *)
ListTypes ==
  /\ switched \subseteq Times /\ lists \subseteq switched
  /\ listRefresh \in Int /\ listRefresh <= now

LEMMA RefreshedLists ==
  ASSUME TypeInv, RefreshContractList, now' = now, switched' = switched
  PROVE  ListTypes'
BY NaturalTimes DEF TypeInv, RefreshContractList, ListRefreshTime, ListTypes

LEMMA SwitchedLists ==
  ASSUME TypeInv, MainSwitch, now' = now
  PROVE  ListTypes'
<1>1. now \in Nat /\ now \in Times
  BY NaturalTimes DEF TypeInv
<1>2. ListRefreshTime \in Int /\ ListRefreshTime <= now
  BY <1>1 DEF TypeInv, ListRefreshTime
<1>3. WeekBefore(ListRefreshTime) \in Int /\ WeekBefore(ListRefreshTime) <= now
  BY <1>1, <1>2 DEF WeekBefore, Never, Week, MinutesOfDay
<1> QED
  BY <1>1, <1>3 DEF TypeInv, MainSwitch, ListTypes

(* A thread that goes to sleep.                                            *)
LEMMA SleepType ==
  ASSUME TypeInv, now' = now, NEW th \in Threads, NEW t \in Nat, t > now, Sleep(th, t)
  PROVE  (DOMAIN wake = Threads /\ Wakes)'
<1>1. now \in Nat
  BY NaturalTimes DEF TypeInv
<1>2. DOMAIN wake' = Threads
  BY DEF Sleep, TypeInv
<1>3. ASSUME NEW x \in Threads PROVE wake'[x] \in Nat /\ wake'[x] > now - MinutesOfDay
  <2>1. wake'[x] = IF x = th THEN t ELSE wake[x]
    BY DEF Sleep, TypeInv
  <2> QED
    BY <1>1, <2>1 DEF TypeInv, Wakes, MinutesOfDay
<1> QED
  BY <1>2, <1>3 DEF Wakes

LEMMA CycleTypeInit == Init => TypeInv
<1> SUFFICES ASSUME Init PROVE TypeInv
  OBVIOUS
<1>1. start \in Nat /\ start \in Times /\ now = start
  BY NaturalTimes DEF Init
<1>2. /\ NextRound(start) \in Nat /\ NextRound(start) > start
      /\ NextRun(StrategyRunTime, start) \in Nat /\ NextRun(StrategyRunTime, start) > start
      /\ NextRun(SwitchRunTime, start) \in Nat /\ NextRun(SwitchRunTime, start) > start
  <2>1. NextRound(start) \in Nat /\ NextRound(start) > start
    BY <1>1, LaterRound
  <2>2. /\ NextRun(StrategyRunTime, start) \in Nat
        /\ NextRun(StrategyRunTime, start) > start
    BY <1>1, LaterRun, RunTimes
  <2>3. NextRun(SwitchRunTime, start) \in Nat /\ NextRun(SwitchRunTime, start) > start
    BY <1>1, LaterRun, RunTimes
  <2> QED
    BY <2>1, <2>2, <2>3
<1>3. DOMAIN wake = Threads /\ Wakes
  <2>1. DOMAIN wake = Threads
    BY DEF Init, Threads
  <2>2. \A th \in Threads : wake[th] \in Nat /\ wake[th] >= start
    BY <1>1, <1>2 DEF Init, Threads
  <2> QED
    BY <1>1, <2>1, <2>2 DEF Wakes, MinutesOfDay
<1>4. HistOK(hist)
  <2>1. Date(End) \in Nat
    BY NaturalTimes, DayAndMinute
  <2> QED
    BY <1>1, <2>1 DEF Init, HistOK, Never
<1>5. /\ {made, ruleRefresh, lastRun} \subseteq Times \cup {Never}
      /\ switched \subseteq Times /\ lists \subseteq switched
      /\ listRefresh \in Int /\ listRefresh <= now /\ failed \in BOOLEAN
  <2>1. listRefresh \in Int /\ listRefresh <= now
    BY <1>1 DEF Init, Never
  <2> QED
    BY <2>1 DEF Init
<1> QED
  BY <1>1, <1>3, <1>4, <1>5 DEF Init, TypeInv

(* What every action but the passing of the time keeps.                    *)
LEMMA SameTimeTypes ==
  ASSUME TypeInv, now' = now, start' = start,
         (DOMAIN wake = Threads /\ Wakes)', ListTypes', HistOK(hist'),
         failed' \in BOOLEAN, {made, ruleRefresh, lastRun}' \subseteq Times \cup {Never}
  PROVE  TypeInv'
BY DEF TypeInv, ListTypes, HistOK

LEMMA CycleTypeStep == TypeInv /\ [Next]_vars => TypeInv'
<1> SUFFICES ASSUME TypeInv, [Next]_vars PROVE TypeInv'
  OBVIOUS
<1>1. now \in Nat /\ now \in Times
  BY NaturalTimes DEF TypeInv
<1>2. \A load \in Loads : HistOK(GetBarHist(hist, load)) /\ HistOK(GetBarHist(SwitchedHist, load))
  BY FetchedHist, SwitchedHistType DEF TypeInv
<1>3. HistOK(hist) /\ HistOK(SwitchedHist)
  BY SwitchedHistType DEF TypeInv
<1>4. \A h, load : Fails(h, load) \in BOOLEAN
  BY DEF Fails
<1>5. {made, ruleRefresh, lastRun} \subseteq Times \cup {Never} /\ failed \in BOOLEAN
  BY DEF TypeInv
<1>6. /\ NextRound(now) \in Nat /\ NextRound(now) > now
      /\ NextRun(StrategyRunTime, now) \in Nat /\ NextRun(StrategyRunTime, now) > now
      /\ NextRun(SwitchRunTime, now) \in Nat /\ NextRun(SwitchRunTime, now) > now
      /\ Gone \in Nat /\ Gone > now
      /\ NextRunOf(MonitorRunTimes, now) \in Nat /\ NextRunOf(MonitorRunTimes, now) > now
  <2>1. Gone \in Nat /\ Gone > now
    BY <1>1, NaturalTimes DEF Gone, Week, MinutesOfDay
  <2>2. NextRound(now) \in Nat /\ NextRound(now) > now
    BY <1>1, LaterRound
  <2>3. NextRun(StrategyRunTime, now) \in Nat /\ NextRun(StrategyRunTime, now) > now
    BY <1>1, LaterRun, RunTimes
  <2>4. NextRun(SwitchRunTime, now) \in Nat /\ NextRun(SwitchRunTime, now) > now
    BY <1>1, LaterRun, RunTimes
  <2>5. NextRunOf(MonitorRunTimes, now) \in Nat /\ NextRunOf(MonitorRunTimes, now) > now
    BY <1>1, LaterRunOf
  <2> QED
    BY <2>1, <2>2, <2>3, <2>4, <2>5
<1>7. CASE InitRules
  <2>1. (DOMAIN wake = Threads /\ Wakes)'
    BY <1>6, <1>7, SleepType DEF InitRules, Threads
  <2>2. ListTypes'
    BY <1>7, RefreshedLists DEF InitRules
  <2>3. HistOK(hist') /\ failed' \in BOOLEAN
    BY <1>2, <1>3, <1>4, <1>5, <1>7 DEF InitRules
  <2>4. {made, ruleRefresh, lastRun}' \subseteq Times \cup {Never}
    BY <1>1, <1>5, <1>7 DEF InitRules, GetRuleMap
  <2> QED
    BY <1>7, <2>1, <2>2, <2>3, <2>4, SameTimeTypes DEF InitRules
<1>8. CASE Round
  <2>1. (DOMAIN wake = Threads /\ Wakes)'
    BY <1>6, <1>8, SleepType DEF Round, Threads
  <2>2. ListTypes'
    BY <1>8, RefreshedLists DEF Round
  <2>3. HistOK(hist') /\ failed' \in BOOLEAN
    BY <1>2, <1>3, <1>4, <1>5, <1>8 DEF Round
  <2> QED
    BY <1>5, <1>8, <2>1, <2>2, <2>3, SameTimeTypes DEF Round
<1>9. CASE SwitchFilled
  <2>1. (DOMAIN wake = Threads /\ Wakes)'
    BY <1>9 DEF SwitchFilled, TypeInv, Wakes
  <2>2. ListTypes'
    BY <1>9, SwitchedLists DEF SwitchFilled
  <2>3. HistOK(hist') /\ failed' \in BOOLEAN
    BY <1>2, <1>4, <1>5, <1>9 DEF SwitchFilled
  <2> QED
    BY <1>5, <1>9, <2>1, <2>2, <2>3, SameTimeTypes DEF SwitchFilled
<1>10. CASE RunStrategy
  <2>1. (DOMAIN wake = Threads /\ Wakes)'
    BY <1>6, <1>10, SleepType DEF RunStrategy, Threads
  <2>2. ListTypes'
    BY <1>10, RefreshedLists DEF RunStrategy
  <2>3. HistOK(hist') /\ failed' \in BOOLEAN
    BY <1>2, <1>3, <1>4, <1>5, <1>10 DEF RunStrategy
  <2>4. {made, ruleRefresh, lastRun}' \subseteq Times \cup {Never}
    BY <1>1, <1>5, <1>10 DEF RunStrategy
  <2> QED
    BY <1>10, <2>1, <2>2, <2>3, <2>4, SameTimeTypes DEF RunStrategy
<1>11. CASE RunSwitcher
  <2>1. (DOMAIN wake = Threads /\ Wakes)'
    BY <1>6, <1>11, SleepType DEF RunSwitcher, Threads
  <2>2. ListTypes'
    BY <1>11, RefreshedLists, SwitchedLists DEF RunSwitcher
  <2>3. HistOK(hist')
    BY <1>3, <1>11 DEF RunSwitcher
  <2> QED
    BY <1>5, <1>11, <2>1, <2>2, <2>3, SameTimeTypes DEF RunSwitcher
<1>12. CASE RunMonitor
  <2>1. (DOMAIN wake = Threads /\ Wakes)'
    BY <1>6, <1>12, SleepType DEF RunMonitor, Threads
  <2>2. ListTypes'
    BY <1>12, RefreshedLists DEF RunMonitor
  <2> QED
    BY <1>3, <1>5, <1>12, <2>1, <2>2, SameTimeTypes DEF RunMonitor
<1>13. CASE Tick
  <2>1. PICK n \in Nat : n = NextInstant /\ n = now' /\ n > now /\ n <= now + 1440
    <3>1. NextInstant \in Nat /\ NextInstant > now
      BY <1>1, NextInstantIs, Earlier, DayAndMinute, SMTT(30)
    <3>2. NextInstant <= now + 1440
      <4>1. now = 1440 * Date(now) + Clock(now) /\ Clock(now) \in 0..1439 /\ Date(now) \in Nat
        BY <1>1, DayAndMinute
      <4>2. /\ NextInstant = 1440 * Date(NextInstant) + Clock(NextInstant)
            /\ Clock(NextInstant) \in 0..1439
        BY <3>1, DayAndMinute
      <4>3. PICK i \in Instants : i \in 0..1439
        BY NaturalInstants
      <4>a. PICK b \in 0..1439 : b = Clock(now)
        BY <4>1
      <4>b. PICK c \in 0..1439 : c = Clock(NextInstant)
        BY <4>2
      <4>4. \/ Date(NextInstant) = Date(now)
            \/ Date(NextInstant) = Date(now) + 1 /\ c <= i /\ i <= b
        BY <1>1, <4>3, <4>a, <4>b, NextInstantIs
      <4>5. PICK n \in Nat : n = NextInstant
        BY <3>1
      <4>6. PICK d \in Nat : now = 1440 * d + b /\ d = Date(now)
        BY <4>1, <4>a
      <4>7. n = 1440 * d + c \/ (n = 1440 * (d + 1) + c /\ c <= b)
        BY <4>2, <4>3, <4>4, <4>5, <4>6, <4>b
      <4>8. n <= 1440 * d + b + 1440
        <5>1. CASE n = 1440 * d + c
          BY <5>1
        <5>2. CASE n = 1440 * (d + 1) + c /\ c <= b
          BY <5>2
        <5> QED
          BY <4>7, <5>1, <5>2
      <4> QED
        BY <4>5, <4>6, <4>8
    <3> QED
      BY <1>13, <3>1, <3>2 DEF Tick
  <2>2. n \in Times
    BY <1>13, <2>1 DEF Tick, Times
  <2>3. \A th \in Threads : wake[th] \in Nat /\ wake[th] > now
    BY <1>1, <1>13 DEF Tick, AllAsleep, Due, TypeInv, Wakes
  <2>4. \A th \in Threads : wake[th] > n - MinutesOfDay
    BY <1>1, <2>1, <2>3 DEF MinutesOfDay
  <2>5. (DOMAIN wake = Threads /\ Wakes)'
    BY <1>13, <2>1, <2>3, <2>4 DEF Tick, TypeInv, Wakes
  <2>6. hist.at \in Int /\ hist.at <= now /\ listRefresh \in Int /\ listRefresh <= now
    BY DEF TypeInv, HistOK
  <2>7. HistOK(hist)' /\ listRefresh <= n
    BY <1>1, <1>3, <1>13, <2>1, <2>6 DEF Tick, HistOK
  <2> QED
    BY <1>13, <2>1, <2>2, <2>5, <2>7 DEF Tick, TypeInv
<1>14. CASE UNCHANGED vars
  BY <1>14 DEF vars, TypeInv, Wakes, HistOK
<1> QED
  BY <1>7, <1>8, <1>9, <1>10, <1>11, <1>12, <1>13, <1>14 DEF Next

(* Every variable keeps its type: no thread sleeps a day too long, the     *)
(* lists show no switch that was not made, and a history without a day has *)
(* no refresh time.                                                        *)
THEOREM CycleTypeCorrect == Spec => []TypeOK
<1>1. TypeInv => TypeOK
  <2> SUFFICES ASSUME TypeInv PROVE TypeOK
    OBVIOUS
  <2>1. hist.day \in -7..Date(End) /\ hist.at <= now
    BY DEF TypeInv, HistOK
  <2> QED
    BY <2>1 DEF TypeInv, Wakes, HistOK, TypeOK
<1> QED
  BY <1>1, CycleTypeInit, CycleTypeStep, PTL DEF Spec

-----------------------------------------------------------------------------
(* StrategyRunner and MainSwitcher wake at an instant, which is not passed *)
(* over: a runner that is due runs at its time.                            *)
LEMMA NotPassed ==
  ASSUME now \in Nat, NEW u \in Nat, u > now, Clock(u) \in Instants
  PROVE  NextInstant <= u
<1>1. PICK n \in Nat : n = NextInstant
  BY NextInstantIs
<1>2. PICK d \in Nat : Date(now) = d
  BY DayAndMinute
<1>3. PICK e \in Nat : Date(u) = e
  BY DayAndMinute
<1>4. PICK b \in 0..1439 : Clock(now) = b
  BY DEF Clock, MinutesOfDay
<1>5. PICK i \in Instants : Clock(u) = i
  OBVIOUS
<1>6. PICK c \in 0..1439 : Clock(n) = c
  BY DEF Clock, MinutesOfDay
<1>7. i \in 0..1439
  BY NaturalInstants
<1>8. now = 1440 * d + b /\ u = 1440 * e + i /\ n = 1440 * Date(n) + c
  BY <1>2, <1>3, <1>4, <1>5, <1>6, DayAndMinute
<1>9. \/ n = 1440 * d + c /\ (i > b => c <= i)
      \/ n = 1440 * (d + 1) + c /\ c <= i /\ i <= b
  BY <1>1, <1>2, <1>4, <1>6, <1>8, NextInstantIs
<1>10. e > d \/ (e = d /\ i > b)
  BY <1>7, <1>8
<1>11. n <= u
  <2>1. CASE e = d /\ i > b
    BY <1>7, <1>8, <1>9, <2>1
  <2>2. CASE e > d
    <3>1. u >= 1440 * (d + 1) + i
      BY <1>7, <1>8, <2>2
    <3>2. CASE n = 1440 * d + c
      BY <1>7, <3>1, <3>2
    <3>3. CASE n = 1440 * (d + 1) + c /\ c <= i
      BY <1>7, <3>1, <3>3
    <3> QED
      BY <1>9, <3>2, <3>3
  <2> QED
    BY <1>10, <2>1, <2>2
<1> QED
  BY <1>1, <1>11

(* The runner has ended for a failed load, or the last of its times is     *)
(* that of its last run, and the next one is to come.                      *)
Runner == wake["runner"]
RunnerInv ==
  \/ Runner = Gone /\ failed
  \/ /\ now <= Runner /\ Runner < Gone
     /\ RunsAt(StrategyRunTime, Runner) /\ start < Runner
     /\ lastRun # Never => /\ RunsAt(StrategyRunTime, lastRun)
                           /\ start < lastRun /\ lastRun <= now /\ lastRun < Runner
     /\ \A u \in Nat : RunsAt(StrategyRunTime, u) /\ start < u /\ u < Runner => u <= lastRun

LEMMA NextStrategyRun ==
  ASSUME NEW t \in Times
  PROVE  /\ NextRun(StrategyRunTime, t) \in Nat
         /\ t < NextRun(StrategyRunTime, t) /\ NextRun(StrategyRunTime, t) < Gone
         /\ RunsAt(StrategyRunTime, NextRun(StrategyRunTime, t))
         /\ \A u \in Nat : RunsAt(StrategyRunTime, u) /\ t < u
                             => ~(u < NextRun(StrategyRunTime, t))
<1>1. t \in Nat /\ t <= End /\ End \in Nat
  BY NaturalTimes
<1>2. PICK n \in Nat : n = NextRun(StrategyRunTime, t) /\ n > t
  BY <1>1, LaterRun, RunTimes
<1>3. n < Gone
  <2>1. n < t + Week
    BY <1>1, <1>2, RunThisWeek, RunTimes
  <2> QED
    BY <1>1, <2>1 DEF Gone, Week, MinutesOfDay
<1>4. /\ RunsAt(StrategyRunTime, n)
      /\ \A u \in t + 1 .. n - 1 : ~RunsAt(StrategyRunTime, u)
  BY <1>1, <1>2, NextRunIsNext, RunTimes
<1>5. \A u \in Nat : RunsAt(StrategyRunTime, u) /\ t < u => ~(u < n)
  BY <1>1, <1>4
<1> QED
  BY <1>2, <1>3, <1>4, <1>5

LEMMA RunnerInit == Init => RunnerInv
<1> SUFFICES ASSUME Init PROVE RunnerInv
  OBVIOUS
<1>1. now \in Times /\ now = start /\ lastRun = Never /\ now \in Nat
  BY NaturalTimes DEF Init
<1>2. Runner = NextRun(StrategyRunTime, now)
  BY <1>1 DEF Init, Runner
<1>3. Runner \in Nat
  BY <1>1, <1>2, NextStrategyRun
<1> QED
  BY <1>1, <1>2, <1>3, NextStrategyRun DEF RunnerInv

(* A step that leaves the runner alone.                                    *)
LEMMA RunnerAlone ==
  ASSUME RunnerInv, now' = now, start' = start, lastRun' = lastRun,
         Runner' = Runner, failed => failed'
  PROVE  RunnerInv'
BY DEF RunnerInv, RunsAt, Gone

LEMMA RunnerRuns ==
  ASSUME TypeInv, RunnerInv, RunStrategy
  PROVE  RunnerInv'
<1>1. /\ now \in Times /\ now \in Nat /\ now <= End /\ End \in Nat /\ failed \in BOOLEAN
      /\ Runner \in Nat /\ start \in Nat
  BY NaturalTimes DEF TypeInv, Wakes, Threads, Runner
<1>2. Runner <= now /\ Gone > now
  BY <1>1 DEF RunStrategy, Due, Runner, Gone, Week, MinutesOfDay
<1>3. Runner = now /\ RunsAt(StrategyRunTime, now) /\ start < now
  BY <1>1, <1>2 DEF RunnerInv
<1>4. now' = now /\ start' = start /\ lastRun' = now
  BY DEF RunStrategy
<1>5. CASE Sleep("runner", NextRun(StrategyRunTime, now))
  <2>1. PICK n \in Nat : n = NextRun(StrategyRunTime, now)
    BY <1>1, NextStrategyRun
  <2>2. Runner' = n
    BY <1>5, <2>1 DEF Sleep, Runner, TypeInv, Threads
  <2>3. now < n /\ n < Gone /\ RunsAt(StrategyRunTime, n)
    BY <1>1, <2>1, NextStrategyRun
  <2>4. \A u \in Nat : RunsAt(StrategyRunTime, u) /\ u < n => u <= now
    BY <1>1, <2>1, NextStrategyRun
  <2> QED
    BY <1>1, <1>3, <1>4, <2>2, <2>3, <2>4 DEF RunnerInv, RunsAt, Gone
<1>6. CASE Sleep("runner", Gone) /\ \E load \in Loads : Fails(hist, load) /\ failed'
  <2>1. Runner' = Gone
    BY <1>6 DEF Sleep, Runner, TypeInv, Threads
  <2> QED
    BY <1>6, <2>1 DEF RunnerInv, Gone
<1> QED
  BY <1>1, <1>5, <1>6 DEF RunStrategy

LEMMA RunnerStep == TypeInv /\ RunnerInv /\ [Next]_vars => RunnerInv'
<1> SUFFICES ASSUME TypeInv, RunnerInv, [Next]_vars PROVE RunnerInv'
  OBVIOUS
<1>1. \A th \in Threads \ {"runner"} : \A t : Sleep(th, t) => Runner' = Runner
  BY DEF Sleep, Runner, TypeInv, Threads
<1>2. CASE InitRules \/ Round
  <2>1. Sleep("executor", NextRound(now)) /\ now' = now /\ start' = start
        /\ lastRun' = lastRun
    BY <1>2 DEF InitRules, Round
  <2>2. failed => failed'
    BY <1>2, Zenon DEF InitRules, Round
  <2> QED
    BY <1>1, <2>1, <2>2, RunnerAlone DEF Threads
<1>3. CASE SwitchFilled
  BY <1>3, RunnerAlone DEF SwitchFilled, Runner
<1>4. CASE RunStrategy
  BY <1>4, RunnerRuns
<1>5. CASE RunSwitcher \/ RunMonitor
  <2>1. (\E t : Sleep("switcher", t) \/ Sleep("monitor", t)) /\ now' = now
        /\ start' = start /\ lastRun' = lastRun /\ failed' = failed
    BY <1>5 DEF RunSwitcher, RunMonitor
  <2> QED
    BY <1>1, <2>1, RunnerAlone DEF Threads
<1>6. CASE Tick
  <2>1. now \in Nat /\ Runner \in Nat /\ Runner > now
    BY <1>6, NaturalTimes DEF Tick, AllAsleep, Due, Runner, Threads, TypeInv, Wakes
  <2>2. PICK n \in Nat : n = NextInstant /\ n = now' /\ n > now
    <3>1. NextInstant \in Nat /\ NextInstant > now
      BY <2>1, NextInstantIs, Earlier, DayAndMinute, SMTT(30)
    <3> QED
      BY <1>6, <3>1 DEF Tick
  <2>3. RunsAt(StrategyRunTime, Runner) => n <= Runner
    BY <2>1, <2>2, NotPassed, RunTimes DEF RunsAt
  <2>4. Runner' = Runner /\ start' = start /\ lastRun' = lastRun /\ failed' = failed
    BY <1>6 DEF Tick, Runner
  <2>5. lastRun \in Int
    BY NaturalTimes DEF TypeInv, Never
  <2>6. lastRun <= now => lastRun <= n
    BY <2>1, <2>2, <2>5
  <2> QED
    BY <2>1, <2>2, <2>3, <2>4, <2>6 DEF RunnerInv, RunsAt, Gone
<1>7. CASE UNCHANGED vars
  BY <1>7, RunnerAlone DEF vars, Runner
<1> QED
  BY <1>2, <1>3, <1>4, <1>5, <1>6, <1>7 DEF Next

LEMMA RunnerHasRun ==
  ASSUME TypeInv, RunnerInv, AllAsleep, Runner # Gone
  PROVE  lastRun = IF RunDays = {} THEN Never
                   ELSE Max(RunDays) * MinutesOfDay + StrategyRunTime
<1>1. /\ now \in Nat /\ start \in Nat /\ Runner \in Nat /\ Runner > now
      /\ lastRun \in Nat \cup {Never}
  BY NaturalTimes DEF TypeInv, Wakes, Threads, Runner, AllAsleep, Due
<1>2. PICK r \in 0..1439 : r = StrategyRunTime
  BY RunTimes
<1>3. ASSUME NEW d \in Nat
      PROVE  LET u == 1440 * d + r
             IN u \in Nat /\ Clock(u) = r /\ Date(u) = d /\ d * MinutesOfDay + r = u
  BY DEF Clock, Date, MinutesOfDay
<1>4. ASSUME NEW d \in RunDays
      PROVE  d \in Nat /\ lastRun \in Nat /\ 1440 * d + r <= lastRun
  <2>1. d \in Nat
    BY <1>1, <1>4, DayAndMinute DEF RunDays
  <2>2. PICK u \in Nat : u = 1440 * d + r /\ Clock(u) = r /\ Date(u) = d
                         /\ d * MinutesOfDay + r = u
    BY <1>3, <2>1
  <2>3. WorkingDay(d) /\ start < u /\ u <= now
    BY <1>2, <1>4, <2>2 DEF RunDays
  <2>4. u <= lastRun
    BY <1>1, <1>2, <2>2, <2>3 DEF RunnerInv, RunsAt
  <2> QED
    BY <1>1, <2>1, <2>2, <2>4 DEF Never
<1>5. ASSUME lastRun # Never
      PROVE  /\ Date(lastRun) \in RunDays
             /\ lastRun = Date(lastRun) * MinutesOfDay + StrategyRunTime
             /\ \A d \in RunDays : Date(lastRun) >= d
  <2>1. PICK u \in Nat : u = lastRun
    BY <1>1, <1>5
  <2>2. PICK d \in Nat : d = Date(u)
    BY DayAndMinute
  <2>3. Clock(u) = r /\ WorkingDay(d) /\ start < u /\ u <= now
    BY <1>2, <1>5, <2>1, <2>2 DEF RunnerInv, RunsAt
  <2>4. u = 1440 * d + r /\ u = d * MinutesOfDay + r
    BY <1>3, <2>2, <2>3, DayAndMinute
  <2>5. d <= Date(now) /\ Date(now) \in Nat
    <3>1. PICK e \in Nat : e = Date(now)
      BY <1>1, DayAndMinute
    <3>a. PICK c \in 0..1439 : c = Clock(now)
      BY <1>1 DEF Clock, MinutesOfDay
    <3>2. now = 1440 * e + c
      BY <1>1, <3>1, <3>a, DayAndMinute
    <3>3. 1440 * d + r <= 1440 * e + c
      BY <2>3, <2>4, <3>2
    <3>4. d <= e
      BY <3>3, r \in Nat, c < 1440
    <3> QED
      BY <3>1, <3>4
  <2>6. d \in RunDays
    BY <1>2, <2>3, <2>4, <2>5 DEF RunDays
  <2>7. ASSUME NEW e \in RunDays PROVE d >= e
    <3>1. e \in Nat /\ 1440 * e + r <= 1440 * d + r
      BY <1>4, <2>1, <2>4, <2>7
    <3> QED
      BY <3>1
  <2> QED
    BY <1>2, <2>1, <2>2, <2>4, <2>6, <2>7
<1>6. CASE lastRun = Never
  <2>1. RunDays = {}
    BY <1>4, <1>6 DEF Never
  <2> QED
    BY <1>6, <2>1
<1>7. CASE lastRun # Never
  <2>1. PICK d \in RunDays : d = Date(lastRun) /\ \A e \in RunDays : d >= e
    BY <1>5, <1>7
  <2>2. \A e \in RunDays : e \in Nat
    BY <1>4
  <2>3. ASSUME NEW e \in RunDays, \A f \in RunDays : e >= f PROVE e = d
    BY <2>1, <2>2, <2>3
  <2>4. Max(RunDays) = d
    BY <2>1, <2>3 DEF Max
  <2> QED
    BY <1>5, <1>7, <2>1, <2>4
<1> QED
  BY <1>6, <1>7

(* StrategyRunner runs on every working day and on no other, until a       *)
(* failed load ends it, whichever its time and that of the start.          *)
THEOREM RunnerCorrect == Spec => []RunnerEachDay
<1>1. TypeInv /\ RunnerInv => RunnerEachDay
  <2> SUFFICES ASSUME TypeInv, RunnerInv PROVE RunnerEachDay
    OBVIOUS
  <2>1. CASE Runner = Gone
    <3>1. End \in Nat /\ failed
      BY <2>1, NaturalTimes DEF RunnerInv, Gone, Week, MinutesOfDay
    <3> QED
      BY <2>1, <3>1 DEF RunnerEachDay, Runner
  <2>2. CASE Runner # Gone
    <3>1. AllAsleep => lastRun = IF RunDays = {} THEN Never
                                 ELSE Max(RunDays) * MinutesOfDay + StrategyRunTime
      BY <2>2, RunnerHasRun
    <3> QED
      BY <2>2, <3>1 DEF RunnerEachDay, Runner
  <2> QED
    BY <2>1, <2>2
<1>2. TypeInv /\ RunnerInv /\ [Next]_vars => (TypeInv /\ RunnerInv)'
  BY CycleTypeStep, RunnerStep
<1> QED
  BY <1>1, <1>2, CycleTypeInit, RunnerInit, PTL DEF Spec

-----------------------------------------------------------------------------
(* The minute before the opening of a working day, in which rules and      *)
(* lists are made again.                                                   *)
OpenAt(d) == 1440 * d + BarOpenTime
CloseAt(d) == 1440 * d + BarCloseTime
Evening(t) == ~Weekend(t) /\ t = BeforeOpen(t)

LEMMA SessionNumbers ==
  /\ BarOpenTime \in Nat /\ BarOpenTime < 1440 /\ BarCloseTime \in Nat
  /\ BarCloseTime + 60 < BarOpenTime
  /\ SessionTimes => BarCloseTime >= 540
<1>1. /\ BarOpenTime \in 0..1439 /\ BarCloseTime \in 0..1439
      /\ BarCloseTime + 60 < BarOpenTime
  BY TimeAssumption
<1>2. SessionTimes => BarCloseTime >= 540
  BY DEF SessionTimes, At
<1> QED
  BY <1>1, <1>2

LEMMA EveningTime ==
  ASSUME NEW t \in Nat
  PROVE  Evening(t) <=> WorkingDay(Date(t)) /\ t = OpenAt(Date(t)) - 1
<1>1. PICK d \in Nat : d = Date(t)
  BY DayAndMinute
<1>2. Midnight(t) = 1440 * d /\ DayOfWeek(t) = d % 7 /\ d % 7 \in 0..6
  BY <1>1, DayAndMinute, DaysAhead
<1>3. Weekend(t) <=> ~WorkingDay(d)
  BY <1>2 DEF Weekend, WorkingDay, Saturday, Sunday
<1>4. BeforeOpen(t) = OpenAt(d) - 1
  BY <1>2, SessionNumbers DEF BeforeOpen, OpenAt
<1> QED
  BY <1>1, <1>3, <1>4 DEF Evening

(* In that minute what was refreshed before the close is refreshed.        *)
LEMMA EveningRefresh ==
  ASSUME NEW t \in Nat, Evening(t), NEW last \in Int
  PROVE  NeedRefreshBeforeOpen(last, t) <=> last < CloseAt(Date(t))
<1>1. PICK d \in Nat : d = Date(t)
  BY DayAndMinute
<1>2. Midnight(t) = 1440 * d /\ t = 1440 * d + Clock(t)
  BY <1>1, DayAndMinute
<1>3. PICK c \in 0..1439 : c = Clock(t)
  BY DEF Clock, MinutesOfDay
<1>4. t = OpenAt(d) - 1 /\ ~Weekend(t)
  BY <1>1, EveningTime DEF Evening
<1>5. c = BarOpenTime - 1
  BY <1>2, <1>3, <1>4, SessionNumbers DEF OpenAt
<1>6. c >= BarCloseTime + 60 /\ c < BarOpenTime
  BY <1>5, SessionNumbers
<1> QED
  BY <1>1, <1>2, <1>3, <1>4, <1>6 DEF NeedRefreshBeforeOpen, CloseAt

LEMMA EveningQuiet ==
  ASSUME SessionTimes, NEW t \in Nat, Evening(t)
  PROVE  ~Trading(t) /\ Clock(t) = BarOpenTime - 1
<1>1. PICK d \in Nat : d = Date(t)
  BY DayAndMinute
<1>2. t = 1440 * d + Clock(t)
  BY <1>1, DayAndMinute
<1>3. PICK c \in 0..1439 : c = Clock(t)
  BY DEF Clock, MinutesOfDay
<1>4. t = OpenAt(d) - 1
  BY <1>1, EveningTime
<1>5. c = BarOpenTime - 1
  BY <1>2, <1>3, <1>4, SessionNumbers DEF OpenAt
<1>6. ~(c >= BarOpenTime) /\ ~(c < 150) /\ ~(c < BarCloseTime)
  BY <1>5, SessionNumbers
<1> QED
  BY <1>3, <1>5, <1>6 DEF Trading, At

(* A session belongs to the latest close: it comes after that day's        *)
(* opening.                                                                *)
LEMMA SessionDay ==
  ASSUME SessionTimes, NEW t \in Nat, Trading(t)
  PROVE  /\ LatestBar(t) \in Int /\ WorkingDay(LatestBar(t))
         /\ OpenAt(LatestBar(t)) <= t
         /\ LastClose(t) = CloseAt(LatestBar(t))
<1>1. PICK d \in Nat : d = Date(t)
  BY DayAndMinute
<1>2. t = 1440 * d + Clock(t)
  BY <1>1, DayAndMinute
<1>3. PICK c \in 0..1439 : c = Clock(t)
  BY DEF Clock, MinutesOfDay
<1>4. PICK l \in Int : l = LatestBar(t) /\ l <= d
  BY <1>1, LatestBarIs
<1>5. WorkingDay(l) /\ 1440 * l + BarCloseTime <= 1440 * d + c
  BY <1>2, <1>3, <1>4, LatestBarIs
<1>6. c >= BarOpenTime \/ c < BarCloseTime
  <2>1. c >= BarOpenTime \/ c < 150 \/ c < BarCloseTime
    BY <1>3 DEF Trading, At
  <2> QED
    BY <2>1, SessionNumbers
<1>7. c < BarCloseTime => l < d
  BY <1>4, <1>5, SessionNumbers
<1>8. l < d => 1440 * l + BarOpenTime <= 1440 * d + c
  BY SessionNumbers, c \in Nat
<1>9. c >= BarOpenTime => 1440 * l + BarOpenTime <= 1440 * d + c
  BY <1>4, SessionNumbers, c \in Nat
<1>10. OpenAt(l) <= t
  BY <1>2, <1>3, <1>6, <1>7, <1>8, <1>9 DEF OpenAt
<1> QED
  BY <1>4, <1>5, <1>10 DEF LastClose, CloseAt, MinutesOfDay

(* When an opening comes, the minute before it was now and the executor    *)
(* has made its round; and when that minute comes the executor is due.     *)
LEMMA OpeningComes ==
  ASSUME TypeInv, Tick, NEW d \in Nat, WorkingDay(d),
         OpenAt(d) <= now', ~(OpenAt(d) <= now)
  PROVE  Evening(now) /\ Date(now) = d /\ Executor > now
<1>1. now \in Nat /\ Executor > now
  BY NaturalTimes DEF TypeInv, Wakes, Tick, AllAsleep, Due, Threads, Executor
<1>2. PICK m \in 0..1439 : m = BarOpenTime - 1
  BY SessionNumbers
<1>3. PICK u \in Nat : u = 1440 * d + m
  OBVIOUS
<1>4. Date(u) = d /\ Clock(u) = m
  BY <1>3 DEF Date, Clock, MinutesOfDay
<1>5. u = OpenAt(d) - 1
  BY <1>2, <1>3, SessionNumbers DEF OpenAt
<1>6. now' = NextInstant /\ NextInstant \in Nat
  BY <1>1, NextInstantIs DEF Tick
<1>7. ~(u > now)
  <2>1. SUFFICES ASSUME u > now PROVE FALSE
    OBVIOUS
  <2>2. Clock(u) \in Instants
    BY <1>2, <1>4, RunTimes
  <2>3. NextInstant <= u
    BY <1>1, <2>1, <2>2, NotPassed
  <2>4. OpenAt(d) \in Int
    BY SessionNumbers DEF OpenAt
  <2> QED
    BY <1>5, <1>6, <2>3, <2>4
<1>8. now = u
  <2>1. OpenAt(d) \in Int
    BY SessionNumbers DEF OpenAt
  <2> QED
    BY <1>1, <1>5, <1>7, <2>1
<1> QED
  BY <1>1, <1>4, <1>5, <1>8, EveningTime

LEMMA EveningComes ==
  ASSUME SessionTimes, TypeInv, AwakeInv, Tick, Evening(now)'
  PROVE  Executor' <= now'
<1>1. PICK t \in Nat : t = now
  BY NaturalTimes DEF TypeInv
<1>2. PICK w \in Nat : w = Executor /\ w > t
  BY <1>1 DEF TypeInv, Wakes, Tick, AllAsleep, Due, Threads, Executor
<1>3. PICK n \in Nat : n = NextInstant /\ n = now'
  BY <1>1, NextInstantIs DEF Tick
<1>4. PICK d \in Nat : d = Date(t)
  BY DayAndMinute
<1>5. PICK b \in 0..1439 : b = Clock(t)
  BY DEF Clock, MinutesOfDay
<1>6. PICK e \in Nat : e = Date(n)
  BY DayAndMinute
<1>7. t = 1440 * d + b /\ Midnight(t) = 1440 * d /\ DayOfWeek(t) = d % 7
  BY <1>4, <1>5, DayAndMinute
<1>8. e = d \/ e = d + 1
  BY <1>1, <1>3, <1>4, <1>6, NextInstantIs
<1>9. PICK o \in Nat : o = BarOpenTime /\ o < 1440 /\ o > 0
  BY SessionNumbers
<1>10. n > t
  <2>1. NextInstant > now
    BY <1>1, <1>3, NextInstantIs, Earlier, DayAndMinute, SMTT(30)
  <2> QED
    BY <1>1, <1>3, <2>1
<1>11. n = 1440 * e + o - 1 /\ e % 7 < 5
  <2>1. Evening(n)
    BY <1>3 DEF Evening, Weekend, DayOfWeek, BeforeOpen, Midnight, Date
  <2> QED
    BY <1>6, <1>9, <2>1, EveningTime DEF OpenAt, WorkingDay, Saturday
<1>12. w <= n
  <2>1. CASE Awake /\ WeekendBreak(t)
    <3>1. d % 7 \in {5, 6}
      BY <1>7, <2>1 DEF WeekendBreak, Saturday, Sunday
    <3>2. e = d + 1 /\ d % 7 = 6
      BY <1>8, <1>11, <3>1, DaysAhead
    <3>3. w = 1440 * (d + 1)
      BY <1>1, <1>2, <1>4, <1>7, <2>1, <3>2 DEF Awake, Monday
    <3> QED
      BY <1>9, <1>11, <3>2, <3>3
  <2>2. CASE Awake /\ ~WeekendBreak(t)
    <3>1. w <= t + 1 \/ w <= 1440 * d + o - 1
      BY <1>1, <1>2, <1>7, <1>9, <2>2 DEF Awake, BeforeOpen
    <3>2. CASE w <= t + 1
      BY <1>10, <3>2
    <3>3. CASE w <= 1440 * d + o - 1
      BY <1>8, <1>11, <3>3
    <3> QED
      BY <3>1, <3>2, <3>3
  <2>3. CASE Asleep
    <3>1. start \in Nat
      BY NaturalTimes DEF TypeInv
    <3>2. Clock(w) = 720 /\ Date(w) % 7 = 0
      BY <1>2, <2>3, <3>1, MondayNoonIs DEF Asleep, Oversleeps
    <3>3. PICK f \in Nat : f = Date(w) /\ w = 1440 * f + 720 /\ f % 7 = 0
      <4>1. Date(w) \in Nat /\ w = 1440 * Date(w) + Clock(w)
        BY DayAndMinute
      <4> QED
        BY <3>2, <4>1
    <3>4. o > 720
      BY <1>9 DEF SessionTimes, At
    <3>5. CASE f <= e
      BY <1>11, <3>3, <3>4, <3>5
    <3>6. CASE f > e
      <4>1. PICK g \in Nat : /\ g = Date(start) /\ g % 7 \in {5, 6}
                             /\ f = g + (7 - (g % 7))
        <5>1. PICK g \in Nat : g = Date(start) /\ g % 7 \in {5, 6}
          BY <2>3, <3>1, DayAndMinute DEF Asleep, Oversleeps, Afternoon, Weekend, DayOfWeek,
                                          Saturday, Sunday
        <5>2. w = 1440 * g + (7 - (g % 7)) * 1440 + 720
          BY <1>2, <2>3, <3>1, <5>1, DayAndMinute DEF Asleep, MondayNoon, Next24,
                                                      MinutesOfDay, At
        <5>3. f = g + (7 - (g % 7))
          <6>1. PICK k \in Nat : k = 7 - (g % 7)
            BY <5>1
          <6>2. w = 1440 * g + k * 1440 + 720
            BY <5>2, <6>1
          <6>3. w = 1440 * f + 720
            BY <3>3
          <6>4. PICK h \in Nat : h = g + k /\ w = 1440 * h + 720
            BY <6>2
          <6>5. f = h
            BY <6>3, <6>4
          <6> QED
            BY <6>1, <6>4, <6>5
        <5> QED
          BY <5>1, <5>3
      <4>2. g <= d
        BY <1>1, <1>4, <2>3, <3>1, <4>1, Earlier, SMTT(30) DEF Asleep
      <4>3. e \in {g, g + 1} /\ (g % 7 = 6 => e = g)
        BY <1>8, <3>6, <4>1, <4>2
      <4>4. e % 7 \in {5, 6}
        BY <4>1, <4>3, DaysAhead
      <4> QED
        BY <1>11, <4>4
    <3> QED
      BY <3>3, <3>5, <3>6
  <2> QED
    BY <2>1, <2>2, <2>3 DEF AwakeInv
<1> QED
  BY <1>2, <1>3, <1>12 DEF Tick, Executor

-----------------------------------------------------------------------------
(* MainSwitcher is not late.                                               *)
Switcher == wake["switcher"]
SwitcherInv == now <= Switcher /\ Clock(Switcher) = SwitchRunTime

LEMMA SwitcherStep == TypeInv /\ SwitcherInv /\ [Next]_vars => SwitcherInv'
<1> SUFFICES ASSUME TypeInv, SwitcherInv, [Next]_vars PROVE SwitcherInv'
  OBVIOUS
<1>1. now \in Nat /\ Switcher \in Nat
  BY NaturalTimes DEF TypeInv, Wakes, Threads, Switcher
<1>2. \A th \in Threads \ {"switcher"} : \A t : Sleep(th, t) => Switcher' = Switcher
  BY DEF Sleep, Switcher, TypeInv, Threads
<1>3. now' = now /\ Switcher' = Switcher => SwitcherInv'
  BY DEF SwitcherInv, Clock
<1>4. CASE InitRules \/ Round \/ RunMonitor \/ RunStrategy
  <2>1. now' = now /\ \E th \in Threads \ {"switcher"} : \E t : Sleep(th, t)
    <3>1. /\ now' = now
          /\ \E t : Sleep("executor", t) \/ Sleep("monitor", t) \/ Sleep("runner", t)
      BY <1>4 DEF InitRules, Round, RunMonitor, RunStrategy
    <3> QED
      BY <3>1 DEF Threads
  <2> QED
    BY <1>2, <1>3, <2>1
<1>5. CASE SwitchFilled
  BY <1>3, <1>5 DEF SwitchFilled, Switcher
<1>6. CASE RunSwitcher
  <2>1. PICK n \in Nat : n = NextRun(SwitchRunTime, now) /\ n > now
    BY <1>1, LaterRun, RunTimes
  <2>2. Clock(n) = SwitchRunTime
    BY <1>1, <2>1, NextRunIsNext, RunTimes DEF RunsAt
  <2>3. Switcher' = n /\ now' = now
    BY <1>6, <2>1 DEF RunSwitcher, Sleep, Switcher, TypeInv, Threads
  <2> QED
    BY <1>1, <2>1, <2>2, <2>3 DEF SwitcherInv, Clock
<1>7. CASE Tick
  <2>1. Switcher > now
    BY <1>1, <1>7 DEF Tick, AllAsleep, Due, Switcher, Threads
  <2>2. NextInstant <= Switcher
    BY <1>1, <2>1, NotPassed, RunTimes DEF SwitcherInv
  <2> QED
    BY <1>7, <2>2 DEF Tick, Switcher, SwitcherInv, Clock
<1>8. CASE UNCHANGED vars
  BY <1>3, <1>8 DEF vars, Switcher
<1> QED
  BY <1>4, <1>5, <1>6, <1>7, <1>8 DEF Next

(* A switch that the lists do not show has put their refresh time a week   *)
(* back, and it is not older than the last opening.                        *)
SeenInv ==
  /\ switched # lists => listRefresh = Never \/ listRefresh <= now - Week
  /\ \A s \in switched \ lists, d \in Nat :
       WorkingDay(d) /\ OpenAt(d) <= now => s >= OpenAt(d)
  /\ Evening(now) /\ Executor > now => switched = lists

LEMMA RefreshSeen ==
  ASSUME TypeInv, SeenInv, RefreshContractList, switched' = switched, now' = now
  PROVE  SeenInv'
<1>1. now \in Nat /\ listRefresh \in Int
  BY NaturalTimes DEF TypeInv
<1>2. CASE StaleLists
  BY <1>2 DEF RefreshContractList, SeenInv
<1>3. CASE ~StaleLists
  <2>1. lists' = lists /\ listRefresh' = listRefresh
    BY <1>3 DEF RefreshContractList, ListRefreshTime
  <2>2. Evening(now) => switched = lists
    <3>1. SUFFICES ASSUME Evening(now), switched # lists PROVE FALSE
      OBVIOUS
    <3>2. listRefresh # Never /\ ~(listRefresh < CloseAt(Date(now)))
      BY <1>1, <1>3, <3>1, EveningRefresh DEF StaleLists, NoLists
    <3>3. listRefresh <= now - Week
      BY <3>1, <3>2 DEF SeenInv
    <3>4. PICK d \in Nat : d = Date(now)
      BY <1>1, DayAndMinute
    <3>5. now = OpenAt(d) - 1
      BY <1>1, <3>1, <3>4, EveningTime
    <3> QED
      BY <1>1, <3>2, <3>3, <3>4, <3>5, SessionNumbers DEF OpenAt, CloseAt, Week, MinutesOfDay
  <2> QED
    BY <2>1, <2>2 DEF SeenInv, Evening, Weekend, DayOfWeek, BeforeOpen, Midnight, Date
<1> QED
  BY <1>2, <1>3

LEMMA SwitchSeen ==
  ASSUME TypeInv, SeenInv, MainSwitch, now' = now, ~Evening(now)
  PROVE  SeenInv'
<1>1. now \in Nat /\ listRefresh \in Int /\ listRefresh <= now
  BY NaturalTimes DEF TypeInv
<1>2. ListRefreshTime \in Int /\ ListRefreshTime <= now
  BY <1>1 DEF ListRefreshTime
<1>3. listRefresh' = Never \/ listRefresh' <= now - Week
  BY <1>1, <1>2 DEF MainSwitch, WeekBefore, Week, MinutesOfDay
<1>4. \A s \in switched' \ lists' : s = now \/ s \in switched \ lists
  BY DEF MainSwitch
<1>5. \A s \in switched' \ lists', d \in Nat :
        WorkingDay(d) /\ OpenAt(d) <= now => s >= OpenAt(d)
  <2>1. \A d \in Nat : OpenAt(d) \in Int /\ (OpenAt(d) <= now => now >= OpenAt(d))
    BY <1>1, SessionNumbers DEF OpenAt
  <2> QED
    BY <1>4, <2>1 DEF SeenInv
<1>6. ~Evening(now)'
  BY DEF Evening, Weekend, DayOfWeek, BeforeOpen, Midnight, Date
<1> QED
  BY <1>3, <1>5, <1>6 DEF SeenInv, WorkingDay, OpenAt

LEMMA SeenUnchanged ==
  ASSUME SeenInv, UNCHANGED <<now, switched, lists, listRefresh>>, Executor' = Executor
  PROVE  SeenInv'
BY DEF SeenInv, Evening, Weekend, DayOfWeek, BeforeOpen, Midnight, Date, WorkingDay, OpenAt

LEMMA SeenTick ==
  ASSUME SessionTimes, TypeInv, AwakeInv, SeenInv, Tick
  PROVE  SeenInv'
<1>1. now \in Nat /\ listRefresh \in Int /\ Executor \in Nat
  BY NaturalTimes DEF TypeInv, Wakes, Threads, Executor
<1>2. PICK n \in Nat : n = now' /\ n > now
  <2>1. NextInstant \in Nat /\ NextInstant > now
    BY <1>1, NextInstantIs, Earlier, DayAndMinute, SMTT(30)
  <2> QED
    BY <2>1 DEF Tick
<1>3. switched' = switched /\ lists' = lists /\ listRefresh' = listRefresh
      /\ Executor' = Executor
  BY DEF Tick, Executor
<1>4. switched # lists => listRefresh = Never \/ listRefresh <= n - Week
  <2>1. PICK w \in Nat : w = Week
    BY DEF Week, MinutesOfDay
  <2>2. PICK l \in Int : l = listRefresh
    BY <1>1
  <2>3. PICK t \in Nat : t = now /\ n > t
    BY <1>1, <1>2
  <2>4. l <= t - w => l <= n - w
    BY <2>3
  <2> QED
    BY <2>1, <2>2, <2>3, <2>4 DEF SeenInv
<1>5. ASSUME NEW s \in switched \ lists, NEW d \in Nat, WorkingDay(d), OpenAt(d) <= n
      PROVE  s >= OpenAt(d)
  <2>1. CASE OpenAt(d) <= now
    BY <1>5, <2>1 DEF SeenInv
  <2>2. CASE ~(OpenAt(d) <= now)
    <3>1. Evening(now) /\ Executor > now
      BY <1>2, <1>5, <2>2, OpeningComes
    <3> QED
      BY <1>5, <3>1 DEF SeenInv
  <2> QED
    BY <2>1, <2>2
<1>6. Evening(now)' => ~(Executor' > now')
  BY <1>1, <1>2, <1>3, EveningComes
<1> QED
  BY <1>2, <1>3, <1>4, <1>5, <1>6 DEF SeenInv, WorkingDay, OpenAt

(* MainSwitcher does not run in the minute before the opening.             *)
SwitchBeforeOrAfter == SwitchRunTime # BarOpenTime - 1

LEMMA SeenStep ==
  ASSUME SessionTimes, SwitchBeforeOrAfter, TypeInv, AwakeInv, SwitcherInv, SeenInv,
         [Next]_vars
  PROVE  SeenInv'
<1>1. now \in Nat /\ Switcher \in Nat
  BY NaturalTimes DEF TypeInv, Wakes, Threads, Switcher
<1>2. CASE InitRules \/ Round \/ RunStrategy \/ RunMonitor
  BY <1>2, RefreshSeen DEF InitRules, Round, RunStrategy, RunMonitor
<1>3. CASE SwitchFilled
  BY <1>1, <1>3, EveningQuiet, SwitchSeen DEF SwitchFilled
<1>4. CASE RunSwitcher
  <2>1. Switcher = now
    BY <1>1, <1>4 DEF RunSwitcher, Due, SwitcherInv, Switcher
  <2>2. ~Evening(now)
    BY <1>1, <2>1, EveningQuiet DEF SwitcherInv, SwitchBeforeOrAfter
  <2> QED
    BY <1>4, <2>2, RefreshSeen, SwitchSeen DEF RunSwitcher
<1>5. CASE Tick
  BY <1>5, SeenTick
<1>6. CASE UNCHANGED vars
  BY <1>6, SeenUnchanged DEF vars, Executor
<1> QED
  BY <1>2, <1>3, <1>4, <1>5, <1>6 DEF Next

LEMMA SeenInit == Init => SeenInv /\ SwitcherInv
<1> SUFFICES ASSUME Init PROVE SeenInv /\ SwitcherInv
  OBVIOUS
<1>1. now \in Nat /\ now = start
  BY NaturalTimes DEF Init
<1>2. SeenInv
  BY DEF Init, SeenInv
<1>3. PICK n \in Nat : n = NextRun(SwitchRunTime, now) /\ n > now
  BY <1>1, LaterRun, RunTimes
<1>4. Clock(n) = SwitchRunTime
  BY <1>1, <1>3, NextRunIsNext, RunTimes DEF RunsAt
<1>5. Switcher = n
  BY <1>1, <1>3 DEF Init, Switcher
<1> QED
  BY <1>1, <1>2, <1>3, <1>4, <1>5 DEF SwitcherInv

(* In a session the lists of ContractHolderImpl show every main switch but *)
(* those made since the night session opened, for any times of the timers  *)
(* but a MainSwitcher that runs in the minute before the opening, after    *)
(* the lists have been read.                                               *)
THEOREM ListsCorrect ==
  ASSUME SessionTimes, MorningInstant, SwitchBeforeOrAfter
  PROVE  Spec => []ListsOfTheDay
<1> DEFINE Inv == TypeInv /\ AwakeInv /\ SwitcherInv /\ SeenInv
<1>0. TypeInv => start \in Nat
  BY NaturalTimes DEF TypeInv
<1>1. Init => Inv
  BY CycleTypeInit, AwakeInit, SeenInit
<1>2. Inv /\ [Next]_vars => Inv'
  BY <1>0, CycleTypeStep, AwakeStep, SwitcherStep, SeenStep
<1>3. Inv => ListsOfTheDay
  <2>1. SUFFICES ASSUME Inv, Trading(now), NEW s \in switched \ lists
                 PROVE  s >= LastClose(now) + BarOpenTime - BarCloseTime
    BY DEF ListsOfTheDay
  <2>2. now \in Nat /\ s \in Nat
    BY <2>1, NaturalTimes DEF TypeInv
  <2>3. PICK d \in Int : /\ d = LatestBar(now) /\ WorkingDay(d) /\ OpenAt(d) <= now
                         /\ LastClose(now) = CloseAt(d)
    BY <2>1, <2>2, SessionDay
  <2>4. s >= OpenAt(d)
    <3>1. CASE d \in Nat
      BY <2>1, <2>3, <3>1 DEF SeenInv
    <3>2. CASE d < 0
      BY <2>2, <3>2, SessionNumbers DEF OpenAt
    <3> QED
      BY <3>1, <3>2
  <2>5. LastClose(now) + BarOpenTime - BarCloseTime = OpenAt(d)
    BY <2>3, SessionNumbers DEF OpenAt, CloseAt
  <2> QED
    BY <2>4, <2>5
<1> QED
  BY <1>1, <1>2, <1>3, PTL DEF Spec

-----------------------------------------------------------------------------
(* The rules are younger than the last clearing of the map and, once an    *)
(* opening has passed, than the close before it; without a failed load     *)
(* there are rules from the executor's first round on.                     *)
RuleInv ==
  /\ ruleRefresh <= now /\ (made # Never => made >= ruleRefresh)
  /\ \A d \in Nat :
       WorkingDay(d) /\ OpenAt(d) <= now /\ made # Never => made >= CloseAt(d)
  /\ Evening(now) /\ Executor > now /\ made # Never => made >= CloseAt(Date(now))
  /\ made = Never /\ ~failed => Executor = NextRound(start)

LEMMA ClosedBefore ==
  ASSUME now \in Nat
  PROVE  /\ \A d \in Nat : CloseAt(d) \in Int /\ (OpenAt(d) <= now => now >= CloseAt(d))
         /\ Evening(now) => now >= CloseAt(Date(now))
<1>1. ASSUME NEW d \in Nat
      PROVE  CloseAt(d) \in Int /\ (OpenAt(d) - 1 <= now => now >= CloseAt(d))
  BY <1>1, SessionNumbers DEF OpenAt, CloseAt
<1>2. \A d \in Nat : OpenAt(d) <= now => OpenAt(d) - 1 <= now
  BY SessionNumbers DEF OpenAt
<1>3. PICK d \in Nat : d = Date(now)
  BY DayAndMinute
<1>4. Evening(now) => OpenAt(d) - 1 <= now
  BY <1>3, EveningTime
<1> QED
  BY <1>1, <1>2, <1>3, <1>4

(* Rules that are made now, or not at all.                                 *)
LEMMA MadeNow ==
  ASSUME TypeInv, now' = now, start' = start, made' \in {Never, now},
         ruleRefresh' <= now, made' = Never /\ ~failed' => Executor' = NextRound(start)
  PROVE  RuleInv'
<1>1. now \in Nat
  BY NaturalTimes DEF TypeInv
<1>2. \A d \in Nat :
        WorkingDay(d) /\ OpenAt(d) <= now /\ made' # Never => made' >= CloseAt(d)
  BY <1>1, ClosedBefore
<1>3. Evening(now) /\ made' # Never => made' >= CloseAt(Date(now))
  BY <1>1, ClosedBefore
<1>4. made' # Never => made' >= ruleRefresh'
  OBVIOUS
<1> QED
  BY <1>2, <1>3, <1>4
  DEF RuleInv, WorkingDay, OpenAt, CloseAt, Evening, Weekend, DayOfWeek, BeforeOpen,
      Midnight, Date, NextRound, WeekendBreak, NextMonday, Closed, Next24, Clock

(* A round that finds rules: they were made since the close, if it is the  *)
(* minute before the opening.                                              *)
LEMMA MadeBefore ==
  ASSUME TypeInv, RuleInv, now' = now, made' = made, made # Never,
         ruleRefresh' = ruleRefresh, ~Clears
  PROVE  RuleInv'
<1>1. now \in Nat /\ ruleRefresh \in Int /\ made \in Nat
  BY NaturalTimes DEF TypeInv, Never
<1>2. Evening(now) => made >= CloseAt(Date(now))
  <2>1. SUFFICES ASSUME Evening(now) PROVE made >= CloseAt(Date(now))
    OBVIOUS
  <2>2. ~(ruleRefresh < CloseAt(Date(now)))
    BY <1>1, <2>1, EveningRefresh DEF Clears
  <2>3. PICK c \in Int : c = CloseAt(Date(now))
    BY <1>1, ClosedBefore, DayAndMinute
  <2>4. made >= ruleRefresh
    BY DEF RuleInv
  <2> QED
    BY <1>1, <2>2, <2>3, <2>4
<1> QED
  BY <1>2 DEF RuleInv, WorkingDay, OpenAt, CloseAt, Evening, Weekend, DayOfWeek,
              BeforeOpen, Midnight, Date

LEMMA RulesAlone ==
  ASSUME RuleInv, UNCHANGED <<now, start, made, ruleRefresh>>, Executor' = Executor,
         failed => failed'
  PROVE  RuleInv'
BY DEF RuleInv, WorkingDay, OpenAt, CloseAt, Evening, Weekend, DayOfWeek, BeforeOpen,
       Midnight, Date, NextRound, WeekendBreak, NextMonday, Closed, Next24, Clock

LEMMA RulesTick ==
  ASSUME SessionTimes, TypeInv, AwakeInv, RuleInv, Tick
  PROVE  RuleInv'
<1>1. now \in Nat /\ ruleRefresh \in Int /\ Executor \in Nat
  BY NaturalTimes DEF TypeInv, Wakes, Threads, Executor, Never
<1>2. PICK n \in Nat : n = now' /\ n > now
  <2>1. NextInstant \in Nat /\ NextInstant > now
    BY <1>1, NextInstantIs, Earlier, DayAndMinute, SMTT(30)
  <2> QED
    BY <2>1 DEF Tick
<1>3. UNCHANGED <<start, made, ruleRefresh, failed>> /\ Executor' = Executor
  BY DEF Tick, Executor
<1>4. ruleRefresh <= n
  BY <1>1, <1>2 DEF RuleInv
<1>5. ASSUME NEW d \in Nat, WorkingDay(d), OpenAt(d) <= n, made # Never
      PROVE  made >= CloseAt(d)
  <2>1. CASE OpenAt(d) <= now
    BY <1>5, <2>1 DEF RuleInv
  <2>2. CASE ~(OpenAt(d) <= now)
    <3>1. Evening(now) /\ Executor > now /\ Date(now) = d
      BY <1>2, <1>5, <2>2, OpeningComes
    <3> QED
      BY <1>5, <3>1 DEF RuleInv
  <2> QED
    BY <2>1, <2>2
<1>6. Evening(now)' => ~(Executor' > now')
  BY <1>1, <1>2, <1>3, EveningComes
<1>7. made = Never /\ ~failed => Executor = NextRound(start)
  BY DEF RuleInv
<1>8. NextRound(start)' = NextRound(start)
  BY <1>3 DEF NextRound, WeekendBreak, NextMonday, Closed, Next24, Clock, DayOfWeek,
              BeforeOpen, Midnight, Date
<1>9. \A d \in Nat :
        (WorkingDay(d) /\ OpenAt(d) <= now /\ made # Never => made >= CloseAt(d))'
  BY <1>2, <1>3, <1>5 DEF WorkingDay, OpenAt, CloseAt
<1> QED
  BY <1>2, <1>3, <1>4, <1>6, <1>7, <1>8, <1>9 DEF RuleInv

LEMMA RulesStep ==
  ASSUME SessionTimes, TypeInv, AwakeInv, RuleInv, [Next]_vars
  PROVE  RuleInv'
<1>1. now \in Nat /\ ruleRefresh <= now /\ DOMAIN wake = Threads
  BY NaturalTimes DEF TypeInv, RuleInv
<1>2. CASE InitRules
  <2>1. now' = now /\ start' = start /\ made' \in {Never, now}
    BY <1>2 DEF InitRules
  <2>2. ruleRefresh' <= now
    BY <1>1, <1>2 DEF InitRules, GetRuleMap
  <2>3. made' = Never => failed'
    <3>1. Never # now
      BY <1>1 DEF Never
    <3> QED
      BY <1>2, <3>1, Zenon DEF InitRules
  <2> QED
    BY <2>1, <2>2, <2>3, MadeNow
<1>3. CASE Round
  BY <1>3, MadeBefore DEF Round, EmptyMap
<1>4. CASE SwitchFilled
  <2>1. failed => failed'
    BY <1>4, Zenon DEF SwitchFilled
  <2> QED
    BY <1>4, <2>1, RulesAlone DEF SwitchFilled, Executor
<1>5. CASE RunStrategy
  <2>1. failed => failed'
    BY <1>5, Zenon DEF RunStrategy
  <2>2. UNCHANGED <<now, start, ruleRefresh>>
    BY <1>5 DEF RunStrategy
  <2>3. Executor' = Executor
    BY <1>1, <1>5 DEF RunStrategy, Sleep, Executor, Threads
  <2>4. CASE made # Never
    BY <1>5, <2>1, <2>2, <2>3, <2>4, RulesAlone DEF RunStrategy
  <2>5. CASE made = Never
    <3>1. made' \in {Never, now}
      BY <1>5, <2>5 DEF RunStrategy
    <3>2. ~failed' => Executor' = NextRound(start)
      BY <2>1, <2>3, <2>5 DEF RuleInv
    <3> QED
      BY <1>1, <2>2, <3>1, <3>2, MadeNow
  <2> QED
    BY <2>4, <2>5
<1>6. CASE RunSwitcher \/ RunMonitor
  <2>1. UNCHANGED <<now, start, made, ruleRefresh, failed>>
    BY <1>6 DEF RunSwitcher, RunMonitor
  <2>2. Executor' = Executor
    BY <1>1, <1>6 DEF RunSwitcher, RunMonitor, Sleep, Executor, Threads
  <2> QED
    BY <2>1, <2>2, RulesAlone
<1>7. CASE Tick
  BY <1>7, RulesTick
<1>8. CASE UNCHANGED vars
  BY <1>8, RulesAlone DEF vars, Executor
<1> QED
  BY <1>2, <1>3, <1>4, <1>5, <1>6, <1>7, <1>8 DEF Next

LEMMA RulesInit == Init => RuleInv
<1> SUFFICES ASSUME Init PROVE RuleInv
  OBVIOUS
<1>1. now \in Nat /\ now = start
  BY NaturalTimes DEF Init
<1>2. made = Never /\ ruleRefresh = Never /\ Executor = NextRound(start)
  BY DEF Init, Executor
<1>3. ruleRefresh <= now
  BY <1>1, <1>2 DEF Never
<1> QED
  BY <1>2, <1>3 DEF RuleInv

(* The minute before the executor's first round is in no session, if that  *)
(* round is not at once.                                                   *)
LEMMA BeforeFirstRound ==
  ASSUME SessionTimes, NEW t \in Nat, ~Afternoon(t), NEW u \in Nat,
         u > t, u < NextRound(t)
  PROVE  ~Trading(u)
<1>1. /\ NextRound(t) \in Nat /\ NextRound(t) > t
      /\ u < NextRound(t) - 1 => ~Trading(u)
  <2>1. NextRound(t) \in Nat /\ NextRound(t) > t
    BY LaterRound
  <2>2. u < NextRound(t) - 1 => ~Trading(u)
    BY NoSessionMissed
  <2> QED
    BY <2>1, <2>2
<1>2. SUFFICES ASSUME u = NextRound(t) - 1 PROVE ~Trading(u)
  BY <1>1
<1>3. PICK d \in Nat : d = Date(t)
  BY DayAndMinute
<1>4. Midnight(t) = 1440 * d /\ DayOfWeek(t) = d % 7 /\ d % 7 \in 0..6
  BY <1>3, DayAndMinute, DaysAhead
<1>5. CASE WeekendBreak(t)
  <2>1. u = 1440 * (d + (7 - (d % 7))) - 1
    BY <1>2, <1>3, <1>4, <1>5, NoSessionMissed DEF Monday
  <2>2. PICK k \in Nat : k = d + (6 - (d % 7)) /\ k % 7 = 6
    <3>1. d % 7 \in {5, 6}
      BY <1>4, <1>5 DEF WeekendBreak, Saturday, Sunday
    <3> QED
      BY <3>1, DaysAhead
  <2>3. u = 1440 * k + 1439
    BY <2>1, <2>2, <1>4
  <2>4. Date(u) = k /\ Clock(u) = 1439
    BY <2>3 DEF Date, Clock, MinutesOfDay
  <2>5. ~WorkingDay(k) /\ ~(1439 < At(2, 30))
    BY <2>2 DEF WorkingDay, Saturday, At
  <2> QED
    BY <2>4, <2>5 DEF Trading
<1>6. CASE ~WeekendBreak(t)
  <2>1. NextRound(t) = BeforeOpen(t)
    BY <1>1, <1>2, <1>6 DEF NextRound
  <2>2. PICK m \in Nat : m = BarOpenTime - 2 /\ m < 1440 /\ m >= 150 /\ m >= BarCloseTime
                         /\ m < BarOpenTime
    BY SessionNumbers
  <2>3. u = 1440 * d + m
    BY <1>2, <1>4, <2>1, <2>2, SessionNumbers DEF BeforeOpen
  <2>4. Date(u) = d /\ Clock(u) = m
    BY <2>2, <2>3 DEF Date, Clock, MinutesOfDay
  <2>5. ~(m >= BarOpenTime) /\ ~(m < 150) /\ ~(m < BarCloseTime)
    BY <2>2, SessionNumbers
  <2> QED
    BY <2>4, <2>5 DEF Trading, At
<1> QED
  BY <1>5, <1>6

(* In a session no rule of the map was made before the last close, and     *)
(* there are rules unless a load or a quote has failed: for any weeks, but *)
(* for the Monday morning after a start on a weekend's afternoon.          *)
THEOREM DayRulesCorrect ==
  ASSUME SessionTimes, MorningInstant
  PROVE  Spec => []RulesOfTheDay
<1> DEFINE Inv == TypeInv /\ AwakeInv /\ RuleInv
<1>0. TypeInv => start \in Nat
  BY NaturalTimes DEF TypeInv
<1>1. Init => Inv
  BY CycleTypeInit, AwakeInit, RulesInit
<1>2. Inv /\ [Next]_vars => Inv'
  BY <1>0, CycleTypeStep, AwakeStep, RulesStep
<1>3. Inv => RulesOfTheDay
  <2>1. SUFFICES ASSUME Inv, Trading(now), AllAsleep, now > start
                 PROVE  IF made = Never THEN failed \/ Oversleeps
                                        ELSE made >= LastClose(now)
    BY DEF RulesOfTheDay
  <2>2. now \in Nat /\ start \in Nat /\ Executor > now
        /\ Executor \in Nat /\ made \in Nat \cup {Never} /\ failed \in BOOLEAN
    BY <2>1, NaturalTimes DEF TypeInv, AllAsleep, Due, Executor, Threads, Wakes
  <2>3. made = Never => failed \/ Oversleeps
    <3>1. SUFFICES ASSUME Executor = NextRound(start), ~Oversleeps PROVE FALSE
      BY <2>1, <2>2 DEF RuleInv
    <3>2. now < NextRound(start)
      BY <2>2, <3>1
    <3>3. ~Afternoon(start)
      BY <2>2, <3>1, <3>2, SleepsUntilNoon DEF Oversleeps
    <3> QED
      BY <2>1, <2>2, <3>2, <3>3, BeforeFirstRound
  <2>4. made # Never => made >= LastClose(now)
    <3>1. PICK d \in Int : /\ d = LatestBar(now) /\ WorkingDay(d) /\ OpenAt(d) <= now
                           /\ LastClose(now) = CloseAt(d)
      BY <2>1, <2>2, SessionDay
    <3>2. CASE d \in Nat
      BY <2>1, <3>1, <3>2 DEF RuleInv
    <3>3. CASE d < 0
      BY <2>2, <3>1, <3>3, SessionNumbers DEF CloseAt
    <3> QED
      BY <3>2, <3>3
  <2> QED
    BY <2>3, <2>4
<1> QED
  BY <1>1, <1>2, <1>3, PTL DEF Spec
=============================================================================
