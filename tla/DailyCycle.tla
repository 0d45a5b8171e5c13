------------------------------ MODULE DailyCycle -----------------------------
(***************************************************************************)
(* The week of the strategy: when RuleExecutor makes its rounds, when the  *)
(* rules, the contract lists and the bar histories are fetched again, and  *)
(* when StrategyRunner and MainSwitcher run.  A thread sleeps until the    *)
(* time that TimeManager gives it; what it then does takes no time.        *)
(***************************************************************************)
EXTENDS TimeManager, FiniteSets

CONSTANTS
  StrategyRunTime,  \* StrategyRunner.runTime (15:10)
  SwitchRunTime,    \* MainSwitcher.runTime (15:20)
  MonitorRunTimes,  \* FutureMonitor.runTimes (8:57, 20:57)
  HistIntervals,    \* ContractHolderImpl.barHistRefreshInterval
  Starts,           \* the times at which the strategy may be started
  Instants,         \* bound: the times of the day at which something happens
  End,              \* bound: the last minute
  MaxSwitches,      \* bound: main switches
  Env               \* "badload": the adapter may return no history, no quote

ASSUME CycleAssumption ==
  /\ {StrategyRunTime, SwitchRunTime} \cup MonitorRunTimes \subseteq Instants
  /\ MonitorRunTimes # {}
  /\ BarOpenTime - 1 \in Instants /\ Instants \subseteq 0..1439
  /\ HistIntervals \subseteq [from : 0..1439, to : 0..1439]
  /\ {End, MaxSwitches} \subseteq Nat /\ Starts \subseteq 0..End

VARIABLES
  now,          \* the time
  wake,         \* until when each thread sleeps
  made,         \* RuleHolder: when the oldest rules of the map were made
  ruleRefresh,  \* RuleHolder.ruleRefreshTime
  lists,        \* ContractHolder: the main switches that its lists show
  listRefresh,  \* ContractHolder.contractRefreshTime
  hist,         \* ContractHolder: the last day of barHistMap, barHistRefreshTime
  switched,     \* the database: when the main switches were made
  start,        \* history: when the strategy was started
  failed,       \* history: whether a load or a quote has failed
  lastRun       \* history: when StrategyRunner ran last

vars == <<now, wake, made, ruleRefresh, lists, listRefresh, hist, switched,
          start, failed, lastRun>>

Threads == {"executor", "runner", "switcher", "monitor"}
Empty == -2   \* a map with nothing but an empty list (and a Saturday)
Week == 7 * MinutesOfDay
Times == 0..End
Gone == End + Week  \* a thread that has ended

TypeOK ==
  /\ now \in Times /\ start \in Starts
  /\ DOMAIN wake = Threads
  /\ \A th \in Threads : wake[th] > now - MinutesOfDay /\ wake[th] \in Nat
  /\ {made, ruleRefresh, lastRun} \subseteq Times \cup {Never}
  /\ switched \subseteq Times /\ lists \subseteq switched
  /\ hist.day \in -7..Date(End) /\ hist.at <= now
  /\ hist.day \in {Never, Empty} => hist.at = Never
  /\ failed \in BOOLEAN

-----------------------------------------------------------------------------
(* External: the working day whose bar is the latest complete one, and the *)
(* sessions: 9:00 to 15:00 and from 21:00 to 2:30.                         *)
WorkingDay(d) == d % 7 < Saturday
LatestBar(t) ==
  Max({d \in -7..Date(t) : WorkingDay(d) /\ d * MinutesOfDay + BarCloseTime <= t})
LastClose(t) == LatestBar(t) * MinutesOfDay + BarCloseTime

Trading(t) ==
  \/ WorkingDay(Date(t)) /\ Clock(t) >= BarOpenTime
  \/ WorkingDay(Date(t) - 1) /\ Clock(t) < At(2, 30)
  \/ WorkingDay(Date(t)) /\ Clock(t) >= At(9, 0) /\ Clock(t) < BarCloseTime

-----------------------------------------------------------------------------
(* ContractHolderImpl.                                                     *)

(* refreshContractList.                                                    *)
NoLists == listRefresh = Never
StaleLists == NeedRefreshBeforeOpen(listRefresh, now) \/ NoLists
ListRefreshTime == IF StaleLists THEN now ELSE listRefresh
RefreshContractList ==
  /\ lists' = IF StaleLists THEN switched ELSE lists
  /\ listRefresh' = ListRefreshTime

(* getBarHistMap: load is what the adapter returns now, a day or Empty.  A *)
(* load that is empty for the first contract ends by an exception; when    *)
(* the map was never loaded, the time that was not set is one from then    *)
(* on.                                                                     *)
Poisoned(h) == h.day = Empty
NeedRefreshBarHist(h) == ~IsTimeInIntervals(h.at, HistIntervals)
Refreshes(h) == h.day = Never \/ (~Poisoned(h) /\ NeedRefreshBarHist(h))
Fails(h, load) == Poisoned(h) \/ (Refreshes(h) /\ load = Empty)

StampFirst(h, load) ==  \* mutant: the time is set before the load
  IF Refreshes(h) THEN [day |-> load, at |-> now] ELSE h
GetBarHist(h, load) ==
  CASE Refreshes(h) /\ load # Empty -> [day |-> load, at |-> now]
    [] h.day = Never /\ load = Empty -> [day |-> Empty, at |-> Never]
    [] OTHER -> h

(* Before 15:00 HexunAdapterImpl takes the first bar for one that is not   *)
(* complete; that it is, on a weekend, is left out.                        *)
Loads == {LatestBar(now)} \cup (IF "badload" \in Env THEN {Empty} ELSE {})

(* mainSwitch puts both refresh times a week back.                         *)
KeepTime(t) == t  \* mutant: the switch does not ask for a refresh
WeekBefore(t) == IF t = Never THEN Never ELSE t - Week
SwitchedHist == [hist EXCEPT !.at = WeekBefore(@)]
CanSwitch == Cardinality(switched) < MaxSwitches
MainSwitch ==
  /\ CanSwitch
  /\ switched' = switched \cup {now}
  /\ listRefresh' = WeekBefore(ListRefreshTime)
  /\ lists' = IF StaleLists THEN switched ELSE lists

-----------------------------------------------------------------------------
Due(th) == wake[th] <= now
Sleep(th, t) == wake' = [wake EXCEPT ![th] = t]

(* RuleExecutor.run: getRuleMap, which may clear the map.                  *)
Clears == NeedRefreshBeforeOpen(ruleRefresh, now)
GetRuleMap == ruleRefresh' = IF Clears THEN now ELSE ruleRefresh
EmptyMap == made = Never \/ Clears

(* A round that finds no rules: initRules.  It ends by an exception when a *)
(* load fails, or when a position under a main switch has no quote; in the *)
(* map are the positions that came before, if any.                         *)
NoQuote == "badload" \in Env
InitRules ==
  /\ Due("executor") /\ EmptyMap
  /\ GetRuleMap /\ RefreshContractList
  /\ \E load \in Loads :
       \/ /\ hist' = GetBarHist(hist, load)
          /\ failed' = (failed \/ Fails(hist, load))
          /\ made' \in IF Fails(hist, load) THEN {Never, now} ELSE {now}
       \/ /\ NoQuote
          /\ hist' \in {hist, GetBarHist(hist, load)}
          /\ failed' = TRUE
          /\ made' \in {Never, now}
  /\ Sleep("executor", NextRound(now))
  /\ UNCHANGED <<now, switched, start, lastRun>>

(* A round over the rules, which may generate the rules of a contract      *)
(* again (an error is caught there).                                       *)
Round ==
  /\ Due("executor") /\ ~EmptyMap
  /\ RefreshContractList
  /\ \/ UNCHANGED <<hist, failed>>
     \/ \E load \in Loads : /\ hist' = GetBarHist(hist, load)
                            /\ failed' = (failed \/ Fails(hist, load))
  /\ Sleep("executor", NextRound(now))
  /\ UNCHANGED <<now, made, ruleRefresh, switched, start, lastRun>>

(* The listener: the trade that ends a forced switch, after which the      *)
(* rules are generated again.                                              *)
SwitchFilled ==
  /\ Trading(now) /\ made # Never /\ ~NoLists
  /\ MainSwitch
  /\ \E load \in Loads : /\ hist' = GetBarHist(SwitchedHist, load)
                         /\ failed' = (failed \/ Fails(SwitchedHist, load))
  /\ UNCHANGED <<now, wake, made, ruleRefresh, start, lastRun>>

(* StrategyRunner.run.  refreshStopLossEquity generates the rules that a   *)
(* position misses, also into an empty map, and catches the errors;        *)
(* updateAtr reads the histories unless every ATR is of this week, and its *)
(* exception ends the thread.                                              *)
RunStrategy ==
  /\ Due("runner")
  /\ RefreshContractList
  /\ made' \in IF made = Never THEN {Never, now} ELSE {made}
  /\ lastRun' = now
  /\ \/ UNCHANGED <<hist, failed>> /\ Sleep("runner", NextRun(StrategyRunTime, now))
     \/ \E load \in Loads :
          /\ hist' = GetBarHist(hist, load)
          /\ failed' = (failed \/ Fails(hist, load))
          /\ \/ Sleep("runner", NextRun(StrategyRunTime, now))
             \/ Fails(hist, load) /\ Sleep("runner", Gone)
  /\ UNCHANGED <<now, ruleRefresh, switched, start>>

(* MainSwitcher.run: doMainScan and doMainSwitch.                          *)
RunSwitcher ==
  /\ Due("switcher")
  /\ \/ MainSwitch /\ hist' = SwitchedHist
     \/ RefreshContractList /\ UNCHANGED <<switched, hist>>
  /\ Sleep("switcher", NextRun(SwitchRunTime, now))
  /\ UNCHANGED <<now, made, ruleRefresh, start, failed, lastRun>>

(* FutureMonitor.run.                                                      *)
RunMonitor ==
  /\ Due("monitor")
  /\ RefreshContractList
  /\ Sleep("monitor", NextRunOf(MonitorRunTimes, now))
  /\ UNCHANGED <<now, made, ruleRefresh, hist, switched, start, failed, lastRun>>

Init ==
  /\ start \in Starts /\ now = start
  /\ wake = [executor |-> NextRound(start), monitor |-> start,
             runner |-> NextRun(StrategyRunTime, start),
             switcher |-> NextRun(SwitchRunTime, start)]
  /\ made = Never /\ ruleRefresh = Never
  /\ lists = {} /\ listRefresh = Never /\ switched = {}
  /\ hist = [day |-> Never, at |-> Never]
  /\ failed = FALSE /\ lastRun = Never

(* The time passes when no thread is to run: an instant comes.             *)
AllAsleep == \A th \in Threads : ~Due(th)
NextInstant ==
  LET later == {i \in Instants : i > Clock(now)}
  IN IF later # {} THEN Midnight(now) + Min(later) ELSE Next24(now, 1) + Min(Instants)
Tick ==
  /\ AllAsleep
  /\ NextInstant <= End /\ now' = NextInstant
  /\ UNCHANGED <<wake, made, ruleRefresh, lists, listRefresh, hist, switched,
                 start, failed, lastRun>>

Next ==
  \/ InitRules \/ Round \/ SwitchFilled
  \/ RunStrategy \/ RunSwitcher \/ RunMonitor
  \/ Tick

Spec == Init /\ [][Next]_vars

-----------------------------------------------------------------------------
(* A strategy that was started on a weekend's afternoon sleeps until       *)
(* Monday noon (see NextMonday): it oversleeps the morning's session.      *)
Afternoon(t) == Weekend(t) /\ Clock(t) >= At(12, 0)
MondayNoon(t) == Next24(t, 7 - DayOfWeek(t)) + At(12, 0)
Oversleeps == Afternoon(start) /\ now < MondayNoon(start)

(* TimeManagerImpl.java 60-62: in the sessions a round comes after half a  *)
(* second.  The code breaks this on the Monday morning after a start on a  *)
(* weekend's afternoon, which is excepted; at noon it is awake again.      *)
AwakeWhenOpen == Trading(now) /\ ~Oversleeps => wake["executor"] <= now + 1

(* RuleHolderImpl: in a session no rule is older than the last close, the  *)
(* day that the 20-day extremes, the stops and the hands were taken from;  *)
(* and there are rules unless a load or a quote has failed, or the         *)
(* executor oversleeps its first round.                                    *)
RulesOfTheDay ==
  Trading(now) /\ AllAsleep /\ now > start =>
    IF made = Never THEN failed \/ Oversleeps ELSE made >= LastClose(now)

(* ContractHolderImpl: in a session the lists show every main switch but   *)
(* those made since the night session opened, also one that was made just  *)
(* after the lists had been read.                                          *)
ListsOfTheDay ==
  Trading(now) /\ AllAsleep =>
    \A s \in switched \ lists : s >= LastClose(now) + BarOpenTime - BarCloseTime

(* StrategyRunner runs on every working day and on no other, until a       *)
(* failed load ends it.                                                    *)
RunDays ==
  {d \in 0..Date(now) : /\ WorkingDay(d)
                        /\ d * MinutesOfDay + StrategyRunTime > start
                        /\ d * MinutesOfDay + StrategyRunTime <= now}
RunnerEachDay ==
  CASE wake["runner"] = Gone -> failed
    [] wake["runner"] # Gone /\ AllAsleep ->
         lastRun = (IF RunDays = {} THEN Never
                    ELSE Max(RunDays) * MinutesOfDay + StrategyRunTime)
    [] OTHER -> TRUE

(* ContractHolderImpl.java 141: the first bar of a history is the latest   *)
(* one, so the rules of a day are made from the bar of the last close.     *)
LatestBarFirst ==
  [][InitRules /\ ~failed' => hist'.day = LatestBar(now)]_vars
=============================================================================
