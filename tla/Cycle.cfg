CONSTANTS
  BarOpenTime = 1260
  BarCloseTime = 900
  NightCloseHour = 3
  StrategyRunTime = 910
  SwitchRunTime = 920
  MonitorRunTimes <- MCMonitor
  HistIntervals <- MCIntervals
  Starts <- MCStarts
  Instants <- MCInstants
  End <- MCEnd
  MaxSwitches = 1
  Env = {"badload"}
SPECIFICATION Spec
INVARIANT TypeOK
INVARIANT AwakeWhenOpen
INVARIANT RulesOfTheDay
INVARIANT ListsOfTheDay
INVARIANT RunnerEachDay
CHECK_DEADLOCK FALSE
