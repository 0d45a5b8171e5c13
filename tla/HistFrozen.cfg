CONSTANTS
  BarOpenTime = 1260
  BarCloseTime = 900
  NightCloseHour = 3
  StrategyRunTime = 910
  SwitchRunTime = 920
  MonitorRunTimes <- MCMonitor
  HistIntervals <- MCIntervals
  Starts <- MCStarts
  Instants <- MCInstants
  End <- MCEnd
  MaxSwitches = 0
  Env = {}
SPECIFICATION Spec
PROPERTY LatestBarFirst
CHECK_DEADLOCK FALSE
