SPECIFICATION FairSpec
CONSTANTS
  Clients = {}
  Operators = {o1}
  Timers = {t1}
  Killers = {k1}
  NoTimer = NoTimer
  MaxStarts = 2
  MaxPipe = 2
  MaxConn = 1
  Faults = {"hang"}
  SuspendAllow = TRUE
  SuspendRefresh = FALSE
  AllowKill = 1
CONSTRAINT Ordered
INVARIANT NeverForgotten
PROPERTY StopIsFinal
PROPERTY FreezeCommandStops
CHECK_DEADLOCK FALSE
