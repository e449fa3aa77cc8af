SPECIFICATION Spec
CONSTANTS
  Clients = {c1}
  Operators = {o1}
  Timers = {t1}
  Killers = {k1}
  NoTimer = NoTimer
  MaxStarts = 2
  MaxPipe = 2
  MaxConn = 1
  Faults = {}
  SuspendAllow = FALSE
  SuspendRefresh = FALSE
  AllowKill = 1
INVARIANT SingleServer
CHECK_DEADLOCK FALSE
