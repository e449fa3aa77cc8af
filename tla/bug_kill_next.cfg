SPECIFICATION Spec
CONSTANTS
  Clients = {}
  Operators = {o1}
  Timers = {t1, t2}
  Killers = {k1}
  NoTimer = NoTimer
  MaxStarts = 2
  MaxPipe = 2
  MaxConn = 1
  Faults = {}
  SuspendAllow = FALSE
  SuspendRefresh = FALSE
  AllowKill = 1
SYMMETRY Symmetry
PROPERTY KillSparesTheNext
CHECK_DEADLOCK FALSE
