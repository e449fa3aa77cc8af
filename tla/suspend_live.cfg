SPECIFICATION FairSpec
CONSTANTS
  Clients = {c1}
  Operators = {}
  Timers = {t1}
  Killers = {k1}
  NoTimer = NoTimer
  MaxStarts = 1
  MaxPipe = 2
  MaxConn = 1
  Faults = {"selfstop"}
  SuspendAllow = TRUE
  SuspendRefresh = TRUE
  AllowKill = 1
CONSTRAINT Ordered
INVARIANT NeverForgotten
PROPERTY EmptyServerHibernates
CHECK_DEADLOCK FALSE
