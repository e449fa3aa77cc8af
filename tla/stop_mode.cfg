SPECIFICATION FairSpec
CONSTANTS
  Clients = {c1}
  Operators = {}
  Timers = {t1}
  Killers = {k1}
  NoTimer = NoTimer
  MaxStarts = 2
  MaxPipe = 2
  MaxConn = 1
  Faults = {"crash", "startfail"}
  SuspendAllow = FALSE
  SuspendRefresh = FALSE
  AllowKill = 1
CONSTRAINT Ordered
INVARIANT TypeOK
INVARIANT NeverForgotten
PROPERTY LifecycleSpec
PROPERTY EmptyServerHibernates
CHECK_DEADLOCK FALSE
