SPECIFICATION FairSpec
CONSTANTS
  Servers = {s1}
  SuspendAllow = TRUE
  Commands = {"start", "freeze", "exit", "interrupt", "eof"}
  Responses = {"ok", "forbidden", "other", "error"}
  Faults = {"signal", "listen", "crash", "refuse"}
INVARIANT TypeOK
INVARIANT CleanExit
PROPERTY ExitsWhenTold
PROPERTY MainStarts
CHECK_DEADLOCK FALSE
