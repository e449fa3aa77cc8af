SPECIFICATION FairSpec
CONSTANTS
  Callers = {c1, c2}
  MaxPlayers = 0
  MaxPipe = 2
  Quiet = 1
  Faults = {"longline"}
INVARIANT TypeOK
PROPERTY PipeDrains
PROPERTY CallersReturn
