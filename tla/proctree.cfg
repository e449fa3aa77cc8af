SPECIFICATION FairSpec
CONSTANTS
  Pids = {r, a, b}
  Root = r
  NoPid = NoPid
  MaxCount = 2
INVARIANT TypeOK
INVARIANT TreeIsWhole
INVARIANT SuspendedAreFound
INVARIANT FlagIsTrue
PROPERTY CallsEnd
CHECK_DEADLOCK FALSE
