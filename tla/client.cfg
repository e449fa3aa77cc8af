SPECIFICATION FairSpec
CONSTANTS
  Servers = {s1}
  Clients = {c1, c2}
  Listed = {}
  Imported = {c1}
  WhitelistOn = TRUE
  SuspendAllow = TRUE
  Faults = {"crash", "startfail", "major"}
  Lengths <- ReplyLengths
INVARIANT TypeOK
INVARIANT RepliesReadable
PROPERTY UnlistedNeverStart
PROPERTY HandlersEnd
PROPERTY ProxiesEnd
CHECK_DEADLOCK FALSE
