SPECIFICATION FairSpec
CONSTANTS
  Headers = {0, 1, 3}
  DefDur = 2
  ProlongDur = 1
  PushPeriod = 2
  Timeout = 2
  MaxDur = 3
INVARIANT TypeOK
INVARIANT ReportsFit
PROPERTY NoSecondLost
PROPERTY KeepsReporting
PROPERTY PlayersAreNotified
