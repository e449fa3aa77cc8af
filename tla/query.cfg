SPECIFICATION FairSpec
CONSTANTS
  Vals = {v1, v2}
  Hour = 2
  MaxList = 3
INVARIANT TypeOK
INVARIANT KeepsChallenges
PROPERTY ChecksChallenges
PROPERTY AlwaysServes
CHECK_DEADLOCK FALSE
