SPECIFICATION FairSpec
CONSTANTS
  Jobs = {j1, j2, j3}
  Keys = {k1, k2}
  OldKeys = {k1}
  NoKey = NoKey
INVARIANTS
  TypeOK
  SuccessIsSaved
  LoginSticks
PROPERTY
  LoginReturns
CHECK_DEADLOCK FALSE
