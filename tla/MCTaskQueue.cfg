SPECIFICATION FairSpec
CONSTANTS
  Tasks = {1, 2}
  Workers = {w1, w2}
  NoWorker = NoWorker
  NoTask = NoTask
  MaxFaults = 2
INVARIANTS
  TypeOK
  AtMostOnce
  ExecutorIsClaimant
  OutcomeIsTrue
  NoOrphanWithoutFault
PROPERTIES
  ImplementsLifecycle
  PendingIsTaken
  RunningIsSettled
CHECK_DEADLOCK FALSE
