SPECIFICATION FairSpec
CONSTANTS
  s1 = s1  s2 = s2
  None = None
  Shots <- TwoShots
  Environments <- SomeEnvironments
  Observed <- SomeFailures
  Renders <- SomeRenders
  MaxStarts = 2
  MaxInterrupts = 2
INVARIANTS
  OverrunIsOneAttempt
  TasksAreAccountedFor
PROPERTIES
  ImplementsShotAttempts
  PurchasesAreDue
  RunsEnd
CHECK_DEADLOCK FALSE
