SPECIFICATION Spec
CONSTANTS
  s1 = s1  s2 = s2
  None = None
  Shots <- TwoShots
  Environments <- SomeEnvironments
  Observed <- SomeFailures
  Renders <- SomeRenders
  MaxStarts = 2
  MaxInterrupts = 2
INVARIANTS
  CapIsNotCrossed
CHECK_DEADLOCK FALSE
