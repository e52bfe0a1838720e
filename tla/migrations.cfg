SPECIFICATION FairSpec
CONSTANTS
  m1 = m1  m2 = m2  m3 = m3  m4 = m4
  old = old  new = new  branch = branch  edited = edited
  None = None
  Migrator = {m1, m2, m3, m4}
  Sources <- AuthThenCore
  ReleaseOf <- FourReplicas
  FilesOf <- Releases
  MaxFailures = 2
INVARIANTS
  LedgerIsTheDatabase
  ReportsAreTrue
PROPERTIES
  ImplementsReleaseTurns
  RunsEnd
CHECK_DEADLOCK FALSE
