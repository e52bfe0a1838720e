SPECIFICATION SignInSpec
CONSTANTS
  ada = ada  bo = bo  r1 = r1  r2 = r2  h1 = h1  h2 = h2  h3 = h3
  desk = desk  phone = phone
  None = None
  Request = {r1, r2}
  Tab = {desk, phone}
  Seating <- OneOrTwo
  User = {ada, bo}
  WorkspaceId = {h1, h2, h3}
  MaxFailures = 1
INVARIANTS
  WorkspacesAreComplete
  AnswersNameOneHome
PROPERTIES
  ImplementsHomeOnce
  CreatorsArrive
