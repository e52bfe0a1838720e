SPECIFICATION ReadySpec
CONSTANTS
  report = report
  database = database  redis = redis  storage = storage
  NotYet = NotYet
  Report = {report}
  Dependency = {database, redis, storage}
  KindOf <- MCKindOf
INVARIANTS
  UpHasSpoken
  DownIsItsOwn
PROPERTIES
  ReportsAnswer
