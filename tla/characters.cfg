SPECIFICATION FairSpec
CONSTANTS
  alice = alice  bob = bob
  w1 = w1  w2 = w2  s1 = s1  s2 = s2
  hero = hero  front = front
  drawn = drawn
  None = None
  Caller = {alice, bob}
  Workspace = {w1, w2}
  Series = {s1, s2}
  Character = {hero}
  Asset = {front}
  Appearance = {drawn}
  ImageList <- ImageOrNone
  Member <- OneShared
  WorkspaceOf <- TwoSeries
  AssetWorkspace <- OwnAssets
  MaxVersion = 3
INVARIANTS
  RevisionCountsVersions
  NoLostUpdate
  PinsAreUsable
  ReadsAreVersions
  HistoryIsWhole
  CastStaysWithMembers
  BackstopNeverFires
PROPERTIES
  StaleOnlyIfSuperseded
  ImplementsVersionHistory
  RequestsEnd
