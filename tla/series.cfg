SPECIFICATION Spec
CONSTANTS
  left = left  right = right  wa = wa  wb = wb  drama = drama
  None = None
  Tab = {left, right}
  Workspace = {wa, wb}
  Series = {drama}
  Member <- Shared
  HomeOf <- Libraries
  MaxRevision = 3
SYMMETRY Symmetry
INVARIANTS
  ConflictsAreReal
  SavedNameIsComing
PROPERTIES
  OverwriteNeedsRefresh
