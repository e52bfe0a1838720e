SPECIFICATION Spec
CONSTANTS
  hero = hero  form = form  front = front  back = back
  None = None
  Host = {hero, form}
  Row = {hero}
  Form = {form}
  Asset = {front, back}
  MaxImages = 2
  Bounds <- MCBounds
INVARIANTS
  OverwriteNeedsRefresh
  ListIsDeliberate
  HistoryGapsNeedRefresh
  InheritanceIsExplained
PROPERTIES
  SavesEnd
