SPECIFICATION UploadSpec
CONSTANTS
  tab1 = tab1  tab2 = tab2  home = home  photo = photo  sketch = sketch
  drawing = drawing  renamed = renamed  nothing = nothing  huge = huge
  None = None
  Caller = {tab1, tab2}
  Workspace = {home}
  Asset = {photo, sketch}
  Body <- Files
  Declaration <- Declared
  TypeOf <- Types
  SizeOf <- Sizes
  Member <- Tabs
  MaxPuts = 2
  ClaimedType = {"png", "jpeg"}
  MaxSize = 2
SYMMETRY TabsAndPhotos
INVARIANTS
  OutcomeIsTheFile
