SPECIFICATION Spec
CONSTANTS
  ann = ann  ben = ben  wa = wa  wb = wb
  photo = photo
  drawing = drawing  retouched = retouched  renamed = renamed  garbled = garbled
  None = None
  Caller = {ann, ben}
  Workspace = {wa, wb}
  Asset = {photo}
  Body <- Bodies
  Declaration <- Declared
  TypeOf <- Types
  SizeOf <- Sizes
  Member <- OneShared
  MaxPuts = 2
INVARIANTS
  AnswersAreTrue
PROPERTIES
  ImplementsAssetLifecycle
