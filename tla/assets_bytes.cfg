SPECIFICATION Spec
CONSTANTS
  ann = ann  ben = ben  wa = wa  wb = wb
  photo = photo
  drawing = drawing  retouched = retouched  renamed = renamed  garbled = garbled
  None = None
  Caller = {ann}
  Workspace = {wa}
  Asset = {photo}
  Body <- Bodies
  Declaration <- Declared
  TypeOf <- Types
  SizeOf <- Sizes
  Member <- Alone
  MaxPuts = 2
INVARIANTS
  ConfirmedBytesStand
