SPECIFICATION Spec
CONSTANTS
  Inputs <- MCInputs
  Pieces = {1, 3, 7, 19}
  Clients <- MCClients
  HttpMaxHeaderSize = 200
  NreadMod = 256
  SizeMod = 10000
INVARIANT CompleteWithoutBody
CHECK_DEADLOCK FALSE
