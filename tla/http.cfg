SPECIFICATION Spec
CONSTANTS
  Inputs <- MCInputs
  Pieces = {1, 3, 7, 19}
  Clients <- MCClients
  HttpMaxHeaderSize = 200
  NreadMod = 256
  SizeMod = 10000
INVARIANT TypeOK
INVARIANT PiecesAgree
INVARIANT HeardWhatWasSaid
INVARIANT FramedByItsHeaders
CHECK_DEADLOCK FALSE
