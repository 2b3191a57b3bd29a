SPECIFICATION G1Spec
CONSTANTS
  Controls <- MCControls
  Sizes <- MCSizes
  MsgLens = {2, 255}
  ULong = 65536
INVARIANTS
  PayloadInside
  UnknownIsForwarded
