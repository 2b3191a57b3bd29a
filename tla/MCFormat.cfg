SPECIFICATION FormatSpec
CONSTANTS
  Topics = {tA, tB, tC}
  Wire = 6
  ULong = 12
  Sizes <- MCSizes
INVARIANTS
  LayoutOK
  AcceptsExactly
