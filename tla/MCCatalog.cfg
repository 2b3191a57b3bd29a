SPECIFICATION Spec
CONSTANTS
  Topics = {tA, tB}
  Wire = 3
  ULong = 6
  p1 = p1
  Pdts = {p1, p2, zero}
  Zero = zero
  Keys = {k1, k2}
  Sizes <- MCSizes
  NoFmt = NoFmt
  MaxRef = 3
SYMMETRY MCSymmetry
CONSTRAINT MCScope
INVARIANTS
  TypeOK
  AttrRefsAccounted
  PdtRefsExact
PROPERTIES
  TypeStable
