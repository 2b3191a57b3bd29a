SPECIFICATION Spec
CONSTANTS
  Oids = {o1, o2, o3}
  Pdts = {p1}
  Topics = {tA}
  Vals = {ff, v1}
  FF = ff
  Kinds = {"none", "NUM"}
  Modes = {"ATTR", "ATTR_PERIODIC", "PKT"}
  AgeInterval = 2
  SweepGap = 1
  UpInterval = 1
  MaxLag = 1
  MaxTime = 6
  NoDev = NoDev
  NoAttr = NoAttr
  Freed = Freed
  Empty = Empty
  NotSent = NotSent
SYMMETRY MCSymmetry
CONSTRAINT MCScope
INVARIANTS
  TypeOK
  AgeListExact
  AgeListSorted
  SilenceBounded
  ReportsCurrent
  ReportBounded
PROPERTIES
  SweepExact
