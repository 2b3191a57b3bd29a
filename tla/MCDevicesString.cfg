SPECIFICATION Spec
CONSTANTS
  Oids = {o1}
  Pdts = {p1}
  Topics = {tA}
  Vals = {ff, v1, v2}
  FF = ff
  Kinds = {"NUM", "STR"}
  Modes = {"ATTR_PERIODIC"}
  AgeInterval = 3
  SweepGap = 1
  UpInterval = 1
  MaxLag = 1
  MaxTime = 7
  NoDev = NoDev
  NoAttr = NoAttr
  Freed = Freed
  Empty = Empty
  NotSent = NotSent
INVARIANTS
  NeverCrashes
