SPECIFICATION RuleSpec
CONSTANTS
  Topics = {1, 2, 3}
  Base = 2
  MaxLen = 3
  Slices <- MCSlices
  Rules <- MCRules
  Formats <- MCFormats
  Orders <- MCOrders
  Registrations <- MCRegistrations
  MaxTime = 2
  NoAttr = NoAttr
  Empty = Empty
  Evaluated <- Result
  Satisfied <- MCSatisfied
INVARIANTS
  TextUnderstood
  VerdictOfValues
  NewsJudged
