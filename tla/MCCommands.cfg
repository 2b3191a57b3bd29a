SPECIFICATION Spec
CONSTANTS
  Table <- MCTable
  Modes = {"EXEC", "SERVER", "EDGE", "WLOC"}
  Lines <- MCLines
  Outputs <- MCOutputs
  MaxWords = 8
INVARIANTS
  TypeOK
  RunsWhatIsMeant
  OutputFiltered
  CompletionIsMeant
PROPERTIES
  FiltersRemoved
