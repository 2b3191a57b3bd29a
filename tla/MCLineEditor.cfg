SPECIFICATION Spec
CONSTANTS
  MaxLine = 6
  MaxHistory = 2
  Chars = {"a", " ", "?", "IAC"}
  NUL = NUL
  Words <- MCWords
  HistoryWord <- MCHistoryWord
CONSTRAINT MCScope
INVARIANTS
  TypeOK
  LineIsString
  StaysInside
PROPERTIES
  HelpRestores
