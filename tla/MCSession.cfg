SPECIFICATION FairSpec
CONSTANTS
  Intervals = {1, 2}
  Numbers = {2, 3}
  Period = 2
  Delay = 1
  MaxChanges = 1
  MaxSilent = 6
INVARIANTS
  TypeOK
  SilenceDetected
PROPERTIES
  NoFalseAlarm
  ComesOnline
  GoesOffline
  FunctionFollows
