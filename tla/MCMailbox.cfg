SPECIFICATION Spec
CONSTANTS
  Builtin = {b1, b2}
  Typed = {t1}
  Null = Null
  Buffer = Buffer
  MaxHanded = 3
INVARIANTS
  OnceInOrder
  SignalledIntact
  HeardIsProcessed
