SPECIFICATION ProvSpec
CONSTANTS
  Devices = {"d1", "d2"}
  Pdts = {"p"}
  Product <- MCProduct
  Tokens = {1, 2}
  MaxUp = 1
  MaxCopies = 2
  Lossy = TRUE
  NoFmt = NoFmt
INVARIANTS
  TokensCome
PROPERTIES
  EventuallyParsed
