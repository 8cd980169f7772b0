CONSTANTS
  HEIGHT = 2
  WIDTH = 2
  BYTE = 2
  Glyphs = {" ", "a", "A"}
  KernelTexts <- MCKernelTexts
  Welcome <- MCWelcome
  PanicTexts <- MCPanicTexts
  Codes <- MCCodes
  Lower <- MCLower
  Upper <- MCUpper
  Keys <- MCKeys
  MaxWire = 2
SPECIFICATION PathSpec
INVARIANT ShownAsTyped
\* panic stops the machine for good.
CHECK_DEADLOCK FALSE
