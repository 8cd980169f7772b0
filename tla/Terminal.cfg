CONSTANTS
  HEIGHT = 3
  WIDTH = 2
  BYTE = 4
  Glyphs = {" ", "a", "A", "k"}
  KernelTexts <- MCKernelTexts
  Welcome <- MCWelcome
  PanicTexts <- MCPanicTexts
  Codes <- MCCodes
  Lower <- MCLower
  Upper <- MCUpper
SPECIFICATION Spec
INVARIANTS
  TypeOK
  CursorFollows
  LineShown
PROPERTY ImplementsTape
\* panic stops the machine for good.
CHECK_DEADLOCK FALSE
