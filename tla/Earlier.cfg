CONSTANTS
  HEIGHT = 3
  WIDTH = 5
  BYTE = 8
  splash <- MCSplash
  splash2 <- MCSplash2
  outstr16 <- MCOutstr16
  ScanCodes = {30, 48, 158}
  MaxQueue = 1
  Glyphs = {" ", "B"}
SPECIFICATION EitherSpec
INVARIANTS LinesShown VectorWhole
PROPERTIES BarebonesImplementsTape KeyTakenAlways
