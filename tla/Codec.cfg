SPECIFICATION Spec
CONSTANTS
  p1 = p1
  p2 = p2
  ByteMax = 3
  VidSize = 1
  StateSize = 82
  PosSize = 8
  StrSize = 4
  Text <- MCText
  Quad <- MCQuad
  Position <- MCPosition
  Body <- MCBody
  MaxPositions = 5
CHECK_DEADLOCK FALSE
INVARIANTS TypeOK RoundTrip InhRoundTrip DataLenExact PrintFits 
