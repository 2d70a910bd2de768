CONSTANTS
  MaxLineLengths = {1, 2}
  HeaderSizes = {1, 2}
  LineLengths = {1, 2, 3}
  MaxLines = 2
  Buffers = {1, 2, 3}
  Writers = {w1, w2}
SPECIFICATION Spec
INVARIANTS
  TypeOK
  TextWhole
  Framed
  FramesCounted
  LineLimit
  SentWhole
PROPERTIES
  BodyEnds
