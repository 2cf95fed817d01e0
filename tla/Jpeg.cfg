SPECIFICATION JpegSpec
CONSTANTS
  M = 2
  MCUS = 2
  RSTS = 8
  LOST = 2
  Images <- AllImages
  Lines = {1, 3}
INVARIANTS RowsRight Confined
PROPERTY Ends
CHECK_DEADLOCK FALSE
