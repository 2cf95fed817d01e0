SPECIFICATION Spec
CONSTANTS
  ALIGN_SIZE = 2
  HDR = 1
  FIRST_SLOP <- MCFirstSlop
  EXTRA_SLOP <- MCExtraSlop
  MIN_SLOP = 1
  MAX_ALLOC_CHUNK = 9
  Sizes = {1, 3}
  CHUNKS = 4
  BITS = 2
  QUANTSIZE = 2
  APP0_DATA_LEN = 3
  APP14_DATA_LEN = 2
  APPN_DATA_LEN = 3
  NUM_TBLS = 2
  MAX_COMPS_IN_SCAN = 4
  Segments <- MCSegments
  Limits <- MCLimits
  MAXLEN = 5
  MAX_CLEN = 10
  HUFF_LOOKAHEAD = 3
  BYTE = 4
  DCTSIZE2 = 5
  MAXRUN = 2
  MIN_GET_BITS = 13
  FASTSIZE = 18
  RSTS = 2
  Pictures <- MCPictures
  Frequencies <- MCFrequencies
CHECK_DEADLOCK FALSE
INVARIANTS ObjectsApart ParsedRight RoundTrip
