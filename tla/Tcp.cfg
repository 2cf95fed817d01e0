SPECIFICATION Spec
CONSTANTS
  SEQ = 64
  WND16 = 16
  MSS = 2
  TCP_WND = 6
  TCP_SND_BUF = 8
  INITIAL_CWND = 6
  TCP_MAXRTX = 3
  TCP_SYNMAXRTX = 2
  Client = Client
  Server = Server
  MAX_WRITE = 8
  ISS <- Iss
  PLANS <- Plans
  MAX_NET = 4
INVARIANT WindowAccounted
PROPERTIES ImplementsByteStream EdgeNeverRetreats Settles
CHECK_DEADLOCK FALSE
