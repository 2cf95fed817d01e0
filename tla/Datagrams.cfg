SPECIFICATION Spec
CONSTANTS
  DNS_TABLE_SIZE = 2
  DNS_MAX_SERVERS = 2
  DNS_MAX_RETRIES = 2
  DNS_MAX_TTL = 2
  SEQNOS = 8
  TXIDS = {1, 2}
  PORTS = {1, 2}
  NONE = NONE
  u1 = u1
  u2 = u2
  n1 = n1
  n2 = n2
  n3 = n3
  a1 = a1
  a2 = a2
  a3 = a3
  s1 = s1
  s2 = s2
  Shell = Shell
  Users = {u1, u2}
  Names = {n1, n2, n3}
  AddrOf <- Addr
  SERVERS = {s1, s2}
  PLANS <- MCPLANS
  IP_REASS_MAXAGE = 2
  IP_REASS_MAX_PBUFS = 4
  MEMP_NUM_REASSDATA = 2
  PBUF_SIZE = 8
  REPEATS = 1
  d1 = d1
  d2 = d2
  d3 = d3
  SHIPMENTS <- MCSHIPMENTS
CHECK_DEADLOCK FALSE
INVARIANTS Served RightAnswer FragmentsAccounted
PROPERTY Answered
