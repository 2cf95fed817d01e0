SPECIFICATION FairSpec
CONSTANTS
  ARP_TABLE_SIZE = 2
  ARP_MAXAGE = 3
  ARP_MAXPENDING = 2
  REREQUEST_UNICAST = 1
  REREQUEST_BROADCAST = 2
  ANY = ANY
  BROADCAST = BROADCAST
  FAR = FAR
  Me = Me
  EVERYONE = EVERYONE
  XIDS = 3
  MAX_WIRE = 2
  TRIES = 6
  U32 = 512
  U16 = 6
  COARSE = 4
  RENEW_AGAIN = 1
  REBOOT_TRIES = 2
  GUESSED_GW = GUESSED_GW
  ip1 = ip1
  ip2 = ip2
  ServerIp = ServerIp
  ServerMac = ServerMac
  OtherMac = OtherMac
  HostA = HostA
  HostB = HostB
  MacA = MacA
  MacB = MacB
  Pool = {ip1, ip2}
  Hosts = {ServerIp, HostA, HostB, FAR}
  Macs = {ServerMac, OtherMac, MacA, MacB}
  PLANS <- MCPLANS
CHECK_DEADLOCK FALSE
INVARIANTS LeaseHeld Uncontested
PROPERTIES GetsAddress Reaches
