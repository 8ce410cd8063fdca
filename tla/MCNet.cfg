CONSTANTS
  Peers = {remote, client}
  Remote = remote
  remote = remote
  client = client
  r1 = r1
  r2 = r2
  c1 = c1
  MacOf <- Cards
  Us = us
  Mac = mac
  Zero = zero
  Broadcast = broadcast
  NoMac = nomac
  NumCpus = 2
  Messages <- TestMessages
  OurMac <- Mac1
  PeerMac <- Mac2
SPECIFICATION MCSpec
CHECK_DEADLOCK FALSE
INVARIANTS
  PacketsReachTheirHost
  FramesKeepTheirMeaning
PROPERTY
  UdpEnds
