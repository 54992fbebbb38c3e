SPECIFICATION FairSpec
CONSTANTS
  a = a b = b c = c d = d x = x GameName = GameName NoName = NoName
  Peer = {1, 2, 3, 4}
  Host = 2
  Restarters = {2}
  NumPlayers = 4
  Ips <- PrivateIps
INVARIANTS ViewsAgree PositionsDistinct
PROPERTY EveryoneIsPlaced
CHECK_DEADLOCK FALSE
