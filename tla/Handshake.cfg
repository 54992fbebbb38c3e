SPECIFICATION FairSpec
CONSTANTS
  p1 = p1 p2 = p2 p3 = p3 u1 = u1 u2 = u2
  SESSION_KEY_RPCID = SESSION_KEY_RPCID NoKey = NoKey
  Peer = {p1, p2}
  Uuid = {u1}
  Misroute = {}
INVARIANTS NoFatal ReadyMeansShared NothingDropped
PROPERTIES ReadyForGood HandshakeCompletes
CHECK_DEADLOCK FALSE
