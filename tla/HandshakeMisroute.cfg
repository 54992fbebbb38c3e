SPECIFICATION Spec
CONSTANTS
  p1 = p1 p2 = p2 p3 = p3 u1 = u1 u2 = u2
  SESSION_KEY_RPCID = SESSION_KEY_RPCID NoKey = NoKey
  Peer = {p1, p2, p3}
  Uuid = {}
  Misroute <- FirstHandlers
INVARIANT ReadyMeansShared
CHECK_DEADLOCK FALSE
