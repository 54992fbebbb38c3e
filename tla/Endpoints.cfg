SPECIFICATION FairSpec
CONSTANTS
  a = a b = b c = c d = d e = e f = f g = g me = me NoEndpoint = NoEndpoint
  MyIps = {me}
  Endpoint = {a, b, c, d, e, f, g, me}
  Remote = {1, 2, 3, 4}
  Listed <- ManyListed
  Source <- ManySource
INVARIANTS BansHold GivenToSender
PROPERTIES NoEndpointLost EveryEndpointTried
