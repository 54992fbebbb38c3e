SPECIFICATION FairSpec
CONSTANTS
  k1 = k1 k2 = k2 v1 = v1 v2 = v2 NoValue = NoValue
  Key = {k1}
  Value = {v1, v2}
  Peer = {1, 2}
  MaxTime <- Even
  Window = 2
  States <- Pressed
  ReadTimes = {0}
  Reads = 1
  Quitters = {}
  Crashers = {2}
  SpuriousTimeouts = FALSE
PROPERTY ReadersReturn
CHECK_DEADLOCK FALSE
