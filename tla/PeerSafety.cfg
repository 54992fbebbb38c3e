SPECIFICATION Spec
CONSTANTS
  k1 = k1 k2 = k2 v1 = v1 v2 = v2 NoValue = NoValue
  Key = {k1, k2}
  Value = {v1, v2}
  Peer = {1, 2}
  MaxTime <- Far
  Window = 2
  States <- Plays
  ReadTimes = {0}
  Reads = 1
  Quitters = {1}
  Crashers = {}
  SpuriousTimeouts = FALSE
INVARIANTS MapsNeverDie ReplicaAgrees NothingStranded FlushedBeforeShutdown ReadsAgree
PROPERTY HistoryIsFinal
CHECK_DEADLOCK FALSE
