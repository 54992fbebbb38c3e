SPECIFICATION Spec
CONSTANTS
  Left = left
  Right = right
  Uuid = {u1, u2}
  MaxBarrier = 0
  Budget <- Budget21
  LruCapacity = 8
  InitialPings = 1
  Calls = {"request", "requestOneWay", "sendShutdown", "heartbeat"}
SYMMETRY UuidSymmetry
INVARIANTS NoFatal
PROPERTY AtMostOnce
CHECK_DEADLOCK FALSE
