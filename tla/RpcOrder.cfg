SPECIFICATION Spec
CONSTANTS
  Left = left
  Right = right
  Uuid = {u1, u2, u3}
  MaxBarrier = 2
  Budget <- Budget30
  LruCapacity = 1
  InitialPings = 0
  Calls = {"request", "heartbeat"}
SYMMETRY UuidSymmetry
INVARIANTS BarrierOrder DelayedBehindOlder
PROPERTIES NoReplayWhileAwaited ImplementsService
CHECK_DEADLOCK FALSE
