SPECIFICATION FairSpec
CONSTANTS
  Left = left
  Right = right
  Uuid = {u1, u2}
  MaxBarrier = 1
  Budget <- Budget20
  LruCapacity = 8
  InitialPings = 1
  Calls = {"requestOneWay", "lose"}
PROPERTIES EventuallyAnswered EventuallyQuiet InitTimeShiftProceeds
CHECK_DEADLOCK FALSE
