SPECIFICATION Spec
CONSTANTS
  HostRequests = {h1, h2}
  OtherRequests = {x1}
  Offsets <- BehindOrAhead
  Samples = 3
  MaxNow = 3
INVARIANTS Calibrated
PROPERTIES PingIsRoundTrip
SYMMETRY Interchangeable
CHECK_DEADLOCK FALSE
