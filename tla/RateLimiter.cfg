CONSTANTS
  Keys = {k1, k2}
  Handlers = {h1, h2}
  Burst = 2
  Rate = 1
  TicksPerSecond = 2
  MaxClock = 5
SPECIFICATION Spec
INVARIANTS IInv AdmissionBound
PROPERTIES NoUndueRejection
CHECK_DEADLOCK FALSE
