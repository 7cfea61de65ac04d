\* Two devices that may fail to start, end by themselves or be stopped.
CONSTANTS
  d1 = d1  d2 = d2
  Devices = {d1, d2}
  None = None
SPECIFICATION FairSpec
INVARIANTS TypeOK StoppedIsClosed StopIsMet ClosedOnce
PROPERTY AgentStops
CHECK_DEADLOCK FALSE
