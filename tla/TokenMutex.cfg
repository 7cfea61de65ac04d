\* A login writes the file while GetToken reads it.
CONSTANTS
  h1 = h1  h2 = h2  Loop = Loop
  Nobody = Nobody  Missing = Missing  Torn = Torn
  Handlers = {h1, h2}
  MaxTokens = 2
  MaxLogins = 1
  Faults = FALSE
  Kills = FALSE
SPECIFICATION Spec
INVARIANT ReadersSeeWholeFile
CHECK_DEADLOCK FALSE
