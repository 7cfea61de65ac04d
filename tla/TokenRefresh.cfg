\* Two handlers and the loop, two logins, failing saves and kills.
CONSTANTS
  h1 = h1  h2 = h2  Loop = Loop
  Nobody = Nobody  Missing = Missing  Torn = Torn
  Handlers = {h1, h2}
  MaxTokens = 3
  MaxLogins = 2
  Faults = TRUE
  Kills = TRUE
SPECIFICATION Spec
SYMMETRY Interchangeable
INVARIANTS TypeOK FileTokenUsable RedeemedOnce TokensDelivered
CHECK_DEADLOCK FALSE
