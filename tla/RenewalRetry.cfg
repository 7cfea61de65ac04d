\* A retry lost to a stale element of stopLeaseBackoff.
CONSTANTS
  s1 = s1  s2 = s2  g1 = g1  g2 = g2  g3 = g3  c1 = c1  c2 = c2  c3 = c3
  Servers = {s1, s2}
  NoServer = NoServer
  NoCheck = NoCheck
  Retries = {g1, g2}
  Checks = {c1, c2, c3}
  Threshold = 1
  MaxTokens = 2
  MaxFaults = 1
  Outages = TRUE
  Expiry = FALSE
SPECIFICATION Spec
INVARIANT FailureRetried
CHECK_DEADLOCK FALSE
