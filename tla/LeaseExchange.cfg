\* One agent, restarted once; a request given up, a failing call, kills.
CONSTANTS
  u1 = u1  k1 = k1  k2 = k2  h1 = h1  h2 = h2
  Users = {u1}
  Keys = {k1, k2}
  ParsableKeys = {k1, k2}
  KeysOf <- KeysOfRuns
  Handlers = {h1, h2}
  First = 0  Last = 3  Gateway = 1
  MaxTime = 1
  MaxFaults = 1
  Crashes = TRUE
  MaxTimeouts = 1
  NoLease = NoLease
  NoRequest = NoRequest
  NoHandler = NoHandler
SPECIFICATION ExchangeSpec
INVARIANTS ExchangeTypeOK ClientHasPeer ClientLeaseSaved
PROPERTY LeasesTakeEffect
