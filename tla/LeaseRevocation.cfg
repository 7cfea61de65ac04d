\* A user changes its key, two users share one; one call may fail.
CONSTANTS
  u1 = u1  u2 = u2  k1 = k1  k2 = k2  h1 = h1  h2 = h2
  Users = {u1, u2}
  Keys = {k1, k2}
  ParsableKeys = {k1, k2}
  KeysOf <- MCKeysOf
  Handlers = {h1}
  First = 0  Last = 4  Gateway = 1
  MaxTime = 1
  MaxFaults = 1
  Crashes = FALSE
  NoLease = NoLease
  NoRequest = NoRequest
SPECIFICATION FairSpec
INVARIANT DeviceTracksRecords
PROPERTIES AddressStable UnleasedPeersRevoked
