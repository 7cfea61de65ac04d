\* Two handlers, two users, one address: kills, two failing calls, cut saves.
CONSTANTS
  u1 = u1  u2 = u2  k1 = k1  k2 = k2  h1 = h1  h2 = h2
  Users = {u1, u2}
  Keys = {k1, k2}
  ParsableKeys = {k1, k2}
  KeysOf <- OneKeyEach
  Handlers = {h1, h2}
  First = 0  Last = 3  Gateway = 1
  MaxTime = 2
  MaxFaults = 2
  Crashes = TRUE
  NoLease = NoLease
  NoRequest = NoRequest
SPECIFICATION Spec
SYMMETRY Interchangeable
INVARIANTS TypeOK UniqueAddresses PromisesKept PromisesDistinct DeviceTracksRecords FileTracksRecords
PROPERTY PoolSpec
