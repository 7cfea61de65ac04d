\* Every kind of device; up to two failing calls.
CONSTANTS
  a1 = a1  a2 = a2  p1 = p1  p2 = p2  n1 = n1  n2 = n2
  Addresses = {a1, a2}
  Peers = {p1, p2}
  Subnets = {n1, n2}
  Offers <- MCOffers
  NoConfig = NoConfig
  NoAddress = NoAddress
  Kinds = {"wireguard", "tun", "utun"}
  MaxFaults = 2
  Kills = TRUE
SPECIFICATION Spec
INVARIANTS TypeOK DeviceAsOffered ManagedUnlessKilled
