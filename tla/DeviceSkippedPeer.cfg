\* setPeers fails, its retry is skipped.
CONSTANTS
  a1 = a1  a2 = a2  p1 = p1  p2 = p2  n1 = n1  n2 = n2
  Addresses = {a1, a2}
  Peers = {p1, p2}
  Subnets = {n1, n2}
  Offers <- MCOffers
  NoConfig = NoConfig
  NoAddress = NoAddress
  Kinds = {"wireguard"}
  MaxFaults = 1
  Kills = FALSE
SPECIFICATION Spec
INVARIANT SkippedPeerIsSet
