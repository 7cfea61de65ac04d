------------------------- MODULE AgentDeviceProofs --------------------------
(***************************************************************************)
(* While no call fails the device is what the agent accepted, for any      *)
(* servers, addresses and subnets.                                         *)
(***************************************************************************)
EXTENDS AgentDevice, TLAPS

(* What the kernel has at each step of renewLease while no call has failed:*)
(* the configuration dm.config describes up to the removal, then, one after*)
(* the other, the address, the routes and the peer of the offer.           *)
Bare == addrs = {} /\ routes = NoRoutes

Configured(c) ==
  IF c = NoConfig THEN Bare /\ peers = {}
  ELSE addrs = {c.LocalAddress} /\ routes = RoutesOf(c) /\ peers = {c.peer}

StepInv ==
  /\ step \in {"idle", "compare", "remove"} => Configured(config)
  /\ (step = "idle" /\ result # "none") =>
       (result # "failed" /\ config = offer /\ offer # NoConfig)
  /\ (step = "idle" /\ result = "none") => config = NoConfig
  /\ step = "add" => Bare
  /\ step = "routes" => (addrs = {offer.LocalAddress} /\ routes = NoRoutes)
  /\ step = "peers" =>
       /\ config = offer
       /\ addrs = {offer.LocalAddress} /\ routes = RoutesOf(offer)

DeviceInv ==
  /\ TypeOK
  /\ managed => link
  /\ (faults = 0 /\ ~killed) => (agent <=> managed) /\ (link => managed)
  /\ (faults = 0 /\ ~link) => (Bare /\ peers = {})
  /\ (faults = 0 /\ managed) => StepInv

(* A run in which no call has failed so far is one in which none had before*)
(* the step either.                                                        *)
LEMMA NoFaultBefore ==
  ASSUME TypeOK, UNCHANGED faults \/ Fault, faults' = 0
  PROVE  faults = 0 /\ UNCHANGED faults /\ ~Fault
  BY DEF TypeOK, Fault

(* Every variable keeps its type, and renewLease only runs for a device the*)
(* agent manages, with an offer, and removes a configuration only if there *)
(* is one.                                                                 *)
LEMMA DeviceTypeStep == TypeOK /\ [Next]_vars => TypeOK'
<1> SUFFICES ASSUME TypeOK, [Next]_vars PROVE TypeOK'
  OBVIOUS
<1> USE DEF TypeOK, kernelVars, processVars
<1>1. CASE UNCHANGED vars
  BY <1>1 DEF vars
<1>2. CASE Start
  <2>1. faults' \in Nat
    BY <1>2 DEF Start, Fault, NoFault
  <2>2. managed' \in BOOLEAN /\ killed' \in BOOLEAN
    BY <1>2, Zenon DEF Start
  <2> QED
    BY <1>2, <2>1, <2>2 DEF Start
<1>3. CASE Stop \/ Kill \/ Reboot
  <2>1. killed' \in BOOLEAN /\ link' \in BOOLEAN
    BY <1>3, Zenon DEF Stop, Kill, Reboot, LinkGone
  <2>2. /\ addrs' \in SUBSET Addresses /\ peers' \in SUBSET Peers
        /\ routes' \in [Subnets -> Addresses \cup {NoAddress}]
    BY <1>3 DEF Stop, Kill, Reboot, LinkGone, NoRoutes
  <2> QED
    BY <1>3, <2>1, <2>2 DEF Stop, Kill, Reboot, Exit
<1>4. CASE ReceiveOffer
  BY <1>4, DeviceAssumption DEF ReceiveOffer
<1>5. CASE SkipUpdate
  BY <1>5 DEF SkipUpdate, Finish
<1>6. CASE FindLink
  BY <1>6 DEF FindLink, Fault, NoFault
<1>7. CASE RemoveOld
  <2>1. /\ addrs' \in SUBSET Addresses /\ faults' \in Nat
        /\ routes' \in [Subnets -> Addresses \cup {NoAddress}]
    BY <1>7 DEF RemoveOld, Fault, NoFault
  <2> QED
    BY <1>7, <2>1 DEF RemoveOld
<1>11. CASE RemoveOldDarwin
  <2>1. /\ addrs' \in SUBSET Addresses /\ faults' \in Nat
        /\ routes' \in [Subnets -> Addresses \cup {NoAddress}]
    BY <1>11 DEF RemoveOldDarwin, Fault, NoFault
  <2> QED
    BY <1>11, <2>1 DEF RemoveOldDarwin
<1>12. CASE AddAddressDarwin
  <2>1. offer.LocalAddress \in Addresses
    BY <1>12, DeviceAssumption DEF AddAddressDarwin, WirestewardPeerConfig
  <2> QED
    BY <1>12, <2>1 DEF AddAddressDarwin, Fault, NoFault
<1>13. CASE AddRoutesDarwin
  <2>1. offer.LocalAddress \in Addresses
    BY <1>13, DeviceAssumption DEF AddRoutesDarwin, WirestewardPeerConfig
  <2>2. /\ faults' \in Nat
        /\ routes' \in [Subnets -> Addresses \cup {NoAddress}]
    BY <1>13, <2>1 DEF AddRoutesDarwin, Fault, NoFault
  <2> QED
    BY <1>13, <2>2 DEF AddRoutesDarwin
<1>8. CASE AddAddress
  <2>1. offer.LocalAddress \in Addresses
    BY <1>8, DeviceAssumption DEF AddAddress, WirestewardPeerConfig
  <2> QED
    BY <1>8, <2>1 DEF AddAddress, Fault, NoFault
<1>9. CASE AddRoutes
  <2>1. offer.LocalAddress \in Addresses
    BY <1>9, DeviceAssumption DEF AddRoutes, WirestewardPeerConfig
  <2>2. /\ faults' \in Nat
        /\ routes' \in [Subnets -> Addresses \cup {NoAddress}]
    BY <1>9, <2>1 DEF AddRoutes, Fault, NoFault
  <2> QED
    BY <1>9, <2>2 DEF AddRoutes
<1>10. CASE SetPeers
  <2>1. offer.peer \in Peers
    BY <1>10, DeviceAssumption DEF SetPeers, WirestewardPeerConfig
  <2> QED
    BY <1>10, <2>1 DEF SetPeers, Finish, Fault, NoFault
<1> QED
  BY <1>1, <1>2, <1>3, <1>4, <1>5, <1>6, <1>7, <1>8, <1>9, <1>10, <1>11,
     <1>12, <1>13 DEF Next, ApplyOffer

(* The device goes from one stage of an update to the next, and a process  *)
(* that manages the device found it bare.                                  *)
LEMMA DeviceInvStep == DeviceInv /\ [Next]_vars => DeviceInv'
<1> SUFFICES ASSUME DeviceInv, [Next]_vars PROVE DeviceInv'
  OBVIOUS
<1>1. TypeOK /\ TypeOK'
  BY DeviceTypeStep DEF DeviceInv
<1> USE DEF DeviceInv, Bare, Configured, StepInv, kernelVars, processVars,
            NoFault
<1>2. CASE UNCHANGED vars
  BY <1>1, <1>2 DEF vars, NoRoutes, RoutesOf
<1>3. CASE Start
  BY <1>1, <1>3, NoFaultBefore DEF Start, NoRoutes
<1>4. CASE Stop
  BY <1>1, <1>4 DEF Stop, Exit, LinkGone, TypeOK
<1>12. CASE Kill
  BY <1>1, <1>12 DEF Kill, Exit, LinkGone, TypeOK
<1>13. CASE Reboot
  BY <1>1, <1>13 DEF Reboot, Exit, LinkGone
<1>5. CASE ReceiveOffer
  BY <1>1, <1>5 DEF ReceiveOffer, NoRoutes, RoutesOf
<1>6. CASE SkipUpdate
  BY <1>1, <1>6, DeviceAssumption
     DEF SkipUpdate, Finish, ConfigsEqual, NoRoutes, RoutesOf, TypeOK
<1>7. CASE FindLink
  BY <1>1, <1>7, NoFaultBefore DEF FindLink, NoRoutes, RoutesOf
<1>8. CASE RemoveOld
  <2>1. (faults' = 0) => (addrs' = {} /\ routes' = NoRoutes)
    <3> SUFFICES ASSUME faults' = 0 PROVE addrs' = {} /\ routes' = NoRoutes
      OBVIOUS
    <3>1. faults = 0 /\ ~Fault
      BY <1>1, <1>8, NoFaultBefore DEF RemoveOld
    <3>2. addrs = {config.LocalAddress} /\ routes = RoutesOf(config)
      BY <1>1, <1>8, <3>1 DEF RemoveOld, TypeOK
    <3>3. /\ addrs' = addrs \ {config.LocalAddress}
          /\ routes' = [n \in Subnets |-> IF n \in config.AllowedIPs
                                            THEN NoAddress ELSE routes[n]]
      BY <1>8, <3>1 DEF RemoveOld
    <3> QED
      BY <3>2, <3>3 DEF RoutesOf, NoRoutes
  <2>2. /\ UNCHANGED <<processVars, link>> /\ step' = "add"
        /\ faults' = 0 => faults = 0
    BY <1>1, <1>8, NoFaultBefore DEF RemoveOld
  <2>3. managed /\ link
    BY <1>1, <1>8 DEF RemoveOld, TypeOK
  <2> QED
    BY <1>1, <2>1, <2>2, <2>3
<1>9. CASE AddAddress
  BY <1>1, <1>9, NoFaultBefore DEF AddAddress, TypeOK
<1>10. CASE AddRoutes
  <2>1. (faults' = 0) => (faults = 0 /\ routes' = RoutesOf(offer))
    <3> SUFFICES ASSUME faults' = 0
                 PROVE  faults = 0 /\ routes' = RoutesOf(offer)
      OBVIOUS
    <3>1. faults = 0 /\ ~Fault
      BY <1>1, <1>10, NoFaultBefore DEF AddRoutes
    <3>2. routes = NoRoutes
      BY <1>1, <1>10, <3>1 DEF AddRoutes, TypeOK
    <3> QED
      BY <1>10, <3>1, <3>2 DEF AddRoutes, NoRoutes, RoutesOf
  <2> QED
    BY <1>1, <1>10, <2>1 DEF AddRoutes, TypeOK, RoutesOf
<1>14. CASE RemoveOldDarwin
  <2>1. (faults' = 0) => (addrs' = {} /\ routes' = NoRoutes)
    <3> SUFFICES ASSUME faults' = 0 PROVE addrs' = {} /\ routes' = NoRoutes
      OBVIOUS
    <3>1. faults = 0 /\ ~Fault
      BY <1>1, <1>14, NoFaultBefore DEF RemoveOldDarwin
    <3>2. addrs = {config.LocalAddress} /\ routes = RoutesOf(config)
      BY <1>1, <1>14, <3>1 DEF RemoveOldDarwin, TypeOK
    <3>3. /\ addrs' = addrs \ {config.LocalAddress}
          /\ routes' = [n \in Subnets |-> IF routes[n] = config.LocalAddress
                                            THEN NoAddress ELSE routes[n]]
      BY <1>14, <3>1 DEF RemoveOldDarwin
    <3> QED
      BY <3>2, <3>3 DEF RoutesOf, NoRoutes
  <2>2. /\ UNCHANGED <<processVars, link>> /\ step' = "add"
        /\ faults' = 0 => faults = 0
    BY <1>1, <1>14, NoFaultBefore DEF RemoveOldDarwin
  <2>3. managed /\ link
    BY <1>1, <1>14 DEF RemoveOldDarwin, TypeOK
  <2> QED
    BY <1>1, <2>1, <2>2, <2>3
<1>15. CASE AddAddressDarwin
  BY <1>1, <1>15, NoFaultBefore DEF AddAddressDarwin, TypeOK
<1>16. CASE AddRoutesDarwin
  <2>1. (faults' = 0) => (faults = 0 /\ routes' = RoutesOf(offer))
    <3> SUFFICES ASSUME faults' = 0
                 PROVE  faults = 0 /\ routes' = RoutesOf(offer)
      OBVIOUS
    <3>1. faults = 0 /\ ~Fault
      BY <1>1, <1>16, NoFaultBefore DEF AddRoutesDarwin
    <3>2. routes = NoRoutes
      BY <1>1, <1>16, <3>1 DEF AddRoutesDarwin, TypeOK
    <3> QED
      BY <1>16, <3>1, <3>2 DEF AddRoutesDarwin, NoRoutes, RoutesOf
  <2> QED
    BY <1>1, <1>16, <2>1 DEF AddRoutesDarwin, TypeOK, RoutesOf
<1>11. CASE SetPeers
  BY <1>1, <1>11, NoFaultBefore DEF SetPeers, Finish, TypeOK, RoutesOf
<1> QED
  BY <1>2, <1>3, <1>4, <1>5, <1>6, <1>7, <1>8, <1>9, <1>10, <1>11, <1>12,
     <1>13, <1>14, <1>15, <1>16 DEF Next, ApplyOffer

LEMMA DeviceInit == Init => DeviceInv
<1> SUFFICES ASSUME Init PROVE DeviceInv
  OBVIOUS
<1>1. routes \in [Subnets -> Addresses \cup {NoAddress}]
  BY DEF Init, NoRoutes
<1>2. TypeOK
  BY <1>1 DEF Init, TypeOK
<1> QED
  BY <1>2 DEF Init, DeviceInv, Bare

(* The type invariant, with what renewLease has at each step.              *)
THEOREM DeviceTypeCorrect == Spec => []TypeOK
<1>1. DeviceInv => TypeOK
  BY DEF DeviceInv
<1> QED
  BY <1>1, DeviceInit, DeviceInvStep, PTL DEF Spec

(* As long as no call to the kernel has failed the device has exactly the  *)
(* address, routes and peer of the offer the agent last accepted, applied  *)
(* or skipped, whatever the sequence of offers, stops, kills and restarts, *)
(* on Linux and on Darwin.                                                 *)
THEOREM DeviceFollowsOffers == Spec => []DeviceAsOffered
<1>1. DeviceInv => DeviceAsOffered
  BY DeviceAssumption
     DEF DeviceInv, StepInv, Configured, DeviceAsOffered, Accepted, TypeOK
<1> QED
  BY <1>1, DeviceInit, DeviceInvStep, PTL DEF Spec

(* ManagedUnlessKilled: only a kill, or a failing call, lets the agent     *)
(* leave its device out.                                                   *)
THEOREM DeviceManaged == Spec => []ManagedUnlessKilled
<1>1. DeviceInv => ManagedUnlessKilled
  BY DEF DeviceInv, ManagedUnlessKilled
<1> QED
  BY <1>1, DeviceInit, DeviceInvStep, PTL DEF Spec
=============================================================================
