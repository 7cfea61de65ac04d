---------------------------- MODULE AgentDevice -----------------------------
(***************************************************************************)
(* What the wiresteward agent does to one network device: Run and Stop of  *)
(* the device (device.go, devicemanager.go, agent.go), the part of         *)
(* renewLease that applies the configuration a server offers, and the two  *)
(* versions of updateDeviceConfig (devicemanager_linux.go and              *)
(* devicemanager_darwin.go).                                               *)
(*                                                                         *)
(* renewLoop applies one offer at a time, one call to the kernel after the *)
(* other.  Each call can fail, the process can be stopped or killed        *)
(* between two of them, and the agent compares the next offer with what it *)
(* remembers, not with what the kernel has.                                *)
(***************************************************************************)
EXTENDS Integers

CONSTANTS
  Addresses,    \* local addresses that servers lease
  Peers,        \* servers as WireGuard peers: public key and endpoint
  Subnets,      \* subnets that servers allow
  Offers,       \* the configurations servers offer
  Kinds,        \* kinds of device
  MaxFaults,    \* bound on failing calls to the kernel
  Kills,        \* may the process be killed, and the host be rebooted?
  NoConfig,     \* a nil WirestewardPeerConfig
  NoAddress     \* no route

WirestewardPeerConfig ==
  [LocalAddress : Addresses, peer : Peers, AllowedIPs : SUBSET Subnets]

ASSUME DeviceAssumption ==
  /\ Offers \subseteq WirestewardPeerConfig
  /\ NoConfig \notin WirestewardPeerConfig
  /\ NoAddress \notin Addresses
  /\ MaxFaults \in Nat
  /\ Kills \in BOOLEAN
  (* A kernel device on Linux, which outlives the process, and a tun       *)
  (* device on Linux and on Darwin, which goes with it.                    *)
  /\ Kinds \subseteq {"wireguard", "tun", "utun"}

VARIABLES
  kind,    \* the kind of the device
  agent,   \* is the agent process running?
  managed, \* does it have a DeviceManager for the device?
  step,    \* the next step of renewLease
  offer,   \* the configuration last received from a server
  config,  \* dm.config
  link,    \* does the network device exist?
  addrs,   \* its addresses
  routes,  \* routes[n]: the gateway of the route to n over the device
  peers,   \* its WireGuard peers
  result,  \* how the last renewLease of this process ended
  faults,  \* failing calls so far
  (*************************************************************************)
  (* History, read by properties and never by a guard.                     *)
  (*************************************************************************)
  killed   \* has a killed process left the link behind?

processVars == <<kind, agent, managed, killed>>
kernelVars == <<link, addrs, routes, peers>>
vars == <<processVars, step, offer, config, kernelVars, result, faults>>

KernelDevice == kind = "wireguard"
Darwin == kind = "utun"

Fault  == faults < MaxFaults /\ faults' = faults + 1
NoFault == UNCHANGED faults

NoRoutes == [n \in Subnets |-> NoAddress]

---------------------------------------------------------------------------
(* The process and the device.                                             *)

(* NewAgent starts the device.  LinkAdd fails on a link that exists; the   *)
(* device is then left out, and so it is when a call after LinkAdd fails.  *)
Start ==
  /\ ~agent
  /\ agent' = TRUE
  /\ step' = "idle" /\ offer' = NoConfig /\ config' = NoConfig
  /\ result' = "none"
  /\ (managed' = ~link /\ NoFault) \/ (managed' = FALSE /\ Fault)
  /\ link' = TRUE
  /\ UNCHANGED <<kind, killed, addrs, routes, peers>>

LinkGone == link' = FALSE /\ addrs' = {} /\ routes' = NoRoutes /\ peers' = {}

Exit ==
  /\ agent' = FALSE /\ managed' = FALSE /\ step' = "idle"
  /\ UNCHANGED <<kind, offer, config, result, faults>>

(* Mutant: Stop leaves the link of a kernel device. *)
StopButLeave ==
  /\ agent /\ Exit
  /\ IF KernelDevice THEN UNCHANGED kernelVars ELSE LinkGone
  /\ UNCHANGED killed

(* SIGTERM: Agent.Stop deletes the links of the devices it has.            *)
Stop ==
  /\ agent /\ Exit
  /\ IF managed \/ ~KernelDevice THEN LinkGone ELSE UNCHANGED kernelVars
  /\ UNCHANGED killed

Kill ==
  /\ Kills /\ agent /\ Exit
  /\ IF KernelDevice THEN UNCHANGED kernelVars /\ killed' = TRUE
                     ELSE LinkGone /\ UNCHANGED killed

Reboot == Kills /\ Exit /\ LinkGone /\ killed' = FALSE

---------------------------------------------------------------------------
(* renewLease from the server's answer on.                                 *)

(* Mutant: a server that changed its key or endpoint goes unnoticed. *)
EqualButPeer(a, b) ==
  IF a = NoConfig \/ b = NoConfig THEN a = b
  ELSE a.LocalAddress = b.LocalAddress /\ a.AllowedIPs = b.AllowedIPs

(* wirestewardPeerConfigsEqual compares every part.                        *)
ConfigsEqual(a, b) == a = b

ReceiveOffer ==
  /\ managed /\ step = "idle"
  /\ offer' \in Offers
  /\ step' = "compare"
  /\ UNCHANGED <<processVars, config, kernelVars, result, faults>>

Finish(r) == step' = "idle" /\ result' = r

SkipUpdate ==
  /\ step = "compare" /\ ConfigsEqual(config, offer)
  /\ Finish("skipped")
  /\ UNCHANGED <<processVars, offer, config, kernelVars, faults>>

(* Mutant: the old configuration is removed though there is none. *)
FindLinkUnchecked ==
  /\ step = "compare" /\ ~ConfigsEqual(config, offer)
  /\ NoFault /\ step' = "remove"
  /\ UNCHANGED <<processVars, offer, config, kernelVars, result>>

(* updateDeviceConfig: without the link nothing is done, which is logged,  *)
(* and renewLease goes on to the peers.                                    *)
FindLink ==
  /\ step = "compare" /\ ~ConfigsEqual(config, offer)
  /\ \/ /\ NoFault
        /\ step' = IF config = NoConfig THEN "add" ELSE "remove"
     \/ Fault /\ step' = "peers"
  /\ UNCHANGED <<processVars, offer, config, kernelVars, result>>

(* Failures to remove the old routes and the old address are logged.       *)
RemoveOld ==
  /\ step = "remove" /\ ~Darwin
  /\ step' = "add"
  /\ \E removed \in SUBSET config.AllowedIPs :
       /\ routes' = [n \in Subnets |->
                       IF n \in removed THEN NoAddress ELSE routes[n]]
       /\ \/ /\ removed = config.AllowedIPs /\ NoFault
             /\ addrs' = addrs \ {config.LocalAddress}
          \/ Fault /\ addrs' \in {addrs, addrs \ {config.LocalAddress}}
  /\ UNCHANGED <<processVars, offer, config, link, peers, result>>

(* Darwin: a route is removed only if its gateway is the old address, and  *)
(* all of those go with the address.                                       *)
RemoveOldDarwin ==
  /\ step = "remove" /\ Darwin
  /\ step' = "add"
  /\ \E removed \in SUBSET config.AllowedIPs, gone \in BOOLEAN :
       /\ (removed = config.AllowedIPs /\ gone /\ NoFault) \/ Fault
       /\ addrs' = IF gone THEN addrs \ {config.LocalAddress} ELSE addrs
       /\ routes' = [n \in Subnets |->
                       IF /\ routes[n] = config.LocalAddress
                          /\ gone \/ n \in removed
                         THEN NoAddress ELSE routes[n]]
  /\ UNCHANGED <<processVars, offer, config, link, peers, result>>

(* An address that is there already is an error, after which the new routes*)
(* are not added and the agent remembers the old configuration.            *)
AddAddress ==
  /\ step = "add" /\ ~Darwin
  /\ \/ /\ offer.LocalAddress \notin addrs /\ NoFault
        /\ addrs' = addrs \cup {offer.LocalAddress}
        /\ step' = "routes"
     \/ /\ offer.LocalAddress \in addrs /\ NoFault
        /\ step' = "peers" /\ UNCHANGED addrs
     \/ Fault /\ step' = "peers" /\ UNCHANGED addrs
  /\ UNCHANGED <<processVars, offer, config, link, routes, peers, result>>

(* Darwin: SIOCAIFADDR sets an address again.                              *)
AddAddressDarwin ==
  /\ step = "add" /\ Darwin
  /\ \/ addrs' = addrs \cup {offer.LocalAddress} /\ NoFault /\ step' = "routes"
     \/ UNCHANGED addrs /\ Fault /\ step' = "peers"
  /\ UNCHANGED <<processVars, offer, config, link, routes, peers, result>>

(* Routes that cannot be set are logged; the configuration counts as set.  *)
AddRoutes ==
  /\ step = "routes" /\ ~Darwin
  /\ step' = "peers"
  /\ config' = offer
  /\ \E added \in SUBSET offer.AllowedIPs :
       /\ routes' = [n \in Subnets |->
                       IF n \in added THEN offer.LocalAddress ELSE routes[n]]
       /\ (added = offer.AllowedIPs /\ NoFault) \/ Fault
  /\ UNCHANGED <<processVars, offer, link, addrs, peers, result>>

(* Darwin: RTM_ADD does not replace a route.                               *)
AddRoutesDarwin ==
  /\ step = "routes" /\ Darwin
  /\ step' = "peers"
  /\ config' = offer
  /\ \E added \in SUBSET offer.AllowedIPs :
       /\ (added = offer.AllowedIPs /\ NoFault) \/ Fault
       /\ routes' = [n \in Subnets |->
                       IF n \in added /\ routes[n] = NoAddress
                         THEN offer.LocalAddress ELSE routes[n]]
  /\ UNCHANGED <<processVars, offer, link, addrs, peers, result>>

(* A failure of setPeers is an error of renewLease, which renewLoop will   *)
(* retry.                                                                  *)
SetPeers ==
  /\ step = "peers"
  /\ \/ peers' = {offer.peer} /\ NoFault /\ Finish("applied")
     \/ UNCHANGED peers /\ Fault /\ Finish("failed")
  /\ UNCHANGED <<processVars, offer, config, link, addrs, routes>>

ApplyOffer ==
  \/ SkipUpdate \/ FindLink \/ SetPeers
  \/ RemoveOld \/ AddAddress \/ AddRoutes
  \/ RemoveOldDarwin \/ AddAddressDarwin \/ AddRoutesDarwin

---------------------------------------------------------------------------
Init ==
  /\ kind \in Kinds /\ killed = FALSE
  /\ agent = FALSE /\ managed = FALSE /\ step = "idle"
  /\ offer = NoConfig /\ config = NoConfig
  /\ link = FALSE /\ addrs = {} /\ routes = NoRoutes /\ peers = {}
  /\ result = "none" /\ faults = 0

Next == Start \/ Stop \/ Kill \/ Reboot \/ ReceiveOffer \/ ApplyOffer

Spec == Init /\ [][Next]_vars
---------------------------------------------------------------------------
(* Properties *)

(* Types.  renewLease has an offer at every step, and an old configuration *)
(* while it removes one.                                                   *)
TypeOK ==
  /\ kind \in Kinds /\ killed \in BOOLEAN
  /\ agent \in BOOLEAN /\ managed \in BOOLEAN /\ link \in BOOLEAN
  /\ step \in {"idle", "compare", "remove", "add", "routes", "peers"}
  /\ offer \in Offers \cup {NoConfig} /\ config \in Offers \cup {NoConfig}
  /\ addrs \in SUBSET Addresses
  /\ routes \in [Subnets -> Addresses \cup {NoAddress}]
  /\ peers \in SUBSET Peers
  /\ result \in {"none", "applied", "skipped", "failed"}
  /\ faults \in Nat
  /\ step # "idle" => (managed /\ offer # NoConfig)
  /\ step = "remove" => config # NoConfig

RoutesOf(c) ==
  [n \in Subnets |-> IF n \in c.AllowedIPs THEN c.LocalAddress ELSE NoAddress]

Accepted == managed /\ step = "idle" /\ result \in {"applied", "skipped"}

(* As long as no call has failed, the device has exactly the address, the  *)
(* routes and the peer of the offer the agent last accepted, whether it    *)
(* updated the device or skipped the update, and whatever offers, stops and*)
(* restarts came before.                                                   *)
DeviceAsOffered ==
  (faults = 0 /\ Accepted)
    => /\ addrs = {offer.LocalAddress}
       /\ routes = RoutesOf(offer)
       /\ peers = {offer.peer}

(* As long as no call has failed, a running agent manages its device unless*)
(* an earlier process was killed and left a kernel link behind: NewAgent   *)
(* leaves a device out for good when it exists (agent.go:36), so every Stop*)
(* has to remove it, and a reboot helps.                                   *)
ManagedUnlessKilled ==
  (agent /\ faults = 0 /\ ~killed) => managed

(* devicemanager.go:178-180: the configuration "is then applied to the     *)
(* device only if it differs from the current configuration", so when the  *)
(* update is skipped the device has the peer of the offer.                 *)
SkippedPeerIsSet ==
  (Accepted /\ result = "skipped") => peers = {offer.peer}
=============================================================================
