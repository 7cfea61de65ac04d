# A formal model of wiresteward

wiresteward hands out WireGuard peers.  A *server* leases an address to every
user that shows a valid OAuth token and configures its WireGuard device with a
peer for each lease.  An *agent* on a user's machine gets a token from an
identity provider, asks one of several servers for a lease for each of its
network devices, configures the device, watches the server with pings and moves
to another one when it stops answering.

This directory holds TLA+ modules that model that program, TLC configurations
that check them on small instances, and theorems that TLAPS proves for every
value of the constants.  Every definition is translated from the Go source;
`PROJECT.json` names the lines each one stands for.

## 1. Inventory

| Component | State | Operations | What is hard about it |
|---|---|---|---|
| Lease server: `fileLeaseManager` (lease.go), `/newPeerLease` (serve.go), `setPeers` (wireguard.go) | the table `wgRecords`, the leases file, the peers of the device | add or renew a lease, scan for expired ones, load at start | one request is three separate critical sections; device and file can fail between them; the file is truncated and rewritten in place |
| Server process: `server()` (main.go), `ServerDevice` (device.go), `verifyServerConfig` (config.go) | the configuration, the WireGuard link with key, flag and address, the iptables rule, the key file | read the configuration, start, refuse to start, stop | exits that skip the deferred `Stop`; kills at every step; link, rule and key file outlive the process, and the configuration changes in between |
| Token validation: `tokenValidator` (oauth2.go) | introspection endpoints by issuer | discover at start, choose whom to ask about a token | a token names its own issuer; so does a discovery document |
| Metrics collector (metrics.go) | none | reads the table without its mutex | the Go runtime ends the process on a concurrent map access |
| Lease renewal: `renewAllLeases` (agent.go), `renewLoop`, `triggerLeaseRenewal`, `renewLease` (devicemanager.go) | cached token, current server, three channels of capacity one, the `inBackoffLoop` flag | trigger, renew, fail over, back off and retry | four kinds of goroutines, dropped signals, stale elements, one flag for many goroutines |
| Health checks (healthcheck.go, ping.go) | one goroutine per check: running flag, stop channel, count of failing pings | start, ping, stop, fire | a stop that comes before the goroutine runs, a check that fires after it was replaced |
| Device configuration on Linux and Darwin (devicemanager_linux.go, devicemanager_darwin.go and the end of `renewLease`) | addresses, routes and peers of the device; the remembered configuration | remove the old one, add the new one, set the peer | each kernel call can fail; the next decision is made from what is remembered, not from what is there |
| OAuth tokens: `oauthTokenHandler` (oauth2.go), `tokenRefreshLoop` and handlers (agent.go) | the token file, `mu`, the code verifier | fetch, refresh, log in, save | logins bypass the mutex; a refresh token can be used once; who passes a new token on |
| User-space device: `TunDevice` (device.go) | goroutines, two channels, socket, listener, device | init, run, clean up, stop | channels made by the goroutine that `Stop` wants to meet |
| Kernel device: `WireguardDevice` (device.go) | a link in the kernel | start, stop | survives a kill |
| Back-off durations (backoff.go) | an attempt counter | next duration | overflow of a power |
| Private address validation (cidr.go) | none | is a prefix private? | prefixes that begin and end in different ranges |
| Agent configuration and defaults (config.go, duration.go), status page (agent_http.go), logging, mocks, deployment | none of the system's own | parsing, output, I/O | not modelled, see section 7 |

How they interact.  The OAuth handler gives tokens to `renewAllLeases`, which
stores each one in every device manager and signals its renew loop.  A renew
loop sends the token and the device's public key to a server over HTTP; the
server puts a lease in its table, a peer on its device and a line in its file,
and replies.  The agent then configures its device and starts a health check,
which signals the renew loop when the server stops answering.  Device managers
share nothing but the token.  Server and agent share only the HTTP exchange.
`LeaseManager` and `AgentRenewal` model each side with the other as an
environment: to the server an agent is a request at any time, to the agent a
server is a reply or a failure.  `LeaseExchange` puts the two sides of the
exchange together.  `LeaseManager` and `ServerProcess` look at the same process:
one at the leases, with a start of four steps, the other at the host, with every
call of the start and the stop.

What makes each component correct:

* lease server: an address has one user at a time; a lease that was granted
  holds until it expires, whatever crashes in between, as long as a start finds
  it in the file; device, table and file
  agree whenever nobody is about to make them agree; whoever has no lease any
  more loses access;
* renewal: no token is missed, a failed renewal is followed by another, renewals
  do not multiply, a lease that is held is watched, and the agent ends up with a
  server that answers;
* server process: a server that answers has a complete device and the key its
  agents know; a stop leaves nothing behind; nothing public is routed; it comes
  back after a failure unless something stands in the way;
* the exchange: an agent that was answered has its peer on the server and its
  lease on disk;
* device configuration: the device has what the last accepted offer says, and
  only a kill takes it away from the agent;
* tokens: every token received reaches the devices, the token on disk can be
  refreshed and no token is refreshed twice, unless its successor was lost;
* user-space device: a stopped device has nothing open, no channel is closed
  twice, and stopping ends.

`PROJECT.json` lists the hazards of this code line by line with the properties
that watch over them.

## 2. Modules

```
AddressPool  <----------- LeaseManager <------ MCLeaseManager   (TLC)
   ^    (refinement)       ^      ^
AddressPoolProofs          |    LeaseExchange <-- MCLeaseExchange
                           |         ^
            LeaseManagerProofs <-- LeaseExchangeProofs           (TLAPS)

Cidr <-- ServerProcess <-- MCServerProcess, ServerProcessProofs
LeaseUpkeep <-- AgentRenewal <-- MCAgentRenewal, AgentRenewalProofs
     (refinement)
AgentDevice  <-- MCAgentDevice,  AgentDeviceProofs
TokenStore   <-- MCTokenStore,   TokenStoreProofs
TunDevice    <-- MCTunDevice,    TunDeviceProofs
```

In every module an action is one critical section, one channel operation or one
call to the kernel or the file system: the points at which another goroutine, a
kill or a failure can come in between.  Operators named *Mutant* are variants of
an action with a plausible bug.  No specification uses them; replacing the
action by its mutant must break the property it is listed with in
`PROJECT.json`, which shows that the property depends on the code.

### LeaseManager

| Variable | Code |
|---|---|
| `wgRecords` | `lm.wgRecords`, by user |
| `pc`, `req`, `resp` | position, arguments and record of each goroutine in `addNewPeer` |
| `sync` | position of the leaser loop in `syncWgRecords` |
| `link`, `device` | the WireGuard link and its peers, in the kernel |
| `file`, `torn` | the leases file: its lines, and whether the last is malformed |
| `proc` | how far `server()` has come |
| `now`, `faults` | clock, and number of failing calls so far |

`ReceiveRequest` .. `Reply` are a request: `ExtendLease`, `RekeyLease`,
`GrantLease` and `ExhaustPool` are the branches of `createOrUpdatePeer`,
`UpdateForRequest` and `SaveForRequest` what `addNewPeer` does after it.
`DeleteExpired`, `UpdateForSync` and `SaveForSync` are `syncWgRecords`.
`StartDevice` .. `UpdateLoaded` are the start, with the real conditions: a
record is loaded if its expiry is after now and deleted by the scan if it is
before now; a link left behind refuses the start; a malformed line ends it
(`LoadFails`).  A file that does not open, or that cannot be read to its end, does
not: `loadWgRecords` logs the one and never looks at `sc.Err()` for the other, and
the server goes up with the lines it has, or none (`LoadPartly`; lease.go:76, 84).
`Quit`, `Kill` and `Reboot` end the process at any point, and a save in progress
may leave any part of the file, because it iterates over a map and truncates
first.

`deviceStale`, `unsaved`, `lost`, `promised` and `void` are history: no guard
reads them.  They let properties speak of "the last call failed", of "the lines
that a save did not write or a start did not read" and of "the lease the client
was told".  A promise begins with a reply and ends when the lease expires or is
taken back: by a renewal of the same user with a shorter token, which also takes
back what the handlers that hold an earlier record are about to reply (`void`),
and by a start that does not have the user's line (`lost`).  The next reply makes
a new promise.

`AddressPool` is the abstract specification: a set of leases (address, user,
expiry) and a saved set, with `Assign`, `Renew`, `Reclaim`, `Save`, `Stop`,
`Restart` and `Advance`.  A save and a restart may lose leases only in a step that
counts a failing call, a stop only amid a save.  `LeaseManager` implements it with
the pool read off the table, the saved set off the file and the failures off
`faults` (`PoolSpec`).

### LeaseExchange

Extends `LeaseManager`: every step of the server is one of its actions, but a
request comes from an agent.  `asking[u]` is the handler whose answer the agent
of user `u` waits for, `key[u]` the public key of its device, `config[u]` the
lease it has configured.  `Ask` is a request with the key of the device,
`Answer` a reply that arrives, `TimesOut` the HTTP client's timeout and every
other failure after which the handler goes on alone, `Restart` a new run of the
agent with a new key.  A handler that ends with an error, or a server that ends,
ends the agent's wait (`HangUp`).  `overtaken` is history: users whose record was
written for a request of an earlier run and not put right since: by an answer to
the agent when the table and the file both have its key.  `revoked` is history,
too: users whose agent has a lease configured that was taken back since (or that
was shortened before its answer arrived).  The agents' devices
generate their keys, so these parse and no two users share one
(`ExchangeAssumption`); in `LeaseManager` alone they may be malformed and shared.

### ServerProcess and Cidr

| Variable | Code |
|---|---|
| `conf`, `cfg` | the configuration file, and what the running process has read |
| `service` | will the service manager start the server by itself? |
| `step` | the next call of `server()`, `ServerDevice.Start` or `Stop` |
| `tries` | the counter of `ensureLinkIsUp` |
| `key`, `keyFile` | what `privateKey` returned, and the file it reads and writes |
| `links`, `rules` | devices by name; how often iptables lists a rule |
| `servers` | `tv.servers`: by issuer, the configured server that named the endpoint |
| `request` | a request whose token was found active |

`ReadConfig` .. `Serve` are the calls of the start, one action each, with every
reason the code has to end there; `LinkSetDown`, `LinkDel`, `DeleteRule` are
`Stop`.  `ExitWithoutStop` is a failing call, an `os.Exit`, a panic or a kill
between any two of them; `StartRefused` is a call that fails whenever it is
made.  The key file can be left incomplete.  The administrator may change the
configuration at any time; it is read at the next start.  `service` is "off" after
a signal (`Quit`), and may be after starts that were refused (`ConfigRefused`,
`StartRefused`: systemd gives up after a few); an administrator may start the
server in either case, and a reboot does.  `AppendUnique` is
modelled as iptables does it, one rule of each destination: with rules of two
configurations that share one destination, a rule is counted twice.
`left` and `handed` are history: configurations of which something may be left
on the host, and the keys that replies have told.

`Cidr` has `isPrivateCIDR` over the first sixteen bits of an address, which
decide whether it is private.  IPv6 addresses pass it; the iptables rule of one is
refused (`Masqueradable`), since `verifyServerConfig` appends `/32` to it and
iptables takes IPv4 only.

### AgentRenewal

One device.  `trig` is the caller of `renewAllLeases` (`renewMu` admits one),
`loop` the renew loop, `retry[g]` the back-off goroutines, `hc[i]` the health
checks; `renewChan`, `hcRenewChan`, `stopBackoff` and `hcStop` are the channels,
of capacity one.  A goroutine blocked in a send is one that has not sent yet.
`triggerLeaseRenewal` is four actions, because other goroutines run between its
steps.  A call over HTTP is two: the token is read, then the answer comes.  An
answer that offers a lease meets a device (`RequestSucceeds`): the configuration
is applied (`Configure`), `updateDeviceConfig` fails and is only logged
(`UpdateFails`), `setPeers` fails after `dm.config` was set, or with it unset
(`SetPeersFails`), or the offer is that of `dm.config` and nothing is done
(`SkipDevice`), also when that configuration never came into effect.  `config`
is the server of `dm.config`, `lease` the one whose configuration is in effect.
`failed`, `meant`, `swallowed` and `unapplied` are history: whether the last
renewal is to be retried, whether a back-off goroutine was ended by an element
of `stopLeaseBackoff` sent before it existed, and whether the last configuration
was not applied in full.

`LeaseUpkeep` is the abstract specification: one activity with six phases
instead of callers, loop, back-offs and checks.  A device is `idle` until it is
given a token (`Submit`), `renewing` while attempts are made (`Attempt`), and
comes to rest (`Rest`) only when its newest token has been tried: with a lease
that is `held`, a configuration that the device `refused`, a token that has
`expired`, or `stranded` by a retry that was stopped by mistake.  From rest a
health check brings it back to work (`Resume`). `AgentRenewal` implements it
(`UpkeepSpec`) with `token` read off `cachedToken`, `tried` off `used`, the
token of the last attempt, and the phase off everything else (`Phase`): it is
renewing while any signal is sent or to be sent, any back-off waits or the loop
is at work (`Renewing`), and the lease is held if it is in effect and that of
the current server, and a check of that server runs that nobody has stopped, or
there is no server to fail over to (`Held`, `Checked`).

### AgentDevice

`step` is the position of `renewLease` between the server's answer and its
return; `config` is `dm.config`; `link`, `addrs`, `routes` and `peers` are in the
kernel.  `FindLink` .. `AddRoutes` are `updateDeviceConfig` with its early
returns and logged errors, `SetPeers` the call after it.  `kind` is the kind of
device: a kernel link (`wireguard`), which survives the process, a `tun` device,
which does not, or the `utun` device of Darwin, whose addresses and routes are
set by other calls: `RemoveOldDarwin`, `AddAddressDarwin`, `AddRoutesDarwin`.
`killed` is history: whether a kill has left a link behind since the last reboot.

### TokenStore

`mu`, `pc` and `tok` are the mutex, the position and the token of each thread:
the refresh loop and the handlers of `/` and `/oauth2/callback`.  Tokens are
numbered as the agent receives them.  `Lock`, `ReadToken`, `Redeem`, `OpenFile`,
`WriteFile` are `GetToken` with `saveToken`; `ExchangeToken` joins at `OpenFile`
without the mutex, as the code does.  A refresh can fail because the provider
does not answer, or after the provider has used the refresh token up, when its
answer is lost. `settled` and `orphaned` are history: tokens that reached the
devices, and used-up tokens that stay in the file because their successor was
lost, with an answer, a save or a process.

### TunDevice

`run[d]` is the goroutine of `run`, `accept[d]` the one it starts, `stop[d]` and
`stopped[d]` the channels (nil, open or closed), `open[d]` what is still open,
`stopping` the position of `Stop` on device `cur`.  `early` is history: devices
on which `Stop` was called before both channels were made.

## 3. What TLC checks

Runs that pass:

| Run | Properties | What it shows |
|---|---|---|
| `LeaseSafety` | `TypeOK` `UniqueAddresses` `PromisesKept` `PromisesDistinct` `DeviceTracksRecords` `FileTracksRecords` `PoolSpec` | two handlers, one address for two users, kills, reboots, cut saves, a leases file that does not open and two failing calls: addresses are unique, granted leases honoured across the restarts that find them and apart from each other even while the server is down, device and file agree with the table when nobody is about to update them, the abstract pool implemented |
| `LeaseRevocation` | `DeviceTracksRecords` `AddressStable` `UnleasedPeersRevoked` | key changes, a shared key and a failing call: an unexpired lease keeps its address, and a peer without a lease leaves the device unless the update for it fails |
| `LeaseExchange` | `ExchangeTypeOK` `ClientHasPeer` `ClientLeaseSaved` `LeasesTakeEffect` | an agent that gives up, is restarted with a new key and asks again, against a server that stops, is killed, starts and has one failing call: an answered agent has its peer and its line in the leases file, and a lease answered before its device update takes effect in the end |
| `ServerProcess` | `TypeOK` `CleanAfterStop` `ServingDeviceReady` `IdentityStable` `GrantsConfirmed` `OnlyPrivateRoutes` `ServerComesUp` | the server started, stopped, killed and rebooted at every step under changing configurations; a start that nothing stands in the way of is completed, from the wait for the link to the last discovery |
| `Renewal` | `TypeOK` `TokenPickedUp` `RetryPending` `NoPileUp` `LeaseWatched` `UpkeepSpec` `LeaseRecovers` | dropped signals lose no token, retries are not forgotten but by a stale stop, renewals do not multiply, a device at rest has a check that watches its lease, the abstract upkeep is implemented, fail-over and retries lead to a lease in effect of a server that answers, unless the device refused a configuration |
| `Device` | `TypeOK` `DeviceAsOffered` `ManagedUnlessKilled` | any sequence of offers, stops, kills and reboots on the three kinds of device leaves exactly what was offered, while no call fails |
| `TokenRefresh` | `TypeOK` `FileTokenUsable` `RedeemedOnce` `TokensDelivered` | concurrent refreshes, logins, lost answers, failing saves and kills: the token on disk can be refreshed and no token is presented twice, unless its own successor was lost, and every token received reaches the devices |
| `TunStop` | `TypeOK` `StoppedIsClosed` `StopIsMet` `ClosedOnce` `AgentStops` | devices that end by themselves while they are being stopped: both ends meet, and close each channel once |

Runs that end in a counterexample show where the code does something other than
one of its comments says.  Each checks one property, next to the quotation it
formalises:

| Run | Property | What happens |
|---|---|---|
| `LeaseExtension` | `ExtensionNeedsNoUpdate` | after a failed device update a retry with the same key gets a lease and no peer (lease.go:169, 182) |
| `RenewalRetry` | `FailureRetried` | an element left in `stopLeaseBackoff` ends the next retry (devicemanager.go:131, 163) |
| `DeviceSkippedPeer` | `SkippedPeerIsSet` | after a failing `setPeers` the retry finds the offer unchanged and skips the update (devicemanager.go:178, 228) |
| `TokenMutex` | `ReadersSeeWholeFile` | a login writes the file while it is being read (oauth2.go:80, 199) |

The properties that hold excuse cases that the code does not handle, and name
each by a piece of history:

| Property | Excused |
|---|---|
| `PromisesKept`, `PromisesDistinct` | a promise taken back: by a shorter renewal of its own user, by a start that lacks the user's line after a cut save, or that could not open or finish reading the file |
| `FileTracksRecords` | users whose line such a start did not read |
| `DeviceTracksRecords`, `UnleasedPeersRevoked` | the time after a failing update, until one succeeds |
| `ClientHasPeer`, `ClientLeaseSaved` | a promise taken back (`revoked`), a request of an earlier run that came late (`overtaken`), an update that failed or is to come, a line that a cut save lost |
| `LeasesTakeEffect` | the same, and leases that expire first |
| `CleanAfterStop` | what processes with other configurations left |
| `IdentityStable` | servers of another device than `wg0` |
| `ServerComesUp` | a server told to stop, refused configurations, and a link or half a key file that earlier processes left |
| `RetryPending`, `LeaseRecovers` | a retry swallowed by a stale stop |
| `LeaseWatched`, `LeaseRecovers` | a token that has expired, a device that refused a configuration (`unapplied`) |
| `DeviceAsOffered` | a failing call |
| `ManagedUnlessKilled` | a kill |
| `FileTokenUsable`, `RedeemedOnce` | a token whose own successor was lost with an answer, a save or a process |
| `StoppedIsClosed`, `StopIsMet`, `AgentStops` | devices stopped before their goroutine had begun (`early`) |

The models contain more behaviour that a reader of the code may not expect, for
which no property is stated:

* a leases file that exists and does not open at start (no permission, too many
  open files), or that fails while it is read, is taken for an empty or a shorter
  one: the server hands promised addresses out again, and its next save removes
  the lines it has not read (lease.go:76, 84);
* after a failing update in `syncWgRecords` nothing calls `updateWgPeers` again
  until the table changes, so the expired peer stays (lease.go:141);
* when `setPeers` fails, `dm.config` is set already and every retry skips the
  device: an agent with one server, and so without a health check, stays without
  a peer until it is restarted or offered another lease (devicemanager.go:228,
  211);
* a refresh whose answer is lost leaves a used-up token in the file; every later
  `GetToken` presents it again, and the agent needs a login (oauth2.go:153);
* a request with an older token moves a lease's expiry back (lease.go:183);
* a failure after `LinkAdd`, or a kill, leaves a link that refuses every later
  start of the server (`StartRefused`; main.go:115, device.go:259), and on the
  agent leaves the device out of every later start (agent.go:36);
* a key file that a crash cut short refuses every later start of the server
  (device.go:342);
* the rules of a configuration whose process never came to `Stop` stay when the
  configuration changes, and two configurations that share a destination and
  alternate list a rule once more at each start (device.go:249);
* the replies of a server whose device is not `wg0` carry the key of `wg0`, or
  there is none (serve.go:95);
* a request that the agent of an earlier run sent can put its key back after the
  new run was answered; the peer of the new run is gone until it asks again
  (lease.go:187);
* a health check that is stopped before its goroutine runs goes on after it was
  replaced (healthcheck.go:37);
* an address whose removal failed is in the way when it is offered again: adding
  it is an error, so its routes are not set and the agent goes on remembering the
  other configuration, at every renewal (devicemanager_linux.go:41);
* after an update that failed between the old and the new address, an offer equal
  to the old configuration is skipped although it is gone (devicemanager.go:221);
* two threads can pass their tokens on in the wrong order (agent.go:112);
* a token near its expiry whose refresh fails is dropped though it is valid
  (oauth2.go:153), and a visit with a fresh token renews nothing (agent.go:176);
* `TunDevice.Stop` right after `Run` finds no channel and cleans nothing up, or
  receives from a nil channel for ever (device.go:73, 77).

### Bounds

* Leases: two users and two handlers are the fewest that compete; the first, the
  last and the gateway address are reserved.  `LeaseSafety` leaves one address to
  lease, so that the users compete for it and one is turned away;
  `LeaseRevocation` leaves two, so that both users can hold leases at once.
  Clock 0..2 in `LeaseSafety`: a lease can be granted, renewed, expire before and
  after a restart, and meet the boundary "expires now"; 0..1 in
  `LeaseRevocation`, where one expiry is enough.  Two failing calls in
  `LeaseSafety`: a failing save or update and a start that cannot read the file
  after it; one in `LeaseRevocation`, since its properties excuse a failure only
  until the next success.  Two keys, one of
  them presented by both users in `LeaseRevocation`, which has one handler: the
  table changes in one critical section, so a second one adds to liveness only
  what `LeaseSafety` has looked at.
* Exchange: one agent with one restart, hence two keys, one request given up, two
  handlers, so that a request of the first run can be overtaken by one of the
  second, one failing call, and kills and reboots at every step.  The clock is
  0..1: a lease is in force and expires.  Other users are left out of the run, and
  with them what `LeasesTakeEffect` would say of several; the theorems on
  `ClientHasPeer` and `ClientLeaseSaved` cover any number of users, restarts and
  handlers.
* Server process: two exits without `Stop`, so that a start meets what two
  processes have left; two changes of the configuration, since with more of
  them rules pile up without bound; two keys.  The configurations share a rule
  or not, differ in device name and provider, and include an IPv6
  one and one that is refused.
* Renewal: the agent is configured with one of two servers (no health check) or
  with both (fail-over).  Two calls of
  `renewAllLeases`: one in progress and one that interferes with what the first
  left behind.  `NoPileUp` bounds back-off goroutines plus checks by the number
  of calls, so two slots of each are never used up and the bounds
  `Retries` and `Checks` cut nothing off.  Threshold 2 counts up
  and resets; one fault besides outages and expiring tokens.
* Device: five offers that share and change every part of a configuration, two
  failing calls.
* Tokens: three tokens and two logins: a refresh during a login during a refresh.
* Tun: two devices, so that one waits for the other.

Symmetry is declared over handlers, back-off slots and check slots, which no
definition tells apart, and only in runs without liveness properties.

`CHECK_DEADLOCK FALSE` stands in the runs of `AgentRenewal`, `TokenStore` and
`TunDevice`: with the bounded calls and tokens used up the agent waits for ever,
and a stopped agent has ended; and in that of `ServerProcess`: a server whose
configuration is refused stays down until somebody changes it.

### Fairness

* `LeaseManager`: weak fairness of the leaser loop (its ticker fires) and of every
  handler at work (the scheduler runs it).  None for requests, expiry, failures,
  exits and starts.
* `LeaseExchange`: weak fairness of every handler.  None for agents, which may
  never ask or be answered, for the leaser loop and for the life of the server.
* `ServerProcess`: weak fairness of the calls of the start and the stop, and of
  reading the configuration while `service` is "on": the service file says
  `Restart=on-failure`, so a server that ended by an error or a kill is started
  again, one that was told to stop is not, and one that failed too often may not
  be.  None for the link coming up by itself, signals, exits, changes of the
  configuration, requests and the administrator.
* `AgentRenewal`: weak fairness of every goroutine; strong fairness of the two
  branches of `select` and of each choice of a server, since Go picks at random
  among ready channels and `rand.Intn` among servers, and a random choice made
  infinitely often takes every value.  None for outages, expiry and calls of
  `renewAllLeases`.
* `TunDevice`: weak fairness of each `run` and of `Agent.Stop`; none for signals,
  for a device that ends or for its listener.

## 4. What TLAPS proves

All theorems hold for any number of users, handlers, servers, slots, devices,
tokens, addresses and faults, from the assumptions on constants that each module
names.  These say what kind of values the constants have (`ConstantsAssumption`,
`ExchangeAssumption`, `RenewalAssumption`, ...); that of renewal also that there
are finitely many servers, whose number the code compares with one.

| Theorem | Statement | Argument |
|---|---|---|
| `LeaseManagerProofs!TypeCorrect` | `[]TypeOK` | inductive as it stands |
| `AddressesUnique` | `[]UniqueAddresses` | a changed record has the user's own address or a free one (`CreateStep`); a file is a part of the table that was written |
| `DeviceFollows` | `[]DeviceTracksRecords` | a renewal with the same key leaves the wanted peers as they are (`ExtensionWantsTheSame`), every other change makes an update pending |
| `FileFollows` | `[]FileTracksRecords` | `FileInv` extends it to the moments of the start; a line that was not read is in `lost` until the next save |
| `GrantedLeasesHonoured` | `[]PromisesKept` | `PromiseInv`, below |
| `GrantedLeasesApart` | `[]PromisesDistinct` | with a table from its records (`ApartByTable`), without one because nobody is served then (`ApartWithoutTable`) |
| `AddressesStable` | `AddressStable` | from the type invariant, action by action |
| `ImplementsPool` | `Spec => PoolSpec` | each step is a step of `AddressPool` or a stutter |
| `LeaseExchangeProofs!ExchangeImplementsServer` | `ExchangeSpec => Spec` | the steps of agents are requests and replies of the server, or leave it alone; so every theorem above holds in the composition |
| `ExchangeTypeCorrect` | `[]ExchangeTypeOK` | a handler keeps its request until it ends, and the agent hangs up when it does |
| `ClientsHavePeers` | `[]ClientHasPeer` | `KeyInv`, `PeerInv` and `ConfigInv`, below |
| `ClientLeasesSaved` | `[]ClientLeaseSaved` | `ConfigInv` ties the lease to what was promised, `PromiseInv` that to the file |
| `ClientsApart` | agents with leases in force that were not taken back have different addresses, also while the server is down | `ConfigInv` and `GrantedLeasesApart`, which holds in the composition |
| `AddressPoolProofs!PoolExclusive` | the abstract pool never holds two leases of one address or user | inductive |
| `AgentRenewalProofs!RenewalTypeCorrect`, `TokensPickedUp` | `[]TypeOK`, `[]TokenPickedUp` | inductive with a bound on counts |
| `RetriesPending` | `[]RetryPending` | `StopCovered`, below |
| `RenewalsDoNotPileUp` | `[]NoPileUp` | inductive: a renewal takes the place of its signal, a back-off or a health check that of the renewal it follows |
| `LeasesWatched` | `[]LeaseWatched` | `WatchInv`, below |
| `ImplementsUpkeep` | `Spec => UpkeepSpec` | `UpkeepInv`, below |
| `AgentDeviceProofs!DeviceTypeCorrect`, `DeviceManaged` | `[]TypeOK`, `[]ManagedUnlessKilled` | inductive |
| `DeviceFollowsOffers` | `[]DeviceAsOffered` | `StepInv`: what the device has at each step of the update, for the three kinds |
| `ServerProcessProofs!PrivateCheckExact` | `isPrivateCIDR(p) <=> WithinPrivate(p)` for every prefix | the private ranges are aligned to their length, so none begins and ends inside a prefix |
| `TypeCorrect`, `DeviceReady` | `[]TypeOK`, `[]ServingDeviceReady` | `DeviceInv`: what the link has at each step of the start |
| `IdentityKept` | `[]IdentityStable` | `IdentityInv`: the key of every link of the default device is that of the file, which is written once |
| `TokensConfirmed` | `[]GrantsConfirmed` | `TokenInv`: an entry of `servers` names its own issuer |
| `RoutesPrivate` | `[]OnlyPrivateRoutes` | `PrivateInv`, with `PrivateCheckExact` |
| `StopCleans` | `[]CleanAfterStop` | `CleanInv`: as long as one configuration only has left something, its rules are listed at most once and no other device exists |
| `TokenStoreProofs!StoreTypeCorrect`, `TokensReachDevices` | `[]TypeOK`, `[]TokensDelivered` | inductive |
| `FileStaysUsable`, `TokensRedeemedOnce` | `[]FileTokenUsable`, `[]RedeemedOnce` | `Chain`, below |
| `TunDeviceProofs!TunTypeCorrect`, `StopCloses` | `[]TypeOK`, `[]StoppedIsClosed` | `StopInv`: `td.stopped` is closed only by a goroutine that is done |
| `StopsAreMet`, `ChannelsClosedOnce` | `[]StopIsMet`, `[]ClosedOnce` | `MeetInv`, below |

The strengthenings that matter:

* `PromiseInv`.  That no one else has a promised address is not inductive: the
  process may end.  A promise is backed by a record in memory *and* by a line in
  the file, unless that line is `lost`, and the record in the hands of a handler
  that is not `void` is backed in memory from its creation on and in the file
  from the save on.  Between save and reply another handler may save, but only a
  table that still backs it.  A start backs every promise it does not take back.
* `PeerInv` and `ConfigInv`.  `DeviceTracksRecords` speaks of all updates at
  once; with two handlers at work one of them is nearly always pending.
  `PeerInv` says it user by user: the record of a user whose own update is
  neither pending nor failed has its peer on the device, since every update sets
  the peers of the whole table.  It needs `KeyInv`: records have keys of their
  own users, so no two of them compete for a peer.  `ConfigInv` ties the agent
  to the record: what it has configured and is not `revoked` is promised (and so
  backed by `PromiseInv`), and the record in the table and its line in the file
  have the key of the agent, also for an answer that is still on its way.  The
  line is what a restart of the server brings back.
* `StopCovered`.  A retry could be ended by a stop sent for it.  It is then
  covered: the sender of the stop still has its signal to send, or it is in the
  channel, or the loop has taken it, or another back-off waits that the stop was
  not meant for.
* `WatchInv`.  `LeaseWatched` speaks of a device at rest, but the check that
  watches the lease was started by a renewal that is long over, and triggers,
  back-offs and older checks have run since.  `Watched` therefore says of every
  moment, also while back-offs wait, that the lease is held, its server is
  checked though the device refused its configuration, or the token expired,
  unless a call, a signal in a channel or the loop is about to renew it, or the
  last renewal failed: whoever stops a check has a signal to send, a check that
  fires leaves one in the channel, and `LoopKnows` says what the loop has in
  hand between its own steps.
* `UpkeepInv`.  A step that ends the last work in progress is `Rest` only if the
  newest token was tried (`TokenPickedUp`), only a swallowed retry strands the
  device (`RetryPending`), and nothing else but a refused configuration or a
  lapsed token keeps it from being held (`WatchInv`); the bound of `NoPileUp`
  adds that nothing happens to a device without a token.
* `MeetInv`.  `Stop` and `run` end a device from two sides.  What each goroutine
  is going to close is open until it does: `td.stop` until the `Stop` of that
  device, since `Agent.Stop` takes each device once, `td.stopped` until `run` is
  through with its cleanup, which it enters from one of three causes only once.
* `Chain`.  While a refresh is between provider and file its thread holds `mu`,
  a token about to be written is used by nobody else, and a used-up token is in
  the file only while the holder of `mu` has its successor in hand, or as an
  orphan.  Logins write without `mu`, but tokens nobody has seen.

Not provable here and left to TLC: the liveness properties
(`UnleasedPeersRevoked`, `LeasesTakeEffect`, `ServerComesUp`, `LeaseRecovers`,
`AgentStops`), which need fairness and with it ENABLED.  Every other property of
the passing runs, the two refinements included, is proved.

## 5. Modelling decisions

* Time passes in whole units and a token's expiry is one of them; `now` in the
  code is finer, but only comparisons matter.
* A request that is rejected before `addNewPeer` changes nothing and is left
  out.
* `updateWgPeers` that fails leaves the device as it is: `wgctrl` applies one
  netlink message, and the server sets all peers in one call.
* A reboot is an orderly one: what a save has written survives it, though the
  code does not sync the file (lease.go:117).
* A call after `LinkAdd` that fails while the server's device starts leaves the
  same state as a start followed by a kill: `Kill` in `LeaseManager`,
  `ExitWithoutStop` in `ServerProcess`.
* The MTU of the server's device is left out: nothing depends on it.  A `Stop`
  that fails half-way is `ExitWithoutStop` while stopping.
* An introspection that fails, or finds a token inactive, rejects the request
  and changes nothing; `validate` is the one that finds it active.
* SIGTERM while handlers are at work: handlers stop where they are, as the
  process does not wait for them; the leaser loop returns between two scans.
* Data races (a flag or channel read without synchronisation) are interleavings
  of separate reads and writes.
* A provider that rotates refresh tokens is assumed, the case in which losing
  one matters.  A login whose answer is lost issues a token nobody has seen, and
  changes nothing the agent has.
* systemd's limit on starts in quick succession applies to starts that are
  refused; the bounded number of other exits does not reach it.
* Lengths of back-offs are not modelled: a back-off may elapse at any time.
* The OAuth state cookie and the health flag of the status page are left out: no
  other state depends on them.

## 6. Plan

Done, in this order: lease server with its abstract pool and refinement; renewal;
device configuration; tokens; user-space device; the server's process with its
configuration and token validation; Darwin; the exchange of agent and server; the
abstract upkeep of a lease that renewal implements; the theorems of section 4.

Next:

1. `LeaseManager` with a prefix that changes between two starts, and user names
   that the leases file cannot hold.
2. An agent with two servers: one that fails over holds leases of both, and its
   device has one of them.
3. `forAttempt` of backoff.go as a function over a bounded range of attempts.

## 7. Not modelled

* Defaults, durations, the command line and the agent's configuration: parsed
  once at start.
* The status page: output only.
* A crash of the host that loses writes the kernel has not yet put on disk.
* Metrics values; the collector's unsynchronised read is in `Kill`.
* The line format of the leases file, and a change of the configured prefix
  between two starts.
* Back-off durations: a back-off may elapse at any time.
* Floating-point arithmetic and JSON, which TLC does not have.

## 8. Running

```
tlc -workers 2 -config LeaseSafety.cfg MCLeaseManager.tla
tlapm LeaseManagerProofs.tla
```

`LeaseExchange.cfg` goes with `MCLeaseExchange`, the other configurations `Lease*`
with `MCLeaseManager`, `Renewal*` with
`MCAgentRenewal`, `Device*` with `MCAgentDevice`, `Token*` with `MCTokenStore`,
`Tun*` with `MCTunDevice`, `ServerProcess` with `MCServerProcess`.  `LeaseSafety`,
`LeaseExchange` and `Renewal` take one to two minutes, the others seconds.
