--------------------------- MODULE LeaseManager ---------------------------
(***************************************************************************)
(* The lease server of wiresteward: lease.go, newPeerLease of serve.go,    *)
(* setPeers of wireguard.go and the server() life cycle of main.go.        *)
(*                                                                         *)
(* HTTP handlers, one goroutine per request, and the leaser loop share a   *)
(* table of leases.  Every access to the table is a critical section of    *)
(* wgRecordsMutex, but one request is three of them: change the table,     *)
(* configure the WireGuard device, write the leases file.  Each critical   *)
(* section is one action here; handlers, the leaser loop, the clock and    *)
(* process exits interleave between them.                                  *)
(***************************************************************************)
EXTENDS Integers, FiniteSets

CONSTANTS
  Users,         \* user names found in access tokens
  Keys,          \* WireGuard public keys, as the strings agents send
  ParsableKeys,  \* the Keys that wgtypes.ParseKey accepts
  KeysOf,        \* KeysOf[u]: the keys the agents of user u present
  Handlers,      \* goroutines serving /newPeerLease
  First, Last,   \* first and last address of WireguardIPPrefix
  Gateway,       \* the device's own address, WireguardIPPrefix.Addr()
  MaxTime,       \* bound on the clock, and on the expiry of tokens
  MaxFaults,     \* bound on failing calls to the device or to the file
  Crashes,       \* may the process be killed and the host reboot?
  NoLease,       \* "no record"
  NoRequest      \* "no request in service"

Address  == First .. Last
Leasable == Address \ {First, Last, Gateway}
Time     == 0 .. MaxTime
WGRecord == [PubKey : Keys, IP : Leasable, expires : Time]
Lease    == WGRecord \cup {NoLease}
Request  == [user : Users, PubKey : Keys, expires : Time]
Peer     == [PubKey : Keys, IP : Leasable]

ASSUME ConstantsAssumption ==
  /\ ParsableKeys \subseteq Keys
  /\ KeysOf \in [Users -> SUBSET Keys]
  /\ First \in Nat /\ Last \in Nat /\ Gateway \in Address
  /\ MaxTime \in Nat /\ MaxFaults \in Nat /\ Crashes \in BOOLEAN
  /\ NoLease \notin WGRecord
  /\ NoRequest \notin Request

VARIABLES
  now,         \* the wall clock
  proc,        \* the server process: down, starting, loaded, up
  wgRecords,   \* lm.wgRecords
  pc,          \* pc[h]: what handler h does next
  req,         \* req[h]: the arguments of its addNewPeer
  resp,        \* resp[h]: the record createOrUpdatePeer returned to it
  sync,        \* what the leaser loop does next: idle, update, save
  link,        \* does the WireGuard link exist in the kernel?
  device,      \* its peers with their allowed addresses
  file,        \* the lines of the leases file, by user
  torn,        \* does the file end in a malformed line?
  faults,      \* failing calls so far
  (*************************************************************************)
  (* History, read by properties and never by a guard.                     *)
  (*************************************************************************)
  deviceStale, \* the last updateWgPeers failed
  unsaved,     \* a change of the table was given up before its save
  lost,        \* users whose lease the last save did not write, or the last
               \* start did not read
  promised,    \* promised[u]: the last lease granted by a reply to user u,
               \* until it expires or is taken back
  void         \* handlers whose record a shorter renewal has replaced: what
               \* they still reply is no promise

processVars == <<now, proc, faults>>
handlerVars == <<pc, req, resp, void>>
kernelVars  == <<link, device, deviceStale>>
fileVars    == <<file, torn, lost>>
vars == <<processVars, wgRecords, handlerVars, sync, kernelVars, fileVars,
          unsaved, promised>>

---------------------------------------------------------------------------
(* The lease table. *)

NoLeases      == [u \in Users |-> NoLease]
Leased(recs)  == {u \in Users : recs[u] # NoLease}
Only(recs, S) == [u \in Users |-> IF u \in S THEN recs[u] ELSE NoLease]

(* Mutants of Free: the gateway is not reserved; leases are not removed.   *)
FreeWithGateway(recs) ==
  (Leasable \cup {Gateway}) \ {recs[u].IP : u \in Leased(recs)}
FreeIgnoringLeases(recs) == Leasable

Free(recs) == Leasable \ {recs[u].IP : u \in Leased(recs)}

(* The lowest free address; the empty set where the code indexes an empty  *)
(* list of prefixes.                                                       *)
nextAvailableAddress(recs) ==
  {a \in Free(recs) : \A b \in Free(recs) : a =< b}

(* Mutant: a lease is deleted in its last second. *)
ExpiredAtBoundary(recs) == {u \in Leased(recs) : recs[u].expires =< now}

Expired(recs)      == {u \in Leased(recs) : recs[u].expires < now}
Unexpired(recs, t) == {u \in Leased(recs) : recs[u].expires > t}

(* The peers of the device after a successful setPeers.  A key that two    *)
(* users present is one peer, and which of its addresses survive depends   *)
(* on the iteration order of a Go map.                                     *)
Wanted(recs) ==
  {[PubKey |-> recs[u].PubKey, IP |-> recs[u].IP] :
     u \in {v \in Leased(recs) : recs[v].PubKey \in ParsableKeys}}

(* Mutant: peers that are not wanted any more are not removed. *)
SetPeersKeepingOthers(recs) == {device \cup Wanted(recs)}

setPeers(recs) ==
  {D \in SUBSET Wanted(recs) :
     \A p \in Wanted(recs) : \E d \in D : d.PubKey = p.PubKey}

---------------------------------------------------------------------------
(* The two effects a handler and the leaser loop share. *)

updateWgPeers ==
  /\ device' \in setPeers(wgRecords)
  /\ deviceStale' = FALSE
  /\ UNCHANGED <<link, faults, unsaved>>

updateWgPeersFails ==
  /\ faults < MaxFaults
  /\ faults' = faults + 1
  /\ deviceStale' = TRUE
  /\ unsaved' = TRUE
  /\ UNCHANGED <<link, device>>

saveWgRecords ==
  /\ file' = wgRecords
  /\ torn' = FALSE
  /\ lost' = {}
  /\ unsaved' = FALSE
  /\ UNCHANGED faults

(* A save cut short leaves any of the lines, in no particular order, and   *)
(* possibly a piece of the next one.                                       *)
CutSave ==
  \E S \in SUBSET Leased(wgRecords) :
    /\ file' = Only(wgRecords, S)
    /\ torn' \in (IF S = Leased(wgRecords) THEN {FALSE} ELSE BOOLEAN)
    /\ lost' = Leased(wgRecords) \ S

saveWgRecordsFails ==
  /\ faults < MaxFaults
  /\ faults' = faults + 1
  /\ unsaved' = TRUE
  /\ \/ UNCHANGED fileVars   \* the file does not open
     \/ CutSave              \* a write fails

---------------------------------------------------------------------------
(* A request: newPeerLease, addNewPeer, createOrUpdatePeer.                *)

(* A request with a valid token reaches addNewPeer.  Rejected requests     *)
(* change nothing and are left out.                                        *)
ReceiveRequest(h) ==
  /\ proc = "up" /\ pc[h] = "idle"
  /\ \E u \in Users, e \in now .. MaxTime : \E k \in KeysOf[u] :
       req' = [req EXCEPT ![h] = [user |-> u, PubKey |-> k, expires |-> e]]
  /\ pc' = [pc EXCEPT ![h] = "create"]
  /\ UNCHANGED <<processVars, wgRecords, resp, void, sync, kernelVars,
                 fileVars, unsaved, promised>>

(* Writing the user's record, of address ip, and taking the next step.     *)
PutRecord(h, ip, next) ==
  LET u == req[h].user
      r == [PubKey |-> req[h].PubKey, IP |-> ip, expires |-> req[h].expires]
  IN  /\ wgRecords' = [wgRecords EXCEPT ![u] = r]
      /\ resp' = [resp EXCEPT ![h] = r]
      /\ pc' = [pc EXCEPT ![h] = next]

(* History: the promises made to the users in S are taken back.            *)
TakeBack(S) == promised' = Only(promised, Users \ S)

Holders(u) ==
  {i \in Handlers : pc[i] \in {"update", "save", "reply"} /\ req[i].user = u}

(* History: a renewal that shortens a lease takes back what was promised,  *)
(* and what the handlers that hold an earlier record are about to.         *)
TakeBackIfShorter(h) ==
  LET u == req[h].user
  IN  IF req[h].expires < wgRecords[u].expires
        THEN TakeBack({u}) /\ void' = void \cup Holders(u)
        ELSE UNCHANGED <<promised, void>>

HasRecord(h) == wgRecords[req[h].user] # NoLease
SameKey(h)   == wgRecords[req[h].user].PubKey = req[h].PubKey

CreateVars == <<processVars, req, sync, kernelVars, fileVars, unsaved>>

(* Mutant: an extended lease is not saved. *)
ExtendWithoutSave(h) ==
  /\ pc[h] = "create" /\ HasRecord(h) /\ SameKey(h)
  /\ PutRecord(h, wgRecords[req[h].user].IP, "reply")
  /\ TakeBackIfShorter(h)
  /\ UNCHANGED CreateVars

(* The key is unchanged: only the expiry moves, no device update follows.  *)
ExtendLease(h) ==
  /\ pc[h] = "create" /\ HasRecord(h) /\ SameKey(h)
  /\ PutRecord(h, wgRecords[req[h].user].IP, "save")
  /\ TakeBackIfShorter(h)
  /\ UNCHANGED CreateVars

(* Mutants: a new key is not passed to the device; it gets a new address.  *)
RekeyWithoutUpdate(h) ==
  /\ pc[h] = "create" /\ HasRecord(h) /\ ~SameKey(h)
  /\ PutRecord(h, wgRecords[req[h].user].IP, "save")
  /\ TakeBackIfShorter(h)
  /\ UNCHANGED CreateVars
RekeyMovesAddress(h) ==
  /\ pc[h] = "create" /\ HasRecord(h) /\ ~SameKey(h)
  /\ \E ip \in nextAvailableAddress(wgRecords) : PutRecord(h, ip, "update")
  /\ TakeBackIfShorter(h)
  /\ UNCHANGED CreateVars

(* A new key takes over the user's address.                                *)
RekeyLease(h) ==
  /\ pc[h] = "create" /\ HasRecord(h) /\ ~SameKey(h)
  /\ PutRecord(h, wgRecords[req[h].user].IP, "update")
  /\ TakeBackIfShorter(h)
  /\ UNCHANGED CreateVars

GrantLease(h) ==
  /\ pc[h] = "create" /\ ~HasRecord(h)
  /\ \E ip \in nextAvailableAddress(wgRecords) : PutRecord(h, ip, "update")
  /\ UNCHANGED <<CreateVars, promised, void>>

(* End of a request; lease is the record a successful reply grants.        *)
Finish(h) ==
  /\ pc' = [pc EXCEPT ![h] = "idle"]
  /\ req' = [req EXCEPT ![h] = NoRequest]
  /\ resp' = [resp EXCEPT ![h] = NoLease]
  /\ void' = void \ {h}

(* No address is left: Prefixes()[0] panics, net/http recovers and the     *)
(* deferred Unlock runs.                                                   *)
ExhaustPool(h) ==
  /\ pc[h] = "create" /\ ~HasRecord(h)
  /\ nextAvailableAddress(wgRecords) = {}
  /\ Finish(h)
  /\ UNCHANGED <<processVars, wgRecords, sync, kernelVars, fileVars,
                 unsaved, promised>>

UpdateForRequest(h) ==
  /\ pc[h] = "update"
  /\ \/ /\ updateWgPeers
        /\ pc' = [pc EXCEPT ![h] = "save"]
        /\ UNCHANGED <<req, resp, void>>
     \/ /\ updateWgPeersFails
        /\ Finish(h)
  /\ UNCHANGED <<now, proc, wgRecords, sync, fileVars, promised>>

SaveForRequest(h) ==
  /\ pc[h] = "save"
  /\ \/ /\ saveWgRecords
        /\ pc' = [pc EXCEPT ![h] = "reply"]
        /\ UNCHANGED <<req, resp, void>>
     \/ /\ saveWgRecordsFails
        /\ Finish(h)
  /\ UNCHANGED <<now, proc, wgRecords, sync, kernelVars, promised>>

(* History: does the reply of h add to what was promised?                  *)
Promises(h) ==
  LET u == req[h].user
  IN  /\ h \notin void /\ resp[h].expires > now
      /\ promised[u] # NoLease => promised[u].expires < resp[h].expires

(* The reply reaches the client, or getKeys fails or the client has gone.  *)
Reply(h) ==
  /\ pc[h] = "reply"
  /\ \/ UNCHANGED promised
     \/ /\ Promises(h)
        /\ promised' = [promised EXCEPT ![req[h].user] = resp[h]]
  /\ Finish(h)
  /\ UNCHANGED <<processVars, wgRecords, sync, kernelVars, fileVars,
                 unsaved>>

Handle(h) ==
  \/ ExtendLease(h) \/ RekeyLease(h) \/ GrantLease(h) \/ ExhaustPool(h)
  \/ UpdateForRequest(h) \/ SaveForRequest(h) \/ Reply(h)

---------------------------------------------------------------------------
(* The leaser loop: syncWgRecords.  A scan that finds nothing to delete    *)
(* changes nothing.                                                        *)

(* Mutant: expired records leave the table and the file, not the device.   *)
DeleteWithoutUpdate ==
  /\ proc = "up" /\ sync = "idle"
  /\ Expired(wgRecords) # {}
  /\ wgRecords' = Only(wgRecords, Leased(wgRecords) \ Expired(wgRecords))
  /\ sync' = "save"
  /\ UNCHANGED <<processVars, handlerVars, kernelVars, fileVars, unsaved,
                 promised>>

DeleteExpired ==
  /\ proc = "up" /\ sync = "idle"
  /\ Expired(wgRecords) # {}
  /\ wgRecords' = Only(wgRecords, Leased(wgRecords) \ Expired(wgRecords))
  /\ sync' = "update"
  /\ UNCHANGED <<processVars, handlerVars, kernelVars, fileVars, unsaved,
                 promised>>

UpdateForSync ==
  /\ sync = "update"
  /\ \/ /\ updateWgPeers
        /\ sync' = "save"
     \/ /\ updateWgPeersFails
        /\ sync' = "idle"
  /\ UNCHANGED <<now, proc, wgRecords, handlerVars, fileVars, promised>>

SaveForSync ==
  /\ sync = "save"
  /\ saveWgRecords \/ saveWgRecordsFails
  /\ sync' = "idle"
  /\ UNCHANGED <<now, proc, wgRecords, handlerVars, kernelVars, promised>>

Sync == DeleteExpired \/ UpdateForSync \/ SaveForSync

---------------------------------------------------------------------------
(* The life of the process: server() of main.go, ServerDevice,             *)
(* newFileLeaseManager.                                                    *)

(* The process ends.  Goroutines stop where they are; a save in progress   *)
(* may be cut.                                                             *)
Exit ==
  /\ proc' = "down"
  /\ wgRecords' = NoLeases
  /\ pc' = [h \in Handlers |-> "idle"]
  /\ req' = [h \in Handlers |-> NoRequest]
  /\ resp' = [h \in Handlers |-> NoLease]
  /\ void' = {}
  /\ sync' = "idle"
  /\ deviceStale' = FALSE
  /\ unsaved' = FALSE
  /\ UNCHANGED <<now, promised>>

Saving == sync = "save" \/ \E h \in Handlers : pc[h] = "save"

FileAtExit == UNCHANGED fileVars \/ (Saving /\ CutSave)

(* SIGTERM: the leaser loop returns and the deferred Stop deletes the link.*)
Quit ==
  /\ proc = "up" /\ sync = "idle"
  /\ Exit /\ FileAtExit /\ UNCHANGED faults
  /\ link' = FALSE /\ device' = {}

(* SIGKILL, or a fatal error: the metrics collector iterates wgRecords     *)
(* without the mutex, which the runtime answers by ending the process.     *)
(* The kernel keeps the link.                                              *)
Kill ==
  /\ Crashes /\ proc # "down"
  /\ Exit /\ FileAtExit /\ UNCHANGED faults
  /\ UNCHANGED <<link, device>>

(* An orderly reboot of the host: the files are synced, the links go.      *)
Reboot ==
  /\ Crashes
  /\ Exit /\ FileAtExit /\ UNCHANGED faults
  /\ link' = FALSE /\ device' = {}

(* ServerDevice.Start.                                                     *)
StartDevice ==
  /\ proc = "down" /\ ~link
  /\ proc' = "starting"
  /\ link' = TRUE
  /\ UNCHANGED <<now, faults, wgRecords, handlerVars, sync, device,
                 deviceStale, fileVars, unsaved, promised>>

(* With a link left behind LinkAdd fails and server() exits.               *)
StartRefused ==
  /\ proc = "down" /\ link
  /\ UNCHANGED vars

loadWgRecords ==
  /\ proc = "starting" /\ ~torn
  /\ wgRecords' = Only(file, Unexpired(file, now))
  /\ proc' = "loaded"
  /\ lost' = {} /\ TakeBack(lost)
  /\ UNCHANGED <<now, faults, handlerVars, sync, kernelVars, file, torn,
                 unsaved>>

(* The file does not open, or reading it ends early: the server starts     *)
(* with the lines it has read, none or some, and the others are not missed.*)
LoadPartly ==
  /\ proc = "starting" /\ faults < MaxFaults
  /\ faults' = faults + 1
  /\ \E S \in SUBSET Unexpired(file, now) :
       /\ wgRecords' = Only(file, S)
       /\ lost' = Unexpired(file, now) \ S
       /\ TakeBack(lost \cup lost')
  /\ proc' = "loaded"
  /\ UNCHANGED <<now, handlerVars, sync, kernelVars, file, torn, unsaved>>

(* A malformed line, also one that a read error has cut, is an error:      *)
(* server() calls os.Exit, which skips the deferred Stop.                  *)
LoadFails ==
  /\ proc = "starting"
  /\ \/ torn /\ UNCHANGED faults
     \/ file # NoLeases /\ faults < MaxFaults /\ faults' = faults + 1
  /\ Exit
  /\ UNCHANGED <<link, device, fileVars>>

(* Mutant: the loaded leases are not put on the device. *)
UpNotUpdated ==
  /\ proc = "loaded" /\ proc' = "up"
  /\ UNCHANGED <<now, faults, wgRecords, handlerVars, sync, kernelVars,
                 fileVars, unsaved, promised>>

UpdateLoaded ==
  /\ proc = "loaded"
  /\ \/ /\ updateWgPeers
        /\ proc' = "up"
        /\ UNCHANGED <<now, wgRecords, handlerVars, sync, promised>>
     \/ /\ faults < MaxFaults
        /\ faults' = faults + 1
        /\ Exit
        /\ UNCHANGED <<link, device>>
  /\ UNCHANGED fileVars

Start ==
  StartDevice \/ loadWgRecords \/ LoadPartly \/ LoadFails \/ UpdateLoaded

Tick ==
  /\ now < MaxTime
  /\ now' = now + 1
  /\ promised' = Only(promised, Unexpired(promised, now + 1))
  /\ UNCHANGED <<proc, faults, wgRecords, handlerVars, sync, kernelVars,
                 fileVars, unsaved>>

---------------------------------------------------------------------------
(* A first start: no leases file, no device.                               *)
Init ==
  /\ now = 0 /\ faults = 0 /\ proc = "down"
  /\ wgRecords = NoLeases
  /\ pc = [h \in Handlers |-> "idle"]
  /\ req = [h \in Handlers |-> NoRequest]
  /\ resp = [h \in Handlers |-> NoLease]
  /\ sync = "idle"
  /\ link = FALSE /\ device = {} /\ deviceStale = FALSE
  /\ file = NoLeases /\ torn = FALSE /\ lost = {}
  /\ unsaved = FALSE
  /\ promised = NoLeases /\ void = {}

Next ==
  \/ Tick \/ Quit \/ Kill \/ Reboot \/ Start \/ StartRefused \/ Sync
  \/ \E h \in Handlers : ReceiveRequest(h) \/ Handle(h)

Spec == Init /\ [][Next]_vars

(* The scheduler runs every goroutine and the ticker fires every           *)
(* LeaserSyncInterval.  Nothing makes a client send, a token expire, the   *)
(* process exit or the server start.                                       *)
Fairness == WF_vars(Sync) /\ \A h \in Handlers : WF_vars(Handle(h))

FairSpec == Spec /\ Fairness
---------------------------------------------------------------------------
(* Properties *)

(* Types, and what a handler has at hand at each of its steps: a request   *)
(* from its arrival on, a record from createOrUpdatePeer on.               *)
TypeOK ==
  /\ now \in Nat /\ faults \in Nat
  /\ proc \in {"down", "starting", "loaded", "up"}
  /\ wgRecords \in [Users -> Lease]
  /\ pc \in [Handlers -> {"idle", "create", "update", "save", "reply"}]
  /\ req \in [Handlers -> Request \cup {NoRequest}]
  /\ resp \in [Handlers -> Lease]
  /\ sync \in {"idle", "update", "save"}
  /\ link \in BOOLEAN /\ device \in SUBSET Peer /\ deviceStale \in BOOLEAN
  /\ file \in [Users -> Lease] /\ torn \in BOOLEAN
  /\ lost \in SUBSET Users /\ unsaved \in BOOLEAN
  /\ promised \in [Users -> Lease] /\ void \in SUBSET Handlers
  /\ \A h \in Handlers :
       /\ pc[h] # "idle" => req[h] \in Request
       /\ pc[h] \in {"update", "save", "reply"} => resp[h] \in WGRecord
       /\ h \in void => pc[h] \in {"update", "save", "reply"}

Unique(recs) ==
  \A u, v \in Leased(recs) : recs[u].IP = recs[v].IP => u = v

(* No two users hold the same address, in the table or in the file a       *)
(* restart reads: concurrent requests, expiry and crashes never make       *)
(* nextAvailableAddress hand out an address in use.                        *)
UniqueAddresses == Unique(wgRecords) /\ Unique(file)

UpdatePending == sync = "update" \/ \E h \in Handlers : pc[h] = "update"

(* Once nobody is about to call updateWgPeers and the last call did not    *)
(* fail, the device has a peer for every leased key and no other: every    *)
(* path that changes who may connect leads to a device update, the one     *)
(* path that skips it (needToUpdateWGPeers false) may skip it.             *)
DeviceTracksRecords ==
  (proc = "up" /\ ~UpdatePending /\ ~deviceStale)
    => device \in setPeers(wgRecords)

SavePending ==
  \/ UpdatePending \/ sync = "save"
  \/ \E h \in Handlers : pc[h] = "save"

Covers(lines, recs, S, t) ==
  \A u \in S :
    \/ lines[u] = recs[u]
    \/ recs[u] = NoLease /\ lines[u].expires =< t

(* Once nobody is about to save and no change was abandoned, the leases    *)
(* file has every record of the table, and beyond them only lines that     *)
(* have expired.  Only a start that could not read the file leaves         *)
(* unexpired lines there that the table does not have, until the next save *)
(* removes them.                                                           *)
FileTracksRecords ==
  (proc = "up" /\ ~SavePending /\ ~unsaved)
    => Covers(file, wgRecords, Users \ lost, now)

(* A lease granted to a client is honoured until it expires, across        *)
(* restarts and crashes at any point: nobody else gets the address.  What  *)
(* takes a promise back is a shorter renewal of the same user, and a start *)
(* that does not have the user's line, because the last save was cut or    *)
(* because the file did not open or could not be read to its end.          *)
PromisesKept ==
  \A u \in Leased(promised), v \in Leased(wgRecords) :
    wgRecords[v].IP = promised[u].IP => v = u

(* Two clients never hold granted leases on one address: expiry, late      *)
(* replies, kills and cut saves never give it away, also while no table is *)
(* there to tell.  A client whose lease a start did not find in the file   *)
(* holds none any more; another one may be granted its address.            *)
PromisesDistinct ==
  \A u, v \in Leased(promised) : promised[u].IP = promised[v].IP => u = v

KeepsAddress(u) ==
  (u \in Leased(wgRecords) /\ wgRecords[u].expires >= now /\ proc' = "up")
    => wgRecords'[u] # NoLease /\ wgRecords'[u].IP = wgRecords[u].IP

(* While the process runs a user with an unexpired record keeps it and     *)
(* its address, whatever requests and the leaser loop do.                  *)
AddressStable ==
  [][proc = "up" => \A u \in Users : KeepsAddress(u)]_vars

Justified(p) ==
  \E u \in Leased(wgRecords) :
    /\ wgRecords[u].PubKey = p.PubKey /\ wgRecords[u].IP = p.IP
    /\ wgRecords[u].expires >= now

(* README.md:163, "revoking access for expired address leases": a peer that*)
(* no current lease justifies leaves the device, unless the process ends or*)
(* the update that should remove it fails (syncWgRecords does not retry).  *)
UnleasedPeersRevoked ==
  \A p \in Peer :
    (proc = "up" /\ p \in device /\ ~Justified(p))
      ~> (proc # "up" \/ deviceStale \/ p \notin device \/ Justified(p))

(* lease.go:169-171: when the record already holds the same public key     *)
(* "no interface reconfiguration is required", so the peer is on the       *)
(* device when createOrUpdatePeer says so.                                 *)
ExtensionNeedsNoUpdate ==
  [][\A h \in Handlers :
       (ExtendLease(h) /\ req[h].PubKey \in ParsableKeys)
         => \E p \in device : p.PubKey = req[h].PubKey]_vars

Lines(recs) ==
  {[addr |-> recs[u].IP, user |-> u, until |-> recs[u].expires] :
     u \in Leased(recs)}

Pool == INSTANCE AddressPool WITH
  Addresses <- Leasable, pool <- Lines(wgRecords), saved <- Lines(file),
  running <- (proc \in {"loaded", "up"}), failures <- faults

(* The server implements the abstract pool: an address belongs to at most  *)
(* one user, who keeps it, only expired leases are taken away, a restart   *)
(* brings back every unexpired lease last saved unless reading them fails, *)
(* and a save writes all of them unless it fails or the process ends.      *)
PoolSpec == Pool!Spec
=============================================================================
