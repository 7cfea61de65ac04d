------------------------- MODULE LeaseManagerProofs -------------------------
(***************************************************************************)
(* Safety of the lease server for any sets of users, keys and handlers,    *)
(* any prefix, and any number of faults, kills and reboots.                *)
(***************************************************************************)
EXTENDS LeaseManager, TLAPS

---------------------------------------------------------------------------
(* The helpers on lease tables. *)

(* The table kept by Only is again a table, and is empty outside S. *)
LEMMA OnlyType ==
  ASSUME NEW recs \in [Users -> Lease], NEW S
  PROVE  Only(recs, S) \in [Users -> Lease]
BY DEF Only, Lease

(* The leased users of Only(recs, S) are those of recs that are in S. *)
LEMMA OnlyLeased ==
  ASSUME NEW recs \in [Users -> Lease], NEW S
  PROVE  /\ Leased(Only(recs, S)) = Leased(recs) \cap S
         /\ \A u \in Leased(Only(recs, S)) : Only(recs, S)[u] = recs[u]
BY DEF Only, Leased

(* What nextAvailableAddress returns can be leased and is not in use. *)
LEMMA AvailableIsFree ==
  ASSUME NEW recs \in [Users -> Lease], NEW a \in nextAvailableAddress(recs)
  PROVE  a \in Leasable /\ \A u \in Leased(recs) : recs[u].IP # a
BY DEF nextAvailableAddress, Free

(* A user's record, when there is one, is a WGRecord. *)
LEMMA LeasedRecord ==
  ASSUME NEW recs \in [Users -> Lease], NEW u \in Leased(recs)
  PROVE  recs[u] \in WGRecord
BY DEF Leased, Lease

(* setPeers leaves peers on the device and nothing else. *)
LEMMA SetPeersType ==
  ASSUME NEW recs \in [Users -> Lease]
  PROVE  setPeers(recs) \subseteq SUBSET Peer
<1>1. ASSUME NEW v \in Leased(recs)
      PROVE  [PubKey |-> recs[v].PubKey, IP |-> recs[v].IP] \in Peer
  BY <1>1, LeasedRecord DEF WGRecord, Peer
<1> QED BY <1>1 DEF setPeers, Wanted

---------------------------------------------------------------------------
(* Types.  The first lemmas are about the parts actions share.             *)

LEMMA PutRecordType ==
  ASSUME TypeOK, NEW h \in Handlers, pc[h] = "create",
         NEW ip \in Leasable, NEW next \in {"update", "save"},
         PutRecord(h, ip, next), UNCHANGED req
  PROVE  /\ wgRecords' \in [Users -> Lease]
         /\ resp' \in [Handlers -> Lease]
         /\ pc' \in [Handlers ->
                       {"idle", "create", "update", "save", "reply"}]
         /\ \A i \in Handlers :
              /\ pc'[i] # "idle" => req'[i] \in Request
              /\ pc'[i] \in {"update", "save", "reply"} => resp'[i] \in WGRecord
<1> DEFINE r == [PubKey |-> req[h].PubKey, IP |-> ip,
                 expires |-> req[h].expires]
<1>1. req[h] \in Request
  BY DEF TypeOK
<1>2. r \in WGRecord /\ req[h].user \in Users
  BY <1>1 DEF Request, WGRecord
<1>3. /\ wgRecords' = [wgRecords EXCEPT ![req[h].user] = r]
      /\ resp' = [resp EXCEPT ![h] = r]
      /\ pc' = [pc EXCEPT ![h] = next]
  BY DEF PutRecord
<1> QED BY <1>1, <1>2, <1>3 DEF TypeOK, Lease

LEMMA FinishType ==
  ASSUME TypeOK, NEW h \in Handlers, Finish(h)
  PROVE  /\ pc' \in [Handlers ->
                       {"idle", "create", "update", "save", "reply"}]
         /\ req' \in [Handlers -> Request \cup {NoRequest}]
         /\ resp' \in [Handlers -> Lease]
         /\ void' \in SUBSET Handlers
         /\ \A i \in Handlers :
              /\ pc'[i] # "idle" => req'[i] \in Request
              /\ pc'[i] \in {"update", "save", "reply"} => resp'[i] \in WGRecord
              /\ i \in void' => pc'[i] \in {"update", "save", "reply"}
BY DEF TypeOK, Finish, Lease

LEMMA TakeBackType ==
  ASSUME TypeOK, NEW h \in Handlers, pc[h] = "create", NEW next,
         pc' = [pc EXCEPT ![h] = next],
         TakeBackIfShorter(h) \/ UNCHANGED <<promised, void>>
  PROVE  /\ promised' \in [Users -> Lease] /\ void' \in SUBSET Handlers
         /\ \A i \in Handlers :
              i \in void' => pc'[i] \in {"update", "save", "reply"}
<1>1. promised' \in [Users -> Lease]
  BY OnlyType DEF TypeOK, TakeBackIfShorter, TakeBack
<1>2. void' \in SUBSET void \/ void' = void \cup Holders(req[h].user)
  BY DEF TakeBackIfShorter
<1>3. \A i \in Holders(req[h].user) :
        i \in Handlers /\ pc[i] \in {"update", "save", "reply"}
  BY DEF Holders
<1>4. \A i \in void : i \in Handlers /\ pc[i] \in {"update", "save", "reply"}
  BY DEF TypeOK
<1>5. \A i \in void' : i \in Handlers /\ pc[i] \in {"update", "save", "reply"}
  BY <1>2, <1>3, <1>4
<1>6. \A i \in void' : pc'[i] = pc[i]
  BY <1>5 DEF TypeOK
<1> QED BY <1>1, <1>5, <1>6

LEMMA CutSaveType ==
  ASSUME TypeOK, CutSave
  PROVE  /\ file' \in [Users -> Lease] /\ torn' \in BOOLEAN
         /\ lost' \in SUBSET Users
<1>1. PICK S \in SUBSET Leased(wgRecords) :
        /\ file' = Only(wgRecords, S)
        /\ torn' \in (IF S = Leased(wgRecords) THEN {FALSE} ELSE BOOLEAN)
        /\ lost' = Leased(wgRecords) \ S
  BY DEF CutSave
<1>2. file' \in [Users -> Lease]
  BY <1>1, OnlyType DEF TypeOK
<1>3. torn' \in BOOLEAN
  BY <1>1
<1>4. lost' \in SUBSET Users
  BY <1>1 DEF Leased
<1> QED BY <1>2, <1>3, <1>4

LEMMA ExitType ==
  ASSUME TypeOK, Exit, faults' \in Nat, link' \in BOOLEAN,
         device' \in SUBSET Peer, FileAtExit
  PROVE  TypeOK'
<1>1. /\ file' \in [Users -> Lease] /\ torn' \in BOOLEAN
      /\ lost' \in SUBSET Users
  BY CutSaveType DEF FileAtExit, fileVars, TypeOK
<1>2. wgRecords' \in [Users -> Lease] /\ resp' \in [Handlers -> Lease]
  BY DEF Exit, NoLeases, Lease
<1> QED BY <1>1, <1>2 DEF TypeOK, Exit

LEMMA UpdateType ==
  ASSUME TypeOK, updateWgPeers \/ updateWgPeersFails
  PROVE  /\ faults' \in Nat /\ link' \in BOOLEAN /\ device' \in SUBSET Peer
         /\ deviceStale' \in BOOLEAN /\ unsaved' \in BOOLEAN
<1>1. CASE updateWgPeers
  <2>1. device' \in SUBSET Peer
    BY <1>1, SetPeersType DEF TypeOK, updateWgPeers
  <2> QED BY <1>1, <2>1 DEF TypeOK, updateWgPeers
<1>2. CASE updateWgPeersFails
  BY <1>2 DEF TypeOK, updateWgPeersFails
<1> QED BY <1>1, <1>2

LEMMA SaveType ==
  ASSUME TypeOK, saveWgRecords \/ saveWgRecordsFails
  PROVE  /\ faults' \in Nat /\ unsaved' \in BOOLEAN
         /\ file' \in [Users -> Lease] /\ torn' \in BOOLEAN
         /\ lost' \in SUBSET Users
<1>1. CASE saveWgRecords
  BY <1>1 DEF TypeOK, saveWgRecords
<1>2. CASE saveWgRecordsFails
  <2>1. faults' \in Nat /\ unsaved' \in BOOLEAN
    BY <1>2 DEF TypeOK, saveWgRecordsFails
  <2>2. CASE UNCHANGED fileVars
    BY <2>1, <2>2 DEF TypeOK, fileVars
  <2>3. CASE CutSave
    BY <2>1, <2>3, CutSaveType
  <2> QED BY <1>2, <2>2, <2>3 DEF saveWgRecordsFails
<1> QED BY <1>1, <1>2

(* The steps of one request keep the types. *)
LEMMA HandlerType ==
  ASSUME TypeOK, NEW h \in Handlers, ReceiveRequest(h) \/ Handle(h)
  PROVE  TypeOK'
<1>1. CASE ReceiveRequest(h)
  BY <1>1, ConstantsAssumption
  DEF TypeOK, ReceiveRequest, Request, processVars, kernelVars, fileVars, Time
<1>2. ASSUME pc[h] = "create", HasRecord(h)
      PROVE  req[h].user \in Users /\ wgRecords[req[h].user].IP \in Leasable
  BY <1>2 DEF TypeOK, HasRecord, Request, Lease, WGRecord
<1>3. ASSUME NEW ip \in Leasable, NEW next \in {"update", "save"},
             pc[h] = "create", PutRecord(h, ip, next), UNCHANGED CreateVars,
             TakeBackIfShorter(h) \/ UNCHANGED <<promised, void>>
      PROVE  TypeOK'
  <2>1. pc' = [pc EXCEPT ![h] = next]
    BY <1>3 DEF PutRecord
  <2>2. UNCHANGED <<now, proc, faults, req, sync, link, device, deviceStale,
                    file, torn, lost, unsaved>>
    BY <1>3 DEF CreateVars, processVars, kernelVars, fileVars
  <2>3. /\ wgRecords' \in [Users -> Lease] /\ resp' \in [Handlers -> Lease]
        /\ pc' \in [Handlers ->
                      {"idle", "create", "update", "save", "reply"}]
        /\ \A i \in Handlers :
             /\ pc'[i] # "idle" => req'[i] \in Request
             /\ pc'[i] \in {"update", "save", "reply"} => resp'[i] \in WGRecord
    BY <1>3, <2>2, PutRecordType
  <2>4. /\ promised' \in [Users -> Lease] /\ void' \in SUBSET Handlers
        /\ \A i \in Handlers :
             i \in void' => pc'[i] \in {"update", "save", "reply"}
    BY <1>3, <2>1, TakeBackType
  <2> QED BY <2>2, <2>3, <2>4 DEF TypeOK
<1>4. CASE ExtendLease(h)
  BY <1>2, <1>3, <1>4 DEF ExtendLease
<1>5. CASE RekeyLease(h)
  BY <1>2, <1>3, <1>5 DEF RekeyLease
<1>6. CASE GrantLease(h)
  <2>1. PICK ip \in nextAvailableAddress(wgRecords) :
          PutRecord(h, ip, "update")
    BY <1>6 DEF GrantLease
  <2>2. ip \in Leasable
    BY AvailableIsFree DEF TypeOK
  <2> QED BY <1>3, <1>6, <2>1, <2>2 DEF GrantLease
<1>7. CASE ExhaustPool(h)
  BY <1>7, FinishType
  DEF TypeOK, ExhaustPool, processVars, kernelVars, fileVars
<1>8. CASE UpdateForRequest(h)
  <2>1. updateWgPeers \/ updateWgPeersFails
    BY <1>8 DEF UpdateForRequest
  <2>2. CASE Finish(h)
    BY <1>8, <2>1, <2>2, UpdateType, FinishType
    DEF TypeOK, UpdateForRequest, fileVars
  <2>3. CASE pc' = [pc EXCEPT ![h] = "save"] /\ UNCHANGED <<req, resp, void>>
             /\ pc[h] = "update"
    BY <1>8, <2>1, <2>3, UpdateType
    DEF TypeOK, UpdateForRequest, fileVars
  <2> QED BY <1>8, <2>2, <2>3 DEF UpdateForRequest
<1>9. CASE SaveForRequest(h)
  <2>1. saveWgRecords \/ saveWgRecordsFails
    BY <1>9 DEF SaveForRequest
  <2>2. CASE Finish(h)
    BY <1>9, <2>1, <2>2, SaveType, FinishType
    DEF TypeOK, SaveForRequest, kernelVars
  <2>3. CASE pc' = [pc EXCEPT ![h] = "reply"] /\ UNCHANGED <<req, resp, void>>
             /\ pc[h] = "save"
    BY <1>9, <2>1, <2>3, SaveType
    DEF TypeOK, SaveForRequest, kernelVars
  <2> QED BY <1>9, <2>2, <2>3 DEF SaveForRequest
<1>10. CASE Reply(h)
  <2>1. promised' \in [Users -> Lease]
    BY <1>10 DEF Reply, TypeOK, Lease
  <2> QED BY <1>10, <2>1, FinishType
          DEF TypeOK, Reply, processVars, kernelVars, fileVars
<1> QED BY <1>1, <1>4, <1>5, <1>6, <1>7, <1>8, <1>9, <1>10 DEF Handle

(* The steps of the leaser loop keep the types. *)
LEMMA SyncType ==
  ASSUME TypeOK, Sync
  PROVE  TypeOK'
<1>1. CASE DeleteExpired
  BY <1>1, OnlyType
  DEF TypeOK, DeleteExpired, processVars, handlerVars, kernelVars, fileVars
<1>2. CASE UpdateForSync
  BY <1>2, UpdateType
  DEF TypeOK, UpdateForSync, handlerVars, fileVars
<1>3. CASE SaveForSync
  BY <1>3, SaveType
  DEF TypeOK, SaveForSync, handlerVars, kernelVars
<1> QED BY <1>1, <1>2, <1>3 DEF Sync

(* The life of the process and the clock keep the types. *)
LEMMA LifeType ==
  ASSUME TypeOK, Tick \/ Quit \/ Kill \/ Reboot \/ Start \/ StartRefused
  PROVE  TypeOK'
<1>1. CASE Tick
  BY <1>1, OnlyType
  DEF TypeOK, Tick, handlerVars, kernelVars, fileVars
<1>2. CASE Quit \/ Kill \/ Reboot
  BY <1>2, ExitType DEF TypeOK, Quit, Kill, Reboot
<1>3. CASE StartDevice
  BY <1>3 DEF TypeOK, StartDevice, handlerVars, fileVars
<1>4. CASE StartRefused
  BY <1>4
  DEF TypeOK, StartRefused, vars, processVars, handlerVars, kernelVars,
      fileVars
<1>5. CASE loadWgRecords \/ LoadPartly
  <2>1. promised' \in [Users -> Lease] /\ wgRecords' \in [Users -> Lease]
    BY <1>5, OnlyType DEF loadWgRecords, LoadPartly, TypeOK, TakeBack
  <2>2. faults' \in Nat /\ lost' \in SUBSET Users
    BY <1>5 DEF loadWgRecords, LoadPartly, TypeOK, Unexpired, Leased
  <2> QED BY <1>5, <2>1, <2>2
          DEF TypeOK, loadWgRecords, LoadPartly, handlerVars, kernelVars
<1>6. CASE LoadFails
  BY <1>6, ExitType DEF TypeOK, LoadFails, FileAtExit
<1>7. CASE UpdateLoaded
  <2>1. CASE updateWgPeers /\ proc' = "up"
             /\ UNCHANGED <<now, wgRecords, handlerVars, sync, promised>>
    BY <1>7, <2>1, UpdateType
    DEF TypeOK, UpdateLoaded, handlerVars, fileVars
  <2>2. CASE faults' = faults + 1 /\ Exit /\ UNCHANGED <<link, device>>
    BY <1>7, <2>2, ExitType DEF TypeOK, UpdateLoaded, FileAtExit
  <2> QED BY <1>7, <2>1, <2>2 DEF UpdateLoaded
<1> QED BY <1>1, <1>2, <1>3, <1>4, <1>5, <1>6, <1>7 DEF Start

(* Every reachable state has the declared types, and a handler at work has *)
(* a request and, once createOrUpdatePeer has returned, a record.          *)
THEOREM TypeCorrect == Spec => []TypeOK
<1>1. Init => TypeOK
  <2>1. NoLeases \in [Users -> Lease]
    BY DEF NoLeases, Lease
  <2> SUFFICES ASSUME Init PROVE TypeOK
    OBVIOUS
  <2>2. /\ pc \in [Handlers -> {"idle", "create", "update", "save", "reply"}]
        /\ req \in [Handlers -> Request \cup {NoRequest}]
        /\ resp \in [Handlers -> Lease]
        /\ \A h \in Handlers : pc[h] = "idle"
    BY DEF Init, Lease
  <2>3. device \in SUBSET Peer /\ lost = {} /\ void = {}
    BY DEF Init
  <2>4. link \in BOOLEAN /\ deviceStale \in BOOLEAN /\ torn \in BOOLEAN
        /\ unsaved \in BOOLEAN
    BY DEF Init
  <2> QED BY <2>1, <2>2, <2>3, <2>4 DEF Init, TypeOK
<1>2. TypeOK /\ [Next]_vars => TypeOK'
  <2> SUFFICES ASSUME TypeOK, [Next]_vars PROVE TypeOK'
    OBVIOUS
  <2>1. CASE UNCHANGED vars
    BY <2>1
    DEF TypeOK, vars, processVars, handlerVars, kernelVars, fileVars
  <2> QED BY <2>1, HandlerType, SyncType, LifeType DEF Next
<1> QED BY <1>1, <1>2, PTL DEF Spec

---------------------------------------------------------------------------
(* How one step changes the table and the file, whoever takes it.          *)

(* A save, complete or cut, is the only writer of the file. *)
LEMMA FileStep ==
  ASSUME TypeOK, [Next]_vars
  PROVE  file' = file \/ \E S \in SUBSET Users : file' = Only(wgRecords, S)
<1>1. ASSUME CutSave
      PROVE  \E S \in SUBSET Users : file' = Only(wgRecords, S)
  BY <1>1 DEF CutSave, Leased
<1>2. ASSUME saveWgRecords \/ saveWgRecordsFails
      PROVE  file' = file \/ \E S \in SUBSET Users : file' = Only(wgRecords, S)
  <2>1. CASE saveWgRecords
    <3>1. wgRecords = Only(wgRecords, Users)
      BY DEF TypeOK, Only
    <3> QED BY <2>1, <3>1 DEF saveWgRecords
  <2>2. CASE saveWgRecordsFails
    BY <1>1, <2>2 DEF saveWgRecordsFails, fileVars
  <2> QED BY <1>2, <2>1, <2>2
<1>3. ASSUME FileAtExit
      PROVE  file' = file \/ \E S \in SUBSET Users : file' = Only(wgRecords, S)
  BY <1>1, <1>3 DEF FileAtExit, fileVars
<1>4. ASSUME NEW h \in Handlers, ReceiveRequest(h) \/ Handle(h)
      PROVE  file' = file \/ \E S \in SUBSET Users : file' = Only(wgRecords, S)
  BY <1>2, <1>4
  DEF Handle, ReceiveRequest, ExtendLease, RekeyLease, GrantLease, CreateVars,
      ExhaustPool, UpdateForRequest, SaveForRequest, Reply, fileVars
<1>5. ASSUME Sync
      PROVE  file' = file \/ \E S \in SUBSET Users : file' = Only(wgRecords, S)
  BY <1>2, <1>5
  DEF Sync, DeleteExpired, UpdateForSync, SaveForSync, fileVars
<1>6. ASSUME Tick \/ Start \/ StartRefused \/ UNCHANGED vars
      PROVE  file' = file
  BY <1>6
  DEF Tick, Start, StartDevice, loadWgRecords, LoadPartly, LoadFails,
      UpdateLoaded, StartRefused, vars, fileVars
<1>7. ASSUME Quit \/ Kill \/ Reboot
      PROVE  file' = file \/ \E S \in SUBSET Users : file' = Only(wgRecords, S)
  BY <1>3, <1>7 DEF Quit, Kill, Reboot
<1> QED BY <1>4, <1>5, <1>6, <1>7 DEF Next

(* What createOrUpdatePeer writes: the user's own address, or a free one.  *)
OwnOrFree(h, ip) ==
  /\ pc[h] = "create"
  /\ ip \in Leasable
  /\ IF HasRecord(h) THEN ip = wgRecords[req[h].user].IP
                     ELSE ip \in nextAvailableAddress(wgRecords)

LEMMA CreateStep ==
  ASSUME TypeOK, NEW h \in Handlers,
         ExtendLease(h) \/ RekeyLease(h) \/ GrantLease(h)
  PROVE  \E ip \in Leasable, next \in {"update", "save"} :
           OwnOrFree(h, ip) /\ PutRecord(h, ip, next)
<1>1. ASSUME HasRecord(h), pc[h] = "create"
      PROVE  wgRecords[req[h].user].IP \in Leasable
  BY <1>1 DEF TypeOK, HasRecord, Request, Lease, WGRecord
<1>2. CASE ExtendLease(h) \/ RekeyLease(h)
  BY <1>1, <1>2 DEF ExtendLease, RekeyLease, OwnOrFree
<1>3. CASE GrantLease(h)
  <2>1. PICK ip \in nextAvailableAddress(wgRecords) :
          PutRecord(h, ip, "update")
    BY <1>3 DEF GrantLease
  <2>2. ip \in Leasable
    BY AvailableIsFree DEF TypeOK
  <2> QED BY <1>3, <2>1, <2>2 DEF GrantLease, OwnOrFree
<1> QED BY <1>2, <1>3

(* The table changes by a record put for a request, or by losing records,  *)
(* or it is read from the file.                                            *)
LEMMA TableStep ==
  ASSUME TypeOK, [Next]_vars
  PROVE  \/ wgRecords' = wgRecords
         \/ \E S \in SUBSET Users : wgRecords' = Only(wgRecords, S)
         \/ \E S \in SUBSET Users : wgRecords' = Only(file, S)
         \/ \E h \in Handlers :
              \E ip \in Leasable, next \in {"update", "save"} :
                OwnOrFree(h, ip) /\ PutRecord(h, ip, next)
<1>1. ASSUME Exit
      PROVE  \E S \in SUBSET Users : wgRecords' = Only(wgRecords, S)
  <2>1. Only(wgRecords, {}) = NoLeases
    BY DEF Only, NoLeases
  <2> QED BY <1>1, <2>1 DEF Exit
<1>2. CASE Quit \/ Kill \/ Reboot \/ LoadFails
  BY <1>1, <1>2 DEF Quit, Kill, Reboot, LoadFails
<1>3. CASE UpdateLoaded
  BY <1>1, <1>3 DEF UpdateLoaded
<1>4. CASE loadWgRecords \/ LoadPartly
  BY <1>4 DEF loadWgRecords, LoadPartly, Unexpired, Leased
<1>5. CASE DeleteExpired
  BY <1>5 DEF DeleteExpired, Leased
<1>6. CASE Tick \/ StartDevice \/ StartRefused \/ UpdateForSync \/ SaveForSync
           \/ UNCHANGED vars
  BY <1>6 DEF Tick, StartDevice, StartRefused, UpdateForSync, SaveForSync, vars
<1>7. ASSUME NEW h \in Handlers, ReceiveRequest(h) \/ Handle(h)
      PROVE  \/ wgRecords' = wgRecords
             \/ ExtendLease(h) \/ RekeyLease(h) \/ GrantLease(h)
  BY <1>7
  DEF Handle, ReceiveRequest, ExhaustPool, UpdateForRequest, SaveForRequest,
      Reply
<1>8. CASE \E h \in Handlers : ReceiveRequest(h) \/ Handle(h)
  BY <1>7, <1>8, CreateStep
<1> QED BY <1>2, <1>3, <1>4, <1>5, <1>6, <1>8 DEF Next, Start, Sync

---------------------------------------------------------------------------
(* Addresses.                                                              *)

LEMMA OnlyUnique ==
  ASSUME NEW recs \in [Users -> Lease], Unique(recs), NEW S
  PROVE  Unique(Only(recs, S))
BY OnlyLeased DEF Unique

LEMMA PutUnique ==
  ASSUME TypeOK, Unique(wgRecords), NEW h \in Handlers, NEW ip, NEW next,
         OwnOrFree(h, ip), PutRecord(h, ip, next)
  PROVE  Unique(wgRecords')
<1> DEFINE u == req[h].user
           r == [PubKey |-> req[h].PubKey, IP |-> ip,
                 expires |-> req[h].expires]
<1>1. u \in Users /\ wgRecords' = [wgRecords EXCEPT ![u] = r]
  BY DEF OwnOrFree, TypeOK, Request, PutRecord
<1>2. \A v \in Leased(wgRecords) : wgRecords[v].IP = ip => v = u
  <2>1. CASE HasRecord(h)
    BY <1>1, <2>1 DEF OwnOrFree, HasRecord, Unique, Leased
  <2>2. CASE ~HasRecord(h)
    BY <2>2, AvailableIsFree DEF OwnOrFree, TypeOK
  <2> QED BY <2>1, <2>2
<1>3. /\ wgRecords'[u].IP = ip
      /\ \A v \in Leased(wgRecords') \ {u} :
           v \in Leased(wgRecords) /\ wgRecords'[v] = wgRecords[v]
  BY <1>1 DEF TypeOK, Leased
<1> QED BY <1>2, <1>3 DEF Unique

(* No address is ever held by two users, in memory or in the file, however *)
(* requests, expiry, failures and crashes interleave.                      *)
THEOREM AddressesUnique == Spec => []UniqueAddresses
<1>1. Init => UniqueAddresses
  BY DEF Init, NoLeases, UniqueAddresses, Unique, Leased
<1>2. TypeOK /\ UniqueAddresses /\ [Next]_vars => UniqueAddresses'
  <2> SUFFICES ASSUME TypeOK, UniqueAddresses, [Next]_vars
               PROVE  UniqueAddresses'
    OBVIOUS
  <2>1. Unique(file')
    BY FileStep, OnlyUnique DEF TypeOK, UniqueAddresses
  <2>2. Unique(wgRecords')
    BY TableStep, OnlyUnique, PutUnique DEF TypeOK, UniqueAddresses
  <2> QED BY <2>1, <2>2 DEF UniqueAddresses, Unique, Leased
<1> QED BY <1>1, <1>2, TypeCorrect, PTL DEF Spec
---------------------------------------------------------------------------
(* The device.                                                             *)

(* A renewal with the key on record wants the same peers on the device.    *)
LEMMA ExtensionWantsTheSame ==
  ASSUME TypeOK, NEW h \in Handlers, ExtendLease(h)
  PROVE  Wanted(wgRecords') = Wanted(wgRecords)
<1> DEFINE u == req[h].user
           r == [PubKey |-> req[h].PubKey, IP |-> wgRecords[u].IP,
                 expires |-> req[h].expires]
<1>1. /\ u \in Users /\ u \in Leased(wgRecords)
      /\ wgRecords' = [wgRecords EXCEPT ![u] = r]
      /\ wgRecords[u].PubKey = r.PubKey
  BY DEF ExtendLease, HasRecord, SameKey, Leased, TypeOK, Request, PutRecord
<1>2. r # NoLease
  BY <1>1, LeasedRecord, ConstantsAssumption
  DEF TypeOK, ExtendLease, Request, WGRecord
<1>3. Leased(wgRecords') = Leased(wgRecords)
  BY <1>1, <1>2 DEF TypeOK, Leased
<1>4. \A v \in Users : /\ wgRecords'[v].PubKey = wgRecords[v].PubKey
                       /\ wgRecords'[v].IP = wgRecords[v].IP
  BY <1>1 DEF TypeOK
<1> QED BY <1>3, <1>4 DEF Wanted, Leased

(* When no update is pending and the last one did not fail, the device has *)
(* exactly the leased keys: skipping updateWgPeers on a renewal is right.  *)
THEOREM DeviceFollows == Spec => []DeviceTracksRecords
<1>1. Init => DeviceTracksRecords
  BY DEF Init, DeviceTracksRecords
<1>2. TypeOK /\ DeviceTracksRecords /\ [Next]_vars => DeviceTracksRecords'
  <2> SUFFICES ASSUME TypeOK, DeviceTracksRecords, [Next]_vars,
                      proc' = "up", ~UpdatePending', ~deviceStale'
               PROVE  device' \in setPeers(wgRecords')
    BY DEF DeviceTracksRecords, setPeers, Wanted, Leased
  <2>1. ASSUME updateWgPeers, UNCHANGED wgRecords
        PROVE  device' \in setPeers(wgRecords')
    BY <2>1 DEF updateWgPeers
  <2>2. ASSUME proc = "up", ~UpdatePending, UNCHANGED <<kernelVars, wgRecords>>
        PROVE  device' \in setPeers(wgRecords')
    BY <2>2 DEF DeviceTracksRecords, kernelVars
  <2>3. ASSUME NEW h \in Handlers, pc' = [pc EXCEPT ![h] = "update"]
        PROVE  FALSE
    BY <2>3 DEF TypeOK, UpdatePending
  <2>4. ASSUME NEW h \in Handlers, pc[h] # "update", NEW next,
               pc' = [pc EXCEPT ![h] = next], UNCHANGED sync
        PROVE  ~UpdatePending
    BY <2>4 DEF TypeOK, UpdatePending
  <2>5. ASSUME NEW h \in Handlers, ExtendLease(h)
        PROVE  device' \in setPeers(wgRecords')
    <3>1. Wanted(wgRecords') = Wanted(wgRecords)
      BY <2>5, ExtensionWantsTheSame
    <3>2. ~UpdatePending
      BY <2>4, <2>5 DEF ExtendLease, PutRecord, CreateVars
    <3>3. proc = "up" /\ UNCHANGED kernelVars
      BY <2>5 DEF ExtendLease, CreateVars, processVars
    <3> QED BY <3>1, <3>2, <3>3 DEF DeviceTracksRecords, kernelVars, setPeers
  <2>6. ASSUME NEW h \in Handlers, RekeyLease(h) \/ GrantLease(h)
        PROVE  FALSE
    BY <2>3, <2>6 DEF RekeyLease, GrantLease, PutRecord
  <2>7. ASSUME NEW h \in Handlers,
               ReceiveRequest(h) \/ ExhaustPool(h) \/ SaveForRequest(h)
               \/ Reply(h)
        PROVE  device' \in setPeers(wgRecords')
    <3>1. UNCHANGED <<proc, kernelVars, wgRecords, sync>>
      BY <2>7
      DEF ReceiveRequest, ExhaustPool, SaveForRequest, Reply, processVars
    <3>2. pc[h] # "update" /\ \E next : pc' = [pc EXCEPT ![h] = next]
      BY <2>7
      DEF ReceiveRequest, ExhaustPool, SaveForRequest, Reply, Finish
    <3> QED BY <2>2, <2>4, <3>1, <3>2
  <2>8. ASSUME NEW h \in Handlers, UpdateForRequest(h)
        PROVE  device' \in setPeers(wgRecords')
    BY <2>1, <2>8 DEF UpdateForRequest, updateWgPeersFails
  <2>9. ASSUME Sync
        PROVE  device' \in setPeers(wgRecords')
    <3>1. CASE DeleteExpired
      BY <3>1 DEF DeleteExpired, UpdatePending
    <3>2. CASE UpdateForSync
      BY <2>1, <3>2 DEF UpdateForSync, updateWgPeersFails
    <3>3. CASE SaveForSync
      BY <2>2, <3>3 DEF SaveForSync, UpdatePending, handlerVars
    <3> QED BY <2>9, <3>1, <3>2, <3>3 DEF Sync
  <2>10. CASE UpdateLoaded
    BY <2>1, <2>10 DEF UpdateLoaded, Exit
  <2>11. CASE Quit \/ Kill \/ Reboot \/ StartDevice \/ loadWgRecords
              \/ LoadPartly \/ LoadFails
    BY <2>11
    DEF Quit, Kill, Reboot, StartDevice, loadWgRecords, LoadPartly, LoadFails,
        Exit
  <2>12. CASE Tick \/ StartRefused \/ UNCHANGED vars
    <3>1. UNCHANGED <<proc, kernelVars, wgRecords, sync, pc>>
      BY <2>12
      DEF Tick, StartRefused, vars, processVars, kernelVars, handlerVars
    <3> QED BY <2>2, <3>1 DEF UpdatePending
  <2> QED BY <2>5, <2>6, <2>7, <2>8, <2>9, <2>10, <2>11, <2>12
          DEF Next, Handle, Start
<1> QED BY <1>1, <1>2, TypeCorrect, PTL DEF Spec
---------------------------------------------------------------------------
(* The file.                                                               *)

(* FileTracksRecords speaks of a server that is up; what makes it true     *)
(* there already holds between loadWgRecords and the first update.         *)
FileInv ==
  (proc \in {"loaded", "up"} /\ ~SavePending /\ ~unsaved)
    => Covers(file, wgRecords, Users \ lost, now)

LEMMA CoversOwn ==
  ASSUME NEW recs, NEW S, NEW t
  PROVE  Covers(recs, recs, S, t)
BY DEF Covers

(* The table read from the file leaves out expired lines, and lines that   *)
(* were not read.                                                          *)
LEMMA CoversLoaded ==
  ASSUME TypeOK, NEW S \in SUBSET Unexpired(file, now)
  PROVE  Covers(file, Only(file, S), Users \ (Unexpired(file, now) \ S), now)
<1>1. ASSUME NEW u \in Users, u \in Leased(file), u \notin Unexpired(file, now)
      PROVE  file[u].expires =< now
  BY <1>1, LeasedRecord DEF TypeOK, Unexpired, WGRecord, Time
<1>2. ASSUME NEW u \in Users, u \notin Unexpired(file, now) \ S
      PROVE  \/ file[u] = Only(file, S)[u]
             \/ Only(file, S)[u] = NoLease /\ file[u].expires =< now
  BY <1>1, <1>2 DEF Only, Leased
<1> QED BY <1>2 DEF Covers

LEMMA CoversLater ==
  ASSUME TypeOK, Covers(file, wgRecords, Users \ lost, now)
  PROVE  Covers(file, wgRecords, Users \ lost, now + 1)
<1>1. ASSUME NEW u \in Users \ lost, file[u] # wgRecords[u]
      PROVE  wgRecords[u] = NoLease /\ file[u].expires =< now
             /\ file[u].expires \in Nat
  <2>1. wgRecords[u] = NoLease /\ file[u].expires =< now
    BY <1>1 DEF Covers
  <2>2. file[u] \in WGRecord
    BY <1>1, <2>1 DEF TypeOK, Lease
  <2> QED BY <2>1, <2>2 DEF WGRecord, Time
<1> QED BY <1>1 DEF Covers, TypeOK

(* When no save is pending and no change was abandoned, a restart finds    *)
(* every record of the table in the file, and no unexpired line besides,   *)
(* except those that the last start could not read.                        *)
THEOREM FileFollows == Spec => []FileTracksRecords
<1>1. Init => FileInv
  BY DEF Init, FileInv
<1>2. TypeOK /\ FileInv /\ [Next]_vars => FileInv'
  <2> SUFFICES ASSUME TypeOK, FileInv, [Next]_vars,
                      proc' \in {"loaded", "up"}, ~SavePending', ~unsaved'
               PROVE  Covers(file', wgRecords', Users \ lost', now')
    BY DEF FileInv, Covers
  <2>1. ASSUME saveWgRecords, UNCHANGED wgRecords
        PROVE  Covers(file', wgRecords', Users \ lost', now')
    BY <2>1, CoversOwn DEF saveWgRecords
  <2>2. ASSUME proc \in {"loaded", "up"}, ~SavePending,
               UNCHANGED <<now, unsaved, fileVars, wgRecords>>
        PROVE  Covers(file', wgRecords', Users \ lost', now')
    BY <2>2 DEF FileInv, fileVars
  <2>3. ASSUME NEW h \in Handlers, NEW next \in {"update", "save"},
               pc' = [pc EXCEPT ![h] = next]
        PROVE  FALSE
    BY <2>3 DEF TypeOK, SavePending, UpdatePending
  <2>4. ASSUME NEW h \in Handlers, pc[h] \notin {"update", "save"}, NEW next,
               pc' = [pc EXCEPT ![h] = next], UNCHANGED sync
        PROVE  ~SavePending
    BY <2>4 DEF TypeOK, SavePending, UpdatePending
  <2>5. ASSUME NEW h \in Handlers,
               ExtendLease(h) \/ RekeyLease(h) \/ GrantLease(h)
        PROVE  FALSE
    BY <2>3, <2>5 DEF ExtendLease, RekeyLease, GrantLease, PutRecord
  <2>6. ASSUME NEW h \in Handlers,
               ReceiveRequest(h) \/ ExhaustPool(h) \/ Reply(h)
        PROVE  Covers(file', wgRecords', Users \ lost', now')
    <3>1. UNCHANGED <<now, proc, unsaved, fileVars, wgRecords, sync>>
      BY <2>6 DEF ReceiveRequest, ExhaustPool, Reply, processVars
    <3>2. pc[h] \notin {"update", "save"}
          /\ \E next : pc' = [pc EXCEPT ![h] = next]
      BY <2>6 DEF ReceiveRequest, ExhaustPool, Reply, Finish
    <3> QED BY <2>2, <2>4, <3>1, <3>2
  <2>7. ASSUME NEW h \in Handlers, UpdateForRequest(h)
        PROVE  FALSE
    BY <2>3, <2>7 DEF UpdateForRequest, updateWgPeersFails
  <2>8. ASSUME NEW h \in Handlers, SaveForRequest(h)
        PROVE  Covers(file', wgRecords', Users \ lost', now')
    BY <2>1, <2>8 DEF SaveForRequest, saveWgRecordsFails
  <2>9. ASSUME Sync
        PROVE  Covers(file', wgRecords', Users \ lost', now')
    <3>1. CASE DeleteExpired
      BY <3>1 DEF DeleteExpired, SavePending, UpdatePending
    <3>2. CASE UpdateForSync
      BY <3>2 DEF UpdateForSync, updateWgPeersFails, SavePending
    <3>3. CASE SaveForSync
      BY <2>1, <3>3 DEF SaveForSync, saveWgRecordsFails
    <3> QED BY <2>9, <3>1, <3>2, <3>3 DEF Sync
  <2>10. CASE UpdateLoaded
    <3>1. updateWgPeers
          /\ UNCHANGED <<now, wgRecords, handlerVars, sync, fileVars>>
      BY <2>10 DEF UpdateLoaded, Exit
    <3>2. ~SavePending
      BY <3>1 DEF SavePending, UpdatePending, handlerVars
    <3> QED BY <2>2, <2>10, <3>1, <3>2 DEF UpdateLoaded, updateWgPeers
  <2>11. CASE loadWgRecords \/ LoadPartly
    <3>1. PICK S \in SUBSET Unexpired(file, now) :
            wgRecords' = Only(file, S) /\ lost' = Unexpired(file, now) \ S
      BY <2>11 DEF loadWgRecords, LoadPartly
    <3>2. UNCHANGED <<file, now>>
      BY <2>11 DEF loadWgRecords, LoadPartly
    <3> QED BY <3>1, <3>2, CoversLoaded
  <2>12. CASE Quit \/ Kill \/ Reboot \/ StartDevice \/ LoadFails
    BY <2>12 DEF Quit, Kill, Reboot, StartDevice, LoadFails, Exit
  <2>13. CASE Tick
    <3>1. UNCHANGED <<proc, unsaved, fileVars, wgRecords, sync, pc>>
      BY <2>13 DEF Tick, handlerVars
    <3>2. Covers(file, wgRecords, Users \ lost, now)
      BY <3>1 DEF FileInv, SavePending, UpdatePending, fileVars
    <3> QED BY <2>13, <3>1, <3>2, CoversLater DEF Tick, fileVars
  <2>14. CASE StartRefused \/ UNCHANGED vars
    <3>1. UNCHANGED <<now, proc, unsaved, fileVars, wgRecords, sync, pc>>
      BY <2>14 DEF StartRefused, vars, processVars, fileVars, handlerVars
    <3> QED BY <2>2, <3>1 DEF SavePending, UpdatePending
  <2> QED BY <2>5, <2>6, <2>7, <2>8, <2>9, <2>10, <2>11, <2>12, <2>13, <2>14
          DEF Next, Handle, Start
<1>3. FileInv => FileTracksRecords
  BY DEF FileInv, FileTracksRecords
<1> QED BY <1>1, <1>2, <1>3, TypeCorrect, PTL DEF Spec
---------------------------------------------------------------------------
(* Promises.  What a client was told must be backed by a record in memory, *)
(* and by a line in the file in case the process ends; so must what a      *)
(* handler is about to tell it.                                            *)

(* Table recs honours lease r of user u at least as long as r lasts.       *)
Backs(recs, u, r) ==
  recs[u] # NoLease /\ recs[u].IP = r.IP /\ recs[u].expires >= r.expires

(* The lease in the hands of handler h may still become a promise.         *)
Live(h) == h \notin void /\ resp[h].expires > now

PromisesCurrent == \A u \in Leased(promised) : promised[u].expires > now

AtWorkOnlyWhenUp ==
  proc # "up" => sync = "idle" /\ \A h \in Handlers : pc[h] = "idle"

EmptyBeforeLoad == proc \in {"down", "starting"} => wgRecords = NoLeases

PromisesInTable ==
  proc \in {"loaded", "up"} =>
    \A u \in Leased(promised) : Backs(wgRecords, u, promised[u])

PromisesInFile ==
  \A u \in Leased(promised) \ lost : Backs(file, u, promised[u])

HeldInTable ==
  \A h \in Handlers : (pc[h] \in {"update", "save", "reply"} /\ Live(h))
    => Backs(wgRecords, req[h].user, resp[h])

HeldInFile ==
  \A h \in Handlers : (pc[h] = "reply" /\ Live(h) /\ req[h].user \notin lost)
    => Backs(file, req[h].user, resp[h])

PromiseInv ==
  /\ PromisesCurrent /\ AtWorkOnlyWhenUp /\ EmptyBeforeLoad
  /\ PromisesInTable /\ PromisesInFile
  /\ HeldInTable /\ HeldInFile

(* What a save leaves in the file: the old lines, or those of the table,   *)
(* except for the users that are lost.                                     *)
LEMMA SaveOutcome ==
  ASSUME TypeOK, saveWgRecords \/ CutSave \/ UNCHANGED fileVars
  PROVE  \/ \A u \in Users \ lost' : file'[u] = wgRecords[u]
         \/ UNCHANGED fileVars
<1>1. CASE CutSave
  <2>1. PICK S \in SUBSET Leased(wgRecords) :
          file' = Only(wgRecords, S) /\ lost' = Leased(wgRecords) \ S
    BY <1>1 DEF CutSave
  <2> QED BY <2>1 DEF Only, Leased
<1> QED BY <1>1 DEF saveWgRecords

(* Only the file changes: everything promised or held stays backed. *)
LEMMA SaveKeepsPromises ==
  ASSUME TypeOK, PromiseInv, proc = "up",
         saveWgRecords \/ CutSave \/ UNCHANGED fileVars
  PROVE  /\ \A u \in Leased(promised) \ lost' : Backs(file', u, promised[u])
         /\ \A h \in Handlers :
              /\ pc[h] = "reply" \/ (pc[h] = "save" /\ file' = wgRecords)
              /\ Live(h) /\ req[h].user \notin lost'
              => Backs(file', req[h].user, resp[h])
<1>1. CASE \A u \in Users \ lost' : file'[u] = wgRecords[u]
  <2>1. \A u \in Leased(promised) \ lost' : Backs(file', u, promised[u])
    BY <1>1 DEF PromiseInv, PromisesInTable, Backs, Leased
  <2>2. ASSUME NEW h \in Handlers, pc[h] \in {"reply", "save"}, Live(h),
               req[h].user \notin lost'
        PROVE  Backs(file', req[h].user, resp[h])
    <3>1. req[h].user \in Users
      BY <2>2 DEF TypeOK, Request
    <3>2. Backs(wgRecords, req[h].user, resp[h])
      BY <2>2 DEF PromiseInv, HeldInTable
    <3> QED BY <1>1, <2>2, <3>1, <3>2 DEF Backs
  <2> QED BY <2>1, <2>2
<1>2. CASE UNCHANGED fileVars
  BY <1>2 DEF PromiseInv, PromisesInFile, HeldInFile, HeldInTable, fileVars
<1> QED BY <1>1, <1>2, SaveOutcome

(* Does the request of h move the expiry of a record back?                 *)
Shortens(h) ==
  HasRecord(h) /\ req[h].expires < wgRecords[req[h].user].expires

(* The record put for a request backs all that is still promised or held:  *)
(* it keeps the address, and moves the expiry back only for a user whose   *)
(* promises are taken back.                                                *)
LEMMA PutKeepsBacking ==
  ASSUME TypeOK, NEW h \in Handlers, NEW ip \in Leasable, NEW next,
         OwnOrFree(h, ip), PutRecord(h, ip, next),
         NEW u \in Users, ~(Shortens(h) /\ u = req[h].user),
         NEW r \in WGRecord, Backs(wgRecords, u, r)
  PROVE  Backs(wgRecords', u, r)
<1> DEFINE new == [PubKey |-> req[h].PubKey, IP |-> ip,
                   expires |-> req[h].expires]
<1>1. /\ req[h].user \in Users /\ new \in WGRecord
      /\ wgRecords' = [wgRecords EXCEPT ![req[h].user] = new]
  BY DEF OwnOrFree, TypeOK, Request, PutRecord, WGRecord
<1>2. CASE u # req[h].user
  BY <1>1, <1>2 DEF Backs, TypeOK
<1>3. CASE u = req[h].user
  <2>1. HasRecord(h)
    BY <1>3 DEF Backs, HasRecord
  <2>2. ip = wgRecords[u].IP
    BY <1>3, <2>1 DEF OwnOrFree
  <2>3. ~(req[h].expires < wgRecords[u].expires)
    BY <1>3, <2>1 DEF Shortens
  <2>4. wgRecords[u] \in WGRecord
    BY DEF Backs, TypeOK, Lease
  <2>5. wgRecords'[u] = new /\ new # NoLease
    BY <1>1, <1>3, ConstantsAssumption DEF TypeOK
  <2> QED BY <1>1, <1>3, <2>2, <2>3, <2>4, <2>5 DEF Backs, WGRecord, Time
<1> QED BY <1>2, <1>3

(* createOrUpdatePeer keeps the promises. *)
LEMMA CreateKeepsPromises ==
  ASSUME TypeOK, PromiseInv, NEW h \in Handlers,
         ExtendLease(h) \/ RekeyLease(h) \/ GrantLease(h)
  PROVE  PromiseInv'
<1>1. PICK ip \in Leasable, next \in {"update", "save"} :
        OwnOrFree(h, ip) /\ PutRecord(h, ip, next)
  BY CreateStep
<1>2. /\ HasRecord(h) => TakeBackIfShorter(h)
      /\ ~HasRecord(h) => UNCHANGED <<promised, void>>
      /\ UNCHANGED CreateVars
  BY DEF ExtendLease, RekeyLease, GrantLease
<1>3. UNCHANGED <<now, proc, req, sync, file, lost>>
  BY <1>2 DEF CreateVars, processVars, fileVars
<1>4. /\ void \subseteq void'
      /\ Shortens(h) => Holders(req[h].user) \subseteq void'
  BY <1>2 DEF TakeBackIfShorter, Shortens
<1>5. \A u \in Leased(promised') :
        /\ u \in Leased(promised) /\ promised'[u] = promised[u]
        /\ ~(Shortens(h) /\ u = req[h].user)
  BY <1>2
  DEF TakeBackIfShorter, TakeBack, Shortens, Leased, Only, TypeOK
<1>6. /\ pc' = [pc EXCEPT ![h] = next]
      /\ resp' = [resp EXCEPT ![h] = wgRecords'[req[h].user]]
      /\ Backs(wgRecords', req[h].user, resp'[h])
  <2>1. req[h] \in Request
    BY <1>1 DEF OwnOrFree, TypeOK
  <2>2. [PubKey |-> req[h].PubKey, IP |-> ip, expires |-> req[h].expires]
          \in WGRecord
    BY <2>1 DEF Request, WGRecord
  <2> QED BY <1>1, <2>1, <2>2, ConstantsAssumption
          DEF PutRecord, TypeOK, Request, WGRecord, Backs, Time
<1>7. proc = "up" /\ pc[h] = "create"
  BY <1>1 DEF OwnOrFree, PromiseInv, AtWorkOnlyWhenUp
<1>8. PromisesCurrent' /\ AtWorkOnlyWhenUp' /\ EmptyBeforeLoad'
  BY <1>3, <1>5, <1>7
  DEF PromiseInv, PromisesCurrent, AtWorkOnlyWhenUp, EmptyBeforeLoad
<1>9. PromisesInTable'
  <2> SUFFICES ASSUME NEW u \in Leased(promised')
               PROVE  Backs(wgRecords', u, promised'[u])
    BY DEF PromisesInTable
  <2>1. promised[u] \in WGRecord /\ u \in Users
    BY <1>5, LeasedRecord DEF TypeOK, Leased
  <2>2. Backs(wgRecords, u, promised[u])
    BY <1>5, <1>7 DEF PromiseInv, PromisesInTable
  <2> QED BY <1>1, <1>2, <1>5, <2>1, <2>2, PutKeepsBacking
<1>10. PromisesInFile'
  BY <1>3, <1>5 DEF PromiseInv, PromisesInFile
<1>11. ASSUME NEW i \in Handlers, i # h, pc'[i] # "idle"
       PROVE  pc'[i] = pc[i] /\ resp'[i] = resp[i] /\ (Live(i)' => Live(i))
  BY <1>3, <1>4, <1>6, <1>11 DEF TypeOK, Live
<1>12. HeldInTable'
  <2> SUFFICES ASSUME NEW i \in Handlers, Live(i)',
                      pc'[i] \in {"update", "save", "reply"}
               PROVE  Backs(wgRecords', req'[i].user, resp'[i])
    BY DEF HeldInTable
  <2>1. CASE i = h
    BY <1>3, <1>6, <2>1
  <2>2. CASE i # h
    <3>1. pc[i] \in {"update", "save", "reply"} /\ Live(i)
          /\ resp'[i] = resp[i]
      BY <1>11, <2>2
    <3>2. req[i].user \in Users /\ resp[i] \in WGRecord
      BY <3>1 DEF TypeOK, Request
    <3>3. ~(Shortens(h) /\ req[i].user = req[h].user)
      BY <1>4, <3>1 DEF Live, Holders
    <3>4. Backs(wgRecords, req[i].user, resp[i])
      BY <3>1 DEF PromiseInv, HeldInTable
    <3> QED BY <1>1, <1>2, <1>3, <3>1, <3>2, <3>3, <3>4, PutKeepsBacking
  <2> QED BY <2>1, <2>2
<1>13. HeldInFile'
  <2> SUFFICES ASSUME NEW i \in Handlers, Live(i)', pc'[i] = "reply",
                      req[i].user \notin lost
               PROVE  Backs(file, req[i].user, resp'[i])
    BY <1>3 DEF HeldInFile
  <2>1. i # h
    BY <1>6 DEF TypeOK
  <2> QED BY <1>11, <2>1 DEF PromiseInv, HeldInFile
<1> QED BY <1>8, <1>9, <1>10, <1>12, <1>13 DEF PromiseInv

(* A handler moves on or finishes, and neither the table, the file nor the *)
(* promises change.                                                        *)
LEMMA QuietStepKeepsPromises ==
  ASSUME TypeOK, PromiseInv, NEW h \in Handlers, proc = "up",
         UNCHANGED <<now, proc, sync, wgRecords, file, lost, promised>>,
         \/ Finish(h)
         \/ /\ UNCHANGED <<req, resp, void>>
            /\ pc[h] = "update" /\ pc' = [pc EXCEPT ![h] = "save"]
         \/ pc[h] = "idle" /\ pc' = [pc EXCEPT ![h] = "create"]
            /\ UNCHANGED <<resp, void>> /\ \E q : req' = [req EXCEPT ![h] = q]
  PROVE  PromiseInv'
<1>1. /\ PromisesCurrent' /\ AtWorkOnlyWhenUp' /\ EmptyBeforeLoad'
      /\ PromisesInTable' /\ PromisesInFile'
  BY DEF PromiseInv, PromisesCurrent, AtWorkOnlyWhenUp, EmptyBeforeLoad,
         PromisesInTable, PromisesInFile
<1>2. ASSUME NEW i \in Handlers, pc'[i] \in {"update", "save", "reply"}
      PROVE  /\ pc[i] \in {"update", "save", "reply"}
             /\ pc'[i] = "reply" => pc[i] = "reply"
             /\ resp'[i] = resp[i] /\ req'[i] = req[i]
             /\ i \notin void' => i \notin void
  BY <1>2 DEF TypeOK, Finish
<1>3. HeldInTable' /\ HeldInFile'
  BY <1>2 DEF PromiseInv, HeldInTable, HeldInFile, Live
<1> QED BY <1>1, <1>3 DEF PromiseInv

(* Writing the file for a request keeps the promises. *)
LEMMA SaveForRequestKeepsPromises ==
  ASSUME TypeOK, PromiseInv, NEW h \in Handlers, SaveForRequest(h)
  PROVE  PromiseInv'
<1>1. proc = "up" /\ pc[h] = "save"
  BY DEF SaveForRequest, PromiseInv, AtWorkOnlyWhenUp
<1>2. UNCHANGED <<now, proc, sync, wgRecords, promised>>
  BY DEF SaveForRequest
<1>3. saveWgRecords \/ CutSave \/ UNCHANGED fileVars
  BY DEF SaveForRequest, saveWgRecordsFails
<1>4. \/ saveWgRecords /\ pc' = [pc EXCEPT ![h] = "reply"]
         /\ UNCHANGED <<req, resp, void>>
      \/ Finish(h)
  BY DEF SaveForRequest
<1>5. ASSUME NEW i \in Handlers, pc'[i] \in {"update", "save", "reply"}
      PROVE  /\ pc[i] \in {"update", "save", "reply"}
             /\ resp'[i] = resp[i] /\ req'[i] = req[i]
             /\ i \notin void' => i \notin void
             /\ pc'[i] = "reply"
                  => pc[i] = "reply" \/ (pc[i] = "save" /\ file' = wgRecords)
  <2>1. CASE Finish(h)
    BY <1>5, <2>1 DEF TypeOK, Finish
  <2>2. CASE saveWgRecords /\ pc' = [pc EXCEPT ![h] = "reply"]
             /\ UNCHANGED <<req, resp, void>>
    <3>1. file' = wgRecords
      BY <2>2 DEF saveWgRecords
    <3>2. CASE i = h
      BY <1>1, <2>2, <3>1, <3>2
    <3>3. CASE i # h
      BY <1>5, <2>2, <3>3 DEF TypeOK
    <3> QED BY <3>2, <3>3
  <2> QED BY <1>4, <2>1, <2>2
<1>6. /\ PromisesCurrent' /\ AtWorkOnlyWhenUp' /\ EmptyBeforeLoad'
      /\ PromisesInTable' /\ HeldInTable'
  BY <1>1, <1>2, <1>5
  DEF PromiseInv, PromisesCurrent, AtWorkOnlyWhenUp, EmptyBeforeLoad,
      PromisesInTable, HeldInTable, Live
<1>7. PromisesInFile'
  BY <1>1, <1>2, <1>3, SaveKeepsPromises DEF PromisesInFile
<1>8. HeldInFile'
  <2> SUFFICES ASSUME NEW i \in Handlers, pc'[i] = "reply", Live(i)',
                      req'[i].user \notin lost'
               PROVE  Backs(file', req'[i].user, resp'[i])
    BY DEF HeldInFile
  <2>1. Live(i) /\ resp'[i] = resp[i] /\ req'[i] = req[i]
    BY <1>2, <1>5 DEF Live
  <2> QED BY <1>1, <1>3, <1>5, <2>1, SaveKeepsPromises
<1> QED BY <1>6, <1>7, <1>8 DEF PromiseInv

(* The reply adds its lease to the promises; it is backed already. *)
LEMMA ReplyKeepsPromises ==
  ASSUME TypeOK, PromiseInv, NEW h \in Handlers, Reply(h)
  PROVE  PromiseInv'
<1>1. /\ proc = "up" /\ pc[h] = "reply" /\ Finish(h)
      /\ UNCHANGED <<now, proc, sync, wgRecords, file, lost>>
  BY DEF Reply, PromiseInv, AtWorkOnlyWhenUp, processVars, fileVars
<1>2. CASE UNCHANGED promised
  BY <1>1, <1>2, QuietStepKeepsPromises
<1>3. CASE Promises(h)
           /\ promised' = [promised EXCEPT ![req[h].user] = resp[h]]
  <2>1. Live(h) /\ req[h].user \in Users
    BY <1>1, <1>3 DEF Promises, Live, TypeOK, Request
  <2>2. Backs(wgRecords, req[h].user, resp[h])
        /\ (req[h].user \notin lost => Backs(file, req[h].user, resp[h]))
    BY <1>1, <2>1 DEF PromiseInv, HeldInTable, HeldInFile
  <2>3. \A u \in Leased(promised') :
          \/ u = req[h].user /\ promised'[u] = resp[h]
          \/ u \in Leased(promised) /\ promised'[u] = promised[u]
    BY <1>3 DEF Leased, TypeOK
  <2>4. PromisesCurrent' /\ PromisesInTable' /\ PromisesInFile'
    BY <1>1, <2>1, <2>2, <2>3
    DEF PromiseInv, PromisesCurrent, PromisesInTable, PromisesInFile, Live
  <2>5. ASSUME NEW i \in Handlers, pc'[i] # "idle"
        PROVE  /\ pc'[i] = pc[i] /\ resp'[i] = resp[i] /\ req'[i] = req[i]
               /\ i \notin void' => i \notin void
    BY <1>1, <2>5 DEF TypeOK, Finish
  <2>6. /\ AtWorkOnlyWhenUp' /\ EmptyBeforeLoad'
        /\ HeldInTable' /\ HeldInFile'
    BY <1>1, <2>5
    DEF PromiseInv, AtWorkOnlyWhenUp, EmptyBeforeLoad, HeldInTable,
        HeldInFile, Live
  <2> QED BY <2>4, <2>6 DEF PromiseInv
<1> QED BY <1>2, <1>3 DEF Reply

(* The steps of one request keep the promises. *)
LEMMA HandlerKeepsPromises ==
  ASSUME TypeOK, PromiseInv, NEW h \in Handlers, ReceiveRequest(h) \/ Handle(h)
  PROVE  PromiseInv'
<1>1. CASE ReceiveRequest(h)
  <2>1. \E q : req' = [req EXCEPT ![h] = q]
    BY <1>1 DEF ReceiveRequest
  <2>2. /\ proc = "up" /\ pc[h] = "idle" /\ pc' = [pc EXCEPT ![h] = "create"]
        /\ UNCHANGED <<now, proc, sync, wgRecords, file, lost, promised>>
        /\ UNCHANGED <<resp, void>>
    BY <1>1 DEF ReceiveRequest, processVars, fileVars
  <2> QED BY <2>1, <2>2, QuietStepKeepsPromises
<1>2. CASE ExhaustPool(h)
  <2>1. proc = "up"
    BY <1>2 DEF ExhaustPool, PromiseInv, AtWorkOnlyWhenUp
  <2> QED BY <1>2, <2>1, QuietStepKeepsPromises
          DEF ExhaustPool, processVars, fileVars
<1>3. CASE UpdateForRequest(h)
  <2>1. proc = "up"
    BY <1>3 DEF UpdateForRequest, PromiseInv, AtWorkOnlyWhenUp
  <2> QED BY <1>3, <2>1, QuietStepKeepsPromises DEF UpdateForRequest, fileVars
<1> QED BY <1>1, <1>2, <1>3, CreateKeepsPromises, SaveForRequestKeepsPromises,
           ReplyKeepsPromises DEF Handle

(* The leaser loop deletes nothing that still backs a promise. *)
LEMMA SyncKeepsPromises ==
  ASSUME TypeOK, PromiseInv, Sync
  PROVE  PromiseInv'
<1>1. proc = "up" /\ UNCHANGED <<now, proc, pc, req, resp, void, promised>>
  BY DEF Sync, DeleteExpired, UpdateForSync, SaveForSync, processVars,
         handlerVars, PromiseInv, AtWorkOnlyWhenUp
<1>2. PromisesCurrent' /\ AtWorkOnlyWhenUp' /\ EmptyBeforeLoad'
  BY <1>1
  DEF PromiseInv, PromisesCurrent, AtWorkOnlyWhenUp, EmptyBeforeLoad
<1>3. CASE DeleteExpired
  <2>1. /\ wgRecords' = Only(wgRecords, Leased(wgRecords) \ Expired(wgRecords))
        /\ UNCHANGED <<file, lost>>
    BY <1>3 DEF DeleteExpired, fileVars
  <2>2. ASSUME NEW u \in Users, NEW r \in WGRecord, r.expires > now,
               Backs(wgRecords, u, r)
        PROVE  Backs(wgRecords', u, r)
    <3>1. wgRecords[u] \in WGRecord /\ u \in Leased(wgRecords)
      BY <2>2 DEF Backs, TypeOK, Lease, Leased
    <3>2. u \notin Expired(wgRecords)
      BY <2>2, <3>1 DEF Backs, Expired, WGRecord, TypeOK, Time
    <3> QED BY <2>1, <2>2, <3>1, <3>2 DEF Backs, Only
  <2>3. \A u \in Leased(promised) : u \in Users /\ promised[u] \in WGRecord
    BY LeasedRecord DEF TypeOK, Leased
  <2>4. PromisesInTable'
    BY <1>1, <2>2, <2>3 DEF PromiseInv, PromisesInTable, PromisesCurrent
  <2>5. HeldInTable'
    BY <1>1, <2>2 DEF PromiseInv, HeldInTable, Live, TypeOK, Request
  <2>6. PromisesInFile' /\ HeldInFile'
    BY <1>1, <2>1 DEF PromiseInv, PromisesInFile, HeldInFile, Live
  <2> QED BY <1>2, <2>4, <2>5, <2>6 DEF PromiseInv
<1>4. CASE UpdateForSync \/ SaveForSync
  <2>1. UNCHANGED wgRecords
        /\ (saveWgRecords \/ CutSave \/ UNCHANGED fileVars)
    BY <1>4 DEF UpdateForSync, SaveForSync, saveWgRecordsFails
  <2>2. PromisesInTable' /\ HeldInTable'
    BY <1>1, <2>1 DEF PromiseInv, PromisesInTable, HeldInTable, Live
  <2>3. PromisesInFile' /\ HeldInFile'
    BY <1>1, <2>1, SaveKeepsPromises DEF PromisesInFile, HeldInFile, Live
  <2> QED BY <1>2, <2>2, <2>3 DEF PromiseInv
<1> QED BY <1>3, <1>4 DEF Sync

(* When the process ends the file alone has to back the promises. *)
LEMMA ExitKeepsPromises ==
  ASSUME TypeOK, PromiseInv, Exit, FileAtExit
  PROVE  PromiseInv'
<1>1. /\ proc' = "down" /\ wgRecords' = NoLeases /\ sync' = "idle"
      /\ \A h \in Handlers : pc'[h] = "idle"
      /\ UNCHANGED <<now, promised>>
  BY DEF Exit
<1>2. /\ PromisesCurrent' /\ AtWorkOnlyWhenUp' /\ EmptyBeforeLoad'
      /\ PromisesInTable' /\ HeldInTable' /\ HeldInFile'
  BY <1>1
  DEF PromiseInv, PromisesCurrent, AtWorkOnlyWhenUp, EmptyBeforeLoad,
      PromisesInTable, HeldInTable, HeldInFile
<1>3. PromisesInFile'
  <2>1. CASE UNCHANGED fileVars
    BY <1>1, <2>1 DEF PromiseInv, PromisesInFile, fileVars
  <2>2. CASE Saving /\ CutSave
    <3>1. proc = "up"
      BY <2>2 DEF Saving, PromiseInv, AtWorkOnlyWhenUp
    <3> QED BY <1>1, <2>2, <3>1, SaveKeepsPromises DEF PromisesInFile
  <2> QED BY <2>1, <2>2 DEF FileAtExit
<1> QED BY <1>2, <1>3 DEF PromiseInv

(* Loading finds the promises in the file, or takes them back.             *)
LEMMA LoadKeepsPromises ==
  ASSUME TypeOK, PromiseInv, loadWgRecords \/ LoadPartly
  PROVE  PromiseInv'
<1>1. /\ proc = "starting" /\ proc' = "loaded"
      /\ UNCHANGED <<now, pc, req, resp, sync, file>>
  BY DEF loadWgRecords, LoadPartly, handlerVars
<1>2. PICK S \in SUBSET Unexpired(file, now) :
        /\ wgRecords' = Only(file, S)
        /\ lost' = Unexpired(file, now) \ S
        /\ TakeBack(lost \cup lost')
  <2>1. CASE LoadPartly
    BY <2>1 DEF LoadPartly
  <2>2. CASE loadWgRecords
    BY <2>2 DEF loadWgRecords
  <2> QED BY <2>1, <2>2
<1>3. \A h \in Handlers : pc[h] = "idle"
  BY <1>1 DEF PromiseInv, AtWorkOnlyWhenUp
<1>4. AtWorkOnlyWhenUp' /\ EmptyBeforeLoad' /\ HeldInTable' /\ HeldInFile'
  BY <1>1, <1>3
  DEF PromiseInv, AtWorkOnlyWhenUp, EmptyBeforeLoad, HeldInTable, HeldInFile
<1>5. ASSUME NEW u \in Leased(promised')
      PROVE  /\ promised'[u] = promised[u] /\ promised[u].expires > now
             /\ Backs(file, u, promised[u]) /\ Backs(wgRecords', u, promised[u])
  <2>1. /\ u \in Leased(promised) /\ promised'[u] = promised[u]
        /\ u \notin lost /\ u \notin lost'
    BY <1>2 DEF TakeBack, Only, Leased, TypeOK
  <2>2. Backs(file, u, promised[u]) /\ promised[u].expires > now
    BY <2>1 DEF PromiseInv, PromisesInFile, PromisesCurrent
  <2>3. u \in Users /\ promised[u] \in WGRecord /\ file[u] \in WGRecord
    BY <2>1, <2>2, LeasedRecord DEF TypeOK, Leased, Backs, Lease
  <2>4. u \in Unexpired(file, now)
    BY <2>2, <2>3 DEF Unexpired, Leased, Backs, WGRecord, TypeOK, Time
  <2>5. u \in S
    BY <1>2, <2>1, <2>4
  <2> QED BY <1>2, <2>1, <2>2, <2>3, <2>5 DEF Backs, Only
<1>6. PromisesCurrent' /\ PromisesInTable' /\ PromisesInFile'
  BY <1>1, <1>5
  DEF PromiseInv, PromisesCurrent, PromisesInTable, PromisesInFile
<1> QED BY <1>4, <1>6 DEF PromiseInv

(* The passing of time can only end promises. *)
LEMMA TickKeepsPromises ==
  ASSUME TypeOK, PromiseInv, Tick
  PROVE  PromiseInv'
<1>1. /\ now' = now + 1
      /\ promised' = Only(promised, Unexpired(promised, now + 1))
      /\ UNCHANGED <<proc, wgRecords, pc, req, resp, sync, file, lost, void>>
  BY DEF Tick, handlerVars, fileVars
<1>2. \A u \in Leased(promised') : /\ u \in Leased(promised)
                                   /\ promised'[u] = promised[u]
                                   /\ promised[u].expires > now'
  BY <1>1 DEF Leased, Only, Unexpired
<1>3. ASSUME NEW h \in Handlers, pc[h] \in {"update", "save", "reply"}, Live(h)'
      PROVE  Live(h)
  <2>1. resp[h] \in WGRecord
    BY <1>3 DEF TypeOK
  <2> QED BY <1>1, <1>3, <2>1 DEF Live, WGRecord, TypeOK, Time
<1>4. PromisesCurrent' /\ PromisesInTable' /\ PromisesInFile'
  BY <1>1, <1>2
  DEF PromiseInv, PromisesCurrent, PromisesInTable, PromisesInFile
<1>5. AtWorkOnlyWhenUp' /\ EmptyBeforeLoad' /\ HeldInTable' /\ HeldInFile'
  BY <1>1, <1>3
  DEF PromiseInv, AtWorkOnlyWhenUp, EmptyBeforeLoad, HeldInTable, HeldInFile
<1> QED BY <1>4, <1>5 DEF PromiseInv

LEMMA LifeKeepsPromises ==
  ASSUME TypeOK, PromiseInv,
         Tick \/ Quit \/ Kill \/ Reboot \/ Start \/ StartRefused \/ UNCHANGED vars
  PROVE  PromiseInv'
<1>1. CASE Quit \/ Kill \/ Reboot
  BY <1>1, ExitKeepsPromises DEF Quit, Kill, Reboot
<1>2. CASE LoadFails
  BY <1>2, ExitKeepsPromises DEF LoadFails, FileAtExit
<1>3. ASSUME UNCHANGED <<now, wgRecords, pc, req, resp, sync, file, lost,
                         promised, void>>,
             \/ UNCHANGED proc
             \/ proc = "down" /\ proc' = "starting"
             \/ proc = "loaded" /\ proc' = "up"
      PROVE  PromiseInv'
  BY <1>3
  DEF PromiseInv, PromisesCurrent, AtWorkOnlyWhenUp, EmptyBeforeLoad,
      PromisesInTable, PromisesInFile, HeldInTable, HeldInFile, Live
<1>4. CASE StartDevice \/ StartRefused \/ UNCHANGED vars
  BY <1>3, <1>4
  DEF StartDevice, StartRefused, vars, processVars, handlerVars, fileVars
<1>5. CASE UpdateLoaded
  <2>1. CASE Exit
    BY <1>5, <2>1, ExitKeepsPromises DEF UpdateLoaded, FileAtExit
  <2>2. CASE ~Exit
    BY <1>3, <1>5, <2>2 DEF UpdateLoaded, handlerVars, fileVars
  <2> QED BY <2>1, <2>2
<1> QED BY <1>1, <1>2, <1>4, <1>5, LoadKeepsPromises, TickKeepsPromises
        DEF Start

LEMMA PromisesInvariant == Spec => []PromiseInv
<1>1. Init => PromiseInv
  BY DEF Init, NoLeases, PromiseInv, PromisesCurrent, AtWorkOnlyWhenUp,
         EmptyBeforeLoad, PromisesInTable, PromisesInFile, HeldInTable,
         HeldInFile, Leased
<1>2. TypeOK /\ PromiseInv /\ [Next]_vars => PromiseInv'
  BY HandlerKeepsPromises, SyncKeepsPromises, LifeKeepsPromises DEF Next
<1> QED BY <1>1, <1>2, TypeCorrect, PTL DEF Spec

(* A lease granted to a client is honoured until it expires: no other user *)
(* holds its address, across requests, failures, kills and restarts,       *)
(* unless a later request shortened the lease, or a restart did not find   *)
(* its line: the last save was cut short, or the file could not be read.   *)
THEOREM GrantedLeasesHonoured == Spec => []PromisesKept
<1>1. TypeOK /\ PromiseInv /\ UniqueAddresses => PromisesKept
  <2> SUFFICES ASSUME TypeOK, PromiseInv, UniqueAddresses,
                      NEW u \in Leased(promised), NEW v \in Leased(wgRecords),
                      wgRecords[v].IP = promised[u].IP
               PROVE  v = u
    BY DEF PromisesKept
  <2>1. proc \in {"loaded", "up"}
    BY DEF TypeOK, PromiseInv, EmptyBeforeLoad, NoLeases, Leased
  <2>2. Backs(wgRecords, u, promised[u]) /\ u \in Leased(wgRecords)
    BY <2>1 DEF PromiseInv, PromisesInTable, Backs, Leased
  <2> QED BY <2>2 DEF Backs, UniqueAddresses, Unique
<1> QED BY <1>1, TypeCorrect, PromisesInvariant, AddressesUnique, PTL

(* While the server is down no table backs what was promised, and after a  *)
(* cut save the file does not either, so that promises name different      *)
(* addresses is shown step by step.  With a table they do because its      *)
(* records do.                                                             *)
LEMMA ApartByTable ==
  TypeOK /\ PromiseInv /\ UniqueAddresses /\ proc \in {"loaded", "up"}
    => PromisesDistinct
<1> SUFFICES ASSUME TypeOK, PromiseInv, UniqueAddresses,
                    proc \in {"loaded", "up"},
                    NEW u \in Leased(promised), NEW v \in Leased(promised),
                    promised[u].IP = promised[v].IP
             PROVE  u = v
  BY DEF PromisesDistinct
<1>1. Backs(wgRecords, u, promised[u]) /\ Backs(wgRecords, v, promised[v])
  BY DEF PromiseInv, PromisesInTable
<1>2. u \in Leased(wgRecords) /\ v \in Leased(wgRecords)
  BY <1>1 DEF Backs, Leased
<1>3. wgRecords[u].IP = wgRecords[v].IP
  BY <1>1 DEF Backs
<1> QED
  BY <1>2, <1>3 DEF UniqueAddresses, Unique

(* Without one nobody is served, and promises only expire.                 *)
LEMMA ApartWithoutTable ==
  TypeOK /\ PromiseInv /\ PromisesDistinct /\ [Next]_vars
    => PromisesDistinct' \/ proc' \in {"loaded", "up"}
<1> SUFFICES ASSUME TypeOK, PromiseInv, PromisesDistinct, [Next]_vars,
                    proc' \notin {"loaded", "up"}
             PROVE  PromisesDistinct'
  OBVIOUS
<1>1. CASE UNCHANGED promised
  BY <1>1 DEF PromisesDistinct, Leased
<1>2. CASE Tick
  BY <1>2 DEF PromisesDistinct, Tick, Only, Unexpired, Leased
<1>3. ASSUME NEW h \in Handlers, ReceiveRequest(h) \/ Handle(h)
      PROVE  FALSE
  <2>1. UNCHANGED proc
    BY <1>3 DEF Handle, ReceiveRequest, ExtendLease, RekeyLease, GrantLease,
                ExhaustPool, UpdateForRequest, SaveForRequest, Reply,
                CreateVars, processVars
  <2>2. proc = "up"
    BY <1>3 DEF Handle, ReceiveRequest, ExtendLease, RekeyLease, GrantLease,
                ExhaustPool, UpdateForRequest, SaveForRequest, Reply,
                PromiseInv, AtWorkOnlyWhenUp
  <2> QED
    BY <2>1, <2>2
<1>4. CASE \/ Quit \/ Kill \/ Reboot \/ StartDevice \/ LoadFails
           \/ UpdateLoaded \/ StartRefused \/ Sync \/ UNCHANGED vars
  BY <1>1, <1>4
  DEF Quit, Kill, Reboot, Start, StartDevice, LoadFails,
      UpdateLoaded, StartRefused, Exit, vars, Sync,
      DeleteExpired, UpdateForSync, SaveForSync
<1>5. CASE loadWgRecords \/ LoadPartly
  BY <1>5 DEF loadWgRecords, LoadPartly
<1> QED
  BY <1>2, <1>3, <1>4, <1>5 DEF Next, Start

(* Two clients never hold granted leases on one address, even while the    *)
(* server is down and its file is cut, or after a start that lost some of  *)
(* them: their clients hold none any more.                                 *)
THEOREM GrantedLeasesApart == Spec => []PromisesDistinct
<1>1. Init => PromisesDistinct
  BY DEF Init, PromisesDistinct, NoLeases, Leased
<1>2. TypeOK /\ PromiseInv /\ PromisesDistinct /\ [Next]_vars
        => PromisesDistinct' \/ proc' \in {"loaded", "up"}
  BY ApartWithoutTable
<1>3. proc' \in {"loaded", "up"} <=> (proc \in {"loaded", "up"})'
  OBVIOUS
<1> QED
  BY <1>1, <1>2, <1>3, ApartByTable, TypeCorrect, PromisesInvariant,
     AddressesUnique, PTL
  DEF Spec

---------------------------------------------------------------------------
(* While the process runs, an unexpired lease keeps its address.           *)
THEOREM AddressesStable == Spec => AddressStable
<1>1. TypeOK /\ [Next]_vars
        => [proc = "up" => \A u \in Users : KeepsAddress(u)]_vars
  <2> SUFFICES ASSUME TypeOK, [Next]_vars, proc = "up", NEW u \in Users,
                      u \in Leased(wgRecords), wgRecords[u].expires >= now,
                      proc' = "up"
               PROVE  wgRecords'[u] # NoLease
                      /\ wgRecords'[u].IP = wgRecords[u].IP
    BY DEF KeepsAddress
  <2>1. wgRecords[u] \in WGRecord
    BY LeasedRecord DEF TypeOK
  <2>2. CASE wgRecords' = wgRecords
    BY <2>2 DEF Leased
  <2>3. CASE DeleteExpired
    <3>1. u \notin Expired(wgRecords)
      BY <2>1 DEF Expired, WGRecord, Time, TypeOK
    <3> QED BY <2>3, <3>1 DEF DeleteExpired, Only, Leased
  <2>4. ASSUME NEW h \in Handlers,
               ExtendLease(h) \/ RekeyLease(h) \/ GrantLease(h)
        PROVE  wgRecords'[u] # NoLease /\ wgRecords'[u].IP = wgRecords[u].IP
    <3>1. PICK ip \in Leasable, next \in {"update", "save"} :
            OwnOrFree(h, ip) /\ PutRecord(h, ip, next)
      BY <2>4, CreateStep
    <3>2. [PubKey |-> req[h].PubKey, IP |-> ip, expires |-> req[h].expires]
            \in WGRecord
      BY <3>1 DEF OwnOrFree, TypeOK, Request, WGRecord
    <3>3. CASE u = req[h].user
      <4>1. ip = wgRecords[u].IP
        BY <3>1, <3>3 DEF OwnOrFree, HasRecord, Leased
      <4>2. wgRecords'[u] = [PubKey |-> req[h].PubKey, IP |-> ip,
                             expires |-> req[h].expires]
        BY <3>1, <3>3 DEF PutRecord, TypeOK
      <4> QED BY <3>2, <4>1, <4>2, ConstantsAssumption
    <3>4. CASE u # req[h].user
      <4>1. wgRecords'[u] = wgRecords[u]
        BY <3>1, <3>4 DEF PutRecord, TypeOK
      <4> QED BY <4>1 DEF Leased
    <3> QED BY <3>3, <3>4
  <2>5. ASSUME NEW h \in Handlers, ReceiveRequest(h) \/ Handle(h)
        PROVE  \/ wgRecords' = wgRecords
               \/ ExtendLease(h) \/ RekeyLease(h) \/ GrantLease(h)
    BY <2>5
    DEF Handle, ReceiveRequest, ExhaustPool, UpdateForRequest,
        SaveForRequest, Reply
  <2>6. CASE Sync
    BY <2>2, <2>3, <2>6 DEF Sync, UpdateForSync, SaveForSync
  <2>7. CASE Tick \/ Quit \/ Kill \/ Reboot \/ Start \/ StartRefused
    BY <2>2, <2>7
    DEF Tick, Quit, Kill, Reboot, Start, StartDevice, loadWgRecords,
        LoadPartly, LoadFails, UpdateLoaded, StartRefused, Exit
  <2>8. CASE UNCHANGED vars
    BY <2>2, <2>8 DEF vars
  <2> QED BY <2>2, <2>4, <2>5, <2>6, <2>7, <2>8 DEF Next
<1> QED BY <1>1, TypeCorrect, PTL DEF Spec, AddressStable
---------------------------------------------------------------------------
(* The lease server implements AddressPool.  A step of the server is one   *)
(* step of the pool:                                                       *)
(*   createOrUpdatePeer    Assign or Renew                                 *)
(*   the scan for expired  Reclaim                                         *)
(*   a save, whole or cut  Save, or Fail when the file does not open       *)
(*   a failing update      Fail                                            *)
(*   the end of a process  Stop                                            *)
(*   loadWgRecords         Restart, also when the file is not read whole   *)
(* and every other step leaves the pool alone.                             *)

Line(recs, u) ==
  [addr |-> recs[u].IP, user |-> u, until |-> recs[u].expires]

LEMMA LinesByUser ==
  ASSUME NEW recs
  PROVE  Lines(recs) = {Line(recs, u) : u \in Leased(recs)}
BY DEF Lines, Line

LEMMA OnlyLines ==
  ASSUME NEW recs \in [Users -> Lease], NEW S
  PROVE  Lines(Only(recs, S)) = {Line(recs, u) : u \in Leased(recs) \cap S}
<1>1. \A u \in Leased(Only(recs, S)) : Line(Only(recs, S), u) = Line(recs, u)
  BY OnlyLeased DEF Line
<1> QED BY <1>1, OnlyLeased, LinesByUser

LEMMA NoLines == Lines(NoLeases) = {}
BY DEF Lines, NoLeases, Leased

(* Fewer records are fewer lines. *)
LEMMA FewerLines ==
  ASSUME NEW recs \in [Users -> Lease], NEW S
  PROVE  Lines(Only(recs, S)) \in SUBSET Lines(recs)
BY OnlyLines, LinesByUser

LEMMA LinesDiffer ==
  ASSUME NEW recs, NEW u, NEW v, u # v
  PROVE  Line(recs, u) # Line(recs, v)
<1>1. Line(recs, u).user = u /\ Line(recs, v).user = v
  BY DEF Line
<1> QED BY <1>1

(* A record put over the user's own renews its line. *)
LEMMA RenewStep ==
  ASSUME TypeOK, PromiseInv, UniqueAddresses,
         NEW h \in Handlers, HasRecord(h), NEW ip \in Leasable, NEW next,
         OwnOrFree(h, ip), PutRecord(h, ip, next),
         UNCHANGED <<now, proc, file, faults>>
  PROVE  Pool!Renew
<1> DEFINE u == req[h].user
           l == Line(wgRecords, u)
           r == [PubKey |-> req[h].PubKey, IP |-> ip,
                 expires |-> req[h].expires]
<1>1. /\ u \in Users /\ req[h].expires \in Time /\ r \in WGRecord
      /\ wgRecords' = [wgRecords EXCEPT ![u] = r]
      /\ ip = wgRecords[u].IP /\ u \in Leased(wgRecords)
  BY DEF OwnOrFree, TypeOK, Request, PutRecord, HasRecord, Leased, WGRecord
<1>2. Leased(wgRecords') = Leased(wgRecords)
  BY <1>1, ConstantsAssumption DEF Leased, TypeOK
<1>3. /\ Line(wgRecords', u) = [l EXCEPT !.until = req[h].expires]
      /\ \A v \in Leased(wgRecords) \ {u} :
           Line(wgRecords', v) = Line(wgRecords, v)
  BY <1>1 DEF Line, TypeOK, Leased
<1>4. \A v \in Leased(wgRecords) \ {u} : Line(wgRecords, v) # l
  BY LinesDiffer
<1>5. Lines(wgRecords') = (Lines(wgRecords) \ {l})
                            \cup {[l EXCEPT !.until = req[h].expires]}
  <2> DEFINE others == {Line(wgRecords, v) : v \in Leased(wgRecords) \ {u}}
  <2>1. Lines(wgRecords) = others \cup {l} /\ l \notin others
    BY <1>1, <1>4, LinesByUser
  <2>2. Lines(wgRecords') = {Line(wgRecords', v) : v \in Leased(wgRecords)}
    BY <1>2, LinesByUser
  <2>3. {Line(wgRecords', v) : v \in Leased(wgRecords) \ {u}} = others
    BY <1>3
  <2>4. Lines(wgRecords') = others \cup {Line(wgRecords', u)}
    BY <1>1, <2>2, <2>3
  <2>5. Lines(wgRecords) \ {l} = others
    BY <2>1
  <2> QED BY <1>3, <2>4, <2>5
<1>6. l \in Lines(wgRecords)
  BY <1>1, LinesByUser
<1>7. proc = "up"
  BY DEF PromiseInv, AtWorkOnlyWhenUp, OwnOrFree
<1> QED BY <1>1, <1>5, <1>6, <1>7 DEF Pool!Renew, Time

(* A record put where there was none assigns a free address. *)
LEMMA AssignStep ==
  ASSUME TypeOK, PromiseInv,
         NEW h \in Handlers, ~HasRecord(h), NEW ip \in Leasable, NEW next,
         OwnOrFree(h, ip), PutRecord(h, ip, next),
         UNCHANGED <<now, proc, file, faults>>
  PROVE  Pool!Assign
<1> DEFINE u == req[h].user
           l == [addr |-> ip, user |-> u, until |-> req[h].expires]
           r == [PubKey |-> req[h].PubKey, IP |-> ip,
                 expires |-> req[h].expires]
<1>1. /\ u \in Users /\ req[h].expires \in Time /\ r \in WGRecord
      /\ wgRecords' = [wgRecords EXCEPT ![u] = r]
      /\ u \notin Leased(wgRecords)
  BY DEF OwnOrFree, TypeOK, Request, PutRecord, HasRecord, Leased, WGRecord
<1>2. Leased(wgRecords') = Leased(wgRecords) \cup {u}
  BY <1>1, ConstantsAssumption DEF Leased, TypeOK
<1>3. /\ Line(wgRecords', u) = l
      /\ \A v \in Leased(wgRecords) :
           Line(wgRecords', v) = Line(wgRecords, v)
  BY <1>1 DEF Line, TypeOK, Leased
<1>4. Lines(wgRecords') = Lines(wgRecords) \cup {l}
  BY <1>2, <1>3, LinesByUser
<1>5. \A v \in Leased(wgRecords) : wgRecords[v].IP # ip /\ v # u
  BY <1>1, AvailableIsFree DEF OwnOrFree, TypeOK
<1>6. \A m \in Lines(wgRecords) : m.addr # l.addr /\ m.user # l.user
  BY <1>5, LinesByUser DEF Line
<1>7. l \in Pool!PoolLease
  BY <1>1 DEF Pool!PoolLease, Time
<1>8. proc = "up"
  BY DEF PromiseInv, AtWorkOnlyWhenUp, OwnOrFree
<1> QED BY <1>1, <1>4, <1>6, <1>7, <1>8 DEF Pool!Assign

(* The scan reclaims the expired lines and no other. *)
LEMMA ReclaimStep ==
  ASSUME TypeOK, DeleteExpired
  PROVE  Pool!Reclaim
<1>1. \A u \in Leased(wgRecords) :
        u \notin Expired(wgRecords) <=> wgRecords[u].expires >= now
  BY LeasedRecord DEF TypeOK, Expired, WGRecord, Time
<1>2. Lines(wgRecords') =
        {Line(wgRecords, u) : u \in Leased(wgRecords) \ Expired(wgRecords)}
  <2>1. Leased(wgRecords) \cap (Leased(wgRecords) \ Expired(wgRecords))
          = Leased(wgRecords) \ Expired(wgRecords)
    OBVIOUS
  <2> QED BY <2>1, OnlyLines DEF TypeOK, DeleteExpired
<1>3. Lines(wgRecords') = {l \in Lines(wgRecords) : l.until >= now}
  BY <1>1, <1>2, LinesByUser DEF Line
<1> QED BY <1>3 DEF Pool!Reclaim, DeleteExpired, processVars, fileVars

(* A restart brings back the unexpired lines of the file. *)
LEMMA RestartStep ==
  ASSUME TypeOK, PromiseInv, loadWgRecords \/ LoadPartly
  PROVE  Pool!Restart
<1>1. ASSUME NEW S \in SUBSET Unexpired(file, now)
      PROVE  Lines(Only(file, S)) = {Line(file, u) : u \in S}
  <2>1. Leased(file) \cap S = S
    BY DEF Unexpired
  <2> QED BY <2>1, OnlyLines DEF TypeOK
<1>2. {Line(file, u) : u \in Unexpired(file, now)}
        = {l \in Lines(file) : l.until > now}
  BY LinesByUser DEF Line, Unexpired
<1>3. CASE loadWgRecords
  <2>1. Lines(wgRecords') = {l \in Lines(file) : l.until > now}
    BY <1>1, <1>2, <1>3 DEF loadWgRecords
  <2> QED BY <1>3, <2>1 DEF Pool!Restart, Pool!Unexpired, loadWgRecords
<1>4. CASE LoadPartly
  <2>1. PICK S \in SUBSET Unexpired(file, now) : wgRecords' = Only(file, S)
    BY <1>4 DEF LoadPartly
  <2>2. Lines(wgRecords') \in SUBSET {l \in Lines(file) : l.until > now}
    BY <1>1, <1>2, <2>1
  <2> QED BY <1>4, <2>2
          DEF Pool!Restart, Pool!Unexpired, Pool!Failing, LoadPartly
<1> QED BY <1>3, <1>4

(* Writing the file, wholly, in part or not at all. *)
LEMMA SaveStep ==
  ASSUME TypeOK, proc = "up", UNCHANGED <<now, proc, wgRecords>>,
         saveWgRecords \/ saveWgRecordsFails
  PROVE  Pool!Save \/ Pool!Fail
<1>1. CASE saveWgRecords
  BY <1>1 DEF saveWgRecords, Pool!Save
<1>2. CASE saveWgRecordsFails /\ CutSave
  <2>1. Lines(file') \in SUBSET Lines(wgRecords)
    BY <1>2, FewerLines DEF CutSave, TypeOK
  <2> QED BY <1>2, <2>1 DEF saveWgRecordsFails, Pool!Save, Pool!Failing
<1>3. CASE saveWgRecordsFails /\ UNCHANGED fileVars
  BY <1>3 DEF saveWgRecordsFails, fileVars, Pool!Fail, Pool!Failing
<1> QED BY <1>1, <1>2, <1>3 DEF saveWgRecordsFails

(* An update, done or failed, leaves the leases alone. *)
LEMMA UpdateStep ==
  ASSUME updateWgPeers \/ updateWgPeersFails,
         UNCHANGED <<now, wgRecords, file>>,
         proc' \in {"loaded", "up"} <=> proc \in {"loaded", "up"}
  PROVE  Pool!Fail \/ UNCHANGED Pool!poolVars
BY DEF updateWgPeers, updateWgPeersFails, Pool!Fail, Pool!Failing,
       Pool!poolVars

(* However the process ends, the pool stops. *)
LEMMA StopStep ==
  ASSUME TypeOK, Exit,
         \/ FileAtExit /\ UNCHANGED faults
         \/ UNCHANGED file /\ faults' = faults + 1
  PROVE  Pool!Stop
<1>1. Lines(wgRecords') = {} /\ proc' = "down" /\ UNCHANGED now
  BY NoLines DEF Exit
<1>2. \/ file' = file /\ (UNCHANGED faults \/ faults' = faults + 1)
      \/ Lines(file') \in SUBSET Lines(wgRecords) /\ UNCHANGED faults
  BY FewerLines DEF FileAtExit, fileVars, CutSave, TypeOK
<1> QED BY <1>1, <1>2 DEF Pool!Stop, Pool!Failing

LEMMA HandlerStep ==
  ASSUME TypeOK, PromiseInv, UniqueAddresses,
         NEW h \in Handlers, ReceiveRequest(h) \/ Handle(h)
  PROVE  Pool!Next \/ UNCHANGED Pool!poolVars
<1>1. CASE ExtendLease(h) \/ RekeyLease(h) \/ GrantLease(h)
  <2>1. PICK ip \in Leasable, next \in {"update", "save"} :
          OwnOrFree(h, ip) /\ PutRecord(h, ip, next)
    BY <1>1, CreateStep
  <2>2. UNCHANGED <<now, proc, file, faults>>
    BY <1>1
    DEF ExtendLease, RekeyLease, GrantLease, CreateVars, processVars, fileVars
  <2>3. CASE HasRecord(h)
    BY <2>1, <2>2, <2>3, RenewStep DEF Pool!Next
  <2>4. CASE ~HasRecord(h)
    BY <2>1, <2>2, <2>4, AssignStep DEF Pool!Next
  <2> QED BY <2>3, <2>4
<1>2. CASE SaveForRequest(h)
  <2>1. proc = "up"
    BY <1>2 DEF SaveForRequest, PromiseInv, AtWorkOnlyWhenUp
  <2>2. UNCHANGED <<now, proc, wgRecords>>
        /\ (saveWgRecords \/ saveWgRecordsFails)
    BY <1>2 DEF SaveForRequest
  <2> QED BY <2>1, <2>2, SaveStep DEF Pool!Next
<1>3. CASE UpdateForRequest(h)
  BY <1>3, UpdateStep DEF UpdateForRequest, fileVars, Pool!Next
<1>4. CASE ReceiveRequest(h) \/ ExhaustPool(h) \/ Reply(h)
  <2>1. UNCHANGED <<now, proc, wgRecords, file, faults>>
    BY <1>4
    DEF ReceiveRequest, ExhaustPool, Reply, processVars, fileVars
  <2> QED BY <2>1 DEF Pool!poolVars
<1> QED BY <1>1, <1>2, <1>3, <1>4 DEF Handle

LEMMA SyncStep ==
  ASSUME TypeOK, PromiseInv, Sync
  PROVE  Pool!Next \/ UNCHANGED Pool!poolVars
<1>1. CASE DeleteExpired
  BY <1>1, ReclaimStep DEF Pool!Next
<1>2. CASE UpdateForSync
  BY <1>2, UpdateStep DEF UpdateForSync, fileVars, Pool!Next
<1>3. CASE SaveForSync
  <2>1. proc = "up"
    BY <1>3 DEF SaveForSync, PromiseInv, AtWorkOnlyWhenUp
  <2>2. UNCHANGED <<now, proc, wgRecords>>
        /\ (saveWgRecords \/ saveWgRecordsFails)
    BY <1>3 DEF SaveForSync
  <2> QED BY <2>1, <2>2, SaveStep DEF Pool!Next
<1> QED BY <1>1, <1>2, <1>3 DEF Sync

LEMMA LifeStep ==
  ASSUME TypeOK, PromiseInv,
         Tick \/ Quit \/ Kill \/ Reboot \/ Start \/ StartRefused \/ UNCHANGED vars
  PROVE  Pool!Next \/ UNCHANGED Pool!poolVars
<1>1. CASE Quit \/ Kill \/ Reboot
  BY <1>1, StopStep DEF Quit, Kill, Reboot, Pool!Next
<1>2. CASE LoadFails
  BY <1>2, StopStep DEF LoadFails, FileAtExit, fileVars, Pool!Next
<1>3. CASE loadWgRecords \/ LoadPartly
  BY <1>3, RestartStep DEF Pool!Next
<1>4. CASE Tick
  BY <1>4 DEF Tick, fileVars, Pool!Advance, Pool!Next
<1>5. CASE StartDevice \/ StartRefused \/ UNCHANGED vars
  <2>1. UNCHANGED <<now, wgRecords, file, faults>>
        /\ (proc' \in {"loaded", "up"} <=> proc \in {"loaded", "up"})
    BY <1>5 DEF StartDevice, StartRefused, vars, processVars, fileVars
  <2> QED BY <2>1 DEF Pool!poolVars
<1>6. CASE UpdateLoaded
  <2>1. CASE faults' = faults + 1 /\ Exit
    BY <1>6, <2>1, StopStep DEF UpdateLoaded, fileVars, Pool!Next
  <2>2. CASE updateWgPeers /\ proc' = "up" /\ UNCHANGED <<now, wgRecords>>
    BY <1>6, <2>2, UpdateStep DEF UpdateLoaded, fileVars, Pool!Next
  <2> QED BY <1>6, <2>1, <2>2 DEF UpdateLoaded
<1> QED BY <1>1, <1>2, <1>3, <1>4, <1>5, <1>6 DEF Start

(* The lease server does to addresses what AddressPool allows and nothing  *)
(* else: assign what is free, renew in place, reclaim only what has        *)
(* expired, and, as long as no call fails, save everything and restart     *)
(* from everything that was saved.                                         *)
THEOREM ImplementsPool == Spec => PoolSpec
<1>1. Init => Pool!Init
  BY NoLines DEF Init, Pool!Init
<1>2. TypeOK /\ PromiseInv /\ UniqueAddresses /\ [Next]_vars
        => [Pool!Next]_(Pool!poolVars)
  BY HandlerStep, SyncStep, LifeStep DEF Next
<1> QED BY <1>1, <1>2, TypeCorrect, PromisesInvariant, AddressesUnique, PTL
        DEF Spec, PoolSpec, Pool!Spec
=============================================================================
