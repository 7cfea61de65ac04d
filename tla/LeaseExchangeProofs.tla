------------------------- MODULE LeaseExchangeProofs -------------------------
(***************************************************************************)
(* Theorems about agents and the lease server together, for any number of  *)
(* agents, restarts, handlers and requests given up.                       *)
(***************************************************************************)
EXTENDS LeaseExchange, LeaseManagerProofs

---------------------------------------------------------------------------
(* The server in the composition is the server.                            *)

AskingType == asking \in [Users -> Handlers \cup {NoHandler}]

(* What an agent waits for changes by its own requests, or it hangs up.    *)
LEMMA AskingStep == AskingType /\ [ExchangeNext]_exchangeVars => AskingType'
<1> SUFFICES ASSUME AskingType, [ExchangeNext]_exchangeVars
             PROVE  AskingType'
  OBVIOUS
<1> USE DEF AskingType
<1>1. HangUp => AskingType'
  BY DEF HangUp
<1>2. ASSUME NEW u \in Users, AgentStep(u)
      PROVE  AskingType'
  BY <1>1, <1>2 DEF AgentStep, Ask, TimesOut, Restart, Answer
<1>3. CASE UNCHANGED exchangeVars
  BY <1>3 DEF exchangeVars, agentVars
<1> QED
  BY <1>1, <1>2, <1>3 DEF ExchangeNext, ServerStep, Serve

LEMMA ExchangeStep ==
  ASSUME AskingType, [ExchangeNext]_exchangeVars
  PROVE  [Next]_vars
<1>1. ServerStep => Next
  BY DEF ServerStep, Next
<1>2. \A h \in Handlers : Serve(h) => Next
  BY DEF Serve, Next
<1>3. ASSUME NEW u \in Users, AgentStep(u)
      PROVE  [Next]_vars
  <2>1. CASE Ask(u)
    BY <2>1 DEF Ask, Next
  <2>2. CASE TimesOut(u) \/ Restart(u)
    BY <2>2 DEF TimesOut, Restart
  <2>3. CASE Answer(u)
    <3>1. asking[u] \in Handlers /\ Reply(asking[u])
      BY <2>3 DEF Answer, AskingType
    <3> QED
      BY <3>1 DEF Next, Handle
  <2> QED
    BY <1>3, <2>1, <2>2, <2>3 DEF AgentStep
<1>4. UNCHANGED exchangeVars => UNCHANGED vars
  BY DEF exchangeVars
<1> QED
  BY <1>1, <1>2, <1>3, <1>4 DEF ExchangeNext

(* The lease server that agents talk to is the one of LeaseManager: the    *)
(* composition does to it what any clients may do, and all that is proved  *)
(* of the server alone holds in the composition.                           *)
THEOREM ExchangeImplementsServer == ExchangeSpec => Spec
<1>1. ExchangeInit => Init /\ AskingType
  BY DEF ExchangeInit, AskingType
<1>2. AskingType /\ [ExchangeNext]_exchangeVars => [Next]_vars
  BY ExchangeStep
<1> QED
  BY <1>1, <1>2, AskingStep, PTL DEF ExchangeSpec, Spec

---------------------------------------------------------------------------
(* Types.                                                                  *)

LEMMA ExchangeTypeInit == ExchangeInit => ExchangeTypeOK
<1> SUFFICES ASSUME ExchangeInit PROVE ExchangeTypeOK
  OBVIOUS
<1>1. \A u \in Users : KeysOf[u] \subseteq Keys /\ KeysOf[u] # {}
  BY ConstantsAssumption, ExchangeAssumption
<1>2. \A u \in Users : (CHOOSE k \in KeysOf[u] : TRUE) \in KeysOf[u]
  BY <1>1
<1>3. key \in [Users -> Keys] /\ spare \in [Users -> SUBSET Keys]
  BY <1>1, <1>2 DEF ExchangeInit
<1> QED
  BY <1>3, ExchangeAssumption DEF ExchangeInit, ExchangeTypeOK, Lease

(* An agent waits for a handler with its request: agents whose handler ends*)
(* hang up, and a handler keeps its request until it ends.                 *)
AskedFor(u) ==
  asking[u] # NoHandler =>
    /\ pc[asking[u]] # "idle"
    /\ req[asking[u]].user = u /\ req[asking[u]].PubKey = key[u]

LEMMA KeepsAsking ==
  ASSUME TypeOK, ExchangeTypeOK, HangUp, UNCHANGED key,
         \A h \in Handlers : pc'[h] # "idle" => req'[h] = req[h]
  PROVE  \A u \in Users : AskedFor(u)'
<1> SUFFICES ASSUME NEW u \in Users, asking'[u] # NoHandler
             PROVE  AskedFor(u)'
  BY DEF AskedFor
<1>1. /\ asking'[u] = asking[u] /\ asking[u] \in Handlers
      /\ pc'[asking[u]] # "idle"
  BY DEF HangUp, ExchangeTypeOK
<1> QED
  BY <1>1 DEF AskedFor, ExchangeTypeOK

(* A step of a handler leaves its request alone until it ends.             *)
LEMMA HandlerKeepsRequest ==
  ASSUME TypeOK, NEW h \in Handlers, Handle(h)
  PROVE  \A g \in Handlers : pc'[g] # "idle" => req'[g] = req[g]
<1>1. CASE UNCHANGED req
  BY <1>1
<1>2. CASE Finish(h)
  BY <1>2 DEF Finish, TypeOK
<1> QED
  BY <1>1, <1>2
  DEF Handle, ExtendLease, RekeyLease, GrantLease, ExhaustPool, CreateVars,
      UpdateForRequest, SaveForRequest, Reply

LEMMA ServerKeepsRequest ==
  ASSUME TypeOK, ServerStep
  PROVE  \A g \in Handlers : pc'[g] # "idle" => req'[g] = req[g]
<1>1. CASE Exit
  BY <1>1 DEF Exit
<1>2. CASE UNCHANGED req
  BY <1>2
<1> QED
  BY <1>1, <1>2
  DEF ServerStep, Tick, Quit, Kill, Reboot, Start, StartDevice,
      loadWgRecords, LoadPartly, LoadFails, UpdateLoaded, StartRefused, Sync,
      DeleteExpired, UpdateForSync, SaveForSync, handlerVars, vars

LEMMA ExchangeTypeStep ==
  ASSUME TypeOK, TypeOK', ExchangeTypeOK, [ExchangeNext]_exchangeVars
  PROVE  ExchangeTypeOK'
<1>1. AskingType'
  BY AskingStep DEF AskingType, ExchangeTypeOK
<1>2. ASSUME UNCHANGED <<key, spare, config, timeouts>>,
             overtaken' \in SUBSET Users, revoked' \in SUBSET Users,
             \A u \in Users : AskedFor(u)'
      PROVE  ExchangeTypeOK'
  BY <1>1, <1>2 DEF ExchangeTypeOK, AskedFor, AskingType
<1>3. CASE ServerStep
  <2>1. HangUp /\ UNCHANGED <<key, spare, config, timeouts, overtaken>>
    BY <1>3 DEF ServerStep
  <2>2. overtaken' \in SUBSET Users /\ revoked' \in SUBSET Users
    BY <1>3, <2>1 DEF ExchangeTypeOK, ServerStep, Revoke
  <2> QED
    BY <1>2, <1>3, <2>1, <2>2, KeepsAsking, ServerKeepsRequest
<1>4. ASSUME NEW h \in Handlers, Serve(h)
      PROVE  ExchangeTypeOK'
  <2>1. HangUp /\ Handle(h) /\ UNCHANGED <<key, spare, config, timeouts>>
    BY <1>4 DEF Serve
  <2>2. overtaken' \in SUBSET Users /\ revoked' \in SUBSET Users
    <3>1. pc[h] = "create" => req[h].user \in Users
      BY DEF TypeOK, Request
    <3> QED
      BY <1>4, <3>1 DEF Serve, Written, Revoke, ExchangeTypeOK
  <2> QED
    BY <1>2, <2>1, <2>2, KeepsAsking, HandlerKeepsRequest
<1>5. ASSUME NEW u \in Users, Ask(u)
      PROVE  ExchangeTypeOK'
  <2>1. PICK h \in Handlers :
          /\ ReceiveRequest(h)
          /\ req'[h].user = u /\ req'[h].PubKey = key[u]
          /\ asking' = [asking EXCEPT ![u] = h]
    BY <1>5 DEF Ask
  <2>2. UNCHANGED <<key, spare, config, timeouts, overtaken, revoked>>
    BY <1>5 DEF Ask
  <2>3. /\ pc[h] = "idle" /\ pc' = [pc EXCEPT ![h] = "create"]
        /\ \E q : req' = [req EXCEPT ![h] = q]
    BY <2>1 DEF ReceiveRequest
  <2>4. pc'[h] = "create" /\ \A g \in Handlers \ {h} :
                                pc'[g] = pc[g] /\ req'[g] = req[g]
    BY <2>3 DEF TypeOK
  <2>5. ASSUME NEW v \in Users
        PROVE  AskedFor(v)'
    <3>1. CASE v = u
      BY <2>1, <2>2, <2>4, <3>1 DEF AskedFor, ExchangeTypeOK
    <3>2. CASE v # u
      <4>1. asking'[v] = asking[v] /\ asking[v] # h
        BY <2>1, <2>3, <3>2, ExchangeAssumption DEF ExchangeTypeOK
      <4> QED
        BY <2>2, <2>4, <4>1 DEF AskedFor, ExchangeTypeOK
    <3> QED
      BY <3>1, <3>2
  <2> QED
    BY <1>2, <2>2, <2>5 DEF ExchangeTypeOK
<1>6. ASSUME NEW u \in Users, TimesOut(u)
      PROVE  ExchangeTypeOK'
  <2>1. UNCHANGED <<pc, req, key, spare, config, overtaken, revoked>>
    BY <1>6 DEF TimesOut, vars, handlerVars
  <2>2. \A v \in Users : AskedFor(v)'
    BY <1>6, <2>1 DEF TimesOut, AskedFor, ExchangeTypeOK
  <2>3. timeouts' \in 0 .. MaxTimeouts
    BY <1>6, ExchangeAssumption DEF TimesOut, ExchangeTypeOK
  <2> QED
    BY <1>1, <2>1, <2>2, <2>3 DEF ExchangeTypeOK, AskedFor, AskingType
<1>7. ASSUME NEW u \in Users, Restart(u)
      PROVE  ExchangeTypeOK'
  <2>1. UNCHANGED <<pc, req, timeouts, overtaken, revoked>>
    BY <1>7 DEF Restart, vars, handlerVars
  <2>2. \A v \in Users : AskedFor(v)'
    BY <1>7, <2>1 DEF Restart, AskedFor, ExchangeTypeOK
  <2>3. /\ key' \in [Users -> Keys] /\ spare' \in [Users -> SUBSET Keys]
        /\ config' \in [Users -> Lease]
    BY <1>7 DEF Restart, ExchangeTypeOK, Lease
  <2> QED
    BY <1>1, <2>1, <2>2, <2>3 DEF ExchangeTypeOK, AskedFor, AskingType
<1>8. ASSUME NEW u \in Users, Answer(u)
      PROVE  ExchangeTypeOK'
  <2>1. /\ asking[u] \in Handlers /\ Reply(asking[u]) /\ HangUp
        /\ config' = [config EXCEPT ![u] = resp[asking[u]]]
        /\ UNCHANGED <<key, spare, timeouts>>
    BY <1>8 DEF Answer, ExchangeTypeOK
  <2>2. config' \in [Users -> Lease]
    BY <2>1 DEF TypeOK, ExchangeTypeOK
  <2>3. overtaken' \in SUBSET Users /\ revoked' \in SUBSET Users
    BY <1>8 DEF Answer, ExchangeTypeOK
  <2>4. \A v \in Users : AskedFor(v)'
    BY <2>1, KeepsAsking, HandlerKeepsRequest DEF Handle
  <2> QED
    BY <1>1, <2>1, <2>2, <2>3, <2>4 DEF ExchangeTypeOK, AskedFor, AskingType
<1>9. CASE UNCHANGED exchangeVars
  BY <1>9
  DEF exchangeVars, agentVars, vars, handlerVars, ExchangeTypeOK
<1> QED
  BY <1>3, <1>4, <1>5, <1>6, <1>7, <1>8, <1>9 DEF ExchangeNext, AgentStep

(* An agent always waits for a handler that serves a request of its own,   *)
(* with the key its device has now: a reply to an earlier run of the agent *)
(* reaches nobody.                                                         *)
THEOREM ExchangeTypeCorrect == ExchangeSpec => []ExchangeTypeOK
<1>1. TypeOK /\ TypeOK' /\ ExchangeTypeOK /\ [ExchangeNext]_exchangeVars
        => ExchangeTypeOK'
  BY ExchangeTypeStep
<1> QED
  BY <1>1, ExchangeTypeInit, ExchangeImplementsServer, TypeCorrect, PTL
  DEF ExchangeSpec

---------------------------------------------------------------------------
(* The peers of the device, user by user.                                  *)

(* Users present keys of their own, and the records have them.             *)
OwnKeys(recs) == \A u \in Leased(recs) : recs[u].PubKey \in KeysOf[u]

KeyInv ==
  /\ OwnKeys(wgRecords) /\ OwnKeys(file)
  /\ \A h \in Handlers :
       pc[h] # "idle" => req[h].PubKey \in KeysOf[req[h].user]

LEMMA OnlyOwnKeys ==
  ASSUME NEW recs \in [Users -> Lease], OwnKeys(recs), NEW S
  PROVE  OwnKeys(Only(recs, S))
BY OnlyLeased DEF OwnKeys

LEMMA KeyStep ==
  ASSUME TypeOK, KeyInv, [Next]_vars
  PROVE  KeyInv'
<1>1. OwnKeys(file')
  BY FileStep, OnlyOwnKeys DEF KeyInv, TypeOK
<1>2. OwnKeys(wgRecords')
  <2>1. ASSUME NEW h \in Handlers, NEW ip \in Leasable, NEW next,
               OwnOrFree(h, ip), PutRecord(h, ip, next)
        PROVE  OwnKeys(wgRecords')
    <3>1. req[h].user \in Users /\ req[h].PubKey \in KeysOf[req[h].user]
      BY <2>1 DEF OwnOrFree, KeyInv, TypeOK, Request
    <3>2. wgRecords' = [wgRecords EXCEPT ![req[h].user] =
                          [PubKey |-> req[h].PubKey, IP |-> ip,
                           expires |-> req[h].expires]]
      BY <2>1 DEF PutRecord
    <3> QED
      BY <3>1, <3>2 DEF OwnKeys, KeyInv, Leased, TypeOK
  <2> QED
    BY <2>1, TableStep, OnlyOwnKeys DEF KeyInv, TypeOK
<1>3. ASSUME NEW g \in Handlers, pc'[g] # "idle"
      PROVE  req'[g].PubKey \in KeysOf[req'[g].user]
  <2>1. CASE pc[g] # "idle" /\ req'[g] = req[g]
    BY <2>1 DEF KeyInv
  <2>2. ASSUME NEW h \in Handlers, ReceiveRequest(h)
        PROVE  req'[g].PubKey \in KeysOf[req'[g].user]
    <3>1. \E u \in Users : \E k \in KeysOf[u], e \in now .. MaxTime :
            req' = [req EXCEPT ![h] =
                      [user |-> u, PubKey |-> k, expires |-> e]]
      BY <2>2 DEF ReceiveRequest
    <3>2. CASE g = h
      BY <3>1, <3>2 DEF TypeOK
    <3>3. CASE g # h
      <4>1. pc'[g] = pc[g] /\ req'[g] = req[g]
        BY <2>2, <3>1, <3>3 DEF ReceiveRequest, TypeOK
      <4> QED
        BY <1>3, <2>1, <4>1
    <3> QED
      BY <3>2, <3>3
  <2>3. ASSUME NEW h \in Handlers, Handle(h)
        PROVE  pc[g] # "idle" /\ req'[g] = req[g]
    <3>1. req'[g] = req[g]
      BY <1>3, <2>3, HandlerKeepsRequest
    <3>2. pc[h] # "idle" /\ \E next : pc' = [pc EXCEPT ![h] = next]
      BY <2>3
      DEF Handle, ExtendLease, RekeyLease, GrantLease, ExhaustPool, Finish,
          PutRecord, UpdateForRequest, SaveForRequest, Reply
    <3> QED
      BY <1>3, <3>1, <3>2 DEF TypeOK
  <2>4. CASE Tick \/ Quit \/ Kill \/ Reboot \/ Start \/ StartRefused \/ Sync
             \/ UNCHANGED vars
    <3>1. CASE Exit
      BY <1>3, <3>1 DEF Exit
    <3>2. CASE UNCHANGED <<pc, req>>
      BY <1>3, <2>1, <3>2
    <3> QED
      BY <2>4, <3>1, <3>2
      DEF Tick, Quit, Kill, Reboot, Start, StartDevice, loadWgRecords,
          LoadPartly, LoadFails, UpdateLoaded, StartRefused, Sync,
          DeleteExpired, UpdateForSync, SaveForSync, handlerVars, vars
  <2> QED
    BY <2>1, <2>2, <2>3, <2>4 DEF Next
<1> QED
  BY <1>1, <1>2, <1>3 DEF KeyInv

RecordPeer(recs, u) == [PubKey |-> recs[u].PubKey, IP |-> recs[u].IP]

(* With keys of their own, all users with a record get their peer: no two  *)
(* records compete for one.                                                *)
LEMMA AllPeersSet ==
  ASSUME TypeOK, KeyInv, NEW D \in setPeers(wgRecords),
         NEW u \in Leased(wgRecords)
  PROVE  RecordPeer(wgRecords, u) \in D
<1>1. wgRecords[u].PubKey \in ParsableKeys
  BY ExchangeAssumption DEF KeyInv, OwnKeys, Leased
<1>2. RecordPeer(wgRecords, u) \in Wanted(wgRecords)
  BY <1>1 DEF Wanted, RecordPeer
<1>3. PICK d \in D : d.PubKey = RecordPeer(wgRecords, u).PubKey
  BY <1>2 DEF setPeers
<1>4. d \in Wanted(wgRecords)
  BY DEF setPeers
<1>5. PICK v \in Leased(wgRecords) : d = RecordPeer(wgRecords, v)
  BY <1>4 DEF Wanted, RecordPeer
<1>6. wgRecords[v].PubKey = wgRecords[u].PubKey
  BY <1>3, <1>5 DEF RecordPeer
<1>7. v = u
  BY <1>6, ExchangeAssumption DEF KeyInv, OwnKeys, Leased
<1> QED
  BY <1>5, <1>7

(* A user with a record has its peer on the device, but for an update of   *)
(* its own that is to come or a failed one.                                *)
PeerInv ==
  \A u \in Leased(wgRecords) :
    (proc = "up" /\ ~UpdateOwed(u)) => RecordPeer(wgRecords, u) \in device

LEMMA PeerStep ==
  ASSUME TypeOK, KeyInv, PeerInv, [Next]_vars
  PROVE  PeerInv'
<1> SUFFICES ASSUME NEW u \in Leased(wgRecords'), proc' = "up",
                    ~UpdateOwed(u)'
             PROVE  RecordPeer(wgRecords', u) \in device'
  BY DEF PeerInv, Leased, RecordPeer
<1>0. u \in Users
  BY DEF Leased
<1>1. ASSUME updateWgPeers, UNCHANGED wgRecords
      PROVE  RecordPeer(wgRecords', u) \in device'
  BY <1>1, AllPeersSet DEF updateWgPeers
<1>2. ASSUME proc = "up", UNCHANGED <<device, deviceStale>>,
             wgRecords[u] # NoLease,
             RecordPeer(wgRecords', u) = RecordPeer(wgRecords, u),
             \A g \in Handlers : pc[g] = "update" /\ req[g].user = u =>
                                 pc'[g] = "update" /\ req'[g].user = u
      PROVE  RecordPeer(wgRecords', u) \in device'
  <2>1. ~UpdateOwed(u)
    BY <1>2 DEF UpdateOwed
  <2> QED
    BY <1>0, <1>2, <2>1 DEF PeerInv, Leased
<1>3. ASSUME UNCHANGED <<proc, device, deviceStale, wgRecords, pc, req>>
      PROVE  RecordPeer(wgRecords', u) \in device'
  BY <1>0, <1>2, <1>3 DEF Leased
<1>4. ASSUME NEW h \in Handlers, pc[h] # "update",
             NEW next, pc' = [pc EXCEPT ![h] = next],
             \A g \in Handlers : pc'[g] # "idle" => req'[g] = req[g]
      PROVE  \A g \in Handlers : pc[g] = "update" /\ req[g].user = u =>
                                 pc'[g] = "update" /\ req'[g].user = u
  BY <1>4 DEF TypeOK
<1>5. ASSUME NEW h \in Handlers,
             ExtendLease(h) \/ RekeyLease(h) \/ GrantLease(h)
      PROVE  RecordPeer(wgRecords', u) \in device'
  <2>1. PICK ip \in Leasable, next \in {"update", "save"} :
          OwnOrFree(h, ip) /\ PutRecord(h, ip, next)
    BY <1>5, CreateStep
  <2>2. /\ req[h].user \in Users /\ pc[h] = "create"
        /\ pc' = [pc EXCEPT ![h] = next]
        /\ wgRecords' = [wgRecords EXCEPT ![req[h].user] =
                           [PubKey |-> req[h].PubKey, IP |-> ip,
                            expires |-> req[h].expires]]
    BY <2>1 DEF OwnOrFree, PutRecord, TypeOK, Request
  <2>3. UNCHANGED <<proc, device, deviceStale, req>>
    BY <1>5
    DEF ExtendLease, RekeyLease, GrantLease, CreateVars, processVars,
        kernelVars
  <2>4. \A g \in Handlers : pc[g] = "update" /\ req[g].user = u =>
                            pc'[g] = "update" /\ req'[g].user = u
    BY <1>4, <2>2, <2>3
  <2>5. CASE u # req[h].user
    <3>1. wgRecords'[u] = wgRecords[u]
      BY <2>2, <2>5 DEF TypeOK
    <3> QED
      BY <1>2, <2>3, <2>4, <3>1 DEF RecordPeer, Leased
  <2>6. CASE u = req[h].user /\ ExtendLease(h)
    <3>1. wgRecords[u] # NoLease /\ wgRecords[u].PubKey = req[h].PubKey
      BY <2>6 DEF ExtendLease, HasRecord, SameKey
    <3>2. ip = wgRecords[u].IP
      BY <2>1, <2>6 DEF OwnOrFree, ExtendLease
    <3>3. RecordPeer(wgRecords', u) = RecordPeer(wgRecords, u)
      BY <2>2, <2>6, <3>1, <3>2 DEF RecordPeer, TypeOK
    <3> QED
      BY <1>2, <2>3, <2>4, <3>1, <3>3
  <2>7. CASE u = req[h].user /\ ~ExtendLease(h)
    <3>1. pc' = [pc EXCEPT ![h] = "update"]
      BY <1>5, <2>7 DEF RekeyLease, GrantLease, PutRecord
    <3>2. pc'[h] = "update" /\ req'[h].user = u
      BY <2>3, <2>7, <3>1 DEF TypeOK
    <3> QED
      BY <3>2 DEF UpdateOwed
  <2> QED
    BY <2>5, <2>6, <2>7
<1>6. ASSUME NEW h \in Handlers,
             ReceiveRequest(h) \/ ExhaustPool(h) \/ SaveForRequest(h)
             \/ Reply(h)
      PROVE  RecordPeer(wgRecords', u) \in device'
  <2>1. UNCHANGED <<proc, device, deviceStale, wgRecords>>
    BY <1>6
    DEF ReceiveRequest, ExhaustPool, SaveForRequest, Reply, processVars,
        kernelVars
  <2>2. pc[h] # "update" /\ \E next : pc' = [pc EXCEPT ![h] = next]
    BY <1>6 DEF ReceiveRequest, ExhaustPool, SaveForRequest, Reply, Finish
  <2>3. \/ UNCHANGED req
        \/ \E q : req' = [req EXCEPT ![h] = q]
    BY <1>6 DEF ReceiveRequest, ExhaustPool, SaveForRequest, Reply, Finish
  <2>4. \A g \in Handlers : pc[g] = "update" /\ req[g].user = u =>
                            pc'[g] = "update" /\ req'[g].user = u
    BY <2>2, <2>3 DEF TypeOK
  <2> QED
    BY <1>2, <2>1, <2>4 DEF Leased
<1>7. ASSUME NEW h \in Handlers, UpdateForRequest(h)
      PROVE  RecordPeer(wgRecords', u) \in device'
  BY <1>1, <1>7 DEF UpdateForRequest, updateWgPeersFails, UpdateOwed
<1>8. CASE DeleteExpired
  <2>1. /\ wgRecords' = Only(wgRecords, Leased(wgRecords) \ Expired(wgRecords))
        /\ proc = "up" /\ UNCHANGED <<device, deviceStale, pc, req>>
    BY <1>8 DEF DeleteExpired, kernelVars, handlerVars
  <2>2. wgRecords'[u] = wgRecords[u] /\ wgRecords[u] # NoLease
    BY <2>1, OnlyLeased DEF TypeOK, Leased
  <2> QED
    BY <1>2, <2>1, <2>2 DEF RecordPeer
<1>9. CASE UpdateForSync
  BY <1>1, <1>9 DEF UpdateForSync, updateWgPeersFails, UpdateOwed
<1>10. CASE SaveForSync \/ Tick \/ StartRefused \/ UNCHANGED vars
  BY <1>3, <1>10
  DEF SaveForSync, Tick, StartRefused, vars, handlerVars, kernelVars,
      processVars
<1>11. CASE UpdateLoaded
  BY <1>1, <1>11 DEF UpdateLoaded, Exit
<1>12. CASE Quit \/ Kill \/ Reboot \/ StartDevice \/ loadWgRecords
            \/ LoadPartly \/ LoadFails
  BY <1>12
  DEF Quit, Kill, Reboot, StartDevice, loadWgRecords, LoadPartly, LoadFails,
      Exit
<1> QED
  BY <1>5, <1>6, <1>7, <1>8, <1>9, <1>10, <1>11, <1>12
  DEF Next, Handle, Sync, Start

---------------------------------------------------------------------------
(* What steps of the server do to promises, records and lines.             *)

(* Time passes, and a handler whose record was replaced stays void.        *)
LEMMA TimeStep ==
  ASSUME TypeOK, [Next]_vars
  PROVE  /\ now =< now'
         /\ \A h \in void : pc'[h] # "idle" => h \in void'
<1>1. now' = now \/ now' = now + 1
  BY DEF Next, Tick, Quit, Kill, Reboot, Start, StartDevice, loadWgRecords,
         LoadPartly, LoadFails, UpdateLoaded, StartRefused, Sync,
         DeleteExpired, UpdateForSync, SaveForSync, Exit, Handle,
         ReceiveRequest, ExtendLease, RekeyLease, GrantLease, ExhaustPool,
         UpdateForRequest, SaveForRequest, Reply, CreateVars, processVars,
         vars
<1>2. now =< now'
  BY <1>1 DEF TypeOK
<1>3. \/ void \subseteq void'
      \/ \A h \in Handlers : pc'[h] = "idle"
      \/ \E h \in Handlers : Finish(h)
  BY DEF Next, Tick, Quit, Kill, Reboot, Start, StartDevice, loadWgRecords,
         LoadPartly, LoadFails, UpdateLoaded, StartRefused, Sync,
         DeleteExpired, UpdateForSync, SaveForSync, Exit, Handle,
         ReceiveRequest, ExtendLease, RekeyLease, GrantLease, ExhaustPool,
         UpdateForRequest, SaveForRequest, Reply, TakeBackIfShorter,
         handlerVars, vars
<1>4. void \subseteq Handlers
  BY DEF TypeOK
<1>5. ASSUME NEW h \in Handlers, Finish(h), NEW g \in void, pc'[g] # "idle"
      PROVE  g \in void'
  BY <1>4, <1>5 DEF Finish, TypeOK
<1> QED
  BY <1>2, <1>3, <1>4, <1>5

(* A promise lasts, or grows, until it is taken back or expires.           *)
Lasts(u) ==
  /\ promised'[u] # NoLease /\ promised'[u].IP = promised[u].IP
  /\ promised'[u].expires >= promised[u].expires

LEMMA PromiseLasts ==
  ASSUME TypeOK, PromiseInv, [Next]_vars, NEW u \in Leased(promised),
         promised'[u] # NoLease
  PROVE  Lasts(u)
<1>1. u \in Users /\ promised[u] \in WGRecord /\ promised[u] # NoLease
  BY LeasedRecord DEF TypeOK, Leased
<1>2. CASE promised'[u] = promised[u]
  BY <1>1, <1>2 DEF Lasts, WGRecord, Time
<1>3. ASSUME UNCHANGED promised \/ \E S : promised' = Only(promised, S)
      PROVE  Lasts(u)
  BY <1>1, <1>2, <1>3 DEF Only
<1>4. ASSUME NEW h \in Handlers, Reply(h), ~UNCHANGED promised
      PROVE  Lasts(u)
  <2>1. /\ pc[h] = "reply" /\ Promises(h)
        /\ promised' = [promised EXCEPT ![req[h].user] = resp[h]]
    BY <1>4 DEF Reply
  <2>2. CASE u # req[h].user
    BY <1>2, <2>1, <2>2 DEF TypeOK
  <2>3. CASE u = req[h].user
    <3>1. Live(h) /\ promised[u].expires < resp[h].expires
      BY <1>1, <2>1, <2>3 DEF Promises, Live
    <3>2. Backs(wgRecords, u, resp[h])
      BY <2>1, <2>3, <3>1 DEF PromiseInv, HeldInTable
    <3>3. Backs(wgRecords, u, promised[u])
      BY <2>1 DEF PromiseInv, PromisesInTable, AtWorkOnlyWhenUp
    <3>4. promised'[u] = resp[h] /\ resp[h] \in WGRecord
      BY <1>1, <2>1, <2>3 DEF TypeOK
    <3>5. promised'[u].IP = promised[u].IP
      BY <3>2, <3>3, <3>4 DEF Backs
    <3>6. promised[u].expires \in Nat /\ resp[h].expires \in Nat
      BY <1>1, <3>4 DEF WGRecord, Time
    <3>7. promised'[u].expires >= promised[u].expires
      BY <3>1, <3>4, <3>6
    <3> QED
      BY <3>5, <3>7 DEF Lasts
  <2> QED
    BY <2>2, <2>3
<1>5. CASE Tick \/ loadWgRecords \/ LoadPartly
  BY <1>3, <1>5 DEF Tick, loadWgRecords, LoadPartly, TakeBack
<1>6. ASSUME NEW h \in Handlers, ExtendLease(h) \/ RekeyLease(h)
      PROVE  Lasts(u)
  BY <1>3, <1>6 DEF ExtendLease, RekeyLease, TakeBackIfShorter, TakeBack
<1>7. ASSUME NEW h \in Handlers,
             GrantLease(h) \/ ExhaustPool(h) \/ UpdateForRequest(h)
             \/ SaveForRequest(h) \/ ReceiveRequest(h)
      PROVE  Lasts(u)
  BY <1>3, <1>7 DEF GrantLease, ExhaustPool, UpdateForRequest,
                    SaveForRequest, ReceiveRequest
<1>8. CASE Quit \/ Kill \/ Reboot \/ StartDevice \/ LoadFails \/ UpdateLoaded
           \/ StartRefused \/ Sync \/ UNCHANGED vars
  BY <1>3, <1>8
  DEF Quit, Kill, Reboot, StartDevice, LoadFails, UpdateLoaded, StartRefused,
      Sync, DeleteExpired, UpdateForSync, SaveForSync, Exit, vars
<1> QED
  BY <1>3, <1>4, <1>5, <1>6, <1>7, <1>8 DEF Next, Handle, Start

(* A record changes by createOrUpdatePeer or by the start.                 *)
Creates(h) == pc[h] = "create" /\ pc'[h] \in {"update", "save"}

LEMMA RecordKept ==
  ASSUME TypeOK, [Next]_vars, ~loadWgRecords, ~LoadPartly,
         NEW u \in Users, wgRecords'[u] # NoLease,
         \A h \in Handlers : Creates(h) => req[h].user # u
  PROVE  wgRecords'[u] = wgRecords[u]
<1>1. CASE UNCHANGED wgRecords
  BY <1>1
<1>2. CASE Exit
  BY <1>2 DEF Exit, NoLeases
<1>3. CASE DeleteExpired
  BY <1>3, OnlyLeased DEF DeleteExpired, TypeOK, Leased
<1>4. ASSUME NEW h \in Handlers,
             ExtendLease(h) \/ RekeyLease(h) \/ GrantLease(h)
      PROVE  wgRecords'[u] = wgRecords[u]
  <2>1. PICK ip \in Leasable, next \in {"update", "save"} :
          OwnOrFree(h, ip) /\ PutRecord(h, ip, next)
    BY <1>4, CreateStep
  <2>2. pc[h] = "create" /\ pc'[h] = next
    BY <2>1 DEF OwnOrFree, PutRecord, TypeOK
  <2>3. req[h].user # u
    BY <2>2 DEF Creates
  <2> QED
    BY <2>1, <2>3 DEF PutRecord, TypeOK
<1>5. ASSUME NEW h \in Handlers,
             ReceiveRequest(h) \/ ExhaustPool(h) \/ UpdateForRequest(h)
             \/ SaveForRequest(h) \/ Reply(h)
      PROVE  UNCHANGED wgRecords
  BY <1>5 DEF ReceiveRequest, ExhaustPool, UpdateForRequest, SaveForRequest,
              Reply
<1>6. CASE Tick \/ Quit \/ Kill \/ Reboot \/ Start \/ StartRefused \/ Sync
           \/ UNCHANGED vars
  BY <1>1, <1>2, <1>3, <1>6
  DEF Tick, Quit, Kill, Reboot, Start, StartDevice, LoadFails, UpdateLoaded,
      StartRefused, Sync, UpdateForSync, SaveForSync, vars
<1> QED
  BY <1>1, <1>4, <1>5, <1>6 DEF Next, Handle

(* The file is the one before or has the table, but for the lost lines.    *)
LEMMA FileKept ==
  ASSUME TypeOK, PromiseInv, [Next]_vars, ~loadWgRecords, ~LoadPartly
  PROVE  \/ UNCHANGED <<file, lost>>
         \/ proc = "up" /\ \A u \in Users \ lost' : file'[u] = wgRecords[u]
<1> DEFINE Kept ==
      \/ UNCHANGED <<file, lost>>
      \/ proc = "up" /\ \A u \in Users \ lost' : file'[u] = wgRecords[u]
<1>1. CASE UNCHANGED fileVars
  BY <1>1 DEF fileVars
<1>2. ASSUME proc = "up", saveWgRecords \/ CutSave \/ UNCHANGED fileVars
      PROVE  Kept
  BY <1>2, SaveOutcome DEF fileVars
<1>3. CASE Quit \/ Kill \/ Reboot
  <2>1. Saving => proc = "up"
    BY DEF Saving, PromiseInv, AtWorkOnlyWhenUp
  <2> QED
    BY <1>1, <1>2, <1>3, <2>1 DEF Quit, Kill, Reboot, FileAtExit
<1>4. ASSUME NEW h \in Handlers, SaveForRequest(h)
      PROVE  Kept
  <2>1. proc = "up"
    BY <1>4 DEF SaveForRequest, PromiseInv, AtWorkOnlyWhenUp
  <2> QED
    BY <1>2, <1>4, <2>1 DEF SaveForRequest, saveWgRecordsFails
<1>5. CASE SaveForSync
  <2>1. proc = "up"
    BY <1>5 DEF SaveForSync, PromiseInv, AtWorkOnlyWhenUp
  <2> QED
    BY <1>2, <1>5, <2>1 DEF SaveForSync, saveWgRecordsFails
<1>6. ASSUME NEW h \in Handlers, ReceiveRequest(h) \/ Handle(h),
             ~SaveForRequest(h)
      PROVE  UNCHANGED fileVars
  BY <1>6
  DEF ReceiveRequest, Handle, ExtendLease, RekeyLease, GrantLease,
      CreateVars, ExhaustPool, UpdateForRequest, Reply
<1>7. CASE Tick \/ StartDevice \/ LoadFails \/ UpdateLoaded \/ StartRefused
           \/ DeleteExpired \/ UpdateForSync \/ UNCHANGED vars
  BY <1>1, <1>7
  DEF Tick, StartDevice, LoadFails, UpdateLoaded, StartRefused,
      DeleteExpired, UpdateForSync, vars
<1> QED
  BY <1>1, <1>3, <1>4, <1>5, <1>6, <1>7 DEF Next, Start, Sync

---------------------------------------------------------------------------
(* What an agent has configured.                                           *)

(* The lease of an agent counts, and no other run has overtaken it.        *)
Trusts(u)  == u \notin revoked /\ InForce(u)
Current(u) == u \notin overtaken /\ Trusts(u)

(* The lease was promised,                                                 *)
ConfigPromised ==
  \A u \in Users : Trusts(u) =>
    /\ u \in Leased(promised) /\ promised[u].IP = config[u].IP
    /\ promised[u].expires >= config[u].expires

(* and its record has the key of the agent, as has the line of the file.   *)
KeyInTable ==
  proc \in {"loaded", "up"} =>
    \A u \in Users : Current(u) => HasKey(wgRecords, u)

KeyInFile == \A u \in Users \ lost : Current(u) => HasKey(file, u)

(* The same of a lease on its way to the agent, from the record on and, in *)
(* the file, from the save on.                                             *)
Expects(u) ==
  /\ asking[u] # NoHandler /\ pc[asking[u]] \in {"update", "save", "reply"}
  /\ Live(asking[u]) /\ u \notin overtaken

AnswerInTable == \A u \in Users : Expects(u) => HasKey(wgRecords, u)

AnswerInFile ==
  \A u \in Users \ lost :
    (Expects(u) /\ pc[asking[u]] = "reply") => HasKey(file, u)

ConfigInv ==
  /\ ConfigPromised /\ KeyInTable /\ KeyInFile
  /\ AnswerInTable /\ AnswerInFile

ExchangeInv ==
  /\ TypeOK /\ ExchangeTypeOK /\ PromiseInv /\ ConfigInv

(* A lease whose promise is taken back stops counting, until an answer.    *)
Followed(u) ==
  (u \in revoked \/ (promised[u] # NoLease /\ promised'[u] = NoLease))
    => u \in revoked'

LEMMA RevokeFollows == Revoke => \A u \in Users : Followed(u)
BY DEF Revoke, Followed

(* With time, and with promises taken back, fewer leases count.            *)
LEMMA StillTrusts ==
  ASSUME ExchangeInv, [Next]_vars, TypeOK', NEW u \in Users, Followed(u),
         config'[u] = config[u], Trusts(u)'
  PROVE  Trusts(u)
<1>1. now =< now' /\ now \in Nat /\ now' \in Nat
  BY TimeStep DEF ExchangeInv, TypeOK
<1>2. u \notin revoked /\ config[u] # NoLease /\ config[u].expires > now'
  BY DEF Trusts, InForce, Followed
<1>3. config[u].expires \in Nat
  BY <1>2 DEF ExchangeInv, ExchangeTypeOK, Lease, WGRecord, Time
<1>4. config[u].expires > now
  BY <1>1, <1>2, <1>3
<1> QED
  BY <1>2, <1>4 DEF Trusts, InForce

(* A lease that goes on to count stays promised.                           *)
LEMMA StaysPromised ==
  ASSUME ExchangeInv, [Next]_vars, TypeOK', NEW u \in Users, Followed(u),
         config'[u] = config[u], Trusts(u)'
  PROVE  /\ u \in Leased(promised') /\ promised'[u].IP = config[u].IP
         /\ promised'[u].expires >= config[u].expires
<1>1. Trusts(u)
  BY StillTrusts
<1>2. /\ u \in Leased(promised) /\ promised[u].IP = config[u].IP
      /\ promised[u].expires >= config[u].expires
  BY <1>1 DEF ExchangeInv, ConfigInv, ConfigPromised
<1>3. promised[u].expires \in Nat /\ config[u].expires \in Nat
  BY <1>1, <1>2
  DEF Trusts, InForce, ExchangeInv, ExchangeTypeOK, TypeOK, Leased, Lease,
      WGRecord, Time
<1>4. promised'[u] # NoLease
  BY <1>2 DEF Followed, Trusts, Leased
<1>5. Lasts(u)
  BY <1>2, <1>4, PromiseLasts DEF ExchangeInv
<1>6. promised'[u].expires \in Nat
  BY <1>4 DEF TypeOK, Lease, WGRecord, Time
<1> QED
  BY <1>2, <1>3, <1>4, <1>5, <1>6 DEF Lasts, Leased

(* A step that neither loads the table nor changes what agents have        *)
(* configured keeps ConfigInv, if it keeps the records of users nobody     *)
(* overtakes or writes them for their key, and if a handler with an answer *)
(* has had it before, or just wrote the record.                            *)
LEMMA ConfigKept ==
  ASSUME ExchangeInv, [Next]_vars, TypeOK', PromiseInv', ~loadWgRecords,
         ~LoadPartly, ExchangeTypeOK', UNCHANGED <<key, config>>,
         \A u \in Users : Followed(u),
         overtaken \subseteq overtaken',
         \A u \in Users : (u \notin overtaken' /\ wgRecords'[u] # NoLease) =>
           HasKey(wgRecords, u)' \/ wgRecords'[u] = wgRecords[u],
         \A u \in Users : Expects(u)' =>
           \/ Expects(u) /\ asking'[u] = asking[u]
           \/ HasKey(wgRecords, u)' /\ pc'[asking'[u]] # "reply",
         \A u \in Users : (Expects(u)' /\ pc'[asking'[u]] = "reply") =>
           pc[asking[u]] = "reply" \/ file' = wgRecords
  PROVE  ConfigInv'
<1>1. ConfigPromised'
  BY StaysPromised DEF ConfigPromised
<1>2. \A u \in Users : Current(u)' => Current(u)
  BY StillTrusts DEF Current
<1>3. KeyInTable'
  <2> SUFFICES ASSUME proc' \in {"loaded", "up"}, NEW u \in Users, Current(u)'
               PROVE  HasKey(wgRecords, u)'
    BY DEF KeyInTable
  <2>1. wgRecords'[u] # NoLease /\ u \notin overtaken'
    BY <1>1 DEF ConfigPromised, Current, PromiseInv, PromisesInTable, Backs
  <2>2. CASE wgRecords'[u] = wgRecords[u]
    <3>1. proc \in {"loaded", "up"}
      BY <2>1, <2>2
      DEF ExchangeInv, PromiseInv, EmptyBeforeLoad, NoLeases, TypeOK
    <3> QED
      BY <1>2, <2>2, <3>1 DEF ExchangeInv, ConfigInv, KeyInTable, HasKey
  <2> QED
    BY <2>1, <2>2
<1>4. KeyInFile'
  <2> SUFFICES ASSUME NEW u \in Users, u \notin lost', Current(u)'
               PROVE  HasKey(file, u)'
    BY DEF KeyInFile
  <2>1. CASE UNCHANGED <<file, lost>>
    BY <1>2, <2>1 DEF ExchangeInv, ConfigInv, KeyInFile, HasKey
  <2>2. CASE proc = "up" /\ file'[u] = wgRecords[u]
    BY <1>2, <2>2 DEF ExchangeInv, ConfigInv, KeyInTable, HasKey
  <2> QED
    BY <2>1, <2>2, FileKept DEF ExchangeInv
<1>5. AnswerInTable'
  <2> SUFFICES ASSUME NEW u \in Users, Expects(u)', ~HasKey(wgRecords, u)'
               PROVE  FALSE
    BY DEF AnswerInTable
  <2>1. Expects(u)
    OBVIOUS
  <2>2. HasKey(wgRecords, u)
    BY <2>1 DEF ExchangeInv, ConfigInv, AnswerInTable
  <2>3. wgRecords'[u] # NoLease
    BY DEF Expects, ExchangeTypeOK, PromiseInv, HeldInTable, Backs
  <2>4. wgRecords'[u] = wgRecords[u]
    BY <2>3 DEF Expects
  <2> QED
    BY <2>2, <2>4 DEF HasKey
<1>6. AnswerInFile'
  <2> SUFFICES ASSUME NEW u \in Users, u \notin lost', Expects(u)',
                      pc'[asking'[u]] = "reply"
               PROVE  HasKey(file, u)'
    BY DEF AnswerInFile
  <2>1. Expects(u) /\ (pc[asking[u]] = "reply" \/ file' = wgRecords)
    OBVIOUS
  <2>2. HasKey(wgRecords, u)
    BY <2>1 DEF ExchangeInv, ConfigInv, AnswerInTable
  <2>3. CASE file'[u] = wgRecords[u]
    BY <2>2, <2>3 DEF HasKey
  <2>4. CASE pc[asking[u]] = "reply" /\ UNCHANGED <<file, lost>>
    BY <2>1, <2>4 DEF ExchangeInv, ConfigInv, AnswerInFile, HasKey
  <2> QED
    BY <2>1, <2>3, <2>4, FileKept DEF ExchangeInv
<1> QED
  BY <1>1, <1>3, <1>4, <1>5, <1>6 DEF ConfigInv

(* An agent that still expects its answer was expecting it.                *)
LEMMA StillExpects ==
  ASSUME ExchangeInv, [Next]_vars, TypeOK', NEW u \in Users, Expects(u)',
         asking'[u] = asking[u], overtaken \subseteq overtaken',
         req'[asking[u]] = req[asking[u]], resp'[asking[u]] = resp[asking[u]],
         pc[asking[u]] \in {"update", "save", "reply"}
  PROVE  Expects(u)
<1> DEFINE h == asking[u]
<1>1. h \in Handlers /\ resp[h] \in WGRecord
  BY DEF Expects, ExchangeInv, ExchangeTypeOK, TypeOK
<1>2. /\ now \in Nat /\ now' \in Nat /\ now =< now'
      /\ h \in void /\ pc'[h] # "idle" => h \in void'
  BY TimeStep DEF ExchangeInv, TypeOK
<1>3. resp[h].expires \in Nat
  BY <1>1 DEF WGRecord, Time
<1>4. h \notin void /\ resp[h].expires > now
  BY <1>2, <1>3 DEF Expects, Live
<1> QED
  BY <1>4 DEF Expects, Live

(* Steps of the server that are not steps of a handler.                    *)
LEMMA ConfigServer ==
  ASSUME ExchangeInv, TypeOK', PromiseInv', ExchangeTypeOK', ServerStep,
         ~loadWgRecords, ~LoadPartly
  PROVE  ConfigInv'
<1>1. /\ Next /\ HangUp /\ Revoke
      /\ UNCHANGED <<key, spare, config, timeouts, overtaken>>
  BY DEF ServerStep, Next
<1>2. UNCHANGED <<pc, req, resp>> \/ \A h \in Handlers : pc'[h] = "idle"
  <2>1. Exit => \A h \in Handlers : pc'[h] = "idle"
    BY DEF Exit
  <2> QED
    BY <2>1
    DEF ServerStep, Tick, Quit, Kill, Reboot, Start, StartDevice,
        LoadFails, UpdateLoaded, StartRefused, Sync, DeleteExpired,
        UpdateForSync, SaveForSync, handlerVars, vars
<1>3. \A h \in Handlers : ~Creates(h)
  BY <1>2 DEF Creates
<1>4. ASSUME NEW u \in Users, Expects(u)'
      PROVE  Expects(u) /\ asking'[u] = asking[u] /\ UNCHANGED pc
  <2>1. /\ asking'[u] = asking[u] /\ asking[u] \in Handlers
        /\ pc'[asking[u]] \in {"update", "save", "reply"}
    BY <1>1, <1>4 DEF HangUp, Expects, ExchangeInv, ExchangeTypeOK
  <2>2. UNCHANGED <<pc, req, resp>>
    BY <1>2, <2>1
  <2> QED
    BY <1>1, <1>4, <2>1, <2>2, StillExpects
<1>5. \A u \in Users : wgRecords'[u] # NoLease => wgRecords'[u] = wgRecords[u]
  BY <1>1, <1>3, RecordKept DEF ExchangeInv
<1> QED
  BY <1>1, <1>4, <1>5, RevokeFollows, ConfigKept

(* An agent is answered for the request it waits for: its handler puts the *)
(* record for the key it has now, or another run has overtaken it.         *)
LEMMA ConfigServe ==
  ASSUME ExchangeInv, TypeOK', PromiseInv', ExchangeTypeOK',
         NEW h \in Handlers, Serve(h)
  PROVE  ConfigInv'
<1>1. /\ Handle(h) /\ HangUp /\ Revoke
      /\ UNCHANGED <<key, spare, config, timeouts>>
      /\ Next
  BY DEF Serve, Next
<1>2. /\ pc[h] # "idle" /\ \E next : pc' = [pc EXCEPT ![h] = next]
      /\ ~loadWgRecords /\ ~LoadPartly
  <2>1. pc[h] # "idle" /\ \E next : pc' = [pc EXCEPT ![h] = next]
    BY <1>1
    DEF Handle, ExtendLease, RekeyLease, GrantLease, ExhaustPool, Finish,
        PutRecord, UpdateForRequest, SaveForRequest, Reply
  <2>2. proc = "up"
    BY <2>1 DEF ExchangeInv, PromiseInv, AtWorkOnlyWhenUp
  <2> QED
    BY <2>1, <2>2 DEF loadWgRecords, LoadPartly
<1>3. \A g \in Handlers \ {h} : pc'[g] = pc[g] /\ ~Creates(g)
  BY <1>2 DEF ExchangeInv, TypeOK, Creates
<1>4. overtaken \subseteq overtaken'
  BY DEF Serve, Written
<1>5. \A g \in Handlers : pc'[g] # "idle" => req'[g] = req[g]
  BY <1>1, HandlerKeepsRequest DEF ExchangeInv
<1>6. ASSUME Creates(h), NEW u \in Users, u = req[h].user
      PROVE  /\ u \in overtaken' \/ HasKey(wgRecords, u)'
             /\ pc'[h] # "reply"
  <2>1. ExtendLease(h) \/ RekeyLease(h) \/ GrantLease(h)
    BY <1>1, <1>6
    DEF Creates, Handle, ExhaustPool, Finish, UpdateForRequest,
        SaveForRequest, Reply, ExchangeInv, TypeOK
  <2>2. PICK ip \in Leasable, next \in {"update", "save"} :
          OwnOrFree(h, ip) /\ PutRecord(h, ip, next)
    BY <2>1, CreateStep DEF ExchangeInv
  <2>3. wgRecords'[u] = [PubKey |-> req[h].PubKey, IP |-> ip,
                         expires |-> req[h].expires]
    BY <1>6, <2>2 DEF OwnOrFree, PutRecord, ExchangeInv, TypeOK, Request
  <2>4. wgRecords'[u] # NoLease
    BY <2>2, <2>3, ConstantsAssumption
    DEF OwnOrFree, ExchangeInv, TypeOK, Request, WGRecord
  <2>5. CASE req[h].PubKey = key[u]
    BY <1>1, <1>6, <2>3, <2>4, <2>5 DEF HasKey, Creates
  <2>6. CASE req[h].PubKey # key[u]
    BY <1>6, <2>6 DEF Serve, Written, Creates
  <2> QED
    BY <1>6, <2>5, <2>6 DEF Creates
<1>7. ASSUME NEW u \in Users, u \notin overtaken', wgRecords'[u] # NoLease
      PROVE  HasKey(wgRecords, u)' \/ wgRecords'[u] = wgRecords[u]
  <2>1. CASE Creates(h) /\ req[h].user = u
    BY <1>6, <1>7, <2>1
  <2>2. CASE ~(Creates(h) /\ req[h].user = u)
    BY <1>1, <1>2, <1>3, <1>7, <2>2, RecordKept DEF ExchangeInv
  <2> QED
    BY <2>1, <2>2
<1>8. ASSUME NEW u \in Users, Expects(u)'
      PROVE  /\ \/ Expects(u) /\ asking'[u] = asking[u]
                \/ HasKey(wgRecords, u)' /\ pc'[asking'[u]] # "reply"
             /\ pc'[asking'[u]] = "reply" =>
                  pc[asking[u]] = "reply" \/ file' = wgRecords
  <2>1. /\ asking'[u] = asking[u] /\ asking[u] \in Handlers
        /\ pc'[asking[u]] \in {"update", "save", "reply"}
        /\ req[asking[u]].user = u /\ u \notin overtaken'
        /\ pc[asking[u]] # "idle"
    BY <1>1, <1>8 DEF HangUp, Expects, ExchangeInv, ExchangeTypeOK
  <2>2. req'[asking[u]] = req[asking[u]]
    BY <1>5, <2>1
  <2>3. CASE asking[u] # h
    <3>1. pc'[asking[u]] = pc[asking[u]]
      BY <1>3, <2>1, <2>3
    <3>2. resp'[asking[u]] = resp[asking[u]]
      BY <1>1, <2>1, <2>3
      DEF Handle, ExtendLease, RekeyLease, GrantLease, ExhaustPool, Finish,
          PutRecord, UpdateForRequest, SaveForRequest, Reply, ExchangeInv,
          TypeOK
    <3>3. Expects(u)
      BY <1>1, <1>4, <1>8, <2>1, <2>2, <3>1, <3>2, StillExpects
    <3> QED
      BY <2>1, <3>1, <3>3
  <2>4. CASE asking[u] = h /\ Creates(h)
    BY <1>6, <2>1, <2>4
  <2>5. CASE asking[u] = h /\ ~Creates(h)
    <3>1. \/ UpdateForRequest(h) /\ ~Finish(h)
          \/ SaveForRequest(h) /\ ~Finish(h)
      <4>1. pc'[h] \in {"update", "save", "reply"}
        BY <2>1, <2>5
      <4>2. ~Finish(h)
        BY <4>1 DEF Finish, ExchangeInv, TypeOK
      <4>3. pc[h] # "create"
        <5>1. CASE pc'[h] = "reply"
          BY <1>1, <5>1
          DEF Handle, ExtendLease, RekeyLease, GrantLease, ExhaustPool,
              Finish, PutRecord, UpdateForRequest, SaveForRequest, Reply,
              ExchangeInv, TypeOK
        <5>2. CASE pc'[h] # "reply"
          BY <2>5, <4>1, <5>2 DEF Creates
        <5> QED
          BY <5>1, <5>2
      <4>4. UpdateForRequest(h) \/ SaveForRequest(h)
        BY <1>1, <4>2, <4>3
        DEF Handle, ExtendLease, RekeyLease, GrantLease, ExhaustPool, Reply
      <4> QED
        BY <4>2, <4>4
    <3>2. /\ pc[h] \in {"update", "save"} /\ resp' = resp
          /\ pc'[h] = "reply" => file' = wgRecords
      BY <2>1, <2>5, <3>1
      DEF UpdateForRequest, SaveForRequest, saveWgRecords, ExchangeInv, TypeOK
    <3>3. Expects(u)
      BY <1>1, <1>4, <1>8, <2>1, <2>2, <2>5, <3>2, StillExpects
    <3> QED
      BY <2>1, <2>5, <3>2, <3>3
  <2> QED
    BY <2>3, <2>4, <2>5
<1> QED
  BY <1>1, <1>2, <1>4, <1>7, <1>8, RevokeFollows, ConfigKept

(* An agent begins or gives up.                                            *)
LEMMA ConfigAgent ==
  ASSUME ExchangeInv, TypeOK', PromiseInv', ExchangeTypeOK',
         NEW u \in Users, Ask(u) \/ TimesOut(u)
  PROVE  ConfigInv'
<1>1. /\ [Next]_vars
      /\ UNCHANGED <<key, config, overtaken, wgRecords, resp, proc>>
      /\ UNCHANGED <<promised, revoked>>
      /\ ~loadWgRecords /\ ~LoadPartly
  BY DEF Ask, TimesOut, ReceiveRequest, Next, loadWgRecords, LoadPartly, vars,
         processVars, handlerVars
<1>2. ASSUME NEW v \in Users, Expects(v)'
      PROVE  /\ Expects(v) /\ asking'[v] = asking[v]
             /\ pc'[asking[v]] = pc[asking[v]]
  <2>1. CASE TimesOut(u)
    <3>1. asking'[v] = asking[v] /\ UNCHANGED <<pc, req, resp>>
      BY <1>2, <2>1
      DEF TimesOut, Expects, ExchangeInv, ExchangeTypeOK, vars, handlerVars
    <3>2. pc[asking[v]] \in {"update", "save", "reply"}
      BY <1>2, <3>1 DEF Expects
    <3> QED
      BY <1>1, <1>2, <3>1, <3>2, StillExpects
  <2>2. CASE Ask(u)
    <3>1. PICK h \in Handlers :
            /\ pc[h] = "idle" /\ pc' = [pc EXCEPT ![h] = "create"]
            /\ \E q : req' = [req EXCEPT ![h] = q]
            /\ asking' = [asking EXCEPT ![u] = h]
      BY <2>2 DEF Ask, ReceiveRequest
    <3>2. asking'[v] # h
      BY <1>2, <3>1 DEF Expects, ExchangeInv, TypeOK
    <3>3. asking'[v] = asking[v] /\ asking[v] \in Handlers \ {h}
      BY <1>2, <3>1, <3>2 DEF Expects, ExchangeInv, ExchangeTypeOK
    <3>4. pc'[asking[v]] = pc[asking[v]] /\ req'[asking[v]] = req[asking[v]]
      BY <3>1, <3>3 DEF ExchangeInv, TypeOK
    <3>5. pc[asking[v]] \in {"update", "save", "reply"}
      BY <1>2, <3>3, <3>4 DEF Expects
    <3> QED
      BY <1>1, <1>2, <3>3, <3>4, <3>5, StillExpects
  <2> QED
    BY <2>1, <2>2
<1>3. \A v \in Users : Followed(v)
  BY <1>1 DEF Followed
<1> QED
  BY <1>1, <1>2, <1>3, ConfigKept

(* A new run has nothing configured and waits for nothing.                 *)
LEMMA ConfigRestart ==
  ASSUME ExchangeInv, TypeOK', PromiseInv', ExchangeTypeOK',
         NEW u \in Users, Restart(u)
  PROVE  ConfigInv'
<1>1. UNCHANGED <<now, proc, wgRecords, pc, req, resp, void, file, lost,
                  promised, overtaken, revoked>>
  BY DEF Restart, vars, processVars, handlerVars, fileVars
<1>2. /\ config'[u] = NoLease /\ asking'[u] = NoHandler
      /\ \A v \in Users \ {u} : /\ config'[v] = config[v] /\ key'[v] = key[v]
                                /\ asking'[v] = asking[v]
  BY DEF Restart, ExchangeInv, ExchangeTypeOK
<1>3. \A v \in Users :
        Trusts(v)' => v # u /\ Trusts(v) /\ config'[v] = config[v]
  BY <1>1, <1>2 DEF Trusts, InForce
<1>4. \A v \in Users :
        Current(v)' => v # u /\ Current(v) /\ key'[v] = key[v]
  BY <1>1, <1>2, <1>3 DEF Current
<1>5. \A v \in Users :
        Expects(v)' => v # u /\ Expects(v) /\ asking'[v] = asking[v]
                       /\ key'[v] = key[v]
  BY <1>1, <1>2 DEF Expects, Live
<1>6. ConfigPromised'
  BY <1>1, <1>3 DEF ExchangeInv, ConfigInv, ConfigPromised, Leased
<1>7. KeyInTable' /\ KeyInFile'
  BY <1>1, <1>4 DEF ExchangeInv, ConfigInv, KeyInTable, KeyInFile, HasKey
<1>8. AnswerInTable' /\ AnswerInFile'
  BY <1>1, <1>5 DEF ExchangeInv, ConfigInv, AnswerInTable, AnswerInFile, HasKey
<1> QED
  BY <1>6, <1>7, <1>8 DEF ConfigInv

(* A lease that is answered is promised, unless it has been shortened, and *)
(* its record has the key of the agent, unless another run has overtaken   *)
(* it.                                                                     *)
LEMMA ConfigAnswer ==
  ASSUME ExchangeInv, TypeOK', PromiseInv', ExchangeTypeOK',
         NEW u \in Users, Answer(u)
  PROVE  ConfigInv'
<1> DEFINE h == asking[u]
<1>1. /\ h \in Handlers /\ h # NoHandler /\ Reply(h) /\ pc[h] = "reply"
      /\ req[h].user = u
      /\ HangUp /\ config' = [config EXCEPT ![u] = resp[h]]
      /\ Promises(h) => promised'[u] = resp[h]
      /\ UNCHANGED <<key, now, proc, wgRecords, file, lost>>
  BY DEF Answer, Reply, ExchangeInv, ExchangeTypeOK, processVars, fileVars
<1>2. proc = "up" /\ resp[h] \in WGRecord
  BY <1>1 DEF ExchangeInv, PromiseInv, AtWorkOnlyWhenUp, TypeOK
<1>3. [Next]_vars
  BY <1>1 DEF Next, Handle
<1>4. config'[u] = resp[h] /\ \A v \in Users \ {u} : config'[v] = config[v]
  BY <1>1 DEF ExchangeInv, ExchangeTypeOK
<1>5. \A v \in Users \ {u} : v \notin overtaken' => v \notin overtaken
  BY DEF Answer
<1>6. u \in overtaken' \/ u \notin overtaken
        \/ (HasKey(wgRecords, u)' /\ HasKey(file, u)')
  BY <1>1 DEF Answer, HasKey
<1>7. Trusts(u)' => Live(h)
  BY <1>1, <1>4 DEF Trusts, InForce, Live, Answer
<1>8. u \notin overtaken /\ Live(h) => Expects(u)
  BY <1>1 DEF Expects
<1>9. Current(u)' => HasKey(wgRecords, u)'
  <2>1. Expects(u) => HasKey(wgRecords, u)'
    BY <1>1 DEF ExchangeInv, ConfigInv, AnswerInTable, HasKey
  <2> QED
    BY <1>6, <1>7, <1>8, <2>1 DEF Current
<1>10. u \notin lost' => (Current(u)' => HasKey(file, u)')
  <2>1. Expects(u) /\ u \notin lost' => HasKey(file, u)'
    BY <1>1 DEF ExchangeInv, ConfigInv, AnswerInFile, HasKey
  <2> QED
    BY <1>6, <1>7, <1>8, <2>1 DEF Current
<1>11. ASSUME Trusts(u)'
       PROVE  /\ u \in Leased(promised') /\ promised'[u].IP = config'[u].IP
              /\ promised'[u].expires >= config'[u].expires
  <2>1. h \notin void /\ resp[h].expires > now
    BY <1>1, <1>7, <1>11 DEF Live
  <2>2. CASE Promises(h)
    <3>1. promised'[u] = resp[h] /\ resp[h] # NoLease
      BY <1>1, <1>2, <2>2, ConstantsAssumption
    <3> QED
      BY <1>2, <1>4, <3>1 DEF Leased, WGRecord, Time
  <2>3. CASE ~Promises(h)
    <3>1. promised[u] # NoLease /\ ~(promised[u].expires < resp[h].expires)
      BY <1>1, <2>1, <2>3 DEF Promises
    <3>2. UNCHANGED promised
      BY <1>1, <2>3 DEF Reply
    <3>3. Backs(wgRecords, u, resp[h])
      BY <1>1, <1>7, <1>11 DEF ExchangeInv, PromiseInv, HeldInTable
    <3>4. Backs(wgRecords, u, promised[u])
      BY <1>2, <3>1 DEF ExchangeInv, PromiseInv, PromisesInTable, Leased
    <3>5. promised[u].IP = resp[h].IP
      BY <3>3, <3>4 DEF Backs
    <3>6. promised[u] \in WGRecord
      BY <3>1 DEF ExchangeInv, TypeOK, Lease
    <3>7. promised[u].expires >= resp[h].expires
      BY <1>2, <3>1, <3>6 DEF WGRecord, Time
    <3> QED
      BY <1>4, <3>1, <3>2, <3>5, <3>7 DEF Leased
  <2> QED
    BY <2>2, <2>3
<1>12. ASSUME NEW v \in Users \ {u}
       PROVE  Followed(v) /\ (Trusts(v)' => Trusts(v))
  <2>1. promised'[v] = promised[v]
    BY <1>1 DEF Reply, ExchangeInv, TypeOK
  <2>2. Followed(v)
    BY <2>1 DEF Followed, Answer
  <2> QED
    BY <1>3, <1>4, <2>2, StillTrusts
<1>13. \A v \in Users \ {u} : Current(v)' => Current(v)
  BY <1>5, <1>12 DEF Current
<1>14. ConfigPromised'
  <2>1. ASSUME NEW v \in Users \ {u}, Trusts(v)'
        PROVE  /\ v \in Leased(promised') /\ promised'[v].IP = config'[v].IP
               /\ promised'[v].expires >= config'[v].expires
    BY <1>3, <1>4, <1>12, <2>1, StaysPromised
  <2> QED
    BY <1>11, <2>1 DEF ConfigPromised
<1>15. KeyInTable' /\ KeyInFile'
  BY <1>1, <1>9, <1>10, <1>13
  DEF ExchangeInv, ConfigInv, KeyInTable, KeyInFile, HasKey
<1>16. \A v \in Users :
         Expects(v)' => Expects(v) /\ asking'[v] = asking[v]
                        /\ pc'[asking[v]] = pc[asking[v]]
  <2> SUFFICES ASSUME NEW v \in Users, Expects(v)'
               PROVE  Expects(v) /\ asking'[v] = asking[v]
                      /\ pc'[asking[v]] = pc[asking[v]]
    OBVIOUS
  <2>1. asking'[v] = asking[v] /\ asking[v] \in Handlers
    BY <1>1 DEF HangUp, Expects, ExchangeInv, ExchangeTypeOK
  <2>2. pc' = [pc EXCEPT ![h] = "idle"]
        /\ req' = [req EXCEPT ![h] = NoRequest]
        /\ resp' = [resp EXCEPT ![h] = NoLease] /\ void' = void \ {h}
    BY <1>1 DEF Reply, Finish
  <2>3. asking[v] # h
    BY <1>1, <2>1, <2>2 DEF Expects, ExchangeInv, TypeOK
  <2>4. v # u
    BY <2>3
  <2>5. UNCHANGED <<pc[asking[v]], req[asking[v]], resp[asking[v]]>>
    BY <1>1, <2>1, <2>2, <2>3 DEF ExchangeInv, TypeOK
  <2>6. Live(asking[v])' => Live(asking[v])
    BY <1>1, <2>1, <2>2, <2>3, <2>5 DEF Live
  <2> QED
    BY <1>5, <2>1, <2>4, <2>5, <2>6 DEF Expects
<1>17. AnswerInTable' /\ AnswerInFile'
  BY <1>1, <1>16
  DEF ExchangeInv, ConfigInv, AnswerInTable, AnswerInFile, HasKey
<1> QED
  BY <1>14, <1>15, <1>17 DEF ConfigInv

(* A start brings back the lines of the leases that count, key and all.    *)
LEMMA ConfigLoad ==
  ASSUME ExchangeInv, TypeOK', PromiseInv', ExchangeTypeOK',
         ServerStep, loadWgRecords \/ LoadPartly
  PROVE  ConfigInv'
<1>1. /\ \E S : wgRecords' = Only(file, S)
      /\ promised' = Only(promised, Users \ (lost \cup lost'))
      /\ UNCHANGED <<now, pc, req, resp, file>>
  BY DEF loadWgRecords, LoadPartly, TakeBack, handlerVars
<1>2. HangUp /\ Revoke /\ UNCHANGED <<key, config, overtaken>>
  BY DEF ServerStep
<1>3. [Next]_vars /\ \A u \in Users : Followed(u)
  BY <1>2, RevokeFollows DEF Next, Start
<1>4. ConfigPromised'
  BY <1>2, <1>3, StaysPromised DEF ConfigPromised
<1>5. ASSUME NEW u \in Users, Current(u)'
      PROVE  HasKey(file, u)
  <2>1. Current(u)
    BY <1>2, <1>3, <1>5, StillTrusts DEF Current
  <2>2. promised'[u] # NoLease
    BY <1>4, <1>5 DEF ConfigPromised, Current, Leased
  <2>3. u \notin lost
    BY <1>1, <2>2 DEF Only
  <2> QED
    BY <2>1, <2>3 DEF ExchangeInv, ConfigInv, KeyInFile
<1>6. KeyInFile'
  BY <1>1, <1>2, <1>5 DEF KeyInFile, HasKey
<1>7. KeyInTable'
  <2> SUFFICES ASSUME NEW u \in Users, Current(u)'
               PROVE  HasKey(wgRecords, u)'
    BY DEF KeyInTable
  <2>1. proc' = "loaded"
    BY DEF loadWgRecords, LoadPartly
  <2>2. wgRecords'[u] # NoLease
    BY <1>4, <2>1
    DEF ConfigPromised, Current, PromiseInv, PromisesInTable, Backs
  <2>3. wgRecords'[u] = file[u]
    BY <1>1, <2>2 DEF Only
  <2> QED
    BY <1>2, <1>5, <2>2, <2>3 DEF HasKey
<1>8. \A h \in Handlers : pc'[h] = "idle"
  BY <1>1
  DEF ExchangeInv, PromiseInv, AtWorkOnlyWhenUp, loadWgRecords, LoadPartly
<1>9. AnswerInTable' /\ AnswerInFile'
  BY <1>8 DEF AnswerInTable, AnswerInFile, Expects, ExchangeTypeOK
<1> QED
  BY <1>4, <1>6, <1>7, <1>9 DEF ConfigInv

LEMMA ConfigStep ==
  ASSUME ExchangeInv, TypeOK', PromiseInv', ExchangeTypeOK',
         [ExchangeNext]_exchangeVars
  PROVE  ConfigInv'
<1>1. CASE UNCHANGED exchangeVars
  <2>1. UNCHANGED <<now, proc, wgRecords, pc, req, resp, void, file, lost,
                    promised, key, asking, config, overtaken, revoked>>
    BY <1>1 DEF exchangeVars, agentVars, vars, processVars, handlerVars,
                fileVars
  <2> QED
    BY <2>1
    DEF ExchangeInv, ConfigInv, ConfigPromised, KeyInTable, KeyInFile,
        AnswerInTable, AnswerInFile, Expects, Live, Current, Trusts,
        InForce, HasKey, Leased
<1>2. CASE ServerStep
  BY <1>2, ConfigServer, ConfigLoad
<1>3. ASSUME NEW h \in Handlers, Serve(h)
      PROVE  ConfigInv'
  BY <1>3, ConfigServe
<1>4. ASSUME NEW u \in Users, AgentStep(u)
      PROVE  ConfigInv'
  BY <1>4, ConfigAgent, ConfigRestart, ConfigAnswer DEF AgentStep
<1> QED
  BY <1>1, <1>2, <1>3, <1>4 DEF ExchangeNext

(* Nobody is owed anything at first.                                       *)
LEMMA ConfigInvariant == ExchangeSpec => []ConfigInv
<1>1. ExchangeInit => ConfigInv
  <2> SUFFICES ASSUME ExchangeInit PROVE ConfigInv
    OBVIOUS
  <2>1. \A u \in Users : ~InForce(u) /\ asking[u] = NoHandler
    BY DEF ExchangeInit, InForce
  <2> QED
    BY <2>1
    DEF ConfigInv, ConfigPromised, KeyInTable, KeyInFile, AnswerInTable,
        AnswerInFile, Expects, Current, Trusts
<1>2. /\ TypeOK /\ TypeOK' /\ ExchangeTypeOK /\ ExchangeTypeOK'
      /\ PromiseInv /\ PromiseInv' /\ ConfigInv
      /\ [ExchangeNext]_exchangeVars
      => ConfigInv'
  BY ConfigStep DEF ExchangeInv
<1> QED
  BY <1>1, <1>2, ExchangeImplementsServer, TypeCorrect, ExchangeTypeCorrect,
     PromisesInvariant, PTL
  DEF ExchangeSpec

(* An agent whose lease is in force has its peer on the device of a server *)
(* that is up: through timeouts, restarts of agents with new keys, late    *)
(* requests of their earlier runs, kills and restarts of the server.       *)
(* Excused are an update of its own that is to come or failed, a late      *)
(* request that was not put right, and a lease that was shortened or that a*)
(* start did not find: cut from the file, or the file could not be read.   *)
THEOREM ClientsHavePeers == ExchangeSpec => []ClientHasPeer
<1>1. ExchangeInit => Init
  BY DEF ExchangeInit
<1>2. ExchangeInit => KeyInv /\ PeerInv
  <2> SUFFICES ASSUME ExchangeInit PROVE KeyInv /\ PeerInv
    OBVIOUS
  <2>1. Leased(wgRecords) = {} /\ Leased(file) = {}
    BY DEF ExchangeInit, Init, NoLeases, Leased
  <2> QED
    BY <2>1 DEF KeyInv, PeerInv, OwnKeys, ExchangeInit, Init
<1>3. TypeOK /\ KeyInv /\ [Next]_vars => KeyInv'
  BY KeyStep
<1>4. TypeOK /\ KeyInv /\ PeerInv /\ [Next]_vars => PeerInv'
  BY PeerStep
<1>5. TypeOK /\ PromiseInv /\ PeerInv /\ ConfigInv => ClientHasPeer
  <2> SUFFICES ASSUME TypeOK, PromiseInv, PeerInv, ConfigInv,
                      NEW u \in Users \ (revoked \cup overtaken),
                      proc = "up", InForce(u), ~UpdateOwed(u)
               PROVE  ClientPeer(u) \in device
    BY DEF ClientHasPeer
  <2>1. Trusts(u) /\ Current(u)
    BY DEF Trusts, Current
  <2>2. u \in Leased(promised) /\ promised[u].IP = config[u].IP
    BY <2>1 DEF ConfigInv, ConfigPromised
  <2>3. Backs(wgRecords, u, promised[u])
    BY <2>2 DEF PromiseInv, PromisesInTable
  <2>4. HasKey(wgRecords, u)
    BY <2>1 DEF ConfigInv, KeyInTable
  <2>5. RecordPeer(wgRecords, u) \in device
    BY <2>4 DEF PeerInv, HasKey, Leased
  <2> QED
    BY <2>2, <2>3, <2>4, <2>5 DEF Backs, HasKey, RecordPeer, ClientPeer
<1>7. ExchangeSpec => []KeyInv
  BY <1>2, <1>3, ExchangeImplementsServer, TypeCorrect, PTL
  DEF ExchangeSpec, Spec
<1>8. ExchangeSpec => []PeerInv
  BY <1>2, <1>4, <1>7, ExchangeImplementsServer, TypeCorrect, PTL
  DEF ExchangeSpec, Spec
<1> QED
  BY <1>5, <1>8, ConfigInvariant, ExchangeImplementsServer, TypeCorrect,
     PromisesInvariant, PTL

---------------------------------------------------------------------------
(* What agents can rely on beyond the peer.                                *)

(* The lease an agent has in force is in the leases file, with its address,*)
(* its key and no earlier expiry, whatever the server process is doing: a  *)
(* kill at any moment, and a start that can read the file, do not shut it  *)
(* out.  Excused are lines a cut save did not write, leases taken back, and*)
(* late requests of earlier runs.                                          *)
THEOREM ClientLeasesSaved == ExchangeSpec => []ClientLeaseSaved
<1>1. TypeOK /\ ExchangeTypeOK /\ PromiseInv /\ ConfigInv => ClientLeaseSaved
  <2> SUFFICES ASSUME TypeOK, ExchangeTypeOK, PromiseInv, ConfigInv,
                      NEW u \in Users \ (revoked \cup overtaken \cup lost),
                      InForce(u)
               PROVE  /\ HasKey(file, u) /\ file[u].IP = config[u].IP
                      /\ file[u].expires >= config[u].expires
    BY DEF ClientLeaseSaved
  <2>1. Trusts(u) /\ Current(u)
    BY DEF Trusts, Current
  <2>2. HasKey(file, u)
    BY <2>1 DEF ConfigInv, KeyInFile
  <2>3. /\ u \in Leased(promised) /\ promised[u].IP = config[u].IP
        /\ promised[u].expires >= config[u].expires
    BY <2>1 DEF ConfigInv, ConfigPromised
  <2>4. file[u].IP = promised[u].IP /\ file[u].expires >= promised[u].expires
    BY <2>3 DEF PromiseInv, PromisesInFile, Backs
  <2>5. /\ file[u].expires \in Nat /\ promised[u].expires \in Nat
        /\ config[u].expires \in Nat
    BY <2>2, <2>3 DEF HasKey, Leased, InForce, TypeOK, ExchangeTypeOK, Lease,
                      WGRecord, Time
  <2> QED
    BY <2>2, <2>3, <2>4, <2>5
<1> QED
  BY <1>1, ConfigInvariant, ExchangeImplementsServer, TypeCorrect,
     ExchangeTypeCorrect, PromisesInvariant, PTL

(* Two agents whose leases are in force and were not taken back have       *)
(* different addresses.                                                    *)
ClientsDistinct ==
  \A u, v \in Users \ revoked :
    (InForce(u) /\ InForce(v) /\ config[u].IP = config[v].IP) => u = v

(* So they have while the server runs and while it is down, through cut    *)
(* saves and restarts.  A lease is taken back when a later request of its  *)
(* user shortened it, or a start did not find it in the file.              *)
THEOREM ClientsApart == ExchangeSpec => []ClientsDistinct
<1>1. PromisesDistinct /\ ConfigInv => ClientsDistinct
  <2> SUFFICES ASSUME PromisesDistinct, ConfigInv,
                      NEW u \in Users \ revoked, NEW v \in Users \ revoked,
                      InForce(u), InForce(v), config[u].IP = config[v].IP
               PROVE  u = v
    BY DEF ClientsDistinct
  <2>1. Trusts(u) /\ Trusts(v)
    BY DEF Trusts
  <2>2. /\ u \in Leased(promised) /\ promised[u].IP = config[u].IP
        /\ v \in Leased(promised) /\ promised[v].IP = config[v].IP
    BY <2>1 DEF ConfigInv, ConfigPromised
  <2> QED
    BY <2>2 DEF PromisesDistinct
<1> QED
  BY <1>1, ConfigInvariant, GrantedLeasesApart, ExchangeImplementsServer, PTL
=============================================================================
