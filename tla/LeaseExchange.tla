--------------------------- MODULE LeaseExchange ---------------------------
(***************************************************************************)
(* Agents and the lease server together: requestWirestewardPeerConfig of   *)
(* devicemanager.go against newPeerLease.  Every step of the server is one *)
(* of LeaseManager, whose requests now come from agents.  An agent has one *)
(* request at a time, of the public key of its device; it gives up after   *)
(* its HTTP timeout, or when it is restarted, and the handler of the server*)
(* goes on without it.                                                     *)
(***************************************************************************)
EXTENDS LeaseManager

CONSTANTS
  MaxTimeouts, \* bound on requests given up
  NoHandler    \* "no request under way"

VARIABLES
  key,       \* key[u]: the public key of the device of u's agent
  spare,     \* spare[u]: the keys its later runs may generate
  asking,    \* asking[u]: the handler whose answer the agent waits for
  config,    \* config[u]: the lease the agent has configured
  timeouts,  \* requests given up so far
  overtaken, \* history: users whose record was written for a key that is not
             \* the one of the running agent, and has not been put right
  revoked    \* history: users whose agent has a lease configured that was
             \* taken back after it was granted

agentVars    == <<key, spare, asking, config, timeouts, overtaken, revoked>>
exchangeVars == <<vars, agentVars>>

(* An agent's device generates its keys: they parse and are its own.       *)
ASSUME ExchangeAssumption ==
  /\ MaxTimeouts \in Nat /\ NoHandler \notin Handlers
  /\ \A u \in Users : KeysOf[u] # {} /\ KeysOf[u] \subseteq ParsableKeys
  /\ \A u, v \in Users : u # v => KeysOf[u] \cap KeysOf[v] = {}

Awaited == {asking[u] : u \in Users} \ {NoHandler}

(* An agent whose handler has finished, or whose server has ended, gets an *)
(* error: renewLease returns it.                                           *)
HangUp ==
  asking' = [u \in Users |->
               IF asking[u] \in Handlers /\ pc'[asking[u]] = "idle"
                 THEN NoHandler ELSE asking[u]]

(* History: promises taken back in this step, or expired.                  *)
Revoke ==
  revoked' = revoked \cup
    {u \in Users : promised[u] # NoLease /\ promised'[u] = NoLease}

---------------------------------------------------------------------------
(* Agents. *)

(* renewLease posts the key of the device with the token. *)
Ask(u) ==
  /\ asking[u] = NoHandler
  /\ \E h \in Handlers :
       /\ ReceiveRequest(h)
       /\ req'[h].user = u /\ req'[h].PubKey = key[u]
       /\ asking' = [asking EXCEPT ![u] = h]
  /\ UNCHANGED <<key, spare, config, timeouts, overtaken, revoked>>

(* The client's timeout, a broken connection, an error of the server after *)
(* the lease was saved.  What the handler still does nobody waits for.     *)
TimesOut(u) ==
  /\ asking[u] # NoHandler /\ timeouts < MaxTimeouts
  /\ timeouts' = timeouts + 1
  /\ asking' = [asking EXCEPT ![u] = NoHandler]
  /\ UNCHANGED <<vars, key, spare, config, overtaken, revoked>>

(* Mutant: the request of the earlier run is answered to the new one.      *)
RestartStillAsking(u) ==
  /\ \E k \in spare[u] :
       /\ key' = [key EXCEPT ![u] = k]
       /\ spare' = [spare EXCEPT ![u] = @ \ {k}]
  /\ config' = [config EXCEPT ![u] = NoLease]
  /\ UNCHANGED <<vars, asking, timeouts, overtaken, revoked>>

(* A new run of the agent: a device without keys gets a new one.           *)
Restart(u) ==
  /\ \E k \in spare[u] :
       /\ key' = [key EXCEPT ![u] = k]
       /\ spare' = [spare EXCEPT ![u] = @ \ {k}]
  /\ asking' = [asking EXCEPT ![u] = NoHandler]
  /\ config' = [config EXCEPT ![u] = NoLease]
  /\ UNCHANGED <<vars, timeouts, overtaken, revoked>>

HasKey(recs, u) == recs[u] # NoLease /\ recs[u].PubKey = key[u]

(* The reply reaches the agent, which configures the address it names.     *)
(* History: it puts right what was overtaken if the record, in the table   *)
(* and in the file, has its key, and what was revoked unless the lease it  *)
(* brings has been shortened meanwhile.                                    *)
Answer(u) ==
  LET h == asking[u]
  IN  /\ h # NoHandler /\ Reply(h)
      /\ Promises(h) => promised'[u] = resp[h]
      /\ config' = [config EXCEPT ![u] = resp[h]]
      /\ HangUp
      /\ overtaken' = IF HasKey(wgRecords, u) /\ HasKey(file, u)
                         THEN overtaken \ {u} ELSE overtaken
      /\ revoked' = IF h \in void THEN revoked \cup {u} ELSE revoked \ {u}
      /\ UNCHANGED <<key, spare, timeouts>>

---------------------------------------------------------------------------
(* The server. *)

(* History: the record of the user of request r is written.                *)
Written(r) ==
  overtaken' = IF r.PubKey = key[r.user]
                 THEN overtaken ELSE overtaken \cup {r.user}

(* A step of a handler; the reply to an agent that waits is Answer.        *)
Serve(h) ==
  /\ Handle(h)
  /\ pc[h] = "reply" => h \notin Awaited
  /\ HangUp /\ Revoke
  /\ IF pc[h] = "create" /\ pc'[h] # "idle"
       THEN Written(req[h]) ELSE UNCHANGED overtaken
  /\ UNCHANGED <<key, spare, config, timeouts>>

ServerStep ==
  /\ Tick \/ Quit \/ Kill \/ Reboot \/ Start \/ StartRefused \/ Sync
  /\ HangUp /\ Revoke
  /\ UNCHANGED <<key, spare, config, timeouts, overtaken>>

---------------------------------------------------------------------------
ExchangeInit ==
  /\ Init
  /\ key = [u \in Users |-> CHOOSE k \in KeysOf[u] : TRUE]
  /\ spare = [u \in Users |-> KeysOf[u] \ {key[u]}]
  /\ asking = [u \in Users |-> NoHandler]
  /\ config = [u \in Users |-> NoLease]
  /\ timeouts = 0 /\ overtaken = {} /\ revoked = {}

AgentStep(u) == Ask(u) \/ TimesOut(u) \/ Restart(u) \/ Answer(u)

ExchangeNext ==
  \/ ServerStep
  \/ \E h \in Handlers : Serve(h)
  \/ \E u \in Users : AgentStep(u)

(* The scheduler runs every handler.  Nothing makes an agent ask, a reply  *)
(* arrive or a server start.                                               *)
ExchangeFairness == \A h \in Handlers : WF_exchangeVars(Serve(h))

ExchangeSpec ==
  ExchangeInit /\ [][ExchangeNext]_exchangeVars /\ ExchangeFairness
---------------------------------------------------------------------------
(* Properties *)

(* Types.  An agent waits for a handler that serves a request of its own,  *)
(* for the key its device has now.                                         *)
ExchangeTypeOK ==
  /\ key \in [Users -> Keys] /\ spare \in [Users -> SUBSET Keys]
  /\ asking \in [Users -> Handlers \cup {NoHandler}]
  /\ config \in [Users -> Lease]
  /\ timeouts \in 0 .. MaxTimeouts
  /\ overtaken \in SUBSET Users /\ revoked \in SUBSET Users
  /\ \A u \in Users : asking[u] # NoHandler =>
       /\ pc[asking[u]] # "idle"
       /\ req[asking[u]].user = u /\ req[asking[u]].PubKey = key[u]

InForce(u) == config[u] # NoLease /\ config[u].expires > now

ClientPeer(u) == [PubKey |-> key[u], IP |-> config[u].IP]

UpdateOwed(u) ==
  deviceStale \/ \E h \in Handlers : pc[h] = "update" /\ req[h].user = u

(* An agent with a lease in force has its peer on the server's device as   *)
(* long as the server is up: the lease it was answered with is not only    *)
(* recorded.  Excused are a device update of its own that failed or is     *)
(* still to come (lease.go:182 answers without it), a request of an        *)
(* earlier run that reached the table after a later one, and a lease that  *)
(* was taken back since: a late request has shortened it, or a start did   *)
(* not find it, because a save was cut or the file could not be read.      *)
ClientHasPeer ==
  \A u \in Users \ (revoked \cup overtaken) :
    (proc = "up" /\ InForce(u) /\ ~UpdateOwed(u)) => ClientPeer(u) \in device

(* The lease of an agent survives the server: whatever happens to the      *)
(* process, also between the steps of other requests, the leases file has  *)
(* the agent's address and key until its lease expires, so that the next   *)
(* start that can read the file lets it in without being asked.  Excused   *)
(* are the lines that a cut save did not write, and what ClientHasPeer     *)
(* excuses of the request and the lease.                                   *)
ClientLeaseSaved ==
  \A u \in Users \ (revoked \cup overtaken \cup lost) :
    InForce(u) =>
      /\ HasKey(file, u) /\ file[u].IP = config[u].IP
      /\ file[u].expires >= config[u].expires

(* An agent answered before the device was updated for it (lease.go:182)   *)
(* is not left waiting: the update is made in the end, by the request that *)
(* owes it, also when its own client has given up, or it fails.            *)
LeasesTakeEffect ==
  \A u \in Users :
    (proc = "up" /\ InForce(u))
      ~> (\/ proc # "up" \/ ~InForce(u) \/ u \in revoked \cup overtaken
          \/ deviceStale \/ (InForce(u) /\ ClientPeer(u) \in device))
=============================================================================
