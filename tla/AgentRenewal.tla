---------------------------- MODULE AgentRenewal ----------------------------
(***************************************************************************)
(* Lease renewal in the wiresteward agent, for one device:                 *)
(* renewAllLeases of agent.go, renewLoop, triggerLeaseRenewal and the      *)
(* control of renewLease in devicemanager.go, healthcheck.go.              *)
(*                                                                         *)
(* Four kinds of goroutines signal each other over channels of capacity    *)
(* one: a caller of renewAllLeases (renewMu admits one at a time), the     *)
(* renew loop, one goroutine per retry that backs off, and one per health  *)
(* check.  A goroutine that blocks in a send is one that has not sent yet: *)
(* it may send as soon as the buffer is empty.                             *)
(***************************************************************************)
EXTENDS Integers, FiniteSets

CONSTANTS
  Servers,    \* URLs of wiresteward servers
  Retries,    \* bound: back-off goroutines alive at a time
  Checks,     \* bound: health checks alive at a time
  Threshold,  \* failing pings before a health check fires
  MaxTokens,  \* bound on the calls of renewAllLeases
  MaxFaults,  \* bound on calls that fail though the server is up
  Outages,    \* may servers go down?
  Expiry,     \* may tokens expire?
  NoServer,   \* the empty server URL
  NoCheck     \* the zero healthCheck of a new DeviceManager

ASSUME RenewalAssumption ==
  /\ Threshold \in Nat \ {0} /\ MaxTokens \in Nat /\ MaxFaults \in Nat
  /\ Outages \in BOOLEAN /\ Expiry \in BOOLEAN
  /\ NoServer \notin Servers /\ NoCheck \notin Checks
  /\ Retries \cap Checks = {} /\ IsFiniteSet(Servers)

VARIABLES
  trig,           \* what the caller of renewAllLeases does next
  cachedToken,    \* dm.cachedToken: the n-th token passed to renewAllLeases
  lapsed,         \* tokens up to this one have expired
  loop,           \* what renewLoop does next
  used,           \* the token its last renewLease read
  target,         \* the server it asks
  currentServer,  \* dm.currentServerURL
  config,         \* the server of dm.config
  lease,          \* the server whose configuration is in effect on the device
  renewChan,      \* is there an element in renewLeaseChan,
  hcRenewChan,    \* healthCheckRenewChan,
  stopBackoff,    \* stopLeaseBackoff?
  inBackoffLoop,  \* dm.inBackoffLoop
  retry,          \* retry[g]: what back-off goroutine g does next
  healthCheck,    \* dm.healthCheck
  hc,             \* hc[i]: what health check i does next
  hcServer,       \* the server it pings
  hcStop,         \* is there an element in its stop channel?
  unhealthyCount, \* its failing pings in a row
  serverURLs,     \* dm.serverURLs, from the agent's configuration
  down,           \* servers that do not answer
  faults,         \* failing calls so far
  (*************************************************************************)
  (* History, read by properties and never by a guard.                     *)
  (*************************************************************************)
  failed,         \* the last renewLease failed and is to be retried
  meant,          \* goroutines alive when the element of stopBackoff was sent
  swallowed,      \* since the last renewLease a goroutine was ended by an
                  \* element sent before it existed
  unapplied       \* the last configuration was not applied in full

callerVars  == <<trig, cachedToken>>
deviceVars  == <<config, lease, unapplied>>
loopVars    == <<loop, used, target, currentServer, deviceVars>>
backoffVars == <<stopBackoff, inBackoffLoop, meant>>
checkVars   == <<hc, hcServer, hcStop, unhealthyCount>>
worldVars   == <<serverURLs, lapsed, down>>
vars == <<callerVars, loopVars, renewChan, hcRenewChan, backoffVars, retry,
          healthCheck, checkVars, worldVars, faults, failed, swallowed>>

Expired(t) == t =< lapsed

(* A call that fails although the server would answer.                     *)
Fault == faults < MaxFaults /\ faults' = faults + 1

(* healthCheck.Stop of the check dm.healthCheck points to: nothing happens *)
(* unless its goroutine has set running.                                   *)
Stopped == [i \in Checks |-> hcStop[i] \/ (i = healthCheck /\ hc[i] = "run")]

---------------------------------------------------------------------------
(* renewAllLeases and triggerLeaseRenewal.                                 *)

CallerFrame == <<loopVars, hcRenewChan, inBackoffLoop, retry, healthCheck, hc,
                 hcServer, unhealthyCount, worldVars, faults, failed,
                 swallowed>>

setCachedToken ==
  /\ trig = "idle" /\ cachedToken < MaxTokens
  /\ cachedToken' = cachedToken + 1
  /\ trig' = "stopCheck"
  /\ UNCHANGED <<CallerFrame, renewChan, stopBackoff, meant, hcStop>>

StopHealthCheck ==
  /\ trig = "stopCheck"
  /\ hcStop' = Stopped
  /\ trig' = "load"
  /\ UNCHANGED <<CallerFrame, cachedToken, renewChan, stopBackoff, meant>>

LoadInBackoffLoop ==
  /\ trig = "load"
  /\ trig' = IF inBackoffLoop THEN "stopRetry" ELSE "signal"
  /\ UNCHANGED <<CallerFrame, cachedToken, renewChan, stopBackoff,
                 meant, hcStop>>

Alive == {g \in Retries : retry[g] # "none"}

StopBackoff ==
  /\ trig = "stopRetry"
  /\ stopBackoff' = TRUE
  /\ meant' = IF stopBackoff THEN meant ELSE Alive
  /\ trig' = "signal"
  /\ UNCHANGED <<CallerFrame, cachedToken, renewChan, hcStop>>

(* Mutant: no signal while a back-off seems to be in progress. *)
SignalUnlessBackoff ==
  /\ trig = "signal"
  /\ renewChan' = (renewChan \/ ~inBackoffLoop)
  /\ trig' = "idle"
  /\ UNCHANGED <<CallerFrame, cachedToken, stopBackoff, meant, hcStop>>

SignalRenewal ==
  /\ trig = "signal"
  /\ renewChan' = TRUE
  /\ trig' = "idle"
  /\ UNCHANGED <<CallerFrame, cachedToken, stopBackoff, meant, hcStop>>

Trigger ==
  StopHealthCheck \/ LoadInBackoffLoop \/ StopBackoff \/ SignalRenewal

---------------------------------------------------------------------------
(* renewLoop and renewLease.                                               *)

LoopFrame == <<callerVars, backoffVars, worldVars>>

TakeRenewal ==
  /\ loop = "wait" /\ renewChan
  /\ renewChan' = FALSE
  /\ loop' = "read"
  /\ UNCHANGED <<LoopFrame, used, target, currentServer, deviceVars,
                 hcRenewChan, retry, healthCheck, checkVars, faults, failed,
                 swallowed>>

TakeFailover ==
  /\ loop = "wait" /\ hcRenewChan
  /\ hcRenewChan' = FALSE
  /\ currentServer' = NoServer
  /\ loop' = "read"
  /\ UNCHANGED <<LoopFrame, used, target, deviceVars, renewChan, retry,
                 healthCheck, checkVars, faults, failed, swallowed>>

(* Mutant: a failure of the request is not retried. *)
NoRetry ==
  /\ loop' = "wait"
  /\ failed' = TRUE
  /\ UNCHANGED retry

(* renewLease returned an error: a new goroutine will retry.               *)
Retry ==
  /\ loop' = "wait"
  /\ failed' = TRUE
  /\ \E g \in Retries :
       /\ retry[g] = "none"
       /\ retry' = [retry EXCEPT ![g] = "start"]

nextServer == IF currentServer # NoServer THEN {currentServer} ELSE serverURLs

(* The token is read and validated and, unless it has expired, a server is *)
(* chosen; getKeys may fail in between.                                    *)
ReadToken(s) ==
  /\ loop = "read"
  /\ used' = cachedToken
  /\ swallowed' = FALSE
  /\ s \in nextServer
  /\ \/ /\ Expired(cachedToken)
        /\ loop' = "wait"
        /\ failed' = FALSE
        /\ UNCHANGED <<target, retry, faults>>
     \/ /\ ~Expired(cachedToken)
        /\ loop' = "request"
        /\ target' = s
        /\ failed' = FALSE
        /\ UNCHANGED <<retry, faults>>
     \/ /\ ~Expired(cachedToken)
        /\ Fault /\ Retry
        /\ UNCHANGED target
  /\ UNCHANGED <<LoopFrame, currentServer, deviceVars, renewChan,
                 hcRenewChan, healthCheck, checkVars>>

Answers == target \notin down /\ ~Expired(used)

(* Mutant: the next retry asks the same server again. *)
RequestFailsKeepingServer ==
  /\ loop = "request"
  /\ (Answers /\ Fault) \/ (~Answers /\ UNCHANGED faults)
  /\ currentServer' = target
  /\ Retry
  /\ UNCHANGED <<LoopFrame, used, target, deviceVars, renewChan, hcRenewChan,
                 healthCheck, checkVars, swallowed>>

RequestFails ==
  /\ loop = "request"
  /\ (Answers /\ Fault) \/ (~Answers /\ UNCHANGED faults)
  /\ currentServer' = NoServer
  /\ Retry
  /\ UNCHANGED <<LoopFrame, used, target, deviceVars, renewChan, hcRenewChan,
                 healthCheck, checkVars, swallowed>>

(* What happens to the device when the offered lease is not that of        *)
(* dm.config.                                                              *)
Configure ==
  /\ config' = target /\ lease' = target /\ unapplied' = FALSE
  /\ loop' = "restart"
  /\ UNCHANGED <<retry, faults, failed>>

(* updateDeviceConfig fails, which is only logged.                         *)
UpdateFails ==
  /\ Fault
  /\ lease' = NoServer /\ unapplied' = TRUE
  /\ loop' = "restart"
  /\ UNCHANGED <<config, retry, failed>>

(* setPeers fails: the renewal failed, but dm.config is the offer already, *)
(* unless updateDeviceConfig failed as well and left the device as it was, *)
(* or half changed.                                                        *)
SetPeersFails ==
  /\ Fault /\ Retry
  /\ unapplied' = TRUE
  /\ \/ config' = target /\ lease' = NoServer
     \/ UNCHANGED config /\ lease' \in {lease, NoServer}

(* Nothing is done to the device when the offer is that of dm.config: also *)
(* when that one is not in effect.                                         *)
SkipDevice ==
  /\ config = target
  /\ loop' = "restart"
  /\ UNCHANGED <<deviceVars, retry, faults, failed>>

(* A lease is offered, by a server that may have offered another one       *)
(* before.  AgentDevice has the details of configuring it.                 *)
RequestSucceeds ==
  /\ loop = "request" /\ Answers
  /\ currentServer' = target
  /\ Configure \/ UpdateFails \/ SetPeersFails \/ SkipDevice
  /\ UNCHANGED <<LoopFrame, used, target, renewChan, hcRenewChan,
                 healthCheck, checkVars, swallowed>>

(* A new health check of the server that gave the lease, if the device has *)
(* another server to fail over to.  All of it under hcMutex.               *)
RestartHealthCheck ==
  /\ loop = "restart"
  /\ loop' = "wait"
  /\ \/ /\ Cardinality(serverURLs) > 1
        /\ \E i \in Checks :
             /\ hc[i] = "none"
             /\ healthCheck' = i
             /\ hc' = [hc EXCEPT ![i] = "start"]
             /\ hcServer' = [hcServer EXCEPT ![i] = target]
             /\ hcStop' = [Stopped EXCEPT ![i] = FALSE]
             /\ unhealthyCount' = [unhealthyCount EXCEPT ![i] = 0]
     \/ /\ Cardinality(serverURLs) =< 1
        /\ UNCHANGED <<healthCheck, checkVars>>
  /\ UNCHANGED <<LoopFrame, used, target, currentServer, deviceVars,
                 renewChan, hcRenewChan, retry, faults, failed, swallowed>>

renewLease ==
  \/ \E s \in Servers : ReadToken(s)
  \/ RequestFails \/ RequestSucceeds \/ RestartHealthCheck

---------------------------------------------------------------------------
(* A back-off goroutine of renewLoop.                                      *)

BackoffFrame == <<callerVars, loopVars, hcRenewChan, healthCheck, checkVars,
                  worldVars, faults, failed>>

StartBackoff(g) ==
  /\ retry[g] = "start"
  /\ retry' = [retry EXCEPT ![g] = "sleep"]
  /\ inBackoffLoop' = TRUE
  /\ UNCHANGED <<BackoffFrame, renewChan, stopBackoff, meant, swallowed>>

BackoffElapses(g) ==
  /\ retry[g] = "sleep"
  /\ retry' = [retry EXCEPT ![g] = "send"]
  /\ UNCHANGED <<BackoffFrame, renewChan, backoffVars, swallowed>>

BackoffStopped(g) ==
  /\ retry[g] = "sleep" /\ stopBackoff
  /\ retry' = [retry EXCEPT ![g] = "leave"]
  /\ stopBackoff' = FALSE
  /\ meant' = {}
  /\ swallowed' = (swallowed \/ g \notin meant)
  /\ UNCHANGED <<BackoffFrame, renewChan, inBackoffLoop>>

BackoffSends(g) ==
  /\ retry[g] = "send" /\ ~renewChan
  /\ renewChan' = TRUE
  /\ retry' = [retry EXCEPT ![g] = "leave"]
  /\ UNCHANGED <<BackoffFrame, backoffVars, swallowed>>

LeaveBackoff(g) ==
  /\ retry[g] = "leave"
  /\ retry' = [retry EXCEPT ![g] = "none"]
  /\ inBackoffLoop' = FALSE
  /\ meant' = meant \ {g}
  /\ UNCHANGED <<BackoffFrame, renewChan, stopBackoff, swallowed>>

Backoff(g) ==
  \/ StartBackoff(g) \/ BackoffElapses(g) \/ BackoffStopped(g)
  \/ BackoffSends(g) \/ LeaveBackoff(g)

---------------------------------------------------------------------------
(* healthCheck.Run.                                                        *)

CheckFrame == <<callerVars, loopVars, renewChan, backoffVars, retry,
                healthCheck, worldVars, failed, swallowed>>

(* The goroutine returns, and nobody needs its state any more.             *)
CheckEnds(i) ==
  /\ hc' = [hc EXCEPT ![i] = "none"]
  /\ hcServer' = [hcServer EXCEPT ![i] = NoServer]
  /\ hcStop' = [hcStop EXCEPT ![i] = FALSE]
  /\ unhealthyCount' = [unhealthyCount EXCEPT ![i] = 0]

StartCheck(i) ==
  /\ hc[i] = "start"
  /\ hc' = [hc EXCEPT ![i] = "run"]
  /\ UNCHANGED <<CheckFrame, hcServer, hcRenewChan, hcStop, unhealthyCount,
                 faults>>

PingAnswered(i) ==
  /\ hc[i] = "run" /\ hcServer[i] \notin down
  /\ unhealthyCount' = [unhealthyCount EXCEPT ![i] = 0]
  /\ UNCHANGED <<CheckFrame, hcServer, hcRenewChan, hc, hcStop, faults>>

PingFailing(i) == hcServer[i] \in down \/ hcServer[i] # lease

Count(i, next) ==
  /\ hc' = [hc EXCEPT ![i] = next]
  /\ unhealthyCount' = [unhealthyCount EXCEPT ![i] = @ + 1]
  /\ UNCHANGED <<hcServer, hcStop>>

(* Mutant: the check fires one failing ping too late. *)
PingFailsBeyondThreshold(i) ==
  /\ hc[i] = "run"
  /\ (PingFailing(i) /\ UNCHANGED faults) \/ Fault
  /\ \/ unhealthyCount[i] < Threshold /\ Count(i, "run")
     \/ unhealthyCount[i] >= Threshold /\ hcStop[i] /\ CheckEnds(i)
     \/ unhealthyCount[i] >= Threshold /\ ~hcStop[i] /\ Count(i, "fire")
  /\ UNCHANGED <<CheckFrame, hcRenewChan>>

(* A ping fails when the server is down, when its lease is not in effect   *)
(* on the device, or by a fault.  At the threshold the check fires, unless *)
(* it has been told to stop.                                               *)
PingFails(i) ==
  /\ hc[i] = "run"
  /\ (PingFailing(i) /\ UNCHANGED faults) \/ Fault
  /\ \/ unhealthyCount[i] + 1 < Threshold /\ Count(i, "run")
     \/ unhealthyCount[i] + 1 >= Threshold /\ hcStop[i] /\ CheckEnds(i)
     \/ unhealthyCount[i] + 1 >= Threshold /\ ~hcStop[i] /\ Count(i, "fire")
  /\ UNCHANGED <<CheckFrame, hcRenewChan>>

CheckStopped(i) ==
  /\ hc[i] = "run" /\ hcStop[i]
  /\ CheckEnds(i)
  /\ UNCHANGED <<CheckFrame, hcRenewChan, faults>>

(* Mutant: the check goes on after it has fired. *)
CheckFiresAndStays(i) ==
  /\ hc[i] = "fire" /\ ~hcRenewChan
  /\ hcRenewChan' = TRUE
  /\ hc' = [hc EXCEPT ![i] = "run"]
  /\ unhealthyCount' = [unhealthyCount EXCEPT ![i] = 0]
  /\ UNCHANGED <<CheckFrame, hcServer, hcStop, faults>>

CheckFires(i) ==
  /\ hc[i] = "fire" /\ ~hcRenewChan
  /\ hcRenewChan' = TRUE
  /\ CheckEnds(i)
  /\ UNCHANGED <<CheckFrame, faults>>

Check(i) ==
  \/ StartCheck(i) \/ PingAnswered(i) \/ PingFails(i) \/ CheckStopped(i)
  \/ CheckFires(i)

---------------------------------------------------------------------------
(* The world: the last server up stays up.                                 *)
ServerGoesDown(s) ==
  /\ Outages
  /\ s \in serverURLs /\ serverURLs \ down # {s}
  /\ down' = down \cup {s}
  /\ UNCHANGED <<callerVars, loopVars, renewChan, hcRenewChan, backoffVars,
                 retry, healthCheck, checkVars, serverURLs, lapsed, faults,
                 failed, swallowed>>

TokenLapses ==
  /\ Expiry
  /\ lapsed' = cachedToken
  /\ UNCHANGED <<callerVars, loopVars, renewChan, hcRenewChan, backoffVars,
                 retry, healthCheck, checkVars, serverURLs, down, faults,
                 failed, swallowed>>

---------------------------------------------------------------------------
Init ==
  /\ trig = "idle" /\ cachedToken = 0 /\ lapsed = 0
  /\ loop = "wait" /\ used = 0
  /\ target = NoServer /\ currentServer = NoServer
  /\ config = NoServer /\ lease = NoServer
  /\ renewChan = FALSE /\ hcRenewChan = FALSE
  /\ stopBackoff = FALSE /\ inBackoffLoop = FALSE
  /\ retry = [g \in Retries |-> "none"]
  /\ healthCheck = NoCheck
  /\ hc = [i \in Checks |-> "none"]
  /\ hcServer = [i \in Checks |-> NoServer]
  /\ hcStop = [i \in Checks |-> FALSE]
  /\ unhealthyCount = [i \in Checks |-> 0]
  /\ serverURLs \in SUBSET Servers /\ serverURLs # {}
  /\ down = {} /\ faults = 0
  /\ failed = FALSE /\ meant = {} /\ swallowed = FALSE /\ unapplied = FALSE

Next ==
  \/ setCachedToken \/ Trigger
  \/ TakeRenewal \/ TakeFailover \/ renewLease
  \/ \E g \in Retries : Backoff(g)
  \/ \E i \in Checks : Check(i)
  \/ \E s \in Servers : ServerGoesDown(s)
  \/ TokenLapses

Spec == Init /\ [][Next]_vars

(* Every goroutine runs, timers and tickers fire.  select picks at random  *)
(* among the channels that are ready and rand.Intn among the servers, so a *)
(* choice that is open again and again is made: strong fairness.           *)
Fairness ==
  /\ WF_vars(Trigger) /\ WF_vars(renewLease)
  /\ SF_vars(TakeRenewal) /\ SF_vars(TakeFailover)
  /\ \A s \in Servers : SF_vars(ReadToken(s))
  /\ \A g \in Retries : WF_vars(Backoff(g))
  /\ \A i \in Checks : WF_vars(Check(i))

FairSpec == Spec /\ Fairness
---------------------------------------------------------------------------
(* Properties *)

(* Types.  A health check never counts beyond the threshold at which it    *)
(* fires, and the stop element was meant for goroutines still alive.       *)
TypeOK ==
  /\ trig \in {"idle", "stopCheck", "load", "stopRetry", "signal"}
  /\ loop \in {"wait", "read", "request", "restart"}
  /\ cachedToken \in Nat /\ used \in Nat /\ lapsed \in Nat /\ faults \in Nat
  /\ target \in Servers \cup {NoServer}
  /\ currentServer \in Servers \cup {NoServer}
  /\ config \in Servers \cup {NoServer}
  /\ lease \in Servers \cup {NoServer}
  /\ renewChan \in BOOLEAN /\ hcRenewChan \in BOOLEAN
  /\ stopBackoff \in BOOLEAN /\ inBackoffLoop \in BOOLEAN
  /\ retry \in [Retries -> {"none", "start", "sleep", "send", "leave"}]
  /\ healthCheck \in Checks \cup {NoCheck}
  /\ hc \in [Checks -> {"none", "start", "run", "fire"}]
  /\ hcServer \in [Checks -> Servers \cup {NoServer}]
  /\ hcStop \in [Checks -> BOOLEAN]
  /\ unhealthyCount \in [Checks -> 0 .. Threshold]
  /\ serverURLs \in SUBSET Servers /\ down \in SUBSET Servers
  /\ failed \in BOOLEAN /\ swallowed \in BOOLEAN /\ unapplied \in BOOLEAN
  /\ meant \in SUBSET Alive

(* A token passed to renewAllLeases is picked up: once the call is over the*)
(* renew loop has read that token or has yet to read one, although the     *)
(* signal is dropped when the channel is full.                             *)
TokenPickedUp ==
  (trig = "idle" /\ used # cachedToken) => (renewChan \/ loop = "read")

RenewalPending ==
  \/ renewChan \/ hcRenewChan \/ loop = "read" \/ trig # "idle"
  \/ \E g \in Retries : retry[g] \in {"start", "sleep", "send"}

(* While a renewal has failed and is to be retried, something will lead to *)
(* another attempt, unless the element a stopped back-off left in the      *)
(* channel has ended the retry that came after it.                         *)
RetryPending == (failed /\ ~swallowed) => RenewalPending

Busy ==
  {g \in Retries : retry[g] \in {"start", "sleep", "send"}}
    \cup {i \in Checks : hc[i] # "none"}

One(b) == IF b THEN 1 ELSE 0

(* Renewals do not pile up: each call of renewAllLeases accounts for at    *)
(* most one signal, attempt, back-off or health check, however often those *)
(* turn into each other.                                                   *)
NoPileUp ==
  Cardinality(Busy) + One(renewChan) + One(hcRenewChan) + One(loop # "wait")
    + One(trig # "idle") =< cachedToken

Renewing == RenewalPending \/ loop # "wait"

(* If there is a server to fail over to, a health check of the current one *)
(* is running that nobody has stopped.                                     *)
Checked ==
  Cardinality(serverURLs) > 1
    => \E i \in Checks :
         hc[i] # "none" /\ hcServer[i] = currentServer /\ ~hcStop[i]

(* The lease of the current server is in effect and looked after.          *)
Held == lease # NoServer /\ lease = currentServer /\ Checked

(* A device at rest has its lease looked after, unless its token has       *)
(* expired or its last renewal failed: no interleaving of triggers, stops, *)
(* restarts and late firings leaves it with a server that no health check  *)
(* watches, and the lease of that server is in effect unless the device    *)
(* refused its configuration.                                              *)
LeaseWatched ==
  (cachedToken # 0 /\ ~Renewing /\ ~failed)
    => (Held \/ (Checked /\ unapplied) \/ Expired(used))

Phase ==
  IF Renewing THEN "renewing"
  ELSE IF cachedToken = 0 THEN "idle"
  ELSE IF failed THEN "stranded"
  ELSE IF Held THEN "held"
  ELSE IF Checked /\ unapplied THEN "refused" ELSE "expired"

Upkeep == INSTANCE LeaseUpkeep WITH
  token <- cachedToken, tried <- used, phase <- Phase

(* The goroutines of one device implement the abstract upkeep of a lease.  *)
UpkeepSpec == Upkeep!Spec

(* devicemanager.go:131, "Cannot update lease for %s, will retry in %s":   *)
(* a failed renewal is always followed by another attempt.                 *)
FailureRetried == failed => RenewalPending

Served == lease \in serverURLs \ down

(* The agent ends up with a lease in effect of a server that answers,      *)
(* whatever fails over, backs off and is triggered in between, unless the  *)
(* token has expired, a retry was swallowed or the device has refused a    *)
(* configuration: the retry of a failing setPeers skips the device.        *)
LeaseRecovers ==
  (cachedToken # 0 /\ ~Served)
    ~> (Served \/ Expired(cachedToken) \/ swallowed \/ unapplied)
=============================================================================
