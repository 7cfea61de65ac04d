------------------------- MODULE AgentRenewalProofs -------------------------
(***************************************************************************)
(* Theorems about AgentRenewal, for any servers, any number of goroutines  *)
(* and any bounds.                                                         *)
(***************************************************************************)
EXTENDS AgentRenewal, FiniteSetTheorems, TLAPS

(* A check that runs is below the threshold: it fires on reaching it.      *)
BelowThreshold ==
  \A i \in Checks : hc[i] \in {"start", "run"} => unhealthyCount[i] < Threshold

TypeInv == TypeOK /\ BelowThreshold

(* The initial state has the types, with no failing ping counted.          *)
LEMMA TypeInit == Init => TypeInv
<1> SUFFICES ASSUME Init PROVE TypeInv
  OBVIOUS
<1> USE RenewalAssumption DEF Init
<1>1. /\ retry \in [Retries -> {"none", "start", "sleep", "send", "leave"}]
      /\ hc \in [Checks -> {"none", "start", "run", "fire"}]
      /\ hcServer \in [Checks -> Servers \cup {NoServer}]
      /\ hcStop \in [Checks -> BOOLEAN]
  OBVIOUS
<1>2. unhealthyCount \in [Checks -> 0 .. Threshold]
  OBVIOUS
<1>3. BelowThreshold
  BY DEF BelowThreshold
<1> QED
  BY <1>1, <1>2, <1>3 DEF TypeInv, TypeOK

(* The steps of a call of renewAllLeases keep the types.                   *)
LEMMA TypeCaller ==
  ASSUME TypeInv, setCachedToken \/ Trigger
  PROVE  TypeInv'
<1> USE DEF TypeInv, TypeOK, CallerFrame, loopVars, deviceVars, worldVars,
            BelowThreshold, Alive
<1>1. CASE setCachedToken
  BY <1>1 DEF setCachedToken
<1>2. CASE StopHealthCheck
  <2>1. hcStop' \in [Checks -> BOOLEAN]
    BY <1>2 DEF StopHealthCheck, Stopped
  <2> QED
    BY <1>2, <2>1 DEF StopHealthCheck
<1>3. CASE LoadInBackoffLoop
  BY <1>3 DEF LoadInBackoffLoop
<1>4. CASE StopBackoff
  BY <1>4 DEF StopBackoff
<1>5. CASE SignalRenewal
  BY <1>5 DEF SignalRenewal
<1> QED
  BY <1>1, <1>2, <1>3, <1>4, <1>5 DEF Trigger

(* The steps of the renew loop keep the types.                             *)
LEMMA TypeLoop ==
  ASSUME TypeInv, TakeRenewal \/ TakeFailover \/ renewLease
  PROVE  TypeInv'
<1> USE DEF TypeInv, TypeOK, LoopFrame, callerVars, backoffVars, worldVars,
            deviceVars
<1>1. CASE TakeRenewal
  <2>1. BelowThreshold' /\ meant' \in SUBSET Alive'
    BY <1>1 DEF TakeRenewal, BelowThreshold, checkVars, Alive
  <2>2. /\ loop' = "read" /\ renewChan' = FALSE
        /\ UNCHANGED <<LoopFrame, used, target, currentServer, deviceVars,
                       hcRenewChan, retry,
                       healthCheck, checkVars, faults, failed, swallowed>>
    BY <1>1 DEF TakeRenewal
  <2>3. /\ renewChan' \in BOOLEAN /\ hcRenewChan' \in BOOLEAN
        /\ stopBackoff' \in BOOLEAN /\ inBackoffLoop' \in BOOLEAN
        /\ failed' \in BOOLEAN /\ swallowed' \in BOOLEAN
        /\ unapplied' \in BOOLEAN
    BY <2>2, Zenon
  <2> QED
    BY <2>1, <2>2, <2>3 DEF checkVars
<1>6. CASE TakeFailover
  <2>1. BelowThreshold' /\ meant' \in SUBSET Alive'
    BY <1>6 DEF TakeFailover, BelowThreshold, checkVars, Alive
  <2>2. /\ loop' = "read" /\ hcRenewChan' = FALSE /\ currentServer' = NoServer
        /\ UNCHANGED <<LoopFrame, used, target, deviceVars, renewChan, retry,
                       healthCheck, checkVars, faults, failed, swallowed>>
    BY <1>6 DEF TakeFailover
  <2>3. /\ renewChan' \in BOOLEAN /\ hcRenewChan' \in BOOLEAN
        /\ stopBackoff' \in BOOLEAN /\ inBackoffLoop' \in BOOLEAN
        /\ failed' \in BOOLEAN /\ swallowed' \in BOOLEAN
        /\ unapplied' \in BOOLEAN
    BY <2>2, Zenon
  <2> QED
    BY <2>1, <2>2, <2>3 DEF checkVars
<1>2. ASSUME NEW s \in Servers, ReadToken(s)
      PROVE  TypeInv'
  <2>1. /\ retry' \in [Retries -> {"none", "start", "sleep", "send", "leave"}]
        /\ meant' \in SUBSET Alive'
    BY <1>2 DEF ReadToken, Retry, Alive
  <2>2. faults' \in Nat
    <3>1. UNCHANGED faults \/ Fault
      BY <1>2 DEF ReadToken
    <3> QED
      BY <3>1 DEF Fault
  <2>3. BelowThreshold'
    BY <1>2 DEF ReadToken, BelowThreshold, checkVars
  <2>4. failed' \in BOOLEAN
    BY <1>2, Zenon DEF ReadToken, Retry
  <2>5. /\ loop' \in {"wait", "read", "request", "restart"}
        /\ target' \in Servers \cup {NoServer}
    BY <1>2 DEF ReadToken, Retry
  <2>6. /\ used' = cachedToken /\ swallowed' = FALSE
        /\ UNCHANGED <<LoopFrame, currentServer, deviceVars, renewChan,
                       hcRenewChan, healthCheck, checkVars>>
    BY <1>2 DEF ReadToken
  <2>7. /\ renewChan' \in BOOLEAN /\ hcRenewChan' \in BOOLEAN
        /\ stopBackoff' \in BOOLEAN /\ inBackoffLoop' \in BOOLEAN
        /\ failed' \in BOOLEAN /\ swallowed' \in BOOLEAN
        /\ unapplied' \in BOOLEAN
    BY <2>4, <2>6, Zenon
  <2> QED
    BY <2>1, <2>2, <2>3, <2>5, <2>6, <2>7 DEF checkVars
<1>3. CASE RequestFails
  <2>1. /\ retry' \in [Retries -> {"none", "start", "sleep", "send", "leave"}]
        /\ meant' \in SUBSET Alive'
    BY <1>3 DEF RequestFails, Retry, Alive
  <2>2. BelowThreshold'
    BY <1>3 DEF RequestFails, BelowThreshold, checkVars
  <2> QED
    BY <1>3, <2>1, <2>2 DEF RequestFails, Retry, Fault, checkVars
<1>4. CASE RequestSucceeds
  <2>0. /\ currentServer' = target
        /\ UNCHANGED <<LoopFrame, used, target, renewChan, hcRenewChan,
                       healthCheck, checkVars, swallowed>>
        /\ Configure \/ UpdateFails \/ SetPeersFails \/ SkipDevice
    BY <1>4 DEF RequestSucceeds
  <2>1. /\ retry' \in [Retries -> {"none", "start", "sleep", "send", "leave"}]
        /\ meant' \in SUBSET Alive'
    BY <2>0 DEF Configure, UpdateFails, SetPeersFails, SkipDevice, Retry, Alive
  <2>2. BelowThreshold'
    BY <2>0 DEF BelowThreshold, checkVars
  <2>3. failed' \in BOOLEAN /\ unapplied' \in BOOLEAN
    BY <2>0, Zenon
       DEF Configure, UpdateFails, SetPeersFails, SkipDevice, Retry
  <2>4. /\ lease' \in Servers \cup {NoServer}
        /\ config' \in Servers \cup {NoServer}
        /\ loop' \in {"wait", "read", "request", "restart"}
    BY <2>0 DEF Configure, UpdateFails, SetPeersFails, SkipDevice, Retry
  <2>5. faults' \in Nat
    BY <2>0 DEF Configure, UpdateFails, SetPeersFails, SkipDevice, Fault
  <2> QED
    BY <2>0, <2>1, <2>2, <2>3, <2>4, <2>5 DEF checkVars
<1>5. CASE RestartHealthCheck
  <2>1. BelowThreshold' /\ unhealthyCount' \in [Checks -> 0 .. Threshold]
    BY <1>5, RenewalAssumption
       DEF RestartHealthCheck, BelowThreshold, checkVars
  <2>2. /\ hc' \in [Checks -> {"none", "start", "run", "fire"}]
        /\ hcServer' \in [Checks -> Servers \cup {NoServer}]
        /\ healthCheck' \in Checks \cup {NoCheck}
        /\ meant' \in SUBSET Alive'
    BY <1>5 DEF RestartHealthCheck, checkVars, Alive
  <2>4. Stopped \in [Checks -> BOOLEAN]
    BY DEF Stopped
  <2>5. hcStop' \in [Checks -> BOOLEAN]
    <3>1. \/ \E i \in Checks : hcStop' = [Stopped EXCEPT ![i] = FALSE]
          \/ UNCHANGED hcStop
      BY <1>5 DEF RestartHealthCheck, checkVars
    <3> QED
      BY <2>4, <3>1
  <2>3. /\ loop' = "wait"
        /\ UNCHANGED <<LoopFrame, used, target, currentServer, deviceVars,
                       renewChan, hcRenewChan, retry, faults, failed,
                       swallowed>>
    BY <1>5 DEF RestartHealthCheck
  <2> QED
    BY <2>1, <2>2, <2>3, <2>5
<1> QED
  BY <1>1, <1>2, <1>3, <1>4, <1>5, <1>6 DEF renewLease

(* The steps of a back-off goroutine keep the types.                       *)
LEMMA TypeBackoff ==
  ASSUME TypeInv, NEW g \in Retries, Backoff(g)
  PROVE  TypeInv'
<1> USE DEF TypeInv, TypeOK, BackoffFrame, callerVars, loopVars, deviceVars,
            worldVars, backoffVars
<1>1. /\ retry' \in [Retries -> {"none", "start", "sleep", "send", "leave"}]
      /\ meant' \in SUBSET Alive'
  BY DEF Backoff, StartBackoff, BackoffElapses, BackoffStopped, BackoffSends,
         LeaveBackoff, Alive
<1>2. BelowThreshold'
  BY DEF Backoff, StartBackoff, BackoffElapses, BackoffStopped, BackoffSends,
         LeaveBackoff, BelowThreshold, checkVars
<1>3. /\ renewChan' \in BOOLEAN /\ stopBackoff' \in BOOLEAN
      /\ inBackoffLoop' \in BOOLEAN /\ swallowed' \in BOOLEAN
  BY Zenon DEF Backoff, StartBackoff, BackoffElapses, BackoffStopped,
               BackoffSends, LeaveBackoff
<1>4. UNCHANGED BackoffFrame
  BY DEF Backoff, StartBackoff, BackoffElapses, BackoffStopped, BackoffSends,
         LeaveBackoff
<1> QED
  BY <1>1, <1>2, <1>3, <1>4 DEF checkVars

(* The steps of a health check keep the types.                             *)
LEMMA TypeCheck ==
  ASSUME TypeInv, NEW i \in Checks, Check(i)
  PROVE  TypeInv'
<1> USE DEF TypeInv, TypeOK, CheckFrame, callerVars, loopVars, deviceVars,
            worldVars, backoffVars
<1>1. unhealthyCount' \in [Checks -> 0 .. Threshold] /\ BelowThreshold'
  <2> USE RenewalAssumption DEF BelowThreshold
  <2>1. CASE StartCheck(i) \/ PingAnswered(i)
    BY <2>1 DEF StartCheck, PingAnswered
  <2>2. CASE CheckEnds(i)
    BY <2>2 DEF CheckEnds
  <2>3. CASE PingFails(i)
    BY <2>2, <2>3 DEF PingFails, Count
  <2>4. CASE CheckStopped(i) \/ CheckFires(i)
    BY <2>2, <2>4 DEF CheckStopped, CheckFires
  <2> QED
    BY <2>1, <2>3, <2>4 DEF Check
<1>2. /\ hc' \in [Checks -> {"none", "start", "run", "fire"}]
      /\ hcServer' \in [Checks -> Servers \cup {NoServer}]
      /\ meant' \in SUBSET Alive'
  BY DEF Check, StartCheck, PingAnswered, PingFails, CheckStopped, CheckFires,
         CheckEnds, Count, Alive
<1>5. hcStop' \in [Checks -> BOOLEAN]
  BY DEF Check, StartCheck, PingAnswered, PingFails, CheckStopped, CheckFires,
         CheckEnds, Count
<1>3. faults' \in Nat
  BY DEF Check, StartCheck, PingAnswered, PingFails, CheckStopped, CheckFires,
         Fault
<1>4. hcRenewChan' \in BOOLEAN /\ UNCHANGED CheckFrame
  BY DEF Check, StartCheck, PingAnswered, PingFails, CheckStopped, CheckFires
<1> QED
  BY <1>1, <1>2, <1>3, <1>4, <1>5

(* Servers that go down and tokens that expire keep the types.             *)
LEMMA TypeWorld ==
  ASSUME TypeInv, TokenLapses \/ \E s \in Servers : ServerGoesDown(s)
  PROVE  TypeInv'
  BY DEF TypeInv, TypeOK, BelowThreshold, TokenLapses, ServerGoesDown,
         callerVars, loopVars, deviceVars, backoffVars, checkVars, Alive

(* So does every step.                                                     *)
LEMMA TypeStep == TypeInv /\ [Next]_vars => TypeInv'
<1>1. ASSUME TypeInv, UNCHANGED vars
      PROVE  TypeInv'
  BY <1>1 DEF TypeInv, TypeOK, BelowThreshold, vars, callerVars, loopVars,
              deviceVars, backoffVars, checkVars, worldVars, Alive
<1> QED
  BY <1>1, TypeCaller, TypeLoop, TypeBackoff, TypeCheck, TypeWorld DEF Next

(* Every variable keeps its type; in particular a health check never counts*)
(* more failing pings than the threshold, and the element of               *)
(* stopLeaseBackoff is only meant for goroutines that are alive.           *)
THEOREM RenewalTypeCorrect == Spec => []TypeOK
<1>1. TypeInv => TypeOK
  BY DEF TypeInv
<1> QED
  BY TypeInit, TypeStep, <1>1, PTL DEF Spec

(* A token passed to renewAllLeases is picked up by the renew loop,        *)
(* although the signal is dropped when the channel is full: the loop has   *)
(* read it, or has yet to read one.                                        *)
THEOREM TokensPickedUp == Spec => []TokenPickedUp
<1>1. Init => TokenPickedUp
  BY DEF Init, TokenPickedUp
<1>2. ASSUME TokenPickedUp, [Next]_vars
      PROVE  TokenPickedUp'
  <2> USE <1>2 DEF TokenPickedUp
  <2>1. CASE UNCHANGED vars
    BY <2>1 DEF vars, callerVars, loopVars
  <2>2. CASE setCachedToken \/ Trigger
    BY <2>2 DEF setCachedToken, Trigger, StopHealthCheck, LoadInBackoffLoop,
                StopBackoff, SignalRenewal, CallerFrame, loopVars
  <2>3. CASE TakeRenewal \/ TakeFailover \/ renewLease
    BY <2>3 DEF TakeRenewal, TakeFailover, renewLease, ReadToken, RequestFails,
                RequestSucceeds, RestartHealthCheck, LoopFrame, callerVars
  <2>4. ASSUME NEW g \in Retries, Backoff(g)
        PROVE  TokenPickedUp'
    BY <2>4 DEF Backoff, StartBackoff, BackoffElapses, BackoffStopped,
                BackoffSends, LeaveBackoff, BackoffFrame, callerVars, loopVars
  <2>5. ASSUME NEW i \in Checks, Check(i)
        PROVE  TokenPickedUp'
    BY <2>5 DEF Check, StartCheck, PingAnswered, PingFails, CheckStopped,
                CheckFires, CheckFrame, callerVars, loopVars
  <2>6. CASE TokenLapses \/ \E s \in Servers : ServerGoesDown(s)
    BY <2>6 DEF TokenLapses, ServerGoesDown, callerVars, loopVars
  <2> QED
    BY <2>1, <2>2, <2>3, <2>4, <2>5, <2>6 DEF Next
<1> QED
  BY <1>1, <1>2, PTL DEF Spec

(* A request that succeeds is retried or ends in a restart of the check.   *)
LEMMA RequestOutcome ==
  ASSUME RequestSucceeds
  PROVE  \/ Retry
         \/ loop' = "restart" /\ UNCHANGED <<retry, failed>>
  BY DEF RequestSucceeds, Configure, UpdateFails, SetPeersFails, SkipDevice

(* The element of stopLeaseBackoff, sent for goroutines alive at the time, *)
(* is followed by the renewal signal of the same call.  Until a renewal has*)
(* begun that signal, or a goroutine the element is not meant for, keeps   *)
(* the failed renewal from being forgotten.                                *)
Signalled == trig # "idle" \/ renewChan \/ loop = "read"
Waiting   == {g \in Retries : retry[g] \in {"start", "sleep", "send"}}

StopCovered ==
  (failed /\ ~swallowed /\ stopBackoff)
    => (Signalled \/ Waiting \ meant # {})

RetryInv == TypeInv /\ RetryPending /\ StopCovered

(* The steps of the caller of renewAllLeases keep RetryInv: the call has   *)
(* its signal to send until the last step sends it.                        *)
LEMMA RetryCaller ==
  ASSUME RetryInv, setCachedToken \/ Trigger
  PROVE  (RetryPending /\ StopCovered)'
  BY DEF RetryPending, StopCovered, RenewalPending, Signalled, setCachedToken,
         Trigger, StopHealthCheck, LoadInBackoffLoop, StopBackoff,
         SignalRenewal

(* An attempt that fails leaves a new goroutine, for which no element in   *)
(* the channel is meant.                                                   *)
LEMMA RetryLoop ==
  ASSUME RetryInv, TakeRenewal \/ TakeFailover \/ renewLease
  PROVE  (RetryPending /\ StopCovered)'
<1> USE DEF RetryPending, StopCovered, RenewalPending, Signalled, Waiting,
            LoopFrame, callerVars, backoffVars
<1>1. ASSUME Retry, UNCHANGED <<callerVars, backoffVars>>
      PROVE  (RetryPending /\ StopCovered)'
  <2>1. PICK g \in Retries :
          retry[g] = "none" /\ retry' = [retry EXCEPT ![g] = "start"]
    BY <1>1 DEF Retry
  <2>2. g \notin meant /\ retry'[g] = "start"
    BY <2>1 DEF RetryInv, TypeInv, TypeOK, Alive
  <2> QED
    BY <1>1, <2>2
<1>2. CASE TakeRenewal \/ TakeFailover
  BY <1>2 DEF TakeRenewal, TakeFailover
<1>3. ASSUME NEW s \in Servers, ReadToken(s)
      PROVE  (RetryPending /\ StopCovered)'
  BY <1>1, <1>3 DEF ReadToken
<1>4. CASE RequestFails
  BY <1>1, <1>4 DEF RequestFails
<1>5. CASE RequestSucceeds
  <2>1. CASE Retry
    BY <1>1, <1>5, <2>1 DEF RequestSucceeds
  <2>2. CASE loop' = "restart" /\ UNCHANGED <<retry, failed>>
    BY <1>5, <2>2 DEF RequestSucceeds, RetryInv
  <2> QED
    BY <1>5, <2>1, <2>2, RequestOutcome
<1>6. CASE RestartHealthCheck
  BY <1>6 DEF RestartHealthCheck, RetryInv
<1> QED
  BY <1>2, <1>3, <1>4, <1>5, <1>6 DEF renewLease

(* A goroutine that ends has sent the signal, or was meant to end, or      *)
(* swallowed the element.                                                  *)
LEMMA RetryBackoff ==
  ASSUME RetryInv, NEW g \in Retries, Backoff(g)
  PROVE  (RetryPending /\ StopCovered)'
<1> USE DEF RetryInv, TypeInv, TypeOK, RetryPending, StopCovered,
            RenewalPending, Signalled, Waiting, BackoffFrame, callerVars,
            loopVars, backoffVars
<1>1. CASE StartBackoff(g)
  BY <1>1 DEF StartBackoff
<1>2. CASE BackoffElapses(g)
  BY <1>2 DEF BackoffElapses
<1>3. CASE BackoffStopped(g)
  BY <1>3 DEF BackoffStopped
<1>4. CASE BackoffSends(g)
  BY <1>4 DEF BackoffSends
<1>5. CASE LeaveBackoff(g)
  BY <1>5 DEF LeaveBackoff
<1> QED
  BY <1>1, <1>2, <1>3, <1>4, <1>5 DEF Backoff

(* RetryInv is inductive.                                                  *)
LEMMA RetryInvariant == Spec => []RetryInv
<1>1. Init => RetryInv
  BY TypeInit DEF Init, RetryInv, RetryPending, StopCovered
<1>2. ASSUME RetryInv, [Next]_vars
      PROVE  RetryInv'
  <2>1. TypeInv'
    BY <1>2, TypeStep DEF RetryInv
  <2> USE <1>2 DEF RetryPending, StopCovered, RenewalPending, Signalled,
                   Waiting, RetryInv
  <2>2. CASE UNCHANGED vars
    BY <2>1, <2>2 DEF vars, callerVars, loopVars, backoffVars
  <2>3. ASSUME NEW i \in Checks, Check(i)
        PROVE  (RetryPending /\ StopCovered)'
    BY <2>3 DEF Check, StartCheck, PingAnswered, PingFails, CheckStopped,
                CheckFires, CheckFrame, callerVars, loopVars, backoffVars
  <2>4. CASE TokenLapses \/ \E s \in Servers : ServerGoesDown(s)
    BY <2>1, <2>4
       DEF TokenLapses, ServerGoesDown, callerVars, loopVars, backoffVars
  <2> QED
    BY <2>1, <2>2, <2>3, <2>4, RetryCaller, RetryLoop, RetryBackoff DEF Next
<1> QED
  BY <1>1, <1>2, PTL DEF Spec

(* A failed renewal that is to be retried is never forgotten, except by a  *)
(* goroutine that ends on an element of stopLeaseBackoff sent before it    *)
(* existed: that is the only way a retry is lost.                          *)
THEOREM RetriesPending == Spec => []RetryPending
<1>1. RetryInv => RetryPending
  BY DEF RetryInv
<1> QED
  BY <1>1, RetryInvariant, PTL

(* What is neither a back-off goroutine nor a health check and may still   *)
(* become one: signals in the channels, the renew loop at work, the call.  *)
Flags ==
  One(renewChan) + One(hcRenewChan) + One(loop # "wait") + One(trig # "idle")

LoadInv == TypeInv /\ IsFiniteSet(Busy) /\ NoPileUp

(* Their number.                                                           *)
LEMMA FlagsCounted == Flags \in Nat
  BY DEF Flags, One

(* Counted this way, the load is bounded by the calls.                     *)
LEMMA LoadCounted ==
  ASSUME cachedToken \in Nat, IsFiniteSet(Busy)
  PROVE  NoPileUp <=> Cardinality(Busy) + Flags =< cachedToken
<1>1. Cardinality(Busy) \in Nat
  BY FS_CardinalityType
<1> QED
  BY <1>1 DEF NoPileUp, Flags, One

(* A step that leaves goroutines alone may add a flag if it begins a call. *)
LEMMA LoadKept ==
  ASSUME LoadInv, TypeInv', UNCHANGED Busy,
         \/ UNCHANGED cachedToken /\ Flags' =< Flags
         \/ cachedToken' = cachedToken + 1 /\ Flags' =< Flags + 1
  PROVE  LoadInv'
<1>1. cachedToken \in Nat
  BY DEF LoadInv, TypeInv, TypeOK
<1>2. Cardinality(Busy) \in Nat
  BY FS_CardinalityType DEF LoadInv
<1>3. Cardinality(Busy)' = Cardinality(Busy) /\ IsFiniteSet(Busy)'
  BY DEF LoadInv
<1>4. Flags \in Nat /\ Flags' \in Nat
  BY FlagsCounted DEF Flags, One
<1>5. Cardinality(Busy) + Flags =< cachedToken
  BY <1>1, LoadCounted DEF LoadInv
<1>6. Cardinality(Busy)' + Flags' =< cachedToken'
  BY <1>1, <1>2, <1>3, <1>4, <1>5
<1>7. NoPileUp'
  BY <1>1, <1>2, <1>3, <1>6 DEF NoPileUp, Flags, One
<1> QED
  BY <1>3, <1>7 DEF LoadInv

(* A goroutine that starts takes the place of a flag.                      *)
LEMMA LoadAdded ==
  ASSUME LoadInv, TypeInv', NEW x, Busy' \in SUBSET (Busy \cup {x}),
         Busy \in SUBSET Busy',
         Flags' =< Flags - 1, UNCHANGED cachedToken
  PROVE  LoadInv'
<1>1. cachedToken \in Nat
  BY DEF LoadInv, TypeInv, TypeOK
<1>2. Cardinality(Busy) \in Nat
  BY FS_CardinalityType DEF LoadInv
<1>3. Busy' = Busy \/ Busy' = Busy \cup {x}
  OBVIOUS
<1>4. IsFiniteSet(Busy)'
  BY <1>3, FS_AddElement DEF LoadInv
<1>5. Cardinality(Busy)' \in Nat /\ Cardinality(Busy)' =< Cardinality(Busy) + 1
  <2>1. CASE Busy' = Busy
    BY <1>2, <2>1
  <2>2. CASE Busy' = Busy \cup {x}
    BY <1>2, <2>2, FS_AddElement DEF LoadInv
  <2> QED
    BY <1>3, <2>1, <2>2
<1>6. Flags \in Nat /\ Flags' \in Nat
  BY FlagsCounted DEF Flags, One
<1>7. Cardinality(Busy) + Flags =< cachedToken
  BY <1>1, LoadCounted DEF LoadInv
<1>8. Cardinality(Busy)' + Flags' =< cachedToken'
  BY <1>1, <1>2, <1>5, <1>6, <1>7
<1>9. NoPileUp'
  BY <1>1, <1>5, <1>8 DEF NoPileUp, Flags, One
<1> QED
  BY <1>4, <1>9 DEF LoadInv

(* A goroutine that ends leaves a flag at most.                            *)
LEMMA LoadRemoved ==
  ASSUME LoadInv, TypeInv', NEW x \in Busy, Busy' = Busy \ {x},
         Flags' =< Flags + 1, UNCHANGED cachedToken
  PROVE  LoadInv'
<1>1. cachedToken \in Nat
  BY DEF LoadInv, TypeInv, TypeOK
<1>2. Cardinality(Busy) \in Nat
  BY FS_CardinalityType DEF LoadInv
<1>3. /\ IsFiniteSet(Busy \ {x})
      /\ Cardinality(Busy \ {x}) = Cardinality(Busy) - 1
  BY FS_RemoveElement DEF LoadInv
<1>4. IsFiniteSet(Busy)' /\ Cardinality(Busy)' = Cardinality(Busy) - 1
  BY <1>3
<1>5. Flags \in Nat /\ Flags' \in Nat
  BY FlagsCounted DEF Flags, One
<1>6. Cardinality(Busy) + Flags =< cachedToken
  BY <1>1, LoadCounted DEF LoadInv
<1>7. Cardinality(Busy)' + Flags' =< cachedToken'
  BY <1>1, <1>2, <1>4, <1>5, <1>6
<1>8. NoPileUp'
  BY <1>1, <1>2, <1>4, <1>7 DEF NoPileUp, Flags, One
<1> QED
  BY <1>4, <1>8 DEF LoadInv

(* A call begins with a token of its own and ends with a signal.           *)
LEMMA LoadCaller ==
  ASSUME LoadInv, TypeInv', setCachedToken \/ Trigger
  PROVE  LoadInv'
<1> USE DEF CallerFrame, loopVars
<1>1. UNCHANGED Busy
  BY DEF Busy, setCachedToken, Trigger, StopHealthCheck, LoadInBackoffLoop,
         StopBackoff, SignalRenewal
<1>2. cachedToken \in Nat
  BY DEF LoadInv, TypeInv, TypeOK
<1>3. \/ UNCHANGED cachedToken /\ Flags' =< Flags
      \/ cachedToken' = cachedToken + 1 /\ Flags' =< Flags + 1
  <2>1. CASE setCachedToken
    BY <1>2, <2>1 DEF setCachedToken, Flags, One
  <2>2. CASE StopHealthCheck \/ LoadInBackoffLoop \/ StopBackoff
    BY <1>2, <2>2 DEF StopHealthCheck, LoadInBackoffLoop, StopBackoff, Flags,
                      One
  <2>3. CASE SignalRenewal
    BY <1>2, <2>3 DEF SignalRenewal, Flags, One
  <2> QED
    BY <2>1, <2>2, <2>3 DEF Trigger
<1> QED
  BY <1>1, <1>3, LoadKept

(* An attempt takes the place of its signal, and a retry or a health check *)
(* that of the attempt.                                                    *)
LEMMA LoadLoop ==
  ASSUME LoadInv, TypeInv', TakeRenewal \/ TakeFailover \/ renewLease
  PROVE  LoadInv'
<1> USE DEF LoopFrame, callerVars
<1>1. cachedToken \in Nat
  BY DEF LoadInv, TypeInv, TypeOK
<1>2. ASSUME Retry, loop # "wait",
             UNCHANGED <<callerVars, renewChan, hcRenewChan, hc>>
      PROVE  LoadInv'
  <2>1. PICK g \in Retries :
          retry[g] = "none" /\ retry' = [retry EXCEPT ![g] = "start"]
    BY <1>2 DEF Retry
  <2>2. Busy' \in SUBSET (Busy \cup {g}) /\ Busy \in SUBSET Busy'
    BY <1>2, <2>1 DEF Busy, LoadInv, TypeInv, TypeOK
  <2>3. Flags' =< Flags - 1
    BY <1>2 DEF Retry, Flags, One
  <2> QED
    BY <1>2, <2>2, <2>3, LoadAdded
<1>3. ASSUME UNCHANGED <<callerVars, retry, hc>>, Flags' =< Flags
      PROVE  LoadInv'
  <2>1. UNCHANGED Busy
    BY <1>3 DEF Busy
  <2> QED
    BY <1>3, <2>1, LoadKept
<1>4. CASE TakeRenewal
  <2>1. Flags' =< Flags
    BY <1>4 DEF TakeRenewal, Flags, One
  <2> QED
    BY <1>3, <1>4, <2>1 DEF TakeRenewal, checkVars
<1>5. CASE TakeFailover
  <2>1. Flags' =< Flags
    BY <1>5 DEF TakeFailover, Flags, One
  <2> QED
    BY <1>3, <1>5, <2>1 DEF TakeFailover, checkVars
<1>6. ASSUME NEW s \in Servers, ReadToken(s)
      PROVE  LoadInv'
  <2>1. CASE Retry
    BY <1>2, <1>6, <2>1 DEF ReadToken, checkVars
  <2>2. CASE UNCHANGED retry
    <3>1. Flags' =< Flags
      BY <1>6, <2>2 DEF ReadToken, Flags, One
    <3> QED
      BY <1>3, <1>6, <2>2, <3>1 DEF ReadToken, checkVars
  <2> QED
    BY <1>6, <2>1, <2>2 DEF ReadToken
<1>7. CASE RequestFails
  BY <1>2, <1>7 DEF RequestFails, checkVars
<1>8. CASE RequestSucceeds
  <2>1. CASE Retry
    BY <1>2, <1>8, <2>1 DEF RequestSucceeds, checkVars
  <2>2. CASE loop' = "restart" /\ UNCHANGED retry
    <3>1. Flags' =< Flags
      BY <1>8, <2>2 DEF RequestSucceeds, Flags, One
    <3> QED
      BY <1>3, <1>8, <2>2, <3>1 DEF RequestSucceeds, checkVars
  <2> QED
    BY <1>8, <2>1, <2>2, RequestOutcome
<1>9. CASE RestartHealthCheck
  <2>1. CASE UNCHANGED hc
    <3>1. Flags' =< Flags
      BY <1>9 DEF RestartHealthCheck, Flags, One
    <3> QED
      BY <1>3, <1>9, <2>1, <3>1 DEF RestartHealthCheck
  <2>2. ASSUME NEW i \in Checks, hc' = [hc EXCEPT ![i] = "start"]
        PROVE  LoadInv'
    <3>1. Busy' \in SUBSET (Busy \cup {i}) /\ Busy \in SUBSET Busy'
      BY <1>9, <2>2 DEF RestartHealthCheck, Busy, LoadInv, TypeInv, TypeOK
    <3>2. Flags' =< Flags - 1
      BY <1>9 DEF RestartHealthCheck, Flags, One
    <3> QED
      BY <1>9, <3>1, <3>2, LoadAdded DEF RestartHealthCheck
  <2> QED
    BY <1>9, <2>1, <2>2 DEF RestartHealthCheck, checkVars
<1> QED
  BY <1>4, <1>5, <1>6, <1>7, <1>8, <1>9 DEF renewLease

(* A back-off ends when it has been stopped or has sent its signal.        *)
LEMMA LoadBackoff ==
  ASSUME LoadInv, TypeInv', NEW g \in Retries, Backoff(g)
  PROVE  LoadInv'
<1> USE DEF BackoffFrame, callerVars, loopVars, backoffVars, checkVars
<1>1. UNCHANGED <<cachedToken, trig, loop, hcRenewChan, hc>>
  BY DEF Backoff, StartBackoff, BackoffElapses, BackoffStopped, BackoffSends,
         LeaveBackoff
<1>2. cachedToken \in Nat /\ Flags \in Nat /\ g \notin Checks
  BY FlagsCounted, RenewalAssumption DEF LoadInv, TypeInv, TypeOK
<1>3. CASE StartBackoff(g) \/ BackoffElapses(g) \/ LeaveBackoff(g)
  <2>1. UNCHANGED Busy
    BY <1>1, <1>3
       DEF StartBackoff, BackoffElapses, LeaveBackoff, Busy, LoadInv, TypeInv,
           TypeOK
  <2>2. UNCHANGED Flags
    BY <1>1, <1>3 DEF StartBackoff, BackoffElapses, LeaveBackoff, Flags
  <2>3. Flags' =< Flags
    BY <1>2, <2>2
  <2> QED
    BY <1>1, <2>1, <2>3, LoadKept
<1>4. CASE BackoffStopped(g) \/ BackoffSends(g)
  <2>1. g \in Busy /\ Busy' = Busy \ {g}
    BY <1>1, <1>2, <1>4
       DEF BackoffStopped, BackoffSends, Busy, LoadInv, TypeInv, TypeOK
  <2>2. Flags' =< Flags + 1
    BY <1>1, <1>4 DEF BackoffStopped, BackoffSends, Flags, One
  <2> QED
    BY <1>1, <2>1, <2>2, LoadRemoved
<1> QED
  BY <1>3, <1>4 DEF Backoff

(* A health check ends when it has been stopped or has sent its signal.    *)
LEMMA LoadCheck ==
  ASSUME LoadInv, TypeInv', NEW i \in Checks, Check(i)
  PROVE  LoadInv'
<1> USE DEF CheckFrame, callerVars, loopVars
<1>1. UNCHANGED <<cachedToken, trig, loop, renewChan, retry>>
  BY DEF Check, StartCheck, PingAnswered, PingFails, CheckStopped, CheckFires
<1>2. cachedToken \in Nat /\ Flags \in Nat /\ i \notin Retries
  BY FlagsCounted, RenewalAssumption DEF LoadInv, TypeInv, TypeOK
<1>3. hc' = [hc EXCEPT ![i] = hc'[i]] /\ hc[i] # "none"
  BY DEF Check, StartCheck, PingAnswered, PingFails, CheckStopped, CheckFires,
         CheckEnds, Count, LoadInv, TypeInv, TypeOK
<1>4. CASE hc'[i] # "none"
  <2>1. UNCHANGED Busy
    BY <1>1, <1>3, <1>4 DEF Busy, LoadInv, TypeInv, TypeOK
  <2>2. UNCHANGED hcRenewChan
    BY <1>4 DEF Check, StartCheck, PingAnswered, PingFails, CheckStopped,
                CheckFires, CheckEnds, LoadInv, TypeInv, TypeOK
  <2>3. UNCHANGED Flags
    BY <1>1, <2>2 DEF Flags
  <2>4. Flags' =< Flags
    BY <1>2, <2>3
  <2> QED
    BY <1>1, <2>1, <2>4, LoadKept
<1>5. CASE hc'[i] = "none"
  <2>1. i \in Busy /\ Busy' = Busy \ {i}
    BY <1>1, <1>2, <1>3, <1>5 DEF Busy, LoadInv, TypeInv, TypeOK
  <2>2. Flags' =< Flags + 1
    BY <1>1 DEF Flags, One
  <2> QED
    BY <1>1, <2>1, <2>2, LoadRemoved
<1> QED
  BY <1>4, <1>5

(* LoadInv is inductive: an attempt takes the place of a signal, a retry   *)
(* or a health check that of an attempt, and each ends before it leaves a  *)
(* signal; only a call adds one.                                           *)
LEMMA LoadInvariant == Spec => []LoadInv
<1>1. Init => LoadInv
  <2> SUFFICES ASSUME Init PROVE LoadInv
    OBVIOUS
  <2>1. Busy = {}
    BY DEF Init, Busy
  <2>2. IsFiniteSet(Busy) /\ Cardinality(Busy) = 0
    BY <2>1, FS_EmptySet
  <2>3. NoPileUp
    BY <2>2 DEF Init, NoPileUp, One
  <2> QED
    BY <2>2, <2>3, TypeInit DEF LoadInv
<1>2. ASSUME LoadInv, [Next]_vars
      PROVE  LoadInv'
  <2>1. TypeInv'
    BY <1>2, TypeStep DEF LoadInv
  <2>2. ASSUME UNCHANGED <<callerVars, loop, renewChan, hcRenewChan, retry,
                           hc>>
        PROVE  LoadInv'
    <3>1. UNCHANGED <<Busy, Flags, cachedToken>>
      BY <2>2 DEF Busy, Flags, callerVars
    <3>2. Flags' =< Flags
      BY <3>1, FlagsCounted
    <3> QED
      BY <1>2, <2>1, <3>1, <3>2, LoadKept
  <2>3. CASE UNCHANGED vars
    BY <2>2, <2>3 DEF vars, loopVars, checkVars
  <2>4. CASE TokenLapses \/ \E s \in Servers : ServerGoesDown(s)
    BY <2>2, <2>4 DEF TokenLapses, ServerGoesDown, loopVars, checkVars
  <2> QED
    BY <1>2, <2>1, <2>3, <2>4, LoadCaller, LoadLoop, LoadBackoff, LoadCheck
       DEF Next
<1> QED
  BY <1>1, <1>2, PTL DEF Spec

(* Renewals do not pile up: each call of renewAllLeases accounts for at    *)
(* most one signal, attempt, back-off or health check.                     *)
THEOREM RenewalsDoNotPileUp == Spec => []NoPileUp
<1>1. LoadInv => NoPileUp
  BY DEF LoadInv
<1> QED
  BY <1>1, LoadInvariant, PTL
(* What keeps LeaseWatched: nothing but the loop itself, at a restart or   *)
(* when it reads an expired token, ends a renewal that has not failed, and *)
(* a check of the lease's server is only lost to a call or to its signal.  *)
Watched ==
  (/\ trig = "idle" /\ ~renewChan /\ ~hcRenewChan /\ loop = "wait"
   /\ ~failed /\ cachedToken # 0)
    => (Held \/ (Checked /\ unapplied) \/ Expired(used))

LoopKnows ==
  /\ used =< cachedToken
  /\ loop \in {"request", "restart"} => ~failed /\ target \in Servers
  /\ loop = "restart"
       => currentServer = target /\ (lease = target \/ unapplied)
  /\ config # NoServer => lease = config \/ unapplied

WatchInv == TypeInv /\ Watched /\ LoopKnows

(* The current server stays checked through a step that leaves it, the     *)
(* servers and the checks that ping it alone, and stops no check.          *)
LEMMA CheckedStays ==
  ASSUME Checked, UNCHANGED <<serverURLs, currentServer>>,
         \A i \in Checks :
           (hc[i] # "none" /\ ~hcStop[i])
             => hc'[i] # "none" /\ ~hcStop'[i] /\ hcServer'[i] = hcServer[i]
  PROVE  Checked'
  BY DEF Checked

(* While a call is on its way nothing is promised; its last step signals.  *)
LEMMA WatchCaller ==
  ASSUME WatchInv, setCachedToken \/ Trigger
  PROVE  (Watched /\ LoopKnows)'
<1> USE DEF WatchInv, TypeInv, TypeOK, CallerFrame, loopVars, deviceVars
<1>1. trig' # "idle" \/ renewChan'
  BY DEF setCachedToken, Trigger, StopHealthCheck, LoadInBackoffLoop,
         StopBackoff, SignalRenewal
<1>2. LoopKnows'
  BY DEF LoopKnows, setCachedToken, Trigger, StopHealthCheck,
         LoadInBackoffLoop, StopBackoff, SignalRenewal
<1> QED
  BY <1>1, <1>2 DEF Watched

(* The renew loop stops work with a failure, an expired token or a check.  *)
LEMMA WatchLoop ==
  ASSUME WatchInv, TakeRenewal \/ TakeFailover \/ renewLease
  PROVE  (Watched /\ LoopKnows)'
<1> USE DEF WatchInv, TypeInv, TypeOK, LoopFrame, callerVars, deviceVars
<1>1. CASE TakeRenewal \/ TakeFailover
  BY <1>1 DEF TakeRenewal, TakeFailover, Watched, LoopKnows
<1>2. ASSUME NEW s \in Servers, ReadToken(s)
      PROVE  (Watched /\ LoopKnows)'
  <2>1. /\ used' = cachedToken /\ UNCHANGED <<cachedToken, lapsed>>
        /\ \/ loop' = "wait" /\ (failed' \/ Expired(cachedToken))
           \/ loop' = "request" /\ ~failed' /\ target' = s
    BY <1>2, Zenon DEF ReadToken, Retry, worldVars
  <2>2. Watched'
    <3>1. CASE loop' = "request" \/ failed'
      BY <3>1 DEF Watched
    <3>2. CASE loop' = "wait" /\ Expired(cachedToken)
      BY <2>1, <3>2 DEF Watched, Expired
    <3> QED
      BY <2>1, <3>1, <3>2
  <2>3. LoopKnows'
    <3>1. UNCHANGED deviceVars
      BY <1>2 DEF ReadToken
    <3> QED
      BY <2>1, <3>1 DEF LoopKnows
  <2> QED
    BY <2>2, <2>3
<1>3. CASE RequestFails
  BY <1>3 DEF RequestFails, Retry, Watched, LoopKnows
<1>4. CASE RequestSucceeds
  <2>1. /\ currentServer' = target /\ UNCHANGED <<used, target, cachedToken>>
        /\ loop = "request"
    BY <1>4 DEF RequestSucceeds
  <2>2. \/ loop' = "wait" /\ failed'
        \/ loop' = "restart" /\ UNCHANGED failed
    BY <1>4, RequestOutcome, Zenon DEF Retry
  <2>3. /\ config' # NoServer => lease' = config' \/ unapplied'
        /\ loop' = "restart" => lease' = target \/ unapplied'
    <3>1. CASE Configure
      BY <3>1 DEF Configure
    <3>2. CASE UpdateFails \/ SetPeersFails
      BY <3>2 DEF UpdateFails, SetPeersFails
    <3>3. CASE SkipDevice
      BY <2>1, <3>3, RenewalAssumption DEF SkipDevice, LoopKnows
    <3> QED
      BY <1>4, <3>1, <3>2, <3>3 DEF RequestSucceeds
  <2> QED
    BY <2>1, <2>2, <2>3 DEF Watched, LoopKnows
<1>5. CASE RestartHealthCheck
  <2>1. /\ target \in Servers /\ currentServer = target
        /\ lease = target \/ unapplied
    BY <1>5 DEF RestartHealthCheck, LoopKnows
  <2>2. UNCHANGED <<serverURLs, used, target, currentServer, lease, config,
                    unapplied, cachedToken>>
    BY <1>5 DEF RestartHealthCheck, worldVars
  <2>3. Checked'
    <3>1. CASE Cardinality(serverURLs) > 1
      <4>1. Cardinality(serverURLs) \in Nat
        BY RenewalAssumption, FS_Subset, FS_CardinalityType
      <4>2. ~(Cardinality(serverURLs) =< 1)
        BY <3>1, <4>1
      <4>3. PICK i \in Checks :
              /\ hc' = [hc EXCEPT ![i] = "start"]
              /\ hcServer' = [hcServer EXCEPT ![i] = target]
              /\ hcStop' = [Stopped EXCEPT ![i] = FALSE]
        BY <1>5, <4>2 DEF RestartHealthCheck
      <4>4. hc'[i] # "none" /\ hcServer'[i] = target /\ ~hcStop'[i]
        BY <2>1, <4>3 DEF Stopped
      <4> QED
        BY <2>1, <2>2, <4>4 DEF Checked
    <3>2. CASE ~(Cardinality(serverURLs) > 1)
      BY <2>2, <3>2 DEF Checked
    <3> QED
      BY <3>1, <3>2
  <2>4. loop' = "wait"
    BY <1>5 DEF RestartHealthCheck
  <2>5. Held' \/ unapplied'
    BY <2>1, <2>2, <2>3, RenewalAssumption DEF Held
  <2> QED
    BY <2>2, <2>3, <2>4, <2>5 DEF Watched, LoopKnows
<1> QED
  BY <1>1, <1>2, <1>3, <1>4, <1>5 DEF renewLease

(* Back-off goroutines touch nothing but the signal.                       *)
LEMMA WatchBackoff ==
  ASSUME WatchInv, NEW g \in Retries, Backoff(g)
  PROVE  (Watched /\ LoopKnows)'
<1> USE DEF WatchInv, BackoffFrame, callerVars, loopVars, deviceVars,
            checkVars, worldVars
<1>1. /\ UNCHANGED <<BackoffFrame>>
      /\ UNCHANGED renewChan \/ renewChan'
  BY DEF Backoff, StartBackoff, BackoffElapses, BackoffStopped, BackoffSends,
         LeaveBackoff, backoffVars
<1>2. (Held' <=> Held) /\ (Checked' <=> Checked)
  BY <1>1 DEF Held, Checked
<1> QED
  BY <1>1, <1>2 DEF Watched, LoopKnows, Expired

(* A health check that nobody stopped ends with a signal.                  *)
LEMMA CheckSteps ==
  ASSUME TypeInv, NEW i \in Checks, Check(i)
  PROVE  /\ UNCHANGED CheckFrame
         /\ \/ hcRenewChan'
            \/ /\ UNCHANGED hcRenewChan
               /\ \A j \in Checks :
                    (hc[j] # "none" /\ ~hcStop[j])
                      => /\ hc'[j] # "none" /\ ~hcStop'[j]
                         /\ hcServer'[j] = hcServer[j]
               /\ \A j \in Checks :
                    hc'[j] # "none"
                      => /\ hc[j] # "none" /\ hcStop'[j] = hcStop[j]
                         /\ hcServer'[j] = hcServer[j]
<1> USE DEF TypeInv, TypeOK
<1>1. CASE StartCheck(i) \/ PingAnswered(i)
  BY <1>1 DEF StartCheck, PingAnswered
<1>2. CASE PingFails(i)
  BY <1>2 DEF PingFails, CheckEnds, Count
<1>3. CASE CheckStopped(i)
  BY <1>3 DEF CheckStopped, CheckEnds
<1>4. CASE CheckFires(i)
  BY <1>4 DEF CheckFires
<1> QED
  BY <1>1, <1>2, <1>3, <1>4 DEF Check

LEMMA WatchCheck ==
  ASSUME WatchInv, NEW i \in Checks, Check(i)
  PROVE  (Watched /\ LoopKnows)'
<1>1. UNCHANGED CheckFrame
  BY CheckSteps DEF WatchInv
<1> USE <1>1 DEF WatchInv, CheckFrame, callerVars, loopVars, deviceVars,
                 worldVars
<1>2. LoopKnows'
  BY DEF LoopKnows
<1>3. CASE hcRenewChan'
  BY <1>2, <1>3 DEF Watched
<1>4. CASE ~hcRenewChan'
  <2>1. UNCHANGED hcRenewChan
    BY <1>4, CheckSteps
  <2>2. Checked => Checked'
    BY <1>4, CheckSteps, CheckedStays
  <2>3. Held => Held'
    BY <2>2 DEF Held
  <2> QED
    BY <1>2, <2>1, <2>2, <2>3 DEF Watched, Expired
<1> QED
  BY <1>3, <1>4

(* A device at rest has its lease looked after, unless its token has       *)
(* expired or its last renewal failed, whatever the order of triggers,     *)
(* stops, restarts and late firings.                                       *)
LEMMA WatchInvariant == Spec => []WatchInv
<1>1. Init => WatchInv
  BY TypeInit DEF Init, WatchInv, Watched, LoopKnows
<1>2. ASSUME WatchInv, [Next]_vars
      PROVE  WatchInv'
  <2>1. TypeInv'
    BY <1>2, TypeStep DEF WatchInv
  <2>0. SUFFICES (Watched /\ LoopKnows)'
    BY <2>1 DEF WatchInv
  <2>2. ASSUME UNCHANGED <<callerVars, loopVars, renewChan, hcRenewChan,
                           checkVars, serverURLs, failed>>,
               UNCHANGED lapsed \/ lapsed' = cachedToken
        PROVE  (Watched /\ LoopKnows)'
    <3>1. (Held' <=> Held) /\ (Checked' <=> Checked)
      BY <2>2 DEF Held, Checked, loopVars, deviceVars, checkVars
    <3>2. Expired(used) => Expired(used)'
      BY <1>2, <2>2 DEF Expired, WatchInv, LoopKnows, loopVars, TypeInv, TypeOK
    <3> QED
      BY <1>2, <2>2, <3>1, <3>2
         DEF WatchInv, Watched, LoopKnows, callerVars, loopVars, deviceVars
  <2>3. CASE UNCHANGED vars
    BY <2>2, <2>3 DEF vars, worldVars
  <2>4. CASE TokenLapses \/ \E s \in Servers : ServerGoesDown(s)
    BY <2>2, <2>4 DEF TokenLapses, ServerGoesDown
  <2> QED
    BY <1>2, <2>3, <2>4, WatchCaller, WatchLoop, WatchBackoff, WatchCheck
       DEF Next
<1> QED
  BY <1>1, <1>2, PTL DEF Spec

(* At rest, no call is on its way, the channels are empty and the loop     *)
(* waits: then the lease of the current server is held, or the device has  *)
(* refused its configuration and it is checked all the same, or the token  *)
(* has expired.                                                            *)
THEOREM LeasesWatched == Spec => []LeaseWatched
<1>1. WatchInv => LeaseWatched
  BY DEF WatchInv, Watched, LeaseWatched, Renewing, RenewalPending,
         TypeInv, TypeOK
<1> QED
  BY <1>1, WatchInvariant, PTL

(* Refinement: what the abstract upkeep of a lease may do is all that the  *)
(* goroutines do.                                                          *)
UpkeepInv == LoadInv /\ RetryInv /\ WatchInv /\ TokenPickedUp

(* Before the first token the device has nothing to renew and no check.    *)
LEMMA IdleBeforeToken ==
  ASSUME LoadInv, Renewing \/ Busy # {}
  PROVE  cachedToken # 0
<1> SUFFICES ASSUME cachedToken = 0 PROVE FALSE
  OBVIOUS
<1>1. Cardinality(Busy) + Flags =< 0
  BY LoadCounted DEF LoadInv, TypeInv, TypeOK
<1>2. Cardinality(Busy) \in Nat /\ Flags \in Nat
  BY FlagsCounted, FS_CardinalityType DEF LoadInv
<1>3. Cardinality(Busy) = 0 /\ Flags = 0
  BY <1>1, <1>2
<1>4. Busy = {}
  BY <1>3, FS_EmptySet DEF LoadInv
<1>5. ~renewChan /\ ~hcRenewChan /\ loop = "wait" /\ trig = "idle"
  BY <1>3 DEF Flags, One
<1> QED
  BY <1>4, <1>5 DEF Renewing, RenewalPending, Busy

(* A device that does not renew is idle or rests.                          *)
LEMMA RestingPhase ==
  ASSUME ~Renewing
  PROVE  /\ cachedToken = 0 => Phase = "idle"
         /\ cachedToken # 0 => Phase \in Upkeep!Resting
  BY DEF Phase, Upkeep!Resting

(* The end of a renewal, whichever step it is: the newest token has been   *)
(* tried, and the lease is held unless the token has expired, a retry has  *)
(* been swallowed or the device has refused a configuration.               *)
LEMMA RenewalEnds ==
  ASSUME UpkeepInv, UpkeepInv', Renewing, ~Renewing',
         UNCHANGED <<cachedToken, lapsed, unapplied>>
  PROVE  Upkeep!Next
<1>1. cachedToken' # 0
  BY IdleBeforeToken DEF UpkeepInv
<1>2. Phase = "renewing" /\ Phase' \in Upkeep!Resting
  BY <1>1 DEF Phase, Upkeep!Resting
<1>3. used' = cachedToken' /\ swallowed' \in BOOLEAN
  BY DEF UpkeepInv, TokenPickedUp, Renewing, RenewalPending, WatchInv, TypeInv,
         TypeOK
<1>4. Phase' = "expired" => used' =< lapsed
  BY <1>1 DEF UpkeepInv, WatchInv, Watched, Phase, Renewing, RenewalPending,
              Expired, TypeInv, TypeOK
<1>5. Phase' = "stranded" => swallowed'
  BY <1>1 DEF UpkeepInv, RetryInv, RetryPending, Phase, Renewing
<1>7. Phase' = "refused" => unapplied
  BY <1>1 DEF Phase, Renewing
<1>6. Upkeep!Rest(Phase')
  BY <1>2, <1>3, <1>4, <1>5, <1>7 DEF Upkeep!Rest
<1> QED
  BY <1>2, <1>6 DEF Upkeep!Next

(* A step that reads no token, takes none and swallows no retry begins no  *)
(* renewal, except by the signal of a health check, and leaves a device at *)
(* rest as it is.                                                          *)
LEMMA QuietSteps ==
  ASSUME UpkeepInv, UpkeepInv', Next, ~Renewing, ~setCachedToken,
         ~\E i \in Checks : CheckFires(i)
  PROVE  UNCHANGED <<cachedToken, used, swallowed, unapplied, Phase>>
<1> USE DEF UpkeepInv, WatchInv, TypeInv, TypeOK
<1>1. /\ trig = "idle" /\ ~renewChan /\ ~hcRenewChan /\ loop = "wait"
      /\ \A g \in Retries : retry[g] \notin {"start", "sleep", "send"}
  BY DEF Renewing, RenewalPending
<1>2. ASSUME UNCHANGED <<callerVars, loopVars, renewChan, hcRenewChan, retry,
                         failed, swallowed, serverURLs>>,
             Checked' <=> Checked
      PROVE  UNCHANGED <<cachedToken, used, swallowed, unapplied, Phase>>
  <2>1. ~Renewing'
    BY <1>1, <1>2 DEF Renewing, RenewalPending, callerVars, loopVars
  <2> QED
    BY <1>2, <2>1 DEF Phase, Held, callerVars, loopVars, deviceVars
<1>3. ASSUME NEW g \in Retries, Backoff(g)
      PROVE  UNCHANGED <<cachedToken, used, swallowed, unapplied, Phase>>
  <2>1. LeaveBackoff(g)
    BY <1>1, <1>3 DEF Backoff, StartBackoff, BackoffElapses, BackoffStopped,
                      BackoffSends
  <2>2. ~Renewing'
    BY <1>1, <2>1 DEF LeaveBackoff, BackoffFrame, Renewing, RenewalPending,
                      callerVars, loopVars
  <2>3. Checked' <=> Checked
    BY <2>1 DEF LeaveBackoff, BackoffFrame, Checked, loopVars, checkVars,
                worldVars
  <2> QED
    BY <2>1, <2>2, <2>3
       DEF LeaveBackoff, BackoffFrame, Phase, Held, callerVars, loopVars,
           deviceVars
<1>4. ASSUME NEW i \in Checks, Check(i)
      PROVE  UNCHANGED <<cachedToken, used, swallowed, unapplied, Phase>>
  <2>1. UNCHANGED CheckFrame
    BY <1>4, CheckSteps
  <2>2. UNCHANGED hcRenewChan
    BY <1>4 DEF Check, StartCheck, PingAnswered, PingFails, CheckStopped
  <2>3. /\ \A j \in Checks :
             (hc[j] # "none" /\ ~hcStop[j])
               => /\ hc'[j] # "none" /\ ~hcStop'[j]
                  /\ hcServer'[j] = hcServer[j]
        /\ \A j \in Checks :
             hc'[j] # "none"
               => /\ hc[j] # "none" /\ hcStop'[j] = hcStop[j]
                  /\ hcServer'[j] = hcServer[j]
    BY <1>1, <1>4, <2>2, CheckSteps
  <2>4. Checked' <=> Checked
    BY <2>1, <2>3 DEF CheckFrame, Checked, loopVars, worldVars
  <2> QED
    BY <1>2, <2>1, <2>2, <2>4 DEF CheckFrame, worldVars
<1>5. CASE TokenLapses \/ \E s \in Servers : ServerGoesDown(s)
  <2>1. Checked' <=> Checked
    BY <1>5 DEF TokenLapses, ServerGoesDown, Checked, loopVars, checkVars
  <2> QED
    BY <1>2, <1>5, <2>1 DEF TokenLapses, ServerGoesDown
<1>6. ~Trigger /\ ~TakeRenewal /\ ~TakeFailover /\ ~renewLease
  BY <1>1 DEF Trigger, StopHealthCheck, LoadInBackoffLoop, StopBackoff,
              SignalRenewal, TakeRenewal, TakeFailover, renewLease, ReadToken,
              RequestFails, RequestSucceeds, RestartHealthCheck
<1> QED
  BY <1>3, <1>4, <1>5, <1>6 DEF Next

(* A step of a renewal that goes on: an attempt, a retry stopped, or one   *)
(* the abstract upkeep does not see.                                       *)
LEMMA RenewalGoesOn ==
  ASSUME UpkeepInv, UpkeepInv', Next, Renewing, Renewing', ~setCachedToken,
         ~TokenLapses
  PROVE  Upkeep!Next \/ UNCHANGED Upkeep!upkeepVars
<1>1. Phase = "renewing" /\ Phase' = "renewing"
  BY DEF Phase
<1>2. ASSUME UNCHANGED <<cachedToken, used, lapsed, swallowed, unapplied>>
      PROVE  UNCHANGED Upkeep!upkeepVars
  BY <1>1, <1>2 DEF Upkeep!upkeepVars
<1>3. CASE Trigger
  BY <1>2, <1>3 DEF Trigger, StopHealthCheck, LoadInBackoffLoop, StopBackoff,
                    SignalRenewal, CallerFrame, loopVars, deviceVars, worldVars
<1>4. CASE TakeRenewal \/ TakeFailover \/ RequestFails \/ RestartHealthCheck
  BY <1>2, <1>4 DEF TakeRenewal, TakeFailover, RequestFails,
                    RestartHealthCheck, LoopFrame, callerVars, deviceVars,
                    worldVars
<1>9. CASE RequestSucceeds
  <2>1. UNCHANGED <<cachedToken, used, lapsed, swallowed>>
    BY <1>9 DEF RequestSucceeds, LoopFrame, callerVars, worldVars
  <2>2. unapplied' \in BOOLEAN
    BY DEF UpkeepInv, WatchInv, TypeInv, TypeOK
  <2>3. Upkeep!Configure
    BY <1>1, <2>1, <2>2 DEF Upkeep!Configure
  <2> QED
    BY <2>3 DEF Upkeep!Next
<1>5. ASSUME NEW s \in Servers, ReadToken(s)
      PROVE  Upkeep!Attempt
  BY <1>1, <1>5 DEF ReadToken, LoopFrame, callerVars, deviceVars, worldVars,
                    Upkeep!Attempt
<1>6. ASSUME NEW g \in Retries, Backoff(g)
      PROVE  Upkeep!StopRetry \/ UNCHANGED Upkeep!upkeepVars
  <2>1. UNCHANGED <<cachedToken, used, lapsed, unapplied>>
    BY <1>6 DEF Backoff, StartBackoff, BackoffElapses, BackoffStopped,
                BackoffSends, LeaveBackoff, BackoffFrame, callerVars, loopVars,
                deviceVars, worldVars
  <2>2. UNCHANGED swallowed \/ swallowed' = TRUE
    <3>1. CASE BackoffStopped(g)
      BY <3>1 DEF BackoffStopped, UpkeepInv, WatchInv, TypeInv, TypeOK
    <3> QED
      BY <1>6, <3>1
         DEF Backoff, StartBackoff, BackoffElapses, BackoffSends, LeaveBackoff
  <2> QED
    BY <1>1, <1>2, <2>1, <2>2 DEF Upkeep!StopRetry
<1>7. ASSUME NEW i \in Checks, Check(i)
      PROVE  UNCHANGED Upkeep!upkeepVars
  <2>1. UNCHANGED CheckFrame
    BY <1>7, CheckSteps DEF UpkeepInv, WatchInv
  <2> QED
    BY <1>2, <2>1 DEF CheckFrame, callerVars, loopVars, deviceVars, worldVars
<1>8. CASE \E s \in Servers : ServerGoesDown(s)
  BY <1>2, <1>8 DEF ServerGoesDown, callerVars, loopVars, deviceVars
<1> QED
  BY <1>3, <1>4, <1>5, <1>6, <1>7, <1>8, <1>9 DEF Next, renewLease, Upkeep!Next

(* A step of the agent is a step of the abstract upkeep, or none.          *)
LEMMA UpkeepStep ==
  ASSUME UpkeepInv, UpkeepInv', Next
  PROVE  Upkeep!Next \/ UNCHANGED Upkeep!upkeepVars
<1>1. CASE setCachedToken
  <2>1. Phase' = "renewing"
    BY <1>1 DEF setCachedToken, Phase, Renewing, RenewalPending
  <2> QED
    BY <1>1, <2>1 DEF setCachedToken, CallerFrame, loopVars, deviceVars,
                      worldVars, Upkeep!Submit, Upkeep!Next
<1>2. CASE TokenLapses
  <2>1. Phase' = Phase
    <3>1. /\ Held' <=> Held
          /\ Checked' <=> Checked
          /\ Renewing' <=> Renewing
      BY <1>2 DEF TokenLapses, Held, Checked, Renewing, RenewalPending,
                  callerVars, loopVars, deviceVars, checkVars
    <3> QED
      BY <1>2, <3>1 DEF TokenLapses, Phase, callerVars, loopVars, deviceVars
  <2> QED
    BY <1>2, <2>1 DEF TokenLapses, callerVars, loopVars, deviceVars,
                      Upkeep!Lapse, Upkeep!Next
<1>3. ASSUME NEW i \in Checks, CheckFires(i), ~Renewing
      PROVE  Upkeep!Next
  <2>1. cachedToken # 0
    BY <1>3, IdleBeforeToken DEF CheckFires, Busy, UpkeepInv
  <2>2. Phase' = "renewing" /\ Phase \in Upkeep!Resting
    BY <1>3, <2>1, RestingPhase DEF CheckFires, Phase, Renewing, RenewalPending
  <2> QED
    BY <1>3, <2>2 DEF CheckFires, CheckFrame, callerVars, loopVars, deviceVars,
                      worldVars, Upkeep!Resume, Upkeep!Next
<1>4. ASSUME ~setCachedToken, ~TokenLapses
      PROVE  UNCHANGED <<cachedToken, lapsed>>
  BY <1>4 DEF Next, Trigger, StopHealthCheck, LoadInBackoffLoop, StopBackoff,
              SignalRenewal, CallerFrame, TakeRenewal, TakeFailover,
              renewLease, ReadToken, RequestFails, RequestSucceeds,
              RestartHealthCheck, LoopFrame, Backoff, StartBackoff,
              BackoffElapses, BackoffStopped, BackoffSends, LeaveBackoff,
              BackoffFrame, Check, StartCheck, PingAnswered, PingFails,
              CheckStopped, CheckFires, CheckFrame, ServerGoesDown, callerVars,
              worldVars
<1>7. ASSUME Renewing, ~Renewing'
      PROVE  UNCHANGED unapplied
  <2>1. ~RequestSucceeds
    BY <1>7, RequestOutcome DEF Retry, Renewing, RenewalPending, UpkeepInv,
                               WatchInv, TypeInv, TypeOK
  <2> QED
    BY <2>1 DEF Next, setCachedToken, Trigger, StopHealthCheck,
                LoadInBackoffLoop, StopBackoff, SignalRenewal, CallerFrame,
                TakeRenewal, TakeFailover, renewLease, ReadToken,
                RequestFails, RestartHealthCheck, Backoff, StartBackoff,
                BackoffElapses, BackoffStopped, BackoffSends, LeaveBackoff,
                BackoffFrame, Check, StartCheck, PingAnswered, PingFails,
                CheckStopped, CheckFires, CheckFrame, ServerGoesDown,
                TokenLapses, loopVars, deviceVars
<1>5. ASSUME ~setCachedToken, ~TokenLapses, Renewing
      PROVE  Upkeep!Next \/ UNCHANGED Upkeep!upkeepVars
  BY <1>4, <1>5, <1>7, RenewalEnds, RenewalGoesOn
<1>6. ASSUME ~setCachedToken, ~TokenLapses, ~Renewing,
             ~\E i \in Checks : CheckFires(i)
      PROVE  UNCHANGED Upkeep!upkeepVars
  BY <1>4, <1>6, QuietSteps DEF Upkeep!upkeepVars
<1> QED
  BY <1>1, <1>2, <1>3, <1>5, <1>6

(* The goroutines of a device implement the abstract upkeep of its lease:  *)
(* it comes to rest only after the newest token was tried, and with a lease*)
(* that is watched, a configuration the device refused, an expired token or*)
(* a swallowed retry; and it gives a watched lease up only to a new token  *)
(* or a health check.                                                      *)
THEOREM ImplementsUpkeep == Spec => UpkeepSpec
<1>1. Init => Upkeep!Init
  BY DEF Init, Upkeep!Init, Phase, Renewing, RenewalPending
<1>2. UpkeepInv /\ UpkeepInv' /\ [Next]_vars
        => [Upkeep!Next]_(Upkeep!upkeepVars)
  <2>1. UNCHANGED vars => UNCHANGED Upkeep!upkeepVars
    BY DEF vars, callerVars, loopVars, deviceVars, backoffVars, checkVars,
           worldVars, Upkeep!upkeepVars, Phase, Renewing, RenewalPending,
           Held, Checked
  <2> QED
    BY <2>1, UpkeepStep
<1>3. UpkeepInv <=> (LoadInv /\ RetryInv /\ WatchInv /\ TokenPickedUp)
  BY DEF UpkeepInv
<1> QED
  BY <1>1, <1>2, <1>3, LoadInvariant, RetryInvariant, WatchInvariant,
     TokensPickedUp, PTL DEF Spec, UpkeepSpec, Upkeep!Spec
=============================================================================
