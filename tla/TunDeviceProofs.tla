-------------------------- MODULE TunDeviceProofs ---------------------------
(***************************************************************************)
(* Theorems about TunDevice, for any number of devices.                    *)
(***************************************************************************)
EXTENDS TunDevice, TLAPS

RunState == {"none", "makeStop", "makeStopped", "select", "cleanup", "tell",
             "gone"}

(* TypeOK without the conjuncts that relate variables.                     *)
Types ==
  /\ agent \in {"starting", "running", "stopping", "done"}
  /\ todo \in SUBSET Devices /\ managed \in SUBSET Devices
  /\ open \in [Devices -> SUBSET Resources]
  /\ run \in [Devices -> RunState]
  /\ accept \in [Devices -> {"none", "accept", "send", "gone"}]
  /\ stop \in [Devices -> Channel] /\ stopped \in [Devices -> Channel]
  /\ cur \in Devices \cup {None}
  /\ stopping \in {"none", "check", "close", "receive", "wait", "hung"}
  /\ early \in SUBSET Devices

(* The life of run[d]: td.stopped is made before its loop and closed after *)
(* everything else is, td.stop is there as soon as td.stopped is.          *)
Life(d) ==
  /\ run[d] \notin {"none", "tell", "gone"} => open[d] # {}
  /\ run[d] \in {"tell", "gone"} => open[d] = {}
  /\ run[d] \in {"none", "makeStop", "makeStopped"} => stopped[d] = "nil"
  /\ run[d] \in {"none", "makeStop"} => stop[d] = "nil"
  /\ run[d] \notin {"none", "makeStop"} => stop[d] # "nil"
  /\ stopped[d] = "closed" => run[d] = "gone"

(* What Agent.Stop knows: the device it is at has both channels unless it  *)
(* came early, td.stop anyway once CheckStop has seen it, and those it has *)
(* left are closed.                                                        *)
AtDevice ==
  /\ stopping # "none" => (cur # None /\ agent = "stopping")
  /\ cur # None => (cur \notin early => stopped[cur] # "nil")
  /\ stopping \in {"close", "receive", "wait", "hung"} => stop[cur] # "nil"

Closed == \A d \in Devices : (Handled(d) /\ d \notin early) => stopped[d] = "closed"

(* A device that NewAgent has yet to start has no goroutine.               *)
Fresh == agent = "starting" => \A d \in todo : run[d] = "none"

StopInv == Fresh /\ Types /\ (\A d \in Devices : Life(d)) /\ AtDevice /\ Closed

LEMMA StopInvInit == Init => StopInv
<1> SUFFICES ASSUME Init PROVE StopInv
  OBVIOUS
<1>1. Types
  BY DEF Init, Types, RunState, Channel
<1>2. ASSUME NEW d \in Devices PROVE Life(d)
  BY DEF Init, Life
<1>3. AtDevice /\ Closed /\ Fresh
  BY DEF Init, AtDevice, Closed, Handled, Fresh
<1> QED
  BY <1>1, <1>2, <1>3 DEF StopInv

LEMMA StopInvStutter ==
  ASSUME StopInv, UNCHANGED vars
  PROVE  StopInv'
  BY DEF StopInv, Fresh, Types, Life, AtDevice, Closed, Handled, vars, agentVars,
         deviceVars, stopVars

(* NewAgent and the signal.                                                *)
LEMMA StopInvStart ==
  ASSUME StopInv, (\E d \in Devices : RunDevice(d)) \/ Started \/ Terminate
  PROVE  StopInv'
<1>1. ASSUME NEW d \in Devices, RunDevice(d)
      PROVE  StopInv'
  <2>1. /\ agent = "starting" /\ d \in todo /\ todo' = todo \ {d}
        /\ UNCHANGED <<agent, accept, stop, stopped, cur, stopping, early>>
        /\ run[d] = "none"
    BY <1>1 DEF RunDevice, stopVars, StopInv, Fresh
  <2>2. /\ open' \in [Devices -> SUBSET Resources]
        /\ managed' \in SUBSET Devices
        /\ run' \in [Devices -> RunState] /\ run'[d] \in {"none", "makeStop"}
        /\ run'[d] = "makeStop" => open'[d] # {}
        /\ \A e \in Devices \ {d} : run'[e] = run[e] /\ open'[e] = open[e]
    <3>1. CASE InitFails(d)
      BY <2>1, <3>1 DEF InitFails, Set, Resources, StopInv, Types
    <3>2. CASE InitSucceeds(d)
      BY <2>1, <3>2 DEF InitSucceeds, Set, Resources, StopInv, Types, RunState
    <3> QED
      BY <1>1, <3>1, <3>2 DEF RunDevice
  <2>3. Types'
    BY <2>1, <2>2 DEF Types, StopInv
  <2>4. ASSUME NEW e \in Devices PROVE Life(e)'
    <3>1. CASE e = d
      BY <2>1, <2>2, <3>1 DEF Life, StopInv
    <3>2. CASE e # d
      BY <2>1, <2>2, <3>2 DEF Life, StopInv
    <3> QED
      BY <3>1, <3>2
  <2>5. AtDevice' /\ Closed' /\ Fresh'
    BY <2>1, <2>2 DEF AtDevice, Closed, Handled, Fresh, StopInv, Types
  <2> QED
    BY <2>3, <2>4, <2>5 DEF StopInv
<1>2. CASE Started \/ Terminate
  <2>1. Types'
    BY <1>2 DEF Started, Terminate, StopInv, Types, deviceVars, stopVars
  <2>2. ASSUME NEW e \in Devices PROVE Life(e)'
    BY <1>2 DEF Started, Terminate, StopInv, Life, deviceVars
  <2>3. AtDevice' /\ Closed' /\ Fresh'
    BY <1>2 DEF Started, Terminate, StopInv, AtDevice, Closed, Handled, Fresh,
                deviceVars, stopVars
  <2> QED
    BY <2>1, <2>2, <2>3 DEF StopInv
<1> QED
  BY <1>1, <1>2

(* The goroutines of a device.                                             *)
LEMMA StopInvRun ==
  ASSUME StopInv, NEW d \in Devices, Run(d) \/ AcceptFails(d) \/ DeviceEnds(d)
  PROVE  StopInv'
<1>1. /\ UNCHANGED <<agent, todo, managed, cur, stopping, early>>
      /\ open' \in [Devices -> SUBSET Resources]
      /\ run' \in [Devices -> RunState]
      /\ accept' \in [Devices -> {"none", "accept", "send", "gone"}]
      /\ stop' \in [Devices -> Channel] /\ stopped' \in [Devices -> Channel]
      /\ \A e \in Devices \ {d} :
           /\ run'[e] = run[e] /\ open'[e] = open[e]
           /\ stop'[e] = stop[e] /\ stopped'[e] = stopped[e]
      /\ Life(d)'
      /\ run'[d] = "none" <=> run[d] = "none"
      /\ stopped[d] # "nil" => stopped'[d] # "nil"
      /\ stop[d] # "nil" => stop'[d] # "nil"
      /\ stopped[d] = "closed" => stopped'[d] = "closed"
  <2> USE DEF StopInv, Types, Life, Set, Channel, RunState, agentVars, stopVars
  <2>1. CASE MakeStop(d) \/ MakeStopped(d)
    BY <2>1 DEF MakeStop, MakeStopped
  <2>2. CASE AcceptFails(d)
    BY <2>2 DEF AcceptFails
  <2>5. CASE TakeError(d)
    BY <2>5 DEF TakeError
  <2>6. CASE SeeStop(d) \/ DeviceEnds(d)
    BY <2>6 DEF SeeStop, DeviceEnds
  <2>3. CASE Close(d)
    BY <2>3 DEF Close, Resources
  <2>4. CASE TellStopped(d)
    BY <2>4 DEF TellStopped
  <2> QED
    BY <2>1, <2>2, <2>3, <2>4, <2>5, <2>6 DEF Run
<1>2. Types'
  BY <1>1 DEF StopInv, Types
<1>3. ASSUME NEW e \in Devices PROVE Life(e)'
  <2>1. CASE e # d
    BY <1>1, <2>1 DEF StopInv, Life
  <2> QED
    BY <1>1, <2>1
<1>4. \A e \in Devices : /\ stopped[e] # "nil" => stopped'[e] # "nil"
                         /\ stop[e] # "nil" => stop'[e] # "nil"
                         /\ stopped[e] = "closed" => stopped'[e] = "closed"
                         /\ run'[e] = "none" <=> run[e] = "none"
  BY <1>1
<1>5. AtDevice' /\ Closed' /\ Fresh'
  BY <1>1, <1>4 DEF StopInv, AtDevice, Closed, Handled, Fresh, Types
<1> QED
  BY <1>2, <1>3, <1>5 DEF StopInv

(* Agent.Stop.                                                             *)
LEMMA StopInvStop ==
  ASSUME StopInv, Stop
  PROVE  StopInv'
<1> USE DEF StopInv, Types, deviceVars, agentVars
<1>1. ASSUME NEW d \in Devices, NextDevice(d) PROVE StopInv'
  <2>1. Types'
    BY <1>1 DEF NextDevice
  <2>2. AtDevice' /\ Fresh'
    BY <1>1, TunAssumption DEF NextDevice, AtDevice, Fresh
  <2>3. Closed'
    BY <1>1, TunAssumption DEF NextDevice, AtDevice, Closed, Handled
  <2> QED
    BY <1>1, <2>1, <2>2, <2>3 DEF NextDevice, Life
<1>2. CASE CheckStop
  <2>1. cur \in Devices /\ agent = "stopping"
        /\ UNCHANGED <<agent, todo, managed, open, run, accept, stop, stopped,
                       early>>
    BY <1>2 DEF CheckStop, AtDevice
  <2>2. stop[cur] = "nil" => cur \in early
    BY <2>1, <1>2 DEF CheckStop, AtDevice, Life
  <2>3. Types' /\ AtDevice' /\ Fresh'
    BY <1>2, <2>1 DEF CheckStop, Return, AtDevice, Fresh
  <2>4. Closed'
    BY <1>2, <2>1, <2>2 DEF CheckStop, Return, Closed, Handled
  <2> QED
    BY <2>1, <2>3, <2>4 DEF Life
<1>3. CASE CloseStop
  <2>1. cur \in Devices /\ agent = "stopping" /\ stop[cur] # "nil"
    BY <1>3 DEF CloseStop, AtDevice
  <2>2. stop' \in [Devices -> Channel]
        /\ \A e \in Devices : stop'[e] = "nil" <=> stop[e] = "nil"
    BY <1>3, <2>1 DEF CloseStop, Set, Channel
  <2>3. Types' /\ AtDevice'
    BY <1>3, <2>1, <2>2 DEF CloseStop, AtDevice
  <2>4. Closed' /\ Fresh'
    BY <1>3, <2>1 DEF CloseStop, Closed, Handled, Fresh
  <2>5. ASSUME NEW e \in Devices PROVE Life(e)'
    BY <1>3, <2>2 DEF CloseStop, Life
  <2> QED
    BY <2>3, <2>4, <2>5
<1>4. CASE Receive
  <2>1. Types' /\ AtDevice' /\ Closed' /\ Fresh'
    BY <1>4 DEF Receive, AtDevice, Closed, Handled, Fresh
  <2> QED
    BY <1>4, <2>1 DEF Receive, Life
<1>5. CASE SeeStopped
  <2>1. Types' /\ AtDevice' /\ Closed' /\ Fresh'
    BY <1>5 DEF SeeStopped, Return, AtDevice, Closed, Handled, Fresh
  <2> QED
    BY <1>5, <2>1 DEF SeeStopped, Life
<1>6. CASE AllStopped
  <2>1. Types' /\ AtDevice' /\ Closed' /\ Fresh'
    BY <1>6 DEF AllStopped, stopVars, AtDevice, Closed, Handled, Fresh
  <2> QED
    BY <1>6, <2>1 DEF AllStopped, Life
<1> QED
  BY <1>1, <1>2, <1>3, <1>4, <1>5, <1>6 DEF Stop

LEMMA StopInvAlways == Spec => []StopInv
<1>1. StopInv /\ [Next]_vars => StopInv'
  BY StopInvStutter, StopInvStart, StopInvRun, StopInvStop DEF Next
<1> QED
  BY <1>1, StopInvInit, PTL DEF Spec

(* Types, and cleanup runs once and only for a device that came up.        *)
THEOREM TunTypeCorrect == Spec => []TypeOK
<1>1. StopInv => TypeOK
  BY DEF StopInv, Types, Life, AtDevice, TypeOK, RunState
<1> QED
  BY <1>1, StopInvAlways, PTL

(* Agent.Stop leaves no device behind that is not closed, unless it came   *)
(* before the goroutine of the device had made its channels.               *)
THEOREM StopCloses == Spec => []StoppedIsClosed
<1>1. StopInv => StoppedIsClosed
  BY DEF StopInv, Life, Closed, StoppedIsClosed
<1> QED
  BY <1>1, StopInvAlways, PTL

(* What a Stop that waits relies on: td.stopped is open from the loop of   *)
(* run to its end and closed there, and td.stop is closed by the Stop that *)
(* Agent.Stop is at, for the first time.                                   *)
Ends(d) ==
  /\ run[d] \in {"select", "cleanup", "tell"} => stopped[d] = "open"
  /\ run[d] = "gone" => stopped[d] = "closed"

StopOnce ==
  /\ \A d \in Devices :
       stop[d] = "closed" => agent \in {"stopping", "done"} /\ d \notin todo
  /\ stopping # "none" => cur \notin todo
  /\ stopping \in {"check", "close"} => stop[cur] # "closed"
  /\ stopping \in {"receive", "wait", "hung"} => stop[cur] = "closed"
  /\ stopping = "hung" => cur \in early

MeetInv == (\A d \in Devices : Ends(d)) /\ StopOnce

(* NewAgent and the signal close nothing.                                  *)
LEMMA MeetStart ==
  ASSUME StopInv, MeetInv,
         (\E d \in Devices : RunDevice(d)) \/ Started \/ Terminate
  PROVE  MeetInv'
<1>1. /\ UNCHANGED <<stop, stopped, cur, stopping, early>>
      /\ agent \notin {"stopping", "done"}
  BY DEF RunDevice, Started, Terminate, deviceVars, stopVars
<1>2. ASSUME NEW d \in Devices PROVE Ends(d)'
  <2>1. CASE run'[d] = run[d]
    BY <1>1, <2>1 DEF MeetInv, Ends
  <2>2. CASE run'[d] # run[d]
    <3>1. run'[d] = "makeStop"
      BY <2>2 DEF RunDevice, InitFails, InitSucceeds, Started, Terminate, Set,
                  deviceVars, StopInv, Types
    <3> QED
      BY <3>1 DEF Ends
  <2> QED
    BY <2>1, <2>2
<1>3. StopOnce'
  BY <1>1 DEF MeetInv, StopOnce, StopInv, AtDevice
<1> QED
  BY <1>2, <1>3 DEF MeetInv

(* Neither do the goroutines of a device, but for td.stopped at their end. *)
LEMMA MeetRun ==
  ASSUME StopInv, MeetInv, NEW d \in Devices,
         Run(d) \/ AcceptFails(d) \/ DeviceEnds(d)
  PROVE  MeetInv'
<1> USE DEF Set, agentVars, stopVars
<1>1. /\ UNCHANGED <<agent, todo, managed, cur, stopping, early>>
      /\ \A e \in Devices \ {d} :
           /\ run'[e] = run[e] /\ stop'[e] = stop[e]
           /\ stopped'[e] = stopped[e]
      /\ Ends(d)'
      /\ stop'[d] = stop[d] \/ (stop[d] = "nil" /\ stop'[d] = "open")
  <2> USE DEF StopInv, Types, Life, MeetInv, Ends, Channel, RunState
  <2>1. CASE MakeStop(d) \/ MakeStopped(d)
    BY <2>1 DEF MakeStop, MakeStopped
  <2>2. CASE AcceptFails(d) \/ TakeError(d)
    BY <2>2 DEF AcceptFails, TakeError
  <2>3. CASE SeeStop(d) \/ DeviceEnds(d)
    BY <2>3 DEF SeeStop, DeviceEnds
  <2>4. CASE Close(d)
    BY <2>4 DEF Close
  <2>5. CASE TellStopped(d)
    BY <2>5 DEF TellStopped
  <2> QED
    BY <2>1, <2>2, <2>3, <2>4, <2>5 DEF Run
<1>2. ASSUME NEW e \in Devices PROVE Ends(e)'
  BY <1>1 DEF MeetInv, Ends
<1>3. \A e \in Devices : stop'[e] = "closed" <=> stop[e] = "closed"
  BY <1>1
<1>4. StopOnce'
  BY <1>1, <1>3 DEF MeetInv, StopOnce, StopInv, AtDevice, Types
<1> QED
  BY <1>2, <1>4 DEF MeetInv

(* Agent.Stop visits a device once.                                        *)
LEMMA MeetStop ==
  ASSUME StopInv, MeetInv, Stop
  PROVE  MeetInv'
<1> USE DEF deviceVars, agentVars
<1>1. ASSUME NEW d \in Devices PROVE Ends(d)'
  BY DEF Stop, NextDevice, CheckStop, CloseStop, Receive, SeeStopped,
         AllStopped, MeetInv, Ends
<1>2. StopOnce'
  <2> USE DEF StopInv, Types, AtDevice, MeetInv, StopOnce
  <2>1. ASSUME NEW d \in Devices, NextDevice(d) PROVE StopOnce'
    BY <2>1 DEF NextDevice
  <2>2. CASE CheckStop \/ SeeStopped
    BY <2>2 DEF CheckStop, SeeStopped, Return
  <2>3. CASE CloseStop
    <3>1. cur \in Devices /\ cur \notin todo /\ agent = "stopping"
      BY <2>3 DEF CloseStop
    <3> QED
      BY <2>3, <3>1 DEF CloseStop, Set
  <2>4. CASE Receive
    BY <2>4 DEF Receive
  <2>5. CASE AllStopped
    BY <2>5 DEF AllStopped, stopVars
  <2> QED
    BY <2>1, <2>2, <2>3, <2>4, <2>5 DEF Stop
<1> QED
  BY <1>1, <1>2 DEF MeetInv

LEMMA MeetAlways == Spec => []MeetInv
<1>1. Init => MeetInv
  BY DEF Init, MeetInv, Ends, StopOnce
<1>2. StopInv /\ MeetInv /\ [Next]_vars => MeetInv'
  <2>1. MeetInv /\ UNCHANGED vars => MeetInv'
    BY DEF MeetInv, Ends, StopOnce, vars, agentVars, deviceVars, stopVars
  <2> QED
    BY <2>1, MeetStart, MeetRun, MeetStop DEF Next
<1> QED
  BY <1>1, <1>2, StopInvAlways, PTL DEF Spec

(* A Stop that waits is met by the goroutine of its device, in whatever    *)
(* order the signal, an error of the listener and the end of the device    *)
(* came; only a Stop that came before the channels were made hangs.        *)
THEOREM StopsAreMet == Spec => []StopIsMet
<1>1. StopInv /\ MeetInv => StopIsMet
  <2> SUFFICES ASSUME StopInv, MeetInv, cur \notin early,
                      stopping \in {"receive", "wait", "hung"}
               PROVE  /\ stopping # "hung"
                      /\ \/ run[cur] = "select" /\ stop[cur] = "closed"
                         \/ run[cur] \in {"cleanup", "tell"}
                         \/ stopped[cur] = "closed"
    BY DEF StopIsMet
  <2>1. cur \in Devices /\ stopped[cur] # "nil"
    BY DEF StopInv, AtDevice, Types
  <2>2. stop[cur] = "closed" /\ stopping # "hung"
    BY DEF MeetInv, StopOnce
  <2>3. run[cur] \in {"select", "cleanup", "tell", "gone"}
    BY <2>1 DEF StopInv, Life, Types, RunState
  <2> QED
    BY <2>1, <2>2, <2>3 DEF MeetInv, Ends
<1> QED
  BY <1>1, StopInvAlways, MeetAlways, PTL

(* No channel is closed twice or before it is made.                        *)
THEOREM ChannelsClosedOnce == Spec => []ClosedOnce
<1>1. StopInv /\ MeetInv => ClosedOnce
  BY DEF StopInv, AtDevice, Types, Channel, MeetInv, StopOnce, Ends, ClosedOnce
<1> QED
  BY <1>1, StopInvAlways, MeetAlways, PTL
=============================================================================
