----------------------------- MODULE TunDevice ------------------------------
(***************************************************************************)
(* The user-space devices of the wiresteward agent: TunDevice of device.go,*)
(* started by NewAgent and stopped by Agent.Stop (agent.go, main.go).      *)
(*                                                                         *)
(* Each device has a goroutine, run, that waits for a reason to end and    *)
(* then cleans up, and one that accepts connections to its UAPI socket.    *)
(* Stop meets run over two channels that run itself creates.  The agent    *)
(* stops its devices one after the other, so one Stop that hangs keeps the *)
(* others and the process from ending.                                     *)
(***************************************************************************)
EXTENDS Integers

CONSTANTS
  Devices,  \* the devices of the agent's configuration
  None      \* Agent.Stop is at no device

ASSUME TunAssumption == None \notin Devices

Resources == {"device", "socket", "listener"}

VARIABLES
  agent,    \* starting, running, stopping or done
  todo,     \* devices that NewAgent has yet to start, Agent.Stop to stop
  managed,  \* a.deviceManagers
  open,     \* open[d]: what is open of device d
  run,      \* run[d]: what td.run does next
  accept,   \* accept[d]: what the accept goroutine does next
  stop,     \* stop[d]: the channel td.stop, nil, open or closed
  stopped,  \* stopped[d]: the channel td.stopped
  cur,      \* the device Agent.Stop is at
  stopping, \* what its Stop does next
  (*************************************************************************)
  (* History, read by properties and never by a guard.                     *)
  (*************************************************************************)
  early     \* devices Stop was called on before run had made both channels

deviceVars == <<open, run, accept, stop, stopped>>
agentVars  == <<agent, todo, managed>>
stopVars   == <<cur, stopping, early>>
vars == <<agentVars, deviceVars, stopVars>>

Set(f, d, v) == [f EXCEPT ![d] = v]

(* Goroutines run until the process ends.                                  *)
Alive == agent # "done"

---------------------------------------------------------------------------
(* NewAgent and DeviceManager.Run.                                         *)

(* Mutant: Run goes on although init has failed. *)
InitFailsRegardless(d) ==
  /\ run' = Set(run, d, "makeStop")
  /\ managed' = managed \cup {d}
  /\ UNCHANGED open

(* td.init fails.  Without a listener it closes td.uapiSocket, which is    *)
(* not set yet, and the socket just opened stays.                          *)
InitFails(d) ==
  /\ open' \in {open, Set(open, d, {"socket"})}
  /\ UNCHANGED <<managed, run>>

(* td.init succeeds and run begins; ensureLinkUp or the keys may then fail,*)
(* and NewAgent goes on without the device.                                *)
InitSucceeds(d) ==
  /\ open' = Set(open, d, Resources)
  /\ run' = Set(run, d, "makeStop")
  /\ managed' \in {managed, managed \cup {d}}

RunDevice(d) ==
  /\ agent = "starting" /\ d \in todo
  /\ todo' = todo \ {d}
  /\ InitFails(d) \/ InitSucceeds(d)
  /\ UNCHANGED <<agent, accept, stop, stopped, stopVars>>

Started ==
  /\ agent = "starting" /\ todo = {}
  /\ agent' = "running"
  /\ UNCHANGED <<todo, managed, deviceVars, stopVars>>

---------------------------------------------------------------------------
(* td.run.                                                                 *)

MakeStop(d) ==
  /\ Alive /\ run[d] = "makeStop"
  /\ stop' = Set(stop, d, "open")
  /\ run' = Set(run, d, "makeStopped")
  /\ UNCHANGED <<agentVars, open, accept, stopped, stopVars>>

MakeStopped(d) ==
  /\ Alive /\ run[d] = "makeStopped"
  /\ stopped' = Set(stopped, d, "open")
  /\ accept' = Set(accept, d, "accept")
  /\ run' = Set(run, d, "select")
  /\ UNCHANGED <<agentVars, open, stop, stopVars>>

(* uapi.Accept fails: for good when the listener is closed, but it may at  *)
(* any time.                                                               *)
AcceptFails(d) ==
  /\ Alive /\ accept[d] = "accept"
  /\ accept' = Set(accept, d, "send")
  /\ UNCHANGED <<agentVars, open, run, stop, stopped, stopVars>>

(* Mutant: run returns on an error of the listener. *)
TakeErrorAndReturn(d) ==
  /\ Alive /\ run[d] = "select" /\ accept[d] = "send"
  /\ run' = Set(run, d, "gone")
  /\ accept' = Set(accept, d, "gone")
  /\ UNCHANGED <<agentVars, open, stop, stopped, stopVars>>

(* td.errs has no buffer: the error is received or its sender waits.       *)
TakeError(d) ==
  /\ Alive /\ run[d] = "select" /\ accept[d] = "send"
  /\ run' = Set(run, d, "cleanup")
  /\ accept' = Set(accept, d, "gone")
  /\ UNCHANGED <<agentVars, open, stop, stopped, stopVars>>

SeeStop(d) ==
  /\ Alive /\ run[d] = "select" /\ stop[d] = "closed"
  /\ run' = Set(run, d, "cleanup")
  /\ UNCHANGED <<agentVars, open, accept, stop, stopped, stopVars>>

(* td.device.Wait: the device has ended by itself.                         *)
DeviceEnds(d) ==
  /\ Alive /\ run[d] = "select"
  /\ run' = Set(run, d, "cleanup")
  /\ UNCHANGED <<agentVars, open, accept, stop, stopped, stopVars>>

(* cleanup closes the listener, the socket and the device.                 *)
Close(d) ==
  /\ Alive /\ run[d] = "cleanup"
  /\ open' = Set(open, d,
       IF "listener" \in open[d] THEN open[d] \ {"listener"}
       ELSE open[d] \ {IF "socket" \in open[d] THEN "socket" ELSE "device"})
  /\ run' = IF open'[d] = {} THEN Set(run, d, "tell") ELSE run
  /\ UNCHANGED <<agentVars, accept, stop, stopped, stopVars>>

(* Mutant: Stop is told before everything is closed. *)
TellStoppedEarly(d) ==
  /\ Alive /\ run[d] \in {"tell", "cleanup"} /\ stopped[d] = "open"
  /\ stopped' = Set(stopped, d, "closed")
  /\ run' = IF run[d] = "tell" THEN Set(run, d, "gone") ELSE run
  /\ UNCHANGED <<agentVars, open, accept, stop, stopVars>>

TellStopped(d) ==
  /\ Alive /\ run[d] = "tell"
  /\ stopped' = Set(stopped, d, "closed")
  /\ run' = Set(run, d, "gone")
  /\ UNCHANGED <<agentVars, open, accept, stop, stopVars>>

Run(d) ==
  \/ MakeStop(d) \/ MakeStopped(d) \/ TakeError(d) \/ SeeStop(d)
  \/ Close(d) \/ TellStopped(d)

---------------------------------------------------------------------------
(* Agent.Stop, on a signal or when the agent's HTTP server ends.           *)

Terminate ==
  /\ agent = "running"
  /\ agent' = "stopping" /\ todo' = managed
  /\ UNCHANGED <<managed, deviceVars, stopVars>>

NextDevice(d) ==
  /\ agent = "stopping" /\ cur = None /\ d \in todo
  /\ cur' = d /\ stopping' = "check" /\ todo' = todo \ {d}
  /\ early' = IF stopped[d] = "nil" THEN early \cup {d} ELSE early
  /\ UNCHANGED <<agent, managed, deviceVars>>

Return == cur' = None /\ stopping' = "none"

(* Without the channel there is nothing to stop.                           *)
CheckStop ==
  /\ stopping = "check"
  /\ IF stop[cur] = "nil" THEN Return ELSE stopping' = "close" /\ UNCHANGED cur
  /\ UNCHANGED <<agentVars, deviceVars, early>>

CloseStop ==
  /\ stopping = "close"
  /\ stop' = Set(stop, cur, "closed")
  /\ stopping' = "receive"
  /\ UNCHANGED <<agentVars, open, run, accept, stopped, cur, early>>

(* A receive from td.stopped, or from nil if run has not made it yet, which*)
(* blocks for ever.                                                        *)
Receive ==
  /\ stopping = "receive"
  /\ stopping' = IF stopped[cur] = "nil" THEN "hung" ELSE "wait"
  /\ UNCHANGED <<agentVars, deviceVars, cur, early>>

SeeStopped ==
  /\ stopping = "wait" /\ stopped[cur] = "closed"
  /\ Return
  /\ UNCHANGED <<agentVars, deviceVars, early>>

AllStopped ==
  /\ agent = "stopping" /\ cur = None /\ todo = {}
  /\ agent' = "done"
  /\ UNCHANGED <<todo, managed, deviceVars, stopVars>>

Stop ==
  \/ \E d \in Devices : NextDevice(d)
  \/ CheckStop \/ CloseStop \/ Receive \/ SeeStopped \/ AllStopped

---------------------------------------------------------------------------
Init ==
  /\ agent = "starting" /\ todo = Devices /\ managed = {}
  /\ open = [d \in Devices |-> {}]
  /\ run = [d \in Devices |-> "none"] /\ accept = [d \in Devices |-> "none"]
  /\ stop = [d \in Devices |-> "nil"] /\ stopped = [d \in Devices |-> "nil"]
  /\ cur = None /\ stopping = "none" /\ early = {}

Next ==
  \/ Started \/ Terminate \/ Stop
  \/ \E d \in Devices :
       RunDevice(d) \/ Run(d) \/ AcceptFails(d) \/ DeviceEnds(d)

Spec == Init /\ [][Next]_vars

(* The scheduler runs run and Agent.Stop.  Nothing makes a device fail or a*)
(* signal come.                                                            *)
FairSpec == Spec /\ WF_vars(Stop) /\ \A d \in Devices : WF_vars(Run(d))
---------------------------------------------------------------------------
(* Properties *)

Channel == {"nil", "open", "closed"}

(* Types.  A device that cleans up still has something to close: cleanup   *)
(* runs once, and never for a device that did not come up.                 *)
TypeOK ==
  /\ agent \in {"starting", "running", "stopping", "done"}
  /\ todo \in SUBSET Devices /\ managed \in SUBSET Devices
  /\ open \in [Devices -> SUBSET Resources]
  /\ run \in [Devices -> {"none", "makeStop", "makeStopped", "select",
                          "cleanup", "tell", "gone"}]
  /\ accept \in [Devices -> {"none", "accept", "send", "gone"}]
  /\ stop \in [Devices -> Channel] /\ stopped \in [Devices -> Channel]
  /\ cur \in Devices \cup {None}
  /\ stopping \in {"none", "check", "close", "receive", "wait", "hung"}
  /\ early \in SUBSET Devices
  /\ stopping # "none" => cur # None
  /\ \A d \in Devices : run[d] = "cleanup" => open[d] # {}

Handled(d) == agent = "stopping" /\ d \in managed /\ d \notin todo /\ d # cur

(* When Stop has returned, nothing of the device is open any more, however *)
(* the device came to its end, unless Stop came before run had begun.      *)
StoppedIsClosed ==
  \A d \in Devices : (Handled(d) /\ d \notin early) => open[d] = {}

(* Whoever waits in Stop is met: run is about to see td.stop, or on its way*)
(* to close td.stopped, whether a listener error, the end of the device or *)
(* the Stop came first; only a Stop that came early can wait for nil.      *)
StopIsMet ==
  (stopping \in {"receive", "wait", "hung"} /\ cur \notin early) =>
    /\ stopping # "hung"
    /\ \/ run[cur] = "select" /\ stop[cur] = "closed"
       \/ run[cur] \in {"cleanup", "tell"} \/ stopped[cur] = "closed"

(* No channel is closed before it is made or for a second time, which would*)
(* be a panic, although Stop and run end a device from both sides.         *)
ClosedOnce ==
  /\ stopping = "close" => stop[cur] = "open"
  /\ \A d \in Devices : run[d] = "tell" => stopped[d] = "open"

(* Agent.Stop ends: every Stop that finds a device in its loop, on its way *)
(* out or gone returns, unless it came before run had begun.               *)
AgentStops == (agent = "stopping") ~> (agent = "done" \/ early # {})
=============================================================================
