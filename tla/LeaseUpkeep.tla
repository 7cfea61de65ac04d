---------------------------- MODULE LeaseUpkeep -----------------------------
(***************************************************************************)
(* What the renewal of a lease promises, however many goroutines share the *)
(* work: a device that has been given a token is being renewed, or its     *)
(* lease is held and looked after, or its token has expired.  It comes to  *)
(* rest only after the newest token has been tried, and leaves the phase   *)
(* "held" only to be renewed again.  It may fail in two ways: "refused"    *)
(* when the device did not take the configuration of the lease, "stranded" *)
(* when a retry was stopped by mistake.                                    *)
(***************************************************************************)
EXTENDS Integers

VARIABLES
  token,     \* the number of tokens the device has been given
  tried,     \* the token of the last attempt
  lapsed,    \* tokens up to this one have expired
  swallowed, \* has a retry been stopped by mistake since the last attempt?
  unapplied, \* was the last configuration not applied in full?
  phase      \* idle, renewing, held, refused, expired, stranded

upkeepVars == <<token, tried, lapsed, swallowed, unapplied, phase>>

Resting == {"held", "refused", "expired", "stranded"}

(* A new token, whatever the device is doing. *)
Submit ==
  /\ token' = token + 1
  /\ phase' = "renewing"
  /\ UNCHANGED <<tried, lapsed, swallowed, unapplied>>

(* An attempt begins with the newest token. *)
Attempt ==
  /\ phase = "renewing" /\ phase' = "renewing"
  /\ tried' = token /\ swallowed' = FALSE
  /\ UNCHANGED <<token, lapsed, unapplied>>

(* The device takes a configuration, or does not. *)
Configure ==
  /\ phase = "renewing" /\ phase' = "renewing"
  /\ unapplied' \in BOOLEAN
  /\ UNCHANGED <<token, tried, lapsed, swallowed>>

StopRetry ==
  /\ phase = "renewing" /\ phase' = "renewing"
  /\ swallowed' = TRUE
  /\ UNCHANGED <<token, tried, lapsed, unapplied>>

(* The work is over: the newest token has been tried. *)
Rest(p) ==
  /\ phase = "renewing" /\ phase' = p
  /\ tried' = token /\ swallowed' \in BOOLEAN
  /\ p = "expired" => tried' =< lapsed
  /\ p = "stranded" => swallowed'
  /\ p = "refused" => unapplied
  /\ UNCHANGED <<token, lapsed, unapplied>>

(* A health check gives the lease up. *)
Resume ==
  /\ phase \in Resting /\ phase' = "renewing"
  /\ UNCHANGED <<token, tried, lapsed, swallowed, unapplied>>

Lapse ==
  /\ lapsed' = token
  /\ UNCHANGED <<token, tried, swallowed, unapplied, phase>>

Init ==
  /\ token = 0 /\ tried = 0 /\ lapsed = 0
  /\ swallowed = FALSE /\ unapplied = FALSE /\ phase = "idle"

Next ==
  \/ Submit \/ Attempt \/ Configure \/ StopRetry \/ Resume \/ Lapse
  \/ \E p \in Resting : Rest(p)

Spec == Init /\ [][Next]_upkeepVars
=============================================================================
