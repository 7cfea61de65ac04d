---------------------------- MODULE AddressPool ----------------------------
(***************************************************************************)
(* What the lease server promises about addresses, whoever asks and        *)
(* however the work is divided: an address belongs to at most one user,    *)
(* a user has at most one and keeps it, only expired leases are taken      *)
(* away.  A save writes all the leases and a restart brings back all that  *)
(* are saved and unexpired, unless a call fails, which failures counts.    *)
(***************************************************************************)
EXTENDS Integers, FiniteSets

CONSTANTS Users, Addresses, MaxTime

VARIABLES
  now,      \* the wall clock
  pool,     \* the leases in force
  saved,    \* the leases on stable storage
  running,  \* is the server there to grant leases?
  failures  \* failing calls so far

poolVars == <<now, pool, saved, running, failures>>

PoolLease == [addr : Addresses, user : Users, until : 0 .. MaxTime]

(* Each address and each user occurs at most once. *)
Exclusive(P) ==
  \A l, m \in P : (l.addr = m.addr \/ l.user = m.user) => l = m

Failing == failures' = failures + 1

Assign ==
  /\ running
  /\ \E l \in PoolLease :
       /\ \A m \in pool : m.addr # l.addr /\ m.user # l.user
       /\ pool' = pool \cup {l}
  /\ UNCHANGED <<now, saved, running, failures>>

Renew ==
  /\ running
  /\ \E l \in pool : \E t \in 0 .. MaxTime :
       pool' = (pool \ {l}) \cup {[l EXCEPT !.until = t]}
  /\ UNCHANGED <<now, saved, running, failures>>

Reclaim ==
  /\ running
  /\ pool' = {l \in pool : l.until >= now}
  /\ UNCHANGED <<now, saved, running, failures>>

(* A save that fails keeps some of the leases. *)
Save ==
  /\ running
  /\ \/ saved' = pool /\ UNCHANGED failures
     \/ saved' \in SUBSET pool /\ Failing
  /\ UNCHANGED <<now, pool, running>>

(* A call that fails and does nothing. *)
Fail == Failing /\ UNCHANGED <<now, pool, saved, running>>

(* The end of the server, perhaps amid a save, or because a call failed. *)
Stop ==
  /\ pool' = {} /\ running' = FALSE
  /\ \/ saved' = saved /\ (UNCHANGED failures \/ Failing)
     \/ saved' \in SUBSET pool /\ UNCHANGED failures
  /\ UNCHANGED now

Unexpired == {l \in saved : l.until > now}

Restart ==
  /\ ~running /\ running' = TRUE
  /\ \/ pool' = Unexpired /\ UNCHANGED failures
     \/ pool' \in SUBSET Unexpired /\ Failing
  /\ UNCHANGED <<now, saved>>

Advance ==
  now' = now + 1 /\ UNCHANGED <<pool, saved, running, failures>>

Init ==
  now = 0 /\ pool = {} /\ saved = {} /\ running = FALSE /\ failures = 0

Next ==
  Assign \/ Renew \/ Reclaim \/ Save \/ Fail \/ Stop \/ Restart \/ Advance

Spec == Init /\ [][Next]_poolVars
=============================================================================
