-------------------------- MODULE MCLeaseExchange --------------------------
(***************************************************************************)
(* LeaseExchange for TLC: one agent, whose second run has a key of its own,*)
(* and two handlers, so that a request of the first run may still be       *)
(* served while one of the second is.                                      *)
(***************************************************************************)
EXTENDS LeaseExchange, TLC

CONSTANTS u1, k1, k2, h1, h2

KeysOfRuns == u1 :> {k1, k2}
=============================================================================
