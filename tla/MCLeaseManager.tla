--------------------------- MODULE MCLeaseManager ---------------------------
(***************************************************************************)
(* LeaseManager for TLC: two users, two keys, both users able to present   *)
(* the second one, and a prefix of four or five addresses, of which one or *)
(* two can be leased: the first, the last and the gateway are reserved.    *)
(***************************************************************************)
EXTENDS LeaseManager, TLC

CONSTANTS u1, u2, k1, k2, h1, h2

(* u1 changes its key, u2 may present a key of u1's.                       *)
MCKeysOf   == (u1 :> {k1, k2}) @@ (u2 :> {k2})
OneKeyEach == (u1 :> {k1}) @@ (u2 :> {k2})

Interchangeable == Permutations(Handlers)
=============================================================================
