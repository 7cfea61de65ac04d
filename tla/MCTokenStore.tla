---------------------------- MODULE MCTokenStore ----------------------------
(***************************************************************************)
(* TokenStore for TLC: the refresh loop and two handlers.                  *)
(***************************************************************************)
EXTENDS TokenStore, TLC

CONSTANTS h1, h2

Interchangeable == Permutations(Handlers)
=============================================================================
