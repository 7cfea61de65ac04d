--------------------------- MODULE MCAgentDevice ----------------------------
(***************************************************************************)
(* AgentDevice for TLC: two servers, p1 and p2, that allow overlapping     *)
(* subnets; p1 may lease another address or allow other subnets, and p2 may*)
(* offer the address of p1.                                                *)
(***************************************************************************)
EXTENDS AgentDevice

CONSTANTS a1, a2, p1, p2, n1, n2

Offer(a, p, ns) == [LocalAddress |-> a, peer |-> p, AllowedIPs |-> ns]

MCOffers ==
  {Offer(a1, p1, {n1}), Offer(a1, p1, {n1, n2}), Offer(a2, p1, {n1}),
   Offer(a2, p2, {n1, n2}), Offer(a1, p2, {n1})}
=============================================================================
