-------------------------- MODULE MCServerProcess --------------------------
(* A small instance of ServerProcess for TLC. *)
EXTENDS ServerProcess

CONSTANTS I1, I2, Wg0, Wg1

Prefix(family, addr, len) == [family |-> family, addr |-> addr, len |-> len]

(* 10.7.0.1/17, a tunnel address, and networks behind the server. *)
Tunnel  == Prefix(4, 2567, 17)
Ten     == Prefix(4, 2560, 8)
Private == Prefix(4, 44048, 12)

Base == [Address |-> Tunnel, AllowedIPs |-> {Ten}, DeviceName |-> Wg0,
         OauthServers |-> {I1}]

(* The second shares a rule with the first, the third has another device;  *)
(* the fourth starts in a private range and ends outside (10.0.0.0/7), the *)
(* last is private, but not IPv4.                                          *)
MCConfigs ==
  {Base,
   [Base EXCEPT !.AllowedIPs = {Ten, Private}, !.OauthServers = {I1, I2}],
   [Base EXCEPT !.DeviceName = Wg1],
   [Base EXCEPT !.AllowedIPs = {Prefix(4, 2560, 7)}],
   [Base EXCEPT !.Address = Prefix(6, 64768, 64), !.AllowedIPs = {}]}
============================================================================
