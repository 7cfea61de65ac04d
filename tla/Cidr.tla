------------------------------- MODULE Cidr --------------------------------
(***************************************************************************)
(* The private address check of the wiresteward server: isPrivateCIDR of   *)
(* cidr.go, with the IsPrivate of net/netip that it calls.                 *)
(*                                                                         *)
(* An address is represented by its first sixteen bits: no private range   *)
(* is narrower than a /16, so they decide whether the address is private,  *)
(* and a prefix longer than /16 stays among the addresses of one head.     *)
(* IPv4 addresses in IPv6 notation are left out.                           *)
(***************************************************************************)
EXTENDS Integers

Heads == {n \in Nat : n < 65536}

Prefixes == [family : {4, 6}, addr : Heads, len : {n \in Nat : n <= 128}]

(* 2^(16 - len), as a table: the provers know no exponentiation. *)
Spans == <<32768, 16384, 8192, 4096, 2048, 1024, 512, 256,
           128, 64, 32, 16, 8, 4, 2, 1>>

Span(p) == IF p.len = 0 THEN 65536 ELSE IF p.len > 16 THEN 1 ELSE Spans[p.len]

(* prefix.Masked().Addr() and netipx.PrefixLastIP(prefix). *)
MaskedAddr(p) == p.addr - (p.addr % Span(p))
PrefixLastIP(p) == (MaskedAddr(p) + Span(p)) - 1

(* Every address of the prefix. *)
Addresses(p) == MaskedAddr(p)..PrefixLastIP(p)

(* 10.0.0.0/8, 172.16.0.0/12, 192.168.0.0/16; fc00::/7. *)
IsPrivate(family, a) ==
  \/ family = 4 /\ (\/ 2560 <= a /\ a < 2816
                    \/ 44048 <= a /\ a < 44064
                    \/ a = 49320)
  \/ family = 6 /\ 64512 <= a /\ a < 65024

(* Mutant: the last address is not looked at. *)
FirstIsPrivate(p) == IsPrivate(p.family, MaskedAddr(p))

isPrivateCIDR(p) ==
  /\ IsPrivate(p.family, MaskedAddr(p))
  /\ IsPrivate(p.family, PrefixLastIP(p))

(* The README on "Private address validation": the prefix is fully         *)
(* contained within a private range.                                       *)
WithinPrivate(p) == \A a \in Addresses(p) : IsPrivate(p.family, a)
============================================================================
