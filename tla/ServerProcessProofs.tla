------------------------ MODULE ServerProcessProofs ------------------------
(***************************************************************************)
(* Theorems about ServerProcess, for every set of configurations, OAuth    *)
(* servers and devices, and every bound.                                   *)
(***************************************************************************)
EXTENDS ServerProcess, TLAPS

---------------------------------------------------------------------------
(* Prefixes.                                                               *)

(* A prefix has a power of two addresses, and begins at a multiple of it.  *)
LEMMA SpanCases ==
  ASSUME NEW p \in Prefixes
  PROVE  Span(p) \in {65536, 32768, 16384, 8192, 4096, 2048, 1024, 512, 256,
                      128, 64, 32, 16, 8, 4, 2, 1}
<1>1. p.len \in Nat
  BY DEF Prefixes
<1>2. CASE p.len = 0 \/ p.len > 16
  BY <1>1, <1>2 DEF Span
<1>3. CASE p.len \in 1..16
  BY <1>3 DEF Span, Spans
<1> QED BY <1>1, <1>2, <1>3

LEMMA Aligned ==
  ASSUME NEW p \in Prefixes
  PROVE  /\ MaskedAddr(p) \in Heads
         /\ MaskedAddr(p) <= p.addr /\ p.addr <= PrefixLastIP(p)
         /\ MaskedAddr(p) % Span(p) = 0
         /\ PrefixLastIP(p) = MaskedAddr(p) + Span(p) - 1
<1>1. p.addr \in Nat /\ p.addr < 65536
  BY DEF Prefixes, Heads
<1>2. ASSUME NEW A \in Nat, A < 65536,
             NEW S \in {65536, 32768, 16384, 8192, 4096, 2048, 1024, 512, 256,
                        128, 64, 32, 16, 8, 4, 2, 1}
      PROVE  /\ A % S \in Nat /\ A % S < S /\ A % S <= A
             /\ (A - (A % S)) % S = 0
  BY <1>2
<1>3. /\ p.addr % Span(p) \in Nat
      /\ p.addr % Span(p) < Span(p) /\ p.addr % Span(p) <= p.addr
      /\ MaskedAddr(p) % Span(p) = 0
  BY <1>1, <1>2, SpanCases DEF MaskedAddr
<1>4. Span(p) \in Nat
  BY SpanCases
<1> QED BY <1>1, <1>3, <1>4 DEF MaskedAddr, PrefixLastIP, Heads

(* Theorem: isPrivateCIDR, which looks at the first and the last address   *)
(* of a prefix only, accepts it just when all of its addresses are         *)
(* private: no prefix begins in one private range and ends in another.     *)
THEOREM PrivateCheckExact ==
  \A p \in Prefixes : isPrivateCIDR(p) <=> WithinPrivate(p)
<1> SUFFICES ASSUME NEW p \in Prefixes
             PROVE  isPrivateCIDR(p) <=> WithinPrivate(p)
  OBVIOUS
<1> DEFINE F == MaskedAddr(p)
           S == Span(p)
           L == PrefixLastIP(p)
<1>1. F \in Nat /\ F < 65536 /\ F % S = 0 /\ L = F + S - 1
  BY Aligned DEF Heads
<1>2. S \in {65536, 32768, 16384, 8192, 4096, 2048, 1024, 512, 256,
             128, 64, 32, 16, 8, 4, 2, 1}
  BY SpanCases
<1>3. F \in F..L /\ L \in F..L
  <2> HIDE DEF F, S, L
  <2> QED BY <1>1, <1>2
<1>4. ASSUME IsPrivate(p.family, F), IsPrivate(p.family, L),
             NEW a \in F..L
      PROVE  IsPrivate(p.family, a)
  <2> HIDE DEF F, S, L
  <2>1. F # 0 => S # 65536
    BY <1>1
  <2>2. F # 0
    BY <1>4 DEF IsPrivate
  <2> QED BY <1>1, <1>2, <1>4, <2>1, <2>2 DEF IsPrivate
<1> QED BY <1>3, <1>4 DEF isPrivateCIDR, WithinPrivate, Addresses

---------------------------------------------------------------------------
(* Configurations.                                                         *)

LEMMA ConfigFields ==
  ASSUME NEW c \in Configs
  PROVE  /\ c.Address \in Prefixes /\ c.AllowedIPs \in SUBSET Prefixes
         /\ c.DeviceName \in Names /\ c.OauthServers \in SUBSET Issuers
         /\ c # None
BY ServerAssumption

LEMMA RuleOfConfig ==
  ASSUME NEW c \in Configs
  PROVE  Rule(c) \subseteq Rules
BY DEF Rules

(* The operators that change one link or the rules of one configuration.   *)
LEMMA LinkTyped ==
  ASSUME TypeOK, cfg \in Configs, NEW l \in Links \cup {None}, SetLink(l)
  PROVE  /\ links' \in [Names -> Links \cup {None}]
         /\ Link \in Links \cup {None}
         /\ links'[cfg.DeviceName] = l
         /\ \A n \in Names : n # cfg.DeviceName => links'[n] = links[n]
<1>1. cfg.DeviceName \in Names
  BY ConfigFields
<1>2. links \in [Names -> Links \cup {None}]
  BY DEF TypeOK
<1> QED BY <1>1, <1>2 DEF SetLink, Link

LEMMA CountTyped ==
  ASSUME TypeOK, NEW by \in {1, -1}, by = -1 => Listed
  PROVE  Count(by) \in [Rules -> Nat]
<1>1. rules \in [Rules -> Nat]
  BY DEF TypeOK
<1>2. ASSUME NEW r \in Rules, r \in Rule(cfg)
      PROVE  rules[r] + by \in Nat
  BY <1>1, <1>2 DEF Listed
<1> QED BY <1>1, <1>2 DEF Count

(* Links and their fields.                                                 *)
LEMMA LinkFields ==
  ASSUME NEW l \in Links
  PROVE  /\ l # None
         /\ l.key \in Nat
         /\ [l EXCEPT !.up = TRUE] \in Links
         /\ [l EXCEPT !.up = FALSE] \in Links
         /\ \A k \in Nat : [l EXCEPT !.key = k] \in Links
         /\ \A p \in Prefixes : [l EXCEPT !.addr = p] \in Links
<1>1. l # None
  BY ServerAssumption
<1>2. l.key \in Nat /\ l.up \in BOOLEAN /\ l.addr \in Prefixes \cup {None}
  BY DEF Links
<1> QED BY <1>1, <1>2 DEF Links

(* A link just created is a link.                                          *)
LEMMA NewLink == [key |-> NoKey, up |-> FALSE, addr |-> None] \in Links
BY DEF Links, NoKey

(* The process has a configuration unless it is down.                      *)
LEMMA HasConfig ==
  ASSUME TypeOK
  PROVE  /\ step # "down" <=> cfg \in Configs
         /\ step = "down" <=> cfg = None
BY ServerAssumption DEF TypeOK

LEMMA EndedTyped ==
  ASSUME Ended
  PROVE  /\ cfg' = None /\ step' = "down" /\ tries' \in 0..5 /\ key' \in Nat
         /\ servers' \in [Issuers -> Issuers \cup {None}]
         /\ request' \in Requests \cup {None}
BY DEF Ended, NoKey

---------------------------------------------------------------------------
(* What holds of the device, the rules and the key at each step.           *)

WithLink == {"wait", "key", "configure", "addr", "discover", "up",
             "linkdown", "linkdel"}

DeviceInv ==
  /\ step \in WithLink => Link # None
  /\ step = "ruledel" => Link = None
  /\ step \in WithLink \cup {"link", "ruledel"} => Listed
  /\ step \in {"configure", "addr", "discover", "up", "linkdown", "linkdel",
               "ruledel"} => key = keyFile /\ keyFile > 0
  /\ step \in {"key", "configure", "addr", "discover", "up"} => Link.up
  /\ step \in {"addr", "discover", "up", "linkdown", "linkdel"} =>
       Link.key = keyFile
  /\ step \in {"discover", "up"} => Link.addr = cfg.Address

TypeInv == TypeOK /\ DeviceInv

LEMMA TypeInit == Init => TypeInv
<1> SUFFICES ASSUME Init PROVE TypeInv
  OBVIOUS
<1>1. 0 \in 0..MaxExits /\ 0 \in 0..MaxEdits
  BY ServerAssumption
<1>2. TypeOK
  BY <1>1, ServerAssumption DEF Init, TypeOK, NoKey
<1>3. step = "down"
  BY DEF Init
<1>4. DeviceInv
  BY <1>3 DEF DeviceInv, WithLink
<1> QED BY <1>2, <1>4 DEF TypeInv

(* An action that sets the link of the device to l.                        *)
LEMMA SetLinkStep ==
  ASSUME TypeInv, cfg \in Configs, NEW l \in Links \cup {None}, SetLink(l),
         step' \in {"wait", "key", "addr", "discover", "linkdel", "ruledel"},
         tries' = tries,
         UNCHANGED <<cfg, key, servers, request, keyFile, rules, adminVars,
                     generated, exits, left, handed>>
  PROVE  TypeOK' /\ Link' = l
<1>1. TypeOK
  BY DEF TypeInv
<1>2. /\ links' \in [Names -> Links \cup {None}]
      /\ links'[cfg.DeviceName] = l
  BY <1>1, LinkTyped
<1>3. cfg # None
  BY ServerAssumption
<1>4. Link' = l
  BY <1>2 DEF Link
<1> QED BY <1>1, <1>2, <1>3, <1>4 DEF TypeOK, adminVars

(* The process ends and iptables is left alone.                            *)
LEMMA EndStep ==
  ASSUME TypeInv, Ended, links' \in [Names -> Links \cup {None}],
         rules' \in [Rules -> Nat], keyFile' \in Nat \cup {Torn},
         exits' \in 0..MaxExits, left' \subseteq Configs,
         service' \in {"on", "off"},
         UNCHANGED <<conf, edits, generated, handed>>
  PROVE  TypeInv'
<1>1. TypeOK'
  BY EndedTyped DEF TypeInv, TypeOK, adminVars
<1>2. step' = "down"
  BY EndedTyped
<1> QED BY <1>1, <1>2 DEF TypeInv, DeviceInv, WithLink

LEMMA TypeStep == TypeInv /\ [Next]_vars => TypeInv'
<1> SUFFICES ASSUME TypeInv, [Next]_vars PROVE TypeInv'
  OBVIOUS
<1> USE DEF adminVars, hostVars
<1>0. TypeOK /\ DeviceInv
  BY DEF TypeInv
<1>c. /\ step # "down" <=> cfg \in Configs
      /\ step = "down" <=> cfg = None
  BY <1>0, HasConfig
<1>l. ASSUME step \in WithLink
      PROVE  cfg \in Configs /\ Link \in Links
  <2>1. cfg \in Configs
    BY <1>c, <1>l DEF WithLink
  <2>2. Link # None
    BY <1>0, <1>l DEF DeviceInv
  <2>3. cfg.DeviceName \in Names
    BY <2>1, ConfigFields
  <2> QED BY <1>0, <2>1, <2>2, <2>3 DEF TypeOK, Link
<1>r. cfg \in Configs => Rule(cfg) \subseteq Rules
  BY RuleOfConfig
<1>1. CASE ReadConfig
  <2>1. TypeOK'
    BY <1>0, <1>1, ServerAssumption DEF ReadConfig, TypeOK
  <2> QED BY <2>1, <1>1 DEF ReadConfig, TypeInv, DeviceInv, WithLink
<1>2. CASE AppendUnique
  <2>1. rules' \in [Rules -> Nat]
    BY <1>0, <1>2, CountTyped DEF AppendUnique, TypeOK
  <2>2. left' \subseteq Configs
    BY <1>0, <1>2, <1>c DEF AppendUnique, Mixed, TypeOK
  <2>3. TypeOK'
    BY <1>0, <1>2, <1>c, <2>1, <2>2 DEF AppendUnique, TypeOK
  <2>4. Listed'
    <3>1. CASE Listed
      BY <1>2, <3>1 DEF AppendUnique, Listed
    <3>2. CASE ~Listed
      <4> SUFFICES ASSUME NEW r \in Rule(cfg) PROVE rules'[r] > 0
        BY <1>2 DEF AppendUnique, Listed
      <4>1. r \in Rules /\ rules[r] \in Nat
        BY <1>0, <1>2, <1>c, <1>r DEF AppendUnique, TypeOK
      <4> QED BY <1>2, <3>2, <4>1 DEF AppendUnique, Count
    <3> QED BY <3>1, <3>2
  <2> QED BY <1>2, <2>3, <2>4 DEF AppendUnique, TypeInv, DeviceInv, WithLink
<1>3. CASE LinkAdd
  <2>1. cfg \in Configs
    BY <1>3, <1>c DEF LinkAdd
  <2>2. TypeOK' /\ Link' \in Links
    BY <1>3, <2>1, NewLink, SetLinkStep DEF LinkAdd
  <2>3. Link' # None
    BY <2>2, ServerAssumption
  <2>4. Listed'
    BY <1>0, <1>3 DEF LinkAdd, DeviceInv, Listed
  <2> QED BY <1>3, <2>2, <2>3, <2>4 DEF LinkAdd, TypeInv, DeviceInv, WithLink
<1>4. CASE LinkComesUp
  <2>1. cfg \in Configs /\ Link \in Links
    BY <1>4, <1>l DEF LinkComesUp, WithLink
  <2>2. [Link EXCEPT !.up = TRUE] \in Links
    BY <2>1, LinkFields
  <2>3. TypeOK' /\ Link' \in Links
    BY <1>4, <2>1, <2>2, SetLinkStep DEF LinkComesUp, processVars
  <2>4. Link' # None
    BY <2>3, ServerAssumption
  <2>5. Listed'
    BY <1>0, <1>4 DEF LinkComesUp, processVars, DeviceInv, Listed, WithLink
  <2> QED BY <1>4, <2>3, <2>4, <2>5
          DEF LinkComesUp, processVars, TypeInv, DeviceInv, WithLink
<1>5. CASE ensureLinkIsUp
  <2>1. cfg \in Configs /\ Link \in Links
    BY <1>5, <1>l DEF ensureLinkIsUp, WithLink
  <2>2. Listed'
    BY <1>0, <1>5 DEF ensureLinkIsUp, DeviceInv, Listed, WithLink
  <2>3. CASE Link.up /\ step' = "key" /\ UNCHANGED <<tries, links>>
    <3>1. TypeOK'
      BY <1>0, <1>5, <1>c, <2>3 DEF ensureLinkIsUp, TypeOK
    <3>2. Link' = Link
      BY <1>5, <2>3 DEF ensureLinkIsUp, Link
    <3> QED BY <1>0, <1>5, <2>2, <2>3, <3>1, <3>2
            DEF ensureLinkIsUp, TypeInv, DeviceInv, WithLink
  <2>4. CASE /\ ~Link.up /\ tries > 4 /\ step' = "key" /\ UNCHANGED tries
             /\ SetLink([Link EXCEPT !.up = TRUE])
    <3>1. [Link EXCEPT !.up = TRUE] \in Links
      BY <2>1, LinkFields
    <3>2. TypeOK' /\ Link' = [Link EXCEPT !.up = TRUE]
      BY <1>5, <2>1, <2>4, <3>1, SetLinkStep DEF ensureLinkIsUp
    <3>3. Link' # None /\ Link'.up
      BY <2>1, <3>1, <3>2, ServerAssumption DEF Links
    <3> QED BY <1>5, <2>2, <2>4, <3>2, <3>3
            DEF ensureLinkIsUp, TypeInv, DeviceInv, WithLink
  <2>5. CASE ~Link.up /\ tries <= 4 /\ tries' = tries + 1 /\ UNCHANGED <<step, links>>
    <3>1. tries' \in 0..5
      BY <1>0, <2>5 DEF TypeOK
    <3>2. TypeOK'
      BY <1>0, <1>5, <2>5, <3>1 DEF ensureLinkIsUp, TypeOK
    <3>3. Link' = Link
      BY <1>5, <2>5 DEF ensureLinkIsUp, Link
    <3> QED BY <1>0, <1>5, <2>2, <2>5, <3>2, <3>3
            DEF ensureLinkIsUp, TypeInv, DeviceInv, WithLink
  <2> QED BY <1>5, <2>3, <2>4, <2>5 DEF ensureLinkIsUp
<1>6. CASE privateKey
  <2>1. /\ key' \in Nat /\ keyFile' \in Nat /\ generated' \in Nat
        /\ key' = keyFile' /\ keyFile' > 0
    BY <1>0, <1>6 DEF privateKey, TypeOK, Torn, NoKey
  <2>2. TypeOK'
    BY <1>0, <1>6, <1>c, <2>1 DEF privateKey, TypeOK
  <2>3. Link' = Link /\ (Listed <=> Listed')
    BY <1>6 DEF privateKey, Link, Listed
  <2> QED BY <1>0, <1>6, <2>1, <2>2, <2>3
          DEF privateKey, TypeInv, DeviceInv, WithLink
<1>7. CASE ConfigureDevice
  <2>1. cfg \in Configs /\ Link \in Links /\ key \in Nat
    BY <1>0, <1>7, <1>l DEF ConfigureDevice, WithLink, TypeOK
  <2>2. [Link EXCEPT !.key = key] \in Links
    BY <2>1, LinkFields
  <2>3. TypeOK' /\ Link' = [Link EXCEPT !.key = key]
    BY <1>7, <2>1, <2>2, SetLinkStep DEF ConfigureDevice
  <2>4. Link' # None /\ Link'.key = key /\ Link'.up = Link.up
    BY <2>1, <2>2, <2>3, ServerAssumption DEF Links
  <2>5. Listed'
    BY <1>0, <1>7 DEF ConfigureDevice, DeviceInv, Listed, WithLink
  <2> QED BY <1>0, <1>7, <2>3, <2>4, <2>5
          DEF ConfigureDevice, TypeInv, DeviceInv, WithLink
<1>8. CASE AddrAdd
  <2>1. cfg \in Configs /\ Link \in Links /\ cfg.Address \in Prefixes
    BY <1>8, <1>l, ConfigFields DEF AddrAdd, WithLink
  <2>2. [Link EXCEPT !.addr = cfg.Address] \in Links
    BY <2>1, LinkFields
  <2>3. TypeOK' /\ Link' = [Link EXCEPT !.addr = cfg.Address]
    BY <1>8, <2>1, <2>2, SetLinkStep DEF AddrAdd
  <2>4. /\ Link' # None /\ Link'.addr = cfg.Address
        /\ Link'.up = Link.up /\ Link'.key = Link.key
    BY <2>1, <2>2, <2>3, ServerAssumption DEF Links
  <2>5. Listed'
    BY <1>0, <1>8 DEF AddrAdd, DeviceInv, Listed, WithLink
  <2> QED BY <1>0, <1>8, <2>3, <2>4, <2>5
          DEF AddrAdd, TypeInv, DeviceInv, WithLink
<1>9. ASSUME UNCHANGED <<cfg, key, keyFile, links, rules>>, DeviceInv,
             \/ step' = step
             \/ step = "discover" /\ step' = "up"
             \/ step = "up" /\ step' = "linkdown"
      PROVE  DeviceInv'
  <2>1. Link' = Link /\ (Listed <=> Listed')
    BY <1>9 DEF Link, Listed
  <2> QED BY <1>9, <2>1 DEF DeviceInv, WithLink
<1>10. CASE \E s, i \in Issuers : Discover(s, i)
  <2> PICK s \in Issuers, i \in Issuers : Discover(s, i)
    BY <1>10
  <2>1. servers' \in [Issuers -> Issuers \cup {None}]
    BY <1>0 DEF Discover, TypeOK
  <2>2. TypeOK'
    BY <1>0, <2>1 DEF Discover, TypeOK
  <2> QED BY <1>0, <1>9, <2>2 DEF Discover, TypeInv
<1>11. CASE Serve
  <2>1. TypeOK'
    BY <1>0, <1>11, <1>c DEF Serve, TypeOK
  <2> QED BY <1>0, <1>9, <1>11, <2>1 DEF Serve, TypeInv
<1>12. CASE \E i \in Issuers : validate(i)
  <2> PICK i \in Issuers : validate(i)
    BY <1>12
  <2>1. request' \in Requests
    BY <1>0 DEF validate, TypeOK, Requests
  <2>2. TypeOK'
    BY <1>0, <2>1 DEF validate, TypeOK
  <2> QED BY <1>0, <1>9, <2>2 DEF validate, TypeInv
<1>13. CASE Reply
  <2>1. handed' \subseteq Names \X Nat
    <3>1. CASE links[DefaultName] = None
      BY <1>0, <1>13, <3>1 DEF Reply, TypeOK
    <3>2. CASE links[DefaultName] # None
      <4>1. links[DefaultName] \in Links
        BY <1>0, <3>2, ServerAssumption DEF TypeOK
      <4>2. links[DefaultName].key \in Nat
        BY <4>1, LinkFields
      <4>3. cfg \in Configs
        BY <1>13, <1>c, <1>0 DEF Reply, Serving, Stopping
      <4> QED BY <1>0, <1>13, <3>2, <4>2, <4>3, ConfigFields DEF Reply, TypeOK
    <3> QED BY <3>1, <3>2
  <2>2. TypeOK'
    BY <1>0, <1>13, <2>1 DEF Reply, TypeOK
  <2> QED BY <1>0, <1>9, <1>13, <2>2 DEF Reply, TypeInv
<1>14. CASE Quit
  <2>1. TypeOK'
    BY <1>0, <1>14, <1>c DEF Quit, TypeOK
  <2> QED BY <1>0, <1>9, <1>14, <2>1 DEF Quit, TypeInv
<1>15. CASE LinkSetDown
  <2>1. cfg \in Configs /\ Link \in Links
    BY <1>15, <1>l DEF LinkSetDown, WithLink
  <2>2. [Link EXCEPT !.up = FALSE] \in Links
    BY <2>1, LinkFields
  <2>3. TypeOK' /\ Link' = [Link EXCEPT !.up = FALSE]
    BY <1>15, <2>1, <2>2, SetLinkStep DEF LinkSetDown
  <2>4. Link' # None /\ Link'.key = Link.key
    BY <2>1, <2>2, <2>3, ServerAssumption DEF Links
  <2>5. Listed'
    BY <1>0, <1>15 DEF LinkSetDown, DeviceInv, Listed, WithLink
  <2> QED BY <1>0, <1>15, <2>3, <2>4, <2>5
          DEF LinkSetDown, TypeInv, DeviceInv, WithLink
<1>16. CASE LinkDel
  <2>1. cfg \in Configs /\ Link \in Links
    BY <1>16, <1>l DEF LinkDel, WithLink
  <2>2. TypeOK' /\ Link' = None
    BY <1>16, <2>1, SetLinkStep DEF LinkDel
  <2>3. Listed'
    BY <1>0, <1>16 DEF LinkDel, DeviceInv, Listed, WithLink
  <2> QED BY <1>0, <1>16, <2>2, <2>3
          DEF LinkDel, TypeInv, DeviceInv, WithLink
<1>17. CASE DeleteRule
  <2>1. rules' \in [Rules -> Nat]
    BY <1>0, <1>17, CountTyped DEF DeleteRule
  <2> QED BY <1>0, <1>17, <2>1, EndStep DEF DeleteRule, TypeOK
<1>18. CASE StartRefused
  <2>1. cfg \in Configs
    BY <1>18, <1>c DEF StartRefused, Refused
  <2> QED BY <1>0, <1>18, <2>1, EndStep DEF StartRefused, TypeOK
<1>19. CASE ExitWithoutStop
  <2>1. cfg \in Configs
    BY <1>19, <1>c DEF ExitWithoutStop, Running
  <2>2. exits' \in 0..MaxExits
    BY <1>0, <1>19, ServerAssumption DEF ExitWithoutStop, TypeOK
  <2>3. keyFile' \in Nat \cup {Torn}
    BY <1>0, <1>19 DEF ExitWithoutStop, TypeOK
  <2>4. left' \subseteq Configs
    BY <1>0, <1>19, <2>1 DEF ExitWithoutStop, TypeOK
  <2> QED BY <1>0, <1>19, <2>2, <2>3, <2>4, EndStep
          DEF ExitWithoutStop, TypeOK
<1>20. CASE Reboot
  <2>1. exits' \in 0..MaxExits
    BY <1>0, <1>20, ServerAssumption DEF Reboot, TypeOK
  <2>2. /\ links' \in [Names -> Links \cup {None}]
        /\ rules' \in [Rules -> Nat] /\ left' \subseteq Configs
    BY <1>20 DEF Reboot
  <2> QED BY <1>0, <1>20, <2>1, <2>2, EndStep DEF Reboot, TypeOK
<1>21. CASE EditConfig
  <2>1. edits' \in 0..MaxEdits
    BY <1>0, <1>21, ServerAssumption DEF EditConfig, TypeOK
  <2>2. TypeOK'
    BY <1>0, <1>21, <2>1 DEF EditConfig, processVars, TypeOK
  <2> QED BY <1>0, <1>9, <1>21, <2>2 DEF EditConfig, processVars, TypeInv
<1>22. CASE UNCHANGED vars
  <2>1. TypeOK'
    BY <1>0, <1>22 DEF vars, processVars, TypeOK
  <2> QED BY <1>0, <1>9, <1>22, <2>1 DEF vars, processVars, TypeInv
<1>23. CASE ConfigRefused
  <2>1. TypeOK'
    BY <1>0, <1>23 DEF ConfigRefused, processVars, TypeOK
  <2> QED BY <1>0, <1>9, <1>23, <2>1 DEF ConfigRefused, processVars, TypeInv
<1> QED BY <1>1, <1>2, <1>3, <1>4, <1>5, <1>6, <1>7, <1>8, <1>10, <1>11,
           <1>12, <1>13, <1>14, <1>15, <1>16, <1>17, <1>18, <1>19, <1>20,
           <1>21, <1>22, <1>23 DEF Next, StartStep, StopStep

(* Theorem: in every behaviour the variables have their types: TypeOK.     *)
THEOREM TypeCorrect == Spec => []TypeOK
<1>1. TypeInv => TypeOK
  BY DEF TypeInv
<1> QED BY <1>1, TypeInit, TypeStep, PTL DEF Spec

(* Theorem: ServingDeviceReady.  The position in Start fixes what has been *)
(* done to the link, and nothing but Stop and a reboot undoes it.          *)
THEOREM DeviceReady == Spec => []ServingDeviceReady
<1>1. TypeInv => ServingDeviceReady
  BY DEF TypeInv, DeviceInv, ServingDeviceReady, WithLink
<1> QED BY <1>1, TypeInit, TypeStep, PTL DEF Spec

---------------------------------------------------------------------------
(* The identity of the server.                                             *)

IdentityInv ==
  \A h \in handed : h[1] = DefaultName => h[2] = keyFile /\ keyFile > 0

LEMMA IdentityStep == TypeInv /\ IdentityInv /\ [Next]_vars => IdentityInv'
<1> SUFFICES ASSUME TypeInv, IdentityInv, [Next]_vars PROVE IdentityInv'
  OBVIOUS
<1>1. CASE UNCHANGED <<handed, keyFile>>
  BY <1>1 DEF IdentityInv
<1>2. ASSUME ~(keyFile > 0), UNCHANGED handed PROVE IdentityInv'
  BY <1>2 DEF IdentityInv
<1>3. CASE privateKey
  <2>1. CASE keyFile > 0 /\ UNCHANGED <<keyFile, generated>>
    BY <1>1, <1>3, <2>1 DEF privateKey
  <2>2. CASE keyFile = NoKey
    BY <1>2, <1>3, <2>2 DEF privateKey, NoKey
  <2> QED BY <1>3, <2>1, <2>2 DEF privateKey
<1>4. CASE ExitWithoutStop
  <2>1. CASE keyFile = NoKey
    BY <1>2, <1>4, <2>1 DEF ExitWithoutStop, NoKey
  <2>2. CASE keyFile # NoKey
    BY <1>1, <1>4, <2>2 DEF ExitWithoutStop
  <2> QED BY <2>1, <2>2
<1>5. CASE Reply
  <2> DEFINE new == <<cfg.DeviceName, links[DefaultName].key>>
  <2>1. ASSUME cfg.DeviceName = DefaultName, links[DefaultName] # None
        PROVE  links[DefaultName].key = keyFile /\ keyFile > 0
    <3>1. Link = links[DefaultName]
      BY <2>1 DEF Link
    <3>2. step \in {"up", "linkdown", "linkdel"}
      BY <1>5, <2>1, <3>1 DEF Reply, Serving, Stopping, TypeInv, DeviceInv
    <3> QED BY <3>1, <3>2 DEF TypeInv, DeviceInv
  <2>2. keyFile' = keyFile
    BY <1>5 DEF Reply, hostVars
  <2>3. CASE links[DefaultName] = None
    BY <1>1, <1>5, <2>2, <2>3 DEF Reply
  <2>4. CASE links[DefaultName] # None
    <3>1. handed' = handed \cup {new}
      BY <1>5, <2>4 DEF Reply
    <3> QED BY <2>1, <2>2, <2>4, <3>1 DEF IdentityInv
  <2> QED BY <2>3, <2>4
<1>6. CASE ReadConfig \/ AppendUnique \/ LinkAdd \/ LinkComesUp
  BY <1>1, <1>6 DEF ReadConfig, AppendUnique, LinkAdd, LinkComesUp, hostVars
<1>7. CASE ensureLinkIsUp \/ ConfigureDevice \/ AddrAdd \/ Serve \/ Quit
  BY <1>1, <1>7 DEF ensureLinkIsUp, ConfigureDevice, AddrAdd, Serve, Quit, hostVars
<1>8. CASE \/ \E s, i \in Issuers : Discover(s, i)
           \/ \E i \in Issuers : validate(i)
  BY <1>1, <1>8 DEF Discover, validate, hostVars
<1>9. CASE LinkSetDown \/ LinkDel \/ DeleteRule \/ StartRefused \/ Reboot
  BY <1>1, <1>9 DEF LinkSetDown, LinkDel, DeleteRule, StartRefused, Reboot, hostVars
<1>10. CASE ConfigRefused \/ EditConfig \/ UNCHANGED vars
  BY <1>1, <1>10 DEF ConfigRefused, EditConfig, vars, hostVars
<1> QED BY <1>3, <1>4, <1>5, <1>6, <1>7, <1>8, <1>9, <1>10
        DEF Next, StartStep, StopStep

(* Theorem: IdentityStable.  A key is generated only when there is no      *)
(* file, and then nobody has been told a key of the default device.        *)
THEOREM IdentityKept == Spec => []IdentityStable
<1>1. Init => IdentityInv
  BY DEF Init, IdentityInv
<1>2. IdentityInv => IdentityStable
  BY DEF IdentityInv, IdentityStable
<1> QED BY <1>1, <1>2, TypeInit, TypeStep, IdentityStep, PTL DEF Spec

---------------------------------------------------------------------------
(* Tokens.                                                                 *)

TokenInv ==
  /\ \A i \in Issuers : servers[i] # None =>
       servers[i] = i /\ cfg # None /\ i \in cfg.OauthServers
  /\ request # None =>
       /\ request.issuer \in Issuers /\ request.by = request.issuer
       /\ servers[request.issuer] # None

LEMMA TokenStep == TypeInv /\ TokenInv /\ [Next]_vars => TokenInv'
<1> SUFFICES ASSUME TypeInv, TokenInv, [Next]_vars PROVE TokenInv'
  OBVIOUS
<1>1. CASE UNCHANGED <<cfg, servers, request>>
  BY <1>1 DEF TokenInv
<1>2. CASE Ended
  BY <1>2 DEF Ended, TokenInv
<1>3. CASE ReadConfig
  <2>1. cfg = None
    BY <1>3, HasConfig DEF ReadConfig, TypeInv
  <2> QED BY <1>3, <2>1 DEF ReadConfig, TokenInv
<1>4. CASE \E s, i \in Issuers : Discover(s, i)
  <2> PICK s \in Issuers, i \in Issuers : Discover(s, i)
    BY <1>4
  <2>1. servers \in [Issuers -> Issuers \cup {None}]
    BY DEF TypeInv, TypeOK
  <2>2. /\ servers' = [servers EXCEPT ![s] = s]
        /\ cfg' = cfg /\ request' = request /\ s \in cfg.OauthServers
    BY DEF Discover
  <2>3. cfg # None /\ s # None
    BY HasConfig, ServerAssumption DEF Discover, TypeInv
  <2> QED BY <2>1, <2>2, <2>3 DEF TokenInv
<1>5. CASE \E i \in Issuers : validate(i)
  <2> PICK i \in Issuers : validate(i)
    BY <1>5
  <2>1. /\ request' = [issuer |-> i, by |-> servers[i]]
        /\ cfg' = cfg /\ servers' = servers /\ servers[i] # None
    BY DEF validate
  <2> QED BY <2>1 DEF TokenInv
<1>6. CASE Reply
  BY <1>6 DEF Reply, TokenInv
<1>7. CASE AppendUnique \/ LinkAdd \/ LinkComesUp \/ ensureLinkIsUp
  BY <1>1, <1>7 DEF AppendUnique, LinkAdd, LinkComesUp, ensureLinkIsUp, processVars
<1>8. CASE privateKey \/ ConfigureDevice \/ AddrAdd \/ Serve \/ Quit
  BY <1>1, <1>8 DEF privateKey, ConfigureDevice, AddrAdd, Serve, Quit
<1>9. CASE LinkSetDown \/ LinkDel \/ EditConfig \/ UNCHANGED vars
  BY <1>1, <1>9 DEF LinkSetDown, LinkDel, EditConfig, vars, processVars
<1>11. CASE ConfigRefused
  BY <1>1, <1>11 DEF ConfigRefused, processVars
<1>10. CASE DeleteRule \/ StartRefused \/ ExitWithoutStop \/ Reboot
  BY <1>2, <1>10 DEF DeleteRule, StartRefused, ExitWithoutStop, Reboot
<1> QED BY <1>3, <1>4, <1>5, <1>6, <1>7, <1>8, <1>9, <1>10, <1>11
        DEF Next, StartStep, StopStep

(* Theorem: GrantsConfirmed.                                               *)
THEOREM TokensConfirmed == Spec => []GrantsConfirmed
<1>1. Init => TokenInv
  BY DEF Init, TokenInv
<1>2. TokenInv => GrantsConfirmed
  BY DEF TokenInv, GrantsConfirmed
<1> QED BY <1>1, <1>2, TypeInit, TypeStep, TokenStep, PTL DEF Spec

---------------------------------------------------------------------------
(* Private routes.                                                         *)

(* What verifyServerConfig accepts is private in all its parts: masking a  *)
(* prefix and appending the server's own address add nothing.              *)
LEMMA ConfigPrivate ==
  ASSUME NEW c \in Configs, verifyServerConfig(c), ~AllowPublicRoutes
  PROVE  /\ WithinPrivate(c.Address)
         /\ \A r \in Rule(c) : WithinPrivate(r.source) /\ WithinPrivate(r.destination)
<1>1. c.Address \in Prefixes /\ c.AllowedIPs \in SUBSET Prefixes
  BY ConfigFields
<1>2. \A p \in c.AllowedIPs \cup {c.Address} : WithinPrivate(p)
  BY <1>1, PrivateCheckExact DEF verifyServerConfig
<1> DEFINE M == [c.Address EXCEPT !.addr = MaskedAddr(c.Address)]
           H == [c.Address EXCEPT !.len = 32]
<1>3. M \in Prefixes /\ H \in Prefixes
  BY <1>1, Aligned DEF Prefixes
<1>4. /\ M.addr = MaskedAddr(c.Address) /\ M.len = c.Address.len
      /\ M.family = c.Address.family
      /\ H.addr = c.Address.addr /\ H.len = 32 /\ H.family = c.Address.family
  BY <1>1 DEF Prefixes
<1>5. WithinPrivate(M)
  <2>1. Span(M) = Span(c.Address)
    BY <1>4 DEF Span
  <2>2. MaskedAddr(c.Address) % Span(c.Address) = 0
        /\ MaskedAddr(c.Address) \in Nat
    BY <1>1, Aligned DEF Heads
  <2>3. MaskedAddr(M) = MaskedAddr(c.Address) - 0
    BY <1>4, <2>1, <2>2 DEF MaskedAddr
  <2>4. Addresses(M) = Addresses(c.Address)
    BY <2>1, <2>2, <2>3 DEF Addresses, PrefixLastIP
  <2> QED BY <1>2, <1>4, <2>4 DEF WithinPrivate
<1>6. WithinPrivate(H)
  <2>1. c.Address.addr \in Nat
    BY <1>1 DEF Prefixes, Heads
  <2>2. Span(H) = 1
    BY <1>4 DEF Span
  <2>3. MaskedAddr(H) = c.Address.addr /\ PrefixLastIP(H) = c.Address.addr
    BY <1>4, <2>1, <2>2 DEF MaskedAddr, PrefixLastIP
  <2>4. c.Address.addr \in Addresses(c.Address)
    BY <1>1, <2>1, Aligned, SpanCases DEF Addresses, Heads
  <2>5. \A a \in Addresses(H) : a = c.Address.addr
    BY <2>1, <2>3 DEF Addresses
  <2> QED BY <1>2, <1>4, <2>4, <2>5 DEF WithinPrivate
<1>7. \A r \in Rule(c) : r.source = M /\ r.destination \in AllowedIPs(c)
  BY DEF Rule
<1> QED BY <1>2, <1>5, <1>6, <1>7 DEF AllowedIPs

PrivateInv ==
  /\ OnlyPrivateRoutes
  /\ cfg # None => verifyServerConfig(cfg)

(* Setting a link keeps its address, or gives it none or the server's.     *)
LEMMA SetLinkPrivate ==
  ASSUME TypeInv, PrivateInv, cfg \in Configs, NEW l \in Links \cup {None},
         SetLink(l), UNCHANGED <<rules, cfg>>,
         \/ l = None \/ l.addr \in {None, cfg.Address}
         \/ Link # None /\ l.addr = Link.addr
  PROVE  PrivateInv'
<1>1. /\ links'[cfg.DeviceName] = l
      /\ \A n \in Names : n # cfg.DeviceName => links'[n] = links[n]
  BY LinkTyped DEF TypeInv
<1>2. verifyServerConfig(cfg)
  BY ServerAssumption DEF PrivateInv
<1>3. ASSUME ~AllowPublicRoutes
      PROVE  OnlyPrivateRoutes'
  <2>1. WithinPrivate(cfg.Address)
    BY <1>2, <1>3, ConfigPrivate
  <2>2. ASSUME NEW n \in Names, links'[n] # None, links'[n].addr # None
        PROVE  WithinPrivate(links'[n].addr)
    BY <1>1, <1>3, <2>1, <2>2 DEF PrivateInv, OnlyPrivateRoutes, Link
  <2> QED BY <2>2 DEF PrivateInv, OnlyPrivateRoutes
<1> QED BY <1>2, <1>3 DEF PrivateInv, OnlyPrivateRoutes

LEMMA PrivateStep == TypeInv /\ PrivateInv /\ [Next]_vars => PrivateInv'
<1> SUFFICES ASSUME TypeInv, PrivateInv, [Next]_vars PROVE PrivateInv'
  OBVIOUS
<1>1. CASE UNCHANGED <<cfg, links, rules>>
  BY <1>1 DEF PrivateInv, OnlyPrivateRoutes
<1>2. CASE Ended /\ UNCHANGED <<links, rules>>
  BY <1>2 DEF PrivateInv, OnlyPrivateRoutes, Ended
<1>l. ASSUME step \in WithLink
      PROVE  cfg \in Configs /\ Link \in Links
  <2>1. cfg \in Configs /\ Link # None
    BY <1>l, HasConfig DEF TypeInv, DeviceInv, WithLink
  <2> QED BY <2>1, ConfigFields DEF TypeInv, TypeOK, Link
<1>3. CASE ReadConfig
  <2>1. verifyServerConfig(conf) /\ cfg' = conf /\ UNCHANGED <<links, rules>>
    BY <1>3 DEF ReadConfig, hostVars
  <2> QED BY <2>1 DEF PrivateInv, OnlyPrivateRoutes
<1>4. CASE AppendUnique
  <2>1. cfg \in Configs /\ verifyServerConfig(cfg)
    BY <1>4, HasConfig, ServerAssumption DEF AppendUnique, PrivateInv, TypeInv
  <2>2. ASSUME ~AllowPublicRoutes, NEW r \in Rules, rules'[r] > 0
        PROVE  WithinPrivate(r.source) /\ WithinPrivate(r.destination)
    <3>1. CASE r \in Rule(cfg)
      BY <2>1, <2>2, <3>1, ConfigPrivate
    <3>2. CASE r \notin Rule(cfg)
      <4>1. rules'[r] = rules[r]
        BY <1>4, <3>2 DEF AppendUnique, Count
      <4> QED BY <2>2, <4>1 DEF PrivateInv, OnlyPrivateRoutes
    <3> QED BY <3>1, <3>2
  <2>3. UNCHANGED <<links, cfg>>
    BY <1>4 DEF AppendUnique
  <2> QED BY <2>1, <2>2, <2>3 DEF PrivateInv, OnlyPrivateRoutes
<1>5. CASE LinkAdd
  <2> DEFINE l == [key |-> NoKey, up |-> FALSE, addr |-> None]
  <2>1. cfg \in Configs /\ l \in Links /\ l.addr = None
    BY <1>5, HasConfig, NewLink DEF LinkAdd, TypeInv
  <2>2. SetLink(l) /\ UNCHANGED <<rules, cfg>>
    BY <1>5 DEF LinkAdd
  <2> HIDE DEF l
  <2> QED BY <2>1, <2>2, SetLinkPrivate
<1>6. CASE LinkComesUp
  <2>1. cfg \in Configs /\ Link \in Links
    BY <1>6, <1>l DEF LinkComesUp, WithLink
  <2> DEFINE l == [Link EXCEPT !.up = TRUE]
  <2>2. l \in Links /\ l.addr = Link.addr /\ Link # None
    BY <2>1, LinkFields DEF Links
  <2>3. SetLink(l) /\ UNCHANGED <<rules, cfg>>
    BY <1>6 DEF LinkComesUp, processVars
  <2> HIDE DEF l
  <2> QED BY <2>1, <2>2, <2>3, SetLinkPrivate
<1>7. CASE ensureLinkIsUp
  <2>1. cfg \in Configs /\ Link \in Links
    BY <1>7, <1>l DEF ensureLinkIsUp, WithLink
  <2> DEFINE l == [Link EXCEPT !.up = TRUE]
  <2>2. l \in Links /\ l.addr = Link.addr /\ Link # None
    BY <2>1, LinkFields DEF Links
  <2>3. (UNCHANGED links \/ SetLink(l)) /\ UNCHANGED <<rules, cfg>>
    BY <1>7 DEF ensureLinkIsUp
  <2> HIDE DEF l
  <2> QED BY <1>1, <2>1, <2>2, <2>3, SetLinkPrivate
<1>8. CASE ConfigureDevice
  <2>1. cfg \in Configs /\ Link \in Links /\ key \in Nat
    BY <1>8, <1>l DEF ConfigureDevice, WithLink, TypeInv, TypeOK
  <2> DEFINE l == [Link EXCEPT !.key = key]
  <2>2. l \in Links /\ l.addr = Link.addr /\ Link # None
    BY <2>1, LinkFields DEF Links
  <2>3. SetLink(l) /\ UNCHANGED <<rules, cfg>>
    BY <1>8 DEF ConfigureDevice
  <2> HIDE DEF l
  <2> QED BY <2>1, <2>2, <2>3, SetLinkPrivate
<1>9. CASE AddrAdd
  <2>1. cfg \in Configs /\ Link \in Links /\ cfg.Address \in Prefixes
    BY <1>9, <1>l, ConfigFields DEF AddrAdd, WithLink
  <2> DEFINE l == [Link EXCEPT !.addr = cfg.Address]
  <2>2. l \in Links /\ l.addr = cfg.Address
    BY <2>1, LinkFields DEF Links
  <2>3. SetLink(l) /\ UNCHANGED <<rules, cfg>>
    BY <1>9 DEF AddrAdd
  <2> HIDE DEF l
  <2> QED BY <2>1, <2>2, <2>3, SetLinkPrivate
<1>10. CASE LinkSetDown
  <2>1. cfg \in Configs /\ Link \in Links
    BY <1>10, <1>l DEF LinkSetDown, WithLink
  <2> DEFINE l == [Link EXCEPT !.up = FALSE]
  <2>2. l \in Links /\ l.addr = Link.addr /\ Link # None
    BY <2>1, LinkFields DEF Links
  <2>3. SetLink(l) /\ UNCHANGED <<rules, cfg>>
    BY <1>10 DEF LinkSetDown
  <2> HIDE DEF l
  <2> QED BY <2>1, <2>2, <2>3, SetLinkPrivate
<1>11. CASE LinkDel
  <2>1. cfg \in Configs
    BY <1>11, <1>l DEF LinkDel, WithLink
  <2>2. SetLink(None) /\ UNCHANGED <<rules, cfg>>
    BY <1>11 DEF LinkDel
  <2> QED BY <2>1, <2>2, SetLinkPrivate
<1>12. CASE DeleteRule
  <2>1. \A r \in Rules : rules'[r] > 0 => rules[r] > 0
    <3>1. rules \in [Rules -> Nat]
      BY DEF TypeInv, TypeOK
    <3> QED BY <1>12, <3>1 DEF DeleteRule, Count
  <2>2. cfg' = None /\ links' = links
    BY <1>12 DEF DeleteRule, Ended
  <2> QED BY <2>1, <2>2 DEF PrivateInv, OnlyPrivateRoutes
<1>13. CASE Reboot
  <2>1. cfg' = None
    BY <1>13 DEF Reboot, Ended
  <2>2. /\ \A n \in Names : links'[n] = None
        /\ \A r \in Rules : rules'[r] = 0
    BY <1>13 DEF Reboot
  <2> QED BY <2>1, <2>2 DEF PrivateInv, OnlyPrivateRoutes
<1>14. CASE StartRefused \/ ExitWithoutStop
  BY <1>2, <1>14 DEF StartRefused, ExitWithoutStop, hostVars
<1>15. CASE privateKey \/ Serve \/ Quit \/ Reply \/ EditConfig
  BY <1>1, <1>15 DEF privateKey, Serve, Quit, Reply, EditConfig, hostVars, processVars
<1>16. CASE \/ \E s, i \in Issuers : Discover(s, i)
            \/ \E i \in Issuers : validate(i)
  BY <1>1, <1>16 DEF Discover, validate, hostVars
<1>17. CASE ConfigRefused \/ UNCHANGED vars
  BY <1>1, <1>17 DEF ConfigRefused, vars, hostVars, processVars
<1> QED BY <1>3, <1>4, <1>5, <1>6, <1>7, <1>8, <1>9, <1>10, <1>11, <1>12,
           <1>13, <1>14, <1>15, <1>16, <1>17 DEF Next, StartStep, StopStep

(* Theorem: OnlyPrivateRoutes, whatever configurations are installed one   *)
(* after the other.                                                        *)
THEOREM RoutesPrivate == Spec => []OnlyPrivateRoutes
<1>1. Init => PrivateInv
  BY DEF Init, PrivateInv, OnlyPrivateRoutes
<1>2. PrivateInv => OnlyPrivateRoutes
  BY DEF PrivateInv
<1> QED BY <1>1, <1>2, TypeInit, TypeStep, PrivateStep, PTL DEF Spec

---------------------------------------------------------------------------
(* What a stopped server leaves.                                           *)

(* The configurations whose parts may be on the host.                      *)
Own == IF step \in {"down", "rule"} THEN left ELSE left \cup {cfg}

(* The host has nothing but one configuration's device and its rule, at    *)
(* most once.                                                              *)
Only(c) ==
  /\ \A r \in Rules : r \notin Rule(c) => rules[r] = 0
  /\ (\A r \in Rule(c) : rules[r] = 0) \/ (\A r \in Rule(c) : rules[r] = 1)
  /\ \A n \in Names : n # c.DeviceName => links[n] = None

Nothing == /\ \A n \in Names : links[n] = None
           /\ \A r \in Rules : rules[r] = 0

CleanInv ==
  /\ \A c \in Configs : Own \subseteq {c} => Only(c)
  /\ Own = {} => Nothing
  /\ step \notin {"down", "rule"} => left \subseteq {cfg} \/ cfg \in left

(* Only the link of the device changes, after Start has made the rule.     *)
LEMMA SetLinkClean ==
  ASSUME TypeInv, CleanInv, cfg \in Configs, NEW l \in Links \cup {None},
         SetLink(l), UNCHANGED <<rules, cfg, left>>,
         step \notin {"down", "rule"}, step' \notin {"down", "rule"}
  PROVE  CleanInv'
<1>1. \A n \in Names : n # cfg.DeviceName => links'[n] = links[n]
  BY LinkTyped DEF TypeInv
<1>2. Own' = Own /\ cfg \in Own
  BY DEF Own
<1>3. ASSUME NEW c \in Configs, Own \subseteq {c}
      PROVE  Only(c)'
  <2>1. c = cfg /\ Only(c)
    BY <1>2, <1>3 DEF CleanInv
  <2> QED BY <1>1, <2>1 DEF Only
<1> QED BY <1>2, <1>3 DEF CleanInv, Own

LEMMA CleanStep == TypeInv /\ CleanInv /\ [Next]_vars => CleanInv'
<1> SUFFICES ASSUME TypeInv, CleanInv, [Next]_vars PROVE CleanInv'
  OBVIOUS
<1>1. ASSUME UNCHANGED <<links, rules, cfg, left>>,
             \/ step' = step
             \/ step \in {"down", "rule"} /\ step' \in {"down", "rule"}
             \/ step \notin {"down", "rule"} /\ step' \notin {"down", "rule"}
      PROVE  CleanInv'
  <2>1. Own' = Own
    BY <1>1 DEF Own
  <2> QED BY <1>1, <2>1 DEF CleanInv, Only, Nothing
<1>0. ASSUME step' = "down", UNCHANGED <<links, rules>>,
             left' = IF step = "rule" THEN left ELSE left \cup {cfg},
             step # "down"
      PROVE  CleanInv'
  <2>1. Own' = Own
    BY <1>0 DEF Own
  <2> QED BY <1>0, <2>1 DEF CleanInv, Only, Nothing
<1>r. /\ rules \in [Rules -> Nat]
      /\ \A c \in Configs : Rule(c) \subseteq Rules
  BY RuleOfConfig DEF TypeInv, TypeOK
<1>l. ASSUME step \in WithLink
      PROVE  cfg \in Configs /\ Link \in Links
  <2>1. cfg \in Configs /\ Link # None
    BY <1>l, HasConfig DEF TypeInv, DeviceInv, WithLink
  <2> QED BY <2>1, ConfigFields DEF TypeInv, TypeOK, Link
<1>2. CASE AppendUnique
  <2>1. /\ step = "rule" /\ step' = "link" /\ cfg' = cfg /\ links' = links
        /\ left' = Mixed /\ rules' = IF Listed THEN rules ELSE Count(1)
    BY <1>2 DEF AppendUnique
  <2>2. cfg \in Configs
    BY <2>1, HasConfig DEF TypeInv
  <2>3. Own = left /\ cfg \in Own' /\ left \subseteq Own'
    BY <2>1 DEF Own, Mixed
  <2>4. ASSUME NEW c \in Configs, Own' \subseteq {c}
        PROVE  Only(c)'
    <3>1. c = cfg /\ Only(c)
      BY <2>3, <2>4 DEF CleanInv
    <3>2. CASE Listed
      BY <2>1, <3>1, <3>2 DEF Only
    <3>3. CASE ~Listed
      <4>1. \A r \in Rule(cfg) : rules[r] = 0
        BY <3>1, <3>3 DEF Only, Listed
      <4>2. /\ \A r \in Rule(cfg) : rules'[r] = 1
            /\ \A r \in Rules : r \notin Rule(cfg) => rules'[r] = rules[r]
        BY <1>r, <2>1, <2>2, <3>3, <4>1 DEF Count
      <4> QED BY <2>1, <3>1, <4>2 DEF Only
    <3> QED BY <3>2, <3>3
  <2>5. left' \subseteq {cfg} \/ cfg \in left'
    BY <2>1 DEF Mixed
  <2> QED BY <2>1, <2>3, <2>4, <2>5 DEF CleanInv
<1>3. CASE DeleteRule
  <2>1. /\ step = "ruledel" /\ step' = "down" /\ links' = links
        /\ left' = (IF left \subseteq {cfg} THEN {} ELSE left)
        /\ rules' = Count(-1) /\ Listed
    BY <1>3 DEF DeleteRule, Ended
  <2>2. cfg \in Configs /\ Link = None
    BY <2>1, HasConfig DEF TypeInv, DeviceInv
  <2>3. Own = left \cup {cfg} /\ Own' = left'
    BY <2>1 DEF Own
  <2>4. CASE left \subseteq {cfg}
    <3>1. Only(cfg)
      BY <2>2, <2>3, <2>4 DEF CleanInv
    <3>2. \A n \in Names : links'[n] = None
      BY <2>1, <2>2, <3>1 DEF Only, Link
    <3>3. \A r \in Rule(cfg) : rules[r] = 1 \/ ~Listed
      BY <3>1 DEF Only, Listed
    <3>4. \A r \in Rules : rules'[r] = 0
      BY <1>r, <2>1, <2>2, <3>1, <3>3 DEF Only, Count
    <3> QED BY <2>1, <3>2, <3>4, <1>r DEF CleanInv, Only, Nothing
  <2>5. CASE ~(left \subseteq {cfg})
    <3>1. cfg \in left
      BY <2>1, <2>5 DEF CleanInv
    <3>2. \A c \in Configs : ~(left \subseteq {c})
      BY <2>5, <3>1
    <3> QED BY <2>1, <2>3, <2>5, <3>1, <3>2 DEF CleanInv
  <2> QED BY <2>4, <2>5
<1>4. CASE Reboot
  <2>1. Nothing'
    BY <1>4 DEF Reboot, Nothing
  <2>2. step' = "down" /\ left' = {}
    BY <1>4 DEF Reboot, Ended
  <2> QED BY <2>1, <2>2, <1>r DEF CleanInv, Only, Nothing
<1>5. CASE LinkAdd
  <2>1. cfg \in Configs
    BY <1>5, HasConfig DEF LinkAdd, TypeInv
  <2> QED BY <1>5, <2>1, NewLink, SetLinkClean DEF LinkAdd
<1>6. CASE LinkComesUp
  <2>1. cfg \in Configs /\ [Link EXCEPT !.up = TRUE] \in Links
    BY <1>6, <1>l, LinkFields DEF LinkComesUp, WithLink
  <2> QED BY <1>6, <2>1, SetLinkClean DEF LinkComesUp, processVars
<1>7. CASE ensureLinkIsUp
  <2>1. cfg \in Configs /\ [Link EXCEPT !.up = TRUE] \in Links
    BY <1>7, <1>l, LinkFields DEF ensureLinkIsUp, WithLink
  <2>2. /\ UNCHANGED links \/ SetLink([Link EXCEPT !.up = TRUE])
        /\ step = "wait" /\ step' \in {"wait", "key"}
        /\ UNCHANGED <<rules, cfg, left>>
    BY <1>7 DEF ensureLinkIsUp
  <2>3. CASE UNCHANGED links
    BY <1>1, <2>2, <2>3
  <2>4. CASE SetLink([Link EXCEPT !.up = TRUE])
    BY <2>1, <2>2, <2>4, SetLinkClean
  <2> QED BY <2>2, <2>3, <2>4
<1>8. CASE ConfigureDevice
  <2>1. key \in Nat
    BY DEF TypeInv, TypeOK
  <2>2. cfg \in Configs /\ [Link EXCEPT !.key = key] \in Links
    BY <1>8, <1>l, <2>1, LinkFields DEF ConfigureDevice, WithLink
  <2> QED BY <1>8, <2>2, SetLinkClean DEF ConfigureDevice
<1>9. CASE AddrAdd
  <2>1. cfg \in Configs /\ cfg.Address \in Prefixes
    BY <1>9, <1>l, ConfigFields DEF AddrAdd, WithLink
  <2>2. [Link EXCEPT !.addr = cfg.Address] \in Links
    BY <1>9, <1>l, <2>1, LinkFields DEF AddrAdd, WithLink
  <2> QED BY <1>9, <2>1, <2>2, SetLinkClean DEF AddrAdd
<1>10. CASE LinkSetDown
  <2>1. cfg \in Configs /\ [Link EXCEPT !.up = FALSE] \in Links
    BY <1>10, <1>l, LinkFields DEF LinkSetDown, WithLink
  <2> QED BY <1>10, <2>1, SetLinkClean DEF LinkSetDown
<1>11. CASE LinkDel
  <2>1. cfg \in Configs
    BY <1>11, <1>l DEF LinkDel, WithLink
  <2> QED BY <1>11, <2>1, SetLinkClean DEF LinkDel
<1>12. CASE ReadConfig
  <2>1. /\ step = "down" /\ step' = "rule" /\ UNCHANGED <<links, rules, left>>
    BY <1>12 DEF ReadConfig, hostVars
  <2>2. Own' = Own
    BY <2>1 DEF Own
  <2> QED BY <2>1, <2>2 DEF CleanInv, Only, Nothing
<1>13. CASE StartRefused
  <2>1. step # "down"
    BY <1>13 DEF StartRefused, Refused
  <2> QED BY <1>0, <1>13, <2>1 DEF StartRefused, Ended, hostVars
<1>14. CASE ExitWithoutStop
  BY <1>0, <1>14 DEF ExitWithoutStop, Running, Ended
<1>15. CASE privateKey \/ Serve \/ Quit
  BY <1>1, <1>15 DEF privateKey, Serve, Quit, hostVars
<1>16. CASE Reply \/ ConfigRefused \/ EditConfig \/ UNCHANGED vars
  BY <1>1, <1>16 DEF Reply, ConfigRefused, EditConfig, vars, hostVars,
                    processVars
<1>17. CASE \/ \E s, i \in Issuers : Discover(s, i)
            \/ \E i \in Issuers : validate(i)
  BY <1>1, <1>17 DEF Discover, validate, hostVars
<1> QED BY <1>2, <1>3, <1>4, <1>5, <1>6, <1>7, <1>8, <1>9, <1>10, <1>11,
           <1>12, <1>13, <1>14, <1>15, <1>16, <1>17
        DEF Next, StartStep, StopStep

(* Theorem: CleanAfterStop.  AppendUnique and Delete undo each other as    *)
(* long as one configuration is at work.                                   *)
THEOREM StopCleans == Spec => []CleanAfterStop
<1>1. Init => CleanInv
  BY RuleOfConfig DEF Init, CleanInv, Only, Nothing
<1>2. CleanInv => CleanAfterStop
  BY DEF CleanInv, CleanAfterStop, Own, Nothing
<1> QED BY <1>1, <1>2, TypeInit, TypeStep, CleanStep, PTL DEF Spec
============================================================================
