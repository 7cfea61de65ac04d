--------------------------- MODULE ServerProcess ---------------------------
(***************************************************************************)
(* The life of the wiresteward server's process: server() of main.go with  *)
(* the configuration it reads (config.go, cidr.go), the device and the     *)
(* masquerading rule it sets up and removes (ServerDevice of device.go),   *)
(* the private key it keeps in a file, the token validator it builds by    *)
(* discovery (oauth2.go) and the replies it gives (serve.go).              *)
(*                                                                         *)
(* Device, rules and file belong to the host and outlive the process.  The *)
(* deferred Stop runs only when a signal ends server(): os.Exit, a panic   *)
(* and a kill skip it.  The leases are the subject of LeaseManager.        *)
(***************************************************************************)
EXTENDS Cidr

CONSTANTS
  Configs,            \* the configurations an administrator may install
  Issuers,            \* OAuth servers, named by their issuer
  Names,              \* names of network devices
  DefaultName,        \* defaultWireguardDeviceName
  AllowPublicRoutes,  \* the flag -allow-public-routes
  None,               \* no configuration, link, address, server or request
  MaxExits,           \* bound on exits without Stop and on reboots
  MaxEdits,           \* bound on changes of the configuration
  MaxKeys             \* bound on generated keys

(* A link with its key (0 until it is configured), flag and address; a     *)
(* request by the issuer of its token and the server asked about it.       *)
Links == [key : Nat, up : BOOLEAN, addr : Prefixes \cup {None}]
Requests == [issuer : Issuers, by : Issuers \cup {None}]

ASSUME ServerAssumption ==
  /\ Configs \subseteq [Address : Prefixes, AllowedIPs : SUBSET Prefixes,
                        DeviceName : Names, OauthServers : SUBSET Issuers]
  /\ DefaultName \in Names
  /\ None \notin Configs \cup Issuers \cup Links \cup Requests
  /\ AllowPublicRoutes \in BOOLEAN
  /\ {MaxExits, MaxEdits, MaxKeys} \subseteq Nat

(* Contents of the key file other than a key: no file, and a file that     *)
(* os.WriteFile left incomplete.  Keys are numbered as they are generated. *)
NoKey == 0
Torn == -1

VARIABLES
  conf,       \* the configuration file
  service,    \* "on": the service manager starts the server when it is down
  cfg,        \* the configuration the process has read, None if none runs
  step,       \* what server() does next
  tries,      \* iterations of ensureLinkIsUp
  key,        \* the key privateKey returned
  keyFile,    \* content of KeyFilename
  generated,  \* keys generated so far
  links,      \* links[n]: None or the key, flag and address of device n
  rules,      \* rules[r]: how often iptables lists rule r
  servers,    \* tv.servers[i]: who named the introspection endpoint of i
  request,    \* a request whose token was found active, or None
  exits,      \* exits without Stop and reboots so far
  edits,      \* changes of the configuration so far
  (*************************************************************************)
  (* History, read by properties and never by a guard.                     *)
  (*************************************************************************)
  left,       \* configurations of which something may be left behind
  handed      \* public keys in replies, with the device configured

processVars == <<cfg, step, tries, key, servers, request>>
hostVars    == <<keyFile, links, rules>>
adminVars   == <<conf, edits, service>>
vars == <<processVars, hostVars, adminVars, generated, exits, left, handed>>

---------------------------------------------------------------------------
(* Configuration.                                                          *)

(* verifyServerConfig appends the server's own address, as a /32. *)
AllowedIPs(c) == c.AllowedIPs \cup {[c.Address EXCEPT !.len = 32]}

(* A configuration that server() accepts. *)
verifyServerConfig(c) ==
  /\ \/ AllowPublicRoutes
     \/ \A p \in c.AllowedIPs \cup {c.Address} : isPrivateCIDR(p)
  /\ c.OauthServers # {}

(* iptables makes one rule of each destination. *)
Rule(c) == {[source |-> [c.Address EXCEPT !.addr = MaskedAddr(c.Address)],
             destination |-> p] : p \in AllowedIPs(c)}

Rules == UNION {Rule(c) : c \in Configs}

(* iptables handles IPv4 only. *)
Masqueradable(c) == \A p \in AllowedIPs(c) : p.family = 4

Running == step # "down"
Stopping == step \in {"linkdown", "linkdel", "ruledel"}
Serving == step = "up" \/ Stopping

(* The process ends, with or without Stop. *)
Ended ==
  /\ cfg' = None /\ step' = "down" /\ tries' = 0 /\ key' = NoKey
  /\ servers' = [i \in Issuers |-> None] /\ request' = None

Init ==
  /\ conf \in Configs /\ service = "on"
  /\ cfg = None /\ step = "down" /\ tries = 0 /\ key = NoKey
  /\ servers = [i \in Issuers |-> None] /\ request = None
  /\ keyFile = NoKey /\ generated = 0
  /\ links = [n \in Names |-> None] /\ rules = [r \in Rules |-> 0]
  /\ exits = 0 /\ edits = 0 /\ left = {} /\ handed = {}

---------------------------------------------------------------------------
(* readServerConfig and ServerDevice.Start.                                *)

ReadConfig ==
  /\ step = "down"
  /\ verifyServerConfig(conf)
  /\ cfg' = conf /\ step' = "rule" /\ tries' = 1
  /\ service' = "on"
  /\ UNCHANGED <<key, servers, request, hostVars, conf, edits, generated, exits,
                 left, handed>>

(* A configuration that is refused ends every start, until the service     *)
(* manager gives up.                                                       *)
ConfigRefused ==
  /\ step = "down" /\ service = "on"
  /\ ~verifyServerConfig(conf)
  /\ service' = "off"
  /\ UNCHANGED <<processVars, hostVars, conf, edits, generated, exits, left,
                 handed>>

Count(by) ==
  [r \in Rules |-> IF r \in Rule(cfg) THEN rules[r] + by ELSE rules[r]]
Listed == \A r \in Rule(cfg) : rules[r] > 0

(* Rules of different configurations overlap; from then on what the other  *)
(* ones left cannot be told apart from this one's.                         *)
Mixed == IF left \subseteq {cfg} THEN left ELSE left \cup {cfg}

(* Mutant: Append instead of AppendUnique. *)
AppendAgain ==
  /\ step = "rule" /\ Masqueradable(cfg)
  /\ rules' = Count(1)
  /\ step' = "link"
  /\ left' = Mixed
  /\ UNCHANGED <<cfg, tries, key, servers, request, keyFile, links, adminVars,
                 generated, exits, handed>>

(* AppendUnique: nothing if every rule is listed, else all are appended. *)
AppendUnique ==
  /\ step = "rule" /\ Masqueradable(cfg)
  /\ rules' = IF Listed THEN rules ELSE Count(1)
  /\ step' = "link"
  /\ left' = Mixed
  /\ UNCHANGED <<cfg, tries, key, servers, request, keyFile, links, adminVars,
                 generated, exits, handed>>

SetLink(l) == links' = [links EXCEPT ![cfg.DeviceName] = l]
Link == links[cfg.DeviceName]

LinkAdd ==
  /\ step = "link" /\ Link = None
  /\ SetLink([key |-> NoKey, up |-> FALSE, addr |-> None])
  /\ step' = "wait"
  /\ UNCHANGED <<cfg, tries, key, servers, request, keyFile, rules, adminVars,
                 generated, exits, left, handed>>

(* Flatcar brings the link up by itself, at some time. *)
LinkComesUp ==
  /\ step = "wait" /\ ~Link.up
  /\ SetLink([Link EXCEPT !.up = TRUE])
  /\ UNCHANGED <<processVars, keyFile, rules, adminVars, generated, exits, left,
                 handed>>

(* Mutant: the wait ends without LinkSetUp. *)
GiveUpOnLink ==
  /\ step = "wait"
  /\ IF Link.up \/ tries > 4 THEN step' = "key" /\ UNCHANGED tries
                             ELSE tries' = tries + 1 /\ UNCHANGED step
  /\ UNCHANGED <<cfg, key, servers, request, hostVars, adminVars, generated,
                 exits, left, handed>>

(* Mutant: only the automatic transition ends the wait. *)
WaitForLink ==
  /\ step = "wait" /\ Link.up
  /\ step' = "key"
  /\ UNCHANGED <<cfg, tries, key, servers, request, hostVars, adminVars,
                 generated, exits, left, handed>>

(* Mutant: one look too many. *)
LookAgain ==
  /\ step = "wait"
  /\ \/ Link.up /\ step' = "key" /\ UNCHANGED tries
     \/ ~Link.up /\ tries <= 5 /\ tries' = tries + 1 /\ UNCHANGED step
  /\ UNCHANGED <<cfg, key, servers, request, hostVars, adminVars,
                 generated, exits, left, handed>>

(* ensureLinkIsUp: five looks, then LinkSetUp. *)
ensureLinkIsUp ==
  /\ step = "wait"
  /\ \/ Link.up /\ step' = "key" /\ UNCHANGED <<tries, links>>
     \/ ~Link.up /\ tries > 4 /\ step' = "key" /\ UNCHANGED tries
        /\ SetLink([Link EXCEPT !.up = TRUE])
     \/ ~Link.up /\ tries <= 4 /\ tries' = tries + 1
        /\ UNCHANGED <<step, links>>
  /\ UNCHANGED <<cfg, key, servers, request, keyFile, rules, adminVars,
                 generated, exits, left, handed>>

(* Mutant: a key that does not parse is replaced. *)
ReplaceKey ==
  /\ step = "key"
  /\ \/ keyFile > 0 /\ key' = keyFile /\ UNCHANGED <<keyFile, generated>>
     \/ keyFile <= 0 /\ generated < MaxKeys
        /\ generated' = generated + 1
        /\ key' = generated' /\ UNCHANGED keyFile
  /\ step' = "configure"
  /\ UNCHANGED <<cfg, tries, servers, request, links, rules, adminVars, exits,
                 left, handed>>

(* privateKey: the key in the file, or a new one that is saved first. *)
privateKey ==
  /\ step = "key"
  /\ \/ keyFile > 0 /\ key' = keyFile /\ UNCHANGED <<keyFile, generated>>
     \/ keyFile = NoKey /\ generated < MaxKeys
        /\ generated' = generated + 1
        /\ key' = generated' /\ keyFile' = generated'
  /\ step' = "configure"
  /\ UNCHANGED <<cfg, tries, servers, request, links, rules, adminVars, exits,
                 left, handed>>

ConfigureDevice ==
  /\ step = "configure"
  /\ SetLink([Link EXCEPT !.key = key])
  /\ step' = "addr"
  /\ UNCHANGED <<cfg, tries, key, servers, request, keyFile, rules, adminVars,
                 generated, exits, left, handed>>

(* AddrAdd and LinkSetMTU. *)
AddrAdd ==
  /\ step = "addr"
  /\ SetLink([Link EXCEPT !.addr = cfg.Address])
  /\ step' = "discover"
  /\ UNCHANGED <<cfg, tries, key, servers, request, keyFile, rules, adminVars,
                 generated, exits, left, handed>>

---------------------------------------------------------------------------
(* newTokenValidator and the handlers.                                     *)

(* Mutant: the issuer of the document is taken on trust. *)
DiscoverOnTrust(s, issuer) ==
  /\ step = "discover" /\ s \in cfg.OauthServers /\ servers[s] = None
  /\ servers' = [servers EXCEPT ![issuer] = s]
  /\ UNCHANGED <<cfg, step, tries, key, request, hostVars, adminVars, generated,
                 exits, left, handed>>

(* Server s answers with a discovery document that names an issuer; if it  *)
(* is another one, newTokenValidator fails: ExitWithoutStop.               *)
Discover(s, issuer) ==
  /\ step = "discover" /\ s \in cfg.OauthServers /\ servers[s] = None
  /\ issuer = s
  /\ servers' = [servers EXCEPT ![issuer] = s]
  /\ UNCHANGED <<cfg, step, tries, key, request, hostVars, adminVars, generated,
                 exits, left, handed>>

Serve ==
  /\ step = "discover" /\ \A s \in cfg.OauthServers : servers[s] # None
  /\ step' = "up"
  /\ UNCHANGED <<cfg, tries, key, servers, request, hostVars, adminVars,
                 generated, exits, left, handed>>

(* validate: a token that names an issuer, active for the server whose     *)
(* endpoint is registered for it.                                          *)
validate(issuer) ==
  /\ Serving /\ request = None
  /\ servers[issuer] # None
  /\ request' = [issuer |-> issuer, by |-> servers[issuer]]
  /\ UNCHANGED <<cfg, step, tries, key, servers, hostVars, adminVars, generated,
                 exits, left, handed>>

(* The reply of newPeerLease has the key of the default device, whatever   *)
(* device is configured; without that device there is none.                *)
Reply ==
  /\ Serving /\ request # None
  /\ request' = None
  /\ handed' = IF links[DefaultName] = None THEN handed
               ELSE handed \cup {<<cfg.DeviceName, links[DefaultName].key>>}
  /\ UNCHANGED <<cfg, step, tries, key, servers, hostVars, adminVars, generated,
                 exits, left>>

---------------------------------------------------------------------------
(* A signal and the deferred Stop, during which handlers go on.            *)

Quit ==
  /\ step = "up"
  /\ step' = "linkdown"
  /\ service' = "off"
  /\ UNCHANGED <<cfg, tries, key, servers, request, hostVars, conf, edits,
                 generated, exits, left, handed>>

LinkSetDown ==
  /\ step = "linkdown"
  /\ SetLink([Link EXCEPT !.up = FALSE])
  /\ step' = "linkdel"
  /\ UNCHANGED <<cfg, tries, key, servers, request, keyFile, rules, adminVars,
                 generated, exits, left, handed>>

LinkDel ==
  /\ step = "linkdel"
  /\ SetLink(None)
  /\ step' = "ruledel"
  /\ UNCHANGED <<cfg, tries, key, servers, request, keyFile, rules, adminVars,
                 generated, exits, left, handed>>

(* The rule is deleted once. *)
DeleteRule ==
  /\ step = "ruledel" /\ Listed
  /\ rules' = Count(-1)
  /\ left' = IF left \subseteq {cfg} THEN {} ELSE left
  /\ Ended
  /\ UNCHANGED <<keyFile, links, adminVars, generated, exits, handed>>

---------------------------------------------------------------------------
(* Everything that ends the process without Stop.                          *)

(* Calls that fail whenever they are made: the rule of an IPv6 address,    *)
(* a link that exists, a key that does not parse.  The service manager     *)
(* starts the server again, until it gives up.                             *)
Refused ==
  \/ step = "rule" /\ ~Masqueradable(cfg)
  \/ step = "link" /\ Link # None
  \/ step = "key" /\ keyFile = Torn

StartRefused ==
  /\ Refused
  /\ left' = IF step = "rule" THEN left ELSE left \cup {cfg}
  /\ Ended
  /\ service' \in {"on", "off"}
  /\ UNCHANGED <<hostVars, conf, edits, generated, exits, handed>>

(* A call that fails and os.Exit(1), a failure of Stop, the end of an HTTP *)
(* listener or a kill; a key file being written is left incomplete or not. *)
ExitWithoutStop ==
  /\ Running /\ exits < MaxExits
  /\ exits' = exits + 1
  /\ \/ UNCHANGED keyFile
     \/ step = "key" /\ keyFile = NoKey /\ keyFile' = Torn
  /\ left' = IF step = "rule" THEN left ELSE left \cup {cfg}
  /\ Ended
  /\ UNCHANGED <<links, rules, adminVars, generated, handed>>

(* Links and rules do not survive the host; the service starts with it. *)
Reboot ==
  /\ exits < MaxExits
  /\ exits' = exits + 1
  /\ links' = [n \in Names |-> None] /\ rules' = [r \in Rules |-> 0]
  /\ left' = {}
  /\ Ended
  /\ service' = "on"
  /\ UNCHANGED <<keyFile, conf, edits, generated, handed>>

EditConfig ==
  /\ edits < MaxEdits /\ edits' = edits + 1
  /\ conf' \in Configs \ {conf}
  /\ UNCHANGED <<service, processVars, hostVars, generated, exits, left,
                 handed>>

---------------------------------------------------------------------------
StartStep ==
  \/ AppendUnique \/ LinkAdd \/ ensureLinkIsUp \/ privateKey
  \/ ConfigureDevice \/ AddrAdd \/ Serve \/ StartRefused
  \/ \E s, i \in Issuers : Discover(s, i)

StopStep == LinkSetDown \/ LinkDel \/ DeleteRule

Next ==
  \/ ReadConfig \/ ConfigRefused \/ StartStep \/ StopStep
  \/ LinkComesUp \/ Quit \/ Reply \/ ExitWithoutStop \/ Reboot \/ EditConfig
  \/ \E i \in Issuers : validate(i)

(* The process goes on.  The service manager starts it again only after a  *)
(* failure (Restart=on-failure), and an administrator may always do so.    *)
Fairness ==
  /\ WF_vars(service = "on" /\ ReadConfig)
  /\ WF_vars(StartStep) /\ WF_vars(StopStep)

Spec == Init /\ [][Next]_vars
FairSpec == Spec /\ Fairness

---------------------------------------------------------------------------
(* Properties *)

(* Types, and a process has read a configuration. *)
TypeOK ==
  /\ conf \in Configs /\ cfg \in Configs \cup {None}
  /\ service \in {"on", "off"}
  /\ step \in {"down", "rule", "link", "wait", "key", "configure", "addr",
               "discover", "up", "linkdown", "linkdel", "ruledel"}
  /\ step = "down" <=> cfg = None
  /\ tries \in 0..5
  /\ key \in Nat /\ keyFile \in Nat \cup {Torn} /\ generated \in Nat
  /\ links \in [Names -> Links \cup {None}]
  /\ rules \in [Rules -> Nat]
  /\ servers \in [Issuers -> Issuers \cup {None}]
  /\ request \in Requests \cup {None}
  /\ exits \in 0..MaxExits /\ edits \in 0..MaxEdits
  /\ left \subseteq Configs /\ handed \subseteq Names \X Nat

(* Unless a process with another configuration left something behind, a    *)
(* server that was stopped leaves neither link nor rule on the host, also  *)
(* not those of earlier processes that never came to Stop: AppendUnique of *)
(* Start lists their rule only once.                                       *)
CleanAfterStop ==
  step = "down" /\ left = {} =>
    /\ \A n \in Names : links[n] = None
    /\ \A r \in Rules : rules[r] = 0

(* A server that answers requests has its device: up, with the server's    *)
(* address and the key of the file, its traffic masqueraded.               *)
ServingDeviceReady ==
  step = "up" =>
    /\ Link # None /\ Link.up
    /\ Link.addr = cfg.Address /\ Link.key = keyFile /\ keyFile > 0
    /\ Listed

(* The public key that agents are told is that of the key file: it stays   *)
(* the same through stops, crashes and reboots, and an agent's             *)
(* configuration keeps working.  Only for a server of the default device:  *)
(* the replies of another have whatever key that device has.               *)
IdentityStable ==
  \A h \in handed : h[1] = DefaultName => h[2] = keyFile

(* A request goes on only if the server asked about its token is one of    *)
(* those configured, and the one the token names as its issuer.            *)
GrantsConfirmed ==
  request # None => /\ request.by = request.issuer
                    /\ request.issuer \in cfg.OauthServers

(* Without -allow-public-routes nothing but private addresses is           *)
(* masqueraded, or configured on a device: README "Private address         *)
(* validation".                                                            *)
OnlyPrivateRoutes ==
  ~AllowPublicRoutes =>
    /\ \A r \in Rules : rules[r] > 0 =>
         WithinPrivate(r.source) /\ WithinPrivate(r.destination)
    /\ \A n \in Names : links[n] # None /\ links[n].addr # None =>
         WithinPrivate(links[n].addr)

(* What keeps the installed configuration from ever being served, before a *)
(* process is started with it: it is refused, an earlier process left the  *)
(* link behind, or half of a key file.                                     *)
Hopeless ==
  \/ ~verifyServerConfig(conf) \/ ~Masqueradable(conf)
  \/ step = "down" /\ links[conf.DeviceName] # None
  \/ keyFile = Torn

(* A server that is down, and was not told to stop, comes up - the wait    *)
(* for its link, its key, its address and discovery end -, or something    *)
(* stands in its way that no restart removes.                              *)
ServerComesUp ==
  (step = "down" /\ service = "on") ~> (step = "up" \/ Hopeless)
============================================================================
