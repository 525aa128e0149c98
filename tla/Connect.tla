------------------------------ MODULE Connect -------------------------------
(***************************************************************************)
(* Opening a channel: canOpenChannel's load of the configuration and       *)
(* Conn::connect with bind_udp, accept_with_timeout, the dial, the         *)
(* handshake and the peer check (src/src/transport.rs), and                *)
(* canGetNumberOfChannels, which reads the same configuration once.        *)
(*                                                                         *)
(* One thread opens, uses and closes one channel at a time.  The world     *)
(* around it (INI files, environment, ports other programs hold) is chosen *)
(* at the start and edited between two opens.  Time is counted in ticks of *)
(* accept's 50 ms poll.                                                    *)
(***************************************************************************)
EXTENDS Config

CONSTANTS
    Addrs,        \* IP addresses
    V6,           \* those of them that are IPv6
    Worlds,       \* [files, env, inUse] records the program may start in
    EditedWorlds, \* those the user may edit the first one into
    BannerParts,  \* reads that the banner takes at most to arrive (12 in the code)
    MaxClients    \* bound: clients that reach the listener during one open

ASSUME ConnectAssumption ==
    /\ LOCALHOST \in Addrs
    /\ V6 \subseteq Addrs
    /\ BannerParts \in Nat \ {0}
    /\ MaxClients \in Nat

\* A text has its two parts, and a number that it holds is not negative: "-1"
\* parses as no u16 or u32 and is a word.
IsText(t) ==
    /\ t \in [lead : BOOLEAN, body : {t.body}]
    /\ t.body.is = "number" => t.body.n \in Nat
    /\ t.body.is = "address" => t.body = Address(t.body.a)
    /\ ParseIpList(t) \subseteq Addrs

\* There are three places for a file, and each has one or none.
ASSUME WorldAssumption ==
    \A w \in Worlds \cup EditedWorlds :
        /\ \A name \in DOMAIN w.env : IsText(w.env[name])
        /\ DOMAIN w.files = 1..3
        /\ \A i \in 1..3 : \A lines \in w.files[i] :
              /\ w.files[i] = {lines}
              /\ DOMAIN lines = 1..Len(lines) /\ Len(lines) \in Nat
              /\ \A j \in DOMAIN lines : lines[j].is = "entry" => IsText(lines[j].text)

VARIABLES
    world,    \* what Config::load reads, and the ports in use elsewhere
    cfg,      \* the Config of this open
    pc,       \* where the opening thread is
    result,   \* "none", or what the last canOpenChannel has come to
    bound,    \* local port, 0 for none
    clients,  \* [ip, fate] of those that reached the listener, in order
    waited,   \* ticks since accept_with_timeout began
    elapsed,  \* ticks since connect began
    got,      \* parts of the peer's banner that have arrived
    right,    \* they are those of CANNELLONIv1
    heard,    \* history: addresses whose data or connection was taken
    memo,     \* ENUM_CHANNELS, an option
    count     \* last answer of canGetNumberOfChannels, an option

netVars  == <<bound, clients, waited, elapsed, got, right, heard>>
enumVars == <<memo, count>>
vars     == <<world, cfg, pc, result, netVars, enumVars>>

Ports == 1..U16_MAX

Reset ==
    /\ bound' = 0 /\ clients' = <<>> /\ waited' = 0 /\ elapsed' = 0
    /\ got' = 0 /\ right' = TRUE /\ heard' = {}

Init ==
    /\ world \in Worlds
    /\ cfg = Default /\ pc = "idle" /\ result = "none"
    /\ bound = 0 /\ clients = <<>> /\ waited = 0 /\ elapsed = 0
    /\ got = 0 /\ right = TRUE /\ heard = {}
    /\ memo = {} /\ count = {}

\* The user edits the INI file or the environment between two opens.
Reconfigure ==
    /\ pc = "idle"
    /\ world' \in EditedWorlds \ {world}
    /\ cfg' = Default /\ result' = "none"
    /\ Reset
    /\ UNCHANGED <<pc, enumVars>>

-----------------------------------------------------------------------------
(* Operators of transport.rs.                                              *)

HostIp(c) == c.host.body.a

\* The family of the wildcard address that is bound.
WildcardFor(ip) == IF ip \in V6 THEN V6 ELSE Addrs \ V6

\* Mutant of EffectiveAllow: the host stays allowed beside the list.
EffectiveAllowBoth(c) == {HostIp(c)} \cup c.allow

EffectiveAllow(c) == IF c.allow = {} THEN {HostIp(c)} ELSE c.allow

PeerAllowed(from, c) == ~c.peer_check \/ from \in EffectiveAllow(c)

-----------------------------------------------------------------------------
(* canOpenChannel                                                          *)

\* connect returns Err: whatever socket it had is dropped.
Fail ==
    /\ pc' = "idle" /\ result' = "notfound" /\ bound' = 0
    /\ UNCHANGED <<world, cfg, enumVars>>

\* Loads the configuration; a host that is not an address ends the open.
OpenChannel ==
    /\ pc = "idle"
    /\ cfg' = Load(world.files, world.env)
    /\ IF cfg'.host.body.is = "address"
       THEN /\ pc' = IF ~cfg'.tcp THEN "bind"
                     ELSE IF cfg'.tcp_server THEN "listen" ELSE "dial"
            /\ result' = "pending"
       ELSE pc' = pc /\ result' = "notfound"
    /\ Reset
    /\ UNCHANGED <<world, enumVars>>

\* Ports the system gives to a bind of port p.
Granted(p) == (IF p = 0 THEN Ports ELSE {p}) \ world.inUse

\* bind_udp: an ephemeral port instead of a busy one, if configured.
BindUdp ==
    /\ pc = "bind"
    /\ bound' \in IF cfg.udp_port_fallback /\ cfg.local_port \in world.inUse
                  THEN Granted(0) ELSE Granted(cfg.local_port)
    /\ pc' = "open" /\ result' = "ok"
    /\ UNCHANGED <<world, cfg, clients, waited, elapsed, got, right, heard, enumVars>>

\* Any failing bind: the port is busy or the system refuses otherwise.
BindFails ==
    /\ pc \in {"bind", "listen"}
    /\ Fail
    /\ UNCHANGED <<clients, waited, elapsed, got, right, heard>>

Listen ==
    /\ pc = "listen"
    /\ bound' \in Granted(cfg.local_port)
    /\ pc' = "accept"
    /\ UNCHANGED <<world, cfg, result, clients, waited, elapsed, got, right, heard,
                   enumVars>>

\* external: a client connects to the listener; it must be of the family bound.
ClientArrives ==
    /\ pc = "accept" /\ Len(clients) < MaxClients
    /\ \E ip \in WildcardFor(HostIp(cfg)) :
          clients' = Append(clients, [ip |-> ip, fate |-> "waiting"])
    /\ UNCHANGED <<world, cfg, pc, result, bound, waited, elapsed, got, right, heard,
                   enumVars>>

Waiting == {i \in DOMAIN clients : clients[i].fate = "waiting"}

\* Time passes for the open and for the accept.
Pass(d) == waited' = waited + d /\ elapsed' = elapsed + d

\* start.elapsed() > total, at a time known to the tick only.
MayExpire(w) == w >= cfg.accept_timeout
MayGoOn(w) == w <= cfg.accept_timeout

\* The oldest waiting client is allowed: it is taken, though the deadline may
\* have passed, and the listener is dropped with those behind it.
Accept ==
    /\ pc = "accept" /\ Waiting # {}
    /\ LET i == Min(Waiting) IN
       /\ PeerAllowed(clients[i].ip, cfg)
       /\ clients' = [j \in DOMAIN clients |->
                        IF j = i THEN [clients[j] EXCEPT !.fate = "accepted"]
                        ELSE IF j > i THEN [clients[j] EXCEPT !.fate = "dropped"]
                        ELSE clients[j]]
       /\ heard' = {clients[i].ip}
    /\ pc' = "handshake"
    /\ UNCHANGED <<world, cfg, result, bound, waited, elapsed, got, right, enumVars>>

\* Mutant of Refuse: only an idle poll looks at the deadline.
RefuseNoDeadline ==
    /\ pc = "accept" /\ Waiting # {}
    /\ ~PeerAllowed(clients[Min(Waiting)].ip, cfg)
    /\ clients' = [clients EXCEPT ![Min(Waiting)].fate = "refused"]
    /\ \E d \in 0..1 : Pass(d)
    /\ UNCHANGED <<world, cfg, pc, result, bound, got, right, heard, enumVars>>

\* The oldest waiting client is not allowed: shut down, then the deadline is
\* tested.  Turning it away takes at most one tick.
Refuse ==
    /\ pc = "accept" /\ Waiting # {}
    /\ ~PeerAllowed(clients[Min(Waiting)].ip, cfg)
    /\ clients' = [clients EXCEPT ![Min(Waiting)].fate = "refused"]
    /\ \E d \in 0..1 : Pass(d)
    /\ \/ MayExpire(waited') /\ Fail
       \/ MayGoOn(waited') /\ UNCHANGED <<world, cfg, pc, result, bound, enumVars>>
    /\ UNCHANGED <<got, right, heard>>

\* Nobody is waiting: the deadline is tested, then the thread sleeps a tick.
Poll ==
    /\ pc = "accept" /\ Waiting = {}
    /\ \/ MayExpire(waited) /\ Fail /\ UNCHANGED <<waited, elapsed>>
       \/ /\ MayGoOn(waited) /\ Pass(1)
          /\ UNCHANGED <<world, cfg, pc, result, bound, enumVars>>
    /\ UNCHANGED <<clients, got, right, heard>>

\* accept fails otherwise, or the accepted socket cannot be made blocking.
AcceptFails ==
    /\ pc = "accept"
    /\ Fail
    /\ UNCHANGED <<clients, waited, elapsed, got, right, heard>>

\* TcpStream::connect_timeout, which refuses a timeout of zero.
Dial ==
    /\ pc = "dial" /\ cfg.connect_timeout > 0
    /\ \E d \in 0..cfg.connect_timeout : elapsed' = elapsed + d
    /\ bound' \in Granted(0)
    /\ pc' = "handshake"
    /\ UNCHANGED <<world, cfg, result, clients, waited, got, right, heard, enumVars>>

DialFails ==
    /\ pc = "dial"
    /\ \E d \in 0..cfg.connect_timeout : elapsed' = elapsed + d
    /\ Fail
    /\ UNCHANGED <<clients, waited, got, right, heard>>

\* Mutant of HandshakeReceive: the banner is not compared.
HandshakeReceiveAny ==
    /\ pc = "handshake" /\ cfg.connect_timeout > 0
    /\ \E d \in 0..cfg.connect_timeout : elapsed' = elapsed + d
    /\ got' = got + 1
    /\ right' \in {right, FALSE}
    /\ IF got' < BannerParts THEN UNCHANGED <<pc, result>>
       ELSE pc' = "open" /\ result' = "ok"
    /\ UNCHANGED <<world, cfg, bound, clients, waited, heard, enumVars>>

\* read_exact: every read of a part of the banner has the whole timeout to
\* itself; the comparison follows the last one.
HandshakeReceive ==
    /\ pc = "handshake" /\ cfg.connect_timeout > 0
    /\ \E d \in 0..cfg.connect_timeout : elapsed' = elapsed + d
    /\ got' = got + 1
    /\ right' \in {right, FALSE}
    /\ \/ /\ got' < BannerParts
          /\ UNCHANGED <<world, cfg, pc, result, bound, enumVars>>
       \/ /\ got' = BannerParts /\ right'
          /\ pc' = "open" /\ result' = "ok"
          /\ UNCHANGED <<world, cfg, bound, enumVars>>
       \/ got' = BannerParts /\ ~right' /\ Fail
    /\ UNCHANGED <<clients, waited, heard>>

\* The send fails, a read fails, ends or times out, or the timeout is zero.
HandshakeFails ==
    /\ pc = "handshake"
    /\ \E d \in 0..cfg.connect_timeout : elapsed' = elapsed + d
    /\ Fail
    /\ UNCHANGED <<clients, waited, got, right, heard>>

-----------------------------------------------------------------------------
(* After the open.                                                         *)

\* udp_rx_loop: a datagram from an address that is not allowed is dropped.
Datagram ==
    /\ pc = "open" /\ ~cfg.tcp
    /\ \E from \in WildcardFor(HostIp(cfg)) :
          /\ PeerAllowed(from, cfg)
          /\ heard' = heard \cup {from}
    /\ UNCHANGED <<world, cfg, pc, result, bound, clients, waited, elapsed, got, right,
                   enumVars>>

Close ==
    /\ pc = "open"
    /\ pc' = "idle" /\ result' = "none"
    /\ cfg' = Default
    /\ Reset
    /\ UNCHANGED <<world, enumVars>>

\* The configuration is read by the first call only.
ChannelsMemo == IF memo = {} THEN {Load(world.files, world.env).channels} ELSE memo

\* Mutant of NumberOfChannels: the u32 is returned as an i32 without the clamp.
NumberOfChannelsWraps ==
    /\ memo' = ChannelsMemo
    /\ count' = {IF n > I32_MAX THEN n - (U32_MAX + 1) ELSE n : n \in memo'}
    /\ UNCHANGED <<world, cfg, pc, result, netVars>>

\* canGetNumberOfChannels, from any thread at any time.
NumberOfChannels ==
    /\ memo' = ChannelsMemo
    /\ count' = {IF n > I32_MAX THEN I32_MAX ELSE n : n \in memo'}
    /\ UNCHANGED <<world, cfg, pc, result, netVars>>

Next ==
    \/ Reconfigure \/ OpenChannel
    \/ BindUdp \/ BindFails
    \/ Listen \/ ClientArrives \/ Accept \/ Refuse \/ Poll \/ AcceptFails
    \/ Dial \/ DialFails \/ HandshakeReceive \/ HandshakeFails
    \/ Datagram \/ Close \/ NumberOfChannels

Spec == Init /\ [][Next]_vars

-----------------------------------------------------------------------------
(* Properties.                                                             *)

ConfigType ==
    [host : {cfg.host}, remote_port : 0..U16_MAX, local_port : 0..U16_MAX,
     tcp : BOOLEAN, tcp_server : BOOLEAN, log : {cfg.log}, channels : 0..U32_MAX,
     connect_timeout : 0..U32_MAX, accept_timeout : 0..U32_MAX,
     udp_port_fallback : BOOLEAN, peer_check : BOOLEAN, allow : SUBSET Addrs]

\* Types.  What canGetNumberOfChannels reports is a non-negative i32, although
\* the configured u32 need not be.
TypeOK ==
    /\ cfg \in ConfigType
    /\ pc \in {"idle", "bind", "listen", "accept", "dial", "handshake", "open"}
    /\ result \in {"none", "pending", "ok", "notfound"}
    /\ bound \in {0} \cup Ports
    /\ clients \in Seq([ip : Addrs, fate : {"waiting", "refused", "accepted", "dropped"}])
    /\ waited \in Nat /\ elapsed \in Nat
    /\ got \in 0..BannerParts /\ right \in BOOLEAN
    /\ heard \subseteq Addrs
    /\ count \subseteq 0..I32_MAX

\* The names of a setting in the environment and in Config.
EnvName ==
    [host |-> "KVASILLONI_HOST", port |-> "KVASILLONI_PORT",
     localport |-> "KVASILLONI_LOCALPORT", proto |-> "KVASILLONI_PROTO",
     tcprole |-> "KVASILLONI_TCPROLE", log |-> "KVASILLONI_LOG",
     channels |-> "KVASILLONI_CHANNELS",
     connecttimeout |-> "KVASILLONI_CONNECT_TIMEOUT",
     accepttimeout |-> "KVASILLONI_ACCEPT_TIMEOUT",
     udpportfallback |-> "KVASILLONI_UDP_PORT_FALLBACK",
     peercheck |-> "KVASILLONI_PEER_CHECK", allow |-> "KVASILLONI_ALLOW"]
Field ==
    [host |-> "host", port |-> "remote_port", localport |-> "local_port",
     proto |-> "tcp", tcprole |-> "tcp_server", log |-> "log",
     channels |-> "channels", connecttimeout |-> "connect_timeout",
     accepttimeout |-> "accept_timeout", udpportfallback |-> "udp_port_fallback",
     peercheck |-> "peer_check", allow |-> "allow"]

\* What a text means as setting k, {} if it is refused.
Meaning(k, t) ==
    CASE k = "host" -> Host({t})
      [] k \in {"port", "localport"} -> U16({t})
      [] k \in {"channels", "connecttimeout", "accepttimeout"} -> U32({t})
      [] k = "proto" -> IsTcp({t})
      [] k = "tcprole" -> IsServer({t})
      [] k = "log" -> LogPath({t})
      [] k = "allow" -> Peers({t})
      [] OTHER -> Flag({t})

Meant(k, option) == UNION {Meaning(k, t) : t \in option}

\* The text that the environment gives for setting k, and that of the last line
\* for k in the first readable file, as options.
FromEnv(k) == IF EnvName[k] \in DOMAIN world.env THEN {world.env[EnvName[k]]} ELSE {}
FromFile(k) ==
    LET readable == {i \in DOMAIN world.files : world.files[i] # {}}
        lines == CHOOSE l \in world.files[Min(readable)] : TRUE
        at == {j \in DOMAIN lines : lines[j].is = "entry" /\ lines[j].key = k}
    IN  IF readable = {} \/ at = {} THEN {}
        ELSE {[lines[Max(at)].text EXCEPT !.lead = FALSE]}

\* Every setting of an open channel comes from the strongest layer that gives
\* it a meaning, and from nothing else: no key shadows another, no file is
\* merged with the next, a refused value leaves the weaker layer's in force
\* (Config::load, apply_map, apply_env_with, find_and_parse_ini).
LayeredByKey ==
    result # "none" =>
        \A k \in DOMAIN EnvName :
            {cfg[Field[k]]} = IF Meant(k, FromEnv(k)) # {} THEN Meant(k, FromEnv(k))
                              ELSE IF Meant(k, FromFile(k)) # {} THEN Meant(k, FromFile(k))
                              ELSE {Default[Field[k]]}

\* Nothing is taken from a datagram's or a client's address unless the user
\* allowed it: by the addresses of the strongest allow list if there are any,
\* by host otherwise, or by a peercheck that is given and not switched on
\* (effective_allow, peer_allowed, udp_rx_loop, accept_with_timeout).  The list
\* stands in for the host and not beside it, as config.rs:24 ("replaces host
\* default") has it; README.md:98-99 ("Widen it with `allow = ip1, ip2`") and
\* config.rs:61-62 ("other than `host` (or an `allow` entry)") do not.
InboundRestricted ==
    LET strongest(k) == IF FromEnv(k) # {} THEN FromEnv(k) ELSE FromFile(k)
        hosts == {t.body : t \in IF Host(FromEnv("host")) # {} THEN Host(FromEnv("host"))
                                 ELSE Host(FromFile("host"))}
        listed == UNION {ParseIpList(t) : t \in strongest("allow")}
    IN  heard # {} =>
            \/ \E t \in strongest("peercheck") : ~ParseBool(t)
            \/ IF listed # {} THEN heard \subseteq listed
               ELSE {Address(a) : a \in heard}
                        = IF hosts = {} THEN {Address(LOCALHOST)} ELSE hosts

\* A TCP channel that is open has exchanged the banner with its peer.  A server
\* has turned away every client that came before the one it took, refused none
\* that was allowed, and nobody is left waiting on its listener
\* (accept_with_timeout, handshake, canOpenChannel).
OpenMeansTunnel ==
    pc = "open" /\ cfg.tcp =>
        /\ got = BannerParts /\ right
        /\ cfg.tcp_server =>
              \E i \in DOMAIN clients :
                 /\ clients[i].fate = "accepted"
                 /\ \A j \in DOMAIN clients :
                       /\ j < i => /\ clients[j].fate = "refused"
                                   /\ cfg.peer_check
                                   /\ clients[j].ip # clients[i].ip
                       /\ j > i => clients[j].fate = "dropped"

\* The time canOpenChannel can take at most.  A dial has connect_timeout, and so
\* has every single read of the handshake; accept may overrun accept_timeout by
\* one poll and one refused client (accept_with_timeout, handshake).
OpenBounded ==
    elapsed <= IF ~cfg.tcp THEN 0
               ELSE (IF cfg.tcp_server THEN cfg.accept_timeout + 2
                     ELSE cfg.connect_timeout)
                    + BannerParts * cfg.connect_timeout
=============================================================================
