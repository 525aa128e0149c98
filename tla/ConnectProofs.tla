--------------------------- MODULE ConnectProofs ----------------------------
(***************************************************************************)
(* Theorems about Connect for every configuration a world may give, every  *)
(* number of clients and any addresses.                                    *)
(***************************************************************************)
EXTENDS Connect, SequenceTheorems, WellFoundedInduction, TLAPS

-----------------------------------------------------------------------------
(* The least and the greatest of a set of numbers. *)

LEMMA LeastNat ==
    ASSUME NEW S \in SUBSET Nat, S # {}
    PROVE  \E m \in S : \A k \in S : m <= k
<1>1. PICK m \in S : \A k \in S : ~(<<k, m>> \in OpToRel(<, Nat))
  BY NatLessThanWellFounded, WFMin
<1>2. \A k \in S : ~(k < m)
  BY <1>1 DEF OpToRel
<1>3. QED
  BY <1>2

LEMMA MinIs ==
    ASSUME NEW S \in SUBSET Nat, S # {}
    PROVE  Min(S) \in S /\ \A k \in S : Min(S) <= k
<1>1. \E m \in S : \A k \in S : m <= k
  BY LeastNat
<1>2. QED
  BY <1>1 DEF Min

LEMMA MaxIs ==
    ASSUME NEW n \in Nat, NEW S \in SUBSET (1..n), S # {}
    PROVE  Max(S) \in S
<1> DEFINE T == {k \in Nat : n - k \in S}
<1>1. T # {}
  <2>1. PICK s \in S : TRUE
    OBVIOUS
  <2>2. n - s \in Nat /\ n - (n - s) = s
    OBVIOUS
  <2>3. QED
    BY <2>1, <2>2
<1>2. PICK m \in T : \A k \in T : m <= k
  BY <1>1, LeastNat
<1>3. n - m \in S /\ m \in Nat
  BY <1>2
<1>4. \A s \in S : n - m >= s
  <2>1. SUFFICES ASSUME NEW s \in S PROVE n - m >= s
    OBVIOUS
  <2>2. n - s \in Nat /\ n - (n - s) = s
    OBVIOUS
  <2>3. n - s \in T
    BY <2>2
  <2>4. m <= n - s
    BY <1>2, <2>3
  <2>5. QED
    BY <1>3, <2>2, <2>4
<1>5. QED
  BY <1>3, <1>4 DEF Max

-----------------------------------------------------------------------------
(* What Config::load returns. *)

\* A configuration whose numbers fit the fields they are stored in.
CfgTyped(c) ==
    /\ IsText(c.host) /\ c.allow \in SUBSET Addrs
    /\ c.remote_port \in 0..U16_MAX /\ c.local_port \in 0..U16_MAX
    /\ c.tcp \in BOOLEAN /\ c.tcp_server \in BOOLEAN
    /\ c.channels \in 0..U32_MAX
    /\ c.connect_timeout \in 0..U32_MAX /\ c.accept_timeout \in 0..U32_MAX
    /\ c.udp_port_fallback \in BOOLEAN /\ c.peer_check \in BOOLEAN

\* A layer that gives texts only.
IsLayer(m) == \A name \in DOMAIN m : IsText(m[name])

LEMMA OverlayIn ==
    ASSUME NEW S, NEW option \in SUBSET S, NEW old \in S
    PROVE  Overlay(option, old) \in S
  BY DEF Overlay

LEMMA NumbersIn ==
    ASSUME NEW m, IsLayer(m), NEW name
    PROVE  /\ U16(Get(m, name)) \in SUBSET (0..U16_MAX)
           /\ U32(Get(m, name)) \in SUBSET (0..U32_MAX)
<1>1. \A t \in Get(m, name) : t.body.is = "number" => t.body.n \in Nat
  BY DEF Get, IsLayer, IsText
<1>2. \A max \in Nat : \A t \in Get(m, name) : ParseNum(t, max) \subseteq 0..max
  BY <1>1 DEF ParseNum
<1>3. U16_MAX \in Nat /\ U32_MAX \in Nat
  BY WidthAssumption
<1>4. QED
  BY <1>2, <1>3 DEF U16, U32

LEMMA FlagsIn ==
    ASSUME NEW ts
    PROVE  /\ IsTcp(ts) \in SUBSET BOOLEAN /\ IsServer(ts) \in SUBSET BOOLEAN
           /\ Flag(ts) \in SUBSET BOOLEAN
  BY DEF IsTcp, IsServer, Flag, StartsWithCi, ParseBool

LEMMA TextsIn ==
    ASSUME NEW m, IsLayer(m), NEW name, NEW host, IsText(host),
           NEW allow \in SUBSET Addrs
    PROVE  /\ IsText(Overlay(Host(Get(m, name)), host))
           /\ Overlay(Peers(Get(m, name)), allow) \in SUBSET Addrs
<1>1. \A t \in Get(m, name) : IsText(t)
  BY DEF Get, IsLayer
<1>2. IsText(Overlay(Host(Get(m, name)), host))
  BY <1>1 DEF Host, Overlay
<1>3. \A s \in Peers(Get(m, name)) : s \in SUBSET Addrs
  BY <1>1 DEF Peers, IsText
<1>4. Overlay(Peers(Get(m, name)), allow) \in SUBSET Addrs
  <2> DEFINE opt == Peers(Get(m, name))
  <2> HIDE DEF opt
  <2>1. opt # {} => (CHOOSE v \in opt : TRUE) \in opt
    OBVIOUS
  <2>2. opt # {} => (CHOOSE v \in opt : TRUE) \in SUBSET Addrs
    BY <1>3, <2>1 DEF opt
  <2>3. Overlay(opt, allow) \in SUBSET Addrs
    BY <2>2 DEF Overlay
  <2>4. QED
    BY <2>3 DEF opt
<1>5. QED
  BY <1>2, <1>4

LEMMA DefaultTyped == CfgTyped(Default)
<1>1. IsText(Text(Address(LOCALHOST)))
  BY ConnectAssumption DEF IsText, Text, Address, ParseIpList
<1>2. QED
  BY <1>1, WidthAssumption DEF CfgTyped, Default

LEMMA ApplyTyped ==
    ASSUME NEW c, CfgTyped(c), NEW m, IsLayer(m)
    PROVE  CfgTyped(ApplyMap(c, m)) /\ CfgTyped(ApplyEnvWith(c, m))
<1>1. ASSUME NEW name, NEW old \in 0..U16_MAX
      PROVE  Overlay(U16(Get(m, name)), old) \in 0..U16_MAX
  BY NumbersIn, OverlayIn
<1>2. ASSUME NEW name, NEW old \in 0..U32_MAX
      PROVE  Overlay(U32(Get(m, name)), old) \in 0..U32_MAX
  BY NumbersIn, OverlayIn
<1>3. ASSUME NEW name, NEW old \in BOOLEAN
      PROVE  /\ Overlay(IsTcp(Get(m, name)), old) \in BOOLEAN
             /\ Overlay(IsServer(Get(m, name)), old) \in BOOLEAN
             /\ Overlay(Flag(Get(m, name)), old) \in BOOLEAN
  BY FlagsIn, OverlayIn
<1>4. ASSUME NEW name
      PROVE  /\ IsText(Overlay(Host(Get(m, name)), c.host))
             /\ Overlay(Peers(Get(m, name)), c.allow) \in SUBSET Addrs
  BY TextsIn DEF CfgTyped
<1>5. CfgTyped(ApplyMap(c, m))
  BY <1>1, <1>2, <1>3, <1>4 DEF CfgTyped, ApplyMap
<1>6. CfgTyped(ApplyEnvWith(c, m))
  BY <1>1, <1>2, <1>3, <1>4 DEF CfgTyped, ApplyEnvWith
<1>7. QED
  BY <1>5, <1>6

\* A file gives texts only.
LEMMA IniIsLayer ==
    ASSUME NEW lines, DOMAIN lines = 1..Len(lines), Len(lines) \in Nat,
           \A j \in DOMAIN lines : lines[j].is = "entry" => IsText(lines[j].text)
    PROVE  IsLayer(ParseIni(lines))
<1> DEFINE at(key) == {i \in DOMAIN lines : lines[i].is = "entry" /\ lines[i].key = key}
           keys == {lines[i].key : i \in {j \in DOMAIN lines : lines[j].is = "entry"}}
<1>1. ParseIni(lines) = [k \in keys |-> [lines[Max(at(k))].text EXCEPT !.lead = FALSE]]
  BY DEF ParseIni
<1>2. ASSUME NEW k \in keys
      PROVE  IsText([lines[Max(at(k))].text EXCEPT !.lead = FALSE])
  <2>1. at(k) # {} /\ at(k) \in SUBSET (1..Len(lines))
    OBVIOUS
  <2>2. Max(at(k)) \in at(k)
    BY <2>1, MaxIs
  <2>3. IsText(lines[Max(at(k))].text)
    BY <2>2
  <2> DEFINE t == lines[Max(at(k))].text
  <2> HIDE DEF t, at
  <2>4. /\ t \in [lead : BOOLEAN, body : {t.body}]
        /\ t.body.is = "number" => t.body.n \in Nat
        /\ t.body.is = "address" => t.body = Address(t.body.a)
        /\ ParseIpList(t) \subseteq Addrs
    BY <2>3 DEF IsText, t
  <2> DEFINE u == [t EXCEPT !.lead = FALSE]
  <2>5. u \in [lead : BOOLEAN, body : {t.body}]
    BY <2>4
  <2> HIDE DEF u
  <2>6. u.body = t.body
    BY <2>5
  <2>7. ParseIpList(u) = ParseIpList(t)
    BY <2>6 DEF ParseIpList
  <2>8. u \in [lead : BOOLEAN, body : {u.body}]
    BY <2>5, <2>6
  <2>9. IsText(u)
    BY <2>4, <2>6, <2>7, <2>8 DEF IsText
  <2>10. QED
    BY <2>9 DEF t, u
<1>3. QED
  BY <1>1, <1>2 DEF IsLayer

LEMMA LoadTyped ==
    ASSUME NEW w \in Worlds \cup EditedWorlds
    PROVE  CfgTyped(Load(w.files, w.env))
<1> DEFINE ini == FindAndParseIni(w.files)
           base == IF ini = {} THEN Default ELSE ApplyMap(Default, CHOOSE m \in ini : TRUE)
<1>1. \A m \in ini : IsLayer(m)
  <2>1. SUFFICES ASSUME NEW m \in ini PROVE IsLayer(m)
    OBVIOUS
  <2>2. PICK i \in DOMAIN w.files : \E lines \in w.files[i] : m = ParseIni(lines)
    BY <2>1 DEF FindAndParseIni
  <2>3. PICK lines \in w.files[i] : m = ParseIni(lines)
    BY <2>2
  <2>4. QED
    BY <2>3, IniIsLayer, WorldAssumption
<1>2. CfgTyped(base)
  <2>1. CASE ini = {}
    BY <2>1, DefaultTyped
  <2>2. CASE ini # {}
    <3>1. (CHOOSE m \in ini : TRUE) \in ini
      BY <2>2
    <3>2. IsLayer(CHOOSE m \in ini : TRUE)
      BY <1>1, <3>1
    <3>3. QED
      BY <2>2, <3>2, DefaultTyped, ApplyTyped
  <2>3. QED
    BY <2>1, <2>2
<1>3. IsLayer(w.env)
  BY WorldAssumption DEF IsLayer
<1>4. Load(w.files, w.env) = ApplyEnvWith(base, w.env)
  BY DEF Load
<1> HIDE DEF base
<1>5. QED
  BY <1>2, <1>3, <1>4, ApplyTyped

-----------------------------------------------------------------------------
(* Which layer a setting comes from. *)

Settings == DOMAIN EnvName

LEMMA MeantIs ==
    ASSUME NEW ts
    PROVE  /\ Meant("host", ts) = Host(ts)
           /\ Meant("port", ts) = U16(ts) /\ Meant("localport", ts) = U16(ts)
           /\ Meant("proto", ts) = IsTcp(ts) /\ Meant("tcprole", ts) = IsServer(ts)
           /\ Meant("log", ts) = LogPath(ts) /\ Meant("channels", ts) = U32(ts)
           /\ Meant("connecttimeout", ts) = U32(ts)
           /\ Meant("accepttimeout", ts) = U32(ts)
           /\ Meant("udpportfallback", ts) = Flag(ts)
           /\ Meant("peercheck", ts) = Flag(ts) /\ Meant("allow", ts) = Peers(ts)
<1>1. Meant("host", ts) = Host(ts)
  BY DEF Meant, Meaning, Host
<1>2. Meant("port", ts) = U16(ts) /\ Meant("localport", ts) = U16(ts)
  BY DEF Meant, Meaning, U16
<1>3. /\ Meant("channels", ts) = U32(ts) /\ Meant("connecttimeout", ts) = U32(ts)
      /\ Meant("accepttimeout", ts) = U32(ts)
  BY DEF Meant, Meaning, U32
<1>4. Meant("proto", ts) = IsTcp(ts) /\ Meant("tcprole", ts) = IsServer(ts)
  BY DEF Meant, Meaning, IsTcp, IsServer
<1>5. Meant("log", ts) = LogPath(ts)
  BY DEF Meant, Meaning, LogPath
<1>6. Meant("udpportfallback", ts) = Flag(ts) /\ Meant("peercheck", ts) = Flag(ts)
  BY DEF Meant, Meaning, Flag
<1>7. Meant("allow", ts) = Peers(ts)
  BY DEF Meant, Meaning, Peers
<1>8. QED
  BY <1>1, <1>2, <1>3, <1>4, <1>5, <1>6, <1>7

\* A layer lies over the weaker ones, in the file as in the environment.
LEMMA LayerIs ==
    ASSUME NEW c, NEW m, NEW k \in Settings
    PROVE  /\ ApplyMap(c, m)[Field[k]] = Overlay(Meant(k, Get(m, k)), c[Field[k]])
           /\ ApplyEnvWith(c, m)[Field[k]]
                  = Overlay(Meant(k, Get(m, EnvName[k])), c[Field[k]])
<1>1. k \in {"host", "port", "localport", "proto", "tcprole", "log", "channels",
             "connecttimeout", "accepttimeout", "udpportfallback", "peercheck", "allow"}
  BY DEF Settings, EnvName
<1>2. CASE k = "host"
  BY <1>2, MeantIs DEF ApplyMap, ApplyEnvWith, Field, EnvName
<1>3. CASE k = "port"
  BY <1>3, MeantIs DEF ApplyMap, ApplyEnvWith, Field, EnvName
<1>4. CASE k = "localport"
  BY <1>4, MeantIs DEF ApplyMap, ApplyEnvWith, Field, EnvName
<1>5. CASE k = "proto"
  BY <1>5, MeantIs DEF ApplyMap, ApplyEnvWith, Field, EnvName
<1>6. CASE k = "tcprole"
  BY <1>6, MeantIs DEF ApplyMap, ApplyEnvWith, Field, EnvName
<1>7. CASE k = "log"
  BY <1>7, MeantIs DEF ApplyMap, ApplyEnvWith, Field, EnvName
<1>8. CASE k = "channels"
  BY <1>8, MeantIs DEF ApplyMap, ApplyEnvWith, Field, EnvName
<1>9. CASE k = "connecttimeout"
  BY <1>9, MeantIs DEF ApplyMap, ApplyEnvWith, Field, EnvName
<1>10. CASE k = "accepttimeout"
  BY <1>10, MeantIs DEF ApplyMap, ApplyEnvWith, Field, EnvName
<1>11. CASE k = "udpportfallback"
  BY <1>11, MeantIs DEF ApplyMap, ApplyEnvWith, Field, EnvName
<1>12. CASE k = "peercheck"
  BY <1>12, MeantIs DEF ApplyMap, ApplyEnvWith, Field, EnvName
<1>13. CASE k = "allow"
  BY <1>13, MeantIs DEF ApplyMap, ApplyEnvWith, Field, EnvName
<1>14. QED
  BY <1>1, <1>2, <1>3, <1>4, <1>5, <1>6, <1>7, <1>8, <1>9, <1>10, <1>11, <1>12,
     <1>13

\* A text means one thing at most.
LEMMA OneMeaning ==
    ASSUME NEW k \in Settings, NEW t, NEW x \in Meaning(k, t), NEW y \in Meaning(k, t)
    PROVE  x = y
  BY DEF Meaning, Host, U16, U32, ParseNum, IsTcp, IsServer, LogPath, Peers, Flag

LEMMA OverlayIs ==
    ASSUME NEW k \in Settings, NEW ts, NEW old, \A t, u \in ts : t = u
    PROVE  {Overlay(Meant(k, ts), old)} = IF Meant(k, ts) # {} THEN Meant(k, ts)
                                          ELSE {old}
<1>1. \A x, y \in Meant(k, ts) : x = y
  <2>1. SUFFICES ASSUME NEW x \in Meant(k, ts), NEW y \in Meant(k, ts) PROVE x = y
    OBVIOUS
  <2>2. PICK t \in ts : x \in Meaning(k, t)
    BY DEF Meant
  <2>3. PICK u \in ts : y \in Meaning(k, u)
    BY DEF Meant
  <2>4. t = u
    OBVIOUS
  <2>5. QED
    BY <2>2, <2>3, <2>4, OneMeaning
<1> DEFINE S == Meant(k, ts)
<1> HIDE DEF S
<1>2. \A x, y \in S : x = y
  BY <1>1 DEF S
<1>3. {Overlay(S, old)} = IF S # {} THEN S ELSE {old}
  <2>1. CASE S = {}
    BY <2>1 DEF Overlay
  <2>2. CASE S # {}
    <3>1. (CHOOSE v \in S : TRUE) \in S
      BY <2>2
    <3>2. S = {CHOOSE v \in S : TRUE}
      BY <1>2, <3>1
    <3>3. QED
      BY <2>2, <3>2 DEF Overlay
  <2>3. QED
    BY <2>1, <2>2
<1>4. QED
  BY <1>3 DEF S

\* The text of the last line for k of the file that is used.
LEMMA FileIs ==
    ASSUME world \in Worlds \cup EditedWorlds, NEW k \in Settings
    PROVE  FromFile(k) = LET ini == FindAndParseIni(world.files)
                         IN  IF ini = {} THEN {} ELSE Get(CHOOSE m \in ini : TRUE, k)
<1> DEFINE files == world.files
           readable == {i \in DOMAIN files : files[i] # {}}
           first == {i \in readable : \A j \in readable : i <= j}
           ini == FindAndParseIni(files)
           l == CHOOSE l \in files[Min(readable)] : TRUE
           at == {j \in DOMAIN l : l[j].is = "entry" /\ l[j].key = k}
<1>1. DOMAIN files = 1..3
  BY WorldAssumption
<1>2. ini = {ParseIni(lines) : lines \in UNION {files[i] : i \in first}}
  BY DEF FindAndParseIni
<1>3. FromFile(k) = IF readable = {} \/ at = {} THEN {}
                    ELSE {[l[Max(at)].text EXCEPT !.lead = FALSE]}
  BY DEF FromFile
<1>4. CASE readable = {}
  <2>1. first = {}
    BY <1>4
  <2>2. ini = {}
    BY <1>2, <2>1
  <2>3. QED
    BY <1>3, <1>4, <2>2
<1>5. CASE readable # {}
  <2>1. PICK n : n = Min(readable)
    OBVIOUS
  <2>2. readable \in SUBSET Nat
    BY <1>1
  <2>3. n \in readable /\ \A j \in readable : n <= j
    BY <1>5, <2>1, <2>2, MinIs
  <2>4. first = {n}
    <3>1. \A i \in readable : (\A j \in readable : i <= j) => i = n
      BY <2>2, <2>3
    <3>2. QED
      BY <2>3, <3>1
  <2>5. files[n] # {} /\ n \in 1..3
    BY <1>1, <2>3
  <2>6. PICK lines \in files[n] : files[n] = {lines}
    BY <2>5, WorldAssumption
  <2>7. l = lines
    BY <2>1, <2>6
  <2>8. ini = {ParseIni(lines)}
    BY <1>2, <2>4, <2>6
  <2> HIDE DEF ini, first, readable
  <2>9. ini # {} /\ (CHOOSE m \in ini : TRUE) = ParseIni(lines)
    BY <2>8
  <2> DEFINE keys == {l[i].key : i \in {j \in DOMAIN l : l[j].is = "entry"}}
  <2>10. /\ DOMAIN ParseIni(l) = keys
         /\ k \in keys => ParseIni(l)[k] = [l[Max(at)].text EXCEPT !.lead = FALSE]
    <3> HIDE DEF l
    <3>1. ParseIni(l) = [x \in keys |->
             [l[Max({i \in DOMAIN l : l[i].is = "entry" /\ l[i].key = x})].text
                  EXCEPT !.lead = FALSE]]
      BY DEF ParseIni
    <3>2. QED
      BY <3>1
  <2>11. k \in keys <=> at # {}
    OBVIOUS
  <2> HIDE DEF keys, at, l
  <2>12. Get(ParseIni(l), k) = IF at = {} THEN {}
                               ELSE {[l[Max(at)].text EXCEPT !.lead = FALSE]}
    BY <2>10, <2>11 DEF Get
  <2>13. QED
    BY <1>3, <1>5, <2>7, <2>9, <2>12 DEF ini
<1>6. QED
  BY <1>4, <1>5

\* What is loaded comes from the strongest layer that gives it a meaning.
LEMMA LoadLayered ==
    ASSUME world \in Worlds \cup EditedWorlds, NEW k \in Settings
    PROVE  {Load(world.files, world.env)[Field[k]]}
               = IF Meant(k, FromEnv(k)) # {} THEN Meant(k, FromEnv(k))
                 ELSE IF Meant(k, FromFile(k)) # {} THEN Meant(k, FromFile(k))
                 ELSE {Default[Field[k]]}
<1> DEFINE ini == FindAndParseIni(world.files)
           m == CHOOSE m \in ini : TRUE
           base == IF ini = {} THEN Default ELSE ApplyMap(Default, m)
<1>1. Load(world.files, world.env) = ApplyEnvWith(base, world.env)
  BY DEF Load
<1>2. FromEnv(k) = Get(world.env, EnvName[k])
  BY DEF FromEnv, Get
<1>3. FromFile(k) = IF ini = {} THEN {} ELSE Get(m, k)
  BY FileIs
<1>4. Meant(k, {}) = {}
  BY DEF Meant
<1>5. {base[Field[k]]} = IF Meant(k, FromFile(k)) # {} THEN Meant(k, FromFile(k))
                         ELSE {Default[Field[k]]}
  <2>1. CASE ini = {}
    BY <1>3, <1>4, <2>1
  <2>2. CASE ini # {}
    <3>1. base = ApplyMap(Default, m) /\ FromFile(k) = Get(m, k)
      BY <1>3, <2>2
    <3> HIDE DEF base, m
    <3>2. \A t, u \in Get(m, k) : t = u
      BY DEF Get
    <3>3. base[Field[k]] = Overlay(Meant(k, Get(m, k)), Default[Field[k]])
      BY <3>1, LayerIs
    <3>4. QED
      BY <3>1, <3>2, <3>3, OverlayIs
  <2>3. QED
    BY <2>1, <2>2
<1> HIDE DEF base
<1>6. ApplyEnvWith(base, world.env)[Field[k]]
        = Overlay(Meant(k, FromEnv(k)), base[Field[k]])
  BY <1>2, LayerIs
<1>7. \A t, u \in FromEnv(k) : t = u
  BY DEF FromEnv
<1>8. {Overlay(Meant(k, FromEnv(k)), base[Field[k]])}
        = IF Meant(k, FromEnv(k)) # {} THEN Meant(k, FromEnv(k))
          ELSE {base[Field[k]]}
  BY <1>7, OverlayIs
<1>9. QED
  BY <1>1, <1>5, <1>6, <1>8

-----------------------------------------------------------------------------
(* The inductive invariant. *)

Fates == {"waiting", "refused", "accepted", "dropped"}
Client == [ip : Addrs, fate : Fates]

Types ==
    /\ world \in Worlds \cup EditedWorlds
    /\ CfgTyped(cfg)
    /\ clients \in Seq(Client)
    /\ waited \in Nat /\ elapsed \in Nat /\ got \in Nat

\* The way through connect: the transport and the role that lead to each place,
\* and what has not begun yet.
Route ==
    /\ pc \in {"idle", "bind", "listen", "accept", "dial", "handshake", "open"}
    /\ pc \in {"listen", "accept"} => cfg.tcp /\ cfg.tcp_server
    /\ pc = "dial" => cfg.tcp /\ ~cfg.tcp_server
    /\ pc = "handshake" => cfg.tcp /\ got < BannerParts
    /\ pc = "bind" => ~cfg.tcp
    /\ pc \in {"bind", "listen", "dial"} => elapsed = 0 /\ waited = 0
    /\ pc \in {"listen", "accept", "dial"} => got = 0
    /\ pc = "listen" => clients = <<>>

\* The time that getting to the handshake takes at most.
Before == IF cfg.tcp_server THEN cfg.accept_timeout + 2 ELSE cfg.connect_timeout

Clock ==
    /\ pc = "accept" => elapsed = waited /\ waited <= cfg.accept_timeout + 1
    /\ pc = "handshake" => elapsed <= Before + got * cfg.connect_timeout
    /\ OpenBounded

\* The clients of a listener: those before the first that waits were refused, and
\* none that was allowed.
Queue ==
    pc = "accept" =>
        \A i \in 1..Len(clients) :
            /\ clients[i].fate \in {"waiting", "refused"}
            /\ clients[i].fate = "refused" => /\ ~PeerAllowed(clients[i].ip, cfg)
                                             /\ \A j \in 1..(i - 1) :
                                                   clients[j].fate = "refused"

\* The client that was taken.
Taken(i) ==
    /\ clients[i].fate = "accepted"
    /\ \A j \in 1..Len(clients) :
          /\ j < i => /\ clients[j].fate = "refused"
                      /\ cfg.peer_check
                      /\ clients[j].ip # clients[i].ip
          /\ j > i => clients[j].fate = "dropped"

Tunnel ==
    /\ pc = "open" /\ cfg.tcp => got = BannerParts /\ right
    /\ pc \in {"handshake", "open"} /\ cfg.tcp /\ cfg.tcp_server =>
          \E i \in 1..Len(clients) : Taken(i)

\* Data or a connection was taken only from addresses that the peer check lets in.
HeardAllowed == \A a \in heard : PeerAllowed(a, cfg)

\* What canGetNumberOfChannels has read, and what it has answered.
Counted == /\ memo \in SUBSET (0..U32_MAX)
           /\ count \in SUBSET (0..I32_MAX)

IInv == Types /\ Route /\ Clock /\ Queue /\ Tunnel /\ HeardAllowed /\ Counted

-----------------------------------------------------------------------------
(* Time. *)

LEMMA Times ==
    ASSUME NEW g \in Nat, NEW n \in Nat, g < n, NEW c \in Nat
    PROVE  /\ g * c \in Nat /\ n * c \in Nat
           /\ (g + 1) * c = g * c + c
           /\ g * c + c <= n * c
<1>1. g * c \in Nat /\ n * c \in Nat /\ (g + 1) * c = g * c + c
  OBVIOUS
<1>2. (n - (g + 1)) * c >= 0
  <2>1. n - (g + 1) \in Nat
    OBVIOUS
  <2> DEFINE d == n - (g + 1)
  <2> HIDE DEF d
  <2>2. d * c \in Nat
    BY <2>1 DEF d
  <2>3. QED
    BY <2>2 DEF d
<1>3. (n - (g + 1)) * c = n * c - (g * c + c)
  OBVIOUS
<1>4. QED
  BY <1>1, <1>2, <1>3

LEMMA Timeouts ==
    ASSUME CfgTyped(cfg)
    PROVE  /\ cfg.connect_timeout \in Nat /\ cfg.accept_timeout \in Nat
           /\ BannerParts \in Nat \ {0} /\ Before \in Nat
           /\ BannerParts * cfg.connect_timeout \in Nat
           /\ Before + BannerParts * cfg.connect_timeout \in Nat
<1>1. /\ cfg.connect_timeout \in Nat /\ cfg.accept_timeout \in Nat
      /\ BannerParts \in Nat \ {0}
  BY WidthAssumption, ConnectAssumption DEF CfgTyped
<1>2. Before \in Nat
  BY <1>1 DEF Before
<1>3. BannerParts * cfg.connect_timeout \in Nat
  BY <1>1
<1>4. QED
  BY <1>1, <1>2, <1>3

\* The bound, in terms of what precedes the handshake.
LEMMA BoundIs ==
    OpenBounded <=> elapsed <= IF ~cfg.tcp THEN 0
                               ELSE Before + BannerParts * cfg.connect_timeout
  BY DEF OpenBounded, Before

\* Nothing has begun.
LEMMA ResetKeeps ==
    ASSUME Reset, CfgTyped(cfg')
    PROVE  /\ clients' \in Seq(Client) /\ waited' \in Nat /\ elapsed' \in Nat
           /\ got' \in Nat /\ OpenBounded' /\ HeardAllowed'
           /\ clients' = <<>> /\ waited' = 0 /\ elapsed' = 0 /\ got' = 0
<1>1. clients' = <<>> /\ waited' = 0 /\ elapsed' = 0 /\ got' = 0 /\ heard' = {}
  BY DEF Reset
<1>2. /\ cfg'.connect_timeout \in Nat /\ cfg'.accept_timeout \in Nat
      /\ BannerParts \in Nat
  BY WidthAssumption, ConnectAssumption DEF CfgTyped
<1>3. BannerParts * cfg'.connect_timeout \in Nat
  BY <1>2
<1>4. OpenBounded'
  BY <1>1, <1>2, <1>3 DEF OpenBounded
<1>5. QED
  BY <1>1, <1>4 DEF HeardAllowed

\* connect returns an error.
LEMMA FailKeeps ==
    ASSUME IInv, Fail, clients' \in Seq(Client), waited' \in Nat, elapsed' \in Nat,
           got' \in Nat, heard' = heard, OpenBounded'
    PROVE  IInv'
<1>1. pc' = "idle" /\ UNCHANGED <<world, cfg, memo, count>>
  BY DEF Fail, enumVars
<1>2. Types' /\ Counted'
  BY <1>1 DEF IInv, Types, Counted
<1>3. Route' /\ Queue' /\ Tunnel'
  BY <1>1 DEF Route, Queue, Tunnel
<1>4. Clock'
  BY <1>1 DEF Clock
<1>5. HeardAllowed'
  BY <1>1 DEF IInv, HeardAllowed, PeerAllowed, EffectiveAllow, HostIp
<1>6. QED
  BY <1>2, <1>3, <1>4, <1>5 DEF IInv

\* The bound stands while the time does.
LEMMA BoundStays ==
    ASSUME OpenBounded, UNCHANGED <<cfg, elapsed>>
    PROVE  OpenBounded'
  BY DEF OpenBounded

-----------------------------------------------------------------------------
(* The steps. *)

LEMMA OutsideSteps ==
    ASSUME IInv,
           \/ Reconfigure \/ OpenChannel \/ Close \/ NumberOfChannels \/ UNCHANGED vars
    PROVE  IInv'
<1>0. Types /\ Route /\ Clock /\ Queue /\ Tunnel /\ HeardAllowed /\ Counted
  BY DEF IInv
<1>1. CASE Reconfigure
  <2>1. /\ pc' = "idle" /\ world' \in Worlds \cup EditedWorlds /\ CfgTyped(cfg')
        /\ Reset /\ UNCHANGED <<memo, count>>
    BY <1>0, <1>1, DefaultTyped DEF Reconfigure, enumVars
  <2>2. Types' /\ Clock' /\ HeardAllowed' /\ Counted'
    BY <1>0, <2>1, ResetKeeps DEF Types, Clock, Counted
  <2>3. Route' /\ Queue' /\ Tunnel'
    BY <2>1 DEF Route, Queue, Tunnel
  <2>4. QED
    BY <2>2, <2>3 DEF IInv
<1>2. CASE OpenChannel
  <2>1. /\ UNCHANGED <<world, memo, count>> /\ Reset
        /\ cfg' = Load(world.files, world.env)
        /\ \/ pc' = "idle"
           \/ pc' = IF ~cfg'.tcp THEN "bind" ELSE IF cfg'.tcp_server THEN "listen" ELSE "dial"
    BY <1>2 DEF OpenChannel, enumVars
  <2>2. CfgTyped(cfg')
    BY <1>0, <2>1, LoadTyped DEF Types
  <2>3. pc' \notin {"accept", "handshake", "open"}
    BY <2>1
  <2>4. Types' /\ Clock' /\ HeardAllowed' /\ Counted'
    BY <1>0, <2>1, <2>2, <2>3, ResetKeeps DEF Types, Clock, Counted
  <2>5. Queue' /\ Tunnel'
    BY <2>3 DEF Queue, Tunnel
  <2>6. cfg'.tcp \in BOOLEAN /\ cfg'.tcp_server \in BOOLEAN
    BY <2>2 DEF CfgTyped
  <2>7. Route'
    BY <2>1, <2>2, <2>3, <2>6, ResetKeeps DEF Route
  <2>8. QED
    BY <2>4, <2>5, <2>7 DEF IInv
<1>3. CASE Close
  <2>1. /\ pc' = "idle" /\ UNCHANGED <<world, memo, count>> /\ CfgTyped(cfg') /\ Reset
    BY <1>3, DefaultTyped DEF Close, enumVars
  <2>2. Types' /\ Clock' /\ HeardAllowed' /\ Counted'
    BY <1>0, <2>1, ResetKeeps DEF Types, Clock, Counted
  <2>3. Route' /\ Queue' /\ Tunnel'
    BY <2>1 DEF Route, Queue, Tunnel
  <2>4. QED
    BY <2>2, <2>3 DEF IInv
<1>4. CASE UNCHANGED <<world, cfg, pc, result, netVars>>
  <2>1. UNCHANGED <<world, cfg, pc, clients, waited, elapsed, got, right, heard>>
    BY <1>4 DEF netVars
  <2>2. Types' /\ Route' /\ Clock' /\ HeardAllowed'
    BY <1>0, <2>1, BoundStays
    DEF Types, Route, Clock, HeardAllowed, PeerAllowed, EffectiveAllow, HostIp, Before
  <2>3. Queue' /\ Tunnel'
    BY <1>0, <2>1 DEF Queue, Tunnel, Taken, PeerAllowed, EffectiveAllow, HostIp
  <2>4. Counted'
    <3>1. CASE NumberOfChannels
      <4>1. Load(world.files, world.env).channels \in 0..U32_MAX
        BY <1>0, LoadTyped DEF Types, CfgTyped
      <4>2. memo' \in SUBSET (0..U32_MAX)
        BY <1>0, <3>1, <4>1 DEF NumberOfChannels, ChannelsMemo, Counted
      <4>3. \A n \in memo' : (IF n > I32_MAX THEN I32_MAX ELSE n) \in 0..I32_MAX
        BY <4>2, WidthAssumption
      <4>4. QED
        BY <3>1, <4>2, <4>3 DEF NumberOfChannels, Counted
    <3>2. CASE UNCHANGED <<memo, count>>
      BY <1>0, <3>2 DEF Counted
    <3>3. QED
      BY <3>1, <3>2
      DEF vars, enumVars, Reconfigure, OpenChannel, Close
  <2>5. QED
    BY <2>2, <2>3, <2>4 DEF IInv
<1>5. QED
  BY <1>1, <1>2, <1>3, <1>4 DEF NumberOfChannels, vars

\* Steps that leave the clients and the time alone.
LEMMA QuietSteps ==
    ASSUME IInv,
           BindUdp \/ BindFails \/ Listen \/ AcceptFails \/ Datagram
    PROVE  IInv'
<1>0. Types /\ Route /\ Clock /\ Queue /\ Tunnel /\ HeardAllowed /\ Counted
  BY DEF IInv
<1>1. UNCHANGED <<world, cfg, clients, waited, elapsed, got, right, memo, count>>
  BY DEF BindUdp, BindFails, Listen, AcceptFails, Datagram, Fail, enumVars
<1>2. Types' /\ Counted' /\ OpenBounded'
  BY <1>0, <1>1, BoundStays DEF Types, Counted, Clock
<1>3. CASE BindFails \/ AcceptFails
  <2>1. Fail /\ heard' = heard
    BY <1>3 DEF BindFails, AcceptFails
  <2>2. QED
    BY <1>0, <1>1, <1>2, <2>1, FailKeeps DEF Types
<1>4. CASE BindUdp
  <2>1. pc' = "open" /\ ~cfg.tcp /\ heard' = heard
    BY <1>0, <1>4 DEF BindUdp, Route
  <2>2. Route' /\ Queue' /\ Tunnel' /\ Clock'
    BY <1>1, <1>2, <2>1 DEF Route, Queue, Tunnel, Clock
  <2>3. HeardAllowed'
    BY <1>0, <1>1, <2>1 DEF HeardAllowed, PeerAllowed, EffectiveAllow, HostIp
  <2>4. QED
    BY <1>2, <2>2, <2>3 DEF IInv
<1>5. CASE Listen
  <2>1. /\ pc' = "accept" /\ cfg.tcp /\ cfg.tcp_server /\ heard' = heard
        /\ elapsed = 0 /\ waited = 0 /\ got = 0 /\ clients = <<>>
    BY <1>0, <1>5 DEF Listen, Route
  <2>2. cfg.accept_timeout \in Nat
    BY <1>0, Timeouts DEF Types
  <2>3. Route' /\ Tunnel'
    BY <1>1, <2>1 DEF Route, Tunnel
  <2>4. Queue'
    BY <1>1, <2>1 DEF Queue
  <2>5. Clock'
    BY <1>1, <1>2, <2>1, <2>2 DEF Clock
  <2>6. HeardAllowed'
    BY <1>0, <1>1, <2>1 DEF HeardAllowed, PeerAllowed, EffectiveAllow, HostIp
  <2>7. QED
    BY <1>2, <2>3, <2>4, <2>5, <2>6 DEF IInv
<1>6. CASE Datagram
  <2>1. pc = "open" /\ pc' = "open" /\ ~cfg.tcp
    BY <1>6 DEF Datagram
  <2>2. Route' /\ Queue' /\ Tunnel' /\ Clock'
    BY <1>1, <1>2, <2>1 DEF Route, Queue, Tunnel, Clock
  <2>3. HeardAllowed'
    BY <1>0, <1>1, <1>6
    DEF Datagram, HeardAllowed, PeerAllowed, EffectiveAllow, HostIp
  <2>4. QED
    BY <1>2, <2>2, <2>3 DEF IInv
<1>7. QED
  BY <1>3, <1>4, <1>5, <1>6

\* The oldest client that waits: those before it were refused.
LEMMA Oldest ==
    ASSUME IInv, pc = "accept", Waiting # {}
    PROVE  /\ Min(Waiting) \in 1..Len(clients)
           /\ clients[Min(Waiting)].fate = "waiting"
           /\ \A j \in 1..(Min(Waiting) - 1) :
                 j \in 1..Len(clients) /\ clients[j].fate = "refused"
<1>1. /\ clients \in Seq(Client) /\ Len(clients) \in Nat
      /\ DOMAIN clients = 1..Len(clients)
  BY DEF IInv, Types
<1>2. Waiting \in SUBSET Nat
  BY <1>1 DEF Waiting
<1>3. Min(Waiting) \in Waiting /\ \A k \in Waiting : Min(Waiting) <= k
  BY <1>2, MinIs
<1> DEFINE m == Min(Waiting)
<1> HIDE DEF m
<1>4. m \in 1..Len(clients) /\ clients[m].fate = "waiting"
      /\ \A k \in 1..Len(clients) : clients[k].fate = "waiting" => m <= k
  BY <1>1, <1>3 DEF Waiting, m
<1>5. \A j \in 1..(m - 1) : j \in 1..Len(clients) /\ ~(m <= j)
  BY <1>1, <1>4
<1>6. \A j \in 1..(m - 1) : clients[j].fate = "refused"
  BY <1>4, <1>5 DEF IInv, Queue
<1>7. QED
  BY <1>4, <1>5, <1>6 DEF m

LEMMA ArrivesStep == ASSUME IInv, ClientArrives PROVE IInv'
<1>0. /\ Types /\ Route /\ Clock /\ Queue /\ Tunnel /\ HeardAllowed /\ Counted
      /\ clients \in Seq(Client) /\ Len(clients) \in Nat
  BY DEF IInv, Types
<1>1. /\ pc = "accept"
      /\ UNCHANGED <<world, cfg, pc, waited, elapsed, got, right, heard, memo, count>>
  BY DEF ClientArrives, enumVars
<1>2. PICK ip \in Addrs :
        clients' = Append(clients, [ip |-> ip, fate |-> "waiting"])
  BY ConnectAssumption DEF ClientArrives, WildcardFor
<1> DEFINE new == [ip |-> ip, fate |-> "waiting"]
<1>3. new \in Client /\ new.fate = "waiting"
  BY DEF Client, Fates
<1> HIDE DEF new
<1>4. /\ clients' \in Seq(Client) /\ Len(clients') = Len(clients) + 1
      /\ \A i \in 1..Len(clients) : clients'[i] = clients[i]
      /\ clients'[Len(clients) + 1] = new
  BY <1>0, <1>2, <1>3 DEF new
<1>5. Types' /\ Counted'
  BY <1>0, <1>1, <1>4 DEF Types, Counted
<1>6. Route' /\ Clock' /\ Tunnel' /\ HeardAllowed'
  BY <1>0, <1>1, BoundStays
  DEF Route, Clock, Tunnel, HeardAllowed, PeerAllowed, EffectiveAllow, HostIp
<1>7. Queue'
  <2>1. SUFFICES ASSUME NEW i \in 1..Len(clients')
                 PROVE  /\ clients'[i].fate \in {"waiting", "refused"}
                        /\ clients'[i].fate = "refused" =>
                             /\ ~PeerAllowed(clients'[i].ip, cfg)
                             /\ \A j \in 1..(i - 1) : clients'[j].fate = "refused"
    BY <1>1 DEF Queue, PeerAllowed, EffectiveAllow, HostIp
  <2>2. CASE i = Len(clients) + 1
    BY <1>3, <1>4, <2>2
  <2>3. CASE i \in 1..Len(clients)
    <3>1. \A j \in 1..(i - 1) : j \in 1..Len(clients)
      BY <1>0, <2>3
    <3>2. QED
      BY <1>0, <1>1, <1>4, <2>3, <3>1 DEF Queue
  <2>4. QED
    BY <1>0, <1>4, <2>2, <2>3
<1>8. QED
  BY <1>5, <1>6, <1>7 DEF IInv

\* A client's fate changes, and nothing else of it.
LEMMA FateChanges ==
    ASSUME NEW c \in Client, NEW f \in Fates
    PROVE  /\ [c EXCEPT !.fate = f] \in Client
           /\ [c EXCEPT !.fate = f].fate = f
           /\ [c EXCEPT !.fate = f].ip = c.ip
  BY DEF Client

LEMMA AcceptStep == ASSUME IInv, Accept PROVE IInv'
<1>0. /\ Types /\ Route /\ Clock /\ Queue /\ Tunnel /\ HeardAllowed /\ Counted
      /\ clients \in Seq(Client) /\ Len(clients) \in Nat
      /\ DOMAIN clients = 1..Len(clients)
  BY DEF IInv, Types
<1>a. PICK i : i = Min(Waiting)
  OBVIOUS
<1>1. /\ pc = "accept" /\ pc' = "handshake" /\ PeerAllowed(clients[i].ip, cfg)
      /\ clients' = [j \in DOMAIN clients |->
                       IF j = i THEN [clients[j] EXCEPT !.fate = "accepted"]
                       ELSE IF j > i THEN [clients[j] EXCEPT !.fate = "dropped"]
                       ELSE clients[j]]
      /\ heard' = {clients[i].ip}
      /\ UNCHANGED <<world, cfg, waited, elapsed, got, right, memo, count>>
  BY <1>a DEF Accept, enumVars
<1>2. /\ i \in 1..Len(clients)
      /\ \A j \in 1..(i - 1) : j \in 1..Len(clients) /\ clients[j].fate = "refused"
  BY <1>1, <1>a, Oldest DEF Accept
<1>3. "accepted" \in Fates /\ "dropped" \in Fates
  BY DEF Fates
<1>4. clients' \in [1..Len(clients) -> Client]
  <2>1. \A j \in 1..Len(clients) : clients[j] \in Client
    BY <1>0
  <2>2. QED
    BY <1>0, <1>1, <1>3, <2>1, FateChanges
<1>5. clients' \in Seq(Client) /\ Len(clients') = Len(clients)
  <2>1. clients' \in Seq(Client)
    BY <1>0, <1>4, SeqDef
  <2>2. DOMAIN clients' = 1..Len(clients)
    BY <1>4
  <2>3. QED
    BY <1>0, <2>1, <2>2, LenProperties
<1>6. /\ clients'[i].fate = "accepted" /\ clients'[i].ip = clients[i].ip
      /\ \A j \in 1..Len(clients) : /\ j > i => clients'[j].fate = "dropped"
                                    /\ j < i => clients'[j] = clients[j]
  <2>1. \A j \in 1..Len(clients) : clients[j] \in Client
    BY <1>0
  <2>2. \A j \in 1..Len(clients) :
          clients'[j] = IF j = i THEN [clients[j] EXCEPT !.fate = "accepted"]
                        ELSE IF j > i THEN [clients[j] EXCEPT !.fate = "dropped"]
                        ELSE clients[j]
    BY <1>0, <1>1
  <2>3. clients'[i].fate = "accepted" /\ clients'[i].ip = clients[i].ip
    <3>1. clients'[i] = [clients[i] EXCEPT !.fate = "accepted"]
      BY <1>2, <2>2
    <3>2. QED
      BY <1>2, <1>3, <2>1, <3>1, FateChanges
  <2>4. ASSUME NEW j \in 1..Len(clients), j > i PROVE clients'[j].fate = "dropped"
    <3>0. j # i
      BY <1>2, <2>4
    <3>1. clients'[j] = [clients[j] EXCEPT !.fate = "dropped"]
      BY <2>2, <2>4, <3>0
    <3>2. QED
      BY <1>3, <2>1, <3>1, FateChanges
  <2>5. ASSUME NEW j \in 1..Len(clients), j < i PROVE clients'[j] = clients[j]
    <3>1. j # i /\ ~(j > i)
      BY <1>2, <2>5
    <3>2. QED
      BY <2>2, <3>1
  <2>6. QED
    BY <2>3, <2>4, <2>5
<1>7. cfg.tcp /\ cfg.tcp_server /\ got = 0
  BY <1>0, <1>1 DEF Route
<1>8. Taken(i)'
  <2>1. ASSUME NEW j \in 1..Len(clients), j < i
        PROVE  /\ clients'[j].fate = "refused" /\ cfg'.peer_check
               /\ clients'[j].ip # clients'[i].ip
    <3>1. j \in 1..(i - 1)
      BY <1>2, <2>1
    <3>2. clients[j].fate = "refused" /\ ~PeerAllowed(clients[j].ip, cfg)
      BY <1>0, <1>1, <1>2, <3>1 DEF Queue
    <3>3. QED
      BY <1>1, <1>6, <2>1, <3>2 DEF PeerAllowed
  <2>2. \A j \in 1..Len(clients') :
          /\ j < i => /\ clients'[j].fate = "refused"
                      /\ cfg'.peer_check
                      /\ clients'[j].ip # clients'[i].ip
          /\ j > i => clients'[j].fate = "dropped"
    BY <1>5, <1>6, <2>1
  <2>3. QED
    BY <1>6, <2>2 DEF Taken
<1>9. Types' /\ Counted'
  BY <1>0, <1>1, <1>5 DEF Types, Counted
<1>10. Route'
  BY <1>1, <1>7, ConnectAssumption DEF Route
<1>11. Queue' /\ Tunnel'
  <2>1. \E k \in 1..Len(clients') : Taken(k)'
    BY <1>2, <1>5, <1>8
  <2>2. QED
    BY <1>1, <2>1 DEF Queue, Tunnel
<1>12. HeardAllowed'
  BY <1>1 DEF HeardAllowed, PeerAllowed, EffectiveAllow, HostIp
<1>13. Clock'
  <2>1. /\ cfg.connect_timeout \in Nat /\ cfg.accept_timeout \in Nat
    BY <1>0, Timeouts DEF Types
  <2>2. got * cfg.connect_timeout = 0
    BY <1>7, <2>1
  <2>3. /\ elapsed = waited /\ waited <= cfg.accept_timeout + 1 /\ waited \in Nat
    BY <1>0, <1>1 DEF Clock, Types
  <2>4. elapsed <= cfg.accept_timeout + 2 + 0
    BY <2>1, <2>3
  <2>5. OpenBounded'
    BY <1>0, <1>1, BoundStays DEF Clock
  <2>6. QED
    BY <1>1, <1>7, <2>2, <2>4, <2>5 DEF Clock, Before
<1>14. QED
  BY <1>9, <1>10, <1>11, <1>12, <1>13 DEF IInv


LEMMA RefuseStep == ASSUME IInv, Refuse PROVE IInv'
<1>0. /\ Types /\ Route /\ Clock /\ Queue /\ Tunnel /\ HeardAllowed /\ Counted
      /\ clients \in Seq(Client) /\ Len(clients) \in Nat
      /\ DOMAIN clients = 1..Len(clients)
  BY DEF IInv, Types
<1>a. PICK i : i = Min(Waiting)
  OBVIOUS
<1>1. /\ pc = "accept" /\ ~PeerAllowed(clients[i].ip, cfg)
      /\ clients' = [clients EXCEPT ![i].fate = "refused"]
      /\ UNCHANGED <<got, right, heard>>
  BY <1>a DEF Refuse
<1>2. /\ i \in 1..Len(clients)
      /\ \A j \in 1..(i - 1) : j \in 1..Len(clients) /\ clients[j].fate = "refused"
  BY <1>1, <1>a, Oldest DEF Refuse
<1>3. PICK d \in 0..1 : waited' = waited + d /\ elapsed' = elapsed + d
  BY DEF Refuse, Pass
<1>4. clients[i] \in Client /\ "refused" \in Fates
  BY <1>0, <1>2 DEF Fates
<1>5. clients' = [clients EXCEPT ![i] = [clients[i] EXCEPT !.fate = "refused"]]
  BY <1>0, <1>1, <1>2
<1> DEFINE new == [clients[i] EXCEPT !.fate = "refused"]
<1>6. new \in Client /\ new.fate = "refused" /\ new.ip = clients[i].ip
  BY <1>4, FateChanges
<1> HIDE DEF new
<1>7. /\ clients' \in Seq(Client) /\ Len(clients') = Len(clients)
      /\ clients'[i] = new
      /\ \A j \in 1..Len(clients) : j # i => clients'[j] = clients[j]
  BY <1>0, <1>2, <1>5, <1>6 DEF new
<1>8. /\ cfg.tcp /\ cfg.tcp_server /\ waited' \in Nat /\ elapsed' = waited'
      /\ got' \in Nat /\ cfg.accept_timeout \in Nat
      /\ waited' <= cfg.accept_timeout + 2
  <2>1. /\ elapsed = waited /\ waited <= cfg.accept_timeout + 1 /\ waited \in Nat
        /\ got \in Nat /\ cfg.accept_timeout \in Nat
    BY <1>0, <1>1, Timeouts DEF Clock, Types
  <2>2. cfg.tcp /\ cfg.tcp_server
    BY <1>0, <1>1 DEF Route
  <2>3. QED
    BY <1>1, <1>3, <2>1, <2>2
<1>9. cfg' = cfg
  BY DEF Refuse, Fail
<1>10. OpenBounded'
  <2>1. /\ cfg.connect_timeout \in Nat /\ BannerParts * cfg.connect_timeout \in Nat
    BY <1>0, Timeouts DEF Types
  <2>2. elapsed' <= (cfg.accept_timeout + 2) + BannerParts * cfg.connect_timeout
    BY <1>8, <2>1
  <2>3. QED
    BY <1>8, <1>9, <2>2 DEF OpenBounded
<1>11. CASE Fail
  BY <1>1, <1>7, <1>8, <1>10, <1>11, FailKeeps
<1>12. CASE MayGoOn(waited') /\ UNCHANGED <<world, cfg, pc, result, bound, enumVars>>
  <2>1. UNCHANGED <<world, cfg, pc, memo, count>> /\ waited' <= cfg.accept_timeout
    BY <1>12, <1>9 DEF MayGoOn, enumVars
  <2>2. Types' /\ Counted'
    BY <1>0, <1>7, <1>8, <2>1 DEF Types, Counted
  <2>3. Route' /\ Tunnel'
    BY <1>0, <1>1, <2>1 DEF Route, Tunnel
  <2>4. HeardAllowed'
    BY <1>0, <1>1, <2>1 DEF HeardAllowed, PeerAllowed, EffectiveAllow, HostIp
  <2>5. Clock'
    BY <1>1, <1>8, <1>10, <2>1 DEF Clock
  <2>6. Queue'
    <3>1. SUFFICES ASSUME NEW k \in 1..Len(clients)
                   PROVE  /\ clients'[k].fate \in {"waiting", "refused"}
                          /\ clients'[k].fate = "refused" =>
                               /\ ~PeerAllowed(clients'[k].ip, cfg)
                               /\ \A j \in 1..(k - 1) : clients'[j].fate = "refused"
      BY <1>1, <1>7, <2>1 DEF Queue, PeerAllowed, EffectiveAllow, HostIp
    <3>2. \A j \in 1..Len(clients) :
             clients[j].fate = "refused" => clients'[j].fate = "refused"
      BY <1>6, <1>7
    <3>3. CASE k = i
      <4>1. \A j \in 1..(i - 1) : clients'[j].fate = "refused"
        BY <1>2, <3>2
      <4>2. QED
        BY <1>1, <1>6, <1>7, <3>3, <4>1
    <3>4. CASE k # i
      <4>1. \A j \in 1..(k - 1) : j \in 1..Len(clients)
        BY <1>0
      <4>2. QED
        BY <1>0, <1>1, <1>7, <3>2, <3>4, <4>1 DEF Queue
    <3>5. QED
      BY <3>3, <3>4
  <2>7. QED
    BY <2>2, <2>3, <2>4, <2>5, <2>6 DEF IInv
<1>13. QED
  BY <1>11, <1>12 DEF Refuse

LEMMA PollStep == ASSUME IInv, Poll PROVE IInv'
<1>0. Types /\ Route /\ Clock /\ Queue /\ Tunnel /\ HeardAllowed /\ Counted
  BY DEF IInv
<1>1. /\ pc = "accept" /\ UNCHANGED <<cfg, clients, got, right, heard>>
  BY DEF Poll, Fail
<1>2. /\ elapsed = waited /\ waited <= cfg.accept_timeout + 1 /\ waited \in Nat
      /\ cfg.accept_timeout \in Nat /\ cfg.connect_timeout \in Nat
      /\ BannerParts * cfg.connect_timeout \in Nat
      /\ cfg.tcp /\ cfg.tcp_server
  BY <1>0, <1>1, Timeouts DEF Clock, Types, Route
<1>3. CASE Fail /\ UNCHANGED <<waited, elapsed>>
  <2>1. OpenBounded'
    BY <1>0, <1>1, <1>3, BoundStays DEF Clock
  <2>2. QED
    BY <1>0, <1>1, <1>3, <2>1, FailKeeps DEF Types
<1>4. CASE /\ MayGoOn(waited) /\ Pass(1)
           /\ UNCHANGED <<world, cfg, pc, result, bound, enumVars>>
  <2>1. /\ UNCHANGED <<world, cfg, pc, memo, count>>
        /\ waited' = waited + 1 /\ elapsed' = elapsed + 1
        /\ waited <= cfg.accept_timeout
    BY <1>4 DEF MayGoOn, Pass, enumVars
  <2>2. Types' /\ Counted'
    BY <1>0, <1>1, <2>1 DEF Types, Counted
  <2>3. Route' /\ Tunnel'
    BY <1>1, <1>0, <2>1 DEF Route, Tunnel
  <2>4. Queue' /\ HeardAllowed'
    BY <1>0, <1>1, <2>1 DEF Queue, HeardAllowed, PeerAllowed, EffectiveAllow, HostIp
  <2>5. OpenBounded'
    <3>1. elapsed' <= (cfg.accept_timeout + 2) + BannerParts * cfg.connect_timeout
      BY <1>2, <2>1
    <3>2. QED
      BY <1>1, <1>2, <3>1 DEF OpenBounded
  <2>6. Clock'
    BY <1>1, <1>2, <2>1, <2>5 DEF Clock
  <2>7. QED
    BY <2>2, <2>3, <2>4, <2>6 DEF IInv
<1>5. QED
  BY <1>3, <1>4 DEF Poll

LEMMA DialSteps == ASSUME IInv, Dial \/ DialFails PROVE IInv'
<1>0. Types /\ Route /\ Clock /\ Queue /\ Tunnel /\ HeardAllowed /\ Counted
  BY DEF IInv
<1>1. /\ pc = "dial" /\ UNCHANGED <<world, cfg, clients, waited, got, right, heard>>
      /\ UNCHANGED <<memo, count>>
  BY DEF Dial, DialFails, Fail, enumVars
<1>2. PICK d \in 0..cfg.connect_timeout : elapsed' = elapsed + d
  BY DEF Dial, DialFails
<1>3. /\ cfg.tcp /\ ~cfg.tcp_server /\ elapsed = 0 /\ got = 0
      /\ cfg.connect_timeout \in Nat /\ BannerParts \in Nat \ {0}
      /\ BannerParts * cfg.connect_timeout \in Nat
  BY <1>0, <1>1, Timeouts DEF Route, Types
<1>4. elapsed' \in Nat /\ elapsed' <= cfg.connect_timeout
  BY <1>2, <1>3
<1>5. OpenBounded'
  <2>1. elapsed' <= cfg.connect_timeout + BannerParts * cfg.connect_timeout
    BY <1>3, <1>4
  <2>2. QED
    BY <1>1, <1>3, <2>1 DEF OpenBounded
<1>6. CASE DialFails
  BY <1>0, <1>1, <1>4, <1>5, <1>6, FailKeeps DEF DialFails, Types
<1>7. CASE Dial
  <2>1. pc' = "handshake"
    BY <1>7 DEF Dial
  <2>2. Types' /\ Counted'
    BY <1>0, <1>1, <1>4 DEF Types, Counted
  <2>3. Route' /\ Queue' /\ Tunnel'
    BY <1>1, <1>3, <2>1 DEF Route, Queue, Tunnel
  <2>4. HeardAllowed'
    BY <1>0, <1>1 DEF HeardAllowed, PeerAllowed, EffectiveAllow, HostIp
  <2>5. elapsed' <= Before' + got' * cfg'.connect_timeout
    <3>1. got * cfg.connect_timeout = 0
      BY <1>3
    <3>2. elapsed' <= cfg.connect_timeout + 0
      BY <1>3, <1>4
    <3>3. QED
      BY <1>1, <1>3, <3>1, <3>2 DEF Before
  <2>6. Clock'
    BY <1>5, <2>1, <2>5 DEF Clock
  <2>7. QED
    BY <2>2, <2>3, <2>4, <2>6 DEF IInv
<1>8. QED
  BY <1>6, <1>7

LEMMA HandshakeSteps ==
    ASSUME IInv, HandshakeReceive \/ HandshakeFails
    PROVE  IInv'
<1>0. Types /\ Route /\ Clock /\ Queue /\ Tunnel /\ HeardAllowed /\ Counted
  BY DEF IInv
<1>1. /\ pc = "handshake" /\ UNCHANGED <<world, cfg, clients, waited, heard>>
      /\ UNCHANGED <<memo, count>>
  BY DEF HandshakeReceive, HandshakeFails, Fail, enumVars
<1>2. PICK d \in 0..cfg.connect_timeout : elapsed' = elapsed + d
  BY DEF HandshakeReceive, HandshakeFails
<1>3. /\ cfg.tcp /\ got \in Nat /\ got < BannerParts /\ elapsed \in Nat
      /\ cfg.connect_timeout \in Nat /\ BannerParts \in Nat /\ Before \in Nat
      /\ elapsed <= Before + got * cfg.connect_timeout
  BY <1>0, <1>1, Timeouts DEF Route, Types, Clock
<1>4. /\ got * cfg.connect_timeout \in Nat /\ BannerParts * cfg.connect_timeout \in Nat
      /\ (got + 1) * cfg.connect_timeout = got * cfg.connect_timeout + cfg.connect_timeout
      /\ got * cfg.connect_timeout + cfg.connect_timeout
           <= BannerParts * cfg.connect_timeout
  BY <1>3, Times
<1>5. /\ elapsed' \in Nat
      /\ elapsed' <= Before + (got + 1) * cfg.connect_timeout
      /\ elapsed' <= Before + BannerParts * cfg.connect_timeout
  <2> DEFINE g == got * cfg.connect_timeout
             n == BannerParts * cfg.connect_timeout
             h == (got + 1) * cfg.connect_timeout
  <2>1. /\ g \in Nat /\ n \in Nat /\ h = g + cfg.connect_timeout
        /\ g + cfg.connect_timeout <= n /\ elapsed <= Before + g
    BY <1>3, <1>4
  <2> HIDE DEF g, n, h
  <2>2. elapsed' \in Nat /\ elapsed' <= Before + h /\ elapsed' <= Before + n
    BY <1>2, <1>3, <2>1
  <2>3. QED
    BY <2>2 DEF g, n, h
<1>6. OpenBounded'
  BY <1>1, <1>3, <1>5 DEF OpenBounded, Before
<1>7. ASSUME Fail, got' \in Nat PROVE IInv'
  BY <1>0, <1>1, <1>5, <1>6, <1>7, FailKeeps DEF Types
<1>8. CASE HandshakeFails
  BY <1>3, <1>7, <1>8 DEF HandshakeFails
<1>9. CASE HandshakeReceive
  <2>1. got' = got + 1 /\ got' \in Nat
    BY <1>3, <1>9 DEF HandshakeReceive
  <2>2. Types' /\ Counted'
    BY <1>0, <1>1, <1>5, <2>1 DEF Types, Counted
  <2>3. HeardAllowed'
    BY <1>0, <1>1 DEF HeardAllowed, PeerAllowed, EffectiveAllow, HostIp
  <2>4. ASSUME pc' \in {"handshake", "open"}
        PROVE  /\ Queue'
               /\ cfg'.tcp /\ cfg'.tcp_server => \E i \in 1..Len(clients') : Taken(i)'
    BY <1>0, <1>1, <2>4 DEF Queue, Tunnel, Taken
  <2>5. CASE got' < BannerParts /\ UNCHANGED <<world, cfg, pc, result, bound, enumVars>>
    <3>1. pc' = "handshake"
      BY <1>1, <2>5
    <3>2. Route' /\ Tunnel'
      BY <1>1, <1>3, <2>4, <2>5, <3>1 DEF Route, Tunnel
    <3>3. Clock'
      BY <1>1, <1>5, <1>6, <2>1, <3>1 DEF Clock, Before
    <3>4. QED
      BY <2>2, <2>3, <2>4, <3>1, <3>2, <3>3 DEF IInv
  <2>6. CASE got' = BannerParts /\ right' /\ pc' = "open"
    <3>1. Route' /\ Tunnel' /\ Clock'
      BY <1>6, <2>4, <2>6 DEF Route, Tunnel, Clock
    <3>2. QED
      BY <2>2, <2>3, <2>4, <2>6, <3>1 DEF IInv
  <2>7. CASE Fail
    BY <1>7, <2>1, <2>7
  <2>8. QED
    BY <1>9, <2>5, <2>6, <2>7 DEF HandshakeReceive
<1>10. QED
  BY <1>8, <1>9

-----------------------------------------------------------------------------
(* The theorems. *)

LEMMA Start == Init => IInv
<1>1. SUFFICES ASSUME Init PROVE IInv
  OBVIOUS
<1>2. /\ pc = "idle" /\ clients = <<>> /\ waited = 0 /\ elapsed = 0 /\ got = 0
      /\ heard = {} /\ memo = {} /\ count = {} /\ cfg = Default /\ world \in Worlds
  BY <1>1 DEF Init
<1>3. CfgTyped(cfg)
  BY <1>2, DefaultTyped
<1>4. OpenBounded
  BY <1>2, <1>3, Timeouts DEF OpenBounded, Before
<1>5. Types /\ Route /\ Counted
  BY <1>2, <1>3 DEF Types, Route, Counted
<1>6. Clock /\ Queue /\ Tunnel /\ HeardAllowed
  BY <1>2, <1>4 DEF Clock, Queue, Tunnel, HeardAllowed
<1>7. QED
  BY <1>5, <1>6 DEF IInv

\* The invariant of an open: every step of connect, accept_with_timeout, the dial,
\* the handshake and the receive path keeps it, whatever the configuration says.
THEOREM Inductive == Spec => []IInv
<1>1. IInv /\ [Next]_vars => IInv'
  BY OutsideSteps, QuietSteps, ArrivesStep, AcceptStep, RefuseStep, PollStep,
     DialSteps, HandshakeSteps DEF Next
<1>2. QED
  BY Start, <1>1, PTL DEF Spec

\* canOpenChannel returns within the time its configuration allows: accept's
\* deadline and one more poll and refused client, or one dial, and one timeout per
\* read of the banner (accept_with_timeout, connect_timeout, handshake).
THEOREM OpenBoundedCorrect == Spec => []OpenBounded
<1>1. IInv => OpenBounded
  BY DEF IInv, Clock
<1>2. QED
  BY Inductive, <1>1, PTL

\* A TCP channel that is open has exchanged the whole banner, and a server has
\* taken the first client that it may, turned away those before it and dropped
\* those behind it (accept_with_timeout, handshake, canOpenChannel).
THEOREM OpenMeansTunnelCorrect == Spec => []OpenMeansTunnel
<1>1. IInv => OpenMeansTunnel
  <2>1. SUFFICES ASSUME IInv, pc = "open", cfg.tcp
                 PROVE  /\ got = BannerParts /\ right
                        /\ cfg.tcp_server => \E i \in DOMAIN clients :
                              /\ clients[i].fate = "accepted"
                              /\ \A j \in DOMAIN clients :
                                    /\ j < i => /\ clients[j].fate = "refused"
                                                /\ cfg.peer_check
                                                /\ clients[j].ip # clients[i].ip
                                    /\ j > i => clients[j].fate = "dropped"
    BY DEF OpenMeansTunnel
  <2>2. DOMAIN clients = 1..Len(clients)
    BY <2>1 DEF IInv, Types
  <2>3. QED
    BY <2>1, <2>2 DEF IInv, Tunnel, Taken
<1>2. QED
  BY Inductive, <1>1, PTL

-----------------------------------------------------------------------------
(* What the configuration in force was made of.  These conjuncts rest on   *)
(* IInv and nothing in IInv rests on them.                                 *)

\* The configuration is the default one until one is loaded, and then that one.
Loaded == cfg = IF result = "none" THEN Default ELSE Load(world.files, world.env)

\* Nobody is heard, and nothing is under way, but for a host that is an address.
Hosted ==
    pc # "idle" \/ heard # {} => result # "none" /\ cfg.host.body.is = "address"

Ranges ==
    /\ result \in {"none", "pending", "ok", "notfound"}
    /\ bound \in {0} \cup Ports /\ right \in BOOLEAN
    /\ heard \in SUBSET Addrs /\ got \in 0..BannerParts

Origin == Loaded /\ Hosted /\ Ranges

LEMMA GrantedIn ==
    ASSUME NEW p \in 0..U16_MAX
    PROVE  Granted(p) \subseteq {0} \cup Ports
<1>1. U16_MAX \in Nat
  BY WidthAssumption
<1>2. QED
  BY <1>1 DEF Granted, Ports

LEMMA FailOrigin ==
    ASSUME Origin, Fail, pc # "idle", heard' = heard, right' \in BOOLEAN,
           got' \in 0..BannerParts
    PROVE  Origin'
<1>1. /\ result # "none" /\ result' = "notfound" /\ bound' = 0 /\ cfg.host.body.is = "address"
      /\ UNCHANGED <<world, cfg>>
  BY DEF Fail, Origin, Hosted
<1>2. QED
  BY <1>1 DEF Origin, Loaded, Hosted, Ranges

LEMMA OriginStep == ASSUME IInv, Origin, [Next]_vars PROVE Origin'
<1>0. /\ Loaded /\ Hosted /\ Ranges /\ Types /\ Route /\ CfgTyped(cfg)
      /\ BannerParts \in Nat \ {0}
  BY ConnectAssumption DEF IInv, Origin, Types
<1>1. CASE Reconfigure \/ Close
  <2>1. /\ result' = "none" /\ cfg' = Default /\ pc' = "idle" /\ heard' = {}
        /\ bound' = 0 /\ right' = TRUE /\ got' = 0
    BY <1>1 DEF Reconfigure, Close, Reset
  <2>2. Loaded' /\ Hosted'
    BY <2>1 DEF Loaded, Hosted
  <2>3. Ranges'
    BY <1>0, <2>1 DEF Ranges
  <2>4. QED
    BY <2>2, <2>3 DEF Origin
<1>2. CASE OpenChannel
  <2>1. /\ result' # "none" /\ result' \in {"pending", "notfound"} /\ world' = world
        /\ cfg' = Load(world.files, world.env) /\ heard' = {} /\ bound' = 0
        /\ right' = TRUE /\ got' = 0
        /\ pc' # "idle" => cfg'.host.body.is = "address"
    BY <1>2 DEF OpenChannel, Reset
  <2>2. Loaded' /\ Hosted'
    BY <2>1 DEF Loaded, Hosted
  <2>3. Ranges'
    BY <1>0, <2>1 DEF Ranges
  <2>4. QED
    BY <2>2, <2>3 DEF Origin
<1>3. CASE BindUdp \/ Listen \/ Dial
  <2>1. /\ pc # "idle" /\ result' \in {result, "ok"} /\ result' # "none"
        /\ UNCHANGED <<world, cfg, right, heard, got>>
    BY <1>0, <1>3 DEF BindUdp, Listen, Dial, Hosted
  <2>2. bound' \in {0} \cup Ports
    <3>1. cfg.local_port \in 0..U16_MAX /\ 0 \in 0..U16_MAX
      BY <1>0, WidthAssumption DEF CfgTyped
    <3>2. bound' \in Granted(0) \cup Granted(cfg.local_port)
      BY <1>3 DEF BindUdp, Listen, Dial
    <3>3. QED
      BY <3>1, <3>2, GrantedIn
  <2>3. QED
    BY <1>0, <2>1, <2>2 DEF Origin, Loaded, Hosted, Ranges
<1>4. CASE BindFails \/ AcceptFails \/ DialFails \/ HandshakeFails
  BY <1>0, <1>4, FailOrigin
  DEF BindFails, AcceptFails, DialFails, HandshakeFails, Ranges
<1>5. CASE ClientArrives
  BY <1>0, <1>5 DEF ClientArrives, Origin, Loaded, Hosted, Ranges
<1>6. CASE Accept
  <2>1. PICK i : i = Min(Waiting)
    OBVIOUS
  <2>2. heard' = {clients[i].ip} /\ pc = "accept" /\ Waiting # {}
        /\ UNCHANGED <<world, cfg, result, bound, got, right>>
    BY <1>6, <2>1 DEF Accept
  <2>3. i \in 1..Len(clients)
    BY <2>1, <2>2, Oldest
  <2>4. clients[i] \in Client
    BY <1>0, <2>3 DEF Types
  <2>5. heard' \in SUBSET Addrs
    BY <2>2, <2>4 DEF Client
  <2>6. QED
    BY <1>0, <2>2, <2>5 DEF Origin, Loaded, Hosted, Ranges
<1>7. CASE Refuse \/ Poll
  <2>1. pc = "accept" /\ UNCHANGED <<got, right, heard>>
    BY <1>7 DEF Refuse, Poll
  <2>2. CASE Fail
    BY <1>0, <2>1, <2>2, FailOrigin DEF Ranges
  <2>3. CASE UNCHANGED <<world, cfg, pc, result, bound>>
    BY <1>0, <2>1, <2>3 DEF Origin, Loaded, Hosted, Ranges
  <2>4. QED
    BY <1>7, <2>2, <2>3 DEF Refuse, Poll
<1>8. CASE HandshakeReceive
  <2>1. /\ pc = "handshake" /\ got' = got + 1 /\ right' \in {right, FALSE}
        /\ heard' = heard
        /\ \/ Fail
           \/ /\ UNCHANGED <<world, cfg, bound>>
              /\ result' \in {result, "ok"}
    BY <1>8 DEF HandshakeReceive
  <2>2. got' \in 0..BannerParts /\ right' \in BOOLEAN
    <3>1. got \in Nat /\ got < BannerParts /\ right \in BOOLEAN
      BY <1>0, <2>1 DEF Route, Ranges, Types
    <3>2. got' \in 0..BannerParts
      BY <1>0, <2>1, <3>1
    <3>3. QED
      BY <2>1, <3>1, <3>2
  <2>3. CASE Fail
    BY <2>1, <2>2, <2>3, FailOrigin
  <2>4. CASE UNCHANGED <<world, cfg, bound>> /\ result' \in {result, "ok"}
    <3>1. result' # "none" /\ result # "none" /\ cfg.host.body.is = "address"
      BY <1>0, <2>1, <2>4 DEF Hosted
    <3>2. QED
      BY <1>0, <2>1, <2>2, <2>4, <3>1 DEF Origin, Loaded, Hosted, Ranges
  <2>5. QED
    BY <2>1, <2>3, <2>4
<1>9. CASE Datagram
  <2>1. heard' \in SUBSET Addrs
    BY <1>0, <1>9, ConnectAssumption DEF Datagram, WildcardFor, Ranges
  <2>2. QED
    BY <1>0, <1>9, <2>1 DEF Datagram, Origin, Loaded, Hosted, Ranges
<1>10. CASE NumberOfChannels \/ UNCHANGED vars
  BY <1>0, <1>10 DEF NumberOfChannels, vars, netVars, Origin, Loaded, Hosted, Ranges
<1>11. QED
  BY <1>1, <1>2, <1>3, <1>4, <1>5, <1>6, <1>7, <1>8, <1>9, <1>10 DEF Next

\* What is in force was loaded from the world as it is, for a host that is an
\* address, in every reachable state.
THEOREM OriginInductive == Spec => [](IInv /\ Origin)
<1>1. Init => Origin
  BY ConnectAssumption DEF Init, Origin, Loaded, Hosted, Ranges
<1>2. IInv /\ Origin /\ [Next]_vars => Origin'
  BY OriginStep
<1>3. QED
  BY Inductive, <1>1, <1>2, PTL DEF Spec

\* Every setting of an open channel comes from the strongest layer that gives it a
\* meaning: the environment, the last line of the first readable file, the default
\* (Config::load, apply_map, apply_env_with, find_and_parse_ini).
THEOREM LayeredByKeyCorrect == Spec => []LayeredByKey
<1>1. IInv /\ Origin => LayeredByKey
  BY LoadLayered DEF IInv, Types, Origin, Loaded, LayeredByKey, Settings
<1>2. QED
  BY OriginInductive, <1>1, PTL

\* A configuration is a record of its twelve settings.
AsRecord(c) ==
    [host |-> c.host, remote_port |-> c.remote_port, local_port |-> c.local_port,
     tcp |-> c.tcp, tcp_server |-> c.tcp_server, log |-> c.log, channels |-> c.channels,
     connect_timeout |-> c.connect_timeout, accept_timeout |-> c.accept_timeout,
     udp_port_fallback |-> c.udp_port_fallback, peer_check |-> c.peer_check,
     allow |-> c.allow]

LEMMA LoadInType ==
    ASSUME CfgTyped(cfg), Loaded
    PROVE  cfg \in ConfigType
<1>1. cfg = Default \/ \E c, e : cfg = ApplyEnvWith(c, e)
  BY DEF Loaded, Load
<1>2. \A c, e : ApplyEnvWith(c, e) = AsRecord(ApplyEnvWith(c, e))
  BY DEF ApplyEnvWith, AsRecord
<1>3. Default = AsRecord(Default)
  BY DEF Default, AsRecord
<1>4. cfg = AsRecord(cfg)
  BY <1>1, <1>2, <1>3
<1>5. AsRecord(cfg) \in ConfigType
  BY DEF AsRecord, CfgTyped, ConfigType
<1>6. QED
  BY <1>4, <1>5

\* The types hold: in particular the configuration of an open stays within the
\* widths of its fields, and the count that is reported within an i32.
THEOREM ConnectTypeCorrect == Spec => []TypeOK
<1>1. IInv /\ Origin => TypeOK
  <2>1. SUFFICES ASSUME IInv, Origin PROVE TypeOK
    OBVIOUS
  <2>2. cfg \in ConfigType
    BY <2>1, LoadInType DEF IInv, Types, Origin
  <2>3. clients \in Seq([ip : Addrs, fate : {"waiting", "refused", "accepted", "dropped"}])
    BY <2>1 DEF IInv, Types, Client, Fates
  <2>4. QED
    BY <2>1, <2>2, <2>3 DEF IInv, Types, Route, Counted, Origin, Ranges, TypeOK
<1>2. QED
  BY OriginInductive, <1>1, PTL

\* Nothing is taken from an address that the user has not allowed: by the strongest
\* allow list, by host where there is none, or by switching the check off
\* (effective_allow, peer_allowed, udp_rx_loop, accept_with_timeout, Config::load).
THEOREM InboundRestrictedCorrect == Spec => []InboundRestricted
<1>1. IInv /\ Origin => InboundRestricted
  <2> SUFFICES ASSUME IInv, Origin, heard # {} PROVE InboundRestricted
    BY DEF InboundRestricted
  <2> DEFINE strongest(k) == IF FromEnv(k) # {} THEN FromEnv(k) ELSE FromFile(k)
             hosts == {t.body : t \in IF Host(FromEnv("host")) # {}
                                      THEN Host(FromEnv("host"))
                                      ELSE Host(FromFile("host"))}
             listed == UNION {ParseIpList(t) : t \in strongest("allow")}
  <2>1. /\ cfg = Load(world.files, world.env) /\ cfg.host.body.is = "address"
        /\ world \in Worlds \cup EditedWorlds /\ CfgTyped(cfg)
        /\ \A a \in heard : PeerAllowed(a, cfg)
    BY DEF IInv, Origin, Loaded, Hosted, Types, HeardAllowed
  <2>2. ASSUME NEW k \in Settings
        PROVE  {cfg[Field[k]]} = IF Meant(k, FromEnv(k)) # {} THEN Meant(k, FromEnv(k))
                                 ELSE IF Meant(k, FromFile(k)) # {} THEN Meant(k, FromFile(k))
                                 ELSE {Default[Field[k]]}
    BY <2>1, LoadLayered
  <2>3. /\ "host" \in Settings /\ Field["host"] = "host"
        /\ "allow" \in Settings /\ Field["allow"] = "allow"
        /\ "peercheck" \in Settings /\ Field["peercheck"] = "peer_check"
    BY DEF Settings, EnvName, Field
  \* The check is off only if it was switched off.
  <2>4. ASSUME ~cfg.peer_check PROVE \E t \in strongest("peercheck") : ~ParseBool(t)
    <3>1. \A ts : Meant("peercheck", ts) = {ParseBool(t) : t \in ts}
      BY MeantIs DEF Flag
    <3>2. Default.peer_check = TRUE
      BY DEF Default
    <3>3. cfg.peer_check \in IF Meant("peercheck", FromEnv("peercheck")) # {}
                             THEN Meant("peercheck", FromEnv("peercheck"))
                             ELSE IF Meant("peercheck", FromFile("peercheck")) # {}
                             THEN Meant("peercheck", FromFile("peercheck"))
                             ELSE {Default.peer_check}
      BY <2>2, <2>3
    <3>4. QED
      BY <2>4, <3>1, <3>2, <3>3
  \* The addresses of the list.
  <2>5. cfg.allow = listed
    <3>1. \A ts : Meant("allow", ts) = {ParseIpList(t) : t \in ts}
      BY MeantIs DEF Peers
    <3>2. {cfg.allow} = IF Meant("allow", FromEnv("allow")) # {}
                        THEN Meant("allow", FromEnv("allow"))
                        ELSE IF Meant("allow", FromFile("allow")) # {}
                        THEN Meant("allow", FromFile("allow"))
                        ELSE {Default.allow}
      BY <2>2, <2>3
    <3>3. Default.allow = {}
      BY DEF Default
    <3>4. \A ts : Meant("allow", ts) # {} <=> ts # {}
      BY <3>1
    <3>5. CASE strongest("allow") # {}
      <4>1. {cfg.allow} = Meant("allow", strongest("allow"))
        BY <3>2, <3>4, <3>5
      <4>2. {cfg.allow} = {ParseIpList(t) : t \in strongest("allow")}
        BY <3>1, <4>1, Zenon
      <4>3. listed = UNION {cfg.allow}
        BY <4>2, Zenon
      <4>4. QED
        BY <4>3
    <3>6. CASE strongest("allow") = {}
      <4>1. listed = {}
        BY <3>6
      <4>2. {cfg.allow} = {Default.allow}
        BY <3>2, <3>4, <3>6
      <4>3. QED
        BY <3>3, <4>1, <4>2
    <3>7. QED
      BY <3>5, <3>6
  \* The address that stands for the host.
  <2>6. {cfg.host.body} = IF hosts = {} THEN {Address(LOCALHOST)} ELSE hosts
    <3>1. \A ts : Meant("host", ts) = Host(ts)
      BY MeantIs
    <3>2. {cfg.host} = IF Host(FromEnv("host")) # {} THEN Host(FromEnv("host"))
                       ELSE IF Host(FromFile("host")) # {} THEN Host(FromFile("host"))
                       ELSE {Text(Address(LOCALHOST))}
      BY <2>2, <2>3, <3>1 DEF Default
    <3>3. Text(Address(LOCALHOST)).body = Address(LOCALHOST)
      BY DEF Text
    <3>4. QED
      BY <3>2, <3>3
  <2>7. cfg.host.body = Address(HostIp(cfg))
    BY <2>1 DEF CfgTyped, IsText, HostIp
  <2> HIDE DEF hosts, listed, strongest
  <2>8. CASE cfg.peer_check /\ listed # {}
    BY <2>1, <2>5, <2>8 DEF PeerAllowed, EffectiveAllow, InboundRestricted, listed, strongest
  <2>9. CASE cfg.peer_check /\ listed = {}
    <3>1. heard = {HostIp(cfg)}
      BY <2>1, <2>5, <2>9 DEF PeerAllowed, EffectiveAllow
    <3>2. {Address(a) : a \in heard} = {cfg.host.body}
      BY <2>7, <3>1
    <3>3. QED
      BY <2>6, <2>9, <3>2 DEF InboundRestricted, listed, strongest, hosts
  <2>10. CASE ~cfg.peer_check
    BY <2>4, <2>10 DEF InboundRestricted, strongest
  <2>11. QED
    BY <2>1, <2>8, <2>9, <2>10 DEF CfgTyped
<1>2. QED
  BY OriginInductive, <1>1, PTL

=============================================================================
