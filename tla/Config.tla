------------------------------- MODULE Config -------------------------------
(***************************************************************************)
(* Layered configuration (src/src/config.rs): built-in defaults, then the  *)
(* first kvasilloni.ini found, then the environment.  A value is read      *)
(* again by every canOpenChannel.                                          *)
(*                                                                         *)
(* A text is what stands to the right of a key: a body and whether blanks  *)
(* precede it.  A body is blank, a number, an address, a list of bodies or *)
(* another word, of which only the initial and its meaning as a flag       *)
(* matter.  Several operators return an option: a set with at most one     *)
(* element.                                                                *)
(***************************************************************************)
EXTENDS Integers, Sequences, FiniteSetsExt

CONSTANTS
    U16_MAX, U32_MAX, I32_MAX,  \* the largest u16, u32 and i32
    LOCALHOST,                  \* 127.0.0.1
    DefaultPort,                \* 20000
    DefaultConnectTimeout,      \* 5000 ms, in ticks of accept's poll
    DefaultAcceptTimeout        \* 30000 ms, likewise

ASSUME WidthAssumption ==
    /\ U16_MAX \in Nat /\ U32_MAX \in Nat /\ I32_MAX \in Nat
    /\ 1 <= I32_MAX /\ I32_MAX < U32_MAX
    /\ DefaultPort \in 1..U16_MAX
    /\ DefaultConnectTimeout \in 1..U32_MAX
    /\ DefaultAcceptTimeout \in 1..U32_MAX

Blank == [is |-> "blank"]
Number(n) == [is |-> "number", n |-> n]
Address(a) == [is |-> "address", a |-> a]
List(items) == [is |-> "list", items |-> items]
Word(w, initial) == [is |-> "word", w |-> w, initial |-> initial]

Text(body) == [lead |-> FALSE, body |-> body]

-----------------------------------------------------------------------------
(* Conversions.  None of them can fail the load: what does not parse is    *)
(* either passed over (numbers, an empty host; the warning that goes to    *)
(* the log is left out) or read as the other value.                        *)

\* A number that does not fit the target type is refused like any word.
ParseNum(t, max) ==
    IF t.body.is = "number" /\ t.body.n <= max THEN {t.body.n} ELSE {}

IsBlank(t) == t.body.is = "blank"

\* The first byte, blanks included, decides.
StartsWithCi(t, c) == ~t.lead /\ t.body.is = "word" /\ t.body.initial = c

ParseBool(t) ==
    \/ t.body = Number(1)
    \/ t.body.is = "word" /\ t.body.w \in {"true", "yes", "on", "enable", "enabled"}

\* The addresses of a list; items that are none are skipped.  Their order and
\* number in the Vec play no part: it is only searched, and found empty or not.
ParseIpList(t) ==
    LET items == CASE t.body.is = "list" -> {t.body.items[i] : i \in DOMAIN t.body.items}
                   [] t.body.is = "blank" -> {}
                   [] OTHER -> {t.body}
    IN  {b.a : b \in {x \in items : x.is = "address"}}

-----------------------------------------------------------------------------
(* The layers.  A layer is a function from the names it gives to texts.    *)

Default ==
    [host |-> Text(Address(LOCALHOST)), remote_port |-> DefaultPort,
     local_port |-> DefaultPort, tcp |-> FALSE, tcp_server |-> FALSE, log |-> {},
     channels |-> 1, connect_timeout |-> DefaultConnectTimeout,
     accept_timeout |-> DefaultAcceptTimeout, udp_port_fallback |-> FALSE,
     peer_check |-> TRUE, allow |-> {}]

\* The text that layer m gives for name, as an option.
Get(m, name) == IF name \in DOMAIN m THEN {m[name]} ELSE {}

\* An option of a value laid over the weaker layers' value.
Overlay(option, old) == IF option = {} THEN old ELSE CHOOSE v \in option : TRUE

\* What an option of a text means as the different kinds of setting.
U16(ts) == UNION {ParseNum(t, U16_MAX) : t \in ts}
U32(ts) == UNION {ParseNum(t, U32_MAX) : t \in ts}
Host(ts) == {t \in ts : ~IsBlank(t)}
LogPath(ts) == {{t} : t \in {u \in ts : ~IsBlank(u) \/ u.lead}}
IsTcp(ts) == {StartsWithCi(t, "t") : t \in ts}
IsServer(ts) == {StartsWithCi(t, "s") : t \in ts}
Flag(ts) == {ParseBool(t) : t \in ts}
Peers(ts) == {ParseIpList(t) : t \in ts}

ApplyMap(c, m) ==
    [host |-> Overlay(Host(Get(m, "host")), c.host),
     remote_port |-> Overlay(U16(Get(m, "port")), c.remote_port),
     local_port |-> Overlay(U16(Get(m, "localport")), c.local_port),
     tcp |-> Overlay(IsTcp(Get(m, "proto")), c.tcp),
     tcp_server |-> Overlay(IsServer(Get(m, "tcprole")), c.tcp_server),
     log |-> Overlay(LogPath(Get(m, "log")), c.log),
     channels |-> Overlay(U32(Get(m, "channels")), c.channels),
     connect_timeout |-> Overlay(U32(Get(m, "connecttimeout")), c.connect_timeout),
     accept_timeout |-> Overlay(U32(Get(m, "accepttimeout")), c.accept_timeout),
     udp_port_fallback |-> Overlay(Flag(Get(m, "udpportfallback")), c.udp_port_fallback),
     peer_check |-> Overlay(Flag(Get(m, "peercheck")), c.peer_check),
     allow |-> Overlay(Peers(Get(m, "allow")), c.allow)]

\* Written out a second time in the code, with names of its own.
ApplyEnvWith(c, e) ==
    [host |-> Overlay(Host(Get(e, "KVASILLONI_HOST")), c.host),
     remote_port |-> Overlay(U16(Get(e, "KVASILLONI_PORT")), c.remote_port),
     local_port |-> Overlay(U16(Get(e, "KVASILLONI_LOCALPORT")), c.local_port),
     tcp |-> Overlay(IsTcp(Get(e, "KVASILLONI_PROTO")), c.tcp),
     tcp_server |-> Overlay(IsServer(Get(e, "KVASILLONI_TCPROLE")), c.tcp_server),
     log |-> Overlay(LogPath(Get(e, "KVASILLONI_LOG")), c.log),
     channels |-> Overlay(U32(Get(e, "KVASILLONI_CHANNELS")), c.channels),
     connect_timeout |-> Overlay(U32(Get(e, "KVASILLONI_CONNECT_TIMEOUT")), c.connect_timeout),
     accept_timeout |-> Overlay(U32(Get(e, "KVASILLONI_ACCEPT_TIMEOUT")), c.accept_timeout),
     udp_port_fallback |->
         Overlay(Flag(Get(e, "KVASILLONI_UDP_PORT_FALLBACK")), c.udp_port_fallback),
     peer_check |-> Overlay(Flag(Get(e, "KVASILLONI_PEER_CHECK")), c.peer_check),
     allow |-> Overlay(Peers(Get(e, "KVASILLONI_ALLOW")), c.allow)]

-----------------------------------------------------------------------------
(* The INI file: a sequence of lines, each an entry or something else (a   *)
(* comment, a section header, an empty line, a line without "=").          *)

Entry(key, t) == [is |-> "entry", key |-> key, text |-> t]
OtherLine == [is |-> "other"]

\* The last entry of a key counts, whatever section it stands in; blanks and
\* an inline comment around the value are stripped.
ParseIni(lines) ==
    LET at(key) == {i \in DOMAIN lines : lines[i].is = "entry" /\ lines[i].key = key}
        keys == {lines[i].key : i \in {j \in DOMAIN lines : lines[j].is = "entry"}}
    IN  [k \in keys |-> [lines[Max(at(k))].text EXCEPT !.lead = FALSE]]

\* files: KVASILLONI_INI, next to the DLL, next to the .exe; {} where there is
\* no path or nothing readable.  The first readable one is the only one used.
FindAndParseIni(files) ==
    LET readable == {i \in DOMAIN files : files[i] # {}}
        first == {i \in readable : \A j \in readable : i <= j}
    IN  {ParseIni(lines) : lines \in UNION {files[i] : i \in first}}

\* Mutant of Load: the file is laid over the environment.
LoadFileLast(files, env) ==
    LET ini == FindAndParseIni(files)
        base == ApplyEnvWith(Default, env)
    IN  IF ini = {} THEN base ELSE ApplyMap(base, CHOOSE m \in ini : TRUE)

Load(files, env) ==
    LET ini == FindAndParseIni(files)
        base == IF ini = {} THEN Default ELSE ApplyMap(Default, CHOOSE m \in ini : TRUE)
    IN  ApplyEnvWith(base, env)
=============================================================================
