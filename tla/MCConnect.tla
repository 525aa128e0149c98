----------------------------- MODULE MCConnect ------------------------------
(* Worlds in which Connect is checked. *)
EXTENDS Connect

A4 == "a4"
B4 == "b4"
C6 == "c6"

Tcp == Word("tcp", "t")
Udp == Word("udp", "u")
Server == Word("server", "s")
On == Word("on", "o")
Off == Word("off", "o")
Odd == Word("treu", "t")

\* Texts that every key is tried with: each class of body, at the limits.
Bodies == {Blank, Number(0), Number(1), Number(U16_MAX + 1), Number(U32_MAX + 1),
           Address(B4), List(<<Address(B4), Odd, Address(A4)>>), Server, On, Odd}
Texts == {Text(b) : b \in Bodies} \cup {[lead |-> TRUE, body |-> b] : b \in {Blank, Tcp, On}}

NoFiles == <<{}, {}, {}>>
NoEnv == [k \in {} |-> Text(Blank)]

\* One key given by two lines of a file, by two files or by a file and the
\* environment, with every pair of texts.
LayerWorlds ==
    LET line(k, t) == {<<OtherLine, Entry(k, t)>>}
        env(k, t) == [n \in {EnvName[k]} |-> t]
    IN  UNION {
          {[files |-> <<{}, line(k, t), {}>>, env |-> env(k, u), inUse |-> {}],
           [files |-> <<{}, {<<Entry(k, t), Entry(k, u)>>}, {}>>, env |-> NoEnv,
            inUse |-> {}],
           [files |-> <<line(k, t), {}, line("channels", u)>>, env |-> NoEnv,
            inUse |-> {}]}
          : k \in DOMAIN EnvName, t \in Texts, u \in Texts}

\* A file with several keys, and an environment that may change some.
File(proto, role, check, list, connect, accept) ==
    <<Entry("host", Text(Address(A4))), Entry("proto", Text(proto)),
      Entry("tcprole", Text(role)), Entry("peercheck", Text(check)),
      Entry("allow", Text(list)), Entry("connecttimeout", Text(Number(connect))),
      Entry("accepttimeout", Text(Number(accept)))>>

TcpWorlds ==
    {[files |-> <<{}, {File(Tcp, role, check, list, ct, at)}, {}>>, env |-> env,
      inUse |-> {}] :
        role \in {Server, Blank}, check \in {On, Off},
        list \in {Blank, Address(B4)},
        ct \in {0, 2}, at \in {0, 1},
        env \in {NoEnv, [n \in {"KVASILLONI_ALLOW"} |-> Text(Odd)]}}

UdpWorlds ==
    {[files |-> <<{}, {File(Udp, Blank, On, list, 1, 1)}, {}>>, env |-> env,
      inUse |-> {DefaultPort}] :
        list \in {Blank, Address(B4), Address(C6)},
        env \in {NoEnv, [n \in {"KVASILLONI_UDP_PORT_FALLBACK"} |-> Text(On)],
                 [n \in {"KVASILLONI_LOCALPORT"} |-> Text(Number(0))],
                 [n \in {"KVASILLONI_HOST"} |-> Text(Address(C6))]}}

MCEdited ==
    {[files |-> <<{<<Entry("channels", Text(Number(n)))>>}, {}, {}>>, env |-> NoEnv,
      inUse |-> {}] : n \in {0, U32_MAX}}
MCWorlds == LayerWorlds \cup TcpWorlds \cup UdpWorlds \cup MCEdited

MCAddrs == {A4, B4, C6, LOCALHOST}
=============================================================================
