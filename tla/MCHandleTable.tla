--------------------------- MODULE MCHandleTable ----------------------------
(* What the handle table is checked with. *)
EXTENDS HandleTable

CONSTANTS t1, t2, t3

Table(a, b, c) == [t \in {t1, t2, t3} |-> CASE t = t1 -> a [] t = t2 -> b [] t = t3 -> c]
Setup(mode, opens, a, b, c) ==
    [mode |-> mode, calls |-> Table(a, b, c), opens |-> opens, callbacks |-> {}]

\* The third one's calls are those of the notify callback.
WithCallback(mode, opens, a, b, c) ==
    [mode |-> mode, calls |-> Table(a, b, c), opens |-> opens, callbacks |-> {t3}]

MCSetups ==
    {\* one stream that is lost, flushed and closed while its status is read
     Setup("tcp", 1, {"open", "close"}, {"status", "flush"}, {}),
     \* a stream whose peer takes nothing
     Setup("tcp", 1, {"open", "close"}, {"write"}, {"write"}),
     \* reopening the same port while calls on the old channel are under way
     Setup("udp", 2, {"open", "close"}, {"read_wait"}, {"close"}),
     Setup("udp", 2, {"open", "close"}, {}, {"write", "read_sync"}),
     \* two channels at a time, opened and closed by different threads
     Setup("udp_fallback", 2, {"open"}, {"open", "close"}, {}),
     \* a callback that reads and closes, its own channel or an old one
     WithCallback("tcp", 1, {"open", "close"}, {"write"}, {"read_wait", "close"}),
     WithCallback("udp", 2, {"open"}, {"close"}, {"read_sync", "close"}),
     \* a callback that closes its own channel or another one
     WithCallback("udp_fallback", 2, {"open"}, {}, {"close"}),
     Setup("udp", 1, {"query"}, {}, {})}

\* One stream and its status.
StatusSetups == {Setup("tcp", 1, {"open", "close"}, {"status"}, {})}
=============================================================================
