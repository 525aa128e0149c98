---------------------------- MODULE HandleTable -----------------------------
(***************************************************************************)
(* The table of open channels (CONNS, NEXT_HANDLE) and the exported calls  *)
(* that go through it (src/src/lib.rs): canOpenChannel, canClose,          *)
(* canWrite, canReadWait, canReadSync, canReadStatus,                      *)
(* canFlushReceiveQueue.  A call clones the channel's Arc under the lock   *)
(* of the table and works without it, so a channel lives on, with its      *)
(* socket, until the last call on it has returned.                         *)
(*                                                                         *)
(* A connection (module Conn) appears as its RX thread, the flags the      *)
(* calls read and the level of its ring.  close()'s stores before the join *)
(* are one step here, and so are those of a failed write: Conn has their   *)
(* interleavings.                                                          *)
(*                                                                         *)
(* Calls are also made from the notify callback, on the RX thread of some  *)
(* channel, and may close that very channel.  NotifyGate has what protects *)
(* the callback; here it runs after a frame was queued, makes calls one    *)
(* after the other and returns.                                            *)
(***************************************************************************)
EXTENDS Integers, Sequences, FiniteSets, Exports

CONSTANTS
    Threads,     \* who makes calls: threads of the application, callbacks
    RingCap,     \* capacity of the ring
    MaxOpens,    \* bound: channels that are opened
    Setups       \* what to check: transport, each thread's calls, channels
                 \* opened, and which threads are notify callbacks

Ops == {"open", "close", "write", "read_wait", "read_sync", "status", "flush",
        "query"}

ASSUME HandleTableAssumption ==
    /\ RingCap \in Nat \ {0}
    /\ MaxOpens \in Nat
    /\ Setups \subseteq [mode : {"tcp", "udp", "udp_fallback"},
                         calls : [Threads -> SUBSET Ops], opens : 1..MaxOpens,
                         callbacks : SUBSET Threads]

VARIABLES
    setup,       \* the one that is being checked; all channels share a configuration
    lock,        \* holder of CONNS, or NoThread
    nextHandle,  \* NEXT_HANDLE
    table,       \* CONNS: handle -> index of the connection
    issued,      \* handles that canOpenChannel has returned
    conns,       \* the connections made so far
    api          \* where each thread is

tableVars == <<lock, nextHandle, table, issued>>
vars == <<setup, tableVars, conns, api>>

NoThread == "nobody"

\* hnd: the handle it was numbered with; rx: where the RX thread is; shut: the
\* TCP socket was shut down.
NewConn ==
    [hnd |-> 0, rx |-> "test", running |-> TRUE, joinable |-> TRUE, shut |-> FALSE,
     closed |-> FALSE, lost |-> FALSE, level |-> 0, overflow |-> FALSE]

\* The locals of a call.  host: the connection on whose RX thread it runs, 0 on a
\* thread of the application; arc: the Conn it holds; ring: the Shared it waits
\* on or reads; st: the status bits collected; reply: what was stored into a
\* buffer of the caller.
Idle == [pc |-> "idle", op |-> "none", host |-> 0, hnd |-> 0, arc |-> 0, ring |-> 0,
         st |-> {}, reply |-> NoReply]

Init ==
    /\ setup \in Setups
    /\ lock = NoThread /\ nextHandle = 1 /\ table = [h \in {} |-> 0] /\ issued = {}
    /\ conns = <<>>
    /\ api = [t \in Threads |-> Idle]

\* Conn is not dropped while the table or a call holds its Arc.
Holders(c) == {t \in Threads : api[t].arc = c}
Alive(c) == (\E h \in DOMAIN table : table[h] = c) \/ Holders(c) # {}

\* The sockets of Conn and of its RX thread.
SocketHeld(c) == Alive(c) \/ conns[c].rx # "done"

\* The RX thread of c is inside a call that its notify callback makes.
Hosting(c) == \E t \in Threads : api[t].host = c

\* Where t can make its next call.
Hosts(t) ==
    IF t \in setup.callbacks
    THEN {c \in DOMAIN conns : conns[c].rx = "callback" /\ ~Hosting(c)}
    ELSE {0}

Go(t, pc) == api' = [api EXCEPT ![t].pc = pc]

-----------------------------------------------------------------------------
(* canOpenChannel                                                          *)

Open(t) ==
    /\ api[t].pc = "idle" /\ "open" \in setup.calls[t]
    /\ \E c \in Hosts(t) :
          api' = [api EXCEPT ![t] =
                    [Idle EXCEPT !.pc = "connect", !.op = "open", !.host = c]]
    /\ UNCHANGED <<setup, tableVars, conns>>

\* Conn::connect succeeds.  A UDP channel needs the configured local port,
\* unless it may take another.
OpenConnected(t) ==
    /\ api[t].pc = "connect" /\ Len(conns) < setup.opens
    /\ setup.mode = "udp" => \A c \in DOMAIN conns : ~SocketHeld(c)
    /\ conns' = Append(conns, NewConn)
    /\ api' = [api EXCEPT ![t].arc = Len(conns'), ![t].pc = "number"]
    /\ UNCHANGED <<setup, tableVars>>

OpenFails(t) ==
    /\ api[t].pc = "connect"
    /\ api' = [api EXCEPT ![t] = Idle]
    /\ UNCHANGED <<setup, tableVars, conns>>

\* Mutant of OpenNumber: the handle is the first one that looks free.
OpenNumberBySize(t) ==
    /\ api[t].pc = "number"
    /\ LET h == Cardinality(DOMAIN table) + 1 IN
       /\ api' = [api EXCEPT ![t].hnd = h, ![t].pc = "table"]
       /\ conns' = [conns EXCEPT ![api[t].arc].hnd = h]
    /\ UNCHANGED <<setup, tableVars>>

\* NEXT_HANDLE.fetch_add
OpenNumber(t) ==
    /\ api[t].pc = "number"
    /\ nextHandle' = nextHandle + 1
    /\ api' = [api EXCEPT ![t].hnd = nextHandle, ![t].pc = "table"]
    /\ conns' = [conns EXCEPT ![api[t].arc].hnd = nextHandle]
    /\ UNCHANGED <<setup, lock, table, issued>>

\* CONNS.lock(), by every call.
LockConns(t) ==
    /\ api[t].pc = "table" /\ lock = NoThread
    /\ lock' = t
    /\ Go(t, "locked")
    /\ UNCHANGED <<setup, nextHandle, table, issued, conns>>

OpenInsert(t) ==
    /\ api[t].pc = "locked" /\ api[t].op = "open"
    /\ LET h == api[t].hnd IN
       /\ table' = [k \in DOMAIN table \cup {h} |-> IF k = h THEN api[t].arc ELSE table[k]]
       /\ issued' = issued \cup {h}
    /\ lock' = NoThread
    /\ api' = [api EXCEPT ![t] = Idle]
    /\ UNCHANGED <<setup, nextHandle, conns>>

-----------------------------------------------------------------------------
(* Calls on a handle, open, closed by another thread or being closed.      *)

Call(t) ==
    /\ api[t].pc = "idle"
    /\ \E op \in setup.calls[t] \ {"open", "query"}, h \in issued, c \in Hosts(t) :
          api' = [api EXCEPT ![t] =
                    [Idle EXCEPT !.pc = "table", !.op = op, !.hnd = h, !.host = c]]
    /\ UNCHANGED <<setup, tableVars, conns>>

\* Mutant of Lookup: canWrite sends with CONNS locked, as before kvasilloni-lo7.
LookupSendsLocked(t) ==
    /\ api[t].pc = "locked" /\ api[t].op \notin {"open", "close"}
    /\ lock' = IF api[t].op = "write" /\ api[t].hnd \in DOMAIN table THEN t ELSE NoThread
    /\ api' = IF api[t].hnd \in DOMAIN table
              THEN LET c == table[api[t].hnd] IN
                   [api EXCEPT ![t].pc = api[t].op, ![t].ring = c,
                      ![t].arc = IF api[t].op = "read_sync" THEN 0 ELSE c]
              ELSE [api EXCEPT ![t] = Idle]
    /\ UNCHANGED <<setup, nextHandle, table, issued, conns>>

\* with_conn and its copies: clones the Arc, and canReadSync only the ring's;
\* an unknown handle ends the call.
Lookup(t) ==
    /\ api[t].pc = "locked" /\ api[t].op \notin {"open", "close"}
    /\ lock' = NoThread
    /\ api' = IF api[t].hnd \in DOMAIN table
              THEN LET c == table[api[t].hnd] IN
                   [api EXCEPT ![t].pc = api[t].op, ![t].ring = c,
                      ![t].arc = IF api[t].op = "read_sync" THEN 0 ELSE c]
              ELSE [api EXCEPT ![t] = Idle]
    /\ UNCHANGED <<setup, nextHandle, table, issued, conns>>

\* The call returns and drops its Arc.  The last one to do so runs Drop, whose
\* close() finds nothing left to do unless nobody has closed the channel.
Leave(t) ==
    /\ api[t].pc = "leave"
    /\ LET c == api[t].arc
           last == c # 0 /\ Holders(c) = {t} /\ \A h \in DOMAIN table : table[h] # c
       IN  IF last /\ conns[c].joinable THEN Go(t, "stop")
           ELSE api' = [api EXCEPT ![t] = Idle]
    /\ lock' = IF lock = t THEN NoThread ELSE lock
    /\ UNCHANGED <<setup, nextHandle, table, issued, conns>>

\* canWrite and canWriteWait: a send, which a TCP peer that reads nothing can
\* hold up.
Write(t) ==
    /\ api[t].pc = "write"
    /\ Go(t, "leave")
    /\ UNCHANGED <<setup, tableVars, conns>>

\* A write_all that fails or times out tears the TCP connection down.
WriteFails(t) ==
    /\ api[t].pc = "write" /\ setup.mode = "tcp"
    /\ conns' = [conns EXCEPT ![api[t].arc].running = FALSE, ![api[t].arc].shut = TRUE]
    /\ Go(t, "leave")
    /\ UNCHANGED <<setup, tableVars>>

\* Mutant of WaitOver: a read from a callback waits like any other, as before
\* kvasilloni-2qh.
WaitOverAnywhere(t) == conns[api[t].ring].level > 0 \/ conns[api[t].ring].closed

\* A read with canWAIT_INFINITE waits for a frame or the end of the channel; in a
\* notify callback it only polls (read_wait_duration).
WaitOver(t) ==
    \/ conns[api[t].ring].level > 0 \/ conns[api[t].ring].closed
    \/ api[t].host # 0

\* canReadWait
ReadWait(t) ==
    /\ api[t].pc = "read_wait" /\ WaitOver(t)
    /\ conns' = [conns EXCEPT ![api[t].ring].level = IF @ > 0 THEN @ - 1 ELSE 0]
    /\ Go(t, "leave")
    /\ UNCHANGED <<setup, tableVars>>

\* canReadSync
ReadSync(t) ==
    /\ api[t].pc = "read_sync" /\ WaitOver(t)
    /\ Go(t, "leave")
    /\ UNCHANGED <<setup, tableVars, conns>>

\* canFlushReceiveQueue, canIoCtl(canIOCTL_FLUSH_RX_BUFFER): Shared::clear.
Flush(t) ==
    /\ api[t].pc = "flush"
    /\ conns' = [conns EXCEPT ![api[t].ring].level = 0]
    /\ Go(t, "unlatch")
    /\ UNCHANGED <<setup, tableVars>>

FlushOverflow(t) ==
    /\ api[t].pc = "unlatch"
    /\ conns' = [conns EXCEPT ![api[t].ring].overflow = FALSE]
    /\ Go(t, "leave")
    /\ UNCHANGED <<setup, tableVars>>

\* canReadStatus: three reads, each on its own.
Bit(t, set, bit, pc) ==
    /\ api' = [api EXCEPT ![t].pc = pc, ![t].st = IF set THEN @ \cup {bit} ELSE @]
    /\ UNCHANGED <<setup, tableVars, conns>>

StatusLevel(t) ==
    /\ api[t].pc = "status"
    /\ Bit(t, conns[api[t].ring].level > 0, "RX_PENDING", "overflowed")

StatusOverrun(t) ==
    /\ api[t].pc = "overflowed"
    /\ Bit(t, conns[api[t].ring].overflow, "SW_OVERRUN", "link_lost")

StatusLink(t) ==
    /\ api[t].pc = "link_lost"
    /\ Bit(t, conns[api[t].ring].lost, "BUS_OFF", "leave")

\* canGetErrorText, canGetChannelData, canIoCtl, canGetBusStatistics, with a
\* buffer of any size: they answer without the table, or with what the table
\* cannot change.
Query(t) ==
    /\ api[t].pc = "idle" /\ "query" \in setup.calls[t]
    /\ \E bufsize \in BufSizes : \E reply \in Replies(bufsize), c \in Hosts(t) :
          api' = [api EXCEPT ![t] = [Idle EXCEPT !.pc = "leave", !.op = "query",
                                                 !.host = c, !.reply = reply]]
    /\ UNCHANGED <<setup, tableVars, conns>>

-----------------------------------------------------------------------------
(* canClose                                                                *)

\* Mutant of CloseRemove: the entry is dropped and close() left to Drop.
CloseRemoveOnly(t) ==
    /\ api[t].pc = "locked" /\ api[t].op = "close"
    /\ LET h == api[t].hnd IN
       /\ table' = [k \in DOMAIN table \ {h} |-> table[k]]
       /\ api' = IF h \in DOMAIN table
                 THEN [api EXCEPT ![t].arc = table[h], ![t].pc = "leave"]
                 ELSE [api EXCEPT ![t] = Idle]
    /\ lock' = NoThread
    /\ UNCHANGED <<setup, nextHandle, issued, conns>>

\* Removing an unknown handle is a no-op.
CloseRemove(t) ==
    /\ api[t].pc = "locked" /\ api[t].op = "close"
    /\ LET h == api[t].hnd IN
       /\ table' = [k \in DOMAIN table \ {h} |-> table[k]]
       /\ api' = IF h \in DOMAIN table
                 THEN [api EXCEPT ![t].arc = table[h], ![t].pc = "stop"]
                 ELSE [api EXCEPT ![t] = Idle]
    /\ lock' = NoThread
    /\ UNCHANGED <<setup, nextHandle, issued, conns>>

\* Conn::close up to the join: running, mark_closed, shutdown.
CloseStop(t) ==
    /\ api[t].pc = "stop"
    /\ conns' = [conns EXCEPT ![api[t].arc].running = FALSE, ![api[t].arc].shut = TRUE,
                              ![api[t].arc].closed = TRUE]
    /\ Go(t, "take")
    /\ UNCHANGED <<setup, tableVars>>

\* Mutant of CloseTake: the RX thread is left to end by itself, whoever closes.
CloseTakeNoJoin(t) ==
    /\ api[t].pc = "take"
    /\ conns' = [conns EXCEPT ![api[t].arc].joinable = FALSE]
    /\ Go(t, "leave")
    /\ UNCHANGED <<setup, tableVars>>

\* The first to take the JoinHandle joins, unless it runs on the RX thread itself,
\* which would wait for its own end: that one only detaches it.
CloseTake(t) ==
    /\ api[t].pc = "take"
    /\ LET c == api[t].arc
           joins == conns[c].joinable /\ api[t].host # c
       IN  /\ conns' = [conns EXCEPT ![c].joinable = FALSE]
           /\ Go(t, IF joins THEN "join" ELSE "leave")
    /\ UNCHANGED <<setup, tableVars>>

CloseJoin(t) ==
    /\ api[t].pc = "join" /\ conns[api[t].arc].rx = "done"
    /\ Go(t, "leave")
    /\ UNCHANGED <<setup, tableVars, conns>>

-----------------------------------------------------------------------------
(* The RX thread of connection c (udp_rx_loop, tcp_rx_loop).               *)

Rx(c, from, change) ==
    /\ conns[c].rx = from
    /\ conns' = [conns EXCEPT ![c] = change]
    /\ UNCHANGED <<setup, tableVars, api>>

\* What follows the loop.
AfterLoop == IF setup.mode = "tcp" THEN "swap" ELSE "done"

RxTest(c) ==
    Rx(c, "test", [conns[c] EXCEPT !.rx = IF conns[c].running THEN "receive" ELSE AfterLoop])

\* A callback can be armed for a channel whose handle is known.
Armed(c) == setup.callbacks # {} /\ conns[c].hnd \in issued

\* push: a frame that finds room is queued, and then the callback runs.
RxFrame(c) ==
    Rx(c, "receive",
       IF conns[c].level < RingCap
       THEN [conns[c] EXCEPT !.rx = IF Armed(c) THEN "callback" ELSE "test",
                             !.level = @ + 1]
       ELSE [conns[c] EXCEPT !.rx = "test", !.overflow = TRUE])

\* The callback returns, when the last call it made has.
RxReturn(c) ==
    /\ ~Hosting(c)
    /\ Rx(c, "callback", [conns[c] EXCEPT !.rx = "test"])

\* The UDP read timeout, or the TCP shutdown by close or a failed write.
RxInterrupted(c) ==
    /\ setup.mode = "tcp" => conns[c].shut
    /\ Rx(c, "receive", [conns[c] EXCEPT !.rx = IF setup.mode = "tcp" THEN "swap" ELSE "test"])

\* The peer closes, resets or garbles the stream; a UDP receive error.
RxError(c) == Rx(c, "receive", [conns[c] EXCEPT !.rx = AfterLoop])

RxSwap(c) ==
    Rx(c, "swap", [conns[c] EXCEPT !.running = FALSE,
                                   !.rx = IF conns[c].running THEN "latch" ELSE "done"])

RxLatch(c) == Rx(c, "latch", [conns[c] EXCEPT !.lost = TRUE, !.rx = "mark"])

RxMark(c) == Rx(c, "mark", [conns[c] EXCEPT !.closed = TRUE, !.rx = "done"])

-----------------------------------------------------------------------------
RxStep(c) == RxTest(c) \/ RxInterrupted(c) \/ RxSwap(c) \/ RxLatch(c) \/ RxMark(c)

\* Steps of a call under way, which the system does not delay forever.
CallStep(t) ==
    \/ OpenFails(t) \/ OpenNumber(t) \/ OpenInsert(t)
    \/ Lookup(t) \/ Leave(t) \/ ReadWait(t) \/ ReadSync(t)
    \/ Flush(t) \/ FlushOverflow(t)
    \/ StatusLevel(t) \/ StatusOverrun(t) \/ StatusLink(t)
    \/ CloseRemove(t) \/ CloseStop(t) \/ CloseTake(t) \/ CloseJoin(t)

Next ==
    \/ \E t \in Threads : Open(t) \/ OpenConnected(t) \/ Call(t) \/ LockConns(t)
                        \/ CallStep(t) \/ Write(t) \/ WriteFails(t) \/ Query(t)
    \/ \E c \in DOMAIN conns : RxStep(c) \/ RxFrame(c) \/ RxReturn(c) \/ RxError(c)

\* A send that does not depend on the peer: a datagram's, or one on a stream that
\* was shut down.  The code's write timeout is not relied on.
SendEnds(t) ==
    /\ api[t].pc = "write"
    /\ setup.mode = "tcp" => conns[api[t].arc].shut
    /\ Write(t) \/ WriteFails(t)

\* A thread is not starved at the mutex, and goes on when it can.  A callback does
\* not make calls for ever.
Fairness ==
    /\ \A t \in Threads :
          SF_vars(LockConns(t)) /\ WF_vars(CallStep(t)) /\ WF_vars(SendEnds(t))
    /\ \A c \in 1..MaxOpens : /\ WF_vars(c \in DOMAIN conns /\ RxStep(c))
                             /\ SF_vars(c \in DOMAIN conns /\ RxReturn(c))

Spec == Init /\ [][Next]_vars /\ Fairness

-----------------------------------------------------------------------------
(* Properties.                                                             *)

ConnType ==
    [hnd : 0..MaxOpens,
     rx : {"test", "receive", "callback", "swap", "latch", "mark", "done"},
     running : BOOLEAN, joinable : BOOLEAN, shut : BOOLEAN, closed : BOOLEAN,
     lost : BOOLEAN, level : 0..RingCap, overflow : BOOLEAN]
Pcs == {"idle", "connect", "number", "table", "locked", "write", "read_wait",
        "read_sync", "status", "overflowed", "link_lost", "flush", "unlatch",
        "stop", "take", "join", "leave"}

\* Types; the table names connections that exist, a call that uses one has it,
\* and the ring stays within its capacity.
TypeOK ==
    /\ setup \in Setups
    /\ lock \in Threads \cup {NoThread}
    /\ nextHandle \in 1..(MaxOpens + 1) /\ issued \subseteq 1..MaxOpens
    /\ conns \in Seq(ConnType) /\ Len(conns) <= MaxOpens
    /\ DOMAIN table \subseteq issued
    /\ \A h \in DOMAIN table : table[h] \in DOMAIN conns
    /\ api \in [Threads ->
          [pc : Pcs, op : Ops \cup {"none"}, host : 0..Len(conns), hnd : 0..MaxOpens,
           arc : 0..Len(conns), ring : 0..Len(conns),
           st : SUBSET {"RX_PENDING", "SW_OVERRUN", "BUS_OFF"},
           reply : {api[t].reply : t \in Threads}]]

\* A handle names one channel for ever: a call that looks it up, however late,
\* reaches the channel it was returned for or none (NEXT_HANDLE: "never reuse,
\* so a stale handle from a closed channel fails lookup cleanly").
HandleNamesOneChannel ==
    /\ \A c, d \in DOMAIN conns : conns[c].hnd # 0 /\ conns[c].hnd = conns[d].hnd => c = d
    /\ \A h \in DOMAIN table : conns[table[h]].hnd = h
    /\ \A t \in Threads : api[t].ring # 0 => conns[api[t].ring].hnd = api[t].hnd

\* The RX thread of c has been told to stop while it was running its callback, and
\* ends without receiving again.
Leaving(c) == ~conns[c].running /\ conns[c].rx \in {"callback", "test", "swap"}

\* No RX thread, and with it no socket, is left to itself: the table entry of its
\* channel or a call on it remains to stop and join it, or it is the thread that
\* closed the channel, from its own callback, and is already on its way out
\* (canClose, Conn::close with its detach, Drop for Conn).
NoOrphan == \A c \in DOMAIN conns : conns[c].rx # "done" => Alive(c) \/ Leaving(c)

\* What the test of canReadStatus says of a lost link: "RX_PENDING for any frames
\* still queued at the drop is reported alongside it".  The level is read before
\* the loss, and a frame can be queued and the link lost between the two reads.
PendingBesideBusOff ==
    \A t \in Threads :
        /\ api[t].op = "status" /\ api[t].pc = "leave" /\ "BUS_OFF" \in api[t].st
        /\ conns[api[t].ring].level > 0
        => "RX_PENDING" \in api[t].st

\* No export stores past the size its caller stated, and a text that is stored
\* ends in a NUL inside the buffer with nothing behind it, also when it was cut
\* (out_u32, out_u64, out_cstr, canGetErrorText, canGetChannelData, canIoCtl).
RepliesFit ==
    \A t \in Threads :
        LET r == api[t].reply IN
        /\ DOMAIN r.stores \subseteq 0..(r.size - 1)
        /\ r.text /\ r.size > 0 =>
              \E n \in 0..(r.size - 1) : r.stores = CString(n)

\* Every call gets through the table, although other calls wait for a peer that
\* takes nothing, connect, join an RX thread or wait for a frame for ever
\* (CONNS: "a call can clone its channel out of the map and then operate on it
\* *without* holding the global lock").
LookupsProceed ==
    \A t \in Threads : api[t].pc \in {"table", "locked"} ~> api[t].pc \notin {"table", "locked"}

\* A call made from a notify callback returns, whatever the others do: it never
\* waits for a frame, which only its own thread could queue, nor for the end of
\* its own thread (read_wait_duration, Conn::close).
CallbackCallsReturn == \A t \in Threads : api[t].host # 0 ~> api[t].host = 0

\* A channel taken out of the table gives up its sockets and its local port,
\* whatever calls were waiting on it (canClose, mark_closed, Drop for Conn).
ClosedSocketReleased ==
    \A h \in 1..MaxOpens :
        (h \in issued /\ h \notin DOMAIN table)
            ~> (\A c \in DOMAIN conns : conns[c].hnd = h => ~SocketHeld(c))
=============================================================================
