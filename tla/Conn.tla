-------------------------------- MODULE Conn --------------------------------
(***************************************************************************)
(* The life of one connection after connect has succeeded: write, close,   *)
(* the TCP and UDP receive loops and their teardown paths (struct Conn,    *)
(* src/src/transport.rs), with the application's threads calling canWrite, *)
(* canReadWait and canClose.                                               *)
(*                                                                         *)
(* A step is one atomic store, one lock operation or one system call.  The *)
(* receive ring (module RxRing) appears as its level and its closed flag:  *)
(* a blocked reader returns when there is a frame or the flag is set.      *)
(*                                                                         *)
(* A TCP frame goes out in two parts, head and tail, since write_all may   *)
(* need several writes and may fail between them.                          *)
(***************************************************************************)
EXTENDS Naturals, Sequences

CONSTANTS
    Protos,      \* the transports to check: subset of {"tcp", "udp"}
    Threads,     \* the application's threads
    Calls,       \* Calls[t]: subset of {"write", "close", "read_wait"}
    SeqMod,      \* UDP sequence numbers wrap at SeqMod (256 in the code)
    MaxSends,    \* bound: parts or datagrams that are sent
    MaxFrames    \* bound: frames that arrive

NoThread == "nobody"

ASSUME ConnAssumption ==
    /\ Protos \subseteq {"tcp", "udp"}
    /\ NoThread \notin Threads
    /\ Calls \in [Threads -> SUBSET {"write", "close", "read_wait"}]
    /\ SeqMod \in Nat \ {0}
    /\ MaxSends \in Nat
    /\ MaxFrames \in Nat

VARIABLES
    proto,       \* Config.proto of this connection
    running,     \* the receive loop may go on
    negotiated,  \* is_ready
    linkLost,    \* Shared.link_lost: canSTAT_BUS_OFF
    ringClosed,  \* Shared.closed
    level,       \* frames in the ring
    sock,        \* "open" or "shut" (both directions)
    peer,        \* "up" or "gone"
    txLock,      \* holder of the tx mutex, or NoThread
    seq,         \* next UDP sequence number
    wire,        \* what was sent: TCP [part, by] or UDP [seq, ok] records
    joinable,    \* nobody has taken the JoinHandle yet
    rx,          \* where the RX thread is
    arrived,     \* frames received so far
    pc,          \* where each application thread is
    stopper,     \* history: who cleared running first
    closeDone    \* history: some close() has returned

flagVars == <<running, negotiated, linkLost, ringClosed, stopper>>
txVars   == <<txLock, seq, wire>>
rxVars   == <<rx, arrived, level>>
lifeVars == <<proto, joinable, closeDone>>
vars     == <<proto, running, negotiated, linkLost, ringClosed, level, sock,
              peer, txLock, seq, wire, joinable, rx, arrived, pc, stopper,
              closeDone>>

\* connect has returned: the handshake is done and the RX thread spawned.
Init ==
    /\ proto \in Protos
    /\ running = TRUE
    /\ negotiated = TRUE
    /\ linkLost = FALSE
    /\ ringClosed = FALSE
    /\ level = 0
    /\ sock = "open"
    /\ peer = "up"
    /\ txLock = NoThread
    /\ seq = 0
    /\ wire = <<>>
    /\ joinable = TRUE
    /\ rx = "check"
    /\ arrived = 0
    /\ pc = [t \in Threads |-> "idle"]
    /\ stopper = "none"
    /\ closeDone = FALSE

Goto(t, l) == pc' = [pc EXCEPT ![t] = l]

\* running.store(false) or running.swap(false) by who.
ClearRunning(who) ==
    /\ running' = FALSE
    /\ stopper' = IF running THEN who ELSE stopper

-----------------------------------------------------------------------------
(* canWrite: Conn::write. *)

\* A connection that is not ready is an error at once.
WriteReady(t) ==
    /\ pc[t] = "idle"
    /\ "write" \in Calls[t]
    /\ negotiated
    /\ Len(wire) < MaxSends
    /\ Goto(t, "tx_wait")
    /\ UNCHANGED <<flagVars, txVars, rxVars, sock, peer, lifeVars>>

WriteLock(t) ==
    /\ pc[t] = "tx_wait"
    /\ txLock = NoThread
    /\ txLock' = t
    /\ Goto(t, "sending")
    /\ UNCHANGED <<flagVars, rxVars, sock, peer, seq, wire, lifeVars>>

\* Mutant of WriteDatagram: the sequence number does not wrap.
WriteDatagramNoWrap(t, ok) ==
    /\ pc[t] = "sending"
    /\ proto = "udp"
    /\ wire' = Append(wire, [seq |-> seq, ok |-> ok])
    /\ seq' = seq + 1
    /\ txLock' = NoThread
    /\ Goto(t, "idle")
    /\ UNCHANGED <<flagVars, rxVars, sock, peer, lifeVars>>

\* Mutant of WriteDatagram: a failed send is counted by the next one.
WriteDatagramReuse(t, ok) ==
    /\ pc[t] = "sending"
    /\ proto = "udp"
    /\ wire' = Append(wire, [seq |-> seq, ok |-> ok])
    /\ seq' = IF ok THEN (seq + 1) % SeqMod ELSE seq
    /\ txLock' = NoThread
    /\ Goto(t, "idle")
    /\ UNCHANGED <<flagVars, rxVars, sock, peer, lifeVars>>

\* UDP: one datagram under the next number, which is used up even if the send
\* fails.  A failed send is only an error of this call.
WriteDatagram(t, ok) ==
    /\ pc[t] = "sending"
    /\ proto = "udp"
    /\ wire' = Append(wire, [seq |-> seq, ok |-> ok])
    /\ seq' = (seq + 1) % SeqMod
    /\ txLock' = NoThread
    /\ Goto(t, "idle")
    /\ UNCHANGED <<flagVars, rxVars, sock, peer, lifeVars>>

\* TCP: write_all puts the frame on an open socket, part by part.
WriteHead(t) ==
    /\ pc[t] = "sending"
    /\ proto = "tcp"
    /\ sock = "open"
    /\ wire' = Append(wire, [part |-> "head", by |-> t])
    /\ Goto(t, "half")
    /\ UNCHANGED <<flagVars, rxVars, sock, peer, txLock, seq, lifeVars>>

WriteTail(t) ==
    /\ pc[t] = "half"
    /\ sock = "open"
    /\ wire' = Append(wire, [part |-> "tail", by |-> t])
    /\ txLock' = NoThread
    /\ Goto(t, "idle")
    /\ UNCHANGED <<flagVars, rxVars, sock, peer, seq, lifeVars>>

\* Mutant of WriteFail: the connection still looks ready.
WriteFailStaysReady(t) ==
    /\ pc[t] \in {"sending", "half"}
    /\ proto = "tcp"
    /\ Goto(t, "fail_running")
    /\ UNCHANGED <<flagVars, txVars, rxVars, sock, peer, lifeVars>>

\* write_all fails: the write timeout passed, the peer is gone or the socket
\* was shut down.  Tear down, still under the tx lock: negotiated...
WriteFail(t) ==
    /\ pc[t] \in {"sending", "half"}
    /\ proto = "tcp"
    /\ negotiated' = FALSE
    /\ Goto(t, "fail_running")
    /\ UNCHANGED <<running, linkLost, ringClosed, stopper, txVars, rxVars,
                   sock, peer, lifeVars>>

\* ... running ...
WriteFailRunning(t) ==
    /\ pc[t] = "fail_running"
    /\ ClearRunning("write")
    /\ Goto(t, "fail_shutdown")
    /\ UNCHANGED <<negotiated, linkLost, ringClosed, txVars, rxVars, sock,
                   peer, lifeVars>>

\* Mutant of WriteFailShutdown: the socket stays open for waiting writers.
WriteFailNoShutdown(t) ==
    /\ pc[t] = "fail_shutdown"
    /\ txLock' = NoThread
    /\ Goto(t, "idle")
    /\ UNCHANGED <<flagVars, rxVars, sock, peer, seq, wire, lifeVars>>

\* ... shutdown; then the lock is released and the error returned.
WriteFailShutdown(t) ==
    /\ pc[t] = "fail_shutdown"
    /\ sock' = "shut"
    /\ txLock' = NoThread
    /\ Goto(t, "idle")
    /\ UNCHANGED <<flagVars, rxVars, peer, seq, wire, lifeVars>>

-----------------------------------------------------------------------------
(* canReadWait without a timeout: Shared::pop_wait. *)

ReadWait(t) ==
    /\ pc[t] = "idle"
    /\ "read_wait" \in Calls[t]
    /\ level = 0
    /\ ~ringClosed
    /\ Goto(t, "reading")
    /\ UNCHANGED <<flagVars, txVars, rxVars, sock, peer, lifeVars>>

ReadReturn(t) ==
    /\ pc[t] = "reading"
    /\ level > 0 \/ ringClosed
    /\ level' = IF level > 0 THEN level - 1 ELSE 0
    /\ Goto(t, "idle")
    /\ UNCHANGED <<flagVars, txVars, rx, arrived, sock, peer, lifeVars>>

-----------------------------------------------------------------------------
(* canClose: Conn::close on an application thread. *)

CloseRunning(t) ==
    /\ pc[t] = "idle"
    /\ "close" \in Calls[t]
    /\ ClearRunning("close")
    /\ Goto(t, "close_negotiated")
    /\ UNCHANGED <<negotiated, linkLost, ringClosed, txVars, rxVars, sock,
                   peer, lifeVars>>

CloseNegotiated(t) ==
    /\ pc[t] = "close_negotiated"
    /\ negotiated' = FALSE
    /\ Goto(t, "close_mark")
    /\ UNCHANGED <<running, linkLost, ringClosed, stopper, txVars, rxVars,
                   sock, peer, lifeVars>>

\* Mutant of CloseMark: blocked readers are not told, as before kvasilloni-hc9.
CloseMarkForgotten(t) ==
    /\ pc[t] = "close_mark"
    /\ Goto(t, "close_shutdown")
    /\ UNCHANGED <<flagVars, txVars, rxVars, sock, peer, lifeVars>>

CloseMark(t) ==
    /\ pc[t] = "close_mark"
    /\ ringClosed' = TRUE
    /\ Goto(t, "close_shutdown")
    /\ UNCHANGED <<running, negotiated, linkLost, stopper, txVars, rxVars,
                   sock, peer, lifeVars>>

\* Mutant of CloseShutdown: the socket stays open.
CloseNoShutdown(t) ==
    /\ pc[t] = "close_shutdown"
    /\ Goto(t, "close_take")
    /\ UNCHANGED <<flagVars, txVars, rxVars, sock, peer, lifeVars>>

\* Only a TCP socket is shut down.
CloseShutdown(t) ==
    /\ pc[t] = "close_shutdown"
    /\ sock' = IF proto = "tcp" THEN "shut" ELSE sock
    /\ Goto(t, "close_take")
    /\ UNCHANGED <<flagVars, txVars, rxVars, peer, lifeVars>>

\* Mutant of CloseTake: the RX thread is never joined.
CloseTakeNoJoin(t) ==
    /\ pc[t] = "close_take"
    /\ joinable' = FALSE
    /\ Goto(t, "idle")
    /\ closeDone' = TRUE
    /\ UNCHANGED <<proto, flagVars, txVars, rxVars, sock, peer>>

\* The first close takes the JoinHandle and joins.
CloseTake(t) ==
    /\ pc[t] = "close_take"
    /\ joinable' = FALSE
    /\ Goto(t, IF joinable THEN "close_join" ELSE "idle")
    /\ closeDone' = (closeDone \/ ~joinable)
    /\ UNCHANGED <<proto, flagVars, txVars, rxVars, sock, peer>>

CloseJoin(t) ==
    /\ pc[t] = "close_join"
    /\ rx = "exited"
    /\ closeDone' = TRUE
    /\ Goto(t, "idle")
    /\ UNCHANGED <<proto, flagVars, txVars, rxVars, sock, peer, joinable>>

-----------------------------------------------------------------------------
(* The RX thread: tcp_rx_loop and udp_rx_loop. *)

\* while running.  Leaving the loop, TCP still has its last lines to run.
RxCheck ==
    /\ rx = "check"
    /\ rx' = IF running THEN "recv"
             ELSE IF proto = "tcp" THEN "swap" ELSE "exited"
    /\ UNCHANGED <<flagVars, txVars, arrived, level, sock, peer, pc, lifeVars>>

\* A frame is received and pushed into the ring.
RxFrame ==
    /\ rx = "recv"
    /\ peer = "up"
    /\ arrived < MaxFrames
    /\ arrived' = arrived + 1
    /\ level' = level + 1
    /\ rx' = "check"
    /\ UNCHANGED <<flagVars, txVars, sock, peer, pc, lifeVars>>

\* TCP: the read fails, or the stream cannot be decoded.
RxFail ==
    /\ rx = "recv"
    /\ proto = "tcp"
    /\ peer = "gone" \/ sock = "shut"
    /\ rx' = "swap"
    /\ UNCHANGED <<flagVars, txVars, arrived, level, sock, peer, pc, lifeVars>>

\* UDP: the 500 ms read timeout.
RxTimeout ==
    /\ rx = "recv"
    /\ proto = "udp"
    /\ rx' = "check"
    /\ UNCHANGED <<flagVars, txVars, arrived, level, sock, peer, pc, lifeVars>>

\* UDP: any other receive error ends the loop, and nothing else.  A peer that
\* is gone can cause one (a port-unreachable answer to an earlier send).
RxError ==
    /\ rx = "recv"
    /\ proto = "udp"
    /\ peer = "gone"
    /\ rx' = "exited"
    /\ UNCHANGED <<flagVars, txVars, arrived, level, sock, peer, pc, lifeVars>>

\* Mutant of RxSwap: the loss is reported without looking at running.
RxSwapAlways ==
    /\ rx = "swap"
    /\ ClearRunning("rx")
    /\ rx' = "lost_negotiated"
    /\ UNCHANGED <<negotiated, linkLost, ringClosed, txVars, arrived, level,
                   sock, peer, pc, lifeVars>>

\* Mutant of RxSwap: the loop ends without reporting, as before kvasilloni-5gh.
RxSwapSilent ==
    /\ rx = "swap"
    /\ ClearRunning("rx")
    /\ rx' = "exited"
    /\ UNCHANGED <<negotiated, linkLost, ringClosed, txVars, arrived, level,
                   sock, peer, pc, lifeVars>>

\* TCP, after the loop: if running was still set this is an unsolicited loss.
RxSwap ==
    /\ rx = "swap"
    /\ ClearRunning("rx")
    /\ rx' = IF running THEN "lost_negotiated" ELSE "exited"
    /\ UNCHANGED <<negotiated, linkLost, ringClosed, txVars, arrived, level,
                   sock, peer, pc, lifeVars>>

RxLostNegotiated ==
    /\ rx = "lost_negotiated"
    /\ negotiated' = FALSE
    /\ rx' = "lost_link"
    /\ UNCHANGED <<running, linkLost, ringClosed, stopper, txVars, arrived,
                   level, sock, peer, pc, lifeVars>>

RxLostLink ==
    /\ rx = "lost_link"
    /\ linkLost' = TRUE
    /\ rx' = "lost_mark"
    /\ UNCHANGED <<running, negotiated, ringClosed, stopper, txVars, arrived,
                   level, sock, peer, pc, lifeVars>>

RxLostMark ==
    /\ rx = "lost_mark"
    /\ ringClosed' = TRUE
    /\ rx' = "exited"
    /\ UNCHANGED <<running, negotiated, linkLost, stopper, txVars, arrived,
                   level, sock, peer, pc, lifeVars>>

\* Environment: the peer closes, resets, or garbles the stream.
PeerGone ==
    /\ peer = "up"
    /\ peer' = "gone"
    /\ UNCHANGED <<flagVars, txVars, rxVars, sock, pc, lifeVars>>

-----------------------------------------------------------------------------
Writing(t) ==
    \/ WriteReady(t) \/ WriteLock(t)
    \/ \E ok \in BOOLEAN : WriteDatagram(t, ok)
    \/ WriteHead(t) \/ WriteTail(t)
    \/ WriteFail(t) \/ WriteFailRunning(t) \/ WriteFailShutdown(t)

Closing(t) ==
    \/ CloseRunning(t) \/ CloseNegotiated(t) \/ CloseMark(t)
    \/ CloseShutdown(t) \/ CloseTake(t) \/ CloseJoin(t)

RxThread ==
    \/ RxCheck \/ RxFrame \/ RxFail \/ RxTimeout \/ RxError
    \/ RxSwap \/ RxLostNegotiated \/ RxLostLink \/ RxLostMark

Next ==
    \/ \E t \in Threads :
         Writing(t) \/ ReadWait(t) \/ ReadReturn(t) \/ Closing(t)
    \/ RxThread
    \/ PeerGone

\* Threads inside a call and the RX thread keep running.  A send ends, at the
\* latest by its write timeout.  Nobody has to start a call, no frame has to
\* arrive and the peer does not have to go.
Fairness ==
    /\ WF_vars(RxCheck)
    /\ WF_vars(RxFail)
    /\ WF_vars(RxTimeout \/ RxError)
    /\ WF_vars(RxSwap \/ RxLostNegotiated \/ RxLostLink \/ RxLostMark)
    /\ \A t \in Threads :
         /\ WF_vars(pc[t] # "idle" /\ Writing(t))
         /\ WF_vars(ReadReturn(t))
         /\ WF_vars(pc[t] # "idle" /\ Closing(t))

Spec == Init /\ [][Next]_vars
FairSpec == Spec /\ Fairness

-----------------------------------------------------------------------------
(* Properties. *)

Sending == {"sending", "half", "fail_running", "fail_shutdown"}
Closers == {"close_negotiated", "close_mark", "close_shutdown", "close_take",
            "close_join"}

\* Every variable has its type, sequence numbers stay below SeqMod, and the
\* tx lock is held by the one thread that sends.
TypeOK ==
    /\ proto \in Protos
    /\ running \in BOOLEAN /\ negotiated \in BOOLEAN
    /\ linkLost \in BOOLEAN /\ ringClosed \in BOOLEAN
    /\ level \in 0..MaxFrames /\ arrived \in 0..MaxFrames
    /\ sock \in {"open", "shut"} /\ peer \in {"up", "gone"}
    /\ txLock \in Threads \cup {NoThread}
    /\ seq \in 0..(SeqMod - 1)
    /\ joinable \in BOOLEAN /\ closeDone \in BOOLEAN
    /\ rx \in {"check", "recv", "swap", "lost_negotiated", "lost_link",
               "lost_mark", "exited"}
    /\ pc \in [Threads ->
                 {"idle", "tx_wait", "reading"} \cup Sending \cup Closers]
    /\ \A t \in Threads : pc[t] \in Sending <=> txLock = t
    /\ stopper \in {"none", "write", "close", "rx"}

\* The TCP stream stays in frame: what is sent is a sequence of whole frames,
\* each from one thread, with at most one unfinished frame, at the very end.
\* A writer that passed is_ready before another one's write failed sends
\* nothing (write's teardown, kvasilloni-lo7).
StreamInFrame ==
    proto = "tcp" =>
        \A i \in 1..Len(wire) :
            IF i % 2 = 1 THEN wire[i].part = "head"
            ELSE wire[i].part = "tail" /\ wire[i].by = wire[i - 1].by

\* Concurrent writers number their datagrams consecutively, with no number
\* skipped or repeated, through the wrap (Tx::Udp seq).
DatagramsNumbered ==
    proto = "udp" => \A i \in 1..Len(wire) : wire[i].seq = (i - 1) % SeqMod

\* Bus-off is reported only for a loss that nobody on this side caused: the
\* receive loop, not close or a failed write, was first to clear running.
LossIsUnsolicited == linkLost => stopper = "rx"

\* A TCP connection whose receive loop has ended does not look ready.
DeadLinkNotReady ==
    proto = "tcp" /\ rx = "exited" =>
        /\ ~running
        /\ negotiated => \E t \in Threads : pc[t] = "close_negotiated"

\* After canClose has returned the connection is quiet: nothing more goes out
\* on the TCP stream, not even by a thread that was already inside canWrite,
\* and the status of the link no longer changes.
QuietAfterClose ==
    [][closeDone => /\ linkLost' = linkLost
                    /\ proto = "tcp" => wire' = wire]_vars

\* Every canWrite and every canClose returns, whatever the peer does.
CallsReturn ==
    \A t \in {u \in Threads : Calls[u] \cap {"write", "close"} # {}} :
        (pc[t] \notin {"idle", "reading"}) ~> (pc[t] = "idle")

\* A loss that the receive loop is first to notice is reported: canReadStatus
\* eventually shows bus-off.  Losing it to a close or a failed write is not.
ReceiveLossReported ==
    (proto = "tcp" /\ peer = "gone")
        ~> (linkLost \/ stopper \in {"close", "write"})

Readers == {t \in Threads : "read_wait" \in Calls[t]}

\* Unless a failed write tore the connection down, no reader stays blocked on
\* a TCP connection whose receive loop has ended.
ReadersReleased ==
    \A t \in Readers :
        (proto = "tcp" /\ rx = "exited" /\ pc[t] = "reading")
            ~> (pc[t] = "idle" \/ stopper = "write")

\* A dropped TCP link is observable: canReadStatus eventually reports bus-off,
\* unless the application itself has closed the channel.
DroppedLinkReported ==
    (proto = "tcp" /\ peer = "gone") ~> (linkLost \/ stopper = "close")
=============================================================================
