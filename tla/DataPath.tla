------------------------------ MODULE DataPath ------------------------------
(***************************************************************************)
(* What a frame goes through from one application to another: canWrite at  *)
(* the sender (write_frame, src/src/lib.rs), the codec (module Wire), the  *)
(* TCP stream, the receive loop that drives the stream decoder             *)
(* (tcp_rx_loop, src/src/transport.rs), and canRead at the receiver        *)
(* (write_read_outputs, src/src/lib.rs).                                   *)
(*                                                                         *)
(* The sender is another kvasilloni, or a peer that fills in the header of *)
(* a frame as it likes and may break off within it.  The ring is a queue   *)
(* here: module RxRing models it.                                          *)
(***************************************************************************)
EXTENDS Wire

CONSTANTS
    Ids,         \* identifiers given to canWrite (a C long cast to 32 bits)
    Dlcs,        \* lengths given to canWrite
    Flags,       \* sets of canMSG_* flags given to canWrite
    Msgs,        \* payloads given to canWrite: byte sequences, NullMsg = none
    PeerIds,     \* can_ids a peer may put in a header
    PeerLens,    \* length bytes a peer may put in a header
    MaxSent      \* bound: frames that are sent

NullMsg   == <<>>
ChunkSize == 80

ASSUME DataPathAssumption ==
    /\ Ids \subseteq Int
    /\ Dlcs \subseteq Nat
    /\ \A flag \in Flags :
         flag \subseteq {"RTR", "STD", "EXT", "FDF", "BRS", "ESI"}
    /\ \A msg \in Msgs : msg = NullMsg \/ (msg \in Seq(Byte) /\ Len(msg) >= 64)
    /\ PeerIds \subseteq CanId
    /\ PeerLens \subseteq Byte
    /\ MaxSent \in Nat

VARIABLES
    fdCapable,   \* the receiver opened its channel with canOPEN_CAN_FD
    stream,      \* bytes sent and not yet read
    peerOpen,    \* the sender has not closed the connection
    alive,       \* the receive loop goes on
    st,          \* state of the decoder
    f,           \* frame being decoded
    need,        \* bytes the decoder asked for
    ring,        \* frames received and not yet read
    sent,        \* history: what was sent, [raw, call] records
    pushed,      \* history: frames put into the ring
    reads        \* history: what canRead returned

loopVars == <<alive, st, f, need>>
vars     == <<fdCapable, stream, peerOpen, alive, st, f, need, ring, sent,
              pushed, reads>>

\* The receive loop has primed the decoder.
Init ==
    LET first == DecodeStream(<<>>, DefaultFrame, "Init")
    IN  /\ fdCapable \in BOOLEAN
        /\ stream = <<>>
        /\ peerOpen = TRUE
        /\ alive = TRUE
        /\ st = first.st
        /\ f = first.f
        /\ need = first.need
        /\ ring = <<>>
        /\ sent = <<>>
        /\ pushed = <<>>
        /\ reads = <<>>

AtMost(n, limit) == IF n < limit THEN n ELSE limit

-----------------------------------------------------------------------------
(* The sender. *)

\* The frame that write_frame builds from the arguments of canWrite.
WriteFrame(id, dlc, flag, msg) ==
    LET fd   == "FDF" \in flag
        user == AtMost(dlc, IF fd THEN 64 ELSE 8)
    IN  [can_id   |-> KvaserToCanId(id, flag),
         len      |-> IF fd THEN FdRoundLen(user) ELSE user,
         fd       |-> fd,
         fd_flags |-> IF fd THEN KvaserToFdFlags(flag) ELSE 0,
         data     |-> IF msg # NullMsg /\ "RTR" \notin flag
                      THEN SubSeq(msg, 1, user) ELSE <<>>]

Send(raw, call) ==
    /\ peerOpen
    /\ Len(sent) < MaxSent
    /\ stream' = stream \o raw
    /\ sent' = Append(sent, [raw |-> raw, call |-> call])

CanWrite(id, dlc, flag, msg) ==
    /\ Send(EncodeFrame(WriteFrame(id, dlc, flag, msg)),
            [by |-> "canWrite", id |-> id, dlc |-> dlc, flag |-> flag,
             msg |-> msg])
    /\ UNCHANGED <<fdCapable, peerOpen, loopVars, ring, pushed, reads>>

PeerCall == [by |-> "peer"]

\* Any header, and as many bytes as it announces.
PeerBytes(c, len) ==
    ToBeBytes(c) \o <<len>> \o (IF len >= CANFD_FRAME THEN <<255>> ELSE <<>>)
    \o (IF c.rtr THEN <<>> ELSE [i \in 1..(len % CANFD_FRAME) |-> 100 + i])

PeerSends(c, len) ==
    /\ Send(PeerBytes(c, len), PeerCall)
    /\ UNCHANGED <<fdCapable, peerOpen, loopVars, ring, pushed, reads>>

\* The peer closes after the first n bytes of a frame (n = 0: between frames).
PeerBreaksOff(c, len, n) ==
    /\ n < Len(PeerBytes(c, len))
    /\ IF n = 0 THEN peerOpen /\ UNCHANGED <<stream, sent>>
       ELSE Send(SubSeq(PeerBytes(c, len), 1, n), PeerCall)
    /\ peerOpen' = FALSE
    /\ UNCHANGED <<fdCapable, loopVars, ring, pushed, reads>>

-----------------------------------------------------------------------------
(* The receive loop. *)

\* The loop ends: the buffer cannot hold what was asked for, or read_exact
\* fails because the stream ended before that.
RxEnd ==
    /\ alive
    /\ need \in 1..ChunkSize => ~peerOpen /\ Len(stream) < need
    /\ alive' = FALSE
    /\ UNCHANGED <<fdCapable, stream, peerOpen, st, f, need, ring, sent, pushed,
                   reads>>

\* read_exact of what the decoder needs, and one step of the decoder.  A
\* complete frame goes into the ring and the decoder is primed for the next.
RxChunk ==
    LET d    == DecodeStream(SubSeq(stream, 1, need), f, st)
        next == DecodeStream(<<>>, DefaultFrame, "Init")
        full == d.res = "Complete"
    IN  /\ alive
        /\ need \in 1..ChunkSize
        /\ Len(stream) >= need
        /\ stream' = SubSeq(stream, need + 1, Len(stream))
        /\ alive' = (d.res # "Error")
        /\ st' = IF full THEN next.st ELSE d.st
        /\ f' = IF full THEN next.f ELSE d.f
        /\ need' = IF full THEN next.need
                   ELSE IF d.res = "Need" THEN d.need ELSE need
        /\ ring' = IF full THEN Append(ring, d.f) ELSE ring
        /\ pushed' = IF full THEN Append(pushed, d.f) ELSE pushed
        /\ UNCHANGED <<fdCapable, peerOpen, sent, reads>>

-----------------------------------------------------------------------------
(* The receiver. *)

\* Mutant of WriteReadOutputs: a frame is delivered at its own length.
WriteReadOutputsUncapped(g, fdCap) ==
    LET reportFd == g.fd /\ fdCap
        k        == CanIdToKvaser(g.can_id, reportFd)
    IN  [id   |-> k.id,
         flag |-> k.flag \cup
                  (IF reportFd THEN FdFlagsToKvaser(g.fd_flags) ELSE {}),
         dlc  |-> g.len,
         msg  |-> IF IsRtr(g) THEN <<>> ELSE DataBytes(g, g.len)]

\* What canRead hands out: FD only on a channel that was opened for it.
WriteReadOutputs(g, fdCap) ==
    LET reportFd == g.fd /\ fdCap
        k        == CanIdToKvaser(g.can_id, reportFd)
        n        == AtMost(g.len, LenLimit(fdCap))
    IN  [id   |-> k.id,
         flag |-> k.flag \cup
                  (IF reportFd THEN FdFlagsToKvaser(g.fd_flags) ELSE {}),
         dlc  |-> n,
         msg  |-> IF IsRtr(g) THEN <<>> ELSE DataBytes(g, n)]

CanRead ==
    /\ ring # <<>>
    /\ ring' = Tail(ring)
    /\ reads' = Append(reads, WriteReadOutputs(Head(ring), fdCapable))
    /\ UNCHANGED <<fdCapable, stream, peerOpen, loopVars, sent, pushed>>

-----------------------------------------------------------------------------
Next ==
    \/ \E id \in Ids, dlc \in Dlcs, flag \in Flags, msg \in Msgs :
         CanWrite(id, dlc, flag, msg)
    \/ \E c \in PeerIds, len \in PeerLens : PeerSends(c, len)
    \/ \E c \in PeerIds, len \in PeerLens, n \in 0..7 : PeerBreaksOff(c, len, n)
    \/ RxEnd \/ RxChunk \/ CanRead

Spec == Init /\ [][Next]_vars

-----------------------------------------------------------------------------
(* Properties. *)

\* Every variable has its type.
TypeOK ==
    /\ fdCapable \in BOOLEAN /\ peerOpen \in BOOLEAN /\ alive \in BOOLEAN
    /\ stream \in Seq(Byte)
    /\ st \in DecodeStates
    /\ f \in Frame
    /\ need \in Nat
    /\ ring \in Seq(Frame)
    /\ pushed \in Seq(Frame)

\* Whatever bytes arrive, the decoder waits for some, but for no more than the
\* 80-byte buffer of tcp_rx_loop holds, and for as many as its state can take.
NeedFits ==
    alive => /\ need \in 1..ChunkSize
             /\ st # "Init"
             /\ need = (CASE st = "CanId" -> 4 [] st \in {"Len", "Flags"} -> 1
                          [] OTHER -> f.len)

\* No frame that reaches the ring is longer than its class allows, and its
\* data is as long as it says (kvasilloni-kkt, kvasilloni-nmt).
LengthClass ==
    \A i \in 1..Len(pushed) :
        /\ pushed[i].len <= LenLimit(pushed[i].fd)
        /\ Len(pushed[i].data) = IF IsRtr(pushed[i]) THEN 0 ELSE pushed[i].len

\* canRead writes no more than 8 bytes into the caller's buffer on a channel
\* that was not opened for CAN FD, whatever arrived.
BufferFits ==
    \A i \in 1..Len(reads) :
        /\ Len(reads[i].msg) <= (IF fdCapable THEN 64 ELSE 8)
        /\ "FDF" \in reads[i].flag => fdCapable

\* What parse_udp makes of the i-th thing sent, had it come as a datagram.
AsDatagram(i) == ParseUdp(Datagram(0, 1, sent[i].raw))

\* Both transports agree: the stream delivers, in order, the frames that the
\* same bytes deliver as datagrams, and gives up at the first that parse_udp
\* refuses and only there.
TransportsAgree ==
    /\ \A i \in 1..Len(pushed) :
         i <= Len(sent) /\ AsDatagram(i) = Some(<<pushed[i]>>, AsDatagram(i).p)
    /\ alive /\ stream = <<>> /\ st = "CanId" => Len(pushed) = Len(sent)
    /\ ~alive => \/ \E i \in 1..Len(sent) : ~AsDatagram(i).ok
                 \/ ~peerOpen

\* The bytes of everything that was sent.
AllBytes ==
    LET upTo[k \in 0..Len(sent)] ==
            IF k = 0 THEN <<>> ELSE upTo[k - 1] \o sent[k].raw
    IN  upTo[Len(sent)]

\* A datagram of several frames is all or nothing: it delivers what each of
\* its frames would deliver alone, and nothing if one of them is refused.
DatagramAllOrNothing ==
    LET all == ParseUdp(Datagram(0, Len(sent), AllBytes))
    IN  IF \A i \in 1..Len(sent) : AsDatagram(i).ok
        THEN all.frames = [i \in 1..Len(sent) |-> AsDatagram(i).frames[1]]
        ELSE ~all.ok

-----------------------------------------------------------------------------
(* What the arguments of canWrite should come out as at canRead. *)

Expected(call) ==
    LET fd   == "FDF" \in call.flag
        ext  == "EXT" \in call.flag
        user == AtMost(call.dlc, IF fd THEN 64 ELSE 8)
        len  == CHOOSE n \in FdLengths :
                    n >= user /\ \A m \in FdLengths : m >= user => n <= m
        dlc  == IF fdCapable THEN len ELSE AtMost(len, 8)
    IN  [id   |-> call.id % (IF ext THEN EFF_SIZE ELSE SFF_SIZE),
         flag |-> {IF ext THEN "EXT" ELSE "STD"} \cup (call.flag \cap {"RTR"})
                  \cup (IF fd /\ fdCapable
                        THEN call.flag \cap {"FDF", "BRS", "ESI"} ELSE {}),
         dlc  |-> dlc,
         msg  |-> IF "RTR" \in call.flag THEN <<>>
                  ELSE [i \in 1..dlc |-> IF i <= AtMost(user, Len(call.msg))
                                         THEN call.msg[i] ELSE 0]]

\* What is written is what is read: identifier, flags, length and data of the
\* i-th canWrite come out of the i-th canRead, padded to a CAN FD length.
RoundTrip ==
    \A i \in 1..Len(reads) :
        sent[i].call # PeerCall => reads[i] = Expected(sent[i].call)
=============================================================================
