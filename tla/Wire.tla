-------------------------------- MODULE Wire --------------------------------
(***************************************************************************)
(* The cannelloni codec and the Kvaser <-> SocketCAN translation           *)
(* (src/src/wire.rs) as operators.  Bytes are the numbers 0..255 and the   *)
(* lengths are the real ones.                                              *)
(*                                                                         *)
(* A 32-bit can_id is a record of its three flag bits and its 29-bit id.   *)
(* A set of canMSG_* flags is the set of their names.  Of Frame.data only  *)
(* the bytes that were stored are kept: the rest of the array is zero.     *)
(***************************************************************************)
EXTENDS Integers, Sequences

Byte == 0..255

FRAME_VERSION         == 2
OP_DATA               == 0
DATA_PACKET_BASE_SIZE == 5
FRAME_BASE_SIZE       == 5
CANFD_FRAME           == 128
MAX_FRAME_LEN         == 64
CLASSIC_FRAME_MAX_LEN == 8
EFF_SIZE              == 2^29      \* CAN_EFF_MASK + 1
SFF_SIZE              == 2^11      \* CAN_SFF_MASK + 1

EffIds == 0..(EFF_SIZE - 1)
CanId  == [eff : BOOLEAN, rtr : BOOLEAN, err : BOOLEAN, id : EffIds]

Frame == [can_id : CanId, len : 0..127, fd : BOOLEAN, fd_flags : Byte,
          data : Seq(Byte)]

DefaultFrame ==
    [can_id |-> [eff |-> FALSE, rtr |-> FALSE, err |-> FALSE, id |-> 0],
     len |-> 0, fd |-> FALSE, fd_flags |-> 0, data |-> <<>>]

IsRtr(f) == f.can_id.rtr

\* The first n bytes of the array f.data.
DataBytes(f, n) == [i \in 1..n |-> IF i <= Len(f.data) THEN f.data[i] ELSE 0]

-----------------------------------------------------------------------------
(* Lengths, flags and identifiers. *)

FdLengths == (0..8) \cup {12, 16, 20, 24, 32, 48, 64}

\* Mutant of FdRoundLen: 32 is taken for too long for its own class.
FdRoundLenSkips32(n) ==
    CASE n \in 0..8   -> n
      [] n \in 9..12  -> 12
      [] n \in 13..16 -> 16
      [] n \in 17..20 -> 20
      [] n \in 21..24 -> 24
      [] n \in 25..31 -> 32
      [] n \in 32..48 -> 48
      [] OTHER        -> 64

FdRoundLen(n) ==
    CASE n \in 0..8   -> n
      [] n \in 9..12  -> 12
      [] n \in 13..16 -> 16
      [] n \in 17..20 -> 20
      [] n \in 21..24 -> 24
      [] n \in 25..32 -> 32
      [] n \in 33..48 -> 48
      [] OTHER        -> 64

\* The fd_flags byte: bit 0 is BRS and bit 1 is ESI.
KvaserToFdFlags(flag) ==
    (IF "BRS" \in flag THEN 1 ELSE 0) + (IF "ESI" \in flag THEN 2 ELSE 0)

FdFlagsToKvaser(b) ==
    {x \in {"BRS", "ESI"} : (b \div (IF x = "BRS" THEN 1 ELSE 2)) % 2 = 1}

KvaserToCanId(id, flag) ==
    [eff |-> "EXT" \in flag, rtr |-> "RTR" \in flag, err |-> FALSE,
     id  |-> IF "EXT" \in flag THEN id % EFF_SIZE ELSE id % SFF_SIZE]

CanIdToKvaser(c, fd) ==
    [id   |-> IF c.eff THEN c.id ELSE c.id % SFF_SIZE,
     flag |-> {IF c.eff THEN "EXT" ELSE "STD"}
              \cup (IF c.rtr THEN {"RTR"} ELSE {})
              \cup (IF fd THEN {"FDF"} ELSE {})]

\* u32::to_be_bytes and from_be_bytes.
ToBeBytes(c) ==
    << (IF c.eff THEN 128 ELSE 0) + (IF c.rtr THEN 64 ELSE 0)
           + (IF c.err THEN 32 ELSE 0) + c.id \div 2^24,
       (c.id \div 2^16) % 256, (c.id \div 256) % 256, c.id % 256 >>

FromBeBytes(b) ==
    [eff |-> b[1] >= 128, rtr |-> (b[1] \div 64) % 2 = 1,
     err |-> (b[1] \div 32) % 2 = 1,
     id  |-> (b[1] % 32) * 2^24 + b[2] * 2^16 + b[3] * 256 + b[4]]

-----------------------------------------------------------------------------
(* encode_frame and build_udp. *)

\* Mutant of EncodeFrame: an RTR frame is sent with its data.
EncodeFrameRtrData(f) ==
    ToBeBytes(f.can_id)
    \o << (f.len % CANFD_FRAME) + (IF f.fd THEN CANFD_FRAME ELSE 0) >>
    \o (IF f.fd THEN << f.fd_flags >> ELSE <<>>)
    \o DataBytes(f, f.len % CANFD_FRAME)

EncodeFrame(f) ==
    ToBeBytes(f.can_id)
    \o << (f.len % CANFD_FRAME) + (IF f.fd THEN CANFD_FRAME ELSE 0) >>
    \o (IF f.fd THEN << f.fd_flags >> ELSE <<>>)
    \o (IF IsRtr(f) THEN <<>> ELSE DataBytes(f, f.len % CANFD_FRAME))

\* A datagram of the frames whose encodings are joined in body.
Datagram(seq_no, count, body) ==
    <<FRAME_VERSION, OP_DATA, seq_no, count \div 256, count % 256>> \o body

BuildUdp(f, seq_no) == Datagram(seq_no, 1, EncodeFrame(f))

-----------------------------------------------------------------------------
(* decode_stream: each state is fed exactly the bytes it asked for. *)

DecodeStates == {"Init", "CanId", "Len", "Flags", "Data"}

Need(n, f, st) == [res |-> "Need", need |-> n, f |-> f, st |-> st]
Complete(f)    == [res |-> "Complete", need |-> 0, f |-> f, st |-> "Init"]
Error(f, st)   == [res |-> "Error", need |-> 0, f |-> f, st |-> st]

DecodeCanId(chunk, f) ==
    IF Len(chunk) # 4 THEN Error(f, "CanId")
    ELSE Need(1, [f EXCEPT !.can_id = FromBeBytes(chunk)], "Len")

\* The limit on the payload, which depends on the class of the frame.
LenLimit(fd) == IF fd THEN MAX_FRAME_LEN ELSE CLASSIC_FRAME_MAX_LEN

\* The data comes next, if there is any.
NeedData(f) ==
    IF IsRtr(f) \/ f.len = 0 THEN Complete(f) ELSE Need(f.len, f, "Data")

\* Mutant of DecodeLen: only the limit of CAN FD is checked, as before
\* kvasilloni-nmt.
DecodeLenOneLimit(chunk, f) ==
    IF Len(chunk) # 1 THEN Error(f, "Len")
    ELSE LET fd == chunk[1] >= CANFD_FRAME
             g  == [f EXCEPT !.fd = fd, !.len = chunk[1] % CANFD_FRAME]
         IN  IF g.len > MAX_FRAME_LEN THEN Error(g, "Len")
             ELSE IF fd THEN Need(1, g, "Flags") ELSE NeedData(g)

\* Mutant of DecodeLen: the length is not checked, as before kvasilloni-kkt.
DecodeLenNoLimit(chunk, f) ==
    IF Len(chunk) # 1 THEN Error(f, "Len")
    ELSE LET fd == chunk[1] >= CANFD_FRAME
             g  == [f EXCEPT !.fd = fd, !.len = chunk[1] % CANFD_FRAME]
         IN  IF fd THEN Need(1, g, "Flags") ELSE NeedData(g)

\* Mutant of DecodeLen: the FD bit stays in the length.
DecodeLenKeepsBit(chunk, f) ==
    IF Len(chunk) # 1 THEN Error(f, "Len")
    ELSE LET fd == chunk[1] >= CANFD_FRAME
             g  == [f EXCEPT !.fd = fd, !.len = chunk[1]]
         IN  IF g.len > LenLimit(fd) THEN Error(g, "Len")
             ELSE IF fd THEN Need(1, g, "Flags") ELSE NeedData(g)

DecodeLen(chunk, f) ==
    IF Len(chunk) # 1 THEN Error(f, "Len")
    ELSE LET fd == chunk[1] >= CANFD_FRAME
             g  == [f EXCEPT !.fd = fd, !.len = chunk[1] % CANFD_FRAME]
         IN  IF g.len > LenLimit(fd) THEN Error(g, "Len")
             ELSE IF fd THEN Need(1, g, "Flags") ELSE NeedData(g)

DecodeFlags(chunk, f) ==
    IF Len(chunk) # 1 THEN Error(f, "Flags")
    ELSE NeedData([f EXCEPT !.fd_flags = chunk[1]])

DecodeData(chunk, f) ==
    IF Len(chunk) # f.len \/ f.len > MAX_FRAME_LEN THEN Error(f, "Data")
    ELSE Complete([f EXCEPT !.data = chunk])

DecodeStream(chunk, f, st) ==
    CASE st = "Init"  -> Need(4, DefaultFrame, "CanId")
      [] st = "CanId" -> DecodeCanId(chunk, f)
      [] st = "Len"   -> DecodeLen(chunk, f)
      [] st = "Flags" -> DecodeFlags(chunk, f)
      [] st = "Data"  -> DecodeData(chunk, f)

-----------------------------------------------------------------------------
(* parse_udp. *)

None          == [ok |-> FALSE, frames |-> <<>>, p |-> 0]
Some(fs, p)   == [ok |-> TRUE, frames |-> fs, p |-> p]

\* Mutant of ParseFrame: the flags byte is not skipped.
ParseFrameNoSkip(buf, p, frames) ==
    LET raw  == buf[p + 5]
        fd   == raw >= CANFD_FRAME
        dlen == raw % CANFD_FRAME
        c    == FromBeBytes(SubSeq(buf, p + 1, p + 4))
        q    == p + FRAME_BASE_SIZE
        end  == IF c.rtr THEN q ELSE q + dlen
    IN  IF \/ p + FRAME_BASE_SIZE > Len(buf)
           \/ fd /\ p + FRAME_BASE_SIZE + 1 > Len(buf)
           \/ dlen > LenLimit(fd)
           \/ end > Len(buf)
        THEN None
        ELSE Some(Append(frames,
                    [can_id |-> c, len |-> dlen, fd |-> fd,
                     fd_flags |-> IF fd THEN buf[p + 6] ELSE 0,
                     data |-> SubSeq(buf, q + 1, end)]), end)

\* One frame at offset p of buf, appended to frames.
ParseFrame(buf, p, frames) ==
    LET raw  == buf[p + 5]
        fd   == raw >= CANFD_FRAME
        dlen == raw % CANFD_FRAME
        c    == FromBeBytes(SubSeq(buf, p + 1, p + 4))
        q    == p + FRAME_BASE_SIZE + (IF fd THEN 1 ELSE 0)
        end  == IF c.rtr THEN q ELSE q + dlen
    IN  IF \/ p + FRAME_BASE_SIZE > Len(buf)
           \/ q > Len(buf)
           \/ dlen > LenLimit(fd)
           \/ end > Len(buf)
        THEN None
        ELSE Some(Append(frames,
                    [can_id |-> c, len |-> dlen, fd |-> fd,
                     fd_flags |-> IF fd THEN buf[p + 6] ELSE 0,
                     data |-> SubSeq(buf, q + 1, end)]), end)

\* All count frames, or none.  Bytes after the last one are ignored.
ParseUdp(buf) ==
    IF \/ Len(buf) < DATA_PACKET_BASE_SIZE
       \/ buf[1] # FRAME_VERSION
       \/ buf[2] # OP_DATA
    THEN None
    ELSE LET count == buf[4] * 256 + buf[5]
             upTo[k \in 0..count] ==
                 IF k = 0 THEN Some(<<>>, DATA_PACKET_BASE_SIZE)
                 ELSE LET before == upTo[k - 1]
                      IN  IF before.ok
                          THEN ParseFrame(buf, before.p, before.frames)
                          ELSE None
         IN  upTo[count]
=============================================================================
