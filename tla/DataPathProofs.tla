--------------------------- MODULE DataPathProofs ---------------------------
(***************************************************************************)
(* Whatever is written and whatever a peer sends, the stream decoder stays *)
(* within its buffers and lets no frame through that is longer than its    *)
(* class allows.                                                           *)
(***************************************************************************)
EXTENDS DataPath, SequenceTheorems, TLAPS

\* What the decoder waits for in state s with the partial frame g.
NeedOf(g, s) ==
    CASE s = "CanId" -> 4 [] s \in {"Len", "Flags"} -> 1 [] OTHER -> g.len

\* A partial frame whose length is known has passed the check of its class,
\* and data is awaited only if there is some and it was announced.
FrameChecked(g, s) ==
    /\ g.data = <<>>
    /\ s \in {"Flags", "Data"} => g.len <= LenLimit(g.fd)
    /\ s = "Data" => g.len >= 1 /\ ~IsRtr(g)

Checked == alive => st # "Init" /\ need = NeedOf(f, st) /\ FrameChecked(f, st)

\* A frame that may go into the ring.
FrameFits(g) ==
    /\ g.len <= LenLimit(g.fd)
    /\ Len(g.data) = IF IsRtr(g) THEN 0 ELSE g.len

-----------------------------------------------------------------------------
(* Types of the codec. *)

LEMMA FunctionIsSeq ==
    ASSUME NEW S, NEW n \in Nat, NEW s \in [1..n -> S]
    PROVE  s \in Seq(S)
  BY SeqDef

LEMMA PrefixType ==
    ASSUME NEW S, NEW s \in Seq(S), NEW n \in 0..Len(s)
    PROVE  /\ SubSeq(s, 1, n) \in Seq(S) /\ Len(SubSeq(s, 1, n)) = n
           /\ SubSeq(s, n + 1, Len(s)) \in Seq(S)
<1>1. Len(s) \in Nat BY LenProperties
<1>2. \A i \in 1..Len(s) : s[i] \in S BY ElementOfSeq
<1>3. SubSeq(s, 1, n) \in Seq(S) /\ Len(SubSeq(s, 1, n)) = n
  <2>1. \A i \in 1..n : s[i] \in S BY <1>1, <1>2
  <2> QED BY <1>1, <2>1, SubSeqProperties
<1>4. SubSeq(s, n + 1, Len(s)) \in Seq(S)
  <2>1. \A i \in (n + 1)..Len(s) : s[i] \in S BY <1>1, <1>2
  <2> QED BY <1>1, <2>1, SubSeqProperties
<1> QED BY <1>3, <1>4

LEMMA ToBeBytesType ==
    ASSUME NEW c \in CanId
    PROVE  ToBeBytes(c) \in Seq(Byte)
<1>1. c.id \in EffIds BY DEF CanId
<1> DEFINE id == c.id
<1> HIDE DEF id
<1>2. id \in 0..(2^29 - 1) BY <1>1, SMT DEF EffIds, EFF_SIZE, id
<1>3. id \div 2^24 \in 0..31 BY <1>2, SMT
<1>4. /\ (id \div 2^16) % 256 \in 0..255
      /\ (id \div 256) % 256 \in 0..255
      /\ id % 256 \in 0..255
  BY <1>2, SMT
<1>5. (IF c.eff THEN 128 ELSE 0) + (IF c.rtr THEN 64 ELSE 0)
          + (IF c.err THEN 32 ELSE 0) + id \div 2^24 \in 0..255
  BY <1>3, SMT
<1>6. Byte = 0..255 BY DEF Byte
<1>7. ToBeBytes(c) =
        << (IF c.eff THEN 128 ELSE 0) + (IF c.rtr THEN 64 ELSE 0)
               + (IF c.err THEN 32 ELSE 0) + id \div 2^24,
           (id \div 2^16) % 256, (id \div 256) % 256, id % 256 >>
  BY Zenon DEF ToBeBytes, id
<1> QED BY <1>4, <1>5, <1>6, <1>7, SMT

LEMMA IdRange ==
    ASSUME NEW b1 \in Byte, NEW b2 \in Byte, NEW b3 \in Byte, NEW b4 \in Byte
    PROVE  (b1 % 32) * 2^24 + b2 * 2^16 + b3 * 256 + b4 \in EffIds
<1>1. b1 % 32 \in 0..31 BY SMT DEF Byte
<1> DEFINE r == b1 % 32
<1> HIDE DEF r
<1>2. r \in 0..31 BY <1>1 DEF r
<1>3. r * 2^24 + b2 * 2^16 + b3 * 256 + b4 \in 0..(2^29 - 1)
  BY <1>2, SMT DEF Byte
<1>4. EffIds = 0..(2^29 - 1) BY Zenon DEF EffIds, EFF_SIZE
<1> QED BY <1>3, <1>4, Zenon DEF r

LEMMA FromBeBytesType ==
    ASSUME NEW b \in Seq(Byte), Len(b) = 4
    PROVE  FromBeBytes(b) \in CanId
<1> DEFINE id == (b[1] % 32) * 2^24 + b[2] * 2^16 + b[3] * 256 + b[4]
<1>1. b[1] \in Byte /\ b[2] \in Byte /\ b[3] \in Byte /\ b[4] \in Byte
  <2>1. \A i \in 1..Len(b) : b[i] \in Byte BY ElementOfSeq
  <2>2. 1..Len(b) = 1..4 OBVIOUS
  <2>3. 1 \in 1..4 /\ 2 \in 1..4 /\ 3 \in 1..4 /\ 4 \in 1..4 OBVIOUS
  <2> QED BY <2>1, <2>2, <2>3, Zenon
<1>4. id \in EffIds BY <1>1, IdRange
<1> HIDE DEF id
<1>5. FromBeBytes(b) =
        [eff |-> b[1] >= 128, rtr |-> (b[1] \div 64) % 2 = 1,
         err |-> (b[1] \div 32) % 2 = 1, id |-> id]
  BY Zenon DEF FromBeBytes, id
<1>6. /\ (b[1] >= 128) \in BOOLEAN
      /\ ((b[1] \div 64) % 2 = 1) \in BOOLEAN
      /\ ((b[1] \div 32) % 2 = 1) \in BOOLEAN
  OBVIOUS
<1>7. \A e, r, x \in BOOLEAN : [eff |-> e, rtr |-> r, err |-> x, id |-> id] \in CanId
  BY <1>4 DEF CanId
<1> QED BY <1>5, <1>6, <1>7, Zenon

LEMMA DefaultFrameType == DefaultFrame \in Frame /\ DefaultFrame.data = <<>>
<1>1. 0 \in EffIds BY SMT DEF EffIds, EFF_SIZE
<1>2. 0 \in Byte /\ 0 \in 0..127 BY DEF Byte
<1> QED BY <1>1, <1>2 DEF DefaultFrame, Frame, CanId

LEMMA DataBytesType ==
    ASSUME NEW g \in Frame, NEW n \in Nat
    PROVE  DataBytes(g, n) \in Seq(Byte)
<1>1. g.data \in Seq(Byte) BY DEF Frame
<1>2. 0 \in Byte BY DEF Byte
<1>3. \A i \in 1..n :
        (IF i <= Len(g.data) THEN g.data[i] ELSE 0) \in Byte
  <2> SUFFICES ASSUME NEW i \in 1..n, i <= Len(g.data)
               PROVE  g.data[i] \in Byte
    BY <1>2
  <2>1. i \in 1..Len(g.data) BY <1>1, LenProperties
  <2> QED BY <1>1, <2>1, ElementOfSeq
<1>4. DataBytes(g, n) \in [1..n -> Byte] BY <1>3 DEF DataBytes
<1> QED BY <1>4, FunctionIsSeq

LEMMA EncodeFrameType ==
    ASSUME NEW g \in Frame
    PROVE  EncodeFrame(g) \in Seq(Byte)
<1>1. g.can_id \in CanId /\ g.len \in 0..127 /\ g.fd_flags \in Byte
  BY DEF Frame
<1>2. ToBeBytes(g.can_id) \in Seq(Byte) BY <1>1, ToBeBytesType
<1>3. (g.len % CANFD_FRAME) + (IF g.fd THEN CANFD_FRAME ELSE 0) \in Byte
  BY <1>1 DEF CANFD_FRAME, Byte
<1>4. DataBytes(g, g.len % CANFD_FRAME) \in Seq(Byte)
  <2>1. g.len % CANFD_FRAME \in Nat BY <1>1 DEF CANFD_FRAME
  <2> QED BY <2>1, DataBytesType
<1> QED BY <1>1, <1>2, <1>3, <1>4 DEF EncodeFrame

LEMMA FdRoundLenType ==
    ASSUME NEW n \in 0..64
    PROVE  FdRoundLen(n) \in 0..64
  BY DEF FdRoundLen

\* write_frame builds a frame from any arguments.
LEMMA WriteFrameType ==
    ASSUME NEW id \in Ids, NEW dlc \in Dlcs, NEW flag \in Flags, NEW msg \in Msgs
    PROVE  WriteFrame(id, dlc, flag, msg) \in Frame
<1> DEFINE fd   == "FDF" \in flag
           user == AtMost(dlc, IF fd THEN 64 ELSE 8)
<1>1. dlc \in Nat /\ id \in Int BY DataPathAssumption
<1>2. user \in 0..64 /\ (~fd => user \in 0..8) BY <1>1 DEF AtMost
<1>3. KvaserToCanId(id, flag) \in CanId
  <2>1. id % EFF_SIZE \in EffIds BY <1>1, SMT DEF EffIds, EFF_SIZE
  <2>2. id % SFF_SIZE \in EffIds BY <1>1, SMT DEF EffIds, EFF_SIZE, SFF_SIZE
  <2> QED BY <2>1, <2>2 DEF KvaserToCanId, CanId
<1>4. (IF fd THEN FdRoundLen(user) ELSE user) \in 0..127
  BY <1>2, FdRoundLenType
<1>5. (IF fd THEN KvaserToFdFlags(flag) ELSE 0) \in Byte
  BY DEF KvaserToFdFlags, Byte
<1>6. (IF msg # NullMsg /\ "RTR" \notin flag
       THEN SubSeq(msg, 1, user) ELSE <<>>) \in Seq(Byte)
  <2>1. msg # NullMsg => msg \in Seq(Byte) /\ Len(msg) >= 64
    BY DataPathAssumption
  <2>2. ASSUME msg # NullMsg PROVE user \in 0..Len(msg)
    <3>1. Len(msg) \in Nat /\ Len(msg) >= 64 BY <2>1, <2>2, LenProperties
    <3> HIDE DEF user
    <3> QED BY <1>2, <3>1
  <2>3. <<>> \in Seq(Byte) OBVIOUS
  <2> QED BY <2>1, <2>2, <2>3, PrefixType
<1>7. fd \in BOOLEAN OBVIOUS
<1> QED BY <1>3, <1>4, <1>5, <1>6, <1>7 DEF WriteFrame, Frame

LEMMA PeerBytesType ==
    ASSUME NEW c \in PeerIds, NEW len \in PeerLens
    PROVE  PeerBytes(c, len) \in Seq(Byte)
<1>1. c \in CanId /\ len \in Byte BY DataPathAssumption
<1>2. ToBeBytes(c) \in Seq(Byte) BY <1>1, ToBeBytesType
<1>3. len % CANFD_FRAME \in 0..127 BY <1>1 DEF CANFD_FRAME, Byte
<1>4. [i \in 1..(len % CANFD_FRAME) |-> 100 + i] \in Seq(Byte)
  <2>1. \A i \in 1..(len % CANFD_FRAME) : 100 + i \in Byte
    BY <1>3 DEF Byte
  <2>2. [i \in 1..(len % CANFD_FRAME) |-> 100 + i]
            \in [1..(len % CANFD_FRAME) -> Byte]
    BY <2>1, Zenon
  <2>3. len % CANFD_FRAME \in Nat BY <1>3
  <2> QED BY <2>2, <2>3, FunctionIsSeq
<1>5. <<len>> \in Seq(Byte) /\ <<255>> \in Seq(Byte) BY <1>1 DEF Byte
<1> QED BY <1>2, <1>4, <1>5 DEF PeerBytes

-----------------------------------------------------------------------------
(* One step of the decoder. *)

\* What a step of the decoder may result in.
Outcome(d) ==
    /\ d.f \in Frame /\ d.st \in DecodeStates /\ d.need \in Nat
    /\ d.res = "Need" => /\ d.st # "Init"
                         /\ d.need = NeedOf(d.f, d.st)
                         /\ FrameChecked(d.f, d.st)
    /\ d.res = "Complete" => FrameFits(d.f)

LEMMA NeedOutcome ==
    ASSUME NEW g \in Frame, NEW s \in DecodeStates \ {"Init"}, NEW n \in Nat,
           n = NeedOf(g, s), FrameChecked(g, s)
    PROVE  Outcome(Need(n, g, s))
  BY DEF Outcome, Need

LEMMA CompleteOutcome ==
    ASSUME NEW g \in Frame, FrameFits(g)
    PROVE  Outcome(Complete(g))
  BY DEF Outcome, Complete, DecodeStates

LEMMA ErrorOutcome ==
    ASSUME NEW g \in Frame, NEW s \in DecodeStates
    PROVE  Outcome(Error(g, s))
  BY DEF Outcome, Error

LEMMA NeedDataOutcome ==
    ASSUME NEW g \in Frame, g.data = <<>>, g.len <= LenLimit(g.fd)
    PROVE  Outcome(NeedData(g))
<1>1. g.len \in 0..127 BY DEF Frame
<1>2. g.len \in Nat /\ (g.len # 0 => g.len >= 1)
  <2> DEFINE n == g.len
  <2> HIDE DEF n
  <2>1. n \in 0..127 BY <1>1 DEF n
  <2>2. n \in Nat /\ (n # 0 => n >= 1) BY <2>1
  <2> QED BY <2>2 DEF n
<1>3. CASE IsRtr(g) \/ g.len = 0
  <2>1. FrameFits(g) BY <1>2, <1>3 DEF FrameFits
  <2>2. NeedData(g) = Complete(g) BY <1>3 DEF NeedData
  <2> QED BY <2>1, <2>2, CompleteOutcome
<1>4. CASE ~IsRtr(g) /\ g.len # 0
  <2>1. FrameChecked(g, "Data") BY <1>2, <1>4 DEF FrameChecked
  <2>2. g.len = NeedOf(g, "Data") BY DEF NeedOf
  <2>3. NeedData(g) = Need(g.len, g, "Data") BY <1>4 DEF NeedData
  <2>4. "Data" \in DecodeStates \ {"Init"} BY DEF DecodeStates
  <2> QED BY <1>2, <2>1, <2>2, <2>3, <2>4, NeedOutcome
<1> QED BY <1>3, <1>4

\* Fed the bytes it asked for, the decoder either asks for bytes that fit,
\* completes a frame that fits, or gives up.
LEMMA DecodeOutcome ==
    ASSUME NEW g \in Frame, NEW s \in DecodeStates \ {"Init"},
           NEW chunk \in Seq(Byte), Len(chunk) = NeedOf(g, s),
           FrameChecked(g, s)
    PROVE  Outcome(DecodeStream(chunk, g, s))
<1>1. s \in {"CanId", "Len", "Flags", "Data"} BY DEF DecodeStates
<1>2. g.data = <<>> BY DEF FrameChecked
<1>3. CASE s = "CanId"
  <2> DEFINE h == [g EXCEPT !.can_id = FromBeBytes(chunk)]
  <2>1. Len(chunk) = 4 BY <1>3 DEF NeedOf
  <2>2. FromBeBytes(chunk) \in CanId BY <2>1, FromBeBytesType
  <2>3. h \in Frame /\ h.data = <<>> BY <1>2, <2>2 DEF Frame
  <2> HIDE DEF h
  <2>4. FrameChecked(h, "Len") BY <2>3 DEF FrameChecked
  <2>5. 1 = NeedOf(h, "Len") BY DEF NeedOf
  <2>6. "Len" \in DecodeStates \ {"Init"} BY DEF DecodeStates
  <2>7. Outcome(Need(1, h, "Len")) BY <2>3, <2>4, <2>5, <2>6, NeedOutcome
  <2>8. DecodeStream(chunk, g, s) = Need(1, h, "Len")
    BY <1>3, <2>1 DEF DecodeStream, DecodeCanId, h
  <2> QED BY <2>7, <2>8
<1>4. CASE s = "Len"
  <2> DEFINE fd == chunk[1] >= CANFD_FRAME
             h  == [g EXCEPT !.fd = fd, !.len = chunk[1] % CANFD_FRAME]
  <2>1. Len(chunk) = 1 BY <1>4 DEF NeedOf
  <2>2. chunk[1] \in Byte BY <2>1, ElementOfSeq
  <2>3. chunk[1] % CANFD_FRAME \in 0..127
    <3> DEFINE b == chunk[1]
    <3> HIDE DEF b
    <3>1. b \in 0..255 BY <2>2 DEF Byte, b
    <3>2. b % 128 \in 0..127 BY <3>1
    <3> QED BY <3>2 DEF CANFD_FRAME, b
  <2>4. fd \in BOOLEAN OBVIOUS
  <2>5. h \in Frame /\ h.data = <<>> /\ h.fd = fd BY <1>2, <2>3, <2>4 DEF Frame
  <2>6. DecodeStream(chunk, g, s) =
          IF h.len > LenLimit(fd) THEN Error(h, "Len")
          ELSE IF fd THEN Need(1, h, "Flags") ELSE NeedData(h)
    BY <1>4, <2>1 DEF DecodeStream, DecodeLen
  <2> HIDE DEF h, fd
  <2>7. CASE h.len > LenLimit(fd)
    <3>1. "Len" \in DecodeStates BY DEF DecodeStates
    <3> QED BY <2>5, <2>6, <2>7, <3>1, ErrorOutcome
  <2>8. CASE ~(h.len > LenLimit(fd))
    <3>1. h.len \in 0..127 BY <2>5 DEF Frame
    <3>2. h.len <= LenLimit(h.fd)
      <4> DEFINE n == h.len
                 m == LenLimit(fd)
      <4>1. n \in 0..127 /\ ~(n > m) BY <2>8, <3>1
      <4>2. m \in {8, 64}
        BY DEF LenLimit, MAX_FRAME_LEN, CLASSIC_FRAME_MAX_LEN
      <4> HIDE DEF n, m
      <4>3. n <= m BY <4>1, <4>2
      <4> QED BY <2>5, <4>3 DEF n, m
    <3>3. CASE fd
      <4>1. FrameChecked(h, "Flags") BY <2>5, <3>2 DEF FrameChecked
      <4>2. 1 = NeedOf(h, "Flags") BY DEF NeedOf
      <4>3. "Flags" \in DecodeStates \ {"Init"} BY DEF DecodeStates
      <4>4. Outcome(Need(1, h, "Flags"))
        BY <2>5, <4>1, <4>2, <4>3, NeedOutcome
      <4> QED BY <2>6, <2>8, <3>3, <4>4
    <3>4. CASE ~fd
      <4>1. Outcome(NeedData(h)) BY <2>5, <3>2, NeedDataOutcome
      <4> QED BY <2>6, <2>8, <3>4, <4>1
    <3> QED BY <3>3, <3>4
  <2> QED BY <2>7, <2>8
<1>5. CASE s = "Flags"
  <2> DEFINE h == [g EXCEPT !.fd_flags = chunk[1]]
  <2>1. Len(chunk) = 1 BY <1>5 DEF NeedOf
  <2>2. chunk[1] \in Byte BY <2>1, ElementOfSeq
  <2>3. g.len <= LenLimit(g.fd) BY <1>5 DEF FrameChecked
  <2>4. h \in Frame /\ h.data = <<>> /\ h.len <= LenLimit(h.fd)
    BY <1>2, <2>2, <2>3 DEF Frame
  <2>5. DecodeStream(chunk, g, s) = NeedData(h)
    BY <1>5, <2>1 DEF DecodeStream, DecodeFlags
  <2> HIDE DEF h
  <2> QED BY <2>4, <2>5, NeedDataOutcome
<1>6. CASE s = "Data"
  <2> DEFINE h == [g EXCEPT !.data = chunk]
  <2>1. Len(chunk) = g.len /\ g.len <= LenLimit(g.fd) /\ ~IsRtr(g)
    BY <1>6 DEF NeedOf, FrameChecked
  <2>2. g.len \in 0..127 /\ g.fd \in BOOLEAN BY DEF Frame
  <2>3. ~(g.len > MAX_FRAME_LEN)
    BY <2>1, <2>2 DEF LenLimit, MAX_FRAME_LEN, CLASSIC_FRAME_MAX_LEN
  <2>4. h \in Frame /\ h.data = chunk /\ h.len = g.len /\ h.fd = g.fd
        /\ h.can_id = g.can_id
    BY DEF Frame
  <2>5. DecodeStream(chunk, g, s) = Complete(h)
    BY <1>6, <2>1, <2>3 DEF DecodeStream, DecodeData
  <2> HIDE DEF h
  <2>6. FrameFits(h) BY <2>1, <2>4 DEF FrameFits, IsRtr
  <2> QED BY <2>4, <2>5, <2>6, CompleteOutcome
<1> QED BY <1>1, <1>3, <1>4, <1>5, <1>6

-----------------------------------------------------------------------------
(* The specification. *)

LEMMA PrimedDecoder ==
    DecodeStream(<<>>, DefaultFrame, "Init") = Need(4, DefaultFrame, "CanId")
  BY DEF DecodeStream

LEMMA FreshFrame == FrameChecked(DefaultFrame, "CanId")
  BY DefaultFrameType DEF FrameChecked

LEMMA InvInit == Init => TypeOK /\ Checked /\ LengthClass
<1> SUFFICES ASSUME Init PROVE TypeOK /\ Checked /\ LengthClass
  OBVIOUS
<1>1. st = "CanId" /\ f = DefaultFrame /\ need = 4
  BY PrimedDecoder DEF Init, Need
<1>2. TypeOK BY <1>1, DefaultFrameType DEF Init, TypeOK, DecodeStates
<1>3. Checked BY <1>1, FreshFrame DEF Checked, NeedOf
<1>4. LengthClass BY DEF Init, LengthClass
<1> QED BY <1>2, <1>3, <1>4

\* Sending changes what is under way and nothing else.
LEMMA SendStep ==
    ASSUME TypeOK, Checked, LengthClass, NEW raw \in Seq(Byte), NEW by,
           Send(raw, by), peerOpen' \in BOOLEAN,
           UNCHANGED <<fdCapable, loopVars, ring, pushed, reads>>
    PROVE  TypeOK' /\ Checked' /\ LengthClass'
<1>1. stream' \in Seq(Byte) BY ConcatProperties DEF Send, TypeOK
<1>2. TypeOK' BY <1>1 DEF TypeOK, loopVars
<1>3. Checked' BY DEF Checked, loopVars
<1>4. LengthClass' BY DEF LengthClass, loopVars
<1> QED BY <1>2, <1>3, <1>4

LEMMA RxChunkStep ==
    ASSUME TypeOK, Checked, LengthClass, RxChunk
    PROVE  TypeOK' /\ Checked' /\ LengthClass'
<1> DEFINE chunk == SubSeq(stream, 1, need)
           d     == DecodeStream(chunk, f, st)
           full  == d.res = "Complete"
<1>1. /\ alive /\ need \in 1..ChunkSize /\ Len(stream) >= need
      /\ stream' = SubSeq(stream, need + 1, Len(stream))
      /\ alive' = (d.res # "Error")
      /\ UNCHANGED <<fdCapable, peerOpen, sent, reads>>
  BY DEF RxChunk
<1>2. /\ st' = IF full THEN "CanId" ELSE d.st
      /\ f' = IF full THEN DefaultFrame ELSE d.f
      /\ need' = IF full THEN 4 ELSE IF d.res = "Need" THEN d.need ELSE need
      /\ ring' = IF full THEN Append(ring, d.f) ELSE ring
      /\ pushed' = IF full THEN Append(pushed, d.f) ELSE pushed
  BY PrimedDecoder DEF RxChunk, Need
<1>3. stream \in Seq(Byte) /\ f \in Frame /\ st \in DecodeStates BY DEF TypeOK
<1>4. need \in 0..Len(stream)
  <2>1. Len(stream) \in Nat BY <1>3, LenProperties
  <2> QED BY <1>1, <2>1 DEF ChunkSize
<1>5. chunk \in Seq(Byte) /\ Len(chunk) = need /\ stream' \in Seq(Byte)
  BY <1>1, <1>3, <1>4, PrefixType
<1>6. st # "Init" /\ need = NeedOf(f, st) /\ FrameChecked(f, st)
  BY <1>1 DEF Checked
<1> HIDE DEF chunk
<1>7. Outcome(d) BY <1>3, <1>5, <1>6, DecodeOutcome
<1>8. d.res \in {"Need", "Complete", "Error"}
  BY <1>3 DEF DecodeStream, DecodeStates, DecodeCanId, DecodeLen, DecodeFlags,
              DecodeData, NeedData, Need, Complete, Error
<1> HIDE DEF d
<1>9. d.f \in Frame /\ d.st \in DecodeStates /\ d.need \in Nat
  BY <1>7 DEF Outcome
<1>10. TypeOK'
  <2>1. st' \in DecodeStates /\ need' \in Nat
    BY <1>2, <1>9 DEF TypeOK, DecodeStates
  <2>2. f' \in Frame BY <1>2, <1>9, DefaultFrameType
  <2>3. ring' \in Seq(Frame) /\ pushed' \in Seq(Frame)
    BY <1>2, <1>9 DEF TypeOK
  <2>4. alive' \in BOOLEAN BY <1>1
  <2> QED BY <1>1, <1>5, <2>1, <2>2, <2>3, <2>4 DEF TypeOK
<1>11. Checked'
  <2>1. CASE full
    <3>1. st' = "CanId" /\ f' = DefaultFrame /\ need' = 4 BY <1>2, <2>1
    <3> QED BY <3>1, FreshFrame DEF Checked, NeedOf
  <2>2. CASE d.res = "Need"
    <3>1. st' = d.st /\ f' = d.f /\ need' = d.need BY <1>2, <2>2
    <3> QED BY <1>7, <2>2, <3>1 DEF Checked, Outcome
  <2>3. CASE d.res = "Error"
    BY <1>1, <2>3 DEF Checked
  <2> QED BY <1>8, <2>1, <2>2, <2>3
<1>12. LengthClass'
  <2>1. CASE full
    <3>1. FrameFits(d.f) BY <1>7, <2>1 DEF Outcome
    <3>2. pushed \in Seq(Frame) /\ pushed' = Append(pushed, d.f)
      BY <1>2, <2>1 DEF TypeOK
    <3>3. /\ Len(pushed') = Len(pushed) + 1
          /\ Len(pushed) \in Nat
          /\ \A i \in 1..Len(pushed) : pushed'[i] = pushed[i]
          /\ pushed'[Len(pushed) + 1] = d.f
      BY <1>9, <3>2
    <3>4. \A i \in 1..Len(pushed) : FrameFits(pushed'[i])
      BY <3>3 DEF LengthClass, FrameFits
    <3>5. \A i \in 1..Len(pushed') : FrameFits(pushed'[i])
      <4> SUFFICES ASSUME NEW i \in 1..Len(pushed') PROVE FrameFits(pushed'[i])
        OBVIOUS
      <4>1. i \in 1..Len(pushed) \/ i = Len(pushed) + 1 BY <3>3
      <4> QED BY <3>1, <3>3, <3>4, <4>1
    <3> QED BY <3>5 DEF LengthClass, FrameFits
  <2>2. CASE ~full
    BY <1>2, <2>2 DEF LengthClass
  <2> QED BY <2>1, <2>2
<1> QED BY <1>10, <1>11, <1>12

LEMMA InvStep ==
    TypeOK /\ Checked /\ LengthClass /\ [Next]_vars
        => TypeOK' /\ Checked' /\ LengthClass'
<1> SUFFICES ASSUME TypeOK, Checked, LengthClass, [Next]_vars
             PROVE  TypeOK' /\ Checked' /\ LengthClass'
  OBVIOUS
<1>1. ASSUME NEW id \in Ids, NEW dlc \in Dlcs, NEW flag \in Flags,
             NEW msg \in Msgs, CanWrite(id, dlc, flag, msg)
      PROVE  TypeOK' /\ Checked' /\ LengthClass'
  <2>1. EncodeFrame(WriteFrame(id, dlc, flag, msg)) \in Seq(Byte)
    BY WriteFrameType, EncodeFrameType
  <2>2. peerOpen' \in BOOLEAN BY <1>1 DEF CanWrite, TypeOK
  <2> QED BY <1>1, <2>1, <2>2, SendStep DEF CanWrite
<1>2. ASSUME NEW c \in PeerIds, NEW len \in PeerLens, PeerSends(c, len)
      PROVE  TypeOK' /\ Checked' /\ LengthClass'
  <2>1. PeerBytes(c, len) \in Seq(Byte) BY PeerBytesType
  <2>2. peerOpen' \in BOOLEAN BY <1>2 DEF PeerSends, TypeOK
  <2> QED BY <1>2, <2>1, <2>2, SendStep DEF PeerSends
<1>3. ASSUME NEW c \in PeerIds, NEW len \in PeerLens, NEW n \in 0..7,
             PeerBreaksOff(c, len, n)
      PROVE  TypeOK' /\ Checked' /\ LengthClass'
  <2>1. PeerBytes(c, len) \in Seq(Byte) BY PeerBytesType
  <2>2. n \in 0..Len(PeerBytes(c, len))
    BY <1>3, <2>1, LenProperties DEF PeerBreaksOff
  <2>3. SubSeq(PeerBytes(c, len), 1, n) \in Seq(Byte)
    BY <2>1, <2>2, PrefixType
  <2>4. peerOpen' \in BOOLEAN BY <1>3 DEF PeerBreaksOff
  <2>5. CASE n = 0
    BY <1>3, <2>4, <2>5
    DEF PeerBreaksOff, TypeOK, Checked, LengthClass, loopVars
  <2>6. CASE n # 0
    BY <1>3, <2>3, <2>4, <2>6, SendStep DEF PeerBreaksOff
  <2> QED BY <2>5, <2>6
<1>4. CASE RxEnd
  BY <1>4 DEF RxEnd, TypeOK, Checked, LengthClass
<1>5. CASE RxChunk
  BY <1>5, RxChunkStep
<1>6. CASE CanRead
  <2>1. ring' \in Seq(Frame)
    BY <1>6, HeadTailProperties DEF CanRead, TypeOK
  <2> QED BY <1>6, <2>1 DEF CanRead, TypeOK, Checked, LengthClass, loopVars
<1>7. CASE UNCHANGED vars
  BY <1>7 DEF vars, TypeOK, Checked, LengthClass
<1> QED BY <1>1, <1>2, <1>3, <1>4, <1>5, <1>6, <1>7 DEF Next

LEMMA CheckedFits == TypeOK /\ Checked => NeedFits
<1> SUFFICES ASSUME TypeOK, Checked, alive
             PROVE  /\ need \in 1..ChunkSize /\ st # "Init"
                    /\ need = NeedOf(f, st)
  BY DEF NeedFits, NeedOf
<1>1. st # "Init" /\ need = NeedOf(f, st) /\ FrameChecked(f, st)
  BY DEF Checked
<1>2. st \in DecodeStates /\ f \in Frame BY DEF TypeOK
<1>3. CASE st # "Data"
  <2>1. NeedOf(f, st) \in {1, 4} BY <1>1, <1>2, <1>3 DEF NeedOf, DecodeStates
  <2> QED BY <1>1, <2>1 DEF ChunkSize
<1>4. CASE st = "Data"
  <2>1. need = f.len /\ f.len >= 1 /\ f.len <= LenLimit(f.fd)
    BY <1>1, <1>4 DEF NeedOf, FrameChecked
  <2>2. f.len \in 0..127 BY <1>2 DEF Frame
  <2>3. LenLimit(f.fd) \in {8, 64}
    BY DEF LenLimit, MAX_FRAME_LEN, CLASSIC_FRAME_MAX_LEN
  <2> DEFINE m == LenLimit(f.fd)
  <2> HIDE DEF m
  <2>4. need \in 0..127 /\ need >= 1 /\ need <= m /\ m \in {8, 64}
    BY <2>1, <2>2, <2>3 DEF m
  <2> QED BY <1>1, <2>4 DEF ChunkSize
<1> QED BY <1>3, <1>4

\* Types hold, whatever is written and whatever bytes a peer sends.
THEOREM DataPathTypeCorrect == Spec => []TypeOK
  BY InvInit, InvStep, PTL DEF Spec

\* The receive loop never asks for nothing, nor for more than its buffer.
THEOREM NeedFitsCorrect == Spec => []NeedFits
  BY CheckedFits, InvInit, InvStep, PTL DEF Spec

\* No frame that reaches the ring is longer than its class allows.
THEOREM LengthClassCorrect == Spec => []LengthClass
  BY InvInit, InvStep, PTL DEF Spec
-----------------------------------------------------------------------------
(* What canRead hands out. *)

Handed == {WriteReadOutputs(g, fdCapable) : g \in Frame}

\* Every read was made of a frame.
ReadsHanded == reads \in Seq(Handed)

LEMMA HandedFits ==
    ASSUME NEW g \in Frame, NEW cap \in BOOLEAN
    PROVE  /\ Len(WriteReadOutputs(g, cap).msg) <= (IF cap THEN 64 ELSE 8)
           /\ "FDF" \in WriteReadOutputs(g, cap).flag => cap
<1> DEFINE n == AtMost(g.len, LenLimit(cap))
           limit == IF cap THEN 64 ELSE 8
           w == WriteReadOutputs(g, cap)
<1>1. n \in Nat /\ n <= limit
  <2>1. g.len \in 0..127 BY DEF Frame
  <2>2. LenLimit(cap) = limit
    BY DEF LenLimit, MAX_FRAME_LEN, CLASSIC_FRAME_MAX_LEN
  <2>3. limit \in {8, 64} OBVIOUS
  <2> DEFINE k == g.len
  <2> HIDE DEF limit, k
  <2>4. AtMost(k, limit) \in Nat /\ AtMost(k, limit) <= limit
    <3>1. k \in 0..127 BY <2>1 DEF k
    <3> QED BY <2>3, <3>1 DEF AtMost
  <2> QED BY <2>2, <2>4 DEF k
<1>2. limit \in Nat /\ 0 <= limit OBVIOUS
<1> HIDE DEF n, limit
<1>3. Len(w.msg) <= limit
  <2>1. w.msg = IF IsRtr(g) THEN <<>> ELSE DataBytes(g, n)
    BY DEF WriteReadOutputs, n
  <2>2. Len(DataBytes(g, n)) = n
    <3>1. DataBytes(g, n) \in Seq(Byte) BY <1>1, DataBytesType
    <3>2. DOMAIN DataBytes(g, n) = 1..n BY DEF DataBytes
    <3> QED BY <1>1, <3>1, <3>2, LenProperties
  <2>3. Len(<<>>) = 0 OBVIOUS
  <2> QED BY <1>1, <1>2, <2>1, <2>2, <2>3
<1>4. "FDF" \in w.flag => cap
  <2>1. w.flag = CanIdToKvaser(g.can_id, g.fd /\ cap).flag
                 \cup (IF g.fd /\ cap THEN FdFlagsToKvaser(g.fd_flags) ELSE {})
    BY DEF WriteReadOutputs
  <2>2. ~cap => "FDF" \notin CanIdToKvaser(g.can_id, g.fd /\ cap).flag
    BY DEF CanIdToKvaser
  <2> QED BY <2>1, <2>2
<1> QED BY <1>3, <1>4 DEF limit

LEMMA HandedStep ==
    TypeOK /\ ReadsHanded /\ [Next]_vars => ReadsHanded'
<1> SUFFICES ASSUME TypeOK, reads \in Seq(Handed), [Next]_vars
             PROVE  reads' \in Seq(Handed')
  BY DEF ReadsHanded
<1>1. fdCapable' = fdCapable
  BY DEF Next, vars, CanWrite, PeerSends, PeerBreaksOff, RxEnd, RxChunk, CanRead
<1>2. Handed' = Handed BY <1>1 DEF Handed
<1>3. CASE CanRead
  <2>1. Head(ring) \in Frame
    BY <1>3, HeadTailProperties DEF CanRead, TypeOK
  <2>2. WriteReadOutputs(Head(ring), fdCapable) \in Handed
    BY <2>1 DEF Handed
  <2>3. reads' = Append(reads, WriteReadOutputs(Head(ring), fdCapable))
    BY <1>3 DEF CanRead
  <2> QED BY <1>2, <2>2, <2>3, AppendProperties
<1>4. CASE ~CanRead
  <2>1. reads' = reads
    BY <1>4 DEF Next, vars, CanWrite, PeerSends, PeerBreaksOff, RxEnd, RxChunk
  <2> QED BY <1>2, <2>1
<1> QED BY <1>3, <1>4

\* canRead fills at most 8 bytes of the caller's buffer, and flags nothing as CAN
\* FD, on a channel that was not opened for it, and at most 64 on any, whatever
\* frames a peer sent (write_read_outputs).
THEOREM BufferFitsCorrect == Spec => []BufferFits
<1>1. Init => ReadsHanded
  BY DEF Init, ReadsHanded
<1>2. TypeOK /\ ReadsHanded => BufferFits
  <2> SUFFICES ASSUME TypeOK, reads \in Seq(Handed), NEW i \in 1..Len(reads)
               PROVE  /\ Len(reads[i].msg) <= (IF fdCapable THEN 64 ELSE 8)
                      /\ "FDF" \in reads[i].flag => fdCapable
    BY DEF BufferFits, ReadsHanded
  <2>1. reads[i] \in Handed BY ElementOfSeq
  <2>2. PICK g \in Frame : reads[i] = WriteReadOutputs(g, fdCapable)
    BY <2>1 DEF Handed
  <2>3. fdCapable \in BOOLEAN BY DEF TypeOK
  <2> QED BY <2>2, <2>3, HandedFits
<1>3. Spec => []TypeOK BY DataPathTypeCorrect
<1> QED BY <1>1, <1>2, <1>3, HandedStep, PTL DEF Spec

=============================================================================
