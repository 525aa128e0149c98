---------------------------- MODULE StreamProofs ----------------------------
(***************************************************************************)
(* The stream and the decoder stay in step: what tcp_rx_loop puts into the *)
(* ring is, frame by frame, what the sender's bytes say, what parse_udp    *)
(* makes of the same bytes, and what was given to canWrite.                *)
(***************************************************************************)
EXTENDS DatagramProofs

-----------------------------------------------------------------------------
(* The decoder against the bytes of the frame it decodes. *)

\* How many bytes of raw have been read in state s.
Consumed(s, raw) ==
    CASE s = "CanId" -> 0 [] s = "Len" -> 4 [] s = "Flags" -> 5
      [] OTHER -> HeadLen(raw)

\* What the header says, and no data yet.
HeaderOf(raw) ==
    [can_id |-> IdOf(raw), len |-> LenOf(raw), fd |-> FdOf(raw),
     fd_flags |-> IF FdOf(raw) THEN raw[6] ELSE 0, data |-> <<>>]

\* The partial frame g in state s is what the bytes read of raw say.
Decoding(g, s, raw) ==
    \/ s = "CanId" /\ g = DefaultFrame
    \/ /\ s = "Len" /\ Len(raw) >= 4
       /\ g = [DefaultFrame EXCEPT !.can_id = IdOf(raw)]
    \/ /\ s = "Flags" /\ Len(raw) >= 5 /\ FdOf(raw) /\ Allowed(raw)
       /\ g = [HeaderOf(raw) EXCEPT !.fd_flags = 0]
    \/ /\ s = "Data" /\ Len(raw) >= HeadLen(raw) /\ Allowed(raw)
       /\ ~IdOf(raw).rtr
       /\ g = HeaderOf(raw)

\* What the decoder may say once it has read n bytes of raw.
StepOutcome(d, raw, n) ==
    \/ /\ d.res = "Need" /\ d.st # "CanId"
       /\ Decoding(d.f, d.st, raw) /\ Consumed(d.st, raw) = n
    \/ d.res = "Complete" /\ Good(raw) /\ d.f = FrameOf(raw) /\ Len(raw) = n
    \/ d.res = "Error" /\ ~Good(raw)

LEMMA NeedDataStep ==
    ASSUME NEW raw \in Seq(Byte), Whole(raw) \/ Cut(raw), Allowed(raw),
           Len(raw) >= HeadLen(raw), Len(raw) >= 5
    PROVE  StepOutcome(NeedData(HeaderOf(raw)), raw, HeadLen(raw))
<1>1. /\ LenOf(raw) \in 0..127 /\ HeadLen(raw) \in {5, 6}
      /\ Size(raw) \in Nat
      /\ ~IdOf(raw).rtr => Size(raw) = HeadLen(raw) + LenOf(raw)
      /\ IdOf(raw).rtr => Size(raw) = HeadLen(raw)
  BY RawShape
<1>2. PICK h : h = HeaderOf(raw) OBVIOUS
<1>3. h.len = LenOf(raw) /\ (IsRtr(h) <=> IdOf(raw).rtr)
  BY <1>2 DEF HeaderOf, IsRtr
<1>4. Len(raw) \in Nat BY LenProperties
<1>5. CASE IdOf(raw).rtr \/ LenOf(raw) = 0
  <2>1. NeedData(h) = Complete(h) BY <1>3, <1>5, Zenon DEF NeedData
  <2>2. Size(raw) = HeadLen(raw)
    <3> DEFINE n == LenOf(raw)
               k == HeadLen(raw)
               z == Size(raw)
    <3>1. /\ n \in 0..127 /\ k \in {5, 6}
          /\ z = k \/ (n = 0 /\ z = k + n)
      BY <1>1, <1>5
    <3> HIDE DEF n, k, z
    <3>2. z = k BY <3>1
    <3> QED BY <3>2 DEF k, z
  <2>3. Whole(raw) /\ Len(raw) = HeadLen(raw)
    <3>1. ~(Len(raw) < Size(raw)) BY <1>1, <1>4, <2>2
    <3> QED BY <2>2, <3>1, Zenon DEF Whole, Cut
  <2>4. SubSeq(raw, HeadLen(raw) + 1, Size(raw)) = <<>>
    <3>1. PICK k : k = HeadLen(raw) OBVIOUS
    <3>2. k \in Int /\ k + 1 \in Int /\ k < k + 1 BY <1>1, <3>1
    <3>3. SubSeq(raw, k + 1, k) = <<>> BY <3>2, SubSeqEmpty
    <3> QED BY <2>2, <3>1, <3>3, Zenon
  <2>5. h = FrameOf(raw) BY <1>2, <2>4, Zenon DEF FrameOf, HeaderOf
  <2>6. Complete(h).res = "Complete" /\ Complete(h).f = h BY DEF Complete
  <2>7. PICK d : d = NeedData(h) OBVIOUS
  <2>8. d.res = "Complete" /\ d.f = FrameOf(raw) BY <2>1, <2>5, <2>6, <2>7
  <2>9. StepOutcome(d, raw, HeadLen(raw))
    BY <2>3, <2>8, Zenon DEF StepOutcome, Good
  <2> QED BY <1>2, <2>7, <2>9, Zenon
<1>6. CASE ~(IdOf(raw).rtr \/ LenOf(raw) = 0)
  <2>1. NeedData(h) = Need(h.len, h, "Data")
    BY <1>3, <1>6, Zenon DEF NeedData
  <2>2. PICK d : d = NeedData(h) OBVIOUS
  <2>3. d.res = "Need" /\ d.f = h /\ d.st = "Data"
    BY <2>1, <2>2 DEF Need
  <2>4. Decoding(h, "Data", raw) BY <1>2, <1>6, Zenon DEF Decoding
  <2>5. Consumed("Data", raw) = HeadLen(raw) BY DEF Consumed
  <2>6. "Data" # "CanId" OBVIOUS
  <2>7. StepOutcome(d, raw, HeadLen(raw))
    BY <2>3, <2>4, <2>5, <2>6, Zenon DEF StepOutcome
  <2> QED BY <1>2, <2>2, <2>7, Zenon
<1> QED BY <1>5, <1>6

LEMMA PartLength ==
    ASSUME NEW raw \in Seq(Byte), NEW x \in Nat, NEW y \in 0..Len(raw),
           1 <= x, x <= y + 1
    PROVE  /\ Len(SubSeq(raw, x, y)) = y - x + 1
           /\ x = y => SubSeq(raw, x, y)[1] = raw[x]
<1>1. PICK part : part = SubSeq(raw, x, y) OBVIOUS
<1>2. Len(raw) \in Nat BY LenProperties
<1>3. ASSUME NEW i \in x..y PROVE raw[i] \in Byte
  <2>1. i \in 1..Len(raw) BY <1>2
  <2> QED BY <2>1, ElementOfSeq
<1>4. /\ Len(part) = IF x <= y THEN y - x + 1 ELSE 0
      /\ \A i \in 1..(y - x + 1) : part[i] = raw[x + i - 1]
  BY <1>1, <1>2, <1>3, SubSeqProperties
<1>5. Len(part) = y - x + 1 BY <1>2, <1>4
<1>6. ASSUME x = y PROVE part[1] = raw[x]
  <2>1. 1 \in 1..(y - x + 1) /\ x + 1 - 1 = x BY <1>2, <1>6
  <2> QED BY <1>4, <2>1
<1> QED BY <1>1, <1>5, <1>6

FrameRec(c, m, b, x, d) ==
    [can_id |-> c, len |-> m, fd |-> b, fd_flags |-> x, data |-> d]

LEMMA ExceptFlags ==
    ASSUME NEW c, NEW m, NEW b, NEW x, NEW d, NEW y, NEW g, NEW h,
           g = FrameRec(c, m, b, x, d), h = [g EXCEPT !.fd_flags = y]
    PROVE  h = FrameRec(c, m, b, y, d)
  BY DEF FrameRec

LEMMA ExceptId ==
    ASSUME NEW c, NEW g, g = [DefaultFrame EXCEPT !.can_id = c],
           NEW z, z = FALSE
    PROVE  g = FrameRec(c, 0, z, 0, <<>>)
  BY DEF FrameRec, DefaultFrame

\* A header and its fields, and the whole frame with the data.
Fields(raw, c, m, b, x) ==
    /\ c = IdOf(raw) /\ m = LenOf(raw) /\ b = FdOf(raw)
    /\ x = IF FdOf(raw) THEN raw[6] ELSE 0
    /\ HeaderOf(raw) = FrameRec(c, m, b, x, <<>>)
    /\ FrameOf(raw) = FrameRec(c, m, b, x,
                              SubSeq(raw, HeadLen(raw) + 1, Size(raw)))

LEMMA HeaderFields ==
    ASSUME NEW raw
    PROVE  \E c, m, b, x : Fields(raw, c, m, b, x)
<1>1. PICK c : c = IdOf(raw) OBVIOUS
<1>2. PICK m : m = LenOf(raw) OBVIOUS
<1>3. PICK b : b = FdOf(raw) OBVIOUS
<1>4. PICK x : x = (IF FdOf(raw) THEN raw[6] ELSE 0) OBVIOUS
<1>5. HeaderOf(raw) = FrameRec(c, m, b, x, <<>>)
  BY <1>1, <1>2, <1>3, <1>4, Zenon DEF HeaderOf, FrameRec
<1>6. FrameOf(raw) = FrameRec(c, m, b, x,
                              SubSeq(raw, HeadLen(raw) + 1, Size(raw)))
  BY <1>1, <1>2, <1>3, <1>4, Zenon DEF FrameOf, FrameRec
<1> QED BY <1>1, <1>2, <1>3, <1>4, <1>5, <1>6, Zenon DEF Fields

\* Fed the next bytes of raw, the decoder asks for more of them, completes the
\* frame with the last of them, or refuses a frame that parse_udp refuses.
LEMMA DecodeStep ==
    ASSUME NEW raw \in Seq(Byte), Whole(raw) \/ Cut(raw), NEW g, NEW s,
           Decoding(g, s, raw), NEW n, n = Consumed(s, raw) + NeedOf(g, s),
           n <= Len(raw), NEW chunk,
           chunk = SubSeq(raw, Consumed(s, raw) + 1, n)
    PROVE  StepOutcome(DecodeStream(chunk, g, s), raw, n)
<1>1. Len(raw) \in Nat BY LenProperties
<1>2. PICK d : d = DecodeStream(chunk, g, s) OBVIOUS
<1>3. CASE s = "CanId" /\ g = DefaultFrame
  <2>1. Consumed(s, raw) = 0 /\ NeedOf(g, s) = 4 BY <1>3 DEF Consumed, NeedOf
  <2>2. n = 4 /\ chunk = SubSeq(raw, 1, 4) BY <2>1
  <2>3. Len(chunk) = 4
    <3>1. 4 \in 0..Len(raw) BY <1>1, <2>2
    <3> QED BY <2>2, <3>1, PrefixType
  <2>4. d = Need(1, [DefaultFrame EXCEPT !.can_id = IdOf(raw)], "Len")
    BY <1>2, <1>3, <2>2, <2>3 DEF DecodeStream, DecodeCanId, IdOf
  <2>5. /\ d.res = "Need" /\ d.st = "Len"
        /\ d.f = [DefaultFrame EXCEPT !.can_id = IdOf(raw)]
    BY <2>4 DEF Need
  <2>6. Decoding(d.f, d.st, raw) BY <2>2, <2>5 DEF Decoding
  <2>7. Consumed("Len", raw) = 4 BY DEF Consumed
  <2> QED BY <1>2, <2>2, <2>5, <2>6, <2>7 DEF StepOutcome
<1>4. CASE /\ s = "Len" /\ Len(raw) >= 4
           /\ g = [DefaultFrame EXCEPT !.can_id = IdOf(raw)]
  <2>1. Consumed(s, raw) = 4 /\ NeedOf(g, s) = 1 BY <1>4 DEF Consumed, NeedOf
  <2>2. n = 5 /\ chunk = SubSeq(raw, 5, 5) BY <2>1
  <2>3. Len(chunk) = 1 /\ chunk[1] = raw[5]
    <3>1. PICK x : x = 5 OBVIOUS
    <3>2. x \in Nat /\ x \in 0..Len(raw) /\ 1 <= x /\ x <= x + 1 /\ x - x + 1 = 1
      BY <1>1, <2>2, <3>1
    <3>3. Len(SubSeq(raw, x, x)) = x - x + 1 /\ SubSeq(raw, x, x)[1] = raw[x]
      BY <3>2, PartLength
    <3> QED BY <2>2, <3>1, <3>2, <3>3
  <2>4. PICK h : h = [HeaderOf(raw) EXCEPT !.fd_flags = 0] OBVIOUS
  <2>5. [g EXCEPT !.fd = FdOf(raw), !.len = LenOf(raw)] = h
    <3>0. PICK c, m, b, x : Fields(raw, c, m, b, x) BY HeaderFields
    <3>1. /\ c = IdOf(raw) /\ m = LenOf(raw) /\ b = FdOf(raw)
          /\ HeaderOf(raw) = FrameRec(c, m, b, x, <<>>)
      BY <3>0, Zenon DEF Fields
    <3>2. h = FrameRec(c, m, b, 0, <<>>)
      BY <2>4, <3>1, ExceptFlags
    <3>3. PICK z : z = FALSE OBVIOUS
    <3>4. g = FrameRec(c, 0, z, 0, <<>>)
      BY <1>4, <3>1, <3>3, ExceptId
    <3>5. PICK e : e = [g EXCEPT !.fd = b, !.len = m] OBVIOUS
    <3>6. e = FrameRec(c, m, b, 0, <<>>) BY <3>4, <3>5 DEF FrameRec
    <3> QED BY <3>1, <3>2, <3>5, <3>6, Zenon
  <2>6. h.len = LenOf(raw) BY <2>4 DEF HeaderOf
  <2>7. d = IF LenOf(raw) > LenLimit(FdOf(raw)) THEN Error(h, "Len")
            ELSE IF FdOf(raw) THEN Need(1, h, "Flags") ELSE NeedData(h)
    <3>1. d = DecodeLen(chunk, g) BY <1>2, <1>4 DEF DecodeStream
    <3>2. /\ FdOf(raw) = (chunk[1] >= CANFD_FRAME)
          /\ LenOf(raw) = chunk[1] % CANFD_FRAME
      BY <2>3, Zenon DEF FdOf, LenOf
    <3>3. d = IF [g EXCEPT !.fd = FdOf(raw), !.len = LenOf(raw)].len
                   > LenLimit(FdOf(raw))
              THEN Error([g EXCEPT !.fd = FdOf(raw), !.len = LenOf(raw)], "Len")
              ELSE IF FdOf(raw)
                   THEN Need(1, [g EXCEPT !.fd = FdOf(raw), !.len = LenOf(raw)],
                             "Flags")
                   ELSE NeedData([g EXCEPT !.fd = FdOf(raw), !.len = LenOf(raw)])
      BY <2>3, <3>1, <3>2, Zenon DEF DecodeLen
    <3> QED BY <2>5, <2>6, <3>3, Zenon
  <2>8. LenOf(raw) > LenLimit(FdOf(raw)) <=> ~Allowed(raw)
    <3>1. LenOf(raw) \in 0..127 BY <2>2, RawShape
    <3>2. LenLimit(FdOf(raw)) \in {8, 64}
      BY DEF LenLimit, MAX_FRAME_LEN, CLASSIC_FRAME_MAX_LEN
    <3> DEFINE a == LenOf(raw)
               b == LenLimit(FdOf(raw))
    <3>3. a \in 0..127 /\ b \in {8, 64} BY <3>1, <3>2
    <3> HIDE DEF a, b
    <3>4. a > b <=> ~(a <= b) BY <3>3
    <3> QED BY <3>4 DEF a, b, Allowed
  <2>9. CASE ~Allowed(raw)
    <3>1. d.res = "Error" BY <2>7, <2>8, <2>9 DEF Error
    <3> QED BY <1>2, <2>9, <3>1 DEF StepOutcome, Good
  <2>10. CASE Allowed(raw) /\ FdOf(raw)
    <3>1. d = Need(1, h, "Flags") BY <2>7, <2>8, <2>10, Zenon
    <3>2. d.res = "Need" /\ d.f = h /\ d.st = "Flags" BY <3>1 DEF Need
    <3>3. Decoding(h, "Flags", raw) BY <2>2, <2>4, <2>10 DEF Decoding
    <3>4. Consumed("Flags", raw) = 5 BY DEF Consumed
    <3> QED BY <1>2, <2>2, <3>2, <3>3, <3>4 DEF StepOutcome
  <2>11. CASE Allowed(raw) /\ ~FdOf(raw)
    <3>1. d = NeedData(h) BY <2>7, <2>8, <2>11, Zenon
    <3>2. h = HeaderOf(raw) BY <2>4, <2>11 DEF HeaderOf
    <3>3. HeadLen(raw) = 5 BY <2>11 DEF HeadLen
    <3>4. Len(raw) >= 5 /\ Len(raw) >= HeadLen(raw) BY <2>2, <3>3
    <3>5. StepOutcome(NeedData(HeaderOf(raw)), raw, HeadLen(raw))
      BY <2>11, <3>4, NeedDataStep
    <3> QED BY <1>2, <2>2, <3>1, <3>2, <3>3, <3>5, Zenon
  <2> QED BY <2>9, <2>10, <2>11
<1>5. CASE /\ s = "Flags" /\ Len(raw) >= 5 /\ FdOf(raw) /\ Allowed(raw)
           /\ g = [HeaderOf(raw) EXCEPT !.fd_flags = 0]
  <2>1. Consumed(s, raw) = 5 /\ NeedOf(g, s) = 1 BY <1>5 DEF Consumed, NeedOf
  <2>2. n = 6 /\ chunk = SubSeq(raw, 6, 6) BY <2>1
  <2>3. Len(chunk) = 1 /\ chunk[1] = raw[6]
    <3>1. PICK x : x = 6 OBVIOUS
    <3>2. x \in Nat /\ x \in 0..Len(raw) /\ 1 <= x /\ x <= x + 1 /\ x - x + 1 = 1
      BY <1>1, <2>2, <3>1
    <3>3. Len(SubSeq(raw, x, x)) = x - x + 1 /\ SubSeq(raw, x, x)[1] = raw[x]
      BY <3>2, PartLength
    <3> QED BY <2>2, <3>1, <3>2, <3>3
  <2>4. [g EXCEPT !.fd_flags = raw[6]] = HeaderOf(raw)
    <3>0. PICK c, m, b, x : Fields(raw, c, m, b, x) BY HeaderFields
    <3>1. /\ c = IdOf(raw) /\ m = LenOf(raw) /\ b = FdOf(raw)
          /\ x = IF FdOf(raw) THEN raw[6] ELSE 0
          /\ HeaderOf(raw) = FrameRec(c, m, b, x, <<>>)
      BY <3>0, Zenon DEF Fields
    <3>2. x = raw[6] BY <1>5, <3>1
    <3>3. g = FrameRec(c, m, b, 0, <<>>)
      <4>1. PICK h : h = HeaderOf(raw) OBVIOUS
      <4>2. h = FrameRec(c, m, b, x, <<>>) BY <3>1, <4>1, Zenon
      <4>3. g = [h EXCEPT !.fd_flags = 0] BY <1>5, <4>1, Zenon
      <4> QED BY <4>2, <4>3, ExceptFlags
    <3>4. PICK e : e = [g EXCEPT !.fd_flags = x] OBVIOUS
    <3>5. e = FrameRec(c, m, b, x, <<>>) BY <3>3, <3>4, ExceptFlags
    <3> QED BY <3>1, <3>2, <3>4, <3>5, Zenon
  <2>5. d = NeedData(HeaderOf(raw))
    <3>1. d = DecodeFlags(chunk, g) BY <1>2, <1>5 DEF DecodeStream
    <3> QED BY <2>3, <2>4, <3>1, Zenon DEF DecodeFlags
  <2>6. HeadLen(raw) = 6 BY <1>5 DEF HeadLen
  <2>7. Len(raw) >= HeadLen(raw) BY <2>2, <2>6
  <2>8. StepOutcome(NeedData(HeaderOf(raw)), raw, HeadLen(raw))
    BY <1>5, <2>7, NeedDataStep
  <2> QED BY <1>2, <2>2, <2>5, <2>6, <2>8, Zenon
<1>6. CASE /\ s = "Data" /\ Len(raw) >= HeadLen(raw) /\ Allowed(raw)
           /\ ~IdOf(raw).rtr
           /\ g = HeaderOf(raw)
  <2>1. Consumed(s, raw) = HeadLen(raw) /\ NeedOf(g, s) = LenOf(raw)
    BY <1>6 DEF Consumed, NeedOf, HeaderOf
  <2>2. HeadLen(raw) \in {5, 6} BY DEF HeadLen
  <2>3. Len(raw) >= 5 BY <1>1, <1>6, <2>2
  <2>4. LenOf(raw) \in 0..127 /\ Size(raw) = HeadLen(raw) + LenOf(raw)
    BY <1>6, <2>3, RawShape
  <2>5. n = Size(raw) BY <2>1, <2>4
  <2>6. Whole(raw)
    <3>1. Size(raw) \in Nat BY <2>3, RawShape
    <3>2. ~(Len(raw) < Size(raw)) BY <1>1, <2>5, <3>1
    <3> QED BY <2>3, <3>2 DEF Cut
  <2>7. chunk = SubSeq(raw, HeadLen(raw) + 1, Size(raw)) BY <2>1, <2>5
  <2>8. Len(chunk) = LenOf(raw)
    <3>1. PICK a : a = HeadLen(raw) OBVIOUS
    <3>2. PICK m : m = LenOf(raw) OBVIOUS
    <3>3. /\ a \in {5, 6} /\ m \in 0..127 /\ a + m <= Len(raw)
          /\ chunk = SubSeq(raw, a + 1, a + m)
      BY <2>2, <2>4, <2>5, <2>7, <3>1, <3>2
    <3>4. Len(SubSeq(raw, a + 1, a + m)) = m
      <4>1. PICK x : x = a + 1 OBVIOUS
      <4>2. PICK y : y = a + m OBVIOUS
      <4>3. /\ x \in Nat /\ y \in 0..Len(raw) /\ 1 <= x /\ x <= y + 1
            /\ y - x + 1 = m
        BY <1>1, <3>3, <4>1, <4>2
      <4>4. Len(SubSeq(raw, x, y)) = y - x + 1 BY <4>3, PartLength
      <4> QED BY <4>1, <4>2, <4>3, <4>4
    <3> QED BY <3>2, <3>3, <3>4, Zenon
  <2>9. g.len = LenOf(raw) BY <1>6 DEF HeaderOf
  <2>10. ~(g.len > MAX_FRAME_LEN)
    <3>1. LenLimit(FdOf(raw)) \in {8, 64}
      BY DEF LenLimit, MAX_FRAME_LEN, CLASSIC_FRAME_MAX_LEN
    <3>2. LenOf(raw) <= LenLimit(FdOf(raw)) BY <1>6 DEF Allowed
    <3> DEFINE a == LenOf(raw)
               b == LenLimit(FdOf(raw))
    <3> HIDE DEF a, b
    <3>3. a \in 0..127 /\ b \in {8, 64} /\ a <= b BY <2>4, <3>1, <3>2 DEF a, b
    <3>4. ~(a > 64) BY <3>3
    <3> QED BY <2>9, <3>4 DEF a, MAX_FRAME_LEN
  <2>11. d = Complete([g EXCEPT !.data = chunk])
    <3>1. d = DecodeData(chunk, g) BY <1>2, <1>6 DEF DecodeStream
    <3> QED BY <2>8, <2>9, <2>10, <3>1, Zenon DEF DecodeData
  <2>12. [g EXCEPT !.data = chunk] = FrameOf(raw)
    <3>0. PICK c, m, b, x : Fields(raw, c, m, b, x) BY HeaderFields
    <3>1. /\ HeaderOf(raw) = FrameRec(c, m, b, x, <<>>)
          /\ FrameOf(raw) = FrameRec(c, m, b, x, chunk)
      BY <2>7, <3>0, Zenon DEF Fields
    <3>2. PICK h : h = [g EXCEPT !.data = chunk] OBVIOUS
    <3>3. h = FrameRec(c, m, b, x, chunk)
      <4>1. g = FrameRec(c, m, b, x, <<>>) BY <1>6, <3>1, Zenon
      <4> QED BY <3>2, <4>1 DEF FrameRec
    <3> QED BY <3>1, <3>2, <3>3, Zenon
  <2>13. d.res = "Complete" /\ d.f = FrameOf(raw)
    BY <2>11, <2>12 DEF Complete
  <2>14. Len(raw) = n BY <2>5, <2>6 DEF Whole
  <2> QED BY <1>2, <1>6, <2>6, <2>13, <2>14 DEF StepOutcome, Good
<1> QED BY <1>3, <1>4, <1>5, <1>6, Zenon DEF Decoding

-----------------------------------------------------------------------------
(* Where what was sent lies in the bytes not yet read. *)

\* at[i] bytes come before the i-th entry of ss; of an entry that starts at less
\* than 0, that many bytes are gone.
LaidOut(at, ss, bytes) ==
    /\ at \in [1..(Len(ss) + 1) -> Int]
    /\ at[Len(ss) + 1] = Len(bytes)
    /\ \A i \in 1..Len(ss) :
         /\ at[i + 1] = at[i] + Len(ss[i].raw)
         /\ at[i + 1] <= Len(bytes)
         /\ \A j \in 1..Len(ss[i].raw) :
              at[i] + j >= 1 => bytes[at[i] + j] = ss[i].raw[j]

\* What is sent comes after what is there.
LEMMA LayoutSend ==
    ASSUME NEW ss \in Seq(Entry), NEW bytes \in Seq(Byte), NEW at,
           LaidOut(at, ss, bytes), NEW e \in Entry
    PROVE  \E at2 : /\ LaidOut(at2, Append(ss, e), bytes \o e.raw)
                    /\ \A i \in 1..(Len(ss) + 1) : at2[i] = at[i]
<1>1. PICK n : n = Len(ss) OBVIOUS
<1>2. PICK raw : raw = e.raw OBVIOUS
<1>3. PICK m : m = Len(bytes) OBVIOUS
<1>4. PICK l : l = Len(raw) OBVIOUS
<1>5. n \in Nat /\ m \in Nat /\ raw \in Seq(Byte) /\ l \in Nat
  BY <1>1, <1>2, <1>3, <1>4, LenProperties DEF Entry
<1>6. PICK tt : tt = Append(ss, e) OBVIOUS
<1>7. /\ Len(tt) = n + 1 /\ tt[n + 1] = e
      /\ \A i \in 1..n : tt[i] = ss[i]
  BY <1>1, <1>6, AppendProperties
<1>8. PICK bb : bb = bytes \o raw OBVIOUS
<1>9. Joined(Byte, bytes, m, raw, l, bb)
  BY <1>3, <1>4, <1>5, <1>8, ConcatParts
<1>10. /\ Len(bb) = m + l
       /\ \A i \in 1..m : bb[i] = bytes[i]
       /\ \A i \in (m + 1)..(m + l) : bb[i] = raw[i - m]
  BY <1>9 DEF Joined
<1>11. /\ at \in [1..(n + 1) -> Int] /\ at[n + 1] = m
       /\ \A i \in 1..n :
            /\ at[i + 1] = at[i] + Len(ss[i].raw)
            /\ at[i + 1] <= m
            /\ \A j \in 1..Len(ss[i].raw) :
                 at[i] + j >= 1 => bytes[at[i] + j] = ss[i].raw[j]
  BY <1>1, <1>3, Zenon DEF LaidOut
<1>12. PICK at2 : at2 = [i \in 1..(n + 2) |-> IF i = n + 2 THEN m + l ELSE at[i]]
  OBVIOUS
<1>13. /\ at2 \in [1..(n + 2) -> Int] /\ at2[n + 2] = m + l
       /\ \A i \in 1..(n + 1) : at2[i] = at[i]
  BY <1>5, <1>11, <1>12
<1>14. ASSUME NEW i \in 1..(n + 1)
       PROVE  /\ at2[i + 1] = at2[i] + Len(tt[i].raw)
              /\ at2[i + 1] <= m + l
              /\ \A j \in 1..Len(tt[i].raw) :
                   at2[i] + j >= 1 => bb[at2[i] + j] = tt[i].raw[j]
  <2>1. CASE i = n + 1
    <3>1. at2[i] = m /\ at2[i + 1] = m + l /\ tt[i].raw = raw
      BY <1>2, <1>5, <1>7, <1>11, <1>13, <2>1
    <3>2. ASSUME NEW j \in 1..l PROVE bb[m + j] = raw[j]
      <4>1. m + j \in (m + 1)..(m + l) /\ (m + j) - m = j BY <1>5
      <4> QED BY <1>10, <4>1
    <3> QED BY <1>4, <1>5, <3>1, <3>2
  <2>2. CASE i \in 1..n
    <3>1. /\ at2[i] = at[i] /\ at2[i + 1] = at[i + 1] /\ tt[i] = ss[i]
          /\ at[i] \in Int /\ at[i + 1] \in Int
      BY <1>5, <1>7, <1>11, <1>13, <2>2
    <3>2. /\ at[i + 1] = at[i] + Len(ss[i].raw) /\ at[i + 1] <= m
          /\ \A j \in 1..Len(ss[i].raw) :
                 at[i] + j >= 1 => bytes[at[i] + j] = ss[i].raw[j]
      BY <1>11, <2>2
    <3>3. PICK x : x = at[i] OBVIOUS
    <3>4. PICK k : k = Len(ss[i].raw) OBVIOUS
    <3>5. k \in Nat
      <4>1. ss[i] \in Entry BY <1>1, <2>2, ElementOfSeq
      <4>2. ss[i].raw \in Seq(Byte) BY <4>1 DEF Entry
      <4> QED BY <3>4, <4>2, LenProperties
    <3>6. ASSUME NEW j \in 1..k, x + j >= 1 PROVE bb[x + j] = ss[i].raw[j]
      <4>1. x \in Int /\ x + k <= m BY <3>1, <3>2, <3>3, <3>4
      <4>2. x + j \in 1..m BY <1>5, <3>5, <3>6, <4>1
      <4>3. bytes[x + j] = ss[i].raw[j] BY <3>2, <3>3, <3>4, <3>6
      <4> QED BY <1>10, <4>2, <4>3
    <3>7. at[i + 1] <= m + l
      <4>1. PICK y : y = at[i + 1] OBVIOUS
      <4>2. y \in Int /\ y <= m BY <3>1, <3>2, <4>1
      <4>3. y <= m + l BY <1>5, <4>2
      <4> QED BY <4>1, <4>3
    <3> QED BY <3>1, <3>2, <3>3, <3>4, <3>6, <3>7
  <2> QED BY <1>5, <2>1, <2>2
<1>15. n + 2 = (n + 1) + 1 BY <1>5
<1>16. LaidOut(at2, tt, bb)
  BY <1>7, <1>10, <1>13, <1>14, <1>15, Zenon DEF LaidOut
<1> QED BY <1>1, <1>2, <1>6, <1>8, <1>13, <1>16, Zenon

\* Reading n bytes moves everything n bytes forward.
LEMMA LayoutRead ==
    ASSUME NEW ss \in Seq(Entry), NEW bytes \in Seq(Byte), NEW at,
           LaidOut(at, ss, bytes), NEW n \in 0..Len(bytes)
    PROVE  \E at2 : /\ LaidOut(at2, ss, SubSeq(bytes, n + 1, Len(bytes)))
                    /\ \A i \in 1..(Len(ss) + 1) : at2[i] = at[i] - n
<1>1. PICK w : w = Len(ss) OBVIOUS
<1>2. PICK m : m = Len(bytes) OBVIOUS
<1>3. w \in Nat /\ m \in Nat /\ n \in 0..m BY <1>1, <1>2, LenProperties
<1>4. PICK rest : rest = SubSeq(bytes, n + 1, m) OBVIOUS
<1>5. Len(rest) = m - n /\ \A i \in 1..(m - n) : rest[i] = bytes[n + i]
  <2>1. \A i \in (n + 1)..m : bytes[i] \in Byte BY <1>2, <1>3, ElementOfSeq
  <2>2. /\ Len(rest) = IF n + 1 <= m THEN m - (n + 1) + 1 ELSE 0
        /\ \A i \in 1..(m - (n + 1) + 1) : rest[i] = bytes[n + 1 + i - 1]
    <3>1. n + 1 \in Int /\ m \in Int BY <1>3
    <3> QED BY <1>4, <2>1, <3>1, SubSeqProperties
  <2> QED BY <1>3, <2>2
<1>6. /\ at \in [1..(w + 1) -> Int] /\ at[w + 1] = m
      /\ \A i \in 1..w :
           /\ at[i + 1] = at[i] + Len(ss[i].raw)
           /\ at[i + 1] <= m
           /\ \A j \in 1..Len(ss[i].raw) :
                at[i] + j >= 1 => bytes[at[i] + j] = ss[i].raw[j]
  BY <1>1, <1>2, Zenon DEF LaidOut
<1>7. PICK at2 : at2 = [i \in 1..(w + 1) |-> at[i] - n] OBVIOUS
<1>8. /\ at2 \in [1..(w + 1) -> Int]
      /\ \A i \in 1..(w + 1) : at2[i] = at[i] - n
  BY <1>3, <1>6, <1>7
<1>9. at2[w + 1] = m - n BY <1>3, <1>6, <1>8
<1>10. ASSUME NEW i \in 1..w
       PROVE  /\ at2[i + 1] = at2[i] + Len(ss[i].raw)
              /\ at2[i + 1] <= m - n
              /\ \A j \in 1..Len(ss[i].raw) :
                   at2[i] + j >= 1 => rest[at2[i] + j] = ss[i].raw[j]
  <2>1. PICK x : x = at[i] OBVIOUS
  <2>2. PICK k : k = Len(ss[i].raw) OBVIOUS
  <2>3. k \in Nat
    <3>1. ss[i] \in Entry BY <1>1, ElementOfSeq
    <3>2. ss[i].raw \in Seq(Byte) BY <3>1 DEF Entry
    <3> QED BY <2>2, <3>2, LenProperties
  <2>4. x \in Int /\ at2[i] = x - n /\ at2[i + 1] = at[i + 1] - n
    BY <1>3, <1>6, <1>8, <2>1
  <2>5. at[i + 1] = x + k /\ x + k <= m BY <1>6, <2>1, <2>2
  <2>6. ASSUME NEW j \in 1..k, (x - n) + j >= 1
        PROVE  rest[(x - n) + j] = ss[i].raw[j]
    <3>1. PICK y : y = (x - n) + j OBVIOUS
    <3>2. y \in 1..(m - n) /\ n + y = x + j /\ x + j >= 1
      BY <1>3, <2>3, <2>4, <2>5, <2>6, <3>1
    <3>3. rest[y] = bytes[n + y] BY <1>5, <3>2
    <3>4. bytes[x + j] = ss[i].raw[j] BY <1>6, <2>1, <2>2, <2>6, <3>2
    <3> QED BY <3>1, <3>2, <3>3, <3>4
  <2>7. (x + k) - n = (x - n) + k /\ (x + k) - n <= m - n
    BY <1>3, <2>3, <2>4, <2>5
  <2> QED BY <2>2, <2>4, <2>5, <2>6, <2>7
<1>11. LaidOut(at2, ss, rest)
  BY <1>1, <1>5, <1>8, <1>9, <1>10, Zenon DEF LaidOut
<1> QED BY <1>1, <1>2, <1>4, <1>8, <1>11, Zenon

\* Of raw, the k-th entry, c bytes are gone, and n more of them are in bytes.
Reading(at, ss, bytes, k, raw, c, n, a, m) ==
    /\ bytes \in Seq(Byte) /\ raw \in Seq(Byte)
    /\ LaidOut(at, ss, bytes)
    /\ k \in 1..Len(ss) /\ raw = ss[k].raw /\ at[k] = 0 - c
    /\ c \in Nat /\ n \in 0..Len(bytes)
    /\ a = c + 1 /\ m = c + n /\ m <= Len(raw)

SameBytes(bytes, n, raw, a, m) == SubSeq(bytes, 1, n) = SubSeq(raw, a, m)

\* The next bytes are those of the entry that is being read.
LEMMA LayoutNext ==
    ASSUME NEW ss, NEW bytes, NEW at, NEW k, NEW raw, NEW c, NEW n,
           NEW a, NEW m, Reading(at, ss, bytes, k, raw, c, n, a, m)
    PROVE  SameBytes(bytes, n, raw, a, m)
<1>0. /\ bytes \in Seq(Byte) /\ raw \in Seq(Byte)
      /\ LaidOut(at, ss, bytes)
      /\ k \in 1..Len(ss) /\ raw = ss[k].raw /\ at[k] = 0 - c
      /\ c \in Nat /\ n \in 0..Len(bytes)
      /\ a = c + 1 /\ m = c + n /\ m <= Len(raw)
  BY DEF Reading
<1>1. Len(raw) \in Nat /\ Len(bytes) \in Nat BY <1>0, LenProperties
<1>2. PICK s : s = SubSeq(bytes, 1, n) OBVIOUS
<1>3. PICK t : t = SubSeq(raw, a, m) OBVIOUS
<1>4. \A i \in 1..n : bytes[i] \in Byte BY <1>0, <1>1, ElementOfSeq
<1>5. \A i \in (c + 1)..(c + n) : raw[i] \in Byte BY <1>0, <1>1, ElementOfSeq
<1>6. /\ s \in Seq(Byte) /\ Len(s) = n /\ \A i \in 1..n : s[i] = bytes[i]
  <2>1. /\ s \in Seq(Byte) /\ Len(s) = IF 1 <= n THEN n - 1 + 1 ELSE 0
        /\ \A i \in 1..(n - 1 + 1) : s[i] = bytes[1 + i - 1]
    BY <1>0, <1>1, <1>2, <1>4, SubSeqProperties
  <2> QED BY <1>0, <1>1, <2>1
<1>7. /\ t \in Seq(Byte) /\ Len(t) = n /\ \A i \in 1..n : t[i] = raw[c + i]
  <2>1. a \in Int /\ m \in Int /\ \A i \in a..m : raw[i] \in Byte
    BY <1>0, <1>5
  <2>2. /\ t \in Seq(Byte) /\ Len(t) = IF a <= m THEN m - a + 1 ELSE 0
        /\ \A i \in 1..(m - a + 1) : t[i] = raw[a + i - 1]
    BY <1>3, <2>1, SubSeqProperties
  <2>3. m - a + 1 = n /\ n \in Nat BY <1>0, <1>1
  <2>4. Len(t) = n BY <1>0, <2>2, <2>3
  <2>5. ASSUME NEW i \in 1..n PROVE t[i] = raw[c + i]
    <3>1. a + i - 1 = c + i BY <1>0, <2>3
    <3> QED BY <2>2, <2>3, <3>1
  <2> QED BY <2>2, <2>4, <2>5
<1>8. ASSUME NEW i \in 1..n PROVE s[i] = t[i]
  <2>1. \A j \in 1..Len(raw) : at[k] + j >= 1 => bytes[at[k] + j] = raw[j]
    BY <1>0, Zenon DEF LaidOut
  <2>2. PICK j : j = c + i OBVIOUS
  <2>3. j \in 1..Len(raw) /\ (0 - c) + j = i /\ i >= 1
    <3>1. c \in Nat /\ m = c + n /\ m <= Len(raw) /\ n \in Nat BY <1>0, <1>1
    <3> QED BY <1>1, <2>2, <3>1
  <2>4. bytes[i] = raw[j] BY <1>0, <2>1, <2>3
  <2> QED BY <1>6, <1>7, <2>2, <2>4
<1>9. s = t BY <1>0, <1>6, <1>7, <1>8, SeqEqual
<1> QED BY <1>2, <1>3, <1>9, Zenon DEF SameBytes

-----------------------------------------------------------------------------
(* The receive loop keeps in step with what is sent. *)

\* What the decoder is reading once k frames have been delivered.
Current(ss, k) == IF k < Len(ss) THEN ss[k + 1].raw ELSE <<>>

\* The ring has been given the frames that were sent, in their order.
Delivered ==
    /\ Len(pushed) <= Len(sent)
    /\ \A i \in 1..Len(pushed) :
         Good(sent[i].raw) /\ pushed[i] = FrameOf(sent[i].raw)

\* The decoder stands where the bytes that it has read end.
Following ==
    alive => LET raw == Current(sent, Len(pushed))
             IN  /\ Decoding(f, st, raw)
                 /\ \E at : /\ LaidOut(at, sent, stream)
                            /\ at[Len(pushed) + 1] = 0 - Consumed(st, raw)

\* The loop ends for a frame that is refused or when the peer has gone.
Stopped ==
    ~alive => ~peerOpen \/ \E i \in 1..Len(sent) : ~Good(sent[i].raw)

InStep == Delivered /\ Following /\ Stopped

LEMMA ConsumedShape ==
    ASSUME NEW raw \in Seq(Byte), NEW g, NEW s, Decoding(g, s, raw)
    PROVE  Consumed(s, raw) \in Nat /\ Consumed(s, raw) <= Len(raw)
<1>1. Len(raw) \in Nat BY LenProperties
<1>2. CASE s = "CanId" BY <1>1, <1>2 DEF Consumed
<1>3. CASE s = "Len" /\ Len(raw) >= 4 BY <1>1, <1>3 DEF Consumed
<1>4. CASE s = "Flags" /\ Len(raw) >= 5 BY <1>1, <1>4 DEF Consumed
<1>5. CASE s = "Data" /\ Len(raw) >= HeadLen(raw)
  <2>1. Consumed(s, raw) = HeadLen(raw) BY <1>5 DEF Consumed
  <2>2. HeadLen(raw) \in {5, 6} BY DEF HeadLen
  <2> DEFINE h == HeadLen(raw)
  <2> HIDE DEF h
  <2>3. Consumed(s, raw) = h /\ h \in {5, 6} /\ h <= Len(raw)
    BY <1>1, <1>5, <2>1, <2>2 DEF h
  <2> QED BY <1>1, <2>3
<1> QED BY <1>2, <1>3, <1>4, <1>5, Zenon DEF Decoding

\* A whole frame has the bytes that are asked for.
LEMMA WholeHasNeed ==
    ASSUME NEW raw \in Seq(Byte), NEW g, NEW s, Decoding(g, s, raw), Whole(raw)
    PROVE  Consumed(s, raw) + NeedOf(g, s) <= Len(raw)
<1>1. Len(raw) \in Nat /\ Len(raw) >= 5 /\ Len(raw) = Size(raw)
  BY LenProperties DEF Whole
<1>2. /\ HeadLen(raw) \in {5, 6} /\ Size(raw) >= HeadLen(raw)
      /\ ~IdOf(raw).rtr => Size(raw) = HeadLen(raw) + LenOf(raw)
  BY <1>1, RawShape
<1>3. CASE s = "CanId" BY <1>1, <1>3 DEF Consumed, NeedOf
<1>4. CASE s = "Len" BY <1>1, <1>4 DEF Consumed, NeedOf
<1>5. CASE s = "Flags" /\ FdOf(raw)
  <2>1. HeadLen(raw) = 6 BY <1>5 DEF HeadLen
  <2>2. 6 <= Len(raw) BY <1>1, <1>2, <2>1
  <2> QED BY <1>5, <2>2 DEF Consumed, NeedOf
<1>6. CASE s = "Data" /\ g = HeaderOf(raw) /\ ~IdOf(raw).rtr
  <2>1. Consumed(s, raw) = HeadLen(raw) /\ NeedOf(g, s) = LenOf(raw)
    BY <1>6 DEF Consumed, NeedOf, HeaderOf
  <2>2. Consumed(s, raw) + NeedOf(g, s) = Len(raw)
    BY <1>1, <1>2, <1>6, <2>1, Zenon
  <2> QED BY <1>1, <2>2
<1> QED BY <1>3, <1>4, <1>5, <1>6, Zenon DEF Decoding

LEMMA InStepInit == Init => InStep
<1> SUFFICES ASSUME Init PROVE InStep OBVIOUS
<1>1. st = "CanId" /\ f = DefaultFrame BY PrimedDecoder DEF Init, Need
<1>2. /\ sent = <<>> /\ pushed = <<>> /\ stream = <<>> /\ alive = TRUE
      /\ Len(<<>>) = 0
  BY DEF Init
<1>3. Delivered BY <1>2 DEF Delivered
<1>4. Following
  <2>1. PICK at : at = [i \in 1..(0 + 1) |-> 0] OBVIOUS
  <2>2. at \in [1..(0 + 1) -> Int] /\ at[0 + 1] = 0 BY <2>1
  <2>3. LaidOut(at, sent, stream)
    <3>1. \A i \in 1..0 : FALSE OBVIOUS
    <3> QED BY <1>2, <2>2, <3>1, Zenon DEF LaidOut
  <2>4. PICK raw : raw = Current(sent, Len(pushed)) OBVIOUS
  <2>5. Decoding(f, st, raw) BY <1>1 DEF Decoding
  <2>6. Consumed(st, raw) = 0 BY <1>1 DEF Consumed
  <2>7. at[Len(pushed) + 1] = 0 - Consumed(st, raw) BY <1>2, <2>2, <2>6
  <2> QED BY <2>3, <2>4, <2>5, <2>7, Zenon DEF Following
<1>5. Stopped BY <1>2 DEF Stopped
<1> QED BY <1>3, <1>4, <1>5 DEF InStep

LEMMA GoodFrame ==
    ASSUME NEW raw \in Seq(Byte), Good(raw)
    PROVE  FrameOf(raw) \in Frame
<1>1. Len(raw) \in Nat /\ Len(raw) >= 5 /\ Len(raw) = Size(raw)
  BY LenProperties DEF Good, Whole
<1>2. /\ LenOf(raw) \in 0..127 /\ HeadLen(raw) \in {5, 6}
      /\ IdOf(raw) \in CanId /\ Size(raw) >= HeadLen(raw)
  BY <1>1, RawShape
<1>3. PICK x : x = (IF FdOf(raw) THEN raw[6] ELSE 0) OBVIOUS
<1>4. x \in Byte
  <2>1. CASE FdOf(raw)
    <3>1. HeadLen(raw) = 6 BY <2>1 DEF HeadLen
    <3>2. 6 \in 1..Len(raw) BY <1>1, <1>2, <3>1
    <3> QED BY <1>3, <2>1, <3>2, ElementOfSeq
  <2>2. CASE ~FdOf(raw) BY <1>3, <2>2 DEF Byte
  <2> QED BY <2>1, <2>2
<1>5. PICK d : d = SubSeq(raw, HeadLen(raw) + 1, Size(raw)) OBVIOUS
<1>6. d \in Seq(Byte)
  <2>1. PICK h : h = HeadLen(raw) OBVIOUS
  <2>2. PICK z : z = Size(raw) OBVIOUS
  <2>3. h \in {5, 6} /\ z = Len(raw) BY <1>1, <1>2, <2>1, <2>2
  <2>4. \A i \in (h + 1)..z : raw[i] \in Byte
    <3>1. \A i \in (h + 1)..z : i \in 1..Len(raw) BY <1>1, <2>3
    <3> QED BY <3>1, ElementOfSeq
  <2>5. h + 1 \in Int /\ z \in Int BY <1>1, <2>3
  <2> QED BY <1>5, <2>1, <2>2, <2>4, <2>5, SubSeqProperties
<1>7. FdOf(raw) \in BOOLEAN BY DEF FdOf
<1>8. PICK b \in BOOLEAN : b = FdOf(raw) BY <1>7
<1>9. FrameOf(raw) = [can_id |-> IdOf(raw), len |-> LenOf(raw), fd |-> b,
                      fd_flags |-> x, data |-> d]
  BY <1>3, <1>5, <1>8, Zenon DEF FrameOf
<1> QED BY <1>2, <1>4, <1>6, <1>9 DEF Frame

LEMMA SendInStep ==
    ASSUME TypeOK, SentShape, InStep, NEW raw \in Seq(Byte), NEW call \in Calls,
           Send(raw, call), UNCHANGED <<alive, st, f, pushed>>
    PROVE  InStep'
<1>1. PICK e : e = [raw |-> raw, call |-> call] OBVIOUS
<1>2. e \in Entry /\ e.raw = raw BY <1>1 DEF Entry
<1>3. PICK n : n = Len(sent) OBVIOUS
<1>4. PICK k : k = Len(pushed) OBVIOUS
<1>5. sent \in Seq(Entry) /\ stream \in Seq(Byte) BY DEF SentShape, TypeOK
<1>6. /\ sent' = Append(sent, e) /\ stream' = stream \o e.raw /\ peerOpen
      /\ pushed' = pushed /\ alive' = alive /\ st' = st /\ f' = f
  BY <1>1, <1>2 DEF Send
<1>7. /\ Len(sent') = n + 1 /\ sent'[n + 1] = e
      /\ \A i \in 1..n : sent'[i] = sent[i]
  BY <1>2, <1>3, <1>5, <1>6, AppendProperties
<1>8. n \in Nat /\ k \in Nat
  BY <1>3, <1>4, <1>5, LenProperties DEF TypeOK
<1>9. /\ k <= n
      /\ \A i \in 1..k : Good(sent[i].raw) /\ pushed[i] = FrameOf(sent[i].raw)
  BY <1>3, <1>4, Zenon DEF InStep, Delivered
<1>10. Delivered'
  <2>1. k <= n + 1 BY <1>8, <1>9
  <2>2. \A i \in 1..k : i \in 1..n BY <1>8, <1>9
  <2>3. \A i \in 1..k :
          Good(sent'[i].raw) /\ pushed'[i] = FrameOf(sent'[i].raw)
    BY <1>6, <1>7, <1>9, <2>2, Zenon
  <2> QED BY <1>4, <1>6, <1>7, <2>1, <2>3, Zenon DEF Delivered
<1>11. Following'
  <2> SUFFICES ASSUME alive' PROVE Following' BY DEF Following
  <2>0. alive BY <1>6
  <2>1. PICK now : now = Current(sent, k) OBVIOUS
  <2>2. PICK next : next = Current(sent', k) OBVIOUS
  <2>3. PICK at : LaidOut(at, sent, stream) /\ at[k + 1] = 0 - Consumed(st, now)
    BY <1>4, <2>0, <2>1, Zenon DEF InStep, Following
  <2>4. Decoding(f, st, now) BY <1>4, <2>0, <2>1, Zenon DEF InStep, Following
  <2>5. PICK at2 : /\ LaidOut(at2, Append(sent, e), stream \o e.raw)
                   /\ \A i \in 1..(n + 1) : at2[i] = at[i]
    BY <1>2, <1>3, <1>5, <2>3, LayoutSend
  <2>6. LaidOut(at2, sent', stream') BY <1>6, <2>5, Zenon
  <2>7. at2[k + 1] = at[k + 1]
    <3>1. k + 1 \in 1..(n + 1) BY <1>8, <1>9
    <3> QED BY <2>5, <3>1
  <2>8. Decoding(f, st, next) /\ Consumed(st, next) = Consumed(st, now)
    <3>1. CASE k < n
      <4>1. k + 1 \in 1..n /\ k < n + 1 BY <1>8, <3>1
      <4>2. now = sent[k + 1].raw BY <1>3, <2>1, <3>1 DEF Current
      <4>3. next = sent'[k + 1].raw BY <1>7, <2>2, <4>1 DEF Current
      <4>4. next = now BY <1>7, <4>1, <4>2, <4>3
      <4> QED BY <2>4, <4>4
    <3>2. CASE ~(k < n)
      <4>1. now = <<>> BY <1>3, <2>1, <3>2 DEF Current
      <4>2. Len(now) = 0 /\ ~(0 >= 4) /\ ~(0 >= 5) BY <4>1
      <4>3. HeadLen(now) \in {5, 6} BY DEF HeadLen
      <4>4. ~(Len(now) >= HeadLen(now)) BY <4>2, <4>3
      <4>5. st = "CanId" /\ f = DefaultFrame
        BY <2>4, <4>2, <4>4, Zenon DEF Decoding
      <4> QED BY <4>5 DEF Decoding, Consumed
    <3> QED BY <3>1, <3>2
  <2>9. at2[k + 1] = 0 - Consumed(st, next) BY <2>3, <2>7, <2>8, Zenon
  <2> QED BY <1>4, <1>6, <2>2, <2>6, <2>8, <2>9, Zenon DEF Following
<1>12. Stopped'
  <2> SUFFICES ASSUME ~alive' PROVE Stopped' BY DEF Stopped
  <2>0. ~alive BY <1>6
  <2>1. PICK i \in 1..n : ~Good(sent[i].raw)
    BY <1>3, <1>6, <2>0, Zenon DEF InStep, Stopped
  <2>2. i \in 1..(n + 1) BY <1>8
  <2>3. ~Good(sent'[i].raw) BY <1>7, <2>1
  <2> QED BY <1>7, <2>2, <2>3, Zenon DEF Stopped
<1> QED BY <1>10, <1>11, <1>12 DEF InStep

\* One step of the receive loop.
LEMMA ChunkInStep ==
    ASSUME TypeOK, Checked, SentShape, InStep, RxChunk
    PROVE  InStep'
<1>1. PICK n : n = Len(sent) OBVIOUS
<1>2. PICK k : k = Len(pushed) OBVIOUS
<1>3. PICK raw : raw = Current(sent, k) OBVIOUS
<1>4. PICK c : c = Consumed(st, raw) OBVIOUS
<1>5. PICK d : d = DecodeStream(SubSeq(stream, 1, need), f, st) OBVIOUS
<1>6. sent \in Seq(Entry) /\ stream \in Seq(Byte) /\ pushed \in Seq(Frame)
  BY DEF SentShape, TypeOK
<1>7. n \in Nat /\ k \in Nat /\ Len(stream) \in Nat
  BY <1>1, <1>2, <1>6, LenProperties
<1>8. /\ alive /\ need \in 1..ChunkSize /\ Len(stream) >= need
      /\ stream' = SubSeq(stream, need + 1, Len(stream))
      /\ sent' = sent /\ peerOpen' = peerOpen
      /\ alive' = (d.res # "Error")
      /\ st' = IF d.res = "Complete" THEN "CanId" ELSE d.st
      /\ f' = IF d.res = "Complete" THEN DefaultFrame ELSE d.f
      /\ pushed' = IF d.res = "Complete" THEN Append(pushed, d.f) ELSE pushed
  BY <1>5, PrimedDecoder DEF RxChunk, Need
<1>9. need = NeedOf(f, st) BY <1>8 DEF Checked
<1>10. need \in Nat /\ need >= 1 /\ need \in 0..Len(stream)
  BY <1>7, <1>8 DEF ChunkSize
<1>11. /\ k <= n
       /\ \A i \in 1..k : Good(sent[i].raw) /\ pushed[i] = FrameOf(sent[i].raw)
  BY <1>1, <1>2, Zenon DEF InStep, Delivered
<1>12. PICK at : LaidOut(at, sent, stream) /\ at[k + 1] = 0 - c
  BY <1>2, <1>3, <1>4, <1>8, Zenon DEF InStep, Following
<1>13. Decoding(f, st, raw) BY <1>2, <1>3, <1>8, Zenon DEF InStep, Following
<1>14. k < n
  <2> SUFFICES ASSUME ~(k < n) PROVE FALSE OBVIOUS
  <2>1. k = n BY <1>7, <1>11
  <2>2. at[n + 1] = Len(stream) BY <1>1, <1>12, Zenon DEF LaidOut
  <2>3. raw = <<>> BY <1>1, <1>3 DEF Current
  <2>4. raw \in Seq(Byte) BY <2>3
  <2>5. c \in Nat BY <1>4, <1>13, <2>4, ConsumedShape
  <2> QED BY <1>7, <1>8, <1>10, <1>12, <2>1, <2>2, <2>5
<1>15. k + 1 \in 1..n BY <1>7, <1>14
<1>16. raw = sent[k + 1].raw BY <1>1, <1>3, <1>14 DEF Current
<1>17. raw \in Seq(Byte)
  <2>1. sent[k + 1] \in Entry BY <1>1, <1>6, <1>15, ElementOfSeq
  <2> QED BY <1>16, <2>1 DEF Entry
<1>18. Whole(raw) \/ (k + 1 = n /\ Cut(raw))
  BY <1>1, <1>15, <1>16, Zenon DEF SentShape
<1>19. c \in Nat /\ c <= Len(raw) /\ Len(raw) \in Nat
  BY <1>4, <1>13, <1>17, ConsumedShape, LenProperties
<1>20. at[(k + 1) + 1] = at[k + 1] + Len(raw) /\ at[n + 1] = Len(stream)
  BY <1>1, <1>12, <1>15, <1>16, Zenon DEF LaidOut
<1>21. c + need <= Len(raw)
  <2>1. CASE Whole(raw)
    BY <1>4, <1>9, <1>13, <1>17, <2>1, WholeHasNeed
  <2>2. CASE k + 1 = n
    <3>1. Len(stream) = 0 - c + Len(raw) BY <1>12, <1>20, <2>2
    <3> QED BY <1>7, <1>8, <1>10, <1>19, <3>1
  <2> QED BY <1>18, <2>1, <2>2
<1>22. PICK m : m = c + need OBVIOUS
<1>23. m \in Nat /\ m <= Len(raw) BY <1>10, <1>19, <1>21, <1>22
<1>24. StepOutcome(d, raw, m)
  <2>1. SubSeq(stream, 1, need) = SubSeq(raw, c + 1, m)
    <3>1. PICK j : j = k + 1 OBVIOUS
    <3>2. j \in 1..Len(sent) /\ raw = sent[j].raw /\ at[j] = 0 - c
      BY <1>1, <1>12, <1>15, <1>16, <3>1
    <3>3. PICK a : a = c + 1 OBVIOUS
    <3>4. Reading(at, sent, stream, j, raw, c, need, a, m)
      BY <1>6, <1>10, <1>12, <1>17, <1>19, <1>21, <1>22, <3>2, <3>3 DEF Reading
    <3>5. SameBytes(stream, need, raw, a, m) BY <3>4, LayoutNext
    <3> QED BY <3>3, <3>5, Zenon DEF SameBytes
  <2>2. m = Consumed(st, raw) + NeedOf(f, st) BY <1>4, <1>9, <1>22
  <2> QED BY <1>4, <1>5, <1>13, <1>17, <1>18, <1>23, <2>1, <2>2, DecodeStep
<1>25. PICK at2 : /\ LaidOut(at2, sent', stream')
                  /\ \A i \in 1..(n + 1) : at2[i] = at[i] - need
  BY <1>1, <1>6, <1>8, <1>10, <1>12, LayoutRead
<1>26. CASE /\ d.res = "Need" /\ d.st # "CanId"
            /\ Decoding(d.f, d.st, raw) /\ Consumed(d.st, raw) = m
  <2>1. pushed' = pushed /\ st' = d.st /\ f' = d.f /\ alive' = TRUE
    BY <1>8, <1>26
  <2>2. Delivered' BY <1>8, <2>1, Zenon DEF InStep, Delivered
  <2>3. at2[k + 1] = 0 - m
    <3>1. k + 1 \in 1..(n + 1) BY <1>7, <1>14
    <3>2. at2[k + 1] = 0 - c - need BY <1>12, <1>25, <3>1
    <3> QED BY <1>10, <1>19, <1>22, <3>2
  <2>4. Following'
    BY <1>2, <1>3, <1>8, <1>25, <1>26, <2>1, <2>3, Zenon DEF Following
  <2>5. Stopped' BY <2>1 DEF Stopped
  <2> QED BY <2>2, <2>4, <2>5 DEF InStep
<1>27. CASE d.res = "Complete" /\ Good(raw) /\ d.f = FrameOf(raw) /\ Len(raw) = m
  <2>1. /\ st' = "CanId" /\ f' = DefaultFrame /\ alive' = TRUE
        /\ pushed' = Append(pushed, d.f)
    BY <1>8, <1>27
  <2>2. d.f \in Frame /\ Len(pushed') = k + 1 /\ pushed'[k + 1] = d.f
        /\ \A i \in 1..k : pushed'[i] = pushed[i]
    <3>1. d.f \in Frame BY <1>16, <1>17, <1>27, GoodFrame
    <3> QED BY <1>2, <1>6, <2>1, <3>1, AppendProperties
  <2>3. Delivered'
    <3>1. k + 1 <= n BY <1>7, <1>14
    <3>2. ASSUME NEW i \in 1..(k + 1)
          PROVE  Good(sent'[i].raw) /\ pushed'[i] = FrameOf(sent'[i].raw)
      <4>1. CASE i = k + 1 BY <1>8, <1>16, <1>27, <2>2, <4>1, Zenon
      <4>2. CASE i \in 1..k BY <1>8, <1>11, <2>2, <4>2, Zenon
      <4> QED BY <1>7, <4>1, <4>2
    <3> QED BY <1>1, <1>8, <2>2, <3>1, <3>2, Zenon DEF Delivered
  <2>4. Following'
    <3>1. PICK next : next = Current(sent', k + 1) OBVIOUS
    <3>2. Decoding(f', st', next) BY <2>1 DEF Decoding
    <3>3. Consumed(st', next) = 0 BY <2>1 DEF Consumed
    <3>4. at2[(k + 1) + 1] = 0
      <4>1. (k + 1) + 1 \in 1..(n + 1) BY <1>7, <1>14
      <4>2. at2[(k + 1) + 1] = ((0 - c) + Len(raw)) - need
        BY <1>12, <1>20, <1>25, <4>1
      <4>3. Len(raw) = m BY <1>27
      <4>4. ((0 - c) + m) - need = 0 BY <1>10, <1>19, <1>22
      <4> QED BY <4>2, <4>3, <4>4, Zenon
    <3>5. at2[(k + 1) + 1] = 0 - Consumed(st', next)
      <4>1. 0 - 0 = 0 OBVIOUS
      <4> QED BY <3>3, <3>4, <4>1, Zenon
    <3> QED BY <1>25, <2>2, <3>1, <3>2, <3>5, Zenon DEF Following
  <2>5. Stopped' BY <2>1 DEF Stopped
  <2> QED BY <2>3, <2>4, <2>5 DEF InStep
<1>28. CASE d.res = "Error" /\ ~Good(raw)
  <2>1. pushed' = pushed /\ alive' = FALSE BY <1>8, <1>28
  <2>2. Delivered' BY <1>8, <2>1, Zenon DEF InStep, Delivered
  <2>3. Following' BY <2>1 DEF Following
  <2>4. Stopped' BY <1>1, <1>8, <1>15, <1>16, <1>28, Zenon DEF Stopped
  <2> QED BY <2>2, <2>3, <2>4 DEF InStep
<1> QED BY <1>24, <1>26, <1>27, <1>28, Zenon DEF StepOutcome

LEMMA InStepStep ==
    TypeOK /\ Checked /\ SentShape /\ InStep /\ [Next]_vars => InStep'
<1> SUFFICES ASSUME TypeOK, Checked, SentShape, InStep, [Next]_vars
             PROVE  InStep'
  OBVIOUS
<1>1. PeerCall \in Calls BY DEF Calls
<1>2. ASSUME NEW id \in Ids, NEW dlc \in Dlcs, NEW flag \in Flags,
             NEW msg \in Msgs, CanWrite(id, dlc, flag, msg)
      PROVE  InStep'
  <2>1. PICK raw : raw = EncodeFrame(WriteFrame(id, dlc, flag, msg)) OBVIOUS
  <2>2. PICK call : call = [by |-> "canWrite", id |-> id, dlc |-> dlc,
                            flag |-> flag, msg |-> msg]
    OBVIOUS
  <2>3. raw \in Seq(Byte) BY <2>1, WriteFrameType, EncodeFrameType
  <2>4. call \in Calls BY <2>2 DEF Calls
  <2>5. Send(raw, call) BY <1>2, <2>1, <2>2, Zenon DEF CanWrite
  <2>6. UNCHANGED <<alive, st, f, pushed>> BY <1>2 DEF CanWrite, loopVars
  <2> QED BY <2>3, <2>4, <2>5, <2>6, SendInStep
<1>3. ASSUME NEW c \in PeerIds, NEW len \in PeerLens, PeerSends(c, len)
      PROVE  InStep'
  <2>1. PICK raw : raw = PeerBytes(c, len) OBVIOUS
  <2>2. raw \in Seq(Byte) BY <2>1, PeerBytesType
  <2>3. Send(raw, PeerCall) BY <1>3, <2>1, Zenon DEF PeerSends
  <2>4. UNCHANGED <<alive, st, f, pushed>> BY <1>3 DEF PeerSends, loopVars
  <2> QED BY <1>1, <2>2, <2>3, <2>4, SendInStep
<1>4. ASSUME NEW c \in PeerIds, NEW len \in PeerLens, NEW n \in 0..7,
             PeerBreaksOff(c, len, n)
      PROVE  InStep'
  <2>1. UNCHANGED <<alive, st, f, pushed>> /\ ~peerOpen'
    BY <1>4 DEF PeerBreaksOff, loopVars
  <2>2. CASE n = 0
    <3>1. sent' = sent /\ stream' = stream BY <1>4, <2>2 DEF PeerBreaksOff
    <3>2. Delivered' BY <2>1, <3>1 DEF InStep, Delivered
    <3>3. Following' BY <2>1, <3>1 DEF InStep, Following
    <3>4. Stopped' BY <2>1 DEF Stopped
    <3> QED BY <3>2, <3>3, <3>4 DEF InStep
  <2>3. CASE n # 0
    <3>1. PICK whole : whole = PeerBytes(c, len) OBVIOUS
    <3>2. PICK piece : piece = SubSeq(whole, 1, n) OBVIOUS
    <3>3. whole \in Seq(Byte) /\ n < Len(whole)
      BY <1>4, <3>1, PeerBytesType DEF PeerBreaksOff
    <3>4. n \in 0..Len(whole) BY <3>3, LenProperties
    <3>5. piece \in Seq(Byte) BY <3>2, <3>3, <3>4, PrefixType
    <3>6. Send(piece, PeerCall)
      BY <1>4, <2>3, <3>1, <3>2, Zenon DEF PeerBreaksOff
    <3> QED BY <1>1, <2>1, <3>5, <3>6, SendInStep
  <2> QED BY <2>2, <2>3
<1>5. CASE RxEnd
  <2>1. UNCHANGED <<stream, peerOpen, st, f, sent, pushed>> /\ alive' = FALSE
    BY <1>5 DEF RxEnd
  <2>2. ~peerOpen
    <3>1. alive /\ need = NeedOf(f, st) BY <1>5 DEF RxEnd, Checked
    <3>2. need \in 1..ChunkSize BY <3>1, CheckedFits DEF NeedFits
    <3> QED BY <1>5, <3>2 DEF RxEnd
  <2>3. Delivered' BY <2>1 DEF InStep, Delivered
  <2>4. Following' BY <2>1 DEF Following
  <2>5. Stopped' BY <2>1, <2>2 DEF Stopped
  <2> QED BY <2>3, <2>4, <2>5 DEF InStep
<1>6. CASE RxChunk BY <1>6, ChunkInStep
<1>7. CASE CanRead
  BY <1>7 DEF CanRead, loopVars, InStep, Delivered, Following, Stopped
<1>8. CASE UNCHANGED vars
  BY <1>8 DEF vars, InStep, Delivered, Following, Stopped
<1> QED BY <1>2, <1>3, <1>4, <1>5, <1>6, <1>7, <1>8 DEF Next

LEMMA InStepAgrees == TypeOK /\ SentShape /\ InStep => TransportsAgree
<1> SUFFICES ASSUME TypeOK, SentShape, InStep PROVE TransportsAgree OBVIOUS
<1>1. PICK n : n = Len(sent) OBVIOUS
<1>2. PICK k : k = Len(pushed) OBVIOUS
<1>3. sent \in Seq(Entry) /\ n \in Nat /\ k \in Nat
  BY <1>1, <1>2, LenProperties DEF SentShape, TypeOK
<1>4. k <= n
  BY <1>1, <1>2, Zenon DEF InStep, Delivered
<1>5. ASSUME NEW i \in 1..n
      PROVE  AsDatagram(i) = IF Good(sent[i].raw)
                             THEN Some(<<FrameOf(sent[i].raw)>>,
                                       5 + Len(sent[i].raw))
                             ELSE None
  <2>1. PICK raw : raw = sent[i].raw OBVIOUS
  <2>2. sent[i] \in Entry BY <1>1, <1>3, ElementOfSeq
  <2>3. raw \in Seq(Byte) BY <2>1, <2>2 DEF Entry
  <2>4. Whole(raw) \/ Cut(raw) BY <1>1, <2>1, Zenon DEF SentShape
  <2>5. ParseUdp(Datagram(0, 1, raw)) =
          IF Good(raw) THEN Some(<<FrameOf(raw)>>, 5 + Len(raw)) ELSE None
    BY <2>3, <2>4, ParseUdpOne
  <2> QED BY <2>1, <2>5, Zenon DEF AsDatagram
<1>6. ASSUME NEW i \in 1..k
      PROVE  i <= n /\ AsDatagram(i) = Some(<<pushed[i]>>, AsDatagram(i).p)
  <2>1. Good(sent[i].raw) /\ pushed[i] = FrameOf(sent[i].raw)
    BY <1>2, Zenon DEF InStep, Delivered
  <2>2. i \in 1..n /\ i <= n BY <1>3, <1>4
  <2>3. PICK p : p = 5 + Len(sent[i].raw) OBVIOUS
  <2>4. AsDatagram(i) = Some(<<pushed[i]>>, p)
    BY <1>5, <2>1, <2>2, <2>3, Zenon
  <2>5. Some(<<pushed[i]>>, p).p = p BY DEF Some
  <2>6. AsDatagram(i).p = p BY <2>4, <2>5, Zenon
  <2> QED BY <2>2, <2>4, <2>6, Zenon
<1>7. ASSUME alive, stream = <<>>, st = "CanId" PROVE k = n
  <2> SUFFICES ASSUME k < n PROVE FALSE BY <1>3, <1>4
  <2>1. PICK raw : raw = Current(sent, k) OBVIOUS
  <2>2. Consumed(st, raw) = 0 BY <1>7 DEF Consumed
  <2>3. PICK at : LaidOut(at, sent, stream) /\ at[k + 1] = 0 - Consumed(st, raw)
    BY <1>2, <1>7, <2>1, Zenon DEF InStep, Following
  <2>4. k + 1 \in 1..n BY <1>3
  <2>5. raw = sent[k + 1].raw BY <1>1, <2>1 DEF Current
  <2>6. /\ at[(k + 1) + 1] = at[k + 1] + Len(raw)
        /\ at[(k + 1) + 1] <= Len(stream)
    BY <1>1, <2>3, <2>4, <2>5, Zenon DEF LaidOut
  <2>7. raw # <<>> /\ raw \in Seq(Byte)
    <3>1. sent[k + 1] \in Entry BY <1>1, <1>3, <2>4, ElementOfSeq
    <3>2. raw \in Seq(Byte) BY <2>5, <3>1 DEF Entry
    <3> QED BY <1>1, <2>4, <2>5, <3>2, Zenon DEF SentShape
  <2>8. Len(raw) \in Nat /\ Len(raw) # 0 BY <2>7, LenProperties, EmptySeq
  <2>9. Len(stream) = 0 BY <1>7
  <2>10. at[k + 1] = 0 BY <2>2, <2>3
  <2> QED BY <2>6, <2>8, <2>9, <2>10
<1>8. ASSUME ~alive
      PROVE  (\E i \in 1..n : ~AsDatagram(i).ok) \/ ~peerOpen
  <2> SUFFICES ASSUME peerOpen PROVE \E i \in 1..n : ~AsDatagram(i).ok
    OBVIOUS
  <2>1. PICK i \in 1..n : ~Good(sent[i].raw)
    BY <1>1, <1>8, Zenon DEF InStep, Stopped
  <2>2. AsDatagram(i) = None BY <1>5, <2>1, Zenon
  <2>3. AsDatagram(i).ok = FALSE BY <2>2 DEF None
  <2> QED BY <2>3
<1> QED BY <1>1, <1>2, <1>6, <1>7, <1>8, Zenon DEF TransportsAgree

\* Both transports agree: the ring is given, in their order, the frames that
\* parse_udp makes of the same bytes; with nothing left to read it has been given
\* them all; and tcp_rx_loop ends only at a frame that parse_udp refuses or when
\* the peer has gone.
THEOREM TransportsAgreeCorrect == Spec => []TransportsAgree
<1>1. Init => TypeOK /\ Checked /\ LengthClass /\ SentShape /\ InStep
  BY InvInit, SentInit, InStepInit
<1>2. /\ TypeOK /\ Checked /\ LengthClass /\ SentShape /\ InStep
      /\ [Next]_vars
      => (TypeOK /\ Checked /\ LengthClass /\ SentShape /\ InStep)'
  BY InvStep, SentStep, InStepStep
<1> QED BY <1>1, <1>2, InStepAgrees, PTL DEF Spec

-----------------------------------------------------------------------------
(* From canWrite to canRead. *)

\* n is the least length of CAN FD that holds user bytes.
LeastLength(n, user) ==
    n \in FdLengths /\ n >= user /\ \A m \in FdLengths : m >= user => n <= m

LEMMA RoundedLength ==
    ASSUME NEW user \in 0..64
    PROVE  LeastLength(FdRoundLen(user), user)
<1>1. PICK n : n = FdRoundLen(user) OBVIOUS
<1>2. CASE user \in 0..8
  <2>1. n = user BY <1>1, <1>2 DEF FdRoundLen
  <2> QED BY <1>1, <1>2, <2>1 DEF LeastLength, FdLengths
<1>3. CASE user \in 9..12
  <2>1. n = 12 BY <1>1, <1>3 DEF FdRoundLen
  <2> QED BY <1>1, <1>3, <2>1 DEF LeastLength, FdLengths
<1>4. CASE user \in 13..16
  <2>1. n = 16 BY <1>1, <1>4 DEF FdRoundLen
  <2> QED BY <1>1, <1>4, <2>1 DEF LeastLength, FdLengths
<1>5. CASE user \in 17..20
  <2>1. n = 20 BY <1>1, <1>5 DEF FdRoundLen
  <2> QED BY <1>1, <1>5, <2>1 DEF LeastLength, FdLengths
<1>6. CASE user \in 21..24
  <2>1. n = 24 BY <1>1, <1>6 DEF FdRoundLen
  <2> QED BY <1>1, <1>6, <2>1 DEF LeastLength, FdLengths
<1>7. CASE user \in 25..32
  <2>1. n = 32 BY <1>1, <1>7 DEF FdRoundLen
  <2> QED BY <1>1, <1>7, <2>1 DEF LeastLength, FdLengths
<1>8. CASE user \in 33..48
  <2>1. n = 48 BY <1>1, <1>8 DEF FdRoundLen
  <2> QED BY <1>1, <1>8, <2>1 DEF LeastLength, FdLengths
<1>9. CASE user \in 49..64
  <2>1. n = 64 BY <1>1, <1>9 DEF FdRoundLen
  <2> QED BY <1>1, <1>9, <2>1 DEF LeastLength, FdLengths
<1> QED BY <1>2, <1>3, <1>4, <1>5, <1>6, <1>7, <1>8, <1>9

LEMMA ClassicLength ==
    ASSUME NEW user \in 0..8
    PROVE  LeastLength(user, user)
  BY DEF LeastLength, FdLengths

ChosenLen(user) ==
    CHOOSE n \in FdLengths :
        n >= user /\ \A m \in FdLengths : m >= user => n <= m

\* The length that canRead reports of it.
ReadLen(user) ==
    IF fdCapable THEN ChosenLen(user) ELSE AtMost(ChosenLen(user), 8)

LEMMA ChosenLength ==
    ASSUME NEW n, NEW user \in 0..64, LeastLength(n, user)
    PROVE  ChosenLen(user) = n
<1>1. PICK c : c = ChosenLen(user) OBVIOUS
<1>2. LeastLength(c, user) BY <1>1, Zenon DEF LeastLength, ChosenLen
<1>3. n \in FdLengths /\ c \in FdLengths /\ n <= c /\ c <= n
  BY <1>2, Zenon DEF LeastLength
<1>4. \A k \in FdLengths : k \in Int BY DEF FdLengths
<1>5. n \in Int /\ c \in Int BY <1>3, <1>4, Zenon
<1>6. n = c BY <1>3, <1>5
<1> QED BY <1>1, <1>6

\* The two flags of CAN FD survive the byte that carries them.
LEMMA FdFlagsBack ==
    ASSUME NEW flag
    PROVE  FdFlagsToKvaser(KvaserToFdFlags(flag)) = flag \cap {"BRS", "ESI"}
<1>1. PICK b : b = (IF "BRS" \in flag THEN 1 ELSE 0) OBVIOUS
<1>2. PICK e : e = (IF "ESI" \in flag THEN 2 ELSE 0) OBVIOUS
<1>3. /\ b \in {0, 1} /\ (b = 1 <=> "BRS" \in flag)
      /\ e \in {0, 2} /\ (e = 2 <=> "ESI" \in flag)
  BY <1>1, <1>2
<1>4. PICK n : n = b + e OBVIOUS
<1>5. KvaserToFdFlags(flag) = n
  BY <1>1, <1>2, <1>4, Zenon DEF KvaserToFdFlags
<1>6. ((n \div 1) % 2 = 1 <=> b = 1) /\ ((n \div 2) % 2 = 1 <=> e = 2)
  BY <1>3, <1>4
<1>7. FdFlagsToKvaser(n) =
        {x \in {"BRS", "ESI"} : (n \div (IF x = "BRS" THEN 1 ELSE 2)) % 2 = 1}
  BY DEF FdFlagsToKvaser
<1>8. /\ "BRS" \in FdFlagsToKvaser(n) <=> "BRS" \in flag
      /\ "ESI" \in FdFlagsToKvaser(n) <=> "ESI" \in flag
      /\ FdFlagsToKvaser(n) \subseteq {"BRS", "ESI"}
  <2>1. "ESI" # "BRS" OBVIOUS
  <2> QED BY <1>3, <1>6, <1>7, <2>1, Zenon
<1>9. FdFlagsToKvaser(n) = flag \cap {"BRS", "ESI"} BY <1>8, Zenon
<1> QED BY <1>5, <1>9, Zenon

\* The arguments of a call of canWrite.
CallOf(id, dlc, flag, msg) ==
    [by |-> "canWrite", id |-> id, dlc |-> dlc, flag |-> flag, msg |-> msg]

\* How many bytes the caller gives, and how long the frame is.
UserLen(dlc, flag)  == AtMost(dlc, IF "FDF" \in flag THEN 64 ELSE 8)
WriteLen(dlc, flag) == IF "FDF" \in flag THEN FdRoundLen(UserLen(dlc, flag))
                       ELSE UserLen(dlc, flag)

LEMMA LengthBack ==
    ASSUME NEW dlc \in Nat, NEW flag
    PROVE  /\ UserLen(dlc, flag) \in 0..64
           /\ LeastLength(WriteLen(dlc, flag), UserLen(dlc, flag))
           /\ WriteLen(dlc, flag) \in 0..64
<1>1. PICK u : u = UserLen(dlc, flag) OBVIOUS
<1>2. CASE "FDF" \in flag
  <2>1. u = AtMost(dlc, 64) BY <1>1, <1>2 DEF UserLen
  <2>2. u \in 0..64 BY <2>1 DEF AtMost
  <2>3. WriteLen(dlc, flag) = FdRoundLen(u) BY <1>1, <1>2 DEF WriteLen
  <2> QED BY <1>1, <2>2, <2>3, RoundedLength, FdRoundLenType
<1>3. CASE "FDF" \notin flag
  <2>1. u = AtMost(dlc, 8) BY <1>1, <1>3 DEF UserLen
  <2>2. u \in 0..8 /\ u \in 0..64 BY <2>1 DEF AtMost
  <2>3. WriteLen(dlc, flag) = u BY <1>1, <1>3 DEF WriteLen
  <2> QED BY <1>1, <2>2, <2>3, ClassicLength
<1> QED BY <1>2, <1>3

\* The frame on the wire, field by field.
LEMMA WireBack ==
    ASSUME NEW id \in Ids, NEW dlc \in Dlcs, NEW flag \in Flags, NEW msg \in Msgs,
           NEW w, w = WriteFrame(id, dlc, flag, msg),
           NEW g, g = FrameOf(EncodeFrame(w))
    PROVE  /\ g.can_id = KvaserToCanId(id, flag)
           /\ g.len = WriteLen(dlc, flag)
           /\ g.fd = ("FDF" \in flag)
           /\ "FDF" \in flag => g.fd_flags = KvaserToFdFlags(flag)
           /\ "RTR" \notin flag => g.data = DataBytes(w, WriteLen(dlc, flag))
           /\ IsRtr(g) <=> "RTR" \in flag
<1>1. w \in Frame BY WriteFrameType
<1>2. /\ w.can_id = KvaserToCanId(id, flag)
      /\ w.len = WriteLen(dlc, flag)
      /\ w.fd = ("FDF" \in flag)
      /\ w.fd_flags = IF "FDF" \in flag THEN KvaserToFdFlags(flag) ELSE 0
  <2>1. PICK c : c = KvaserToCanId(id, flag) OBVIOUS
  <2>2. PICK n : n = WriteLen(dlc, flag) OBVIOUS
  <2>3. PICK b : b = ("FDF" \in flag) OBVIOUS
  <2>4. PICK x : x = (IF "FDF" \in flag THEN KvaserToFdFlags(flag) ELSE 0)
    OBVIOUS
  <2>5. PICK d : d = IF msg # NullMsg /\ "RTR" \notin flag
                     THEN SubSeq(msg, 1, UserLen(dlc, flag)) ELSE <<>>
    OBVIOUS
  <2>6. w = [can_id |-> c, len |-> n, fd |-> b, fd_flags |-> x, data |-> d]
    BY <2>1, <2>2, <2>3, <2>4, <2>5, Zenon DEF WriteFrame, UserLen, WriteLen
  <2>7. w.can_id = c /\ w.len = n /\ w.fd = b /\ w.fd_flags = x BY <2>6
  <2> QED BY <2>1, <2>2, <2>3, <2>4, <2>7, Zenon
<1>3. w.can_id.rtr = ("RTR" \in flag)
  <2>1. PICK e : e = ("EXT" \in flag) OBVIOUS
  <2>2. PICK r : r = ("RTR" \in flag) OBVIOUS
  <2>3. PICK x : x = FALSE OBVIOUS
  <2>4. PICK n : n = IF "EXT" \in flag THEN id % EFF_SIZE ELSE id % SFF_SIZE
    OBVIOUS
  <2>5. KvaserToCanId(id, flag) = [eff |-> e, rtr |-> r, err |-> x, id |-> n]
    BY <2>1, <2>2, <2>3, <2>4, Zenon DEF KvaserToCanId
  <2>6. KvaserToCanId(id, flag).rtr = r BY <2>5
  <2> QED BY <1>2, <2>2, <2>6, Zenon
<1>4. PICK raw : raw = EncodeFrame(w) OBVIOUS
<1>5. FrameOf(raw) =
        [can_id |-> w.can_id, len |-> w.len, fd |-> w.fd,
         fd_flags |-> IF w.fd THEN w.fd_flags ELSE 0,
         data |-> IF IsRtr(w) THEN <<>> ELSE DataBytes(w, w.len)]
  BY <1>1, <1>4, EncodeWhole
<1>6. PICK x : x = (IF w.fd THEN w.fd_flags ELSE 0) OBVIOUS
<1>7. PICK d : d = (IF IsRtr(w) THEN <<>> ELSE DataBytes(w, w.len)) OBVIOUS
<1>8. PICK b : b = w.fd OBVIOUS
<1>9. g = [can_id |-> w.can_id, len |-> w.len, fd |-> b, fd_flags |-> x,
           data |-> d]
  BY <1>4, <1>5, <1>6, <1>7, <1>8, Zenon
<1>10. /\ g.can_id = w.can_id /\ g.len = w.len /\ g.fd = b /\ g.fd_flags = x
       /\ g.data = d
  BY <1>9
<1>11. "FDF" \in flag => x = KvaserToFdFlags(flag) BY <1>2, <1>6, Zenon
<1>12. IsRtr(w) <=> "RTR" \in flag BY <1>3, Zenon DEF IsRtr
<1>13. "RTR" \notin flag => d = DataBytes(w, WriteLen(dlc, flag))
  BY <1>2, <1>7, <1>12, Zenon
<1>14. IsRtr(g) <=> "RTR" \in flag BY <1>3, <1>10, Zenon DEF IsRtr
<1> QED BY <1>2, <1>8, <1>10, <1>11, <1>13, <1>14, Zenon

\* n bytes, of which the first user are those of msg if there is one.
Padded(msg, user, n) ==
    [i \in 1..n |-> IF i <= AtMost(user, Len(msg)) THEN msg[i] ELSE 0]

\* The bytes given to canWrite, padded with zeros.
LEMMA BytesBack ==
    ASSUME NEW id \in Ids, NEW dlc \in Dlcs, NEW flag \in Flags, NEW msg \in Msgs,
           NEW w, w = WriteFrame(id, dlc, flag, msg), "RTR" \notin flag,
           NEW g, g.data = DataBytes(w, WriteLen(dlc, flag)),
           NEW n \in 0..WriteLen(dlc, flag)
    PROVE  DataBytes(g, n) =
             [i \in 1..n |-> IF i <= AtMost(UserLen(dlc, flag), Len(msg))
                             THEN msg[i] ELSE 0]
<1>1. PICK u : u = UserLen(dlc, flag) OBVIOUS
<1>2. PICK l : l = WriteLen(dlc, flag) OBVIOUS
<1>3. PICK s : s = w.data OBVIOUS
<1>4. PICK t : t = g.data OBVIOUS
<1>5. PICK k : k = Len(msg) OBVIOUS
<1>6. dlc \in Nat /\ (msg = NullMsg \/ (msg \in Seq(Byte) /\ k >= 64))
  BY <1>5, DataPathAssumption
<1>7. u \in 0..64 /\ l \in 0..64 /\ n \in 0..l BY <1>1, <1>2, <1>6, LengthBack
<1>8. w \in Frame BY WriteFrameType
<1>9. s = IF msg # NullMsg THEN SubSeq(msg, 1, u) ELSE <<>>
  <2>1. PICK d : d = IF msg # NullMsg /\ "RTR" \notin flag
                     THEN SubSeq(msg, 1, UserLen(dlc, flag)) ELSE <<>>
    OBVIOUS
  <2>2. PICK c : c = KvaserToCanId(id, flag) OBVIOUS
  <2>3. PICK b : b = ("FDF" \in flag) OBVIOUS
  <2>4. PICK x : x = (IF "FDF" \in flag THEN KvaserToFdFlags(flag) ELSE 0)
    OBVIOUS
  <2>5. w = [can_id |-> c, len |-> l, fd |-> b, fd_flags |-> x, data |-> d]
    BY <1>2, <2>1, <2>2, <2>3, <2>4, Zenon DEF WriteFrame, UserLen, WriteLen
  <2>6. s = d BY <1>3, <2>5
  <2> QED BY <1>1, <2>1, <2>6, Zenon
<1>10. Len(s) \in Nat /\ \A i \in 1..64 :
         (IF i <= Len(s) THEN s[i] ELSE 0) = (IF i <= AtMost(u, k) THEN msg[i]
                                              ELSE 0)
  <2>1. CASE msg = NullMsg
    <3>1. s = <<>> /\ k = 0 BY <1>5, <1>9, <2>1 DEF NullMsg
    <3>2. Len(s) = 0 /\ AtMost(u, k) = 0 BY <1>7, <3>1 DEF AtMost
    <3>3. \A i \in 1..64 : ~(i <= 0) OBVIOUS
    <3> QED BY <3>2, <3>3
  <2>2. CASE msg # NullMsg
    <3>1. msg \in Seq(Byte) /\ k >= 64 /\ k \in Nat
      BY <1>5, <1>6, <2>2, LenProperties
    <3>2. AtMost(u, k) = u BY <1>7, <3>1 DEF AtMost
    <3>3. \A i \in 1..u : msg[i] \in Byte
      <4>1. \A i \in 1..u : i \in 1..Len(msg) BY <1>5, <1>7, <3>1
      <4> QED BY <3>1, <4>1, ElementOfSeq
    <3>4. /\ Len(SubSeq(msg, 1, u)) = IF 1 <= u THEN u - 1 + 1 ELSE 0
          /\ \A i \in 1..(u - 1 + 1) : SubSeq(msg, 1, u)[i] = msg[1 + i - 1]
      BY <1>7, <3>3, SubSeqProperties
    <3>5. s = SubSeq(msg, 1, u) BY <1>9, <2>2
    <3>6. Len(s) = u /\ \A i \in 1..u : s[i] = msg[i] BY <1>7, <3>4, <3>5
    <3>7. \A i \in 1..64 : i <= u => i \in 1..u BY <1>7
    <3>8. \A i \in 1..64 : (IF i <= u THEN s[i] ELSE 0)
                              = (IF i <= u THEN msg[i] ELSE 0)
      BY <3>6, <3>7, Zenon
    <3>9. Len(s) \in Nat BY <1>7, <3>6
    <3> QED BY <3>2, <3>6, <3>8, <3>9, Zenon
  <2> QED BY <2>1, <2>2
<1>11. t \in Seq(Byte) /\ Len(t) = l /\ DOMAIN t = 1..l
       /\ \A i \in 1..l : t[i] = IF i <= Len(s) THEN s[i] ELSE 0
  <2>1. t = [i \in 1..l |-> IF i <= Len(s) THEN s[i] ELSE 0]
    BY <1>2, <1>3, <1>4, Zenon DEF DataBytes
  <2>2. l \in Nat BY <1>7
  <2>3. t \in Seq(Byte) BY <1>2, <1>4, <1>8, <2>2, DataBytesType
  <2>4. DOMAIN t = 1..l BY <2>1
  <2>5. Len(t) = l BY <2>2, <2>3, <2>4, LenProperties
  <2> QED BY <2>1, <2>3, <2>4, <2>5
<1>12. \A i \in 1..n : (IF i <= Len(t) THEN t[i] ELSE 0)
                         = (IF i <= AtMost(u, k) THEN msg[i] ELSE 0)
  <2> SUFFICES ASSUME NEW i \in 1..n
               PROVE  (IF i <= Len(t) THEN t[i] ELSE 0)
                         = (IF i <= AtMost(u, k) THEN msg[i] ELSE 0)
    OBVIOUS
  <2>1. i \in 1..l /\ i \in 1..64 /\ i <= l BY <1>7
  <2>2. (IF i <= Len(t) THEN t[i] ELSE 0) = t[i] BY <1>11, <2>1
  <2>3. t[i] = (IF i <= Len(s) THEN s[i] ELSE 0) BY <1>11, <2>1
  <2> QED BY <1>10, <2>1, <2>2, <2>3, Zenon
<1>13. DataBytes(g, n) = [i \in 1..n |-> IF i <= Len(t) THEN t[i] ELSE 0]
  BY <1>4, Zenon DEF DataBytes
<1>14. [i \in 1..n |-> IF i <= Len(t) THEN t[i] ELSE 0]
         = [i \in 1..n |-> IF i <= AtMost(u, k) THEN msg[i] ELSE 0]
  BY <1>12, Zenon
<1> QED BY <1>1, <1>5, <1>13, <1>14, Zenon

\* Identifier and flags, of which the last come in rf, "report as CAN FD".
LEMMA IdAndFlagsBack ==
    ASSUME NEW id \in Ids, NEW flag, NEW c, c = KvaserToCanId(id, flag), NEW rf,
           NEW k, k = CanIdToKvaser(c, rf)
    PROVE  /\ k.id = id % (IF "EXT" \in flag THEN EFF_SIZE ELSE SFF_SIZE)
           /\ k.flag = {IF "EXT" \in flag THEN "EXT" ELSE "STD"}
                       \cup (flag \cap {"RTR"}) \cup (IF rf THEN {"FDF"} ELSE {})
<1>1. PICK e : e = ("EXT" \in flag) OBVIOUS
<1>2. PICK r : r = ("RTR" \in flag) OBVIOUS
<1>3. PICK x : x = FALSE OBVIOUS
<1>4. PICK n : n = IF "EXT" \in flag THEN id % EFF_SIZE ELSE id % SFF_SIZE
  OBVIOUS
<1>5. c = [eff |-> e, rtr |-> r, err |-> x, id |-> n]
  BY <1>1, <1>2, <1>3, <1>4, Zenon DEF KvaserToCanId
<1>6. c.eff = e /\ c.rtr = r /\ c.id = n BY <1>5
<1>7. PICK i : i = IF c.eff THEN c.id ELSE c.id % SFF_SIZE OBVIOUS
<1>8. PICK s : s = {IF c.eff THEN "EXT" ELSE "STD"}
                   \cup (IF c.rtr THEN {"RTR"} ELSE {})
                   \cup (IF rf THEN {"FDF"} ELSE {})
  OBVIOUS
<1>9. k = [id |-> i, flag |-> s] BY <1>7, <1>8, Zenon DEF CanIdToKvaser
<1>10. k.id = i /\ k.flag = s BY <1>9
<1>11. i = id % (IF "EXT" \in flag THEN EFF_SIZE ELSE SFF_SIZE)
  <2>1. id \in Int BY DataPathAssumption
  <2>2. CASE "EXT" \in flag
    <3>1. c.eff /\ n = id % EFF_SIZE BY <1>1, <1>4, <1>6, <2>2, Zenon
    <3>2. i = id % EFF_SIZE BY <1>6, <1>7, <3>1, Zenon
    <3> QED BY <2>2, <3>2, Zenon
  <2>3. CASE "EXT" \notin flag
    <3>1. ~c.eff /\ n = id % SFF_SIZE BY <1>1, <1>4, <1>6, <2>3, Zenon
    <3>2. i = n % SFF_SIZE BY <1>6, <1>7, <3>1, Zenon
    <3>3. PICK z : z = SFF_SIZE OBVIOUS
    <3>4. z = 2048 BY <3>3, SMT DEF SFF_SIZE
    <3>5. n = id % z /\ i = n % z BY <3>1, <3>2, <3>3, Zenon
    <3>6. n \in 0..2047 BY <2>1, <3>4, <3>5, SMT
    <3>7. i = n BY <3>4, <3>5, <3>6, SMT
    <3> QED BY <2>3, <3>1, <3>7, Zenon
  <2> QED BY <2>2, <2>3
<1>12. s = {IF "EXT" \in flag THEN "EXT" ELSE "STD"}
           \cup (flag \cap {"RTR"}) \cup (IF rf THEN {"FDF"} ELSE {})
  <2>1. c.eff <=> "EXT" \in flag BY <1>1, <1>6, Zenon
  <2>2. c.rtr <=> "RTR" \in flag BY <1>2, <1>6, Zenon
  <2>3. (IF c.rtr THEN {"RTR"} ELSE {}) = flag \cap {"RTR"} BY <2>2, Zenon
  <2>4. (IF c.eff THEN "EXT" ELSE "STD")
          = (IF "EXT" \in flag THEN "EXT" ELSE "STD")
    BY <2>1, Zenon
  <2> QED BY <1>8, <2>3, <2>4, Zenon
<1> QED BY <1>10, <1>11, <1>12, Zenon

\* What was given to canWrite is what canRead hands out.
LEMMA CallBack ==
    ASSUME TypeOK, NEW id \in Ids, NEW dlc \in Dlcs, NEW flag \in Flags,
           NEW msg \in Msgs, NEW w, w = WriteFrame(id, dlc, flag, msg),
           NEW g, g = FrameOf(EncodeFrame(w)),
           NEW call, call = CallOf(id, dlc, flag, msg)
    PROVE  WriteReadOutputs(g, fdCapable) = Expected(call)
<1>1. /\ g.can_id = KvaserToCanId(id, flag)
      /\ g.len = WriteLen(dlc, flag)
      /\ g.fd = ("FDF" \in flag)
      /\ "FDF" \in flag => g.fd_flags = KvaserToFdFlags(flag)
      /\ "RTR" \notin flag => g.data = DataBytes(w, WriteLen(dlc, flag))
      /\ IsRtr(g) <=> "RTR" \in flag
  BY WireBack
<1>2. dlc \in Nat BY DataPathAssumption
<1>3. PICK u : u = UserLen(dlc, flag) OBVIOUS
<1>4. PICK l : l = WriteLen(dlc, flag) OBVIOUS
<1>5. u \in 0..64 /\ l \in 0..64 /\ LeastLength(l, u)
  BY <1>2, <1>3, <1>4, LengthBack
<1>6. PICK rf : rf = (g.fd /\ fdCapable) OBVIOUS
<1>7. PICK k : k = CanIdToKvaser(g.can_id, rf) OBVIOUS
<1>8. PICK n : n = AtMost(g.len, LenLimit(fdCapable)) OBVIOUS
<1>9. n = (IF fdCapable THEN l ELSE AtMost(l, 8)) /\ n \in 0..l
  <2>1. CASE fdCapable
    <3>1. n = AtMost(l, 64)
      BY <1>1, <1>4, <1>8, <2>1 DEF LenLimit, MAX_FRAME_LEN
    <3>2. n = l BY <1>5, <3>1 DEF AtMost
    <3> QED BY <1>5, <2>1, <3>2
  <2>2. CASE ~fdCapable
    <3>1. n = AtMost(l, 8)
      BY <1>1, <1>4, <1>8, <2>2 DEF LenLimit, CLASSIC_FRAME_MAX_LEN
    <3>2. n \in 0..l BY <1>5, <3>1 DEF AtMost
    <3> QED BY <2>2, <3>1, <3>2
  <2> QED BY <2>1, <2>2
<1>10. PICK fl : fl = k.flag \cup (IF rf THEN FdFlagsToKvaser(g.fd_flags) ELSE {})
  OBVIOUS
<1>11. PICK d : d = (IF IsRtr(g) THEN <<>> ELSE DataBytes(g, n)) OBVIOUS
<1>12. WriteReadOutputs(g, fdCapable)
         = [id |-> k.id, flag |-> fl, dlc |-> n, msg |-> d]
  BY <1>6, <1>7, <1>8, <1>10, <1>11, Zenon DEF WriteReadOutputs
<1>13. k.id = id % (IF "EXT" \in flag THEN EFF_SIZE ELSE SFF_SIZE)
  BY <1>1, <1>7, IdAndFlagsBack
<1>14. fl = {IF "EXT" \in flag THEN "EXT" ELSE "STD"} \cup (flag \cap {"RTR"})
            \cup (IF "FDF" \in flag /\ fdCapable
                  THEN flag \cap {"FDF", "BRS", "ESI"} ELSE {})
  <2>1. PICK s : s = {IF "EXT" \in flag THEN "EXT" ELSE "STD"}
                     \cup (flag \cap {"RTR"})
    OBVIOUS
  <2>2. k.flag = s \cup (IF rf THEN {"FDF"} ELSE {})
    BY <1>1, <1>7, <2>1, IdAndFlagsBack
  <2>3. rf <=> ("FDF" \in flag /\ fdCapable) BY <1>1, <1>6, Zenon
  <2>4. CASE rf
    <3>1. FdFlagsToKvaser(g.fd_flags) = flag \cap {"BRS", "ESI"}
      BY <1>1, <2>3, <2>4, FdFlagsBack, Zenon
    <3>2. fl = (s \cup {"FDF"}) \cup (flag \cap {"BRS", "ESI"})
      BY <1>10, <2>2, <2>4, <3>1, Zenon
    <3>3. {"FDF"} \cup (flag \cap {"BRS", "ESI"}) = flag \cap {"FDF", "BRS", "ESI"}
      BY <2>3, <2>4, Zenon
    <3>4. (s \cup {"FDF"}) \cup (flag \cap {"BRS", "ESI"})
            = s \cup ({"FDF"} \cup (flag \cap {"BRS", "ESI"}))
      BY Zenon
    <3> QED BY <2>1, <2>3, <2>4, <3>2, <3>3, <3>4, Zenon
  <2>5. CASE ~rf
    <3>1. fl = (s \cup {}) \cup {} BY <1>10, <2>2, <2>5, Zenon
    <3>2. (s \cup {}) \cup {} = s \cup {} BY Zenon
    <3> QED BY <2>1, <2>3, <2>5, <3>1, <3>2, Zenon
  <2> QED BY <2>4, <2>5
<1>15. d = IF "RTR" \in flag THEN <<>>
           ELSE [i \in 1..n |-> IF i <= AtMost(u, Len(msg)) THEN msg[i] ELSE 0]
  <2>1. CASE "RTR" \in flag BY <1>1, <1>11, <2>1, Zenon
  <2>2. CASE "RTR" \notin flag
    <3>1. n \in 0..WriteLen(dlc, flag) BY <1>4, <1>9
    <3>2. DataBytes(g, n) =
            [i \in 1..n |-> IF i <= AtMost(u, Len(msg)) THEN msg[i] ELSE 0]
      BY <1>1, <1>3, <2>2, <3>1, BytesBack
    <3> QED BY <1>1, <1>11, <2>2, <3>2, Zenon
  <2> QED BY <2>1, <2>2
<1>16. /\ call.id = id /\ call.dlc = dlc /\ call.flag = flag /\ call.msg = msg
  BY DEF CallOf
<1>17. ChosenLen(u) = l BY <1>5, ChosenLength
<1>18. PICK v : v = UserLen(call.dlc, call.flag) OBVIOUS
<1>19. v = u BY <1>3, <1>16, <1>18, Zenon
<1>20. PICK z : z = ReadLen(v) OBVIOUS
<1>21. Expected(call) =
         [id |-> call.id % (IF "EXT" \in call.flag THEN EFF_SIZE ELSE SFF_SIZE),
          flag |-> {IF "EXT" \in call.flag THEN "EXT" ELSE "STD"}
                   \cup (call.flag \cap {"RTR"})
                   \cup (IF "FDF" \in call.flag /\ fdCapable
                         THEN call.flag \cap {"FDF", "BRS", "ESI"} ELSE {}),
          dlc |-> z,
          msg |-> IF "RTR" \in call.flag THEN <<>>
                  ELSE Padded(call.msg, v, z)]
  <2>1. Expected(call) =
          [id |-> call.id % (IF "EXT" \in call.flag THEN EFF_SIZE ELSE SFF_SIZE),
           flag |-> {IF "EXT" \in call.flag THEN "EXT" ELSE "STD"}
                    \cup (call.flag \cap {"RTR"})
                    \cup (IF "FDF" \in call.flag /\ fdCapable
                          THEN call.flag \cap {"FDF", "BRS", "ESI"} ELSE {}),
           dlc |-> ReadLen(UserLen(call.dlc, call.flag)),
           msg |-> IF "RTR" \in call.flag THEN <<>>
                   ELSE Padded(call.msg, UserLen(call.dlc, call.flag),
                               ReadLen(UserLen(call.dlc, call.flag)))]
    BY Zenon DEF Expected, UserLen, ChosenLen, ReadLen, Padded
  <2> QED BY <1>18, <1>20, <2>1, Zenon
<1>22. z = n BY <1>9, <1>17, <1>19, <1>20, Zenon DEF ReadLen
<1>23. d = IF "RTR" \in flag THEN <<>> ELSE Padded(msg, u, n)
  BY <1>15, Zenon DEF Padded
<1> QED BY <1>12, <1>13, <1>14, <1>16, <1>19, <1>21, <1>22, <1>23, Zenon

\* What has been read and what waits in the ring make up what was put into it.
Queued ==
    /\ Len(reads) + Len(ring) = Len(pushed)
    /\ \A i \in 1..Len(reads) :
         reads[i] = WriteReadOutputs(pushed[i], fdCapable)
    /\ \A i \in 1..Len(ring) : ring[i] = pushed[Len(reads) + i]

LEMMA DecodedFrame ==
    ASSUME TypeOK, Checked, alive, need <= Len(stream)
    PROVE  DecodeStream(SubSeq(stream, 1, need), f, st).f \in Frame
<1>1. /\ f \in Frame /\ st \in DecodeStates \ {"Init"}
      /\ need = NeedOf(f, st) /\ FrameChecked(f, st)
  BY DEF TypeOK, Checked
<1>2. need \in 0..Len(stream) BY LenProperties DEF TypeOK
<1>3. PICK chunk : chunk = SubSeq(stream, 1, need) OBVIOUS
<1>4. chunk \in Seq(Byte) /\ Len(chunk) = need
  BY <1>2, <1>3, PrefixType DEF TypeOK
<1>5. PICK d : d = DecodeStream(chunk, f, st) OBVIOUS
<1>6. Outcome(d) BY <1>1, <1>4, <1>5, DecodeOutcome
<1> QED BY <1>3, <1>5, <1>6 DEF Outcome

LEMMA QueuedStep ==
    TypeOK /\ Checked /\ ReadsHanded /\ Queued /\ [Next]_vars => Queued'
<1> SUFFICES ASSUME TypeOK, Checked, ReadsHanded, Queued, [Next]_vars
             PROVE  Queued'
  OBVIOUS
<1>1. PICK r : r = Len(reads) OBVIOUS
<1>2. PICK q : q = Len(ring) OBVIOUS
<1>3. PICK k : k = Len(pushed) OBVIOUS
<1>4. /\ reads \in Seq(Handed) /\ ring \in Seq(Frame) /\ pushed \in Seq(Frame)
      /\ r \in Nat /\ q \in Nat /\ k \in Nat
  BY <1>1, <1>2, <1>3, LenProperties DEF ReadsHanded, TypeOK
<1>5. /\ r + q = k
      /\ \A i \in 1..r : reads[i] = WriteReadOutputs(pushed[i], fdCapable)
      /\ \A i \in 1..q : ring[i] = pushed[r + i]
  BY <1>1, <1>2, <1>3, Zenon DEF Queued
<1>6. fdCapable' = fdCapable
  BY DEF Next, vars, CanWrite, PeerSends, PeerBreaksOff, RxEnd, RxChunk, CanRead
<1>7. CASE UNCHANGED <<ring, pushed, reads>>
  BY <1>6, <1>7 DEF Queued
<1>8. CASE RxChunk
  <2>1. PICK d : d = DecodeStream(SubSeq(stream, 1, need), f, st) OBVIOUS
  <2>2. alive /\ need <= Len(stream)
    <3>1. need \in 1..ChunkSize /\ Len(stream) >= need /\ alive
      BY <1>8 DEF RxChunk
    <3>2. Len(stream) \in Nat BY LenProperties DEF TypeOK
    <3> QED BY <3>1, <3>2 DEF ChunkSize
  <2>3. d.f \in Frame BY <2>1, <2>2, DecodedFrame
  <2>4. CASE d.res = "Complete"
    <3>1. PICK x \in Frame : x = d.f BY <2>3
    <3>2. ring' = Append(ring, x) /\ pushed' = Append(pushed, x)
          /\ reads' = reads
      BY <1>8, <2>1, <2>4, <3>1 DEF RxChunk
    <3>3. /\ Len(ring') = q + 1 /\ ring'[q + 1] = x
          /\ \A i \in 1..q : ring'[i] = ring[i]
      BY <1>2, <1>4, <3>2, AppendProperties
    <3>4. /\ Len(pushed') = k + 1 /\ pushed'[k + 1] = x
          /\ \A i \in 1..k : pushed'[i] = pushed[i]
      BY <1>3, <1>4, <3>2, AppendProperties
    <3>5. r + (q + 1) = k + 1
      <4>1. r + q = k BY <1>5
      <4> QED BY <1>4, <4>1
    <3>6. \A i \in 1..r : reads'[i] = WriteReadOutputs(pushed'[i], fdCapable')
      <4>1. \A i \in 1..r : i \in 1..k BY <1>4, <1>5
      <4> QED BY <1>5, <1>6, <3>2, <3>4, <4>1, Zenon
    <3>7. ASSUME NEW i \in 1..(q + 1) PROVE ring'[i] = pushed'[r + i]
      <4>1. CASE i = q + 1 BY <3>3, <3>4, <3>5, <4>1, Zenon
      <4>2. CASE i \in 1..q
        <5>1. r + i \in 1..k BY <1>4, <1>5, <4>2
        <5> QED BY <1>5, <3>3, <3>4, <4>2, <5>1, Zenon
      <4> QED BY <1>4, <4>1, <4>2
    <3> QED BY <1>1, <3>2, <3>3, <3>4, <3>5, <3>6, <3>7, Zenon DEF Queued
  <2>5. CASE d.res # "Complete"
    <3>1. UNCHANGED <<ring, pushed, reads>>
      BY <1>8, <2>1, <2>5 DEF RxChunk
    <3> QED BY <1>7, <3>1
  <2> QED BY <2>4, <2>5
<1>9. CASE CanRead
  <2>1. PICK x : x = Head(ring) OBVIOUS
  <2>2. ring # <<>> /\ ring' = Tail(ring) /\ pushed' = pushed
        /\ reads' = Append(reads, WriteReadOutputs(x, fdCapable))
    BY <1>9, <2>1 DEF CanRead
  <2>3. q >= 1 /\ x = ring[1] /\ x \in Frame
    <3>1. q # 0 BY <1>2, <1>4, <2>2, EmptySeq
    <3>2. 1 \in 1..q BY <1>4, <3>1
    <3>3. x = ring[1] BY <2>1
    <3>4. x \in Frame BY <1>2, <1>4, <3>2, <3>3, ElementOfSeq
    <3> QED BY <1>4, <3>1, <3>3, <3>4
  <2>4. Len(ring') = q - 1 /\ \A i \in 1..(q - 1) : ring'[i] = ring[i + 1]
    BY <1>2, <1>4, <2>2, HeadTailProperties
  <2>5. PICK y : y = WriteReadOutputs(x, fdCapable) OBVIOUS
  <2>6. y \in Handed BY <2>3, <2>5, Zenon DEF Handed
  <2>7. /\ Len(reads') = r + 1 /\ reads'[r + 1] = y
        /\ \A i \in 1..r : reads'[i] = reads[i]
    BY <1>1, <1>4, <2>2, <2>5, <2>6, AppendProperties
  <2>8. (r + 1) + (q - 1) = k BY <1>4, <1>5
  <2>9. ASSUME NEW i \in 1..(r + 1)
        PROVE  reads'[i] = WriteReadOutputs(pushed'[i], fdCapable')
    <3>1. CASE i = r + 1
      <4>1. 1 \in 1..q BY <1>4, <2>3
      <4>2. x = pushed[r + 1] BY <1>5, <2>3, <4>1, Zenon
      <4> QED BY <1>6, <2>2, <2>5, <2>7, <3>1, <4>2, Zenon
    <3>2. CASE i \in 1..r
      BY <1>5, <1>6, <2>2, <2>7, <3>2, Zenon
    <3> QED BY <1>4, <3>1, <3>2
  <2>10. ASSUME NEW i \in 1..(q - 1) PROVE ring'[i] = pushed'[(r + 1) + i]
    <3>1. i + 1 \in 1..q /\ r + (i + 1) = (r + 1) + i BY <1>4, <2>3
    <3>2. ring[i + 1] = pushed[r + (i + 1)] BY <1>5, <3>1, Zenon
    <3> QED BY <2>2, <2>4, <3>1, <3>2, Zenon
  <2> QED BY <1>3, <2>2, <2>4, <2>7, <2>8, <2>9, <2>10, Zenon DEF Queued
<1>10. CASE ~RxChunk /\ ~CanRead
  <2>1. UNCHANGED <<ring, pushed, reads>>
    BY <1>10 DEF Next, vars, CanWrite, PeerSends, PeerBreaksOff, RxEnd
  <2> QED BY <1>7, <2>1
<1> QED BY <1>8, <1>9, <1>10

LEMMA QueuedRoundTrip ==
    TypeOK /\ SentShape /\ InStep /\ ReadsHanded /\ Queued => RoundTrip
<1> SUFFICES ASSUME TypeOK, SentShape, InStep, ReadsHanded, Queued,
                    NEW i \in 1..Len(reads), sent[i].call # PeerCall
             PROVE  reads[i] = Expected(sent[i].call)
  BY DEF RoundTrip
<1>1. PICK r : r = Len(reads) OBVIOUS
<1>2. PICK q : q = Len(ring) OBVIOUS
<1>3. PICK k : k = Len(pushed) OBVIOUS
<1>4. PICK n : n = Len(sent) OBVIOUS
<1>5. r \in Nat /\ q \in Nat /\ k \in Nat /\ n \in Nat
  BY <1>1, <1>2, <1>3, <1>4, LenProperties DEF ReadsHanded, TypeOK, SentShape
<1>6. r + q = k /\ reads[i] = WriteReadOutputs(pushed[i], fdCapable)
  BY <1>1, <1>2, <1>3, Zenon DEF Queued
<1>7. k <= n BY <1>3, <1>4, Zenon DEF InStep, Delivered
<1>8. i \in 1..k /\ i \in 1..n BY <1>1, <1>5, <1>6, <1>7
<1>9. pushed[i] = FrameOf(sent[i].raw)
  BY <1>3, <1>8, Zenon DEF InStep, Delivered
<1>10. Written(sent[i]) BY <1>4, <1>8, Zenon DEF SentShape
<1>11. PICK id \in Ids, dlc \in Dlcs, flag \in Flags, msg \in Msgs :
         /\ sent[i].call = CallOf(id, dlc, flag, msg)
         /\ sent[i].raw = EncodeFrame(WriteFrame(id, dlc, flag, msg))
  BY <1>10, Zenon DEF Written, CallOf
<1>12. PICK w : w = WriteFrame(id, dlc, flag, msg) OBVIOUS
<1>13. PICK g : g = FrameOf(EncodeFrame(w)) OBVIOUS
<1>14. PICK call : call = CallOf(id, dlc, flag, msg) OBVIOUS
<1>15. WriteReadOutputs(g, fdCapable) = Expected(call)
  BY <1>12, <1>13, <1>14, CallBack
<1>16. pushed[i] = g BY <1>9, <1>11, <1>12, <1>13, Zenon
<1>17. sent[i].call = call BY <1>11, <1>14, Zenon
<1> QED BY <1>6, <1>15, <1>16, <1>17, Zenon

\* The i-th canRead hands out what the i-th canWrite was given: the identifier
\* within its range, the flags, and the bytes, padded to a length of CAN FD.
THEOREM RoundTripCorrect == Spec => []RoundTrip
<1> DEFINE Inv == /\ TypeOK /\ Checked /\ LengthClass /\ SentShape /\ InStep
                  /\ ReadsHanded /\ Queued
<1>1. Init => Inv
  <2> SUFFICES ASSUME Init PROVE ReadsHanded /\ Queued
    BY InvInit, SentInit, InStepInit
  <2>1. /\ reads = <<>> /\ ring = <<>> /\ pushed = <<>>
        /\ Len(<<>>) = 0 /\ 0 + 0 = 0 /\ \A i \in 1..0 : FALSE
    BY DEF Init
  <2>2. ReadsHanded BY <2>1 DEF ReadsHanded
  <2>3. Queued BY <2>1, Zenon DEF Queued
  <2> QED BY <2>2, <2>3
<1>2. Inv /\ [Next]_vars => Inv'
  BY InvStep, SentStep, InStepStep, HandedStep, QueuedStep
<1>3. Inv => RoundTrip BY QueuedRoundTrip
<1> QED BY <1>1, <1>2, <1>3, PTL DEF Spec

=============================================================================
