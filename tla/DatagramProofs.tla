--------------------------- MODULE DatagramProofs ---------------------------
(***************************************************************************)
(* What parse_udp makes of a datagram (src/src/wire.rs), for any number of *)
(* frames: all of them, each as it would come alone, or none.  An invariant*)
(* of what is sent describes the bytes; the recursive function of ParseUdp *)
(* is the only solution of its equations, and the frames are one.          *)
(***************************************************************************)
EXTENDS DataPathProofs, WellFoundedInduction

-----------------------------------------------------------------------------
(* What the bytes of one frame say. *)

IdOf(raw)    == FromBeBytes(SubSeq(raw, 1, 4))
FdOf(raw)    == raw[5] >= CANFD_FRAME
LenOf(raw)   == raw[5] % CANFD_FRAME
HeadLen(raw) == IF FdOf(raw) THEN 6 ELSE 5
Size(raw)    == HeadLen(raw) + (IF IdOf(raw).rtr THEN 0 ELSE LenOf(raw))
Allowed(raw) == LenOf(raw) <= LenLimit(FdOf(raw))

FrameOf(raw) ==
    [can_id |-> IdOf(raw), len |-> LenOf(raw), fd |-> FdOf(raw),
     fd_flags |-> IF FdOf(raw) THEN raw[6] ELSE 0,
     data |-> SubSeq(raw, HeadLen(raw) + 1, Size(raw))]

\* As many bytes as the header announces, or fewer.
Whole(raw) == Len(raw) >= 5 /\ Len(raw) = Size(raw)
Cut(raw)   == Len(raw) >= 5 => Len(raw) < Size(raw)

LEMMA RawShape ==
    ASSUME NEW raw \in Seq(Byte), Len(raw) >= 5
    PROVE  /\ raw[5] \in Byte
           /\ LenOf(raw) \in 0..127
           /\ HeadLen(raw) \in {5, 6}
           /\ IdOf(raw) \in CanId
           /\ Size(raw) \in Nat /\ Size(raw) >= HeadLen(raw)
           /\ ~IdOf(raw).rtr => Size(raw) = HeadLen(raw) + LenOf(raw)
           /\ IdOf(raw).rtr => Size(raw) = HeadLen(raw)
<1>1. Len(raw) \in Nat BY LenProperties
<1>2. raw[5] \in Byte
  <2>1. 5 \in 1..Len(raw) BY <1>1
  <2> QED BY <2>1, ElementOfSeq
<1>3. LenOf(raw) \in 0..127
  <2> DEFINE b == raw[5]
  <2> HIDE DEF b
  <2>1. b \in 0..255 BY <1>2 DEF Byte, b
  <2>2. b % 128 \in 0..127 BY <2>1
  <2> QED BY <2>2 DEF LenOf, CANFD_FRAME, b
<1>4. HeadLen(raw) \in {5, 6} BY DEF HeadLen
<1>5. SubSeq(raw, 1, 4) \in Seq(Byte) /\ Len(SubSeq(raw, 1, 4)) = 4
  <2>1. 4 \in 0..Len(raw) BY <1>1
  <2> QED BY <2>1, PrefixType
<1>6. IdOf(raw) \in CanId BY <1>5, FromBeBytesType DEF IdOf
<1>7. /\ ~IdOf(raw).rtr => Size(raw) = HeadLen(raw) + LenOf(raw)
      /\ IdOf(raw).rtr => Size(raw) = HeadLen(raw)
  <2>1. IdOf(raw).rtr => Size(raw) = HeadLen(raw) + 0 BY Zenon DEF Size
  <2>2. ~IdOf(raw).rtr => Size(raw) = HeadLen(raw) + LenOf(raw)
    BY Zenon DEF Size
  <2> QED BY <1>4, <2>1, <2>2
<1>8. Size(raw) \in Nat /\ Size(raw) >= HeadLen(raw)
  <2> DEFINE n == LenOf(raw)
             h == HeadLen(raw)
  <2>1. n \in 0..127 /\ h \in {5, 6} BY <1>3, <1>4
  <2>2. Size(raw) = h \/ Size(raw) = h + n BY <1>7
  <2> HIDE DEF n, h
  <2>3. Size(raw) \in Nat /\ Size(raw) >= h BY <2>1, <2>2
  <2> QED BY <2>3 DEF h
<1> QED BY <1>2, <1>3, <1>4, <1>6, <1>7, <1>8

\* u is s, of length m, followed by t, of length n.
Joined(S, s, m, t, n, u) ==
    /\ u \in Seq(S) /\ Len(u) = m + n
    /\ \A i \in 1..m : u[i] = s[i]
    /\ \A i \in (m + 1)..(m + n) : u[i] = t[i - m]

LEMMA ConcatParts ==
    ASSUME NEW S, NEW s \in Seq(S), NEW t \in Seq(S)
    PROVE  Joined(S, s, Len(s), t, Len(t), s \o t)
<1> DEFINE m == Len(s)
           n == Len(t)
           u == s \o t
<1>1. m \in Nat /\ n \in Nat BY LenProperties
<1>2. /\ u \in Seq(S) /\ Len(u) = m + n
      /\ \A i \in 1..(m + n) : u[i] = IF i <= m THEN s[i] ELSE t[i - m]
  BY ConcatProperties
<1> HIDE DEF m, n, u
<1>3. \A i \in 1..m : u[i] = s[i] BY <1>1, <1>2
<1>4. ASSUME NEW i \in (m + 1)..(m + n) PROVE u[i] = t[i - m]
  <2>1. i \in 1..(m + n) /\ ~(i <= m) BY <1>1
  <2> QED BY <1>2, <2>1
<1>5. Joined(S, s, m, t, n, u) BY <1>2, <1>3, <1>4 DEF Joined
<1> QED BY <1>5 DEF m, n, u

\* An identifier, a length byte, the flags byte that it calls for, and data.
Assembled(hd, b, x, d) ==
    hd \o <<b>> \o (IF b >= CANFD_FRAME THEN <<x>> ELSE <<>>) \o d

Parts(raw, hd, b, x, d) ==
    /\ raw \in Seq(Byte)
    /\ raw[5] = b
    /\ SubSeq(raw, 1, 4) = hd
    /\ Len(raw) = HeadLen(raw) + Len(d)
    /\ b >= CANFD_FRAME => raw[6] = x
    /\ SubSeq(raw, HeadLen(raw) + 1, Len(raw)) = d

LEMMA AssembledParts ==
    ASSUME NEW hd \in Seq(Byte), Len(hd) = 4, NEW b \in Byte, NEW x \in Byte,
           NEW d \in Seq(Byte), NEW raw, raw = Assembled(hd, b, x, d)
    PROVE  Parts(raw, hd, b, x, d)
<1> DEFINE y == IF b >= CANFD_FRAME THEN <<x>> ELSE <<>>
           n == IF b >= CANFD_FRAME THEN 6 ELSE 5
           s == hd \o <<b>>
           t == s \o y
<1>1. Len(d) \in Nat /\ DOMAIN d = 1..Len(d) BY LenProperties
<1>2. <<b>> \in Seq(Byte) /\ Len(<<b>>) = 1 /\ <<b>>[1] = b OBVIOUS
<1>3. /\ s \in Seq(Byte) /\ Len(s) = 5
      /\ \A i \in 1..4 : s[i] = hd[i]
      /\ s[5] = b
  <2>1. PICK bs : bs = <<b>> OBVIOUS
  <2>2. bs \in Seq(Byte) /\ Len(bs) = 1 /\ bs[1] = b BY <2>1
  <2>3. s = hd \o bs BY <2>1
  <2> HIDE DEF s
  <2>4. Joined(Byte, hd, 4, bs, 1, s) BY <2>2, <2>3, ConcatParts
  <2> QED BY <2>2, <2>4 DEF Joined
<1>4. /\ y \in Seq(Byte) /\ n \in {5, 6} /\ Len(y) = n - 5
      /\ b >= CANFD_FRAME => n = 6 /\ y[1] = x
  OBVIOUS
<1> HIDE DEF y, s
<1>5. /\ t \in Seq(Byte) /\ Len(t) = n
      /\ \A i \in 1..5 : t[i] = s[i]
      /\ b >= CANFD_FRAME => t[6] = x
  <2> HIDE DEF t, n
  <2>1. t = s \o y BY DEF t
  <2>2. Joined(Byte, s, 5, y, n - 5, t) BY <1>3, <1>4, <2>1, ConcatParts
  <2>3. ASSUME b >= CANFD_FRAME PROVE t[6] = x
    <3>1. n = 6 /\ y[1] = x BY <1>4, <2>3
    <3>2. 6 \in (5 + 1)..(5 + (n - 5)) /\ 6 - 5 = 1 BY <3>1
    <3> QED BY <2>2, <3>1, <3>2 DEF Joined
  <2> QED BY <1>4, <2>2, <2>3 DEF Joined
<1>6. raw = t \o d BY DEF Assembled, t, s, y
<1> HIDE DEF t, n
<1>7. /\ raw \in Seq(Byte) /\ Len(raw) = n + Len(d)
      /\ \A i \in 1..n : raw[i] = t[i]
      /\ \A i \in (n + 1)..(n + Len(d)) : raw[i] = d[i - n]
  <2>1. Joined(Byte, t, n, d, Len(d), raw) BY <1>5, <1>6, ConcatParts
  <2> QED BY <2>1, Zenon DEF Joined
<1>8. raw[5] = b /\ (b >= CANFD_FRAME => raw[6] = x)
  BY <1>3, <1>4, <1>5, <1>7
<1>9. HeadLen(raw) = n BY <1>8 DEF HeadLen, FdOf, n
<1>10. SubSeq(raw, 1, 4) = hd
  <2>1. Len(raw) \in Nat /\ 4 \in 0..Len(raw) BY <1>1, <1>4, <1>7
  <2>2. SubSeq(raw, 1, 4) \in Seq(Byte) /\ Len(SubSeq(raw, 1, 4)) = 4
    BY <1>7, <2>1, PrefixType
  <2>3. \A i \in 1..4 : raw[i] = hd[i] BY <1>3, <1>4, <1>5, <1>7
  <2>4. \A i \in 1..4 : SubSeq(raw, 1, 4)[i] = hd[i]
    <3>1. \A i \in 1..4 : raw[i] \in Byte BY <1>7, <2>1, ElementOfSeq
    <3>2. \A i \in 1..4 : SubSeq(raw, 1, 4)[i] = raw[1 + i - 1]
      BY <3>1, SubSeqProperties
    <3> QED BY <2>3, <3>2
  <2> QED BY <2>2, <2>4, SeqEqual
<1>11. SubSeq(raw, n + 1, Len(raw)) = d
  <2> DEFINE e == SubSeq(raw, n + 1, Len(raw))
  <2>1. Len(raw) \in Nat BY <1>1, <1>4, <1>7
  <2>2. \A i \in (n + 1)..Len(raw) : raw[i] \in Byte
    BY <1>4, <1>7, <2>1, ElementOfSeq
  <2>3. /\ e \in Seq(Byte)
        /\ Len(e) = IF n + 1 <= Len(raw) THEN Len(raw) - (n + 1) + 1 ELSE 0
        /\ \A i \in 1..(Len(raw) - (n + 1) + 1) : e[i] = raw[n + 1 + i - 1]
    BY <1>4, <2>1, <2>2, SubSeqProperties
  <2> HIDE DEF e
  <2>4. Len(e) = Len(d) BY <1>1, <1>4, <1>7, <2>3
  <2>5. ASSUME NEW i \in 1..Len(d) PROVE e[i] = d[i]
    <3>1. PICK j : j = n + 1 + i - 1 OBVIOUS
    <3>2. /\ i \in 1..(Len(raw) - (n + 1) + 1) /\ j \in (n + 1)..(n + Len(d))
          /\ j - n = i
      <4> DEFINE k == Len(d)
                 m == Len(raw)
      <4>1. k \in Nat /\ m = n + k /\ n \in {5, 6} /\ i \in 1..k
        BY <1>1, <1>4, <1>7
      <4> HIDE DEF k, m
      <4>2. i \in 1..(m - (n + 1) + 1) /\ j \in (n + 1)..(n + k) /\ j - n = i
        BY <3>1, <4>1
      <4> QED BY <4>2 DEF k, m
    <3>3. raw[j] = d[j - n] BY <1>7, <3>2
    <3>4. e[i] = raw[j] BY <2>3, <3>1, <3>2
    <3> QED BY <3>2, <3>3, <3>4
  <2>6. e = d BY <2>3, <2>4, <2>5, SeqEqual
  <2> QED BY <2>6 DEF e
<1> QED BY <1>7, <1>8, <1>9, <1>10, <1>11 DEF Parts

-----------------------------------------------------------------------------
(* What encode_frame and a peer produce says what went into it. *)

LEMMA FirstByte ==
    ASSUME NEW e \in 0..1, NEW r \in 0..1, NEW x \in 0..1, NEW h \in 0..31,
           NEW b, b = e * 128 + r * 64 + x * 32 + h
    PROVE  /\ b >= 128 <=> e = 1
           /\ (b \div 64) % 2 = r /\ (b \div 32) % 2 = x /\ b % 32 = h
<1>1. b \div 64 = e * 2 + r /\ b \div 32 = e * 4 + r * 2 + x BY SMT
<1>2. (e * 2 + r) % 2 = r /\ (e * 4 + r * 2 + x) % 2 = x BY SMT
<1>3. b % 32 = h BY SMT
<1>4. b >= 128 <=> e = 1 BY SMT
<1> QED BY <1>1, <1>2, <1>3, <1>4

LEMMA LowByte ==
    ASSUME NEW n \in Nat
    PROVE  /\ n \div 256 \in Nat /\ n % 256 \in 0..255
           /\ n = 256 * (n \div 256) + (n % 256)
           /\ (n \div 256) \div 256 = n \div 65536
           /\ (n \div 65536) \div 256 = n \div 16777216
<1>1. n \div 256 \in Nat /\ n % 256 \in 0..255 BY SMT
<1>2. n = 256 * (n \div 256) + (n % 256) BY SMT
<1>3. (n \div 256) \div 256 = n \div 65536 BY SMT
<1>4. (n \div 65536) \div 256 = n \div 16777216 BY SMT
<1> QED BY <1>1, <1>2, <1>3, <1>4

\* The number whose bytes are u1 to u4.
Number(u1, u2, u3, u4) == u1 * 2^24 + u2 * 2^16 + u3 * 256 + u4

LEMMA IdBytes ==
    ASSUME NEW id \in Nat
    PROVE  Number(id \div 2^24, (id \div 2^16) % 256, (id \div 256) % 256,
                  id % 256) = id
<1> DEFINE p == id \div 256
           q == p \div 256
           a == q \div 256
           d == q % 256
           e == p % 256
           g == id % 256
<1>1. 2^16 = 65536 /\ 2^24 = 16777216 BY SMT
<1>2. q = id \div 2^16 /\ a = id \div 2^24 BY <1>1, LowByte
<1>3. p \in Nat /\ g \in Int /\ id = 256 * p + g BY LowByte
<1> HIDE DEF p, g
<1>4. q \in Nat /\ e \in Int /\ p = 256 * q + e BY <1>3, LowByte
<1> HIDE DEF q, e
<1>5. a \in Nat /\ d \in Int /\ q = 256 * a + d BY <1>4, LowByte
<1> HIDE DEF a, d
<1>6. Number(a, d, e, g) = id
  <2>1. a * 16777216 + d * 65536 + e * 256 + g = id
    BY <1>3, <1>4, <1>5, SMT
  <2>2. Number(a, d, e, g) = a * 16777216 + d * 65536 + e * 256 + g
    BY <1>3, <1>4, <1>5, SMT DEF Number
  <2> QED BY <2>1, <2>2
<1> QED BY <1>2, <1>6, Zenon DEF p, d, e, g

LEMMA CanIdBack ==
    ASSUME NEW c \in CanId
    PROVE  Len(ToBeBytes(c)) = 4 /\ FromBeBytes(ToBeBytes(c)) = c
<1> DEFINE e == IF c.eff THEN 1 ELSE 0
           r == IF c.rtr THEN 1 ELSE 0
           x == IF c.err THEN 1 ELSE 0
           h == c.id \div 2^24
           b == (IF c.eff THEN 128 ELSE 0) + (IF c.rtr THEN 64 ELSE 0)
                   + (IF c.err THEN 32 ELSE 0) + c.id \div 2^24
           s == ToBeBytes(c)
<1>1. c.id \in 0..(2^29 - 1)
  <2>1. c.id \in EffIds BY DEF CanId
  <2> QED BY <2>1, Zenon DEF EffIds, EFF_SIZE
<1>2. h \in 0..31
  <2> DEFINE id == c.id
  <2>1. id \in 0..(2^29 - 1) BY <1>1
  <2> HIDE DEF id
  <2>2. id \div 2^24 \in 0..31 BY <2>1, SMT
  <2> QED BY <2>2 DEF id
<1>3. e \in 0..1 /\ r \in 0..1 /\ x \in 0..1 OBVIOUS
<1>4. b = e * 128 + r * 64 + x * 32 + h
  <2> HIDE DEF h
  <2>1. b = (IF c.eff THEN 128 ELSE 0) + (IF c.rtr THEN 64 ELSE 0)
              + (IF c.err THEN 32 ELSE 0) + h
    BY Zenon DEF h
  <2> QED BY <1>2, <2>1
<1>5. s = <<b, (c.id \div 2^16) % 256, (c.id \div 256) % 256, c.id % 256>>
  BY Zenon DEF ToBeBytes
<1>6. c = [eff |-> c.eff, rtr |-> c.rtr, err |-> c.err, id |-> c.id]
      /\ c.eff \in BOOLEAN /\ c.rtr \in BOOLEAN /\ c.err \in BOOLEAN
  BY DEF CanId
<1>7. /\ (b >= 128) = c.eff /\ ((b \div 64) % 2 = 1) = c.rtr
      /\ ((b \div 32) % 2 = 1) = c.err /\ b % 32 = h
  <2> HIDE DEF b, h
  <2>1. /\ b >= 128 <=> e = 1
        /\ (b \div 64) % 2 = r /\ (b \div 32) % 2 = x /\ b % 32 = h
    <3> HIDE DEF e, r, x
    <3> QED BY <1>2, <1>3, <1>4, FirstByte
  <2>2. (e = 1) = c.eff /\ (r = 1) = c.rtr /\ (x = 1) = c.err BY <1>6
  <2> QED BY <2>1, <2>2
<1> HIDE DEF b, s
<1>8. /\ Len(s) = 4 /\ s[1] = b /\ s[2] = (c.id \div 2^16) % 256
      /\ s[3] = (c.id \div 256) % 256 /\ s[4] = c.id % 256
  BY <1>5
<1>9. Number(s[1] % 32, s[2], s[3], s[4]) = c.id
  <2>1. Number(c.id \div 2^24, (c.id \div 2^16) % 256, (c.id \div 256) % 256,
               c.id % 256) = c.id
    <3>1. c.id \in Nat BY <1>1, SMT
    <3> QED BY <3>1, IdBytes, Zenon
  <2>2. s[1] % 32 = c.id \div 2^24 BY <1>7, <1>8, Zenon DEF h
  <2> QED BY <1>8, <2>1, <2>2, Zenon
<1>10. FromBeBytes(s) = [eff |-> s[1] >= 128, rtr |-> (s[1] \div 64) % 2 = 1,
                         err |-> (s[1] \div 32) % 2 = 1, id |-> c.id]
  <2>1. FromBeBytes(s) = [eff |-> s[1] >= 128, rtr |-> (s[1] \div 64) % 2 = 1,
                          err |-> (s[1] \div 32) % 2 = 1,
                          id |-> Number(s[1] % 32, s[2], s[3], s[4])]
    BY Zenon DEF FromBeBytes, Number
  <2> QED BY <1>9, <2>1, Zenon
<1>11. FromBeBytes(s) = [eff |-> c.eff, rtr |-> c.rtr, err |-> c.err, id |-> c.id]
  BY <1>7, <1>8, <1>10, Zenon
<1> QED BY <1>6, <1>8, <1>11 DEF s

\* Header and as much data as it announces.
LEMMA AssembledWhole ==
    ASSUME NEW c \in CanId, NEW b \in Byte, NEW x \in Byte, NEW d \in Seq(Byte),
           Len(d) = IF c.rtr THEN 0 ELSE b % CANFD_FRAME,
           NEW raw, raw = Assembled(ToBeBytes(c), b, x, d)
    PROVE  /\ raw \in Seq(Byte) /\ Whole(raw)
           /\ FrameOf(raw) =
                [can_id |-> c, len |-> b % CANFD_FRAME, fd |-> b >= CANFD_FRAME,
                 fd_flags |-> IF b >= CANFD_FRAME THEN x ELSE 0, data |-> d]
           /\ LenOf(raw) = b % CANFD_FRAME /\ FdOf(raw) = (b >= CANFD_FRAME)
<1> DEFINE hd == ToBeBytes(c)
<1>1. hd \in Seq(Byte) /\ Len(hd) = 4 /\ FromBeBytes(hd) = c
  BY ToBeBytesType, CanIdBack
<1> HIDE DEF hd
<1>2. /\ raw \in Seq(Byte)
      /\ raw[5] = b
      /\ SubSeq(raw, 1, 4) = hd
      /\ Len(raw) = HeadLen(raw) + Len(d)
      /\ b >= CANFD_FRAME => raw[6] = x
      /\ SubSeq(raw, HeadLen(raw) + 1, Len(raw)) = d
  <2>1. raw = Assembled(hd, b, x, d) BY DEF hd
  <2>2. Parts(raw, hd, b, x, d) BY <1>1, <2>1, AssembledParts
  <2> QED BY <2>2 DEF Parts
<1>3. /\ IdOf(raw) = c /\ LenOf(raw) = b % CANFD_FRAME
      /\ FdOf(raw) = (b >= CANFD_FRAME)
  BY <1>1, <1>2, Zenon DEF IdOf, LenOf, FdOf
<1>4. Size(raw) = HeadLen(raw) + Len(d)
  BY <1>3, Zenon DEF Size
<1>5. Len(raw) >= 5
  <2>1. HeadLen(raw) \in {5, 6} BY DEF HeadLen
  <2>2. Len(d) \in Nat BY LenProperties
  <2> DEFINE m == HeadLen(raw)
             n == Len(d)
  <2>3. m \in {5, 6} /\ n \in Nat /\ Len(raw) = m + n BY <1>2, <2>1, <2>2
  <2> HIDE DEF m, n
  <2> QED BY <2>3
<1>6. Whole(raw) /\ SubSeq(raw, HeadLen(raw) + 1, Size(raw)) = d
  BY <1>2, <1>4, <1>5, Zenon DEF Whole
<1>7. (IF FdOf(raw) THEN raw[6] ELSE 0) = (IF b >= CANFD_FRAME THEN x ELSE 0)
  BY <1>2, <1>3
<1>8. FrameOf(raw) =
        [can_id |-> c, len |-> b % CANFD_FRAME, fd |-> b >= CANFD_FRAME,
         fd_flags |-> IF b >= CANFD_FRAME THEN x ELSE 0, data |-> d]
  BY <1>3, <1>6, <1>7, Zenon DEF FrameOf
<1> QED BY <1>2, <1>3, <1>6, <1>8

LEMMA EncodeWhole ==
    ASSUME NEW g \in Frame, NEW raw, raw = EncodeFrame(g)
    PROVE  /\ raw \in Seq(Byte) /\ Whole(raw)
           /\ FrameOf(raw) =
                [can_id |-> g.can_id, len |-> g.len, fd |-> g.fd,
                 fd_flags |-> IF g.fd THEN g.fd_flags ELSE 0,
                 data |-> IF IsRtr(g) THEN <<>> ELSE DataBytes(g, g.len)]
           /\ Allowed(raw) <=> g.len <= LenLimit(g.fd)
<1> DEFINE b == (g.len % CANFD_FRAME) + (IF g.fd THEN CANFD_FRAME ELSE 0)
           d == IF IsRtr(g) THEN <<>> ELSE DataBytes(g, g.len)
           hd == ToBeBytes(g.can_id)
<1>1. /\ g.can_id \in CanId /\ g.len \in 0..127 /\ g.fd \in BOOLEAN
      /\ g.fd_flags \in Byte
  BY DEF Frame
<1>2. b \in Byte /\ b % CANFD_FRAME = g.len /\ (b >= CANFD_FRAME) = g.fd
  <2>1. PICK n : n = g.len OBVIOUS
  <2>2. PICK k : k = IF g.fd THEN 128 ELSE 0 OBVIOUS
  <2>3. n \in 0..127 /\ k \in {0, 128} /\ (k = 128 <=> g.fd) BY <1>1, <2>1, <2>2
  <2>4. n % 128 = n BY <2>3
  <2>5. b = n + k BY <2>1, <2>2, <2>4 DEF CANFD_FRAME
  <2> HIDE DEF b
  <2>6. b \in 0..255 /\ (b >= 128 <=> k = 128) BY <2>3, <2>5
  <2>7. b % 128 = n BY <2>3, <2>5
  <2>8. (b >= 128) = g.fd BY <1>1, <2>3, <2>6
  <2> QED BY <2>1, <2>6, <2>7, <2>8 DEF Byte, CANFD_FRAME
<1>3. g.len % CANFD_FRAME = g.len BY <1>1 DEF CANFD_FRAME
<1>4. d \in Seq(Byte) /\ Len(d) = IF IsRtr(g) THEN 0 ELSE g.len
  <2>1. CASE IsRtr(g) BY <2>1
  <2>2. CASE ~IsRtr(g)
    <3>1. g.len \in Nat BY <1>1
    <3>2. DataBytes(g, g.len) \in Seq(Byte) BY <3>1, DataBytesType
    <3>3. DOMAIN DataBytes(g, g.len) = 1..g.len BY DEF DataBytes
    <3>4. Len(DataBytes(g, g.len)) = g.len BY <3>1, <3>2, <3>3, LenProperties
    <3> QED BY <2>2, <3>2, <3>4
  <2> QED BY <2>1, <2>2
<1>5. raw = hd \o <<b>> \o (IF g.fd THEN <<g.fd_flags>> ELSE <<>>) \o d
  BY <1>3, Zenon DEF EncodeFrame
<1>6. raw = Assembled(hd, b, g.fd_flags, d)
  <2> HIDE DEF b, d, hd
  <2>1. (IF g.fd THEN <<g.fd_flags>> ELSE <<>>)
          = (IF b >= CANFD_FRAME THEN <<g.fd_flags>> ELSE <<>>)
    BY <1>2
  <2> QED BY <1>5, <2>1, Zenon DEF Assembled
<1> HIDE DEF b, d, hd
<1>7. Len(d) = IF g.can_id.rtr THEN 0 ELSE b % CANFD_FRAME
  BY <1>2, <1>4 DEF IsRtr
<1>8. /\ raw \in Seq(Byte) /\ Whole(raw)
      /\ FrameOf(raw) =
           [can_id |-> g.can_id, len |-> b % CANFD_FRAME, fd |-> b >= CANFD_FRAME,
            fd_flags |-> IF b >= CANFD_FRAME THEN g.fd_flags ELSE 0, data |-> d]
      /\ LenOf(raw) = b % CANFD_FRAME /\ FdOf(raw) = (b >= CANFD_FRAME)
  BY <1>1, <1>2, <1>4, <1>6, <1>7, AssembledWhole DEF hd
<1>9. Allowed(raw) <=> g.len <= LenLimit(g.fd)
  BY <1>2, <1>8, Zenon DEF Allowed
<1>10. FrameOf(raw) =
         [can_id |-> g.can_id, len |-> g.len, fd |-> g.fd,
          fd_flags |-> IF g.fd THEN g.fd_flags ELSE 0, data |-> d]
  BY <1>2, <1>8, Zenon
<1> QED BY <1>8, <1>9, <1>10 DEF d

LEMMA PeerWhole ==
    ASSUME NEW c \in PeerIds, NEW len \in PeerLens
    PROVE  Whole(PeerBytes(c, len))
<1> DEFINE d == IF c.rtr THEN <<>>
                ELSE [i \in 1..(len % CANFD_FRAME) |-> 100 + i]
<1>1. c \in CanId /\ len \in Byte BY DataPathAssumption
<1>2. len % CANFD_FRAME \in 0..127 BY <1>1 DEF CANFD_FRAME, Byte
<1>3. d \in Seq(Byte) /\ Len(d) = IF c.rtr THEN 0 ELSE len % CANFD_FRAME
  <2> DEFINE n == len % CANFD_FRAME
             e == [i \in 1..n |-> 100 + i]
  <2>1. n \in 0..127 /\ d = IF c.rtr THEN <<>> ELSE e BY <1>2
  <2> HIDE DEF n, d
  <2>2. e \in Seq(Byte)
    <3>1. \A i \in 1..n : 100 + i \in Byte BY <2>1 DEF Byte
    <3>2. e \in [1..n -> Byte] BY <3>1, Zenon
    <3> QED BY <2>1, <3>2, FunctionIsSeq
  <2>3. Len(e) = n
    <3>1. DOMAIN e = 1..n OBVIOUS
    <3> QED BY <2>1, <2>2, <3>1, LenProperties
  <2> HIDE DEF e
  <2>4. CASE c.rtr BY <2>1, <2>4
  <2>5. CASE ~c.rtr BY <2>1, <2>2, <2>3, <2>5 DEF n
  <2> QED BY <2>4, <2>5
<1>4. PeerBytes(c, len) = Assembled(ToBeBytes(c), len, 255, d)
  BY Zenon DEF PeerBytes, Assembled
<1>5. 255 \in Byte BY DEF Byte
<1> HIDE DEF d
<1> QED BY <1>1, <1>3, <1>4, <1>5, AssembledWhole

\* raw stands in buf behind the first p elements.
Embedded(raw, buf, p) ==
    /\ p + Len(raw) <= Len(buf)
    /\ \A i \in 1..Len(raw) : buf[p + i] = raw[i]

LEMMA EmbeddedPart ==
    ASSUME NEW raw \in Seq(Byte), NEW buf, NEW p \in Nat, Embedded(raw, buf, p),
           NEW a \in Nat, a >= 1, NEW b \in 0..Len(raw)
    PROVE  SubSeq(buf, p + a, p + b) = SubSeq(raw, a, b)
<1> DEFINE s == SubSeq(buf, p + a, p + b)
           t == SubSeq(raw, a, b)
<1>1. Len(raw) \in Nat BY LenProperties
<1>2. \A i \in a..b : raw[i] \in Byte BY <1>1, ElementOfSeq
<1>3. ASSUME NEW j \in (p + a)..(p + b) PROVE buf[j] = raw[j - p]
  <2>1. PICK i : i = j - p OBVIOUS
  <2>2. i \in 1..Len(raw) /\ p + i = j BY <1>1, <2>1
  <2> QED BY <2>1, <2>2 DEF Embedded
<1>4. \A j \in (p + a)..(p + b) : buf[j] \in Byte BY <1>2, <1>3
<1>5. /\ t \in Seq(Byte) /\ Len(t) = IF a <= b THEN b - a + 1 ELSE 0
      /\ \A i \in 1..(b - a + 1) : t[i] = raw[a + i - 1]
  BY <1>1, <1>2, SubSeqProperties
<1>6. /\ s \in Seq(Byte)
      /\ Len(s) = IF p + a <= p + b THEN (p + b) - (p + a) + 1 ELSE 0
      /\ \A i \in 1..((p + b) - (p + a) + 1) : s[i] = buf[p + a + i - 1]
  BY <1>1, <1>4, SubSeqProperties
<1> HIDE DEF s, t
<1>7. Len(s) = Len(t) BY <1>1, <1>5, <1>6
<1>8. ASSUME NEW i \in 1..Len(s) PROVE s[i] = t[i]
  <2>1. PICK j : j = p + a + i - 1 OBVIOUS
  <2>2. /\ i \in 1..((p + b) - (p + a) + 1) /\ i \in 1..(b - a + 1)
        /\ j \in (p + a)..(p + b) /\ j - p = a + i - 1
    BY <1>1, <1>6, <2>1
  <2>3. s[i] = buf[j] BY <1>6, <2>1, <2>2
  <2>4. t[i] = raw[j - p] BY <1>5, <2>2
  <2> QED BY <1>3, <2>2, <2>3, <2>4
<1>9. s = t BY <1>5, <1>6, <1>7, <1>8, SeqEqual
<1> QED BY <1>9 DEF s, t

LEMMA CutPrefix ==
    ASSUME NEW raw \in Seq(Byte), Whole(raw), NEW n \in Nat, n < Len(raw),
           NEW piece, piece = SubSeq(raw, 1, n)
    PROVE  piece \in Seq(Byte) /\ Len(piece) = n /\ Cut(piece)
<1>1. Len(raw) \in Nat /\ n \in 0..Len(raw) BY LenProperties
<1>2. piece \in Seq(Byte) /\ Len(piece) = n BY <1>1, PrefixType
<1>3. ASSUME n >= 5 PROVE n < Size(piece)
  <2>1. \A i \in 1..n : piece[i] = raw[i]
    <3>1. \A i \in 1..n : raw[i] \in Byte BY <1>1, ElementOfSeq
    <3>2. \A i \in 1..n : SubSeq(raw, 1, n)[i] = raw[1 + i - 1]
      BY <3>1, SubSeqProperties
    <3> QED BY <3>2
  <2>2. piece[5] = raw[5] BY <1>3, <2>1
  <2>3. n >= 6 => piece[6] = raw[6] BY <2>1
  <2>4. SubSeq(piece, 1, 4) = SubSeq(raw, 1, 4)
    <3>1. Embedded(piece, raw, 0) BY <1>1, <1>2, <2>1 DEF Embedded
    <3>2. 1 \in Nat /\ 1 >= 1 /\ 4 \in 0..Len(piece) BY <1>2, <1>3
    <3>3. SubSeq(raw, 0 + 1, 0 + 4) = SubSeq(piece, 1, 4)
      BY <1>2, <3>1, <3>2, EmbeddedPart
    <3>4. 0 + 1 = 1 /\ 0 + 4 = 4 OBVIOUS
    <3> QED BY <3>3, <3>4, Zenon
  <2>5. Size(piece) = Size(raw)
    BY <2>2, <2>4, Zenon DEF Size, HeadLen, IdOf, FdOf, LenOf
  <2> QED BY <2>5 DEF Whole
<1> QED BY <1>2, <1>3 DEF Cut

-----------------------------------------------------------------------------
(* parse_udp. *)

LEMMA EmbeddedHeader ==
    ASSUME NEW raw \in Seq(Byte), Len(raw) >= 5, NEW buf, NEW p \in Nat,
           Embedded(raw, buf, p)
    PROVE  /\ buf[p + 5] = raw[5]
           /\ FdOf(raw) /\ Len(raw) >= 6 => buf[p + 6] = raw[6]
           /\ SubSeq(buf, p + 1, p + 4) = SubSeq(raw, 1, 4)
<1>1. Len(raw) \in Nat BY LenProperties
<1>2. 5 \in 1..Len(raw) BY <1>1
<1>3. Len(raw) >= 6 => 6 \in 1..Len(raw) BY <1>1
<1>4. 1 \in Nat /\ 1 >= 1 /\ 4 \in 0..Len(raw) BY <1>1
<1>5. SubSeq(buf, p + 1, p + 4) = SubSeq(raw, 1, 4) BY <1>4, EmbeddedPart
<1> QED BY <1>2, <1>3, <1>5 DEF Embedded

\* The tests of ParseFrame, in terms of the bytes of the frame.
LEMMA ParseFrameOf ==
    ASSUME NEW raw \in Seq(Byte), Len(raw) >= 5, NEW buf, NEW p \in Nat,
           Embedded(raw, buf, p), NEW frames
    PROVE  ParseFrame(buf, p, frames) =
             IF \/ p + 5 > Len(buf)
                \/ p + HeadLen(raw) > Len(buf)
                \/ LenOf(raw) > LenLimit(FdOf(raw))
                \/ p + Size(raw) > Len(buf)
             THEN None
             ELSE Some(Append(frames,
                         [can_id |-> IdOf(raw), len |-> LenOf(raw),
                          fd |-> FdOf(raw),
                          fd_flags |-> IF FdOf(raw) THEN buf[p + 6] ELSE 0,
                          data |-> SubSeq(buf, p + HeadLen(raw) + 1,
                                          p + Size(raw))]),
                       p + Size(raw))
<1>1. buf[p + 5] = raw[5] /\ SubSeq(buf, p + 1, p + 4) = SubSeq(raw, 1, 4)
  BY EmbeddedHeader
<1>2. PICK fd : fd = FdOf(raw) OBVIOUS
<1>3. PICK dlen : dlen = LenOf(raw) OBVIOUS
<1>4. PICK c : c = IdOf(raw) OBVIOUS
<1>5. PICK q : q = p + HeadLen(raw) OBVIOUS
<1>6. PICK end : end = p + Size(raw) OBVIOUS
<1>7. FRAME_BASE_SIZE = 5 BY DEF FRAME_BASE_SIZE
<1>8. /\ fd = (buf[p + 5] >= CANFD_FRAME) /\ dlen = buf[p + 5] % CANFD_FRAME
      /\ c = FromBeBytes(SubSeq(buf, p + 1, p + 4))
  BY <1>1, <1>2, <1>3, <1>4, Zenon DEF FdOf, LenOf, IdOf
<1>9. q = p + FRAME_BASE_SIZE + (IF fd THEN 1 ELSE 0)
  <2>1. HeadLen(raw) = IF fd THEN 6 ELSE 5 BY <1>2 DEF HeadLen
  <2> QED BY <1>5, <1>7, <2>1
<1>10. end = IF c.rtr THEN q ELSE q + dlen
  <2>1. /\ HeadLen(raw) \in {5, 6} /\ LenOf(raw) \in 0..127
        /\ ~c.rtr => Size(raw) = HeadLen(raw) + LenOf(raw)
        /\ c.rtr => Size(raw) = HeadLen(raw)
    BY <1>4, RawShape
  <2> DEFINE h == HeadLen(raw)
             n == LenOf(raw)
             z == Size(raw)
  <2>2. /\ h \in {5, 6} /\ n \in 0..127 /\ q = p + h /\ end = p + z /\ dlen = n
        /\ ~c.rtr => z = h + n
        /\ c.rtr => z = h
    BY <1>3, <1>5, <1>6, <2>1
  <2> HIDE DEF h, n, z
  <2>3. c.rtr => end = q BY <2>2
  <2>4. ~c.rtr => end = q + dlen BY <2>2
  <2> QED BY <2>3, <2>4
<1>11. ParseFrame(buf, p, frames) =
         IF \/ p + FRAME_BASE_SIZE > Len(buf)
            \/ q > Len(buf)
            \/ dlen > LenLimit(fd)
            \/ end > Len(buf)
         THEN None
         ELSE Some(Append(frames,
                     [can_id |-> c, len |-> dlen, fd |-> fd,
                      fd_flags |-> IF fd THEN buf[p + 6] ELSE 0,
                      data |-> SubSeq(buf, q + 1, end)]), end)
  BY <1>8, <1>9, <1>10, Zenon DEF ParseFrame
<1> QED BY <1>2, <1>3, <1>4, <1>5, <1>6, <1>7, <1>11, Zenon

LEMMA ParseFrameWhole ==
    ASSUME NEW raw \in Seq(Byte), Whole(raw), NEW buf, Len(buf) \in Nat,
           NEW p \in Nat, Embedded(raw, buf, p), NEW frames
    PROVE  ParseFrame(buf, p, frames) =
             IF Allowed(raw) THEN Some(Append(frames, FrameOf(raw)), p + Len(raw))
             ELSE None
<1>1. Len(raw) >= 5 /\ Len(raw) = Size(raw) BY DEF Whole
<1>2. Len(raw) \in Nat /\ Len(buf) \in Nat BY LenProperties
<1>3. /\ HeadLen(raw) \in {5, 6} /\ LenOf(raw) \in 0..127
      /\ Size(raw) \in Nat /\ Size(raw) >= HeadLen(raw)
  BY <1>1, RawShape
<1>4. LenLimit(FdOf(raw)) \in {8, 64}
  BY DEF LenLimit, MAX_FRAME_LEN, CLASSIC_FRAME_MAX_LEN
<1>5. /\ ~(p + 5 > Len(buf)) /\ ~(p + HeadLen(raw) > Len(buf))
      /\ ~(p + Size(raw) > Len(buf))
  <2> DEFINE m == Len(raw)
             n == Len(buf)
             h == HeadLen(raw)
             z == Size(raw)
  <2>1. /\ m \in Nat /\ n \in Nat /\ h \in {5, 6} /\ z \in Nat /\ z >= h
        /\ m >= 5 /\ m = z /\ p + m <= n
    BY <1>1, <1>2, <1>3 DEF Embedded
  <2> HIDE DEF m, n, h, z
  <2>2. ~(p + 5 > n) /\ ~(p + h > n) /\ ~(p + z > n) BY <2>1
  <2> QED BY <2>2 DEF n, h, z
<1>6. LenOf(raw) > LenLimit(FdOf(raw)) <=> ~Allowed(raw)
  <2> DEFINE a == LenOf(raw)
             b == LenLimit(FdOf(raw))
  <2>1. a \in 0..127 /\ b \in {8, 64} BY <1>3, <1>4
  <2> HIDE DEF a, b
  <2>2. a > b <=> ~(a <= b) BY <2>1
  <2> QED BY <2>2 DEF a, b, Allowed
<1>7. (IF FdOf(raw) THEN buf[p + 6] ELSE 0) = (IF FdOf(raw) THEN raw[6] ELSE 0)
  <2>1. FdOf(raw) => HeadLen(raw) = 6 BY DEF HeadLen
  <2>2. FdOf(raw) => Len(raw) >= 6 BY <1>1, <1>3, <2>1
  <2> QED BY <1>1, <2>2, EmbeddedHeader
<1>8. SubSeq(buf, p + HeadLen(raw) + 1, p + Size(raw))
        = SubSeq(raw, HeadLen(raw) + 1, Size(raw))
  <2>1. PICK a : a = HeadLen(raw) + 1 OBVIOUS
  <2>2. a \in Nat /\ a >= 1 /\ p + HeadLen(raw) + 1 = p + a BY <1>3, <2>1
  <2>3. PICK z : z = Size(raw) OBVIOUS
  <2>4. z \in 0..Len(raw) BY <1>1, <1>3, <2>3
  <2>5. a \in Nat /\ a >= 1 BY <2>2
  <2>6. SubSeq(buf, p + a, p + z) = SubSeq(raw, a, z)
    BY <2>4, <2>5, EmbeddedPart
  <2> QED BY <2>1, <2>2, <2>3, <2>6, Zenon
<1>9. ParseFrame(buf, p, frames) =
             IF \/ p + 5 > Len(buf)
                \/ p + HeadLen(raw) > Len(buf)
                \/ LenOf(raw) > LenLimit(FdOf(raw))
                \/ p + Size(raw) > Len(buf)
             THEN None
             ELSE Some(Append(frames,
                         [can_id |-> IdOf(raw), len |-> LenOf(raw),
                          fd |-> FdOf(raw),
                          fd_flags |-> IF FdOf(raw) THEN buf[p + 6] ELSE 0,
                          data |-> SubSeq(buf, p + HeadLen(raw) + 1,
                                          p + Size(raw))]),
                       p + Size(raw))
  BY <1>1, ParseFrameOf, Zenon
<1>10. CASE Allowed(raw)
  <2>1. ParseFrame(buf, p, frames) =
          Some(Append(frames,
                 [can_id |-> IdOf(raw), len |-> LenOf(raw), fd |-> FdOf(raw),
                  fd_flags |-> IF FdOf(raw) THEN buf[p + 6] ELSE 0,
                  data |-> SubSeq(buf, p + HeadLen(raw) + 1, p + Size(raw))]),
               p + Size(raw))
    BY <1>5, <1>6, <1>9, <1>10, Zenon
  <2>2. [can_id |-> IdOf(raw), len |-> LenOf(raw), fd |-> FdOf(raw),
         fd_flags |-> IF FdOf(raw) THEN buf[p + 6] ELSE 0,
         data |-> SubSeq(buf, p + HeadLen(raw) + 1, p + Size(raw))]
           = FrameOf(raw)
    BY <1>7, <1>8, Zenon DEF FrameOf
  <2> QED BY <1>1, <1>10, <2>1, <2>2, Zenon
<1>11. CASE ~Allowed(raw)
  BY <1>6, <1>9, <1>11, Zenon
<1> QED BY <1>10, <1>11

LEMMA ParseFrameCut ==
    ASSUME NEW raw \in Seq(Byte), Cut(raw), NEW buf, Len(buf) \in Nat,
           NEW p \in Nat, Embedded(raw, buf, p), p + Len(raw) = Len(buf), NEW frames
    PROVE  ParseFrame(buf, p, frames) = None
<1>1. Len(raw) \in Nat /\ Len(buf) \in Nat BY LenProperties
<1>2. CASE Len(raw) < 5
  <2>1. p + FRAME_BASE_SIZE > Len(buf) BY <1>1, <1>2 DEF FRAME_BASE_SIZE
  <2> QED BY <2>1, Zenon DEF ParseFrame
<1>3. CASE Len(raw) >= 5
  <2>1. Len(raw) < Size(raw) BY <1>3 DEF Cut
  <2>2. Size(raw) \in Nat BY <1>3, RawShape
  <2>3. p + Size(raw) > Len(buf) BY <1>1, <2>1, <2>2
  <2> QED BY <1>3, <2>3, ParseFrameOf, Zenon
<1> QED BY <1>1, <1>2, <1>3

LEMMA LeastNat ==
    ASSUME NEW S \in SUBSET Nat, S # {}
    PROVE  \E m \in S : \A k \in S : m <= k
<1>1. PICK m \in S : \A k \in S : ~(<<k, m>> \in OpToRel(<, Nat))
  BY NatLessThanWellFounded, WFMin
<1>2. \A k \in S : ~(k < m) BY <1>1 DEF OpToRel
<1> QED BY <1>2

\* What ParseUdp has made of the first k frames of buf, given what it has made
\* of those before.
ParseNext(buf, u, k) ==
    IF k = 0 THEN Some(<<>>, DATA_PACKET_BASE_SIZE)
    ELSE IF u[k - 1].ok THEN ParseFrame(buf, u[k - 1].p, u[k - 1].frames)
         ELSE None

Solves(w, buf, n) == w = [k \in 0..n |-> ParseNext(buf, w, k)]

\* ParseUdp computes the only function that satisfies its recursion.
LEMMA ParseUdpIs ==
    ASSUME NEW buf, ~(Len(buf) < DATA_PACKET_BASE_SIZE), buf[1] = FRAME_VERSION,
           buf[2] = OP_DATA, NEW n \in Nat, buf[4] * 256 + buf[5] = n,
           NEW w, Solves(w, buf, n)
    PROVE  ParseUdp(buf) = w[n]
<1> DEFINE up == CHOOSE u : u = [k \in 0..n |-> ParseNext(buf, u, k)]
<1>1. ParseUdp(buf) = up[n]
  <2>1. up = CHOOSE u : u = [k \in 0..n |->
               IF k = 0 THEN Some(<<>>, DATA_PACKET_BASE_SIZE)
               ELSE IF u[k - 1].ok
                    THEN ParseFrame(buf, u[k - 1].p, u[k - 1].frames)
                    ELSE None]
    BY Zenon DEF ParseNext
  <2> HIDE DEF up
  <2> QED BY <2>1, Zenon DEF ParseUdp
<1>2. up = [k \in 0..n |-> ParseNext(buf, up, k)] BY Zenon DEF Solves
<1> HIDE DEF up
<1>3. \A k \in 0..n : up[k] = ParseNext(buf, up, k) BY <1>2, Zenon
<1>4. \A k \in 0..n : w[k] = ParseNext(buf, w, k) BY Zenon DEF Solves
<1> DEFINE Bad == {k \in 0..n : up[k] # w[k]}
<1>5. Bad = {}
  <2> SUFFICES ASSUME Bad # {} PROVE FALSE OBVIOUS
  <2>1. Bad \in SUBSET Nat OBVIOUS
  <2>2. PICK m \in Bad : \A k \in Bad : m <= k
    <3> HIDE DEF Bad
    <3> QED BY <2>1, LeastNat
  <2>3. m \in 0..n /\ up[m] # w[m] BY Zenon
  <2>4. CASE m = 0
    BY <1>3, <1>4, <2>3, <2>4, Zenon DEF ParseNext
  <2>5. CASE m # 0
    <3>1. m - 1 \in 0..n /\ ~(m <= m - 1) BY <2>3, <2>5
    <3>2. up[m - 1] = w[m - 1] BY <2>2, <3>1
    <3>3. PICK v : v = up[m - 1] /\ v = w[m - 1] BY <3>2
    <3>4. /\ ParseNext(buf, up, m) =
               IF v.ok THEN ParseFrame(buf, v.p, v.frames) ELSE None
          /\ ParseNext(buf, w, m) =
               IF v.ok THEN ParseFrame(buf, v.p, v.frames) ELSE None
      BY <2>5, <3>3, Zenon DEF ParseNext
    <3> QED BY <1>3, <1>4, <2>3, <3>4, Zenon
  <2> QED BY <2>4, <2>5
<1>6. n \in 0..n OBVIOUS
<1> QED BY <1>1, <1>5, <1>6

LEMMA DatagramParts ==
    ASSUME NEW n \in Nat, NEW body \in Seq(Byte), NEW buf,
           buf = Datagram(0, n, body)
    PROVE  /\ Len(buf) = 5 + Len(body) /\ Len(buf) \in Nat
           /\ buf[1] = FRAME_VERSION /\ buf[2] = OP_DATA
           /\ buf[4] * 256 + buf[5] = n
           /\ Embedded(body, buf, 5)
<1>1. PICK a : a = n \div 256 OBVIOUS
<1>2. PICK b : b = n % 256 OBVIOUS
<1>3. a \in Nat /\ b \in 0..255 /\ n = 256 * a + b BY <1>1, <1>2, LowByte
<1>4. PICK hd : hd = <<FRAME_VERSION, OP_DATA, 0, a, b>> OBVIOUS
<1>5. /\ hd \in Seq(Int) /\ Len(hd) = 5 /\ hd[1] = FRAME_VERSION
      /\ hd[2] = OP_DATA /\ hd[4] = a /\ hd[5] = b
  BY <1>3, <1>4 DEF FRAME_VERSION, OP_DATA
<1>6. buf = hd \o body BY <1>1, <1>2, <1>4, Zenon DEF Datagram
<1>7. body \in Seq(Int)
  <2>1. Byte \subseteq Int BY DEF Byte
  <2> QED BY <2>1, SeqMonotonic
<1>8. PICK m : m = Len(body) OBVIOUS
<1>9. m \in Nat BY <1>8, LenProperties
<1>10. Joined(Int, hd, 5, body, m, buf)
  BY <1>5, <1>6, <1>7, <1>8, ConcatParts
<1>11. Len(buf) = 5 + m /\ \A i \in 1..5 : buf[i] = hd[i]
  BY <1>10, Zenon DEF Joined
<1>12. /\ buf[1] = FRAME_VERSION /\ buf[2] = OP_DATA /\ buf[4] = a /\ buf[5] = b
  BY <1>5, <1>11
<1>13. buf[4] * 256 + buf[5] = n BY <1>3, <1>12
<1>14. ASSUME NEW i \in 1..m PROVE buf[5 + i] = body[i]
  <2>1. PICK j : j = 5 + i OBVIOUS
  <2>2. j \in (5 + 1)..(5 + m) /\ j - 5 = i BY <1>9, <2>1
  <2> QED BY <1>10, <2>1, <2>2, Zenon DEF Joined
<1>15. Embedded(body, buf, 5)
  BY <1>8, <1>9, <1>11, <1>14 DEF Embedded
<1> QED BY <1>8, <1>9, <1>11, <1>12, <1>13, <1>15

LEMMA EmbeddedDeeper ==
    ASSUME NEW raw \in Seq(Byte), NEW body, NEW buf, NEW p \in Nat, NEW q \in Nat,
           Embedded(raw, body, p), Embedded(body, buf, q), Len(body) \in Nat,
           Len(buf) \in Nat
    PROVE  Embedded(raw, buf, q + p)
<1>1. PICK m : m = Len(raw) OBVIOUS
<1>2. PICK n : n = Len(body) OBVIOUS
<1>3. m \in Nat /\ n \in Nat BY <1>1, <1>2, LenProperties
<1>4. /\ p + m <= n /\ q + n <= Len(buf)
      /\ \A i \in 1..m : body[p + i] = raw[i]
      /\ \A i \in 1..n : buf[q + i] = body[i]
  BY <1>1, <1>2, Zenon DEF Embedded
<1>5. q + p + m <= Len(buf) BY <1>3, <1>4
<1>6. ASSUME NEW i \in 1..m PROVE buf[q + p + i] = raw[i]
  <2>1. PICK j : j = p + i OBVIOUS
  <2>2. j \in 1..n /\ q + p + i = q + j BY <1>3, <1>4, <2>1
  <2>3. buf[q + j] = body[j] BY <1>4, <2>2
  <2> QED BY <1>4, <2>1, <2>2, <2>3
<1> QED BY <1>1, <1>5, <1>6 DEF Embedded

\* Bytes that parse_udp accepts as one frame.
Good(raw) == Whole(raw) /\ Allowed(raw)

\* body is what raws gives when joined, and off is where each of them ends.
\* Only the last may have been cut off.
JoinOf(raws, off, body) ==
    LET n == Len(raws)
    IN  /\ raws \in Seq(Seq(Byte)) /\ body \in Seq(Byte)
        /\ off \in [0..n -> Nat] /\ off[0] = 0 /\ off[n] = Len(body)
        /\ \A i \in 1..n :
             /\ off[i] = off[i - 1] + Len(raws[i])
             /\ Embedded(raws[i], body, off[i - 1])
             /\ Whole(raws[i]) \/ (i = n /\ Cut(raws[i]))

\* A datagram is all or nothing.
LEMMA ParseUdpFrames ==
    ASSUME NEW raws, NEW off, NEW body, JoinOf(raws, off, body),
           NEW n, n = Len(raws)
    PROVE  ParseUdp(Datagram(0, n, body)) =
             IF \A i \in 1..n : Good(raws[i])
             THEN Some([i \in 1..n |-> FrameOf(raws[i])], 5 + off[n])
             ELSE None
<1> DEFINE buf  == Datagram(0, n, body)
           F(k) == [i \in 1..k |-> FrameOf(raws[i])]
           W(k) == IF \A i \in 1..k : Good(raws[i]) THEN Some(F(k), 5 + off[k])
                   ELSE None
           w    == [k \in 0..n |-> W(k)]
<1>1. /\ raws \in Seq(Seq(Byte)) /\ body \in Seq(Byte)
      /\ off \in [0..n -> Nat] /\ off[0] = 0 /\ off[n] = Len(body)
      /\ \A i \in 1..n :
           /\ off[i] = off[i - 1] + Len(raws[i])
           /\ Embedded(raws[i], body, off[i - 1])
           /\ Whole(raws[i]) \/ (i = n /\ Cut(raws[i]))
  BY Zenon DEF JoinOf
<1>2. n \in Nat /\ \A i \in 1..n : raws[i] \in Seq(Byte)
  BY <1>1, LenProperties, ElementOfSeq
<1>3. /\ Len(buf) = 5 + Len(body) /\ Len(buf) \in Nat
      /\ buf[1] = FRAME_VERSION /\ buf[2] = OP_DATA
      /\ buf[4] * 256 + buf[5] = n
      /\ Embedded(body, buf, 5)
  BY <1>1, <1>2, DatagramParts
<1>4. Len(body) \in Nat BY <1>1, LenProperties
<1> HIDE DEF buf
<1>5. ASSUME NEW k \in 0..n PROVE w[k] = ParseNext(buf, w, k)
  <2>1. w[k] = W(k) OBVIOUS
  <2>2. CASE k = 0
    <3>1. F(0) = <<>> OBVIOUS
    <3>2. W(0) = Some(F(0), 5 + off[0])
      <4>1. \A i \in 1..0 : Good(raws[i]) OBVIOUS
      <4> QED BY <4>1, Zenon
    <3>3. 5 + off[0] = DATA_PACKET_BASE_SIZE BY <1>1 DEF DATA_PACKET_BASE_SIZE
    <3> QED BY <2>1, <2>2, <3>1, <3>2, <3>3, Zenon DEF ParseNext
  <2>3. CASE k # 0
    <3>1. PICK j : j = k - 1 OBVIOUS
    <3>2. j \in 0..n /\ k \in 1..n /\ j + 1 = k BY <1>2, <2>3, <3>1
    <3>3. w[j] = W(j) BY <3>2
    <3> HIDE DEF w
    <3>4. PICK raw : raw = raws[k] OBVIOUS
    <3>5. /\ raw \in Seq(Byte) /\ off[j] \in Nat /\ off[k] = off[j] + Len(raw)
          /\ Embedded(raw, body, off[j]) /\ (Whole(raw) \/ (k = n /\ Cut(raw)))
      BY <1>1, <1>2, <3>1, <3>2, <3>4
    <3>6. PICK p : p = 5 + off[j] OBVIOUS
    <3>7. p \in Nat /\ Embedded(raw, buf, p)
      <4>1. 5 \in Nat /\ p \in Nat BY <3>5, <3>6
      <4>2. Embedded(raw, buf, 5 + off[j])
        BY <1>3, <1>4, <3>5, <4>1, EmbeddedDeeper
      <4> QED BY <3>6, <4>1, <4>2
    <3>8. Len(raw) \in Nat BY <3>5, LenProperties
    <3>9. p + Len(raw) = 5 + off[k] BY <3>5, <3>6, <3>8
    <3>10. CASE \A i \in 1..j : Good(raws[i])
      <4>1. W(j) = Some(F(j), p) BY <3>6, <3>10, Zenon
      <4> HIDE DEF W, F
      <4>2. ParseNext(buf, w, k) = ParseFrame(buf, p, F(j))
        <5>1. w[k - 1] = Some(F(j), p) BY <3>1, <3>3, <4>1
        <5>2. /\ w[k - 1].ok = TRUE /\ w[k - 1].p = p
              /\ w[k - 1].frames = F(j)
          BY <5>1 DEF Some
        <5> QED BY <2>3, <5>2, Zenon DEF ParseNext
      <4>3. (\A i \in 1..k : Good(raws[i])) <=> Good(raw)
        BY <3>2, <3>4, <3>10
      <4>4. CASE Whole(raw)
        <5>1. ParseFrame(buf, p, F(j)) =
                IF Allowed(raw) THEN Some(Append(F(j), FrameOf(raw)), p + Len(raw))
                ELSE None
          BY <1>3, <3>5, <3>7, <4>4, ParseFrameWhole
        <5>2. Append(F(j), FrameOf(raw)) = F(k)
          <6> DEFINE S == {FrameOf(raws[i]) : i \in 1..n}
                     T == {FrameOf(raws[i]) : i \in 1..k}
          <6>1. F(j) \in [1..j -> T] BY <3>2 DEF F
          <6>2. F(k) \in [1..k -> T] BY DEF F
          <6>3. j \in Nat /\ k \in Nat BY <3>2
          <6>4. FrameOf(raw) \in T BY <3>2, <3>4
          <6>5. \A i \in 1..j : F(j)[i] = FrameOf(raws[i]) BY DEF F
          <6>6. \A i \in 1..k : F(k)[i] = FrameOf(raws[i]) BY DEF F
          <6> HIDE DEF T
          <6>7. F(j) \in Seq(T) /\ F(k) \in Seq(T)
            BY <6>1, <6>2, <6>3, FunctionIsSeq
          <6>8. Len(F(j)) = j /\ Len(F(k)) = k
            <7>1. DOMAIN F(j) = 1..j /\ DOMAIN F(k) = 1..k BY <6>1, <6>2
            <7> QED BY <6>3, <6>7, <7>1, LenProperties
          <6>9. PICK a : a = Append(F(j), FrameOf(raw)) OBVIOUS
          <6>10. /\ a \in Seq(T) /\ Len(a) = j + 1 /\ a[j + 1] = FrameOf(raw)
                 /\ \A i \in 1..j : a[i] = F(j)[i]
            BY <6>4, <6>7, <6>8, <6>9, AppendProperties
          <6>11. ASSUME NEW i \in 1..Len(a) PROVE a[i] = F(k)[i]
            <7>1. i \in 1..k /\ (i \in 1..j \/ i = k)
              BY <3>2, <6>10
            <7>2. CASE i \in 1..j BY <6>5, <6>6, <6>10, <7>1, <7>2
            <7>3. CASE i = k BY <3>2, <3>4, <6>6, <6>10, <7>1, <7>3
            <7> QED BY <7>1, <7>2, <7>3
          <6>12. a = F(k)
            <7>1. Len(a) = Len(F(k)) BY <3>2, <6>8, <6>10
            <7> QED BY <6>7, <6>10, <6>11, <7>1, SeqEqual
          <6> QED BY <6>9, <6>12
        <5>3. W(k) = IF Allowed(raw) THEN Some(F(k), 5 + off[k]) ELSE None
          BY <4>3, <4>4, Zenon DEF W, Good
        <5> QED BY <2>1, <3>9, <4>2, <5>1, <5>2, <5>3, Zenon
      <4>5. CASE ~Whole(raw)
        <5>1. k = n /\ Cut(raw) BY <3>5, <4>5
        <5>2. p + Len(raw) = Len(buf)
          BY <1>1, <1>3, <3>9, <5>1
        <5>3. ParseFrame(buf, p, F(j)) = None
          BY <1>3, <3>5, <3>7, <5>1, <5>2, ParseFrameCut
        <5>4. W(k) = None BY <4>3, <4>5, Zenon DEF W, Good
        <5> QED BY <2>1, <4>2, <5>3, <5>4, Zenon
      <4> QED BY <4>4, <4>5
    <3>11. CASE ~(\A i \in 1..j : Good(raws[i]))
      <4>1. W(j) = None BY <3>11, Zenon
      <4>2. W(k) = None
        <5>1. ~(\A i \in 1..k : Good(raws[i])) BY <3>2, <3>11
        <5> QED BY <5>1, Zenon
      <4> HIDE DEF W, F
      <4>3. w[k - 1].ok = FALSE BY <3>1, <3>3, <4>1 DEF None
      <4>4. ParseNext(buf, w, k) = None BY <2>3, <4>3, Zenon DEF ParseNext
      <4> QED BY <2>1, <4>2, <4>4
    <3> QED BY <3>10, <3>11
  <2> QED BY <2>2, <2>3
<1>6. Solves(w, buf, n)
  <2>1. w = [k \in 0..n |-> w[k]] OBVIOUS
  <2> HIDE DEF w
  <2> QED BY <1>5, <2>1, Zenon DEF Solves
<1>7. ~(Len(buf) < DATA_PACKET_BASE_SIZE)
  BY <1>3, <1>4 DEF DATA_PACKET_BASE_SIZE
<1>8. w[n] = W(n)
  <2>1. n \in 0..n BY <1>2
  <2> QED BY <2>1
<1> HIDE DEF w
<1>9. ParseUdp(buf) = w[n]
  BY <1>2, <1>3, <1>6, <1>7, ParseUdpIs
<1> QED BY <1>8, <1>9 DEF buf

LEMMA ParseUdpOne ==
    ASSUME NEW raw \in Seq(Byte), Whole(raw) \/ Cut(raw)
    PROVE  ParseUdp(Datagram(0, 1, raw)) =
             IF Good(raw) THEN Some(<<FrameOf(raw)>>, 5 + Len(raw)) ELSE None
<1>1. PICK m : m = Len(raw) OBVIOUS
<1>2. m \in Nat BY <1>1, LenProperties
<1>3. PICK raws : raws = <<raw>> OBVIOUS
<1>4. raws \in Seq(Seq(Byte)) /\ Len(raws) = 1 /\ raws[1] = raw BY <1>3
<1>5. PICK off : off = [i \in 0..1 |-> IF i = 0 THEN 0 ELSE m] OBVIOUS
<1>6. off \in [0..1 -> Nat] /\ off[0] = 0 /\ off[1] = m BY <1>2, <1>5
<1>7. Embedded(raw, raw, 0)
  <2>1. 0 + m <= m /\ \A i \in 1..m : 0 + i = i BY <1>2
  <2> QED BY <1>1, <2>1, Zenon DEF Embedded
<1>8. JoinOf(raws, off, raw)
  <2> SUFFICES ASSUME NEW i \in 1..1
               PROVE  /\ off[i] = off[i - 1] + Len(raws[i])
                      /\ Embedded(raws[i], raw, off[i - 1])
                      /\ Whole(raws[i]) \/ (i = 1 /\ Cut(raws[i]))
    BY <1>1, <1>4, <1>6, Zenon DEF JoinOf
  <2>1. i = 1 /\ i - 1 = 0 /\ m = 0 + m BY <1>2
  <2>2. off[i - 1] = 0 /\ off[i] = m /\ raws[i] = raw BY <1>4, <1>6, <2>1
  <2> QED BY <1>1, <1>7, <2>1, <2>2
<1>9. ParseUdp(Datagram(0, 1, raw)) =
        IF \A i \in 1..1 : Good(raws[i])
        THEN Some([i \in 1..1 |-> FrameOf(raws[i])], 5 + off[1])
        ELSE None
  BY <1>4, <1>8, ParseUdpFrames
<1>10. (\A i \in 1..1 : Good(raws[i])) <=> Good(raw)
  <2>1. \A i \in 1..1 : i = 1 OBVIOUS
  <2>2. 1 \in 1..1 OBVIOUS
  <2> QED BY <1>4, <2>1, <2>2, Zenon
<1>11. [i \in 1..1 |-> FrameOf(raws[i])] = <<FrameOf(raw)>>
  <2>1. PICK x : x = FrameOf(raw) OBVIOUS
  <2>2. \A i \in 1..1 : FrameOf(raws[i]) = x
    <3>1. \A i \in 1..1 : i = 1 OBVIOUS
    <3> QED BY <1>4, <2>1, <3>1, Zenon
  <2>3. [i \in 1..1 |-> FrameOf(raws[i])] = [i \in 1..1 |-> x]
    BY <2>2, Zenon
  <2>4. [i \in 1..1 |-> x] = <<x>> OBVIOUS
  <2> QED BY <2>1, <2>3, <2>4, Zenon
<1> QED BY <1>1, <1>6, <1>9, <1>10, <1>11, Zenon

-----------------------------------------------------------------------------
(* What has been sent. *)

Calls ==
    {PeerCall} \cup
    [by : {"canWrite"}, id : Ids, dlc : Dlcs, flag : Flags, msg : Msgs]

Entry == [raw : Seq(Byte), call : Calls]

\* What canWrite puts on the wire for its arguments.
Written(e) ==
    \/ e.call = PeerCall
    \/ \E id \in Ids, dlc \in Dlcs, flag \in Flags, msg \in Msgs :
         /\ e.call = [by |-> "canWrite", id |-> id, dlc |-> dlc, flag |-> flag,
                      msg |-> msg]
         /\ e.raw = EncodeFrame(WriteFrame(id, dlc, flag, msg))

\* Whole frames, of which the last may have been cut off by a peer that left.
SentShape ==
    /\ sent \in Seq(Entry)
    /\ \A i \in 1..Len(sent) :
         /\ sent[i].raw # <<>>
         /\ Written(sent[i])
         /\ \/ Whole(sent[i].raw)
            \/ i = Len(sent) /\ ~peerOpen /\ Cut(sent[i].raw)

Raws == [i \in 1..Len(sent) |-> sent[i].raw]

\* What AllBytes has joined of the first k.
BytesNext(u, k) == IF k = 0 THEN <<>> ELSE u[k - 1] \o sent[k].raw

LEMMA BytesExist ==
    ASSUME NEW n \in Nat
    PROVE  \E u : u = [k \in 0..n |-> BytesNext(u, k)]
<1> DEFINE Bad == {m \in Nat : ~(\E u : u = [k \in 0..m |-> BytesNext(u, k)])}
<1> SUFFICES ASSUME Bad # {} PROVE FALSE OBVIOUS
<1>1. PICK m \in Bad : \A k \in Bad : m <= k
  <2>1. Bad \in SUBSET Nat OBVIOUS
  <2> HIDE DEF Bad
  <2> QED BY <2>1, LeastNat
<1>2. m \in Nat /\ ~(\E u : u = [k \in 0..m |-> BytesNext(u, k)]) BY Zenon
<1>3. CASE m = 0
  <2>1. PICK u : u = [k \in 0..0 |-> <<>>] OBVIOUS
  <2>2. \A k \in 0..0 : k = 0 OBVIOUS
  <2>3. \A k \in 0..0 : BytesNext(u, k) = <<>> BY <2>2 DEF BytesNext
  <2>4. u = [k \in 0..0 |-> BytesNext(u, k)] BY <2>1, <2>3, Zenon
  <2> QED BY <1>2, <1>3, <2>4, Zenon
<1>4. CASE m # 0
  <2>1. PICK j : j = m - 1 OBVIOUS
  <2>2. j \in Nat /\ ~(m <= j) /\ j + 1 = m BY <1>2, <1>4, <2>1
  <2>3. PICK v : v = [k \in 0..j |-> BytesNext(v, k)] BY <1>1, <2>2, Zenon
  <2>4. PICK u : u = [k \in 0..m |-> IF k = m THEN v[j] \o sent[m].raw ELSE v[k]]
    OBVIOUS
  <2>5. ASSUME NEW k \in 0..m PROVE u[k] = BytesNext(u, k)
    <3>1. CASE k = m
      <4>1. j \in 0..m /\ j # m BY <2>2
      <4>2. u[j] = v[j] BY <2>4, <4>1
      <4>3. u[m] = v[j] \o sent[m].raw BY <2>4, <3>1
      <4>4. BytesNext(u, m) = u[j] \o sent[m].raw
        BY <1>4, <2>1, Zenon DEF BytesNext
      <4> QED BY <3>1, <4>2, <4>3, <4>4, Zenon
    <3>2. CASE k # m
      <4>1. k \in 0..j BY <2>2, <3>2
      <4>2. u[k] = v[k] BY <2>4, <3>2
      <4>3. v[k] = BytesNext(v, k) BY <2>3, <4>1, Zenon
      <4>4. BytesNext(v, k) = BytesNext(u, k)
        <5>1. CASE k = 0 BY <5>1, Zenon DEF BytesNext
        <5>2. CASE k # 0
          <6>1. k - 1 \in 0..m /\ k - 1 # m BY <2>2, <4>1, <5>2
          <6>2. u[k - 1] = v[k - 1] BY <2>4, <6>1
          <6> QED BY <5>2, <6>2, Zenon DEF BytesNext
        <5> QED BY <5>1, <5>2
      <4> QED BY <4>2, <4>3, <4>4, Zenon
    <3> QED BY <3>1, <3>2
  <2>6. u = [k \in 0..m |-> u[k]] BY <2>4
  <2>7. u = [k \in 0..m |-> BytesNext(u, k)] BY <2>5, <2>6, Zenon
  <2> QED BY <1>2, <2>7, Zenon
<1> QED BY <1>3, <1>4

LEMMA ConcatEmbeds ==
    ASSUME NEW s \in Seq(Byte), NEW t \in Seq(Byte), NEW u, u = s \o t
    PROVE  /\ u \in Seq(Byte) /\ Len(u) = Len(s) + Len(t)
           /\ Embedded(s, u, 0) /\ Embedded(t, u, Len(s))
<1>1. PICK m : m = Len(s) OBVIOUS
<1>2. PICK n : n = Len(t) OBVIOUS
<1>3. m \in Nat /\ n \in Nat BY <1>1, <1>2, LenProperties
<1>4. Joined(Byte, s, m, t, n, u) BY <1>1, <1>2, ConcatParts
<1>5. /\ u \in Seq(Byte) /\ Len(u) = m + n
      /\ \A i \in 1..m : u[i] = s[i]
      /\ \A i \in (m + 1)..(m + n) : u[i] = t[i - m]
  BY <1>4, Zenon DEF Joined
<1>6. Embedded(s, u, 0)
  <2>1. 0 + m <= Len(u) BY <1>3, <1>5
  <2>2. \A i \in 1..m : u[0 + i] = s[i] BY <1>3, <1>5
  <2> QED BY <1>1, <2>1, <2>2, Zenon DEF Embedded
<1>7. Embedded(t, u, m)
  <2>1. m + n <= Len(u) BY <1>3, <1>5
  <2>2. ASSUME NEW i \in 1..n PROVE u[m + i] = t[i]
    <3>1. PICK j : j = m + i OBVIOUS
    <3>2. j \in (m + 1)..(m + n) /\ j - m = i BY <1>3, <3>1
    <3> QED BY <1>5, <3>1, <3>2
  <2> QED BY <1>2, <2>1, <2>2 DEF Embedded
<1> QED BY <1>1, <1>2, <1>5, <1>6, <1>7

\* A datagram of everything that was sent is made of the same frames.
LEMMA AllBytesJoined ==
    ASSUME SentShape
    PROVE  Len(Raws) = Len(sent) /\ \E off : JoinOf(Raws, off, AllBytes)
<1>1. PICK n : n = Len(sent) OBVIOUS
<1>2. /\ n \in Nat
      /\ \A i \in 1..n : /\ sent[i].raw \in Seq(Byte)
                         /\ \/ Whole(sent[i].raw)
                            \/ i = n /\ Cut(sent[i].raw)
  <2>1. sent \in Seq(Entry) BY DEF SentShape
  <2>2. n \in Nat BY <1>1, <2>1, LenProperties
  <2>3. \A i \in 1..n : sent[i] \in Entry BY <1>1, <2>1, ElementOfSeq
  <2>4. \A i \in 1..n : sent[i].raw \in Seq(Byte) BY <2>3 DEF Entry
  <2> QED BY <1>1, <2>2, <2>4, Zenon DEF SentShape
<1>3. Raws \in Seq(Seq(Byte)) /\ Len(Raws) = n
      /\ \A i \in 1..n : Raws[i] = sent[i].raw
  <2>1. Raws = [i \in 1..n |-> sent[i].raw] BY <1>1, Zenon DEF Raws
  <2>2. Raws \in [1..n -> Seq(Byte)] BY <1>2, <2>1
  <2>3. Raws \in Seq(Seq(Byte)) BY <1>2, <2>2, FunctionIsSeq
  <2>4. Len(Raws) = n
    <3>1. DOMAIN Raws = 1..n BY <2>1
    <3> QED BY <1>2, <2>3, <3>1, LenProperties
  <2> QED BY <2>1, <2>3, <2>4
<1> DEFINE u == CHOOSE v : v = [k \in 0..n |-> BytesNext(v, k)]
<1>4. AllBytes = u[n]
  <2>1. u = CHOOSE v : v = [k \in 0..n |->
                IF k = 0 THEN <<>> ELSE v[k - 1] \o sent[k].raw]
    BY Zenon DEF BytesNext
  <2> HIDE DEF u
  <2> QED BY <1>1, <2>1, Zenon DEF AllBytes
<1>5. u = [k \in 0..n |-> BytesNext(u, k)] BY <1>2, BytesExist, Zenon
<1> HIDE DEF u
<1>6. \A k \in 0..n : u[k] = BytesNext(u, k) BY <1>5, Zenon
<1>7. u[0] = <<>>
  <2>1. 0 \in 0..n BY <1>2
  <2> QED BY <1>6, <2>1, Zenon DEF BytesNext
<1>8. ASSUME NEW k \in 1..n PROVE u[k] = u[k - 1] \o Raws[k]
  <2>1. k \in 0..n /\ k # 0 BY <1>2
  <2> QED BY <1>3, <1>6, <2>1, Zenon DEF BytesNext
<1> DEFINE P(k) == /\ u[k] \in Seq(Byte)
                   /\ \A i \in 1..k : /\ Len(u[i - 1]) \in Nat
                                   /\ Embedded(Raws[i], u[k], Len(u[i - 1]))
           Bad == {k \in 0..n : ~P(k)}
<1>9. ASSUME NEW k \in 0..n, k # 0, P(k - 1)
      PROVE  P(k) /\ Len(u[k]) = Len(u[k - 1]) + Len(Raws[k])
  <2>1. PICK j : j = k - 1 OBVIOUS
  <2>2. k \in 1..n /\ j \in 0..n /\ j + 1 = k BY <1>2, <1>9, <2>1
  <2>3. PICK s : s = u[j] OBVIOUS
  <2>4. PICK t : t = Raws[k] OBVIOUS
  <2>5. PICK v : v = u[k] OBVIOUS
  <2>6. /\ s \in Seq(Byte)
        /\ \A i \in 1..j : Len(u[i - 1]) \in Nat /\ Embedded(Raws[i], s, Len(u[i - 1]))
    BY <1>9, <2>1, <2>3, Zenon
  <2>7. t \in Seq(Byte) BY <1>2, <1>3, <2>2, <2>4
  <2>8. v = s \o t BY <1>8, <2>1, <2>2, <2>3, <2>4, <2>5, Zenon
  <2>9. /\ v \in Seq(Byte) /\ Len(v) = Len(s) + Len(t)
        /\ Embedded(s, v, 0) /\ Embedded(t, v, Len(s))
    BY <2>6, <2>7, <2>8, ConcatEmbeds
  <2>10. ASSUME NEW i \in 1..k 
               PROVE  Len(u[i - 1]) \in Nat /\ Embedded(Raws[i], v, Len(u[i - 1]))
    <3>1. i \in 1..j \/ i = k BY <2>2
    <3>2. CASE i \in 1..j
      <4>1. PICK p : p = Len(u[i - 1]) OBVIOUS
      <4>2. Embedded(Raws[i], s, p) /\ p \in Nat BY <2>6, <3>2, <4>1, Zenon
      <4>4. Raws[i] \in Seq(Byte) BY <1>2, <1>3, <2>2, <3>2
      <4>5. Len(s) \in Nat /\ Len(v) \in Nat BY <2>6, <2>9, LenProperties
      <4>6. Embedded(Raws[i], v, 0 + p)
        BY <2>9, <4>2, <4>4, <4>5, EmbeddedDeeper
      <4>7. 0 + p = p BY <4>2
      <4> QED BY <4>1, <4>2, <4>6, <4>7, Zenon
    <3>3. CASE i = k
      <4>1. Len(s) \in Nat BY <2>6, LenProperties
      <4> QED BY <2>1, <2>3, <2>4, <2>9, <3>3, <4>1, Zenon
    <3> QED BY <3>1, <3>2, <3>3
  <2> QED BY <2>1, <2>3, <2>4, <2>5, <2>9, <2>10
<1>10. Bad = {}
  <2> SUFFICES ASSUME Bad # {} PROVE FALSE OBVIOUS
  <2>1. PICK m \in Bad : \A k \in Bad : m <= k
    <3>1. Bad \in SUBSET Nat OBVIOUS
    <3> HIDE DEF Bad
    <3> QED BY <3>1, LeastNat
  <2>2. m \in 0..n /\ ~P(m) BY Zenon
  <2>3. m # 0
    <3>1. u[0] \in Seq(Byte) BY <1>7
    <3>2. \A i \in 1..0 : FALSE OBVIOUS
    <3>3. P(0) BY <3>1, <3>2, Zenon
    <3> QED BY <2>2, <3>3, Zenon
  <2>4. m - 1 \in 0..n /\ ~(m <= m - 1) BY <1>2, <2>2, <2>3
  <2>5. P(m - 1) BY <2>1, <2>4, Zenon
  <2>6. P(m) BY <1>9, <2>2, <2>3, <2>5, Zenon
  <2> QED BY <2>2, <2>6
<1>11. \A k \in 0..n : P(k) BY <1>10, Zenon
<1>12. ASSUME NEW k \in 0..n, k # 0
       PROVE  Len(u[k]) = Len(u[k - 1]) + Len(Raws[k])
  <2>1. k - 1 \in 0..n BY <1>2, <1>12
  <2>2. P(k - 1) BY <1>11, <2>1, Zenon
  <2> QED BY <1>9, <1>12, <2>2, Zenon
<1>13. u[n] \in Seq(Byte)
  <2>1. n \in 0..n BY <1>2
  <2> QED BY <1>11, <2>1, Zenon
<1>14. \A i \in 1..n : Embedded(Raws[i], u[n], Len(u[i - 1]))
  <2>1. n \in 0..n BY <1>2
  <2> QED BY <1>11, <2>1, Zenon
<1>15. \A k \in 0..n : u[k] \in Seq(Byte) BY <1>11, Zenon
<1> HIDE DEF P, Bad
<1>16. PICK off : off = [k \in 0..n |-> Len(u[k])] OBVIOUS
<1>17. off \in [0..n -> Nat]
  <2>1. \A k \in 0..n : Len(u[k]) \in Nat BY <1>15, LenProperties
  <2> QED BY <1>16, <2>1, Zenon
<1>18. \A k \in 0..n : off[k] = Len(u[k]) BY <1>16, Zenon
<1>19. off[0] = 0 /\ off[n] = Len(u[n])
  <2>1. 0 \in 0..n /\ n \in 0..n BY <1>2
  <2>2. Len(<<>>) = 0 OBVIOUS
  <2> QED BY <1>7, <1>18, <2>1, <2>2, Zenon
<1>20. ASSUME NEW i \in 1..n
       PROVE  /\ off[i] = off[i - 1] + Len(Raws[i])
              /\ Embedded(Raws[i], u[n], off[i - 1])
              /\ Whole(Raws[i]) \/ (i = n /\ Cut(Raws[i]))
  <2>1. i \in 0..n /\ i # 0 /\ i - 1 \in 0..n BY <1>2
  <2>2. off[i] = Len(u[i]) /\ off[i - 1] = Len(u[i - 1]) BY <1>18, <2>1, Zenon
  <2>3. off[i] = off[i - 1] + Len(Raws[i]) BY <1>12, <2>1, <2>2, Zenon
  <2>4. Embedded(Raws[i], u[n], off[i - 1]) BY <1>14, <2>2, Zenon
  <2>5. Whole(Raws[i]) \/ (i = n /\ Cut(Raws[i])) BY <1>2, <1>3, Zenon
  <2> QED BY <2>3, <2>4, <2>5
<1>21. JoinOf(Raws, off, AllBytes)
  BY <1>3, <1>4, <1>13, <1>17, <1>19, <1>20, Zenon DEF JoinOf
<1> QED BY <1>1, <1>3, <1>21

\* The same frames, one by one and all together.
LEMMA AllOrNothing ==
    SentShape => DatagramAllOrNothing
<1> SUFFICES ASSUME SentShape PROVE DatagramAllOrNothing OBVIOUS
<1>1. PICK n : n = Len(sent) OBVIOUS
<1>2. /\ n \in Nat
      /\ \A i \in 1..n : /\ sent[i].raw \in Seq(Byte)
                         /\ Whole(sent[i].raw) \/ Cut(sent[i].raw)
  <2>1. sent \in Seq(Entry) BY DEF SentShape
  <2>2. n \in Nat BY <1>1, <2>1, LenProperties
  <2>3. \A i \in 1..n : sent[i] \in Entry BY <1>1, <2>1, ElementOfSeq
  <2>4. \A i \in 1..n : sent[i].raw \in Seq(Byte) BY <2>3 DEF Entry
  <2> QED BY <1>1, <2>2, <2>4, Zenon DEF SentShape
<1>3. PICK off : Len(Raws) = n /\ JoinOf(Raws, off, AllBytes)
  BY <1>1, AllBytesJoined
<1>4. \A i \in 1..n : Raws[i] = sent[i].raw BY <1>1, Zenon DEF Raws
<1>5. ParseUdp(Datagram(0, n, AllBytes)) =
        IF \A i \in 1..n : Good(Raws[i])
        THEN Some([i \in 1..n |-> FrameOf(Raws[i])], 5 + off[n])
        ELSE None
  BY <1>3, ParseUdpFrames
<1>6. ASSUME NEW i \in 1..n
      PROVE  /\ AsDatagram(i).ok <=> Good(Raws[i])
             /\ Good(Raws[i]) => AsDatagram(i).frames[1] = FrameOf(Raws[i])
  <2>1. PICK raw : raw = sent[i].raw OBVIOUS
  <2>2. raw \in Seq(Byte) /\ (Whole(raw) \/ Cut(raw)) BY <1>2, <2>1, Zenon
  <2>3. AsDatagram(i) =
          IF Good(raw) THEN Some(<<FrameOf(raw)>>, 5 + Len(raw)) ELSE None
    BY <2>1, <2>2, ParseUdpOne, Zenon DEF AsDatagram
  <2>4. raw = Raws[i] BY <1>4, <2>1
  <2>5. Good(raw) => AsDatagram(i).ok = TRUE
                     /\ AsDatagram(i).frames[1] = FrameOf(raw)
    BY <2>3 DEF Some
  <2>6. ~Good(raw) => AsDatagram(i).ok = FALSE BY <2>3 DEF None
  <2> QED BY <2>4, <2>5, <2>6
<1> DEFINE all == ParseUdp(Datagram(0, n, AllBytes))
<1>7. CASE \A i \in 1..n : Good(Raws[i])
  <2>1. all.frames = [i \in 1..n |-> FrameOf(Raws[i])]
    <3>1. PICK fs : fs = [i \in 1..n |-> FrameOf(Raws[i])] OBVIOUS
    <3>2. all = Some(fs, 5 + off[n]) BY <1>5, <1>7, <3>1, Zenon
    <3>3. Some(fs, 5 + off[n]).frames = fs BY DEF Some
    <3> QED BY <3>1, <3>2, <3>3, Zenon
  <2>2. [i \in 1..n |-> FrameOf(Raws[i])]
          = [i \in 1..n |-> AsDatagram(i).frames[1]]
    BY <1>6, <1>7, Zenon
  <2>3. \A i \in 1..n : AsDatagram(i).ok BY <1>6, <1>7
  <2> QED BY <1>1, <2>1, <2>2, <2>3, Zenon DEF DatagramAllOrNothing
<1>8. CASE ~(\A i \in 1..n : Good(Raws[i]))
  <2>1. all.ok = FALSE BY <1>5, <1>8 DEF None
  <2>2. ~(\A i \in 1..n : AsDatagram(i).ok) BY <1>6, <1>8
  <2> QED BY <1>1, <2>1, <2>2, Zenon DEF DatagramAllOrNothing
<1> QED BY <1>7, <1>8

LEMMA SendShape ==
    ASSUME SentShape, NEW raw \in Seq(Byte), raw # <<>>, NEW call \in Calls,
           Written([raw |-> raw, call |-> call]), Send(raw, call),
           Whole(raw) \/ (~peerOpen' /\ Cut(raw))
    PROVE  SentShape'
<1>1. PICK e : e = [raw |-> raw, call |-> call] OBVIOUS
<1>2. e \in Entry /\ e.raw = raw BY <1>1 DEF Entry
<1>3. PICK n : n = Len(sent) OBVIOUS
<1>4. /\ sent \in Seq(Entry)
      /\ \A i \in 1..n : sent[i].raw # <<>> /\ Written(sent[i])
      /\ \A i \in 1..n : Whole(sent[i].raw)
  BY <1>3 DEF SentShape, Send
<1>5. sent' = Append(sent, e) BY <1>1 DEF Send
<1>6. /\ sent' \in Seq(Entry) /\ Len(sent') = n + 1 /\ sent'[n + 1] = e
      /\ \A i \in 1..n : sent'[i] = sent[i]
  BY <1>2, <1>3, <1>4, <1>5, AppendProperties
<1>7. n \in Nat BY <1>3, <1>4, LenProperties
<1>8. ASSUME NEW i \in 1..Len(sent')
      PROVE  /\ sent'[i].raw # <<>>
             /\ Written(sent'[i])
             /\ \/ Whole(sent'[i].raw)
                \/ i = Len(sent') /\ ~peerOpen' /\ Cut(sent'[i].raw)
  <2>1. i \in 1..n \/ i = n + 1 BY <1>6, <1>7
  <2>2. CASE i \in 1..n BY <1>4, <1>6, <2>2
  <2>3. CASE i = n + 1 BY <1>1, <1>2, <1>6, <2>3
  <2> QED BY <2>1, <2>2, <2>3
<1> QED BY <1>6, <1>8, Zenon DEF SentShape

LEMMA WholeNonEmpty ==
    ASSUME NEW raw \in Seq(Byte), Whole(raw)
    PROVE  raw # <<>>
  BY DEF Whole

LEMMA SentStep == SentShape /\ [Next]_vars => SentShape'
<1> SUFFICES ASSUME SentShape, [Next]_vars PROVE SentShape' OBVIOUS
<1>1. PeerCall \in Calls BY DEF Calls
<1>2. ASSUME NEW id \in Ids, NEW dlc \in Dlcs, NEW flag \in Flags,
             NEW msg \in Msgs, CanWrite(id, dlc, flag, msg)
      PROVE  SentShape'
  <2>1. PICK raw : raw = EncodeFrame(WriteFrame(id, dlc, flag, msg)) OBVIOUS
  <2>2. PICK call : call = [by |-> "canWrite", id |-> id, dlc |-> dlc,
                            flag |-> flag, msg |-> msg]
    OBVIOUS
  <2>3. raw \in Seq(Byte) /\ Whole(raw)
    <3>1. WriteFrame(id, dlc, flag, msg) \in Frame BY WriteFrameType
    <3> QED BY <2>1, <3>1, EncodeWhole
  <2>4. call \in Calls BY <2>2 DEF Calls
  <2>5. Written([raw |-> raw, call |-> call]) BY <2>1, <2>2 DEF Written
  <2>6. Send(raw, call) BY <1>2, <2>1, <2>2, Zenon DEF CanWrite
  <2> QED BY <2>3, <2>4, <2>5, <2>6, SendShape, WholeNonEmpty
<1>3. ASSUME NEW c \in PeerIds, NEW len \in PeerLens, PeerSends(c, len)
      PROVE  SentShape'
  <2>1. PICK raw : raw = PeerBytes(c, len) OBVIOUS
  <2>2. raw \in Seq(Byte) /\ Whole(raw) BY <2>1, PeerBytesType, PeerWhole
  <2>3. Written([raw |-> raw, call |-> PeerCall]) BY DEF Written
  <2>4. Send(raw, PeerCall) BY <1>3, <2>1, Zenon DEF PeerSends
  <2> QED BY <1>1, <2>2, <2>3, <2>4, SendShape, WholeNonEmpty
<1>4. ASSUME NEW c \in PeerIds, NEW len \in PeerLens, NEW n \in 0..7,
             PeerBreaksOff(c, len, n)
      PROVE  SentShape'
  <2>1. PICK whole : whole = PeerBytes(c, len) OBVIOUS
  <2>2. whole \in Seq(Byte) /\ Whole(whole) BY <2>1, PeerBytesType, PeerWhole
  <2>3. n < Len(whole) /\ ~peerOpen' BY <1>4, <2>1 DEF PeerBreaksOff
  <2>4. CASE n = 0
    <3>1. peerOpen /\ sent' = sent BY <1>4, <2>4 DEF PeerBreaksOff
    <3> QED BY <3>1 DEF SentShape
  <2>5. CASE n # 0
    <3>1. PICK piece : piece = SubSeq(whole, 1, n) OBVIOUS
    <3>2. piece \in Seq(Byte) /\ Len(piece) = n /\ Cut(piece)
      <4>1. n \in Nat OBVIOUS
      <4> QED BY <2>2, <2>3, <3>1, <4>1, CutPrefix
    <3>3. piece # <<>> BY <2>5, <3>2
    <3>4. Written([raw |-> piece, call |-> PeerCall]) BY DEF Written
    <3>5. Send(piece, PeerCall)
      BY <1>4, <2>1, <2>5, <3>1, Zenon DEF PeerBreaksOff
    <3> QED BY <1>1, <2>3, <3>2, <3>3, <3>4, <3>5, SendShape
  <2> QED BY <2>4, <2>5
<1>5. CASE RxEnd BY <1>5 DEF RxEnd, SentShape
<1>6. CASE RxChunk BY <1>6 DEF RxChunk, SentShape
<1>7. CASE CanRead BY <1>7 DEF CanRead, SentShape
<1>8. CASE UNCHANGED vars BY <1>8 DEF vars, SentShape
<1> QED BY <1>2, <1>3, <1>4, <1>5, <1>6, <1>7, <1>8 DEF Next

LEMMA SentInit == Init => SentShape
<1> SUFFICES ASSUME Init PROVE SentShape OBVIOUS
<1>1. sent = <<>> /\ Len(<<>>) = 0 BY DEF Init
<1> QED BY <1>1 DEF SentShape

\* Whatever frames a datagram carries, parse_udp delivers all of them, each as it
\* would come alone, or none.
THEOREM DatagramAllOrNothingCorrect == Spec => []DatagramAllOrNothing
  BY SentInit, SentStep, AllOrNothing, PTL DEF Spec

=============================================================================
