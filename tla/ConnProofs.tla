----------------------------- MODULE ConnProofs -----------------------------
(***************************************************************************)
(* Theorems about Conn for every number of threads, every call table, any  *)
(* number of frames and sends, and every modulus of the sequence numbers.  *)
(***************************************************************************)
EXTENDS Conn, TLAPS

-----------------------------------------------------------------------------
(* The inductive invariant. *)

Unit == [part : {"head", "tail"}, by : Threads] \cup [seq : Nat, ok : BOOLEAN]

\* What was sent is a sequence, and the ring holds no frame that has not come.
Shape ==
    /\ wire \in Seq(Unit)
    /\ level <= arrived

Failing == {"fail_running", "fail_shutdown"}

\* An unfinished frame belongs to the thread that holds the tx lock and is in
\* the middle of it, or the socket is, or is about to be, shut down.
Framing ==
    /\ \A t \in Threads : pc[t] \in {"half"} \cup Failing => proto = "tcp"
    /\ \A t \in Threads :
         pc[t] = "half" => /\ Len(wire) % 2 = 1
                           /\ wire[Len(wire)].by = t
    /\ proto = "tcp" /\ Len(wire) % 2 = 1 =>
         sock = "shut" \/ \E t \in Threads : pc[t] \in {"half"} \cup Failing

\* Under the tx lock, the next number is that of the next datagram.
Numbering == proto = "udp" => seq = Len(wire) % SeqMod

Losing == {"lost_negotiated", "lost_link", "lost_mark"}

\* running is clear exactly if somebody has cleared it; the receive loop goes
\* on to report a loss only if it was the one.
Stopping ==
    /\ running <=> stopper = "none"
    /\ linkLost \/ rx \in Losing => stopper = "rx"

\* A stopped connection looks ready only until the one who stopped it has
\* taken its next step; a failed write has given that up before it stops it; a
\* TCP receive loop ends only when stopped.
Readiness ==
    /\ \A t \in Threads : pc[t] = "fail_running" => ~negotiated
    /\ negotiated => \/ running
                     \/ rx = "lost_negotiated"
                     \/ \E t \in Threads : pc[t] = "close_negotiated"
    /\ proto = "tcp" /\ rx \in Losing \cup {"exited"} => ~running

\* One thread closes: canClose takes the handle out of the table first, so no
\* second call reaches the connection (CloseRemove, module HandleTable).
OneCloser ==
    \A t, u \in Threads : "close" \in Calls[t] \cap Calls[u] => t = u

\* The socket is shut before the RX thread is joined, and the thread is joined
\* before close returns.
Quiet ==
    /\ \A t \in Threads : pc[t] \in Closers => "close" \in Calls[t]
    /\ proto = "tcp" /\ (closeDone \/ \E t \in Threads :
                                         pc[t] \in {"close_take", "close_join"})
         => sock = "shut"
    /\ ~joinable => rx = "exited" \/ \E t \in Threads : pc[t] = "close_join"
    /\ closeDone => rx = "exited"

-----------------------------------------------------------------------------
(* Arithmetic of the sequence numbers. *)

LEMMA Bounds ==
    SeqMod \in Nat \ {0} /\ MaxSends \in Nat /\ MaxFrames \in Nat
  BY ConnAssumption DEF ConnAssumption

LEMMA Division ==
    ASSUME NEW n \in Nat, NEW m \in Nat \ {0}
    PROVE  /\ n \div m \in Nat
           /\ n % m \in 0..(m - 1)
           /\ n = m * (n \div m) + (n % m)
  OBVIOUS

\* Quotient and remainder are unique.
LEMMA DivisionUnique ==
    ASSUME NEW m \in Nat \ {0}, NEW q \in Nat, NEW p \in Nat,
           NEW r \in 0..(m - 1), NEW s \in 0..(m - 1), m * q + r = m * p + s
    PROVE  r = s
<1>1. ASSUME NEW a \in Nat, NEW b \in Nat, a > b PROVE m * a >= m * b + m
  <2>1. PICK d \in Nat : a = b + 1 + d
    BY <1>1
  <2>2. m * a = m * b + m + m * d /\ m * d \in Nat /\ m * b \in Nat
    BY <2>1
  <2>3. QED
    BY <2>2
<1>2. m * q \in Nat /\ m * p \in Nat
  OBVIOUS
<1>3. CASE q > p
  BY <1>1, <1>2, <1>3
<1>4. CASE p > q
  BY <1>1, <1>2, <1>4
<1>5. QED
  BY <1>3, <1>4

\* Counting modulo m is counting, modulo m.
LEMMA CountModulo ==
    ASSUME NEW n \in Nat, NEW m \in Nat \ {0}
    PROVE  ((n % m) + 1) % m = (n + 1) % m
<1> DEFINE q == n \div m
           p == (n + 1) \div m
<1>1. q \in Nat /\ n % m \in 0..(m - 1) /\ n = m * q + (n % m)
  BY Division
<1>2. p \in Nat /\ (n + 1) % m \in 0..(m - 1) /\ n + 1 = m * p + ((n + 1) % m)
  <2>1. n + 1 \in Nat
    OBVIOUS
  <2>2. QED
    BY <2>1, Division
<1> HIDE DEF q, p
<1>3. CASE (n % m) + 1 < m
  <2>1. (n % m) + 1 \in 0..(m - 1) /\ ((n % m) + 1) % m = (n % m) + 1
    BY <1>1, <1>3
  <2>2. m * q + ((n % m) + 1) = m * p + ((n + 1) % m)
    BY <1>1, <1>2
  <2>3. (n % m) + 1 = (n + 1) % m
    BY <1>1, <1>2, <2>1, <2>2, DivisionUnique
  <2>4. QED
    BY <2>1, <2>3
<1>4. CASE (n % m) + 1 = m
  <2>1. ((n % m) + 1) % m = 0
    BY <1>4
  <2>2. m * (q + 1) + 0 = m * p + ((n + 1) % m)
    BY <1>1, <1>2, <1>4
  <2>3. q + 1 \in Nat /\ 0 \in 0..(m - 1)
    BY <1>1
  <2>4. 0 = (n + 1) % m
    BY <1>2, <2>2, <2>3, DivisionUnique
  <2>5. QED
    BY <2>1, <2>4
<1>5. QED
  BY <1>1, <1>3, <1>4

-----------------------------------------------------------------------------
(* Type correctness, and who holds the tx lock. *)

LEMMA TypeInit == Init => TypeOK /\ Shape
<1> SUFFICES ASSUME Init PROVE TypeOK /\ Shape
  OBVIOUS
<1>1. TypeOK
  <2>1. \A t \in Threads : t # NoThread
    BY ConnAssumption DEF ConnAssumption
  <2>2. \A t \in Threads : pc[t] \in Sending <=> txLock = t
    BY <2>1 DEF Init, Sending
  <2>3. /\ level \in 0..MaxFrames /\ arrived \in 0..MaxFrames
        /\ seq \in 0..(SeqMod - 1)
    BY Bounds DEF Init
  <2>4. QED
    BY <2>2, <2>3 DEF Init, TypeOK
<1>2. Shape
  BY DEF Init, Shape
<1>3. QED
  BY <1>1, <1>2

\* The wire grows by one unit at a time, if it does.
LEMMA WireGrows ==
    ASSUME Shape, NEW u \in Unit, wire' = Append(wire, u)
    PROVE  /\ wire' \in Seq(Unit)
           /\ Len(wire) \in Nat /\ Len(wire') = Len(wire) + 1
           /\ \A i \in 1..Len(wire) : wire'[i] = wire[i]
           /\ wire'[Len(wire')] = u
  BY DEF Shape

LEMMA ShapeStep == TypeOK /\ Shape /\ [Next]_vars => Shape'
<1> SUFFICES ASSUME TypeOK, Shape, [Next]_vars PROVE Shape'
  OBVIOUS
<1>1. level \in Nat /\ arrived \in Nat
  BY Bounds DEF TypeOK
<1>2. ASSUME NEW t \in Threads, NEW ok \in BOOLEAN, WriteDatagram(t, ok)
      PROVE  Shape'
  <2>1. [seq |-> seq, ok |-> ok] \in Unit
    BY Bounds DEF TypeOK, Unit
  <2>2. QED
    BY <1>2, <2>1, WireGrows DEF WriteDatagram, rxVars, Shape
<1>3. ASSUME NEW t \in Threads, WriteHead(t) \/ WriteTail(t) PROVE Shape'
  <2>1. \A part \in {"head", "tail"} : [part |-> part, by |-> t] \in Unit
    BY DEF Unit
  <2>2. QED
    BY <1>3, <2>1, WireGrows DEF WriteHead, WriteTail, rxVars, Shape
<1>4. ASSUME NEW t \in Threads, ReadReturn(t) PROVE Shape'
  BY <1>1, <1>4 DEF ReadReturn, txVars, Shape
<1>5. CASE RxFrame
  BY <1>1, <1>5 DEF RxFrame, txVars, Shape
<1>6. CASE UNCHANGED <<wire, level, arrived>>
  BY <1>6 DEF Shape
<1>7. QED
  BY <1>2, <1>3, <1>4, <1>5, <1>6
  DEF Next, Writing, Closing, RxThread, WriteReady, WriteLock, WriteFail,
      WriteFailRunning, WriteFailShutdown, ReadWait, CloseRunning,
      CloseNegotiated, CloseMark, CloseShutdown, CloseTake, CloseJoin, RxCheck,
      RxFail, RxTimeout, RxError, RxSwap, RxLostNegotiated, RxLostLink,
      RxLostMark, PeerGone, txVars, rxVars, vars

Places == {"idle", "tx_wait", "reading"} \cup Sending \cup Closers

\* A thread that goes from one place outside the tx lock to another.
LEMMA MoveType ==
    ASSUME TypeOK, NEW t \in Threads, NEW l \in Places, Goto(t, l),
           l \in Sending <=> pc[t] \in Sending, txLock' = txLock
    PROVE  /\ pc' \in [Threads -> Places]
           /\ txLock' \in Threads \cup {NoThread}
           /\ \A u \in Threads : pc'[u] \in Sending <=> txLock' = u
  BY DEF TypeOK, Goto, Places

\* A thread that takes or releases the tx lock.
LEMMA LockType ==
    ASSUME TypeOK, NEW t \in Threads, NEW l \in Places, Goto(t, l),
           \/ txLock = NoThread /\ txLock' = t /\ l \in Sending
           \/ txLock = t /\ txLock' = NoThread /\ l \notin Sending
    PROVE  /\ pc' \in [Threads -> Places]
           /\ txLock' \in Threads \cup {NoThread}
           /\ \A u \in Threads : pc'[u] \in Sending <=> txLock' = u
<1>1. NoThread \notin Threads
  BY ConnAssumption DEF ConnAssumption
<1>2. QED
  BY <1>1 DEF TypeOK, Goto, Places

LEMMA ClearRunningType ==
    ASSUME TypeOK, NEW who \in {"write", "close", "rx"}, ClearRunning(who)
    PROVE  running' \in BOOLEAN /\ stopper' \in {"none", "write", "close", "rx"}
  BY DEF ClearRunning, TypeOK

LEMMA TypeStep == TypeOK /\ Shape /\ [Next]_vars => TypeOK'
<1> SUFFICES ASSUME TypeOK, Shape, [Next]_vars PROVE TypeOK'
  OBVIOUS
<1> USE DEF Places, Sending, Closers
<1>1. ASSUME NEW t \in Threads, WriteReady(t) \/ ReadWait(t) PROVE TypeOK'
  BY <1>1, MoveType DEF WriteReady, ReadWait, TypeOK, flagVars, txVars, rxVars,
                        lifeVars
<1>2. ASSUME NEW t \in Threads, WriteLock(t) PROVE TypeOK'
  BY <1>2, LockType DEF WriteLock, TypeOK, flagVars, rxVars, lifeVars
<1>3. ASSUME NEW t \in Threads, NEW ok \in BOOLEAN, WriteDatagram(t, ok)
      PROVE  TypeOK'
  <2>1. (seq + 1) % SeqMod \in 0..(SeqMod - 1)
    <3>1. seq + 1 \in Nat
      BY Bounds DEF TypeOK
    <3>2. QED
      BY <3>1, Bounds, Division
  <2>2. txLock = t
    BY <1>3 DEF WriteDatagram, TypeOK
  <2>3. QED
    BY <1>3, <2>1, <2>2, LockType
    DEF WriteDatagram, TypeOK, flagVars, rxVars, lifeVars
<1>4. ASSUME NEW t \in Threads,
             \/ WriteHead(t) \/ WriteFail(t) \/ WriteFailRunning(t)
             \/ Closing(t)
      PROVE  TypeOK'
  <2>1. \E l \in Places : /\ Goto(t, l)
                          /\ l \in Sending <=> pc[t] \in Sending
    BY <1>4 DEF WriteHead, WriteFail, WriteFailRunning, Closing, CloseRunning,
       CloseNegotiated, CloseMark, CloseShutdown, CloseTake, CloseJoin
  <2>2. txLock' = txLock
    BY <1>4 DEF WriteHead, WriteFail, WriteFailRunning, Closing, CloseRunning,
       CloseNegotiated, CloseMark, CloseShutdown, CloseTake, CloseJoin, txVars
  <2>3. /\ pc' \in [Threads -> Places]
        /\ txLock' \in Threads \cup {NoThread}
        /\ \A u \in Threads : pc'[u] \in Sending <=> txLock' = u
    BY <2>1, <2>2, MoveType, Zenon
  <2>4. running' \in BOOLEAN /\ stopper' \in {"none", "write", "close", "rx"}
    <3>1. \/ UNCHANGED <<running, stopper>>
          \/ ClearRunning("write") \/ ClearRunning("close")
      BY <1>4 DEF WriteHead, WriteFail, WriteFailRunning, Closing,
         CloseRunning, CloseNegotiated, CloseMark, CloseShutdown, CloseTake,
         CloseJoin, flagVars
    <3>2. QED
      BY <3>1, ClearRunningType DEF TypeOK
  <2>5. /\ UNCHANGED <<proto, level, arrived, peer, seq, rx, linkLost>>
        /\ negotiated' \in BOOLEAN /\ ringClosed' \in BOOLEAN
        /\ joinable' \in BOOLEAN /\ closeDone' \in BOOLEAN
        /\ sock' \in {"open", "shut"}
    BY <1>4 DEF WriteHead, WriteFail, WriteFailRunning, Closing, CloseRunning,
       CloseNegotiated, CloseMark, CloseShutdown, CloseTake, CloseJoin, TypeOK,
       flagVars, txVars, rxVars, lifeVars
  <2>6. QED
    BY <2>3, <2>4, <2>5 DEF TypeOK
<1>5. ASSUME NEW t \in Threads, WriteTail(t) \/ WriteFailShutdown(t)
      PROVE  TypeOK'
  <2>1. txLock = t
    BY <1>5 DEF WriteTail, WriteFailShutdown, TypeOK
  <2>2. QED
    BY <1>5, <2>1, LockType
    DEF WriteTail, WriteFailShutdown, TypeOK, flagVars, rxVars, lifeVars
<1>6. ASSUME NEW t \in Threads, ReadReturn(t) PROVE TypeOK'
  <2>1. level' \in 0..MaxFrames
    BY <1>6, Bounds DEF ReadReturn, TypeOK
  <2>2. QED
    BY <1>6, <2>1, MoveType DEF ReadReturn, TypeOK, flagVars, txVars, lifeVars
<1>7. CASE RxSwap
  <2>1. running' \in BOOLEAN /\ stopper' \in {"none", "write", "close", "rx"}
    BY <1>7, ClearRunningType DEF RxSwap
  <2>2. QED
    BY <1>7, <2>1 DEF RxSwap, TypeOK, txVars, lifeVars
<1>8. CASE RxFrame
  <2>1. level' \in 0..MaxFrames /\ arrived' \in 0..MaxFrames
    BY <1>8, Bounds DEF RxFrame, TypeOK, Shape
  <2>2. QED
    BY <1>8, <2>1 DEF RxFrame, TypeOK, flagVars, txVars, lifeVars
<1>9. CASE \/ RxCheck \/ RxFail \/ RxTimeout \/ RxError
           \/ RxLostNegotiated \/ RxLostLink \/ RxLostMark
  <2>1. rx' \in {"check", "recv", "swap", "lost_negotiated", "lost_link",
                 "lost_mark", "exited"}
    BY <1>9 DEF RxCheck, RxFail, RxTimeout, RxError, RxLostNegotiated,
                RxLostLink, RxLostMark
  <2>2. /\ UNCHANGED <<proto, running, level, arrived, sock, peer, txLock, seq,
                      joinable, closeDone, pc, stopper>>
        /\ negotiated' \in BOOLEAN /\ linkLost' \in BOOLEAN
        /\ ringClosed' \in BOOLEAN
    BY <1>9 DEF RxCheck, RxFail, RxTimeout, RxError, RxLostNegotiated,
       RxLostLink, RxLostMark, TypeOK, flagVars, txVars, lifeVars
  <2>3. QED
    BY <2>1, <2>2 DEF TypeOK
<1>10. CASE PeerGone
  BY <1>10 DEF PeerGone, TypeOK, flagVars, txVars, rxVars, lifeVars
<1>11. CASE UNCHANGED vars
  BY <1>11 DEF vars, TypeOK
<1>12. QED
  BY <1>1, <1>2, <1>3, <1>4, <1>5, <1>6, <1>7, <1>8, <1>9, <1>10, <1>11
  DEF Next, Writing, RxThread

\* The types hold in every reachable state; in particular at most one thread
\* is inside the part of write that the tx lock protects.
THEOREM ConnTypeCorrect == Spec => []TypeOK
  BY TypeInit, TypeStep, ShapeStep, PTL DEF Spec

-----------------------------------------------------------------------------
(* The TCP stream stays in frame. *)

Halfway == {"half"} \cup Failing

\* A step outside the tx lock, which may shut the socket down.
LEMMA FramingKept ==
    ASSUME TypeOK, Framing, UNCHANGED <<wire, proto>>,
           sock' = sock \/ sock' = "shut",
           \/ pc' = pc
           \/ \E t \in Threads : \E l \in Places \ Halfway :
                 Goto(t, l) /\ pc[t] \notin Halfway
    PROVE  Framing'
<1>1. \A u \in Threads : pc'[u] \in Halfway \/ pc[u] \in Halfway
                           => pc'[u] = pc[u]
  BY DEF Goto, TypeOK, Places
<1>2. QED
  BY <1>1 DEF Framing, Halfway

LEMMA FramingStep == TypeOK /\ Shape /\ Framing /\ [Next]_vars => Framing'
<1> SUFFICES ASSUME TypeOK, Shape, Framing, [Next]_vars PROVE Framing'
  OBVIOUS
<1>0. /\ pc \in [Threads -> Places]
      /\ \A t, u \in Threads : pc[t] \in Sending /\ pc[u] \in Sending => t = u
      /\ Len(wire) \in Nat
  BY DEF TypeOK, Places, Shape
<1>1. ASSUME NEW t \in Threads, WriteHead(t) PROVE Framing'
  <2>1. /\ pc[t] = "sending" /\ proto = "tcp" /\ sock = "open"
        /\ proto' = "tcp" /\ sock' = "open"
        /\ pc' = [pc EXCEPT ![t] = "half"]
    BY <1>1 DEF WriteHead, Goto, lifeVars
  <2>2. \A u \in Threads : u # t => pc[u] \notin Halfway
    BY <1>0, <2>1 DEF Halfway, Failing, Sending
  <2>3. Len(wire) % 2 # 1
    BY <2>1, <2>2 DEF Framing, Halfway, Failing
  <2>4. Len(wire') = Len(wire) + 1 /\ wire'[Len(wire')].by = t
    <3>1. [part |-> "head", by |-> t] \in Unit
      BY DEF Unit
    <3>2. QED
      BY <1>1, <3>1, WireGrows DEF WriteHead
  <2>5. Len(wire') % 2 = 1
    BY <1>0, <2>3, <2>4
  <2>6. pc'[t] = "half" /\ \A u \in Threads : u # t => pc'[u] \notin Halfway
    BY <1>0, <2>1, <2>2
  <2>7. QED
    BY <2>1, <2>4, <2>5, <2>6 DEF Framing, Halfway, Failing
<1>2. ASSUME NEW t \in Threads, WriteTail(t) PROVE Framing'
  <2>1. /\ pc[t] = "half" /\ proto' = proto
        /\ pc' = [pc EXCEPT ![t] = "idle"]
    BY <1>2 DEF WriteTail, Goto, lifeVars
  <2>2. \A u \in Threads : pc'[u] \notin Halfway
    BY <1>0, <2>1 DEF Halfway, Failing, Sending
  <2>3. Len(wire') = Len(wire) + 1
    <3>1. [part |-> "tail", by |-> t] \in Unit
      BY DEF Unit
    <3>2. QED
      BY <1>2, <3>1, WireGrows DEF WriteTail
  <2>4. Len(wire') % 2 # 1
    BY <1>0, <2>1, <2>3 DEF Framing
  <2>5. QED
    BY <2>2, <2>4 DEF Framing, Halfway
<1>3. ASSUME NEW t \in Threads, WriteFail(t) \/ WriteFailRunning(t)
      PROVE  Framing'
  <2>1. /\ pc[t] \in Sending /\ proto = "tcp" /\ UNCHANGED <<wire, proto, sock>>
        /\ pc' = [pc EXCEPT ![t] = pc'[t]] /\ pc'[t] \in Failing
    BY <1>0, <1>3 DEF WriteFail, WriteFailRunning, Goto, lifeVars, txVars,
                      Sending, Failing, Framing
  <2>2. \A u \in Threads : u # t => pc[u] \notin Halfway /\ pc'[u] = pc[u]
    BY <1>0, <2>1 DEF Halfway, Failing, Sending
  <2>3. QED
    BY <2>1, <2>2 DEF Framing, Halfway, Failing
<1>4. ASSUME NEW t \in Threads, WriteFailShutdown(t) PROVE Framing'
  <2>1. /\ pc[t] \in Sending /\ UNCHANGED <<wire, proto>> /\ sock' = "shut"
        /\ pc' = [pc EXCEPT ![t] = "idle"]
    BY <1>4 DEF WriteFailShutdown, Goto, lifeVars, Sending
  <2>2. \A u \in Threads : pc'[u] \notin Halfway
    BY <1>0, <2>1 DEF Halfway, Failing, Sending
  <2>3. QED
    BY <2>1, <2>2 DEF Framing, Halfway
<1>5. ASSUME NEW t \in Threads, NEW ok \in BOOLEAN, WriteDatagram(t, ok)
      PROVE  Framing'
  <2>1. /\ proto = "udp" /\ proto' = proto /\ pc' = [pc EXCEPT ![t] = "idle"]
    BY <1>5 DEF WriteDatagram, Goto, lifeVars
  <2>2. \A u \in Threads : pc'[u] \notin Halfway
    BY <1>0, <2>1 DEF Framing, Halfway, Failing
  <2>3. QED
    BY <2>1, <2>2 DEF Framing, Halfway
<1>6. ASSUME NEW t \in Threads,
             \/ WriteReady(t) \/ WriteLock(t) \/ ReadWait(t) \/ ReadReturn(t)
             \/ Closing(t)
      PROVE  Framing'
  <2>1. UNCHANGED <<wire, proto>> /\ (sock' = sock \/ sock' = "shut")
    BY <1>6 DEF WriteReady, WriteLock, ReadWait, ReadReturn, Closing,
       CloseRunning, CloseNegotiated, CloseMark, CloseShutdown, CloseTake,
       CloseJoin, txVars, lifeVars
  <2>2. \E l \in Places \ Halfway : Goto(t, l) /\ pc[t] \notin Halfway
    BY <1>6 DEF WriteReady, WriteLock, ReadWait, ReadReturn, Closing,
       CloseRunning, CloseNegotiated, CloseMark, CloseShutdown, CloseTake,
       CloseJoin, Places, Sending, Closers, Halfway, Failing
  <2>3. QED
    BY <2>1, <2>2, FramingKept
<1>7. CASE RxThread \/ PeerGone \/ UNCHANGED vars
  <2>1. UNCHANGED <<wire, proto, sock, pc>>
    BY <1>7 DEF RxThread, RxCheck, RxFrame, RxFail, RxTimeout, RxError, RxSwap,
       RxLostNegotiated, RxLostLink, RxLostMark, PeerGone, txVars, lifeVars,
       vars
  <2>2. QED
    BY <2>1, FramingKept
<1>8. QED
  BY <1>1, <1>2, <1>3, <1>4, <1>5, <1>6, <1>7 DEF Next, Writing

\* What a step may do to the wire, the protocol and the next number.
LEMMA WireStep ==
    ASSUME [Next]_vars
    PROVE  \/ UNCHANGED <<wire, seq, proto>>
           \/ \E t \in Threads : WriteHead(t) \/ WriteTail(t)
           \/ \E t \in Threads, ok \in BOOLEAN : WriteDatagram(t, ok)
  BY DEF Next, Writing, Closing, RxThread, WriteReady, WriteLock, WriteFail,
     WriteFailRunning, WriteFailShutdown, ReadWait, ReadReturn, CloseRunning,
     CloseNegotiated, CloseMark, CloseShutdown, CloseTake, CloseJoin, RxCheck,
     RxFrame, RxFail, RxTimeout, RxError, RxSwap, RxLostNegotiated, RxLostLink,
     RxLostMark, PeerGone, txVars, lifeVars, vars

LEMMA StreamStep ==
    TypeOK /\ Shape /\ Framing /\ StreamInFrame /\ [Next]_vars => StreamInFrame'
<1> SUFFICES ASSUME TypeOK, Shape, Framing, StreamInFrame, [Next]_vars,
                    proto' = "tcp", NEW i \in 1..Len(wire')
             PROVE  IF i % 2 = 1 THEN wire'[i].part = "head"
                    ELSE /\ wire'[i].part = "tail"
                         /\ wire'[i].by = wire'[i - 1].by
  BY DEF StreamInFrame
<1>1. CASE UNCHANGED <<wire, proto>>
  BY <1>1 DEF StreamInFrame
<1>2. ASSUME NEW t \in Threads, NEW u \in Unit, proto' = proto,
             wire' = Append(wire, u), i # Len(wire) + 1
      PROVE  IF i % 2 = 1 THEN wire'[i].part = "head"
             ELSE wire'[i].part = "tail" /\ wire'[i].by = wire'[i - 1].by
  <2>1. i \in 1..Len(wire) /\ wire'[i] = wire[i] /\ Len(wire) \in Nat
    BY <1>2, WireGrows
  <2>2. i % 2 # 1 => i - 1 \in 1..Len(wire)
    BY <2>1
  <2>3. i % 2 # 1 => wire'[i - 1] = wire[i - 1]
    BY <1>2, <2>2, WireGrows
  <2>4. QED
    BY <1>2, <2>1, <2>3 DEF StreamInFrame
<1>3. ASSUME NEW t \in Threads, WriteHead(t) PROVE
             IF i % 2 = 1 THEN wire'[i].part = "head"
             ELSE wire'[i].part = "tail" /\ wire'[i].by = wire'[i - 1].by
  <2>1. /\ [part |-> "head", by |-> t] \in Unit /\ proto' = proto
        /\ wire' = Append(wire, [part |-> "head", by |-> t])
    BY <1>3 DEF WriteHead, Unit, lifeVars
  <2>2. CASE i = Len(wire) + 1
    <3>1. wire'[i].part = "head" /\ Len(wire) \in Nat
      BY <2>1, <2>2, WireGrows
    <3>2. Len(wire) % 2 # 1
      <4>1. \A u \in Threads : pc[u] \in Sending => u = t
        BY <1>3 DEF WriteHead, TypeOK, Sending
      <4>2. \A u \in Threads : pc[u] \notin {"half"} \cup Failing
        BY <1>3, <4>1 DEF WriteHead, Sending, Failing
      <4>3. QED
        BY <1>3, <4>2 DEF WriteHead, Framing
    <3>3. i % 2 = 1
      BY <2>2, <3>1, <3>2
    <3>4. QED
      BY <3>1, <3>3
  <2>3. QED
    BY <1>2, <2>1, <2>2
<1>4. ASSUME NEW t \in Threads, WriteTail(t) PROVE
             IF i % 2 = 1 THEN wire'[i].part = "head"
             ELSE wire'[i].part = "tail" /\ wire'[i].by = wire'[i - 1].by
  <2>1. /\ [part |-> "tail", by |-> t] \in Unit /\ proto' = proto
        /\ wire' = Append(wire, [part |-> "tail", by |-> t])
        /\ Len(wire) % 2 = 1 /\ wire[Len(wire)].by = t
    BY <1>4 DEF WriteTail, Unit, Framing, lifeVars
  <2>2. CASE i = Len(wire) + 1
    <3>1. /\ wire'[i].part = "tail" /\ wire'[i].by = t /\ Len(wire) \in Nat
          /\ \A j \in 1..Len(wire) : wire'[j] = wire[j]
      BY <2>1, <2>2, WireGrows
    <3>2. i % 2 # 1 /\ i - 1 = Len(wire) /\ Len(wire) \in 1..Len(wire)
      BY <2>1, <2>2, <3>1
    <3>3. QED
      BY <2>1, <3>1, <3>2
  <2>3. QED
    BY <1>2, <2>1, <2>2
<1>5. ASSUME NEW t \in Threads, NEW ok \in BOOLEAN, WriteDatagram(t, ok)
      PROVE  FALSE
  BY <1>5 DEF WriteDatagram, lifeVars
<1>6. QED
  BY <1>1, <1>3, <1>4, <1>5, WireStep

\* However many threads write at once and wherever a send fails, the TCP stream
\* is a sequence of whole frames, but for one unfinished frame at its very end.
THEOREM StreamInFrameCorrect == Spec => []StreamInFrame
<1>1. Init => Framing /\ StreamInFrame
  BY DEF Init, Framing, StreamInFrame, Failing
<1>2. QED
  BY <1>1, TypeInit, TypeStep, ShapeStep, FramingStep, StreamStep, PTL DEF Spec

LEMMA NumberingStep ==
    TypeOK /\ Shape /\ Framing /\ Numbering /\ DatagramsNumbered /\ [Next]_vars
        => Numbering' /\ DatagramsNumbered'
<1> SUFFICES ASSUME TypeOK, Shape, Framing, Numbering, DatagramsNumbered,
                    [Next]_vars
             PROVE  Numbering' /\ DatagramsNumbered'
  OBVIOUS
<1>1. CASE UNCHANGED <<wire, seq, proto>>
  BY <1>1 DEF Numbering, DatagramsNumbered
<1>2. ASSUME NEW t \in Threads, WriteHead(t) \/ WriteTail(t)
      PROVE  Numbering' /\ DatagramsNumbered'
  <2>1. proto' # "udp"
    BY <1>2 DEF WriteHead, WriteTail, lifeVars, Framing
  <2>2. QED
    BY <2>1 DEF Numbering, DatagramsNumbered
<1>3. ASSUME NEW t \in Threads, NEW ok \in BOOLEAN, WriteDatagram(t, ok)
      PROVE  Numbering' /\ DatagramsNumbered'
  <2> DEFINE u == [seq |-> seq, ok |-> ok]
  <2>1. /\ proto = "udp" /\ proto' = "udp" /\ seq' = (seq + 1) % SeqMod
        /\ wire' = Append(wire, u)
    BY <1>3 DEF WriteDatagram, lifeVars
  <2>2. u \in Unit
    BY Bounds DEF TypeOK, Unit
  <2>3. u.seq = seq
    OBVIOUS
  <2> HIDE DEF u
  <2>4. /\ Len(wire) \in Nat /\ Len(wire') = Len(wire) + 1
        /\ \A i \in 1..Len(wire) : wire'[i] = wire[i]
        /\ wire'[Len(wire) + 1].seq = seq
    BY <2>1, <2>2, <2>3, WireGrows
  <2>5. seq = Len(wire) % SeqMod
    BY <2>1 DEF Numbering
  <2>6. seq' = Len(wire') % SeqMod
    BY <2>1, <2>4, <2>5, Bounds, CountModulo
  <2>7. ASSUME NEW i \in 1..Len(wire') PROVE wire'[i].seq = (i - 1) % SeqMod
    <3>1. CASE i \in 1..Len(wire)
      BY <2>1, <2>4, <3>1 DEF DatagramsNumbered
    <3>2. CASE i = Len(wire) + 1
      BY <2>4, <2>5, <3>2
    <3>3. QED
      BY <2>4, <3>1, <3>2
  <2>8. QED
    BY <2>6, <2>7 DEF Numbering, DatagramsNumbered
<1>4. QED
  BY <1>1, <1>2, <1>3, WireStep

\* Concurrent writers number their datagrams consecutively, whatever the
\* modulus and however many sends fail.
THEOREM DatagramsNumberedCorrect == Spec => []DatagramsNumbered
<1>1. Init => Framing /\ Numbering /\ DatagramsNumbered
  BY Bounds DEF Init, Framing, Failing, Numbering, DatagramsNumbered
<1>2. QED
  BY <1>1, TypeInit, TypeStep, ShapeStep, FramingStep, NumberingStep, PTL
  DEF Spec

-----------------------------------------------------------------------------
(* Who stopped the connection, and what it looks like afterwards. *)

LEMMA StoppingStep == TypeOK /\ Stopping /\ [Next]_vars => Stopping'
<1> SUFFICES ASSUME TypeOK, Stopping, [Next]_vars PROVE Stopping'
  OBVIOUS
<1>1. ASSUME NEW t \in Threads, WriteFailRunning(t) \/ CloseRunning(t)
      PROVE  Stopping'
  <2>1. UNCHANGED <<linkLost, rx>>
    BY <1>1 DEF WriteFailRunning, CloseRunning, rxVars
  <2>2. ~running' /\ stopper' # "none" /\ (stopper # "none" => stopper' = stopper)
    BY <1>1 DEF WriteFailRunning, CloseRunning, ClearRunning, Stopping
  <2>3. QED
    BY <2>1, <2>2 DEF Stopping
<1>2. CASE RxSwap
  BY <1>2 DEF RxSwap, ClearRunning, Stopping, Losing
<1>3. CASE \/ RxCheck \/ RxFrame \/ RxFail \/ RxTimeout \/ RxError
           \/ RxLostNegotiated \/ RxLostLink \/ RxLostMark
  BY <1>3 DEF RxCheck, RxFrame, RxFail, RxTimeout, RxError, RxLostNegotiated,
     RxLostLink, RxLostMark, flagVars, Stopping, Losing
<1>4. CASE UNCHANGED <<running, stopper, linkLost, rx>>
  BY <1>4 DEF Stopping
<1>5. QED
  BY <1>1, <1>2, <1>3, <1>4
  DEF Next, Writing, Closing, RxThread, WriteReady, WriteLock, WriteDatagram,
      WriteHead, WriteTail, WriteFail, WriteFailShutdown, ReadWait, ReadReturn,
      CloseNegotiated, CloseMark, CloseShutdown, CloseTake, CloseJoin, PeerGone,
      flagVars, rxVars, vars

\* Bus-off is shown only for a loss that the receive loop was first to notice,
\* never for one that a close or a failed write of this side has caused.
THEOREM LossIsUnsolicitedCorrect == Spec => []LossIsUnsolicited
<1>1. Init => Stopping
  BY DEF Init, Stopping, Losing
<1>2. Stopping => LossIsUnsolicited
  BY DEF Stopping, LossIsUnsolicited
<1>3. QED
  BY <1>1, <1>2, TypeInit, TypeStep, ShapeStep, StoppingStep, PTL DEF Spec

LEMMA ReadinessStep == TypeOK /\ Readiness /\ [Next]_vars => Readiness'
<1> SUFFICES ASSUME TypeOK, Readiness, [Next]_vars PROVE Readiness'
  OBVIOUS
<1>0. pc \in [Threads -> Places]
  BY DEF TypeOK, Places
<1>1. ASSUME NEW t \in Threads, WriteFail(t) \/ CloseNegotiated(t)
      PROVE  Readiness'
  <2>1. ~negotiated' /\ UNCHANGED <<proto, rx, running>>
    BY <1>1 DEF WriteFail, CloseNegotiated, rxVars, lifeVars
  <2>2. QED
    BY <2>1 DEF Readiness
<1>2. ASSUME NEW t \in Threads, CloseRunning(t) PROVE Readiness'
  <2>1. /\ pc'[t] = "close_negotiated" /\ ~running'
        /\ UNCHANGED <<proto, negotiated, rx>>
        /\ \A u \in Threads : u # t => pc'[u] = pc[u]
    BY <1>0, <1>2 DEF CloseRunning, ClearRunning, Goto, rxVars, lifeVars
  <2>2. QED
    BY <2>1 DEF Readiness
<1>3. ASSUME NEW t \in Threads, WriteFailRunning(t) PROVE Readiness'
  <2>1. UNCHANGED <<proto, negotiated, rx>> /\ ~running' /\ ~negotiated
    BY <1>3 DEF WriteFailRunning, ClearRunning, rxVars, lifeVars, Readiness
  <2>2. QED
    BY <2>1 DEF Readiness
<1>4. ASSUME NEW t \in Threads, NEW l \in Places, Goto(t, l),
             l # "fail_running", pc[t] # "close_negotiated",
             UNCHANGED <<proto, negotiated, running, rx>>
      PROVE  Readiness'
  <2>1. \A u \in Threads :
          /\ pc[u] = "close_negotiated" => pc'[u] = "close_negotiated"
          /\ pc'[u] = "fail_running" => pc[u] = "fail_running"
    BY <1>0, <1>4 DEF Goto
  <2>2. QED
    BY <1>4, <2>1 DEF Readiness
<1>5. ASSUME NEW t \in Threads,
             \/ WriteReady(t) \/ WriteLock(t)
             \/ \E ok \in BOOLEAN : WriteDatagram(t, ok)
             \/ WriteHead(t) \/ WriteTail(t) \/ WriteFailShutdown(t)
             \/ ReadWait(t) \/ ReadReturn(t)
             \/ CloseMark(t) \/ CloseShutdown(t) \/ CloseTake(t)
             \/ CloseJoin(t)
      PROVE  Readiness'
  <2>1. UNCHANGED <<proto, negotiated, running, rx>>
    BY <1>5 DEF WriteReady, WriteLock, WriteDatagram, WriteHead, WriteTail,
       WriteFailShutdown, ReadWait, ReadReturn, CloseMark, CloseShutdown,
       CloseTake, CloseJoin, flagVars, rxVars, lifeVars
  <2>2. pc[t] # "close_negotiated" /\ \E l \in Places \ {"fail_running"} :
                                         Goto(t, l)
    BY <1>5 DEF WriteReady, WriteLock, WriteDatagram, WriteHead, WriteTail,
       WriteFailShutdown, ReadWait, ReadReturn, CloseMark, CloseShutdown,
       CloseTake, CloseJoin, Places, Sending, Closers
  <2>3. QED
    BY <1>4, <2>1, <2>2
<1>6. CASE RxSwap
  <2>1. /\ ~running' /\ UNCHANGED <<proto, negotiated, pc>>
        /\ running => rx' = "lost_negotiated"
        /\ rx = "swap"
    BY <1>6 DEF RxSwap, ClearRunning, lifeVars
  <2>2. QED
    BY <2>1 DEF Readiness
<1>7. CASE RxLostNegotiated
  BY <1>7 DEF RxLostNegotiated, lifeVars, Readiness, Losing
<1>8. CASE \/ RxCheck \/ RxFrame \/ RxFail \/ RxTimeout \/ RxError
           \/ RxLostLink \/ RxLostMark
  <2>1. UNCHANGED <<proto, negotiated, running, pc>>
    BY <1>8 DEF RxCheck, RxFrame, RxFail, RxTimeout, RxError, RxLostLink,
       RxLostMark, flagVars, lifeVars
  <2>2. /\ rx # "lost_negotiated"
        /\ proto = "tcp" /\ rx' \in Losing \cup {"exited"} => rx \in Losing
    BY <1>8 DEF RxCheck, RxFrame, RxFail, RxTimeout, RxError, RxLostLink,
       RxLostMark, Losing
  <2>3. QED
    BY <2>1, <2>2 DEF Readiness
<1>9. CASE UNCHANGED <<proto, negotiated, running, rx, pc>>
  BY <1>9 DEF Readiness
<1>10. CASE PeerGone \/ UNCHANGED vars
  BY <1>9, <1>10 DEF PeerGone, flagVars, rxVars, lifeVars, vars
<1>11. QED
  BY <1>1, <1>2, <1>3, <1>5, <1>6, <1>7, <1>8, <1>10
  DEF Next, Writing, Closing, RxThread

\* When the receive loop of a TCP connection has ended, nobody is told that the
\* connection is ready, but for the one step a closing thread needs to say so.
THEOREM DeadLinkNotReadyCorrect == Spec => []DeadLinkNotReady
<1>1. Init => Readiness
  BY DEF Init, Readiness, Losing
<1>2. Readiness => DeadLinkNotReady
  BY DEF Readiness, DeadLinkNotReady, Losing
<1>3. QED
  BY <1>1, <1>2, TypeInit, TypeStep, ShapeStep, ReadinessStep, PTL DEF Spec

-----------------------------------------------------------------------------
(* What is left after close has returned. *)

\* A step outside close, which does not touch what close has done.
LEMMA QuietKept ==
    ASSUME TypeOK, Quiet, UNCHANGED <<proto, joinable, closeDone>>,
           sock' = sock \/ sock' = "shut", rx = "exited" => rx' = "exited",
           \/ pc' = pc
           \/ \E t \in Threads : \E l \in Places \ Closers :
                 Goto(t, l) /\ pc[t] \notin Closers
    PROVE  Quiet'
<1>1. \A u \in Threads : pc'[u] \in Closers \/ pc[u] \in Closers
                           => pc'[u] = pc[u]
  BY DEF Goto, TypeOK, Places
<1>2. \A u \in Threads : /\ pc'[u] \in {"close_take", "close_join"} <=>
                              pc[u] \in {"close_take", "close_join"}
                         /\ pc'[u] = "close_join" <=> pc[u] = "close_join"
  BY <1>1 DEF Closers
<1>3. QED
  BY <1>1, <1>2 DEF Quiet

LEMMA QuietStep ==
    ASSUME OneCloser, TypeOK, Quiet, [Next]_vars
    PROVE  Quiet'
<1>0. pc \in [Threads -> Places] /\ sock \in {"open", "shut"}
  BY DEF TypeOK, Places
<1>1. ASSUME NEW t \in Threads, Closing(t) PROVE Quiet'
  <2>1. "close" \in Calls[t]
    BY <1>1 DEF Closing, CloseRunning, CloseNegotiated, CloseMark,
       CloseShutdown, CloseTake, CloseJoin, Quiet, Closers
  <2>2. \A u \in Threads : u # t => pc[u] \notin Closers
    BY <2>1 DEF OneCloser, Quiet
  <2>3. /\ \E l \in Places : Goto(t, l)
        /\ UNCHANGED <<proto, rx>>
    BY <1>1 DEF Closing, CloseRunning, CloseNegotiated, CloseMark,
       CloseShutdown, CloseTake, CloseJoin, rxVars, lifeVars, Places, Closers
  <2>4. /\ \A u \in Threads : u # t => pc'[u] \notin Closers
        /\ \A u \in Threads : pc'[u] \in Closers => "close" \in Calls[u]
    BY <1>0, <2>1, <2>2, <2>3 DEF Goto
  <2>5. CASE CloseRunning(t) \/ CloseNegotiated(t) \/ CloseMark(t)
    <3>1. /\ pc'[t] \in {"close_negotiated", "close_mark", "close_shutdown"}
          /\ pc[t] \in {"idle", "close_negotiated", "close_mark"}
          /\ UNCHANGED <<sock, joinable, closeDone>>
      BY <1>0, <2>5 DEF CloseRunning, CloseNegotiated, CloseMark, Goto,
                        lifeVars
    <3>2. QED
      BY <2>2, <2>3, <2>4, <3>1 DEF Quiet, Closers
  <2>6. CASE CloseShutdown(t)
    <3>1. /\ pc'[t] = "close_take" /\ pc[t] = "close_shutdown"
          /\ UNCHANGED <<joinable, closeDone>>
          /\ proto = "tcp" => sock' = "shut"
      BY <1>0, <2>6 DEF CloseShutdown, Goto, lifeVars
    <3>2. QED
      BY <2>2, <2>3, <2>4, <3>1 DEF Quiet, Closers
  <2>7. CASE CloseTake(t)
    <3>1. /\ pc[t] = "close_take" /\ ~joinable' /\ UNCHANGED sock
          /\ pc'[t] = IF joinable THEN "close_join" ELSE "idle"
          /\ closeDone' = (closeDone \/ ~joinable)
      BY <1>0, <2>7 DEF CloseTake, Goto
    <3>2. ~joinable => rx = "exited"
      BY <2>2, <3>1 DEF Quiet, Closers
    <3>3. proto = "tcp" => sock' = "shut"
      BY <3>1 DEF Quiet
    <3>4. QED
      BY <2>3, <2>4, <3>1, <3>2, <3>3 DEF Quiet
  <2>8. CASE CloseJoin(t)
    <3>1. /\ pc[t] = "close_join" /\ rx = "exited" /\ UNCHANGED sock
      BY <2>8 DEF CloseJoin
    <3>2. proto = "tcp" => sock' = "shut"
      BY <3>1 DEF Quiet
    <3>3. QED
      BY <2>3, <2>4, <3>1, <3>2 DEF Quiet
  <2>9. QED
    BY <1>1, <2>5, <2>6, <2>7, <2>8 DEF Closing
<1>2. ASSUME NEW t \in Threads, Writing(t) \/ ReadWait(t) \/ ReadReturn(t)
      PROVE  Quiet'
  <2>1. /\ UNCHANGED <<proto, joinable, closeDone, rx>>
        /\ sock' = sock \/ sock' = "shut"
    BY <1>2 DEF Writing, WriteReady, WriteLock, WriteDatagram, WriteHead,
       WriteTail, WriteFail, WriteFailRunning, WriteFailShutdown, ReadWait,
       ReadReturn, rxVars, lifeVars
  <2>2. \E l \in Places \ Closers : Goto(t, l) /\ pc[t] \notin Closers
    BY <1>2 DEF Writing, WriteReady, WriteLock, WriteDatagram, WriteHead,
       WriteTail, WriteFail, WriteFailRunning, WriteFailShutdown, ReadWait,
       ReadReturn, Places, Closers, Sending
  <2>3. QED
    BY <2>1, <2>2, QuietKept
<1>3. CASE RxThread \/ PeerGone \/ UNCHANGED vars
  <2>1. /\ UNCHANGED <<proto, joinable, closeDone, sock, pc>>
        /\ rx = "exited" => rx' = "exited"
    BY <1>3 DEF RxThread, RxCheck, RxFrame, RxFail, RxTimeout, RxError, RxSwap,
       RxLostNegotiated, RxLostLink, RxLostMark, PeerGone, rxVars, lifeVars,
       vars
  <2>2. QED
    BY <2>1, QuietKept
<1>4. QED
  BY <1>1, <1>2, <1>3 DEF Next

\* When canClose has returned, the RX thread is gone, so that the status of the
\* link stands still, and a TCP socket is shut, so that not even a thread that
\* is still inside canWrite sends anything.
THEOREM QuietAfterCloseCorrect ==
    ASSUME OneCloser PROVE Spec => QuietAfterClose
<1>1. Init => Quiet
  BY DEF Init, Quiet, Closers
<1>2. TypeOK /\ Quiet /\ [Next]_vars => Quiet'
  BY QuietStep
<1>3. TypeOK /\ Quiet /\ [Next]_vars =>
        [closeDone => /\ linkLost' = linkLost
                      /\ proto = "tcp" => wire' = wire]_vars
  <2> SUFFICES ASSUME Quiet, [Next]_vars, closeDone
               PROVE  linkLost' = linkLost /\ (proto = "tcp" => wire' = wire)
    OBVIOUS
  <2>1. rx = "exited" /\ (proto = "tcp" => sock = "shut")
    BY DEF Quiet
  <2>2. linkLost' = linkLost
    BY <2>1 DEF Next, Writing, Closing, RxThread, WriteReady, WriteLock,
       WriteDatagram, WriteHead, WriteTail, WriteFail, WriteFailRunning,
       WriteFailShutdown, ReadWait, ReadReturn, CloseRunning, CloseNegotiated,
       CloseMark, CloseShutdown, CloseTake, CloseJoin, RxCheck, RxFrame, RxFail,
       RxTimeout, RxError, RxSwap, RxLostNegotiated, RxLostLink, RxLostMark,
       PeerGone, flagVars, vars
  <2>3. proto = "tcp" => wire' = wire
    BY <2>1, WireStep DEF WriteHead, WriteTail, WriteDatagram
  <2>4. QED
    BY <2>2, <2>3
<1>4. QED
  BY <1>1, <1>2, <1>3, TypeInit, TypeStep, ShapeStep, PTL
  DEF Spec, QuietAfterClose
=============================================================================
