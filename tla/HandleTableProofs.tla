------------------------- MODULE HandleTableProofs --------------------------
(***************************************************************************)
(* Theorems about HandleTable for every set of threads and call tables,    *)
(* every capacity of the ring and any number of channels.                  *)
(***************************************************************************)
EXTENDS HandleTable, TLAPS

-----------------------------------------------------------------------------
(* The inductive invariant. *)

ConnRec ==
    [hnd : Nat,
     rx : {"test", "receive", "callback", "swap", "latch", "mark", "done"},
     running : BOOLEAN, joinable : BOOLEAN, shut : BOOLEAN, closed : BOOLEAN,
     lost : BOOLEAN, level : Nat, overflow : BOOLEAN]

Answers == {NoReply} \cup UNION {Replies(b) : b \in BufSizes}

ApiRec ==
    [pc : Pcs, op : Ops \cup {"none"}, host : Nat, hnd : Nat, arc : Nat, ring : Nat,
     st : SUBSET {"RX_PENDING", "SW_OVERRUN", "BUS_OFF"}, reply : Answers]

\* Types, with indices that name connections; handles are those given out.
Shape ==
    /\ setup \in Setups
    /\ conns \in Seq(ConnRec)
    /\ api \in [Threads -> ApiRec]
    /\ \A t \in Threads : /\ api[t].arc <= Len(conns) /\ api[t].ring <= Len(conns)
                          /\ api[t].host <= Len(conns)
    /\ nextHandle \in Nat \ {0}
    /\ issued \subseteq 1..(nextHandle - 1)
    /\ \A h \in DOMAIN table : table[h] \in 1..Len(conns)

\* A number is given to one connection, and the table has it under its number.
Named ==
    /\ \A c \in 1..Len(conns) : conns[c].hnd < nextHandle
    /\ \A c, d \in 1..Len(conns) :
         conns[c].hnd # 0 /\ conns[c].hnd = conns[d].hnd => c = d
    /\ \A h \in DOMAIN table : h # 0 /\ conns[table[h]].hnd = h

CloserPcs == {"stop", "take", "join"}
OnRing == {"write", "read_wait", "read_sync", "status", "overflowed",
           "link_lost", "flush", "unlatch"}

\* What a call holds at each of its places: no channel before it has looked one
\* up, the new one while it opens, the one of its handle afterwards.  The one
\* that it is about to join has been told to stop, and the one on whose RX thread
\* it runs is inside its callback.
PlaceOf(t) ==
    LET a == api[t] IN
    /\ a.pc \in {"idle", "connect"} => a.arc = 0 /\ a.ring = 0
    /\ a.pc = "connect" => a.op = "open"
    /\ a.pc = "number" => /\ a.op = "open" /\ a.ring = 0 /\ a.arc # 0
                          /\ conns[a.arc].hnd = 0
    /\ a.pc \in {"table", "locked"} =>
         /\ a.op \in {"open", "close", "write", "read_wait", "read_sync",
                      "status", "flush"}
         /\ a.ring = 0
         /\ a.hnd \in 1..(nextHandle - 1)
         /\ IF a.op = "open" THEN a.arc # 0 /\ conns[a.arc].hnd = a.hnd
            ELSE a.arc = 0
    /\ a.pc \in OnRing => a.ring # 0
    /\ a.pc \in CloserPcs \cup {"write"} => a.arc # 0
    /\ a.pc = "take" => ~conns[a.arc].running
    /\ a.host # 0 => conns[a.host].rx = "callback"
    /\ a.ring # 0 => a.hnd # 0 /\ conns[a.ring].hnd = a.hnd

Places ==
    /\ \A t \in Threads : PlaceOf(t)
    /\ \A t, u \in Threads : api[t].pc = "number" /\ api[u].pc = "number" =>
                               t = u \/ api[t].arc # api[u].arc

\* Nobody has taken the JoinHandle, or its taker is still joining, or is done, or
\* was the RX thread itself.
Joining ==
    \A c \in 1..Len(conns) :
        \/ conns[c].joinable
        \/ conns[c].rx = "done"
        \/ Leaving(c)
        \/ \E t \in Threads : api[t].pc = "join" /\ api[t].arc = c

IInv == Shape /\ Named /\ Places /\ Joining /\ NoOrphan

-----------------------------------------------------------------------------
(* One call, one connection. *)

LEMMA IdleRec == Idle \in ApiRec
  BY DEF Idle, ApiRec, Pcs, Ops, Answers

LEMMA NewConnRec == NewConn \in ConnRec
  BY DEF NewConn, ConnRec

LEMMA ApiMoves ==
    ASSUME Shape, NEW t \in Threads, NEW r \in ApiRec,
           api' = [api EXCEPT ![t] = r]
    PROVE  /\ api' \in [Threads -> ApiRec]
           /\ api'[t] = r
           /\ \A u \in Threads : u # t => api'[u] = api[u]
  BY DEF Shape

LEMMA ConnMoves ==
    ASSUME Shape, NEW c \in 1..Len(conns), NEW r \in ConnRec,
           conns' = [conns EXCEPT ![c] = r]
    PROVE  /\ conns' \in Seq(ConnRec) /\ Len(conns') = Len(conns)
           /\ conns'[c] = r
           /\ \A d \in 1..Len(conns) : d # c => conns'[d] = conns[d]
  BY DEF Shape

LEMMA ConnOf ==
    ASSUME Shape, NEW c \in 1..Len(conns)
    PROVE  /\ conns[c] \in ConnRec /\ c \in DOMAIN conns
           /\ Len(conns) \in Nat /\ DOMAIN conns = 1..Len(conns)
  BY DEF Shape

\* What a step may do to the connections: it adds one at the end, and changes
\* those that there are so that a number stays, one that was told to stop is not
\* started again, an RX thread that has ended stays ended and one that is on its
\* way out goes on.
Onward ==
    /\ conns' \in Seq(ConnRec) /\ Len(conns) <= Len(conns')
    /\ \A c \in 1..Len(conns) :
         /\ conns[c].hnd # 0 => conns'[c].hnd = conns[c].hnd
         /\ conns'[c].running => conns[c].running
         /\ conns[c].rx = "done" => conns'[c].rx = "done"
         /\ Leaving(c) => Leaving(c)' \/ conns'[c].rx = "done"

\* Which connection a call of thread t changes, and how.
CallChange(t) ==
    \/ UNCHANGED conns
    \/ conns' = Append(conns, NewConn) /\ api[t].pc = "connect"
    \/ /\ api[t].pc = "number"
       /\ conns' = [conns EXCEPT ![api[t].arc].hnd = nextHandle]
    \/ /\ api[t].pc \in OnRing
       /\ \/ conns' = [conns EXCEPT ![api[t].ring].level = IF @ > 0 THEN @ - 1 ELSE 0]
          \/ conns' = [conns EXCEPT ![api[t].ring].level = 0]
          \/ conns' = [conns EXCEPT ![api[t].ring].overflow = FALSE]
    \/ /\ api[t].pc = "write"
       /\ conns' = [conns EXCEPT ![api[t].arc].running = FALSE, ![api[t].arc].shut = TRUE]
    \/ /\ api[t].pc = "stop"
       /\ conns' = [conns EXCEPT ![api[t].arc].running = FALSE, ![api[t].arc].shut = TRUE,
                                 ![api[t].arc].closed = TRUE]
    \/ /\ api[t].pc = "take"
       /\ conns' = [conns EXCEPT ![api[t].arc].joinable = FALSE]

\* What a step of thread t keeps: the RX threads, the numbers and the handles to
\* join of all connections but the one that it numbers or takes for joining.
Kept(t) ==
    /\ \A c \in 1..Len(conns') : c > Len(conns) => conns'[c] = NewConn
    /\ \A c \in 1..Len(conns) :
         /\ conns'[c].rx = conns[c].rx
         /\ conns'[c].hnd # conns[c].hnd => api[t].pc = "number" /\ api[t].arc = c
         /\ conns'[c].joinable # conns[c].joinable =>
              api[t].pc = "take" /\ api[t].arc = c

Calling(t) ==
    Open(t) \/ OpenConnected(t) \/ Call(t) \/ LockConns(t) \/ CallStep(t)
    \/ Write(t) \/ WriteFails(t) \/ Query(t)

RxThread(c) == RxStep(c) \/ RxFrame(c) \/ RxReturn(c) \/ RxError(c)

LEMMA CallChanges == ASSUME NEW t \in Threads, Calling(t) PROVE CallChange(t)
  BY DEF Calling, CallStep, CallChange, OnRing, Open, OpenConnected,
     OpenFails, OpenNumber, LockConns, OpenInsert, Call, Lookup, Leave, Write,
     WriteFails, ReadWait, ReadSync, Flush, FlushOverflow, Bit, StatusLevel, StatusOverrun,
     StatusLink, Query, CloseRemove, CloseStop, CloseTake, CloseJoin

LEMMA CallOnward ==
    ASSUME Shape, Places, NEW t \in Threads, CallChange(t)
    PROVE  Onward /\ Kept(t)
<1>0. /\ api[t] \in ApiRec /\ api[t].arc \in 0..Len(conns)
      /\ api[t].ring \in 0..Len(conns) /\ Len(conns) \in Nat
      /\ nextHandle \in Nat
  BY DEF Shape, ApiRec
<1>1. ASSUME NEW c \in 1..Len(conns), NEW r \in ConnRec,
             conns' = [conns EXCEPT ![c] = r],
             conns[c].hnd # 0 => r.hnd = conns[c].hnd,
             r.rx = conns[c].rx, r.running => conns[c].running,
             r.hnd # conns[c].hnd => api[t].pc = "number" /\ api[t].arc = c,
             r.joinable # conns[c].joinable => api[t].pc = "take" /\ api[t].arc = c
      PROVE  Onward /\ Kept(t)
  <2>1. /\ conns' \in Seq(ConnRec) /\ Len(conns') = Len(conns)
        /\ conns'[c] = r
        /\ \A d \in 1..Len(conns) : d # c => conns'[d] = conns[d]
    BY <1>1, ConnMoves
  <2>2. QED
    BY <1>0, <1>1, <2>1 DEF Onward, Leaving, Kept
<1>2. CASE UNCHANGED conns
  BY <1>0, <1>2 DEF Onward, Leaving, Shape, Kept
<1>3. CASE conns' = Append(conns, NewConn)
  <2>1. /\ conns' \in Seq(ConnRec) /\ Len(conns') = Len(conns) + 1
        /\ \A d \in 1..Len(conns) : conns'[d] = conns[d]
        /\ conns'[Len(conns) + 1] = NewConn
    BY <1>3, NewConnRec DEF Shape
  <2>2. QED
    BY <1>0, <2>1 DEF Onward, Leaving, Kept
<1>4. CASE /\ api[t].pc = "number"
           /\ conns' = [conns EXCEPT ![api[t].arc].hnd = nextHandle]
  <2> DEFINE c == api[t].arc
             r == [conns[c] EXCEPT !.hnd = nextHandle]
  <2>1. c \in 1..Len(conns) /\ conns[c].hnd = 0
    BY <1>0, <1>4 DEF Places, PlaceOf
  <2>2. conns[c] \in ConnRec
    BY <2>1, ConnOf
  <2>3. /\ r \in ConnRec /\ r.rx = conns[c].rx /\ r.running = conns[c].running
        /\ r.joinable = conns[c].joinable
    BY <1>0, <2>2 DEF ConnRec
  <2>4. conns' = [conns EXCEPT ![c] = r]
    BY <1>4
  <2>6. api[t].arc = c
    OBVIOUS
  <2> HIDE DEF c, r
  <2>5. QED
    BY <1>1, <1>4, <2>1, <2>3, <2>4, <2>6
<1>5. CASE api[t].pc \in OnRing /\
             \/ conns' = [conns EXCEPT ![api[t].ring].level = IF @ > 0 THEN @ - 1 ELSE 0]
             \/ conns' = [conns EXCEPT ![api[t].ring].level = 0]
             \/ conns' = [conns EXCEPT ![api[t].ring].overflow = FALSE]
  <2> DEFINE c == api[t].ring
  <2>1. c \in 1..Len(conns)
    BY <1>0, <1>5 DEF Places, PlaceOf
  <2>2. conns[c] \in ConnRec
    BY <2>1, ConnOf
  <2>3. ASSUME NEW v \in Nat,
               conns' = [conns EXCEPT ![c] = [conns[c] EXCEPT !.level = v]]
        PROVE  Onward /\ Kept(t)
    <3> DEFINE r == [conns[c] EXCEPT !.level = v]
    <3>1. r \in ConnRec
      BY <2>2 DEF ConnRec
    <3>2. /\ r.rx = conns[c].rx /\ r.hnd = conns[c].hnd
          /\ r.running = conns[c].running /\ r.joinable = conns[c].joinable
      BY <2>2 DEF ConnRec
    <3>3. conns' = [conns EXCEPT ![c] = r]
      BY <2>3
    <3> HIDE DEF c, r
    <3>4. QED
      BY <1>1, <2>1, <3>1, <3>2, <3>3
  <2>4. CASE conns' = [conns EXCEPT ![c] = [conns[c] EXCEPT !.overflow = FALSE]]
    <3> DEFINE r == [conns[c] EXCEPT !.overflow = FALSE]
    <3>1. r \in ConnRec
      BY <2>2 DEF ConnRec
    <3>2. /\ r.rx = conns[c].rx /\ r.hnd = conns[c].hnd
          /\ r.running = conns[c].running /\ r.joinable = conns[c].joinable
      BY <2>2 DEF ConnRec
    <3>3. conns' = [conns EXCEPT ![c] = r]
      BY <2>4
    <3> HIDE DEF c, r
    <3>4. QED
      BY <1>1, <2>1, <3>1, <3>2, <3>3
  <2>5. \/ conns' = [conns EXCEPT ![c] = [conns[c] EXCEPT !.level =
                       IF conns[c].level > 0 THEN conns[c].level - 1 ELSE 0]]
        \/ conns' = [conns EXCEPT ![c] = [conns[c] EXCEPT !.level = 0]]
        \/ conns' = [conns EXCEPT ![c] = [conns[c] EXCEPT !.overflow = FALSE]]
    BY <1>5
  <2>6. (IF conns[c].level > 0 THEN conns[c].level - 1 ELSE 0) \in Nat
    BY <2>2 DEF ConnRec
  <2> HIDE DEF c
  <2>7. QED
    BY <2>3, <2>4, <2>5, <2>6
<1>6. CASE api[t].pc \in {"write", "stop"} /\ \E closed \in BOOLEAN :
             conns' = [conns EXCEPT ![api[t].arc] =
                         [@ EXCEPT !.running = FALSE, !.shut = TRUE, !.closed = closed]]
  <2> DEFINE c == api[t].arc
  <2>1. c \in 1..Len(conns)
    BY <1>0, <1>6 DEF Places, PlaceOf, CloserPcs
  <2>2. conns[c] \in ConnRec
    BY <2>1, ConnOf
  <2>3. PICK b \in BOOLEAN :
          conns' = [conns EXCEPT ![c] =
                      [conns[c] EXCEPT !.running = FALSE, !.shut = TRUE, !.closed = b]]
    BY <1>6
  <2> DEFINE r == [conns[c] EXCEPT !.running = FALSE, !.shut = TRUE, !.closed = b]
  <2>4. r \in ConnRec
    BY <2>2 DEF ConnRec
  <2>5. /\ r.rx = conns[c].rx /\ r.hnd = conns[c].hnd
        /\ r.running = FALSE /\ r.joinable = conns[c].joinable
    BY <2>2 DEF ConnRec
  <2>6. conns' = [conns EXCEPT ![c] = r]
    BY <2>3
  <2> HIDE DEF c, r
  <2>7. QED
    BY <1>1, <2>1, <2>4, <2>5, <2>6
<1>7. CASE api[t].pc = "take" /\
             conns' = [conns EXCEPT ![api[t].arc].joinable = FALSE]
  <2> DEFINE c == api[t].arc
             r == [conns[c] EXCEPT !.joinable = FALSE]
  <2>1. c \in 1..Len(conns)
    BY <1>0, <1>7 DEF Places, PlaceOf, CloserPcs
  <2>2. conns[c] \in ConnRec
    BY <2>1, ConnOf
  <2>3. conns' = [conns EXCEPT ![c] = r] /\ api[t].arc = c
    BY <1>7
  <2>4. r \in ConnRec
    BY <2>2 DEF ConnRec
  <2>5. /\ r.rx = conns[c].rx /\ r.hnd = conns[c].hnd
        /\ r.running = conns[c].running
    BY <2>2 DEF ConnRec
  <2> HIDE DEF c, r
  <2>6. QED
    BY <1>1, <1>7, <2>1, <2>3, <2>4, <2>5
<1>8. ASSUME api[t].pc \in {"write", "stop"},
             \/ conns' = [conns EXCEPT ![api[t].arc].running = FALSE,
                                       ![api[t].arc].shut = TRUE]
             \/ conns' = [conns EXCEPT ![api[t].arc].running = FALSE,
                                       ![api[t].arc].shut = TRUE,
                                       ![api[t].arc].closed = TRUE]
      PROVE  \E closed \in BOOLEAN :
               conns' = [conns EXCEPT ![api[t].arc] =
                           [@ EXCEPT !.running = FALSE, !.shut = TRUE, !.closed = closed]]
  <2> DEFINE c == api[t].arc
  <2>1. c \in 1..Len(conns)
    BY <1>0, <1>8 DEF Places, PlaceOf, CloserPcs
  <2>2. conns[c] \in ConnRec
    BY <2>1, ConnOf
  <2>3. conns[c].closed \in BOOLEAN
    BY <2>2 DEF ConnRec
  <2>4. CASE conns' = [conns EXCEPT ![c].running = FALSE, ![c].shut = TRUE]
    <3>1. conns' = [conns EXCEPT ![c] = [conns[c] EXCEPT !.running = FALSE, !.shut = TRUE,
                                           !.closed = conns[c].closed]]
      BY <2>1, <2>2, <2>4 DEF Shape, ConnRec
    <3>2. QED
      BY <2>3, <3>1
  <2>5. CASE conns' = [conns EXCEPT ![c].running = FALSE, ![c].shut = TRUE,
                                    ![c].closed = TRUE]
    <3>1. conns' = [conns EXCEPT ![c] = [conns[c] EXCEPT !.running = FALSE, !.shut = TRUE,
                                           !.closed = TRUE]]
      BY <2>1, <2>2, <2>5 DEF Shape
    <3>2. QED
      BY <3>1
  <2>6. QED
    BY <1>8, <2>4, <2>5
<1>9. QED
  BY <1>2, <1>3, <1>4, <1>5, <1>6, <1>7, <1>8 DEF CallChange

\* The RX thread of c changes c alone, and no number and nobody's claim to join;
\* a callback that hosts a call does not return.
LEMMA RxOnward ==
    ASSUME Shape, NEW c \in 1..Len(conns), RxThread(c)
    PROVE  /\ Onward /\ Len(conns') = Len(conns)
           /\ \A d \in 1..Len(conns) : /\ conns'[d].hnd = conns[d].hnd
                                       /\ conns'[d].joinable = conns[d].joinable
                                       /\ conns[d].rx = "callback" /\ Hosting(d) =>
                                            conns'[d].rx = "callback"
           /\ UNCHANGED <<setup, tableVars, api>>
<1>1. conns[c] \in ConnRec /\ RingCap \in Nat
  BY ConnOf, HandleTableAssumption DEF HandleTableAssumption
<1>2. PICK r \in ConnRec :
        /\ conns' = [conns EXCEPT ![c] = r]
        /\ UNCHANGED <<setup, tableVars, api>>
        /\ r.hnd = conns[c].hnd /\ r.joinable = conns[c].joinable
        /\ conns[c].rx # "done"
        /\ r.running => conns[c].running
        /\ conns[c].rx = "callback" => ~Hosting(c)
        /\ ~conns[c].running /\ conns[c].rx \in {"callback", "test", "swap"} =>
             r.rx \in {"test", "swap", "done"}
  <2> DEFINE Good(r) == /\ r \in ConnRec
                        /\ r.hnd = conns[c].hnd /\ r.joinable = conns[c].joinable
                        /\ conns[c].rx # "done"
                        /\ r.running => conns[c].running
                        /\ conns[c].rx = "callback" => ~Hosting(c)
                        /\ ~conns[c].running /\ conns[c].rx \in {"callback", "test", "swap"} =>
                             r.rx \in {"test", "swap", "done"}
             Does(r) == /\ conns' = [conns EXCEPT ![c] = r]
                        /\ UNCHANGED <<setup, tableVars, api>>
  <2>1. CASE RxTest(c)
    <3> DEFINE r == [conns[c] EXCEPT !.rx = IF conns[c].running THEN "receive"
                                            ELSE AfterLoop]
    <3>1. Does(r) /\ conns[c].rx = "test"
      BY <2>1 DEF RxTest, Rx
    <3>2. Good(r)
      BY <1>1, <3>1 DEF ConnRec, AfterLoop
    <3>3. QED
      BY <3>1, <3>2
  <2>2. CASE RxFrame(c)
    <3>1. conns[c].rx = "receive"
      BY <2>2 DEF RxFrame, Rx
    <3>2. PICK p \in {"callback", "test"} :
            \/ Does([conns[c] EXCEPT !.rx = p, !.level = @ + 1])
            \/ Does([conns[c] EXCEPT !.rx = p, !.overflow = TRUE])
      BY <2>2 DEF RxFrame, Rx
    <3>3. Good([conns[c] EXCEPT !.rx = p, !.level = @ + 1])
      <4>1. conns[c].level + 1 \in Nat
        BY <1>1 DEF ConnRec
      <4>2. QED
        BY <1>1, <3>1, <4>1 DEF ConnRec
    <3>4. Good([conns[c] EXCEPT !.rx = p, !.overflow = TRUE])
      BY <1>1, <3>1 DEF ConnRec
    <3>5. QED
      BY <3>2, <3>3, <3>4
  <2>3. CASE RxReturn(c)
    <3>1. Does([conns[c] EXCEPT !.rx = "test"]) /\ conns[c].rx = "callback" /\ ~Hosting(c)
      BY <2>3 DEF RxReturn, Rx
    <3>2. Good([conns[c] EXCEPT !.rx = "test"])
      BY <1>1, <3>1 DEF ConnRec
    <3>3. QED
      BY <3>1, <3>2
  <2>4. CASE RxInterrupted(c) \/ RxError(c)
    <3>1. PICK p \in {"swap", "test", "done"} : Does([conns[c] EXCEPT !.rx = p])
      BY <2>4 DEF RxInterrupted, RxError, Rx, AfterLoop
    <3>2. conns[c].rx = "receive"
      BY <2>4 DEF RxInterrupted, RxError, Rx
    <3>3. Good([conns[c] EXCEPT !.rx = p])
      BY <1>1, <3>2 DEF ConnRec
    <3>4. QED
      BY <3>1, <3>3
  <2>5. CASE RxSwap(c)
    <3> DEFINE r == [conns[c] EXCEPT !.running = FALSE,
                       !.rx = IF conns[c].running THEN "latch" ELSE "done"]
    <3>1. Does(r) /\ conns[c].rx = "swap"
      BY <2>5 DEF RxSwap, Rx
    <3>2. Good(r)
      BY <1>1, <3>1 DEF ConnRec
    <3>3. QED
      BY <3>1, <3>2
  <2>6. CASE RxLatch(c)
    <3> DEFINE r == [conns[c] EXCEPT !.lost = TRUE, !.rx = "mark"]
    <3>1. Does(r) /\ conns[c].rx = "latch"
      BY <2>6 DEF RxLatch, Rx
    <3>2. Good(r)
      BY <1>1, <3>1 DEF ConnRec
    <3>3. QED
      BY <3>1, <3>2
  <2>7. CASE RxMark(c)
    <3> DEFINE r == [conns[c] EXCEPT !.closed = TRUE, !.rx = "done"]
    <3>1. Does(r) /\ conns[c].rx = "mark"
      BY <2>7 DEF RxMark, Rx
    <3>2. Good(r)
      BY <1>1, <3>1 DEF ConnRec
    <3>3. QED
      BY <3>1, <3>2
  <2>8. QED
    BY <2>1, <2>2, <2>3, <2>4, <2>5, <2>6, <2>7 DEF RxThread, RxStep
<1>3. /\ conns' \in Seq(ConnRec) /\ Len(conns') = Len(conns)
      /\ conns'[c] = r
      /\ \A d \in 1..Len(conns) : d # c => conns'[d] = conns[d]
  BY <1>2, ConnMoves
<1>4. Len(conns) \in Nat
  BY DEF Shape
<1>5. Onward
  BY <1>2, <1>3, <1>4 DEF Onward, Leaving
<1>6. QED
  BY <1>2, <1>3, <1>4, <1>5

-----------------------------------------------------------------------------
(* What a step leaves a thread that does not take it. *)

LEMMA RangeGrows ==
    ASSUME NEW m \in Nat, NEW n \in Nat, m <= n
    PROVE  \A h \in 1..(m - 1) : h \in 1..(n - 1)
  OBVIOUS

LEMMA PlaceStays ==
    ASSUME Shape, Onward, NEW u \in Threads, PlaceOf(u), api'[u] = api[u],
           nextHandle' \in Nat, nextHandle <= nextHandle',
           api[u].pc = "number" => conns'[api[u].arc].hnd = 0,
           api[u].host # 0 => conns'[api[u].host].rx = "callback"
    PROVE  PlaceOf(u)'
<1>1. /\ api[u].arc \in 0..Len(conns) /\ api[u].ring \in 0..Len(conns)
      /\ api[u].hnd \in Nat /\ nextHandle \in Nat
  BY DEF Shape, ApiRec
<1>2. /\ api[u].arc # 0 /\ conns[api[u].arc].hnd # 0 =>
           conns'[api[u].arc].hnd = conns[api[u].arc].hnd
      /\ api[u].ring # 0 /\ conns[api[u].ring].hnd # 0 =>
           conns'[api[u].ring].hnd = conns[api[u].ring].hnd
      /\ api[u].arc # 0 /\ ~conns[api[u].arc].running => ~conns'[api[u].arc].running
  BY <1>1 DEF Onward
<1>3. api[u].pc = "take" => api[u].arc # 0
  BY DEF PlaceOf, CloserPcs
<1>4. \A h \in 1..(nextHandle - 1) : h \in 1..(nextHandle' - 1)
  BY <1>1, RangeGrows
<1>5. QED
  BY <1>1, <1>2, <1>3, <1>4 DEF PlaceOf

\* A step of thread t: it moves t to r, and the invariant is kept if r is a place
\* that t may be at, the table is kept in order and no connection is abandoned.
LEMMA CallKeeps ==
    ASSUME IInv, NEW t \in Threads, Onward, Kept(t), UNCHANGED setup,
           NEW r \in ApiRec, api' = [api EXCEPT ![t] = r],
           r.arc <= Len(conns'), r.ring <= Len(conns'), r.host <= Len(conns'),
           nextHandle' \in Nat, nextHandle <= nextHandle',
           issued' \subseteq 1..(nextHandle' - 1),
           \A h \in DOMAIN table' : table'[h] \in 1..Len(conns'),
           Named',
           PlaceOf(t)',
           r.pc = "number" => r.arc > Len(conns),
           \A c \in 1..Len(conns') : c > Len(conns) => r.arc = c,
           \A c \in 1..Len(conns) :
              conns[c].rx # "done"
              /\ (api[t].arc = c \/ \E h \in DOMAIN table : table[h] = c) =>
                \/ r.arc = c
                \/ \E h \in DOMAIN table' : table'[h] = c
                \/ \E u \in Threads : u # t /\ api[u].arc = c
                \/ Leaving(c),
           api[t].pc = "join" => conns[api[t].arc].rx = "done",
           api[t].pc = "take" /\ conns[api[t].arc].joinable =>
              \/ r.pc = "join" /\ r.arc = api[t].arc
              \/ Leaving(api[t].arc)
    PROVE  IInv'
<1>0. /\ Shape /\ Named /\ Places /\ Joining /\ NoOrphan
      /\ Len(conns) \in Nat /\ Len(conns') \in Nat /\ Len(conns) <= Len(conns')
      /\ \A u \in Threads : PlaceOf(u)
      /\ \A u \in Threads : /\ api[u].arc \in 0..Len(conns)
                            /\ api[u].ring \in 0..Len(conns)
                            /\ api[u].host \in 0..Len(conns)
      /\ r.arc \in Nat
      /\ DOMAIN conns = 1..Len(conns) /\ DOMAIN conns' = 1..Len(conns')
  BY DEF IInv, Places, Shape, ApiRec, Onward
<1>1. /\ api' \in [Threads -> ApiRec] /\ api'[t] = r
      /\ \A u \in Threads : u # t => api'[u] = api[u]
  BY <1>0, ApiMoves
<1>2. Shape'
  <2>1. \A u \in Threads : /\ api'[u].arc <= Len(conns') /\ api'[u].ring <= Len(conns')
                            /\ api'[u].host <= Len(conns')
    BY <1>0, <1>1
  <2>2. nextHandle' \in Nat \ {0}
    BY <1>0 DEF Shape
  <2>3. QED
    BY <1>0, <1>1, <2>1, <2>2 DEF Shape, Onward
<1>3. ASSUME NEW u \in Threads, u # t, api[u].pc = "number"
      PROVE  conns'[api[u].arc].hnd = 0 /\ api'[u].arc \in 1..Len(conns)
  <2>1. api[u].arc \in 1..Len(conns) /\ conns[api[u].arc].hnd = 0
    BY <1>0, <1>3 DEF PlaceOf
  <2>2. ~(api[t].pc = "number" /\ api[t].arc = api[u].arc)
    BY <1>0, <1>3 DEF Places
  <2>3. QED
    BY <1>1, <1>3, <2>1, <2>2 DEF Kept
<1>4. Places'
  <2>1. \A u \in Threads : PlaceOf(u)'
    <3>1. ASSUME NEW u \in Threads, u # t PROVE PlaceOf(u)'
      <4>1. api[u].host # 0 => conns'[api[u].host].rx = "callback"
        BY <1>0 DEF PlaceOf, Kept
      <4>2. QED
        BY <1>0, <1>1, <1>3, <3>1, <4>1, PlaceStays
    <3>2. QED
      BY <3>1
  <2>2. ASSUME NEW u \in Threads, NEW v \in Threads, u # v,
               api'[u].pc = "number", api'[v].pc = "number"
        PROVE  api'[u].arc # api'[v].arc
    <3>1. CASE u = t
      BY <1>0, <1>1, <1>3, <2>2, <3>1
    <3>2. CASE v = t
      BY <1>0, <1>1, <1>3, <2>2, <3>2
    <3>3. CASE u # t /\ v # t
      BY <1>0, <1>1, <2>2, <3>3 DEF Places
    <3>4. QED
      BY <3>1, <3>2, <3>3
  <2>3. QED
    BY <2>1, <2>2 DEF Places
<1>5. Joining'
  <2>1. SUFFICES ASSUME NEW c \in 1..Len(conns'), ~conns'[c].joinable,
                        conns'[c].rx # "done", ~Leaving(c)'
                 PROVE  \E u \in Threads : api'[u].pc = "join" /\ api'[u].arc = c
    BY DEF Joining
  <2>2. CASE c > Len(conns)
    BY <2>1, <2>2 DEF Kept, NewConn
  <2>3. CASE c \in 1..Len(conns)
    <3>1. conns[c].rx # "done" /\ ~Leaving(c)
      BY <2>1, <2>3 DEF Kept, Onward
    <3>2. CASE conns[c].joinable
      <4>1. api[t].pc = "take" /\ api[t].arc = c
        BY <2>1, <2>3, <3>2 DEF Kept
      <4>2. QED
        BY <1>1, <3>1, <3>2, <4>1
    <3>3. CASE ~conns[c].joinable
      <4>1. PICK u \in Threads : api[u].pc = "join" /\ api[u].arc = c
        BY <1>0, <2>3, <3>1, <3>3 DEF Joining
      <4>2. u # t
        BY <3>1, <4>1
      <4>3. QED
        BY <1>1, <4>1, <4>2
    <3>4. QED
      BY <3>2, <3>3
  <2>4. QED
    BY <1>0, <2>2, <2>3
<1>6. NoOrphan'
  <2>1. SUFFICES ASSUME NEW c \in 1..Len(conns'), conns'[c].rx # "done", ~Leaving(c)'
                 PROVE  Alive(c)'
    BY <1>0 DEF NoOrphan
  <2>2. ASSUME NEW u \in Threads, api'[u].arc = c PROVE Alive(c)'
    BY <2>2 DEF Alive, Holders
  <2>3. CASE c > Len(conns)
    BY <1>1, <2>2, <2>3
  <2>4. CASE c \in 1..Len(conns)
    <3>1. conns[c].rx # "done" /\ ~Leaving(c)
      BY <2>1, <2>4 DEF Kept, Onward
    <3>2. Alive(c)
      BY <1>0, <2>4, <3>1 DEF NoOrphan
    <3>3. CASE \E h \in DOMAIN table' : table'[h] = c
      BY <3>3 DEF Alive
    <3>4. CASE \E u \in Threads : u # t /\ api[u].arc = c
      BY <1>1, <2>2, <3>4
    <3>5. CASE r.arc = c
      BY <1>1, <2>2, <3>5
    <3>6. QED
      BY <2>4, <3>1, <3>2, <3>3, <3>4, <3>5 DEF Alive, Holders
  <2>5. QED
    BY <1>0, <2>3, <2>4
<1>7. QED
  BY <1>2, <1>4, <1>5, <1>6 DEF IInv

-----------------------------------------------------------------------------
(* The steps of a call. *)

\* A step that gives out no number leaves every connection its own.
LEMMA NumbersStay ==
    ASSUME Shape, Named, NEW t \in Threads, Onward, Kept(t), api[t].pc # "number",
           nextHandle' = nextHandle,
           \A h \in DOMAIN table' :
              \/ h \in DOMAIN table /\ table'[h] = table[h]
              \/ h # 0 /\ table'[h] \in 1..Len(conns) /\ conns[table'[h]].hnd = h
    PROVE  Named' /\ \A h \in DOMAIN table' : table'[h] \in 1..Len(conns')
<1>1. /\ Len(conns) \in Nat /\ Len(conns') \in Nat /\ Len(conns) <= Len(conns')
      /\ nextHandle \in Nat \ {0}
  BY DEF Shape, Onward
<1>2. \A c \in 1..Len(conns') :
        \/ c \in 1..Len(conns) /\ conns'[c].hnd = conns[c].hnd
        \/ c > Len(conns) /\ conns'[c].hnd = 0
  BY <1>1 DEF Kept, NewConn
<1>3. \A h \in DOMAIN table' : /\ h # 0 /\ table'[h] \in 1..Len(conns)
                               /\ conns[table'[h]].hnd = h
  BY DEF Named, Shape
<1>4. \A h \in DOMAIN table' : /\ table'[h] \in 1..Len(conns')
                               /\ conns'[table'[h]].hnd = h
  BY <1>1, <1>2, <1>3
<1>5. \A c \in 1..Len(conns') : conns'[c].hnd < nextHandle'
  BY <1>1, <1>2 DEF Named
<1>6. \A c, d \in 1..Len(conns') :
        conns'[c].hnd # 0 /\ conns'[c].hnd = conns'[d].hnd => c = d
  BY <1>1, <1>2 DEF Named
<1>7. QED
  BY <1>3, <1>4, <1>5, <1>6 DEF Named

\* A step that leaves the table alone and does not let go of a connection.
LEMMA PlainKeeps ==
    ASSUME IInv, NEW t \in Threads, CallChange(t),
           NEW r \in ApiRec, api' = [api EXCEPT ![t] = r],
           UNCHANGED <<setup, nextHandle, table, issued>>,
           api[t].pc # "number", api[t].pc = "connect" => UNCHANGED conns,
           r.pc # "number",
           r.arc = api[t].arc \/ api[t].arc = 0,
           r.arc <= Len(conns), r.ring <= Len(conns), r.host <= Len(conns),
           (api'[t] = r /\ Onward /\ Kept(t)) => PlaceOf(t)',
           api[t].pc = "join" => conns[api[t].arc].rx = "done",
           api[t].pc = "take" /\ conns[api[t].arc].joinable =>
              \/ r.pc = "join" /\ r.arc = api[t].arc
              \/ Leaving(api[t].arc)
    PROVE  IInv'
<1>1. Shape /\ Named /\ Places
  BY DEF IInv
<1>2. Onward /\ Kept(t)
  BY <1>1, CallOnward
<1>3. api'[t] = r
  BY <1>1, ApiMoves
<1>4. PlaceOf(t)'
  BY <1>2, <1>3
<1>5. Named' /\ \A h \in DOMAIN table' : table'[h] \in 1..Len(conns')
  BY <1>1, <1>2, NumbersStay
<1>6. /\ Len(conns') = Len(conns) /\ Len(conns) \in Nat /\ nextHandle \in Nat
      /\ r.arc \in Nat /\ r.ring \in Nat /\ r.host \in Nat
  BY <1>1 DEF Shape, CallChange, ApiRec
<1>7. /\ r.arc <= Len(conns') /\ r.ring <= Len(conns') /\ r.host <= Len(conns')
      /\ nextHandle' \in Nat /\ nextHandle <= nextHandle'
      /\ issued' \subseteq 1..(nextHandle' - 1)
      /\ \A c \in 1..Len(conns') : ~(c > Len(conns))
  BY <1>1, <1>6 DEF Shape
<1>8. \A c \in 1..Len(conns) :
        conns[c].rx # "done"
        /\ (api[t].arc = c \/ \E h \in DOMAIN table : table[h] = c) =>
          \/ r.arc = c
          \/ \E h \in DOMAIN table' : table'[h] = c
          \/ \E u \in Threads : u # t /\ api[u].arc = c
  BY <1>6
<1>9. /\ \A c \in 1..Len(conns') : c > Len(conns) => r.arc = c
      /\ r.pc = "number" => r.arc > Len(conns)
      /\ UNCHANGED setup
  BY <1>7
<1>10. QED
  BY <1>2, <1>4, <1>5, <1>7, <1>8, <1>9, CallKeeps

LEMMA GoRec ==
    ASSUME Shape, NEW t \in Threads, NEW p \in Pcs, Go(t, p)
    PROVE  \E r \in ApiRec :
              /\ api' = [api EXCEPT ![t] = r]
              /\ r.pc = p /\ r.op = api[t].op /\ r.hnd = api[t].hnd
              /\ r.arc = api[t].arc /\ r.ring = api[t].ring /\ r.st = api[t].st
              /\ r.host = api[t].host
<1> DEFINE r == [api[t] EXCEPT !.pc = p]
<1>1. api[t] \in ApiRec
  BY DEF Shape
<1>2. r \in ApiRec
  BY <1>1 DEF ApiRec
<1>3. /\ r.pc = p /\ r.op = api[t].op /\ r.hnd = api[t].hnd
      /\ r.arc = api[t].arc /\ r.ring = api[t].ring /\ r.st = api[t].st
      /\ r.host = api[t].host
  BY <1>1 DEF ApiRec
<1>4. api' = [api EXCEPT ![t] = r]
  BY DEF Go
<1> HIDE DEF r
<1>5. QED
  BY <1>2, <1>3, <1>4

\* The places that a call goes between with its channel in hand.
Moves ==
    {<<"table", "locked">>, <<"write", "leave">>, <<"read_wait", "leave">>,
     <<"read_sync", "leave">>, <<"flush", "unlatch">>, <<"unlatch", "leave">>,
     <<"leave", "stop">>, <<"stop", "take">>, <<"take", "join">>,
     <<"take", "leave">>, <<"join", "leave">>}

LEMMA GoKeeps ==
    ASSUME IInv, NEW t \in Threads, CallChange(t), NEW p \in Pcs, Go(t, p),
           <<api[t].pc, p>> \in Moves,
           UNCHANGED <<setup, nextHandle, table, issued>>,
           p = "stop" => api[t].arc # 0,
           p = "take" => ~conns'[api[t].arc].running,
           api[t].pc = "join" => conns[api[t].arc].rx = "done",
           api[t].pc = "take" /\ conns[api[t].arc].joinable =>
              p = "join" \/ Leaving(api[t].arc)
    PROVE  IInv'
<1>0. /\ Shape /\ Named /\ PlaceOf(t)
      /\ api[t].arc \in 0..Len(conns) /\ api[t].ring \in 0..Len(conns)
      /\ api[t].host \in 0..Len(conns) /\ Len(conns) \in Nat
  BY DEF IInv, Places, Shape, ApiRec
<1>1. PICK r \in ApiRec :
        /\ api' = [api EXCEPT ![t] = r]
        /\ r.pc = p /\ r.op = api[t].op /\ r.hnd = api[t].hnd
        /\ r.arc = api[t].arc /\ r.ring = api[t].ring /\ r.st = api[t].st
        /\ r.host = api[t].host
  BY <1>0, GoRec
<1>2. /\ api[t].pc \notin {"number", "connect"} /\ p # "number"
      /\ r.arc <= Len(conns) /\ r.ring <= Len(conns) /\ r.host <= Len(conns)
  BY <1>0, <1>1 DEF Moves
<1>3. ASSUME api'[t] = r, Onward, Kept(t) PROVE PlaceOf(t)'
  <2>1. /\ api[t].arc # 0 => conns'[api[t].arc].hnd = conns[api[t].arc].hnd
        /\ api[t].ring # 0 => conns'[api[t].ring].hnd = conns[api[t].ring].hnd
        /\ api[t].host # 0 => conns'[api[t].host].rx = "callback"
    BY <1>0, <1>2, <1>3 DEF Kept, PlaceOf
  <2>2. CASE p = "locked" /\ api[t].pc = "table"
    BY <1>0, <1>1, <1>3, <2>1, <2>2 DEF PlaceOf, OnRing, CloserPcs
  <2>3. CASE p = "unlatch" /\ api[t].pc = "flush"
    BY <1>0, <1>1, <1>3, <2>1, <2>3 DEF PlaceOf, OnRing, CloserPcs
  <2>4. CASE p = "leave"
    BY <1>0, <1>1, <1>3, <2>1, <2>4 DEF PlaceOf, OnRing, CloserPcs
  <2>5. CASE p \in CloserPcs
    <3>1. p = "stop" \/ api[t].pc \in CloserPcs
      BY <2>5 DEF Moves, CloserPcs
    <3>2. QED
      BY <1>0, <1>1, <1>3, <2>1, <2>5, <3>1 DEF PlaceOf, OnRing, CloserPcs
  <2>6. QED
    BY <2>2, <2>3, <2>4, <2>5 DEF Moves, CloserPcs
<1>4. QED
  BY <1>1, <1>2, <1>3, PlainKeeps

\* The steps between two places, each on its own.
LEMMA GoSteps ==
    ASSUME IInv, NEW t \in Threads, CallChange(t),
           \/ LockConns(t) \/ Write(t) \/ WriteFails(t) \/ ReadWait(t) \/ ReadSync(t)
           \/ Flush(t) \/ FlushOverflow(t) \/ CloseStop(t) \/ CloseTake(t) \/ CloseJoin(t)
    PROVE  IInv'
<1>1. CASE LockConns(t)
  BY <1>1, GoKeeps DEF LockConns, Moves, Pcs
<1>2. CASE Write(t) \/ WriteFails(t) \/ ReadWait(t) \/ ReadSync(t) \/ FlushOverflow(t)
  BY <1>2, GoKeeps DEF Write, WriteFails, ReadWait, ReadSync, FlushOverflow, Moves, Pcs, tableVars
<1>3. CASE Flush(t)
  BY <1>3, GoKeeps DEF Flush, Moves, Pcs, tableVars
<1>4. CASE CloseStop(t)
  <2> DEFINE c == api[t].arc
  <2>1. c \in 1..Len(conns) /\ conns \in Seq(ConnRec)
    BY <1>4 DEF IInv, Shape, Places, PlaceOf, CloserPcs, CloseStop, ApiRec
  <2>2. ~conns'[c].running
    BY <1>4, <2>1 DEF CloseStop, ConnRec
  <2> HIDE DEF c
  <2>3. QED
    BY <1>4, <2>2, GoKeeps DEF CloseStop, Moves, Pcs, tableVars, c
<1>5. CASE CloseTake(t)
  <2>1. conns[api[t].arc].joinable /\ api[t].host = api[t].arc => Leaving(api[t].arc)
    BY <1>5 DEF IInv, Places, PlaceOf, CloserPcs, CloseTake, Leaving
  <2>2. PICK p \in {"join", "leave"} :
          Go(t, p) /\ (conns[api[t].arc].joinable => p = "join" \/ Leaving(api[t].arc))
    BY <1>5, <2>1 DEF CloseTake
  <2>3. QED
    BY <1>5, <2>2, GoKeeps DEF CloseTake, Moves, Pcs, tableVars
<1>6. CASE CloseJoin(t)
  BY <1>6, GoKeeps DEF CloseJoin, Moves, Pcs, tableVars
<1>7. QED
  BY <1>1, <1>2, <1>3, <1>4, <1>5, <1>6

\* A call that returns holds nothing and runs nowhere.
LEMMA IdlePlace ==
    ASSUME NEW t \in Threads, api'[t] = Idle
    PROVE  PlaceOf(t)'
  BY DEF Idle, PlaceOf, OnRing, CloserPcs

\* Where a call starts: a callback of a connection, or a thread of its own.
LEMMA HostOf ==
    ASSUME Shape, NEW t \in Threads, NEW c \in Hosts(t)
    PROVE  /\ c \in Nat /\ c <= Len(conns)
           /\ c # 0 => c \in 1..Len(conns) /\ conns[c].rx = "callback"
  BY DEF Hosts, Shape

\* An idle thread starts to open a channel, or asks what needs none; an open
\* fails; a call on a handle that is not in the table returns.
LEMMA StartSteps ==
    ASSUME IInv, NEW t \in Threads, CallChange(t),
           \/ Open(t) \/ OpenFails(t) \/ Query(t) \/ Call(t)
    PROVE  IInv'
<1>0. /\ Shape /\ Named /\ PlaceOf(t)
      /\ Len(conns) \in Nat /\ 0 <= Len(conns)
  BY DEF IInv, Places, Shape
<1>1. CASE Open(t)
  <2>0. PICK c \in Hosts(t) :
          api' = [api EXCEPT ![t] =
                    [Idle EXCEPT !.pc = "connect", !.op = "open", !.host = c]]
    BY <1>1 DEF Open
  <2>1. /\ c \in Nat /\ c <= Len(conns)
        /\ c # 0 => c \in 1..Len(conns) /\ conns[c].rx = "callback"
    BY <1>0, HostOf
  <2> DEFINE r == [Idle EXCEPT !.pc = "connect", !.op = "open", !.host = c]
  <2>2. r \in ApiRec
    BY <2>1, IdleRec DEF ApiRec, Pcs, Ops
  <2>3. /\ r.pc = "connect" /\ r.op = "open" /\ r.arc = 0 /\ r.ring = 0
        /\ r.host = c
    BY DEF Idle
  <2>4. /\ api' = [api EXCEPT ![t] = r] /\ api[t].pc = "idle" /\ api[t].arc = 0
        /\ UNCHANGED <<setup, nextHandle, table, issued, conns>>
    BY <1>0, <1>1, <2>0 DEF Open, PlaceOf, tableVars
  <2> HIDE DEF r
  <2>5. api'[t] = r => PlaceOf(t)'
    BY <2>1, <2>3, <2>4 DEF PlaceOf, OnRing, CloserPcs
  <2>6. QED
    BY <1>0, <2>1, <2>2, <2>3, <2>4, <2>5, PlainKeeps
<1>2. CASE OpenFails(t)
  <2>1. /\ api' = [api EXCEPT ![t] = Idle] /\ api[t].pc = "connect" /\ api[t].arc = 0
        /\ UNCHANGED <<setup, nextHandle, table, issued, conns>>
    BY <1>0, <1>2 DEF OpenFails, PlaceOf, tableVars
  <2>2. Idle.pc = "idle" /\ Idle.arc = 0 /\ Idle.ring = 0 /\ Idle.host = 0
    BY DEF Idle
  <2>3. QED
    BY <1>0, <2>1, <2>2, IdleRec, IdlePlace, PlainKeeps
<1>3. CASE Query(t)
  <2>1. PICK reply \in UNION {Replies(b) : b \in BufSizes}, c \in Hosts(t) :
          api' = [api EXCEPT ![t] = [Idle EXCEPT !.pc = "leave", !.op = "query",
                                                 !.host = c, !.reply = reply]]
    BY <1>3 DEF Query
  <2> DEFINE r == [Idle EXCEPT !.pc = "leave", !.op = "query", !.host = c,
                               !.reply = reply]
  <2>2. reply \in Answers
    BY <2>1 DEF Answers
  <2>3. /\ c \in Nat /\ c <= Len(conns)
        /\ c # 0 => c \in 1..Len(conns) /\ conns[c].rx = "callback"
    BY <1>0, HostOf
  <2>4. r \in ApiRec
    BY <2>2, <2>3, IdleRec DEF ApiRec, Pcs, Ops
  <2>5. /\ r.pc = "leave" /\ r.op = "query" /\ r.arc = 0 /\ r.ring = 0
        /\ r.host = c
    BY DEF Idle
  <2>6. /\ api' = [api EXCEPT ![t] = r] /\ api[t].pc = "idle" /\ api[t].arc = 0
        /\ UNCHANGED <<setup, nextHandle, table, issued, conns>>
    BY <1>0, <1>3, <2>1 DEF Query, PlaceOf, tableVars
  <2> HIDE DEF r
  <2>7. api'[t] = r => PlaceOf(t)'
    BY <2>3, <2>5, <2>6 DEF PlaceOf, OnRing, CloserPcs
  <2>8. QED
    BY <1>0, <2>3, <2>4, <2>5, <2>6, <2>7, PlainKeeps
<1>4. CASE Call(t)
  <2>0. setup.calls[t] \subseteq Ops
    BY <1>0, HandleTableAssumption DEF HandleTableAssumption, Shape
  <2>1. PICK op \in setup.calls[t] \ {"open", "query"}, h \in issued, c \in Hosts(t) :
          api' = [api EXCEPT ![t] =
                    [Idle EXCEPT !.pc = "table", !.op = op, !.hnd = h, !.host = c]]
    BY <1>4 DEF Call
  <2> DEFINE r == [Idle EXCEPT !.pc = "table", !.op = op, !.hnd = h, !.host = c]
  <2>2. /\ op \in {"close", "write", "read_wait", "read_sync", "status", "flush"}
        /\ h \in 1..(nextHandle - 1) /\ h \in Nat /\ h # 0 /\ nextHandle \in Nat
    BY <1>0, <2>0, <2>1 DEF Ops, Shape
  <2>3. /\ c \in Nat /\ c <= Len(conns)
        /\ c # 0 => c \in 1..Len(conns) /\ conns[c].rx = "callback"
    BY <1>0, HostOf
  <2>4. r \in ApiRec
    BY <2>2, <2>3, IdleRec DEF ApiRec, Pcs, Ops
  <2>5. /\ r.pc = "table" /\ r.op = op /\ r.hnd = h /\ r.arc = 0 /\ r.ring = 0
        /\ r.host = c
    BY DEF Idle
  <2>6. /\ api' = [api EXCEPT ![t] = r] /\ api[t].pc = "idle" /\ api[t].arc = 0
        /\ UNCHANGED <<setup, nextHandle, table, issued, conns>>
    BY <1>0, <1>4, <2>1 DEF Call, PlaceOf, tableVars
  <2> HIDE DEF r
  <2>7. api'[t] = r => PlaceOf(t)'
    BY <2>2, <2>3, <2>5, <2>6 DEF PlaceOf, OnRing, CloserPcs
  <2>8. QED
    BY <1>0, <2>3, <2>4, <2>5, <2>6, <2>7, PlainKeeps
<1>5. QED
  BY <1>1, <1>2, <1>3, <1>4

\* with_conn: the channel of the handle, which is the one it was returned for.
LEMMA LookupStep ==
    ASSUME IInv, NEW t \in Threads, CallChange(t), Lookup(t)
    PROVE  IInv'
<1>0. /\ Shape /\ Named /\ PlaceOf(t)
      /\ Len(conns) \in Nat /\ 0 <= Len(conns) /\ api[t] \in ApiRec
      /\ api[t].host <= Len(conns)
  BY DEF IInv, Places, Shape
<1>1. /\ api[t].pc = "locked" /\ api[t].arc = 0 /\ api[t].ring = 0
      /\ api[t].op \in {"write", "read_wait", "read_sync", "status", "flush"}
      /\ api[t].hnd # 0
      /\ UNCHANGED <<setup, nextHandle, table, issued, conns>>
  BY <1>0 DEF Lookup, PlaceOf
<1>2. CASE api[t].hnd \notin DOMAIN table
  <2>1. api' = [api EXCEPT ![t] = Idle]
    BY <1>2 DEF Lookup
  <2>2. Idle.pc = "idle" /\ Idle.arc = 0 /\ Idle.ring = 0 /\ Idle.host = 0
    BY DEF Idle
  <2>3. QED
    BY <1>0, <1>1, <2>1, <2>2, IdleRec, IdlePlace, PlainKeeps
<1>3. CASE api[t].hnd \in DOMAIN table
  <2> DEFINE c == table[api[t].hnd]
             a == IF api[t].op = "read_sync" THEN 0 ELSE c
             r == [api[t] EXCEPT !.pc = api[t].op, !.ring = c, !.arc = a]
  <2>1. c \in 1..Len(conns) /\ conns[c].hnd = api[t].hnd
    BY <1>0, <1>3 DEF Shape, Named
  <2>2. api' = [api EXCEPT ![t] = r]
    BY <1>3 DEF Lookup
  <2>3. /\ a \in Nat /\ c \in Nat /\ a <= Len(conns) /\ c <= Len(conns) /\ c # 0
        /\ api[t].op = "write" => a # 0
    BY <1>0, <2>1
  <2> HIDE DEF c, a
  <2>4. r \in ApiRec
    BY <1>0, <1>1, <2>3 DEF ApiRec, Pcs
  <2>5. /\ r.pc = api[t].op /\ r.op = api[t].op /\ r.hnd = api[t].hnd
        /\ r.arc = a /\ r.ring = c /\ r.host = api[t].host
    BY <1>0 DEF ApiRec
  <2> HIDE DEF r
  <2>6. api'[t] = r => PlaceOf(t)'
    BY <1>0, <1>1, <2>1, <2>3, <2>5 DEF PlaceOf, OnRing, CloserPcs
  <2>7. r.pc \in {"write", "read_wait", "read_sync", "status", "flush"}
    BY <1>1, <2>5
  <2>8. QED
    BY <1>0, <1>1, <2>2, <2>3, <2>4, <2>5, <2>6, <2>7, PlainKeeps
<1>4. QED
  BY <1>2, <1>3

\* canReadStatus: three reads, each of which adds at most a bit.
LEMMA StatusSteps ==
    ASSUME IInv, NEW t \in Threads, CallChange(t),
           StatusLevel(t) \/ StatusOverrun(t) \/ StatusLink(t)
    PROVE  IInv'
<1>0. /\ Shape /\ Named /\ PlaceOf(t)
      /\ Len(conns) \in Nat /\ api[t] \in ApiRec /\ api[t].host <= Len(conns)
      /\ api[t].arc <= Len(conns) /\ api[t].ring <= Len(conns)
  BY DEF IInv, Places, Shape
<1>1. /\ UNCHANGED <<setup, nextHandle, table, issued, conns>>
      /\ api[t].pc \in {"status", "overflowed", "link_lost"} /\ api[t].ring # 0
  BY <1>0 DEF StatusLevel, StatusOverrun, StatusLink, Bit, tableVars, PlaceOf, OnRing
<1>2. PICK p \in {"overflowed", "link_lost", "leave"},
           s \in SUBSET {"RX_PENDING", "SW_OVERRUN", "BUS_OFF"} :
        api' = [api EXCEPT ![t] = [api[t] EXCEPT !.pc = p, !.st = s]]
  <2>1. api[t].st \in SUBSET {"RX_PENDING", "SW_OVERRUN", "BUS_OFF"}
    BY <1>0 DEF ApiRec
  <2>2. PICK p \in {"overflowed", "link_lost", "leave"}, set \in BOOLEAN,
             bit \in {"RX_PENDING", "SW_OVERRUN", "BUS_OFF"} : Bit(t, set, bit, p)
    <3>1. /\ (conns[api[t].ring].level > 0) \in BOOLEAN
          /\ conns[api[t].ring].overflow \in BOOLEAN
          /\ conns[api[t].ring].lost \in BOOLEAN
      <4>1. conns[api[t].ring] \in ConnRec
        BY <1>0, <1>1, ConnOf DEF ApiRec
      <4>2. QED
        BY <4>1 DEF ConnRec
    <3>2. QED
      BY <3>1 DEF StatusLevel, StatusOverrun, StatusLink
  <2> DEFINE s == IF set THEN api[t].st \cup {bit} ELSE api[t].st
  <2>3. s \in SUBSET {"RX_PENDING", "SW_OVERRUN", "BUS_OFF"}
    BY <2>1
  <2>4. api' = [api EXCEPT ![t].pc = p, ![t].st = s]
    BY <2>2 DEF Bit
  <2> HIDE DEF s
  <2>5. api' = [api EXCEPT ![t] = [api[t] EXCEPT !.pc = p, !.st = s]]
    BY <1>0, <2>4 DEF ApiRec, Shape
  <2>6. QED
    BY <2>3, <2>5
<1> DEFINE r == [api[t] EXCEPT !.pc = p, !.st = s]
<1>3. r \in ApiRec
  BY <1>0, <1>2 DEF ApiRec, Pcs
<1>4. /\ r.pc = p /\ r.op = api[t].op /\ r.hnd = api[t].hnd /\ r.arc = api[t].arc
      /\ r.ring = api[t].ring /\ r.host = api[t].host
  BY <1>0 DEF ApiRec
<1>5. api' = [api EXCEPT ![t] = r]
  BY <1>2
<1> HIDE DEF r
<1>6. api'[t] = r => PlaceOf(t)'
  BY <1>0, <1>1, <1>2, <1>4 DEF PlaceOf, OnRing, CloserPcs
<1>7. QED
  BY <1>0, <1>1, <1>2, <1>3, <1>4, <1>5, <1>6, PlainKeeps

\* Conn::connect: the new connection is the caller's.
LEMMA OpenConnectedStep ==
    ASSUME IInv, NEW t \in Threads, CallChange(t), OpenConnected(t)
    PROVE  IInv'
<1>0. /\ Shape /\ Named /\ Places /\ PlaceOf(t)
      /\ Len(conns) \in Nat /\ api[t] \in ApiRec /\ nextHandle \in Nat
      /\ api[t].host \in 0..Len(conns)
  BY DEF IInv, Places, Shape, ApiRec
<1>1. /\ api[t].pc = "connect" /\ api[t].arc = 0 /\ api[t].ring = 0
      /\ api[t].op = "open" /\ conns' = Append(conns, NewConn)
      /\ UNCHANGED <<setup, nextHandle, table, issued>>
  BY <1>0 DEF OpenConnected, PlaceOf, tableVars
<1>2. Len(conns') = Len(conns) + 1 /\ conns'[Len(conns) + 1] = NewConn
  BY <1>0, <1>1, NewConnRec DEF Shape
<1>3. Onward /\ Kept(t)
  BY <1>0, CallOnward
<1>4. Named' /\ \A h \in DOMAIN table' : table'[h] \in 1..Len(conns')
  BY <1>0, <1>1, <1>3, NumbersStay
<1> DEFINE n == Len(conns) + 1
           r == [api[t] EXCEPT !.arc = n, !.pc = "number"]
<1>4a. n \in Nat /\ n # 0 /\ n = Len(conns) + 1
  BY <1>0
<1>5. r \in ApiRec
  BY <1>0, <1>4a DEF ApiRec, Pcs
<1>6. /\ r.pc = "number" /\ r.arc = n /\ r.ring = 0 /\ r.op = api[t].op
      /\ r.host = api[t].host
  BY <1>0, <1>1 DEF ApiRec
<1>7. api' = [api EXCEPT ![t] = r]
  BY <1>0, <1>2 DEF OpenConnected, Shape
<1> HIDE DEF r, n
<1>8. api'[t] = r
  BY <1>0, <1>5, <1>7, ApiMoves
<1>9. api[t].host # 0 => conns'[api[t].host].rx = "callback"
  BY <1>0, <1>3 DEF PlaceOf, Kept
<1>10. PlaceOf(t)'
  <2>1. conns'[n].hnd = 0
    BY <1>2, <1>4a DEF NewConn
  <2>2. QED
    BY <1>1, <1>4a, <1>6, <1>8, <1>9, <2>1 DEF PlaceOf, OnRing, CloserPcs
<1>11. \A c \in 1..Len(conns) :
        conns[c].rx # "done"
        /\ (api[t].arc = c \/ \E h \in DOMAIN table : table[h] = c) =>
          \/ r.arc = c
          \/ \E h \in DOMAIN table' : table'[h] = c
          \/ \E u \in Threads : u # t /\ api[u].arc = c
  BY <1>0, <1>1
<1>12. /\ r.arc <= Len(conns') /\ r.ring <= Len(conns') /\ r.host <= Len(conns')
       /\ nextHandle' \in Nat /\ nextHandle <= nextHandle'
       /\ issued' \subseteq 1..(nextHandle' - 1) /\ UNCHANGED setup
       /\ r.pc = "number" => r.arc > Len(conns)
       /\ \A c \in 1..Len(conns') : c > Len(conns) => r.arc = c
       /\ api[t].pc = "connect"
  BY <1>0, <1>1, <1>2, <1>6, <1>4a DEF Shape
<1>13. QED
  BY <1>3, <1>4, <1>5, <1>7, <1>10, <1>11, <1>12, CallKeeps

\* NEXT_HANDLE.fetch_add: a number that no connection has.
LEMMA OpenNumberStep ==
    ASSUME IInv, NEW t \in Threads, CallChange(t), OpenNumber(t)
    PROVE  IInv'
<1>0. /\ Shape /\ Named /\ Places /\ PlaceOf(t)
      /\ Len(conns) \in Nat /\ api[t] \in ApiRec /\ nextHandle \in Nat \ {0}
      /\ api[t].host \in 0..Len(conns)
  BY DEF IInv, Places, Shape, ApiRec
<1> DEFINE c == api[t].arc
           r == [api[t] EXCEPT !.hnd = nextHandle, !.pc = "table"]
<1>1. /\ api[t].pc = "number" /\ c # 0 /\ api[t].ring = 0
      /\ conns[c].hnd = 0 /\ nextHandle' = nextHandle + 1
      /\ UNCHANGED <<setup, table, issued>>
  BY <1>0 DEF OpenNumber, PlaceOf
<1>2. c \in 1..Len(conns) /\ c \in Nat
  BY <1>0, <1>1 DEF Shape, ApiRec
<1>3. conns' = [conns EXCEPT ![c] = [conns[c] EXCEPT !.hnd = nextHandle]]
  BY DEF OpenNumber
<1>4. conns[c] \in ConnRec
  BY <1>0, <1>2, ConnOf
<1>5. /\ [conns[c] EXCEPT !.hnd = nextHandle] \in ConnRec
      /\ [conns[c] EXCEPT !.hnd = nextHandle].hnd = nextHandle
  BY <1>0, <1>4 DEF ConnRec
<1>6. r \in ApiRec
  BY <1>0 DEF ApiRec, Pcs
<1>7. /\ r.pc = "table" /\ r.hnd = nextHandle /\ r.arc = c /\ r.ring = 0
      /\ r.op = api[t].op /\ r.host = api[t].host
  BY <1>0, <1>1 DEF ApiRec
<1>8. api' = [api EXCEPT ![t] = r]
  BY <1>0 DEF OpenNumber, Shape
<1>9. api[t].arc = c
  OBVIOUS
<1> HIDE DEF r, c
<1>10. /\ Len(conns') = Len(conns) /\ conns'[c].hnd = nextHandle
       /\ \A d \in 1..Len(conns) : d # c => conns'[d] = conns[d]
  BY <1>0, <1>2, <1>3, <1>5, ConnMoves
<1>11. Onward /\ Kept(t)
  BY <1>0, CallOnward
<1>12. Named'
  <2>1. \A d \in 1..Len(conns) : conns[d].hnd < nextHandle /\ conns[d].hnd \in Nat
    BY <1>0, ConnOf DEF Named, ConnRec
  <2>2. \A d \in 1..Len(conns') : conns'[d].hnd < nextHandle'
    BY <1>0, <1>1, <1>10, <2>1
  <2>3. \A d, e \in 1..Len(conns') :
          conns'[d].hnd # 0 /\ conns'[d].hnd = conns'[e].hnd => d = e
    BY <1>0, <1>10, <2>1 DEF Named
  <2>4. \A h \in DOMAIN table' : h # 0 /\ conns'[table'[h]].hnd = h
    BY <1>0, <1>1, <1>10 DEF Named, Shape
  <2>5. QED
    BY <2>2, <2>3, <2>4 DEF Named
<1>13. api'[t] = r
  BY <1>0, <1>6, <1>8, ApiMoves
<1>14. api[t].op = "open"
  BY <1>0, <1>1 DEF PlaceOf
<1>15. PlaceOf(t)'
  <2>1. nextHandle \in 1..(nextHandle' - 1)
    BY <1>0, <1>1
  <2>2. api[t].host # 0 => conns'[api[t].host].rx = "callback"
    BY <1>0, <1>11 DEF PlaceOf, Kept
  <2>3. QED
    BY <1>1, <1>7, <1>10, <1>13, <1>14, <2>1, <2>2 DEF PlaceOf, OnRing, CloserPcs
<1>16. \A d \in 1..Len(conns) :
        conns[d].rx # "done"
        /\ (api[t].arc = d \/ \E h \in DOMAIN table : table[h] = d) =>
          \/ r.arc = d
          \/ \E h \in DOMAIN table' : table'[h] = d
          \/ \E u \in Threads : u # t /\ api[u].arc = d
  BY <1>1, <1>7, <1>9
<1>17. \A h \in 1..(nextHandle - 1) : h \in 1..(nextHandle' - 1)
  BY <1>0, <1>1
<1>18. /\ r.arc <= Len(conns') /\ r.ring <= Len(conns') /\ r.host <= Len(conns')
       /\ nextHandle' \in Nat /\ nextHandle <= nextHandle'
       /\ UNCHANGED setup /\ r.pc # "number"
       /\ \A d \in 1..Len(conns') : d > Len(conns) => r.arc = d
       /\ \A h \in DOMAIN table' : table'[h] \in 1..Len(conns')
       /\ api[t].pc = "number"
  BY <1>0, <1>1, <1>2, <1>7, <1>10 DEF Shape
<1>19. issued' \subseteq 1..(nextHandle' - 1)
  BY <1>0, <1>1, <1>17 DEF Shape
<1>20. QED
  BY <1>6, <1>8, <1>11, <1>12, <1>15, <1>16, <1>18, <1>19, CallKeeps

\* The new channel enters the table under its number, and passes from the call
\* to the table.
LEMMA OpenInsertStep ==
    ASSUME IInv, NEW t \in Threads, CallChange(t), OpenInsert(t)
    PROVE  IInv'
<1>0. /\ Shape /\ Named /\ Places /\ PlaceOf(t)
      /\ Len(conns) \in Nat /\ nextHandle \in Nat
  BY DEF IInv, Places, Shape
<1> DEFINE c == api[t].arc
           h == api[t].hnd
<1>1. /\ api[t].pc = "locked" /\ c # 0 /\ conns[c].hnd = h
      /\ h \in 1..(nextHandle - 1) /\ h # 0
      /\ UNCHANGED <<setup, nextHandle, conns>>
      /\ api' = [api EXCEPT ![t] = Idle]
      /\ issued' = issued \cup {h}
      /\ table' = [k \in DOMAIN table \cup {h} |-> IF k = h THEN c ELSE table[k]]
  BY <1>0 DEF OpenInsert, PlaceOf
<1>2. c \in 1..Len(conns)
  BY <1>0, <1>1 DEF Shape, ApiRec
<1>3. api[t].arc = c
  OBVIOUS
<1> HIDE DEF c, h
<1>4. /\ DOMAIN table' = DOMAIN table \cup {h}
      /\ \A k \in DOMAIN table' : table'[k] = IF k = h THEN c ELSE table[k]
  BY <1>1
<1>5. Onward /\ Kept(t)
  BY <1>0, CallOnward
<1>6. \A k \in DOMAIN table' :
        \/ k \in DOMAIN table /\ table'[k] = table[k]
        \/ k # 0 /\ table'[k] \in 1..Len(conns) /\ conns[table'[k]].hnd = k
  BY <1>1, <1>2, <1>4
<1>7. Named' /\ \A k \in DOMAIN table' : table'[k] \in 1..Len(conns')
  BY <1>0, <1>1, <1>5, <1>6, NumbersStay
<1>8. h \in DOMAIN table => table[h] = c
  BY <1>0, <1>1, <1>2 DEF Named, Shape
<1>9. /\ Idle \in ApiRec /\ Idle.pc = "idle" /\ Idle.arc = 0 /\ Idle.ring = 0
      /\ Idle.host = 0
  BY IdleRec DEF Idle
<1>10. PlaceOf(t)'
  <2>1. api'[t] = Idle
    BY <1>0, <1>1, <1>9, ApiMoves
  <2>2. QED
    BY <2>1, IdlePlace
<1>11. \A d \in 1..Len(conns) :
        conns[d].rx # "done"
        /\ (api[t].arc = d \/ \E k \in DOMAIN table : table[k] = d) =>
          \/ Idle.arc = d
          \/ \E k \in DOMAIN table' : table'[k] = d
          \/ \E u \in Threads : u # t /\ api[u].arc = d
  <2>1. SUFFICES ASSUME NEW d \in 1..Len(conns),
                        api[t].arc = d \/ \E k \in DOMAIN table : table[k] = d
                 PROVE  \E k \in DOMAIN table' : table'[k] = d
    OBVIOUS
  <2>2. CASE api[t].arc = d
    BY <1>3, <1>4, <2>2
  <2>3. CASE \E k \in DOMAIN table : table[k] = d
    <3>1. PICK k \in DOMAIN table : table[k] = d
      BY <2>3
    <3>2. k \in DOMAIN table' /\ table'[k] = d
      BY <1>4, <1>8, <3>1
    <3>3. QED
      BY <3>2
  <2>4. QED
    BY <2>1, <2>2, <2>3
<1>12. /\ Idle.arc <= Len(conns') /\ Idle.ring <= Len(conns') /\ Idle.host <= Len(conns')
       /\ nextHandle' \in Nat /\ nextHandle <= nextHandle'
       /\ issued' \subseteq 1..(nextHandle' - 1) /\ UNCHANGED setup
       /\ Idle.pc # "number"
       /\ \A d \in 1..Len(conns') : d > Len(conns) => Idle.arc = d
       /\ api[t].pc = "locked"
  BY <1>0, <1>1, <1>9 DEF Shape
<1>13. QED
  BY <1>1, <1>5, <1>7, <1>9, <1>10, <1>11, <1>12, CallKeeps

\* canClose takes the channel out of the table and into its own hands.
LEMMA CloseRemoveStep ==
    ASSUME IInv, NEW t \in Threads, CallChange(t), CloseRemove(t)
    PROVE  IInv'
<1>0. /\ Shape /\ Named /\ Places /\ PlaceOf(t)
      /\ Len(conns) \in Nat /\ nextHandle \in Nat /\ api[t] \in ApiRec
  BY DEF IInv, Places, Shape
<1> DEFINE h == api[t].hnd
           c == table[h]
<1>1. /\ api[t].pc = "locked" /\ api[t].op = "close" /\ api[t].arc = 0
      /\ api[t].ring = 0
      /\ UNCHANGED <<setup, nextHandle, issued, conns>>
      /\ DOMAIN table' = DOMAIN table \ {h}
      /\ \A k \in DOMAIN table' : k \in DOMAIN table /\ table'[k] = table[k]
  BY <1>0 DEF CloseRemove, PlaceOf
<1>2. Onward /\ Kept(t)
  BY <1>0, CallOnward
<1>3. Named' /\ \A k \in DOMAIN table' : table'[k] \in 1..Len(conns')
  BY <1>0, <1>1, <1>2, NumbersStay
<1>4. /\ nextHandle' \in Nat /\ nextHandle <= nextHandle'
      /\ issued' \subseteq 1..(nextHandle' - 1) /\ UNCHANGED setup
      /\ \A d \in 1..Len(conns') : ~(d > Len(conns))
      /\ 0 <= Len(conns') /\ Len(conns') = Len(conns)
  BY <1>0, <1>1 DEF Shape
<1>5. CASE h \notin DOMAIN table
  <2>1. api' = [api EXCEPT ![t] = Idle]
    BY <1>5 DEF CloseRemove
  <2>2. /\ Idle \in ApiRec /\ Idle.pc = "idle" /\ Idle.arc = 0 /\ Idle.ring = 0
        /\ Idle.host = 0
    BY IdleRec DEF Idle
  <2>3. PlaceOf(t)'
    <3>1. api'[t] = Idle
      BY <1>0, <2>1, <2>2, ApiMoves
    <3>2. QED
      BY <3>1, IdlePlace
  <2>4. \A d \in 1..Len(conns) :
          conns[d].rx # "done"
          /\ (api[t].arc = d \/ \E k \in DOMAIN table : table[k] = d) =>
            \/ Idle.arc = d
            \/ \E k \in DOMAIN table' : table'[k] = d
            \/ \E u \in Threads : u # t /\ api[u].arc = d
    BY <1>0, <1>1, <1>5
  <2>5. /\ \A d \in 1..Len(conns') : d > Len(conns) => Idle.arc = d
        /\ Idle.arc <= Len(conns') /\ Idle.ring <= Len(conns') /\ Idle.host <= Len(conns')
    BY <1>4, <2>2
  <2>6. QED
    BY <1>1, <1>2, <1>3, <1>4, <2>1, <2>2, <2>3, <2>4, <2>5, CallKeeps
<1>6. CASE h \in DOMAIN table
  <2>1. c \in 1..Len(conns) /\ conns[c].hnd = h /\ c \in Nat /\ c # 0
    BY <1>0, <1>6 DEF Shape, Named
  <2> DEFINE r == [api[t] EXCEPT !.arc = c, !.pc = "stop"]
  <2>2. api' = [api EXCEPT ![t] = r]
    BY <1>0, <1>6 DEF CloseRemove, Shape
  <2>3. \A k \in DOMAIN table : k # h => k \in DOMAIN table' /\ table'[k] = table[k]
    BY <1>1
  <2>4. table[h] = c
    OBVIOUS
  <2> HIDE DEF c
  <2>5. r \in ApiRec
    BY <1>0, <2>1 DEF ApiRec, Pcs
  <2>6. /\ r.pc = "stop" /\ r.op = "close" /\ r.arc = c /\ r.ring = 0
        /\ r.hnd = h /\ r.host = api[t].host
    BY <1>0, <1>1 DEF ApiRec
  <2> HIDE DEF r
  <2>7. api'[t] = r
    BY <1>0, <2>2, <2>5, ApiMoves
  <2>8. PlaceOf(t)'
    BY <1>0, <1>1, <2>1, <2>6, <2>7 DEF PlaceOf, OnRing, CloserPcs
  <2>9. \A d \in 1..Len(conns) :
           conns[d].rx # "done"
           /\ (api[t].arc = d \/ \E k \in DOMAIN table : table[k] = d) =>
             \/ r.arc = d
             \/ \E k \in DOMAIN table' : table'[k] = d
             \/ \E u \in Threads : u # t /\ api[u].arc = d
    BY <1>0, <1>1, <2>3, <2>4, <2>6
  <2>10. /\ \A d \in 1..Len(conns') : d > Len(conns) => r.arc = d
         /\ r.arc <= Len(conns') /\ r.ring <= Len(conns') /\ r.host <= Len(conns')
         /\ r.pc # "number"
    BY <1>0, <1>4, <2>1, <2>6 DEF Shape
  <2>11. QED
    BY <1>1, <1>2, <1>3, <1>4, <2>2, <2>5, <2>8, <2>9, <2>10, CallKeeps
<1>7. QED
  BY <1>5, <1>6

\* A call that returns lets go of its channel, unless it is the last to hold it
\* and nobody has taken the RX thread's handle: then Drop closes it.  If it was
\* taken by that thread itself, the thread is on its way out.
LEMMA LeaveStep ==
    ASSUME IInv, NEW t \in Threads, CallChange(t), Leave(t)
    PROVE  IInv'
<1>0. /\ Shape /\ Named /\ Places /\ Joining /\ PlaceOf(t)
      /\ Len(conns) \in Nat /\ nextHandle \in Nat
      /\ api[t].arc \in 0..Len(conns)
  BY DEF IInv, Places, Shape, ApiRec
<1> DEFINE c == api[t].arc
           last == c # 0 /\ Holders(c) = {t} /\ \A h \in DOMAIN table : table[h] # c
<1>1. api[t].pc = "leave" /\ UNCHANGED <<setup, nextHandle, table, issued, conns>>
  BY DEF Leave
<1>2. CASE last /\ conns[c].joinable
  <2>1. Go(t, "stop") /\ api[t].arc # 0
    BY <1>2 DEF Leave
  <2>2. QED
    BY <1>1, <2>1, GoKeeps DEF Moves, Pcs
<1>3. CASE ~(last /\ conns[c].joinable)
  <2>1. api' = [api EXCEPT ![t] = Idle]
    BY <1>3 DEF Leave
  <2>2. /\ Idle \in ApiRec /\ Idle.pc = "idle" /\ Idle.arc = 0 /\ Idle.ring = 0
        /\ Idle.host = 0
    BY IdleRec DEF Idle
  <2>3. PlaceOf(t)'
    <3>1. api'[t] = Idle
      BY <1>0, <2>1, <2>2, ApiMoves
    <3>2. QED
      BY <3>1, IdlePlace
  <2>4. ASSUME NEW d \in 1..Len(conns), conns[d].rx # "done",
               api[t].arc = d \/ \E k \in DOMAIN table : table[k] = d,
               ~\E k \in DOMAIN table : table[k] = d, ~Leaving(d)
        PROVE  \E u \in Threads : u # t /\ api[u].arc = d
    <3>1. c = d /\ t \in Holders(d) /\ c # 0
      BY <2>4 DEF Holders
    <3>2. CASE conns[d].joinable
      <4>1. Holders(d) # {t}
        BY <1>3, <2>4, <3>1, <3>2
      <4>2. QED
        BY <3>1, <4>1 DEF Holders
    <3>3. CASE ~conns[d].joinable
      <4>1. PICK u \in Threads : api[u].pc = "join" /\ api[u].arc = d
        BY <1>0, <2>4, <3>3 DEF Joining
      <4>2. QED
        BY <1>1, <4>1
    <3>4. QED
      BY <3>2, <3>3
  <2>5. \A d \in 1..Len(conns) :
          conns[d].rx # "done"
          /\ (api[t].arc = d \/ \E k \in DOMAIN table : table[k] = d) =>
            \/ Idle.arc = d
            \/ \E k \in DOMAIN table' : table'[k] = d
            \/ \E u \in Threads : u # t /\ api[u].arc = d
            \/ Leaving(d)
    BY <1>1, <2>4
  <2>6. Onward /\ Kept(t)
    BY <1>0, CallOnward
  <2>7. Named' /\ \A k \in DOMAIN table' : table'[k] \in 1..Len(conns')
    BY <1>0, <1>1, <2>6, NumbersStay
  <2>8. /\ Idle.arc <= Len(conns') /\ Idle.ring <= Len(conns') /\ Idle.host <= Len(conns')
        /\ nextHandle' \in Nat /\ nextHandle <= nextHandle'
        /\ issued' \subseteq 1..(nextHandle' - 1) /\ UNCHANGED setup
        /\ Idle.pc # "number"
        /\ \A d \in 1..Len(conns') : d > Len(conns) => Idle.arc = d
    BY <1>0, <1>1, <2>2 DEF Shape
  <2>9. QED
    BY <1>1, <2>1, <2>2, <2>3, <2>5, <2>6, <2>7, <2>8, CallKeeps
<1>4. QED
  BY <1>2, <1>3

-----------------------------------------------------------------------------
(* Every step. *)

LEMMA CallingKeeps == ASSUME IInv, NEW t \in Threads, Calling(t) PROVE IInv'
<1>1. CallChange(t)
  BY CallChanges
<1>2. CASE \/ LockConns(t) \/ Write(t) \/ WriteFails(t) \/ ReadWait(t)
           \/ ReadSync(t) \/ Flush(t) \/ FlushOverflow(t) \/ CloseStop(t)
           \/ CloseTake(t) \/ CloseJoin(t)
  BY <1>1, <1>2, GoSteps
<1>3. CASE Open(t) \/ OpenFails(t) \/ Query(t) \/ Call(t)
  BY <1>1, <1>3, StartSteps
<1>4. CASE StatusLevel(t) \/ StatusOverrun(t) \/ StatusLink(t)
  BY <1>1, <1>4, StatusSteps
<1>5. CASE \/ OpenConnected(t) \/ OpenNumber(t) \/ OpenInsert(t) \/ Lookup(t)
           \/ CloseRemove(t) \/ Leave(t)
  BY <1>1, <1>5, OpenConnectedStep, OpenNumberStep, OpenInsertStep, LookupStep,
     CloseRemoveStep, LeaveStep
<1>6. QED
  BY <1>2, <1>3, <1>4, <1>5 DEF Calling, CallStep

LEMMA RxKeeps == ASSUME IInv, NEW c \in 1..Len(conns), RxThread(c) PROVE IInv'
<1>0. /\ Shape /\ Named /\ Places /\ Joining /\ NoOrphan
      /\ \A u \in Threads : PlaceOf(u)
      /\ Len(conns) \in Nat /\ nextHandle \in Nat
  BY DEF IInv, Places, Shape
<1>1. /\ Onward /\ Len(conns') = Len(conns)
      /\ \A d \in 1..Len(conns) : /\ conns'[d].hnd = conns[d].hnd
                                  /\ conns'[d].joinable = conns[d].joinable
                                  /\ conns[d].rx = "callback" /\ Hosting(d) =>
                                       conns'[d].rx = "callback"
      /\ UNCHANGED <<setup, nextHandle, table, issued, api>>
  BY <1>0, RxOnward DEF tableVars
<1>2. Shape'
  BY <1>0, <1>1 DEF Shape, Onward
<1>3. Named'
  BY <1>0, <1>1 DEF Named, Shape
<1>4. Places'
  <2>1. ASSUME NEW u \in Threads PROVE PlaceOf(u)'
    <3>1. api[u].pc = "number" => conns'[api[u].arc].hnd = 0
      BY <1>0, <1>1 DEF PlaceOf, Shape, ApiRec
    <3>2. api[u].host # 0 => conns'[api[u].host].rx = "callback"
      BY <1>0, <1>1 DEF PlaceOf, Shape, ApiRec, Hosting
    <3>3. QED
      BY <1>0, <1>1, <3>1, <3>2, PlaceStays
  <2>2. QED
    BY <1>0, <1>1, <2>1 DEF Places
<1>5. Joining'
  BY <1>0, <1>1 DEF Joining, Onward
<1>6. NoOrphan'
  <2>1. DOMAIN conns = 1..Len(conns) /\ DOMAIN conns' = 1..Len(conns)
    BY <1>0, <1>1 DEF Shape, Onward
  <2>2. \A d \in 1..Len(conns) : Alive(d)' <=> Alive(d)
    BY <1>1 DEF Alive, Holders
  <2>3. QED
    BY <1>0, <1>1, <2>1, <2>2 DEF NoOrphan, Onward
<1>7. QED
  BY <1>2, <1>3, <1>4, <1>5, <1>6 DEF IInv

LEMMA Initially == Init => IInv
<1>1. SUFFICES ASSUME Init PROVE IInv
  OBVIOUS
<1>2. /\ conns = <<>> /\ Len(conns) = 0 /\ conns \in Seq(ConnRec)
      /\ DOMAIN table = {} /\ issued = {} /\ nextHandle = 1 /\ setup \in Setups
      /\ DOMAIN conns = {}
  BY <1>1 DEF Init
<1>3. /\ api \in [Threads -> ApiRec]
      /\ \A t \in Threads : api[t] = Idle /\ Idle.pc = "idle" /\ Idle.arc = 0
                            /\ Idle.ring = 0 /\ Idle.host = 0 /\ Idle.op = "none"
  <2>1. \A t \in Threads : api[t] = Idle
    BY <1>1 DEF Init
  <2>2. Idle.pc = "idle" /\ Idle.arc = 0 /\ Idle.ring = 0 /\ Idle.host = 0
        /\ Idle.op = "none"
    BY DEF Idle
  <2>3. api \in [Threads -> ApiRec]
    BY <1>1, IdleRec DEF Init
  <2>4. QED
    BY <2>1, <2>2, <2>3
<1>4. Shape
  BY <1>2, <1>3 DEF Shape
<1>5. Named /\ Joining /\ NoOrphan
  BY <1>2 DEF Named, Joining, NoOrphan
<1>6. Places
  BY <1>2, <1>3 DEF Places, PlaceOf, OnRing, CloserPcs
<1>7. QED
  BY <1>4, <1>5, <1>6 DEF IInv

LEMMA Stutters == IInv /\ UNCHANGED vars => IInv'
<1>1. SUFFICES ASSUME IInv, UNCHANGED vars PROVE IInv'
  OBVIOUS
<1>2. UNCHANGED <<setup, lock, nextHandle, table, issued, conns, api>>
  BY <1>1 DEF vars, tableVars
<1>3. /\ Shape' /\ Named' /\ Joining' /\ NoOrphan'
  BY <1>1, <1>2 DEF IInv, Shape, Named, Joining, NoOrphan, Alive, Holders, Leaving
<1>4. Places'
  BY <1>1, <1>2 DEF IInv, Places, PlaceOf
<1>5. QED
  BY <1>3, <1>4 DEF IInv

\* The invariant of the handle table: the calls through it, the connections and
\* their RX threads, whatever the application's threads do.
THEOREM Inductive == Spec => []IInv
<1>1. IInv /\ [Next]_vars => IInv'
  <2>1. SUFFICES ASSUME IInv, [Next]_vars PROVE IInv'
    OBVIOUS
  <2>2. CASE \E t \in Threads : Calling(t)
    BY <2>1, <2>2, CallingKeeps
  <2>3. CASE \E c \in DOMAIN conns : RxThread(c)
    <3>1. DOMAIN conns = 1..Len(conns)
      BY <2>1 DEF IInv, Shape
    <3>2. QED
      BY <2>1, <2>3, <3>1, RxKeeps
  <2>4. CASE UNCHANGED vars
    BY <2>1, <2>4, Stutters
  <2>5. QED
    BY <2>1, <2>2, <2>3, <2>4 DEF Next, Calling, RxThread
<1>2. QED
  BY <1>1, Initially, PTL DEF Spec

-----------------------------------------------------------------------------
(* What is stored into a buffer of the caller. *)

\* A reply that keeps to the size it was given, and a text that ends in it.
Fits(r) ==
    /\ DOMAIN r.stores \subseteq 0..(r.size - 1)
    /\ r.text /\ r.size > 0 => \E n \in 0..(r.size - 1) : r.stores = CString(n)

LEMMA CutText ==
    ASSUME NEW b \in Nat \ {0}, NEW len \in Nat
    PROVE  /\ AtMostSize(len, b - 1) \in 0..(b - 1)
           /\ AtMostSize(b - 1, len) \in 0..(b - 1)
  BY DEF AtMostSize

LEMMA TextFits ==
    ASSUME NEW b \in Nat, NEW n \in Nat, b # 0 => n \in 0..(b - 1), NEW s,
           s = IF b = 0 THEN Nothing ELSE CString(n)
    PROVE  Fits([size |-> b, text |-> TRUE, stores |-> s])
<1>1. CASE b = 0
  BY <1>1 DEF Fits, Nothing
<1>2. CASE b # 0
  <2>1. DOMAIN CString(n) = 0..n
    BY DEF CString
  <2>2. \A i \in 0..n : i \in 0..(b - 1)
    BY <1>2
  <2>3. QED
    BY <1>2, <2>1, <2>2 DEF Fits
<1>3. QED
  BY <1>1, <1>2

LEMMA DataFits ==
    ASSUME NEW b \in Nat, NEW n \in 0..b, NEW s, s = Nothing \/ s = Data(n)
    PROVE  Fits([size |-> b, text |-> FALSE, stores |-> s])
<1>1. DOMAIN Nothing = {} /\ DOMAIN Data(n) = 0..(n - 1)
  BY DEF Nothing, Data
<1>2. \A i \in 0..(n - 1) : i \in 0..(b - 1)
  OBVIOUS
<1>3. QED
  BY <1>1, <1>2 DEF Fits

LEMMA CstrFits ==
    ASSUME NEW b \in Nat, NEW len \in Nat
    PROVE  Fits([size |-> b, text |-> TRUE, stores |-> OutCstr(b, len).stores])
<1> DEFINE n == IF b = 0 THEN 0 ELSE AtMostSize(len, b - 1)
<1>1. n \in Nat /\ (b # 0 => n \in 0..(b - 1))
  BY CutText
<1>2. OutCstr(b, len).stores = IF b = 0 THEN Nothing ELSE CString(n)
  BY DEF OutCstr, Reply
<1> HIDE DEF n
<1>3. QED
  BY <1>1, <1>2, TextFits

LEMMA WordFits ==
    ASSUME NEW b \in Nat
    PROVE  /\ Fits([size |-> b, text |-> FALSE, stores |-> OutU32(b).stores])
           /\ Fits([size |-> b, text |-> FALSE, stores |-> OutU64(b).stores])
           /\ Fits([size |-> b, text |-> FALSE, stores |-> Nothing])
           /\ Fits([size |-> b, text |-> FALSE, stores |-> Data(b)])
<1>1. /\ b >= 4 => 4 \in 0..b
      /\ b >= 8 => 8 \in 0..b
      /\ 0 \in 0..b /\ b \in 0..b
  OBVIOUS
<1>2. \/ b >= 4 /\ OutU32(b).stores = Data(4)
      \/ OutU32(b).stores = Nothing
  BY DEF OutU32, Reply
<1>3. \/ b >= 8 /\ OutU64(b).stores = Data(8)
      \/ OutU64(b).stores = Nothing
  BY DEF OutU64, Reply
<1>4. Fits([size |-> b, text |-> FALSE, stores |-> OutU32(b).stores])
  BY <1>1, <1>2, DataFits
<1>5. Fits([size |-> b, text |-> FALSE, stores |-> OutU64(b).stores])
  BY <1>1, <1>3, DataFits
<1>6. Fits([size |-> b, text |-> FALSE, stores |-> Data(b)])
  BY <1>1, DataFits
<1>7. Fits([size |-> b, text |-> FALSE, stores |-> Nothing])
  BY <1>1, DataFits
<1>8. QED
  BY <1>4, <1>5, <1>6, <1>7

\* Every export, into a buffer of any size.
LEMMA RepliesFitAll == \A b \in Nat : \A r \in Replies(b) : Fits(r)
<1>1. SUFFICES ASSUME NEW b \in Nat, NEW r \in Replies(b) PROVE Fits(r)
  OBVIOUS
<1>2. ASSUME NEW e \in {"ok", "param", "nomsg", "notfound", "other"}
      PROVE  Fits([size |-> b, text |-> TRUE, stores |-> GetErrorText(e, b).stores])
  <2>1. ErrorTextLen(e) \in Nat
    BY DEF ErrorTextLen
  <2> DEFINE n == IF b = 0 THEN 0 ELSE AtMostSize(b - 1, ErrorTextLen(e))
  <2>2. n \in Nat /\ (b # 0 => n \in 0..(b - 1))
    BY <2>1, CutText
  <2>3. GetErrorText(e, b).stores = IF b = 0 THEN Nothing ELSE CString(n)
    BY DEF GetErrorText, Reply
  <2> HIDE DEF n
  <2>4. QED
    BY <2>2, <2>3, TextFits
<1>3. ASSUME NEW i \in {13, 24, 26}, NEW d \in 1..11
      PROVE  Fits([size |-> b, text |-> TRUE, stores |-> GetChannelData(i, d, b).stores])
  <2>1. PICK len \in Nat : GetChannelData(i, d, b) = OutCstr(b, len)
    <3>1. /\ i = 13 => GetChannelData(i, d, b) = OutCstr(b, 15 + d)
          /\ i = 26 => GetChannelData(i, d, b) = OutCstr(b, 22)
          /\ i = 24 => GetChannelData(i, d, b) = OutCstr(b, 10)
      BY DEF GetChannelData
    <3>2. 15 + d \in Nat /\ 22 \in Nat /\ 10 \in Nat
      OBVIOUS
    <3>3. QED
      BY <3>1, <3>2
  <2>2. QED
    BY <2>1, CstrFits
<1>4. ASSUME NEW i \in 0..12
      PROVE  Fits([size |-> b, text |-> FALSE, stores |-> GetChannelData(i, 1, b).stores])
  <2>1. \/ GetChannelData(i, 1, b) = OutU32(b)
        \/ GetChannelData(i, 1, b) = OutU64(b)
        \/ GetChannelData(i, 1, b).stores = Nothing
    BY DEF GetChannelData, Reply
  <2>2. QED
    BY <2>1, WordFits
<1>5. ASSUME NEW f \in 0..14
      PROVE  Fits([size |-> b, text |-> FALSE, stores |-> IoCtl(f, b).stores])
  <2>1. IoCtl(f, b) = OutU32(b) \/ IoCtl(f, b).stores = Nothing
    BY DEF IoCtl, Reply
  <2>2. QED
    BY <2>1, WordFits
<1>6. Fits([size |-> b, text |-> FALSE, stores |-> GetBusStatistics(b).stores])
  <2>1. GetBusStatistics(b).stores = Data(b)
    BY DEF GetBusStatistics, Reply
  <2>2. QED
    BY <2>1, WordFits
<1> DEFINE Texts == {[size |-> b, text |-> TRUE, stores |-> GetErrorText(e, b).stores] :
                       e \in {"ok", "param", "nomsg", "notfound", "other"}}
           Names == {[size |-> b, text |-> TRUE, stores |-> GetChannelData(i, d, b).stores] :
                       i \in {13, 24, 26}, d \in 1..11}
           Items == {[size |-> b, text |-> FALSE, stores |-> GetChannelData(i, 1, b).stores] :
                       i \in 0..12}
           Ctls == {[size |-> b, text |-> FALSE, stores |-> IoCtl(f, b).stores] :
                       f \in 0..14}
           Stats == {[size |-> b, text |-> FALSE, stores |-> GetBusStatistics(b).stores]}
<1>7. Replies(b) = Texts \cup Names \cup Items \cup Ctls \cup Stats
  BY DEF Replies
<1>8. CASE r \in Texts
  BY <1>2, <1>8
<1>9. CASE r \in Names
  <2>1. PICK i \in {13, 24, 26}, d \in 1..11 :
          r = [size |-> b, text |-> TRUE, stores |-> GetChannelData(i, d, b).stores]
    BY <1>9
  <2>2. QED
    BY <1>3, <2>1
<1>10. CASE r \in Items
  BY <1>4, <1>10
<1>11. CASE r \in Ctls
  BY <1>5, <1>11
<1>12. CASE r \in Stats
  BY <1>6, <1>12
<1> HIDE DEF Texts, Names, Items, Ctls, Stats
<1>13. QED
  BY <1>1, <1>7, <1>8, <1>9, <1>10, <1>11, <1>12

-----------------------------------------------------------------------------
(* The theorems. *)

\* A handle names one channel for ever: NEXT_HANDLE never gives a number twice,
\* the table holds a channel under its own number, and a call that has looked its
\* handle up works on the channel the handle was returned for, whatever opens and
\* closes the other threads make (canOpenChannel, with_conn, canClose).
THEOREM HandleNamesOneChannelCorrect == Spec => []HandleNamesOneChannel
<1>1. IInv => HandleNamesOneChannel
  <2>1. SUFFICES ASSUME IInv PROVE HandleNamesOneChannel
    OBVIOUS
  <2>2. DOMAIN conns = 1..Len(conns)
    BY <2>1 DEF IInv, Shape
  <2>3. QED
    BY <2>1, <2>2 DEF IInv, Named, Places, PlaceOf, HandleNamesOneChannel
<1>2. QED
  BY <1>1, Inductive, PTL

\* No RX thread, and with it no socket, is left to itself: the last to let go of a
\* channel has joined its thread, or runs Drop and closes it itself, or is that
\* thread, which closed its own channel from its callback and was only detached,
\* and which then has no receive left to do (canClose, Conn::close, Drop for Conn).
THEOREM NoOrphanCorrect == Spec => []NoOrphan
<1>1. IInv => NoOrphan
  BY DEF IInv
<1>2. QED
  BY <1>1, Inductive, PTL

\* No export stores past the size its caller stated, and a text that is stored is
\* terminated inside the buffer, cut where it must be (out_u32, out_u64, out_cstr,
\* canGetErrorText, canGetChannelData, canIoCtl, canGetBusStatistics).
THEOREM RepliesFitCorrect == Spec => []RepliesFit
<1>1. \A r \in Answers : Fits(r)
  <2>1. Fits(NoReply)
    BY DEF Fits, NoReply, Nothing
  <2>2. BufSizes \subseteq Nat
    BY DEF BufSizes
  <2>3. QED
    BY <2>1, <2>2, RepliesFitAll DEF Answers
<1>2. IInv => RepliesFit
  <2>1. SUFFICES ASSUME IInv PROVE RepliesFit
    OBVIOUS
  <2>2. \A t \in Threads : api[t].reply \in Answers
    BY <2>1 DEF IInv, Shape, ApiRec
  <2>3. QED
    BY <1>1, <2>2 DEF RepliesFit, Fits
<1>3. QED
  BY <1>2, Inductive, PTL

=============================================================================
