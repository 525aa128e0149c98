---------------------------- MODULE RxRingProofs ----------------------------
(***************************************************************************)
(* Theorems about RxRing for every ring capacity, every set of threads and *)
(* calls, every filter and any number of frames.                           *)
(***************************************************************************)
EXTENDS RxRing, FiniteSetTheorems, TLAPS

\* Number of the last frame whose fate is decided.
Last == IF rx = "enqueue" THEN arrived - 1 ELSE arrived

\* Frames that were read or are queued are older than the one being pushed.
Newest ==
    /\ \A i \in 1..Len(q) : q[i] <= Last
    /\ \A i \in 1..Len(got) : got[i] <= Last

\* A thread about to wait holds the lock under which it found nothing to do.
ParkingSound ==
    \A t \in Threads : pc[t] = "parking" => q = <<>> /\ ~closed

-----------------------------------------------------------------------------
(* Sequences. *)

LEMMA AppendFacts ==
    ASSUME NEW S, NEW s \in Seq(S), NEW e \in S
    PROVE  /\ Append(s, e) \in Seq(S)
           /\ Len(Append(s, e)) = Len(s) + 1
           /\ \A i \in 1..Len(s) : Append(s, e)[i] = s[i]
           /\ Append(s, e)[Len(s) + 1] = e
  OBVIOUS

LEMMA TailFacts ==
    ASSUME NEW S, NEW s \in Seq(S), s # <<>>
    PROVE  /\ Head(s) \in S
           /\ Head(s) = s[1]
           /\ Tail(s) \in Seq(S)
           /\ Len(s) >= 1
           /\ Len(Tail(s)) = Len(s) - 1
           /\ \A i \in 1..Len(Tail(s)) : Tail(s)[i] = s[i + 1]
  OBVIOUS

-----------------------------------------------------------------------------
(* Type correctness. *)

LEMMA Numbers == RING_CAP \in Nat /\ RING_CAP >= 1 /\ MaxFrames \in Nat
  BY RingAssumption DEF RingAssumption

LEMMA TypeInit == Init => TypeOK
<1> SUFFICES ASSUME Init PROVE TypeOK
  OBVIOUS
<1>1. RingOK
  BY Numbers DEF Init, RingOK
<1>2. FlagsOK
  BY DEF Init, FlagsOK
<1>3. RxOK
  BY Numbers DEF Init, RxOK, Accept
<1>4. ThreadsOK
  BY DEF Init, ThreadsOK, NoCall
<1>5. QED
  BY <1>1, <1>2, <1>3, <1>4 DEF TypeOK

\* A read leaves the ring and the record of what was delivered well formed.
LEMMA TakeFrontType ==
    ASSUME RingOK, NEW op, TakeFront(op),
           UNCHANGED <<dropped, raced, flushed, filtered>>
    PROVE  RingOK'
<1>1. CASE op # "peek_wait" /\ q # <<>>
  <2>1. Head(q) \in Frame /\ Tail(q) \in Seq(Frame) /\ Len(Tail(q)) <= Len(q)
    BY <1>1, TailFacts DEF RingOK
  <2>2. Append(got, Head(q)) \in Seq(Frame)
    BY <2>1, AppendFacts DEF RingOK
  <2>3. Len(q) \in Nat /\ Len(Tail(q)) \in Nat
    BY <2>1 DEF RingOK
  <2>4. q' = Tail(q) /\ got' = Append(got, Head(q))
    BY <1>1 DEF TakeFront
  <2>5. QED
    BY <2>1, <2>2, <2>3, <2>4, Numbers DEF RingOK
<1>2. CASE ~(op # "peek_wait" /\ q # <<>>)
  BY <1>2 DEF TakeFront, RingOK
<1>3. QED
  BY <1>1, <1>2

\* An action that moves one thread to another place in its code.
LEMMA MoveType ==
    ASSUME ThreadsOK, NEW t \in Threads,
           NEW v \in {"idle", "clearing", "closing"} \cup Blocked,
           pc' = [pc EXCEPT ![t] = v], UNCHANGED <<call, calls>>
    PROVE  ThreadsOK'
  BY DEF ThreadsOK

\* Every step preserves the types and the capacity of the ring.
LEMMA TypeStep == TypeOK /\ [Next]_vars => TypeOK'
<1> SUFFICES ASSUME TypeOK, [Next]_vars PROVE TypeOK'
  OBVIOUS
<1> USE DEF TypeOK
<1>1. ASSUME NEW id \in CanIds, PushFilter(id) PROVE TypeOK'
  <2>1. RingOK'
    <3>1. arrived + 1 \in Frame
      BY <1>1, Numbers DEF PushFilter, RxOK, Frame
    <3>2. QED
      BY <1>1, <3>1 DEF PushFilter, RingOK, ringVars
  <2>2. RxOK'
    BY <1>1, Numbers DEF PushFilter, RxOK, ringVars
  <2>3. FlagsOK' /\ ThreadsOK'
    BY <1>1 DEF PushFilter, FlagsOK, ThreadsOK, ringVars
  <2>4. QED
    BY <2>1, <2>2, <2>3
<1>2. ASSUME PushEnqueue PROVE TypeOK'
  <2>1. cur \in Frame
    BY <1>2, Numbers
    DEF PushEnqueue, Pushing, DropNewcomer, Enqueue, RxOK, Frame
  <2>2. RingOK'
    <3>1. CASE Len(q) >= RING_CAP
      <4>1. Len(q) \in Nat
        BY DEF RingOK
      <4>2. QED
        BY <1>2, <2>1, <3>1, <4>1, Numbers
        DEF PushEnqueue, Pushing, DropNewcomer, Enqueue, RingOK
    <3>2. CASE Len(q) < RING_CAP
      <4>1. q' \in Seq(Frame) /\ Len(q') = Len(q) + 1 /\ Len(q) \in Nat
        BY <1>2, <2>1, <3>2, Numbers, AppendFacts
        DEF PushEnqueue, Pushing, DropNewcomer, Enqueue, RingOK
      <4>2. QED
        BY <1>2, <3>2, <4>1, Numbers
        DEF PushEnqueue, Pushing, DropNewcomer, Enqueue, RingOK
    <3>3. QED
      BY <1>2, <3>1, <3>2 DEF PushEnqueue, Pushing, DropNewcomer, Enqueue
  <2>3. RxOK'
    BY <1>2 DEF PushEnqueue, Pushing, DropNewcomer, Enqueue, RxOK
  <2>4. FlagsOK' /\ ThreadsOK'
    BY <1>2
    DEF PushEnqueue, Pushing, DropNewcomer, Enqueue, FlagsOK, ThreadsOK
  <2>5. QED
    BY <2>2, <2>3, <2>4
<1>3. ASSUME PushNotifyOne PROVE TypeOK'
  <2>1. ThreadsOK'
    BY <1>3 DEF PushNotifyOne, ThreadsOK, Parked, Blocked
  <2>2. RingOK' /\ RxOK' /\ FlagsOK'
    BY <1>3 DEF PushNotifyOne, RingOK, RxOK, FlagsOK, ringVars, histVars
  <2>3. QED
    BY <2>1, <2>2
<1>4. ASSUME NEW t \in Threads, Pop(t) PROVE TypeOK'
  <2>1. RingOK'
    BY <1>4, TakeFrontType DEF Pop
  <2>2. RxOK' /\ FlagsOK' /\ ThreadsOK'
    BY <1>4 DEF Pop, RxOK, FlagsOK, ThreadsOK, rxVars
  <2>3. QED
    BY <2>1, <2>2
<1>5. ASSUME NEW t \in Threads, NEW op \in {"pop_wait", "peek_wait"},
             NEW w \in Timeouts, ReadWait(t, op, w)
      PROVE  TypeOK'
  <2>1. RingOK'
    BY <1>5, TakeFrontType DEF ReadWait, RingOK
  <2>2. ThreadsOK'
    BY <1>5, RingAssumption DEF ReadWait, ThreadsOK, Blocked, RingAssumption
  <2>3. RxOK' /\ FlagsOK'
    BY <1>5 DEF ReadWait, RxOK, FlagsOK, rxVars
  <2>4. QED
    BY <2>1, <2>2, <2>3
<1>6. ASSUME NEW t \in Threads, Park(t) \/ Expire(t) \/ SpuriousWake(t)
      PROVE  TypeOK'
  <2>1. ThreadsOK'
    BY <1>6, MoveType DEF Park, Expire, SpuriousWake, Blocked
  <2>2. RingOK' /\ RxOK' /\ FlagsOK'
    BY <1>6 DEF Park, Expire, SpuriousWake, RingOK, RxOK, FlagsOK, ringVars,
                rxVars, histVars
  <2>3. QED
    BY <2>1, <2>2
<1>7. ASSUME NEW t \in Threads, Resume(t) PROVE TypeOK'
  <2>1. RingOK'
    BY <1>7, TakeFrontType DEF Resume, RingOK
  <2>2. ThreadsOK'
    BY <1>7 DEF Resume, ThreadsOK, Blocked, NoCall
  <2>3. RxOK' /\ FlagsOK'
    BY <1>7 DEF Resume, RxOK, FlagsOK, rxVars
  <2>4. QED
    BY <2>1, <2>2, <2>3
<1>8. ASSUME NEW t \in Threads, ClearRing(t) PROVE TypeOK'
  <2>1. RingOK'
    BY <1>8, Numbers DEF ClearRing, RingOK, Elems
  <2>2. ThreadsOK'
    BY <1>8, MoveType DEF ClearRing
  <2>3. RxOK' /\ FlagsOK'
    BY <1>8 DEF ClearRing, RxOK, FlagsOK, rxVars
  <2>4. QED
    BY <2>1, <2>2, <2>3
<1>9. ASSUME NEW t \in Threads, ClearOverflow(t) PROVE TypeOK'
  <2>1. ThreadsOK'
    BY <1>9, MoveType DEF ClearOverflow
  <2>2. FlagsOK'
    BY <1>9 DEF ClearOverflow, FlagsOK
  <2>3. RingOK' /\ RxOK'
    BY <1>9 DEF ClearOverflow, RingOK, RxOK, rxVars, histVars
  <2>4. QED
    BY <2>1, <2>2, <2>3
<1>10. ASSUME NEW t \in Threads, MarkClosed(t) PROVE TypeOK'
  <2>1. ThreadsOK'
    BY <1>10, MoveType DEF MarkClosed
  <2>2. FlagsOK'
    BY <1>10 DEF MarkClosed, FlagsOK
  <2>3. RingOK' /\ RxOK'
    BY <1>10 DEF MarkClosed, RingOK, RxOK, rxVars, histVars
  <2>4. QED
    BY <2>1, <2>2, <2>3
<1>11. ASSUME NEW t \in Threads, NotifyAll(t) PROVE TypeOK'
  <2>1. ThreadsOK'
    BY <1>11 DEF NotifyAll, ThreadsOK, Blocked
  <2>2. RingOK' /\ RxOK' /\ FlagsOK'
    BY <1>11 DEF NotifyAll, RingOK, RxOK, FlagsOK, ringVars, rxVars, histVars
  <2>3. QED
    BY <2>1, <2>2
<1>12. ASSUME NEW t \in Threads, NEW d \in Directive, NEW e \in Envelopes,
              SetAccept(t, d, e)
       PROVE  TypeOK'
  <2>1. RxOK'
    BY <1>12, RingAssumption
    DEF SetAccept, RxOK, Accept, rxVars, RingAssumption
  <2>2. RingOK' /\ FlagsOK' /\ ThreadsOK'
    BY <1>12 DEF SetAccept, RingOK, FlagsOK, ThreadsOK, histVars
  <2>3. QED
    BY <2>1, <2>2
<1>13. CASE UNCHANGED vars
  BY <1>13 DEF vars, RingOK, RxOK, FlagsOK, ThreadsOK
<1>14. QED
  BY <1>1, <1>2, <1>3, <1>4, <1>5, <1>6, <1>7, <1>8, <1>9, <1>10, <1>11,
     <1>12, <1>13
  DEF Next, RxThread, AppThread

\* The types hold in every reachable state, and the ring never grows past
\* RING_CAP, for every number of threads and frames.
THEOREM TypeCorrect == Spec => []TypeOK
  BY TypeInit, TypeStep, PTL DEF Spec

-----------------------------------------------------------------------------
(* Order of delivery.  Fifo is not inductive: that the frame being pushed  *)
(* is younger than every other one has to be carried along.                *)

\* A read moves the oldest queued frame to the end of what was delivered.
LEMMA TakeFrontOrder ==
    ASSUME TypeOK, Fifo, Newest, NEW op, TakeFront(op), Last' = Last
    PROVE  Fifo' /\ Newest'
<1>1. CASE op # "peek_wait" /\ q # <<>>
  <2>1. /\ q \in Seq(Frame) /\ got \in Seq(Frame)
        /\ Len(q) \in Nat /\ Len(got) \in Nat
    BY DEF TypeOK, RingOK
  <2>2. q' = Tail(q) /\ got' = Append(got, Head(q))
    BY <1>1 DEF TakeFront
  <2>3. /\ Len(q) >= 1 /\ Len(q') = Len(q) - 1
        /\ \A i \in 1..Len(q') : q'[i] = q[i + 1]
    BY <1>1, <2>1, <2>2, TailFacts
  <2>4. /\ Len(got') = Len(got) + 1
        /\ \A i \in 1..Len(got) : got'[i] = got[i]
        /\ got'[Len(got) + 1] = q[1]
    BY <1>1, <2>1, <2>2, TailFacts, AppendFacts
  <2>5. \A i, j \in 1..Len(q') : i < j => q'[i] < q'[j]
    BY <2>1, <2>3 DEF Fifo
  <2>6. \A i, j \in 1..Len(got') : i < j => got'[i] < got'[j]
    BY <2>1, <2>3, <2>4 DEF Fifo
  <2>7. \A i \in 1..Len(got'), j \in 1..Len(q') : got'[i] < q'[j]
    BY <2>1, <2>3, <2>4 DEF Fifo
  <2>8. \A i \in 1..Len(q') : q'[i] <= Last'
    BY <2>1, <2>3 DEF Newest
  <2>9. \A i \in 1..Len(got') : got'[i] <= Last'
    BY <2>1, <2>3, <2>4 DEF Newest
  <2>10. QED
    BY <2>5, <2>6, <2>7, <2>8, <2>9 DEF Fifo, Newest
<1>2. CASE ~(op # "peek_wait" /\ q # <<>>)
  BY <1>2 DEF TakeFront, Fifo, Newest
<1>3. QED
  BY <1>1, <1>2

LEMMA OrderStep == TypeOK /\ Fifo /\ Newest /\ [Next]_vars => Fifo' /\ Newest'
<1> SUFFICES ASSUME TypeOK, Fifo, Newest, [Next]_vars PROVE Fifo' /\ Newest'
  OBVIOUS
<1>0. /\ q \in Seq(Frame) /\ got \in Seq(Frame)
      /\ Len(q) \in Nat /\ Len(got) \in Nat
      /\ \A i \in 1..Len(q) : q[i] \in Nat
      /\ \A i \in 1..Len(got) : got[i] \in Nat
  BY Numbers DEF TypeOK, RingOK, Frame
<1>1. ASSUME NEW id \in CanIds, PushFilter(id) PROVE Fifo' /\ Newest'
  <2>1. Last \in Nat /\ Last' \in Nat /\ Last <= Last'
    BY <1>1, Numbers DEF PushFilter, Last, TypeOK, RxOK
  <2>2. q' = q /\ got' = got
    BY <1>1 DEF PushFilter, ringVars
  <2>3. QED
    BY <1>0, <2>1, <2>2 DEF Fifo, Newest
<1>2. ASSUME PushEnqueue PROVE Fifo' /\ Newest'
  <2>1. /\ Last = arrived - 1 /\ Last' = arrived /\ cur = arrived
        /\ arrived \in Nat /\ arrived >= 1 /\ got' = got
    BY <1>2, Numbers
    DEF PushEnqueue, Pushing, DropNewcomer, Enqueue, Last, TypeOK, RxOK
  <2>2. CASE q' = q
    BY <1>0, <2>1, <2>2 DEF Fifo, Newest
  <2>3. CASE q' = Append(q, cur)
    <3>1. cur \in Frame
      BY <2>1, Numbers DEF Frame, TypeOK, RxOK
    <3>2. /\ Len(q') = Len(q) + 1
          /\ \A i \in 1..Len(q) : q'[i] = q[i]
          /\ q'[Len(q) + 1] = cur
      BY <1>0, <2>3, <3>1, AppendFacts
    <3>3. ASSUME NEW i \in 1..Len(q'), NEW j \in 1..Len(q'), i < j
          PROVE  q'[i] < q'[j]
      <4>1. i \in 1..Len(q) /\ q'[i] = q[i]
        BY <1>0, <3>2, <3>3
      <4>2. CASE j \in 1..Len(q)
        BY <3>2, <3>3, <4>1, <4>2 DEF Fifo
      <4>3. CASE j = Len(q) + 1
        BY <1>0, <2>1, <3>2, <4>1, <4>3 DEF Newest
      <4>4. QED
        BY <1>0, <3>2, <4>2, <4>3
    <3>4. ASSUME NEW i \in 1..Len(got'), NEW j \in 1..Len(q')
          PROVE  got'[i] < q'[j]
      <4>1. CASE j \in 1..Len(q)
        BY <2>1, <3>2, <4>1 DEF Fifo
      <4>2. CASE j = Len(q) + 1
        BY <1>0, <2>1, <3>2, <4>2 DEF Newest
      <4>3. QED
        BY <1>0, <3>2, <4>1, <4>2
    <3>5. \A i \in 1..Len(q') : q'[i] <= Last'
      <4>1. \A i \in 1..Len(q) : q'[i] <= Last'
        BY <1>0, <2>1, <3>2 DEF Newest
      <4>2. q'[Len(q) + 1] <= Last'
        BY <2>1, <3>2
      <4>3. QED
        BY <1>0, <3>2, <4>1, <4>2
    <3>6. \A i \in 1..Len(got') : got'[i] <= Last'
      BY <1>0, <2>1 DEF Newest
    <3>7. \A i, j \in 1..Len(got') : i < j => got'[i] < got'[j]
      BY <2>1 DEF Fifo
    <3>8. QED
      BY <3>3, <3>4, <3>5, <3>6, <3>7 DEF Fifo, Newest
  <2>4. QED
    BY <1>2, <2>2, <2>3 DEF PushEnqueue, Pushing, DropNewcomer, Enqueue
<1>3. ASSUME NEW t \in Threads,
             \/ Pop(t)
             \/ \E op \in {"pop_wait", "peek_wait"}, w \in Timeouts :
                    ReadWait(t, op, w)
             \/ Resume(t)
      PROVE  Fifo' /\ Newest'
  <2>1. Last' = Last
    BY <1>3 DEF Pop, ReadWait, Resume, Last, rxVars
  <2>2. \/ \E op : TakeFront(op)
        \/ q' = q /\ got' = got
    BY <1>3 DEF Pop, ReadWait, Resume
  <2>3. QED
    BY <2>1, <2>2, TakeFrontOrder DEF Fifo, Newest
<1>4. ASSUME NEW t \in Threads, ClearRing(t) PROVE Fifo' /\ Newest'
  BY <1>0, <1>4 DEF ClearRing, Fifo, Newest, Last, rxVars
<1>5. CASE q' = q /\ got' = got /\ Last' = Last
  BY <1>5 DEF Fifo, Newest
<1>6. QED
  <2>1. ASSUME PushNotifyOne PROVE q' = q /\ got' = got /\ Last' = Last
    BY <2>1 DEF PushNotifyOne, ringVars, histVars, Last
  <2>2. ASSUME NEW t \in Threads, 
               \/ Park(t) \/ Expire(t) \/ SpuriousWake(t)
               \/ ClearOverflow(t) \/ MarkClosed(t) \/ NotifyAll(t)
               \/ \E d \in Directive, e \in Envelopes : SetAccept(t, d, e)
        PROVE  q' = q /\ got' = got /\ Last' = Last
    BY <2>2 DEF Park, Expire, SpuriousWake, ClearOverflow, MarkClosed,
                NotifyAll, SetAccept, ringVars, rxVars, histVars, Last
  <2>3. CASE UNCHANGED vars
    BY <1>5, <2>3 DEF vars, Last
  <2>4. QED
    BY <1>1, <1>2, <1>3, <1>4, <1>5, <2>1, <2>2, <2>3
    DEF Next, RxThread, AppThread

\* Frames are read in the order of their arrival and none is read twice, for
\* any number of concurrent readers and flushes.
THEOREM FifoCorrect == Spec => []Fifo
<1>1. Init => Fifo /\ Newest
  BY DEF Init, Fifo, Newest
<1>2. QED
  BY <1>1, TypeInit, TypeStep, OrderStep, PTL DEF Spec

-----------------------------------------------------------------------------
(* Accounting.  OneFate speaks of the frames that arrived; to be inductive *)
(* it must also say that nothing else is in the ring or in the records.    *)

\* Every fate is disjoint from those before it, and together they are the
\* frames that arrived.
Partition ==
    /\ Elems(q) \cap Elems(got) = {}
    /\ dropped \cap (Elems(q) \cup Elems(got)) = {}
    /\ flushed \cap (Elems(q) \cup Elems(got) \cup dropped) = {}
    /\ filtered \cap (Elems(q) \cup Elems(got) \cup dropped \cup flushed) = {}
    /\ InFlight \cap (Elems(q) \cup Elems(got) \cup dropped \cup flushed
                      \cup filtered) = {}
    /\ Elems(q) \cup Elems(got) \cup dropped \cup flushed \cup filtered
       \cup InFlight = 1..arrived

LEMMA AppendElems ==
    ASSUME NEW S, NEW s \in Seq(S), NEW e \in S
    PROVE  Elems(Append(s, e)) = Elems(s) \cup {e}
<1>1. /\ DOMAIN s = 1..Len(s) /\ Len(s) \in Nat
      /\ DOMAIN Append(s, e) = 1..(Len(s) + 1)
  BY AppendFacts
<1>2. \A i \in 1..Len(s) : Append(s, e)[i] = s[i]
  BY AppendFacts
<1>3. Append(s, e)[Len(s) + 1] = e
  BY AppendFacts
<1>4. QED
  BY <1>1, <1>2, <1>3 DEF Elems

\* Taking the first element of a sequence without repetition removes it.
LEMMA TailElems ==
    ASSUME NEW S, NEW s \in Seq(S), s # <<>>,
           \A i, j \in 1..Len(s) : i < j => s[i] # s[j]
    PROVE  /\ Head(s) \in Elems(s)
           /\ Elems(Tail(s)) = Elems(s) \ {Head(s)}
<1>1. /\ DOMAIN s = 1..Len(s) /\ DOMAIN Tail(s) = 1..Len(Tail(s))
      /\ Len(s) \in Nat /\ Len(s) >= 1 /\ Len(Tail(s)) = Len(s) - 1
      /\ Head(s) = s[1]
      /\ \A i \in 1..Len(Tail(s)) : Tail(s)[i] = s[i + 1]
  BY TailFacts
<1>2. Head(s) \in Elems(s)
  BY <1>1 DEF Elems
<1>3. ASSUME NEW i \in 1..Len(Tail(s))
      PROVE  Tail(s)[i] \in Elems(s) \ {Head(s)}
  BY <1>1, <1>3 DEF Elems
<1>4. ASSUME NEW i \in 1..Len(s), s[i] # Head(s)
      PROVE  s[i] \in Elems(Tail(s))
  <2>1. i - 1 \in 1..Len(Tail(s)) /\ s[i] = Tail(s)[i - 1]
    BY <1>1, <1>4
  <2>2. QED
    BY <1>1, <2>1 DEF Elems
<1>5. QED
  BY <1>1, <1>2, <1>3, <1>4 DEF Elems

\* A read moves one frame from the queued ones to the delivered ones.
LEMMA TakeFrontElems ==
    ASSUME TypeOK, Fifo, NEW op, TakeFront(op)
    PROVE  \/ Elems(q') = Elems(q) /\ Elems(got') = Elems(got)
           \/ \E n \in Elems(q) : /\ Elems(q') = Elems(q) \ {n}
                                  /\ Elems(got') = Elems(got) \cup {n}
<1>1. CASE op # "peek_wait" /\ q # <<>>
  <2>1. q \in Seq(Frame) /\ got \in Seq(Frame) /\ Len(q) \in Nat
    BY DEF TypeOK, RingOK
  <2>2. \A i, j \in 1..Len(q) : i < j => q[i] # q[j]
    <3>1. \A i \in 1..Len(q) : q[i] \in Nat
      BY <2>1, Numbers DEF Frame
    <3>2. QED
      BY <3>1 DEF Fifo
  <2>3. Head(q) \in Elems(q) /\ Elems(Tail(q)) = Elems(q) \ {Head(q)}
    BY <1>1, <2>1, <2>2, TailElems
  <2>4. Elems(Append(got, Head(q))) = Elems(got) \cup {Head(q)}
    BY <1>1, <2>1, TailFacts, AppendElems
  <2>5. q' = Tail(q) /\ got' = Append(got, Head(q))
    BY <1>1 DEF TakeFront
  <2>6. QED
    BY <2>3, <2>4, <2>5
<1>2. CASE ~(op # "peek_wait" /\ q # <<>>)
  BY <1>2 DEF TakeFront
<1>3. QED
  BY <1>1, <1>2

\* A step that at most moves one frame from the queue to the reader.
LEMMA PartitionKept ==
    ASSUME TypeOK, Fifo, Partition,
           \/ UNCHANGED <<q, got>>
           \/ \E op : TakeFront(op),
           UNCHANGED <<dropped, flushed, filtered, rx, cur, arrived>>
    PROVE  Partition'
<1>1. InFlight' = InFlight
  BY DEF InFlight
<1>2. CASE Elems(q') = Elems(q) /\ Elems(got') = Elems(got)
  BY <1>1, <1>2 DEF Partition
<1>3. ASSUME NEW n \in Elems(q), Elems(q') = Elems(q) \ {n},
             Elems(got') = Elems(got) \cup {n}
      PROVE  Partition'
  BY <1>1, <1>3 DEF Partition
<1>4. QED
  BY <1>2, <1>3, TakeFrontElems

LEMMA PartitionStep ==
    TypeOK /\ Fifo /\ Partition /\ [Next]_vars => Partition'
<1> SUFFICES ASSUME TypeOK, Fifo, Partition, [Next]_vars PROVE Partition'
  OBVIOUS
<1>1. ASSUME NEW id \in CanIds, PushFilter(id) PROVE Partition'
  <2>1. arrived \in Nat /\ 1..(arrived + 1) = 1..arrived \cup {arrived + 1}
        /\ arrived + 1 \notin 1..arrived
    BY Numbers DEF TypeOK, RxOK
  <2>2. /\ arrived' = arrived + 1
        /\ UNCHANGED <<q, got, dropped, flushed>>
    BY <1>1 DEF PushFilter, ringVars
  <2>3. CASE rx' = "enqueue"
    <3>1. InFlight = {} /\ InFlight' = {arrived + 1} /\ filtered' = filtered
      BY <1>1, <2>3 DEF PushFilter, InFlight
    <3>2. QED
      BY <2>1, <2>2, <3>1 DEF Partition
  <2>4. CASE rx' # "enqueue"
    <3>1. /\ InFlight = {} /\ InFlight' = {}
          /\ filtered' = filtered \cup {arrived + 1}
      BY <1>1, <2>4 DEF PushFilter, InFlight
    <3>2. QED
      BY <2>1, <2>2, <3>1 DEF Partition
  <2>5. QED
    BY <2>3, <2>4
<1>2. ASSUME PushEnqueue PROVE Partition'
  <2>1. InFlight = {cur} /\ InFlight' = {}
    BY <1>2 DEF PushEnqueue, Pushing, DropNewcomer, Enqueue, InFlight
  <2>2. UNCHANGED <<got, flushed, filtered, arrived>>
    BY <1>2 DEF PushEnqueue, Pushing, DropNewcomer, Enqueue
  <2>3. CASE q' = q /\ dropped' = dropped \cup {cur}
    BY <2>1, <2>2, <2>3 DEF Partition
  <2>4. CASE q' = Append(q, cur) /\ dropped' = dropped
    <3>1. q \in Seq(Frame) /\ cur \in Frame
      BY <1>2, Numbers
      DEF PushEnqueue, Pushing, DropNewcomer, Enqueue, TypeOK, RingOK, RxOK,
          Frame
    <3>2. Elems(q') = Elems(q) \cup {cur}
      BY <2>4, <3>1, AppendElems
    <3>3. QED
      BY <2>1, <2>2, <2>4, <3>2 DEF Partition
  <2>5. QED
    BY <1>2, <2>3, <2>4 DEF PushEnqueue, Pushing, DropNewcomer, Enqueue
<1>3. ASSUME PushNotifyOne PROVE Partition'
  <2>1. InFlight' = InFlight
    BY <1>3 DEF PushNotifyOne, InFlight
  <2>2. UNCHANGED <<q, arrived, histVars>>
    BY <1>3 DEF PushNotifyOne, ringVars
  <2>3. QED
    BY <2>1, <2>2 DEF Partition, histVars
<1>4. ASSUME NEW t \in Threads,
             \/ Pop(t)
             \/ \E op \in {"pop_wait", "peek_wait"}, w \in Timeouts :
                    ReadWait(t, op, w)
             \/ Resume(t)
      PROVE  Partition'
  <2>1. UNCHANGED <<dropped, flushed, filtered, rx, cur, arrived>>
    BY <1>4 DEF Pop, ReadWait, Resume, rxVars
  <2>2. UNCHANGED <<q, got>> \/ \E op : TakeFront(op)
    BY <1>4 DEF Pop, ReadWait, Resume
  <2>3. QED
    BY <2>1, <2>2, PartitionKept
<1>5. ASSUME NEW t \in Threads, ClearRing(t) PROVE Partition'
  <2>1. Elems(q') = {} /\ flushed' = flushed \cup Elems(q)
    BY <1>5 DEF ClearRing, Elems
  <2>2. UNCHANGED <<got, dropped, filtered, rx, cur, arrived>>
    BY <1>5 DEF ClearRing, rxVars
  <2>3. InFlight' = InFlight
    BY <2>2 DEF InFlight
  <2>4. QED
    BY <2>1, <2>2, <2>3 DEF Partition
<1>6. ASSUME NEW t \in Threads,
             \/ Park(t) \/ Expire(t) \/ SpuriousWake(t)
             \/ ClearOverflow(t) \/ MarkClosed(t) \/ NotifyAll(t)
             \/ \E d \in Directive, e \in Envelopes : SetAccept(t, d, e)
      PROVE  Partition'
  <2>1. UNCHANGED <<q, rx, cur, arrived, got, dropped, flushed, filtered>>
    BY <1>6 DEF Park, Expire, SpuriousWake, ClearOverflow, MarkClosed,
                NotifyAll, SetAccept, ringVars, rxVars, histVars
  <2>2. QED
    BY <2>1, PartitionKept
<1>7. CASE UNCHANGED vars
  BY <1>7, PartitionKept DEF vars
<1>8. QED
  BY <1>1, <1>2, <1>3, <1>4, <1>5, <1>6, <1>7 DEF Next, RxThread, AppThread

LEMMA PartitionGivesOneFate == Partition => OneFate
<1> SUFFICES ASSUME Partition, NEW n \in 1..arrived
             PROVE  \E i \in DOMAIN Fates :
                        /\ n \in Fates[i]
                        /\ \A j \in DOMAIN Fates : n \in Fates[j] => j = i
  BY DEF OneFate
<1>1. /\ DOMAIN Fates = 1..6
      /\ Fates[1] = Elems(got) /\ Fates[2] = Elems(q) /\ Fates[3] = dropped
      /\ Fates[4] = flushed /\ Fates[5] = filtered /\ Fates[6] = InFlight
  BY DEF Fates
<1>2. PICK i \in 1..6 : n \in Fates[i]
  BY <1>1 DEF Partition
<1>3. ASSUME NEW k \in 1..6, NEW l \in 1..6, n \in Fates[k], n \in Fates[l]
      PROVE  k = l
  BY <1>1, <1>3 DEF Partition
<1>4. QED
  BY <1>1, <1>2, <1>3

\* No frame is lost without a reason and none is counted twice, however many
\* threads read and flush and however the pushes fall between them.
THEOREM OneFateCorrect == Spec => []OneFate
<1>1. Init => Fifo /\ Newest /\ Partition
  BY DEF Init, Fifo, Newest, Partition, Elems, InFlight
<1>2. QED
  BY <1>1, TypeInit, TypeStep, OrderStep, PartitionStep,
     PartitionGivesOneFate, PTL
  DEF Spec

-----------------------------------------------------------------------------
(* Gaps.  The latch can be lowered only by a thread that is in the midst   *)
(* of a clear.  So the invariant says more than that a gap is reported: as *)
(* long as one shows that no clear was under way to hide, none is under    *)
(* way now.  (A clear that begins takes the frames around the gap along.)  *)

Gap(n) == \E m \in Elems(q) : m < n

GapsKept ==
    \A n \in dropped \ raced : Gap(n) => overflow /\ Flushing = {}

\* A step that drops nothing, queues nothing and leaves the latch alone.
LEMMA GapsPreserved ==
    ASSUME GapsKept, Elems(q') \subseteq Elems(q),
           UNCHANGED <<dropped, raced, overflow, Flushing>>
    PROVE  GapsKept'
  BY DEF GapsKept, Gap

LEMMA GapsStep ==
    TypeOK /\ Fifo /\ Partition /\ GapsKept /\ [Next]_vars => GapsKept'
<1> SUFFICES ASSUME TypeOK, Fifo, Partition, GapsKept, [Next]_vars
             PROVE  GapsKept'
  OBVIOUS
<1>0. pc \in [Threads -> {"idle", "clearing", "closing"} \cup Blocked]
  BY DEF TypeOK, ThreadsOK
<1>1. ASSUME NEW id \in CanIds, PushFilter(id) PROVE GapsKept'
  BY <1>1, GapsPreserved DEF PushFilter, ringVars, Flushing
<1>2. ASSUME PushEnqueue PROVE GapsKept'
  <2>1. Flushing' = Flushing
    BY <1>2 DEF PushEnqueue, Pushing, Flushing
  <2>2. CASE overflow' = TRUE /\ DropNewcomer
    BY <2>1, <2>2 DEF DropNewcomer, GapsKept, Gap
  <2>3. CASE Enqueue("notify")
    <3>1. q \in Seq(Frame) /\ cur \in Frame /\ cur = arrived
      BY <1>2, Numbers
      DEF PushEnqueue, Pushing, TypeOK, RingOK, RxOK, Frame
    <3>2. Elems(q') = Elems(q) \cup {cur}
      BY <2>3, <3>1, AppendElems DEF Enqueue
    <3>3. \A n \in dropped : ~(cur < n)
      BY <3>1, Numbers DEF Partition, Frame
    <3>4. QED
      BY <2>1, <2>3, <3>2, <3>3 DEF Enqueue, GapsKept, Gap
  <2>4. QED
    BY <1>2, <2>2, <2>3 DEF PushEnqueue, Pushing, DropNewcomer, Enqueue
<1>3. ASSUME PushNotifyOne PROVE GapsKept'
  <2>1. Flushing' = Flushing
    BY <1>0, <1>3 DEF PushNotifyOne, Parked, Flushing
  <2>2. QED
    BY <1>3, <2>1, GapsPreserved DEF PushNotifyOne, ringVars, histVars
<1>4. ASSUME NEW t \in Threads,
             \/ Pop(t)
             \/ \E op \in {"pop_wait", "peek_wait"}, w \in Timeouts :
                    ReadWait(t, op, w)
             \/ Resume(t)
      PROVE  GapsKept'
  <2>1. UNCHANGED <<dropped, raced, overflow>>
    BY <1>4 DEF Pop, ReadWait, Resume
  <2>2. Flushing' = Flushing
    BY <1>0, <1>4 DEF Pop, ReadWait, Resume, Flushing
  <2>3. UNCHANGED <<q, got>> \/ \E op : TakeFront(op)
    BY <1>4 DEF Pop, ReadWait, Resume
  <2>4. Elems(q') \subseteq Elems(q)
    BY <2>3, TakeFrontElems
  <2>5. QED
    BY <2>1, <2>2, <2>4, GapsPreserved
<1>5. ASSUME NEW t \in Threads, ClearRing(t) PROVE GapsKept'
  <2>1. Elems(q') = {}
    BY <1>5 DEF ClearRing, Elems
  <2>2. QED
    BY <2>1 DEF GapsKept, Gap
<1>6. ASSUME NEW t \in Threads, ClearOverflow(t) PROVE GapsKept'
  <2>1. t \in Flushing
    BY <1>6 DEF ClearOverflow, Flushing
  <2>2. UNCHANGED <<q, dropped, raced>>
    BY <1>6 DEF ClearOverflow, histVars
  <2>3. QED
    BY <2>1, <2>2 DEF GapsKept, Gap
<1>7. ASSUME NEW t \in Threads,
             \/ Park(t) \/ Expire(t) \/ SpuriousWake(t)
             \/ MarkClosed(t) \/ NotifyAll(t)
             \/ \E d \in Directive, e \in Envelopes : SetAccept(t, d, e)
      PROVE  GapsKept'
  <2>1. UNCHANGED <<q, dropped, raced, overflow>>
    BY <1>7 DEF Park, Expire, SpuriousWake, MarkClosed, NotifyAll, SetAccept,
                ringVars, histVars
  <2>2. Flushing' = Flushing
    BY <1>0, <1>7 DEF Park, Expire, SpuriousWake, MarkClosed, NotifyAll,
                      SetAccept, Flushing
  <2>3. QED
    BY <2>1, <2>2, GapsPreserved
<1>8. CASE UNCHANGED vars
  BY <1>8, GapsPreserved DEF vars, Flushing
<1>9. QED
  BY <1>1, <1>2, <1>3, <1>4, <1>5, <1>6, <1>7, <1>8
  DEF Next, RxThread, AppThread

\* A frame missing between frames that are still queued is reported by the
\* overrun latch unless it was dropped between the two steps of a clear, for
\* every capacity and any number of threads that read, flush and close.
THEOREM GapReportedCorrect == Spec => []GapReportedUnlessFlushing
<1>1. Init => Fifo /\ Newest /\ Partition /\ GapsKept
  BY DEF Init, Fifo, Newest, Partition, Elems, InFlight, GapsKept
<1>2. GapsKept => GapReportedUnlessFlushing
  BY DEF GapsKept, Gap, GapReportedUnlessFlushing
<1>3. QED
  BY <1>1, <1>2, TypeInit, TypeStep, OrderStep, PartitionStep, GapsStep, PTL
  DEF Spec

-----------------------------------------------------------------------------
(* Closing.  That no reader is left waiting rests on the lock: a thread    *)
(* that is about to wait holds it, so the flag cannot change under it.     *)

LEMMA ParkingStep ==
    TypeOK /\ ParkingSound /\ [Next]_vars => ParkingSound'
<1> SUFFICES ASSUME TypeOK, ParkingSound, [Next]_vars PROVE ParkingSound'
  OBVIOUS
<1> USE DEF TypeOK, ThreadsOK, ParkingSound
<1>1. CASE RxThread
  <2>1. CASE QLocked
    BY <1>1, <2>1
    DEF RxThread, PushFilter, PushEnqueue, Pushing, DropNewcomer,
              Enqueue, PushNotifyOne,
                      ringVars, Parked
  <2>2. CASE ~QLocked
    BY <1>1, <2>2
    DEF RxThread, PushFilter, PushEnqueue, Pushing, DropNewcomer,
              Enqueue, PushNotifyOne,
                      QLocked, Parked
  <2>3. QED
    BY <2>1, <2>2
<1>2. ASSUME NEW t \in Threads, Pop(t) PROVE ParkingSound'
  BY <1>2 DEF Pop, QLocked
<1>3. ASSUME NEW t \in Threads, NEW op, NEW w, ReadWait(t, op, w)
      PROVE  ParkingSound'
  BY <1>3 DEF ReadWait, QLocked, MustWait
<1>4. ASSUME NEW t \in Threads, Park(t) \/ Expire(t) \/ SpuriousWake(t)
      PROVE  ParkingSound'
  BY <1>4 DEF Park, Expire, SpuriousWake, ringVars
<1>5. ASSUME NEW t \in Threads, Resume(t) PROVE ParkingSound'
  BY <1>5 DEF Resume, QLocked, MustWait
<1>6. ASSUME NEW t \in Threads, ClearRing(t) \/ ClearOverflow(t)
      PROVE  ParkingSound'
  BY <1>6 DEF ClearRing, ClearOverflow
<1>7. ASSUME NEW t \in Threads, MarkClosed(t) PROVE ParkingSound'
  BY <1>7 DEF MarkClosed, QLocked
<1>8. ASSUME NEW t \in Threads, NotifyAll(t) PROVE ParkingSound'
  BY <1>8 DEF NotifyAll, ringVars
<1>9. ASSUME NEW t \in Threads, NEW d, NEW e, SetAccept(t, d, e)
      PROVE  ParkingSound'
  BY <1>9 DEF SetAccept
<1>10. CASE UNCHANGED vars
  BY <1>10 DEF vars
<1>11. QED
  BY <1>1, <1>2, <1>3, <1>4, <1>5, <1>6, <1>7, <1>8, <1>9, <1>10
  DEF Next, AppThread

LEMMA CloseStep ==
    TypeOK /\ ParkingSound /\ CloseWakesAll /\ [Next]_vars => CloseWakesAll'
<1> SUFFICES ASSUME TypeOK, ParkingSound, CloseWakesAll, [Next]_vars
             PROVE  CloseWakesAll'
  OBVIOUS
<1> USE DEF TypeOK, ThreadsOK, CloseWakesAll
<1>1. CASE RxThread
  BY <1>1 DEF RxThread, PushFilter, PushEnqueue, Pushing, DropNewcomer,
              Enqueue, PushNotifyOne, ringVars,
              Parked
<1>2. ASSUME NEW t \in Threads, Pop(t) PROVE CloseWakesAll'
  BY <1>2 DEF Pop
<1>3. ASSUME NEW t \in Threads, NEW op, NEW w, ReadWait(t, op, w)
      PROVE  CloseWakesAll'
  BY <1>3 DEF ReadWait, MustWait
<1>4. ASSUME NEW t \in Threads, Park(t) \/ Expire(t) \/ SpuriousWake(t)
      PROVE  CloseWakesAll'
  BY <1>4 DEF Park, Expire, SpuriousWake, ParkingSound, ringVars
<1>5. ASSUME NEW t \in Threads, Resume(t) PROVE CloseWakesAll'
  BY <1>5 DEF Resume, MustWait
<1>6. ASSUME NEW t \in Threads, ClearRing(t) \/ ClearOverflow(t)
      PROVE  CloseWakesAll'
  BY <1>6 DEF ClearRing, ClearOverflow
<1>7. ASSUME NEW t \in Threads, MarkClosed(t) PROVE CloseWakesAll'
  BY <1>7 DEF MarkClosed
<1>8. ASSUME NEW t \in Threads, NotifyAll(t) PROVE CloseWakesAll'
  BY <1>8 DEF NotifyAll, ParkingSound, ringVars
<1>9. ASSUME NEW t \in Threads, NEW d, NEW e, SetAccept(t, d, e)
      PROVE  CloseWakesAll'
  BY <1>9 DEF SetAccept
<1>10. CASE UNCHANGED vars
  BY <1>10 DEF vars
<1>11. QED
  BY <1>1, <1>2, <1>3, <1>4, <1>5, <1>6, <1>7, <1>8, <1>9, <1>10
  DEF Next, AppThread

\* Once mark_closed has notified, no reader waits or is about to, however
\* many there are and whenever they tested the condition.
THEOREM CloseWakesAllCorrect == Spec => []CloseWakesAll
<1>1. Init => ParkingSound /\ CloseWakesAll
  BY DEF Init, ParkingSound, CloseWakesAll
<1>2. QED
  BY <1>1, TypeInit, TypeStep, ParkingStep, CloseStep, PTL DEF Spec

-----------------------------------------------------------------------------
(* Wakeups.  push notifies one waiter per frame, so the invariant counts:  *)
(* while a thread waits, the frames in the ring are no more than the       *)
(* threads already woken plus the notification still to come.  A woken     *)
(* canReadSync takes no frame, so this holds only where nobody calls it.   *)

Awake   == {t \in Threads : pc[t] \in {"woken", "expired"}}
Pending == IF rx = "notify" THEN 1 ELSE 0
Wakeups == Parked # {} => Len(q) <= Cardinality(Awake) + Pending

NoPeeking == \A t \in Threads : call[t].op # "peek_wait"

Counted == EveryWaiterReads => NoPeeking /\ Wakeups

\* What the threads may call does not change.
LEMMA CallsStay == [Next]_vars => calls' = calls
  BY DEF Next, RxThread, AppThread, PushFilter, PushEnqueue, Pushing,
         PushNotifyOne, Pop, ReadWait, Park, Expire, SpuriousWake, Resume,
         ClearRing, ClearOverflow, MarkClosed, NotifyAll, SetAccept, vars

LEMMA PeekingStep ==
    EveryWaiterReads /\ TypeOK /\ NoPeeking /\ [Next]_vars => NoPeeking'
<1> SUFFICES ASSUME EveryWaiterReads, TypeOK, NoPeeking, [Next]_vars
             PROVE  NoPeeking'
  OBVIOUS
<1> USE DEF TypeOK, ThreadsOK, NoPeeking
<1>1. ASSUME NEW t \in Threads, NEW op, NEW w, ReadWait(t, op, w)
      PROVE  NoPeeking'
  BY <1>1 DEF ReadWait, EveryWaiterReads
<1>2. ASSUME NEW t \in Threads, Resume(t) PROVE NoPeeking'
  BY <1>2 DEF Resume, NoCall
<1>3. CASE call' = call
  BY <1>3
<1>4. QED
  BY <1>1, <1>2, <1>3
  DEF Next, RxThread, AppThread, PushFilter, PushEnqueue, Pushing,
      PushNotifyOne, Pop, Park, Expire, SpuriousWake, ClearRing,
      ClearOverflow, MarkClosed, NotifyAll, SetAccept, vars

LEMMA AwakeFinite ==
    /\ IsFiniteSet(Awake) /\ Cardinality(Awake) \in Nat
    /\ IsFiniteSet(Awake)' /\ Cardinality(Awake)' \in Nat
<1>1. IsFiniteSet(Threads)
  BY RingAssumption DEF RingAssumption
<1>2. Awake \subseteq Threads /\ Awake' \subseteq Threads
  BY DEF Awake
<1>3. QED
  BY <1>1, <1>2, FS_Subset, FS_CardinalityType

\* A step that neither adds a waiter or a frame nor loses a wakeup.
LEMMA WakeupsKept ==
    ASSUME TypeOK, Wakeups, Parked' \subseteq Parked, Awake \subseteq Awake',
           Len(q') \in Nat, Len(q') <= Len(q), Pending' >= Pending
    PROVE  Wakeups'
<1>1. Cardinality(Awake) <= Cardinality(Awake')
  BY AwakeFinite, FS_Subset
<1>2. Len(q) \in Nat
  BY DEF TypeOK, RingOK
<1>3. QED
  BY <1>1, <1>2, AwakeFinite DEF Wakeups, Pending

LEMMA TakeFrontLength ==
    ASSUME TypeOK, NEW op, TakeFront(op)
    PROVE  /\ Len(q) \in Nat /\ Len(q') \in Nat /\ Len(q') <= Len(q)
           /\ op # "peek_wait" => Len(q') = 0 \/ Len(q') = Len(q) - 1
  BY TailFacts DEF TakeFront, TypeOK, RingOK

LEMMA WakeupsStep ==
    TypeOK /\ ParkingSound /\ NoPeeking /\ Wakeups /\ [Next]_vars => Wakeups'
<1> SUFFICES ASSUME TypeOK, ParkingSound, NoPeeking, Wakeups, [Next]_vars
             PROVE  Wakeups'
  OBVIOUS
<1>0. /\ Len(q) \in Nat
      /\ pc \in [Threads -> {"idle", "clearing", "closing"} \cup Blocked]
  BY DEF TypeOK, RingOK, ThreadsOK
<1>1. ASSUME NEW id \in CanIds, PushFilter(id) PROVE Wakeups'
  BY <1>0, <1>1, WakeupsKept DEF PushFilter, ringVars, Parked, Awake, Pending
<1>2. ASSUME PushEnqueue PROVE Wakeups'
  <2>1. Parked' = Parked /\ Awake' = Awake /\ Pending = 0
    BY <1>2
    DEF PushEnqueue, Pushing, DropNewcomer, Enqueue, Parked, Awake, Pending
  <2>2. CASE q' = q
    BY <1>0, <2>1, <2>2, WakeupsKept DEF Pending
  <2>3. CASE q' = Append(q, cur) /\ rx' = "notify"
    <3>1. Len(q') = Len(q) + 1 /\ Pending' = 1
      BY <2>3 DEF Pending, TypeOK, RingOK
    <3>2. QED
      BY <1>0, <2>1, <3>1, AwakeFinite DEF Wakeups
  <2>4. QED
    BY <1>2, <2>2, <2>3 DEF PushEnqueue, Pushing, DropNewcomer, Enqueue
<1>3. ASSUME PushNotifyOne PROVE Wakeups'
  <2>1. q' = q /\ Pending = 1 /\ Pending' = 0
    BY <1>3 DEF PushNotifyOne, ringVars, Pending
  <2>2. CASE Parked = {}
    BY <1>3, <2>2 DEF PushNotifyOne, Parked, Wakeups
  <2>3. ASSUME NEW t \in Parked, pc' = [pc EXCEPT ![t] = "woken"]
        PROVE  Wakeups'
    <3>1. Awake' = Awake \cup {t} /\ t \notin Awake
      BY <1>0, <2>3 DEF Awake, Parked
    <3>2. Cardinality(Awake') = Cardinality(Awake) + 1
      BY <3>1, AwakeFinite, FS_AddElement
    <3>3. QED
      BY <1>0, <2>1, <2>3, <3>2, AwakeFinite DEF Wakeups
  <2>4. QED
    BY <1>3, <2>2, <2>3 DEF PushNotifyOne
<1>4. ASSUME NEW t \in Threads, Pop(t) PROVE Wakeups'
  BY <1>0, <1>4, WakeupsKept, TakeFrontLength
  DEF Pop, Parked, Awake, Pending, rxVars
<1>5. ASSUME NEW t \in Threads, NEW op, NEW w, ReadWait(t, op, w)
      PROVE  Wakeups'
  <2>1. Parked' = Parked /\ Awake' = Awake /\ Pending' = Pending
    BY <1>0, <1>5 DEF ReadWait, Parked, Awake, Pending, rxVars
  <2>2. q' = q \/ TakeFront(op)
    BY <1>5 DEF ReadWait
  <2>3. QED
    BY <1>0, <2>1, <2>2, WakeupsKept, TakeFrontLength DEF Pending
<1>6. ASSUME NEW t \in Threads, Park(t) PROVE Wakeups'
  <2>1. q' = <<>>
    BY <1>6 DEF Park, ParkingSound, ringVars
  <2>2. QED
    BY <2>1, AwakeFinite DEF Wakeups, Pending
<1>7. ASSUME NEW t \in Threads, Expire(t) \/ SpuriousWake(t) PROVE Wakeups'
  <2>1. /\ Parked' \subseteq Parked /\ Awake \subseteq Awake'
        /\ q' = q /\ Pending' = Pending
    BY <1>0, <1>7 DEF Expire, SpuriousWake, Parked, Awake, Pending, ringVars,
                      rxVars
  <2>2. QED
    BY <1>0, <2>1, WakeupsKept DEF Pending
<1>8. ASSUME NEW t \in Threads, Resume(t) PROVE Wakeups'
  <2>1. Parked' = Parked /\ Pending' = Pending
    BY <1>0, <1>8 DEF Resume, Parked, Pending, rxVars
  <2>2. CASE q' = <<>>
    BY <2>2, AwakeFinite DEF Wakeups, Pending
  <2>3. CASE TakeFront(call[t].op) /\ pc' = [pc EXCEPT ![t] = "idle"]
    <3>1. Len(q') \in Nat /\ (Len(q') = 0 \/ Len(q') = Len(q) - 1)
      BY <1>8, <2>3, TakeFrontLength DEF NoPeeking
    <3>2. Awake' = Awake \ {t} /\ t \in Awake
      BY <1>0, <1>8, <2>3 DEF Resume, Awake
    <3>3. Cardinality(Awake') = Cardinality(Awake) - 1
      BY <3>2, AwakeFinite, FS_RemoveElement
    <3>4. Pending \in Nat /\ Pending' = Pending
      BY <2>1 DEF Pending
    <3>5. QED
      BY <1>0, <2>1, <3>1, <3>3, <3>4, AwakeFinite DEF Wakeups
  <2>4. QED
    BY <1>8, <2>2, <2>3 DEF Resume, MustWait
<1>9. ASSUME NEW t \in Threads, ClearRing(t) PROVE Wakeups'
  <2>1. q' = <<>>
    BY <1>9 DEF ClearRing
  <2>2. QED
    BY <2>1, AwakeFinite DEF Wakeups, Pending
<1>10. ASSUME NEW t \in Threads, ClearOverflow(t) \/ MarkClosed(t)
       PROVE  Wakeups'
  <2>1. Parked' = Parked /\ Awake' = Awake /\ q' = q /\ Pending' = Pending
    BY <1>0, <1>10 DEF ClearOverflow, MarkClosed, Parked, Awake, Pending,
                       rxVars
  <2>2. QED
    BY <1>0, <2>1, WakeupsKept DEF Pending
<1>11. ASSUME NEW t \in Threads, NotifyAll(t) PROVE Wakeups'
  <2>1. Parked' = {}
    BY <1>11 DEF NotifyAll, Parked
  <2>2. QED
    BY <2>1 DEF Wakeups
<1>12. CASE UNCHANGED <<q, rx, pc>>
  BY <1>12 DEF Wakeups, Parked, Awake, Pending
<1>13. QED
  <2>1. ASSUME NEW t \in Threads, NEW d, NEW e, SetAccept(t, d, e)
        PROVE  UNCHANGED <<q, rx, pc>>
    BY <2>1 DEF SetAccept, rxVars
  <2>2. CASE UNCHANGED vars
    BY <1>12, <2>2 DEF vars
  <2>3. QED
    BY <1>1, <1>2, <1>3, <1>4, <1>5, <1>6, <1>7, <1>8, <1>9, <1>10, <1>11,
       <1>12, <2>1, <2>2
    DEF Next, RxThread, AppThread

LEMMA CountedStep ==
    TypeOK /\ ParkingSound /\ Counted /\ [Next]_vars => Counted'
  BY CallsStay, PeekingStep, WakeupsStep DEF Counted, EveryWaiterReads

\* In an application whose every waiting thread takes a frame (nobody calls
\* canReadSync), no reader waits beside a queued frame without a wakeup under
\* way: one notify_one per pushed frame is enough, for any number of readers
\* and any capacity, with flushes and timeouts at any time.
THEOREM NoStrandedReaderCorrect == Spec => []NoStrandedReader
<1>1. Init => ParkingSound /\ Counted
  BY DEF Init, ParkingSound, Counted, NoPeeking, NoCall, Wakeups, Parked
<1>2. TypeOK /\ Counted => NoStrandedReader
  <2> SUFFICES ASSUME TypeOK, Wakeups, Parked # {}, q # <<>>, rx # "notify"
               PROVE  \E t \in Threads : pc[t] \in {"woken", "expired"}
    BY DEF NoStrandedReader, Counted
  <2>1. Len(q) >= 1 /\ Len(q) \in Nat
    BY DEF TypeOK, RingOK
  <2>2. Cardinality(Awake) >= 1
    BY <2>1, AwakeFinite DEF Wakeups, Pending
  <2>3. Awake # {}
    BY <2>2, AwakeFinite, FS_EmptySet
  <2>4. QED
    BY <2>3 DEF Awake
<1>3. QED
  BY <1>1, <1>2, TypeInit, TypeStep, ParkingStep, CountedStep, PTL DEF Spec

-----------------------------------------------------------------------------
(* The ring implements the lossy queue. *)

LEMMA RefinementInit == Init => LQ!Init
  BY DEF Init, LQ!Init, Flushing, Accepts, Directive

\* The ids the filter in force lets through.
PassingIds == {id \in CanIds : Accepts(filters, id)}

LEMMA TakeFrontRefines ==
    ASSUME TypeOK, NEW op, TakeFront(op),
           UNCHANGED <<filters, rxVars, overflow, Flushing>>
    PROVE  [LQ!Next]_(LQ!vars)
<1>1. PassingIds' = PassingIds /\ (rx = "enqueue")' = (rx = "enqueue")
  BY DEF PassingIds, Accepts, rxVars
<1>2. QED
  BY <1>1 DEF TakeFront, LQ!Next, LQ!Take, LQ!vars, rxVars, PassingIds

\* Every step of the ring is a step of the queue or changes nothing there.
LEMMA RefinementStep == TypeOK /\ [Next]_vars => [LQ!Next]_(LQ!vars)
<1> SUFFICES ASSUME TypeOK, [Next]_vars PROVE [LQ!Next]_(LQ!vars)
  OBVIOUS
<1>0. /\ arrived \in Nat /\ Len(q) \in Nat /\ RING_CAP \in Nat
      /\ pc \in [Threads -> {"idle", "clearing", "closing"} \cup Blocked]
  BY Numbers DEF TypeOK, RxOK, RingOK, ThreadsOK
<1>1. ASSUME NEW id \in CanIds, PushFilter(id) PROVE [LQ!Next]_(LQ!vars)
  <2>1. /\ UNCHANGED <<q, got, overflow, filters, pc>>
        /\ rx = "idle" /\ arrived' = arrived + 1
    BY <1>1 DEF PushFilter, ringVars
  <2>2. PassingIds' = PassingIds /\ Flushing' = Flushing
    BY <2>1 DEF PassingIds, Accepts, Flushing
  <2>3. (rx = "enqueue")' = (id \in PassingIds)
    BY <1>1 DEF PushFilter, PassingIds
  <2>4. LQ!Arrive(id)
    BY <2>1, <2>2, <2>3 DEF LQ!Arrive, PassingIds
  <2>5. QED
    BY <2>4 DEF LQ!Next
<1>2. ASSUME PushEnqueue PROVE [LQ!Next]_(LQ!vars)
  <2>1. /\ cur = arrived /\ rx = "enqueue" /\ rx' # "enqueue"
        /\ UNCHANGED <<arrived, got, filters, pc>>
    BY <1>2 DEF PushEnqueue, Pushing, DropNewcomer, Enqueue, TypeOK, RxOK
  <2>2. PassingIds' = PassingIds /\ Flushing' = Flushing
    BY <2>1 DEF PassingIds, Accepts, Flushing
  <2>3. CASE Len(q) >= RING_CAP
    <3>1. LQ!Drop
      BY <1>0, <1>2, <2>1, <2>2, <2>3
      DEF PushEnqueue, DropNewcomer, LQ!Drop, TypeOK, RingOK, PassingIds
    <3>2. QED
      BY <3>1 DEF LQ!Next
  <2>4. CASE Len(q) < RING_CAP
    <3>1. LQ!Put
      BY <1>0, <1>2, <2>1, <2>2, <2>4
      DEF PushEnqueue, Enqueue, LQ!Put, PassingIds
    <3>2. QED
      BY <3>1 DEF LQ!Next
  <2>5. QED
    BY <1>0, <2>3, <2>4
<1>3. ASSUME NEW t \in Threads,
             \/ Pop(t)
             \/ \E op \in {"pop_wait", "peek_wait"}, w \in Timeouts :
                    ReadWait(t, op, w)
             \/ Resume(t)
      PROVE  [LQ!Next]_(LQ!vars)
  <2>1. UNCHANGED <<filters, rxVars, overflow>>
    BY <1>3 DEF Pop, ReadWait, Resume
  <2>2. Flushing' = Flushing
    BY <1>0, <1>3 DEF Pop, ReadWait, Resume, Flushing
  <2>3. CASE \E op : TakeFront(op)
    BY <2>1, <2>2, <2>3, TakeFrontRefines
  <2>4. CASE q' = q /\ got' = got
    <3>1. PassingIds' = PassingIds /\ (rx = "enqueue")' = (rx = "enqueue")
      BY <2>1 DEF PassingIds, Accepts, rxVars
    <3>2. QED
      BY <2>1, <2>2, <2>4, <3>1 DEF LQ!vars, rxVars, PassingIds
  <2>5. QED
    BY <1>3, <2>3, <2>4 DEF Pop, ReadWait, Resume
<1>4. ASSUME NEW t \in Threads, ClearRing(t) PROVE [LQ!Next]_(LQ!vars)
  <2>1. Flushing' = Flushing \cup {t} /\ t \notin Flushing
    BY <1>0, <1>4 DEF ClearRing, Flushing
  <2>2. /\ UNCHANGED <<filters, rx, arrived, got, overflow>>
        /\ q' = <<>>
    BY <1>4 DEF ClearRing, rxVars
  <2>3. PassingIds' = PassingIds
    BY <2>2 DEF PassingIds, Accepts
  <2>4. LQ!Flush(t)
    BY <2>1, <2>2, <2>3 DEF LQ!Flush, PassingIds
  <2>5. QED
    BY <2>4 DEF LQ!Next
<1>5. ASSUME NEW t \in Threads, ClearOverflow(t) PROVE [LQ!Next]_(LQ!vars)
  <2>1. Flushing' = Flushing \ {t} /\ t \in Flushing
    BY <1>0, <1>5 DEF ClearOverflow, Flushing
  <2>2. UNCHANGED <<q, filters, rx, arrived, got>> /\ overflow' = FALSE
    BY <1>5 DEF ClearOverflow, rxVars, histVars
  <2>3. PassingIds' = PassingIds
    BY <2>2 DEF PassingIds, Accepts
  <2>4. LQ!EndFlush(t)
    BY <2>1, <2>2, <2>3 DEF LQ!EndFlush, PassingIds
  <2>5. QED
    BY <2>4 DEF LQ!Next
<1>6. ASSUME NEW t \in Threads, NEW d \in Directive, NEW e \in Envelopes,
             SetAccept(t, d, e)
      PROVE  [LQ!Next]_(LQ!vars)
  <2>1. UNCHANGED <<q, overflow, rx, arrived, got, pc>>
    BY <1>6 DEF SetAccept, rxVars, histVars
  <2>2. Flushing' = Flushing
    BY <2>1 DEF Flushing
  <2>3. LQ!SetFilter
    BY <2>1, <2>2 DEF LQ!SetFilter
  <2>4. QED
    BY <2>3 DEF LQ!Next
<1>7. ASSUME UNCHANGED <<q, overflow, filters, rx = "enqueue", arrived, got,
                         Flushing>>
      PROVE  [LQ!Next]_(LQ!vars)
  <2>1. PassingIds' = PassingIds
    BY <1>7 DEF PassingIds, Accepts
  <2>2. QED
    BY <1>7, <2>1 DEF LQ!vars, PassingIds
<1>8. ASSUME \/ PushNotifyOne
             \/ \E t \in Threads : \/ Park(t) \/ Expire(t) \/ SpuriousWake(t)
                                   \/ MarkClosed(t) \/ NotifyAll(t)
      PROVE  [LQ!Next]_(LQ!vars)
  <2>1. Flushing' = Flushing
    BY <1>0, <1>8 DEF PushNotifyOne, Parked, Park, Expire, SpuriousWake,
                      MarkClosed, NotifyAll, Flushing
  <2>2. /\ UNCHANGED <<q, overflow, filters, arrived, got>>
        /\ (rx = "enqueue")' = (rx = "enqueue")
    BY <1>8 DEF PushNotifyOne, Park, Expire, SpuriousWake, MarkClosed,
                NotifyAll, ringVars, rxVars, histVars
  <2>3. QED
    BY <1>7, <2>1, <2>2
<1>9. CASE UNCHANGED vars
  BY <1>7, <1>9 DEF vars, Flushing
<1>10. QED
  BY <1>1, <1>2, <1>3, <1>4, <1>5, <1>6, <1>8, <1>9
  DEF Next, RxThread, AppThread

\* The receive ring implements the lossy first-in first-out queue: a frame
\* the filter let in is queued, or dropped by a full ring in a step that
\* raises the overrun flag, and only the end of a flush lowers the flag.
THEOREM RingImplementsLossyQueue == Spec => ImplementsLossyQueue
  BY RefinementInit, RefinementStep, TypeInit, TypeStep, PTL
  DEF Spec, LQ!Spec, ImplementsLossyQueue

=============================================================================
